--------------------------- MODULE SnapshotCatalog ---------------------------
(***************************************************************************)
(* The two buckets that `snapshot create`, `snapshot list` and `snapshot   *)
(* restore` share, while runs of create fill one and a restore replaces    *)
(* the other.                                                              *)
(*                                                                         *)
(* There is no catalogue: a snapshot is the pair of an etcd image and a    *)
(* data prefix with the same ID.  List and restore find them with the same *)
(* two listings and read nothing else; so one reader stands for either,    *)
(* what each makes of the listings is an operator of its own (Shown and    *)
(* ShownComplete, Resolve), and a reader that is a restore goes on.        *)
(*                                                                         *)
(* No command knows of another.  SnapshotCreate and SnapshotRestore are    *)
(* the two commands in detail, each without the other; here a step of a    *)
(* run is one that the other command, or the reader, can tell apart.       *)
(***************************************************************************)
EXTENDS Integers, FiniteSets, FiniteSetsExt

CONSTANTS
  MaxId,        \* bound: IDs are 1..MaxId, in the order of their timestamps
  Objects,      \* the files Milvus may ever store
  MaxListed,    \* maxListSnapshots
  MaxActive,    \* bound: the runs of create that are under way at once
  MaxRestores,  \* bound: how often the data is replaced
  LeaseLasts    \* TRUE: no run takes longer than gcPauseSeconds

ASSUME CatalogAssumption ==
  /\ {MaxId, MaxListed, MaxActive} \subseteq Nat \ {0}
  /\ MaxRestores \in Nat
  /\ LeaseLasts \in BOOLEAN

VARIABLES
  run,       \* the run of create of each ID
  images,    \* IDs with an etcd image in the bucket
  image,     \* what each image records
  stored,    \* the files under the data prefix of each ID
  instance,  \* Milvus, its etcd and the root prefix
  written,   \* every file Milvus ever stored: names are not used twice
  reader,    \* a list, or a restore
  restores   \* how often the data was replaced

vars == <<run, images, image, stored, instance, written, reader, restores>>

-----------------------------------------------------------------------------
Ids == 1..MaxId

NoId == 0

\* What etcd records: the files Milvus refers to, and the write denial, which
\* is a property of the database like any other.
Etcd == [refs : SUBSET Objects, deny : BOOLEAN]

\* A prefix is listed once it holds a file.
Prefixes == {i \in Ids : stored[i] # {}}

RunState ==
  [pc     : {"none", "deny", "pause", "flush", "upload", "keys", "copy", "resume", "allow",
             "ended"},
   ticket : BOOLEAN,           \* PauseGC gave a ticket
   lease  : {"none", "held", "over"},  \* as the server sees it
   buf    : Etcd,              \* the image in memory
   keys   : SUBSET Objects,    \* left to copy
   result : {"none", "ok", "error"},   \* how the body returned
   lost   : SUBSET Objects,    \* history: files missing when it captured
   kept   : BOOLEAN]           \* history: succeeded and still held its lease

InstanceState == [up : BOOLEAN, etcd : Etcd, root : SUBSET Objects]

ReaderState ==
  [pc      : {"idle", "etcd", "data", "done", "delete", "list", "copy", "start", "restored"},
   etcdIDs : SUBSET Ids,
   s3IDs   : SUBSET Ids,
   before  : SUBSET Ids,         \* history: runs that had succeeded
   id      : Ids \cup {NoId},
   keys    : SUBSET Objects,     \* left to delete, or to copy
   refused : SUBSET Objects,     \* history: keys S3 did not delete
   sound   : BOOLEAN]            \* history: the run of id had kept its lease

TypeOK ==
  /\ run \in [Ids -> RunState]
  /\ images \in SUBSET Ids
  /\ image \in [Ids -> Etcd]
  /\ stored \in [Ids -> SUBSET Objects]
  /\ instance \in InstanceState
  /\ written \in SUBSET Objects
  /\ reader \in ReaderState
  /\ restores \in 0..MaxRestores

NoEtcd == [refs |-> {}, deny |-> FALSE]

NoReader == [pc |-> "idle", etcdIDs |-> {}, s3IDs |-> {}, before |-> {}, id |-> NoId,
             keys |-> {}, refused |-> {}, sound |-> FALSE]

Init ==
  /\ run = [i \in Ids |-> [pc |-> "none", ticket |-> FALSE, lease |-> "none", buf |-> NoEtcd,
                           keys |-> {}, result |-> "none", lost |-> {}, kept |-> FALSE]]
  /\ images = {}
  /\ image = [i \in Ids |-> NoEtcd]
  /\ stored = [i \in Ids |-> {}]
  /\ instance = [up |-> TRUE, etcd |-> NoEtcd, root |-> {}]
  /\ written = {}
  /\ reader = NoReader
  /\ restores = 0

-----------------------------------------------------------------------------
(***************************************************************************)
(* The runs of `snapshot create`.                                          *)
(***************************************************************************)
Begin(i) ==
  /\ run[i].pc = "none"
  /\ \A j \in Ids : j < i => run[j].pc # "none"
  /\ Cardinality({j \in Ids : run[j].pc \notin {"none", "ended"}}) < MaxActive
  /\ run' = [run EXCEPT ![i] = [@ EXCEPT !.pc = "deny"]]
  /\ UNCHANGED <<images, image, stored, instance, written, reader, restores>>

\* A process ends, and what it had in memory is gone.
Ended(rec) == [rec EXCEPT !.pc = "ended", !.buf = NoEtcd, !.keys = {}]

Denied(etcd, value) == [etcd EXCEPT !.deny = value]

\* Step 1: one database of the loop, which may be the last.
Deny(i) ==
  /\ run[i].pc = "deny"
  /\ instance.up
  /\ instance' = [instance EXCEPT !.etcd = Denied(instance.etcd, TRUE)]
  /\ UNCHANGED run \/ run' = [run EXCEPT ![i] = [@ EXCEPT !.pc = "pause"]]
  /\ UNCHANGED <<images, image, stored, written, reader, restores>>

\* An error in the loop returns before the defer is registered: what has been
\* denied, the database of the lost answer included, stays denied.
DenyFails(i) ==
  /\ run[i].pc = "deny"
  /\ \/ UNCHANGED instance
     \/ instance.up /\ instance' = [instance EXCEPT !.etcd = Denied(instance.etcd, TRUE)]
  /\ run' = [run EXCEPT ![i] = [Ended(@) EXCEPT !.result = "error"]]
  /\ UNCHANGED <<images, image, stored, written, reader, restores>>

\* Step 2.  The pause may fail, or be granted without an answer.
Pause(i) ==
  /\ run[i].pc = "pause"
  /\ \E lease \in {"none", "held"}, ticket \in BOOLEAN :
       /\ lease = "held" => instance.up
       /\ ticket => lease = "held"
       /\ run' = [run EXCEPT ![i] = [@ EXCEPT !.pc = "flush", !.lease = lease, !.ticket = ticket]]
  /\ UNCHANGED <<images, image, stored, instance, written, reader, restores>>

\* Steps 3 and 4a, which need Milvus and its etcd.
Capture(i) ==
  /\ run[i].pc = "flush"
  /\ instance.up
  /\ run' = [run EXCEPT ![i] = [@ EXCEPT !.pc = "upload", !.buf = instance.etcd,
                                         !.lost = instance.etcd.refs \ instance.root]]
  /\ UNCHANGED <<images, image, stored, instance, written, reader, restores>>

Upload(i) ==
  /\ run[i].pc = "upload"
  /\ run' = [run EXCEPT ![i] = [@ EXCEPT !.pc = "keys"]]
  /\ images' = images \cup {i}
  /\ image' = [image EXCEPT ![i] = run[i].buf]
  /\ UNCHANGED <<stored, instance, written, reader, restores>>

\* The body ends; the defers are resuming GC, with a ticket, and allowing.
Returned(rec, result) ==
  [rec EXCEPT !.keys = {}, !.result = result, !.pc = IF rec.ticket THEN "resume" ELSE "allow"]

\* A run that has left to copy what is in keys; with nothing left it succeeded.
Copying(rec, keys) ==
  IF keys = {} THEN [Returned(rec, "ok") EXCEPT !.kept = (rec.lease = "held")]
               ELSE [rec EXCEPT !.keys = keys, !.pc = "copy"]

ListRootPage(i) ==  \* mutant: the paginator is not followed
  /\ run[i].pc = "keys"
  /\ \E page \in SUBSET instance.root :
       run' = [run EXCEPT ![i] = Copying(@, page)]
  /\ UNCHANGED <<images, image, stored, instance, written, reader, restores>>

\* Step 4c.  An empty root prefix is copied successfully.
ListRoot(i) ==
  /\ run[i].pc = "keys"
  /\ run' = [run EXCEPT ![i] = Copying(@, instance.root)]
  /\ UNCHANGED <<images, image, stored, instance, written, reader, restores>>

CopyOne(i) ==
  /\ run[i].pc = "copy"
  /\ \E o \in run[i].keys \cap instance.root :
       /\ stored' = [stored EXCEPT ![i] = @ \cup {o}]
       /\ run' = [run EXCEPT ![i] = Copying(@, run[i].keys \ {o})]
  /\ UNCHANGED <<images, image, instance, written, reader, restores>>

\* An error in the body: what has been stored is left in the bucket.  A copy
\* whose object is gone is such an error.
Fail(i) ==
  /\ run[i].pc \in {"flush", "upload", "keys", "copy"}
  /\ run' = [run EXCEPT ![i] = Returned(@, "error")]
  /\ UNCHANGED <<images, image, stored, instance, written, reader, restores>>

\* The defers, whose errors are logged: ResumeGC may fail, or come too late.
Resume(i) ==
  /\ run[i].pc = "resume"
  /\ \E lease \in {run[i].lease} \cup (IF run[i].lease = "held" THEN {"over"} ELSE {}) :
       run' = [run EXCEPT ![i] = [@ EXCEPT !.pc = "allow", !.lease = lease]]
  /\ UNCHANGED <<images, image, stored, instance, written, reader, restores>>

Allow(i) ==
  /\ run[i].pc = "allow"
  /\ instance.up
  /\ instance' = [instance EXCEPT !.etcd = Denied(instance.etcd, FALSE)]
  /\ run' = [run EXCEPT ![i] = Ended(@)]
  /\ UNCHANGED <<images, image, stored, written, reader, restores>>

\* Allowing fails on its own, or because Milvus has been torn down meanwhile.
AllowFails(i) ==
  /\ run[i].pc = "allow"
  /\ \/ UNCHANGED instance
     \/ instance.up /\ instance' = [instance EXCEPT !.etcd = Denied(instance.etcd, FALSE)]
  /\ run' = [run EXCEPT ![i] = Ended(@)]
  /\ UNCHANGED <<images, image, stored, written, reader, restores>>

Crash(i) ==
  /\ run[i].pc \notin {"none", "ended"}
  /\ run' = [run EXCEPT ![i] = Ended(@)]
  /\ UNCHANGED <<images, image, stored, instance, written, reader, restores>>

-----------------------------------------------------------------------------
(***************************************************************************)
(* Milvus.                                                                 *)
(***************************************************************************)
LeaseExpires(i) ==
  /\ run[i].lease = "held"
  /\ LeaseLasts => run[i].pc = "ended"
  /\ run' = [run EXCEPT ![i] = [@ EXCEPT !.lease = "over"]]
  /\ UNCHANGED <<images, image, stored, instance, written, reader, restores>>

\* Milvus stores a new file and records it in the place of those in old.
StoreFile(o, old) ==
  /\ o \notin written
  /\ written' = written \cup {o}
  /\ instance' = [instance EXCEPT !.root = instance.root \cup {o},
                                  !.etcd = [@ EXCEPT !.refs = (instance.etcd.refs \ old) \cup {o}]]
  /\ UNCHANGED <<run, images, image, stored, reader, restores>>

\* The proxy rejects writes under denial; the flush of step 3 stores what was
\* in memory.
Write(o) ==
  /\ instance.up
  /\ instance.etcd.deny => \E i \in Ids : run[i].pc = "flush"
  /\ StoreFile(o, {})

\* Compaction is not stopped by a denial, and the old file stays.
Compact(old, o) ==
  /\ instance.up
  /\ old \in instance.etcd.refs \cap instance.root
  /\ StoreFile(o, {old})

CollectGarbage(o) ==
  /\ instance.up
  /\ \A i \in Ids : run[i].lease # "held"
  /\ o \in instance.root \ instance.etcd.refs
  /\ instance' = [instance EXCEPT !.root = @ \ {o}]
  /\ UNCHANGED <<run, images, image, stored, written, reader, restores>>

-----------------------------------------------------------------------------
(***************************************************************************)
(* The reader: `snapshot list`, or `snapshot restore` without an ID.       *)
(***************************************************************************)
Oldest(ids) ==  \* mutant: sort.Reverse is forgotten
  {i \in ids : Cardinality({j \in ids : j < i}) < MaxListed}

\* ids sorted newest first and cut to maxListSnapshots.
Newest(ids) == {i \in ids : Cardinality({j \in ids : j > i}) < MaxListed}

\* What runList prints: the IDs shown, and those shown as complete.
Shown(etcdIDs, s3IDs) == Newest(etcdIDs \cup s3IDs)

ShownWithImage(etcdIDs, s3IDs) ==  \* mutant: the data part is not asked for
  Shown(etcdIDs, s3IDs) \cap etcdIDs

ShownComplete(etcdIDs, s3IDs) == Shown(etcdIDs, s3IDs) \cap etcdIDs \cap s3IDs

ResolveFirst(etcdIDs, s3IDs) ==  \* mutant: the last element of the reversed order
  LET complete == etcdIDs \cap s3IDs
  IN  IF complete = {} THEN NoId ELSE Min(complete)

\* What resolveLatestSnapshot returns; NoId is "no complete snapshots found".
Resolve(etcdIDs, s3IDs) ==
  LET complete == etcdIDs \cap s3IDs
  IN  IF complete = {} THEN NoId ELSE Max(complete)

BeginReading ==
  /\ reader.pc \in {"idle", "done", "restored"}
  /\ reader' = [NoReader EXCEPT !.pc = "etcd", !.before = {i \in Ids : run[i].result = "ok"}]
  /\ UNCHANGED <<run, images, image, stored, instance, written, restores>>

ListImages ==
  /\ reader.pc = "etcd"
  /\ reader' = [reader EXCEPT !.pc = "data", !.etcdIDs = images]
  /\ UNCHANGED <<run, images, image, stored, instance, written, restores>>

ListPrefixesWithMarker ==  \* mutant: the empty name is not skipped
  /\ reader.pc = "data"
  /\ reader' = [reader EXCEPT !.pc = "done", !.s3IDs = Prefixes \cup {NoId}]
  /\ UNCHANGED <<run, images, image, stored, instance, written, restores>>

ListPrefixes ==
  /\ reader.pc = "data"
  /\ reader' = [reader EXCEPT !.pc = "done", !.s3IDs = Prefixes]
  /\ UNCHANGED <<run, images, image, stored, instance, written, restores>>

ListingFails ==
  /\ reader.pc \in {"etcd", "data"}
  /\ reader' = NoReader
  /\ UNCHANGED <<run, images, image, stored, instance, written, restores>>

-----------------------------------------------------------------------------
(***************************************************************************)
(* A reader that is a restore.                                             *)
(***************************************************************************)

\* Steps 3 to 6: Milvus, its leases and its etcd are gone.  No run of create is
\* looked for, and an ID given by hand is not looked up in the listings.
TearDown ==
  /\ reader.pc = "done"
  /\ restores < MaxRestores
  /\ \E id \in {Resolve(reader.etcdIDs, reader.s3IDs)} \cup Ids :
       /\ id # NoId
       /\ reader' = [NoReader EXCEPT !.pc = "delete", !.id = id, !.keys = instance.root]
  /\ restores' = restores + 1
  /\ instance' = [instance EXCEPT !.up = FALSE, !.etcd = NoEtcd]
  /\ run' = [i \in Ids |-> IF run[i].lease = "held" THEN [run[i] EXCEPT !.lease = "over"]
                           ELSE run[i]]
  /\ UNCHANGED <<images, image, stored, written>>

\* Step 7: DeletePrefix of the root prefix.  A call that succeeds may still
\* have left a key, whose error nobody looks at.
DeleteOne ==
  /\ reader.pc = "delete"
  /\ IF reader.keys = {}
       THEN /\ reader' = [reader EXCEPT !.pc = "list"]
            /\ UNCHANGED instance
       ELSE \E o \in reader.keys :
              \/ /\ instance' = [instance EXCEPT !.root = @ \ {o}]
                 /\ reader' = [reader EXCEPT !.keys = @ \ {o}]
              \/ /\ reader' = [reader EXCEPT !.keys = @ \ {o}, !.refused = @ \cup {o}]
                 /\ UNCHANGED instance
  /\ UNCHANGED <<run, images, image, stored, written, restores>>

\* Step 8: CopyPrefix from the data prefix of the snapshot.
ListArchive ==
  /\ reader.pc = "list"
  /\ reader' = [reader EXCEPT !.pc = "copy", !.keys = stored[reader.id],
                              !.sound = run[reader.id].kept]
  /\ UNCHANGED <<run, images, image, stored, instance, written, restores>>

CopyBack ==
  /\ reader.pc = "copy"
  /\ IF reader.keys = {}
       THEN /\ reader' = [reader EXCEPT !.pc = "start"]
            /\ UNCHANGED instance
       ELSE \E o \in reader.keys :
              /\ instance' = [instance EXCEPT !.root = @ \cup {o}]
              /\ reader' = [reader EXCEPT !.keys = @ \ {o}]
  /\ UNCHANGED <<run, images, image, stored, written, restores>>

StartFromLatestImage ==  \* mutant: the image is that of a second resolution
  /\ reader.pc = "start"
  /\ reader.id \in images
  /\ reader' = [NoReader EXCEPT !.pc = "restored"]
  /\ LET id == Resolve(images, Prefixes \cup {reader.id})
     IN  instance' = [instance EXCEPT !.up = TRUE, !.etcd = image[id]]
  /\ UNCHANGED <<run, images, image, stored, written, restores>>

\* Steps 9 to 13: the image is downloaded, if there is one; etcd starts from it,
\* as it was captured, and Milvus follows.  Nothing allows writing.
StartFromSnapshot ==
  /\ reader.pc = "start"
  /\ reader.id \in images
  /\ reader' = [NoReader EXCEPT !.pc = "restored"]
  /\ instance' = [instance EXCEPT !.up = TRUE, !.etcd = image[reader.id]]
  /\ UNCHANGED <<run, images, image, stored, written, restores>>

RestoreFails ==
  /\ reader.pc \in {"delete", "list", "copy", "start"}
  /\ reader' = NoReader
  /\ UNCHANGED <<run, images, image, stored, instance, written, restores>>

Create(i) ==
  \/ Begin(i) \/ Deny(i) \/ DenyFails(i) \/ Pause(i) \/ Capture(i) \/ Upload(i)
  \/ ListRoot(i) \/ CopyOne(i) \/ Fail(i)
  \/ Resume(i) \/ Allow(i) \/ AllowFails(i) \/ Crash(i)

Milvus ==
  \/ \E i \in Ids : LeaseExpires(i)
  \/ \E o \in Objects : Write(o) \/ CollectGarbage(o)
  \/ \E old, o \in Objects : Compact(old, o)

Restore ==
  TearDown \/ DeleteOne \/ ListArchive \/ CopyBack \/ StartFromSnapshot \/ RestoreFails

Next ==
  \/ \E i \in Ids : Create(i)
  \/ Milvus
  \/ BeginReading \/ ListImages \/ ListPrefixes \/ ListingFails
  \/ Restore

Spec == Init /\ [][Next]_vars

-----------------------------------------------------------------------------
(***************************************************************************)
(* Properties of a reader.                                                 *)
(***************************************************************************)

\* A snapshot that was finished before `list` started is shown as complete,
\* unless the list is full of newer ones or there was nothing to copy, however
\* the two listings fall between the steps of the runs. (list.go:50-121)
FinishedIsListed ==
  reader.pc = "done" =>
    \A i \in reader.before : stored[i] # {} =>
      \/ i \in ShownComplete(reader.etcdIDs, reader.s3IDs)
      \/ Cardinality({j \in Shown(reader.etcdIDs, reader.s3IDs) : j > i}) = MaxListed

\* Resolving never falls back behind a snapshot that was finished before it
\* started, and what it returns has both parts. (restore.go:252-294)
ResolvesToNewest ==
  reader.pc = "done" =>
    LET id == Resolve(reader.etcdIDs, reader.s3IDs)
    IN  /\ \A i \in reader.before : stored[i] # {} => id >= i
        /\ id # NoId => id \in images /\ stored[id] # {}

\* Two commands that see the same bucket agree: restore takes the newest
\* snapshot that list shows as complete, if it shows one.
CommandsAgree ==
  LET complete == ShownComplete(images, Prefixes)
  IN  complete # {} => Resolve(images, Prefixes) = Max(complete)

\* "The latest complete snapshot" (restore.go:248, restore.go:44) is that of a
\* run that copied all it had to copy.
ResolvedIsWhole ==
  reader.pc = "done" =>
    LET id == Resolve(reader.etcdIDs, reader.s3IDs)
    IN  id # NoId => run[id].result = "ok" \/ image[id].refs \subseteq stored[id]

(***************************************************************************)
(* Properties of create beside restore.                                    *)
(***************************************************************************)

\* The archive of a run that still held its lease when it succeeded holds what
\* its image refers to, whatever is compacted and collected meanwhile; a restore
\* takes the lease away with Milvus.  Files that Milvus had lost before, to a
\* restore of an archive that was not whole, are lost to the archive as well.
ArchiveIsWhole ==
  \A i \in Ids : run[i].kept => image[i].refs \subseteq stored[i] \cup run[i].lost

\* A restore that succeeds, of a snapshot whose run had kept its lease when the
\* archive was listed, starts a Milvus that has every file it refers to; and no
\* file that is not of that archive survives, unless S3 refused to delete it.
\* Runs of create go on meanwhile, also under the ID that is restored.
RestoredIsWhole ==
  [][reader.pc = "start" /\ reader'.pc = "restored" =>
       /\ reader.sound =>
            instance'.etcd.refs \subseteq instance'.root \cup run[reader.id].lost
       /\ instance'.root \subseteq stored[reader.id] \cup reader.refused]_vars

=============================================================================
