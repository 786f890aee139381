---------------------------- MODULE SnapshotCreate ----------------------------
(***************************************************************************)
(* `milvus-utils snapshot create` (cmd/create.go, runCreate) composed with  *)
(* the Milvus instance it quiesces and the backup bucket it writes to.     *)
(*                                                                         *)
(* Several runs may exist: the command is a CronJob that can also be       *)
(* started by hand.  run[r].pc names the call that run r makes next, and   *)
(* the same name in Faults says that this call may fail.  A failing call   *)
(* may have taken effect before its answer was lost.                       *)
(***************************************************************************)
EXTENDS Milvus, FiniteSets

CONSTANTS
  MaxClock,   \* bound: the seconds that pass, snapshot IDs are timestamps
  Overlap,    \* FALSE: runs are started by one schedule that never lets two
              \* runs overlap
  SameSecond  \* FALSE: the schedule leaves a second between two starts; the
              \* code looks for no earlier run of its ID

ASSUME CreateAssumption ==
  /\ MaxClock \in Nat
  /\ {Overlap, SameSecond} \subseteq BOOLEAN

VARIABLES
  clock,       \* time.Now(), in seconds
  run,         \* the local state of each run
  uploaded,    \* snapshot IDs that have an etcd image in the backup bucket
  backupEtcd,  \* the segments referred to by the etcd image of each ID
  backupS3     \* the segments stored under the data prefix of each ID

backupVars == <<uploaded, backupEtcd, backupS3>>

vars == <<milvusVars, clock, run, backupVars>>

-----------------------------------------------------------------------------
SnapshotIds == 0..MaxClock

\* The calls of a run in program order; "allow" ends with "done".
Calls == {"list", "deny", "pause", "relist", "collections", "flush", "etcd",
          "upload", "keys", "copy", "resume", "allow"}

RunState ==
  [pc       : Calls \cup {"idle", "done", "crashed"},
   id       : SnapshotIds,          \* snapshotID
   dbs      : SUBSET Databases,     \* dbs, as listed in step 1
   todo     : SUBSET Databases,     \* what the current loop has yet to visit
   colls    : SUBSET Collections,   \* collections yet to flush in one database
   deferred : BOOLEAN,              \* the deferred re-enabling is registered
   ticket   : BOOLEAN,              \* PauseGC gave a ticket, resuming is deferred
   etcdBuf  : SUBSET Segments,      \* what the captured etcd image refers to
   keys     : SUBSET Segments,      \* listed objects yet to copy
   manual   : SUBSET Databases,     \* reported: manual intervention required
   result   : {"none", "ok", "error"}]  \* how the body of runCreate returned

NewRun ==
  [pc |-> "idle", id |-> 0, dbs |-> {}, todo |-> {}, colls |-> {},
   deferred |-> FALSE, ticket |-> FALSE, etcdBuf |-> {}, keys |-> {},
   manual |-> {}, result |-> "none"]

TypeOK ==
  /\ MilvusTypeOK
  /\ clock \in SnapshotIds
  /\ run \in [Runs -> RunState]
  /\ uploaded \in SUBSET SnapshotIds
  /\ backupEtcd \in [SnapshotIds -> SUBSET Segments]
  /\ backupS3 \in [SnapshotIds -> SUBSET Segments]

Init ==
  /\ MilvusInit
  /\ clock = 0
  /\ run = [r \in Runs |-> NewRun]
  /\ uploaded = {}
  /\ backupEtcd = [i \in SnapshotIds |-> {}]
  /\ backupS3 = [i \in SnapshotIds |-> {}]

Active(r) == run[r].pc \in Calls

\* The window the two pauses protect: from the first flush to the last copy.
InSnapshot(r) ==
  run[r].pc \in {"relist", "collections", "flush", "etcd", "upload", "keys", "copy"}

\* The body of runCreate has ended without an error; defers may remain.
Succeeded(r) == run[r].result = "ok"

-----------------------------------------------------------------------------
ReturnedMissesAllow(rec, result) ==  \* mutant: allowing hangs on the ticket
  [rec EXCEPT !.result = result, !.todo = rec.dbs, !.colls = {}, !.keys = {},
              !.pc = IF rec.ticket THEN "resume" ELSE "done"]

(***************************************************************************)
(* Return from runCreate.  The registered defers run last in, first out:   *)
(* resume GC if there is a ticket, then allow writing on every listed      *)
(* database.  An error in step 1 returns before any defer is registered.   *)
(***************************************************************************)
Returned(rec, result) ==
  [rec EXCEPT !.result = result, !.todo = rec.dbs, !.colls = {}, !.keys = {},
              !.pc = IF ~rec.deferred THEN "done"
                     ELSE IF rec.ticket THEN "resume" ELSE "allow"]

MayStart(r) ==
  /\ run[r].pc = "idle"
  /\ Overlap \/ \A q \in Runs : ~Active(q)
  /\ SameSecond \/ \A q \in Runs : run[q].pc = "idle" \/ run[q].id # clock

StartNextSecond(r) ==  \* mutant: the timestamp is rounded up
  /\ MayStart(r)
  /\ run' = [run EXCEPT ![r] = [@ EXCEPT !.pc = "list", !.id = clock + 1]]
  /\ UNCHANGED <<milvusVars, clock, backupVars>>

Start(r) ==
  /\ MayStart(r)
  /\ run' = [run EXCEPT ![r] = [@ EXCEPT !.pc = "list", !.id = clock]]
  /\ UNCHANGED <<milvusVars, clock, backupVars>>

\* Step 1: list the databases and deny writing on each.
ListDatabases(r) ==
  /\ run[r].pc = "list"
  /\ run' = [run EXCEPT ![r] = [@ EXCEPT !.pc = "deny", !.dbs = databases, !.todo = databases]]
  /\ UNCHANGED <<milvusVars, clock, backupVars>>

DenyFirstOnly(r) ==  \* mutant: the loop ends after one database
  /\ run[r].pc = "deny"
  /\ \E d \in run[r].todo :
       /\ SetDenyWriting(d, TRUE)
       /\ run' = [run EXCEPT ![r] = [@ EXCEPT !.pc = "pause", !.deferred = TRUE]]
  /\ UNCHANGED <<clock, backupVars>>

DenyWriting(r) ==
  /\ run[r].pc = "deny"
  /\ \E d \in run[r].todo :
       /\ SetDenyWriting(d, TRUE)
       /\ LET left == run[r].todo \ {d}
          IN run' = [run EXCEPT ![r] =
                       IF left = {} THEN [@ EXCEPT !.todo = {}, !.pc = "pause", !.deferred = TRUE]
                                    ELSE [@ EXCEPT !.todo = left]]
  /\ UNCHANGED <<clock, backupVars>>

PauseGCShared(r) ==  \* mutant: a lease that another run holds is relied on
  /\ run[r].pc = "pause"
  /\ IF GcPaused THEN UNCHANGED milvusVars ELSE GrantLease(r)
  /\ run' = [run EXCEPT ![r] = [@ EXCEPT !.pc = "relist", !.ticket = TRUE]]
  /\ UNCHANGED <<clock, backupVars>>

\* Step 2: a failed pause is logged and the run goes on without a ticket.
PauseGC(r) ==
  /\ run[r].pc = "pause"
  /\ \/ /\ GrantLease(r)
        /\ run' = [run EXCEPT ![r] = [@ EXCEPT !.pc = "relist", !.ticket = TRUE]]
     \/ /\ "pause" \in Faults
        /\ GrantLease(r) \/ UNCHANGED milvusVars
        /\ run' = [run EXCEPT ![r] = [@ EXCEPT !.pc = "relist"]]
  /\ UNCHANGED <<clock, backupVars>>

\* Step 3: FlushAll lists the databases afresh and flushes every collection.
ListForFlush(r) ==
  /\ run[r].pc = "relist"
  /\ run' = [run EXCEPT ![r] = [@ EXCEPT !.pc = "collections", !.todo = databases]]
  /\ UNCHANGED <<milvusVars, clock, backupVars>>

NextFlush(colls, dbs) ==
  IF colls # {} THEN "flush" ELSE IF dbs # {} THEN "collections" ELSE "etcd"

ListCollections(r) ==
  /\ run[r].pc = "collections"
  /\ \E d \in run[r].todo :
       LET colls == {c \in Collections : DbOf[c] = d}
           left  == run[r].todo \ {d}
       IN run' = [run EXCEPT ![r] = [@ EXCEPT !.todo = left, !.colls = colls,
                                              !.pc = NextFlush(colls, left)]]
  /\ UNCHANGED <<milvusVars, clock, backupVars>>

FlushNotAwaited(r) ==  \* mutant: task.Await is dropped
  /\ run[r].pc = "flush"
  /\ \E c \in run[r].colls :
       LET left == run[r].colls \ {c}
       IN run' = [run EXCEPT ![r] = [@ EXCEPT !.colls = left,
                                              !.pc = NextFlush(left, run[r].todo)]]
  /\ UNCHANGED <<milvusVars, clock, backupVars>>

FlushCollection(r) ==
  /\ run[r].pc = "flush"
  /\ \E c \in run[r].colls :
       /\ Flush(c)
       /\ LET left == run[r].colls \ {c}
          IN run' = [run EXCEPT ![r] = [@ EXCEPT !.colls = left,
                                                 !.pc = NextFlush(left, run[r].todo)]]
  /\ UNCHANGED <<clock, backupVars>>

\* Step 4a: the etcd image is captured in memory, 4b: then uploaded.
SnapshotEtcd(r) ==
  /\ run[r].pc = "etcd"
  /\ run' = [run EXCEPT ![r] = [@ EXCEPT !.pc = "upload", !.etcdBuf = meta]]
  /\ UNCHANGED <<milvusVars, clock, backupVars>>

PutEtcdImage(r) ==
  /\ uploaded' = uploaded \cup {run[r].id}
  /\ backupEtcd' = [backupEtcd EXCEPT ![run[r].id] = run[r].etcdBuf]
  /\ UNCHANGED backupS3

Upload(r) ==
  /\ run[r].pc = "upload"
  /\ PutEtcdImage(r)
  /\ run' = [run EXCEPT ![r] = [@ EXCEPT !.pc = "keys"]]
  /\ UNCHANGED <<milvusVars, clock>>

ListOnePage(r) ==  \* mutant: the paginator is not followed
  /\ run[r].pc = "keys"
  /\ \E page \in SUBSET objects :
       run' = [run EXCEPT ![r] = IF page = {} THEN Returned(@, "ok")
                                 ELSE [@ EXCEPT !.pc = "copy", !.keys = page]]
  /\ UNCHANGED <<milvusVars, clock, backupVars>>

ListMayBeEmpty(r) ==  \* mutant: an empty listing is waited for like any other
  /\ run[r].pc = "keys"
  /\ run' = [run EXCEPT ![r] = [@ EXCEPT !.pc = "copy", !.keys = objects]]
  /\ UNCHANGED <<milvusVars, clock, backupVars>>

ListKeysOnce(r) ==  \* mutant: a prefix that holds files is taken for a copy
  /\ run[r].pc = "keys"
  /\ run' = [run EXCEPT ![r] = IF objects = {} \/ backupS3[run[r].id] # {}
                               THEN Returned(@, "ok")
                               ELSE [@ EXCEPT !.pc = "copy", !.keys = objects]]
  /\ UNCHANGED <<milvusVars, clock, backupVars>>

\* Step 4c: CopyPrefix lists the root prefix; nothing to copy is a success.
ListKeys(r) ==
  /\ run[r].pc = "keys"
  /\ run' = [run EXCEPT ![r] = IF objects = {} THEN Returned(@, "ok")
                               ELSE [@ EXCEPT !.pc = "copy", !.keys = objects]]
  /\ UNCHANGED <<milvusVars, clock, backupVars>>

StoreCopies(r, segs) ==
  /\ backupS3' = [backupS3 EXCEPT ![run[r].id] = @ \cup segs]
  /\ UNCHANGED <<milvusVars, clock, uploaded, backupEtcd>>

CopyObject(r) ==
  /\ run[r].pc = "copy"
  /\ \E s \in run[r].keys \cap objects :
       /\ StoreCopies(r, {s})
       /\ LET rec == [run[r] EXCEPT !.keys = @ \ {s}]
          IN run' = [run EXCEPT ![r] = IF rec.keys = {} THEN Returned(rec, "ok") ELSE rec]

CopyErrorSwallowed(r) ==  \* mutant: the group's error is not returned
  /\ run[r].pc = "copy"
  /\ "copy" \in Faults \/ run[r].keys \ objects # {}
  /\ \E landed \in SUBSET (run[r].keys \cap objects) : StoreCopies(r, landed)
  /\ run' = [run EXCEPT ![r] = Returned(@, "ok")]

\* A copy fails on its own account or because the object is gone.  The group
\* is cancelled, and any of the copies still due may have completed.
CopyFails(r) ==
  /\ run[r].pc = "copy"
  /\ "copy" \in Faults \/ run[r].keys \ objects # {}
  /\ \E landed \in SUBSET (run[r].keys \cap objects) : StoreCopies(r, landed)
  /\ run' = [run EXCEPT ![r] = Returned(@, "error")]

\* A call whose error is returned at once.
CallFails(r) ==
  /\ run[r].pc \in Faults \cap {"list", "deny", "relist", "collections", "flush",
                                "etcd", "upload", "keys"}
  /\ run' = [run EXCEPT ![r] = Returned(@, "error")]
  /\ UNCHANGED clock
  /\ \/ UNCHANGED <<milvusVars, backupVars>>
     \/ /\ run[r].pc = "deny"
        /\ \E d \in run[r].todo : SetDenyWriting(d, TRUE)
        /\ UNCHANGED backupVars
     \/ /\ run[r].pc = "flush"
        /\ \E c \in run[r].colls : Flush(c)
        /\ UNCHANGED backupVars
     \/ /\ run[r].pc = "upload"
        /\ PutEtcdImage(r)
        /\ UNCHANGED milvusVars

\* The defers.  Their errors are logged, never returned.
ResumeGC(r) ==
  /\ run[r].pc = "resume"
  /\ CancelLease(r) \/ ("resume" \in Faults /\ UNCHANGED milvusVars)
  /\ run' = [run EXCEPT ![r] = [@ EXCEPT !.pc = "allow"]]
  /\ UNCHANGED <<clock, backupVars>>

Visited(rec, d) ==
  [rec EXCEPT !.todo = @ \ {d}, !.pc = IF rec.todo = {d} THEN "done" ELSE @]

AllowWriting(r) ==
  /\ run[r].pc = "allow"
  /\ \E d \in run[r].todo :
       /\ SetDenyWriting(d, FALSE)
       /\ run' = [run EXCEPT ![r] = Visited(@, d)]
  /\ UNCHANGED <<clock, backupVars>>

AllowFailsSilently(r) ==  \* mutant: the failure is not reported
  /\ run[r].pc = "allow"
  /\ "allow" \in Faults
  /\ \E d \in run[r].todo :
       /\ SetDenyWriting(d, FALSE) \/ UNCHANGED milvusVars
       /\ run' = [run EXCEPT ![r] = Visited(@, d)]
  /\ UNCHANGED <<clock, backupVars>>

AllowFails(r) ==
  /\ run[r].pc = "allow"
  /\ "allow" \in Faults
  /\ \E d \in run[r].todo :
       /\ SetDenyWriting(d, FALSE) \/ UNCHANGED milvusVars
       /\ run' = [run EXCEPT ![r] = [Visited(@, d) EXCEPT !.manual = run[r].manual \cup {d}]]
  /\ UNCHANGED <<clock, backupVars>>

\* The process is killed: rootCmd.Execute installs no signal handler, so no
\* defer runs.
Crash(r) ==
  /\ "crash" \in Faults
  /\ Active(r)
  /\ run' = [run EXCEPT ![r] = [@ EXCEPT !.pc = "crashed"]]
  /\ UNCHANGED <<milvusVars, clock, backupVars>>

-----------------------------------------------------------------------------
\* The server drops a lease gcPauseSeconds after it was granted.  The fault
\* "expire" says that a run may take longer than that: it never renews.
LeaseExpires(r) ==
  /\ lease[r] = "held"
  /\ Active(r) => "expire" \in Faults
  /\ lease' = [lease EXCEPT ![r] = "expired"]
  /\ UNCHANGED <<databases, deny, acked, growing, meta, objects, clock, run, backupVars>>

Tick ==
  /\ clock < MaxClock
  /\ clock' = clock + 1
  /\ UNCHANGED <<milvusVars, run, backupVars>>

RunStep(r) ==
  \/ ListDatabases(r) \/ DenyWriting(r) \/ PauseGC(r)
  \/ ListForFlush(r) \/ ListCollections(r) \/ FlushCollection(r)
  \/ SnapshotEtcd(r) \/ Upload(r) \/ ListKeys(r) \/ CopyObject(r) \/ CopyFails(r)
  \/ CallFails(r) \/ ResumeGC(r) \/ AllowWriting(r) \/ AllowFails(r)

Environment ==
  \/ MilvusNext /\ UNCHANGED <<clock, run, backupVars>>
  \/ Tick
  \/ \E r \in Runs : LeaseExpires(r)

Next ==
  \/ \E r \in Runs : Start(r) \/ RunStep(r) \/ Crash(r)
  \/ Environment

Spec == Init /\ [][Next]_vars

\* Every call a run makes returns, with or without an error, and the server
\* drops a lease that is not cancelled.  The code sets no deadline on a call,
\* so both are assumptions about the servers.
Fairness == \A r \in Runs : WF_vars(RunStep(r)) /\ WF_vars(LeaseExpires(r))

FairSpec == Spec /\ Fairness

-----------------------------------------------------------------------------
(***************************************************************************)
(* Properties of runs that may overlap, fail and crash in any way.         *)
(***************************************************************************)

\* If the GC lease of a successful run did not run out while it was needed,
\* every segment the etcd image refers to is in the data copy, whatever was
\* written, compacted or collected meanwhile and whatever other runs did.
\* (create.go: pause, flush, etcd image, then the listing and the copies.)
NoDanglingReference ==
  \A r \in Runs :
    Succeeded(r) /\ run[r].ticket /\ lease[r] # "expired"
      => run[r].etcdBuf \subseteq backupS3[run[r].id]

\* Runs that start in the same second write one archive, image over image and
\* files among files: once all of them have succeeded under a lease that
\* lasted, it holds what its image refers to, whichever image came last.  (If
\* one of them fails, nothing is promised: its image may be the one that stays.)
SharedArchiveIsWhole ==
  \A i \in uploaded :
    (\A r \in Runs : run[r].pc # "idle" /\ run[r].id = i =>
        Succeeded(r) /\ run[r].ticket /\ lease[r] # "expired")
      => backupEtcd[i] \subseteq backupS3[i]

\* A database that denies writing has someone to answer for it: a run that is
\* going to allow writing again, a run that told the operator it could not, a
\* run that was killed, or one that failed inside the deny loop.
DenialAccounted ==
  \A d \in Databases : deny[d] =>
    \E r \in Runs :
      /\ d \in run[r].dbs
      /\ \/ Active(r)
         \/ run[r].pc = "crashed"
         \/ d \in run[r].manual
         \/ ~run[r].deferred

\* "Always re-enable writes, even on error" (create.go:87): DenialAccounted
\* without the last alternative.
DeniedIsReopened ==
  \A d \in Databases : deny[d] =>
    \E r \in Runs :
      /\ d \in run[r].dbs
      /\ Active(r) \/ run[r].pc = "crashed" \/ d \in run[r].manual

(***************************************************************************)
(* Properties of runs that do not overlap.                                 *)
(***************************************************************************)

\* No row is acknowledged in a listed database from the start of the flush to
\* the end of the copy: the "clean cutoff" of README.md:90.
CleanCutoff ==
  [][\A r \in Runs, c \in Collections :
       InSnapshot(r) /\ DbOf[c] \in run[r].dbs => acked'[c] = acked[c]]_vars

\* From the etcd image on, the image holds every row of the listed databases
\* that was ever acknowledged: nothing is left in memory, nothing slips in.
PointInTimeCut ==
  \A r \in Runs :
    run[r].pc \in {"upload", "keys", "copy"} \/ (run[r].pc = "resume" /\ Succeeded(r))
      => \A c \in Collections :
           DbOf[c] \in run[r].dbs => AckedRows(c) \subseteq UNION run[r].etcdBuf

\* "Pause GC - prevents S3 object deletion during snapshot" (README.md:91): a
\* run that was given a ticket leaves no dangling reference.
PausedSnapshotRestorable ==
  \A r \in Runs :
    Succeeded(r) /\ run[r].ticket => run[r].etcdBuf \subseteq backupS3[run[r].id]

(***************************************************************************)
(* Liveness, under Fairness.                                               *)
(***************************************************************************)

\* A run that has started ends.
RunsEnd == \A r \in Runs : Active(r) ~> run[r].pc \in {"done", "crashed"}

\* Both pauses are undone whatever fails in between: "always runs via defers,
\* even on error" (README.md:95).
PausesUndone ==
  /\ \A d \in Databases : deny[d] ~> ~deny[d]
  /\ \A r \in Runs : lease[r] = "held" ~> lease[r] # "held"

(***************************************************************************)
(* Runs that keep their lease implement an atomic image of the database.   *)
(***************************************************************************)
Restorable(r) == UNION (backupEtcd[run[r].id] \cap backupS3[run[r].id])

Backup == INSTANCE PointInTimeBackup WITH
  Row     <- Rows,
  written <- UNION {AckedRows(c) : c \in Collections},
  taken   <- {r \in Runs : Succeeded(r)},
  archive <- [r \in Runs |-> IF Succeeded(r) THEN Restorable(r) ELSE {}]

ImplementsPointInTimeBackup == Backup!Spec

=============================================================================
