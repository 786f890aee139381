------------------------------- MODULE Milvus -------------------------------
(***************************************************************************)
(* The Milvus instance that `snapshot create` talks to, as far as the      *)
(* program can observe it: the write-denial property of each database, the *)
(* rows acknowledged to clients, the segments that etcd refers to, the     *)
(* segment files in the root bucket and the leases that pause garbage      *)
(* collection.                                                             *)
(*                                                                         *)
(* Milvus is not part of the repository.  The operators a client call maps *)
(* to are the effects of the calls in internal/milvus; the server's own    *)
(* activity (inserts, automatic flush, compaction, garbage collection,     *)
(* lease expiry) is modelled from notes/milvus-gc-pause.md and the         *)
(* comments that state what the code relies on.                            *)
(***************************************************************************)
EXTENDS Naturals

CONSTANTS
  Databases,         \* every database that may ever exist
  InitialDatabases,  \* those that exist at the start; never empty, because
                     \* Milvus always has the database "default"
  Collections,
  DbOf,              \* the database of each collection
  MaxRows,           \* bound: rows a client inserts into one collection
  Runs,              \* runs of `snapshot create`; each asks for one lease
  Faults             \* names of the calls that may fail, see SnapshotCreate

ASSUME MilvusAssumption ==
  /\ InitialDatabases \subseteq Databases
  /\ InitialDatabases # {}
  /\ DbOf \in [Collections -> Databases]
  /\ MaxRows \in Nat

VARIABLES
  databases,  \* the databases that exist
  deny,       \* database.force.deny.writing of each database
  acked,      \* number of rows acknowledged to clients, per collection
  growing,    \* acknowledged rows that are only in memory, per collection
  meta,       \* the segments etcd refers to
  objects,    \* the segments stored under the root prefix of the root bucket
  lease       \* state of the GC lease of each run, as the server sees it

milvusVars == <<databases, deny, acked, growing, meta, objects, lease>>

-----------------------------------------------------------------------------
\* A segment is the set of rows it holds: flushing writes each row to exactly
\* one segment and compaction merges segments, so the rows identify it.
Rows == Collections \X (1..MaxRows)

Segments == SUBSET Rows

LeaseStates == {"none", "held", "expired", "released"}

AckedRows(c) == {c} \X (1..acked[c])

GcPaused == \E r \in Runs : lease[r] = "held"

MilvusTypeOK ==
  /\ databases \in SUBSET Databases
  /\ deny \in [Databases -> BOOLEAN]
  /\ acked \in [Collections -> 0..MaxRows]
  /\ growing \in [Collections -> SUBSET Rows]
  /\ meta \in SUBSET Segments
  /\ objects \in SUBSET Segments
  /\ lease \in [Runs -> LeaseStates]

MilvusInit ==
  /\ databases = InitialDatabases
  /\ deny = [d \in Databases |-> FALSE]
  /\ acked = [c \in Collections |-> 0]
  /\ growing = [c \in Collections |-> {}]
  /\ meta = {}
  /\ objects = {}
  /\ lease = [r \in Runs |-> "none"]

-----------------------------------------------------------------------------
(***************************************************************************)
(* Effects of the calls of internal/milvus, when the server carries them   *)
(* out.                                                                    *)
(***************************************************************************)

SetDenyWriting(d, value) ==
  /\ deny' = [deny EXCEPT ![d] = value]
  /\ UNCHANGED <<databases, acked, growing, meta, objects, lease>>

\* Flush seals the growing rows of a collection into a segment, stores the
\* segment and records it in etcd; Await returns once that has happened.
Flush(c) ==
  /\ growing' = [growing EXCEPT ![c] = {}]
  /\ LET sealed == IF growing[c] = {} THEN {} ELSE {growing[c]}
     IN  /\ objects' = objects \cup sealed
         /\ meta' = meta \cup sealed
  /\ UNCHANGED <<databases, deny, acked, lease>>

GrantLease(r) ==
  /\ lease' = [lease EXCEPT ![r] = "held"]
  /\ UNCHANGED <<databases, deny, acked, growing, meta, objects>>

\* Resuming with the ticket of an expired lease changes nothing.
CancelLease(r) ==
  /\ lease' = [lease EXCEPT ![r] = IF @ = "held" THEN "released" ELSE @]
  /\ UNCHANGED <<databases, deny, acked, growing, meta, objects>>

-----------------------------------------------------------------------------
(***************************************************************************)
(* What Milvus and its clients do on their own.                            *)
(***************************************************************************)

CreateDatabase(d) ==
  /\ d \notin databases
  /\ databases' = databases \cup {d}
  /\ UNCHANGED <<deny, acked, growing, meta, objects, lease>>

\* The proxy rejects writes to a database that denies writing.
Insert(c) ==
  /\ DbOf[c] \in databases
  /\ ~deny[DbOf[c]]
  /\ acked[c] < MaxRows
  /\ acked' = [acked EXCEPT ![c] = @ + 1]
  /\ growing' = [growing EXCEPT ![c] = @ \cup {<<c, acked[c] + 1>>}]
  /\ UNCHANGED <<databases, deny, meta, objects, lease>>

AutoFlush(c) ==
  /\ growing[c] # {}
  /\ Flush(c)

\* Compaction writes the merged segment and swaps the references in etcd; the
\* old files stay until garbage collection.  It is not stopped by write denial:
\* one that is in flight still completes.
Compact(s, t) ==
  /\ s # t
  /\ {s, t} \subseteq meta
  /\ \E c \in Collections : s \cup t \subseteq {c} \X (1..MaxRows)
  /\ meta' = (meta \ {s, t}) \cup {s \cup t}
  /\ objects' = objects \cup {s \cup t}
  /\ UNCHANGED <<databases, deny, acked, growing, lease>>

\* Garbage collection deletes a stored segment that etcd no longer refers to.
CollectGarbage(s) ==
  /\ ~GcPaused
  /\ s \in objects \ meta
  /\ objects' = objects \ {s}
  /\ UNCHANGED <<databases, deny, acked, growing, meta, lease>>

MilvusNext ==
  \/ \E d \in Databases : CreateDatabase(d)
  \/ \E c \in Collections : Insert(c) \/ AutoFlush(c)
  \/ \E s, t \in meta : Compact(s, t)
  \/ \E s \in objects : CollectGarbage(s)

=============================================================================
