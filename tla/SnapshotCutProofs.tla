--------------------------- MODULE SnapshotCutProofs ---------------------------
(***************************************************************************)
(* Proofs about the runs of SnapshotCreate that one schedule starts, which *)
(* never overlap: what is captured is one instant of the database, and, if *)
(* no second sees two starts, what is archived stays.  Any number of runs, *)
(* databases, collections and rows, and any set of faults.                 *)
(***************************************************************************)
EXTENDS SnapshotCreateProofs

-----------------------------------------------------------------------------
(***************************************************************************)
(* The inductive invariant.                                                *)
(***************************************************************************)
\* The schedule: one run at a time, and an ID for each if the seconds differ.
OneRunAtATime == \A r, q \in Runs : Active(r) /\ Active(q) => r = q

DistinctIds ==
  \A r, q \in Runs : r # q /\ run[r].pc # "idle" /\ run[q].pc # "idle" => run[r].id # run[q].id

\* An acknowledged row is in memory or in a segment etcd refers to, and every
\* row that is there was acknowledged.
RowsKept ==
  \A c \in Collections :
    /\ AckedRows(c) \subseteq growing[c] \cup UNION meta
    /\ growing[c] \subseteq AckedRows(c)

\* The stages at which the databases of a run are closed to writers.
Closed(r) ==
  InSnapshot(r) \/ run[r].pc = "pause" \/ (run[r].pc = "resume" /\ Succeeded(r))

DeniedSoFar(r) ==
  /\ run[r].dbs \subseteq databases
  /\ run[r].pc = "deny" => \A d \in run[r].dbs \ run[r].todo : deny[d]
  /\ Closed(r) => \A d \in run[r].dbs : deny[d]

\* A collection of a listed database has nothing left in memory once FlushAll
\* has visited it.
FlushedSoFar(r) ==
  \A c \in Collections : DbOf[c] \in run[r].dbs =>
    /\ run[r].pc = "collections" => growing[c] = {} \/ DbOf[c] \in run[r].todo
    /\ run[r].pc = "flush" => growing[c] = {} \/ DbOf[c] \in run[r].todo \/ c \in run[r].colls
    /\ run[r].pc = "etcd" => growing[c] = {}

CutTaken(r) ==
  run[r].pc \in {"upload", "keys", "copy"} \/ (run[r].pc = "resume" /\ Succeeded(r))
    => \A c \in Collections :
         DbOf[c] \in run[r].dbs => AckedRows(c) \subseteq UNION run[r].etcdBuf

CutInv(r) == ReturnsOnce(r) /\ DeniedSoFar(r) /\ FlushedSoFar(r) /\ CutTaken(r)

CutInvariant ==
  /\ TypeOK
  /\ OneRunAtATime
  /\ RowsKept
  /\ \A r \in Runs : CutInv(r)

-----------------------------------------------------------------------------
(***************************************************************************)
(* What steps of the server and calls of a run do to the rows.             *)
(***************************************************************************)
\* Flushing moves rows from memory to a segment etcd refers to.
LEMMA FlushKeepsRows ==
  ASSUME TypeOK, RowsKept, NEW c \in Collections, Flush(c)
  PROVE  /\ RowsKept'
         /\ \A e \in Collections : growing[e] = {} => growing'[e] = {}
<1>1. /\ growing' = [growing EXCEPT ![c] = {}]
      /\ meta' = meta \cup (IF growing[c] = {} THEN {} ELSE {growing[c]})
      /\ acked' = acked
  BY DEF Flush
<1>2. growing \in [Collections -> SUBSET Rows]
  BY DEF TypeOK, MilvusTypeOK
<1>3. UNION meta \subseteq UNION meta' /\ growing[c] \subseteq UNION meta'
  BY <1>1
<1>4. \A e \in Collections : growing'[e] = IF e = c THEN {} ELSE growing[e]
  BY <1>1, <1>2
<1>5. \A e \in Collections : AckedRows(e)' = AckedRows(e)
  BY <1>1 DEF AckedRows
<1> QED  BY <1>3, <1>4, <1>5 DEF RowsKept

\* An insert acknowledges one row, which is then in memory.
LEMMA InsertKeepsRows ==
  ASSUME TypeOK, RowsKept, NEW c \in Collections, Insert(c)
  PROVE  /\ RowsKept'
         /\ AckedRows(c)' = AckedRows(c) \cup {<<c, acked[c] + 1>>}
         /\ \A e \in Collections \ {c} : acked'[e] = acked[e] /\ growing'[e] = growing[e]
<1>1. /\ acked \in [Collections -> 0..MaxRows] /\ growing \in [Collections -> SUBSET Rows]
      /\ MaxRows \in Nat /\ acked[c] \in Nat
  BY MilvusAssumption DEF TypeOK, MilvusTypeOK
<1>2. /\ acked' = [acked EXCEPT ![c] = @ + 1]
      /\ growing' = [growing EXCEPT ![c] = @ \cup {<<c, acked[c] + 1>>}]
      /\ meta' = meta
  BY DEF Insert
<1>3. 1..(acked[c] + 1) = (1..acked[c]) \cup {acked[c] + 1}
  BY <1>1
<1>4. acked'[c] = acked[c] + 1 /\ growing'[c] = growing[c] \cup {<<c, acked[c] + 1>>}
  BY <1>1, <1>2
<1>5. AckedRows(c)' = AckedRows(c) \cup {<<c, acked[c] + 1>>}
  BY <1>3, <1>4 DEF AckedRows
<1>6. \A e \in Collections \ {c} : acked'[e] = acked[e] /\ growing'[e] = growing[e]
  BY <1>1, <1>2
<1>7. \A e \in Collections \ {c} : AckedRows(e)' = AckedRows(e)
  BY <1>6 DEF AckedRows
<1> QED  BY <1>2, <1>4, <1>5, <1>6, <1>7 DEF RowsKept

\* The server never acknowledges a row of a database that denies writing, and
\* nothing it does on its own opens or drops a database.
LEMMA MilvusStepRows ==
  ASSUME TypeOK, RowsKept, MilvusNext
  PROVE  /\ RowsKept'
         /\ deny' = deny /\ databases \subseteq databases'
         /\ \A c \in Collections : deny[DbOf[c]] =>
              acked'[c] = acked[c] /\ (growing[c] = {} => growing'[c] = {})
<1>1. ASSUME NEW d \in Databases, CreateDatabase(d)
      PROVE  UNCHANGED <<deny, acked, growing, meta>> /\ databases \subseteq databases'
  BY <1>1 DEF CreateDatabase
<1>2. ASSUME NEW c \in Collections, Insert(c)
      PROVE  /\ UNCHANGED <<deny, databases>> /\ ~deny[DbOf[c]]
             /\ RowsKept'
             /\ \A e \in Collections \ {c} : acked'[e] = acked[e] /\ growing'[e] = growing[e]
  BY <1>2, InsertKeepsRows DEF Insert
<1>3. ASSUME NEW c \in Collections, AutoFlush(c)
      PROVE  /\ UNCHANGED <<deny, databases, acked>> /\ RowsKept'
             /\ \A e \in Collections : growing[e] = {} => growing'[e] = {}
  BY <1>3, FlushKeepsRows DEF AutoFlush, Flush
<1>4. ASSUME NEW s \in meta, NEW t \in meta, Compact(s, t)
      PROVE  UNCHANGED <<deny, databases, acked, growing>> /\ UNION meta' = UNION meta
  <2>1. /\ meta' = (meta \ {s, t}) \cup {s \cup t}
        /\ UNCHANGED <<deny, databases, acked, growing>>
    BY <1>4 DEF Compact
  <2>2. ASSUME NEW row
        PROVE  row \in UNION meta' <=> row \in UNION meta
    <3>1. row \in s \cup t => row \in UNION meta /\ row \in UNION meta'
      BY <2>1
    <3> QED  BY <2>1, <3>1
  <2>3. UNION meta' = UNION meta
    BY <2>2
  <2> QED  BY <2>1, <2>3
<1>5. ASSUME NEW s \in objects, CollectGarbage(s)
      PROVE  UNCHANGED <<deny, databases, acked, growing, meta>>
  BY <1>5 DEF CollectGarbage
<1>6. ASSUME UNCHANGED <<acked, growing>>, UNION meta' = UNION meta
      PROVE  RowsKept'
  BY <1>6 DEF RowsKept, AckedRows
<1>7. ASSUME NEW d \in Databases, CreateDatabase(d)
      PROVE  RowsKept'
  BY <1>1, <1>6, <1>7
<1> QED  BY <1>1, <1>2, <1>3, <1>4, <1>5, <1>6, <1>7 DEF MilvusNext

\* Nor does a call of a run acknowledge one.
LEMMA MilvusCallRows ==
  ASSUME TypeOK, RowsKept, MilvusCall
  PROVE  /\ RowsKept'
         /\ UNCHANGED <<acked, databases>>
         /\ \A c \in Collections : growing[c] = {} => growing'[c] = {}
<1>1. ASSUME NEW c \in Collections, Flush(c)
      PROVE  /\ RowsKept' /\ UNCHANGED <<acked, databases>>
             /\ \A e \in Collections : growing[e] = {} => growing'[e] = {}
  BY <1>1, FlushKeepsRows DEF Flush
<1>2. UNCHANGED <<acked, growing, meta>> => RowsKept'
  BY DEF RowsKept, AckedRows
<1> QED  BY <1>1, <1>2 DEF MilvusCall, SetDenyWriting, GrantLease, CancelLease, milvusVars

-----------------------------------------------------------------------------
(***************************************************************************)
(* The schedule.                                                           *)
(***************************************************************************)
\* Only an active run takes a step, and its ID stays.
LEMMA StepOfActive ==
  ASSUME TypeOK, NEW r \in Runs, RunStep(r) \/ Crash(r)
  PROVE  Active(r) /\ run'[r].id = run[r].id
<1> USE DEF TypeOK, RunState, Active, Calls
<1>1. CASE Crash(r)
  BY <1>1 DEF Crash
<1>2. CASE ListDatabases(r)
  BY <1>2 DEF ListDatabases
<1>11. CASE PauseGC(r)
  <2>1. \/ run' = [run EXCEPT ![r] = [@ EXCEPT !.pc = "relist", !.ticket = TRUE]]
        \/ run' = [run EXCEPT ![r] = [@ EXCEPT !.pc = "relist"]]
    BY <1>11 DEF PauseGC
  <2>2. run[r].pc = "pause"
    BY <1>11 DEF PauseGC
  <2> QED  BY <2>1, <2>2
<1>12. CASE ListForFlush(r)
  BY <1>12 DEF ListForFlush
<1>6. CASE DenyWriting(r)
  BY <1>6 DEF DenyWriting
<1>3. CASE ListCollections(r)
  BY <1>3 DEF ListCollections
<1>15. CASE FlushCollection(r)
  BY <1>15 DEF FlushCollection
<1>13. CASE SnapshotEtcd(r)
  BY <1>13 DEF SnapshotEtcd
<1>14. CASE Upload(r)
  BY <1>14 DEF Upload
<1>4. CASE ListKeys(r)
  BY <1>4 DEF ListKeys, Returned
<1>8. CASE CopyFails(r) \/ CallFails(r)
  <2>1. run' = [run EXCEPT ![r] = Returned(@, "error")] /\ Active(r)
    BY <1>8 DEF CopyFails, CallFails
  <2> QED  BY <2>1 DEF Returned
<1>7. CASE CopyObject(r)
  BY <1>7 DEF CopyObject, Returned
<1>5. CASE ResumeGC(r)
  BY <1>5 DEF ResumeGC
<1>9. CASE AllowWriting(r)
  BY <1>9 DEF AllowWriting, Visited
<1>10. CASE AllowFails(r)
  BY <1>10 DEF AllowFails, Visited
<1> QED
  BY <1>1, <1>2, <1>3, <1>4, <1>5, <1>6, <1>7, <1>8, <1>9, <1>10, <1>11, <1>12,
     <1>13, <1>14, <1>15 DEF RunStep

\* While a run takes a step, no other is active.
LEMMA RunsAlone ==
  ASSUME Overlap = FALSE, TypeOK, OneRunAtATime,
         NEW r \in Runs, Start(r) \/ RunStep(r) \/ Crash(r)
  PROVE  \A q \in Runs \ {r} : ~Active(q)
<1>1. CASE Start(r)
  BY <1>1 DEF Start, MayStart, Active, Calls
<1>2. CASE RunStep(r) \/ Crash(r)
  BY <1>2, StepOfActive DEF OneRunAtATime
<1> QED  BY <1>1, <1>2

\* Runs that do not overlap stay alone.
LEMMA ScheduleKeeps ==
  ASSUME Overlap = FALSE, TypeOK, OneRunAtATime,
         NEW r \in Runs, Start(r) \/ RunStep(r) \/ Crash(r)
  PROVE  OneRunAtATime'
<1>1. \A q \in Runs \ {r} : run'[q] = run[q] /\ ~Active(q)
  BY OthersKeepTheirRecord, RunsAlone
<1> QED  BY <1>1 DEF OneRunAtATime, Active

\* If a second sees one start, no two runs share an ID.
LEMMA IdsAreDistinct ==
  ASSUME SameSecond = FALSE
  PROVE  Spec => []DistinctIds
<1>1. Init => DistinctIds
  BY DEF Init, NewRun, DistinctIds
<1>2. TypeOK /\ DistinctIds /\ [Next]_vars => DistinctIds'
  <2> SUFFICES ASSUME TypeOK, DistinctIds, [Next]_vars  PROVE DistinctIds'
    OBVIOUS
  <2>1. ASSUME NEW r \in Runs, Start(r) \/ RunStep(r) \/ Crash(r)
        PROVE  DistinctIds'
    <3>1. \A q \in Runs \ {r} : run'[q] = run[q]
      BY <2>1, OthersKeepTheirRecord
    <3>2. \A q \in Runs \ {r} : run[q].pc # "idle" => run'[r].id # run[q].id
      <4>1. CASE Start(r)
        <5>1. run'[r].id = clock
          BY <4>1 DEF Start, TypeOK, RunState
        <5> QED  BY <4>1, <5>1 DEF Start, MayStart
      <4>2. CASE RunStep(r) \/ Crash(r)
        BY <4>2, StepOfActive DEF DistinctIds, Active, Calls
      <4> QED  BY <2>1, <4>1, <4>2
    <3> QED  BY <3>1, <3>2 DEF DistinctIds
  <2>2. CASE Environment \/ UNCHANGED vars
    <3>1. run' = run
      BY <2>2 DEF Environment, Tick, LeaseExpires, vars
    <3> QED  BY <3>1 DEF DistinctIds
  <2> QED  BY <2>1, <2>2 DEF Next
<1> QED  BY <1>1, <1>2, TypeCorrect, PTL DEF Spec

-----------------------------------------------------------------------------
(***************************************************************************)
(* The steps of a run.                                                     *)
(***************************************************************************)
\* What a step of a run does to what it shares with the server.
LEMMA RunStepCalls ==
  ASSUME TypeOK, NEW r \in Runs, Start(r) \/ RunStep(r) \/ Crash(r)
  PROVE  MilvusCall
BY DEF TypeOK, RunState, RunStep, Start, Crash, ListDatabases, DenyWriting, PauseGC,
   ListForFlush, ListCollections, FlushCollection, SnapshotEtcd, Upload, ListKeys,
   CopyObject, StoreCopies, CopyFails, CallFails, ResumeGC, AllowWriting, AllowFails,
   MilvusCall

\* A run that is not active claims nothing but that its databases exist.
LEMMA InactiveKeeps ==
  ASSUME NEW q \in Runs, CutInv(q), ~Active(q), run'[q] = run[q], databases \subseteq databases'
  PROVE  CutInv(q)'
BY DEF CutInv, ReturnsOnce, DeniedSoFar, FlushedSoFar, CutTaken, Closed, InSnapshot,
   Active, Calls

\* The invariant of a run, action by action.  Every call of a run leaves the
\* acknowledged rows and the databases as they are.
LEMMA CutStepKeeps ==
  ASSUME TypeOK, RowsKept, NEW r \in Runs, CutInv(r), Start(r) \/ RunStep(r) \/ Crash(r)
  PROVE  CutInv(r)'
<1>0. /\ run \in [Runs -> RunState] /\ run[r] \in RunState
      /\ deny \in [Databases -> BOOLEAN] /\ databases \in SUBSET Databases
      /\ growing \in [Collections -> SUBSET Rows] /\ DbOf \in [Collections -> Databases]
  BY MilvusAssumption DEF TypeOK, MilvusTypeOK
<1>c. UNCHANGED <<acked, databases>> /\ \A c \in Collections : growing[c] = {} => growing'[c] = {}
  BY RunStepCalls, MilvusCallRows
<1>k. \A c \in Collections : AckedRows(c)' = AckedRows(c)
  BY <1>c DEF AckedRows
<1> USE <1>0, <1>c, <1>k
<1> USE DEF CutInv, ReturnsOnce, DeniedSoFar, FlushedSoFar, CutTaken, Closed, InSnapshot, Succeeded
<1>1. CASE Start(r)
  BY <1>1 DEF Start, MayStart, RunState
<1>2. CASE ListDatabases(r)
  BY <1>2 DEF ListDatabases, RunState
<1>3. CASE DenyWriting(r)
  BY <1>3 DEF DenyWriting, SetDenyWriting, RunState
<1>4. CASE PauseGC(r)
  <2>1. run[r].pc = "pause" /\ deny' = deny
    BY <1>4 DEF PauseGC, GrantLease, milvusVars
  <2>2. \/ run' = [run EXCEPT ![r] = [@ EXCEPT !.pc = "relist", !.ticket = TRUE]]
        \/ run' = [run EXCEPT ![r] = [@ EXCEPT !.pc = "relist"]]
    BY <1>4 DEF PauseGC
  <2>3. run'[r].pc = "relist" /\ run'[r].dbs = run[r].dbs /\ run'[r].result = run[r].result
    <3>1. CASE run' = [run EXCEPT ![r] = [@ EXCEPT !.pc = "relist", !.ticket = TRUE]]
      BY <3>1 DEF RunState
    <3>2. CASE run' = [run EXCEPT ![r] = [@ EXCEPT !.pc = "relist"]]
      BY <3>2 DEF RunState
    <3> QED  BY <2>2, <3>1, <3>2
  <2> QED  BY <2>1, <2>3
<1>5. CASE ListForFlush(r)
  BY <1>5 DEF ListForFlush, milvusVars, RunState
<1>6. CASE ListCollections(r)
  BY <1>6 DEF ListCollections, NextFlush, milvusVars, RunState
<1>7. CASE FlushCollection(r)
  BY <1>7 DEF FlushCollection, Flush, NextFlush, RunState
<1>8. CASE SnapshotEtcd(r)
  BY <1>8 DEF SnapshotEtcd, RowsKept, milvusVars, RunState
<1>9. CASE Upload(r)
  BY <1>9 DEF Upload, milvusVars, RunState
<1>10. CASE ListKeys(r)
  BY <1>10 DEF ListKeys, Returned, milvusVars, RunState
<1>11. CASE CopyObject(r)
  BY <1>11 DEF CopyObject, StoreCopies, Returned, milvusVars, RunState
<1>12. CASE CopyFails(r)
  BY <1>12 DEF CopyFails, Returned, RunState
<1>13. CASE CallFails(r)
  BY <1>13 DEF CallFails, Returned, RunState
<1>14. CASE ResumeGC(r)
  BY <1>14 DEF ResumeGC, RunState
<1>15. CASE AllowWriting(r)
  BY <1>15 DEF AllowWriting, Visited, RunState
<1>16. CASE AllowFails(r)
  BY <1>16 DEF AllowFails, Visited, RunState
<1>17. CASE Crash(r)
  BY <1>17 DEF Crash, RunState
<1> QED
  BY <1>1, <1>2, <1>3, <1>4, <1>5, <1>6, <1>7, <1>8, <1>9, <1>10, <1>11, <1>12,
     <1>13, <1>14, <1>15, <1>16, <1>17 DEF RunStep

-----------------------------------------------------------------------------
(***************************************************************************)
(* The invariant holds of every behaviour of runs that do not overlap.     *)
(***************************************************************************)
\* The server does not reach a database that is closed, and the clock and the
\* leases are not mentioned.
LEMMA CutEnvironmentKeeps ==
  ASSUME TypeOK, RowsKept, NEW q \in Runs, CutInv(q), Environment
  PROVE  RowsKept' /\ CutInv(q)'
<1> USE DEF CutInv, ReturnsOnce, DeniedSoFar, FlushedSoFar, CutTaken, Closed, InSnapshot, Succeeded
<1>0. run[q].dbs \in SUBSET Databases
  BY DEF TypeOK, RunState
<1>1. CASE MilvusNext /\ UNCHANGED <<clock, run, backupVars>>
  <2>1. /\ RowsKept'
        /\ run' = run /\ deny' = deny /\ databases \subseteq databases'
        /\ \A c \in Collections : deny[DbOf[c]] =>
             acked'[c] = acked[c] /\ (growing[c] = {} => growing'[c] = {})
    BY <1>1, MilvusStepRows
  <2>2. \A c \in Collections : deny[DbOf[c]] => AckedRows(c)' = AckedRows(c)
    BY <2>1 DEF AckedRows
  <2>3. ReturnsOnce(q)' /\ DeniedSoFar(q)'
    BY <2>1
  <2>4. FlushedSoFar(q)'
    BY <2>1
  <2>5. CutTaken(q)'
    BY <2>1, <2>2
  <2> QED  BY <2>1, <2>3, <2>4, <2>5
<1>2. CASE Tick \/ \E r \in Runs : LeaseExpires(r)
  <2>1. UNCHANGED <<databases, deny, acked, growing, meta, run>>
    BY <1>2 DEF Tick, LeaseExpires, milvusVars
  <2> QED  BY <2>1 DEF RowsKept, AckedRows
<1> QED  BY <1>1, <1>2 DEF Environment

\* At the start no run has listed or captured anything.
LEMMA InitCutInvariant == Init => CutInvariant
<1> SUFFICES ASSUME Init PROVE CutInvariant
  OBVIOUS
<1>1. TypeOK
  BY InitTyped
<1>2. OneRunAtATime
  BY DEF Init, NewRun, OneRunAtATime, Active, Calls
<1>3. RowsKept
  BY DEF Init, MilvusInit, RowsKept, AckedRows
<1>4. ASSUME NEW r \in Runs PROVE CutInv(r)
  BY DEF Init, NewRun, CutInv, ReturnsOnce, DeniedSoFar, FlushedSoFar, CutTaken, Closed, InSnapshot
<1> QED  BY <1>1, <1>2, <1>3, <1>4 DEF CutInvariant

\* One step per actor: a run, the server, the clock, a lease.
LEMMA NextCutInvariant ==
  ASSUME Overlap = FALSE
  PROVE  CutInvariant /\ [Next]_vars => CutInvariant'
<1> SUFFICES ASSUME CutInvariant, [Next]_vars
             PROVE  OneRunAtATime' /\ RowsKept' /\ \A q \in Runs : CutInv(q)'
  BY NextTyped DEF CutInvariant
<1> USE DEF CutInvariant
<1>1. ASSUME NEW r \in Runs, Start(r) \/ RunStep(r) \/ Crash(r)
      PROVE  OneRunAtATime' /\ RowsKept' /\ \A q \in Runs : CutInv(q)'
  <2>1. OneRunAtATime'
    BY <1>1, ScheduleKeeps
  <2>2. RowsKept' /\ databases' = databases
    BY <1>1, RunStepCalls, MilvusCallRows
  <2>3. CutInv(r)'
    BY <1>1, CutStepKeeps
  <2>4. ASSUME NEW q \in Runs \ {r}
        PROVE  CutInv(q)'
    <3>1. ~Active(q)
      BY <1>1, RunsAlone
    <3>2. run'[q] = run[q]
      BY <1>1, OthersKeepTheirRecord
    <3> QED  BY <2>2, <3>1, <3>2, InactiveKeeps
  <2> QED  BY <2>1, <2>2, <2>3, <2>4
<1>2. CASE Environment
  <2>1. run' = run
    BY <1>2 DEF Environment, Tick, LeaseExpires
  <2>2. OneRunAtATime'
    BY <2>1 DEF OneRunAtATime, Active
  <2>3. RowsKept'
    <3>1. CASE MilvusNext
      BY <3>1, MilvusStepRows
    <3>2. CASE Tick \/ \E r \in Runs : LeaseExpires(r)
      BY <3>2 DEF Tick, LeaseExpires, milvusVars, RowsKept, AckedRows
    <3> QED  BY <1>2, <3>1, <3>2 DEF Environment
  <2> QED  BY <1>2, <2>2, <2>3, CutEnvironmentKeeps
<1>3. CASE UNCHANGED vars
  <2>1. UNCHANGED <<databases, deny, acked, growing, meta, run>>
    BY <1>3 DEF vars, milvusVars
  <2>2. OneRunAtATime' /\ RowsKept'
    BY <2>1 DEF OneRunAtATime, Active, RowsKept, AckedRows
  <2>3. ASSUME NEW q \in Runs PROVE CutInv(q)'
    BY <2>1 DEF CutInv, ReturnsOnce, DeniedSoFar, FlushedSoFar, CutTaken, Closed, InSnapshot,
                Succeeded, AckedRows
  <2> QED  BY <2>2, <2>3
<1> QED  BY <1>1, <1>2, <1>3 DEF Next

\* The invariant of the cut, for runs that do not overlap.
LEMMA CutInvariantHolds ==
  ASSUME Overlap = FALSE
  PROVE  Spec => []CutInvariant
BY InitCutInvariant, NextCutInvariant, PTL DEF Spec

-----------------------------------------------------------------------------
(***************************************************************************)
(* What follows from it.                                                   *)
(***************************************************************************)
\* From the etcd image on, the image of a run that does not overlap another has
\* every acknowledged row of the databases the run listed: nothing is left in
\* memory, nothing slips in, whatever fails (create.go:83 to create.go:155).
THEOREM ImageIsComplete ==
  ASSUME Overlap = FALSE
  PROVE  Spec => []PointInTimeCut
<1>1. CutInvariant => PointInTimeCut
  BY DEF CutInvariant, CutInv, CutTaken, PointInTimeCut
<1> QED  BY <1>1, CutInvariantHolds, PTL

\* While a run that does not overlap another is between its first flush and its
\* last copy, no row of a database it listed is acknowledged.
THEOREM CutoffIsClean ==
  ASSUME Overlap = FALSE
  PROVE  Spec => CleanCutoff
<1> DEFINE NoRowSlipsIn ==
      \A r \in Runs, c \in Collections :
        InSnapshot(r) /\ DbOf[c] \in run[r].dbs => acked'[c] = acked[c]
<1>1. CutInvariant /\ [Next]_vars => NoRowSlipsIn
  <2> SUFFICES ASSUME CutInvariant, [Next]_vars, NEW r \in Runs, NEW c \in Collections,
                      InSnapshot(r), DbOf[c] \in run[r].dbs
               PROVE  acked'[c] = acked[c]
    OBVIOUS
  <2>1. deny[DbOf[c]]
    BY DEF CutInvariant, CutInv, DeniedSoFar, Closed
  <2>2. ASSUME NEW q \in Runs, Start(q) \/ RunStep(q) \/ Crash(q)
        PROVE  acked' = acked
    BY <2>2, RunStepCalls, MilvusCallRows DEF CutInvariant
  <2>3. CASE Environment
    BY <2>1, <2>3, MilvusStepRows DEF CutInvariant, Environment, Tick, LeaseExpires, milvusVars
  <2>4. CASE UNCHANGED vars
    BY <2>4 DEF vars, milvusVars
  <2> QED  BY <2>2, <2>3, <2>4 DEF Next
<1>2. NoRowSlipsIn => [NoRowSlipsIn]_vars
  OBVIOUS
<1> HIDE DEF NoRowSlipsIn
<1>3. Spec => [][NoRowSlipsIn]_vars
  BY <1>1, <1>2, CutInvariantHolds, PTL DEF Spec
<1> QED  BY <1>3 DEF NoRowSlipsIn, CleanCutoff

-----------------------------------------------------------------------------
(***************************************************************************)
(* An archive is written by its own run, until that returns.               *)
(***************************************************************************)
\* A step of a run writes only under the ID of that run.
LEMMA WritesOwnArchive ==
  ASSUME TypeOK, NEW r \in Runs, Start(r) \/ RunStep(r) \/ Crash(r)
  PROVE  \A i \in SnapshotIds :
           \/ backupEtcd'[i] = backupEtcd[i] /\ backupS3'[i] = backupS3[i]
           \/ i = run[r].id /\ run[r].pc \in {"upload", "copy"}
<1>1. /\ run[r].id \in SnapshotIds
      /\ backupEtcd \in [SnapshotIds -> SUBSET Segments]
      /\ backupS3 \in [SnapshotIds -> SUBSET Segments]
  BY DEF TypeOK, RunState
<1> QED
  BY <1>1 DEF RunStep, Start, Crash, ListDatabases, DenyWriting, PauseGC, ListForFlush,
     ListCollections, FlushCollection, SnapshotEtcd, Upload, PutEtcdImage, ListKeys,
     CopyObject, StoreCopies, CopyFails, CallFails, ResumeGC, AllowWriting, AllowFails,
     backupVars

ArchivesStay ==
  \A r \in Runs : Succeeded(r) =>
    LET id == run[r].id
    IN  backupEtcd'[id] = backupEtcd[id] /\ backupS3'[id] = backupS3[id]

\* What a successful run stored is not written again: IDs are distinct.
LEMMA StepKeepsArchives == CutInvariant /\ DistinctIds /\ [Next]_vars => ArchivesStay
<1> SUFFICES ASSUME CutInvariant, DistinctIds, [Next]_vars, NEW r \in Runs, Succeeded(r)
             PROVE  /\ backupEtcd'[run[r].id] = backupEtcd[run[r].id]
                    /\ backupS3'[run[r].id] = backupS3[run[r].id]
  BY DEF ArchivesStay
<1>1. run[r].id \in SnapshotIds /\ run[r].pc \in {"resume", "allow", "done", "crashed"}
  BY DEF CutInvariant, TypeOK, RunState, CutInv, ReturnsOnce, Succeeded
<1>2. ASSUME NEW q \in Runs, Start(q) \/ RunStep(q) \/ Crash(q)
      PROVE  /\ backupEtcd'[run[r].id] = backupEtcd[run[r].id]
             /\ backupS3'[run[r].id] = backupS3[run[r].id]
  <2>1. ~(run[r].id = run[q].id /\ run[q].pc \in {"upload", "copy"})
    BY <1>1 DEF DistinctIds
  <2> QED  BY <1>1, <1>2, <2>1, WritesOwnArchive DEF CutInvariant
<1>3. CASE Environment \/ UNCHANGED vars
  BY <1>3 DEF Environment, Tick, LeaseExpires, vars, backupVars
<1> QED  BY <1>2, <1>3 DEF Next

-----------------------------------------------------------------------------
(***************************************************************************)
(* The refinement.  A run archives the whole database at one instant if it *)
(* has listed every database and keeps its lease: Databases is what exists *)
(* at the start, a pause never fails and no lease runs out.                *)
(***************************************************************************)
Acknowledged == UNION {AckedRows(c) : c \in Collections}

WholeInv(r) ==
  /\ run[r].pc = "idle" => lease[r] = "none"
  /\ Active(r) => lease[r] # "expired"
  /\ run[r].pc \in {"deny", "pause"} \/ InSnapshot(r) => run[r].dbs = Databases
  /\ InSnapshot(r) => run[r].ticket
  /\ run[r].pc \in {"upload", "keys", "copy"} => UNION run[r].etcdBuf \subseteq Acknowledged
  /\ run[r].pc \in {"keys", "copy"} => backupEtcd[run[r].id] = run[r].etcdBuf

WholeInvariant ==
  /\ databases = Databases
  /\ UNION meta \subseteq Acknowledged
  /\ \A r \in Runs : WholeInv(r)

\* Acknowledged only grows, and an insert adds one new row to it.
LEMMA FlushedWasAcknowledged ==
  ASSUME TypeOK, RowsKept, UNION meta \subseteq Acknowledged, NEW c \in Collections, Flush(c)
  PROVE  UNION meta' \subseteq Acknowledged'
<1>1. /\ meta' = meta \cup (IF growing[c] = {} THEN {} ELSE {growing[c]})
      /\ acked' = acked
  BY DEF Flush
<1>2. Acknowledged' = Acknowledged
  BY <1>1 DEF Acknowledged, AckedRows
<1>3. growing[c] \subseteq Acknowledged
  BY DEF RowsKept, Acknowledged
<1> QED  BY <1>1, <1>2, <1>3

\* An insert acknowledges one row, and a row that was not there before.
LEMMA InsertAcknowledges ==
  ASSUME TypeOK, RowsKept, NEW c \in Collections, Insert(c)
  PROVE  \E row \in Rows : row \notin Acknowledged /\ Acknowledged' = Acknowledged \cup {row}
<1> DEFINE row == <<c, acked[c] + 1>>
<1>1. /\ acked[c] \in Nat /\ acked[c] < MaxRows /\ MaxRows \in Nat
      /\ acked \in [Collections -> 0..MaxRows]
  BY MilvusAssumption DEF Insert, TypeOK, MilvusTypeOK
<1>2. acked[c] + 1 \in 1..MaxRows /\ acked[c] + 1 \notin 1..acked[c]
  BY <1>1
<1>3. row \in Rows
  BY <1>2 DEF Rows
<1>4. row \notin Acknowledged
  BY <1>2 DEF Acknowledged, AckedRows
<1>5. /\ AckedRows(c)' = AckedRows(c) \cup {row}
      /\ \A e \in Collections \ {c} : AckedRows(e)' = AckedRows(e)
  BY InsertKeepsRows DEF AckedRows
<1>6. Acknowledged' = Acknowledged \cup {row}
  <2> HIDE DEF row
  <2> QED  BY <1>5 DEF Acknowledged
<1> QED  BY <1>3, <1>4, <1>6

\* A step of the server acknowledges one new row, or none.
LEMMA MilvusStepAcknowledges ==
  ASSUME TypeOK, RowsKept, UNION meta \subseteq Acknowledged, MilvusNext
  PROVE  /\ UNION meta' \subseteq Acknowledged'
         /\ \/ Acknowledged' = Acknowledged
            \/ \E row \in Rows : row \notin Acknowledged /\ Acknowledged' = Acknowledged \cup {row}
<1>1. ASSUME UNCHANGED acked
      PROVE  Acknowledged' = Acknowledged
  BY <1>1 DEF Acknowledged, AckedRows
<1>2. ASSUME NEW c \in Collections, Insert(c)
      PROVE  /\ UNION meta' \subseteq Acknowledged'
             /\ \E row \in Rows : row \notin Acknowledged /\ Acknowledged' = Acknowledged \cup {row}
  <2>1. meta' = meta
    BY <1>2 DEF Insert
  <2> QED  BY <1>2, <2>1, InsertAcknowledges
<1>3. ASSUME NEW c \in Collections, AutoFlush(c)
      PROVE  UNION meta' \subseteq Acknowledged' /\ acked' = acked
  BY <1>3, FlushedWasAcknowledged DEF AutoFlush, Flush
<1>4. ASSUME NEW s \in meta, NEW t \in meta, Compact(s, t)
      PROVE  UNION meta' \subseteq UNION meta /\ acked' = acked
  <2>1. meta' = (meta \ {s, t}) \cup {s \cup t} /\ acked' = acked
    BY <1>4 DEF Compact
  <2>2. s \subseteq UNION meta /\ t \subseteq UNION meta
    OBVIOUS
  <2> QED  BY <2>1, <2>2
<1>5. ASSUME \/ \E d \in Databases : CreateDatabase(d)
             \/ \E s \in objects : CollectGarbage(s)
      PROVE  meta' = meta /\ acked' = acked
  BY <1>5 DEF CreateDatabase, CollectGarbage
<1> QED  BY <1>1, <1>2, <1>3, <1>4, <1>5 DEF MilvusNext

\* A call of a run acknowledges nothing.
LEMMA MilvusCallAcknowledges ==
  ASSUME TypeOK, RowsKept, UNION meta \subseteq Acknowledged, MilvusCall
  PROVE  UNION meta' \subseteq Acknowledged' /\ Acknowledged' = Acknowledged
<1>1. Acknowledged' = Acknowledged
  BY MilvusCallRows DEF Acknowledged, AckedRows
<1>2. (\E c \in Collections : Flush(c)) \/ meta' = meta
  BY DEF MilvusCall, SetDenyWriting, GrantLease, CancelLease, milvusVars
<1> QED  BY <1>1, <1>2, FlushedWasAcknowledged

\* The invariant of a run, action by action.
LEMMA WholeStepKeeps ==
  ASSUME TypeOK, databases = Databases, UNION meta \subseteq Acknowledged,
         Acknowledged' = Acknowledged, "pause" \notin Faults,
         NEW r \in Runs, WholeInv(r), Start(r) \/ RunStep(r) \/ Crash(r)
  PROVE  WholeInv(r)'
<1>0. /\ run \in [Runs -> RunState] /\ run[r] \in RunState /\ lease \in [Runs -> LeaseStates]
      /\ run[r].id \in SnapshotIds /\ backupEtcd \in [SnapshotIds -> SUBSET Segments]
  BY DEF TypeOK, MilvusTypeOK, RunState
<1> USE <1>0
<1> USE DEF WholeInv, InSnapshot, Active, Calls
<1>1. CASE Start(r)
  BY <1>1 DEF Start, MayStart, RunState, milvusVars, LeaseStates
<1>2. CASE ListDatabases(r)
  BY <1>2 DEF ListDatabases, milvusVars, RunState
<1>3. CASE DenyWriting(r)
  BY <1>3 DEF DenyWriting, SetDenyWriting, RunState
<1>4. CASE PauseGC(r)
  <2>1. /\ run[r].pc = "pause" /\ GrantLease(r)
        /\ run' = [run EXCEPT ![r] = [@ EXCEPT !.pc = "relist", !.ticket = TRUE]]
    BY <1>4 DEF PauseGC
  <2>2. lease'[r] = "held"
    BY <2>1 DEF GrantLease
  <2> QED  BY <2>1, <2>2 DEF RunState
<1>5. CASE ListForFlush(r)
  BY <1>5 DEF ListForFlush, milvusVars, RunState
<1>6. CASE ListCollections(r)
  BY <1>6 DEF ListCollections, NextFlush, milvusVars, RunState
<1>7. CASE FlushCollection(r)
  BY <1>7 DEF FlushCollection, Flush, NextFlush, RunState
<1>8. CASE SnapshotEtcd(r)
  BY <1>8 DEF SnapshotEtcd, milvusVars, RunState
<1>9. CASE Upload(r)
  BY <1>9 DEF Upload, PutEtcdImage, milvusVars, RunState
<1>10. CASE ListKeys(r)
  BY <1>10 DEF ListKeys, Returned, milvusVars, backupVars, RunState
<1>11. CASE CopyObject(r)
  BY <1>11 DEF CopyObject, StoreCopies, Returned, milvusVars, RunState
<1>12. CASE CopyFails(r)
  BY <1>12 DEF CopyFails, StoreCopies, Returned, milvusVars, RunState
<1>13. CASE CallFails(r)
  <2>1. run' = [run EXCEPT ![r] = Returned(@, "error")] /\ Active(r)
    BY <1>13 DEF CallFails
  <2>2. lease' = lease
    BY <1>13 DEF CallFails, SetDenyWriting, Flush, milvusVars
  <2> QED  BY <2>1, <2>2 DEF Returned, RunState
<1>14. CASE ResumeGC(r)
  BY <1>14 DEF ResumeGC, CancelLease, milvusVars, RunState, LeaseStates
<1>15. CASE AllowWriting(r)
  BY <1>15 DEF AllowWriting, Visited, SetDenyWriting, RunState
<1>16. CASE AllowFails(r)
  BY <1>16 DEF AllowFails, Visited, SetDenyWriting, milvusVars, RunState
<1>17. CASE Crash(r)
  BY <1>17 DEF Crash, milvusVars, RunState
<1> QED
  BY <1>1, <1>2, <1>3, <1>4, <1>5, <1>6, <1>7, <1>8, <1>9, <1>10, <1>11, <1>12,
     <1>13, <1>14, <1>15, <1>16, <1>17 DEF RunStep

\* With every database listed from the start, no run has lost anything yet.
LEMMA InitWholeInvariant ==
  ASSUME InitialDatabases = Databases
  PROVE  Init => WholeInvariant
BY DEF Init, MilvusInit, NewRun, WholeInvariant, WholeInv, Active, Calls, InSnapshot

\* The pause that cannot fail and the lease that lasts are used in WholeStepKeeps.
LEMMA NextWholeInvariant ==
  ASSUME Overlap = FALSE, {"pause", "expire"} \cap Faults = {}
  PROVE  CutInvariant /\ CopyInvariant /\ WholeInvariant /\ [Next]_vars => WholeInvariant'
<1> SUFFICES ASSUME CutInvariant, CopyInvariant, WholeInvariant, [Next]_vars
             PROVE  WholeInvariant'
  OBVIOUS
<1> USE DEF CutInvariant, WholeInvariant
<1>1. ASSUME NEW r \in Runs, Start(r) \/ RunStep(r) \/ Crash(r)
      PROVE  WholeInvariant'
  <2>1. databases' = Databases
    BY <1>1, RunStepCalls, MilvusCallRows
  <2>2. UNION meta' \subseteq Acknowledged' /\ Acknowledged' = Acknowledged
    BY <1>1, RunStepCalls, MilvusCallAcknowledges
  <2>3. WholeInv(r)'
    BY <1>1, <2>2, WholeStepKeeps
  <2>4. ASSUME NEW q \in Runs \ {r}
        PROVE  WholeInv(q)'
    <3>1. ~Active(q)
      BY <1>1, RunsAlone
    <3>2. run'[q] = run[q] /\ lease'[q] = lease[q]
      BY <1>1, RunStepFrame DEF CopyInvariant
    <3>3. WholeInv(q)
      OBVIOUS
    <3> QED  BY <3>1, <3>2, <3>3 DEF WholeInv, Active, Calls, InSnapshot
  <2> QED  BY <2>1, <2>2, <2>3, <2>4
<1>2. CASE MilvusNext /\ UNCHANGED <<clock, run, backupVars>>
  <2>1. databases' = Databases
    BY <1>2, MilvusStepTyped, MilvusStepRows DEF TypeOK, MilvusTypeOK
  <2>2. UNION meta' \subseteq Acknowledged' /\ Acknowledged \subseteq Acknowledged'
    BY <1>2, MilvusStepAcknowledges
  <2>3. lease' = lease
    BY <1>2, MilvusStepStores DEF CopyInvariant
  <2> QED  BY <1>2, <2>1, <2>2, <2>3 DEF WholeInv, Active, InSnapshot, backupVars
<1>3. CASE Tick \/ UNCHANGED vars
  <2>1. UNCHANGED <<databases, acked, meta, lease, run, backupEtcd>>
    BY <1>3 DEF Tick, vars, milvusVars, backupVars
  <2> QED  BY <2>1 DEF WholeInv, Active, InSnapshot, Acknowledged, AckedRows
<1>4. ASSUME NEW r \in Runs, LeaseExpires(r)
      PROVE  WholeInvariant'
  <2>1. /\ UNCHANGED <<databases, acked, meta, run, backupEtcd>>
        /\ ~Active(r) /\ lease[r] = "held"
        /\ \A q \in Runs \ {r} : lease'[q] = lease[q]
    BY <1>4 DEF LeaseExpires, backupVars, TypeOK, MilvusTypeOK
  <2> QED  BY <2>1 DEF WholeInv, Active, InSnapshot, Acknowledged, AckedRows
<1> QED  BY <1>1, <1>2, <1>3, <1>4 DEF Next, Environment

-----------------------------------------------------------------------------
(***************************************************************************)
(* Every step is a step of PointInTimeBackup, or leaves it where it is.    *)
(***************************************************************************)
\* The body of a run returns once, and successfully only after its listing or
\* its last copy.
LEMMA SucceedsOnce ==
  ASSUME TypeOK, NEW r \in Runs, ReturnsOnce(r), Start(r) \/ RunStep(r) \/ Crash(r)
  PROVE  \/ Succeeded(r)' <=> Succeeded(r)
         \/ /\ ~Succeeded(r) /\ Succeeded(r)'
            /\ run[r].pc \in {"keys", "copy"}
            /\ run'[r].etcdBuf = run[r].etcdBuf /\ run'[r].ticket = run[r].ticket
            /\ UNCHANGED <<backupEtcd, lease>>
<1>0. run \in [Runs -> RunState] /\ run[r] \in RunState
  BY DEF TypeOK
<1> USE <1>0 DEF Succeeded
<1>1. CASE Start(r)
  <2>1. run'[r].result = run[r].result
    BY <1>1 DEF Start, RunState
  <2> QED  BY <2>1
<1>2. CASE ListDatabases(r)
  <2>1. run'[r].result = run[r].result
    BY <1>2 DEF ListDatabases, RunState
  <2> QED  BY <2>1
<1>3. CASE DenyWriting(r)
  <2>1. run'[r].result = run[r].result
    BY <1>3 DEF DenyWriting, RunState
  <2> QED  BY <2>1
<1>4. CASE ListForFlush(r)
  <2>1. run'[r].result = run[r].result
    BY <1>4 DEF ListForFlush, RunState
  <2> QED  BY <2>1
<1>5. CASE ListCollections(r)
  <2>1. run'[r].result = run[r].result
    BY <1>5 DEF ListCollections, RunState
  <2> QED  BY <2>1
<1>6. CASE FlushCollection(r)
  <2>1. run'[r].result = run[r].result
    BY <1>6 DEF FlushCollection, RunState
  <2> QED  BY <2>1
<1>7. CASE SnapshotEtcd(r)
  <2>1. run'[r].result = run[r].result
    BY <1>7 DEF SnapshotEtcd, RunState
  <2> QED  BY <2>1
<1>8. CASE Upload(r)
  <2>1. run'[r].result = run[r].result
    BY <1>8 DEF Upload, RunState
  <2> QED  BY <2>1
<1>9. CASE ResumeGC(r)
  <2>1. run'[r].result = run[r].result
    BY <1>9 DEF ResumeGC, RunState
  <2> QED  BY <2>1
<1>10. CASE AllowWriting(r)
  <2>1. run'[r].result = run[r].result
    BY <1>10 DEF AllowWriting, Visited, RunState
  <2> QED  BY <2>1
<1>11. CASE AllowFails(r)
  <2>1. run'[r].result = run[r].result
    BY <1>11 DEF AllowFails, Visited, RunState
  <2> QED  BY <2>1
<1>12. CASE Crash(r)
  <2>1. run'[r].result = run[r].result
    BY <1>12 DEF Crash, RunState
  <2> QED  BY <2>1
<1>13. CASE PauseGC(r)
  <2>1. \/ run' = [run EXCEPT ![r] = [@ EXCEPT !.pc = "relist", !.ticket = TRUE]]
        \/ run' = [run EXCEPT ![r] = [@ EXCEPT !.pc = "relist"]]
    BY <1>13 DEF PauseGC
  <2>2. CASE run' = [run EXCEPT ![r] = [@ EXCEPT !.pc = "relist", !.ticket = TRUE]]
    BY <2>2 DEF RunState
  <2>3. CASE run' = [run EXCEPT ![r] = [@ EXCEPT !.pc = "relist"]]
    BY <2>3 DEF RunState
  <2> QED  BY <2>1, <2>2, <2>3
<1>14. CASE ListKeys(r)
  BY <1>14 DEF ReturnsOnce, ListKeys, Returned, milvusVars, backupVars, RunState
<1>15. CASE CopyObject(r)
  BY <1>15 DEF ReturnsOnce, CopyObject, StoreCopies, Returned, milvusVars, RunState
<1>16. CASE CopyFails(r) \/ CallFails(r)
  <2>1. /\ run' = [run EXCEPT ![r] = Returned(@, "error")]
        /\ run[r].pc \notin {"resume", "allow", "done", "crashed"}
    BY <1>16 DEF CopyFails, CallFails
  <2> QED  BY <2>1 DEF ReturnsOnce, Returned, RunState
<1> QED
  BY <1>1, <1>2, <1>3, <1>4, <1>5, <1>6, <1>7, <1>8, <1>9,
     <1>10, <1>11, <1>12, <1>13, <1>14, <1>15, <1>16 DEF RunStep

\* At that moment the archive of the run restores to what is acknowledged.
LEMMA TakenIsAcknowledged ==
  ASSUME CutInvariant, CopyInvariant, CopyInvariant', WholeInvariant,
         NEW r \in Runs, RunStep(r), ~Succeeded(r), Succeeded(r)'
  PROVE  Restorable(r)' = Acknowledged
<1>1. /\ run[r].pc \in {"keys", "copy"}
      /\ run'[r].etcdBuf = run[r].etcdBuf /\ run'[r].ticket = run[r].ticket
      /\ UNCHANGED <<backupEtcd, lease>>
  BY SucceedsOnce DEF CutInvariant, CutInv
<1>2. run'[r].id = run[r].id
  BY StepOfActive DEF CutInvariant
<1>3. /\ backupEtcd[run[r].id] = run[r].etcdBuf
      /\ run[r].ticket /\ lease[r] # "expired" /\ run[r].dbs = Databases
      /\ UNION run[r].etcdBuf \subseteq Acknowledged
  BY <1>1 DEF WholeInvariant, WholeInv, InSnapshot, Active, Calls
<1>4. run[r].etcdBuf \subseteq backupS3'[run[r].id]
  <2>1. RunInv(r)'
    BY DEF CopyInvariant
  <2> QED  BY <1>1, <1>2, <1>3, <2>1 DEF RunInv, ImageIsCovered
<1>5. Acknowledged \subseteq UNION run[r].etcdBuf
  <2>1. \A c \in Collections : AckedRows(c) \subseteq UNION run[r].etcdBuf
    BY <1>1, <1>3, MilvusAssumption DEF CutInvariant, CutInv, CutTaken
  <2> QED  BY <2>1 DEF Acknowledged
<1>6. backupEtcd'[run[r].id] \cap backupS3'[run[r].id] = run[r].etcdBuf
  BY <1>1, <1>3, <1>4
<1>7. Restorable(r)' = UNION run[r].etcdBuf
  BY <1>2, <1>6 DEF Restorable
<1> QED  BY <1>3, <1>5, <1>7

Taken == {r \in Runs : Succeeded(r)}

Archive == [r \in Runs |-> IF Succeeded(r) THEN Restorable(r) ELSE {}]

\* What is taken and unchanged in the bucket restores to the same rows.
LEMMA ArchiveOfOthers ==
  ASSUME CutInvariant, DistinctIds, [Next]_vars, NEW r \in Runs, Succeeded(r), run'[r].id = run[r].id
  PROVE  Restorable(r)' = Restorable(r)
BY StepKeepsArchives DEF ArchivesStay, Restorable

\* A step of a run takes an archive, or changes nothing that is seen.
LEMMA RunImplements ==
  ASSUME CutInvariant, DistinctIds, CopyInvariant, CopyInvariant', WholeInvariant,
         [Next]_vars, NEW r \in Runs, Start(r) \/ RunStep(r) \/ Crash(r)
  PROVE  Backup!Take(r) \/ UNCHANGED <<Acknowledged, Taken, Archive>>
<1>1. Acknowledged' = Acknowledged
  BY RunStepCalls, MilvusCallAcknowledges DEF CutInvariant, WholeInvariant
<1>2. \A q \in Runs \ {r} : run'[q] = run[q]
  BY OthersKeepTheirRecord DEF CutInvariant
<1>3. \A q \in Runs \ {r} : Succeeded(q)' = Succeeded(q) /\ Archive'[q] = Archive[q]
  BY <1>2, ArchiveOfOthers DEF Succeeded, Archive
<1>4. CASE Succeeded(r)' /\ ~Succeeded(r)
  <2>0. run \in [Runs -> RunState]
    BY DEF CutInvariant, TypeOK
  <2>1. RunStep(r)
    <3>1. CASE Start(r)
      BY <1>4, <2>0, <3>1 DEF Start, Succeeded, RunState
    <3>2. CASE Crash(r)
      BY <1>4, <2>0, <3>2 DEF Crash, Succeeded, RunState
    <3> QED  BY <3>1, <3>2
  <2>2. Archive'[r] = Acknowledged
    BY <1>4, <2>1, TakenIsAcknowledged DEF Archive
  <2>3. Taken' = Taken \cup {r} /\ r \notin Taken
    BY <1>3, <1>4 DEF Taken
  <2>4. Archive' = [Archive EXCEPT ![r] = Acknowledged]
    BY <1>3, <2>2 DEF Archive
  <2> QED  BY <1>1, <2>3, <2>4 DEF Backup!Take, Taken, Archive, Acknowledged
<1>5. CASE Succeeded(r)' <=> Succeeded(r)
  <2>1. Taken' = Taken
    BY <1>3, <1>5 DEF Taken
  <2>2. Succeeded(r) => run'[r].id = run[r].id
    <3>1. Succeeded(r) => ~Start(r)
      BY DEF Start, MayStart, CutInvariant, CutInv, ReturnsOnce, Succeeded
    <3> QED  BY <3>1, StepOfActive DEF CutInvariant
  <2>3. Archive'[r] = Archive[r]
    BY <1>5, <2>2, ArchiveOfOthers DEF Archive
  <2>4. Archive' = Archive
    BY <1>3, <2>3 DEF Archive
  <2> QED  BY <1>1, <2>1, <2>4
<1> QED  BY <1>4, <1>5, SucceedsOnce DEF CutInvariant, CutInv

\* The server's steps are writes, or change nothing that is seen.
LEMMA OthersImplement ==
  ASSUME CutInvariant, WholeInvariant, Environment \/ UNCHANGED vars
  PROVE  (\E row \in Rows : Backup!Write(row)) \/ UNCHANGED <<Acknowledged, Taken, Archive>>
<1>1. UNCHANGED <<run, backupEtcd, backupS3>>
  BY DEF Environment, Tick, LeaseExpires, vars, backupVars
<1>2. Taken' = Taken /\ Archive' = Archive
  BY <1>1 DEF Taken, Archive, Succeeded, Restorable
<1>3. CASE MilvusNext
  <2>1. \/ Acknowledged' = Acknowledged
        \/ \E row \in Rows : row \notin Acknowledged /\ Acknowledged' = Acknowledged \cup {row}
    BY <1>3, MilvusStepAcknowledges DEF CutInvariant, WholeInvariant
  <2> QED  BY <1>2, <2>1 DEF Backup!Write, Acknowledged, Taken, Archive
<1>4. CASE UNCHANGED acked
  BY <1>2, <1>4 DEF Acknowledged, AckedRows
<1> QED  BY <1>3, <1>4 DEF Environment, Tick, LeaseExpires, vars, milvusVars

\* Runs that do not overlap, start in different seconds, list every database and
\* keep their lease implement PointInTimeBackup: the archive of a successful run is the image of the whole
\* database at one instant, and no archive changes (create.go:28, README.md:86).
THEOREM CreateImplementsPointInTimeBackup ==
  ASSUME Overlap = FALSE, SameSecond = FALSE, InitialDatabases = Databases,
         {"pause", "expire"} \cap Faults = {}
  PROVE  Spec => ImplementsPointInTimeBackup
<1>1. Init => Backup!Init
  BY DEF Init, MilvusInit, NewRun, Backup!Init, Succeeded, AckedRows
<1>2. CutInvariant /\ DistinctIds /\ CopyInvariant /\ CopyInvariant' /\ WholeInvariant
        /\ [Next]_vars => [Backup!Next]_(Backup!backupVars)
  <2> SUFFICES ASSUME CutInvariant, DistinctIds, CopyInvariant, CopyInvariant', WholeInvariant,
                      [Next]_vars
               PROVE  [Backup!Next]_(Backup!backupVars)
    OBVIOUS
  <2>1. UNCHANGED <<Acknowledged, Taken, Archive>> => UNCHANGED Backup!backupVars
    BY DEF Backup!backupVars, Acknowledged, Taken, Archive
  <2>2. ASSUME NEW r \in Runs, Start(r) \/ RunStep(r) \/ Crash(r)
        PROVE  [Backup!Next]_(Backup!backupVars)
    BY <2>1, <2>2, RunImplements DEF Backup!Next
  <2>3. CASE Environment \/ UNCHANGED vars
    BY <2>1, <2>3, OthersImplement DEF Backup!Next
  <2> QED  BY <2>2, <2>3 DEF Next
<1>3. Spec => []CopyInvariant
  BY InitCopyInvariant, NextCopyInvariant, PTL DEF Spec
<1>4. Spec => []WholeInvariant
  BY <1>3, InitWholeInvariant, NextWholeInvariant, CutInvariantHolds, PTL DEF Spec
<1> QED
  BY <1>1, <1>2, <1>3, <1>4, CutInvariantHolds, IdsAreDistinct, PTL
     DEF Spec, ImplementsPointInTimeBackup, Backup!Spec

=============================================================================
