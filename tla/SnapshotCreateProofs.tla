------------------------- MODULE SnapshotCreateProofs -------------------------
(***************************************************************************)
(* Proofs about SnapshotCreate for any number of runs, databases,          *)
(* collections and rows, and any set of faults.                            *)
(***************************************************************************)
EXTENDS SnapshotCreate, TLAPS

-----------------------------------------------------------------------------
(***************************************************************************)
(* Type correctness.                                                       *)
(***************************************************************************)

\* The server and its clients keep the types of their state.
LEMMA MilvusStepTyped ==
  ASSUME MilvusTypeOK, MilvusNext
  PROVE  MilvusTypeOK'
<1> USE MilvusAssumption
<1> USE DEF MilvusTypeOK
<1>1. ASSUME NEW d \in Databases, CreateDatabase(d)
      PROVE  MilvusTypeOK'
  BY <1>1 DEF CreateDatabase
<1>2. ASSUME NEW c \in Collections, Insert(c)
      PROVE  MilvusTypeOK'
  BY <1>2 DEF Insert, Rows
<1>3. ASSUME NEW c \in Collections, AutoFlush(c)
      PROVE  MilvusTypeOK'
  BY <1>3 DEF AutoFlush, Flush, Segments
<1>4. ASSUME NEW s \in meta, NEW t \in meta, Compact(s, t)
      PROVE  MilvusTypeOK'
  BY <1>4 DEF Compact, Segments
<1>5. ASSUME NEW s \in objects, CollectGarbage(s)
      PROVE  MilvusTypeOK'
  BY <1>5 DEF CollectGarbage
<1> QED  BY <1>1, <1>2, <1>3, <1>4, <1>5 DEF MilvusNext

\* So does every call of a run that the server carries out.
MilvusCall ==
  \/ \E d \in Databases, value \in BOOLEAN : SetDenyWriting(d, value)
  \/ \E c \in Collections : Flush(c)
  \/ \E r \in Runs : GrantLease(r) \/ CancelLease(r)
  \/ UNCHANGED milvusVars

LEMMA MilvusCallTyped ==
  ASSUME MilvusTypeOK, MilvusCall
  PROVE  MilvusTypeOK'
<1> USE DEF MilvusTypeOK
<1>1. ASSUME NEW d \in Databases, NEW value \in BOOLEAN, SetDenyWriting(d, value)
      PROVE  MilvusTypeOK'
  BY <1>1 DEF SetDenyWriting
<1>2. ASSUME NEW c \in Collections, Flush(c)
      PROVE  MilvusTypeOK'
  BY <1>2 DEF Flush, Segments
<1>3. ASSUME NEW r \in Runs, GrantLease(r) \/ CancelLease(r)
      PROVE  MilvusTypeOK'
  BY <1>3 DEF GrantLease, CancelLease, LeaseStates
<1>4. CASE UNCHANGED milvusVars
  BY <1>4 DEF milvusVars
<1> QED  BY <1>1, <1>2, <1>3, <1>4 DEF MilvusCall

\* What a run does to its own record.
LEMMA ReturnedTyped ==
  ASSUME NEW rec \in RunState, NEW result \in {"ok", "error"}
  PROVE  Returned(rec, result) \in RunState
BY DEF Returned, RunState, Calls

LEMMA VisitedTyped ==
  ASSUME NEW rec \in RunState, NEW d
  PROVE  Visited(rec, d) \in RunState
BY DEF Visited, RunState, Calls

LEMMA NextFlushIsCall == \A colls, dbs : NextFlush(colls, dbs) \in Calls
BY DEF NextFlush, Calls

\* An action of a run replaces the run's own record, and at most makes one call
\* of the server and stores something in the backup bucket.
RunRecord(r, rec) == rec \in RunState /\ run' = [run EXCEPT ![r] = rec]

BackupTypeOK ==
  /\ uploaded \in SUBSET SnapshotIds
  /\ backupEtcd \in [SnapshotIds -> SUBSET Segments]
  /\ backupS3 \in [SnapshotIds -> SUBSET Segments]

LEMMA RunChangeTyped ==
  ASSUME TypeOK, NEW r \in Runs, NEW rec, RunRecord(r, rec),
         MilvusCall, BackupTypeOK', clock' = clock
  PROVE  TypeOK'
<1>1. run' \in [Runs -> RunState]
  BY DEF RunRecord, TypeOK
<1> QED  BY <1>1, MilvusCallTyped DEF TypeOK, BackupTypeOK

LEMMA RunStepTyped ==
  ASSUME TypeOK, NEW r \in Runs, Start(r) \/ RunStep(r) \/ Crash(r)
  PROVE  TypeOK'
<1>0. /\ run[r] \in RunState
      /\ run[r].id \in SnapshotIds /\ run[r].etcdBuf \in SUBSET Segments
      /\ run[r].todo \in SUBSET Databases /\ run[r].colls \in SUBSET Collections
      /\ run[r].keys \in SUBSET Segments
      /\ databases \in SUBSET Databases
      /\ meta \in SUBSET Segments /\ objects \in SUBSET Segments
      /\ clock \in SnapshotIds
      /\ BackupTypeOK
  BY DEF TypeOK, MilvusTypeOK, BackupTypeOK, RunState
<1>b. UNCHANGED backupVars => BackupTypeOK'
  BY <1>0 DEF backupVars, BackupTypeOK
<1>m. UNCHANGED milvusVars => MilvusCall
  BY DEF MilvusCall
<1>s. ASSUME NEW segs \in SUBSET Segments, StoreCopies(r, segs)
      PROVE  BackupTypeOK' /\ MilvusCall /\ clock' = clock
  BY <1>s, <1>0 DEF StoreCopies, BackupTypeOK, MilvusCall
<1>p. PutEtcdImage(r) => BackupTypeOK'
  BY <1>0 DEF PutEtcdImage, BackupTypeOK
<1>1. CASE Start(r)
  <2>1. RunRecord(r, [run[r] EXCEPT !.pc = "list", !.id = clock])
    BY <1>1, <1>0 DEF Start, RunRecord, RunState, Calls
  <2> QED  BY <1>1, <2>1, <1>b, <1>m, RunChangeTyped DEF Start
<1>2. CASE ListDatabases(r)
  <2>1. RunRecord(r, [run[r] EXCEPT !.pc = "deny", !.dbs = databases, !.todo = databases])
    BY <1>2, <1>0 DEF ListDatabases, RunRecord, RunState, Calls
  <2> QED  BY <1>2, <2>1, <1>b, <1>m, RunChangeTyped DEF ListDatabases
<1>3. CASE DenyWriting(r)
  <2> DEFINE left(d) == run[r].todo \ {d}
             last    == [run[r] EXCEPT !.todo = {}, !.pc = "pause", !.deferred = TRUE]
             rec(d)  == [run[r] EXCEPT !.todo = left(d)]
  <2>1. PICK d \in run[r].todo :
          /\ SetDenyWriting(d, TRUE)
          /\ run' = [run EXCEPT ![r] = IF left(d) = {} THEN last ELSE rec(d)]
    BY <1>3 DEF DenyWriting
  <2>2. last \in RunState /\ rec(d) \in RunState
    BY <1>0 DEF RunState, Calls
  <2>3. MilvusCall
    BY <2>1, <1>0 DEF MilvusCall
  <2> HIDE DEF last, rec
  <2>4. RunRecord(r, last) \/ RunRecord(r, rec(d))
    BY <2>1, <2>2 DEF RunRecord
  <2> QED  BY <1>3, <2>3, <2>4, <1>b, RunChangeTyped DEF DenyWriting
<1>4. CASE PauseGC(r)
  <2>1. MilvusCall
    BY <1>4 DEF PauseGC, MilvusCall
  <2>2. /\ [run[r] EXCEPT !.pc = "relist", !.ticket = TRUE] \in RunState
        /\ [run[r] EXCEPT !.pc = "relist"] \in RunState
    BY <1>0 DEF RunState, Calls
  <2>3. \/ RunRecord(r, [run[r] EXCEPT !.pc = "relist", !.ticket = TRUE])
        \/ RunRecord(r, [run[r] EXCEPT !.pc = "relist"])
    BY <1>4, <2>2 DEF PauseGC, RunRecord
  <2> QED  BY <1>4, <2>1, <2>3, <1>b, RunChangeTyped DEF PauseGC
<1>5. CASE ListForFlush(r)
  <2>1. RunRecord(r, [run[r] EXCEPT !.pc = "collections", !.todo = databases])
    BY <1>5, <1>0 DEF ListForFlush, RunRecord, RunState, Calls
  <2> QED  BY <1>5, <2>1, <1>b, <1>m, RunChangeTyped DEF ListForFlush
<1>6. CASE ListCollections(r)
  <2> DEFINE colls(d) == {c \in Collections : DbOf[c] = d}
             left(d)  == run[r].todo \ {d}
             rec(d)   == [run[r] EXCEPT !.todo = left(d), !.colls = colls(d),
                                        !.pc = NextFlush(colls(d), left(d))]
  <2>1. PICK d \in run[r].todo : run' = [run EXCEPT ![r] = rec(d)]
    BY <1>6 DEF ListCollections
  <2>2. rec(d) \in RunState
    <3>1. NextFlush(colls(d), left(d)) \in Calls
      BY NextFlushIsCall
    <3>2. colls(d) \in SUBSET Collections /\ left(d) \in SUBSET Databases
      BY <1>0
    <3> HIDE DEF colls, left
    <3> QED  BY <3>1, <3>2, <1>0 DEF RunState
  <2> HIDE DEF rec
  <2>3. RunRecord(r, rec(d))
    BY <2>1, <2>2 DEF RunRecord
  <2> QED  BY <1>6, <2>3, <1>b, <1>m, RunChangeTyped DEF ListCollections
<1>7. CASE FlushCollection(r)
  <2> DEFINE left(c) == run[r].colls \ {c}
             rec(c)  == [run[r] EXCEPT !.colls = left(c), !.pc = NextFlush(left(c), run[r].todo)]
  <2>1. PICK c \in run[r].colls : Flush(c) /\ run' = [run EXCEPT ![r] = rec(c)]
    BY <1>7 DEF FlushCollection
  <2>2. rec(c) \in RunState
    <3>1. NextFlush(left(c), run[r].todo) \in Calls
      BY NextFlushIsCall
    <3> QED  BY <3>1, <1>0 DEF RunState
  <2>3. MilvusCall
    BY <2>1, <1>0 DEF MilvusCall
  <2> HIDE DEF rec
  <2>4. RunRecord(r, rec(c))
    BY <2>1, <2>2 DEF RunRecord
  <2> QED  BY <1>7, <2>3, <2>4, <1>b, RunChangeTyped DEF FlushCollection
<1>8. CASE SnapshotEtcd(r)
  <2>1. RunRecord(r, [run[r] EXCEPT !.pc = "upload", !.etcdBuf = meta])
    BY <1>8, <1>0 DEF SnapshotEtcd, RunRecord, RunState, Calls
  <2> QED  BY <1>8, <2>1, <1>b, <1>m, RunChangeTyped DEF SnapshotEtcd
<1>9. CASE Upload(r)
  <2>1. RunRecord(r, [run[r] EXCEPT !.pc = "keys"])
    BY <1>9, <1>0 DEF Upload, RunRecord, RunState, Calls
  <2> QED  BY <1>9, <2>1, <1>p, <1>m, RunChangeTyped DEF Upload
<1>10. CASE ListKeys(r)
  <2>1. /\ Returned(run[r], "ok") \in RunState
        /\ [run[r] EXCEPT !.pc = "copy", !.keys = objects] \in RunState
    BY <1>0, ReturnedTyped DEF RunState, Calls
  <2>2. \/ RunRecord(r, Returned(run[r], "ok"))
        \/ RunRecord(r, [run[r] EXCEPT !.pc = "copy", !.keys = objects])
    BY <1>10, <2>1 DEF ListKeys, RunRecord
  <2> QED  BY <1>10, <2>2, <1>b, <1>m, RunChangeTyped DEF ListKeys
<1>11. CASE CopyObject(r)
  <2> DEFINE rec(s) == [run[r] EXCEPT !.keys = @ \ {s}]
  <2>1. PICK s \in run[r].keys \cap objects :
          /\ StoreCopies(r, {s})
          /\ run' = [run EXCEPT ![r] = IF rec(s).keys = {} THEN Returned(rec(s), "ok") ELSE rec(s)]
    BY <1>11 DEF CopyObject
  <2>2. rec(s) \in RunState
    BY <1>0 DEF RunState
  <2>3. Returned(rec(s), "ok") \in RunState
    BY <2>2, ReturnedTyped
  <2>4. BackupTypeOK' /\ MilvusCall /\ clock' = clock
    BY <2>1, <1>s, <1>0
  <2> HIDE DEF rec
  <2>5. RunRecord(r, Returned(rec(s), "ok")) \/ RunRecord(r, rec(s))
    BY <2>1, <2>2, <2>3 DEF RunRecord
  <2> QED  BY <2>4, <2>5, RunChangeTyped
<1>12. CASE CopyFails(r)
  <2>1. PICK landed \in SUBSET (run[r].keys \cap objects) : StoreCopies(r, landed)
    BY <1>12 DEF CopyFails
  <2>2. BackupTypeOK' /\ MilvusCall /\ clock' = clock
    BY <2>1, <1>s, <1>0
  <2>3. RunRecord(r, Returned(run[r], "error"))
    BY <1>12, <1>0, ReturnedTyped DEF CopyFails, RunRecord
  <2> QED  BY <2>2, <2>3, RunChangeTyped
<1>13. CASE CallFails(r)
  <2>1. RunRecord(r, Returned(run[r], "error"))
    BY <1>13, <1>0, ReturnedTyped DEF CallFails, RunRecord
  <2>2. MilvusCall /\ BackupTypeOK'
    BY <1>13, <1>0, <1>b, <1>p DEF CallFails, MilvusCall
  <2> QED  BY <1>13, <2>1, <2>2, RunChangeTyped DEF CallFails
<1>14. CASE ResumeGC(r)
  <2>1. RunRecord(r, [run[r] EXCEPT !.pc = "allow"])
    BY <1>14, <1>0 DEF ResumeGC, RunRecord, RunState, Calls
  <2>2. MilvusCall
    BY <1>14 DEF ResumeGC, MilvusCall
  <2> QED  BY <1>14, <2>1, <2>2, <1>b, RunChangeTyped DEF ResumeGC
<1>15. CASE AllowWriting(r)
  <2>1. PICK d \in run[r].todo :
          SetDenyWriting(d, FALSE) /\ run' = [run EXCEPT ![r] = Visited(@, d)]
    BY <1>15 DEF AllowWriting
  <2>2. RunRecord(r, Visited(run[r], d))
    BY <2>1, <1>0, VisitedTyped DEF RunRecord
  <2>3. MilvusCall
    BY <2>1, <1>0 DEF MilvusCall
  <2> QED  BY <1>15, <2>2, <2>3, <1>b, RunChangeTyped DEF AllowWriting
<1>16. CASE AllowFails(r)
  <2> DEFINE rec(d) == [Visited(run[r], d) EXCEPT !.manual = run[r].manual \cup {d}]
  <2>1. PICK d \in run[r].todo :
          /\ SetDenyWriting(d, FALSE) \/ UNCHANGED milvusVars
          /\ run' = [run EXCEPT ![r] = rec(d)]
    BY <1>16 DEF AllowFails
  <2>2. rec(d) \in RunState
    <3>1. Visited(run[r], d) \in RunState
      BY <1>0, VisitedTyped
    <3> QED  BY <3>1, <1>0 DEF RunState
  <2>3. MilvusCall
    BY <2>1, <1>0 DEF MilvusCall
  <2> HIDE DEF rec
  <2>4. RunRecord(r, rec(d))
    BY <2>1, <2>2 DEF RunRecord
  <2> QED  BY <1>16, <2>3, <2>4, <1>b, RunChangeTyped DEF AllowFails
<1>17. CASE Crash(r)
  <2>1. RunRecord(r, [run[r] EXCEPT !.pc = "crashed"])
    BY <1>17, <1>0 DEF Crash, RunRecord, RunState
  <2> QED  BY <1>17, <2>1, <1>b, <1>m, RunChangeTyped DEF Crash
<1> QED
  BY <1>1, <1>2, <1>3, <1>4, <1>5, <1>6, <1>7, <1>8, <1>9, <1>10, <1>11, <1>12,
     <1>13, <1>14, <1>15, <1>16, <1>17 DEF RunStep

LEMMA EnvironmentTyped ==
  ASSUME TypeOK, Environment
  PROVE  TypeOK'
<1>1. CASE MilvusNext /\ UNCHANGED <<clock, run, backupVars>>
  BY <1>1, MilvusStepTyped DEF TypeOK, backupVars
<1>2. CASE Tick
  <2>1. MilvusTypeOK'
    BY <1>2 DEF Tick, TypeOK, MilvusTypeOK, milvusVars
  <2> QED  BY <1>2, <2>1, CreateAssumption DEF Tick, TypeOK, backupVars, SnapshotIds
<1>3. ASSUME NEW r \in Runs, LeaseExpires(r)
      PROVE  TypeOK'
  BY <1>3 DEF LeaseExpires, TypeOK, MilvusTypeOK, LeaseStates, backupVars
<1> QED  BY <1>1, <1>2, <1>3 DEF Environment

LEMMA InitTyped == Init => TypeOK
<1> SUFFICES ASSUME Init PROVE TypeOK
  OBVIOUS
<1>1. MilvusTypeOK
  BY MilvusAssumption DEF Init, MilvusInit, MilvusTypeOK, LeaseStates
<1>2. 0 \in SnapshotIds
  BY CreateAssumption DEF SnapshotIds
<1>3. NewRun \in RunState
  BY <1>2 DEF NewRun, RunState
<1> QED  BY <1>1, <1>2, <1>3 DEF Init, TypeOK

LEMMA NextTyped == TypeOK /\ [Next]_vars => TypeOK'
<1>1. ASSUME TypeOK, UNCHANGED vars
      PROVE  TypeOK'
  BY <1>1 DEF vars, milvusVars, backupVars, TypeOK, MilvusTypeOK
<1> QED  BY <1>1, RunStepTyped, EnvironmentTyped DEF Next

\* Every variable of the server, the runs and the backup bucket keeps its type,
\* whatever calls fail and however runs interleave.
THEOREM TypeCorrect == Spec => []TypeOK
BY InitTyped, NextTyped, PTL DEF Spec

-----------------------------------------------------------------------------
(***************************************************************************)
(* Why a successful run leaves no dangling reference.  Etcd never refers   *)
(* to a segment that is not stored; while a run holds its lease nothing is *)
(* deleted, so what its etcd image refers to is still stored when it lists *)
(* the bucket; and a listed key leaves the list only when it is copied.    *)
(***************************************************************************)
ReferencesAreStored == meta \subseteq objects

\* Only the defers and the end of a run follow the return of its body.
ReturnsOnce(r) ==
  run[r].result # "none" => run[r].pc \in {"resume", "allow", "done", "crashed"}

HoldsLease(r) ==
  run[r].ticket =>
    /\ run[r].pc \notin {"idle", "list", "deny", "pause"}
    /\ InSnapshot(r) => lease[r] \in {"held", "expired"}

ImageIsCovered(r) ==
  run[r].ticket /\ lease[r] # "expired" =>
    /\ run[r].pc \in {"upload", "keys"} => run[r].etcdBuf \subseteq objects
    /\ run[r].pc = "copy" => run[r].etcdBuf \subseteq run[r].keys \cup backupS3[run[r].id]
    /\ Succeeded(r) => run[r].etcdBuf \subseteq backupS3[run[r].id]

RunInv(r) == ReturnsOnce(r) /\ HoldsLease(r) /\ ImageIsCovered(r)

CopyInvariant ==
  /\ TypeOK
  /\ ReferencesAreStored
  /\ \A r \in Runs : RunInv(r)

\* The server deletes a stored segment only when etcd does not refer to it and
\* no lease is held.
LEMMA MilvusStepStores ==
  ASSUME ReferencesAreStored, MilvusNext
  PROVE  /\ ReferencesAreStored'
         /\ GcPaused => objects \subseteq objects'
         /\ lease' = lease
BY DEF ReferencesAreStored, MilvusNext, CreateDatabase, Insert, AutoFlush, Flush,
       Compact, CollectGarbage

LEMMA MilvusCallStores ==
  ASSUME ReferencesAreStored, MilvusCall
  PROVE  ReferencesAreStored' /\ objects \subseteq objects'
BY DEF ReferencesAreStored, MilvusCall, SetDenyWriting, Flush, GrantLease, CancelLease,
       milvusVars

\* A step of the others leaves what the invariant says of a run alone.
LEMMA Unaffected ==
  ASSUME TypeOK, NEW q \in Runs, RunInv(q),
         run'[q] = run[q],
         lease'[q] = lease[q] \/ lease'[q] = "expired",
         lease[q] = "held" => objects \subseteq objects',
         \A i \in SnapshotIds : backupS3[i] \subseteq backupS3'[i]
  PROVE  RunInv(q)'
<1>1. run[q].id \in SnapshotIds
  BY DEF TypeOK, RunState
<1>2. ReturnsOnce(q)'
  BY DEF RunInv, ReturnsOnce
<1>3. HoldsLease(q)'
  BY DEF RunInv, HoldsLease, InSnapshot
<1>4. ImageIsCovered(q)'
  <2> SUFFICES ASSUME run[q].ticket, lease[q] # "expired", lease'[q] # "expired"
               PROVE  ImageIsCovered(q)'
    BY DEF RunInv, ImageIsCovered
  <2>1. run[q].pc \in {"upload", "keys"} => run[q].etcdBuf \subseteq objects'
    BY DEF RunInv, ImageIsCovered, HoldsLease, InSnapshot
  <2>2. backupS3[run[q].id] \subseteq backupS3'[run[q].id]
    BY <1>1
  <2> QED  BY <2>1, <2>2 DEF RunInv, ImageIsCovered, Succeeded
<1> QED  BY <1>2, <1>3, <1>4 DEF RunInv

\* A run changes its own record only.
LEMMA OthersKeepTheirRecord ==
  ASSUME TypeOK, NEW r \in Runs, Start(r) \/ RunStep(r) \/ Crash(r)
  PROVE  \A q \in Runs \ {r} : run'[q] = run[q]
BY DEF TypeOK, RunStep, Start, Crash, ListDatabases, DenyWriting, PauseGC, ListForFlush,
   ListCollections, FlushCollection, SnapshotEtcd, Upload, ListKeys, CopyObject,
   CopyFails, CallFails, ResumeGC, AllowWriting, AllowFails

\* What every action of run r grants the other runs.
LEMMA RunStepFrame ==
  ASSUME TypeOK, ReferencesAreStored, NEW r \in Runs, Start(r) \/ RunStep(r) \/ Crash(r)
  PROVE  /\ ReferencesAreStored'
         /\ objects \subseteq objects'
         /\ \A q \in Runs \ {r} : run'[q] = run[q] /\ lease'[q] = lease[q]
         /\ \A i \in SnapshotIds : backupS3[i] \subseteq backupS3'[i]
<1>1. /\ run[r].todo \in SUBSET Databases /\ run[r].colls \in SUBSET Collections
      /\ run \in [Runs -> RunState] /\ lease \in [Runs -> LeaseStates]
      /\ backupS3 \in [SnapshotIds -> SUBSET Segments]
  BY DEF TypeOK, MilvusTypeOK, RunState
<1>2. MilvusCall
  BY <1>1 DEF RunStep, Start, Crash, ListDatabases, DenyWriting, PauseGC, ListForFlush,
     ListCollections, FlushCollection, SnapshotEtcd, Upload, ListKeys, CopyObject,
     StoreCopies, CopyFails, CallFails, ResumeGC, AllowWriting, AllowFails, MilvusCall
<1>3. ReferencesAreStored' /\ objects \subseteq objects'
  BY <1>2, MilvusCallStores
<1>4. \A q \in Runs \ {r} : run'[q] = run[q]
  BY OthersKeepTheirRecord
<1>5. \A q \in Runs \ {r} : lease'[q] = lease[q]
  <2>1. UNCHANGED lease \/ GrantLease(r) \/ CancelLease(r)
    BY DEF RunStep, Start, Crash, ListDatabases, DenyWriting, PauseGC, ListForFlush,
       ListCollections, FlushCollection, SnapshotEtcd, Upload, ListKeys, CopyObject,
       StoreCopies, CopyFails, CallFails, ResumeGC, AllowWriting, AllowFails,
       SetDenyWriting, Flush, milvusVars
  <2> QED  BY <1>1, <2>1 DEF GrantLease, CancelLease
<1>6. \A i \in SnapshotIds : backupS3[i] \subseteq backupS3'[i]
  <2>1. UNCHANGED backupS3 \/ \E segs \in SUBSET objects : StoreCopies(r, segs)
    BY DEF RunStep, Start, Crash, ListDatabases, DenyWriting, PauseGC, ListForFlush,
       ListCollections, FlushCollection, SnapshotEtcd, Upload, PutEtcdImage, ListKeys,
       CopyObject, CopyFails, CallFails, ResumeGC, AllowWriting, AllowFails, backupVars
  <2> QED  BY <1>1, <2>1 DEF StoreCopies
<1> QED  BY <1>3, <1>4, <1>5, <1>6

\* What a run's own actions preserve of its part of the invariant.
LEMMA RunStepKeeps ==
  ASSUME TypeOK, NEW r \in Runs, RunInv(r), ReferencesAreStored,
         Start(r) \/ RunStep(r) \/ Crash(r)
  PROVE  RunInv(r)'
<1>0. /\ run \in [Runs -> RunState] /\ lease \in [Runs -> LeaseStates]
      /\ run[r] \in RunState /\ run[r].id \in SnapshotIds /\ clock \in SnapshotIds
      /\ backupS3 \in [SnapshotIds -> SUBSET Segments]
  BY DEF TypeOK, MilvusTypeOK, RunState
<1> USE <1>0
<1> USE DEF RunInv, ReturnsOnce, HoldsLease, ImageIsCovered, InSnapshot, Succeeded
<1>1. CASE Start(r)
  BY <1>1 DEF Start, MayStart, RunState
<1>2. CASE ListDatabases(r)
  BY <1>2 DEF ListDatabases, RunState
<1>3. CASE DenyWriting(r)
  BY <1>3 DEF DenyWriting, RunState
<1>4. CASE PauseGC(r)
  <2>1. run[r].result = "none" /\ ~run[r].ticket
    BY <1>4 DEF PauseGC, RunState
  <2>2. CASE /\ GrantLease(r)
             /\ run' = [run EXCEPT ![r] = [@ EXCEPT !.pc = "relist", !.ticket = TRUE]]
    <3>1. lease'[r] = "held"
      BY <2>2 DEF GrantLease
    <3>2. run'[r].pc = "relist" /\ run'[r].result = "none"
      BY <2>1, <2>2 DEF RunState
    <3> QED  BY <3>1, <3>2
  <2>3. CASE run' = [run EXCEPT ![r] = [@ EXCEPT !.pc = "relist"]]
    <3>1. run'[r].ticket = run[r].ticket /\ run'[r].result = run[r].result
      BY <2>3 DEF RunState
    <3> QED  BY <2>1, <3>1
  <2> QED  BY <1>4, <2>2, <2>3 DEF PauseGC
<1>5. CASE ListForFlush(r)
  BY <1>5 DEF ListForFlush, milvusVars, RunState
<1>6. CASE ListCollections(r)
  BY <1>6 DEF ListCollections, NextFlush, milvusVars, RunState
<1>7. CASE FlushCollection(r)
  BY <1>7 DEF FlushCollection, Flush, NextFlush, RunState
<1>8. CASE SnapshotEtcd(r)
  BY <1>8 DEF SnapshotEtcd, ReferencesAreStored, milvusVars, RunState
<1>9. CASE Upload(r)
  BY <1>9 DEF Upload, milvusVars, RunState
<1>10. CASE ListKeys(r)
  BY <1>10 DEF ListKeys, Returned, milvusVars, RunState
<1>11. CASE CopyObject(r)
  BY <1>11 DEF CopyObject, StoreCopies, Returned, milvusVars, RunState
<1>12. CASE CopyFails(r)
  BY <1>12 DEF CopyFails, Returned, RunState
<1>13. CASE CallFails(r)
  BY <1>13 DEF CallFails, Returned, RunState
<1>14. CASE ResumeGC(r)
  BY <1>14 DEF ResumeGC, CancelLease, backupVars, milvusVars, RunState
<1>15. CASE AllowWriting(r)
  BY <1>15 DEF AllowWriting, Visited, SetDenyWriting, backupVars, RunState
<1>16. CASE AllowFails(r)
  BY <1>16 DEF AllowFails, Visited, SetDenyWriting, backupVars, milvusVars, RunState
<1>17. CASE Crash(r)
  BY <1>17 DEF Crash, backupVars, milvusVars, RunState
<1> QED
  BY <1>1, <1>2, <1>3, <1>4, <1>5, <1>6, <1>7, <1>8, <1>9, <1>10, <1>11, <1>12,
     <1>13, <1>14, <1>15, <1>16, <1>17 DEF RunStep

LEMMA EnvironmentKeeps ==
  ASSUME TypeOK, ReferencesAreStored, \A r \in Runs : RunInv(r), Environment
  PROVE  ReferencesAreStored' /\ \A r \in Runs : RunInv(r)'
<1>0. ReferencesAreStored'
  BY MilvusStepStores DEF Environment, Tick, LeaseExpires, milvusVars, ReferencesAreStored
<1> SUFFICES ASSUME NEW q \in Runs
             PROVE  RunInv(q)'
  BY <1>0
<1>1. CASE MilvusNext /\ UNCHANGED <<clock, run, backupVars>>
  <2>1. /\ lease[q] = "held" => objects \subseteq objects'
        /\ lease' = lease
    BY <1>1, MilvusStepStores DEF GcPaused
  <2> QED  BY <1>1, <2>1, Unaffected DEF backupVars
<1>2. CASE Tick
  <2>1. UNCHANGED <<objects, lease, run, backupS3>>
    BY <1>2 DEF Tick, milvusVars, backupVars
  <2> QED  BY <2>1, Unaffected
<1>3. ASSUME NEW r \in Runs, LeaseExpires(r)
      PROVE  RunInv(q)'
  <2>1. lease'[q] = lease[q] \/ lease'[q] = "expired"
    BY <1>3 DEF LeaseExpires, TypeOK, MilvusTypeOK
  <2> QED  BY <1>3, <2>1, Unaffected DEF LeaseExpires, backupVars
<1> QED  BY <1>1, <1>2, <1>3 DEF Environment

LEMMA InitCopyInvariant == Init => CopyInvariant
<1> SUFFICES ASSUME Init PROVE CopyInvariant
  OBVIOUS
<1>1. TypeOK
  BY InitTyped
<1>2. ReferencesAreStored
  BY DEF Init, MilvusInit, ReferencesAreStored
<1>3. ASSUME NEW r \in Runs PROVE RunInv(r)
  BY DEF Init, NewRun, RunInv, ReturnsOnce, HoldsLease, ImageIsCovered, InSnapshot, Succeeded
<1> QED  BY <1>1, <1>2, <1>3 DEF CopyInvariant

LEMMA NextCopyInvariant == CopyInvariant /\ [Next]_vars => CopyInvariant'
<1> SUFFICES ASSUME CopyInvariant, [Next]_vars
             PROVE  ReferencesAreStored' /\ \A r \in Runs : RunInv(r)'
  BY NextTyped DEF CopyInvariant
<1> USE DEF CopyInvariant
<1>1. ASSUME NEW r \in Runs, Start(r) \/ RunStep(r) \/ Crash(r), NEW q \in Runs
      PROVE  ReferencesAreStored' /\ RunInv(q)'
  <2>1. CASE q = r
    BY <1>1, <2>1, RunStepKeeps, RunStepFrame
  <2>2. CASE q # r
    BY <1>1, <2>2, RunStepFrame, Unaffected
  <2> QED  BY <2>1, <2>2
<1>2. CASE Environment
  BY <1>2, EnvironmentKeeps
<1>3. CASE UNCHANGED vars
  BY <1>3, Unaffected DEF vars, milvusVars, backupVars, ReferencesAreStored
<1>4. CASE \E r \in Runs : Start(r) \/ RunStep(r) \/ Crash(r)
  <2>1. PICK r \in Runs : Start(r) \/ RunStep(r) \/ Crash(r)
    BY <1>4
  <2> QED  BY <2>1, <1>1, RunStepFrame
<1> QED  BY <1>2, <1>3, <1>4 DEF Next

\* If the GC lease of a successful run did not run out while it was needed,
\* every segment that the run's etcd image refers to is in its data copy, for
\* any number of runs, overlapping in any way, and any server activity.
THEOREM CopiesWhatEtcdNames == Spec => []NoDanglingReference
<1>1. CopyInvariant => NoDanglingReference
  BY DEF CopyInvariant, RunInv, ImageIsCovered, NoDanglingReference
<1> QED  BY <1>1, InitCopyInvariant, NextCopyInvariant, PTL DEF Spec

-----------------------------------------------------------------------------
(***************************************************************************)
(* Why an archive that several runs write is whole.  The image that stays  *)
(* is that of the run that uploaded last; files are only ever added.       *)
(***************************************************************************)
PastUpload == {"keys", "copy", "resume", "allow", "done", "crashed"}

ImageOfSomeRun ==
  \A i \in uploaded : \E r \in Runs :
    run[r].pc \in PastUpload /\ run[r].id = i /\ backupEtcd[i] = run[r].etcdBuf

\* A run that has uploaded keeps its ID and its image to the end.
LEMMA PastUploadStays ==
  ASSUME TypeOK, NEW r \in Runs, Start(r) \/ RunStep(r) \/ Crash(r), run[r].pc \in PastUpload
  PROVE  /\ run'[r].pc \in PastUpload
         /\ run'[r].id = run[r].id /\ run'[r].etcdBuf = run[r].etcdBuf
<1>0. run \in [Runs -> RunState] /\ run[r] \in RunState
  BY DEF TypeOK
<1> USE <1>0 DEF PastUpload
<1>1. CASE ListKeys(r)
  BY <1>1 DEF ListKeys, Returned, RunState
<1>2. CASE CopyObject(r)
  BY <1>2 DEF CopyObject, Returned, RunState
<1>3. CASE CopyFails(r)
  BY <1>3 DEF CopyFails, Returned, RunState
<1>4. CASE CallFails(r)
  BY <1>4 DEF CallFails, Returned, RunState
<1>5. CASE ResumeGC(r)
  BY <1>5 DEF ResumeGC, RunState
<1>6. CASE AllowWriting(r)
  BY <1>6 DEF AllowWriting, Visited, RunState
<1>7. CASE AllowFails(r)
  BY <1>7 DEF AllowFails, Visited, RunState
<1>8. CASE Crash(r)
  BY <1>8 DEF Crash, RunState
<1> QED
  BY <1>1, <1>2, <1>3, <1>4, <1>5, <1>6, <1>7, <1>8 DEF RunStep, Start, MayStart, ListDatabases,
     DenyWriting, PauseGC, ListForFlush, ListCollections, FlushCollection, SnapshotEtcd, Upload

\* Images change only where a run uploads its own, and it is past that then,
\* also when the answer was lost.
LEMMA UploadsOwnImage ==
  ASSUME TypeOK, NEW r \in Runs, Start(r) \/ RunStep(r) \/ Crash(r)
  PROVE  \/ UNCHANGED <<uploaded, backupEtcd>>
         \/ /\ PutEtcdImage(r)
            /\ run'[r].pc \in PastUpload
            /\ run'[r].id = run[r].id /\ run'[r].etcdBuf = run[r].etcdBuf
<1>0. run \in [Runs -> RunState] /\ run[r] \in RunState
  BY DEF TypeOK
<1>1. CASE Upload(r)
  BY <1>0, <1>1 DEF Upload, RunState, PastUpload
<1>2. CASE CallFails(r)
  <2>1. run'[r] = Returned(run[r], "error")
    BY <1>0, <1>2 DEF CallFails
  <2>2. /\ run'[r].pc \in PastUpload
        /\ run'[r].id = run[r].id /\ run'[r].etcdBuf = run[r].etcdBuf
    BY <1>0, <2>1 DEF Returned, RunState, PastUpload
  <2> QED  BY <1>2, <2>2 DEF CallFails, backupVars
<1> QED
  BY <1>1, <1>2 DEF RunStep, Start, Crash, ListDatabases, DenyWriting, PauseGC, ListForFlush,
     ListCollections, FlushCollection, SnapshotEtcd, ListKeys, CopyObject, StoreCopies,
     CopyFails, ResumeGC, AllowWriting, AllowFails, backupVars

\* Every image in the bucket is that of a run.
LEMMA ImagesAreOfRuns == Spec => []ImageOfSomeRun
<1>1. Init => ImageOfSomeRun
  BY DEF Init, ImageOfSomeRun
<1>2. TypeOK /\ ImageOfSomeRun /\ [Next]_vars => ImageOfSomeRun'
  <2> SUFFICES ASSUME TypeOK, ImageOfSomeRun, [Next]_vars  PROVE ImageOfSomeRun'
    OBVIOUS
  <2>1. ASSUME NEW r \in Runs, Start(r) \/ RunStep(r) \/ Crash(r), NEW i \in uploaded'
        PROVE  \E q \in Runs : /\ run'[q].pc \in PastUpload /\ run'[q].id = i
                              /\ backupEtcd'[i] = run'[q].etcdBuf
    <3>1. /\ run[r].id \in SnapshotIds
          /\ backupEtcd \in [SnapshotIds -> SUBSET Segments]
      BY DEF TypeOK, RunState
    <3>2. CASE i \in uploaded /\ backupEtcd'[i] = backupEtcd[i]
      <4>1. PICK q \in Runs : /\ run[q].pc \in PastUpload /\ run[q].id = i
                              /\ backupEtcd[i] = run[q].etcdBuf
        BY <3>2 DEF ImageOfSomeRun
      <4>2. /\ run'[q].pc \in PastUpload
            /\ run'[q].id = run[q].id /\ run'[q].etcdBuf = run[q].etcdBuf
        <5>1. CASE q = r
          BY <2>1, <4>1, <5>1, PastUploadStays
        <5>2. CASE q # r
          <6>1. run'[q] = run[q]
            BY <2>1, <5>2, OthersKeepTheirRecord
          <6> QED  BY <4>1, <6>1
        <5> QED  BY <5>1, <5>2
      <4> QED  BY <3>2, <4>1, <4>2
    <3>3. CASE ~(i \in uploaded /\ backupEtcd'[i] = backupEtcd[i])
      <4>1. /\ PutEtcdImage(r)
            /\ run'[r].pc \in PastUpload
            /\ run'[r].id = run[r].id /\ run'[r].etcdBuf = run[r].etcdBuf
        BY <2>1, <3>3, UploadsOwnImage
      <4>2. i = run[r].id /\ backupEtcd'[i] = run[r].etcdBuf
        BY <3>1, <3>3, <4>1 DEF PutEtcdImage
      <4> QED  BY <4>1, <4>2
    <3> QED  BY <3>2, <3>3
  <2>2. CASE Environment \/ UNCHANGED vars
    <3>1. UNCHANGED <<run, uploaded, backupEtcd>>
      BY <2>2 DEF Environment, Tick, LeaseExpires, vars, backupVars
    <3> QED  BY <3>1 DEF ImageOfSomeRun
  <2> QED  BY <2>1, <2>2 DEF Next, ImageOfSomeRun
<1> QED  BY <1>1, <1>2, TypeCorrect, PTL DEF Spec

\* An archive that runs of one second have written, all of which succeeded under
\* a lease that lasted, holds what its image refers to (create.go:48, 128-140).
THEOREM SharedArchivesAreWhole == Spec => []SharedArchiveIsWhole
<1>1. NoDanglingReference /\ ImageOfSomeRun => SharedArchiveIsWhole
  BY DEF NoDanglingReference, ImageOfSomeRun, SharedArchiveIsWhole, PastUpload
<1> QED  BY <1>1, CopiesWhatEtcdNames, ImagesAreOfRuns, PTL

-----------------------------------------------------------------------------
(***************************************************************************)
(* Why a denial is accounted for.  DenialAccounted alone is not inductive: *)
(* a run that is allowing writing again is active to the end, also for a   *)
(* database it has visited.  So a run that is past its body answers only   *)
(* for what its last loop has yet to visit.                                *)
(***************************************************************************)
Answers(r, d) ==
  /\ d \in run[r].dbs
  /\ \/ run[r].pc \in Calls \ {"allow"}
     \/ run[r].pc = "allow" /\ d \in run[r].todo
     \/ run[r].pc = "crashed"
     \/ d \in run[r].manual
     \/ ~run[r].deferred

\* What the loops of a run visit.
LoopInv(r) ==
  /\ run[r].pc \in {"idle", "list"} => run[r].dbs = {}
  /\ run[r].pc = "deny" => run[r].todo \subseteq run[r].dbs
  /\ run[r].pc = "resume" => run[r].dbs \subseteq run[r].todo

DenialInvariant ==
  /\ TypeOK
  /\ \A r \in Runs : LoopInv(r)
  /\ \A d \in Databases : deny[d] => \E r \in Runs : Answers(r, d)

LEMMA RunStepKeepsLoops ==
  ASSUME TypeOK, NEW r \in Runs, LoopInv(r), Start(r) \/ RunStep(r) \/ Crash(r)
  PROVE  LoopInv(r)'
<1>0. run \in [Runs -> RunState] /\ run[r] \in RunState
  BY DEF TypeOK
<1> USE <1>0 DEF LoopInv
<1>1. CASE Start(r)
  BY <1>1 DEF Start, MayStart, RunState
<1>2. CASE ListDatabases(r)
  BY <1>2 DEF ListDatabases, RunState
<1>3. CASE DenyWriting(r)
  BY <1>3 DEF DenyWriting, RunState
<1>4. CASE PauseGC(r)
  <2>1. CASE run' = [run EXCEPT ![r] = [@ EXCEPT !.pc = "relist", !.ticket = TRUE]]
    BY <1>4, <2>1 DEF RunState, PauseGC
  <2>2. CASE run' = [run EXCEPT ![r] = [@ EXCEPT !.pc = "relist"]]
    BY <1>4, <2>2 DEF RunState, PauseGC
  <2> QED  BY <1>4, <2>1, <2>2 DEF PauseGC
<1>5. CASE ListForFlush(r)
  BY <1>5 DEF ListForFlush, RunState
<1>6. CASE ListCollections(r)
  BY <1>6 DEF ListCollections, NextFlush, RunState
<1>7. CASE FlushCollection(r)
  BY <1>7 DEF FlushCollection, NextFlush, RunState
<1>8. CASE SnapshotEtcd(r)
  BY <1>8 DEF SnapshotEtcd, RunState
<1>9. CASE Upload(r)
  BY <1>9 DEF Upload, RunState
<1>10. CASE ListKeys(r)
  BY <1>10 DEF ListKeys, Returned, RunState
<1>11. CASE CopyObject(r)
  BY <1>11 DEF CopyObject, Returned, RunState
<1>12. CASE CopyFails(r)
  BY <1>12 DEF CopyFails, Returned, RunState
<1>13. CASE CallFails(r)
  BY <1>13 DEF CallFails, Returned, RunState
<1>14. CASE ResumeGC(r)
  BY <1>14 DEF ResumeGC, RunState
<1>15. CASE AllowWriting(r)
  BY <1>15 DEF AllowWriting, Visited, RunState
<1>16. CASE AllowFails(r)
  BY <1>16 DEF AllowFails, Visited, RunState
<1>17. CASE Crash(r)
  BY <1>17 DEF Crash, RunState
<1> QED
  BY <1>1, <1>2, <1>3, <1>4, <1>5, <1>6, <1>7, <1>8, <1>9, <1>10, <1>11,
     <1>12, <1>13, <1>14, <1>15, <1>16, <1>17 DEF RunStep

\* A run answers for what it denies.
LEMMA DeniesOnlyListed ==
  ASSUME TypeOK, NEW r \in Runs, LoopInv(r), Start(r) \/ RunStep(r) \/ Crash(r),
         NEW d \in Databases, deny'[d], ~deny[d]
  PROVE  Answers(r, d)'
<1>0. /\ run \in [Runs -> RunState] /\ run[r] \in RunState
      /\ deny \in [Databases -> BOOLEAN]
  BY DEF TypeOK, MilvusTypeOK
<1> USE <1>0
<1>1. CASE DenyWriting(r)
  <2>1. d \in run[r].todo /\ d \in run[r].dbs
    BY <1>1 DEF DenyWriting, SetDenyWriting, LoopInv
  <2>2. run'[r].dbs = run[r].dbs /\ run'[r].pc \in {"deny", "pause"}
    BY <1>1 DEF DenyWriting, RunState
  <2> QED  BY <2>1, <2>2 DEF Answers, Calls
<1>2. CASE CallFails(r)
  <2>1. run[r].pc = "deny" /\ d \in run[r].todo /\ d \in run[r].dbs
    BY <1>2 DEF CallFails, SetDenyWriting, Flush, milvusVars, LoopInv
  <2>2. run'[r] = Returned(run[r], "error")
    BY <1>2 DEF CallFails
  <2>3. /\ run'[r].dbs = run[r].dbs
        /\ run'[r].deferred = run[r].deferred
        /\ run[r].deferred => \/ run'[r].pc = "resume"
                              \/ run'[r].pc = "allow" /\ d \in run'[r].todo
    BY <2>1, <2>2 DEF Returned, RunState
  <2> QED  BY <2>1, <2>3 DEF Answers, Calls
<1>3. CASE \/ Start(r) \/ Crash(r) \/ ListDatabases(r) \/ PauseGC(r) \/ ListForFlush(r)
           \/ ListCollections(r) \/ SnapshotEtcd(r) \/ Upload(r) \/ ListKeys(r)
           \/ CopyObject(r) \/ CopyFails(r) \/ ResumeGC(r)
  BY <1>3 DEF Start, Crash, ListDatabases, PauseGC, ListForFlush, ListCollections,
     SnapshotEtcd, Upload, ListKeys, CopyObject, CopyFails, StoreCopies, ResumeGC,
     GrantLease, CancelLease, milvusVars
<1>4. CASE FlushCollection(r)
  BY <1>4 DEF FlushCollection, Flush
<1>5. CASE AllowWriting(r) \/ AllowFails(r)
  BY <1>5 DEF AllowWriting, AllowFails, SetDenyWriting, milvusVars
<1> QED  BY <1>1, <1>2, <1>3, <1>4, <1>5 DEF RunStep

\* A run stops answering for a database only by allowing it to be written.
LEMMA AnswersUntilAllowed ==
  ASSUME TypeOK, NEW r \in Runs, LoopInv(r), Start(r) \/ RunStep(r) \/ Crash(r),
         NEW d \in Databases, deny'[d], Answers(r, d)
  PROVE  Answers(r, d)'
<1>0. /\ run \in [Runs -> RunState] /\ run[r] \in RunState
      /\ deny \in [Databases -> BOOLEAN]
  BY DEF TypeOK, MilvusTypeOK
<1> USE <1>0 DEF Answers, Calls
<1>1. CASE Start(r)
  BY <1>1 DEF Start, MayStart, LoopInv, RunState
<1>2. CASE ListDatabases(r)
  BY <1>2 DEF ListDatabases, LoopInv, RunState
<1>3. CASE DenyWriting(r)
  BY <1>3 DEF DenyWriting, RunState
<1>4. CASE PauseGC(r)
  <2>1. CASE run' = [run EXCEPT ![r] = [@ EXCEPT !.pc = "relist", !.ticket = TRUE]]
    BY <1>4, <2>1 DEF RunState, PauseGC
  <2>2. CASE run' = [run EXCEPT ![r] = [@ EXCEPT !.pc = "relist"]]
    BY <1>4, <2>2 DEF RunState, PauseGC
  <2> QED  BY <1>4, <2>1, <2>2 DEF PauseGC
<1>5. CASE ListForFlush(r)
  BY <1>5 DEF ListForFlush, RunState
<1>6. CASE ListCollections(r)
  BY <1>6 DEF ListCollections, NextFlush, RunState
<1>7. CASE FlushCollection(r)
  BY <1>7 DEF FlushCollection, NextFlush, RunState
<1>8. CASE SnapshotEtcd(r)
  BY <1>8 DEF SnapshotEtcd, RunState
<1>9. CASE Upload(r)
  BY <1>9 DEF Upload, RunState
<1>10. CASE ListKeys(r)
  BY <1>10 DEF ListKeys, Returned, RunState
<1>11. CASE CopyObject(r)
  BY <1>11 DEF CopyObject, Returned, RunState
<1>12. CASE CopyFails(r)
  BY <1>12 DEF CopyFails, Returned, RunState
<1>13. CASE CallFails(r)
  BY <1>13 DEF CallFails, Returned, RunState
<1>14. CASE ResumeGC(r)
  BY <1>14 DEF ResumeGC, LoopInv, RunState
<1>15. CASE AllowWriting(r)
  BY <1>15 DEF AllowWriting, Visited, SetDenyWriting, RunState
<1>16. CASE AllowFails(r)
  BY <1>16 DEF AllowFails, Visited, RunState
<1>17. CASE Crash(r)
  BY <1>17 DEF Crash, RunState
<1> QED
  BY <1>1, <1>2, <1>3, <1>4, <1>5, <1>6, <1>7, <1>8, <1>9, <1>10, <1>11,
     <1>12, <1>13, <1>14, <1>15, <1>16, <1>17 DEF RunStep

LEMMA NextDenialInvariant == DenialInvariant /\ [Next]_vars => DenialInvariant'
<1> SUFFICES ASSUME DenialInvariant, [Next]_vars
             PROVE  /\ \A r \in Runs : LoopInv(r)'
                    /\ \A d \in Databases : deny'[d] => \E r \in Runs : Answers(r, d)'
  BY NextTyped DEF DenialInvariant
<1> USE DEF DenialInvariant
<1>1. ASSUME NEW r \in Runs, Start(r) \/ RunStep(r) \/ Crash(r)
      PROVE  /\ \A q \in Runs : LoopInv(q)'
             /\ \A d \in Databases : deny'[d] => \E q \in Runs : Answers(q, d)'
  <2>1. \A q \in Runs \ {r} : run'[q] = run[q]
    BY <1>1, OthersKeepTheirRecord
  <2>2. ASSUME NEW q \in Runs PROVE LoopInv(q)'
    <3>1. CASE q = r
      BY <1>1, <3>1, RunStepKeepsLoops
    <3>2. CASE q # r
      BY <2>1, <3>2 DEF LoopInv
    <3> QED  BY <3>1, <3>2
  <2>3. ASSUME NEW d \in Databases, deny'[d] PROVE \E q \in Runs : Answers(q, d)'
    <3>1. CASE ~deny[d]
      BY <1>1, <2>3, <3>1, DeniesOnlyListed
    <3>2. CASE deny[d]
      <4>1. PICK q \in Runs : Answers(q, d)
        BY <3>2
      <4>2. CASE q = r
        BY <1>1, <2>3, <4>1, <4>2, AnswersUntilAllowed
      <4>3. CASE q # r
        BY <2>1, <4>1, <4>3 DEF Answers
      <4> QED  BY <4>2, <4>3
    <3> QED  BY <3>1, <3>2
  <2> QED  BY <2>2, <2>3
<1>2. CASE Environment \/ UNCHANGED vars
  <2>1. deny' = deny /\ run' = run
    BY <1>2 DEF Environment, MilvusNext, CreateDatabase, Insert, AutoFlush, Flush, Compact,
       CollectGarbage, Tick, LeaseExpires, vars, milvusVars
  <2> QED  BY <2>1 DEF LoopInv, Answers
<1> QED  BY <1>1, <1>2 DEF Next

\* A database that denies writing has a run to answer for it: one that is going
\* to allow it again, one that told the operator it could not, one that was
\* killed, or one that failed inside the deny loop; for any number of runs that
\* start, overlap, fail and die in any way.
THEOREM DenialsAnswered == Spec => []DenialAccounted
<1>1. Init => DenialInvariant
  BY InitTyped DEF Init, MilvusInit, NewRun, DenialInvariant, LoopInv
<1>2. DenialInvariant => DenialAccounted
  BY DEF DenialInvariant, Answers, DenialAccounted, Active, Calls
<1> QED  BY <1>1, <1>2, NextDenialInvariant, PTL DEF Spec

=============================================================================
