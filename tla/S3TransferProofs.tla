---------------------------- MODULE S3TransferProofs ----------------------------
(***************************************************************************)
(* Proofs about S3Transfer for any number of keys, any page and batch      *)
(* size, any limit on the goroutines and any set of faults.                *)
(***************************************************************************)
EXTENDS S3Transfer, FiniteSetTheorems, TLAPS

-----------------------------------------------------------------------------
(***************************************************************************)
(* The inductive invariant.                                                *)
(***************************************************************************)
Outstanding == pending \cup InFlight

\* The operation has listed all it is going to list, and has not given up.
Working == pc \in {"submit", "wait"} \/ result = "ok"

\* TypeOK, but for the bound of the counter.
Types ==
  /\ file \in [Keys -> {"absent", "old", "new", "gone"}]
  /\ target \in SUBSET Keys
  /\ op \in Ops
  /\ pc \in {"list", "submit", "wait", "returned"}
  /\ listed \in SUBSET Keys
  /\ pending \in SUBSET Tasks
  /\ running \in [sent : SUBSET Tasks, landed : SUBSET Tasks]
  /\ abandoned \in SUBSET Tasks
  /\ failed \in BOOLEAN
  /\ copied \in Nat
  /\ result \in {"none", "error", "ok"}

\* A task is in one place, and what the program counter says of all of them.
GroupInv ==
  /\ pending \cap InFlight = {}
  /\ running.sent \cap running.landed = {}
  /\ pc = "list" => Outstanding = {} /\ abandoned = {} /\ ~failed /\ copied = 0
  /\ pc \in {"wait", "returned"} => pending = {}
  /\ pc # "returned" => result = "none"
  /\ abandoned # {} => failed
  /\ result = "ok" => InFlight = {} /\ ~failed

\* The pages leave no gap: a file that was there from the start and is not
\* listed comes after all that is.
PagesInv ==
  \A k \in Keys : file[k] = "old" /\ k \notin listed =>
    /\ ~Working
    /\ pc = "list" => \A l \in listed : k > l

\* Every listed key is copied, or has a task that will copy it, or there is an
\* error; the counter is behind by the tasks that have not been counted.
CopyInv ==
  op = "copy" =>
    /\ Outstanding \subseteq {{k} : k \in listed}
    /\ copied + Cardinality(Outstanding) <= Cardinality(listed)
    /\ Working /\ ~failed =>
         /\ copied + Cardinality(Outstanding) = Cardinality(listed)
         /\ \A k \in listed : k \in target \/ {k} \in pending \cup running.sent

\* Every listed key is deleted, or is in a batch, or there is an error, which
\* the operation sees unless S3 reports it for the key alone.
DeleteInv ==
  op = "delete" =>
    /\ copied = 0
    /\ "object" \notin Faults /\ Working /\ ~failed =>
         \A k \in listed : file[k] # "old" \/ k \in UNION (pending \cup running.sent)

TransferInv == Types /\ GroupInv /\ PagesInv /\ CopyInv /\ DeleteInv

-----------------------------------------------------------------------------
(***************************************************************************)
(* Keys and tasks are finitely many.                                       *)
(***************************************************************************)
LEMMA FiniteKeys ==
  /\ IsFiniteSet(Keys)
  /\ \A S \in SUBSET Keys :
       IsFiniteSet(S) /\ Cardinality(S) \in Nat /\ Cardinality(S) <= MaxKey
<1>1. MaxKey \in Nat /\ MaxKey >= 1
  BY TransferAssumption
<1>2. IsFiniteSet(Keys) /\ Cardinality(Keys) = MaxKey
  BY <1>1, FS_Interval DEF Keys
<1> QED  BY <1>2, FS_Subset, FS_CardinalityType

\* Every set of tasks has a cardinality.
LEMMA FiniteTasks ==
  \A S \in SUBSET Tasks : IsFiniteSet(S) /\ Cardinality(S) \in Nat
<1>1. IsFiniteSet(Tasks)
  BY FiniteKeys, FS_SUBSET DEF Tasks
<1> QED  BY <1>1, FS_Subset, FS_CardinalityType

\* One key, one task.
LEMMA OneTaskPerKey ==
  ASSUME NEW S \in SUBSET Keys
  PROVE  Cardinality({{k} : k \in S}) = Cardinality(S)
<1> DEFINE T == {{k} : k \in S}
           f == [k \in S |-> {k}]
<1>1. f \in Bijection(S, T)
  BY DEF Bijection, Injection, Surjection, IsInjective
<1>2. ExistsBijection(S, T)
  BY <1>1 DEF ExistsBijection
<1>3. IsFiniteSet(S)
  BY FiniteKeys
<1>4. Cardinality(T) = Cardinality(S)
  <2> HIDE DEF T
  <2> QED  BY <1>2, <1>3, FS_Bijection
<1> QED  BY <1>4

\* The batches have every key.
LEMMA BatchesCover ==
  ASSUME NEW S \in SUBSET Keys
  PROVE  /\ Batches(S) \in SUBSET Tasks
         /\ \A k \in S : k \in UNION Batches(S)
<1> DEFINE index(k) == Cardinality({l \in S : l < k})
           batch(k) == {l \in S : index(l) \div BatchSize = index(k) \div BatchSize}
<1>1. Batches(S) = {batch(k) : k \in S}
  BY DEF Batches
<1>2. \A k \in S : k \in batch(k) /\ batch(k) \in Tasks
  BY DEF Tasks
<1> HIDE DEF batch
<1> QED  BY <1>1, <1>2

\* A page is a set of keys, and has every file before its last key that no page
\* had before.
LEMMA PageLeavesNoGap ==
  ASSUME Types, NEW k \in Source, NEW l \in Page, l > k, \A m \in listed : k > m
  PROVE  k \in Page
<1> DEFINE rest == {i \in Source : \A m \in listed : i > m}
           before(i) == {j \in rest : j < i}
<1>1. k \in rest /\ l \in rest /\ Cardinality(before(l)) < PageSize
  BY DEF Page
<1>2. rest \in SUBSET Keys /\ Keys \subseteq Int
  <2>1. MaxKey \in Nat
    BY TransferAssumption
  <2> QED  BY <2>1 DEF Source, Keys
<1>3. before(k) \subseteq before(l)
  <2>1. \A j \in rest : j \in Int
    BY <1>2
  <2>2. k \in Int /\ l \in Int
    BY <1>1, <1>2
  <2> HIDE DEF rest
  <2>3. \A j \in rest : j < k => j < l
    BY <2>1, <2>2
  <2> QED  BY <2>3
<1>4. before(l) \in SUBSET Keys /\ before(k) \in SUBSET Keys
  BY <1>2
<1>5. /\ Cardinality(before(k)) <= Cardinality(before(l))
      /\ Cardinality(before(k)) \in Nat /\ Cardinality(before(l)) \in Nat
  BY <1>3, <1>4, FiniteKeys, FS_Subset
<1>6. PageSize \in Nat
  BY TransferAssumption
<1>7. Cardinality(before(k)) < PageSize
  BY <1>1, <1>5, <1>6
<1> QED  BY <1>1, <1>7 DEF Page

\* A page has only files of the source prefix.
LEMMA PageIsOfSource == Page \subseteq Source /\ Source \subseteq Keys
BY DEF Page, Source

\* The tasks of a list of keys.
LEMMA TasksOfKeys ==
  ASSUME NEW S \in SUBSET Keys
  PROVE  /\ TasksOf(S) \in SUBSET Tasks
         /\ op = "copy" => /\ TasksOf(S) = {{k} : k \in S}
                           /\ Cardinality(TasksOf(S)) = Cardinality(S)
         /\ op # "copy" => \A k \in S : k \in UNION TasksOf(S)
<1>1. CASE op = "copy"
  <2>1. TasksOf(S) = {{k} : k \in S}
    BY <1>1 DEF TasksOf
  <2>2. {{k} : k \in S} \in SUBSET Tasks
    BY DEF Tasks
  <2> QED  BY <1>1, <2>1, <2>2, OneTaskPerKey
<1>2. CASE op # "copy"
  BY <1>2, BatchesCover DEF TasksOf
<1> QED  BY <1>1, <1>2

\* The tasks outstanding, and one of them less.
LEMMA TakingOneTask ==
  ASSUME NEW S \in SUBSET Tasks, NEW task \in S
  PROVE  Cardinality(S \ {task}) = Cardinality(S) - 1
BY FiniteTasks, FS_RemoveElement

-----------------------------------------------------------------------------
(***************************************************************************)
(* Every behaviour starts in TransferInv.                                  *)
(***************************************************************************)
\* Nothing is listed, handed out or counted yet.
LEMMA InitTransferInv == Init => TransferInv
<1> SUFFICES ASSUME Init
             PROVE  TransferInv
  OBVIOUS
<1>1. Types
  BY DEF Init, Types
<1>2. Outstanding = {}
  BY DEF Init, Outstanding, InFlight
<1>3. GroupInv /\ PagesInv
  BY <1>2 DEF Init, GroupInv, PagesInv, Working, InFlight
<1>4. CopyInv /\ DeleteInv
  BY <1>2, FS_EmptySet DEF Init, CopyInv, DeleteInv, Working
<1> QED  BY <1>1, <1>3, <1>4 DEF TransferInv

-----------------------------------------------------------------------------
(***************************************************************************)
(* The steps of the operation that list.                                   *)
(***************************************************************************)
\* Whatever was there from the start and is not listed comes after the page.
LEMMA PagesFollowOn ==
  ASSUME TransferInv, pc = "list",
         NEW k \in Keys, file[k] = "old", k \notin listed \cup Page
  PROVE  /\ \A l \in listed \cup Page : k > l
         /\ IsTruncated
<1>1. k \in Source /\ k \in Int
  <2>1. MaxKey \in Nat
    BY TransferAssumption
  <2> QED  BY <2>1 DEF Source, Keys
<1>2. \A l \in listed : k > l
  BY DEF TransferInv, PagesInv
<1>3. ASSUME NEW l \in Page
      PROVE  k > l
  <2>1. l \in Int
    BY TransferAssumption, PageIsOfSource DEF Keys
  <2>2. ~(l > k)
    BY <1>1, <1>2, PageLeavesNoGap DEF TransferInv
  <2> QED  BY <1>1, <2>1, <2>2
<1>4. \A l \in listed \cup Page : k > l
  BY <1>2, <1>3
<1> QED  BY <1>1, <1>4 DEF IsTruncated

\* Another page, or the last one and the tasks of all that is listed.
LEMMA ListPageKeeps ==
  ASSUME TransferInv, ListPage
  PROVE  TransferInv'
<1>1. /\ pc = "list" /\ Outstanding = {} /\ InFlight = {} /\ pending = {}
      /\ abandoned = {} /\ ~failed /\ copied = 0 /\ result = "none"
  BY DEF ListPage, TransferInv, GroupInv, Outstanding
<1>2. listed' = listed \cup Page /\ listed' \in SUBSET Keys
  BY PageIsOfSource DEF ListPage, TransferInv, Types
<1>3. TasksOf(listed') \in SUBSET Tasks
  BY <1>2, TasksOfKeys
<1>4. InFlight' = {}
  BY <1>1 DEF ListPage, InFlight
<1>5. CASE IsTruncated
  <2>1. pc' = "list" /\ pending' = {} /\ result' = "none"
    BY <1>1, <1>5 DEF ListPage
  <2>2. Types'
    BY <1>2, <2>1 DEF ListPage, TransferInv, Types
  <2>3. Outstanding' = {}
    BY <1>4, <2>1 DEF Outstanding
  <2>4. GroupInv'
    BY <1>1, <1>4, <2>1, <2>3 DEF ListPage, TransferInv, GroupInv, InFlight
  <2>5. PagesInv'
    BY <1>1, <1>2, <2>1, PagesFollowOn DEF ListPage, PagesInv, Working
  <2>6. CopyInv'
    BY <1>1, <1>2, <2>1, <2>3, FiniteKeys, FS_EmptySet DEF ListPage, CopyInv, Working
  <2>7. DeleteInv'
    BY <1>1, <2>1 DEF ListPage, DeleteInv, Working
  <2> QED  BY <2>2, <2>4, <2>5, <2>6, <2>7 DEF TransferInv
<1>6. CASE ~IsTruncated
  <2>1. \/ listed' = {} /\ pc' = "returned" /\ result' = "ok" /\ pending' = {}
        \/ pc' = "submit" /\ pending' = TasksOf(listed') /\ result' = "none"
    BY <1>1, <1>6 DEF ListPage, Return
  <2>2. Types'
    BY <1>2, <1>3, <2>1 DEF ListPage, TransferInv, Types
  <2>3. Outstanding' = pending' /\ (listed' = {} \/ pending' = TasksOf(listed'))
    BY <1>4, <2>1 DEF Outstanding
  <2>4. GroupInv'
    BY <1>1, <1>4, <2>1 DEF ListPage, TransferInv, GroupInv, InFlight
  <2>5. PagesInv'
    BY <1>1, <1>2, <1>6, PagesFollowOn DEF ListPage, PagesInv
  <2>6. CopyInv'
    <3> SUFFICES ASSUME op = "copy"
                 PROVE  CopyInv'
      BY DEF ListPage, CopyInv
    <3>1. /\ pending' = {{k} : k \in listed'}
          /\ Cardinality(pending') = Cardinality(listed')
      <4>1. CASE listed' = {} /\ pending' = {}
        BY <4>1
      <4>2. CASE pending' = TasksOf(listed')
        BY <1>2, <4>2, TasksOfKeys
      <4> QED  BY <2>1, <4>1, <4>2
    <3>2. Cardinality(listed') \in Nat
      BY <1>2, FiniteKeys
    <3> QED  BY <1>1, <2>3, <3>1, <3>2 DEF ListPage, CopyInv
  <2>7. DeleteInv'
    BY <1>1, <1>2, <2>1, TasksOfKeys DEF ListPage, DeleteInv
  <2> QED  BY <2>2, <2>4, <2>5, <2>6, <2>7 DEF TransferInv
<1> QED  BY <1>5, <1>6

\* A page that fails ends the operation before it has a task.
LEMMA ListFailsKeeps ==
  ASSUME TransferInv, ListFails
  PROVE  TransferInv'
<1>1. /\ pc = "list" /\ pending = {} /\ pc' = "returned" /\ result' = "error"
      /\ UNCHANGED <<file, target, op, listed, pending, running, abandoned, failed, copied>>
  BY DEF ListFails, Return, TransferInv, GroupInv, Outstanding
<1>2. Types' /\ GroupInv'
  BY <1>1 DEF TransferInv, Types, GroupInv, InFlight
<1>3. PagesInv'
  BY <1>1 DEF PagesInv, Working
<1>4. CopyInv' /\ DeleteInv'
  BY <1>1 DEF TransferInv, CopyInv, DeleteInv, Working, Outstanding, InFlight
<1> QED  BY <1>2, <1>3, <1>4 DEF TransferInv

-----------------------------------------------------------------------------
(***************************************************************************)
(* The steps of the group.                                                 *)
(***************************************************************************)
\* A task moves to the group, or is dropped when there already is an error.
LEMMA SubmitKeeps ==
  ASSUME TransferInv, Submit
  PROVE  TransferInv'
<1>1. PICK task \in pending :
        /\ pending' = pending \ {task}
        /\ running' = IF failed THEN running ELSE [running EXCEPT !.sent = @ \cup {task}]
  BY DEF Submit
<1>2. /\ pc = "submit" /\ result = "none" /\ pc' = IF pending' = {} THEN "wait" ELSE pc
      /\ UNCHANGED <<file, target, op, listed, abandoned, failed, copied, result>>
  BY DEF Submit, TransferInv, GroupInv
<1>3. Types'
  BY <1>1, <1>2 DEF TransferInv, Types
<1>4. PagesInv'
  BY <1>1, <1>2 DEF TransferInv, PagesInv, Working
<1>5. CASE failed
  <2>1. InFlight' = InFlight /\ Outstanding' \subseteq Outstanding
    BY <1>1, <1>5 DEF InFlight, Outstanding
  <2>2. GroupInv'
    BY <1>1, <1>2, <1>5, <2>1 DEF TransferInv, GroupInv
  <2>3. Outstanding' = IF task \in InFlight THEN Outstanding ELSE Outstanding \ {task}
    BY <1>1, <2>1 DEF Outstanding
  <2>4. task \in Outstanding /\ Outstanding \in SUBSET Tasks
    BY DEF TransferInv, Types, Outstanding, InFlight
  <2>5. Cardinality(Outstanding') \in Nat /\ Cardinality(Outstanding') <= Cardinality(Outstanding)
    BY <2>3, <2>4, TakingOneTask, FiniteTasks
  <2>6. Cardinality(Outstanding) \in Nat /\ Cardinality(listed) \in Nat /\ copied \in Nat
    BY <2>4, FiniteTasks, FiniteKeys DEF TransferInv, Types
  <2>7. CopyInv'
    BY <1>2, <1>5, <2>1, <2>5, <2>6 DEF TransferInv, CopyInv
  <2>8. DeleteInv'
    BY <1>2, <1>5 DEF TransferInv, DeleteInv
  <2> QED  BY <1>3, <1>4, <2>2, <2>7, <2>8 DEF TransferInv
<1>6. CASE ~failed
  <2>1. /\ running'.sent = running.sent \cup {task}
        /\ running'.landed = running.landed
    BY <1>1, <1>6 DEF TransferInv, Types
  <2>2. InFlight' = InFlight \cup {task} /\ Outstanding' = Outstanding
    BY <1>1, <2>1 DEF InFlight, Outstanding
  <2>3. GroupInv'
    BY <1>1, <1>2, <2>1, <2>2 DEF TransferInv, GroupInv, InFlight
  <2>4. pending' \cup running'.sent = pending \cup running.sent
    BY <1>1, <2>1
  <2>5. CopyInv'
    BY <1>2, <2>2, <2>4 DEF TransferInv, CopyInv, Working
  <2>6. DeleteInv'
    BY <1>2, <2>4 DEF TransferInv, DeleteInv, Working
  <2> QED  BY <1>3, <1>4, <2>3, <2>5, <2>6 DEF TransferInv
<1> QED  BY <1>5, <1>6

\* The operation succeeds only with no error and no task left.
LEMMA WaitKeeps ==
  ASSUME TransferInv, Wait
  PROVE  TransferInv'
<1>1. /\ pc = "wait" /\ InFlight = {} /\ pc' = "returned"
      /\ result' = IF failed THEN "error" ELSE "ok"
      /\ UNCHANGED <<file, target, op, listed, pending, running, abandoned, failed, copied>>
  BY DEF Wait, Return
<1>2. InFlight' = InFlight /\ Outstanding' = Outstanding
  BY <1>1 DEF InFlight, Outstanding
<1>3. Types' /\ GroupInv'
  BY <1>1, <1>2 DEF TransferInv, Types, GroupInv
<1>4. PagesInv' /\ CopyInv' /\ DeleteInv'
  BY <1>1, <1>2 DEF TransferInv, PagesInv, CopyInv, DeleteInv, Working
<1> QED  BY <1>3, <1>4 DEF TransferInv

\* A call that takes effect copies its keys, or deletes those it reports no
\* error for, and creates no file.
LEMMA Effect ==
  ASSUME Types, NEW task \in Tasks, TakesEffect(task)
  PROVE  /\ file' \in [Keys -> {"absent", "old", "new", "gone"}]
         /\ target' \in SUBSET Keys
         /\ target \subseteq target'
         /\ \A k \in Keys : file'[k] = "old" => file[k] = "old"
         /\ op = "copy" => task \subseteq target'
         /\ op = "delete" /\ "object" \notin Faults =>
              \A k \in task : file'[k] # "old"
<1>1. task \subseteq Keys
  BY DEF Tasks
<1>2. CASE op = "copy"
  BY <1>1, <1>2 DEF TakesEffect, Types
<1>3. CASE op # "copy"
  <2>1. PICK kept \in SUBSET task :
          /\ kept = {} \/ "object" \in Faults
          /\ file' = [k \in Keys |-> IF k \in task \ kept THEN "gone" ELSE file[k]]
    BY <1>3 DEF TakesEffect
  <2>2. target' = target
    BY <1>3 DEF TakesEffect
  <2> QED  BY <1>1, <1>3, <2>1, <2>2 DEF Types
<1> QED  BY <1>2, <1>3

\* A task whose call lands has its keys copied or deleted.
LEMMA LandKeeps ==
  ASSUME TransferInv, NEW task \in InFlight, Land(task)
  PROVE  TransferInv'
<1>1. /\ task \in running.sent /\ task \in Tasks
      /\ running' = [sent |-> running.sent \ {task}, landed |-> running.landed \cup {task}]
      /\ UNCHANGED <<op, pc, listed, pending, abandoned, failed, copied, result>>
  BY DEF Land, TransferInv, Types
<1>2. TakesEffect(task)
  BY DEF Land
<1>3. InFlight' = InFlight /\ Outstanding' = Outstanding
  BY <1>1 DEF InFlight, Outstanding
<1>4. Types'
  BY <1>1, <1>2, Effect DEF TransferInv, Types
<1>5. GroupInv'
  BY <1>1, <1>3 DEF TransferInv, GroupInv
<1>6. PagesInv'
  BY <1>1, <1>2, Effect DEF TransferInv, PagesInv, Working
<1>7. CopyInv'
  <2> SUFFICES ASSUME op = "copy"
               PROVE  CopyInv'
    BY <1>1 DEF CopyInv
  <2>1. ASSUME Working, ~failed, NEW k \in listed
        PROVE  k \in target' \/ {k} \in pending \cup running'.sent
    <3>1. k \in target \/ {k} \in pending \cup running.sent
      BY <2>1 DEF TransferInv, CopyInv
    <3>2. CASE {k} = task
      BY <1>2, <1>1, <3>2, Effect DEF TransferInv
    <3>3. CASE {k} # task
      BY <1>1, <1>2, <3>1, <3>3, Effect DEF TransferInv
    <3> QED  BY <3>2, <3>3
  <2> QED  BY <1>1, <1>3, <2>1 DEF TransferInv, CopyInv, Working
<1>8. DeleteInv'
  <2> SUFFICES ASSUME op = "delete"
               PROVE  DeleteInv'
    BY <1>1 DEF DeleteInv
  <2>1. ASSUME "object" \notin Faults, Working, ~failed, NEW k \in listed
        PROVE  file'[k] # "old" \/ k \in UNION (pending \cup running'.sent)
    <3>1. k \in Keys /\ (file[k] # "old" \/ k \in UNION (pending \cup running.sent))
      BY <2>1 DEF TransferInv, Types, DeleteInv
    <3>2. CASE k \in task
      BY <1>1, <1>2, <2>1, <3>2, Effect DEF TransferInv
    <3>3. CASE k \notin task
      BY <1>1, <1>2, <3>1, <3>3, Effect DEF TransferInv
    <3> QED  BY <3>2, <3>3
  <2> QED  BY <1>1, <2>1 DEF TransferInv, DeleteInv, Working
<1> QED  BY <1>4, <1>5, <1>6, <1>7, <1>8 DEF TransferInv

\* A task leaves the group as the counter takes it in.
LEMMA SucceedKeeps ==
  ASSUME TransferInv, NEW task \in InFlight, Succeed(task)
  PROVE  TransferInv'
<1>1. /\ task \in running.landed
      /\ running'.sent = running.sent
      /\ running'.landed = running.landed \ {task}
      /\ running' \in [sent : SUBSET Tasks, landed : SUBSET Tasks]
      /\ copied' = IF op = "copy" THEN copied + 1 ELSE copied
      /\ UNCHANGED <<file, target, op, pc, listed, pending, abandoned, failed, result>>
  BY DEF Succeed, TransferInv, Types
<1>2. InFlight' = InFlight \ {task} /\ Outstanding' = Outstanding \ {task}
  BY <1>1 DEF TransferInv, GroupInv, InFlight, Outstanding
<1>3. Types'
  BY <1>1 DEF TransferInv, Types
<1>4. GroupInv'
  <2>1. pc # "list"
    BY DEF TransferInv, GroupInv, Outstanding
  <2> QED  BY <1>1, <1>2, <2>1 DEF TransferInv, GroupInv
<1>5. PagesInv'
  BY <1>1 DEF TransferInv, PagesInv, Working
<1>6. CopyInv'
  <2>1. Outstanding \in SUBSET Tasks /\ task \in Outstanding
    BY DEF TransferInv, Types, Outstanding, InFlight
  <2>2. /\ Cardinality(Outstanding') = Cardinality(Outstanding) - 1
        /\ Cardinality(Outstanding) \in Nat
        /\ Cardinality(listed) \in Nat
        /\ copied \in Nat
    BY <1>2, <2>1, TakingOneTask, FiniteTasks, FiniteKeys DEF TransferInv, Types
  <2> QED  BY <1>1, <1>2, <2>2 DEF TransferInv, CopyInv, Working
<1>7. DeleteInv'
  BY <1>1 DEF TransferInv, DeleteInv, Working, Types
<1> QED  BY <1>3, <1>4, <1>5, <1>6, <1>7 DEF TransferInv

\* A task that fails leaves an error behind, which is never taken back.
LEMMA FailKeeps ==
  ASSUME TransferInv, NEW task \in InFlight, Fail(task)
  PROVE  TransferInv'
<1>1. /\ failed' = TRUE
      /\ running' = [sent |-> running.sent \ {task}, landed |-> running.landed \ {task}]
      /\ abandoned' \subseteq abandoned \cup {task}
      /\ UNCHANGED <<file, target, op, pc, listed, pending, copied, result>>
  BY DEF Fail
<1>2. InFlight' = InFlight \ {task} /\ Outstanding' = Outstanding \ {task}
  BY <1>1 DEF TransferInv, GroupInv, InFlight, Outstanding
<1>3. Types'
  BY <1>1 DEF TransferInv, Types, InFlight
<1>4. GroupInv'
  <2>1. pc # "list" /\ result # "ok"
    BY DEF TransferInv, GroupInv, Outstanding
  <2> QED  BY <1>1, <1>2, <2>1 DEF TransferInv, GroupInv
<1>5. PagesInv'
  BY <1>1 DEF TransferInv, PagesInv, Working
<1>6. CopyInv'
  <2>1. Outstanding \in SUBSET Tasks /\ task \in Outstanding
    BY DEF TransferInv, Types, Outstanding, InFlight
  <2>2. /\ Cardinality(Outstanding') = Cardinality(Outstanding) - 1
        /\ Cardinality(Outstanding) \in Nat
        /\ Cardinality(listed) \in Nat
        /\ copied \in Nat
    BY <1>2, <2>1, TakingOneTask, FiniteTasks, FiniteKeys DEF TransferInv, Types
  <2> QED  BY <1>1, <1>2, <2>2 DEF TransferInv, CopyInv
<1>7. DeleteInv'
  BY <1>1 DEF TransferInv, DeleteInv
<1> QED  BY <1>3, <1>4, <1>5, <1>6, <1>7 DEF TransferInv

-----------------------------------------------------------------------------
(***************************************************************************)
(* The server and its other clients: no step brings back a file that was   *)
(* there from the start, and none takes a file from the destination.       *)
(***************************************************************************)
\* A step that only changes files that way preserves the invariant.
LEMMA BackgroundKeeps ==
  ASSUME TransferInv,
         UNCHANGED <<op, pc, listed, pending, running, failed, copied, result>>,
         file' \in [Keys -> {"absent", "old", "new", "gone"}],
         target' \in SUBSET Keys, target \subseteq target',
         abandoned' \subseteq abandoned,
         \A k \in Keys : file'[k] = "old" => file[k] = "old"
  PROVE  TransferInv'
<1>1. InFlight' = InFlight /\ Outstanding' = Outstanding
  BY DEF InFlight, Outstanding
<1>2. Types' /\ GroupInv'
  BY <1>1 DEF TransferInv, Types, GroupInv
<1>3. PagesInv'
  BY DEF TransferInv, PagesInv, Working
<1>4. CopyInv'
  BY <1>1 DEF TransferInv, CopyInv, Working
<1>5. DeleteInv'
  BY DEF TransferInv, Types, DeleteInv, Working
<1> QED  BY <1>2, <1>3, <1>4, <1>5 DEF TransferInv

\* A call that lands late, an upload and a removal are all such steps.
LEMMA EnvironmentKeeps ==
  ASSUME TransferInv, Environment
  PROVE  TransferInv'
<1>1. ASSUME NEW task \in abandoned, LandLate(task)
      PROVE  TransferInv'
  <2>1. task \in Tasks /\ TakesEffect(task)
    BY <1>1 DEF LandLate, TransferInv, Types
  <2>2. /\ abandoned' \subseteq abandoned
        /\ UNCHANGED <<op, pc, listed, pending, running, failed, copied, result>>
    BY <1>1 DEF LandLate
  <2> QED  BY <2>1, <2>2, Effect, BackgroundKeeps DEF TransferInv
<1>2. ASSUME NEW k \in Keys, AddFile(k)
      PROVE  TransferInv'
  BY <1>2, BackgroundKeeps DEF AddFile, TransferInv, Types
<1>3. ASSUME NEW k \in Keys, RemoveFile(k)
      PROVE  TransferInv'
  BY <1>3, BackgroundKeeps DEF RemoveFile, TransferInv, Types
<1> QED  BY <1>1, <1>2, <1>3 DEF Environment

-----------------------------------------------------------------------------
(***************************************************************************)
(* TransferInv is an invariant of the specification.                       *)
(***************************************************************************)
\* No step leaves it.
LEMMA NextTransferInv == TransferInv /\ [Next]_vars => TransferInv'
<1> SUFFICES ASSUME TransferInv, [Next]_vars
             PROVE  TransferInv'
  OBVIOUS
<1>1. CASE Operation
  BY <1>1, ListPageKeeps, ListFailsKeeps, SubmitKeeps, WaitKeeps,
     LandKeeps, SucceedKeeps, FailKeeps DEF Operation
<1>2. CASE Environment
  BY <1>2, EnvironmentKeeps
<1>3. CASE UNCHANGED vars
  BY <1>3 DEF vars, TransferInv, Types, GroupInv, PagesInv, CopyInv, DeleteInv,
              Working, Outstanding, InFlight
<1> QED  BY <1>1, <1>2, <1>3 DEF Next

\* Every state of every behaviour satisfies it.
LEMMA TransferInvariant == Spec => []TransferInv
BY InitTransferInv, NextTransferInv, PTL DEF Spec

\* Every variable stays in its type; in particular the counter of the copied
\* objects never passes the number of keys: parallel.go counts each task once.
THEOREM TransferTypes == Spec => []TypeOK
<1>1. TransferInv => TypeOK
  <2> SUFFICES ASSUME TransferInv
               PROVE  TypeOK
    OBVIOUS
  <2>1. copied <= MaxKey
    <3>1. op \in {"copy", "delete"}
      BY TransferAssumption DEF TransferInv, Types
    <3>2. CASE op = "copy"
      <4>1. Outstanding \in SUBSET Tasks
        BY DEF TransferInv, Types, Outstanding, InFlight
      <4>2. /\ Cardinality(Outstanding) \in Nat
            /\ Cardinality(listed) \in Nat /\ Cardinality(listed) <= MaxKey
            /\ copied \in Nat /\ MaxKey \in Nat
        BY <4>1, FiniteTasks, FiniteKeys, TransferAssumption DEF TransferInv, Types
      <4> QED  BY <3>2, <4>2 DEF TransferInv, CopyInv
    <3>3. CASE op = "delete"
      BY <3>3, TransferAssumption DEF TransferInv, DeleteInv
    <3> QED  BY <3>1, <3>2, <3>3
  <2>2. copied \in 0..MaxKey
    BY <2>1, TransferAssumption DEF TransferInv, Types
  <2> QED  BY <2>2 DEF TransferInv, Types, TypeOK
<1> QED  BY <1>1, TransferInvariant, PTL

\* When CopyPrefix or DeletePrefix returns nil, no call of it is in flight or
\* may still land: what restore starts next is not disturbed by what it did.
THEOREM SuccessIsQuiet == Spec => []QuietAfterSuccess
<1>1. TransferInv => QuietAfterSuccess
  BY DEF TransferInv, Types, GroupInv, QuietAfterSuccess
<1> QED  BY <1>1, TransferInvariant, PTL

\* When CopyPrefix returns nil, it has copied every key it listed, counted each
\* once, and listed every file that was there from its start to its end.
THEOREM CopiesEverything == Spec => []CopyComplete
<1>1. TransferInv => CopyComplete
  <2> SUFFICES ASSUME TransferInv, op = "copy", result = "ok"
               PROVE  /\ listed \subseteq target
                      /\ copied = Cardinality(listed)
                      /\ \A k \in Keys : file[k] = "old" => k \in listed
    BY DEF CopyComplete
  <2>1. Working /\ ~failed /\ pc = "returned" /\ pending = {} /\ InFlight = {}
    BY DEF TransferInv, Types, GroupInv, Working
  <2>2. Outstanding = {} /\ running.sent = {}
    BY <2>1 DEF Outstanding, InFlight
  <2>3. listed \subseteq target
    BY <2>1, <2>2 DEF TransferInv, CopyInv
  <2>4. copied = Cardinality(listed)
    BY <2>1, <2>2, FiniteKeys, FS_EmptySet DEF TransferInv, Types, CopyInv
  <2>5. \A k \in Keys : file[k] = "old" => k \in listed
    BY <2>1 DEF TransferInv, PagesInv
  <2> QED  BY <2>3, <2>4, <2>5
<1> QED  BY <1>1, TransferInvariant, PTL

\* When DeletePrefix returns nil, every file that was there when it started is
\* gone, provided that S3 reports no error for a single key: parallel.go does not
\* look at the errors of an answer.
THEOREM DeletesEverything ==
  ASSUME "object" \notin Faults
  PROVE  Spec => []DeletionComplete
<1>1. TransferInv => DeletionComplete
  <2> SUFFICES ASSUME TransferInv, op = "delete", result = "ok", NEW k \in Keys
               PROVE  file[k] # "old"
    BY DEF DeletionComplete
  <2>1. Working /\ ~failed /\ pc = "returned" /\ pending = {} /\ running.sent = {}
    BY DEF TransferInv, Types, GroupInv, Working, InFlight
  <2>2. CASE k \in listed
    BY <2>1, <2>2 DEF TransferInv, DeleteInv
  <2>3. CASE k \notin listed
    BY <2>1, <2>3 DEF TransferInv, PagesInv
  <2> QED  BY <2>2, <2>3
<1> QED  BY <1>1, TransferInvariant, PTL

=============================================================================
