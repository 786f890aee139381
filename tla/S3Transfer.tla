------------------------------ MODULE S3Transfer ------------------------------
(***************************************************************************)
(* CopyPrefix and DeletePrefix (internal/s3/parallel.go): a paginated      *)
(* listing of a prefix, then one call per task in an errgroup with a limit *)
(* on its goroutines.  A task of a copy is one key, of a deletion a batch. *)
(*                                                                         *)
(* S3 acts on its own time: a call first lands at the server and is then   *)
(* answered.  A call that fails on the client, because the group's context *)
(* was cancelled or its answer was lost, may have landed or may land later.*)
(* Other clients add files to the prefix and remove them meanwhile; the    *)
(* names of Milvus segment files are never used twice.                     *)
(***************************************************************************)
EXTENDS Integers, FiniteSets, FiniteSetsExt

CONSTANTS
  MaxKey,       \* bound: keys are 1..MaxKey, in lexicographic order
  PageSize,     \* keys per page of ListObjectsV2
  BatchSize,    \* maxDeleteBatch
  Concurrency,  \* the limit of the errgroup
  Ops,          \* the operations to start: a subset of {"copy", "delete"}
  Faults        \* "page": a page fails, "call": a call fails,
                \* "object": DeleteObjects reports an error for some keys

ASSUME TransferAssumption ==
  /\ {MaxKey, PageSize, BatchSize, Concurrency} \subseteq Nat \ {0}
  /\ Ops \subseteq {"copy", "delete"}

VARIABLES
  file,       \* each key of the source prefix: absent, there before the
              \* operation ("old"), added during it ("new") or removed ("gone")
  target,     \* keys that exist under the destination prefix
  op,         \* the operation that runs
  pc,         \* list, submit, wait or returned
  listed,     \* keys listed so far
  pending,    \* tasks the loop has yet to hand to the group
  running,    \* the tasks of the group's goroutines, by the state of their call
  abandoned,  \* tasks whose call failed on the client and may still land
  failed,     \* the group has an error: its context is cancelled
  copied,     \* the atomic counter
  result      \* "none", "error" or "ok"

vars == <<file, target, op, pc, listed, pending, running, abandoned, failed, copied, result>>

-----------------------------------------------------------------------------
Keys == 1..MaxKey

Tasks == SUBSET Keys

Source == {k \in Keys : file[k] \in {"old", "new"}}

InFlight == running.sent \cup running.landed

\* An S3 page: the first PageSize keys after the last one listed.
Page ==
  LET rest == {k \in Source : \A l \in listed : k > l}
  IN  {k \in rest : Cardinality({l \in rest : l < k}) < PageSize}

IsTruncated == \E k \in Source : \A l \in listed \cup Page : k > l

BatchesStrideOff(keys) ==  \* mutant: the loop steps by maxDeleteBatch + 1
  LET index(k)  == Cardinality({l \in keys : l < k})
      stride    == BatchSize + 1
      sliced(k) == index(k) % stride < BatchSize
  IN  {{l \in keys : sliced(l) /\ index(l) \div stride = index(k) \div stride} : k \in keys}

\* keys[i:min(i+maxDeleteBatch, len(keys))] for i = 0, maxDeleteBatch, ...
Batches(keys) ==
  LET index(k) == Cardinality({l \in keys : l < k})
  IN  {{l \in keys : index(l) \div BatchSize = index(k) \div BatchSize} : k \in keys}

TasksOf(keys) == IF op = "copy" THEN {{k} : k \in keys} ELSE Batches(keys)

TypeOK ==
  /\ file \in [Keys -> {"absent", "old", "new", "gone"}]
  /\ target \in SUBSET Keys
  /\ op \in Ops
  /\ pc \in {"list", "submit", "wait", "returned"}
  /\ listed \in SUBSET Keys
  /\ pending \in SUBSET Tasks
  /\ running \in [sent : SUBSET Tasks, landed : SUBSET Tasks]
  /\ abandoned \in SUBSET Tasks
  /\ failed \in BOOLEAN
  /\ copied \in 0..MaxKey
  /\ result \in {"none", "error", "ok"}

Init ==
  /\ file \in [Keys -> {"absent", "old"}]
  /\ target = {}
  /\ op \in Ops
  /\ pc = "list"
  /\ listed = {}
  /\ pending = {}
  /\ running = [sent |-> {}, landed |-> {}]
  /\ abandoned = {}
  /\ failed = FALSE
  /\ copied = 0
  /\ result = "none"

-----------------------------------------------------------------------------
(***************************************************************************)
(* The operation.                                                          *)
(***************************************************************************)
Return(outcome) == pc' = "returned" /\ result' = outcome

ListFirstPage ==  \* mutant: HasMorePages is not asked
  /\ pc = "list"
  /\ listed' = Page
  /\ IF listed' = {} THEN Return("ok") /\ UNCHANGED pending
                     ELSE pc' = "submit" /\ pending' = TasksOf(listed') /\ UNCHANGED result
  /\ UNCHANGED <<file, target, op, running, abandoned, failed, copied>>

\* ListObjects follows the paginator; an empty listing is a success.
ListPage ==
  /\ pc = "list"
  /\ listed' = listed \cup Page
  /\ CASE IsTruncated -> UNCHANGED <<pc, pending, result>>
       [] ~IsTruncated /\ listed' = {} -> Return("ok") /\ UNCHANGED pending
       [] OTHER -> /\ pc' = "submit"
                   /\ pending' = TasksOf(listed')
                   /\ UNCHANGED result
  /\ UNCHANGED <<file, target, op, running, abandoned, failed, copied>>

ListFails ==
  /\ pc = "list"
  /\ "page" \in Faults
  /\ Return("error")
  /\ UNCHANGED <<file, target, op, listed, pending, running, abandoned, failed, copied>>

\* g.Go blocks while the group is full; the loop hands out every task, also
\* after an error.  A call made on a cancelled context is never sent.
Submit ==
  /\ pc = "submit"
  /\ Cardinality(InFlight) < Concurrency
  /\ \E task \in pending :
       /\ \A other \in pending : Min(task) <= Min(other)
       /\ pending' = pending \ {task}
       /\ running' = IF failed THEN running ELSE [running EXCEPT !.sent = @ \cup {task}]
  /\ pc' = IF pending' = {} THEN "wait" ELSE pc
  /\ UNCHANGED <<file, target, op, listed, abandoned, failed, copied, result>>

\* CopyObject copies a key that exists; DeleteObjects removes the keys of its
\* batch, except those it reports as errors in an answer that is not an error.
TakesEffect(task) ==
  IF op = "copy"
    THEN /\ task \subseteq Source
         /\ target' = target \cup task
         /\ UNCHANGED file
    ELSE /\ \E kept \in SUBSET task :
              /\ kept = {} \/ "object" \in Faults
              /\ file' = [k \in Keys |-> IF k \in task \ kept THEN "gone" ELSE file[k]]
         /\ UNCHANGED target

Land(task) ==
  /\ task \in running.sent
  /\ TakesEffect(task)
  /\ running' = [sent |-> running.sent \ {task}, landed |-> running.landed \cup {task}]
  /\ UNCHANGED <<op, pc, listed, pending, abandoned, failed, copied, result>>

SucceedCountsTwice(task) ==  \* mutant: the counter is also added to for the log
  /\ task \in running.landed
  /\ running' = [running EXCEPT !.landed = @ \ {task}]
  /\ copied' = IF op = "copy" THEN copied + 2 ELSE copied
  /\ UNCHANGED <<file, target, op, pc, listed, pending, abandoned, failed, result>>

Succeed(task) ==
  /\ task \in running.landed
  /\ running' = [running EXCEPT !.landed = @ \ {task}]
  /\ copied' = IF op = "copy" THEN copied + 1 ELSE copied
  /\ UNCHANGED <<file, target, op, pc, listed, pending, abandoned, failed, result>>

FailKeepsSlot(task) ==  \* mutant: the goroutine that fails does not end
  /\ task \in InFlight
  /\ \/ failed
     \/ "call" \in Faults
     \/ op = "copy" /\ task \in running.sent /\ ~(task \subseteq Source)
  /\ failed' = TRUE
  /\ UNCHANGED <<file, target, op, pc, listed, pending, running, abandoned, copied, result>>

\* The first error cancels the context of the group, so other calls may fail.
Fail(task) ==
  /\ task \in InFlight
  /\ \/ failed
     \/ "call" \in Faults
     \/ op = "copy" /\ task \in running.sent /\ ~(task \subseteq Source)
  /\ failed' = TRUE
  /\ running' = [sent |-> running.sent \ {task}, landed |-> running.landed \ {task}]
  /\ abandoned' \in {abandoned, abandoned \cup ({task} \cap running.sent)}
  /\ UNCHANGED <<file, target, op, pc, listed, pending, copied, result>>

WaitForLoop ==  \* mutant: the end of the loop is taken for the end of the group
  /\ pc = "wait"
  /\ Return(IF failed THEN "error" ELSE "ok")
  /\ UNCHANGED <<file, target, op, listed, pending, running, abandoned, failed, copied>>

Wait ==
  /\ pc = "wait"
  /\ InFlight = {}
  /\ Return(IF failed THEN "error" ELSE "ok")
  /\ UNCHANGED <<file, target, op, listed, pending, running, abandoned, failed, copied>>

-----------------------------------------------------------------------------
(***************************************************************************)
(* The server and its other clients.                                       *)
(***************************************************************************)
LandLate(task) ==
  /\ task \in abandoned
  /\ TakesEffect(task)
  /\ abandoned' = abandoned \ {task}
  /\ UNCHANGED <<op, pc, listed, pending, running, failed, copied, result>>

AddFile(k) ==
  /\ file[k] = "absent"
  /\ file' = [file EXCEPT ![k] = "new"]
  /\ UNCHANGED <<target, op, pc, listed, pending, running, abandoned, failed, copied, result>>

RemoveFile(k) ==
  /\ file[k] \in {"old", "new"}
  /\ file' = [file EXCEPT ![k] = "gone"]
  /\ UNCHANGED <<target, op, pc, listed, pending, running, abandoned, failed, copied, result>>

Operation ==
  \/ ListPage \/ ListFails \/ Submit \/ Wait
  \/ \E task \in InFlight : Land(task) \/ Succeed(task) \/ Fail(task)

Environment ==
  \/ \E task \in abandoned : LandLate(task)
  \/ \E k \in Keys : AddFile(k) \/ RemoveFile(k)

Next == Operation \/ Environment

Spec == Init /\ [][Next]_vars

\* The goroutines run and every call is answered; the server may never carry
\* out an abandoned call and other clients may do nothing.
FairSpec == Spec /\ WF_vars(Operation)

-----------------------------------------------------------------------------
(***************************************************************************)
(* Properties.                                                             *)
(***************************************************************************)

\* A copy that returns without error has copied every key it listed and counts
\* each once, and it has listed every file that was there from start to end:
\* neither the pages, nor the pool, nor the cancellation lose one.
CopyComplete ==
  op = "copy" /\ result = "ok" =>
    /\ listed \subseteq target
    /\ copied = Cardinality(listed)
    /\ \A k \in Keys : file[k] = "old" => k \in listed

\* A deletion that returns without error has removed every file that was there
\* when it started.  (parallel.go:76 "deletes all objects under bucket/prefix")
DeletionComplete ==
  op = "delete" /\ result = "ok" => \A k \in Keys : file[k] # "old"

\* Nothing the operation started is still to happen after it has returned
\* success: restore relies on it between its deletion and its copy.
QuietAfterSuccess ==
  result = "ok" => InFlight = {} /\ abandoned = {} /\ pending = {}

\* The operation returns, whatever fails.
Returns == <>(pc = "returned")

=============================================================================
