--------------------------- MODULE SnapshotRestore ---------------------------
(***************************************************************************)
(* `milvus-utils snapshot restore` (cmd/restore.go, runRestore) composed   *)
(* with the cluster it works on.                                           *)
(*                                                                         *)
(* Restores are started by hand, one at a time; one that failed or was     *)
(* killed may be started again.  run.pc names the call it makes next, and  *)
(* the same name in Faults says that this call may fail, possibly after it *)
(* took effect.                                                            *)
(***************************************************************************)
EXTENDS Cluster

CONSTANTS
  MaxRuns  \* bound: how often restore is started

ASSUME RestoreAssumption == MaxRuns \in Nat

VARIABLES
  run,   \* the local state of the run
  runs   \* how often restore was started

vars == <<clusterVars, run, runs>>

-----------------------------------------------------------------------------
\* The calls of a run in program order.
Calls == {"gate1", "suspend", "getCR", "gate2", "hpas", "scaledObjects", "deleteCR",
          "uninstall", "pvcs", "waitPods", "deleteS3", "copyS3", "tempPVC", "createJob",
          "waitJob", "createCR", "waitEtcd", "revert", "resume", "cleanJob", "cleanPVC"}

TypeOK ==
  /\ ClusterTypeOK
  /\ run \in [pc     : Calls \cup {"idle", "ended"},
              id     : Snapshots,                      \* snapshotID
              saved  : {NoFields, run.saved},          \* originalCR
              left   : SUBSET Files,                   \* history: keys S3 did not delete
              result : {"none", "ok", "error"}]
  /\ runs \in 0..MaxRuns

Init ==
  /\ ClusterInit
  /\ run \in [pc : {"idle"}, id : Snapshots, saved : {NoFields}, left : {{}}, result : {"none"}]
  /\ runs = 0

Active == run.pc \in Calls

GoTo(call) == run' = [run EXCEPT !.pc = call] /\ UNCHANGED runs

Return(result) ==
  /\ run' = [run EXCEPT !.pc = "ended", !.saved = NoFields, !.left = {}, !.result = result]
  /\ UNCHANGED runs

-----------------------------------------------------------------------------
\* The ID is given by hand, by the configuration, or resolved (see
\* SnapshotCatalog); one that is given is not validated.
Start ==
  /\ ~Active
  /\ runs < MaxRuns
  /\ runs' = runs + 1
  /\ \E s \in Snapshots :
       run' = [pc |-> "gate1", id |-> s, saved |-> NoFields, left |-> {}, result |-> "none"]
  /\ UNCHANGED clusterVars

\* A gate is passed by the operator's answer or by --force.
Gate1 ==
  /\ run.pc = "gate1"
  /\ GoTo(IF flux.managed THEN "suspend" ELSE "getCR") \/ Return("error")
  /\ UNCHANGED clusterVars

SuspendFlux ==
  /\ run.pc = "suspend"
  /\ SetSuspend(TRUE)
  /\ GoTo("getCR")

GetMilvusCR ==
  /\ run.pc = "getCR"
  /\ IF cr.state = "absent"
       THEN Return("error")
       ELSE run' = [run EXCEPT !.pc = "gate2", !.saved = cr.doc] /\ UNCHANGED runs
  /\ UNCHANGED clusterVars

Gate2 ==
  /\ run.pc = "gate2"
  /\ GoTo("hpas") \/ Return("error")
  /\ UNCHANGED clusterVars

DeleteHPAs ==
  /\ run.pc = "hpas"
  /\ DeleteScalers("hpa")
  /\ GoTo("scaledObjects")

DeleteScaledObjects ==
  /\ run.pc = "scaledObjects"
  /\ DeleteScalers("scaledObject")
  /\ GoTo("deleteCR")

DeleteCR ==
  /\ run.pc = "deleteCR"
  /\ DeleteMilvusCR
  /\ GoTo("uninstall")

DeleteEtcdRelease ==
  /\ run.pc = "uninstall"
  /\ UninstallEtcd
  /\ GoTo("pvcs")

PVCsKept ==  \* mutant: uninstalling the release is taken to delete its claims
  /\ run.pc = "pvcs"
  /\ GoTo("waitPods")
  /\ UNCHANGED clusterVars

DeletePVCs ==
  /\ run.pc = "pvcs"
  /\ DeleteEtcdPVCs
  /\ GoTo("waitPods")

PodsNotAwaited ==  \* mutant: the deletion of the CR is taken to wait for its pods
  /\ run.pc = "waitPods"
  /\ GoTo("deleteS3")
  /\ UNCHANGED clusterVars

\* Only pods with the instance label of Milvus are polled, not those of etcd.
WaitForPodsTerminated ==
  /\ run.pc = "waitPods"
  /\ ~workers
  /\ GoTo("deleteS3")
  /\ UNCHANGED clusterVars

\* The keys whose errors S3 reports in a successful answer (fault "object") stay
\* where they are: DeletePrefix does not look at them.
DeletePrefix ==
  /\ run.pc = "deleteS3"
  /\ \E left \in SUBSET root :
       /\ left = {} \/ "object" \in Faults
       /\ DeleteRoot(root \ left)
       /\ run' = [run EXCEPT !.pc = "copyS3", !.left = left]
  /\ UNCHANGED runs

CopyUntrimmed ==  \* mutant: the source prefix is not trimmed from the keys
  /\ run.pc = "copyS3"
  /\ CopyToRoot({run.id} \X Stored[run.id])
  /\ GoTo("tempPVC")

\* An empty data prefix is copied successfully.
CopyPrefix ==
  /\ run.pc = "copyS3"
  /\ CopyToRoot(Stored[run.id])
  /\ GoTo("tempPVC")

CreatePVC ==
  /\ run.pc = "tempPVC"
  /\ CreateTempPVC(run.id)
  /\ GoTo("createJob")

CreateJob ==
  /\ run.pc = "createJob"
  /\ CreateDownloadJob(run.id)
  /\ GoTo("waitJob")

WaitForJobComplete ==
  /\ run.pc = "waitJob"
  /\ \/ job[run.id] = "complete" /\ GoTo("createCR")
     \/ job[run.id] = "failed" /\ Return("error")
  /\ UNCHANGED clusterVars

CreateMilvusCR ==
  /\ run.pc = "createCR"
  /\ CreateRestoreCR(BuildRestoreCR(run.saved, run.id))
  /\ GoTo("waitEtcd")

EtcdNotAwaited ==  \* mutant: the StatefulSet is taken to be ready once it exists
  /\ run.pc = "waitEtcd"
  /\ GoTo("revert")
  /\ UNCHANGED clusterVars

WaitForStatefulSetReady ==
  /\ run.pc = "waitEtcd"
  /\ etcd.release /\ etcd.pod = "ready"
  /\ GoTo("revert")
  /\ UNCHANGED clusterVars

PatchMilvusCR ==
  /\ run.pc = "revert"
  /\ PatchCR(RevertPatch)
  /\ GoTo(IF flux.managed THEN "resume" ELSE "cleanJob")

FluxLeftSuspended ==  \* mutant: resuming is left to the operator
  /\ run.pc = "resume"
  /\ GoTo("cleanJob")
  /\ UNCHANGED clusterVars

ResumeFlux ==
  /\ run.pc = "resume"
  /\ SetSuspend(FALSE)
  /\ GoTo("cleanJob")

\* The errors of the cleanup are logged, never returned.
CleanJob ==
  /\ run.pc = "cleanJob"
  /\ DeleteJob(run.id) \/ ((job[run.id] = "absent" \/ "cleanJob" \in Faults) /\ UNCHANGED clusterVars)
  /\ GoTo("cleanPVC")

CleanPVC ==
  /\ run.pc = "cleanPVC"
  /\ DeleteTempPVC(run.id) \/ ((temp[run.id] = "absent" \/ "cleanPVC" \in Faults) /\ UNCHANGED clusterVars)
  /\ Return("ok")

-----------------------------------------------------------------------------
\* The API server refuses: not found, or already exists.
Refused ==
  /\ \/ run.pc \in {"deleteCR", "revert"} /\ cr.state = "absent"
     \/ run.pc = "uninstall" /\ ~etcd.release
     \/ run.pc = "tempPVC" /\ temp[run.id] # "absent"
     \/ run.pc = "createJob" /\ job[run.id] # "absent"
     \/ run.pc = "createCR" /\ cr.state # "absent"
  /\ Return("error")
  /\ UNCHANGED clusterVars

PodsTimeOutNever ==  \* mutant: the wait for the pods has no deadline
  /\ run.pc \in {"waitJob", "waitEtcd"}
  /\ Return("error")
  /\ UNCHANGED clusterVars

\* A wait that reaches its timeout, or whose watch is closed.
TimesOut ==
  /\ run.pc \in {"waitPods", "waitJob", "waitEtcd"}
  /\ Return("error")
  /\ UNCHANGED clusterVars

\* A call whose error is returned at once, whether or not it took effect.  The
\* two calls that work on many objects may have done so for some of them.
CallFails ==
  /\ run.pc \in Faults \ {"gate1", "gate2", "waitPods", "waitJob", "waitEtcd", "cleanJob", "cleanPVC"}
  /\ Return("error")
  /\ \/ UNCHANGED clusterVars
     \/ run.pc = "suspend" /\ SetSuspend(TRUE)
     \/ run.pc = "hpas" /\ DeleteScalers("hpa")
     \/ run.pc = "scaledObjects" /\ DeleteScalers("scaledObject")
     \/ run.pc = "deleteCR" /\ DeleteMilvusCR
     \/ run.pc = "uninstall" /\ UninstallEtcd
     \/ run.pc = "pvcs" /\ DeleteEtcdPVCs
     \/ run.pc = "deleteS3" /\ \E some \in SUBSET root : DeleteRoot(some)
     \/ run.pc = "copyS3" /\ \E some \in SUBSET Stored[run.id] : CopyToRoot(some)
     \/ run.pc = "tempPVC" /\ CreateTempPVC(run.id)
     \/ run.pc = "createJob" /\ CreateDownloadJob(run.id)
     \/ run.pc = "createCR" /\ CreateRestoreCR(BuildRestoreCR(run.saved, run.id))
     \/ run.pc = "revert" /\ PatchCR(RevertPatch)
     \/ run.pc = "resume" /\ SetSuspend(FALSE)

\* The process is killed.  Nothing in the cluster tells it from an error.
Crash ==
  /\ "crash" \in Faults
  /\ Active
  /\ Return("error")
  /\ UNCHANGED clusterVars

\* Between two runs the operator may put right what the last one left: resume
\* Flux, remove the temporary objects.
ResumeByHand ==
  /\ ~Active /\ flux.suspended
  /\ SetSuspend(FALSE)
  /\ UNCHANGED <<run, runs>>

CleanByHand ==
  /\ ~Active
  /\ \E s \in Snapshots : DeleteJob(s) \/ DeleteTempPVC(s)
  /\ UNCHANGED <<run, runs>>

Step ==
  \/ Gate1 \/ SuspendFlux \/ GetMilvusCR \/ Gate2
  \/ DeleteHPAs \/ DeleteScaledObjects \/ DeleteCR \/ DeleteEtcdRelease \/ DeletePVCs
  \/ WaitForPodsTerminated \/ DeletePrefix \/ CopyPrefix
  \/ CreatePVC \/ CreateJob \/ WaitForJobComplete
  \/ CreateMilvusCR \/ WaitForStatefulSetReady \/ PatchMilvusCR \/ ResumeFlux
  \/ CleanJob \/ CleanPVC
  \/ Refused \/ TimesOut \/ CallFails

Environment ==
  \/ ClusterNext /\ UNCHANGED <<run, runs>>
  \/ ResumeByHand \/ CleanByHand

Next == Start \/ Step \/ Crash \/ Environment

Spec == Init /\ [][Next]_vars

\* Every call is answered, the operator answers at the gates, and the
\* controllers that bring Milvus up keep working.
Fairness ==
  /\ WF_vars(Step)
  /\ WF_vars(StartReconciling /\ UNCHANGED <<run, runs>>)
  /\ WF_vars(Reconcile /\ UNCHANGED <<run, runs>>)
  /\ WF_vars(StartWorkers /\ UNCHANGED <<run, runs>>)

FairSpec == Spec /\ Fairness

-----------------------------------------------------------------------------
(***************************************************************************)
(* Properties.                                                             *)
(***************************************************************************)

\* From the deletion of the data to the resumption of Flux no worker runs, so
\* nothing writes under a data prefix that is being replaced; except when Flux
\* applied a reconciliation that was under way when it was suspended.
QuietDuringRestore ==
  run.pc \in {"deleteS3", "copyS3", "tempPVC", "createJob", "waitJob", "createCR",
              "waitEtcd", "revert", "resume"}
    => ~workers \/ flux.raced

\* When etcd is up again, it refers to what the snapshot does, and the root
\* prefix holds the files of the snapshot, and no other but what S3 refused to
\* delete without DeletePrefix noticing.
RestoredIsSnapshot ==
  run.pc \in {"revert", "resume"} /\ ~flux.raced
    => etcd.refs = Image[run.id] /\ root = Stored[run.id] \cup run.left

\* Whatever fails, whatever is killed and started again: workers never serve
\* an etcd that names a file the bucket does not hold.
ServesWhatEtcdNames ==
  workers /\ etcd.pod = "ready" /\ ~flux.raced => etcd.refs \subseteq root

\* "Null out startFromSnapshot so Flux sees clean etcd config on reconcile"
\* (restore.go:221): when Flux is about to be resumed, etcd claims no snapshot.
FluxSeesCleanConfig == run.pc = "resume" => Claim = NoClaim

\* "Preserves the full production spec so we can recreate accurately"
\* (memory-bank.md, Key Design Decisions): whatever fails and is started again,
\* a CR that is there has every field that was deployed, with its value, but for
\* those the restore strips or sets for its own purpose.
SpecSurvives ==
  cr.state = "live" =>
    \A p \in DOMAIN Git :
      \/ \E q \in Stripped : IsPrefix(q, p)
      \/ p \in DOMAIN SetForRestore(NoClaim)
      \/ p \in DOMAIN cr.doc /\ cr.doc[p] = Git[p]

\* A restore ends, also when what it waits for never comes.
RestoreEnds == Active ~> run.pc = "ended"

\* After a successful restore that Flux manages, Milvus serves the snapshot
\* again, unless another restore is started.
RestoredIsServed ==
  run.result = "ok" /\ flux.managed /\ ~flux.raced ~>
    run.result # "ok" \/ (workers /\ Image[run.id] \subseteq etcd.refs)

=============================================================================
