------------------------------- MODULE Cluster -------------------------------
(***************************************************************************)
(* What `snapshot restore` works on: the Kubernetes namespace of a Milvus  *)
(* instance and the root prefix of its bucket.                             *)
(*                                                                         *)
(* The first part gives the effects of the calls of internal/k8s.  The     *)
(* second part, the controllers, is not code of the repository: Flux, the  *)
(* Milvus operator, the etcd chart and the garbage collector are modelled  *)
(* from memory-bank.md:186-261 and from what the comments of the two       *)
(* files rely on.  Deletion is asynchronous: an object that is deleted     *)
(* stays until what depends on it, or uses it, is gone.                    *)
(***************************************************************************)
EXTENDS FiniteSets, RestoreCR

CONSTANTS
  Snapshots,  \* the snapshot IDs an operator may ask for
  Stored,     \* the files under the data prefix of each ID
  Image,      \* the files the etcd image of each ID refers to
  HasImage,   \* the IDs that have an etcd image
  LiveFiles,  \* the files of the instance when the first restore starts
  NewFiles,   \* the files its workers may write from then on
  NoClaim,    \* startFromSnapshot is not set
  Git,        \* the Milvus CR as it was deployed, and as Flux applies it
  Managed,    \* the fields that the API server and the operator add to it
  Faults      \* see SnapshotRestore

ASSUME ClusterAssumption ==
  /\ HasImage \subseteq Snapshots
  /\ NoClaim \notin Snapshots

\* What a run of create that succeeded leaves; SnapshotCatalog is about the
\* snapshots that look complete and are not.
ASSUME WholeSnapshots == \A s \in HasImage : Image[s] \subseteq Stored[s]

\* What is deployed is a CR that the schema allows, without fields of the
\* operator's or of the restore's; nobody but the restore sets startFromSnapshot.
ASSUME ManifestAssumption ==
  /\ \A p \in DOMAIN Git : ~IsOperatorAnnotation(p)
  /\ \A p \in DOMAIN Git, q \in DOMAIN SetForRestore(NoClaim) : Related(p, q) => p = q
  /\ \A p \in DOMAIN Managed, q \in DOMAIN Git \cup DOMAIN SetForRestore(NoClaim) : ~Related(p, q)
  /\ \A p \in DOMAIN Git \cup DOMAIN Managed :
       \A q \in {StartFromSnapshot, Enabled, ExistingClaim} : ~Related(p, q)

\* The CR has no components but those the restore scales down: the workers of any
\* other would keep their replicas.  Assumed where a property needs it.
KnownComponents ==
  /\ \A p \in DOMAIN Git : IsReplicas(p) => p \in DOMAIN SetForRestore(NoClaim)
  /\ \A p \in DOMAIN Managed : ~IsReplicas(p)

VARIABLES
  flux,     \* the Kustomization that owns the Milvus CR
  cr,       \* the Milvus CR
  scalers,  \* the kinds of scaler in the namespace
  workers,  \* a Milvus worker pod runs
  etcd,     \* the Helm release of etcd, its pod, its PVC and what it refers to
  temp,     \* the temporary PVC of each ID
  job,      \* the download Job of each ID
  root      \* the files under the root prefix of the root bucket

clusterVars == <<flux, cr, scalers, workers, etcd, temp, job, root>>

-----------------------------------------------------------------------------
Kinds == {"hpa", "scaledObject"}

Files == LiveFiles \cup NewFiles \cup UNION {Stored[s] \cup Image[s] : s \in Snapshots}

\* startFromSnapshot.existingClaim of the CR.
Claim == ClaimOf(cr.doc, NoClaim)

ClusterTypeOK ==
  /\ flux \in [managed     : BOOLEAN,   \* there is a Kustomization, and it is configured
               suspended   : BOOLEAN,
               reconciling : BOOLEAN,   \* a reconciliation is under way
               raced       : BOOLEAN]   \* history: one was applied while suspended
  /\ cr \in [state : {"absent", "live", "deleting"}, doc : {cr.doc}]
  /\ DOMAIN cr.doc \subseteq DOMAIN Git \cup DOMAIN Managed \cup DOMAIN SetForRestore(NoClaim)
                          \cup {StartFromSnapshot}
  /\ Claim \in Snapshots \cup {NoClaim}
  /\ scalers \in SUBSET Kinds
  /\ workers \in BOOLEAN
  /\ etcd \in [release : BOOLEAN,
               pod     : {"none", "ready", "terminating"},
               pvc     : {"absent", "bound", "deleting"},
               refs    : SUBSET Files]
  /\ temp \in [Snapshots -> {"absent", "empty", "filled", "deleting"}]
  /\ job \in [Snapshots -> {"absent", "running", "complete", "failed"}]
  /\ root \in SUBSET Files

\* A running instance, managed by Flux or not.
ClusterInit ==
  /\ flux \in [managed : BOOLEAN, suspended : {FALSE}, reconciling : {FALSE}, raced : {FALSE}]
  /\ cr = [state |-> "live", doc |-> SetFields(Git, Managed)]
  /\ scalers = Kinds
  /\ workers = TRUE
  /\ etcd = [release |-> TRUE, pod |-> "ready", pvc |-> "bound", refs |-> LiveFiles]
  /\ temp = [s \in Snapshots |-> "absent"]
  /\ job = [s \in Snapshots |-> "absent"]
  /\ root = LiveFiles

-----------------------------------------------------------------------------
(***************************************************************************)
(* Effects of the calls of internal/k8s, when the API server accepts them. *)
(***************************************************************************)
SetSuspend(value) ==
  /\ flux' = [flux EXCEPT !.suspended = value]
  /\ UNCHANGED <<cr, scalers, workers, etcd, temp, job, root>>

DeleteScalers(kind) ==
  /\ scalers' = scalers \ {kind}
  /\ UNCHANGED <<flux, cr, workers, etcd, temp, job, root>>

\* Foreground propagation: accepted at once, carried out by the collector.
DeleteMilvusCR ==
  /\ cr.state # "absent"
  /\ cr' = [cr EXCEPT !.state = "deleting"]
  /\ UNCHANGED <<flux, scalers, workers, etcd, temp, job, root>>

\* Helm waits for the StatefulSet to be gone, not for its pod.
UninstallEtcd ==
  /\ etcd.release
  /\ etcd' = [etcd EXCEPT !.release = FALSE,
                          !.pod = IF @ = "ready" THEN "terminating" ELSE @]
  /\ UNCHANGED <<flux, cr, scalers, workers, temp, job, root>>

DeleteEtcdPVCs ==
  /\ etcd' = [etcd EXCEPT !.pvc = IF @ = "bound" THEN "deleting" ELSE @]
  /\ UNCHANGED <<flux, cr, scalers, workers, temp, job, root>>

CreateTempPVC(s) ==
  /\ temp[s] = "absent"
  /\ temp' = [temp EXCEPT ![s] = "empty"]
  /\ UNCHANGED <<flux, cr, scalers, workers, etcd, job, root>>

CreateDownloadJob(s) ==
  /\ job[s] = "absent"
  /\ job' = [job EXCEPT ![s] = "running"]
  /\ UNCHANGED <<flux, cr, scalers, workers, etcd, temp, root>>

\* The API server refuses to create an object that has a resourceVersion.
CreateRestoreCR(doc) ==
  /\ cr.state = "absent"
  /\ <<"metadata", "resourceVersion">> \notin DOMAIN doc
  /\ cr' = [state |-> "live", doc |-> SetFields(doc, Managed)]
  /\ UNCHANGED <<flux, scalers, workers, etcd, temp, job, root>>

PatchCR(patch) ==
  /\ cr.state # "absent"
  /\ cr' = [cr EXCEPT !.doc = MergePatch(@, patch)]
  /\ UNCHANGED <<flux, scalers, workers, etcd, temp, job, root>>

DeleteJob(s) ==
  /\ job[s] # "absent"
  /\ job' = [job EXCEPT ![s] = "absent"]
  /\ UNCHANGED <<flux, cr, scalers, workers, etcd, temp, root>>

DeleteTempPVC(s) ==
  /\ temp[s] # "absent"
  /\ temp' = [temp EXCEPT ![s] = "deleting"]
  /\ UNCHANGED <<flux, cr, scalers, workers, etcd, job, root>>

\* DeletePrefix and CopyPrefix, see S3Transfer for what a success means.
DeleteRoot(files) ==
  /\ root' = root \ files
  /\ UNCHANGED <<flux, cr, scalers, workers, etcd, temp, job>>

CopyToRoot(files) ==
  /\ root' = root \cup files
  /\ UNCHANGED <<flux, cr, scalers, workers, etcd, temp, job>>

-----------------------------------------------------------------------------
(***************************************************************************)
(* The controllers.                                                        *)
(***************************************************************************)

\* Suspending a Kustomization keeps reconciliations from starting; one that
\* is under way still applies what is in Git.
StartReconciling ==
  /\ flux.managed /\ ~flux.suspended /\ ~flux.reconciling
  /\ flux' = [flux EXCEPT !.reconciling = TRUE]
  /\ UNCHANGED <<cr, scalers, workers, etcd, temp, job, root>>

\* Git has the worker replicas and the scalers and no startFromSnapshot, which
\* applying it may leave as it is.  An object that is being deleted is not
\* brought back.
Reconcile ==
  /\ flux.reconciling
  /\ flux' = [flux EXCEPT !.reconciling = FALSE, !.raced = @ \/ flux.suspended]
  /\ \/ /\ cr.state = "absent"
        /\ cr' = [state |-> "live", doc |-> SetFields(Git, Managed)]
     \/ /\ cr.state = "live"
        /\ \E doc \in {cr.doc, RemoveField(cr.doc, StartFromSnapshot)} :
             cr' = [cr EXCEPT !.doc = SetFields(doc, Git)]
     \/ /\ cr.state = "deleting"
        /\ UNCHANGED cr
  /\ scalers' = Kinds
  /\ UNCHANGED <<workers, etcd, temp, job, root>>

\* KEDA scales from zero; what it or the CR asks for needs etcd.
StartWorkers ==
  /\ cr.state = "live" /\ etcd.pod = "ready" /\ ~workers
  /\ Scaled(cr.doc) \/ "scaledObject" \in scalers
  /\ workers' = TRUE
  /\ UNCHANGED <<flux, cr, scalers, etcd, temp, job, root>>

StopWorkers ==
  /\ cr.state = "deleting" /\ workers
  /\ workers' = FALSE
  /\ UNCHANGED <<flux, cr, scalers, etcd, temp, job, root>>

FinishDeletion ==
  /\ cr.state = "deleting" /\ ~workers
  /\ cr' = [state |-> "absent", doc |-> NoFields]
  /\ UNCHANGED <<flux, scalers, workers, etcd, temp, job, root>>

InstallEtcd ==
  /\ cr.state = "live" /\ ~etcd.release
  /\ etcd' = [etcd EXCEPT !.release = TRUE]
  /\ UNCHANGED <<flux, cr, scalers, workers, temp, job, root>>

\* An empty data directory is filled from the snapshot, if one is claimed.  A
\* pod waits for the claims it mounts, and for one that is being deleted.
StartEtcd ==
  /\ etcd.release /\ etcd.pod = "none" /\ etcd.pvc # "deleting"
  /\ Claim # NoClaim => temp[Claim] = "filled"
  /\ etcd' = [release |-> TRUE, pod |-> "ready", pvc |-> "bound",
              refs |-> IF etcd.pvc = "bound" THEN etcd.refs
                       ELSE IF Claim = NoClaim THEN {} ELSE Image[Claim]]
  /\ UNCHANGED <<flux, cr, scalers, workers, temp, job, root>>

StopEtcd ==
  /\ etcd.pod = "terminating"
  /\ etcd' = [etcd EXCEPT !.pod = "none"]
  /\ UNCHANGED <<flux, cr, scalers, workers, temp, job, root>>

\* A claim stays as long as a pod uses it.
ReleaseEtcdPVC ==
  /\ etcd.pvc = "deleting" /\ etcd.pod = "none"
  /\ etcd' = [etcd EXCEPT !.pvc = "absent", !.refs = {}]
  /\ UNCHANGED <<flux, cr, scalers, workers, temp, job, root>>

ReleaseTempPVC(s) ==
  /\ temp[s] = "deleting"
  /\ job[s] # "running"
  /\ ~(Claim = s /\ etcd.pod = "ready")
  /\ temp' = [temp EXCEPT ![s] = "absent"]
  /\ UNCHANGED <<flux, cr, scalers, workers, etcd, job, root>>

\* `aws s3 cp` of the etcd image; it fails for an ID that has none.
CompleteJob(s) ==
  /\ job[s] = "running" /\ temp[s] = "empty" /\ s \in HasImage
  /\ job' = [job EXCEPT ![s] = "complete"]
  /\ temp' = [temp EXCEPT ![s] = "filled"]
  /\ UNCHANGED <<flux, cr, scalers, workers, etcd, root>>

FailJob(s) ==
  /\ job[s] = "running"
  /\ s \notin HasImage \/ "job" \in Faults
  /\ job' = [job EXCEPT ![s] = "failed"]
  /\ UNCHANGED <<flux, cr, scalers, workers, etcd, temp, root>>

\* A worker stores a file and, as long as etcd serves, records it there.
Write(f) ==
  /\ workers /\ f \notin root \cup etcd.refs
  /\ root' = root \cup {f}
  /\ \/ UNCHANGED etcd
     \/ etcd.pod = "ready" /\ etcd' = [etcd EXCEPT !.refs = @ \cup {f}]
  /\ UNCHANGED <<flux, cr, scalers, workers, temp, job>>

ClusterNext ==
  \/ StartReconciling \/ Reconcile \/ StartWorkers \/ StopWorkers \/ FinishDeletion
  \/ InstallEtcd \/ StartEtcd \/ StopEtcd \/ ReleaseEtcdPVC
  \/ \E s \in Snapshots : ReleaseTempPVC(s) \/ CompleteJob(s) \/ FailJob(s)
  \/ \E f \in NewFiles : Write(f)

=============================================================================
