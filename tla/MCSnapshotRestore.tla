-------------------------- MODULE MCSnapshotRestore --------------------------
(***************************************************************************)
(* Instances of SnapshotRestore for TLC.                                   *)
(***************************************************************************)
EXTENDS SnapshotRestore

CONSTANTS s1, f1

\* One snapshot of one file.
OneFile == [s \in {s1} |-> {f1}]

\* A CR with something for each rule of the restore, and something for none.
Deployed ==
     (<<"metadata", "labels", "app">>               :> "a")
  @@ (<<"metadata", "annotations", "example.com", "note">> :> "b")
  @@ (Replicas("proxy")                             :> "2")
  @@ (InEtcd(<<"inCluster", "values", "replicaCount">>) :> "3")
  @@ (InEtcd(<<"inCluster", "values", "size">>)     :> "d")

ServerFields ==
     (<<"metadata", "resourceVersion">>             :> "e")
  @@ (<<"metadata", "annotations", "milvus.io", "g">> :> "g")

ASSUME DeployedIsKnown == KnownComponents

=============================================================================
