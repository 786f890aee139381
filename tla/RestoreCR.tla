------------------------------ MODULE RestoreCR ------------------------------
(***************************************************************************)
(* The Milvus CR as a document, and what `snapshot restore` makes of it    *)
(* (buildRestoreCR and buildRevertStartFromSnapshotPatch, cmd/restore.go). *)
(*                                                                         *)
(* A document is a function from the paths of its leaves to their values;  *)
(* an object without fields is the leaf EmptyObject.  The schema of the CR *)
(* makes every field above those set here an object, so setting one never  *)
(* meets a scalar and the errors the code ignores do not arise.            *)
(***************************************************************************)
EXTENDS SequencesExt

EmptyObject == "{}"

Null == "null"

NoFields == [p \in {} |-> EmptyObject]

Below(path, doc) == {p \in DOMAIN doc : IsPrefix(path, p)}

\* One field is the other, or lies in it.
Related(p, q) == p = q \/ IsStrictPrefix(p, q) \/ IsStrictPrefix(q, p)

\* unstructured.RemoveNestedField
RemoveField(doc, path) == [p \in DOMAIN doc \ Below(path, doc) |-> doc[p]]

\* unstructured.SetNestedField, for every field of a document.
SetFields(doc, fields) ==
  LET kept == {q \in DOMAIN doc : \A f \in DOMAIN fields : ~Related(f, q)}
  IN  [p \in DOMAIN fields \cup kept |-> IF p \in DOMAIN fields THEN fields[p] ELSE doc[p]]

\* A JSON merge patch (RFC 7386): null removes a field, an object is merged
\* field by field, anything else replaces what is there.
MergePatch(doc, patch) ==
  LET removed == UNION {Below(q, doc) : q \in {p \in DOMAIN patch : patch[p] = Null}}
      merged  == {p \in DOMAIN patch : patch[p] = EmptyObject /\ Below(p, doc) \ {p} # {}}
      set     == {p \in DOMAIN patch \ merged : patch[p] # Null}
  IN  SetFields([p \in DOMAIN doc \ removed |-> doc[p]], [p \in set |-> patch[p]])

-----------------------------------------------------------------------------
InEtcd(fields) == <<"spec", "dependencies", "etcd">> \o fields

StartFromSnapshot == InEtcd(<<"inCluster", "values", "startFromSnapshot">>)

Enabled       == StartFromSnapshot \o <<"enabled">>
ExistingClaim == StartFromSnapshot \o <<"existingClaim">>

Replicas(component) == <<"spec", "components", component, "replicas">>

\* The components the code knows; a CR may have others.
Workers == {"proxy", "mixCoord", "dataNode", "queryNode", "streamingNode", "standalone"}

Stripped ==
  {<<"metadata", f>> : f \in {"resourceVersion", "uid", "creationTimestamp", "generation",
                              "finalizers", "labels"}}
  \cup {InEtcd(<<"endpoints">>), <<"status">>}

\* A path <<"metadata", "annotations", domain, name>>.
IsOperatorAnnotation(p) ==
  Len(p) = 4 /\ SubSeq(p, 1, 3) = <<"metadata", "annotations", "milvus.io">>

SetForRestore(claim) ==
  [p \in {InEtcd(<<"inCluster", "values", "replicaCount">>),
          Enabled, ExistingClaim, StartFromSnapshot \o <<"snapshotFilename">>}
         \cup {Replicas(w) : w \in Workers} |->
     CASE Last(p) = "replicaCount"     -> "1"
       [] Last(p) = "enabled"          -> "true"
       [] Last(p) = "existingClaim"    -> claim
       [] Last(p) = "snapshotFilename" -> "snapshot.db"
       [] OTHER                        -> "0"]

\* mutant: the last annotations are those of the operator
BuildWithoutAnnotations(original, claim) ==
  LET dropped == {p \in DOMAIN original :
                    \/ IsPrefix(<<"metadata", "annotations">>, p)
                    \/ \E q \in Stripped : IsPrefix(q, p)}
  IN  SetFields([p \in DOMAIN original \ dropped |-> original[p]], SetForRestore(claim))

BuildRestoreCR(original, claim) ==
  LET dropped == {p \in DOMAIN original :
                    IsOperatorAnnotation(p) \/ \E q \in Stripped : IsPrefix(q, p)}
  IN  SetFields([p \in DOMAIN original \ dropped |-> original[p]], SetForRestore(claim))

RevertPatch == [p \in {StartFromSnapshot} |-> EmptyObject]

-----------------------------------------------------------------------------
\* What the operator reads from a CR.
IsReplicas(p) ==
  Len(p) = 4 /\ SubSeq(p, 1, 2) = <<"spec", "components">> /\ p[4] = "replicas"

Scaled(doc) == \E p \in DOMAIN doc : IsReplicas(p) /\ doc[p] # "0"

\* The claim that etcd starts from, or none.
ClaimOf(doc, none) ==
  IF {Enabled, ExistingClaim} \subseteq DOMAIN doc /\ doc[Enabled] = "true"
    THEN doc[ExistingClaim]
    ELSE none

=============================================================================
