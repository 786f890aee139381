------------------------- MODULE SnapshotRestoreProofs -------------------------
(***************************************************************************)
(* Proofs about SnapshotRestore, for any snapshots, files, manifest and    *)
(* faults, and any number of restores that fail, are killed and started    *)
(* again.                                                                  *)
(***************************************************************************)
EXTENDS SnapshotRestore, SequenceTheorems, TLAPS

-----------------------------------------------------------------------------
(***************************************************************************)
(* Paths.                                                                  *)
(***************************************************************************)
Words ==
  {"spec", "dependencies", "etcd", "inCluster", "values", "startFromSnapshot", "enabled",
   "existingClaim", "snapshotFilename", "replicaCount"}

LEMMA OneWord == ASSUME NEW S, NEW a \in S  PROVE <<a>> \in Seq(S) /\ Len(<<a>>) = 1 /\ <<a>>[1] = a
  OBVIOUS

LEMMA ThreeWords ==
  ASSUME NEW S, NEW a \in S, NEW b \in S, NEW c \in S
  PROVE  <<a, b, c>> \in Seq(S) /\ Len(<<a, b, c>>) = 3 /\ <<a, b, c>>[3] = c
  OBVIOUS

\* The last word of a path that was put together.
LEMMA LastOfTwo ==
  ASSUME NEW S, NEW s \in Seq(S), NEW t \in Seq(S), Len(t) # 0
  PROVE  s \o t \in Seq(S) /\ Len(s \o t) = Len(s) + Len(t) /\ Last(s \o t) = t[Len(t)]
<1> DEFINE u == s \o t
<1>1. /\ u \in Seq(S) /\ Len(u) = Len(s) + Len(t)
      /\ \A i \in 1..Len(s) + Len(t) : u[i] = IF i <= Len(s) THEN s[i] ELSE t[i - Len(s)]
  BY ConcatProperties
<1>2. Len(s) \in Nat /\ Len(t) \in Nat
  BY LenProperties
<1> HIDE DEF u
<1>3. u[Len(u)] = t[Len(t)]
  BY <1>1, <1>2
<1> QED  BY <1>1, <1>3 DEF Last, u

LEMMA PathsInEtcd ==
  ASSUME NEW a \in Words, NEW b \in Words, NEW c \in Words
  PROVE  /\ InEtcd(<<a, b, c>>) \in Seq(Words) /\ Len(InEtcd(<<a, b, c>>)) = 6
         /\ Last(InEtcd(<<a, b, c>>)) = c
<1> DEFINE s == <<"spec", "dependencies", "etcd">>
           t == <<a, b, c>>
<1>1. /\ s \in Seq(Words) /\ Len(s) = 3
  BY ThreeWords DEF Words
<1>2. t \in Seq(Words) /\ Len(t) = 3 /\ t[3] = c
  BY ThreeWords
<1>3. InEtcd(t) = s \o t
  BY DEF InEtcd
<1> HIDE DEF s, t
<1>0. Len(t) # 0
  BY <1>2
<1>4. s \o t \in Seq(Words) /\ Len(s \o t) = Len(s) + Len(t) /\ Last(s \o t) = t[Len(t)]
  BY <1>1, <1>2, <1>0, LastOfTwo
<1>5. Len(s \o t) = 6 /\ Last(s \o t) = c
  BY <1>1, <1>2, <1>4
<1> QED  BY <1>3, <1>4, <1>5 DEF t

LEMMA SnapshotPaths ==
  /\ Len(StartFromSnapshot) = 6 /\ Last(StartFromSnapshot) = "startFromSnapshot"
  /\ \A f \in Words : Len(StartFromSnapshot \o <<f>>) = 7 /\ Last(StartFromSnapshot \o <<f>>) = f
<1>0. "inCluster" \in Words /\ "values" \in Words /\ "startFromSnapshot" \in Words
  BY DEF Words
<1>1. /\ StartFromSnapshot \in Seq(Words) /\ Len(StartFromSnapshot) = 6
      /\ Last(StartFromSnapshot) = "startFromSnapshot"
  BY <1>0, PathsInEtcd DEF StartFromSnapshot
<1> HIDE DEF StartFromSnapshot
<1>2. ASSUME NEW f \in Words
      PROVE  Len(StartFromSnapshot \o <<f>>) = 7 /\ Last(StartFromSnapshot \o <<f>>) = f
  <2> DEFINE t == <<f>>
  <2>1. t \in Seq(Words) /\ Len(t) = 1 /\ t[1] = f
    BY OneWord
  <2> HIDE DEF t
  <2>0. Len(t) # 0
    BY <2>1
  <2>2. /\ Len(StartFromSnapshot \o t) = Len(StartFromSnapshot) + Len(t)
        /\ Last(StartFromSnapshot \o t) = t[Len(t)]
    BY <1>1, <2>1, <2>0, LastOfTwo
  <2>3. Len(StartFromSnapshot \o t) = 7 /\ Last(StartFromSnapshot \o t) = f
    BY <1>1, <2>1, <2>2
  <2> QED  BY <2>3 DEF t
<1> QED  BY <1>1, <1>2

\* The fields that a restore sets.
LEMMA EnabledIs ==
  /\ Last(Enabled) = "enabled" /\ Last(ExistingClaim) = "existingClaim"
  /\ Enabled # StartFromSnapshot /\ ExistingClaim # StartFromSnapshot
  /\ ~IsReplicas(StartFromSnapshot)
<1>1. Last(Enabled) = "enabled" /\ Last(ExistingClaim) = "existingClaim"
  BY SnapshotPaths DEF Enabled, ExistingClaim, Words
<1>2. Last(StartFromSnapshot) = "startFromSnapshot" /\ Len(StartFromSnapshot) = 6
  BY SnapshotPaths
<1>3. ~IsReplicas(StartFromSnapshot)
  BY <1>2 DEF IsReplicas
<1> QED  BY <1>1, <1>2, <1>3

LEMMA SetForRestoreIs ==
  ASSUME NEW claim
  PROVE  /\ DOMAIN SetForRestore(claim) = DOMAIN SetForRestore(NoClaim)
         /\ {Enabled, ExistingClaim} \subseteq DOMAIN SetForRestore(claim)
         /\ SetForRestore(claim)[Enabled] = "true"
         /\ SetForRestore(claim)[ExistingClaim] = claim
         /\ \A p \in DOMAIN SetForRestore(claim) : IsReplicas(p) => SetForRestore(claim)[p] = "0"
<1> DEFINE paths == {InEtcd(<<"inCluster", "values", "replicaCount">>),
                     Enabled, ExistingClaim, StartFromSnapshot \o <<"snapshotFilename">>}
                    \cup {Replicas(w) : w \in Workers}
           value(p) == CASE Last(p) = "replicaCount"     -> "1"
                         [] Last(p) = "enabled"          -> "true"
                         [] Last(p) = "existingClaim"    -> claim
                         [] Last(p) = "snapshotFilename" -> "snapshot.db"
                         [] OTHER                        -> "0"
<1>1. SetForRestore(claim) = [p \in paths |-> value(p)]
  BY DEF SetForRestore
<1>2. DOMAIN SetForRestore(NoClaim) = paths
  BY DEF SetForRestore
<1>3. value(Enabled) = "true" /\ value(ExistingClaim) = claim
  BY EnabledIs
<1>4. ASSUME NEW p, IsReplicas(p)
      PROVE  value(p) = "0"
  <2>1. Last(p) = "replicas"
    BY <1>4 DEF Last, IsReplicas
  <2> QED  BY <2>1
<1>5. {Enabled, ExistingClaim} \subseteq paths
  OBVIOUS
<1> HIDE DEF paths, value
<1> QED  BY <1>1, <1>2, <1>3, <1>4, <1>5

-----------------------------------------------------------------------------
(***************************************************************************)
(* Documents: what each operation leaves of a field.                       *)
(***************************************************************************)
LEMMA RelatedIs ==
  ASSUME NEW p, NEW q
  PROVE  Related(p, p) /\ (Related(p, q) <=> Related(q, p))
  BY DEF Related

LEMMA SetFieldsIs ==
  ASSUME NEW doc, NEW fields
  PROVE  /\ DOMAIN SetFields(doc, fields) \subseteq DOMAIN fields \cup DOMAIN doc
         /\ DOMAIN fields \subseteq DOMAIN SetFields(doc, fields)
         /\ \A p \in DOMAIN fields : SetFields(doc, fields)[p] = fields[p]
         /\ \A p \in DOMAIN SetFields(doc, fields) :
              p \notin DOMAIN fields => p \in DOMAIN doc /\ SetFields(doc, fields)[p] = doc[p]
         /\ \A p \in DOMAIN doc :
              (\A f \in DOMAIN fields : ~Related(f, p)) =>
                p \in DOMAIN SetFields(doc, fields) /\ SetFields(doc, fields)[p] = doc[p]
<1> DEFINE kept == {q \in DOMAIN doc : \A f \in DOMAIN fields : ~Related(f, q)}
<1>1. SetFields(doc, fields)
        = [p \in DOMAIN fields \cup kept |-> IF p \in DOMAIN fields THEN fields[p] ELSE doc[p]]
  BY DEF SetFields
<1>2. ASSUME NEW p \in DOMAIN doc, \A f \in DOMAIN fields : ~Related(f, p)
      PROVE  p \in kept /\ p \notin DOMAIN fields
  BY <1>2, RelatedIs
<1>3. kept \subseteq DOMAIN doc
  OBVIOUS
<1> HIDE DEF kept
<1> QED  BY <1>1, <1>2, <1>3

\* What follows is about these fields of a document.
Keeps(new, doc, p) == p \in DOMAIN new /\ new[p] = doc[p]

\* A field that was deployed, and that the restore neither strips nor sets.
Deployed(p) ==
  /\ p \in DOMAIN Git
  /\ \A q \in Stripped : ~IsPrefix(q, p)
  /\ p \notin DOMAIN SetForRestore(NoClaim)

Preserved(doc) == \A p : Deployed(p) => Keeps(doc, Git, p)

KnownFields ==
  DOMAIN Git \cup DOMAIN Managed \cup DOMAIN SetForRestore(NoClaim) \cup {StartFromSnapshot}

LEMMA ClaimKept ==
  ASSUME NEW doc, NEW new, NEW none,
         \A p \in {Enabled, ExistingClaim} : p \in DOMAIN new => Keeps(doc, new, p)
  PROVE  ClaimOf(new, none) \in {ClaimOf(doc, none), none}
  BY DEF ClaimOf, Keeps

\* The CR as it was deployed.
LEMMA DeployedDocument ==
  LET doc == SetFields(Git, Managed)
  IN  DOMAIN doc \subseteq KnownFields /\ Preserved(doc) /\ ClaimOf(doc, NoClaim) = NoClaim
<1> DEFINE doc == SetFields(Git, Managed)
<1>1. DOMAIN doc \subseteq KnownFields
  BY SetFieldsIs DEF KnownFields
<1>2. ASSUME NEW p, Deployed(p)
      PROVE  Keeps(doc, Git, p)
  <2>1. p \in DOMAIN Git /\ \A f \in DOMAIN Managed : ~Related(f, p)
    BY <1>2, ManifestAssumption DEF Deployed
  <2> QED  BY <2>1, SetFieldsIs DEF Keeps
<1>3. Enabled \notin DOMAIN doc
  <2>1. Enabled \notin DOMAIN Git /\ Enabled \notin DOMAIN Managed
    BY ManifestAssumption, RelatedIs
  <2> QED  BY <2>1, SetFieldsIs
<1>4. ClaimOf(doc, NoClaim) = NoClaim
  BY <1>3 DEF ClaimOf
<1> HIDE DEF doc
<1> QED  BY <1>1, <1>2, <1>4 DEF Preserved, doc

\* What Flux makes of a CR that is there.
LEMMA AppliedDocument ==
  ASSUME NEW cluster, DOMAIN cluster \subseteq KnownFields,
         NEW doc \in {cluster, RemoveField(cluster, StartFromSnapshot)}
  PROVE  /\ DOMAIN SetFields(doc, Git) \subseteq KnownFields
         /\ Preserved(SetFields(doc, Git))
         /\ ClaimOf(SetFields(doc, Git), NoClaim) \in {ClaimOf(cluster, NoClaim), NoClaim}
<1> DEFINE new == SetFields(doc, Git)
<1>1. \A p \in DOMAIN doc : p \in DOMAIN cluster /\ doc[p] = cluster[p]
  BY DEF RemoveField
<1>2. DOMAIN new \subseteq KnownFields
  BY <1>1, SetFieldsIs DEF KnownFields
<1>3. Preserved(new)
  BY SetFieldsIs DEF Preserved, Keeps, Deployed
<1>4. ASSUME NEW p \in {Enabled, ExistingClaim}, p \in DOMAIN new
      PROVE  Keeps(cluster, new, p)
  <2>1. p \notin DOMAIN Git
    BY ManifestAssumption, RelatedIs
  <2>2. p \in DOMAIN doc /\ new[p] = doc[p]
    BY <1>4, <2>1, SetFieldsIs
  <2> QED  BY <1>1, <2>2 DEF Keeps
<1>5. ClaimOf(new, NoClaim) \in {ClaimOf(cluster, NoClaim), NoClaim}
  BY <1>4, ClaimKept
<1> QED  BY <1>2, <1>3, <1>5

\* The merge patch that empties startFromSnapshot leaves every other field as it
\* is, also when it does not empty it.
LEMMA RevertedDocument ==
  ASSUME NEW doc
  PROVE  /\ DOMAIN MergePatch(doc, RevertPatch) \subseteq DOMAIN doc \cup {StartFromSnapshot}
         /\ \A p \in DOMAIN MergePatch(doc, RevertPatch) :
              p # StartFromSnapshot => Keeps(doc, MergePatch(doc, RevertPatch), p)
         /\ \A p \in DOMAIN doc :
              ~Related(StartFromSnapshot, p) => Keeps(MergePatch(doc, RevertPatch), doc, p)
<1> DEFINE removed == UNION {Below(q, doc) : q \in {p \in DOMAIN RevertPatch : RevertPatch[p] = Null}}
           merged  == {p \in DOMAIN RevertPatch :
                         RevertPatch[p] = EmptyObject /\ Below(p, doc) \ {p} # {}}
           set     == {p \in DOMAIN RevertPatch \ merged : RevertPatch[p] # Null}
           old     == [p \in DOMAIN doc \ removed |-> doc[p]]
           fields  == [p \in set |-> RevertPatch[p]]
<1>1. MergePatch(doc, RevertPatch) = SetFields(old, fields)
  BY DEF MergePatch
<1>2. removed = {}
  BY DEF RevertPatch, EmptyObject, Null
<1>3. DOMAIN old = DOMAIN doc /\ \A p \in DOMAIN doc : old[p] = doc[p]
  BY <1>2
<1>4. DOMAIN fields \subseteq {StartFromSnapshot}
  BY DEF RevertPatch
<1> HIDE DEF old, fields
<1> QED  BY <1>1, <1>3, <1>4, SetFieldsIs DEF Keeps

\* The CR of a restore.
LEMMA RestoredDocument ==
  ASSUME NEW original, NEW claim, DOMAIN original \subseteq KnownFields, Preserved(original)
  PROVE  LET doc == SetFields(BuildRestoreCR(original, claim), Managed)
         IN  /\ DOMAIN doc \subseteq KnownFields
             /\ Preserved(doc)
             /\ ClaimOf(doc, NoClaim) = claim
             /\ \A p \in DOMAIN doc \ DOMAIN Managed :
                  p \in DOMAIN original \/ p \in DOMAIN SetForRestore(NoClaim)
             /\ \A p \in DOMAIN SetForRestore(NoClaim) : Keeps(doc, SetForRestore(claim), p)
<1> DEFINE dropped == {p \in DOMAIN original :
                         IsOperatorAnnotation(p) \/ \E q \in Stripped : IsPrefix(q, p)}
           old     == [p \in DOMAIN original \ dropped |-> original[p]]
           built   == SetFields(old, SetForRestore(claim))
           doc     == SetFields(built, Managed)
<1>1. BuildRestoreCR(original, claim) = built
  BY DEF BuildRestoreCR
<1>2. /\ DOMAIN SetForRestore(claim) = DOMAIN SetForRestore(NoClaim)
      /\ {Enabled, ExistingClaim} \subseteq DOMAIN SetForRestore(NoClaim)
      /\ SetForRestore(claim)[Enabled] = "true"
      /\ SetForRestore(claim)[ExistingClaim] = claim
  BY SetForRestoreIs
<1>3. /\ DOMAIN old \subseteq DOMAIN original
      /\ \A p \in DOMAIN original : p \notin dropped => Keeps(old, original, p)
  BY DEF Keeps
<1>4. ASSUME NEW p, Deployed(p)
      PROVE  Keeps(doc, Git, p)
  <2>1. p \in DOMAIN original /\ original[p] = Git[p]
    BY <1>4 DEF Preserved, Keeps
  <2>2. p \notin dropped
    BY <1>4, ManifestAssumption DEF Deployed
  <2>3. \A f \in DOMAIN SetForRestore(claim) : ~Related(f, p)
    BY <1>2, <1>4, ManifestAssumption, RelatedIs DEF Deployed
  <2>4. \A f \in DOMAIN Managed : ~Related(f, p)
    BY <1>4, ManifestAssumption DEF Deployed
  <2>5. p \in DOMAIN old /\ old[p] = Git[p]
    BY <2>1, <2>2, <1>3 DEF Keeps
  <2> HIDE DEF old, dropped
  <2>6. p \in DOMAIN built /\ built[p] = Git[p]
    BY <2>3, <2>5, SetFieldsIs
  <2> HIDE DEF built
  <2> QED  BY <2>4, <2>6, SetFieldsIs DEF Keeps
<1> HIDE DEF old, dropped
<1>5. ASSUME NEW p \in DOMAIN SetForRestore(NoClaim)
      PROVE  Keeps(doc, SetForRestore(claim), p)
  <2>1. p \in DOMAIN built /\ built[p] = SetForRestore(claim)[p]
    BY <1>2, SetFieldsIs
  <2>2. \A f \in DOMAIN Managed : ~Related(f, p)
    BY ManifestAssumption
  <2> HIDE DEF built
  <2> QED  BY <2>1, <2>2, SetFieldsIs DEF Keeps
<1>6. DOMAIN built \subseteq DOMAIN original \cup DOMAIN SetForRestore(NoClaim)
  BY <1>2, <1>3, SetFieldsIs
<1> HIDE DEF built
<1>7. DOMAIN doc \subseteq DOMAIN built \cup DOMAIN Managed
  BY SetFieldsIs
<1> HIDE DEF doc
<1>8. ClaimOf(doc, NoClaim) = claim
  BY <1>2, <1>5 DEF ClaimOf, Keeps
<1>9. DOMAIN doc \subseteq KnownFields
  BY <1>6, <1>7 DEF KnownFields
<1> QED  BY <1>1, <1>4, <1>5, <1>6, <1>7, <1>8, <1>9 DEF doc, Preserved

-----------------------------------------------------------------------------
(***************************************************************************)
(* Types, and the CR's document.                                           *)
(***************************************************************************)
Sound(doc) ==
  /\ DOMAIN doc \subseteq KnownFields
  /\ Preserved(doc)
  /\ ClaimOf(doc, NoClaim) \in Snapshots \cup {NoClaim}

CRIsSound ==
  /\ cr \in [state : {"absent", "live", "deleting"}, doc : {cr.doc}]
  /\ IF cr.state = "absent" THEN cr.doc = NoFields ELSE Sound(cr.doc)

OthersOK ==
  /\ flux \in [managed : BOOLEAN, suspended : BOOLEAN, reconciling : BOOLEAN, raced : BOOLEAN]
  /\ scalers \in SUBSET Kinds
  /\ workers \in BOOLEAN
  /\ etcd \in [release : BOOLEAN,
               pod     : {"none", "ready", "terminating"},
               pvc     : {"absent", "bound", "deleting"},
               refs    : SUBSET Files]
  /\ temp \in [Snapshots -> {"absent", "empty", "filled", "deleting"}]
  /\ job \in [Snapshots -> {"absent", "running", "complete", "failed"}]
  /\ root \in SUBSET Files
  /\ \A s \in Snapshots : temp[s] = "filled" => s \in HasImage

\* The calls after which the run holds the CR it found.
HoldsCR == Calls \ {"gate1", "suspend", "getCR"}

RunOK ==
  /\ run \in [pc : Calls \cup {"idle", "ended"}, id : Snapshots,
              saved : {NoFields, run.saved}, left : SUBSET Files,
              result : {"none", "ok", "error"}]
  /\ run.pc \in HoldsCR => DOMAIN run.saved \subseteq KnownFields /\ Preserved(run.saved)
  /\ runs \in 0..MaxRuns

TypeInvariant == CRIsSound /\ OthersOK /\ RunOK

LEMMA NoFieldsIs == DOMAIN NoFields = {} /\ ClaimOf(NoFields, NoClaim) = NoClaim
<1>1. DOMAIN NoFields = {}
  BY DEF NoFields
<1> QED  BY <1>1 DEF ClaimOf

LEMMA FilesAre ==
  /\ LiveFiles \subseteq Files /\ NewFiles \subseteq Files
  /\ \A s \in Snapshots : Stored[s] \subseteq Files /\ Image[s] \subseteq Files
  BY DEF Files

LEMMA TypesFollow == TypeInvariant => TypeOK /\ SpecSurvives
<1> SUFFICES ASSUME TypeInvariant  PROVE TypeOK /\ SpecSurvives
  OBVIOUS
<1>1. DOMAIN cr.doc \subseteq KnownFields /\ Claim \in Snapshots \cup {NoClaim}
  BY NoFieldsIs DEF TypeInvariant, CRIsSound, Sound, Claim
<1>2. ClusterTypeOK
  BY <1>1 DEF TypeInvariant, CRIsSound, OthersOK, ClusterTypeOK, KnownFields
<1>3. TypeOK
  BY <1>2 DEF TypeInvariant, RunOK, TypeOK
<1>4. SpecSurvives
  BY DEF TypeInvariant, CRIsSound, Sound, SpecSurvives, Preserved, Deployed, Keeps
<1> QED  BY <1>3, <1>4

\* What a step may do to the cluster.
Effects ==
  \/ UNCHANGED clusterVars
  \/ \E value \in BOOLEAN : SetSuspend(value)
  \/ \E kind \in Kinds : DeleteScalers(kind)
  \/ DeleteMilvusCR \/ UninstallEtcd \/ DeleteEtcdPVCs
  \/ \E s \in Snapshots : \/ CreateTempPVC(s) \/ CreateDownloadJob(s) \/ DeleteJob(s)
                          \/ DeleteTempPVC(s)
                          \/ \E files \in SUBSET Stored[s] : CopyToRoot(files)
  \/ run.pc = "createCR" /\ CreateRestoreCR(BuildRestoreCR(run.saved, run.id))
  \/ PatchCR(RevertPatch)
  \/ run.pc = "deleteS3" /\ \E files : DeleteRoot(files)
  \/ ClusterNext

LEMMA EffectOfStep == TypeInvariant /\ [Next]_vars => Effects
<1> SUFFICES ASSUME TypeInvariant, [Next]_vars  PROVE Effects
  OBVIOUS
<1>1. run.id \in Snapshots
  BY DEF TypeInvariant, RunOK
<1>2. CASE CallFails
  BY <1>1, <1>2 DEF CallFails, Effects, Kinds
<1>3. CASE Crash
  BY <1>3 DEF Crash, Effects
<1>4. CASE Environment
  BY <1>4 DEF Environment, Effects, ResumeByHand, CleanByHand
<1>5. CASE Start
  BY <1>5 DEF Start, Effects
<1>6. CASE Refused \/ TimesOut \/ Gate1 \/ GetMilvusCR \/ Gate2 \/ WaitForPodsTerminated
           \/ WaitForJobComplete \/ WaitForStatefulSetReady
  BY <1>6 DEF Refused, TimesOut, Gate1, GetMilvusCR, Gate2, WaitForPodsTerminated,
              WaitForJobComplete, WaitForStatefulSetReady, Effects
<1>7. CASE SuspendFlux \/ ResumeFlux
  BY <1>7 DEF SuspendFlux, ResumeFlux, Effects
<1>8. CASE DeleteHPAs \/ DeleteScaledObjects
  BY <1>8 DEF DeleteHPAs, DeleteScaledObjects, Effects, Kinds
<1>9. CASE DeleteCR \/ DeleteEtcdRelease \/ DeletePVCs \/ DeletePrefix
  BY <1>9 DEF DeleteCR, DeleteEtcdRelease, DeletePVCs, DeletePrefix, Effects
<1>10. CASE CopyPrefix \/ CreatePVC \/ CreateJob
  BY <1>1, <1>10 DEF CopyPrefix, CreatePVC, CreateJob, Effects
<1>11. CASE CreateMilvusCR \/ PatchMilvusCR
  BY <1>11 DEF CreateMilvusCR, PatchMilvusCR, Effects
<1>12. CASE CleanJob \/ CleanPVC
  BY <1>1, <1>12 DEF CleanJob, CleanPVC, Effects
<1>13. CASE UNCHANGED vars
  BY <1>13 DEF vars, Effects
<1> QED
  BY <1>2, <1>3, <1>4, <1>5, <1>6, <1>7, <1>8, <1>9, <1>10, <1>11, <1>12, <1>13
  DEF Next, Step

\* The documents the CR goes through.
LEMMA CRStays == TypeInvariant /\ Effects => CRIsSound'
<1> SUFFICES ASSUME TypeInvariant, Effects  PROVE CRIsSound'
  OBVIOUS
<1>1. /\ cr \in [state : {"absent", "live", "deleting"}, doc : {cr.doc}]
      /\ IF cr.state = "absent" THEN cr.doc = NoFields ELSE Sound(cr.doc)
  BY DEF TypeInvariant, CRIsSound
<1>2. CASE UNCHANGED cr
  BY <1>1, <1>2 DEF CRIsSound
<1>3. ASSUME NEW doc, Sound(doc), cr' = [state |-> "live", doc |-> doc]
      PROVE  CRIsSound'
  BY <1>3 DEF CRIsSound
<1>4. ASSUME NEW doc, Sound(doc), cr.state # "absent", cr' = [cr EXCEPT !.doc = doc]
      PROVE  CRIsSound'
  BY <1>1, <1>4 DEF CRIsSound
<1>5. CASE DeleteMilvusCR
  BY <1>1, <1>5 DEF DeleteMilvusCR, CRIsSound
<1>6. CASE run.pc = "createCR" /\ CreateRestoreCR(BuildRestoreCR(run.saved, run.id))
  <2>1. DOMAIN run.saved \subseteq KnownFields /\ Preserved(run.saved) /\ run.id \in Snapshots
    BY <1>6 DEF TypeInvariant, RunOK, HoldsCR, Calls
  <2>2. Sound(SetFields(BuildRestoreCR(run.saved, run.id), Managed))
    BY <2>1, RestoredDocument DEF Sound
  <2> QED  BY <1>3, <1>6, <2>2 DEF CreateRestoreCR
<1>7. CASE PatchCR(RevertPatch)
  <2> DEFINE new == MergePatch(cr.doc, RevertPatch)
  <2>1. cr.state # "absent" /\ cr' = [cr EXCEPT !.doc = new] /\ Sound(cr.doc)
    BY <1>1, <1>7 DEF PatchCR
  <2>2. DOMAIN new \subseteq KnownFields
    BY <2>1, RevertedDocument DEF Sound, KnownFields
  <2>3. Preserved(new)
    <3> SUFFICES ASSUME NEW p, Deployed(p)  PROVE Keeps(new, Git, p)
      BY DEF Preserved
    <3>1. ~Related(StartFromSnapshot, p)
      BY ManifestAssumption, RelatedIs DEF Deployed
    <3>2. Keeps(cr.doc, Git, p)
      BY <2>1 DEF Sound, Preserved
    <3>3. Keeps(new, cr.doc, p)
      BY <3>1, <3>2, RevertedDocument DEF Keeps
    <3> QED  BY <3>2, <3>3 DEF Keeps
  <2>4. ClaimOf(new, NoClaim) \in {ClaimOf(cr.doc, NoClaim), NoClaim}
    BY RevertedDocument, EnabledIs, ClaimKept
  <2> QED  BY <1>4, <2>1, <2>2, <2>3, <2>4 DEF Sound
<1>8. CASE Reconcile
  <2>1. CASE cr' = [state |-> "live", doc |-> SetFields(Git, Managed)]
    <3>1. Sound(SetFields(Git, Managed))
      BY DeployedDocument DEF Sound
    <3> QED  BY <1>3, <2>1, <3>1
  <2>2. ASSUME cr.state = "live",
               NEW doc \in {cr.doc, RemoveField(cr.doc, StartFromSnapshot)},
               cr' = [cr EXCEPT !.doc = SetFields(doc, Git)]
        PROVE  CRIsSound'
    <3>1. Sound(cr.doc)
      BY <1>1, <2>2
    <3>2. Sound(SetFields(doc, Git))
      BY <2>2, <3>1, AppliedDocument DEF Sound
    <3> QED  BY <1>4, <2>2, <3>2
  <2> QED  BY <1>2, <1>8, <2>1, <2>2 DEF Reconcile
<1>9. CASE FinishDeletion
  BY <1>9 DEF FinishDeletion, CRIsSound
<1>10. CASE ClusterNext
  <2>1. ClusterNext => Reconcile \/ FinishDeletion \/ UNCHANGED cr
    BY DEF ClusterNext, StartReconciling, StartWorkers, StopWorkers, InstallEtcd, StartEtcd,
           StopEtcd, ReleaseEtcdPVC, ReleaseTempPVC, CompleteJob, FailJob, Write
  <2> QED  BY <1>2, <1>8, <1>9, <1>10, <2>1
<1>11. Effects => \/ UNCHANGED cr \/ DeleteMilvusCR \/ PatchCR(RevertPatch) \/ ClusterNext
                  \/ run.pc = "createCR" /\ CreateRestoreCR(BuildRestoreCR(run.saved, run.id))
  BY DEF Effects, clusterVars, SetSuspend, DeleteScalers, UninstallEtcd, DeleteEtcdPVCs,
         CreateTempPVC, CreateDownloadJob, DeleteJob, DeleteTempPVC, CopyToRoot, DeleteRoot
<1> QED  BY <1>2, <1>5, <1>6, <1>7, <1>10, <1>11

LEMMA OthersStay == TypeInvariant /\ Effects => OthersOK'
<1> SUFFICES ASSUME TypeInvariant, Effects  PROVE OthersOK'
  OBVIOUS
<1>1. OthersOK
  BY DEF TypeInvariant
<1>2. CASE UNCHANGED clusterVars
  BY <1>1, <1>2 DEF OthersOK, clusterVars
<1>3. CASE \E value \in BOOLEAN : SetSuspend(value)
  BY <1>1, <1>3 DEF OthersOK, SetSuspend
<1>4. CASE \E kind \in Kinds : DeleteScalers(kind)
  BY <1>1, <1>4 DEF OthersOK, DeleteScalers
<1>5. CASE DeleteMilvusCR
  BY <1>1, <1>5 DEF OthersOK, DeleteMilvusCR
<1>6. CASE UninstallEtcd
  BY <1>1, <1>6 DEF OthersOK, UninstallEtcd
<1>7. CASE DeleteEtcdPVCs
  BY <1>1, <1>7 DEF OthersOK, DeleteEtcdPVCs
<1>8. ASSUME NEW s \in Snapshots, CreateTempPVC(s) \/ DeleteTempPVC(s)
      PROVE  OthersOK'
  BY <1>1, <1>8 DEF OthersOK, CreateTempPVC, DeleteTempPVC
<1>9. ASSUME NEW s \in Snapshots, CreateDownloadJob(s) \/ DeleteJob(s)
      PROVE  OthersOK'
  BY <1>1, <1>9 DEF OthersOK, CreateDownloadJob, DeleteJob
<1>10. ASSUME NEW s \in Snapshots, NEW files \in SUBSET Stored[s], CopyToRoot(files)
       PROVE  OthersOK'
  BY <1>1, <1>10, FilesAre DEF OthersOK, CopyToRoot
<1>11. CASE CreateRestoreCR(BuildRestoreCR(run.saved, run.id))
  BY <1>1, <1>11 DEF OthersOK, CreateRestoreCR
<1>12. CASE PatchCR(RevertPatch)
  BY <1>1, <1>12 DEF OthersOK, PatchCR
<1>13. ASSUME NEW files, DeleteRoot(files)
       PROVE  OthersOK'
  BY <1>1, <1>13 DEF OthersOK, DeleteRoot
<1>14. CASE ClusterNext
  <2>1. CASE StartReconciling
    BY <1>1, <2>1 DEF OthersOK, StartReconciling
  <2>2. CASE Reconcile
    BY <1>1, <2>2 DEF OthersOK, Reconcile
  <2>3. CASE StartWorkers \/ StopWorkers
    BY <1>1, <2>3 DEF OthersOK, StartWorkers, StopWorkers
  <2>4. CASE FinishDeletion
    BY <1>1, <2>4 DEF OthersOK, FinishDeletion
  <2>5. CASE InstallEtcd \/ StopEtcd \/ ReleaseEtcdPVC
    BY <1>1, <2>5 DEF OthersOK, InstallEtcd, StopEtcd, ReleaseEtcdPVC
  <2>6. CASE StartEtcd
    <3>1. Claim \in Snapshots \cup {NoClaim}
      BY TypesFollow DEF TypeOK, ClusterTypeOK
    <3> DEFINE refs == IF etcd.pvc = "bound" THEN etcd.refs
                       ELSE IF Claim = NoClaim THEN {} ELSE Image[Claim]
    <3>2. refs \subseteq Files
      BY <1>1, <3>1, FilesAre DEF OthersOK
    <3>3. /\ etcd' = [release |-> TRUE, pod |-> "ready", pvc |-> "bound", refs |-> refs]
          /\ UNCHANGED <<flux, scalers, workers, temp, job, root>>
      BY <2>6 DEF StartEtcd
    <3> HIDE DEF refs
    <3> QED  BY <1>1, <3>2, <3>3 DEF OthersOK
  <2>7. ASSUME NEW s \in Snapshots, ReleaseTempPVC(s) \/ CompleteJob(s) \/ FailJob(s)
        PROVE  OthersOK'
    BY <1>1, <2>7 DEF OthersOK, ReleaseTempPVC, CompleteJob, FailJob
  <2>8. ASSUME NEW f \in NewFiles, Write(f)
        PROVE  OthersOK'
    BY <1>1, <2>8, FilesAre DEF OthersOK, Write
  <2> QED
    BY <1>14, <2>1, <2>2, <2>3, <2>4, <2>5, <2>6, <2>7, <2>8 DEF ClusterNext
<1> QED
  BY <1>2, <1>3, <1>4, <1>5, <1>6, <1>7, <1>8, <1>9, <1>10, <1>11, <1>12, <1>13, <1>14
  DEF Effects

\* What a step may do to the run.
LEMMA RunStays == TypeInvariant /\ [Next]_vars => RunOK'
<1> SUFFICES ASSUME TypeInvariant, [Next]_vars  PROVE RunOK'
  OBVIOUS
<1>0. RunOK /\ CRIsSound
  BY DEF TypeInvariant
<1>1. CASE UNCHANGED <<run, runs>>
  BY <1>0, <1>1 DEF RunOK
<1>12. CASE DeletePrefix
  <2>1. PICK left \in SUBSET root : run' = [run EXCEPT !.pc = "copyS3", !.left = left]
    BY <1>12 DEF DeletePrefix
  <2>2. left \in SUBSET Files
    BY DEF TypeInvariant, OthersOK
  <2>3. run.pc \in HoldsCR /\ UNCHANGED runs
    BY <1>12 DEF DeletePrefix, HoldsCR, Calls
  <2> QED  BY <1>0, <2>1, <2>2, <2>3 DEF RunOK, Calls
<1>2. ASSUME NEW result \in {"ok", "error"}, Return(result)
      PROVE  RunOK'
  BY <1>0, <1>2 DEF RunOK, Return, HoldsCR, Calls
<1>3. ASSUME NEW call \in Calls, GoTo(call), call \in HoldsCR => run.pc \in HoldsCR
      PROVE  RunOK'
  BY <1>0, <1>3 DEF RunOK, GoTo
<1>4. CASE Start
  BY <1>0, <1>4, RestoreAssumption DEF RunOK, Start, HoldsCR, Calls
<1>5. CASE GetMilvusCR
  <2>1. CASE cr.state = "absent"
    BY <1>2, <1>5, <2>1 DEF GetMilvusCR
  <2>2. CASE cr.state # "absent"
    <3>1. DOMAIN cr.doc \subseteq KnownFields /\ Preserved(cr.doc)
      BY <1>0, <2>2 DEF CRIsSound, Sound
    <3>2. run' = [run EXCEPT !.pc = "gate2", !.saved = cr.doc] /\ UNCHANGED runs
      BY <1>5, <2>2 DEF GetMilvusCR
    <3> QED  BY <1>0, <3>1, <3>2 DEF RunOK, Calls
  <2> QED  BY <2>1, <2>2
<1>6. CASE Gate1 \/ SuspendFlux
  BY <1>2, <1>3, <1>6 DEF Gate1, SuspendFlux, HoldsCR, Calls
<1>7. CASE Gate2 \/ DeleteHPAs \/ DeleteScaledObjects \/ DeleteCR \/ DeleteEtcdRelease
           \/ DeletePVCs \/ WaitForPodsTerminated \/ CopyPrefix
  BY <1>2, <1>3, <1>7 DEF Gate2, DeleteHPAs, DeleteScaledObjects, DeleteCR, DeleteEtcdRelease,
     DeletePVCs, WaitForPodsTerminated, CopyPrefix, HoldsCR, Calls
<1>8. CASE CreatePVC \/ CreateJob \/ WaitForJobComplete \/ CreateMilvusCR
           \/ WaitForStatefulSetReady \/ PatchMilvusCR \/ ResumeFlux \/ CleanJob
  BY <1>2, <1>3, <1>8 DEF CreatePVC, CreateJob, WaitForJobComplete, CreateMilvusCR,
     WaitForStatefulSetReady, PatchMilvusCR, ResumeFlux, CleanJob, HoldsCR, Calls
<1>9. CASE CleanPVC \/ Refused \/ TimesOut \/ CallFails \/ Crash
  BY <1>2, <1>9 DEF CleanPVC, Refused, TimesOut, CallFails, Crash
<1>10. CASE Environment
  BY <1>1, <1>10 DEF Environment, ResumeByHand, CleanByHand
<1>11. CASE UNCHANGED vars
  BY <1>1, <1>11 DEF vars
<1> QED
  BY <1>4, <1>5, <1>6, <1>7, <1>8, <1>9, <1>10, <1>11, <1>12 DEF Next, Step

LEMMA TypesInitially == Init => TypeInvariant
<1> SUFFICES ASSUME Init  PROVE TypeInvariant
  OBVIOUS
<1>1. CRIsSound
  <2>1. Sound(SetFields(Git, Managed))
    BY DeployedDocument DEF Sound
  <2> QED  BY <2>1 DEF Init, ClusterInit, CRIsSound
<1>2. OthersOK
  BY FilesAre DEF Init, ClusterInit, OthersOK, Kinds
<1>3. RunOK
  BY RestoreAssumption DEF Init, RunOK, HoldsCR, Calls
<1> QED  BY <1>1, <1>2, <1>3 DEF TypeInvariant

LEMMA TypesStay == TypeInvariant /\ [Next]_vars => TypeInvariant'
<1> SUFFICES ASSUME TypeInvariant, [Next]_vars  PROVE TypeInvariant'
  OBVIOUS
<1>1. Effects
  BY EffectOfStep
<1> QED  BY <1>1, CRStays, OthersStay, RunStays DEF TypeInvariant

LEMMA TypesAlways == Spec => []TypeInvariant
  BY TypesInitially, TypesStay, PTL DEF Spec

\* The types of the state, and that a CR only ever has the fields that were
\* deployed, that the server and the operator add, or that the restore sets.
THEOREM RestoreTypes == Spec => []TypeOK
<1>1. TypeInvariant => TypeOK
  BY TypesFollow
<1> QED  BY <1>1, TypesAlways, PTL

\* Whatever fails and is started again, a CR that is there has every field
\* that was deployed, but for those the restore strips or sets.
THEOREM EveryRestorePreservesTheSpec == Spec => []SpecSurvives
<1>1. TypeInvariant => SpecSurvives
  BY TypesFollow
<1> QED  BY <1>1, TypesAlways, PTL

-----------------------------------------------------------------------------
(***************************************************************************)
(* What etcd names is in the bucket.                                       *)
(*                                                                         *)
(* Between the calls of a run the cluster moves on by itself, so what the  *)
(* property needs must be true of every stage a run may be left at.        *)
(***************************************************************************)

\* A run that got past the first gate has suspended Flux, unless there is none.
Held == Calls \ {"gate1", "suspend", "cleanJob", "cleanPVC"}

FluxIsHeld ==
  /\ ~flux.managed => ~flux.reconciling
  /\ run.pc \in Held => (flux.managed => flux.suspended)

\* The stages of a run from which on there is no CR, no etcd, no claim of etcd,
\* and that follow the copy of the data.
Gone    == {"uninstall", "pvcs", "waitPods", "deleteS3", "copyS3", "tempPVC", "createJob",
            "waitJob", "createCR"}
NoEtcd  == Gone \ {"uninstall"}
NoData  == NoEtcd \ {"pvcs"}
Copied  == {"tempPVC", "createJob", "waitJob", "createCR"}

StagesHold ==
  /\ run.pc \in Gone => cr.state # "live"
  /\ run.pc \in NoEtcd => ~etcd.release /\ etcd.pod # "ready"
  /\ run.pc \in NoData => etcd.pvc # "bound"
  /\ run.pc \in Copied => Stored[run.id] \subseteq root

\* Also of the snapshot an etcd that is yet to start will be filled from.
FilesAreThere ==
  /\ etcd.pod = "ready" \/ etcd.pvc = "bound" => etcd.refs \subseteq root
  /\ Claim # NoClaim /\ (cr.state = "live" \/ etcd.release) => Stored[Claim] \subseteq root

ServesInvariant ==
  /\ TypeInvariant
  /\ FluxIsHeld
  /\ ~flux.raced => StagesHold /\ FilesAreThere

LEMMA RacedStays == TypeInvariant /\ Effects /\ flux.raced => flux.raced'
<1> SUFFICES ASSUME TypeInvariant, Effects, flux.raced  PROVE flux.raced'
  OBVIOUS
<1>1. flux \in [managed : BOOLEAN, suspended : BOOLEAN, reconciling : BOOLEAN, raced : BOOLEAN]
  BY DEF TypeInvariant, OthersOK
<1>2. \/ UNCHANGED flux
      \/ \E value \in BOOLEAN : SetSuspend(value)
      \/ StartReconciling \/ Reconcile
  BY DEF Effects, clusterVars, DeleteScalers, DeleteMilvusCR, UninstallEtcd, DeleteEtcdPVCs,
         CreateTempPVC, CreateDownloadJob, DeleteJob, DeleteTempPVC, CopyToRoot, DeleteRoot,
         CreateRestoreCR, PatchCR, ClusterNext, StartWorkers, StopWorkers, FinishDeletion,
         InstallEtcd, StartEtcd, StopEtcd, ReleaseEtcdPVC, ReleaseTempPVC, CompleteJob, FailJob,
         Write
<1> QED  BY <1>1, <1>2 DEF SetSuspend, StartReconciling, Reconcile

LEMMA ClaimChanges ==
  TypeInvariant /\ Effects =>
    \/ Claim' \in {Claim, NoClaim}
    \/ /\ run.pc = "createCR" /\ Claim' = run.id
       /\ UNCHANGED <<flux, scalers, workers, etcd, temp, job, root>>
<1> SUFFICES ASSUME TypeInvariant, Effects
             PROVE  \/ Claim' \in {Claim, NoClaim}
                    \/ /\ run.pc = "createCR" /\ Claim' = run.id
                       /\ UNCHANGED <<flux, scalers, workers, etcd, temp, job, root>>
  OBVIOUS
<1>1. CASE UNCHANGED cr
  BY <1>1 DEF Claim
<1>2. CASE DeleteMilvusCR
  <2>1. cr'.doc = cr.doc
    BY <1>2 DEF DeleteMilvusCR, TypeInvariant, CRIsSound
  <2> QED  BY <2>1 DEF Claim
<1>3. CASE run.pc = "createCR" /\ CreateRestoreCR(BuildRestoreCR(run.saved, run.id))
  <2> DEFINE doc == SetFields(BuildRestoreCR(run.saved, run.id), Managed)
  <2>1. DOMAIN run.saved \subseteq KnownFields /\ Preserved(run.saved)
    BY <1>3 DEF TypeInvariant, RunOK, HoldsCR, Calls
  <2>2. ClaimOf(doc, NoClaim) = run.id
    BY <2>1, RestoredDocument
  <2>3. cr'.doc = doc
    BY <1>3 DEF CreateRestoreCR
  <2> HIDE DEF doc
  <2> QED  BY <1>3, <2>2, <2>3 DEF Claim, CreateRestoreCR
<1>4. CASE PatchCR(RevertPatch)
  <2>1. cr'.doc = MergePatch(cr.doc, RevertPatch)
    BY <1>4 DEF PatchCR, TypeInvariant, CRIsSound
  <2>2. ClaimOf(MergePatch(cr.doc, RevertPatch), NoClaim) \in {ClaimOf(cr.doc, NoClaim), NoClaim}
    BY RevertedDocument, EnabledIs, ClaimKept
  <2> QED  BY <2>1, <2>2 DEF Claim
<1>5. CASE Reconcile
  <2>1. CASE cr' = [state |-> "live", doc |-> SetFields(Git, Managed)]
    <3>1. cr'.doc = SetFields(Git, Managed)
      BY <2>1
    <3> QED  BY <3>1, DeployedDocument DEF Claim
  <2>2. ASSUME cr.state = "live",
               NEW doc \in {cr.doc, RemoveField(cr.doc, StartFromSnapshot)},
               cr' = [cr EXCEPT !.doc = SetFields(doc, Git)]
        PROVE  Claim' \in {Claim, NoClaim}
    <3>1. DOMAIN cr.doc \subseteq KnownFields
      BY <2>2 DEF TypeInvariant, CRIsSound, Sound
    <3>2. cr'.doc = SetFields(doc, Git)
      BY <2>2 DEF TypeInvariant, CRIsSound
    <3>3. ClaimOf(SetFields(doc, Git), NoClaim) \in {ClaimOf(cr.doc, NoClaim), NoClaim}
      BY <2>2, <3>1, AppliedDocument
    <3> QED  BY <3>2, <3>3 DEF Claim
  <2> QED  BY <1>1, <1>5, <2>1, <2>2 DEF Reconcile
<1>6. CASE FinishDeletion
  <2>1. cr'.doc = NoFields
    BY <1>6 DEF FinishDeletion
  <2> QED  BY <2>1, NoFieldsIs DEF Claim
<1>7. \/ UNCHANGED cr \/ DeleteMilvusCR \/ PatchCR(RevertPatch) \/ Reconcile \/ FinishDeletion
      \/ run.pc = "createCR" /\ CreateRestoreCR(BuildRestoreCR(run.saved, run.id))
  BY DEF Effects, clusterVars, SetSuspend, DeleteScalers, UninstallEtcd, DeleteEtcdPVCs,
         CreateTempPVC, CreateDownloadJob, DeleteJob, DeleteTempPVC, CopyToRoot, DeleteRoot,
         ClusterNext, StartReconciling, StartWorkers, StopWorkers, InstallEtcd, StartEtcd,
         StopEtcd, ReleaseEtcdPVC, ReleaseTempPVC, CompleteJob, FailJob, Write
<1> QED  BY <1>1, <1>2, <1>3, <1>4, <1>5, <1>6, <1>7

\* Two conditions under which the files stay where they are needed.
LEMMA ClaimedStay ==
  ASSUME TypeInvariant, FilesAreThere, Claim' \in {Claim, NoClaim}, root \subseteq root',
         cr'.state = "live" => cr.state # "deleting",
         etcd'.release => etcd.release \/ cr.state = "live"
  PROVE  Claim' # NoClaim /\ (cr'.state = "live" \/ etcd'.release) => Stored[Claim'] \subseteq root'
<1>1. cr.state \in {"absent", "live", "deleting"} /\ (cr.state = "absent" => Claim = NoClaim)
  BY NoFieldsIs DEF TypeInvariant, CRIsSound, Claim
<1>2. Claim # NoClaim /\ (cr.state = "live" \/ etcd.release) => Stored[Claim] \subseteq root
  BY DEF FilesAreThere
<1> QED  BY <1>1, <1>2

LEMMA ServedStay ==
  ASSUME FilesAreThere, etcd' = etcd, root \subseteq root'
  PROVE  etcd'.pod = "ready" \/ etcd'.pvc = "bound" => etcd'.refs \subseteq root'
  BY DEF FilesAreThere

LEMMA FilesStay == TypeInvariant /\ StagesHold /\ FilesAreThere /\ Effects => FilesAreThere'
<1> SUFFICES ASSUME TypeInvariant, StagesHold, FilesAreThere, Effects  PROVE FilesAreThere'
  OBVIOUS
<1> DEFINE Served  == etcd'.pod = "ready" \/ etcd'.pvc = "bound" => etcd'.refs \subseteq root'
           Claimed == Claim' # NoClaim /\ (cr'.state = "live" \/ etcd'.release)
                        => Stored[Claim'] \subseteq root'
<1>1. SUFFICES Served /\ Claimed
  BY DEF FilesAreThere
<1>2. /\ etcd \in [release : BOOLEAN, pod : {"none", "ready", "terminating"},
                   pvc : {"absent", "bound", "deleting"}, refs : SUBSET Files]
      /\ cr \in [state : {"absent", "live", "deleting"}, doc : {cr.doc}]
      /\ run.id \in Snapshots
  BY DEF TypeInvariant, OthersOK, CRIsSound, RunOK
<1>3. etcd.pod = "ready" \/ etcd.pvc = "bound" => etcd.refs \subseteq root
  BY DEF FilesAreThere
<1>4. ASSUME run.pc = "createCR", Claim' = run.id,
             UNCHANGED <<flux, scalers, workers, etcd, temp, job, root>>
      PROVE  Served /\ Claimed
  BY <1>3, <1>4 DEF StagesHold, Copied
<1>5. SUFFICES ASSUME Claim' \in {Claim, NoClaim}  PROVE Served /\ Claimed
  BY <1>4, ClaimChanges
<1>6. ASSUME etcd' = etcd, root \subseteq root', cr'.state = "live" => cr.state # "deleting"
      PROVE  Served /\ Claimed
  BY <1>5, <1>6, ServedStay, ClaimedStay
<1>7. CASE UNCHANGED <<cr, etcd, root>>
  BY <1>6, <1>7
<1>8. CASE DeleteMilvusCR
  BY <1>2, <1>6, <1>8 DEF DeleteMilvusCR
<1>9. CASE CreateRestoreCR(BuildRestoreCR(run.saved, run.id))
  BY <1>6, <1>9 DEF CreateRestoreCR
<1>10. CASE PatchCR(RevertPatch)
  BY <1>2, <1>6, <1>10 DEF PatchCR
<1>11. ASSUME NEW files, CopyToRoot(files)
       PROVE  Served /\ Claimed
  BY <1>6, <1>11 DEF CopyToRoot
<1>12. ASSUME run.pc = "deleteS3", NEW files, DeleteRoot(files)
       PROVE  Served /\ Claimed
  BY <1>12 DEF DeleteRoot, StagesHold, Gone, NoEtcd, NoData
<1>13. CASE UninstallEtcd
  <2>1. /\ ~etcd'.release /\ cr' = cr /\ root' = root
        /\ etcd'.refs = etcd.refs /\ etcd'.pod # "ready" /\ etcd'.pvc = etcd.pvc
    BY <1>2, <1>13 DEF UninstallEtcd
  <2>2. Claimed
    BY <2>1, <1>5, ClaimedStay
  <2>3. Served
    BY <2>1, <1>3
  <2> QED  BY <2>2, <2>3
<1>14. CASE DeleteEtcdPVCs
  <2>1. /\ etcd'.release = etcd.release /\ cr' = cr /\ root' = root
        /\ etcd'.refs = etcd.refs /\ etcd'.pod = etcd.pod /\ etcd'.pvc # "bound"
    BY <1>2, <1>14 DEF DeleteEtcdPVCs
  <2>2. Claimed
    BY <2>1, <1>2, <1>5, ClaimedStay
  <2>3. Served
    BY <2>1, <1>3
  <2> QED  BY <2>2, <2>3
<1>15. CASE ClusterNext
  <2>1. CASE Reconcile
    BY <1>2, <1>6, <2>1 DEF Reconcile
  <2>2. CASE FinishDeletion
    BY <1>6, <2>2 DEF FinishDeletion
  <2>3. CASE InstallEtcd
    <3>1. /\ cr.state = "live" /\ cr' = cr /\ root' = root
          /\ etcd'.refs = etcd.refs /\ etcd'.pod = etcd.pod /\ etcd'.pvc = etcd.pvc
      BY <1>2, <2>3 DEF InstallEtcd
    <3>2. Claimed
      BY <3>1, <1>5, ClaimedStay
    <3> QED  BY <1>3, <3>1, <3>2
  <2>4. CASE StartEtcd
    <3>1. /\ etcd.release /\ etcd'.release /\ cr' = cr /\ root' = root
          /\ Claim # NoClaim => temp[Claim] = "filled"
          /\ etcd'.refs = IF etcd.pvc = "bound" THEN etcd.refs
                          ELSE IF Claim = NoClaim THEN {} ELSE Image[Claim]
      BY <2>4 DEF StartEtcd
    <3>2. Claimed
      BY <3>1, <1>5, ClaimedStay
    <3>3. ASSUME Claim # NoClaim
          PROVE  Image[Claim] \subseteq root
      <4>1. Claim \in HasImage
        BY <3>1, <3>3, TypesFollow DEF TypeInvariant, OthersOK, TypeOK, ClusterTypeOK
      <4>2. Stored[Claim] \subseteq root
        BY <3>1, <3>3 DEF FilesAreThere
      <4> QED  BY <4>1, <4>2, WholeSnapshots
    <3>4. etcd'.refs \subseteq root
      BY <1>3, <3>1, <3>3
    <3> QED  BY <3>1, <3>2, <3>4
  <2>5. CASE StopEtcd
    <3>1. /\ etcd'.release = etcd.release /\ cr' = cr /\ root' = root
          /\ etcd'.refs = etcd.refs /\ etcd'.pod # "ready" /\ etcd'.pvc = etcd.pvc
      BY <1>2, <2>5 DEF StopEtcd
    <3>2. Claimed
      BY <1>2, <3>1, <1>5, ClaimedStay
    <3> QED  BY <1>3, <3>1, <3>2
  <2>6. CASE ReleaseEtcdPVC
    <3>1. /\ etcd'.release = etcd.release /\ cr' = cr /\ root' = root
          /\ etcd'.refs = {}
      BY <1>2, <2>6 DEF ReleaseEtcdPVC
    <3>2. Claimed
      BY <1>2, <3>1, <1>5, ClaimedStay
    <3> QED  BY <3>1, <3>2
  <2>7. ASSUME NEW f \in NewFiles, Write(f)
        PROVE  Served /\ Claimed
    <3>1. /\ etcd'.release = etcd.release /\ cr' = cr /\ root' = root \cup {f}
          /\ etcd'.refs \subseteq etcd.refs \cup {f}
          /\ etcd'.pod = etcd.pod /\ etcd'.pvc = etcd.pvc
      BY <1>2, <2>7 DEF Write
    <3>2. Claimed
      BY <1>2, <3>1, <1>5, ClaimedStay
    <3> QED  BY <1>3, <3>1, <3>2
  <2>8. CASE UNCHANGED <<cr, etcd, root>>
    BY <1>7, <2>8
  <2> QED
    BY <1>15, <2>1, <2>2, <2>3, <2>4, <2>5, <2>6, <2>7, <2>8
    DEF ClusterNext, StartReconciling, StartWorkers, StopWorkers, ReleaseTempPVC, CompleteJob,
        FailJob
<1> QED
  BY <1>7, <1>8, <1>9, <1>10, <1>11, <1>12, <1>13, <1>14, <1>15
  DEF Effects, clusterVars, SetSuspend, DeleteScalers, CreateTempPVC, CreateDownloadJob,
      DeleteJob, DeleteTempPVC

\* Flux stays suspended, and what it applied before is known to have raced.
LEMMA FluxStays ==
  TypeInvariant /\ FluxIsHeld /\ [Next]_vars =>
    /\ FluxIsHeld'
    /\ Reconcile /\ run.pc \in Held => flux'.raced
<1> SUFFICES ASSUME TypeInvariant, FluxIsHeld, [Next]_vars
             PROVE  FluxIsHeld' /\ (Reconcile /\ run.pc \in Held => flux'.raced)
  OBVIOUS
<1>1. /\ flux \in [managed : BOOLEAN, suspended : BOOLEAN, reconciling : BOOLEAN, raced : BOOLEAN]
      /\ run \in [pc : Calls \cup {"idle", "ended"}, id : Snapshots,
                  saved : {NoFields, run.saved}, left : SUBSET Files,
                  result : {"none", "ok", "error"}]
  BY DEF TypeInvariant, OthersOK, RunOK
<1>2. Reconcile /\ run.pc \in Held => flux'.raced
  BY <1>1 DEF FluxIsHeld, Reconcile
<1> SUFFICES FluxIsHeld'
  BY <1>2
<1>3. CASE run'.pc \notin Held
  <2>1. UNCHANGED flux \/ (\E value \in BOOLEAN : SetSuspend(value)) \/ StartReconciling \/ Reconcile
    BY EffectOfStep DEF Effects, clusterVars, DeleteScalers, DeleteMilvusCR, UninstallEtcd, DeleteEtcdPVCs,
         CreateTempPVC, CreateDownloadJob, DeleteJob, DeleteTempPVC, CopyToRoot, DeleteRoot,
         CreateRestoreCR, PatchCR, ClusterNext, StartWorkers, StopWorkers, FinishDeletion,
         InstallEtcd, StartEtcd, StopEtcd, ReleaseEtcdPVC, ReleaseTempPVC, CompleteJob, FailJob,
         Write
  <2> QED
    BY <1>1, <1>3, <2>1 DEF FluxIsHeld, SetSuspend, StartReconciling, Reconcile
<1>4. CASE run'.pc \in Held
  <2>1. CASE Gate1
    <3>1. /\ UNCHANGED flux
          /\ run'.pc = (IF flux.managed THEN "suspend" ELSE "getCR") \/ run'.pc = "ended"
      BY <1>1, <2>1 DEF Gate1, GoTo, Return, clusterVars
    <3> QED  BY <1>1, <1>4, <3>1 DEF Held, Calls, FluxIsHeld
  <2>2. CASE SuspendFlux
    BY <1>1, <1>4, <2>2 DEF SuspendFlux, GoTo, SetSuspend, Held, Calls, FluxIsHeld
  <2>3. (~flux.managed => ~flux.reconciling) /\ (run.pc \in Held /\ flux.managed => flux.suspended)
    BY DEF FluxIsHeld
  <2>4. CASE Environment
    <3>1. UNCHANGED run /\ Active
      BY <1>4, <2>4 DEF Environment, ResumeByHand, CleanByHand, Active, Held
    <3>2. ClusterNext
      BY <2>4, <3>1 DEF Environment, ResumeByHand, CleanByHand
    <3>3. UNCHANGED flux \/ StartReconciling \/ Reconcile
      BY <3>2 DEF ClusterNext, StartWorkers, StopWorkers, FinishDeletion,
         InstallEtcd, StartEtcd, StopEtcd, ReleaseEtcdPVC, ReleaseTempPVC, CompleteJob, FailJob,
         Write
    <3> QED
      BY <1>1, <1>4, <3>1, <3>3 DEF FluxIsHeld, StartReconciling, Reconcile
  <2>6. CASE \/ GetMilvusCR \/ Gate2 \/ DeleteHPAs \/ DeleteScaledObjects \/ DeleteCR
             \/ DeleteEtcdRelease \/ DeletePVCs \/ WaitForPodsTerminated
    <3>1. run.pc \in Held /\ flux' = flux
      BY <2>6 DEF GetMilvusCR, Gate2, DeleteHPAs, DeleteScaledObjects, DeleteCR, DeleteEtcdRelease,
         DeletePVCs, WaitForPodsTerminated, Held, Calls, clusterVars, DeleteScalers,
         DeleteMilvusCR, UninstallEtcd, DeleteEtcdPVCs
    <3> QED  BY <2>3, <3>1 DEF FluxIsHeld
  <2>7. CASE \/ DeletePrefix \/ CopyPrefix \/ CreatePVC \/ CreateJob \/ WaitForJobComplete
             \/ CreateMilvusCR \/ WaitForStatefulSetReady \/ PatchMilvusCR
    <3>1. run.pc \in Held /\ flux' = flux
      BY <2>7 DEF DeletePrefix, CopyPrefix, CreatePVC, CreateJob, WaitForJobComplete,
         CreateMilvusCR, WaitForStatefulSetReady, PatchMilvusCR, Held, Calls, clusterVars,
         DeleteRoot, CopyToRoot, CreateTempPVC, CreateDownloadJob, CreateRestoreCR, PatchCR
    <3> QED  BY <2>3, <3>1 DEF FluxIsHeld
  <2>8. CASE UNCHANGED vars
    <3>1. run.pc \in Held /\ flux' = flux
      BY <1>4, <2>8 DEF vars, clusterVars
    <3> QED  BY <2>3, <3>1 DEF FluxIsHeld
  <2>9. CASE Start \/ ResumeFlux \/ CleanJob
    <3>1. Start => run'.pc = "gate1"
      BY DEF Start
    <3>2. (ResumeFlux => run'.pc = "cleanJob") /\ (CleanJob => run'.pc = "cleanPVC")
      BY <1>1 DEF ResumeFlux, CleanJob, GoTo
    <3> QED  BY <1>4, <2>9, <3>1, <3>2 DEF Held, Calls
  <2>5. CASE CleanPVC \/ Refused \/ TimesOut \/ CallFails \/ Crash
    <3>1. run'.pc = "ended"
      BY <1>1, <2>5 DEF CleanPVC, Refused, TimesOut, CallFails, Crash, Return
    <3> QED  BY <1>4, <3>1 DEF Held, Calls
  <2> QED
    BY <2>1, <2>2, <2>4, <2>5, <2>6, <2>7, <2>8, <2>9 DEF Next, Step
<1> QED  BY <1>3, <1>4

\* Each call of a run ends a stage; nothing that happens meanwhile undoes it.
LEMMA StagesStay ==
  TypeInvariant /\ FluxIsHeld /\ StagesHold /\ [Next]_vars /\ ~flux'.raced => StagesHold'
<1> SUFFICES ASSUME TypeInvariant, FluxIsHeld, StagesHold, [Next]_vars, ~flux'.raced
             PROVE  StagesHold'
  OBVIOUS
<1>1. /\ etcd \in [release : BOOLEAN, pod : {"none", "ready", "terminating"},
                   pvc : {"absent", "bound", "deleting"}, refs : SUBSET Files]
      /\ cr \in [state : {"absent", "live", "deleting"}, doc : {cr.doc}]
      /\ run \in [pc : Calls \cup {"idle", "ended"}, id : Snapshots,
                  saved : {NoFields, run.saved}, left : SUBSET Files,
                  result : {"none", "ok", "error"}]
  BY DEF TypeInvariant, OthersOK, CRIsSound, RunOK
<1>2. /\ run.pc \in Gone => cr.state # "live"
      /\ run.pc \in NoEtcd => ~etcd.release /\ etcd.pod # "ready"
      /\ run.pc \in NoData => etcd.pvc # "bound"
      /\ run.pc \in Copied => Stored[run.id] \subseteq root
  BY DEF StagesHold
<1>3. CASE run'.pc \notin Gone
  BY <1>3 DEF StagesHold, Gone, NoEtcd, NoData, Copied
<1>4. CASE UNCHANGED <<run, cr, etcd, root>>
  BY <1>2, <1>4 DEF StagesHold
<1>5. CASE DeleteCR
  BY <1>1, <1>5 DEF DeleteCR, DeleteMilvusCR, GoTo, StagesHold, Gone, NoEtcd, NoData, Copied
<1>6. CASE DeleteEtcdRelease
  BY <1>1, <1>2, <1>6
  DEF DeleteEtcdRelease, UninstallEtcd, GoTo, StagesHold, Gone, NoEtcd, NoData, Copied
<1>7. CASE DeletePVCs
  BY <1>1, <1>2, <1>7
  DEF DeletePVCs, DeleteEtcdPVCs, GoTo, StagesHold, Gone, NoEtcd, NoData, Copied
<1>8. CASE WaitForPodsTerminated \/ DeletePrefix
  BY <1>1, <1>2, <1>8
  DEF WaitForPodsTerminated, DeletePrefix, DeleteRoot, clusterVars, GoTo, StagesHold, Gone,
      NoEtcd, NoData, Copied
<1>9. CASE CopyPrefix
  BY <1>1, <1>2, <1>9
  DEF CopyPrefix, CopyToRoot, GoTo, StagesHold, Gone, NoEtcd, NoData, Copied
<1>10. CASE CreatePVC \/ CreateJob
  BY <1>1, <1>2, <1>10
  DEF CreatePVC, CreateTempPVC, CreateJob, CreateDownloadJob, GoTo, StagesHold, Gone, NoEtcd,
      NoData, Copied
<1>11. CASE WaitForJobComplete
  <2>1. CASE Return("error")
    BY <1>1, <1>3, <2>1 DEF Return, Gone
  <2>2. CASE GoTo("createCR")
    BY <1>1, <1>2, <1>11, <2>2
    DEF WaitForJobComplete, clusterVars, GoTo, StagesHold, Gone, NoEtcd, NoData, Copied
  <2> QED  BY <1>11, <2>1, <2>2 DEF WaitForJobComplete
<1>12. CASE Environment
  <2>1. SUFFICES ASSUME run'.pc \in Gone  PROVE StagesHold'
    BY <1>3
  <2>2. UNCHANGED run /\ ClusterNext /\ run.pc \in Gone
    BY <1>12, <2>1 DEF Environment, ResumeByHand, CleanByHand, Active, Gone, Calls
  <2>3. cr.state # "live"
    BY <1>2, <2>2
  <2>4. ~Reconcile
    BY <2>2, FluxStays DEF Gone, Held, Calls
  <2>5. CASE FinishDeletion
    BY <1>2, <2>2, <2>5 DEF FinishDeletion, StagesHold
  <2>6. CASE InstallEtcd \/ StartWorkers
    BY <2>3, <2>6 DEF InstallEtcd, StartWorkers
  <2>7. CASE StartEtcd
    BY <1>2, <2>2, <2>7 DEF StartEtcd, StagesHold, NoEtcd, NoData, Copied, Gone
  <2>8. CASE StopEtcd
    BY <1>1, <1>2, <2>2, <2>8 DEF StopEtcd, StagesHold
  <2>9. CASE ReleaseEtcdPVC
    BY <1>1, <1>2, <2>2, <2>9 DEF ReleaseEtcdPVC, StagesHold
  <2>10. ASSUME NEW f \in NewFiles, Write(f)
         PROVE  StagesHold'
    <3>1. /\ cr' = cr /\ run' = run /\ root \subseteq root'
          /\ etcd'.release = etcd.release /\ etcd'.pod = etcd.pod /\ etcd'.pvc = etcd.pvc
      BY <1>1, <2>2, <2>10 DEF Write
    <3> QED  BY <1>2, <3>1 DEF StagesHold
  <2> QED
    BY <1>4, <2>2, <2>4, <2>5, <2>6, <2>7, <2>8, <2>9, <2>10
    DEF ClusterNext, StartReconciling, StopWorkers, ReleaseTempPVC, CompleteJob, FailJob
<1>13. CASE Start \/ Gate1 \/ SuspendFlux \/ GetMilvusCR \/ Gate2
  <2>1. Start => run'.pc = "gate1"
    BY DEF Start
  <2>2. Gate1 \/ SuspendFlux => run'.pc \in {"suspend", "getCR", "ended"}
    BY <1>1 DEF Gate1, SuspendFlux, GoTo, Return
  <2>3. GetMilvusCR => run'.pc \in {"gate2", "ended"}
    BY <1>1 DEF GetMilvusCR, Return
  <2>4. Gate2 => run'.pc \in {"hpas", "ended"}
    BY <1>1 DEF Gate2, GoTo, Return
  <2> QED  BY <1>3, <1>13, <2>1, <2>2, <2>3, <2>4 DEF Gone
<1>14. CASE DeleteHPAs \/ DeleteScaledObjects \/ CreateMilvusCR \/ WaitForStatefulSetReady
  <2>1. run'.pc \in {"scaledObjects", "deleteCR", "waitEtcd", "revert"}
    BY <1>1, <1>14 DEF DeleteHPAs, DeleteScaledObjects, CreateMilvusCR, WaitForStatefulSetReady,
       GoTo
  <2> QED  BY <1>3, <2>1 DEF Gone
<1>15. CASE PatchMilvusCR \/ ResumeFlux \/ CleanJob
  <2>1. run'.pc \in {"resume", "cleanJob", "cleanPVC"}
    BY <1>1, <1>15 DEF PatchMilvusCR, ResumeFlux, CleanJob, GoTo
  <2> QED  BY <1>3, <2>1 DEF Gone
<1>16. CASE CleanPVC \/ Refused \/ TimesOut \/ CallFails \/ Crash
  <2>1. run'.pc = "ended"
    BY <1>1, <1>16 DEF CleanPVC, Refused, TimesOut, CallFails, Crash, Return
  <2> QED  BY <1>3, <2>1 DEF Gone
<1>17. CASE UNCHANGED vars
  BY <1>4, <1>17 DEF vars, clusterVars
<1> QED
  BY <1>5, <1>6, <1>7, <1>8, <1>9, <1>10, <1>11, <1>12, <1>13, <1>14, <1>15, <1>16, <1>17
  DEF Next, Step

LEMMA ServesInitially == Init => ServesInvariant
<1> SUFFICES ASSUME Init  PROVE ServesInvariant
  OBVIOUS
<1>1. TypeInvariant
  BY TypesInitially
<1>2. FluxIsHeld
  BY DEF Init, ClusterInit, FluxIsHeld, Held, Calls
<1>3. StagesHold
  BY DEF Init, StagesHold, Gone, NoEtcd, NoData, Copied
<1>4. FilesAreThere
  <2>1. cr.doc = SetFields(Git, Managed)
    BY DEF Init, ClusterInit
  <2>2. Claim = NoClaim
    BY <2>1, DeployedDocument DEF Claim
  <2> QED  BY <2>2 DEF Init, ClusterInit, FilesAreThere
<1> QED  BY <1>1, <1>2, <1>3, <1>4 DEF ServesInvariant

LEMMA ServesStays == ServesInvariant /\ [Next]_vars => ServesInvariant'
<1> SUFFICES ASSUME ServesInvariant, [Next]_vars  PROVE ServesInvariant'
  OBVIOUS
<1>1. TypeInvariant /\ FluxIsHeld /\ Effects
  BY EffectOfStep DEF ServesInvariant
<1>2. TypeInvariant' /\ FluxIsHeld'
  BY <1>1, TypesStay, FluxStays
<1>3. ASSUME ~flux'.raced
      PROVE  StagesHold' /\ FilesAreThere'
  <2>1. StagesHold /\ FilesAreThere
    BY <1>1, <1>3, RacedStays DEF ServesInvariant
  <2> QED  BY <1>1, <1>3, <2>1, StagesStay, FilesStay
<1> QED  BY <1>2, <1>3 DEF ServesInvariant

LEMMA ServesAlways == Spec => []ServesInvariant
  BY ServesInitially, ServesStays, PTL DEF Spec

\* Whatever fails, is killed and started again: workers never serve an etcd
\* that names a file the bucket does not hold.
THEOREM EtcdNamesWhatIsThere == Spec => []ServesWhatEtcdNames
<1>1. ServesInvariant => ServesWhatEtcdNames
  BY DEF ServesInvariant, FilesAreThere, ServesWhatEtcdNames
<1> QED  BY <1>1, ServesAlways, PTL

-----------------------------------------------------------------------------
(***************************************************************************)
(* Nothing runs while the data is replaced, and what comes up is the       *)
(* snapshot.                                                               *)
(***************************************************************************)

\* The stages of a run in which etcd is back; in which no scaler is left; in
\* which no worker runs; in which the bucket holds the snapshot.
Up       == {"waitEtcd", "revert", "resume"}
NoScaler == {"deleteCR"} \cup Gone \cup Up
Quiet    == {"deleteS3", "copyS3"} \cup Copied \cup Up
Replaced == Copied \cup Up

NothingRuns ==
  /\ run.pc \in NoScaler => "scaledObject" \notin scalers
  /\ run.pc \in Quiet => ~workers
  /\ run.pc = "copyS3" => root = run.left
  /\ run.pc \in Replaced => root = Stored[run.id] \cup run.left

\* The etcd that is up, or the one that is yet to start.
EtcdIsRestored ==
  /\ run.pc \in Up => cr.state = "live" /\ ~Scaled(cr.doc)
  /\ run.pc = "waitEtcd" =>
       /\ Claim = run.id
       /\ etcd.pod = "ready" => etcd.refs = Image[run.id]
       /\ etcd.pod # "ready" => etcd.pvc # "bound"
  /\ run.pc \in {"revert", "resume"} => etcd.pod = "ready" /\ etcd.refs = Image[run.id]

RestoreInvariant ==
  /\ ServesInvariant
  /\ ~flux.raced => NothingRuns /\ EtcdIsRestored

LEMMA PhasesAre ==
  /\ Gone \subseteq Held /\ Up \subseteq Held /\ "deleteCR" \in Held
  /\ Quiet \subseteq NoScaler /\ Replaced \subseteq Quiet /\ Up \subseteq Replaced
  /\ Quiet \subseteq Gone \cup Up /\ "copyS3" \in Quiet
  /\ Up \cap Gone = {}
  BY DEF Gone, Held, Calls, Up, NoScaler, Quiet, Replaced, Copied

\* No component of a CR that the restore built is scaled up.
LEMMA RestoredIsScaledDown ==
  ASSUME KnownComponents, NEW original, NEW claim,
         DOMAIN original \subseteq KnownFields, Preserved(original)
  PROVE  ~Scaled(SetFields(BuildRestoreCR(original, claim), Managed))
<1> DEFINE doc == SetFields(BuildRestoreCR(original, claim), Managed)
<1>1. /\ \A p \in DOMAIN doc \ DOMAIN Managed :
           p \in DOMAIN original \/ p \in DOMAIN SetForRestore(NoClaim)
      /\ \A p \in DOMAIN SetForRestore(NoClaim) : Keeps(doc, SetForRestore(claim), p)
  BY RestoredDocument
<1> HIDE DEF doc
<1>2. ASSUME NEW p \in DOMAIN doc, IsReplicas(p)
      PROVE  doc[p] = "0"
  <2>1. p \notin DOMAIN Managed /\ p # StartFromSnapshot
    BY <1>2, EnabledIs DEF KnownComponents
  <2>2. p \in DOMAIN SetForRestore(NoClaim)
    BY <1>1, <1>2, <2>1 DEF KnownComponents, KnownFields
  <2>3. doc[p] = SetForRestore(claim)[p]
    BY <1>1, <2>2 DEF Keeps
  <2>4. p \in DOMAIN SetForRestore(claim)
    BY <2>2, SetForRestoreIs
  <2> QED  BY <1>2, <2>3, <2>4, SetForRestoreIs
<1> QED  BY <1>2 DEF Scaled, doc

LEMMA RevertedIsScaledDown ==
  ASSUME NEW doc, ~Scaled(doc)
  PROVE  ~Scaled(MergePatch(doc, RevertPatch))
<1> DEFINE new == MergePatch(doc, RevertPatch)
<1>1. \A p \in DOMAIN new : p # StartFromSnapshot => p \in DOMAIN doc /\ new[p] = doc[p]
  BY RevertedDocument DEF Keeps
<1> HIDE DEF new
<1>2. \A p \in DOMAIN new : IsReplicas(p) => new[p] = "0"
  BY <1>1, EnabledIs DEF Scaled
<1> QED  BY <1>2 DEF Scaled, new

\* The controllers, while a run replaces the data.
LEMMA ClusterKeepsQuiet ==
  TypeInvariant /\ FluxIsHeld /\ StagesHold /\ NothingRuns /\ EtcdIsRestored
    /\ run.pc \in NoScaler /\ ClusterNext /\ UNCHANGED <<run, runs>> /\ ~flux'.raced
  => NothingRuns' /\ EtcdIsRestored'
<1> SUFFICES ASSUME TypeInvariant, FluxIsHeld, StagesHold, NothingRuns, EtcdIsRestored,
                    run.pc \in NoScaler, ClusterNext, UNCHANGED <<run, runs>>, ~flux'.raced
             PROVE  NothingRuns' /\ EtcdIsRestored'
  OBVIOUS
<1>1. /\ etcd \in [release : BOOLEAN, pod : {"none", "ready", "terminating"},
                   pvc : {"absent", "bound", "deleting"}, refs : SUBSET Files]
      /\ cr \in [state : {"absent", "live", "deleting"}, doc : {cr.doc}]
      /\ run.id \in Snapshots /\ run.id # NoClaim
  BY ClusterAssumption DEF TypeInvariant, OthersOK, CRIsSound, RunOK
<1>2. run' = run /\ run.pc \in NoScaler /\ "scaledObject" \notin scalers
  BY DEF NothingRuns
<1>3. /\ run.pc \in Quiet => ~workers
      /\ run.pc = "copyS3" => root = run.left
      /\ run.pc \in Replaced => root = Stored[run.id] \cup run.left
  BY DEF NothingRuns
<1>4. /\ run.pc \in Up => cr.state = "live" /\ ~Scaled(cr.doc)
      /\ run.pc = "waitEtcd" =>
           /\ Claim = run.id
           /\ etcd.pod = "ready" => etcd.refs = Image[run.id]
           /\ etcd.pod # "ready" => etcd.pvc # "bound"
      /\ run.pc \in {"revert", "resume"} => etcd.pod = "ready" /\ etcd.refs = Image[run.id]
  BY DEF EtcdIsRestored
<1>5. ASSUME scalers' = scalers, workers' => workers, root' = root
      PROVE  NothingRuns'
  BY <1>2, <1>3, <1>5 DEF NothingRuns
<1>6. ASSUME cr' = cr, etcd' = etcd
      PROVE  EtcdIsRestored'
  BY <1>2, <1>4, <1>6 DEF EtcdIsRestored, Claim
<1>7. ASSUME cr' = cr, run.pc = "waitEtcd" =>
                         /\ etcd'.pod = "ready" => etcd'.refs = Image[run.id]
                         /\ etcd'.pod # "ready" => etcd'.pvc # "bound",
             run.pc \in {"revert", "resume"} => etcd'.pod = "ready" /\ etcd'.refs = Image[run.id]
      PROVE  EtcdIsRestored'
  <2>1. Claim' = Claim
    BY <1>7 DEF Claim
  <2> QED  BY <1>2, <1>4, <1>7, <2>1 DEF EtcdIsRestored
<1>8. ~Reconcile
  BY <1>2, FluxStays, PhasesAre DEF NoScaler, Next, Environment
<1>9. CASE StartReconciling
  BY <1>5, <1>6, <1>9 DEF StartReconciling
<1>10. CASE StartWorkers
  <2>1. cr.state = "live" /\ Scaled(cr.doc) /\ UNCHANGED <<cr, scalers, etcd, root>>
    BY <1>2, <1>10 DEF StartWorkers
  <2>2. run.pc \notin Quiet
    BY <1>4, <2>1, PhasesAre DEF StagesHold
  <2>3. NothingRuns'
    BY <1>2, <2>1, <2>2, PhasesAre DEF NothingRuns
  <2> QED  BY <1>6, <2>1, <2>3
<1>11. CASE StopWorkers
  BY <1>5, <1>6, <1>11 DEF StopWorkers
<1>12. CASE FinishDeletion
  <2>1. run.pc \notin Up
    BY <1>4, <1>12 DEF FinishDeletion
  <2>2. EtcdIsRestored'
    BY <1>2, <2>1 DEF EtcdIsRestored, Up
  <2> QED  BY <1>5, <1>12, <2>2 DEF FinishDeletion
<1>13. CASE InstallEtcd
  <2>1. /\ cr' = cr /\ UNCHANGED <<scalers, workers, root>>
        /\ etcd'.pod = etcd.pod /\ etcd'.pvc = etcd.pvc /\ etcd'.refs = etcd.refs
    BY <1>1, <1>13 DEF InstallEtcd
  <2> QED  BY <1>4, <1>5, <1>7, <2>1
<1>14. CASE StartEtcd
  <2>1. /\ cr' = cr /\ UNCHANGED <<scalers, workers, root>>
        /\ etcd.pod = "none" /\ etcd'.pod = "ready"
        /\ etcd'.refs = IF etcd.pvc = "bound" THEN etcd.refs
                        ELSE IF Claim = NoClaim THEN {} ELSE Image[Claim]
    BY <1>14 DEF StartEtcd
  <2>2. run.pc \notin {"revert", "resume"}
    BY <1>4, <2>1
  <2>3. run.pc = "waitEtcd" => etcd'.refs = Image[run.id]
    BY <1>1, <1>4, <2>1
  <2> QED  BY <1>5, <1>7, <2>1, <2>2, <2>3
<1>15. CASE StopEtcd \/ ReleaseEtcdPVC
  <2>1. /\ cr' = cr /\ UNCHANGED <<scalers, workers, root>>
        /\ etcd.pod # "ready" /\ etcd'.pod # "ready"
        /\ etcd'.pvc = "bound" => etcd.pvc = "bound"
    BY <1>1, <1>15 DEF StopEtcd, ReleaseEtcdPVC
  <2>2. run.pc \notin {"revert", "resume"}
    BY <1>4, <2>1
  <2> QED  BY <1>4, <1>5, <1>7, <2>1, <2>2
<1>16. ASSUME NEW f \in NewFiles, Write(f)
       PROVE  NothingRuns' /\ EtcdIsRestored'
  <2>1. run.pc \notin Quiet /\ UNCHANGED <<cr, scalers, workers>>
    BY <1>3, <1>16 DEF Write
  <2>2. NothingRuns'
    BY <1>2, <2>1, PhasesAre DEF NothingRuns
  <2>3. EtcdIsRestored'
    BY <1>2, <2>1, PhasesAre DEF EtcdIsRestored, Up
  <2> QED  BY <2>2, <2>3
<1>17. ASSUME NEW s \in Snapshots, ReleaseTempPVC(s) \/ CompleteJob(s) \/ FailJob(s)
       PROVE  NothingRuns' /\ EtcdIsRestored'
  BY <1>5, <1>6, <1>17 DEF ReleaseTempPVC, CompleteJob, FailJob
<1> QED
  BY <1>8, <1>9, <1>10, <1>11, <1>12, <1>13, <1>14, <1>15, <1>16, <1>17 DEF ClusterNext

\* The calls of a run, while it replaces the data.
LEMMA RunKeepsQuiet ==
  ASSUME KnownComponents
  PROVE  TypeInvariant /\ FluxIsHeld /\ StagesHold /\ NothingRuns /\ EtcdIsRestored
           /\ [Next]_vars /\ ~flux'.raced
         => NothingRuns' /\ EtcdIsRestored'
<1> SUFFICES ASSUME TypeInvariant, FluxIsHeld, StagesHold, NothingRuns, EtcdIsRestored,
                    [Next]_vars, ~flux'.raced
             PROVE  NothingRuns' /\ EtcdIsRestored'
  OBVIOUS
<1>1. /\ etcd \in [release : BOOLEAN, pod : {"none", "ready", "terminating"},
                   pvc : {"absent", "bound", "deleting"}, refs : SUBSET Files]
      /\ cr \in [state : {"absent", "live", "deleting"}, doc : {cr.doc}]
      /\ run \in [pc : Calls \cup {"idle", "ended"}, id : Snapshots,
                  saved : {NoFields, run.saved}, left : SUBSET Files,
                  result : {"none", "ok", "error"}]
  BY DEF TypeInvariant, OthersOK, CRIsSound, RunOK
<1>2. CASE run'.pc \notin NoScaler
  <2>1. run'.pc \notin Quiet /\ run'.pc \notin Replaced /\ run'.pc \notin Up
    BY <1>2, PhasesAre
  <2>2. NothingRuns'
    BY <1>2, <2>1, PhasesAre DEF NothingRuns
  <2>3. EtcdIsRestored'
    BY <2>1 DEF EtcdIsRestored, Up
  <2> QED  BY <2>2, <2>3
<1>3. ASSUME run'.pc \notin Up, run'.pc \in NoScaler => "scaledObject" \notin scalers',
             run'.pc \in Quiet => ~workers', run'.pc = "copyS3" => root' = run'.left,
             run'.pc \in Replaced => root' = Stored[run'.id] \cup run'.left
      PROVE  NothingRuns' /\ EtcdIsRestored'
  BY <1>3 DEF NothingRuns, EtcdIsRestored, Up
<1>4. CASE DeleteScaledObjects
  <2>1. run'.pc = "deleteCR" /\ "scaledObject" \notin scalers'
    BY <1>1, <1>4 DEF DeleteScaledObjects, DeleteScalers, GoTo
  <2> QED  BY <1>3, <2>1 DEF Up, Quiet, Replaced, Copied
<1>5. CASE DeleteCR \/ DeleteEtcdRelease \/ DeletePVCs
  <2>1. run.pc \in NoScaler /\ run'.pc \in {"uninstall", "pvcs", "waitPods"} /\ UNCHANGED scalers
    BY <1>1, <1>5 DEF DeleteCR, DeleteMilvusCR, DeleteEtcdRelease, UninstallEtcd, DeletePVCs,
       DeleteEtcdPVCs, GoTo, NoScaler, Gone
  <2>2. "scaledObject" \notin scalers'
    BY <2>1 DEF NothingRuns
  <2> QED  BY <1>3, <2>1, <2>2 DEF Up, Quiet, Replaced, Copied
<1>6. CASE WaitForPodsTerminated
  <2>1. /\ run.pc \in NoScaler /\ run'.pc = "deleteS3" /\ ~workers
        /\ UNCHANGED <<scalers, workers>>
    BY <1>1, <1>6 DEF WaitForPodsTerminated, clusterVars, GoTo, NoScaler, Gone
  <2>2. "scaledObject" \notin scalers' /\ ~workers'
    BY <2>1 DEF NothingRuns
  <2> QED  BY <1>3, <2>1, <2>2 DEF Up, Replaced, Copied
<1>7. CASE DeletePrefix
  <2>1. /\ run.pc \in Quiet /\ run'.pc = "copyS3" /\ root' = run'.left
        /\ UNCHANGED <<scalers, workers>>
    <3>1. PICK left \in SUBSET root : /\ DeleteRoot(root \ left)
                                     /\ run' = [run EXCEPT !.pc = "copyS3", !.left = left]
      BY <1>7 DEF DeletePrefix
    <3>2. run'.pc = "copyS3" /\ run'.left = left
      BY <1>1, <3>1
    <3>3. root' = left /\ UNCHANGED <<scalers, workers>>
      BY <3>1 DEF DeleteRoot
    <3>4. run.pc \in Quiet
      BY <1>7 DEF DeletePrefix, Quiet
    <3> QED  BY <3>2, <3>3, <3>4
  <2>2. "scaledObject" \notin scalers' /\ ~workers'
    BY <2>1, PhasesAre DEF NothingRuns
  <2> QED  BY <1>3, <2>1, <2>2 DEF Up, Replaced, Copied
<1>8. CASE CopyPrefix
  <2>1. /\ run.pc = "copyS3" /\ run'.pc = "tempPVC" /\ run'.id = run.id /\ run'.left = run.left
        /\ root' = root \cup Stored[run.id] /\ UNCHANGED <<scalers, workers>>
    BY <1>1, <1>8 DEF CopyPrefix, CopyToRoot, GoTo
  <2>2. "scaledObject" \notin scalers' /\ ~workers' /\ root' = Stored[run.id] \cup run.left
    BY <2>1, PhasesAre DEF NothingRuns
  <2> QED  BY <1>3, <2>1, <2>2 DEF Up
<1>9. CASE CreatePVC \/ CreateJob \/ WaitForJobComplete
  <2>1. /\ run.pc \in Copied /\ run'.pc \in {"createJob", "waitJob", "createCR", "ended"}
        /\ run'.id = run.id /\ (run'.pc # "ended" => run'.left = run.left)
    <3>1. CASE CreatePVC \/ CreateJob
      BY <1>1, <3>1 DEF CreatePVC, CreateJob, GoTo, Copied
    <3>2. CASE WaitForJobComplete
      BY <1>1, <3>2 DEF WaitForJobComplete, GoTo, Return, Copied
    <3> QED  BY <1>9, <3>1, <3>2
  <2>2. UNCHANGED <<scalers, workers, root>>
    BY <1>9 DEF CreatePVC, CreateTempPVC, CreateJob, CreateDownloadJob, WaitForJobComplete,
       clusterVars
  <2>3. "scaledObject" \notin scalers' /\ ~workers' /\ root' = Stored[run.id] \cup run.left
    BY <2>1, <2>2, PhasesAre DEF NothingRuns, Replaced
  <2>4. run'.pc \in Replaced => run'.left = run.left
    BY <2>1 DEF Replaced, Copied, Up
  <2>5. run'.pc \notin Up /\ run'.pc # "copyS3"
    BY <2>1 DEF Up
  <2> QED  BY <1>3, <2>1, <2>3, <2>4, <2>5
<1>10. CASE CreateMilvusCR
  <2>1. /\ run.pc = "createCR" /\ run'.pc = "waitEtcd" /\ run'.id = run.id /\ run'.left = run.left
        /\ cr' = [state |-> "live",
                  doc |-> SetFields(BuildRestoreCR(run.saved, run.id), Managed)]
        /\ UNCHANGED <<scalers, workers, etcd, root>>
    BY <1>1, <1>10 DEF CreateMilvusCR, CreateRestoreCR, GoTo
  <2>2. "scaledObject" \notin scalers' /\ ~workers' /\ root' = Stored[run.id] \cup run.left
    BY <2>1, PhasesAre DEF NothingRuns, Replaced, Copied
  <2>3. etcd'.pod # "ready" /\ etcd'.pvc # "bound"
    BY <2>1 DEF StagesHold, Gone, NoEtcd, NoData
  <2>4. DOMAIN run.saved \subseteq KnownFields /\ Preserved(run.saved)
    BY <2>1 DEF TypeInvariant, RunOK, HoldsCR, Calls
  <2> DEFINE doc == SetFields(BuildRestoreCR(run.saved, run.id), Managed)
  <2>5. ClaimOf(doc, NoClaim) = run.id /\ ~Scaled(doc)
    BY <2>4, RestoredDocument, RestoredIsScaledDown
  <2>6. cr'.state = "live" /\ cr'.doc = doc
    BY <2>1
  <2> HIDE DEF doc
  <2>7. cr'.state = "live" /\ ~Scaled(cr'.doc) /\ Claim' = run.id
    BY <2>5, <2>6 DEF Claim
  <2>8. NothingRuns'
    BY <2>1, <2>2 DEF NothingRuns
  <2>9. EtcdIsRestored'
    BY <2>1, <2>3, <2>7 DEF EtcdIsRestored
  <2> QED  BY <2>8, <2>9
<1>11. CASE WaitForStatefulSetReady
  <2>1. /\ run.pc = "waitEtcd" /\ run'.pc = "revert" /\ run'.id = run.id /\ run'.left = run.left
        /\ etcd.pod = "ready" /\ UNCHANGED <<cr, scalers, workers, etcd, root>>
    BY <1>1, <1>11 DEF WaitForStatefulSetReady, clusterVars, GoTo
  <2>2. "scaledObject" \notin scalers' /\ ~workers' /\ root' = Stored[run.id] \cup run.left
    BY <2>1, PhasesAre DEF NothingRuns, Up
  <2>3. cr'.state = "live" /\ ~Scaled(cr'.doc) /\ etcd'.pod = "ready" /\ etcd'.refs = Image[run.id]
    BY <2>1 DEF EtcdIsRestored, Up
  <2>4. NothingRuns'
    BY <2>1, <2>2 DEF NothingRuns
  <2>5. EtcdIsRestored'
    BY <2>1, <2>3 DEF EtcdIsRestored
  <2> QED  BY <2>4, <2>5
<1>12. CASE PatchMilvusCR
  <2>1. /\ run.pc = "revert" /\ run'.pc \in {"resume", "cleanJob"} /\ run'.id = run.id /\ run'.left = run.left
        /\ cr' = [cr EXCEPT !.doc = MergePatch(cr.doc, RevertPatch)]
        /\ UNCHANGED <<scalers, workers, etcd, root>>
    BY <1>1, <1>12 DEF PatchMilvusCR, PatchCR, GoTo
  <2>2. "scaledObject" \notin scalers' /\ ~workers' /\ root' = Stored[run.id] \cup run.left
    BY <2>1, PhasesAre DEF NothingRuns, Up
  <2>3. cr.state = "live" /\ ~Scaled(cr.doc) /\ etcd.pod = "ready" /\ etcd.refs = Image[run.id]
    BY <2>1 DEF EtcdIsRestored, Up
  <2>4. cr'.state = cr.state /\ cr'.doc = MergePatch(cr.doc, RevertPatch)
    BY <1>1, <2>1
  <2>5. cr'.state = "live" /\ ~Scaled(cr'.doc)
    BY <2>3, <2>4, RevertedIsScaledDown
  <2>6. NothingRuns'
    BY <2>1, <2>2 DEF NothingRuns
  <2>7. EtcdIsRestored'
    BY <2>1, <2>3, <2>5 DEF EtcdIsRestored
  <2> QED  BY <2>6, <2>7
<1>13. CASE Environment
  <2>1. CASE run.pc \in NoScaler
    <3>1. ClusterNext /\ UNCHANGED <<run, runs>>
      BY <1>13, <2>1, PhasesAre
      DEF Environment, ResumeByHand, CleanByHand, Active, NoScaler, Held
    <3> QED  BY <2>1, <3>1, ClusterKeepsQuiet
  <2>2. CASE run.pc \notin NoScaler
    <3>1. UNCHANGED run
      BY <1>13 DEF Environment, ResumeByHand, CleanByHand
    <3> QED  BY <1>2, <2>2, <3>1
  <2> QED  BY <2>1, <2>2
<1>14. CASE Start \/ Gate1 \/ SuspendFlux \/ GetMilvusCR \/ Gate2 \/ DeleteHPAs
  <2>1. Start => run'.pc = "gate1"
    BY DEF Start
  <2>2. Gate1 \/ SuspendFlux => run'.pc \in {"suspend", "getCR", "ended"}
    BY <1>1 DEF Gate1, SuspendFlux, GoTo, Return
  <2>3. GetMilvusCR => run'.pc \in {"gate2", "ended"}
    BY <1>1 DEF GetMilvusCR, Return
  <2>4. Gate2 \/ DeleteHPAs => run'.pc \in {"hpas", "scaledObjects", "ended"}
    BY <1>1 DEF Gate2, DeleteHPAs, GoTo, Return
  <2> QED  BY <1>2, <1>14, <2>1, <2>2, <2>3, <2>4 DEF NoScaler, Gone, Up
<1>15. CASE ResumeFlux \/ CleanJob
  <2>1. run'.pc \in {"cleanJob", "cleanPVC"}
    BY <1>1, <1>15 DEF ResumeFlux, CleanJob, GoTo
  <2> QED  BY <1>2, <2>1 DEF NoScaler, Gone, Up
<1>16. CASE CleanPVC \/ Refused \/ TimesOut \/ CallFails \/ Crash
  <2>1. run'.pc = "ended"
    BY <1>1, <1>16 DEF CleanPVC, Refused, TimesOut, CallFails, Crash, Return
  <2> QED  BY <1>2, <2>1 DEF NoScaler, Gone, Up
<1>17. CASE UNCHANGED vars
  <2>1. UNCHANGED <<run, cr, scalers, workers, etcd, root>>
    BY <1>17 DEF vars, clusterVars
  <2>2. NothingRuns'
    BY <2>1 DEF NothingRuns
  <2>3. EtcdIsRestored'
    BY <2>1 DEF EtcdIsRestored, Claim
  <2> QED  BY <2>2, <2>3
<1> QED
  BY <1>4, <1>5, <1>6, <1>7, <1>8, <1>9, <1>10, <1>11, <1>12, <1>13, <1>14, <1>15, <1>16, <1>17
  DEF Next, Step

LEMMA RestoreInitially == Init => RestoreInvariant
<1> SUFFICES ASSUME Init  PROVE RestoreInvariant
  OBVIOUS
<1>1. NothingRuns /\ EtcdIsRestored
  BY DEF Init, NothingRuns, EtcdIsRestored, NoScaler, Gone, Quiet, Replaced, Copied, Up
<1> QED  BY <1>1, ServesInitially DEF RestoreInvariant

LEMMA RestoreStays ==
  ASSUME KnownComponents
  PROVE  RestoreInvariant /\ [Next]_vars => RestoreInvariant'
<1> SUFFICES ASSUME RestoreInvariant, [Next]_vars  PROVE RestoreInvariant'
  OBVIOUS
<1>1. ServesInvariant /\ TypeInvariant /\ FluxIsHeld /\ Effects
  BY EffectOfStep DEF RestoreInvariant, ServesInvariant
<1>2. ServesInvariant'
  BY <1>1, ServesStays
<1>3. ASSUME ~flux'.raced
      PROVE  NothingRuns' /\ EtcdIsRestored'
  <2>1. StagesHold /\ NothingRuns /\ EtcdIsRestored
    BY <1>1, <1>3, RacedStays DEF RestoreInvariant, ServesInvariant
  <2> QED  BY <1>1, <1>3, <2>1, RunKeepsQuiet
<1> QED  BY <1>2, <1>3 DEF RestoreInvariant

LEMMA RestoreAlways ==
  ASSUME KnownComponents
  PROVE  Spec => []RestoreInvariant
<1>1. RestoreInvariant /\ [Next]_vars => RestoreInvariant'
  BY RestoreStays
<1> QED  BY <1>1, RestoreInitially, PTL DEF Spec

\* From the deletion of the data to the resumption of Flux no worker runs, if
\* the CR has no components but those the restore knows.
THEOREM NoWorkerDuringRestore ==
  ASSUME KnownComponents
  PROVE  Spec => []QuietDuringRestore
<1>1. RestoreInvariant => QuietDuringRestore
  BY DEF RestoreInvariant, NothingRuns, QuietDuringRestore, Quiet, Copied, Up
<1> QED  BY <1>1, RestoreAlways, PTL

\* When etcd is up again, it refers to what the snapshot does, and the root
\* prefix holds the files of the snapshot, and no other but those that S3
\* refused to delete in an answer DeletePrefix took for a success; if the CR has
\* no components but those the restore knows.
THEOREM RestoreBringsBackTheSnapshot ==
  ASSUME KnownComponents
  PROVE  Spec => []RestoredIsSnapshot
<1>1. RestoreInvariant => RestoredIsSnapshot
  BY DEF RestoreInvariant, NothingRuns, EtcdIsRestored, RestoredIsSnapshot, Replaced, Copied, Up
<1> QED  BY <1>1, RestoreAlways, PTL

=============================================================================
