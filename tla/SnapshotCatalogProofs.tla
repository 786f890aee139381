------------------------ MODULE SnapshotCatalogProofs ------------------------
(***************************************************************************)
(* Proofs about SnapshotCatalog, for any number of IDs, files and restores *)
(* and any length of the list.                                             *)
(***************************************************************************)
EXTENDS SnapshotCatalog, FiniteSetTheorems, TLAPS

-----------------------------------------------------------------------------
(***************************************************************************)
(* Sets of IDs.                                                            *)
(***************************************************************************)
\* A family of finite sets has a member that includes no other.
LEMMA SmallestMember ==
  ASSUME NEW S, IsFiniteSet(S), NEW F, F \subseteq SUBSET S, F # {}
  PROVE  \E U \in F : \A V \in F : V \subseteq U => V = U
<1>1. IsWellFoundedOn(StrictSubsetOrdering(S), FiniteSubsetsOf(S))
  BY FS_StrictSubsetOrderingWellFounded
<1>2. F \subseteq FiniteSubsetsOf(S)
  BY FS_FiniteSubsetsOfFinite
<1>3. \E U \in F : \A V \in F : ~(<<V, U>> \in StrictSubsetOrdering(S))
  BY <1>1, <1>2, WFMin
<1>4. PICK U \in F : \A V \in F : ~(<<V, U>> \in StrictSubsetOrdering(S))
  BY <1>3
<1>5. ASSUME NEW V \in F, V \subseteq U, V # U
      PROVE  FALSE
  <2>1. <<V, U>> \in StrictSubsetOrdering(S)
    BY <1>5 DEF StrictSubsetOrdering
  <2> QED  BY <2>1, <1>4
<1> QED  BY <1>5

\* There are finitely many IDs.
LEMMA IdSetsAreFinite ==
  ASSUME NEW S \in SUBSET Ids
  PROVE  IsFiniteSet(S) /\ Cardinality(S) \in Nat
<1>1. IsFiniteSet(Ids)
  BY FS_Interval, CatalogAssumption DEF Ids
<1> QED  BY <1>1, FS_Subset, FS_CardinalityType

\* The IDs above the greatest are the smallest such set.
LEMMA HasGreatest ==
  ASSUME NEW S \in SUBSET Ids, S # {}
  PROVE  \E x \in S : \A y \in S : x >= y
<1> DEFINE Above(x) == {y \in S : y > x}
           F == {Above(x) : x \in S}
<1>0. S \subseteq Int
  BY DEF Ids
<1>1. PICK x \in S : \A y \in S : Above(y) \subseteq Above(x) => Above(y) = Above(x)
  <2>1. F \subseteq SUBSET S /\ F # {} /\ IsFiniteSet(S)
    BY IdSetsAreFinite
  <2>2. PICK U \in F : \A V \in F : V \subseteq U => V = U
    <3> HIDE DEF F
    <3> QED  BY <2>1, SmallestMember
  <2>3. PICK x \in S : U = Above(x)
    BY <2>2
  <2>4. \A y \in S : Above(y) \in F
    OBVIOUS
  <2> HIDE DEF Above, F
  <2> QED  BY <2>2, <2>3, <2>4
<1>2. ASSUME NEW y \in S, y > x
      PROVE  FALSE
  <2>1. \A z \in S : z > y => z > x
    BY <1>0, <1>2
  <2>2. Above(y) \subseteq Above(x)
    BY <2>1
  <2>3. y \in Above(x) /\ y \notin Above(y)
    <3>1. ~(y > y)
      BY <1>0
    <3> QED  BY <1>2, <3>1
  <2> QED  BY <1>1, <2>2, <2>3
<1> QED  BY <1>0, <1>2

\* The same for the IDs below the least.
LEMMA HasLeast ==
  ASSUME NEW S \in SUBSET Ids, S # {}
  PROVE  \E x \in S : \A y \in S : x =< y
<1> DEFINE Below(x) == {y \in S : y < x}
           F == {Below(x) : x \in S}
<1>0. S \subseteq Int
  BY DEF Ids
<1>1. PICK x \in S : \A y \in S : Below(y) \subseteq Below(x) => Below(y) = Below(x)
  <2>1. F \subseteq SUBSET S /\ F # {} /\ IsFiniteSet(S)
    BY IdSetsAreFinite
  <2>2. PICK U \in F : \A V \in F : V \subseteq U => V = U
    <3> HIDE DEF F
    <3> QED  BY <2>1, SmallestMember
  <2>3. PICK x \in S : U = Below(x)
    BY <2>2
  <2>4. \A y \in S : Below(y) \in F
    OBVIOUS
  <2> HIDE DEF Below, F
  <2> QED  BY <2>2, <2>3, <2>4
<1>2. ASSUME NEW y \in S, y < x
      PROVE  FALSE
  <2>1. \A z \in S : z < y => z < x
    BY <1>0, <1>2
  <2>2. Below(y) \subseteq Below(x)
    BY <2>1
  <2>3. y \in Below(x) /\ y \notin Below(y)
    <3>1. ~(y < y)
      BY <1>0
    <3> QED  BY <1>2, <3>1
  <2> QED  BY <1>1, <2>2, <2>3
<1> QED  BY <1>0, <1>2

\* So Max picks one.
LEMMA MaxOfIds ==
  ASSUME NEW S \in SUBSET Ids, S # {}
  PROVE  Max(S) \in S /\ \A y \in S : Max(S) >= y
BY HasGreatest DEF Max

\* There is one greatest element.
LEMMA MaxIsUnique ==
  ASSUME NEW S \in SUBSET Ids, NEW x \in S, \A y \in S : x >= y
  PROVE  Max(S) = x
<1>1. Max(S) \in S /\ Max(S) >= x /\ x >= Max(S)
  BY MaxOfIds
<1>2. S \subseteq Int
  BY DEF Ids
<1>3. \A m, n \in Int : m >= n /\ n >= m => m = n
  OBVIOUS
<1>4. Max(S) \in Int /\ x \in Int
  BY <1>1, <1>2, Zenon
<1> QED  BY <1>1, <1>3, <1>4, Zenon

\* A list that leaves out an ID is full of newer ones.
LEMMA NewestAreNewer ==
  ASSUME NEW S \in SUBSET Ids, NEW i \in S, i \notin Newest(S)
  PROVE  Cardinality({j \in Newest(S) : j > i}) = MaxListed
<1> DEFINE Above(x) == {y \in S : y > x}
           Listed   == {j \in Newest(S) : j > i}
           Left     == {j \in S : j > i /\ j \notin Newest(S)}
<1>0. S \subseteq Int /\ MaxListed \in Nat \ {0}
  BY CatalogAssumption DEF Ids
<1>1. Newest(S) = {j \in S : Cardinality(Above(j)) < MaxListed}
  BY DEF Newest
<1>2. /\ Listed \in SUBSET Ids /\ Left \in SUBSET Ids /\ \A x : Above(x) \in SUBSET Ids
      /\ Listed \subseteq Above(i)
  BY <1>1
<1>3. /\ IsFiniteSet(Listed) /\ Cardinality(Listed) \in Nat
      /\ \A x : IsFiniteSet(Above(x)) /\ Cardinality(Above(x)) \in Nat
  BY <1>2, IdSetsAreFinite
<1>4. Cardinality(Listed) >= MaxListed
  <2>1. ASSUME NEW x \in S, Cardinality(Above(x)) >= MaxListed, Above(x) \subseteq Listed
        PROVE  Cardinality(Listed) >= MaxListed
    <3>1. Cardinality(Above(x)) <= Cardinality(Listed)
      BY <2>1, <1>3, FS_Subset
    <3> QED  BY <3>1, <2>1, <1>3, <1>0
  <2>2. ASSUME NEW x \in S, x \notin Newest(S)
        PROVE  Cardinality(Above(x)) >= MaxListed
    <3>1. ~(Cardinality(Above(x)) < MaxListed)
      BY <2>2, <1>1
    <3>2. Cardinality(Above(x)) \in Nat
      BY <1>3
    <3> QED  BY <3>1, <3>2, <1>0
  <2>3. CASE Left = {}
    <3>1. Above(i) \subseteq Listed
      BY <2>3, <1>1
    <3> QED  BY <3>1, <2>1, <2>2
  <2>4. CASE Left # {}
    <3>1. PICK c \in Left : \A y \in Left : c >= y
      BY <2>4, <1>2, HasGreatest
    <3>2. ASSUME NEW y \in Above(c)
          PROVE  y \in Listed
      <4>1. y \in Int /\ c \in Int /\ i \in Int /\ y > c /\ c > i
        BY <3>1, <1>0
      <4>2. y > i /\ y \notin Left
        BY <3>1, <4>1
      <4> QED  BY <4>2
    <3> QED  BY <3>1, <3>2, <2>1, <2>2
  <2> QED  BY <2>3, <2>4
<1>5. Cardinality(Listed) <= MaxListed
  <2>1. Listed # {}
    BY <1>4, <1>0, FS_EmptySet
  <2>2. PICK m \in Listed : \A y \in Listed : m =< y
    BY <2>1, <1>2, HasLeast
  <2>3. Cardinality(Above(m)) < MaxListed
    BY <1>1, <2>2
  <2>4. ASSUME NEW y \in Listed \ {m}
        PROVE  y \in Above(m)
    <3>1. y \in S /\ y \in Int /\ m \in Int /\ m =< y /\ y # m
      BY <2>2, <1>0, <1>1
    <3> QED  BY <3>1
  <2>5. Cardinality(Listed \ {m}) <= Cardinality(Above(m))
    <3>1. Listed \ {m} \in SUBSET Above(m)
      BY <2>4
    <3> QED  BY <3>1, <1>3, FS_Subset
  <2>6. Cardinality(Listed \ {m}) = Cardinality(Listed) - 1
    BY <1>3, <2>2, FS_RemoveElement
  <2> QED  BY <2>3, <2>5, <2>6, <1>3, <1>0
<1> QED  BY <1>0, <1>3, <1>4, <1>5

-----------------------------------------------------------------------------
(***************************************************************************)
(* The inductive invariant.                                                *)
(***************************************************************************)
\* Where a run is when its body has returned.
Over == {"resume", "allow", "ended"}

\* A run has results only at its end, after its image was stored.
EndsOnce(i) ==
  /\ run[i].result = "ok" => run[i].pc \in Over /\ i \in images
  /\ run[i].kept => run[i].pc \in Over
  /\ run[i].pc \in {"keys", "copy"} => i \in images /\ image[i] = run[i].buf

\* Where the files an image refers to are, as long as the run holds its lease:
\* in the root prefix, then in the archive or among the keys left.
FilesOf(i) ==
  /\ run[i].lease = "held" =>
       /\ instance.up
       /\ run[i].pc \in {"upload", "keys"} => run[i].buf.refs \subseteq instance.root \cup run[i].lost
       /\ run[i].pc = "copy" => run[i].buf.refs \subseteq stored[i] \cup run[i].keys \cup run[i].lost
  /\ run[i].kept => image[i].refs \subseteq stored[i] \cup run[i].lost

\* What a reader has seen is there, and what was finished before it started is
\* among it; the archive of a run that is over does not grow.
Seen ==
  /\ reader.pc \in {"etcd", "data", "done"} =>
       \A i \in reader.before : i \in images /\ run[i].pc \in Over
  /\ reader.pc \in {"data", "done"} =>
       reader.before \subseteq reader.etcdIDs /\ reader.etcdIDs \subseteq images
  /\ reader.pc = "done" =>
       reader.before \cap Prefixes \subseteq reader.s3IDs /\ reader.s3IDs \subseteq Prefixes

\* While a restore replaces the data Milvus is down, and nobody else touches the
\* root prefix: it holds what is left to delete, then what was copied, and what
\* S3 refused to delete; and with what is left to copy all that the image needs.
Replacing ==
  /\ reader.pc \in {"delete", "list", "copy", "start"} =>
       /\ ~instance.up
       /\ reader.id \in Ids
       /\ reader.sound => run[reader.id].kept
  /\ reader.pc = "delete" => instance.root \subseteq reader.keys \cup reader.refused
  /\ reader.pc = "list" => instance.root \subseteq reader.refused
  /\ reader.pc = "copy" =>
       /\ instance.root \cup reader.keys \subseteq stored[reader.id] \cup reader.refused
       /\ reader.sound =>
            image[reader.id].refs \subseteq instance.root \cup reader.keys \cup run[reader.id].lost
  /\ reader.pc = "start" =>
       /\ instance.root \subseteq stored[reader.id] \cup reader.refused
       /\ reader.sound => image[reader.id].refs \subseteq instance.root \cup run[reader.id].lost

CatalogInvariant ==
  /\ TypeOK
  /\ \A i \in Ids : EndsOnce(i) /\ FilesOf(i)
  /\ Seen
  /\ Replacing

-----------------------------------------------------------------------------
(***************************************************************************)
(* Types.                                                                  *)
(***************************************************************************)
\* What restore resolves to is an ID, or none.
LEMMA ResolveType ==
  ASSUME NEW E \in SUBSET Ids, NEW D \in SUBSET Ids
  PROVE  /\ Resolve(E, D) \in Ids \cup {NoId}
         /\ Resolve(E, D) # NoId => Resolve(E, D) \in E \cap D
         /\ \A i \in E \cap D : Resolve(E, D) >= i
<1>1. NoId \notin Ids
  BY DEF Ids, NoId
<1>2. CASE E \cap D = {}
  BY <1>2 DEF Resolve
<1>3. CASE E \cap D # {}
  <2>1. Resolve(E, D) = Max(E \cap D)
    BY <1>3 DEF Resolve
  <2> QED  BY <1>3, <2>1, <1>1, MaxOfIds
<1> QED  BY <1>2, <1>3

\* The types hold at the start.
LEMMA InitTypes == Init => TypeOK
BY CatalogAssumption DEF Init, TypeOK, RunState, InstanceState, ReaderState, Etcd, NoEtcd,
   NoReader, NoId

-----------------------------------------------------------------------------
(***************************************************************************)
(* What a step of create makes of the record of its run.                   *)
(***************************************************************************)
\* Before the capture.
Begins(i, rec) ==
  /\ run[i].pc \in {"none", "deny", "pause"} /\ rec.pc \in {"deny", "pause", "flush"}
  /\ rec.result = run[i].result /\ rec.kept = run[i].kept
  /\ rec.lease = "held" => run[i].lease = "held" \/ instance.up
  /\ UNCHANGED <<images, image, stored>>

Captures(i, rec) ==
  /\ run[i].pc = "flush" /\ rec.pc = "upload"
  /\ rec.buf = instance.etcd /\ rec.lost = instance.etcd.refs \ instance.root
  /\ rec.result = run[i].result /\ rec.kept = run[i].kept /\ rec.lease = run[i].lease
  /\ UNCHANGED <<images, image, stored>>

Uploads(i, rec) ==
  /\ run[i].pc = "upload" /\ rec.pc = "keys"
  /\ rec.buf = run[i].buf /\ rec.lost = run[i].lost
  /\ rec.result = run[i].result /\ rec.kept = run[i].kept /\ rec.lease = run[i].lease
  /\ images' = images \cup {i}
  /\ image' = [image EXCEPT ![i] = run[i].buf]
  /\ stored' = stored

\* With keys left to copy.
CopiesTo(i, rec, keys) ==
  /\ rec.buf = run[i].buf /\ rec.lost = run[i].lost /\ rec.lease = run[i].lease
  /\ keys # {} => /\ rec.pc = "copy" /\ rec.keys = keys
                  /\ rec.result = run[i].result /\ rec.kept = run[i].kept
  /\ keys = {} => /\ rec.pc \in {"resume", "allow"} /\ rec.result = "ok"
                  /\ rec.kept <=> rec.lease = "held"

Lists(i, rec) ==
  /\ run[i].pc = "keys"
  /\ CopiesTo(i, rec, instance.root)
  /\ UNCHANGED <<images, image, stored>>

Copies(i, rec) ==
  /\ run[i].pc = "copy"
  /\ \E o \in run[i].keys :
       /\ CopiesTo(i, rec, run[i].keys \ {o})
       /\ stored' = [stored EXCEPT ![i] = @ \cup {o}]
  /\ UNCHANGED <<images, image>>

\* After the body, whether it failed or not.
Ends(i, rec) ==
  /\ rec.pc \in Over
  /\ rec.result \in {run[i].result, "error"} /\ rec.lost = run[i].lost
  /\ rec.kept = run[i].kept /\ rec.lease \in {run[i].lease, "over"}
  /\ UNCHANGED <<images, image, stored>>

Outcome(i, rec) ==
  \/ Begins(i, rec) \/ Captures(i, rec) \/ Uploads(i, rec) \/ Lists(i, rec) \/ Copies(i, rec)
  \/ Ends(i, rec)

\* A run that ends, and a body that returns.
LEMMA EndedIs ==
  ASSUME NEW rec \in RunState
  PROVE  /\ Ended(rec) \in RunState
         /\ Ended(rec).pc = "ended" /\ Ended(rec).result = rec.result
         /\ Ended(rec).lost = rec.lost /\ Ended(rec).kept = rec.kept
         /\ Ended(rec).lease = rec.lease
BY DEF Ended, RunState, NoEtcd, Etcd

LEMMA ReturnedIs ==
  ASSUME NEW rec \in RunState, NEW result \in {"ok", "error"}
  PROVE  LET new == Returned(rec, result)
         IN  /\ new \in RunState /\ new.pc \in {"resume", "allow"} /\ new.result = result
             /\ new.buf = rec.buf /\ new.lost = rec.lost
             /\ new.kept = rec.kept /\ new.lease = rec.lease
<1>1. CASE rec.ticket
  BY <1>1 DEF Returned, RunState
<1>2. CASE ~rec.ticket
  BY <1>2 DEF Returned, RunState
<1> QED  BY <1>1, <1>2

LEMMA CopyingIs ==
  ASSUME TypeOK, NEW i \in Ids, NEW keys \in SUBSET Objects
  PROVE  Copying(run[i], keys) \in RunState /\ CopiesTo(i, Copying(run[i], keys), keys)
<1>0. run[i] \in RunState
  BY DEF TypeOK
<1>1. CASE keys = {}
  <2> DEFINE new == Returned(run[i], "ok")
  <2>1. /\ new \in RunState /\ new.pc \in {"resume", "allow"} /\ new.result = "ok"
        /\ new.buf = run[i].buf /\ new.lost = run[i].lost /\ new.lease = run[i].lease
    BY <1>0, ReturnedIs
  <2>2. Copying(run[i], keys) = [new EXCEPT !.kept = (run[i].lease = "held")]
    BY <1>1 DEF Copying
  <2> HIDE DEF new
  <2> QED  BY <1>1, <2>1, <2>2 DEF RunState, CopiesTo
<1>2. CASE keys # {}
  <2>1. Copying(run[i], keys) = [run[i] EXCEPT !.keys = keys, !.pc = "copy"]
    BY <1>2 DEF Copying
  <2> QED  BY <1>0, <1>2, <2>1 DEF RunState, CopiesTo
<1> QED  BY <1>1, <1>2

\* Denying and allowing change the denial only.
LEMMA DenialIs ==
  ASSUME instance \in InstanceState, NEW value \in BOOLEAN,
         \/ UNCHANGED instance
         \/ instance' = [instance EXCEPT !.etcd = Denied(instance.etcd, value)]
  PROVE  /\ instance' \in InstanceState
         /\ instance'.up = instance.up /\ instance'.root = instance.root
<1>1. Denied(instance.etcd, value) \in Etcd
  BY DEF Denied, InstanceState, Etcd
<1> HIDE DEF Denied
<1> QED  BY <1>1 DEF InstanceState

\* One step per action.
LEMMA CreateSteps ==
  ASSUME TypeOK, NEW i \in Ids, Create(i)
  PROVE  \E rec \in RunState : run' = [run EXCEPT ![i] = rec] /\ Outcome(i, rec)
<1>0. /\ run[i] \in RunState /\ run[i].keys \in SUBSET Objects /\ run[i].buf \in Etcd
      /\ instance.etcd \in Etcd /\ instance.root \in SUBSET Objects
  BY DEF TypeOK, RunState, InstanceState
<1>1. CASE Begin(i)
  <2> DEFINE rec == [run[i] EXCEPT !.pc = "deny"]
  <2>1. rec \in RunState /\ Begins(i, rec)
    BY <1>0, <1>1 DEF Begin, RunState, Begins
  <2> QED  BY <1>1, <2>1 DEF Begin, Outcome
<1>2. CASE Deny(i)
  <2>1. PICK pc \in {"deny", "pause"} : run' = [run EXCEPT ![i] = [@ EXCEPT !.pc = pc]]
    <3>1. CASE UNCHANGED run
      <4>1. [run[i] EXCEPT !.pc = "deny"] = run[i]
        BY <1>0, <1>2 DEF Deny, RunState
      <4>2. run' = [run EXCEPT ![i] = [@ EXCEPT !.pc = "deny"]]
        BY <3>1, <4>1 DEF TypeOK
      <4> QED  BY <4>2
    <3> QED  BY <1>2, <3>1 DEF Deny
  <2> DEFINE rec == [run[i] EXCEPT !.pc = pc]
  <2>2. rec \in RunState /\ Begins(i, rec)
    BY <1>0, <1>2 DEF Deny, RunState, Begins
  <2> QED  BY <2>1, <2>2 DEF Outcome
<1>3. CASE DenyFails(i)
  <2> DEFINE ended == Ended(run[i])
             rec   == [ended EXCEPT !.result = "error"]
  <2>1. /\ ended \in RunState /\ ended.pc = "ended" /\ ended.lost = run[i].lost
        /\ ended.kept = run[i].kept /\ ended.lease = run[i].lease
    BY <1>0, EndedIs
  <2>2. run' = [run EXCEPT ![i] = rec] /\ UNCHANGED <<images, image, stored>>
    BY <1>3 DEF DenyFails
  <2> HIDE DEF ended
  <2>3. rec \in RunState /\ Ends(i, rec)
    BY <2>1, <2>2 DEF RunState, Ends, Over
  <2> QED  BY <2>2, <2>3 DEF Outcome
<1>4. CASE Pause(i)
  <2>1. PICK lease \in {"none", "held"}, ticket \in BOOLEAN :
          /\ lease = "held" => instance.up
          /\ run' = [run EXCEPT ![i] = [@ EXCEPT !.pc = "flush", !.lease = lease, !.ticket = ticket]]
    BY <1>4 DEF Pause
  <2> DEFINE rec == [run[i] EXCEPT !.pc = "flush", !.lease = lease, !.ticket = ticket]
  <2>2. rec \in RunState /\ Begins(i, rec)
    BY <1>0, <1>4, <2>1 DEF Pause, RunState, Begins
  <2> QED  BY <2>1, <2>2 DEF Outcome
<1>5. CASE Capture(i)
  <2> DEFINE rec == [run[i] EXCEPT !.pc = "upload", !.buf = instance.etcd,
                                  !.lost = instance.etcd.refs \ instance.root]
  <2>1. instance.etcd.refs \in SUBSET Objects
    BY <1>0 DEF Etcd
  <2>2. rec \in RunState /\ Captures(i, rec)
    BY <1>0, <1>5, <2>1 DEF Capture, RunState, Captures
  <2> QED  BY <1>5, <2>2 DEF Capture, Outcome
<1>6. CASE Upload(i)
  <2> DEFINE rec == [run[i] EXCEPT !.pc = "keys"]
  <2>1. rec \in RunState /\ Uploads(i, rec)
    BY <1>0, <1>6 DEF Upload, RunState, Uploads
  <2> QED  BY <1>6, <2>1 DEF Upload, Outcome
<1>7. CASE ListRoot(i)
  <2> DEFINE rec == Copying(run[i], instance.root)
  <2>1. rec \in RunState /\ CopiesTo(i, rec, instance.root)
    BY <1>0, CopyingIs
  <2>2. run' = [run EXCEPT ![i] = rec]
    BY <1>7 DEF ListRoot
  <2> HIDE DEF rec
  <2>3. Lists(i, rec)
    BY <1>7, <2>1 DEF ListRoot, Lists
  <2> QED  BY <2>1, <2>2, <2>3 DEF Outcome
<1>8. CASE CopyOne(i)
  <2>1. PICK o \in run[i].keys \cap instance.root :
          /\ stored' = [stored EXCEPT ![i] = @ \cup {o}]
          /\ run' = [run EXCEPT ![i] = Copying(@, run[i].keys \ {o})]
    BY <1>8 DEF CopyOne
  <2> DEFINE rec == Copying(run[i], run[i].keys \ {o})
  <2>2. rec \in RunState /\ CopiesTo(i, rec, run[i].keys \ {o})
    BY <1>0, CopyingIs
  <2>3. run' = [run EXCEPT ![i] = rec]
    BY <2>1
  <2> HIDE DEF rec
  <2>4. Copies(i, rec)
    BY <1>8, <2>1, <2>2 DEF CopyOne, Copies
  <2> QED  BY <2>2, <2>3, <2>4 DEF Outcome
<1>9. CASE Fail(i)
  <2> DEFINE rec == Returned(run[i], "error")
  <2>1. /\ rec \in RunState /\ rec.pc \in {"resume", "allow"} /\ rec.result = "error"
        /\ rec.lost = run[i].lost /\ rec.kept = run[i].kept /\ rec.lease = run[i].lease
    BY <1>0, ReturnedIs
  <2>2. run' = [run EXCEPT ![i] = rec] /\ UNCHANGED <<images, image, stored>>
    BY <1>9 DEF Fail
  <2> HIDE DEF rec
  <2>3. Ends(i, rec)
    BY <2>1, <2>2 DEF Ends, Over
  <2> QED  BY <2>1, <2>2, <2>3 DEF Outcome
<1>10. CASE Resume(i)
  <2>1. PICK lease \in {run[i].lease, "over"} :
          run' = [run EXCEPT ![i] = [@ EXCEPT !.pc = "allow", !.lease = lease]]
    BY <1>10 DEF Resume
  <2> DEFINE rec == [run[i] EXCEPT !.pc = "allow", !.lease = lease]
  <2>2. rec \in RunState
    BY <1>0, <2>1 DEF RunState
  <2>3. Ends(i, rec)
    BY <1>0, <1>10, <2>1 DEF Resume, RunState, Ends, Over
  <2> QED  BY <2>1, <2>2, <2>3 DEF Outcome
<1>11. CASE Allow(i) \/ AllowFails(i) \/ Crash(i)
  <2> DEFINE rec == Ended(run[i])
  <2>1. /\ rec \in RunState /\ rec.pc = "ended" /\ rec.result = run[i].result
        /\ rec.lost = run[i].lost /\ rec.kept = run[i].kept /\ rec.lease = run[i].lease
    BY <1>0, EndedIs
  <2>2. run' = [run EXCEPT ![i] = rec] /\ UNCHANGED <<images, image, stored>>
    BY <1>11 DEF Allow, AllowFails, Crash
  <2> HIDE DEF rec
  <2>3. Ends(i, rec)
    BY <2>1, <2>2 DEF Ends, Over
  <2> QED  BY <2>1, <2>2, <2>3 DEF Outcome
<1> QED
  BY <1>1, <1>2, <1>3, <1>4, <1>5, <1>6, <1>7, <1>8, <1>9, <1>10, <1>11 DEF Create

\* It leaves the root prefix, whether Milvus is up, and the reader alone.
LEMMA CreateLeaves ==
  ASSUME TypeOK, NEW i \in Ids, Create(i)
  PROVE  /\ instance' \in InstanceState
         /\ instance'.up = instance.up /\ instance'.root = instance.root
         /\ UNCHANGED <<reader, written, restores>>
<1>0. instance \in InstanceState
  BY DEF TypeOK
<1>1. UNCHANGED <<reader, written, restores>>
  BY DEF Create, Begin, Deny, DenyFails, Pause, Capture, Upload, ListRoot, CopyOne, Fail,
     Resume, Allow, AllowFails, Crash
<1>2. \/ UNCHANGED instance
      \/ \E value \in BOOLEAN : instance' = [instance EXCEPT !.etcd = Denied(instance.etcd, value)]
  BY DEF Create, Begin, Deny, DenyFails, Pause, Capture, Upload, ListRoot, CopyOne, Fail,
     Resume, Allow, AllowFails, Crash
<1> QED  BY <1>0, <1>1, <1>2, DenialIs

\* The types hold, the other runs, the rest of the bucket and what a run that is
\* over has stored are left alone.
LEMMA CreateFrame ==
  ASSUME TypeOK, NEW i \in Ids, Create(i)
  PROVE  /\ TypeOK'
         /\ \A j \in Ids \ {i} :
              run'[j] = run[j] /\ image'[j] = image[j] /\ stored'[j] = stored[j]
         /\ images \subseteq images' /\ \A j \in Ids : stored[j] \subseteq stored'[j]
         /\ run[i].pc \in Over =>
              /\ run'[i].pc \in Over /\ run'[i].kept = run[i].kept /\ run'[i].lost = run[i].lost
              /\ image'[i] = image[i] /\ stored'[i] = stored[i]
<1>0. /\ run \in [Ids -> RunState] /\ run[i] \in RunState
      /\ image \in [Ids -> Etcd] /\ stored \in [Ids -> SUBSET Objects] /\ images \in SUBSET Ids
      /\ run[i].keys \in SUBSET Objects /\ run[i].buf \in Etcd
  BY DEF TypeOK, RunState
<1>1. PICK rec \in RunState : run' = [run EXCEPT ![i] = rec] /\ Outcome(i, rec)
  BY CreateSteps
<1>2. run' \in [Ids -> RunState] /\ run'[i] = rec /\ \A j \in Ids \ {i} : run'[j] = run[j]
  BY <1>0, <1>1
<1>3. /\ images' \in SUBSET Ids /\ image' \in [Ids -> Etcd] /\ stored' \in [Ids -> SUBSET Objects]
      /\ \A j \in Ids \ {i} : image'[j] = image[j] /\ stored'[j] = stored[j]
      /\ images \subseteq images' /\ \A j \in Ids : stored[j] \subseteq stored'[j]
  <2>1. CASE Uploads(i, rec)
    BY <1>0, <2>1 DEF Uploads
  <2>2. CASE Copies(i, rec)
    BY <1>0, <2>2 DEF Copies
  <2>3. CASE UNCHANGED <<images, image, stored>>
    BY <1>0, <2>3
  <2> QED  BY <1>1, <2>1, <2>2, <2>3 DEF Outcome, Begins, Captures, Lists, Ends
<1>4. run[i].pc \in Over =>
        /\ rec.pc \in Over /\ rec.kept = run[i].kept /\ rec.lost = run[i].lost
        /\ image'[i] = image[i] /\ stored'[i] = stored[i]
  BY <1>1 DEF Over, Outcome, Begins, Captures, Uploads, Lists, Copies, Ends
<1>5. TypeOK'
  BY <1>2, <1>3, CreateLeaves DEF TypeOK
<1> QED  BY <1>2, <1>3, <1>4, <1>5

\* It moves the files of its image as FilesOf says.
LEMMA CreateKeepsOwn ==
  ASSUME TypeOK, NEW i \in Ids, Create(i), EndsOnce(i), FilesOf(i)
  PROVE  EndsOnce(i)' /\ FilesOf(i)'
<1>0. /\ run \in [Ids -> RunState] /\ image \in [Ids -> Etcd]
      /\ stored \in [Ids -> SUBSET Objects] /\ images \in SUBSET Ids
  BY DEF TypeOK
<1>1. PICK rec \in RunState : run' = [run EXCEPT ![i] = rec] /\ Outcome(i, rec)
  BY CreateSteps
<1>2. run'[i] = rec /\ instance'.up = instance.up /\ instance'.root = instance.root
  BY <1>0, <1>1, CreateLeaves
<1> USE DEF EndsOnce, FilesOf, Over
<1>3. CASE Begins(i, rec)
  BY <1>2, <1>3 DEF Begins
<1>4. CASE Captures(i, rec)
  BY <1>2, <1>4 DEF Captures
<1>5. CASE Uploads(i, rec)
  <2>1. i \in images' /\ image'[i] = run[i].buf
    BY <1>0, <1>5 DEF Uploads
  <2> QED  BY <1>2, <1>5, <2>1 DEF Uploads
<1>6. CASE Lists(i, rec)
  BY <1>2, <1>6 DEF Lists, CopiesTo
<1>7. CASE Copies(i, rec)
  <2>1. PICK o \in run[i].keys : /\ CopiesTo(i, rec, run[i].keys \ {o})
                                /\ stored'[i] = stored[i] \cup {o}
    BY <1>0, <1>7 DEF Copies
  <2>2. stored'[i] \cup (run[i].keys \ {o}) = stored[i] \cup run[i].keys
    BY <2>1
  <2>3. run[i].pc = "copy" /\ UNCHANGED <<images, image>>
    BY <1>7 DEF Copies
  <2> QED  BY <1>2, <2>1, <2>2, <2>3 DEF CopiesTo
<1>8. CASE Ends(i, rec)
  BY <1>2, <1>8 DEF Ends
<1> QED  BY <1>1, <1>3, <1>4, <1>5, <1>6, <1>7, <1>8 DEF Outcome

\* The invariant of the catalogue under a step of a run.
LEMMA CreateKeepsCatalog ==
  ASSUME CatalogInvariant, NEW i \in Ids, Create(i)
  PROVE  CatalogInvariant'
<1>0. TypeOK /\ EndsOnce(i) /\ Seen /\ Replacing
  BY DEF CatalogInvariant
<1>f. /\ TypeOK'
      /\ \A j \in Ids \ {i} :
           run'[j] = run[j] /\ image'[j] = image[j] /\ stored'[j] = stored[j]
      /\ images \subseteq images' /\ \A j \in Ids : stored[j] \subseteq stored'[j]
      /\ run[i].pc \in Over =>
           /\ run'[i].pc \in Over /\ run'[i].kept = run[i].kept /\ run'[i].lost = run[i].lost
           /\ image'[i] = image[i] /\ stored'[i] = stored[i]
  BY <1>0, CreateFrame
<1>g. instance'.up = instance.up /\ instance'.root = instance.root /\ reader' = reader
  BY <1>0, CreateLeaves
<1>1. ASSUME NEW j \in Ids
      PROVE  EndsOnce(j)' /\ FilesOf(j)'
  <2>1. EndsOnce(j) /\ FilesOf(j)
    BY DEF CatalogInvariant
  <2>2. CASE j = i
    BY <2>1, <2>2, <1>0, CreateKeepsOwn
  <2>3. CASE j # i
    <3>1. run'[j] = run[j] /\ image'[j] = image[j] /\ stored'[j] = stored[j]
      BY <2>3, <1>f
    <3> QED  BY <2>1, <3>1, <1>f, <1>g DEF EndsOnce, FilesOf
  <2> QED  BY <2>2, <2>3
<1>2. Seen'
  <2>1. Prefixes \subseteq Prefixes'
    BY <1>f DEF Prefixes
  <2>2. \A j \in Ids : run[j].pc \in Over =>
          run'[j].pc \in Over /\ (j \in Prefixes' => j \in Prefixes)
    BY <1>f DEF Prefixes
  <2>3. reader.before \subseteq Ids
    BY <1>0 DEF TypeOK, ReaderState
  <2> QED  BY <1>0, <2>1, <2>2, <2>3, <1>f, <1>g DEF Seen
<1>3. Replacing'
  <2>1. \A j \in Ids : run[j].kept =>
          /\ run'[j].kept /\ run'[j].lost = run[j].lost
          /\ image'[j] = image[j] /\ stored'[j] = stored[j]
    <3>1. run[i].kept => run[i].pc \in Over
      BY <1>0 DEF EndsOnce
    <3> QED  BY <3>1, <1>f
  <2> QED  BY <1>0, <2>1, <1>f, <1>g DEF Replacing
<1> QED  BY <1>1, <1>2, <1>3, <1>f DEF CatalogInvariant

-----------------------------------------------------------------------------
(***************************************************************************)
(* A step of Milvus.                                                       *)
(***************************************************************************)
\* What Milvus stores it adds to its root prefix.
LEMMA StoreKeepsCatalog ==
  ASSUME CatalogInvariant, instance.up, NEW o \in Objects, NEW old, StoreFile(o, old)
  PROVE  CatalogInvariant'
<1>0. /\ TypeOK /\ instance \in InstanceState
      /\ instance.root \in SUBSET Objects /\ instance.etcd \in Etcd
  BY DEF CatalogInvariant, TypeOK, InstanceState
<1> DEFINE etcd == [instance.etcd EXCEPT !.refs = (instance.etcd.refs \ old) \cup {o}]
           root == instance.root \cup {o}
<1>1. etcd \in Etcd /\ root \in SUBSET Objects
  BY <1>0 DEF Etcd
<1>2. instance' = [instance EXCEPT !.root = root, !.etcd = etcd]
  BY <1>0 DEF StoreFile, InstanceState
<1>3. /\ instance' \in InstanceState /\ instance'.up = instance.up
      /\ instance'.root = instance.root \cup {o}
  <2> HIDE DEF etcd
  <2> QED  BY <1>0, <1>1, <1>2 DEF InstanceState
<1>4. UNCHANGED <<run, images, image, stored, reader, restores>> /\ written' \in SUBSET Objects
  BY <1>0 DEF StoreFile, TypeOK
<1> HIDE DEF etcd, root
<1>5. TypeOK'
  BY <1>0, <1>3, <1>4 DEF TypeOK
<1>6. \A i \in Ids : EndsOnce(i)' /\ FilesOf(i)'
  BY <1>3, <1>4 DEF CatalogInvariant, EndsOnce, FilesOf
<1>7. Seen'
  BY <1>4 DEF CatalogInvariant, Seen, Prefixes
<1>8. Replacing'
  BY <1>3, <1>4 DEF CatalogInvariant, Replacing
<1> QED  BY <1>5, <1>6, <1>7, <1>8 DEF CatalogInvariant

\* What it collects no run that holds a lease relies on.
LEMMA CollectKeepsCatalog ==
  ASSUME CatalogInvariant, NEW o \in Objects, CollectGarbage(o)
  PROVE  CatalogInvariant'
<1>0. TypeOK /\ instance \in InstanceState /\ instance.up /\ \A i \in Ids : run[i].lease # "held"
  BY DEF CatalogInvariant, TypeOK, CollectGarbage
<1>1. /\ instance' \in InstanceState /\ instance'.up = instance.up
      /\ UNCHANGED <<run, images, image, stored, written, reader, restores>>
  BY <1>0 DEF CollectGarbage, InstanceState
<1>2. TypeOK'
  BY <1>0, <1>1 DEF TypeOK
<1>3. \A i \in Ids : EndsOnce(i)' /\ FilesOf(i)'
  BY <1>0, <1>1 DEF CatalogInvariant, EndsOnce, FilesOf
<1>4. Seen'
  BY <1>1 DEF CatalogInvariant, Seen, Prefixes
<1>5. Replacing'
  BY <1>0, <1>1 DEF CatalogInvariant, Replacing
<1> QED  BY <1>2, <1>3, <1>4, <1>5 DEF CatalogInvariant

\* Leases that end, one by one or with Milvus, are only missed by what a lease
\* is needed for.
LeasesEnd ==
  /\ run' \in [Ids -> RunState]
  /\ \A i \in Ids :
       /\ run'[i].pc = run[i].pc /\ run'[i].result = run[i].result /\ run'[i].kept = run[i].kept
       /\ run'[i].buf = run[i].buf /\ run'[i].keys = run[i].keys /\ run'[i].lost = run[i].lost
       /\ run'[i].lease \in {run[i].lease, "over"}

LEMMA LeasesEndFor ==
  ASSUME CatalogInvariant, LeasesEnd, UNCHANGED <<images, image, stored>>,
         instance'.root = instance.root,
         \A i \in Ids : run'[i].lease = "held" => instance'.up
  PROVE  \A i \in Ids : EndsOnce(i)' /\ FilesOf(i)'
<1> SUFFICES ASSUME NEW i \in Ids  PROVE EndsOnce(i)' /\ FilesOf(i)'
  OBVIOUS
<1>1. EndsOnce(i) /\ FilesOf(i)
  BY DEF CatalogInvariant
<1>2. /\ run'[i].pc = run[i].pc /\ run'[i].result = run[i].result /\ run'[i].kept = run[i].kept
      /\ run'[i].buf = run[i].buf /\ run'[i].keys = run[i].keys /\ run'[i].lost = run[i].lost
      /\ run'[i].lease = "held" => run[i].lease = "held" /\ instance'.up
  BY DEF LeasesEnd
<1> QED  BY <1>1, <1>2 DEF EndsOnce, FilesOf

LEMMA ExpiryKeepsCatalog ==
  ASSUME CatalogInvariant, NEW i \in Ids, LeaseExpires(i)
  PROVE  CatalogInvariant'
<1>0. TypeOK /\ run \in [Ids -> RunState] /\ UNCHANGED <<images, image, stored, instance, written, reader, restores>>
  BY DEF CatalogInvariant, TypeOK, LeaseExpires
<1>1. LeasesEnd
  <2>1. [run[i] EXCEPT !.lease = "over"] \in RunState
    BY <1>0 DEF RunState
  <2>2. run' = [run EXCEPT ![i] = [@ EXCEPT !.lease = "over"]]
    BY DEF LeaseExpires
  <2>3. run' \in [Ids -> RunState]
    BY <1>0, <2>1, <2>2
  <2>4. run'[i] = [run[i] EXCEPT !.lease = "over"] /\ \A j \in Ids \ {i} : run'[j] = run[j]
    BY <1>0, <2>2
  <2>5. run[i] \in RunState
    BY <1>0
  <2> QED  BY <2>3, <2>4, <2>5 DEF LeasesEnd, RunState
<1>2. TypeOK'
  BY <1>0, <1>1 DEF TypeOK, LeasesEnd
<1>3. \A j \in Ids : EndsOnce(j)' /\ FilesOf(j)'
  <2>1. \A j \in Ids : run'[j].lease = "held" => instance'.up
    BY <1>0, <1>1 DEF LeasesEnd, CatalogInvariant, FilesOf
  <2> QED  BY <1>0, <1>1, <2>1, LeasesEndFor
<1>4. reader.before \subseteq Ids
  BY <1>0 DEF TypeOK, ReaderState
<1>5. Seen'
  BY <1>0, <1>1, <1>4 DEF CatalogInvariant, Seen, Prefixes, LeasesEnd
<1>6. Replacing'
  BY <1>0, <1>1 DEF CatalogInvariant, Replacing, LeasesEnd
<1> QED  BY <1>2, <1>3, <1>5, <1>6 DEF CatalogInvariant

-----------------------------------------------------------------------------
(***************************************************************************)
(* A step of the reader.                                                   *)
(***************************************************************************)
LEMMA ReaderTypes ==
  ASSUME TypeOK, Replacing,
         \/ BeginReading \/ ListImages \/ ListPrefixes \/ ListingFails \/ DeleteOne
         \/ ListArchive \/ CopyBack \/ StartFromSnapshot \/ RestoreFails
  PROVE  TypeOK'
<1>0. /\ instance \in InstanceState /\ reader \in ReaderState
      /\ reader.keys \in SUBSET Objects /\ reader.refused \in SUBSET Objects
      /\ stored \in [Ids -> SUBSET Objects] /\ image \in [Ids -> Etcd]
      /\ run \in [Ids -> RunState] /\ instance.root \in SUBSET Objects
  BY DEF TypeOK, ReaderState, InstanceState
<1>1. NoReader \in ReaderState
  BY DEF NoReader, ReaderState, NoId
<1>2. CASE BeginReading
  <2>1. reader' \in ReaderState
    BY <1>2, <1>1 DEF BeginReading, ReaderState
  <2> QED  BY <1>2, <2>1 DEF TypeOK, BeginReading
<1>3. CASE ListImages
  <2>1. reader' \in ReaderState
    BY <1>3, <1>0 DEF TypeOK, ListImages, ReaderState
  <2> QED  BY <1>3, <2>1 DEF TypeOK, ListImages
<1>4. CASE ListPrefixes
  <2>1. reader' \in ReaderState
    BY <1>4, <1>0 DEF ListPrefixes, ReaderState, Prefixes
  <2> QED  BY <1>4, <2>1 DEF TypeOK, ListPrefixes
<1>5. CASE ListingFails \/ RestoreFails
  BY <1>5, <1>1 DEF TypeOK, ListingFails, RestoreFails
<1>6. CASE DeleteOne
  <2>1. CASE reader.keys = {}
    <3>1. reader' \in ReaderState
      BY <1>0, <1>6, <2>1 DEF DeleteOne, ReaderState
    <3> QED  BY <1>6, <2>1, <3>1 DEF TypeOK, DeleteOne
  <2>2. CASE reader.keys # {}
    <3>1. PICK o \in reader.keys :
            \/ /\ instance' = [instance EXCEPT !.root = @ \ {o}]
               /\ reader' = [reader EXCEPT !.keys = @ \ {o}]
            \/ /\ reader' = [reader EXCEPT !.keys = @ \ {o}, !.refused = @ \cup {o}]
               /\ UNCHANGED instance
      BY <1>6, <2>2 DEF DeleteOne
    <3>2. reader.keys \ {o} \in SUBSET Objects /\ reader.refused \cup {o} \in SUBSET Objects
      BY <1>0, <3>1
    <3>3. reader' \in ReaderState
      <4>1. CASE reader' = [reader EXCEPT !.keys = @ \ {o}]
        BY <1>0, <3>2, <4>1 DEF ReaderState
      <4>2. CASE reader' = [reader EXCEPT !.keys = @ \ {o}, !.refused = @ \cup {o}]
        BY <1>0, <3>2, <4>2 DEF ReaderState
      <4> QED  BY <3>1, <4>1, <4>2
    <3>4. instance' \in InstanceState
      BY <1>0, <3>1 DEF InstanceState
    <3> QED  BY <1>6, <3>3, <3>4 DEF TypeOK, DeleteOne
  <2> QED  BY <2>1, <2>2
<1>7. CASE ListArchive
  <2>1. reader.id \in Ids
    BY <1>7 DEF ListArchive, Replacing
  <2>2. stored[reader.id] \in SUBSET Objects /\ run[reader.id].kept \in BOOLEAN
    BY <1>0, <2>1 DEF RunState
  <2>3. reader' \in ReaderState
    BY <1>7, <1>0, <2>2 DEF ListArchive, ReaderState
  <2> QED  BY <1>7, <2>3 DEF TypeOK, ListArchive
<1>8. CASE CopyBack
  <2>1. reader' \in ReaderState
    BY <1>8, <1>0 DEF CopyBack, ReaderState
  <2>2. instance' \in InstanceState
    BY <1>8, <1>0 DEF CopyBack, InstanceState
  <2> QED  BY <1>8, <2>1, <2>2 DEF TypeOK, CopyBack
<1>9. CASE StartFromSnapshot
  <2>1. reader' \in ReaderState
    BY <1>9, <1>1 DEF StartFromSnapshot, ReaderState
  <2>2. image[reader.id] \in Etcd
    BY <1>9, <1>0 DEF TypeOK, StartFromSnapshot
  <2>3. instance' \in InstanceState
    BY <1>9, <1>0, <2>2 DEF StartFromSnapshot, InstanceState
  <2> QED  BY <1>9, <2>1, <2>3 DEF TypeOK, StartFromSnapshot
<1> QED  BY <1>2, <1>3, <1>4, <1>5, <1>6, <1>7, <1>8, <1>9

\* What list and restore have in common changes the reader only.
LEMMA ReadingKeepsCatalog ==
  ASSUME CatalogInvariant, BeginReading \/ ListImages \/ ListPrefixes \/ ListingFails \/ RestoreFails
  PROVE  CatalogInvariant'
<1>0. TypeOK' /\ reader \in ReaderState
  BY ReaderTypes DEF CatalogInvariant, TypeOK
<1>1. UNCHANGED <<run, images, image, stored, instance>>
  BY DEF BeginReading, ListImages, ListPrefixes, ListingFails, RestoreFails
<1>2. \A i \in Ids : EndsOnce(i)' /\ FilesOf(i)'
  BY <1>1 DEF CatalogInvariant, EndsOnce, FilesOf
<1>3. Seen' /\ Replacing'
  <2> USE <1>0, <1>1 DEF CatalogInvariant, ReaderState, Seen, Replacing
  <2>1. CASE BeginReading
    <3>1. reader'.pc = "etcd" /\ reader'.before = {i \in Ids : run[i].result = "ok"}
      BY <2>1 DEF BeginReading, NoReader
    <3>2. \A i \in reader'.before : i \in images /\ run[i].pc \in Over
      BY <3>1 DEF EndsOnce
    <3> QED  BY <3>1, <3>2
  <2>2. CASE ListImages
    BY <2>2 DEF ListImages
  <2>3. CASE ListPrefixes
    BY <2>3 DEF ListPrefixes, Prefixes
  <2>4. CASE ListingFails \/ RestoreFails
    BY <2>4 DEF ListingFails, RestoreFails, NoReader
  <2> QED  BY <2>1, <2>2, <2>3, <2>4
<1> QED  BY <1>0, <1>2, <1>3 DEF CatalogInvariant

\* A restore takes Milvus down first, and with it every lease.
LEMMA TearDownKeepsCatalog ==
  ASSUME CatalogInvariant, TearDown
  PROVE  CatalogInvariant'
<1>0. /\ TypeOK /\ reader \in ReaderState /\ instance \in InstanceState
      /\ run \in [Ids -> RunState] /\ instance.root \in SUBSET Objects
  BY DEF CatalogInvariant, TypeOK, InstanceState
<1>1. PICK id \in {Resolve(reader.etcdIDs, reader.s3IDs)} \cup Ids :
        /\ id # NoId
        /\ reader' = [NoReader EXCEPT !.pc = "delete", !.id = id, !.keys = instance.root]
  BY DEF TearDown
<1>2. id \in Ids
  BY <1>0, <1>1, ResolveType DEF ReaderState
<1>3. /\ reader' \in ReaderState
      /\ reader'.pc = "delete" /\ reader'.id = id /\ reader'.keys = instance.root
      /\ reader'.sound = FALSE
  BY <1>0, <1>1, <1>2 DEF ReaderState, NoReader
<1>4. instance' \in InstanceState /\ ~instance'.up /\ instance'.root = instance.root
  BY <1>0 DEF TearDown, InstanceState, NoEtcd, Etcd
<1>5. run' = [i \in Ids |-> IF run[i].lease = "held" THEN [run[i] EXCEPT !.lease = "over"]
                           ELSE run[i]]
  BY DEF TearDown
<1>6. LeasesEnd /\ \A i \in Ids : run'[i].lease # "held"
  <2> SUFFICES ASSUME NEW i \in Ids
               PROVE  /\ run'[i] \in RunState /\ run'[i].lease # "held"
                      /\ run'[i].pc = run[i].pc /\ run'[i].result = run[i].result
                      /\ run'[i].kept = run[i].kept /\ run'[i].buf = run[i].buf
                      /\ run'[i].keys = run[i].keys /\ run'[i].lost = run[i].lost
                      /\ run'[i].lease \in {run[i].lease, "over"}
    BY <1>5 DEF LeasesEnd
  <2>1. run[i] \in RunState
    BY <1>0
  <2>2. CASE run[i].lease = "held"
    <3>1. run'[i] = [run[i] EXCEPT !.lease = "over"]
      BY <1>5, <2>2
    <3> QED  BY <2>1, <3>1 DEF RunState
  <2>3. CASE run[i].lease # "held"
    <3>1. run'[i] = run[i]
      BY <1>5, <2>3
    <3> QED  BY <2>1, <2>3, <3>1
  <2> QED  BY <2>2, <2>3
<1>7. UNCHANGED <<images, image, stored, written>> /\ restores' \in 0..MaxRestores
  BY <1>0, CatalogAssumption DEF TearDown, TypeOK
<1>8. TypeOK'
  BY <1>0, <1>3, <1>4, <1>6, <1>7 DEF TypeOK, LeasesEnd
<1>9. \A i \in Ids : EndsOnce(i)' /\ FilesOf(i)'
  BY <1>4, <1>6, <1>7, LeasesEndFor
<1>10. Seen' /\ Replacing'
  BY <1>2, <1>3, <1>4 DEF Seen, Replacing
<1> QED  BY <1>8, <1>9, <1>10 DEF CatalogInvariant

\* The steps of a restore: what is deleted and copied is what Replacing counts.
LEMMA ReplacingKeepsCatalog ==
  ASSUME CatalogInvariant, DeleteOne \/ ListArchive \/ CopyBack \/ StartFromSnapshot
  PROVE  CatalogInvariant'
<1>0. /\ TypeOK' /\ reader \in ReaderState /\ instance \in InstanceState
      /\ stored \in [Ids -> SUBSET Objects]
  BY ReaderTypes DEF CatalogInvariant, TypeOK
<1>1. UNCHANGED <<run, images, image, stored>> /\ reader.pc \in {"delete", "list", "copy", "start"}
  BY DEF DeleteOne, ListArchive, CopyBack, StartFromSnapshot
<1>2. ~instance.up /\ reader.id \in Ids /\ (reader.sound => run[reader.id].kept)
  BY <1>1 DEF CatalogInvariant, Replacing
<1>3. \A i \in Ids : EndsOnce(i)' /\ FilesOf(i)'
  BY <1>1, <1>2 DEF CatalogInvariant, EndsOnce, FilesOf
<1>4. ASSUME reader' \in ReaderState, reader'.pc \in {"delete", "list", "copy", "start", "restored"}
      PROVE  Seen'
  BY <1>4 DEF Seen
<1>5. CASE DeleteOne /\ reader.keys = {}
  <2>1. reader' = [reader EXCEPT !.pc = "list"] /\ UNCHANGED instance /\ reader.pc = "delete"
    BY <1>5 DEF DeleteOne
  <2>2. /\ reader'.pc = "list" /\ reader'.id = reader.id /\ reader'.sound = reader.sound
        /\ reader'.refused = reader.refused
    BY <1>0, <2>1 DEF ReaderState
  <2>3. Replacing'
    BY <1>1, <1>2, <1>5, <2>1, <2>2 DEF CatalogInvariant, Replacing
  <2> QED  BY <1>0, <1>3, <1>4, <2>2, <2>3 DEF CatalogInvariant, TypeOK
<1>6. CASE DeleteOne /\ reader.keys # {}
  <2>1. PICK o \in reader.keys :
          \/ /\ instance' = [instance EXCEPT !.root = @ \ {o}]
             /\ reader' = [reader EXCEPT !.keys = @ \ {o}]
          \/ /\ reader' = [reader EXCEPT !.keys = @ \ {o}, !.refused = @ \cup {o}]
             /\ UNCHANGED instance
    BY <1>6 DEF DeleteOne
  <2>2. reader.pc = "delete"
    BY <1>6 DEF DeleteOne
  <2>3. /\ reader'.pc = "delete" /\ reader'.id = reader.id /\ reader'.sound = reader.sound
        /\ ~instance'.up
        /\ \/ instance'.root = instance.root \ {o} /\ reader'.keys = reader.keys \ {o}
              /\ reader'.refused = reader.refused
           \/ instance'.root = instance.root /\ reader'.keys = reader.keys \ {o}
              /\ reader'.refused = reader.refused \cup {o}
    BY <1>0, <1>2, <2>1, <2>2 DEF ReaderState, InstanceState
  <2>4. instance.root \subseteq reader.keys \cup reader.refused
    BY <2>2 DEF CatalogInvariant, Replacing
  <2>5. instance'.root \subseteq reader'.keys \cup reader'.refused
    BY <2>3, <2>4
  <2>6. Replacing'
    BY <1>1, <1>2, <2>3, <2>5 DEF Replacing
  <2> QED  BY <1>0, <1>3, <1>4, <2>3, <2>6 DEF CatalogInvariant, TypeOK
<1>7. CASE ListArchive
  <2>1. /\ reader.pc = "list" /\ UNCHANGED instance
        /\ reader' = [reader EXCEPT !.pc = "copy", !.keys = stored[reader.id],
                                    !.sound = run[reader.id].kept]
    BY <1>7 DEF ListArchive
  <2>2. /\ reader'.pc = "copy" /\ reader'.id = reader.id /\ reader'.keys = stored[reader.id]
        /\ reader'.sound = run[reader.id].kept /\ reader'.refused = reader.refused
    BY <1>0, <2>1 DEF ReaderState
  <2>3. instance.root \subseteq reader.refused /\ FilesOf(reader.id)
    BY <1>2, <2>1 DEF CatalogInvariant, Replacing
  <2>4. Replacing'
    BY <1>1, <1>2, <2>1, <2>2, <2>3 DEF Replacing, FilesOf
  <2> QED  BY <1>0, <1>3, <1>4, <2>2, <2>4 DEF CatalogInvariant, TypeOK
<1>8. CASE CopyBack
  <2>1. /\ reader.pc = "copy"
        /\ instance.root \cup reader.keys \subseteq stored[reader.id] \cup reader.refused
        /\ reader.sound =>
             image[reader.id].refs \subseteq instance.root \cup reader.keys \cup run[reader.id].lost
    BY <1>8 DEF CopyBack, CatalogInvariant, Replacing
  <2>2. CASE reader.keys = {}
    <3>1. reader' = [reader EXCEPT !.pc = "start"] /\ UNCHANGED instance
      BY <1>8, <2>2 DEF CopyBack
    <3>2. /\ reader'.pc = "start" /\ reader'.id = reader.id /\ reader'.sound = reader.sound
          /\ reader'.refused = reader.refused
      BY <1>0, <3>1 DEF ReaderState
    <3>3. Replacing'
      BY <1>1, <1>2, <2>1, <2>2, <3>1, <3>2 DEF Replacing
    <3> QED  BY <1>0, <1>3, <1>4, <3>2, <3>3 DEF CatalogInvariant, TypeOK
  <2>3. CASE reader.keys # {}
    <3>1. PICK o \in reader.keys : /\ instance' = [instance EXCEPT !.root = @ \cup {o}]
                                   /\ reader' = [reader EXCEPT !.keys = @ \ {o}]
      BY <1>8, <2>3 DEF CopyBack
    <3>2. /\ reader'.pc = "copy" /\ reader'.id = reader.id /\ reader'.sound = reader.sound
          /\ reader'.refused = reader.refused /\ reader'.keys = reader.keys \ {o}
      BY <1>0, <2>1, <3>1 DEF ReaderState
    <3>3. ~instance'.up /\ instance'.root = instance.root \cup {o}
      BY <1>0, <1>2, <3>1 DEF InstanceState
    <3>4. instance'.root \cup reader'.keys = instance.root \cup reader.keys
      BY <3>1, <3>2, <3>3
    <3>5. Replacing'
      BY <1>1, <1>2, <2>1, <3>2, <3>3, <3>4 DEF Replacing
    <3> QED  BY <1>0, <1>3, <1>4, <3>2, <3>5 DEF CatalogInvariant, TypeOK
  <2> QED  BY <2>2, <2>3
<1>9. CASE StartFromSnapshot
  <2>1. reader'.pc = "restored"
    BY <1>9 DEF StartFromSnapshot, NoReader
  <2>2. Replacing'
    BY <2>1 DEF Replacing
  <2> QED  BY <1>0, <1>3, <1>4, <2>1, <2>2 DEF CatalogInvariant, TypeOK
<1> QED  BY <1>5, <1>6, <1>7, <1>8, <1>9

-----------------------------------------------------------------------------
(***************************************************************************)
(* The invariant, and what follows from it.                                *)
(***************************************************************************)
\* The invariant of the catalogue.
LEMMA CatalogInvariantHolds == Spec => []CatalogInvariant
<1>1. Init => CatalogInvariant
  BY InitTypes DEF Init, CatalogInvariant, EndsOnce, FilesOf, Seen, Replacing, NoReader
<1>2. CatalogInvariant /\ [Next]_vars => CatalogInvariant'
  <2> SUFFICES ASSUME CatalogInvariant, [Next]_vars  PROVE CatalogInvariant'
    OBVIOUS
  <2>1. CASE UNCHANGED vars
    BY <2>1 DEF vars, CatalogInvariant, TypeOK, EndsOnce, FilesOf, Seen, Replacing, Prefixes
  <2>2. CASE Milvus
    <3>1. ASSUME NEW o \in Objects, Write(o)  PROVE CatalogInvariant'
      BY <3>1, StoreKeepsCatalog DEF Write
    <3>2. ASSUME NEW old \in Objects, NEW o \in Objects, Compact(old, o)
          PROVE  CatalogInvariant'
      BY <3>2, StoreKeepsCatalog DEF Compact
    <3> QED  BY <2>2, <3>1, <3>2, ExpiryKeepsCatalog, CollectKeepsCatalog DEF Milvus
  <2> QED
    BY <2>1, <2>2, CreateKeepsCatalog, ReadingKeepsCatalog, TearDownKeepsCatalog,
       ReplacingKeepsCatalog DEF Next, Restore
<1> QED  BY <1>1, <1>2, PTL DEF Spec

\* Every variable keeps its type, for any number of IDs, files and restores.
THEOREM CatalogTypes == Spec => []TypeOK
BY CatalogInvariantHolds, PTL DEF CatalogInvariant

\* A finished snapshot is in both listings of a reader that started later.
LEMMA FinishedIsSeen ==
  ASSUME CatalogInvariant, reader.pc = "done"
  PROVE  /\ reader.etcdIDs \in SUBSET Ids /\ reader.s3IDs \in SUBSET Ids
         /\ \A i \in reader.before : stored[i] # {} => i \in reader.etcdIDs \cap reader.s3IDs
         /\ reader.etcdIDs \subseteq images /\ reader.s3IDs \subseteq Prefixes
<1>1. reader \in ReaderState
  BY DEF CatalogInvariant, TypeOK
<1> QED  BY <1>1 DEF CatalogInvariant, Seen, Prefixes, ReaderState

\* A snapshot finished before the listings is listed as complete, or pushed out
\* by as many newer ones as the list is long (list.go:50-121).
THEOREM FinishedSnapshotsAreListed == Spec => []FinishedIsListed
<1>1. CatalogInvariant => FinishedIsListed
  <2> SUFFICES ASSUME CatalogInvariant, reader.pc = "done", NEW i \in reader.before, stored[i] # {}
               PROVE  \/ i \in ShownComplete(reader.etcdIDs, reader.s3IDs)
                      \/ Cardinality({j \in Shown(reader.etcdIDs, reader.s3IDs) : j > i}) = MaxListed
    BY DEF FinishedIsListed
  <2> DEFINE all == reader.etcdIDs \cup reader.s3IDs
  <2>1. all \in SUBSET Ids /\ i \in reader.etcdIDs \cap reader.s3IDs /\ i \in all
    BY FinishedIsSeen
  <2>2. CASE i \in Newest(all)
    BY <2>1, <2>2 DEF ShownComplete, Shown
  <2>3. CASE i \notin Newest(all)
    BY <2>1, <2>3, NewestAreNewer DEF Shown
  <2> QED  BY <2>2, <2>3
<1> QED  BY <1>1, CatalogInvariantHolds, PTL

\* Resolving never falls back behind a snapshot that was finished before it
\* started, and resolves to one with both parts (restore.go:252-294).
THEOREM ResolvingFindsNewest == Spec => []ResolvesToNewest
<1>1. CatalogInvariant => ResolvesToNewest
  <2> SUFFICES ASSUME CatalogInvariant, reader.pc = "done"
               PROVE  LET id == Resolve(reader.etcdIDs, reader.s3IDs)
                      IN  /\ \A i \in reader.before : stored[i] # {} => id >= i
                          /\ id # NoId => id \in images /\ stored[id] # {}
    BY DEF ResolvesToNewest
  <2>1. /\ reader.etcdIDs \in SUBSET Ids /\ reader.s3IDs \in SUBSET Ids
        /\ \A i \in reader.before : stored[i] # {} => i \in reader.etcdIDs \cap reader.s3IDs
        /\ reader.etcdIDs \subseteq images /\ reader.s3IDs \subseteq Prefixes
    BY FinishedIsSeen
  <2> DEFINE id == Resolve(reader.etcdIDs, reader.s3IDs)
  <2>2. /\ id # NoId => id \in reader.etcdIDs \cap reader.s3IDs
        /\ \A i \in reader.etcdIDs \cap reader.s3IDs : id >= i
    BY <2>1, ResolveType
  <2> HIDE DEF id
  <2>3. id # NoId => id \in images /\ stored[id] # {}
    BY <2>1, <2>2 DEF Prefixes
  <2>4. \A i \in reader.before : stored[i] # {} => id >= i
    BY <2>1, <2>2
  <2> QED  BY <2>3, <2>4 DEF id
<1> QED  BY <1>1, CatalogInvariantHolds, PTL

\* The snapshot that restore takes is the newest that list shows as complete,
\* whatever the bucket holds (list.go:119, restore.go:288).
THEOREM ListAndRestoreAgree == Spec => []CommandsAgree
<1>1. TypeOK => CommandsAgree
  <2> DEFINE all      == images \cup Prefixes
             both     == images \cap Prefixes
             complete == ShownComplete(images, Prefixes)
  <2> SUFFICES ASSUME TypeOK, complete # {}
               PROVE  Resolve(images, Prefixes) = Max(complete)
    BY DEF CommandsAgree
  <2>0. Ids \subseteq Int
    BY DEF Ids
  <2>1. all \in SUBSET Ids /\ both \in SUBSET Ids /\ all \subseteq Int
    BY <2>0 DEF TypeOK, Prefixes
  <2>2. complete = Newest(all) \cap both /\ complete \in SUBSET Ids /\ both # {}
    BY <2>1 DEF ShownComplete, Shown
  <2>3. PICK m \in both : \A i \in both : m >= i
    BY <2>1, <2>2, HasGreatest
  <2>4. m \in Newest(all)
    <3>1. PICK x \in complete : TRUE
      OBVIOUS
    <3> DEFINE newer(i) == {j \in all : j > i}
    <3>2. Cardinality(newer(x)) < MaxListed
      BY <3>1, <2>2 DEF Newest
    <3>3. newer(m) \in SUBSET newer(x)
      <4>1. m >= x /\ m \in Int /\ x \in Int
        BY <3>1, <2>1, <2>2, <2>3
      <4> QED  BY <4>1, <2>1
    <3>4. newer(x) \in SUBSET Ids /\ newer(m) \in SUBSET Ids
      BY <2>1
    <3>5. Cardinality(newer(m)) <= Cardinality(newer(x))
      BY <3>3, <3>4, IdSetsAreFinite, FS_Subset
    <3>6. Cardinality(newer(m)) < MaxListed
      BY <3>2, <3>4, <3>5, IdSetsAreFinite, CatalogAssumption
    <3> QED  BY <3>6 DEF Newest
  <2>5. Max(complete) = m
    BY <2>2, <2>3, <2>4, MaxIsUnique
  <2>6. Resolve(images, Prefixes) = m
    BY <2>1, <2>2, <2>3, MaxIsUnique DEF Resolve
  <2> QED  BY <2>5, <2>6
<1> QED  BY <1>1, CatalogTypes, PTL

\* The archive of a run that still held its lease when it succeeded holds what
\* its image refers to, also when the lease expires, fails or is taken away by a
\* restore under other runs (create.go:97-150).
THEOREM ArchivesAreWhole == Spec => []ArchiveIsWhole
<1>1. CatalogInvariant => ArchiveIsWhole
  BY DEF CatalogInvariant, FilesOf, ArchiveIsWhole
<1> QED  BY <1>1, CatalogInvariantHolds, PTL

\* A restore that succeeds brings back every file that the image of such a run
\* refers to, and leaves none that is not of the archive but what S3 refused to
\* delete (restore.go:160-232, parallel.go:102).
THEOREM RestoresTheArchive == Spec => RestoredIsWhole
<1> DEFINE Restored ==
      reader.pc = "start" /\ reader'.pc = "restored" =>
        /\ reader.sound =>
             instance'.etcd.refs \subseteq instance'.root \cup run[reader.id].lost
        /\ instance'.root \subseteq stored[reader.id] \cup reader.refused
<1>1. CatalogInvariant /\ [Next]_vars => Restored
  <2> SUFFICES ASSUME CatalogInvariant, [Next]_vars, reader.pc = "start", reader'.pc = "restored"
               PROVE  /\ reader.sound =>
                           instance'.etcd.refs \subseteq instance'.root \cup run[reader.id].lost
                      /\ instance'.root \subseteq stored[reader.id] \cup reader.refused
    OBVIOUS
  <2>1. instance \in InstanceState
    BY DEF CatalogInvariant, TypeOK
  <2>2. StartFromSnapshot
    <3>1. ASSUME NEW i \in Ids, Create(i)  PROVE FALSE
      BY <3>1, CreateLeaves DEF CatalogInvariant
    <3>2. Milvus => FALSE
      BY DEF Milvus, LeaseExpires, Write, CollectGarbage, Compact, StoreFile
    <3>3. RestoreFails => FALSE
      BY DEF RestoreFails, NoReader
    <3> QED
      BY <3>1, <3>2, <3>3 DEF Next, Restore, vars, BeginReading, ListImages, ListPrefixes,
         ListingFails, TearDown, DeleteOne, ListArchive, CopyBack
  <2>3. instance'.etcd = image[reader.id] /\ instance'.root = instance.root
    BY <2>1, <2>2 DEF StartFromSnapshot, InstanceState
  <2> QED  BY <2>3 DEF CatalogInvariant, Replacing
<1> QED  BY <1>1, CatalogInvariantHolds, PTL DEF Spec, RestoredIsWhole

=============================================================================
