-------------------------- MODULE RestoreGatesProofs --------------------------
(***************************************************************************)
(* Proofs about RestoreGates and the configuration it loads, whatever keys *)
(* the layers set and whatever is typed at the gates.                      *)
(***************************************************************************)
EXTENDS RestoreGates, ConfigurationProofs

-----------------------------------------------------------------------------
(***************************************************************************)
(* Configuring.  The layers are read before anything else is done.         *)
(***************************************************************************)
LEMMA LoadedHasLayers ==
  ASSUME ConfigInvariant, ConfigNext, stage' = "loaded"
  PROVE  layers' # <<>>
<1>1. LoadConfig
  BY DEF ConfigNext, ReadConfig, MergeSecrets, MergeFlagFile, ReadLayer
<1>2. PICK content \in Contents("environment") :
        layers' = Append(layers, [found |-> TRUE, readable |-> TRUE, content |-> content])
  BY <1>1 DEF LoadConfig
<1> DEFINE file == [found |-> TRUE, readable |-> TRUE, content |-> content]
<1>3. 4 \in DOMAIN Layers /\ Layers[4] = "environment"
  BY FourLayers
<1>4. file \in FilesOf(Layers[4])
  BY <1>3 DEF FilesOf
<1>5. file \in AnyFile /\ layers \in Seq(AnyFile)
  BY <1>3, <1>4 DEF AnyFile, ConfigInvariant, InOrder
<1> HIDE DEF file
<1>6. Append(layers, file) # <<>>
  BY <1>5, AppendProperties
<1> QED  BY <1>2, <1>6 DEF file

\* Up to the point where the ID is resolved only the configuration changes.
ConfigFirst ==
  /\ ConfigInvariant
  /\ pc = "resolve" => stage = "loaded" /\ layers # <<>>

LEMMA ConfigFirstInvariant == Spec => []ConfigFirst
<1>1. Init => ConfigFirst
  BY ConfigInitially DEF Init, ConfigFirst
<1>2. ASSUME ConfigFirst, [Next]_vars
      PROVE  ConfigFirst'
  <2>1. CASE Configure
    <3>1. ConfigInvariant'
      BY <1>2, <2>1, ConfigStep DEF Configure, ConfigFirst
    <3>2. stage' = "loaded" => layers' # <<>>
      BY <1>2, <2>1, LoadedHasLayers DEF Configure, ConfigFirst
    <3>3. pc' = "resolve" => stage' = "loaded"
      BY <2>1 DEF Configure
    <3> QED  BY <3>1, <3>2, <3>3 DEF ConfigFirst
  <2>2. CASE ResolveId
    <3>1. stage = "loaded" /\ UNCHANGED <<stage, cfg>> /\ layers' = <<>> /\ settings' = Empty
      BY <1>2, <2>2 DEF ResolveId, ConfigFirst
    <3>2. ConfigInvariant'
      BY <1>2, <3>1, LayersForgotten DEF ConfigFirst
    <3> QED  BY <2>2, <3>2 DEF ConfigFirst, ResolveId
  <2>3. CASE UNCHANGED configVars /\ (pc' = "resolve" => pc = "resolve")
    BY <1>2, <2>3, ConfigStays DEF ConfigFirst, configVars
  <2>4. Gate1 => UNCHANGED configVars /\ pc' # "resolve"
    BY DEF Gate1, Confirm
  <2>5. Gate2 => UNCHANGED configVars /\ pc' # "resolve"
    BY DEF Gate2, Confirm
  <2>6. SuspendFlux \/ GetMilvusCR \/ CallFails => UNCHANGED configVars /\ pc' # "resolve"
    BY DEF SuspendFlux, GetMilvusCR, CallFails
  <2>7. UNCHANGED vars => UNCHANGED configVars /\ (pc' = "resolve" => pc = "resolve")
    BY DEF vars, gateVars
  <2> QED  BY <1>2, <2>1, <2>2, <2>3, <2>4, <2>5, <2>6, <2>7 DEF Next
<1> QED  BY <1>1, <1>2, PTL DEF Spec

\* Later layers override earlier ones: what Config holds for a key is what the
\* last layer that speaks of it says (root.go:101-155, memory-bank.md:45).
THEOREM LaterLayersOverride == Spec => []LaterOverrides
<1>1. ConfigFirst => LaterOverrides
  BY LoadedOverrides DEF ConfigFirst
<1> QED  BY <1>1, ConfigFirstInvariant, PTL

\* What `envs --values` prints is read back as the same Config (envs.go:43-90).
THEOREM EnvsReadBack == Spec => []EnvsRoundTrip
<1>1. ConfigFirst => EnvsRoundTrip
  BY LoadedIsReadBack DEF ConfigFirst
<1> QED  BY <1>1, ConfigFirstInvariant, PTL

-----------------------------------------------------------------------------
(***************************************************************************)
(* The ID.                                                                 *)
(***************************************************************************)
LEMMA SixSources ==
  /\ DOMAIN Sources = 1..6
  /\ Sources[1] = "SNAPSHOT_ID" /\ Sources[6] = "--snapshot-id"
  /\ \A i \in 1..4 : Sources[i + 1] = Layers[i]
<1> DEFINE S == {"SNAPSHOT_ID", "config.yaml", "secrets.yaml", "--config", "environment", "--snapshot-id"}
           first == <<"SNAPSHOT_ID">>
           last == <<"--snapshot-id">>
           some == first \o Layers
<1>1. /\ first \in Seq(S) /\ Len(first) = 1 /\ first[1] = "SNAPSHOT_ID"
      /\ last \in Seq(S) /\ Len(last) = 1 /\ last[1] = "--snapshot-id"
  BY OneWord
<1>2. Layers \in Seq(S) /\ Len(Layers) = 4
  BY DEF Layers
<1> HIDE DEF S, first, last
<1>3. /\ some \in Seq(S) /\ Len(some) = 5 /\ some[1] = "SNAPSHOT_ID"
      /\ \A i \in 1..4 : some[i + 1] = Layers[i]
  <2>1. /\ some \in Seq(S) /\ Len(some) = Len(first) + Len(Layers)
        /\ \A i \in 1..Len(first) + Len(Layers) :
             some[i] = IF i <= Len(first) THEN first[i] ELSE Layers[i - Len(first)]
    BY <1>1, <1>2, ConcatProperties
  <2> HIDE DEF some
  <2>2. \A i \in 1..4 : some[i + 1] = Layers[i]
    BY <1>1, <1>2, <2>1
  <2> QED  BY <1>1, <1>2, <2>1, <2>2
<1>4. Sources = some \o last
  BY DEF Sources, first, last
<1> HIDE DEF some
<1>5. /\ Sources \in Seq(S) /\ Len(Sources) = 6 /\ Sources[6] = "--snapshot-id"
      /\ \A i \in 1..5 : Sources[i] = some[i]
  <2>1. /\ some \o last \in Seq(S) /\ Len(some \o last) = Len(some) + Len(last)
        /\ \A i \in 1..Len(some) + Len(last) :
             (some \o last)[i] = IF i <= Len(some) THEN some[i] ELSE last[i - Len(some)]
    <3>1. some \in Seq(S) /\ last \in Seq(S)
      BY <1>1, <1>3
    <3> QED  BY <3>1, ConcatProperties, SMTT(30)
  <2>4. Len(some) = 5 /\ Len(last) = 1
    BY <1>1, <1>3
  <2>2. Sources \in Seq(S) /\ Len(Sources) = 6
    BY <1>4, <2>1, <2>4
  <2>3. \A i \in 1..6 : Sources[i] = IF i <= 5 THEN some[i] ELSE last[i - 5]
    <3>1. \A i \in 1..6 : (some \o last)[i] = IF i <= 5 THEN some[i] ELSE last[i - 5]
      BY <2>1, <2>4
    <3> QED  BY <1>4, <3>1
  <2> QED  BY <1>1, <2>2, <2>3
<1>6. DOMAIN Sources = 1..6
  BY <1>5, LenProperties
<1> QED  BY <1>3, <1>5, <1>6

LEMMA LayersDiffer ==
  ASSUME NEW i \in 1..4, NEW j \in 1..4, Layers[i] = Layers[j]
  PROVE  i = j
<1>1. (i = 1 \/ i = 2 \/ i = 3 \/ i = 4) /\ (j = 1 \/ j = 2 \/ j = 3 \/ j = 4)
  OBVIOUS
<1> QED  BY <1>1, FourLayers

LEMMA LayersAreFiles ==
  ASSUME NEW i \in 1..4
  PROVE  Layers[i] \notin {"", "latest", "SNAPSHOT_ID", "--snapshot-id", "default"}
<1>1. i = 1 \/ i = 2 \/ i = 3 \/ i = 4
  OBVIOUS
<1> QED  BY <1>1, FourLayers

LEMMA SnapshotIdIsKey ==
  SnapshotId \in Keys /\ ~IsBool(SnapshotId) /\ SnapshotId \notin DOMAIN Default
<1>1. <<"snapshot", "id">> \in Fields["restore"] /\ "restore" \in DOMAIN Fields
  BY DEF Fields
<1>2. SnapshotId \in {"restore"} \X Fields["restore"]
  BY <1>1 DEF SnapshotId
<1>3. SnapshotId \in Keys
  BY <1>1, <1>2 DEF Keys
<1> QED  BY <1>3 DEF SnapshotId, IsBool, Default

\* The layer whose ID no later one has taken back.
Standing(i) ==
  /\ i \in 1..Len(layers) /\ Speaks(i, SnapshotId)
  /\ \A j \in i..Len(layers) : Speaks(j, SnapshotId) => layers[j].content[SnapshotId] # ""

LEMMA GivenBy ==
  ASSUME ConfigInvariant
  PROVE  Given = {s \in {flagId, envId} : s # ""} \cup {Layers[i] : i \in {i \in 1..4 : Standing(i)}}
<1>1. DOMAIN layers = 1..Len(layers) /\ Len(layers) \in Nat /\ Len(layers) <= 4
  BY LayersDomain, LenProperties DEF ConfigInvariant, InOrder
<1>2. {i \in 1..4 : Standing(i)} =
        {i \in DOMAIN layers :
          /\ Speaks(i, SnapshotId)
          /\ \A j \in i..Len(layers) : Speaks(j, SnapshotId) => layers[j].content[SnapshotId] # ""}
  <2>1. \A i : i \in 1..4 /\ i \in 1..Len(layers) <=> i \in 1..Len(layers)
    BY <1>1
  <2> QED  BY <1>1, <2>1, Zenon DEF Standing
<1> QED  BY <1>2 DEF Given

\* The ID that Config holds is of the last layer that stands.
LEMMA ConfigGives ==
  ASSUME ConfigInvariant, stage = "loaded", layers # <<>>
  PROVE  \/ cfg[SnapshotId] = "" /\ \A j \in 1..4 : ~Standing(j)
         \/ \E i \in 1..4 : /\ cfg[SnapshotId] = Layers[i] /\ Standing(i)
                           /\ \A j \in 1..4 : Standing(j) => j <= i
<1>1. InOrder /\ Len(layers) \in Nat /\ Len(layers) <= 4
  BY LenProperties DEF ConfigInvariant, InOrder
<1>2. SnapshotId \in Keys /\ ~IsBool(SnapshotId) /\ SnapshotId \notin DOMAIN Default
  BY SnapshotIdIsKey
<1> HIDE DEF SnapshotId
<1>3. CASE Silent(SnapshotId) /\ cfg[SnapshotId] = Zero(SnapshotId)
  BY <1>1, <1>2, <1>3 DEF Silent, Standing, Zero
<1>4. CASE \E i \in 1..Len(layers) :
             IsLast(i, SnapshotId) /\ cfg[SnapshotId] = Decoded(SnapshotId, layers[i].content[SnapshotId])
  <2>1. PICK i \in 1..Len(layers) :
             IsLast(i, SnapshotId) /\ cfg[SnapshotId] = Decoded(SnapshotId, layers[i].content[SnapshotId])
    BY <1>4
  <2>2. cfg[SnapshotId] = layers[i].content[SnapshotId]
    BY <1>2, <2>1 DEF Decoded
  <2>3. layers[i] \in FilesOf(Layers[i]) /\ i \in 1..4 /\ i \in DOMAIN Layers
    BY <1>1, <2>1, FourLayers DEF InOrder
  <2>4. layers[i].content[SnapshotId] \in {Layers[i], ""}
    <3>1. SnapshotId \in DOMAIN layers[i].content
      BY <2>1 DEF IsLast, Speaks
    <3>2. layers[i].content[SnapshotId] \in Values(Layers[i], SnapshotId)
      BY <2>3, <3>1, FileOf
    <3> QED  BY <1>2, <3>2 DEF Values
  <2>5. Speaks(i, SnapshotId) /\ \A j \in 1..Len(layers) : Speaks(j, SnapshotId) => j <= i
    BY <2>1 DEF IsLast
  <2>6. \A j \in 1..4 : Standing(j) => j <= i
    BY <2>5 DEF Standing
  <2>7. CASE layers[i].content[SnapshotId] = ""
    <3>1. \A j \in 1..4 : ~Standing(j)
      <4> SUFFICES ASSUME NEW j \in 1..4, Standing(j)  PROVE FALSE
        OBVIOUS
      <4>1. i \in j..Len(layers)
        BY <1>1, <2>1, <2>6
      <4> QED  BY <2>5, <2>7, <4>1 DEF Standing
    <3> QED  BY <2>2, <2>7, <3>1
  <2>8. CASE layers[i].content[SnapshotId] = Layers[i]
    <3>1. Layers[i] # ""
      BY <2>3, LayersAreFiles
    <3>2. \A j \in i..Len(layers) : Speaks(j, SnapshotId) => j = i
      BY <1>1, <2>1, <2>5
    <3>3. Standing(i)
      BY <2>1, <2>5, <2>8, <3>1, <3>2 DEF Standing
    <3> QED  BY <2>2, <2>3, <2>6, <2>8, <3>3
  <2> QED  BY <2>4, <2>7, <2>8
<1> QED  BY <1>2, <1>3, <1>4 DEF ConfigInvariant, Loaded

-----------------------------------------------------------------------------
(***************************************************************************)
(* The gates.                                                              *)
(***************************************************************************)
\* A gate has the answer yes: a chunk that was read for it, or --force.
SaysYes(c) == Head(c) = "yes"

Yes(gate) == force \/ (Len(typed) >= gate /\ SaysYes(typed[gate]))

\* How far a run is, and what it was told.
GatesInvariant ==
  /\ typed \in Seq(Chunks) /\ force \in BOOLEAN /\ suspended \in BOOLEAN
  /\ pc \in {"config", "resolve", "gate1"} => typed = <<>> /\ ~suspended
  /\ pc = "suspend" => cfg[FluxName] # ""
  /\ pc \in {"suspend", "getCR", "gate2"} => Yes(1) /\ Len(typed) = IF force THEN 0 ELSE 1
  /\ Len(typed) <= 2
  /\ suspended => cfg[FluxName] # "" /\ Yes(1)
  /\ pc = "destructive" => Yes(1) /\ Yes(2)

\* The first chunk that is read, and the second.
LEMMA FirstChunk ==
  ASSUME NEW c \in Chunks
  PROVE  Append(<<>>, c) \in Seq(Chunks) /\ Len(Append(<<>>, c)) = 1 /\ Append(<<>>, c)[1] = c
<1>1. <<>> \in Seq(Chunks) /\ Len(<<>>) = 0
  BY EmptySeq
<1> QED  BY <1>1, AppendProperties

LEMMA SecondChunk ==
  ASSUME NEW s \in Seq(Chunks), Len(s) = 1, NEW c \in Chunks
  PROVE  /\ Append(s, c) \in Seq(Chunks) /\ Len(Append(s, c)) = 2
         /\ Append(s, c)[1] = s[1] /\ Append(s, c)[2] = c
<1>1. Append(s, c) \in Seq(Chunks) /\ Len(Append(s, c)) = Len(s) + 1
  BY AppendProperties
<1>2. Append(s, c)[Len(s) + 1] = c
  BY AppendProperties
<1>3. Append(s, c)[1] = s[1]
  BY 1 \in 1..Len(s), AppendedAt
<1>4. Append(s, c)[2] = c
  BY <1>2
<1> QED  BY <1>1, <1>2, <1>3, <1>4

\* A chunk that says yes answers the gate it was read for.
LEMMA AnswersGate ==
  ASSUME NEW gate \in Nat, Len(typed') >= gate, SaysYes(typed'[gate])
  PROVE  Yes(gate)'
  BY DEF Yes, SaysYes

LEMMA GatesInvariantHolds == Spec => []GatesInvariant
<1>1. Init => GatesInvariant
  <2>1. <<>> \in Seq(Chunks) /\ Len(<<>>) = 0 /\ Len(<<>>) <= 2
    BY EmptySeq
  <2> QED  BY <2>1 DEF Init, GatesInvariant
<1>2. GatesInvariant /\ [Next]_vars => GatesInvariant'
  <2>0. SUFFICES ASSUME GatesInvariant, [Next]_vars  PROVE GatesInvariant'
    OBVIOUS
  <2>t. typed \in Seq(Chunks) /\ Len(typed) <= 2 /\ force \in BOOLEAN /\ suspended \in BOOLEAN
    BY <2>0 DEF GatesInvariant
  <2> USE DEF FluxName
  <2>1. CASE Configure
    <3>1. /\ pc = "config" /\ pc' \in {"resolve", "error", "config"}
          /\ UNCHANGED <<typed, suspended>> /\ force' \in BOOLEAN
      BY <2>t, <2>1 DEF Configure
    <3> QED  BY <2>0, <3>1 DEF GatesInvariant
  <2>2. CASE ResolveId
    <3>1. /\ pc = "resolve" /\ pc' \in {"gate1", "error"}
          /\ UNCHANGED <<typed, suspended>> /\ force' \in BOOLEAN
      BY <2>t, <2>2 DEF ResolveId
    <3> QED  BY <2>0, <3>1 DEF GatesInvariant
  <2>3. ASSUME NEW yes, NEW no, Confirm(yes, no)
        PROVE  \/ pc' = no /\ (typed' = typed \/ \E c \in Chunks : typed' = Append(typed, c))
               \/ pc' = yes /\ \E c \in Chunks : typed' = Append(typed, c) /\ SaysYes(c)
    BY <2>3 DEF Confirm, SaysYes
  <2>4. CASE Gate1
    <3> DEFINE yes == IF cfg[FluxName] # "" THEN "suspend" ELSE "getCR"
    <3>1. /\ pc = "gate1" /\ UNCHANGED <<cfg, force, suspended>>
          /\ typed = <<>> /\ Len(typed) = 0 /\ ~suspended
      BY <2>0, <2>4, EmptySeq DEF Gate1, configVars, GatesInvariant
    <3>2. CASE force
      <4>1. pc' = yes /\ typed' = typed
        BY <2>4, <3>2 DEF Gate1
      <4>2. Yes(1)' /\ force'
        BY <3>1, <3>2 DEF Yes
      <4>3. Len(typed') = IF force' THEN 0 ELSE 1
        <5>1. Len(typed') = 0
          BY <3>1, <4>1
        <5> QED  BY <4>2, <5>1, Zenon
      <4>4. pc' \in {"suspend", "getCR"} /\ (pc' = "suspend" => cfg'[FluxName] # "")
        BY <3>1, <4>1
      <4> HIDE DEF yes
      <4> QED  BY <2>t, <3>1, <4>1, <4>2, <4>3, <4>4 DEF GatesInvariant
    <3>3. CASE ~force
      <4>1. Confirm(yes, "cancelled")
        BY <2>4, <3>3 DEF Gate1
      <4>2. CASE pc' = yes /\ \E c \in Chunks : typed' = Append(typed, c) /\ SaysYes(c)
        <5>1. PICK c \in Chunks : typed' = Append(typed, c) /\ SaysYes(c)
          BY <4>2
        <5>2. typed' \in Seq(Chunks) /\ Len(typed') = 1 /\ typed'[1] = c
          BY <3>1, <5>1, FirstChunk
        <5>3. Yes(1)'
          <6>1. Len(typed') >= 1 /\ SaysYes(typed'[1])
            BY <5>1, <5>2
          <6> QED  BY <6>1, AnswersGate
        <5>4. pc' \in {"suspend", "getCR"} /\ (pc' = "suspend" => cfg'[FluxName] # "")
          BY <3>1, <4>2
        <5>5. Len(typed') <= 2 /\ Len(typed') = IF force' THEN 0 ELSE 1
          BY <3>1, <3>3, <5>2
        <5> HIDE DEF yes
        <5> QED  BY <2>t, <3>1, <5>2, <5>3, <5>4, <5>5 DEF GatesInvariant
      <4>3. CASE /\ pc' = "cancelled"
                 /\ typed' = typed \/ \E c \in Chunks : typed' = Append(typed, c)
        <5>1. typed' \in Seq(Chunks) /\ Len(typed') <= 2
          <6>1. CASE typed' = typed
            BY <2>t, <6>1
          <6>2. CASE \E c \in Chunks : typed' = Append(typed, c)
            <7>1. PICK c \in Chunks : typed' = Append(<<>>, c)
              BY <3>1, <6>2
            <7>2. typed' \in Seq(Chunks) /\ Len(typed') = 1
              BY <7>1, FirstChunk
            <7> QED  BY <7>2
          <6> QED  BY <4>3, <6>1, <6>2
        <5> QED  BY <2>t, <3>1, <4>3, <5>1 DEF GatesInvariant
      <4> HIDE DEF yes
      <4> QED  BY <2>3, <4>1, <4>2, <4>3
    <3> QED  BY <3>2, <3>3
  <2>5. CASE SuspendFlux
    BY <2>0, <2>5 DEF SuspendFlux, configVars, GatesInvariant, Yes
  <2>6. CASE GetMilvusCR
    BY <2>0, <2>6 DEF GetMilvusCR, configVars, GatesInvariant, Yes
  <2>7. CASE Gate2
    <3>1. /\ pc = "gate2" /\ UNCHANGED <<cfg, force, suspended>>
          /\ Yes(1) /\ Len(typed) = IF force THEN 0 ELSE 1
          /\ suspended => cfg[FluxName] # ""
      BY <2>0, <2>7 DEF Gate2, configVars, GatesInvariant
    <3>2. CASE force
      <4>1. pc' = "destructive" /\ typed' = typed
        BY <2>7, <3>2 DEF Gate2
      <4> QED  BY <2>t, <3>1, <3>2, <4>1 DEF GatesInvariant, Yes
    <3>3. CASE ~force
      <4>1. Confirm("destructive", "cancelled")
        BY <2>7, <3>3 DEF Gate2
      <4>2. CASE \E c \in Chunks : typed' = Append(typed, c)
        <5>1. PICK c \in Chunks : typed' = Append(typed, c)
          BY <4>2
        <5>2. /\ typed' \in Seq(Chunks) /\ Len(typed) = 1 /\ Len(typed') = 2
              /\ typed'[1] = typed[1] /\ typed'[2] = c
          BY <2>t, <3>1, <3>3, <5>1, SecondChunk
        <5>3. ASSUME NEW d \in Chunks, typed' = Append(typed, d)
              PROVE  c = d
          BY <2>t, <3>1, <3>3, <5>2, <5>3, SecondChunk
        <5>4. pc' = "cancelled" \/ (pc' = "destructive" /\ SaysYes(typed'[2]))
          BY <2>3, <4>1, <4>2, <5>1, <5>2, <5>3
        <5>5. Yes(1)'
          <6>1. Len(typed') >= 1 /\ SaysYes(typed'[1])
            <7>1. SaysYes(typed[1])
              BY <3>1, <3>3 DEF Yes
            <7> QED  BY <5>2, <7>1 DEF SaysYes
          <6> QED  BY <6>1, AnswersGate
        <5>6. pc' = "destructive" => Yes(2)'
          <6>1. Len(typed') >= 2
            BY <5>2
          <6> QED  BY <5>4, <6>1, AnswersGate
        <5>7. suspended' => cfg'[FluxName] # ""
          BY <3>1
        <5>8. Len(typed') <= 2
          BY <5>2
        <5> QED  BY <2>t, <3>1, <5>2, <5>4, <5>5, <5>6, <5>7, <5>8 DEF GatesInvariant
      <4>3. CASE pc' = "cancelled" /\ typed' = typed
        <5>1. Yes(1)'
          BY <3>1, <4>3 DEF Yes
        <5> QED  BY <2>t, <3>1, <4>3, <5>1 DEF GatesInvariant
      <4> QED  BY <2>3, <4>1, <4>2, <4>3
    <3> QED  BY <3>2, <3>3
  <2>8. CASE CallFails
    <3>1. /\ pc \in {"suspend", "getCR"} /\ pc' = "error"
          /\ UNCHANGED <<cfg, force, typed>>
          /\ suspended' = suspended \/ (pc = "suspend" /\ suspended' = TRUE)
          /\ Yes(1) /\ (pc = "suspend" \/ suspended => cfg[FluxName] # "")
      BY <2>0, <2>8 DEF CallFails, configVars, GatesInvariant
    <3>2. Yes(1)'
      BY <3>1 DEF Yes
    <3>3. typed' \in Seq(Chunks) /\ Len(typed') <= 2 /\ force' \in BOOLEAN /\ suspended' \in BOOLEAN
      BY <2>t, <3>1
    <3>4. suspended' => cfg'[FluxName] # ""
      BY <3>1
    <3> QED  BY <3>1, <3>2, <3>3, <3>4 DEF GatesInvariant
  <2>9. CASE UNCHANGED vars
    BY <2>0, <2>9 DEF vars, gateVars, configVars, GatesInvariant, Yes
  <2> QED  BY <2>0, <2>1, <2>2, <2>4, <2>5, <2>6, <2>7, <2>8, <2>9 DEF Next
<1> QED  BY <1>1, <1>2, PTL DEF Spec

\* Flux is suspended only after a yes, and nothing is destroyed without one to
\* each gate, or --force (restore.go:92, restore.go:107, restore.go:124).
THEOREM GatesActOnConsent == Spec => []ActsOnConsent
<1>1. GatesInvariant => ActsOnConsent
  BY DEF GatesInvariant, ActsOnConsent, Yes, SaysYes
<1> QED  BY <1>1, GatesInvariantHolds, PTL

-----------------------------------------------------------------------------
(***************************************************************************)
(* The ID that is restored, and the types.                                 *)
(***************************************************************************)
Names == {"--snapshot-id", "SNAPSHOT_ID"} \cup {Layers[i] : i \in DOMAIN Layers}

\* What was asked on the command line and by SNAPSHOT_ID, and what came of it.
IdInvariant ==
  /\ ConfigFirst
  /\ flagId \in {"", "--snapshot-id"} /\ envId \in {"", "SNAPSHOT_ID"}
  /\ id \in {"", "latest"} \cup Names
  /\ given \subseteq Names
  /\ RestoresWhatWasAsked

\* The first ID that is not empty is of the source that counts most.
Resolvable ==
  /\ ConfigInvariant /\ stage = "loaded" /\ layers # <<>>
  /\ flagId \in {"", "--snapshot-id"} /\ envId \in {"", "SNAPSHOT_ID"}

LEMMA ChosenIsAsked ==
  ASSUME Resolvable
  PROVE  /\ ChosenId \in {""} \cup Names
         /\ Given \subseteq Names
         /\ ChosenId = "" => Given = {}
         /\ ChosenId # "" => \E i \in DOMAIN Sources :
               /\ ChosenId = Sources[i] /\ Sources[i] \in Given
               /\ \A j \in DOMAIN Sources : Sources[j] \in Given => j <= i
<1> DEFINE cfgId == cfg[SnapshotId]
<1>0. flagId \in {"", "--snapshot-id"} /\ envId \in {"", "SNAPSHOT_ID"}
  BY DEF Resolvable
<1>1. Given = {s \in {flagId, envId} : s # ""} \cup {Layers[i] : i \in {i \in 1..4 : Standing(i)}}
  BY GivenBy DEF Resolvable
<1>2. ChosenId = IF flagId # "" THEN flagId ELSE IF cfgId # "" THEN cfgId ELSE envId
  BY DEF ChosenId
<1>3. \/ cfgId = "" /\ \A j \in 1..4 : ~Standing(j)
      \/ \E i \in 1..4 : /\ cfgId = Layers[i] /\ Standing(i)
                         /\ \A j \in 1..4 : Standing(j) => j <= i
  BY ConfigGives DEF Resolvable
<1> HIDE DEF cfgId
<1>4. \A i \in 1..4 : Layers[i] \notin {"", "SNAPSHOT_ID", "--snapshot-id"}
  BY LayersAreFiles
<1>5. /\ DOMAIN Sources = 1..6 /\ Sources[1] = "SNAPSHOT_ID" /\ Sources[6] = "--snapshot-id"
      /\ \A i \in 1..4 : Sources[i + 1] = Layers[i]
  BY SixSources
<1>6. DOMAIN Layers = 1..4
  BY FourLayers
<1>7. Given \subseteq Names
  BY <1>0, <1>1, <1>6 DEF Names
<1>8. ASSUME NEW j \in 1..6, Sources[j] \in Given
      PROVE  \/ j = 1 /\ envId # ""
             \/ j = 6 /\ flagId # ""
             \/ j - 1 \in 1..4 /\ Standing(j - 1)
  <2>1. CASE j = 1
    BY <1>0, <1>1, <1>4, <1>5, <1>8, <2>1
  <2>2. CASE j = 6
    BY <1>0, <1>1, <1>4, <1>5, <1>8, <2>2
  <2>3. CASE j \notin {1, 6}
    <3>1. j - 1 \in 1..4 /\ (j - 1) + 1 = j
      BY <1>8, <2>3
    <3>2. Sources[j] = Layers[j - 1]
      BY <1>5, <3>1
    <3>3. PICK i \in 1..4 : Standing(i) /\ Sources[j] = Layers[i]
      BY <1>0, <1>1, <1>4, <1>8, <3>1, <3>2
    <3>4. i = j - 1
      BY <3>1, <3>2, <3>3, LayersDiffer
    <3> QED  BY <3>1, <3>3, <3>4
  <2> QED  BY <2>1, <2>2, <2>3
<1>9. CASE flagId # ""
  <2>1. ChosenId = Sources[6] /\ Sources[6] \in Given
    BY <1>0, <1>1, <1>2, <1>5, <1>9
  <2>3. 6 \in 1..6 /\ \A j \in 1..6 : j <= 6
    OBVIOUS
  <2>2. ChosenId \in Names /\ ChosenId # ""
    BY <1>0, <1>2, <1>9 DEF Names
  <2> QED  BY <1>5, <1>7, <2>1, <2>2, <2>3
<1>10. CASE flagId = "" /\ cfgId # ""
  <2>1. PICK i \in 1..4 : /\ cfgId = Layers[i] /\ Standing(i)
                          /\ \A j \in 1..4 : Standing(j) => j <= i
    BY <1>3, <1>10
  <2>2. ChosenId = Sources[i + 1] /\ Sources[i + 1] \in Given
    <3>1. Sources[i + 1] = Layers[i] /\ Layers[i] \in Given
      BY <1>1, <1>5, <2>1
    <3> QED  BY <1>2, <1>10, <2>1, <3>1
  <2>5. i + 1 \in 1..6
    OBVIOUS
  <2>3. ASSUME NEW j \in 1..6, Sources[j] \in Given
        PROVE  j <= i + 1
    <3>1. j = 1 \/ (j - 1 \in 1..4 /\ Standing(j - 1))
      BY <1>8, <1>10, <2>3
    <3>2. j - 1 \in 1..4 /\ Standing(j - 1) => j - 1 <= i
      BY <2>1
    <3>3. j \in 1..6
      BY <2>3
    <3> QED  BY <3>1, <3>2, <3>3
  <2>4. ChosenId \in Names /\ ChosenId # ""
    BY <1>2, <1>6, <1>10, <2>1 DEF Names
  <2> QED  BY <1>5, <1>7, <2>2, <2>3, <2>4, <2>5
<1>11. CASE flagId = "" /\ cfgId = ""
  <2>1. \A j \in 1..4 : ~Standing(j)
    BY <1>3, <1>4, <1>11
  <2>2. ChosenId = envId /\ Given = {s \in {envId} : s # ""}
    BY <1>1, <1>2, <1>11, <2>1
  <2>3. CASE envId = ""
    BY <1>7, <2>2, <2>3
  <2>4. CASE envId # ""
    <3>1. ChosenId = Sources[1] /\ Sources[1] \in Given
      <4>1. envId \in Given /\ envId = "SNAPSHOT_ID"
        BY <1>0, <2>2, <2>4
      <4> QED  BY <1>5, <2>2, <4>1
    <3>4. 1 \in 1..6
      OBVIOUS
    <3>2. ASSUME NEW j \in 1..6, Sources[j] \in Given
          PROVE  j <= 1
      <4>1. j = 1
        BY <1>8, <1>11, <2>1, <3>2
      <4> QED  BY <4>1
    <3>3. ChosenId \in Names /\ ChosenId # ""
      BY <1>0, <2>2, <2>4 DEF Names
    <3> QED  BY <1>5, <1>7, <3>1, <3>2, <3>3, <3>4
  <2> QED  BY <2>3, <2>4
<1> QED  BY <1>9, <1>10, <1>11

LEMMA IdInvariantHolds == Spec => []IdInvariant
<1>1. Init => IdInvariant
  <2> SUFFICES ASSUME Init  PROVE IdInvariant
    OBVIOUS
  <2>1. ConfigInvariant /\ pc = "config" /\ flagId = "" /\ envId = "" /\ id = "" /\ given = {}
    BY ConfigInitially DEF Init
  <2> QED  BY <2>1 DEF IdInvariant, ConfigFirst, RestoresWhatWasAsked
<1>2. ASSUME IdInvariant, ConfigFirst', [Next]_vars
      PROVE  IdInvariant'
  <2>1. CASE Configure
    <3>1. UNCHANGED <<id, given>> /\ pc' # "gate1"
      BY <2>1 DEF Configure
    <3>2. flagId' \in {"", "--snapshot-id"} /\ envId' \in {"", "SNAPSHOT_ID"}
      BY <1>2, <2>1 DEF Configure, IdInvariant
    <3> QED  BY <1>2, <3>1, <3>2 DEF IdInvariant, RestoresWhatWasAsked, Names
  <2>2. CASE ResolveId
    <3>1. Resolvable
      BY <1>2, <2>2 DEF IdInvariant, ConfigFirst, ResolveId, Resolvable
    <3>2. /\ ChosenId \in {""} \cup Names
          /\ Given \subseteq Names
          /\ ChosenId = "" => Given = {}
          /\ ChosenId # "" => \E i \in DOMAIN Sources :
                /\ ChosenId = Sources[i] /\ Sources[i] \in Given
                /\ \A j \in DOMAIN Sources : Sources[j] \in Given => j <= i
      BY <3>1, ChosenIsAsked
    <3>3. /\ given' = Given /\ UNCHANGED <<flagId, envId>>
          /\ \/ pc' = "gate1" /\ id' = IF ChosenId = "" THEN "latest" ELSE ChosenId
             \/ pc' = "error" /\ id' = id
      BY <2>2 DEF ResolveId
    <3>4. id' \in {"", "latest"} \cup Names /\ given' \subseteq Names
      BY <1>2, <3>2, <3>3 DEF IdInvariant
    <3>5. CASE ChosenId = ""
      <4>1. pc' = "gate1" => id' = "latest" /\ given' = {}
        BY <3>2, <3>3, <3>5
      <4>2. RestoresWhatWasAsked'
        BY <4>1 DEF RestoresWhatWasAsked
      <4> QED  BY <1>2, <3>3, <3>4, <4>2 DEF IdInvariant, Names
    <3>6. CASE ChosenId # ""
      <4>1. PICK i \in DOMAIN Sources :
              /\ ChosenId = Sources[i] /\ Sources[i] \in Given
              /\ \A j \in DOMAIN Sources : Sources[j] \in Given => j <= i
        BY <3>2, <3>6
      <4>2. pc' = "gate1" => id' = Sources[i] /\ given' # {}
        BY <3>3, <3>6, <4>1
      <4>3. RestoresWhatWasAsked'
        BY <3>3, <4>1, <4>2 DEF RestoresWhatWasAsked, Sources
      <4> QED  BY <1>2, <3>3, <3>4, <4>3 DEF IdInvariant, Names
    <3> QED  BY <3>5, <3>6
  <2>3. CASE UNCHANGED <<flagId, envId, id, given>> /\ (pc' = "gate1" => pc = "gate1")
    BY <1>2, <2>3 DEF IdInvariant, RestoresWhatWasAsked, Names, Sources
  <2>4. Gate1 => UNCHANGED <<flagId, envId, id, given>> /\ pc' # "gate1"
    BY DEF Gate1, Confirm
  <2>5. Gate2 => UNCHANGED <<flagId, envId, id, given>> /\ pc' # "gate1"
    BY DEF Gate2, Confirm
  <2>6. SuspendFlux \/ GetMilvusCR \/ CallFails =>
          UNCHANGED <<flagId, envId, id, given>> /\ pc' # "gate1"
    BY DEF SuspendFlux, GetMilvusCR, CallFails
  <2>7. UNCHANGED vars => UNCHANGED <<flagId, envId, id, given>> /\ (pc' = "gate1" => pc = "gate1")
    BY DEF vars, gateVars
  <2> QED  BY <1>2, <2>1, <2>2, <2>3, <2>4, <2>5, <2>6, <2>7 DEF Next
<1>3. IdInvariant /\ ConfigFirst' /\ [Next]_vars => IdInvariant'
  BY <1>2
<1> QED  BY <1>1, <1>3, ConfigFirstInvariant, PTL DEF Spec

\* The snapshot in front of the first gate is the one that was asked for by the
\* source that counts most and that nobody took back; the latest only if nobody
\* asked for one (restore.go:57-87).
THEOREM WhatIsAskedIsRestored == Spec => []RestoresWhatWasAsked
<1>1. IdInvariant => RestoresWhatWasAsked
  BY DEF IdInvariant
<1> QED  BY <1>1, IdInvariantHolds, PTL

AtStep ==
  pc \in {"config", "resolve", "gate1", "suspend", "getCR", "gate2", "destructive", "cancelled",
          "error"}

LEMMA StepsOfRestore == Spec => []AtStep
<1>1. Init => AtStep
  BY DEF Init, AtStep
<1>2. AtStep /\ [Next]_vars => AtStep'
  <2>1. Gate1 \/ Gate2 => AtStep'
    BY DEF Gate1, Gate2, Confirm, AtStep
  <2>2. Configure \/ ResolveId \/ SuspendFlux \/ GetMilvusCR \/ CallFails => AtStep'
    BY DEF Configure, ResolveId, SuspendFlux, GetMilvusCR, CallFails, AtStep
  <2>3. UNCHANGED vars /\ AtStep => AtStep'
    BY DEF vars, gateVars, AtStep
  <2> QED  BY <2>1, <2>2, <2>3 DEF Next
<1> QED  BY <1>1, <1>2, PTL DEF Spec

\* Every variable keeps its type: a setting is of a source that may set it, and
\* a Boolean one is decoded.
THEOREM GatesTypes == Spec => []TypeOK
<1>1. ASSUME IdInvariant, GatesInvariant, AtStep
      PROVE  TypeOK
  <2>1. ConfigTypeOK
    BY <1>1 DEF IdInvariant, ConfigFirst, ConfigInvariant
  <2>2. Len(typed) <= 2 /\ \A i \in DOMAIN typed : typed[i] \in Chunks
    <3>1. typed \in Seq(Chunks) /\ Len(typed) <= 2
      BY <1>1 DEF GatesInvariant
    <3> QED  BY <3>1, LenProperties, ElementOfSeq
  <2>3. force \in BOOLEAN /\ suspended \in BOOLEAN
    BY <1>1 DEF GatesInvariant
  <2> QED  BY <1>1, <2>1, <2>2, <2>3 DEF TypeOK, IdInvariant, Names, AtStep
<1>2. IdInvariant /\ GatesInvariant /\ AtStep => TypeOK
  BY <1>1
<1> QED  BY <1>2, IdInvariantHolds, GatesInvariantHolds, StepsOfRestore, PTL

=============================================================================
