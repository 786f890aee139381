-------------------------- MODULE ConfigurationProofs --------------------------
(***************************************************************************)
(* Proofs about Configuration: what the layers hold, how a key is found    *)
(* again under the name it is bound to, and what loading leaves in Config, *)
(* whatever keys each layer may set.                                       *)
(***************************************************************************)
EXTENDS Configuration, SequenceTheorems, TLAPS

-----------------------------------------------------------------------------
(***************************************************************************)
(* Keys and layers.                                                        *)
(***************************************************************************)
Sections == {"log", "aws", "milvus", "restore"}

Words == Sections \cup
  {"level", "format", "region", "endpoint", "local", "operator", "name", "namespace", "username",
   "password", "root", "bucket", "path", "backup", "etcd", "s3", "snapshot", "id", "storage",
   "class", "job", "service", "account", "image", "flux", "kustomization"}

LEMMA KeyOf ==
  ASSUME NEW k \in Keys
  PROVE  \E section \in Sections : \E tag \in Fields[section] : k = <<section, tag>>
<1>1. DOMAIN Fields = Sections
  BY DEF Fields, Sections
<1> QED  BY <1>1 DEF Keys

LEMMA OneWord == ASSUME NEW S, NEW a \in S  PROVE <<a>> \in Seq(S) /\ Len(<<a>>) = 1
  OBVIOUS
LEMMA TwoWords == ASSUME NEW S, NEW a \in S, NEW b \in S  PROVE <<a, b>> \in Seq(S)
  OBVIOUS
LEMMA ThreeWords == ASSUME NEW S, NEW a \in S, NEW b \in S, NEW c \in S  PROVE <<a, b, c>> \in Seq(S)
  OBVIOUS

LEMMA TagsAreWords ==
  ASSUME NEW section \in Sections
  PROVE  Fields[section] \subseteq Seq(Words)
<1>1. /\ Fields["log"] = {<<"level">>, <<"format">>}
      /\ Fields["aws"] = {<<"region">>, <<"endpoint">>}
  BY DEF Fields
<1>2. Fields["log"] \cup Fields["aws"] \subseteq Seq(Words)
  <2>1. {"level", "format", "region", "endpoint"} \subseteq Words
    BY DEF Words
  <2> QED  BY <1>1, <2>1, OneWord
<1>3. Fields["milvus"] \subseteq Seq(Words)
  <2>1. {"local", "operator", "name", "namespace", "username", "password", "root", "bucket",
         "path", "backup", "etcd", "s3"} \subseteq Words
    BY DEF Words
  <2>2. {<<"local">>, <<"namespace">>, <<"username">>, <<"password">>} \subseteq Seq(Words)
    BY <2>1, OneWord
  <2>3. {<<"operator", "name">>, <<"root", "bucket">>, <<"root", "path">>, <<"backup", "bucket">>}
          \subseteq Seq(Words)
    BY <2>1, TwoWords
  <2>4. {<<"backup", "etcd", "path">>, <<"backup", "s3", "path">>} \subseteq Seq(Words)
    BY <2>1, ThreeWords
  <2> QED  BY <2>2, <2>3, <2>4 DEF Fields
<1>4. Fields["restore"] \subseteq Seq(Words)
  <2>1. {"snapshot", "id", "storage", "class", "job", "service", "account", "image", "flux",
         "kustomization", "name", "namespace"} \subseteq Words
    BY DEF Words
  <2>2. {<<"snapshot", "id">>, <<"storage", "class">>, <<"job", "image">>} \subseteq Seq(Words)
    BY <2>1, TwoWords
  <2>3. {<<"job", "service", "account">>, <<"flux", "kustomization", "name">>,
         <<"flux", "kustomization", "namespace">>} \subseteq Seq(Words)
    BY <2>1, ThreeWords
  <2> QED  BY <2>2, <2>3 DEF Fields
<1> QED  BY <1>2, <1>3, <1>4 DEF Sections

\* A section and a tag are found again in the name they are bound to.
LEMMA HeadAndTail ==
  ASSUME NEW S, NEW a \in S, NEW b \in S, NEW s \in Seq(S), NEW t \in Seq(S),
         <<a>> \o s = <<b>> \o t
  PROVE  a = b /\ s = t
<1>1. <<a>> \in Seq(S) /\ <<b>> \in Seq(S) /\ Len(<<a>>) = 1 /\ Len(<<b>>) = 1
  BY OneWord
<1> DEFINE u == <<a>> \o s
           v == <<b>> \o t
<1>2. /\ Len(u) = Len(s) + 1 /\ u[1] = a
      /\ \A i \in 1..Len(s) : u[i + 1] = s[i]
  BY <1>1, ConcatProperties
<1>3. /\ Len(v) = Len(t) + 1 /\ v[1] = b
      /\ \A i \in 1..Len(t) : v[i + 1] = t[i]
  BY <1>1, ConcatProperties
<1>4. u = v
  OBVIOUS
<1>5. Len(s) \in Nat /\ Len(t) \in Nat
  BY LenProperties
<1> HIDE DEF u, v
<1>6. a = b /\ Len(s) = Len(t) /\ \A i \in 1..Len(s) : s[i] = t[i]
  BY <1>2, <1>3, <1>4, <1>5
<1> QED  BY <1>6, SeqEqual

LEMMA BoundOnce ==
  ASSUME NEW k \in Keys, NEW j \in Keys, BoundName(k) = BoundName(j)
  PROVE  k = j
<1>1. PICK a \in Sections : \E s \in Fields[a] : k = <<a, s>>
  BY KeyOf
<1>2. PICK s \in Fields[a] : k = <<a, s>>
  BY <1>1
<1>3. PICK b \in Sections : \E t \in Fields[b] : j = <<b, t>>
  BY KeyOf
<1>4. PICK t \in Fields[b] : j = <<b, t>>
  BY <1>3
<1>5. a \in Words /\ b \in Words /\ s \in Seq(Words) /\ t \in Seq(Words)
  BY TagsAreWords DEF Words
<1>6. <<a>> \o s = <<b>> \o t
  BY <1>2, <1>4 DEF BoundName
<1>7. a = b /\ s = t
  BY <1>5, <1>6, HeadAndTail
<1> QED  BY <1>2, <1>4, <1>7

\* The four layers; the environment is the last one.
LEMMA FourLayers ==
  /\ DOMAIN Layers = 1..4
  /\ Layers[1] = "config.yaml" /\ Layers[2] = "secrets.yaml" /\ Layers[3] = "--config"
  /\ Layers[4] = "environment"
  BY DEF Layers

LEMMA LayersAreNoBooleans ==
  ASSUME NEW i \in DOMAIN Layers
  PROVE  Layers[i] \notin {"true", "false"}
<1>1. i \in 1..4
  BY FourLayers
<1>2. i = 1 \/ i = 2 \/ i = 3 \/ i = 4
  BY <1>1
<1> QED  BY <1>2, FourLayers

\* What a layer may hold: values of keys.
LEMMA ContentOf ==
  ASSUME NEW i \in DOMAIN Layers, NEW c \in Contents(Layers[i])
  PROVE  /\ DOMAIN c \subseteq Keys
         /\ \A k \in DOMAIN c : c[k] \in Values(Layers[i], k)
<1>1. PICK ks \in SUBSET Written[Layers[i]] :
        /\ c \in [ks -> UNION {Values(Layers[i], k) : k \in ks}]
        /\ \A k \in ks : c[k] \in Values(Layers[i], k)
  BY DEF Contents
<1>2. DOMAIN c = ks /\ ks \subseteq Keys
  BY <1>1, ConfigurationAssumption
<1> QED  BY <1>1, <1>2

LEMMA FileOf ==
  ASSUME NEW i \in DOMAIN Layers, NEW f \in FilesOf(Layers[i])
  PROVE  /\ f.readable \in BOOLEAN /\ f.found \in BOOLEAN
         /\ DOMAIN f.content \subseteq Keys
         /\ \A k \in DOMAIN f.content : f.content[k] \in Values(Layers[i], k)
<1>1. CASE f \in {Absent, Malformed}
  <2>1. DOMAIN Empty = {}
    BY DEF Empty
  <2>2. CASE f = Absent
    BY <2>1, <2>2 DEF Absent
  <2>3. CASE f = Malformed
    BY <2>1, <2>3 DEF Malformed
  <2> QED  BY <1>1, <2>2, <2>3
<1>2. CASE f \in [found : {TRUE}, readable : {TRUE}, content : Contents(Layers[i])]
  BY <1>2, ContentOf
<1> QED  BY <1>1, <1>2 DEF FilesOf

\* What is appended comes after what was there.
LEMMA AppendedAt ==
  ASSUME NEW S, NEW s \in Seq(S), NEW e \in S, NEW n \in 1..Len(s)
  PROVE  Append(s, e)[n] = s[n]
  BY SMT

LEMMA AppendedLast ==
  ASSUME NEW S, NEW s \in Seq(S), NEW e \in S, NEW n \in Nat, n = Len(s) + 1
  PROVE  Append(s, e)[n] = e
  BY SMT

-----------------------------------------------------------------------------
(***************************************************************************)
(* Names.  No two keys are bound to one name, so what the environment sets *)
(* for a key is found under its name, and what envs prints of it is read   *)
(* back.                                                                   *)
(***************************************************************************)
LEMMA EnvironFinds ==
  ASSUME NEW c \in Contents("environment"), NEW k \in Keys
  PROVE  /\ BoundName(k) \in DOMAIN Environ(c) <=> k \in DOMAIN c
         /\ k \in DOMAIN c => Environ(c)[BoundName(k)] = c[k]
<1>1. DOMAIN c \subseteq Keys
  BY FourLayers, ContentOf
<1>2. DOMAIN Environ(c) = {BoundName(j) : j \in DOMAIN c}
  BY DEF Environ
<1>3. ASSUME k \in DOMAIN c
      PROVE  Environ(c)[BoundName(k)] = c[k]
  <2> DEFINE found == CHOOSE j \in DOMAIN c : BoundName(j) = BoundName(k)
  <2>1. Environ(c)[BoundName(k)] = c[found]
    BY <1>3 DEF Environ
  <2>2. found \in DOMAIN c /\ BoundName(found) = BoundName(k)
    BY <1>3, Zenon
  <2>3. found = k
    BY <1>1, <2>2, BoundOnce
  <2> QED  BY <2>1, <2>3
<1>4. ASSUME BoundName(k) \in DOMAIN Environ(c)
      PROVE  k \in DOMAIN c
  <2>1. PICK j \in DOMAIN c : BoundName(j) = BoundName(k)
    BY <1>2, <1>4
  <2> QED  BY <1>1, <2>1, BoundOnce
<1> QED  BY <1>2, <1>3, <1>4

\* The environment, unless empty; the files; the default.
LEMMA Found ==
  ASSUME NEW c \in Contents("environment"), NEW files, NEW k \in Keys
  PROVE  Lookup(Environ(c), files, k) =
           IF k \in DOMAIN c /\ c[k] # "" THEN c[k]
           ELSE IF k \in DOMAIN files THEN files[k]
           ELSE IF k \in DOMAIN Default THEN Default[k]
           ELSE ""
  BY EnvironFinds DEF Lookup

LEMMA DefaultIs == ASSUME NEW k \in DOMAIN Default  PROVE Default[k] = "default" /\ ~IsBool(k)
  BY DEF Default, IsBool

LEMMA PrintedIsExported ==
  ASSUME NEW config, NEW k \in Keys
  PROVE  /\ BoundName(k) \in DOMAIN Exported(PrintedValues(config))
         /\ Exported(PrintedValues(config))[BoundName(k)] = config[k]
<1> DEFINE lines == PrintedValues(config)
           line == <<BoundName(k), config[k]>>
           chosen == CHOOSE l \in lines : l[1] = BoundName(k)
<1>1. lines = {<<BoundName(j), config[j]>> : j \in Keys}
  BY DEF PrintedValues, PrintedName, BoundName
<1>2. line \in lines /\ line[1] = BoundName(k)
  BY <1>1
<1>3. chosen \in lines /\ chosen[1] = BoundName(k)
  BY <1>2, Zenon
<1>4. PICK j \in Keys : chosen = <<BoundName(j), config[j]>>
  BY <1>1, <1>3
<1>5. j = k
  BY <1>3, <1>4, BoundOnce
<1>6. DOMAIN Exported(lines) = {l[1] : l \in lines}
  BY DEF Exported
<1>7. BoundName(k) \in DOMAIN Exported(lines)
  BY <1>2, <1>6
<1>8. Exported(lines)[BoundName(k)] = chosen[2]
  BY <1>6, <1>7 DEF Exported
<1>9. chosen[2] = config[k]
  <2> HIDE DEF chosen
  <2> QED  BY <1>4, <1>5
<1> HIDE DEF chosen
<1> QED  BY <1>7, <1>8, <1>9

\* A Config that was printed and exported is loaded again.
LEMMA ReadBack ==
  ASSUME NEW config, NEW k \in Keys, IsBool(k) => config[k] # ""
  PROVE  Unmarshalled(Exported(PrintedValues(config)), Empty)[k] =
           IF config[k] = "" /\ k \in DOMAIN Default THEN Default[k] ELSE config[k]
<1> DEFINE env == Exported(PrintedValues(config))
<1>1. BoundName(k) \in DOMAIN env /\ env[BoundName(k)] = config[k]
  BY PrintedIsExported
<1>2. DOMAIN Empty = {}
  BY DEF Empty
<1>3. Unmarshalled(env, Empty)[k] = Decoded(k, Lookup(env, Empty, k))
  BY DEF Unmarshalled
<1> HIDE DEF env
<1>4. Lookup(env, Empty, k) =
        IF config[k] # "" THEN config[k] ELSE IF k \in DOMAIN Default THEN Default[k] ELSE ""
  BY <1>1, <1>2 DEF Lookup
<1>5. CASE config[k] # ""
  BY <1>3, <1>4, <1>5 DEF Decoded, env
<1>6. CASE config[k] = ""
  BY <1>3, <1>4, <1>6 DEF Decoded, env
<1> QED  BY <1>5, <1>6

-----------------------------------------------------------------------------
(***************************************************************************)
(* The layers that are read, and what is kept of them.                     *)
(***************************************************************************)
AnyFile == UNION {FilesOf(Layers[i]) : i \in DOMAIN Layers}

Value(k) == UNION {Values(Layers[i], k) : i \in DOMAIN Layers}

\* The layers are read in their order, each once.
InOrder ==
  /\ layers \in Seq(AnyFile)
  /\ Len(layers) <= 4
  /\ \A i \in 1..Len(layers) : layers[i] \in FilesOf(Layers[i])
  /\ stage = "config" => Len(layers) = 0
  /\ stage = "secrets" => Len(layers) = 1
  /\ stage = "flag" => Len(layers) = 2
  /\ stage = "env" => Len(layers) = 3

\* The last layer that speaks of a key, if one does.
IsLast(i, k) ==
  /\ i \in 1..Len(layers) /\ Speaks(i, k)
  /\ \A j \in 1..Len(layers) : Speaks(j, k) => j <= i

Silent(k) == \A i \in 1..Len(layers) : ~Speaks(i, k)

\* What viper holds while the files are read, and Config once it is loaded.
Kept ==
  stage \in {"config", "secrets", "flag", "env"} =>
    \A k \in Keys :
      \/ k \notin DOMAIN settings /\ Silent(k)
      \/ k \in DOMAIN settings /\ \E i \in 1..Len(layers) :
                                    IsLast(i, k) /\ settings[k] = layers[i].content[k]

Loaded ==
  stage = "loaded" /\ layers # <<>> =>
    \A k \in Keys :
      \/ Silent(k) /\ cfg[k] = IF k \in DOMAIN Default THEN Default[k] ELSE Zero(k)
      \/ \E i \in 1..Len(layers) : IsLast(i, k) /\ cfg[k] = Decoded(k, layers[i].content[k])

ConfigInvariant == ConfigTypeOK /\ InOrder /\ Kept /\ Loaded

LEMMA LayersDomain == ASSUME InOrder  PROVE DOMAIN layers = 1..Len(layers)
  BY LenProperties DEF InOrder

LEMMA ConfigInitially == ConfigInit => ConfigInvariant
<1> SUFFICES ASSUME ConfigInit  PROVE ConfigInvariant
  OBVIOUS
<1>1. stage = "config" /\ layers = <<>> /\ DOMAIN settings = {} /\ cfg = [k \in Keys |-> Zero(k)]
  BY DEF ConfigInit, Empty
<1>2. layers \in Seq(AnyFile) /\ Len(layers) = 0 /\ DOMAIN layers = {}
  BY <1>1, EmptySeq
<1>3. ConfigTypeOK
  <2>1. \A k \in Keys : cfg[k] = IF IsBool(k) THEN "false" ELSE ""
    BY <1>1 DEF Zero
  <2> QED  BY <1>1, <1>2, <2>1 DEF ConfigTypeOK
<1>4. InOrder
  BY <1>1, <1>2 DEF InOrder
<1>5. Kept
  BY <1>1, <1>2 DEF Kept, Silent
<1>6. Loaded
  BY <1>1 DEF Loaded
<1> QED  BY <1>3, <1>4, <1>5, <1>6 DEF ConfigInvariant

\* The layer that is read next.
LEMMA LayerIsRead ==
  ASSUME InOrder, NEW n \in 0..3, Len(layers) = n, NEW file \in FilesOf(Layers[n + 1]),
         layers' = Append(layers, file)
  PROVE  /\ layers' \in Seq(AnyFile) /\ Len(layers') = n + 1
         /\ \A i \in 1..n : layers'[i] = layers[i]
         /\ layers'[n + 1] = file
         /\ \A i \in 1..(n + 1) : layers'[i] \in FilesOf(Layers[i])
<1>1. n + 1 \in DOMAIN Layers /\ file \in AnyFile
  BY FourLayers DEF AnyFile
<1>2. layers \in Seq(AnyFile) /\ \A i \in 1..n : layers[i] \in FilesOf(Layers[i])
  BY DEF InOrder
<1>3. layers' \in Seq(AnyFile) /\ Len(layers') = n + 1
  BY <1>1, <1>2, AppendProperties
<1>4. \A i \in 1..n : layers'[i] = layers[i]
  BY <1>1, <1>2, AppendedAt
<1>5. layers'[n + 1] = file
  BY <1>1, <1>2, AppendedLast
<1> QED  BY <1>2, <1>3, <1>4, <1>5

\* It speaks of what it holds, and the earlier ones of what they did.
LEMMA NextSpeaks ==
  ASSUME NEW n \in 0..3, NEW k,
         \A i \in 1..n : layers'[i] = layers[i]
  PROVE  /\ \A i \in 1..n : Speaks(i, k)' <=> Speaks(i, k)
         /\ Speaks(n + 1, k)' <=>
              /\ layers'[n + 1].readable /\ k \in DOMAIN layers'[n + 1].content
              /\ n = 3 => layers'[n + 1].content[k] # ""
<1>1. Layers[n + 1] = "environment" <=> n = 3
  BY FourLayers
<1>2. \A i \in 1..n : Speaks(i, k)' <=> Speaks(i, k)
  BY DEF Speaks
<1>3. Speaks(n + 1, k)' <=>
        /\ layers'[n + 1].readable /\ k \in DOMAIN layers'[n + 1].content
        /\ n = 3 => layers'[n + 1].content[k] # ""
  BY <1>1 DEF Speaks
<1> QED  BY <1>2, <1>3

\* Who speaks last once one more layer is read.
LEMMA NextIsLast ==
  ASSUME NEW n \in 0..3, Len(layers) = n, Len(layers') = n + 1, NEW k,
         \A i \in 1..n : layers'[i] = layers[i]
  PROVE  /\ Speaks(n + 1, k)' => IsLast(n + 1, k)'
         /\ ~Speaks(n + 1, k)' =>
              /\ Silent(k) => Silent(k)'
              /\ \A i \in 1..n : IsLast(i, k) => IsLast(i, k)'
<1>1. \A i \in 1..n : Speaks(i, k)' <=> Speaks(i, k)
  BY NextSpeaks
<1>2. 1..(n + 1) = (1..n) \cup {n + 1}
  OBVIOUS
<1>3. ASSUME Speaks(n + 1, k)'
      PROVE  IsLast(n + 1, k)'
  BY <1>3 DEF IsLast
<1>4. ASSUME ~Speaks(n + 1, k)', Silent(k)
      PROVE  Silent(k)'
  BY <1>1, <1>2, <1>4 DEF Silent
<1>5. ASSUME ~Speaks(n + 1, k)', NEW i \in 1..n, IsLast(i, k)
      PROVE  IsLast(i, k)'
  BY <1>1, <1>2, <1>5 DEF IsLast
<1> QED  BY <1>3, <1>4, <1>5

\* A file is merged over what was read before it.
LEMMA FileIsMerged ==
  ASSUME ConfigInvariant, stage \in {"config", "secrets", "flag"},
         NEW n \in 0..2, Len(layers) = n, NEW file \in FilesOf(Layers[n + 1]), NEW next,
         ReadLayer(file, next),
         next \in {"secrets", "flag", "env", "failed"},
         next = "secrets" => n = 0, next = "flag" => n = 1, next = "env" => n = 2
  PROVE  ConfigInvariant'
<1>1. InOrder /\ Kept /\ ConfigTypeOK
  BY DEF ConfigInvariant
<1>2. stage' = next /\ layers' = Append(layers, file) /\ cfg' = cfg
  BY DEF ReadLayer
<1>3. n \in 0..3
  OBVIOUS
<1>4. /\ layers' \in Seq(AnyFile) /\ Len(layers') = n + 1
      /\ \A i \in 1..n : layers'[i] = layers[i]
      /\ layers'[n + 1] = file
      /\ \A i \in 1..(n + 1) : layers'[i] \in FilesOf(Layers[i])
  BY <1>1, <1>2, <1>3, LayerIsRead
<1>5. n + 1 \in DOMAIN Layers
  BY FourLayers
<1>6. /\ file.readable \in BOOLEAN
      /\ DOMAIN file.content \subseteq Keys
      /\ \A k \in DOMAIN file.content : file.content[k] \in Values(Layers[n + 1], k)
  BY <1>5, FileOf
<1>7. \A k : k \in DOMAIN settings' <=>
              k \in DOMAIN settings \/ (file.readable /\ k \in DOMAIN file.content)
  BY <1>6 DEF ReadLayer, Merged
<1>8. \A k \in DOMAIN settings' :
        settings'[k] = IF file.readable /\ k \in DOMAIN file.content
                         THEN file.content[k] ELSE settings[k]
  BY <1>6 DEF ReadLayer, Merged
<1>9. InOrder'
  BY <1>2, <1>4 DEF InOrder
<1>10. ConfigTypeOK'
  <2>1. DOMAIN settings \subseteq Keys /\ \A k \in DOMAIN settings : settings[k] \in Value(k)
    BY <1>1 DEF ConfigTypeOK, Value
  <2>2. DOMAIN settings' \subseteq Keys
    BY <1>6, <1>7, <2>1
  <2>3. \A k \in DOMAIN settings' : settings'[k] \in Value(k)
    <3>1. TAKE k \in DOMAIN settings'
    <3>2. CASE file.readable /\ k \in DOMAIN file.content
      BY <1>5, <1>6, <1>8, <3>2 DEF Value
    <3>3. CASE ~(file.readable /\ k \in DOMAIN file.content)
      BY <1>7, <1>8, <2>1, <3>3
    <3> QED  BY <3>2, <3>3
  <2>4. \A i \in DOMAIN layers' : layers'[i] \in FilesOf(Layers[i])
    <3>1. DOMAIN layers' = 1..(n + 1)
      BY <1>4, LenProperties
    <3> QED  BY <1>4, <3>1
  <2> QED  BY <1>1, <1>2, <2>2, <2>3, <2>4 DEF ConfigTypeOK, Value
<1>11. Kept'
  <2> SUFFICES ASSUME NEW k \in Keys
               PROVE  \/ k \notin DOMAIN settings' /\ Silent(k)'
                      \/ k \in DOMAIN settings' /\ \E i \in 1..(n + 1) :
                            IsLast(i, k)' /\ settings'[k] = layers'[i].content[k]
    BY <1>4 DEF Kept
  <2>1. Speaks(n + 1, k)' <=> file.readable /\ k \in DOMAIN file.content
    <3>1. Speaks(n + 1, k)' <=>
            /\ layers'[n + 1].readable /\ k \in DOMAIN layers'[n + 1].content
            /\ n = 3 => layers'[n + 1].content[k] # ""
      BY <1>3, <1>4, NextSpeaks
    <3>2. n # 3
      OBVIOUS
    <3> QED  BY <1>4, <3>1, <3>2, Zenon
  <2>2. /\ Speaks(n + 1, k)' => IsLast(n + 1, k)'
        /\ ~Speaks(n + 1, k)' =>
             /\ Silent(k) => Silent(k)'
             /\ \A i \in 1..n : IsLast(i, k) => IsLast(i, k)'
    BY <1>3, <1>4, NextIsLast
  <2>3. CASE Speaks(n + 1, k)'
    BY <1>4, <1>7, <1>8, <2>1, <2>2, <2>3
  <2>4. CASE ~Speaks(n + 1, k)' /\ k \notin DOMAIN settings
    BY <1>1, <1>7, <2>1, <2>2, <2>4 DEF Kept
  <2>5. CASE ~Speaks(n + 1, k)' /\ k \in DOMAIN settings
    <3>1. PICK i \in 1..n : IsLast(i, k) /\ settings[k] = layers[i].content[k]
      BY <1>1, <2>5 DEF Kept
    <3>2. i \in 1..(n + 1) /\ IsLast(i, k)' /\ layers'[i] = layers[i]
      BY <1>4, <2>2, <2>5, <3>1
    <3>3. k \in DOMAIN settings' /\ settings'[k] = settings[k]
      BY <1>7, <1>8, <2>1, <2>5
    <3> QED  BY <3>1, <3>2, <3>3
  <2> QED  BY <2>3, <2>4, <2>5
<1>12. Loaded'
  BY <1>2 DEF Loaded
<1> QED  BY <1>9, <1>10, <1>11, <1>12 DEF ConfigInvariant

\* The files that may be read first.
LEMMA NextFile ==
  ASSUME ConfigInvariant, ReadConfig \/ MergeSecrets \/ MergeFlagFile
  PROVE  ConfigInvariant'
<1>0. InOrder
  BY DEF ConfigInvariant
<1>1. CASE ReadConfig
  <2>1. PICK file \in FilesOf("config.yaml") : stage = "config" /\ ReadLayer(file, "secrets")
    BY <1>1 DEF ReadConfig
  <2>2. Len(layers) = 0 /\ 0 \in 0..2 /\ file \in FilesOf(Layers[0 + 1])
    BY <1>0, <2>1, FourLayers DEF InOrder
  <2> QED  BY <2>1, <2>2, FileIsMerged
<1>2. CASE MergeSecrets
  <2>1. PICK file \in FilesOf("secrets.yaml") : stage = "secrets" /\ ReadLayer(file, "flag")
    BY <1>2 DEF MergeSecrets
  <2>2. Len(layers) = 1 /\ 1 \in 0..2 /\ file \in FilesOf(Layers[1 + 1])
    BY <1>0, <2>1, FourLayers DEF InOrder
  <2> QED  BY <2>1, <2>2, FileIsMerged
<1>3. CASE MergeFlagFile
  <2>1. Absent \in FilesOf("--config")
    BY DEF FilesOf
  <2>2. PICK file \in FilesOf("--config"), next \in {"env", "failed"} :
          stage = "flag" /\ ReadLayer(file, next)
    BY <1>3, <2>1 DEF MergeFlagFile
  <2>3. Len(layers) = 2 /\ 2 \in 0..2 /\ file \in FilesOf(Layers[2 + 1])
    BY <1>0, <2>2, FourLayers DEF InOrder
  <2> QED  BY <2>2, <2>3, FileIsMerged
<1> QED  BY <1>1, <1>2, <1>3

\* What is decoded of a value is a Boolean for the one key that is one.
LEMMA DecodedIs ==
  ASSUME NEW k \in Keys, NEW value,
         \/ value = ""
         \/ k \in DOMAIN Default /\ value = Default[k]
         \/ \E i \in DOMAIN Layers : value \in Values(Layers[i], k),
         Decodes(k, value)
  PROVE  /\ Decoded(k, value) \in {"", "default", "true", "false"} \cup {Layers[i] : i \in DOMAIN Layers}
         /\ IsBool(k) <=> Decoded(k, value) \in {"true", "false"}
<1>1. CASE IsBool(k)
  BY <1>1 DEF Decodes, Decoded
<1>2. CASE ~IsBool(k)
  <2>1. \A i \in DOMAIN Layers : Layers[i] \notin {"true", "false"}
    BY LayersAreNoBooleans
  <2>2. value \in {"", "default"} \cup {Layers[i] : i \in DOMAIN Layers}
    BY <1>2, DefaultIs DEF Values
  <2> QED  BY <1>2, <2>1, <2>2 DEF Decoded
<1> QED  BY <1>1, <1>2

\* The environment is looked at, and what is found is decoded into Config.
LEMMA EnvironmentIsLoaded ==
  ASSUME ConfigInvariant, LoadConfig
  PROVE  ConfigInvariant'
<1>1. InOrder /\ Kept /\ ConfigTypeOK /\ stage = "env"
  BY DEF ConfigInvariant, LoadConfig
<1>2. PICK content \in Contents("environment") :
        /\ layers' = Append(layers, [found |-> TRUE, readable |-> TRUE, content |-> content])
        /\ IF \A k \in Keys : Decodes(k, Lookup(Environ(content), settings, k))
             THEN stage' = "loaded" /\ cfg' = Unmarshalled(Environ(content), settings)
             ELSE stage' = "failed" /\ UNCHANGED cfg
  BY DEF LoadConfig
<1> DEFINE file == [found |-> TRUE, readable |-> TRUE, content |-> content]
           value(k) == Lookup(Environ(content), settings, k)
<1>3. settings' = settings
  BY DEF LoadConfig
<1>4. Len(layers) = 3 /\ 3 \in 0..3 /\ Layers[4] = "environment" /\ 4 \in DOMAIN Layers /\ 3 + 1 = 4
  BY <1>1, FourLayers DEF InOrder
<1>5. file \in FilesOf(Layers[3 + 1]) /\ file.readable /\ file.content = content
  BY <1>4 DEF FilesOf
<1>6. layers' = Append(layers, file)
  BY <1>2
<1> HIDE DEF file
<1>7. /\ layers' \in Seq(AnyFile) /\ Len(layers') = 4
      /\ \A i \in 1..3 : layers'[i] = layers[i]
      /\ layers'[4] = file
      /\ \A i \in 1..4 : layers'[i] \in FilesOf(Layers[i])
  BY <1>1, <1>4, <1>5, <1>6, LayerIsRead
<1>8. /\ DOMAIN content \subseteq Keys
      /\ \A k \in DOMAIN content : content[k] \in Values(Layers[4], k)
  BY <1>4, ContentOf
<1>9. InOrder'
  <2>1. stage' \in {"loaded", "failed"}
    BY <1>2
  <2> QED  BY <1>7, <2>1 DEF InOrder
<1>10. ASSUME NEW k \in Keys
       PROVE  value(k) =
                IF k \in DOMAIN content /\ content[k] # "" THEN content[k]
                ELSE IF k \in DOMAIN settings THEN settings[k]
                ELSE IF k \in DOMAIN Default THEN Default[k]
                ELSE ""
  BY Found
<1> HIDE DEF value
<1>11. /\ DOMAIN settings \subseteq Keys /\ \A k \in DOMAIN settings : settings[k] \in Value(k)
  BY <1>1 DEF ConfigTypeOK, Value
<1>12. CASE stage' = "failed" /\ cfg' = cfg
  <2>1. DOMAIN layers' = 1..4
    BY <1>7, LenProperties
  <2>2. ConfigTypeOK'
    BY <1>1, <1>3, <1>7, <1>12, <2>1 DEF ConfigTypeOK
  <2>3. Kept' /\ Loaded'
    BY <1>12 DEF Kept, Loaded
  <2> QED  BY <1>9, <2>2, <2>3 DEF ConfigInvariant
<1>13. CASE /\ stage' = "loaded" /\ \A k \in Keys : Decodes(k, value(k))
            /\ cfg' = [k \in Keys |-> Decoded(k, value(k))]
  <2>1. ASSUME NEW k \in Keys
        PROVE  /\ cfg'[k] \in {"", "default", "true", "false"} \cup {Layers[i] : i \in DOMAIN Layers}
               /\ IsBool(k) <=> cfg'[k] \in {"true", "false"}
    <3>1. \/ value(k) = ""
          \/ k \in DOMAIN Default /\ value(k) = Default[k]
          \/ \E i \in DOMAIN Layers : value(k) \in Values(Layers[i], k)
      <4>1. CASE k \in DOMAIN content /\ content[k] # ""
        BY <1>4, <1>8, <1>10, <4>1
      <4>2. CASE ~(k \in DOMAIN content /\ content[k] # "") /\ k \in DOMAIN settings
        <5>1. value(k) = settings[k]
          BY <1>10, <4>2
        <5>2. settings[k] \in Value(k)
          BY <1>11, <4>2
        <5> QED  BY <5>1, <5>2 DEF Value
      <4>3. CASE ~(k \in DOMAIN content /\ content[k] # "") /\ k \notin DOMAIN settings
        BY <1>10, <4>3
      <4> QED  BY <4>1, <4>2, <4>3
    <3>2. Decodes(k, value(k)) /\ cfg'[k] = Decoded(k, value(k))
      BY <1>13
    <3>3. /\ Decoded(k, value(k)) \in {"", "default", "true", "false"} \cup {Layers[i] : i \in DOMAIN Layers}
          /\ IsBool(k) <=> Decoded(k, value(k)) \in {"true", "false"}
      BY <3>1, <3>2, DecodedIs
    <3> QED  BY <3>2, <3>3
  <2>2. ConfigTypeOK'
    <3>1. DOMAIN layers' = 1..4
      BY <1>7, LenProperties
    <3>2. cfg' \in [Keys -> {"", "default", "true", "false"} \cup {Layers[i] : i \in DOMAIN Layers}]
      BY <1>13, <2>1
    <3> QED  BY <1>1, <1>3, <1>7, <1>13, <2>1, <3>1, <3>2 DEF ConfigTypeOK
  <2>3. Loaded'
    <3> SUFFICES ASSUME NEW k \in Keys
                 PROVE  \/ Silent(k)' /\ cfg'[k] = IF k \in DOMAIN Default THEN Default[k] ELSE Zero(k)
                        \/ \E i \in 1..4 : IsLast(i, k)' /\ cfg'[k] = Decoded(k, layers'[i].content[k])
      BY <1>7 DEF Loaded
    <3>1. cfg'[k] = Decoded(k, value(k))
      BY <1>13
    <3>2. Speaks(4, k)' <=> k \in DOMAIN content /\ content[k] # ""
      <4>1. Speaks(3 + 1, k)' <=>
              /\ layers'[3 + 1].readable /\ k \in DOMAIN layers'[3 + 1].content
              /\ 3 = 3 => layers'[3 + 1].content[k] # ""
        BY <1>4, <1>7, NextSpeaks
      <4> QED  BY <1>4, <1>5, <1>7, <4>1
    <3>3. /\ Speaks(4, k)' => IsLast(4, k)'
          /\ ~Speaks(4, k)' =>
               /\ Silent(k) => Silent(k)'
               /\ \A i \in 1..3 : IsLast(i, k) => IsLast(i, k)'
      <4>1. /\ Speaks(3 + 1, k)' => IsLast(3 + 1, k)'
            /\ ~Speaks(3 + 1, k)' =>
                 /\ Silent(k) => Silent(k)'
                 /\ \A i \in 1..3 : IsLast(i, k) => IsLast(i, k)'
        BY <1>4, <1>7, NextIsLast
      <4> QED  BY <1>4, <4>1
    <3>4. CASE Speaks(4, k)'
      <4>1. value(k) = content[k] /\ layers'[4].content = content
        BY <1>5, <1>7, <1>10, <3>2, <3>4
      <4> QED  BY <3>1, <3>3, <3>4, <4>1
    <3>5. CASE ~Speaks(4, k)' /\ k \in DOMAIN settings
      <4>1. PICK i \in 1..3 : IsLast(i, k) /\ settings[k] = layers[i].content[k]
        BY <1>1, <1>4, <3>5 DEF Kept
      <4>2. i \in 1..4 /\ IsLast(i, k)' /\ layers'[i] = layers[i]
        BY <1>7, <3>3, <3>5, <4>1
      <4>3. value(k) = settings[k]
        BY <1>10, <3>2, <3>5
      <4> QED  BY <3>1, <4>1, <4>2, <4>3
    <3>6. CASE ~Speaks(4, k)' /\ k \notin DOMAIN settings
      <4>1. Silent(k)'
        BY <1>1, <3>3, <3>6 DEF Kept
      <4>2. value(k) = IF k \in DOMAIN Default THEN Default[k] ELSE ""
        BY <1>10, <3>2, <3>6
      <4>3. cfg'[k] = IF k \in DOMAIN Default THEN Default[k] ELSE Zero(k)
        BY <3>1, <4>2, DefaultIs DEF Decoded, Zero
      <4> QED  BY <4>1, <4>3
    <3> QED  BY <3>4, <3>5, <3>6
  <2>4. Kept'
    BY <1>13 DEF Kept
  <2> QED  BY <1>9, <2>2, <2>3, <2>4 DEF ConfigInvariant
<1> QED  BY <1>2, <1>12, <1>13 DEF value, Unmarshalled

LEMMA ConfigStep ==
  ASSUME ConfigInvariant, ConfigNext
  PROVE  ConfigInvariant'
  BY NextFile, EnvironmentIsLoaded DEF ConfigNext

LEMMA ConfigStays ==
  ASSUME ConfigInvariant, UNCHANGED configVars
  PROVE  ConfigInvariant'
<1>1. ConfigTypeOK' /\ InOrder'
  BY DEF ConfigInvariant, ConfigTypeOK, InOrder, configVars
<1>2. \A i, k : (Speaks(i, k)' <=> Speaks(i, k)) /\ (IsLast(i, k)' <=> IsLast(i, k))
  BY DEF Speaks, IsLast, configVars
<1>3. \A k : Silent(k)' <=> Silent(k)
  BY DEF Speaks, Silent, configVars
<1>4. Kept'
  BY <1>2, <1>3 DEF ConfigInvariant, Kept, configVars
<1>5. Loaded'
  BY <1>2, <1>3 DEF ConfigInvariant, Loaded, configVars
<1> QED  BY <1>1, <1>4, <1>5 DEF ConfigInvariant

\* A command that goes on looks at Config, and at the layers no more.
LEMMA LayersForgotten ==
  ASSUME ConfigInvariant, stage = "loaded", UNCHANGED <<stage, cfg>>,
         layers' = <<>>, settings' = Empty
  PROVE  ConfigInvariant'
<1>1. layers' \in Seq(AnyFile) /\ Len(layers') = 0 /\ DOMAIN layers' = {} /\ DOMAIN settings' = {}
  BY EmptySeq DEF Empty
<1>2. ConfigTypeOK'
  BY <1>1 DEF ConfigInvariant, ConfigTypeOK
<1>3. InOrder' /\ Kept' /\ Loaded'
  BY <1>1 DEF InOrder, Kept, Loaded
<1> QED  BY <1>2, <1>3 DEF ConfigInvariant

\* What the invariant says of a Config that is loaded.
LEMMA LoadedOverrides == ASSUME ConfigInvariant  PROVE LaterOverrides
<1> SUFFICES ASSUME stage = "loaded", layers # <<>>, NEW k \in Keys
             PROVE  LET speakers == {i \in DOMAIN layers : Speaks(i, k)}
                    IN  IF speakers = {}
                          THEN cfg[k] = IF k \in DOMAIN Default THEN Default[k] ELSE Zero(k)
                          ELSE \E i \in speakers :
                                 /\ \A j \in speakers : j <= i
                                 /\ cfg[k] = Decoded(k, layers[i].content[k])
  BY DEF LaterOverrides
<1>1. DOMAIN layers = 1..Len(layers)
  BY LayersDomain DEF ConfigInvariant
<1> DEFINE speakers == {i \in 1..Len(layers) : Speaks(i, k)}
<1>2. CASE Silent(k) /\ cfg[k] = IF k \in DOMAIN Default THEN Default[k] ELSE Zero(k)
  BY <1>1, <1>2 DEF Silent
<1>3. CASE \E i \in 1..Len(layers) : IsLast(i, k) /\ cfg[k] = Decoded(k, layers[i].content[k])
  <2>1. PICK i \in 1..Len(layers) : IsLast(i, k) /\ cfg[k] = Decoded(k, layers[i].content[k])
    BY <1>3
  <2>2. i \in speakers /\ \A j \in speakers : j <= i
    BY <2>1 DEF IsLast
  <2> QED  BY <1>1, <2>1, <2>2
<1> QED  BY <1>2, <1>3 DEF ConfigInvariant, Loaded

LEMMA LoadedIsReadBack == ASSUME ConfigInvariant  PROVE EnvsRoundTrip
<1>1. \A k \in Keys : IsBool(k) => cfg[k] # ""
  BY DEF ConfigInvariant, ConfigTypeOK
<1> QED  BY <1>1, ReadBack DEF EnvsRoundTrip

=============================================================================
