---------------------------- MODULE Configuration ----------------------------
(***************************************************************************)
(* The configuration of a command (cmd/root.go), from viper's layers to    *)
(* the Config struct, and `milvus-utils envs` (cmd/envs.go), which prints  *)
(* it as environment variables.                                            *)
(*                                                                         *)
(* Layers are read one after the other, and what each holds is chosen when *)
(* it is read.  A string is the name of the source that wrote it, so that  *)
(* a setting tells where it comes from; "" is an empty value.              *)
(***************************************************************************)
EXTENDS Naturals, Sequences

CONSTANT
  Written  \* the keys that each layer may set

-----------------------------------------------------------------------------
\* The mapstructure tags of the four sections of Config.  A tag is split at its
\* underscores, so a name is a sequence of words.
Fields ==
  [log     |-> {<<"level">>, <<"format">>},
   aws     |-> {<<"region">>, <<"endpoint">>},
   milvus  |-> {<<"local">>, <<"operator", "name">>, <<"namespace">>, <<"username">>,
                <<"password">>, <<"root", "bucket">>, <<"root", "path">>,
                <<"backup", "bucket">>, <<"backup", "etcd", "path">>, <<"backup", "s3", "path">>},
   restore |-> {<<"snapshot", "id">>, <<"storage", "class">>, <<"job", "service", "account">>,
                <<"job", "image">>, <<"flux", "kustomization", "name">>,
                <<"flux", "kustomization", "namespace">>}]

Keys == UNION {{section} \X Fields[section] : section \in DOMAIN Fields}

SnapshotId == <<"restore", <<"snapshot", "id">>>>

\* setDefaults: the `default` tags.
Default == [k \in {<<"log", <<"level">>>>, <<"log", <<"format">>>>, <<"restore", <<"job", "image">>>>}
              |-> "default"]

IsBool(k) == k = <<"milvus", <<"local">>>>

Zero(k) == IF IsBool(k) THEN "false" ELSE ""

Layers == <<"config.yaml", "secrets.yaml", "--config", "environment">>

ASSUME ConfigurationAssumption ==
  \A i \in DOMAIN Layers : Written[Layers[i]] \subseteq Keys

\* What a source may hold for a key.
Values(source, k) == IF IsBool(k) THEN {"true", "not a bool"} ELSE {source, ""}

Contents(source) ==
  UNION {{c \in [ks -> UNION {Values(source, k) : k \in ks}] : \A k \in ks : c[k] \in Values(source, k)}
           : ks \in SUBSET Written[source]}

Empty == [k \in {} |-> ""]

Absent    == [found |-> FALSE, readable |-> FALSE, content |-> Empty]
Malformed == [found |-> TRUE,  readable |-> FALSE, content |-> Empty]

FilesOf(layer) ==
  {Absent, Malformed} \cup [found : {TRUE}, readable : {TRUE}, content : Contents(layer)]

VARIABLES
  stage,     \* the layer that is read next, then "loaded", "failed"
  layers,    \* history: what each layer held
  settings,  \* viper's configuration map
  cfg        \* the Config struct

configVars == <<stage, layers, settings, cfg>>

ConfigTypeOK ==
  /\ stage \in {"config", "secrets", "flag", "env", "loaded", "failed"}
  /\ DOMAIN settings \subseteq Keys
  /\ \A k \in DOMAIN settings : settings[k] \in UNION {Values(Layers[i], k) : i \in DOMAIN Layers}
  /\ cfg \in [Keys -> {"", "default", "true", "false"} \cup {Layers[i] : i \in DOMAIN Layers}]
  /\ \A k \in Keys : IsBool(k) <=> cfg[k] \in {"true", "false"}
  /\ \A i \in DOMAIN layers : layers[i] \in FilesOf(Layers[i])

ConfigInit ==
  /\ stage = "config"
  /\ layers = <<>>
  /\ settings = Empty
  /\ cfg = [k \in Keys |-> Zero(k)]

-----------------------------------------------------------------------------
MergedUnder(old, new) ==  \* mutant: what is set already is kept
  [k \in DOMAIN old \cup DOMAIN new |-> IF k \in DOMAIN old THEN old[k] ELSE new[k]]

\* viper.MergeInConfig, key by key.
Merged(old, new) ==
  [k \in DOMAIN old \cup DOMAIN new |-> IF k \in DOMAIN new THEN new[k] ELSE old[k]]

ReadLayer(file, next) ==
  /\ stage' = next
  /\ layers' = Append(layers, file)
  /\ settings' = IF file.readable THEN Merged(settings, file.content) ELSE settings
  /\ UNCHANGED cfg

\* config.yaml: the first that is found in "." and "/config" is read, and the
\* error of one that cannot be read is dropped.
ReadConfig ==
  /\ stage = "config"
  /\ \E here, there \in FilesOf("config.yaml") :
       ReadLayer(IF here.found THEN here ELSE there, "secrets")

\* secrets.yaml: an error is logged.
MergeSecrets ==
  /\ stage = "secrets"
  /\ \E file \in FilesOf("secrets.yaml") : ReadLayer(file, "flag")

\* --config: a file that does not exist is fatal, one that cannot be read is
\* ignored without a word.
MergeFlagFile ==
  /\ stage = "flag"
  /\ \/ ReadLayer(Absent, "env")  \* no flag
     \/ \E file \in FilesOf("--config") :
          ReadLayer(file, IF file.found THEN "env" ELSE "failed")

\* The name under which a key is bound: upper case, "." replaced by "_".
BoundName(k) == <<k[1]>> \o k[2]

\* What viper finds for a key: the environment, unless empty; the files; the
\* default.
Lookup(env, files, k) ==
  IF BoundName(k) \in DOMAIN env /\ env[BoundName(k)] # "" THEN env[BoundName(k)]
  ELSE IF k \in DOMAIN files THEN files[k]
  ELSE IF k \in DOMAIN Default THEN Default[k]
  ELSE ""

\* viper.Unmarshal decodes weakly: an empty string is FALSE.
Decoded(k, value) == IF IsBool(k) /\ value = "" THEN "false" ELSE value

Decodes(k, value) == IsBool(k) => value \in {"true", "false", ""}

Unmarshalled(env, files) == [k \in Keys |-> Decoded(k, Lookup(env, files, k))]

\* An environment that sets these keys.
Environ(content) ==
  [n \in {BoundName(k) : k \in DOMAIN content} |->
     content[CHOOSE k \in DOMAIN content : BoundName(k) = n]]

LoadConfig ==
  /\ stage = "env"
  /\ \E content \in Contents("environment") :
       LET env == Environ(content)
       IN  /\ layers' = Append(layers, [found |-> TRUE, readable |-> TRUE, content |-> content])
           /\ IF \A k \in Keys : Decodes(k, Lookup(env, settings, k))
                THEN stage' = "loaded" /\ cfg' = Unmarshalled(env, settings)
                ELSE stage' = "failed" /\ UNCHANGED cfg
  /\ UNCHANGED settings

ConfigNext == ReadConfig \/ MergeSecrets \/ MergeFlagFile \/ LoadConfig

-----------------------------------------------------------------------------
PrintedNameNoPrefix(section, tag) == tag  \* mutant: the prefix is not passed down

\* printEnvVarsRecursive: section and tag in upper case, joined by "_".
PrintedName(section, tag) == <<section>> \o tag

\* The lines of `envs --values`.
PrintedValues(config) ==
  {<<PrintedName(k[1], k[2]), config[k]>> : k \in Keys}

\* An environment made of lines; of two lines for a name one counts.
Exported(lines) ==
  [n \in {l[1] : l \in lines} |-> (CHOOSE l \in lines : l[1] = n)[2]]

-----------------------------------------------------------------------------
\* "Config is loaded in layers (later overrides earlier)" (memory-bank.md:45):
\* a setting is what the last layer that speaks of it says; a file that cannot
\* be read and an empty environment variable do not speak.
Speaks(i, k) ==
  /\ layers[i].readable
  /\ k \in DOMAIN layers[i].content
  /\ Layers[i] = "environment" => layers[i].content[k] # ""

LaterOverrides ==
  stage = "loaded" /\ layers # <<>> =>
    \A k \in Keys :
      LET speakers == {i \in DOMAIN layers : Speaks(i, k)}
      IN  IF speakers = {}
            THEN cfg[k] = IF k \in DOMAIN Default THEN Default[k] ELSE Zero(k)
            ELSE \E i \in speakers :
                   /\ \A j \in speakers : j <= i
                   /\ cfg[k] = Decoded(k, layers[i].content[k])

\* What `envs --values` prints is the configuration: exported where there is no
\* file, it loads the same one, but for an empty value that hides a default.
EnvsRoundTrip ==
  stage = "loaded" =>
    LET again == Unmarshalled(Exported(PrintedValues(cfg)), Empty)
    IN  \A k \in Keys :
          again[k] = IF cfg[k] = "" /\ k \in DOMAIN Default THEN Default[k] ELSE cfg[k]

=============================================================================
