----------------------------- MODULE RestoreGates -----------------------------
(***************************************************************************)
(* How `snapshot restore` is asked (cmd/restore.go, runRestore up to step  *)
(* 3, and confirm): the ID to restore, which may come from six sources,    *)
(* and the two gates, whose answers come from standard input.              *)
(*                                                                         *)
(* SnapshotRestore goes on from here; its gates take any answer.           *)
(***************************************************************************)
EXTENDS Configuration

CONSTANT
  Chunks  \* what one read of standard input may return: a sequence of lines

ASSUME ChunkAssumption == \A c \in Chunks : c # <<>>

VARIABLES
  pc,         \* the next step of runRestore
  force,      \* --force
  flagId,     \* --snapshot-id
  envId,      \* SNAPSHOT_ID
  id,         \* snapshotID
  typed,      \* history: the chunks that were read
  given,      \* history: the sources that gave an ID which no later file cleared
  suspended   \* step 1 has suspended Flux

gateVars == <<pc, force, flagId, envId, id, typed, given, suspended>>

vars == <<configVars, gateVars>>

-----------------------------------------------------------------------------
FluxName == <<"restore", <<"flux", "kustomization", "name">>>>

TypeOK ==
  /\ ConfigTypeOK
  /\ pc \in {"config", "resolve", "gate1", "suspend", "getCR", "gate2", "destructive",
             "cancelled", "error"}
  /\ force \in BOOLEAN
  /\ flagId \in {"", "--snapshot-id"}
  /\ envId \in {"", "SNAPSHOT_ID"}
  /\ id \in {"", "latest", "--snapshot-id", "SNAPSHOT_ID"} \cup {Layers[i] : i \in DOMAIN Layers}
  /\ given \subseteq {"--snapshot-id", "SNAPSHOT_ID"} \cup {Layers[i] : i \in DOMAIN Layers}
  /\ Len(typed) <= 2 /\ \A i \in DOMAIN typed : typed[i] \in Chunks
  /\ suspended \in BOOLEAN

Init ==
  /\ ConfigInit
  /\ pc = "config"
  /\ force = FALSE
  /\ flagId = ""
  /\ envId = ""
  /\ id = ""
  /\ typed = <<>>
  /\ given = {}
  /\ suspended = FALSE

-----------------------------------------------------------------------------
\* initConfig, then LoadConfig as the first call of runRestore.  What is asked on
\* the command line and by SNAPSHOT_ID is chosen when it is first looked at.
Configure ==
  /\ pc = "config"
  /\ ConfigNext
  /\ pc' = CASE stage' = "loaded" -> "resolve"
             [] stage' = "failed" -> "error"
             [] OTHER -> "config"
  /\ IF pc' = "resolve"
       THEN /\ force' \in BOOLEAN
            /\ flagId' \in {"", "--snapshot-id"}
            /\ envId' \in {"", "SNAPSHOT_ID"}
       ELSE UNCHANGED <<force, flagId, envId>>
  /\ UNCHANGED <<id, typed, given, suspended>>

EnvBeforeConfig ==  \* mutant: SNAPSHOT_ID is asked before the configuration
  IF flagId # "" THEN flagId ELSE IF envId # "" THEN envId ELSE cfg[SnapshotId]

\* The first that is not empty.
ChosenId ==
  IF flagId # "" THEN flagId ELSE IF cfg[SnapshotId] # "" THEN cfg[SnapshotId] ELSE envId

\* The sources that gave an ID.  A file that gives an empty one takes back what
\* earlier files gave; the environment cannot.
Given ==
  {s \in {flagId, envId} : s # ""}
  \cup {Layers[i] : i \in {i \in DOMAIN layers :
          /\ Speaks(i, SnapshotId)
          /\ \A j \in i..Len(layers) :
               Speaks(j, SnapshotId) => layers[j].content[SnapshotId] # ""}}

\* Without an ID the latest is resolved, if there is one (see SnapshotCatalog).
\* From here on only the configuration counts, not its layers.
ResolveId ==
  /\ pc = "resolve"
  /\ \/ pc' = "gate1" /\ id' = IF ChosenId = "" THEN "latest" ELSE ChosenId
     \/ ChosenId = "" /\ pc' = "error" /\ UNCHANGED id
  /\ given' = Given
  /\ layers' = <<>> /\ settings' = Empty
  /\ UNCHANGED <<stage, cfg, force, flagId, envId, typed, suspended>>

\* A scanner of the call's own reads a chunk and looks at its first line; the
\* rest is lost with the scanner.  At the end of input the answer is no.
Confirm(yes, no) ==
  \/ /\ \E c \in Chunks :
          /\ typed' = Append(typed, c)
          /\ pc' = IF Head(c) = "yes" THEN yes ELSE no
  \/ pc' = no /\ UNCHANGED typed

AsksAgain ==  \* mutant: any other answer repeats the question
  /\ pc = "gate1"
  /\ Confirm("getCR", "gate1")
  /\ UNCHANGED <<configVars, force, flagId, envId, id, given, suspended>>

Gate1 ==
  /\ pc = "gate1"
  /\ LET yes == IF cfg[FluxName] # "" THEN "suspend" ELSE "getCR"
     IN  IF force THEN pc' = yes /\ UNCHANGED typed ELSE Confirm(yes, "cancelled")
  /\ UNCHANGED <<configVars, force, flagId, envId, id, given, suspended>>

\* Step 1, after the Kubernetes client was made.
SuspendFlux ==
  /\ pc = "suspend"
  /\ suspended' = TRUE
  /\ pc' = "getCR"
  /\ UNCHANGED <<configVars, force, flagId, envId, id, typed, given>>

GetMilvusCR ==
  /\ pc = "getCR"
  /\ pc' = "gate2"
  /\ UNCHANGED <<configVars, force, flagId, envId, id, typed, given, suspended>>

OneAnswerIsEnough ==  \* mutant: what the first scanner has buffered answers too
  /\ pc = "gate2"
  /\ IF force \/ (typed # <<>> /\ Len(typed[1]) > 1)
       THEN pc' = "destructive" /\ UNCHANGED typed
       ELSE Confirm("destructive", "cancelled")
  /\ UNCHANGED <<configVars, force, flagId, envId, id, given, suspended>>

Gate2 ==
  /\ pc = "gate2"
  /\ IF force THEN pc' = "destructive" /\ UNCHANGED typed ELSE Confirm("destructive", "cancelled")
  /\ UNCHANGED <<configVars, force, flagId, envId, id, given, suspended>>

CallFails ==
  /\ pc \in {"suspend", "getCR"}
  /\ pc' = "error"
  /\ \/ UNCHANGED suspended
     \/ pc = "suspend" /\ suspended' = TRUE
  /\ UNCHANGED <<configVars, force, flagId, envId, id, typed, given>>

Next ==
  Configure \/ ResolveId \/ Gate1 \/ SuspendFlux \/ GetMilvusCR \/ Gate2 \/ CallFails

Spec == Init /\ [][Next]_vars

-----------------------------------------------------------------------------
Sources == <<"SNAPSHOT_ID">> \o Layers \o <<"--snapshot-id">>

\* The snapshot in front of the first gate is the one that the most important
\* source gave which nobody took back; the latest is restored only if nobody
\* asked for one. (restore.go:57-87, memory-bank.md:188)
RestoresWhatWasAsked ==
  pc = "gate1" =>
    IF given = {}
      THEN id = "latest"
      ELSE \E i \in DOMAIN Sources :
             /\ id = Sources[i]
             /\ Sources[i] \in given
             /\ \A j \in DOMAIN Sources : Sources[j] \in given => j <= i

\* Flux is suspended only after a yes, and nothing is destroyed without one to
\* each gate, or --force: a line that was typed ahead answers no second gate.
\* (restore.go:92, restore.go:107, restore.go:124)
ActsOnConsent ==
  LET Yes(gate) == force \/ (Len(typed) >= gate /\ Head(typed[gate]) = "yes")
  IN  /\ suspended => cfg[FluxName] # "" /\ Yes(1)
      /\ pc = "destructive" => Yes(1) /\ Yes(2)

=============================================================================
