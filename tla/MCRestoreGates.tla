---------------------------- MODULE MCRestoreGates ----------------------------
(***************************************************************************)
(* An instance of RestoreGates for TLC.                                    *)
(***************************************************************************)
EXTENDS RestoreGates, TLC

Local == <<"milvus", <<"local">>>>
LogLevel == <<"log", <<"level">>>>

\* The ID in every layer, beside keys that tell the layers apart.
SomeKeys == ("config.yaml"  :> {SnapshotId, FluxName}) @@ ("secrets.yaml" :> {SnapshotId, LogLevel})
         @@ ("--config"     :> {SnapshotId, Local})
         @@ ("environment"  :> {SnapshotId, LogLevel, Local})

\* A terminal returns one line, a pipe what is in it.
TerminalOrPipe == {<<"yes">>, <<"no">>, <<"yes", "yes">>, <<"yes", "no">>, <<"no", "yes">>}

=============================================================================
