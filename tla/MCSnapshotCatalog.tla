-------------------------- MODULE MCSnapshotCatalog --------------------------
(***************************************************************************)
(* Instances of SnapshotCatalog for TLC.                                   *)
(***************************************************************************)
EXTENDS SnapshotCatalog, TLC

\* The files are interchangeable; the properties name none.
FilePermutations == Permutations(Objects)

=============================================================================
