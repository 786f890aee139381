--------------------------- MODULE MCSnapshotCreate ---------------------------
(***************************************************************************)
(* Instances of SnapshotCreate for TLC.                                    *)
(***************************************************************************)
EXTENDS SnapshotCreate

CONSTANTS d1, d2, c1, c2

OneCollection == [c \in {c1} |-> d1]

\* One collection in each of two databases.
OneEach == [c \in {c1, c2} |-> IF c = c1 THEN d1 ELSE d2]

=============================================================================
