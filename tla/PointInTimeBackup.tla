-------------------------- MODULE PointInTimeBackup --------------------------
(***************************************************************************)
(* What `snapshot create` promises (cmd/create.go:28, README.md:86): the    *)
(* archive of a successful run is the image of the whole database at one   *)
(* instant, and an archive, once taken, does not change.                   *)
(***************************************************************************)
CONSTANTS
  Row,     \* the rows clients may write
  Runs     \* each run takes at most one archive

VARIABLES
  written,  \* the rows clients have written
  taken,    \* the runs whose archive is complete
  archive   \* the rows each archive restores to

backupVars == <<written, taken, archive>>

Init ==
  /\ written = {}
  /\ taken = {}
  /\ archive = [r \in Runs |-> {}]

Write(row) ==
  /\ row \notin written
  /\ written' = written \cup {row}
  /\ UNCHANGED <<taken, archive>>

Take(r) ==
  /\ r \notin taken
  /\ taken' = taken \cup {r}
  /\ archive' = [archive EXCEPT ![r] = written]
  /\ UNCHANGED written

Next ==
  \/ \E row \in Row : Write(row)
  \/ \E r \in Runs : Take(r)

Spec == Init /\ [][Next]_backupVars

=============================================================================
