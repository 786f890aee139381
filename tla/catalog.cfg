SPECIFICATION Spec
CONSTANTS
  MaxId = 2
  Objects = {f1, f2}
  MaxListed = 1
  MaxActive = 1
  MaxRestores = 1
  LeaseLasts = FALSE
INVARIANTS
  TypeOK
  FinishedIsListed
  ResolvesToNewest
  CommandsAgree
  ArchiveIsWhole
PROPERTY
  RestoredIsWhole
SYMMETRY FilePermutations
CHECK_DEADLOCK FALSE
