SPECIFICATION Spec
CONSTANTS
  MaxId = 1
  Objects = {f1, f2}
  MaxListed = 2
  MaxActive = 1
  MaxRestores = 0
  LeaseLasts = TRUE
INVARIANT
  ResolvedIsWhole
CHECK_DEADLOCK FALSE
