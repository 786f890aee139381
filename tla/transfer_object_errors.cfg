SPECIFICATION Spec
CONSTANTS
  MaxKey = 2
  PageSize = 2
  BatchSize = 2
  Concurrency = 2
  Ops = {"delete"}
  Faults = {"object"}
INVARIANT
  DeletionComplete
CHECK_DEADLOCK FALSE
