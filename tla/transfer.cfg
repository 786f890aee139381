SPECIFICATION FairSpec
CONSTANTS
  MaxKey = 4
  PageSize = 2
  BatchSize = 2
  Concurrency = 2
  Ops = {"copy", "delete"}
  Faults = {"page", "call"}
INVARIANTS
  TypeOK
  CopyComplete
  DeletionComplete
  QuietAfterSuccess
PROPERTY
  Returns
CHECK_DEADLOCK FALSE
