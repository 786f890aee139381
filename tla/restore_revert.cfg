SPECIFICATION Spec
CONSTANTS
  s1 = s1
  f1 = f1
  Snapshots = {s1}
  Stored <- OneFile
  Image <- OneFile
  HasImage = {s1}
  LiveFiles = {f1}
  NewFiles = {n1}
  NoClaim = none
  Git <- Deployed
  Managed <- ServerFields
  Faults = {}
  MaxRuns = 1
INVARIANT
  FluxSeesCleanConfig
CHECK_DEADLOCK FALSE
