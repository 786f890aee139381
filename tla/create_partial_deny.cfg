SPECIFICATION Spec
CONSTANTS
  d1 = d1
  d2 = d2
  c1 = c1
  c2 = c2
  Databases = {d1, d2}
  InitialDatabases = {d1, d2}
  Collections = {c1}
  DbOf <- OneCollection
  MaxRows = 1
  Runs = {r1}
  Faults = {"deny"}
  MaxClock = 0
  Overlap = FALSE
  SameSecond = TRUE
INVARIANT
  DeniedIsReopened
CHECK_DEADLOCK FALSE
