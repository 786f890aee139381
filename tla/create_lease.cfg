SPECIFICATION Spec
CONSTANTS
  d1 = d1
  d2 = d2
  c1 = c1
  c2 = c2
  Databases = {d1}
  InitialDatabases = {d1}
  Collections = {c1}
  DbOf <- OneCollection
  MaxRows = 2
  Runs = {r1}
  Faults = {"expire"}
  MaxClock = 0
  Overlap = FALSE
  SameSecond = TRUE
INVARIANT
  PausedSnapshotRestorable
CHECK_DEADLOCK FALSE
