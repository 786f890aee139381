SPECIFICATION FairSpec
CONSTANTS
  d1 = d1
  d2 = d2
  c1 = c1
  c2 = c2
  Databases = {d1}
  InitialDatabases = {d1}
  Collections = {c1}
  DbOf <- OneCollection
  MaxRows = 2
  Runs = {r1, r2}
  Faults = {"pause", "flush", "resume"}
  MaxClock = 0
  Overlap = TRUE
  SameSecond = TRUE
INVARIANTS
  NoDanglingReference
  SharedArchiveIsWhole
PROPERTIES
  RunsEnd
  PausesUndone
CHECK_DEADLOCK FALSE
