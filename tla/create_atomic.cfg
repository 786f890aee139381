SPECIFICATION Spec
CONSTANTS
  d1 = d1
  d2 = d2
  c1 = c1
  c2 = c2
  Databases = {d1, d2}
  InitialDatabases = {d1, d2}
  Collections = {c1, c2}
  DbOf <- OneEach
  MaxRows = 1
  Runs = {r1, r2}
  Faults = {"deny", "collections", "flush", "upload", "copy", "resume", "allow", "crash"}
  MaxClock = 1
  Overlap = FALSE
  SameSecond = FALSE
PROPERTY
  ImplementsPointInTimeBackup
CHECK_DEADLOCK FALSE
