SPECIFICATION Spec
CONSTANTS
  d1 = d1
  d2 = d2
  c1 = c1
  c2 = c2
  Databases = {d1, d2}
  InitialDatabases = {d1}
  Collections = {c1}
  DbOf <- OneCollection
  MaxRows = 3
  Runs = {r1}
  Faults = {"list", "deny", "pause", "relist", "collections", "flush", "etcd", "upload", "keys", "copy", "resume", "allow", "expire", "crash"}
  MaxClock = 0
  Overlap = FALSE
  SameSecond = TRUE
INVARIANTS
  TypeOK
  NoDanglingReference
  PointInTimeCut
  DenialAccounted
PROPERTY
  CleanCutoff
CHECK_DEADLOCK FALSE
