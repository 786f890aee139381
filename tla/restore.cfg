SPECIFICATION FairSpec
CONSTANTS
  s1 = s1
  f1 = f1
  Snapshots = {s1}
  Stored <- OneFile
  Image <- OneFile
  HasImage = {s1}
  LiveFiles = {f1}
  NewFiles = {n1}
  NoClaim = none
  Git <- Deployed
  Managed <- ServerFields
  Faults = {"suspend", "getCR", "hpas", "scaledObjects", "deleteCR", "uninstall", "pvcs", "deleteS3", "copyS3", "tempPVC", "createCR", "revert", "resume", "cleanJob", "cleanPVC", "job", "object", "crash"}
  MaxRuns = 2
INVARIANTS
  TypeOK
  QuietDuringRestore
  RestoredIsSnapshot
  ServesWhatEtcdNames
  SpecSurvives
PROPERTIES
  RestoreEnds
  RestoredIsServed
CHECK_DEADLOCK FALSE
