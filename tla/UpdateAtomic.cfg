CONSTANTS
  Files <- Files3
  Exec = 2
  Versions <- Versions3
  Release <- Releases
  RollbackMayFail = FALSE
  MaxCrashes = 0
SPECIFICATION FairSpec
PROPERTIES
  ImplementsAtomicUpdate
  RunsEnd
