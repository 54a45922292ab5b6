CONSTANTS
  Files <- Files3
  Exec = 3
  Versions <- Versions2
  Release <- AllNew
  RollbackMayFail = TRUE
  MaxCrashes = 1
SPECIFICATION LiveSpec
INVARIANTS
  TypeOK
  OnlyVerifiedInstalled
  OldCopyKept
  FlagsAreTrue
PROPERTIES
  RequestsAreAnswered
  UpdateArrives
CHECK_DEADLOCK FALSE
