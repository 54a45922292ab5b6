CONSTANTS
  Requests <- Requests4
  Kind <- AllKinds
  Public <- Sets4
  Selected <- Choice4
  Elements <- FourElements
  Failures <- NotElements
  Overlap = FALSE
SPECIFICATION FairSpec
INVARIANTS
  QuietWhenInit
  ReportsAreWhole
  RequestsAreKept
PROPERTIES
  ServesInTurn
  RequestsEnd
CHECK_DEADLOCK FALSE
