CONSTANTS
  Tags <- Tags3
  Uploads <- First
  SyncTransfers <- None
  TempTransfers <- Second
  FolderTransfers <- Third
  MaxTransfersToProcess = 1
  MaxNotifications = 4
  UintMax = 7
  CancelThreshold = 3
  StartThreshold = 3
  FailedThreshold = 3
  ResetAfterEmptyReceives = 2
SPECIFICATION ModelSpec
INVARIANTS
  ModelTypeOK
  QuietRowsMatchSdk
  CancelIsRemembered
  EventsComeThrough
PROPERTIES
  DeliveredMovesForward
CONSTRAINT
  FewerOfOthers
