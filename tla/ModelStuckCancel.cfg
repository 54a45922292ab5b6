CONSTANTS
  Tags <- Tags1
  Uploads <- None
  SyncTransfers <- None
  TempTransfers <- None
  FolderTransfers <- None
  MaxTransfersToProcess = 1
  MaxNotifications = 2
  UintMax = 7
  CancelThreshold = 1
  StartThreshold = 1
  FailedThreshold = 1
  ResetAfterEmptyReceives = 2
SPECIFICATION FairModelSpec
PROPERTIES
  CancelledRowGoes
