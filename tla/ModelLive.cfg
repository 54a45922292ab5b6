CONSTANTS
  Tags <- Tags2
  Uploads <- First
  SyncTransfers <- Second
  TempTransfers <- None
  FolderTransfers <- None
  MaxTransfersToProcess = 2
  MaxNotifications = 3
  UintMax = 7
  CancelThreshold = 1
  StartThreshold = 1
  FailedThreshold = 1
  ResetAfterEmptyReceives = 2
SPECIFICATION FairModelSpec
INVARIANTS
  CompletedCountIsTrue
PROPERTIES
  EventsAreShown
  UiIsUnblocked
  FairSpec
  RowsMoveForward
