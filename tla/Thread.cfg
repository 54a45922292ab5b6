CONSTANTS
  Tags <- Tags3
  Uploads <- FirstTwo
  SyncTransfers <- First
  TempTransfers <- None
  FolderTransfers <- Third
  MaxTransfersToProcess = 1
  MaxNotifications = 3
  UintMax = 7
SPECIFICATION Spec
INVARIANTS
  CountersStayInRange
  OneHolder
  PendingMatchesSdk
  SummaryIsTrue
