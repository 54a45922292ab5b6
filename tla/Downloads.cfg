CONSTANTS
  u = u
  d = d
  e = e
  NoAction = NoAction
  Actions <- UploadAndDownload
  Uploads <- FirstUpload
  Folders <- OneFolder
  TopFiles <- OneFile
  NestedFiles <- OneInside
  ActionOf <- FolderAndFile
  FolderOf <- InFirst
  Overlap = FALSE
SPECIFICATION FairSpec
INVARIANTS
  AllTypesOK
  ScanIsComplete
  EndIsReportedOnce
  MetadataOutlivesTransfers
  BlockedForABatch
  WaitingIsWaitedFor
PROPERTIES
  OthersDoNotUnblock
  SizesAreItsOwn
  ImplementsBatch
  UiIsUnblocked
CHECK_DEADLOCK FALSE
