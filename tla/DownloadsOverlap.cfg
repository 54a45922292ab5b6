CONSTANTS
  u = u
  d = d
  e = e
  NoAction = NoAction
  Actions <- TwoDownloads
  Uploads <- NoUpload
  Folders <- TwoFolders
  TopFiles <- NoFile
  NestedFiles <- OneInside
  ActionOf <- FolderEach
  FolderOf <- InFirst
  Overlap = TRUE
SPECIFICATION Spec
INVARIANTS
  NotifiedAreFinished
CHECK_DEADLOCK FALSE
