CONSTANTS
  Lists <- TwoLists
  Folders <- TheFolders
  Sets <- TheSets
  NoLink = NoLink
  Overlap = FALSE
SPECIFICATION FairSpec
INVARIANTS
  AnswersAreTheirOwn
  ChoicesAreFollowed
PROPERTIES
  LinkInfoEnds
CHECK_DEADLOCK FALSE
