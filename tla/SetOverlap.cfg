CONSTANTS
  Requests <- Requests2
  Kind <- Fetches
  Public <- Sets2
  Selected <- Everything2
  Elements <- FourElements
  Failures <- NoFailures
  Overlap = TRUE
SPECIFICATION FairSpec
PROPERTIES
  RequestsEnd
CHECK_DEADLOCK FALSE
