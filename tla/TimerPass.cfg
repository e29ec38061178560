SPECIFICATION FairSpec
CONSTANTS
  Tournaments = {1, 2}
  Passes = {1, 2}
  MaxTime = 1
  MaxRequests = 3
  MaxErrors = 1
  MaxCrashes = 1
PROPERTIES
  DueAreStarted
  DueAreFinished
CHECK_DEADLOCK FALSE
