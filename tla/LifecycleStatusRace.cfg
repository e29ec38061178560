SPECIFICATION Spec
CONSTANTS
  Slots = {1, 2}
  timer = timer
  NewRow = NewRow
  Titles = {"first", "second"}
  DefaultTitle = "first"
  SortOrders = {0, 1}
  RoundId = {1, 2, 3}
  Kinds <- StatusKinds
  MaxInFlight = 2
  MaxTime = 2
  LastTick = 1
  MaxCrashes = 0
PROPERTIES
  StatusFollowsTable
CHECK_DEADLOCK FALSE
