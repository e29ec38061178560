SPECIFICATION Spec
CONSTANTS
  Slots = {1}
  timer = timer
  NewRow = NewRow
  Titles = {"first", "second"}
  DefaultTitle = "first"
  SortOrders = {0, 1}
  RoundId = {1, 2}
  Kinds <- NextKinds
  MaxInFlight = 1
  MaxTime = 2
  LastTick = 1
  MaxCrashes = 0
PROPERTIES
  ClosedRoundsStayClosed
CHECK_DEADLOCK FALSE
