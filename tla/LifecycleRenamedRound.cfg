SPECIFICATION PreparedSpec
CONSTANTS
  Slots = {1, 2}
  timer = timer
  NewRow = NewRow
  Titles = {"first", "second"}
  DefaultTitle = "first"
  SortOrders = {0, 1}
  RoundId = {1, 2}
  Kinds <- NamedStartKinds
  MaxInFlight = 2
  MaxTime = 1
  LastTick = 1
  MaxCrashes = 0
INVARIANTS
  AtMostOneActiveRound
CHECK_DEADLOCK FALSE
