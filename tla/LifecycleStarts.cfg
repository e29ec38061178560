SPECIFICATION PreparedSpec
CONSTANTS
  Slots = {1, 2}
  timer = timer
  NewRow = NewRow
  Titles = {"first", "second"}
  DefaultTitle = "first"
  SortOrders = {0, 1}
  RoundId = {1, 2}
  Kinds <- StartKinds
  MaxInFlight = 3
  MaxTime = 1
  LastTick = 1
  MaxCrashes = 1
INVARIANTS
  AtMostOneActiveRound
  RunningHasARound
PROPERTIES
  DueTournamentStarts
  DueTournamentFinishes
CHECK_DEADLOCK FALSE
