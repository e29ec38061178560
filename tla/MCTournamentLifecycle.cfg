SPECIFICATION Spec
CONSTANTS
  main = main
  side = side
  NoParent = NoParent
  TournamentId <- MCTournamentId
  MaxRounds <- MCMaxRounds
  Parents <- MCParents
  MaxTime = 2
  AllowAnyStatus = FALSE
INVARIANTS
  AtMostOneActiveRound
  StoredRowsAreConsistent
PROPERTIES
  StatusFollowsTable
  StartOpensARound
CHECK_DEADLOCK FALSE
