SPECIFICATION Spec
CONSTANTS
  ann = ann
  bob = bob
  Slots = {1, 2}
  Users <- MCUsers
  Linked <- MCLinked
  Emails = {"b", "g"}
  NoEmail = NoEmail
  NoUser = NoUser
  NoTeam = NoTeam
  Rosters <- Shared
  MinSize = 1
  MaxSize = 2
  TeamsLimit = 2
  Kinds <- CreateKinds
  MaxInFlight = 2
  MaxFaults = 1
INVARIANTS
  RegistrationIsAllOrNothing
CHECK_DEADLOCK FALSE
