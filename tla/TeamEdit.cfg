SPECIFICATION Spec
CONSTANTS
  ann = ann
  bob = bob
  Slots = {1}
  Users <- MCUsers
  Linked <- MCLinked
  Emails = {"b", "g"}
  NoEmail = NoEmail
  NoUser = NoUser
  NoTeam = NoTeam
  Rosters <- MCRosters
  MinSize = 1
  MaxSize = 2
  TeamsLimit = 2
  Kinds <- EditKinds
  MaxInFlight = 1
  MaxFaults = 0
PROPERTIES
  EditedTeamHasItsSize
CHECK_DEADLOCK FALSE
