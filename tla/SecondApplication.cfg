SPECIFICATION Spec
CONSTANTS
  Slots = {h1}
  Users = {u1}
  AssignedRoles <- NoAssigned
  MaxApplications = 3
  MaxTournaments = 0
  Kinds = {"apply"}
INVARIANT OnePendingApplication
CHECK_DEADLOCK FALSE
