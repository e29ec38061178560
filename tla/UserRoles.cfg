SPECIFICATION Spec
CONSTANTS
  Slots = {h1, h2}
  Users = {u1}
  AssignedRoles <- Assigned
  MaxApplications = 1
  MaxTournaments = 2
  Kinds <- AllKinds
INVARIANTS
  JurorsHaveTheRole
  OnlyJurorsHaveTheRole
  ApprovedAreOrganizers
CONSTRAINT AllSettled
SYMMETRY Symmetry
CHECK_DEADLOCK FALSE
