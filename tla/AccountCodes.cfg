SPECIFICATION Spec
CONSTANTS
  Slots = {h1, h2}
  Codes = {c1, c2}
  NoCode = NoCode
  Passwords = {p1, p2}
  NoRow = NoRow
  Ids = {i1, i2, i3}
  Cooldown = 1
  Ttl = 1
  MaxAttempts = 1
  MaxSends = 1
  Hour = 2
  PendingTtl = 2
  MaxTime = 3
  Kinds <- AllKinds
INVARIANTS
  FirstHourIsLimited
PROPERTIES
  AddressTakesOneCode
  PasswordTakesOneCode
CONSTRAINT NothingOverwritten
SYMMETRY Symmetry
CHECK_DEADLOCK FALSE
