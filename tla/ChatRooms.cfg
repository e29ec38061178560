SPECIFICATION Spec
CONSTANTS
  ann = ann
  bob = bob
  lobby = lobby
  crew = crew
  h1 = h1
  h2 = h2
  Slots = {h1, h2}
  Users = {ann, bob}
  Admins = {bob}
  Rooms = {lobby, crew}
  TeamRooms = {crew}
  a = a
  b = b
  Texts = {a, b}
  MaxMessages = 1
  MaxEvents = 4
INVARIANTS
  ShownIsStored
  ReactionsAreShown
  ToldIsRead
  PinnedInItsRoom
  DeletedStaysDeleted
SYMMETRY Symmetry
CHECK_DEADLOCK FALSE
