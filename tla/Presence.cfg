SPECIFICATION PresenceSpec
CONSTANTS
  Sockets = {s1, s2}
  Requests = {r1}
  Asked = {"away"}
  MaxUpdates = 2
  MaxCrashes = 1
INVARIANTS
  ConnectionsAreCounted
  ConnectedIsNotOffline
  StatusIsShown
PROPERTY LeavingEndsOffline
CHECK_DEADLOCK FALSE
