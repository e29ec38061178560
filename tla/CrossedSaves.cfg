SPECIFICATION Spec
CONSTANTS
  red = red
  blue = blue
  ann = ann
  one = one
  two = two
  Slots = {one, two}
  Teams = {red, blue}
  Users = {ann}
  CaptainOf <- MCCaptainOf
  MembersOf <- MCMembersOf
  Admins = {}
  Repositories = {"app", "other"}
  Spellings = {"App.git", "other"}
  Branches = {"main", "feature/main"}
  NoBranch = NoBranch
  EndsWith <- MCEndsWith
  NoCommit = NoCommit
  NoRow = NoRow
  Offers <- MCOffers
  Posts <- MCPosts
  MaxCommits = 2
  MaxFaults = 1
  MaxInFlight = 2
INVARIANTS
  EveryCommitIsOfItsBranch
CONSTRAINT Apart
SYMMETRY Symmetry
CHECK_DEADLOCK FALSE
