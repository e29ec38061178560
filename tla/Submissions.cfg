SPECIFICATION Spec
CONSTANTS
  ann = ann
  bob = bob
  one = one
  two = two
  root = root
  spring = spring
  autumn = autumn
  r1 = r1
  red = red
  blue = blue
  Slots = {one, two}
  Users <- MCUsers
  Admins = {root}
  Tournaments = {spring, autumn}
  Rounds = {r1}
  Teams = {red, blue}
  TournamentOf <- MCTournamentOf
  CaptainOf <- MCCaptainOf
  SubmissionId = {1, 2}
  EvaluationId = {1, 2, 3}
  NewRow = 0
  Columns = {"repo", "video"}
  Texts = {"a", "b"}
  First = "a"
  FirstMembers <- MCMembers
  FirstJury <- MCJury
  Patches <- MCPatches
  Answers <- MCAnswers
  Statuses = {"active", "submission_closed"}
  MaxTime = 2
  MaxInFlight = 2
  MaxChanges <- MCMaxChanges
SYMMETRY MCSymmetry
INVARIANTS
  OneRowEach
  TeamsPlayInTheirTournament
PROPERTIES
  LateRequestsWriteNothing
  UndisturbedEditsAreExact
  StandingsMoveByTheJury
CHECK_DEADLOCK FALSE
