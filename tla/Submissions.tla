---------------------------- MODULE Submissions ----------------------------
(***************************************************************************)
(* Teams hand in work for a round, jurors score it, and the leaderboard    *)
(* adds the scores up.  As in LifecycleRequests every step is one database *)
(* statement, a handler keeps what it has read until it writes, and a save *)
(* of an entity writes its whole row.  The reads that no later statement   *)
(* depends on are joined to the next one.                                  *)
(*                                                                         *)
(* Rounds, teams, their members and juries change at any time under these  *)
(* requests: how they do is the subject of TournamentLifecycle and of      *)
(* TeamRegistration, and one step here is all that this module sees of it. *)
(* A row of submissions is kept with two of its columns, and an evaluation *)
(* with the score and the comment; criteria go the way of the comment.     *)
(***************************************************************************)
EXTENDS Integers, FiniteSetsExt

CONSTANTS
  Slots,          \* bound: the requests the server may be working on at once
  Users, Admins,  \* users, and those whose role has "admin" in it
  Tournaments, Rounds, Teams,
  TournamentOf,   \* tournament_id of a round or a team
  CaptainOf,      \* captain_id of a team
  SubmissionId, EvaluationId,   \* bound: ids, enough that a fresh one is always left
  NewRow,         \* the id of a row that is not inserted yet
  Columns,        \* the columns of a submission that a request gives
  Texts, First,   \* bound: what they may hold, and what a first submission gives
  FirstMembers, FirstJury,      \* bound: who is on a team and on a jury at first
  Patches,        \* bound: what an edit gives
  Answers,        \* bound: the total_score and comment that an evaluation gives
  Statuses,       \* bound: the statuses of rounds, of which only "active" is asked for
  MaxTime,        \* bound: the clock stops here
  MaxInFlight,    \* bound: how many handlers may be at work at once
  MaxChanges      \* bound: which kinds of requests come in one behaviour, and for each
                  \* such set of kinds how often anything changes under them

RoundStatus == {"draft", "active", "submission_closed", "evaluated"}

ASSUME SubmissionsAssumption ==
  /\ Admins \subseteq Users
  /\ TournamentOf \in [Rounds \cup Teams -> Tournaments]
  /\ CaptainOf \in [Teams -> Users]
  /\ NewRow \notin SubmissionId \cup EvaluationId
  /\ First \in Texts /\ Statuses \subseteq RoundStatus
  /\ FirstMembers \subseteq Teams \X Users /\ FirstJury \subseteq Tournaments \X Users
  /\ Patches \subseteq UNION {[D -> Texts] : D \in SUBSET Columns}
  /\ Answers \subseteq [total_score : Nat, comment : Texts]
  /\ MaxTime \in Nat \ {0} /\ MaxInFlight \in Nat
  /\ \A K \in DOMAIN MaxChanges : MaxChanges[K] \in Nat

VARIABLES
  kinds,        \* the kinds of requests that come in this behaviour
  now,          \* the clock
  rounds,       \* the rounds there are, with status and end_date
  teams,        \* the teams there are
  members,      \* team_members, as pairs of a team and the user with that e-mail
  jury,         \* tournament_jury_members, as pairs of a tournament and a user
  submissions, evaluations,     \* the tables
  handlers,     \* what each handler will do next, and what it has read for it
  history,      \* what has been true of each request since it arrived
  changes       \* how often anything has changed under the requests

world == <<kinds, now, rounds, teams, members, jury>>
tables == <<submissions, evaluations>>
vars == <<world, tables, handlers, history, changes>>
-----------------------------------------------------------------------------
Content == [Columns -> Texts]

Submission == [id : SubmissionId \cup {NewRow}, team : Teams, round : Rounds, content : Content]
Evaluation == [id : EvaluationId \cup {NewRow}, submission : SubmissionId, jury : Users,
               answer : Answers]

Idle == [step |-> "idle"]

HandlerState ==
  {Idle}
  \cup [step : {"findTeam", "findMembership"}, user : Users, round : Rounds]
  \cup [step : {"findExisting", "insertSubmission"}, user : Users, row : Submission]
  \cup [step : {"findAccess", "findAccessMembership", "saveSubmission"}, user : Users,
        row : Submission, patch : Patches, status : Statuses, end_date : 0 .. MaxTime]
  \cup [step : {"checkJury", "findEvaluation"}, user : Users, submission : SubmissionId,
        round : Rounds, answer : Answers]
  \cup [step : {"saveEvaluation"}, user : Users, row : Evaluation]

WorldOK ==
  /\ kinds \in DOMAIN MaxChanges /\ changes \in 0 .. MaxChanges[kinds] /\ now \in 0 .. MaxTime
  /\ DOMAIN rounds \subseteq Rounds
  /\ rounds \in [DOMAIN rounds -> [status : Statuses, end_date : 0 .. MaxTime]]
  /\ teams \subseteq Teams /\ members \subseteq teams \X Users /\ jury \subseteq Tournaments \X Users

TablesOK ==
  /\ submissions \subseteq Submission /\ \A s \in submissions : s.id # NewRow
  /\ evaluations \subseteq Evaluation /\ \A e \in evaluations : e.id # NewRow

TypeOK == WorldOK /\ TablesOK /\ handlers \in [Slots -> HandlerState]

Init ==
  /\ kinds \in DOMAIN MaxChanges /\ changes = 0 /\ now = 0
  /\ rounds \in [Rounds -> [status : Statuses, end_date : {1}]]
  /\ teams = Teams /\ members = FirstMembers /\ jury = FirstJury
  /\ submissions = {} /\ evaluations = {}
  /\ handlers = [h \in Slots |-> Idle]
  /\ history = [h \in Slots |-> {}]
-----------------------------------------------------------------------------
(* The tables *)

InFlight == {h \in Slots : handlers[h] # Idle}
EditSteps == {"findAccess", "findAccessMembership", "saveSubmission"}
HeldSubmissions ==
  {handlers[h].row.id : h \in {g \in InFlight : handlers[g].step \in EditSteps}}
  \cup {handlers[h].submission : h \in {g \in InFlight : handlers[g].step \in {"checkJury", "findEvaluation"}}}
  \cup {handlers[h].row.submission : h \in {g \in InFlight : handlers[g].step = "saveEvaluation"}}
HeldEvaluations ==
  {handlers[h].row.id : h \in {g \in InFlight : handlers[g].step = "saveEvaluation"}}

\* An id that no row has and no handler holds stands for the next fresh one.
HasId(row, ids, used) == row.id = NewRow => ids \ used # {}
WithId(row, ids, used) ==
  IF row.id = NewRow THEN [row EXCEPT !.id = CHOOSE i \in ids \ used : TRUE] ELSE row

UsedSubmissions == {s.id : s \in submissions} \cup HeldSubmissions
UsedEvaluations == {e.id : e \in evaluations} \cup HeldEvaluations

\* The table with a row that is inserted or takes the place of the row with its id.
Put(table, row) == {r \in table : r.id # row.id} \cup {row}

\* Definitions named Faulty... are what a plausible slip in the code would make of
\* the definition that follows; PROJECT.json substitutes them, nothing here uses them.

\* Foreign keys, and the unique index on (team_id, round_id).
CanPutSubmission(row) ==
  /\ row.team \in teams /\ row.round \in DOMAIN rounds
  /\ \A s \in submissions : s.team = row.team /\ s.round = row.round => s.id = row.id

\* No unique index on (submission_id, jury_id).
FaultyCanPutEvaluation(row) == \E s \in submissions : s.id = row.submission

\* The foreign key, and the unique index on (submission_id, jury_id).
CanPutEvaluation(row) ==
  /\ \E s \in submissions : s.id = row.submission
  /\ \A e \in evaluations : e.submission = row.submission /\ e.jury = row.jury => e.id = row.id

\* What ON DELETE CASCADE leaves of the tables when the rounds R and the teams T are left.
Cascade(R, T) ==
  /\ submissions' = {s \in submissions : s.round \in R /\ s.team \in T}
  /\ evaluations' = {e \in evaluations : \E s \in submissions' : s.id = e.submission}
-----------------------------------------------------------------------------
(* How a request proceeds, and what is recorded of it *)

Open(r) == r \in DOMAIN rounds /\ rounds[r].status = "active" /\ rounds[r].end_date > now
OnTeam(u, t) == t \in teams /\ (CaptainOf[t] = u \/ <<t, u>> \in members)

\* What is true of a user's rights in this state.
FactsOf(u) ==
  {<<"open", r>> : r \in {x \in Rounds : Open(x)}}
  \cup {<<"on", t>> : t \in {x \in Teams : OnTeam(u, x)}}
  \cup {<<"judges", j[1]>> : j \in {x \in jury : x[2] = u}}

\* history follows the steps and never hinders one: every action ends with it.
Record ==
  history' =
    [h \in Slots |->
       IF handlers'[h] = Idle THEN {}
       ELSE LET facts == FactsOf(handlers[h].user)' IN
            IF handlers[h] = Idle THEN facts
            ELSE history[h] \cup facts
                 \cup (IF tables' # tables THEN {<<"disturbed">>} ELSE {})]

Goes(h, state) == handlers' = [handlers EXCEPT ![h] = state]

Begins(h, kind, state) ==
  /\ kind \in kinds /\ handlers[h] = Idle /\ Cardinality(InFlight) < MaxInFlight
  /\ Goes(h, state)
  /\ UNCHANGED <<world, tables, changes>> /\ Record

At(h, step) == handlers[h].step = step /\ UNCHANGED <<world, changes>>

Reads(h, state) == Goes(h, state) /\ UNCHANGED tables /\ Record
-----------------------------------------------------------------------------
(* createForRound *)

BeginCreateForRound(h, u, r) ==
  /\ Open(r)
  /\ Begins(h, "createForRound", [step |-> "findTeam", user |-> u, round |-> r])

\* The teams among ts in the tournament of the round.
Playing(ts, r) == {t \in ts : TournamentOf[t] = TournamentOf[r]}

\* Goes on with one of the teams found, the database's choice if there are several.
GoesWith(h, ts) ==
  \E t \in ts :
    Reads(h, [step |-> "findExisting", user |-> handlers[h].user,
           row |-> [id |-> NewRow, team |-> t, round |-> handlers[h].round,
                    content |-> [c \in Columns |-> First]]])

\* findOwnedTeamForRound reads the round again, and then a team the user is captain of.
FindTeam(h) ==
  /\ At(h, "findTeam")
  /\ LET own == Playing({t \in teams : CaptainOf[t] = handlers[h].user}, handlers[h].round) IN
     IF handlers[h].round \notin DOMAIN rounds THEN Reads(h, Idle)
     ELSE IF own # {} THEN GoesWith(h, own)
     ELSE Reads(h, [handlers[h] EXCEPT !.step = "findMembership"])

\* A member of any team will do.
FaultyFindMembership(h) ==
  /\ At(h, "findMembership")
  /\ LET mine == {t \in teams : <<t, handlers[h].user>> \in members} IN
     IF mine = {} THEN Reads(h, Idle) ELSE GoesWith(h, mine)

\* ... or else a row of team_members with the user's e-mail, whatever its status.
FindMembership(h) ==
  /\ At(h, "findMembership")
  /\ LET mine == Playing({t \in teams : <<t, handlers[h].user>> \in members}, handlers[h].round) IN
     IF mine = {} THEN Reads(h, Idle) ELSE GoesWith(h, mine)

FindExisting(h) ==
  /\ At(h, "findExisting")
  /\ LET row == handlers[h].row IN
     Reads(h, IF \E s \in submissions : s.team = row.team /\ s.round = row.round THEN Idle
           ELSE [handlers[h] EXCEPT !.step = "insertSubmission"])

\* Saves a row of submissions; a refusal is answered with an error.
SavesSubmission(h, row) ==
  /\ HasId(row, SubmissionId, UsedSubmissions)
  /\ submissions' = IF CanPutSubmission(row)
                    THEN Put(submissions, WithId(row, SubmissionId, UsedSubmissions))
                    ELSE submissions
  /\ Goes(h, Idle)
  /\ UNCHANGED evaluations /\ Record

InsertSubmission(h) == At(h, "insertSubmission") /\ SavesSubmission(h, handlers[h].row)
-----------------------------------------------------------------------------
(* updateSubmission *)

BeginUpdateSubmission(h, u, s, patch) ==
  Begins(h, "updateSubmission",
         [step |-> "findAccess", user |-> u, row |-> s, patch |-> patch,
          status |-> rounds[s.round].status, end_date |-> rounds[s.round].end_date])

\* The deadline is not looked at.
FaultyEditable(state) == state.status = "active"

\* ensureSubmissionEditable, with the round as it was read and the clock as it is now.
Editable(state) == state.status = "active" /\ state.end_date > now

\* assertTeamAccess has passed.
GoesToSave(h) ==
  Reads(h, IF Editable(handlers[h]) THEN [handlers[h] EXCEPT !.step = "saveSubmission"] ELSE Idle)

FindAccess(h) ==
  /\ At(h, "findAccess")
  /\ LET u == handlers[h].user
         t == handlers[h].row.team
     IN  IF t \notin teams THEN Reads(h, Idle)
         ELSE IF u \in Admins \/ CaptainOf[t] = u THEN GoesToSave(h)
         ELSE Reads(h, [handlers[h] EXCEPT !.step = "findAccessMembership"])

FindAccessMembership(h) ==
  /\ At(h, "findAccessMembership")
  /\ IF <<handlers[h].row.team, handlers[h].user>> \in members
     THEN GoesToSave(h)
     ELSE Reads(h, Idle)

\* What the request does not give is lost.
FaultyEdited(row, patch) == [row EXCEPT !.content = patch]

Edited(row, patch) ==
  [row EXCEPT !.content = [c \in Columns |-> IF c \in DOMAIN patch THEN patch[c] ELSE @[c]]]

SaveSubmission(h) ==
  /\ At(h, "saveSubmission")
  /\ SavesSubmission(h, Edited(handlers[h].row, handlers[h].patch))
-----------------------------------------------------------------------------
(* createEvaluation *)

\* Administrators evaluate what they like, others as jurors of the tournament.
BeginEvaluation(h, u, s, answer) ==
  Begins(h, "createEvaluation",
         [step |-> IF u \in Admins THEN "findEvaluation" ELSE "checkJury", user |-> u,
          submission |-> s.id, round |-> s.round, answer |-> answer])

\* A juror of any tournament will do.
FaultyCheckJury(h) ==
  /\ At(h, "checkJury")
  /\ LET allowed == \E j \in jury : j[2] = handlers[h].user IN
     Reads(h, IF allowed THEN [handlers[h] EXCEPT !.step = "findEvaluation"] ELSE Idle)

CheckJury(h) ==
  /\ At(h, "checkJury")
  /\ LET allowed == <<TournamentOf[handlers[h].round], handlers[h].user>> \in jury IN
     Reads(h, IF allowed THEN [handlers[h] EXCEPT !.step = "findEvaluation"] ELSE Idle)

FindEvaluation(h) ==
  /\ At(h, "findEvaluation")
  /\ LET u    == handlers[h].user
         old  == {e.id : e \in {x \in evaluations : x.submission = handlers[h].submission /\ x.jury = u}}
         row  == [id |-> NewRow, submission |-> handlers[h].submission, jury |-> u,
                  answer |-> handlers[h].answer]
     IN  \E i \in IF old = {} THEN {NewRow} ELSE old :
           Reads(h, [step |-> "saveEvaluation", user |-> u, row |-> [row EXCEPT !.id = i]])

SaveEvaluation(h) ==
  /\ At(h, "saveEvaluation")
  /\ LET row == handlers[h].row IN
     /\ HasId(row, EvaluationId, UsedEvaluations)
     /\ evaluations' = IF CanPutEvaluation(row)
                       THEN Put(evaluations, WithId(row, EvaluationId, UsedEvaluations))
                       ELSE evaluations
  /\ Goes(h, Idle)
  /\ UNCHANGED submissions /\ Record

\* The evaluations that count for a team in getLeaderboard, and its total_score.
EvaluationsOf(t) == {e \in evaluations : \E s \in submissions : s.id = e.submission /\ s.team = t}

SumOfScores(E) == MapThenSumSet(LAMBDA e : e.answer.total_score, E)

TotalScore(t) == SumOfScores(EvaluationsOf(t))
-----------------------------------------------------------------------------
(* What happens under the requests *)

Changes ==
  /\ changes < MaxChanges[kinds] /\ changes' = changes + 1
  /\ UNCHANGED <<kinds, handlers>>

Tick ==
  /\ Changes /\ now < MaxTime /\ now' = now + 1
  /\ UNCHANGED <<rounds, teams, members, jury, tables>> /\ Record

\* Whoever edits, advances or closes it: a round may go from any status to any other.
ChangeRound(r, status, end_date) ==
  /\ Changes
  /\ rounds' = [rounds EXCEPT ![r] = [status |-> status, end_date |-> end_date]]
  /\ UNCHANGED <<now, teams, members, jury, tables>> /\ Record

\* The rows of rounds and teams that are left, and of the tables that hang on them.
Remove(R, T) ==
  /\ Changes
  /\ rounds' = [r \in DOMAIN rounds \ R |-> rounds[r]]
  /\ teams' = teams \ T
  /\ members' = {m \in members : m[1] \notin T}
  /\ Cascade(DOMAIN rounds \ R, teams \ T)

RemoveRound(r) == Remove({r}, {}) /\ UNCHANGED <<now, jury>> /\ Record

RemoveTeam(t) == Remove({}, {t}) /\ UNCHANGED <<now, jury>> /\ Record

RemoveTournament(T) ==
  /\ Remove({r \in Rounds : TournamentOf[r] = T}, {t \in Teams : TournamentOf[t] = T})
  /\ jury' = {j \in jury : j[1] # T}
  /\ UNCHANGED now /\ Record

\* E-mails are unique in a tournament (team_members, unique index).
AddMember(t, u) ==
  /\ Changes
  /\ \A m \in members : m[2] = u => TournamentOf[m[1]] # TournamentOf[t]
  /\ members' = members \cup {<<t, u>>}
  /\ UNCHANGED <<now, rounds, teams, jury, tables>> /\ Record

RemoveMember(t, u) ==
  /\ Changes /\ members' = members \ {<<t, u>>}
  /\ UNCHANGED <<now, rounds, teams, jury, tables>> /\ Record

AddJuror(T, u) ==
  /\ "createEvaluation" \in kinds   \* nothing else asks
  /\ Changes /\ jury' = jury \cup {<<T, u>>}
  /\ UNCHANGED <<now, rounds, teams, members, tables>> /\ Record

RemoveJuror(T, u) ==
  /\ "createEvaluation" \in kinds
  /\ Changes /\ jury' = jury \ {<<T, u>>}
  /\ UNCHANGED <<now, rounds, teams, members, tables>> /\ Record
-----------------------------------------------------------------------------
Request(h) ==
  \/ \E u \in Users, r \in Rounds : BeginCreateForRound(h, u, r)
  \/ \E u \in Users, s \in submissions, patch \in Patches : BeginUpdateSubmission(h, u, s, patch)
  \/ \E u \in Users, s \in submissions, answer \in Answers : BeginEvaluation(h, u, s, answer)

Statement(h) ==
  \/ FindTeam(h) \/ FindMembership(h) \/ FindExisting(h) \/ InsertSubmission(h)
  \/ FindAccess(h) \/ FindAccessMembership(h) \/ SaveSubmission(h)
  \/ CheckJury(h) \/ FindEvaluation(h) \/ SaveEvaluation(h)

Change ==
  \/ Tick
  \/ \E r \in DOMAIN rounds, status \in Statuses, end \in 1 .. MaxTime : ChangeRound(r, status, end)
  \/ \E r \in DOMAIN rounds : RemoveRound(r)
  \/ \E t \in teams : RemoveTeam(t)
  \/ \E T \in Tournaments : RemoveTournament(T)
  \/ \E t \in teams, u \in Users : AddMember(t, u)
  \/ \E m \in members : RemoveMember(m[1], m[2])
  \/ \E T \in Tournaments, u \in Users : AddJuror(T, u)
  \/ \E j \in jury : RemoveJuror(j[1], j[2])

Next == (\E h \in Slots : Request(h) \/ Statement(h)) \/ Change

Spec == Init /\ [][Next]_vars
-----------------------------------------------------------------------------
(* Properties *)

\* Two members of a team who hand in at once leave one submission (unique index
\* unique_team_round_submission), and a juror who answers twice at once one
\* evaluation (unique_jury_submission_evaluation): nobody is counted twice.
OneRowEach ==
  /\ \A s1, s2 \in submissions : s1.team = s2.team /\ s1.round = s2.round => s1 = s2
  /\ \A e1, e2 \in evaluations : e1.submission = e2.submission /\ e1.jury = e2.jury => e1 = e2

\* The team that findOwnedTeamForRound picks plays in the tournament of the round,
\* however the user's teams change meanwhile.
TeamsPlayInTheirTournament ==
  \A s \in submissions : TournamentOf[s.team] = TournamentOf[s.round]

\* "Submission is allowed only for active rounds", "deadline has passed", "No access
\* to team submissions" (submissions.service.ts:168, 178, 251): a submission is
\* written only by a request that came while the round was still open, or saw it
\* open since, from an administrator or somebody who has been on the team since it
\* came.  A request that comes too late never writes, whatever overlaps with it.
LateRequestsWriteNothing ==
  [][\A s \in submissions' \ submissions :
       \E h \in Slots :
         /\ handlers[h] # Idle /\ handlers'[h] = Idle
         /\ <<"open", s.round>> \in history[h]
         /\ \/ <<"on", s.team>> \in history[h]
            \/ handlers[h].step = "saveSubmission" /\ handlers[h].user \in Admins]_vars

\* A team's place on the leaderboard moves only when a user who has been one of its
\* tournament's jurors since the request came, or an administrator, scores one of
\* its submissions, or when rows are removed; nobody else's score is touched.
StandingsMoveByTheJury ==
  [][\A t \in teams' :
       TotalScore(t)' # TotalScore(t) /\ DOMAIN rounds' = DOMAIN rounds =>
         \E h \in Slots :
           /\ handlers[h] # Idle /\ handlers'[h] = Idle
           /\ \/ handlers[h].user \in Admins
              \/ <<"judges", TournamentOf[t]>> \in history[h]
           /\ \A e \in evaluations' \ evaluations : e.jury = handlers[h].user]_vars

\* A save writes back the row as it was read: if nothing was written meanwhile, an
\* edit changes what it gives and keeps the rest, and nothing else in the table.
UndisturbedEditsAreExact ==
  [][\A h \in Slots :
       handlers[h] # Idle /\ handlers[h].step = "saveSubmission" /\ handlers'[h] = Idle
         /\ <<"disturbed">> \notin history[h] =>
           \E old \in submissions, new \in submissions' :
             /\ submissions' = (submissions \ {old}) \cup {new}
             /\ new.content = [c \in Columns |-> IF c \in DOMAIN handlers[h].patch
                                                 THEN handlers[h].patch[c] ELSE old.content[c]]
             /\ new.id = old.id /\ new.team = old.team /\ new.round = old.round]_vars
=============================================================================
