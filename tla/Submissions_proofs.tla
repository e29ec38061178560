------------------------ MODULE Submissions_proofs ------------------------
(***************************************************************************)
(* The tables of Submissions are consistent for any users, teams, rounds   *)
(* and tournaments, and any number of overlapping requests and changes.    *)
(*                                                                         *)
(* The database's constraints alone do not give it: that a team plays in   *)
(* the tournament of the round is checked by a request long before it      *)
(* inserts, so the invariant must say it of the rows that requests hold.   *)
(*                                                                         *)
(* The standings, and edits that nothing disturbs, need more: that an id   *)
(* stands for one row, whether a table has it or a request (IdsAreUnique), *)
(* that a request inserts before it has an id and scores only what it has  *)
(* seen a jury for (InOrder), and that what an undisturbed edit holds is   *)
(* the row of the table (Stored).                                          *)
(***************************************************************************)
EXTENDS Submissions, TLAPS

RowSteps ==
  {"findExisting", "insertSubmission", "findAccess", "findAccessMembership", "saveSubmission"}

Plays(state) ==
  state.step \in RowSteps => TournamentOf[state.row.team] = TournamentOf[state.row.round]

\* What a request is about to write fits together.
HeldRowsPlay == \A h \in Slots : Plays(handlers[h])

\* The foreign keys: a row in the tables has the rows it refers to. The other facts rest on it.
RowsHaveParents ==
  /\ \A s \in submissions : s.round \in DOMAIN rounds /\ s.team \in teams
  /\ \A e \in evaluations : \E s \in submissions : s.id = e.submission

Consistent == OneRowEach /\ RowsHaveParents /\ TeamsPlayInTheirTournament

IInv == TypeOK /\ Consistent /\ HeldRowsPlay
-----------------------------------------------------------------------------
(* Steps of the parts *)

\* A request that goes on to a well-formed state leaves the others alone.
LEMMA HandlerGoes ==
  ASSUME handlers \in [Slots -> HandlerState], HeldRowsPlay, NEW h \in Slots,
         NEW state \in HandlerState, Plays(state), Goes(h, state)
  PROVE  (handlers \in [Slots -> HandlerState] /\ HeldRowsPlay)'
BY DEF HeldRowsPlay, Plays, Goes

LEMMA IdleIsFine == Idle \in HandlerState /\ Plays(Idle)
BY DEF Idle, HandlerState, Plays, RowSteps

\* A request that only reads.
LEMMA Reading ==
  ASSUME IInv, NEW h \in Slots, NEW state \in HandlerState, Plays(state),
         Goes(h, state), UNCHANGED <<world, tables, changes>>
  PROVE  IInv'
<1>1. (handlers \in [Slots -> HandlerState] /\ HeldRowsPlay)'
  BY HandlerGoes DEF IInv, TypeOK
<1>2. WorldOK' /\ TablesOK'
  BY DEF IInv, TypeOK, WorldOK, TablesOK, world, tables
<1>3. Consistent'
  BY DEF IInv, Consistent, OneRowEach, RowsHaveParents, TeamsPlayInTheirTournament, world, tables
<1>4. QED  BY <1>1, <1>2, <1>3 DEF IInv, TypeOK

\* The row that is written differs from the one that is held in its id alone.
LEMMA WithIdSubmission ==
  ASSUME NEW row \in Submission, NEW used, HasId(row, SubmissionId, used),
         NEW w, w = WithId(row, SubmissionId, used)
  PROVE  /\ w \in Submission /\ w.id # NewRow
         /\ w.team = row.team /\ w.round = row.round /\ w.content = row.content
         /\ row.id # NewRow => w.id = row.id
         /\ row.id = NewRow => w.id \notin used
<1>1. CASE row.id = NewRow
  <2> DEFINE i == CHOOSE x \in SubmissionId \ used : TRUE
  <2>1. i \in SubmissionId \ used  BY <1>1 DEF HasId
  <2>2. w = [row EXCEPT !.id = i]  BY <1>1 DEF WithId
  <2>3. i # NewRow  BY <2>1, SubmissionsAssumption
  <2>4. QED  BY <2>1, <2>2, <2>3, <1>1 DEF Submission
<1>2. CASE row.id # NewRow
  BY <1>2 DEF WithId
<1>3. QED  BY <1>1, <1>2

LEMMA WithIdEvaluation ==
  ASSUME NEW row \in Evaluation, NEW used, HasId(row, EvaluationId, used),
         NEW w, w = WithId(row, EvaluationId, used)
  PROVE  /\ w \in Evaluation /\ w.id # NewRow
         /\ w.submission = row.submission /\ w.jury = row.jury
         /\ row.id # NewRow => w.id = row.id
         /\ row.id = NewRow => w.id \notin used
<1>1. CASE row.id = NewRow
  <2> DEFINE i == CHOOSE x \in EvaluationId \ used : TRUE
  <2>1. i \in EvaluationId \ used  BY <1>1 DEF HasId
  <2>2. w = [row EXCEPT !.id = i]  BY <1>1 DEF WithId
  <2>3. i # NewRow  BY <2>1, SubmissionsAssumption
  <2>4. QED  BY <2>1, <2>2, <2>3, <1>1 DEF Evaluation
<1>2. CASE row.id # NewRow
  BY <1>2 DEF WithId
<1>3. QED  BY <1>1, <1>2

\* An insert or an edit keeps the tables consistent: the unique index refuses a
\* second row, and a fresh id or the row's own takes nothing else's place.
LEMMA SubmissionSaved ==
  ASSUME IInv, NEW h \in Slots, NEW row \in Submission,
         TournamentOf[row.team] = TournamentOf[row.round],
         SavesSubmission(h, row), UNCHANGED <<world, changes>>
  PROVE  IInv'
<1> DEFINE w == WithId(row, SubmissionId, UsedSubmissions)
<1>0. Goes(h, Idle) /\ evaluations' = evaluations /\ HasId(row, SubmissionId, UsedSubmissions)
  BY DEF SavesSubmission
<1>1. (handlers \in [Slots -> HandlerState] /\ HeldRowsPlay)'
  BY <1>0, IdleIsFine, HandlerGoes DEF IInv, TypeOK
<1>2. WorldOK'
  BY DEF IInv, TypeOK, WorldOK, world
<1>3. CASE ~CanPutSubmission(row)
  <2>1. submissions' = submissions  BY <1>3 DEF SavesSubmission
  <2>2. TablesOK' /\ Consistent'
    BY <2>1, <1>0 DEF IInv, TypeOK, TablesOK, Consistent, OneRowEach, RowsHaveParents,
       TeamsPlayInTheirTournament, world
  <2>3. QED  BY <1>1, <1>2, <2>2 DEF IInv, TypeOK
<1>4. CASE CanPutSubmission(row)
  <2>1. submissions' = {r \in submissions : r.id # w.id} \cup {w}
    BY <1>4 DEF SavesSubmission, Put
  <2>2. /\ w \in Submission /\ w.id # NewRow
        /\ w.team = row.team /\ w.round = row.round
        /\ row.id # NewRow => w.id = row.id
    BY <1>0, WithIdSubmission
  <2> HIDE DEF w
  <2>3. TablesOK'
    BY <2>1, <2>2, <1>0 DEF IInv, TypeOK, TablesOK
  <2>4. \A s \in submissions : s.team = w.team /\ s.round = w.round => s.id = w.id
    BY <2>2, <1>4 DEF CanPutSubmission, IInv, TypeOK, TablesOK
  <2>5. OneRowEach'
    <3>1. \A s1, s2 \in submissions' : s1.team = s2.team /\ s1.round = s2.round => s1 = s2
      BY <2>1, <2>4 DEF IInv, Consistent, OneRowEach
    <3>2. QED  BY <3>1, <1>0 DEF IInv, Consistent, OneRowEach
  <2>6. RowsHaveParents'
    <3>1. \A s \in submissions' : s.round \in DOMAIN rounds' /\ s.team \in teams'
      BY <2>1, <2>2, <1>4 DEF CanPutSubmission, IInv, Consistent, RowsHaveParents, world
    <3>2. \A s \in submissions : \E t \in submissions' : t.id = s.id
      BY <2>1
    <3>3. \A e \in evaluations' : \E s \in submissions' : s.id = e.submission
      BY <3>2, <1>0 DEF IInv, Consistent, RowsHaveParents
    <3>4. QED  BY <3>1, <3>3 DEF RowsHaveParents
  <2>7. TeamsPlayInTheirTournament'
    BY <2>1, <2>2 DEF IInv, Consistent, TeamsPlayInTheirTournament
  <2>8. QED  BY <1>1, <1>2, <2>3, <2>5, <2>6, <2>7 DEF IInv, TypeOK, Consistent
<1>5. QED  BY <1>3, <1>4

LEMMA EvaluationSaved ==
  ASSUME IInv, NEW h \in Slots, SaveEvaluation(h)
  PROVE  IInv'
<1> DEFINE row == handlers[h].row
           w   == WithId(row, EvaluationId, UsedEvaluations)
<1>0. /\ Goes(h, Idle) /\ submissions' = submissions /\ HasId(row, EvaluationId, UsedEvaluations)
      /\ UNCHANGED <<world, changes>>
      /\ row \in Evaluation
  BY DEF SaveEvaluation, At, IInv, TypeOK, HandlerState, Idle
<1>1. (handlers \in [Slots -> HandlerState] /\ HeldRowsPlay)'
  BY <1>0, IdleIsFine, HandlerGoes DEF IInv, TypeOK
<1>2. WorldOK'
  BY <1>0 DEF IInv, TypeOK, WorldOK, world
<1>3. CASE ~CanPutEvaluation(row)
  <2>1. evaluations' = evaluations  BY <1>3 DEF SaveEvaluation
  <2>2. TablesOK' /\ Consistent'
    BY <2>1, <1>0 DEF IInv, TypeOK, TablesOK, Consistent, OneRowEach, RowsHaveParents,
       TeamsPlayInTheirTournament, world
  <2>3. QED  BY <1>1, <1>2, <2>2 DEF IInv, TypeOK
<1>4. CASE CanPutEvaluation(row)
  <2>1. evaluations' = {r \in evaluations : r.id # w.id} \cup {w}
    BY <1>4 DEF SaveEvaluation, Put
  <2>2. /\ w \in Evaluation /\ w.id # NewRow
        /\ w.submission = row.submission /\ w.jury = row.jury
        /\ row.id # NewRow => w.id = row.id
    BY <1>0, WithIdEvaluation
  <2>3. /\ \E s \in submissions : s.id = w.submission
        /\ \A e \in evaluations : e.submission = w.submission /\ e.jury = w.jury => e.id = w.id
    BY <2>2, <1>4 DEF CanPutEvaluation, IInv, TypeOK, TablesOK
  <2> HIDE DEF w
  <2>4. TablesOK'
    BY <2>1, <2>2, <1>0 DEF IInv, TypeOK, TablesOK
  <2>5. OneRowEach'
    <3>1. \A e1, e2 \in evaluations' : e1.submission = e2.submission /\ e1.jury = e2.jury => e1 = e2
      BY <2>1, <2>3 DEF IInv, Consistent, OneRowEach
    <3>2. QED  BY <3>1, <1>0 DEF IInv, Consistent, OneRowEach
  <2>6. RowsHaveParents'
    BY <2>1, <2>3, <1>0 DEF IInv, Consistent, RowsHaveParents, world
  <2>7. TeamsPlayInTheirTournament'
    BY <1>0 DEF IInv, Consistent, TeamsPlayInTheirTournament
  <2>8. QED  BY <1>1, <1>2, <2>4, <2>5, <2>6, <2>7 DEF IInv, TypeOK, Consistent
<1>5. QED  BY <1>3, <1>4
-----------------------------------------------------------------------------
(* Requests that come in *)

LEMMA CreateBegins ==
  ASSUME IInv, NEW h \in Slots, NEW u \in Users, NEW r \in Rounds, BeginCreateForRound(h, u, r)
  PROVE  IInv'
<1> DEFINE state == [step |-> "findTeam", user |-> u, round |-> r]
<1>1. state \in HandlerState /\ Plays(state)
  BY DEF HandlerState, Plays, RowSteps
<1>2. Goes(h, state) /\ UNCHANGED <<world, tables, changes>>
  BY DEF BeginCreateForRound, Begins
<1>3. QED  BY <1>1, <1>2, Reading

LEMMA UpdateBegins ==
  ASSUME IInv, NEW h \in Slots, NEW u \in Users, NEW s \in submissions, NEW patch \in Patches,
         BeginUpdateSubmission(h, u, s, patch)
  PROVE  IInv'
<1> DEFINE state == [step |-> "findAccess", user |-> u, row |-> s, patch |-> patch,
                     status |-> rounds[s.round].status, end_date |-> rounds[s.round].end_date]
<1>1. s \in Submission /\ s.round \in DOMAIN rounds
  BY DEF IInv, TypeOK, TablesOK, Consistent, RowsHaveParents
<1>2. rounds[s.round] \in [status : Statuses, end_date : 0 .. MaxTime]
  BY <1>1 DEF IInv, TypeOK, WorldOK
<1>3. state \in HandlerState
  BY <1>1, <1>2 DEF HandlerState
<1>4. Plays(state)
  BY DEF Plays, IInv, Consistent, TeamsPlayInTheirTournament
<1>5. Goes(h, state) /\ UNCHANGED <<world, tables, changes>>
  BY DEF BeginUpdateSubmission, Begins
<1>6. QED  BY <1>3, <1>4, <1>5, Reading

LEMMA EvaluationBegins ==
  ASSUME IInv, NEW h \in Slots, NEW u \in Users, NEW s \in submissions, NEW answer \in Answers,
         BeginEvaluation(h, u, s, answer)
  PROVE  IInv'
<1> DEFINE state == [step |-> IF u \in Admins THEN "findEvaluation" ELSE "checkJury", user |-> u,
                     submission |-> s.id, round |-> s.round, answer |-> answer]
<1>1. s.id \in SubmissionId /\ s.round \in Rounds
  BY DEF IInv, TypeOK, TablesOK, Submission
<1>2. state \in HandlerState /\ Plays(state)
  BY <1>1 DEF HandlerState, Plays, RowSteps
<1>3. Goes(h, state) /\ UNCHANGED <<world, tables, changes>>
  BY DEF BeginEvaluation, Begins
<1>4. QED  BY <1>2, <1>3, Reading
-----------------------------------------------------------------------------
(* Statements that read *)

\* The team that is found for a round is one of its tournament.
LEMMA TeamFound ==
  ASSUME IInv, NEW h \in Slots, handlers[h].step \in {"findTeam", "findMembership"},
         NEW ts \in SUBSET Teams, \A t \in ts : TournamentOf[t] = TournamentOf[handlers[h].round],
         GoesWith(h, ts), UNCHANGED <<world, changes>>
  PROVE  IInv'
<1>1. PICK t \in ts :
        Reads(h, [step |-> "findExisting", user |-> handlers[h].user,
                  row |-> [id |-> NewRow, team |-> t, round |-> handlers[h].round,
                           content |-> [c \in Columns |-> First]]])
  BY DEF GoesWith
<1> DEFINE row   == [id |-> NewRow, team |-> t, round |-> handlers[h].round,
                     content |-> [c \in Columns |-> First]]
           state == [step |-> "findExisting", user |-> handlers[h].user, row |-> row]
<1>2. handlers[h].user \in Users /\ handlers[h].round \in Rounds
  BY DEF IInv, TypeOK, HandlerState, Idle
<1>3. row \in Submission
  <2>1. [c \in Columns |-> First] \in Content  BY SubmissionsAssumption DEF Content
  <2>2. QED  BY <2>1, <1>2 DEF Submission
<1>4. state \in HandlerState
  BY <1>2, <1>3 DEF HandlerState
<1>5. Plays(state)
  BY DEF Plays
<1>6. Goes(h, state) /\ UNCHANGED tables
  BY <1>1 DEF Reads
<1>7. QED  BY <1>4, <1>5, <1>6, Reading DEF world, tables

\* An answer, and the end of the request.
LEMMA Stops ==
  ASSUME IInv, NEW h \in Slots, Reads(h, Idle), UNCHANGED <<world, changes>>
  PROVE  IInv'
BY IdleIsFine, Reading DEF Reads

\* The next step of a request that keeps what it holds.
LEMMA GoesOn ==
  ASSUME IInv, NEW h \in Slots, NEW step,
         \/ handlers[h].step = "findTeam" /\ step = "findMembership"
         \/ handlers[h].step = "findExisting" /\ step = "insertSubmission"
         \/ handlers[h].step = "findAccess" /\ step \in {"findAccessMembership", "saveSubmission"}
         \/ handlers[h].step = "findAccessMembership" /\ step = "saveSubmission"
         \/ handlers[h].step = "checkJury" /\ step = "findEvaluation",
         Reads(h, [handlers[h] EXCEPT !.step = step]), UNCHANGED <<world, changes>>
  PROVE  IInv'
<1> DEFINE state == [handlers[h] EXCEPT !.step = step]
<1>1. handlers[h] \in HandlerState /\ Plays(handlers[h])
  BY DEF IInv, TypeOK, HeldRowsPlay
<1>2. state \in HandlerState
  BY <1>1 DEF HandlerState, Idle
<1>3. Plays(state)
  BY <1>1 DEF HandlerState, Idle, Plays, RowSteps
<1>4. Goes(h, state) /\ UNCHANGED tables
  BY DEF Reads
<1>5. QED  BY <1>2, <1>3, <1>4, Reading

\* What Playing picks is in the tournament of the round.
LEMMA PlayingIsInTournament ==
  ASSUME NEW ts \in SUBSET Teams, NEW r
  PROVE  /\ Playing(ts, r) \in SUBSET Teams
         /\ \A t \in Playing(ts, r) : TournamentOf[t] = TournamentOf[r]
BY DEF Playing

LEMMA CreateSteps ==
  ASSUME IInv, NEW h \in Slots,
         FindTeam(h) \/ FindMembership(h) \/ FindExisting(h) \/ InsertSubmission(h)
  PROVE  IInv'
<1>0. teams \in SUBSET Teams
  BY DEF IInv, TypeOK, WorldOK
<1>1. CASE FindTeam(h)
  <2> DEFINE own == Playing({t \in teams : CaptainOf[t] = handlers[h].user}, handlers[h].round)
  <2>1. handlers[h].step = "findTeam" /\ UNCHANGED <<world, changes>>
    BY <1>1 DEF FindTeam, At
  <2>2. own \in SUBSET Teams /\ \A t \in own : TournamentOf[t] = TournamentOf[handlers[h].round]
    BY <1>0, PlayingIsInTournament
  <2>3. \/ Reads(h, Idle) \/ GoesWith(h, own)
        \/ Reads(h, [handlers[h] EXCEPT !.step = "findMembership"])
    BY <1>1 DEF FindTeam
  <2> HIDE DEF own
  <2>4. QED  BY <2>1, <2>2, <2>3, Stops, TeamFound, GoesOn
<1>2. CASE FindMembership(h)
  <2> DEFINE mine == Playing({t \in teams : <<t, handlers[h].user>> \in members}, handlers[h].round)
  <2>1. handlers[h].step = "findMembership" /\ UNCHANGED <<world, changes>>
    BY <1>2 DEF FindMembership, At
  <2>2. mine \in SUBSET Teams /\ \A t \in mine : TournamentOf[t] = TournamentOf[handlers[h].round]
    BY <1>0, PlayingIsInTournament
  <2>3. Reads(h, Idle) \/ GoesWith(h, mine)
    BY <1>2 DEF FindMembership
  <2> HIDE DEF mine
  <2>4. QED  BY <2>1, <2>2, <2>3, Stops, TeamFound
<1>3. CASE FindExisting(h)
  <2>1. handlers[h].step = "findExisting" /\ UNCHANGED <<world, changes>>
    BY <1>3 DEF FindExisting, At
  <2>2. Reads(h, Idle) \/ Reads(h, [handlers[h] EXCEPT !.step = "insertSubmission"])
    BY <1>3 DEF FindExisting
  <2>3. QED  BY <2>1, <2>2, Stops, GoesOn
<1>4. CASE InsertSubmission(h)
  <2>1. handlers[h].step = "insertSubmission" /\ UNCHANGED <<world, changes>>
    BY <1>4 DEF InsertSubmission, At
  <2>2. handlers[h].row \in Submission
    BY <2>1 DEF IInv, TypeOK, HandlerState, Idle
  <2>3. TournamentOf[handlers[h].row.team] = TournamentOf[handlers[h].row.round]
    BY <2>1 DEF IInv, HeldRowsPlay, Plays, RowSteps
  <2>4. SavesSubmission(h, handlers[h].row)
    BY <1>4 DEF InsertSubmission
  <2>5. QED  BY <2>1, <2>2, <2>3, <2>4, SubmissionSaved
<1>5. QED  BY <1>1, <1>2, <1>3, <1>4

\* An edit keeps all of the row but what it gives.
LEMMA EditedRow ==
  ASSUME NEW row \in Submission, NEW patch \in Patches
  PROVE  /\ Edited(row, patch) \in Submission
         /\ Edited(row, patch).id = row.id
         /\ Edited(row, patch).team = row.team /\ Edited(row, patch).round = row.round
         /\ Edited(row, patch).content =
              [c \in Columns |-> IF c \in DOMAIN patch THEN patch[c] ELSE row.content[c]]
<1> DEFINE content == [c \in Columns |-> IF c \in DOMAIN patch THEN patch[c] ELSE row.content[c]]
<1>1. PICK D \in SUBSET Columns : patch \in [D -> Texts]
  BY SubmissionsAssumption
<1>2. row.content \in [Columns -> Texts]
  BY DEF Submission, Content
<1>3. content \in Content
  BY <1>1, <1>2 DEF Content
<1>4. Edited(row, patch) = [row EXCEPT !.content = content]
  BY DEF Edited
<1>5. ASSUME NEW c, c \in Content
      PROVE  /\ [row EXCEPT !.content = c] \in Submission
             /\ [row EXCEPT !.content = c].id = row.id
             /\ [row EXCEPT !.content = c].team = row.team
             /\ [row EXCEPT !.content = c].round = row.round
             /\ [row EXCEPT !.content = c].content = c
  BY <1>5 DEF Submission
<1>6. QED  BY <1>3, <1>4, <1>5

LEMMA UpdateSteps ==
  ASSUME IInv, NEW h \in Slots, FindAccess(h) \/ FindAccessMembership(h) \/ SaveSubmission(h)
  PROVE  IInv'
<1>1. ASSUME handlers[h].step \in {"findAccess", "findAccessMembership"},
             GoesToSave(h), UNCHANGED <<world, changes>>
      PROVE  IInv'
  <2>1. Reads(h, Idle) \/ Reads(h, [handlers[h] EXCEPT !.step = "saveSubmission"])
    BY <1>1 DEF GoesToSave
  <2>2. QED  BY <1>1, <2>1, Stops, GoesOn
<1>2. CASE FindAccess(h)
  <2>1. handlers[h].step = "findAccess" /\ UNCHANGED <<world, changes>>
    BY <1>2 DEF FindAccess, At
  <2>2. \/ Reads(h, Idle) \/ GoesToSave(h)
        \/ Reads(h, [handlers[h] EXCEPT !.step = "findAccessMembership"])
    BY <1>2 DEF FindAccess
  <2>3. QED  BY <1>1, <2>1, <2>2, Stops, GoesOn
<1>3. CASE FindAccessMembership(h)
  <2>1. handlers[h].step = "findAccessMembership" /\ UNCHANGED <<world, changes>>
    BY <1>3 DEF FindAccessMembership, At
  <2>2. Reads(h, Idle) \/ GoesToSave(h)
    BY <1>3 DEF FindAccessMembership
  <2>3. QED  BY <1>1, <2>1, <2>2, Stops
<1>4. CASE SaveSubmission(h)
  <2> DEFINE row == Edited(handlers[h].row, handlers[h].patch)
  <2>1. handlers[h].step = "saveSubmission" /\ UNCHANGED <<world, changes>>
    BY <1>4 DEF SaveSubmission, At
  <2>2. handlers[h].row \in Submission /\ handlers[h].patch \in Patches
    BY <2>1 DEF IInv, TypeOK, HandlerState, Idle
  <2>3. TournamentOf[handlers[h].row.team] = TournamentOf[handlers[h].row.round]
    BY <2>1 DEF IInv, HeldRowsPlay, Plays, RowSteps
  <2>4. row \in Submission /\ TournamentOf[row.team] = TournamentOf[row.round]
    BY <2>2, <2>3, EditedRow
  <2>5. SavesSubmission(h, row)
    BY <1>4 DEF SaveSubmission
  <2> HIDE DEF row
  <2>6. QED  BY <2>1, <2>4, <2>5, SubmissionSaved
<1>5. QED  BY <1>2, <1>3, <1>4

LEMMA EvaluationSteps ==
  ASSUME IInv, NEW h \in Slots, CheckJury(h) \/ FindEvaluation(h) \/ SaveEvaluation(h)
  PROVE  IInv'
<1>1. CASE CheckJury(h)
  <2>1. handlers[h].step = "checkJury" /\ UNCHANGED <<world, changes>>
    BY <1>1 DEF CheckJury, At
  <2>2. Reads(h, Idle) \/ Reads(h, [handlers[h] EXCEPT !.step = "findEvaluation"])
    BY <1>1 DEF CheckJury
  <2>3. QED  BY <2>1, <2>2, Stops, GoesOn
<1>2. CASE FindEvaluation(h)
  <2> DEFINE u   == handlers[h].user
             old == {e.id : e \in {x \in evaluations : x.submission = handlers[h].submission /\ x.jury = u}}
             row == [id |-> NewRow, submission |-> handlers[h].submission, jury |-> u,
                     answer |-> handlers[h].answer]
  <2>1. handlers[h].step = "findEvaluation" /\ UNCHANGED <<world, changes>>
    BY <1>2 DEF FindEvaluation, At
  <2>2. PICK i \in IF old = {} THEN {NewRow} ELSE old :
          Reads(h, [step |-> "saveEvaluation", user |-> u, row |-> [row EXCEPT !.id = i]])
    BY <1>2 DEF FindEvaluation
  <2>3. i \in EvaluationId \cup {NewRow}
    BY <2>2 DEF IInv, TypeOK, TablesOK, Evaluation
  <2>4. u \in Users /\ row \in Evaluation
    BY <2>1 DEF IInv, TypeOK, HandlerState, Idle, Evaluation
  <2> DEFINE state == [step |-> "saveEvaluation", user |-> u, row |-> [row EXCEPT !.id = i]]
  <2>5. [row EXCEPT !.id = i] \in Evaluation
    BY <2>3, <2>4 DEF Evaluation
  <2>6. state \in HandlerState /\ Plays(state)
    BY <2>4, <2>5 DEF HandlerState, Plays, RowSteps
  <2>7. Goes(h, state) /\ UNCHANGED <<world, tables, changes>>
    BY <2>1, <2>2 DEF Reads
  <2> HIDE DEF state
  <2>8. QED  BY <2>6, <2>7, Reading
<1>3. QED  BY <1>1, <1>2, EvaluationSaved
-----------------------------------------------------------------------------
(* What happens under the requests *)

\* A change that takes no row away.
LEMMA WorldMoves ==
  ASSUME IInv, WorldOK', UNCHANGED <<tables, handlers>>,
         DOMAIN rounds' = DOMAIN rounds, teams' = teams
  PROVE  IInv'
BY DEF IInv, TypeOK, TablesOK, tables, Consistent, OneRowEach, RowsHaveParents,
       TeamsPlayInTheirTournament, HeldRowsPlay, Plays

\* The bounds of a behaviour.
LEMMA BoundsHold ==
  ASSUME WorldOK, Changes
  PROVE  kinds' \in DOMAIN MaxChanges /\ changes' \in 0 .. MaxChanges[kinds']
<1>1. kinds \in DOMAIN MaxChanges /\ MaxChanges[kinds] \in Nat /\ kinds' = kinds
  BY SubmissionsAssumption DEF WorldOK, Changes
<1>2. PICK n \in Nat : n = MaxChanges[kinds]
  BY <1>1
<1>3. changes \in 0 .. n /\ changes < n /\ changes' = changes + 1
  BY <1>2 DEF WorldOK, Changes
<1>4. changes' \in 0 .. n
  BY <1>3
<1>5. QED  BY <1>1, <1>2, <1>4

\* What is removed takes all that hangs on it along.
LEMMA RemovalCascades ==
  ASSUME IInv, NEW R, NEW T, Remove(R, T), now' = now, jury' \subseteq jury
  PROVE  IInv'
<1>1. WorldOK'
  <2>1. rounds' = [r \in DOMAIN rounds \ R |-> rounds[r]] /\ DOMAIN rounds' = DOMAIN rounds \ R
    BY DEF Remove
  <2>2. DOMAIN rounds' \subseteq Rounds /\ rounds' \in [DOMAIN rounds' -> [status : Statuses, end_date : 0 .. MaxTime]]
    BY <2>1 DEF IInv, TypeOK, WorldOK
  <2>3. teams' \subseteq Teams /\ members' \subseteq teams' \X Users
    BY DEF Remove, IInv, TypeOK, WorldOK
  <2>4. kinds' \in DOMAIN MaxChanges /\ changes' \in 0 .. MaxChanges[kinds']
    BY BoundsHold DEF Remove, IInv, TypeOK
  <2>5. QED  BY <2>2, <2>3, <2>4 DEF IInv, TypeOK, WorldOK
<1>2. /\ submissions' = {s \in submissions : s.round \in DOMAIN rounds \ R /\ s.team \in teams \ T}
      /\ evaluations' = {e \in evaluations : \E s \in submissions' : s.id = e.submission}
      /\ DOMAIN rounds' = DOMAIN rounds \ R /\ teams' = teams \ T /\ handlers' = handlers
  BY DEF Remove, Cascade, Changes
<1>3. TablesOK'
  BY <1>2 DEF IInv, TypeOK, TablesOK
<1>4. OneRowEach' /\ TeamsPlayInTheirTournament'
  BY <1>2 DEF IInv, Consistent, OneRowEach, TeamsPlayInTheirTournament
<1>5. RowsHaveParents'
  BY <1>2 DEF RowsHaveParents
<1>6. HeldRowsPlay' /\ handlers' \in [Slots -> HandlerState]
  BY <1>2 DEF IInv, TypeOK, HeldRowsPlay, Plays
<1>7. QED  BY <1>1, <1>3, <1>4, <1>5, <1>6 DEF IInv, TypeOK, Consistent

LEMMA ChangeSteps == ASSUME IInv, Change PROVE IInv'
<1>0. WorldOK
  BY DEF IInv, TypeOK
<1>1. CASE Tick
  BY <1>0, <1>1, SubmissionsAssumption, BoundsHold, WorldMoves DEF Tick, Changes, WorldOK
<1>2. ASSUME NEW r \in DOMAIN rounds, NEW status \in Statuses, NEW end \in 1 .. MaxTime,
             ChangeRound(r, status, end)
      PROVE  IInv'
  <2>1. rounds' = [rounds EXCEPT ![r] = [status |-> status, end_date |-> end]]
    BY <1>2 DEF ChangeRound
  <2>2. DOMAIN rounds' = DOMAIN rounds
    BY <2>1
  <2>3. rounds' \in [DOMAIN rounds -> [status : Statuses, end_date : 0 .. MaxTime]]
    BY <1>0, <2>1, SubmissionsAssumption DEF WorldOK
  <2>4. /\ UNCHANGED <<now, teams, members, jury, tables, handlers>>
        /\ kinds' \in DOMAIN MaxChanges /\ changes' \in 0 .. MaxChanges[kinds']
    BY <1>0, <1>2, BoundsHold DEF ChangeRound, Changes
  <2>5. WorldOK'
    BY <1>0, <2>2, <2>3, <2>4 DEF WorldOK
  <2>6. QED  BY <2>2, <2>4, <2>5, WorldMoves
<1>3. ASSUME NEW r \in DOMAIN rounds, RemoveRound(r) PROVE IInv'
  BY <1>3, RemovalCascades DEF RemoveRound
<1>4. ASSUME NEW t \in teams, RemoveTeam(t) PROVE IInv'
  BY <1>4, RemovalCascades DEF RemoveTeam
<1>5. ASSUME NEW T \in Tournaments, RemoveTournament(T) PROVE IInv'
  <2>1. jury' \subseteq jury /\ now' = now
    BY <1>5 DEF RemoveTournament
  <2>2. QED  BY <1>5, <2>1, RemovalCascades DEF RemoveTournament
<1>6. ASSUME NEW t \in teams, NEW u \in Users, AddMember(t, u) PROVE IInv'
  BY <1>0, <1>6, SubmissionsAssumption, BoundsHold, WorldMoves DEF AddMember, Changes, WorldOK
<1>7. ASSUME NEW t, NEW u, RemoveMember(t, u) PROVE IInv'
  BY <1>0, <1>7, SubmissionsAssumption, BoundsHold, WorldMoves DEF RemoveMember, Changes, WorldOK
<1>8. ASSUME NEW T \in Tournaments, NEW u \in Users, AddJuror(T, u) PROVE IInv'
  BY <1>0, <1>8, SubmissionsAssumption, BoundsHold, WorldMoves DEF AddJuror, Changes, WorldOK
<1>9. ASSUME NEW T, NEW u, RemoveJuror(T, u) PROVE IInv'
  BY <1>0, <1>9, SubmissionsAssumption, BoundsHold, WorldMoves DEF RemoveJuror, Changes, WorldOK
<1>10. QED
  BY <1>1, <1>2, <1>3, <1>4, <1>5, <1>6, <1>7, <1>8, <1>9 DEF Change
-----------------------------------------------------------------------------
LEMMA InitIsConsistent == ASSUME Init PROVE IInv
<1>1. WorldOK
  BY SubmissionsAssumption DEF Init, WorldOK
<1>2. TablesOK /\ handlers \in [Slots -> HandlerState] /\ HeldRowsPlay
  BY IdleIsFine DEF Init, TablesOK, HeldRowsPlay
<1>3. Consistent
  BY DEF Init, Consistent, OneRowEach, RowsHaveParents, TeamsPlayInTheirTournament
<1>4. QED  BY <1>1, <1>2, <1>3 DEF IInv, TypeOK

LEMMA StepsKeepConsistent == ASSUME IInv, [Next]_vars PROVE IInv'
<1>1. ASSUME NEW h \in Slots, Request(h) PROVE IInv'
  BY <1>1, CreateBegins, UpdateBegins, EvaluationBegins DEF Request
<1>2. ASSUME NEW h \in Slots, Statement(h) PROVE IInv'
  BY <1>2, CreateSteps, UpdateSteps, EvaluationSteps DEF Statement
<1>3. CASE Change
  BY <1>3, ChangeSteps
<1>4. CASE UNCHANGED vars
  BY <1>4, WorldMoves DEF IInv, TypeOK, WorldOK, vars, world
<1>5. QED  BY <1>1, <1>2, <1>3, <1>4 DEF Next

LEMMA AlwaysConsistent == Spec => []IInv
BY InitIsConsistent, StepsKeepConsistent, PTL DEF Spec

\* What requests hold and what the tables hold is well-formed at any time.
THEOREM TypeCorrect == Spec => []TypeOK
<1>1. IInv => TypeOK  BY DEF IInv
<1>2. QED  BY <1>1, AlwaysConsistent, PTL

\* However many requests hand in and evaluate at once, a team has one submission
\* for a round and a juror one evaluation of it (submission.entity.ts,
\* evaluation.entity.ts, unique indexes).
THEOREM EachCountsOnce == Spec => []OneRowEach
<1>1. IInv => OneRowEach  BY DEF IInv, Consistent
<1>2. QED  BY <1>1, AlwaysConsistent, PTL

\* A submission is for a round of the tournament its team plays in, which
\* findOwnedTeamForRound sees to and no constraint of the database.
THEOREM TeamsHandInAtHome == Spec => []TeamsPlayInTheirTournament
<1>1. IInv => TeamsPlayInTheirTournament  BY DEF IInv, Consistent
<1>2. QED  BY <1>1, AlwaysConsistent, PTL
-----------------------------------------------------------------------------
(* Requests that come too late *)

\* What a request must have seen to be where it is.  One that holds a submission
\* to edit may go on only while the deadline it has read is ahead.
Knows(state, facts) ==
  /\ state.step \in {"findTeam", "findMembership"} => <<"open", state.round>> \in facts
  /\ state.step \in {"findExisting", "insertSubmission"} =>
       <<"open", state.row.round>> \in facts /\ <<"on", state.row.team>> \in facts
  /\ state.step \in {"findAccess", "findAccessMembership"} /\ Editable(state) =>
       <<"open", state.row.round>> \in facts
  /\ state.step = "saveSubmission" =>
       /\ <<"open", state.row.round>> \in facts
       /\ <<"on", state.row.team>> \in facts \/ state.user \in Admins

HistoryOK == \A h \in Slots : Knows(handlers[h], history[h])

\* The record of a request has what was true when it came and all that came true since.
LEMMA RecordGrows ==
  ASSUME Record, NEW h \in Slots, handlers'[h] # Idle
  PROVE  /\ FactsOf(handlers[h].user)' \subseteq history'[h]
         /\ handlers[h] # Idle => history[h] \subseteq history'[h]
BY DEF Record

LEMMA IdleKnows == ASSUME NEW facts PROVE Knows(Idle, facts)
BY DEF Knows, Idle

\* A request that does not move keeps what it knows: time only runs forward.
LEMMA OthersKnow ==
  ASSUME Record, now \in Nat, now' \in Nat, now <= now', NEW h \in Slots,
         handlers'[h] = handlers[h], handlers[h] \in HandlerState, Knows(handlers[h], history[h])
  PROVE  Knows(handlers[h], history[h])'
<1>1. CASE handlers[h] = Idle
  BY <1>1 DEF Knows, Idle
<1>2. CASE handlers[h] # Idle
  <2>1. history[h] \subseteq history'[h]
    BY <1>2, RecordGrows
  <2>2. handlers[h].step \in {"findAccess", "findAccessMembership"} /\ Editable(handlers[h])' => Editable(handlers[h])
    <3>1. ASSUME handlers[h].step \in {"findAccess", "findAccessMembership"}
          PROVE  handlers[h].end_date \in Int
      BY <3>1, SubmissionsAssumption DEF HandlerState, Idle
    <3>2. QED  BY <3>1 DEF Editable
  <2>3. QED  BY <2>1, <2>2 DEF Knows
<1>3. QED  BY <1>1, <1>2

LEMMA OneMoves ==
  ASSUME IInv, HistoryOK, Record, NEW h \in Slots, NEW state, Goes(h, state), UNCHANGED world,
         Knows(state, history'[h])
  PROVE  HistoryOK'
<1>1. handlers \in [Slots -> HandlerState] /\ now \in Nat /\ now' = now
  BY SubmissionsAssumption DEF IInv, TypeOK, WorldOK, world
<1>2. handlers'[h] = state
  BY <1>1 DEF Goes
<1>3. Knows(handlers[h], history[h])'
  BY <1>1, <1>2 DEF Knows, Editable
<1>4. ASSUME NEW g \in Slots, g # h PROVE Knows(handlers[g], history[g])'
  <2>1. handlers'[g] = handlers[g]  BY <1>1, <1>4 DEF Goes
  <2>2. QED  BY <1>1, <2>1, OthersKnow DEF HistoryOK
<1>5. QED  BY <1>3, <1>4 DEF HistoryOK

LEMMA NobodyMoves ==
  ASSUME IInv, HistoryOK, Record, now' \in Nat, now <= now', handlers' = handlers
  PROVE  HistoryOK'
<1>1. handlers \in [Slots -> HandlerState] /\ now \in Nat
  BY SubmissionsAssumption DEF IInv, TypeOK, WorldOK
<1>2. QED  BY <1>1, OthersKnow DEF HistoryOK

\* What a moving request has seen includes what is true as it moves.
LEMMA MoverSees ==
  ASSUME IInv, Record, NEW h \in Slots, NEW state, state # Idle, Goes(h, state), UNCHANGED world
  PROVE  /\ FactsOf(state.user) \subseteq history'[h]
         /\ handlers[h] # Idle => history[h] \subseteq history'[h]
<1>1. handlers'[h] = state
  BY DEF IInv, TypeOK, Goes
<1>2. FactsOf(handlers[h].user)' = FactsOf(state.user)
  BY <1>1 DEF FactsOf, Open, OnTeam, world
<1>3. QED  BY <1>1, <1>2, RecordGrows

LEMMA FactsAre ==
  ASSUME NEW u
  PROVE  /\ \A r \in Rounds : Open(r) => <<"open", r>> \in FactsOf(u)
         /\ \A t \in Teams : OnTeam(u, t) => <<"on", t>> \in FactsOf(u)
BY DEF FactsOf

LEMMA BeginsKnow ==
  ASSUME IInv, HistoryOK, NEW h \in Slots, Request(h)
  PROVE  HistoryOK'
<1>1. ASSUME NEW u \in Users, NEW r \in Rounds, BeginCreateForRound(h, u, r) PROVE HistoryOK'
  <2> DEFINE state == [step |-> "findTeam", user |-> u, round |-> r]
  <2>1. Open(r) /\ Goes(h, state) /\ UNCHANGED world /\ Record
    BY <1>1 DEF BeginCreateForRound, Begins
  <2>2. state # Idle /\ state.user = u  BY DEF Idle
  <2>3. <<"open", r>> \in history'[h]
    BY <2>1, <2>2, MoverSees, FactsAre
  <2>4. Knows(state, history'[h])  BY <2>3 DEF Knows
  <2>5. QED  BY <2>1, <2>4, OneMoves
<1>2. ASSUME NEW u \in Users, NEW s \in submissions, NEW patch \in Patches,
             BeginUpdateSubmission(h, u, s, patch)
      PROVE  HistoryOK'
  <2> DEFINE state == [step |-> "findAccess", user |-> u, row |-> s, patch |-> patch,
                       status |-> rounds[s.round].status, end_date |-> rounds[s.round].end_date]
  <2>1. Goes(h, state) /\ UNCHANGED world /\ Record
    BY <1>2 DEF BeginUpdateSubmission, Begins
  <2>2. state # Idle /\ state.user = u  BY DEF Idle
  <2>3. s.round \in DOMAIN rounds /\ s.round \in Rounds
    BY DEF IInv, TypeOK, WorldOK, Consistent, RowsHaveParents
  <2>4. Editable(state) => Open(s.round)
    BY <2>3 DEF Editable, Open
  <2>5. Editable(state) => <<"open", s.round>> \in history'[h]
    BY <2>1, <2>2, <2>3, <2>4, MoverSees, FactsAre
  <2>6. Knows(state, history'[h])  BY <2>5 DEF Knows
  <2>7. QED  BY <2>1, <2>6, OneMoves
<1>3. ASSUME NEW u \in Users, NEW s \in submissions, NEW answer \in Answers,
             BeginEvaluation(h, u, s, answer)
      PROVE  HistoryOK'
  <2> DEFINE state == [step |-> IF u \in Admins THEN "findEvaluation" ELSE "checkJury", user |-> u,
                       submission |-> s.id, round |-> s.round, answer |-> answer]
  <2>1. Goes(h, state) /\ UNCHANGED world /\ Record
    BY <1>3 DEF BeginEvaluation, Begins
  <2>2. Knows(state, history'[h])  BY DEF Knows
  <2>3. QED  BY <2>1, <2>2, OneMoves
<1>4. QED  BY <1>1, <1>2, <1>3 DEF Request

\* A request that is answered.
LEMMA StopKnows ==
  ASSUME IInv, HistoryOK, Record, NEW h \in Slots, Goes(h, Idle), UNCHANGED world
  PROVE  HistoryOK'
BY IdleKnows, OneMoves

\* A request that goes on to a team it is on.
LEMMA FoundTeamKnows ==
  ASSUME IInv, HistoryOK, NEW h \in Slots, handlers[h].step \in {"findTeam", "findMembership"},
         NEW ts \in SUBSET Teams, \A t \in ts : OnTeam(handlers[h].user, t),
         GoesWith(h, ts), UNCHANGED world
  PROVE  HistoryOK'
<1>1. PICK t \in ts :
        Reads(h, [step |-> "findExisting", user |-> handlers[h].user,
                  row |-> [id |-> NewRow, team |-> t, round |-> handlers[h].round,
                           content |-> [c \in Columns |-> First]]])
  BY DEF GoesWith
<1> DEFINE state == [step |-> "findExisting", user |-> handlers[h].user,
                     row |-> [id |-> NewRow, team |-> t, round |-> handlers[h].round,
                              content |-> [c \in Columns |-> First]]]
<1>2. Goes(h, state) /\ Record  BY <1>1 DEF Reads
<1>3. state # Idle /\ state.user = handlers[h].user /\ handlers[h] # Idle  BY DEF Idle
<1>4. <<"on", t>> \in history'[h]
  BY <1>2, <1>3, MoverSees, FactsAre
<1>5. <<"open", handlers[h].round>> \in history'[h]
  BY <1>2, <1>3, MoverSees DEF HistoryOK, Knows
<1>6. Knows(state, history'[h])  BY <1>4, <1>5 DEF Knows
<1>7. QED  BY <1>2, <1>6, OneMoves

LEMMA CreateKnows ==
  ASSUME IInv, HistoryOK, NEW h \in Slots,
         FindTeam(h) \/ FindMembership(h) \/ FindExisting(h) \/ InsertSubmission(h)
  PROVE  HistoryOK'
<1>0. teams \subseteq Teams /\ handlers[h] \in HandlerState
  BY DEF IInv, TypeOK, WorldOK
<1>1. CASE FindTeam(h)
  <2> DEFINE own   == Playing({t \in teams : CaptainOf[t] = handlers[h].user}, handlers[h].round)
             state == [handlers[h] EXCEPT !.step = "findMembership"]
  <2>1. handlers[h].step = "findTeam" /\ UNCHANGED world
    BY <1>1 DEF FindTeam, At
  <2>2. own \in SUBSET Teams /\ \A t \in own : OnTeam(handlers[h].user, t)
    BY <1>0 DEF Playing, OnTeam
  <2>3. \/ Reads(h, Idle) \/ GoesWith(h, own) \/ Reads(h, state)
    BY <1>1 DEF FindTeam
  <2>4. ASSUME Reads(h, state) PROVE HistoryOK'
    <3>1. handlers[h] # Idle /\ state # Idle /\ state.step = "findMembership" /\ state.round = handlers[h].round
      BY <1>0, <2>1 DEF HandlerState, Idle
    <3>2. Goes(h, state) /\ Record  BY <2>4 DEF Reads
    <3>3. <<"open", handlers[h].round>> \in history'[h]
      BY <2>1, <3>1, <3>2, MoverSees DEF HistoryOK, Knows
    <3>4. Knows(state, history'[h])  BY <3>1, <3>3 DEF Knows
    <3> HIDE DEF state
    <3>5. QED  BY <2>1, <3>2, <3>4, OneMoves
  <2> HIDE DEF own, state
  <2>5. QED  BY <2>1, <2>2, <2>3, <2>4, StopKnows, FoundTeamKnows DEF Reads
<1>2. CASE FindMembership(h)
  <2> DEFINE mine == Playing({t \in teams : <<t, handlers[h].user>> \in members}, handlers[h].round)
  <2>1. handlers[h].step = "findMembership" /\ UNCHANGED world
    BY <1>2 DEF FindMembership, At
  <2>2. mine \in SUBSET Teams /\ \A t \in mine : OnTeam(handlers[h].user, t)
    BY <1>0 DEF Playing, OnTeam
  <2>3. Reads(h, Idle) \/ GoesWith(h, mine)
    BY <1>2 DEF FindMembership
  <2> HIDE DEF mine
  <2>4. QED  BY <2>1, <2>2, <2>3, StopKnows, FoundTeamKnows DEF Reads
<1>3. CASE FindExisting(h)
  <2> DEFINE state == [handlers[h] EXCEPT !.step = "insertSubmission"]
  <2>1. handlers[h].step = "findExisting" /\ UNCHANGED world
    BY <1>3 DEF FindExisting, At
  <2>2. Reads(h, Idle) \/ Reads(h, state)
    BY <1>3 DEF FindExisting
  <2>3. ASSUME Reads(h, state) PROVE HistoryOK'
    <3>1. handlers[h] # Idle /\ state # Idle /\ state.step = "insertSubmission" /\ state.row = handlers[h].row
      BY <1>0, <2>1 DEF HandlerState, Idle
    <3>2. Goes(h, state) /\ Record  BY <2>3 DEF Reads
    <3>3. history[h] \subseteq history'[h]
      BY <2>1, <3>1, <3>2, MoverSees
    <3>4. Knows(state, history'[h])  BY <2>1, <3>1, <3>3 DEF HistoryOK, Knows
    <3> HIDE DEF state
    <3>5. QED  BY <2>1, <3>2, <3>4, OneMoves
  <2> HIDE DEF state
  <2>4. QED  BY <2>1, <2>2, <2>3, StopKnows DEF Reads
<1>4. CASE InsertSubmission(h)
  BY <1>4, StopKnows DEF InsertSubmission, SavesSubmission, At
<1>5. QED  BY <1>1, <1>2, <1>3, <1>4

\* assertTeamAccess has let the user through, and the deadline read is still ahead.
LEMMA AccessKnows ==
  ASSUME IInv, HistoryOK, NEW h \in Slots,
         handlers[h].step \in {"findAccess", "findAccessMembership"},
         handlers[h].user \in Admins \/ OnTeam(handlers[h].user, handlers[h].row.team),
         GoesToSave(h), UNCHANGED world
  PROVE  HistoryOK'
<1> DEFINE state == [handlers[h] EXCEPT !.step = "saveSubmission"]
<1>1. handlers[h] \in HandlerState /\ teams \subseteq Teams
  BY DEF IInv, TypeOK, WorldOK
<1>2. CASE Editable(handlers[h])
  <2>1. Goes(h, state) /\ Record
    BY <1>2 DEF GoesToSave, Reads
  <2>2. /\ handlers[h] # Idle /\ state # Idle /\ state.step = "saveSubmission"
        /\ state.row = handlers[h].row /\ state.user = handlers[h].user
    BY <1>1 DEF HandlerState, Idle
  <2>3. FactsOf(state.user) \subseteq history'[h] /\ history[h] \subseteq history'[h]
    BY <2>1, <2>2, MoverSees
  <2> HIDE DEF state
  <2>4. <<"open", state.row.round>> \in history'[h]
    BY <1>2, <2>2, <2>3 DEF HistoryOK, Knows
  <2>5. <<"on", state.row.team>> \in history'[h] \/ state.user \in Admins
    BY <1>1, <2>2, <2>3, FactsAre DEF OnTeam
  <2>6. Knows(state, history'[h])  BY <2>2, <2>4, <2>5 DEF Knows
  <2>7. QED  BY <2>1, <2>6, OneMoves
<1>3. CASE ~Editable(handlers[h])
  BY <1>3, StopKnows DEF GoesToSave, Reads
<1>4. QED  BY <1>2, <1>3

LEMMA UpdateKnows ==
  ASSUME IInv, HistoryOK, NEW h \in Slots,
         FindAccess(h) \/ FindAccessMembership(h) \/ SaveSubmission(h)
  PROVE  HistoryOK'
<1>0. handlers[h] \in HandlerState /\ members \subseteq teams \X Users
  BY DEF IInv, TypeOK, WorldOK
<1>1. CASE FindAccess(h)
  <2> DEFINE state == [handlers[h] EXCEPT !.step = "findAccessMembership"]
  <2>1. handlers[h].step = "findAccess" /\ UNCHANGED world
    BY <1>1 DEF FindAccess, At
  <2>2. \/ Reads(h, Idle)
        \/ /\ GoesToSave(h)
           /\ handlers[h].user \in Admins \/ OnTeam(handlers[h].user, handlers[h].row.team)
        \/ Reads(h, state)
    BY <1>1 DEF FindAccess, OnTeam
  <2>3. ASSUME Reads(h, state) PROVE HistoryOK'
    <3>1. /\ handlers[h] # Idle /\ state # Idle /\ state.step = "findAccessMembership"
          /\ state.row = handlers[h].row /\ state.status = handlers[h].status
          /\ state.end_date = handlers[h].end_date
      BY <1>0, <2>1 DEF HandlerState, Idle
    <3>2. Goes(h, state) /\ Record  BY <2>3 DEF Reads
    <3>3. history[h] \subseteq history'[h]
      BY <3>1, <3>2, <2>1, MoverSees
    <3>4. Knows(state, history'[h])
      BY <2>1, <3>1, <3>3 DEF HistoryOK, Knows, Editable
    <3> HIDE DEF state
    <3>5. QED  BY <2>1, <3>2, <3>4, OneMoves
  <2> HIDE DEF state
  <2>4. QED  BY <2>1, <2>2, <2>3, StopKnows, AccessKnows DEF Reads
<1>2. CASE FindAccessMembership(h)
  <2>1. handlers[h].step = "findAccessMembership" /\ UNCHANGED world
    BY <1>2 DEF FindAccessMembership, At
  <2>2. \/ Reads(h, Idle)
        \/ GoesToSave(h) /\ OnTeam(handlers[h].user, handlers[h].row.team)
    BY <1>0, <1>2 DEF FindAccessMembership, OnTeam
  <2>3. QED  BY <2>1, <2>2, StopKnows, AccessKnows DEF Reads
<1>3. CASE SaveSubmission(h)
  BY <1>3, StopKnows DEF SaveSubmission, SavesSubmission, At
<1>4. QED  BY <1>1, <1>2, <1>3

LEMMA EvaluationKnows ==
  ASSUME IInv, HistoryOK, NEW h \in Slots, CheckJury(h) \/ FindEvaluation(h) \/ SaveEvaluation(h)
  PROVE  HistoryOK'
<1>0. handlers[h] \in HandlerState
  BY DEF IInv, TypeOK
<1>1. CASE CheckJury(h)
  <2> DEFINE state == [handlers[h] EXCEPT !.step = "findEvaluation"]
  <2>1. UNCHANGED world /\ Record /\ (Goes(h, Idle) \/ Goes(h, state))
    BY <1>1 DEF CheckJury, At, Reads
  <2>2. state.step = "findEvaluation"
    BY <1>0, <1>1 DEF CheckJury, At, HandlerState, Idle
  <2> HIDE DEF state
  <2>3. Knows(state, history'[h])
    BY <2>2 DEF Knows
  <2>4. QED  BY <2>1, <2>3, StopKnows, OneMoves
<1>2. CASE FindEvaluation(h)
  <2>1. PICK row : Reads(h, [step |-> "saveEvaluation", user |-> handlers[h].user, row |-> row])
    BY <1>2 DEF FindEvaluation
  <2> DEFINE state == [step |-> "saveEvaluation", user |-> handlers[h].user, row |-> row]
  <2>2. Knows(state, history'[h])  BY DEF Knows
  <2>3. Goes(h, state) /\ Record /\ UNCHANGED world
    BY <1>2, <2>1 DEF FindEvaluation, At, Reads
  <2>4. QED  BY <2>2, <2>3, OneMoves
<1>3. CASE SaveEvaluation(h)
  BY <1>3, StopKnows DEF SaveEvaluation, At
<1>4. QED  BY <1>1, <1>2, <1>3

LEMMA ChangeKnows ==
  ASSUME IInv, HistoryOK, Change
  PROVE  HistoryOK'
<1>1. now \in Nat
  BY SubmissionsAssumption DEF IInv, TypeOK, WorldOK
<1>2. handlers' = handlers /\ Record /\ (now' = now \/ now' = now + 1)
  BY DEF Change, Tick, ChangeRound, RemoveRound, RemoveTeam, RemoveTournament, Remove,
     AddMember, RemoveMember, AddJuror, RemoveJuror, Changes
<1>3. QED  BY <1>1, <1>2, NobodyMoves

LEMMA InitKnows == ASSUME Init PROVE HistoryOK
BY IdleKnows DEF Init, HistoryOK

LEMMA StepsKeepHistory == ASSUME IInv, HistoryOK, [Next]_vars PROVE HistoryOK'
<1>1. ASSUME NEW h \in Slots, Statement(h) PROVE HistoryOK'
  BY <1>1, CreateKnows, UpdateKnows, EvaluationKnows DEF Statement
<1>2. CASE UNCHANGED vars
  BY <1>2 DEF vars, world, HistoryOK, Knows, Editable
<1>3. QED  BY <1>1, <1>2, BeginsKnow, ChangeKnows DEF Next

LEMMA AlwaysKnows == Spec => [](IInv /\ HistoryOK)
<1>1. Init => IInv /\ HistoryOK  BY InitIsConsistent, InitKnows
<1>2. IInv /\ HistoryOK /\ [Next]_vars => (IInv /\ HistoryOK)'
  BY StepsKeepConsistent, StepsKeepHistory
<1>3. QED  BY <1>1, <1>2, PTL DEF Spec

\* Only two statements put rows into the table.
LEMMA WhoWrites ==
  ASSUME [Next]_vars, ~(submissions' \subseteq submissions)
  PROVE  \E h \in Slots : InsertSubmission(h) \/ SaveSubmission(h)
<1>1. ASSUME NEW h \in Slots, Request(h) PROVE submissions' = submissions
  BY <1>1 DEF Request, BeginCreateForRound, BeginUpdateSubmission, BeginEvaluation, Begins, tables
<1>2. ASSUME NEW h \in Slots, FindTeam(h) \/ FindMembership(h) \/ FindExisting(h)
      PROVE  submissions' = submissions
  BY <1>2 DEF FindTeam, FindMembership, FindExisting, GoesWith, Reads, tables
<1>3. ASSUME NEW h \in Slots, FindAccess(h) \/ FindAccessMembership(h)
      PROVE  submissions' = submissions
  BY <1>3 DEF FindAccess, FindAccessMembership, GoesToSave, Reads, tables
<1>4. ASSUME NEW h \in Slots, CheckJury(h) \/ FindEvaluation(h) \/ SaveEvaluation(h)
      PROVE  submissions' = submissions
  BY <1>4 DEF CheckJury, FindEvaluation, SaveEvaluation, Reads, tables
<1>5. ASSUME Change PROVE submissions' \subseteq submissions
  BY <1>5 DEF Change, Tick, ChangeRound, RemoveRound, RemoveTeam, RemoveTournament, Remove,
     Cascade, AddMember, RemoveMember, AddJuror, RemoveJuror, tables
<1>6. CASE UNCHANGED vars
  BY <1>6 DEF vars, tables
<1>7. QED  BY <1>1, <1>2, <1>3, <1>4, <1>5, <1>6 DEF Next, Statement

\* A row that a save puts into the table is the held one, its id apart.
LEMMA WrittenRow ==
  ASSUME NEW h, NEW row \in Submission, SavesSubmission(h, row),
         NEW s \in submissions', s \notin submissions
  PROVE  s.team = row.team /\ s.round = row.round
<1> DEFINE w == WithId(row, SubmissionId, UsedSubmissions)
<1>1. s = w
  BY DEF SavesSubmission, Put
<1>2. w.team = row.team /\ w.round = row.round
  BY WithIdSubmission DEF SavesSubmission
<1>3. QED  BY <1>1, <1>2

LEMMA WritesAreInTime ==
  ASSUME IInv, HistoryOK, [Next]_vars, NEW s \in submissions', s \notin submissions
  PROVE  \E h \in Slots :
           /\ handlers[h] # Idle /\ handlers'[h] = Idle
           /\ <<"open", s.round>> \in history[h]
           /\ \/ <<"on", s.team>> \in history[h]
              \/ handlers[h].step = "saveSubmission" /\ handlers[h].user \in Admins
<1>1. PICK h \in Slots : InsertSubmission(h) \/ SaveSubmission(h)
  BY WhoWrites
<1>2. handlers[h] \in HandlerState /\ Knows(handlers[h], history[h])
  BY DEF IInv, TypeOK, HistoryOK
<1>3. handlers[h] # Idle /\ handlers'[h] = Idle
  BY <1>1 DEF InsertSubmission, SaveSubmission, SavesSubmission, At, Goes, Idle, IInv, TypeOK
<1>4. CASE InsertSubmission(h)
  <2>1. handlers[h].step = "insertSubmission" /\ handlers[h].row \in Submission
    BY <1>2, <1>4 DEF InsertSubmission, At, HandlerState, Idle
  <2>2. s.team = handlers[h].row.team /\ s.round = handlers[h].row.round
    BY <1>4, <2>1, WrittenRow DEF InsertSubmission
  <2>3. <<"open", s.round>> \in history[h] /\ <<"on", s.team>> \in history[h]
    BY <1>2, <2>1, <2>2 DEF Knows
  <2>4. QED  BY <1>3, <2>3
<1>5. CASE SaveSubmission(h)
  <2> DEFINE row == Edited(handlers[h].row, handlers[h].patch)
  <2>1. /\ handlers[h].step = "saveSubmission"
        /\ handlers[h].row \in Submission /\ handlers[h].patch \in Patches
    BY <1>2, <1>5 DEF SaveSubmission, At, HandlerState, Idle
  <2>2. row \in Submission /\ row.team = handlers[h].row.team /\ row.round = handlers[h].row.round
    BY <2>1, EditedRow
  <2>3. SavesSubmission(h, row)
    BY <1>5 DEF SaveSubmission
  <2> HIDE DEF row
  <2>4. s.team = handlers[h].row.team /\ s.round = handlers[h].row.round
    BY <2>2, <2>3, WrittenRow
  <2>5. QED  BY <1>2, <1>3, <2>1, <2>4 DEF Knows
<1>6. QED  BY <1>1, <1>4, <1>5

\* A request that comes after the round is closed or past its deadline, or from
\* somebody who is no longer on the team, writes nothing, although what it checks
\* is read long before it writes (submissions.service.ts:166-200, 202-255).
THEOREM NothingIsWrittenLate == Spec => LateRequestsWriteNothing
<1>1. IInv /\ HistoryOK /\ [Next]_vars =>
        [\A s \in submissions' \ submissions :
           \E h \in Slots :
             /\ handlers[h] # Idle /\ handlers'[h] = Idle
             /\ <<"open", s.round>> \in history[h]
             /\ \/ <<"on", s.team>> \in history[h]
                \/ handlers[h].step = "saveSubmission" /\ handlers[h].user \in Admins]_vars
  BY WritesAreInTime
<1>2. QED  BY <1>1, AlwaysKnows, PTL DEF Spec, LateRequestsWriteNothing
-----------------------------------------------------------------------------
(* Whose scores count *)

SameRow(a, b) == a.id = b.id /\ a.team = b.team /\ a.round = b.round
SameEvaluation(a, b) == a.id = b.id /\ a.submission = b.submission /\ a.jury = b.jury

\* The rows with an id that are in the tables or in the hands of a request.
KnownSubmissions ==
  submissions \cup {handlers[h].row : h \in {g \in Slots : handlers[g].step \in EditSteps}}

KnownEvaluations ==
  evaluations \cup {handlers[h].row : h \in {g \in Slots : handlers[g].step = "saveEvaluation"
                                                            /\ handlers[g].row.id # NewRow}}

IdsAreUnique ==
  /\ \A a, b \in KnownSubmissions : a.id = b.id => SameRow(a, b)
  /\ \A a, b \in KnownEvaluations : a.id = b.id => SameEvaluation(a, b)

\* The user may score the submission with this id.
Judges(user, id, facts) ==
  \/ user \in Admins
  \/ \A s \in KnownSubmissions : s.id = id => <<"judges", TournamentOf[s.round]>> \in facts

\* A row to be inserted has no id yet, and whoever is about to score a submission
\* has been seen among the jurors of its tournament.
InOrder(state, facts) ==
  /\ state.step \in {"findExisting", "insertSubmission"} => state.row.id = NewRow
  /\ state.step = "checkJury" =>
       \A s \in KnownSubmissions : s.id = state.submission => s.round = state.round
  /\ state.step = "findEvaluation" => Judges(state.user, state.submission, facts)
  /\ state.step = "saveEvaluation" =>
       state.row.jury = state.user /\ Judges(state.user, state.row.submission, facts)

RequestsInOrder == \A h \in Slots : InOrder(handlers[h], history[h])

JInv == IdsAreUnique /\ RequestsInOrder

\* What this step leaves: a row with an id that was in use is the row it was, and
\* there is at most one with an id that was not.
SubmissionsCarryOver ==
  /\ \A a \in KnownSubmissions' :
       a.id \in UsedSubmissions => \E b \in KnownSubmissions : SameRow(a, b)
  /\ \A a, b \in KnownSubmissions' :
       a.id \notin UsedSubmissions /\ b.id \notin UsedSubmissions => a = b

EvaluationsCarryOver ==
  /\ \A a \in KnownEvaluations' :
       a.id \in UsedEvaluations => \E b \in KnownEvaluations : SameEvaluation(a, b)
  /\ \A a, b \in KnownEvaluations' :
       a.id \notin UsedEvaluations /\ b.id \notin UsedEvaluations => a = b

\* The ids that are known or asked for are in use.
LEMMA KnownIdsAreUsed ==
  /\ \A s \in KnownSubmissions : s.id \in UsedSubmissions
  /\ \A e \in KnownEvaluations : e.id \in UsedEvaluations
  /\ \A h \in Slots :
       /\ handlers[h].step \in {"checkJury", "findEvaluation"} =>
            handlers[h].submission \in UsedSubmissions
       /\ handlers[h].step = "saveEvaluation" => handlers[h].row.submission \in UsedSubmissions
BY DEF KnownSubmissions, KnownEvaluations, UsedSubmissions, UsedEvaluations, HeldSubmissions,
       HeldEvaluations, InFlight, EditSteps, Idle

LEMMA IdsCarryOver ==
  ASSUME IdsAreUnique, SubmissionsCarryOver, EvaluationsCarryOver
  PROVE  IdsAreUnique'
<1>1. \A a, b \in KnownSubmissions' : a.id = b.id => SameRow(a, b)
  BY DEF IdsAreUnique, SubmissionsCarryOver, SameRow
<1>2. \A a, b \in KnownEvaluations' : a.id = b.id => SameEvaluation(a, b)
  BY DEF IdsAreUnique, EvaluationsCarryOver, SameEvaluation
<1>3. QED  BY <1>1, <1>2 DEF IdsAreUnique, SameRow, SameEvaluation

\* A request that does not move may score what it might have scored before.
LEMMA OthersStayInOrder ==
  ASSUME SubmissionsCarryOver, Record, NEW h \in Slots, handlers'[h] = handlers[h],
         InOrder(handlers[h], history[h])
  PROVE  InOrder(handlers[h], history[h])'
<1>1. CASE handlers[h] = Idle
  BY <1>1 DEF InOrder, Idle
<1>2. CASE handlers[h] # Idle
  <2>1. history[h] \subseteq history'[h]
    BY <1>2, RecordGrows
  <2>2. ASSUME NEW i \in UsedSubmissions, Judges(handlers[h].user, i, history[h])
        PROVE  \/ handlers[h].user \in Admins
               \/ \A s \in KnownSubmissions' : s.id = i => <<"judges", TournamentOf[s.round]>> \in history'[h]
    BY <2>1, <2>2 DEF SubmissionsCarryOver, SameRow, Judges
  <2>3. handlers[h].step = "checkJury" =>
          \A s \in KnownSubmissions' : s.id = handlers[h].submission => s.round = handlers[h].round
    BY KnownIdsAreUsed DEF SubmissionsCarryOver, SameRow, InOrder
  <2>4. QED  BY <2>2, <2>3, KnownIdsAreUsed DEF InOrder, Judges
<1>3. QED  BY <1>1, <1>2

\* A step after which every request is where it was, or has been answered.
LEMMA SettledStep ==
  ASSUME JInv, Record, SubmissionsCarryOver, EvaluationsCarryOver,
         \A h \in Slots : handlers'[h] = handlers[h] \/ handlers'[h] = Idle
  PROVE  JInv'
<1>1. ASSUME NEW h \in Slots PROVE InOrder(handlers[h], history[h])'
  <2>1. CASE handlers'[h] = handlers[h]
    BY <2>1, OthersStayInOrder DEF JInv, RequestsInOrder
  <2>2. CASE handlers'[h] = Idle
    BY <2>2 DEF InOrder, Idle
  <2>3. QED  BY <2>1, <2>2
<1>2. QED  BY <1>1, IdsCarryOver DEF JInv, RequestsInOrder

\* A request that only reads.
LEMMA ReadingKeepsIds ==
  ASSUME IInv, JInv, NEW h \in Slots, NEW state, Goes(h, state), UNCHANGED tables, Record,
         state.step \in EditSteps => state.row \in KnownSubmissions,
         state.step = "saveEvaluation" /\ state.row.id # NewRow =>
           \E e \in KnownEvaluations : SameEvaluation(state.row, e),
         InOrder(state, history'[h])
  PROVE  JInv'
<1>1. /\ handlers'[h] = state /\ \A g \in Slots : g # h => handlers'[g] = handlers[g]
      /\ submissions' = submissions /\ evaluations' = evaluations
  BY DEF IInv, TypeOK, Goes, tables
<1>2. KnownSubmissions' \subseteq KnownSubmissions
  BY <1>1 DEF KnownSubmissions
<1>3. \A a \in KnownEvaluations' : \E b \in KnownEvaluations : SameEvaluation(a, b)
  BY <1>1 DEF KnownEvaluations, SameEvaluation
<1>4. SubmissionsCarryOver /\ EvaluationsCarryOver
  BY <1>2, <1>3, KnownIdsAreUsed DEF SubmissionsCarryOver, EvaluationsCarryOver, SameRow, SameEvaluation
<1>5. ASSUME NEW g \in Slots PROVE InOrder(handlers[g], history[g])'
  <2>1. CASE g = h
    BY <1>1, <1>2, <2>1 DEF InOrder, Judges
  <2>2. CASE g # h
    BY <1>1, <1>4, <2>2, OthersStayInOrder DEF JInv, RequestsInOrder
  <2>3. QED  BY <2>1, <2>2
<1>6. QED  BY <1>4, <1>5, IdsCarryOver DEF JInv, RequestsInOrder

\* A request that holds nothing with an id.
LEMMA GoesOnWithIds ==
  ASSUME IInv, JInv, NEW h \in Slots, NEW state, Reads(h, state),
         state.step \notin EditSteps \cup {"checkJury", "findEvaluation", "saveEvaluation"},
         state.step \in {"findExisting", "insertSubmission"} => state.row.id = NewRow
  PROVE  JInv'
BY ReadingKeepsIds DEF Reads, InOrder

LEMMA StopKeepsIds ==
  ASSUME IInv, JInv, NEW h \in Slots, Reads(h, Idle)
  PROVE  JInv'
BY GoesOnWithIds DEF Idle, EditSteps

LEMMA BeginsKeepIds ==
  ASSUME IInv, JInv, NEW h \in Slots, Request(h)
  PROVE  JInv'
<1>1. ASSUME NEW u \in Users, NEW r \in Rounds, BeginCreateForRound(h, u, r) PROVE JInv'
  <2>1. Reads(h, [step |-> "findTeam", user |-> u, round |-> r])
    BY <1>1 DEF BeginCreateForRound, Begins, Reads
  <2>2. QED  BY <2>1, GoesOnWithIds DEF EditSteps
<1>2. ASSUME NEW u \in Users, NEW s \in submissions, NEW patch \in Patches,
             BeginUpdateSubmission(h, u, s, patch)
      PROVE  JInv'
  <2> DEFINE state == [step |-> "findAccess", user |-> u, row |-> s, patch |-> patch,
                       status |-> rounds[s.round].status, end_date |-> rounds[s.round].end_date]
  <2>1. Goes(h, state) /\ UNCHANGED tables /\ Record
    BY <1>2 DEF BeginUpdateSubmission, Begins
  <2>2. state.row \in KnownSubmissions /\ state.step = "findAccess"
    BY DEF KnownSubmissions
  <2>3. InOrder(state, history'[h])  BY DEF InOrder
  <2> HIDE DEF state
  <2>4. QED  BY <2>1, <2>2, <2>3, ReadingKeepsIds
<1>3. ASSUME NEW u \in Users, NEW s \in submissions, NEW answer \in Answers,
             BeginEvaluation(h, u, s, answer)
      PROVE  JInv'
  <2> DEFINE state == [step |-> IF u \in Admins THEN "findEvaluation" ELSE "checkJury", user |-> u,
                       submission |-> s.id, round |-> s.round, answer |-> answer]
  <2>1. Goes(h, state) /\ UNCHANGED tables /\ Record
    BY <1>3 DEF BeginEvaluation, Begins
  <2>2. \A x \in KnownSubmissions : x.id = s.id => x.round = s.round
    BY DEF JInv, IdsAreUnique, SameRow, KnownSubmissions
  <2>3. InOrder(state, history'[h])
    BY <2>2 DEF InOrder, Judges
  <2>4. state.step \notin EditSteps \cup {"saveEvaluation"}
    BY DEF EditSteps
  <2> HIDE DEF state
  <2>5. QED  BY <2>1, <2>3, <2>4, ReadingKeepsIds
<1>4. QED  BY <1>1, <1>2, <1>3 DEF Request

\* A row is inserted with a fresh id, or takes the place of the one that was read.
LEMMA SubmissionKeepsIds ==
  ASSUME IInv, JInv, NEW h \in Slots, NEW row \in Submission, SavesSubmission(h, row),
         row.id # NewRow => \E b \in KnownSubmissions : SameRow(row, b)
  PROVE  JInv'
<1>1. PICK w : w = WithId(row, SubmissionId, UsedSubmissions)
  OBVIOUS
<1>2. /\ w.team = row.team /\ w.round = row.round
      /\ row.id # NewRow => w.id = row.id
      /\ row.id = NewRow => w.id \notin UsedSubmissions
  BY <1>1, WithIdSubmission DEF SavesSubmission
<1>3. /\ submissions' = submissions \/ submissions' = {r \in submissions : r.id # w.id} \cup {w}
      /\ evaluations' = evaluations /\ Goes(h, Idle) /\ Record
  BY <1>1 DEF SavesSubmission, Put
<1>4. handlers'[h] = Idle /\ \A g \in Slots : g # h => handlers'[g] = handlers[g]
  BY <1>3 DEF Goes, IInv, TypeOK
<1>5. KnownSubmissions' \subseteq KnownSubmissions \cup {w} /\ KnownEvaluations' \subseteq KnownEvaluations
  BY <1>3, <1>4 DEF KnownSubmissions, KnownEvaluations, EditSteps, Idle
<1>6. \/ w.id \notin UsedSubmissions
      \/ \E b \in KnownSubmissions : SameRow(w, b)
  BY <1>2 DEF SameRow
<1>7. SubmissionsCarryOver
  BY <1>5, <1>6, KnownIdsAreUsed DEF SubmissionsCarryOver, SameRow
<1>8. EvaluationsCarryOver
  BY <1>5, KnownIdsAreUsed DEF EvaluationsCarryOver, SameEvaluation
<1>9. QED  BY <1>3, <1>4, <1>7, <1>8, SettledStep

LEMMA EvaluationKeepsIds ==
  ASSUME IInv, JInv, NEW h \in Slots, SaveEvaluation(h)
  PROVE  JInv'
<1> DEFINE row == handlers[h].row
<1>0. /\ row \in Evaluation /\ handlers[h].step = "saveEvaluation"
  BY DEF SaveEvaluation, At, IInv, TypeOK, HandlerState, Idle
<1>1. PICK w : w = WithId(row, EvaluationId, UsedEvaluations)
  OBVIOUS
<1>2. /\ w.submission = row.submission /\ w.jury = row.jury
      /\ row.id # NewRow => w.id = row.id
      /\ row.id = NewRow => w.id \notin UsedEvaluations
  BY <1>0, <1>1, WithIdEvaluation DEF SaveEvaluation
<1>3. /\ evaluations' = evaluations \/ evaluations' = {r \in evaluations : r.id # w.id} \cup {w}
      /\ submissions' = submissions /\ Goes(h, Idle) /\ Record
  BY <1>1 DEF SaveEvaluation, Put
<1>4. handlers'[h] = Idle /\ \A g \in Slots : g # h => handlers'[g] = handlers[g]
  BY <1>3 DEF Goes, IInv, TypeOK
<1>5. KnownSubmissions' \subseteq KnownSubmissions /\ KnownEvaluations' \subseteq KnownEvaluations \cup {w}
  BY <1>3, <1>4 DEF KnownSubmissions, KnownEvaluations, EditSteps, Idle
<1>6. row.id # NewRow => row \in KnownEvaluations
  BY <1>0 DEF KnownEvaluations
<1>7. \/ w.id \notin UsedEvaluations
      \/ \E b \in KnownEvaluations : SameEvaluation(w, b)
  BY <1>2, <1>6 DEF SameEvaluation
<1>8. SubmissionsCarryOver
  BY <1>5, KnownIdsAreUsed DEF SubmissionsCarryOver, SameRow
<1>9. EvaluationsCarryOver
  BY <1>5, <1>7, KnownIdsAreUsed DEF EvaluationsCarryOver, SameEvaluation
<1>10. QED  BY <1>3, <1>4, <1>8, <1>9, SettledStep

LEMMA CreateKeepsIds ==
  ASSUME IInv, JInv, NEW h \in Slots,
         FindTeam(h) \/ FindMembership(h) \/ FindExisting(h) \/ InsertSubmission(h)
  PROVE  JInv'
<1>0. handlers[h] \in HandlerState
  BY DEF IInv, TypeOK
<1>1. ASSUME NEW ts, GoesWith(h, ts) PROVE JInv'
  <2>1. PICK t \in ts :
          Reads(h, [step |-> "findExisting", user |-> handlers[h].user,
                    row |-> [id |-> NewRow, team |-> t, round |-> handlers[h].round,
                             content |-> [c \in Columns |-> First]]])
    BY <1>1 DEF GoesWith
  <2>2. QED  BY <2>1, GoesOnWithIds DEF EditSteps
<1>2. InOrder(handlers[h], history[h])
  BY DEF JInv, RequestsInOrder
<1>3. ASSUME NEW step \in {"findMembership", "insertSubmission"}, handlers[h] # Idle,
             step = "insertSubmission" => handlers[h].step = "findExisting",
             Reads(h, [handlers[h] EXCEPT !.step = step])
      PROVE  JInv'
  <2> DEFINE state == [handlers[h] EXCEPT !.step = step]
  <2>1. state.step = step /\ (step = "insertSubmission" => state.row = handlers[h].row)
    BY <1>0, <1>3 DEF HandlerState, Idle
  <2>2. step = "insertSubmission" => state.row.id = NewRow
    BY <1>2, <1>3, <2>1 DEF InOrder
  <2>3. Reads(h, state)
    BY <1>3
  <2> HIDE DEF state
  <2>4. QED  BY <2>1, <2>2, <2>3, GoesOnWithIds DEF EditSteps
<1>4. CASE FindTeam(h)
  BY <1>1, <1>3, <1>4, StopKeepsIds DEF FindTeam, At, Idle
<1>5. CASE FindMembership(h)
  BY <1>1, <1>5, StopKeepsIds DEF FindMembership
<1>6. CASE FindExisting(h)
  BY <1>3, <1>6, StopKeepsIds DEF FindExisting, At, Idle
<1>7. CASE InsertSubmission(h)
  <2>1. handlers[h].row \in Submission /\ handlers[h].row.id = NewRow
    BY <1>0, <1>2, <1>7 DEF InsertSubmission, At, InOrder, HandlerState, Idle
  <2>2. QED  BY <1>7, <2>1, SubmissionKeepsIds DEF InsertSubmission
<1>8. QED  BY <1>4, <1>5, <1>6, <1>7

LEMMA UpdateKeepsIds ==
  ASSUME IInv, JInv, NEW h \in Slots, FindAccess(h) \/ FindAccessMembership(h) \/ SaveSubmission(h)
  PROVE  JInv'
<1>0. /\ handlers[h] \in HandlerState
      /\ handlers[h].step \in EditSteps /\ handlers[h].row \in KnownSubmissions
  BY DEF IInv, TypeOK, FindAccess, FindAccessMembership, SaveSubmission, At, EditSteps, KnownSubmissions
<1>1. ASSUME NEW step \in EditSteps, Reads(h, [handlers[h] EXCEPT !.step = step]) PROVE JInv'
  <2> DEFINE state == [handlers[h] EXCEPT !.step = step]
  <2>1. state.step = step /\ state.row = handlers[h].row
    BY <1>0 DEF HandlerState, Idle, EditSteps
  <2>2. Goes(h, state) /\ UNCHANGED tables /\ Record
    BY <1>1 DEF Reads
  <2> HIDE DEF state
  <2>3. InOrder(state, history'[h])
    BY <2>1 DEF InOrder, EditSteps
  <2>4. QED  BY <1>0, <2>1, <2>2, <2>3, ReadingKeepsIds DEF EditSteps
<1>2. ASSUME GoesToSave(h) PROVE JInv'
  BY <1>1, <1>2, StopKeepsIds DEF GoesToSave, EditSteps
<1>3. CASE FindAccess(h)
  BY <1>1, <1>2, <1>3, StopKeepsIds DEF FindAccess, EditSteps
<1>4. CASE FindAccessMembership(h)
  BY <1>2, <1>4, StopKeepsIds DEF FindAccessMembership
<1>5. CASE SaveSubmission(h)
  <2>1. PICK row : row = Edited(handlers[h].row, handlers[h].patch)
    OBVIOUS
  <2>2. handlers[h].row \in Submission /\ handlers[h].patch \in Patches
    BY <1>0, <1>5 DEF SaveSubmission, At, HandlerState, Idle
  <2>3. row \in Submission /\ SameRow(row, handlers[h].row)
    BY <2>1, <2>2, EditedRow DEF SameRow
  <2>4. SavesSubmission(h, row)
    BY <1>5, <2>1 DEF SaveSubmission
  <2>5. QED  BY <1>0, <2>3, <2>4, SubmissionKeepsIds
<1>6. QED  BY <1>3, <1>4, <1>5

LEMMA EvaluationStepsKeepIds ==
  ASSUME IInv, JInv, NEW h \in Slots, CheckJury(h) \/ FindEvaluation(h) \/ SaveEvaluation(h)
  PROVE  JInv'
<1>0. handlers[h] \in HandlerState /\ InOrder(handlers[h], history[h])
  BY DEF IInv, TypeOK, JInv, RequestsInOrder
<1>1. CASE CheckJury(h)
  <2> DEFINE state == [handlers[h] EXCEPT !.step = "findEvaluation"]
  <2>1. /\ handlers[h].step = "checkJury" /\ UNCHANGED world
        /\ \/ Reads(h, Idle)
           \/ /\ <<TournamentOf[handlers[h].round], handlers[h].user>> \in jury
              /\ Reads(h, state)
    BY <1>1 DEF CheckJury, At
  <2>2. ASSUME <<TournamentOf[handlers[h].round], handlers[h].user>> \in jury, Reads(h, state)
        PROVE  JInv'
    <3>1. /\ state # Idle /\ state.step = "findEvaluation" /\ state.user = handlers[h].user
          /\ state.submission = handlers[h].submission
      BY <1>0, <2>1 DEF HandlerState, Idle
    <3>2. Goes(h, state) /\ UNCHANGED tables /\ Record
      BY <2>2 DEF Reads
    <3>3. FactsOf(state.user) \subseteq history'[h]
      BY <2>1, <3>1, <3>2, MoverSees
    <3> HIDE DEF state
    <3>4. <<"judges", TournamentOf[handlers[h].round]>> \in FactsOf(state.user)
      BY <2>2, <3>1 DEF FactsOf
    <3>5. Judges(state.user, state.submission, history'[h])
      BY <1>0, <2>1, <3>1, <3>3, <3>4 DEF InOrder, Judges
    <3>6. InOrder(state, history'[h])
      BY <3>1, <3>5 DEF InOrder
    <3>7. QED  BY <3>1, <3>2, <3>6, ReadingKeepsIds DEF EditSteps
  <2> HIDE DEF state
  <2>3. QED  BY <2>1, <2>2, StopKeepsIds
<1>2. CASE FindEvaluation(h)
  <2> DEFINE u   == handlers[h].user
             old == {e.id : e \in {x \in evaluations : x.submission = handlers[h].submission /\ x.jury = u}}
             asked == [id |-> NewRow, submission |-> handlers[h].submission, jury |-> u,
                       answer |-> handlers[h].answer]
  <2>1. PICK i \in IF old = {} THEN {NewRow} ELSE old :
          Reads(h, [step |-> "saveEvaluation", user |-> u, row |-> [asked EXCEPT !.id = i]])
    BY <1>2 DEF FindEvaluation
  <2>2. PICK state : state = [step |-> "saveEvaluation", user |-> u, row |-> [asked EXCEPT !.id = i]]
    OBVIOUS
  <2>3. /\ state # Idle /\ state.step = "saveEvaluation" /\ state.user = u /\ state.row.id = i
        /\ state.row.jury = u /\ state.row.submission = handlers[h].submission
    BY <2>2 DEF Idle
  <2>4. Goes(h, state) /\ UNCHANGED tables /\ Record
    BY <2>1, <2>2 DEF Reads
  <2>5. i # NewRow => \E e \in KnownEvaluations : SameEvaluation(state.row, e)
    BY <2>1, <2>3 DEF SameEvaluation, KnownEvaluations
  <2>6. handlers[h].step = "findEvaluation" /\ UNCHANGED world /\ handlers[h] # Idle
    BY <1>2 DEF FindEvaluation, At, Idle
  <2>7. history[h] \subseteq history'[h]
    BY <2>3, <2>4, <2>6, MoverSees
  <2>8. InOrder(state, history'[h])
    BY <1>0, <2>3, <2>6, <2>7 DEF InOrder, Judges
  <2>9. QED  BY <2>3, <2>4, <2>5, <2>8, ReadingKeepsIds DEF EditSteps
<1>3. QED  BY <1>1, <1>2, EvaluationKeepsIds

LEMMA ChangeKeepsIds ==
  ASSUME IInv, JInv, Change
  PROVE  JInv'
<1>1. /\ handlers' = handlers /\ Record
      /\ submissions' \subseteq submissions /\ evaluations' \subseteq evaluations
  BY DEF Change, Tick, ChangeRound, RemoveRound, RemoveTeam, RemoveTournament, Remove, Cascade,
     AddMember, RemoveMember, AddJuror, RemoveJuror, Changes, tables
<1>2. KnownSubmissions' \subseteq KnownSubmissions /\ KnownEvaluations' \subseteq KnownEvaluations
  BY <1>1 DEF KnownSubmissions, KnownEvaluations
<1>3. SubmissionsCarryOver /\ EvaluationsCarryOver
  BY <1>2, KnownIdsAreUsed DEF SubmissionsCarryOver, EvaluationsCarryOver, SameRow, SameEvaluation
<1>4. QED  BY <1>1, <1>3, SettledStep

LEMMA StepsKeepIds == ASSUME IInv, JInv, [Next]_vars PROVE JInv'
<1>1. ASSUME NEW h \in Slots, Statement(h) PROVE JInv'
  BY <1>1, CreateKeepsIds, UpdateKeepsIds, EvaluationStepsKeepIds DEF Statement
<1>2. CASE UNCHANGED vars
  BY <1>2 DEF vars, tables, JInv, IdsAreUnique, RequestsInOrder, KnownSubmissions, KnownEvaluations,
     InOrder, Judges, SameRow, SameEvaluation
<1>3. QED  BY <1>1, <1>2, BeginsKeepIds, ChangeKeepsIds DEF Next

LEMMA InitHasIds == ASSUME Init PROVE JInv
<1>1. KnownSubmissions = {} /\ KnownEvaluations = {}
  BY DEF Init, KnownSubmissions, KnownEvaluations, EditSteps, Idle
<1>2. RequestsInOrder
  BY DEF Init, RequestsInOrder, InOrder, Idle
<1>3. QED  BY <1>1, <1>2 DEF JInv, IdsAreUnique

LEMMA AlwaysHasIds == Spec => [](IInv /\ JInv)
<1>1. Init => IInv /\ JInv  BY InitIsConsistent, InitHasIds
<1>2. IInv /\ JInv /\ [Next]_vars => (IInv /\ JInv)'
  BY StepsKeepConsistent, StepsKeepIds
<1>3. QED  BY <1>1, <1>2, PTL DEF Spec

\* A score is the sum over the evaluations that count, and moves with them alone.
LEMMA ScoreFollowsEvaluations ==
  ASSUME NEW t, TotalScore(t)' # TotalScore(t)
  PROVE  EvaluationsOf(t)' # EvaluationsOf(t)
BY DEF TotalScore

\* The steps that write to the tables.
LEMMA WhatWrites ==
  ASSUME [Next]_vars
  PROVE  \/ UNCHANGED tables
         \/ \E h \in Slots : InsertSubmission(h) \/ SaveSubmission(h) \/ SaveEvaluation(h)
         \/ \E R, T : Remove(R, T)
<1>1. ASSUME NEW h \in Slots, Request(h) PROVE UNCHANGED tables
  BY <1>1 DEF Request, BeginCreateForRound, BeginUpdateSubmission, BeginEvaluation, Begins, tables
<1>2. ASSUME NEW h \in Slots, FindTeam(h) \/ FindMembership(h) \/ FindExisting(h)
      PROVE  UNCHANGED tables
  BY <1>2 DEF FindTeam, FindMembership, FindExisting, GoesWith, Reads, tables
<1>3. ASSUME NEW h \in Slots, FindAccess(h) \/ FindAccessMembership(h)
      PROVE  UNCHANGED tables
  BY <1>3 DEF FindAccess, FindAccessMembership, GoesToSave, Reads, tables
<1>4. ASSUME NEW h \in Slots, CheckJury(h) \/ FindEvaluation(h)
      PROVE  UNCHANGED tables
  BY <1>4 DEF CheckJury, FindEvaluation, Reads, tables
<1>5. ASSUME Change PROVE UNCHANGED tables \/ \E R, T : Remove(R, T)
  BY <1>5 DEF Change, Tick, ChangeRound, RemoveRound, RemoveTeam, RemoveTournament,
     AddMember, RemoveMember, AddJuror, RemoveJuror, tables
<1>6. CASE UNCHANGED vars
  BY <1>6 DEF vars, tables
<1>7. QED  BY <1>1, <1>2, <1>3, <1>4, <1>5, <1>6 DEF Next, Statement

\* A submission that is saved has no evaluations yet, or is the team's it was.
LEMMA SubmissionsMoveNoScore ==
  ASSUME IInv, JInv, NEW row \in Submission, NEW h \in Slots, SavesSubmission(h, row),
         row.id # NewRow => \E b \in KnownSubmissions : SameRow(row, b), NEW t
  PROVE  EvaluationsOf(t)' = EvaluationsOf(t)
<1>1. PICK w : w = WithId(row, SubmissionId, UsedSubmissions)
  OBVIOUS
<1>2. /\ w.team = row.team /\ w.round = row.round
      /\ row.id # NewRow => w.id = row.id
      /\ row.id = NewRow => w.id \notin UsedSubmissions
  BY <1>1, WithIdSubmission DEF SavesSubmission
<1>3. /\ submissions' = submissions \/ submissions' = {r \in submissions : r.id # w.id} \cup {w}
      /\ evaluations' = evaluations
  BY <1>1 DEF SavesSubmission, Put
<1>4. \A s \in submissions : s.id = w.id => s.team = w.team
  BY <1>2, KnownIdsAreUsed DEF JInv, IdsAreUnique, KnownSubmissions, SameRow
<1>5. ASSUME NEW e \in evaluations
      PROVE  (\E s \in submissions' : s.id = e.submission /\ s.team = t)
               <=> \E s \in submissions : s.id = e.submission /\ s.team = t
  <2>1. \E s \in submissions : s.id = e.submission
    BY DEF IInv, Consistent, RowsHaveParents
  <2>2. QED  BY <1>3, <1>4, <2>1
<1>6. QED  BY <1>3, <1>5 DEF EvaluationsOf

\* A removal leaves no team with a score that has changed, unless it takes a round.
LEMMA RemovalsMoveNoScore ==
  ASSUME IInv, NEW R, NEW T, Remove(R, T), DOMAIN rounds' = DOMAIN rounds, NEW t \in teams'
  PROVE  EvaluationsOf(t)' = EvaluationsOf(t)
<1>1. /\ DOMAIN rounds' = DOMAIN rounds \ R /\ teams' = teams \ T
      /\ submissions' = {s \in submissions : s.round \in DOMAIN rounds \ R /\ s.team \in teams \ T}
      /\ evaluations' = {e \in evaluations : \E s \in submissions' : s.id = e.submission}
  BY DEF Remove, Cascade
<1>2. \A s \in submissions : s.round \in DOMAIN rounds \ R
  BY <1>1 DEF IInv, Consistent, RowsHaveParents
<1>3. \A s \in submissions : s.team = t => s \in submissions'
  BY <1>1, <1>2
<1>4. QED  BY <1>1, <1>3 DEF EvaluationsOf

\* An evaluation counts for the team whose submission the juror was let through to.
LEMMA EvaluationsAreTheJurys ==
  ASSUME IInv, JInv, NEW h \in Slots, SaveEvaluation(h), NEW t,
         EvaluationsOf(t)' # EvaluationsOf(t)
  PROVE  /\ handlers[h] # Idle /\ handlers'[h] = Idle
         /\ \/ handlers[h].user \in Admins
            \/ <<"judges", TournamentOf[t]>> \in history[h]
         /\ \A e \in evaluations' \ evaluations : e.jury = handlers[h].user
<1> DEFINE row == handlers[h].row
<1>0. /\ row \in Evaluation /\ handlers[h].step = "saveEvaluation"
      /\ handlers[h] # Idle /\ handlers'[h] = Idle /\ InOrder(handlers[h], history[h])
  BY DEF SaveEvaluation, At, Goes, IInv, TypeOK, HandlerState, Idle, JInv, RequestsInOrder
<1>1. PICK w : w = WithId(row, EvaluationId, UsedEvaluations)
  OBVIOUS
<1>2. /\ w.submission = row.submission /\ w.jury = row.jury
      /\ row.id # NewRow => w.id = row.id
      /\ row.id = NewRow => w.id \notin UsedEvaluations
  BY <1>0, <1>1, WithIdEvaluation DEF SaveEvaluation
<1>3. /\ evaluations' = {r \in evaluations : r.id # w.id} \cup {w} \/ evaluations' = evaluations
      /\ submissions' = submissions
  BY <1>1 DEF SaveEvaluation, Put
<1>4. \A e \in evaluations : e.id = w.id => e.submission = w.submission
  <2>1. row.id # NewRow => row \in KnownEvaluations
    BY <1>0 DEF KnownEvaluations
  <2>2. QED  BY <1>2, <2>1, KnownIdsAreUsed DEF JInv, IdsAreUnique, KnownEvaluations, SameEvaluation
<1>5. \E s \in submissions : s.id = row.submission /\ s.team = t
  BY <1>2, <1>3, <1>4 DEF EvaluationsOf
<1>6. PICK s \in submissions : s.id = row.submission /\ s.team = t
  BY <1>5
<1>7. TournamentOf[s.round] = TournamentOf[t] /\ s \in KnownSubmissions
  BY <1>6 DEF IInv, Consistent, TeamsPlayInTheirTournament, KnownSubmissions
<1>8. handlers[h].user \in Admins \/ <<"judges", TournamentOf[t]>> \in history[h]
  BY <1>0, <1>6, <1>7 DEF InOrder, Judges
<1>9. \A e \in evaluations' \ evaluations : e.jury = handlers[h].user
  BY <1>0, <1>2, <1>3 DEF InOrder
<1>10. QED  BY <1>0, <1>8, <1>9

LEMMA ScoresMoveByTheJury ==
  ASSUME IInv, JInv, [Next]_vars, NEW t \in teams',
         TotalScore(t)' # TotalScore(t), DOMAIN rounds' = DOMAIN rounds
  PROVE  \E h \in Slots :
           /\ handlers[h] # Idle /\ handlers'[h] = Idle
           /\ \/ handlers[h].user \in Admins
              \/ <<"judges", TournamentOf[t]>> \in history[h]
           /\ \A e \in evaluations' \ evaluations : e.jury = handlers[h].user
<1>1. EvaluationsOf(t)' # EvaluationsOf(t)
  BY ScoreFollowsEvaluations
<1>2. ASSUME UNCHANGED tables PROVE FALSE
  BY <1>1, <1>2 DEF EvaluationsOf, tables
<1>3. ASSUME NEW h \in Slots, InsertSubmission(h) PROVE FALSE
  <2>1. handlers[h].row \in Submission /\ handlers[h].row.id = NewRow
    BY <1>3 DEF InsertSubmission, At, HandlerState, Idle, IInv, TypeOK, JInv, RequestsInOrder, InOrder
  <2>2. QED  BY <1>1, <1>3, <2>1, SubmissionsMoveNoScore DEF InsertSubmission
<1>4. ASSUME NEW h \in Slots, SaveSubmission(h) PROVE FALSE
  <2>1. PICK row : row = Edited(handlers[h].row, handlers[h].patch)
    OBVIOUS
  <2>2. /\ handlers[h].row \in Submission /\ handlers[h].patch \in Patches
        /\ handlers[h].row \in KnownSubmissions
    BY <1>4 DEF SaveSubmission, At, HandlerState, Idle, IInv, TypeOK, KnownSubmissions, EditSteps
  <2>3. row \in Submission /\ SameRow(row, handlers[h].row)
    BY <2>1, <2>2, EditedRow DEF SameRow
  <2>4. SavesSubmission(h, row)
    BY <1>4, <2>1 DEF SaveSubmission
  <2>5. QED  BY <1>1, <2>2, <2>3, <2>4, SubmissionsMoveNoScore
<1>5. ASSUME NEW R, NEW T, Remove(R, T) PROVE FALSE
  BY <1>1, <1>5, RemovalsMoveNoScore
<1>6. PICK h \in Slots : SaveEvaluation(h)
  BY <1>2, <1>3, <1>4, <1>5, WhatWrites
<1>7. QED  BY <1>1, <1>6, EvaluationsAreTheJurys

\* Nobody but a juror of the tournament or an administrator moves a team on the
\* leaderboard, although the jury is asked for two statements before the evaluation
\* is saved, and ids are all that the request keeps meanwhile
\* (submissions.service.ts createEvaluation, tournaments.service.ts getLeaderboard).
THEOREM StandingsAreTheJurys == Spec => StandingsMoveByTheJury
<1>1. IInv /\ JInv /\ [Next]_vars =>
        [\A t \in teams' :
           TotalScore(t)' # TotalScore(t) /\ DOMAIN rounds' = DOMAIN rounds =>
             \E h \in Slots :
               /\ handlers[h] # Idle /\ handlers'[h] = Idle
               /\ \/ handlers[h].user \in Admins
                  \/ <<"judges", TournamentOf[t]>> \in history[h]
               /\ \A e \in evaluations' \ evaluations : e.jury = handlers[h].user]_vars
  BY ScoresMoveByTheJury
<1>2. QED  BY <1>1, AlwaysHasIds, PTL DEF Spec, StandingsMoveByTheJury
-----------------------------------------------------------------------------
(* Edits that nothing disturbs *)

\* The row is the table's as long as nothing was written since the request came.
Stored(state, facts) ==
  state.step \in EditSteps /\ <<"disturbed">> \notin facts => state.row \in submissions

EditsOK == \A h \in Slots : Stored(handlers[h], history[h])

\* A request that is under way records that something is written.
LEMMA WritesAreSeen ==
  ASSUME Record, NEW h \in Slots, handlers[h] # Idle, handlers'[h] # Idle, tables' # tables
  PROVE  <<"disturbed">> \in history'[h]
BY DEF Record

LEMMA OthersStayStored ==
  ASSUME Record, NEW h \in Slots, handlers'[h] = handlers[h], Stored(handlers[h], history[h])
  PROVE  Stored(handlers[h], history[h])'
<1>1. CASE handlers[h] = Idle
  BY <1>1 DEF Stored, Idle, EditSteps
<1>2. CASE handlers[h] # Idle
  BY <1>2, RecordGrows, WritesAreSeen DEF Stored, tables
<1>3. QED  BY <1>1, <1>2

\* A step after which every request is where it was, or has been answered.
LEMMA SettledEdits ==
  ASSUME EditsOK, Record, \A h \in Slots : handlers'[h] = handlers[h] \/ handlers'[h] = Idle
  PROVE  EditsOK'
<1>1. ASSUME NEW h \in Slots PROVE Stored(handlers[h], history[h])'
  <2>1. CASE handlers'[h] = handlers[h]
    BY <2>1, OthersStayStored DEF EditsOK
  <2>2. CASE handlers'[h] = Idle
    BY <2>2 DEF Stored, Idle, EditSteps
  <2>3. QED  BY <2>1, <2>2
<1>2. QED  BY <1>1 DEF EditsOK

LEMMA ReadingKeepsEdits ==
  ASSUME IInv, EditsOK, NEW h \in Slots, NEW state, Reads(h, state), Stored(state, history'[h])
  PROVE  EditsOK'
<1>1. /\ handlers'[h] = state /\ \A g \in Slots : g # h => handlers'[g] = handlers[g]
      /\ submissions' = submissions /\ Record
  BY DEF IInv, TypeOK, Reads, Goes, tables
<1>2. ASSUME NEW g \in Slots PROVE Stored(handlers[g], history[g])'
  <2>1. CASE g = h
    BY <1>1, <2>1 DEF Stored
  <2>2. CASE g # h
    BY <1>1, <2>2, OthersStayStored DEF EditsOK
  <2>3. QED  BY <2>1, <2>2
<1>3. QED  BY <1>2 DEF EditsOK

LEMMA NoEditGoesOn ==
  ASSUME IInv, EditsOK, NEW h \in Slots, NEW state, Reads(h, state), state.step \notin EditSteps
  PROVE  EditsOK'
BY ReadingKeepsEdits DEF Stored

LEMMA StopKeepsEdits ==
  ASSUME IInv, EditsOK, NEW h \in Slots, Reads(h, Idle)
  PROVE  EditsOK'
BY NoEditGoesOn DEF Idle, EditSteps

LEMMA BeginsKeepEdits ==
  ASSUME IInv, EditsOK, NEW h \in Slots, Request(h)
  PROVE  EditsOK'
<1>1. ASSUME NEW u \in Users, NEW r \in Rounds, BeginCreateForRound(h, u, r) PROVE EditsOK'
  <2>1. Reads(h, [step |-> "findTeam", user |-> u, round |-> r])
    BY <1>1 DEF BeginCreateForRound, Begins, Reads
  <2>2. QED  BY <2>1, NoEditGoesOn DEF EditSteps
<1>2. ASSUME NEW u \in Users, NEW s \in submissions, NEW patch \in Patches,
             BeginUpdateSubmission(h, u, s, patch)
      PROVE  EditsOK'
  <2> DEFINE state == [step |-> "findAccess", user |-> u, row |-> s, patch |-> patch,
                       status |-> rounds[s.round].status, end_date |-> rounds[s.round].end_date]
  <2>1. Reads(h, state)
    BY <1>2 DEF BeginUpdateSubmission, Begins, Reads
  <2>2. Stored(state, history'[h])
    BY DEF Stored
  <2>3. QED  BY <2>1, <2>2, ReadingKeepsEdits
<1>3. ASSUME NEW u \in Users, NEW s \in submissions, NEW answer \in Answers,
             BeginEvaluation(h, u, s, answer)
      PROVE  EditsOK'
  <2>1. Reads(h, [step |-> IF u \in Admins THEN "findEvaluation" ELSE "checkJury", user |-> u,
                  submission |-> s.id, round |-> s.round, answer |-> answer])
    BY <1>3 DEF BeginEvaluation, Begins, Reads
  <2>2. QED  BY <2>1, NoEditGoesOn DEF EditSteps
<1>4. QED  BY <1>1, <1>2, <1>3 DEF Request

LEMMA CreateKeepsEdits ==
  ASSUME IInv, EditsOK, NEW h \in Slots, FindTeam(h) \/ FindMembership(h) \/ FindExisting(h)
  PROVE  EditsOK'
<1>0. handlers[h] \in HandlerState
  BY DEF IInv, TypeOK
<1>1. ASSUME NEW ts, GoesWith(h, ts) PROVE EditsOK'
  <2>1. PICK t \in ts :
          Reads(h, [step |-> "findExisting", user |-> handlers[h].user,
                    row |-> [id |-> NewRow, team |-> t, round |-> handlers[h].round,
                             content |-> [c \in Columns |-> First]]])
    BY <1>1 DEF GoesWith
  <2>2. QED  BY <2>1, NoEditGoesOn DEF EditSteps
<1>2. ASSUME NEW step \in {"findMembership", "insertSubmission"},
             Reads(h, [handlers[h] EXCEPT !.step = step])
      PROVE  EditsOK'
  <2>1. [handlers[h] EXCEPT !.step = step].step \notin EditSteps
    BY <1>0 DEF HandlerState, Idle, EditSteps
  <2>2. QED  BY <1>2, <2>1, NoEditGoesOn
<1>3. QED  BY <1>1, <1>2, StopKeepsEdits DEF FindTeam, FindMembership, FindExisting

LEMMA UpdateKeepsEdits ==
  ASSUME IInv, EditsOK, NEW h \in Slots, FindAccess(h) \/ FindAccessMembership(h)
  PROVE  EditsOK'
<1>0. handlers[h] \in HandlerState /\ handlers[h].step \in {"findAccess", "findAccessMembership"}
  BY DEF IInv, TypeOK, FindAccess, FindAccessMembership, At
<1>1. ASSUME NEW step \in EditSteps, Reads(h, [handlers[h] EXCEPT !.step = step]) PROVE EditsOK'
  <2> DEFINE state == [handlers[h] EXCEPT !.step = step]
  <2>1. /\ state.step = step /\ state.row = handlers[h].row
        /\ handlers[h] # Idle /\ state # Idle
    BY <1>0 DEF HandlerState, Idle, EditSteps
  <2>2. Reads(h, state)
    BY <1>1
  <2> HIDE DEF state
  <2>3. handlers'[h] = state
    BY <2>2 DEF Reads, Goes, IInv, TypeOK
  <2>4. history[h] \subseteq history'[h]
    BY <2>1, <2>2, <2>3, RecordGrows DEF Reads
  <2>5. Stored(state, history'[h])
    BY <1>0, <2>1, <2>4 DEF EditsOK, Stored, EditSteps
  <2>6. QED  BY <2>2, <2>5, ReadingKeepsEdits
<1>2. ASSUME GoesToSave(h) PROVE EditsOK'
  BY <1>1, <1>2, StopKeepsEdits DEF GoesToSave, EditSteps
<1>3. QED  BY <1>1, <1>2, StopKeepsEdits DEF FindAccess, FindAccessMembership, EditSteps

LEMMA EvaluationKeepsEdits ==
  ASSUME IInv, EditsOK, NEW h \in Slots, CheckJury(h) \/ FindEvaluation(h)
  PROVE  EditsOK'
<1>1. CASE CheckJury(h)
  <2>1. handlers[h] \in HandlerState /\ handlers[h].step = "checkJury"
    BY <1>1 DEF CheckJury, At, IInv, TypeOK
  <2>2. [handlers[h] EXCEPT !.step = "findEvaluation"].step \notin EditSteps
    BY <2>1 DEF HandlerState, Idle, EditSteps
  <2>3. QED  BY <1>1, <2>2, StopKeepsEdits, NoEditGoesOn DEF CheckJury
<1>2. CASE FindEvaluation(h)
  <2>1. PICK row : Reads(h, [step |-> "saveEvaluation", user |-> handlers[h].user, row |-> row])
    BY <1>2 DEF FindEvaluation
  <2>2. QED  BY <2>1, NoEditGoesOn DEF EditSteps
<1>3. QED  BY <1>1, <1>2

LEMMA StepsKeepEdits == ASSUME IInv, EditsOK, [Next]_vars PROVE EditsOK'
<1>1. ASSUME NEW h \in Slots, InsertSubmission(h) \/ SaveSubmission(h) \/ SaveEvaluation(h)
      PROVE  EditsOK'
  <2>1. Goes(h, Idle) /\ Record
    BY <1>1 DEF InsertSubmission, SaveSubmission, SavesSubmission, SaveEvaluation
  <2>2. \A g \in Slots : handlers'[g] = handlers[g] \/ handlers'[g] = Idle
    BY <2>1 DEF Goes, IInv, TypeOK
  <2>3. QED  BY <2>1, <2>2, SettledEdits
<1>2. CASE Change
  <2>1. handlers' = handlers /\ Record
    BY <1>2 DEF Change, Tick, ChangeRound, RemoveRound, RemoveTeam, RemoveTournament, Remove,
       AddMember, RemoveMember, AddJuror, RemoveJuror, Changes
  <2>2. QED  BY <2>1, SettledEdits
<1>3. CASE UNCHANGED vars
  BY <1>3 DEF vars, tables, EditsOK, Stored
<1>4. ASSUME NEW h \in Slots, Statement(h) PROVE EditsOK'
  BY <1>1, <1>4, CreateKeepsEdits, UpdateKeepsEdits, EvaluationKeepsEdits DEF Statement
<1>5. QED  BY <1>2, <1>3, <1>4, BeginsKeepEdits DEF Next

LEMMA AlwaysStored == Spec => [](IInv /\ JInv /\ EditsOK)
<1>1. Init => IInv /\ JInv /\ EditsOK
  BY InitIsConsistent, InitHasIds DEF Init, EditsOK, Stored, Idle, EditSteps
<1>2. IInv /\ JInv /\ EditsOK /\ [Next]_vars => (IInv /\ JInv /\ EditsOK)'
  BY StepsKeepConsistent, StepsKeepIds, StepsKeepEdits
<1>3. QED  BY <1>1, <1>2, PTL DEF Spec

\* Nothing but the save answers a request that is about to save.
LEMMA SavesAnswer ==
  ASSUME IInv, [Next]_vars, NEW h \in Slots, handlers[h] # Idle,
         handlers[h].step = "saveSubmission", handlers'[h] = Idle
  PROVE  SaveSubmission(h)
<1>1. ASSUME NEW g \in Slots, NEW state, Goes(g, state), g # h PROVE FALSE
  BY <1>1 DEF Goes, IInv, TypeOK
<1>2. ASSUME NEW g \in Slots, Request(g) PROVE FALSE
  <2>1. handlers[g] = Idle /\ \E state : Goes(g, state)
    BY <1>2 DEF Request, BeginCreateForRound, BeginUpdateSubmission, BeginEvaluation, Begins
  <2>2. QED  BY <1>1, <2>1
<1>3. ASSUME NEW g \in Slots, Statement(g), g # h PROVE FALSE
  <2>1. \E state : Goes(g, state)
    BY <1>3 DEF Statement, FindTeam, FindMembership, FindExisting, InsertSubmission, FindAccess,
       FindAccessMembership, SaveSubmission, CheckJury, FindEvaluation, SaveEvaluation,
       GoesWith, GoesToSave, Reads, SavesSubmission
  <2>2. QED  BY <1>1, <1>3, <2>1
<1>4. ASSUME Statement(h) PROVE SaveSubmission(h)
  BY <1>4 DEF Statement, FindTeam, FindMembership, FindExisting, InsertSubmission, FindAccess,
     FindAccessMembership, CheckJury, FindEvaluation, SaveEvaluation, At
<1>5. ~Change /\ ~UNCHANGED vars
  <2>1. Change => handlers' = handlers
    BY DEF Change, Tick, ChangeRound, RemoveRound, RemoveTeam, RemoveTournament, Remove,
       AddMember, RemoveMember, AddJuror, RemoveJuror, Changes
  <2>2. QED  BY <2>1 DEF vars
<1>6. QED  BY <1>2, <1>3, <1>4, <1>5 DEF Next

LEMMA SavesAreExact ==
  ASSUME IInv, JInv, EditsOK, [Next]_vars, NEW h \in Slots, handlers[h] # Idle,
         handlers[h].step = "saveSubmission", handlers'[h] = Idle, <<"disturbed">> \notin history[h]
  PROVE  \E old \in submissions, new \in submissions' :
           /\ submissions' = (submissions \ {old}) \cup {new}
           /\ new.content = [c \in Columns |-> IF c \in DOMAIN handlers[h].patch
                                               THEN handlers[h].patch[c] ELSE old.content[c]]
           /\ new.id = old.id /\ new.team = old.team /\ new.round = old.round
<1> DEFINE old == handlers[h].row
           new == Edited(old, handlers[h].patch)
<1>1. /\ old \in submissions /\ old \in Submission /\ old.id # NewRow
      /\ handlers[h].patch \in Patches
  BY DEF EditsOK, Stored, EditSteps, IInv, TypeOK, TablesOK, HandlerState, Idle
<1>2. /\ new.id = old.id /\ new.team = old.team /\ new.round = old.round
      /\ new.content = [c \in Columns |-> IF c \in DOMAIN handlers[h].patch
                                          THEN handlers[h].patch[c] ELSE old.content[c]]
  BY <1>1, EditedRow
<1>3. SavesSubmission(h, new)
  BY SavesAnswer DEF SaveSubmission
<1> HIDE DEF new, old
<1>4. CanPutSubmission(new)
  BY <1>1, <1>2 DEF CanPutSubmission, IInv, Consistent, RowsHaveParents, OneRowEach
<1>5. WithId(new, SubmissionId, UsedSubmissions) = new
  BY <1>1, <1>2 DEF WithId
<1>6. submissions' = {r \in submissions : r.id # new.id} \cup {new}
  BY <1>3, <1>4, <1>5 DEF SavesSubmission, Put
<1>7. \A r \in submissions : r.id = new.id <=> r = old
  <2>1. \A r \in submissions : r.id = old.id => SameRow(r, old)
    BY <1>1 DEF JInv, IdsAreUnique, KnownSubmissions
  <2>2. QED  BY <1>1, <1>2, <2>1 DEF SameRow, IInv, Consistent, OneRowEach
<1>8. submissions' = (submissions \ {old}) \cup {new}
  BY <1>6, <1>7
<1>9. new \in submissions'
  BY <1>6
<1>10. QED  BY <1>1, <1>2, <1>8, <1>9 DEF old

\* An edit of a submission that nothing has overlapped changes the columns that
\* the request gives and nothing else of the row, the table or another team
\* (submissions.service.ts updateSubmission, which saves the whole row it has read).
THEOREM EditsAreExact == Spec => UndisturbedEditsAreExact
<1>1. IInv /\ JInv /\ EditsOK /\ [Next]_vars =>
        [\A h \in Slots :
           handlers[h] # Idle /\ handlers[h].step = "saveSubmission" /\ handlers'[h] = Idle
             /\ <<"disturbed">> \notin history[h] =>
               \E old \in submissions, new \in submissions' :
                 /\ submissions' = (submissions \ {old}) \cup {new}
                 /\ new.content = [c \in Columns |-> IF c \in DOMAIN handlers[h].patch
                                                     THEN handlers[h].patch[c] ELSE old.content[c]]
                 /\ new.id = old.id /\ new.team = old.team /\ new.round = old.round]_vars
  BY SavesAreExact
<1>2. QED  BY <1>1, AlwaysStored, PTL DEF Spec, UndisturbedEditsAreExact
=============================================================================
