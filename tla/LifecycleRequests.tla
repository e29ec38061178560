------------------------- MODULE LifecycleRequests -------------------------
(***************************************************************************)
(* The handlers of TournamentLifecycle taken apart at their awaits, for    *)
(* one tournament: requests and the timer's pass run interleaved, each     *)
(* step one database statement, and what a handler has read is kept in     *)
(* its own state until it writes.                                          *)
(*                                                                         *)
(* Statements that read what no later statement depends on are joined to   *)
(* the next one: the second read of a tournament that assertCanEdit has    *)
(* just read, and the read of the tournament before a default round is     *)
(* inserted.  A save of a TypeORM entity is one step: it writes every      *)
(* column of the row the handler holds, and inserts the row again when the *)
(* table has lost it.                                                      *)
(***************************************************************************)
EXTENDS Integers, SequencesExt

CONSTANTS
  Slots,          \* bound: the requests the server may be working on at once
  timer,          \* the handler that setInterval calls
  NewRow,         \* the id of a row that is not inserted yet
  Titles,         \* the titles of rounds
  DefaultTitle,   \* the title activateFirstRound gives
  SortOrders,     \* bound: the values of sort_order
  RoundId,        \* ids of rounds: enough that a fresh one is always left
  Kinds,          \* bound: the kinds of requests a run sends
  MaxInFlight,    \* bound: how many handlers may be at work at once
  MaxTime,        \* bound: the latest date a request gives
  LastTick,       \* bound: the clock stops here
  MaxCrashes      \* bound: how often the server process may die

ASSUME RequestsAssumption ==
  /\ timer \notin Slots
  /\ RoundId \subseteq Nat /\ NewRow \notin RoundId
  /\ DefaultTitle \in Titles
  /\ SortOrders \subseteq Nat /\ 0 \in SortOrders
  /\ MaxTime \in Nat /\ LastTick \in 0 .. MaxTime /\ MaxCrashes \in Nat /\ MaxInFlight \in Nat

VARIABLES
  now,          \* the clock
  tournament,   \* the tournament's row
  rounds,       \* its rows of the rounds table
  handlers,     \* what each handler will do next, and what it has read for it
  passTime,     \* the clock as the timer's pass under way read it, 0 between passes
  crashes       \* how often the process has died

vars == <<now, tournament, rounds, handlers, passTime, crashes>>
-----------------------------------------------------------------------------
Handlers == Slots \cup {timer}
Time == 0 .. MaxTime
NoParent == "none"

Status == {"draft", "registration", "running", "finished", "cancelled"}
RoundStatus == {"draft", "active", "submission_closed", "evaluated"}

STATUS_TRANSITIONS ==
  [draft        |-> {"registration", "cancelled"},
   registration |-> {"running", "draft", "cancelled"},
   running      |-> {"finished", "cancelled"},
   finished     |-> {},
   cancelled    |-> {"draft"}]

Row == [id : RoundId \cup {NewRow}, title : Titles, status : RoundStatus, sort_order : SortOrders]

Idle == [step |-> "idle"]

Exists == tournament.status \in Status

Patch == UNION {[D -> Time] : D \in SUBSET {"registration_end", "end_date"}}

HandlerState ==
  {Idle}
  \cup [step : {"writeStatus"}, status : Status]
  \cup [step : {"writeDates"}, patch : Patch]
  \cup [step : {"writeNamed"}, patch : Patch, title : Titles]
  \cup [step : {"findDefault"}, title : Titles]
  \cup [step : {"rename"}, id : RoundId, title : Titles]
  \cup [step : {"renameTitled"}, from : Titles, title : Titles]
  \cup [step : {"findRounds", "selectToFinish"}]
  \cup [step : {"checkNoOther"}, row : Row]
  \cup [step : {"save"}, rows : UNION {[1 .. n -> Row] : n \in 1 .. 2}]

TypeOK ==
  /\ now \in Time /\ passTime \in Time /\ crashes \in 0 .. MaxCrashes
  /\ tournament \in [status : Status \cup {"absent", "deleted"},
                     registration_end : Time, end_date : Time]
  /\ rounds \subseteq Row
  /\ \A r1, r2 \in rounds : r1.id = r2.id \/ r1.title = r2.title => r1 = r2
  /\ handlers \in [Handlers -> HandlerState]

Init ==
  /\ now = 0 /\ passTime = 0 /\ crashes = 0
  /\ tournament = [status |-> "absent", registration_end |-> 0, end_date |-> 0]
  /\ rounds = {}
  /\ handlers = [h \in Handlers |-> Idle]
-----------------------------------------------------------------------------
(* The rounds table *)

\* The order of every listing; start_date, which only orders rows of equal
\* sort_order, is not kept, and their ids decide.
Before(a, b) ==
  IF a.sort_order = b.sort_order THEN a.id < b.id ELSE a.sort_order < b.sort_order

Listing(rs) ==
  CHOOSE list \in [1 .. Cardinality(rs) -> rs] :
    \A i, j \in DOMAIN list : i < j => Before(list[i], list[j])

\* An id that no row has and no handler holds stands for the next fresh id.
HeldRows(hs) ==
  {hs[h].row : h \in {g \in Handlers : hs[g].step = "checkNoOther"}}
  \cup UNION {ToSet(hs[h].rows) : h \in {g \in Handlers : hs[g].step = "save"}}

FreshId(rs) ==
  CHOOSE i \in RoundId : i \notin {r.id : r \in rs \cup HeldRows(handlers)}

\* Definitions named Faulty... are what a plausible slip in the code would make of
\* the definition that follows; PROJECT.json substitutes them, nothing here uses them.
\* No unique index on (tournament_id, title).
FaultyCanSave(rs, row) == Exists

\* An insert needs the tournament (foreign key), any write a title of its own.
CanSave(rs, row) ==
  Exists /\ \A r \in rs : r.id # row.id => r.title # row.title

Saved(rs, row) ==
  IF row.id = NewRow THEN rs \cup {[row EXCEPT !.id = FreshId(rs)]}
                     ELSE {r \in rs : r.id # row.id} \cup {row}
-----------------------------------------------------------------------------
(* How a handler proceeds *)

InFlight == {h \in Handlers : handlers[h] # Idle}

\* Room for one more handler, of a kind the run sends.
MayBegin(kind) == kind \in Kinds /\ Cardinality(InFlight) < MaxInFlight

Begins(h, kind, state) ==
  /\ handlers[h] = Idle /\ MayBegin(kind)
  /\ handlers' = [handlers EXCEPT ![h] = state]
  /\ UNCHANGED <<now, tournament, rounds, passTime, crashes>>

Goes(h, state) ==
  /\ handlers' = [handlers EXCEPT ![h] = state]
  /\ passTime' = IF h = timer /\ state = Idle THEN 0 ELSE passTime

\* After its last statement a request is answered, and the timer's pass turns
\* from the tournaments to start to those to finish.
Return(h) == IF h = timer THEN [step |-> "selectToFinish"] ELSE Idle

Continue(h, rows) == Goes(h, IF rows = <<>> THEN Return(h) ELSE [step |-> "save", rows |-> rows])
-----------------------------------------------------------------------------
(* Requests whose reads decide nothing a later statement relies on *)

CreateTournament(s, regEnd, end) ==
  /\ MayBegin("createTournament")
  /\ tournament.status = "absent" /\ regEnd >= now /\ regEnd < end
  /\ tournament' = [status |-> s, registration_end |-> regEnd, end_date |-> end]
  /\ UNCHANGED <<now, rounds, handlers, passTime, crashes>>

DeleteTournament ==
  /\ MayBegin("deleteTournament") /\ Exists
  /\ tournament' = [status |-> "deleted", registration_end |-> 0, end_date |-> 0]
  /\ rounds' = {}
  /\ UNCHANGED <<now, handlers, passTime, crashes>>

RemoveRound(r) ==
  /\ MayBegin("removeRound")
  /\ rounds' = rounds \ {r}
  /\ UNCHANGED <<now, tournament, handlers, passTime, crashes>>
-----------------------------------------------------------------------------
(* Requests that read first: the reads and the checks made on them *)

BeginUpdateStatus(h, s) ==
  /\ Exists /\ s \in STATUS_TRANSITIONS[tournament.status]
  /\ Begins(h, "updateStatus", [step |-> "writeStatus", status |-> s])

\* PATCH with some of the dates: what is validated is the row just read, patched.
Given(patch, column) == IF column \in DOMAIN patch THEN patch[column] ELSE tournament[column]

Patched(patch) ==
  [tournament EXCEPT !.registration_end = Given(patch, "registration_end"),
                     !.end_date = Given(patch, "end_date")]

BeginUpdateTournament(h, patch) ==
  /\ Exists /\ Patched(patch).registration_end < Patched(patch).end_date
  /\ Begins(h, "updateTournament", [step |-> "writeDates", patch |-> patch])

\* The same PATCH with a name: the only round of a tournament takes it as its title.
BeginRenameTournament(h, patch, title) ==
  /\ Exists /\ Patched(patch).registration_end < Patched(patch).end_date
  /\ Begins(h, "renameTournament", [step |-> "writeNamed", patch |-> patch, title |-> title])

\* The PATCH of a tournament that has this one as its parent, and a name: its round here
\* is the one with the name it had.
BeginRenameChild(h, from, title) ==
  Begins(h, "renameChild", [step |-> "renameTitled", from |-> from, title |-> title])

\* ensureNoOtherActiveRound asks the database only about an active round.
Checked(row, opens) ==
  IF opens THEN [step |-> "checkNoOther", row |-> row] ELSE [step |-> "save", rows |-> <<row>>]

BeginCreateRound(h, row) ==
  /\ Exists /\ row.id = NewRow
  /\ Begins(h, "createRound", Checked(row, row.status = "active"))

\* With the row unchanged it is also what uploadFile does: it saves the round it read.
BeginUpdateRound(h, r, row) ==
  /\ row.id = r.id
  /\ Begins(h, "updateRound", Checked(row, row.status = "active" /\ r.status # "active"))

\* advanceRound reads the list once and saves the rows it changed, one by one.
\* At the last round it fails after the first save.
ActiveIn(list) ==
  {i \in DOMAIN list : list[i].status = "active" /\ \A j \in 1 .. i - 1 : list[j].status # "active"}

With(row, s) == [row EXCEPT !.status = s]

NextRows(list) ==
  IF ActiveIn(list) = {} THEN <<With(list[1], "active")>>
  ELSE LET i == CHOOSE j \in ActiveIn(list) : TRUE
           closed == With(list[i], "submission_closed")
       IN  IF i = Len(list) THEN <<closed>> ELSE <<closed, With(list[i + 1], "active")>>

PreviousRows(list) ==
  IF ActiveIn(list) = {} THEN <<With(list[1], "active")>>
  ELSE LET i == CHOOSE j \in ActiveIn(list) : TRUE
       IN  <<With(list[i], "draft"), With(list[IF i = 1 THEN 1 ELSE i - 1], "active")>>

BeginAdvanceNext(h) ==
  /\ Exists /\ rounds # {}
  /\ Begins(h, "nextRound", [step |-> "save", rows |-> NextRows(Listing(rounds))])

BeginAdvancePrevious(h) ==
  /\ Exists /\ rounds # {}
  /\ Begins(h, "previousRound", [step |-> "save", rows |-> PreviousRows(Listing(rounds))])

\* LessThan for LessThanOrEqual, here and in FaultySelectToFinish.
FaultyBeginPass ==
  /\ handlers[timer] = Idle /\ MayBegin("pass")
  /\ passTime' = now
  /\ handlers' = [handlers EXCEPT ![timer] =
       IF tournament.status = "registration" /\ tournament.registration_end < now
       THEN [step |-> "writeStatus", status |-> "running"] ELSE [step |-> "selectToFinish"]]
  /\ UNCHANGED <<now, tournament, rounds, crashes>>

\* autoTransitionStatuses: the clock is read, then the tournaments to start are.
BeginPass ==
  /\ handlers[timer] = Idle /\ MayBegin("pass")
  /\ passTime' = now
  /\ handlers' = [handlers EXCEPT ![timer] =
       IF tournament.status = "registration" /\ tournament.registration_end <= now
       THEN [step |-> "writeStatus", status |-> "running"] ELSE [step |-> "selectToFinish"]]
  /\ UNCHANGED <<now, tournament, rounds, crashes>>
-----------------------------------------------------------------------------
(* The statements that follow *)

\* update({ id }, { status }): whatever the row's status is by now.
WriteStatus(h) ==
  /\ handlers[h].step = "writeStatus"
  /\ LET s == handlers[h].status IN
     /\ tournament' = IF Exists THEN [tournament EXCEPT !.status = s] ELSE tournament
     /\ Goes(h, CASE s = "running"                  -> [step |-> "findRounds"]
                  [] s # "running"                  -> Idle)
  /\ UNCHANGED <<now, rounds, crashes>>

\* update({ id }, payload): only the columns that were given.  The rounds that are
\* edited after it get dates, which are not kept here.
WritePatch(h) == tournament' = IF Exists THEN Patched(handlers[h].patch) ELSE tournament

WriteDates(h) ==
  /\ handlers[h].step = "writeDates"
  /\ WritePatch(h) /\ Goes(h, Idle)
  /\ UNCHANGED <<now, rounds, crashes>>

WriteNamed(h) ==
  /\ handlers[h].step = "writeNamed"
  /\ WritePatch(h)
  /\ Goes(h, IF Exists THEN [step |-> "findDefault", title |-> handlers[h].title] ELSE Idle)
  /\ UNCHANGED <<now, rounds, crashes>>

\* syncRoundsAfterTournamentUpdate: a round is the default one by its title, or because
\* it has the tournament's description.
FindDefault(h) ==
  /\ handlers[h].step = "findDefault"
  /\ \/ \E r \in rounds :
          /\ rounds = {r} /\ r.sort_order = 0
          /\ Goes(h, [step |-> "rename", id |-> r.id, title |-> handlers[h].title])
     \/ /\ \A r \in rounds : rounds = {r} /\ r.sort_order = 0 => r.title # DefaultTitle
        /\ Goes(h, Idle)
  /\ UNCHANGED <<now, tournament, rounds, crashes>>

\* An update of one round's title, which the unique index may refuse.
Retitles(chosen, title) ==
  rounds' = IF \E r \in rounds \ chosen : r.title = title THEN rounds
            ELSE {IF r \in chosen THEN [r EXCEPT !.title = title] ELSE r : r \in rounds}

RenameRound(h) ==
  /\ handlers[h].step \in {"rename", "renameTitled"}
  /\ LET held == handlers[h] IN
     Retitles({r \in rounds : IF held.step = "rename" THEN r.id = held.id ELSE r.title = held.from},
              held.title)
  /\ Goes(h, Idle)
  /\ UNCHANGED <<now, tournament, crashes>>

\* activateFirstRound reads the list and decides what to save.
DefaultRound ==
  [id |-> NewRow, title |-> DefaultTitle, status |-> "active", sort_order |-> 0]

\* No default round.
FaultyRowsToOpen(list) ==
  IF list # <<>> /\ ActiveIn(list) = {} /\ list[1].status = "draft"
  THEN <<With(list[1], "active")>> ELSE <<>>

\* The status of the first round is not looked at.
FaultyRowsToOpenAnyFirst(list) ==
  CASE list = <<>>                                   -> IF Exists THEN <<DefaultRound>> ELSE <<>>
    [] list # <<>> /\ ActiveIn(list) # {}            -> <<>>
    [] list # <<>> /\ ActiveIn(list) = {}            -> <<With(list[1], "active")>>

RowsToOpen(list) ==
  CASE list = <<>>                                   -> IF Exists THEN <<DefaultRound>> ELSE <<>>
    [] list # <<>> /\ ActiveIn(list) # {}            -> <<>>
    [] list # <<>> /\ ActiveIn(list) = {}            ->
         IF list[1].status = "draft" THEN <<With(list[1], "active")>> ELSE <<>>

FindRounds(h) ==
  /\ handlers[h].step = "findRounds"
  /\ Continue(h, RowsToOpen(Listing(rounds)))
  /\ UNCHANGED <<now, tournament, rounds, crashes>>

CheckNoOther(h) ==
  /\ handlers[h].step = "checkNoOther"
  /\ LET row == handlers[h].row
         other == \E r \in rounds : r.status = "active" /\ r.id # row.id
     IN  Goes(h, IF other THEN Idle ELSE [step |-> "save", rows |-> <<row>>])
  /\ UNCHANGED <<now, tournament, rounds, crashes>>

\* A failed save ends the handler; it also ends the timer's pass.
SaveRow(h) ==
  /\ handlers[h].step = "save"
  /\ LET row == Head(handlers[h].rows) IN
     IF CanSave(rounds, row)
     THEN rounds' = Saved(rounds, row) /\ Continue(h, Tail(handlers[h].rows))
     ELSE UNCHANGED rounds /\ Goes(h, Idle)
  /\ UNCHANGED <<now, tournament, crashes>>

FaultySelectToFinish ==
  /\ handlers[timer].step = "selectToFinish"
  /\ Goes(timer, IF tournament.status = "running" /\ tournament.end_date < passTime
                 THEN [step |-> "writeStatus", status |-> "finished"] ELSE Idle)
  /\ UNCHANGED <<now, tournament, rounds, crashes>>

SelectToFinish ==
  /\ handlers[timer].step = "selectToFinish"
  /\ Goes(timer, IF tournament.status = "running" /\ tournament.end_date <= passTime
                 THEN [step |-> "writeStatus", status |-> "finished"] ELSE Idle)
  /\ UNCHANGED <<now, tournament, rounds, crashes>>

\* The process dies and is started again: what handlers held is gone.
Crash ==
  /\ crashes < MaxCrashes /\ InFlight # {}
  /\ crashes' = crashes + 1
  /\ handlers' = [h \in Handlers |-> Idle] /\ passTime' = 0
  /\ UNCHANGED <<now, tournament, rounds>>

Tick ==
  /\ now < LastTick
  /\ now' = now + 1
  /\ UNCHANGED <<tournament, rounds, handlers, passTime, crashes>>
-----------------------------------------------------------------------------
NewRows == {[id |-> NewRow, title |-> x, status |-> s, sort_order |-> o] :
              x \in Titles, s \in RoundStatus, o \in SortOrders}

Request(h) ==
  \/ \E s \in Status : BeginUpdateStatus(h, s)
  \/ \E D \in SUBSET {"registration_end", "end_date"} : \E patch \in [D -> Time] :
       \/ BeginUpdateTournament(h, patch)
       \/ \E title \in Titles : BeginRenameTournament(h, patch, title)
  \/ \E from, title \in Titles : BeginRenameChild(h, from, title)
  \/ \E row \in NewRows : BeginCreateRound(h, row)
  \/ \E r \in rounds, row \in NewRows : BeginUpdateRound(h, r, [row EXCEPT !.id = r.id])
  \/ BeginAdvanceNext(h)
  \/ BeginAdvancePrevious(h)

ImmediateRequest ==
  \/ \E s \in Status, regEnd, end \in Time : CreateTournament(s, regEnd, end)
  \/ DeleteTournament
  \/ \E r \in rounds : RemoveRound(r)

Statement(h) ==
  \/ WriteStatus(h) \/ FindRounds(h) \/ CheckNoOther(h) \/ SaveRow(h)
  \/ WriteDates(h) \/ WriteNamed(h) \/ FindDefault(h) \/ RenameRound(h)

Next ==
  \/ Tick \/ Crash \/ ImmediateRequest
  \/ \E h \in Slots : Request(h)
  \/ BeginPass \/ SelectToFinish
  \/ \E h \in Handlers : Statement(h)

Spec == Init /\ [][Next]_vars

\* Node.js runs every continuation that is ready, the database answers, and the
\* timer fires again and again; users need not send anything.
Fairness ==
  /\ \A h \in Handlers : WF_vars(Statement(h))
  /\ WF_vars(BeginPass) /\ WF_vars(SelectToFinish)

FairSpec == Spec /\ Fairness

\* The same from any tournament not yet started, with any rounds that requests
\* made one at a time can have given it: TournamentLifecycle_proofs shows that one
\* of them at most is open.
PreparedInit ==
  /\ now = 0 /\ passTime = 0 /\ crashes = 0
  /\ tournament \in [status : {"draft", "registration"}, registration_end : Time, end_date : Time]
  /\ tournament.registration_end < tournament.end_date
  /\ \E T \in SUBSET Titles : \E id \in [T -> RoundId], s \in [T -> RoundStatus] :
       /\ \A x, y \in T : id[x] = id[y] \/ (s[x] = "active" /\ s[y] = "active") => x = y
       /\ rounds = {[id |-> id[x], title |-> x, status |-> s[x], sort_order |-> 0] : x \in T}
  /\ handlers = [h \in Handlers |-> Idle]

PreparedSpec == PreparedInit /\ [][Next]_vars /\ Fairness
-----------------------------------------------------------------------------
(* The serial model as the specification of what handlers promise *)

\* The rows the handler at work has decided on but not yet saved, two at most, count
\* as saved: the promise is made at the read it was decided on.
PendingRows(h) ==
  CASE handlers[h].step = "save"       -> handlers[h].rows
    [] handlers[h].step = "findRounds" -> RowsToOpen(Listing(rounds))
    [] OTHER                           -> <<>>

SettledRounds ==
  LET save(rs, row) == IF CanSave(rs, row) THEN Saved(rs, row) ELSE rs
      rows  == IF InFlight = {} THEN <<>> ELSE PendingRows(CHOOSE h \in InFlight : TRUE)
      first == save(rounds, rows[1])
  IN  CASE rows = <<>>   -> rounds
        [] Len(rows) = 1 -> first
        [] Len(rows) = 2 -> save(first, rows[2])

Statuses(list) == [i \in DOMAIN list |-> list[i].status]

TheTournament == "tournament"

Lifecycle == INSTANCE TournamentLifecycle WITH
  TournamentId <- {TheTournament},
  NoParent <- NoParent,
  Parents <- {},
  MaxRounds <- [x \in {TheTournament} |-> Cardinality(Titles)],
  AllowAnyStatus <- FALSE,
  tournaments <- [x \in {TheTournament} |->
    [status |-> tournament.status, registration_end |-> tournament.registration_end,
     end_date |-> tournament.end_date, parent |-> NoParent]],
  rounds <- [x \in {TheTournament} |-> Statuses(Listing(SettledRounds))]

\* One at a time, the handlers do what TournamentLifecycle says: the statements
\* between a handler's first read and its last save add up to one of its steps.
ImplementsLifecycle == Lifecycle!Spec
-----------------------------------------------------------------------------
(* Properties of overlapping handlers *)

\* "Only one active round is allowed per tournament" (rounds.service.ts:170).
AtMostOneActiveRound ==
  \A r1, r2 \in rounds : r1.status = "active" /\ r2.status = "active" => r1 = r2

\* "Allowed transitions: from -> allowed next statuses"
\* (TournamentStatus.enum.ts:9), for the status as it is in the table.
StatusFollowsTable ==
  [][Exists /\ Exists' /\ tournament'.status # tournament.status =>
       tournament'.status \in STATUS_TRANSITIONS[tournament.status]]_vars

\* "direction: 1 = next, -1 = previous (re-activate)" (tournaments.service.ts:745):
\* where no round is edited and nobody goes back, a closed round stays closed.
ClosedRoundsStayClosed ==
  [][\A r1 \in rounds, r2 \in rounds' :
       r1.id = r2.id /\ r1.status \in {"submission_closed", "evaluated"} => r2.status # "active"]_vars

\* "If no rounds exist, auto-create a default round" (tournaments.service.ts:702):
\* unless the process died or its rounds were removed, a tournament that runs while
\* no handler is at work has a round: two starts that both found none, of which one
\* fails at the unique title, end with the one they share.
RunningHasARound ==
  tournament.status = "running" /\ InFlight = {} /\ crashes = 0 => rounds # {}

\* A tournament whose registration is over is started, and one whose end has
\* passed is finished, whatever requests overlap the pass and whenever the
\* process dies.
DueToStart == tournament.status = "registration" /\ tournament.registration_end <= now
DueToFinish == tournament.status = "running" /\ tournament.end_date <= now
DueTournamentStarts == DueToStart ~> ~DueToStart
DueTournamentFinishes == DueToFinish ~> ~DueToFinish
=============================================================================
