------------------------ MODULE TournamentLifecycle ------------------------
(***************************************************************************)
(* The life of a tournament and of its rounds, as the handlers of          *)
(* TournamentsService and RoundsService change them when every handler     *)
(* runs to its end before the next one begins.  LifecycleRequests takes    *)
(* the same handlers apart at their awaits.                                *)
(*                                                                         *)
(* A tournament's rounds are the sequence of their statuses in the order   *)
(* every query of the code lists them, (sort_order, start_date, id).       *)
(* Titles, texts and files are left out; so are the authorisation checks,  *)
(* since a refused request changes nothing.  Clean-up of chat rooms is     *)
(* not part of this module.                                                *)
(***************************************************************************)
EXTENDS Integers, SequencesExt

CONSTANTS
  TournamentId,   \* the ids the database may hand out, each at most once
  NoParent,       \* parent_tournament_id is NULL
  Parents,        \* bound: the tournaments requests name as a parent
  MaxTime,        \* bound: the clock stops here
  MaxRounds,      \* bound: the rounds requests may give each tournament
  AllowAnyStatus  \* ALLOW_WRITE_TOURNAMENT_STATUS === 'true'

ASSUME LifecycleAssumption ==
  /\ NoParent \notin TournamentId
  /\ Parents \subseteq TournamentId
  /\ MaxTime \in Nat
  /\ MaxRounds \in [TournamentId -> Nat]
  /\ AllowAnyStatus \in BOOLEAN

VARIABLES
  now,          \* the clock, in units the dates are given in
  tournaments,  \* the tournaments table
  rounds        \* for each tournament, its rounds in the order of the listing

vars == <<now, tournaments, rounds>>
-----------------------------------------------------------------------------
Time == 0 .. MaxTime

TournamentStatus == {"draft", "registration", "running", "finished", "cancelled"}
RoundStatus == {"draft", "active", "submission_closed", "evaluated"}

STATUS_TRANSITIONS ==
  [s \in TournamentStatus |->
     CASE s = "draft"        -> {"registration", "cancelled"}
       [] s = "registration" -> {"running", "draft", "cancelled"}
       [] s = "running"      -> {"finished", "cancelled"}
       [] s = "finished"     -> {}
       [] s = "cancelled"    -> {"draft"}]

\* A row that was never inserted, and one that was deleted: ids are not reused.
NotARow == {"absent", "deleted"}

TournamentRow == [status : TournamentStatus \cup NotARow,
                  registration_end : Time,
                  end_date : Time,
                  parent : TournamentId \cup {NoParent}]

Absent == [status |-> "absent", registration_end |-> 0, end_date |-> 0,
           parent |-> NoParent]

Exists(t) == tournaments[t].status \in TournamentStatus

TypeOK ==
  /\ now \in Time
  /\ tournaments \in [TournamentId -> TournamentRow]
  /\ rounds \in [TournamentId -> Seq(RoundStatus)]

Init ==
  /\ now = 0
  /\ tournaments = [t \in TournamentId |-> Absent]
  /\ rounds = [t \in TournamentId |-> <<>>]
-----------------------------------------------------------------------------
\* Definitions named Faulty... are what a plausible slip in the code would make of
\* the definition that follows; PROJECT.json substitutes them, nothing here uses them.
FaultyValidSchedule(regEnd, end) == regEnd <= end

\* validateTournamentSchedule; a start date always fits between the two dates.
ValidSchedule(regEnd, end) == regEnd < end

NoneActive(rs) == \A i \in DOMAIN rs : rs[i] # "active"

FirstActive(rs) ==
  CHOOSE i \in DOMAIN rs :
    rs[i] = "active" /\ \A j \in 1 .. i - 1 : rs[j] # "active"

\* No default round is created.
FaultyActivateNoDefault(rs) ==
  IF rs # <<>> /\ NoneActive(rs) /\ rs[1] = "draft" THEN ReplaceAt(rs, 1, "active") ELSE rs

\* The rounds after activateFirstRound has run on them.
ActivateFirstRound(rs) ==
  CASE rs = <<>>                             -> <<"active">>
    [] rs # <<>> /\ ~NoneActive(rs)          -> rs
    [] rs # <<>> /\ NoneActive(rs)           ->
         IF rs[1] = "draft" THEN ReplaceAt(rs, 1, "active") ELSE rs

\* Every place a new or edited round may take in the listing.
Places(rs) == 1 .. Len(rs) + 1
\* The round before stays open.
FaultyNextRound(rs) ==
  LET activeIdx == IF NoneActive(rs) THEN 0 ELSE FirstActive(rs)
  IN  IF activeIdx < Len(rs) THEN ReplaceAt(rs, activeIdx + 1, "active") ELSE rs

\* advanceRound(+1).  At the last round the handler throws after it has closed
\* that round; with no active round it starts again at the first.
NextRound(rs) ==
  IF NoneActive(rs)
  THEN ReplaceAt(rs, 1, "active")
  ELSE LET activeIdx == FirstActive(rs)
           closed    == ReplaceAt(rs, activeIdx, "submission_closed")
       IN  IF activeIdx < Len(rs) THEN ReplaceAt(closed, activeIdx + 1, "active")
                                  ELSE closed

\* advanceRound(-1).
PreviousRound(rs) ==
  IF NoneActive(rs)
  THEN ReplaceAt(rs, 1, "active")
  ELSE LET activeIdx == FirstActive(rs)
           prevIdx   == IF activeIdx = 1 THEN 1 ELSE activeIdx - 1
       IN  ReplaceAt(ReplaceAt(rs, activeIdx, "draft"), prevIdx, "active")
-----------------------------------------------------------------------------
SetStatus(t, s) == tournaments' = [tournaments EXCEPT ![t].status = s]

\* POST /tournaments: any status, dates not in the past.  A child of an existing
\* tournament also becomes a draft round of it, unless the parent has a round of
\* that title: then the handler fails with the child already stored.
CreateTournament(t, s, regEnd, end, p) ==
  /\ tournaments[t].status = "absent"
  /\ regEnd >= now /\ ValidSchedule(regEnd, end)
  /\ tournaments' = [tournaments EXCEPT ![t] =
       [status |-> s, registration_end |-> regEnd, end_date |-> end, parent |-> p]]
  /\ \/ UNCHANGED rounds
     \/ /\ p # NoParent /\ Exists(p) /\ Len(rounds[p]) < MaxRounds[p]
        /\ \E k \in Places(rounds[p]) :
             rounds' = [rounds EXCEPT ![p] = InsertAt(@, k, "draft")]
  /\ UNCHANGED now

\* syncRoundsAfterTournamentUpdate: what was changed of a child's name, texts and dates
\* is copied to its round of the parent, which its new start date may move; of a
\* tournament with the default round alone, to that round, which stays where it is.
SyncRounds(t) ==
  LET p == tournaments[t].parent IN
  /\ p # NoParent
  /\ \E i, k \in DOMAIN rounds[p] :
       rounds' = [rounds EXCEPT ![p] = InsertAt(RemoveAt(@, i), k, @[i])]

\* PATCH /tournaments/:id: the merged schedule is validated, the status cannot
\* be given.
UpdateTournament(t, regEnd, end) ==
  /\ Exists(t)
  /\ ValidSchedule(regEnd, end)
  /\ tournaments' = [tournaments EXCEPT ![t].registration_end = regEnd,
                                        ![t].end_date = end]
  /\ \/ UNCHANGED rounds
     \/ SyncRounds(t)
  /\ UNCHANGED now

\* PATCH /tournaments/:id/status
UpdateStatus(t, s) ==
  /\ Exists(t)
  /\ AllowAnyStatus \/ s \in STATUS_TRANSITIONS[tournaments[t].status]
  /\ SetStatus(t, s)
  /\ rounds' = IF s = "running"
               THEN [rounds EXCEPT ![t] = ActivateFirstRound(@)] ELSE rounds
  /\ UNCHANGED now

\* DELETE /tournaments/:id: the rounds go with the row (ON DELETE CASCADE).
DeleteTournament(t) ==
  /\ Exists(t)
  /\ tournaments' = [tournaments EXCEPT ![t] = [Absent EXCEPT !.status = "deleted"]]
  /\ rounds' = [rounds EXCEPT ![t] = <<>>]
  /\ UNCHANGED now

\* Any tournament past its end is selected, whatever its status.
FaultyDueToFinish(t) == Exists(t) /\ tournaments[t].end_date <= now

\* autoTransitionStatuses, the body of each loop for one selected tournament.
DueToStart(t) ==
  tournaments[t].status = "registration" /\ tournaments[t].registration_end <= now

DueToFinish(t) ==
  tournaments[t].status = "running" /\ tournaments[t].end_date <= now

AutoStart(t) ==
  /\ DueToStart(t)
  /\ SetStatus(t, "running")
  /\ rounds' = [rounds EXCEPT ![t] = ActivateFirstRound(@)]
  /\ UNCHANGED now

AutoFinish(t) ==
  /\ DueToFinish(t)
  /\ SetStatus(t, "finished")
  /\ UNCHANGED <<now, rounds>>
-----------------------------------------------------------------------------
\* POST /tournaments/:id/rounds; ensureNoOtherActiveRound guards an active one.
CreateRound(t, s, k) ==
  /\ Exists(t) /\ Len(rounds[t]) < MaxRounds[t]
  /\ s = "active" => NoneActive(rounds[t])
  /\ rounds' = [rounds EXCEPT ![t] = InsertAt(@, k, s)]
  /\ UNCHANGED <<now, tournaments>>

\* PATCH /rounds/:id, for the i-th round: any status, and any new place.
UpdateRound(t, i, s, k) ==
  /\ (s = "active" /\ rounds[t][i] # "active") =>
       NoneActive(RemoveAt(rounds[t], i))
  /\ rounds' = [rounds EXCEPT ![t] = InsertAt(RemoveAt(@, i), k, s)]
  /\ UNCHANGED <<now, tournaments>>

\* DELETE /rounds/:id
RemoveRound(t, i) ==
  /\ rounds' = [rounds EXCEPT ![t] = RemoveAt(@, i)]
  /\ UNCHANGED <<now, tournaments>>

\* POST /tournaments/:id/advance-round
AdvanceNext(t) ==
  /\ Exists(t) /\ rounds[t] # <<>>
  /\ rounds' = [rounds EXCEPT ![t] = NextRound(@)]
  /\ UNCHANGED <<now, tournaments>>

AdvancePrevious(t) ==
  /\ Exists(t) /\ rounds[t] # <<>>
  /\ rounds' = [rounds EXCEPT ![t] = PreviousRound(@)]
  /\ UNCHANGED <<now, tournaments>>

Tick ==
  /\ now < MaxTime
  /\ now' = now + 1
  /\ UNCHANGED <<tournaments, rounds>>
-----------------------------------------------------------------------------
TournamentRequest(t) ==
  \/ \E s \in TournamentStatus, regEnd, end \in Time, p \in (Parents \ {t}) \cup {NoParent} :
       CreateTournament(t, s, regEnd, end, p)
  \/ \E regEnd, end \in Time : UpdateTournament(t, regEnd, end)
  \/ \E s \in TournamentStatus : UpdateStatus(t, s)
  \/ DeleteTournament(t)

RoundRequest(t) ==
  \/ \E s \in RoundStatus, k \in Places(rounds[t]) : CreateRound(t, s, k)
  \/ \E s \in RoundStatus, i, k \in DOMAIN rounds[t] : UpdateRound(t, i, s, k)
  \/ \E i \in DOMAIN rounds[t] : RemoveRound(t, i)
  \/ AdvanceNext(t)
  \/ AdvancePrevious(t)

Timer(t) == AutoStart(t) \/ AutoFinish(t)

Next == Tick \/ \E t \in TournamentId : TournamentRequest(t) \/ RoundRequest(t) \/ Timer(t)

Spec == Init /\ [][Next]_vars
-----------------------------------------------------------------------------
(* Properties *)

AtMostOneActive(rs) ==
  \A i, j \in DOMAIN rs : rs[i] = "active" /\ rs[j] = "active" => i = j

\* "Only one active round is allowed per tournament" (rounds.service.ts:170),
\* whichever handler opened it: creation, edit, advance, start by hand or timer.
AtMostOneActiveRound == \A t \in TournamentId : AtMostOneActive(rounds[t])

\* Every stored schedule has its registration end before its end, however the
\* dates were given and re-given, and only existing tournaments have rounds.
StoredRowsAreConsistent ==
  \A t \in TournamentId :
    IF Exists(t)
    THEN tournaments[t].registration_end < tournaments[t].end_date
    ELSE rounds[t] = <<>>

\* "Allowed transitions: from -> allowed next statuses": no handler, by hand or
\* by timer, takes a tournament along another edge.
StatusFollowsTable ==
  [][\A t \in TournamentId :
       Exists(t) /\ Exists(t)' /\ tournaments'[t].status # tournaments[t].status =>
         tournaments'[t].status \in STATUS_TRANSITIONS[tournaments[t].status]]_vars

\* A tournament that is started has an open round, unless its first round had
\* already been closed: teams are never left with nothing to submit to.
StartOpensARound ==
  [][\A t \in TournamentId :
       Exists(t) /\ tournaments[t].status # "running" /\ tournaments'[t].status = "running" =>
         \/ ~NoneActive(rounds'[t])
         \/ rounds'[t] # <<>> /\ rounds'[t][1] \in {"submission_closed", "evaluated"}]_vars
=============================================================================
