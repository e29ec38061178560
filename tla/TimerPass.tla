----------------------------- MODULE TimerPass -----------------------------
(***************************************************************************)
(* autoTransitionStatuses over several tournaments: one pass selects those *)
(* to start and takes them one by one, then those to finish, all under one *)
(* try, so that the first error ends the pass.  A pass begins every five   *)
(* minutes whether or not the one before is over.                          *)
(*                                                                         *)
(* Of a tournament there is its status and its dates.  What the body of a  *)
(* loop does after it has written the status (the first round, the team    *)
(* chats, the messages) is one step here, which may fail; LifecycleRequests*)
(* takes the start apart, for one tournament.                              *)
(***************************************************************************)
EXTENDS Integers, FiniteSets

CONSTANTS
  Tournaments,   \* their ids
  Passes,        \* bound: the passes that may be under way at once
  MaxTime,       \* bound: the clock stops here, and dates are no later
  MaxRequests,   \* bound: how often somebody sets a status or deletes a tournament
  MaxErrors,     \* bound: how often a SELECT or the UPDATE of a status fails
  MaxCrashes     \* bound: how often the server process may die

ASSUME PassAssumption ==
  {MaxTime, MaxRequests, MaxErrors, MaxCrashes} \subseteq Nat

VARIABLES
  now,        \* the clock
  status,     \* of each tournament
  schedule,   \* its dates
  passes,     \* what each pass will do next, and what it has read for it
  requests, errors, crashes   \* how many there have been

vars == <<now, status, schedule, passes, requests, errors, crashes>>
-----------------------------------------------------------------------------
Time == 0 .. MaxTime
TournamentStatus == {"draft", "registration", "running", "finished", "cancelled"}

STATUS_TRANSITIONS ==
  [draft        |-> {"registration", "cancelled"},
   registration |-> {"running", "draft", "cancelled"},
   running      |-> {"finished", "cancelled"},
   finished     |-> {},
   cancelled    |-> {"draft"}]

\* In "starting" and "finishing" it is at the head of a loop, in the others in its body.
PassStep == {"starting", "started", "finishing", "finished"}
Idle == [step |-> "idle"]

TypeOK ==
  /\ now \in Time /\ requests \in 0 .. MaxRequests
  /\ errors \in 0 .. MaxErrors /\ crashes \in 0 .. MaxCrashes
  /\ status \in [Tournaments -> TournamentStatus \cup {"deleted"}]
  /\ schedule \in [Tournaments -> [registration_end : Time, end_date : Time]]
  /\ passes \in [Passes -> {Idle} \cup [step : PassStep, at : Time, left : SUBSET Tournaments]]

Init ==
  /\ now = 0 /\ requests = 0 /\ errors = 0 /\ crashes = 0
  /\ status \in [Tournaments -> {"registration", "running"}]
  /\ schedule \in [Tournaments -> [registration_end : Time, end_date : Time]]
  /\ \A t \in Tournaments : schedule[t].registration_end < schedule[t].end_date
  /\ passes = [p \in Passes |-> Idle]
-----------------------------------------------------------------------------
DueToStart(t, at) == status[t] = "registration" /\ schedule[t].registration_end <= at
DueToFinish(t, at) == status[t] = "running" /\ schedule[t].end_date <= at

Goes(p, state) ==
  /\ passes' = [passes EXCEPT ![p] = state]
  /\ UNCHANGED <<now, schedule, requests, crashes>>

\* onModuleInit and setInterval: the clock is read, and what is to start.
BeginPass(p) ==
  /\ passes[p] = Idle
  /\ Goes(p, [step |-> "starting", at |-> now,
              left |-> {t \in Tournaments : DueToStart(t, now)}])
  /\ UNCHANGED <<status, errors>>

\* update({ id }, { status }): whatever the status is by now, if the row is there.
WriteStatus(t, s) ==
  status' = IF status[t] = "deleted" THEN status ELSE [status EXCEPT ![t] = s]

\* Definitions named Faulty... are what a plausible slip in the code would make of
\* the definition that follows; PROJECT.json substitutes them, nothing here uses them.
\* The round is opened before the status is written, here and for the clean-up below.
FaultyStart(p) ==
  /\ passes[p].step = "starting"
  /\ \E t \in passes[p].left :
       \/ WriteStatus(t, "running") /\ Goes(p, [passes[p] EXCEPT !.left = @ \ {t}])
       \/ UNCHANGED status /\ Goes(p, Idle)
  /\ UNCHANGED errors

\* The selected rows come in no particular order.
Start(p) ==
  /\ passes[p].step = "starting"
  /\ \E t \in passes[p].left :
       /\ WriteStatus(t, "running")
       /\ Goes(p, [passes[p] EXCEPT !.step = "started", !.left = @ \ {t}])
  /\ UNCHANGED errors

SelectToFinish(p) ==
  /\ passes[p].step = "starting" /\ passes[p].left = {}
  /\ Goes(p, [step |-> "finishing", at |-> passes[p].at,
              left |-> {t \in Tournaments : DueToFinish(t, passes[p].at)}])
  /\ UNCHANGED <<status, errors>>

FaultyFinish(p) ==
  /\ passes[p].step = "finishing"
  /\ \E t \in passes[p].left :
       \/ WriteStatus(t, "finished") /\ Goes(p, [passes[p] EXCEPT !.left = @ \ {t}])
       \/ UNCHANGED status /\ Goes(p, Idle)
  /\ UNCHANGED errors

Finish(p) ==
  /\ passes[p].step = "finishing"
  /\ \E t \in passes[p].left :
       /\ WriteStatus(t, "finished")
       /\ Goes(p, [passes[p] EXCEPT !.step = "finished", !.left = @ \ {t}])
  /\ UNCHANGED errors

\* The rest of the body: it is done, or it throws, as often as it may.
CompleteBody(p) ==
  /\ passes[p].step \in {"started", "finished"}
  /\ \/ Goes(p, [passes[p] EXCEPT !.step = IF @ = "started" THEN "starting" ELSE "finishing"])
     \/ Goes(p, Idle)
  /\ UNCHANGED <<status, errors>>

EndPass(p) ==
  /\ passes[p].step = "finishing" /\ passes[p].left = {}
  /\ Goes(p, Idle)
  /\ UNCHANGED <<status, errors>>

\* A SELECT, or the UPDATE of a status, fails.
Fail(p) ==
  /\ passes[p].step \in {"starting", "finishing"} /\ errors < MaxErrors
  /\ errors' = errors + 1
  /\ Goes(p, Idle)
  /\ UNCHANGED status
-----------------------------------------------------------------------------
\* A request of an organizer, done at once.
SetStatus(t, s) ==
  /\ requests < MaxRequests
  /\ \/ status[t] # "deleted" /\ s \in STATUS_TRANSITIONS[status[t]]
     \/ status[t] # "deleted" /\ s = "deleted"
  /\ status' = [status EXCEPT ![t] = s] /\ requests' = requests + 1
  /\ UNCHANGED <<now, schedule, passes, errors, crashes>>

\* The process dies; at its start onModuleInit begins a pass.
Crash ==
  /\ crashes < MaxCrashes
  /\ crashes' = crashes + 1
  /\ passes' = [p \in Passes |-> Idle]
  /\ UNCHANGED <<now, status, schedule, requests, errors>>

Tick ==
  /\ now < MaxTime
  /\ now' = now + 1
  /\ UNCHANGED <<status, schedule, passes, requests, errors, crashes>>

Proceed(p) ==
  Start(p) \/ SelectToFinish(p) \/ Finish(p) \/ CompleteBody(p) \/ EndPass(p)

Next ==
  \/ Tick \/ Crash
  \/ \E t \in Tournaments, s \in TournamentStatus \cup {"deleted"} : SetStatus(t, s)
  \/ \E p \in Passes : BeginPass(p) \/ Proceed(p) \/ Fail(p)

Spec == Init /\ [][Next]_vars

\* The interval begins passes for ever and Node.js goes on with each of them; that the
\* rest of a body is ever done without an error is not assumed.
FairSpec == Spec /\ \A p \in Passes : WF_vars(BeginPass(p)) /\ WF_vars(Proceed(p))
-----------------------------------------------------------------------------
(* Properties *)

\* One try around all tournaments (tournaments.service.ts:130-184): however often what
\* follows the change of status fails, for whichever tournament, and whichever come
\* first, the others are not left waiting for ever.  What fails is no longer selected,
\* because its status is written first.
DueAreStarted == \A t \in Tournaments : DueToStart(t, now) ~> ~DueToStart(t, now)

\* The same for tournaments to finish, which wait for those to start as well.
DueAreFinished == \A t \in Tournaments : DueToFinish(t, now) ~> ~DueToFinish(t, now)
=============================================================================
