# Code League backend: a TLA+ verification development

This directory models the NestJS backend under `src/` in TLA+, checks the models with TLC and
proves theorems about them with TLAPS. Paths below are relative to `src/src/modules/`.

## 1. The system

Code League runs IT tournaments. An organizer creates a tournament with its schedule and rounds;
captains register teams; a timer and the organizer move the tournament from status to status;
teams submit work to the open round; jurors evaluate it. One Node.js process serves HTTP requests
and Socket.IO connections and keeps nearly all state in MySQL through TypeORM.

Three facts decide what can go wrong.

* **Every `await` is an interleaving point.** Apart from `users.deleteAccount` no handler opens a
  transaction, so each repository call is one atomic statement and handlers interleave between them.
* **What `repository.save(entity)` does.** TypeORM reloads the row by id and writes the columns in
  which it differs from the entity in memory, which may be stale. If the row is gone, it inserts it
  again. If the entity carries a loaded one-to-many relation, the rows that refer to it but are not in
  the loaded list get a NULL reference. `update(where, patch)` writes only the patch. The reload and the
  update are two statements; `TeamRepository`, where two columns of a row must stay a pair, has both of them,
  and in the other modules a save is one step. Where one column of a row is modelled, as in `UserRoles`, this
  loses nothing, since a save that finds no difference at its reload is one made at that moment. Where more
  are (`LifecycleRequests`, `Submissions`, `AccountCodes`), a write by another handler between the two may leave
  a row with columns of both, which those models do not show.
* **A broadcast follows the answer of a read, and answers are unordered.** Statements of different handlers go
  over connections of a pool, so what was read first may be told last.

`@Check` constraints are not created on MySQL by TypeORM and are not relied on; unique indexes and
foreign keys are.

### Components

| Component | State | Operations | What makes it correct |
|---|---|---|---|
| Tournaments (`tournaments/`) | `tournaments`: status, schedule, parent, jury | create, update, updateStatus, delete, advanceRound, timer pass `autoTransitionStatuses` | status follows `STATUS_TRANSITIONS`; dates stay in order; due tournaments start and finish; a start opens a round |
| Rounds (`rounds/`) | `rounds`: status, order | create, update, remove, uploadFile | at most one active round per tournament; closed rounds stay closed |
| Teams (`teams/`, `team-members/`) | `teams`, `team_members`, `chat_rooms`, `chat_room_members` | createTeam, updateTeam, deleteTeam, invitations, single members, chat membership, backfill | registration is all or nothing; sizes and limits; the chat matches the team |
| Team repositories (`teams/`, `webhooks/`) | `tournament_repositories`, `code_reviews` | upsert, verify, comment, webhook | a commit belongs to its address and branch; undisturbed rows are current |
| Submissions (`submissions/`) | `submissions` | createForRound, updateSubmission | nothing is accepted for a closed round |
| Evaluation (`evaluation/`, `jury/`) | `evaluation` | createEvaluation | one evaluation per juror and submission |
| Organizer applications (`applications/`) | `organizer_applications`, `users.role` | submit, review | whoever is approved is an organizer |
| Users, administration (`users/`, `admin/`) | `users` | profile, password codes, presence, roles, deletion | a code is good once, for a while, for few guesses; roles match juries and reviews |
| E-mail verification, auth (`email-verification/`, `auth/`) | `email_verifications`, `users.password_change_*` | register, sign in, send, resend, verify; reset | the same promise of a code; the hourly limit |
| Chat (`chat-*`) | `messages`, reactions, pins; `userConnections` in memory | connect, disconnect, send, edit, delete, react, pin | presence matches connections; clients are told what is stored; deleted messages stay deleted |
| Notifications, reviews, badges, announcements | one table each | insert, read, delete | little beyond single statements |
| Contact, AI, mail, public pages, bootstrap | none | external calls, read-only views | not a subject of this development |

### How they interact

Handlers share tables and call each other's services directly. The timer's pass, called at start-up
and every five minutes, writes the same rows as `updateStatus` and calls the same `activateFirstRound`.
A started tournament forbids team edits and is what submissions are made to. A team's chat room is
found by the name `team_<id>`: no foreign key ties it to the team, so `createTeam`, `deleteTeam`,
`findMyTeams`, the timer and tournament deletion each keep the two in step by hand. Jury assignment,
reviews of applications and administration rewrite one string, `users.role`.

### What is hard

Check-then-act on rows (an active round, a captain's team, a limit, an address); stale entities saved
after an edit or a deletion; clean-up after one of several statements failed; crashes between
statements; the timer overlapping requests; limits and dates met exactly. `PROJECT.json` lists each of
these under "hazards" at its line, with the properties that catch it or why none does.

## 2. Modules

### TournamentLifecycle

The promise: what the handlers of `TournamentsService` and `RoundsService` do when each runs to its
end before the next begins. `tournaments` is the table (status, `registration_end`, `end_date`,
parent), `rounds[t]` the statuses of a tournament's rounds in the order of every listing,
`(sort_order, start_date, id)`, and `now` the clock. There is one action for each handler, its whole
effect in it:

| Action | Code |
|---|---|
| `CreateTournament` | `create`: schedule checked, a draft round inserted into the parent |
| `UpdateTournament` | `update` with `syncRoundsAfterTournamentUpdate` |
| `UpdateStatus` | `updateStatus`, `activateFirstRound` included |
| `DeleteTournament` | `delete`, the rounds by ON DELETE CASCADE |
| `AutoStart`, `AutoFinish` | the bodies of the two loops of `autoTransitionStatuses` |
| `CreateRound`, `UpdateRound`, `RemoveRound` | `RoundsService` |
| `AdvanceNext`, `AdvancePrevious` | `advanceRound` with direction 1 and otherwise |

`ActivateFirstRound`, `NextRound` and `PreviousRound` are what these handlers make of a listing. A
round's place is a parameter wherever an edit, a creation or a date may move it: `sort_order` and
dates appear only as the order they give. Titles are left out; a refusal of the unique index on them
changes nothing, and for `CreateTournament` it is the disjunct that leaves the parent's rounds alone.

### TimerPass

`autoTransitionStatuses` over several tournaments, with what `TournamentLifecycle` cannot show because its
timer takes one tournament in one step: a pass selects the tournaments to start and takes them one by one,
then those to finish, all under one `try`, so that the first error ends the pass; the interval begins passes
whether or not the one before is over. `BeginPass` and `SelectToFinish` are the two queries, `Start` and
`Finish` the updates of the status, `CompleteBody` the rest of a body, which may fail as often as it likes,
`Fail` an error of a query or of the update itself. `SetStatus` is a request of an organizer.

### LifecycleRequests

The same handlers taken apart at their awaits, for one tournament. Each step is one statement;
`handlers[h]` holds the step a handler will take next and what it has read for it, the timer's pass
being one more handler. Rows of `rounds` have ids, titles (with the unique index), statuses and
`sort_order`. `BeginRenameTournament` is an update that gives a new name: `WriteNamed` writes the patch,
`FindDefault` looks for the default round, and `RenameRound` renames it, each a statement of its own.
`BeginRenameChild` is the update of a child, which renames the parent's round that has the child's old name.
A save writes the row as the handler holds it and inserts it again if it is gone. `Crash`
forgets the handlers and keeps the tables. Reads whose result nothing later depends on are joined to
the next statement, as the module's comments say.

**Refinement.** `Lifecycle == INSTANCE TournamentLifecycle WITH ...` maps rows to the listing of their
statuses. The rows a handler has decided on and not yet saved count as saved, so a serial step happens
at the read on which it was decided. `ImplementsLifecycle` says that the statements, run without
overlap, implement the serial specification.

### TeamRegistration

The teams of one tournament at the same grain: `createTeam` with its catch block, `updateTeam`,
`deleteTeam`, `acceptInvite`, `rejectInvite`, `addMember`, `linkMemberToUser`, `addChatMember`,
`removeChatMember` and the backfill of `findMyTeams`. `rooms` and `joined` are `chat_rooms` and
`chat_room_members`. `SaveTeam` is the save of a team with its loaded members, the detaching of other
rows included. `StatementFails` lets any statement fail, `Crash` stops the process. Team names,
messages and notifications are left out, as is the check that users have confirmed their full names.

### Submissions

`createForRound`, `updateSubmission` and `createEvaluation`, statement by statement, and the total of
`getLeaderboard`. `submissions` and `evaluations` are the tables with their unique indexes and foreign
keys. Rounds (status and `end_date`), teams, `team_members`, juries and the clock change under the
requests, one step for each handler that changes them: a round may take any status at any time, which
covers whatever `TournamentLifecycle` and `LifecycleRequests` do with it. A removal cascades.

| Action | Code |
|---|---|
| `BeginCreateForRound`, `FindTeam`, `FindMembership`, `FindExisting`, `InsertSubmission` | `createForRound` with `findOwnedTeamForRound` |
| `BeginUpdateSubmission`, `FindAccess`, `FindAccessMembership`, `SaveSubmission` | `updateSubmission` with `assertTeamAccess` and `ensureSubmissionEditable` |
| `BeginEvaluation`, `CheckJury`, `FindEvaluation`, `SaveEvaluation` | `createEvaluation` |
| `ChangeRound`, `RemoveRound`, `RemoveTeam`, `RemoveTournament`, `AddMember`, `RemoveMember`, `AddJuror`, `RemoveJuror`, `Tick` | what happens under them |

`history[h]` is a history variable: the rounds that have been open, the teams the user has been on and
the juries the user has sat on since the request came, and whether a table was written meanwhile.
It never enables or disables a step, and is what "too late" is said with. Users are told apart by
their e-mail, as the code does; a member's status is not asked for, as in the code. `DRAFT` and
`CLOSED` are left out of submissions: no service writes them. `kinds`, which never
changes, is a bound: the kinds of requests that come in a behaviour.

### OneTimeCode and AccountCodes

`OneTimeCode` is the promise of a code sent by e-mail: one is good at a time, for a while, for a number
of wrong guesses, once; a new one may be asked for after a pause and ends the old one; what it guards
changes by the good code only. `AccountCodes` is what one account goes through in
`EmailVerificationService`, `AuthService` and `UsersService`, statement by statement, and implements the
promise twice: `Mail` maps the row of `email_verifications` and `is_email_verified` to it, `Password` the
`password_change_*` columns and the password, which two services write.

| Action | Code |
|---|---|
| `BeginRegister`, `InsertUser`, `BeginLogin`, `BeginProviderLogin`, `SaveProvider` | `auth.create`, `login`, `oauthLogin` |
| `BeginResend`, `ReadRecord`, `InsertRecord`, `UpdateRecord` | `resendByPendingToken`, `issueAndSendCode` |
| `BeginVerify`, `SaveGuess`, `ReadUser`, `SaveVerified`, `DeleteRecord` | `verifyForUserId` |
| `BeginRequestCode`, `SaveIssued` | `requestPasswordChange`, `forgotPasswordRequest` |
| `BeginWrongGuess`, `SavePasswordGuess`, `BeginConfirm`, `BeginReset`, `ReadForReset`, `SavePassword` | both ways to a new password |
| `BeginSaveProfile`, `SaveProfile`, `AdminSetsPassword` | `updateMe`, `resetUserPassword` |

Rows are saved as they were read, and the code keeps no version of them: of two overlapping guesses one
is not counted, and the save of a profile puts back a code that was used meanwhile. `stale` records that
a save has overwritten something it had not read; the properties speak of behaviours before that. It is
set by comparing rows only, so everything that overlaps without overwriting is covered.

### UserRoles

`users.role` is one string that reviews of applications, jury lists, the administrator and every save of
a user's row rewrite. The module has it as the set of its names beside the tables it has to agree with,
`organizer_applications` and `tournament_jury_members`. `BeginReview`, `SaveReview`, `ReadApplicant` and
`SaveUsers` are `reviewOrganizer`; `BeginUpdate`, `ReadPrevious`, `ReadJurors`, `SaveJury`, `Grant`,
`CountAssignments` and `Strip` are `tournaments.update` with `ensureJuryRole` and
`removeJuryRoleIfNotNeeded`; `Ban`, `Unban`, `ChangeRole`, `BeginSave` and `DeleteUser` the administrator's
handlers. `unsettled` records the users of whom a stale row was saved or relied on, whose roles the
administrator set outright or of whom a handler died; `left` those who lost a list with its tournament.
The properties except these users, because the code does lose the roles of the first and leave the role to the
second; that nobody is among them while requests come one at a time is a theorem (`NobodyIsExcepted`).

### Presence

One user's sockets, the count of them in `userConnections`, the timer each last disconnection starts, the
`status` column and what `status:changed` told everybody last. `updatePresence` writes the column and reads the
row again, and its caller tells what was read: three steps, so that updates cross each other between any two of
them. `Connect`, `Refuse`, `WriteOnline`, `ReadOnline`, `TellOnline`, `RejectGone` are `handleConnection`; `Close`,
`Elapse`, `WriteOffline`, `ReadOffline`, `TellOffline`, `TimerRejects` are `handleDisconnect` and the callback of
its timer, of which the last ends the process: `updatePresence` throws when the account is gone, and nobody
handles the rejection. `WriteStatus`, `ReadStatus`, `TellStatus`, `AnswerGone` are `handleStatusUpdate`, `SaveStatus`
and `SaveRow` the requests over HTTP, which tell nobody. `Crash` and `TimerRejects` empty the memory and keep the
table. Three history variables name what the code does not keep: `raced` (a connection came while a timer wrote
`OFFLINE`, or a changed row was saved), `untold` (the status was last set by a request that tells nobody) and
`crossed` (the last update wrote when another had read and not yet told). The first is sticky, the other two are
reset by the next update that is told and not crossed.

### ChatRooms

Messages, reactions and pins in two kinds of rooms, and what clients in a room have been told. A step is one
statement, or a broadcast with what the handler read for it; other handlers may come between them in any order.
`BeginSend`, `FindRoom`, `InsertRoom`, `InsertMessage`, `ReadSent`, `TellSent`; `FindToDelete`, `Delete`,
`TellDeleted`; `FindToEdit`, `SaveEdit`, `ReadEdited`, `TellEdited`; `FindUnread`, `SaveRead`, `TellRead`;
`FindReaction`, `InsertReaction`, `RemoveReaction`, `ReadReactions`, `TellReactions`; `FindPin`, `InsertPin`,
`DeletePin` are the gateway's handlers with the services they call, `CreateRoom`, `ClearRoom` and `DeleteRoom` the
administrator's requests, which tell nobody. Clients name any message, one that is still to be sent too: a pin
then takes the room that the client names. `overwritten` records the messages an edit has put back, `unseen` those
that were asked to be pinned when they were not there, `crossedTexts` and `crossedReactions` those that were last
written between what another handler had read of them and told; a write that crosses nobody takes a message off the
last two.

### TeamRepository

A team's row of `tournament_repositories`, with GitHub as its environment: repositories, branches, pushes
and the webhooks under way, which `Misdeliver` loses, repeats or swaps. `BeginUpsert`, `FetchRepository`,
`FetchBranch`, `FindRow`, `InsertRow` are `upsertRepository` and `verifyRepository`; `Receive` is
`applyGithubWebhook`, row after row of one reading; `BeginComment` and `InsertComment` `createCodeComment`. A save
of a row that was read is `SelectRow`, which finds the columns that differ, and `UpdateRow`, which writes those.
`POST /webhooks/github` has neither guard nor signature, so `Post` lets anybody send a payload (`posted`).
`EndsWith` stands for the comparison of a ref with the end of a branch. `crossed` records the teams whose row was
changed between the two statements of its last save; `calm` that nothing has gone wrong or overlapped since all was
idle with no payload under way, and `trusted` the teams whose row, if any, was last written so.

What it shows of the code beside the properties: a webhook without a `ref` (the ping of a new webhook)
clears the commit of every row of the repository; a push to `feature/main` is taken for one to `main`; a
verification that waits for GitHub puts back an address that was replaced meanwhile, with its commit; two saves
that cross leave the address of one with the commit of the other; and the first matched row that cannot be saved
ends the loop.

### Model-checking modules

The modules `MC...` give the constants their values: sets of ids, request kinds, rosters and offers, with
symmetry and constraints where a run has them. `Presence` and `TimerPass` need none. Definitions called
`Faulty...` in the component modules are plausible slips of the definition after them. `PROJECT.json` names, for each property of a passing
run, the substitution that makes the run fail; nothing in the models uses them.

## 3. Runs

| Run | Configuration | Properties | What it shows |
|---|---|---|---|
| `lifecycle` | `MCTournamentLifecycle.cfg` | four of `TournamentLifecycle` | serial handlers: consistent rows, one active round, the status table, a start opens a round |
| `one_at_a_time` | `LifecycleOneAtATime.cfg` | `ImplementsLifecycle` | the statements of each handler add up to its serial step |
| `overlapping_starts` | `LifecycleStarts.cfg` | `AtMostOneActiveRound`, `RunningHasARound`, liveness | two status requests, a deletion, the pass and a crash in every order |
| `timer_passes` | `TimerPass.cfg` | `DueAreStarted`, `DueAreFinished` | two passes overlap over two tournaments whose bodies may fail for ever: none that is due is left waiting |
| `team_registration` | `TeamRegistration.cfg` | three of `TeamRegistration` | all team operations, with a failed statement or crash anywhere |
| `racing_registrations` | `TeamRaces.cfg` | `RegistrationIsAllOrNothing` | registrations that overlap and want the same people |
| `submissions` | `Submissions.cfg` | five of `Submissions` | two requests hand in and edit while the round closes, reopens or passes its deadline and teams change, or hand in and evaluate while juries change: none that came too late writes, nobody counts twice, only the jury moves the leaderboard |
| `codes` | `AccountCodes.cfg` | three of `AccountCodes` | two requests about one account in any order: each of its codes keeps its promise, the first hour is limited |
| `roles` | `UserRoles.cfg` | three of `UserRoles` | reviews, jury lists and the administrator, two at a time: the role string agrees with the tables, but for the exceptions of `unsettled` and `left` |
| `presence` | `Presence.cfg` | four of `Presence` | two sockets with their timers, two requests for a status, a deleted account, a crash: count, column and what is shown agree unless an update was crossed, and leaving ends as offline |
| `chat` | `ChatRooms.cfg` | five of `ChatRooms` | four events about a message, two at a time, told in any order: clients know what is stored unless it was crossed, deleted messages stay deleted |
| `repositories` | `TeamRepository.cfg` | two of `TeamRepository` | requests that wait for GitHub, pushes, webhooks that get lost, change places or are made up, saves in two statements, a deleted team |

The type invariants were checked with these runs while they were written and are proved for each module
(section 4, that of `TeamRegistration` for requests one at a time); the runs spend their time on the rest.

### Where the code departs from what it says

These configurations are kept as demonstrations; each asks for one property that a comment or message of
the code states, and TLC answers with a behaviour that breaks it.

| Configuration (module) | Property | What the behaviour shows |
|---|---|---|
| `LifecycleTwoOpenRounds.cfg` (`MCLifecycleRequests`) | `AtMostOneActiveRound` | "Only one active round is allowed per tournament" (`rounds/rounds.service.ts:170`): the check at line 155-168 and the save are separate statements and no index backs the check, so two overlapping creations leave two active rounds |
| `LifecycleStatusRace.cfg` (`MCLifecycleRequests`) | `StatusFollowsTable` | "Allowed transitions" (`tournaments/enums/TournamentStatus.enum.ts:9`): the status is written (`tournaments.service.ts:447`) whatever the row has become since it was checked, so a cancelled tournament can return to registration |
| `LifecycleNextRound.cfg` (`MCLifecycleRequests`) | `ClosedRoundsStayClosed` | "direction: 1 = next" (`tournaments.service.ts:745`): at the last round it closes that round and fails, and the next call re-activates the first round |
| `LifecycleRenamedRound.cfg` (`MCLifecycleRequests`) | `AtMostOneActiveRound` | "Only one active round is allowed per tournament" (`rounds/rounds.service.ts:170`): of two overlapping starts the unique title lets one add the default round, but an update of the tournament's name renames that round (`tournaments.service.ts:587`) before the other start adds its own |
| `TeamEdit.cfg` (`MCTeamRegistration`) | `EditedTeamHasItsSize` | "Team size must be between" (`teams/teams.service.ts:372`): `updateTeam` saves the team with the members loaded before it replaced them, and TypeORM detaches the new ones |
| `SecondApplication.cfg` (`MCUserRoles`) | `OnePendingApplication` | "You have already applied" (`applications/applications.service.ts:40`): `findOne` without an order may find an older, rejected application instead of the pending one, so that a user who waits for an answer applies again |
| `CrossedSaves.cfg` (`MCTeamRepository`) | `EveryCommitIsOfItsBranch` | "github_commit_sha" beside "github_repo_url" (`teams/teams.service.ts:586-588`): a webhook's save selects the row, the captain hands in another repository, and the save then updates the commit alone (`teams/teams.service.ts:829`) |

### Bounds

* `lifecycle`: two tournaments, one of which may be the other's child; up to two requested rounds in
  the first and the default round in the second; dates and clock 0 to 2, which gives each deadline
  before, at and after the clock. Two rounds are enough for a next, a previous and a last one.
* `TimerPass`: two tournaments, so that one may stand behind the other, in either order; two passes; a clock
  with two values, three requests, one failing statement, one crash. The rest of a body has no bound on its
  failures.
* `LifecycleRequests`: two titles, of which one is the default round's; two values of `sort_order`,
  so that listings can be reordered; three ids where two handlers may hold new rows. `Kinds` limits
  what a run sends, so that overlap is explored for the handlers its question is about.
  `overlapping_starts` begins in any state one-at-a-time requests leave a tournament that has not
  started (`PreparedInit`); the theorem `OneActiveRound` is the reason why at most one round is open.
* `TeamRegistration`: two users, two addresses and the empty one; sizes 1 to 2 and two teams as limit,
  so that each limit is met and passed; one failed statement or crash, at every place. Ids are
  re-used only when no table and no handler holds them.
* `Submissions`: two tournaments with a team each, so that a user can be captain, member or juror in the
  wrong one; one round, with two end dates and a clock that reaches both; two slots, which are
  symmetric; two statuses, since the code asks only whether a round is active; a behaviour
  has edits or evaluations, which write to different tables, beside first submissions: two changes under
  the first (a round closes and opens again, a member goes and comes back), one under the second.
  Juries change only where evaluations ask for them.
* `AccountCodes`: one account and two requests at a time; two codes and two passwords, symmetric; one
  wrong guess, one sending in an hour, a pause and a life of one unit each and an hour of two, with a clock
  up to 3, so that each limit is met at, before and after its moment. The clock stands still while a
  handler is at work: a handler is quicker than the units of these limits. `NothingOverwritten` stops a
  behaviour where `stale` becomes true, after which the properties say nothing.
* `UserRoles`: one user, since each row of `users` is rewritten by itself and lists of users are handled
  one after the other; two tournaments, so that who leaves one list may be on another; one application;
  two requests at a time. `AllSettled` stops where the properties say nothing any more.
* `Presence`: two sockets, so that a timer of an earlier connection and a connection being made can be
  there at once; two requests for a status, one at a time, which cross both; one crash. Fairness is of
  statements, timers and the five minutes.
* `ChatRooms`: two users, of whom one is an administrator, a room for all and one of a team, one message,
  two texts, four events of which two at a time. An overlap of two handlers needs the message first and
  leaves one event for the consequence. With two messages and three events the properties hold as well; that
  messages do not get in each other's way is also what the proofs, which have any number, show.
* `TeamRepository`: two teams of one captain and two repositories, so that two rows may be matched by one
  webhook or by none; a branch whose name ends like another's; two pushes, one fault, crash or posted payload
  (a ping, or one that names a commit that was never pushed), two handlers. `Apart` leaves the fault to
  behaviours without overlap, the second push to those that are `calm` and without faults, where
  `QuietRowsAreCurrent` needs it, and keeps comments apart from rows, since no handler reads both.
* The constants named "bound" in the modules are the only other limits.

`CHECK_DEADLOCK FALSE` is in every configuration because the models do stop: when the clock is at its
bound, ids are spent and no handler is at work, nothing obliges a user to send another request.

### Fairness

Nothing is assumed of users. `TimerPass!FairSpec` has weak fairness of the begin of each pass (`onModuleInit`
runs one at once and `setInterval` another every five minutes) and of its next statement; that the rest of a
body, with the first round, the chats and the notifications, is ever done without an error is not assumed.
`LifecycleRequests!Fairness` has weak fairness of each handler's next statement
(Node.js runs the continuation when the database has answered), of the pass being called and of its
second query. A crash is followed by a restart, which calls the pass again; crashes are bounded. A
database that never answers, or an error that returns on every pass, is outside these assumptions.

`Presence!Fairness` has weak fairness of every statement under way, of a timer that is due and of the five
minutes themselves. No fairness is assumed of sockets: a user may stay, leave or come back.

## 4. Proofs

`TournamentLifecycle_proofs` proves, for every set of tournaments, every bound and every clock that
satisfy `LifecycleAssumption`:

| Theorem | Statement |
|---|---|
| `TypeCorrect` | `Spec => []TypeOK` |
| `OneActiveRound` | `Spec => []AtMostOneActiveRound` |
| `RowsConsistent` | `Spec => []StoredRowsAreConsistent` |
| `StatusAlongTable` | `Spec => StatusFollowsTable`, when `AllowAnyStatus = FALSE` |
| `StartLeavesARoundOpen` | `Spec => StartOpensARound` |

The inductive invariant is `IInv == TypeOK /\ AtMostOneActiveRound /\ StoredRowsAreConsistent`. No
conjunct is inductive alone: that a listing keeps at most one active round is argued index by index,
which needs it to be a sequence of statuses (`TypeOK`); that only existing tournaments have rounds is
kept by `DeleteTournament` and by the guards of the others, and a row that does not exist must have no
rounds for a later creation to be right. Under it lie lemmas on listings: what `InsertAt`, `RemoveAt`
and `ReplaceAt` do to a sequence, that each preserves "at most one active" under the guard its handler
checks, and that `ActivateFirstRound`, `NextRound` and `PreviousRound` preserve it whatever they are
given. The step lemma has one step per action. The two action properties follow from the invariant and
a case split on `Next`; `StartLeavesARoundOpen` turns on the three cases of `ActivateFirstRound`.

`LifecycleRequests_proofs` is about the same handlers taken apart, for any clock. The first two theorems are for any
number of handlers at work at once, any number of crashes, a finite set of titles, and all requests but those about
rounds and those that rename the tournament (`NoRoundRequests`: it is created, dated, started, stopped and deleted, and
the pass runs):

| Theorem | Statement |
|---|---|
| `StartsOpenOneRound` | `PreparedSpec => []AtMostOneActiveRound` |
| `StartsLeaveARound` | `PreparedSpec => []RunningHasARound` |

Overlapping starts each read the list, decide on a row and save it later. `StartInv` says why that is harmless
here: as long as no round is open, every start that holds a row holds the same one (`FirstToOpen`: the default
round, or the first of the list), and once a round is open, what a start still holds is that round, or a default
round whose title is taken. The first save therefore opens the round, and each later one writes what is there
already or is turned away by the unique index. `RoundIsComing` says that a tournament that runs without a round
has a start on its way to add one. This needs a listing to exist and to have every row: `Listing` is a choice, so
the lemmas rank each row by the number of rows before it (`Rank`) and show that every rank is taken, which is the
pigeonhole principle and no induction.

Requests that rename may not overlap with starts, because a default round that is renamed no longer keeps the next one
out (`LifecycleRenamedRound.cfg`), nor may requests about rounds: `ensureNoOtherActiveRound` looks before it saves, so
of two creations that both found nothing open each opens its own (`LifecycleTwoOpenRounds.cfg`), and a start that holds
the first row can save it open after another request has opened a different one. One at a time they are safe, as the next theorems say.

With one handler at work at a time, a process that lives and an id left for every title (`OneAtATime`), requests of
every kind together are what the serial model says they are:

| Theorem | Statement |
|---|---|
| `RequestsImplementTheSerialModel` | `Spec => ImplementsLifecycle` |
| `OneHandlerOneRound` | `Spec => []AtMostOneActiveRound` |

In the first, the mapping counts the rows that the handler at work has decided on as saved (`SettledRounds`), and a
table as the list of its rounds' statuses in the order of the listing (`StatusList`). Two groups of lemmas carry the
proof. The first are about the mapping: a row that is added to a table, taken out of it
or moved within it is a status inserted, removed or moved (`OneMoreStatus`, `MovedStatus`, `StatusPut`), because
one row more shifts the ranks of those that it comes before by one; and what `advanceRound` and
`activateFirstRound` decide on rows is what `NextRound`, `PreviousRound` and `ActivateFirstRound` make of the list
(`RowsAdvance`, `RowsOpen`). The second are about the handler at work: `SerialInv` says that what its checks have
established still holds (`Holds`: the transition is in the table, the dates are in order, the row to open was not
open), and `SettledAs` what the table is promised to become. Each of the steps is then one request of the serial model or a
stutter: a round is created, edited or advanced when its handler decides to save it, a status changes with its
statement, and the saves that follow change nothing that was not promised.

The refinement speaks of rounds as they will be when the handler is done. `OneHandlerOneRound` is about the table
itself at every moment, between the two saves of `advanceRound` too. `OneRound` is inductive beside `SerialInv`: one
round is open at most, and a handler about to open one (`SavesOne`) has seen that no other is open, or closes that
other with the save before.

Of requests of every kind, with any number of handlers at work and any number of crashes, an id left for every row
that is stored or held (`ManyHandlers`: finitely many slots and titles, ids without end):

| Theorem | Statement |
|---|---|
| `OverlapsKeepTheTable` | `Spec => []TableIsSound` |

`TableIsSound` is the type invariant with what the database's keys promise: ids and titles of rounds stay apart, every
stored row has an id that the database gave, and no round is there without its tournament. A handler may save a copy
of a row that others have changed, renamed or removed since, and a deleted row comes back by such a save; the theorem
says that the check of the title and of the tournament at the save itself is enough for the table. `OverlapInv` is
inductive: it adds the finiteness of the table, from which listings and fresh ids exist (`RowsAreTyped`, `AnIdIsLeft`).

`Submissions_proofs` proves, for any users, teams, rounds and tournaments and any number of slots and
changes that satisfy `SubmissionsAssumption`:

| Theorem | Statement |
|---|---|
| `TypeCorrect` | `Spec => []TypeOK` |
| `EachCountsOnce` | `Spec => []OneRowEach` |
| `TeamsHandInAtHome` | `Spec => []TeamsPlayInTheirTournament` |
| `NothingIsWrittenLate` | `Spec => LateRequestsWriteNothing` |
| `StandingsAreTheJurys` | `Spec => StandingsMoveByTheJury` |
| `EditsAreExact` | `Spec => UndisturbedEditsAreExact` |

The first three follow from `IInv == TypeOK /\ Consistent /\ HeldRowsPlay`. `Consistent` has the two invariants
and that every row has its parents, as the foreign keys promise; `HeldRowsPlay` says of the rows that requests hold what
`TeamsPlayInTheirTournament` says of those in the table, because a request picks the team long before
it inserts. `TypeOK` is needed for a fresh id to be no row's. `NothingIsWrittenLate` needs `HistoryOK` besides:
what a request must have seen to be at its step (`Knows`). For an edit that is a condition, since the
deadline it read is compared only later: if it is still ahead now, it was ahead when it was read, because
the clock only runs forward. There are lemmas for what a save does to the tables, for a request that
moves and for those that do not, and one step per action under them.

The last two need that an id stands for one row, whether a table has the row or a request still holds it, also
after the table has lost it (`IdsAreUnique`, over `KnownSubmissions` and `KnownEvaluations`), and that requests go in
order (`InOrder`: what is about to be inserted has no id yet, and whoever is about to score was seen on the jury).
That a total is a sum does not matter to `StandingsAreTheJurys`: it is shown that the evaluations of a team, with
their scores, are the same before and after every step but the two the property speaks of, and equal sets have
equal sums. For `EditsAreExact`, `Stored` says that an edit nobody has disturbed holds the row as the table has it.

`AccountCodes_proofs` proves, for any number of requests, codes and passwords and every choice of limits
that satisfies `CodesAssumption`:

| Theorem | Statement |
|---|---|
| `TypesHold` | `Spec => []TypeOK` |
| `AddressCode` | `Spec => AddressTakesOneCode` |
| `PasswordsCode` | `Spec => PasswordTakesOneCode` |
| `FirstHour` | `Spec => []FirstHourIsLimited` |

`IInv == TypeOK /\ Decided /\ DeletedIsConfirmed /\ AccountExists`, the last because only registrations are
under way where there is no account. The middle two are the step simulation
behind the refinement: `Decided` says of a handler about to save that what it decided on (the pause was
over, the code good, the guess not one too many) is still so if the row is as it read it, for which the
clock must not run under a handler; `DeletedIsConfirmed` that a record is deleted only under a confirmed
address, so that the deletion is a stutter. One step per action then maps to a step of `OneTimeCode` or
to none.

`UserRoles_proofs` proves, for any users, roles, tournaments and requests:

| Theorem | Statement |
|---|---|
| `RolesTypes` | `Spec => []TypeOK` |
| `JurorsRole` | `Spec => []JurorsHaveTheRole` |
| `OnlyJurorsRole` | `Spec => []OnlyJurorsHaveTheRole` |
| `ApprovedRole` | `Spec => []ApprovedAreOrganizers` |
| `NobodyIsExcepted` | `SteadySpec => [](unsettled = {} /\ left = {} /\ ...)`, with one slot and `AssignedRoles = {}` |

`IInv == TypeOK /\ Counted /\ Settled`: the three properties (`Settled`), inductive once it is known that a
handler that is about to take the role has counted no list with a user whose row it holds (`Counted`), unless
that user is unsettled meanwhile.

The three properties except users whose rows were saved or relied on when they had changed, since the code does
lose roles then. `NobodyIsExcepted` says where no user is excepted: `SteadySpec` has one request at a time, no
deletion of users or tournaments and no handler that dies. `SteadyInv` is what makes it so: the row that the handler
at work holds is the one of the table (`HoldsCurrent`), so no save is stale, and the three properties then hold of
every user.

`TeamRepository_proofs` proves, for any teams, branches and repositories and any number of pushes, faults
and requests that satisfy `RepositoryAssumption`:

| Theorem | Statement |
|---|---|
| `RepositoryTypes` | `Spec => []TypeOK` |
| `TrueCommits` | `Spec => []CommitsAreOfTheirBranch` |
| `QuietRows` | `Spec => []QuietRowsAreCurrent` |

A commit reaches a row through what GitHub answered, through a webhook, or in a row that was read earlier, so
the invariant says the same of all of them: each row that is stored and not crossed (`RowsPushed`) or held by a
handler (`HeldRowsPushed`), each branch head (`HeadsPushed`) and each payload under way (`PayloadsPushed`) has its
address, branch and commit together in `pushed`, or was posted. This is inductive because `pushed` and `posted`
only grow: what a handler has read may be old when it is saved, but it was once true. An `UpdateRow` leaves the
row that its handler held, or crosses it: that is all that has to be known of the columns.

`QuietRows` is about rows that are new as well as true. While `calm`, every row of a trusted team, and every row about
to be saved, shows the last commit of a branch that its ref ends like, or a payload for it is under way (`Settled`);
so it does once none is. A row is trusted again by the first save after all was idle.

`ChatGateway_proofs` is about the two modules of the chat's gateway, `Presence` and `ChatRooms`. It extends both, which
is why definitions that the two would share carry the name of `Presence` in that module. Of `Presence` it proves, for
any finite set of sockets and any number of requests and crashes:

| Theorem | Statement |
|---|---|
| `PresenceTypes` | `PresenceSpec => []PresenceTypeOK` |
| `CountIsRight` | `PresenceSpec => []ConnectionsAreCounted` |
| `StaysOnline` | `PresenceSpec => []ConnectedIsNotOffline`, when `"offline" \notin Asked` |
| `TellsWhatIsStored` | `PresenceSpec => []StatusIsShown` |

The last two speak of moments at which nothing is under way. Inductive is who repairs them otherwise:
`TellIsDue` (whoever wrote the status last is about to read or to tell it, unless that write was crossed),
`GreetingIsDue` (a connected user who is offline is about to be written online) and `TimerIsRight` (a timer about
to write has seen no connection, or the history records that one came). `InOrder` says that a socket is greeted
while open and timed once closed, so that closing it cancels no announcement.

Of `ChatRooms` it proves, for any users, rooms, texts and messages and any number of handlers:

| Theorem | Statement |
|---|---|
| `ChatTypes` | `Spec => []TypeOK` |
| `ReadStaysRead` | `Spec => []ToldIsRead` |
| `PinsAreHome` | `Spec => []PinnedInItsRoom` |
| `NothingDeletedReturns` | `Spec => []DeletedStaysDeleted` |
| `ClientsShowTheTable` | `Spec => []ShownIsStored` |
| `ClientsSeeReactions` | `Spec => []ReactionsAreShown` |

`HeldBy` says what stays true of the things a handler has read: a row about to be saved by an edit is not among
the lost messages, and a message about to be saved or pinned was written in the room the handler holds for it,
unless an edit has put the message back. It is preserved by every step that is `RoomsKept`: no message that was
sent changes its room. `Fresh` (only ids that were handed out are stored, lost or read) keeps a new message
apart from all of these. Two lemmas carry the deletions, by one message, by emptying a room and by deleting it.

The last two speak of moments at which no handler is at work. Inductive is `Announced`: whatever differs between
the table and what clients show, a message, its text or its reactions, is what some handler is about to read or to
tell, unless it is among the crossed. What a handler holds to tell is what the table has, or the message is crossed.

`TeamRegistration_proofs` proves, for any users, rosters, sizes and limits and finitely many slots, when requests
are handled one at a time (`OneAtATime`: `MaxInFlight <= 1`):

| Theorem | Statement |
|---|---|
| `ChatGoesWithTheTeam` | `Spec => []ChatMatchesTeams` |
| `RegistrationTypes` | `Spec => []TypeOK` |
| `NobodyOverfillsATeam` | `Spec => []NoTeamIsOverfull` |
| `ChatIsForTheTeam` | `Spec => OnlyTheTeamJoinsItsChat` |

and, for any number of requests at once, when all of them are registrations (`OnlyRegistrations`):

| Theorem | Statement |
|---|---|
| `RegistrationsAreAllOrNothing` | `Spec => []RegistrationIsAllOrNothing` |

`IInv` says that rooms, memberships and rows belong to teams that are there, whether or not a handler is at
work, that a handler works on such a team, and how far it is when it takes one down (no memberships at
`dropRoom`, no room at `removeTeam`). `RoomsComplete` is the converse: a team without a room is that of a handler
between `insertMembers` and `addRoom` or on the way to `removeTeam`. `JInv` adds what the rows are (`RowsOK`) and
that what the handler at work has read is still so (`HoldsOK`): a list about to be inserted goes to a team that has
no member left, a row about to be saved is the one of the table with an answer to it, and there is a seat for a
member about to be added. Ids that are given out in one statement are shown to be there and to differ by counting
the free ones. `KInv` takes the place of both for overlapping registrations: each handler works on a team of its
own, and a team that no handler works on is whole.

With overlapping requests of other kinds the first four do not all hold: a team that is deleted while its
registration still adds the captain to the chat leaves that membership behind (TLC finds it with `MaxInFlight = 2`).

Only model-checked: liveness (`DueTournament...`, `DueAreStarted`, `DueAreFinished`, `LeavingEndsOffline`), which is
beyond the prover; and with it `TimerPass` as a whole.

## 5. Not modelled

Authorisation where a refused request changes nothing and nothing that changes decides it (actions are
what an authorised user may do); file uploads and directories, and the reading of files on GitHub;
notifications, and socket events outside `Presence` and `ChatRooms`; the criteria and the order of the
leaderboard; mail; texts and titles beyond the unique index. In `TeamRegistration` the deletion of the
tournament, which removes rooms the way `deleteTeam` does, is left out. `ChatRooms` leaves out the deletion
of accounts, joining and leaving of rooms, muted users and the settings of the chat; `AccountCodes` the
second and further accounts, which share no row with the first; `UserRoles` the columns beside the role.
In `TeamRepository` the links to a demo, a video and the documentation, and `repo_verified`, which is
only ever set, are left out.

`PATCH /admin/users/bulk` is declared after `PATCH /admin/users/:id` (`admin/admin.controller.ts:43-54`), which
takes the request first; `bulkAction` is modelled as the service has it.

Components of section 1 without a module are listed in `PROJECT.json` as not modelled, with the reason:
notifications, reviews, badges and announcements are rows that are inserted, read and deleted by single
statements; contact, AI, mail and public pages have no state of their own; bootstrap, guards and seeding are
configuration.

## 6. Plan

What is left, the most important first:

1. `TeamRegistration`: overlapping answers, additions and edits, and the limits under overlap.
2. A registration as one atomic step, implemented by the statements of `createTeam`.
3. `ChatRooms`: accounts that are deleted, membership of rooms, muted users.
