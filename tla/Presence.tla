------------------------------ MODULE Presence ------------------------------
(***************************************************************************)
(* Whether one user is shown as online: the sockets of the user are counted*)
(* in the memory of the server (chat.gateway.ts), the status is a column of*)
(* the users table.  An update of it writes the column, reads the row again*)
(* and tells everybody what it read; the statements of two updates go over *)
(* connections of their own, so what was read first may be told last.  The *)
(* last socket to close leaves a timer, which five minutes later writes    *)
(* OFFLINE if there is no connection then.                                 *)
(*                                                                         *)
(* The callbacks of the gateway run up to their next await; each database  *)
(* statement is a step of its own.  Statements are quicker than the timer, *)
(* so the five minutes pass when none is under way.  The process may die   *)
(* and be started again: what is in memory is lost, the table is not.      *)
(***************************************************************************)
EXTENDS Naturals, FiniteSets

CONSTANTS
  Sockets,     \* bound: the connections the user makes
  Requests,    \* bound: the requests for a status worked on at once
  Asked,       \* the statuses that users and administrators ask for; a user who asks to be
               \* offline is, connected or not
  MaxUpdates,  \* bound: how many such requests there are
  MaxCrashes   \* bound: how often the process dies by itself

ASSUME PresenceAssumption ==
  /\ IsFiniteSet(Sockets) /\ MaxUpdates \in Nat /\ MaxCrashes \in Nat
  /\ "gone" \notin Asked

VARIABLES
  socket,       \* the connections
  connections,  \* userConnections of the user, 0 if it has no entry
  greeting,     \* what handleConnection does next, for each socket
  timer,        \* what the timer started when the socket closed does next
  request,      \* what each request for a status does next
  status,       \* the column, or "gone" after the account was deleted
  shownStatus,  \* what everybody was told last
  updates,      \* how many requests there were
  crashes,      \* how often the process died
  raced,        \* history: a connection came while a timer wrote OFFLINE, or a row that
                \* had changed was saved
  untold,       \* history: the status was last set by a request that tells nobody
  crossed       \* history: the last update wrote when another had read, and not yet told

presenceVars == <<socket, connections, greeting, timer, request, status, shownStatus,
                  updates, crashes, raced, untold, crossed>>
-----------------------------------------------------------------------------
Status == {"online", "offline"} \cup Asked

To(step) == [step |-> step]

\* What updatePresence goes on to: it reads what to tell.
Update == [step : {"none", "read"}] \cup [step : {"tell"}, found : Status \cup {"gone"}]

Greeting == Update \cup [step : {"write"}]

Timeout == Update \cup [step : {"running", "due", "write"}]

Request == Update \cup [step : {"write", "save"}, status : Status]
           \cup [step : {"keep"}, found : Status]

PresenceTypeOK ==
  /\ socket \in [Sockets -> {"new", "open", "closed"}]
  /\ connections \in 0 .. Cardinality(Sockets)
  /\ greeting \in [Sockets -> Greeting]
  /\ timer \in [Sockets -> Timeout]
  /\ request \in [Requests -> Request]
  /\ status \in Status \cup {"gone"} /\ shownStatus \in Status
  /\ updates \in 0 .. MaxUpdates /\ crashes \in Nat
  /\ raced \in BOOLEAN /\ untold \in BOOLEAN /\ crossed \in BOOLEAN

PresenceInit ==
  /\ socket = [s \in Sockets |-> "new"] /\ connections = 0
  /\ greeting = [s \in Sockets |-> To("none")] /\ timer = [s \in Sockets |-> To("none")]
  /\ request = [r \in Requests |-> To("none")]
  /\ status = "offline" /\ shownStatus = "offline"
  /\ updates = 0 /\ crashes = 0
  /\ raced = FALSE /\ untold = FALSE /\ crossed = FALSE

Open == {s \in Sockets : socket[s] = "open"}

Moves(work, who, state) == work' = [work EXCEPT ![who] = state]

\* Somebody has read the status and not told it yet.
Telling ==
  \/ \E s \in Sockets : greeting[s].step = "tell" \/ timer[s].step = "tell"
  \/ \E r \in Requests : request[r].step = "tell"

\* The update of updatePresence; it finds no row when the account is gone.
Write(new) ==
  /\ status' = IF status = "gone" THEN "gone" ELSE new
  /\ untold' = IF status = "gone" THEN untold ELSE FALSE
  /\ crossed' = Telling

\* What it read, for all; it throws when it read nothing.
Tells(work, who) ==
  /\ work[who].step = "tell" /\ work[who].found # "gone"
  /\ shownStatus' = work[who].found
  /\ Moves(work, who, To("none"))
-----------------------------------------------------------------------------
(* Connections *)

\* handleConnection with a token that is good; a refused one is disconnected uncounted.
Connect(s) ==
  /\ socket[s] = "new"
  /\ Moves(socket, s, "open")
  /\ connections' = connections + 1
  /\ Moves(greeting, s, To("write"))
  /\ raced' = (raced \/ \E t \in Sockets : timer[t].step = "write")
  /\ UNCHANGED <<timer, request, status, shownStatus, updates, crashes, untold, crossed>>

Refuse(s) ==
  /\ socket[s] = "new"
  /\ Moves(socket, s, "closed")
  /\ UNCHANGED <<connections, greeting, timer, request, status, shownStatus, updates,
                 crashes, raced, untold, crossed>>

\* handleDisconnect, of a socket that was counted.  One timer is not cancelled by another
\* nor by a connection.
Disconnects(s) ==
  /\ Moves(socket, s, "closed")
  /\ connections' = IF connections = 0 THEN 0 ELSE connections - 1
  /\ IF connections' = 0 THEN Moves(timer, s, To("running")) ELSE UNCHANGED timer

\* Every socket that closes starts the timer.
FaultyClose(s) ==
  /\ socket[s] = "open"
  /\ Moves(socket, s, "closed")
  /\ connections' = 0 /\ Moves(timer, s, To("running"))
  /\ UNCHANGED <<greeting, request, status, shownStatus, updates, crashes, raced, untold, crossed>>

Close(s) ==
  /\ socket[s] = "open"
  /\ Disconnects(s)
  /\ UNCHANGED <<greeting, request, status, shownStatus, updates, crashes, raced, untold, crossed>>

\* Reads the row and then writes it.
FaultyWriteOnline(s) ==
  /\ greeting[s].step = "write"
  /\ Write("online")
  /\ Moves(greeting, s, [step |-> "tell", found |-> status])
  /\ UNCHANGED <<socket, connections, timer, request, shownStatus, updates, crashes, raced>>

WriteOnline(s) ==
  /\ greeting[s].step = "write"
  /\ Write("online")
  /\ Moves(greeting, s, To("read"))
  /\ UNCHANGED <<socket, connections, timer, request, shownStatus, updates, crashes, raced>>

ReadOnline(s) ==
  /\ greeting[s].step = "read"
  /\ Moves(greeting, s, [step |-> "tell", found |-> status])
  /\ UNCHANGED <<socket, connections, timer, request, status, shownStatus, updates, crashes,
                 raced, untold, crossed>>

TellOnline(s) ==
  /\ Tells(greeting, s)
  /\ UNCHANGED <<socket, connections, timer, request, status, updates, crashes,
                 raced, untold, crossed>>

\* Nobody is told of an account that is gone: the socket is disconnected.
RejectGone(s) ==
  /\ greeting[s].step = "tell" /\ greeting[s].found = "gone"
  /\ IF socket[s] = "open" THEN Disconnects(s) ELSE UNCHANGED <<socket, connections, timer>>
  /\ Moves(greeting, s, To("none"))
  /\ UNCHANGED <<request, status, shownStatus, updates, crashes, raced, untold, crossed>>
-----------------------------------------------------------------------------
(* The timer *)

Working ==
  \/ \E s \in Sockets : greeting[s].step # "none" \/ timer[s].step \in {"write", "read", "tell"}
  \/ \E r \in Requests : request[r].step # "none"

\* statusTimeoutMs.
FiveMinutesPass ==
  /\ \E s \in Sockets : timer[s].step = "running"
  /\ ~Working
  /\ timer' = [s \in Sockets |-> IF timer[s].step = "running" THEN To("due") ELSE timer[s]]
  /\ UNCHANGED <<socket, connections, greeting, request, status, shownStatus, updates,
                 crashes, raced, untold, crossed>>

\* Asks whether the user is connected the wrong way round.
FaultyElapse(s) ==
  /\ timer[s].step = "due"
  /\ Moves(timer, s, IF connections # 0 THEN To("write") ELSE To("none"))
  /\ UNCHANGED <<socket, connections, greeting, request, status, shownStatus, updates,
                 crashes, raced, untold, crossed>>

Elapse(s) ==
  /\ timer[s].step = "due"
  /\ Moves(timer, s, IF connections = 0 THEN To("write") ELSE To("none"))
  /\ UNCHANGED <<socket, connections, greeting, request, status, shownStatus, updates,
                 crashes, raced, untold, crossed>>

WriteOffline(s) ==
  /\ timer[s].step = "write"
  /\ Write("offline")
  /\ Moves(timer, s, To("read"))
  /\ UNCHANGED <<socket, connections, greeting, request, shownStatus, updates, crashes, raced>>

ReadOffline(s) ==
  /\ timer[s].step = "read"
  /\ Moves(timer, s, [step |-> "tell", found |-> status])
  /\ UNCHANGED <<socket, connections, greeting, request, status, shownStatus, updates, crashes,
                 raced, untold, crossed>>

TellOffline(s) ==
  /\ Tells(timer, s)
  /\ UNCHANGED <<socket, connections, greeting, request, status, updates, crashes,
                 raced, untold, crossed>>
-----------------------------------------------------------------------------
(* Requests for a status *)

BeginsRequest(r, state) ==
  /\ request[r].step = "none" /\ updates < MaxUpdates
  /\ Moves(request, r, state) /\ updates' = updates + 1
  /\ UNCHANGED <<socket, connections, greeting, timer, status, shownStatus, crashes,
                 raced, untold, crossed>>

\* The message status:update of an open socket.
BeginStatusUpdate(r) ==
  Open # {} /\ \E new \in Asked : BeginsRequest(r, [step |-> "write", status |-> new])

\* updateMyStatus, updateUser and bulkAction with a status: the row is read and saved.
BeginSaveStatus(r) ==
  status # "gone" /\ \E new \in Asked : BeginsRequest(r, [step |-> "save", status |-> new])

\* Whoever saves a row without changing its status.
BeginSaveRow(r) == status # "gone" /\ BeginsRequest(r, [step |-> "keep", found |-> status])

WriteStatus(r) ==
  /\ request[r].step = "write"
  /\ Write(request[r].status)
  /\ Moves(request, r, To("read"))
  /\ UNCHANGED <<socket, connections, greeting, timer, shownStatus, updates, crashes, raced>>

ReadStatus(r) ==
  /\ request[r].step = "read"
  /\ Moves(request, r, [step |-> "tell", found |-> status])
  /\ UNCHANGED <<socket, connections, greeting, timer, status, shownStatus, updates, crashes,
                 raced, untold, crossed>>

TellStatus(r) ==
  /\ Tells(request, r)
  /\ UNCHANGED <<socket, connections, greeting, timer, status, updates, crashes,
                 raced, untold, crossed>>

\* An exception of a message handler is answered to the sender.
AnswerGone(r) ==
  /\ request[r].step = "tell" /\ request[r].found = "gone"
  /\ Moves(request, r, To("none"))
  /\ UNCHANGED <<socket, connections, greeting, timer, status, shownStatus, updates, crashes,
                 raced, untold, crossed>>

SaveStatus(r) ==
  /\ request[r].step = "save"
  /\ status' = request[r].status
  /\ untold' = TRUE
  /\ Moves(request, r, To("none"))
  /\ UNCHANGED <<socket, connections, greeting, timer, shownStatus, updates, crashes,
                 raced, crossed>>

SaveRow(r) ==
  /\ request[r].step = "keep"
  /\ status' = request[r].found
  /\ raced' = (raced \/ status # request[r].found)
  /\ untold' = (untold \/ status # request[r].found)
  /\ Moves(request, r, To("none"))
  /\ UNCHANGED <<socket, connections, greeting, timer, shownStatus, updates, crashes, crossed>>

DeleteUser ==
  /\ status # "gone"
  /\ status' = "gone"
  /\ UNCHANGED <<socket, connections, greeting, timer, request, shownStatus, updates,
                 crashes, raced, untold, crossed>>
-----------------------------------------------------------------------------
(* The process dies *)

\* A statement that was not told of stays.
Restarts ==
  /\ socket' = [s \in Sockets |-> IF socket[s] = "open" THEN "closed" ELSE socket[s]]
  /\ connections' = 0
  /\ greeting' = [s \in Sockets |-> To("none")] /\ timer' = [s \in Sockets |-> To("none")]
  /\ request' = [r \in Requests |-> To("none")]
  /\ untold' = (untold \/ status # shownStatus)
  /\ crashes' = crashes + 1
  /\ UNCHANGED <<status, shownStatus, updates, raced, crossed>>

Crash == crashes < MaxCrashes /\ Restarts

\* updatePresence throws when there is no row, and nobody handles the rejection of the
\* timer's callback: the process ends.
TimerRejects(s) == timer[s].step = "tell" /\ timer[s].found = "gone" /\ Restarts

Greets(s) == WriteOnline(s) \/ ReadOnline(s) \/ TellOnline(s) \/ RejectGone(s)

Timer(s) ==
  Elapse(s) \/ WriteOffline(s) \/ ReadOffline(s) \/ TellOffline(s) \/ TimerRejects(s)

Serves(r) ==
  \/ WriteStatus(r) \/ ReadStatus(r) \/ TellStatus(r) \/ AnswerGone(r)
  \/ SaveStatus(r) \/ SaveRow(r)

PresenceNext ==
  \/ \E s \in Sockets : Connect(s) \/ Refuse(s) \/ Close(s) \/ Greets(s) \/ Timer(s)
  \/ \E r \in Requests : BeginStatusUpdate(r) \/ BeginSaveStatus(r) \/ BeginSaveRow(r) \/ Serves(r)
  \/ FiveMinutesPass \/ DeleteUser \/ Crash

\* Statements end, and timers go off.
Fairness ==
  /\ WF_presenceVars(FiveMinutesPass)
  /\ \A s \in Sockets : WF_presenceVars(Greets(s)) /\ WF_presenceVars(Timer(s))
  /\ \A r \in Requests : WF_presenceVars(Serves(r))

PresenceSpec == PresenceInit /\ [][PresenceNext]_presenceVars /\ Fairness
-----------------------------------------------------------------------------
(* Properties *)

\* userConnections (chat.gateway.ts:43, 85, 105) is the number of open sockets, through
\* refusals, disconnections by either side, accounts that are gone and restarts.
ConnectionsAreCounted == connections = Cardinality(Open)

\* A user who is connected is not taken for OFFLINE by a timer left from an earlier
\* connection (chat.gateway.ts:108-116), unless the connection came while OFFLINE was
\* being written.
ConnectedIsNotOffline == Open # {} /\ ~Working /\ ~raced => status # "offline"

\* status:changed is sent with the row read again (users.service.ts:455, chat.gateway.ts:88,
\* 111, 315).  Whatever updates overlap, everybody is left with what is stored unless the last
\* of them was written between another's reading and its telling; an update that crosses
\* nobody sets right what was shown before.  Others may read and save the row meanwhile,
\* and the process may die; what a request has set that tells nobody is left out.
StatusIsShown == ~Working /\ ~untold /\ ~crossed /\ status # "gone" => shownStatus = status

\* "setTimeout ... OFFLINE" (chat.gateway.ts:108): a user who has left is OFFLINE in the end,
\* unless they come back or the process dies with its timers.
LeavingEndsOffline ==
  ((\E s \in Sockets : timer[s].step = "running") /\ crashes = 0)
    ~> (status \in {"offline", "gone"} \/ Open # {} \/ crashes > 0)
=============================================================================
