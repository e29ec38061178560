---------------------- MODULE TeamRegistration_proofs ----------------------
(***************************************************************************)
(* Where requests are handled one at a time, a team and its chat come and  *)
(* go together, no team outgrows max_team_size, only the team enters its   *)
(* chat, and an invitation is answered once: for any users, rosters and    *)
(* sizes, whichever statements fail and however often the process dies.    *)
(*                                                                         *)
(* A handler that is at work is then alone (Alone), and what it holds was  *)
(* so when it began.  The chat of a team that goes is taken down before    *)
(* the team, so that at each step of the way what is left belongs to a     *)
(* team (HandlerOK); a team without a room is one that is being made or    *)
(* taken down (RoomsComplete).                                             *)
(*                                                                         *)
(* For the rest, a second invariant (JInv) adds what the rows are (RowsOK) *)
(* and that what a handler holds still fits them (HoldsOK): the list it is *)
(* about to insert goes to a team with no member left, the row it is about *)
(* to save is the one it read, and who it lets into a chat is on the team. *)
(* Ids of new rows are fresh: there are more of them than are in use.      *)
(*                                                                         *)
(* Registrations may overlap as they like: each has a team of its own      *)
(* (Apart) that is as far as its handler (AsFar), and what one writes says *)
(* nothing of another's team (Same).  A team that nobody works on is then  *)
(* whole, or there never was one.                                          *)
(***************************************************************************)
EXTENDS TeamRegistration, FiniteSetTheorems, TLAPS

\* Requests are handled one at a time.
OneAtATime == MaxInFlight <= 1 /\ IsFiniteSet(Slots)

\* The steps at which a handler works on a team that is there, and those at which the room
\* may be missing.
RoomlessSteps == {"insertMembers", "addRoom", "undoMembers", "dropJoined", "dropRoom", "removeTeam"}

TeamSteps ==
  RoomlessSteps \cup {"addCaptain", "sendInvites", "clearMembers", "insertRoster", "saveTeam",
                      "insertMember", "join", "joinMissing"}

HandlerOK(s) ==
  /\ s.step \in TeamSteps \cup {"idle", "insertTeam", "saveAnswer", "saveLink", "addMissingRoom"}
  /\ s.step = "idle" => s = Idle
  /\ s.step \in TeamSteps \cup {"insertTeam"} => {"step", "team"} \subseteq DOMAIN s
  /\ s.step \in TeamSteps => s.team \in teams
  /\ s.step \in {"addMissingRoom", "joinMissing"} => s.todo \subseteq teams
  /\ s.step \in {"saveAnswer", "saveLink"} =>
       /\ {"team", "entered", "status", "user"} \subseteq DOMAIN s.row
       /\ s.row.team \in teams \cup {NoTeam}
  /\ s.step = "saveLink" => s.row.team \in teams
  /\ s.step \in {"dropRoom", "removeTeam"} => \A j \in joined : j[1] # s.team
  /\ s.step = "removeTeam" => s.team \notin rooms

IsHandlers == handlers = [h \in Slots |-> handlers[h]]

Alone == \A g, h \in Slots : handlers[g] # Idle /\ handlers[h] # Idle => g = h

TablesOK ==
  /\ \A m \in members : /\ {"team", "entered", "status", "user"} \subseteq DOMAIN m
                        /\ m.team \in teams \cup {NoTeam}
  /\ rooms \subseteq teams
  /\ \A j \in joined : j[1] \in teams

Roomless(s, t) == s.step \in RoomlessSteps /\ s.team = t

RoomsComplete ==
  faults = 0 /\ stage # "finished" =>
    \A t \in teams : t \in rooms \/ \E h \in Slots : Roomless(handlers[h], t)

IInv ==
  /\ faults \in Nat
  /\ IsHandlers /\ Alone /\ TablesOK /\ RoomsComplete
  /\ \A h \in Slots : HandlerOK(handlers[h])
-----------------------------------------------------------------------------
(* One handler at a time *)

Solo(h) == \A g \in Slots \ {h} : handlers[g] = Idle

\* Whoever is at work is alone, and only its team may be without a room.
LEMMA AtWork ==
  ASSUME IInv, NEW h \in Slots, handlers[h].step # "idle"
  PROVE  /\ Solo(h) /\ HandlerOK(handlers[h])
         /\ faults = 0 /\ stage # "finished" =>
              \A t \in teams : t \in rooms \/ Roomless(handlers[h], t)
<1>1. handlers[h] # Idle
  BY DEF Idle
<1>2. Solo(h)
  BY <1>1 DEF IInv, Alone, Solo
<1>3. \A g \in Slots \ {h} : \A t : ~Roomless(handlers[g], t)
  BY <1>2 DEF Solo, Idle, Roomless, RoomlessSteps
<1> QED BY <1>2, <1>3 DEF IInv, RoomsComplete

\* Who begins finds nobody at work.
LEMMA AtRest ==
  ASSUME OneAtATime, Cardinality(InFlight) < MaxInFlight
  PROVE  \A g \in Slots : handlers[g] = Idle
<1>1. IsFiniteSet(InFlight)
  BY FS_Subset DEF OneAtATime, InFlight
<1>2. Cardinality(InFlight) \in Nat
  BY <1>1, FS_CardinalityType
<1>3. Cardinality(InFlight) = 0
  BY <1>2, RegistrationAssumption DEF OneAtATime
<1>4. InFlight = {}
  BY <1>1, <1>3, FS_EmptySet
<1> QED BY <1>4 DEF InFlight

LEMMA NobodyRoomless ==
  ASSUME IInv, \A g \in Slots : handlers[g] = Idle
  PROVE  faults = 0 /\ stage # "finished" => teams \subseteq rooms
BY DEF IInv, RoomsComplete, Roomless, RoomlessSteps, Idle

\* The handler goes to a step that is right for the tables as they are then.
LEMMA Moves ==
  ASSUME IsHandlers, NEW h \in Slots, Solo(h),
         NEW s, handlers' = [handlers EXCEPT ![h] = s], HandlerOK(s)', TablesOK', faults' \in Nat,
         faults' = 0 /\ stage' # "finished" => \A t \in teams' : t \in rooms' \/ Roomless(s, t)
  PROVE  IInv'
<1>1. IsHandlers' /\ \A g \in Slots : handlers'[g] = IF g = h THEN s ELSE handlers[g]
  BY DEF IsHandlers
<1>2. \A g \in Slots \ {h} : handlers'[g] = Idle
  BY <1>1 DEF Solo
<1>3. Alone'
  BY <1>2 DEF Alone
<1>4. RoomsComplete'
  <2>1. handlers'[h] = s
    BY <1>1
  <2>2. \A t : Roomless(s, t) => Roomless(handlers'[h], t)
    BY <2>1
  <2> QED BY <2>2 DEF RoomsComplete, Roomless
<1>5. ASSUME NEW g \in Slots PROVE HandlerOK(handlers[g])'
  <2>1. CASE g = h
    <3>1. handlers'[g] = s
      BY <1>1, <2>1
    <3> QED BY <3>1 DEF HandlerOK
  <2>2. CASE g # h
    <3>1. handlers'[g] = Idle
      BY <1>2, <2>2
    <3> QED BY <3>1 DEF HandlerOK, Idle, TeamSteps, RoomlessSteps
  <2> QED BY <2>1, <2>2
<1> QED BY <1>1, <1>3, <1>4, <1>5 DEF IInv

\* The step after the next, with the same record.
LEMMA ThenStep ==
  ASSUME NEW s, {"step", "team"} \subseteq DOMAIN s, NEW step
  PROVE  LET next == [s EXCEPT !.step = step] IN
         next.step = step /\ next.team = s.team /\ DOMAIN next = DOMAIN s
OBVIOUS
-----------------------------------------------------------------------------
(* Requests *)

LEMMA Beginning ==
  ASSUME IInv, OneAtATime, NEW h \in Slots, NEW kind,
         \E s : HandlerOK(s) /\ Begins(h, kind, s)
  PROVE  IInv'
<1>1. PICK s : HandlerOK(s) /\ Begins(h, kind, s)
  OBVIOUS
<1>2. UNCHANGED <<stage, tables, faults>> /\ handlers' = [handlers EXCEPT ![h] = s]
  BY <1>1 DEF Begins, Goes
<1>3. \A g \in Slots : handlers[g] = Idle
  BY <1>1, AtRest DEF Begins
<1>4. Solo(h) /\ (faults = 0 /\ stage # "finished" => teams \subseteq rooms)
  BY <1>3, NobodyRoomless DEF Solo
<1>5. HandlerOK(s)' /\ TablesOK'
  BY <1>1, <1>2 DEF HandlerOK, TablesOK, IInv, tables
<1> QED BY <1>2, <1>4, <1>5, Moves DEF IInv, tables

LEMMA BeginOnTeamInv ==
  ASSUME IInv, OneAtATime, NEW h \in Slots, NEW t \in teams,
         \/ BeginDeleteTeam(h, t) \/ BeginAdminDeleteTeam(h, t)
         \/ \E given \in BOOLEAN : \E roster : BeginUpdateTeam(h, t, given, roster)
         \/ \E email : BeginAddMember(h, t, email)
         \/ \E u : BeginAddChatMember(h, t, u)
  PROVE  IInv'
<1>1. CASE BeginDeleteTeam(h, t) \/ BeginAdminDeleteTeam(h, t)
  <2>1. HandlerOK([step |-> "dropJoined", team |-> t])
    BY DEF HandlerOK, TeamSteps, RoomlessSteps
  <2> QED BY <1>1, <2>1, Beginning DEF BeginDeleteTeam, BeginAdminDeleteTeam
<1>2. ASSUME NEW given \in BOOLEAN, NEW roster, BeginUpdateTeam(h, t, given, roster)
      PROVE  IInv'
  <2> DEFINE mine == MembersOf(t)
             was  == [u \in {m.user : m \in mine} \ {NoUser} |->
                        (CHOOSE m \in mine : m.user = u).status]
             held == [step |-> IF given THEN "clearMembers" ELSE "saveTeam", roster |-> roster,
                      team |-> t, loaded |-> {m.id : m \in mine}, was |-> was]
  <2>1. Begins(h, "updateTeam", held)
    BY <1>2 DEF BeginUpdateTeam
  <2>2. HandlerOK(held)
    BY DEF HandlerOK, TeamSteps, RoomlessSteps
  <2> HIDE DEF held
  <2> QED BY <2>1, <2>2, Beginning
<1>3. ASSUME NEW email, BeginAddMember(h, t, email) PROVE IInv'
  <2>1. HandlerOK([step |-> "insertMember", team |-> t, email |-> email])
    BY DEF HandlerOK, TeamSteps, RoomlessSteps
  <2> QED BY <1>3, <2>1, Beginning DEF BeginAddMember
<1>4. ASSUME NEW u, BeginAddChatMember(h, t, u) PROVE IInv'
  <2>1. HandlerOK([step |-> "join", team |-> t, user |-> u])
    BY DEF HandlerOK, TeamSteps, RoomlessSteps
  <2> QED BY <1>4, <2>1, Beginning DEF BeginAddChatMember
<1> QED BY <1>1, <1>2, <1>3, <1>4

LEMMA BeginOnRowInv ==
  ASSUME IInv, OneAtATime, NEW h \in Slots, NEW m \in members,
         \/ \E answer : BeginAnswer(h, m, answer)
         \/ \E u : BeginLinkMember(h, m, u)
  PROVE  IInv'
<1>1. {"team", "entered", "status", "user"} \subseteq DOMAIN m /\ m.team \in teams \cup {NoTeam}
  BY DEF IInv, TablesOK
<1>2. ASSUME NEW answer, BeginAnswer(h, m, answer) PROVE IInv'
  <2>1. HandlerOK([step |-> "saveAnswer", row |-> [m EXCEPT !.status = answer]])
    BY <1>1 DEF HandlerOK, TeamSteps, RoomlessSteps
  <2> QED BY <1>2, <2>1, Beginning DEF BeginAnswer
<1>3. ASSUME NEW u, BeginLinkMember(h, m, u) PROVE IInv'
  <2>1. m.team # NoTeam
    BY <1>3 DEF BeginLinkMember
  <2>2. HandlerOK([step |-> "saveLink", row |-> [m EXCEPT !.user = u]])
    BY <1>1, <2>1 DEF HandlerOK, TeamSteps, RoomlessSteps
  <2> QED BY <1>3, <2>2, Beginning DEF BeginLinkMember
<1> QED BY <1>2, <1>3

LEMMA BeginInv == ASSUME IInv, OneAtATime, NEW h \in Slots, Request(h) PROVE IInv'
<1>1. ASSUME NEW u, NEW roster, BeginCreateTeam(h, u, roster) PROVE IInv'
  <2>1. PICK new : Begins(h, "createTeam", [step |-> "insertTeam", roster |-> roster, team |-> new])
    BY <1>1 DEF BeginCreateTeam
  <2>2. HandlerOK([step |-> "insertTeam", roster |-> roster, team |-> new])
    BY DEF HandlerOK, TeamSteps, RoomlessSteps
  <2> QED BY <2>1, <2>2, Beginning
<1>2. ASSUME NEW u, BeginFindMyTeams(h, u) PROVE IInv'
  <2>1. TeamsOf(u) \subseteq teams
    BY DEF TeamsOf, IInv, TablesOK
  <2>2. PICK todo : todo = TeamsOf(u)
    OBVIOUS
  <2>3. HandlerOK([step |-> "addMissingRoom", todo |-> todo, user |-> u])
    BY <2>1, <2>2 DEF HandlerOK, TeamSteps, RoomlessSteps
  <2>4. Begins(h, "findMyTeams", [step |-> "addMissingRoom", todo |-> todo, user |-> u])
    BY <1>2, <2>2 DEF BeginFindMyTeams, Begins, Goes
  <2> QED BY <2>3, <2>4, Beginning
<1> QED BY <1>1, <1>2, BeginOnTeamInv, BeginOnRowInv DEF Request
-----------------------------------------------------------------------------
(* Statements *)

\* What is known of a handler at a step: it is alone, and only its team may have no room.
Works(h, s, step) ==
  /\ s = handlers[h] /\ s.step = step /\ Solo(h) /\ HandlerOK(s)
  /\ UNCHANGED <<stage, faults>>
  /\ faults = 0 /\ stage # "finished" => \A t \in teams : t \in rooms \/ Roomless(s, t)

LEMMA AtStep ==
  ASSUME IInv, NEW h \in Slots, NEW step, step # "idle", At(h, step)
  PROVE  \E s : Works(h, s, step)
<1>1. handlers[h].step = step /\ UNCHANGED <<stage, faults>>
  BY DEF At
<1>2. Works(h, handlers[h], step)
  BY <1>1, AtWork DEF Works
<1> QED BY <1>2

\* The handler goes to its next step, or is through.
LEMMA Working ==
  ASSUME IInv, NEW h \in Slots, NEW s, NEW step, Works(h, s, step),
         NEW next, handlers' = [handlers EXCEPT ![h] = next], HandlerOK(next)', TablesOK',
         faults = 0 /\ stage # "finished" => \A t \in teams' : t \in rooms' \/ Roomless(next, t)
  PROVE  IInv'
BY Moves DEF IInv, Works

LEMMA IdleOK == HandlerOK(Idle)'
BY DEF HandlerOK, Idle, TeamSteps, RoomlessSteps

\* A team that keeps its room, or a step that is none of those without one.
LEMMA RoomsStay ==
  ASSUME NEW h, NEW s, NEW step, Works(h, s, step),
         teams' = teams, rooms \subseteq rooms'
  PROVE  \A next : (\A t : Roomless(s, t) => t \in rooms' \/ Roomless(next, t)) =>
           (faults = 0 /\ stage # "finished" => \A t \in teams' : t \in rooms' \/ Roomless(next, t))
BY DEF Works

LEMMA NewRowsOK ==
  ASSUME NEW t, NEW roster, NEW status
  PROVE  \A m \in NewRows(t, roster, status) :
           {"team", "entered", "status", "user"} \subseteq DOMAIN m /\ m.team = t
BY DEF NewRows

LEMMA InsertTeamInv == ASSUME IInv, NEW h \in Slots, InsertTeam(h) PROVE IInv'
<1>1. PICK s : Works(h, s, "insertTeam")
  BY AtStep DEF InsertTeam
<1>2. s.step = "insertTeam" /\ {"step", "team"} \subseteq DOMAIN s /\ \A t : ~Roomless(s, t)
  BY <1>1 DEF Works, HandlerOK, Roomless, RoomlessSteps
<1>3. UNCHANGED <<members, rooms, joined>>
  BY DEF InsertTeam
<1>4. CASE handlers' = [handlers EXCEPT ![h] = Idle] /\ UNCHANGED teams
  <2>1. TablesOK'
    BY <1>3, <1>4 DEF IInv, TablesOK
  <2> QED BY <1>1, <1>2, <1>3, <1>4, <2>1, IdleOK, Working DEF Works
<1>5. ASSUME NEW step \in {"addRoom", "insertMembers"},
             handlers' = [handlers EXCEPT ![h] = [s EXCEPT !.step = step]],
             teams' = teams \cup {s.team}
      PROVE  IInv'
  <2> DEFINE next == [s EXCEPT !.step = step]
  <2>1. next.step = step /\ next.team = s.team /\ DOMAIN next = DOMAIN s
    BY <1>2, ThenStep
  <2>2. handlers' = [handlers EXCEPT ![h] = next]
    BY <1>5
  <2> HIDE DEF next
  <2>3. HandlerOK(next)'
    BY <1>2, <1>5, <2>1 DEF HandlerOK, TeamSteps, RoomlessSteps
  <2>4. TablesOK'
    BY <1>3, <1>5 DEF IInv, TablesOK
  <2>5. Roomless(next, s.team)
    BY <2>1 DEF Roomless, RoomlessSteps
  <2> QED BY <1>1, <1>2, <1>3, <1>5, <2>2, <2>3, <2>4, <2>5, Working DEF Works
<1> QED BY <1>1, <1>4, <1>5 DEF InsertTeam, Then, Goes, Works

LEMMA InsertMembersInv == ASSUME IInv, NEW h \in Slots, InsertMembers(h) PROVE IInv'
<1>1. PICK s : Works(h, s, "insertMembers")
  BY AtStep DEF InsertMembers
<1>2. /\ s.step = "insertMembers" /\ {"step", "team"} \subseteq DOMAIN s /\ s.team \in teams
      /\ \A t : Roomless(s, t) => t = s.team
  BY <1>1 DEF Works, HandlerOK, Roomless, TeamSteps, RoomlessSteps
<1>3. PICK step \in {"addRoom", "undoMembers"} : handlers' = [handlers EXCEPT ![h] = [s EXCEPT !.step = step]]
  BY <1>1 DEF InsertMembers, Then, Goes, Works
<1> DEFINE next == [s EXCEPT !.step = step]
<1>4. next.step = step /\ next.team = s.team /\ DOMAIN next = DOMAIN s
  BY <1>2, ThenStep
<1>5. handlers' = [handlers EXCEPT ![h] = next]
  BY <1>3
<1> HIDE DEF next
<1>6. TablesOK' /\ teams' = teams
  <2>1. members' = members \/ \E status : members' = WithRows(NewRows(s.team, s.roster, status))
    BY <1>1 DEF InsertMembers, Works
  <2>2. \A m \in members' : m \in members \/ ({"team", "entered", "status", "user"} \subseteq DOMAIN m
                                              /\ m.team = s.team)
    BY <2>1, NewRowsOK DEF WithRows
  <2> QED BY <1>2, <2>2 DEF InsertMembers, IInv, TablesOK
<1>7. HandlerOK(next)'
  BY <1>1, <1>2, <1>4, <1>6 DEF InsertMembers, Works, HandlerOK, TeamSteps, RoomlessSteps
<1>8. rooms \subseteq rooms' /\ \A t : Roomless(s, t) => t \in rooms' \/ Roomless(next, t)
  BY <1>1, <1>2, <1>4 DEF InsertMembers, Works, Roomless, RoomlessSteps
<1> QED BY <1>1, <1>5, <1>6, <1>7, <1>8, Working, RoomsStay

LEMMA AddRoomInv == ASSUME IInv, NEW h \in Slots, AddRoom(h) PROVE IInv'
<1>1. PICK s : Works(h, s, "addRoom")
  BY AtStep DEF AddRoom
<1>2. /\ s.step = "addRoom" /\ {"step", "team"} \subseteq DOMAIN s /\ s.team \in teams
      /\ \A t : Roomless(s, t) => t = s.team
  BY <1>1 DEF Works, HandlerOK, Roomless, TeamSteps, RoomlessSteps
<1>3. PICK step \in {"addCaptain"} : handlers' = [handlers EXCEPT ![h] = [s EXCEPT !.step = step]]
  BY <1>1 DEF AddRoom, Then, Goes, Works
<1> DEFINE next == [s EXCEPT !.step = step]
<1>4. next.step = step /\ next.team = s.team /\ DOMAIN next = DOMAIN s
  BY <1>2, ThenStep
<1>5. handlers' = [handlers EXCEPT ![h] = next]
  BY <1>3
<1> HIDE DEF next
<1>6. TablesOK' /\ teams' = teams
  BY <1>1, <1>2 DEF AddRoom, Works, IInv, TablesOK
<1>7. HandlerOK(next)'
  BY <1>1, <1>2, <1>4, <1>6 DEF AddRoom, Works, HandlerOK, TeamSteps, RoomlessSteps
<1>8. rooms \subseteq rooms' /\ \A t : Roomless(s, t) => t \in rooms' \/ Roomless(next, t)
  BY <1>1, <1>2, <1>4 DEF AddRoom, Works, Roomless, RoomlessSteps
<1> QED BY <1>1, <1>5, <1>6, <1>7, <1>8, Working, RoomsStay

LEMMA AddCaptainInv == ASSUME IInv, NEW h \in Slots, AddCaptain(h) PROVE IInv'
<1>1. PICK s : Works(h, s, "addCaptain")
  BY AtStep DEF AddCaptain
<1>2. /\ s.step = "addCaptain" /\ {"step", "team"} \subseteq DOMAIN s /\ s.team \in teams
      /\ \A t : Roomless(s, t) => t = s.team
  BY <1>1 DEF Works, HandlerOK, Roomless, TeamSteps, RoomlessSteps
<1>3. PICK step \in {"sendInvites"} : handlers' = [handlers EXCEPT ![h] = [s EXCEPT !.step = step]]
  BY <1>1 DEF AddCaptain, Then, Goes, Works
<1> DEFINE next == [s EXCEPT !.step = step]
<1>4. next.step = step /\ next.team = s.team /\ DOMAIN next = DOMAIN s
  BY <1>2, ThenStep
<1>5. handlers' = [handlers EXCEPT ![h] = next]
  BY <1>3
<1> HIDE DEF next
<1>6. TablesOK' /\ teams' = teams
  BY <1>1, <1>2 DEF AddCaptain, Works, IInv, TablesOK
<1>7. HandlerOK(next)'
  BY <1>1, <1>2, <1>4, <1>6 DEF AddCaptain, Works, HandlerOK, TeamSteps, RoomlessSteps
<1>8. rooms \subseteq rooms' /\ \A t : Roomless(s, t) => t \in rooms' \/ Roomless(next, t)
  BY <1>1, <1>2, <1>4 DEF AddCaptain, Works, Roomless, RoomlessSteps
<1> QED BY <1>1, <1>5, <1>6, <1>7, <1>8, Working, RoomsStay

LEMMA DeleteMembersInv == ASSUME IInv, NEW h \in Slots, DeleteMembers(h) PROVE IInv'
<1>1. PICK s : Works(h, s, "undoMembers")
  BY AtStep DEF DeleteMembers
<1>2. /\ s.step = "undoMembers" /\ {"step", "team"} \subseteq DOMAIN s /\ s.team \in teams
      /\ \A t : Roomless(s, t) => t = s.team
  BY <1>1 DEF Works, HandlerOK, Roomless, TeamSteps, RoomlessSteps
<1>3. PICK step \in {"dropJoined"} : handlers' = [handlers EXCEPT ![h] = [s EXCEPT !.step = step]]
  BY <1>1 DEF DeleteMembers, Then, Goes, Works
<1> DEFINE next == [s EXCEPT !.step = step]
<1>4. next.step = step /\ next.team = s.team /\ DOMAIN next = DOMAIN s
  BY <1>2, ThenStep
<1>5. handlers' = [handlers EXCEPT ![h] = next]
  BY <1>3
<1> HIDE DEF next
<1>6. TablesOK' /\ teams' = teams
  BY <1>1, <1>2 DEF DeleteMembers, Works, IInv, TablesOK
<1>7. HandlerOK(next)'
  BY <1>1, <1>2, <1>4, <1>6 DEF DeleteMembers, Works, HandlerOK, TeamSteps, RoomlessSteps
<1>8. rooms \subseteq rooms' /\ \A t : Roomless(s, t) => t \in rooms' \/ Roomless(next, t)
  BY <1>1, <1>2, <1>4 DEF DeleteMembers, Works, Roomless, RoomlessSteps
<1> QED BY <1>1, <1>5, <1>6, <1>7, <1>8, Working, RoomsStay

LEMMA DropJoinedInv == ASSUME IInv, NEW h \in Slots, DropJoined(h) PROVE IInv'
<1>1. PICK s : Works(h, s, "dropJoined")
  BY AtStep DEF DropJoined
<1>2. /\ s.step = "dropJoined" /\ {"step", "team"} \subseteq DOMAIN s /\ s.team \in teams
      /\ \A t : Roomless(s, t) => t = s.team
  BY <1>1 DEF Works, HandlerOK, Roomless, TeamSteps, RoomlessSteps
<1>3. PICK step \in {"dropRoom"} : handlers' = [handlers EXCEPT ![h] = [s EXCEPT !.step = step]]
  BY <1>1 DEF DropJoined, Then, Goes, Works
<1> DEFINE next == [s EXCEPT !.step = step]
<1>4. next.step = step /\ next.team = s.team /\ DOMAIN next = DOMAIN s
  BY <1>2, ThenStep
<1>5. handlers' = [handlers EXCEPT ![h] = next]
  BY <1>3
<1> HIDE DEF next
<1>6. TablesOK' /\ teams' = teams
  BY <1>1, <1>2 DEF DropJoined, Works, IInv, TablesOK
<1>7. HandlerOK(next)'
  BY <1>1, <1>2, <1>4, <1>6 DEF DropJoined, Works, HandlerOK, TeamSteps, RoomlessSteps
<1>8. rooms \subseteq rooms' /\ \A t : Roomless(s, t) => t \in rooms' \/ Roomless(next, t)
  BY <1>1, <1>2, <1>4 DEF DropJoined, Works, Roomless, RoomlessSteps
<1> QED BY <1>1, <1>5, <1>6, <1>7, <1>8, Working, RoomsStay

LEMMA DropRoomInv == ASSUME IInv, NEW h \in Slots, DropRoom(h) PROVE IInv'
<1>1. PICK s : Works(h, s, "dropRoom")
  BY AtStep DEF DropRoom
<1>2. /\ s.step = "dropRoom" /\ {"step", "team"} \subseteq DOMAIN s /\ s.team \in teams
      /\ \A t : Roomless(s, t) => t = s.team
  BY <1>1 DEF Works, HandlerOK, Roomless, TeamSteps, RoomlessSteps
<1>3. PICK step \in {"removeTeam"} : handlers' = [handlers EXCEPT ![h] = [s EXCEPT !.step = step]]
  BY <1>1 DEF DropRoom, Then, Goes, Works
<1> DEFINE next == [s EXCEPT !.step = step]
<1>4. next.step = step /\ next.team = s.team /\ DOMAIN next = DOMAIN s
  BY <1>2, ThenStep
<1>5. handlers' = [handlers EXCEPT ![h] = next]
  BY <1>3
<1> HIDE DEF next
<1>6. TablesOK' /\ teams' = teams
  BY <1>1, <1>2 DEF DropRoom, Works, IInv, TablesOK
<1>7. HandlerOK(next)'
  BY <1>1, <1>2, <1>4, <1>6 DEF DropRoom, Works, HandlerOK, TeamSteps, RoomlessSteps
<1>8. Roomless(next, s.team)
  BY <1>4 DEF Roomless, RoomlessSteps, DropRoom
<1>9. faults = 0 /\ stage # "finished" => \A t \in teams' : t \in rooms' \/ Roomless(next, t)
  BY <1>1, <1>2, <1>6, <1>8 DEF DropRoom, Works
<1> QED BY <1>1, <1>5, <1>6, <1>7, <1>9, Working

LEMMA ClearMembersInv == ASSUME IInv, NEW h \in Slots, ClearMembers(h) PROVE IInv'
<1>1. PICK s : Works(h, s, "clearMembers")
  BY AtStep DEF ClearMembers
<1>2. /\ s.step = "clearMembers" /\ {"step", "team"} \subseteq DOMAIN s /\ s.team \in teams
      /\ \A t : Roomless(s, t) => t = s.team
  BY <1>1 DEF Works, HandlerOK, Roomless, TeamSteps, RoomlessSteps
<1>3. PICK step \in {"insertRoster"} : handlers' = [handlers EXCEPT ![h] = [s EXCEPT !.step = step]]
  BY <1>1 DEF ClearMembers, Then, Goes, Works
<1> DEFINE next == [s EXCEPT !.step = step]
<1>4. next.step = step /\ next.team = s.team /\ DOMAIN next = DOMAIN s
  BY <1>2, ThenStep
<1>5. handlers' = [handlers EXCEPT ![h] = next]
  BY <1>3
<1> HIDE DEF next
<1>6. TablesOK' /\ teams' = teams
  BY <1>1, <1>2 DEF ClearMembers, Works, IInv, TablesOK
<1>7. HandlerOK(next)'
  BY <1>1, <1>2, <1>4, <1>6 DEF ClearMembers, Works, HandlerOK, TeamSteps, RoomlessSteps
<1>8. rooms \subseteq rooms' /\ \A t : Roomless(s, t) => t \in rooms' \/ Roomless(next, t)
  BY <1>1, <1>2, <1>4 DEF ClearMembers, Works, Roomless, RoomlessSteps
<1> QED BY <1>1, <1>5, <1>6, <1>7, <1>8, Working, RoomsStay

\* Steps after which a handler may be through.
LEMMA Ending ==
  ASSUME IInv, NEW h \in Slots, NEW s, NEW step, Works(h, s, step), step \notin RoomlessSteps,
         handlers' = [handlers EXCEPT ![h] = Idle], TablesOK', teams' = teams, rooms \subseteq rooms'
  PROVE  IInv'
<1>1. \A t : ~Roomless(s, t)
  BY DEF Works, Roomless
<1> QED BY <1>1, IdleOK, RoomsStay, Working

LEMMA SendInvitesInv == ASSUME IInv, NEW h \in Slots, SendInvites(h) PROVE IInv'
<1>1. PICK s : Works(h, s, "sendInvites")
  BY AtStep DEF SendInvites
<1>2. TablesOK'
  BY DEF SendInvites, tables, IInv, TablesOK
<1> QED BY <1>1, <1>2, Ending DEF SendInvites, Goes, tables, RoomlessSteps

LEMMA RemoveTeamInv == ASSUME IInv, NEW h \in Slots, RemoveTeam(h) PROVE IInv'
<1>1. PICK s : Works(h, s, "removeTeam")
  BY AtStep DEF RemoveTeam
<1>2. /\ teams' = teams \ {s.team} /\ members' = members \ MembersOf(s.team)
      /\ handlers' = [handlers EXCEPT ![h] = Idle] /\ UNCHANGED <<rooms, joined>>
  BY <1>1 DEF RemoveTeam, Goes, Works
<1>3. s.team \notin rooms /\ \A j \in joined : j[1] # s.team
  BY <1>1 DEF Works, HandlerOK
<1>4. TablesOK'
  BY <1>2, <1>3 DEF IInv, TablesOK, MembersOf
<1>5. faults = 0 /\ stage # "finished" => \A t \in teams' : t \in rooms' \/ Roomless(Idle, t)
  BY <1>1, <1>2 DEF Works, Roomless
<1> QED BY <1>1, <1>2, <1>4, <1>5, IdleOK, Working

LEMMA InsertRosterInv == ASSUME IInv, NEW h \in Slots, InsertRoster(h) PROVE IInv'
<1>1. PICK s : Works(h, s, "insertRoster")
  BY AtStep DEF InsertRoster
<1>2. {"step", "team"} \subseteq DOMAIN s /\ s.team \in teams /\ s.step = "insertRoster"
  BY <1>1 DEF Works, HandlerOK, TeamSteps
<1>3. UNCHANGED <<teams, rooms, joined>>
  BY DEF InsertRoster
<1>4. TablesOK'
  <2>1. members' = members \/ \E status : members' = WithRows(NewRows(s.team, s.roster, status))
    BY <1>1 DEF InsertRoster, Works
  <2>2. \A m \in members' : m \in members \/ ({"team", "entered", "status", "user"} \subseteq DOMAIN m
                                              /\ m.team = s.team)
    BY <2>1, NewRowsOK DEF WithRows
  <2> QED BY <1>2, <1>3, <2>2 DEF IInv, TablesOK
<1>5. CASE handlers' = [handlers EXCEPT ![h] = Idle]
  BY <1>1, <1>3, <1>4, <1>5, Ending DEF RoomlessSteps
<1>6. CASE handlers' = [handlers EXCEPT ![h] = [s EXCEPT !.step = "saveTeam"]]
  <2> DEFINE next == [s EXCEPT !.step = "saveTeam"]
  <2>1. next.step = "saveTeam" /\ next.team = s.team /\ DOMAIN next = DOMAIN s
    BY <1>2, ThenStep
  <2>2. handlers' = [handlers EXCEPT ![h] = next]
    BY <1>6
  <2> HIDE DEF next
  <2>3. HandlerOK(next)'
    BY <1>2, <1>3, <2>1 DEF HandlerOK, TeamSteps, RoomlessSteps
  <2>4. \A t : ~Roomless(s, t)
    BY <1>2 DEF Roomless, RoomlessSteps
  <2> QED BY <1>1, <1>3, <1>4, <2>2, <2>3, <2>4, RoomsStay, Working
<1> QED BY <1>1, <1>5, <1>6 DEF InsertRoster, Then, Goes, Works

\* A save of a team moves rows to it and from it.
LEMMA SaveEditedTeamInv == ASSUME IInv, NEW h \in Slots, SaveEditedTeam(h) PROVE IInv'
<1>1. PICK s : Works(h, s, "saveTeam")
  BY AtStep DEF SaveEditedTeam
<1>2. s.team \in teams
  BY <1>1 DEF Works, HandlerOK, TeamSteps
<1>3. UNCHANGED <<rooms, joined>> /\ handlers' = [handlers EXCEPT ![h] = Idle]
  BY DEF SaveEditedTeam, Goes
<1>4. /\ teams' = teams
      /\ \A m \in members' : m \in members \/ \E n \in members : \E t \in {s.team, NoTeam} :
                                                m = [n EXCEPT !.team = t]
  <2>1. CASE UNCHANGED <<teams, members>>
    BY <2>1
  <2>2. CASE SaveTeam(s.team, s.loaded)
    BY <1>2, <2>2 DEF SaveTeam
  <2> QED BY <1>1, <2>1, <2>2 DEF SaveEditedTeam, Works
<1>5. TablesOK'
  <2>1. ASSUME NEW n \in members, NEW t \in {s.team, NoTeam}
        PROVE  LET m == [n EXCEPT !.team = t] IN
               {"team", "entered", "status", "user"} \subseteq DOMAIN m /\ m.team \in teams \cup {NoTeam}
    BY <1>2 DEF IInv, TablesOK
  <2>2. \A m \in members' : {"team", "entered", "status", "user"} \subseteq DOMAIN m
                           /\ m.team \in teams \cup {NoTeam}
    BY <1>4, <2>1 DEF IInv, TablesOK
  <2> QED BY <1>3, <1>4, <2>2 DEF IInv, TablesOK
<1> QED BY <1>1, <1>3, <1>4, <1>5, Ending DEF RoomlessSteps

\* Who saves a row lets its user join the chat of a team that is there.
LEMMA Joining ==
  ASSUME IInv, NEW h \in Slots, NEW s, NEW step, Works(h, s, step), step \notin RoomlessSteps,
         NEW t \in teams, NEW u,
         handlers' = [handlers EXCEPT ![h] = [step |-> "join", team |-> t, user |-> u]],
         TablesOK', UNCHANGED <<teams, rooms, joined>>
  PROVE  IInv'
<1>1. HandlerOK([step |-> "join", team |-> t, user |-> u])'
  BY DEF HandlerOK, TeamSteps, RoomlessSteps
<1>2. \A q : ~Roomless(s, q)
  BY DEF Works, Roomless
<1> QED BY <1>1, <1>2, RoomsStay, Working

LEMMA SaveAnswerInv == ASSUME IInv, NEW h \in Slots, SaveAnswer(h) PROVE IInv'
<1>1. PICK s : Works(h, s, "saveAnswer")
  BY AtStep DEF SaveAnswer
<1>2. {"team", "entered", "status", "user"} \subseteq DOMAIN s.row /\ s.row.team \in teams \cup {NoTeam}
  BY <1>1 DEF Works, HandlerOK
<1>3. UNCHANGED <<teams, rooms, joined>>
  BY DEF SaveAnswer
<1>4. PICK entered : LET row == [s.row EXCEPT !.entered = entered] IN
         /\ members' = IF CanSave({row}) THEN WithRows({row}) ELSE members
         /\ handlers' = [handlers EXCEPT ![h] =
              IF CanSave({row}) /\ row.status = "accepted" /\ row.team # NoTeam
              THEN [step |-> "join", team |-> row.team, user |-> row.user] ELSE Idle]
  BY <1>1 DEF SaveAnswer, Goes, Works
<1> DEFINE row == [s.row EXCEPT !.entered = entered]
<1>5. row.team = s.row.team /\ DOMAIN row = DOMAIN s.row
  BY <1>2
<1>6. TablesOK'
  <2>1. \A m \in members' : m \in members \/ m = row
    BY <1>4 DEF WithRows
  <2> HIDE DEF row
  <2> QED BY <1>2, <1>3, <1>5, <2>1 DEF IInv, TablesOK
<1>7. CASE handlers' = [handlers EXCEPT ![h] = Idle]
  BY <1>1, <1>3, <1>6, <1>7, Ending DEF RoomlessSteps
<1>8. ASSUME row.team # NoTeam,
             handlers' = [handlers EXCEPT ![h] = [step |-> "join", team |-> row.team, user |-> row.user]]
      PROVE  IInv'
  <2>1. row.team \in teams
    BY <1>2, <1>5, <1>8
  <2> QED BY <1>1, <1>3, <1>6, <1>8, <2>1, Joining DEF RoomlessSteps
<1> QED BY <1>4, <1>7, <1>8

LEMMA JoinInv == ASSUME IInv, NEW h \in Slots, Join(h) PROVE IInv'
<1>1. PICK s : Works(h, s, "join")
  BY AtStep DEF Join
<1>2. s.team \in teams
  BY <1>1 DEF Works, HandlerOK, TeamSteps
<1>3. TablesOK'
  BY <1>1, <1>2 DEF Join, Works, IInv, TablesOK
<1> QED BY <1>1, <1>3, Ending DEF Join, Goes, RoomlessSteps

LEMMA InsertMemberInv == ASSUME IInv, NEW h \in Slots, InsertMember(h) PROVE IInv'
<1>1. PICK s : Works(h, s, "insertMember")
  BY AtStep DEF InsertMember
<1>2. s.team \in teams
  BY <1>1 DEF Works, HandlerOK, TeamSteps
<1>3. UNCHANGED <<teams, rooms, joined>> /\ handlers' = [handlers EXCEPT ![h] = Idle]
  BY DEF InsertMember, Goes
<1>4. members' = members \/ \E roster, status : members' = WithRows(NewRows(s.team, roster, status))
  BY <1>1 DEF InsertMember, Works
<1>5. \A m \in members' : m \in members \/ ({"team", "entered", "status", "user"} \subseteq DOMAIN m
                                            /\ m.team = s.team)
  BY <1>4, NewRowsOK DEF WithRows
<1>6. TablesOK'
  BY <1>2, <1>3, <1>5 DEF IInv, TablesOK
<1> QED BY <1>1, <1>3, <1>6, Ending DEF RoomlessSteps

LEMMA SaveLinkInv == ASSUME IInv, NEW h \in Slots, SaveLink(h) PROVE IInv'
<1>1. PICK s : Works(h, s, "saveLink")
  BY AtStep DEF SaveLink
<1>2. {"team", "entered", "status", "user"} \subseteq DOMAIN s.row /\ s.row.team \in teams
  BY <1>1 DEF Works, HandlerOK
<1>3. /\ UNCHANGED <<teams, rooms, joined>>
      /\ handlers' = [handlers EXCEPT ![h] = [step |-> "join", team |-> s.row.team, user |-> s.row.user]]
  BY <1>1 DEF SaveLink, Goes, Works
<1>4. PICK row : /\ members' = WithRows({row})
                 /\ {"team", "entered", "status", "user"} \subseteq DOMAIN row
                 /\ row.team \in teams \cup {NoTeam}
  <2> DEFINE team == UNION {{m.team} : m \in {n \in members : n.id = s.row.id}}
             row  == IF team = {} THEN [s.row EXCEPT !.team = NoTeam, !.entered = FALSE]
                     ELSE [s.row EXCEPT !.team = CHOOSE t \in team : TRUE]
  <2>1. members' = WithRows({row})
    BY <1>1 DEF SaveLink, Works
  <2>2. team \subseteq teams \cup {NoTeam}
    BY DEF IInv, TablesOK
  <2>3. team # {} => (CHOOSE t \in team : TRUE) \in teams \cup {NoTeam}
    BY <2>2
  <2>4. row.team \in teams \cup {NoTeam} /\ DOMAIN row = DOMAIN s.row
    BY <1>2, <2>3
  <2> QED BY <1>2, <2>1, <2>4
<1>5. TablesOK'
  BY <1>3, <1>4 DEF WithRows, IInv, TablesOK
<1> QED BY <1>1, <1>2, <1>3, <1>5, Joining DEF RoomlessSteps

LEMMA AddMissingRoomInv == ASSUME IInv, NEW h \in Slots, AddMissingRoom(h) PROVE IInv'
<1>1. PICK s : Works(h, s, "addMissingRoom")
  BY AtStep DEF AddMissingRoom
<1>2. PICK t \in s.todo :
         /\ rooms' = rooms \cup {t}
         /\ handlers' = [handlers EXCEPT ![h] =
              [step |-> "joinMissing", team |-> t, user |-> s.user, todo |-> s.todo \ {t}]]
  BY <1>1 DEF AddMissingRoom, Goes, Works
<1>3. s.todo \subseteq teams /\ t \in teams
  BY <1>1 DEF Works, HandlerOK
<1>4. UNCHANGED <<teams, members, joined>>
  BY DEF AddMissingRoom
<1>5. TablesOK'
  BY <1>2, <1>3, <1>4 DEF IInv, TablesOK
<1>6. HandlerOK([step |-> "joinMissing", team |-> t, user |-> s.user, todo |-> s.todo \ {t}])'
  BY <1>3, <1>4 DEF HandlerOK, TeamSteps, RoomlessSteps
<1>7. \A q : ~Roomless(s, q)
  BY <1>1 DEF Works, Roomless, RoomlessSteps
<1> QED BY <1>1, <1>2, <1>4, <1>5, <1>6, <1>7, RoomsStay, Working

LEMMA JoinMissingInv == ASSUME IInv, NEW h \in Slots, JoinMissing(h) PROVE IInv'
<1>1. PICK s : Works(h, s, "joinMissing")
  BY AtStep DEF JoinMissing
<1>2. s.team \in teams /\ s.todo \subseteq teams
  BY <1>1 DEF Works, HandlerOK, TeamSteps
<1>3. UNCHANGED <<teams, members, rooms>>
  BY DEF JoinMissing
<1>4. TablesOK'
  BY <1>1, <1>2 DEF JoinMissing, Works, IInv, TablesOK
<1>5. CASE handlers' = [handlers EXCEPT ![h] = Idle]
  BY <1>1, <1>3, <1>4, <1>5, Ending DEF RoomlessSteps
<1>6. CASE handlers' = [handlers EXCEPT ![h] =
             [step |-> "addMissingRoom", todo |-> s.todo, user |-> s.user]]
  <2>1. HandlerOK([step |-> "addMissingRoom", todo |-> s.todo, user |-> s.user])'
    BY <1>2, <1>3 DEF HandlerOK, TeamSteps, RoomlessSteps
  <2>2. \A q : ~Roomless(s, q)
    BY <1>1 DEF Works, Roomless, RoomlessSteps
  <2> QED BY <1>1, <1>3, <1>4, <1>6, <2>1, <2>2, RoomsStay, Working
<1> QED BY <1>1, <1>5, <1>6 DEF JoinMissing, Goes, Works
-----------------------------------------------------------------------------
(* The tournament, and what goes wrong *)

\* A step that leaves handlers and teams, and takes no more than rooms and memberships.
LEMMA HandlersStay ==
  ASSUME IInv, UNCHANGED <<teams, members, handlers, faults>>,
         rooms' \subseteq rooms, joined' \subseteq joined,
         stage' = "finished" \/ (rooms' = rooms /\ (stage' # "finished" => stage # "finished"))
  PROVE  IInv'
<1>1. IsHandlers' /\ Alone' /\ TablesOK' /\ faults' \in Nat
  BY DEF IInv, IsHandlers, Alone, TablesOK
<1>2. RoomsComplete'
  BY DEF IInv, RoomsComplete, Roomless
<1>3. \A h \in Slots : HandlerOK(handlers[h])'
  BY DEF IInv, HandlerOK
<1> QED BY <1>1, <1>2, <1>3 DEF IInv

LEMMA FinishInv == ASSUME IInv, FinishTournament PROVE IInv'
BY HandlersStay DEF FinishTournament

LEMMA StartInv == ASSUME IInv, StartTournament PROVE IInv'
BY HandlersStay DEF StartTournament, tables

LEMMA RemoveChatMemberInv == ASSUME IInv, NEW t, NEW u, RemoveChatMember(t, u) PROVE IInv'
BY HandlersStay DEF RemoveChatMember

\* After a failure nothing is asked of rooms any more.
LEMMA StatementFailsInv == ASSUME IInv, NEW h \in Slots, StatementFails(h) PROVE IInv'
<1>1. UNCHANGED <<stage, tables>> /\ faults' \in Nat /\ faults' # 0 /\ handlers[h] # Idle
  BY DEF StatementFails, IInv
<1>2. PICK s : s = handlers[h]
  OBVIOUS
<1>3. s.step # "idle"
  BY <1>1, <1>2 DEF IInv, HandlerOK
<1>4. Solo(h) /\ HandlerOK(s)
  BY <1>2, <1>3, AtWork
<1>5. TablesOK'
  BY <1>1 DEF IInv, TablesOK, tables
<1>6. CASE handlers' = [handlers EXCEPT ![h] = Idle]
  BY <1>1, <1>4, <1>5, <1>6, IdleOK, Moves DEF IInv
<1>7. CASE /\ s.step \in {"insertMembers", "addRoom", "addCaptain", "sendInvites"}
           /\ handlers' = [handlers EXCEPT ![h] = [s EXCEPT !.step = "undoMembers"]]
  <2>1. {"step", "team"} \subseteq DOMAIN s /\ s.team \in teams
    BY <1>4, <1>7 DEF HandlerOK, TeamSteps, RoomlessSteps
  <2> DEFINE next == [s EXCEPT !.step = "undoMembers"]
  <2>2. next.step = "undoMembers" /\ next.team = s.team /\ DOMAIN next = DOMAIN s
    BY <2>1, ThenStep
  <2>3. handlers' = [handlers EXCEPT ![h] = next]
    BY <1>7
  <2> HIDE DEF next
  <2>4. HandlerOK(next)'
    BY <1>1, <2>1, <2>2 DEF HandlerOK, TeamSteps, RoomlessSteps, tables
  <2> QED BY <1>1, <1>4, <1>5, <2>3, <2>4, Moves DEF IInv
<1> QED BY <1>2, <1>6, <1>7 DEF StatementFails, Then, Goes

LEMMA CrashInv == ASSUME IInv, Crash PROVE IInv'
<1>1. /\ UNCHANGED <<stage, tables>> /\ faults' \in Nat /\ faults' # 0
      /\ handlers' = [h \in Slots |-> Idle]
  BY DEF Crash, IInv
<1>2. IsHandlers' /\ Alone' /\ TablesOK' /\ RoomsComplete'
  BY <1>1 DEF IInv, IsHandlers, Alone, TablesOK, RoomsComplete, tables
<1>3. \A h \in Slots : HandlerOK(handlers[h])'
  BY <1>1 DEF HandlerOK, Idle, TeamSteps, RoomlessSteps
<1> QED BY <1>1, <1>2, <1>3 DEF IInv
-----------------------------------------------------------------------------
(* The initial states, and every step *)

LEMMA InitInv == Init => IInv
<1> SUFFICES ASSUME Init PROVE IInv
  OBVIOUS
<1>1. faults \in Nat /\ IsHandlers /\ Alone /\ TablesOK /\ RoomsComplete
  BY DEF Init, IsHandlers, Alone, TablesOK, RoomsComplete
<1>2. \A h \in Slots : HandlerOK(handlers[h])
  BY DEF Init, HandlerOK, Idle, TeamSteps, RoomlessSteps
<1> QED BY <1>1, <1>2 DEF IInv

LEMMA StatementInv == ASSUME IInv, NEW h \in Slots, Statement(h) PROVE IInv'
<1>1. CASE InsertTeam(h) \/ InsertMembers(h) \/ AddRoom(h) \/ AddCaptain(h) \/ SendInvites(h)
  BY <1>1, InsertTeamInv, InsertMembersInv, AddRoomInv, AddCaptainInv, SendInvitesInv
<1>2. CASE DeleteMembers(h) \/ DropJoined(h) \/ DropRoom(h) \/ RemoveTeam(h)
  BY <1>2, DeleteMembersInv, DropJoinedInv, DropRoomInv, RemoveTeamInv
<1>3. CASE ClearMembers(h) \/ InsertRoster(h) \/ SaveEditedTeam(h)
  BY <1>3, ClearMembersInv, InsertRosterInv, SaveEditedTeamInv
<1>4. CASE SaveAnswer(h) \/ Join(h) \/ InsertMember(h) \/ SaveLink(h)
  BY <1>4, SaveAnswerInv, JoinInv, InsertMemberInv, SaveLinkInv
<1>5. CASE AddMissingRoom(h) \/ JoinMissing(h)
  BY <1>5, AddMissingRoomInv, JoinMissingInv
<1> QED BY <1>1, <1>2, <1>3, <1>4, <1>5 DEF Statement

LEMMA NextInv == OneAtATime /\ IInv /\ [Next]_vars => IInv'
<1> SUFFICES ASSUME OneAtATime, IInv, [Next]_vars PROVE IInv'
  OBVIOUS
<1>1. CASE UNCHANGED vars
  BY <1>1, HandlersStay DEF vars, tables
<1>2. ASSUME NEW h \in Slots, Request(h) PROVE IInv'
  BY <1>2, BeginInv
<1>3. ASSUME NEW h \in Slots, Statement(h) \/ StatementFails(h) PROVE IInv'
  BY <1>3, StatementInv, StatementFailsInv
<1>4. CASE StartTournament \/ FinishTournament \/ Crash
  BY <1>4, StartInv, FinishInv, CrashInv
<1> QED BY <1>1, <1>2, <1>3, <1>4, RemoveChatMemberInv DEF Next
-----------------------------------------------------------------------------
(* What is in the tables *)

\* A list of members as a request gives it.
RosterOK(roster) ==
  /\ roster \subseteq [email : Emails \cup {NoEmail}, user : Users \cup {NoUser}]
  /\ IsFiniteSet(roster) /\ Cardinality(roster) <= MaxSize

\* The user is the team's captain or on its list.
OnTeam(t, u) ==
  \/ t \in teams /\ CaptainOf(t) = u
  \/ \E m \in members : m.team = t /\ m.user = u

OneRowEach == \A m, n \in members : m.id = n.id => m = n

RowsOK ==
  /\ teams \subseteq TeamId /\ IsFiniteSet(teams)
  /\ members \subseteq Member /\ IsFiniteSet(members) /\ OneRowEach
  /\ joined \subseteq RoomMember
  /\ NoTeamIsOverfull

\* What a handler holds fits the tables: nobody else has written since it was read.
ListHolds(s) ==
  /\ s.step \in {"insertTeam", "insertMembers", "clearMembers", "insertRoster"} =>
       "roster" \in DOMAIN s /\ RosterOK(s.roster)
  /\ s.step = "insertTeam" => s.team \in TeamId \ teams
  /\ s.step \in {"insertMembers", "insertRoster"} => MembersOf(s.team) = {}
  /\ s.step \in {"clearMembers", "insertRoster"} =>
       "was" \in DOMAIN s /\ \A u \in DOMAIN s.was : s.was[u] \in Answer
  /\ s.step \in {"clearMembers", "insertRoster", "saveTeam"} => "loaded" \in DOMAIN s
  /\ "loaded" \in DOMAIN s => IsFiniteSet(s.loaded) /\ Cardinality(s.loaded) <= MaxSize
  /\ s.step = "insertMember" => s.email \in Emails /\ Cardinality(MembersOf(s.team)) < MaxSize

AnswerHolds(s) ==
  s.step = "saveAnswer" =>
    \E m \in members, answer \in {"accepted", "rejected"} :
      m.user # NoUser /\ m.status = "pending" /\ s.row = [m EXCEPT !.status = answer]

LinkHolds(s) ==
  s.step = "saveLink" => \E m \in members, u \in Users : m.team # NoTeam /\ s.row = [m EXCEPT !.user = u]

ChatHolds(s) ==
  /\ s.step \in {"join", "joinMissing"} => s.user \in Users /\ OnTeam(s.team, s.user)
  /\ s.step \in {"addMissingRoom", "joinMissing"} =>
       s.user \in Users /\ \A t \in s.todo : OnTeam(t, s.user)

HoldsOK(s) == ListHolds(s) /\ AnswerHolds(s) /\ LinkHolds(s) /\ ChatHolds(s)

JInv ==
  /\ stage \in Stage /\ faults \in 0 .. MaxFaults
  /\ RowsOK
  /\ \A h \in Slots : HoldsOK(handlers[h])

\* What a step may do to the chats (OnlyTheTeamJoinsItsChat).
JoinsOK ==
  \A j \in joined' \ joined :
    \/ j[1] \in teams' /\ CaptainOf(j[1]) = j[2]
    \/ \E m \in members' : m.team = j[1] /\ m.user = j[2]

StepOK == JInv' /\ JoinsOK

\* A function's range is no larger than its domain.
LEMMA ImageSize ==
  ASSUME NEW S, IsFiniteSet(S), NEW f, DOMAIN f = S
  PROVE  IsFiniteSet({f[x] : x \in S}) /\ Cardinality({f[x] : x \in S}) <= Cardinality(S)
<1> DEFINE T == {f[x] : x \in S}
           g == [x \in S |-> f[x]]
<1>1. g \in [S -> T] /\ \A y \in T : \E x \in S : g[x] = y
  OBVIOUS
<1>2. g \in Surjection(S, T)
  BY <1>1 DEF Surjection
<1> HIDE DEF g, T
<1>3. IsFiniteSet(T) /\ Cardinality(T) <= Cardinality(S)
  BY <1>2, FS_Surjection
<1> QED BY <1>3 DEF T

\* There are more ids than can be in use.
LEMMA UnusedIsFree ==
  ASSUME NEW key, NEW used, IsFiniteSet(used)
  PROVE  Unused(key, used) \in {key} \X (Nat \ {0}) /\ Unused(key, used) \notin used
<1>1. PICK c \in Nat : c = Cardinality(used)
  BY FS_CardinalityType
<1>2. \E n \in 1 .. c + 1 : <<key, n>> \notin used
  <2> SUFFICES ASSUME \A n \in 1 .. c + 1 : <<key, n>> \in used PROVE FALSE
    OBVIOUS
  <2> DEFINE f == [n \in 1 .. c + 1 |-> <<key, n>>]
  <2>1. f \in [1 .. c + 1 -> used]
    OBVIOUS
  <2>2. IsFiniteSet(1 .. c + 1) /\ Cardinality(1 .. c + 1) = c + 1
    BY FS_Interval
  <2> HIDE DEF f
  <2>3. Cardinality(used) < Cardinality(1 .. c + 1)
    BY <1>1, <2>2
  <2>4. \E x, y \in 1 .. c + 1 : x # y /\ f[x] = f[y]
    BY <2>1, <2>2, <2>3, FS_PigeonHole
  <2> QED BY <2>4 DEF f
<1>3. \E i \in {key} \X (1 .. c + 1) : i \notin used
  BY <1>2
<1>4. Unused(key, used) \in {key} \X (1 .. c + 1) /\ Unused(key, used) \notin used
  BY <1>1, <1>3 DEF Unused
<1> QED BY <1>4

\* The handler goes to a step at which what it holds fits the tables.
LEMMA JMoves ==
  ASSUME IInv, JInv, NEW h \in Slots, Solo(h), NEW s, handlers' = [handlers EXCEPT ![h] = s],
         RowsOK', HoldsOK(s)', stage' \in Stage, faults' \in 0 .. MaxFaults
  PROVE  JInv'
<1>1. \A g \in Slots : handlers'[g] = IF g = h THEN s ELSE Idle
  BY DEF IInv, IsHandlers, Solo
<1>2. ASSUME NEW g \in Slots PROVE HoldsOK(handlers[g])'
  <2>1. CASE g = h
    <3>1. handlers'[g] = s
      BY <1>1, <2>1
    <3>2. ListHolds(handlers[g])'
      BY <3>1 DEF HoldsOK, ListHolds
    <3>3. AnswerHolds(handlers[g])'
      BY <3>1 DEF HoldsOK, AnswerHolds
    <3>4. LinkHolds(handlers[g])' /\ ChatHolds(handlers[g])'
      BY <3>1 DEF HoldsOK, LinkHolds, ChatHolds
    <3> QED BY <3>2, <3>3, <3>4 DEF HoldsOK
  <2>2. CASE g # h
    <3>1. handlers'[g] = Idle
      BY <1>1, <2>2
    <3> QED BY <3>1 DEF HoldsOK, ListHolds, AnswerHolds, LinkHolds, ChatHolds, Idle
  <2> QED BY <2>1, <2>2
<1> QED BY <1>2 DEF JInv

LEMMA IdleHolds == HoldsOK(Idle) /\ HoldsOK(Idle)'
BY DEF HoldsOK, ListHolds, AnswerHolds, LinkHolds, ChatHolds, Idle

\* A step that takes rows away, or leaves them.
LEMMA FewerRows ==
  ASSUME RowsOK, teams' \subseteq teams, members' \subseteq members, joined' \subseteq joined
  PROVE  RowsOK' /\ JoinsOK
<1>1. IsFiniteSet(teams') /\ IsFiniteSet(members')
  BY FS_Subset DEF RowsOK
<1>2. ASSUME NEW t \in teams' PROVE Cardinality(MembersOf(t)') <= MaxSize
  <2>1. MembersOf(t)' \subseteq MembersOf(t) /\ MembersOf(t) \subseteq members
    BY DEF MembersOf
  <2>2. IsFiniteSet(MembersOf(t)) /\ IsFiniteSet(MembersOf(t)')
    BY <2>1, FS_Subset DEF RowsOK
  <2>3. Cardinality(MembersOf(t)') <= Cardinality(MembersOf(t))
    BY <2>1, <2>2, FS_Subset
  <2>4. Cardinality(MembersOf(t)) \in Nat /\ Cardinality(MembersOf(t)') \in Nat
    BY <2>2, FS_CardinalityType
  <2> QED BY <2>3, <2>4, RegistrationAssumption DEF RowsOK, NoTeamIsOverfull
<1>3. NoTeamIsOverfull'
  BY <1>2 DEF NoTeamIsOverfull
<1>4. OneRowEach'
  BY DEF RowsOK, OneRowEach
<1> QED BY <1>1, <1>3, <1>4 DEF RowsOK, JoinsOK, OneRowEach

\* What fits the tables goes on to as long as rows stay.
LEMMA HoldsStay ==
  ASSUME UNCHANGED <<teams, members>>, NEW s, HoldsOK(s)
  PROVE  HoldsOK(s)'
<1>1. \A t : MembersOf(t)' = MembersOf(t) /\ \A u : OnTeam(t, u)' <=> OnTeam(t, u)
  BY DEF MembersOf, OnTeam
<1>2. ListHolds(s)'
  BY <1>1 DEF HoldsOK, ListHolds
<1>3. AnswerHolds(s)' /\ LinkHolds(s)'
  BY DEF HoldsOK, AnswerHolds, LinkHolds
<1>4. ChatHolds(s)'
  BY <1>1 DEF HoldsOK, ChatHolds
<1> QED BY <1>2, <1>3, <1>4 DEF HoldsOK
-----------------------------------------------------------------------------
(* Requests read what they hold *)

LEMMA JBeginning ==
  ASSUME IInv, JInv, OneAtATime, NEW h \in Slots, NEW kind,
         \E s : HoldsOK(s) /\ Begins(h, kind, s)
  PROVE  StepOK
<1>1. PICK s : HoldsOK(s) /\ Begins(h, kind, s)
  OBVIOUS
<1>2. UNCHANGED <<stage, tables, faults>> /\ handlers' = [handlers EXCEPT ![h] = s]
  BY <1>1 DEF Begins, Goes
<1>3. Solo(h)
  BY <1>1, AtRest DEF Begins, Solo
<1>4. RowsOK' /\ JoinsOK
  BY <1>2, FewerRows DEF JInv, tables
<1>5. HoldsOK(s)'
  BY <1>1, <1>2, HoldsStay DEF tables
<1> QED BY <1>2, <1>3, <1>4, <1>5, JMoves DEF JInv, StepOK

LEMMA JBeginOnTeam ==
  ASSUME IInv, JInv, OneAtATime, NEW h \in Slots, NEW t \in teams,
         \/ BeginDeleteTeam(h, t) \/ BeginAdminDeleteTeam(h, t)
         \/ \E roster \in Rosters : BeginUpdateTeam(h, t, TRUE, roster)
         \/ BeginUpdateTeam(h, t, FALSE, {})
         \/ \E email \in Emails : BeginAddMember(h, t, email)
         \/ \E u \in Users : BeginAddChatMember(h, t, u)
  PROVE  StepOK
<1>1. CASE BeginDeleteTeam(h, t) \/ BeginAdminDeleteTeam(h, t)
  <2>1. HoldsOK([step |-> "dropJoined", team |-> t])
    BY DEF HoldsOK, ListHolds, AnswerHolds, LinkHolds, ChatHolds
  <2> QED BY <1>1, <2>1, JBeginning DEF BeginDeleteTeam, BeginAdminDeleteTeam
<1>2. ASSUME NEW given \in BOOLEAN, NEW roster, BeginUpdateTeam(h, t, given, roster),
             given => roster \in Rosters
      PROVE  StepOK
  <2>1. PICK mine : mine = MembersOf(t)
    OBVIOUS
  <2>2. mine \subseteq members /\ IsFiniteSet(mine) /\ Cardinality(mine) <= MaxSize
    BY <2>1, FS_Subset DEF JInv, RowsOK, MembersOf, NoTeamIsOverfull
  <2> DEFINE was  == [u \in {m.user : m \in mine} \ {NoUser} |->
                        (CHOOSE m \in mine : m.user = u).status]
             ids  == {m.id : m \in mine}
             held == [step |-> IF given THEN "clearMembers" ELSE "saveTeam", roster |-> roster,
                      team |-> t, loaded |-> ids, was |-> was]
  <2>3. Begins(h, "updateTeam", held)
    BY <1>2, <2>1 DEF BeginUpdateTeam
  <2>4. IsFiniteSet(ids) /\ Cardinality(ids) <= MaxSize
    <3> DEFINE f == [m \in mine |-> m.id]
    <3>1. ids = {f[m] : m \in mine} /\ DOMAIN f = mine
      OBVIOUS
    <3> HIDE DEF f
    <3>2. IsFiniteSet(ids) /\ Cardinality(ids) <= Cardinality(mine)
      BY <2>2, <3>1, ImageSize
    <3>3. Cardinality(mine) \in Nat /\ Cardinality(ids) \in Nat
      BY <2>2, <3>2, FS_CardinalityType
    <3> QED BY <2>2, <3>2, <3>3, RegistrationAssumption
  <2>5. ASSUME NEW u \in DOMAIN was PROVE was[u] \in Answer
    <3>1. \E m \in mine : m.user = u
      OBVIOUS
    <3>2. (CHOOSE m \in mine : m.user = u) \in mine
      BY <3>1
    <3> QED BY <2>2, <3>2 DEF JInv, RowsOK, Member
  <2>6. given => RosterOK(roster)
    BY <1>2, RegistrationAssumption, FS_CardinalityType DEF BeginUpdateTeam, SizeOK, RosterOK
  <2>7. /\ held.step = IF given THEN "clearMembers" ELSE "saveTeam"
        /\ held.roster = roster /\ held.loaded = ids /\ held.was = was
        /\ DOMAIN held = {"step", "roster", "team", "loaded", "was"}
    OBVIOUS
  <2> HIDE DEF held, was, ids
  <2>8. HoldsOK(held)
    BY <2>4, <2>5, <2>6, <2>7 DEF HoldsOK, ListHolds, AnswerHolds, LinkHolds, ChatHolds
  <2> QED BY <2>3, <2>8, JBeginning
<1>3. ASSUME NEW email \in Emails, BeginAddMember(h, t, email) PROVE StepOK
  <2>1. HoldsOK([step |-> "insertMember", team |-> t, email |-> email])
    BY <1>3 DEF HoldsOK, ListHolds, AnswerHolds, LinkHolds, ChatHolds, BeginAddMember
  <2> QED BY <1>3, <2>1, JBeginning DEF BeginAddMember
<1>4. ASSUME NEW u \in Users, BeginAddChatMember(h, t, u) PROVE StepOK
  <2>1. OnTeam(t, u)
    BY <1>4 DEF BeginAddChatMember, OnTeam, MembersOf
  <2>2. HoldsOK([step |-> "join", team |-> t, user |-> u])
    BY <2>1 DEF HoldsOK, ListHolds, AnswerHolds, LinkHolds, ChatHolds
  <2> QED BY <1>4, <2>2, JBeginning DEF BeginAddChatMember
<1> QED BY <1>1, <1>2, <1>3, <1>4

LEMMA JBegin == ASSUME IInv, JInv, OneAtATime, NEW h \in Slots, Request(h) PROVE StepOK
<1>1. ASSUME NEW u \in Users, NEW roster \in Rosters \cup {{}}, BeginCreateTeam(h, u, roster)
      PROVE  StepOK
  <2>1. PICK new : new = Unused(u, UsedTeams)
    OBVIOUS
  <2>2. \A g \in Slots : handlers[g] = Idle
    BY <1>1, AtRest DEF BeginCreateTeam, Begins
  <2>3. UsedTeams = teams \cup rooms \cup {j[1] : j \in joined}
    <3>1. Holding("team") = {} /\ Holding("todo") = {}
      BY <2>2 DEF Holding, Idle
    <3> QED BY <3>1 DEF UsedTeams
  <2>4. UsedTeams = teams
    BY <2>3 DEF IInv, TablesOK
  <2>5. new \in TeamId \ teams
    BY <2>1, <2>4, UnusedIsFree DEF JInv, RowsOK, TeamId
  <2>6. RosterOK(roster)
    <3>1. CASE roster = {}
      BY <3>1, FS_EmptySet, RegistrationAssumption DEF RosterOK
    <3>2. CASE roster # {}
      BY <1>1, <3>2, RegistrationAssumption, FS_CardinalityType DEF RosterOK, BeginCreateTeam, SizeOK
    <3> QED BY <3>1, <3>2
  <2>7. HoldsOK([step |-> "insertTeam", roster |-> roster, team |-> new])
    BY <2>5, <2>6 DEF HoldsOK, ListHolds, AnswerHolds, LinkHolds, ChatHolds
  <2> QED BY <1>1, <2>1, <2>7, JBeginning DEF BeginCreateTeam
<1>2. ASSUME NEW m \in members, NEW answer \in {"accepted", "rejected"}, BeginAnswer(h, m, answer)
      PROVE  StepOK
  <2>1. PICK s : s = [step |-> "saveAnswer", row |-> [m EXCEPT !.status = answer]]
    OBVIOUS
  <2>2. s.step = "saveAnswer" /\ s.row = [m EXCEPT !.status = answer] /\ DOMAIN s = {"step", "row"}
    BY <2>1
  <2>3. HoldsOK(s)
    BY <1>2, <2>2 DEF HoldsOK, ListHolds, AnswerHolds, LinkHolds, ChatHolds, BeginAnswer
  <2> QED BY <1>2, <2>1, <2>3, JBeginning DEF BeginAnswer
<1>3. ASSUME NEW m \in members, NEW u \in Linked, BeginLinkMember(h, m, u) PROVE StepOK
  <2>1. PICK s : s = [step |-> "saveLink", row |-> [m EXCEPT !.user = u]]
    OBVIOUS
  <2>2. s.step = "saveLink" /\ s.row = [m EXCEPT !.user = u] /\ DOMAIN s = {"step", "row"}
    BY <2>1
  <2>3. HoldsOK(s)
    BY <1>3, <2>2, RegistrationAssumption DEF HoldsOK, ListHolds, AnswerHolds, LinkHolds, ChatHolds, BeginLinkMember
  <2> QED BY <1>3, <2>1, <2>3, JBeginning DEF BeginLinkMember
<1>4. ASSUME NEW u \in Users, BeginFindMyTeams(h, u) PROVE StepOK
  <2>1. PICK todo : todo = TeamsOf(u)
    OBVIOUS
  <2>2. \A t \in todo : OnTeam(t, u)
    BY <2>1 DEF TeamsOf, OnTeam
  <2>3. HoldsOK([step |-> "addMissingRoom", todo |-> todo, user |-> u])
    BY <2>2 DEF HoldsOK, ListHolds, AnswerHolds, LinkHolds, ChatHolds
  <2>4. Begins(h, "findMyTeams", [step |-> "addMissingRoom", todo |-> todo, user |-> u])
    BY <1>4, <2>1 DEF BeginFindMyTeams
  <2> QED BY <2>3, <2>4, JBeginning
<1> QED BY <1>1, <1>2, <1>3, <1>4, JBeginOnTeam DEF Request
-----------------------------------------------------------------------------
(* Statements keep the rows in order *)

\* The steps of a handler that holds only a team, and perhaps a list it no longer needs.
PlainSteps == {"addRoom", "addCaptain", "sendInvites", "undoMembers", "dropJoined", "dropRoom", "removeTeam"}

LEMMA ThenHolds ==
  ASSUME NEW s, HoldsOK(s), {"step", "team"} \subseteq DOMAIN s, NEW step \in PlainSteps
  PROVE  HoldsOK([s EXCEPT !.step = step])'
<1> DEFINE next == [s EXCEPT !.step = step]
<1>1. /\ next.step = step /\ DOMAIN next = DOMAIN s
      /\ "loaded" \in DOMAIN s => next.loaded = s.loaded
  OBVIOUS
<1> HIDE DEF next
<1>2. HoldsOK(next)'
  BY <1>1 DEF HoldsOK, ListHolds, AnswerHolds, LinkHolds, ChatHolds, PlainSteps
<1> QED BY <1>2 DEF next

\* What is left to show of a statement.
LEMMA JWorks ==
  ASSUME IInv, JInv, NEW h \in Slots, NEW s, NEW step, Works(h, s, step),
         NEW next, handlers' = [handlers EXCEPT ![h] = next], HoldsOK(next)',
         RowsOK', JoinsOK
  PROVE  StepOK
BY JMoves DEF Works, JInv, StepOK

LEMMA JPlain ==
  ASSUME IInv, JInv, NEW h \in Slots, NEW s, NEW step, Works(h, s, step),
         {"step", "team"} \subseteq DOMAIN s,
         \/ handlers' = [handlers EXCEPT ![h] = Idle]
         \/ \E next \in PlainSteps : handlers' = [handlers EXCEPT ![h] = [s EXCEPT !.step = next]],
         RowsOK', JoinsOK
  PROVE  StepOK
<1>1. HoldsOK(s)
  BY DEF Works, JInv
<1>2. CASE handlers' = [handlers EXCEPT ![h] = Idle]
  BY <1>2, IdleHolds, JWorks
<1>3. ASSUME NEW next \in PlainSteps, handlers' = [handlers EXCEPT ![h] = [s EXCEPT !.step = next]]
      PROVE  StepOK
  <2>1. PICK n : n = [s EXCEPT !.step = next]
    OBVIOUS
  <2>2. HoldsOK(n)'
    BY <1>1, <2>1, ThenHolds
  <2> QED BY <1>3, <2>1, <2>2, JWorks
<1> QED BY <1>2, <1>3

\* Rooms, the chat and what is removed.
LEMMA JRemoving ==
  ASSUME IInv, JInv, NEW h \in Slots,
         \/ AddRoom(h) \/ SendInvites(h) \/ DeleteMembers(h) \/ DropJoined(h) \/ DropRoom(h)
         \/ RemoveTeam(h)
  PROVE  StepOK
<1>1. PICK step \in PlainSteps : At(h, step) /\ step # "addCaptain"
  BY DEF AddRoom, SendInvites, DeleteMembers, DropJoined, DropRoom, RemoveTeam, PlainSteps
<1>2. PICK s : Works(h, s, step)
  BY <1>1, AtStep DEF PlainSteps
<1>3. s = handlers[h] /\ {"step", "team"} \subseteq DOMAIN s
  BY <1>2 DEF Works, HandlerOK, PlainSteps, TeamSteps, RoomlessSteps
<1>4. \/ handlers' = [handlers EXCEPT ![h] = Idle]
      \/ \E next \in PlainSteps : handlers' = [handlers EXCEPT ![h] = [s EXCEPT !.step = next]]
  BY <1>3 DEF AddRoom, SendInvites, DeleteMembers, DropJoined, DropRoom, RemoveTeam, Goes, Then, PlainSteps
<1>5. teams' \subseteq teams /\ members' \subseteq members /\ joined' \subseteq joined
  BY DEF AddRoom, SendInvites, DeleteMembers, DropJoined, DropRoom, RemoveTeam, tables
<1> QED BY <1>2, <1>3, <1>4, <1>5, FewerRows, JPlain DEF JInv

\* Somebody who is on the team joins its chat.
LEMMA Enters ==
  ASSUME IInv, RowsOK, NEW t \in teams, NEW u \in Users, OnTeam(t, u),
         joined' = joined \cup {<<t, u>>}, UNCHANGED <<teams, members>>
  PROVE  RowsOK' /\ JoinsOK
<1>1. JoinsOK
  BY DEF JoinsOK, OnTeam
<1>2. joined' \subseteq RoomMember
  BY DEF RowsOK, RoomMember
<1>3. NoTeamIsOverfull' /\ OneRowEach'
  BY DEF RowsOK, NoTeamIsOverfull, MembersOf, OneRowEach
<1> QED BY <1>1, <1>2, <1>3 DEF RowsOK

LEMMA JEntering ==
  ASSUME IInv, JInv, NEW h \in Slots, AddCaptain(h) \/ Join(h) \/ JoinMissing(h)
  PROVE  StepOK
<1>1. CASE AddCaptain(h)
  <2>1. PICK s : Works(h, s, "addCaptain")
    BY <1>1, AtStep DEF AddCaptain
  <2>2. s = handlers[h] /\ {"step", "team"} \subseteq DOMAIN s /\ s.team \in teams
    BY <2>1 DEF Works, HandlerOK, TeamSteps
  <2>3. CaptainOf(s.team) \in Users /\ OnTeam(s.team, CaptainOf(s.team))
    BY <2>2 DEF JInv, RowsOK, TeamId, CaptainOf, OnTeam
  <2>4. RowsOK' /\ JoinsOK
    BY <1>1, <2>2, <2>3, Enters DEF AddCaptain, JInv
  <2> QED BY <1>1, <2>1, <2>2, <2>4, JPlain DEF AddCaptain, Then, Goes, PlainSteps
<1>2. CASE Join(h)
  <2>1. PICK s : Works(h, s, "join")
    BY <1>2, AtStep DEF Join
  <2>2. /\ s = handlers[h] /\ {"step", "team"} \subseteq DOMAIN s /\ s.team \in teams
        /\ s.user \in Users /\ OnTeam(s.team, s.user)
    BY <2>1 DEF Works, HandlerOK, TeamSteps, JInv, HoldsOK, ChatHolds
  <2>3. RowsOK' /\ JoinsOK
    BY <1>2, <2>2, Enters DEF Join, JInv
  <2> QED BY <1>2, <2>1, <2>2, <2>3, JPlain DEF Join, Goes
<1>3. CASE JoinMissing(h)
  <2>1. PICK s : Works(h, s, "joinMissing")
    BY <1>3, AtStep DEF JoinMissing
  <2>2. /\ s = handlers[h] /\ {"step", "team"} \subseteq DOMAIN s /\ s.team \in teams
        /\ s.user \in Users /\ OnTeam(s.team, s.user) /\ \A t \in s.todo : OnTeam(t, s.user)
    BY <2>1 DEF Works, HandlerOK, TeamSteps, JInv, HoldsOK, ChatHolds
  <2>3. RowsOK' /\ JoinsOK
    BY <1>3, <2>2, Enters DEF JoinMissing, JInv
  <2>4. PICK next : /\ handlers' = [handlers EXCEPT ![h] = next]
                    /\ next = (IF s.todo = {} THEN Idle
                               ELSE [step |-> "addMissingRoom", todo |-> s.todo, user |-> s.user])
    BY <1>3, <2>2 DEF JoinMissing, Goes
  <2>5. HoldsOK(next)
    <3>1. HoldsOK([step |-> "addMissingRoom", todo |-> s.todo, user |-> s.user])
      BY <2>2 DEF HoldsOK, ListHolds, AnswerHolds, LinkHolds, ChatHolds
    <3> QED BY <2>4, <3>1, IdleHolds
  <2>6. HoldsOK(next)'
    BY <1>3, <2>5, HoldsStay DEF JoinMissing
  <2> QED BY <2>1, <2>3, <2>4, <2>6, JWorks
<1> QED BY <1>1, <1>2, <1>3

LEMMA JAddMissingRoom == ASSUME IInv, JInv, NEW h \in Slots, AddMissingRoom(h) PROVE StepOK
<1>1. PICK s : Works(h, s, "addMissingRoom")
  BY AtStep DEF AddMissingRoom
<1>2. s = handlers[h] /\ s.user \in Users /\ \A t \in s.todo : OnTeam(t, s.user)
  BY <1>1 DEF Works, JInv, HoldsOK, ChatHolds
<1>3. PICK t \in s.todo :
        handlers' = [handlers EXCEPT ![h] = [step |-> "joinMissing", team |-> t, user |-> s.user,
                                             todo |-> s.todo \ {t}]]
  BY <1>2 DEF AddMissingRoom, Goes
<1>4. PICK next : next = [step |-> "joinMissing", team |-> t, user |-> s.user, todo |-> s.todo \ {t}]
  OBVIOUS
<1>5. HoldsOK(next)
  BY <1>2, <1>4 DEF HoldsOK, ListHolds, AnswerHolds, LinkHolds, ChatHolds
<1>6. HoldsOK(next)'
  BY <1>5, HoldsStay DEF AddMissingRoom
<1>7. RowsOK' /\ JoinsOK
  BY FewerRows DEF AddMissingRoom, JInv
<1> QED BY <1>1, <1>3, <1>4, <1>6, <1>7, JWorks

LEMMA JInsertTeam == ASSUME IInv, JInv, NEW h \in Slots, InsertTeam(h) PROVE StepOK
<1>1. PICK s : Works(h, s, "insertTeam")
  BY AtStep DEF InsertTeam
<1>2. /\ s = handlers[h] /\ {"step", "team", "roster"} \subseteq DOMAIN s /\ HoldsOK(s)
      /\ s.team \in TeamId \ teams /\ RosterOK(s.roster)
  BY <1>1 DEF Works, HandlerOK, JInv, HoldsOK, ListHolds
<1>3. UNCHANGED <<members, rooms, joined>>
  BY DEF InsertTeam
<1>4. CASE handlers' = [handlers EXCEPT ![h] = Idle] /\ UNCHANGED teams
  BY <1>1, <1>2, <1>3, <1>4, FewerRows, JPlain DEF JInv
<1>5. ASSUME NEW step \in {"addRoom", "insertMembers"},
             handlers' = [handlers EXCEPT ![h] = [s EXCEPT !.step = step]],
             teams' = teams \cup {s.team}
      PROVE  StepOK
  <2>1. MembersOf(s.team) = {}
    <3>1. s.team # NoTeam
      BY <1>2, RegistrationAssumption DEF TeamId
    <3> QED BY <1>2, <3>1 DEF MembersOf, IInv, TablesOK
  <2>2. IsFiniteSet(teams') /\ teams' \subseteq TeamId
    BY <1>2, <1>5, FS_AddElement DEF JInv, RowsOK
  <2>3. NoTeamIsOverfull'
    <3>1. ASSUME NEW t \in teams' PROVE Cardinality(MembersOf(t)) <= MaxSize
      <4>1. CASE t \in teams
        BY <4>1 DEF JInv, RowsOK, NoTeamIsOverfull
      <4>2. CASE t = s.team
        BY <2>1, <4>2, FS_EmptySet, RegistrationAssumption
      <4> QED BY <1>5, <4>1, <4>2
    <3> QED BY <1>3, <3>1 DEF NoTeamIsOverfull, MembersOf
  <2>4. RowsOK' /\ JoinsOK
    BY <1>3, <2>2, <2>3 DEF JInv, RowsOK, OneRowEach, JoinsOK
  <2>5. PICK next : next = [s EXCEPT !.step = step]
    OBVIOUS
  <2>6. /\ next.step = step /\ next.team = s.team /\ next.roster = s.roster /\ DOMAIN next = DOMAIN s
        /\ "loaded" \in DOMAIN s => next.loaded = s.loaded
    BY <1>2, <2>5
  <2>7. MembersOf(next.team)' = {}
    BY <1>3, <2>1, <2>6 DEF MembersOf
  <2>8. HoldsOK(next)'
    BY <1>2, <2>6, <2>7 DEF HoldsOK, ListHolds, AnswerHolds, LinkHolds, ChatHolds, RosterOK
  <2> QED BY <1>1, <1>5, <2>4, <2>5, <2>8, JWorks
<1> QED BY <1>2, <1>4, <1>5 DEF InsertTeam, Then, Goes

\* While one handler is at work, finitely many ids are in use.
LEMMA UsedIsFinite ==
  ASSUME IInv, JInv, NEW h \in Slots, Solo(h)
  PROVE  IsFiniteSet(UsedMembers)
<1> DEFINE ids  == {m.id : m \in members}
           held == {s.row.id : s \in Holding("row")}
           once == UNION {s.loaded : s \in Holding("loaded")}
<1>1. IsFiniteSet(ids)
  <2> DEFINE f == [m \in members |-> m.id]
  <2>1. ids = {f[m] : m \in members} /\ DOMAIN f = members
    OBVIOUS
  <2> HIDE DEF f
  <2> QED BY <2>1, ImageSize DEF JInv, RowsOK
<1>2. \A g \in Slots \ {h} : handlers[g] = Idle
  BY DEF Solo
<1>3. \A field \in {"row", "loaded"} : Holding(field) \subseteq {handlers[h]}
  BY <1>2 DEF Holding, Idle
<1>4. IsFiniteSet(held)
  <2>1. held \subseteq {handlers[h].row.id}
    BY <1>3
  <2>2. IsFiniteSet({handlers[h].row.id})
    BY FS_Singleton
  <2> HIDE DEF held
  <2> QED BY <2>1, <2>2, FS_Subset
<1>5. IsFiniteSet(once)
  <2>1. CASE Holding("loaded") = {}
    <3>1. once = {}
      BY <2>1
    <3> QED BY <3>1, FS_EmptySet
  <2>2. CASE Holding("loaded") # {}
    <3>1. "loaded" \in DOMAIN handlers[h] /\ Holding("loaded") = {handlers[h]}
      BY <1>2, <1>3, <2>2 DEF Holding, Idle
    <3>2. once = handlers[h].loaded
      BY <3>1
    <3>3. IsFiniteSet(handlers[h].loaded)
      BY <3>1 DEF JInv, HoldsOK, ListHolds
    <3> QED BY <3>2, <3>3
  <2> QED BY <2>1, <2>2
<1> HIDE DEF ids, held, once
<1>6. IsFiniteSet(ids \cup held \cup once)
  BY <1>1, <1>4, <1>5, FS_Union
<1> QED BY <1>6 DEF UsedMembers, ids, held, once

\* The rows of a list belong to the team, and their ids to none but them.
LEMMA NewRowsAre ==
  ASSUME IInv, JInv, NEW h \in Slots, Solo(h), NEW t \in teams,
         NEW roster, roster \subseteq [email : Emails \cup {NoEmail}, user : Users \cup {NoUser}],
         IsFiniteSet(roster), NEW status, \A e \in roster : status[e] \in Answer,
         NEW rows, rows = NewRows(t, roster, status)
  PROVE  /\ IsFiniteSet(rows) /\ Cardinality(rows) <= Cardinality(roster)
         /\ \A r \in rows : /\ r \in Member /\ r.team = t /\ r.entered /\ r.id[1] = r.email
                            /\ \A m \in members : m.id # r.id
<1>1. IsFiniteSet(UsedMembers)
  BY UsedIsFinite
<1> DEFINE f == [e \in roster |-> [id |-> Unused(e.email, UsedMembers), team |-> t, email |-> e.email,
                                   user |-> e.user, status |-> status[e], entered |-> TRUE]]
<1>2. rows = {f[e] : e \in roster} /\ DOMAIN f = roster
  BY DEF NewRows
<1>3. ASSUME NEW e \in roster
      PROVE  /\ f[e] \in Member /\ f[e].team = t /\ f[e].entered /\ f[e].id[1] = f[e].email
             /\ \A m \in members : m.id # f[e].id
  <2>1. PICK i : i = Unused(e.email, UsedMembers)
    OBVIOUS
  <2>2. i \in {e.email} \X (Nat \ {0}) /\ i \notin UsedMembers
    BY <1>1, <2>1, UnusedIsFree
  <2>3. i \in MemberId /\ i[1] = e.email /\ t \in TeamId
    BY <2>2 DEF MemberId, JInv, RowsOK
  <2>4. f[e] = [id |-> i, team |-> t, email |-> e.email, user |-> e.user, status |-> status[e],
                entered |-> TRUE]
    BY <2>1
  <2>5. \A m \in members : m.id # i
    BY <2>2 DEF UsedMembers
  <2> HIDE DEF f
  <2> QED BY <2>3, <2>4, <2>5 DEF Member
<1> HIDE DEF f
<1> QED BY <1>2, <1>3, ImageSize

\* A team takes in rows it has room for.
LEMMA InsertRows ==
  ASSUME IInv, JInv, NEW t \in teams, NEW rows, IsFiniteSet(rows),
         \A r \in rows : /\ r \in Member /\ r.team = t /\ r.entered /\ r.id[1] = r.email
                         /\ \A m \in members : m.id # r.id,
         CanSave(rows), Cardinality(MembersOf(t)) + Cardinality(rows) <= MaxSize,
         members' = WithRows(rows), UNCHANGED <<teams, joined>>
  PROVE  RowsOK' /\ JoinsOK
<1>1. members' = members \cup rows
  BY DEF WithRows
<1>2. IsFiniteSet(members') /\ members' \subseteq Member
  BY <1>1, FS_Union DEF JInv, RowsOK
<1>3. OneRowEach'
  <2>1. ASSUME NEW m \in rows, NEW n \in rows, m.id = n.id PROVE m = n
    <3>1. m.email = n.email /\ m.entered /\ n.entered
      BY <2>1
    <3>2. n \in WithRows(rows)
      BY DEF WithRows
    <3> QED BY <3>1, <3>2 DEF CanSave
  <2> QED BY <1>1, <2>1 DEF JInv, RowsOK, OneRowEach
<1>4. NoTeamIsOverfull'
  <2>1. MembersOf(t)' = MembersOf(t) \cup rows /\ \A u : u # t => MembersOf(u)' = MembersOf(u)
    BY <1>1 DEF MembersOf
  <2>2. IsFiniteSet(MembersOf(t))
    BY FS_Subset DEF MembersOf, JInv, RowsOK
  <2>3. /\ Cardinality(MembersOf(t) \cup rows) = Cardinality(MembersOf(t)) + Cardinality(rows)
                                                   - Cardinality(MembersOf(t) \cap rows)
        /\ Cardinality(MembersOf(t)) \in Nat /\ Cardinality(rows) \in Nat
        /\ Cardinality(MembersOf(t) \cap rows) \in Nat
    BY <2>2, FS_Union, FS_Intersection, FS_CardinalityType
  <2>4. Cardinality(MembersOf(t) \cup rows) <= MaxSize
    BY <2>3, RegistrationAssumption
  <2> QED BY <2>1, <2>4 DEF JInv, RowsOK, NoTeamIsOverfull
<1>5. JoinsOK
  BY DEF JoinsOK
<1> QED BY <1>2, <1>3, <1>4, <1>5 DEF JInv, RowsOK

LEMMA JInsertMembers == ASSUME IInv, JInv, NEW h \in Slots, InsertMembers(h) PROVE StepOK
<1>1. PICK s : Works(h, s, "insertMembers")
  BY AtStep DEF InsertMembers
<1>2. /\ s = handlers[h] /\ Solo(h) /\ {"step", "team"} \subseteq DOMAIN s /\ s.team \in teams
      /\ RosterOK(s.roster) /\ MembersOf(s.team) = {}
  BY <1>1 DEF Works, HandlerOK, TeamSteps, RoomlessSteps, JInv, HoldsOK, ListHolds
<1>3. PICK status : status = [e \in s.roster |-> IF e.user = NoUser THEN "accepted" ELSE "pending"]
  OBVIOUS
<1>4. PICK rows : rows = NewRows(s.team, s.roster, status)
  OBVIOUS
<1>5. CASE CanSave(rows) /\ members' = WithRows(rows)
           /\ handlers' = [handlers EXCEPT ![h] = [s EXCEPT !.step = "addRoom"]]
  <2>1. /\ IsFiniteSet(rows) /\ Cardinality(rows) <= Cardinality(s.roster)
        /\ \A r \in rows : /\ r \in Member /\ r.team = s.team /\ r.entered /\ r.id[1] = r.email
                           /\ \A m \in members : m.id # r.id
    <3>1. \A e \in s.roster : status[e] \in Answer
      BY <1>3 DEF Answer
    <3> QED BY <1>2, <1>4, <3>1, NewRowsAre DEF RosterOK
  <2>2. Cardinality(MembersOf(s.team)) + Cardinality(rows) <= MaxSize
    BY <1>2, <2>1, FS_EmptySet, FS_CardinalityType, RegistrationAssumption DEF RosterOK
  <2>3. RowsOK' /\ JoinsOK
    BY <1>2, <1>5, <2>1, <2>2, InsertRows DEF InsertMembers
  <2> QED BY <1>1, <1>2, <1>5, <2>3, JPlain DEF PlainSteps
<1>6. CASE UNCHANGED members /\ handlers' = [handlers EXCEPT ![h] = [s EXCEPT !.step = "undoMembers"]]
  BY <1>1, <1>2, <1>6, FewerRows, JPlain DEF InsertMembers, PlainSteps, JInv
<1> QED BY <1>2, <1>3, <1>4, <1>5, <1>6 DEF InsertMembers, Then, Goes

LEMMA JInsertMember == ASSUME IInv, JInv, NEW h \in Slots, InsertMember(h) PROVE StepOK
<1>1. PICK s : Works(h, s, "insertMember")
  BY AtStep DEF InsertMember
<1>2. /\ s = handlers[h] /\ Solo(h) /\ {"step", "team"} \subseteq DOMAIN s /\ s.team \in teams
      /\ s.email \in Emails /\ Cardinality(MembersOf(s.team)) < MaxSize
  BY <1>1 DEF Works, HandlerOK, TeamSteps, JInv, HoldsOK, ListHolds
<1>3. PICK entry : entry = [email |-> s.email, user |-> NoUser]
  OBVIOUS
<1>4. PICK roster : roster = {entry}
  OBVIOUS
<1>5. PICK status : status = [e \in roster |-> "accepted"]
  OBVIOUS
<1>6. PICK rows : rows = NewRows(s.team, roster, status)
  OBVIOUS
<1>7. handlers' = [handlers EXCEPT ![h] = Idle]
      /\ members' = (IF CanSave(rows) THEN WithRows(rows) ELSE members) /\ UNCHANGED <<teams, joined>>
  BY <1>2, <1>3, <1>4, <1>5, <1>6 DEF InsertMember, Goes
<1>8. RowsOK' /\ JoinsOK
  <2>1. /\ IsFiniteSet(rows) /\ Cardinality(rows) <= Cardinality(roster)
        /\ \A r \in rows : /\ r \in Member /\ r.team = s.team /\ r.entered /\ r.id[1] = r.email
                           /\ \A m \in members : m.id # r.id
    <3>1. \A e \in roster : status[e] \in Answer
      BY <1>5 DEF Answer
    <3>2. roster \subseteq [email : Emails \cup {NoEmail}, user : Users \cup {NoUser}]
      BY <1>2, <1>3, <1>4
    <3>3. IsFiniteSet(roster)
      BY <1>4, FS_Singleton
    <3> QED BY <1>2, <1>6, <3>1, <3>2, <3>3, NewRowsAre
  <2>2. Cardinality(MembersOf(s.team)) + Cardinality(rows) <= MaxSize
    <3>1. Cardinality(roster) = 1 /\ Cardinality(rows) \in Nat
      BY <1>4, <2>1, FS_Singleton, FS_CardinalityType
    <3>2. IsFiniteSet(MembersOf(s.team))
      BY FS_Subset DEF MembersOf, JInv, RowsOK
    <3>3. Cardinality(MembersOf(s.team)) \in Nat
      BY <3>2, FS_CardinalityType
    <3> QED BY <1>2, <2>1, <3>1, <3>3, RegistrationAssumption
  <2>3. CASE CanSave(rows)
    BY <1>2, <1>7, <2>1, <2>2, <2>3, InsertRows
  <2>4. CASE ~CanSave(rows)
    BY <1>7, <2>4, FewerRows DEF JInv
  <2> QED BY <2>3, <2>4
<1> QED BY <1>1, <1>2, <1>7, <1>8, JPlain

LEMMA JClearMembers == ASSUME IInv, JInv, NEW h \in Slots, ClearMembers(h) PROVE StepOK
<1>1. PICK s : Works(h, s, "clearMembers")
  BY AtStep DEF ClearMembers
<1>2. /\ s = handlers[h] /\ {"step", "team", "roster", "was", "loaded"} \subseteq DOMAIN s
      /\ HoldsOK(s)
  BY <1>1 DEF Works, HandlerOK, TeamSteps, JInv, HoldsOK, ListHolds
<1>3. PICK next : next = [s EXCEPT !.step = "insertRoster"]
  OBVIOUS
<1>4. /\ next.step = "insertRoster" /\ next.team = s.team /\ next.roster = s.roster
      /\ next.was = s.was /\ next.loaded = s.loaded /\ DOMAIN next = DOMAIN s
  BY <1>2, <1>3
<1>5. handlers' = [handlers EXCEPT ![h] = next] /\ members' = members \ MembersOf(s.team)
      /\ UNCHANGED <<teams, joined>>
  BY <1>2, <1>3 DEF ClearMembers, Then, Goes
<1>6. MembersOf(next.team)' = {}
  BY <1>4, <1>5 DEF MembersOf
<1>7. HoldsOK(next)'
  BY <1>1, <1>2, <1>4, <1>6 DEF Works, HoldsOK, ListHolds, AnswerHolds, LinkHolds, ChatHolds, RosterOK
<1>8. RowsOK' /\ JoinsOK
  BY <1>5, FewerRows DEF JInv
<1> QED BY <1>1, <1>5, <1>7, <1>8, JWorks

LEMMA JInsertRoster == ASSUME IInv, JInv, NEW h \in Slots, InsertRoster(h) PROVE StepOK
<1>1. PICK s : Works(h, s, "insertRoster")
  BY AtStep DEF InsertRoster
<1>2. /\ s = handlers[h] /\ Solo(h) /\ {"step", "team", "loaded"} \subseteq DOMAIN s /\ s.team \in teams
      /\ RosterOK(s.roster) /\ MembersOf(s.team) = {} /\ HoldsOK(s)
      /\ \A u \in DOMAIN s.was : s.was[u] \in Answer
  BY <1>1 DEF Works, HandlerOK, TeamSteps, JInv, HoldsOK, ListHolds
<1>3. PICK status : status = [e \in s.roster |->
                                IF e.user = NoUser THEN "accepted"
                                ELSE IF e.user \in DOMAIN s.was THEN s.was[e.user] ELSE "pending"]
  OBVIOUS
<1>4. PICK rows : rows = NewRows(s.team, s.roster, status)
  OBVIOUS
<1>5. CASE CanSave(rows) /\ members' = WithRows(rows)
           /\ handlers' = [handlers EXCEPT ![h] = [s EXCEPT !.step = "saveTeam"]]
  <2>1. /\ IsFiniteSet(rows) /\ Cardinality(rows) <= Cardinality(s.roster)
        /\ \A r \in rows : /\ r \in Member /\ r.team = s.team /\ r.entered /\ r.id[1] = r.email
                           /\ \A m \in members : m.id # r.id
    <3>1. \A e \in s.roster : status[e] \in Answer
      BY <1>2, <1>3 DEF Answer
    <3> QED BY <1>2, <1>4, <3>1, NewRowsAre DEF RosterOK
  <2>2. Cardinality(MembersOf(s.team)) + Cardinality(rows) <= MaxSize
    BY <1>2, <2>1, FS_EmptySet, FS_CardinalityType, RegistrationAssumption DEF RosterOK
  <2>3. RowsOK' /\ JoinsOK
    BY <1>2, <1>5, <2>1, <2>2, InsertRows DEF InsertRoster
  <2>4. PICK next : next = [s EXCEPT !.step = "saveTeam"]
    OBVIOUS
  <2>5. /\ next.step = "saveTeam" /\ next.loaded = s.loaded /\ DOMAIN next = DOMAIN s
    BY <1>2, <2>4
  <2>6. HoldsOK(next)'
    BY <1>2, <2>5 DEF HoldsOK, ListHolds, AnswerHolds, LinkHolds, ChatHolds
  <2> QED BY <1>1, <1>5, <2>3, <2>4, <2>6, JWorks
<1>6. CASE UNCHANGED members /\ handlers' = [handlers EXCEPT ![h] = Idle]
  BY <1>1, <1>2, <1>6, FewerRows, JPlain DEF InsertRoster, JInv
<1> QED BY <1>2, <1>3, <1>4, <1>5, <1>6 DEF InsertRoster, Then, Goes

\* A row that is there is saved with another answer or another user.
LEMMA SaveRow ==
  ASSUME JInv, NEW m \in members, NEW row \in Member, row.id = m.id, row.team = m.team,
         m.status = "pending" \/ row.status = m.status,
         members' = WithRows({row}), UNCHANGED <<teams, joined>>
  PROVE  RowsOK' /\ JoinsOK
<1>1. members' = (members \ {m}) \cup {row}
  BY DEF WithRows, JInv, RowsOK, OneRowEach
<1>2. IsFiniteSet(members') /\ members' \subseteq Member
  <2>1. IsFiniteSet(members \ {m})
    BY FS_Subset DEF JInv, RowsOK
  <2>2. IsFiniteSet((members \ {m}) \cup {row})
    BY <2>1, FS_AddElement
  <2> QED BY <1>1, <2>2 DEF JInv, RowsOK
<1>3. OneRowEach'
  BY <1>1 DEF JInv, RowsOK, OneRowEach
<1>4. ASSUME NEW t \in teams PROVE Cardinality(MembersOf(t)') <= MaxSize
  <2>1. IsFiniteSet(MembersOf(t))
    BY FS_Subset DEF MembersOf, JInv, RowsOK
  <2>2. Cardinality(MembersOf(t)) \in Nat /\ Cardinality(MembersOf(t)) <= MaxSize
    BY <2>1, FS_CardinalityType DEF JInv, RowsOK, NoTeamIsOverfull
  <2>3. CASE t = m.team
    <3> DEFINE rest == MembersOf(t) \ {m}
    <3>1. MembersOf(t)' = rest \cup {row}
      BY <1>1, <2>3 DEF MembersOf
    <3>2. IsFiniteSet(rest) /\ Cardinality(rest) = Cardinality(MembersOf(t)) - 1
      BY <2>1, <2>3, FS_RemoveElement DEF MembersOf
    <3>3. Cardinality(rest) \in Nat
      BY <3>2, FS_CardinalityType
    <3>4. Cardinality(rest \cup {row}) \in {Cardinality(rest), Cardinality(rest) + 1}
      <4> HIDE DEF rest
      <4> QED BY <3>2, FS_AddElement
    <3> QED BY <2>2, <3>1, <3>2, <3>3, <3>4, RegistrationAssumption
  <2>4. CASE t # m.team
    <3>1. MembersOf(t)' = MembersOf(t)
      BY <1>1, <2>4 DEF MembersOf
    <3> QED BY <2>2, <3>1
  <2> QED BY <2>3, <2>4
<1>5. NoTeamIsOverfull'
  BY <1>4 DEF NoTeamIsOverfull
<1>6. JoinsOK
  BY DEF JoinsOK
<1> QED BY <1>2, <1>3, <1>5, <1>6 DEF JInv, RowsOK

LEMMA JSaveAnswer == ASSUME IInv, JInv, NEW h \in Slots, SaveAnswer(h) PROVE StepOK
<1>1. PICK s : Works(h, s, "saveAnswer")
  BY AtStep DEF SaveAnswer
<1>2. s = handlers[h] /\ AnswerHolds(s) /\ s.step = "saveAnswer"
  BY <1>1 DEF Works, JInv, HoldsOK
<1>3. PICK m \in members, answer \in {"accepted", "rejected"} :
        m.user # NoUser /\ m.status = "pending" /\ s.row = [m EXCEPT !.status = answer]
  BY <1>2 DEF AnswerHolds
<1>4. m \in Member
  BY DEF JInv, RowsOK
<1>5. PICK row : row = s.row
  OBVIOUS
<1>6. /\ row \in Member /\ row.id = m.id /\ row.team = m.team /\ row.user = m.user
      /\ row.status = answer /\ row.entered = m.entered /\ row.user \in Users
  BY <1>3, <1>4, <1>5 DEF Member, Answer
<1>7. [row EXCEPT !.entered = @ /\ \E n \in members : n.id = row.id] = row
  <2>1. \E n \in members : n.id = row.id
    BY <1>6
  <2>2. [row EXCEPT !.entered = row.entered] = row
    BY <1>6 DEF Member
  <2>3. row.entered \in BOOLEAN
    BY <1>6 DEF Member
  <2>4. (row.entered /\ \E n \in members : n.id = row.id) = row.entered
    BY <2>1, <2>3
  <2> QED BY <2>2, <2>4
<1>8. PICK next :
        /\ handlers' = [handlers EXCEPT ![h] = next]
        /\ next = IF CanSave({row}) /\ row.status = "accepted" /\ row.team # NoTeam
                  THEN [step |-> "join", team |-> row.team, user |-> row.user] ELSE Idle
  BY <1>2, <1>5, <1>7 DEF SaveAnswer, Goes
<1>9. members' = (IF CanSave({row}) THEN WithRows({row}) ELSE members) /\ UNCHANGED <<teams, joined>>
  BY <1>2, <1>5, <1>7 DEF SaveAnswer
<1>10. CASE CanSave({row})
  <2>1. RowsOK' /\ JoinsOK
    BY <1>3, <1>6, <1>9, <1>10, SaveRow
  <2>2. HoldsOK(next)'
    <3>1. row \in members'
      BY <1>9, <1>10 DEF WithRows
    <3>2. OnTeam(row.team, row.user)'
      BY <3>1 DEF OnTeam
    <3>3. HoldsOK([step |-> "join", team |-> row.team, user |-> row.user])'
      BY <1>6, <3>2 DEF HoldsOK, ListHolds, AnswerHolds, LinkHolds, ChatHolds
    <3>4. CASE next = Idle
      BY <3>4, IdleHolds
    <3>5. CASE next = [step |-> "join", team |-> row.team, user |-> row.user]
      BY <3>3, <3>5
    <3> QED BY <1>8, <3>4, <3>5
  <2> QED BY <1>1, <1>8, <2>1, <2>2, JWorks
<1>11. CASE ~CanSave({row})
  <2>1. RowsOK' /\ JoinsOK
    BY <1>9, <1>11, FewerRows DEF JInv
  <2>2. handlers' = [handlers EXCEPT ![h] = Idle]
    BY <1>8, <1>11
  <2> QED BY <1>1, <2>1, <2>2, IdleHolds, JWorks
<1> QED BY <1>10, <1>11

LEMMA JSaveLink == ASSUME IInv, JInv, NEW h \in Slots, SaveLink(h) PROVE StepOK
<1>1. PICK s : Works(h, s, "saveLink")
  BY AtStep DEF SaveLink
<1>2. s = handlers[h] /\ LinkHolds(s) /\ s.step = "saveLink"
  BY <1>1 DEF Works, JInv, HoldsOK
<1>3. PICK m \in members, u \in Users : m.team # NoTeam /\ s.row = [m EXCEPT !.user = u]
  BY <1>2 DEF LinkHolds
<1>4. m \in Member
  BY DEF JInv, RowsOK
<1>5. PICK row : row = s.row
  OBVIOUS
<1>6. /\ row \in Member /\ row.id = m.id /\ row.team = m.team /\ row.user = u
      /\ row.status = m.status
  BY <1>3, <1>4, <1>5 DEF Member
<1>7. UNION {{n.team} : n \in {o \in members : o.id = row.id}} = {m.team}
  <2>1. {o \in members : o.id = row.id} = {m}
    BY <1>6 DEF JInv, RowsOK, OneRowEach
  <2> QED BY <2>1
<1>8. [row EXCEPT !.team = CHOOSE t \in {m.team} : TRUE] = row
  <2>1. (CHOOSE t \in {m.team} : TRUE) = row.team
    BY <1>6
  <2>2. [row EXCEPT !.team = row.team] = row
    BY <1>6 DEF Member
  <2> QED BY <2>1, <2>2
<1>9. members' = WithRows({row})
  <2>1. PICK team : team = UNION {{n.team} : n \in {o \in members : o.id = row.id}}
    OBVIOUS
  <2>2. members' = WithRows({IF team = {} THEN [row EXCEPT !.team = NoTeam, !.entered = FALSE]
                             ELSE [row EXCEPT !.team = CHOOSE t \in team : TRUE]})
    BY <1>2, <1>5, <2>1 DEF SaveLink
  <2>3. team = {m.team} /\ team # {}
    BY <1>7, <2>1
  <2> QED BY <1>8, <2>2, <2>3
<1>10. PICK next : /\ next = [step |-> "join", team |-> row.team, user |-> u]
                   /\ handlers' = [handlers EXCEPT ![h] = next]
  BY <1>2, <1>5, <1>6 DEF SaveLink, Goes
<1>11. RowsOK' /\ JoinsOK
  BY <1>6, <1>9, SaveRow DEF SaveLink
<1>12. HoldsOK(next)'
  <2>1. row \in members'
    BY <1>9 DEF WithRows
  <2>2. OnTeam(row.team, u)'
    BY <1>6, <2>1 DEF OnTeam
  <2> QED BY <1>10, <2>2 DEF HoldsOK, ListHolds, AnswerHolds, LinkHolds, ChatHolds
<1> QED BY <1>1, <1>10, <1>11, <1>12, JWorks

\* The team is left with rows it was loaded with, and the other teams with no more than they had.
LEMMA SavedTeam ==
  ASSUME JInv, NEW t \in teams, NEW loaded, IsFiniteSet(loaded), Cardinality(loaded) <= MaxSize,
         SaveTeam(t, loaded), UNCHANGED joined
  PROVE  RowsOK' /\ JoinsOK
<1> DEFINE f == [m \in members |-> IF m.id \in loaded THEN [m EXCEPT !.team = t]
                                   ELSE IF m.team = t THEN [m EXCEPT !.team = NoTeam] ELSE m]
<1>1. teams' = teams /\ members' = {f[m] : m \in members} /\ DOMAIN f = members
  BY DEF SaveTeam
<1>2. t \in TeamId /\ t # NoTeam
  BY RegistrationAssumption DEF JInv, RowsOK, TeamId
<1>3. ASSUME NEW m \in members
      PROVE  /\ f[m] \in Member /\ f[m].id = m.id /\ f[m].status = m.status
             /\ f[m].team = t => m.id \in loaded
             /\ f[m].team \notin {t, NoTeam} => f[m] = m
  BY <1>2 DEF JInv, RowsOK, Member
<1> HIDE DEF f
<1>4. IsFiniteSet(members') /\ members' \subseteq Member
  BY <1>1, <1>3, ImageSize DEF JInv, RowsOK
<1>5. OneRowEach'
  BY <1>1, <1>3 DEF JInv, RowsOK, OneRowEach
<1>6. ASSUME NEW u \in teams PROVE Cardinality(MembersOf(u)') <= MaxSize
  <2>1. IsFiniteSet(MembersOf(u)) /\ IsFiniteSet(MembersOf(u)')
    BY <1>4, FS_Subset DEF MembersOf, JInv, RowsOK
  <2>2. Cardinality(MembersOf(u)) \in Nat /\ Cardinality(MembersOf(u)') \in Nat
    BY <2>1, FS_CardinalityType
  <2>3. CASE u = t
    <3> DEFINE S == MembersOf(t)'
               id == [m \in S |-> m.id]
    <3>1. \A m \in S : m.id \in loaded
      BY <1>1, <1>3 DEF MembersOf
    <3>2. \A m, n \in S : m.id = n.id => m = n
      BY <1>5 DEF MembersOf, OneRowEach
    <3> HIDE DEF S
    <3>3. id \in Injection(S, loaded)
      <4>1. id \in [S -> loaded]
        BY <3>1
      <4>2. \A m, n \in S : id[m] = id[n] => m = n
        BY <3>2
      <4> HIDE DEF id
      <4> QED BY <4>1, <4>2 DEF Injection, IsInjective
    <3>4. Cardinality(S) <= Cardinality(loaded)
      BY <3>3, FS_Injection
    <3>5. Cardinality(loaded) \in Nat
      BY FS_CardinalityType
    <3> QED BY <2>2, <2>3, <3>4, <3>5, RegistrationAssumption DEF S
  <2>4. CASE u # t
    <3>1. u # NoTeam
      BY RegistrationAssumption DEF JInv, RowsOK, TeamId
    <3>2. MembersOf(u)' \subseteq MembersOf(u)
      BY <1>1, <1>3, <2>4, <3>1 DEF MembersOf
    <3>3. Cardinality(MembersOf(u)') <= Cardinality(MembersOf(u))
      BY <2>1, <3>2, FS_Subset
    <3> QED BY <2>2, <3>3, RegistrationAssumption DEF JInv, RowsOK, NoTeamIsOverfull
  <2> QED BY <2>3, <2>4
<1>7. NoTeamIsOverfull'
  BY <1>1, <1>6 DEF NoTeamIsOverfull
<1>9. JoinsOK
  BY DEF JoinsOK
<1> QED BY <1>1, <1>4, <1>5, <1>7, <1>9 DEF JInv, RowsOK

LEMMA JSaveEditedTeam == ASSUME IInv, JInv, NEW h \in Slots, SaveEditedTeam(h) PROVE StepOK
<1>1. PICK s : Works(h, s, "saveTeam")
  BY AtStep DEF SaveEditedTeam
<1>2. /\ s = handlers[h] /\ s.team \in teams
      /\ IsFiniteSet(s.loaded) /\ Cardinality(s.loaded) <= MaxSize
  BY <1>1 DEF Works, HandlerOK, TeamSteps, JInv, HoldsOK, ListHolds
<1>3. UNCHANGED joined /\ handlers' = [handlers EXCEPT ![h] = Idle]
  BY DEF SaveEditedTeam, Goes
<1>4. RowsOK' /\ JoinsOK
  <2>1. CASE SaveTeam(s.team, s.loaded)
    BY <1>2, <1>3, <2>1, SavedTeam
  <2>2. CASE UNCHANGED <<teams, members>>
    BY <1>3, <2>2, FewerRows DEF JInv
  <2> QED BY <1>2, <2>1, <2>2 DEF SaveEditedTeam
<1> QED BY <1>1, <1>3, <1>4, IdleHolds, JWorks

LEMMA JStatement == ASSUME IInv, JInv, NEW h \in Slots, Statement(h) PROVE StepOK
<1>1. CASE AddRoom(h) \/ SendInvites(h) \/ DeleteMembers(h) \/ DropJoined(h) \/ DropRoom(h) \/ RemoveTeam(h)
  BY <1>1, JRemoving
<1>2. CASE AddCaptain(h) \/ Join(h) \/ JoinMissing(h) \/ AddMissingRoom(h)
  BY <1>2, JEntering, JAddMissingRoom
<1>3. CASE InsertTeam(h) \/ InsertMembers(h) \/ InsertMember(h)
  BY <1>3, JInsertTeam, JInsertMembers, JInsertMember
<1>4. CASE ClearMembers(h) \/ InsertRoster(h) \/ SaveEditedTeam(h)
  BY <1>4, JClearMembers, JInsertRoster, JSaveEditedTeam
<1>5. CASE SaveAnswer(h) \/ SaveLink(h)
  BY <1>5, JSaveAnswer, JSaveLink
<1> QED BY <1>1, <1>2, <1>3, <1>4, <1>5 DEF Statement
-----------------------------------------------------------------------------
(* Every step keeps the second invariant *)

\* Handlers stay where they are while rooms or memberships go.
LEMMA JHandlersStay ==
  ASSUME JInv, UNCHANGED <<teams, members, handlers, faults>>, joined' \subseteq joined, stage' \in Stage
  PROVE  StepOK
<1>1. RowsOK' /\ JoinsOK
  BY FewerRows DEF JInv
<1>2. ASSUME NEW h \in Slots PROVE HoldsOK(handlers[h])'
  <2>1. PICK s : s = handlers[h] /\ s = handlers'[h]
    OBVIOUS
  <2>2. HoldsOK(s)'
    BY <2>1, HoldsStay DEF JInv
  <2>3. ListHolds(handlers[h])'
    BY <2>1, <2>2 DEF HoldsOK, ListHolds
  <2>4. AnswerHolds(handlers[h])'
    BY <2>1, <2>2 DEF HoldsOK, AnswerHolds
  <2>5. LinkHolds(handlers[h])' /\ ChatHolds(handlers[h])'
    BY <2>1, <2>2 DEF HoldsOK, LinkHolds, ChatHolds
  <2> QED BY <2>3, <2>4, <2>5 DEF HoldsOK
<1> QED BY <1>1, <1>2 DEF JInv, StepOK

LEMMA JStatementFails == ASSUME IInv, JInv, NEW h \in Slots, StatementFails(h) PROVE StepOK
<1>1. UNCHANGED <<stage, tables>> /\ faults' \in 0 .. MaxFaults /\ handlers[h] # Idle
  BY RegistrationAssumption DEF StatementFails, JInv
<1>2. PICK s : s = handlers[h]
  OBVIOUS
<1>3. Solo(h) /\ HandlerOK(s) /\ HoldsOK(s)
  <2>1. s.step # "idle"
    BY <1>1, <1>2 DEF IInv, HandlerOK
  <2> QED BY <1>2, <2>1, AtWork DEF JInv
<1>4. RowsOK' /\ JoinsOK
  BY <1>1, FewerRows DEF JInv, tables
<1>5. CASE handlers' = [handlers EXCEPT ![h] = Idle]
  BY <1>1, <1>3, <1>4, <1>5, IdleHolds, JMoves DEF JInv, StepOK
<1>6. CASE /\ s.step \in {"insertMembers", "addRoom", "addCaptain", "sendInvites"}
           /\ handlers' = [handlers EXCEPT ![h] = [s EXCEPT !.step = "undoMembers"]]
  <2>1. {"step", "team"} \subseteq DOMAIN s
    BY <1>3, <1>6 DEF HandlerOK, TeamSteps, RoomlessSteps
  <2>2. PICK next : next = [s EXCEPT !.step = "undoMembers"]
    OBVIOUS
  <2>3. HoldsOK(next)'
    BY <1>3, <2>1, <2>2, ThenHolds DEF PlainSteps
  <2> QED BY <1>1, <1>3, <1>4, <1>6, <2>2, <2>3, JMoves DEF JInv, StepOK
<1> QED BY <1>2, <1>5, <1>6 DEF StatementFails, Then, Goes

LEMMA JCrash == ASSUME JInv, Crash PROVE StepOK
<1>1. /\ UNCHANGED <<stage, tables>> /\ faults' \in 0 .. MaxFaults
      /\ handlers' = [h \in Slots |-> Idle]
  BY RegistrationAssumption DEF Crash, JInv
<1>2. RowsOK' /\ JoinsOK
  BY <1>1, FewerRows DEF JInv, tables
<1>3. ASSUME NEW h \in Slots PROVE HoldsOK(handlers[h])'
  <2>1. handlers'[h] = Idle
    BY <1>1
  <2> QED BY <2>1 DEF HoldsOK, ListHolds, AnswerHolds, LinkHolds, ChatHolds, Idle
<1> QED BY <1>1, <1>2, <1>3 DEF JInv, StepOK

LEMMA JInit == Init => JInv
<1> SUFFICES ASSUME Init PROVE JInv
  OBVIOUS
<1>1. RowsOK
  BY FS_EmptySet DEF Init, RowsOK, OneRowEach, NoTeamIsOverfull
<1>2. \A h \in Slots : HoldsOK(handlers[h])
  BY DEF Init, HoldsOK, ListHolds, AnswerHolds, LinkHolds, ChatHolds, Idle
<1> QED BY <1>1, <1>2, RegistrationAssumption DEF Init, JInv, Stage

LEMMA JNext == OneAtATime /\ IInv /\ JInv /\ [Next]_vars => StepOK
<1> SUFFICES ASSUME OneAtATime, IInv, JInv, [Next]_vars PROVE StepOK
  OBVIOUS
<1>1. CASE UNCHANGED vars
  BY <1>1, JHandlersStay DEF vars, tables, JInv
<1>2. ASSUME NEW h \in Slots, Request(h) PROVE StepOK
  BY <1>2, JBegin
<1>3. ASSUME NEW h \in Slots, Statement(h) \/ StatementFails(h) PROVE StepOK
  BY <1>3, JStatement, JStatementFails
<1>4. CASE StartTournament \/ FinishTournament
  BY <1>4, JHandlersStay DEF StartTournament, FinishTournament, tables, Stage
<1>5. CASE Crash
  BY <1>5, JCrash
<1>6. ASSUME NEW t, NEW u, RemoveChatMember(t, u) PROVE StepOK
  BY <1>6, JHandlersStay DEF RemoveChatMember, JInv
<1> QED BY <1>1, <1>2, <1>3, <1>4, <1>5, <1>6 DEF Next
-----------------------------------------------------------------------------
(* Registrations that overlap *)

\* Nothing but registrations is sent, any number of them at once.
OnlyRegistrations == Kinds \subseteq {"createTeam"} /\ IsFiniteSet(Slots)

RegisterSteps ==
  {"insertTeam", "insertMembers", "addRoom", "addCaptain", "sendInvites",
   "undoMembers", "dropJoined", "dropRoom", "removeTeam"}

People(rows) == {[email |-> m.email, user |-> m.user] : m \in rows}
Entries(t) == People(MembersOf(t))

Whole(t) == Entries(t) \in Rosters \cup {{}} /\ t \in rooms /\ <<t, CaptainOf(t)>> \in joined

\* How far a registration has come.
AsFar(s) ==
  \/ s = Idle
  \/ /\ s.step \in RegisterSteps /\ DOMAIN s = {"step", "roster", "team"}
     /\ s.team \in TeamId /\ s.roster \in Rosters \cup {{}}
     /\ s.step = "insertTeam" => s.team \notin teams
     /\ s.step \in {"insertTeam", "insertMembers"} => MembersOf(s.team) = {}
     /\ s.step \in {"addRoom", "addCaptain", "sendInvites"} => Entries(s.team) = s.roster
     /\ s.step \in {"addCaptain", "sendInvites"} => s.team \in rooms
     /\ s.step = "sendInvites" => <<s.team, CaptainOf(s.team)>> \in joined

WorksOn(h, t) == handlers[h] # Idle /\ handlers[h].team = t

Apart == \A g, h \in Slots : \A t : WorksOn(g, t) /\ WorksOn(h, t) => g = h

FiniteTables == IsFiniteSet(teams) /\ IsFiniteSet(members) /\ IsFiniteSet(rooms) /\ IsFiniteSet(joined)

TeamsThere == \A m \in members : m.team \in teams

\* Each registration has a team of its own, and the teams nobody works on are whole.
InOrder ==
  /\ IsHandlers /\ Apart /\ FiniteTables /\ TeamsThere
  /\ \A h \in Slots : AsFar(handlers[h])
  /\ \A t \in teams : Whole(t) \/ \E h \in Slots : WorksOn(h, t)

KInv == faults \in Nat /\ (faults = 0 /\ stage # "finished" => InOrder)

\* A step says nothing of the team, its members, its room and its captain's place in it.
Same(t) ==
  /\ MembersOf(t)' = MembersOf(t)
  /\ t \in teams' <=> t \in teams
  /\ t \in rooms' <=> t \in rooms
  /\ <<t, CaptainOf(t)>> \in joined' <=> <<t, CaptainOf(t)>> \in joined

LEMMA SameTeam ==
  ASSUME NEW t, Same(t)
  PROVE  /\ Entries(t)' = Entries(t) /\ (Whole(t)' <=> Whole(t))
         /\ \A s : s.team = t /\ AsFar(s) => AsFar(s)'
<1>1. Entries(t)' = Entries(t) /\ (Whole(t)' <=> Whole(t))
  BY DEF Same, Entries, Whole
<1>2. ASSUME NEW s, s.team = t, AsFar(s) PROVE AsFar(s)'
  <2>1. CASE s = Idle
    BY <2>1 DEF AsFar
  <2>2. CASE s # Idle
    <3>1. /\ MembersOf(s.team)' = MembersOf(s.team) /\ Entries(s.team)' = Entries(s.team)
          /\ s.team \in teams' <=> s.team \in teams
          /\ s.team \in rooms' <=> s.team \in rooms
          /\ <<s.team, CaptainOf(s.team)>> \in joined' <=> <<s.team, CaptainOf(s.team)>> \in joined
      BY <1>1, <1>2 DEF Same
    <3> QED BY <1>2, <2>2, <3>1 DEF AsFar
  <2> QED BY <2>1, <2>2
<1> QED BY <1>1, <1>2

\* One handler moves on, and touches no team but its own.
LEMMA RegisterStep ==
  ASSUME InOrder, NEW h \in Slots, NEW t, NEW next, handlers' = [handlers EXCEPT ![h] = next],
         \A g \in Slots \ {h} : ~WorksOn(g, t), \A u : WorksOn(h, u) => u = t,
         AsFar(next)', next = Idle \/ next.team = t,
         \A u : u # t => Same(u), FiniteTables', TeamsThere',
         next = Idle => t \notin teams' \/ Whole(t)'
  PROVE  InOrder'
<1>1. IsHandlers' /\ \A g \in Slots : handlers'[g] = IF g = h THEN next ELSE handlers[g]
  BY DEF InOrder, IsHandlers
<1>2. \A g \in Slots \ {h} : \A u : WorksOn(g, u)' <=> WorksOn(g, u)
  BY <1>1 DEF WorksOn
<1>3. \A u : WorksOn(h, u)' => u = t
  BY <1>1 DEF WorksOn
<1>4. next # Idle => WorksOn(h, t)'
  BY <1>1 DEF WorksOn
<1>5. Apart'
  BY <1>2, <1>3 DEF InOrder, Apart
<1>6. ASSUME NEW g \in Slots PROVE AsFar(handlers[g])'
  <2>1. CASE g = h
    <3>1. handlers'[g] = next
      BY <1>1, <2>1
    <3> QED BY <3>1 DEF AsFar
  <2>2. CASE g # h
    <3>1. PICK s : s = handlers[g] /\ s = handlers'[g]
      BY <1>1, <2>2
    <3>2. AsFar(s)
      BY <3>1 DEF InOrder
    <3>3. AsFar(s)'
      <4>1. CASE s = Idle
        BY <4>1 DEF AsFar
      <4>2. CASE s # Idle
        <5>1. s.team # t
          BY <2>2, <3>1, <4>2 DEF WorksOn
        <5> QED BY <3>2, <5>1, SameTeam
      <4> QED BY <4>1, <4>2
    <3> QED BY <3>1, <3>3 DEF AsFar
  <2> QED BY <2>1, <2>2
<1>7. ASSUME NEW u \in teams' PROVE Whole(u)' \/ \E g \in Slots : WorksOn(g, u)'
  <2>1. CASE u = t
    BY <1>4, <2>1
  <2>2. CASE u # t
    <3>1. u \in teams /\ (Whole(u)' <=> Whole(u))
      BY <2>2, SameTeam DEF Same
    <3>2. Whole(u) \/ \E g \in Slots : WorksOn(g, u)
      BY <3>1 DEF InOrder
    <3>3. ~WorksOn(h, u)
      BY <2>2
    <3> QED BY <1>2, <3>1, <3>2, <3>3
  <2> QED BY <2>1, <2>2
<1> QED BY <1>1, <1>5, <1>6, <1>7 DEF InOrder

\* What is known of a registration that is on its way.
Registers(h, s) ==
  /\ s = handlers[h] /\ s.step \in RegisterSteps /\ AsFar(s)
  /\ s # Idle /\ s.team \in TeamId /\ DOMAIN s = {"step", "roster", "team"}
  /\ \A g \in Slots \ {h} : ~WorksOn(g, s.team)
  /\ \A u : WorksOn(h, u) => u = s.team

LEMMA AtRegistration ==
  ASSUME InOrder, NEW h \in Slots, handlers[h].step # "idle"
  PROVE  \E s : Registers(h, s)
<1>1. PICK s : s = handlers[h]
  OBVIOUS
<1>2. s # Idle
  BY <1>1 DEF Idle
<1>3. AsFar(s)
  BY <1>1 DEF InOrder
<1>4. WorksOn(h, s.team) /\ \A u : WorksOn(h, u) => u = s.team
  BY <1>1, <1>2 DEF WorksOn
<1>5. \A g \in Slots \ {h} : ~WorksOn(g, s.team)
  BY <1>4 DEF InOrder, Apart
<1>6. s.step \in RegisterSteps /\ s.team \in TeamId /\ DOMAIN s = {"step", "roster", "team"}
  BY <1>2, <1>3 DEF AsFar
<1> QED BY <1>1, <1>2, <1>3, <1>4, <1>5, <1>6 DEF Registers

\* The next step of a registration, with the same team and list.
LEMMA NextStep ==
  ASSUME NEW s, DOMAIN s = {"step", "roster", "team"}, NEW step, NEW next, next = [s EXCEPT !.step = step]
  PROVE  /\ next.step = step /\ next.team = s.team /\ next.roster = s.roster
         /\ DOMAIN next = {"step", "roster", "team"}
OBVIOUS

LEMMA RegisterThen ==
  ASSUME InOrder, NEW h \in Slots, NEW s, Registers(h, s), NEW step \in RegisterSteps,
         handlers' = [handlers EXCEPT ![h] = [s EXCEPT !.step = step]],
         step = "insertMembers" => MembersOf(s.team)' = {},
         step \in {"addRoom", "addCaptain", "sendInvites"} => Entries(s.team)' = s.roster,
         step \in {"addCaptain", "sendInvites"} => s.team \in rooms',
         step = "sendInvites" => <<s.team, CaptainOf(s.team)>> \in joined',
         step # "insertTeam",
         \A u : u # s.team => Same(u), FiniteTables', TeamsThere'
  PROVE  InOrder'
<1>1. PICK next : next = [s EXCEPT !.step = step]
  OBVIOUS
<1>2. /\ next.step = step /\ next.team = s.team /\ next.roster = s.roster
      /\ DOMAIN next = {"step", "roster", "team"}
  BY <1>1, NextStep DEF Registers
<1>3. next # Idle
  BY <1>2 DEF Idle, RegisterSteps
<1>4. s.roster \in Rosters \cup {{}}
  BY DEF Registers, AsFar
<1>5. AsFar(next)'
  <2>1. Entries(next.team)' = Entries(s.team)' /\ MembersOf(next.team)' = MembersOf(s.team)'
    BY <1>2 DEF Entries, MembersOf
  <2> QED BY <1>2, <1>4, <2>1 DEF AsFar, Registers
<1>6. handlers' = [handlers EXCEPT ![h] = next]
  BY <1>1
<1> QED BY <1>2, <1>3, <1>5, <1>6, RegisterStep DEF Registers

LEMMA RegisterEnds ==
  ASSUME InOrder, NEW h \in Slots, NEW s, Registers(h, s), handlers' = [handlers EXCEPT ![h] = Idle],
         \A u : u # s.team => Same(u), FiniteTables', TeamsThere', s.team \notin teams' \/ Whole(s.team)'
  PROVE  InOrder'
<1>1. AsFar(Idle)'
  BY DEF AsFar
<1> QED BY <1>1, RegisterStep DEF Registers

\* Ids that registrations take are in no table and in no other registration.
LEMMA FiniteUse ==
  ASSUME InOrder, OnlyRegistrations
  PROVE  /\ IsFiniteSet(UsedTeams) /\ teams \subseteq UsedTeams
         /\ \A h \in Slots : handlers[h] # Idle => handlers[h].team \in UsedTeams
         /\ UsedMembers = {m.id : m \in members} /\ IsFiniteSet(UsedMembers)
<1>1. \A h \in Slots : handlers[h] = Idle \/ DOMAIN handlers[h] = {"step", "roster", "team"}
  BY DEF InOrder, AsFar
<1>2. \A field \in {"todo", "row", "loaded"} : Holding(field) = {}
  BY <1>1 DEF Holding, Idle
<1> DEFINE at == {h \in Slots : "team" \in DOMAIN handlers[h]}
           f  == [h \in at |-> handlers[h].team]
           captains == [j \in joined |-> j[1]]
           ids == [m \in members |-> m.id]
<1>3. UsedTeams = teams \cup rooms \cup {captains[j] : j \in joined} \cup {f[h] : h \in at}
  BY <1>2 DEF UsedTeams, Holding
<1>4. UsedMembers = {m.id : m \in members} /\ UsedMembers = {ids[m] : m \in members}
  BY <1>2 DEF UsedMembers
<1>5. DOMAIN f = at /\ DOMAIN captains = joined /\ DOMAIN ids = members
  OBVIOUS
<1>6. IsFiniteSet(at)
  BY FS_Subset DEF OnlyRegistrations
<1>7. ASSUME NEW h \in Slots, handlers[h] # Idle PROVE handlers[h].team \in UsedTeams
  <2>1. h \in at /\ f[h] = handlers[h].team
    BY <1>1, <1>7
  <2> HIDE DEF f, at
  <2> QED BY <1>3, <2>1
<1> HIDE DEF f, at, captains, ids
<1>8. IsFiniteSet({f[h] : h \in at}) /\ IsFiniteSet({captains[j] : j \in joined})
  BY <1>5, <1>6, ImageSize DEF InOrder, FiniteTables
<1>9. IsFiniteSet({ids[m] : m \in members})
  BY <1>5, ImageSize DEF InOrder, FiniteTables
<1>10. IsFiniteSet(teams \cup rooms \cup {captains[j] : j \in joined} \cup {f[h] : h \in at})
  BY <1>8, FS_Union DEF InOrder, FiniteTables
<1> QED BY <1>3, <1>4, <1>7, <1>9, <1>10

\* The rows of a list that the unique index accepts are the list.
LEMMA RowsOfList ==
  ASSUME InOrder, OnlyRegistrations, NEW t \in TeamId, NEW roster \in Rosters \cup {{}}, NEW status,
         NEW rows, rows = NewRows(t, roster, status), CanSave(rows)
  PROVE  /\ IsFiniteSet(rows) /\ People(rows) = roster
         /\ \A r \in rows : r.team = t /\ t \in teams /\ \A m \in members : m.id # r.id
<1> DEFINE f == [e \in roster |-> [id |-> Unused(e.email, UsedMembers), team |-> t, email |-> e.email,
                                   user |-> e.user, status |-> status[e], entered |-> TRUE]]
<1>1. rows = {f[e] : e \in roster} /\ DOMAIN f = roster
  BY DEF NewRows
<1>2. IsFiniteSet(roster)
  BY FS_EmptySet, RegistrationAssumption
<1>3. ASSUME NEW e \in roster
      PROVE  /\ f[e].team = t /\ t \in teams /\ [email |-> f[e].email, user |-> f[e].user] = e
             /\ \A m \in members : m.id # f[e].id
  <2>1. PICK i : i = Unused(e.email, UsedMembers)
    OBVIOUS
  <2>2. i \notin UsedMembers
    BY <2>1, FiniteUse, UnusedIsFree
  <2>3. f[e] = [id |-> i, team |-> t, email |-> e.email, user |-> e.user, status |-> status[e],
                entered |-> TRUE]
    BY <2>1
  <2>4. \A m \in members : m.id # i
    BY <2>2, FiniteUse
  <2>5. e \in [email : Emails \cup {NoEmail}, user : Users \cup {NoUser}]
    BY RegistrationAssumption
  <2>6. f[e] \in rows
    BY <1>1
  <2> HIDE DEF f
  <2>7. t \in teams
    BY <2>3, <2>6, RegistrationAssumption DEF CanSave, TeamId
  <2>8. [email |-> e.email, user |-> e.user] = e
    BY <2>5
  <2> QED BY <2>3, <2>4, <2>7, <2>8
<1> HIDE DEF f
<1>4. IsFiniteSet(rows)
  BY <1>1, <1>2, ImageSize
<1>5. People(rows) = roster
  BY <1>1, <1>3 DEF People
<1> QED BY <1>1, <1>3, <1>4, <1>5

LEMMA StageStays ==
  ASSUME NEW h \in Slots, Request(h) \/ Statement(h)
  PROVE  UNCHANGED <<stage, faults>>
<1>1. CASE Request(h)
  BY <1>1 DEF Request, Begins, BeginCreateTeam, BeginUpdateTeam, BeginDeleteTeam, BeginAdminDeleteTeam,
              BeginAnswer, BeginAddMember, BeginLinkMember, BeginAddChatMember, BeginFindMyTeams
<1>2. CASE Statement(h)
  BY <1>2 DEF Statement, At, InsertTeam, InsertMembers, AddRoom, AddCaptain, SendInvites, DeleteMembers,
              DropJoined, DropRoom, RemoveTeam, ClearMembers, InsertRoster, SaveEditedTeam, SaveAnswer, Join,
              InsertMember, SaveLink, AddMissingRoom, JoinMissing
<1> QED BY <1>1, <1>2

LEMMA KBegin == ASSUME InOrder, OnlyRegistrations, NEW h \in Slots, Request(h) PROVE InOrder'
<1>1. PICK u \in Users, roster \in Rosters \cup {{}} : BeginCreateTeam(h, u, roster)
  BY DEF OnlyRegistrations, Request, Begins, BeginUpdateTeam, BeginDeleteTeam, BeginAdminDeleteTeam,
         BeginAnswer, BeginAddMember, BeginLinkMember, BeginAddChatMember, BeginFindMyTeams
<1>2. PICK new : new = Unused(u, UsedTeams)
  OBVIOUS
<1>3. new \in TeamId /\ new \notin UsedTeams
  BY <1>2, FiniteUse, UnusedIsFree DEF TeamId
<1>4. PICK next : next = [step |-> "insertTeam", roster |-> roster, team |-> new]
  OBVIOUS
<1>5. /\ handlers[h] = Idle /\ handlers' = [handlers EXCEPT ![h] = next]
      /\ UNCHANGED tables
  BY <1>1, <1>2, <1>4 DEF BeginCreateTeam, Begins, Goes
<1>6. \A g \in Slots : ~WorksOn(g, new)
  BY <1>3, FiniteUse DEF WorksOn
<1>7. \A t : ~WorksOn(h, t)
  BY <1>5 DEF WorksOn
<1>8. \A t : Same(t)
  BY <1>5 DEF Same, tables, MembersOf
<1>9. FiniteTables' /\ TeamsThere'
  BY <1>5 DEF InOrder, FiniteTables, TeamsThere, tables
<1>10. AsFar(next)'
  <2>1. new \notin teams' /\ MembersOf(new)' = {}
    BY <1>3, <1>5, FiniteUse DEF InOrder, TeamsThere, MembersOf, tables
  <2>2. /\ next.step = "insertTeam" /\ next.team = new /\ next.roster = roster
        /\ DOMAIN next = {"step", "roster", "team"}
    BY <1>4
  <2>3. MembersOf(next.team)' = {}
    BY <2>1, <2>2 DEF MembersOf
  <2> QED BY <1>3, <2>1, <2>2, <2>3 DEF AsFar, RegisterSteps
<1>11. next.team = new /\ next # Idle
  BY <1>4 DEF Idle
<1> QED BY <1>5, <1>6, <1>7, <1>8, <1>9, <1>10, <1>11, RegisterStep

LEMMA KInsertTeam == ASSUME InOrder, NEW h \in Slots, InsertTeam(h) PROVE InOrder'
<1>1. PICK s : Registers(h, s)
  BY AtRegistration DEF InsertTeam, At
<1>2. /\ s = handlers[h] /\ s.step = "insertTeam" /\ s.team \notin teams /\ MembersOf(s.team) = {}
  BY <1>1 DEF Registers, AsFar, InsertTeam, At
<1>3. UNCHANGED <<members, rooms, joined>>
  BY DEF InsertTeam
<1>4. CASE handlers' = [handlers EXCEPT ![h] = Idle] /\ UNCHANGED teams
  <2>1. FiniteTables' /\ TeamsThere' /\ \A u : Same(u)
    BY <1>3, <1>4 DEF InOrder, FiniteTables, TeamsThere, Same, MembersOf
  <2> QED BY <1>1, <1>2, <1>4, <2>1, RegisterEnds
<1>5. CASE /\ teams' = teams \cup {s.team}
           /\ handlers' = [handlers EXCEPT ![h] =
                             [s EXCEPT !.step = IF s.roster = {} THEN "addRoom" ELSE "insertMembers"]]
  <2>1. FiniteTables' /\ TeamsThere' /\ \A u : u # s.team => Same(u)
    BY <1>3, <1>5, FS_AddElement DEF InOrder, FiniteTables, TeamsThere, Same, MembersOf
  <2>2. MembersOf(s.team)' = {} /\ Entries(s.team)' = {}
    BY <1>2, <1>3 DEF MembersOf, Entries, People
  <2>3. PICK step \in {"addRoom", "insertMembers"} :
          step = IF s.roster = {} THEN "addRoom" ELSE "insertMembers"
    OBVIOUS
  <2>4. handlers' = [handlers EXCEPT ![h] = [s EXCEPT !.step = step]]
    BY <1>5, <2>3
  <2>5. step = "addRoom" => Entries(s.team)' = s.roster
    BY <2>2, <2>3
  <2>6. step \in RegisterSteps /\ step \notin {"addCaptain", "sendInvites", "insertTeam"}
    BY <2>3 DEF RegisterSteps
  <2> QED BY <1>1, <2>1, <2>2, <2>4, <2>5, <2>6, RegisterThen
<1> QED BY <1>2, <1>4, <1>5 DEF InsertTeam, Then, Goes

LEMMA KInsertMembers ==
  ASSUME InOrder, OnlyRegistrations, NEW h \in Slots, InsertMembers(h) PROVE InOrder'
<1>1. PICK s : Registers(h, s)
  BY AtRegistration DEF InsertMembers, At
<1>2. /\ s = handlers[h] /\ s.step = "insertMembers" /\ MembersOf(s.team) = {}
      /\ s.team \in TeamId /\ s.roster \in Rosters \cup {{}}
  BY <1>1 DEF Registers, AsFar, InsertMembers, At
<1>3. PICK status : status = [e \in s.roster |-> IF e.user = NoUser THEN "accepted" ELSE "pending"]
  OBVIOUS
<1>4. PICK rows : rows = NewRows(s.team, s.roster, status)
  OBVIOUS
<1>5. UNCHANGED <<teams, rooms, joined>>
  BY DEF InsertMembers
<1>6. CASE CanSave(rows) /\ members' = WithRows(rows)
           /\ handlers' = [handlers EXCEPT ![h] = [s EXCEPT !.step = "addRoom"]]
  <2>1. /\ IsFiniteSet(rows) /\ People(rows) = s.roster
        /\ \A r \in rows : r.team = s.team /\ s.team \in teams /\ \A m \in members : m.id # r.id
    <3>1. PICK t \in TeamId, roster \in Rosters \cup {{}} : t = s.team /\ roster = s.roster
      BY <1>2
    <3>2. rows = NewRows(t, roster, status) /\ CanSave(rows)
      BY <1>4, <1>6, <3>1
    <3>3. /\ IsFiniteSet(rows) /\ People(rows) = roster
          /\ \A r \in rows : r.team = t /\ t \in teams /\ \A m \in members : m.id # r.id
      BY <3>2, RowsOfList
    <3> QED BY <3>1, <3>3
  <2>2. members' = members \cup rows
    BY <1>6, <2>1 DEF WithRows
  <2>3. MembersOf(s.team)' = rows /\ \A u : u # s.team => MembersOf(u)' = MembersOf(u)
    BY <1>2, <2>1, <2>2 DEF MembersOf
  <2>4. Entries(s.team)' = s.roster
    BY <2>1, <2>3 DEF Entries
  <2>5. FiniteTables' /\ TeamsThere' /\ \A u : u # s.team => Same(u)
    BY <1>5, <2>1, <2>2, <2>3, FS_Union DEF InOrder, FiniteTables, TeamsThere, Same
  <2> QED BY <1>1, <1>6, <2>4, <2>5, RegisterThen DEF RegisterSteps
<1>7. CASE UNCHANGED members /\ handlers' = [handlers EXCEPT ![h] = [s EXCEPT !.step = "undoMembers"]]
  <2>1. FiniteTables' /\ TeamsThere' /\ \A u : Same(u)
    BY <1>5, <1>7 DEF InOrder, FiniteTables, TeamsThere, Same, MembersOf
  <2> QED BY <1>1, <1>7, <2>1, RegisterThen DEF RegisterSteps
<1> QED BY <1>2, <1>3, <1>4, <1>6, <1>7 DEF InsertMembers, Then, Goes

LEMMA KRoom == ASSUME InOrder, NEW h \in Slots, AddRoom(h) \/ AddCaptain(h) PROVE InOrder'
<1>1. PICK s : Registers(h, s)
  BY AtRegistration DEF AddRoom, AddCaptain, At
<1>2. s = handlers[h] /\ UNCHANGED <<teams, members>>
  BY <1>1 DEF Registers, AddRoom, AddCaptain
<1>3. CASE AddRoom(h)
  <2>1. /\ rooms' = rooms \cup {s.team} /\ UNCHANGED joined
        /\ handlers' = [handlers EXCEPT ![h] = [s EXCEPT !.step = "addCaptain"]]
    BY <1>2, <1>3 DEF AddRoom, Then, Goes
  <2>2. Entries(s.team)' = s.roster
    <3>1. s.step = "addRoom"
      BY <1>2, <1>3 DEF AddRoom, At
    <3>2. Entries(s.team)' = Entries(s.team)
      BY <1>2 DEF Entries, MembersOf
    <3> QED BY <1>1, <3>1, <3>2 DEF Registers, AsFar
  <2>3. FiniteTables' /\ TeamsThere' /\ \A u : u # s.team => Same(u)
    BY <1>2, <2>1, FS_AddElement DEF InOrder, FiniteTables, TeamsThere, Same, MembersOf
  <2> QED BY <1>1, <2>1, <2>2, <2>3, RegisterThen DEF RegisterSteps
<1>4. CASE AddCaptain(h)
  <2>1. /\ joined' = joined \cup {<<s.team, CaptainOf(s.team)>>} /\ UNCHANGED rooms
        /\ handlers' = [handlers EXCEPT ![h] = [s EXCEPT !.step = "sendInvites"]]
    BY <1>2, <1>4 DEF AddCaptain, Then, Goes
  <2>2. Entries(s.team)' = s.roster /\ s.team \in rooms'
    <3>1. s.step = "addCaptain"
      BY <1>2, <1>4 DEF AddCaptain, At
    <3>2. Entries(s.team)' = Entries(s.team)
      BY <1>2 DEF Entries, MembersOf
    <3> QED BY <1>1, <2>1, <3>1, <3>2 DEF Registers, AsFar
  <2>3. FiniteTables' /\ TeamsThere' /\ \A u : u # s.team => Same(u)
    BY <1>2, <2>1, FS_AddElement DEF InOrder, FiniteTables, TeamsThere, Same, MembersOf
  <2> QED BY <1>1, <2>1, <2>2, <2>3, RegisterThen DEF RegisterSteps
<1> QED BY <1>3, <1>4

LEMMA KSendInvites == ASSUME InOrder, NEW h \in Slots, SendInvites(h) PROVE InOrder'
<1>1. PICK s : Registers(h, s)
  BY AtRegistration DEF SendInvites, At
<1>2. s = handlers[h] /\ s.step = "sendInvites"
  BY <1>1 DEF Registers, SendInvites, At
<1>3. UNCHANGED <<teams, members, rooms, joined>> /\ handlers' = [handlers EXCEPT ![h] = Idle]
  BY DEF SendInvites, Goes, tables
<1>4. FiniteTables' /\ TeamsThere' /\ \A u : Same(u)
  BY <1>3 DEF InOrder, FiniteTables, TeamsThere, Same, MembersOf
<1>5. Whole(s.team)
  BY <1>1, <1>2 DEF Registers, AsFar, Whole
<1> QED BY <1>1, <1>3, <1>4, <1>5, SameTeam, RegisterEnds

LEMMA KUndo ==
  ASSUME InOrder, NEW h \in Slots, DeleteMembers(h) \/ DropJoined(h) \/ DropRoom(h) \/ RemoveTeam(h)
  PROVE  InOrder'
<1>1. PICK s : Registers(h, s)
  BY AtRegistration DEF DeleteMembers, DropJoined, DropRoom, RemoveTeam, At
<1>2. s = handlers[h]
  BY <1>1 DEF Registers
<1>3. /\ teams' \in {teams, teams \ {s.team}} /\ rooms' \in {rooms, rooms \ {s.team}}
      /\ members' \in {members, members \ MembersOf(s.team)}
      /\ joined' \in {joined, {j \in joined : j[1] # s.team}}
  BY <1>2 DEF DeleteMembers, DropJoined, DropRoom, RemoveTeam
<1>4. teams' # teams => members' = members \ MembersOf(s.team)
  BY <1>2 DEF DeleteMembers, DropJoined, DropRoom, RemoveTeam
<1>5. FiniteTables'
  BY <1>3, FS_Subset DEF InOrder, FiniteTables
<1>6. TeamsThere'
  BY <1>3, <1>4 DEF InOrder, TeamsThere, MembersOf
<1>7. ASSUME NEW u, u # s.team PROVE Same(u)
  BY <1>3, <1>7 DEF Same, MembersOf
<1>8. \/ /\ handlers' = [handlers EXCEPT ![h] = Idle] /\ s.team \notin teams'
      \/ \E step \in {"dropJoined", "dropRoom", "removeTeam"} :
           handlers' = [handlers EXCEPT ![h] = [s EXCEPT !.step = step]]
  BY <1>2 DEF DeleteMembers, DropJoined, DropRoom, RemoveTeam, Then, Goes
<1>9. \A step \in {"dropJoined", "dropRoom", "removeTeam"} :
        step \in RegisterSteps
        /\ step \notin {"insertTeam", "insertMembers", "addRoom", "addCaptain", "sendInvites"}
  BY DEF RegisterSteps
<1>10. CASE handlers' = [handlers EXCEPT ![h] = Idle] /\ s.team \notin teams'
  BY <1>1, <1>5, <1>6, <1>7, <1>10, RegisterEnds
<1>11. ASSUME NEW step \in {"dropJoined", "dropRoom", "removeTeam"},
              handlers' = [handlers EXCEPT ![h] = [s EXCEPT !.step = step]]
       PROVE  InOrder'
  BY <1>1, <1>5, <1>6, <1>7, <1>9, <1>11, RegisterThen
<1> QED BY <1>8, <1>10, <1>11

LEMMA KStatement == ASSUME InOrder, OnlyRegistrations, NEW h \in Slots, Statement(h) PROVE InOrder'
<1>1. PICK step : At(h, step) /\ step # "idle"
  BY DEF Statement, InsertTeam, InsertMembers, AddRoom, AddCaptain, SendInvites, DeleteMembers, DropJoined,
         DropRoom, RemoveTeam, ClearMembers, InsertRoster, SaveEditedTeam, SaveAnswer, Join, InsertMember,
         SaveLink, AddMissingRoom, JoinMissing
<1>2. PICK s : Registers(h, s)
  BY <1>1, AtRegistration DEF At
<1>3. handlers[h].step \in RegisterSteps
  BY <1>2 DEF Registers
<1>4. ~(\/ ClearMembers(h) \/ InsertRoster(h) \/ SaveEditedTeam(h) \/ SaveAnswer(h) \/ Join(h)
        \/ InsertMember(h) \/ SaveLink(h) \/ AddMissingRoom(h) \/ JoinMissing(h))
  BY <1>3 DEF RegisterSteps, At, ClearMembers, InsertRoster, SaveEditedTeam, SaveAnswer, Join, InsertMember,
              SaveLink, AddMissingRoom, JoinMissing
<1> QED BY <1>4, KInsertTeam, KInsertMembers, KRoom, KSendInvites, KUndo DEF Statement

LEMMA KInit == OnlyRegistrations /\ Init => KInv
<1> SUFFICES ASSUME Init PROVE KInv
  OBVIOUS
<1>1. IsHandlers /\ Apart /\ FiniteTables /\ TeamsThere
  BY FS_EmptySet DEF Init, IsHandlers, Apart, WorksOn, FiniteTables, TeamsThere
<1>2. \A h \in Slots : AsFar(handlers[h])
  BY DEF Init, AsFar
<1> QED BY <1>1, <1>2 DEF Init, InOrder, KInv

LEMMA KNext == OnlyRegistrations /\ KInv /\ [Next]_vars => KInv'
<1> SUFFICES ASSUME OnlyRegistrations, KInv, [Next]_vars PROVE KInv'
  OBVIOUS
<1>1. CASE Crash \/ \E h \in Slots : StatementFails(h)
  BY <1>1 DEF KInv, Crash, StatementFails
<1>2. CASE FinishTournament
  BY <1>2 DEF KInv, FinishTournament
<1>3. CASE UNCHANGED vars \/ StartTournament
  <2>1. /\ UNCHANGED <<teams, members, rooms, joined, handlers, faults>>
        /\ stage' # "finished" => stage # "finished"
    BY <1>3 DEF vars, tables, StartTournament
  <2>2. ASSUME InOrder PROVE InOrder'
    <3>1. IsHandlers' /\ FiniteTables' /\ TeamsThere'
      BY <2>1, <2>2 DEF InOrder, IsHandlers, FiniteTables, TeamsThere
    <3>2. Apart' /\ \A h \in Slots : \A t : WorksOn(h, t)' <=> WorksOn(h, t)
      BY <2>1, <2>2 DEF InOrder, Apart, WorksOn
    <3>3. \A h \in Slots : AsFar(handlers[h])'
      BY <2>1, <2>2 DEF InOrder, AsFar, Entries, MembersOf
    <3>4. \A t : Whole(t)' <=> Whole(t)
      BY <2>1 DEF Whole, Entries, MembersOf
    <3> QED BY <2>1, <2>2, <3>1, <3>2, <3>3, <3>4 DEF InOrder
  <2> QED BY <2>1, <2>2 DEF KInv
<1>4. ASSUME NEW h \in Slots, Request(h) \/ Statement(h) PROVE KInv'
  BY <1>4, StageStays, KBegin, KStatement DEF KInv
<1>5. ASSUME NEW t, NEW u PROVE ~RemoveChatMember(t, u)
  BY DEF RemoveChatMember, OnlyRegistrations
<1> QED BY <1>1, <1>2, <1>3, <1>4, <1>5 DEF Next
-----------------------------------------------------------------------------
(* Theorems *)

\* Handled one at a time, no request leaves a room or a membership without its team, and
\* none that succeeds leaves a team without its room (teams.service.ts:258-267, 546-566).
THEOREM ChatGoesWithTheTeam ==
  ASSUME OneAtATime
  PROVE  Spec => []ChatMatchesTeams
<1>1. IInv => ChatMatchesTeams
  <2> SUFFICES ASSUME IInv, InFlight = {} PROVE ChatMatchesTeams
    BY DEF ChatMatchesTeams
  <2>1. \A h \in Slots : handlers[h] = Idle
    BY DEF InFlight
  <2>2. faults = 0 /\ stage # "finished" => teams \subseteq rooms
    BY <2>1, NobodyRoomless
  <2> QED BY <2>2 DEF ChatMatchesTeams, IInv, TablesOK
<1> QED BY <1>1, OneAtATime, InitInv, NextInv, PTL DEF Spec

\* Handled one at a time, requests keep the tables typed, row ids unique and the foreign key
\* of team_members (team-member.entity.ts:20).
THEOREM RegistrationTypes ==
  ASSUME OneAtATime
  PROVE  Spec => []TypeOK
<1>1. IInv /\ JInv => TypeOK
  BY DEF IInv, IsHandlers, TablesOK, JInv, RowsOK, OneRowEach, TypeOK
<1>2. OneAtATime /\ IInv /\ JInv /\ [Next]_vars => JInv'
  BY JNext DEF StepOK
<1> QED BY <1>1, <1>2, OneAtATime, InitInv, NextInv, JInit, PTL DEF Spec

\* Handled one at a time, no edit, addition or answer takes a team past max_team_size
\* (teams.service.ts:169, 369; team-members.service.ts:66).
THEOREM NobodyOverfillsATeam ==
  ASSUME OneAtATime
  PROVE  Spec => []NoTeamIsOverfull
<1>1. JInv => NoTeamIsOverfull
  BY DEF JInv, RowsOK
<1>2. OneAtATime /\ IInv /\ JInv /\ [Next]_vars => JInv'
  BY JNext DEF StepOK
<1> QED BY <1>1, <1>2, OneAtATime, InitInv, NextInv, JInit, PTL DEF Spec

\* Handled one at a time, answers, links, additions to the chat and the backfill of findMyTeams
\* let only the captain and those on the list into a team's chat (teams.service.ts:86, 466, 753, 795).
THEOREM ChatIsForTheTeam ==
  ASSUME OneAtATime
  PROVE  Spec => OnlyTheTeamJoinsItsChat
<1>1. OneAtATime /\ IInv /\ JInv /\ [Next]_vars => JInv'
  BY JNext DEF StepOK
<1>2. OneAtATime /\ IInv /\ JInv /\ [Next]_vars =>
        [\A j \in joined' \ joined :
           \/ j[1] \in teams' /\ CaptainOf(j[1]) = j[2]
           \/ \E m \in members' : m.team = j[1] /\ m.user = j[2]]_vars
  BY JNext DEF StepOK, JoinsOK
<1> QED BY <1>1, <1>2, OneAtATime, InitInv, NextInv, JInit, PTL DEF Spec, OnlyTheTeamJoinsItsChat

\* However many captains register at once, and whoever they want: as long as no statement fails,
\* each registration leaves the whole team, with its room, or nothing (teams.service.ts:220, 258-267).
THEOREM RegistrationsAreAllOrNothing ==
  ASSUME OnlyRegistrations
  PROVE  Spec => []RegistrationIsAllOrNothing
<1>1. KInv => RegistrationIsAllOrNothing
  <2> SUFFICES ASSUME KInv, InFlight = {}, faults = 0, stage # "finished", NEW t \in teams
               PROVE  Whole(t)
    BY DEF RegistrationIsAllOrNothing, Whole, Entries, People
  <2>1. \A h \in Slots : ~WorksOn(h, t)
    BY DEF InFlight, WorksOn
  <2> QED BY <2>1 DEF KInv, InOrder
<1> QED BY <1>1, OnlyRegistrations, KInit, KNext, PTL DEF Spec
=============================================================================
