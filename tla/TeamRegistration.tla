-------------------------- MODULE TeamRegistration --------------------------
(***************************************************************************)
(* Teams of one tournament: registration, invitations, edits, removal, and *)
(* the chat room that belongs to a team.  As in LifecycleRequests every    *)
(* step is one database statement and a handler keeps what it has read;    *)
(* the reads a handler makes before its first write are one step.  A       *)
(* statement may fail, which is what the handlers' catch blocks are for,   *)
(* and the process may die.                                                *)
(*                                                                         *)
(* chat_rooms and chat_room_members are tied to a team by the string       *)
(* team_<id> alone: no foreign key clears them.  Messages, notifications   *)
(* and the checks of a user's full name are left out.                      *)
(***************************************************************************)
EXTENDS Integers, SequencesExt

CONSTANTS
  Slots,        \* bound: the requests the server may be working on at once
  Users,
  Emails,
  NoEmail,      \* the empty string, which a member given no e-mail gets
  NoUser, NoTeam,   \* user_id, team_id are NULL
  Rosters,      \* bound: the lists of members that requests give
  Linked,       \* bound: the users that requests link to a row
  MinSize, MaxSize,  \* min_team_size, max_team_size
  TeamsLimit,   \* teams_limit
  Kinds,        \* bound: the kinds of requests a run sends
  MaxInFlight,  \* bound: how many handlers may be at work at once
  MaxFaults     \* bound: how many statements fail, or how often the process dies

ASSUME RegistrationAssumption ==
  /\ MinSize \in Nat \ {0} /\ MaxSize \in Nat /\ MinSize <= MaxSize
  /\ TeamsLimit \in Nat \ {0} /\ MaxInFlight \in Nat /\ MaxFaults \in Nat
  /\ NoUser \notin Users /\ Linked \subseteq Users /\ NoEmail \notin Emails
  /\ NoTeam \notin Users \X Nat
  /\ Rosters \subseteq SUBSET [email : Emails \cup {NoEmail}, user : Users \cup {NoUser}]
  /\ \A roster \in Rosters : IsFiniteSet(roster)

VARIABLES
  stage,     \* the tournament's status, as far as teams depend on it
  teams,     \* the table teams, by id
  members,   \* the table team_members
  rooms,     \* the teams whose room is in chat_rooms
  joined,    \* chat_room_members, as pairs of a team and a user
  handlers,  \* what each handler will do next, and what it has read for it
  faults     \* failed statements and crashes so far

tables == <<teams, members, rooms, joined>>
vars == <<stage, teams, members, rooms, joined, handlers, faults>>
-----------------------------------------------------------------------------
Stage == {"registration", "running", "finished"}

\* Ids are handed out by the database.  To have fewer of them, those of teams are
\* numbered for each captain apart, and those of rows for each e-mail: an id that
\* is in no table and that no handler holds stands for a fresh one.
TeamId == Users \X (Nat \ {0})
CaptainOf(t) == t[1]
Answer == {"pending", "accepted", "rejected"}
MemberId == (Emails \cup {NoEmail}) \X (Nat \ {0})
Member == [id : MemberId, team : TeamId \cup {NoTeam}, email : Emails \cup {NoEmail},
           user : Users \cup {NoUser}, status : Answer,
           entered : BOOLEAN]   \* tournament_id is set
RoomMember == TeamId \X Users   \* the two are the primary key

Idle == [step |-> "idle"]

TypeOK ==
  /\ stage \in Stage /\ faults \in 0 .. MaxFaults
  /\ teams \subseteq TeamId /\ members \subseteq Member
  /\ \A m1, m2 \in members : m1.id = m2.id => m1 = m2
  /\ \A m \in members : m.team = NoTeam \/ m.team \in teams
  /\ rooms \subseteq TeamId /\ joined \subseteq RoomMember
  /\ DOMAIN handlers = Slots

Init ==
  /\ stage = "registration" /\ faults = 0
  /\ teams = {} /\ members = {} /\ rooms = {} /\ joined = {}
  /\ handlers = [h \in Slots |-> Idle]
-----------------------------------------------------------------------------
(* The tables *)

MembersOf(t) == {m \in members : m.team = t}

Holding(field) == {handlers[h] : h \in {g \in Slots : field \in DOMAIN handlers[g]}}

\* One of the ids <<key, 1>>, <<key, 2>>, ... that is not used.
Unused(key, used) == CHOOSE i \in {key} \X (1 .. Cardinality(used) + 1) : i \notin used

UsedTeams ==
  teams \cup rooms \cup {j[1] : j \in joined} \cup {s.team : s \in Holding("team")}
  \cup UNION {s.todo : s \in Holding("todo")}

UsedMembers ==
  {m.id : m \in members} \cup {s.row.id : s \in Holding("row")}
  \cup UNION {s.loaded : s \in Holding("loaded")}

\* Definitions named Faulty... are what a plausible slip in the code would make of
\* the definition that follows; PROJECT.json substitutes them, nothing here uses them.

\* The rows of a roster, with fresh ids.
NewRows(t, roster, status) ==
  {[id |-> Unused(e.email, UsedMembers), team |-> t, email |-> e.email, user |-> e.user,
    status |-> status[e], entered |-> TRUE] : e \in roster}

WithRows(rows) == {m \in members : m.id \notin {n.id : n \in rows}} \cup rows

\* Unique index (email, tournament), which no NULL violates; foreign key on the team.
CanSave(rows) ==
  /\ \A m \in rows : m.team = NoTeam \/ m.team \in teams
  /\ \A m \in rows, n \in WithRows(rows) : m.entered /\ n.entered /\ m.email = n.email => m = n

\* Saves a team: TypeORM also makes the rows of team_members agree
\* with the list of members the entity was loaded with, and so detaches the
\* team's other rows.
SaveTeam(team, loaded) ==
  /\ teams' = teams \cup {team}
  /\ members' = {IF m.id \in loaded THEN [m EXCEPT !.team = team]
                 ELSE IF m.team = team THEN [m EXCEPT !.team = NoTeam] ELSE m : m \in members}
-----------------------------------------------------------------------------
(* How a handler proceeds *)

InFlight == {h \in Slots : handlers[h] # Idle}
Goes(h, state) == handlers' = [handlers EXCEPT ![h] = state]
Then(h, step) == Goes(h, [handlers[h] EXCEPT !.step = step])

Begins(h, kind, state) ==
  /\ kind \in Kinds /\ handlers[h] = Idle /\ Cardinality(InFlight) < MaxInFlight
  /\ Goes(h, state)
  /\ UNCHANGED <<stage, tables, faults>>

At(h, step) == handlers[h].step = step /\ UNCHANGED <<stage, faults>>
-----------------------------------------------------------------------------
(* createTeam *)

SizeOK(roster) == Cardinality(roster) \in MinSize .. MaxSize

BeginCreateTeam(h, captain, roster) ==
  /\ stage = "registration"
  /\ \A t \in teams : CaptainOf(t) # captain
  /\ Cardinality(teams) < TeamsLimit
  /\ roster = {} \/ SizeOK(roster)
  /\ \A e \in roster, m \in members :
       m.entered /\ e.email = m.email => e.email = NoEmail
  /\ Begins(h, "createTeam", [step |-> "insertTeam", roster |-> roster,
                              team |-> Unused(captain, UsedTeams)])

\* Names are left out: the unique index (name, tournament_id, captain_id) refuses a
\* captain's second team if it has the name of the first, which it need not have.
InsertTeam(h) ==
  /\ At(h, "insertTeam")
  /\ LET new == handlers[h].team IN
     \/ /\ \E t \in teams : CaptainOf(t) = CaptainOf(new)
        /\ Goes(h, Idle) /\ UNCHANGED teams
     \/ /\ teams' = teams \cup {new}
        /\ Then(h, IF handlers[h].roster = {} THEN "addRoom" ELSE "insertMembers")
  /\ UNCHANGED <<members, rooms, joined>>

\* A refused list of members is answered without the clean-up.
FaultyInsertMembers(h) ==
  /\ At(h, "insertMembers")
  /\ LET status == [e \in handlers[h].roster |-> IF e.user = NoUser THEN "accepted" ELSE "pending"]
         rows   == NewRows(handlers[h].team, handlers[h].roster, status)
     IN  IF CanSave(rows)
         THEN members' = WithRows(rows) /\ Then(h, "addRoom")
         ELSE UNCHANGED members /\ Goes(h, Idle)
  /\ UNCHANGED <<teams, rooms, joined>>

\* Members with an account are asked, the others are on the team at once.
InsertMembers(h) ==
  /\ At(h, "insertMembers")
  /\ LET status == [e \in handlers[h].roster |-> IF e.user = NoUser THEN "accepted" ELSE "pending"]
         rows   == NewRows(handlers[h].team, handlers[h].roster, status)
     IN  IF CanSave(rows)
         THEN members' = WithRows(rows) /\ Then(h, "addRoom")
         ELSE UNCHANGED members /\ Then(h, "undoMembers")
  /\ UNCHANGED <<teams, rooms, joined>>

AddRoom(h) ==
  /\ At(h, "addRoom")
  /\ rooms' = rooms \cup {handlers[h].team}
  /\ Then(h, "addCaptain")
  /\ UNCHANGED <<teams, members, joined>>

AddCaptain(h) ==
  /\ At(h, "addCaptain")
  /\ joined' = joined \cup {<<handlers[h].team, CaptainOf(handlers[h].team)>>}
  /\ Then(h, "sendInvites")
  /\ UNCHANGED <<teams, members, rooms>>

\* Writes notifications, which are not kept here, but may fail like the rest.
SendInvites(h) ==
  /\ At(h, "sendInvites")
  /\ Goes(h, Idle)
  /\ UNCHANGED tables

\* The catch block, and what deleteTeam does: four deletes and three.
DeleteMembers(h) ==
  /\ At(h, "undoMembers")
  /\ members' = members \ MembersOf(handlers[h].team)
  /\ Then(h, "dropJoined")
  /\ UNCHANGED <<teams, rooms, joined>>

DropJoined(h) ==
  /\ At(h, "dropJoined")
  /\ joined' = {j \in joined : j[1] # handlers[h].team}
  /\ Then(h, "dropRoom")
  /\ UNCHANGED <<teams, members, rooms>>

\* The memberships go, the room stays.
FaultyDropRoom(h) ==
  /\ At(h, "dropRoom")
  /\ Then(h, "removeTeam")
  /\ UNCHANGED tables

DropRoom(h) ==
  /\ At(h, "dropRoom")
  /\ rooms' = rooms \ {handlers[h].team}
  /\ Then(h, "removeTeam")
  /\ UNCHANGED <<teams, members, joined>>

\* team_members of the team go with it (ON DELETE CASCADE).
RemoveTeam(h) ==
  /\ At(h, "removeTeam")
  /\ teams' = teams \ {handlers[h].team}
  /\ members' = members \ MembersOf(handlers[h].team)
  /\ Goes(h, Idle)
  /\ UNCHANGED <<rooms, joined>>

BeginDeleteTeam(h, team) == Begins(h, "deleteTeam", [step |-> "dropJoined", team |-> team])

\* AdminService.deleteTeam asks for the same rows, with statements of its own.
BeginAdminDeleteTeam(h, team) ==
  Begins(h, "adminDeleteTeam", [step |-> "dropJoined", team |-> team])
-----------------------------------------------------------------------------
(* updateTeam *)

\* With a roster, every row of team_members is deleted and new ones are inserted;
\* users the team had before keep the answer that was read at the beginning.
BeginUpdateTeam(h, team, rosterGiven, roster) ==
  /\ stage = "registration"
  /\ rosterGiven => SizeOK(roster)
  /\ LET mine == MembersOf(team)
         was  == [u \in {m.user : m \in mine} \ {NoUser} |->
                    (CHOOSE m \in mine : m.user = u).status]
     IN  Begins(h, "updateTeam",
           [step |-> IF rosterGiven THEN "clearMembers" ELSE "saveTeam",
            roster |-> roster,
            team |-> team, loaded |-> {m.id : m \in mine}, was |-> was])

ClearMembers(h) ==
  /\ At(h, "clearMembers")
  /\ members' = members \ MembersOf(handlers[h].team)
  /\ Then(h, "insertRoster")
  /\ UNCHANGED <<teams, rooms, joined>>

InsertRoster(h) ==
  /\ At(h, "insertRoster")
  /\ LET was    == handlers[h].was
         status == [e \in handlers[h].roster |->
                      IF e.user = NoUser THEN "accepted"
                      ELSE IF e.user \in DOMAIN was THEN was[e.user] ELSE "pending"]
         rows   == NewRows(handlers[h].team, handlers[h].roster, status)
     IN  IF CanSave(rows) THEN members' = WithRows(rows) /\ Then(h, "saveTeam")
                          ELSE UNCHANGED members /\ Goes(h, Idle)
  /\ UNCHANGED <<teams, rooms, joined>>

SaveEditedTeam(h) ==
  /\ At(h, "saveTeam")
  /\ \/ SaveTeam(handlers[h].team, handlers[h].loaded)
     \/ /\ \E t \in teams \ {handlers[h].team} : CaptainOf(t) = CaptainOf(handlers[h].team)
        /\ UNCHANGED <<teams, members>>
  /\ Goes(h, Idle)
  /\ UNCHANGED <<rooms, joined>>
-----------------------------------------------------------------------------
(* Invitations, single members, the chat room *)

BeginAnswer(h, m, answer) ==
  /\ m.user # NoUser /\ m.status = "pending"
  /\ Begins(h, IF answer = "accepted" THEN "acceptInvite" ELSE "rejectInvite",
            [step |-> "saveAnswer", row |-> [m EXCEPT !.status = answer]])

\* The row is saved with the team it was read with; if it is gone it is inserted
\* again, without the tournament, which was not read.
SaveAnswer(h) ==
  /\ At(h, "saveAnswer")
  /\ LET held == handlers[h].row
         row  == [held EXCEPT !.entered = @ /\ \E m \in members : m.id = held.id]
     IN  /\ members' = IF CanSave({row}) THEN WithRows({row}) ELSE members
         /\ Goes(h, IF CanSave({row}) /\ row.status = "accepted" /\ row.team # NoTeam
                    THEN [step |-> "join", team |-> row.team, user |-> row.user] ELSE Idle)
  /\ UNCHANGED <<teams, rooms, joined>>

Join(h) ==
  /\ At(h, "join")
  /\ joined' = joined \cup {<<handlers[h].team, handlers[h].user>>}
  /\ Goes(h, Idle)
  /\ UNCHANGED <<teams, members, rooms>>

FaultyBeginAddMember(h, team, email) ==
  /\ \A m \in members : m.entered => m.email # email
  /\ Cardinality(MembersOf(team)) <= MaxSize
  /\ Begins(h, "addMember", [step |-> "insertMember", team |-> team, email |-> email])

BeginAddMember(h, team, email) ==
  /\ \A m \in members : m.entered => m.email # email
  /\ Cardinality(MembersOf(team)) < MaxSize
  /\ Begins(h, "addMember", [step |-> "insertMember", team |-> team, email |-> email])

InsertMember(h) ==
  /\ At(h, "insertMember")
  /\ LET entry == [email |-> handlers[h].email, user |-> NoUser]
         rows  == NewRows(handlers[h].team, {entry}, [e \in {entry} |-> "accepted"])
     IN  members' = IF CanSave(rows) THEN WithRows(rows) ELSE members
  /\ Goes(h, Idle)
  /\ UNCHANGED <<teams, rooms, joined>>

BeginLinkMember(h, m, user) ==
  /\ m.team # NoTeam
  /\ Begins(h, "linkMemberToUser", [step |-> "saveLink", row |-> [m EXCEPT !.user = user]])

\* Neither team nor tournament was read with the row: they are not written, and a
\* row that is gone is inserted again without them.
SaveLink(h) ==
  /\ At(h, "saveLink")
  /\ LET row  == handlers[h].row
         team == UNION {{m.team} : m \in {n \in members : n.id = row.id}}
     IN
     /\ members' = WithRows({IF team = {} THEN [row EXCEPT !.team = NoTeam, !.entered = FALSE]
                             ELSE [row EXCEPT !.team = CHOOSE t \in team : TRUE]})
     /\ Goes(h, [step |-> "join", team |-> row.team, user |-> row.user])
  /\ UNCHANGED <<teams, rooms, joined>>

FaultyBeginAddChatMember(h, team, user) ==
  Begins(h, "addChatMember", [step |-> "join", team |-> team, user |-> user])

BeginAddChatMember(h, team, user) ==
  /\ CaptainOf(team) = user \/ \E m \in MembersOf(team) : m.user = user
  /\ Begins(h, "addChatMember", [step |-> "join", team |-> team, user |-> user])

RemoveChatMember(team, user) ==
  /\ "removeChatMember" \in Kinds /\ Cardinality(InFlight) < MaxInFlight
  /\ joined' = joined \ {<<team, user>>}
  /\ UNCHANGED <<stage, teams, members, rooms, handlers, faults>>

\* findMyTeams makes up for missing rooms and memberships, team by team.
TeamsOf(user) ==
  {t \in teams : CaptainOf(t) = user}
  \cup {m.team : m \in {x \in members : x.user = user /\ x.status = "accepted" /\ x.team # NoTeam}}

BeginFindMyTeams(h, user) ==
  /\ TeamsOf(user) # {}
  /\ Begins(h, "findMyTeams", [step |-> "addMissingRoom", todo |-> TeamsOf(user), user |-> user])

AddMissingRoom(h) ==
  /\ At(h, "addMissingRoom")
  /\ \E t \in handlers[h].todo :
       /\ rooms' = rooms \cup {t}
       /\ Goes(h, [step |-> "joinMissing", team |-> t, user |-> handlers[h].user,
                   todo |-> handlers[h].todo \ {t}])
  /\ UNCHANGED <<teams, members, joined>>

JoinMissing(h) ==
  /\ At(h, "joinMissing")
  /\ joined' = joined \cup {<<handlers[h].team, handlers[h].user>>}
  /\ Goes(h, IF handlers[h].todo = {} THEN Idle
             ELSE [step |-> "addMissingRoom", todo |-> handlers[h].todo, user |-> handlers[h].user])
  /\ UNCHANGED <<teams, members, rooms>>
-----------------------------------------------------------------------------
(* The tournament, and what goes wrong *)

StartTournament ==
  /\ stage = "registration" /\ stage' = "running"
  /\ UNCHANGED <<tables, handlers, faults>>

\* By the timer's pass, which removes the teams' rooms, one after the other in the
\* code and in one step here; or by hand, which does not.
FinishTournament ==
  /\ stage = "running" /\ stage' = "finished"
  /\ rooms' = rooms \ teams \/ UNCHANGED rooms
  /\ UNCHANGED <<teams, members, joined, handlers, faults>>

\* createTeam catches what fails after the team is saved; an error while it
\* cleans up is swallowed, and any other handler answers with an error.
StatementFails(h) ==
  /\ faults < MaxFaults /\ faults' = faults + 1
  /\ handlers[h] # Idle
  /\ IF handlers[h].step \in {"insertMembers", "addRoom", "addCaptain", "sendInvites"}
     THEN Then(h, "undoMembers") ELSE Goes(h, Idle)
  /\ UNCHANGED <<stage, tables>>

Crash ==
  /\ faults < MaxFaults /\ faults' = faults + 1
  /\ InFlight # {} /\ handlers' = [h \in Slots |-> Idle]
  /\ UNCHANGED <<stage, tables>>
-----------------------------------------------------------------------------
Request(h) ==
  \/ \E u \in Users, roster \in Rosters \cup {{}} : BeginCreateTeam(h, u, roster)
  \/ \E t \in teams, roster \in Rosters : BeginUpdateTeam(h, t, TRUE, roster)
  \/ \E t \in teams : BeginUpdateTeam(h, t, FALSE, {})
  \/ \E t \in teams : BeginDeleteTeam(h, t) \/ BeginAdminDeleteTeam(h, t)
  \/ \E m \in members, answer \in {"accepted", "rejected"} : BeginAnswer(h, m, answer)
  \/ \E t \in teams, email \in Emails : BeginAddMember(h, t, email)
  \/ \E m \in members, u \in Linked : BeginLinkMember(h, m, u)
  \/ \E t \in teams, u \in Users : BeginAddChatMember(h, t, u)
  \/ \E u \in Users : BeginFindMyTeams(h, u)

Statement(h) ==
  \/ InsertTeam(h) \/ InsertMembers(h) \/ AddRoom(h) \/ AddCaptain(h) \/ SendInvites(h)
  \/ DeleteMembers(h) \/ DropJoined(h) \/ DropRoom(h) \/ RemoveTeam(h)
  \/ ClearMembers(h) \/ InsertRoster(h) \/ SaveEditedTeam(h)
  \/ SaveAnswer(h) \/ Join(h) \/ InsertMember(h) \/ SaveLink(h)
  \/ AddMissingRoom(h) \/ JoinMissing(h)

Next ==
  \/ \E h \in Slots : Request(h) \/ Statement(h) \/ StatementFails(h)
  \/ \E t \in teams, u \in Users : RemoveChatMember(t, u)
  \/ StartTournament \/ FinishTournament \/ Crash

Spec == Init /\ [][Next]_vars
-----------------------------------------------------------------------------
(* Properties *)

\* "You are already registered in this tournament" (teams.service.ts:134).
OneTeamPerCaptain == \A t1, t2 \in teams : CaptainOf(t1) = CaptainOf(t2) => t1 = t2

\* No team takes in more members than max_team_size, whoever adds them and
\* however often its list is rewritten.
NoTeamIsOverfull == \A t \in teams : Cardinality(MembersOf(t)) <= MaxSize

\* A team and its chat come and go together: whatever statement fails, no room
\* and no membership outlives its team, and if none fails every team has a room
\* until the tournament is finished: a refused registration leaves nothing behind.
ChatMatchesTeams ==
  InFlight = {} =>
    /\ rooms \cup {j[1] : j \in joined} \subseteq teams
    /\ faults = 0 /\ stage # "finished" => teams \subseteq rooms

\* Comment at teams.service.ts:260, "otherwise an orphaned team row stays":
\* when several captains register at once and want the same people, a team that is
\* left has all its members, its room and its captain in it, and the loser nothing.
RegistrationIsAllOrNothing ==
  InFlight = {} /\ faults = 0 /\ stage # "finished" =>
    \A t \in teams :
      /\ {[email |-> m.email, user |-> m.user] : m \in MembersOf(t)} \in Rosters \cup {{}}
      /\ t \in rooms /\ <<t, CaptainOf(t)>> \in joined

\* Whoever enters a team's chat is its captain or on its list at that moment: no
\* answer, link or backfill lets in somebody the team no longer has.
OnlyTheTeamJoinsItsChat ==
  [][\A j \in joined' \ joined :
       \/ j[1] \in teams' /\ CaptainOf(j[1]) = j[2]
       \/ \E m \in members' : m.team = j[1] /\ m.user = j[2]]_vars

\* "Team size must be between min and max" (teams.service.ts:372): an edit that is
\* answered with success leaves the team with a list of that size.
EditedTeamHasItsSize ==
  [][\A h \in Slots :
       handlers[h] # Idle /\ handlers[h].step = "saveTeam" /\ handlers[h].roster # {}
         /\ handlers'[h] = Idle /\ faults' = faults =>
       Cardinality({m \in members' : m.team = handlers[h].team}) \in MinSize .. MaxSize]_vars
=============================================================================
