------------------------------ MODULE UserRoles ------------------------------
(***************************************************************************)
(* Who is an organizer and who is a juror.  The roles of a user are one    *)
(* string in the users table, and several services rewrite it: the review  *)
(* of an application to become an organizer (applications.service.ts), the *)
(* list of jurors of a tournament (tournaments.service.ts), the            *)
(* administrator (admin.service.ts), and whoever saves a whole row for     *)
(* another reason.  The list and the applications are tables of their own, *)
(* so that the string has to be kept in step with them.                    *)
(*                                                                         *)
(* Each step is one database statement.  A row is saved as it was read,    *)
(* with what the handler changes; a row that is gone is inserted again.    *)
(* The string is the set of its names.                                     *)
(***************************************************************************)
EXTENDS Naturals

CONSTANTS
  Slots,            \* bound: the requests the server may be working on at once
  Users,            \* the accounts
  AssignedRoles,    \* bound: the roles an administrator writes outright
  MaxApplications,  \* bound: how many applications are submitted
  MaxTournaments,   \* bound: how many tournaments are created
  Kinds             \* bound: the kinds of requests a run sends

RoleNames == {"user", "organizer", "jury", "banned"}

ASSUME RolesAssumption ==
  AssignedRoles \subseteq SUBSET RoleNames /\ MaxApplications \in Nat /\ MaxTournaments \in Nat

VARIABLES
  users,            \* the accounts that exist
  role,             \* their roles
  applications,     \* the table organizer_applications
  lastApplication,  \* its last id
  tournaments,      \* the tournaments that exist
  lastTournament,   \* the last id of one
  jury,             \* tournament_jury_members
  handlers,         \* what each handler will do next, and what it has read for it
  unsettled,        \* history: users whose roles were set outright, were saved or decided
                    \* from rows that had changed, or of whom a handler died
  left              \* history: jurors of tournaments that were deleted

vars == <<users, role, applications, lastApplication, tournaments, lastTournament,
          jury, handlers, unsettled, left>>
-----------------------------------------------------------------------------
Roles == SUBSET RoleNames
Status == {"pending", "approved", "rejected"}
Rows == UNION {[S -> Roles] : S \in SUBSET Users}
Application == [id : 1 .. MaxApplications, user : Users,
                status : Status]
Change == [kind : {"add"}, name : {"organizer", "banned"}] \cup [kind : {"remove"}, name : {"banned"}]
          \cup [kind : {"set"}, roles : Roles] \cup [kind : {"keep"}]

Handler ==
  [step : {"idle"}]
  \cup [step : {"insertApplication", "readApplicant"}, user : Users]
  \cup [step : {"saveReview"}, application : Application, verdict : Status]
  \cup [step : {"saveUsers"}, read : Rows, change : Change]
  \cup [step : {"readPrevious"}, tournament : 1 .. MaxTournaments, list : SUBSET Users]
  \cup [step : {"readJurors"}, tournament : 1 .. MaxTournaments, list : SUBSET Users, removed : Rows]
  \cup [step : {"saveJury"}, tournament : 1 .. MaxTournaments, read : Rows, removed : Rows]
  \cup [step : {"grant"}, lacking : Rows, removed : Rows]
  \cup [step : {"count"}, removed : Rows]
  \cup [step : {"strip"}, user : Users, counted : BOOLEAN, removed : Rows]

\* What refers to a row refers to one that is there.
TypeOK ==
  /\ users \subseteq Users /\ role \in [Users -> Roles]
  /\ applications \subseteq Application /\ \A a \in applications : a.user \in users
  /\ lastApplication \in 0 .. MaxApplications
  /\ tournaments \subseteq 1 .. MaxTournaments /\ lastTournament \in 0 .. MaxTournaments
  /\ jury \subseteq tournaments \X users
  /\ handlers \in [Slots -> Handler]
  /\ unsettled \subseteq Users /\ left \subseteq Users

Idle == [step |-> "idle"]

Init ==
  /\ users = Users /\ role = [u \in Users |-> {"user"}]
  /\ applications = {} /\ lastApplication = 0
  /\ tournaments = {} /\ lastTournament = 0 /\ jury = {}
  /\ handlers = [h \in Slots |-> Idle]
  /\ unsettled = {} /\ left = {}
-----------------------------------------------------------------------------
(* How a handler proceeds *)

accounts == <<users, role, unsettled>>
requests == <<applications, lastApplication>>
contests == <<tournaments, lastTournament, jury, left>>

Goes(h, state) == handlers' = [handlers EXCEPT ![h] = state]

At(h, step) == handlers[h].step = step

Begins(h, kind, state) == kind \in Kinds /\ handlers[h] = Idle /\ Goes(h, state)

Only(rows, S) == [u \in S \cap DOMAIN rows |-> rows[u]]

RowsOf(S) == [u \in S |-> role[u]]

\* A row that was read is still so.
Fresh(u, row) == u \in users /\ role[u] = row

Unsettles(S) == unsettled' = unsettled \cup S

IsJuror(u) == \E t \in tournaments : <<t, u>> \in jury

\* removeRole with its fallback, which removeJuryRoleIfNotNeeded has too.
Without(row, name) == IF row \ {name} = {} THEN {"user"} ELSE row \ {name}

Changed(row, change) ==
  CASE change.kind = "add" -> row \cup {change.name}
    [] change.kind = "remove" -> Without(row, change.name)
    [] change.kind = "set" -> change.roles
    [] change.kind = "keep" -> row

\* The users a handler still has to give a role or to take it from.
ToOrganize(h) ==
  IF At(h, "readApplicant") THEN {handlers[h].user}
  ELSE IF At(h, "saveUsers") /\ handlers[h].change = [kind |-> "add", name |-> "organizer"]
       THEN DOMAIN handlers[h].read ELSE {}
ToGrant(h) == IF At(h, "grant") THEN DOMAIN handlers[h].lacking ELSE {}
ToStrip(h) ==
  IF At(h, "grant") \/ At(h, "count") \/ At(h, "strip") THEN DOMAIN handlers[h].removed ELSE {}
-----------------------------------------------------------------------------
(* Accounts *)

\* What a handler saves of the rows it has read.
SaveUsers(h) ==
  /\ At(h, "saveUsers")
  /\ LET read == handlers[h].read
         change == handlers[h].change
     IN  /\ users' = users \cup DOMAIN read
         /\ role' = [u \in Users |-> IF u \in DOMAIN read THEN Changed(read[u], change) ELSE role[u]]
         /\ Unsettles({u \in DOMAIN read : ~Fresh(u, read[u]) \/ change.kind = "set"})
  /\ Goes(h, Idle)
  /\ UNCHANGED <<requests, contests>>

\* bulkAction, whose statements take all the users named that exist.
BeginBulk(h, change) ==
  /\ \E S \in SUBSET users \ {{}} :
       Begins(h, "admin", [step |-> "saveUsers", read |-> RowsOf(S), change |-> change])
  /\ UNCHANGED <<accounts, requests, contests>>

Ban(h) == BeginBulk(h, [kind |-> "add", name |-> "banned"])
Unban(h) == BeginBulk(h, [kind |-> "remove", name |-> "banned"])
ChangeRole(h) == \E roles \in AssignedRoles : BeginBulk(h, [kind |-> "set", roles |-> roles])

\* updateUser without a role, updateMe, updateMyStatus, the password codes, sign-ins
\* through a provider: the row is saved, its roles as they were read.
BeginSave(h) ==
  /\ \E u \in users :
       Begins(h, "profile", [step |-> "saveUsers", read |-> RowsOf({u}), change |-> [kind |-> "keep"]])
  /\ UNCHANGED <<accounts, requests, contests>>

\* deleteUser, bulkAction DELETE, deleteAccount: what refers to the row goes with it.
DeleteUser(u) ==
  /\ "delete" \in Kinds /\ u \in users
  /\ users' = users \ {u} /\ role' = [role EXCEPT ![u] = {}]
  /\ applications' = {a \in applications : a.user # u}
  /\ jury' = {pair \in jury : pair[2] # u}
  /\ UNCHANGED <<lastApplication, tournaments, lastTournament, handlers, unsettled, left>>
-----------------------------------------------------------------------------
(* Applications *)

\* findOne without an order takes the first row of the user.
BeginSubmit(h) ==
  /\ lastApplication < MaxApplications
  /\ \E u \in users :
       /\ LET own == {a \in applications : a.user = u}
          IN  \A a \in own : (\A b \in own : a.id <= b.id) => a.status = "rejected"
       /\ Begins(h, "apply", [step |-> "insertApplication", user |-> u])
  /\ UNCHANGED <<accounts, requests, contests>>

InsertApplication(h) ==
  /\ At(h, "insertApplication")
  /\ IF handlers[h].user \in users /\ lastApplication < MaxApplications
     THEN /\ applications' = applications \cup
               {[id |-> lastApplication + 1, user |-> handlers[h].user, status |-> "pending"]}
          /\ lastApplication' = lastApplication + 1
     ELSE UNCHANGED requests
  /\ Goes(h, Idle)
  /\ UNCHANGED <<accounts, contests>>

BeginReview(h) ==
  /\ \E a \in applications, verdict \in Status :
       /\ a.status = "pending"
       /\ Begins(h, "apply", [step |-> "saveReview", application |-> a, verdict |-> verdict])
  /\ UNCHANGED <<accounts, requests, contests>>

\* Nothing is saved of an application whose user is gone.
SaveReview(h) ==
  /\ At(h, "saveReview")
  /\ LET a == handlers[h].application
         verdict == handlers[h].verdict
     IN  IF a.user \in users
         THEN /\ applications' = {b \in applications : b.id # a.id} \cup {[a EXCEPT !.status = verdict]}
              /\ Goes(h, IF verdict = "approved" THEN [step |-> "readApplicant", user |-> a.user] ELSE Idle)
         ELSE UNCHANGED applications /\ Goes(h, Idle)
  /\ UNCHANGED <<accounts, lastApplication, contests>>

\* An approval gives no role.
FaultyReadApplicant(h) ==
  /\ At(h, "readApplicant")
  /\ Goes(h, Idle)
  /\ UNCHANGED <<accounts, requests, contests>>

ReadApplicant(h) ==
  /\ At(h, "readApplicant")
  /\ LET u == handlers[h].user
     IN  Goes(h, IF u \in users /\ "organizer" \notin role[u]
                 THEN [step |-> "saveUsers", read |-> RowsOf({u}),
                       change |-> [kind |-> "add", name |-> "organizer"]]
                 ELSE Idle)
  /\ UNCHANGED <<accounts, requests, contests>>
-----------------------------------------------------------------------------
(* Jurors *)

Grants(lacking, removed) == [step |-> "grant", lacking |-> lacking, removed |-> removed]

\* Whoever was removed keeps the role.
FaultyProceeds(lacking, removed) ==
  IF DOMAIN lacking # {} THEN Grants(lacking, removed) ELSE Idle

\* ensureJuryRole is through when nobody lacks the role, and so is
\* removeJuryRoleIfNotNeeded when nobody is left who was removed.
Proceeds(lacking, removed) ==
  IF DOMAIN lacking # {} THEN Grants(lacking, removed)
  ELSE IF DOMAIN removed # {} THEN [step |-> "count", removed |-> removed] ELSE Idle

BeginCreate(h) ==
  /\ lastTournament < MaxTournaments
  /\ lastTournament' = lastTournament + 1
  /\ tournaments' = tournaments \cup {lastTournament + 1}
  /\ \E list \in SUBSET Users \ {{}} :
       Begins(h, "jury", [step |-> "readJurors", tournament |-> lastTournament + 1,
                          list |-> list, removed |-> RowsOf({})])
  /\ UNCHANGED <<accounts, requests, jury, left>>

\* jury_ids without repetitions; the other columns have been updated.
BeginUpdate(h) ==
  /\ \E t \in tournaments, list \in SUBSET Users :
       Begins(h, "jury", [step |-> "readPrevious", tournament |-> t, list |-> list])
  /\ UNCHANGED <<accounts, requests, contests>>

ReadPrevious(h) ==
  /\ At(h, "readPrevious")
  /\ LET t == handlers[h].tournament
         list == handlers[h].list
     IN  Goes(h, IF t \in tournaments
                 THEN [step |-> "readJurors", tournament |-> t, list |-> list,
                       removed |-> RowsOf({u \in Users \ list : <<t, u>> \in jury})]
                 ELSE Idle)
  /\ UNCHANGED <<accounts, requests, contests>>

\* All the users listed must be found.
ReadJurors(h) ==
  /\ At(h, "readJurors")
  /\ Goes(h, IF handlers[h].list \subseteq users
             THEN [step |-> "saveJury", tournament |-> handlers[h].tournament,
                   read |-> RowsOf(handlers[h].list), removed |-> handlers[h].removed]
             ELSE Idle)
  /\ UNCHANGED <<accounts, requests, contests>>

\* The table gets the list as it is, whoever was on it; a reference to a user who is
\* gone is refused.
SaveJury(h) ==
  /\ At(h, "saveJury")
  /\ LET t == handlers[h].tournament
         read == handlers[h].read
         removed == handlers[h].removed
         dropped == {u \in Users : <<t, u>> \in jury} \ DOMAIN read
     IN  IF DOMAIN read \subseteq users
         THEN /\ tournaments' = tournaments \cup {t}
              /\ jury' = {pair \in jury : pair[1] # t} \cup ({t} \X DOMAIN read)
              /\ Unsettles({u \in DOMAIN read : ~Fresh(u, read[u])}
                           \cup {u \in DOMAIN removed : ~Fresh(u, removed[u])}
                           \cup (dropped \ DOMAIN removed))
              /\ Goes(h, Proceeds(Only(read, {u \in DOMAIN read : "jury" \notin read[u]}),
                                  Only(removed, {u \in DOMAIN removed : "jury" \in removed[u]})))
         ELSE UNCHANGED <<tournaments, jury, unsettled>> /\ Goes(h, Idle)
  /\ UNCHANGED <<users, role, requests, lastTournament, left>>

Grant(h) ==
  /\ At(h, "grant")
  /\ \E u \in DOMAIN handlers[h].lacking :
       LET lacking == handlers[h].lacking
       IN  /\ users' = users \cup {u}
           /\ role' = [role EXCEPT ![u] = lacking[u] \cup {"jury"}]
           /\ Unsettles(IF Fresh(u, lacking[u]) /\ IsJuror(u) THEN {} ELSE {u})
           /\ Goes(h, Proceeds(Only(lacking, Users \ {u}), handlers[h].removed))
  /\ UNCHANGED <<requests, contests>>

\* The role is taken without asking for other tournaments.
FaultyCountAssignments(h) ==
  /\ At(h, "count")
  /\ \E u \in DOMAIN handlers[h].removed :
       Goes(h, [step |-> "strip", user |-> u, counted |-> IsJuror(u), removed |-> handlers[h].removed])
  /\ UNCHANGED <<accounts, requests, contests>>

CountAssignments(h) ==
  /\ At(h, "count")
  /\ \E u \in DOMAIN handlers[h].removed :
       LET removed == handlers[h].removed
       IN  Goes(h, IF IsJuror(u) THEN Proceeds(RowsOf({}), Only(removed, Users \ {u}))
                   ELSE [step |-> "strip", user |-> u, counted |-> FALSE, removed |-> removed])
  /\ UNCHANGED <<accounts, requests, contests>>

Strip(h) ==
  /\ At(h, "strip")
  /\ LET u == handlers[h].user
         removed == handlers[h].removed
     IN  /\ users' = users \cup {u}
         /\ role' = [role EXCEPT ![u] = Without(removed[u], "jury")]
         /\ Unsettles(IF Fresh(u, removed[u]) /\ IsJuror(u) = handlers[h].counted THEN {} ELSE {u})
         /\ Goes(h, Proceeds(RowsOf({}), Only(removed, Users \ {u})))
  /\ UNCHANGED <<requests, contests>>

\* The roles of the jurors are left as they are.
DeleteTournament(t) ==
  /\ "delete" \in Kinds /\ t \in tournaments
  /\ tournaments' = tournaments \ {t}
  /\ jury' = {pair \in jury : pair[1] # t}
  /\ left' = left \cup {u \in Users : <<t, u>> \in jury}
  /\ UNCHANGED <<accounts, requests, lastTournament, handlers>>
-----------------------------------------------------------------------------
\* A statement fails, or the process dies: the handler does nothing more.
Abandon(h) ==
  /\ handlers[h] # Idle
  /\ Goes(h, Idle)
  /\ Unsettles(ToOrganize(h) \cup ToGrant(h) \cup ToStrip(h))
  /\ UNCHANGED <<users, role, requests, contests>>

Request(h) ==
  \/ Ban(h) \/ Unban(h) \/ ChangeRole(h) \/ BeginSave(h)
  \/ BeginSubmit(h) \/ BeginReview(h) \/ BeginCreate(h) \/ BeginUpdate(h)

Statement(h) ==
  \/ SaveUsers(h) \/ InsertApplication(h) \/ SaveReview(h) \/ ReadApplicant(h)
  \/ ReadPrevious(h) \/ ReadJurors(h) \/ SaveJury(h) \/ Grant(h) \/ CountAssignments(h) \/ Strip(h)

Next ==
  \/ \E h \in Slots : Request(h) \/ Statement(h) \/ Abandon(h)
  \/ \E u \in Users : DeleteUser(u)
  \/ \E t \in tournaments : DeleteTournament(t)

Spec == Init /\ [][Next]_vars
-----------------------------------------------------------------------------
(* Properties *)

\* "Add 'jury' role to users who don't already have it" (tournaments.service.ts:665):
\* whoever is on a list has the role, once the handler that put them there is through with
\* them.  Updates of several lists, reviews, bans and saves may interleave, but the users are
\* excepted whose roles were set outright, were saved or decided from rows that had changed
\* meanwhile, or of whom a handler died: a save of an older row does lose the role.
JurorsHaveTheRole ==
  \A t \in tournaments, u \in Users \ unsettled :
    <<t, u>> \in jury /\ (\A h \in Slots : u \notin ToGrant(h)) => "jury" \in role[u]

\* "Remove 'jury' role from users if they are no longer jury in any tournament"
\* (tournaments.service.ts:679): nobody else keeps it, with the same exceptions and that of
\* the jurors of a tournament that was deleted with its list (tournaments.service.ts:639).
OnlyJurorsHaveTheRole ==
  \A u \in Users \ (unsettled \cup left) :
    "jury" \in role[u] /\ (\A h \in Slots : u \notin ToStrip(h)) => IsJuror(u)

\* An approved applicant is an organizer (applications.service.ts:121-143), and stays one
\* while other roles are granted and taken, with the exceptions of JurorsHaveTheRole.
ApprovedAreOrganizers ==
  \A a \in applications :
    a.status = "approved" /\ a.user \notin unsettled /\ (\A h \in Slots : a.user \notin ToOrganize(h))
      => "organizer" \in role[a.user]

\* "You have already applied. Wait for the answer." (applications.service.ts:40): a
\* user who waits for an answer cannot apply again.
OnePendingApplication ==
  \A a, b \in applications : a.status = "pending" /\ b.status = "pending" /\ a.user = b.user => a = b
=============================================================================
