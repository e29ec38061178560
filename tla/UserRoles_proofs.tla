-------------------------- MODULE UserRoles_proofs --------------------------
(***************************************************************************)
(* The roles follow the tables, for every number of users, tournaments,    *)
(* applications and requests, but for the users that unsettled and left    *)
(* name; and nobody is named while requests come one at a time.            *)
(*                                                                         *)
(* The three properties are inductive once they are joined with the types  *)
(* and with what a handler that takes a role relies on: it has counted no  *)
(* assignment of a user whose row it holds (Counted).  That nobody is      *)
(* named rests on the rows that handlers hold being those of the table     *)
(* (SteadyInv).                                                            *)
(***************************************************************************)
EXTENDS UserRoles, TLAPS

\* Whom a handler in some state still has to make an organizer or a juror, or to
\* take the role from.
OrganizesOf(s) ==
  IF s.step = "readApplicant" THEN {s.user}
  ELSE IF s.step = "saveUsers" /\ s.change = [kind |-> "add", name |-> "organizer"]
       THEN DOMAIN s.read ELSE {}
GrantsOf(s) == IF s.step = "grant" THEN DOMAIN s.lacking ELSE {}
StripsOf(s) == IF s.step \in {"grant", "count", "strip"} THEN DOMAIN s.removed ELSE {}

CountedBy(s) == s.step = "strip" => s.counted = FALSE /\ s.user \in DOMAIN s.removed

Counted == \A h \in Slots : CountedBy(handlers[h])

Settled == JurorsHaveTheRole /\ OnlyJurorsHaveTheRole /\ ApprovedAreOrganizers

IInv == TypeOK /\ Counted /\ Settled
-----------------------------------------------------------------------------
(* Rows and states of handlers *)

LEMMA RowsTypes ==
  ASSUME role \in [Users -> Roles], NEW rows \in Rows, NEW S
  PROVE  /\ Only(rows, S) \in Rows /\ DOMAIN Only(rows, S) = S \cap DOMAIN rows
         /\ DOMAIN rows \subseteq Users
         /\ \A u \in DOMAIN rows : rows[u] \in Roles
         /\ S \subseteq Users => RowsOf(S) \in Rows
         /\ DOMAIN RowsOf(S) = S
<1>1. PICK D \in SUBSET Users : rows \in [D -> Roles]
  BY DEF Rows
<1>2. DOMAIN rows = D
  BY <1>1
<1>3. Only(rows, S) \in [S \cap D -> Roles] /\ S \cap D \in SUBSET Users
  BY <1>1, <1>2 DEF Only
<1>4. ASSUME S \subseteq Users PROVE RowsOf(S) \in [S -> Roles]
  BY <1>4 DEF RowsOf
<1>5. DOMAIN RowsOf(S) = S
  BY DEF RowsOf
<1> QED BY <1>1, <1>2, <1>3, <1>4, <1>5 DEF Rows

LEMMA NoRows == RowsOf({}) \in Rows /\ DOMAIN RowsOf({}) = {}
BY DEF RowsOf, Rows

LEMMA Fields ==
  ASSUME NEW s \in Handler
  PROVE  /\ s.step \in {"insertApplication", "readApplicant", "strip"} => s.user \in Users
         /\ s.step = "saveReview" => s.application \in Application /\ s.verdict \in Status
         /\ s.step = "saveUsers" => s.read \in Rows /\ s.change \in Change
         /\ s.step \in {"readPrevious", "readJurors", "saveJury"} => s.tournament \in 1 .. MaxTournaments
         /\ s.step \in {"readPrevious", "readJurors"} => s.list \subseteq Users
         /\ s.step \in {"readJurors", "saveJury", "grant", "count", "strip"} => s.removed \in Rows
         /\ s.step = "saveJury" => s.read \in Rows
         /\ s.step = "grant" => s.lacking \in Rows
BY DEF Handler

LEMMA ProceedsType ==
  ASSUME NEW lacking \in Rows, NEW removed \in Rows
  PROVE  /\ Proceeds(lacking, removed) \in Handler
         /\ GrantsOf(Proceeds(lacking, removed)) = DOMAIN lacking
         /\ StripsOf(Proceeds(lacking, removed)) = DOMAIN removed
         /\ CountedBy(Proceeds(lacking, removed))
<1>1. CASE DOMAIN lacking # {}
  <2>1. Proceeds(lacking, removed) = [step |-> "grant", lacking |-> lacking, removed |-> removed]
    BY <1>1 DEF Proceeds, Grants
  <2> QED BY <2>1 DEF Handler, GrantsOf, StripsOf, CountedBy
<1>2. CASE DOMAIN lacking = {} /\ DOMAIN removed # {}
  <2>1. Proceeds(lacking, removed) = [step |-> "count", removed |-> removed]
    BY <1>2 DEF Proceeds
  <2> QED BY <1>2, <2>1 DEF Handler, GrantsOf, StripsOf, CountedBy
<1>3. CASE DOMAIN lacking = {} /\ DOMAIN removed = {}
  <2>1. Proceeds(lacking, removed) = [step |-> "idle"]
    BY <1>3 DEF Proceeds, Idle
  <2> QED BY <1>3, <2>1 DEF Handler, GrantsOf, StripsOf, CountedBy
<1> QED BY <1>1, <1>2, <1>3

LEMMA ChangedType ==
  ASSUME NEW row \in Roles, NEW change \in Change
  PROVE  /\ Changed(row, change) \in Roles
         /\ change.kind # "set" => ("jury" \in Changed(row, change) <=> "jury" \in row)
         /\ change.kind # "set" /\ "organizer" \in row => "organizer" \in Changed(row, change)
         /\ change = [kind |-> "add", name |-> "organizer"] => "organizer" \in Changed(row, change)
<1>1. CASE change \in [kind : {"add"}, name : {"organizer", "banned"}]
  <2>1. change.kind = "add" /\ change.name \in {"organizer", "banned"}
    BY <1>1
  <2>2. Changed(row, change) = row \cup {change.name}
    BY <2>1 DEF Changed
  <2>3. change = [kind |-> "add", name |-> "organizer"] => change.name = "organizer"
    OBVIOUS
  <2>4. row \cup {change.name} \in Roles
    BY <2>1 DEF Roles, RoleNames
  <2>5. "jury" \in Changed(row, change) <=> "jury" \in row
    BY <2>1, <2>2
  <2> QED BY <2>2, <2>3, <2>4, <2>5
<1>2. CASE change \in [kind : {"remove"}, name : {"banned"}]
  <2>1. change.kind = "remove" /\ change.name = "banned"
    BY <1>2
  <2>2. Changed(row, change) = IF row \ {"banned"} = {} THEN {"user"} ELSE row \ {"banned"}
    BY <2>1 DEF Changed, Without
  <2> QED BY <2>1, <2>2 DEF Roles, RoleNames
<1>3. CASE change \in [kind : {"set"}, roles : Roles]
  <2>1. change.kind = "set" /\ change.roles \in Roles
    BY <1>3
  <2>2. Changed(row, change) = change.roles
    BY <2>1 DEF Changed
  <2>3. change # [kind |-> "add", name |-> "organizer"]
    BY <2>1
  <2> QED BY <2>1, <2>2, <2>3
<1>4. CASE change \in [kind : {"keep"}]
  <2>1. change.kind = "keep"
    BY <1>4
  <2>2. Changed(row, change) = row
    BY <2>1 DEF Changed
  <2>3. change # [kind |-> "add", name |-> "organizer"]
    BY <2>1
  <2> QED BY <2>1, <2>2, <2>3
<1> QED BY <1>1, <1>2, <1>3, <1>4 DEF Change

LEMMA WithoutJury ==
  ASSUME NEW row \in Roles
  PROVE  /\ Without(row, "jury") \in Roles /\ "jury" \notin Without(row, "jury")
         /\ "organizer" \in row => "organizer" \in Without(row, "jury")
BY DEF Without, Roles, RoleNames

\* What a handler owes, told from its state.
LEMMA Owed ==
  ASSUME NEW h \in Slots
  PROVE  /\ ToOrganize(h) = OrganizesOf(handlers[h]) /\ ToOrganize(h)' = OrganizesOf(handlers'[h])
         /\ ToGrant(h) = GrantsOf(handlers[h]) /\ ToGrant(h)' = GrantsOf(handlers'[h])
         /\ ToStrip(h) = StripsOf(handlers[h]) /\ ToStrip(h)' = StripsOf(handlers'[h])
BY DEF ToOrganize, ToGrant, ToStrip, OrganizesOf, GrantsOf, StripsOf, At

LEMMA OneMoves ==
  ASSUME handlers \in [Slots -> Handler], Counted,
         NEW h \in Slots, NEW s \in Handler, CountedBy(s), Goes(h, s)
  PROVE  /\ handlers' \in [Slots -> Handler] /\ Counted'
         /\ \A g \in Slots : handlers'[g] = IF g = h THEN s ELSE handlers[g]
<1>1. handlers' \in [Slots -> Handler] /\ \A g \in Slots : handlers'[g] = IF g = h THEN s ELSE handlers[g]
  BY DEF Goes
<1>2. \A g \in Slots : CountedBy(handlers'[g])
  BY <1>1 DEF Counted
<1> QED BY <1>1, <1>2 DEF Counted, CountedBy

\* A step that writes no account, list or application, after which the handler owes
\* what it did, but for users who are unsettled or have what they should.
LEMMA Quiet ==
  ASSUME TypeOK, Settled, NEW h \in Slots, NEW s,
         \A g \in Slots : handlers'[g] = IF g = h THEN s ELSE handlers[g],
         UNCHANGED <<users, role, applications, jury, left>>,
         tournaments \subseteq tournaments', unsettled \subseteq unsettled',
         \A u \in OrganizesOf(handlers[h]) :
            u \in users => u \in OrganizesOf(s) \/ u \in unsettled' \/ "organizer" \in role[u],
         \A u \in GrantsOf(handlers[h]) : u \in GrantsOf(s) \/ u \in unsettled',
         \A u \in StripsOf(handlers[h]) : u \in StripsOf(s) \/ u \in unsettled' \/ IsJuror(u)
  PROVE  Settled'
<1>1. \A u : IsJuror(u) => IsJuror(u)'
  BY DEF IsJuror
<1>2. JurorsHaveTheRole'
  <2> SUFFICES ASSUME NEW t \in tournaments', NEW u \in Users \ unsettled',
                      <<t, u>> \in jury', \A g \in Slots : u \notin ToGrant(g)'
               PROVE  "jury" \in role'[u]
    BY DEF JurorsHaveTheRole
  <2>1. <<t, u>> \in jury /\ t \in tournaments
    BY DEF TypeOK
  <2>2. \A g \in Slots : u \notin ToGrant(g)
    BY Owed
  <2> QED BY <2>1, <2>2 DEF Settled, JurorsHaveTheRole
<1>3. OnlyJurorsHaveTheRole'
  <2> SUFFICES ASSUME NEW u \in Users \ (unsettled' \cup left'),
                      "jury" \in role'[u], \A g \in Slots : u \notin ToStrip(g)'
               PROVE  IsJuror(u)'
    BY DEF OnlyJurorsHaveTheRole
  <2>1. CASE IsJuror(u)
    BY <1>1, <2>1
  <2>2. CASE ~IsJuror(u)
    <3>1. \A g \in Slots : u \notin ToStrip(g)
      BY <2>2, Owed
    <3> QED BY <3>1, <1>1 DEF Settled, OnlyJurorsHaveTheRole
  <2> QED BY <2>1, <2>2
<1>4. ApprovedAreOrganizers'
  <2> SUFFICES ASSUME NEW a \in applications', a.status = "approved", a.user \notin unsettled',
                      \A g \in Slots : a.user \notin ToOrganize(g)'
               PROVE  "organizer" \in role'[a.user]
    BY DEF ApprovedAreOrganizers
  <2>1. a \in applications /\ a.user \in users
    BY DEF TypeOK
  <2>2. CASE "organizer" \notin role[a.user]
    <3>1. \A g \in Slots : a.user \notin ToOrganize(g)
      BY <2>1, <2>2, Owed
    <3> QED BY <3>1, <2>1 DEF Settled, ApprovedAreOrganizers
  <2> QED BY <2>2
<1> QED BY <1>2, <1>3, <1>4 DEF Settled
-----------------------------------------------------------------------------
(* Steps that write nothing but the state of a handler *)

LEMMA InitInv == Init => IInv
<1> SUFFICES ASSUME Init PROVE IInv
  OBVIOUS
<1>1. handlers \in [Slots -> Handler] /\ \A h \in Slots : handlers[h].step = "idle"
  BY DEF Init, Idle, Handler
<1>2. role \in [Users -> Roles]
  BY DEF Init, Roles, RoleNames
<1>3. TypeOK
  BY <1>1, <1>2, RolesAssumption DEF Init, TypeOK
<1>4. Counted
  BY <1>1 DEF Counted, CountedBy
<1>5. Settled
  BY DEF Init, Settled, JurorsHaveTheRole, OnlyJurorsHaveTheRole, ApprovedAreOrganizers
<1> QED BY <1>3, <1>4, <1>5 DEF IInv

LEMMA Silent ==
  ASSUME IInv, NEW h \in Slots, NEW s \in Handler, CountedBy(s), Goes(h, s),
         UNCHANGED <<users, role, requests, contests>>,
         unsettled' \subseteq Users, unsettled \subseteq unsettled',
         \A u \in OrganizesOf(handlers[h]) :
            u \in users => u \in OrganizesOf(s) \/ u \in unsettled' \/ "organizer" \in role[u],
         \A u \in GrantsOf(handlers[h]) : u \in GrantsOf(s) \/ u \in unsettled',
         \A u \in StripsOf(handlers[h]) : u \in StripsOf(s) \/ u \in unsettled' \/ IsJuror(u)
  PROVE  IInv'
<1>1. /\ handlers' \in [Slots -> Handler] /\ Counted'
      /\ \A g \in Slots : handlers'[g] = IF g = h THEN s ELSE handlers[g]
  BY OneMoves DEF IInv, TypeOK
<1>2. UNCHANGED <<users, role, applications, lastApplication, tournaments, lastTournament, jury, left>>
  BY DEF requests, contests
<1>3. Settled'
  BY <1>1, <1>2, Quiet DEF IInv
<1>4. TypeOK'
  BY <1>1, <1>2 DEF IInv, TypeOK
<1> QED BY <1>1, <1>3, <1>4 DEF IInv

LEMMA IdleOwes ==
  /\ Idle \in Handler /\ CountedBy(Idle)
  /\ OrganizesOf(Idle) = {} /\ GrantsOf(Idle) = {} /\ StripsOf(Idle) = {}
BY DEF Idle, Handler, CountedBy, OrganizesOf, GrantsOf, StripsOf

\* A request that reads first.
LEMMA Starts ==
  ASSUME IInv, NEW h \in Slots, NEW kind, NEW s \in Handler, s.step # "strip",
         Begins(h, kind, s), UNCHANGED <<accounts, requests, contests>>
  PROVE  IInv'
<1>1. CountedBy(s) /\ UNCHANGED <<users, role, requests, contests, unsettled>> /\ Goes(h, s)
      /\ handlers[h] = Idle
  BY DEF CountedBy, accounts, Begins
<1> QED BY <1>1, Silent, IdleOwes DEF IInv, TypeOK

LEMMA RequestInv ==
  ASSUME IInv, NEW h \in Slots,
         \/ Ban(h) \/ Unban(h) \/ ChangeRole(h) \/ BeginSave(h)
         \/ BeginSubmit(h) \/ BeginReview(h) \/ BeginUpdate(h)
  PROVE  IInv'
<1> USE DEF IInv, TypeOK
<1>1. ASSUME NEW S \in SUBSET Users, NEW change \in Change
      PROVE  [step |-> "saveUsers", read |-> RowsOf(S), change |-> change] \in Handler
  <2>1. RowsOf(S) \in Rows
    BY RowsTypes, NoRows
  <2> QED BY <2>1 DEF Handler
<1>2. ASSUME NEW change \in Change, BeginBulk(h, change) PROVE IInv'
  <2>1. PICK S \in SUBSET users \ {{}} :
          Begins(h, "admin", [step |-> "saveUsers", read |-> RowsOf(S), change |-> change])
    BY <1>2 DEF BeginBulk
  <2>2. UNCHANGED <<accounts, requests, contests>>
    BY <1>2 DEF BeginBulk
  <2>3. [step |-> "saveUsers", read |-> RowsOf(S), change |-> change] \in Handler
    BY <1>1
  <2> HIDE DEF IInv, TypeOK
  <2> QED BY <2>1, <2>2, <2>3, Starts
<1>3. CASE Ban(h) \/ Unban(h) \/ ChangeRole(h)
  BY <1>2, <1>3, RolesAssumption DEF Ban, Unban, ChangeRole, Change, Roles, RoleNames
<1>4. CASE BeginSave(h)
  <2>1. PICK u \in users :
          Begins(h, "profile", [step |-> "saveUsers", read |-> RowsOf({u}), change |-> [kind |-> "keep"]])
    BY <1>4 DEF BeginSave
  <2>2. [step |-> "saveUsers", read |-> RowsOf({u}), change |-> [kind |-> "keep"]] \in Handler
    BY <1>1 DEF Change
  <2> HIDE DEF IInv, TypeOK
  <2> QED BY <1>4, <2>1, <2>2, Starts DEF BeginSave
<1>5. CASE BeginSubmit(h)
  <2>1. PICK u \in users : Begins(h, "apply", [step |-> "insertApplication", user |-> u])
    BY <1>5 DEF BeginSubmit
  <2>2. [step |-> "insertApplication", user |-> u] \in Handler
    BY DEF Handler
  <2> HIDE DEF IInv, TypeOK
  <2> QED BY <1>5, <2>1, <2>2, Starts DEF BeginSubmit
<1>6. CASE BeginReview(h)
  <2>1. PICK a \in applications, verdict \in Status :
          Begins(h, "apply", [step |-> "saveReview", application |-> a, verdict |-> verdict])
    BY <1>6 DEF BeginReview
  <2>2. [step |-> "saveReview", application |-> a, verdict |-> verdict] \in Handler
    BY DEF Handler
  <2> HIDE DEF IInv, TypeOK
  <2> QED BY <1>6, <2>1, <2>2, Starts DEF BeginReview
<1>7. CASE BeginUpdate(h)
  <2>1. PICK t \in tournaments, list \in SUBSET Users :
          Begins(h, "jury", [step |-> "readPrevious", tournament |-> t, list |-> list])
    BY <1>7 DEF BeginUpdate
  <2>2. [step |-> "readPrevious", tournament |-> t, list |-> list] \in Handler
    BY DEF Handler
  <2> HIDE DEF IInv, TypeOK
  <2> QED BY <1>7, <2>1, <2>2, Starts DEF BeginUpdate
<1> QED BY <1>3, <1>4, <1>5, <1>6, <1>7

LEMMA CreateInv ==
  ASSUME IInv, NEW h \in Slots, BeginCreate(h)
  PROVE  IInv'
<1>1. PICK list \in SUBSET Users \ {{}} :
        Begins(h, "jury", [step |-> "readJurors", tournament |-> lastTournament + 1,
                           list |-> list, removed |-> RowsOf({})])
  BY DEF BeginCreate
<1> DEFINE s == [step |-> "readJurors", tournament |-> lastTournament + 1,
                 list |-> list, removed |-> RowsOf({})]
<1>2. lastTournament + 1 \in 1 .. MaxTournaments /\ lastTournament' \in 0 .. MaxTournaments
      /\ tournaments' = tournaments \cup {lastTournament + 1} /\ tournaments' \subseteq 1 .. MaxTournaments
  BY RolesAssumption DEF BeginCreate, IInv, TypeOK
<1>3. s \in Handler /\ CountedBy(s)
  BY <1>2, NoRows DEF Handler, CountedBy
<1>4. Goes(h, s) /\ handlers[h] = Idle
  BY <1>1 DEF Begins
<1> HIDE DEF s
<1>5. /\ handlers' \in [Slots -> Handler] /\ Counted'
      /\ \A g \in Slots : handlers'[g] = IF g = h THEN s ELSE handlers[g]
  BY <1>3, <1>4, OneMoves DEF IInv, TypeOK
<1>6. UNCHANGED <<users, role, applications, lastApplication, jury, left, unsettled>>
  BY DEF BeginCreate, accounts, requests
<1>7. Settled'
  BY <1>2, <1>4, <1>5, <1>6, Quiet, IdleOwes DEF IInv
<1>8. TypeOK'
  BY <1>2, <1>5, <1>6 DEF IInv, TypeOK
<1> QED BY <1>5, <1>7, <1>8 DEF IInv

\* Reads on the way, and the end of a handler.
LEMMA ReadInv ==
  ASSUME IInv, NEW h \in Slots,
         \/ ReadApplicant(h) \/ ReadPrevious(h) \/ ReadJurors(h) \/ CountAssignments(h) \/ Abandon(h)
  PROVE  IInv'
<1> DEFINE s0 == handlers[h]
<1>0. s0 \in Handler /\ role \in [Users -> Roles] /\ users \subseteq Users /\ unsettled \subseteq Users
  BY DEF IInv, TypeOK
<1>1. CASE ReadApplicant(h)
  <2>1. s0.step = "readApplicant" /\ s0.user \in Users /\ UNCHANGED <<users, role, unsettled, requests, contests>>
    BY <1>0, <1>1, Fields DEF ReadApplicant, At, accounts
  <2>2. OrganizesOf(s0) = {s0.user} /\ GrantsOf(s0) = {} /\ StripsOf(s0) = {}
    BY <2>1 DEF OrganizesOf, GrantsOf, StripsOf
  <2>3. CASE s0.user \in users /\ "organizer" \notin role[s0.user]
    <3> DEFINE s == [step |-> "saveUsers", read |-> RowsOf({s0.user}),
                     change |-> [kind |-> "add", name |-> "organizer"]]
    <3>1. RowsOf({s0.user}) \in Rows /\ DOMAIN RowsOf({s0.user}) = {s0.user}
      BY <2>1, <1>0, RowsTypes, NoRows
    <3>2. s \in Handler /\ CountedBy(s) /\ OrganizesOf(s) = {s0.user}
      BY <3>1 DEF Handler, CountedBy, OrganizesOf, Change, RoleNames
    <3>3. Goes(h, s)
      BY <1>1, <2>3 DEF ReadApplicant
    <3> QED BY <1>0, <2>1, <2>2, <3>2, <3>3, Silent
  <2>4. CASE ~(s0.user \in users /\ "organizer" \notin role[s0.user])
    <3>1. Goes(h, Idle)
      BY <1>1, <2>4 DEF ReadApplicant
    <3> QED BY <1>0, <2>1, <2>2, <2>4, <3>1, Silent, IdleOwes
  <2> QED BY <2>3, <2>4
<1>2. CASE ReadPrevious(h)
  <2>1. s0.step = "readPrevious" /\ UNCHANGED <<users, role, unsettled, requests, contests>>
        /\ s0.list \subseteq Users /\ s0.tournament \in 1 .. MaxTournaments
    BY <1>0, <1>2, Fields DEF ReadPrevious, At, accounts
  <2>2. OrganizesOf(s0) = {} /\ GrantsOf(s0) = {} /\ StripsOf(s0) = {}
    BY <2>1 DEF OrganizesOf, GrantsOf, StripsOf
  <2>3. PICK s \in Handler : Goes(h, s) /\ s.step # "strip"
    <3> DEFINE S == {u \in Users \ s0.list : <<s0.tournament, u>> \in jury}
    <3>1. RowsOf(S) \in Rows
      BY <1>0, RowsTypes, NoRows
    <3>2. [step |-> "readJurors", tournament |-> s0.tournament, list |-> s0.list, removed |-> RowsOf(S)] \in Handler
      BY <2>1, <3>1 DEF Handler
    <3> QED BY <1>2, <3>2, IdleOwes DEF ReadPrevious, Idle
  <2> QED BY <1>0, <2>1, <2>2, <2>3, Silent DEF CountedBy
<1>3. CASE ReadJurors(h)
  <2>1. s0.step = "readJurors" /\ UNCHANGED <<users, role, unsettled, requests, contests>>
        /\ s0.list \subseteq Users /\ s0.tournament \in 1 .. MaxTournaments /\ s0.removed \in Rows
    BY <1>0, <1>3, Fields DEF ReadJurors, At, accounts
  <2>2. OrganizesOf(s0) = {} /\ GrantsOf(s0) = {} /\ StripsOf(s0) = {}
    BY <2>1 DEF OrganizesOf, GrantsOf, StripsOf
  <2>3. PICK s \in Handler : Goes(h, s) /\ s.step # "strip"
    <3>1. RowsOf(s0.list) \in Rows
      BY <1>0, <2>1, RowsTypes
    <3>2. [step |-> "saveJury", tournament |-> s0.tournament, read |-> RowsOf(s0.list),
           removed |-> s0.removed] \in Handler
      BY <2>1, <3>1 DEF Handler
    <3> QED BY <1>3, <3>2, IdleOwes DEF ReadJurors, Idle
  <2> QED BY <1>0, <2>1, <2>2, <2>3, Silent DEF CountedBy
<1>4. CASE CountAssignments(h)
  <2>1. s0.step = "count" /\ UNCHANGED <<users, role, unsettled, requests, contests>> /\ s0.removed \in Rows
    BY <1>0, <1>4, Fields DEF CountAssignments, At, accounts
  <2>2. OrganizesOf(s0) = {} /\ GrantsOf(s0) = {} /\ StripsOf(s0) = DOMAIN s0.removed
    BY <2>1 DEF OrganizesOf, GrantsOf, StripsOf
  <2>3. PICK u \in DOMAIN s0.removed :
          Goes(h, IF IsJuror(u) THEN Proceeds(RowsOf({}), Only(s0.removed, Users \ {u}))
                  ELSE [step |-> "strip", user |-> u, counted |-> FALSE, removed |-> s0.removed])
    BY <1>4 DEF CountAssignments
  <2>4. u \in Users /\ Only(s0.removed, Users \ {u}) \in Rows
        /\ DOMAIN Only(s0.removed, Users \ {u}) = DOMAIN s0.removed \ {u}
    BY <1>0, <2>1, RowsTypes
  <2>5. CASE IsJuror(u)
    <3> DEFINE s == Proceeds(RowsOf({}), Only(s0.removed, Users \ {u}))
    <3>1. s \in Handler /\ CountedBy(s) /\ StripsOf(s) = DOMAIN s0.removed \ {u}
      BY <2>4, NoRows, ProceedsType
    <3>2. Goes(h, s)
      BY <2>3, <2>5
    <3> HIDE DEF s
    <3> QED BY <1>0, <2>1, <2>2, <2>5, <3>1, <3>2, Silent
  <2>6. CASE ~IsJuror(u)
    <3> DEFINE s == [step |-> "strip", user |-> u, counted |-> FALSE, removed |-> s0.removed]
    <3>1. s \in Handler /\ CountedBy(s) /\ StripsOf(s) = DOMAIN s0.removed
      BY <2>1, <2>4 DEF Handler, CountedBy, StripsOf
    <3>2. Goes(h, s)
      BY <2>3, <2>6
    <3> HIDE DEF s
    <3> QED BY <1>0, <2>1, <2>2, <3>1, <3>2, Silent
  <2> QED BY <2>5, <2>6
<1>5. CASE Abandon(h)
  <2>1. Goes(h, Idle) /\ UNCHANGED <<users, role, requests, contests>>
        /\ unsettled' = unsettled \cup (OrganizesOf(s0) \cup GrantsOf(s0) \cup StripsOf(s0))
    BY <1>5, Owed DEF Abandon, Unsettles
  <2>2. OrganizesOf(s0) \subseteq Users /\ GrantsOf(s0) \subseteq Users /\ StripsOf(s0) \subseteq Users
    BY <1>0, Fields, RowsTypes DEF OrganizesOf, GrantsOf, StripsOf
  <2> QED BY <1>0, <2>1, <2>2, Silent, IdleOwes
<1> QED BY <1>1, <1>2, <1>3, <1>4, <1>5
-----------------------------------------------------------------------------
(* Steps that write the tables *)

\* The properties, told by who owes what after a step of one handler.
LEMMA Rebuilt ==
  ASSUME NEW h \in Slots, NEW s, handlers \in [Slots -> Handler],
         \A g \in Slots : handlers'[g] = IF g = h THEN s ELSE handlers[g]
  PROVE  /\ \A u : (\A g \in Slots : u \notin ToGrant(g)') =>
               u \notin GrantsOf(s) /\ \A g \in Slots : g # h => u \notin ToGrant(g)
         /\ \A u : (\A g \in Slots : u \notin ToStrip(g)') =>
               u \notin StripsOf(s) /\ \A g \in Slots : g # h => u \notin ToStrip(g)
         /\ \A u : (\A g \in Slots : u \notin ToOrganize(g)') =>
               u \notin OrganizesOf(s) /\ \A g \in Slots : g # h => u \notin ToOrganize(g)
BY Owed

LEMMA IsJurorByTable ==
  ASSUME TypeOK, NEW u
  PROVE  IsJuror(u) <=> \E t \in tournaments : <<t, u>> \in jury
BY DEF IsJuror

LEMMA SaveUsersInv ==
  ASSUME IInv, NEW h \in Slots, SaveUsers(h)
  PROVE  IInv'
<1> DEFINE read == handlers[h].read
           change == handlers[h].change
<1>1. /\ handlers[h] \in Handler /\ handlers \in [Slots -> Handler] /\ Counted
      /\ users \subseteq Users /\ role \in [Users -> Roles] /\ unsettled \subseteq Users
  BY DEF IInv, TypeOK
<1>2. handlers[h].step = "saveUsers" /\ read \in Rows /\ change \in Change
  BY <1>1, Fields DEF SaveUsers, At
<1>3. DOMAIN read \subseteq Users /\ \A u \in DOMAIN read : read[u] \in Roles
  BY <1>1, <1>2, RowsTypes
<1>4. /\ handlers' \in [Slots -> Handler] /\ Counted'
      /\ \A g \in Slots : handlers'[g] = IF g = h THEN Idle ELSE handlers[g]
  BY <1>1, IdleOwes, OneMoves DEF SaveUsers
<1>5. /\ users' = users \cup DOMAIN read
      /\ role' = [u \in Users |-> IF u \in DOMAIN read THEN Changed(read[u], change) ELSE role[u]]
      /\ unsettled' = unsettled \cup {u \in DOMAIN read : ~Fresh(u, read[u]) \/ change.kind = "set"}
      /\ UNCHANGED <<applications, lastApplication, tournaments, lastTournament, jury, left>>
  BY DEF SaveUsers, Unsettles, requests, contests
<1> HIDE DEF read, change
<1>6. TypeOK'
  <2>1. role' \in [Users -> Roles]
    BY <1>1, <1>2, <1>3, <1>5, ChangedType
  <2> QED BY <1>1, <1>3, <1>4, <1>5, <2>1 DEF IInv, TypeOK
<1>7. GrantsOf(handlers[h]) = {} /\ StripsOf(handlers[h]) = {}
      /\ OrganizesOf(handlers[h]) = IF change = [kind |-> "add", name |-> "organizer"] THEN DOMAIN read ELSE {}
  BY <1>2 DEF GrantsOf, StripsOf, OrganizesOf, read, change
<1>8. ASSUME NEW u \in Users \ unsettled'
      PROVE  /\ u \in Users \ unsettled
             /\ "jury" \in role'[u] <=> "jury" \in role[u]
             /\ "organizer" \in role[u] \/ u \in OrganizesOf(handlers[h]) => "organizer" \in role'[u]
  <2>1. CASE u \in DOMAIN read
    <3>1. role[u] = read[u] /\ change.kind # "set" /\ role'[u] = Changed(read[u], change) /\ read[u] \in Roles
      BY <1>3, <1>5, <1>8, <2>1 DEF Fresh
    <3> QED BY <1>2, <1>5, <1>7, <1>8, <3>1, ChangedType
  <2>2. CASE u \notin DOMAIN read
    BY <1>5, <1>7, <1>8, <2>2
  <2> QED BY <2>1, <2>2
<1>9. \A u : IsJuror(u)' <=> IsJuror(u)
  BY <1>5 DEF IsJuror
<1>10. JurorsHaveTheRole'
  <2> SUFFICES ASSUME NEW t \in tournaments', NEW u \in Users \ unsettled',
                      <<t, u>> \in jury', \A g \in Slots : u \notin ToGrant(g)'
               PROVE  "jury" \in role'[u]
    BY DEF JurorsHaveTheRole
  <2>1. \A g \in Slots : u \notin ToGrant(g)
    BY <1>1, <1>4, <1>7, Rebuilt, Owed
  <2> QED BY <1>5, <1>8, <2>1 DEF IInv, Settled, JurorsHaveTheRole
<1>11. OnlyJurorsHaveTheRole'
  <2> SUFFICES ASSUME NEW u \in Users \ (unsettled' \cup left'),
                      "jury" \in role'[u], \A g \in Slots : u \notin ToStrip(g)'
               PROVE  IsJuror(u)'
    BY DEF OnlyJurorsHaveTheRole
  <2>1. \A g \in Slots : u \notin ToStrip(g)
    BY <1>1, <1>4, <1>7, Rebuilt, Owed
  <2> QED BY <1>5, <1>8, <1>9, <2>1 DEF IInv, Settled, OnlyJurorsHaveTheRole
<1>12. ApprovedAreOrganizers'
  <2> SUFFICES ASSUME NEW a \in applications', a.status = "approved", a.user \notin unsettled',
                      \A g \in Slots : a.user \notin ToOrganize(g)'
               PROVE  "organizer" \in role'[a.user]
    BY DEF ApprovedAreOrganizers
  <2>1. a \in applications /\ a.user \in Users \ unsettled'
    BY <1>5 DEF IInv, TypeOK
  <2>2. CASE a.user \in OrganizesOf(handlers[h])
    BY <1>8, <2>1, <2>2
  <2>3. CASE a.user \notin OrganizesOf(handlers[h])
    <3>1. \A g \in Slots : a.user \notin ToOrganize(g)
      BY <1>1, <1>4, <2>3, Rebuilt, Owed
    <3> QED BY <1>8, <2>1, <3>1 DEF IInv, Settled, ApprovedAreOrganizers
  <2> QED BY <2>2, <2>3
<1> QED BY <1>4, <1>6, <1>10, <1>11, <1>12 DEF IInv, Settled

\* A step after which the tables are as typed, given handler by handler what has become
\* of a settled user.
LEMMA Writes ==
  ASSUME IInv, TypeOK', NEW h \in Slots, NEW s \in Handler, CountedBy(s), Goes(h, s),
         unsettled \subseteq unsettled',
         \A u \in Users \ unsettled' :
            /\ u \notin GrantsOf(s) /\ IsJuror(u)' =>
                 "jury" \in role'[u] \/ (IsJuror(u) /\ u \notin GrantsOf(handlers[h])
                                         /\ ("jury" \in role[u] => "jury" \in role'[u]))
            /\ u \notin StripsOf(s) /\ u \notin left' /\ "jury" \in role'[u] =>
                 IsJuror(u)' \/ ("jury" \in role[u] /\ u \notin left /\ u \notin StripsOf(handlers[h])
                                 /\ (IsJuror(u) => IsJuror(u)')),
         \A a \in applications' :
            a.status = "approved" /\ a.user \notin unsettled' /\ a.user \notin OrganizesOf(s) =>
                 "organizer" \in role'[a.user]
                 \/ (a \in applications /\ a.user \notin OrganizesOf(handlers[h])
                     /\ ("organizer" \in role[a.user] => "organizer" \in role'[a.user]))
  PROVE  IInv'
<1>1. /\ handlers \in [Slots -> Handler] /\ Counted'
      /\ \A g \in Slots : handlers'[g] = IF g = h THEN s ELSE handlers[g]
  BY OneMoves DEF IInv, TypeOK
<1>2. JurorsHaveTheRole'
  <2> SUFFICES ASSUME NEW t \in tournaments', NEW u \in Users \ unsettled',
                      <<t, u>> \in jury', \A g \in Slots : u \notin ToGrant(g)'
               PROVE  "jury" \in role'[u]
    BY DEF JurorsHaveTheRole
  <2>1. IsJuror(u)' /\ u \notin GrantsOf(s) /\ \A g \in Slots : g # h => u \notin ToGrant(g)
    BY <1>1, Rebuilt DEF IsJuror
  <2>2. CASE "jury" \notin role'[u]
    <3>1. IsJuror(u) /\ (\A g \in Slots : u \notin ToGrant(g))
      BY <2>1, <2>2, Owed
    <3>2. "jury" \in role[u]
      BY <3>1 DEF IInv, Settled, JurorsHaveTheRole, IsJuror
    <3> QED BY <2>1, <2>2, <3>2
  <2> QED BY <2>2
<1>3. OnlyJurorsHaveTheRole'
  <2> SUFFICES ASSUME NEW u \in Users \ (unsettled' \cup left'),
                      "jury" \in role'[u], \A g \in Slots : u \notin ToStrip(g)'
               PROVE  IsJuror(u)'
    BY DEF OnlyJurorsHaveTheRole
  <2>1. u \notin StripsOf(s) /\ \A g \in Slots : g # h => u \notin ToStrip(g)
    BY <1>1, Rebuilt
  <2>2. CASE ~IsJuror(u)'
    <3>1. "jury" \in role[u] /\ u \notin left /\ ~IsJuror(u) /\ (\A g \in Slots : u \notin ToStrip(g))
      BY <2>1, <2>2, Owed
    <3> QED BY <3>1 DEF IInv, Settled, OnlyJurorsHaveTheRole
  <2> QED BY <2>2
<1>4. ApprovedAreOrganizers'
  <2> SUFFICES ASSUME NEW a \in applications', a.status = "approved", a.user \notin unsettled',
                      \A g \in Slots : a.user \notin ToOrganize(g)'
               PROVE  "organizer" \in role'[a.user]
    BY DEF ApprovedAreOrganizers
  <2>1. a.user \notin OrganizesOf(s) /\ \A g \in Slots : g # h => a.user \notin ToOrganize(g)
    BY <1>1, Rebuilt
  <2>2. CASE "organizer" \notin role'[a.user]
    <3>1. a \in applications /\ (\A g \in Slots : a.user \notin ToOrganize(g))
      BY <2>1, <2>2, Owed
    <3>2. "organizer" \in role[a.user]
      BY <3>1 DEF IInv, Settled, ApprovedAreOrganizers
    <3> QED BY <2>1, <2>2, <3>2
  <2> QED BY <2>2
<1> QED BY <1>1, <1>2, <1>3, <1>4 DEF IInv, Settled

LEMMA ApplicationInv ==
  ASSUME IInv, NEW h \in Slots, InsertApplication(h) \/ SaveReview(h)
  PROVE  IInv'
<1>0. handlers[h] \in Handler /\ handlers \in [Slots -> Handler] /\ Counted
  BY DEF IInv, TypeOK
<1>1. UNCHANGED <<users, role, unsettled, tournaments, lastTournament, jury, left>>
  BY DEF InsertApplication, SaveReview, accounts, contests
<1>2. \A u : IsJuror(u)' <=> IsJuror(u)
  BY <1>1 DEF IsJuror
<1>3. CASE InsertApplication(h)
  <2>1. handlers[h].step = "insertApplication" /\ handlers[h].user \in Users /\ Goes(h, Idle)
    BY <1>0, <1>3, Fields DEF InsertApplication, At
  <2>2. GrantsOf(handlers[h]) = {} /\ StripsOf(handlers[h]) = {} /\ OrganizesOf(handlers[h]) = {}
    BY <2>1 DEF GrantsOf, StripsOf, OrganizesOf
  <2>3. /\ applications' \subseteq Application /\ \A a \in applications' : a.user \in users
        /\ lastApplication' \in 0 .. MaxApplications
        /\ \A a \in applications' : a.status = "approved" => a \in applications
    <3>1. CASE handlers[h].user \in users /\ lastApplication < MaxApplications
      <4> DEFINE a == [id |-> lastApplication + 1, user |-> handlers[h].user, status |-> "pending"]
      <4>1. lastApplication + 1 \in 1 .. MaxApplications
        BY <3>1, RolesAssumption DEF IInv, TypeOK
      <4>2. a \in Application /\ a.user \in users /\ a.status = "pending"
        BY <2>1, <3>1, <4>1 DEF Application, Status
      <4>3. applications' = applications \cup {a} /\ lastApplication' = lastApplication + 1
        BY <1>3, <3>1 DEF InsertApplication
      <4> QED BY <4>1, <4>2, <4>3 DEF IInv, TypeOK
    <3>2. CASE ~(handlers[h].user \in users /\ lastApplication < MaxApplications)
      BY <1>3, <3>2 DEF InsertApplication, requests, IInv, TypeOK
    <3> QED BY <3>1, <3>2
  <2>4. TypeOK'
    BY <1>0, <1>1, <2>1, <2>3, IdleOwes, OneMoves DEF IInv, TypeOK
  <2> QED BY <1>1, <1>2, <2>1, <2>2, <2>3, <2>4, IdleOwes, Writes
<1>4. CASE SaveReview(h)
  <2> DEFINE a == handlers[h].application
             verdict == handlers[h].verdict
  <2>1. handlers[h].step = "saveReview" /\ a \in Application /\ verdict \in Status
    BY <1>0, <1>4, Fields DEF SaveReview, At
  <2>2. GrantsOf(handlers[h]) = {} /\ StripsOf(handlers[h]) = {} /\ OrganizesOf(handlers[h]) = {}
    BY <2>1 DEF GrantsOf, StripsOf, OrganizesOf
  <2>3. lastApplication' = lastApplication
    BY <1>4 DEF SaveReview
  <2>4. CASE a.user \in users
    <3> DEFINE b == [a EXCEPT !.status = verdict]
               s == IF verdict = "approved" THEN [step |-> "readApplicant", user |-> a.user] ELSE Idle
    <3>1. b \in Application /\ b.user = a.user /\ b.status = verdict /\ a.user \in Users
      BY <2>1 DEF Application
    <3>2. applications' = {c \in applications : c.id # a.id} \cup {b} /\ Goes(h, s)
      BY <1>4, <2>4 DEF SaveReview
    <3>3. s \in Handler /\ CountedBy(s) /\ GrantsOf(s) = {} /\ StripsOf(s) = {}
          /\ (verdict = "approved" => OrganizesOf(s) = {a.user})
      BY <3>1, IdleOwes DEF Handler, CountedBy, GrantsOf, StripsOf, OrganizesOf
    <3> HIDE DEF b, s, a, verdict
    <3>4. TypeOK'
      BY <1>0, <1>1, <2>3, <2>4, <3>1, <3>2, <3>3, OneMoves DEF IInv, TypeOK
    <3>5. \A c \in applications' : c.status = "approved" => c \in applications \/ c.user \in OrganizesOf(s)
      BY <3>1, <3>2, <3>3
    <3> QED BY <1>1, <1>2, <2>2, <3>2, <3>3, <3>4, <3>5, Writes
  <2>5. CASE a.user \notin users
    <3>1. Goes(h, Idle) /\ applications' = applications
      BY <1>4, <2>5 DEF SaveReview
    <3>2. TypeOK'
      BY <1>0, <1>1, <2>3, <3>1, IdleOwes, OneMoves DEF IInv, TypeOK
    <3> QED BY <1>1, <1>2, <2>2, <3>1, <3>2, IdleOwes, Writes
  <2> QED BY <2>4, <2>5
<1> QED BY <1>3, <1>4

LEMMA SaveJuryInv ==
  ASSUME IInv, NEW h \in Slots, SaveJury(h)
  PROVE  IInv'
<1> DEFINE t == handlers[h].tournament
           read == handlers[h].read
           removed == handlers[h].removed
           dropped == {u \in Users : <<t, u>> \in jury} \ DOMAIN read
           lacking == Only(read, {u \in DOMAIN read : "jury" \notin read[u]})
           having == Only(removed, {u \in DOMAIN removed : "jury" \in removed[u]})
<1>0. /\ handlers[h] \in Handler /\ handlers \in [Slots -> Handler] /\ Counted
      /\ role \in [Users -> Roles]
  BY DEF IInv, TypeOK
<1>1. handlers[h].step = "saveJury" /\ t \in 1 .. MaxTournaments /\ read \in Rows /\ removed \in Rows
  BY <1>0, Fields DEF SaveJury, At
<1>2. GrantsOf(handlers[h]) = {} /\ StripsOf(handlers[h]) = {} /\ OrganizesOf(handlers[h]) = {}
  BY <1>1 DEF GrantsOf, StripsOf, OrganizesOf
<1>3. UNCHANGED <<users, role, applications, lastApplication, lastTournament, left>>
  BY DEF SaveJury, requests
<1>4. CASE ~(DOMAIN read \subseteq users)
  <2>1. UNCHANGED <<tournaments, jury, unsettled>> /\ Goes(h, Idle)
    BY <1>4 DEF SaveJury
  <2>2. UNCHANGED <<requests, contests>>
    BY <1>3, <2>1 DEF requests, contests
  <2> QED BY <1>2, <1>3, <2>1, <2>2, IdleOwes, Silent DEF IInv, TypeOK
<1>5. CASE DOMAIN read \subseteq users
  <2> DEFINE s == Proceeds(lacking, having)
             news == {u \in DOMAIN read : ~Fresh(u, read[u])}
                     \cup {u \in DOMAIN removed : ~Fresh(u, removed[u])}
                     \cup (dropped \ DOMAIN removed)
  <2>1. /\ tournaments' = tournaments \cup {t}
        /\ jury' = {pair \in jury : pair[1] # t} \cup ({t} \X DOMAIN read)
        /\ unsettled' = unsettled \cup news
        /\ Goes(h, s)
    BY <1>5 DEF SaveJury, Unsettles
  <2>2. /\ lacking \in Rows /\ DOMAIN lacking = {u \in DOMAIN read : "jury" \notin read[u]}
        /\ having \in Rows /\ DOMAIN having = {u \in DOMAIN removed : "jury" \in removed[u]}
        /\ DOMAIN read \subseteq Users /\ DOMAIN removed \subseteq Users
    BY <1>0, <1>1, RowsTypes
  <2>3. s \in Handler /\ CountedBy(s) /\ GrantsOf(s) = DOMAIN lacking /\ StripsOf(s) = DOMAIN having
    BY <2>2, ProceedsType
  <2> HIDE DEF s, lacking, having
  <2>4. TypeOK'
    <3>1. tournaments' \subseteq 1 .. MaxTournaments /\ jury' \subseteq tournaments' \X users'
      BY <1>1, <1>3, <1>5, <2>1 DEF IInv, TypeOK
    <3>2. unsettled' \subseteq Users
      BY <2>1, <2>2 DEF IInv, TypeOK
    <3>3. handlers' \in [Slots -> Handler]
      BY <1>0, <2>1, <2>3, OneMoves
    <3> QED BY <1>3, <3>1, <3>2, <3>3 DEF IInv, TypeOK
  <2>5. ASSUME NEW u \in Users \ unsettled'
        PROVE  /\ u \notin GrantsOf(s) /\ IsJuror(u)' => "jury" \in role'[u] \/ IsJuror(u)
               /\ u \notin StripsOf(s) /\ "jury" \in role'[u] /\ IsJuror(u) => IsJuror(u)'
    <3>1. CASE u \in DOMAIN read
      <4>1. <<t, u>> \in jury' /\ t \in tournaments'
        BY <2>1, <3>1
      <4>2. IsJuror(u)'
        BY <4>1 DEF IsJuror
      <4>3. role[u] = read[u]
        BY <2>1, <2>5, <3>1 DEF Fresh
      <4> QED BY <1>3, <2>2, <2>3, <3>1, <4>2, <4>3
    <3>2. CASE u \notin DOMAIN read
      <4>1. IsJuror(u)' => IsJuror(u)
        <5> SUFFICES ASSUME NEW r \in tournaments', <<r, u>> \in jury' PROVE IsJuror(u)
          BY DEF IsJuror
        <5>1. <<r, u>> \in jury /\ r # t
          BY <2>1, <3>2
        <5> QED BY <5>1, <2>1 DEF IsJuror
      <4>2. ASSUME IsJuror(u), ~IsJuror(u)' PROVE u \in StripsOf(s) \/ "jury" \notin role[u]
        <5>1. <<t, u>> \in jury
          <6>1. PICK r \in tournaments : <<r, u>> \in jury
            BY <4>2 DEF IsJuror
          <6>2. CASE r # t
            <7>1. <<r, u>> \in jury' /\ r \in tournaments'
              BY <2>1, <6>1, <6>2
            <7> QED BY <4>2, <7>1 DEF IsJuror
          <6> QED BY <6>1, <6>2
        <5>2. u \in DOMAIN removed
          BY <2>1, <2>5, <3>2, <5>1
        <5>3. role[u] = removed[u]
          BY <2>1, <2>5, <5>2 DEF Fresh
        <5> QED BY <2>2, <2>3, <5>2, <5>3
      <4> QED BY <1>3, <4>1, <4>2
    <3> QED BY <3>1, <3>2
  <2> HIDE DEF t, read, removed, dropped, news
  <2> QED BY <1>2, <1>3, <2>1, <2>3, <2>4, <2>5, Writes
<1> QED BY <1>4, <1>5

LEMMA GrantInv ==
  ASSUME IInv, NEW h \in Slots, Grant(h)
  PROVE  IInv'
<1> DEFINE lacking == handlers[h].lacking
           removed == handlers[h].removed
<1>0. /\ handlers[h] \in Handler /\ handlers \in [Slots -> Handler] /\ Counted
      /\ role \in [Users -> Roles]
  BY DEF IInv, TypeOK
<1>1. handlers[h].step = "grant" /\ lacking \in Rows /\ removed \in Rows
  BY <1>0, Fields DEF Grant, At
<1>2. GrantsOf(handlers[h]) = DOMAIN lacking /\ StripsOf(handlers[h]) = DOMAIN removed
      /\ OrganizesOf(handlers[h]) = {}
  BY <1>1 DEF GrantsOf, StripsOf, OrganizesOf
<1>3. PICK u \in DOMAIN lacking :
        /\ users' = users \cup {u}
        /\ role' = [role EXCEPT ![u] = lacking[u] \cup {"jury"}]
        /\ unsettled' = unsettled \cup (IF Fresh(u, lacking[u]) /\ IsJuror(u) THEN {} ELSE {u})
        /\ Goes(h, Proceeds(Only(lacking, Users \ {u}), removed))
  BY DEF Grant, Unsettles
<1>4. UNCHANGED <<applications, lastApplication, tournaments, lastTournament, jury, left>>
  BY DEF Grant, requests, contests
<1>5. /\ u \in Users /\ lacking[u] \in Roles
      /\ Only(lacking, Users \ {u}) \in Rows
      /\ DOMAIN Only(lacking, Users \ {u}) = DOMAIN lacking \ {u}
  <2>1. lacking \in Rows /\ role \in [Users -> Roles] /\ u \in DOMAIN lacking
    BY <1>0, <1>1, <1>3
  <2> HIDE DEF lacking
  <2>2. Only(lacking, Users \ {u}) \in Rows /\ DOMAIN Only(lacking, Users \ {u}) = (Users \ {u}) \cap DOMAIN lacking
    BY <2>1, RowsTypes
  <2>3. DOMAIN lacking \subseteq Users /\ lacking[u] \in Roles
    BY <2>1, RowsTypes
  <2> QED BY <2>1, <2>2, <2>3
<1> DEFINE s == Proceeds(Only(lacking, Users \ {u}), removed)
<1>6. s \in Handler /\ CountedBy(s) /\ GrantsOf(s) = DOMAIN lacking \ {u} /\ StripsOf(s) = DOMAIN removed
  BY <1>1, <1>5, ProceedsType
<1>7. Goes(h, s)
  BY <1>3
<1> HIDE DEF s, lacking, removed
<1>8. TypeOK'
  <2>1. lacking[u] \cup {"jury"} \in Roles
    BY <1>5 DEF Roles, RoleNames
  <2>2. role' \in [Users -> Roles]
    BY <1>0, <1>3, <2>1
  <2>3. handlers' \in [Slots -> Handler]
    BY <1>0, <1>6, <1>7, OneMoves
  <2> QED BY <1>3, <1>4, <1>5, <2>2, <2>3 DEF IInv, TypeOK
<1>9. \A v : IsJuror(v)' <=> IsJuror(v)
  BY <1>4 DEF IsJuror
<1>10. \A v \in Users : v # u => role'[v] = role[v]
  BY <1>0, <1>3
<1>11. "jury" \in role'[u] /\ role'[u] = lacking[u] \cup {"jury"}
  BY <1>0, <1>3, <1>5
<1>12. u \notin unsettled' => IsJuror(u) /\ role[u] = lacking[u]
  BY <1>3 DEF Fresh
<1>13. ASSUME NEW v \in Users \ unsettled'
       PROVE  /\ v \notin GrantsOf(s) /\ IsJuror(v)' =>
                   "jury" \in role'[v] \/ (IsJuror(v) /\ v \notin GrantsOf(handlers[h])
                                           /\ ("jury" \in role[v] => "jury" \in role'[v]))
              /\ v \notin StripsOf(s) /\ v \notin left' /\ "jury" \in role'[v] =>
                   IsJuror(v)' \/ ("jury" \in role[v] /\ v \notin left /\ v \notin StripsOf(handlers[h])
                                   /\ (IsJuror(v) => IsJuror(v)'))
  <2>1. CASE v = u
    BY <1>9, <1>11, <1>12, <1>13, <2>1
  <2>2. CASE v # u
    BY <1>2, <1>4, <1>6, <1>9, <1>10, <2>2
  <2> QED BY <2>1, <2>2
<1>14. ASSUME NEW a \in applications', a.status = "approved", a.user \notin unsettled'
       PROVE  a \in applications /\ ("organizer" \in role[a.user] => "organizer" \in role'[a.user])
  <2>1. a \in applications /\ a.user \in Users
    BY <1>4 DEF IInv, TypeOK
  <2> QED BY <1>10, <1>11, <1>12, <1>14, <2>1
<1>15. unsettled \subseteq unsettled'
  BY <1>3
<1> QED BY <1>2, <1>6, <1>7, <1>8, <1>13, <1>14, <1>15, Writes

LEMMA StripInv ==
  ASSUME IInv, NEW h \in Slots, Strip(h)
  PROVE  IInv'
<1> DEFINE u == handlers[h].user
           removed == handlers[h].removed
           s == Proceeds(RowsOf({}), Only(removed, Users \ {u}))
<1>0. /\ handlers[h] \in Handler /\ handlers \in [Slots -> Handler] /\ Counted
      /\ role \in [Users -> Roles]
  BY DEF IInv, TypeOK
<1>1. /\ handlers[h].step = "strip" /\ u \in Users /\ removed \in Rows
      /\ handlers[h].counted = FALSE /\ u \in DOMAIN removed
  BY <1>0, Fields DEF Strip, At, Counted, CountedBy
<1>2. GrantsOf(handlers[h]) = {} /\ StripsOf(handlers[h]) = DOMAIN removed /\ OrganizesOf(handlers[h]) = {}
  BY <1>1 DEF GrantsOf, StripsOf, OrganizesOf
<1>3. /\ users' = users \cup {u}
      /\ role' = [role EXCEPT ![u] = Without(removed[u], "jury")]
      /\ unsettled' = unsettled \cup (IF Fresh(u, removed[u]) /\ ~IsJuror(u) THEN {} ELSE {u})
      /\ Goes(h, s)
  <2>1. IsJuror(u) \in BOOLEAN
    BY DEF IsJuror
  <2> QED BY <1>1, <2>1 DEF Strip, Unsettles
<1>4. UNCHANGED <<applications, lastApplication, tournaments, lastTournament, jury, left>>
  BY DEF Strip, requests, contests
<1>5. /\ removed[u] \in Roles /\ Only(removed, Users \ {u}) \in Rows
      /\ DOMAIN Only(removed, Users \ {u}) = DOMAIN removed \ {u}
  <2>1. removed \in Rows /\ role \in [Users -> Roles] /\ u \in DOMAIN removed
    BY <1>0, <1>1
  <2> HIDE DEF removed
  <2>2. Only(removed, Users \ {u}) \in Rows /\ DOMAIN Only(removed, Users \ {u}) = (Users \ {u}) \cap DOMAIN removed
    BY <2>1, RowsTypes
  <2>3. DOMAIN removed \subseteq Users /\ removed[u] \in Roles
    BY <2>1, RowsTypes
  <2> QED BY <2>1, <2>2, <2>3
<1>6. s \in Handler /\ CountedBy(s) /\ GrantsOf(s) = {} /\ StripsOf(s) = DOMAIN removed \ {u}
  BY <1>5, NoRows, ProceedsType
<1> HIDE DEF s, u, removed
<1>8. TypeOK'
  <2>1. role' \in [Users -> Roles]
    BY <1>0, <1>3, <1>5, WithoutJury
  <2>2. handlers' \in [Slots -> Handler]
    BY <1>0, <1>3, <1>6, OneMoves
  <2> QED BY <1>1, <1>3, <1>4, <2>1, <2>2 DEF IInv, TypeOK
<1>9. \A v : IsJuror(v)' <=> IsJuror(v)
  BY <1>4 DEF IsJuror
<1>10. \A v \in Users : v # u => role'[v] = role[v]
  BY <1>0, <1>3
<1>11. role'[u] = Without(removed[u], "jury") /\ "jury" \notin role'[u]
       /\ ("organizer" \in removed[u] => "organizer" \in role'[u])
  BY <1>0, <1>1, <1>3, <1>5, WithoutJury
<1>12. u \notin unsettled' => ~IsJuror(u) /\ role[u] = removed[u]
  BY <1>3 DEF Fresh
<1>13. ASSUME NEW v \in Users \ unsettled'
       PROVE  /\ v \notin GrantsOf(s) /\ IsJuror(v)' =>
                   "jury" \in role'[v] \/ (IsJuror(v) /\ v \notin GrantsOf(handlers[h])
                                           /\ ("jury" \in role[v] => "jury" \in role'[v]))
              /\ v \notin StripsOf(s) /\ v \notin left' /\ "jury" \in role'[v] =>
                   IsJuror(v)' \/ ("jury" \in role[v] /\ v \notin left /\ v \notin StripsOf(handlers[h])
                                   /\ (IsJuror(v) => IsJuror(v)'))
  <2>1. CASE v = u
    BY <1>9, <1>11, <1>12, <1>13, <2>1
  <2>2. CASE v # u
    BY <1>2, <1>4, <1>6, <1>9, <1>10, <2>2
  <2> QED BY <2>1, <2>2
<1>14. ASSUME NEW a \in applications', a.status = "approved", a.user \notin unsettled'
       PROVE  a \in applications /\ ("organizer" \in role[a.user] => "organizer" \in role'[a.user])
  <2>1. a \in applications /\ a.user \in Users
    BY <1>4 DEF IInv, TypeOK
  <2> QED BY <1>10, <1>11, <1>12, <1>14, <2>1
<1>15. unsettled \subseteq unsettled'
  BY <1>3
<1> QED BY <1>2, <1>3, <1>6, <1>8, <1>13, <1>14, <1>15, Writes

LEMMA DeleteInv ==
  ASSUME IInv, (\E u \in Users : DeleteUser(u)) \/ (\E t \in tournaments : DeleteTournament(t))
  PROVE  IInv'
<1>1. ASSUME NEW u \in Users, DeleteUser(u) PROVE IInv'
  <2>1. /\ users' = users \ {u} /\ role' = [role EXCEPT ![u] = {}]
        /\ applications' = {a \in applications : a.user # u}
        /\ jury' = {pair \in jury : pair[2] # u}
        /\ UNCHANGED <<lastApplication, tournaments, lastTournament, handlers, unsettled, left>>
    BY <1>1 DEF DeleteUser
  <2>2. role' \in [Users -> Roles] /\ \A v \in Users : v # u => role'[v] = role[v]
    BY <2>1 DEF IInv, TypeOK, Roles
  <2>3. role'[u] = {}
    BY <2>1 DEF IInv, TypeOK
  <2>4. TypeOK'
    BY <2>1, <2>2 DEF IInv, TypeOK
  <2>5. Counted'
    BY <2>1 DEF IInv, Counted, CountedBy
  <2>6. \A h \in Slots : /\ ToOrganize(h)' = ToOrganize(h) /\ ToGrant(h)' = ToGrant(h)
                         /\ ToStrip(h)' = ToStrip(h)
    BY <2>1, Owed
  <2>7. JurorsHaveTheRole'
    BY <2>1, <2>2, <2>6 DEF IInv, Settled, JurorsHaveTheRole
  <2>8. OnlyJurorsHaveTheRole'
    <3> SUFFICES ASSUME NEW v \in Users \ (unsettled' \cup left'),
                        "jury" \in role'[v], \A g \in Slots : v \notin ToStrip(g)'
                 PROVE  IsJuror(v)'
      BY DEF OnlyJurorsHaveTheRole
    <3>1. v # u /\ IsJuror(v)
      BY <2>1, <2>2, <2>3, <2>6 DEF IInv, Settled, OnlyJurorsHaveTheRole
    <3>2. PICK t \in tournaments : <<t, v>> \in jury
      BY <3>1 DEF IsJuror
    <3>3. <<t, v>> \in jury' /\ t \in tournaments'
      BY <2>1, <3>1, <3>2
    <3> QED BY <3>3 DEF IsJuror
  <2>9. ApprovedAreOrganizers'
    BY <2>1, <2>2, <2>6 DEF IInv, TypeOK, Settled, ApprovedAreOrganizers
  <2> QED BY <2>4, <2>5, <2>7, <2>8, <2>9 DEF IInv, Settled
<1>2. ASSUME NEW t \in tournaments, DeleteTournament(t) PROVE IInv'
  <2>1. /\ tournaments' = tournaments \ {t} /\ jury' = {pair \in jury : pair[1] # t}
        /\ left' = left \cup {u \in Users : <<t, u>> \in jury}
        /\ UNCHANGED <<users, role, unsettled, applications, lastApplication, lastTournament, handlers>>
    BY <1>2 DEF DeleteTournament, accounts, requests
  <2>2. TypeOK'
    BY <2>1 DEF IInv, TypeOK
  <2>3. Counted'
    BY <2>1 DEF IInv, Counted, CountedBy
  <2>4. \A h \in Slots : /\ ToOrganize(h)' = ToOrganize(h) /\ ToGrant(h)' = ToGrant(h)
                         /\ ToStrip(h)' = ToStrip(h)
    BY <2>1, Owed
  <2>5. JurorsHaveTheRole'
    BY <2>1, <2>4 DEF IInv, Settled, JurorsHaveTheRole
  <2>6. OnlyJurorsHaveTheRole'
    <3> SUFFICES ASSUME NEW v \in Users \ (unsettled' \cup left'),
                        "jury" \in role'[v], \A g \in Slots : v \notin ToStrip(g)'
                 PROVE  IsJuror(v)'
      BY DEF OnlyJurorsHaveTheRole
    <3>1. IsJuror(v) /\ <<t, v>> \notin jury
      BY <2>1, <2>4 DEF IInv, Settled, OnlyJurorsHaveTheRole
    <3>2. PICK r \in tournaments : <<r, v>> \in jury
      BY <3>1 DEF IsJuror
    <3>3. <<r, v>> \in jury' /\ r \in tournaments'
      BY <2>1, <3>1, <3>2
    <3> QED BY <3>3 DEF IsJuror
  <2>7. ApprovedAreOrganizers'
    BY <2>1, <2>4 DEF IInv, Settled, ApprovedAreOrganizers
  <2> QED BY <2>2, <2>3, <2>5, <2>6, <2>7 DEF IInv, Settled
<1> QED BY <1>1, <1>2

LEMMA Stutters == IInv /\ UNCHANGED vars => IInv'
BY DEF IInv, TypeOK, Counted, CountedBy, Settled, JurorsHaveTheRole, OnlyJurorsHaveTheRole,
       ApprovedAreOrganizers, IsJuror, ToGrant, ToStrip, ToOrganize, At, vars

LEMMA StepInv == IInv /\ [Next]_vars => IInv'
<1> SUFFICES ASSUME IInv, [Next]_vars PROVE IInv'
  OBVIOUS
<1>1. ASSUME NEW h \in Slots, Request(h) PROVE IInv'
  BY <1>1, RequestInv, CreateInv DEF Request
<1>2. ASSUME NEW h \in Slots, Statement(h) PROVE IInv'
  BY <1>2, SaveUsersInv, ApplicationInv, ReadInv, SaveJuryInv, GrantInv, StripInv DEF Statement
<1>3. ASSUME NEW h \in Slots, Abandon(h) PROVE IInv'
  BY <1>3, ReadInv
<1> QED BY <1>1, <1>2, <1>3, DeleteInv, Stutters DEF Next

\* The properties together with what handlers hold are inductive.
THEOREM Inductive == Spec => []IInv
<1> QED BY InitInv, StepInv, PTL DEF Spec
-----------------------------------------------------------------------------
(* Requests one at a time *)

\* No user or tournament is deleted and no handler dies.
SteadyNext == \E h \in Slots : Request(h) \/ Statement(h)
SteadySpec == Init /\ [][SteadyNext]_vars

\* The rows a handler holds are those of the table, and the lists are as it left them.
Current(rows) == \A u \in DOMAIN rows : role[u] = rows[u]
Lists(t, S, removed) ==
  /\ t \in tournaments /\ S \cap DOMAIN removed = {}
  /\ \A u \in Users : <<t, u>> \in jury => u \in S \/ u \in DOMAIN removed

HoldsCurrent(s) ==
  /\ s.step = "saveUsers" => s.change.kind # "set" /\ Current(s.read)
  /\ s.step \in {"readJurors", "saveJury", "grant", "count", "strip"} => Current(s.removed)
  /\ s.step = "readJurors" => Lists(s.tournament, s.list, s.removed)
  /\ s.step = "saveJury" => Current(s.read) /\ Lists(s.tournament, DOMAIN s.read, s.removed)
  /\ s.step = "grant" => /\ Current(s.lacking) /\ DOMAIN s.lacking \cap DOMAIN s.removed = {}
                         /\ \A u \in DOMAIN s.lacking : IsJuror(u)
  /\ s.step = "strip" => ~IsJuror(s.user)

SteadyInv ==
  /\ unsettled = {} /\ left = {} /\ users = Users
  /\ tournaments \subseteq 1 .. lastTournament
  /\ \A h \in Slots : HoldsCurrent(handlers[h])

LEMMA AloneMoves ==
  ASSUME \A g, h \in Slots : g = h, handlers \in [Slots -> Handler],
         NEW h \in Slots, NEW s, Goes(h, s)
  PROVE  \A g \in Slots : handlers'[g] = s
BY DEF Goes

LEMMA IdleCurrent == HoldsCurrent(Idle) /\ HoldsCurrent(Idle)'
BY DEF HoldsCurrent, Idle

\* A step that writes only the state of the handler that takes it.
LEMMA SteadySilent ==
  ASSUME IInv, SteadyInv, \A g, h \in Slots : g = h, NEW h \in Slots, NEW s, Goes(h, s),
         UNCHANGED <<accounts, requests, contests>>, HoldsCurrent(s)
  PROVE  SteadyInv'
<1>1. \A g \in Slots : handlers'[g] = s
  BY AloneMoves DEF IInv, TypeOK
<1>2. HoldsCurrent(s)'
  BY DEF HoldsCurrent, Current, Lists, IsJuror, accounts, contests
<1> QED BY <1>1, <1>2 DEF SteadyInv, HoldsCurrent, accounts, contests

LEMMA RowsOfCurrent == \A S : Current(RowsOf(S)) /\ DOMAIN RowsOf(S) = S
BY DEF Current, RowsOf

LEMMA OnlyCurrent ==
  ASSUME NEW rows, NEW S, Current(rows)
  PROVE  Current(Only(rows, S)) /\ DOMAIN Only(rows, S) = S \cap DOMAIN rows
BY DEF Current, Only

LEMMA SteadyRequest ==
  ASSUME IInv, SteadyInv, \A g, h \in Slots : g = h, AssignedRoles = {},
         NEW h \in Slots,
         \/ Ban(h) \/ Unban(h) \/ ChangeRole(h) \/ BeginSave(h)
         \/ BeginSubmit(h) \/ BeginReview(h) \/ BeginUpdate(h)
  PROVE  SteadyInv'
<1>1. ASSUME NEW change, change.kind # "set", BeginBulk(h, change) PROVE SteadyInv'
  <2>1. PICK S \in SUBSET users \ {{}} :
          Begins(h, "admin", [step |-> "saveUsers", read |-> RowsOf(S), change |-> change])
    BY <1>1 DEF BeginBulk
  <2>2. PICK s : s = [step |-> "saveUsers", read |-> RowsOf(S), change |-> change]
    OBVIOUS
  <2>3. Goes(h, s) /\ UNCHANGED <<accounts, requests, contests>>
    BY <1>1, <2>1, <2>2 DEF Begins, BeginBulk
  <2>4. HoldsCurrent(s)
    BY <1>1, <2>2, RowsOfCurrent DEF HoldsCurrent
  <2> QED BY <2>3, <2>4, SteadySilent
<1>2. CASE Ban(h) \/ Unban(h)
  BY <1>1, <1>2 DEF Ban, Unban
<1>3. CASE ChangeRole(h)
  BY <1>3 DEF ChangeRole
<1>4. CASE BeginSave(h)
  <2>1. PICK u \in users :
          Begins(h, "profile", [step |-> "saveUsers", read |-> RowsOf({u}), change |-> [kind |-> "keep"]])
    BY <1>4 DEF BeginSave
  <2>2. PICK s : s = [step |-> "saveUsers", read |-> RowsOf({u}), change |-> [kind |-> "keep"]]
    OBVIOUS
  <2>3. Goes(h, s) /\ UNCHANGED <<accounts, requests, contests>>
    BY <1>4, <2>1, <2>2 DEF Begins, BeginSave
  <2>4. HoldsCurrent(s)
    BY <2>2, RowsOfCurrent DEF HoldsCurrent
  <2> QED BY <2>3, <2>4, SteadySilent
<1>5. CASE BeginSubmit(h) \/ BeginReview(h) \/ BeginUpdate(h)
  <2>1. PICK kind, s : /\ s.step \in {"insertApplication", "saveReview", "readPrevious"}
                       /\ Begins(h, kind, s) /\ UNCHANGED <<accounts, requests, contests>>
    <3>1. CASE BeginSubmit(h)
      <4>1. PICK u \in users : Begins(h, "apply", [step |-> "insertApplication", user |-> u])
        BY <3>1 DEF BeginSubmit
      <4> QED BY <3>1, <4>1 DEF BeginSubmit
    <3>2. CASE BeginReview(h)
      <4>1. PICK a \in applications, verdict \in Status :
              Begins(h, "apply", [step |-> "saveReview", application |-> a, verdict |-> verdict])
        BY <3>2 DEF BeginReview
      <4> QED BY <3>2, <4>1 DEF BeginReview
    <3>3. CASE BeginUpdate(h)
      <4>1. PICK t \in tournaments, list \in SUBSET Users :
              Begins(h, "jury", [step |-> "readPrevious", tournament |-> t, list |-> list])
        BY <3>3 DEF BeginUpdate
      <4> QED BY <3>3, <4>1 DEF BeginUpdate
    <3> QED BY <1>5, <3>1, <3>2, <3>3
  <2>2. Goes(h, s)
    BY <2>1 DEF Begins
  <2>3. HoldsCurrent(s)
    BY <2>1 DEF HoldsCurrent
  <2> QED BY <2>1, <2>2, <2>3, SteadySilent
<1> QED BY <1>2, <1>3, <1>4, <1>5

LEMMA SteadyCreate ==
  ASSUME IInv, SteadyInv, \A g, h \in Slots : g = h, NEW h \in Slots, BeginCreate(h)
  PROVE  SteadyInv'
<1>1. PICK list \in SUBSET Users \ {{}} :
        Begins(h, "jury", [step |-> "readJurors", tournament |-> lastTournament + 1,
                           list |-> list, removed |-> RowsOf({})])
  BY DEF BeginCreate
<1>2. PICK s : s = [step |-> "readJurors", tournament |-> lastTournament + 1,
                    list |-> list, removed |-> RowsOf({})]
  OBVIOUS
<1>3. \A g \in Slots : handlers'[g] = s
  BY <1>1, <1>2, AloneMoves DEF Begins, IInv, TypeOK
<1>4. /\ tournaments' = tournaments \cup {lastTournament + 1} /\ lastTournament' = lastTournament + 1
      /\ UNCHANGED <<users, role, unsettled, left, jury>>
  BY DEF BeginCreate, accounts
<1>5. lastTournament \in Nat /\ jury \subseteq tournaments \X users
  BY DEF IInv, TypeOK
<1>6. \A u \in Users : <<lastTournament + 1, u>> \notin jury
  BY <1>5 DEF SteadyInv
<1>7. DOMAIN RowsOf({}) = {}
  BY RowsOfCurrent
<1>8. Current(RowsOf({}))'
  BY <1>7 DEF Current, RowsOf
<1>9. HoldsCurrent(s)'
  BY <1>2, <1>4, <1>6, <1>7, <1>8 DEF HoldsCurrent, Lists, Current
<1>10. tournaments' \subseteq 1 .. lastTournament'
  BY <1>4, <1>5 DEF SteadyInv
<1> QED BY <1>3, <1>4, <1>9, <1>10 DEF SteadyInv, HoldsCurrent

LEMMA SteadyRead ==
  ASSUME IInv, SteadyInv, \A g, h \in Slots : g = h, NEW h \in Slots,
         ReadApplicant(h) \/ ReadPrevious(h) \/ ReadJurors(h) \/ CountAssignments(h)
  PROVE  SteadyInv'
<1>1. HoldsCurrent(handlers[h])
  BY DEF SteadyInv
<1>2. CASE ReadApplicant(h)
  <2>1. PICK u : u = handlers[h].user
    OBVIOUS
  <2>2. PICK s : s = IF u \in users /\ "organizer" \notin role[u]
                     THEN [step |-> "saveUsers", read |-> RowsOf({u}),
                           change |-> [kind |-> "add", name |-> "organizer"]]
                     ELSE Idle
    OBVIOUS
  <2>3. Goes(h, s) /\ UNCHANGED <<accounts, requests, contests>>
    BY <1>2, <2>1, <2>2 DEF ReadApplicant
  <2>4. HoldsCurrent(s)
    BY <2>2, RowsOfCurrent, IdleCurrent DEF HoldsCurrent
  <2> QED BY <2>3, <2>4, SteadySilent
<1>3. CASE ReadPrevious(h)
  <2>1. PICK t, list, S : /\ t = handlers[h].tournament /\ list = handlers[h].list
                          /\ S = {u \in Users \ list : <<t, u>> \in jury}
    OBVIOUS
  <2>2. PICK s : s = IF t \in tournaments
                     THEN [step |-> "readJurors", tournament |-> t, list |-> list, removed |-> RowsOf(S)]
                     ELSE Idle
    OBVIOUS
  <2>3. Goes(h, s) /\ UNCHANGED <<accounts, requests, contests>>
    BY <1>3, <2>1, <2>2 DEF ReadPrevious
  <2>4. HoldsCurrent(s)
    <3>1. CASE t \in tournaments
      <4>1. s.step = "readJurors" /\ s.tournament = t /\ s.list = list /\ s.removed = RowsOf(S)
        BY <2>2, <3>1
      <4>2. Current(s.removed) /\ DOMAIN s.removed = S
        BY <4>1, RowsOfCurrent
      <4>3. Lists(t, list, s.removed)
        BY <2>1, <3>1, <4>2 DEF Lists
      <4> QED BY <4>1, <4>2, <4>3 DEF HoldsCurrent
    <3> QED BY <2>2, <3>1, IdleCurrent
  <2> QED BY <2>3, <2>4, SteadySilent
<1>4. CASE ReadJurors(h)
  <2>1. PICK held : held = handlers[h]
    OBVIOUS
  <2>2. PICK s : s = IF held.list \subseteq users
                     THEN [step |-> "saveJury", tournament |-> held.tournament,
                           read |-> RowsOf(held.list), removed |-> held.removed]
                     ELSE Idle
    OBVIOUS
  <2>3. Goes(h, s) /\ UNCHANGED <<accounts, requests, contests>> /\ held.step = "readJurors"
    BY <1>4, <2>1, <2>2 DEF ReadJurors, At
  <2>4. HoldsCurrent(s)
    <3>1. CASE held.list \subseteq users
      <4>1. s.step = "saveJury" /\ s.tournament = held.tournament /\ s.read = RowsOf(held.list)
            /\ s.removed = held.removed
        BY <2>2, <3>1
      <4>2. Current(s.read) /\ DOMAIN s.read = held.list
        BY <4>1, RowsOfCurrent
      <4>3. Current(s.removed) /\ Lists(s.tournament, held.list, s.removed)
        BY <1>1, <2>1, <2>3, <4>1 DEF HoldsCurrent
      <4> QED BY <4>1, <4>2, <4>3 DEF HoldsCurrent
    <3> QED BY <2>2, <3>1, IdleCurrent
  <2> QED BY <2>3, <2>4, SteadySilent
<1>5. CASE CountAssignments(h)
  <2>1. PICK removed : removed = handlers[h].removed
    OBVIOUS
  <2>2. PICK u \in DOMAIN removed :
          Goes(h, IF IsJuror(u) THEN Proceeds(RowsOf({}), Only(removed, Users \ {u}))
                  ELSE [step |-> "strip", user |-> u, counted |-> FALSE, removed |-> removed])
    BY <1>5, <2>1 DEF CountAssignments
  <2>3. UNCHANGED <<accounts, requests, contests>> /\ Current(removed)
    BY <1>1, <1>5, <2>1 DEF CountAssignments, At, HoldsCurrent
  <2>4. CASE IsJuror(u)
    <3>1. PICK s : s = Proceeds(RowsOf({}), Only(removed, Users \ {u}))
      OBVIOUS
    <3>2. HoldsCurrent(s)
      <4>1. Current(Only(removed, Users \ {u}))
        BY <2>3, OnlyCurrent
      <4>2. DOMAIN RowsOf({}) = {}
        BY RowsOfCurrent
      <4> QED BY <3>1, <4>1, <4>2, IdleCurrent DEF HoldsCurrent, Proceeds
    <3> QED BY <2>2, <2>3, <2>4, <3>1, <3>2, SteadySilent
  <2>5. CASE ~IsJuror(u)
    <3>1. PICK s : s = [step |-> "strip", user |-> u, counted |-> FALSE, removed |-> removed]
      OBVIOUS
    <3>2. HoldsCurrent(s)
      BY <2>3, <2>5, <3>1 DEF HoldsCurrent
    <3> QED BY <2>2, <2>3, <2>5, <3>1, <3>2, SteadySilent
  <2> QED BY <2>4, <2>5
<1> QED BY <1>2, <1>3, <1>4, <1>5

\* A step that writes rows leaves the counts of tournaments and the lists as they were.
LEMMA SteadyWrites ==
  ASSUME SteadyInv, IInv, \A g, h \in Slots : g = h, NEW h \in Slots, NEW s, Goes(h, s), HoldsCurrent(s)',
         users' = Users, UNCHANGED <<unsettled, left>>,
         tournaments' \subseteq 1 .. lastTournament'
  PROVE  SteadyInv'
<1>1. \A g \in Slots : handlers'[g] = s
  BY AloneMoves DEF IInv, TypeOK
<1> QED BY <1>1 DEF SteadyInv, HoldsCurrent

LEMMA SteadySaveUsers ==
  ASSUME IInv, SteadyInv, \A g, h \in Slots : g = h, NEW h \in Slots, SaveUsers(h)
  PROVE  SteadyInv'
<1>1. PICK read, change : read = handlers[h].read /\ change = handlers[h].change
  OBVIOUS
<1>2. /\ change.kind # "set" /\ Current(read) /\ DOMAIN read \subseteq Users
  <2>1. handlers[h] \in Handler /\ handlers[h].step = "saveUsers"
    BY DEF SaveUsers, At, IInv, TypeOK
  <2>2. HoldsCurrent(handlers[h])
    BY DEF SteadyInv
  <2>3. read \in Rows
    BY <1>1, <2>1, Fields
  <2> QED BY <1>1, <2>1, <2>2, <2>3 DEF HoldsCurrent, Rows
<1>3. {u \in DOMAIN read : ~Fresh(u, read[u]) \/ change.kind = "set"} = {}
  BY <1>2 DEF Current, Fresh, SteadyInv
<1>4. users' = users /\ unsettled' = unsettled /\ Goes(h, Idle) /\ UNCHANGED <<requests, contests>>
  BY <1>1, <1>2, <1>3 DEF SaveUsers, Unsettles, SteadyInv
<1> QED BY <1>4, IdleCurrent, SteadyWrites DEF SteadyInv, contests

LEMMA SteadyApplication ==
  ASSUME IInv, SteadyInv, \A g, h \in Slots : g = h, NEW h \in Slots, InsertApplication(h) \/ SaveReview(h)
  PROVE  SteadyInv'
<1>1. UNCHANGED <<accounts, contests>>
  BY DEF InsertApplication, SaveReview
<1>2. PICK s : Goes(h, s) /\ s.step \in {"idle", "readApplicant"}
  BY DEF InsertApplication, SaveReview, Idle
<1>3. HoldsCurrent(s)'
  BY <1>2 DEF HoldsCurrent
<1> QED BY <1>1, <1>2, <1>3, SteadyWrites DEF SteadyInv, accounts, contests

LEMMA SteadyProceeds ==
  ASSUME NEW lacking, NEW removed, Current(lacking)', Current(removed)',
         DOMAIN lacking \cap DOMAIN removed = {}, \A u \in DOMAIN lacking : IsJuror(u)'
  PROVE  HoldsCurrent(Proceeds(lacking, removed))'
<1>1. CASE DOMAIN lacking # {}
  <2>1. Proceeds(lacking, removed) = [step |-> "grant", lacking |-> lacking, removed |-> removed]
    BY <1>1 DEF Proceeds, Grants
  <2> QED BY <2>1 DEF HoldsCurrent
<1>2. CASE DOMAIN lacking = {} /\ DOMAIN removed # {}
  <2>1. Proceeds(lacking, removed) = [step |-> "count", removed |-> removed]
    BY <1>2 DEF Proceeds
  <2> QED BY <2>1 DEF HoldsCurrent
<1>3. CASE DOMAIN lacking = {} /\ DOMAIN removed = {}
  BY <1>3, IdleCurrent DEF Proceeds
<1> QED BY <1>1, <1>2, <1>3

LEMMA SteadySaveJury ==
  ASSUME IInv, SteadyInv, \A g, h \in Slots : g = h, NEW h \in Slots, SaveJury(h)
  PROVE  SteadyInv'
<1>1. PICK t, read, removed : /\ t = handlers[h].tournament /\ read = handlers[h].read
                              /\ removed = handlers[h].removed
  OBVIOUS
<1>2. /\ Current(read) /\ Current(removed) /\ Lists(t, DOMAIN read, removed)
      /\ read \in Rows /\ removed \in Rows
  <2>1. handlers[h] \in Handler /\ handlers[h].step = "saveJury"
    BY DEF SaveJury, At, IInv, TypeOK
  <2>2. HoldsCurrent(handlers[h])
    BY DEF SteadyInv
  <2> QED BY <1>1, <2>1, <2>2, Fields DEF HoldsCurrent
<1>3. DOMAIN read \subseteq Users /\ DOMAIN removed \subseteq Users
  BY <1>2 DEF Rows
<1>4. PICK dropped : dropped = {u \in Users : <<t, u>> \in jury} \ DOMAIN read
  OBVIOUS
<1>5. PICK s : s = Proceeds(Only(read, {u \in DOMAIN read : "jury" \notin read[u]}),
                            Only(removed, {u \in DOMAIN removed : "jury" \in removed[u]}))
  OBVIOUS
<1>6. /\ tournaments' = tournaments \cup {t}
      /\ jury' = {pair \in jury : pair[1] # t} \cup ({t} \X DOMAIN read)
      /\ unsettled' = unsettled \cup ({u \in DOMAIN read : ~Fresh(u, read[u])}
                                      \cup {u \in DOMAIN removed : ~Fresh(u, removed[u])}
                                      \cup (dropped \ DOMAIN removed))
      /\ Goes(h, s) /\ UNCHANGED <<users, role, requests, lastTournament, left>>
  BY <1>1, <1>3, <1>4, <1>5 DEF SaveJury, Unsettles, SteadyInv
<1>7. unsettled' = unsettled
  <2>1. {u \in DOMAIN read : ~Fresh(u, read[u])} = {} /\ {u \in DOMAIN removed : ~Fresh(u, removed[u])} = {}
    BY <1>2, <1>3 DEF Current, Fresh, SteadyInv
  <2>2. dropped \ DOMAIN removed = {}
    BY <1>2, <1>4 DEF Lists
  <2> QED BY <1>6, <2>1, <2>2
<1>8. tournaments' \subseteq 1 .. lastTournament'
  BY <1>2, <1>6 DEF Lists, SteadyInv
<1>9. \A u \in DOMAIN read : IsJuror(u)'
  BY <1>6 DEF IsJuror
<1>10. PICK lack, rest : /\ lack = Only(read, {u \in DOMAIN read : "jury" \notin read[u]})
                         /\ rest = Only(removed, {u \in DOMAIN removed : "jury" \in removed[u]})
  OBVIOUS
<1>11. /\ DOMAIN lack \subseteq DOMAIN read /\ \A u \in DOMAIN lack : lack[u] = read[u]
       /\ DOMAIN rest \subseteq DOMAIN removed /\ \A u \in DOMAIN rest : rest[u] = removed[u]
  BY <1>10 DEF Only
<1>12. HoldsCurrent(s)'
  <2>1. Current(lack)' /\ Current(rest)'
    BY <1>2, <1>6, <1>11 DEF Current
  <2>2. DOMAIN lack \cap DOMAIN rest = {} /\ \A u \in DOMAIN lack : IsJuror(u)'
    BY <1>2, <1>9, <1>11 DEF Lists
  <2>3. HoldsCurrent(Proceeds(lack, rest))'
    BY <2>1, <2>2, SteadyProceeds
  <2>4. s = Proceeds(lack, rest)
    BY <1>5, <1>10
  <2> QED BY <2>3, <2>4 DEF HoldsCurrent
<1> QED BY <1>6, <1>7, <1>8, <1>12, SteadyWrites DEF SteadyInv

LEMMA SteadyGrant ==
  ASSUME IInv, SteadyInv, \A g, h \in Slots : g = h, NEW h \in Slots, Grant(h)
  PROVE  SteadyInv'
<1>1. PICK lacking, removed : lacking = handlers[h].lacking /\ removed = handlers[h].removed
  OBVIOUS
<1>2. /\ Current(lacking) /\ Current(removed) /\ DOMAIN lacking \cap DOMAIN removed = {}
      /\ (\A u \in DOMAIN lacking : IsJuror(u)) /\ lacking \in Rows
  <2>1. handlers[h] \in Handler /\ handlers[h].step = "grant"
    BY DEF Grant, At, IInv, TypeOK
  <2>2. HoldsCurrent(handlers[h])
    BY DEF SteadyInv
  <2> QED BY <1>1, <2>1, <2>2, Fields DEF HoldsCurrent
<1>3. PICK u \in DOMAIN lacking :
        /\ users' = users \cup {u} /\ role' = [role EXCEPT ![u] = lacking[u] \cup {"jury"}]
        /\ Unsettles(IF Fresh(u, lacking[u]) /\ IsJuror(u) THEN {} ELSE {u})
        /\ Goes(h, Proceeds(Only(lacking, Users \ {u}), removed))
  BY <1>1 DEF Grant
<1>4. UNCHANGED <<requests, contests>> /\ DOMAIN lacking \subseteq Users
  BY <1>2 DEF Grant, Rows
<1>5. users' = users /\ unsettled' = unsettled
  <2>1. Fresh(u, lacking[u]) /\ IsJuror(u)
    BY <1>2, <1>4 DEF Current, Fresh, SteadyInv
  <2> QED BY <1>3, <1>4, <2>1 DEF Unsettles, SteadyInv
<1>6. PICK lack : lack = Only(lacking, Users \ {u})
  OBVIOUS
<1>7. DOMAIN lack = (Users \ {u}) \cap DOMAIN lacking /\ \A v \in DOMAIN lack : lack[v] = lacking[v]
  BY <1>6 DEF Only
<1>8. Current(lack)' /\ Current(removed)'
  BY <1>2, <1>3, <1>4, <1>7 DEF Current, IInv, TypeOK
<1>9. \A v \in DOMAIN lack : IsJuror(v)'
  BY <1>2, <1>4, <1>7 DEF IsJuror, contests
<1>10. HoldsCurrent(Proceeds(lack, removed))'
  BY <1>2, <1>7, <1>8, <1>9, SteadyProceeds
<1>11. Goes(h, Proceeds(lack, removed))
  BY <1>3, <1>6
<1> QED BY <1>4, <1>5, <1>10, <1>11, SteadyWrites DEF SteadyInv, contests

LEMMA SteadyStrip ==
  ASSUME IInv, SteadyInv, \A g, h \in Slots : g = h, NEW h \in Slots, Strip(h)
  PROVE  SteadyInv'
<1>1. PICK u, removed : u = handlers[h].user /\ removed = handlers[h].removed
  OBVIOUS
<1>2. /\ Current(removed) /\ ~IsJuror(u) /\ handlers[h].counted = FALSE
      /\ u \in DOMAIN removed /\ removed \in Rows
  <2>1. handlers[h] \in Handler /\ handlers[h].step = "strip"
    BY DEF Strip, At, IInv, TypeOK
  <2>2. HoldsCurrent(handlers[h]) /\ CountedBy(handlers[h])
    BY DEF SteadyInv, IInv, Counted
  <2> QED BY <1>1, <2>1, <2>2, Fields DEF HoldsCurrent, CountedBy
<1>3. /\ users' = users \cup {u} /\ role' = [role EXCEPT ![u] = Without(removed[u], "jury")]
      /\ Unsettles(IF Fresh(u, removed[u]) /\ IsJuror(u) = handlers[h].counted THEN {} ELSE {u})
      /\ Goes(h, Proceeds(RowsOf({}), Only(removed, Users \ {u})))
      /\ UNCHANGED <<requests, contests>>
  BY <1>1 DEF Strip
<1>4. u \in Users
  BY <1>2 DEF Rows
<1>5. users' = users /\ unsettled' = unsettled
  <2>1. Fresh(u, removed[u])
    BY <1>2, <1>4 DEF Current, Fresh, SteadyInv
  <2>2. IsJuror(u) \in BOOLEAN
    BY DEF IsJuror
  <2>3. IsJuror(u) = handlers[h].counted
    BY <1>2, <2>2
  <2> QED BY <1>3, <1>4, <2>1, <2>3 DEF Unsettles, SteadyInv
<1>6. PICK rest : rest = Only(removed, Users \ {u})
  OBVIOUS
<1>7. DOMAIN rest = (Users \ {u}) \cap DOMAIN removed /\ \A v \in DOMAIN rest : rest[v] = removed[v]
  BY <1>6 DEF Only
<1>8. Current(rest)'
  BY <1>2, <1>3, <1>4, <1>7 DEF Current, IInv, TypeOK
<1>9. PICK none : none = RowsOf({})
  OBVIOUS
<1>10. DOMAIN none = {}
  BY <1>9, RowsOfCurrent
<1>11. Current(none)'
  BY <1>10 DEF Current
<1>12. HoldsCurrent(Proceeds(none, rest))'
  BY <1>8, <1>10, <1>11, SteadyProceeds
<1>13. Goes(h, Proceeds(none, rest))
  BY <1>3, <1>6, <1>9
<1> QED BY <1>3, <1>5, <1>12, <1>13, SteadyWrites DEF SteadyInv, contests
-----------------------------------------------------------------------------
(* Theorems *)

\* The tables refer to rows that exist and handlers hold what they should.
THEOREM RolesTypes == Spec => []TypeOK
<1>1. IInv => TypeOK
  BY DEF IInv
<1> QED BY <1>1, Inductive, PTL

\* Whoever is on the list of a tournament has the role of a juror (tournaments.service.ts:665),
\* once the handler that grants it is through, except for users whose roles were set outright,
\* were saved or decided from rows that had changed meanwhile, or of whom a handler died.
THEOREM JurorsRole == Spec => []JurorsHaveTheRole
<1>1. IInv => JurorsHaveTheRole
  BY DEF IInv, Settled
<1> QED BY <1>1, Inductive, PTL

\* Whoever is on no list does not have it (tournaments.service.ts:679), once the handler that
\* takes it is through, with the same exceptions and that of the jurors of a tournament that
\* was deleted, who keep it.
THEOREM OnlyJurorsRole == Spec => []OnlyJurorsHaveTheRole
<1>1. IInv => OnlyJurorsHaveTheRole
  BY DEF IInv, Settled
<1> QED BY <1>1, Inductive, PTL

\* Whoever was approved is an organizer (applications.service.ts:121-143), once the handler that
\* grants the role is through, with the exceptions of JurorsRole: a save of a row read before
\* the approval takes the role back.
THEOREM ApprovedRole == Spec => []ApprovedAreOrganizers
<1>1. IInv => ApprovedAreOrganizers
  BY DEF IInv, Settled
<1> QED BY <1>1, Inductive, PTL

\* While requests come one at a time, nobody is deleted or given roles outright and no
\* handler dies, nobody is excepted: every juror has the role, nobody else has it, and
\* every approved applicant is an organizer (tournaments.service.ts:637-679,
\* applications.service.ts:111-145).
THEOREM NobodyIsExcepted ==
  ASSUME \A g, h \in Slots : g = h, AssignedRoles = {}
  PROVE  SteadySpec => [](unsettled = {} /\ left = {} /\ JurorsHaveTheRole
                          /\ OnlyJurorsHaveTheRole /\ ApprovedAreOrganizers)
<1>1. Init => IInv /\ SteadyInv
  <2> SUFFICES ASSUME Init PROVE SteadyInv
    BY InitInv
  <2>1. \A h \in Slots : HoldsCurrent(handlers[h])
    BY IdleCurrent DEF Init
  <2> QED BY <2>1 DEF Init, SteadyInv
<1>2. IInv /\ SteadyInv /\ [SteadyNext]_vars => IInv' /\ SteadyInv'
  <2> SUFFICES ASSUME IInv, SteadyInv, [SteadyNext]_vars PROVE IInv' /\ SteadyInv'
    OBVIOUS
  <2>1. [Next]_vars
    BY DEF SteadyNext, Next
  <2>2. ASSUME NEW h \in Slots, Request(h) PROVE SteadyInv'
    BY <2>2, SteadyRequest, SteadyCreate DEF Request
  <2>3. ASSUME NEW h \in Slots, Statement(h) PROVE SteadyInv'
    BY <2>3, SteadySaveUsers, SteadyApplication, SteadyRead, SteadySaveJury, SteadyGrant, SteadyStrip
       DEF Statement
  <2>4. UNCHANGED vars => SteadyInv'
    BY DEF vars, SteadyInv, HoldsCurrent, Current, Lists, IsJuror
  <2> QED BY <2>1, <2>2, <2>3, <2>4, StepInv DEF SteadyNext
<1>3. IInv /\ SteadyInv => /\ unsettled = {} /\ left = {} /\ JurorsHaveTheRole
                           /\ OnlyJurorsHaveTheRole /\ ApprovedAreOrganizers
  BY DEF IInv, Settled, SteadyInv
<1> QED BY <1>1, <1>2, <1>3, PTL DEF SteadySpec
=============================================================================
