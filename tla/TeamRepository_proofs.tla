------------------------ MODULE TeamRepository_proofs ------------------------
(***************************************************************************)
(* What a team shows of its repository is true of GitHub, for any teams,   *)
(* repositories, branches, faults and overlapping requests.                *)
(*                                                                         *)
(* A commit is paired with an address and a branch when it is fetched or   *)
(* when a webhook is applied, and the three stay together in what handlers *)
(* hold.  The invariant therefore speaks of every row that a handler may   *)
(* yet save (HeldRowsPushed), of GitHub's branches and of the payloads     *)
(* under way; of a row that is there it speaks unless the last save of it  *)
(* was crossed between its two statements.                                 *)
(*                                                                         *)
(* That rows are up to date as well needs the payloads to come in order    *)
(* and requests not to overlap: while all is calm, every trusted row that  *)
(* is there or about to be saved shows the last commit, or a payload for   *)
(* it is under way (Settled).  Nothing is trusted when it is not calm, and *)
(* calm comes back with a request that starts when all is idle.            *)
(***************************************************************************)
EXTENDS TeamRepository, SequenceTheorems, TLAPS

\* The commit of a row was pushed to its repository, to a branch taken for its own, or
\* somebody has posted it for the row.
RowPushed(row) ==
  row.sha # NoCommit =>
    \/ \E b \in Branches :
         <<b, row.branch>> \in EndsWith /\ <<ParseGithubUrl(row.url), b, row.sha>> \in pushed
    \/ \E p \in posted : p.sha = row.sha /\ IsFor(p, row)

HeldPushed(s) ==
  /\ s.step \in {"findRow", "insertRow"} => RowPushed(s.row)
  /\ s.step \in {"selectRow", "updateRow"} => \A t \in DOMAIN s.todo : RowPushed(s.todo[t])
  /\ s.step = "updateRow" => s.team \in DOMAIN s.todo

RowsPushed == \A t \in Teams \ crossed : rows[t] # NoRow => RowPushed(rows[t])
HeldRowsPushed == \A h \in Slots : HeldPushed(handlers[h])
HeadsPushed ==
  \A r \in Repositories, b \in Branches :
    heads[r][b] # NoCommit => <<r, b, heads[r][b]>> \in pushed

PayloadPushed(p) ==
  p.sha # NoCommit =>
    p \in posted \/ (p.branch # NoBranch /\ <<p.repository, p.branch, p.sha>> \in pushed)
PayloadsPushed == \A i \in 1 .. Len(deliveries) : PayloadPushed(deliveries[i])

IInv == TypeOK /\ RowsPushed /\ HeldRowsPushed /\ HeadsPushed /\ PayloadsPushed
-----------------------------------------------------------------------------
(* Rows, payloads and states of handlers *)

\* What a handler holds, by its step.
LEMMA Fields ==
  ASSUME NEW s \in Handler
  PROVE  /\ s.step \in {"fetchRepository", "fetchBranch"} =>
              s \in [step : {"fetchRepository", "fetchBranch"}, team : Teams, url : Urls,
                     branch : Branches, verifies : BOOLEAN]
         /\ s.step \in {"findRow", "insertRow"} =>
              s \in [step : {"findRow", "insertRow"}, team : Teams, row : Row]
         /\ s.step \in {"selectRow", "updateRow"} =>
              /\ s.todo \in Todo /\ DOMAIN s.todo \subseteq Teams
              /\ \A t \in DOMAIN s.todo : s.todo[t] \in Row
         /\ s.step = "updateRow" => s.columns \in SUBSET {"url", "branch", "sha"}
         /\ s.step = "insertComment" => s.team \in Teams /\ s.user \in Users
<1>1. s.step \in {"selectRow", "updateRow"} => s.todo \in Todo
  BY DEF Handler
<1>2. s.step \in {"selectRow", "updateRow"} => \E S \in SUBSET Teams : s.todo \in [S -> Row]
  BY <1>1 DEF Todo
<1>3. s.step = "updateRow" => s.columns \in SUBSET {"url", "branch", "sha"}
  BY DEF Handler
<1> QED BY <1>1, <1>2, <1>3 DEF Handler

LEMMA IdleHandler == Idle \in Handler /\ HeldPushed(Idle)
BY DEF Idle, Handler, HeldPushed

\* Rows to be saved are held by the two statements of a save.
LEMMA SaveHandler ==
  ASSUME NEW S \in SUBSET Teams, NEW f \in [S -> Row]
  PROVE  /\ [step |-> "selectRow", todo |-> f] \in Handler
         /\ \A t \in Teams, C \in SUBSET {"url", "branch", "sha"} :
              [step |-> "updateRow", todo |-> f, team |-> t, columns |-> C] \in Handler
<1>1. f \in Todo
  BY DEF Todo
<1> QED BY <1>1 DEF Handler

\* A row is none of the values that stand for no row or no commit.
LEMMA RowIsARow ==
  ASSUME NEW row \in Row
  PROVE  /\ row # NoRow
         /\ row.url \in Urls /\ row.branch \in Branches /\ row.sha \in Sha
         /\ ParseGithubUrl(row.url) \in Repositories
BY RepositoryAssumption DEF Row, Urls, Sha, Commit, ParseGithubUrl

\* What two rows make of each other.
LEMMA OverwrittenIsARow ==
  ASSUME NEW row \in Row, NEW by \in Row, NEW columns
  PROVE  Overwritten(row, columns, by) \in Row
BY DEF Overwritten, Row

LEMMA AllColumnsThatDiffer ==
  ASSUME NEW row \in Row, NEW by \in Row
  PROVE  Overwritten(row, {c \in {"url", "branch", "sha"} : row[c] # by[c]}, by) = by
BY DEF Overwritten, Row
-----------------------------------------------------------------------------
(* The steps of handlers *)

\* One handler moves on, the others stay.
LEMMA OneMoves ==
  ASSUME IInv, NEW h \in Slots, NEW s \in Handler, HeldPushed(s), Goes(h, s),
         UNCHANGED <<pushed, posted>>
  PROVE  handlers' \in [Slots -> Handler] /\ HeldRowsPushed'
<1>1. handlers' \in [Slots -> Handler] /\ \A g \in Slots : handlers'[g] = IF g = h THEN s ELSE handlers[g]
  BY DEF Goes, IInv, TypeOK
<1>2. ASSUME NEW g \in Slots PROVE HeldPushed(handlers[g])'
  <2>1. HeldPushed(handlers'[g])
    BY <1>1 DEF IInv, HeldRowsPushed
  <2> QED BY <2>1 DEF HeldPushed, RowPushed
<1> QED BY <1>1, <1>2 DEF HeldRowsPushed

DisturbancesOK == faults \in 0 .. MaxFaults /\ calm \in BOOLEAN /\ trusted \subseteq Teams

LEMMA DisturbancesType ==
  ASSUME TypeOK, Fault \/ UNCHANGED disturbances
  PROVE  DisturbancesOK'
<1>1. CASE Fault
  <2>1. calm' \in BOOLEAN /\ trusted' \subseteq Teams
    BY <1>1 DEF Fault, Disturbs
  <2>2. faults' \in 0 .. MaxFaults
    BY <1>1, RepositoryAssumption DEF Fault, TypeOK
  <2> QED BY <2>1, <2>2 DEF DisturbancesOK
<1>2. CASE UNCHANGED disturbances
  BY <1>2 DEF disturbances, TypeOK, DisturbancesOK
<1> QED BY <1>1, <1>2

LEMMA BeginsType ==
  ASSUME TypeOK, NEW h, NEW s, Begins(h, s)
  PROVE  DisturbancesOK' /\ Goes(h, s) /\ UNCHANGED <<tables, posted, crossed>>
<1>1. calm \in BOOLEAN /\ (calm \/ deliveries = <<>>) \in BOOLEAN
  BY DEF TypeOK
<1> QED BY <1>1 DEF Begins, Disturbs, TypeOK, DisturbancesOK

\* A step of a handler that writes no table.
LEMMA HandlerReads ==
  ASSUME IInv, NEW h \in Slots, NEW s \in Handler, HeldPushed(s), Goes(h, s),
         UNCHANGED <<tables, github, posted, crossed>>, DisturbancesOK'
  PROVE  IInv'
<1>1. handlers' \in [Slots -> Handler] /\ HeldRowsPushed'
  BY OneMoves DEF github
<1>2. TypeOK'
  BY <1>1 DEF IInv, TypeOK, DisturbancesOK, tables, github
<1>3. (RowsPushed /\ HeadsPushed /\ PayloadsPushed)'
  BY DEF IInv, RowsPushed, RowPushed, HeadsPushed, PayloadsPushed, PayloadPushed, tables, github
<1> QED BY <1>1, <1>2, <1>3 DEF IInv

\* A step that writes the row of a team.
LEMMA HandlerWrites ==
  ASSUME IInv, NEW h \in Slots, NEW s \in Handler, HeldPushed(s), Goes(h, s),
         NEW t \in Teams, NEW row \in Row, NEW held \in Row, RowPushed(held),
         Writes(t, row, held), UNCHANGED <<teams, comments, github, posted>>
  PROVE  IInv'
<1>1. handlers' \in [Slots -> Handler] /\ HeldRowsPushed'
  BY OneMoves DEF github
<1>2. /\ rows' \in [Teams -> Row \cup {NoRow}]
      /\ \A u \in Teams : rows'[u] = IF u = t THEN row ELSE rows[u]
  BY DEF Writes, IInv, TypeOK
<1>3. crossed' \subseteq Teams /\ DisturbancesOK'
  BY DEF Writes, IInv, TypeOK, DisturbancesOK
<1>4. TypeOK'
  BY <1>1, <1>2, <1>3 DEF IInv, TypeOK, DisturbancesOK, github
<1>5. ASSUME NEW u \in Teams \ crossed', rows'[u] # NoRow PROVE RowPushed(rows'[u])
  <2>1. CASE u # t
    <3>1. u \notin crossed /\ rows'[u] = rows[u]
      BY <1>2, <1>5, <2>1 DEF Writes
    <3> QED BY <1>5, <3>1 DEF IInv, RowsPushed
  <2>2. CASE u = t
    <3>1. row = held \/ (row = rows[t] /\ t \notin crossed)
      BY <1>5, <2>2 DEF Writes
    <3>2. row # NoRow /\ rows'[u] = row
      BY <1>2, <2>2, RowIsARow
    <3> QED BY <2>2, <3>1, <3>2 DEF IInv, RowsPushed
  <2> QED BY <2>1, <2>2
<1>6. RowsPushed'
  BY <1>5 DEF RowsPushed, RowPushed, github
<1>7. (HeadsPushed /\ PayloadsPushed)'
  BY DEF IInv, HeadsPushed, PayloadsPushed, PayloadPushed, github
<1> QED BY <1>1, <1>4, <1>6, <1>7 DEF IInv

LEMMA RequestInv ==
  ASSUME IInv, NEW h \in Slots,
         \/ \E user \in Users, t \in Teams, o \in Offers : BeginUpsert(h, user, t, o[1], o[2])
         \/ \E user \in Users, t \in Teams : BeginVerify(h, user, t) \/ BeginComment(h, user, t)
  PROVE  IInv'
<1>1. ASSUME NEW s \in Handler, HeldPushed(s), Begins(h, s), UNCHANGED github
      PROVE  IInv'
  <2>1. DisturbancesOK' /\ Goes(h, s) /\ UNCHANGED <<tables, posted, crossed>>
    BY <1>1, BeginsType DEF IInv
  <2> QED BY <1>1, <2>1, HandlerReads
<1>2. ASSUME NEW user \in Users, NEW t \in Teams, NEW o \in Offers,
             BeginUpsert(h, user, t, o[1], o[2])
      PROVE  IInv'
  <2> DEFINE s == [step |-> "fetchRepository", team |-> t, url |-> o[1], branch |-> o[2],
                   verifies |-> FALSE]
  <2>1. o[1] \in Urls /\ o[2] \in Branches
    BY RepositoryAssumption DEF Urls
  <2>2. s \in Handler /\ HeldPushed(s)
    BY <2>1 DEF Handler, HeldPushed
  <2>3. Begins(h, s) /\ UNCHANGED github
    BY <1>2 DEF BeginUpsert
  <2> HIDE DEF s
  <2> QED BY <1>1, <2>2, <2>3
<1>3. ASSUME NEW user \in Users, NEW t \in Teams, BeginVerify(h, user, t)
      PROVE  IInv'
  <2> DEFINE s == [step |-> "fetchRepository", team |-> t, url |-> rows[t].url,
                   branch |-> rows[t].branch, verifies |-> TRUE]
  <2>1. rows[t] \in Row
    BY <1>3 DEF BeginVerify, IInv, TypeOK
  <2>2. s \in Handler /\ HeldPushed(s)
    BY <2>1 DEF Handler, HeldPushed, Row
  <2>3. Begins(h, s) /\ UNCHANGED github
    BY <1>3 DEF BeginVerify
  <2> HIDE DEF s
  <2> QED BY <1>1, <2>2, <2>3
<1>4. ASSUME NEW user \in Users, NEW t \in Teams, BeginComment(h, user, t)
      PROVE  IInv'
  <2> DEFINE s == [step |-> "insertComment", team |-> t, user |-> user]
  <2>1. s \in Handler /\ HeldPushed(s)
    BY DEF Handler, HeldPushed
  <2>2. Begins(h, s) /\ UNCHANGED github
    BY <1>4 DEF BeginComment
  <2> HIDE DEF s
  <2> QED BY <1>1, <2>1, <2>2
<1> QED BY <1>2, <1>3, <1>4
-----------------------------------------------------------------------------
(* Asking GitHub, and reading *)

\* What a handler saves of one team.
LEMMA OneToSave ==
  ASSUME NEW t \in Teams, NEW row \in Row, NEW s,
         s = [step |-> "selectRow", todo |-> [u \in {t} |-> row]]
  PROVE  /\ s \in Handler /\ s.step = "selectRow" /\ DOMAIN s.todo = {t} /\ s.todo[t] = row
         /\ RowPushed(row) => HeldPushed(s)
<1>1. [u \in {t} |-> row] \in [{t} -> Row] /\ {t} \in SUBSET Teams
  OBVIOUS
<1>2. s \in Handler
  BY <1>1, SaveHandler
<1>3. s.step = "selectRow" /\ DOMAIN s.todo = {t} /\ s.todo[t] = row
  OBVIOUS
<1> QED BY <1>2, <1>3 DEF HeldPushed

LEMMA FetchInv ==
  ASSUME IInv, NEW h \in Slots, FetchRepository(h) \/ FetchBranch(h) \/ FindRow(h) \/ SelectRow(h)
  PROVE  IInv'
<1>1. handlers[h] \in Handler /\ HeldPushed(handlers[h])
  BY DEF IInv, TypeOK, HeldRowsPushed
<1>2. UNCHANGED <<tables, github, posted, crossed>> /\ DisturbancesOK'
  <2>1. UNCHANGED <<tables, github, posted, crossed>>
    BY DEF FetchRepository, FetchBranch, FindRow, SelectRow, At, tables
  <2>2. Fault \/ UNCHANGED disturbances
    BY DEF FetchRepository, FetchBranch, FindRow, SelectRow, GithubRequest
  <2> QED BY <2>1, <2>2, DisturbancesType DEF IInv
<1>3. CASE FetchRepository(h)
  <2> DEFINE s == [handlers[h] EXCEPT !.step = "fetchBranch"]
  <2>1. s \in Handler /\ HeldPushed(s)
    BY <1>1, <1>3, Fields DEF FetchRepository, At, Handler, HeldPushed
  <2>2. Goes(h, s) \/ Goes(h, Idle)
    BY <1>3 DEF FetchRepository, GithubRequest
  <2> HIDE DEF s
  <2> QED BY <1>2, <2>1, <2>2, IdleHandler, HandlerReads
<1>4. CASE FetchBranch(h)
  <2> DEFINE held == handlers[h]
             r == ParseGithubUrl(held.url)
  <2>1. /\ held.team \in Teams /\ held.url \in Urls /\ held.branch \in Branches
        /\ held.verifies \in BOOLEAN /\ r \in Repositories
    BY <1>1, <1>4, Fields DEF FetchBranch, At, Urls, ParseGithubUrl
  <2>2. PICK sha \in {heads[r][held.branch], NoCommit} : FetchedAs(h, sha)
    BY <1>4 DEF FetchBranch, GithubRequest
  <2>3. PICK row : row = [url |-> held.url, branch |-> held.branch, sha |-> sha]
    OBVIOUS
  <2>4. sha \in Sha
    BY <2>1, <2>2 DEF IInv, TypeOK, Sha
  <2>5. row \in Row
    BY <2>1, <2>3, <2>4 DEF Row
  <2>6. RowPushed(row)
    <3>1. sha # NoCommit => <<r, held.branch, sha>> \in pushed
      BY <2>1, <2>2 DEF IInv, HeadsPushed
    <3>2. <<held.branch, held.branch>> \in EndsWith
      BY <2>1, RepositoryAssumption
    <3> QED BY <2>1, <2>3, <3>1, <3>2 DEF RowPushed
  <2>7. PICK s : /\ Goes(h, s)
                 /\ s = IF held.verifies THEN [step |-> "selectRow", todo |-> [u \in {held.team} |-> row]]
                        ELSE [step |-> "findRow", team |-> held.team, row |-> row]
    BY <2>2, <2>3 DEF FetchedAs
  <2>8. s \in Handler /\ HeldPushed(s)
    <3>1. CASE held.verifies
      BY <2>1, <2>5, <2>6, <2>7, <3>1, OneToSave
    <3>2. CASE ~held.verifies
      <4>1. s = [step |-> "findRow", team |-> held.team, row |-> row]
        BY <2>7, <3>2
      <4> QED BY <2>1, <2>5, <2>6, <4>1 DEF Handler, HeldPushed
    <3> QED BY <3>1, <3>2
  <2> QED BY <1>2, <2>7, <2>8, HandlerReads
<1>5. CASE FindRow(h)
  <2>1. handlers[h].step = "findRow" /\ RowPushed(handlers[h].row)
    BY <1>1, <1>5 DEF FindRow, At, HeldPushed
  <2>2. handlers[h] \in [step : {"findRow", "insertRow"}, team : Teams, row : Row]
    BY <1>1, <2>1, Fields
  <2>3. PICK s : /\ Goes(h, s)
                 /\ \/ s = [handlers[h] EXCEPT !.step = "insertRow"]
                    \/ s = [step |-> "selectRow", todo |-> [u \in {handlers[h].team} |-> handlers[h].row]]
    BY <1>5 DEF FindRow
  <2>4. CASE s = [handlers[h] EXCEPT !.step = "insertRow"]
    <3>1. s \in [step : {"findRow", "insertRow"}, team : Teams, row : Row]
          /\ s.step = "insertRow" /\ s.row = handlers[h].row
      BY <2>2, <2>4
    <3>2. s \in Handler /\ HeldPushed(s)
      BY <2>1, <3>1 DEF Handler, HeldPushed
    <3> QED BY <1>2, <2>3, <3>2, HandlerReads
  <2>5. CASE s = [step |-> "selectRow", todo |-> [u \in {handlers[h].team} |-> handlers[h].row]]
    <3>1. s \in Handler /\ HeldPushed(s)
      BY <2>1, <2>2, <2>5, OneToSave
    <3> QED BY <1>2, <2>3, <3>1, HandlerReads
  <2> QED BY <2>3, <2>4, <2>5
<1>6. CASE SelectRow(h)
  <2>1. PICK todo : todo = handlers[h].todo
    OBVIOUS
  <2>2. handlers[h].step = "selectRow" /\ \A t \in DOMAIN todo : RowPushed(todo[t])
    BY <1>1, <1>6, <2>1 DEF SelectRow, At, HeldPushed
  <2>3. todo \in [DOMAIN todo -> Row] /\ DOMAIN todo \in SUBSET Teams
    BY <1>1, <2>1, <2>2, Fields DEF Todo
  <2>4. PICK t \in DOMAIN todo :
          Goes(h, IF rows[t] = NoRow THEN Idle
                  ELSE [step |-> "updateRow", todo |-> todo, team |-> t,
                        columns |-> {c \in {"url", "branch", "sha"} : rows[t][c] # todo[t][c]}])
    BY <1>6, <2>1 DEF SelectRow
  <2>5. PICK C \in SUBSET {"url", "branch", "sha"} :
          \/ Goes(h, Idle)
          \/ Goes(h, [step |-> "updateRow", todo |-> todo, team |-> t, columns |-> C])
    BY <2>4
  <2>6. /\ [step |-> "updateRow", todo |-> todo, team |-> t, columns |-> C] \in Handler
        /\ HeldPushed([step |-> "updateRow", todo |-> todo, team |-> t, columns |-> C])
    BY <2>2, <2>3, SaveHandler DEF HeldPushed
  <2> QED BY <1>2, <2>5, <2>6, IdleHandler, HandlerReads
<1> QED BY <1>3, <1>4, <1>5, <1>6

LEMMA InsertRowInv ==
  ASSUME IInv, NEW h \in Slots, InsertRow(h)
  PROVE  IInv'
<1>1. PICK t, row : t = handlers[h].team /\ row = handlers[h].row
  OBVIOUS
<1>2. handlers[h].step = "insertRow"
  BY DEF InsertRow, At
<1>3. t \in Teams /\ row \in Row /\ RowPushed(row)
  BY <1>1, <1>2, Fields DEF IInv, TypeOK, HeldRowsPushed, HeldPushed
<1>4. /\ Goes(h, Idle) /\ UNCHANGED <<teams, comments, github, posted>>
      /\ Writes(t, row, row) \/ UNCHANGED <<rows, crossed, disturbances>>
  BY <1>1 DEF InsertRow, At
<1>5. CASE Writes(t, row, row)
  BY <1>3, <1>4, <1>5, IdleHandler, HandlerWrites
<1>6. CASE UNCHANGED <<rows, crossed, disturbances>>
  <2>1. DisturbancesOK'
    BY <1>6, DisturbancesType DEF IInv
  <2> QED BY <1>4, <1>6, <2>1, IdleHandler, HandlerReads DEF tables
<1> QED BY <1>4, <1>5, <1>6

LEMMA UpdateRowInv ==
  ASSUME IInv, NEW h \in Slots, UpdateRow(h)
  PROVE  IInv'
<1>1. PICK held : held = handlers[h]
  OBVIOUS
<1>2. held \in Handler /\ held.step = "updateRow" /\ HeldPushed(held)
  BY <1>1 DEF UpdateRow, At, IInv, TypeOK, HeldRowsPushed
<1>3. PICK todo, t : todo = held.todo /\ t = held.team
  OBVIOUS
<1>4. /\ DOMAIN todo \in SUBSET Teams /\ t \in DOMAIN todo
      /\ \A u \in DOMAIN todo : todo[u] \in Row /\ RowPushed(todo[u])
  BY <1>2, <1>3, Fields DEF HeldPushed
<1>5. PICK s : /\ Goes(h, s)
               /\ s = IF DOMAIN todo \ {t} = {} THEN Idle
                      ELSE [step |-> "selectRow", todo |-> [u \in DOMAIN todo \ {t} |-> todo[u]]]
  BY <1>1, <1>3 DEF UpdateRow
<1>6. s \in Handler /\ HeldPushed(s)
  <2>1. PICK rest : rest = [u \in DOMAIN todo \ {t} |-> todo[u]]
    OBVIOUS
  <2>2. rest \in [DOMAIN todo \ {t} -> Row] /\ DOMAIN todo \ {t} \in SUBSET Teams
        /\ \A u \in DOMAIN rest : RowPushed(rest[u])
    BY <1>4, <2>1
  <2>3. [step |-> "selectRow", todo |-> rest] \in Handler
    BY <2>2, SaveHandler
  <2>4. HeldPushed([step |-> "selectRow", todo |-> rest])
    BY <2>2 DEF HeldPushed
  <2> QED BY <1>5, <2>1, <2>3, <2>4, IdleHandler
<1>7. /\ UNCHANGED <<teams, comments, github, posted>>
      /\ \/ UNCHANGED <<rows, crossed, disturbances>>
         \/ rows[t] # NoRow /\ Writes(t, Overwritten(rows[t], held.columns, todo[t]), todo[t])
  BY <1>1, <1>3 DEF UpdateRow, Updates, At
<1>8. CASE UNCHANGED <<rows, crossed, disturbances>>
  <2>1. DisturbancesOK'
    BY <1>8, DisturbancesType DEF IInv
  <2> QED BY <1>5, <1>6, <1>7, <1>8, <2>1, HandlerReads DEF tables
<1>9. CASE rows[t] # NoRow /\ Writes(t, Overwritten(rows[t], held.columns, todo[t]), todo[t])
  <2>1. rows[t] \in Row
    BY <1>4, <1>9 DEF IInv, TypeOK
  <2>2. Overwritten(rows[t], held.columns, todo[t]) \in Row
    BY <1>4, <2>1, OverwrittenIsARow
  <2> QED BY <1>4, <1>5, <1>6, <1>7, <1>9, <2>2, HandlerWrites
<1> QED BY <1>7, <1>8, <1>9

LEMMA CommentInv ==
  ASSUME IInv, NEW h \in Slots, InsertComment(h)
  PROVE  IInv'
<1>1. handlers[h].step = "insertComment" /\ handlers[h] \in Handler
  BY DEF InsertComment, IInv, TypeOK
<1>2. handlers[h].team \in Teams /\ handlers[h].user \in Users
  BY <1>1, Fields
<1>3. UNCHANGED <<teams, rows, github, posted, crossed, disturbances>> /\ Goes(h, Idle)
  BY DEF InsertComment
<1>4. handlers' \in [Slots -> Handler] /\ HeldRowsPushed'
  BY <1>3, OneMoves, IdleHandler DEF github
<1>5. comments' \subseteq CodeReview
  BY <1>2 DEF InsertComment, IInv, TypeOK, CodeReview
<1>6. TypeOK'
  BY <1>3, <1>4, <1>5 DEF IInv, TypeOK, github, disturbances
<1>7. (RowsPushed /\ HeadsPushed /\ PayloadsPushed)'
  BY <1>3 DEF IInv, RowsPushed, RowPushed, HeadsPushed, PayloadsPushed, PayloadPushed, github
<1> QED BY <1>4, <1>6, <1>7 DEF IInv
-----------------------------------------------------------------------------
(* The webhook *)

LEMMA ReceiveInv ==
  ASSUME IInv, NEW h \in Slots, Receive(h)
  PROVE  IInv'
<1> DEFINE p == Head(deliveries)
           matched == {t \in Teams : rows[t] # NoRow /\ IsFor(p, rows[t])}
           todo == [t \in matched |-> [rows[t] EXCEPT !.sha = p.sha]]
           s == IF matched = {} THEN Idle ELSE [step |-> "selectRow", todo |-> todo]
<1>1. deliveries \in Seq(Payloads) /\ deliveries # <<>> /\ deliveries' = Tail(deliveries)
  BY DEF Receive, IInv, TypeOK
<1>2. p \in Payloads /\ PayloadPushed(p)
  <2>1. p = deliveries[1] /\ 1 \in 1 .. Len(deliveries)
    BY <1>1, EmptySeq, LenProperties
  <2>2. deliveries[1] \in Payloads
    BY <1>1, <2>1, ElementOfSeq
  <2> QED BY <2>1, <2>2 DEF IInv, PayloadsPushed
<1>3. /\ Goes(h, s) /\ UNCHANGED <<tables, found, heads, commits, pushed, posted, crossed>>
      /\ DisturbancesOK'
  <2>1. Begins(h, s) /\ UNCHANGED <<found, heads, commits, pushed>>
    BY DEF Receive, ApplyGithubWebhook
  <2> HIDE DEF s
  <2> QED BY <2>1, BeginsType DEF IInv
<1>4. ASSUME NEW t \in matched
      PROVE  todo[t] \in Row /\ RowPushed(todo[t])
  <2>1. rows[t] \in Row /\ p.sha \in Sha
    BY <1>2 DEF IInv, TypeOK, Payloads
  <2>2. /\ todo[t] \in Row /\ todo[t].sha = p.sha /\ todo[t].url = rows[t].url
        /\ todo[t].branch = rows[t].branch
    BY <2>1 DEF Row
  <2>3. ParseGithubUrl(rows[t].url) = p.repository
        /\ (p.branch # NoBranch => <<p.branch, rows[t].branch>> \in EndsWith)
    BY DEF IsFor
  <2>4. CASE p \in posted
    <3>1. IsFor(p, todo[t])
      BY <2>2, <2>3 DEF IsFor
    <3> QED BY <2>2, <2>4, <3>1 DEF RowPushed
  <2>5. CASE p \notin posted
    <3>1. p.sha # NoCommit => p.branch \in Branches
      BY <1>2, <2>5 DEF Payloads, PayloadPushed
    <3> QED BY <1>2, <2>2, <2>3, <2>5, <3>1 DEF RowPushed, PayloadPushed
  <2> QED BY <2>4, <2>5
<1>5. s \in Handler /\ HeldPushed(s)
  <2>1. todo \in [matched -> Row] /\ matched \in SUBSET Teams
    BY <1>4
  <2>2. [step |-> "selectRow", todo |-> todo] \in Handler
    BY <2>1, SaveHandler
  <2>3. HeldPushed([step |-> "selectRow", todo |-> todo])
    BY <1>4 DEF HeldPushed
  <2> QED BY <2>2, <2>3, IdleHandler
<1>6. handlers' \in [Slots -> Handler] /\ HeldRowsPushed'
  <2> HIDE DEF s
  <2> QED BY <1>3, <1>5, OneMoves
<1>7. deliveries' \in Seq(Payloads) /\ PayloadsPushed'
  <2>1. /\ Tail(deliveries) \in Seq(Payloads) /\ Len(Tail(deliveries)) = Len(deliveries) - 1
        /\ \A i \in 1 .. Len(Tail(deliveries)) : Tail(deliveries)[i] = deliveries[i + 1]
        /\ Len(deliveries) \in Nat
    BY <1>1, HeadTailProperties, LenProperties
  <2> QED BY <1>1, <1>3, <2>1 DEF IInv, PayloadsPushed, PayloadPushed
<1>8. TypeOK'
  BY <1>3, <1>6, <1>7 DEF IInv, TypeOK, DisturbancesOK, tables
<1>9. (RowsPushed /\ HeadsPushed)'
  BY <1>3 DEF IInv, RowsPushed, RowPushed, HeadsPushed, tables
<1> QED BY <1>6, <1>7, <1>8, <1>9 DEF IInv
-----------------------------------------------------------------------------
(* Teams that go, GitHub, and what goes wrong *)

LEMMA DeleteTeamInv ==
  ASSUME IInv, NEW t \in teams, DeleteTeam(t)
  PROVE  IInv'
<1>1. /\ teams' = teams \ {t} /\ rows' = [rows EXCEPT ![t] = NoRow]
      /\ comments' = {c \in comments : c[1] # t}
      /\ UNCHANGED <<handlers, github, posted, crossed>>
  BY DEF DeleteTeam
<1>2. DisturbancesOK'
  BY DEF DeleteTeam, Disturbs, IInv, TypeOK, DisturbancesOK
<1>3. TypeOK'
  BY <1>1, <1>2 DEF IInv, TypeOK, DisturbancesOK, github
<1>4. RowsPushed'
  BY <1>1 DEF IInv, TypeOK, RowsPushed, RowPushed, github
<1>5. (HeldRowsPushed /\ HeadsPushed /\ PayloadsPushed)'
  BY <1>1 DEF IInv, HeldRowsPushed, HeldPushed, RowPushed, HeadsPushed, PayloadsPushed, PayloadPushed,
     github
<1> QED BY <1>3, <1>4, <1>5 DEF IInv

\* GitHub's steps leave the tables and the handlers alone and forget no push: what is
\* left to show for each is about the branches and the payloads.
LEMMA GithubSteps ==
  ASSUME IInv, UNCHANGED <<tables, handlers, crossed>>, pushed \subseteq pushed',
         posted \subseteq posted', posted' \subseteq Payloads,
         DisturbancesOK', found' \subseteq Repositories, commits' \in 0 .. MaxCommits,
         pushed' \subseteq Repositories \X Branches \X Commit,
         heads' \in [Repositories -> [Branches -> Sha]], HeadsPushed',
         deliveries' \in Seq(Payloads), PayloadsPushed'
  PROVE  IInv'
<1>1. TypeOK'
  BY DEF IInv, TypeOK, DisturbancesOK, tables
<1>2. \A row : RowPushed(row) => RowPushed(row)'
  BY DEF RowPushed
<1>3. RowsPushed'
  <2>1. ASSUME NEW t \in Teams \ crossed, rows[t] # NoRow PROVE RowPushed(rows[t])'
    BY <2>1 DEF IInv, RowsPushed, RowPushed, tables
  <2> QED BY <2>1 DEF RowsPushed, tables
<1>4. HeldRowsPushed'
  <2>1. ASSUME NEW h \in Slots PROVE HeldPushed(handlers[h])'
    <3>1. PICK s : s = handlers[h]
      OBVIOUS
    <3>2. HeldPushed(s)
      BY <3>1 DEF IInv, HeldRowsPushed
    <3>3. HeldPushed(s)'
      BY <1>2, <3>2 DEF HeldPushed
    <3> QED BY <3>1, <3>3 DEF HeldPushed, RowPushed
  <2> QED BY <2>1 DEF HeldRowsPushed
<1> QED BY <1>1, <1>3, <1>4 DEF IInv

\* One more payload under way.
LEMMA SendsPushed ==
  ASSUME IInv, pushed \subseteq pushed', posted \subseteq posted', NEW r \in Repositories,
         NEW b \in Branches \cup {NoBranch}, NEW sha \in Sha, Sends(Payload(r, b, sha)),
         \/ Payload(r, b, sha) \in posted'
         \/ sha # NoCommit => b # NoBranch /\ <<r, b, sha>> \in pushed'
  PROVE  Payload(r, b, sha) \in Payloads /\ deliveries' \in Seq(Payloads) /\ PayloadsPushed'
<1>1. PICK p : p = Payload(r, b, sha)
  OBVIOUS
<1>2. p \in Payloads /\ p.repository = r /\ p.branch = b /\ p.sha = sha
  BY <1>1 DEF Payload, Payloads
<1>3. deliveries \in Seq(Payloads) /\ deliveries' = Append(deliveries, p)
  BY <1>1 DEF Sends, IInv, TypeOK
<1>4. /\ deliveries' \in Seq(Payloads) /\ Len(deliveries') = Len(deliveries) + 1
      /\ Len(deliveries) \in Nat
      /\ \A i \in 1 .. Len(deliveries) : deliveries'[i] = deliveries[i]
      /\ deliveries'[Len(deliveries) + 1] = p
  BY <1>2, <1>3, AppendProperties, LenProperties
<1>5. ASSUME NEW i \in 1 .. Len(deliveries')
      PROVE  deliveries'[i].sha # NoCommit =>
               \/ deliveries'[i] \in posted'
               \/ /\ deliveries'[i].branch # NoBranch
                  /\ <<deliveries'[i].repository, deliveries'[i].branch, deliveries'[i].sha>> \in pushed'
  <2>1. CASE i \in 1 .. Len(deliveries)
    BY <1>4, <2>1 DEF IInv, PayloadsPushed, PayloadPushed
  <2>2. CASE i = Len(deliveries) + 1
    BY <1>1, <1>2, <1>4, <2>2
  <2> QED BY <1>4, <2>1, <2>2
<1> QED BY <1>1, <1>2, <1>4, <1>5 DEF PayloadsPushed, PayloadPushed

\* As long as nothing is sent the payloads stay as they are.
LEMMA NothingSent ==
  ASSUME IInv, UNCHANGED <<deliveries, pushed, posted>>
  PROVE  deliveries' \in Seq(Payloads) /\ PayloadsPushed'
BY DEF IInv, TypeOK, PayloadsPushed, PayloadPushed

LEMMA PushInv ==
  ASSUME IInv, NEW r \in Repositories, NEW b \in Branches, Push(r, b)
  PROVE  IInv'
<1>1. /\ commits' = commits + 1 /\ commits' \in Commit /\ commits' \in 0 .. MaxCommits
      /\ heads' = [heads EXCEPT ![r][b] = commits']
      /\ pushed' = pushed \cup {<<r, b, commits'>>} /\ Sends(Payload(r, b, commits'))
      /\ UNCHANGED <<tables, handlers, found, posted, crossed, disturbances>>
  BY RepositoryAssumption DEF Push, IInv, TypeOK, Commit
<1>2. pushed' \subseteq Repositories \X Branches \X Commit /\ pushed \subseteq pushed'
  BY <1>1 DEF IInv, TypeOK
<1>3. heads' \in [Repositories -> [Branches -> Sha]]
  BY <1>1 DEF IInv, TypeOK, Sha
<1>4. HeadsPushed'
  <2>1. \A q \in Repositories, c \in Branches :
          heads'[q][c] = IF q = r /\ c = b THEN commits' ELSE heads[q][c]
    BY <1>1 DEF IInv, TypeOK
  <2> QED BY <1>1, <2>1 DEF IInv, HeadsPushed
<1>5. deliveries' \in Seq(Payloads) /\ PayloadsPushed'
  <2>1. commits' \in Sha /\ b # NoBranch /\ <<r, b, commits'>> \in pushed'
    BY <1>1, RepositoryAssumption DEF Sha
  <2> QED BY <1>1, <1>2, <2>1, SendsPushed
<1>6. DisturbancesOK'
  BY <1>1, DisturbancesType DEF IInv
<1> QED BY <1>1, <1>2, <1>3, <1>4, <1>5, <1>6, GithubSteps DEF IInv, TypeOK

LEMMA DeleteBranchInv ==
  ASSUME IInv, NEW r \in Repositories, NEW b \in Branches, DeleteBranch(r, b)
  PROVE  IInv'
<1>1. /\ heads' = [heads EXCEPT ![r][b] = NoCommit] /\ Sends(Payload(r, b, NoCommit))
      /\ UNCHANGED <<tables, handlers, found, commits, pushed, posted, crossed, disturbances>>
  BY DEF DeleteBranch
<1>2. heads' \in [Repositories -> [Branches -> Sha]]
  BY <1>1 DEF IInv, TypeOK, Sha
<1>3. HeadsPushed'
  <2>1. \A q \in Repositories, c \in Branches :
          heads'[q][c] = IF q = r /\ c = b THEN NoCommit ELSE heads[q][c]
    BY <1>1 DEF IInv, TypeOK
  <2> QED BY <1>1, <2>1 DEF IInv, HeadsPushed
<1>4. deliveries' \in Seq(Payloads) /\ PayloadsPushed'
  BY <1>1, SendsPushed DEF Sha
<1>5. DisturbancesOK'
  BY <1>1, DisturbancesType DEF IInv
<1> QED BY <1>1, <1>2, <1>3, <1>4, <1>5, GithubSteps DEF IInv, TypeOK

LEMMA PostInv ==
  ASSUME IInv, NEW p \in Posts, Post(p[1], p[2], p[3])
  PROVE  IInv'
<1>1. PICK r \in Repositories, b \in Branches \cup {NoBranch}, sha \in Sha : p = <<r, b, sha>>
  BY RepositoryAssumption DEF Sha, Commit
<1>2. /\ Fault /\ Sends(Payload(r, b, sha)) /\ posted' = posted \cup {Payload(r, b, sha)}
      /\ UNCHANGED <<tables, handlers, found, heads, commits, pushed, crossed>>
  BY <1>1 DEF Post
<1>3. /\ Payload(r, b, sha) \in Payloads /\ deliveries' \in Seq(Payloads) /\ PayloadsPushed'
  BY <1>2, SendsPushed
<1>4. HeadsPushed'
  BY <1>2 DEF IInv, HeadsPushed
<1>5. DisturbancesOK'
  BY <1>2, DisturbancesType DEF IInv
<1>6. posted \subseteq posted' /\ posted' \subseteq Payloads
  BY <1>2, <1>3 DEF IInv, TypeOK
<1> QED BY <1>2, <1>3, <1>4, <1>5, <1>6, GithubSteps DEF IInv, TypeOK

LEMMA HideInv ==
  ASSUME IInv, NEW r \in Repositories, Hide(r)
  PROVE  IInv'
<1>1. /\ found' = found \ {r} /\ Fault
      /\ UNCHANGED <<tables, handlers, heads, commits, deliveries, pushed, posted, crossed>>
  BY DEF Hide
<1>2. HeadsPushed'
  BY <1>1 DEF IInv, HeadsPushed
<1>3. DisturbancesOK'
  BY <1>1, DisturbancesType DEF IInv
<1> QED BY <1>1, <1>2, <1>3, NothingSent, GithubSteps DEF IInv, TypeOK

\* Lost, repeated or swapped, the payloads are the same ones.
LEMMA MisdeliverInv ==
  ASSUME IInv, Misdeliver
  PROVE  IInv'
<1>1. /\ deliveries \in Seq(Payloads) /\ deliveries # <<>> /\ Fault
      /\ UNCHANGED <<tables, handlers, found, heads, commits, pushed, posted, crossed>>
  BY DEF Misdeliver, IInv, TypeOK
<1>2. \A i \in 1 .. Len(deliveries) : deliveries[i] \in Payloads /\ PayloadPushed(deliveries[i])
  BY <1>1, ElementOfSeq DEF IInv, PayloadsPushed
<1>3. Len(deliveries) \in Nat \ {0}
  BY <1>1, EmptySeq, LenProperties
<1>4. /\ deliveries' \in Seq(Payloads)
      /\ \A i \in 1 .. Len(deliveries') : \E j \in 1 .. Len(deliveries) : deliveries'[i] = deliveries[j]
  <2>1. CASE deliveries' = Tail(deliveries)
    BY <1>1, <1>3, <2>1, HeadTailProperties
  <2>2. CASE deliveries' = Append(deliveries, Head(deliveries))
    <3>1. Head(deliveries) = deliveries[1] /\ Head(deliveries) \in Payloads
      BY <1>1, <1>2, <1>3
    <3>2. /\ deliveries' \in Seq(Payloads) /\ Len(deliveries') = Len(deliveries) + 1
          /\ \A i \in 1 .. Len(deliveries) : deliveries'[i] = deliveries[i]
          /\ deliveries'[Len(deliveries) + 1] = deliveries[1]
      BY <1>1, <2>2, <3>1, AppendProperties
    <3> QED BY <1>3, <3>2
  <2>3. CASE Len(deliveries) > 1
             /\ deliveries' = <<deliveries[2], deliveries[1]>> \o SubSeq(deliveries, 3, Len(deliveries))
    <3> DEFINE two == <<deliveries[2], deliveries[1]>>
               rest == SubSeq(deliveries, 3, Len(deliveries))
    <3>1. two \in Seq(Payloads) /\ Len(two) = 2 /\ two[1] = deliveries[2] /\ two[2] = deliveries[1]
      BY <1>2, <1>3, <2>3
    <3>2. /\ rest \in Seq(Payloads)
          /\ Len(rest) = IF 3 <= Len(deliveries) THEN Len(deliveries) - 2 ELSE 0
          /\ \A i \in 1 .. Len(rest) : rest[i] = deliveries[i + 2]
      BY <1>1, <1>2, <1>3, <2>3, SubSeqProperties
    <3> HIDE DEF two, rest
    <3>3. /\ deliveries' \in Seq(Payloads) /\ Len(deliveries') = 2 + Len(rest)
          /\ \A i \in 1 .. Len(deliveries') :
               deliveries'[i] = IF i <= 2 THEN two[i] ELSE rest[i - 2]
      BY <2>3, <3>1, <3>2, ConcatProperties DEF two, rest
    <3>4. ASSUME NEW i \in 1 .. Len(deliveries')
          PROVE  \E j \in 1 .. Len(deliveries) : deliveries'[i] = deliveries[j]
      <4>1. CASE i = 1
        BY <1>3, <2>3, <3>1, <3>3, <4>1
      <4>2. CASE i = 2
        BY <1>3, <2>3, <3>1, <3>3, <4>2
      <4>3. CASE i > 2
        BY <1>3, <2>3, <3>2, <3>3, <4>3
      <4> QED BY <3>3, <4>1, <4>2, <4>3
    <3> QED BY <3>3, <3>4
  <2> QED BY <2>1, <2>2, <2>3 DEF Misdeliver
<1>5. PayloadsPushed'
  BY <1>1, <1>2, <1>4 DEF PayloadsPushed, PayloadPushed
<1>6. HeadsPushed'
  BY <1>1 DEF IInv, HeadsPushed
<1>7. DisturbancesOK'
  BY <1>1, DisturbancesType DEF IInv
<1> QED BY <1>1, <1>4, <1>5, <1>6, <1>7, GithubSteps DEF IInv, TypeOK

LEMMA CrashInv ==
  ASSUME IInv, Crash
  PROVE  IInv'
<1>1. /\ handlers' = [h \in Slots |-> Idle] /\ DisturbancesOK'
      /\ UNCHANGED <<tables, github, posted, crossed>>
  BY DisturbancesType DEF Crash, IInv
<1>2. handlers' \in [Slots -> Handler] /\ HeldRowsPushed'
  BY <1>1, IdleHandler DEF HeldRowsPushed, HeldPushed, Idle
<1>3. TypeOK'
  BY <1>1, <1>2 DEF IInv, TypeOK, DisturbancesOK, tables, github
<1>4. (RowsPushed /\ HeadsPushed /\ PayloadsPushed)'
  BY <1>1 DEF IInv, RowsPushed, RowPushed, HeadsPushed, PayloadsPushed, PayloadPushed, tables, github
<1> QED BY <1>2, <1>3, <1>4 DEF IInv
-----------------------------------------------------------------------------
(* Every step keeps the invariant *)

LEMMA InitInv == Init => IInv
<1> SUFFICES ASSUME Init PROVE IInv
  OBVIOUS
<1>1. TypeOK
  <2>1. handlers \in [Slots -> Handler]
    BY IdleHandler DEF Init
  <2>2. deliveries \in Seq(Payloads)
    BY DEF Init
  <2>3. heads \in [Repositories -> [Branches -> Sha]]
    BY DEF Init, Sha
  <2>4. rows \in [Teams -> Row \cup {NoRow}]
    BY DEF Init
  <2>5. commits \in 0 .. MaxCommits /\ faults \in 0 .. MaxFaults
    BY RepositoryAssumption DEF Init
  <2> QED BY <2>1, <2>2, <2>3, <2>4, <2>5 DEF Init, TypeOK
<1>2. RowsPushed /\ HeadsPushed
  BY DEF Init, RowsPushed, HeadsPushed
<1>3. HeldRowsPushed
  BY IdleHandler DEF Init, HeldRowsPushed
<1>4. PayloadsPushed
  BY DEF Init, PayloadsPushed
<1> QED BY <1>1, <1>2, <1>3, <1>4 DEF IInv

LEMMA NextInv == IInv /\ [Next]_vars => IInv'
<1> SUFFICES ASSUME IInv, [Next]_vars PROVE IInv'
  OBVIOUS
<1>1. CASE UNCHANGED vars
  BY <1>1 DEF vars, tables, github, disturbances, IInv, TypeOK, RowsPushed, RowPushed,
     HeldRowsPushed, HeldPushed, HeadsPushed, PayloadsPushed, PayloadPushed
<1>2. ASSUME NEW h \in Slots, Request(h) PROVE IInv'
  BY <1>2, RequestInv, ReceiveInv DEF Request
<1>3. ASSUME NEW h \in Slots, Statement(h) PROVE IInv'
  BY <1>3, FetchInv, InsertRowInv, UpdateRowInv, CommentInv DEF Statement
<1>4. ASSUME NEW t \in teams, DeleteTeam(t) PROVE IInv'
  BY <1>4, DeleteTeamInv
<1>5. ASSUME NEW r \in Repositories, NEW b \in Branches, Push(r, b) \/ DeleteBranch(r, b) PROVE IInv'
  BY <1>5, PushInv, DeleteBranchInv
<1>6. ASSUME NEW p \in Posts, Post(p[1], p[2], p[3]) PROVE IInv'
  BY <1>6, PostInv
<1>7. ASSUME NEW r \in Repositories, Hide(r) PROVE IInv'
  BY <1>7, HideInv
<1>8. CASE Misdeliver \/ Crash
  BY <1>8, MisdeliverInv, CrashInv
<1> QED BY <1>1, <1>2, <1>3, <1>4, <1>5, <1>6, <1>7, <1>8 DEF Next
-----------------------------------------------------------------------------
(* While all is calm *)

\* A row shows the last commit of its branch, or of one that was pushed to and ends alike, or
\* a payload for it is on its way.
Awaited(row) == \E i \in 1 .. Len(deliveries) : IsFor(deliveries[i], row)
PushedTo(r, b) == \E c \in Commit : <<r, b, c>> \in pushed
UpToDate(row) ==
  \E b \in Branches :
    /\ <<b, row.branch>> \in EndsWith
    /\ b = row.branch \/ PushedTo(ParseGithubUrl(row.url), b)
    /\ row.sha = heads[ParseGithubUrl(row.url)][b]
Settled(row) == Awaited(row) \/ UpToDate(row)

OneAtWork == \A g, h \in Slots : handlers[g] # Idle /\ handlers[h] # Idle => g = h

\* The last payload for a branch brings the last commit of that branch.
SameBranch(p, q) == p.repository = q.repository /\ p.branch = q.branch
NewestIsSent ==
  \A i \in 1 .. Len(deliveries) :
    /\ deliveries[i].branch \in Branches
    /\ PushedTo(deliveries[i].repository, deliveries[i].branch)
    /\ (\A j \in 1 .. Len(deliveries) : j > i => ~SameBranch(deliveries[j], deliveries[i])) =>
         deliveries[i].sha = heads[deliveries[i].repository][deliveries[i].branch]

Saving(s) == s.step \in {"selectRow", "updateRow"}

\* What a handler holds: the row it will save is there, and differs from it in the columns
\* it will update.
HeldSettled(s) ==
  /\ s.step \in {"fetchRepository", "fetchBranch"} /\ s.verifies => rows[s.team] # NoRow
  /\ s.step = "fetchBranch" => ParseGithubUrl(s.url) \in found
  /\ s.step \in {"findRow", "insertRow"} => Settled(s.row)
  /\ Saving(s) => \A t \in DOMAIN s.todo : rows[t] # NoRow /\ Settled(s.todo[t])
  /\ s.step = "updateRow" =>
       Overwritten(rows[s.team], s.columns, s.todo[s.team]) = s.todo[s.team]

RowsSettled ==
  \A t \in trusted :
    rows[t] # NoRow =>
      Settled(rows[t]) \/ \E h \in Slots : Saving(handlers[h]) /\ t \in DOMAIN handlers[h].todo

CalmInv ==
  OneAtWork /\ NewestIsSent /\ RowsSettled /\ \A h \in Slots : HeldSettled(handlers[h])

CalmOK == (calm => CalmInv) /\ (~calm => trusted = {})

\* Where calm stays or comes back.
LEMMA CalmComes ==
  ASSUME TypeOK, [Next]_vars, calm'
  PROVE  /\ ~Fault
         /\ \/ calm
            \/ /\ InFlight = {} /\ deliveries = <<>>
               /\ \E h \in Slots, user \in Users, t \in Teams :
                    \/ BeginVerify(h, user, t) \/ BeginComment(h, user, t)
                    \/ \E o \in Offers : BeginUpsert(h, user, t, o[1], o[2])
<1>1. ~Fault
  BY DEF Fault, Disturbs
<1> SUFFICES ASSUME ~calm
             PROVE  /\ InFlight = {} /\ deliveries = <<>>
                    /\ \E h \in Slots, user \in Users, t \in Teams :
                         \/ BeginVerify(h, user, t) \/ BeginComment(h, user, t)
                         \/ \E o \in Offers : BeginUpsert(h, user, t, o[1], o[2])
  BY <1>1
<1>2. UNCHANGED calm => FALSE
  OBVIOUS
<1>3. ASSUME NEW h, NEW s, Begins(h, s) PROVE InFlight = {} /\ deliveries = <<>>
  BY <1>3 DEF Begins, Disturbs
<1>4. CASE UNCHANGED vars
  BY <1>2, <1>4 DEF vars, disturbances
<1>5. ASSUME NEW h \in Slots, NEW user \in Users, NEW t \in Teams,
             \/ BeginVerify(h, user, t) \/ BeginComment(h, user, t)
             \/ \E o \in Offers : BeginUpsert(h, user, t, o[1], o[2])
      PROVE  InFlight = {} /\ deliveries = <<>>
  BY <1>3, <1>5 DEF BeginUpsert, BeginVerify, BeginComment
<1>6. ASSUME NEW h \in Slots, Receive(h) PROVE FALSE
  BY <1>3, <1>6 DEF Receive, ApplyGithubWebhook
<1>7. ASSUME NEW h \in Slots, Statement(h) PROVE FALSE
  BY <1>1, <1>2, <1>7 DEF Statement, FetchRepository, FetchBranch, GithubRequest, FindRow, InsertRow,
     SelectRow, UpdateRow, Updates, Writes, InsertComment, disturbances
<1>8. ASSUME NEW t \in teams, DeleteTeam(t) PROVE FALSE
  BY <1>2, <1>8 DEF DeleteTeam, Disturbs
<1>9. ASSUME NEW r \in Repositories, NEW b \in Branches, Push(r, b) \/ DeleteBranch(r, b) PROVE FALSE
  BY <1>2, <1>9 DEF Push, DeleteBranch, disturbances
<1>10. (\A p \in Posts : ~Post(p[1], p[2], p[3])) /\ (\A r \in Repositories : ~Hide(r))
       /\ ~Misdeliver /\ ~Crash
  BY <1>1 DEF Post, Hide, Misdeliver, Crash
<1>11. \A h \in Slots :
         Request(h) => \E user \in Users, t \in Teams :
                         \/ BeginVerify(h, user, t) \/ BeginComment(h, user, t)
                         \/ \E o \in Offers : BeginUpsert(h, user, t, o[1], o[2])
  BY <1>6 DEF Request
<1> QED BY <1>4, <1>5, <1>7, <1>8, <1>9, <1>10, <1>11 DEF Next

\* While one handler is at work the others wait for requests.
LEMMA OthersWait ==
  ASSUME CalmInv, NEW h \in Slots, handlers[h].step # "idle"
  PROVE  /\ \A g \in Slots \ {h} : handlers[g] = Idle
         /\ ~Saving(handlers[h]) => \A t \in trusted : rows[t] # NoRow => Settled(rows[t])
<1>1. \A g \in Slots \ {h} : handlers[g] = Idle
  BY DEF CalmInv, OneAtWork, Idle
<1> QED BY <1>1 DEF CalmInv, RowsSettled, Saving, Idle

\* A handler that starts alone starts when all others wait, and all trusted rows are settled.
LEMMA StartsAlone ==
  ASSUME CalmInv, InFlight = {}
  PROVE  \A t \in trusted : rows[t] # NoRow => Settled(rows[t])
<1>1. \A g \in Slots : handlers[g] = Idle
  BY DEF InFlight
<1> QED BY <1>1 DEF CalmInv, RowsSettled, Saving, Idle

\* What a step of one handler leaves to be shown.
LEMMA WorkSettles ==
  ASSUME TypeOK, NEW h \in Slots, NEW s, Goes(h, s),
         \A g \in Slots \ {h} : handlers[g] = Idle, NewestIsSent', HeldSettled(s)',
         \A t \in trusted' : rows'[t] # NoRow => Settled(rows[t])' \/ (Saving(s) /\ t \in DOMAIN s.todo)
  PROVE  CalmInv'
<1>1. handlers'[h] = s /\ \A g \in Slots \ {h} : handlers'[g] = Idle
  BY DEF Goes, TypeOK
<1>2. OneAtWork'
  BY <1>1 DEF OneAtWork, Idle
<1>3. RowsSettled'
  BY <1>1 DEF RowsSettled, Saving
<1>4. ASSUME NEW g \in Slots PROVE HeldSettled(handlers[g])'
  <2>1. CASE g = h
    BY <1>1, <2>1 DEF HeldSettled, Saving
  <2>2. CASE g # h
    BY <1>1, <2>2 DEF HeldSettled, Saving, Idle
  <2> QED BY <2>1, <2>2
<1> QED BY <1>2, <1>3, <1>4 DEF CalmInv

LEMMA GithubStays ==
  ASSUME NewestIsSent, UNCHANGED <<deliveries, heads, pushed>>
  PROVE  NewestIsSent' /\ \A row : Settled(row) => Settled(row)'
BY DEF NewestIsSent, Settled, Awaited, UpToDate, PushedTo

\* A step that reads, while what it goes on to hold is settled.
LEMMA ReadSettles ==
  ASSUME TypeOK, NewestIsSent, NEW h \in Slots, NEW s, Goes(h, s),
         \A g \in Slots \ {h} : handlers[g] = Idle,
         UNCHANGED <<rows, found, deliveries, heads, pushed, trusted>>, HeldSettled(s),
         \A t \in trusted : rows[t] # NoRow => Settled(rows[t]) \/ (Saving(s) /\ t \in DOMAIN s.todo)
  PROVE  CalmInv'
<1>1. NewestIsSent' /\ \A row : Settled(row) => Settled(row)'
  BY GithubStays
<1>2. HeldSettled(s)'
  BY <1>1 DEF HeldSettled, Saving
<1>3. \A t \in trusted' : rows'[t] # NoRow => Settled(rows[t])' \/ (Saving(s) /\ t \in DOMAIN s.todo)
  <2>1. ASSUME NEW row, Settled(row) PROVE Settled(row)'
    BY <1>1, <2>1
  <2>2. ASSUME NEW t \in trusted, rows[t] # NoRow, ~(Saving(s) /\ t \in DOMAIN s.todo)
        PROVE  Settled(rows[t])'
    <3>1. PICK row : row = rows[t] /\ row = rows'[t]
      OBVIOUS
    <3>2. Settled(row)'
      BY <2>1, <2>2, <3>1
    <3> QED BY <3>1, <3>2 DEF Settled, Awaited, UpToDate, PushedTo
  <2> QED BY <2>2
<1> QED BY <1>1, <1>2, <1>3, WorkSettles

LEMMA BeginSettles ==
  ASSUME TypeOK, CalmOK, calm', NEW h \in Slots, NEW user \in Users, NEW t \in Teams,
         \/ BeginVerify(h, user, t) \/ BeginComment(h, user, t)
         \/ \E o \in Offers : BeginUpsert(h, user, t, o[1], o[2])
  PROVE  CalmInv'
<1> DEFINE Starts(s) == Begins(h, s) /\ UNCHANGED github /\ HeldSettled(s)
<1>1. PICK s : Starts(s)
  <2>1. ASSUME NEW o \in Offers, BeginUpsert(h, user, t, o[1], o[2])
        PROVE  \E s : Starts(s)
    <3>1. Starts([step |-> "fetchRepository", team |-> t, url |-> o[1], branch |-> o[2],
                  verifies |-> FALSE])
      BY <2>1 DEF BeginUpsert, HeldSettled, Saving
    <3> QED BY <3>1
  <2>2. ASSUME BeginVerify(h, user, t)
        PROVE  \E s : Starts(s)
    <3>1. Starts([step |-> "fetchRepository", team |-> t, url |-> rows[t].url,
                  branch |-> rows[t].branch, verifies |-> TRUE])
      BY <2>2 DEF BeginVerify, HeldSettled, Saving
    <3> QED BY <3>1
  <2>3. ASSUME BeginComment(h, user, t)
        PROVE  \E s : Starts(s)
    <3>1. Starts([step |-> "insertComment", team |-> t, user |-> user])
      BY <2>3 DEF BeginComment, HeldSettled, Saving
    <3> QED BY <3>1
  <2> QED BY <2>1, <2>2, <2>3
<1>2. /\ InFlight = {} /\ Goes(h, s) /\ (calm \/ deliveries = <<>>)
      /\ UNCHANGED <<rows, found, deliveries, heads, pushed, trusted>>
  BY <1>1 DEF Begins, Disturbs, tables, github
<1>3. \A g \in Slots \ {h} : handlers[g] = Idle
  BY <1>2 DEF InFlight
<1>4. NewestIsSent /\ \A u \in trusted : rows[u] # NoRow => Settled(rows[u])
  <2>1. CASE calm
    BY <1>2, <2>1, StartsAlone DEF CalmOK, CalmInv
  <2>2. CASE ~calm
    BY <1>2, <2>2 DEF CalmOK, NewestIsSent
  <2> QED BY <2>1, <2>2
<1> QED BY <1>1, <1>2, <1>3, <1>4, ReadSettles

LEMMA FetchSettles ==
  ASSUME IInv, CalmInv, ~Fault, NEW h \in Slots, FetchRepository(h) \/ FetchBranch(h) \/ FindRow(h)
  PROVE  CalmInv'
<1>1. /\ handlers[h] \in Handler /\ HeldSettled(handlers[h])
      /\ handlers[h].step \in {"fetchRepository", "fetchBranch", "findRow"}
  BY DEF IInv, TypeOK, CalmInv, FetchRepository, FetchBranch, FindRow, At
<1>2. /\ \A g \in Slots \ {h} : handlers[g] = Idle
      /\ \A t \in trusted : rows[t] # NoRow => Settled(rows[t])
      /\ NewestIsSent
  BY <1>1, OthersWait DEF Saving, CalmInv
<1>3. UNCHANGED <<rows, found, deliveries, heads, pushed, trusted>>
  BY DEF FetchRepository, FetchBranch, FindRow, GithubRequest, github, disturbances
<1>4. HeldSettled(Idle)
  BY DEF HeldSettled, Saving, Idle
<1>5. CASE FetchRepository(h)
  <2>1. handlers[h] \in [step : {"fetchRepository", "fetchBranch"}, team : Teams, url : Urls,
                         branch : Branches, verifies : BOOLEAN]
    BY <1>1, <1>5, Fields DEF FetchRepository, At
  <2>2. PICK s : /\ Goes(h, s)
                 /\ \/ s = Idle
                    \/ /\ s = [handlers[h] EXCEPT !.step = "fetchBranch"]
                       /\ ParseGithubUrl(handlers[h].url) \in found
    BY <1>5 DEF FetchRepository, GithubRequest
  <2>3. HeldSettled(s)
    <3>1. CASE s = [handlers[h] EXCEPT !.step = "fetchBranch"]
               /\ ParseGithubUrl(handlers[h].url) \in found
      <4>1. s.step = "fetchBranch" /\ s.url = handlers[h].url /\ s.team = handlers[h].team
            /\ s.verifies = handlers[h].verifies
        BY <2>1, <3>1
      <4>2. handlers[h].step \in {"fetchRepository", "fetchBranch"}
        BY <2>1
      <4> QED BY <1>1, <3>1, <4>1, <4>2 DEF HeldSettled, Saving
    <3> QED BY <1>4, <2>2, <3>1
  <2> QED BY <1>2, <1>3, <2>2, <2>3, ReadSettles DEF IInv
<1>6. CASE FetchBranch(h)
  <2>1. PICK held, r : held = handlers[h] /\ r = ParseGithubUrl(held.url)
    OBVIOUS
  <2>2. /\ held.step = "fetchBranch" /\ held.team \in Teams /\ held.url \in Urls
        /\ held.branch \in Branches /\ held.verifies \in BOOLEAN
    BY <1>1, <1>6, <2>1, Fields DEF FetchBranch, At
  <2>3. r \in found
    BY <1>1, <2>1, <2>2 DEF HeldSettled
  <2>4. held.verifies => rows[held.team] # NoRow
    BY <1>1, <2>1, <2>2 DEF HeldSettled
  <2>5. PICK row : row = [url |-> held.url, branch |-> held.branch, sha |-> heads[r][held.branch]]
    OBVIOUS
  <2>6. FetchedAs(h, heads[r][held.branch])
    BY <1>6, <2>1, <2>3 DEF FetchBranch, GithubRequest
  <2>7. PICK s : /\ Goes(h, s)
                 /\ s = IF held.verifies THEN [step |-> "selectRow", todo |-> [u \in {held.team} |-> row]]
                        ELSE [step |-> "findRow", team |-> held.team, row |-> row]
    BY <2>1, <2>5, <2>6 DEF FetchedAs
  <2>8. <<held.branch, held.branch>> \in EndsWith
    BY <2>2, RepositoryAssumption
  <2>9. Settled(row)
    BY <2>1, <2>2, <2>5, <2>8 DEF Settled, UpToDate
  <2>10. HeldSettled(s)
    <3>1. CASE held.verifies
      <4>1. s.step = "selectRow" /\ DOMAIN s.todo = {held.team} /\ s.todo[held.team] = row
        BY <2>7, <3>1
      <4> QED BY <2>4, <2>9, <3>1, <4>1 DEF HeldSettled, Saving
    <3>2. CASE ~held.verifies
      <4>1. s.step = "findRow" /\ s.row = row
        BY <2>7, <3>2
      <4> QED BY <2>9, <4>1 DEF HeldSettled, Saving
    <3> QED BY <3>1, <3>2
  <2> QED BY <1>2, <1>3, <2>7, <2>10, ReadSettles DEF IInv
<1>7. CASE FindRow(h)
  <2>1. PICK held : held = handlers[h]
    OBVIOUS
  <2>2. held.step = "findRow" /\ Settled(held.row)
    BY <1>1, <1>7, <2>1 DEF FindRow, At, HeldSettled
  <2>3. held \in [step : {"findRow", "insertRow"}, team : Teams, row : Row]
    BY <1>1, <2>1, <2>2, Fields
  <2>4. PICK s : /\ Goes(h, s)
                 /\ s = IF rows[held.team] = NoRow THEN [held EXCEPT !.step = "insertRow"]
                        ELSE [step |-> "selectRow", todo |-> [u \in {held.team} |-> held.row]]
    BY <1>7, <2>1 DEF FindRow
  <2>5. HeldSettled(s)
    <3>1. CASE rows[held.team] = NoRow
      <4>1. s.step = "insertRow" /\ s.row = held.row
        BY <2>3, <2>4, <3>1
      <4> QED BY <2>2, <4>1 DEF HeldSettled, Saving
    <3>2. CASE rows[held.team] # NoRow
      <4>1. s.step = "selectRow" /\ DOMAIN s.todo = {held.team} /\ s.todo[held.team] = held.row
        BY <2>4, <3>2
      <4> QED BY <2>2, <3>2, <4>1 DEF HeldSettled, Saving
    <3> QED BY <3>1, <3>2
  <2> QED BY <1>2, <1>3, <2>4, <2>5, ReadSettles DEF IInv
<1> QED BY <1>5, <1>6, <1>7

LEMMA SelectSettles ==
  ASSUME IInv, CalmInv, NEW h \in Slots, SelectRow(h)
  PROVE  CalmInv'
<1>1. PICK todo : todo = handlers[h].todo
  OBVIOUS
<1>2. /\ handlers[h] \in Handler /\ HeldSettled(handlers[h]) /\ handlers[h].step = "selectRow"
      /\ NewestIsSent
  BY DEF IInv, TypeOK, CalmInv, SelectRow, At
<1>3. /\ DOMAIN todo \subseteq Teams
      /\ \A t \in DOMAIN todo : todo[t] \in Row /\ rows[t] # NoRow /\ Settled(todo[t])
  BY <1>1, <1>2, Fields DEF HeldSettled, Saving
<1>4. \A g \in Slots \ {h} : handlers[g] = Idle
  BY <1>2, OthersWait
<1>5. UNCHANGED <<rows, found, deliveries, heads, pushed, trusted>>
  BY DEF SelectRow, github, disturbances
<1>6. PICK t \in DOMAIN todo :
        Goes(h, [step |-> "updateRow", todo |-> todo, team |-> t,
                 columns |-> {c \in {"url", "branch", "sha"} : rows[t][c] # todo[t][c]}])
  BY <1>1, <1>3 DEF SelectRow
<1>7. PICK s : /\ Goes(h, s) /\ s.step = "updateRow" /\ s.todo = todo /\ s.team = t
               /\ s.columns = {c \in {"url", "branch", "sha"} : rows[t][c] # todo[t][c]}
  BY <1>6
<1>8. rows[t] \in Row
  BY <1>3 DEF IInv, TypeOK
<1>9. HeldSettled(s)
  BY <1>3, <1>7, <1>8, AllColumnsThatDiffer DEF HeldSettled, Saving
<1>10. ASSUME NEW u \in trusted, rows[u] # NoRow PROVE Settled(rows[u]) \/ u \in DOMAIN todo
  BY <1>1, <1>4, <1>10 DEF CalmInv, RowsSettled, Saving, Idle
<1> QED BY <1>2, <1>4, <1>5, <1>7, <1>9, <1>10, ReadSettles DEF IInv, Saving

LEMMA InsertSettles ==
  ASSUME IInv, CalmInv, calm, NEW h \in Slots, InsertRow(h) \/ InsertComment(h)
  PROVE  CalmInv'
<1>1. handlers[h].step \in {"insertRow", "insertComment"} /\ NewestIsSent
  BY DEF InsertRow, InsertComment, At, CalmInv
<1>2. /\ \A g \in Slots \ {h} : handlers[g] = Idle
      /\ \A t \in trusted : rows[t] # NoRow => Settled(rows[t])
  BY <1>1, OthersWait DEF Saving
<1>3. Goes(h, Idle) /\ UNCHANGED <<found, deliveries, heads, pushed>>
  BY DEF InsertRow, InsertComment, github
<1>4. HeldSettled(Idle) /\ HeldSettled(Idle)'
  BY DEF HeldSettled, Saving, Idle
<1>5. CASE UNCHANGED <<rows, trusted>>
  BY <1>1, <1>2, <1>3, <1>4, <1>5, ReadSettles DEF IInv
<1>6. CASE ~UNCHANGED <<rows, trusted>>
  <2>1. PICK t, row : t = handlers[h].team /\ row = handlers[h].row
    OBVIOUS
  <2>2. handlers[h].step = "insertRow" /\ Writes(t, row, row)
    BY <1>6, <2>1 DEF InsertRow, InsertComment, At, disturbances
  <2>3. t \in Teams /\ Settled(row)
    BY <2>1, <2>2, Fields DEF IInv, TypeOK, CalmInv, HeldSettled
  <2>4. trusted' = trusted \cup {t} /\ \A u \in Teams : rows'[u] = IF u = t THEN row ELSE rows[u]
    BY <2>2, <2>3 DEF Writes, IInv, TypeOK
  <2>5. NewestIsSent' /\ \A any : Settled(any) => Settled(any)'
    BY <1>1, <1>3, GithubStays
  <2>6. ASSUME NEW u \in trusted', rows'[u] # NoRow PROVE Settled(rows[u])'
    <3>1. PICK any : any = rows'[u]
      OBVIOUS
    <3>2. Settled(any)
      BY <1>2, <2>3, <2>4, <2>6, <3>1 DEF IInv, TypeOK
    <3> QED BY <2>5, <3>1, <3>2 DEF Settled, Awaited, UpToDate, PushedTo
  <2> QED BY <1>2, <1>3, <1>4, <2>5, <2>6, WorkSettles DEF IInv
<1> QED BY <1>5, <1>6

LEMMA UpdateSettles ==
  ASSUME IInv, CalmInv, calm, NEW h \in Slots, UpdateRow(h)
  PROVE  CalmInv'
<1>1. PICK held, todo, t : held = handlers[h] /\ todo = held.todo /\ t = held.team
  OBVIOUS
<1>2. /\ held \in Handler /\ HeldSettled(held) /\ HeldPushed(held) /\ held.step = "updateRow"
      /\ NewestIsSent
  BY <1>1 DEF IInv, TypeOK, HeldRowsPushed, CalmInv, UpdateRow, At
<1>3. /\ DOMAIN todo \subseteq Teams /\ t \in DOMAIN todo
      /\ \A u \in DOMAIN todo : rows[u] # NoRow /\ Settled(todo[u]) /\ todo[u] \in Row
      /\ Overwritten(rows[t], held.columns, todo[t]) = todo[t]
  BY <1>1, <1>2, Fields DEF HeldSettled, HeldPushed, Saving
<1>4. \A g \in Slots \ {h} : handlers[g] = Idle
  BY <1>1, <1>2, OthersWait
<1>5. /\ Writes(t, todo[t], todo[t]) /\ UNCHANGED <<found, deliveries, heads, pushed>>
  BY <1>1, <1>3 DEF UpdateRow, Updates, github
<1>6. /\ trusted' = trusted \cup {t}
      /\ \A u \in Teams : rows'[u] = IF u = t THEN todo[t] ELSE rows[u]
  BY <1>3, <1>5 DEF Writes, IInv, TypeOK
<1>7. PICK s : /\ Goes(h, s)
               /\ s = IF DOMAIN todo \ {t} = {} THEN Idle
                      ELSE [step |-> "selectRow", todo |-> [u \in DOMAIN todo \ {t} |-> todo[u]]]
  BY <1>1 DEF UpdateRow
<1>8. NewestIsSent' /\ \A any : Settled(any) => Settled(any)'
  BY <1>2, <1>5, GithubStays
<1>9. HeldSettled(s)'
  <2>1. CASE DOMAIN todo \ {t} = {}
    BY <1>7, <2>1 DEF HeldSettled, Saving, Idle
  <2>2. CASE DOMAIN todo \ {t} # {}
    <3>1. /\ s.step = "selectRow" /\ DOMAIN s.todo = DOMAIN todo \ {t}
          /\ \A u \in DOMAIN s.todo : s.todo[u] = todo[u]
      BY <1>7, <2>2
    <3>2. ASSUME NEW u \in DOMAIN s.todo PROVE rows'[u] # NoRow /\ Settled(s.todo[u])'
      <4>1. PICK any : any = s.todo[u]
        OBVIOUS
      <4>2. u \in Teams /\ rows'[u] # NoRow /\ Settled(any)
        BY <1>3, <1>6, <3>1, <4>1
      <4> QED BY <1>8, <4>1, <4>2
    <3> QED BY <3>1, <3>2 DEF HeldSettled, Saving
  <2> QED BY <2>1, <2>2
<1>10. ASSUME NEW u \in trusted', rows'[u] # NoRow
       PROVE  Settled(rows[u])' \/ (Saving(s) /\ u \in DOMAIN s.todo)
  <2>1. PICK any : any = rows'[u]
    OBVIOUS
  <2>2. Settled(any) => Settled(rows[u])'
    BY <1>8, <2>1 DEF Settled, Awaited, UpToDate, PushedTo
  <2>3. u \in Teams
    BY <1>3, <1>6 DEF IInv, TypeOK
  <2>4. CASE u = t
    BY <1>3, <1>6, <2>1, <2>2, <2>3, <2>4
  <2>5. CASE u # t
    <3>1. u \in trusted /\ any = rows[u] /\ any # NoRow
      BY <1>6, <1>10, <2>1, <2>3, <2>5
    <3>2. Settled(any) \/ u \in DOMAIN todo
      BY <1>1, <1>4, <3>1 DEF CalmInv, RowsSettled, Saving, Idle
    <3>3. ASSUME u \in DOMAIN todo PROVE Saving(s) /\ u \in DOMAIN s.todo
      BY <1>7, <2>5, <3>3 DEF Saving
    <3> QED BY <2>2, <3>2, <3>3
  <2> QED BY <2>4, <2>5
<1> QED BY <1>4, <1>7, <1>8, <1>9, <1>10, WorkSettles DEF IInv

LEMMA ReceiveSettles ==
  ASSUME IInv, CalmInv, calm, calm', NEW h \in Slots, Receive(h)
  PROVE  CalmInv'
<1>1. PICK p : p = Head(deliveries)
  OBVIOUS
<1> DEFINE matched == {t \in Teams : rows[t] # NoRow /\ IsFor(p, rows[t])}
           todo == [t \in matched |-> [rows[t] EXCEPT !.sha = p.sha]]
<1>2. PICK s : s = IF matched = {} THEN Idle ELSE [step |-> "selectRow", todo |-> todo]
  OBVIOUS
<1>3. /\ Goes(h, s) /\ InFlight = {} /\ UNCHANGED <<rows, found, heads, pushed, trusted>>
      /\ deliveries # <<>> /\ deliveries' = Tail(deliveries)
  BY <1>1, <1>2 DEF Receive, ApplyGithubWebhook, Begins, Disturbs, tables
<1>4. /\ deliveries \in Seq(Payloads) /\ Len(deliveries) \in Nat \ {0} /\ p = deliveries[1]
      /\ Len(deliveries') = Len(deliveries) - 1
      /\ \A i \in 1 .. Len(deliveries') : deliveries'[i] = deliveries[i + 1]
  BY <1>1, <1>3, EmptySeq, LenProperties, HeadTailProperties DEF IInv, TypeOK
<1>5. \A i \in 1 .. Len(deliveries) : i # 1 => i - 1 \in 1 .. Len(deliveries')
                                              /\ deliveries'[i - 1] = deliveries[i]
  BY <1>4
<1>6. NewestIsSent'
  <2>1. ASSUME NEW i \in 1 .. Len(deliveries'),
               \A j \in 1 .. Len(deliveries') : j > i => ~SameBranch(deliveries'[j], deliveries'[i])
        PROVE  deliveries'[i].sha = heads[deliveries'[i].repository][deliveries'[i].branch]
    <3>1. i + 1 \in 1 .. Len(deliveries) /\ deliveries'[i] = deliveries[i + 1]
      BY <1>4
    <3>2. \A j \in 1 .. Len(deliveries) : j > i + 1 => ~SameBranch(deliveries[j], deliveries[i + 1])
      <4>1. ASSUME NEW j \in 1 .. Len(deliveries), j > i + 1
            PROVE  ~SameBranch(deliveries[j], deliveries[i + 1])
        <5>1. j # 1 /\ j - 1 > i
          BY <1>3, <1>4, <4>1
        <5>2. j - 1 \in 1 .. Len(deliveries') /\ deliveries'[j - 1] = deliveries[j]
          BY <1>5, <4>1, <5>1
        <5>3. ~SameBranch(deliveries'[j - 1], deliveries'[i])
          BY <2>1, <5>1, <5>2
        <5> QED BY <3>1, <5>2, <5>3
      <4> QED BY <4>1
    <3> QED BY <3>1, <3>2 DEF CalmInv, NewestIsSent
  <2>2. \A i \in 1 .. Len(deliveries') :
          /\ deliveries'[i].branch \in Branches
          /\ PushedTo(deliveries'[i].repository, deliveries'[i].branch)
    <3>1. \A i \in 1 .. Len(deliveries') : i + 1 \in 1 .. Len(deliveries)
      BY <1>4
    <3> QED BY <1>4, <3>1 DEF CalmInv, NewestIsSent
  <2> QED BY <1>3, <2>1, <2>2 DEF NewestIsSent, SameBranch, PushedTo
<1>7. ASSUME NEW row, Settled(row), ~IsFor(p, row) PROVE Settled(row)'
  BY <1>3, <1>4, <1>5, <1>7 DEF Settled, Awaited, UpToDate, PushedTo
<1>8. ASSUME NEW row, IsFor(p, row), row.sha = p.sha PROVE Settled(row)'
  <2>1. p.branch \in Branches /\ p.branch # NoBranch /\ PushedTo(p.repository, p.branch)
    BY <1>4, RepositoryAssumption DEF CalmInv, NewestIsSent
  <2>2. CASE \E j \in 1 .. Len(deliveries) : j > 1 /\ SameBranch(deliveries[j], p)
    <3>1. PICK j \in 1 .. Len(deliveries) : j > 1 /\ SameBranch(deliveries[j], p)
      BY <2>2
    <3>2. IsFor(deliveries[j], row)
      BY <1>8, <2>1, <3>1 DEF IsFor, SameBranch
    <3> QED BY <1>5, <3>1, <3>2 DEF Settled, Awaited
  <2>3. CASE \A j \in 1 .. Len(deliveries) : j > 1 => ~SameBranch(deliveries[j], p)
    <3>1. p.sha = heads[p.repository][p.branch]
      BY <1>4, <2>3 DEF CalmInv, NewestIsSent
    <3> QED BY <1>3, <1>8, <2>1, <3>1 DEF Settled, UpToDate, PushedTo, IsFor
  <2> QED BY <2>2, <2>3
<1>9. \A t \in trusted : rows[t] # NoRow => Settled(rows[t])
  BY <1>3, StartsAlone
<1>10. ASSUME NEW t \in matched
       PROVE  todo[t].sha = p.sha /\ IsFor(p, todo[t])
  <2>1. rows[t] \in Row
    BY DEF IInv, TypeOK
  <2>2. /\ todo[t].sha = p.sha /\ todo[t].url = rows[t].url /\ todo[t].branch = rows[t].branch
    BY <2>1 DEF Row
  <2> QED BY <2>2 DEF IsFor
<1>11. HeldSettled(s)'
  <2>1. CASE matched = {}
    BY <1>2, <2>1 DEF HeldSettled, Saving, Idle
  <2>2. CASE matched # {}
    <3>1. s.step = "selectRow" /\ DOMAIN s.todo = matched
          /\ \A t \in matched : s.todo[t] = todo[t]
      BY <1>2, <2>2
    <3>2. ASSUME NEW t \in DOMAIN s.todo PROVE rows'[t] # NoRow /\ Settled(s.todo[t])'
      <4>1. PICK row : row = s.todo[t]
        OBVIOUS
      <4>2. row.sha = p.sha /\ IsFor(p, row)
        BY <1>10, <3>1, <4>1
      <4>3. rows'[t] # NoRow
        BY <1>3, <3>1
      <4> QED BY <1>8, <4>1, <4>2, <4>3
    <3> QED BY <3>1, <3>2 DEF HeldSettled, Saving
  <2> QED BY <2>1, <2>2
<1>12. ASSUME NEW t \in trusted', rows'[t] # NoRow
       PROVE  Settled(rows[t])' \/ (Saving(s) /\ t \in DOMAIN s.todo)
  <2>1. PICK row : row = rows[t]
    OBVIOUS
  <2>2. t \in Teams /\ t \in trusted
    BY <1>3 DEF IInv, TypeOK
  <2>3. CASE IsFor(p, row)
    <3>1. t \in matched
      BY <1>3, <1>12, <2>1, <2>2, <2>3
    <3> QED BY <1>2, <3>1 DEF Saving
  <2>4. CASE ~IsFor(p, row)
    <3>1. Settled(row)'
      BY <1>3, <1>7, <1>9, <1>12, <2>1, <2>2, <2>4
    <3> QED BY <1>3, <2>1, <3>1 DEF Settled, Awaited, UpToDate, PushedTo
  <2> QED BY <2>3, <2>4
<1>13. \A g \in Slots \ {h} : handlers[g] = Idle
  BY <1>3 DEF InFlight
<1> HIDE DEF matched, todo
<1> QED BY <1>3, <1>6, <1>11, <1>12, <1>13, WorkSettles DEF IInv

\* A payload is sent along with every change of a branch.
LEMMA PushSettles ==
  ASSUME IInv, CalmInv, NEW r \in Repositories, NEW b \in Branches, Push(r, b) \/ DeleteBranch(r, b)
  PROVE  CalmInv'
<1>1. PICK sha : /\ heads' = [heads EXCEPT ![r][b] = sha] /\ Sends(Payload(r, b, sha))
                 /\ UNCHANGED <<tables, handlers, found, trusted>>
  BY DEF Push, DeleteBranch, disturbances
<1>2. PICK p : p = Payload(r, b, sha)
  OBVIOUS
<1>3. p.repository = r /\ p.branch = b /\ p.sha = sha
  BY <1>2 DEF Payload
<1>4. deliveries \in Seq(Payloads) /\ deliveries' = Append(deliveries, p)
  BY <1>1, <1>2 DEF Sends, IInv, TypeOK
<1>5. PICK n \in Nat : n = Len(deliveries)
  BY <1>4, LenProperties
<1>6. /\ Len(deliveries') = n + 1 /\ deliveries'[n + 1] = p
      /\ \A i \in 1 .. n : deliveries'[i] = deliveries[i] /\ deliveries[i] \in Payloads
  BY <1>4, <1>5, ElementOfSeq
<1>7. \A q \in Repositories, c \in Branches :
        heads'[q][c] = IF q = r /\ c = b THEN sha ELSE heads[q][c]
  BY <1>1 DEF IInv, TypeOK
<1>8. pushed \subseteq pushed' /\ PushedTo(r, b)'
  <2>1. CASE Push(r, b)
    <3>1. commits + 1 \in Commit /\ pushed' = pushed \cup {<<r, b, commits + 1>>}
      BY <2>1, RepositoryAssumption DEF Push, IInv, TypeOK, Commit
    <3> QED BY <3>1 DEF PushedTo
  <2>2. CASE DeleteBranch(r, b)
    <3>1. pushed' = pushed /\ <<r, b, heads[r][b]>> \in pushed
      BY <2>2 DEF DeleteBranch, IInv, HeadsPushed
    <3>2. heads[r][b] \in Commit
      BY <2>2 DEF DeleteBranch, IInv, TypeOK, Sha
    <3> QED BY <3>1, <3>2 DEF PushedTo
  <2> QED BY <2>1, <2>2
<1>9. \A q, c : PushedTo(q, c) => PushedTo(q, c)'
  BY <1>8 DEF PushedTo
<1>10. NewestIsSent'
  <2>1. ASSUME NEW i \in 1 .. n,
               \A j \in 1 .. n + 1 : j > i => ~SameBranch(deliveries'[j], deliveries'[i])
        PROVE  deliveries'[i].sha = heads'[deliveries'[i].repository][deliveries'[i].branch]
    <3>1. ~SameBranch(p, deliveries[i])
      BY <1>6, <2>1
    <3>2. \A j \in 1 .. n : j > i => ~SameBranch(deliveries[j], deliveries[i])
      BY <1>6, <2>1
    <3>3. /\ deliveries[i].sha = heads[deliveries[i].repository][deliveries[i].branch]
          /\ deliveries[i].branch \in Branches
      BY <1>5, <3>2 DEF CalmInv, NewestIsSent
    <3>4. deliveries[i].repository \in Repositories
      BY <1>6 DEF Payloads
    <3> QED BY <1>3, <1>6, <1>7, <3>1, <3>3, <3>4 DEF SameBranch
  <2>2. deliveries'[n + 1].sha = heads'[deliveries'[n + 1].repository][deliveries'[n + 1].branch]
    BY <1>3, <1>6, <1>7
  <2>3. \A i \in 1 .. n : /\ deliveries[i].branch \in Branches
                          /\ PushedTo(deliveries[i].repository, deliveries[i].branch)
    BY <1>5 DEF CalmInv, NewestIsSent
  <2>4. \A i \in 1 .. n : /\ deliveries'[i].branch \in Branches
                          /\ PushedTo(deliveries[i].repository, deliveries[i].branch)'
    BY <1>6, <1>9, <2>3
  <2>5. ASSUME NEW i \in 1 .. n + 1
        PROVE  /\ deliveries'[i].branch \in Branches
               /\ \E c \in Commit : <<deliveries'[i].repository, deliveries'[i].branch, c>> \in pushed'
    <3>1. CASE i = n + 1
      BY <1>3, <1>6, <1>8, <3>1 DEF PushedTo
    <3>2. CASE i # n + 1
      <4>1. i \in 1 .. n
        BY <3>2
      <4> QED BY <1>6, <1>8, <2>3, <4>1 DEF PushedTo
    <3> QED BY <3>1, <3>2
  <2>6. \A i \in 1 .. n + 1 : i \in 1 .. n \/ i = n + 1
    OBVIOUS
  <2> QED BY <1>6, <2>1, <2>2, <2>5, <2>6 DEF NewestIsSent, SameBranch, PushedTo
<1>11. ASSUME NEW row \in Row, Settled(row) PROVE Settled(row)'
  <2>1. CASE Awaited(row)
    BY <1>5, <1>6, <2>1 DEF Settled, Awaited
  <2>2. CASE UpToDate(row)
    <3>1. ParseGithubUrl(row.url) \in Repositories
      BY RowIsARow
    <3>2. PICK c \in Branches :
            /\ <<c, row.branch>> \in EndsWith /\ row.sha = heads[ParseGithubUrl(row.url)][c]
            /\ c = row.branch \/ PushedTo(ParseGithubUrl(row.url), c)
      BY <2>2 DEF UpToDate
    <3>3. CASE ParseGithubUrl(row.url) = r /\ c = b
      <4>1. IsFor(p, row)
        BY <1>3, <3>2, <3>3 DEF IsFor
      <4> QED BY <1>6, <4>1 DEF Settled, Awaited
    <3>4. CASE ~(ParseGithubUrl(row.url) = r /\ c = b)
      <4>1. heads'[ParseGithubUrl(row.url)][c] = row.sha
        BY <1>7, <3>1, <3>2, <3>4
      <4>2. c = row.branch \/ PushedTo(ParseGithubUrl(row.url), c)'
        BY <1>9, <3>2
      <4> QED BY <3>2, <4>1, <4>2 DEF Settled, UpToDate, PushedTo
    <3> QED BY <3>3, <3>4
  <2> QED BY <1>11, <2>1, <2>2 DEF Settled
<1>12. RowsSettled'
  <2>1. ASSUME NEW t \in trusted, rows[t] # NoRow, Settled(rows[t]) PROVE Settled(rows[t])'
    <3>1. PICK row \in Row : row = rows[t]
      BY <2>1 DEF IInv, TypeOK
    <3> QED BY <1>1, <1>11, <2>1, <3>1 DEF Settled, Awaited, UpToDate, PushedTo, tables
  <2> QED BY <1>1, <2>1 DEF CalmInv, RowsSettled, tables
<1>13. ASSUME NEW h \in Slots PROVE HeldSettled(handlers[h])'
  <2>1. PICK s \in Handler : s = handlers[h] /\ s = handlers'[h]
    BY <1>1 DEF IInv, TypeOK
  <2>2. HeldSettled(s)
    BY <2>1 DEF CalmInv
  <2>3. s.step \in {"findRow", "insertRow"} => Settled(s.row)'
    BY <1>11, <2>1, <2>2, Fields DEF HeldSettled
  <2>4. Saving(s) => \A t \in DOMAIN s.todo : Settled(s.todo[t])'
    BY <1>11, <2>1, <2>2, Fields DEF HeldSettled, Saving
  <2>5. HeldSettled(s)'
    BY <1>1, <2>2, <2>3, <2>4 DEF HeldSettled, Saving, tables
  <2> QED BY <2>1, <2>5 DEF HeldSettled, Saving
<1> QED BY <1>1, <1>10, <1>12, <1>13 DEF CalmInv, OneAtWork

LEMMA DeleteTeamSettles ==
  ASSUME IInv, CalmInv, calm', NEW d \in teams, DeleteTeam(d)
  PROVE  CalmInv'
<1>1. /\ rows' = [rows EXCEPT ![d] = NoRow] /\ InFlight = {}
      /\ UNCHANGED <<handlers, found, deliveries, heads, pushed, trusted>>
  BY DEF DeleteTeam, github, Disturbs
<1>2. \A g \in Slots : handlers'[g] = Idle
  BY <1>1 DEF InFlight
<1>3. NewestIsSent' /\ \A row : Settled(row) => Settled(row)'
  BY <1>1, GithubStays DEF CalmInv
<1>4. ASSUME NEW t \in trusted', rows'[t] # NoRow PROVE Settled(rows[t])'
  <2>1. PICK row : row = rows'[t]
    OBVIOUS
  <2>2. Settled(row)
    BY <1>1, <1>4, <2>1, StartsAlone DEF IInv, TypeOK
  <2> QED BY <1>3, <2>1, <2>2 DEF Settled, Awaited, UpToDate, PushedTo
<1>5. \A h \in Slots : HeldSettled(handlers[h])'
  BY <1>2 DEF HeldSettled, Saving, Idle
<1>6. OneAtWork' /\ RowsSettled'
  BY <1>2, <1>4 DEF OneAtWork, RowsSettled
<1> QED BY <1>3, <1>5, <1>6 DEF CalmInv

\* What is not calm trusts nothing.
LEMMA TrustGoes ==
  ASSUME TypeOK, CalmOK, [Next]_vars, ~calm'
  PROVE  trusted' = {}
<1>1. CASE Fault
  BY <1>1 DEF Fault, Disturbs
<1>2. CASE UNCHANGED <<calm, trusted>>
  BY <1>2 DEF CalmOK
<1>3. ASSUME NEW h, NEW s, Begins(h, s) PROVE trusted' = {}
  BY <1>3 DEF Begins, Disturbs, CalmOK
<1>4. ASSUME NEW t, NEW row, NEW held, Writes(t, row, held) PROVE trusted' = {}
  BY <1>4 DEF Writes, CalmOK
<1>5. ASSUME NEW h \in Slots, Request(h) PROVE trusted' = {}
  BY <1>3, <1>5 DEF Request, BeginUpsert, BeginVerify, BeginComment, Receive, ApplyGithubWebhook
<1>6. ASSUME NEW h \in Slots, Statement(h) PROVE trusted' = {}
  BY <1>1, <1>2, <1>4, <1>6 DEF Statement, FetchRepository, FetchBranch, GithubRequest, FindRow, InsertRow,
     SelectRow, UpdateRow, Updates, InsertComment, disturbances
<1>7. ASSUME NEW t \in teams, DeleteTeam(t) PROVE trusted' = {}
  BY <1>2, <1>7 DEF DeleteTeam, Disturbs
<1>8. ASSUME NEW r \in Repositories, NEW b \in Branches, Push(r, b) \/ DeleteBranch(r, b)
      PROVE  trusted' = {}
  BY <1>2, <1>8 DEF Push, DeleteBranch, disturbances
<1>9. ASSUME (\E p \in Posts : Post(p[1], p[2], p[3])) \/ (\E r \in Repositories : Hide(r))
             \/ Misdeliver \/ Crash
      PROVE  trusted' = {}
  BY <1>1, <1>9 DEF Post, Hide, Misdeliver, Crash
<1>10. CASE UNCHANGED vars
  BY <1>2, <1>10 DEF vars, disturbances
<1> QED BY <1>5, <1>6, <1>7, <1>8, <1>9, <1>10 DEF Next

LEMMA CalmNext == IInv /\ CalmOK /\ [Next]_vars => CalmOK'
<1> SUFFICES ASSUME IInv, CalmOK, [Next]_vars, calm' PROVE CalmInv'
  BY TrustGoes DEF CalmOK, IInv
<1>1. ~Fault
  BY CalmComes DEF IInv
<1>2. ASSUME NEW h \in Slots, NEW user \in Users, NEW t \in Teams,
             \/ BeginVerify(h, user, t) \/ BeginComment(h, user, t)
             \/ \E o \in Offers : BeginUpsert(h, user, t, o[1], o[2])
      PROVE  CalmInv'
  BY <1>2, BeginSettles DEF IInv
<1>3. CASE ~calm
  BY <1>2, <1>3, CalmComes DEF IInv
<1>4. CASE calm
  <2>1. CalmInv
    BY <1>4 DEF CalmOK
  <2>2. CASE UNCHANGED vars
    <3>1. UNCHANGED <<rows, handlers, found, deliveries, heads, pushed, trusted>>
      BY <2>2 DEF vars, tables, github, disturbances
    <3>2. RowsSettled' /\ NewestIsSent' /\ OneAtWork'
      BY <2>1, <3>1 DEF CalmInv, RowsSettled, NewestIsSent, OneAtWork, Settled, Awaited, UpToDate, PushedTo
    <3>3. \A h \in Slots : HeldSettled(handlers[h])'
      BY <2>1, <3>1 DEF CalmInv, HeldSettled, Settled, Awaited, UpToDate, PushedTo
    <3> QED BY <3>2, <3>3 DEF CalmInv
  <2>3. ASSUME NEW h \in Slots, Request(h) PROVE CalmInv'
    BY <1>2, <1>4, <2>1, <2>3, ReceiveSettles DEF Request
  <2>4. ASSUME NEW h \in Slots, Statement(h) PROVE CalmInv'
    BY <1>1, <1>4, <2>1, <2>4, FetchSettles, SelectSettles, InsertSettles, UpdateSettles DEF Statement
  <2>5. ASSUME NEW t \in teams, DeleteTeam(t) PROVE CalmInv'
    BY <2>1, <2>5, DeleteTeamSettles
  <2>6. ASSUME NEW r \in Repositories, NEW b \in Branches, Push(r, b) \/ DeleteBranch(r, b) PROVE CalmInv'
    BY <2>1, <2>6, PushSettles
  <2>7. (\A p \in Posts : ~Post(p[1], p[2], p[3])) /\ (\A r \in Repositories : ~Hide(r))
        /\ ~Misdeliver /\ ~Crash
    BY <1>1 DEF Post, Hide, Misdeliver, Crash
  <2> QED BY <2>2, <2>3, <2>4, <2>5, <2>6, <2>7 DEF Next
<1> QED BY <1>3, <1>4

LEMMA CalmInit == Init => CalmOK
<1> SUFFICES ASSUME Init PROVE CalmInv /\ calm
  BY DEF CalmOK
<1>1. NewestIsSent
  BY DEF Init, NewestIsSent
<1>2. RowsSettled /\ OneAtWork /\ calm
  BY DEF Init, RowsSettled, OneAtWork
<1>3. \A h \in Slots : HeldSettled(handlers[h])
  BY DEF Init, HeldSettled, Saving, Idle
<1> QED BY <1>1, <1>2, <1>3 DEF CalmInv
-----------------------------------------------------------------------------
(* The theorems *)

\* Rows, payloads and what handlers hold have their types.
THEOREM RepositoryTypes == Spec => []TypeOK
<1>1. IInv => TypeOK
  BY DEF IInv
<1> QED BY <1>1, InitInv, NextInv, PTL DEF Spec

\* The commit beside an address was pushed there, to a branch taken for the team's, or was
\* posted for it (teams.service.ts:595, 619, 829), whatever overlaps and goes wrong; unless
\* the last save of the row was crossed by another between its two statements.
THEOREM TrueCommits == Spec => []CommitsAreOfTheirBranch
<1>1. IInv => CommitsAreOfTheirBranch
  BY DEF IInv, RowsPushed, RowPushed, CommitsAreOfTheirBranch
<1> QED BY <1>1, InitInv, NextInv, PTL DEF Spec

\* Once all is idle, a row shows the last commit of its branch or of another that was pushed
\* to and ends alike, whatever was pushed between the steps of a request
\* (teams.service.ts:599-622, 817-834); every row while nothing has gone wrong and no requests
\* have overlapped, and afterwards each row that was written since all was idle.
THEOREM QuietRows == Spec => []QuietRowsAreCurrent
<1>1. IInv /\ CalmOK => QuietRowsAreCurrent
  <2> SUFFICES ASSUME CalmOK, InFlight = {}, deliveries = <<>>, NEW t \in trusted, rows[t] # NoRow
               PROVE  UpToDate(rows[t])
    BY DEF QuietRowsAreCurrent, UpToDate, PushedTo
  <2>1. CalmInv
    BY DEF CalmOK
  <2>2. Settled(rows[t])
    BY <2>1, StartsAlone
  <2> QED BY <2>2 DEF Settled, Awaited
<1> QED BY <1>1, InitInv, NextInv, CalmInit, CalmNext, PTL DEF Spec
=============================================================================
