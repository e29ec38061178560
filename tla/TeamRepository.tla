---------------------------- MODULE TeamRepository ----------------------------
(***************************************************************************)
(* The GitHub repository a team shows to the jury: upsertRepository and    *)
(* verifyRepository ask GitHub and store its answer, and GitHub tells the  *)
(* server of every push through POST /webhooks/github.  GitHub is external *)
(* and goes on while a request waits for it; what it sends may be lost,    *)
(* come late or come twice.  The webhook asks for no signature: anybody    *)
(* may post what looks like a payload.                                     *)
(*                                                                         *)
(* A request to GitHub and a database statement are one step each.  A save *)
(* of a row that was read is two: the row is selected once more, and those *)
(* columns are updated in which the row held differs from it.  The links   *)
(* to a demo, a video and the documentation are left out, and so is        *)
(* repo_verified: every handler that stores a row sets it, and nothing     *)
(* resets it.                                                              *)
(***************************************************************************)
EXTENDS Integers, SequencesExt

CONSTANTS
  Slots,         \* bound: the requests the server may be working on at once
  Teams,         \* the teams that are registered at the beginning
  Users,
  CaptainOf,     \* captain_id of each team
  MembersOf,     \* the users with a row in team_members, by team
  Admins,        \* those with admin among their roles
  Repositories,  \* owner/name on GitHub, in lower case
  Spellings,     \* letter case, a slash or .git at the end of an address
  Branches,
  NoBranch,      \* the payload has no ref, as when the webhook is set up (ping)
  EndsWith,      \* the pairs <<b, c>> of branches with refs/heads/b ending in /c
  NoCommit,      \* github_commit_sha, or head_commit of a payload, is NULL
  NoRow,         \* the team has no repository
  Offers,        \* bound: the pairs of an address and a branch that teams hand in
  Posts,         \* bound: what is posted besides pushes: repository, branch and commit
  MaxCommits,    \* bound: how often somebody pushes
  MaxFaults,     \* bound: how often something goes wrong, or somebody posts a payload
  MaxInFlight    \* bound: how many handlers may be at work at once

ASSUME RepositoryAssumption ==
  /\ CaptainOf \in [Teams -> Users] /\ MembersOf \in [Teams -> SUBSET Users]
  /\ EndsWith \subseteq Branches \X Branches /\ \A b \in Branches : <<b, b>> \in EndsWith
  /\ NoBranch \notin Branches /\ Offers \subseteq (Repositories \X Spellings) \X Branches
  /\ MaxCommits \in Nat /\ MaxFaults \in Nat /\ MaxInFlight \in Nat
  /\ NoCommit \notin 1 .. MaxCommits
  /\ Posts \subseteq Repositories \X (Branches \cup {NoBranch}) \X ((1 .. MaxCommits) \cup {NoCommit})
  /\ NoRow \notin [url : Repositories \X Spellings, branch : Branches,
                   sha : (1 .. MaxCommits) \cup {NoCommit}]

VARIABLES
  teams,       \* the table teams
  rows,        \* tournament_repositories: the row of each team
  comments,    \* code_reviews, as pairs of a team and a reviewer
  handlers,    \* what each handler will do next, and what it has read for it
  found,       \* GitHub: the repositories it shows to the server
  heads,       \* GitHub: the last commit of each branch
  commits,     \* GitHub: how many commits there are
  deliveries,  \* GitHub: the payloads that are on their way to the server
  pushed,      \* history: what was pushed to which branch of which repository
  posted,      \* history: the payloads that others than GitHub's pushes have sent
  crossed,     \* history: the teams whose row was changed between the two statements of
               \* its last save, so that it is not what that handler held
  faults,      \* history: how often something went wrong
  calm,        \* history: nothing went wrong, and no two handlers, or a handler and a
               \* deletion, overlapped since all was idle and no payload under way
  trusted      \* history: the teams whose row, if any, was last written so

tables == <<teams, rows, comments>>
github == <<found, heads, commits, deliveries, pushed>>
disturbances == <<faults, calm, trusted>>
vars == <<tables, handlers, github, posted, crossed, disturbances>>
-----------------------------------------------------------------------------
Commit == 1 .. MaxCommits
Sha == Commit \cup {NoCommit}

\* What UpsertTeamRepositoryDto accepts: a repository, spelled in some way.
Urls == Repositories \X Spellings

Row == [url : Urls, branch : Branches, sha : Sha]
CodeReview == Teams \X Users
Payloads == [repository : Repositories, branch : Branches \cup {NoBranch}, sha : Sha]

\* repo.id is given to the first row of a team and never to another one, since a team
\* has one row at most, which goes with it: the rows a handler has to save are known by
\* their teams.
Todo == UNION {[S -> Row] : S \in SUBSET Teams}

Handler ==
  [step : {"idle"}]
  \cup [step : {"fetchRepository", "fetchBranch"}, team : Teams, url : Urls, branch : Branches,
        verifies : BOOLEAN]
  \cup [step : {"findRow", "insertRow"}, team : Teams, row : Row]
  \cup [step : {"selectRow"}, todo : Todo]
  \cup [step : {"updateRow"}, todo : Todo, team : Teams, columns : SUBSET {"url", "branch", "sha"}]
  \cup [step : {"insertComment"}, team : Teams, user : Users]

TypeOK ==
  /\ teams \subseteq Teams
  /\ rows \in [Teams -> Row \cup {NoRow}]
  /\ comments \subseteq CodeReview
  /\ handlers \in [Slots -> Handler]
  /\ found \subseteq Repositories
  /\ heads \in [Repositories -> [Branches -> Sha]]
  /\ commits \in 0 .. MaxCommits
  /\ deliveries \in Seq(Payloads)
  /\ pushed \subseteq Repositories \X Branches \X Commit
  /\ posted \subseteq Payloads /\ crossed \subseteq Teams
  /\ faults \in 0 .. MaxFaults /\ calm \in BOOLEAN /\ trusted \subseteq Teams

Idle == [step |-> "idle"]

Init ==
  /\ teams = Teams
  /\ rows = [t \in Teams |-> NoRow] /\ comments = {}
  /\ handlers = [h \in Slots |-> Idle]
  /\ found = Repositories
  /\ heads = [r \in Repositories |-> [b \in Branches |-> NoCommit]]
  /\ commits = 0 /\ deliveries = <<>> /\ pushed = {}
  /\ posted = {} /\ crossed = {}
  /\ faults = 0 /\ calm = TRUE /\ trusted = Teams
-----------------------------------------------------------------------------
(* How a handler proceeds *)

InFlight == {h \in Slots : handlers[h] # Idle}
Goes(h, state) == handlers' = [handlers EXCEPT ![h] = state]
At(h, step) == handlers[h].step = step /\ UNCHANGED <<teams, comments, posted>>

Disturbs == calm' = FALSE /\ trusted' = {}
Fault == faults < MaxFaults /\ faults' = faults + 1 /\ Disturbs

Begins(h, state) ==
  /\ handlers[h] = Idle /\ Cardinality(InFlight) < MaxInFlight
  /\ Goes(h, state)
  /\ IF InFlight = {} THEN calm' = (calm \/ deliveries = <<>>) /\ UNCHANGED trusted ELSE Disturbs
  /\ UNCHANGED <<tables, posted, crossed, faults>>

\* assertTeamAccess: the captain, an administrator, or somebody with the e-mail of
\* a member; only the first two may write.
MayRead(user, t) == t \in teams /\ (user \in Admins \cup MembersOf[t] \/ CaptainOf[t] = user)
MayWrite(user, t) == t \in teams /\ (user \in Admins \/ CaptainOf[t] = user)

-----------------------------------------------------------------------------
(* Handing in and verifying *)

\* The owner and the name; an address without them is not accepted in the first place.
ParseGithubUrl(url) == url[1]

\* githubRequest throws unless GitHub answers with what it was asked for.
GithubRequest(repository, Answered, Refused) ==
  \/ repository \in found /\ Answered /\ UNCHANGED disturbances
  \/ repository \notin found /\ Refused /\ UNCHANGED disturbances
  \/ Refused /\ Fault

\* Definitions named Faulty... are what a plausible slip in the code would make of
\* the definition that follows; PROJECT.json substitutes them, nothing here uses them.

BeginUpsert(h, user, t, url, branch) ==
  /\ MayWrite(user, t)
  /\ Begins(h, [step |-> "fetchRepository", team |-> t, url |-> url, branch |-> branch,
                verifies |-> FALSE])
  /\ UNCHANGED github

\* verifyRepository reads the row before it asks GitHub, and saves that row.
BeginVerify(h, user, t) ==
  /\ MayWrite(user, t) /\ rows[t] # NoRow
  /\ Begins(h, [step |-> "fetchRepository", team |-> t, url |-> rows[t].url,
                branch |-> rows[t].branch, verifies |-> TRUE])
  /\ UNCHANGED github

\* Without the repository's data nothing is stored.
FetchRepository(h) ==
  /\ At(h, "fetchRepository")
  /\ GithubRequest(ParseGithubUrl(handlers[h].url),
                   Goes(h, [handlers[h] EXCEPT !.step = "fetchBranch"]), Goes(h, Idle))
  /\ UNCHANGED <<rows, crossed, github>>

\* verifyRepository saves the row it has read, upsertRepository looks for one only now.
FetchedAs(h, sha) ==
  LET held == handlers[h]
      row  == [url |-> held.url, branch |-> held.branch, sha |-> sha]
  IN  Goes(h, IF held.verifies THEN [step |-> "selectRow", todo |-> [t \in {held.team} |-> row]]
              ELSE [step |-> "findRow", team |-> held.team, row |-> row])

\* The branch is asked for in the repository the team had before.
FaultyFetchBranch(h) ==
  /\ At(h, "fetchBranch")
  /\ LET held == handlers[h]
         url  == IF rows[held.team] = NoRow THEN held.url ELSE rows[held.team].url
     IN  FetchedAs(h, heads[ParseGithubUrl(url)][held.branch])
  /\ UNCHANGED <<rows, crossed, github, disturbances>>

\* A branch that GitHub does not have, and a request that fails, give no commit.
FetchBranch(h) ==
  /\ At(h, "fetchBranch")
  /\ LET repository == ParseGithubUrl(handlers[h].url) IN
     GithubRequest(repository, FetchedAs(h, heads[repository][handlers[h].branch]),
                   FetchedAs(h, NoCommit))
  /\ UNCHANGED <<rows, crossed, github>>

\* The row that is found is overwritten.
FindRow(h) ==
  /\ At(h, "findRow")
  /\ LET held == handlers[h] IN
     Goes(h, IF rows[held.team] = NoRow THEN [held EXCEPT !.step = "insertRow"]
             ELSE [step |-> "selectRow", todo |-> [t \in {held.team} |-> held.row]])
  /\ UNCHANGED <<rows, crossed, github, disturbances>>
-----------------------------------------------------------------------------
(* Rows *)

\* The row of a team is now this one, written by a handler that held the other; an update
\* that changes nothing crosses nobody.
Writes(t, row, held) ==
  /\ rows' = [rows EXCEPT ![t] = row]
  /\ crossed' = IF row = held THEN crossed \ {t}
                ELSE IF row = rows[t] THEN crossed ELSE crossed \cup {t}
  /\ trusted' = IF calm THEN trusted \cup {t} ELSE trusted
  /\ UNCHANGED <<calm, faults>>

\* Unique index on team_id, foreign key on the team.
InsertRow(h) ==
  /\ At(h, "insertRow")
  /\ LET t   == handlers[h].team
         row == handlers[h].row
     IN  IF t \in teams /\ rows[t] = NoRow THEN Writes(t, row, row)
         ELSE UNCHANGED <<rows, crossed, disturbances>>
  /\ Goes(h, Idle)
  /\ UNCHANGED github

\* The first statement of a save.  A row that is gone would be inserted again, which the
\* foreign key refuses, since its team is gone with it; the handler ends with the error.
SelectRow(h) ==
  /\ At(h, "selectRow")
  /\ \E t \in DOMAIN handlers[h].todo :
       LET row == handlers[h].todo[t] IN
       Goes(h, IF rows[t] = NoRow THEN Idle
               ELSE [step |-> "updateRow", todo |-> handlers[h].todo, team |-> t,
                     columns |-> {c \in {"url", "branch", "sha"} : rows[t][c] # row[c]}])
  /\ UNCHANGED <<rows, crossed, github, disturbances>>

\* A row with some of its columns taken from another.
Overwritten(row, columns, by) ==
  [url    |-> IF "url" \in columns THEN by.url ELSE row.url,
   branch |-> IF "branch" \in columns THEN by.branch ELSE row.branch,
   sha    |-> IF "sha" \in columns THEN by.sha ELSE row.sha]

\* An update finds no row that is gone.
Updates(t, columns, row) ==
  IF rows[t] = NoRow THEN UNCHANGED <<rows, crossed, disturbances>>
  ELSE Writes(t, Overwritten(rows[t], columns, row), row)

\* One row is saved, where several teams may work on one repository.
FaultyUpdateRow(h) ==
  /\ At(h, "updateRow")
  /\ LET held == handlers[h] IN Updates(held.team, held.columns, held.todo[held.team])
  /\ Goes(h, Idle)
  /\ UNCHANGED github

\* The second; then the next row of those that are to be saved.
UpdateRow(h) ==
  /\ At(h, "updateRow")
  /\ LET held == handlers[h]
         rest == DOMAIN held.todo \ {held.team}
     IN  /\ Updates(held.team, held.columns, held.todo[held.team])
         /\ Goes(h, IF rest = {} THEN Idle
                    ELSE [step |-> "selectRow", todo |-> [t \in rest |-> held.todo[t]]])
  /\ UNCHANGED github
-----------------------------------------------------------------------------
(* Comments on the code *)

BeginComment(h, user, t) ==
  /\ MayRead(user, t)
  /\ Begins(h, [step |-> "insertComment", team |-> t, user |-> user])
  /\ UNCHANGED github

InsertComment(h) ==
  /\ handlers[h].step = "insertComment"
  /\ comments' = IF handlers[h].team \in teams
                 THEN comments \cup {<<handlers[h].team, handlers[h].user>>} ELSE comments
  /\ Goes(h, Idle)
  /\ UNCHANGED <<teams, rows, github, posted, crossed, disturbances>>
-----------------------------------------------------------------------------
(* The webhook *)

\* The names are compared in lower case; a branch is recognised by the end of the ref,
\* so that a push to feature/main is taken for one to main.
IsFor(payload, row) ==
  /\ ParseGithubUrl(row.url) = payload.repository
  /\ payload.branch # NoBranch => <<payload.branch, row.branch>> \in EndsWith

\* All rows are read, then those that match are saved in turn.
ApplyGithubWebhook(h, payload) ==
  LET matched == {t \in Teams : rows[t] # NoRow /\ IsFor(payload, rows[t])}
  IN  Begins(h, IF matched = {} THEN Idle
                ELSE [step |-> "selectRow",
                      todo |-> [t \in matched |-> [rows[t] EXCEPT !.sha = payload.sha]]])

Receive(h) ==
  /\ deliveries # <<>> /\ deliveries' = Tail(deliveries)
  /\ ApplyGithubWebhook(h, Head(deliveries))
  /\ UNCHANGED <<found, heads, commits, pushed>>
-----------------------------------------------------------------------------
(* Teams that go, GitHub, and what goes wrong *)

\* tournament_repositories and code_reviews of the team go with it (ON DELETE CASCADE).
DeleteTeam(t) ==
  /\ teams' = teams \ {t}
  /\ rows' = [rows EXCEPT ![t] = NoRow]
  /\ comments' = {c \in comments : c[1] # t}
  /\ IF InFlight = {} THEN UNCHANGED <<calm, trusted>> ELSE Disturbs
  /\ UNCHANGED <<handlers, github, posted, crossed, faults>>

Payload(r, b, sha) == [repository |-> r, branch |-> b, sha |-> sha]
Sends(payload) == deliveries' = Append(deliveries, payload)

Push(r, b) ==
  /\ commits < MaxCommits /\ commits' = commits + 1
  /\ heads' = [heads EXCEPT ![r][b] = commits']
  /\ pushed' = pushed \cup {<<r, b, commits'>>}
  /\ Sends(Payload(r, b, commits'))
  /\ UNCHANGED <<tables, handlers, found, posted, crossed, disturbances>>

\* The payload of a push that deletes a branch has no head_commit.
DeleteBranch(r, b) ==
  /\ heads[r][b] # NoCommit
  /\ heads' = [heads EXCEPT ![r][b] = NoCommit]
  /\ Sends(Payload(r, b, NoCommit))
  /\ UNCHANGED <<tables, handlers, found, commits, pushed, posted, crossed, disturbances>>

\* Anybody may post a payload.  GitHub does when the webhook is set up, with neither ref
\* nor head_commit, which clears the commit of every row of the repository.
Post(r, b, sha) ==
  /\ Fault
  /\ Sends(Payload(r, b, sha)) /\ posted' = posted \cup {Payload(r, b, sha)}
  /\ UNCHANGED <<tables, handlers, found, heads, commits, pushed, crossed>>

\* A repository is removed, or made private.
Hide(r) ==
  /\ r \in found /\ Fault /\ found' = found \ {r}
  /\ UNCHANGED <<tables, handlers, heads, commits, deliveries, pushed, posted, crossed>>

\* A payload is lost, sent twice, or comes after the next one.
Misdeliver ==
  /\ deliveries # <<>> /\ Fault
  /\ \/ deliveries' = Tail(deliveries)
     \/ deliveries' = Append(deliveries, Head(deliveries))
     \/ /\ Len(deliveries) > 1
        /\ deliveries' = <<deliveries[2], deliveries[1]>> \o SubSeq(deliveries, 3, Len(deliveries))
  /\ UNCHANGED <<tables, handlers, found, heads, commits, pushed, posted, crossed>>

Crash ==
  /\ InFlight # {} /\ Fault
  /\ handlers' = [h \in Slots |-> Idle]
  /\ UNCHANGED <<tables, github, posted, crossed>>
-----------------------------------------------------------------------------
Request(h) ==
  \/ \E user \in Users, t \in Teams, o \in Offers : BeginUpsert(h, user, t, o[1], o[2])
  \/ \E user \in Users, t \in Teams : BeginVerify(h, user, t)
  \/ \E user \in Users, t \in Teams : BeginComment(h, user, t)
  \/ Receive(h)

Statement(h) ==
  \/ FetchRepository(h) \/ FetchBranch(h) \/ FindRow(h) \/ InsertRow(h)
  \/ SelectRow(h) \/ UpdateRow(h) \/ InsertComment(h)

Next ==
  \/ \E h \in Slots : Request(h) \/ Statement(h)
  \/ \E t \in teams : DeleteTeam(t)
  \/ \E r \in Repositories, b \in Branches : Push(r, b) \/ DeleteBranch(r, b)
  \/ \E p \in Posts : Post(p[1], p[2], p[3])
  \/ \E r \in Repositories : Hide(r)
  \/ Misdeliver \/ Crash

Spec == Init /\ [][Next]_vars
-----------------------------------------------------------------------------
(* Properties *)

\* The commit beside an address (teams.service.ts:588, 619, 825) was pushed to that
\* repository, to a branch that the end of the ref makes the team's, or somebody has posted it
\* for the row; whatever requests, pushes, faults and deletions overlap, as long as the last
\* save of the row was not crossed by another between its two statements.  The next save that
\* is not crossed sets the row right.
CommitsAreOfTheirBranch ==
  \A t \in Teams \ crossed :
    rows[t] # NoRow /\ rows[t].sha # NoCommit =>
      \/ \E b \in Branches :
           /\ <<b, rows[t].branch>> \in EndsWith
           /\ <<ParseGithubUrl(rows[t].url), b, rows[t].sha>> \in pushed
      \/ \E p \in posted : p.sha = rows[t].sha /\ IsFor(p, rows[t])

\* A row shows the last commit of its branch, or of another that was pushed to and whose ref
\* ends alike (teams.service.ts:823), once no request is at work and no payload under way,
\* however pushes came between the steps of a request.  This holds of all rows until requests
\* overlap or something goes wrong; and again of each row that is handed in, verified or
\* matched by a push after all has been idle.
QuietRowsAreCurrent ==
  InFlight = {} /\ deliveries = <<>> =>
    \A t \in trusted :
      rows[t] # NoRow =>
        \E b \in Branches :
          /\ <<b, rows[t].branch>> \in EndsWith
          /\ b = rows[t].branch \/ \E c \in Commit : <<ParseGithubUrl(rows[t].url), b, c>> \in pushed
          /\ rows[t].sha = heads[ParseGithubUrl(rows[t].url)][b]
=============================================================================
