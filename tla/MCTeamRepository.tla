--------------------------- MODULE MCTeamRepository ---------------------------
(***************************************************************************)
(* Two teams of one captain, who may work on the same repository or on     *)
(* another; a push to feature/main looks like one to main.                 *)
(***************************************************************************)
EXTENDS TeamRepository

CONSTANTS red, blue, ann, one, two

MCCaptainOf == [t \in Teams |-> ann]
MCMembersOf == [t \in Teams |-> {}]
MCEndsWith == {<<b, b>> : b \in Branches} \cup {<<"feature/main", "main">>}
MCOffers == {<<<<"app", "App.git">>, "main">>, <<<<"other", "other">>, "main">>}
MCPosts == {<<"app", NoBranch, NoCommit>>, <<"other", "main", 1>>}

\* Comments have nothing to do with rows: they need not be combined.  Something goes wrong
\* where nothing overlaps and no team goes, and the second commit is for what is promised
\* while nothing has gone wrong, or again since all was idle.
Apart ==
  /\ comments # {} \/ (\E h \in Slots : handlers[h].step = "insertComment") =>
       commits = 0 /\ faults = 0 /\ \A t \in Teams : rows[t] = NoRow
  /\ faults > 0 => Cardinality(InFlight) < 2 /\ teams = Teams
  /\ commits > 1 => calm /\ faults = 0

\* Shows why crossed saves are left out of CommitsAreOfTheirBranch: the webhook selects the
\* row of one repository, the captain hands in another, and the webhook then updates the
\* commit alone (teams.service.ts:829).
EveryCommitIsOfItsBranch ==
  \A t \in Teams :
    rows[t] # NoRow /\ rows[t].sha # NoCommit /\ posted = {} =>
      \E b \in Branches :
        /\ <<b, rows[t].branch>> \in EndsWith
        /\ <<ParseGithubUrl(rows[t].url), b, rows[t].sha>> \in pushed

Symmetry == Permutations(Slots) \cup Permutations(Teams)
===============================================================================
