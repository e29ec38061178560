---------------------------- MODULE MCSubmissions ----------------------------
(***************************************************************************)
(* A small instance of Submissions: two tournaments with a team each, the  *)
(* first with a round.  ann is on the first team, captain of the second,   *)
(* and a juror of its tournament; bob is captain of the first team and a   *)
(* juror of the first tournament, and root is an administrator.            *)
(***************************************************************************)
EXTENDS Submissions, TLC

CONSTANTS one, two,              \* slots
          ann, bob, root,        \* users
          spring, autumn,        \* tournaments
          r1, red, blue          \* a round and two teams

MCUsers == {ann, bob, root}
MCTournamentOf == (r1 :> spring) @@ (red :> spring) @@ (blue :> autumn)
MCCaptainOf == (red :> bob) @@ (blue :> ann)
MCMembers == {<<red, ann>>}
MCJury == {<<spring, bob>>, <<autumn, ann>>}
MCPatches == {"repo" :> "b", "video" :> "b"}
\* Edits and evaluations write to different tables.
MCMaxChanges ==
  ({"createForRound", "updateSubmission"} :> 2) @@ ({"createForRound", "createEvaluation"} :> 1)
MCSymmetry == Permutations({one, two})
MCAnswers == {[total_score |-> 1, comment |-> "a"], [total_score |-> 2, comment |-> "b"]}
=============================================================================
