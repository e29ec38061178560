----------------------- MODULE MCTournamentLifecycle -----------------------
(***************************************************************************)
(* A small instance of TournamentLifecycle: a tournament to which requests *)
(* may give several rounds, and one that has no round but the default one  *)
(* and may be the first one's child.                                       *)
(***************************************************************************)
EXTENDS TournamentLifecycle

CONSTANTS main, side   \* the tournaments' ids

MCTournamentId == {main, side}
MCParents == {main}
MCMaxRounds == [t \in MCTournamentId |-> IF t = main THEN 2 ELSE 0]
=============================================================================
