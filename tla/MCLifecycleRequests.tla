------------------------ MODULE MCLifecycleRequests ------------------------
(***************************************************************************)
(* Small instances of LifecycleRequests, one for each question.            *)
(***************************************************************************)
EXTENDS LifecycleRequests

AllKinds ==
  {"createTournament", "deleteTournament", "removeRound", "updateStatus", "updateTournament",
   "renameTournament", "renameChild", "createRound", "updateRound", "nextRound", "previousRound",
   "pass"}

\* What may start, finish, cancel or delete a tournament.
StartKinds == {"updateStatus", "deleteTournament", "pass"}

\* Starts by hand, and what gives rounds another title.
NamedStartKinds == {"updateStatus", "renameTournament"}

\* What creates rounds, what goes on to the next one, and what moves a tournament
\* by hand or by timer.
RoundKinds == {"createTournament", "createRound"}
NextKinds == RoundKinds \cup {"nextRound"}
StatusKinds == {"createTournament", "updateStatus", "pass"}
=============================================================================
