----------------------------- MODULE MCUserRoles -----------------------------
(* One user, who applies and is on the lists of two tournaments.           *)
EXTENDS UserRoles, TLC

AllKinds == {"admin", "profile", "delete", "apply", "jury"}
Assigned == {{"user"}, {"user", "jury"}}
NoAssigned == {}

Symmetry == Permutations(Slots) \cup Permutations(Users)

\* The properties say nothing of a user whose row was overwritten.
AllSettled == unsettled = {}
=============================================================================
