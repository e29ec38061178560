--------------------------- MODULE MCAccountCodes ---------------------------
(* One account, two requests at a time.  A code outlives the pause and ends *)
(* before the pending token does; an hour is longer than the allowed sends. *)
EXTENDS AccountCodes, TLC

AllKinds == {"register", "login", "provider", "resend", "verify", "profile", "password", "admin"}

Symmetry == Permutations(Slots) \cup Permutations(Codes) \cup Permutations(Passwords) \cup Permutations(Ids)

\* The properties say nothing of what follows an overwritten change.
NothingOverwritten == ~stale
=============================================================================
