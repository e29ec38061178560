---------------------------- MODULE OneTimeCode ----------------------------
(***************************************************************************)
(* What a code sent by e-mail promises, whichever request asks for it and  *)
(* whatever it guards: at most one code is good at a time, for a while and *)
(* for so many wrong guesses; a new one may be asked for only after a      *)
(* pause, and ends the one before; the guarded value changes by the code   *)
(* that is good then, which is good no longer.  AccountCodes implements it *)
(* twice, for the address of an account and for its password.              *)
(***************************************************************************)
EXTENDS Naturals

CONSTANTS
  Codes, NoCode,
  Cooldown,      \* the pause between two codes
  Ttl,           \* how long a code is good
  MaxAttempts,   \* how many wrong guesses it stands
  MayOverride    \* the guarded value may also be set without a code

VARIABLES
  now,       \* the time, which somebody else advances
  code,      \* the code that was issued last, or NoCode once it is used
  until,     \* when it stops being good
  attempts,  \* wrong guesses so far
  sentAt,    \* when a code was issued last, 0 if that is not known
  guarded    \* the value

vars == <<now, code, until, attempts, sentAt, guarded>>
-----------------------------------------------------------------------------
Init == code = NoCode /\ until = 0 /\ attempts = 0 /\ sentAt = 0

Issue ==
  /\ sentAt = 0 \/ now - sentAt >= Cooldown
  /\ code' \in Codes /\ until' = now + Ttl /\ attempts' = 0 /\ sentAt' = now
  /\ UNCHANGED <<now, guarded>>

Good == code # NoCode /\ now <= until /\ attempts < MaxAttempts

WrongGuess ==
  /\ Good
  /\ attempts' = attempts + 1
  /\ UNCHANGED <<now, code, until, sentAt, guarded>>

\* The store may forget when it sent the code that has been used.
Accept ==
  /\ Good
  /\ code' = NoCode /\ until' = 0 /\ attempts' = 0 /\ sentAt' \in {sentAt, 0}
  /\ UNCHANGED now

Override ==
  /\ MayOverride
  /\ UNCHANGED <<now, code, until, attempts, sentAt>>

Tick ==
  /\ now' > now
  /\ UNCHANGED <<code, until, attempts, sentAt, guarded>>

Next == Issue \/ WrongGuess \/ Accept \/ Override \/ Tick

Spec == Init /\ [][Next]_vars
=============================================================================
