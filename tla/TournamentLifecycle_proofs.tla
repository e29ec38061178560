--------------------- MODULE TournamentLifecycle_proofs ---------------------
(***************************************************************************)
(* Proofs about TournamentLifecycle, for every set of tournaments, every   *)
(* bound on the rounds and on the clock.                                   *)
(***************************************************************************)
EXTENDS TournamentLifecycle, SequenceTheorems, TLAPS

(* Inserting into, and removing from, a list of rounds: type, length and     *)
(* elements.                                                                 *)
LEMMA InsertAtElements ==
  ASSUME NEW S, NEW rs \in Seq(S), NEW e \in S, NEW k \in 1 .. Len(rs) + 1
  PROVE  /\ InsertAt(rs, k, e) \in Seq(S)
         /\ Len(InsertAt(rs, k, e)) = Len(rs) + 1
         /\ \A i \in 1 .. Len(rs) + 1 :
              InsertAt(rs, k, e)[i] =
                IF i < k THEN rs[i] ELSE IF i = k THEN e ELSE rs[i - 1]
<1> DEFINE a == SubSeq(rs, 1, k - 1)
           b == SubSeq(rs, k, Len(rs))
<1>0. Len(rs) \in Nat /\ k \in Nat
  OBVIOUS
<1>1. /\ a \in Seq(S) /\ Len(a) = k - 1
      /\ \A i \in 1 .. k - 1 : a[i] = rs[i]
  OBVIOUS
<1>2. /\ b \in Seq(S) /\ Len(b) = Len(rs) - k + 1
      /\ \A i \in 1 .. Len(rs) - k + 1 : b[i] = rs[k + i - 1]
  OBVIOUS
<1>3. <<e>> \in Seq(S) /\ Len(<<e>>) = 1 /\ <<e>>[1] = e
  OBVIOUS
<1> HIDE DEF a, b
<1>4. InsertAt(rs, k, e) = (a \o <<e>>) \o b
  BY DEF InsertAt, a, b
<1>5. /\ a \o <<e>> \in Seq(S) /\ Len(a \o <<e>>) = k
      /\ \A i \in 1 .. k : (a \o <<e>>)[i] = IF i < k THEN rs[i] ELSE e
  BY <1>1, <1>3
<1> DEFINE c == a \o <<e>>
           d == c \o b
<1>6. /\ c \in Seq(S) /\ Len(c) = k
      /\ \A i \in 1 .. k : c[i] = IF i < k THEN rs[i] ELSE e
  BY <1>5
<1> HIDE DEF c
<1>7. /\ d \in Seq(S) /\ Len(d) = Len(c) + Len(b)
      /\ \A i \in 1 .. Len(c) + Len(b) :
           d[i] = IF i <= Len(c) THEN c[i] ELSE b[i - Len(c)]
  BY <1>2, <1>6, ConcatProperties
<1>8. d = InsertAt(rs, k, e)
  BY <1>4 DEF c
<1> HIDE DEF d
<1>9. Len(c) + Len(b) = Len(rs) + 1
  BY <1>0, <1>2, <1>6
<1>10. ASSUME NEW i \in 1 .. Len(rs) + 1
       PROVE  d[i] = IF i < k THEN rs[i] ELSE IF i = k THEN e ELSE rs[i - 1]
  <2>1. CASE i <= k
    BY <2>1, <1>0, <1>6, <1>7, <1>9
  <2>2. CASE i > k
    <3>1. i - k \in 1 .. Len(rs) - k + 1 /\ k + (i - k) - 1 = i - 1
      BY <2>2, <1>0
    <3>2. d[i] = b[i - k]
      BY <2>2, <1>0, <1>6, <1>7, <1>9
    <3> QED
      BY <3>1, <3>2, <2>2, <1>0, <1>2
  <2> QED
    BY <2>1, <2>2, <1>0
<1> QED
  BY <1>7, <1>8, <1>9, <1>10

LEMMA RemoveAtElements ==
  ASSUME NEW S, NEW rs \in Seq(S), NEW k \in 1 .. Len(rs)
  PROVE  /\ RemoveAt(rs, k) \in Seq(S)
         /\ Len(RemoveAt(rs, k)) = Len(rs) - 1
         /\ \A i \in 1 .. Len(rs) - 1 :
              RemoveAt(rs, k)[i] = IF i < k THEN rs[i] ELSE rs[i + 1]
<1> DEFINE a == SubSeq(rs, 1, k - 1)
           b == SubSeq(rs, k + 1, Len(rs))
<1>1. /\ a \in Seq(S) /\ Len(a) = k - 1
      /\ \A i \in 1 .. k - 1 : a[i] = rs[i]
  OBVIOUS
<1>2. /\ b \in Seq(S) /\ Len(b) = Len(rs) - k
      /\ \A i \in 1 .. Len(rs) - k : b[i] = rs[k + i]
  OBVIOUS
<1> HIDE DEF a, b
<1>3. RemoveAt(rs, k) = a \o b
  BY DEF RemoveAt, a, b
<1> DEFINE d == a \o b
<1>4. /\ d \in Seq(S) /\ Len(d) = Len(a) + Len(b)
      /\ \A i \in 1 .. Len(a) + Len(b) :
           d[i] = IF i <= Len(a) THEN a[i] ELSE b[i - Len(a)]
  BY <1>1, <1>2, ConcatProperties
<1>5. d = RemoveAt(rs, k)
  BY <1>3
<1> HIDE DEF d
<1>6. Len(rs) \in Nat /\ k \in Nat /\ Len(a) + Len(b) = Len(rs) - 1
  BY <1>1, <1>2
<1>7. ASSUME NEW i \in 1 .. Len(rs) - 1
      PROVE  d[i] = IF i < k THEN rs[i] ELSE rs[i + 1]
  <2>1. CASE i < k
    BY <2>1, <1>1, <1>4, <1>6
  <2>2. CASE i >= k
    <3>1. i - (k - 1) \in 1 .. Len(rs) - k /\ k + (i - (k - 1)) = i + 1
      BY <2>2, <1>6
    <3>2. Len(a) = k - 1 /\ i \in 1 .. Len(a) + Len(b) /\ ~(i <= Len(a))
      BY <2>2, <1>1, <1>6
    <3>3. d[i] = b[i - Len(a)]
      BY <3>2, <1>4
    <3>4. b[i - (k - 1)] = rs[k + (i - (k - 1))]
      BY <3>1, <1>2
    <3> QED
      BY <3>1, <3>2, <3>3, <3>4, <2>2, <1>6
  <2> QED
    BY <2>1, <2>2, <1>6
<1> QED
  BY <1>4, <1>5, <1>6, <1>7
-----------------------------------------------------------------------------
(* What the handlers do to one list of rounds.                               *)
RoundsOK(rs) == rs \in Seq(RoundStatus) /\ AtMostOneActive(rs)

LEMMA StatusesAreRoundStatuses ==
  {"draft", "active", "submission_closed", "evaluated"} \subseteq RoundStatus
BY DEF RoundStatus

(* The active round of a well-formed list is the one FirstActive chooses.    *)
LEMMA FirstActiveIsTheActive ==
  ASSUME NEW rs, RoundsOK(rs), ~NoneActive(rs)
  PROVE  /\ FirstActive(rs) \in 1 .. Len(rs)
         /\ rs[FirstActive(rs)] = "active"
         /\ \A j \in 1 .. Len(rs) : rs[j] = "active" => j = FirstActive(rs)
<1>1. rs \in Seq(RoundStatus) /\ DOMAIN rs = 1 .. Len(rs) /\ Len(rs) \in Nat
  BY LenProperties DEF RoundsOK
<1>2. PICK i \in DOMAIN rs : rs[i] = "active"
  BY DEF NoneActive
<1>3. \A j \in DOMAIN rs : rs[j] = "active" => j = i
  BY <1>2 DEF RoundsOK, AtMostOneActive
<1>4. \A j \in 1 .. i - 1 : rs[j] # "active"
  BY <1>1, <1>2, <1>3
<1>5. /\ FirstActive(rs) \in DOMAIN rs
      /\ rs[FirstActive(rs)] = "active"
  BY <1>2, <1>4 DEF FirstActive
<1> QED
  BY <1>1, <1>3, <1>5

(* Opening or closing one round, when no other round is open.                *)
LEMMA ReplaceKeepsOne ==
  ASSUME NEW rs \in Seq(RoundStatus), NEW i \in 1 .. Len(rs), NEW s \in RoundStatus,
         s # "active" \/ \A j \in 1 .. Len(rs) : rs[j] = "active" => j = i,
         AtMostOneActive(rs)
  PROVE  /\ RoundsOK(ReplaceAt(rs, i, s))
         /\ Len(ReplaceAt(rs, i, s)) = Len(rs)
         /\ \A j \in 1 .. Len(rs) : ReplaceAt(rs, i, s)[j] = IF j = i THEN s ELSE rs[j]
<1>1. /\ ReplaceAt(rs, i, s) \in Seq(RoundStatus)
      /\ Len(ReplaceAt(rs, i, s)) = Len(rs)
      /\ \A j \in 1 .. Len(rs) : ReplaceAt(rs, i, s)[j] = IF j = i THEN s ELSE rs[j]
  BY ExceptSeq DEF ReplaceAt
<1>2. DOMAIN rs = 1 .. Len(rs) /\ DOMAIN ReplaceAt(rs, i, s) = 1 .. Len(rs)
  BY <1>1, LenProperties
<1>3. AtMostOneActive(ReplaceAt(rs, i, s))
  BY <1>1, <1>2 DEF AtMostOneActive
<1> QED
  BY <1>1, <1>3 DEF RoundsOK

LEMMA ActivateFirstRoundKeepsOne ==
  ASSUME NEW rs, RoundsOK(rs)
  PROVE  /\ RoundsOK(ActivateFirstRound(rs))
         /\ ActivateFirstRound(rs) # <<>>
         /\ \/ ~NoneActive(ActivateFirstRound(rs))
            \/ ActivateFirstRound(rs)[1] \in {"submission_closed", "evaluated"}
<1>1. rs \in Seq(RoundStatus) /\ AtMostOneActive(rs) /\ DOMAIN rs = 1 .. Len(rs)
  BY LenProperties DEF RoundsOK
<1>2. CASE rs = <<>>
  <2>1. ActivateFirstRound(rs) = <<"active">>
    BY <1>2 DEF ActivateFirstRound
  <2>2. /\ <<"active">> \in Seq(RoundStatus) /\ DOMAIN <<"active">> = {1}
        /\ <<"active">>[1] = "active" /\ <<"active">> # <<>>
    BY StatusesAreRoundStatuses
  <2> QED
    BY <2>1, <2>2 DEF RoundsOK, AtMostOneActive, NoneActive
<1>3. CASE rs # <<>> /\ ~NoneActive(rs)
  <2>1. ActivateFirstRound(rs) = rs
    BY <1>3 DEF ActivateFirstRound
  <2> QED
    BY <2>1, <1>3
<1>4. CASE rs # <<>> /\ NoneActive(rs)
  <2>1. 1 \in 1 .. Len(rs) /\ rs[1] \in RoundStatus
    BY <1>1, <1>4, EmptySeq, ElementOfSeq
  <2>2. CASE rs[1] = "draft"
    <3>1. ActivateFirstRound(rs) = ReplaceAt(rs, 1, "active")
      BY <1>4, <2>2 DEF ActivateFirstRound
    <3>2. \A j \in 1 .. Len(rs) : rs[j] = "active" => j = 1
      BY <1>1, <1>4 DEF NoneActive
    <3>3. /\ RoundsOK(ReplaceAt(rs, 1, "active"))
          /\ Len(ReplaceAt(rs, 1, "active")) = Len(rs)
          /\ ReplaceAt(rs, 1, "active")[1] = "active"
      BY <1>1, <2>1, <3>2, ReplaceKeepsOne, StatusesAreRoundStatuses
    <3>4. 1 \in DOMAIN ReplaceAt(rs, 1, "active")
      BY <2>1, <3>3, LenProperties DEF RoundsOK
    <3> QED
      BY <3>1, <3>3, <3>4 DEF NoneActive
  <2>3. CASE rs[1] # "draft"
    <3>1. ActivateFirstRound(rs) = rs
      BY <1>4, <2>3 DEF ActivateFirstRound
    <3>2. rs[1] \in {"submission_closed", "evaluated"}
      BY <1>1, <1>4, <2>1, <2>3 DEF RoundStatus, NoneActive
    <3> QED
      BY <3>1, <3>2, <1>4
  <2> QED
    BY <2>2, <2>3
<1> QED
  BY <1>2, <1>3, <1>4

LEMMA NextRoundKeepsOne ==
  ASSUME NEW rs, RoundsOK(rs), rs # <<>>
  PROVE  RoundsOK(NextRound(rs))
<1>1. /\ rs \in Seq(RoundStatus) /\ AtMostOneActive(rs) /\ DOMAIN rs = 1 .. Len(rs)
      /\ Len(rs) \in Nat \ {0}
  BY LenProperties, EmptySeq DEF RoundsOK
<1>2. CASE NoneActive(rs)
  <2>1. NextRound(rs) = ReplaceAt(rs, 1, "active")
    BY <1>2 DEF NextRound
  <2>2. \A j \in 1 .. Len(rs) : rs[j] = "active" => j = 1
    BY <1>1, <1>2 DEF NoneActive
  <2> QED
    BY <1>1, <2>1, <2>2, ReplaceKeepsOne, StatusesAreRoundStatuses
<1>3. CASE ~NoneActive(rs)
  <2> DEFINE a == FirstActive(rs)
             closed == ReplaceAt(rs, a, "submission_closed")
  <2>1. /\ a \in 1 .. Len(rs)
        /\ \A j \in 1 .. Len(rs) : rs[j] = "active" => j = a
    BY <1>3, FirstActiveIsTheActive
  <2>2. NextRound(rs) = IF a < Len(rs) THEN ReplaceAt(closed, a + 1, "active") ELSE closed
    BY <1>3 DEF NextRound
  <2> HIDE DEF a
  <2>3. /\ RoundsOK(closed) /\ Len(closed) = Len(rs)
        /\ \A j \in 1 .. Len(rs) :
             closed[j] = IF j = a THEN "submission_closed" ELSE rs[j]
    BY <1>1, <2>1, ReplaceKeepsOne, StatusesAreRoundStatuses
  <2> HIDE DEF closed
  <2>4. \A j \in 1 .. Len(closed) : closed[j] # "active"
    BY <2>1, <2>3
  <2>5. ASSUME a < Len(rs)
        PROVE  RoundsOK(ReplaceAt(closed, a + 1, "active"))
    <3>1. a + 1 \in 1 .. Len(closed)
      BY <1>1, <2>1, <2>3, <2>5
    <3>2. closed \in Seq(RoundStatus) /\ AtMostOneActive(closed)
      BY <2>3 DEF RoundsOK
    <3> QED
      BY <2>4, <3>1, <3>2, ReplaceKeepsOne, StatusesAreRoundStatuses
  <2> QED
    BY <2>2, <2>3, <2>5
<1> QED
  BY <1>2, <1>3

LEMMA PreviousRoundKeepsOne ==
  ASSUME NEW rs, RoundsOK(rs), rs # <<>>
  PROVE  RoundsOK(PreviousRound(rs))
<1>1. /\ rs \in Seq(RoundStatus) /\ AtMostOneActive(rs) /\ DOMAIN rs = 1 .. Len(rs)
      /\ Len(rs) \in Nat \ {0}
  BY LenProperties, EmptySeq DEF RoundsOK
<1>2. CASE NoneActive(rs)
  <2>1. PreviousRound(rs) = ReplaceAt(rs, 1, "active")
    BY <1>2 DEF PreviousRound
  <2>2. \A j \in 1 .. Len(rs) : rs[j] = "active" => j = 1
    BY <1>1, <1>2 DEF NoneActive
  <2> QED
    BY <1>1, <2>1, <2>2, ReplaceKeepsOne, StatusesAreRoundStatuses
<1>3. CASE ~NoneActive(rs)
  <2> DEFINE a == FirstActive(rs)
             p == IF a = 1 THEN 1 ELSE a - 1
             reset == ReplaceAt(rs, a, "draft")
  <2>1. /\ a \in 1 .. Len(rs)
        /\ \A j \in 1 .. Len(rs) : rs[j] = "active" => j = a
    BY <1>3, FirstActiveIsTheActive
  <2>2. PreviousRound(rs) = ReplaceAt(reset, p, "active")
    BY <1>3 DEF PreviousRound
  <2> HIDE DEF a
  <2>3. /\ RoundsOK(reset) /\ Len(reset) = Len(rs)
        /\ \A j \in 1 .. Len(rs) : reset[j] = IF j = a THEN "draft" ELSE rs[j]
    BY <1>1, <2>1, ReplaceKeepsOne, StatusesAreRoundStatuses
  <2> HIDE DEF reset
  <2>4. \A j \in 1 .. Len(reset) : reset[j] # "active"
    BY <2>1, <2>3
  <2>5. p \in 1 .. Len(reset)
    BY <1>1, <2>1, <2>3
  <2>6. reset \in Seq(RoundStatus) /\ AtMostOneActive(reset)
    BY <2>3 DEF RoundsOK
  <2> QED
    BY <2>2, <2>4, <2>5, <2>6, ReplaceKeepsOne, StatusesAreRoundStatuses
<1> QED
  BY <1>2, <1>3

LEMMA InsertKeepsOne ==
  ASSUME NEW rs, RoundsOK(rs), NEW k \in 1 .. Len(rs) + 1, NEW s \in RoundStatus,
         s = "active" => NoneActive(rs)
  PROVE  RoundsOK(InsertAt(rs, k, s))
<1> DEFINE new == InsertAt(rs, k, s)
<1>1. /\ rs \in Seq(RoundStatus) /\ AtMostOneActive(rs) /\ DOMAIN rs = 1 .. Len(rs)
      /\ Len(rs) \in Nat
  BY LenProperties DEF RoundsOK
<1>2. /\ new \in Seq(RoundStatus) /\ Len(new) = Len(rs) + 1
      /\ \A i \in 1 .. Len(rs) + 1 :
           new[i] = IF i < k THEN rs[i] ELSE IF i = k THEN s ELSE rs[i - 1]
  BY <1>1, InsertAtElements
<1>3. DOMAIN new = 1 .. Len(rs) + 1
  BY <1>2, LenProperties
<1> HIDE DEF new
<1>4. ASSUME NEW i \in DOMAIN new, NEW j \in DOMAIN new,
             new[i] = "active", new[j] = "active"
      PROVE  i = j
  <2>1. CASE s = "active"
    <3>1. \A q \in 1 .. Len(rs) : rs[q] # "active"
      BY <2>1, <1>1 DEF NoneActive
    <3>2. \A q \in DOMAIN new : new[q] = "active" => q = k
      BY <3>1, <1>1, <1>2, <1>3
    <3> QED
      BY <3>2, <1>4
  <2>2. CASE s # "active"
    <3> DEFINE old(q) == IF q < k THEN q ELSE q - 1
    <3>1. \A q \in DOMAIN new : new[q] = "active" =>
            /\ q # k /\ old(q) \in 1 .. Len(rs) /\ rs[old(q)] = "active"
      BY <2>2, <1>1, <1>2, <1>3
    <3>2. old(i) = old(j)
      BY <3>1, <1>1, <1>4 DEF AtMostOneActive
    <3> QED
      BY <3>1, <3>2, <1>1, <1>3, <1>4
  <2> QED
    BY <2>1, <2>2
<1> QED
  BY <1>2, <1>4 DEF RoundsOK, AtMostOneActive, new

LEMMA RemoveKeepsOne ==
  ASSUME NEW rs, RoundsOK(rs), NEW k \in 1 .. Len(rs)
  PROVE  /\ RoundsOK(RemoveAt(rs, k))
         /\ Len(RemoveAt(rs, k)) = Len(rs) - 1
         /\ rs[k] = "active" => NoneActive(RemoveAt(rs, k))
<1> DEFINE new == RemoveAt(rs, k)
           old(q) == IF q < k THEN q ELSE q + 1
<1>1. /\ rs \in Seq(RoundStatus) /\ AtMostOneActive(rs) /\ DOMAIN rs = 1 .. Len(rs)
      /\ Len(rs) \in Nat
  BY LenProperties DEF RoundsOK
<1>2. /\ new \in Seq(RoundStatus) /\ Len(new) = Len(rs) - 1
      /\ \A i \in 1 .. Len(rs) - 1 : new[i] = IF i < k THEN rs[i] ELSE rs[i + 1]
  BY <1>1, RemoveAtElements
<1>3. DOMAIN new = 1 .. Len(rs) - 1
  BY <1>2, LenProperties
<1> HIDE DEF new
<1>4. \A q \in DOMAIN new :
        /\ old(q) \in 1 .. Len(rs) /\ old(q) # k
        /\ new[q] = rs[old(q)]
  BY <1>1, <1>2, <1>3
<1>5. AtMostOneActive(new)
  <2>1. ASSUME NEW i \in DOMAIN new, NEW j \in DOMAIN new,
               new[i] = "active", new[j] = "active"
        PROVE  i = j
    <3>1. old(i) = old(j)
      BY <2>1, <1>1, <1>4 DEF AtMostOneActive
    <3> QED
      BY <3>1, <1>1, <1>3
  <2> QED
    BY <2>1 DEF AtMostOneActive
<1>6. rs[k] = "active" => NoneActive(new)
  BY <1>1, <1>4 DEF AtMostOneActive, NoneActive
<1> QED
  BY <1>2, <1>5, <1>6 DEF RoundsOK, new

(* An edited round leaves its place in the listing and takes another.        *)
LEMMA MoveKeepsOne ==
  ASSUME NEW rs, RoundsOK(rs), NEW i \in DOMAIN rs, NEW k \in DOMAIN rs,
         NEW s \in RoundStatus,
         (s = "active" /\ rs[i] # "active") => NoneActive(RemoveAt(rs, i))
  PROVE  RoundsOK(InsertAt(RemoveAt(rs, i), k, s))
<1>1. DOMAIN rs = 1 .. Len(rs) /\ Len(rs) \in Nat
  BY LenProperties DEF RoundsOK
<1>2. /\ RoundsOK(RemoveAt(rs, i)) /\ Len(RemoveAt(rs, i)) = Len(rs) - 1
      /\ rs[i] = "active" => NoneActive(RemoveAt(rs, i))
  BY <1>1, RemoveKeepsOne
<1>3. k \in 1 .. Len(RemoveAt(rs, i)) + 1
  BY <1>1, <1>2
<1> QED
  BY <1>2, <1>3, InsertKeepsOne
-----------------------------------------------------------------------------
(* The inductive invariant.  AtMostOneActiveRound alone is not inductive:    *)
(* advancing is only known to close the open round when it is the one the    *)
(* search by FirstActive finds, which needs the type of the list; and a      *)
(* child's edit may move a round of its parent, which exists only because    *)
(* a tournament that was deleted has no rounds left.                         *)
IInv == TypeOK /\ AtMostOneActiveRound /\ StoredRowsAreConsistent

LEMMA ListsAreOK ==
  ASSUME TypeOK, AtMostOneActiveRound, NEW t \in TournamentId
  PROVE  /\ RoundsOK(rounds[t])
         /\ DOMAIN rounds[t] = 1 .. Len(rounds[t]) /\ Len(rounds[t]) \in Nat
BY LenProperties DEF TypeOK, AtMostOneActiveRound, RoundsOK

(* A step that gives one existing tournament another well-formed list.       *)
LEMMA OneListChanges ==
  ASSUME IInv, NEW t \in TournamentId, NEW rs, RoundsOK(rs),
         rounds' = [rounds EXCEPT ![t] = rs]
  PROVE  /\ rounds' \in [TournamentId -> Seq(RoundStatus)]
         /\ AtMostOneActiveRound'
         /\ \A u \in TournamentId : rounds'[u] = IF u = t THEN rs ELSE rounds[u]
BY DEF IInv, TypeOK, AtMostOneActiveRound, RoundsOK

LEMMA InitEstablishesIInv == Init => IInv
<1> SUFFICES ASSUME Init PROVE IInv
  OBVIOUS
<1>1. TypeOK
  BY LifecycleAssumption, EmptySeq
  DEF Init, TypeOK, Time, TournamentRow, Absent, NotARow
<1>2. AtMostOneActiveRound /\ StoredRowsAreConsistent
  BY DEF Init, AtMostOneActiveRound, AtMostOneActive, StoredRowsAreConsistent,
         Exists, Absent, TournamentStatus
<1> QED
  BY <1>1, <1>2 DEF IInv

LEMMA CreateTournamentKeepsIInv ==
  ASSUME IInv, NEW t \in TournamentId, NEW s \in TournamentStatus,
         NEW regEnd \in Time, NEW end \in Time,
         NEW p \in (Parents \ {t}) \cup {NoParent},
         CreateTournament(t, s, regEnd, end, p)
  PROVE  IInv'
<1> USE DEF CreateTournament, IInv
<1>1. /\ now' = now
      /\ tournaments' \in [TournamentId -> TournamentRow]
      /\ \A u \in TournamentId : u # t => tournaments'[u] = tournaments[u]
      /\ Exists(t)' /\ tournaments'[t].registration_end < tournaments'[t].end_date
      /\ ~Exists(t)
  BY LifecycleAssumption
  DEF TypeOK, TournamentRow, Exists, NotARow, TournamentStatus, ValidSchedule
<1>2. CASE UNCHANGED rounds
  BY <1>1, <1>2 DEF TypeOK, AtMostOneActiveRound, StoredRowsAreConsistent, Exists
<1>3. CASE /\ p # NoParent /\ Exists(p) /\ Len(rounds[p]) < MaxRounds[p]
           /\ \E k \in Places(rounds[p]) :
                rounds' = [rounds EXCEPT ![p] = InsertAt(@, k, "draft")]
  <2>1. PICK k \in Places(rounds[p]) :
          rounds' = [rounds EXCEPT ![p] = InsertAt(rounds[p], k, "draft")]
    BY <1>3
  <2>2. p \in TournamentId /\ p # t
    BY <1>1, <1>3, LifecycleAssumption
  <2>3. RoundsOK(InsertAt(rounds[p], k, "draft"))
    BY <2>1, <2>2, ListsAreOK, InsertKeepsOne, StatusesAreRoundStatuses DEF Places
  <2>4. /\ rounds' \in [TournamentId -> Seq(RoundStatus)] /\ AtMostOneActiveRound'
        /\ \A u \in TournamentId : u # p => rounds'[u] = rounds[u]
    BY <2>1, <2>2, <2>3, OneListChanges
  <2>5. StoredRowsAreConsistent'
    BY <1>1, <1>3, <2>2, <2>4 DEF StoredRowsAreConsistent, Exists
  <2> QED
    BY <1>1, <2>4, <2>5 DEF TypeOK
<1> QED
  BY <1>2, <1>3

LEMMA UpdateTournamentKeepsIInv ==
  ASSUME IInv, NEW t \in TournamentId, NEW regEnd \in Time, NEW end \in Time,
         UpdateTournament(t, regEnd, end)
  PROVE  IInv'
<1> USE DEF IInv
<1>1. /\ now' = now
      /\ tournaments' \in [TournamentId -> TournamentRow]
      /\ \A u \in TournamentId : /\ u # t => tournaments'[u] = tournaments[u]
                                 /\ Exists(u)' <=> Exists(u)
      /\ Exists(t) /\ tournaments'[t].registration_end < tournaments'[t].end_date
  <2> DEFINE row == [tournaments[t] EXCEPT !.registration_end = regEnd, !.end_date = end]
  <2>1. /\ tournaments[t] \in TournamentRow
        /\ row \in TournamentRow /\ row.status = tournaments[t].status
        /\ row.registration_end = regEnd /\ row.end_date = end
    BY DEF TypeOK, TournamentRow
  <2>2. tournaments' = [tournaments EXCEPT ![t] = row]
    BY <2>1 DEF TypeOK, UpdateTournament, SyncRounds
  <2>3. now' = now /\ Exists(t) /\ regEnd < end
    BY DEF UpdateTournament, SyncRounds, ValidSchedule
  <2> HIDE DEF row
  <2>4. /\ tournaments' \in [TournamentId -> TournamentRow]
        /\ \A u \in TournamentId : tournaments'[u] = IF u = t THEN row ELSE tournaments[u]
    BY <2>1, <2>2 DEF TypeOK
  <2> QED
    BY <2>1, <2>3, <2>4 DEF Exists
<1>2. CASE UNCHANGED rounds
  BY <1>1, <1>2 DEF TypeOK, AtMostOneActiveRound, StoredRowsAreConsistent, Exists
<1>3. CASE LET p == tournaments[t].parent IN
             /\ p # NoParent
             /\ \E i, k \in DOMAIN rounds[p] :
                  rounds' = [rounds EXCEPT ![p] = InsertAt(RemoveAt(@, i), k, @[i])]
  <2> DEFINE p == tournaments[t].parent
  <2>1. p \in TournamentId
    BY <1>3 DEF TypeOK, TournamentRow
  <2>2. PICK i \in DOMAIN rounds[p], k \in DOMAIN rounds[p] :
          rounds' = [rounds EXCEPT ![p] =
                       InsertAt(RemoveAt(rounds[p], i), k, rounds[p][i])]
    BY <1>3
  <2>3. Exists(p) /\ rounds[p][i] \in RoundStatus
    BY <2>1, <2>2 DEF StoredRowsAreConsistent, TypeOK
  <2>4. RoundsOK(InsertAt(RemoveAt(rounds[p], i), k, rounds[p][i]))
    BY <2>1, <2>2, <2>3, ListsAreOK, MoveKeepsOne
  <2>5. /\ rounds' \in [TournamentId -> Seq(RoundStatus)] /\ AtMostOneActiveRound'
        /\ \A u \in TournamentId : u # p => rounds'[u] = rounds[u]
    BY <2>1, <2>2, <2>4, OneListChanges
  <2>6. StoredRowsAreConsistent'
    BY <1>1, <2>1, <2>3, <2>5 DEF StoredRowsAreConsistent, Exists
  <2> QED
    BY <1>1, <2>5, <2>6 DEF TypeOK
<1> QED
  BY <1>2, <1>3 DEF UpdateTournament, SyncRounds

LEMMA UpdateStatusKeepsIInv ==
  ASSUME IInv, NEW t \in TournamentId, NEW s \in TournamentStatus, UpdateStatus(t, s)
  PROVE  IInv'
<1> USE DEF UpdateStatus, IInv
<1>1. /\ now' = now /\ Exists(t)
      /\ tournaments' = [tournaments EXCEPT ![t].status = s]
  BY DEF SetStatus
<1>2. tournaments' \in [TournamentId -> TournamentRow]
  BY <1>1 DEF TypeOK, TournamentRow
<1>3. \A u \in TournamentId :
        /\ tournaments'[u].registration_end = tournaments[u].registration_end
        /\ tournaments'[u].end_date = tournaments[u].end_date
        /\ Exists(u)' <=> Exists(u)
  BY <1>1 DEF TypeOK, TournamentRow, Exists
<1>4. CASE s = "running"
  <2>1. RoundsOK(ActivateFirstRound(rounds[t]))
    BY ListsAreOK, ActivateFirstRoundKeepsOne
  <2>2. rounds' = [rounds EXCEPT ![t] = ActivateFirstRound(rounds[t])]
    BY <1>4
  <2>3. /\ rounds' \in [TournamentId -> Seq(RoundStatus)] /\ AtMostOneActiveRound'
        /\ \A u \in TournamentId : u # t => rounds'[u] = rounds[u]
    BY <2>1, <2>2, OneListChanges
  <2>4. StoredRowsAreConsistent'
    BY <1>1, <1>3, <2>3 DEF StoredRowsAreConsistent
  <2> QED
    BY <1>1, <1>2, <2>3, <2>4 DEF TypeOK
<1>5. CASE s # "running"
  BY <1>1, <1>2, <1>3, <1>5 DEF TypeOK, AtMostOneActiveRound, StoredRowsAreConsistent
<1> QED
  BY <1>4, <1>5

LEMMA DeleteTournamentKeepsIInv ==
  ASSUME IInv, NEW t \in TournamentId, DeleteTournament(t)
  PROVE  IInv'
<1> USE DEF DeleteTournament, IInv
<1>1. /\ [Absent EXCEPT !.status = "deleted"] \in TournamentRow
      /\ [Absent EXCEPT !.status = "deleted"].status = "deleted"
  BY LifecycleAssumption DEF Absent, TournamentRow, NotARow, Time
<1>2. /\ tournaments' \in [TournamentId -> TournamentRow]
      /\ \A u \in TournamentId : u # t => tournaments'[u] = tournaments[u]
      /\ tournaments'[t].status = "deleted"
  BY <1>1 DEF TypeOK
<1>3. RoundsOK(<<>>)
  BY EmptySeq DEF RoundsOK, AtMostOneActive
<1>4. /\ rounds' \in [TournamentId -> Seq(RoundStatus)] /\ AtMostOneActiveRound'
      /\ \A u \in TournamentId : rounds'[u] = IF u = t THEN <<>> ELSE rounds[u]
  BY <1>3, OneListChanges
<1>5. StoredRowsAreConsistent'
  BY <1>2, <1>4 DEF StoredRowsAreConsistent, Exists, TournamentStatus
<1> QED
  BY <1>2, <1>4, <1>5 DEF TypeOK

(* The timer does to a due tournament what a permitted request would.        *)
LEMMA TimerIsUpdateStatus ==
  ASSUME NEW t \in TournamentId, Timer(t)
  PROVE  \E s \in TournamentStatus : UpdateStatus(t, s)
<1>1. /\ {"running", "finished"} \subseteq TournamentStatus
      /\ "running" \in STATUS_TRANSITIONS["registration"]
      /\ "finished" \in STATUS_TRANSITIONS["running"]
  BY DEF TournamentStatus, STATUS_TRANSITIONS
<1>2. CASE AutoStart(t)
  BY <1>1, <1>2 DEF AutoStart, DueToStart, UpdateStatus, Exists, TournamentStatus
<1>3. CASE AutoFinish(t)
  BY <1>1, <1>3 DEF AutoFinish, DueToFinish, UpdateStatus, Exists, TournamentStatus
<1> QED
  BY <1>1, <1>2, <1>3 DEF Timer

LEMMA RoundRequestKeepsIInv ==
  ASSUME IInv, NEW t \in TournamentId, RoundRequest(t)
  PROVE  IInv'
<1> USE DEF IInv
<1>1. /\ RoundsOK(rounds[t])
      /\ DOMAIN rounds[t] = 1 .. Len(rounds[t]) /\ Len(rounds[t]) \in Nat
  BY ListsAreOK
<1>2. ASSUME NEW rs, RoundsOK(rs), rounds' = [rounds EXCEPT ![t] = rs], Exists(t),
             UNCHANGED <<now, tournaments>>
      PROVE  IInv'
  <2>1. /\ rounds' \in [TournamentId -> Seq(RoundStatus)] /\ AtMostOneActiveRound'
        /\ \A u \in TournamentId : u # t => rounds'[u] = rounds[u]
    BY <1>2, OneListChanges
  <2>2. StoredRowsAreConsistent'
    BY <1>2, <2>1 DEF StoredRowsAreConsistent, Exists
  <2> QED
    BY <1>2, <2>1, <2>2 DEF TypeOK
<1>3. ASSUME NEW s \in RoundStatus, NEW k \in Places(rounds[t]), CreateRound(t, s, k)
      PROVE  IInv'
  <2>1. RoundsOK(InsertAt(rounds[t], k, s))
    BY <1>1, <1>3, InsertKeepsOne DEF CreateRound, Places
  <2> QED
    BY <1>2, <1>3, <2>1 DEF CreateRound
<1>4. ASSUME NEW i \in DOMAIN rounds[t]
      PROVE  Exists(t)
  BY <1>1, <1>4, EmptySeq DEF StoredRowsAreConsistent
<1>5. ASSUME NEW s \in RoundStatus, NEW i \in DOMAIN rounds[t], NEW k \in DOMAIN rounds[t],
             UpdateRound(t, i, s, k)
      PROVE  IInv'
  <2>1. RoundsOK(InsertAt(RemoveAt(rounds[t], i), k, s))
    BY <1>1, <1>5, MoveKeepsOne DEF UpdateRound
  <2> QED
    BY <1>2, <1>4, <1>5, <2>1 DEF UpdateRound
<1>6. ASSUME NEW i \in DOMAIN rounds[t], RemoveRound(t, i)
      PROVE  IInv'
  <2>1. RoundsOK(RemoveAt(rounds[t], i))
    BY <1>1, RemoveKeepsOne
  <2> QED
    BY <1>2, <1>4, <1>6, <2>1 DEF RemoveRound
<1>7. CASE AdvanceNext(t)
  BY <1>1, <1>2, <1>7, NextRoundKeepsOne DEF AdvanceNext
<1>8. CASE AdvancePrevious(t)
  BY <1>1, <1>2, <1>8, PreviousRoundKeepsOne DEF AdvancePrevious
<1> QED
  BY <1>3, <1>5, <1>6, <1>7, <1>8 DEF RoundRequest

LEMMA NextKeepsIInv == IInv /\ [Next]_vars => IInv'
<1> SUFFICES ASSUME IInv, [Next]_vars PROVE IInv'
  OBVIOUS
<1>1. CASE Tick
  <2>1. now' \in Time
    BY <1>1, LifecycleAssumption DEF IInv, Tick, TypeOK, Time
  <2> QED
    BY <1>1, <2>1 DEF IInv, Tick, TypeOK, AtMostOneActiveRound, StoredRowsAreConsistent,
       Exists
<1>2. CASE UNCHANGED vars
  BY <1>2 DEF vars, IInv, TypeOK, AtMostOneActiveRound, StoredRowsAreConsistent, Exists
<1>3. ASSUME NEW t \in TournamentId, TournamentRequest(t)
      PROVE  IInv'
  BY <1>3, CreateTournamentKeepsIInv, UpdateTournamentKeepsIInv, UpdateStatusKeepsIInv,
     DeleteTournamentKeepsIInv DEF TournamentRequest
<1>4. ASSUME NEW t \in TournamentId, RoundRequest(t)
      PROVE  IInv'
  BY <1>4, RoundRequestKeepsIInv
<1>5. ASSUME NEW t \in TournamentId, Timer(t)
      PROVE  IInv'
  BY <1>5, TimerIsUpdateStatus, UpdateStatusKeepsIInv
<1> QED
  BY <1>1, <1>2, <1>3, <1>4, <1>5 DEF Next
-----------------------------------------------------------------------------
LEMMA IInvHolds == Spec => []IInv
BY InitEstablishesIInv, NextKeepsIInv, PTL DEF Spec

\* Every handler keeps the tables well typed, under any bounds.
THEOREM TypeCorrect == Spec => []TypeOK
BY IInvHolds, PTL DEF IInv

\* As long as the handlers do not overlap, no sequence of creations, edits,
\* advances and starts leaves a tournament with two active rounds.
THEOREM OneActiveRound == Spec => []AtMostOneActiveRound
BY IInvHolds, PTL DEF IInv

\* Schedules stay in order, and deleting a tournament leaves no round behind.
THEOREM RowsConsistent == Spec => []StoredRowsAreConsistent
BY IInvHolds, PTL DEF IInv

(* A change of an existing tournament's status is UpdateStatus' doing, the   *)
(* timer's steps being instances of it.                                      *)
LEMMA StatusChangesByUpdateStatus ==
  ASSUME IInv, [Next]_vars, NEW t \in TournamentId, Exists(t), Exists(t)',
         tournaments'[t].status # tournaments[t].status
  PROVE  UpdateStatus(t, tournaments'[t].status)
<1>1. \A u \in TournamentId, s \in TournamentStatus :
        UpdateStatus(u, s) => u = t /\ s = tournaments'[t].status
  BY DEF UpdateStatus, SetStatus, IInv, TypeOK, TournamentRow
<1>2. ASSUME NEW u \in TournamentId, TournamentRequest(u)
      PROVE  \E s \in TournamentStatus : UpdateStatus(u, s)
  <2>1. ASSUME NEW s \in TournamentStatus, NEW regEnd \in Time, NEW end \in Time,
               NEW p \in (Parents \ {u}) \cup {NoParent},
               CreateTournament(u, s, regEnd, end, p)
        PROVE  FALSE
    BY <2>1 DEF CreateTournament, Exists, TournamentStatus, IInv, TypeOK
  <2>2. ASSUME NEW regEnd \in Time, NEW end \in Time, UpdateTournament(u, regEnd, end)
        PROVE  FALSE
    <3>1. tournaments' = [tournaments EXCEPT ![u].registration_end = regEnd,
                                             ![u].end_date = end]
      BY <2>2 DEF UpdateTournament, SyncRounds
    <3> QED
      BY <3>1 DEF IInv, TypeOK, TournamentRow
  <2>3. ASSUME DeleteTournament(u)
        PROVE  FALSE
    BY <2>3 DEF DeleteTournament, Exists, TournamentStatus, IInv, TypeOK, Absent
  <2> QED
    BY <1>2, <2>1, <2>2, <2>3 DEF TournamentRequest
<1>3. ASSUME NEW u \in TournamentId, Timer(u)
      PROVE  \E s \in TournamentStatus : UpdateStatus(u, s)
  BY <1>3, TimerIsUpdateStatus
<1>4. ASSUME NEW u \in TournamentId, RoundRequest(u)
      PROVE  FALSE
  <2>1. UNCHANGED tournaments
    BY <1>4 DEF RoundRequest, CreateRound, UpdateRound, RemoveRound, AdvanceNext,
       AdvancePrevious
  <2> QED
    BY <2>1
<1>5. ~Tick /\ ~UNCHANGED vars
  BY DEF Tick, vars
<1> QED
  BY <1>1, <1>2, <1>3, <1>4, <1>5 DEF Next

\* With the override switched off, a tournament's status only ever moves along
\* STATUS_TRANSITIONS, whether an organiser or the timer moves it.
THEOREM StatusAlongTable ==
  ASSUME AllowAnyStatus = FALSE
  PROVE  Spec => StatusFollowsTable
<1>1. IInv /\ [Next]_vars =>
        [\A t \in TournamentId :
           Exists(t) /\ Exists(t)' /\ tournaments'[t].status # tournaments[t].status =>
             tournaments'[t].status \in STATUS_TRANSITIONS[tournaments[t].status]]_vars
  BY StatusChangesByUpdateStatus DEF UpdateStatus
<1> QED
  BY <1>1, IInvHolds, PTL DEF Spec, StatusFollowsTable

\* Starting a tournament leaves a round open, or its first round already closed.
THEOREM StartLeavesARoundOpen == Spec => StartOpensARound
<1>1. ASSUME IInv, [Next]_vars, NEW t \in TournamentId, Exists(t),
             tournaments[t].status # "running", tournaments'[t].status = "running"
      PROVE  \/ ~NoneActive(rounds'[t])
             \/ rounds'[t] # <<>> /\ rounds'[t][1] \in {"submission_closed", "evaluated"}
  <2>1. UpdateStatus(t, "running")
    BY <1>1, StatusChangesByUpdateStatus DEF Exists, TournamentStatus
  <2>2. rounds'[t] = ActivateFirstRound(rounds[t])
    BY <1>1, <2>1 DEF UpdateStatus, IInv, TypeOK
  <2> QED
    BY <1>1, <2>2, ListsAreOK, ActivateFirstRoundKeepsOne DEF IInv
<1>2. IInv /\ [Next]_vars =>
        [\A t \in TournamentId :
           Exists(t) /\ tournaments[t].status # "running" /\ tournaments'[t].status = "running" =>
             \/ ~NoneActive(rounds'[t])
             \/ rounds'[t] # <<>> /\ rounds'[t][1] \in {"submission_closed", "evaluated"}]_vars
  BY <1>1
<1> QED
  BY <1>2, IInvHolds, PTL DEF Spec, StartOpensARound
=============================================================================
