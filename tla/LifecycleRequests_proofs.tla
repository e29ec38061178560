---------------------- MODULE LifecycleRequests_proofs ----------------------
(***************************************************************************)
(* Proofs about LifecycleRequests, where a handler is many steps: what     *)
(* starts, deletions and the timer do to the rounds of a tournament        *)
(* however they overlap, that handlers that do not overlap do what         *)
(* TournamentLifecycle says (named Lifecycle), and what any handlers keep  *)
(* of the table.                                                           *)
(*                                                                         *)
(* A listing is a choice, of which only its order is known: a row is found *)
(* in it by its rank, the number of rows before it.                        *)
(***************************************************************************)
EXTENDS LifecycleRequests, SequenceTheorems, FiniteSetTheorems, TLAPS

(* Inserting into, and removing from, a list of rounds: type, length and     *)
(* elements.                                                                 *)
LEMMA InsertAtElements ==
  ASSUME NEW S, NEW rs \in Seq(S), NEW e \in S, NEW k \in 1 .. Len(rs) + 1
  PROVE  /\ InsertAt(rs, k, e) \in Seq(S)
         /\ Len(InsertAt(rs, k, e)) = Len(rs) + 1
         /\ \A i \in 1 .. Len(rs) + 1 :
              InsertAt(rs, k, e)[i] =
                IF i < k THEN rs[i] ELSE IF i = k THEN e ELSE rs[i - 1]
<1> DEFINE a == SubSeq(rs, 1, k - 1)
           b == SubSeq(rs, k, Len(rs))
<1>0. Len(rs) \in Nat /\ k \in Nat
  OBVIOUS
<1>1. /\ a \in Seq(S) /\ Len(a) = k - 1
      /\ \A i \in 1 .. k - 1 : a[i] = rs[i]
  OBVIOUS
<1>2. /\ b \in Seq(S) /\ Len(b) = Len(rs) - k + 1
      /\ \A i \in 1 .. Len(rs) - k + 1 : b[i] = rs[k + i - 1]
  OBVIOUS
<1>3. <<e>> \in Seq(S) /\ Len(<<e>>) = 1 /\ <<e>>[1] = e
  OBVIOUS
<1> HIDE DEF a, b
<1>4. InsertAt(rs, k, e) = (a \o <<e>>) \o b
  BY DEF InsertAt, a, b
<1>5. /\ a \o <<e>> \in Seq(S) /\ Len(a \o <<e>>) = k
      /\ \A i \in 1 .. k : (a \o <<e>>)[i] = IF i < k THEN rs[i] ELSE e
  BY <1>1, <1>3
<1> DEFINE c == a \o <<e>>
           d == c \o b
<1>6. /\ c \in Seq(S) /\ Len(c) = k
      /\ \A i \in 1 .. k : c[i] = IF i < k THEN rs[i] ELSE e
  BY <1>5
<1> HIDE DEF c
<1>7. /\ d \in Seq(S) /\ Len(d) = Len(c) + Len(b)
      /\ \A i \in 1 .. Len(c) + Len(b) :
           d[i] = IF i <= Len(c) THEN c[i] ELSE b[i - Len(c)]
  BY <1>2, <1>6, ConcatProperties
<1>8. d = InsertAt(rs, k, e)
  BY <1>4 DEF c
<1> HIDE DEF d
<1>9. Len(c) + Len(b) = Len(rs) + 1
  BY <1>0, <1>2, <1>6
<1>10. ASSUME NEW i \in 1 .. Len(rs) + 1
       PROVE  d[i] = IF i < k THEN rs[i] ELSE IF i = k THEN e ELSE rs[i - 1]
  <2>1. CASE i <= k
    BY <2>1, <1>0, <1>6, <1>7, <1>9
  <2>2. CASE i > k
    <3>1. i - k \in 1 .. Len(rs) - k + 1 /\ k + (i - k) - 1 = i - 1
      BY <2>2, <1>0
    <3>2. d[i] = b[i - k]
      BY <2>2, <1>0, <1>6, <1>7, <1>9
    <3> QED
      BY <3>1, <3>2, <2>2, <1>0, <1>2
  <2> QED
    BY <2>1, <2>2, <1>0
<1> QED
  BY <1>7, <1>8, <1>9, <1>10

LEMMA RemoveAtElements ==
  ASSUME NEW S, NEW rs \in Seq(S), NEW k \in 1 .. Len(rs)
  PROVE  /\ RemoveAt(rs, k) \in Seq(S)
         /\ Len(RemoveAt(rs, k)) = Len(rs) - 1
         /\ \A i \in 1 .. Len(rs) - 1 :
              RemoveAt(rs, k)[i] = IF i < k THEN rs[i] ELSE rs[i + 1]
<1> DEFINE a == SubSeq(rs, 1, k - 1)
           b == SubSeq(rs, k + 1, Len(rs))
<1>1. /\ a \in Seq(S) /\ Len(a) = k - 1
      /\ \A i \in 1 .. k - 1 : a[i] = rs[i]
  OBVIOUS
<1>2. /\ b \in Seq(S) /\ Len(b) = Len(rs) - k
      /\ \A i \in 1 .. Len(rs) - k : b[i] = rs[k + i]
  OBVIOUS
<1> HIDE DEF a, b
<1>3. RemoveAt(rs, k) = a \o b
  BY DEF RemoveAt, a, b
<1> DEFINE d == a \o b
<1>4. /\ d \in Seq(S) /\ Len(d) = Len(a) + Len(b)
      /\ \A i \in 1 .. Len(a) + Len(b) :
           d[i] = IF i <= Len(a) THEN a[i] ELSE b[i - Len(a)]
  BY <1>1, <1>2, ConcatProperties
<1>5. d = RemoveAt(rs, k)
  BY <1>3
<1> HIDE DEF d
<1>6. Len(rs) \in Nat /\ k \in Nat /\ Len(a) + Len(b) = Len(rs) - 1
  BY <1>1, <1>2
<1>7. ASSUME NEW i \in 1 .. Len(rs) - 1
      PROVE  d[i] = IF i < k THEN rs[i] ELSE rs[i + 1]
  <2>1. CASE i < k
    BY <2>1, <1>1, <1>4, <1>6
  <2>2. CASE i >= k
    <3>1. i - (k - 1) \in 1 .. Len(rs) - k /\ k + (i - (k - 1)) = i + 1
      BY <2>2, <1>6
    <3>2. Len(a) = k - 1 /\ i \in 1 .. Len(a) + Len(b) /\ ~(i <= Len(a))
      BY <2>2, <1>1, <1>6
    <3>3. d[i] = b[i - Len(a)]
      BY <3>2, <1>4
    <3>4. b[i - (k - 1)] = rs[k + (i - (k - 1))]
      BY <3>1, <1>2
    <3> QED
      BY <3>1, <3>2, <3>3, <3>4, <2>2, <1>6
  <2> QED
    BY <2>1, <2>2, <1>6
<1> QED
  BY <1>4, <1>5, <1>6, <1>7
-----------------------------------------------------------------------------
(* The listing of a table                                                    *)

\* The order of a listing is total on rows with ids of their own.
Ordered(rs) ==
  /\ IsFiniteSet(rs)
  /\ \A r \in rs : r.id \in Nat /\ r.sort_order \in Nat
  /\ \A r, s \in rs : r.id = s.id => r = s

Below(rs, r) == {s \in rs : Before(s, r)}
Rank(rs, r) == Cardinality(Below(rs, r)) + 1

LEMMA BeforeIsAnOrder ==
  ASSUME NEW rs, Ordered(rs), NEW a \in rs, NEW b \in rs, NEW c \in rs
  PROVE  /\ ~Before(a, a)
         /\ Before(a, b) /\ Before(b, c) => Before(a, c)
         /\ a # b => Before(a, b) \/ Before(b, a)
BY DEF Ordered, Before

(* A round is ranked higher than those before it, and by its rank alone.     *)
LEMMA RanksGrow ==
  ASSUME NEW rs, Ordered(rs), NEW a \in rs, NEW b \in rs, Before(a, b)
  PROVE  Rank(rs, a) < Rank(rs, b)
<1>1. Below(rs, a) \subseteq Below(rs, b) /\ a \in Below(rs, b) /\ a \notin Below(rs, a)
  BY BeforeIsAnOrder DEF Below
<1>2. IsFiniteSet(Below(rs, b))
  BY FS_Subset DEF Below, Ordered
<1>3. /\ IsFiniteSet(Below(rs, a)) /\ Cardinality(Below(rs, a)) <= Cardinality(Below(rs, b))
      /\ Cardinality(Below(rs, a)) # Cardinality(Below(rs, b))
  BY <1>1, <1>2, FS_Subset
<1>4. Cardinality(Below(rs, a)) \in Nat /\ Cardinality(Below(rs, b)) \in Nat
  BY <1>2, <1>3, FS_CardinalityType
<1>5. QED  BY <1>3, <1>4 DEF Rank

LEMMA RanksAreInRange ==
  ASSUME NEW rs, Ordered(rs), NEW r \in rs
  PROVE  Cardinality(rs) \in Nat /\ Rank(rs, r) \in 1 .. Cardinality(rs)
<1>1. Below(rs, r) \subseteq rs /\ r \notin Below(rs, r)
  BY BeforeIsAnOrder DEF Below
<1>2. IsFiniteSet(rs)
  BY DEF Ordered
<1>3. /\ IsFiniteSet(Below(rs, r)) /\ Cardinality(Below(rs, r)) <= Cardinality(rs)
      /\ Cardinality(Below(rs, r)) # Cardinality(rs)
  BY <1>1, <1>2, FS_Subset
<1>4. Cardinality(Below(rs, r)) \in Nat /\ Cardinality(rs) \in Nat
  BY <1>2, <1>3, FS_CardinalityType
<1>5. QED  BY <1>3, <1>4 DEF Rank

(* Every rank is taken: as many rounds as ranks, and no two share one.       *)
LEMMA EveryRankIsTaken ==
  ASSUME NEW rs, Ordered(rs), NEW i \in 1 .. Cardinality(rs)
  PROVE  \E r \in rs : Rank(rs, r) = i
<1> DEFINE f == [r \in rs |-> Rank(rs, r)]
           n == Cardinality(rs)
<1>0. IsFiniteSet(rs) /\ n \in Nat
  BY FS_CardinalityType DEF Ordered
<1>1. f \in [rs -> 1 .. n]
  BY RanksAreInRange
<1>2. ASSUME NEW a \in rs, NEW b \in rs, a # b PROVE f[a] # f[b]
  <2>1. Rank(rs, a) \in Nat /\ Rank(rs, b) \in Nat
    BY <1>0, RanksAreInRange
  <2>2. Rank(rs, a) < Rank(rs, b) \/ Rank(rs, b) < Rank(rs, a)
    BY <1>2, BeforeIsAnOrder, RanksGrow
  <2>3. QED  BY <2>1, <2>2
<1>3. f \in Injection(rs, 1 .. n)
  BY <1>1, <1>2 DEF Injection, IsInjective
<1>4. IsFiniteSet(1 .. n) /\ Cardinality(1 .. n) = n
  BY <1>0, FS_Interval
<1> HIDE DEF f
<1>5. f \in Surjection(rs, 1 .. n)
  BY <1>3, <1>4, FS_Injection
<1>6. PICK r \in rs : f[r] = i
  BY <1>5 DEF Surjection
<1>7. QED  BY <1>6 DEF f

(* So there is a listing, and it has every round once.                       *)
LEMMA ListingIs ==
  ASSUME NEW rs, Ordered(rs)
  PROVE  /\ Cardinality(rs) \in Nat
         /\ Listing(rs) \in [1 .. Cardinality(rs) -> rs]
         /\ \A i, j \in 1 .. Cardinality(rs) :
              i < j => Before(Listing(rs)[i], Listing(rs)[j])
<1> DEFINE n == Cardinality(rs)
           list == [i \in 1 .. n |-> CHOOSE r \in rs : Rank(rs, r) = i]
<1>0. n \in Nat
  BY FS_CardinalityType DEF Ordered
<1>1. \A i \in 1 .. n : list[i] \in rs /\ Rank(rs, list[i]) = i
  BY EveryRankIsTaken
<1>2. list \in [1 .. n -> rs]
  BY <1>1
<1> HIDE DEF list
<1>3. ASSUME NEW i \in 1 .. n, NEW j \in 1 .. n, i < j
      PROVE  Before(list[i], list[j])
  <2>1. Before(list[j], list[i]) => j < i
    BY <1>1, RanksGrow
  <2>2. list[i] # list[j]
    BY <1>1, <1>3
  <2>3. QED  BY <1>0, <1>1, <1>3, <2>1, <2>2, BeforeIsAnOrder
<1> DEFINE P(l) == \A i, j \in DOMAIN l : i < j => Before(l[i], l[j])
           chosen == CHOOSE l \in [1 .. n -> rs] : P(l)
<1>4. Listing(rs) = chosen
  BY DEF Listing
<1>5. \E l \in [1 .. n -> rs] : P(l)
  BY <1>2, <1>3
<1> HIDE DEF P
<1>6. chosen \in [1 .. n -> rs] /\ P(chosen)
  BY <1>5
<1>7. /\ Listing(rs) \in [1 .. n -> rs]
      /\ \A i, j \in DOMAIN Listing(rs) :
           i < j => Before(Listing(rs)[i], Listing(rs)[j])
  BY <1>4, <1>6 DEF P
<1>8. QED  BY <1>0, <1>7

LEMMA ListingHasEvery ==
  ASSUME NEW rs, Ordered(rs), NEW r \in rs
  PROVE  \E i \in 1 .. Cardinality(rs) : Listing(rs)[i] = r
<1> DEFINE n == Cardinality(rs)
<1>1. PICK list : list = Listing(rs)
  OBVIOUS
<1>2. /\ n \in Nat /\ list \in [1 .. n -> rs]
      /\ \A i, j \in 1 .. n : i < j => Before(list[i], list[j])
  BY <1>1, ListingIs
<1>3. ASSUME NEW i \in 1 .. n, NEW j \in 1 .. n, i # j PROVE list[i] # list[j]
  <2>1. i < j \/ j < i
    BY <1>2, <1>3
  <2>2. QED  BY <1>2, <2>1, BeforeIsAnOrder
<1>4. list \in Injection(1 .. n, rs)
  BY <1>2, <1>3 DEF Injection, IsInjective
<1>5. IsFiniteSet(rs) /\ Cardinality(1 .. n) = n
  <2>1. Cardinality(1 .. n) = n  BY <1>2, FS_Interval
  <2>2. QED  BY <2>1 DEF Ordered
<1>6. list \in Surjection(1 .. n, rs)
  BY <1>4, <1>5, FS_Injection
<1>7. QED  BY <1>1, <1>6 DEF Surjection

OneOpen(rs) == \A r, s \in rs : r.status = "active" /\ s.status = "active" => r = s
NoneOpen(rs) == \A r \in rs : r.status # "active"

\* What a start opens where nothing is open.
FirstToOpen(rs) ==
  IF rs = {} THEN DefaultRound ELSE With(Listing(rs)[1], "active")

LEMMA RowsToOpenAre ==
  ASSUME NEW rs, Ordered(rs), OneOpen(rs)
  PROVE  /\ \/ RowsToOpen(Listing(rs)) = <<>>
            \/ /\ NoneOpen(rs)
               /\ RowsToOpen(Listing(rs)) = <<FirstToOpen(rs)>>
         /\ rs = {} /\ Exists =>
              RowsToOpen(Listing(rs)) = <<DefaultRound>>
         /\ rs # {} => Listing(rs)[1] \in rs
<1>1. PICK list : list = Listing(rs)
  OBVIOUS
<1> DEFINE n == Cardinality(rs)
<1>2. /\ n \in Nat /\ list \in [1 .. n -> rs] /\ DOMAIN list = 1 .. n
      /\ \A r \in rs : \E i \in 1 .. n : list[i] = r
  BY <1>1, ListingIs, ListingHasEvery
<1>3. CASE n = 0
  <2>1. rs = {}
    BY <1>3, FS_EmptySet DEF Ordered
  <2>2. list = <<>>
    BY <1>2, <1>3
  <2>3. RowsToOpen(list) = IF Exists THEN <<DefaultRound>> ELSE <<>>
    BY <2>2 DEF RowsToOpen
  <2>4. QED  BY <1>1, <2>1, <2>3 DEF FirstToOpen, NoneOpen
<1>4. CASE n # 0
  <2>0. rs # {}
    BY <1>4, FS_EmptySet
  <2>1. list # <<>> /\ list[1] \in rs
    BY <1>2, <1>4
  <2>2. CASE ActiveIn(list) # {}
    <3>1. RowsToOpen(list) = <<>>
      BY <2>1, <2>2 DEF RowsToOpen
    <3>2. QED  BY <1>1, <2>0, <2>1, <3>1
  <2>3. CASE ActiveIn(list) = {}
    <3>1. ASSUME NEW r \in rs, r.status = "active" PROVE FALSE
      <4>1. PICK i \in 1 .. n : list[i] = r
        BY <1>2
      <4>2. ASSUME NEW j \in 1 .. i - 1, list[j].status = "active" PROVE FALSE
        <5>1. j \in 1 .. n /\ j < i
          BY <1>2
        <5>2. list[j] = r
          BY <1>2, <3>1, <4>2, <5>1 DEF OneOpen
        <5>3. Before(list[j], list[i])
          BY <1>1, <5>1, ListingIs
        <5>4. QED  BY <4>1, <5>2, <5>3, BeforeIsAnOrder
      <4>3. i \in ActiveIn(list)
        BY <1>2, <3>1, <4>1, <4>2 DEF ActiveIn
      <4>4. QED  BY <2>3, <4>3
    <3>2. \/ RowsToOpen(list) = <<With(list[1], "active")>>
          \/ RowsToOpen(list) = <<>>
      BY <2>1, <2>3 DEF RowsToOpen
    <3>3. QED  BY <1>1, <2>0, <2>1, <3>1, <3>2 DEF NoneOpen, FirstToOpen
  <2>4. QED  BY <2>2, <2>3
<1>5. QED  BY <1>3, <1>4
-----------------------------------------------------------------------------
(* Starts that overlap                                                       *)

\* Requests that create, date, start, stop or delete a tournament, and the timer: all
\* but those about its rounds, and those that rename it and with it its only round.
NoRoundRequests ==
  Kinds \subseteq {"createTournament", "updateTournament", "updateStatus", "deleteTournament", "pass"}

StartSteps == {"idle", "writeStatus", "writeDates", "findRounds", "selectToFinish", "save"}

TournamentIs == "status" \in DOMAIN tournament /\ tournament.status # "absent"

RoundsAre ==
  /\ Ordered(rounds) /\ OneOpen(rounds)
  /\ \A r \in rounds : r \in Row /\ r.id \in RoundId

\* The row a start is about to save is the one that any start would open, or, once
\* a round is open, that round or a default round whose title is taken.
HeldBy(state) ==
  /\ state.step = "writeStatus" => state.status # "absent"
  /\ state.step = "save" =>
       \E row \in Row :
         /\ state.rows = <<row>> /\ row.status = "active"
         /\ Exists =>
              IF NoneOpen(rounds) THEN row = FirstToOpen(rounds)
              ELSE \/ row \in rounds
                   \/ row.id = NewRow /\ \E r \in rounds : r.title = row.title

StartsHold ==
  /\ handlers = [h \in Handlers |-> handlers[h]]
  /\ \A h \in Handlers : handlers[h].step \in StartSteps /\ HeldBy(handlers[h])

\* A start that has found no round is about to add one.
RoundIsComing ==
  tournament.status = "running" /\ crashes = 0 /\ rounds = {} =>
    \E h \in Handlers : handlers[h].step \in {"findRounds", "save"}

StartInv == TournamentIs /\ RoundsAre /\ StartsHold /\ crashes \in Nat /\ RoundIsComing

(* The steps there are.                                                      *)
LEMMA StartsStep ==
  ASSUME NoRoundRequests, StartInv, Next
  PROVE  \/ Tick \/ Crash \/ DeleteTournament
         \/ \E h \in Slots, s \in Status : BeginUpdateStatus(h, s)
         \/ \E h \in Slots : \E patch : BeginUpdateTournament(h, patch)
         \/ BeginPass \/ SelectToFinish
         \/ \E h \in Handlers : WriteStatus(h) \/ WriteDates(h) \/ FindRounds(h) \/ SaveRow(h)
<1>1. ASSUME ImmediateRequest PROVE DeleteTournament
  BY <1>1 DEF ImmediateRequest, CreateTournament, RemoveRound, MayBegin, NoRoundRequests,
              StartInv, TournamentIs
<1>2. ASSUME NEW h \in Slots, Request(h)
      PROVE  \/ \E s \in Status : BeginUpdateStatus(h, s)
             \/ \E patch : BeginUpdateTournament(h, patch)
  BY <1>2 DEF Request, BeginCreateRound, BeginUpdateRound, BeginAdvanceNext, BeginAdvancePrevious,
              BeginRenameTournament, BeginRenameChild, Begins, MayBegin, NoRoundRequests
<1>3. ASSUME NEW h \in Handlers, Statement(h)
      PROVE  WriteStatus(h) \/ WriteDates(h) \/ FindRounds(h) \/ SaveRow(h)
  BY <1>3 DEF Statement, CheckNoOther, WriteNamed, FindDefault, RenameRound,
              StartInv, StartsHold, StartSteps
<1>4. QED  BY <1>1, <1>2, <1>3 DEF Next

(* A handler goes on, and the rounds stay as they are.                       *)
LEMMA HandlerGoesOn ==
  ASSUME StartsHold, NEW h \in Handlers, NEW state,
         handlers' = [handlers EXCEPT ![h] = state], rounds' = rounds,
         Exists' => Exists,
         state.step \in StartSteps, HeldBy(state)
  PROVE  /\ StartsHold'
         /\ handlers'[h] = state
         /\ \A g \in Handlers : g # h => handlers'[g] = handlers[g]
<1>1. /\ handlers'[h] = state
      /\ \A g \in Handlers : g # h => handlers'[g] = handlers[g]
      /\ handlers' = [g \in Handlers |-> handlers'[g]]
  BY DEF StartsHold
<1>2. ASSUME NEW g \in Handlers
      PROVE  handlers'[g].step \in StartSteps /\ HeldBy(handlers[g])'
  <2>1. CASE g = h
    BY <1>1, <2>1 DEF HeldBy
  <2>2. CASE g # h
    BY <1>1, <2>2 DEF HeldBy, StartsHold
  <2>3. QED  BY <2>1, <2>2
<1>3. QED  BY <1>1, <1>2 DEF StartsHold

(* A handler is answered, or goes on, with nothing to save.                  *)
LEMMA StatusStays ==
  ASSUME StartInv, NEW h \in Handlers, NEW state,
         handlers' = [handlers EXCEPT ![h] = state], UNCHANGED <<rounds, crashes>>,
         TournamentIs', tournament'.status = tournament.status,
         state.step \in {"idle", "writeStatus", "writeDates", "selectToFinish"},
         state.step = "writeStatus" => state.status # "absent",
         handlers[h].step \notin {"findRounds", "save"} \/ rounds # {} \/ ~Exists
  PROVE  StartInv'
<1>1. HeldBy(state) /\ state.step \in StartSteps /\ (Exists' => Exists)
  BY DEF HeldBy, StartSteps, Exists
<1>2. /\ StartsHold' /\ handlers'[h] = state
      /\ \A g \in Handlers : g # h => handlers'[g] = handlers[g]
  BY <1>1, HandlerGoesOn DEF StartInv
<1>3. RoundsAre' /\ crashes' \in Nat
  BY DEF StartInv, RoundsAre
<1>4. RoundIsComing'
  BY <1>2 DEF StartInv, RoundIsComing, Exists, Status
<1>5. QED  BY <1>2, <1>3, <1>4 DEF StartInv

LEMMA NothingToSave ==
  ASSUME StartInv, NEW h \in Handlers, NEW state,
         handlers' = [handlers EXCEPT ![h] = state], UNCHANGED <<rounds, tournament, crashes>>,
         state.step \in {"idle", "writeStatus", "writeDates", "selectToFinish"},
         state.step = "writeStatus" => state.status # "absent",
         handlers[h].step \notin {"findRounds", "save"} \/ rounds # {} \/ ~Exists
  PROVE  StartInv'
<1>1. TournamentIs' /\ tournament'.status = tournament.status
  BY DEF StartInv, TournamentIs
<1>2. QED  BY <1>1, StatusStays

LEMMA BeginsKeepStarts ==
  ASSUME StartInv,
         \/ \E h \in Slots, s \in Status : BeginUpdateStatus(h, s)
         \/ \E h \in Slots : \E patch : BeginUpdateTournament(h, patch)
         \/ BeginPass \/ SelectToFinish
  PROVE  StartInv'
<1>0. timer \in Handlers
  BY DEF Handlers
<1>1. ASSUME NEW h \in Slots, NEW s \in Status, BeginUpdateStatus(h, s)
      PROVE  StartInv'
  <2>1. h \in Handlers
    BY DEF Handlers
  <2>2. PICK state : state = [step |-> "writeStatus", status |-> s]
    OBVIOUS
  <2>3. /\ handlers[h] = Idle /\ UNCHANGED <<rounds, tournament, crashes>>
        /\ handlers' = [handlers EXCEPT ![h] = state]
    BY <1>1, <2>2 DEF BeginUpdateStatus, Begins
  <2>4. state.step = "writeStatus" /\ state.status # "absent" /\ handlers[h].step = "idle"
    BY <2>2, <2>3 DEF Idle, Status
  <2>5. QED  BY <2>1, <2>3, <2>4, NothingToSave
<1>2. CASE BeginPass
  <2>1. PICK state :
          state = IF tournament.status = "registration" /\ tournament.registration_end <= now
                  THEN [step |-> "writeStatus", status |-> "running"]
                  ELSE [step |-> "selectToFinish"]
    OBVIOUS
  <2>2. /\ state.step \in {"writeStatus", "selectToFinish"}
        /\ state.step = "writeStatus" => state.status # "absent"
    BY <2>1
  <2>3. /\ handlers[timer] = Idle /\ UNCHANGED <<rounds, tournament, crashes>>
        /\ handlers' = [handlers EXCEPT ![timer] = state]
    BY <1>2, <2>1 DEF BeginPass
  <2>4. handlers[timer].step = "idle"
    BY <2>3 DEF Idle
  <2>5. QED  BY <1>0, <2>2, <2>3, <2>4, NothingToSave
<1>3. CASE SelectToFinish
  <2>1. PICK state :
          state = IF tournament.status = "running" /\ tournament.end_date <= passTime
                  THEN [step |-> "writeStatus", status |-> "finished"] ELSE Idle
    OBVIOUS
  <2>2. /\ state.step \in {"writeStatus", "idle"}
        /\ state.step = "writeStatus" => state.status # "absent"
    BY <2>1 DEF Idle
  <2>3. /\ handlers[timer].step = "selectToFinish" /\ UNCHANGED <<rounds, tournament, crashes>>
        /\ handlers' = [handlers EXCEPT ![timer] = state]
    BY <1>3, <2>1 DEF SelectToFinish, Goes
  <2>4. QED  BY <1>0, <2>2, <2>3, NothingToSave
<1>4. ASSUME NEW h \in Slots, NEW patch, BeginUpdateTournament(h, patch)
      PROVE  StartInv'
  <2>1. h \in Handlers
    BY DEF Handlers
  <2>2. PICK state : state = [step |-> "writeDates", patch |-> patch]
    OBVIOUS
  <2>3. /\ handlers[h] = Idle /\ UNCHANGED <<rounds, tournament, crashes>>
        /\ handlers' = [handlers EXCEPT ![h] = state]
    BY <1>4, <2>2 DEF BeginUpdateTournament, Begins
  <2>4. state.step = "writeDates" /\ handlers[h].step = "idle"
    BY <2>2, <2>3 DEF Idle
  <2>5. QED  BY <2>1, <2>3, <2>4, NothingToSave
<1>5. QED  BY <1>1, <1>2, <1>3, <1>4

(* Dates say nothing of the status.                                          *)
LEMMA WriteDatesKeepsStarts ==
  ASSUME StartInv, NEW h \in Handlers, WriteDates(h)
  PROVE  StartInv'
<1>1. PICK state : state = Idle
  OBVIOUS
<1>2. /\ handlers[h].step = "writeDates" /\ UNCHANGED <<rounds, crashes>>
      /\ tournament' = IF Exists THEN Patched(handlers[h].patch) ELSE tournament
      /\ handlers' = [handlers EXCEPT ![h] = state]
  BY <1>1 DEF WriteDates, WritePatch, Goes
<1>3. TournamentIs' /\ tournament'.status = tournament.status
  BY <1>2 DEF StartInv, TournamentIs, Patched
<1>4. state.step = "idle"
  BY <1>1 DEF Idle
<1>5. QED  BY <1>2, <1>3, <1>4, StatusStays

LEMMA WriteStatusKeepsStarts ==
  ASSUME StartInv, NEW h \in Handlers, WriteStatus(h)
  PROVE  StartInv'
<1> DEFINE s == handlers[h].status
<1>1. /\ handlers[h].step = "writeStatus" /\ UNCHANGED <<rounds, crashes>>
      /\ tournament' = IF Exists THEN [tournament EXCEPT !.status = s] ELSE tournament
      /\ handlers' = [handlers EXCEPT ![h] =
                       IF s = "running" THEN [step |-> "findRounds"] ELSE Idle]
  BY DEF WriteStatus, Goes
<1> DEFINE state == IF s = "running" THEN [step |-> "findRounds"] ELSE Idle
<1>2. /\ state.step \in {"findRounds", "idle"} /\ (s = "running" => state.step = "findRounds")
  BY DEF Idle
<1>3. HeldBy(state) /\ state.step \in StartSteps
  BY <1>2 DEF HeldBy, StartSteps
<1>4. Exists' => Exists
  BY <1>1 DEF Exists
<1>5. /\ StartsHold' /\ handlers'[h] = state
      /\ \A g \in Handlers : g # h => handlers'[g] = handlers[g]
  BY <1>1, <1>3, <1>4, HandlerGoesOn DEF StartInv
<1> HIDE DEF state
<1>6. RoundsAre' /\ crashes' \in Nat
  BY <1>1 DEF StartInv, RoundsAre
<1>7. RoundIsComing'
  <2>1. CASE tournament'.status = "running" /\ s = "running"
    BY <1>2, <1>5, <2>1 DEF RoundIsComing
  <2>2. CASE tournament' = tournament
    BY <1>1, <1>5, <2>2 DEF StartInv, RoundIsComing
  <2>3. CASE tournament' # tournament /\ s # "running"
    <3>1. tournament'.status # "running"
      BY <1>1, <2>3
    <3>2. QED  BY <3>1 DEF RoundIsComing
  <2>4. CASE tournament' # tournament /\ s = "running" /\ tournament'.status # "running"
    BY <2>4 DEF RoundIsComing
  <2>5. QED  BY <2>1, <2>2, <2>3, <2>4
<1>8. TournamentIs'
  <2>1. s # "absent"
    BY <1>1 DEF StartInv, StartsHold, HeldBy
  <2>2. QED  BY <1>1, <2>1 DEF StartInv, TournamentIs
<1>9. QED  BY <1>5, <1>6, <1>7, <1>8 DEF StartInv

(* What a start opens is a round that is open.                               *)
LEMMA FirstToOpenIsOpen ==
  ASSUME RoundsAre, rounds = {} \/ Listing(rounds)[1] \in rounds
  PROVE  FirstToOpen(rounds) \in Row /\ FirstToOpen(rounds).status = "active"
<1>1. CASE rounds = {}
  <2>1. DefaultRound \in Row /\ DefaultRound.status = "active"
    BY RequestsAssumption DEF DefaultRound, Row, RoundStatus
  <2>2. QED  BY <1>1, <2>1 DEF FirstToOpen
<1>2. CASE rounds # {}
  <2>1. PICK first \in rounds : first = Listing(rounds)[1]
    BY <1>2
  <2>2. first \in Row
    BY DEF RoundsAre
  <2>3. FirstToOpen(rounds) = [first EXCEPT !.status = "active"]
    BY <1>2, <2>1 DEF FirstToOpen, With
  <2>4. QED  BY <2>2, <2>3 DEF Row, RoundStatus
<1>3. QED  BY <1>1, <1>2

LEMMA FindRoundsKeepsStarts ==
  ASSUME StartInv, NEW h \in Handlers, FindRounds(h)
  PROVE  StartInv'
<1>1. PICK rows : rows = RowsToOpen(Listing(rounds))
  OBVIOUS
<1>2. /\ handlers[h].step = "findRounds" /\ UNCHANGED <<rounds, tournament, crashes>>
      /\ handlers' = [handlers EXCEPT ![h] =
           IF rows = <<>> THEN Return(h) ELSE [step |-> "save", rows |-> rows]]
  BY <1>1 DEF FindRounds, Continue, Goes
<1>3. /\ \/ rows = <<>>
         \/ NoneOpen(rounds) /\ rows = <<FirstToOpen(rounds)>>
      /\ rounds = {} /\ Exists => rows = <<DefaultRound>>
      /\ rounds # {} => Listing(rounds)[1] \in rounds
  BY <1>1, RowsToOpenAre DEF StartInv, RoundsAre
<1>4. CASE rows = <<>>
  <2>1. Return(h).step \in {"idle", "selectToFinish"}
    BY DEF Return, Idle
  <2>2. <<DefaultRound>> # <<>>
    OBVIOUS
  <2>3. rounds # {} \/ ~Exists
    BY <1>3, <1>4, <2>2
  <2>4. handlers' = [handlers EXCEPT ![h] = Return(h)]
    BY <1>2, <1>4
  <2>5. QED  BY <1>2, <2>1, <2>3, <2>4, NothingToSave
<1>5. CASE rows # <<>>
  <2>1. PICK row \in Row : row = FirstToOpen(rounds) /\ row.status = "active"
    BY <1>3, FirstToOpenIsOpen DEF StartInv
  <2>2. PICK state : state = [step |-> "save", rows |-> <<row>>]
    OBVIOUS
  <2>3. handlers' = [handlers EXCEPT ![h] = state]
    BY <1>2, <1>3, <1>5, <2>1, <2>2
  <2>4. HeldBy(state) /\ state.step = "save" /\ state.step \in StartSteps
    BY <1>3, <1>5, <2>1, <2>2 DEF HeldBy, StartSteps
  <2>5. Exists' => Exists
    BY <1>2 DEF Exists
  <2>6. StartsHold' /\ handlers'[h] = state
    BY <1>2, <2>3, <2>4, <2>5, HandlerGoesOn DEF StartInv
  <2>7. RoundsAre' /\ crashes' \in Nat
    BY <1>2 DEF StartInv, RoundsAre
  <2>8. RoundIsComing'
    BY <2>4, <2>6 DEF RoundIsComing
  <2>9. TournamentIs'
    BY <1>2 DEF StartInv, TournamentIs
  <2>10. QED  BY <2>6, <2>7, <2>8, <2>9 DEF StartInv
<1>6. QED  BY <1>4, <1>5

(* A row is saved where no round is open: it is the one every other start      *)
(* holds.                                                                      *)
LEMMA FirstSaveOpens ==
  ASSUME StartInv, RoundId # {}, NEW h \in Handlers,
         NEW row \in Row, row = FirstToOpen(rounds), row.status = "active",
         Exists, NoneOpen(rounds), rounds # {} => Listing(rounds)[1] \in rounds,
         CanSave(rounds, row), rounds' = Saved(rounds, row)
  PROVE  /\ RoundsAre' /\ ~NoneOpen(rounds)' /\ rounds' # {}
         /\ \/ row \in rounds'
            \/ row.id = NewRow /\ \E r \in rounds' : r.title = row.title
<1>0. /\ IsFiniteSet(rounds) /\ NewRow \notin RoundId /\ RoundId \subseteq Nat /\ SortOrders \subseteq Nat
      /\ \A r, s \in rounds : r.id = s.id => r = s
      /\ \A r \in rounds : r \in Row /\ r.id \in RoundId
  BY RequestsAssumption DEF StartInv, RoundsAre, Ordered
<1>1. CASE rounds = {}
  <2>1. row = DefaultRound
    BY <1>1 DEF FirstToOpen
  <2>2. row.id = NewRow
    BY <2>1 DEF DefaultRound
  <2>3. ASSUME NEW r \in HeldRows(handlers) PROVE r.id = NewRow
    <3>1. PICK g \in Handlers :
            handlers[g].step = "save" /\ r \in ToSet(handlers[g].rows)
      BY DEF HeldRows, StartInv, StartsHold, StartSteps
    <3>2. PICK held : handlers[g].rows = <<held>> /\ held = FirstToOpen(rounds)
      BY <3>1 DEF StartInv, StartsHold, HeldBy
    <3>3. r = held
      BY <3>1, <3>2 DEF ToSet
    <3>4. QED  BY <1>1, <2>1, <2>2, <3>2, <3>3 DEF FirstToOpen
  <2>4. FreshId(rounds) \in RoundId
    <3>1. PICK i \in RoundId : TRUE
      OBVIOUS
    <3>2. i \notin {r.id : r \in rounds \cup HeldRows(handlers)}
      BY <1>0, <1>1, <2>3
    <3>3. QED  BY <3>2 DEF FreshId
  <2>5. PICK new : new = [row EXCEPT !.id = FreshId(rounds)]
    OBVIOUS
  <2>6. rounds' = {new}
    BY <1>1, <2>2, <2>5 DEF Saved
  <2>7. new \in Row /\ new.id \in RoundId /\ new.status = "active" /\ new.title = row.title
    BY <2>4, <2>5 DEF Row
  <2>8. Ordered(rounds')
    <3>1. IsFiniteSet({new})
      BY FS_Singleton
    <3>2. new.id \in Nat /\ new.sort_order \in Nat
      BY <1>0, <2>7 DEF Row
    <3>3. QED  BY <2>6, <3>1, <3>2 DEF Ordered
  <2>9. RoundsAre'
    BY <2>6, <2>7, <2>8 DEF RoundsAre, OneOpen
  <2>10. QED  BY <2>2, <2>6, <2>7, <2>9 DEF NoneOpen
<1>2. CASE rounds # {}
  <2>1. PICK first \in rounds : first = Listing(rounds)[1]
    BY <1>2
  <2>2. row = [first EXCEPT !.status = "active"]
    BY <1>2, <2>1 DEF FirstToOpen, With
  <2>3. row.id = first.id /\ row.id \in RoundId
    BY <1>0, <2>2 DEF Row
  <2>4. rounds' = {r \in rounds : r.id # row.id} \cup {row}
    BY <1>0, <2>3 DEF Saved
  <2>5. IsFiniteSet(rounds')
    <3>1. IsFiniteSet({r \in rounds : r.id # row.id})
      BY <1>0, FS_Subset
    <3>2. IsFiniteSet({r \in rounds : r.id # row.id} \cup {row})
      BY <3>1, FS_AddElement
    <3>3. QED  BY <2>4, <3>2
  <2>6. \A r \in rounds' : r \in Row /\ r.id \in RoundId
    BY <1>0, <2>3, <2>4
  <2>7. Ordered(rounds')
    BY <1>0, <2>4, <2>5, <2>6 DEF Ordered, Row
  <2>8. OneOpen(rounds')
    BY <2>4 DEF OneOpen, NoneOpen
  <2>9. RoundsAre'
    BY <2>6, <2>7, <2>8 DEF RoundsAre
  <2>10. QED  BY <2>4, <2>9 DEF NoneOpen
<1>3. QED  BY <1>1, <1>2

LEMMA SaveRowKeepsStarts ==
  ASSUME StartInv, RoundId # {},
         NEW h \in Handlers, SaveRow(h)
  PROVE  StartInv'
<1>1. PICK row \in Row :
        /\ handlers[h].rows = <<row>> /\ row.status = "active"
        /\ Exists =>
             IF NoneOpen(rounds) THEN row = FirstToOpen(rounds)
             ELSE \/ row \in rounds
                  \/ row.id = NewRow /\ \E r \in rounds : r.title = row.title
  BY DEF SaveRow, StartInv, StartsHold, HeldBy
<1>2. /\ handlers[h].step = "save" /\ UNCHANGED <<tournament, crashes>>
      /\ IF CanSave(rounds, row)
         THEN rounds' = Saved(rounds, row) /\ Continue(h, <<>>)
         ELSE rounds' = rounds /\ Goes(h, Idle)
  BY <1>1 DEF SaveRow
<1>3. PICK state : state = IF CanSave(rounds, row) THEN Return(h) ELSE Idle
  OBVIOUS
<1>a. state.step \in {"idle", "selectToFinish"}
  BY <1>3 DEF Return, Idle
<1>4. handlers' = [handlers EXCEPT ![h] = state]
  BY <1>2, <1>3 DEF Continue, Goes
<1>5. CASE rounds' = rounds /\ (rounds # {} \/ ~Exists)
  BY <1>2, <1>a, <1>4, <1>5, NothingToSave
<1>6. CASE ~CanSave(rounds, row)
  BY <1>2, <1>5, <1>6 DEF CanSave
<1>7. CASE CanSave(rounds, row) /\ ~NoneOpen(rounds)
  <2>1. Exists /\ row \in rounds
    <3>1. \A r \in rounds : r.id # NewRow
      BY RequestsAssumption DEF StartInv, RoundsAre
    <3>2. QED  BY <1>1, <1>7, <3>1 DEF CanSave
  <2>2. row.id # NewRow
    BY RequestsAssumption, <2>1 DEF StartInv, RoundsAre
  <2>3. rounds' = {r \in rounds : r.id # row.id} \cup {row}
    BY <1>2, <1>7, <2>2 DEF Saved
  <2>4. rounds' = rounds
    BY <2>1, <2>3 DEF StartInv, RoundsAre, Ordered
  <2>5. QED  BY <1>5, <2>1, <2>4
<1>8. CASE CanSave(rounds, row) /\ NoneOpen(rounds)
  <2>1. Exists /\ row = FirstToOpen(rounds) /\ rounds' = Saved(rounds, row)
    BY <1>1, <1>2, <1>8 DEF CanSave
  <2>2. rounds # {} => Listing(rounds)[1] \in rounds
    BY RowsToOpenAre DEF StartInv, RoundsAre
  <2>3. /\ RoundsAre' /\ ~NoneOpen(rounds)' /\ rounds' # {}
        /\ \/ row \in rounds'
           \/ row.id = NewRow /\ \E r \in rounds' : r.title = row.title
    BY <1>1, <1>8, <2>1, <2>2, FirstSaveOpens
  <2>4. /\ handlers'[h] = state
        /\ \A g \in Handlers : g # h => handlers'[g] = handlers[g]
        /\ handlers' = [g \in Handlers |-> handlers'[g]]
    BY <1>4 DEF StartInv, StartsHold
  <2>5. ASSUME NEW g \in Handlers
        PROVE  handlers'[g].step \in StartSteps /\ HeldBy(handlers[g])'
    <3>1. CASE g = h
      BY <1>a, <2>4, <3>1 DEF HeldBy, StartSteps
    <3>2. CASE g # h
      <4>1. handlers'[g] = handlers[g] /\ handlers[g].step \in StartSteps /\ HeldBy(handlers[g])
        BY <2>4, <3>2 DEF StartInv, StartsHold
      <4>2. handlers[g].step = "save" => handlers[g].rows = <<row>>
        BY <1>8, <2>1, <4>1 DEF HeldBy
      <4>3. QED  BY <1>1, <2>3, <4>1, <4>2 DEF HeldBy
    <3>3. QED  BY <3>1, <3>2
  <2>6. StartsHold'
    BY <2>4, <2>5 DEF StartsHold
  <2>7. QED  BY <1>2, <2>3, <2>6 DEF StartInv, RoundIsComing, TournamentIs
<1>9. QED  BY <1>6, <1>7, <1>8

LEMMA OthersKeepStarts ==
  ASSUME StartInv,
         Tick \/ Crash \/ DeleteTournament \/ UNCHANGED vars
  PROVE  StartInv'
<1>1. ASSUME UNCHANGED <<tournament, rounds, handlers, crashes>> PROVE StartInv'
  <2>1. Exists' = Exists
    BY <1>1 DEF Exists
  <2>2. ASSUME NEW g \in Handlers PROVE HeldBy(handlers[g])'
    BY <1>1, <2>1 DEF StartInv, StartsHold, HeldBy
  <2>3. StartsHold'
    BY <1>1, <2>2 DEF StartInv, StartsHold
  <2>4. TournamentIs' /\ RoundsAre' /\ RoundIsComing'
    BY <1>1 DEF StartInv, TournamentIs, RoundsAre, RoundIsComing
  <2>5. QED  BY <1>1, <2>3, <2>4 DEF StartInv
<1>2. CASE Crash
  <2>1. /\ handlers' = [g \in Handlers |-> Idle]
        /\ crashes' = crashes + 1 /\ UNCHANGED <<rounds, tournament>>
    BY <1>2 DEF Crash
  <2>2. ASSUME NEW g \in Handlers
        PROVE  handlers'[g].step \in StartSteps /\ HeldBy(handlers[g])'
    BY <2>1 DEF Idle, HeldBy, StartSteps
  <2>3. StartsHold'
    BY <2>1, <2>2 DEF StartsHold
  <2>4. crashes' \in Nat /\ crashes' # 0
    BY <2>1 DEF StartInv
  <2>5. QED  BY <2>1, <2>3, <2>4 DEF StartInv, TournamentIs, RoundsAre, RoundIsComing
<1>3. CASE DeleteTournament
  <2>1. /\ rounds' = {} /\ UNCHANGED <<handlers, crashes>>
        /\ "status" \in DOMAIN tournament' /\ tournament'.status = "deleted"
    BY <1>3 DEF DeleteTournament
  <2>2. ~Exists'
    BY <2>1 DEF Exists, Status
  <2>3. ASSUME NEW g \in Handlers PROVE HeldBy(handlers[g])'
    BY <2>1, <2>2 DEF StartInv, StartsHold, HeldBy
  <2>4. StartsHold'
    BY <2>1, <2>3 DEF StartInv, StartsHold
  <2>5. RoundsAre'
    BY <2>1, FS_EmptySet DEF RoundsAre, Ordered, OneOpen
  <2>6. QED  BY <2>1, <2>4, <2>5 DEF StartInv, TournamentIs, RoundIsComing
<1>4. QED  BY <1>1, <1>2, <1>3 DEF Tick, vars

LEMMA PreparedStarts ==
  ASSUME IsFiniteSet(Titles), PreparedInit
  PROVE  StartInv
<1>0. RoundId \subseteq Nat /\ SortOrders \subseteq Nat /\ 0 \in SortOrders
  BY RequestsAssumption
<1>a. PICK T \in SUBSET Titles : \E id \in [T -> RoundId], s \in [T -> RoundStatus] :
        /\ \A x, y \in T : id[x] = id[y] \/ (s[x] = "active" /\ s[y] = "active") => x = y
        /\ rounds = {[id |-> id[x], title |-> x, status |-> s[x], sort_order |-> 0] : x \in T}
  BY DEF PreparedInit
<1>1. PICK id \in [T -> RoundId], s \in [T -> RoundStatus] :
        /\ \A x, y \in T : id[x] = id[y] \/ (s[x] = "active" /\ s[y] = "active") => x = y
        /\ rounds = {[id |-> id[x], title |-> x, status |-> s[x], sort_order |-> 0] : x \in T}
  BY <1>a
<1>2. IsFiniteSet(rounds)
  <2> DEFINE row(x) == [id |-> id[x], title |-> x, status |-> s[x], sort_order |-> 0]
             rowOf == [x \in T |-> row(x)]
  <2>1. IsFiniteSet(T)
    BY FS_Subset
  <2>2. rowOf \in Surjection(T, rounds)
    BY <1>1 DEF Surjection
  <2>3. QED  BY <2>1, <2>2, FS_Surjection
<1>3. \A r \in rounds : r \in Row /\ r.id \in RoundId
  BY <1>0, <1>1 DEF Row
<1>4. \A r1, r2 \in rounds :
        r1.id = r2.id \/ (r1.status = "active" /\ r2.status = "active") => r1 = r2
  <2>1. ASSUME NEW r1 \in rounds, NEW r2 \in rounds,
               r1.id = r2.id \/ (r1.status = "active" /\ r2.status = "active")
        PROVE  r1 = r2
    <3>1. PICK x \in T : r1 = [id |-> id[x], title |-> x, status |-> s[x], sort_order |-> 0]
      BY <1>1
    <3>2. PICK y \in T : r2 = [id |-> id[y], title |-> y, status |-> s[y], sort_order |-> 0]
      BY <1>1
    <3>3. x = y
      BY <1>1, <2>1, <3>1, <3>2
    <3>4. QED  BY <3>1, <3>2, <3>3
  <2>2. QED  BY <2>1
<1>5. RoundsAre
  BY <1>0, <1>2, <1>3, <1>4 DEF RoundsAre, Ordered, OneOpen, Row
<1>6. StartsHold
  BY DEF PreparedInit, StartsHold, HeldBy, StartSteps, Idle
<1>7. TournamentIs /\ crashes \in Nat /\ RoundIsComing
  BY DEF PreparedInit, TournamentIs, RoundIsComing
<1>8. QED  BY <1>5, <1>6, <1>7 DEF StartInv

LEMMA AlwaysStartInv ==
  ASSUME IsFiniteSet(Titles), RoundId # {}, NoRoundRequests
  PROVE  PreparedSpec => []StartInv
<1>1. PreparedInit => StartInv
  BY PreparedStarts
<1>2. StartInv /\ [Next]_vars => StartInv'
  <2> SUFFICES ASSUME StartInv, [Next]_vars PROVE StartInv'
    OBVIOUS
  <2>1. ASSUME Next PROVE StartInv'
    BY <2>1, StartsStep, BeginsKeepStarts, WriteStatusKeepsStarts, WriteDatesKeepsStarts,
       FindRoundsKeepsStarts, SaveRowKeepsStarts, OthersKeepStarts
  <2>2. QED  BY <2>1, OthersKeepStarts
<1>3. QED  BY <1>1, <1>2, PTL DEF PreparedSpec

(* Starts, however many overlap, with the timer's, with changes of dates, with *)
(* deletions and with crashes, open one round at most, where no request is     *)
(* about a round or renames a tournament: those that find nothing open all     *)
(* decide on the same row, and those that come later find it open              *)
(* (activateFirstRound, tournaments.service.ts).  A name makes the difference: *)
(* syncRoundsAfterTournamentUpdate gives the default round another title, so   *)
(* that the unique index lets a second one in (LifecycleRenamedRound.cfg).     *)
THEOREM StartsOpenOneRound ==
  ASSUME IsFiniteSet(Titles), RoundId # {}, NoRoundRequests
  PROVE  PreparedSpec => []AtMostOneActiveRound
<1>1. StartInv => AtMostOneActiveRound
  BY DEF StartInv, RoundsAre, OneOpen, AtMostOneActiveRound
<1>2. QED  BY <1>1, AlwaysStartInv, PTL

(* Under the same requests, once they are over and the process never died, a   *)
(* tournament that runs has a round: of two starts that both insert the default round,    *)
(* the one the unique title turns away has the other's.                        *)
THEOREM StartsLeaveARound ==
  ASSUME IsFiniteSet(Titles), RoundId # {}, NoRoundRequests
  PROVE  PreparedSpec => []RunningHasARound
<1>1. StartInv => RunningHasARound
  <2> SUFFICES ASSUME StartInv, tournament.status = "running", InFlight = {},
                      crashes = 0, rounds = {}
               PROVE  FALSE
    BY DEF RunningHasARound
  <2>1. PICK h \in Handlers : handlers[h].step \in {"findRounds", "save"}
    BY DEF StartInv, RoundIsComing
  <2>2. handlers[h] # Idle
    BY <2>1 DEF Idle
  <2>3. QED  BY <2>2 DEF InFlight
<1>2. QED  BY <1>1, AlwaysStartInv, PTL

(* The place of a round in a listing is its rank.                            *)
LEMMA ListedByRank ==
  ASSUME NEW rs, Ordered(rs), NEW i \in 1 .. Cardinality(rs)
  PROVE  Listing(rs)[i] \in rs /\ Rank(rs, Listing(rs)[i]) = i
<1>1. PICK list : list = Listing(rs)
  OBVIOUS
<1> DEFINE n == Cardinality(rs)
           earlier == Below(rs, list[i])
           f == [j \in 1 .. i - 1 |-> list[j]]
<1>2. /\ n \in Nat /\ list \in [1 .. n -> rs]
      /\ \A j, k \in 1 .. n : j < k => Before(list[j], list[k])
      /\ \A r \in rs : \E j \in 1 .. n : list[j] = r
  BY <1>1, ListingIs, ListingHasEvery
<1>3. f \in [1 .. i - 1 -> earlier]
  BY <1>2 DEF Below
<1>4. \A j, k \in 1 .. i - 1 : j # k => f[j] # f[k]
  <2> SUFFICES ASSUME NEW j \in 1 .. i - 1, NEW k \in 1 .. i - 1, j # k PROVE list[j] # list[k]
    OBVIOUS
  <2>1. j \in 1 .. n /\ k \in 1 .. n /\ (j < k \/ k < j)
    BY <1>2
  <2>2. QED  BY <1>2, <2>1, BeforeIsAnOrder
<1>5. \A r \in earlier : \E j \in 1 .. i - 1 : f[j] = r
  <2> SUFFICES ASSUME NEW r \in rs, Before(r, list[i]) PROVE \E j \in 1 .. i - 1 : f[j] = r
    BY DEF Below
  <2>1. PICK j \in 1 .. n : list[j] = r
    BY <1>2
  <2>2. j < i \/ j = i \/ i < j
    BY <1>2
  <2>3. ~(j = i) /\ ~(i < j)
    BY <1>2, <2>1, BeforeIsAnOrder
  <2>4. j \in 1 .. i - 1
    BY <1>2, <2>2, <2>3
  <2>5. QED  BY <2>1, <2>4
<1> HIDE DEF f
<1>6. f \in Surjection(1 .. i - 1, earlier) /\ f \in Injection(1 .. i - 1, earlier)
  BY <1>3, <1>4, <1>5 DEF Surjection, Injection, IsInjective
<1>7. IsFiniteSet(1 .. i - 1) /\ Cardinality(1 .. i - 1) = i - 1
  <2>1. i \in Int /\ 1 <= i
    BY <1>2
  <2>2. QED  BY <2>1, FS_Interval
<1>8. Cardinality(earlier) = i - 1
  BY <1>6, <1>7, FS_Surjection
<1>9. i - 1 + 1 = i
  BY <1>2
<1>10. QED  BY <1>1, <1>2, <1>8, <1>9 DEF Rank

LEMMA ListingByRank ==
  ASSUME NEW rs, Ordered(rs), NEW r \in rs
  PROVE  Listing(rs)[Rank(rs, r)] = r
BY ListingHasEvery, ListedByRank

(* One round more moves up those that it comes before.                       *)
LEMMA RankWithOneMore ==
  ASSUME NEW rs, NEW x, x \notin rs, Ordered(rs \cup {x}), NEW r \in rs
  PROVE  Rank(rs \cup {x}, r) = IF Before(x, r) THEN Rank(rs, r) + 1 ELSE Rank(rs, r)
<1>1. IsFiniteSet(Below(rs, r))
  BY FS_Subset DEF Below, Ordered
<1>2. Cardinality(Below(rs, r)) \in Nat
  BY <1>1, FS_CardinalityType
<1>3. CASE Before(x, r)
  <2>1. Below(rs \cup {x}, r) = Below(rs, r) \cup {x} /\ x \notin Below(rs, r)
    BY <1>3 DEF Below
  <2>2. Cardinality(Below(rs \cup {x}, r)) = Cardinality(Below(rs, r)) + 1
    BY <1>1, <2>1, FS_AddElement
  <2>3. QED  BY <1>2, <1>3, <2>2 DEF Rank
<1>4. CASE ~Before(x, r)
  <2>1. Below(rs \cup {x}, r) = Below(rs, r)
    BY <1>4 DEF Below
  <2>2. QED  BY <1>4, <2>1 DEF Rank
<1>5. QED  BY <1>3, <1>4

LEMMA OrderedWithOneLess ==
  ASSUME NEW rs, NEW x, x \notin rs, Ordered(rs \cup {x})
  PROVE  Ordered(rs) /\ Cardinality(rs \cup {x}) = Cardinality(rs) + 1 /\ Cardinality(rs) \in Nat
<1>1. IsFiniteSet(rs)
  BY FS_Subset DEF Ordered
<1>2. QED  BY <1>1, FS_AddElement, FS_CardinalityType DEF Ordered

LEMMA ListingWithOneMore ==
  ASSUME NEW rs, NEW x, x \notin rs, Ordered(rs \cup {x})
  PROVE  /\ Rank(rs \cup {x}, x) \in 1 .. Cardinality(rs) + 1
         /\ \A i \in 1 .. Cardinality(rs) + 1 :
              Listing(rs \cup {x})[i] =
                IF i < Rank(rs \cup {x}, x) THEN Listing(rs)[i]
                ELSE IF i = Rank(rs \cup {x}, x) THEN x ELSE Listing(rs)[i - 1]
<1> DEFINE all == rs \cup {x}
           n == Cardinality(rs)
           k == Rank(all, x)
<1>1. Ordered(rs) /\ Cardinality(all) = n + 1 /\ n \in Nat
  BY OrderedWithOneLess
<1>2. k \in 1 .. n + 1
  BY <1>1, RanksAreInRange
<1>3. ASSUME NEW i \in 1 .. n + 1
      PROVE  Listing(all)[i] =
               IF i < k THEN Listing(rs)[i]
               ELSE IF i = k THEN x ELSE Listing(rs)[i - 1]
  <2>1. PICK r \in all : r = Listing(all)[i] /\ Rank(all, r) = i
    BY <1>1, ListedByRank
  <2>2. CASE r = x
    BY <2>1, <2>2
  <2>3. CASE r # x
    <3>1. r \in rs /\ Rank(rs, r) \in 1 .. n /\ Listing(rs)[Rank(rs, r)] = r
      BY <1>1, <2>3, ListingByRank, RanksAreInRange
    <3>2. i = IF Before(x, r) THEN Rank(rs, r) + 1 ELSE Rank(rs, r)
      BY <2>1, <3>1, RankWithOneMore
    <3>3. CASE Before(x, r)
      <4>1. k < i
        BY <2>1, <3>3, RanksGrow
      <4>2. Rank(rs, r) = i - 1 /\ ~(i < k) /\ i # k
        BY <1>2, <3>1, <3>2, <3>3, <4>1
      <4>3. QED  BY <2>1, <3>1, <4>2
    <3>4. CASE ~Before(x, r)
      <4>1. Before(r, x)
        BY <2>3, <3>4, BeforeIsAnOrder
      <4>2. i < k
        BY <2>1, <4>1, RanksGrow
      <4>3. QED  BY <2>1, <3>1, <3>2, <3>4, <4>2
    <3>5. QED  BY <3>3, <3>4
  <2>4. QED  BY <2>2, <2>3
<1>4. QED  BY <1>2, <1>3
-----------------------------------------------------------------------------
(* Handlers one at a time                                                    *)

StatusList(rs) == Statuses(Listing(rs))

\* Rows that can be listed, with statuses of rounds.
Listable(rs) == Ordered(rs) /\ \A r \in rs : r.status \in RoundStatus

LEMMA SerialLists ==
  ASSUME NEW s, NEW k, NEW e
  PROVE  /\ Lifecycle!InsertAt(s, k, e) = InsertAt(s, k, e)
         /\ Lifecycle!RemoveAt(s, k) = RemoveAt(s, k)
         /\ Lifecycle!ReplaceAt(s, k, e) = ReplaceAt(s, k, e)
BY DEF Lifecycle!InsertAt, InsertAt, Lifecycle!RemoveAt, RemoveAt, Lifecycle!ReplaceAt, ReplaceAt

LEMMA StatusListIs ==
  ASSUME NEW rs, Listable(rs)
  PROVE  /\ Cardinality(rs) \in Nat /\ StatusList(rs) \in Seq(RoundStatus)
         /\ Len(StatusList(rs)) = Cardinality(rs) /\ DOMAIN StatusList(rs) = 1 .. Cardinality(rs)
         /\ \A i \in 1 .. Cardinality(rs) : StatusList(rs)[i] = Listing(rs)[i].status
<1>1. PICK list : list = Listing(rs)
  OBVIOUS
<1> DEFINE n == Cardinality(rs)
<1>2. n \in Nat /\ list \in [1 .. n -> rs]
  BY <1>1, ListingIs DEF Listable
<1>3. StatusList(rs) = [i \in 1 .. n |-> list[i].status]
  BY <1>1, <1>2 DEF StatusList, Statuses
<1>4. \A i \in 1 .. n : list[i].status \in RoundStatus
  BY <1>2 DEF Listable
<1>5. QED  BY <1>1, <1>2, <1>3, <1>4

(* A row that is added or taken away is a status inserted or removed.        *)
LEMMA OneMoreStatus ==
  ASSUME NEW rs, NEW x, x \notin rs, Listable(rs \cup {x})
  PROVE  /\ Listable(rs)
         /\ Rank(rs \cup {x}, x) \in 1 .. Len(StatusList(rs)) + 1
         /\ Len(StatusList(rs \cup {x})) = Len(StatusList(rs)) + 1
         /\ StatusList(rs \cup {x}) = InsertAt(StatusList(rs), Rank(rs \cup {x}, x), x.status)
         /\ StatusList(rs) = RemoveAt(StatusList(rs \cup {x}), Rank(rs \cup {x}, x))
<1> DEFINE S == RoundStatus
           n == Cardinality(rs)
<1>1. PICK k : k = Rank(rs \cup {x}, x)
  OBVIOUS
<1>2. PICK old, new : old = StatusList(rs) /\ new = StatusList(rs \cup {x})
  OBVIOUS
<1>3. Listable(rs) /\ n \in Nat /\ Cardinality(rs \cup {x}) = n + 1 /\ x.status \in S
  BY OrderedWithOneLess DEF Listable
<1>4. /\ old \in Seq(S) /\ Len(old) = n /\ new \in Seq(S) /\ Len(new) = n + 1
      /\ \A i \in 1 .. n : old[i] = Listing(rs)[i].status
      /\ \A i \in 1 .. n + 1 : new[i] = Listing(rs \cup {x})[i].status
  BY <1>2, <1>3, StatusListIs
<1>5. /\ k \in 1 .. n + 1
      /\ \A i \in 1 .. n + 1 :
           Listing(rs \cup {x})[i] =
             IF i < k THEN Listing(rs)[i]
             ELSE IF i = k THEN x ELSE Listing(rs)[i - 1]
  BY <1>1, ListingWithOneMore DEF Listable
<1>6. \A i \in 1 .. n + 1 :
        new[i] = IF i < k THEN old[i] ELSE IF i = k THEN x.status ELSE old[i - 1]
  <2> SUFFICES ASSUME NEW i \in 1 .. n + 1
               PROVE  new[i] = IF i < k THEN old[i] ELSE IF i = k THEN x.status ELSE old[i - 1]
    OBVIOUS
  <2>1. i < k => i \in 1 .. n
    BY <1>3, <1>5
  <2>2. ~(i < k) /\ i # k => i - 1 \in 1 .. n
    BY <1>3, <1>5
  <2>3. QED  BY <1>4, <1>5, <2>1, <2>2
<1>7. new = InsertAt(old, k, x.status)
  <2>1. PICK ins : ins = InsertAt(old, k, x.status)
    OBVIOUS
  <2>2. /\ ins \in Seq(S) /\ Len(ins) = n + 1
        /\ \A i \in 1 .. n + 1 :
             ins[i] = IF i < k THEN old[i] ELSE IF i = k THEN x.status ELSE old[i - 1]
    <3>1. Len(old) + 1 = n + 1 /\ k \in 1 .. Len(old) + 1
      BY <1>4, <1>5
    <3>2. /\ ins \in Seq(S) /\ Len(ins) = Len(old) + 1
          /\ \A i \in 1 .. Len(old) + 1 :
               ins[i] = IF i < k THEN old[i] ELSE IF i = k THEN x.status ELSE old[i - 1]
      <4>1. PICK e \in S : e = x.status
        BY <1>3
      <4>2. ins = InsertAt(old, k, e)
        BY <2>1, <4>1
      <4> HIDE DEF S
      <4>3. /\ ins \in Seq(S) /\ Len(ins) = Len(old) + 1
            /\ \A i \in 1 .. Len(old) + 1 :
                 ins[i] = IF i < k THEN old[i] ELSE IF i = k THEN e ELSE old[i - 1]
        <5>1. old \in Seq(S) /\ k \in 1 .. Len(old) + 1 /\ e \in S
          BY <1>4, <3>1
        <5>2. InsertAt(old, k, e) \in Seq(S) /\ Len(InsertAt(old, k, e)) = Len(old) + 1
          BY <5>1, InsertAtElements
        <5>3. \A i \in 1 .. Len(old) + 1 :
                InsertAt(old, k, e)[i] =
                  IF i < k THEN old[i] ELSE IF i = k THEN e ELSE old[i - 1]
          BY <5>1, InsertAtElements
        <5>4. QED  BY <4>2, <5>2, <5>3
      <4>4. QED  BY <4>1, <4>3
    <3>3. QED  BY <3>1, <3>2
  <2>3. \A i \in 1 .. Len(ins) : ins[i] = new[i]
    BY <1>6, <2>2
  <2>4. ins = new
    BY <1>4, <2>2, <2>3, SeqEqual
  <2>5. QED  BY <2>1, <2>4
<1>8. old = RemoveAt(new, k)
  <2>1. PICK rem : rem = RemoveAt(new, k)
    OBVIOUS
  <2>2. n + 1 - 1 = n
    BY <1>3
  <2>3. /\ rem \in Seq(S) /\ Len(rem) = n
        /\ \A i \in 1 .. n : rem[i] = IF i < k THEN new[i] ELSE new[i + 1]
    <3>1. Len(new) - 1 = n /\ k \in 1 .. Len(new)
      BY <1>4, <1>5, <2>2
    <3>2. /\ rem \in Seq(S) /\ Len(rem) = Len(new) - 1
          /\ \A i \in 1 .. Len(new) - 1 : rem[i] = IF i < k THEN new[i] ELSE new[i + 1]
      BY <1>4, <2>1, <3>1, RemoveAtElements
    <3>3. QED  BY <3>1, <3>2
  <2>4. ASSUME NEW i \in 1 .. n PROVE rem[i] = old[i]
    <3>1. i \in 1 .. n + 1 /\ i + 1 \in 1 .. n + 1 /\ i + 1 - 1 = i
      BY <1>3
    <3>2. CASE i < k
      BY <1>6, <2>3, <3>1, <3>2
    <3>3. CASE ~(i < k)
      <4>1. ~(i + 1 < k) /\ i + 1 # k
        BY <1>3, <1>5, <3>3
      <4>2. QED  BY <1>6, <2>3, <3>1, <3>3, <4>1
    <3>4. QED  BY <3>2, <3>3
  <2>5. rem = old
    BY <1>4, <2>3, <2>4, SeqEqual
  <2>6. QED  BY <2>1, <2>5
<1>9. QED  BY <1>1, <1>2, <1>3, <1>4, <1>5, <1>7, <1>8

(* A row in the place of another: its status moves with it.                  *)
LEMMA MovedStatus ==
  ASSUME NEW rs, NEW r, r \notin rs, NEW row, row \notin rs,
         Listable(rs \cup {r}), Listable(rs \cup {row})
  PROVE  LET i == Rank(rs \cup {r}, r)
             k == Rank(rs \cup {row}, row)
         IN  /\ i \in DOMAIN StatusList(rs \cup {r}) /\ k \in DOMAIN StatusList(rs \cup {r})
             /\ StatusList(rs \cup {r})[i] = r.status
             /\ RemoveAt(StatusList(rs \cup {r}), i) = StatusList(rs)
             /\ StatusList(rs \cup {row}) =
                  InsertAt(RemoveAt(StatusList(rs \cup {r}), i), k, row.status)
<1>1. PICK i, k : i = Rank(rs \cup {r}, r) /\ k = Rank(rs \cup {row}, row)
  OBVIOUS
<1>2. PICK old, new : old = StatusList(rs \cup {r}) /\ new = StatusList(rs \cup {row})
  OBVIOUS
<1>3. /\ Listable(rs) /\ i \in 1 .. Len(StatusList(rs)) + 1 /\ Len(old) = Len(StatusList(rs)) + 1
      /\ StatusList(rs) = RemoveAt(old, i)
  BY <1>1, <1>2, OneMoreStatus
<1>4. k \in 1 .. Len(StatusList(rs)) + 1 /\ new = InsertAt(StatusList(rs), k, row.status)
  BY <1>1, <1>2, OneMoreStatus
<1>5. DOMAIN old = 1 .. Len(old) /\ Len(old) = Cardinality(rs \cup {r})
  BY <1>2, StatusListIs
<1>6. old[i] = r.status
  <2>1. Listing(rs \cup {r})[i] = r
    BY <1>1, ListingByRank DEF Listable
  <2>2. QED  BY <1>2, <1>3, <1>5, <2>1, StatusListIs
<1>7. QED  BY <1>1, <1>2, <1>3, <1>4, <1>5, <1>6

(* A row that keeps its place: only its entry of the listing changes.        *)
LEMMA RowInPlace ==
  ASSUME NEW rs, NEW r, r \notin rs, NEW row, row \notin rs,
         Listable(rs \cup {r}), Listable(rs \cup {row}),
         row.id = r.id, row.sort_order = r.sort_order
  PROVE  /\ Cardinality(rs \cup {row}) = Cardinality(rs \cup {r})
         /\ Listing(rs \cup {row}) =
              [Listing(rs \cup {r}) EXCEPT ![Rank(rs \cup {r}, r)] = row]
         /\ StatusList(rs \cup {row}) =
              ReplaceAt(StatusList(rs \cup {r}), Rank(rs \cup {r}, r), row.status)
<1> DEFINE n == Cardinality(rs)
<1>1. PICK i : i = Rank(rs \cup {r}, r)
  OBVIOUS
<1>2. Rank(rs \cup {row}, row) = i
  <2>1. Below(rs \cup {row}, row) = Below(rs \cup {r}, r)
    <3>1. ~Before(row, row) /\ ~Before(r, r)
      BY BeforeIsAnOrder DEF Listable
    <3>2. \A s \in rs : Before(s, row) <=> Before(s, r)
      BY DEF Before
    <3>3. QED  BY <3>1, <3>2 DEF Below
  <2>2. QED  BY <1>1, <2>1 DEF Rank
<1>3. n \in Nat /\ Cardinality(rs \cup {row}) = n + 1 /\ Cardinality(rs \cup {r}) = n + 1
  BY OrderedWithOneLess DEF Listable
<1>4. PICK old, new : old = Listing(rs \cup {r}) /\ new = Listing(rs \cup {row})
  OBVIOUS
<1>5. DOMAIN old = 1 .. n + 1 /\ DOMAIN new = 1 .. n + 1 /\ new \in [1 .. n + 1 -> rs \cup {row}]
      /\ old \in [1 .. n + 1 -> rs \cup {r}]
  BY <1>3, <1>4, ListingIs DEF Listable
<1>6. i \in 1 .. n + 1
  BY <1>1, <1>3, RanksAreInRange DEF Listable
<1>7. \A j \in 1 .. n + 1 : new[j] = IF j = i THEN row ELSE old[j]
  <2> SUFFICES ASSUME NEW j \in 1 .. n + 1 PROVE new[j] = IF j = i THEN row ELSE old[j]
    OBVIOUS
  <2>1. new[j] = IF j < i THEN Listing(rs)[j]
                 ELSE IF j = i THEN row ELSE Listing(rs)[j - 1]
    <3>1. Ordered(rs \cup {row})
      BY DEF Listable
    <3>2. Listing(rs \cup {row})[j] =
            IF j < Rank(rs \cup {row}, row) THEN Listing(rs)[j]
            ELSE IF j = Rank(rs \cup {row}, row) THEN row ELSE Listing(rs)[j - 1]
      BY <3>1, ListingWithOneMore
    <3>3. QED  BY <1>2, <1>4, <3>2
  <2>2. old[j] = IF j < i THEN Listing(rs)[j]
                 ELSE IF j = i THEN r ELSE Listing(rs)[j - 1]
    <3>1. Ordered(rs \cup {r})
      BY DEF Listable
    <3>2. Listing(rs \cup {r})[j] =
            IF j < Rank(rs \cup {r}, r) THEN Listing(rs)[j]
            ELSE IF j = Rank(rs \cup {r}, r) THEN r ELSE Listing(rs)[j - 1]
      BY <3>1, ListingWithOneMore
    <3>3. QED  BY <1>1, <1>4, <3>2
  <2>3. ~(j < i /\ j = i)
    BY <1>3, <1>6
  <2>4. QED  BY <2>1, <2>2, <2>3
<1>8. new = [old EXCEPT ![i] = row]
  BY <1>5, <1>6, <1>7
<1>9. StatusList(rs \cup {row}) = ReplaceAt(StatusList(rs \cup {r}), i, row.status)
  <2>1. /\ StatusList(rs \cup {row}) = [j \in 1 .. n + 1 |-> new[j].status]
        /\ StatusList(rs \cup {r}) = [j \in 1 .. n + 1 |-> old[j].status]
    BY <1>4, <1>5 DEF StatusList, Statuses
  <2>2. ReplaceAt(StatusList(rs \cup {r}), i, row.status) =
          [j \in 1 .. n + 1 |-> IF j = i THEN row.status ELSE old[j].status]
    BY <1>6, <2>1 DEF ReplaceAt
  <2>3. \A j \in 1 .. n + 1 : new[j].status = IF j = i THEN row.status ELSE old[j].status
    BY <1>7
  <2>4. QED  BY <2>1, <2>2, <2>3
<1>10. QED  BY <1>1, <1>3, <1>4, <1>8, <1>9

\* The rows of a tournament as the database keeps them: ids and titles of their own.
Titled(rs) ==
  /\ Ordered(rs)
  /\ \A r \in rs : r \in Row /\ r.id \in RoundId
  /\ \A r, s \in rs : r.title = s.title => r = s

\* What a save checks of the titles, and how it writes a row that the table has.
TitleFree(rs, row) == \A r \in rs : r.id # row.id => r.title # row.title
Put(rs, row) == {r \in rs : r.id # row.id} \cup {row}

\* No more ids than there may be rows are ever needed.
EnoughIds ==
  /\ IsFiniteSet(Titles)
  /\ IsFiniteSet(RoundId) => Cardinality(Titles) <= Cardinality(RoundId)

LEMMA TitledIsListable == ASSUME NEW rs, Titled(rs) PROVE Listable(rs)
BY DEF Titled, Listable, Row

(* There is room for a title that is not taken: an id, and a round.          *)
LEMMA RoomForATitle ==
  ASSUME EnoughIds, NEW rs, Titled(rs), NEW title \in Titles, \A r \in rs : r.title # title
  PROVE  /\ Cardinality(rs) < Cardinality(Titles)
         /\ \E i \in RoundId : \A r \in rs : r.id # i
<1> DEFINE others == Titles \ {title}
<1>1. /\ IsFiniteSet(others) /\ Cardinality(others) = Cardinality(Titles) - 1
      /\ Cardinality(Titles) \in Nat /\ Cardinality(others) \in Nat
  BY FS_RemoveElement, FS_CardinalityType DEF EnoughIds
<1>2. Cardinality(rs) \in Nat /\ Cardinality(rs) <= Cardinality(others)
  <2> DEFINE f == [r \in rs |-> r.title]
  <2>1. f \in [rs -> others]
    BY DEF Titled, Row
  <2>2. f \in Injection(rs, others)
    BY <2>1 DEF Injection, IsInjective, Titled
  <2> HIDE DEF f
  <2>3. IsFiniteSet(rs) /\ Cardinality(rs) <= Cardinality(others)
    BY <1>1, <2>2, FS_Injection
  <2>4. QED  BY <2>3, FS_CardinalityType
<1>3. ASSUME \A i \in RoundId : \E r \in rs : r.id = i PROVE FALSE
  <2> DEFINE rowOf == [i \in RoundId |-> CHOOSE r \in rs : r.id = i]
  <2>1. \A i \in RoundId : rowOf[i] \in rs /\ rowOf[i].id = i
    BY <1>3
  <2>2. rowOf \in [RoundId -> rs]
    BY <2>1
  <2> HIDE DEF rowOf
  <2>3. rowOf \in Injection(RoundId, rs)
    BY <2>1, <2>2 DEF Injection, IsInjective
  <2>4. IsFiniteSet(rs)
    BY DEF Titled, Ordered
  <2>5. IsFiniteSet(RoundId) /\ Cardinality(RoundId) <= Cardinality(rs)
    BY <2>3, <2>4, FS_Injection
  <2>6. Cardinality(RoundId) \in Nat /\ Cardinality(Titles) <= Cardinality(RoundId)
    BY <2>5, FS_CardinalityType DEF EnoughIds
  <2>7. QED  BY <1>1, <1>2, <2>5, <2>6
<1>4. QED  BY <1>1, <1>2, <1>3

(* Saving a row that is new.                                                 *)
LEMMA NewRowSaved ==
  ASSUME NEW rs, Titled(rs), NEW row \in Row,
         \A r \in rs : r.title # row.title,
         NEW id \in RoundId, \A r \in rs : r.id # id
  PROVE  LET new == [row EXCEPT !.id = id]
         IN  new \notin rs /\ new.status = row.status /\ Titled(rs \cup {new})
<1>1. PICK new : new = [row EXCEPT !.id = id]
  OBVIOUS
<1>2. new \in Row /\ new.id = id /\ new.title = row.title /\ new.status = row.status
  BY <1>1 DEF Row
<1>3. new \notin rs /\ IsFiniteSet(rs \cup {new})
  BY <1>2, FS_AddElement DEF Titled, Ordered
<1>4. new.id \in Nat /\ new.sort_order \in Nat
  BY RequestsAssumption, <1>2 DEF Row
<1>5. Ordered(rs \cup {new})
  BY <1>2, <1>3, <1>4 DEF Titled, Ordered
<1>6. Titled(rs \cup {new})
  BY <1>2, <1>5 DEF Titled
<1>7. QED  BY <1>1, <1>2, <1>3, <1>6

(* Saving a row that the table has.                                          *)
LEMMA OldRowSaved ==
  ASSUME NEW rs, Titled(rs), NEW r \in rs,
         NEW row \in Row, row.id = r.id, \A s \in rs : s.id # row.id => s.title # row.title
  PROVE  /\ row.id # NewRow /\ row.id \in RoundId
         /\ {s \in rs : s.id # row.id} = rs \ {r}
         /\ row \notin rs \ {r} /\ rs = (rs \ {r}) \cup {r}
         /\ Titled((rs \ {r}) \cup {row})
<1>1. row.id # NewRow /\ row.id \in RoundId
  BY RequestsAssumption DEF Titled
<1>2. {s \in rs : s.id # row.id} = rs \ {r} /\ row \notin rs \ {r} /\ rs = (rs \ {r}) \cup {r}
  BY DEF Titled, Ordered
<1>3. IsFiniteSet((rs \ {r}) \cup {row})
  BY FS_RemoveElement, FS_AddElement DEF Titled, Ordered
<1>4. row.id \in Nat /\ row.sort_order \in Nat
  BY RequestsAssumption, <1>1 DEF Row
<1>5. Ordered((rs \ {r}) \cup {row})
  BY <1>2, <1>3, <1>4 DEF Titled, Ordered
<1>6. Titled((rs \ {r}) \cup {row})
  BY <1>1, <1>2, <1>5 DEF Titled
<1>7. QED  BY <1>1, <1>2, <1>6

(* A row of the listing with another status takes the place it had.          *)
LEMMA StatusPut ==
  ASSUME NEW rs, Titled(rs),
         NEW i \in 1 .. Cardinality(rs), NEW s \in RoundStatus
  PROVE  LET row == With(Listing(rs)[i], s)
         IN  /\ row \in Row /\ row.id # NewRow /\ TitleFree(rs, row)
             /\ Titled(Put(rs, row)) /\ Cardinality(Put(rs, row)) = Cardinality(rs)
             /\ Listing(Put(rs, row)) = [Listing(rs) EXCEPT ![i] = row]
             /\ StatusList(Put(rs, row)) = ReplaceAt(StatusList(rs), i, s)
<1>1. PICK r \in rs : r = Listing(rs)[i] /\ Rank(rs, r) = i
  BY ListedByRank DEF Titled
<1>2. PICK row : row = With(r, s)
  OBVIOUS
<1>3. r \in Row
  BY DEF Titled
<1>4. /\ row \in Row /\ row.id = r.id /\ row.title = r.title /\ row.status = s
      /\ row.sort_order = r.sort_order
  BY <1>2, <1>3 DEF With, Row
<1>5. TitleFree(rs, row)
  BY <1>4 DEF Titled, TitleFree
<1>6. /\ row.id # NewRow /\ row.id \in RoundId
      /\ {q \in rs : q.id # row.id} = rs \ {r}
      /\ row \notin rs \ {r} /\ rs = (rs \ {r}) \cup {r}
      /\ Titled((rs \ {r}) \cup {row})
  BY <1>4, <1>5, OldRowSaved DEF TitleFree
<1>7. Put(rs, row) = (rs \ {r}) \cup {row}
  BY <1>6 DEF Put
<1> DEFINE B == rs \ {r}
<1>8. Listable(B \cup {r}) /\ Listable(B \cup {row}) /\ r \notin B
  BY <1>6, TitledIsListable
<1>9. /\ Cardinality(B \cup {row}) = Cardinality(B \cup {r})
      /\ Listing(B \cup {row}) =
           [Listing(B \cup {r}) EXCEPT ![Rank(B \cup {r}, r)] = row]
      /\ StatusList(B \cup {row}) =
           ReplaceAt(StatusList(B \cup {r}), Rank(B \cup {r}, r), row.status)
  <2> HIDE DEF B
  <2>1. row \notin B
    BY <1>6 DEF B
  <2>2. QED  BY <1>4, <1>8, <2>1, RowInPlace
<1>10. QED  BY <1>1, <1>2, <1>4, <1>5, <1>6, <1>7, <1>9
-----------------------------------------------------------------------------
(* The round that is open, in the table as in the serial model.              *)
LEMMA ActiveIsFirst ==
  ASSUME NEW rs, Listable(rs)
  PROVE  \/ /\ ActiveIn(Listing(rs)) = {}
            /\ Lifecycle!NoneActive(StatusList(rs)) /\ NoneOpen(rs)
         \/ \E i \in 1 .. Cardinality(rs) :
              /\ ActiveIn(Listing(rs)) = {i}
              /\ ~Lifecycle!NoneActive(StatusList(rs)) /\ Lifecycle!FirstActive(StatusList(rs)) = i
<1>1. PICK list, old, n : list = Listing(rs) /\ old = StatusList(rs) /\ n = Cardinality(rs)
  OBVIOUS
<1>2. /\ n \in Nat /\ list \in [1 .. n -> rs] /\ DOMAIN list = 1 .. n /\ DOMAIN old = 1 .. n
      /\ \A i \in 1 .. n : old[i] = list[i].status
      /\ \A i, j \in 1 .. n : i < j => Before(list[i], list[j])
      /\ \A r \in rs : \E i \in 1 .. n : list[i] = r
  BY <1>1, ListingIs, ListingHasEvery, StatusListIs DEF Listable
<1> DEFINE First(i) == old[i] = "active" /\ \A j \in 1 .. i - 1 : old[j] # "active"
<1>3. \A i \in 1 .. n : i \in ActiveIn(list) <=> First(i)
  <2> SUFFICES ASSUME NEW i \in 1 .. n PROVE i \in ActiveIn(list) <=> First(i)
    OBVIOUS
  <2>1. \A j \in 1 .. i - 1 : j \in 1 .. n
    BY <1>2
  <2>2. QED  BY <1>2, <2>1 DEF ActiveIn
<1>4. CASE NoneOpen(rs)
  <2>1. \A i \in 1 .. n : old[i] # "active"
    BY <1>2, <1>4 DEF NoneOpen
  <2>2. ActiveIn(list) = {}
    BY <1>2, <1>3, <2>1 DEF ActiveIn
  <2>3. Lifecycle!NoneActive(old)
    BY <1>2, <2>1 DEF Lifecycle!NoneActive
  <2>4. QED  BY <1>1, <1>4, <2>2, <2>3
<1>5. CASE ~NoneOpen(rs)
  <2>1. PICK open : open = {r \in rs : r.status = "active"}
    OBVIOUS
  <2>2. Ordered(open) /\ open # {}
    <3>1. IsFiniteSet(open)
      BY <2>1, FS_Subset DEF Listable, Ordered
    <3>2. QED  BY <1>5, <2>1, <3>1 DEF NoneOpen, Listable, Ordered
  <2>3. PICK first \in open : \A r \in open : r # first => Before(first, r)
    <3>1. PICK m : m = Cardinality(open)
      OBVIOUS
    <3>2. PICK l : l = Listing(open)
      OBVIOUS
    <3>3. /\ m \in Nat /\ l \in [1 .. m -> open]
          /\ \A i, j \in 1 .. m : i < j => Before(l[i], l[j])
          /\ \A r \in open : \E i \in 1 .. m : l[i] = r
      BY <2>2, <3>1, <3>2, ListingIs, ListingHasEvery
    <3>4. m # 0
      BY <2>2, <3>3
    <3>5. l[1] \in open /\ \A r \in open : r # l[1] => Before(l[1], r)
      <4>1. 1 \in 1 .. m
        BY <3>3, <3>4
      <4>2. ASSUME NEW r \in open, r # l[1] PROVE Before(l[1], r)
        <5>1. PICK j \in 1 .. m : l[j] = r
          BY <3>3
        <5>2. 1 < j
          BY <3>3, <4>2, <5>1
        <5>3. QED  BY <3>3, <4>1, <5>1, <5>2
      <4>3. QED  BY <3>3, <4>1, <4>2
    <3>6. QED  BY <3>5
  <2>4. PICK i \in 1 .. n : list[i] = first
    BY <1>2, <2>1
  <2>5. First(i)
    <3>1. old[i] = "active"
      BY <1>2, <2>1, <2>4
    <3>2. ASSUME NEW j \in 1 .. i - 1, old[j] = "active" PROVE FALSE
      <4>1. j \in 1 .. n /\ j < i
        BY <1>2
      <4>2. Before(list[j], first) /\ list[j] \in open /\ list[j] \in rs /\ first \in rs
        BY <1>2, <2>1, <2>4, <3>2, <4>1
      <4>3. ~Before(first, first)
        BY <4>2, BeforeIsAnOrder DEF Listable
      <4>4. Before(first, list[j])
        BY <2>3, <4>2, <4>3
      <4>5. QED  BY <4>2, <4>3, <4>4, BeforeIsAnOrder DEF Listable
    <3>3. QED  BY <3>1, <3>2
  <2>6. \A j \in 1 .. n : First(j) => j = i
    <3> SUFFICES ASSUME NEW j \in 1 .. n, First(j), j # i PROVE FALSE
      OBVIOUS
    <3>1. CASE j < i
      BY <1>2, <2>5, <3>1
    <3>2. CASE i < j
      BY <1>2, <2>5, <3>2
    <3>3. QED  BY <1>2, <3>1, <3>2
  <2>7. ActiveIn(list) = {i}
    <3>1. ActiveIn(list) \subseteq 1 .. n
      BY <1>2 DEF ActiveIn
    <3>2. QED
      <4> HIDE DEF First
      <4>1. QED  BY <1>3, <2>5, <2>6, <3>1
  <2>8. Lifecycle!FirstActive(old) = i
    <3>1. Lifecycle!FirstActive(old) = CHOOSE j \in 1 .. n : First(j)
      BY <1>2 DEF Lifecycle!FirstActive
    <3> HIDE DEF First
    <3>2. QED  BY <2>5, <2>6, <3>1
  <2>9. ~Lifecycle!NoneActive(old)
    BY <1>2, <2>5 DEF Lifecycle!NoneActive
  <2>10. QED  BY <1>1, <2>7, <2>8, <2>9
<1>6. QED  BY <1>4, <1>5

(* What advancing saves is what the serial model makes of the list.          *)
LEMMA RowsAdvance ==
  ASSUME NEW rs, Titled(rs), rs # {}
  PROVE  /\ \/ \E row \in Row :
                 /\ NextRows(Listing(rs)) = <<row>>
                 /\ row.id # NewRow /\ TitleFree(rs, row)
                 /\ StatusList(Put(rs, row)) = Lifecycle!NextRound(StatusList(rs))
            \/ \E a, b \in Row :
                 /\ NextRows(Listing(rs)) = <<a, b>>
                 /\ a.id # NewRow /\ TitleFree(rs, a)
                 /\ b.id # NewRow /\ TitleFree(Put(rs, a), b)
                 /\ StatusList(Put(Put(rs, a), b)) = Lifecycle!NextRound(StatusList(rs))
         /\ \/ \E row \in Row :
                 /\ PreviousRows(Listing(rs)) = <<row>>
                 /\ row.id # NewRow /\ TitleFree(rs, row)
                 /\ StatusList(Put(rs, row)) = Lifecycle!PreviousRound(StatusList(rs))
            \/ \E a, b \in Row :
                 /\ PreviousRows(Listing(rs)) = <<a, b>>
                 /\ a.id # NewRow /\ TitleFree(rs, a)
                 /\ b.id # NewRow /\ TitleFree(Put(rs, a), b)
                 /\ StatusList(Put(Put(rs, a), b)) = Lifecycle!PreviousRound(StatusList(rs))
<1> DEFINE S == RoundStatus
<1>1. PICK list, old, n : list = Listing(rs) /\ old = StatusList(rs) /\ n = Cardinality(rs)
  OBVIOUS
<1>2. /\ n \in Nat /\ n # 0 /\ list \in [1 .. n -> rs] /\ DOMAIN list = 1 .. n /\ Len(list) = n
      /\ Len(old) = n
  <2>1. n \in Nat /\ list \in [1 .. n -> rs] /\ Len(old) = n
    BY <1>1, ListingIs, StatusListIs, TitledIsListable DEF Titled
  <2>2. n # 0
    BY <1>1, FS_EmptySet DEF Titled, Ordered
  <2>3. Len(list) = n
    BY <2>1
  <2>4. QED  BY <2>1, <2>2, <2>3
<1>3. {"draft", "active", "submission_closed"} \subseteq S
  BY DEF RoundStatus
\* One row that changes its status.
<1>4. ASSUME NEW i \in 1 .. n, NEW s \in S
      PROVE  \E row \in Row :
               /\ row = With(list[i], s) /\ row.id # NewRow /\ TitleFree(rs, row)
               /\ Titled(Put(rs, row)) /\ Cardinality(Put(rs, row)) = n
               /\ Listing(Put(rs, row)) = [list EXCEPT ![i] = row]
               /\ StatusList(Put(rs, row)) = ReplaceAt(old, i, s)
  <2>1. PICK row : row = With(list[i], s)
    OBVIOUS
  <2>2. QED  BY <1>1, <2>1, StatusPut
\* And another after it, or the same once more.
<1>5. ASSUME NEW i \in 1 .. n, NEW s \in S, NEW j \in 1 .. n, NEW u \in S
      PROVE  \E a, b \in Row :
               /\ a = With(list[i], s) /\ a.id # NewRow /\ TitleFree(rs, a)
               /\ b = With(list[j], u) /\ b.id # NewRow /\ TitleFree(Put(rs, a), b)
               /\ StatusList(Put(Put(rs, a), b)) = ReplaceAt(ReplaceAt(old, i, s), j, u)
  <2>1. PICK a \in Row :
          /\ a = With(list[i], s) /\ a.id # NewRow /\ TitleFree(rs, a)
          /\ Titled(Put(rs, a)) /\ Cardinality(Put(rs, a)) = n
          /\ Listing(Put(rs, a)) = [list EXCEPT ![i] = a]
          /\ StatusList(Put(rs, a)) = ReplaceAt(old, i, s)
    BY <1>4
  <2>2. PICK l : l = [list EXCEPT ![i] = a]
    OBVIOUS
  <2>3. PICK b : b = With(l[j], u)
    OBVIOUS
  <2>4. /\ b \in Row /\ b.id # NewRow /\ TitleFree(Put(rs, a), b)
        /\ StatusList(Put(Put(rs, a), b)) = ReplaceAt(ReplaceAt(old, i, s), j, u)
    <3>1. PICK after : after = Put(rs, a)
      OBVIOUS
    <3>2. /\ Titled(after) /\ j \in 1 .. Cardinality(after)
          /\ b = With(Listing(after)[j], u)
      BY <2>1, <2>2, <2>3, <3>1
    <3>a. /\ b \in Row /\ b.id # NewRow /\ TitleFree(after, b)
          /\ StatusList(Put(after, b)) = ReplaceAt(StatusList(after), j, u)
      <4> HIDE DEF S
      <4>1. u \in RoundStatus
        BY DEF S
      <4>2. QED  BY <3>2, <4>1, StatusPut
    <3>3. QED  BY <2>1, <3>1, <3>a
  <2>5. b = With(list[j], u)
    <3>1. CASE i = j
      <4>1. l[j] = [list[i] EXCEPT !.status = s]
        BY <1>2, <2>1, <2>2, <3>1 DEF With
      <4>2. list[i] \in Row
        BY <1>2 DEF Titled
      <4>3. QED  BY <2>3, <3>1, <4>1, <4>2 DEF With, Row
    <3>2. CASE i # j
      BY <1>2, <2>2, <2>3, <3>2
    <3>3. QED  BY <3>1, <3>2
  <2>6. QED  BY <2>1, <2>4, <2>5
<1>6. CASE ActiveIn(list) = {} /\ Lifecycle!NoneActive(old)
  <2>1. /\ NextRows(list) = <<With(list[1], "active")>>
        /\ PreviousRows(list) = <<With(list[1], "active")>>
    BY <1>6 DEF NextRows, PreviousRows
  <2>2. /\ Lifecycle!NextRound(old) = ReplaceAt(old, 1, "active")
        /\ Lifecycle!PreviousRound(old) = ReplaceAt(old, 1, "active")
    BY <1>6, SerialLists DEF Lifecycle!NextRound, Lifecycle!PreviousRound
  <2>3. 1 \in 1 .. n
    BY <1>2
  <2>4. PICK row \in Row :
          /\ row = With(list[1], "active") /\ row.id # NewRow /\ TitleFree(rs, row)
          /\ StatusList(Put(rs, row)) = ReplaceAt(old, 1, "active")
    BY <1>3, <1>4, <2>3
  <2>5. QED  BY <1>1, <2>1, <2>2, <2>4
<1>7. ASSUME NEW i \in 1 .. n, ActiveIn(list) = {i}, ~Lifecycle!NoneActive(old),
             Lifecycle!FirstActive(old) = i
      PROVE  \/ \E row \in Row :
                  /\ NextRows(list) = <<row>>
                  /\ row.id # NewRow /\ TitleFree(rs, row)
                  /\ StatusList(Put(rs, row)) = Lifecycle!NextRound(old)
             \/ \E a, b \in Row :
                  /\ NextRows(list) = <<a, b>>
                  /\ a.id # NewRow /\ TitleFree(rs, a)
                  /\ b.id # NewRow /\ TitleFree(Put(rs, a), b)
                  /\ StatusList(Put(Put(rs, a), b)) = Lifecycle!NextRound(old)
  <2>0. (CHOOSE j \in ActiveIn(list) : TRUE) = i
    BY <1>7
  <2>1. CASE i = n
    <3>1. NextRows(list) = <<With(list[i], "submission_closed")>>
      BY <1>2, <1>7, <2>0, <2>1 DEF NextRows
    <3>2. Lifecycle!NextRound(old) = ReplaceAt(old, i, "submission_closed")
      BY <1>2, <1>7, <2>1, SerialLists DEF Lifecycle!NextRound
    <3>3. QED  BY <1>3, <1>4, <3>1, <3>2
  <2>2. CASE i # n
    <3>1. NextRows(list) =
            <<With(list[i], "submission_closed"), With(list[i + 1], "active")>>
      BY <1>2, <1>7, <2>0, <2>2 DEF NextRows
    <3>2. i < Len(old) /\ i + 1 \in 1 .. n
      BY <1>2, <2>2
    <3>3. Lifecycle!NextRound(old) = ReplaceAt(ReplaceAt(old, i, "submission_closed"), i + 1, "active")
      BY <1>7, <3>2, SerialLists DEF Lifecycle!NextRound
    <3>4. QED  BY <1>3, <1>5, <3>1, <3>2, <3>3
  <2>3. QED  BY <2>1, <2>2
<1>8. ASSUME NEW i \in 1 .. n, ActiveIn(list) = {i}, ~Lifecycle!NoneActive(old),
             Lifecycle!FirstActive(old) = i
      PROVE  \E a, b \in Row :
               /\ PreviousRows(list) = <<a, b>>
               /\ a.id # NewRow /\ TitleFree(rs, a)
               /\ b.id # NewRow /\ TitleFree(Put(rs, a), b)
               /\ StatusList(Put(Put(rs, a), b)) = Lifecycle!PreviousRound(old)
  <2>0. (CHOOSE j \in ActiveIn(list) : TRUE) = i
    BY <1>8
  <2>1. PICK k \in 1 .. n : k = IF i = 1 THEN 1 ELSE i - 1
    BY <1>2
  <2>2. PreviousRows(list) =
          <<With(list[i], "draft"), With(list[k], "active")>>
    BY <1>8, <2>0, <2>1 DEF PreviousRows
  <2>3. Lifecycle!PreviousRound(old) = ReplaceAt(ReplaceAt(old, i, "draft"), k, "active")
    BY <1>8, <2>1, SerialLists DEF Lifecycle!PreviousRound
  <2>4. QED  BY <1>3, <1>5, <2>2, <2>3
<1>9. \/ ActiveIn(list) = {} /\ Lifecycle!NoneActive(old)
      \/ \E i \in 1 .. n : /\ ActiveIn(list) = {i}
                           /\ ~Lifecycle!NoneActive(old) /\ Lifecycle!FirstActive(old) = i
  BY <1>1, ActiveIsFirst, TitledIsListable
<1>10. QED  BY <1>1, <1>6, <1>7, <1>8, <1>9

(* What a start saves is what the serial model makes of the list.            *)
LEMMA RowsOpen ==
  ASSUME NEW rs, Titled(rs), Exists
  PROVE  \/ /\ RowsToOpen(Listing(rs)) = <<>>
            /\ Lifecycle!ActivateFirstRound(StatusList(rs)) = StatusList(rs)
         \/ /\ rs = {} /\ RowsToOpen(Listing(rs)) = <<DefaultRound>>
            /\ Lifecycle!ActivateFirstRound(StatusList(rs)) = <<"active">>
         \/ \E row \in Row :
              /\ RowsToOpen(Listing(rs)) = <<row>>
              /\ row.id # NewRow /\ TitleFree(rs, row)
              /\ StatusList(Put(rs, row)) = Lifecycle!ActivateFirstRound(StatusList(rs))
<1>1. PICK list, old, n : list = Listing(rs) /\ old = StatusList(rs) /\ n = Cardinality(rs)
  OBVIOUS
<1>2. /\ n \in Nat /\ list \in [1 .. n -> rs] /\ DOMAIN list = 1 .. n
      /\ old \in Seq(RoundStatus) /\ Len(old) = n
      /\ \A i \in 1 .. n : old[i] = list[i].status
  BY <1>1, ListingIs, StatusListIs, TitledIsListable DEF Titled
<1>3. CASE n = 0
  <2>1. rs = {} /\ list = <<>> /\ old = <<>>
    <3>1. rs = {}
      BY <1>1, <1>3, FS_EmptySet DEF Titled, Ordered
    <3>2. QED  BY <1>2, <1>3, <3>1
  <2>2. RowsToOpen(list) = <<DefaultRound>>
    BY <2>1 DEF RowsToOpen
  <2>3. Lifecycle!ActivateFirstRound(old) = <<"active">>
    BY <2>1 DEF Lifecycle!ActivateFirstRound
  <2>4. QED  BY <1>1, <2>1, <2>2, <2>3
<1>4. CASE n # 0
  <2>1. list # <<>> /\ old # <<>> /\ 1 \in 1 .. n
    BY <1>2, <1>4
  <2>2. CASE ActiveIn(list) # {} /\ ~Lifecycle!NoneActive(old)
    <3>1. RowsToOpen(list) = <<>>
      BY <2>1, <2>2 DEF RowsToOpen
    <3>2. Lifecycle!ActivateFirstRound(old) = old
      BY <2>1, <2>2 DEF Lifecycle!ActivateFirstRound
    <3>3. QED  BY <1>1, <3>1, <3>2
  <2>3. CASE ActiveIn(list) = {} /\ Lifecycle!NoneActive(old)
    <3>1. RowsToOpen(list) =
            IF list[1].status = "draft" THEN <<With(list[1], "active")>> ELSE <<>>
      BY <2>1, <2>3 DEF RowsToOpen
    <3>2. Lifecycle!ActivateFirstRound(old) =
            IF old[1] = "draft" THEN ReplaceAt(old, 1, "active") ELSE old
      BY <2>1, <2>3, SerialLists DEF Lifecycle!ActivateFirstRound
    <3>3. old[1] = list[1].status
      BY <1>2, <2>1
    <3>4. PICK row : row = With(list[1], "active")
      OBVIOUS
    <3>5. /\ row \in Row /\ row.id # NewRow /\ TitleFree(rs, row)
          /\ StatusList(Put(rs, row)) = ReplaceAt(old, 1, "active")
      <4>1. PICK s \in RoundStatus : s = "active"
        BY DEF RoundStatus
      <4>2. PICK k \in 1 .. Cardinality(rs) : k = 1
        BY <1>1, <2>1
      <4>3. row = With(Listing(rs)[k], s)
        BY <1>1, <3>4, <4>1, <4>2
      <4>4. /\ row \in Row /\ row.id # NewRow /\ TitleFree(rs, row)
            /\ StatusList(Put(rs, row)) = ReplaceAt(StatusList(rs), k, s)
        BY <4>3, StatusPut
      <4>5. QED  BY <1>1, <4>1, <4>2, <4>4
    <3>6. QED  BY <1>1, <3>1, <3>2, <3>3, <3>4, <3>5
  <2>4. QED  BY <1>1, <2>2, <2>3, ActiveIsFirst, TitledIsListable
<1>5. QED  BY <1>3, <1>4
-----------------------------------------------------------------------------
(* One handler in flight                                                     *)

\* One request at a time or the timer's pass, by a process that does not die.
OneAtATime ==
  /\ EnoughIds
  /\ IsFiniteSet(Slots) /\ MaxInFlight <= 1 /\ MaxCrashes = 0

\* The steps of a handler that holds no row.
HoldsNoRow ==
  {"idle", "writeStatus", "writeDates", "writeNamed", "findDefault", "rename", "renameTitled",
   "findRounds", "selectToFinish"}

\* What a handler's checks have established of what it holds; nothing can undo it.
Holds(state) ==
  /\ state.step \in HoldsNoRow \cup {"checkNoOther", "save"}
  /\ state.step = "idle" => state = Idle
  /\ state.step = "writeStatus" =>
       Exists /\ state.status \in STATUS_TRANSITIONS[tournament.status]
  /\ state.step \in {"writeNamed", "findDefault", "rename", "renameTitled"} => state.title \in Titles
  /\ state.step \in {"writeDates", "writeNamed"} =>
       /\ Exists
       /\ Patched(state.patch).registration_end \in Time
       /\ Patched(state.patch).end_date \in Time
       /\ Patched(state.patch).registration_end < Patched(state.patch).end_date
  /\ state.step = "findRounds" => Exists
  /\ state.step = "checkNoOther" =>
       /\ state.row \in Row /\ state.row.status = "active"
       /\ state.row.id = NewRow \/ \E r \in rounds : r.id = state.row.id /\ r.status # "active"
  /\ state.step = "save" =>
       \/ \E row \in Row : state.rows = <<row>>
       \/ \E a, b \in Row :
            /\ state.rows = <<a, b>> /\ a.id # NewRow /\ b.id # NewRow
            /\ Exists /\ TitleFree(rounds, a)

TournamentTyped ==
  tournament \in [status : Status \cup {"absent", "deleted"},
                  registration_end : Time, end_date : Time]

SerialInv ==
  /\ Titled(rounds) /\ TournamentTyped
  /\ now \in Nat /\ crashes = 0
  /\ handlers = [h \in Handlers |-> handlers[h]]
  /\ \A h \in Handlers : Holds(handlers[h])
  /\ \A g, h \in InFlight : g = h

\* Saving one row, and what comes of it: the id of a new row is one that is not in use.
SaveOn(rs, row) == IF CanSave(rs, row) THEN Saved(rs, row) ELSE rs

SavedAs(rs, row, after) ==
  IF ~(Exists /\ TitleFree(rs, row)) THEN after = rs
  ELSE IF row.id # NewRow THEN after = Put(rs, row)
  ELSE \E i \in RoundId : (\A r \in rs : r.id # i) /\ after = rs \cup {[row EXCEPT !.id = i]}

\* The rounds as promised, where the one handler at work is in this state.
SettledAs(state) ==
  /\ state.step \notin {"save", "findRounds"} => SettledRounds = rounds
  /\ state.step = "findRounds" =>
       StatusList(SettledRounds) = Lifecycle!ActivateFirstRound(StatusList(rounds))
  /\ state.step = "save" =>
       /\ \A row \in Row :
            state.rows = <<row>> => SavedAs(rounds, row, SettledRounds)
       /\ \A a, b \in Row :
            /\ state.rows = <<a, b>> /\ a.id # NewRow /\ b.id # NewRow
            /\ Exists /\ TitleFree(rounds, a) /\ TitleFree(Put(rounds, a), b)
            => SettledRounds = Put(Put(rounds, a), b)

(* Whether a row can be saved, and what a save of a row with an id does.     *)
LEMMA CanSaveIs ==
  ASSUME NEW rs, NEW row
  PROVE  CanSave(rs, row) <=> Exists /\ TitleFree(rs, row)
BY DEF CanSave, TitleFree

LEMMA SaveOnIsPut ==
  ASSUME NEW rs, NEW row, row.id # NewRow
  PROVE  SaveOn(rs, row) = IF Exists /\ TitleFree(rs, row) THEN Put(rs, row) ELSE rs
BY CanSaveIs DEF SaveOn, Saved, Put

(* The rows of the handler at work are saved one after the other.            *)
LEMMA SettledByRows ==
  ASSUME SerialInv, NEW h \in Handlers, InFlight \subseteq {h}
  PROVE  /\ PendingRows(h) = <<>> => SettledRounds = rounds
         /\ \A row : PendingRows(h) = <<row>> => SettledRounds = SaveOn(rounds, row)
         /\ \A a, b : PendingRows(h) = <<a, b>> =>
              SettledRounds = SaveOn(SaveOn(rounds, a), b)
<1>1. PICK rows : rows = PendingRows(h)
  OBVIOUS
<1>2. CASE InFlight = {}
  <2>1. handlers[h].step = "idle"
    BY <1>2 DEF InFlight, Idle
  <2>2. PendingRows(h) = <<>>
    BY <2>1 DEF PendingRows
  <2>3. SettledRounds = rounds
    BY <1>2 DEF SettledRounds
  <2>4. QED  BY <2>2, <2>3
<1>3. CASE InFlight = {h}
  <2>1. (CHOOSE g \in InFlight : TRUE) = h
    BY <1>3
  <2>2. rows = IF InFlight = {} THEN <<>>
               ELSE PendingRows(CHOOSE g \in InFlight : TRUE)
    BY <1>1, <1>3, <2>1
  <2>3. SettledRounds =
          CASE rows = <<>>   -> rounds
            [] Len(rows) = 1 -> SaveOn(rounds, rows[1])
            [] Len(rows) = 2 -> SaveOn(SaveOn(rounds, rows[1]), rows[2])
    BY <2>2 DEF SettledRounds, SaveOn
  <2>4. QED  BY <1>1, <2>3
<1>4. QED  BY <1>2, <1>3

(* A new row gets an id that no row has.                                     *)
LEMMA NewRowIsAdded ==
  ASSUME OneAtATime, Titled(rounds), NEW row \in Row,
         \A held \in HeldRows(handlers) : held.id = NewRow
  PROVE  SavedAs(rounds, row, SaveOn(rounds, row))
<1>1. CASE ~(Exists /\ TitleFree(rounds, row))
  BY <1>1, CanSaveIs DEF SavedAs, SaveOn
<1>2. CASE Exists /\ TitleFree(rounds, row) /\ row.id # NewRow
  BY <1>2, SaveOnIsPut DEF SavedAs
<1>3. CASE Exists /\ TitleFree(rounds, row) /\ row.id = NewRow
  <2>1. /\ NewRow \notin RoundId /\ EnoughIds /\ row.title \in Titles
        /\ \A r \in rounds : r.title # row.title
    BY RequestsAssumption, <1>3 DEF OneAtATime, Titled, TitleFree, Row
  <2>2. PICK i \in RoundId : \A r \in rounds : r.id # i
    BY <2>1, RoomForATitle
  <2>3. PICK used : used = {r.id : r \in rounds \cup HeldRows(handlers)}
    OBVIOUS
  <2>4. i \notin used
    BY <2>1, <2>2, <2>3
  <2>5. FreshId(rounds) \in RoundId /\ FreshId(rounds) \notin used
    BY <2>3, <2>4 DEF FreshId
  <2>6. \A r \in rounds : r.id # FreshId(rounds)
    BY <2>3, <2>5
  <2>7. SaveOn(rounds, row) = rounds \cup {[row EXCEPT !.id = FreshId(rounds)]}
    BY <1>3, CanSaveIs DEF SaveOn, Saved
  <2>8. QED  BY <1>3, <2>5, <2>6, <2>7 DEF SavedAs
<1>4. QED  BY <1>1, <1>2, <1>3

(* What the one handler at work holds.                                       *)
LEMMA OneHolds ==
  ASSUME SerialInv, NEW h \in Handlers, InFlight \subseteq {h}
  PROVE  /\ \A g \in Handlers : g # h => handlers[g] = Idle
         /\ handlers[h].step \in HoldsNoRow => HeldRows(handlers) = {}
         /\ \A row : handlers[h].step = "save" /\ handlers[h].rows = <<row>> =>
              HeldRows(handlers) = {row}
<1>1. \A g \in Handlers : g # h => handlers[g] = Idle
  BY DEF InFlight
<1>2. \A g \in Handlers : g # h => handlers[g].step = "idle"
  BY <1>1 DEF Idle
<1>3. ASSUME handlers[h].step \in HoldsNoRow PROVE HeldRows(handlers) = {}
  <2>1. \A g \in Handlers : handlers[g].step # "save" /\ handlers[g].step # "checkNoOther"
    BY <1>2, <1>3 DEF HoldsNoRow
  <2>2. QED  BY <2>1 DEF HeldRows
<1>4. ASSUME NEW row, handlers[h].step = "save", handlers[h].rows = <<row>>
      PROVE  HeldRows(handlers) = {row}
  <2>1. \A g \in Handlers : handlers[g].step # "checkNoOther"
    BY <1>2, <1>4
  <2>2. \A g \in Handlers : handlers[g].step = "save" <=> g = h
    BY <1>2, <1>4
  <2>3. ToSet(<<row>>) = {row}
    BY DEF ToSet
  <2>4. HeldRows(handlers) = ToSet(handlers[h].rows)
    <3>1. ASSUME NEW r \in HeldRows(handlers) PROVE r \in ToSet(handlers[h].rows)
      BY <2>1, <2>2 DEF HeldRows
    <3>2. ASSUME NEW r \in ToSet(handlers[h].rows) PROVE r \in HeldRows(handlers)
      BY <2>2 DEF HeldRows
    <3>3. QED  BY <3>1, <3>2
  <2>5. QED  BY <1>4, <2>3, <2>4
<1>5. QED  BY <1>1, <1>3, <1>4

(* A start that has found no round: the list has one, and it is open.        *)
LEMMA OneStatus ==
  ASSUME NEW x, x.id \in Nat, x.sort_order \in Nat, x.status \in RoundStatus
  PROVE  StatusList({x}) = <<x.status>>
<1>1. IsFiniteSet({x}) /\ Cardinality({x}) = 1
  BY FS_Singleton
<1>2. Listable({x})
  BY <1>1 DEF Listable, Ordered
<1>3. PICK list, old, n : list = Listing({x}) /\ old = StatusList({x}) /\ n = Cardinality({x})
  OBVIOUS
<1>4. old \in Seq(RoundStatus) /\ Len(old) = n /\ \A i \in 1 .. n : old[i] = list[i].status
  BY <1>2, <1>3, StatusListIs
<1>5. list \in [1 .. n -> {x}]
  BY <1>2, <1>3, ListingIs DEF Listable
<1>6. n = 1
  BY <1>1, <1>3
<1>7. list[1] = x
  BY <1>5, <1>6
<1>8. old[1] = x.status
  BY <1>4, <1>6, <1>7
<1>9. old = <<x.status>>
  BY <1>4, <1>6, <1>8
<1>10. QED  BY <1>3, <1>9

LEMMA FoundRoundsSettle ==
  ASSUME OneAtATime, SerialInv, NEW h \in Handlers, InFlight \subseteq {h},
         handlers[h].step = "findRounds"
  PROVE  StatusList(SettledRounds) = Lifecycle!ActivateFirstRound(StatusList(rounds))
<1>1. Exists /\ Titled(rounds)
  BY DEF SerialInv, Holds, OneAtATime
<1>2. PendingRows(h) = RowsToOpen(Listing(rounds))
  BY DEF PendingRows
<1>3. CASE /\ RowsToOpen(Listing(rounds)) = <<>>
           /\ Lifecycle!ActivateFirstRound(StatusList(rounds)) = StatusList(rounds)
  BY <1>2, <1>3, SettledByRows
<1>4. CASE /\ rounds = {} /\ RowsToOpen(Listing(rounds)) = <<DefaultRound>>
           /\ Lifecycle!ActivateFirstRound(StatusList(rounds)) = <<"active">>
  <2>1. PICK row : row = DefaultRound
    OBVIOUS
  <2>2. row \in Row /\ row.id = NewRow /\ row.status = "active" /\ TitleFree(rounds, row)
    BY RequestsAssumption, <1>1, <1>4, <2>1 DEF DefaultRound, Row, RoundStatus,
       TitleFree
  <2>3. SettledRounds = SaveOn(rounds, row)
    BY <1>2, <1>4, <2>1, SettledByRows
  <2>4. HeldRows(handlers) = {}
    BY OneHolds DEF HoldsNoRow
  <2>5. SavedAs(rounds, row, SettledRounds)
    BY <1>1, <2>2, <2>3, <2>4, NewRowIsAdded
  <2>6. PICK i \in RoundId : SettledRounds = rounds \cup {[row EXCEPT !.id = i]}
    BY <1>1, <2>2, <2>5 DEF SavedAs
  <2>7. PICK new : new = [row EXCEPT !.id = i]
    OBVIOUS
  <2>8. /\ new.id \in Nat /\ new.sort_order \in Nat /\ new.status = "active"
        /\ new.status \in RoundStatus
    BY RequestsAssumption, <1>1, <2>2, <2>7 DEF Row, RoundStatus
  <2>9. SettledRounds = {new}
    BY <1>4, <2>6, <2>7
  <2>10. QED  BY <1>4, <2>8, <2>9, OneStatus
<1>5. ASSUME NEW row \in Row,
             RowsToOpen(Listing(rounds)) = <<row>>,
             row.id # NewRow, TitleFree(rounds, row),
             StatusList(Put(rounds, row)) = Lifecycle!ActivateFirstRound(StatusList(rounds))
      PROVE  StatusList(SettledRounds) = Lifecycle!ActivateFirstRound(StatusList(rounds))
  <2>1. SettledRounds = SaveOn(rounds, row)
    BY <1>2, <1>5, SettledByRows
  <2>2. QED  BY <1>1, <1>5, <2>1, SaveOnIsPut
<1>6. QED  BY <1>1, <1>3, <1>4, <1>5, RowsOpen

LEMMA Settles ==
  OneAtATime /\ SerialInv =>
    \A h \in Handlers : InFlight \subseteq {h} => SettledAs(handlers[h])
<1> SUFFICES ASSUME OneAtATime, SerialInv, NEW h \in Handlers,
                    InFlight \subseteq {h}
             PROVE  SettledAs(handlers[h])
  OBVIOUS
<1>1. CASE handlers[h].step \notin {"save", "findRounds"}
  <2>1. PendingRows(h) = <<>>
    BY <1>1 DEF PendingRows
  <2>2. SettledRounds = rounds
    BY <2>1, SettledByRows
  <2>3. QED  BY <1>1, <2>2 DEF SettledAs
<1>2. CASE handlers[h].step = "findRounds"
  BY <1>2, FoundRoundsSettle DEF SettledAs
<1>3. CASE handlers[h].step = "save"
  <2>1. PendingRows(h) = handlers[h].rows /\ Titled(rounds)
    BY <1>3 DEF PendingRows, SerialInv
  <2>2. ASSUME NEW row \in Row, handlers[h].rows = <<row>>
        PROVE  SavedAs(rounds, row, SettledRounds)
    <3>1. SettledRounds = SaveOn(rounds, row)
      BY <2>1, <2>2, SettledByRows
    <3>2. CASE row.id = NewRow
      <4>1. HeldRows(handlers) = {row}
        BY <1>3, <2>2, OneHolds
      <4>2. QED  BY <2>1, <3>1, <3>2, <4>1, NewRowIsAdded
    <3>3. CASE row.id # NewRow
      BY <3>1, <3>3, SaveOnIsPut DEF SavedAs
    <3>4. QED  BY <3>2, <3>3
  <2>3. ASSUME NEW a \in Row, NEW b \in Row, handlers[h].rows = <<a, b>>,
               a.id # NewRow, b.id # NewRow,
               Exists, TitleFree(rounds, a), TitleFree(Put(rounds, a), b)
        PROVE  SettledRounds = Put(Put(rounds, a), b)
    <3>1. SettledRounds = SaveOn(SaveOn(rounds, a), b)
      BY <2>1, <2>3, SettledByRows
    <3>2. SaveOn(rounds, a) = Put(rounds, a)
      BY <2>3, SaveOnIsPut
    <3>3. SaveOn(Put(rounds, a), b) = Put(Put(rounds, a), b)
      BY <2>3, SaveOnIsPut
    <3>4. QED  BY <3>1, <3>2, <3>3
  <2>4. QED  BY <1>3, <2>2, <2>3 DEF SettledAs
<1>4. QED  BY <1>1, <1>2, <1>3

(* The steps of the serial model                                             *)

T == TheTournament

\* What a request about rounds may make of a list.
RoundsMay(old, new) ==
  \/ new = old
  \/ /\ Exists /\ Len(old) < Cardinality(Titles)
     /\ \E s \in RoundStatus, k \in 1 .. Len(old) + 1 :
          (s = "active" => Lifecycle!NoneActive(old)) /\ new = InsertAt(old, k, s)
  \/ \E s \in RoundStatus, i, k \in DOMAIN old :
       /\ s = "active" /\ old[i] # "active" => Lifecycle!NoneActive(RemoveAt(old, i))
       /\ new = InsertAt(RemoveAt(old, i), k, s)
  \/ \E i \in DOMAIN old : new = RemoveAt(old, i)
  \/ Exists /\ old # <<>> /\ new \in {Lifecycle!NextRound(old), Lifecycle!PreviousRound(old)}

LEMMA RoundsMayIsAStep ==
  ASSUME UNCHANGED <<now, tournament>>,
         RoundsMay(StatusList(SettledRounds), StatusList(SettledRounds)')
  PROVE  Lifecycle!Next \/ UNCHANGED Lifecycle!vars
<1>1. PICK old, new : old = StatusList(SettledRounds) /\ new = StatusList(SettledRounds)'
  OBVIOUS
<1>2. Exists => Lifecycle!Exists(T)
  BY DEF Exists, Lifecycle!Exists, Lifecycle!TournamentStatus, Status, T
<1>a. RoundStatus = Lifecycle!RoundStatus
  BY DEF RoundStatus, Lifecycle!RoundStatus
<1>3. CASE new = old
  BY <1>1, <1>3 DEF Lifecycle!vars, StatusList
<1>4. ASSUME Exists, Len(old) < Cardinality(Titles),
             NEW s \in RoundStatus, NEW k \in 1 .. Len(old) + 1,
             s = "active" => Lifecycle!NoneActive(old), new = InsertAt(old, k, s)
      PROVE  Lifecycle!Next
  <2>1. Lifecycle!CreateRound(T, s, k)
    BY <1>1, <1>2, <1>4, SerialLists DEF Lifecycle!CreateRound, StatusList, T
  <2>2. k \in Lifecycle!Places(StatusList(SettledRounds))
    BY <1>1, <1>4 DEF Lifecycle!Places
  <2>3. Lifecycle!RoundRequest(T)
    BY <1>a, <2>1, <2>2 DEF Lifecycle!RoundRequest, StatusList, T
  <2>4. QED  BY <2>3 DEF Lifecycle!Next, T
<1>5. ASSUME NEW s \in RoundStatus, NEW i \in DOMAIN old, NEW k \in DOMAIN old,
             s = "active" /\ old[i] # "active" => Lifecycle!NoneActive(RemoveAt(old, i)),
             new = InsertAt(RemoveAt(old, i), k, s)
      PROVE  Lifecycle!Next
  <2>1. Lifecycle!UpdateRound(T, i, s, k)
    BY <1>1, <1>5, SerialLists DEF Lifecycle!UpdateRound, StatusList, T
  <2>2. i \in DOMAIN StatusList(SettledRounds) /\ k \in DOMAIN StatusList(SettledRounds)
    BY <1>1
  <2>3. Lifecycle!RoundRequest(T)
    BY <1>a, <2>1, <2>2 DEF Lifecycle!RoundRequest, StatusList, T
  <2>4. QED  BY <2>3 DEF Lifecycle!Next, T
<1>6. ASSUME NEW i \in DOMAIN old, new = RemoveAt(old, i)
      PROVE  Lifecycle!Next
  <2>1. Lifecycle!RemoveRound(T, i)
    BY <1>1, <1>6, SerialLists DEF Lifecycle!RemoveRound, StatusList, T
  <2>2. i \in DOMAIN StatusList(SettledRounds)
    BY <1>1
  <2>3. Lifecycle!RoundRequest(T)
    BY <2>1, <2>2 DEF Lifecycle!RoundRequest, StatusList, T
  <2>4. QED  BY <2>3 DEF Lifecycle!Next, T
<1>7. ASSUME Exists, old # <<>>, new \in {Lifecycle!NextRound(old), Lifecycle!PreviousRound(old)}
      PROVE  Lifecycle!Next
  <2>1. Lifecycle!AdvanceNext(T) \/ Lifecycle!AdvancePrevious(T)
    BY <1>1, <1>2, <1>7 DEF Lifecycle!AdvanceNext, Lifecycle!AdvancePrevious, StatusList, T
  <2>2. Lifecycle!RoundRequest(T)
    BY <2>1 DEF Lifecycle!RoundRequest
  <2>3. QED  BY <2>2 DEF Lifecycle!Next, T
<1>8. RoundsMay(old, new)
  BY <1>1
<1>9. QED  BY <1>3, <1>4, <1>5, <1>6, <1>7, <1>8 DEF RoundsMay

(* A row that is saved is a round created or edited.                         *)
LEMMA SavedRowIsARequest ==
  ASSUME OneAtATime, NEW rs, Titled(rs), NEW row \in Row, NEW after,
         SavedAs(rs, row, after),
         row.id = NewRow => (row.status = "active" => NoneOpen(rs)),
         row.id # NewRow =>
           \E r \in rs : /\ r.id = row.id
                         /\ row.status = "active" /\ r.status # "active" => NoneOpen(rs \ {r})
  PROVE  RoundsMay(StatusList(rs), StatusList(after)) /\ Titled(after)
<1>0. EnoughIds /\ Listable(rs) /\ row.status \in RoundStatus
  BY TitledIsListable DEF OneAtATime, Row
<1>a. \A q : Listable(q) /\ NoneOpen(q) => Lifecycle!NoneActive(StatusList(q))
  <2> SUFFICES ASSUME NEW q, Listable(q), NoneOpen(q) PROVE Lifecycle!NoneActive(StatusList(q))
    OBVIOUS
  <2>1. Listing(q) \in [1 .. Cardinality(q) -> q]
    BY ListingIs DEF Listable
  <2>2. QED  BY <2>1, StatusListIs DEF Lifecycle!NoneActive, NoneOpen
<1>1. CASE ~(Exists /\ TitleFree(rs, row))
  BY <1>1 DEF SavedAs, RoundsMay
<1>2. CASE Exists /\ TitleFree(rs, row) /\ row.id = NewRow
  <2>1. PICK i \in RoundId : (\A r \in rs : r.id # i) /\ after = rs \cup {[row EXCEPT !.id = i]}
    BY <1>2 DEF SavedAs
  <2>2. PICK x : x = [row EXCEPT !.id = i]
    OBVIOUS
  <2>3. \A r \in rs : r.title # row.title
    BY RequestsAssumption, <1>0, <1>2 DEF Titled, TitleFree
  <2>4. x \notin rs /\ x.status = row.status /\ Titled(rs \cup {x})
    BY <1>0, <2>1, <2>2, <2>3, NewRowSaved
  <2>5. Cardinality(rs) < Cardinality(Titles) /\ Len(StatusList(rs)) = Cardinality(rs)
    BY <1>0, <2>3, RoomForATitle, StatusListIs DEF Row
  <2>6. PICK k \in 1 .. Len(StatusList(rs)) + 1 :
          StatusList(rs \cup {x}) = InsertAt(StatusList(rs), k, row.status)
    BY <2>4, OneMoreStatus, TitledIsListable
  <2>7. row.status = "active" => Lifecycle!NoneActive(StatusList(rs))
    BY <1>0, <1>2, <1>a
  <2>8. QED  BY <1>0, <1>2, <2>1, <2>2, <2>4, <2>5, <2>6, <2>7 DEF RoundsMay
<1>3. CASE Exists /\ TitleFree(rs, row) /\ row.id # NewRow
  <2>1. PICK r \in rs : /\ r.id = row.id
                        /\ row.status = "active" /\ r.status # "active" => NoneOpen(rs \ {r})
    BY <1>3
  <2>2. PICK B : B = rs \ {r}
    OBVIOUS
  <2>3. /\ after = Put(rs, row) /\ Put(rs, row) = B \cup {row} /\ rs = B \cup {r}
        /\ r \notin B /\ row \notin B /\ Titled(B \cup {row})
    <3>1. /\ {s \in rs : s.id # row.id} = rs \ {r}
          /\ row \notin rs \ {r} /\ rs = (rs \ {r}) \cup {r}
          /\ Titled((rs \ {r}) \cup {row})
      <4>1. \A s \in rs : s.id # row.id => s.title # row.title
        BY <1>3 DEF TitleFree
      <4>2. row.id = r.id
        BY <2>1
      <4>3. QED  BY <4>1, <4>2, OldRowSaved
    <3>2. after = Put(rs, row)
      BY <1>3 DEF SavedAs
    <3>3. QED  BY <2>2, <3>1, <3>2 DEF Put
  <2>4. Listable(B) /\ Listable(B \cup {r}) /\ Listable(B \cup {row})
    BY <1>0, <2>3, OneMoreStatus, TitledIsListable
  <2>5. PICK i, k : i = Rank(B \cup {r}, r) /\ k = Rank(B \cup {row}, row)
    OBVIOUS
  <2>6. PICK old, new : old = StatusList(B \cup {r}) /\ new = StatusList(B \cup {row})
    OBVIOUS
  <2>7. /\ i \in DOMAIN old /\ k \in DOMAIN old /\ old[i] = r.status
        /\ RemoveAt(old, i) = StatusList(B) /\ new = InsertAt(RemoveAt(old, i), k, row.status)
    BY <2>3, <2>4, <2>5, <2>6, MovedStatus
  <2>8. row.status = "active" /\ old[i] # "active" => Lifecycle!NoneActive(RemoveAt(old, i))
    BY <1>a, <2>1, <2>2, <2>4, <2>7
  <2>9. RoundsMay(old, new)
    BY <1>0, <2>7, <2>8 DEF RoundsMay
  <2>10. QED  BY <2>3, <2>6, <2>9
<1>4. QED  BY <1>1, <1>2, <1>3

(* After a step of the handler at work, too.                                 *)
LEMMA SettlesAfter ==
  (OneAtATime /\ SerialInv =>
     \A h \in Handlers : InFlight \subseteq {h} => SettledAs(handlers[h]))'
BY Settles, PTL

(* The handler at work goes on: what it holds settles the rounds again.      *)
LEMMA OneHandlerMoves ==
  ASSUME OneAtATime, SerialInv, NEW h \in Handlers, InFlight \subseteq {h},
         NEW state, handlers' = [handlers EXCEPT ![h] = state],
         Titled(rounds'), TournamentTyped', now' \in Nat, crashes' = crashes, Holds(state)'
  PROVE  SerialInv' /\ SettledAs(state)'
<1>1. /\ handlers'[h] = state
      /\ \A g \in Handlers : g # h => handlers'[g] = Idle
      /\ handlers' = [g \in Handlers |-> handlers'[g]]
  BY OneHolds DEF SerialInv
<1>2. Holds(Idle)'
  BY DEF Holds, HoldsNoRow, Idle
<1>3. ASSUME NEW g \in Handlers PROVE Holds(handlers[g])'
  <2>1. CASE g = h
    <3>1. handlers'[g] = state
      BY <1>1, <2>1
    <3>2. QED  BY <3>1 DEF Holds
  <2>2. CASE g # h
    <3>1. handlers'[g] = Idle
      BY <1>1, <2>2
    <3>2. QED  BY <1>2, <3>1 DEF Holds
  <2>3. QED  BY <2>1, <2>2
<1>4. InFlight' \subseteq {h}
  BY <1>1 DEF InFlight
<1>5. SerialInv'
  BY <1>1, <1>3, <1>4 DEF SerialInv
<1>6. (OneAtATime /\ SerialInv =>
         \A g \in Handlers : InFlight \subseteq {g} => SettledAs(handlers[g]))'
  BY SettlesAfter
<1>7. OneAtATime'
  OBVIOUS
<1>8. SettledAs(handlers[h])'
  BY <1>4, <1>5, <1>6, <1>7
<1>9. SettledAs(state)'
  BY <1>1, <1>8 DEF SettledAs, SavedAs
<1>10. QED  BY <1>5, <1>9

(* A handler begins only where none is at work.                              *)
LEMMA BeginsAlone ==
  ASSUME OneAtATime, NEW kind, MayBegin(kind)
  PROVE  InFlight = {}
<1>1. IsFiniteSet(Handlers)
  BY FS_AddElement DEF OneAtATime, Handlers
<1>2. IsFiniteSet(InFlight)
  BY <1>1, FS_Subset DEF InFlight
<1>3. Cardinality(InFlight) < MaxInFlight /\ MaxInFlight \in Nat /\ MaxInFlight <= 1
  BY RequestsAssumption DEF MayBegin, OneAtATime
<1>4. Cardinality(InFlight) \in Nat
  BY <1>2, FS_CardinalityType
<1>5. QED  BY <1>2, <1>3, <1>4, FS_EmptySet

\* What there is to show of every step.
Simulates == SerialInv' /\ (Lifecycle!Next \/ UNCHANGED Lifecycle!vars)

(* What it found idle is settled, and so is what it leaves idle.             *)
LEMMA SettledBefore ==
  ASSUME OneAtATime, SerialInv, NEW h \in Handlers, InFlight \subseteq {h}
  PROVE  SettledAs(handlers[h]) /\ Holds(handlers[h])
BY Settles DEF SerialInv

(* A handler that goes on without changing the tournament.                   *)
LEMMA MoveSimulates ==
  ASSUME OneAtATime, SerialInv, NEW h \in Handlers, InFlight \subseteq {h},
         NEW state, handlers' = [handlers EXCEPT ![h] = state],
         UNCHANGED <<now, tournament, crashes>>, Titled(rounds'), Holds(state)',
         SettledAs(state)' =>
           RoundsMay(StatusList(SettledRounds), StatusList(SettledRounds)')
  PROVE  Simulates
<1>1. TournamentTyped' /\ now' \in Nat
  BY DEF SerialInv, TournamentTyped
<1>2. SerialInv' /\ SettledAs(state)'
  BY <1>1, OneHandlerMoves
<1>3. QED  BY <1>2, RoundsMayIsAStep DEF Simulates

(* Steps that take no handler on.                                            *)
LEMMA SettledStays ==
  ASSUME UNCHANGED <<tournament, rounds, handlers>>
  PROVE  SettledRounds' = SettledRounds
<1>1. InFlight' = InFlight /\ (Exists' <=> Exists)
  BY DEF InFlight, Exists
<1>2. ASSUME NEW rs PROVE FreshId(rs)' = FreshId(rs)
  <2>1. HeldRows(handlers)' = HeldRows(handlers)
    OBVIOUS
  <2>2. QED  BY <2>1 DEF FreshId
<1>3. ASSUME NEW rs, NEW row PROVE SaveOn(rs, row)' = SaveOn(rs, row)
  BY <1>1, <1>2 DEF SaveOn, CanSave, Saved
<1>4. ASSUME NEW list PROVE RowsToOpen(list)' = RowsToOpen(list)
  BY <1>1 DEF RowsToOpen
<1>5. ASSUME NEW h PROVE PendingRows(h)' = PendingRows(h)
  BY <1>4 DEF PendingRows
<1>6. PICK rows : rows = IF InFlight = {} THEN <<>>
                         ELSE PendingRows(CHOOSE h \in InFlight : TRUE)
  OBVIOUS
<1>7. rows = (IF InFlight = {} THEN <<>>
              ELSE PendingRows(CHOOSE h \in InFlight : TRUE))'
  BY <1>1, <1>5, <1>6
<1>8. SettledRounds =
        CASE rows = <<>>   -> rounds
          [] Len(rows) = 1 -> SaveOn(rounds, rows[1])
          [] Len(rows) = 2 -> SaveOn(SaveOn(rounds, rows[1]), rows[2])
  BY <1>6 DEF SettledRounds, SaveOn
<1>9. SettledRounds' =
        CASE rows = <<>>   -> rounds'
          [] Len(rows) = 1 -> SaveOn(rounds, rows[1])'
          [] Len(rows) = 2 -> SaveOn(SaveOn(rounds, rows[1]), rows[2])'
  BY <1>7 DEF SettledRounds, SaveOn
<1>10. /\ SaveOn(rounds, rows[1])' = SaveOn(rounds, rows[1])
       /\ SaveOn(SaveOn(rounds, rows[1]), rows[2])' = SaveOn(SaveOn(rounds, rows[1]), rows[2])
  BY <1>3
<1>11. QED  BY <1>8, <1>9, <1>10

LEMMA WaitingSimulates ==
  ASSUME OneAtATime, SerialInv, Tick \/ Crash \/ UNCHANGED vars
  PROVE  Simulates
<1>1. ~Crash
  BY DEF Crash, OneAtATime, SerialInv
<1>2. UNCHANGED <<tournament, rounds, handlers, crashes>>
  BY <1>1 DEF Tick, vars
<1>3. StatusList(SettledRounds)' = StatusList(SettledRounds)
  BY <1>2, SettledStays
<1>4. SerialInv'
  <2>1. \A h \in Handlers : Holds(handlers[h])'
    BY <1>2 DEF SerialInv, Holds, Exists, Patched, Given
  <2>2. InFlight' = InFlight
    BY <1>2 DEF InFlight
  <2>3. now' \in Nat
    BY <1>1 DEF SerialInv, Tick, vars
  <2>4. QED  BY <1>2, <2>1, <2>2, <2>3 DEF SerialInv, TournamentTyped
<1>5. CASE Tick
  <2>1. now < MaxTime /\ now' = now + 1
    BY RequestsAssumption, <1>5 DEF Tick, OneAtATime, SerialInv
  <2>2. Lifecycle!Tick
    BY <1>2, <1>3, <2>1 DEF Lifecycle!Tick, StatusList
  <2>3. QED  BY <1>4, <2>2 DEF Simulates, Lifecycle!Next
<1>6. CASE UNCHANGED vars
  <2>1. UNCHANGED <<now, tournament>>
    BY <1>6 DEF vars
  <2>2. QED  BY <1>3, <1>4, <2>1, RoundsMayIsAStep DEF Simulates, RoundsMay
<1>7. QED  BY <1>1, <1>5, <1>6

(* A request that is done at once finds nobody at work and leaves it so.     *)
LEMMA ImmediateIsAlone ==
  ASSUME OneAtATime, SerialInv, InFlight = {}, handlers' = handlers, now' = now,
         crashes' = crashes, Titled(rounds'), TournamentTyped'
  PROVE  SerialInv' /\ SettledRounds = rounds /\ SettledRounds' = rounds'
<1>1. timer \in Handlers /\ handlers[timer] = Idle
  BY DEF Handlers, InFlight
<1>2. PICK state : state = Idle
  OBVIOUS
<1>3. handlers' = [handlers EXCEPT ![timer] = state]
  BY <1>1, <1>2 DEF SerialInv
<1>4. state.step = "idle"
  BY <1>2 DEF Idle
<1>5. Holds(state)'
  BY <1>2, <1>4 DEF Holds, HoldsNoRow
<1>6. now' \in Nat
  BY DEF SerialInv
<1>7. SerialInv' /\ SettledAs(state)'
  BY <1>1, <1>3, <1>5, <1>6, OneHandlerMoves
<1>8. SettledRounds = rounds
  BY <1>1, <1>2, <1>4, SettledBefore DEF SettledAs
<1>9. SettledRounds' = rounds'
  BY <1>4, <1>7 DEF SettledAs
<1>10. QED  BY <1>7, <1>8, <1>9

LEMMA CreateTournamentSimulates ==
  ASSUME OneAtATime, SerialInv, NEW s \in Status,
         NEW regEnd \in Time, NEW end \in Time,
         CreateTournament(s, regEnd, end)
  PROVE  Simulates
<1>1. /\ MayBegin("createTournament")
      /\ tournament.status = "absent" /\ regEnd >= now /\ regEnd < end
      /\ tournament' = [status |-> s, registration_end |-> regEnd, end_date |-> end]
      /\ UNCHANGED <<now, rounds, handlers, crashes>>
  BY DEF CreateTournament
<1>2. Titled(rounds') /\ TournamentTyped'
  BY <1>1 DEF SerialInv, TournamentTyped
<1>3. InFlight = {}
  BY <1>1, BeginsAlone
<1>4. SerialInv' /\ SettledRounds = rounds /\ SettledRounds' = rounds'
  BY <1>1, <1>2, <1>3, ImmediateIsAlone
<1>5. StatusList(SettledRounds)' = StatusList(SettledRounds)
  BY <1>1, <1>4
<1>6. Lifecycle!CreateTournament(T, s, regEnd, end, NoParent)
  BY <1>1, <1>5 DEF Lifecycle!CreateTournament, Lifecycle!ValidSchedule, StatusList, T
<1>7. s \in Lifecycle!TournamentStatus /\ regEnd \in Lifecycle!Time /\ end \in Lifecycle!Time
  BY DEF Status, Lifecycle!TournamentStatus, Time, Lifecycle!Time
<1>8. Lifecycle!TournamentRequest(T)
  BY <1>6, <1>7 DEF Lifecycle!TournamentRequest
<1>9. QED  BY <1>4, <1>8 DEF Simulates, Lifecycle!Next, T

LEMMA DeleteTournamentSimulates ==
  ASSUME OneAtATime, SerialInv, DeleteTournament
  PROVE  Simulates
<1>1. /\ MayBegin("deleteTournament") /\ Exists
      /\ tournament' = [status |-> "deleted", registration_end |-> 0, end_date |-> 0]
      /\ rounds' = {}
      /\ UNCHANGED <<now, handlers, crashes>>
  BY DEF DeleteTournament
<1>2. Titled(rounds') /\ TournamentTyped'
  <2>1. 0 \in Time
    BY RequestsAssumption DEF Time, OneAtATime
  <2>2. QED  BY <1>1, <2>1, FS_EmptySet DEF Titled, Ordered, TournamentTyped
<1>3. InFlight = {}
  BY <1>1, BeginsAlone
<1>4. SerialInv' /\ SettledRounds = rounds /\ SettledRounds' = rounds'
  BY <1>1, <1>2, <1>3, ImmediateIsAlone
<1>5. StatusList(SettledRounds)' = <<>>
  <2>1. Listable({}) /\ Cardinality({}) = 0
    BY FS_EmptySet DEF Listable, Ordered
  <2>2. StatusList({}) = <<>>
    BY <2>1, StatusListIs
  <2>3. QED  BY <1>1, <1>4, <2>2
<1>6. Lifecycle!DeleteTournament(T)
  <2>1. Lifecycle!Exists(T)
    BY <1>1 DEF Exists, Lifecycle!Exists, Lifecycle!TournamentStatus, Status, T
  <2>2. QED  BY <1>1, <1>5, <2>1 DEF Lifecycle!DeleteTournament, Lifecycle!Absent, StatusList, T
<1>7. Lifecycle!TournamentRequest(T)
  BY <1>6 DEF Lifecycle!TournamentRequest
<1>8. QED  BY <1>4, <1>7 DEF Simulates, Lifecycle!Next, T

LEMMA RemoveRoundSimulates ==
  ASSUME OneAtATime, SerialInv, NEW r \in rounds, RemoveRound(r)
  PROVE  Simulates
<1>1. /\ MayBegin("removeRound") /\ rounds' = rounds \ {r}
      /\ UNCHANGED <<now, tournament, handlers, crashes>>
  BY DEF RemoveRound
<1>2. Titled(rounds)
  BY DEF SerialInv
<1>3. Titled(rounds') /\ TournamentTyped'
  <2>1. IsFiniteSet(rounds \ {r})
    BY <1>2, FS_RemoveElement DEF Titled, Ordered
  <2>2. Titled(rounds \ {r})
    BY <1>2, <2>1 DEF Titled, Ordered
  <2>3. QED  BY <1>1, <2>2 DEF SerialInv, TournamentTyped
<1>4. SerialInv' /\ SettledRounds = rounds /\ SettledRounds' = rounds'
  <2>1. InFlight = {}
    BY <1>1, BeginsAlone
  <2>2. QED  BY <1>1, <1>3, <2>1, ImmediateIsAlone
<1>5. PICK B : B = rounds \ {r}
  OBVIOUS
<1>6. rounds = B \cup {r} /\ r \notin B /\ Listable(B \cup {r})
  BY <1>2, <1>5, TitledIsListable
<1>7. PICK i : i = Rank(B \cup {r}, r)
  OBVIOUS
<1>8. /\ i \in 1 .. Len(StatusList(B)) + 1 /\ Len(StatusList(B \cup {r})) = Len(StatusList(B)) + 1
      /\ StatusList(B) = RemoveAt(StatusList(B \cup {r}), i)
  BY <1>6, <1>7, OneMoreStatus
<1>9. i \in DOMAIN StatusList(B \cup {r})
  BY <1>6, <1>8, StatusListIs
<1>10. RoundsMay(StatusList(SettledRounds), StatusList(SettledRounds)')
  BY <1>1, <1>4, <1>5, <1>6, <1>8, <1>9 DEF RoundsMay
<1>11. QED  BY <1>1, <1>4, <1>10, RoundsMayIsAStep DEF Simulates

(* Handlers that begin                                                       *)
LEMMA BeginSimulates ==
  ASSUME OneAtATime, SerialInv, NEW h \in Handlers, handlers[h] = Idle,
         NEW kind, MayBegin(kind),
         NEW state, handlers' = [handlers EXCEPT ![h] = state],
         UNCHANGED <<now, tournament, rounds, crashes>>, Holds(state)',
         state.step # "findRounds",
         state.step = "save" =>
           (SettledAs(state)' => RoundsMay(StatusList(rounds), StatusList(SettledRounds)'))
  PROVE  Simulates
<1>1. InFlight \subseteq {h}
  BY BeginsAlone
<1>2. SettledRounds = rounds
  BY <1>1, SettledBefore DEF SettledAs, Idle
<1>3. Titled(rounds')
  BY DEF SerialInv
<1>4. SettledAs(state)' =>
        RoundsMay(StatusList(SettledRounds), StatusList(SettledRounds)')
  <2>1. CASE state.step = "save"
    BY <1>2, <2>1
  <2>2. CASE state.step # "save"
    <3>1. SettledAs(state)' => SettledRounds' = rounds'
      BY <2>2 DEF SettledAs
    <3>2. QED  BY <1>2, <3>1 DEF RoundsMay
  <2>3. QED  BY <2>1, <2>2
<1>5. QED  BY <1>1, <1>3, <1>4, MoveSimulates

LEMMA ReadingSimulates ==
  ASSUME OneAtATime, SerialInv,
         \/ \E h \in Slots, s \in Status : BeginUpdateStatus(h, s)
         \/ \E h \in Slots, D \in SUBSET {"registration_end", "end_date"} :
              \E patch \in [D -> Time] : BeginUpdateTournament(h, patch)
         \/ BeginPass
  PROVE  Simulates
<1>0. timer \in Handlers /\ Slots \subseteq Handlers
  BY DEF Handlers
<1>1. ASSUME NEW h \in Slots, NEW s \in Status, BeginUpdateStatus(h, s)
      PROVE  Simulates
  <2>1. PICK state : state = [step |-> "writeStatus", status |-> s]
    OBVIOUS
  <2>2. /\ handlers[h] = Idle /\ MayBegin("updateStatus")
        /\ handlers' = [handlers EXCEPT ![h] = state]
        /\ UNCHANGED <<now, tournament, rounds, crashes>>
        /\ Exists /\ s \in STATUS_TRANSITIONS[tournament.status]
    BY <1>1, <2>1 DEF BeginUpdateStatus, Begins
  <2>3. state.step = "writeStatus" /\ state.status = s
    BY <2>1
  <2>4. Holds(state)'
    BY <2>2, <2>3 DEF Holds, HoldsNoRow, Exists
  <2>5. QED  BY <1>0, <2>2, <2>3, <2>4, BeginSimulates
<1>2. ASSUME NEW h \in Slots, NEW D \in SUBSET {"registration_end", "end_date"},
             NEW patch \in [D -> Time], BeginUpdateTournament(h, patch)
      PROVE  Simulates
  <2>1. PICK state : state = [step |-> "writeDates", patch |-> patch]
    OBVIOUS
  <2>2. /\ handlers[h] = Idle /\ MayBegin("updateTournament")
        /\ handlers' = [handlers EXCEPT ![h] = state]
        /\ UNCHANGED <<now, tournament, rounds, crashes>>
        /\ Exists
        /\ Patched(patch).registration_end < Patched(patch).end_date
    BY <1>2, <2>1 DEF BeginUpdateTournament, Begins
  <2>3. state.step = "writeDates" /\ state.patch = patch
    BY <2>1
  <2>4. /\ Given(patch, "registration_end") \in Time
        /\ Given(patch, "end_date") \in Time
    BY DEF Given, SerialInv, TournamentTyped
  <2>5. /\ Patched(patch).registration_end = Given(patch, "registration_end")
        /\ Patched(patch).end_date = Given(patch, "end_date")
    BY DEF Patched, SerialInv, TournamentTyped
  <2>6. Patched(patch)' = Patched(patch)
    BY <2>2 DEF Patched, Given
  <2>7. Holds(state)'
    BY <2>2, <2>3, <2>4, <2>5, <2>6 DEF Holds, HoldsNoRow, Exists
  <2>8. QED  BY <1>0, <2>2, <2>3, <2>7, BeginSimulates
<1>3. CASE BeginPass
  <2>1. PICK state :
          state = IF tournament.status = "registration" /\ tournament.registration_end <= now
                  THEN [step |-> "writeStatus", status |-> "running"]
                  ELSE [step |-> "selectToFinish"]
    OBVIOUS
  <2>2. /\ handlers[timer] = Idle /\ MayBegin("pass")
        /\ handlers' = [handlers EXCEPT ![timer] = state]
        /\ UNCHANGED <<now, tournament, rounds, crashes>>
    BY <1>3, <2>1 DEF BeginPass
  <2>3. \/ state.step = "selectToFinish"
        \/ state.step = "writeStatus" /\ state.status = "running" /\ tournament.status = "registration"
    BY <2>1
  <2>4. Holds(state)'
    <3>1. CASE state.step = "selectToFinish"
      BY <3>1 DEF Holds, HoldsNoRow
    <3>2. CASE state.step = "writeStatus" /\ state.status = "running" /\ tournament.status = "registration"
      BY <2>2, <3>2 DEF Holds, HoldsNoRow, Exists, Status, STATUS_TRANSITIONS
    <3>3. QED  BY <2>3, <3>1, <3>2
  <2>5. QED  BY <1>0, <2>2, <2>3, <2>4, BeginSimulates
<1>4. QED  BY <1>1, <1>2, <1>3

(* A request that renames: its reads change nothing.                         *)
LEMMA RenamesBegin ==
  ASSUME OneAtATime, SerialInv, NEW h \in Slots,
         \/ \E D \in SUBSET {"registration_end", "end_date"} : \E patch \in [D -> Time] :
              \E title \in Titles : BeginRenameTournament(h, patch, title)
         \/ \E from, title \in Titles : BeginRenameChild(h, from, title)
  PROVE  Simulates
<1>0. h \in Handlers
  BY DEF Handlers
<1>1. ASSUME NEW D \in SUBSET {"registration_end", "end_date"}, NEW patch \in [D -> Time],
             NEW title \in Titles, BeginRenameTournament(h, patch, title)
      PROVE  Simulates
  <2>1. PICK state : state = [step |-> "writeNamed", patch |-> patch, title |-> title]
    OBVIOUS
  <2>2. /\ handlers[h] = Idle /\ MayBegin("renameTournament")
        /\ handlers' = [handlers EXCEPT ![h] = state]
        /\ UNCHANGED <<now, tournament, rounds, crashes>>
        /\ Exists
        /\ Patched(patch).registration_end < Patched(patch).end_date
    BY <1>1, <2>1 DEF BeginRenameTournament, Begins
  <2>3. state.step = "writeNamed" /\ state.patch = patch /\ state.title = title
    BY <2>1
  <2>4. /\ Given(patch, "registration_end") \in Time
        /\ Given(patch, "end_date") \in Time
    BY DEF Given, SerialInv, TournamentTyped
  <2>5. /\ Patched(patch).registration_end = Given(patch, "registration_end")
        /\ Patched(patch).end_date = Given(patch, "end_date")
    BY DEF Patched, SerialInv, TournamentTyped
  <2>6. Patched(patch)' = Patched(patch)
    BY <2>2 DEF Patched, Given
  <2>7. Holds(state)'
    BY <2>2, <2>3, <2>4, <2>5, <2>6 DEF Holds, HoldsNoRow, Exists
  <2>8. QED  BY <1>0, <2>2, <2>3, <2>7, BeginSimulates
<1>2. ASSUME NEW from \in Titles, NEW title \in Titles, BeginRenameChild(h, from, title)
      PROVE  Simulates
  <2>1. PICK state : state = [step |-> "renameTitled", from |-> from, title |-> title]
    OBVIOUS
  <2>2. /\ handlers[h] = Idle /\ MayBegin("renameChild")
        /\ handlers' = [handlers EXCEPT ![h] = state]
        /\ UNCHANGED <<now, tournament, rounds, crashes>>
    BY <1>2, <2>1 DEF BeginRenameChild, Begins
  <2>3. state.step = "renameTitled" /\ state.title = title
    BY <2>1
  <2>4. Holds(state)'
    BY <2>3 DEF Holds, HoldsNoRow
  <2>5. QED  BY <1>0, <2>2, <2>3, <2>4, BeginSimulates
<1>3. QED  BY <1>1, <1>2

(* A row to save, or to check first when it opens.                           *)
LEMMA CheckedSimulates ==
  ASSUME OneAtATime, SerialInv, NEW h \in Handlers, handlers[h] = Idle,
         NEW kind, MayBegin(kind), NEW row \in Row,
         NEW opens \in BOOLEAN,
         handlers' = [handlers EXCEPT ![h] = Checked(row, opens)],
         UNCHANGED <<now, tournament, rounds, crashes>>,
         opens => /\ row.status = "active"
                  /\ row.id = NewRow \/ \E r \in rounds : r.id = row.id /\ r.status # "active",
         ~opens => \/ row.id = NewRow /\ row.status # "active"
                   \/ \E r \in rounds : r.id = row.id /\ (row.status = "active" => r.status = "active")
  PROVE  Simulates
<1>1. PICK state : state = Checked(row, opens)
  OBVIOUS
<1>2. handlers' = [handlers EXCEPT ![h] = state]
  BY <1>1
<1>3. CASE opens
  <2>1. state.step = "checkNoOther" /\ state.row = row
    BY <1>1, <1>3 DEF Checked
  <2>2. Holds(state)'
    BY <1>3, <2>1 DEF Holds
  <2>3. QED  BY <1>2, <2>1, <2>2, BeginSimulates
<1>4. CASE ~opens
  <2>1. state.step = "save" /\ state.rows = <<row>>
    BY <1>1, <1>4 DEF Checked
  <2>2. Holds(state)'
    BY <2>1 DEF Holds
  <2>3. PICK after : after = SettledRounds'
    OBVIOUS
  <2>4. SettledAs(state)' => SavedAs(rounds, row, after)
    BY <2>1, <2>3 DEF SettledAs, SavedAs, Exists
  <2>5. \A r \in rounds : r.id # NewRow
    BY RequestsAssumption DEF SerialInv, Titled, OneAtATime
  <2>6. SavedAs(rounds, row, after) => RoundsMay(StatusList(rounds), StatusList(after))
    <3> SUFFICES ASSUME SavedAs(rounds, row, after)
                 PROVE  RoundsMay(StatusList(rounds), StatusList(after))
      OBVIOUS
    <3>1. row.id = NewRow => (row.status = "active" => NoneOpen(rounds))
      BY <1>4, <2>5
    <3>2. row.id # NewRow =>
            \E r \in rounds :
              /\ r.id = row.id
              /\ row.status = "active" /\ r.status # "active" => NoneOpen(rounds \ {r})
      BY <1>4
    <3>3. Titled(rounds)
      BY DEF SerialInv
    <3>4. QED  BY <3>1, <3>2, <3>3, SavedRowIsARequest
  <2>7. SettledAs(state)' => RoundsMay(StatusList(rounds), StatusList(SettledRounds)')
    BY <2>3, <2>4, <2>6
  <2>8. QED  BY <1>2, <2>1, <2>2, <2>7, BeginSimulates
<1>5. QED  BY <1>3, <1>4

LEMMA RoundEditsSimulate ==
  ASSUME OneAtATime, SerialInv, NEW h \in Slots,
         \/ \E row \in NewRows : BeginCreateRound(h, row)
         \/ \E r \in rounds, row \in NewRows :
              BeginUpdateRound(h, r, [row EXCEPT !.id = r.id])
  PROVE  Simulates
<1>0. h \in Handlers
  BY DEF Handlers
<1>1. ASSUME NEW row \in NewRows, BeginCreateRound(h, row)
      PROVE  Simulates
  <2>1. row \in Row /\ row.id = NewRow
    BY DEF NewRows, Row
  <2>2. PICK opens \in BOOLEAN : opens = (row.status = "active")
    OBVIOUS
  <2>3. /\ handlers[h] = Idle /\ MayBegin("createRound")
        /\ handlers' = [handlers EXCEPT ![h] = Checked(row, opens)]
        /\ UNCHANGED <<now, tournament, rounds, crashes>>
    BY <1>1, <2>2 DEF BeginCreateRound, Begins
  <2>4. QED  BY <1>0, <2>1, <2>2, <2>3, CheckedSimulates
<1>2. ASSUME NEW r \in rounds, NEW new \in NewRows,
             BeginUpdateRound(h, r, [new EXCEPT !.id = r.id])
      PROVE  Simulates
  <2>1. PICK row : row = [new EXCEPT !.id = r.id]
    OBVIOUS
  <2>2. row \in Row /\ row.id = r.id
    BY <2>1 DEF NewRows, Row, SerialInv, Titled
  <2>3. PICK opens \in BOOLEAN : opens = (row.status = "active" /\ r.status # "active")
    OBVIOUS
  <2>4. /\ handlers[h] = Idle /\ MayBegin("updateRound")
        /\ handlers' = [handlers EXCEPT ![h] = Checked(row, opens)]
        /\ UNCHANGED <<now, tournament, rounds, crashes>>
    BY <1>2, <2>1, <2>3 DEF BeginUpdateRound, Begins
  <2>5. QED  BY <1>0, <2>2, <2>3, <2>4, CheckedSimulates
<1>3. QED  BY <1>1, <1>2

LEMMA AdvanceSimulates ==
  ASSUME OneAtATime, SerialInv, NEW h \in Slots,
         BeginAdvanceNext(h) \/ BeginAdvancePrevious(h)
  PROVE  Simulates
<1>0. h \in Handlers /\ Titled(rounds)
  BY DEF Handlers, SerialInv, OneAtATime
<1>1. PICK rows, list : rows \in {NextRows(Listing(rounds)),
                                  PreviousRows(Listing(rounds))}
                        /\ handlers' = [handlers EXCEPT ![h] = [step |-> "save", rows |-> rows]]
                        /\ list = IF rows = NextRows(Listing(rounds))
                                  THEN Lifecycle!NextRound(StatusList(rounds))
                                  ELSE Lifecycle!PreviousRound(StatusList(rounds))
  BY DEF BeginAdvanceNext, BeginAdvancePrevious, Begins
<1>2. /\ handlers[h] = Idle /\ Exists /\ rounds # {}
      /\ \E kind : MayBegin(kind)
      /\ UNCHANGED <<now, tournament, rounds, crashes>>
  BY DEF BeginAdvanceNext, BeginAdvancePrevious, Begins
<1>3. PICK state : state = [step |-> "save", rows |-> rows]
  OBVIOUS
<1>4. state.step = "save" /\ state.rows = rows /\ handlers' = [handlers EXCEPT ![h] = state]
  BY <1>1, <1>3
<1>5. list \in {Lifecycle!NextRound(StatusList(rounds)), Lifecycle!PreviousRound(StatusList(rounds))}
  BY <1>1
<1>6. RoundsMay(StatusList(rounds), list)
  <2>1. StatusList(rounds) # <<>>
    <3>1. Cardinality(rounds) # 0
      BY <1>0, <1>2, FS_EmptySet DEF Titled, Ordered
    <3>2. QED  BY <1>0, <3>1, StatusListIs, TitledIsListable
  <2>2. QED  BY <1>2, <1>5, <2>1 DEF RoundsMay
<1>7. \/ \E row \in Row :
           /\ rows = <<row>> /\ row.id # NewRow /\ TitleFree(rounds, row)
           /\ StatusList(Put(rounds, row)) = list
      \/ \E a, b \in Row :
           /\ rows = <<a, b>>
           /\ a.id # NewRow /\ TitleFree(rounds, a)
           /\ b.id # NewRow /\ TitleFree(Put(rounds, a), b)
           /\ StatusList(Put(Put(rounds, a), b)) = list
  BY <1>0, <1>1, <1>2, RowsAdvance
<1>8. ASSUME NEW row \in Row, rows = <<row>>, row.id # NewRow, TitleFree(rounds, row),
             StatusList(Put(rounds, row)) = list
      PROVE  Simulates
  <2>1. Holds(state)'
    BY <1>4, <1>8 DEF Holds
  <2>2. SettledAs(state)' => SettledRounds' = Put(rounds, row)
    BY <1>2, <1>4, <1>8 DEF SettledAs, SavedAs, Exists
  <2>3. SettledAs(state)' => RoundsMay(StatusList(rounds), StatusList(SettledRounds)')
    BY <1>6, <1>8, <2>2
  <2>4. QED  BY <1>0, <1>2, <1>4, <2>1, <2>3, BeginSimulates
<1>9. ASSUME NEW a \in Row, NEW b \in Row, rows = <<a, b>>,
             a.id # NewRow, TitleFree(rounds, a), b.id # NewRow, TitleFree(Put(rounds, a), b),
             StatusList(Put(Put(rounds, a), b)) = list
      PROVE  Simulates
  <2>1. Holds(state)'
    BY <1>2, <1>4, <1>9 DEF Holds, Exists
  <2>2. SettledAs(state)' => SettledRounds' = Put(Put(rounds, a), b)
    BY <1>2, <1>4, <1>9 DEF SettledAs, Exists
  <2>3. SettledAs(state)' => RoundsMay(StatusList(rounds), StatusList(SettledRounds)')
    BY <1>6, <1>9, <2>2
  <2>4. QED  BY <1>0, <1>2, <1>4, <2>1, <2>3, BeginSimulates
<1>10. QED  BY <1>7, <1>8, <1>9

(* The statements that follow                                                *)
LEMMA WorksAlone ==
  ASSUME SerialInv, NEW h \in Handlers, handlers[h].step # "idle"
  PROVE  InFlight \subseteq {h}
<1>1. h \in InFlight
  BY DEF InFlight, Idle
<1>2. QED  BY <1>1 DEF SerialInv

(* Both models have the transitions of TournamentStatus.enum.ts.             *)
LEMMA TransitionsAgree ==
  ASSUME NEW s \in Status
  PROVE  STATUS_TRANSITIONS[s] = Lifecycle!STATUS_TRANSITIONS[s]
<1>1. s \in {"draft", "registration", "running", "finished", "cancelled"}
  BY DEF Status
<1>2. QED  BY <1>1 DEF STATUS_TRANSITIONS, Lifecycle!STATUS_TRANSITIONS, Lifecycle!TournamentStatus

LEMMA WriteStatusSimulates ==
  ASSUME OneAtATime, SerialInv, NEW h \in Handlers, WriteStatus(h)
  PROVE  Simulates
<1>1. handlers[h].step = "writeStatus" /\ InFlight \subseteq {h}
  BY WorksAlone DEF WriteStatus
<1>2. PICK s : s = handlers[h].status
  OBVIOUS
<1>3. Exists /\ s \in STATUS_TRANSITIONS[tournament.status]
  BY <1>1, <1>2, SettledBefore DEF Holds
<1>4. tournament.status \in Status /\ s \in Status
  BY <1>3 DEF Exists, Status, STATUS_TRANSITIONS
<1>5. PICK state : state = IF s = "running" THEN [step |-> "findRounds"] ELSE Idle
  OBVIOUS
<1>6. /\ tournament' = [tournament EXCEPT !.status = s]
      /\ handlers' = [handlers EXCEPT ![h] = state]
      /\ UNCHANGED <<now, rounds, crashes>>
  BY <1>2, <1>3, <1>5 DEF WriteStatus, Goes
<1>7. /\ s = "running" => state.step = "findRounds"
      /\ s # "running" => state.step = "idle" /\ state = Idle
  BY <1>5 DEF Idle
<1>8. Titled(rounds') /\ TournamentTyped' /\ now' \in Nat /\ tournament'.status = s
  BY <1>4, <1>6 DEF SerialInv, TournamentTyped
<1>9. Holds(state)'
  BY <1>4, <1>7, <1>8 DEF Holds, HoldsNoRow, Exists
<1>10. SerialInv' /\ SettledAs(state)'
  BY <1>1, <1>6, <1>8, <1>9, OneHandlerMoves
<1>11. SettledRounds = rounds
  BY <1>1, SettledBefore DEF SettledAs
<1>12. StatusList(SettledRounds)' =
         IF s = "running" THEN Lifecycle!ActivateFirstRound(StatusList(SettledRounds))
                          ELSE StatusList(SettledRounds)
  <2>1. CASE s = "running"
    <3>1. StatusList(SettledRounds)' = Lifecycle!ActivateFirstRound(StatusList(rounds))'
      BY <1>7, <1>10, <2>1 DEF SettledAs
    <3>2. QED  BY <1>6, <1>11, <2>1, <3>1
  <2>2. CASE s # "running"
    BY <1>6, <1>7, <1>10, <1>11, <2>2 DEF SettledAs
  <2>3. QED  BY <2>1, <2>2
<1>13. Lifecycle!UpdateStatus(T, s)
  <2>1. Lifecycle!Exists(T)
    BY <1>3 DEF Exists, Lifecycle!Exists, Lifecycle!TournamentStatus, Status, T
  <2>2. s \in Lifecycle!STATUS_TRANSITIONS[tournament.status]
    BY <1>3, <1>4, TransitionsAgree
  <2>3. Lifecycle!SetStatus(T, s)
    BY <1>6 DEF Lifecycle!SetStatus, SerialInv, TournamentTyped, T
  <2>4. QED  BY <1>6, <1>12, <2>1, <2>2, <2>3 DEF Lifecycle!UpdateStatus, StatusList, T
<1>14. s \in Lifecycle!TournamentStatus
  BY <1>4 DEF Status, Lifecycle!TournamentStatus
<1>15. Lifecycle!TournamentRequest(T)
  BY <1>13, <1>14 DEF Lifecycle!TournamentRequest
<1>16. QED  BY <1>10, <1>15 DEF Simulates, Lifecycle!Next, T

LEMMA WriteDatesSimulates ==
  ASSUME OneAtATime, SerialInv, NEW h \in Handlers, WriteDates(h) \/ WriteNamed(h)
  PROVE  Simulates
<1>1. handlers[h].step \in {"writeDates", "writeNamed"} /\ InFlight \subseteq {h}
  BY WorksAlone DEF WriteDates, WriteNamed
<1>2. PICK patched : patched = Patched(handlers[h].patch)
  OBVIOUS
<1>3. /\ Exists
      /\ patched.registration_end \in Time /\ patched.end_date \in Time
      /\ patched.registration_end < patched.end_date
  BY <1>1, <1>2, SettledBefore DEF Holds
<1>4. PICK state : state = IF handlers[h].step = "writeDates" THEN Idle
                           ELSE [step |-> "findDefault", title |-> handlers[h].title]
  OBVIOUS
<1>5. /\ tournament' = patched /\ handlers' = [handlers EXCEPT ![h] = state]
      /\ UNCHANGED <<now, rounds, crashes>>
  BY <1>1, <1>2, <1>3, <1>4 DEF WriteDates, WriteNamed, WritePatch, Goes
<1>6. \/ state = Idle /\ state.step = "idle"
      \/ state.step = "findDefault" /\ state.title \in Titles
  BY <1>1, <1>4, SettledBefore DEF Idle, Holds
<1>7. patched = [tournament EXCEPT !.registration_end = patched.registration_end,
                                   !.end_date = patched.end_date]
  BY <1>2 DEF Patched, SerialInv, TournamentTyped
<1>8. Titled(rounds') /\ TournamentTyped' /\ now' \in Nat
  BY <1>3, <1>5, <1>7 DEF SerialInv, TournamentTyped
<1>9. Holds(state)'
  BY <1>6 DEF Holds, HoldsNoRow
<1>10. SerialInv' /\ SettledAs(state)'
  BY <1>1, <1>5, <1>8, <1>9, OneHandlerMoves
<1>11. SettledRounds = rounds /\ SettledRounds' = rounds'
  BY <1>1, <1>6, <1>10, SettledBefore DEF SettledAs
<1>12. Lifecycle!UpdateTournament(T, patched.registration_end, patched.end_date)
  <2>1. Lifecycle!Exists(T)
    BY <1>3 DEF Exists, Lifecycle!Exists, Lifecycle!TournamentStatus, Status, T
  <2>2. StatusList(SettledRounds)' = StatusList(SettledRounds)
    BY <1>5, <1>11
  <2>3. /\ tournament'.status = tournament.status
        /\ tournament'.registration_end = patched.registration_end
        /\ tournament'.end_date = patched.end_date
    BY <1>5, <1>7 DEF SerialInv, TournamentTyped
  <2>4. QED  BY <1>3, <1>5, <2>1, <2>2, <2>3
             DEF Lifecycle!UpdateTournament, Lifecycle!ValidSchedule, StatusList, T
<1>13. patched.registration_end \in Lifecycle!Time /\ patched.end_date \in Lifecycle!Time
  BY <1>3 DEF Time, Lifecycle!Time
<1>14. Lifecycle!TournamentRequest(T)
  BY <1>12, <1>13 DEF Lifecycle!TournamentRequest
<1>15. QED  BY <1>10, <1>14 DEF Simulates, Lifecycle!Next, T

(* A row in the place and with the status of another lists the same.         *)
LEMMA StatusKept ==
  ASSUME NEW rs, NEW r, r \notin rs, NEW row, row \notin rs,
         Listable(rs \cup {r}), Listable(rs \cup {row}),
         row.id = r.id, row.sort_order = r.sort_order, row.status = r.status
  PROVE  StatusList(rs \cup {row}) = StatusList(rs \cup {r})
<1>1. /\ Cardinality(rs \cup {row}) = Cardinality(rs \cup {r})
      /\ Listing(rs \cup {row}) = [Listing(rs \cup {r}) EXCEPT ![Rank(rs \cup {r}, r)] = row]
      /\ StatusList(rs \cup {row}) =
           ReplaceAt(StatusList(rs \cup {r}), Rank(rs \cup {r}, r), row.status)
  BY RowInPlace
<1>2. PICK i, list : i = Rank(rs \cup {r}, r) /\ list = StatusList(rs \cup {r})
  OBVIOUS
<1>3. list[i] = row.status
  BY <1>2, MovedStatus
<1>4. list \in Seq(RoundStatus)
  BY <1>2, StatusListIs
<1>5. ReplaceAt(list, i, row.status) = list
  BY <1>3, <1>4 DEF ReplaceAt
<1>6. QED  BY <1>1, <1>2, <1>5

(* A row that gets another title keeps its place and its status.             *)
LEMMA Retitled ==
  ASSUME Titled(rounds), NEW title \in Titles, NEW chosen \in SUBSET rounds,
         \A r, s \in chosen : r = s, Retitles(chosen, title)
  PROVE  /\ Titled(rounds') /\ (rounds = {} => rounds' = {})
         /\ StatusList(rounds') = StatusList(rounds)
         /\ OneOpen(rounds) => OneOpen(rounds')
<1>1. CASE rounds' = rounds
  BY <1>1
<1>2. CASE rounds' # rounds
  <2>1. /\ \A r \in rounds \ chosen : r.title # title
        /\ rounds' = {IF r \in chosen THEN [r EXCEPT !.title = title] ELSE r : r \in rounds}
    BY <1>2 DEF Retitles
  <2>2. chosen # {}
    BY <1>2, <2>1
  <2>3. PICK r \in rounds : chosen = {r}
    BY <2>2
  <2>4. PICK row : row = [r EXCEPT !.title = title]
    OBVIOUS
  <2>5. /\ row \in Row /\ row.id = r.id /\ row.title = title /\ row.status = r.status
        /\ row.sort_order = r.sort_order
    BY <2>4 DEF Titled, Row
  <2>6. rounds' = (rounds \ {r}) \cup {row}
    BY <2>1, <2>3, <2>4
  <2>7. \A s \in rounds : s.id # row.id => s.title # row.title
    BY <2>1, <2>3, <2>5
  <2>8. /\ row \notin rounds \ {r} /\ rounds = (rounds \ {r}) \cup {r}
        /\ Titled((rounds \ {r}) \cup {row})
    BY <2>5, <2>7, OldRowSaved
  <2> DEFINE B == rounds \ {r}
  <2>9. r \notin B /\ Listable(B \cup {r}) /\ Listable(B \cup {row})
    BY <2>8, TitledIsListable
  <2>10. StatusList(B \cup {row}) = StatusList(B \cup {r})
    <3>1. row \notin B
      BY <2>8
    <3> HIDE DEF B
    <3>2. QED  BY <2>5, <2>9, <3>1, StatusKept
  <2>11. OneOpen(rounds) => OneOpen(rounds')
    BY <2>5, <2>6 DEF OneOpen
  <2>12. QED  BY <2>6, <2>8, <2>10, <2>11
<1>3. QED  BY <1>1, <1>2

(* At most one row has an id, or a title.                                    *)
LEMMA RenamesOne ==
  ASSUME Titled(rounds), NEW h \in Handlers, RenameRound(h), handlers[h].title \in Titles
  PROVE  /\ Titled(rounds') /\ (rounds = {} => rounds' = {})
         /\ StatusList(rounds') = StatusList(rounds)
         /\ OneOpen(rounds) => OneOpen(rounds')
<1>1. PICK chosen, title :
        /\ title = handlers[h].title
        /\ chosen = {r \in rounds : IF handlers[h].step = "rename" THEN r.id = handlers[h].id
                                     ELSE r.title = handlers[h].from}
  OBVIOUS
<1>2. chosen \in SUBSET rounds /\ \A r, s \in chosen : r = s
  BY <1>1 DEF Titled, Ordered
<1>3. Retitles(chosen, title)
  BY <1>1 DEF RenameRound
<1>4. title \in Titles
  BY <1>1
<1>5. QED  BY <1>2, <1>3, <1>4, Retitled

(* To find and to rename a round changes no status and no place.             *)
LEMMA RenamingSimulates ==
  ASSUME OneAtATime, SerialInv, NEW h \in Handlers, FindDefault(h) \/ RenameRound(h)
  PROVE  Simulates
<1>1. handlers[h].step \in {"findDefault", "rename", "renameTitled"} /\ InFlight \subseteq {h}
  BY WorksAlone DEF FindDefault, RenameRound
<1>2. handlers[h].title \in Titles /\ SettledRounds = rounds
  BY <1>1, SettledBefore DEF Holds, SettledAs
<1>3. Titled(rounds') /\ StatusList(rounds') = StatusList(rounds)
  BY <1>2, RenamesOne DEF FindDefault, SerialInv
<1>4. PICK state : /\ handlers' = [handlers EXCEPT ![h] = state]
                   /\ \/ state = Idle
                      \/ state.step = "rename" /\ state.title = handlers[h].title
  <2>1. PICK next : /\ Goes(h, next)
                    /\ \/ next = Idle
                       \/ \E r \in rounds :
                            next = [step |-> "rename", id |-> r.id, title |-> handlers[h].title]
    BY DEF FindDefault, RenameRound
  <2>2. \/ next = Idle
        \/ next.step = "rename" /\ next.title = handlers[h].title
    BY <2>1
  <2>3. handlers' = [handlers EXCEPT ![h] = next]
    BY <2>1 DEF Goes
  <2>4. QED  BY <2>2, <2>3
<1>a. Idle.step = "idle"
  BY DEF Idle
<1>5. Holds(state)'
  BY <1>2, <1>4, <1>a DEF Holds, HoldsNoRow
<1>6. UNCHANGED <<now, tournament, crashes>>
  BY DEF FindDefault, RenameRound
<1>7. SettledAs(state)' => RoundsMay(StatusList(SettledRounds), StatusList(SettledRounds)')
  <2>1. SettledAs(state)' => SettledRounds' = rounds'
    BY <1>4, <1>a DEF SettledAs
  <2>2. QED  BY <1>2, <1>3, <2>1 DEF RoundsMay
<1>8. QED  BY <1>1, <1>3, <1>4, <1>5, <1>6, <1>7, MoveSimulates

\* Where a handler that has nothing left to save ends up.
LEMMA ReturnsTo ==
  ASSUME NEW h
  PROVE  \/ Return(h) = Idle /\ Return(h).step = "idle"
         \/ Return(h).step = "selectToFinish"
BY DEF Return, Idle

LEMMA FindRoundsSimulates ==
  ASSUME OneAtATime, SerialInv, NEW h \in Handlers, FindRounds(h)
  PROVE  Simulates
<1>1. handlers[h].step = "findRounds" /\ InFlight \subseteq {h}
  BY WorksAlone DEF FindRounds
<1>2. Exists /\ Titled(rounds)
  BY <1>1, SettledBefore DEF Holds, SerialInv, OneAtATime
<1>3. PICK rows : rows = RowsToOpen(Listing(rounds))
  OBVIOUS
<1>4. PICK state : state = IF rows = <<>> THEN Return(h) ELSE [step |-> "save", rows |-> rows]
  OBVIOUS
<1>5. /\ handlers' = [handlers EXCEPT ![h] = state]
      /\ UNCHANGED <<now, tournament, rounds, crashes>>
  BY <1>3, <1>4 DEF FindRounds, Continue, Goes
<1>6. StatusList(SettledRounds) = Lifecycle!ActivateFirstRound(StatusList(rounds))
  BY <1>1, SettledBefore DEF SettledAs
<1>7. ASSUME Holds(state)',
             SettledAs(state)' =>
               StatusList(SettledRounds)' = Lifecycle!ActivateFirstRound(StatusList(rounds))
      PROVE  Simulates
  <2>1. Titled(rounds')
    BY <1>2, <1>5
  <2>2. SettledAs(state)' =>
          RoundsMay(StatusList(SettledRounds), StatusList(SettledRounds)')
    BY <1>6, <1>7 DEF RoundsMay
  <2>3. QED  BY <1>1, <1>5, <1>7, <2>1, <2>2, MoveSimulates
<1>8. CASE rows = <<>> /\ Lifecycle!ActivateFirstRound(StatusList(rounds)) = StatusList(rounds)
  <2>1. state.step \in {"idle", "selectToFinish"} /\ (state.step = "idle" => state = Idle)
    BY <1>4, <1>8, ReturnsTo
  <2>2. Holds(state)'
    BY <2>1 DEF Holds, HoldsNoRow
  <2>3. SettledAs(state)' => SettledRounds' = rounds
    BY <1>5, <2>1 DEF SettledAs
  <2>4. QED  BY <1>7, <1>8, <2>2, <2>3
<1>9. CASE /\ rounds = {} /\ rows = <<DefaultRound>>
           /\ Lifecycle!ActivateFirstRound(StatusList(rounds)) = <<"active">>
  <2>1. PICK row : row = DefaultRound
    OBVIOUS
  <2>2. /\ row \in Row /\ row.id = NewRow /\ row.status = "active"
        /\ TitleFree(rounds, row)
    BY RequestsAssumption, <1>2, <1>9, <2>1 DEF DefaultRound, Row, RoundStatus,
       TitleFree
  <2>3. state.step = "save" /\ state.rows = <<row>>
    BY <1>4, <1>9, <2>1
  <2>4. Holds(state)'
    BY <2>2, <2>3 DEF Holds
  <2>5. ASSUME SettledAs(state)' PROVE StatusList(SettledRounds)' = <<"active">>
    <3>1. PICK after : after = SettledRounds'
      OBVIOUS
    <3>2. SavedAs(rounds, row, after)
      BY <1>5, <2>2, <2>3, <2>5, <3>1 DEF SettledAs, SavedAs, Exists
    <3>3. PICK i \in RoundId : after = rounds \cup {[row EXCEPT !.id = i]}
      BY <1>2, <2>2, <3>2 DEF SavedAs
    <3>4. PICK new : new = [row EXCEPT !.id = i]
      OBVIOUS
    <3>5. /\ new.id \in Nat /\ new.sort_order \in Nat /\ new.status = "active"
          /\ new.status \in RoundStatus
      BY RequestsAssumption, <1>2, <2>2, <3>4 DEF Row, RoundStatus
    <3>6. after = {new}
      BY <1>9, <3>3, <3>4
    <3>7. StatusList(after) = <<"active">>
      BY <3>5, <3>6, OneStatus
    <3>8. QED  BY <3>1, <3>7
  <2>6. QED  BY <1>7, <1>9, <2>4, <2>5
<1>10. ASSUME NEW row \in Row, rows = <<row>>, row.id # NewRow, TitleFree(rounds, row),
              StatusList(Put(rounds, row)) = Lifecycle!ActivateFirstRound(StatusList(rounds))
       PROVE  Simulates
  <2>1. state.step = "save" /\ state.rows = <<row>>
    BY <1>4, <1>10
  <2>2. Holds(state)'
    BY <2>1 DEF Holds
  <2>3. SettledAs(state)' => SettledRounds' = Put(rounds, row)
    BY <1>2, <1>5, <1>10, <2>1 DEF SettledAs, SavedAs, Exists
  <2>4. QED  BY <1>7, <1>10, <2>2, <2>3
<1>11. QED  BY <1>2, <1>3, <1>8, <1>9, <1>10, RowsOpen

LEMMA CheckNoOtherSimulates ==
  ASSUME OneAtATime, SerialInv, NEW h \in Handlers, CheckNoOther(h)
  PROVE  Simulates
<1>1. handlers[h].step = "checkNoOther" /\ InFlight \subseteq {h}
  BY WorksAlone DEF CheckNoOther
<1>2. PICK row \in Row :
        /\ row = handlers[h].row /\ row.status = "active"
        /\ row.id = NewRow \/ \E r \in rounds : r.id = row.id /\ r.status # "active"
  BY <1>1, SettledBefore DEF Holds
<1>3. PICK other \in BOOLEAN : other = (\E r \in rounds : r.status = "active" /\ r.id # row.id)
  OBVIOUS
<1>4. PICK state : state = IF other THEN Idle ELSE [step |-> "save", rows |-> <<row>>]
  OBVIOUS
<1>5. /\ handlers' = [handlers EXCEPT ![h] = state]
      /\ UNCHANGED <<now, tournament, rounds, crashes>>
  BY <1>2, <1>3, <1>4 DEF CheckNoOther, Goes
<1>6. SettledRounds = rounds /\ Titled(rounds) /\ Titled(rounds')
  BY <1>1, <1>5, SettledBefore DEF SettledAs, SerialInv
<1>7. CASE other
  <2>1. state = Idle /\ state.step = "idle"
    BY <1>4, <1>7 DEF Idle
  <2>2. Holds(state)'
    BY <2>1 DEF Holds, HoldsNoRow
  <2>3. SettledAs(state)' => SettledRounds' = rounds
    BY <1>5, <2>1 DEF SettledAs
  <2>4. SettledAs(state)' =>
          RoundsMay(StatusList(SettledRounds), StatusList(SettledRounds)')
    BY <1>6, <2>3 DEF RoundsMay
  <2>5. QED  BY <1>1, <1>5, <1>6, <2>2, <2>4, MoveSimulates
<1>8. CASE ~other
  <2>1. state.step = "save" /\ state.rows = <<row>>
    BY <1>4, <1>8
  <2>2. Holds(state)'
    BY <2>1 DEF Holds
  <2>3. PICK after : after = SettledRounds'
    OBVIOUS
  <2>4. SettledAs(state)' => SavedAs(rounds, row, after)
    BY <1>5, <2>1, <2>3 DEF SettledAs, SavedAs, Exists
  <2>5. \A r \in rounds : r.id # NewRow /\ (r.status = "active" => r.id = row.id)
    BY RequestsAssumption, <1>3, <1>6, <1>8 DEF Titled, OneAtATime
  <2>6. SavedAs(rounds, row, after) => RoundsMay(StatusList(rounds), StatusList(after))
    <3> SUFFICES ASSUME SavedAs(rounds, row, after)
                 PROVE  RoundsMay(StatusList(rounds), StatusList(after))
      OBVIOUS
    <3>1. row.id = NewRow => (row.status = "active" => NoneOpen(rounds))
      BY <2>5 DEF NoneOpen
    <3>2. row.id # NewRow =>
            \E r \in rounds :
              /\ r.id = row.id
              /\ row.status = "active" /\ r.status # "active" => NoneOpen(rounds \ {r})
      BY <1>2, <1>6, <2>5 DEF NoneOpen, Titled, Ordered
    <3>3. QED  BY <1>6, <3>1, <3>2, SavedRowIsARequest
  <2>7. SettledAs(state)' =>
          RoundsMay(StatusList(SettledRounds), StatusList(SettledRounds)')
    BY <1>6, <2>3, <2>4, <2>6
  <2>8. QED  BY <1>1, <1>5, <1>6, <2>2, <2>7, MoveSimulates
<1>9. QED  BY <1>7, <1>8

LEMMA SelectToFinishSimulates ==
  ASSUME OneAtATime, SerialInv, SelectToFinish
  PROVE  Simulates
<1>0. timer \in Handlers
  BY DEF Handlers
<1>1. handlers[timer].step = "selectToFinish" /\ InFlight \subseteq {timer}
  BY <1>0, WorksAlone DEF SelectToFinish
<1>2. PICK state :
        state = IF tournament.status = "running" /\ tournament.end_date <= passTime
                THEN [step |-> "writeStatus", status |-> "finished"] ELSE Idle
  OBVIOUS
<1>3. /\ handlers' = [handlers EXCEPT ![timer] = state]
      /\ UNCHANGED <<now, tournament, rounds, crashes>>
  BY <1>2 DEF SelectToFinish, Goes
<1>4. \/ state = Idle /\ state.step = "idle"
      \/ state.step = "writeStatus" /\ state.status = "finished" /\ tournament.status = "running"
  BY <1>2 DEF Idle
<1>5. Holds(state)'
  <2>1. CASE state = Idle /\ state.step = "idle"
    BY <2>1 DEF Holds, HoldsNoRow
  <2>2. CASE state.step = "writeStatus" /\ state.status = "finished" /\ tournament.status = "running"
    BY <1>3, <2>2 DEF Holds, HoldsNoRow, Exists, Status, STATUS_TRANSITIONS
  <2>3. QED  BY <1>4, <2>1, <2>2
<1>6. SettledRounds = rounds /\ Titled(rounds')
  BY <1>0, <1>1, <1>3, SettledBefore DEF SettledAs, SerialInv
<1>7. SettledAs(state)' => SettledRounds' = rounds
  BY <1>3, <1>4 DEF SettledAs
<1>8. SettledAs(state)' =>
        RoundsMay(StatusList(SettledRounds), StatusList(SettledRounds)')
  BY <1>6, <1>7 DEF RoundsMay
<1>9. QED  BY <1>0, <1>1, <1>3, <1>5, <1>6, <1>8, MoveSimulates

(* A save keeps the ids and the titles of a tournament's rounds apart.       *)
LEMMA SavedIsTitled ==
  ASSUME NEW rs, Titled(rs), NEW row \in Row, NEW after,
         SavedAs(rs, row, after)
  PROVE  Titled(after)
<1>1. CASE Exists /\ TitleFree(rs, row) /\ row.id = NewRow
  <2>1. PICK i \in RoundId : (\A r \in rs : r.id # i) /\ after = rs \cup {[row EXCEPT !.id = i]}
    BY <1>1 DEF SavedAs
  <2>2. \A r \in rs : r.title # row.title
    BY RequestsAssumption, <1>1 DEF Titled, TitleFree
  <2>3. QED  BY <2>1, <2>2, NewRowSaved
<1>2. CASE Exists /\ TitleFree(rs, row) /\ row.id # NewRow
  <2>1. PICK others : others = {r \in rs : r.id # row.id}
    OBVIOUS
  <2>2. after = others \cup {row}
    BY <1>2, <2>1 DEF SavedAs, Put
  <2>3. IsFiniteSet(after)
    BY <2>1, <2>2, FS_Subset, FS_AddElement DEF Titled, Ordered
  <2>4. row.id \in RoundId /\ row.id \in Nat /\ row.sort_order \in Nat
    BY RequestsAssumption, <1>2 DEF Row
  <2>5. Ordered(after)
    BY <2>1, <2>2, <2>3, <2>4 DEF Titled, Ordered
  <2>6. QED  BY <1>2, <2>1, <2>2, <2>4, <2>5 DEF Titled, TitleFree
<1>3. CASE ~(Exists /\ TitleFree(rs, row))
  BY <1>3 DEF SavedAs
<1>4. QED  BY <1>1, <1>2, <1>3

LEMMA SaveRowSimulates ==
  ASSUME OneAtATime, SerialInv, NEW h \in Handlers, SaveRow(h)
  PROVE  Simulates
<1>1. handlers[h].step = "save" /\ InFlight \subseteq {h}
  BY WorksAlone DEF SaveRow
<1>2. /\ Titled(rounds) /\ PendingRows(h) = handlers[h].rows
      /\ UNCHANGED <<now, tournament, crashes>>
  BY <1>1 DEF SerialInv, PendingRows, SaveRow
<1>3. ASSUME NEW row \in Row, handlers[h].rows = <<row>>
      PROVE  Simulates
  <2>1. PICK state :
          state = IF CanSave(rounds, row) THEN Return(h) ELSE Idle
    OBVIOUS
  <2>2. Head(<<row>>) = row /\ Tail(<<row>>) = <<>>
    OBVIOUS
  <2>3. rounds' = SaveOn(rounds, row) /\ handlers' = [handlers EXCEPT ![h] = state]
    BY <1>3, <2>1, <2>2 DEF SaveRow, Continue, Goes, SaveOn
  <2>4. SettledRounds = rounds'
    BY <1>1, <1>2, <1>3, <2>3, SettledByRows
  <2>5. Titled(rounds')
    <3>1. SavedAs(rounds, row, SettledRounds)
      BY <1>1, <1>3, SettledBefore DEF SettledAs
    <3>2. QED  BY <1>2, <2>4, <3>1, SavedIsTitled DEF OneAtATime
  <2>6. state.step \in {"idle", "selectToFinish"} /\ (state.step = "idle" => state = Idle)
    BY <2>1, ReturnsTo DEF Idle
  <2>7. Holds(state)'
    BY <2>6 DEF Holds, HoldsNoRow
  <2>8. SettledAs(state)' =>
          RoundsMay(StatusList(SettledRounds), StatusList(SettledRounds)')
    <3>1. SettledAs(state)' => SettledRounds' = rounds'
      BY <2>6 DEF SettledAs
    <3>2. QED  BY <2>4, <3>1 DEF RoundsMay
  <2>9. QED  BY <1>1, <1>2, <2>3, <2>5, <2>7, <2>8, MoveSimulates
<1>4. ASSUME NEW a \in Row, NEW b \in Row, handlers[h].rows = <<a, b>>,
             a.id # NewRow, b.id # NewRow, Exists, TitleFree(rounds, a)
      PROVE  Simulates
  <2>1. PICK state : state = [step |-> "save", rows |-> <<b>>]
    OBVIOUS
  <2>2. Head(<<a, b>>) = a /\ Tail(<<a, b>>) = <<b>> /\ <<b>> # <<>>
    OBVIOUS
  <2>3. CanSave(rounds, a)
    BY <1>4, CanSaveIs
  <2>4. rounds' = Saved(rounds, a) /\ handlers' = [handlers EXCEPT ![h] = state]
    BY <1>4, <2>1, <2>2, <2>3 DEF SaveRow, Continue, Goes
  <2>5. rounds' = SaveOn(rounds, a) /\ rounds' = Put(rounds, a)
    BY <1>4, <2>3, <2>4 DEF SaveOn, Saved, Put
  <2>6. Titled(rounds')
    <3>1. SavedAs(rounds, a, rounds')
      BY <1>4, <2>5 DEF SavedAs
    <3>2. QED  BY <1>2, <3>1, SavedIsTitled DEF OneAtATime
  <2>7. SettledRounds = SaveOn(rounds', b)
    BY <1>1, <1>2, <1>4, <2>5, SettledByRows
  <2>8. state.step = "save" /\ state.rows = <<b>>
    BY <2>1
  <2>9. Holds(state)'
    BY <2>8 DEF Holds
  <2>10. ASSUME SettledAs(state)' PROVE SettledRounds' = SettledRounds
    <3>1. PICK after, rs : after = SettledRounds' /\ rs = rounds'
      OBVIOUS
    <3>2. SavedAs(rs, b, after)
      BY <1>2, <2>8, <2>10, <3>1 DEF SettledAs, SavedAs, Exists
    <3>3. after = SaveOn(rs, b)
      BY <1>4, <3>2, SaveOnIsPut DEF SavedAs
    <3>4. QED  BY <2>7, <3>1, <3>3
  <2>11. SettledAs(state)' =>
           RoundsMay(StatusList(SettledRounds), StatusList(SettledRounds)')
    BY <2>10 DEF RoundsMay
  <2>12. QED  BY <1>1, <1>2, <2>4, <2>6, <2>9, <2>11, MoveSimulates
<1>5. QED  BY <1>1, <1>3, <1>4, SettledBefore DEF Holds

LEMMA NextSimulates ==
  ASSUME OneAtATime, SerialInv, [Next]_vars
  PROVE  Simulates
<1>1. ASSUME ImmediateRequest PROVE Simulates
  BY <1>1, CreateTournamentSimulates, DeleteTournamentSimulates, RemoveRoundSimulates
     DEF ImmediateRequest
<1>2. ASSUME NEW h \in Slots, Request(h) PROVE Simulates
  BY <1>2, ReadingSimulates, RenamesBegin, RoundEditsSimulate, AdvanceSimulates DEF Request
<1>3. ASSUME NEW h \in Handlers, Statement(h) PROVE Simulates
  BY <1>3, WriteStatusSimulates, WriteDatesSimulates, FindRoundsSimulates, CheckNoOtherSimulates,
     SaveRowSimulates, RenamingSimulates DEF Statement
<1>4. QED  BY <1>1, <1>2, <1>3, WaitingSimulates, ReadingSimulates, SelectToFinishSimulates
           DEF Next

LEMMA InitSimulates ==
  ASSUME OneAtATime, Init
  PROVE  SerialInv /\ Lifecycle!Init
<1>1. /\ now = 0 /\ crashes = 0 /\ rounds = {}
      /\ tournament = [status |-> "absent", registration_end |-> 0, end_date |-> 0]
      /\ handlers = [h \in Handlers |-> Idle]
  BY DEF Init
<1>2. Titled(rounds) /\ TournamentTyped
  <2>1. 0 \in Time
    BY RequestsAssumption DEF Time, OneAtATime
  <2>2. QED  BY <1>1, <2>1, FS_EmptySet DEF Titled, Ordered, TournamentTyped
<1>3. InFlight = {}
  BY <1>1 DEF InFlight
<1>4. \A h \in Handlers : Holds(handlers[h])
  BY <1>1 DEF Holds, HoldsNoRow, Idle
<1>5. SerialInv
  BY <1>1, <1>2, <1>3, <1>4 DEF SerialInv
<1>6. SettledRounds = rounds
  <2>1. timer \in Handlers /\ handlers[timer].step = "idle"
    BY <1>1 DEF Handlers, Idle
  <2>2. QED  BY <1>3, <1>5, <2>1, SettledBefore DEF SettledAs
<1>7. StatusList(SettledRounds) = <<>>
  <2>1. Listable({}) /\ Cardinality({}) = 0
    BY FS_EmptySet DEF Listable, Ordered
  <2>2. QED  BY <1>1, <1>6, <2>1, StatusListIs
<1>8. Lifecycle!Init
  BY <1>1, <1>7 DEF Lifecycle!Init, Lifecycle!Absent, StatusList
<1>9. QED  BY <1>5, <1>8

(* One at a time, the handlers of a tournament do what the serial model says:  *)
(* the statements between a handler's first read and its last save             *)
(* (tournaments.service.ts, rounds.service.ts) add up to one step of           *)
(* TournamentLifecycle, whatever the titles, the ids and the clock, as long as *)
(* an id is left for each title and the process lives.                         *)
THEOREM RequestsImplementTheSerialModel ==
  ASSUME OneAtATime
  PROVE  Spec => ImplementsLifecycle
<1>1. Init => SerialInv /\ Lifecycle!Init
  BY InitSimulates
<1>2. SerialInv /\ [Next]_vars => SerialInv' /\ [Lifecycle!Next]_(Lifecycle!vars)
  BY NextSimulates DEF Simulates
<1>3. QED  BY <1>1, <1>2, PTL DEF Spec, ImplementsLifecycle, Lifecycle!Spec
-----------------------------------------------------------------------------
(* One handler, one open round                                               *)

\* All rounds that are open are among those with these ids.
OpenOnly(rs, ids) == \A r \in rs : r.status = "active" => r.id \in ids

\* A handler that is about to open a round has seen no other open, or closes it first.
SavesOne(state) ==
  state.step = "save" =>
    \/ \E row \in Row :
         /\ state.rows = <<row>>
         /\ row.status = "active" => OpenOnly(rounds, {row.id})
    \/ \E a, b \in Row :
         /\ state.rows = <<a, b>> /\ a.id # NewRow
         /\ a.status # "active" /\ OpenOnly(rounds, {a.id})

OneRound == OneOpen(rounds) /\ \A h \in Handlers : SavesOne(handlers[h])

LEMMA RoundsUntouched ==
  ASSUME SerialInv, OneRound, NEW h \in Handlers, NEW state,
         handlers' = [handlers EXCEPT ![h] = state], rounds' = rounds, SavesOne(state)
  PROVE  OneRound'
<1>1. /\ handlers'[h] = state
      /\ \A g \in Handlers : g # h => handlers'[g] = handlers[g]
  BY DEF SerialInv
<1>2. ASSUME NEW g \in Handlers PROVE SavesOne(handlers[g])'
  <2>1. CASE g = h
    BY <1>1, <2>1 DEF SavesOne, OpenOnly
  <2>2. CASE g # h
    BY <1>1, <2>2 DEF OneRound, SavesOne, OpenOnly
  <2>3. QED  BY <2>1, <2>2
<1>3. QED  BY <1>2 DEF OneRound, OneOpen

(* Handlers that have nothing to save yet.                                   *)
LEMMA BeginsUntouched ==
  ASSUME OneAtATime, SerialInv, OneRound,
         \/ \E h \in Slots, s \in Status : BeginUpdateStatus(h, s)
         \/ \E h \in Slots : \E patch : BeginUpdateTournament(h, patch)
         \/ BeginPass \/ SelectToFinish
         \/ \E h \in Handlers : WriteStatus(h) \/ WriteDates(h)
  PROVE  OneRound'
<1>a. PICK h \in Handlers : \E state :
        /\ handlers' = [handlers EXCEPT ![h] = state]
        /\ rounds' = rounds /\ state.step # "save"
  <2>1. timer \in Handlers /\ Slots \subseteq Handlers
    BY DEF Handlers
  <2>2. ASSUME NEW h \in Slots, NEW s \in Status, BeginUpdateStatus(h, s)
        PROVE  \E state : /\ handlers' = [handlers EXCEPT ![h] = state]
                          /\ rounds' = rounds /\ state.step # "save"
    <3>1. PICK state : state = [step |-> "writeStatus", status |-> s]
      OBVIOUS
    <3>2. handlers' = [handlers EXCEPT ![h] = state] /\ rounds' = rounds
      BY <2>2, <3>1 DEF BeginUpdateStatus, Begins
    <3>3. state.step # "save"
      BY <3>1
    <3>4. QED  BY <3>2, <3>3
  <2>3. ASSUME NEW h \in Slots, NEW patch, BeginUpdateTournament(h, patch)
        PROVE  \E state : /\ handlers' = [handlers EXCEPT ![h] = state]
                          /\ rounds' = rounds /\ state.step # "save"
    <3>1. PICK state : state = [step |-> "writeDates", patch |-> patch]
      OBVIOUS
    <3>2. handlers' = [handlers EXCEPT ![h] = state] /\ rounds' = rounds
      BY <2>3, <3>1 DEF BeginUpdateTournament, Begins
    <3>3. state.step # "save"
      BY <3>1
    <3>4. QED  BY <3>2, <3>3
  <2>4. ASSUME NEW h \in Handlers, WriteStatus(h)
        PROVE  \E state : /\ handlers' = [handlers EXCEPT ![h] = state]
                          /\ rounds' = rounds /\ state.step # "save"
    <3>1. PICK state : state = IF handlers[h].status = "running"
                               THEN [step |-> "findRounds"] ELSE Idle
      OBVIOUS
    <3>2. handlers' = [handlers EXCEPT ![h] = state] /\ rounds' = rounds
      BY <2>4, <3>1 DEF WriteStatus, Goes
    <3>3. state.step # "save"
      BY <3>1 DEF Idle
    <3>4. QED  BY <3>2, <3>3
  <2>5. ASSUME NEW h \in Handlers, WriteDates(h)
        PROVE  \E state : /\ handlers' = [handlers EXCEPT ![h] = state]
                          /\ rounds' = rounds /\ state.step # "save"
    <3>1. PICK state : state = Idle
      OBVIOUS
    <3>2. handlers' = [handlers EXCEPT ![h] = state] /\ rounds' = rounds
      BY <2>5, <3>1 DEF WriteDates, Goes
    <3>3. state.step # "save"
      BY <3>1 DEF Idle
    <3>4. QED  BY <3>2, <3>3
  <2>6. ASSUME BeginPass \/ SelectToFinish
        PROVE  \E state : /\ handlers' = [handlers EXCEPT ![timer] = state]
                          /\ rounds' = rounds /\ state.step # "save"
    <3>1. PICK s : s = IF tournament.status = "registration" /\ tournament.registration_end <= now
                       THEN [step |-> "writeStatus", status |-> "running"]
                       ELSE [step |-> "selectToFinish"]
      OBVIOUS
    <3>2. PICK f : f = IF tournament.status = "running" /\ tournament.end_date <= passTime
                       THEN [step |-> "writeStatus", status |-> "finished"] ELSE Idle
      OBVIOUS
    <3>3. s.step # "save" /\ f.step # "save"
      BY <3>1, <3>2 DEF Idle
    <3>4. /\ rounds' = rounds
          /\ \/ handlers' = [handlers EXCEPT ![timer] = s]
             \/ handlers' = [handlers EXCEPT ![timer] = f]
      BY <2>6, <3>1, <3>2 DEF BeginPass, SelectToFinish, Goes
    <3>5. QED  BY <3>3, <3>4
  <2>7. QED  BY <2>1, <2>2, <2>3, <2>4, <2>5, <2>6
<1>1. PICK state : /\ handlers' = [handlers EXCEPT ![h] = state]
                   /\ rounds' = rounds /\ state.step # "save"
  BY <1>a
<1>2. SavesOne(state)
  BY <1>1 DEF SavesOne
<1>3. QED  BY <1>1, <1>2, RoundsUntouched

(* Renaming opens no round, and holds no row.                                *)
LEMMA RenamesUntouched ==
  ASSUME OneAtATime, SerialInv, OneRound, NEW h \in Handlers,
         \/ \E patch, title : BeginRenameTournament(h, patch, title)
         \/ \E from, title : BeginRenameChild(h, from, title)
         \/ WriteNamed(h) \/ FindDefault(h) \/ RenameRound(h)
  PROVE  OneRound'
<1>1. PICK state : handlers' = [handlers EXCEPT ![h] = state] /\ state.step # "save"
  <2>1. ASSUME NEW patch, NEW title, BeginRenameTournament(h, patch, title)
        PROVE  \E state : handlers' = [handlers EXCEPT ![h] = state] /\ state.step # "save"
    <3>1. PICK state : state = [step |-> "writeNamed", patch |-> patch, title |-> title]
      OBVIOUS
    <3>2. handlers' = [handlers EXCEPT ![h] = state] /\ state.step # "save"
      BY <2>1, <3>1 DEF BeginRenameTournament, Begins
    <3>3. QED  BY <3>2
  <2>2. ASSUME NEW from, NEW title, BeginRenameChild(h, from, title)
        PROVE  \E state : handlers' = [handlers EXCEPT ![h] = state] /\ state.step # "save"
    <3>1. PICK state : state = [step |-> "renameTitled", from |-> from, title |-> title]
      OBVIOUS
    <3>2. handlers' = [handlers EXCEPT ![h] = state] /\ state.step # "save"
      BY <2>2, <3>1 DEF BeginRenameChild, Begins
    <3>3. QED  BY <3>2
  <2>3. ASSUME NEW next, Goes(h, next), next.step # "save"
        PROVE  \E state : handlers' = [handlers EXCEPT ![h] = state] /\ state.step # "save"
    BY <2>3 DEF Goes
  <2>4. CASE WriteNamed(h)
    <3>1. PICK next : next = IF Exists THEN [step |-> "findDefault", title |-> handlers[h].title]
                             ELSE Idle
      OBVIOUS
    <3>2. Goes(h, next) /\ next.step # "save"
      BY <2>4, <3>1 DEF WriteNamed, Idle
    <3>3. QED  BY <2>3, <3>2
  <2>5. CASE FindDefault(h)
    <3>1. PICK next : /\ Goes(h, next)
                      /\ \/ next = Idle
                         \/ \E r \in rounds :
                              next = [step |-> "rename", id |-> r.id, title |-> handlers[h].title]
      BY <2>5 DEF FindDefault
    <3>2. next.step # "save"
      BY <3>1 DEF Idle
    <3>3. QED  BY <2>3, <3>1, <3>2
  <2>6. CASE RenameRound(h)
    BY <2>3, <2>6 DEF RenameRound, Idle
  <2>7. QED  BY <2>1, <2>2, <2>4, <2>5, <2>6
<1>2. SavesOne(state) /\ SavesOne(state)'
  BY <1>1 DEF SavesOne
<1>3. CASE rounds' = rounds
  BY <1>1, <1>2, <1>3, RoundsUntouched
<1>4. CASE rounds' # rounds
  <2>1. RenameRound(h)
    BY <1>4 DEF BeginRenameTournament, BeginRenameChild, Begins, WriteNamed, FindDefault
  <2>2. handlers[h].step \in {"rename", "renameTitled"} /\ InFlight \subseteq {h}
    BY <2>1, WorksAlone DEF RenameRound
  <2>3. handlers[h].title \in Titles
    BY <2>2, SettledBefore DEF Holds
  <2>4. OneOpen(rounds')
    BY <2>1, <2>3, RenamesOne DEF SerialInv, OneRound
  <2>5. ASSUME NEW g \in Handlers PROVE SavesOne(handlers[g])'
    <3>1. handlers'[g] = IF g = h THEN state ELSE handlers[g]
      BY <1>1 DEF SerialInv
    <3>2. g # h => handlers[g] = Idle
      BY <2>2, OneHolds
    <3>3. handlers'[g].step # "save"
      BY <1>1, <3>1, <3>2 DEF Idle
    <3>4. QED  BY <3>3 DEF SavesOne
  <2>6. QED  BY <2>4, <2>5 DEF OneRound
<1>5. QED  BY <1>3, <1>4

(* Rounds that are created or edited: one that is about to be open is checked  *)
(* against the others first, unless it was open before.                        *)
LEMMA EditsSaveOne ==
  ASSUME OneAtATime, SerialInv, OneRound, NEW h \in Slots,
         \/ \E row \in NewRows : BeginCreateRound(h, row)
         \/ \E r \in rounds, row \in NewRows :
              BeginUpdateRound(h, r, [row EXCEPT !.id = r.id])
  PROVE  OneRound'
<1>1. PICK row \in Row, opens \in BOOLEAN :
        /\ handlers' = [handlers EXCEPT ![h] = Checked(row, opens)] /\ rounds' = rounds
        /\ ~opens /\ row.status = "active" =>
             \E r \in rounds : r.id = row.id /\ r.status = "active"
  <2>1. ASSUME NEW row \in NewRows, BeginCreateRound(h, row)
        PROVE  \E opens \in BOOLEAN :
                 /\ row \in Row
                 /\ handlers' = [handlers EXCEPT ![h] = Checked(row, opens)] /\ rounds' = rounds
                 /\ ~opens => row.status # "active"
    <3>1. PICK opens \in BOOLEAN : opens = (row.status = "active")
      OBVIOUS
    <3>2. row \in Row
      BY DEF NewRows, Row
    <3>3. QED  BY <2>1, <3>1, <3>2 DEF BeginCreateRound, Begins
  <2>2. ASSUME NEW r \in rounds, NEW new \in NewRows,
               BeginUpdateRound(h, r, [new EXCEPT !.id = r.id])
        PROVE  \E row \in Row, opens \in BOOLEAN :
                 /\ handlers' = [handlers EXCEPT ![h] = Checked(row, opens)] /\ rounds' = rounds
                 /\ row.id = r.id
                 /\ ~opens /\ row.status = "active" => r.status = "active"
    <3>1. PICK row : row = [new EXCEPT !.id = r.id]
      OBVIOUS
    <3>2. row \in Row /\ row.id = r.id
      BY <3>1 DEF NewRows, Row, SerialInv, Titled
    <3>3. PICK opens \in BOOLEAN : opens = (row.status = "active" /\ r.status # "active")
      OBVIOUS
    <3>4. handlers' = [handlers EXCEPT ![h] = Checked(row, opens)] /\ rounds' = rounds
      BY <2>2, <3>1, <3>3 DEF BeginUpdateRound, Begins
    <3>5. QED  BY <3>2, <3>3, <3>4
  <2>3. CASE \E row \in NewRows : BeginCreateRound(h, row)
    BY <2>1, <2>3
  <2>4. CASE \E r \in rounds, row \in NewRows : BeginUpdateRound(h, r, [row EXCEPT !.id = r.id])
    <3>1. PICK r \in rounds, new \in NewRows : BeginUpdateRound(h, r, [new EXCEPT !.id = r.id])
      BY <2>4
    <3>2. QED  BY <2>2, <3>1
  <2>5. QED  BY <2>3, <2>4
<1>2. PICK state : state = Checked(row, opens)
  OBVIOUS
<1>3. SavesOne(state)
  <2>1. CASE opens
    BY <1>2, <2>1 DEF Checked, SavesOne
  <2>2. CASE ~opens
    <3>1. state.rows = <<row>>
      BY <1>2, <2>2 DEF Checked
    <3>2. row.status = "active" => OpenOnly(rounds, {row.id})
      BY <1>1, <2>2 DEF OneRound, OneOpen, OpenOnly
    <3>3. QED  BY <3>1, <3>2 DEF SavesOne
  <2>3. QED  BY <2>1, <2>2
<1>4. h \in Handlers
  BY DEF Handlers
<1>5. QED  BY <1>1, <1>2, <1>3, <1>4, RoundsUntouched

(* Going on or back closes the round that is open before it opens another.   *)
LEMMA AdvancesCloseFirst ==
  ASSUME NEW rs, Titled(rs), OneOpen(rs), NEW rows,
         rows \in {NextRows(Listing(rs)), PreviousRows(Listing(rs))}
  PROVE  /\ \A row : rows = <<row>> /\ row.status = "active" => OpenOnly(rs, {row.id})
         /\ \A a, b : rows = <<a, b>> => a.status # "active" /\ OpenOnly(rs, {a.id})
<1>1. PICK list, n : list = Listing(rs) /\ n = Cardinality(rs)
  OBVIOUS
<1>2. Listable(rs) /\ list \in [1 .. n -> rs] /\ n \in Nat
  BY <1>1, ListingIs, TitledIsListable DEF Listable
<1>3. CASE ActiveIn(list) = {}
  <2>1. NoneOpen(rs)
    BY <1>1, <1>2, <1>3, ActiveIsFirst
  <2>2. rows = <<With(list[1], "active")>>
    BY <1>1, <1>3 DEF NextRows, PreviousRows
  <2>3. QED  BY <2>1, <2>2 DEF NoneOpen, OpenOnly
<1>4. CASE ActiveIn(list) # {}
  <2>1. PICK i \in 1 .. n : ActiveIn(list) = {i}
    BY <1>1, <1>2, <1>4, ActiveIsFirst
  <2>2. list[i].status = "active" /\ list[i] \in rs
    BY <1>2, <2>1 DEF ActiveIn
  <2>3. (CHOOSE j \in ActiveIn(list) : TRUE) = i
    BY <2>1
  <2>4. PICK s, next : /\ s \in {"submission_closed", "draft"}
                       /\ rows = <<With(list[i], s)>> \/ rows = <<With(list[i], s), next>>
    <3>1. NextRows(list) = IF i = Len(list) THEN <<With(list[i], "submission_closed")>>
            ELSE <<With(list[i], "submission_closed"), With(list[i + 1], "active")>>
      BY <1>4, <2>3 DEF NextRows
    <3>2. PreviousRows(list) =
            <<With(list[i], "draft"), With(list[IF i = 1 THEN 1 ELSE i - 1], "active")>>
      BY <1>4, <2>3 DEF PreviousRows
    <3>3. CASE rows = NextRows(list)
      <4>1. PICK next : next = With(list[i + 1], "active")
        OBVIOUS
      <4>2. \/ rows = <<With(list[i], "submission_closed")>>
            \/ rows = <<With(list[i], "submission_closed"), next>>
        BY <3>1, <3>3, <4>1
      <4>3. QED  BY <4>2
    <3>4. CASE rows = PreviousRows(list)
      BY <3>2, <3>4
    <3>5. QED  BY <1>1, <3>3, <3>4
  <2>5. PICK closed : closed = With(list[i], s)
    OBVIOUS
  <2>6. closed.status # "active" /\ closed.id = list[i].id
    <3>1. list[i] \in Row
      BY <2>2 DEF Titled
    <3>2. QED  BY <2>4, <2>5, <3>1 DEF With, Row
  <2>7. OpenOnly(rs, {closed.id})
    BY <2>2, <2>6 DEF OpenOnly, OneOpen
  <2>8. rows = <<closed>> \/ rows = <<closed, next>>
    BY <2>4, <2>5
  <2>9. QED  BY <2>6, <2>7, <2>8
<1>5. QED  BY <1>3, <1>4

LEMMA AdvancesSaveOne ==
  ASSUME OneAtATime, SerialInv, OneRound, NEW h \in Slots,
         BeginAdvanceNext(h) \/ BeginAdvancePrevious(h)
  PROVE  OneRound'
<1>1. PICK rows \in {NextRows(Listing(rounds)), PreviousRows(Listing(rounds))} :
        /\ handlers' = [handlers EXCEPT ![h] = [step |-> "save", rows |-> rows]]
        /\ rounds' = rounds /\ rounds # {}
  BY DEF BeginAdvanceNext, BeginAdvancePrevious, Begins
<1>2. PICK state : state = [step |-> "save", rows |-> rows]
  OBVIOUS
<1>3. Titled(rounds) /\ OneOpen(rounds)
  BY DEF SerialInv, OneRound
<1>4. \/ \E row \in Row : rows = <<row>>
      \/ \E a, b \in Row : rows = <<a, b>> /\ a.id # NewRow
  BY <1>1, <1>3, RowsAdvance
<1>5. /\ \A row : rows = <<row>> /\ row.status = "active" => OpenOnly(rounds, {row.id})
      /\ \A a, b : rows = <<a, b>> => a.status # "active" /\ OpenOnly(rounds, {a.id})
  BY <1>1, <1>3, AdvancesCloseFirst
<1>6. SavesOne(state)
  BY <1>2, <1>4, <1>5 DEF SavesOne
<1>7. h \in Handlers
  BY DEF Handlers
<1>8. QED  BY <1>1, <1>2, <1>6, <1>7, RoundsUntouched

(* A start has found no round open.                                          *)
LEMMA StartsSaveOne ==
  ASSUME OneAtATime, SerialInv, OneRound, NEW h \in Handlers, FindRounds(h)
  PROVE  OneRound'
<1>1. PICK rows : rows = RowsToOpen(Listing(rounds))
  OBVIOUS
<1>2. PICK state : state = IF rows = <<>> THEN Return(h) ELSE [step |-> "save", rows |-> rows]
  OBVIOUS
<1>3. handlers' = [handlers EXCEPT ![h] = state] /\ rounds' = rounds
  BY <1>1, <1>2 DEF FindRounds, Continue, Goes
<1>4. Ordered(rounds) /\ OneOpen(rounds) /\ \A r \in rounds : r \in Row
  BY DEF SerialInv, Titled, OneRound
<1>5. /\ \/ rows = <<>>
         \/ NoneOpen(rounds) /\ rows = <<FirstToOpen(rounds)>>
      /\ rounds # {} => Listing(rounds)[1] \in rounds
  BY <1>1, <1>4, RowsToOpenAre
<1>6. SavesOne(state)
  <2>1. CASE rows = <<>>
    <3>1. state = Return(h)
      BY <1>2, <2>1
    <3>2. state.step # "save"
      BY <3>1, ReturnsTo
    <3>3. QED  BY <3>2 DEF SavesOne
  <2>2. CASE rows # <<>>
    <3>1. PICK row : row = FirstToOpen(rounds)
      OBVIOUS
    <3>2. row \in Row
      <4>1. CASE rounds = {}
        BY <3>1, <4>1, RequestsAssumption DEF FirstToOpen, DefaultRound, Row, RoundStatus
      <4>2. CASE rounds # {}
        <5>1. PICK first \in rounds : first = Listing(rounds)[1]
          BY <1>5, <4>2
        <5>2. first \in Row /\ row = [first EXCEPT !.status = "active"]
          BY <1>4, <3>1, <4>2, <5>1 DEF FirstToOpen, With
        <5>3. QED  BY <5>2 DEF Row, RoundStatus
      <4>3. QED  BY <4>1, <4>2
    <3>3. state.rows = <<row>> /\ NoneOpen(rounds)
      BY <1>2, <1>5, <2>2, <3>1
    <3>4. QED  BY <3>2, <3>3 DEF SavesOne, NoneOpen, OpenOnly
  <2>3. QED  BY <2>1, <2>2
<1>7. QED  BY <1>3, <1>6, RoundsUntouched

LEMMA CheckSavesOne ==
  ASSUME OneAtATime, SerialInv, OneRound, NEW h \in Handlers, CheckNoOther(h)
  PROVE  OneRound'
<1>1. PICK row : row = handlers[h].row
  OBVIOUS
<1>2. PICK other \in BOOLEAN : other = \E r \in rounds : r.status = "active" /\ r.id # row.id
  OBVIOUS
<1>3. PICK state : state = IF other THEN Idle ELSE [step |-> "save", rows |-> <<row>>]
  OBVIOUS
<1>4. /\ handlers[h].step = "checkNoOther" /\ rounds' = rounds
      /\ handlers' = [handlers EXCEPT ![h] = state]
  BY <1>1, <1>2, <1>3 DEF CheckNoOther, Goes
<1>5. row \in Row
  BY <1>1, <1>4 DEF SerialInv, Holds
<1>6. SavesOne(state)
  <2>1. CASE other
    BY <1>3, <2>1 DEF SavesOne, Idle
  <2>2. CASE ~other
    BY <1>2, <1>3, <1>5, <2>2 DEF SavesOne, OpenOnly
  <2>3. QED  BY <2>1, <2>2
<1>7. QED  BY <1>4, <1>6, RoundsUntouched

(* A row is saved: what is open then was open before, or is this row alone.    *)
LEMMA SavedOneOpen ==
  ASSUME NEW rs, NEW row, OneOpen(rs), \A r \in rs : r.id # NewRow,
         row.status = "active" => OpenOnly(rs, {row.id})
  PROVE  OneOpen(Saved(rs, row))
<1>1. CASE row.id = NewRow
  <2>1. PICK new : new = [row EXCEPT !.id = FreshId(rs)]
    OBVIOUS
  <2>2. Saved(rs, row) = rs \cup {new}
    BY <1>1, <2>1 DEF Saved
  <2>3. row.status = "active" => NoneOpen(rs)
    BY <1>1 DEF OpenOnly, NoneOpen
  <2>4. new.status = row.status
    BY <2>1
  <2>5. QED  BY <2>2, <2>3, <2>4 DEF OneOpen, NoneOpen
<1>2. CASE row.id # NewRow
  <2>1. Saved(rs, row) = {r \in rs : r.id # row.id} \cup {row}
    BY <1>2 DEF Saved
  <2>2. QED  BY <2>1 DEF OneOpen, OpenOnly
<1>3. QED  BY <1>1, <1>2

LEMMA SavesLeaveOneOpen ==
  ASSUME OneAtATime, SerialInv, OneRound, NEW h \in Handlers, SaveRow(h)
  PROVE  OneRound'
<1>1. handlers[h].step = "save" /\ \A g \in Handlers : g # h => handlers[g] = Idle
  BY WorksAlone, OneHolds DEF SaveRow
<1>2. PICK state, row : /\ handlers' = [handlers EXCEPT ![h] = state]
                        /\ row = Head(handlers[h].rows)
                        /\ state = IF CanSave(rounds, row) /\ Tail(handlers[h].rows) # <<>>
                                   THEN [step |-> "save", rows |-> Tail(handlers[h].rows)]
                                   ELSE IF CanSave(rounds, row) THEN Return(h) ELSE Idle
                        /\ rounds' = IF CanSave(rounds, row) THEN Saved(rounds, row) ELSE rounds
  BY DEF SaveRow, Continue, Goes
<1>3. \A r \in rounds : r.id # NewRow
  BY RequestsAssumption DEF SerialInv, Titled
<1>4. Return(h).step # "save" /\ Idle.step # "save"
  BY ReturnsTo DEF Idle
<1>5. OneOpen(rounds') /\ SavesOne(state)'
  <2>1. CASE ~CanSave(rounds, row)
    BY <1>2, <1>4, <2>1 DEF OneRound, SavesOne
  <2>2. ASSUME CanSave(rounds, row), NEW only \in Row, handlers[h].rows = <<only>>,
               only.status = "active" => OpenOnly(rounds, {only.id})
        PROVE  OneOpen(rounds') /\ SavesOne(state)'
    <3>1. Head(<<only>>) = only /\ Tail(<<only>>) = <<>>
      OBVIOUS
    <3>2. row = only /\ state = Return(h) /\ rounds' = Saved(rounds, row)
      BY <1>2, <2>2, <3>1
    <3>3. OneOpen(rounds')
      BY <1>3, <2>2, <3>2, SavedOneOpen DEF OneRound
    <3>4. QED  BY <1>4, <3>2, <3>3 DEF SavesOne
  <2>3. ASSUME CanSave(rounds, row), NEW a \in Row, NEW b \in Row, handlers[h].rows = <<a, b>>,
               a.id # NewRow, a.status # "active", OpenOnly(rounds, {a.id})
        PROVE  OneOpen(rounds') /\ SavesOne(state)'
    <3>1. Head(<<a, b>>) = a /\ Tail(<<a, b>>) = <<b>> /\ <<b>> # <<>>
      OBVIOUS
    <3>2. row = a /\ state = [step |-> "save", rows |-> <<b>>] /\ rounds' = Saved(rounds, a)
      BY <1>2, <2>3, <3>1
    <3>3. rounds' = {r \in rounds : r.id # a.id} \cup {a}
      BY <2>3, <3>2 DEF Saved
    <3>4. NoneOpen(rounds')
      BY <2>3, <3>3 DEF NoneOpen, OpenOnly
    <3>5. OneOpen(rounds') /\ OpenOnly(rounds', {b.id})
      BY <3>4 DEF NoneOpen, OneOpen, OpenOnly
    <3>6. state.rows = <<b>>
      BY <3>2
    <3>7. QED  BY <3>5, <3>6 DEF SavesOne
  <2>4. QED  BY <1>1, <2>1, <2>2, <2>3 DEF OneRound, SavesOne
<1>6. ASSUME NEW g \in Handlers PROVE SavesOne(handlers[g])'
  <2>1. handlers'[g] = IF g = h THEN state ELSE handlers[g]
    BY <1>2 DEF SerialInv
  <2>2. CASE g = h
    BY <1>5, <2>1, <2>2 DEF SavesOne
  <2>3. CASE g # h
    BY <1>1, <1>4, <2>1, <2>3 DEF SavesOne
  <2>4. QED  BY <2>2, <2>3
<1>7. QED  BY <1>5, <1>6 DEF OneRound

(* What is done at once finds nobody at work.                                *)
LEMMA OthersLeaveOneOpen ==
  ASSUME OneAtATime, SerialInv, OneRound,
         ImmediateRequest \/ Tick \/ Crash \/ UNCHANGED vars
  PROVE  OneRound'
<1>1. ~Crash
  BY DEF Crash, OneAtATime, SerialInv
<1>2. ASSUME rounds' = rounds, handlers' = handlers PROVE OneRound'
  BY <1>2 DEF OneRound, OneOpen, SavesOne, OpenOnly
<1>3. ASSUME ImmediateRequest PROVE OneRound'
  <2>1. /\ \E kind : MayBegin(kind)
        /\ handlers' = handlers /\ rounds' \subseteq rounds
    BY <1>3 DEF ImmediateRequest, CreateTournament, DeleteTournament, RemoveRound
  <2>2. InFlight = {}
    BY <2>1, BeginsAlone
  <2>3. \A h \in Handlers : handlers[h].step # "save"
    BY <2>2 DEF InFlight, Idle
  <2>4. QED  BY <2>1, <2>3 DEF OneRound, OneOpen, SavesOne
<1>4. QED  BY <1>1, <1>2, <1>3 DEF Tick, vars

LEMMA OneRoundStays ==
  ASSUME OneAtATime, SerialInv, OneRound, [Next]_vars
  PROVE  OneRound'
<1>1. ASSUME NEW h \in Slots, Request(h) PROVE OneRound'
  <2>1. h \in Handlers
    BY DEF Handlers
  <2>2. QED  BY <1>1, <2>1, BeginsUntouched, RenamesUntouched, EditsSaveOne, AdvancesSaveOne
             DEF Request
<1>2. ASSUME NEW h \in Handlers, Statement(h) PROVE OneRound'
  BY <1>2, BeginsUntouched, RenamesUntouched, StartsSaveOne, CheckSavesOne, SavesLeaveOneOpen
     DEF Statement
<1>3. QED  BY <1>1, <1>2, BeginsUntouched, OthersLeaveOneOpen DEF Next

(* One at a time, requests of every kind keep one round open at most, also     *)
(* between two saves of one of them (ensureNoOtherActiveRound,                 *)
(* rounds.service.ts; advanceRound and activateFirstRound,                     *)
(* tournaments.service.ts).                                                    *)
THEOREM OneHandlerOneRound ==
  ASSUME OneAtATime
  PROVE  Spec => []AtMostOneActiveRound
<1>1. Init => SerialInv /\ OneRound
  <2>1. Init => OneRound
    BY DEF Init, OneRound, OneOpen, SavesOne, Idle
  <2>2. QED  BY <2>1, InitSimulates
<1>2. SerialInv /\ OneRound /\ [Next]_vars => SerialInv' /\ OneRound'
  BY NextSimulates, OneRoundStays DEF Simulates
<1>3. OneRound => AtMostOneActiveRound
  BY DEF OneRound, OneOpen, AtMostOneActiveRound
<1>4. QED  BY <1>1, <1>2, <1>3, PTL DEF Spec
-----------------------------------------------------------------------------
(* Any requests, overlapping as they may                                     *)

\* There are as many handlers as there may be, and the database never runs out of ids.
ManyHandlers ==
  /\ IsFiniteSet(Slots) /\ IsFiniteSet(Titles) /\ ~IsFiniteSet(RoundId)

\* A foreign key: rounds go with their tournament, and none comes after it.
RowsHaveATournament == Exists \/ rounds = {}

OverlapInv ==
  /\ now \in Time /\ passTime \in Time /\ crashes \in 0 .. MaxCrashes
  /\ TournamentTyped /\ Titled(rounds) /\ RowsHaveATournament
  /\ handlers \in [Handlers -> HandlerState]

\* One row or two, as a handler holds them.
RowLists == UNION {[1 .. n -> Row] : n \in 1 .. 2}

(* What a handler's state holds, by the step it is at.                       *)
LEMMA StatesAre ==
  ASSUME NEW state
  PROVE  state \in HandlerState <=>
           \/ state = Idle
           \/ \E s \in Status : state = [step |-> "writeStatus", status |-> s]
           \/ \E D \in SUBSET {"registration_end", "end_date"} : \E patch \in [D -> Time] :
                state = [step |-> "writeDates", patch |-> patch]
           \/ \E patch \in Patch, title \in Titles :
                state = [step |-> "writeNamed", patch |-> patch, title |-> title]
           \/ \E title \in Titles : state = [step |-> "findDefault", title |-> title]
           \/ \E id \in RoundId, title \in Titles :
                state = [step |-> "rename", id |-> id, title |-> title]
           \/ \E from, title \in Titles :
                state = [step |-> "renameTitled", from |-> from, title |-> title]
           \/ state = [step |-> "findRounds"] \/ state = [step |-> "selectToFinish"]
           \/ \E row \in Row : state = [step |-> "checkNoOther", row |-> row]
           \/ \E rows \in RowLists : state = [step |-> "save", rows |-> rows]
BY DEF HandlerState, RowLists, Patch

LEMMA RowListsAre ==
  ASSUME NEW rows
  PROVE  rows \in RowLists <=>
           \/ \E a \in Row : rows = <<a>>
           \/ \E a, b \in Row : rows = <<a, b>>
<1>1. ASSUME rows \in RowLists
      PROVE  \/ \E a \in Row : rows = <<a>>
             \/ \E a, b \in Row : rows = <<a, b>>
  <2>1. PICK n \in 1 .. 2 : rows \in [1 .. n -> Row]
    BY <1>1 DEF RowLists
  <2>2. CASE n = 1
    <3>1. rows = <<rows[1]>> /\ rows[1] \in Row
      BY <2>1, <2>2
    <3>2. QED  BY <3>1
  <2>3. CASE n = 2
    <3>1. rows = <<rows[1], rows[2]>> /\ rows[1] \in Row /\ rows[2] \in Row
      BY <2>1, <2>3
    <3>2. QED  BY <3>1
  <2>4. QED  BY <2>2, <2>3
<1>2. ASSUME NEW a \in Row PROVE <<a>> \in RowLists
  <2>1. <<a>> \in [1 .. 1 -> Row]
    OBVIOUS
  <2>2. QED  BY <2>1 DEF RowLists
<1>3. ASSUME NEW a \in Row, NEW b \in Row PROVE <<a, b>> \in RowLists
  <2>1. <<a, b>> \in [1 .. 2 -> Row]
    OBVIOUS
  <2>2. QED  BY <2>1 DEF RowLists
<1>4. QED  BY <1>1, <1>2, <1>3

(* However many rows are stored and held, there is a fresh id.               *)
LEMMA HeldRowsAreFew ==
  ASSUME ManyHandlers, handlers \in [Handlers -> HandlerState]
  PROVE  IsFiniteSet(HeldRows(handlers))
<1> DEFINE Saving == {g \in Handlers : handlers[g].step = "save"}
           Checking == {g \in Handlers : handlers[g].step = "checkNoOther"}
           saved == {ToSet(handlers[h].rows) : h \in Saving}
           checked == {handlers[h].row : h \in Checking}
<1>1. IsFiniteSet(Handlers)
  BY FS_AddElement DEF ManyHandlers, Handlers
<1>2. IsFiniteSet(Saving) /\ IsFiniteSet(Checking)
  BY <1>1, FS_Subset
<1>3. IsFiniteSet(saved)
  <2> DEFINE f == [h \in Saving |-> ToSet(handlers[h].rows)]
  <2>1. f \in Surjection(Saving, saved)
    BY DEF Surjection
  <2> HIDE DEF f, saved, Saving
  <2>2. QED  BY <1>2, <2>1, FS_Surjection
<1>4. IsFiniteSet(checked)
  <2> DEFINE f == [h \in Checking |-> handlers[h].row]
  <2>1. f \in Surjection(Checking, checked)
    BY DEF Surjection
  <2> HIDE DEF f, checked, Checking
  <2>2. QED  BY <1>2, <2>1, FS_Surjection
<1>5. ASSUME NEW s \in saved PROVE IsFiniteSet(s)
  <2>1. PICK h \in Saving : s = ToSet(handlers[h].rows)
    OBVIOUS
  <2>2. PICK rows \in RowLists : handlers[h] = [step |-> "save", rows |-> rows]
    BY <2>1, StatesAre DEF Idle
  <2>3. handlers[h].rows = rows
    BY <2>2
  <2>4. CASE \E a \in Row : rows = <<a>>
    <3>1. PICK a : rows = <<a>>
      BY <2>4
    <3>2. ToSet(<<a>>) = {a}
      BY DEF ToSet
    <3>3. s = {a}
      BY <2>1, <2>3, <3>1, <3>2
    <3>4. QED  BY <3>3, FS_Singleton
  <2>5. CASE \E a, b \in Row : rows = <<a, b>>
    <3>1. PICK a, b : rows = <<a, b>>
      BY <2>5
    <3>2. ToSet(<<a, b>>) = {a} \cup {b}
      BY DEF ToSet
    <3>3. IsFiniteSet({a} \cup {b})
      BY FS_Singleton, FS_Union
    <3>4. s = {a} \cup {b}
      BY <2>1, <2>3, <3>1, <3>2
    <3>5. QED  BY <3>3, <3>4
  <2>6. QED  BY <2>4, <2>5, RowListsAre
<1>6. HeldRows(handlers) = checked \cup UNION saved
  BY DEF HeldRows
<1>7. PICK of : of = UNION saved
  OBVIOUS
<1> HIDE DEF saved, checked
<1>8. IsFiniteSet(of)
  BY <1>3, <1>5, <1>7, FS_UNION
<1>9. IsFiniteSet(checked \cup of)
  BY <1>4, <1>8, FS_Union
<1>10. QED  BY <1>6, <1>7, <1>9

LEMMA AnIdIsLeft ==
  ASSUME ManyHandlers, OverlapInv
  PROVE  /\ FreshId(rounds) \in RoundId
         /\ \A r \in rounds \cup HeldRows(handlers) : r.id # FreshId(rounds)
<1> DEFINE rows == rounds \cup HeldRows(handlers)
           used == {r.id : r \in rows}
<1>1. IsFiniteSet(rows)
  <2>1. IsFiniteSet(HeldRows(handlers)) /\ IsFiniteSet(rounds)
    BY HeldRowsAreFew DEF OverlapInv, Titled, Ordered
  <2>2. QED  BY <2>1, FS_Union
<1>2. IsFiniteSet(used)
  <2> DEFINE f == [r \in rows |-> r.id]
  <2>1. f \in Surjection(rows, used)
    BY DEF Surjection
  <2> HIDE DEF f, used, rows
  <2>2. QED  BY <1>1, <2>1, FS_Surjection
<1>3. PICK i \in RoundId : i \notin used
  BY <1>2, FS_Subset DEF ManyHandlers
<1>4. FreshId(rounds) \in RoundId /\ FreshId(rounds) \notin used
  BY <1>3 DEF FreshId
<1>5. QED  BY <1>4

(* What a listing is read for is made of its rows.                           *)
LEMMA RowsAreTyped ==
  ASSUME Titled(rounds), NEW list, list = Listing(rounds)
  PROVE  /\ rounds # {} => /\ NextRows(list) \in RowLists
                           /\ PreviousRows(list) \in RowLists
         /\ RowsToOpen(list) = <<>> \/ RowsToOpen(list) \in RowLists
<1> DEFINE n == Cardinality(rounds)
<1>1. n \in Nat /\ list \in [1 .. n -> rounds] /\ DOMAIN list = 1 .. n /\ (n # 0 <=> list # <<>>)
  <2>1. n \in Nat /\ list \in [1 .. n -> rounds]
    BY ListingIs DEF Titled
  <2>2. QED  BY <2>1
<1>2. \A i \in 1 .. n, s \in RoundStatus : With(list[i], s) \in Row
  <2>1. \A i \in 1 .. n : list[i] \in Row
    BY <1>1 DEF Titled
  <2>2. QED  BY <2>1 DEF With, Row
<1>3. "active" \in RoundStatus /\ "submission_closed" \in RoundStatus
      /\ "draft" \in RoundStatus
  BY DEF RoundStatus
<1>4. ActiveIn(list) \subseteq 1 .. n
  BY <1>1 DEF ActiveIn
<1>5. ASSUME ActiveIn(list) # {}
      PROVE  (CHOOSE j \in ActiveIn(list) : TRUE) \in 1 .. n
  BY <1>4, <1>5
<1>6. ASSUME rounds # {}
      PROVE  NextRows(list) \in RowLists /\ PreviousRows(list) \in RowLists
  <2>1. n # 0 /\ 1 \in 1 .. n
    <3>1. n # 0
      BY <1>6, FS_EmptySet DEF Titled, Ordered
    <3>2. QED  BY <1>1, <3>1
  <2>2. CASE ActiveIn(list) = {}
    <3>1. /\ NextRows(list) = <<With(list[1], "active")>>
          /\ PreviousRows(list) = <<With(list[1], "active")>>
      BY <2>2 DEF NextRows, PreviousRows
    <3>2. QED  BY <1>2, <1>3, <2>1, <3>1, RowListsAre
  <2>3. CASE ActiveIn(list) # {}
    <3>1. PICK i \in 1 .. n : i = CHOOSE j \in ActiveIn(list) : TRUE
      BY <1>5, <2>3
    <3>2. Len(list) = n
      BY <1>1
    <3>3. NextRows(list) =
            IF i = n THEN <<With(list[i], "submission_closed")>>
            ELSE <<With(list[i], "submission_closed"),
                   With(list[i + 1], "active")>>
      BY <2>3, <3>1, <3>2 DEF NextRows
    <3>4. PreviousRows(list) =
            <<With(list[i], "draft"),
              With(list[IF i = 1 THEN 1 ELSE i - 1], "active")>>
      BY <2>3, <3>1 DEF PreviousRows
    <3>5. PICK k \in 1 .. n : k = IF i = 1 THEN 1 ELSE i - 1
      BY <1>1
    <3>6. PreviousRows(list) \in RowLists
      BY <1>2, <1>3, <3>4, <3>5, RowListsAre
    <3>7. NextRows(list) \in RowLists
      <4>1. CASE i = n
        BY <1>2, <1>3, <3>3, <4>1, RowListsAre
      <4>2. CASE i # n
        <5>1. i + 1 \in 1 .. n
          BY <1>1, <4>2
        <5>2. QED  BY <1>2, <1>3, <3>3, <4>2, <5>1, RowListsAre
      <4>3. QED  BY <4>1, <4>2
    <3>8. QED  BY <3>6, <3>7
  <2>4. QED  BY <2>2, <2>3
<1>7. RowsToOpen(list) = <<>> \/ RowsToOpen(list) \in RowLists
  <2>1. DefaultRound \in Row
    BY RequestsAssumption, <1>3 DEF DefaultRound, Row
  <2>2. CASE list = <<>>
    <3>1. \/ RowsToOpen(list) = <<DefaultRound>>
          \/ RowsToOpen(list) = <<>>
      BY <2>2 DEF RowsToOpen
    <3>2. QED  BY <2>1, <3>1, RowListsAre
  <2>3. CASE list # <<>>
    <3>1. \/ RowsToOpen(list) = <<With(list[1], "active")>>
          \/ RowsToOpen(list) = <<>>
      BY <2>3 DEF RowsToOpen
    <3>2. With(list[1], "active") \in Row
      BY <1>1, <1>2, <1>3, <2>3
    <3>3. QED  BY <3>1, <3>2, RowListsAre
  <2>4. QED  BY <2>2, <2>3
<1>8. QED  BY <1>6, <1>7

(* A handler goes on to a state that is one of those there are.              *)
LEMMA MovesAreTyped ==
  ASSUME OverlapInv,
         NEW h \in Handlers, NEW state \in HandlerState, Goes(h, state)
  PROVE  /\ handlers' \in [Handlers -> HandlerState]
         /\ passTime' \in Time
<1>1. 0 \in Time
  BY RequestsAssumption DEF Time
<1>2. QED  BY <1>1 DEF OverlapInv, Goes

(* The reads: what a handler keeps is typed, and nothing else changes.       *)
LEMMA BeginsAreTyped ==
  ASSUME OverlapInv, NEW h \in Slots, NEW kind, NEW state \in HandlerState,
         Begins(h, kind, state)
  PROVE  OverlapInv'
<1>1. handlers' \in [Handlers -> HandlerState]
  BY DEF OverlapInv, Begins, Handlers
<1>2. UNCHANGED <<now, tournament, rounds, passTime, crashes>>
  BY DEF Begins
<1>3. QED  BY <1>1, <1>2 DEF OverlapInv, TournamentTyped, RowsHaveATournament, Exists

LEMMA RequestsAreTyped ==
  ASSUME ManyHandlers, OverlapInv, NEW h \in Slots, Request(h)
  PROVE  OverlapInv'
<1>1. ASSUME NEW s \in Status, BeginUpdateStatus(h, s) PROVE OverlapInv'
  BY <1>1, StatesAre, BeginsAreTyped DEF BeginUpdateStatus
<1>2. ASSUME NEW D \in SUBSET {"registration_end", "end_date"}, NEW patch \in [D -> Time],
             BeginUpdateTournament(h, patch)
      PROVE  OverlapInv'
  <2>1. PICK state : state = [step |-> "writeDates", patch |-> patch]
    OBVIOUS
  <2>2. state \in HandlerState
    BY <2>1, StatesAre
  <2>3. QED  BY <1>2, <2>1, <2>2, BeginsAreTyped DEF BeginUpdateTournament
<1>3. ASSUME NEW row \in Row, NEW opens, NEW kind,
             Begins(h, kind, Checked(row, opens))
      PROVE  OverlapInv'
  <2>1. Checked(row, opens) \in HandlerState
    BY StatesAre, RowListsAre DEF Checked
  <2>2. QED  BY <1>3, <2>1, BeginsAreTyped
<1>4. NewRows \subseteq Row
  BY DEF NewRows, Row
<1>5. ASSUME NEW row \in NewRows, BeginCreateRound(h, row) PROVE OverlapInv'
  BY <1>3, <1>4, <1>5 DEF BeginCreateRound
<1>6. ASSUME NEW r \in rounds, NEW row \in NewRows,
             BeginUpdateRound(h, r, [row EXCEPT !.id = r.id])
      PROVE  OverlapInv'
  <2>1. [row EXCEPT !.id = r.id] \in Row
    BY <1>4 DEF OverlapInv, Titled, Row
  <2>2. QED  BY <1>3, <1>6, <2>1 DEF BeginUpdateRound
<1>7. ASSUME NEW rows \in RowLists, NEW kind,
             Begins(h, kind, [step |-> "save", rows |-> rows])
      PROVE  OverlapInv'
  BY <1>7, StatesAre, BeginsAreTyped
<1>8. ASSUME BeginAdvanceNext(h) \/ BeginAdvancePrevious(h) PROVE OverlapInv'
  <2>1. /\ NextRows(Listing(rounds)) \in RowLists
        /\ PreviousRows(Listing(rounds)) \in RowLists
    <3>1. rounds # {} /\ Titled(rounds)
      BY <1>8 DEF BeginAdvanceNext, BeginAdvancePrevious, OverlapInv, ManyHandlers
    <3>2. QED  BY <3>1, RowsAreTyped
  <2>2. QED  BY <1>7, <1>8, <2>1 DEF BeginAdvanceNext, BeginAdvancePrevious
<1>9. ASSUME NEW D \in SUBSET {"registration_end", "end_date"}, NEW patch \in [D -> Time],
             NEW title \in Titles, BeginRenameTournament(h, patch, title)
      PROVE  OverlapInv'
  <2>1. PICK state : state = [step |-> "writeNamed", patch |-> patch, title |-> title]
    OBVIOUS
  <2>2. patch \in Patch
    BY DEF Patch
  <2>3. state \in HandlerState
    BY <2>1, <2>2, StatesAre
  <2>4. QED  BY <1>9, <2>1, <2>3, BeginsAreTyped DEF BeginRenameTournament
<1>10. ASSUME NEW from \in Titles, NEW title \in Titles, BeginRenameChild(h, from, title)
       PROVE  OverlapInv'
  <2>1. PICK state : state = [step |-> "renameTitled", from |-> from, title |-> title]
    OBVIOUS
  <2>2. state \in HandlerState
    BY <2>1, StatesAre
  <2>3. QED  BY <1>10, <2>1, <2>2, BeginsAreTyped DEF BeginRenameChild
<1>11. QED  BY <1>1, <1>2, <1>5, <1>6, <1>8, <1>9, <1>10 DEF Request

(* A row is saved under an id of its own and a title of its own, or not at     *)
(* all, however old the handler's copy of it is.                             *)
LEMMA SaveRowIsTyped ==
  ASSUME ManyHandlers, OverlapInv, NEW h \in Handlers, SaveRow(h)
  PROVE  OverlapInv'
<1>0. Titled(rounds)
  BY DEF ManyHandlers, OverlapInv
<1>1. PICK rows \in RowLists : handlers[h] = [step |-> "save", rows |-> rows]
  <2>1. handlers[h] \in HandlerState /\ handlers[h].step = "save"
    BY DEF OverlapInv, SaveRow
  <2>2. QED  BY <2>1, StatesAre DEF Idle
<1>2. PICK row \in Row, rest \in RowLists \cup {<<>>} :
        row = Head(rows) /\ rest = Tail(rows)
  <2>1. CASE \E a \in Row : rows = <<a>>
    <3>1. PICK a \in Row : rows = <<a>>
      BY <2>1
    <3>2. Head(<<a>>) = a /\ Tail(<<a>>) = <<>>
      OBVIOUS
    <3>3. QED  BY <3>1, <3>2
  <2>2. CASE \E a, b \in Row : rows = <<a, b>>
    <3>1. PICK a \in Row, b \in Row : rows = <<a, b>>
      BY <2>2
    <3>2. Head(<<a, b>>) = a /\ Tail(<<a, b>>) = <<b>>
      OBVIOUS
    <3>3. <<b>> \in RowLists
      BY RowListsAre
    <3>4. QED  BY <3>1, <3>2, <3>3
  <2>3. QED  BY <2>1, <2>2, RowListsAre
<1>3. PICK state \in HandlerState : Goes(h, state)
  <2>1. Idle \in HandlerState
    BY StatesAre
  <2>2. Return(h) \in HandlerState
    BY StatesAre DEF Return
  <2>3. rest \in RowLists => [step |-> "save", rows |-> rest] \in HandlerState
    BY StatesAre
  <2>4. handlers[h].rows = rows
    BY <1>1
  <2>5. Continue(h, rest) \/ Goes(h, Idle)
    BY <1>2, <2>4 DEF SaveRow
  <2>6. QED  BY <1>2, <2>1, <2>2, <2>3, <2>5 DEF Continue
<1>4. rounds' = SaveOn(rounds, row) /\ UNCHANGED <<now, tournament, crashes>>
  <2>1. handlers[h].rows = rows
    BY <1>1
  <2>2. QED  BY <1>2, <2>1 DEF SaveRow, SaveOn
<1>5. SavedAs(rounds, row, SaveOn(rounds, row))
  <2>1. CASE ~(Exists /\ TitleFree(rounds, row))
    BY <2>1, CanSaveIs DEF SavedAs, SaveOn
  <2>2. CASE Exists /\ TitleFree(rounds, row) /\ row.id # NewRow
    BY <2>2, SaveOnIsPut DEF SavedAs
  <2>3. CASE Exists /\ TitleFree(rounds, row) /\ row.id = NewRow
    <3>1. PICK i \in RoundId : i = FreshId(rounds) /\ \A r \in rounds : r.id # i
      BY AnIdIsLeft
    <3>2. SaveOn(rounds, row) = rounds \cup {[row EXCEPT !.id = i]}
      BY <2>3, <3>1, CanSaveIs DEF SaveOn, Saved
    <3>3. QED  BY <2>3, <3>1, <3>2 DEF SavedAs
  <2>4. QED  BY <2>1, <2>2, <2>3
<1>6. Titled(SaveOn(rounds, row))
  BY <1>0, <1>5, SavedIsTitled
<1>7. Titled(rounds')
  BY <1>4, <1>6
<1>8. RowsHaveATournament'
  BY <1>4, CanSaveIs DEF OverlapInv, RowsHaveATournament, Exists, SaveOn
<1>9. QED  BY <1>0, <1>3, <1>4, <1>7, <1>8, MovesAreTyped DEF OverlapInv, TournamentTyped

(* The columns a handler is about to write.                                  *)
LEMMA HeldPatch ==
  ASSUME NEW state \in HandlerState, state.step \in {"writeDates", "writeNamed"}
  PROVE  /\ \E patch \in Patch : state.patch = patch
         /\ state.step = "writeNamed" => state.title \in Titles
<1>1. \/ \E D \in SUBSET {"registration_end", "end_date"} : \E patch \in [D -> Time] :
           state = [step |-> "writeDates", patch |-> patch]
      \/ \E patch \in Patch, title \in Titles :
           state = [step |-> "writeNamed", patch |-> patch, title |-> title]
  BY StatesAre DEF Idle
<1>2. QED  BY <1>1 DEF Patch

LEMMA OtherStatementsAreTyped ==
  ASSUME ManyHandlers, OverlapInv, NEW h \in Handlers,
         \/ WriteStatus(h) \/ WriteDates(h) \/ WriteNamed(h) \/ FindDefault(h)
         \/ FindRounds(h) \/ CheckNoOther(h)
  PROVE  OverlapInv'
<1>1. Idle \in HandlerState /\ [step |-> "findRounds"] \in HandlerState
  BY StatesAre
<1>2. UNCHANGED <<now, rounds, crashes>>
  BY DEF WriteStatus, WriteDates, WriteNamed, FindDefault, FindRounds, CheckNoOther
<1>3. ASSUME NEW state \in HandlerState, Goes(h, state), TournamentTyped',
             Exists' = Exists
      PROVE  OverlapInv'
  <2>1. /\ handlers' \in [Handlers -> HandlerState]
        /\ passTime' \in Time
    BY <1>3, MovesAreTyped
  <2>2. QED  BY <1>2, <1>3, <2>1 DEF OverlapInv, RowsHaveATournament
<1>4. handlers[h] \in HandlerState
  BY DEF OverlapInv
<1>5. CASE WriteStatus(h)
  <2>1. PICK s \in Status : handlers[h] = [step |-> "writeStatus", status |-> s]
    BY <1>4, <1>5, StatesAre DEF WriteStatus, Idle
  <2>2. TournamentTyped' /\ Exists' = Exists
    BY <1>5, <2>1 DEF WriteStatus, OverlapInv, TournamentTyped, Exists
  <2>3. PICK state \in HandlerState : Goes(h, state)
    <3>1. \/ Goes(h, [step |-> "findRounds"]) \/ Goes(h, Idle)
      BY <1>5 DEF WriteStatus
    <3>2. QED  BY <1>1, <3>1
  <2>4. QED  BY <1>3, <2>2, <2>3
<1>6. CASE WriteDates(h) \/ WriteNamed(h)
  <2>1. /\ \E patch \in Patch : handlers[h].patch = patch
        /\ handlers[h].step = "writeNamed" => handlers[h].title \in Titles
    BY <1>4, <1>6, HeldPatch DEF WriteDates, WriteNamed
  <2>2. PICK patch \in Patch : handlers[h].patch = patch
    BY <2>1
  <2>a. PICK D \in SUBSET {"registration_end", "end_date"} : patch \in [D -> Time]
    BY <2>2 DEF Patch
  <2>3. /\ Given(patch, "registration_end") \in Time
        /\ Given(patch, "end_date") \in Time
    BY <2>a DEF Given, OverlapInv, TournamentTyped
  <2>4. tournament' = tournament \/ tournament' = Patched(patch)
    BY <1>6, <2>2 DEF WriteDates, WriteNamed, WritePatch
  <2>5. TournamentTyped' /\ Exists' = Exists
    BY <2>3, <2>4 DEF Patched, OverlapInv, TournamentTyped, Exists
  <2>6. CASE WriteDates(h)
    BY <1>1, <1>3, <2>5, <2>6 DEF WriteDates
  <2>7. CASE WriteNamed(h)
    <3>1. PICK state : state = IF Exists THEN [step |-> "findDefault", title |-> handlers[h].title]
                               ELSE Idle
      OBVIOUS
    <3>2. state \in HandlerState
      BY <1>1, <2>1, <2>7, <3>1, StatesAre DEF WriteNamed
    <3>3. Goes(h, state)
      BY <2>7, <3>1 DEF WriteNamed
    <3>4. QED  BY <1>3, <2>5, <3>2, <3>3
  <2>8. QED  BY <1>6, <2>6, <2>7
<1>7. CASE FindRounds(h)
  <2>1. PICK rows : rows = RowsToOpen(Listing(rounds))
    OBVIOUS
  <2>2. rows = <<>> \/ rows \in RowLists
    BY <2>1, RowsAreTyped DEF OverlapInv
  <2>3. Return(h) \in HandlerState
    BY StatesAre DEF Return
  <2>4. rows \in RowLists => [step |-> "save", rows |-> rows] \in HandlerState
    BY StatesAre
  <2>5. Continue(h, rows) /\ tournament' = tournament
    BY <1>7, <2>1 DEF FindRounds
  <2>6. PICK state \in HandlerState : Goes(h, state)
    BY <2>2, <2>3, <2>4, <2>5 DEF Continue
  <2>7. QED  BY <1>3, <2>5, <2>6 DEF OverlapInv, TournamentTyped, Exists
<1>8. CASE CheckNoOther(h)
  <2>1. PICK row \in Row : handlers[h] = [step |-> "checkNoOther", row |-> row]
    BY <1>4, <1>8, StatesAre DEF CheckNoOther, Idle
  <2>2. [step |-> "save", rows |-> <<row>>] \in HandlerState
    BY StatesAre, RowListsAre
  <2>3. handlers[h].row = row
    BY <2>1
  <2>4. \/ Goes(h, Idle)
        \/ Goes(h, [step |-> "save", rows |-> <<row>>])
    BY <1>8, <2>3 DEF CheckNoOther
  <2>5. TournamentTyped' /\ Exists' = Exists
    BY <1>8 DEF CheckNoOther, OverlapInv, TournamentTyped, Exists
  <2>6. QED  BY <1>1, <1>3, <2>2, <2>4, <2>5
<1>9. CASE FindDefault(h)
  <2>1. PICK title \in Titles : handlers[h] = [step |-> "findDefault", title |-> title]
    BY <1>4, <1>9, StatesAre DEF FindDefault, Idle
  <2>2. handlers[h].title = title
    BY <2>1
  <2>3. ASSUME NEW r \in rounds,
               Goes(h, [step |-> "rename", id |-> r.id, title |-> handlers[h].title])
        PROVE  \E state \in HandlerState : Goes(h, state)
    <3>1. PICK state : state = [step |-> "rename", id |-> r.id, title |-> title]
      OBVIOUS
    <3>2. state \in HandlerState
      BY <3>1, StatesAre DEF OverlapInv, Titled
    <3>3. QED  BY <2>2, <2>3, <3>1, <3>2
  <2>4. PICK state \in HandlerState : Goes(h, state)
    BY <1>1, <1>9, <2>3 DEF FindDefault
  <2>5. TournamentTyped' /\ Exists' = Exists
    BY <1>9 DEF FindDefault, OverlapInv, TournamentTyped, Exists
  <2>6. QED  BY <1>3, <2>4, <2>5
<1>10. QED  BY <1>5, <1>6, <1>7, <1>8, <1>9

(* Titles and ids stay apart when a round is renamed.                        *)
LEMMA RenameIsTyped ==
  ASSUME ManyHandlers, OverlapInv, NEW h \in Handlers, RenameRound(h)
  PROVE  OverlapInv'
<1>1. handlers[h] \in HandlerState /\ handlers[h].step \in {"rename", "renameTitled"}
  BY DEF OverlapInv, RenameRound
<1>2. handlers[h].title \in Titles
  <2>1. PICK state : state = handlers[h]
    OBVIOUS
  <2>2. \/ \E id \in RoundId, title \in Titles :
             state = [step |-> "rename", id |-> id, title |-> title]
        \/ \E from, title \in Titles :
             state = [step |-> "renameTitled", from |-> from, title |-> title]
    BY <1>1, <2>1, StatesAre DEF Idle
  <2>3. state.title \in Titles
    BY <2>2
  <2>4. QED  BY <2>1, <2>3
<1>3. Titled(rounds') /\ (rounds = {} => rounds' = {})
  BY <1>2, RenamesOne DEF OverlapInv
<1>4. Idle \in HandlerState /\ Goes(h, Idle) /\ UNCHANGED <<now, tournament, crashes>>
  BY StatesAre DEF RenameRound
<1>5. handlers' \in [Handlers -> HandlerState] /\ passTime' \in Time
  BY <1>4, MovesAreTyped
<1>6. QED  BY <1>3, <1>4, <1>5 DEF OverlapInv, TournamentTyped, RowsHaveATournament, Exists

LEMMA OthersAreTyped ==
  ASSUME ManyHandlers, OverlapInv,
         \/ Tick \/ Crash \/ ImmediateRequest
         \/ BeginPass \/ SelectToFinish
         \/ UNCHANGED vars
  PROVE  OverlapInv'
<1>0. 0 \in Time
  BY RequestsAssumption DEF ManyHandlers, Time
<1>1. timer \in Handlers
  BY DEF Handlers
<1>2. /\ Idle \in HandlerState
      /\ [step |-> "selectToFinish"] \in HandlerState
      /\ \A s \in Status : [step |-> "writeStatus", status |-> s] \in HandlerState
  BY StatesAre
<1>3. "running" \in Status /\ "finished" \in Status
  BY DEF Status
<1>4. CASE Tick
  <2>1. now' \in Time
    BY RequestsAssumption, <1>4 DEF Tick, OverlapInv, ManyHandlers, Time
  <2>2. QED  BY <1>4, <2>1 DEF Tick, OverlapInv, TournamentTyped, RowsHaveATournament,
     Exists
<1>5. CASE Crash
  <2>1. crashes' \in 0 .. MaxCrashes
    BY RequestsAssumption, <1>5 DEF Crash, OverlapInv, ManyHandlers
  <2>2. handlers' \in [Handlers -> HandlerState]
    BY <1>2, <1>5 DEF Crash
  <2>3. QED  BY <1>0, <1>5, <2>1, <2>2 DEF Crash, OverlapInv, TournamentTyped,
     RowsHaveATournament, Exists
<1>6. ASSUME NEW s \in Status, NEW regEnd \in Time, NEW end \in Time,
             CreateTournament(s, regEnd, end)
      PROVE  OverlapInv'
  BY <1>6 DEF CreateTournament, OverlapInv, TournamentTyped, RowsHaveATournament,
     Exists
<1>7. CASE DeleteTournament
  <2>1. Titled({})
    BY FS_EmptySet DEF Titled, Ordered
  <2>2. QED  BY <1>0, <1>7, <2>1 DEF DeleteTournament, OverlapInv, TournamentTyped,
     RowsHaveATournament, Exists
<1>8. ASSUME NEW r \in rounds, RemoveRound(r) PROVE OverlapInv'
  <2>1. Titled(rounds \ {r})
    BY FS_RemoveElement DEF OverlapInv, Titled, Ordered
  <2>2. QED  BY <1>8, <2>1 DEF RemoveRound, OverlapInv, TournamentTyped, RowsHaveATournament,
     Exists
<1>9. CASE BeginPass
  <2>1. handlers' \in [Handlers -> HandlerState]
    BY <1>1, <1>2, <1>3, <1>9 DEF BeginPass, OverlapInv
  <2>2. QED  BY <1>9, <2>1 DEF BeginPass, OverlapInv, TournamentTyped, RowsHaveATournament,
     Exists
<1>10. CASE SelectToFinish
  <2>1. PICK state \in HandlerState : Goes(timer, state)
    BY <1>2, <1>3, <1>10 DEF SelectToFinish
  <2>2. QED  BY <1>0, <1>1, <1>10, <2>1, MovesAreTyped
             DEF SelectToFinish, OverlapInv, TournamentTyped, RowsHaveATournament,
     Exists
<1>11. CASE UNCHANGED vars
  BY <1>11 DEF vars, OverlapInv, TournamentTyped, RowsHaveATournament,
     Exists
<1>12. QED  BY <1>4, <1>5, <1>6, <1>7, <1>8, <1>9, <1>10, <1>11 DEF ImmediateRequest

\* What the database promises of a tournament's rounds.
TableIsSound ==
  /\ TypeOK /\ \A r \in rounds : r.id # NewRow
  /\ rounds # {} => Exists

(* However requests of every kind and the timer's pass overlap, however stale  *)
(* what a handler holds, and whenever the process dies: ids and titles of      *)
(* rounds stay apart, every stored row has an id that the database gave, no    *)
(* round outlives its tournament or comes after it, and what handlers keep is  *)
(* typed (tournaments.service.ts, rounds.service.ts).                          *)
THEOREM OverlapsKeepTheTable ==
  ASSUME ManyHandlers
  PROVE  Spec => []TableIsSound
<1>1. Init => OverlapInv
  <2> SUFFICES ASSUME Init PROVE OverlapInv
    OBVIOUS
  <2>1. 0 \in Time /\ 0 \in 0 .. MaxCrashes
    BY RequestsAssumption DEF ManyHandlers, Time
  <2>2. Titled({})
    BY FS_EmptySet DEF Titled, Ordered
  <2>3. Idle \in HandlerState
    BY StatesAre
  <2>4. QED  BY <2>1, <2>2, <2>3 DEF Init, OverlapInv, TournamentTyped, RowsHaveATournament
<1>2. OverlapInv /\ [Next]_vars => OverlapInv'
  <2> SUFFICES ASSUME OverlapInv, [Next]_vars PROVE OverlapInv'
    OBVIOUS
  <2>1. ASSUME NEW h \in Handlers, Statement(h) PROVE OverlapInv'
    BY <2>1, SaveRowIsTyped, OtherStatementsAreTyped, RenameIsTyped DEF Statement
  <2>2. QED  BY <2>1, RequestsAreTyped, OthersAreTyped DEF Next
<1>3. OverlapInv => TableIsSound
  BY RequestsAssumption DEF TableIsSound, RowsHaveATournament, OverlapInv, Titled, Ordered, TournamentTyped,
     TypeOK, ManyHandlers
<1>4. QED  BY <1>1, <1>2, <1>3, PTL DEF Spec
=============================================================================
