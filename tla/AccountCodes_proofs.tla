------------------------ MODULE AccountCodes_proofs ------------------------
(***************************************************************************)
(* AccountCodes is type correct, and as long as no save overwrites what it *)
(* did not read both of its codes are one-time codes, whatever the number  *)
(* of requests, codes and attempts.                                        *)
(*                                                                         *)
(* A handler decides on the rows it has read and acts later.  That its     *)
(* decision still holds then needs three facts beside types: the clock     *)
(* does not tick meanwhile (Decided), a record that is about to be deleted *)
(* belongs to a confirmed address (DeletedIsConfirmed), and only           *)
(* registrations are under way where there is no account (AccountExists).  *)
(***************************************************************************)
EXTENDS AccountCodes, TLAPS

DecidedBy(s) ==
  /\ s.step \in {"saveGuess", "readUser", "saveVerified"} => MayGuess(s.record)
  /\ s.step = "saveRecord" /\ s.record # NoRow => MayAsk(s.record)
  /\ s.step = "saveIssued" => MayAsk(s.user)
  /\ s.step = "savePasswordGuess" => MayGuess(s.user)
  /\ s.step \in {"readForReset", "savePassword"} => MayGuess(s.checked)

Decided == \A h \in Slots : DecidedBy(handlers[h])

DeletedIsConfirmed ==
  ~stale => \A h \in Slots : handlers[h].step = "deleteRecord" => Confirmed

Registering == {"idle", "insertUser"}

AccountExists == user = NoRow => \A h \in Slots : handlers[h].step \in Registering

IInv == TypeOK /\ Decided /\ DeletedIsConfirmed /\ AccountExists
-----------------------------------------------------------------------------
(* Handlers *)

\* What a handler holds is of the right type.
LEMMA Fields ==
  ASSUME NEW s \in Handler
  PROVE  /\ s.step = "saveRecord" => s.record \in Record \cup {NoRow}
         /\ s.step \in {"saveGuess", "readUser", "saveVerified"} => s.record \in Record
         /\ s.step \in {"saveVerified", "saveIssued", "savePasswordGuess", "saveProfile",
                        "saveProvider", "savePassword"} => s.user \in User
         /\ s.step \in {"readForReset", "savePassword"} => s.checked \in User
BY DEF Handler

\* One handler moves on, the others and the clock stay.
LEMMA OneMoves ==
  ASSUME handlers \in [Slots -> Handler], Decided,
         NEW h \in Slots, NEW s \in Handler, DecidedBy(s),
         Goes(h, s), now' = now
  PROVE  handlers' \in [Slots -> Handler] /\ Decided'
<1>1. handlers' \in [Slots -> Handler]
  BY DEF Goes
<1>2. \A t : DecidedBy(t) => DecidedBy(t)'
  BY DEF DecidedBy, MayGuess, MayAsk
<1>3. \A g \in Slots : handlers'[g] = IF g = h THEN s ELSE handlers[g]
  BY DEF Goes
<1>4. \A g \in Slots : DecidedBy(handlers'[g])
  BY <1>3 DEF Decided
<1>5. ASSUME NEW g \in Slots PROVE DecidedBy(handlers[g])'
  BY <1>4, now' = now DEF DecidedBy, MayGuess, MayAsk
<1> QED BY <1>1, <1>5 DEF Decided
-----------------------------------------------------------------------------
(* The rows a step writes *)

LEMMA Dates ==
  \A t \in 1 .. MaxTime : t \in Time /\ t + Ttl \in Time /\ t + PendingTtl \in Time /\ 0 \in Time
BY CodesAssumption DEF Time

\* No user, fresh or changed as the code changes it, has another type.
LEMMA UserRows ==
  ASSUME NEW row \in User, NEW c \in Codes, NEW p \in Passwords, now \in 1 .. MaxTime
  PROVE  /\ [row EXCEPT !.password = p] \in User
         /\ [row EXCEPT !.code = c, !.until = now + Ttl, !.attempts = 0, !.sentAt = now] \in User
         /\ [row EXCEPT !.password = p, !.code = NoCode, !.until = 0, !.attempts = 0] \in User
<1>1. /\ now \in Time /\ now + Ttl \in Time /\ 0 \in Time /\ 0 \in 0 .. MaxAttempts
      /\ c \in Code /\ NoCode \in Code
  BY Dates, CodesAssumption DEF Code
<1>2. [row EXCEPT !.password = p] \in User
  BY DEF User
<1>3. [row EXCEPT !.code = c, !.until = now + Ttl, !.attempts = 0, !.sentAt = now] \in User
  BY <1>1 DEF User
<1>4. [row EXCEPT !.password = p, !.code = NoCode, !.until = 0, !.attempts = 0] \in User
  BY <1>1 DEF User
<1> QED BY <1>2, <1>3, <1>4

LEMMA SavedRows ==
  ASSUME NEW row \in User, NEW other \in User
  PROVE  [row EXCEPT !.code = other.code] \in User /\ [row EXCEPT !.verified = TRUE] \in User
BY DEF User

LEMMA GuessedRow ==
  ASSUME NEW row \in User, row.attempts < MaxAttempts
  PROVE  [row EXCEPT !.attempts = @ + 1] \in User
<1>1. row.attempts + 1 \in 0 .. MaxAttempts
  BY CodesAssumption DEF User
<1> QED BY <1>1 DEF User

LEMMA NewUser ==
  ASSUME NEW v \in BOOLEAN, NEW p \in Passwords
  PROVE  [verified |-> v, password |-> p, code |-> NoCode, until |-> 0,
          attempts |-> 0, sentAt |-> 0] \in User
BY CodesAssumption DEF User, Code, Time

LEMMA GuessedRecord ==
  ASSUME NEW row \in Record, row.attempts < MaxAttempts
  PROVE  [row EXCEPT !.attempts = @ + 1] \in Record
<1>1. row.attempts + 1 \in 0 .. MaxAttempts
  BY CodesAssumption DEF Record
<1> QED BY <1>1 DEF Record

LEMMA ReissuedRecord ==
  ASSUME NEW row \in Record, NEW c \in Codes, now \in 1 .. MaxTime
  PROVE  NewCode(row, c) \in Record
<1>1. now \in Time /\ now + Ttl \in Time /\ 0 \in 0 .. MaxAttempts
  BY Dates, CodesAssumption
<1>2. (IF row.sent < MaxSends THEN row.sent + 1 ELSE row.sent) \in 1 .. MaxSends
  BY CodesAssumption DEF Record
<1> QED BY <1>1, <1>2 DEF Record, NewCode

LEMMA NewRecord ==
  ASSUME NEW id \in Ids, NEW c \in Codes, now \in 1 .. MaxTime
  PROVE  [id |-> id, code |-> c, until |-> now + Ttl, attempts |-> 0,
          sent |-> 1, sentAt |-> now, createdAt |-> now] \in Record
BY Dates, CodesAssumption DEF Record

\* A send is counted within bounds.
LEMMA CountSendType ==
  ASSUME firstHour \in 0 .. MaxSends + 1, NEW t, CountSend(t)
  PROVE  firstHour' \in 0 .. MaxSends + 1
BY CodesAssumption DEF CountSend

LEMMA InitInv == Init => IInv
<1> SUFFICES ASSUME Init PROVE IInv
  OBVIOUS
<1>1. now \in 1 .. MaxTime /\ token \in Time /\ firstHour \in 0 .. MaxSends + 1
  BY CodesAssumption DEF Init, Time
<1>2. user \in User \cup {NoRow}
  BY NewUser DEF Init
<1>3. handlers \in [Slots -> Handler]
  BY DEF Init, Idle, Handler
<1>4. \A h \in Slots : handlers[h].step = "idle"
  BY DEF Init, Idle
<1>5. TypeOK
  BY <1>1, <1>2, <1>3 DEF Init, TypeOK
<1>6. Decided /\ DeletedIsConfirmed
  BY <1>4 DEF Decided, DecidedBy, DeletedIsConfirmed
<1>7. AccountExists
  BY <1>4 DEF AccountExists, Registering
<1> QED BY <1>5, <1>6, <1>7 DEF IInv
-----------------------------------------------------------------------------
(* Every step keeps the invariant *)

\* A handler moves on to a decided state, the rows it leaves are of their types, and
\* it does not take back that an address is confirmed.
LEMMA StepInv ==
  ASSUME IInv, NEW h \in Slots, NEW s \in Handler, DecidedBy(s), Goes(h, s), now' = now,
         user' \in User \cup {NoRow}, record' \in Record \cup {NoRow}, token' \in Time,
         stale' \in BOOLEAN, firstHour' \in 0 .. MaxSends + 1,
         ~stale' => ~stale /\ (Confirmed => Confirmed') /\ (s.step = "deleteRecord" => Confirmed'),
         user' = NoRow => user = NoRow /\ s.step \in Registering
  PROVE  IInv'
<1>1. handlers' \in [Slots -> Handler] /\ Decided'
  BY OneMoves DEF IInv, TypeOK
<1>2. TypeOK'
  BY <1>1 DEF IInv, TypeOK
<1>3. \A g \in Slots : handlers'[g] = IF g = h THEN s ELSE handlers[g]
  BY DEF Goes, IInv, TypeOK
<1>4. DeletedIsConfirmed'
  BY <1>3 DEF DeletedIsConfirmed, IInv
<1>5. AccountExists'
  BY <1>3 DEF AccountExists, IInv
<1> QED BY <1>1, <1>2, <1>4, <1>5 DEF IInv

\* Steps that only begin a handler.
LEMMA RequestInv ==
  ASSUME IInv, NEW h \in Slots, Request(h)
  PROVE  IInv'
<1> DEFINE
  Keeps(s) == /\ s \in Handler /\ DecidedBy(s) /\ s.step # "deleteRecord" /\ Goes(h, s)
              /\ (user = NoRow => s.step \in Registering)
              /\ UNCHANGED <<now, user, record, token, stale, firstHour>>
<1>1. ASSUME NEW s, Keeps(s) PROVE IInv'
  <2>1. Confirmed' = Confirmed
    BY <1>1 DEF Confirmed
  <2>2. /\ user' \in User \cup {NoRow} /\ record' \in Record \cup {NoRow} /\ token' \in Time
        /\ stale' = stale /\ stale' \in BOOLEAN /\ firstHour' \in 0 .. MaxSends + 1
    BY <1>1 DEF IInv, TypeOK
  <2> QED BY <1>1, <2>1, <2>2, StepInv
<1>2. \E s : Keeps(s)
  <2>1. CASE BeginRegister(h)
    <3>1. Keeps([step |-> "insertUser"])
      BY <2>1 DEF Registering, BeginRegister, Handler, DecidedBy
    <3> QED BY <3>1
  <2>2. CASE BeginLogin(h) \/ BeginResend(h)
    <3>1. Keeps([step |-> "readRecord"])
      BY <2>2 DEF BeginLogin, BeginResend, Begins, Handler, DecidedBy
    <3> QED BY <3>1
  <2>3. ASSUME NEW right \in BOOLEAN, BeginVerify(h, right) PROVE \E s : Keeps(s)
    <3> DEFINE s == [step |-> IF right THEN "readUser" ELSE "saveGuess", record |-> record]
    <3>1. record \in Record
      BY <2>3 DEF BeginVerify, IInv, TypeOK
    <3>2. s \in Handler /\ s.step \in {"readUser", "saveGuess"} /\ s.record = record
      BY <3>1 DEF Handler
    <3>3. DecidedBy(s)
      BY <2>3, <3>2 DEF DecidedBy, BeginVerify
    <3>4. Keeps(s)
      BY <2>3, <3>2, <3>3 DEF BeginVerify, Begins
    <3> QED BY <3>4
  <2>4. CASE BeginSaveProfile(h)
    <3>1. Keeps([step |-> "saveProfile", user |-> user])
      BY <2>4 DEF BeginSaveProfile, Begins, Handler, DecidedBy, IInv, TypeOK
    <3> QED BY <3>1
  <2>5. CASE BeginProviderLogin(h)
    <3>1. Keeps([step |-> "saveProvider", user |-> user])
      BY <2>5 DEF BeginProviderLogin, Begins, Handler, DecidedBy, IInv, TypeOK
    <3> QED BY <3>1
  <2>6. CASE BeginRequestCode(h)
    <3>1. Keeps([step |-> "saveIssued", user |-> user])
      BY <2>6 DEF BeginRequestCode, Begins, Handler, DecidedBy, IInv, TypeOK
    <3> QED BY <3>1
  <2>7. CASE BeginWrongGuess(h)
    <3>1. Keeps([step |-> "savePasswordGuess", user |-> user])
      BY <2>7 DEF BeginWrongGuess, Begins, Handler, DecidedBy, IInv, TypeOK
    <3> QED BY <3>1
  <2>8. CASE BeginConfirm(h)
    <3>1. Keeps([step |-> "savePassword", checked |-> user, user |-> user])
      BY <2>8 DEF BeginConfirm, Begins, Handler, DecidedBy, IInv, TypeOK
    <3> QED BY <3>1
  <2>9. CASE BeginReset(h)
    <3>1. Keeps([step |-> "readForReset", checked |-> user])
      BY <2>9 DEF BeginReset, Begins, Handler, DecidedBy, IInv, TypeOK
    <3> QED BY <3>1
  <2> QED BY <2>1, <2>2, <2>3, <2>4, <2>5, <2>6, <2>7, <2>8, <2>9 DEF Request
<1> QED BY <1>1, <1>2

\* Nothing was overwritten: what was saved is what was there, but for the changes.
LEMMA NotStale ==
  ASSUME NEW unchanged \in BOOLEAN, stale \in BOOLEAN, Notes(unchanged)
  PROVE  stale' \in BOOLEAN /\ (~stale' => ~stale /\ unchanged)
BY DEF Notes

\* A handler that has more to do than register has an account to do it for.
LEMMA HasAccount ==
  ASSUME IInv, NEW h \in Slots, handlers[h].step \notin Registering
  PROVE  user \in User
BY DEF IInv, TypeOK, AccountExists

\* The account: insertUser, saveProfile, saveProvider.
LEMMA AccountInv ==
  ASSUME IInv, NEW h \in Slots, InsertUser(h) \/ SaveProfile(h) \/ SaveProvider(h)
  PROVE  IInv'
<1> USE DEF Handler, DecidedBy, Idle
<1>1. CASE InsertUser(h) /\ user = NoRow
  <2>1. user' \in User /\ Goes(h, [step |-> "readRecord"])
    BY <1>1, NewUser DEF FreshUser, InsertUser
  <2>2. UNCHANGED <<now, record, token, stale, firstHour>>
    BY <1>1 DEF InsertUser, At
  <2>3. ~Confirmed
    BY <1>1 DEF Confirmed
  <2> QED BY <2>1, <2>2, <2>3, StepInv, NoRowAssumption DEF IInv, TypeOK
<1>2. CASE InsertUser(h) /\ user # NoRow
  <2>1. Goes(h, Idle) /\ UNCHANGED <<now, user, record, token, stale, firstHour>>
    BY <1>2 DEF InsertUser, At
  <2> QED BY <1>2, <2>1, StepInv DEF IInv, TypeOK, Confirmed
<1>3. CASE SaveProfile(h) \/ SaveProvider(h)
  <2> DEFINE held == handlers[h].user
  <2>1. handlers[h].step \in {"saveProfile", "saveProvider"}
    BY <1>3 DEF SaveProfile, SaveProvider, At
  <2>2. held \in User /\ user \in User
    BY <2>1, Fields, HasAccount DEF IInv, TypeOK, Registering
  <2>3. PICK s : s \in Handler /\ DecidedBy(s) /\ s.step # "deleteRecord" /\ Goes(h, s)
    BY <1>3 DEF SaveProfile, SaveProvider
  <2>4. user' = [held EXCEPT !.code = user.code] /\ Notes(user = held)
    BY <1>3 DEF SaveProfile, SaveProvider, SaveUser
  <2>5. UNCHANGED <<now, record, token, firstHour>>
    BY <1>3 DEF SaveProfile, SaveProvider, At
  <2>6. user' \in User
    BY <2>2, <2>4, SavedRows
  <2>7. stale' \in BOOLEAN /\ (~stale' => ~stale /\ user = held)
    BY <2>4, NotStale DEF IInv, TypeOK
  <2>8. ~stale' => Confirmed' = Confirmed
    BY <2>2, <2>4, <2>6, <2>7, NoRowAssumption DEF Confirmed, User
  <2> HIDE DEF held
  <2> QED BY <2>3, <2>5, <2>6, <2>7, <2>8, StepInv, NoRowAssumption DEF IInv, TypeOK
<1> QED BY <1>1, <1>2, <1>3

\* The code for the address: readRecord, the two forms of saveRecord, saveGuess,
\* readUser, saveVerified, deleteRecord.
LEMMA RecordInv ==
  ASSUME IInv, NEW h \in Slots,
         \/ ReadRecord(h) \/ InsertRecord(h) \/ UpdateRecord(h)
         \/ SaveGuess(h) \/ ReadUser(h) \/ SaveVerified(h) \/ DeleteRecord(h)
  PROVE  IInv'
<1> DEFINE held == handlers[h].record
<1>0. /\ handlers[h].step \notin Registering /\ now' = now /\ user \in User
      /\ handlers[h] \in Handler /\ DecidedBy(handlers[h])
  <2>1. handlers[h].step \notin Registering /\ now' = now
    BY DEF Registering, ReadRecord, InsertRecord, UpdateRecord, SaveGuess, ReadUser, SaveVerified,
           DeleteRecord, At
  <2> QED BY <2>1, HasAccount DEF IInv, TypeOK, Decided
<1>a. [step |-> "idle"] \in Handler /\ DecidedBy([step |-> "idle"])
  BY DEF Handler, DecidedBy
<1>b. user # NoRow
  BY <1>0, NoRowAssumption
<1>c. now + PendingTtl \in Time
  BY Dates DEF IInv, TypeOK
<1>1. CASE ReadRecord(h)
  <2>1. PICK s \in Handler : DecidedBy(s) /\ s.step # "deleteRecord" /\ Goes(h, s)
    <3>1. CASE record = NoRow \/ (MayAsk(record) /\ MaySend(record))
      <4> DEFINE s == [step |-> "saveRecord", record |-> record]
      <4>1. s \in Handler /\ DecidedBy(s) /\ Goes(h, s) /\ s.step # "deleteRecord"
        BY <1>1, <3>1 DEF ReadRecord, Handler, DecidedBy, IInv, TypeOK
      <4> QED BY <4>1
    <3>2. CASE ~(record = NoRow \/ (MayAsk(record) /\ MaySend(record)))
      BY <1>1, <1>a, <3>2 DEF ReadRecord, Idle
    <3> QED BY <3>1, <3>2
  <2>2. UNCHANGED <<user, record, token, stale, firstHour>>
    BY <1>1 DEF ReadRecord
  <2> QED BY <1>0, <1>b, <2>1, <2>2, StepInv DEF IInv, TypeOK, Confirmed
<1>2. CASE InsertRecord(h)
  <2>1. /\ record' \in Record \cup {NoRow} /\ token' \in Time /\ firstHour' \in 0 .. MaxSends + 1
        /\ Goes(h, Idle)
    BY <1>2, <1>c, NewRecord, CountSendType DEF InsertRecord, Answers, IInv, TypeOK
  <2>2. UNCHANGED <<user, stale>>
    BY <1>2 DEF InsertRecord
  <2> QED BY <1>0, <1>a, <1>b, <2>1, <2>2, StepInv DEF IInv, TypeOK, Confirmed, Idle
<1>3. CASE UpdateRecord(h)
  <2>1. held \in Record
    BY <1>0, <1>3, Fields DEF UpdateRecord, At
  <2>2. /\ record' \in Record \cup {NoRow} /\ token' \in Time /\ firstHour' \in 0 .. MaxSends + 1
        /\ stale' \in BOOLEAN /\ (~stale' => ~stale) /\ Goes(h, Idle) /\ user' = user
    <3>1. CASE CanSaveRecord(held)
      <4>1. /\ \E c \in Codes : record' = NewCode(held, c)
            /\ Notes(record = held) /\ Answers(h) /\ CountSend(held.createdAt) /\ user' = user
        BY <1>3, <3>1 DEF UpdateRecord
      <4> QED BY <2>1, <4>1, <1>c, ReissuedRecord, CountSendType, NotStale DEF Answers, IInv, TypeOK
    <3>2. CASE ~CanSaveRecord(held)
      BY <1>3, <3>2 DEF UpdateRecord, IInv, TypeOK
    <3> QED BY <3>1, <3>2
  <2> QED BY <1>0, <1>a, <1>b, <2>2, StepInv DEF Confirmed, Idle
<1>4. CASE SaveGuess(h)
  <2>1. held \in Record /\ held.attempts < MaxAttempts
    BY <1>0, <1>4, Fields DEF SaveGuess, At, DecidedBy, MayGuess
  <2>2. /\ record' \in Record \cup {NoRow} /\ stale' \in BOOLEAN /\ (~stale' => ~stale)
        /\ Goes(h, Idle) /\ UNCHANGED <<user, token, firstHour>>
    BY <1>4, <2>1, GuessedRecord, NotStale DEF SaveGuess, IInv, TypeOK
  <2> QED BY <1>0, <1>a, <1>b, <2>2, StepInv DEF IInv, TypeOK, Confirmed, Idle
<1>5. CASE ReadUser(h)
  <2> DEFINE s == [step |-> "saveVerified", record |-> held, user |-> user]
  <2>1. held \in Record /\ MayGuess(held)
    BY <1>0, <1>5, Fields DEF ReadUser, At, DecidedBy
  <2>2. s \in Handler /\ DecidedBy(s) /\ s.step # "deleteRecord"
    BY <1>0, <2>1 DEF Handler, DecidedBy
  <2>3. Goes(h, s) /\ UNCHANGED <<user, record, token, stale, firstHour>>
    BY <1>5 DEF ReadUser
  <2> QED BY <1>0, <1>b, <2>2, <2>3, StepInv DEF IInv, TypeOK, Confirmed
<1>6. CASE SaveVerified(h)
  <2> DEFINE row == handlers[h].user
  <2>1. row \in User
    BY <1>0, <1>6, Fields DEF SaveVerified, At
  <2>2. /\ user' = [row EXCEPT !.verified = TRUE, !.code = user.code]
        /\ Notes(user = row /\ record = held)
        /\ Goes(h, [step |-> "deleteRecord"])
        /\ UNCHANGED <<record, token, firstHour>>
    BY <1>6 DEF SaveVerified, SaveUser
  <2>3. user' \in User /\ user'.verified
    BY <1>0, <2>1, <2>2 DEF User
  <2>4. Confirmed' /\ user' # NoRow
    BY <2>3, NoRowAssumption DEF Confirmed
  <2>5. [step |-> "deleteRecord"] \in Handler /\ DecidedBy([step |-> "deleteRecord"])
    BY DEF Handler, DecidedBy
  <2>6. stale' \in BOOLEAN /\ (~stale' => ~stale)
    BY <2>2, NotStale DEF IInv, TypeOK
  <2> QED BY <1>0, <2>2, <2>3, <2>4, <2>5, <2>6, StepInv DEF IInv, TypeOK
<1>7. CASE DeleteRecord(h)
  <2>1. record' = NoRow /\ Goes(h, Idle) /\ UNCHANGED <<user, token, stale, firstHour>>
    BY <1>7 DEF DeleteRecord
  <2> QED BY <1>0, <1>a, <1>b, <2>1, StepInv DEF IInv, TypeOK, Confirmed, Idle
<1> QED BY <1>1, <1>2, <1>3, <1>4, <1>5, <1>6, <1>7

\* The code for the password: saveIssued, savePasswordGuess, readForReset, savePassword.
LEMMA PasswordInv ==
  ASSUME IInv, NEW h \in Slots,
         SaveIssued(h) \/ SavePasswordGuess(h) \/ ReadForReset(h) \/ SavePassword(h)
  PROVE  IInv'
<1> DEFINE held == handlers[h].user
<1>0. /\ handlers[h].step \notin Registering /\ now' = now /\ user \in User
      /\ handlers[h] \in Handler /\ DecidedBy(handlers[h])
  <2>1. handlers[h].step \notin Registering /\ now' = now
    BY DEF Registering, SaveIssued, SavePasswordGuess, ReadForReset, SavePassword, At
  <2> QED BY <2>1, HasAccount DEF IInv, TypeOK, Decided
<1>a. Idle \in Handler /\ DecidedBy(Idle) /\ Idle.step # "deleteRecord"
  BY DEF Handler, DecidedBy, Idle
<1>b. now \in 1 .. MaxTime
  BY DEF IInv, TypeOK
\* A save that leaves the confirmation as it read it.
<1>c. ASSUME held \in User, user' \in User, user'.verified = held.verified, Goes(h, Idle),
             NEW unchanged \in BOOLEAN, Notes(unchanged), unchanged => user = held,
             UNCHANGED <<record, token, firstHour>>
      PROVE  IInv'
  <2>1. stale' \in BOOLEAN /\ (~stale' => ~stale /\ user = held)
    BY <1>c, NotStale DEF IInv, TypeOK
  <2>2. user' # NoRow /\ (~stale' => Confirmed' = Confirmed)
    BY <1>c, <2>1, NoRowAssumption DEF Confirmed
  <2> QED BY <1>0, <1>a, <1>c, <2>1, <2>2, StepInv DEF IInv, TypeOK
<1>1. CASE SaveIssued(h)
  <2>1. held \in User
    BY <1>0, <1>1, Fields DEF SaveIssued, At
  <2>2. PICK c \in Codes :
          user' = [held EXCEPT !.code = c, !.until = now + Ttl, !.attempts = 0, !.sentAt = now]
    BY <1>1 DEF SaveIssued
  <2>3. user' \in User
    <3>1. PICK p \in Passwords : TRUE
      BY CodesAssumption
    <3> QED BY <1>b, <2>1, <2>2, UserRows
  <2>4. user'.verified = held.verified
    BY <2>1, <2>2 DEF User
  <2>5. Notes(user = held) /\ Goes(h, Idle) /\ UNCHANGED <<record, token, firstHour>>
    BY <1>1 DEF SaveIssued
  <2> QED BY <1>c, <2>1, <2>3, <2>4, <2>5
<1>2. CASE SavePasswordGuess(h)
  <2>1. held \in User /\ held.attempts < MaxAttempts
    BY <1>0, <1>2, Fields DEF SavePasswordGuess, At, DecidedBy, MayGuess
  <2>2. user' = [held EXCEPT !.attempts = @ + 1] /\ Notes(user = held) /\ Goes(h, Idle)
        /\ UNCHANGED <<record, token, firstHour>>
    BY <1>2 DEF SavePasswordGuess
  <2>3. user' \in User /\ user'.verified = held.verified
    BY <2>1, <2>2, GuessedRow DEF User
  <2> QED BY <1>c, <2>1, <2>2, <2>3
<1>3. CASE ReadForReset(h)
  <2> DEFINE s == [step |-> "savePassword", checked |-> handlers[h].checked, user |-> user]
  <2>1. handlers[h].checked \in User /\ MayGuess(handlers[h].checked)
    BY <1>0, <1>3, Fields DEF ReadForReset, At, DecidedBy
  <2>2. s \in Handler /\ DecidedBy(s) /\ s.step # "deleteRecord"
    BY <1>0, <2>1 DEF Handler, DecidedBy
  <2>3. Goes(h, s) /\ UNCHANGED <<user, record, token, stale, firstHour>>
    BY <1>3 DEF ReadForReset
  <2> QED BY <1>0, <2>2, <2>3, StepInv, NoRowAssumption DEF IInv, TypeOK, Confirmed
<1>4. CASE SavePassword(h)
  <2>1. held \in User
    BY <1>0, <1>4, Fields DEF SavePassword, At
  <2>2. PICK p \in Passwords :
          user' = [held EXCEPT !.password = p, !.code = NoCode, !.until = 0, !.attempts = 0]
    BY <1>4 DEF SavePassword
  <2>3. user' \in User
    <3>1. PICK c \in Codes : TRUE
      BY CodesAssumption
    <3> QED BY <1>b, <2>1, <2>2, UserRows
  <2>4. user'.verified = held.verified
    BY <2>1, <2>2 DEF User
  <2>5. Notes(user = held /\ user = handlers[h].checked) /\ Goes(h, Idle)
        /\ UNCHANGED <<record, token, firstHour>>
    BY <1>4 DEF SavePassword
  <2> QED BY <1>c, <2>1, <2>3, <2>4, <2>5
<1> QED BY <1>1, <1>2, <1>3, <1>4

\* A handler that gives up, an administrator, the clock.
LEMMA OtherInv ==
  ASSUME IInv, (\E h \in Slots : Abandon(h)) \/ AdminSetsPassword \/ Tick
  PROVE  IInv'
<1>1. ASSUME NEW h \in Slots, Abandon(h) PROVE IInv'
  <2>1. Idle \in Handler /\ DecidedBy(Idle) /\ Idle.step \in Registering /\ Idle.step # "deleteRecord"
    BY DEF Handler, DecidedBy, Idle, Registering
  <2> QED BY <1>1, <2>1, StepInv DEF Abandon, IInv, TypeOK, Confirmed
<1>2. CASE AdminSetsPassword
  <2>1. user \in User /\ UNCHANGED <<now, record, token, handlers, stale, firstHour>>
    BY <1>2 DEF AdminSetsPassword, IInv, TypeOK
  <2>2. PICK p \in Passwords : user' = [user EXCEPT !.password = p]
    BY <1>2 DEF AdminSetsPassword
  <2>3. user' \in User /\ user'.verified = user.verified
    BY <2>1, <2>2 DEF User
  <2>4. user' # NoRow /\ user # NoRow
    BY <2>1, <2>3, NoRowAssumption
  <2>5. TypeOK'
    BY <2>1, <2>3 DEF IInv, TypeOK
  <2>6. Decided'
    BY <2>1 DEF IInv, Decided, DecidedBy, MayGuess, MayAsk
  <2>7. DeletedIsConfirmed' /\ AccountExists'
    BY <2>1, <2>3, <2>4 DEF IInv, DeletedIsConfirmed, AccountExists, Confirmed
  <2> QED BY <2>5, <2>6, <2>7 DEF IInv
<1>3. CASE Tick
  <2>1. UNCHANGED <<user, record, token, handlers, stale, firstHour>>
    BY <1>3 DEF Tick
  <2>2. now' \in 1 .. MaxTime
    BY <1>3, CodesAssumption DEF Tick, IInv, TypeOK
  <2>3. TypeOK'
    BY <2>1, <2>2 DEF IInv, TypeOK
  <2>4. \A h \in Slots : handlers'[h].step = "idle"
    BY <1>3, <2>1 DEF Tick, Idle
  <2>5. Decided'
    BY <2>4 DEF Decided, DecidedBy
  <2>6. DeletedIsConfirmed' /\ AccountExists'
    BY <2>4 DEF DeletedIsConfirmed, AccountExists, Registering
  <2> QED BY <2>3, <2>5, <2>6 DEF IInv
<1> QED BY <1>1, <1>2, <1>3

LEMMA NextInv == IInv /\ [Next]_vars => IInv'
<1> SUFFICES ASSUME IInv, [Next]_vars PROVE IInv'
  OBVIOUS
<1>1. CASE UNCHANGED vars
  BY <1>1 DEF vars, IInv, TypeOK, Decided, DecidedBy, DeletedIsConfirmed, AccountExists, Confirmed,
              MayGuess, MayAsk
<1>2. CASE Next
  <2>1. ASSUME NEW h \in Slots, Request(h) \/ Statement(h) PROVE IInv'
    BY <2>1, RequestInv, AccountInv, RecordInv, PasswordInv DEF Statement
  <2> QED BY <1>2, <2>1, OtherInv DEF Next
<1> QED BY <1>1, <1>2
-----------------------------------------------------------------------------
\* Every value stays of its type, for any number of requests and codes.
THEOREM TypesHold == Spec => []TypeOK
<1>1. IInv => TypeOK
  BY DEF IInv
<1> QED BY <1>1, InitInv, NextInv, PTL DEF Spec
-----------------------------------------------------------------------------
(* The code of the address *)

LEMMA MailStutters ==
  ASSUME now' = now, record' = record, Confirmed' = Confirmed
  PROVE  UNCHANGED Mail!vars
BY DEF Mail!vars, MailCode

\* Once the address is confirmed nothing that happens to the record is seen.
LEMMA MailOver ==
  ASSUME now' = now, Confirmed, Confirmed'
  PROVE  UNCHANGED Mail!vars
BY DEF Mail!vars, MailCode

\* A save that is not about the confirmation leaves it alone, if it overwrites nothing.
LEMMA SavesKeepVerified ==
  ASSUME IInv, ~stale', NEW h \in Slots,
         SaveProfile(h) \/ SaveProvider(h) \/ SaveIssued(h) \/ SavePasswordGuess(h) \/ SavePassword(h)
  PROVE  user = handlers[h].user /\ user \in User /\ user' \in User /\ user'.verified = user.verified
<1>1. handlers[h].step \in {"saveProfile", "saveProvider", "saveIssued", "savePasswordGuess",
                            "savePassword"}
  BY DEF SaveProfile, SaveProvider, SaveIssued, SavePasswordGuess, SavePassword, At
<1>2. user \in User /\ now \in 1 .. MaxTime
  BY <1>1, HasAccount DEF IInv, TypeOK, Registering
<1>3. user = handlers[h].user
  BY DEF SaveProfile, SaveProvider, SaveIssued, SavePasswordGuess, SavePassword, Notes
<1>4. CASE SaveProfile(h) \/ SaveProvider(h)
  <2>1. user' = [user EXCEPT !.code = user.code]
    BY <1>3, <1>4 DEF SaveProfile, SaveProvider, SaveUser
  <2> QED BY <1>2, <1>3, <2>1, SavedRows DEF User
<1>5. CASE SaveIssued(h)
  <2>1. PICK c \in Codes :
          user' = [user EXCEPT !.code = c, !.until = now + Ttl, !.attempts = 0, !.sentAt = now]
    BY <1>3, <1>5 DEF SaveIssued
  <2>2. PICK p \in Passwords : TRUE
    BY CodesAssumption
  <2>3. user' \in User
    BY <1>2, <2>1, <2>2, UserRows
  <2> QED BY <1>2, <1>3, <2>1, <2>3 DEF User
<1>6. CASE SavePasswordGuess(h)
  <2>1. user' = [user EXCEPT !.attempts = @ + 1]
    BY <1>3, <1>6 DEF SavePasswordGuess
  <2>2. user.attempts < MaxAttempts
    BY <1>3, <1>6 DEF IInv, Decided, DecidedBy, SavePasswordGuess, At, MayGuess
  <2> QED BY <1>2, <1>3, <2>1, <2>2, GuessedRow DEF User
<1>7. CASE SavePassword(h)
  <2>1. PICK p \in Passwords :
          user' = [user EXCEPT !.password = p, !.code = NoCode, !.until = 0, !.attempts = 0]
    BY <1>3, <1>7 DEF SavePassword
  <2>2. PICK c \in Codes : TRUE
    BY CodesAssumption
  <2>3. user' \in User
    BY <1>2, <2>1, <2>2, UserRows
  <2> QED BY <1>2, <1>3, <2>1, <2>3 DEF User
<1> QED BY <1>4, <1>5, <1>6, <1>7

LEMMA MailStep ==
  ASSUME IInv, Next, ~stale'
  PROVE  [Mail!Next]_(Mail!vars)
<1>1. ASSUME NEW h \in Slots, Request(h) \/ Abandon(h) PROVE UNCHANGED Mail!vars
  BY <1>1, MailStutters DEF Confirmed, Request, Abandon, BeginRegister, BeginLogin, BeginProviderLogin,
     BeginResend, BeginVerify, BeginSaveProfile, BeginRequestCode, BeginWrongGuess, BeginConfirm,
     BeginReset, Begins
<1>2. CASE AdminSetsPassword
  <2>1. PICK p \in Passwords : user' = [user EXCEPT !.password = p]
    BY <1>2 DEF AdminSetsPassword
  <2>2. user \in User /\ user' \in User /\ user'.verified = user.verified
    BY <1>2, <2>1 DEF AdminSetsPassword, IInv, TypeOK, User
  <2> QED BY <1>2, <2>2, MailStutters, NoRowAssumption DEF Confirmed, AdminSetsPassword
<1>3. CASE Tick
  BY <1>3 DEF Tick, IInv, TypeOK, Mail!Next, Mail!Tick, MailCode, Confirmed
<1>4. ASSUME NEW h \in Slots, InsertUser(h) \/ ReadForReset(h) \/ ReadRecord(h) \/ ReadUser(h)
      PROVE  UNCHANGED Mail!vars
  <2>1. now' = now /\ record' = record
    BY <1>4 DEF InsertUser, ReadForReset, ReadRecord, ReadUser, At
  <2>2. Confirmed' = Confirmed
    BY <1>4, NewUser, NoRowAssumption DEF FreshUser, InsertUser, ReadForReset, ReadRecord, ReadUser, Confirmed
  <2> QED BY <2>1, <2>2, MailStutters
<1>5. ASSUME NEW h \in Slots,
             SaveProfile(h) \/ SaveProvider(h) \/ SaveIssued(h) \/ SavePasswordGuess(h) \/ SavePassword(h)
      PROVE  UNCHANGED Mail!vars
  <2>1. now' = now /\ record' = record
    BY <1>5 DEF SaveProfile, SaveProvider, SaveIssued, SavePasswordGuess, SavePassword, At
  <2>2. Confirmed' = Confirmed
    BY <1>5, SavesKeepVerified, NoRowAssumption DEF Confirmed
  <2> QED BY <2>1, <2>2, MailStutters
<1>6. ASSUME NEW h \in Slots, InsertRecord(h) \/ UpdateRecord(h)
      PROVE  Mail!Issue \/ UNCHANGED Mail!vars
  <2>1. now' = now /\ user' = user /\ Confirmed' = Confirmed
    BY <1>6 DEF InsertRecord, UpdateRecord, At, Confirmed
  <2>2. CASE Confirmed \/ record' = record
    BY <2>1, <2>2, MailOver, MailStutters
  <2>3. CASE ~Confirmed /\ record' # record
    <3>1. CASE InsertRecord(h)
      <4>1. record = NoRow /\ \E id \in Ids, c \in Codes :
              record' = [id |-> id, code |-> c, until |-> now + Ttl, attempts |-> 0,
                         sent |-> 1, sentAt |-> now, createdAt |-> now]
        BY <2>3, <3>1 DEF InsertRecord
      <4>2. record' \in Record
        BY <4>1, NewRecord DEF IInv, TypeOK
      <4>3. MailCode' = record' /\ MailCode.sentAt = 0
        BY <2>1, <2>3, <4>1, <4>2, NoRowAssumption DEF MailCode
      <4> QED BY <2>1, <4>1, <4>3 DEF Mail!Issue
    <3>2. CASE UpdateRecord(h)
      <4>1. record = handlers[h].record /\ record # NoRow /\ MayAsk(record)
            /\ \E c \in Codes : record' = NewCode(record, c)
        BY <2>3, <3>2 DEF UpdateRecord, Notes, IInv, TypeOK, Decided, DecidedBy, At
      <4>2. record \in Record /\ record' \in Record
        BY <4>1, ReissuedRecord DEF IInv, TypeOK
      <4>3. MailCode' = record' /\ MailCode = record
        BY <2>1, <2>3, <4>1, <4>2, NoRowAssumption DEF MailCode
      <4>4. /\ record'.code \in Codes /\ record'.until = now + Ttl
            /\ record'.attempts = 0 /\ record'.sentAt = now
        BY <4>1, <4>2 DEF NewCode, Record
      <4> QED BY <2>1, <4>1, <4>3, <4>4 DEF Mail!Issue, MayAsk
    <3> QED BY <1>6, <3>1, <3>2
  <2> QED BY <2>2, <2>3
<1>7. ASSUME NEW h \in Slots, SaveGuess(h)
      PROVE  Mail!WrongGuess \/ UNCHANGED Mail!vars
  <2>1. now' = now /\ user' = user /\ Confirmed' = Confirmed
    BY <1>7 DEF SaveGuess, At, Confirmed
  <2>2. CASE Confirmed \/ record' = record
    BY <2>1, <2>2, MailOver, MailStutters
  <2>3. CASE ~Confirmed /\ record' # record
    <3>1. record = handlers[h].record /\ MayGuess(record) /\ record' = [record EXCEPT !.attempts = @ + 1]
      BY <1>7, <2>3 DEF SaveGuess, Notes, IInv, TypeOK, Decided, DecidedBy, At
    <3>2. record \in Record
      BY <1>7, <3>1, Fields DEF IInv, TypeOK, SaveGuess, At
    <3>3. record' \in Record
      BY <3>1, <3>2, GuessedRecord DEF MayGuess
    <3>4. MailCode' = record' /\ MailCode = record
      BY <2>1, <2>3, <3>2, <3>3, NoRowAssumption DEF MailCode
    <3>5. /\ record'.code = record.code /\ record'.until = record.until
          /\ record'.attempts = record.attempts + 1 /\ record'.sentAt = record.sentAt
      BY <3>1, <3>2 DEF Record
    <3> QED BY <2>1, <3>1, <3>4, <3>5 DEF Mail!WrongGuess, Mail!Good, MayGuess
  <2> QED BY <2>2, <2>3
<1>8. ASSUME NEW h \in Slots, SaveVerified(h)
      PROVE  Mail!Accept \/ UNCHANGED Mail!vars
  <2>1. /\ handlers[h].step = "saveVerified" /\ now' = now /\ record' = record
        /\ user = handlers[h].user /\ record = handlers[h].record
        /\ user' = [handlers[h].user EXCEPT !.verified = TRUE, !.code = user.code]
    BY <1>8 DEF SaveVerified, SaveUser, Notes, At
  <2>2. user \in User /\ record \in Record /\ MayGuess(record)
    BY <2>1, Fields DEF IInv, TypeOK, Decided, DecidedBy
  <2>3. Confirmed'
    <3>1. user' \in User /\ user'.verified
      BY <2>1, <2>2 DEF User
    <3> QED BY <3>1, NoRowAssumption DEF Confirmed
  <2>4. CASE Confirmed
    BY <2>1, <2>3, <2>4, MailOver
  <2>5. CASE ~Confirmed
    <3>1. MailCode = record
      BY <2>2, <2>5, NoRowAssumption DEF MailCode
    <3>2. MailCode' = [code |-> NoCode, until |-> 0, attempts |-> 0, sentAt |-> 0]
      BY <2>3 DEF MailCode
    <3> QED BY <2>1, <2>2, <3>1, <3>2 DEF Mail!Accept, Mail!Good, MayGuess
  <2> QED BY <2>4, <2>5
<1>9. ASSUME NEW h \in Slots, DeleteRecord(h) PROVE UNCHANGED Mail!vars
  <2>1. Confirmed /\ Confirmed' /\ now' = now
    BY <1>9 DEF DeleteRecord, At, IInv, DeletedIsConfirmed, Confirmed
  <2> QED BY <2>1, MailOver
<1> QED BY <1>1, <1>2, <1>3, <1>4, <1>5, <1>6, <1>7, <1>8, <1>9 DEF Next, Statement, Mail!Next

\* Whatever the number of requests, accounts are confirmed by one-time codes.
THEOREM AddressCode == Spec => AddressTakesOneCode
<1>1. IInv /\ [Next]_vars => (~stale' => [Mail!Next]_(Mail!vars))
  <2> SUFFICES ASSUME IInv, [Next]_vars, ~stale' PROVE [Mail!Next]_(Mail!vars)
    OBVIOUS
  <2>1. CASE UNCHANGED vars
    BY <2>1, MailStutters DEF vars, Confirmed
  <2> QED BY <2>1, MailStep
<1> QED BY <1>1, InitInv, NextInv, PTL DEF Spec, AddressTakesOneCode
-----------------------------------------------------------------------------
(* The code of the password *)

LEMMA PasswordStutters ==
  ASSUME now' = now, user' = user
  PROVE  UNCHANGED Password!vars
BY DEF Password!vars, PasswordCode

\* The account is there before and after: its row is the state of the store.
LEMMA PasswordRow ==
  ASSUME user \in User, user' \in User
  PROVE  PasswordCode = user /\ PasswordCode' = user' /\ user # NoRow /\ user' # NoRow
BY NoRowAssumption DEF PasswordCode

\* A handler that sets the password uses up its code.
LEMMA PasswordAccepted ==
  ASSUME IInv, ~stale', NEW h \in Slots, SavePassword(h)
  PROVE  Password!Accept
<1>1. /\ handlers[h].step = "savePassword" /\ now' = now /\ user = handlers[h].checked
      /\ user \in User /\ user' \in User
  BY SavesKeepVerified DEF SavePassword, At, Notes
<1>2. MayGuess(user)
  BY <1>1 DEF IInv, Decided, DecidedBy
<1>3. PICK p \in Passwords :
        user' = [user EXCEPT !.password = p, !.code = NoCode, !.until = 0, !.attempts = 0]
  BY SavesKeepVerified DEF SavePassword
<1>4. user'.code = NoCode /\ user'.until = 0 /\ user'.attempts = 0 /\ user'.sentAt = user.sentAt
  BY <1>1, <1>3 DEF User
<1> QED BY <1>1, <1>2, <1>4, PasswordRow DEF Password!Accept, Password!Good, MayGuess

LEMMA PasswordStep ==
  ASSUME IInv, Next, ~stale'
  PROVE  [Password!Next]_(Password!vars)
<1>1. ASSUME NEW h \in Slots,
             \/ Request(h) \/ Abandon(h) \/ ReadForReset(h) \/ ReadRecord(h) \/ ReadUser(h)
             \/ InsertRecord(h) \/ UpdateRecord(h) \/ SaveGuess(h) \/ DeleteRecord(h)
      PROVE  UNCHANGED Password!vars
  <2>1. now' = now /\ user' = user
    BY <1>1 DEF Request, Abandon, BeginRegister, BeginLogin, BeginProviderLogin,
       BeginResend, BeginVerify, BeginSaveProfile, BeginRequestCode, BeginWrongGuess, BeginConfirm,
       BeginReset, Begins, ReadForReset, ReadRecord, ReadUser, InsertRecord, UpdateRecord, SaveGuess,
       DeleteRecord, At
  <2> QED BY <2>1, PasswordStutters
<1>2. CASE AdminSetsPassword
  <2>1. PICK p \in Passwords : user' = [user EXCEPT !.password = p]
    BY <1>2 DEF AdminSetsPassword
  <2>2. user \in User /\ user' \in User /\ now' = now
    BY <1>2, <2>1 DEF AdminSetsPassword, IInv, TypeOK, User
  <2>3. user'.code = user.code /\ user'.until = user.until
        /\ user'.attempts = user.attempts /\ user'.sentAt = user.sentAt
    BY <2>1, <2>2 DEF User
  <2> QED BY <2>2, <2>3, PasswordRow DEF Password!Next, Password!Override
<1>3. CASE Tick
  BY <1>3 DEF Tick, IInv, TypeOK, Password!Next, Password!Tick, PasswordCode
<1>4. ASSUME NEW h \in Slots, InsertUser(h)
      PROVE  Password!Override \/ UNCHANGED Password!vars
  <2>1. CASE user # NoRow
    BY <1>4, <2>1, PasswordStutters DEF InsertUser, At
  <2>2. CASE user = NoRow
    <3>1. PICK p \in Passwords :
            user' = [verified |-> FALSE, password |-> p, code |-> NoCode, until |-> 0,
                     attempts |-> 0, sentAt |-> 0]
      BY <1>4, <2>2 DEF FreshUser, InsertUser
    <3>2. user' \in User /\ now' = now
      BY <1>4, <3>1, NewUser DEF FreshUser, InsertUser, At
    <3>3. PasswordCode' = user' /\ PasswordCode = [code |-> NoCode, until |-> 0, attempts |-> 0, sentAt |-> 0]
      BY <2>2, <3>2, NoRowAssumption DEF PasswordCode
    <3> QED BY <3>1, <3>2, <3>3 DEF Password!Override
  <2> QED BY <2>1, <2>2
\* Saves that put back what is there, and the confirmation of the address.
<1>5. ASSUME NEW h \in Slots, SaveProfile(h) \/ SaveProvider(h) \/ SaveVerified(h)
      PROVE  UNCHANGED Password!vars
  <2>1. /\ handlers[h].step \in {"saveProfile", "saveProvider", "saveVerified"} /\ now' = now
        /\ user = handlers[h].user
        /\ \/ user' = [user EXCEPT !.code = user.code]
           \/ user' = [user EXCEPT !.verified = TRUE, !.code = user.code]
    BY <1>5 DEF SaveProfile, SaveProvider, SaveVerified, SaveUser, Notes, At
  <2>2. user \in User
    BY <2>1, HasAccount DEF Registering
  <2>3. /\ user' \in User /\ user'.password = user.password /\ user'.code = user.code
        /\ user'.until = user.until /\ user'.attempts = user.attempts /\ user'.sentAt = user.sentAt
    BY <2>1, <2>2 DEF User
  <2> QED BY <2>1, <2>2, <2>3, PasswordRow DEF Password!vars
<1>6. ASSUME NEW h \in Slots, SaveIssued(h) PROVE Password!Issue
  <2>1. /\ handlers[h].step = "saveIssued" /\ now' = now /\ MayAsk(user)
        /\ user \in User /\ user' \in User
    BY <1>6, SavesKeepVerified DEF SaveIssued, At, IInv, Decided, DecidedBy
  <2>2. PICK c \in Codes :
          user' = [user EXCEPT !.code = c, !.until = now + Ttl, !.attempts = 0, !.sentAt = now]
    BY <1>6, SavesKeepVerified DEF SaveIssued
  <2>3. /\ user'.code = c /\ user'.until = now + Ttl /\ user'.attempts = 0 /\ user'.sentAt = now
        /\ user'.password = user.password
    BY <2>1, <2>2 DEF User
  <2> QED BY <2>1, <2>3, PasswordRow DEF Password!Issue, MayAsk
<1>7. ASSUME NEW h \in Slots, SavePasswordGuess(h) PROVE Password!WrongGuess
  <2>1. /\ handlers[h].step = "savePasswordGuess" /\ now' = now /\ MayGuess(user)
        /\ user \in User /\ user' \in User
    BY <1>7, SavesKeepVerified DEF SavePasswordGuess, At, IInv, Decided, DecidedBy
  <2>2. user' = [user EXCEPT !.attempts = @ + 1]
    BY <1>7, SavesKeepVerified DEF SavePasswordGuess
  <2>3. /\ user'.code = user.code /\ user'.until = user.until /\ user'.attempts = user.attempts + 1
        /\ user'.sentAt = user.sentAt /\ user'.password = user.password
    BY <2>1, <2>2 DEF User
  <2> QED BY <2>1, <2>3, PasswordRow DEF Password!WrongGuess, Password!Good, MayGuess
<1>8. ASSUME NEW h \in Slots, SavePassword(h) PROVE Password!Accept
  BY <1>8, PasswordAccepted
<1> QED BY <1>1, <1>2, <1>3, <1>4, <1>5, <1>6, <1>7, <1>8 DEF Next, Statement, Password!Next

\* Who sets the password is the handler that has taken the code for it.
LEMMA PasswordSetByCode ==
  ASSUME IInv, Next, ~stale', NEW h \in Slots, SetsPassword(h)
  PROVE  Password!Accept
<1>1. handlers[h].step = "savePassword" /\ handlers'[h].step = "idle" /\ user' # user
  BY DEF SetsPassword, Idle
<1>2. PICK g \in Slots : Request(g) \/ Statement(g) \/ Abandon(g)
  BY <1>1 DEF Next, AdminSetsPassword, Tick
<1>3. \/ InsertUser(g) \/ SaveProfile(g) \/ SaveProvider(g) \/ SaveVerified(g) \/ SaveIssued(g)
      \/ SavePasswordGuess(g) \/ SavePassword(g)
  BY <1>1, <1>2 DEF Request, Statement, Abandon, BeginRegister, BeginLogin, BeginProviderLogin,
     BeginResend, BeginVerify, BeginSaveProfile, BeginRequestCode, BeginWrongGuess, BeginConfirm,
     BeginReset, Begins, ReadForReset, ReadRecord, ReadUser, InsertRecord, UpdateRecord, SaveGuess,
     DeleteRecord
<1>4. \E s : Goes(g, s)
  BY <1>3 DEF InsertUser, SaveProfile, SaveProvider, SaveVerified, SaveIssued, SavePasswordGuess,
     SavePassword
<1>5. g = h
  BY <1>1, <1>4 DEF Goes, IInv, TypeOK
<1>6. SavePassword(h)
  BY <1>1, <1>3, <1>5 DEF InsertUser, SaveProfile, SaveProvider, SaveVerified, SaveIssued,
     SavePasswordGuess, At
<1> QED BY <1>6, PasswordAccepted

\* And their passwords changed by one-time codes, whichever service sends or takes them.
THEOREM PasswordsCode == Spec => PasswordTakesOneCode
<1>1. IInv /\ [Next]_vars =>
        (~stale' => /\ [Password!Next]_(Password!vars)
                    /\ (\E h \in Slots : SetsPassword(h)) => Password!Accept)
  <2> SUFFICES ASSUME IInv, [Next]_vars, ~stale'
               PROVE  /\ [Password!Next]_(Password!vars)
                      /\ (\E h \in Slots : SetsPassword(h)) => Password!Accept
    OBVIOUS
  <2>1. CASE UNCHANGED vars
    BY <2>1, PasswordStutters DEF vars, SetsPassword
  <2> QED BY <2>1, PasswordStep, PasswordSetByCode
<1> QED BY <1>1, InitInv, NextInv, PTL DEF Spec, PasswordTakesOneCode
-----------------------------------------------------------------------------
(* The first hour *)

Counted ==
  ~stale /\ ~Confirmed => IF record = NoRow THEN firstHour = 0 ELSE firstHour <= record.sent

SendsAllowed ==
  \A h \in Slots :
    handlers[h].step = "saveRecord" /\ handlers[h].record # NoRow => MaySend(handlers[h].record)

CInv == IInv /\ Counted /\ SendsAllowed

LEMMA SendsAllowedStep ==
  ASSUME IInv, SendsAllowed, Next
  PROVE  SendsAllowed'
<1>1. CASE Tick
  BY <1>1 DEF Tick, Idle, SendsAllowed
<1>2. CASE AdminSetsPassword
  BY <1>2 DEF AdminSetsPassword, SendsAllowed, MaySend
\* Only readRecord leads to saveRecord.
<1>3. ASSUME NEW h \in Slots, Request(h) \/ Statement(h) \/ Abandon(h) PROVE SendsAllowed'
  <2>1. now' = now
    BY <1>3 DEF Request, Statement, Abandon, BeginRegister, BeginLogin, BeginProviderLogin,
       BeginResend, BeginVerify, BeginSaveProfile, BeginRequestCode, BeginWrongGuess, BeginConfirm,
       BeginReset, Begins, InsertUser, SaveProfile, SaveProvider, ReadRecord, InsertRecord,
       UpdateRecord, SaveGuess, ReadUser, SaveVerified, DeleteRecord, SaveIssued, SavePasswordGuess,
       ReadForReset, SavePassword, At
  <2>2. \A row : MaySend(row)' = MaySend(row)
    BY <2>1 DEF MaySend
  <2> DEFINE Allowed(s) == Goes(h, s) /\ (s.step = "saveRecord" /\ s.record # NoRow => MaySend(s.record))
  <2>3. PICK s : Allowed(s)
    <3>1. CASE ReadRecord(h)
      <4>1. CASE record = NoRow \/ (MayAsk(record) /\ MaySend(record))
        <5>1. Allowed([step |-> "saveRecord", record |-> record])
          BY <3>1, <4>1 DEF ReadRecord
        <5> QED BY <5>1
      <4>2. CASE ~(record = NoRow \/ (MayAsk(record) /\ MaySend(record)))
        <5>1. Allowed(Idle)
          BY <3>1, <4>2 DEF ReadRecord, Idle
        <5> QED BY <5>1
      <4> QED BY <4>1, <4>2
    <3>2. CASE Request(h)
      <4>1. CASE BeginRegister(h) \/ BeginLogin(h) \/ BeginResend(h)
        BY <4>1 DEF BeginRegister, BeginLogin, BeginResend, Begins
      <4>2. ASSUME NEW right \in BOOLEAN, BeginVerify(h, right) PROVE \E s : Allowed(s)
        <5>1. Allowed([step |-> IF right THEN "readUser" ELSE "saveGuess", record |-> record])
          BY <4>2 DEF BeginVerify, Begins
        <5> QED BY <5>1
      <4>3. CASE BeginProviderLogin(h) \/ BeginSaveProfile(h)
        BY <4>3 DEF BeginProviderLogin, BeginSaveProfile, Begins
      <4>4. CASE BeginRequestCode(h) \/ BeginWrongGuess(h)
        BY <4>4 DEF BeginRequestCode, BeginWrongGuess, Begins
      <4>5. CASE BeginConfirm(h) \/ BeginReset(h)
        BY <4>5 DEF BeginConfirm, BeginReset, Begins
      <4> QED BY <3>2, <4>1, <4>2, <4>3, <4>4, <4>5 DEF Request
    <3>3. CASE InsertUser(h) \/ SaveProvider(h)
      <4>1. Goes(h, Idle) \/ Goes(h, [step |-> "readRecord"])
        BY <3>3 DEF InsertUser, SaveProvider
      <4>2. CASE Goes(h, Idle)
        <5>1. Allowed(Idle)
          BY <4>2 DEF Idle
        <5> QED BY <5>1
      <4>3. CASE Goes(h, [step |-> "readRecord"])
        <5>1. Allowed([step |-> "readRecord"])
          BY <4>3
        <5> QED BY <5>1
      <4> QED BY <4>1, <4>2, <4>3
    <3>4. CASE \/ SaveProfile(h) \/ InsertRecord(h) \/ UpdateRecord(h) \/ SaveGuess(h)
               \/ DeleteRecord(h) \/ SaveIssued(h) \/ SavePasswordGuess(h) \/ SavePassword(h)
               \/ Abandon(h)
      <4>1. Allowed(Idle)
        BY <3>4 DEF SaveProfile, InsertRecord, UpdateRecord, SaveGuess, DeleteRecord, SaveIssued,
           SavePasswordGuess, SavePassword, Abandon, Answers, Idle
      <4> QED BY <4>1
    <3>5. CASE ReadUser(h) \/ SaveVerified(h) \/ ReadForReset(h)
      BY <3>5 DEF ReadUser, SaveVerified, ReadForReset
    <3> QED BY <1>3, <3>1, <3>2, <3>3, <3>4, <3>5 DEF Statement
  <2>4. \A g \in Slots : handlers'[g] = IF g = h THEN s ELSE handlers[g]
    BY <2>3 DEF Goes, IInv, TypeOK
  <2> QED BY <2>1, <2>3, <2>4 DEF SendsAllowed, MaySend
<1> QED BY <1>1, <1>2, <1>3 DEF Next

LEMMA CountedStep ==
  ASSUME IInv, Counted, SendsAllowed, Next, ~stale', ~Confirmed'
  PROVE  IF record' = NoRow THEN firstHour' = 0 ELSE firstHour' <= record'.sent
<1>1. ~stale
  BY DEF Next, Request, Statement, Abandon, BeginRegister, BeginLogin, BeginProviderLogin,
     BeginResend, BeginVerify, BeginSaveProfile, BeginRequestCode, BeginWrongGuess, BeginConfirm,
     BeginReset, Begins, InsertUser, SaveProfile, SaveProvider, ReadRecord, InsertRecord,
     UpdateRecord, SaveGuess, ReadUser, SaveVerified, DeleteRecord, SaveIssued, SavePasswordGuess,
     ReadForReset, SavePassword, AdminSetsPassword, Tick, Notes
\* What leaves the record and the count alone.
<1>2. ASSUME record' = record, firstHour' = firstHour, Confirmed' = Confirmed
      PROVE  IF record' = NoRow THEN firstHour' = 0 ELSE firstHour' <= record'.sent
  BY <1>1, <1>2 DEF Counted
<1>3. CASE AdminSetsPassword
  <2>1. PICK p \in Passwords : user' = [user EXCEPT !.password = p]
    BY <1>3 DEF AdminSetsPassword
  <2>2. user \in User /\ user' \in User /\ user'.verified = user.verified
    BY <1>3, <2>1 DEF AdminSetsPassword, IInv, TypeOK, User
  <2> QED BY <1>2, <1>3, <2>2, NoRowAssumption DEF Confirmed, AdminSetsPassword
<1>4. CASE Tick
  BY <1>2, <1>4 DEF Tick, Confirmed
<1>5. ASSUME NEW h \in Slots, Request(h) \/ Abandon(h) \/ ReadForReset(h) \/ ReadRecord(h) \/ ReadUser(h)
      PROVE  record' = record /\ firstHour' = firstHour /\ Confirmed' = Confirmed
  BY <1>5 DEF Confirmed, Request, Abandon, BeginRegister, BeginLogin, BeginProviderLogin,
     BeginResend, BeginVerify, BeginSaveProfile, BeginRequestCode, BeginWrongGuess, BeginConfirm,
     BeginReset, Begins, ReadForReset, ReadRecord, ReadUser
<1>6. ASSUME NEW h \in Slots, InsertUser(h)
      PROVE  record' = record /\ firstHour' = firstHour /\ Confirmed' = Confirmed
  BY <1>6, NewUser, NoRowAssumption DEF InsertUser, Confirmed
<1>7. ASSUME NEW h \in Slots,
             SaveProfile(h) \/ SaveProvider(h) \/ SaveIssued(h) \/ SavePasswordGuess(h) \/ SavePassword(h)
      PROVE  record' = record /\ firstHour' = firstHour /\ Confirmed' = Confirmed
  <2>1. record' = record /\ firstHour' = firstHour
    BY <1>7 DEF SaveProfile, SaveProvider, SaveIssued, SavePasswordGuess, SavePassword
  <2> QED BY <1>7, <2>1, SavesKeepVerified, NoRowAssumption DEF Confirmed
<1>8. ASSUME NEW h \in Slots, SaveVerified(h) \/ DeleteRecord(h) PROVE FALSE
  <2>1. CASE DeleteRecord(h)
    BY <1>1, <2>1 DEF DeleteRecord, At, IInv, DeletedIsConfirmed, Confirmed
  <2>2. CASE SaveVerified(h)
    <3>1. handlers[h].step = "saveVerified" /\ user = handlers[h].user
          /\ user' = [handlers[h].user EXCEPT !.verified = TRUE, !.code = user.code]
      BY <2>2 DEF SaveVerified, SaveUser, Notes, At
    <3>2. user \in User
      BY <3>1, Fields DEF IInv, TypeOK
    <3>3. user' \in User /\ user'.verified
      BY <3>1, <3>2 DEF User
    <3> QED BY <3>3, NoRowAssumption DEF Confirmed
  <2> QED BY <1>8, <2>1, <2>2
<1>9. ASSUME NEW h \in Slots, InsertRecord(h) \/ UpdateRecord(h) \/ SaveGuess(h)
      PROVE  IF record' = NoRow THEN firstHour' = 0 ELSE firstHour' <= record'.sent
  <2>1. user' = user /\ Confirmed' = Confirmed /\ ~Confirmed
    BY <1>9 DEF InsertRecord, UpdateRecord, SaveGuess, Confirmed
  <2>2. CASE UNCHANGED <<record, firstHour>>
    BY <1>2, <2>1, <2>2
  <2>3. CASE InsertRecord(h) /\ ~UNCHANGED <<record, firstHour>>
    <3>1. record = NoRow /\ CountSend(now) /\ \E id \in Ids, c \in Codes :
            record' = [id |-> id, code |-> c, until |-> now + Ttl, attempts |-> 0,
                       sent |-> 1, sentAt |-> now, createdAt |-> now]
      BY <2>3 DEF InsertRecord
    <3>2. record' \in Record /\ record'.sent = 1
      BY <3>1, NewRecord DEF IInv, TypeOK
    <3>3. firstHour' <= 1
      BY <1>1, <2>1, <3>1 DEF CountSend, Counted
    <3> QED BY <3>2, <3>3, NoRowAssumption
  <2>4. CASE UpdateRecord(h) /\ ~UNCHANGED <<record, firstHour>>
    <3>1. /\ record = handlers[h].record /\ record # NoRow /\ MaySend(record)
          /\ CountSend(record.createdAt) /\ \E c \in Codes : record' = NewCode(record, c)
      BY <2>4 DEF UpdateRecord, Notes, SendsAllowed, At
    <3>2. record \in Record /\ record' \in Record
      BY <3>1, ReissuedRecord DEF IInv, TypeOK
    <3>3. record'.sent = IF record.sent < MaxSends THEN record.sent + 1 ELSE record.sent
      BY <3>1, <3>2 DEF NewCode, Record
    <3>4. /\ firstHour <= record.sent /\ record.sent \in Nat /\ firstHour \in Nat
          /\ now \in Nat /\ record.createdAt \in Nat
      BY <1>1, <2>1, <3>1, <3>2, CodesAssumption DEF Counted, Record, IInv, TypeOK, Time
    <3>5. firstHour' <= record'.sent
      BY <3>1, <3>3, <3>4, CodesAssumption DEF CountSend, MaySend
    <3> QED BY <3>2, <3>5, NoRowAssumption
  <2>5. CASE SaveGuess(h) /\ ~UNCHANGED <<record, firstHour>>
    <3>1. /\ handlers[h].step = "saveGuess" /\ record = handlers[h].record
          /\ record' = [record EXCEPT !.attempts = @ + 1] /\ firstHour' = firstHour
      BY <2>5 DEF SaveGuess, At, Notes
    <3>2. record \in Record /\ record.attempts < MaxAttempts
      BY <3>1, Fields DEF IInv, TypeOK, Decided, DecidedBy, MayGuess
    <3>3. record' \in Record /\ record'.sent = record.sent
      BY <3>1, <3>2, GuessedRecord DEF Record
    <3> QED BY <1>1, <2>1, <3>1, <3>2, <3>3, NoRowAssumption DEF Counted
  <2> QED BY <1>9, <2>2, <2>3, <2>4, <2>5
<1> QED BY <1>2, <1>3, <1>4, <1>5, <1>6, <1>7, <1>8, <1>9 DEF Next, Statement

\* The limit of the first hour holds however many codes it allows.
THEOREM FirstHour == Spec => []FirstHourIsLimited
<1>1. Init => CInv
  BY InitInv DEF CInv, Init, Counted, SendsAllowed, Idle
<1>2. CInv /\ [Next]_vars => CInv'
  <2> SUFFICES ASSUME CInv, [Next]_vars PROVE CInv'
    OBVIOUS
  <2>1. IInv'
    BY NextInv DEF CInv
  <2>2. CASE UNCHANGED vars
    BY <2>1, <2>2 DEF CInv, Counted, SendsAllowed, MaySend, Confirmed, vars
  <2>3. CASE Next
    BY <2>1, <2>3, CountedStep, SendsAllowedStep DEF CInv, Counted
  <2> QED BY <2>2, <2>3
<1>3. CInv => FirstHourIsLimited
  BY CodesAssumption DEF CInv, IInv, TypeOK, Counted, FirstHourIsLimited, Record
<1> QED BY <1>1, <1>2, <1>3, PTL DEF Spec
=============================================================================
