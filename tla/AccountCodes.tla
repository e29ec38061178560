---------------------------- MODULE AccountCodes ----------------------------
(***************************************************************************)
(* The two codes of one account: the one that confirms its address         *)
(* (email-verification.service.ts), kept in a row of email_verifications,  *)
(* and the one that changes its password, kept in columns of the users     *)
(* table and used by users.service.ts and auth.service.ts alike.           *)
(*                                                                         *)
(* Each step is one database statement.  A handler reads a row, decides,   *)
(* and later saves the whole row as it read it, with its changes: columns  *)
(* that another handler has changed meanwhile are put back.  Only the hash *)
(* of the password code escapes this, being select: false: it is written   *)
(* by the handlers that set it or asked for it.                            *)
(*                                                                         *)
(* A step fits in a unit of the clock with all that its handler does: the  *)
(* clock ticks only when no handler is at work.  Hashes are the values     *)
(* hashed; sending the mail, which the code does not wait for, is left out.*)
(***************************************************************************)
EXTENDS Naturals

CONSTANTS
  Slots,         \* bound: the requests the server may be working on at once
  Codes, NoCode, \* bound: the values a code may have; the column is NULL
  Passwords,     \* bound: the values a password may have
  NoRow,         \* there is no such row
  Ids,           \* bound: the ids of rows in email_verifications
  Cooldown,      \* RESEND_COOLDOWN_SEC, PWD_RESEND_COOLDOWN_SEC, FP_RESEND_COOLDOWN_SEC
  Ttl,           \* CODE_TTL_MIN, PWD_CODE_TTL_MIN, FP_CODE_TTL_MIN
  MaxAttempts,   \* MAX_ATTEMPTS, PWD_MAX_ATTEMPTS, FP_MAX_ATTEMPTS
  MaxSends,      \* MAX_SENDS_PER_HOUR
  Hour,          \* an hour
  PendingTtl,    \* PENDING_TOKEN_TTL_MIN
  MaxTime,       \* bound: the last value of the clock
  Kinds          \* bound: the kinds of requests a run sends

ASSUME CodesAssumption ==
  /\ NoCode \notin Codes /\ Codes # {} /\ Passwords # {}
  /\ Cooldown \in Nat \ {0} /\ Ttl \in Nat /\ MaxAttempts \in Nat /\ MaxSends \in Nat \ {0}
  /\ Hour \in Nat /\ PendingTtl \in Nat /\ MaxTime \in Nat \ {0}

VARIABLES
  now,        \* the clock
  user,       \* the row of the account in users
  record,     \* its row in email_verifications
  token,      \* until when the last pending token is good
  handlers,   \* what each handler will do next, and the rows it has read for it
  stale,      \* history: a row was saved although what it was read from has changed
  firstHour   \* history: how many codes the address got while the record was new

vars == <<now, user, record, token, handlers, stale, firstHour>>
-----------------------------------------------------------------------------
Time == 0 .. MaxTime + Ttl + PendingTtl     \* 0 stands for NULL
Code == Codes \cup {NoCode}

User == [verified : BOOLEAN, password : Passwords,
         code : Code, until : Time, attempts : 0 .. MaxAttempts, sentAt : Time]
Record == [id : Ids, code : Codes, until : Time, attempts : 0 .. MaxAttempts,
           sent : 1 .. MaxSends, sentAt : Time, createdAt : Time]

Handler ==
  [step : {"idle", "insertUser", "readRecord"}]
  \cup [step : {"saveRecord"}, record : Record \cup {NoRow}]
  \cup [step : {"saveGuess", "readUser"}, record : Record]
  \cup [step : {"saveVerified"}, record : Record, user : User]
  \cup [step : {"deleteRecord"}]
  \cup [step : {"saveIssued", "savePasswordGuess", "saveProfile", "saveProvider"}, user : User]
  \cup [step : {"readForReset"}, checked : User]
  \cup [step : {"savePassword"}, checked : User, user : User]

ASSUME NoRowAssumption == NoRow \notin User \cup Record

Idle == [step |-> "idle"]

TypeOK ==
  /\ now \in 1 .. MaxTime /\ token \in Time
  /\ user \in User \cup {NoRow} /\ record \in Record \cup {NoRow}
  /\ handlers \in [Slots -> Handler]
  /\ stale \in BOOLEAN /\ firstHour \in 0 .. MaxSends + 1

\* Accounts that are older than the feature count as confirmed.
Init ==
  /\ now = 1 /\ token = 0 /\ record = NoRow
  /\ \/ user = NoRow
     \/ \E p \in Passwords :
          user = [verified |-> TRUE, password |-> p, code |-> NoCode, until |-> 0,
                  attempts |-> 0, sentAt |-> 0]
  /\ handlers = [h \in Slots |-> Idle]
  /\ stale = FALSE /\ firstHour = 0
-----------------------------------------------------------------------------
(* How a handler proceeds *)

Goes(h, state) == handlers' = [handlers EXCEPT ![h] = state]

At(h, step) == handlers[h].step = step /\ UNCHANGED now

\* Every request but a registration starts by reading the account.
Begins(h, kind, state) ==
  /\ kind \in Kinds /\ handlers[h] = Idle /\ user # NoRow
  /\ Goes(h, state)
  /\ UNCHANGED <<now, user, record, token, stale, firstHour>>

\* A handler that saves what it has read notes whether that was still so.
Notes(unchanged) == stale' = (stale \/ ~unchanged)

\* Definitions named Faulty... are what a plausible slip in the code would make of
\* the definition that follows; PROJECT.json substitutes them, nothing here uses them.

\* The pause since the last code is over.
MayAsk(row) == row.sentAt = 0 \/ now - row.sentAt >= Cooldown

FaultyMaySend(row) == row.sent <= MaxSends

\* sent_count matters up to MaxSends only, and is not counted further.
MaySend(row) == row.sent < MaxSends \/ now - row.createdAt >= Hour

MayGuess(row) == row.code # NoCode /\ now <= row.until /\ row.attempts < MaxAttempts
-----------------------------------------------------------------------------
(* The account *)

\* create, and oauthLogin for somebody it does not know, who gets a random password.
FreshUser(p) ==
  [verified |-> FALSE, password |-> p, code |-> NoCode, until |-> 0, attempts |-> 0, sentAt |-> 0]

\* The address is unique: when it was taken meanwhile the insert is refused.
BeginRegister(h) ==
  /\ "register" \in Kinds /\ handlers[h] = Idle /\ user = NoRow
  /\ Goes(h, [step |-> "insertUser"])
  /\ UNCHANGED <<now, user, record, token, stale, firstHour>>

InsertUser(h) ==
  /\ At(h, "insertUser")
  /\ \/ /\ user = NoRow
        /\ \E p \in Passwords : user' = FreshUser(p)
        /\ Goes(h, [step |-> "readRecord"])
     \/ /\ user # NoRow
        /\ Goes(h, Idle) /\ UNCHANGED user
  /\ UNCHANGED <<record, token, stale, firstHour>>

\* What a row that was read without the code leaves of the account, once saved.
SaveUser(row) == user' = [row EXCEPT !.code = user.code]

\* updateMe of either service, updateMyStatus: whatever they change is not kept here.
BeginSaveProfile(h) == Begins(h, "profile", [step |-> "saveProfile", user |-> user])

SaveProfile(h) ==
  /\ At(h, "saveProfile")
  /\ SaveUser(handlers[h].user)
  /\ Notes(user = handlers[h].user)
  /\ Goes(h, Idle)
  /\ UNCHANGED <<record, token, firstHour>>

\* A sign-in through a provider that the account has been linked to: saves the
\* account and, as a sign-in by password does, asks for the code if it must.
BeginProviderLogin(h) == Begins(h, "provider", [step |-> "saveProvider", user |-> user])

SaveProvider(h) ==
  /\ At(h, "saveProvider")
  /\ SaveUser(handlers[h].user)
  /\ Notes(user = handlers[h].user)
  /\ Goes(h, IF handlers[h].user.verified THEN Idle ELSE [step |-> "readRecord"])
  /\ UNCHANGED <<record, token, firstHour>>

\* resetUserPassword writes the one column.
AdminSetsPassword ==
  /\ "admin" \in Kinds /\ user # NoRow
  /\ \E p \in Passwords : user' = [user EXCEPT !.password = p]
  /\ UNCHANGED <<now, record, token, handlers, stale, firstHour>>
-----------------------------------------------------------------------------
(* The code for the address *)

BeginLogin(h) == user # NoRow /\ ~user.verified /\ Begins(h, "login", [step |-> "readRecord"])

\* decodePendingToken does not throw.
Pending == now < token

BeginResend(h) ==
  /\ Pending
  /\ user # NoRow /\ ~user.verified
  /\ Begins(h, "resend", [step |-> "readRecord"])

ReadRecord(h) ==
  /\ At(h, "readRecord")
  /\ Goes(h, IF record = NoRow \/ (MayAsk(record) /\ MaySend(record))
             THEN [step |-> "saveRecord", record |-> record] ELSE Idle)
  /\ UNCHANGED <<user, record, token, stale, firstHour>>

\* save: the row with this id is updated, or inserted if it is gone, unless the
\* account has another row (the index on user_id is unique).
CanSaveRecord(row) == record # NoRow => record.id = row.id

UsedIds ==
  LET held == {handlers[h].record : h \in {g \in Slots : "record" \in DOMAIN handlers[g]}}
  IN  {row.id : row \in ({record} \cup held) \ {NoRow}}

\* The wrong guesses at the last code are held against the new one.
FaultyNewCode(row, c) ==
  [row EXCEPT !.code = c, !.until = now + Ttl, !.sentAt = now,
              !.sent = IF @ < MaxSends THEN @ + 1 ELSE @]

NewCode(row, c) ==
  [row EXCEPT !.code = c, !.until = now + Ttl, !.attempts = 0, !.sentAt = now,
              !.sent = IF @ < MaxSends THEN @ + 1 ELSE @]

\* The answer carries a new pending token.
Answers(h) == Goes(h, Idle) /\ token' = now + PendingTtl

\* What the history needs: more than MaxSends is too many.
CountSend(createdAt) ==
  firstHour' = IF now - createdAt < Hour /\ firstHour <= MaxSends THEN firstHour + 1 ELSE firstHour

InsertRecord(h) ==
  /\ At(h, "saveRecord") /\ handlers[h].record = NoRow
  /\ \/ /\ record = NoRow
        /\ \E id \in Ids \ UsedIds, code \in Codes :
             record' = [id |-> id, code |-> code, until |-> now + Ttl, attempts |-> 0,
                        sent |-> 1, sentAt |-> now, createdAt |-> now]
        /\ Answers(h) /\ CountSend(now)
     \/ /\ record # NoRow
        /\ Goes(h, Idle) /\ UNCHANGED <<record, token, firstHour>>
  /\ UNCHANGED <<user, stale>>

UpdateRecord(h) ==
  /\ At(h, "saveRecord") /\ handlers[h].record # NoRow
  /\ LET row == handlers[h].record IN
     \/ /\ CanSaveRecord(row)
        /\ \E code \in Codes : record' = NewCode(row, code)
        /\ Notes(record = row)
        /\ Answers(h) /\ CountSend(row.createdAt)
     \/ /\ ~CanSaveRecord(row)
        /\ Goes(h, Idle) /\ UNCHANGED <<record, token, stale, firstHour>>
  /\ UNCHANGED user

\* A code of the wrong format is refused at once.
BeginVerify(h, right) ==
  /\ Pending
  /\ record # NoRow /\ MayGuess(record)
  /\ Begins(h, "verify", [step |-> IF right THEN "readUser" ELSE "saveGuess", record |-> record])

SaveGuess(h) ==
  /\ At(h, "saveGuess")
  /\ LET row == handlers[h].record IN
     IF CanSaveRecord(row)
     THEN record' = [row EXCEPT !.attempts = @ + 1] /\ Notes(record = row)
     ELSE UNCHANGED <<record, stale>>
  /\ Goes(h, Idle)
  /\ UNCHANGED <<user, token, firstHour>>

ReadUser(h) ==
  /\ At(h, "readUser")
  /\ Goes(h, [step |-> "saveVerified", record |-> handlers[h].record, user |-> user])
  /\ UNCHANGED <<user, record, token, stale, firstHour>>

SaveVerified(h) ==
  /\ At(h, "saveVerified")
  /\ SaveUser([handlers[h].user EXCEPT !.verified = TRUE])
  /\ Notes(user = handlers[h].user /\ record = handlers[h].record)
  /\ Goes(h, [step |-> "deleteRecord"])
  /\ UNCHANGED <<record, token, firstHour>>

\* If this fails the row stays; that error is swallowed.
DeleteRecord(h) ==
  /\ At(h, "deleteRecord")
  /\ record' = NoRow
  /\ Goes(h, Idle)
  /\ UNCHANGED <<user, token, stale, firstHour>>
-----------------------------------------------------------------------------
(* The code for the password *)

\* requestPasswordChange, and forgotPasswordRequest for whoever is not signed in.
BeginRequestCode(h) ==
  user # NoRow /\ MayAsk(user) /\ Begins(h, "password", [step |-> "saveIssued", user |-> user])

SaveIssued(h) ==
  /\ At(h, "saveIssued")
  /\ \E code \in Codes :
       user' = [handlers[h].user EXCEPT !.code = code, !.until = now + Ttl,
                                        !.attempts = 0, !.sentAt = now]
  /\ Notes(user = handlers[h].user)
  /\ Goes(h, Idle)
  /\ UNCHANGED <<record, token, firstHour>>

\* verifyPasswordChangeCode, forgotPasswordVerifyCode, and what confirmPasswordChange
\* and forgotPasswordReset begin with.  The row is read with the code and so saved with it.
BeginWrongGuess(h) ==
  user # NoRow /\ MayGuess(user) /\ Begins(h, "password", [step |-> "savePasswordGuess", user |-> user])

SavePasswordGuess(h) ==
  /\ At(h, "savePasswordGuess")
  /\ user' = [handlers[h].user EXCEPT !.attempts = @ + 1]
  /\ Notes(user = handlers[h].user)
  /\ Goes(h, Idle)
  /\ UNCHANGED <<record, token, firstHour>>

\* The right code.  If the present password is given it must be right too, and if
\* not the request ends without a trace.
BeginConfirm(h) ==
  user # NoRow /\ MayGuess(user) /\ Begins(h, "password", [step |-> "savePassword", checked |-> user, user |-> user])

\* forgotPasswordReset reads the row a second time once the code is found right.
BeginReset(h) ==
  user # NoRow /\ MayGuess(user) /\ Begins(h, "password", [step |-> "readForReset", checked |-> user])

ReadForReset(h) ==
  /\ At(h, "readForReset")
  /\ Goes(h, [step |-> "savePassword", checked |-> handlers[h].checked, user |-> user])
  /\ UNCHANGED <<user, record, token, stale, firstHour>>

\* The code is left in place.
FaultySavePassword(h) ==
  /\ At(h, "savePassword")
  /\ \E p \in Passwords : user' = [handlers[h].user EXCEPT !.password = p]
  /\ Notes(user = handlers[h].user /\ user = handlers[h].checked)
  /\ Goes(h, Idle)
  /\ UNCHANGED <<record, token, firstHour>>

SavePassword(h) ==
  /\ At(h, "savePassword")
  /\ \E p \in Passwords :
       user' = [handlers[h].user EXCEPT !.password = p, !.code = NoCode, !.until = 0, !.attempts = 0]
  /\ Notes(user = handlers[h].user /\ user = handlers[h].checked)
  /\ Goes(h, Idle)
  /\ UNCHANGED <<record, token, firstHour>>
-----------------------------------------------------------------------------
\* A statement fails, or the process dies: the handler does nothing more.
Abandon(h) ==
  /\ handlers[h] # Idle
  /\ Goes(h, Idle)
  /\ UNCHANGED <<now, user, record, token, stale, firstHour>>

Tick ==
  /\ now < MaxTime /\ now' = now + 1
  /\ \A h \in Slots : handlers[h] = Idle
  /\ UNCHANGED <<user, record, token, handlers, stale, firstHour>>

Request(h) ==
  \/ BeginRegister(h) \/ BeginLogin(h) \/ BeginProviderLogin(h) \/ BeginResend(h)
  \/ \E right \in BOOLEAN : BeginVerify(h, right)
  \/ BeginSaveProfile(h)
  \/ BeginRequestCode(h) \/ BeginWrongGuess(h) \/ BeginConfirm(h) \/ BeginReset(h)

Statement(h) ==
  \/ InsertUser(h) \/ SaveProfile(h) \/ SaveProvider(h)
  \/ ReadRecord(h) \/ InsertRecord(h) \/ UpdateRecord(h)
  \/ SaveGuess(h) \/ ReadUser(h) \/ SaveVerified(h) \/ DeleteRecord(h)
  \/ SaveIssued(h) \/ SavePasswordGuess(h) \/ ReadForReset(h) \/ SavePassword(h)

Next ==
  \/ \E h \in Slots : Request(h) \/ Statement(h) \/ Abandon(h)
  \/ AdminSetsPassword \/ Tick

Spec == Init /\ [][Next]_vars
-----------------------------------------------------------------------------
(* Properties *)

Confirmed == user # NoRow /\ user.verified

\* The code of the address: once it is confirmed its code is used, although the row
\* stays until it is deleted.
MailCode == IF record = NoRow \/ Confirmed THEN [code |-> NoCode, until |-> 0, attempts |-> 0, sentAt |-> 0]
            ELSE record

Mail == INSTANCE OneTimeCode WITH
  code <- MailCode.code, until <- MailCode.until, attempts <- MailCode.attempts,
  sentAt <- MailCode.sentAt, guarded <- Confirmed, MayOverride <- FALSE

PasswordCode == IF user = NoRow THEN [code |-> NoCode, until |-> 0, attempts |-> 0, sentAt |-> 0] ELSE user

Password == INSTANCE OneTimeCode WITH
  code <- PasswordCode.code, until <- PasswordCode.until, attempts <- PasswordCode.attempts,
  sentAt <- PasswordCode.sentAt, guarded <- IF user = NoRow THEN NoRow ELSE user.password,
  MayOverride <- TRUE

\* "One user can have only ONE active record, a resend overwrites the old one"
\* (email-verification.entity.ts:13) and the limits of email-verification.service.ts:19:
\* however sign-ins, resends, guesses and saves of the account interleave, as long as
\* none of them has overwritten what it did not read, an address is confirmed only by
\* the last code sent to it, in time, after few guesses, once.
AddressTakesOneCode == [][~stale' => [Mail!Next]_(Mail!vars)]_vars

\* A handler that has taken a code for the password, and not an administrator, sets it.
SetsPassword(h) == handlers[h].step = "savePassword" /\ handlers'[h] = Idle /\ user' # user

\* The same for the password, whichever of the two services sent the code and
\* whichever took it (users.service.ts:27-150, auth.service.ts:39-136): a password set by
\* its code is set once, and the code with it used.
PasswordTakesOneCode ==
  [][~stale' => /\ [Password!Next]_(Password!vars)
                /\ (\E h \in Slots : SetsPassword(h)) => Password!Accept]_vars

\* "Limit of resends" (email-verification.service.ts:22): in the first hour an
\* unconfirmed address is sent no more than MaxSends codes, lost updates apart.
FirstHourIsLimited == ~stale /\ ~Confirmed => firstHour <= MaxSends
=============================================================================
