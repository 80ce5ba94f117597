---------------------------- MODULE LedgerProofs ----------------------------
(***************************************************************************)
(* AuthService implements TokenLedger with each of its three tables of     *)
(* tokens: whatever overlaps or is cut short, a token is issued once, is   *)
(* spent for good, and admits requests only while it is live.              *)
(***************************************************************************)
EXTENDS SessionProofs

\* The endpoints that a one-shot token admits to, and the table each looks it up in.
OneShot == {"refresh", "reset_password", "verify_email"}
Table(op) ==
    IF op = "refresh" THEN refresh_tokens
    ELSE IF op = "reset_password" THEN reset_tokens ELSE verification_tokens

Bearers(op) == [t \in Requests |-> Bearing(op, t)]

\* Request r has been admitted with token t of that table.
Bears(op, t, r) == req[r].op = op /\ req[r].token = t /\ pc[r] # "refresh_purge"

\* Nothing is kept of a request that is yet to come.
IdleBlank == \A r \in Requests : pc[r] = "idle" => req[r].op = "none"

\* What the statements of request r make of a table.
Writes(table, later, r) ==
    \/ later = table
    \/ table[r].state = "none" /\ \E u \in Emails, exp \in Int : later = Insert(table, r, u, exp)
    \/ \E t \in Requests : table[t].state # "none" /\ later = Spend(table, t)
    \/ \E u \in Emails : later = SpendAll(table, u)

-----------------------------------------------------------------------------
(***************************************************************************)
(* What a step of a handler does to tables and bearers.                    *)
(***************************************************************************)

\* r bears what it bore, and its statement writes tables.
Carries(r) ==
    /\ \A op \in OneShot, t \in Requests : Bears(op, t, r)' <=> Bears(op, t, r)
    /\ \A op \in OneShot : Writes(Table(op), Table(op)', r)

\* r is admitted with a token that is live and has not run out.
Enters(r) ==
    /\ UNCHANGED <<refresh_tokens, reset_tokens, verification_tokens>>
    /\ \E op \in OneShot, t \in Requests :
           /\ Table(op)[t].state = "live" /\ Table(op)[t].expires_at >= now
           /\ \A q \in OneShot, s \in Requests :
                  /\ ~Bears(q, s, r)
                  /\ Bears(q, s, r)' <=> q = op /\ s = t

\* r fails and bears nothing any more.
Leaves(r) ==
    /\ UNCHANGED <<refresh_tokens, reset_tokens, verification_tokens>>
    /\ \A op \in OneShot, t \in Requests : ~Bears(op, t, r)'

LedgerKind(r) ==
    /\ now' = now /\ pc'[r] # "idle"
    /\ Carries(r) \/ Enters(r) \/ Leaves(r)

\* A request that arrives bears a token if it comes to one of these endpoints.
LEMMA ArriveBears ==
    ASSUME TypeOK, IdleBlank, NEW r \in Requests, NEW op, NEW u, NEW t, NEW p, NEW n, NEW next,
           Arrive(r, op, Context(op, u, t, p, n), next)
    PROVE  \A q \in OneShot, s \in Requests :
               /\ ~Bears(q, s, r)
               /\ Bears(q, s, r)' <=> /\ next \notin Answers \cup {"refresh_purge"}
                                      /\ q = op /\ s = t
BY DEF Arrive, TypeOK, IdleBlank, OneShot, Bears, NoRequest, Context, Answers

\* A request whose handler goes on bears what it bore.
LEMMA GotoBears ==
    ASSUME TypeOK, NEW r \in Requests, NEW here \in Running, NEW next, Goto(r, here, next),
           here # "refresh_purge", next # "refresh_purge",
           req'[r].op = req[r].op /\ req'[r].token = req[r].token
    PROVE  \A q \in OneShot, s \in Requests : Bears(q, s, r)' <=> Bears(q, s, r)
BY DEF Goto, TypeOK, Bears

LEMMA SessionsLedger ==
    ASSUME TypeOK, References, IdleBlank, NEW r \in Requests, Login(r) \/ Refresh(r) \/ Logout(r)
    PROVE  LedgerKind(r)
<1> USE DEF Running, Answers
<1>1. ASSUME NEW u \in Emails, NEW p \in Passwords, LoginFind(r, u, p) PROVE LedgerKind(r)
  <2>1. UNCHANGED <<now, refresh_tokens, reset_tokens, verification_tokens>> /\ pc'[r] # "idle"
    BY <1>1 DEF LoginFind, LoginVerdict, Arrive, TypeOK, tables
  <2>2. QED
    BY <1>1, <2>1, ArriveBears DEF LoginFind, LedgerKind, Carries, Writes, Table, OneShot
<1>2. CASE LoginIncrement(r)
  <2>1. \A q \in OneShot, s \in Requests : ~Bears(q, s, r) /\ ~Bears(q, s, r)'
    BY <1>2 DEF LoginIncrement, Goto, References, HandlersFit, Fits, StepsOf, TypeOK, OneShot, Bears,
                NoRequest, Context
  <2>2. QED
    BY <1>2, <2>1 DEF LoginIncrement, Goto, TypeOK, LedgerKind, Carries, Writes, Table
<1>3. CASE LoginRecord(r)
  BY <1>3, GotoBears DEF LoginRecord, Goto, TypeOK, LedgerKind, Carries, Writes, Table
<1>4. CASE LoginIssue(r) \/ RefreshIssue(r)
  <2>1. refresh_tokens[r].state = "none" /\ req[r].user \in Emails /\ now + RefreshTTL \in Int
    BY <1>4, RunningUser, Durations
       DEF LoginIssue, RefreshIssue, Goto, References, Unissued, BeforeRefresh, IssuingRefresh,
           TypeOK
  <2>2. Writes(refresh_tokens, refresh_tokens', r)
    BY <1>4, <2>1 DEF LoginIssue, RefreshIssue, GenerateTokens, Writes
  <2>3. \A q \in OneShot, s \in Requests : Bears(q, s, r)' <=> Bears(q, s, r)
    BY <1>4, GotoBears DEF LoginIssue, RefreshIssue, GenerateTokens
  <2>4. QED
    BY <1>4, <2>2, <2>3 DEF LoginIssue, RefreshIssue, GenerateTokens, Goto, TypeOK, LedgerKind,
                            Carries, Writes, Table
<1>5. ASSUME NEW t \in Requests, RefreshFind(r, t) PROVE LedgerKind(r)
  <2>1. UNCHANGED <<now, refresh_tokens, reset_tokens, verification_tokens>> /\ pc'[r] # "idle"
    BY <1>5 DEF RefreshFind, RefreshVerdict, Arrive, TypeOK, tables
  <2>2. \A q \in OneShot, s \in Requests :
            /\ ~Bears(q, s, r)
            /\ Bears(q, s, r)' <=> /\ RefreshVerdict(t) \notin Answers \cup {"refresh_purge"}
                                   /\ q = "refresh" /\ s = t
    BY <1>5, ArriveBears DEF RefreshFind
  <2>3. CASE RefreshVerdict(t) = "refresh_user"
    <3>1. /\ refresh_tokens[t].state = "live"
          /\ ~(refresh_tokens[t].expires_at < now)
      BY <1>5, <2>3 DEF RefreshFind, RefreshVerdict, Delivered, TypeOK, TokenRow
    <3>2. refresh_tokens[t].expires_at >= now
      BY <3>1 DEF TypeOK, TokenRow
    <3>3. QED
      BY <2>1, <2>2, <2>3, <3>1, <3>2 DEF LedgerKind, Enters, Table, OneShot
  <2>4. CASE RefreshVerdict(t) # "refresh_user"
    <3>1. RefreshVerdict(t) \in Answers \cup {"refresh_purge"}
      BY <2>4 DEF RefreshVerdict
    <3>2. QED
      BY <2>1, <2>2, <3>1 DEF LedgerKind, Carries, Writes, Table
  <2>5. QED
    BY <2>3, <2>4
<1>6. CASE RefreshPurge(r)
  <2>1. \A q \in OneShot, s \in Requests : ~Bears(q, s, r) /\ ~Bears(q, s, r)'
    BY <1>6 DEF RefreshPurge, Goto, TypeOK, OneShot, Bears, NoRequest, Context
  <2>2. req[r].user \in Emails
    BY <1>6, RunningUser DEF RefreshPurge, Goto
  <2>3. Writes(refresh_tokens, refresh_tokens', r)
    BY <1>6, <2>2 DEF RefreshPurge, Writes
  <2>4. QED
    BY <1>6, <2>1, <2>3 DEF RefreshPurge, Goto, TypeOK, LedgerKind, Carries, Writes, Table
<1>7. CASE RefreshUser(r)
  <2>1. UNCHANGED <<now, refresh_tokens, reset_tokens, verification_tokens>> /\ pc'[r] # "idle"
    BY <1>7 DEF RefreshUser, Goto, TypeOK, tables
  <2>2. CASE CanLogin(req[r].user)
    BY <1>7, <2>1, <2>2, GotoBears DEF RefreshUser, LedgerKind, Carries, Writes, Table
  <2>3. CASE ~CanLogin(req[r].user)
    BY <1>7, <2>1, <2>3 DEF RefreshUser, TypeOK, LedgerKind, Leaves, Bears, NoRequest, Context, OneShot
  <2>4. QED
    BY <2>2, <2>3
<1>8. CASE RefreshRevoke(r)
  <2>1. req[r].token \in Requests /\ refresh_tokens[req[r].token].state # "none"
    BY <1>8 DEF RefreshRevoke, Goto, References, HandlersFit, Fits, Remembered, Presented, StepsOf
  <2>2. Writes(refresh_tokens, refresh_tokens', r)
    BY <1>8, <2>1 DEF RefreshRevoke, Writes
  <2>3. QED
    BY <1>8, <2>2, GotoBears DEF RefreshRevoke, Goto, TypeOK, LedgerKind, Carries, Writes, Table
<1>9. ASSUME NEW t \in Requests, Delivered(refresh_tokens, t),
             Arrive(r, "logout", NoRequest, IF JwtDecodes(t) THEN "ok" ELSE "InvalidToken"),
             refresh_tokens' = IF JwtDecodes(t) THEN Spend(refresh_tokens, t) ELSE refresh_tokens,
             UNCHANGED <<now, users, reset_tokens, verification_tokens, minted>>
      PROVE  LedgerKind(r)
  <2>1. \A q \in OneShot, s \in Requests : ~Bears(q, s, r) /\ ~Bears(q, s, r)'
    BY <1>9 DEF Arrive, TypeOK, IdleBlank, OneShot, Bears, NoRequest, Context
  <2>2. Writes(refresh_tokens, refresh_tokens', r)
    BY <1>9 DEF Delivered, Writes
  <2>3. QED
    BY <1>9, <2>1, <2>2 DEF Arrive, TypeOK, LedgerKind, Carries, Writes, Table
<1>10. QED
  BY <1>1, <1>2, <1>3, <1>4, <1>5, <1>6, <1>7, <1>8, <1>9 DEF Login, Refresh, Logout
LEMMA PasswordsLedger ==
    ASSUME TypeOK, References, IdleBlank, NEW r \in Requests,
           ForgotPassword(r) \/ ResetPassword(r) \/ ChangePassword(r)
    PROVE  LedgerKind(r)
<1> USE DEF Running, Answers
<1>1. ASSUME NEW u \in Emails, ForgotFind(r, u) PROVE LedgerKind(r)
  <2>1. UNCHANGED <<now, refresh_tokens, reset_tokens, verification_tokens>> /\ pc'[r] # "idle"
    BY <1>1 DEF ForgotFind, Arrive, TypeOK, tables
  <2>2. QED
    BY <1>1, <2>1, ArriveBears DEF ForgotFind, LedgerKind, Carries, Writes, Table, OneShot
<1>2. CASE ForgotInvalidate(r)
  <2>1. Writes(reset_tokens, reset_tokens', r)
    BY <1>2, RunningUser DEF ForgotInvalidate, Goto, Writes
  <2>2. \A q \in OneShot, s \in Requests : Bears(q, s, r)' <=> Bears(q, s, r)
    BY <1>2, GotoBears, ExpiryKeeps DEF ForgotInvalidate
  <2>3. QED
    BY <1>2, <2>1, <2>2 DEF ForgotInvalidate, Goto, TypeOK, LedgerKind, Carries, Writes, Table
<1>3. CASE ForgotInsert(r)
  <2>1. reset_tokens[r].state = "none" /\ req[r].user \in Emails /\ req[r].expires \in Int
    BY <1>3, RunningUser DEF ForgotInsert, Goto, References, Unissued, BeforeReset, IssuingReset,
                             TypeOK, Request
  <2>2. Writes(reset_tokens, reset_tokens', r)
    BY <1>3, <2>1 DEF ForgotInsert, Writes
  <2>3. QED
    BY <1>3, <2>2, GotoBears DEF ForgotInsert, Goto, TypeOK, LedgerKind, Carries, Writes, Table
<1>4. ASSUME NEW t \in Requests, NEW p \in Passwords, ResetFind(r, t, p) PROVE LedgerKind(r)
  <2>1. UNCHANGED <<now, refresh_tokens, reset_tokens, verification_tokens>> /\ pc'[r] # "idle"
    BY <1>4 DEF ResetFind, ResetVerdict, Arrive, TypeOK, tables
  <2>2. \A q \in OneShot, s \in Requests :
            /\ ~Bears(q, s, r)
            /\ Bears(q, s, r)' <=> /\ ResetVerdict(t, p) \notin Answers \cup {"refresh_purge"}
                                   /\ q = "reset_password" /\ s = t
    BY <1>4, ArriveBears DEF ResetFind
  <2>3. CASE ResetVerdict(t, p) = "reset_update"
    <3>1. reset_tokens[t].state = "live" /\ reset_tokens[t].expires_at >= now
      BY <2>3 DEF ResetVerdict, Usable, TypeOK, TokenRow
    <3>2. QED
      BY <2>1, <2>2, <2>3, <3>1 DEF LedgerKind, Enters, Table, OneShot
  <2>4. CASE ResetVerdict(t, p) # "reset_update"
    <3>1. ResetVerdict(t, p) \in Answers
      BY <2>4 DEF ResetVerdict
    <3>2. QED
      BY <2>1, <2>2, <3>1 DEF LedgerKind, Carries, Writes, Table
  <2>5. QED
    BY <2>3, <2>4
<1>5. CASE ResetUpdate(r) \/ ChangeUpdate(r)
  <2>1. \A q \in OneShot, s \in Requests : Bears(q, s, r)' <=> Bears(q, s, r)
    BY <1>5, GotoBears, UpdateKeeps DEF ResetUpdate, ChangeUpdate
  <2>2. QED
    BY <1>5, <2>1 DEF ResetUpdate, ChangeUpdate, UpdatePassword, Goto, TypeOK, LedgerKind, Carries,
                      Writes, Table
<1>6. CASE ResetMark(r)
  <2>1. req[r].token \in Requests /\ reset_tokens[req[r].token].state # "none"
    BY <1>6 DEF ResetMark, Goto, References, HandlersFit, Fits, Remembered, Presented, StepsOf
  <2>2. Writes(reset_tokens, reset_tokens', r)
    BY <1>6, <2>1 DEF ResetMark, Writes
  <2>3. QED
    BY <1>6, <2>2, GotoBears DEF ResetMark, Goto, TypeOK, LedgerKind, Carries, Writes, Table
<1>7. CASE ResetRevoke(r) \/ ChangeRevoke(r)
  <2>1. Writes(refresh_tokens, refresh_tokens', r)
    BY <1>7, RunningUser DEF ResetRevoke, ChangeRevoke, RevokeSessions, Goto, Writes
  <2>2. QED
    BY <1>7, <2>1, GotoBears
       DEF ResetRevoke, ChangeRevoke, RevokeSessions, Goto, TypeOK, LedgerKind, Carries, Writes, Table
<1>8. ASSUME NEW u \in Emails, NEW c \in Passwords, NEW p \in Passwords, ChangeFind(r, u, c, p)
      PROVE  LedgerKind(r)
  <2>1. UNCHANGED <<now, refresh_tokens, reset_tokens, verification_tokens>> /\ pc'[r] # "idle"
    BY <1>8 DEF ChangeFind, ChangeVerdict, Arrive, TypeOK, tables
  <2>2. QED
    BY <1>8, <2>1, ArriveBears DEF ChangeFind, LedgerKind, Carries, Writes, Table, OneShot
<1>9. QED
  BY <1>1, <1>2, <1>3, <1>4, <1>5, <1>6, <1>7, <1>8
     DEF ForgotPassword, ResetPassword, ChangePassword

LEMMA RegistrationLedger ==
    ASSUME TypeOK, References, IdleBlank, NEW r \in Requests,
           \/ Register(r) \/ CreateEmailVerification(r)
           \/ ResendVerification(r) \/ VerifyEmail(r)
    PROVE  LedgerKind(r)
<1> USE DEF Running, Answers
<1>1. ASSUME NEW u \in Emails, NEW p \in Passwords, RegisterFind(r, u, p) PROVE LedgerKind(r)
  <2>1. UNCHANGED <<now, refresh_tokens, reset_tokens, verification_tokens>> /\ pc'[r] # "idle"
    BY <1>1 DEF RegisterFind, RegisterVerdict, Arrive, TypeOK, tables
  <2>2. QED
    BY <1>1, <2>1, ArriveBears DEF RegisterFind, LedgerKind, Carries, Writes, Table, OneShot
<1>2. CASE RegisterInsert(r)
  <2>1. \A q \in OneShot, s \in Requests : ~Bears(q, s, r) /\ ~Bears(q, s, r)'
    BY <1>2 DEF RegisterInsert, Goto, References, HandlersFit, Fits, StepsOf, TypeOK, OneShot, Bears,
                NoRequest, Context
  <2>2. QED
    BY <1>2, <2>1 DEF RegisterInsert, Goto, TypeOK, LedgerKind, Carries, Writes, Table
<1>3. CASE VerificationInvalidate(r)
  <2>1. Writes(verification_tokens, verification_tokens', r)
    BY <1>3, RunningUser DEF VerificationInvalidate, Goto, Writes
  <2>2. \A q \in OneShot, s \in Requests : Bears(q, s, r)' <=> Bears(q, s, r)
    BY <1>3, GotoBears, ExpiryKeeps DEF VerificationInvalidate
  <2>3. QED
    BY <1>3, <2>1, <2>2
       DEF VerificationInvalidate, Goto, TypeOK, LedgerKind, Carries, Writes, Table
<1>4. CASE VerificationInsert(r)
  <2>1. /\ verification_tokens[r].state = "none"
        /\ req[r].user \in Emails /\ req[r].expires \in Int
    BY <1>4, RunningUser DEF VerificationInsert, Goto, References, Unissued, BeforeVerification,
                             IssuingVerification, TypeOK, Request
  <2>2. Writes(verification_tokens, verification_tokens', r)
    BY <1>4, <2>1 DEF VerificationInsert, Writes
  <2>3. QED
    BY <1>4, <2>2, GotoBears
       DEF VerificationInsert, Goto, TypeOK, LedgerKind, Carries, Writes, Table
<1>5. ASSUME NEW u \in Emails,
             Arrive(r, "resend_verification", Context("resend_verification", u, None, None, 0),
                    IF users[u].email_verified THEN "ok" ELSE "verification_invalidate"),
             UNCHANGED <<now, tables>>
      PROVE  LedgerKind(r)
  <2>1. UNCHANGED <<now, refresh_tokens, reset_tokens, verification_tokens>> /\ pc'[r] # "idle"
    BY <1>5 DEF Arrive, TypeOK, tables
  <2>2. QED
    BY <1>5, <2>1, ArriveBears DEF LedgerKind, Carries, Writes, Table, OneShot
<1>6. ASSUME NEW t \in Requests, VerifyFind(r, t) PROVE LedgerKind(r)
  <2>1. UNCHANGED <<now, refresh_tokens, reset_tokens, verification_tokens>> /\ pc'[r] # "idle"
    BY <1>6 DEF VerifyFind, VerifyVerdict, Arrive, TypeOK, tables
  <2>2. \A q \in OneShot, s \in Requests :
            /\ ~Bears(q, s, r)
            /\ Bears(q, s, r)' <=> /\ VerifyVerdict(t) \notin Answers \cup {"refresh_purge"}
                                   /\ q = "verify_email" /\ s = t
    BY <1>6, ArriveBears DEF VerifyFind
  <2>3. CASE VerifyVerdict(t) = "verify_update"
    <3>1. verification_tokens[t].state = "live" /\ verification_tokens[t].expires_at >= now
      BY <2>3 DEF VerifyVerdict, Usable, TypeOK, TokenRow
    <3>2. QED
      BY <2>1, <2>2, <2>3, <3>1 DEF LedgerKind, Enters, Table, OneShot
  <2>4. CASE VerifyVerdict(t) # "verify_update"
    <3>1. VerifyVerdict(t) \in Answers
      BY <2>4 DEF VerifyVerdict
    <3>2. QED
      BY <2>1, <2>2, <3>1 DEF LedgerKind, Carries, Writes, Table
  <2>5. QED
    BY <2>3, <2>4
<1>7. CASE VerifyUpdate(r)
  BY <1>7, GotoBears DEF VerifyUpdate, Goto, TypeOK, LedgerKind, Carries, Writes, Table
<1>8. CASE VerifyMark(r)
  <2>1. req[r].token \in Requests /\ verification_tokens[req[r].token].state # "none"
    BY <1>8 DEF VerifyMark, Goto, References, HandlersFit, Fits, Remembered, Presented, StepsOf
  <2>2. Writes(verification_tokens, verification_tokens', r)
    BY <1>8, <2>1 DEF VerifyMark, Writes
  <2>3. QED
    BY <1>8, <2>2, GotoBears DEF VerifyMark, Goto, TypeOK, LedgerKind, Carries, Writes, Table
<1>9. QED
  BY <1>1, <1>2, <1>3, <1>4, <1>5, <1>6, <1>7, <1>8
     DEF Register, CreateEmailVerification, ResendVerification, VerifyEmail

LEMMA ServeLedger ==
    ASSUME TypeOK, References, IdleBlank, NEW r \in Requests, Serve(r) \/ Fault(r)
    PROVE  LedgerKind(r) /\ \A c \in Requests \ {r} : pc'[c] = pc[c] /\ req'[c] = req[c]
<1>1. CASE Respond(r)
  BY <1>1, GotoBears, StepChanges
     DEF Serve, Respond, Goto, TypeOK, tables, Running, LedgerKind, Carries, Writes, Table,
         ChangesStep
<1>2. CASE Fault(r)
  BY <1>2 DEF Fault, TypeOK, tables, LedgerKind, Leaves, Bears, OneShot, NoRequest, Context
<1>3. QED
  BY <1>1, <1>2, SessionsLedger, PasswordsLedger, RegistrationLedger, StepChanges
     DEF Serve, ChangesStep
\* A request that is yet to come stays blank until it does.
LEMMA StepBlank == TypeOK /\ References /\ IdleBlank /\ [Next]_vars => IdleBlank'
<1> SUFFICES ASSUME TypeOK, References, IdleBlank, [Next]_vars PROVE IdleBlank'
  OBVIOUS
<1>1. ASSUME NEW r \in Requests, Serve(r) \/ Fault(r) PROVE IdleBlank'
  BY <1>1, ServeLedger DEF LedgerKind, IdleBlank
<1>2. CASE (\E u \in Emails, s \in HostStatuses : HostSetsStatus(u, s)) \/ Tick \/ UNCHANGED vars
  BY <1>2 DEF HostSetsStatus, Tick, vars, IdleBlank
<1>3. QED
  BY <1>1, <1>2 DEF Next

-----------------------------------------------------------------------------
(***************************************************************************)
(* From there to the steps of TokenLedger.                                 *)
(***************************************************************************)

\* The statements issue a token or spend some.
Issues(table, later) ==
    \E t \in Requests, u \in Emails :
        /\ table[t].state = "none"
        /\ later = [table EXCEPT ![t] = later[t]]
        /\ later[t].state = "live" /\ later[t].user = u

Spends(table, later) ==
    \E S \in SUBSET Requests :
        later = [t \in Requests |-> IF t \in S /\ table[t].state = "live"
                                    THEN [table[t] EXCEPT !.state = "spent"] ELSE table[t]]

LEMMA WritesLedger ==
    ASSUME NEW table \in [Requests -> TokenRow], NEW later, NEW r \in Requests,
           Writes(table, later, r)
    PROVE  later = table \/ Issues(table, later) \/ Spends(table, later)
<1>1. ASSUME NEW u \in Emails, NEW exp \in Int, table[r].state = "none",
             later = Insert(table, r, u, exp)
      PROVE  /\ later = [table EXCEPT ![r] = later[r]]
             /\ later[r].state = "live" /\ later[r].user = u
  BY <1>1 DEF Insert
<1>2. ASSUME NEW s \in Requests, table[s].state # "none", later = Spend(table, s)
      PROVE  later = [t \in Requests |->
                         IF t \in {s} /\ table[t].state = "live"
                         THEN [table[t] EXCEPT !.state = "spent"] ELSE table[t]]
  <2> DEFINE other == [t \in Requests |->
                          IF t \in {s} /\ table[t].state = "live"
                          THEN [table[t] EXCEPT !.state = "spent"] ELSE table[t]]
  <2>1. ASSUME NEW t \in Requests PROVE later[t] = other[t]
    BY <1>2 DEF Spend, TokenRow
  <2>2. later = [t \in Requests |-> later[t]]
    BY <1>2 DEF Spend
  <2>3. QED
    BY <2>1, <2>2
<1>3. ASSUME NEW u \in Emails, later = SpendAll(table, u)
      PROVE  Spends(table, later)
  <2> DEFINE S == {t \in Requests : table[t].user = u}
  <2>1. later = [t \in Requests |-> IF t \in S /\ table[t].state = "live"
                                    THEN [table[t] EXCEPT !.state = "spent"] ELSE table[t]]
    BY <1>3 DEF SpendAll
  <2>2. S \in SUBSET Requests
    OBVIOUS
  <2> HIDE DEF S
  <2>3. QED
    BY <2>1, <2>2 DEF Spends
<1>4. QED
  <2>1. ASSUME NEW s \in Requests, table[s].state # "none", later = Spend(table, s)
        PROVE  Spends(table, later)
    <3>1. {s} \in SUBSET Requests
      OBVIOUS
    <3>2. QED
      BY <1>2, <2>1, <3>1 DEF Spends
  <2>2. QED
    BY <1>1, <1>3, <2>1 DEF Writes, Issues

\* What a step does to one table, its bearers and the clock.
LedgerStep(op) ==
    \/ /\ now' = now /\ Bearers(op)' = Bearers(op)
       /\ Table(op)' = Table(op) \/ \E r \in Requests : Writes(Table(op), Table(op)', r)
    \/ /\ now' = now /\ Table(op)' = Table(op)
       /\ \E r \in Requests, t \in Requests :
              \/ /\ Table(op)[t].state = "live" /\ Table(op)[t].expires_at >= now
                 /\ Bearers(op)' = [Bearers(op) EXCEPT ![t] = @ \cup {r}]
              \/ Bearers(op)' = [Bearers(op) EXCEPT ![t] = @ \ {r}]
    \/ now' = now + 1 /\ Table(op)' = Table(op) /\ Bearers(op)' = Bearers(op)

LEMMA StepLedger ==
    ASSUME TypeOK, References, IdleBlank, [Next]_vars, NEW op \in OneShot
    PROVE  LedgerStep(op)
<1>1. ASSUME NEW r \in Requests, Serve(r) \/ Fault(r) PROVE LedgerStep(op)
  <2>1. LedgerKind(r)
    BY <1>1, ServeLedger
  <2>2. ASSUME NEW t \in Requests, NEW c \in Requests, c # r
        PROVE  c \in Bearing(op, t)' <=> c \in Bearing(op, t)
    BY <1>1, <2>2, ServeLedger DEF Bearing
  <2>3. \A t \in Requests : /\ r \in Bearing(op, t) <=> Bears(op, t, r)
                            /\ r \in Bearing(op, t)' <=> Bears(op, t, r)'
                            /\ Bearing(op, t) \subseteq Requests
                            /\ Bearing(op, t)' \subseteq Requests
    BY DEF Bearing, Bears
  <2>4. CASE Carries(r)
    <3>1. \A t \in Requests : Bearing(op, t)' = Bearing(op, t)
      BY <2>2, <2>3, <2>4 DEF Carries
    <3>2. Bearers(op)' = Bearers(op)
      BY <3>1 DEF Bearers
    <3>3. QED
      BY <2>1, <2>4, <3>2 DEF Carries, LedgerStep, LedgerKind
  <2>5. CASE Enters(r)
    <3>1. PICK q \in OneShot, s \in Requests :
              /\ Table(q)[s].state = "live" /\ Table(q)[s].expires_at >= now
              /\ \A p \in OneShot, t \in Requests :
                     ~Bears(p, t, r) /\ (Bears(p, t, r)' <=> p = q /\ t = s)
      BY <2>5 DEF Enters
    <3>2. Table(op)' = Table(op)
      BY <2>5 DEF Enters, Table
    <3>3. CASE q = op
      <4>1. ASSUME NEW t \in Requests
            PROVE  Bearing(op, t)' = IF t = s THEN Bearing(op, t) \cup {r} ELSE Bearing(op, t)
        <5>1. r \notin Bearing(op, t) /\ (r \in Bearing(op, t)' <=> t = s)
          BY <2>3, <3>1, <3>3
        <5>2. QED
          BY <2>2, <2>3, <5>1
      <4>2. Bearers(op)' = [Bearers(op) EXCEPT ![s] = @ \cup {r}]
        BY <4>1 DEF Bearers
      <4>3. QED
        BY <2>1, <3>1, <3>2, <3>3, <4>2 DEF LedgerStep, LedgerKind
    <3>4. CASE q # op
      <4>1. \A t \in Requests : Bearing(op, t)' = Bearing(op, t)
        <5>1. \A t \in Requests : r \notin Bearing(op, t) /\ r \notin Bearing(op, t)'
          BY <2>3, <3>1, <3>4
        <5>2. QED
          BY <2>2, <2>3, <5>1
      <4>2. Bearers(op)' = Bearers(op)
        BY <4>1 DEF Bearers
      <4>3. QED
        BY <2>1, <3>2, <4>2 DEF LedgerStep, LedgerKind
    <3>5. QED
      BY <3>3, <3>4
  <2>6. CASE Leaves(r)
    <3>1. Table(op)' = Table(op)
      BY <2>6 DEF Leaves, Table
    <3>2. CASE \E t \in Requests : Bears(op, t, r)
      <4>1. PICK s \in Requests : Bears(op, s, r)
        BY <3>2
      <4>2. \A t \in Requests : Bears(op, t, r) => t = s
        BY <4>1 DEF Bears
      <4>3. \A t \in Requests : Bearing(op, t)' = IF t = s THEN Bearing(op, t) \ {r}
                                                  ELSE Bearing(op, t)
        BY <2>2, <2>3, <2>6, <4>2 DEF Leaves
      <4>4. Bearers(op)' = [Bearers(op) EXCEPT ![s] = @ \ {r}]
        BY <4>3 DEF Bearers
      <4>5. QED
        BY <2>1, <3>1, <4>4 DEF LedgerStep, LedgerKind
    <3>3. CASE ~\E t \in Requests : Bears(op, t, r)
      <4>1. \A t \in Requests : Bearing(op, t)' = Bearing(op, t)
        BY <2>2, <2>3, <2>6, <3>3 DEF Leaves
      <4>2. Bearers(op)' = Bearers(op)
        BY <4>1 DEF Bearers
      <4>3. QED
        BY <2>1, <3>1, <4>2 DEF LedgerStep, LedgerKind
    <3>4. QED
      BY <3>2, <3>3
  <2>7. QED
    BY <2>1, <2>4, <2>5, <2>6 DEF LedgerKind
<1>2. CASE (\E u \in Emails, s \in HostStatuses : HostSetsStatus(u, s)) \/ Tick \/ UNCHANGED vars
  BY <1>2 DEF HostSetsStatus, Tick, tables, vars, LedgerStep, Table, Bearers, Bearing
<1>3. QED
  BY <1>1, <1>2 DEF Next

-----------------------------------------------------------------------------
(***************************************************************************)
(* The three tables.                                                       *)
(***************************************************************************)

\* The initial state: no token has admitted anyone.
LEMMA InitLedger ==
    ASSUME Init, NEW op \in OneShot
    PROVE  /\ IdleBlank
           /\ Bearers(op) = [t \in Requests |-> {}]
           /\ \A t \in Requests : Table(op)[t].state \in {"none", "live"}
<1>1. \A r \in Requests : req[r].op \notin OneShot
  BY DEF Init, OneShot, NoRequest, Context
<1>2. \A t \in Requests : Bearing(op, t) = {}
  BY <1>1 DEF Bearing
<1>3. QED
  BY <1>2 DEF Init, IdleBlank, Bearers, Table, NoToken, NoRequest, Context

LEMMA BlankHolds == Spec => []IdleBlank
<1>1. Init => IdleBlank
  BY InitLedger DEF OneShot
<1>2. QED
  BY <1>1, StepBlank, Integrity, PTL DEF Spec

\* refresh_tokens: a refresh token is issued once, spent for good, and admits refreshes
\* only while it is live, however many requests and revocations overlap.
THEOREM RefreshLedgerHolds == Spec => RefreshTokensAreOneShot
<1> USE DEF Table, Bearers, OneShot
<1>1. Init => RefreshLedger!Init
  BY InitLedger DEF RefreshLedger!Init, Init
<1>2. TypeOK /\ References /\ IdleBlank /\ [Next]_vars => [RefreshLedger!Next]_(RefreshLedger!ledger)
  <2> SUFFICES ASSUME TypeOK, References, IdleBlank, [Next]_vars
               PROVE  [RefreshLedger!Next]_(RefreshLedger!ledger)
    OBVIOUS
  <2>1. LedgerStep("refresh")
    BY StepLedger
  <2>2. CASE /\ now' = now /\ Bearers("refresh")' = Bearers("refresh")
             /\ refresh_tokens' = refresh_tokens \/ \E r \in Requests : Writes(refresh_tokens, refresh_tokens', r)
    <3>1. refresh_tokens' = refresh_tokens \/ Issues(refresh_tokens, refresh_tokens') \/ Spends(refresh_tokens, refresh_tokens')
      BY <2>2, WritesLedger DEF TypeOK
    <3>2. Issues(refresh_tokens, refresh_tokens') => RefreshLedger!Next
      BY <2>2 DEF Issues, RefreshLedger!Next, RefreshLedger!Issue
    <3>3. Spends(refresh_tokens, refresh_tokens') => RefreshLedger!Next
      BY <2>2 DEF Spends, RefreshLedger!Next, RefreshLedger!Spend
    <3>4. QED
      BY <2>2, <3>1, <3>2, <3>3 DEF RefreshLedger!ledger
  <2>3. ASSUME now' = now, refresh_tokens' = refresh_tokens,
               NEW r \in Requests, NEW t \in Requests,
               refresh_tokens[t].state = "live", refresh_tokens[t].expires_at >= now,
               Bearers("refresh")' = [Bearers("refresh") EXCEPT ![t] = @ \cup {r}]
        PROVE  RefreshLedger!Next
    BY <2>3 DEF RefreshLedger!Next, RefreshLedger!Admit
  <2>4. ASSUME now' = now, refresh_tokens' = refresh_tokens,
               NEW r \in Requests, NEW t \in Requests,
               Bearers("refresh")' = [Bearers("refresh") EXCEPT ![t] = @ \ {r}]
        PROVE  RefreshLedger!Next
    BY <2>4 DEF RefreshLedger!Next, RefreshLedger!Release
  <2>5. CASE now' = now + 1 /\ refresh_tokens' = refresh_tokens /\ Bearers("refresh")' = Bearers("refresh")
    BY <2>5 DEF RefreshLedger!Next, RefreshLedger!Pass
  <2>6. QED
    BY <2>1, <2>2, <2>3, <2>4, <2>5 DEF LedgerStep
<1>3. QED
  BY <1>1, <1>2, Integrity, BlankHolds, PTL DEF Spec, RefreshTokensAreOneShot, RefreshLedger!Spec

\* password_reset_tokens: so it is with the tokens that reset a password.
THEOREM ResetLedgerHolds == Spec => ResetTokensAreOneShot
<1> USE DEF Table, Bearers, OneShot
<1>1. Init => ResetLedger!Init
  BY InitLedger DEF ResetLedger!Init, Init
<1>2. TypeOK /\ References /\ IdleBlank /\ [Next]_vars => [ResetLedger!Next]_(ResetLedger!ledger)
  <2> SUFFICES ASSUME TypeOK, References, IdleBlank, [Next]_vars
               PROVE  [ResetLedger!Next]_(ResetLedger!ledger)
    OBVIOUS
  <2>1. LedgerStep("reset_password")
    BY StepLedger
  <2>2. CASE /\ now' = now /\ Bearers("reset_password")' = Bearers("reset_password")
             /\ reset_tokens' = reset_tokens \/ \E r \in Requests : Writes(reset_tokens, reset_tokens', r)
    <3>1. reset_tokens' = reset_tokens \/ Issues(reset_tokens, reset_tokens') \/ Spends(reset_tokens, reset_tokens')
      BY <2>2, WritesLedger DEF TypeOK
    <3>2. Issues(reset_tokens, reset_tokens') => ResetLedger!Next
      BY <2>2 DEF Issues, ResetLedger!Next, ResetLedger!Issue
    <3>3. Spends(reset_tokens, reset_tokens') => ResetLedger!Next
      BY <2>2 DEF Spends, ResetLedger!Next, ResetLedger!Spend
    <3>4. QED
      BY <2>2, <3>1, <3>2, <3>3 DEF ResetLedger!ledger
  <2>3. ASSUME now' = now, reset_tokens' = reset_tokens,
               NEW r \in Requests, NEW t \in Requests,
               reset_tokens[t].state = "live", reset_tokens[t].expires_at >= now,
               Bearers("reset_password")' = [Bearers("reset_password") EXCEPT ![t] = @ \cup {r}]
        PROVE  ResetLedger!Next
    BY <2>3 DEF ResetLedger!Next, ResetLedger!Admit
  <2>4. ASSUME now' = now, reset_tokens' = reset_tokens,
               NEW r \in Requests, NEW t \in Requests,
               Bearers("reset_password")' = [Bearers("reset_password") EXCEPT ![t] = @ \ {r}]
        PROVE  ResetLedger!Next
    BY <2>4 DEF ResetLedger!Next, ResetLedger!Release
  <2>5. CASE now' = now + 1 /\ reset_tokens' = reset_tokens /\ Bearers("reset_password")' = Bearers("reset_password")
    BY <2>5 DEF ResetLedger!Next, ResetLedger!Pass
  <2>6. QED
    BY <2>1, <2>2, <2>3, <2>4, <2>5 DEF LedgerStep
<1>3. QED
  BY <1>1, <1>2, Integrity, BlankHolds, PTL DEF Spec, ResetTokensAreOneShot, ResetLedger!Spec

\* email_verification_tokens: and with those that verify an address.
THEOREM VerificationLedgerHolds == Spec => VerificationTokensAreOneShot
<1> USE DEF Table, Bearers, OneShot
<1>1. Init => VerificationLedger!Init
  BY InitLedger DEF VerificationLedger!Init, Init
<1>2. TypeOK /\ References /\ IdleBlank /\ [Next]_vars => [VerificationLedger!Next]_(VerificationLedger!ledger)
  <2> SUFFICES ASSUME TypeOK, References, IdleBlank, [Next]_vars
               PROVE  [VerificationLedger!Next]_(VerificationLedger!ledger)
    OBVIOUS
  <2>1. LedgerStep("verify_email")
    BY StepLedger
  <2>2. CASE /\ now' = now /\ Bearers("verify_email")' = Bearers("verify_email")
             /\ verification_tokens' = verification_tokens \/ \E r \in Requests : Writes(verification_tokens, verification_tokens', r)
    <3>1. verification_tokens' = verification_tokens \/ Issues(verification_tokens, verification_tokens') \/ Spends(verification_tokens, verification_tokens')
      BY <2>2, WritesLedger DEF TypeOK
    <3>2. Issues(verification_tokens, verification_tokens') => VerificationLedger!Next
      BY <2>2 DEF Issues, VerificationLedger!Next, VerificationLedger!Issue
    <3>3. Spends(verification_tokens, verification_tokens') => VerificationLedger!Next
      BY <2>2 DEF Spends, VerificationLedger!Next, VerificationLedger!Spend
    <3>4. QED
      BY <2>2, <3>1, <3>2, <3>3 DEF VerificationLedger!ledger
  <2>3. ASSUME now' = now, verification_tokens' = verification_tokens,
               NEW r \in Requests, NEW t \in Requests,
               verification_tokens[t].state = "live", verification_tokens[t].expires_at >= now,
               Bearers("verify_email")' = [Bearers("verify_email") EXCEPT ![t] = @ \cup {r}]
        PROVE  VerificationLedger!Next
    BY <2>3 DEF VerificationLedger!Next, VerificationLedger!Admit
  <2>4. ASSUME now' = now, verification_tokens' = verification_tokens,
               NEW r \in Requests, NEW t \in Requests,
               Bearers("verify_email")' = [Bearers("verify_email") EXCEPT ![t] = @ \ {r}]
        PROVE  VerificationLedger!Next
    BY <2>4 DEF VerificationLedger!Next, VerificationLedger!Release
  <2>5. CASE now' = now + 1 /\ verification_tokens' = verification_tokens /\ Bearers("verify_email")' = Bearers("verify_email")
    BY <2>5 DEF VerificationLedger!Next, VerificationLedger!Pass
  <2>6. QED
    BY <2>1, <2>2, <2>3, <2>4, <2>5 DEF LedgerStep
<1>3. QED
  BY <1>1, <1>2, Integrity, BlankHolds, PTL DEF Spec, VerificationTokensAreOneShot, VerificationLedger!Spec
=============================================================================
