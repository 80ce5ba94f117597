-------------------------- MODULE AuthServiceProofs --------------------------
(***************************************************************************)
(* Theorems about AuthService, for any number of accounts and requests and *)
(* any configuration that AuthConfig::validate accepts.                    *)
(***************************************************************************)
EXTENDS AuthService, TLAPS

(***************************************************************************)
(* The inductive invariant: a handler that is running belongs to its       *)
(* endpoint and what it remembers resolves to rows.                        *)
(***************************************************************************)

StepsOf(op) ==
    CASE op = "login" -> {"login_increment", "login_record", "login_issue", "respond"}
      [] op = "refresh" -> {"refresh_user", "refresh_issue", "refresh_revoke",
                            "refresh_purge", "respond"}
      [] op = "forgot_password" -> {"forgot_invalidate", "forgot_insert", "respond"}
      [] op = "reset_password" -> {"reset_update", "reset_mark", "reset_revoke"}
      [] op = "change_password" -> {"change_update", "change_revoke"}
      [] op = "register" -> {"register_insert", "verification_invalidate",
                             "verification_insert", "respond"}
      [] op = "resend_verification" -> {"verification_invalidate", "verification_insert",
                                        "respond"}
      [] op = "verify_email" -> {"verify_update", "verify_mark"}
      [] OTHER -> {}

\* Every running handler is at a step of its endpoint.
Fits(r) == pc[r] \in Running => pc[r] \in StepsOf(req[r].op)
HandlersFit == \A r \in Requests : Fits(r)

\* u is an account.
Account(u) == u \in Emails /\ Exists(u)

\* The rows of a token table belong to accounts (user_id REFERENCES users).
Owned(table) == \A t \in Requests : table[t].state # "none" => Account(table[t].user)

\* Token t of the table was presented by request r.
Presented(table, r) ==
    /\ req[r].token \in Requests
    /\ table[req[r].token].state # "none"
    /\ table[req[r].token].user = req[r].user

\* What the handler of r remembers is there.
Remembered(r) ==
    /\ req[r].op # "none" => req[r].user \in Emails
    /\ req[r].op # "none" /\ pc[r] # "register_insert" => Exists(req[r].user)
    /\ req[r].op \in {"register", "reset_password", "change_password"}
           => req[r].password \in Passwords
    /\ req[r].op = "refresh" => Presented(refresh_tokens, r)
    /\ req[r].op = "reset_password" => Presented(reset_tokens, r)
    /\ req[r].op = "verify_email" => Presented(verification_tokens, r)

\* A request that has yet to insert its token has no row in that table.
IssuingRefresh == {"login_issue", "refresh_issue"}
IssuingReset == {"forgot_insert"}
IssuingVerification == {"verification_insert"}
BeforeRefresh == {"idle", "login_record", "refresh_user"} \cup IssuingRefresh
BeforeReset == {"idle", "forgot_invalidate"} \cup IssuingReset
BeforeVerification ==
    {"idle", "register_insert", "verification_invalidate"} \cup IssuingVerification

Unissued ==
    \A r \in Requests :
        /\ pc[r] \in BeforeRefresh => refresh_tokens[r].state = "none"
        /\ pc[r] \in BeforeReset => reset_tokens[r].state = "none"
        /\ pc[r] \in BeforeVerification => verification_tokens[r].state = "none"

References ==
    /\ HandlersFit
    /\ Unissued
    /\ Owned(refresh_tokens)
    /\ Owned(reset_tokens)
    /\ Owned(verification_tokens)
    /\ \A r \in Requests : Remembered(r)

\* A request that has changed a password knows an age of it that the account has reached.
ChangesAreRecorded ==
    \A c \in Requests :
        HasChanged(c) => req[c].epoch <= users[req[c].user].password_changed_at

-----------------------------------------------------------------------------
(***************************************************************************)
(* What the statements on token tables and the moves of a handler return.  *)
(***************************************************************************)

\* An INSERT leaves a table of token rows.
LEMMA InsertType ==
    ASSUME NEW table \in [Requests -> TokenRow], NEW r, NEW u \in Emails, NEW exp \in Int
    PROVE  Insert(table, r, u, exp) \in [Requests -> TokenRow]
BY DEF Insert, TokenRow

\* So does the UPDATE of one row.
LEMMA SpendType ==
    ASSUME NEW table \in [Requests -> TokenRow], NEW t
    PROVE  Spend(table, t) \in [Requests -> TokenRow]
BY DEF Spend, TokenRow

\* So does the UPDATE of a user's live rows.
LEMMA SpendAllType ==
    ASSUME NEW table \in [Requests -> TokenRow], NEW u
    PROVE  SpendAll(table, u) \in [Requests -> TokenRow]
BY DEF SpendAll, TokenRow

\* What a handler remembers is well typed, also when it is nothing.
LEMMA ContextType ==
    ASSUME NEW op \in AllEndpoints, NEW u \in Emails, NEW t \in Requests \cup {None},
           NEW p \in Passwords \cup {None}, NEW n \in Nat
    PROVE  Context(op, u, t, p, n) \in Request
BY DEF Context, Request

LEMMA NoRequestType == NoRequest \in Request
BY DEF NoRequest, Context, Request

\* A handler that starts on well-typed data has a well-typed label and memory.
LEMMA ArriveType ==
    ASSUME TypeOK, NEW r \in Requests, NEW op, NEW d \in Request,
           NEW next \in Running \cup Answers, Arrive(r, op, d, next)
    PROVE  /\ pc' \in [Requests -> {"idle"} \cup Running \cup Answers]
           /\ req' \in [Requests -> Request]
BY NoRequestType DEF Arrive, TypeOK

\* A handler that goes on has a well-typed label.
LEMMA GotoType ==
    ASSUME TypeOK, NEW r \in Requests, NEW here,
           NEW next \in Running \cup Answers, Goto(r, here, next)
    PROVE  pc' \in [Requests -> {"idle"} \cup Running \cup Answers]
BY DEF Goto, TypeOK

-----------------------------------------------------------------------------
(***************************************************************************)
(* Type correctness.                                                       *)
(***************************************************************************)

\* What AuthConfig::validate accepts are integers.
LEMMA Durations ==
    /\ RefreshTTL \in Int /\ ResetTTL \in Int /\ VerifyTTL \in Int
    /\ LockoutDuration \in Int /\ MaxLoginAttempts \in Int
BY ConfigAssumption

\* A failed attempt leaves a row of users.
LEMMA FailedAttemptType ==
    ASSUME NEW row \in UserRow, now \in Nat PROVE FailedAttempt(row) \in UserRow
<1> DEFINE n == row.failed_login_attempts + 1
           until == IF n >= MaxLoginAttempts THEN now + LockoutDuration ELSE row.locked_until
<1>1. n \in Nat /\ until \in Int \cup {None}
  BY Durations DEF UserRow
<1>2. FailedAttempt(row) = [row EXCEPT !.failed_login_attempts = n, !.locked_until = until]
  BY DEF FailedAttempt
<1> HIDE DEF n, until
<1>3. QED
  BY <1>1, <1>2 DEF UserRow

\* It changes the counter and the lock and nothing else.
LEMMA FailedAttemptKeeps ==
    ASSUME NEW row \in UserRow
    PROVE  /\ FailedAttempt(row).status = row.status
           /\ FailedAttempt(row).email_verified = row.email_verified
           /\ FailedAttempt(row).password_changed_at = row.password_changed_at
           /\ FailedAttempt(row).password_hash = row.password_hash
<1> DEFINE n == row.failed_login_attempts + 1
           until == IF n >= MaxLoginAttempts THEN now + LockoutDuration ELSE row.locked_until
<1>1. FailedAttempt(row) = [row EXCEPT !.failed_login_attempts = n, !.locked_until = until]
  BY DEF FailedAttempt
<1> HIDE DEF n, until
<1>2. QED
  BY <1>1 DEF UserRow

\* The initial database is well typed.
LEMMA InitType == Init => TypeOK
<1> SUFFICES ASSUME Init PROVE TypeOK
  OBVIOUS
<1>1. ASSUME NEW u \in Emails PROVE users[u] \in UserRow
  BY PopulationAssumption DEF Init, NewUser, UserRow, Statuses
<1>2. NoToken \in TokenRow
  BY DEF NoToken, TokenRow
<1>3. ASSUME NEW u \in Emails
      PROVE  [state |-> "live", user |-> u, expires_at |-> RefreshTTL] \in TokenRow
  BY Durations DEF TokenRow
<1>4. refresh_tokens \in [Requests -> TokenRow]
  BY <1>2, <1>3, PopulationAssumption DEF Init
<1>5. NoRequest \in Request
  BY NoRequestType
<1>6. ASSUME NEW u \in Emails PROVE Context("login", u, None, None, 0) \in Request
  BY ContextType DEF AllEndpoints
<1>7. req \in [Requests -> Request]
  BY <1>5, <1>6, PopulationAssumption DEF Init
<1>8. QED
  BY <1>1, <1>2, <1>4, <1>7 DEF Init, TypeOK, Answers

\* A running handler serves an account.
LEMMA RunningUser ==
    ASSUME References, NEW r \in Requests, pc[r] \in Running
    PROVE  req[r].op # "none" /\ req[r].user \in Emails
BY DEF References, HandlersFit, Fits, Remembered, StepsOf

\* Issuing tokens keeps the table and its history well typed.
LEMMA GenerateTokensType ==
    ASSUME TypeOK, References, NEW r \in Requests, pc[r] \in Running, GenerateTokens(r)
    PROVE  /\ refresh_tokens' \in [Requests -> TokenRow]
           /\ minted' \in [Requests -> [auth: Nat, wrote: Nat]]
<1>1. req[r].user \in Emails
  BY RunningUser
<1>2. now + RefreshTTL \in Int
  BY Durations DEF TypeOK
<1>3. req[r].epoch \in Nat /\ users[req[r].user].password_changed_at \in Nat
  BY <1>1 DEF TypeOK, Request, UserRow
<1>4. QED
  BY <1>1, <1>2, <1>3, InsertType DEF GenerateTokens, TypeOK

\* Remembering when a token will expire keeps the handlers' memory well typed.
LEMMA ExpiryType ==
    ASSUME TypeOK, NEW r \in Requests, NEW ttl \in Int,
           req' = [req EXCEPT ![r].expires = now + ttl]
    PROVE  req' \in [Requests -> Request]
<1>1. now + ttl \in Int
  BY DEF TypeOK
<1>2. ASSUME NEW c \in Requests PROVE req'[c] \in Request
  BY <1>1 DEF TypeOK, Request
<1>3. QED
  BY <1>2 DEF TypeOK

\* Updating a password keeps the accounts and the handlers' memory well typed.
LEMMA UpdatePasswordType ==
    ASSUME TypeOK, References, NEW r \in Requests, pc[r] \in {"reset_update", "change_update"},
           UpdatePassword(r)
    PROVE  /\ users' \in [Emails -> UserRow]
           /\ req' \in [Requests -> Request]
<1> DEFINE u == req[r].user
           n == users[u].password_changed_at + 1
<1>1. u \in Emails
  BY RunningUser DEF Running
<1>2. n \in Nat
  BY <1>1 DEF TypeOK, UserRow
<1>3. req[r].password \in Passwords
  BY DEF References, HandlersFit, Fits, Remembered, StepsOf, Running
<1>4. users' = [users EXCEPT ![u].password_hash = req[r].password, ![u].password_changed_at = n]
  BY DEF UpdatePassword
<1>5. req' = [req EXCEPT ![r].epoch = n]
  BY DEF UpdatePassword
<1> HIDE DEF u, n
<1>6. ASSUME NEW v \in Emails PROVE users'[v] \in UserRow
  BY <1>1, <1>2, <1>3, <1>4 DEF TypeOK, UserRow
<1>7. ASSUME NEW c \in Requests PROVE req'[c] \in Request
  BY <1>2, <1>5 DEF TypeOK, Request
<1>8. QED
  BY <1>4, <1>5, <1>6, <1>7 DEF TypeOK

\* The handlers of Sessions keep the types.
LEMMA SessionsType ==
    ASSUME TypeOK, References, NEW r \in Requests, Login(r) \/ Refresh(r) \/ Logout(r)
    PROVE  TypeOK'
<1>1. ASSUME NEW u \in Emails, NEW p \in Passwords, LoginFind(r, u, p) PROVE TypeOK'
  <2>1. LoginVerdict(u, p) \in Running \cup Answers
    BY DEF LoginVerdict, Running, Answers
  <2>2. users[u].password_changed_at \in Nat
    BY DEF TypeOK, UserRow
  <2>3. Context("login", u, None, None, users[u].password_changed_at) \in Request
    BY <2>2, ContextType DEF AllEndpoints
  <2>4. QED
    BY <1>1, <2>1, <2>3, ArriveType DEF LoginFind, tables, TypeOK
<1>2. CASE LoginIncrement(r)
  <2>1. users' \in [Emails -> UserRow]
    BY <1>2, FailedAttemptType DEF LoginIncrement, TypeOK
  <2>2. QED
    BY <1>2, <2>1, NoRequestType, GotoType DEF LoginIncrement, TypeOK, Answers, Running
<1>3. CASE LoginRecord(r)
  <2>1. ASSUME NEW u \in Emails PROVE users'[u] \in UserRow
    BY <1>3 DEF LoginRecord, TypeOK, UserRow
  <2>2. users' \in [Emails -> UserRow]
    BY <1>3, <2>1 DEF LoginRecord, TypeOK
  <2>3. QED
    BY <1>3, <2>2, GotoType DEF LoginRecord, TypeOK, Running
<1>4. CASE LoginIssue(r)
  <2>1. pc[r] \in Running /\ GenerateTokens(r)
    BY <1>4 DEF LoginIssue, Goto, Running
  <2>2. QED
    BY <1>4, <2>1, GotoType, GenerateTokensType DEF LoginIssue, GenerateTokens, TypeOK, Running
<1>5. ASSUME NEW t \in Requests, RefreshFind(r, t) PROVE TypeOK'
  <2>1. RefreshVerdict(t) \in Running \cup Answers
    BY DEF RefreshVerdict, Running, Answers
  <2>2. refresh_tokens[t].user \in Emails
    BY <1>5 DEF RefreshFind, Delivered, References, Owned, Account
  <2>3. minted[t].auth \in Nat
    BY DEF TypeOK
  <2>4. Context("refresh", refresh_tokens[t].user, t, None, minted[t].auth) \in Request
    BY <2>2, <2>3, ContextType DEF AllEndpoints
  <2>5. QED
    BY <1>5, <2>1, <2>4, ArriveType DEF RefreshFind, tables, TypeOK
<1>6. CASE RefreshPurge(r)
  BY <1>6, GotoType, NoRequestType, SpendAllType DEF RefreshPurge, TypeOK, Answers
<1>7. CASE RefreshUser(r)
  <2>1. (IF CanLogin(req[r].user) THEN "refresh_issue" ELSE "AccountNotActive")
            \in Running \cup Answers
    BY DEF Running, Answers
  <2>2. QED
    BY <1>7, <2>1, GotoType, NoRequestType DEF RefreshUser, tables, TypeOK
<1>8. CASE RefreshIssue(r)
  <2>1. pc[r] \in Running /\ GenerateTokens(r)
    BY <1>8 DEF RefreshIssue, Goto, Running
  <2>2. QED
    BY <1>8, <2>1, GotoType, GenerateTokensType DEF RefreshIssue, GenerateTokens, TypeOK, Running
<1>9. CASE RefreshRevoke(r)
  BY <1>9, GotoType, SpendType DEF RefreshRevoke, TypeOK, Running
<1>10. CASE Logout(r)
  <2>1. PICK t \in Requests :
           /\ Arrive(r, "logout", NoRequest, IF JwtDecodes(t) THEN "ok" ELSE "InvalidToken")
           /\ refresh_tokens' = IF JwtDecodes(t) THEN Spend(refresh_tokens, t) ELSE refresh_tokens
           /\ UNCHANGED <<now, users, reset_tokens, verification_tokens, minted>>
    BY <1>10 DEF Logout
  <2>2. (IF JwtDecodes(t) THEN "ok" ELSE "InvalidToken") \in Running \cup Answers
    BY DEF Answers
  <2>3. QED
    BY <2>1, <2>2, ArriveType, NoRequestType, SpendType DEF TypeOK
<1>11. QED
  BY <1>1, <1>2, <1>3, <1>4, <1>5, <1>6, <1>7, <1>8, <1>9, <1>10 DEF Login, Refresh

\* The handlers of Passwords keep the types.
LEMMA PasswordsType ==
    ASSUME TypeOK, References, NEW r \in Requests,
           ForgotPassword(r) \/ ResetPassword(r) \/ ChangePassword(r)
    PROVE  TypeOK'
<1>1. ASSUME NEW u \in Emails, ForgotFind(r, u) PROVE TypeOK'
  <2>1. Context("forgot_password", u, None, None, 0) \in Request
    BY ContextType DEF AllEndpoints
  <2>2. QED
    BY <1>1, <2>1, ArriveType DEF ForgotFind, tables, TypeOK, Running, Answers
<1>2. CASE ForgotInvalidate(r)
  <2>1. req' \in [Requests -> Request]
    BY <1>2, ExpiryType, Durations DEF ForgotInvalidate
  <2>2. QED
    BY <1>2, <2>1, GotoType, SpendAllType DEF ForgotInvalidate, TypeOK, Running
<1>3. CASE ForgotInsert(r)
  <2>1. req[r].user \in Emails /\ req[r].expires \in Int
    BY <1>3, RunningUser DEF ForgotInsert, Goto, TypeOK, Request, Running
  <2>2. QED
    BY <1>3, <2>1, GotoType, InsertType DEF ForgotInsert, TypeOK, Running
<1>4. ASSUME NEW t \in Requests, NEW p \in Passwords, ResetFind(r, t, p) PROVE TypeOK'
  <2>1. ResetVerdict(t, p) \in Running \cup Answers
    BY DEF ResetVerdict, Running, Answers
  <2>2. reset_tokens[t].user \in Emails
    BY <1>4 DEF ResetFind, Delivered, References, Owned, Account
  <2>3. Context("reset_password", reset_tokens[t].user, t, p, 0) \in Request
    BY <2>2, ContextType DEF AllEndpoints
  <2>4. QED
    BY <1>4, <2>1, <2>3, ArriveType DEF ResetFind, tables, TypeOK
<1>5. CASE ResetUpdate(r)
  <2>1. pc[r] \in {"reset_update", "change_update"} /\ UpdatePassword(r)
    BY <1>5 DEF ResetUpdate, Goto
  <2>2. QED
    BY <1>5, <2>1, GotoType, UpdatePasswordType DEF ResetUpdate, UpdatePassword, TypeOK, Running
<1>6. CASE ResetMark(r)
  BY <1>6, GotoType, SpendType DEF ResetMark, TypeOK, Running
<1>7. CASE ResetRevoke(r)
  BY <1>7, GotoType, SpendAllType DEF ResetRevoke, RevokeSessions, TypeOK, Answers
<1>8. ASSUME NEW u \in Emails, NEW current \in Passwords, NEW p \in Passwords,
             ChangeFind(r, u, current, p)
      PROVE  TypeOK'
  <2>1. ChangeVerdict(u, current, p) \in Running \cup Answers
    BY DEF ChangeVerdict, Running, Answers
  <2>2. Context("change_password", u, None, p, 0) \in Request
    BY ContextType DEF AllEndpoints
  <2>3. QED
    BY <1>8, <2>1, <2>2, ArriveType DEF ChangeFind, tables, TypeOK
<1>9. CASE ChangeUpdate(r)
  <2>1. pc[r] \in {"reset_update", "change_update"} /\ UpdatePassword(r)
    BY <1>9 DEF ChangeUpdate, Goto
  <2>2. QED
    BY <1>9, <2>1, GotoType, UpdatePasswordType DEF ChangeUpdate, UpdatePassword, TypeOK, Running
<1>10. CASE ChangeRevoke(r)
  BY <1>10, GotoType, SpendAllType DEF ChangeRevoke, RevokeSessions, TypeOK, Answers
<1>11. QED
  BY <1>1, <1>2, <1>3, <1>4, <1>5, <1>6, <1>7, <1>8, <1>9, <1>10
     DEF ForgotPassword, ResetPassword, ChangePassword

\* The handlers of Registration keep the types.
LEMMA RegistrationType ==
    ASSUME TypeOK, References, NEW r \in Requests,
           \/ Register(r) \/ CreateEmailVerification(r)
           \/ ResendVerification(r) \/ VerifyEmail(r)
    PROVE  TypeOK'
<1>1. ASSUME NEW u \in Emails, NEW p \in Passwords, RegisterFind(r, u, p) PROVE TypeOK'
  <2>1. RegisterVerdict(u, p) \in Running \cup Answers
    BY DEF RegisterVerdict, Running, Answers
  <2>2. Context("register", u, None, p, 0) \in Request
    BY ContextType DEF AllEndpoints
  <2>3. QED
    BY <1>1, <2>1, <2>2, ArriveType DEF RegisterFind, tables, TypeOK
<1>2. CASE RegisterInsert(r)
  <2>1. (IF Collides(r) THEN "Database" ELSE "verification_invalidate") \in Running \cup Answers
    BY DEF Running, Answers
  <2>2. req[r].password \in Passwords
    BY <1>2 DEF RegisterInsert, Goto, References, HandlersFit, Fits, Remembered, StepsOf, Running
  <2>3. NewUser(req[r].password, "active", FALSE) \in UserRow
    BY <2>2 DEF NewUser, UserRow, Statuses
  <2>4. QED
    BY <1>2, <2>1, <2>3, GotoType, NoRequestType DEF RegisterInsert, TypeOK
<1>3. CASE VerificationInvalidate(r)
  <2>1. req' \in [Requests -> Request]
    BY <1>3, ExpiryType, Durations DEF VerificationInvalidate
  <2>2. QED
    BY <1>3, <2>1, GotoType, SpendAllType DEF VerificationInvalidate, TypeOK, Running
<1>4. CASE VerificationInsert(r)
  <2>1. req[r].user \in Emails /\ req[r].expires \in Int
    BY <1>4, RunningUser DEF VerificationInsert, Goto, TypeOK, Request, Running
  <2>2. QED
    BY <1>4, <2>1, GotoType, InsertType DEF VerificationInsert, TypeOK, Running
<1>5. CASE ResendVerification(r)
  <2>1. PICK u \in Emails :
           /\ Arrive(r, "resend_verification",
                     Context("resend_verification", u, None, None, 0),
                     IF users[u].email_verified THEN "ok" ELSE "verification_invalidate")
           /\ UNCHANGED <<now, tables>>
    BY <1>5 DEF ResendVerification
  <2>2. (IF users[u].email_verified THEN "ok" ELSE "verification_invalidate")
            \in Running \cup Answers
    BY DEF Running, Answers
  <2>3. Context("resend_verification", u, None, None, 0) \in Request
    BY ContextType DEF AllEndpoints
  <2>4. QED
    BY <2>1, <2>2, <2>3, ArriveType DEF tables, TypeOK
<1>6. ASSUME NEW t \in Requests, VerifyFind(r, t) PROVE TypeOK'
  <2>1. VerifyVerdict(t) \in Running \cup Answers
    BY DEF VerifyVerdict, Running, Answers
  <2>2. verification_tokens[t].user \in Emails
    BY <1>6 DEF VerifyFind, Delivered, References, Owned, Account
  <2>3. Context("verify_email", verification_tokens[t].user, t, None, 0) \in Request
    BY <2>2, ContextType DEF AllEndpoints
  <2>4. QED
    BY <1>6, <2>1, <2>3, ArriveType DEF VerifyFind, tables, TypeOK
<1>7. CASE VerifyUpdate(r)
  <2>1. ASSUME NEW u \in Emails PROVE users'[u] \in UserRow
    BY <1>7 DEF VerifyUpdate, TypeOK, UserRow, Statuses
  <2>2. users' \in [Emails -> UserRow]
    BY <1>7, <2>1 DEF VerifyUpdate, TypeOK
  <2>3. QED
    BY <1>7, <2>2, GotoType DEF VerifyUpdate, TypeOK, Running
<1>8. CASE VerifyMark(r)
  BY <1>8, GotoType, SpendType DEF VerifyMark, TypeOK, Answers
<1>9. QED
  BY <1>1, <1>2, <1>3, <1>4, <1>5, <1>6, <1>7, <1>8
     DEF Register, CreateEmailVerification, VerifyEmail

\* Every step keeps the types.
LEMMA StepType == TypeOK /\ References /\ [Next]_vars => TypeOK'
<1> SUFFICES ASSUME TypeOK, References, [Next]_vars PROVE TypeOK'
  OBVIOUS
<1>1. ASSUME NEW r \in Requests, Serve(r) PROVE TypeOK'
  <2>1. CASE Respond(r)
    BY <2>1, GotoType DEF Respond, tables, TypeOK, Answers
  <2>2. QED
    BY <1>1, <2>1, SessionsType, PasswordsType, RegistrationType DEF Serve
<1>2. ASSUME NEW r \in Requests, Fault(r) PROVE TypeOK'
  BY <1>2, NoRequestType DEF Fault, tables, TypeOK, Answers
<1>3. ASSUME NEW u \in Emails, NEW s \in HostStatuses, HostSetsStatus(u, s) PROVE TypeOK'
  <2>1. ASSUME NEW v \in Emails PROVE users'[v] \in UserRow
    BY <1>3, PopulationAssumption DEF HostSetsStatus, TypeOK, UserRow
  <2>2. QED
    BY <1>3, <2>1 DEF HostSetsStatus, TypeOK
<1>4. CASE Tick
  BY <1>4 DEF Tick, tables, TypeOK
<1>5. CASE UNCHANGED vars
  BY <1>5 DEF vars, TypeOK
<1>6. QED
  BY <1>1, <1>2, <1>3, <1>4, <1>5 DEF Next

-----------------------------------------------------------------------------
(***************************************************************************)
(* References resolve: accounts and rows of the token tables stay.         *)
(***************************************************************************)

\* No row is deleted or given to another user.
RowsStay(table, later) ==
    \A t \in Requests :
        table[t].state # "none" => later[t].state # "none" /\ later[t].user = table[t].user

AccountsStay == \A u \in Emails : Exists(u) => Exists(u)'

\* A row arises only where request r inserts one, at one of the given steps.
Issued(table, later, r, steps) ==
    \A t \in Requests :
        table[t].state = "none" /\ later[t].state # "none" => t = r /\ pc[r] \in steps

RefreshStep(r) ==
    /\ RowsStay(refresh_tokens, refresh_tokens')
    /\ Issued(refresh_tokens, refresh_tokens', r, IssuingRefresh)
ResetStep(r) ==
    /\ RowsStay(reset_tokens, reset_tokens')
    /\ Issued(reset_tokens, reset_tokens', r, IssuingReset)
VerificationStep(r) ==
    /\ RowsStay(verification_tokens, verification_tokens')
    /\ Issued(verification_tokens, verification_tokens', r, IssuingVerification)

TablesStep(r) ==
    /\ AccountsStay
    /\ RefreshStep(r) /\ Owned(refresh_tokens)'
    /\ ResetStep(r) /\ Owned(reset_tokens)'
    /\ VerificationStep(r) /\ Owned(verification_tokens)'

\* The three statements keep the rows there are.
LEMMA InsertRows ==
    ASSUME NEW table \in [Requests -> TokenRow], NEW r \in Requests, NEW u, NEW exp,
           table[r].state = "none", NEW steps, pc[r] \in steps
    PROVE  /\ RowsStay(table, Insert(table, r, u, exp))
           /\ Issued(table, Insert(table, r, u, exp), r, steps)
BY DEF RowsStay, Issued, Insert

LEMMA SpendRows ==
    ASSUME NEW table \in [Requests -> TokenRow], NEW t \in Requests, table[t].state # "none",
           NEW r, NEW steps
    PROVE  /\ RowsStay(table, Spend(table, t))
           /\ Issued(table, Spend(table, t), r, steps)
BY DEF RowsStay, Issued, Spend, TokenRow

LEMMA SpendAllRows ==
    ASSUME NEW table \in [Requests -> TokenRow], NEW u, NEW r, NEW steps
    PROVE  /\ RowsStay(table, SpendAll(table, u))
           /\ Issued(table, SpendAll(table, u), r, steps)
BY DEF RowsStay, Issued, SpendAll, TokenRow

\* A step that only touches users, and deletes nobody, keeps what tokens refer to.
LEMMA UsersOnly ==
    ASSUME References, NEW r, \A u \in Emails : Exists(u) => users'[u].status # "absent",
           UNCHANGED <<refresh_tokens, reset_tokens, verification_tokens>>
    PROVE  TablesStep(r)
<1>1. AccountsStay
  BY DEF AccountsStay, Exists
<1>2. Owned(refresh_tokens)' /\ Owned(reset_tokens)' /\ Owned(verification_tokens)'
  BY <1>1 DEF References, Owned, Account, AccountsStay
<1>3. RefreshStep(r) /\ ResetStep(r) /\ VerificationStep(r)
  BY DEF RefreshStep, ResetStep, VerificationStep, RowsStay, Issued
<1>4. QED
  BY <1>1, <1>2, <1>3 DEF TablesStep

\* A step that touches one token table leaves the references of the others alone.
LEMMA OneTable ==
    ASSUME References, NEW r, UNCHANGED users,
           \/ /\ RefreshStep(r) /\ Owned(refresh_tokens)'
              /\ UNCHANGED <<reset_tokens, verification_tokens>>
           \/ /\ ResetStep(r) /\ Owned(reset_tokens)'
              /\ UNCHANGED <<refresh_tokens, verification_tokens>>
           \/ /\ VerificationStep(r) /\ Owned(verification_tokens)'
              /\ UNCHANGED <<refresh_tokens, reset_tokens>>
    PROVE  TablesStep(r)
<1>1. AccountsStay
  BY DEF AccountsStay, Exists
<1>2. Owned(refresh_tokens)' /\ Owned(reset_tokens)' /\ Owned(verification_tokens)'
  BY <1>1 DEF References, Owned, Account, AccountsStay
<1>3. RefreshStep(r) /\ ResetStep(r) /\ VerificationStep(r)
  BY DEF RefreshStep, ResetStep, VerificationStep, RowsStay, Issued
<1>4. QED
  BY <1>1, <1>2, <1>3 DEF TablesStep

\* Accounts and tokens outlive every step of Sessions.
LEMMA SessionsTables ==
    ASSUME TypeOK, References, NEW r \in Requests, Login(r) \/ Refresh(r) \/ Logout(r)
    PROVE  TablesStep(r)
<1>1. CASE UNCHANGED tables
  BY <1>1, UsersOnly DEF tables, Exists
<1>2. CASE LoginIncrement(r) \/ LoginRecord(r)
  <2>1. ASSUME NEW u \in Emails PROVE users'[u].status = users[u].status
    <3>1. CASE LoginIncrement(r)
      BY <3>1, FailedAttemptKeeps DEF LoginIncrement, TypeOK
    <3>2. CASE LoginRecord(r)
      BY <3>2 DEF LoginRecord, TypeOK, UserRow
    <3>3. QED
      BY <1>2, <3>1, <3>2
  <2>2. QED
    BY <1>2, <2>1, UsersOnly DEF LoginIncrement, LoginRecord, Exists
<1>3. CASE LoginIssue(r) \/ RefreshIssue(r)
  <2>1. GenerateTokens(r) /\ pc[r] \in {"login_issue", "refresh_issue"}
    BY <1>3 DEF LoginIssue, RefreshIssue, Goto
  <2>2. Account(req[r].user)
    BY <2>1 DEF References, HandlersFit, Fits, Remembered, StepsOf, Running, Account
  <2>3. refresh_tokens[r].state = "none"
    BY <2>1 DEF References, Unissued, BeforeRefresh, IssuingRefresh
  <2>4. RefreshStep(r)
    BY <2>1, <2>3, InsertRows DEF GenerateTokens, TypeOK, RefreshStep, IssuingRefresh
  <2>5. Owned(refresh_tokens)'
    BY <2>1, <2>2 DEF GenerateTokens, Insert, TypeOK, References, Owned, Account, Exists
  <2>6. QED
    BY <2>1, <2>4, <2>5, OneTable DEF GenerateTokens
<1>4. CASE RefreshPurge(r)
  <2>1. Owned(refresh_tokens)'
    BY <1>4 DEF RefreshPurge, SpendAll, TypeOK, TokenRow, References, Owned, Account, Exists
  <2>2. RefreshStep(r)
    BY <1>4, SpendAllRows DEF RefreshPurge, TypeOK, RefreshStep
  <2>3. QED
    BY <1>4, <2>1, <2>2, OneTable DEF RefreshPurge
<1>5. CASE RefreshRevoke(r)
  <2>1. Presented(refresh_tokens, r)
    BY <1>5 DEF RefreshRevoke, Goto, References, HandlersFit, Fits, Remembered, StepsOf, Running
  <2>2. Owned(refresh_tokens)'
    BY <1>5, <2>1 DEF RefreshRevoke, Spend, TypeOK, TokenRow, Presented,
                      References, Owned, Account, Exists
  <2>3. RefreshStep(r)
    BY <1>5, <2>1, SpendRows DEF RefreshRevoke, Presented, TypeOK, RefreshStep
  <2>4. QED
    BY <1>5, <2>2, <2>3, OneTable DEF RefreshRevoke
<1>6. CASE Logout(r)
  <2>1. PICK t \in Requests :
           /\ Delivered(refresh_tokens, t)
           /\ refresh_tokens' = IF JwtDecodes(t) THEN Spend(refresh_tokens, t) ELSE refresh_tokens
           /\ UNCHANGED <<now, users, reset_tokens, verification_tokens, minted>>
    BY <1>6 DEF Logout
  <2>2. Owned(refresh_tokens)'
    BY <2>1 DEF Delivered, Spend, TypeOK, TokenRow, References, Owned, Account, Exists
  <2>3. RefreshStep(r)
    BY <2>1, SpendRows DEF Delivered, TypeOK, RefreshStep, RowsStay, Issued
  <2>4. QED
    BY <2>1, <2>2, <2>3, OneTable
<1>7. QED
  BY <1>1, <1>2, <1>3, <1>4, <1>5, <1>6 DEF Login, LoginFind, Refresh, RefreshFind, RefreshUser

\* Accounts and tokens outlive every step of Passwords.
LEMMA PasswordsTables ==
    ASSUME TypeOK, References, NEW r \in Requests,
           ForgotPassword(r) \/ ResetPassword(r) \/ ChangePassword(r)
    PROVE  TablesStep(r)
<1>1. CASE UNCHANGED tables
  BY <1>1, UsersOnly DEF tables, Exists
<1>2. CASE ResetUpdate(r) \/ ChangeUpdate(r)
  <2>1. UpdatePassword(r)
    BY <1>2 DEF ResetUpdate, ChangeUpdate
  <2>2. ASSUME NEW u \in Emails PROVE users'[u].status = users[u].status
    BY <2>1 DEF UpdatePassword, TypeOK, UserRow
  <2>3. QED
    BY <2>1, <2>2, UsersOnly DEF UpdatePassword, Exists
<1>3. CASE ForgotInvalidate(r)
  <2>1. Owned(reset_tokens)'
    BY <1>3 DEF ForgotInvalidate, SpendAll, TypeOK, TokenRow, References, Owned, Account, Exists
  <2>2. ResetStep(r)
    BY <1>3, SpendAllRows DEF ForgotInvalidate, TypeOK, ResetStep
  <2>3. QED
    BY <1>3, <2>1, <2>2, OneTable DEF ForgotInvalidate
<1>4. CASE ForgotInsert(r)
  <2>1. Account(req[r].user) /\ reset_tokens[r].state = "none"
    BY <1>4 DEF ForgotInsert, Goto, References, HandlersFit, Fits, Unissued, BeforeReset,
                IssuingReset, Remembered, StepsOf,
                Running, Account
  <2>2. ResetStep(r)
    BY <1>4, <2>1, InsertRows DEF ForgotInsert, Goto, TypeOK, ResetStep, IssuingReset
  <2>3. Owned(reset_tokens)'
    BY <1>4, <2>1 DEF ForgotInsert, Insert, TypeOK, References, Owned, Account, Exists
  <2>4. QED
    BY <1>4, <2>2, <2>3, OneTable DEF ForgotInsert
<1>5. CASE ResetMark(r)
  <2>1. Presented(reset_tokens, r)
    BY <1>5 DEF ResetMark, Goto, References, HandlersFit, Fits, Remembered, StepsOf, Running
  <2>2. Owned(reset_tokens)'
    BY <1>5, <2>1 DEF ResetMark, Spend, TypeOK, TokenRow, Presented,
                      References, Owned, Account, Exists
  <2>3. ResetStep(r)
    BY <1>5, <2>1, SpendRows DEF ResetMark, Presented, TypeOK, ResetStep
  <2>4. QED
    BY <1>5, <2>2, <2>3, OneTable DEF ResetMark
<1>6. CASE ResetRevoke(r) \/ ChangeRevoke(r)
  <2>1. /\ refresh_tokens' = SpendAll(refresh_tokens, req[r].user)
        /\ UNCHANGED <<users, reset_tokens, verification_tokens>>
    BY <1>6 DEF ResetRevoke, ChangeRevoke, RevokeSessions
  <2>2. Owned(refresh_tokens)'
    BY <2>1 DEF SpendAll, TypeOK, TokenRow, References, Owned, Account, Exists
  <2>3. RefreshStep(r)
    BY <2>1, SpendAllRows DEF TypeOK, RefreshStep
  <2>4. QED
    BY <2>1, <2>2, <2>3, OneTable
<1>7. QED
  BY <1>1, <1>2, <1>3, <1>4, <1>5, <1>6
     DEF ForgotPassword, ForgotFind, ResetPassword, ResetFind, ChangePassword, ChangeFind

\* Accounts and tokens outlive every step of Registration.
LEMMA RegistrationTables ==
    ASSUME TypeOK, References, NEW r \in Requests,
           \/ Register(r) \/ CreateEmailVerification(r)
           \/ ResendVerification(r) \/ VerifyEmail(r)
    PROVE  TablesStep(r)
<1>1. CASE UNCHANGED tables
  BY <1>1, UsersOnly DEF tables, Exists
<1>2. CASE RegisterInsert(r)
  <2>1. ASSUME NEW u \in Emails, Exists(u) PROVE users'[u].status = users[u].status
    BY <1>2, <2>1 DEF RegisterInsert, Collides, TypeOK, Exists
  <2>2. QED
    BY <1>2, <2>1, UsersOnly DEF RegisterInsert, Exists
<1>3. CASE VerificationInvalidate(r)
  <2>1. Owned(verification_tokens)'
    BY <1>3 DEF VerificationInvalidate, SpendAll, TypeOK, TokenRow, References, Owned,
                Account, Exists
  <2>2. VerificationStep(r)
    BY <1>3, SpendAllRows DEF VerificationInvalidate, TypeOK, VerificationStep
  <2>3. QED
    BY <1>3, <2>1, <2>2, OneTable DEF VerificationInvalidate
<1>4. CASE VerificationInsert(r)
  <2>1. Account(req[r].user) /\ verification_tokens[r].state = "none"
    BY <1>4 DEF VerificationInsert, Goto, References, HandlersFit, Fits, Unissued, BeforeVerification,
                IssuingVerification, Remembered,
                StepsOf, Running, Account
  <2>2. VerificationStep(r)
    BY <1>4, <2>1, InsertRows DEF VerificationInsert, Goto, TypeOK, VerificationStep, IssuingVerification
  <2>3. Owned(verification_tokens)'
    BY <1>4, <2>1 DEF VerificationInsert, Insert, TypeOK, References, Owned, Account, Exists
  <2>4. QED
    BY <1>4, <2>2, <2>3, OneTable DEF VerificationInsert
<1>5. CASE VerifyUpdate(r)
  <2>1. ASSUME NEW u \in Emails, Exists(u) PROVE users'[u].status # "absent"
    BY <1>5, <2>1 DEF VerifyUpdate, TypeOK, UserRow, Exists
  <2>2. QED
    BY <1>5, <2>1, UsersOnly DEF VerifyUpdate
<1>6. CASE VerifyMark(r)
  <2>1. Presented(verification_tokens, r)
    BY <1>6 DEF VerifyMark, Goto, References, HandlersFit, Fits, Remembered, StepsOf, Running
  <2>2. Owned(verification_tokens)'
    BY <1>6, <2>1 DEF VerifyMark, Spend, TypeOK, TokenRow, Presented,
                      References, Owned, Account, Exists
  <2>3. VerificationStep(r)
    BY <1>6, <2>1, SpendRows DEF VerifyMark, Presented, TypeOK, VerificationStep
  <2>4. QED
    BY <1>6, <2>2, <2>3, OneTable DEF VerifyMark
<1>7. QED
  BY <1>1, <1>2, <1>3, <1>4, <1>5, <1>6
     DEF Register, RegisterFind, CreateEmailVerification, ResendVerification,
         VerifyEmail, VerifyFind

-----------------------------------------------------------------------------
(***************************************************************************)
(* References resolve: handlers keep to their endpoint and to their rows.  *)
(***************************************************************************)

\* A handler does not come back to a step before its INSERT.
MovesOn(r) ==
    /\ pc'[r] \in BeforeRefresh => pc[r] \in BeforeRefresh \ IssuingRefresh
    /\ pc'[r] \in BeforeReset => pc[r] \in BeforeReset \ IssuingReset
    /\ pc'[r] \in BeforeVerification => pc[r] \in BeforeVerification \ IssuingVerification

\* next is a later step of every endpoint that has the step here, or its success.
Onward(here, next) ==
    /\ here \in Running
    /\ next \in BeforeRefresh => here \in BeforeRefresh \ IssuingRefresh
    /\ next \in BeforeReset => here \in BeforeReset \ IssuingReset
    /\ next \in BeforeVerification => here \in BeforeVerification \ IssuingVerification
    /\ \A op : here \in StepsOf(op) => next \in StepsOf(op) \cup {"ok"}

LEMMA Edges ==
    /\ Onward("login_record", "login_issue")
    /\ Onward("login_issue", "respond")
    /\ Onward("refresh_user", "refresh_issue")
    /\ Onward("refresh_issue", "refresh_revoke")
    /\ Onward("refresh_revoke", "respond")
    /\ Onward("forgot_invalidate", "forgot_insert")
    /\ Onward("forgot_insert", "respond")
    /\ Onward("reset_update", "reset_mark")
    /\ Onward("reset_mark", "reset_revoke")
    /\ Onward("reset_revoke", "ok")
    /\ Onward("change_update", "change_revoke")
    /\ Onward("change_revoke", "ok")
    /\ Onward("register_insert", "verification_invalidate")
    /\ Onward("verification_invalidate", "verification_insert")
    /\ Onward("verification_insert", "respond")
    /\ Onward("verify_update", "verify_mark")
    /\ Onward("verify_mark", "ok")
    /\ Onward("respond", "ok")
BY DEF Onward, StepsOf, Running, BeforeRefresh, BeforeReset, BeforeVerification,
       IssuingRefresh, IssuingReset, IssuingVerification

\* Nothing happens to the handlers of the other requests.
OthersStay(r) ==
    \A c \in Requests \ {r} : pc'[c] = pc[c] /\ req'[c] = req[c]

\* A step of r leaves references intact if it does so for r itself.
LEMMA OneRequest ==
    ASSUME References, NEW r \in Requests, TablesStep(r), OthersStay(r), MovesOn(r),
           Fits(r)', Remembered(r)'
    PROVE  References'
<1>1. HandlersFit'
  BY DEF OthersStay, References, HandlersFit, Fits
<1>2. ASSUME NEW c \in Requests
      PROVE  /\ pc'[c] \in BeforeRefresh => refresh_tokens'[c].state = "none"
             /\ pc'[c] \in BeforeReset => reset_tokens'[c].state = "none"
             /\ pc'[c] \in BeforeVerification => verification_tokens'[c].state = "none"
  <2>1. CASE c = r
    BY <2>1 DEF MovesOn, TablesStep, RefreshStep, ResetStep, VerificationStep, Issued,
                References, Unissued
  <2>2. CASE c # r
    BY <2>2 DEF OthersStay, TablesStep, RefreshStep, ResetStep, VerificationStep, Issued,
                References, Unissued
  <2>3. QED
    BY <2>1, <2>2
<1>3. Unissued'
  BY <1>2 DEF Unissued
<1>4. ASSUME NEW c \in Requests PROVE Remembered(c)'
  <2>1. CASE c = r
    BY <2>1
  <2>2. CASE c # r
    BY <2>2 DEF OthersStay, TablesStep, RefreshStep, ResetStep, VerificationStep, RowsStay,
                AccountsStay, References, Remembered, Presented
  <2>3. QED
    BY <2>1, <2>2
<1>5. QED
  BY <1>1, <1>3, <1>4 DEF References, TablesStep

\* A request answered with an error or cut short refers to nothing.
LEMMA Forgets ==
    ASSUME TypeOK, References, NEW r \in Requests, TablesStep(r), NEW answer \in Answers,
           pc' = [pc EXCEPT ![r] = answer], req' = [req EXCEPT ![r] = NoRequest]
    PROVE  References'
<1>1. OthersStay(r) /\ pc'[r] = answer /\ req'[r] = NoRequest
  BY DEF OthersStay, TypeOK
<1>2. MovesOn(r)
  BY <1>1 DEF MovesOn, Answers, BeforeRefresh, BeforeReset, BeforeVerification,
              IssuingRefresh, IssuingReset, IssuingVerification
<1>3. Fits(r)'
  BY <1>1 DEF Fits, Answers, Running
<1>4. Remembered(r)'
  BY <1>1 DEF Remembered, NoRequest, Context
<1>5. QED
  BY <1>1, <1>2, <1>3, <1>4, OneRequest

\* A handler that goes on to the next step of its endpoint, or succeeds, refers to
\* what it referred to.
LEMMA GoesOn ==
    ASSUME TypeOK, References, NEW r \in Requests, TablesStep(r), NEW here, NEW next,
           Goto(r, here, next), Onward(here, next), next # "register_insert",
           here = "register_insert" => Exists(req[r].user)',
           \A c \in Requests \ {r} : req'[c] = req[c],
           req'[r].op = req[r].op, req'[r].user = req[r].user,
           req'[r].token = req[r].token, req'[r].password = req[r].password
    PROVE  References'
<1>1. OthersStay(r) /\ pc'[r] = next /\ pc[r] = here
  BY DEF OthersStay, Goto, TypeOK
<1>2. MovesOn(r)
  BY <1>1 DEF Onward, MovesOn
<1>3. Fits(r)'
  BY <1>1 DEF Onward, Fits, Running, References, HandlersFit
<1>4. Remembered(r)
  BY DEF References
<1>5. Remembered(r)'
  BY <1>1, <1>4 DEF Remembered, Presented, TablesStep, RefreshStep, ResetStep, VerificationStep,
                    RowsStay, AccountsStay
<1>6. QED
  BY <1>1, <1>2, <1>3, <1>5, OneRequest

\* A request that arrives refers to what its endpoint has just read.
LEMMA Arrives ==
    ASSUME TypeOK, References, NEW r \in Requests, UNCHANGED tables,
           NEW op, NEW u, NEW t, NEW p, NEW n, NEW next \in StepsOf(op) \cup Answers,
           Arrive(r, op, Context(op, u, t, p, n), next), op # "none",
           next \notin Answers =>
               /\ u \in Emails
               /\ next # "register_insert" => Exists(u)
               /\ op \in {"register", "reset_password", "change_password"} => p \in Passwords
               /\ op \in {"refresh", "reset_password", "verify_email"} => t \in Requests
               /\ op = "refresh" =>
                      refresh_tokens[t].state # "none" /\ refresh_tokens[t].user = u
               /\ op = "reset_password" =>
                      reset_tokens[t].state # "none" /\ reset_tokens[t].user = u
               /\ op = "verify_email" =>
                      verification_tokens[t].state # "none" /\ verification_tokens[t].user = u
    PROVE  References'
<1>1. TablesStep(r)
  BY UsersOnly DEF tables, Exists
<1>2. CASE next \in Answers
  BY <1>1, <1>2, Forgets DEF Arrive
<1>3. CASE next \notin Answers
  <2>1. /\ OthersStay(r) /\ pc[r] = "idle" /\ pc'[r] = next
        /\ req'[r] = Context(op, u, t, p, n)
    BY <1>3 DEF OthersStay, Arrive, TypeOK
  <2>2. /\ req'[r].op = op /\ req'[r].user = u /\ req'[r].token = t /\ req'[r].password = p
    BY <2>1 DEF Context
  <2>3. MovesOn(r)
    BY <2>1 DEF MovesOn, BeforeRefresh, BeforeReset, BeforeVerification,
                IssuingRefresh, IssuingReset, IssuingVerification
  <2>4. Fits(r)'
    BY <1>3, <2>1, <2>2 DEF Fits
  <2>5. Remembered(r)'
    BY <1>3, <2>1, <2>2 DEF Remembered, Presented, tables, Exists
  <2>6. QED
    BY <1>1, <2>1, <2>3, <2>4, <2>5, OneRequest
<1>4. QED
  BY <1>2, <1>3

\* The handlers of Sessions leave every reference intact.
LEMMA SessionsReferences ==
    ASSUME TypeOK, References, NEW r \in Requests, Login(r) \/ Refresh(r) \/ Logout(r)
    PROVE  References'
<1> USE DEF Answers
<1>0. TablesStep(r)
  BY SessionsTables
<1>1. ASSUME NEW u \in Emails, NEW p \in Passwords, LoginFind(r, u, p) PROVE References'
  <2>1. LoginVerdict(u, p) \in StepsOf("login") \cup Answers
    BY DEF LoginVerdict, StepsOf
  <2>2. LoginVerdict(u, p) \notin Answers => Exists(u)
    BY DEF LoginVerdict
  <2>3. QED
    BY <1>1, <2>1, <2>2, Arrives DEF LoginFind
<1>2. CASE LoginIncrement(r)
  BY <1>0, <1>2, Forgets DEF LoginIncrement, Goto
<1>3. CASE LoginRecord(r)
  BY <1>0, <1>3, Edges, GoesOn DEF LoginRecord
<1>4. CASE LoginIssue(r)
  BY <1>0, <1>4, Edges, GoesOn DEF LoginIssue, GenerateTokens
<1>5. ASSUME NEW t \in Requests, RefreshFind(r, t) PROVE References'
  <2>1. RefreshVerdict(t) \in StepsOf("refresh") \cup Answers
    BY DEF RefreshVerdict, StepsOf
  <2>2. refresh_tokens[t].state # "none" /\ Account(refresh_tokens[t].user)
    BY <1>5 DEF RefreshFind, Delivered, References, Owned
  <2>3. QED
    BY <1>5, <2>1, <2>2, Arrives DEF RefreshFind, Account
<1>6. CASE RefreshPurge(r)
  BY <1>0, <1>6, Forgets DEF RefreshPurge, Goto
<1>7. CASE RefreshUser(r) /\ CanLogin(req[r].user)
  <2>1. Goto(r, "refresh_user", "refresh_issue") /\ req' = req
    BY <1>7 DEF RefreshUser
  <2>2. QED
    BY <1>0, <2>1, Edges, GoesOn
<1>8. CASE RefreshUser(r) /\ ~CanLogin(req[r].user)
  BY <1>0, <1>8, Forgets DEF RefreshUser, Goto
<1>9. CASE RefreshIssue(r)
  BY <1>0, <1>9, Edges, GoesOn DEF RefreshIssue, GenerateTokens
<1>10. CASE RefreshRevoke(r)
  BY <1>0, <1>10, Edges, GoesOn DEF RefreshRevoke
<1>11. CASE Logout(r)
  <2>1. PICK answer \in {"ok", "InvalidToken"} : Arrive(r, "logout", NoRequest, answer)
    BY <1>11 DEF Logout
  <2>2. QED
    BY <1>0, <2>1, Forgets DEF Arrive
<1>12. QED
  BY <1>1, <1>2, <1>3, <1>4, <1>5, <1>6, <1>7, <1>8, <1>9, <1>10, <1>11 DEF Login, Refresh

\* The handlers of Passwords leave every reference intact.
LEMMA PasswordsReferences ==
    ASSUME TypeOK, References, NEW r \in Requests,
           ForgotPassword(r) \/ ResetPassword(r) \/ ChangePassword(r)
    PROVE  References'
<1> USE DEF Answers
<1>0. TablesStep(r)
  BY PasswordsTables
<1>1. ASSUME NEW u \in Emails, ForgotFind(r, u) PROVE References'
  BY <1>1, Arrives DEF ForgotFind, StepsOf
<1>2. CASE ForgotInvalidate(r)
  BY <1>0, <1>2, Edges, GoesOn DEF ForgotInvalidate, TypeOK, Request
<1>3. CASE ForgotInsert(r)
  BY <1>0, <1>3, Edges, GoesOn DEF ForgotInsert
<1>4. ASSUME NEW t \in Requests, NEW p \in Passwords, ResetFind(r, t, p) PROVE References'
  <2>1. ResetVerdict(t, p) \in StepsOf("reset_password") \cup Answers
    BY DEF ResetVerdict, StepsOf
  <2>2. reset_tokens[t].state # "none" /\ Account(reset_tokens[t].user)
    BY <1>4 DEF ResetFind, Delivered, References, Owned
  <2>3. QED
    BY <1>4, <2>1, <2>2, Arrives DEF ResetFind, Account
<1>5. CASE ResetUpdate(r)
  BY <1>0, <1>5, Edges, GoesOn DEF ResetUpdate, UpdatePassword, TypeOK, Request
<1>6. CASE ResetMark(r)
  BY <1>0, <1>6, Edges, GoesOn DEF ResetMark
<1>7. CASE ResetRevoke(r)
  BY <1>0, <1>7, Edges, GoesOn DEF ResetRevoke, RevokeSessions
<1>8. ASSUME NEW u \in Emails, NEW current \in Passwords, NEW p \in Passwords,
             ChangeFind(r, u, current, p)
      PROVE  References'
  <2>1. ChangeVerdict(u, current, p) \in StepsOf("change_password") \cup Answers
    BY DEF ChangeVerdict, StepsOf
  <2>2. Exists(u)
    BY <1>8 DEF ChangeFind, HoldsAccess, Delivered, References, Owned, Account
  <2>3. QED
    BY <1>8, <2>1, <2>2, Arrives DEF ChangeFind
<1>9. CASE ChangeUpdate(r)
  BY <1>0, <1>9, Edges, GoesOn DEF ChangeUpdate, UpdatePassword, TypeOK, Request
<1>10. CASE ChangeRevoke(r)
  BY <1>0, <1>10, Edges, GoesOn DEF ChangeRevoke, RevokeSessions
<1>11. QED
  BY <1>1, <1>2, <1>3, <1>4, <1>5, <1>6, <1>7, <1>8, <1>9, <1>10
     DEF ForgotPassword, ResetPassword, ChangePassword

\* The handlers of Registration leave every reference intact.
LEMMA RegistrationReferences ==
    ASSUME TypeOK, References, NEW r \in Requests,
           \/ Register(r) \/ CreateEmailVerification(r)
           \/ ResendVerification(r) \/ VerifyEmail(r)
    PROVE  References'
<1> USE DEF Answers
<1>0. TablesStep(r)
  BY RegistrationTables
<1>1. ASSUME NEW u \in Emails, NEW p \in Passwords, RegisterFind(r, u, p) PROVE References'
  <2>1. RegisterVerdict(u, p) \in {"register_insert"} \cup Answers
    BY DEF RegisterVerdict
  <2>2. QED
    BY <1>1, <2>1, Arrives DEF RegisterFind, StepsOf
<1>2. CASE RegisterInsert(r) /\ Collides(r)
  BY <1>0, <1>2, Forgets DEF RegisterInsert, Goto
<1>3. CASE RegisterInsert(r) /\ ~Collides(r)
  <2>1. req[r].user \in Emails
    BY <1>3, RunningUser DEF RegisterInsert, Goto, Running
  <2>2. Exists(req[r].user)'
    BY <1>3, <2>1 DEF RegisterInsert, NewUser, Exists, TypeOK
  <2>3. Goto(r, "register_insert", "verification_invalidate") /\ req' = req
    BY <1>3 DEF RegisterInsert
  <2>4. QED
    BY <1>0, <2>2, <2>3, Edges, GoesOn
<1>4. CASE VerificationInvalidate(r)
  BY <1>0, <1>4, Edges, GoesOn DEF VerificationInvalidate, TypeOK, Request
<1>5. CASE VerificationInsert(r)
  BY <1>0, <1>5, Edges, GoesOn DEF VerificationInsert
<1>6. CASE ResendVerification(r)
  <2>1. PICK u \in Emails :
           /\ HoldsAccess(u)
           /\ Arrive(r, "resend_verification",
                     Context("resend_verification", u, None, None, 0),
                     IF users[u].email_verified THEN "ok" ELSE "verification_invalidate")
           /\ UNCHANGED tables
    BY <1>6 DEF ResendVerification
  <2>2. Exists(u)
    BY <2>1 DEF HoldsAccess, Delivered, References, Owned, Account
  <2>3. QED
    BY <2>1, <2>2, Arrives DEF StepsOf
<1>7. ASSUME NEW t \in Requests, VerifyFind(r, t) PROVE References'
  <2>1. VerifyVerdict(t) \in StepsOf("verify_email") \cup Answers
    BY DEF VerifyVerdict, StepsOf
  <2>2. verification_tokens[t].state # "none" /\ Account(verification_tokens[t].user)
    BY <1>7 DEF VerifyFind, Delivered, References, Owned
  <2>3. QED
    BY <1>7, <2>1, <2>2, Arrives DEF VerifyFind, Account
<1>8. CASE VerifyUpdate(r)
  BY <1>0, <1>8, Edges, GoesOn DEF VerifyUpdate
<1>9. CASE VerifyMark(r)
  BY <1>0, <1>9, Edges, GoesOn DEF VerifyMark
<1>10. QED
  BY <1>1, <1>2, <1>3, <1>4, <1>5, <1>6, <1>7, <1>8, <1>9
     DEF Register, CreateEmailVerification, VerifyEmail

\* References resolve in the initial database.
LEMMA InitReferences == Init => References
<1> SUFFICES ASSUME Init PROVE References
  OBVIOUS
<1>1. HandlersFit
  BY DEF Init, HandlersFit, Fits, Running
<1>2. ASSUME NEW t \in Requests PROVE refresh_tokens[t].state # "none" => Account(refresh_tokens[t].user)
  BY PopulationAssumption DEF Init, NoToken, NewUser, Account, Exists
<1>3. Owned(refresh_tokens) /\ Owned(reset_tokens) /\ Owned(verification_tokens)
  BY <1>2 DEF Init, Owned, NoToken
<1>4. Unissued
  BY DEF Init, Unissued, NoToken, BeforeRefresh, BeforeReset, BeforeVerification,
         IssuingRefresh, IssuingReset, IssuingVerification
<1>5. ASSUME NEW r \in Requests PROVE Remembered(r)
  <2>1. CASE Prior[r] = None
    BY <2>1 DEF Init, Remembered, NoRequest, Context
  <2>2. CASE Prior[r] # None
    <3>1. Prior[r] \in Registered
      BY <2>2, PopulationAssumption
    <3>2. req[r].op = "login" /\ req[r].user = Prior[r]
      BY <2>2 DEF Init, Context
    <3>3. Account(Prior[r])
      BY <3>1, PopulationAssumption DEF Init, NewUser, Account, Exists
    <3>4. QED
      BY <3>2, <3>3 DEF Remembered, Account
  <2>3. QED
    BY <2>1, <2>2
<1>6. QED
  BY <1>1, <1>3, <1>4, <1>5 DEF References

\* Every step leaves every reference intact.
LEMMA StepReferences == TypeOK /\ References /\ [Next]_vars => References'
<1> SUFFICES ASSUME TypeOK, References, [Next]_vars PROVE References'
  OBVIOUS
<1>1. ASSUME NEW r \in Requests, Serve(r) PROVE References'
  <2>1. CASE Respond(r)
    <3>1. TablesStep(r)
      BY <2>1, UsersOnly DEF Respond, tables, Exists
    <3>2. QED
      BY <2>1, <3>1, Edges, GoesOn DEF Respond
  <2>2. QED
    BY <1>1, <2>1, SessionsReferences, PasswordsReferences, RegistrationReferences DEF Serve
<1>2. ASSUME NEW r \in Requests, Fault(r) PROVE References'
  <2>1. TablesStep(r)
    BY <1>2, UsersOnly DEF Fault, tables, Exists
  <2>2. QED
    BY <1>2, <2>1, Forgets DEF Fault, Answers
<1>3. ASSUME NEW u \in Emails, NEW s \in HostStatuses, HostSetsStatus(u, s) PROVE References'
  <2>1. ASSUME NEW v \in Emails, Exists(v) PROVE Exists(v)'
    BY <1>3, <2>1, PopulationAssumption DEF HostSetsStatus, TypeOK, Exists, Statuses
  <2>2. QED
    BY <1>3, <2>1 DEF HostSetsStatus, References, HandlersFit, Fits, Unissued, Owned, Account,
                      Remembered, Presented
<1>4. CASE Tick \/ UNCHANGED vars
  BY <1>4 DEF Tick, tables, vars, References, HandlersFit, Fits, Unissued, Owned, Account,
              Exists, Remembered, Presented
<1>5. QED
  BY <1>1, <1>2, <1>3, <1>4 DEF Next

\* Every variable keeps its type, and what handlers and tokens refer to exists, in
\* every state of the service.
THEOREM Integrity == Spec => [](TypeOK /\ References)
<1>1. Init => TypeOK /\ References
  BY InitType, InitReferences
<1>2. TypeOK /\ References /\ [Next]_vars => (TypeOK /\ References)'
  BY StepType, StepReferences
<1>3. QED
  BY <1>1, <1>2, PTL DEF Spec

\* Every variable keeps its type.
THEOREM TypeCorrect == Spec => []TypeOK
BY Integrity, PTL

-----------------------------------------------------------------------------
(***************************************************************************)
(* A password change ends the sessions there were.                         *)
(***************************************************************************)

\* A password stays as it is, or is a later one.
AgesGrow ==
    \A u \in Emails :
        Exists(u) =>
            \/ /\ users'[u].password_changed_at = users[u].password_changed_at
               /\ users'[u].password_hash = users[u].password_hash
            \/ users'[u].password_changed_at > users[u].password_changed_at

LEMMA StepAges == TypeOK /\ References /\ Next => AgesGrow
<1> SUFFICES ASSUME TypeOK, References, Next PROVE AgesGrow
  OBVIOUS
<1>0. ASSUME NEW u \in Emails PROVE users[u] \in UserRow /\ users[u].password_changed_at \in Nat
  BY DEF TypeOK, UserRow
<1>1. CASE UNCHANGED users
  <2>1. ASSUME NEW v \in Emails
        PROVE  /\ users'[v].password_changed_at = users[v].password_changed_at
               /\ users'[v].password_hash = users[v].password_hash
    BY <1>1
  <2>2. QED
    BY <2>1 DEF AgesGrow
<1>2. ASSUME NEW r \in Requests, LoginIncrement(r) PROVE AgesGrow
  BY <1>0, <1>2, FailedAttemptKeeps DEF LoginIncrement, TypeOK, AgesGrow
<1>3. ASSUME NEW r \in Requests, LoginRecord(r) \/ VerifyUpdate(r) PROVE AgesGrow
  <2>1. ASSUME NEW v \in Emails
        PROVE  /\ users'[v].password_changed_at = users[v].password_changed_at
               /\ users'[v].password_hash = users[v].password_hash
    <3>1. CASE LoginRecord(r)
      BY <1>0, <3>1 DEF LoginRecord, TypeOK, UserRow
    <3>2. CASE VerifyUpdate(r)
      BY <1>0, <3>2 DEF VerifyUpdate, TypeOK, UserRow
    <3>3. QED
      BY <1>3, <3>1, <3>2
  <2>2. QED
    BY <1>0, <2>1 DEF AgesGrow
<1>4. ASSUME NEW r \in Requests, UpdatePassword(r) PROVE AgesGrow
  <2> DEFINE n == users[req[r].user].password_changed_at + 1
  <2>1. users' = [users EXCEPT ![req[r].user].password_hash = req[r].password,
                               ![req[r].user].password_changed_at = n]
    BY <1>4 DEF UpdatePassword
  <2>2. ASSUME NEW u \in Emails
        PROVE  /\ users'[u].password_changed_at
                   = IF u = req[r].user THEN n ELSE users[u].password_changed_at
               /\ u # req[r].user => users'[u].password_hash = users[u].password_hash
    <3> HIDE DEF n
    <3>1. QED
      BY <1>0, <2>1 DEF TypeOK, UserRow
  <2>3. QED
    BY <1>0, <2>2 DEF AgesGrow
<1>5. ASSUME NEW r \in Requests, RegisterInsert(r) PROVE AgesGrow
  <2>1. ASSUME NEW v \in Emails, Exists(v)
        PROVE  users'[v] = users[v]
    BY <1>5, <2>1 DEF RegisterInsert, Collides, TypeOK
  <2>2. QED
    BY <1>0, <2>1 DEF AgesGrow
<1>6. ASSUME NEW u \in Emails, NEW s \in HostStatuses, HostSetsStatus(u, s) PROVE AgesGrow
  <2>1. ASSUME NEW v \in Emails
        PROVE  /\ users'[v].password_changed_at = users[v].password_changed_at
               /\ users'[v].password_hash = users[v].password_hash
    BY <1>0, <1>6 DEF HostSetsStatus, TypeOK, UserRow
  <2>2. QED
    BY <1>0, <2>1 DEF AgesGrow
<1>7. ASSUME NEW r \in Requests, Serve(r) PROVE AgesGrow
  <2>1. CASE Login(r)
    BY <1>1, <1>2, <1>3, <2>1 DEF Login, LoginFind, LoginIssue, GenerateTokens, tables
  <2>2. CASE Refresh(r) \/ Logout(r) \/ ForgotPassword(r) \/ Respond(r)
    BY <1>1, <2>2 DEF Refresh, RefreshFind, RefreshPurge, RefreshUser, RefreshIssue, RefreshRevoke,
                      GenerateTokens, Logout, ForgotPassword, ForgotFind, ForgotInvalidate,
                      ForgotInsert, Respond, tables
  <2>3. CASE ResetPassword(r) \/ ChangePassword(r)
    BY <1>1, <1>4, <2>3 DEF ResetPassword, ResetFind, ResetUpdate, ResetMark, ResetRevoke,
                            ChangePassword, ChangeFind, ChangeUpdate, ChangeRevoke,
                            RevokeSessions, tables
  <2>4. CASE Register(r) \/ CreateEmailVerification(r) \/ ResendVerification(r)
    BY <1>1, <1>5, <2>4 DEF Register, RegisterFind, CreateEmailVerification,
                            VerificationInvalidate, VerificationInsert, ResendVerification, tables
  <2>5. CASE VerifyEmail(r)
    BY <1>1, <1>3, <2>5 DEF VerifyEmail, VerifyFind, VerifyMark, tables
  <2>6. QED
    BY <1>7, <2>1, <2>2, <2>3, <2>4, <2>5 DEF Serve
<1>8. QED
  BY <1>1, <1>6, <1>7 DEF Next, Fault, Tick, tables

\* What a step does to the refresh tokens: nothing, one is issued to the account of
\* the request, one that is there is revoked, or all of one user are.
LEMMA RefreshWrites ==
    ASSUME TypeOK, References, Next
    PROVE  \/ UNCHANGED <<refresh_tokens, minted>>
           \/ \E r \in Requests : /\ pc[r] \in IssuingRefresh /\ refresh_tokens[r].state = "none"
                                  /\ GenerateTokens(r)
           \/ /\ \E t \in Requests : /\ refresh_tokens[t].state # "none"
                                     /\ refresh_tokens' = Spend(refresh_tokens, t)
              /\ UNCHANGED minted
           \/ /\ \E u \in Emails : refresh_tokens' = SpendAll(refresh_tokens, u)
              /\ UNCHANGED minted
<1> DEFINE Goal == \/ UNCHANGED <<refresh_tokens, minted>>
                   \/ \E r \in Requests : /\ pc[r] \in IssuingRefresh
                                          /\ refresh_tokens[r].state = "none"
                                          /\ GenerateTokens(r)
                   \/ /\ \E t \in Requests : /\ refresh_tokens[t].state # "none"
                                             /\ refresh_tokens' = Spend(refresh_tokens, t)
                      /\ UNCHANGED minted
                   \/ /\ \E u \in Emails : refresh_tokens' = SpendAll(refresh_tokens, u)
                      /\ UNCHANGED minted
<1> SUFFICES Goal
  OBVIOUS
<1>1. ASSUME NEW r \in Requests, LoginIssue(r) \/ RefreshIssue(r) PROVE Goal
  BY <1>1 DEF LoginIssue, RefreshIssue, Goto, References, Unissued, BeforeRefresh, IssuingRefresh
<1>2. ASSUME NEW r \in Requests, RefreshPurge(r) \/ ResetRevoke(r) \/ ChangeRevoke(r) PROVE Goal
  BY <1>2, RunningUser DEF RefreshPurge, ResetRevoke, ChangeRevoke, RevokeSessions, Goto, Running
<1>3. ASSUME NEW r \in Requests, RefreshRevoke(r) PROVE Goal
  <2>1. Presented(refresh_tokens, r)
    BY <1>3 DEF RefreshRevoke, Goto, References, HandlersFit, Fits, Remembered, StepsOf, Running
  <2>2. QED
    BY <1>3, <2>1 DEF RefreshRevoke, Presented
<1>4. ASSUME NEW r \in Requests, Logout(r) PROVE Goal
  BY <1>4 DEF Logout, Delivered
<1>5. ASSUME NEW r \in Requests, Serve(r) PROVE Goal
  <2>1. CASE Login(r)
    BY <1>1, <2>1 DEF Login, LoginFind, LoginIncrement, LoginRecord, tables
  <2>2. CASE Refresh(r) \/ Logout(r) \/ Respond(r)
    BY <1>1, <1>2, <1>3, <1>4, <2>2 DEF Refresh, RefreshFind, RefreshUser, Respond, tables
  <2>3. CASE ForgotPassword(r)
    BY <2>3 DEF ForgotPassword, ForgotFind, ForgotInvalidate, ForgotInsert, tables
  <2>4. CASE ResetPassword(r) \/ ChangePassword(r)
    BY <1>2, <2>4 DEF ResetPassword, ResetFind, ResetUpdate, ResetMark,
                      ChangePassword, ChangeFind, ChangeUpdate, UpdatePassword, tables
  <2>5. CASE Register(r) \/ CreateEmailVerification(r) \/ ResendVerification(r) \/ VerifyEmail(r)
    BY <2>5 DEF Register, RegisterFind, RegisterInsert, CreateEmailVerification,
                VerificationInvalidate, VerificationInsert, ResendVerification,
                VerifyEmail, VerifyFind, VerifyUpdate, VerifyMark, tables
  <2>6. QED
    BY <1>5, <2>1, <2>2, <2>3, <2>4, <2>5 DEF Serve
<1>6. QED
  BY <1>5 DEF Next, Fault, HostSetsStatus, Tick, tables

\* What a step does to the requests that have changed a password: r gets there by
\* updating it, or was there, and answers only by revoking the account's sessions.
ChangesStep(r) ==
    /\ \A c \in Requests \ {r} : pc'[c] = pc[c] /\ req'[c] = req[c]
    /\ HasChanged(r)' =>
           \/ /\ pc'[r] # "ok"
              /\ users' = [users EXCEPT ![req[r].user].password_hash = req[r].password,
                                       ![req[r].user].password_changed_at = req'[r].epoch]
              /\ req[r].user \in Emails /\ req'[r].user = req[r].user
              /\ req'[r].password = req[r].password
              /\ UNCHANGED <<refresh_tokens, minted>>
           \/ HasChanged(r) /\ pc'[r] # "ok" /\ req'[r] = req[r]
           \/ /\ HasChanged(r) /\ req'[r] = req[r]
              /\ refresh_tokens' = SpendAll(refresh_tokens, req[r].user)

\* A request that arrives has not changed a password yet.
LEMMA ArriveChanges ==
    ASSUME TypeOK, NEW r \in Requests, NEW op, NEW d,
           NEW next, next \notin {"change_revoke", "reset_mark", "reset_revoke"},
           Arrive(r, op, d, next)
    PROVE  ChangesStep(r)
BY DEF Arrive, TypeOK, ChangesStep, HasChanged, NoRequest, Context, Answers

\* Nor has one that goes on to a step of something else.
LEMMA GotoChanges ==
    ASSUME TypeOK, References, NEW r \in Requests, NEW here \in Running, NEW next,
           Goto(r, here, next),
           \/ next \notin {"change_revoke", "reset_mark", "reset_revoke", "ok"}
           \/ here \in {"respond", "verify_mark"} /\ req' = req,
           \A c \in Requests \ {r} : req'[c] = req[c]
    PROVE  ChangesStep(r)
BY DEF Goto, TypeOK, ChangesStep, HasChanged, References, HandlersFit, Fits, StepsOf

\* Every step is one of these for some request.
LEMMA StepChanges ==
    ASSUME TypeOK, References, NEW r \in Requests, Serve(r)
    PROVE  ChangesStep(r)
<1>1. CASE Login(r)
  <2>1. ASSUME NEW u \in Emails, NEW p \in Passwords, LoginFind(r, u, p) PROVE ChangesStep(r)
    BY <2>1, ArriveChanges DEF LoginFind, LoginVerdict
  <2>2. CASE LoginIncrement(r) \/ LoginRecord(r) \/ LoginIssue(r)
    BY <2>2, GotoChanges DEF LoginIncrement, LoginRecord, LoginIssue, GenerateTokens, Running, TypeOK
  <2>3. QED
    BY <1>1, <2>1, <2>2 DEF Login
<1>2. CASE Refresh(r)
  <2>1. ASSUME NEW t \in Requests, RefreshFind(r, t) PROVE ChangesStep(r)
    BY <2>1, ArriveChanges DEF RefreshFind, RefreshVerdict
  <2>2. CASE RefreshPurge(r) \/ RefreshIssue(r) \/ RefreshRevoke(r)
    BY <2>2, GotoChanges DEF RefreshPurge, RefreshIssue, RefreshRevoke, GenerateTokens, Running, TypeOK
  <2>3. CASE RefreshUser(r)
    <3>1. \A c \in Requests \ {r} : req'[c] = req[c]
      BY <2>3 DEF RefreshUser, TypeOK
    <3>2. QED
      BY <2>3, <3>1, GotoChanges DEF RefreshUser, Running
  <2>4. QED
    BY <1>2, <2>1, <2>2, <2>3 DEF Refresh
<1>3. CASE Logout(r)
  BY <1>3, ArriveChanges DEF Logout
<1>4. CASE ForgotPassword(r)
  <2>1. ASSUME NEW u \in Emails, ForgotFind(r, u) PROVE ChangesStep(r)
    BY <2>1, ArriveChanges DEF ForgotFind
  <2>2. CASE ForgotInvalidate(r) \/ ForgotInsert(r)
    BY <2>2, GotoChanges DEF ForgotInvalidate, ForgotInsert, Running, TypeOK
  <2>3. QED
    BY <1>4, <2>1, <2>2 DEF ForgotPassword
<1>5. CASE ResetPassword(r) \/ ChangePassword(r)
  <2>1. ASSUME NEW t \in Requests, NEW p \in Passwords, ResetFind(r, t, p) PROVE ChangesStep(r)
    BY <2>1, ArriveChanges DEF ResetFind, ResetVerdict
  <2>2. ASSUME NEW u \in Emails, NEW q \in Passwords, NEW p \in Passwords, ChangeFind(r, u, q, p)
        PROVE  ChangesStep(r)
    BY <2>2, ArriveChanges DEF ChangeFind, ChangeVerdict
  <2>3. CASE ResetUpdate(r) \/ ChangeUpdate(r)
    <3>1. pc'[r] # "ok" /\ req[r].user \in Emails /\ UpdatePassword(r)
      BY <2>3, RunningUser DEF ResetUpdate, ChangeUpdate, Goto, TypeOK, Running
    <3>2. /\ req'[r].epoch = users[req[r].user].password_changed_at + 1
          /\ req'[r].user = req[r].user /\ req'[r].password = req[r].password
      BY <3>1 DEF UpdatePassword, TypeOK, Request
    <3>3. QED
      BY <2>3, <3>1, <3>2 DEF ResetUpdate, ChangeUpdate, UpdatePassword, Goto, TypeOK, ChangesStep
  <2>4. CASE ResetMark(r)
    BY <2>4 DEF ResetMark, Goto, TypeOK, ChangesStep, HasChanged
  <2>5. CASE ResetRevoke(r) \/ ChangeRevoke(r)
    BY <2>5 DEF ResetRevoke, ChangeRevoke, RevokeSessions, Goto, TypeOK, ChangesStep, HasChanged
  <2>6. QED
    BY <1>5, <2>1, <2>2, <2>3, <2>4, <2>5 DEF ResetPassword, ChangePassword
<1>6. CASE Register(r) \/ CreateEmailVerification(r)
  <2>1. ASSUME NEW u \in Emails, NEW p \in Passwords, RegisterFind(r, u, p) PROVE ChangesStep(r)
    BY <2>1, ArriveChanges DEF RegisterFind, RegisterVerdict
  <2>2. CASE RegisterInsert(r)
    <3>1. \A c \in Requests \ {r} : req'[c] = req[c]
      BY <2>2 DEF RegisterInsert, TypeOK
    <3>2. QED
      BY <2>2, <3>1, GotoChanges DEF RegisterInsert, Running
  <2>3. CASE VerificationInvalidate(r) \/ VerificationInsert(r)
    BY <2>3, GotoChanges DEF VerificationInvalidate, VerificationInsert, Running, TypeOK
  <2>4. QED
    BY <1>6, <2>1, <2>2, <2>3 DEF Register, CreateEmailVerification
<1>7. CASE ResendVerification(r)
  BY <1>7, ArriveChanges DEF ResendVerification
<1>8. CASE VerifyEmail(r)
  <2>1. ASSUME NEW t \in Requests, VerifyFind(r, t) PROVE ChangesStep(r)
    BY <2>1, ArriveChanges DEF VerifyFind, VerifyVerdict
  <2>2. CASE VerifyUpdate(r) \/ VerifyMark(r)
    BY <2>2, GotoChanges DEF VerifyUpdate, VerifyMark, Running
  <2>3. QED
    BY <1>8, <2>1, <2>2 DEF VerifyEmail
<1>9. CASE Respond(r)
  BY <1>9, GotoChanges DEF Respond, Running
<1>10. QED
  BY <1>1, <1>2, <1>3, <1>4, <1>5, <1>6, <1>7, <1>8, <1>9 DEF Serve

\* The invariant is inductive: a token inserted after the update is younger than the
\* change, and one inserted before it is revoked before the change is answered.
LEMMA StepPasswordChange ==
    ASSUME TypeOK, References, ChangesAreRecorded, PasswordChangeEndsSessions, [Next]_vars
    PROVE  ChangesAreRecorded' /\ PasswordChangeEndsSessions'
<1> USE DEF HasChanged
<1>0. ASSUME NEW c \in Requests, HasChanged(c)
      PROVE  req[c].user \in Emails /\ Exists(req[c].user) /\ req[c].epoch \in Nat
  BY <1>0 DEF References, Remembered, TypeOK, Request
<1>1. ASSUME NEW u \in Emails PROVE users[u].password_changed_at \in Nat
  BY DEF TypeOK, UserRow
<1>2. CASE UNCHANGED vars
  BY <1>2 DEF vars, ChangesAreRecorded, PasswordChangeEndsSessions
<1>3. ASSUME Next,
             ASSUME NEW c \in Requests, HasChanged(c)'
             PROVE  \/ HasChanged(c) /\ req'[c] = req[c]
                    \/ /\ pc'[c] # "ok" /\ req[c].user \in Emails /\ req'[c].user = req[c].user
                       /\ users' = [users EXCEPT ![req[c].user].password_hash = req[c].password,
                                       ![req[c].user].password_changed_at = req'[c].epoch],
             ASSUME NEW c \in Requests, HasChanged(c)', pc'[c] = "ok"
             PROVE  \/ HasChanged(c) /\ pc[c] = "ok" /\ req'[c] = req[c]
                    \/ /\ HasChanged(c) /\ req'[c] = req[c]
                       /\ refresh_tokens' = SpendAll(refresh_tokens, req[c].user)
      PROVE  ChangesAreRecorded' /\ PasswordChangeEndsSessions'
  <2>1. AgesGrow
    BY <1>3, StepAges
  <2>2. ChangesAreRecorded'
    <3> SUFFICES ASSUME NEW c \in Requests, HasChanged(c)'
                 PROVE  req'[c].epoch <= users'[req'[c].user].password_changed_at
      BY DEF ChangesAreRecorded
    <3>0. req'[c].epoch \in Nat
      <4>1. TypeOK'
        BY <1>3, StepType
      <4>2. QED
        BY <4>1 DEF TypeOK, Request
    <3>1. CASE HasChanged(c) /\ req'[c] = req[c]
      <4>1. users'[req[c].user].password_changed_at \in Nat
        <5>1. TypeOK'
          BY <1>3, StepType
        <5>2. QED
          BY <1>0, <3>1, <5>1 DEF TypeOK, UserRow
      <4>2. \/ users'[req[c].user].password_changed_at = users[req[c].user].password_changed_at
            \/ users'[req[c].user].password_changed_at > users[req[c].user].password_changed_at
        BY <1>0, <2>1, <3>1 DEF AgesGrow
      <4>3. req[c].epoch <= users[req[c].user].password_changed_at
        BY <3>1 DEF ChangesAreRecorded
      <4>4. QED
        BY <1>0, <1>1, <3>1, <4>1, <4>2, <4>3
    <3>2. CASE /\ req[c].user \in Emails /\ req'[c].user = req[c].user
               /\ users' = [users EXCEPT ![req[c].user].password_hash = req[c].password,
                                       ![req[c].user].password_changed_at = req'[c].epoch]
      BY <3>0, <3>2 DEF TypeOK, UserRow
    <3>3. QED
      BY <1>3, <3>1, <3>2
  <2>3. PasswordChangeEndsSessions'
    <3> SUFFICES ASSUME NEW c \in Requests, NEW t \in Requests,
                        HasChanged(c)', pc'[c] = "ok",
                        refresh_tokens'[t].state = "live",
                        refresh_tokens'[t].user = req'[c].user
                 PROVE  minted'[t].wrote >= req'[c].epoch
      BY DEF PasswordChangeEndsSessions
    <3>1. CASE /\ HasChanged(c) /\ req'[c] = req[c]
               /\ refresh_tokens' = SpendAll(refresh_tokens, req[c].user)
      BY <3>1 DEF SpendAll, TypeOK, TokenRow
    <3>2. CASE HasChanged(c) /\ pc[c] = "ok" /\ req'[c] = req[c]
      <4>1. refresh_tokens[t].state = "live" /\ refresh_tokens[t].user = req[c].user
            => minted[t].wrote >= req[c].epoch
        BY <3>2 DEF PasswordChangeEndsSessions
      <4>2. CASE UNCHANGED <<refresh_tokens, minted>>
        BY <3>2, <4>1, <4>2
      <4>3. ASSUME NEW r \in Requests, refresh_tokens[r].state = "none", GenerateTokens(r),
                   pc[r] \in IssuingRefresh
            PROVE  minted'[t].wrote >= req'[c].epoch
        <5>1. CASE t = r
          <6>1. req[r].user = req[c].user
            BY <3>2, <4>3, <5>1 DEF GenerateTokens, Insert, TypeOK
          <6>2. minted'[t].wrote = users[req[c].user].password_changed_at
            BY <4>3, <5>1, <6>1 DEF GenerateTokens, TypeOK
          <6>3. QED
            BY <1>0, <1>1, <3>2, <6>2 DEF ChangesAreRecorded
        <5>2. CASE t # r
          BY <3>2, <4>1, <4>3, <5>2 DEF GenerateTokens, Insert, TypeOK
        <5>3. QED
          BY <5>1, <5>2
      <4>4. CASE /\ \E s \in Requests : refresh_tokens' = Spend(refresh_tokens, s)
                 /\ UNCHANGED minted
        BY <3>2, <4>1, <4>4 DEF Spend, TypeOK, TokenRow
      <4>5. CASE /\ \E u \in Emails : refresh_tokens' = SpendAll(refresh_tokens, u)
                 /\ UNCHANGED minted
        BY <3>2, <4>1, <4>5 DEF SpendAll, TypeOK, TokenRow
      <4>6. QED
        BY <1>3, <4>2, <4>3, <4>4, <4>5, RefreshWrites
    <3>3. QED
      BY <1>3, <3>1, <3>2
  <2>4. QED
    BY <2>2, <2>3
<1>4. ASSUME NEW r \in Requests, Serve(r) PROVE ChangesAreRecorded' /\ PasswordChangeEndsSessions'
  <2>1. ChangesStep(r) /\ Next
    BY <1>4, StepChanges DEF Next
  <2>2. QED
    BY <1>3, <2>1 DEF ChangesStep
<1>5. CASE \/ \E r \in Requests : Fault(r)
           \/ \E u \in Emails, s \in HostStatuses : HostSetsStatus(u, s)
           \/ Tick
  <2>1. \A c \in Requests : HasChanged(c)' =>
            HasChanged(c) /\ pc'[c] = pc[c] /\ req'[c] = req[c]
    BY <1>5 DEF Fault, HostSetsStatus, Tick, TypeOK, NoRequest, Context
  <2>2. Next
    BY <1>5 DEF Next
  <2>3. QED
    BY <1>3, <2>1, <2>2
<1>6. QED
  BY <1>2, <1>4, <1>5 DEF Next

\* Once a password change or reset is answered, no refresh token that was in the
\* database when the password changed is live.
THEOREM PasswordChangeHolds == Spec => []PasswordChangeEndsSessions
<1>1. Init => ChangesAreRecorded /\ PasswordChangeEndsSessions
  BY DEF Init, ChangesAreRecorded, HasChanged, PasswordChangeEndsSessions, NoRequest, Context
<1>2. TypeOK /\ References /\ ChangesAreRecorded /\ PasswordChangeEndsSessions /\ [Next]_vars
          => ChangesAreRecorded' /\ PasswordChangeEndsSessions'
  BY StepPasswordChange
<1>3. QED
  BY <1>1, <1>2, Integrity, PTL DEF Spec
-----------------------------------------------------------------------------
(***************************************************************************)
(* The last password change stands.                                        *)
(***************************************************************************)

\* A change that its account's password is as old as has set it, and a later one has
\* made the account's password older.
LEMMA StepLastChange ==
    ASSUME TypeOK, References, ChangesAreRecorded, LastChangeStands, [Next]_vars
    PROVE  LastChangeStands'
<1>1. CASE UNCHANGED vars
  BY <1>1 DEF vars, LastChangeStands, HasChanged
<1>2. ASSUME Next, NEW c \in Requests, HasChanged(c), req'[c] = req[c],
             req'[c].epoch = users'[req'[c].user].password_changed_at
      PROVE  users'[req'[c].user].password_hash = req'[c].password
  <2>1. req[c].user \in Emails /\ Exists(req[c].user)
    BY <1>2 DEF HasChanged, References, Remembered
  <2>2. /\ users[req[c].user].password_changed_at \in Nat /\ req[c].epoch \in Nat
        /\ req[c].epoch <= users[req[c].user].password_changed_at
    BY <1>2, <2>1 DEF TypeOK, UserRow, Request, ChangesAreRecorded
  <2>3. /\ users'[req[c].user].password_changed_at = users[req[c].user].password_changed_at
        /\ users'[req[c].user].password_hash = users[req[c].user].password_hash
    BY <1>2, <2>1, <2>2, StepAges DEF AgesGrow
  <2>4. QED
    BY <1>2, <2>3 DEF LastChangeStands
<1>3. ASSUME NEW r \in Requests, Serve(r) PROVE LastChangeStands'
  <2> SUFFICES ASSUME NEW c \in Requests, HasChanged(c)',
                      req'[c].epoch = users'[req'[c].user].password_changed_at
               PROVE  users'[req'[c].user].password_hash = req'[c].password
    BY DEF LastChangeStands
  <2>1. ChangesStep(r) /\ Next
    BY <1>3, StepChanges DEF Next
  <2>2. CASE HasChanged(c) /\ req'[c] = req[c]
    BY <1>2, <2>1, <2>2
  <2>3. CASE /\ users' = [users EXCEPT ![req[c].user].password_hash = req[c].password,
                                      ![req[c].user].password_changed_at = req'[c].epoch]
             /\ req[c].user \in Emails /\ req'[c].user = req[c].user
             /\ req'[c].password = req[c].password
    BY <2>3 DEF TypeOK, UserRow
  <2>4. QED
    BY <2>1, <2>2, <2>3 DEF ChangesStep, HasChanged
<1>4. CASE \/ \E r \in Requests : Fault(r)
           \/ \E u \in Emails, s \in HostStatuses : HostSetsStatus(u, s)
           \/ Tick
  <2>1. \A c \in Requests : HasChanged(c)' => HasChanged(c) /\ req'[c] = req[c]
    BY <1>4 DEF HasChanged, Fault, HostSetsStatus, Tick, TypeOK, NoRequest, Context
  <2>2. Next
    BY <1>4 DEF Next
  <2>3. QED
    BY <1>2, <2>1, <2>2 DEF LastChangeStands
<1>5. QED
  BY <1>1, <1>3, <1>4 DEF Next

\* The password of an account is the one that its last change or reset has set.
THEOREM LastChangeHolds == Spec => []LastChangeStands
<1>1. Init => /\ ChangesAreRecorded /\ PasswordChangeEndsSessions
              /\ LastChangeStands
  BY DEF Init, ChangesAreRecorded, HasChanged, PasswordChangeEndsSessions, LastChangeStands,
         NoRequest, Context
<1>2. TypeOK /\ References /\ ChangesAreRecorded /\ PasswordChangeEndsSessions /\ LastChangeStands
          /\ [Next]_vars
          => ChangesAreRecorded' /\ PasswordChangeEndsSessions' /\ LastChangeStands'
  BY StepPasswordChange, StepLastChange
<1>3. QED
  BY <1>1, <1>2, Integrity, PTL DEF Spec
=============================================================================
