---------------------------- MODULE SessionProofs ----------------------------
(***************************************************************************)
(* More theorems about AuthService: accounts, their locks and their        *)
(* sessions, and where a session, a verified address and a new password    *)
(* come from.  They rest on the invariant that AuthServiceProofs proves.   *)
(***************************************************************************)
EXTENDS AuthServiceProofs

(***************************************************************************)
(* What a step does to one account.                                        *)
(***************************************************************************)

\* A login whose password was right clears the counter and the lock of u.
Clears(u) ==
    \E r \in Requests : req[r].user = u /\ pc[r] = "login_record" /\ pc'[r] = "login_issue"

\* A handler replaces the password of u, or marks its address verified.
Replaces(u) ==
    \E r \in Requests : req[r].user = u /\ pc[r] \in {"reset_update", "change_update"}
Marks(u) == \E r \in Requests : req[r].user = u /\ pc[r] = "verify_update"

\* The ways in which the row of u is written.
Written(u) ==
    \/ users'[u] = users[u]
    \/ \E p \in Passwords : ~Exists(u) /\ users'[u] = NewUser(p, "active", FALSE)
    \/ /\ Exists(u)
       /\ \/ users'[u] = FailedAttempt(users[u])
          \/ /\ users'[u] = [users[u] EXCEPT !.failed_login_attempts = 0, !.locked_until = None]
             /\ Clears(u)
          \/ /\ \E p \in Passwords, n \in Nat :
                    users'[u] = [users[u] EXCEPT !.password_hash = p, !.password_changed_at = n]
             /\ Replaces(u)
          \/ /\ users'[u] = [users[u] EXCEPT !.email_verified = TRUE, !.status = "active"]
             /\ Marks(u)
          \/ \E s \in Statuses : users'[u] = [users[u] EXCEPT !.status = s]

\* Every step of a handler writes the rows of users in one of these ways.
LEMMA ServeWrites ==
    ASSUME TypeOK, References, NEW r \in Requests, Serve(r), NEW u \in Emails
    PROVE  Written(u)
<1>0. /\ users[u] \in UserRow
      /\ pc[r] \in Running \ {"register_insert"} => Exists(req[r].user)
  BY RunningUser DEF TypeOK, References, Remembered
<1>1. CASE UNCHANGED users
  BY <1>1 DEF Written
<1>2. CASE LoginIncrement(r)
  BY <1>0, <1>2 DEF LoginIncrement, Goto, Running, TypeOK, Written
<1>3. CASE LoginRecord(r)
  <2>1. users'[u] = IF u = req[r].user
                    THEN [users[u] EXCEPT !.failed_login_attempts = 0, !.locked_until = None]
                    ELSE users[u]
    BY <1>0, <1>3 DEF LoginRecord, TypeOK, UserRow
  <2>2. QED
    BY <1>0, <1>3, <2>1 DEF LoginRecord, Goto, Running, TypeOK, Written, Clears
<1>4. CASE ResetUpdate(r) \/ ChangeUpdate(r)
  <2> DEFINE n == users[req[r].user].password_changed_at + 1
  <2>1. req[r].user \in Emails /\ req[r].password \in Passwords
    BY <1>4, RunningUser DEF ResetUpdate, ChangeUpdate, Goto, Running, References, HandlersFit,
                             Fits, Remembered, StepsOf
  <2>2. n \in Nat
    BY <2>1 DEF TypeOK, UserRow
  <2>3. users' = [users EXCEPT ![req[r].user].password_hash = req[r].password,
                               ![req[r].user].password_changed_at = n]
    BY <1>4 DEF ResetUpdate, ChangeUpdate, UpdatePassword
  <2> HIDE DEF n
  <2>4. users'[u] = IF u = req[r].user
                    THEN [users[u] EXCEPT !.password_hash = req[r].password,
                                          !.password_changed_at = n]
                    ELSE users[u]
    BY <1>0, <2>3 DEF TypeOK, UserRow
  <2>5. QED
    BY <1>0, <1>4, <2>1, <2>2, <2>4
       DEF ResetUpdate, ChangeUpdate, Goto, Running, Written, Replaces
<1>5. CASE RegisterInsert(r)
  <2>1. req[r].password \in Passwords
    BY <1>5 DEF RegisterInsert, Goto, Running, References, HandlersFit, Fits, Remembered, StepsOf
  <2>2. \/ users'[u] = users[u]
        \/ ~Exists(u) /\ users'[u] = NewUser(req[r].password, "active", FALSE)
    BY <1>5 DEF RegisterInsert, Collides, TypeOK
  <2>3. QED
    BY <2>1, <2>2 DEF Written
<1>6. CASE VerifyUpdate(r)
  <2>1. users'[u] = IF u = req[r].user
                    THEN [users[u] EXCEPT !.email_verified = TRUE, !.status = "active"]
                    ELSE users[u]
    BY <1>0, <1>6 DEF VerifyUpdate, TypeOK, UserRow
  <2>2. QED
    BY <1>0, <1>6, <2>1 DEF VerifyUpdate, Goto, Running, Written, Marks
<1>7. CASE Login(r) \/ Refresh(r) \/ Logout(r) \/ Respond(r)
  BY <1>1, <1>2, <1>3, <1>7
     DEF Login, LoginFind, LoginIssue, Refresh, RefreshFind, RefreshPurge, RefreshUser,
         RefreshIssue, RefreshRevoke, GenerateTokens, Logout, Respond, tables
<1>8. CASE ForgotPassword(r) \/ ResetPassword(r) \/ ChangePassword(r)
  BY <1>1, <1>4, <1>8
     DEF ForgotPassword, ForgotFind, ForgotInvalidate, ForgotInsert, ResetPassword, ResetFind,
         ResetMark, ResetRevoke, ChangePassword, ChangeFind, ChangeRevoke, RevokeSessions, tables
<1>9. CASE Register(r) \/ CreateEmailVerification(r) \/ ResendVerification(r) \/ VerifyEmail(r)
  BY <1>1, <1>5, <1>6, <1>9
     DEF Register, RegisterFind, CreateEmailVerification, VerificationInvalidate,
         VerificationInsert, ResendVerification, VerifyEmail, VerifyFind, VerifyMark, tables
<1>10. QED
  BY <1>7, <1>8, <1>9 DEF Serve

\* So does every other step.
LEMMA StepWrites ==
    ASSUME TypeOK, References, [Next]_vars, NEW u \in Emails
    PROVE  Written(u)
<1>1. ASSUME NEW v \in Emails, NEW s \in HostStatuses, HostSetsStatus(v, s)
      PROVE  Written(u)
  <2>1. s \in Statuses
    BY PopulationAssumption
  <2>2. users'[u] = users[u] \/ users'[u] = [users[u] EXCEPT !.status = s]
    BY <1>1 DEF HostSetsStatus, TypeOK, UserRow
  <2>3. users'[u] # users[u] => Exists(u)
    BY <1>1 DEF HostSetsStatus, TypeOK
  <2>4. QED
    BY <2>1, <2>2, <2>3 DEF Written
<1>2. CASE (\E r \in Requests : Fault(r)) \/ Tick \/ UNCHANGED vars
  BY <1>2 DEF Fault, Tick, tables, vars, Written
<1>3. QED
  BY <1>1, <1>2, ServeWrites DEF Next

-----------------------------------------------------------------------------
(***************************************************************************)
(* The lock and the counter of an account agree.                           *)
(***************************************************************************)

LockFits(row) ==
    row.locked_until # None <=>
        row.failed_login_attempts > 0 /\ row.failed_login_attempts >= MaxLoginAttempts

\* Every way of writing a row keeps that.
LEMMA WrittenLock ==
    ASSUME TypeOK, NEW u \in Emails, Written(u), LockFits(users[u])
    PROVE  LockFits(users'[u])
<1> DEFINE row == users[u]
           later == users'[u]
<1>0. /\ row \in UserRow
      /\ row.failed_login_attempts \in Nat /\ MaxLoginAttempts \in Int
  BY Durations DEF TypeOK, UserRow
<1>1. CASE later = FailedAttempt(row)
  <2> DEFINE n == row.failed_login_attempts + 1
             until == IF n >= MaxLoginAttempts THEN now + LockoutDuration ELSE row.locked_until
  <2>1. later = [row EXCEPT !.failed_login_attempts = n, !.locked_until = until]
    BY <1>1 DEF FailedAttempt
  <2>2. now + LockoutDuration # None
    BY NoneAssumption, Durations DEF TypeOK
  <2>3. n >= MaxLoginAttempts => until # None
    BY <2>2
  <2>4. ~(n >= MaxLoginAttempts) => until = None
    BY <1>0 DEF LockFits
  <2>5. n > 0
    BY <1>0
  <2> HIDE DEF n, until
  <2>6. later.failed_login_attempts = n /\ later.locked_until = until
    BY <1>0, <2>1 DEF UserRow
  <2>7. QED
    BY <2>3, <2>4, <2>5, <2>6 DEF LockFits
<1>2. CASE later = [row EXCEPT !.failed_login_attempts = 0, !.locked_until = None]
  BY <1>0, <1>2 DEF LockFits, UserRow
<1>3. ASSUME NEW p \in Passwords, later = NewUser(p, "active", FALSE)
      PROVE  LockFits(later)
  BY <1>3 DEF LockFits, NewUser
<1>4. CASE /\ later.failed_login_attempts = row.failed_login_attempts
           /\ later.locked_until = row.locked_until
  BY <1>4 DEF LockFits
<1>5. QED
  BY <1>0, <1>1, <1>2, <1>3, <1>4 DEF Written, UserRow

\* locked_until is set exactly while the counter is at or over the limit.
THEOREM LockMatchesCounterHolds == Spec => []LockMatchesCounter
<1>1. Init => LockMatchesCounter
  <2> SUFFICES ASSUME Init, NEW u \in Emails PROVE LockFits(users[u])
    BY DEF LockMatchesCounter, LockFits
  <2>1. users[u].failed_login_attempts = 0 /\ users[u].locked_until = None
    BY DEF Init, NewUser
  <2>2. QED
    BY <2>1 DEF LockFits
<1>2. TypeOK /\ References /\ LockMatchesCounter /\ [Next]_vars => LockMatchesCounter'
  <2> SUFFICES ASSUME TypeOK, References, LockMatchesCounter, [Next]_vars, NEW u \in Emails
               PROVE  LockFits(users'[u])
    BY DEF LockMatchesCounter, LockFits
  <2>1. users[u] \in UserRow /\ LockFits(users[u])
    BY DEF TypeOK, LockMatchesCounter, LockFits
  <2>2. QED
    BY <2>1, StepWrites, WrittenLock
<1>3. QED
  BY <1>1, <1>2, Integrity, PTL DEF Spec

-----------------------------------------------------------------------------
(***************************************************************************)
(* What a step does to the requests.                                       *)
(***************************************************************************)

\* r has rotated its token.
Rotated(r) == req[r].op = "refresh" /\ pc[r] \in {"respond", "ok"}

\* r has created an account.
Created(r) == req[r].op = "register" /\ pc[r] # "register_insert"

\* r has been let in and may yet open a session.
Opening(r) == pc[r] \in {"login_record", "login_issue", "refresh_user", "refresh_issue"}

\* r has got past the check of the account.
Checked(r) == pc[r] \in {"login_increment", "login_record", "login_issue",
                         "refresh_issue", "refresh_revoke"}

\* The grounds on which a request for account u is let in.
LetIn(u) ==
    /\ Exists(u)
    /\ \/ RequireEmailVerification => users[u].email_verified
       \/ \E t \in Requests : refresh_tokens[t].state = "live" /\ refresh_tokens[t].user = u

\* r rotates its token by revoking it, creates an account only where there is none,
\* is let in only on those grounds, and gets past the check of an account that can
\* log in.
SessionStep(r) ==
    /\ Rotated(r)' => \/ Rotated(r) /\ req'[r].token = req[r].token
                      \/ refresh_tokens' = Spend(refresh_tokens, req'[r].token)
    /\ Created(r)' => /\ req'[r].user = req[r].user
                      /\ Created(r) \/ ~Exists(req[r].user)
    /\ Opening(r)' => \/ Opening(r) /\ req'[r].user = req[r].user
                      \/ LetIn(req'[r].user)
    /\ Checked(r)' => \/ Checked(r) /\ req'[r].user = req[r].user
                      \/ CanLogin(req'[r].user)

\* A request that arrives has neither rotated a token nor created an account.
LEMMA ArriveSession ==
    ASSUME TypeOK, NEW r \in Requests, NEW op, NEW u, NEW t, NEW p, NEW n,
           NEW next, next \notin {"respond"},
           Arrive(r, op, Context(op, u, t, p, n), next),
           next \in {"login_record", "refresh_user"} => LetIn(u),
           next \in {"login_increment", "login_record"} => CanLogin(u),
           next \notin {"login_issue", "refresh_issue", "refresh_revoke"},
           op = "register" => next \in {"register_insert"} \cup Answers
    PROVE  SessionStep(r)
BY DEF Arrive, TypeOK, SessionStep, Rotated, Created, Opening, Checked, NoRequest, Context, Answers

\* A handler that goes on to a step elsewhere has done nothing of the kind.
LEMMA GotoSession ==
    ASSUME TypeOK, References, NEW r \in Requests, NEW here \in Running, NEW next,
           Goto(r, here, next), here # "register_insert",
           next = "login_issue" => here = "login_record",
           next = "refresh_issue" => here = "refresh_user" /\ CanLogin(req[r].user),
           next = "refresh_revoke" => here = "refresh_issue",
           next \notin {"login_increment", "login_record", "refresh_user"},
           next \in {"respond", "ok"} => here = "respond" \/ here \notin StepsOf("refresh"),
           \/ req'[r] = NoRequest /\ next \in Answers
           \/ req'[r].op = req[r].op /\ req'[r].user = req[r].user /\ req'[r].token = req[r].token
    PROVE  SessionStep(r)
BY DEF Goto, TypeOK, SessionStep, Rotated, Created, Opening, Checked, NoRequest, Context, References,
       HandlersFit, Fits, Answers

\* A handler that updates a password still serves the same request.
LEMMA UpdateKeeps ==
    ASSUME TypeOK, NEW r \in Requests, UpdatePassword(r)
    PROVE  req'[r].op = req[r].op /\ req'[r].user = req[r].user /\ req'[r].token = req[r].token
<1> DEFINE n == users[req[r].user].password_changed_at + 1
<1>1. req' = [req EXCEPT ![r].epoch = n]
  BY DEF UpdatePassword
<1> HIDE DEF n
<1>2. QED
  BY <1>1 DEF TypeOK, Request

\* So does one that fixes the expiry of a token.
LEMMA ExpiryKeeps ==
    ASSUME TypeOK, NEW r \in Requests, NEW n, req' = [req EXCEPT ![r].expires = n]
    PROVE  req'[r].op = req[r].op /\ req'[r].user = req[r].user /\ req'[r].token = req[r].token
BY DEF TypeOK, Request

\* Every step of a handler is a SessionStep.
LEMMA ServeSession ==
    ASSUME TypeOK, References, NEW r \in Requests, Serve(r)
    PROVE  SessionStep(r)
<1> USE DEF Running, Answers
<1>1. CASE Login(r)
  <2>1. ASSUME NEW u \in Emails, NEW p \in Passwords, LoginFind(r, u, p) PROVE SessionStep(r)
    <3>1. /\ LoginVerdict(u, p) = "login_record" => LetIn(u)
          /\ LoginVerdict(u, p) \in {"login_increment", "login_record"} => CanLogin(u)
      BY DEF LoginVerdict, LetIn, CanLogin
    <3>2. LoginVerdict(u, p) \in {"login_increment", "login_record"} \cup Answers
      BY DEF LoginVerdict, Answers
    <3>3. QED
      BY <2>1, <3>1, <3>2, ArriveSession DEF LoginFind, Answers
  <2>2. CASE LoginIncrement(r) \/ LoginRecord(r) \/ LoginIssue(r)
    BY <2>2, GotoSession DEF LoginIncrement, LoginRecord, LoginIssue, GenerateTokens, StepsOf, TypeOK
  <2>3. QED
    BY <1>1, <2>1, <2>2 DEF Login
<1>2. CASE Refresh(r)
  <2>1. ASSUME NEW t \in Requests, RefreshFind(r, t) PROVE SessionStep(r)
    <3>1. RefreshVerdict(t) = "refresh_user" => LetIn(refresh_tokens[t].user)
      BY <2>1 DEF RefreshVerdict, LetIn, RefreshFind, Delivered, TypeOK, TokenRow, References,
                  Owned, Account
    <3>2. RefreshVerdict(t) \in {"refresh_user", "refresh_purge"} \cup Answers
      BY DEF RefreshVerdict, Answers
    <3>3. QED
      BY <2>1, <3>1, <3>2, ArriveSession DEF RefreshFind, Answers
  <2>2. CASE RefreshPurge(r) \/ RefreshIssue(r)
    BY <2>2, GotoSession DEF RefreshPurge, RefreshIssue, GenerateTokens, StepsOf, TypeOK
  <2>3. CASE RefreshUser(r)
    BY <2>3, GotoSession DEF RefreshUser, StepsOf, TypeOK
  <2>4. CASE RefreshRevoke(r)
    BY <2>4 DEF RefreshRevoke, Goto, TypeOK, SessionStep, Rotated, Created, Opening, Checked, References,
                HandlersFit, Fits, StepsOf
  <2>5. QED
    BY <1>2, <2>1, <2>2, <2>3, <2>4 DEF Refresh
<1>3. CASE Logout(r)
  BY <1>3, ArriveSession DEF Logout, NoRequest, Arrive, TypeOK, SessionStep, Rotated, Created,
                             Opening, Checked, Context, Answers
<1>4. CASE ForgotPassword(r)
  <2>1. ASSUME NEW u \in Emails, ForgotFind(r, u) PROVE SessionStep(r)
    BY <2>1, ArriveSession DEF ForgotFind
  <2>2. CASE ForgotInvalidate(r) \/ ForgotInsert(r)
    BY <2>2, GotoSession, ExpiryKeeps DEF ForgotInvalidate, ForgotInsert, StepsOf
  <2>3. QED
    BY <1>4, <2>1, <2>2 DEF ForgotPassword
<1>5. CASE ResetPassword(r)
  <2>1. ASSUME NEW t \in Requests, NEW p \in Passwords, ResetFind(r, t, p) PROVE SessionStep(r)
    BY <2>1, ArriveSession DEF ResetFind, ResetVerdict
  <2>2. CASE ResetUpdate(r) \/ ResetMark(r) \/ ResetRevoke(r)
    BY <2>2, GotoSession, UpdateKeeps DEF ResetUpdate, ResetMark, ResetRevoke, RevokeSessions,
                             StepsOf, TypeOK
  <2>3. QED
    BY <1>5, <2>1, <2>2 DEF ResetPassword
<1>6. CASE ChangePassword(r)
  <2>1. ASSUME NEW u \in Emails, NEW q \in Passwords, NEW p \in Passwords, ChangeFind(r, u, q, p)
        PROVE  SessionStep(r)
    BY <2>1, ArriveSession DEF ChangeFind, ChangeVerdict
  <2>2. CASE ChangeUpdate(r) \/ ChangeRevoke(r)
    BY <2>2, GotoSession, UpdateKeeps DEF ChangeUpdate, ChangeRevoke, RevokeSessions, StepsOf, TypeOK
  <2>3. QED
    BY <1>6, <2>1, <2>2 DEF ChangePassword
<1>7. CASE Register(r) \/ CreateEmailVerification(r)
  <2>1. ASSUME NEW u \in Emails, NEW p \in Passwords, RegisterFind(r, u, p) PROVE SessionStep(r)
    BY <2>1, ArriveSession DEF RegisterFind, RegisterVerdict, Answers
  <2>2. CASE RegisterInsert(r)
    BY <2>2 DEF RegisterInsert, Collides, Goto, TypeOK, SessionStep, Rotated, Created, Opening, Checked,
                NoRequest, Context
  <2>3. CASE VerificationInvalidate(r) \/ VerificationInsert(r)
    BY <2>3, GotoSession, ExpiryKeeps
       DEF VerificationInvalidate, VerificationInsert, StepsOf
  <2>4. QED
    BY <1>7, <2>1, <2>2, <2>3 DEF Register, CreateEmailVerification
<1>8. CASE ResendVerification(r)
  BY <1>8, ArriveSession DEF ResendVerification
<1>9. CASE VerifyEmail(r)
  <2>1. ASSUME NEW t \in Requests, VerifyFind(r, t) PROVE SessionStep(r)
    BY <2>1, ArriveSession DEF VerifyFind, VerifyVerdict
  <2>2. CASE VerifyUpdate(r) \/ VerifyMark(r)
    BY <2>2, GotoSession DEF VerifyUpdate, VerifyMark, StepsOf
  <2>3. QED
    BY <1>9, <2>1, <2>2 DEF VerifyEmail
<1>10. CASE Respond(r)
  BY <1>10, GotoSession DEF Respond
<1>11. QED
  BY <1>1, <1>2, <1>3, <1>4, <1>5, <1>6, <1>7, <1>8, <1>9, <1>10 DEF Serve

\* Of the other requests nothing changes; a request cut short is let in to nothing.
LEMMA StepSession ==
    ASSUME TypeOK, References, Next, NEW c \in Requests
    PROVE  (pc'[c] = pc[c] /\ req'[c] = req[c]) \/ SessionStep(c)
<1>1. ASSUME NEW r \in Requests, Serve(r)
      PROVE  (pc'[c] = pc[c] /\ req'[c] = req[c]) \/ SessionStep(c)
  BY <1>1, ServeSession, StepChanges DEF ChangesStep
<1>2. ASSUME NEW r \in Requests, Fault(r)
      PROVE  (pc'[c] = pc[c] /\ req'[c] = req[c]) \/ SessionStep(c)
  BY <1>2 DEF Fault, TypeOK, SessionStep, Rotated, Created, Opening, Checked, NoRequest, Context
<1>3. CASE (\E u \in Emails, s \in HostStatuses : HostSetsStatus(u, s)) \/ Tick
  BY <1>3 DEF HostSetsStatus, Tick
<1>4. QED
  BY <1>1, <1>2, <1>3 DEF Next

-----------------------------------------------------------------------------
(***************************************************************************)
(* Rotation retires the old token.                                         *)
(***************************************************************************)

\* A revoked refresh token stays revoked.
LEMMA SpentStays ==
    ASSUME TypeOK, References, Next, NEW t \in Requests, refresh_tokens[t].state = "spent"
    PROVE  refresh_tokens'[t].state = "spent"
<1>1. ASSUME NEW r \in Requests, refresh_tokens[r].state = "none", GenerateTokens(r)
      PROVE  refresh_tokens'[t].state = "spent"
  BY <1>1 DEF GenerateTokens, Insert, TypeOK
<1>2. ASSUME NEW s \in Requests, refresh_tokens' = Spend(refresh_tokens, s)
      PROVE  refresh_tokens'[t].state = "spent"
  BY <1>2 DEF Spend, TypeOK, TokenRow
<1>3. ASSUME NEW u \in Emails, refresh_tokens' = SpendAll(refresh_tokens, u)
      PROVE  refresh_tokens'[t].state = "spent"
  BY <1>3 DEF SpendAll
<1>4. QED
  BY <1>1, <1>2, <1>3, RefreshWrites

\* A refresh that has been answered has spent the token it was given, for good.
THEOREM RotationHolds == Spec => []RotationRetiresOldToken
<1>1. Init => RotationRetiresOldToken
  BY DEF Init, RotationRetiresOldToken, NoRequest, Context
<1>2. TypeOK /\ References /\ RotationRetiresOldToken /\ [Next]_vars => RotationRetiresOldToken'
  <2> SUFFICES ASSUME TypeOK, References, RotationRetiresOldToken, Next,
                      NEW r \in Requests, Rotated(r)'
               PROVE  refresh_tokens'[req'[r].token].state = "spent"
    BY DEF RotationRetiresOldToken, Rotated, vars
  <2>1. CASE Rotated(r) /\ req'[r].token = req[r].token
    <3>1. req[r].token \in Requests /\ refresh_tokens[req[r].token].state = "spent"
      BY <2>1 DEF Rotated, RotationRetiresOldToken, References, Remembered, Presented
    <3>2. QED
      BY <2>1, <3>1, SpentStays
  <2>2. CASE refresh_tokens' = Spend(refresh_tokens, req'[r].token)
    <3>1. References' /\ TypeOK'
      BY StepReferences, StepType
    <3>2. req'[r].token \in Requests
      BY <3>1 DEF Rotated, References, Remembered, Presented
    <3>3. QED
      BY <2>2, <3>2 DEF Spend, TypeOK, TokenRow
  <2>3. QED
    BY <2>1, <2>2, StepSession DEF SessionStep, Rotated
<1>3. QED
  BY <1>1, <1>2, Integrity, PTL DEF Spec

-----------------------------------------------------------------------------
(***************************************************************************)
(* One account per address.                                                *)
(***************************************************************************)

\* Of the registrations of an address at most one creates the account.
THEOREM OneAccountHolds == Spec => []OneAccountPerEmail
<1>1. Init => OneAccountPerEmail
  BY DEF Init, OneAccountPerEmail, NoRequest, Context
<1>2. TypeOK /\ References /\ OneAccountPerEmail /\ [Next]_vars => OneAccountPerEmail'
  <2>1. CASE UNCHANGED vars
    BY <2>1 DEF vars, OneAccountPerEmail
  <2>2. CASE Next
    <3> SUFFICES ASSUME TypeOK, References, OneAccountPerEmail,
                        NEW r1 \in Requests, NEW r2 \in Requests, Created(r1)', Created(r2)',
                        req'[r1].user = req'[r2].user, r1 # r2
                 PROVE  FALSE
      BY DEF OneAccountPerEmail, Created
    <3>1. ASSUME NEW r \in Requests, Created(r)'
          PROVE  req'[r].user = req[r].user /\ (Created(r) \/ ~Exists(req[r].user))
      BY <2>2, <3>1, StepSession DEF SessionStep, Created
    <3>2. ASSUME NEW r \in Requests, Created(r) PROVE Exists(req[r].user)
      BY <3>2 DEF Created, References, Remembered
    <3>3. ~(Created(r1) /\ Created(r2))
      BY <3>1 DEF OneAccountPerEmail, Created
    <3>4. ~Exists(req[r1].user) /\ ~Created(r1) /\ ~Created(r2)
      BY <3>1, <3>2, <3>3
    <3>5. (pc'[r1] = pc[r1] /\ req'[r1] = req[r1]) \/ (pc'[r2] = pc[r2] /\ req'[r2] = req[r2])
      <4>1. ASSUME NEW c \in Requests, Serve(c)
            PROVE  \A d \in Requests \ {c} : pc'[d] = pc[d] /\ req'[d] = req[d]
        BY <4>1, StepChanges DEF ChangesStep
      <4>2. ASSUME NEW c \in Requests, Fault(c)
            PROVE  \A d \in Requests \ {c} : pc'[d] = pc[d] /\ req'[d] = req[d]
        BY <4>2 DEF Fault, TypeOK
      <4>3. CASE (\E u \in Emails, s \in HostStatuses : HostSetsStatus(u, s)) \/ Tick
        BY <4>3 DEF HostSetsStatus, Tick
      <4>4. QED
        BY <2>2, <4>1, <4>2, <4>3 DEF Next
    <3>6. QED
      BY <3>4, <3>5 DEF Created
  <2>3. QED
    BY <2>1, <2>2
<1>3. QED
  BY <1>1, <1>2, Integrity, PTL DEF Spec

-----------------------------------------------------------------------------
(***************************************************************************)
(* No session of an unverified address.                                    *)
(***************************************************************************)

\* The account is verified, or was signed in before the model starts.
Settled(u) == users[u].email_verified \/ Carried(u)

\* Only settled accounts have a request that may yet open a session.
Verified ==
    RequireEmailVerification => \A r \in Requests : Opening(r) => Settled(req[r].user)

\* A verified account stays verified.
LEMMA VerifiedStays ==
    ASSUME TypeOK, References, [Next]_vars, NEW u \in Emails, Exists(u), users[u].email_verified
    PROVE  users'[u].email_verified
<1>1. users[u] \in UserRow
  BY DEF TypeOK
<1>2. QED
  BY <1>1, StepWrites, FailedAttemptKeeps DEF Written, UserRow

\* A settled account stays settled.
LEMMA SettledStays ==
    ASSUME TypeOK, References, [Next]_vars, NEW u \in Emails, Exists(u), Settled(u)
    PROVE  Settled(u)'
BY VerifiedStays DEF Settled, Carried

\* With verification required, live sessions belong to settled accounts.
LEMMA LiveSettled ==
    ASSUME References, SessionsAreVerified, RequireEmailVerification,
           NEW t \in Requests, refresh_tokens[t].state = "live"
    PROVE  /\ refresh_tokens[t].user \in Emails /\ Exists(refresh_tokens[t].user)
           /\ Settled(refresh_tokens[t].user)
BY DEF References, Owned, Account, SessionsAreVerified, Settled

LEMMA StepVerified ==
    ASSUME TypeOK, References, Verified, SessionsAreVerified, Next, RequireEmailVerification
    PROVE  Verified' /\ SessionsAreVerified'
<1>1. ASSUME NEW r \in Requests, Opening(r), NEW u, u = req[r].user
      PROVE  u \in Emails /\ Exists(u) /\ Settled(u)'
  <2>1. u \in Emails /\ Exists(u)
    BY <1>1, RunningUser DEF Opening, Running, References, Remembered
  <2>2. Settled(u)
    BY <1>1 DEF Verified
  <2>3. QED
    BY <2>1, <2>2, SettledStays
<1>2. ASSUME NEW t \in Requests, refresh_tokens[t].state = "live", NEW u, u = refresh_tokens[t].user
      PROVE  Settled(u)'
  <2>1. u \in Emails /\ Exists(u) /\ Settled(u)
    BY <1>2, LiveSettled
  <2>2. QED
    BY <2>1, SettledStays
<1>3. Verified'
  <2> SUFFICES ASSUME NEW r \in Requests, Opening(r)', NEW u, u = req'[r].user PROVE Settled(u)'
    BY DEF Verified, Settled, Carried
  <2>1. CASE Opening(r) /\ req'[r].user = req[r].user
    BY <1>1, <2>1
  <2>2. CASE LetIn(u)
    <3>1. References'
      BY StepReferences
    <3>2. u \in Emails
      BY <3>1 DEF References, HandlersFit, Fits, Remembered, Opening, Running, StepsOf
    <3>3. CASE users[u].email_verified
      BY <2>2, <3>2, <3>3, VerifiedStays DEF LetIn, Settled
    <3>4. CASE \E t \in Requests : refresh_tokens[t].state = "live" /\ refresh_tokens[t].user = u
      BY <1>2, <3>4
    <3>5. QED
      BY <2>2, <3>3, <3>4 DEF LetIn
  <2>3. QED
    BY <2>1, <2>2, StepSession DEF SessionStep, Opening
<1>4. SessionsAreVerified'
  <2> SUFFICES ASSUME NEW t \in Requests, refresh_tokens'[t].state = "live",
                      NEW u, u = refresh_tokens'[t].user
               PROVE  Settled(u)'
    BY DEF SessionsAreVerified, Settled, Carried
  <2>1. CASE refresh_tokens[t].state = "live" /\ refresh_tokens'[t].user = refresh_tokens[t].user
    BY <1>2, <2>1
  <2>2. ASSUME NEW r \in Requests, pc[r] \in IssuingRefresh, GenerateTokens(r)
        PROVE  Settled(u)'
    <3>1. CASE t = r
      <4>1. Opening(r) /\ u = req[r].user
        BY <2>2, <3>1 DEF GenerateTokens, Insert, TypeOK, IssuingRefresh, Opening
      <4>2. QED
        BY <1>1, <4>1
    <3>2. CASE t # r
      BY <2>1, <2>2, <3>2 DEF GenerateTokens, Insert, TypeOK
    <3>3. QED
      BY <3>1, <3>2
  <2>3. ASSUME NEW s \in Requests, refresh_tokens' = Spend(refresh_tokens, s)
        PROVE  Settled(u)'
    BY <2>1, <2>3 DEF Spend, TypeOK, TokenRow
  <2>4. ASSUME NEW v \in Emails, refresh_tokens' = SpendAll(refresh_tokens, v)
        PROVE  Settled(u)'
    BY <2>1, <2>4 DEF SpendAll, TypeOK, TokenRow
  <2>5. QED
    BY <2>1, <2>2, <2>3, <2>4, RefreshWrites
<1>5. QED
  BY <1>3, <1>4

\* With REQUIRE_EMAIL_VERIFICATION on, an account that has a live session has verified
\* its address or was signed in before.
THEOREM SessionsVerifiedHolds == Spec => []SessionsAreVerified
<1>1. Init => Verified /\ SessionsAreVerified
  <2> SUFFICES ASSUME Init PROVE Verified /\ SessionsAreVerified
    OBVIOUS
  <2>1. \A r \in Requests : ~Opening(r)
    BY DEF Init, Opening
  <2>2. ASSUME NEW t \in Requests, refresh_tokens[t].state = "live"
        PROVE  Carried(refresh_tokens[t].user)
    BY <2>2 DEF Init, NoToken, Carried
  <2>3. QED
    BY <2>1, <2>2 DEF Verified, SessionsAreVerified
<1>2. TypeOK /\ References /\ Verified /\ SessionsAreVerified /\ [Next]_vars
          => Verified' /\ SessionsAreVerified'
  <2>1. CASE UNCHANGED vars
    BY <2>1 DEF vars, Verified, SessionsAreVerified, Opening, Settled, Carried
  <2>2. CASE ~RequireEmailVerification
    BY <2>2 DEF Verified, SessionsAreVerified
  <2>3. QED
    BY <2>1, <2>2, StepVerified
<1>3. QED
  BY <1>1, <1>2, Integrity, PTL DEF Spec

-----------------------------------------------------------------------------
(***************************************************************************)
(* A barred account admits no one.                                         *)
(***************************************************************************)

\* While an account is locked, suspended, pending or deleted, no further request gets
\* past the check of the account.
THEOREM BarredHolds == Spec => BarredAccountAdmitsNoOne
<1>1. TypeOK /\ References /\ [Next]_vars =>
          [\A u \in Emails : Exists(u) /\ ~CanLogin(u) => Admitted(u)' \subseteq Admitted(u)]_vars
  <2> SUFFICES ASSUME TypeOK, References, Next, NEW u \in Emails, ~CanLogin(u),
                      NEW r \in Requests, req'[r].user = u, Checked(r)'
               PROVE  req[r].user = u /\ Checked(r)
    BY DEF Admitted, Checked
  <2>1. QED
    BY StepSession DEF SessionStep, Checked
<1>2. QED
  BY <1>1, Integrity, PTL DEF Spec, BarredAccountAdmitsNoOne
-----------------------------------------------------------------------------
(***************************************************************************)
(* A lock in force is never shortened.                                     *)
(***************************************************************************)

\* Only accounts are locked, and none beyond the duration that a failure sets now.
LockBound ==
    \A u \in Emails :
        users[u].locked_until # None =>
            Exists(u) /\ users[u].locked_until <= now + LockoutDuration

\* What a failed attempt makes of the lock.
LEMMA FailedAttemptLock ==
    ASSUME NEW row \in UserRow
    PROVE  FailedAttempt(row).locked_until \in {row.locked_until, now + LockoutDuration}
<1> DEFINE n == row.failed_login_attempts + 1
           until == IF n >= MaxLoginAttempts THEN now + LockoutDuration ELSE row.locked_until
<1>1. FailedAttempt(row) = [row EXCEPT !.failed_login_attempts = n, !.locked_until = until]
  BY DEF FailedAttempt
<1>2. until \in {row.locked_until, now + LockoutDuration}
  OBVIOUS
<1> HIDE DEF n, until
<1>3. QED
  BY <1>1, <1>2 DEF UserRow

\* A lock stays, is set anew by a failure of the account, or is cleared by a login.
LEMMA LockWrites ==
    ASSUME TypeOK, References, [Next]_vars, NEW u \in Emails
    PROVE  \/ users'[u].locked_until = users[u].locked_until
           \/ Exists(u) /\ users'[u].locked_until = now + LockoutDuration
           \/ users'[u].locked_until = None /\ (Exists(u) => Clears(u))
<1>1. users[u] \in UserRow
  BY DEF TypeOK
<1>2. CASE /\ Clears(u)
           /\ users'[u] = [users[u] EXCEPT !.failed_login_attempts = 0, !.locked_until = None]
  BY <1>1, <1>2 DEF UserRow
<1>3. ASSUME NEW p \in Passwords, ~Exists(u), users'[u] = NewUser(p, "active", FALSE)
      PROVE  users'[u].locked_until = None
  BY <1>3 DEF NewUser
<1>4. QED
  BY <1>1, <1>2, <1>3, StepWrites, FailedAttemptLock DEF Written, UserRow

\* A later time puts the end of a lock set then no earlier.
LEMMA AddOrder ==
    ASSUME NEW a \in Int, NEW b \in Int, NEW d \in Int, a <= b
    PROVE  a + d \in Int /\ a + d <= b + d
OBVIOUS

\* Bounds on the end of a lock chain.
LEMMA OrderChain ==
    ASSUME NEW a \in Int, NEW b \in Int, NEW c \in Int, a <= b, b <= c
    PROVE  a <= c
OBVIOUS

\* Time does not go back, and neither does the end of a lock set now.
LEMMA LockEndAdvances ==
    ASSUME TypeOK, References, [Next]_vars
    PROVE  /\ now + LockoutDuration \in Int
           /\ now' + LockoutDuration \in Int
           /\ now + LockoutDuration <= now' + LockoutDuration
<1>1. TypeOK'
  BY StepType
<1>2. now' = now \/ now' = now + 1
  BY DEF Next, Serve, Login, LoginFind, LoginIncrement, LoginRecord, LoginIssue, GenerateTokens,
         Refresh, RefreshFind, RefreshPurge, RefreshUser, RefreshIssue, RefreshRevoke, Logout,
         ForgotPassword, ForgotFind, ForgotInvalidate, ForgotInsert,
         ResetPassword, ResetFind, ResetUpdate, ResetMark, ResetRevoke, RevokeSessions,
         ChangePassword, ChangeFind, ChangeUpdate, ChangeRevoke, UpdatePassword,
         Register, RegisterFind, RegisterInsert, CreateEmailVerification,
         VerificationInvalidate, VerificationInsert, ResendVerification,
         VerifyEmail, VerifyFind, VerifyUpdate, VerifyMark, Respond, Fault, HostSetsStatus, Tick,
         vars
<1>3. now \in Int /\ now' \in Int /\ LockoutDuration \in Int
  BY <1>1, Durations DEF TypeOK
<1>4. now <= now'
  BY <1>2, <1>3
<1> DEFINE t == now
           later == now'
<1>5. t \in Int /\ later \in Int /\ t <= later
  BY <1>3, <1>4
<1> HIDE DEF t, later
<1>6. /\ t + LockoutDuration \in Int /\ later + LockoutDuration \in Int
      /\ t + LockoutDuration <= later + LockoutDuration
  BY <1>3, <1>5, AddOrder
<1>7. QED
  BY <1>6, Zenon DEF t, later

\* No account is ever deleted from the table.
LEMMA ExistsStays ==
    ASSUME TypeOK, References, [Next]_vars, NEW u \in Emails, Exists(u)
    PROVE  Exists(u)'
<1> SUFFICES users'[u].status # "absent"
  BY DEF Exists
<1>1. users[u] \in UserRow
  BY DEF TypeOK
<1>2. users[u].status # "absent"
  BY DEF Exists
<1>3. CASE users'[u] = users[u]
  BY <1>2, <1>3
<1>4. CASE users'[u] = FailedAttempt(users[u])
  BY <1>1, <1>2, <1>4, FailedAttemptKeeps
<1>5. CASE users'[u] = [users[u] EXCEPT !.failed_login_attempts = 0, !.locked_until = None]
  BY <1>1, <1>2, <1>5 DEF UserRow
<1>6. CASE \E p \in Passwords, n \in Nat :
               users'[u] = [users[u] EXCEPT !.password_hash = p, !.password_changed_at = n]
  BY <1>1, <1>2, <1>6 DEF UserRow
<1>7. CASE users'[u] = [users[u] EXCEPT !.email_verified = TRUE, !.status = "active"]
  BY <1>1, <1>7 DEF UserRow
<1>8. CASE \E s \in Statuses : users'[u] = [users[u] EXCEPT !.status = s]
  BY <1>1, <1>8 DEF UserRow, Statuses
<1>9. Written(u)
  BY StepWrites
<1>10. QED
  BY <1>3, <1>4, <1>5, <1>6, <1>7, <1>8, <1>9 DEF Written

\* So that the bound is kept as time goes on.
LEMMA StepLockBound == TypeOK /\ References /\ LockBound /\ [Next]_vars => LockBound'
<1> SUFFICES ASSUME TypeOK, References, LockBound, [Next]_vars,
                    NEW u \in Emails, users'[u].locked_until # None
             PROVE  Exists(u)' /\ users'[u].locked_until <= now' + LockoutDuration
  BY DEF LockBound
<1>1. users[u] \in UserRow /\ users[u].locked_until \in Int \cup {None}
  BY DEF TypeOK, UserRow
<1>2. Exists(u) => Exists(u)'
  BY ExistsStays
<1>3. CASE users'[u].locked_until = users[u].locked_until
  <2>1. /\ Exists(u) /\ users[u].locked_until \in Int
        /\ users[u].locked_until <= now + LockoutDuration
    BY <1>1, <1>3 DEF LockBound
  <2>2. users[u].locked_until <= now' + LockoutDuration
    BY <2>1, LockEndAdvances, OrderChain
  <2>3. QED
    BY <1>2, <1>3, <2>1, <2>2
<1>4. CASE Exists(u) /\ users'[u].locked_until = now + LockoutDuration
  BY <1>2, <1>4, LockEndAdvances, Zenon
<1>5. QED
  BY <1>3, <1>4, LockWrites

\* A lock in force ends by running out or by a login whose password had been found
\* right before; no other step lifts or shortens it.
THEOREM LockCourseHolds == Spec => LockRunsItsCourse
<1>1. Init => LockBound
  <2> SUFFICES ASSUME Init, NEW u \in Emails PROVE users[u].locked_until = None
    BY DEF LockBound
  <2>1. QED
    BY DEF Init, NewUser
<1>2. TypeOK /\ References /\ LockBound /\ [Next]_vars =>
          [\A u \in Emails :
               IsLocked(u) /\ users'[u].locked_until # users[u].locked_until =>
                   \/ \E r \in Requests : /\ req[r].user = u
                                          /\ pc[r] = "login_record" /\ pc'[r] = "login_issue"
                   \/ users'[u].locked_until # None /\ users'[u].locked_until >= users[u].locked_until]_vars
  <2> SUFFICES ASSUME TypeOK, References, LockBound, Next, NEW u \in Emails, IsLocked(u),
                      users'[u].locked_until # users[u].locked_until
               PROVE  \/ Clears(u)
                      \/ /\ users'[u].locked_until # None
                         /\ users'[u].locked_until >= users[u].locked_until
    BY DEF Clears
  <2>1. /\ now + LockoutDuration \in Int /\ now + LockoutDuration # None
        /\ users[u].locked_until \in Int
    BY Durations, NoneAssumption DEF TypeOK, UserRow, IsLocked
  <2>2. Exists(u) /\ users[u].locked_until <= now + LockoutDuration
    BY DEF LockBound, IsLocked
  <2>3. QED
    BY <2>1, <2>2, LockWrites
<1>3. QED
  BY <1>1, <1>2, StepLockBound, Integrity, PTL DEF Spec, LockRunsItsCourse

-----------------------------------------------------------------------------
(***************************************************************************)
(* Where authority comes from.                                             *)
(***************************************************************************)

\* Token t has been handed out, and it belongs to u.
Handed(table, t, u) == Delivered(table, t) /\ table[t].user = u

\* The token a handler was given had been handed out, and whoever changes a password
\* was shown an access token.
Entitled(r) ==
    /\ req[r].op \in {"refresh", "reset_password", "verify_email"} => pc[req[r].token] = "ok"
    /\ req[r].op = "change_password" => \E t \in Requests : Handed(refresh_tokens, t, req[r].user)

\* A handler with a session to its name is a login or a refresh of that very account.
SignsIn(r) ==
    refresh_tokens[r].state # "none" /\ pc[r] \in Running \cup {"ok"} =>
        /\ req[r].op \in {"login", "refresh"}
        /\ req[r].user = refresh_tokens[r].user

Origins == \A r \in Requests : Entitled(r) /\ SignsIn(r)

\* What a step means to request r: nothing, an answer at once, admission to a handler
\* on what the client shows, an error, or the next step for the same account.
Proceeds(r) ==
    \/ pc'[r] = pc[r] /\ req'[r] = req[r]
    \/ pc[r] = "idle" /\ pc'[r] \in Answers /\ req'[r] = NoRequest
    \/ /\ pc[r] = "idle" /\ pc'[r] \in Running
       /\ req'[r].op \in {"refresh", "reset_password", "verify_email"} => pc[req'[r].token] = "ok"
       /\ req'[r].op = "change_password" =>
              \E t \in Requests : Handed(refresh_tokens, t, req'[r].user)
    \/ pc[r] \in Running /\ pc'[r] \in Answers \ {"ok"} /\ req'[r] = NoRequest
    \/ /\ pc[r] \in Running
       /\ req'[r].op = req[r].op /\ req'[r].user = req[r].user /\ req'[r].token = req[r].token

\* A request that arrives proceeds if its endpoint has checked what it was shown.
LEMMA ArriveProceeds ==
    ASSUME TypeOK, NEW r \in Requests, NEW op, NEW u, NEW t, NEW p, NEW n,
           NEW next \in Running \cup Answers, Arrive(r, op, Context(op, u, t, p, n), next),
           op \in {"refresh", "reset_password", "verify_email"} => pc[t] = "ok",
           op = "change_password" => HoldsAccess(u)
    PROVE  Proceeds(r)
<1>1. pc[r] = "idle" /\ pc'[r] = next
  BY DEF Arrive, TypeOK
<1>2. CASE next \in Answers
  BY <1>1, <1>2 DEF Arrive, TypeOK, Proceeds
<1>3. CASE next \in Running \ Answers
  <2>1. req'[r] = Context(op, u, t, p, n)
    BY <1>3 DEF Arrive, TypeOK
  <2>2. req'[r].op = op /\ req'[r].user = u /\ req'[r].token = t
    BY <2>1 DEF Context
  <2>3. QED
    BY <1>1, <1>3, <2>2 DEF Proceeds, HoldsAccess, Handed
<1>4. QED
  BY <1>2, <1>3

\* A handler that goes on proceeds if it serves the same account or fails.
LEMMA GotoProceeds ==
    ASSUME TypeOK, NEW r \in Requests, NEW here \in Running, NEW next, Goto(r, here, next),
           \/ next \in Answers \ {"ok"} /\ req'[r] = NoRequest
           \/ req'[r].op = req[r].op /\ req'[r].user = req[r].user /\ req'[r].token = req[r].token
    PROVE  Proceeds(r)
BY DEF Goto, TypeOK, Proceeds

\* Every step of a handler is one of these.
LEMMA ServeProceeds ==
    ASSUME TypeOK, NEW r \in Requests, Serve(r)
    PROVE  Proceeds(r)
<1>1. CASE Login(r)
  <2>1. ASSUME NEW u \in Emails, NEW p \in Passwords, LoginFind(r, u, p) PROVE Proceeds(r)
    BY <2>1, ArriveProceeds DEF LoginFind, LoginVerdict, Running, Answers
  <2>2. CASE LoginIncrement(r) \/ LoginRecord(r) \/ LoginIssue(r)
    BY <2>2, GotoProceeds
       DEF LoginIncrement, LoginRecord, LoginIssue, GenerateTokens, TypeOK, Running, Answers
  <2>3. QED
    BY <1>1, <2>1, <2>2 DEF Login
<1>2. CASE Refresh(r)
  <2>1. ASSUME NEW t \in Requests, RefreshFind(r, t) PROVE Proceeds(r)
    BY <2>1, ArriveProceeds DEF RefreshFind, RefreshVerdict, Delivered, Running, Answers
  <2>2. CASE RefreshPurge(r) \/ RefreshIssue(r) \/ RefreshRevoke(r)
    BY <2>2, GotoProceeds
       DEF RefreshPurge, RefreshIssue, RefreshRevoke, GenerateTokens, TypeOK, Running, Answers
  <2>3. CASE RefreshUser(r)
    BY <2>3, GotoProceeds DEF RefreshUser, TypeOK, Running, Answers
  <2>4. QED
    BY <1>2, <2>1, <2>2, <2>3 DEF Refresh
<1>3. CASE Logout(r)
  BY <1>3 DEF Logout, Arrive, TypeOK, Answers, Proceeds
<1>4. CASE ForgotPassword(r)
  <2>1. ASSUME NEW u \in Emails, ForgotFind(r, u) PROVE Proceeds(r)
    BY <2>1, ArriveProceeds DEF ForgotFind, Running, Answers
  <2>2. CASE ForgotInvalidate(r)
    BY <2>2, GotoProceeds, ExpiryKeeps DEF ForgotInvalidate, Running
  <2>3. CASE ForgotInsert(r)
    BY <2>3, GotoProceeds DEF ForgotInsert, Running
  <2>4. QED
    BY <1>4, <2>1, <2>2, <2>3 DEF ForgotPassword
<1>5. CASE ResetPassword(r) \/ ChangePassword(r)
  <2>1. ASSUME NEW t \in Requests, NEW p \in Passwords, ResetFind(r, t, p) PROVE Proceeds(r)
    BY <2>1, ArriveProceeds DEF ResetFind, ResetVerdict, Delivered, Running, Answers
  <2>2. ASSUME NEW u \in Emails, NEW q \in Passwords, NEW p \in Passwords, ChangeFind(r, u, q, p)
        PROVE  Proceeds(r)
    BY <2>2, ArriveProceeds DEF ChangeFind, ChangeVerdict, Running, Answers
  <2>3. CASE ResetUpdate(r) \/ ChangeUpdate(r)
    BY <2>3, GotoProceeds, UpdateKeeps DEF ResetUpdate, ChangeUpdate, Running
  <2>4. CASE ResetMark(r) \/ ResetRevoke(r) \/ ChangeRevoke(r)
    BY <2>4, GotoProceeds DEF ResetMark, ResetRevoke, ChangeRevoke, RevokeSessions, Running
  <2>5. QED
    BY <1>5, <2>1, <2>2, <2>3, <2>4 DEF ResetPassword, ChangePassword
<1>6. CASE Register(r) \/ CreateEmailVerification(r)
  <2>1. ASSUME NEW u \in Emails, NEW p \in Passwords, RegisterFind(r, u, p) PROVE Proceeds(r)
    BY <2>1, ArriveProceeds DEF RegisterFind, RegisterVerdict, Running, Answers
  <2>2. CASE RegisterInsert(r)
    BY <2>2, GotoProceeds DEF RegisterInsert, TypeOK, Running, Answers
  <2>3. CASE VerificationInvalidate(r)
    BY <2>3, GotoProceeds, ExpiryKeeps DEF VerificationInvalidate, Running
  <2>4. CASE VerificationInsert(r)
    BY <2>4, GotoProceeds DEF VerificationInsert, Running
  <2>5. QED
    BY <1>6, <2>1, <2>2, <2>3, <2>4 DEF Register, CreateEmailVerification
<1>7. CASE ResendVerification(r)
  BY <1>7, ArriveProceeds DEF ResendVerification, Running, Answers
<1>8. CASE VerifyEmail(r)
  <2>1. ASSUME NEW t \in Requests, VerifyFind(r, t) PROVE Proceeds(r)
    BY <2>1, ArriveProceeds DEF VerifyFind, VerifyVerdict, Delivered, Running, Answers
  <2>2. CASE VerifyUpdate(r) \/ VerifyMark(r)
    BY <2>2, GotoProceeds DEF VerifyUpdate, VerifyMark, Running
  <2>3. QED
    BY <1>8, <2>1, <2>2 DEF VerifyEmail
<1>9. CASE Respond(r)
  BY <1>9, GotoProceeds DEF Respond, Running
<1>10. QED
  BY <1>1, <1>2, <1>3, <1>4, <1>5, <1>6, <1>7, <1>8, <1>9 DEF Serve

\* And so is every step, for every request.
LEMMA StepProceeds ==
    ASSUME TypeOK, References, [Next]_vars, NEW r \in Requests
    PROVE  Proceeds(r)
<1>1. ASSUME NEW c \in Requests, Serve(c) PROVE Proceeds(r)
  BY <1>1, ServeProceeds, StepChanges DEF ChangesStep, Proceeds
<1>2. ASSUME NEW c \in Requests, Fault(c) PROVE Proceeds(r)
  BY <1>2 DEF Fault, TypeOK, Answers, Proceeds
<1>3. CASE \/ \E u \in Emails, s \in HostStatuses : HostSetsStatus(u, s)
           \/ Tick \/ UNCHANGED vars
  BY <1>3 DEF HostSetsStatus, Tick, vars, Proceeds
<1>4. QED
  BY <1>1, <1>2, <1>3 DEF Next

\* No step takes a row away from its user or a delivered token back.
LEMMA StepRows ==
    ASSUME TypeOK, References, [Next]_vars
    PROVE  /\ RowsStay(refresh_tokens, refresh_tokens')
           /\ RowsStay(reset_tokens, reset_tokens')
           /\ RowsStay(verification_tokens, verification_tokens')
<1>1. ASSUME NEW r \in Requests, Serve(r) PROVE TablesStep(r)
  <2>1. CASE Respond(r)
    BY <2>1, UsersOnly DEF Respond, tables, Exists
  <2>2. QED
    BY <1>1, <2>1, SessionsTables, PasswordsTables, RegistrationTables DEF Serve
<1>2. CASE UNCHANGED <<refresh_tokens, reset_tokens, verification_tokens>>
  BY <1>2 DEF RowsStay
<1>3. QED
  BY <1>1, <1>2
     DEF Next, Fault, HostSetsStatus, Tick, tables, vars, TablesStep, RefreshStep, ResetStep,
         VerificationStep

LEMMA HandedStays ==
    ASSUME TypeOK, References, [Next]_vars, NEW t \in Requests, NEW u
    PROVE  /\ pc[t] = "ok" => pc'[t] = "ok" /\ req'[t] = req[t]
           /\ Handed(refresh_tokens, t, u) => Handed(refresh_tokens, t, u)'
           /\ Handed(reset_tokens, t, u) => Handed(reset_tokens, t, u)'
           /\ Handed(verification_tokens, t, u) => Handed(verification_tokens, t, u)'
<1>1. pc[t] = "ok" => pc'[t] = "ok" /\ req'[t] = req[t]
  BY StepProceeds DEF Proceeds, Running
<1>2. QED
  BY <1>1, StepRows DEF Handed, Delivered, RowsStay

\* A new refresh token belongs to the account its handler serves.
LEMMA NewRow ==
    ASSUME TypeOK, References, [Next]_vars, NEW t \in Requests,
           refresh_tokens[t].state = "none", refresh_tokens'[t].state # "none"
    PROVE  pc[t] \in IssuingRefresh /\ refresh_tokens'[t].user = req[t].user
<1>1. CASE refresh_tokens' = refresh_tokens
  BY <1>1
<1>2. ASSUME NEW r \in Requests, pc[r] \in IssuingRefresh, GenerateTokens(r)
      PROVE  pc[t] \in IssuingRefresh /\ refresh_tokens'[t].user = req[t].user
  BY <1>2 DEF GenerateTokens, Insert, TypeOK
<1>3. ASSUME NEW r \in Requests, refresh_tokens[r].state # "none",
             refresh_tokens' = Spend(refresh_tokens, r)
      PROVE  FALSE
  BY <1>3 DEF Spend, TypeOK, TokenRow
<1>4. ASSUME NEW u \in Emails, refresh_tokens' = SpendAll(refresh_tokens, u) PROVE FALSE
  BY <1>4 DEF SpendAll, TypeOK, TokenRow
<1>5. QED
  BY <1>1, <1>2, <1>3, <1>4, RefreshWrites DEF vars

LEMMA StepOrigins ==
    ASSUME TypeOK, References, Origins, [Next]_vars
    PROVE  Origins'
<1> SUFFICES ASSUME NEW r \in Requests PROVE Entitled(r)' /\ SignsIn(r)'
  BY DEF Origins
<1>1. Proceeds(r) /\ Entitled(r) /\ SignsIn(r)
  BY StepProceeds DEF Origins
<1>2. NoRequest.op = "none"
  BY DEF NoRequest, Context
<1>3. \A t \in Requests : pc[t] = "ok" => pc'[t] = "ok"
  BY HandedStays
<1>4. \A u : (\E t \in Requests : Handed(refresh_tokens, t, u))
                  => (\E t \in Requests : Handed(refresh_tokens, t, u)')
  BY HandedStays
<1>5. References'
  BY StepReferences
<1>6. Entitled(r)'
  <2>1. req'[r].op \in {"refresh", "reset_password", "verify_email"} => req'[r].token \in Requests
    BY <1>5 DEF References, Remembered, Presented
  <2>2. req'[r].op \in {"refresh", "reset_password", "verify_email"} => pc[req'[r].token] = "ok"
    BY <1>1, <1>2 DEF Proceeds, Entitled
  <2>3. req'[r].op = "change_password" => \E t \in Requests : Handed(refresh_tokens, t, req'[r].user)
    BY <1>1, <1>2 DEF Proceeds, Entitled
  <2>4. QED
    BY <1>3, <1>4, <2>1, <2>2, <2>3 DEF Entitled
<1>7. SignsIn(r)'
  <2> SUFFICES ASSUME refresh_tokens'[r].state # "none", pc'[r] \in Running \cup {"ok"}
               PROVE  /\ req'[r].op \in {"login", "refresh"}
                      /\ req'[r].user = refresh_tokens'[r].user
    BY DEF SignsIn
  <2>1. CASE refresh_tokens[r].state # "none"
    <3>1. refresh_tokens'[r].user = refresh_tokens[r].user
      BY <2>1, StepRows DEF RowsStay
    <3>2. pc[r] # "idle"
      BY <2>1 DEF References, Unissued, BeforeRefresh
    <3>3. QED
      BY <1>1, <2>1, <3>1, <3>2 DEF Proceeds, SignsIn, Running, Answers
  <2>2. CASE refresh_tokens[r].state = "none"
    <3>1. pc[r] \in IssuingRefresh /\ refresh_tokens'[r].user = req[r].user
      BY <2>2, NewRow
    <3>2. req[r].op \in {"login", "refresh"}
      BY <3>1 DEF References, HandlersFit, Fits, StepsOf, Running, IssuingRefresh
    <3>3. QED
      BY <1>1, <3>1, <3>2 DEF Proceeds, Running, Answers, IssuingRefresh
  <2>3. QED
    BY <2>1, <2>2
<1>8. QED
  BY <1>6, <1>7

LEMMA InitOrigins == Init => Origins
<1> SUFFICES ASSUME Init, NEW r \in Requests PROVE Entitled(r) /\ SignsIn(r)
  BY DEF Origins
<1>1. CASE Prior[r] = None
  BY <1>1 DEF Init, Entitled, SignsIn, NoRequest, Context, NoToken
<1>2. CASE Prior[r] # None
  BY <1>2 DEF Init, Entitled, SignsIn, Context
<1>3. QED
  BY <1>1, <1>2

\* A token delivered by a login is its own origin; one delivered by a refresh goes back
\* to the origin of the token that was presented.
LEMMA StepSessionsBegin ==
    ASSUME TypeOK, References, Origins, SessionsBeginWithLogin, [Next]_vars
    PROVE  SessionsBeginWithLogin'
<1> DEFINE Began(u) == \E s \in Requests : req[s].op = "login" /\ Handed(refresh_tokens, s, u)
<1> SUFFICES ASSUME NEW t \in Requests, NEW u, Handed(refresh_tokens, t, u)'
             PROVE  Began(u)'
  BY DEF SessionsBeginWithLogin, Handed
<1>1. ASSUME NEW s \in Requests, Handed(refresh_tokens, s, u) PROVE Began(u)'
  <2>1. Began(u)
    BY <1>1 DEF SessionsBeginWithLogin, Handed
  <2>2. PICK l \in Requests : req[l].op = "login" /\ Handed(refresh_tokens, l, u)
    BY <2>1
  <2>3. req'[l] = req[l] /\ Handed(refresh_tokens, l, u)'
    BY <2>2, HandedStays DEF Handed, Delivered
  <2>4. QED
    BY <2>2, <2>3
<1>2. CASE Delivered(refresh_tokens, t)
  BY <1>1, <1>2, StepRows DEF Handed, Delivered, RowsStay
<1>3. CASE ~Delivered(refresh_tokens, t)
  <2>1. Origins' /\ References'
    BY StepOrigins, StepReferences
  <2>2. req'[t].op \in {"login", "refresh"} /\ req'[t].user = u
    BY <2>1 DEF Origins, SignsIn, Handed, Delivered
  <2>3. CASE req'[t].op = "login"
    BY <2>2, <2>3 DEF Handed
  <2>4. CASE req'[t].op = "refresh"
    <3>1. pc[t] \in Running /\ req'[t].op = req[t].op /\ req'[t].user = req[t].user
      <4>1. pc'[t] = "ok" /\ (pc'[t] = pc[t] => refresh_tokens[t].state = "none")
        BY <1>3 DEF Handed, Delivered
      <4>2. pc'[t] # pc[t]
        BY <1>3, <4>1, NewRow DEF Handed, Delivered, IssuingRefresh
      <4>3. NoRequest.op = "none"
        BY DEF NoRequest, Context
      <4>4. QED
        BY <2>4, <4>1, <4>2, <4>3, StepProceeds DEF Proceeds, Running
    <3>2. pc[req[t].token] = "ok" /\ Presented(refresh_tokens, t)
      BY <2>4, <3>1 DEF Origins, Entitled, References, Remembered
    <3>3. Handed(refresh_tokens, req[t].token, u)
      BY <2>2, <3>1, <3>2 DEF Presented, Handed, Delivered
    <3>4. QED
      BY <1>1, <3>2, <3>3 DEF Presented
  <2>5. QED
    BY <2>2, <2>3, <2>4
<1>4. QED
  BY <1>2, <1>3

\* Every refresh token a client holds goes back to a login: none of the other endpoints
\* signs anybody in, and refreshing never changes whose session it is.
THEOREM SessionsBeginHolds == Spec => []SessionsBeginWithLogin
<1>1. Init => SessionsBeginWithLogin
  BY DEF Init, SessionsBeginWithLogin, Delivered, NoToken, Context
<1>2. TypeOK /\ References /\ Origins /\ SessionsBeginWithLogin /\ [Next]_vars
          => Origins' /\ SessionsBeginWithLogin'
  BY StepOrigins, StepSessionsBegin
<1>3. QED
  BY <1>1, <1>2, InitOrigins, Integrity, PTL DEF Spec

\* Nobody's address is marked verified but by a handler that was shown a verification
\* token of that account.
LEMMA StepVerifiedAddresses ==
    ASSUME TypeOK, References, Origins, VerifiedAddressesHadTheToken, [Next]_vars
    PROVE  VerifiedAddressesHadTheToken'
<1> SUFFICES ASSUME NEW u \in Emails \ Registered, Exists(u)', users'[u].email_verified
             PROVE  \E t \in Requests : Handed(verification_tokens, t, u)'
  BY DEF VerifiedAddressesHadTheToken, Handed
<1>1. users[u] \in UserRow
  BY DEF TypeOK
<1>2. CASE \E t \in Requests : Handed(verification_tokens, t, u)
  BY <1>2, HandedStays
<1>3. CASE Exists(u) /\ users[u].email_verified
  BY <1>2, <1>3 DEF VerifiedAddressesHadTheToken, Handed
<1>4. ASSUME NEW r \in Requests, req[r].user = u, pc[r] = "verify_update"
      PROVE  \E t \in Requests : Handed(verification_tokens, t, u)'
  <2>1. req[r].op = "verify_email"
    BY <1>4 DEF References, HandlersFit, Fits, StepsOf, Running
  <2>2. Presented(verification_tokens, r) /\ pc[req[r].token] = "ok"
    BY <2>1 DEF References, Remembered, Origins, Entitled
  <2>3. Handed(verification_tokens, req[r].token, u)
    BY <1>4, <2>2 DEF Presented, Handed, Delivered
  <2>4. QED
    BY <1>2, <2>2, <2>3 DEF Presented
<1>5. Written(u)
  BY StepWrites
<1>6. CASE Marks(u)
  BY <1>4, <1>6 DEF Marks
<1>7. ASSUME ~Marks(u) PROVE Exists(u) /\ users'[u].email_verified = users[u].email_verified
  <2>1. ASSUME NEW p \in Passwords PROVE users'[u] # NewUser(p, "active", FALSE)
    BY DEF NewUser
  <2>2. CASE users'[u] = FailedAttempt(users[u])
    BY <1>1, <1>5, <1>7, <2>1, <2>2, FailedAttemptKeeps DEF Written, Exists
  <2>3. CASE users'[u] # FailedAttempt(users[u])
    BY <1>1, <1>5, <1>7, <2>1, <2>3 DEF Written, UserRow, Exists
  <2>4. QED
    BY <2>2, <2>3
<1>8. QED
  BY <1>3, <1>6, <1>7

\* An address that registered here is verified only if a verification token of that
\* very account has been handed out.
THEOREM VerifiedAddressesHolds == Spec => []VerifiedAddressesHadTheToken
<1>1. Init => VerifiedAddressesHadTheToken
  BY DEF Init, VerifiedAddressesHadTheToken, NewUser, Exists
<1>2. TypeOK /\ References /\ Origins /\ VerifiedAddressesHadTheToken /\ [Next]_vars
          => Origins' /\ VerifiedAddressesHadTheToken'
  BY StepOrigins, StepVerifiedAddresses
<1>3. QED
  BY <1>1, <1>2, InitOrigins, Integrity, PTL DEF Spec

\* Nobody's password is replaced but by a handler that was shown an access token or a
\* reset token of that account.
LEMMA StepChangedPasswords ==
    ASSUME TypeOK, References, Origins, ChangedPasswordsHadAHolder, [Next]_vars
    PROVE  ChangedPasswordsHadAHolder'
<1> DEFINE Held(v) == \E t \in Requests : Handed(refresh_tokens, t, v) \/ Handed(reset_tokens, t, v)
<1> SUFFICES ASSUME NEW u \in Emails, users'[u].password_changed_at > 0 PROVE Held(u)'
  BY DEF ChangedPasswordsHadAHolder, Handed
<1>1. users[u] \in UserRow
  BY DEF TypeOK
<1>2. CASE Held(u)
  BY <1>2, HandedStays
<1>3. CASE users[u].password_changed_at > 0
  BY <1>2, <1>3 DEF ChangedPasswordsHadAHolder, Handed
<1>4. ASSUME NEW r \in Requests, req[r].user = u, pc[r] \in {"reset_update", "change_update"}
      PROVE  Held(u)
  <2>1. req[r].op \in {"reset_password", "change_password"}
    BY <1>4 DEF References, HandlersFit, Fits, StepsOf, Running
  <2>2. CASE req[r].op = "reset_password"
    <3>1. Presented(reset_tokens, r) /\ pc[req[r].token] = "ok"
      BY <2>2 DEF References, Remembered, Origins, Entitled
    <3>2. QED
      BY <1>4, <3>1 DEF Presented, Handed, Delivered
  <2>3. CASE req[r].op = "change_password"
    BY <1>4, <2>3 DEF Origins, Entitled
  <2>4. QED
    BY <2>1, <2>2, <2>3
<1>5. Written(u)
  BY StepWrites
<1>6. CASE Replaces(u)
  BY <1>2, <1>4, <1>6 DEF Replaces
<1>7. ASSUME ~Replaces(u) PROVE users'[u].password_changed_at = users[u].password_changed_at
  <2>1. ASSUME NEW p \in Passwords PROVE users'[u] # NewUser(p, "active", FALSE)
    BY DEF NewUser
  <2>2. CASE users'[u] = FailedAttempt(users[u])
    BY <1>1, <2>2, FailedAttemptKeeps
  <2>3. CASE users'[u] # FailedAttempt(users[u])
    BY <1>1, <1>5, <1>7, <2>1, <2>3 DEF Written, UserRow
  <2>4. QED
    BY <2>2, <2>3
<1>8. QED
  BY <1>3, <1>6, <1>7

\* The password of an account has been changed only if a session or a reset token of
\* that very account has been handed out.
THEOREM ChangedPasswordsHolds == Spec => []ChangedPasswordsHadAHolder
<1>1. Init => ChangedPasswordsHadAHolder
  BY DEF Init, ChangedPasswordsHadAHolder, NewUser
<1>2. TypeOK /\ References /\ Origins /\ ChangedPasswordsHadAHolder /\ [Next]_vars
          => Origins' /\ ChangedPasswordsHadAHolder'
  BY StepOrigins, StepChangedPasswords
<1>3. QED
  BY <1>1, <1>2, InitOrigins, Integrity, PTL DEF Spec
=============================================================================
