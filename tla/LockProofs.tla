----------------------------- MODULE LockProofs -----------------------------
(***************************************************************************)
(* AuthService implements AccountLock: of all that the service does, only  *)
(* the outcome of a login that was let in while there was no lock touches  *)
(* the counter and the lock of an account, and each does so at most once.  *)
(***************************************************************************)
EXTENDS SessionProofs

\* r has tried the password and not yet written the outcome.
Tries(r) == pc[r] \in {"login_increment", "login_record"}

\* No counter and no lock changes.
LocksStay ==
    \A u \in Emails :
        /\ users'[u].failed_login_attempts = users[u].failed_login_attempts
        /\ users'[u].locked_until = users[u].locked_until

\* A row that no account has yet holds neither failures nor a lock.
AbsentClean ==
    \A u \in Emails :
        ~Exists(u) => users[u].failed_login_attempts = 0 /\ users[u].locked_until = None

-----------------------------------------------------------------------------
(***************************************************************************)
(* What a step of a handler does to the locks.                             *)
(***************************************************************************)

\* r is let in to try a password.
LockEnter(r) ==
    /\ LocksStay
    /\ pc[r] = "idle" /\ Tries(r)'
    /\ req'[r].user \in Emails /\ ~IsLocked(req'[r].user)

\* r writes that it was wrong, or that it was right.
LockFail(r) ==
    /\ Tries(r) /\ ~Tries(r)' /\ req[r].user \in Emails
    /\ users' = [users EXCEPT ![req[r].user] = FailedAttempt(@)]
LockClear(r) ==
    /\ Tries(r) /\ ~Tries(r)' /\ req[r].user \in Emails
    /\ users' = [users EXCEPT ![req[r].user].failed_login_attempts = 0,
                              ![req[r].user].locked_until = None]

\* r does something else, or stops.
LockPass(r) == LocksStay /\ ~Tries(r)'

LockKind(r) ==
    /\ now' = now /\ pc'[r] # "idle"
    /\ LockEnter(r) \/ LockFail(r) \/ LockClear(r) \/ LockPass(r)

LEMMA LoginLock ==
    ASSUME TypeOK, References, NEW r \in Requests, Login(r)
    PROVE  LockKind(r)
<1> USE DEF Running, Answers
<1>1. ASSUME NEW u \in Emails, NEW p \in Passwords, LoginFind(r, u, p) PROVE LockKind(r)
  <2>1. LocksStay /\ now' = now
    BY <1>1 DEF LoginFind, tables, LocksStay
  <2>2. /\ pc[r] = "idle" /\ pc'[r] = LoginVerdict(u, p)
        /\ LoginVerdict(u, p) \notin Answers => req'[r].user = u
    BY <1>1 DEF LoginFind, Arrive, TypeOK, Context
  <2>3. /\ LoginVerdict(u, p) \in {"login_increment", "login_record"} \cup Answers
        /\ LoginVerdict(u, p) \in {"login_increment", "login_record"} => ~IsLocked(u)
    BY DEF LoginVerdict
  <2>4. QED
    BY <2>1, <2>2, <2>3 DEF LockKind, LockEnter, LockPass, Tries
<1>2. CASE LoginIncrement(r)
  BY <1>2, RunningUser DEF LoginIncrement, Goto, TypeOK, LockKind, LockFail, Tries
<1>3. CASE LoginRecord(r)
  BY <1>3, RunningUser DEF LoginRecord, Goto, TypeOK, LockKind, LockClear, Tries
<1>4. CASE LoginIssue(r)
  BY <1>4 DEF LoginIssue, GenerateTokens, Goto, TypeOK, LockKind, LockPass, LocksStay, Tries
<1>5. QED
  BY <1>1, <1>2, <1>3, <1>4 DEF Login

\* The other endpoints that read and write tokens leave the rows of users alone.
LEMMA TokensLock ==
    ASSUME TypeOK, NEW r \in Requests,
           Refresh(r) \/ Logout(r) \/ ForgotPassword(r) \/ CreateEmailVerification(r)
               \/ ResendVerification(r) \/ Respond(r)
    PROVE  LockKind(r)
<1> USE DEF Running, Answers, TypeOK, tables, LockKind, LockPass, LocksStay, Tries
<1>1. CASE Refresh(r)
  BY <1>1 DEF Refresh, RefreshFind, RefreshVerdict, Arrive, RefreshPurge, RefreshUser, RefreshIssue,
              RefreshRevoke, GenerateTokens, Goto
<1>2. CASE Logout(r)
  BY <1>2 DEF Logout, Arrive
<1>3. CASE ForgotPassword(r)
  BY <1>3 DEF ForgotPassword, ForgotFind, Arrive, ForgotInvalidate, ForgotInsert, Goto
<1>4. CASE CreateEmailVerification(r)
  BY <1>4 DEF CreateEmailVerification, VerificationInvalidate, VerificationInsert, Goto
<1>5. CASE ResendVerification(r)
  BY <1>5 DEF ResendVerification, Arrive
<1>6. CASE Respond(r)
  BY <1>6 DEF Respond, Goto
<1>7. QED
  BY <1>1, <1>2, <1>3, <1>4, <1>5, <1>6

\* The others write other columns, or a row that no account had.
LEMMA AccountsLock ==
    ASSUME TypeOK, References, AbsentClean, NEW r \in Requests,
           ResetPassword(r) \/ ChangePassword(r) \/ Register(r) \/ VerifyEmail(r)
    PROVE  LockKind(r)
<1> USE DEF Running, Answers, LockKind, LockPass, Tries
<1>1. users \in [Emails -> UserRow]
  BY DEF TypeOK
<1>2. CASE UNCHANGED users
  <2>1. LocksStay
    BY <1>2 DEF LocksStay
  <2>2. now' = now /\ pc'[r] # "idle" /\ ~Tries(r)'
    BY <1>2 DEF ResetPassword, ResetFind, ResetVerdict, ResetUpdate, ResetMark, ResetRevoke,
                RevokeSessions, UpdatePassword, ChangePassword, ChangeFind, ChangeVerdict,
                ChangeUpdate, ChangeRevoke, Register, RegisterFind, RegisterVerdict,
                RegisterInsert, VerifyEmail, VerifyFind, VerifyVerdict, VerifyUpdate, VerifyMark,
                Arrive, Goto, TypeOK
  <2>3. QED
    BY <2>1, <2>2
<1>3. CASE ResetUpdate(r) \/ ChangeUpdate(r)
  <2>1. LocksStay
    BY <1>1, <1>3 DEF ResetUpdate, ChangeUpdate, UpdatePassword, LocksStay, UserRow
  <2>2. QED
    BY <1>3, <2>1 DEF ResetUpdate, ChangeUpdate, UpdatePassword, Goto, TypeOK
<1>4. CASE RegisterInsert(r)
  <2>1. LocksStay
    BY <1>1, <1>4 DEF RegisterInsert, Collides, AbsentClean, NewUser, LocksStay
  <2>2. QED
    BY <1>4, <2>1 DEF RegisterInsert, Goto, TypeOK
<1>5. CASE VerifyUpdate(r)
  <2>1. LocksStay
    BY <1>1, <1>5 DEF VerifyUpdate, LocksStay, UserRow
  <2>2. QED
    BY <1>5, <2>1 DEF VerifyUpdate, Goto, TypeOK
<1>6. QED
  BY <1>2, <1>3, <1>4, <1>5
     DEF ResetPassword, ResetFind, ResetMark, ResetRevoke, RevokeSessions, ChangePassword,
         ChangeFind, ChangeRevoke, Register, RegisterFind, VerifyEmail, VerifyFind, VerifyMark,
         tables

LEMMA HandlerLock ==
    ASSUME TypeOK, References, AbsentClean, NEW r \in Requests, Serve(r) \/ Fault(r)
    PROVE  LockKind(r) /\ OthersStay(r)
<1>1. CASE Serve(r)
  <2>1. OthersStay(r)
    BY <1>1, StepChanges DEF ChangesStep, OthersStay
  <2>2. QED
    BY <1>1, <2>1, LoginLock, TokensLock, AccountsLock DEF Serve
<1>2. CASE Fault(r)
  BY <1>2 DEF Fault, tables, TypeOK, OthersStay, LockKind, LockPass, LocksStay, Tries
<1>3. QED
  BY <1>1, <1>2

\* No step gives failures or a lock to a row that no account has.
LEMMA StepAbsent == TypeOK /\ References /\ AbsentClean /\ [Next]_vars => AbsentClean'
<1> SUFFICES ASSUME TypeOK, References, AbsentClean, [Next]_vars, NEW u \in Emails, ~Exists(u)'
             PROVE  users'[u].failed_login_attempts = 0 /\ users'[u].locked_until = None
  BY DEF AbsentClean
<1>1. ~Exists(u)
  BY ExistsStays
<1>2. Written(u)
  BY StepWrites
<1>3. users[u].failed_login_attempts = 0 /\ users[u].locked_until = None
  BY <1>1 DEF AbsentClean
<1>4. ASSUME NEW p \in Passwords, users'[u] = NewUser(p, "active", FALSE)
      PROVE  users'[u].failed_login_attempts = 0 /\ users'[u].locked_until = None
  BY <1>4 DEF NewUser
<1>5. QED
  BY <1>1, <1>2, <1>3, <1>4 DEF Written

-----------------------------------------------------------------------------
(***************************************************************************)
(* The step seen from AccountLock.                                         *)
(***************************************************************************)

Failures == [u \in Emails |-> users[u].failed_login_attempts]
Until == [u \in Emails |-> users[u].locked_until]
Tryers == [u \in Emails |-> Trying(u)]
Fresh == {r \in Requests : pc[r] = "idle"}

\* Who is trying what after a step of r.
LEMMA TryersStep ==
    ASSUME NEW r \in Requests, OthersStay(r), pc'[r] # "idle", NEW u
    PROVE  /\ Trying(u)' = (Trying(u) \ {r}) \cup {c \in {r} : req'[r].user = u /\ Tries(r)'}
           /\ Fresh' = Fresh \ {r}
BY DEF OthersStay, Trying, Tries, Fresh

\* When r is trying no more, it leaves the attempts on its account.
LEMMA TryersLeave ==
    ASSUME NEW r \in Requests, OthersStay(r), pc'[r] # "idle", ~Tries(r)', NEW v,
           \A u \in Emails \ {v} : r \notin Trying(u)
    PROVE  Tryers' = [Tryers EXCEPT ![v] = @ \ {r}]
<1>1. \A u \in Emails : Trying(u)' = Trying(u) \ {r}
  BY TryersStep
<1>2. \A u \in Emails : Trying(u)' = IF u = v THEN Trying(u) \ {r} ELSE Trying(u)
  BY <1>1
<1>3. QED
  BY <1>2 DEF Tryers

\* A failure seen from AccountLock.
LEMMA FailureCounts ==
    ASSUME TypeOK, NEW v \in Emails, users' = [users EXCEPT ![v] = FailedAttempt(@)]
    PROVE  /\ Failures' = [Failures EXCEPT ![v] = @ + 1]
           /\ Until' = [Until EXCEPT ![v] =
                            IF Failures[v] + 1 >= MaxLoginAttempts THEN now + LockoutDuration ELSE @]
<1> DEFINE n == users[v].failed_login_attempts + 1
           end == IF n >= MaxLoginAttempts THEN now + LockoutDuration ELSE users[v].locked_until
<1>1. users \in [Emails -> UserRow]
  BY DEF TypeOK
<1>2. FailedAttempt(users[v]) = [users[v] EXCEPT !.failed_login_attempts = n, !.locked_until = end]
  BY DEF FailedAttempt
<1>3. Failures[v] + 1 = n
  BY DEF Failures
<1> HIDE DEF n
<1>4. end = IF Failures[v] + 1 >= MaxLoginAttempts THEN now + LockoutDuration ELSE Until[v]
  BY <1>3 DEF Until
<1> HIDE DEF end
<1>5. \A u \in Emails :
          /\ users'[u].failed_login_attempts = IF u = v THEN n ELSE users[u].failed_login_attempts
          /\ users'[u].locked_until = IF u = v THEN end ELSE users[u].locked_until
  BY <1>1, <1>2 DEF UserRow
<1>6. Failures' = [Failures EXCEPT ![v] = n]
  BY <1>5 DEF Failures
<1>7. Until' = [Until EXCEPT ![v] = end]
  BY <1>5 DEF Until
<1>8. QED
  BY <1>3, <1>4, <1>6, <1>7

\* A success.
LEMMA SuccessClears ==
    ASSUME TypeOK, NEW v \in Emails,
           users' = [users EXCEPT ![v].failed_login_attempts = 0, ![v].locked_until = None]
    PROVE  Failures' = [Failures EXCEPT ![v] = 0] /\ Until' = [Until EXCEPT ![v] = None]
<1>1. users \in [Emails -> UserRow]
  BY DEF TypeOK
<1>2. \A u \in Emails :
          /\ users'[u].failed_login_attempts = IF u = v THEN 0 ELSE users[u].failed_login_attempts
          /\ users'[u].locked_until = IF u = v THEN None ELSE users[u].locked_until
  BY <1>1 DEF UserRow
<1>3. QED
  BY <1>2 DEF Failures, Until

\* Every step of a handler is a step of AccountLock, or a stutter.
LEMMA HandlerImplements ==
    ASSUME TypeOK, References, AbsentClean, NEW r \in Requests, Serve(r) \/ Fault(r)
    PROVE  Lockout!Next \/ UNCHANGED Lockout!lock
<1> USE DEF Failures, Until, Tryers, Fresh
<1>1. LockKind(r) /\ OthersStay(r)
  BY HandlerLock
<1>2. now' = now /\ pc'[r] # "idle" /\ Fresh' = Fresh \ {r}
  BY <1>1, TryersStep DEF LockKind
<1>3. \A u : r \in Trying(u) => u = req[r].user /\ Tries(r)
  BY DEF Trying, Tries
<1>4. LocksStay => Failures' = Failures /\ Until' = Until
  BY DEF LocksStay
<1>5. CASE LockEnter(r)
  <2>1. PICK v \in Emails : v = req'[r].user
    BY <1>5 DEF LockEnter
  <2>2. r \in Fresh /\ \A u : r \notin Trying(u)
    BY <1>3, <1>5 DEF LockEnter, Tries
  <2>3. ~Lockout!Locked(v)
    BY <1>5, <2>1 DEF LockEnter, IsLocked, Lockout!Locked
  <2>4. \A u \in Emails : Trying(u)' = IF u = v THEN Trying(u) \cup {r} ELSE Trying(u)
    BY <1>1, <1>2, <1>5, <2>1, <2>2, TryersStep DEF LockEnter
  <2>5. Tryers' = [Tryers EXCEPT ![v] = @ \cup {r}]
    BY <2>4
  <2>6. Lockout!Enter(r, v)
    BY <1>2, <1>4, <1>5, <2>2, <2>3, <2>5 DEF Lockout!Enter, LockEnter
  <2>7. QED
    BY <2>6 DEF Lockout!Next
<1>6. CASE LockFail(r)
  <2>1. PICK v \in Emails : v = req[r].user
    BY <1>6 DEF LockFail
  <2>2. r \in Trying(v) /\ Fresh' = Fresh
    BY <1>2, <1>6, <2>1 DEF LockFail, Trying, Tries
  <2>3. Tryers' = [Tryers EXCEPT ![v] = @ \ {r}]
    BY <1>1, <1>2, <1>3, <1>6, <2>1, TryersLeave DEF LockFail
  <2>4. users' = [users EXCEPT ![v] = FailedAttempt(@)]
    BY <1>6, <2>1 DEF LockFail
  <2>5. Lockout!Fail(r, v)
    BY <1>2, <2>2, <2>3, <2>4, FailureCounts DEF Lockout!Fail
  <2>6. QED
    BY <2>5 DEF Lockout!Next
<1>7. CASE LockClear(r)
  <2>1. PICK v \in Emails : v = req[r].user
    BY <1>7 DEF LockClear
  <2>2. r \in Trying(v) /\ Fresh' = Fresh
    BY <1>2, <1>7, <2>1 DEF LockClear, Trying, Tries
  <2>3. Tryers' = [Tryers EXCEPT ![v] = @ \ {r}]
    BY <1>1, <1>2, <1>3, <1>7, <2>1, TryersLeave DEF LockClear
  <2>4. users' = [users EXCEPT ![v].failed_login_attempts = 0, ![v].locked_until = None]
    BY <1>7, <2>1 DEF LockClear
  <2>5. Lockout!Succeed(r, v)
    BY <1>2, <2>2, <2>3, <2>4, SuccessClears DEF Lockout!Succeed
  <2>6. QED
    BY <2>5 DEF Lockout!Next
<1>8. CASE LockPass(r)
  <2>1. CASE Tries(r)
    <3>1. PICK v \in Emails : v = req[r].user
      BY <2>1, RunningUser DEF Tries, Running
    <3>2. Tryers' = [Tryers EXCEPT ![v] = @ \ {r}]
      BY <1>1, <1>2, <1>3, <1>8, <3>1, TryersLeave DEF LockPass
    <3>3. Fresh' = Fresh
      BY <1>2, <2>1 DEF Tries
    <3>4. Lockout!Abandon(r, v)
      BY <1>2, <1>4, <1>8, <3>2, <3>3 DEF Lockout!Abandon, LockPass
    <3>5. QED
      BY <3>4 DEF Lockout!Next
  <2>2. CASE ~Tries(r)
    <3>1. \A u \in Emails : Trying(u)' = Trying(u)
      BY <1>1, <1>2, <1>3, <1>8, <2>2, TryersStep DEF LockPass
    <3>2. Tryers' = Tryers
      BY <3>1
    <3>3. Lockout!TurnAway(r)
      BY <1>2, <1>4, <1>8, <3>2 DEF Lockout!TurnAway, LockPass
    <3>4. QED
      BY <3>3 DEF Lockout!Next
  <2>3. QED
    BY <2>1, <2>2
<1>9. QED
  BY <1>1, <1>5, <1>6, <1>7, <1>8 DEF LockKind

\* Nor does anything else touch a lock: the host writes another column.
LEMMA OtherImplements ==
    ASSUME TypeOK,
           \/ \E u \in Emails, s \in HostStatuses : HostSetsStatus(u, s)
           \/ Tick
           \/ UNCHANGED vars
    PROVE  Lockout!Next \/ UNCHANGED Lockout!lock
<1> USE DEF Trying
<1>1. CASE Tick
  BY <1>1 DEF Tick, tables, Lockout!Next, Lockout!Pass
<1>2. CASE UNCHANGED vars
  BY <1>2 DEF vars, Lockout!lock
<1>3. ASSUME NEW v \in Emails, NEW s \in HostStatuses, HostSetsStatus(v, s)
      PROVE  UNCHANGED Lockout!lock
  <2>1. LocksStay
    BY <1>3 DEF HostSetsStatus, LocksStay, TypeOK, UserRow
  <2>2. Failures' = Failures /\ Until' = Until
    BY <2>1 DEF LocksStay, Failures, Until
  <2>3. QED
    BY <1>3, <2>2 DEF HostSetsStatus, Lockout!lock, Failures, Until
<1>4. QED
  BY <1>1, <1>2, <1>3

\* An attempt gets its password tried only while the account is not locked and is
\* counted at most once; only outcomes of logins touch the counter and the lock, those
\* of their own account, whatever requests overlap or are cut short.
THEOREM LockoutHolds == Spec => AccountsLockOut
<1>1. Init => AbsentClean /\ Lockout!Init
  <2> SUFFICES ASSUME Init PROVE AbsentClean /\ Lockout!Init
    OBVIOUS
  <2>1. \A u \in Emails : users[u].failed_login_attempts = 0 /\ users[u].locked_until = None
    BY DEF Init, NewUser
  <2>2. \A u \in Emails : Trying(u) = {}
    BY DEF Init, Trying
  <2>3. QED
    BY <2>1, <2>2 DEF AbsentClean, Lockout!Init, Init
<1>2. TypeOK /\ References /\ AbsentClean /\ [Next]_vars => [Lockout!Next]_(Lockout!lock)
  BY HandlerImplements, OtherImplements DEF Next
<1>3. QED
  BY <1>1, <1>2, StepAbsent, Integrity, PTL DEF Spec, AccountsLockOut, Lockout!Spec
=============================================================================
