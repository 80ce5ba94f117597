---------------------------- MODULE AccessProofs ----------------------------
(***************************************************************************)
(* Theorems about AccessControl: what roles access tokens carry and for    *)
(* how long, and that guards and extractor see the same user, for any      *)
(* number of accounts, requests and visits.  Every behaviour of            *)
(* AccessControl is one of AuthService, whose invariant they rest on.      *)
(***************************************************************************)
EXTENDS AccessControl, SessionProofs

\* Roles have no part in what AuthService does.
LEMMA AccessSteps == AccessNext => [Next]_vars
<1> SUFFICES ASSUME AccessNext PROVE [Next]_vars
  OBVIOUS
<1>1. CASE \E r \in Requests : ServeRole(r)
  BY <1>1 DEF ServeRole, Next
<1>2. CASE Elsewhere
  BY <1>2 DEF Elsewhere, Next
<1>3. CASE \/ \E u \in Emails, R \in HostRoles : HostSetsRole(u, R)
           \/ \E v \in Visits, guard \in Guards, t \in Requests \cup {None} : Enter(v, guard, t)
           \/ \E v \in Visits : Extract(v)
  BY <1>3 DEF HostSetsRole, Enter, Extract
<1>4. QED
  BY <1>1, <1>2, <1>3 DEF AccessNext

\* Roles and guarded routes add behaviour and take none away from sessions: every behaviour
\* of AccessControl is one of AuthService, and so all that AuthServiceProofs, SessionProofs,
\* RegistrationProofs, LedgerProofs and LockProofs prove of Spec holds with roles, too.
THEOREM RolesAddNothing == AccessSpec => Spec
<1>1. AccessInit => Init
  BY DEF AccessInit
<1>2. [AccessNext]_allVars => [Next]_vars
  BY AccessSteps DEF allVars
<1>3. QED
  BY <1>1, <1>2, PTL DEF AccessSpec, Spec

\* What handlers and tokens refer to exists, with roles as without.
LEMMA AccessIntegrity == AccessSpec => [](TypeOK /\ References)
<1>1. AccessInit => TypeOK /\ References
  BY InitType, InitReferences DEF AccessInit
<1>2. TypeOK /\ References /\ [AccessNext]_allVars => (TypeOK /\ References)'
  <2> SUFFICES ASSUME TypeOK, References, [AccessNext]_allVars PROVE (TypeOK /\ References)'
    OBVIOUS
  <2>1. [Next]_vars
    BY AccessSteps DEF allVars
  <2>2. QED
    BY <2>1, StepType, StepReferences
<1>3. QED
  BY <1>1, <1>2, PTL DEF AccessSpec

-----------------------------------------------------------------------------
(***************************************************************************)
(* What a step of a handler does to sessions.                              *)
(***************************************************************************)

\* r is about to make an access token of the row it has read.
Holding(r) == pc[r] \in {"login_record", "login_issue", "refresh_issue"}

\* Rows of refresh_tokens keep their account and their expiry; r inserts its own now.
RowsLast(r) ==
    \A t \in Requests :
        /\ refresh_tokens[t].state # "none" =>
               /\ refresh_tokens'[t].state # "none"
               /\ refresh_tokens'[t].user = refresh_tokens[t].user
               /\ refresh_tokens'[t].expires_at = refresh_tokens[t].expires_at
        /\ refresh_tokens[t].state = "none" /\ refresh_tokens'[t].state # "none" =>
               /\ t = r /\ pc[r] \in IssuingRefresh
               /\ refresh_tokens'[t].user = req[r].user
               /\ refresh_tokens'[t].expires_at = now + RefreshTTL

\* The row that the token is made of was read of an account that could log in, and
\* making the token is the last use of it.
HolderStep(r) ==
    /\ now' = now
    /\ RowsLast(r)
    /\ Holding(r)' => \/ /\ pc[r] = "login_record" /\ pc'[r] = "login_issue"
                         /\ req'[r].user = req[r].user
                      \/ /\ pc[r] \notin {"login_issue", "refresh_issue"}
                         /\ pc'[r] # pc[r] /\ pc'[r] # "login_issue"
                         /\ CanLogin(req'[r].user) /\ UNCHANGED users

LEMMA RowsKept ==
    ASSUME TypeOK, NEW r \in Requests,
           \/ UNCHANGED refresh_tokens
           \/ \E t \in Requests : /\ refresh_tokens[t].state # "none"
                                  /\ refresh_tokens' = Spend(refresh_tokens, t)
           \/ \E u \in Emails : refresh_tokens' = SpendAll(refresh_tokens, u)
           \/ /\ pc[r] \in IssuingRefresh /\ refresh_tokens[r].state = "none"
              /\ GenerateTokens(r)
    PROVE  RowsLast(r)
<1>0. refresh_tokens \in [Requests -> TokenRow]
  BY DEF TypeOK
<1>1. CASE UNCHANGED refresh_tokens
  BY <1>1 DEF RowsLast
<1>2. ASSUME NEW t \in Requests, refresh_tokens[t].state # "none",
             refresh_tokens' = Spend(refresh_tokens, t)
      PROVE  RowsLast(r)
  BY <1>0, <1>2 DEF Spend, TokenRow, RowsLast
<1>3. ASSUME NEW u \in Emails, refresh_tokens' = SpendAll(refresh_tokens, u)
      PROVE  RowsLast(r)
  BY <1>0, <1>3 DEF SpendAll, TokenRow, RowsLast
<1>4. CASE /\ pc[r] \in IssuingRefresh /\ refresh_tokens[r].state = "none"
           /\ GenerateTokens(r)
  BY <1>0, <1>4 DEF GenerateTokens, Insert, TokenRow, RowsLast
<1>5. QED
  BY <1>1, <1>2, <1>3, <1>4

LEMMA LoginHolder ==
    ASSUME TypeOK, References, NEW r \in Requests, Login(r)
    PROVE  HolderStep(r)
<1>1. ASSUME NEW u \in Emails, NEW p \in Passwords, LoginFind(r, u, p) PROVE HolderStep(r)
  <2>1. pc'[r] = LoginVerdict(u, p) /\ UNCHANGED <<now, users, refresh_tokens>> /\ pc[r] = "idle"
    BY <1>1 DEF LoginFind, Arrive, TypeOK, tables
  <2>2. LoginVerdict(u, p) \in {"login_record", "login_increment"} \cup Answers
    BY DEF LoginVerdict, Answers
  <2>3. pc'[r] = "login_record" => CanLogin(u) /\ req'[r].user = u
    BY <1>1, <2>1 DEF LoginFind, LoginVerdict, Arrive, Context, CanLogin, TypeOK, Answers
  <2>4. QED
    BY <2>1, <2>2, <2>3, RowsKept DEF HolderStep, Holding, Answers
<1>2. CASE LoginIncrement(r) \/ LoginRecord(r)
  BY <1>2, RowsKept DEF LoginIncrement, LoginRecord, Goto, TypeOK, HolderStep, Holding
<1>3. CASE LoginIssue(r)
  <2>1. pc[r] \in IssuingRefresh /\ refresh_tokens[r].state = "none"
    BY <1>3 DEF LoginIssue, Goto, References, Unissued, IssuingRefresh, BeforeRefresh
  <2>2. QED
    BY <1>3, <2>1, RowsKept DEF LoginIssue, GenerateTokens, Goto, TypeOK, HolderStep, Holding
<1>4. QED
  BY <1>1, <1>2, <1>3 DEF Login

LEMMA RefreshHolder ==
    ASSUME TypeOK, References, NEW r \in Requests, Refresh(r)
    PROVE  HolderStep(r)
<1>1. ASSUME NEW t \in Requests, RefreshFind(r, t) PROVE HolderStep(r)
  BY <1>1, RowsKept DEF RefreshFind, RefreshVerdict, Arrive, TypeOK, tables, HolderStep, Holding
<1>2. CASE RefreshUser(r)
  BY <1>2, RowsKept DEF RefreshUser, Goto, TypeOK, tables, HolderStep, Holding
<1>3. CASE RefreshIssue(r)
  <2>1. pc[r] \in IssuingRefresh /\ refresh_tokens[r].state = "none"
    BY <1>3 DEF RefreshIssue, Goto, References, Unissued, IssuingRefresh, BeforeRefresh
  <2>2. QED
    BY <1>3, <2>1, RowsKept DEF RefreshIssue, GenerateTokens, Goto, TypeOK, HolderStep, Holding
<1>4. CASE RefreshRevoke(r)
  <2>1. req[r].token \in Requests /\ refresh_tokens[req[r].token].state # "none"
    BY <1>4 DEF RefreshRevoke, Goto, Running, References, HandlersFit, Fits, Remembered, Presented,
                StepsOf
  <2>2. QED
    BY <1>4, <2>1, RowsKept DEF RefreshRevoke, Goto, TypeOK, HolderStep, Holding
<1>5. CASE RefreshPurge(r)
  <2>1. req[r].user \in Emails
    BY <1>5, RunningUser DEF RefreshPurge, Goto, Running
  <2>2. QED
    BY <1>5, <2>1, RowsKept DEF RefreshPurge, Goto, TypeOK, HolderStep, Holding
<1>6. QED
  BY <1>1, <1>2, <1>3, <1>4, <1>5 DEF Refresh

LEMMA ServeHolder ==
    ASSUME TypeOK, References, NEW r \in Requests, Serve(r)
    PROVE  HolderStep(r)
<1> USE DEF Answers
<1>1. CASE Logout(r)
  BY <1>1, RowsKept DEF Logout, Delivered, Arrive, TypeOK, HolderStep, Holding
<1>2. CASE ResetRevoke(r) \/ ChangeRevoke(r)
  <2>1. req[r].user \in Emails
    BY <1>2, RunningUser DEF ResetRevoke, ChangeRevoke, RevokeSessions, Goto, Running
  <2>2. QED
    BY <1>2, <2>1, RowsKept DEF ResetRevoke, ChangeRevoke, RevokeSessions, Goto, TypeOK, HolderStep,
                                Holding
<1>3. CASE /\ ForgotPassword(r) \/ ResetPassword(r) \/ ChangePassword(r)
           /\ ~ResetRevoke(r) /\ ~ChangeRevoke(r)
  BY <1>3, RowsKept
     DEF ForgotPassword, ForgotFind, ForgotInvalidate, ForgotInsert, ResetPassword, ResetFind,
         ResetVerdict, ResetUpdate, ResetMark, ChangePassword, ChangeFind, ChangeVerdict,
         ChangeUpdate, UpdatePassword, Arrive, Goto, TypeOK, tables, HolderStep, Holding
<1>4. CASE Register(r) \/ CreateEmailVerification(r) \/ ResendVerification(r) \/ VerifyEmail(r)
  BY <1>4, RowsKept
     DEF Register, RegisterFind, RegisterVerdict, RegisterInsert, CreateEmailVerification,
         VerificationInvalidate, VerificationInsert, ResendVerification, VerifyEmail, VerifyFind,
         VerifyVerdict, VerifyUpdate, VerifyMark, Arrive, Goto, TypeOK, tables, HolderStep, Holding
<1>5. CASE Respond(r)
  BY <1>5, RowsKept DEF Respond, Goto, TypeOK, tables, HolderStep, Holding
<1>6. QED
  BY <1>1, <1>2, <1>3, <1>4, <1>5, LoginHolder, RefreshHolder DEF Serve
-----------------------------------------------------------------------------
(***************************************************************************)
(* The invariant.                                                          *)
(***************************************************************************)

\* The past is not later than now.
BackedBefore == \A u \in Emails, R \in Roles : backed[u][R] <= now

\* The row that a handler is about to make an access token of stands behind its account.
PendingFits ==
    \A r \in Requests :
        Holding(r) => req[r].user \in Emails /\ backed[req[r].user][row[r]] = now

\* An access token carries a role that stood behind its account when it was made.
SignedFits ==
    \A t \in Requests :
        refresh_tokens[t].state # "none" =>
            /\ refresh_tokens[t].user \in Emails
            /\ refresh_tokens[t].expires_at - RefreshTTL <= backed[refresh_tokens[t].user][claim[t]]

\* The token that a visitor shows is one that was handed out, and where the guard saw
\* no user it is no longer any good.
VisitFits(v) ==
    visit[v].status = "entered" =>
        /\ visit[v].token # None => Delivered(refresh_tokens, visit[v].token)
        /\ visit[v].guard # "none" /\ visit[v].claims = None => ~Validates(visit[v].token)

AccessInv ==
    AccessTypeOK /\ BackedBefore /\ PendingFits /\ SignedFits /\ \A v \in Visits : VisitFits(v)

-----------------------------------------------------------------------------
(***************************************************************************)
(* The invariant holds in the beginning.                                   *)
(***************************************************************************)

LEMMA InitAccess == AccessInit => AccessInv
<1> SUFFICES ASSUME AccessInit PROVE AccessInv
  OBVIOUS
<1>1. AccessTypeOK
  BY RolesAssumption DEF AccessInit, AccessTypeOK, Visit, NoVisit, Guards, Never
<1>2. BackedBefore
  BY DEF AccessInit, Init, BackedBefore, Never
<1>3. PendingFits
  BY DEF AccessInit, Init, PendingFits, Holding
<1>4. SignedFits
  <2> SUFFICES ASSUME NEW t \in Requests, refresh_tokens[t].state # "none"
               PROVE  /\ refresh_tokens[t].user \in Emails
                      /\ refresh_tokens[t].expires_at - RefreshTTL
                             <= backed[refresh_tokens[t].user][claim[t]]
    BY DEF SignedFits
  <2>1. /\ refresh_tokens[t].user = Prior[t] /\ Prior[t] \in Registered
        /\ refresh_tokens[t].expires_at = RefreshTTL
    BY PopulationAssumption DEF AccessInit, Init, NoToken
  <2>2. Prior[t] \in Emails /\ claim[t] = FirstRole /\ backed[Prior[t]][FirstRole] = 0
    BY <2>1, PopulationAssumption, RolesAssumption DEF AccessInit
  <2>3. QED
    BY <2>1, <2>2, ConfigAssumption
<1>5. ASSUME NEW v \in Visits PROVE VisitFits(v)
  BY DEF AccessInit, VisitFits, NoVisit
<1>6. QED
  BY <1>1, <1>2, <1>3, <1>4, <1>5 DEF AccessInv

-----------------------------------------------------------------------------
(***************************************************************************)
(* Steps keep it.                                                          *)
(***************************************************************************)

\* Time does not go back.
LEMMA NowAdvances ==
    ASSUME TypeOK, References, [Next]_vars
    PROVE  now \in Nat /\ now' \in Nat /\ now <= now'
<1>1. now \in Nat
  BY DEF TypeOK
<1>2. ASSUME NEW r \in Requests, Serve(r) PROVE now' = now
  BY <1>2, ServeHolder DEF HolderStep
<1>3. CASE \/ \E r \in Requests : Fault(r)
           \/ \E u \in Emails, s \in HostStatuses : HostSetsStatus(u, s)
           \/ Tick
           \/ UNCHANGED vars
  BY <1>1, <1>3 DEF Fault, HostSetsStatus, Tick, vars
<1>4. QED
  BY <1>1, <1>2, <1>3 DEF Next

\* The history only grows, and is now for accounts that are active and for the rows
\* that tokens are about to be made of.
LEMMA BackedGrows ==
    ASSUME AccessTypeOK, BackedBefore, now \in Nat, now' \in Nat, now <= now',
           Backing, role' \in [Emails -> Roles]
    PROVE  /\ backed' \in [Emails -> [Roles -> Nat \cup {Never}]]
           /\ BackedBefore'
           /\ \A u \in Emails, R \in Roles : backed[u][R] <= backed'[u][R]
           /\ \A u \in Emails : users'[u].status = "active" => backed'[u][role'[u]] = now'
           /\ \A r \in Requests :
                  /\ Holding(r) /\ req[r].user \in Emails
                  /\ backed[req[r].user][row[r]] = now
                  => backed'[req[r].user][row[r]] = now'
<1>1. \A u \in Emails, R \in Roles :
          /\ backed[u][R] \in Nat \cup {Never} /\ backed[u][R] <= now
          /\ backed'[u][R] \in {now', backed[u][R]}
  BY DEF Backing, AccessTypeOK, BackedBefore
<1>2. backed' \in [Emails -> [Roles -> Nat \cup {Never}]]
  BY DEF Backing, AccessTypeOK
<1>3. \A u \in Emails, R \in Roles : /\ backed[u][R] <= backed'[u][R]
                                     /\ backed'[u][R] <= now'
  BY <1>1 DEF Never
<1>4. \A u \in Emails : users'[u].status = "active" => backed'[u][role'[u]] = now'
  BY DEF Backing
<1>5. ASSUME NEW r \in Requests, Holding(r), req[r].user \in Emails,
             backed[req[r].user][row[r]] = now
      PROVE  backed'[req[r].user][row[r]] = now'
  <2>1. row[r] \in Roles /\ Signing(r, req[r].user, row[r])
    BY <1>5 DEF AccessTypeOK, Holding, Signing
  <2>2. QED
    BY <1>5, <2>1 DEF Backing
<1>6. QED
  BY <1>2, <1>3, <1>4, <1>5 DEF BackedBefore

\* So what has stood behind an account until some time still has.
LEMMA StillBacked ==
    ASSUME AccessTypeOK, AccessTypeOK', NEW u \in Emails, NEW R \in Roles, NEW at \in Int,
           at <= backed[u][R], \A v \in Emails, Q \in Roles : backed[v][Q] <= backed'[v][Q]
    PROVE  at <= backed'[u][R]
<1>1. backed[u][R] \in Int /\ backed'[u][R] \in Int /\ backed[u][R] <= backed'[u][R]
  BY DEF AccessTypeOK, Never
<1>2. QED
  BY <1>1, OrderChain

\* A handler's step keeps the type of roles, rows and claims.
LEMMA ServeRoleType ==
    ASSUME TypeOK, References, References', AccessTypeOK, NEW r \in Requests, ServeRole(r)
    PROVE  /\ role' \in [Emails -> Roles]
           /\ row' \in [Requests -> Roles]
           /\ claim' \in [Requests -> Roles]
<1>1. ReadsRow(r) => req'[r].user \in Emails
  <2> SUFFICES ASSUME ReadsRow(r) PROVE req'[r].user \in Emails
    OBVIOUS
  <2>1. pc'[r] \in Running
    BY DEF ReadsRow, Running
  <2>2. QED
    BY <2>1 DEF References, HandlersFit, Fits, Remembered, StepsOf
<1>2. row' \in [Requests -> Roles]
  <2>1. CASE ReadsRow(r)
    <3>1. role[req'[r].user] \in Roles
      BY <1>1, <2>1 DEF AccessTypeOK
    <3>2. QED
      BY <2>1, <3>1 DEF ServeRole, AccessTypeOK
  <2>2. QED
    BY <2>1 DEF ServeRole, AccessTypeOK
<1>3. claim' \in [Requests -> Roles]
  BY DEF ServeRole, RoleSigned, AccessTypeOK
<1>4. role' \in [Emails -> Roles]
  BY DEF ServeRole, AccessTypeOK, Roles
<1>5. QED
  BY <1>2, <1>3, <1>4

\* So do all other steps, and visits are of their type.
LEMMA StepAccessType ==
    ASSUME TypeOK, References, AccessTypeOK, BackedBefore, AccessNext
    PROVE  /\ AccessTypeOK' /\ BackedBefore'
           /\ \A u \in Emails, R \in Roles : backed[u][R] <= backed'[u][R]
           /\ \A u \in Emails : users'[u].status = "active" => backed'[u][role'[u]] = now'
           /\ \A r \in Requests :
                  /\ Holding(r) /\ req[r].user \in Emails
                  /\ backed[req[r].user][row[r]] = now
                  => backed'[req[r].user][row[r]] = now'
<1>1. TypeOK' /\ References' /\ now \in Nat /\ now' \in Nat /\ now <= now'
  BY AccessSteps, StepType, StepReferences, NowAdvances
<1>2. /\ role' \in [Emails -> Roles]
      /\ row' \in [Requests -> Roles]
      /\ claim' \in [Requests -> Roles]
      /\ visit' \in [Visits -> Visit]
      /\ Backing
  <2>1. ASSUME NEW r \in Requests, ServeRole(r)
        PROVE  visit' = visit /\ Backing
    BY <2>1 DEF ServeRole
  <2>2. ASSUME NEW u \in Emails, NEW R \in HostRoles, HostSetsRole(u, R)
        PROVE  /\ role' \in [Emails -> Roles]
               /\ UNCHANGED <<row, claim, visit>> /\ Backing
    BY <2>2, RolesAssumption DEF HostSetsRole, AccessTypeOK
  <2>3. ASSUME NEW v \in Visits, NEW guard \in Guards, NEW t \in Requests \cup {None},
               Enter(v, guard, t)
        PROVE  visit' \in [Visits -> Visit] /\ UNCHANGED <<role, row, claim>> /\ Backing
    <3>1. Verdict(guard, t) \in {"entered", "401", "403"}
      BY DEF Verdict
    <3>2. QED
      BY <2>3, <3>1 DEF Enter, AccessTypeOK, Visit
  <2>4. ASSUME NEW v \in Visits, Extract(v)
        PROVE  visit' \in [Visits -> Visit] /\ UNCHANGED <<role, row, claim>> /\ Backing
    BY <2>4 DEF Extract, AccessTypeOK, Visit
  <2>5. CASE Elsewhere
    BY <2>5 DEF Elsewhere, AccessTypeOK
  <2>6. QED
    BY <1>1, <2>1, <2>2, <2>3, <2>4, <2>5, ServeRoleType DEF AccessNext, AccessTypeOK
<1>3. QED
  BY <1>1, <1>2, BackedGrows DEF AccessTypeOK
\* Where each handler that is about to make a token has its row from.
LEMMA ServePending ==
    ASSUME TypeOK, References, AccessInv, AccessNext, NEW r \in Requests, ServeRole(r)
    PROVE  PendingFits'
<1>1. /\ AccessTypeOK /\ PendingFits
      /\ \A u \in Emails : users'[u].status = "active" => backed'[u][role'[u]] = now'
      /\ \A c \in Requests :
             /\ Holding(c) /\ req[c].user \in Emails /\ backed[req[c].user][row[c]] = now
             => backed'[req[c].user][row[c]] = now'
  BY StepAccessType DEF AccessInv
<1>2. /\ HolderStep(r)
      /\ \A c \in Requests \ {r} : pc'[c] = pc[c] /\ req'[c] = req[c]
  BY ServeHolder, StepChanges DEF ServeRole, ChangesStep
<1>3. References'
  BY AccessSteps, StepReferences
<1> SUFFICES ASSUME NEW c \in Requests, Holding(c)'
             PROVE  req'[c].user \in Emails /\ backed'[req'[c].user][row'[c]] = now'
  BY DEF PendingFits
<1>4. CASE Holding(c) /\ req'[c].user = req[c].user /\ row'[c] = row[c]
  BY <1>1, <1>4 DEF PendingFits
<1>5. CASE c # r
  BY <1>2, <1>4, <1>5 DEF ServeRole, Holding
<1>6. CASE c = r /\ pc[r] = "login_record" /\ pc'[r] = "login_issue"
  BY <1>2, <1>4, <1>6 DEF ServeRole, ReadsRow, HolderStep, Holding
<1>7. CASE /\ c = r
           /\ pc'[r] # pc[r] /\ pc'[r] \in {"login_record", "refresh_issue"}
           /\ CanLogin(req'[r].user) /\ UNCHANGED users
  <2> DEFINE u == req'[r].user
  <2>1. u \in Emails
    BY <1>3, <1>7 DEF References, HandlersFit, Fits, Remembered, Running, StepsOf
  <2>2. row'[r] = role[u]
    BY <1>7 DEF ServeRole, ReadsRow, AccessInv, AccessTypeOK
  <2>3. role'[u] = role[u]
    BY <1>7, <2>1 DEF ServeRole, Exists
  <2>4. backed'[u][role'[u]] = now'
    BY <1>1, <1>7, <2>1 DEF CanLogin
  <2>5. QED
    BY <1>7, <2>1, <2>2, <2>3, <2>4
<1>8. QED
  BY <1>2, <1>5, <1>6, <1>7 DEF HolderStep, Holding

\* What is signed stands behind the account at that moment.
LEMMA ServeSigned ==
    ASSUME TypeOK, References, AccessInv, AccessNext, NEW r \in Requests, ServeRole(r)
    PROVE  SignedFits'
<1>1. /\ AccessTypeOK /\ AccessTypeOK' /\ PendingFits /\ SignedFits
      /\ \A u \in Emails, R \in Roles : backed[u][R] <= backed'[u][R]
  BY StepAccessType DEF AccessInv
<1>2. HolderStep(r)
  BY ServeHolder DEF ServeRole
<1>3. TypeOK' /\ References'
  BY AccessSteps, StepType, StepReferences
<1> SUFFICES ASSUME NEW t \in Requests, refresh_tokens'[t].state # "none",
                    NEW u, u = refresh_tokens'[t].user,
                    NEW at, at = refresh_tokens'[t].expires_at - RefreshTTL
             PROVE  u \in Emails /\ at <= backed'[u][claim'[t]]
  BY DEF SignedFits
<1>4. at \in Int
  BY <1>3, ConfigAssumption DEF TypeOK, TokenRow
<1>5. ASSUME NEW R \in Roles, u \in Emails, at <= backed[u][R], claim'[t] = R
      PROVE  at <= backed'[u][claim'[t]]
  BY <1>1, <1>4, <1>5, StillBacked
<1>6. CASE refresh_tokens[t].state # "none"
  <2>1. u = refresh_tokens[t].user /\ at = refresh_tokens[t].expires_at - RefreshTTL
    BY <1>2, <1>6 DEF HolderStep, RowsLast
  <2>2. u \in Emails /\ at <= backed[u][claim[t]] /\ claim[t] \in Roles
    BY <1>1, <1>6, <2>1 DEF SignedFits, AccessTypeOK
  <2>3. claim'[t] = claim[t]
    BY <1>6 DEF ServeRole, SignsToken, References, Unissued, BeforeRefresh, IssuingRefresh
  <2>4. QED
    BY <1>5, <2>2, <2>3
<1>7. CASE refresh_tokens[t].state = "none"
  <2>1. /\ t = r /\ pc[r] \in IssuingRefresh
        /\ u = req[r].user /\ refresh_tokens'[t].expires_at = now + RefreshTTL
    BY <1>2, <1>7 DEF HolderStep, RowsLast
  <2>2. u \in Emails /\ backed[u][row[r]] = now /\ row[r] \in Roles
    BY <1>1, <2>1 DEF PendingFits, Holding, IssuingRefresh, AccessTypeOK
  <2>3. pc'[r] \notin BeforeRefresh
    BY <1>3, <2>1 DEF References, Unissued
  <2>4. claim'[r] = row[r]
    BY <1>1, <2>1, <2>3 DEF ServeRole, SignsToken, RoleSigned, BeforeRefresh, IssuingRefresh,
                            AccessTypeOK
  <2>5. at = now /\ now \in Int
    BY <2>1, ConfigAssumption DEF TypeOK
  <2>6. QED
    BY <1>5, <2>1, <2>2, <2>4, <2>5
<1>8. QED
  BY <1>6, <1>7

\* A step that is not a handler's changes neither rows read nor tokens made.
LEMMA OtherRolesFit ==
    ASSUME TypeOK, References, AccessInv, AccessNext,
           ~\E r \in Requests : ServeRole(r)
    PROVE  PendingFits' /\ SignedFits'
<1>1. /\ AccessTypeOK /\ AccessTypeOK' /\ PendingFits /\ SignedFits
      /\ \A u \in Emails, R \in Roles : backed[u][R] <= backed'[u][R]
      /\ \A c \in Requests :
             /\ Holding(c) /\ req[c].user \in Emails /\ backed[req[c].user][row[c]] = now
             => backed'[req[c].user][row[c]] = now'
  BY StepAccessType DEF AccessInv
<1>2. /\ UNCHANGED <<row, claim, refresh_tokens>>
      /\ \A c \in Requests : (pc'[c] = pc[c] /\ req'[c] = req[c]) \/ pc'[c] = "Database"
  <2>1. CASE Elsewhere
    BY <2>1 DEF Elsewhere, Fault, HostSetsStatus, Tick, tables, TypeOK
  <2>2. QED
    BY <2>1 DEF AccessNext, HostSetsRole, Enter, Extract, vars
<1>3. PendingFits'
  BY <1>1, <1>2 DEF PendingFits, Holding
<1>4. SignedFits'
  <2> SUFFICES ASSUME NEW t \in Requests, refresh_tokens[t].state # "none",
                      NEW u, u = refresh_tokens[t].user,
                      NEW at, at = refresh_tokens[t].expires_at - RefreshTTL
               PROVE  u \in Emails /\ at <= backed'[u][claim[t]]
    BY <1>2 DEF SignedFits
  <2>1. at \in Int /\ claim[t] \in Roles
    BY <1>1, ConfigAssumption DEF TypeOK, TokenRow, AccessTypeOK
  <2>2. u \in Emails /\ at <= backed[u][claim[t]]
    BY <1>1 DEF SignedFits
  <2>3. QED
    BY <1>1, <2>1, <2>2, StillBacked
<1>5. QED
  BY <1>3, <1>4

-----------------------------------------------------------------------------
(***************************************************************************)
(* Visits.                                                                 *)
(***************************************************************************)

\* A token that was handed out stays so, and is no good again once it has run out.
LEMMA ExpiredStays ==
    ASSUME TypeOK, References, [Next]_vars, NEW t \in Requests, Delivered(refresh_tokens, t)
    PROVE  Delivered(refresh_tokens, t)' /\ (Validates(t)' => Validates(t))
<1>1. pc[t] = "ok" /\ refresh_tokens[t].state # "none"
  BY DEF Delivered
<1>2. now \in Nat /\ now' \in Nat /\ now <= now'
  BY NowAdvances
<1>3. /\ pc'[t] = "ok" /\ refresh_tokens'[t].state # "none"
      /\ refresh_tokens'[t].expires_at = refresh_tokens[t].expires_at
  <2>1. ASSUME NEW r \in Requests, Serve(r)
        PROVE  /\ pc'[t] = "ok" /\ refresh_tokens'[t].state # "none"
               /\ refresh_tokens'[t].expires_at = refresh_tokens[t].expires_at
    <3>1. HolderStep(r) /\ \A c \in Requests \ {r} : pc'[c] = pc[c]
      BY <2>1, ServeHolder, StepChanges DEF ChangesStep
    <3>2. pc[r] # "ok"
      BY <2>1 DEF Serve, Login, LoginFind, LoginIncrement, LoginRecord, LoginIssue,
           Refresh, RefreshFind, RefreshPurge, RefreshUser, RefreshIssue, RefreshRevoke, Logout,
           ForgotPassword, ForgotFind, ForgotInvalidate, ForgotInsert,
           ResetPassword, ResetFind, ResetUpdate, ResetMark, ResetRevoke, RevokeSessions,
           ChangePassword, ChangeFind, ChangeUpdate, ChangeRevoke,
           Register, RegisterFind, RegisterInsert, CreateEmailVerification,
           VerificationInvalidate, VerificationInsert, ResendVerification,
           VerifyEmail, VerifyFind, VerifyUpdate, VerifyMark, Respond, Arrive, Goto
    <3>3. QED
      BY <1>1, <3>1, <3>2 DEF HolderStep, RowsLast
  <2>2. ASSUME NEW r \in Requests, Fault(r)
        PROVE  pc'[t] = "ok" /\ refresh_tokens' = refresh_tokens
    BY <1>1, <2>2 DEF Fault, Running, TypeOK, tables
  <2>3. CASE \/ \E u \in Emails, s \in HostStatuses : HostSetsStatus(u, s)
             \/ Tick
             \/ UNCHANGED vars
    BY <1>1, <2>3 DEF HostSetsStatus, Tick, tables, vars
  <2>4. QED
    BY <1>1, <2>1, <2>2, <2>3 DEF Next
<1>4. AccessExp(t)' = AccessExp(t) /\ AccessExp(t) + Leeway \in Int
  BY <1>3, ConfigAssumption DEF AccessExp, TypeOK, TokenRow
<1>5. QED
  BY <1>2, <1>3, <1>4, OrderChain DEF Delivered, Validates

LEMMA StepVisits ==
    ASSUME TypeOK, References, AccessInv, AccessNext, NEW v \in Visits
    PROVE  VisitFits(v)'
<1>1. VisitFits(v) /\ visit \in [Visits -> Visit] /\ visit' \in [Visits -> Visit]
  BY StepAccessType DEF AccessInv, AccessTypeOK
<1>2. ASSUME visit'[v] = visit[v] PROVE VisitFits(v)'
  <2> SUFFICES ASSUME visit[v].status = "entered" PROVE VisitFits(v)'
    BY <1>2 DEF VisitFits
  <2>1. PICK t \in Requests \cup {None} : t = visit[v].token
    BY <1>1 DEF Visit
  <2>2. /\ t # None => Delivered(refresh_tokens, t)
        /\ visit[v].guard # "none" /\ visit[v].claims = None => ~Validates(t)
    BY <1>1, <2>1 DEF VisitFits
  <2>3. [Next]_vars
    BY AccessSteps
  <2>4. /\ t # None => Delivered(refresh_tokens, t)'
        /\ Validates(t)' => Validates(t)
    BY <2>2, <2>3, ExpiredStays DEF Validates
  <2>5. visit'[v].token = t
    BY <1>2, <2>1
  <2>6. QED
    BY <1>2, <2>2, <2>4, <2>5 DEF VisitFits, Validates
<1>3. ASSUME NEW w \in Visits, NEW guard \in Guards, NEW t \in Requests \cup {None},
             Enter(w, guard, t)
      PROVE  VisitFits(v)'
  <2>1. CASE v = w
    <3>1. /\ visit'[v].guard = guard /\ visit'[v].token = t /\ visit'[v].status = Verdict(guard, t)
          /\ visit'[v].claims = IF guard # "none" /\ Verdict(guard, t) = "entered" /\ Validates(t)
                                THEN t ELSE None
      BY <1>1, <1>3, <2>1 DEF Enter
    <3>2. /\ t # None => Delivered(refresh_tokens, t)'
          /\ Validates(t)' = Validates(t)
      BY <1>3 DEF Enter, Delivered, Validates, AccessExp, vars
    <3>3. QED
      BY <3>1, <3>2 DEF VisitFits, Validates
  <2>2. CASE v # w
    BY <1>1, <1>2, <1>3, <2>2 DEF Enter
  <2>3. QED
    BY <2>1, <2>2
<1>4. ASSUME NEW w \in Visits, Extract(w) PROVE VisitFits(v)'
  <2>1. CASE v = w
    <3>1. visit'[v].status \in {"served", "401"}
      BY <1>1, <1>4, <2>1 DEF Extract, Visit
    <3>2. QED
      BY <3>1 DEF VisitFits
  <2>2. CASE v # w
    BY <1>1, <1>2, <1>4, <2>2 DEF Extract
  <2>3. QED
    BY <2>1, <2>2
<1>5. QED
  BY <1>2, <1>3, <1>4 DEF AccessNext, ServeRole, HostSetsRole, Elsewhere

LEMMA StepAccess ==
    TypeOK /\ References /\ AccessInv /\ [AccessNext]_allVars => AccessInv'
<1> SUFFICES ASSUME TypeOK, References, AccessInv, [AccessNext]_allVars PROVE AccessInv'
  OBVIOUS
<1>1. CASE UNCHANGED allVars
  BY <1>1 DEF allVars, roleVars, vars, AccessInv, AccessTypeOK, BackedBefore, PendingFits, SignedFits,
              VisitFits, Holding, Delivered, Validates, AccessExp
<1>2. CASE AccessNext
  <2>1. AccessTypeOK' /\ BackedBefore'
    BY <1>2, StepAccessType DEF AccessInv
  <2>2. PendingFits' /\ SignedFits'
    BY <1>2, ServePending, ServeSigned, OtherRolesFit
  <2>3. \A v \in Visits : VisitFits(v)'
    BY <1>2, StepVisits
  <2>4. QED
    BY <2>1, <2>2, <2>3 DEF AccessInv
<1>3. QED
  BY <1>1, <1>2

LEMMA AccessHolds == AccessSpec => []AccessInv
BY InitAccess, StepAccess, AccessIntegrity, PTL DEF AccessSpec
-----------------------------------------------------------------------------
(***************************************************************************)
(* The theorems.                                                           *)
(***************************************************************************)

\* Every variable of AccessControl keeps its type.
THEOREM AccessTypes == AccessSpec => []AccessTypeOK
BY AccessHolds, PTL DEF AccessInv

\* A role that was taken away, or an account that was suspended, gets through the guards
\* no longer than an access token and its leeway last after the last moment at which the
\* account was active with that role, or a login or refresh that had read it so had yet
\* to make its token.
THEOREM AuthorityHolds == AccessSpec => []AuthorityIsBounded
<1>1. TypeOK /\ References /\ AccessInv => AuthorityIsBounded
  <2> SUFFICES ASSUME TypeOK, References, AccessInv, NEW t \in Requests,
                      Delivered(refresh_tokens, t), Validates(t)
               PROVE  now <= backed[refresh_tokens[t].user][claim[t]] + AccessTTL + Leeway
    BY DEF AuthorityIsBounded
  <2> DEFINE u == refresh_tokens[t].user
             last == backed[u][claim[t]]
             exp == refresh_tokens[t].expires_at
  <2>1. u \in Emails /\ exp - RefreshTTL <= last
    BY DEF AccessInv, SignedFits, Delivered
  <2>2. /\ now \in Int /\ exp \in Int /\ RefreshTTL \in Int /\ AccessTTL \in Int /\ Leeway \in Int
        /\ last \in Int
    BY <2>1, ConfigAssumption DEF TypeOK, TokenRow, AccessInv, AccessTypeOK, Never
  <2>3. now <= exp - RefreshTTL + AccessTTL + Leeway
    BY DEF Validates, AccessExp
  <2> HIDE DEF last, exp
  <2>4. now <= last + AccessTTL + Leeway
    BY <2>1, <2>2, <2>3
  <2>5. QED
    BY <2>4 DEF last
<1>2. QED
  BY <1>1, AccessHolds, AccessIntegrity, PTL

\* The handler behind a guard sees the user that the guard saw, and none where it saw
\* none, whatever runs out in between.
THEOREM GuardAndUserHolds == AccessSpec => GuardAndUserAgree
<1>1. AccessInv /\ [AccessNext]_allVars =>
          [\A v \in Visits :
               /\ visit[v].status = "entered" /\ visit[v].guard # "none"
               /\ visit'[v].status # "entered"
               => (visit'[v].status = "served" <=> visit[v].claims # None)]_allVars
  <2> SUFFICES ASSUME AccessInv, AccessNext, NEW v \in Visits,
                      visit[v].status = "entered", visit[v].guard # "none",
                      visit'[v].status # "entered"
               PROVE  visit'[v].status = "served" <=> visit[v].claims # None
    OBVIOUS
  <2>1. visit \in [Visits -> Visit] /\ VisitFits(v)
    BY DEF AccessInv, AccessTypeOK
  <2>2. ASSUME NEW w \in Visits, NEW guard \in Guards, NEW t \in Requests \cup {None},
               Enter(w, guard, t)
        PROVE  FALSE
    BY <2>1, <2>2 DEF Enter
  <2>3. Extract(v)
    BY <2>1, <2>2 DEF AccessNext, ServeRole, HostSetsRole, Elsewhere, Extract
  <2>4. visit[v].claims = None => ~Validates(visit[v].token)
    BY <2>1 DEF VisitFits
  <2>5. QED
    BY <2>1, <2>3, <2>4 DEF Extract, Visit, Validates
<1>2. QED
  BY <1>1, AccessHolds, PTL DEF AccessSpec, GuardAndUserAgree
=============================================================================
