------------------------- MODULE RegistrationProofs -------------------------
(***************************************************************************)
(* A registration that is cut short cannot be completed any more: with     *)
(* verification required, an account whose verification token was never    *)
(* made, never delivered or has run out stays as it is.                    *)
(***************************************************************************)
EXTENDS SessionProofs

-----------------------------------------------------------------------------
(***************************************************************************)
(* The invariant.                                                          *)
(***************************************************************************)

\* With verification required, whoever has ever had a session is verified or had one
\* before, and so nobody else holds an access token.
HoldersVerified ==
    RequireEmailVerification =>
        \A t \in Requests :
            refresh_tokens[t].state # "none" => Settled(refresh_tokens[t].user)

\* The handler that inserted a verification token has nothing left to do but answer.
TokensComeLast ==
    \A t \in Requests :
        verification_tokens[t].state # "none" => pc[t] \in {"respond"} \cup Answers

StrandedInv == Verified /\ SessionsAreVerified /\ HoldersVerified /\ TokensComeLast

\* Steps at which a handler is going to make or to use a verification token.
Verifying == {"verification_invalidate", "verification_insert", "verify_update"}

\* What most steps of r do: they have nothing to do with verification, and answer if
\* that is all there is left to do.
Quiet(r) ==
    /\ pc[r] \notin Answers
    /\ pc[r] = "respond" => pc'[r] = "ok"
    /\ pc'[r] \notin Verifying
    /\ verification_tokens' = verification_tokens
    /\ now' = now
    /\ \A u \in Emails : Exists(u) => users'[u].email_verified = users[u].email_verified

-----------------------------------------------------------------------------
(***************************************************************************)
(* Quiet steps.                                                            *)
(***************************************************************************)

\* The UPDATEs of users outside verify_email leave email_verified alone.
LEMMA FlagStays ==
    ASSUME TypeOK, References, NEW r \in Requests,
           LoginIncrement(r) \/ LoginRecord(r) \/ ResetUpdate(r) \/ ChangeUpdate(r),
           NEW u \in Emails
    PROVE  users'[u].email_verified = users[u].email_verified
<1>0. users[u] \in UserRow /\ req[r].user \in Emails
  BY RunningUser
     DEF TypeOK, LoginIncrement, LoginRecord, ResetUpdate, ChangeUpdate, Goto, Running
<1>1. CASE LoginIncrement(r)
  <2>1. users'[u] = users[u] \/ users'[u] = FailedAttempt(users[u])
    BY <1>0, <1>1 DEF LoginIncrement, TypeOK
  <2>2. QED
    BY <1>0, <2>1, FailedAttemptKeeps
<1>2. CASE LoginRecord(r)
  BY <1>0, <1>2 DEF LoginRecord, TypeOK, UserRow
<1>3. CASE ResetUpdate(r) \/ ChangeUpdate(r)
  <2> DEFINE n == users[req[r].user].password_changed_at + 1
  <2>1. users' = [users EXCEPT ![req[r].user].password_hash = req[r].password,
                               ![req[r].user].password_changed_at = n]
    BY <1>3 DEF ResetUpdate, ChangeUpdate, UpdatePassword
  <2> HIDE DEF n
  <2>2. QED
    BY <1>0, <2>1 DEF TypeOK, UserRow
<1>4. QED
  BY <1>1, <1>2, <1>3

\* Sessions, passwords and answers have nothing to do with verification.
LEMMA QuietSteps ==
    ASSUME TypeOK, References, NEW r \in Requests,
           \/ Login(r) \/ Refresh(r) \/ Logout(r)
           \/ ForgotPassword(r) \/ ResetPassword(r) \/ ChangePassword(r) \/ Respond(r)
    PROVE  Quiet(r)
<1> USE DEF Verifying, Answers
<1>1. CASE Login(r)
  <2>1. ASSUME NEW u \in Emails, NEW p \in Passwords, LoginFind(r, u, p) PROVE Quiet(r)
    BY <2>1 DEF LoginFind, LoginVerdict, Arrive, TypeOK, tables, Quiet
  <2>2. CASE LoginIncrement(r) \/ LoginRecord(r)
    BY <2>2, FlagStays DEF LoginIncrement, LoginRecord, Goto, TypeOK, Quiet
  <2>3. CASE LoginIssue(r)
    BY <2>3 DEF LoginIssue, GenerateTokens, Goto, TypeOK, Quiet
  <2>4. QED
    BY <1>1, <2>1, <2>2, <2>3 DEF Login
<1>2. CASE Refresh(r)
  <2>1. ASSUME NEW t \in Requests, RefreshFind(r, t) PROVE Quiet(r)
    BY <2>1 DEF RefreshFind, RefreshVerdict, Arrive, TypeOK, tables, Quiet
  <2>2. CASE RefreshUser(r)
    BY <2>2 DEF RefreshUser, Goto, TypeOK, tables, Quiet
  <2>3. CASE RefreshPurge(r) \/ RefreshIssue(r) \/ RefreshRevoke(r)
    BY <2>3 DEF RefreshPurge, RefreshIssue, RefreshRevoke, GenerateTokens, Goto, TypeOK, Quiet
  <2>4. QED
    BY <1>2, <2>1, <2>2, <2>3 DEF Refresh
<1>3. CASE Logout(r)
  BY <1>3 DEF Logout, Arrive, TypeOK, Quiet
<1>4. CASE ForgotPassword(r)
  BY <1>4 DEF ForgotPassword, ForgotFind, ForgotInvalidate, ForgotInsert, Arrive, Goto, TypeOK, tables,
              Quiet
<1>5. CASE ResetPassword(r)
  <2>1. ASSUME NEW t \in Requests, NEW p \in Passwords, ResetFind(r, t, p) PROVE Quiet(r)
    BY <2>1 DEF ResetFind, ResetVerdict, Arrive, TypeOK, tables, Quiet
  <2>2. CASE ResetUpdate(r)
    BY <2>2, FlagStays DEF ResetUpdate, UpdatePassword, Goto, TypeOK, Quiet
  <2>3. CASE ResetMark(r) \/ ResetRevoke(r)
    BY <2>3 DEF ResetMark, ResetRevoke, RevokeSessions, Goto, TypeOK, Quiet
  <2>4. QED
    BY <1>5, <2>1, <2>2, <2>3 DEF ResetPassword
<1>6. CASE ChangePassword(r)
  <2>1. ASSUME NEW u \in Emails, NEW q \in Passwords, NEW p \in Passwords, ChangeFind(r, u, q, p)
        PROVE  Quiet(r)
    BY <2>1 DEF ChangeFind, ChangeVerdict, Arrive, TypeOK, tables, Quiet
  <2>2. CASE ChangeUpdate(r)
    BY <2>2, FlagStays DEF ChangeUpdate, UpdatePassword, Goto, TypeOK, Quiet
  <2>3. CASE ChangeRevoke(r)
    BY <2>3 DEF ChangeRevoke, RevokeSessions, Goto, TypeOK, Quiet
  <2>4. QED
    BY <1>6, <2>1, <2>2, <2>3 DEF ChangePassword
<1>7. CASE Respond(r)
  BY <1>7 DEF Respond, Goto, TypeOK, tables, Quiet
<1>8. QED
  BY <1>1, <1>2, <1>3, <1>4, <1>5, <1>6, <1>7
-----------------------------------------------------------------------------
(***************************************************************************)
(* The steps of verification.                                              *)
(***************************************************************************)

\* The grounds on which r goes on to make or to use a verification token of u.
Grounds(r, u) ==
    \/ pc[r] \in Verifying /\ req[r].user = u
    \/ ~Exists(u)
    \/ HoldsAccess(u) /\ ~users[u].email_verified
    \/ \E t \in Requests : /\ verification_tokens[t].user = u
                           /\ Usable(verification_tokens, t)
                           /\ pc[t] = "ok"

\* What a step of r does to row t of the table: nothing, mark it used, or insert it.
RowStep(r, t) ==
    \/ verification_tokens'[t] = verification_tokens[t]
    \/ verification_tokens'[t].state = "spent" /\ verification_tokens[t].state # "none"
    \/ /\ t = r
       /\ pc[r] = "verification_insert" /\ pc'[r] = "respond"
       /\ verification_tokens'[t].user = req[r].user

\* What any step of r does about verification.
FlagStep(r) ==
    /\ pc[r] \notin Answers
    /\ pc[r] = "respond" => pc'[r] = "ok"
    /\ now' = now
    /\ pc'[r] \in Verifying => Grounds(r, req'[r].user)
    /\ \A t \in Requests : RowStep(r, t)
    /\ \A u \in Emails :
           Exists(u) => \/ users'[u].email_verified = users[u].email_verified
                        \/ pc[r] = "verify_update" /\ req[r].user = u

\* Registering, resending and verifying.
LEMMA RegistrationSteps ==
    ASSUME TypeOK, References, NEW r \in Requests,
           \/ Register(r) \/ CreateEmailVerification(r)
           \/ ResendVerification(r) \/ VerifyEmail(r)
    PROVE  FlagStep(r)
<1> USE DEF Verifying, Answers
<1>1. ASSUME NEW u \in Emails, NEW p \in Passwords, RegisterFind(r, u, p) PROVE FlagStep(r)
  BY <1>1 DEF RegisterFind, RegisterVerdict, Arrive, TypeOK, tables, FlagStep, RowStep
<1>2. CASE RegisterInsert(r)
  <2>1. \A u \in Emails : Exists(u) => users'[u] = users[u]
    BY <1>2 DEF RegisterInsert, Collides, TypeOK
  <2>2. pc'[r] \in Verifying => ~Exists(req'[r].user)
    BY <1>2 DEF RegisterInsert, Goto, Collides, TypeOK
  <2>3. QED
    BY <1>2, <2>1, <2>2 DEF RegisterInsert, Goto, TypeOK, FlagStep, RowStep, Grounds
<1>3. CASE VerificationInvalidate(r)
  <2>1. req'[r].user = req[r].user
    BY <1>3, ExpiryKeeps DEF VerificationInvalidate
  <2>2. \A t \in Requests : RowStep(r, t)
    BY <1>3 DEF VerificationInvalidate, SpendAll, TypeOK, TokenRow, RowStep
  <2>3. QED
    BY <1>3, <2>1, <2>2 DEF VerificationInvalidate, Goto, TypeOK, FlagStep, Grounds
<1>4. CASE VerificationInsert(r)
  <2>1. \A t \in Requests : RowStep(r, t)
    BY <1>4 DEF VerificationInsert, Goto, Insert, TypeOK, RowStep
  <2>2. QED
    BY <1>4, <2>1 DEF VerificationInsert, Goto, TypeOK, FlagStep
<1>5. ASSUME NEW u \in Emails, HoldsAccess(u),
             Arrive(r, "resend_verification", Context("resend_verification", u, None, None, 0),
                    IF users[u].email_verified THEN "ok" ELSE "verification_invalidate"),
             UNCHANGED <<now, tables>>
      PROVE  FlagStep(r)
  <2>1. pc'[r] \in Verifying => ~users[u].email_verified /\ req'[r].user = u
    BY <1>5 DEF Arrive, TypeOK, Context
  <2>2. pc[r] = "idle" /\ UNCHANGED <<now, users, verification_tokens>>
    BY <1>5 DEF Arrive, tables
  <2>3. QED
    BY <1>5, <2>1, <2>2 DEF FlagStep, RowStep, Grounds
<1>6. ASSUME NEW s \in Requests, VerifyFind(r, s) PROVE FlagStep(r)
  <2>1. /\ pc[s] = "ok"
        /\ pc'[r] \in Verifying => /\ Usable(verification_tokens, s)
                                   /\ req'[r].user = verification_tokens[s].user
    BY <1>6 DEF VerifyFind, VerifyVerdict, Arrive, TypeOK, Context, Delivered
  <2>2. pc[r] = "idle" /\ UNCHANGED <<now, users, verification_tokens>>
    BY <1>6 DEF VerifyFind, Arrive, tables
  <2>3. QED
    BY <1>6, <2>1, <2>2 DEF FlagStep, RowStep, Grounds
<1>7. CASE VerifyUpdate(r)
  <2>1. \A u \in Emails : u # req[r].user => users'[u] = users[u]
    BY <1>7 DEF VerifyUpdate, TypeOK
  <2>2. QED
    BY <1>7, <2>1 DEF VerifyUpdate, Goto, TypeOK, FlagStep, RowStep
<1>8. CASE VerifyMark(r)
  <2>1. req[r].token \in Requests /\ verification_tokens[req[r].token].state # "none"
    BY <1>8 DEF VerifyMark, Goto, Running, References, HandlersFit, Fits, Remembered, Presented,
                StepsOf
  <2>2. \A t \in Requests : RowStep(r, t)
    BY <1>8, <2>1 DEF VerifyMark, Spend, TypeOK, TokenRow, RowStep
  <2>3. QED
    BY <1>8, <2>2 DEF VerifyMark, Goto, TypeOK, FlagStep
<1>9. QED
  BY <1>1, <1>2, <1>3, <1>4, <1>5, <1>6, <1>7, <1>8
     DEF Register, CreateEmailVerification, ResendVerification, VerifyEmail

\* So every step of a handler is a FlagStep.
LEMMA ServeFlags ==
    ASSUME TypeOK, References, NEW r \in Requests, Serve(r)
    PROVE  FlagStep(r)
<1>1. Quiet(r) => FlagStep(r)
  BY DEF Quiet, FlagStep, RowStep
<1>2. QED
  BY <1>1, QuietSteps, RegistrationSteps DEF Serve
\* The steps that are not a handler's go nowhere near verification either.
LEMMA OtherFlags ==
    ASSUME TypeOK, References, NEW u \in Emails, Exists(u),
           \/ \E r \in Requests : Fault(r)
           \/ \E v \in Emails, s \in HostStatuses : HostSetsStatus(v, s)
           \/ Tick
           \/ UNCHANGED vars
    PROVE  /\ users'[u].email_verified = users[u].email_verified
           /\ verification_tokens' = verification_tokens
           /\ now' \in {now, now + 1}
           /\ \A r \in Requests : \/ pc'[r] = pc[r] /\ req'[r] = req[r]
                                  \/ pc'[r] = "Database"
<1>1. users[u] \in UserRow
  BY DEF TypeOK
<1>2. ASSUME NEW r \in Requests, Fault(r)
      PROVE  \A c \in Requests : (pc'[c] = pc[c] /\ req'[c] = req[c]) \/ pc'[c] = "Database"
  BY <1>2 DEF Fault, TypeOK
<1>3. ASSUME NEW v \in Emails, NEW s \in HostStatuses, HostSetsStatus(v, s)
      PROVE  users'[u].email_verified = users[u].email_verified
  BY <1>1, <1>3 DEF HostSetsStatus, TypeOK, UserRow
<1>4. QED
  BY <1>2, <1>3 DEF Fault, HostSetsStatus, Tick, tables, vars

-----------------------------------------------------------------------------
(***************************************************************************)
(* The invariant holds.                                                    *)
(***************************************************************************)

LEMMA InitStranded == Init => StrandedInv
<1> SUFFICES ASSUME Init PROVE StrandedInv
  OBVIOUS
<1>1. \A r \in Requests : ~Opening(r) /\ verification_tokens[r].state = "none"
  BY DEF Init, Opening, NoToken
<1>2. ASSUME RequireEmailVerification, NEW t \in Requests, refresh_tokens[t].state # "none"
      PROVE  Carried(refresh_tokens[t].user)
  BY <1>2 DEF Init, NoToken, Carried
<1>3. QED
  BY <1>1, <1>2 DEF StrandedInv, Verified, SessionsAreVerified, HoldersVerified, TokensComeLast,
                    Settled

\* A row of refresh_tokens keeps its account, and a new one is live.
LEMMA HolderStays ==
    ASSUME TypeOK, References, Next, NEW t \in Requests, refresh_tokens'[t].state # "none"
    PROVE  \/ refresh_tokens'[t].state = "live"
           \/ /\ refresh_tokens[t].state # "none"
              /\ refresh_tokens'[t].user = refresh_tokens[t].user
<1>1. refresh_tokens \in [Requests -> TokenRow]
  BY DEF TypeOK
<1>2. ASSUME NEW r \in Requests, GenerateTokens(r), refresh_tokens[r].state = "none"
      PROVE  \/ refresh_tokens'[t].state = "live"
             \/ refresh_tokens'[t] = refresh_tokens[t]
  BY <1>1, <1>2 DEF GenerateTokens, Insert
<1>3. ASSUME NEW s \in Requests, refresh_tokens[s].state # "none",
             refresh_tokens' = Spend(refresh_tokens, s)
      PROVE  /\ refresh_tokens[t].state # "none"
             /\ refresh_tokens'[t].user = refresh_tokens[t].user
  BY <1>1, <1>3 DEF Spend, TokenRow
<1>4. ASSUME NEW u \in Emails, refresh_tokens' = SpendAll(refresh_tokens, u)
      PROVE  /\ refresh_tokens[t].state # "none"
             /\ refresh_tokens'[t].user = refresh_tokens[t].user
  BY <1>1, <1>4 DEF SpendAll, TokenRow
<1>5. QED
  BY <1>2, <1>3, <1>4, RefreshWrites

LEMMA StepHolders ==
    ASSUME TypeOK, References, StrandedInv, Next, SessionsAreVerified'
    PROVE  HoldersVerified'
<1> SUFFICES ASSUME RequireEmailVerification,
                    NEW t \in Requests, refresh_tokens'[t].state # "none",
                    NEW u, u = refresh_tokens'[t].user
             PROVE  Settled(u)'
  BY DEF HoldersVerified, Settled, Carried
<1>1. CASE refresh_tokens'[t].state = "live"
  BY <1>1 DEF SessionsAreVerified, Settled, Carried
<1>2. CASE /\ refresh_tokens[t].state # "none"
           /\ refresh_tokens'[t].user = refresh_tokens[t].user
  <2>1. u \in Emails /\ Exists(u)
    BY <1>2 DEF References, Owned, Account
  <2>2. Settled(u)
    BY <1>2 DEF StrandedInv, HoldersVerified
  <2>3. QED
    BY <2>1, <2>2, SettledStays
<1>3. QED
  BY <1>1, <1>2, HolderStays

LEMMA StepTokensLast ==
    ASSUME TypeOK, References, TokensComeLast, Next
    PROVE  TokensComeLast'
<1> SUFFICES ASSUME NEW t \in Requests, verification_tokens'[t].state # "none"
             PROVE  pc'[t] \in {"respond"} \cup Answers
  BY DEF TokensComeLast
<1>1. ASSUME NEW r \in Requests, Serve(r) PROVE pc'[t] \in {"respond"} \cup Answers
  <2>1. FlagStep(r) /\ RowStep(r, t)
    BY <1>1, ServeFlags DEF FlagStep
  <2>2. t # r => pc'[t] = pc[t]
    BY <1>1, StepChanges DEF ChangesStep
  <2>3. CASE verification_tokens[t].state # "none"
    <3>1. pc[t] \in {"respond"} \cup Answers
      BY <2>3 DEF TokensComeLast
    <3>2. QED
      BY <2>1, <2>2, <3>1 DEF FlagStep, Answers
  <2>4. CASE verification_tokens[t].state = "none"
    BY <2>1, <2>4 DEF RowStep
  <2>5. QED
    BY <2>3, <2>4
<1>2. ASSUME NEW r \in Requests, Fault(r) PROVE pc'[t] \in {"respond"} \cup Answers
  BY <1>2 DEF Fault, TypeOK, TokensComeLast, tables, Answers, Running
<1>3. CASE (\E u \in Emails, s \in HostStatuses : HostSetsStatus(u, s)) \/ Tick
  BY <1>3 DEF HostSetsStatus, Tick, tables, TokensComeLast
<1>4. QED
  BY <1>1, <1>2, <1>3 DEF Next

LEMMA StepStranded == TypeOK /\ References /\ StrandedInv /\ [Next]_vars => StrandedInv'
<1> SUFFICES ASSUME TypeOK, References, StrandedInv, [Next]_vars PROVE StrandedInv'
  OBVIOUS
<1>1. CASE UNCHANGED vars
  BY <1>1 DEF vars, StrandedInv, Verified, SessionsAreVerified, HoldersVerified, TokensComeLast,
              Opening, Settled, Carried
<1>2. CASE Next
  <2>1. Verified' /\ SessionsAreVerified'
    BY <1>2, StepVerified DEF StrandedInv, Verified, SessionsAreVerified
  <2>2. QED
    BY <1>2, <2>1, StepHolders, StepTokensLast DEF StrandedInv
<1>3. QED
  BY <1>1, <1>2

-----------------------------------------------------------------------------
(***************************************************************************)
(* A stranded account stays stranded.                                      *)
(***************************************************************************)

\* A row that still verifies after a step of r did so before, or r has just made it.
LEMMA StillUsable ==
    ASSUME TypeOK, NEW r \in Requests, NEW t \in Requests, RowStep(r, t),
           now' \in {now, now + 1}, Usable(verification_tokens, t)'
    PROVE  \/ /\ Usable(verification_tokens, t)
              /\ verification_tokens'[t].user = verification_tokens[t].user
           \/ /\ t = r /\ pc[r] = "verification_insert"
              /\ verification_tokens'[t].user = req[r].user
<1>1. now \in Nat /\ verification_tokens[t].expires_at \in Int
  BY DEF TypeOK, TokenRow
<1>2. CASE verification_tokens'[t] = verification_tokens[t]
  BY <1>1, <1>2 DEF Usable
<1>3. QED
  BY <1>2 DEF RowStep, Usable

\* No handler gets a stranded account out.
LEMMA ServeStranded ==
    ASSUME TypeOK, References, StrandedInv, NEW r \in Requests, Serve(r),
           NEW u \in Emails, Stranded(u), Exists(u)'
    PROVE  Stranded(u)'
<1> DEFINE Row(t) == verification_tokens[t]
<1>1. FlagStep(r) /\ \A c \in Requests \ {r} : pc'[c] = pc[c] /\ req'[c] = req[c]
  BY ServeFlags, StepChanges DEF ChangesStep
<1>2. /\ RequireEmailVerification /\ Exists(u) /\ ~users[u].email_verified /\ ~Carried(u)
      /\ \A c \in Requests : req[c].user = u => pc[c] \notin Verifying
      /\ \A t \in Requests : Row(t).user = u /\ Usable(verification_tokens, t)
                                 => pc[t] \notin {"respond", "ok"}
  BY DEF Stranded, Verifying
<1>3. ~HoldsAccess(u)
  BY <1>2 DEF HoldsAccess, Delivered, StrandedInv, HoldersVerified, Settled
<1>4. ~Grounds(r, u)
  BY <1>2, <1>3 DEF Grounds
<1>5. users'[u].email_verified = users[u].email_verified
  BY <1>1, <1>2 DEF FlagStep, Verifying
<1>6. ASSUME NEW c \in Requests, req'[c].user = u PROVE pc'[c] \notin Verifying
  BY <1>1, <1>2, <1>4, <1>6 DEF FlagStep
<1>7. ASSUME NEW t \in Requests, Row(t)'.user = u, Usable(verification_tokens, t)'
      PROVE  pc'[t] \notin {"respond", "ok"}
  <2>1. Row(t).user = u /\ Usable(verification_tokens, t)
    BY <1>1, <1>2, <1>7, StillUsable DEF FlagStep, Verifying
  <2>2. pc[t] \notin {"respond", "ok"} /\ pc[t] \in {"respond"} \cup Answers
    BY <1>2, <2>1 DEF StrandedInv, TokensComeLast, Usable
  <2>3. QED
    BY <1>1, <2>2 DEF FlagStep
<1>8. QED
  BY <1>2, <1>5, <1>6, <1>7 DEF Stranded, Verifying, Carried

LEMMA OtherStranded ==
    ASSUME TypeOK, References, NEW u \in Emails, Stranded(u), Exists(u)',
           \/ \E r \in Requests : Fault(r)
           \/ \E v \in Emails, s \in HostStatuses : HostSetsStatus(v, s)
           \/ Tick
           \/ UNCHANGED vars
    PROVE  Stranded(u)'
<1>1. Exists(u) /\ now \in Nat
  BY DEF Stranded, TypeOK
<1>2. \A t \in Requests : verification_tokens[t].expires_at \in Int
  BY DEF TypeOK, TokenRow
<1>3. QED
  BY <1>1, <1>2, OtherFlags DEF Stranded, Usable, Carried

\* The dead end of a registration that is cut short or not followed up in time:
\* neither registering again, logging in, resending nor resetting the password leads
\* out of it, whatever the host does with the status of the account.
THEOREM StrandedHolds == Spec => StrandedForGood
<1>1. TypeOK /\ References /\ StrandedInv /\ [Next]_vars =>
          [\A u \in Emails : Stranded(u) => Stranded(u)']_vars
  <2> SUFFICES ASSUME TypeOK, References, StrandedInv, Next, NEW u \in Emails, Stranded(u)
               PROVE  Stranded(u)'
    OBVIOUS
  <2>1. Exists(u)'
    BY ExistsStays DEF Stranded
  <2>2. QED
    BY <2>1, ServeStranded, OtherStranded DEF Next
<1>2. QED
  BY <1>1, InitStranded, StepStranded, Integrity, PTL DEF Spec, StrandedForGood
=============================================================================
