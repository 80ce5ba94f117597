---------------------------- MODULE AuthService -----------------------------
(***************************************************************************)
(* The authentication service: any number of requests served at the same   *)
(* time against one database, the clock, and the host application, which   *)
(* shares the database and administers accounts.                           *)
(***************************************************************************)
EXTENDS Sessions, Passwords, Registration

\* The host application writes users.status: nothing in the plugin suspends,
\* deletes or restores an account.
HostSetsStatus(u, s) ==
    /\ Exists(u)
    /\ users[u].status # s
    /\ users' = [users EXCEPT ![u].status = s]
    /\ UNCHANGED <<now, refresh_tokens, reset_tokens, verification_tokens, pc, req, minted>>

\* Time passes.
Tick ==
    /\ now < MaxTime
    /\ now' = now + 1
    /\ UNCHANGED <<tables, pc, req>>

\* One step of the handler of r.
Serve(r) ==
    \/ Login(r) \/ Refresh(r) \/ Logout(r)
    \/ ForgotPassword(r) \/ ResetPassword(r) \/ ChangePassword(r)
    \/ Register(r) \/ CreateEmailVerification(r) \/ ResendVerification(r) \/ VerifyEmail(r)
    \/ Respond(r)

Next ==
    \/ \E r \in Requests : Serve(r) \/ Fault(r)
    \/ \E u \in Emails, s \in HostStatuses : HostSetsStatus(u, s)
    \/ Tick

Spec == Init /\ [][Next]_vars

\* A handler that has started goes on: tokio polls every task that is ready and
\* the database answers every statement.  Nobody has to send a request.
Fairness == \A r \in Requests : WF_vars(pc[r] # "idle" /\ Serve(r))
FairSpec == Spec /\ Fairness

-----------------------------------------------------------------------------
(***************************************************************************)
(* Safety.                                                                 *)
(***************************************************************************)

\* A refresh that has been answered has spent the token it was given: nobody who
\* finds that token later gets past refresh_tokens' check.
RotationRetiresOldToken ==
    \A r \in Requests :
        req[r].op = "refresh" /\ pc[r] \in {"respond", "ok"}
            => refresh_tokens[req[r].token].state = "spent"

\* Once a password change or reset is answered, every refresh token that was in the
\* database when the password changed is revoked, whatever ran in between.
PasswordChangeEndsSessions ==
    \A c, t \in Requests :
        /\ req[c].op \in {"change_password", "reset_password"}
        /\ pc[c] = "ok"
        /\ refresh_tokens[t].state = "live"
        /\ refresh_tokens[t].user = req[c].user
        => minted[t].wrote >= req[c].epoch

\* Request c has updated the password of its account.
HasChanged(c) ==
    /\ req[c].op \in {"change_password", "reset_password"}
    /\ pc[c] \in {"change_revoke", "reset_mark", "reset_revoke", "ok"}

\* The password of an account is the one that its last change or reset has set: of several
\* at the same time the last UPDATE wins, also between tokens or sessions of one account,
\* and no handler under way writes back a row it read before.
LastChangeStands ==
    \A c \in Requests :
        HasChanged(c) /\ req[c].epoch = users[req[c].user].password_changed_at =>
            users[req[c].user].password_hash = req[c].password

\* The account has sessions from before the model starts, when verification may not
\* have been required.
Carried(u) == \E s \in Requests : Prior[s] = u

\* With REQUIRE_EMAIL_VERIFICATION on, an account that has a live session has verified
\* its address, or was signed in before the flag was turned on: refresh_tokens never
\* asks, so those sessions go on, but no other account joins them.
SessionsAreVerified ==
    RequireEmailVerification =>
        \A t \in Requests :
            refresh_tokens[t].state = "live" =>
                \/ users[refresh_tokens[t].user].email_verified
                \/ Carried(refresh_tokens[t].user)

\* locked_until is set exactly while the counter is at or over the limit, whatever
\* order concurrent failures and successes commit in.
LockMatchesCounter ==
    \A u \in Emails :
        LET n == users[u].failed_login_attempts IN
        users[u].locked_until # None <=> n > 0 /\ n >= MaxLoginAttempts

\* Of the registrations of an address at most one creates the account, though each
\* may have found the address free.
OneAccountPerEmail ==
    LET Created == {r \in Requests : req[r].op = "register" /\ pc[r] # "register_insert"} IN
    \A r1, r2 \in Created : req[r1].user = req[r2].user => r1 = r2

-----------------------------------------------------------------------------
(***************************************************************************)
(* Where authority comes from.                                             *)
(***************************************************************************)

\* Every refresh token a client holds goes back to a login: none of the other endpoints
\* signs anybody in, and refreshing never changes whose session it is.
SessionsBeginWithLogin ==
    \A t \in Requests :
        Delivered(refresh_tokens, t) =>
            \E s \in Requests :
                /\ req[s].op = "login" /\ Delivered(refresh_tokens, s)
                /\ refresh_tokens[s].user = refresh_tokens[t].user

\* An address that registered here is verified only if a verification token of that
\* very account has been handed out.
VerifiedAddressesHadTheToken ==
    \A u \in Emails \ Registered :
        Exists(u) /\ users[u].email_verified =>
            \E t \in Requests :
                Delivered(verification_tokens, t) /\ verification_tokens[t].user = u

\* The password of an account has been changed only if a session or a reset token of
\* that very account has been handed out.
ChangedPasswordsHadAHolder ==
    \A u \in Emails :
        users[u].password_changed_at > 0 =>
            \E t \in Requests :
                \/ Delivered(refresh_tokens, t) /\ refresh_tokens[t].user = u
                \/ Delivered(reset_tokens, t) /\ reset_tokens[t].user = u

-----------------------------------------------------------------------------
(***************************************************************************)
(* What a step may never do.                                               *)
(***************************************************************************)

\* Requests of u that have got past the check of the account.
Admitted(u) ==
    {r \in Requests : /\ req[r].user = u
                      /\ pc[r] \in {"login_increment", "login_record", "login_issue",
                                    "refresh_issue", "refresh_revoke"}}

\* While an account is locked, suspended, pending or deleted, login tries its password
\* for no further request and no further request gets to open a session: not even a
\* refresh that found its token good before.  (change_password does not ask.)
BarredAccountAdmitsNoOne ==
    [][\A u \in Emails : Exists(u) /\ ~CanLogin(u) => Admitted(u)' \subseteq Admitted(u)]_vars

\* A lock in force ends by running out or by a login whose password had been found
\* right before; no other step lifts or shortens it.
LockRunsItsCourse ==
    [][\A u \in Emails :
           IsLocked(u) /\ users'[u].locked_until # users[u].locked_until =>
               \/ \E r \in Requests : /\ req[r].user = u
                                      /\ pc[r] = "login_record" /\ pc'[r] = "login_issue"
               \/ users'[u].locked_until # None /\ users'[u].locked_until >= users[u].locked_until]_vars

\* Nothing under way can still verify the address of u: its verification token was
\* never made, never delivered, or has run out, and no session from before can ask for
\* another.
Stranded(u) ==
    /\ RequireEmailVerification /\ Exists(u) /\ ~users[u].email_verified /\ ~Carried(u)
    /\ \A r \in Requests :
           req[r].user = u =>
               pc[r] \notin {"verification_invalidate", "verification_insert", "verify_update"}
    /\ \A t \in Requests :
           verification_tokens[t].user = u /\ Usable(verification_tokens, t) =>
               pc[t] \notin {"respond", "ok"}

\* The dead end of a registration that is cut short (or not followed up in time): the
\* account stays, nobody can verify its address any more, and neither registering
\* again, logging in, resending nor resetting the password leads out of it.
StrandedForGood == [][\A u \in Emails : Stranded(u) => Stranded(u)']_vars

-----------------------------------------------------------------------------
(***************************************************************************)
(* The token tables implement TokenLedger.                                 *)
(***************************************************************************)

\* Requests admitted with token t of the table that serves endpoint op.
Bearing(op, t) ==
    {r \in Requests : req[r].op = op /\ req[r].token = t /\ pc[r] # "refresh_purge"}

RefreshLedger ==
    INSTANCE TokenLedger WITH Tokens <- Requests, Users <- Emails, Bearers <- Requests,
        clock <- now, rows <- refresh_tokens,
        bearers <- [t \in Requests |-> Bearing("refresh", t)]
ResetLedger ==
    INSTANCE TokenLedger WITH Tokens <- Requests, Users <- Emails, Bearers <- Requests,
        clock <- now, rows <- reset_tokens,
        bearers <- [t \in Requests |-> Bearing("reset_password", t)]
VerificationLedger ==
    INSTANCE TokenLedger WITH Tokens <- Requests, Users <- Emails, Bearers <- Requests,
        clock <- now, rows <- verification_tokens,
        bearers <- [t \in Requests |-> Bearing("verify_email", t)]

RefreshTokensAreOneShot == RefreshLedger!Spec
ResetTokensAreOneShot == ResetLedger!Spec
VerificationTokensAreOneShot == VerificationLedger!Spec

-----------------------------------------------------------------------------
(***************************************************************************)
(* The lockout columns of users implement AccountLock.                     *)
(***************************************************************************)

\* Logins of u that have tried the password and not yet written the outcome.
Trying(u) ==
    {r \in Requests : req[r].user = u /\ pc[r] \in {"login_increment", "login_record"}}

Lockout ==
    INSTANCE AccountLock WITH Users <- Emails, Attempts <- Requests,
        Limit <- MaxLoginAttempts, Duration <- LockoutDuration, clock <- now,
        failures <- [u \in Emails |-> users[u].failed_login_attempts],
        until <- [u \in Emails |-> users[u].locked_until],
        trying <- [u \in Emails |-> Trying(u)],
        fresh <- {r \in Requests : pc[r] = "idle"}

\* Logins, and nothing else the service does, count failures and lock accounts the
\* way AccountLock says: only those let in while there was no lock, each once.
AccountsLockOut == Lockout!Spec

-----------------------------------------------------------------------------
(***************************************************************************)
(* What must happen in the end (under FairSpec, when no handler is cut     *)
(* short).                                                                 *)
(***************************************************************************)

\* When a handler has decided to end a user's sessions (a revoked refresh token came
\* back, or the password is about to change), every session the user then has ends.
RevocationLands ==
    \A r, t \in Requests :
        (/\ pc[r] \in {"refresh_purge", "reset_update", "change_update"}
         /\ refresh_tokens[t].state = "live"
         /\ refresh_tokens[t].user = req[r].user)
            ~> refresh_tokens[t].state = "spent"

-----------------------------------------------------------------------------
(***************************************************************************)
(* What the repository says of the program and the program does not keep.  *)
(***************************************************************************)

\* handlers.rs, change_password: "Password changed successfully. Please login again
\* on all devices."  No session opened with an earlier password is left.
LoginAgainOnAllDevices ==
    \A c, t \in Requests :
        /\ req[c].op = "change_password"
        /\ pc[c] = "ok"
        /\ refresh_tokens[t].state = "live"
        /\ refresh_tokens[t].user = req[c].user
        => minted[t].auth >= req[c].epoch

\* tests/refresh_rotation.rs: "rotated token cannot be reused (TokenRevoked)".  No
\* two requests are answered with new tokens for the same old one.
RotatedTokenIsNotReused ==
    \A r1, r2 \in Requests :
        /\ req[r1].op = "refresh" /\ pc[r1] = "ok"
        /\ req[r2].op = "refresh" /\ pc[r2] = "ok"
        /\ req[r1].token = req[r2].token
        => r1 = r2

\* tests/lockout.rs: "after locked_until passes, login proceeds (and starts a fresh
\* count)".  The first wrong password after a lock has run out counts as the first.
FreshCountAfterLock ==
    [][\A u \in Emails :
           /\ users[u].locked_until # None /\ ~IsLocked(u)
           /\ users'[u].failed_login_attempts > users[u].failed_login_attempts
           => users'[u].failed_login_attempts = 1]_vars
=============================================================================
