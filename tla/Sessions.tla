------------------------------ MODULE Sessions ------------------------------
(***************************************************************************)
(* Login, token refresh and logout: service.rs `login', `refresh_tokens',  *)
(* `logout' and the two UPDATEs of the lockout counter.                    *)
(***************************************************************************)
EXTENDS AuthStore

(***************************************************************************)
(* POST /auth/login                                                        *)
(***************************************************************************)

\* Mutant of LoginVerdict: email verification is not asked for.
LoginVerdictUnverified(u, p) ==
    IF ~Exists(u) THEN "InvalidCredentials"
    ELSE IF IsLocked(u) THEN "AccountLocked"
    ELSE IF users[u].status # "active" THEN "AccountNotActive"
    ELSE IF users[u].password_hash # p THEN "login_increment"
    ELSE "login_record"

\* Mutant of LoginVerdict: the lock is not looked at.
LoginVerdictUnlocked(u, p) ==
    IF ~Exists(u) THEN "InvalidCredentials"
    ELSE IF users[u].status # "active" THEN "AccountNotActive"
    ELSE IF users[u].password_hash # p THEN "login_increment"
    ELSE "login_record"

\* Mutant of LoginVerdict: the password is tried before the lock is looked at.
LoginVerdictEager(u, p) ==
    IF ~Exists(u) THEN "InvalidCredentials"
    ELSE IF users[u].password_hash # p THEN "login_increment"
    ELSE IF IsLocked(u) THEN "AccountLocked"
    ELSE IF users[u].status # "active" THEN "AccountNotActive"
    ELSE IF RequireEmailVerification /\ ~users[u].email_verified THEN "EmailNotVerified"
    ELSE "login_record"

\* The early returns of login, in order, on the row it has read.  Verifying the
\* password needs nothing but that row.
LoginVerdict(u, p) ==
    IF ~Exists(u) THEN "InvalidCredentials"
    ELSE IF IsLocked(u) THEN "AccountLocked"
    ELSE IF users[u].status # "active" THEN "AccountNotActive"
    ELSE IF users[u].password_hash # p THEN "login_increment"
    ELSE IF RequireEmailVerification /\ ~users[u].email_verified THEN "EmailNotVerified"
    ELSE "login_record"

\* SELECT the account, then every check login makes on the row.
LoginFind(r, u, p) ==
    /\ Arrive(r, "login",
              Context("login", u, None, None, users[u].password_changed_at),
              LoginVerdict(u, p))
    /\ UNCHANGED <<now, tables>>

\* Mutant of FailedAttempt: the threshold is off by one.
FailedAttemptLate(row) ==
    LET n == row.failed_login_attempts + 1 IN
    [row EXCEPT !.failed_login_attempts = n,
                !.locked_until = IF n > MaxLoginAttempts THEN now + LockoutDuration ELSE @]

\* Mutant of FailedAttempt: the lock is set at the limit and written over beyond it.
FailedAttemptExact(row) ==
    LET n == row.failed_login_attempts + 1 IN
    [row EXCEPT !.failed_login_attempts = n,
                !.locked_until = IF n = MaxLoginAttempts THEN now + LockoutDuration ELSE None]

\* Mutant of FailedAttempt: attempts are counted down.
FailedAttemptMinus(row) ==
    [row EXCEPT !.failed_login_attempts = @ - 1]

\* The UPDATE of increment_failed_attempts.
FailedAttempt(row) ==
    LET n == row.failed_login_attempts + 1 IN
    [row EXCEPT !.failed_login_attempts = n,
                !.locked_until = IF n >= MaxLoginAttempts THEN now + LockoutDuration ELSE @]

LoginIncrement(r) ==
    /\ Goto(r, "login_increment", "InvalidCredentials")
    /\ users' = [users EXCEPT ![req[r].user] = FailedAttempt(@)]
    /\ req' = [req EXCEPT ![r] = NoRequest]
    /\ UNCHANGED <<now, refresh_tokens, reset_tokens, verification_tokens, minted>>

\* Mutant of LoginRecord: the row is saved as a whole as it was read; an epoch of 0 says
\* that it was read with its first password.
LoginRecordWhole(r) ==
    /\ Goto(r, "login_record", "login_issue")
    /\ users' = [users EXCEPT ![req[r].user].failed_login_attempts = 0,
                              ![req[r].user].locked_until = None,
                              ![req[r].user].password_hash =
                                  IF req[r].epoch = 0 THEN FirstPassword ELSE @]
    /\ UNCHANGED <<now, refresh_tokens, reset_tokens, verification_tokens, req, minted>>

\* The UPDATE of record_successful_login.
LoginRecord(r) ==
    /\ Goto(r, "login_record", "login_issue")
    /\ users' = [users EXCEPT ![req[r].user].failed_login_attempts = 0,
                              ![req[r].user].locked_until = None]
    /\ UNCHANGED <<now, refresh_tokens, reset_tokens, verification_tokens, req, minted>>

\* generate_access_token and generate_refresh_token: one INSERT.
GenerateTokens(r) ==
    /\ refresh_tokens' = Insert(refresh_tokens, r, req[r].user, now + RefreshTTL)
    /\ minted' = [minted EXCEPT ![r] = [auth |-> req[r].epoch,
                                        wrote |-> users[req[r].user].password_changed_at]]
    /\ UNCHANGED <<now, users, reset_tokens, verification_tokens, req>>

LoginIssue(r) ==
    /\ Goto(r, "login_issue", "respond")
    /\ GenerateTokens(r)

Login(r) ==
    \/ \E u \in Emails, p \in Passwords : LoginFind(r, u, p)
    \/ LoginIncrement(r)
    \/ LoginRecord(r)
    \/ LoginIssue(r)

-----------------------------------------------------------------------------
(***************************************************************************)
(* POST /auth/refresh                                                      *)
(***************************************************************************)

\* The JWT half of refresh token t still decodes.
JwtDecodes(t) == now <= refresh_tokens[t].expires_at + Leeway

\* Mutant of RefreshVerdict: a revoked token is taken for a valid one.
RefreshVerdictRevoked(t) ==
    IF ~JwtDecodes(t) THEN "InvalidToken"
    ELSE IF refresh_tokens[t].expires_at < now THEN "TokenRevoked"
    ELSE "refresh_user"

\* The early returns of refresh_tokens on the row it has read; a revoked token,
\* expired or not, is a reuse.
RefreshVerdict(t) ==
    IF ~JwtDecodes(t) THEN "InvalidToken"
    ELSE IF refresh_tokens[t].state = "spent" THEN "refresh_purge"
    ELSE IF refresh_tokens[t].expires_at < now THEN "TokenRevoked"
    ELSE "refresh_user"

\* Decode the JWT, SELECT the token, check it.
RefreshFind(r, t) ==
    /\ Delivered(refresh_tokens, t)
    /\ Arrive(r, "refresh",
              Context("refresh", refresh_tokens[t].user, t, None, minted[t].auth),
              RefreshVerdict(t))
    /\ UNCHANGED <<now, tables>>

\* Reuse detected: revoke_all_tokens.
RefreshPurge(r) ==
    /\ Goto(r, "refresh_purge", "TokenRevoked")
    /\ refresh_tokens' = SpendAll(refresh_tokens, req[r].user)
    /\ req' = [req EXCEPT ![r] = NoRequest]
    /\ UNCHANGED <<now, users, reset_tokens, verification_tokens, minted>>

\* Mutant of RefreshUser: the account is read and not checked.
RefreshUserUnchecked(r) ==
    /\ Goto(r, "refresh_user", "refresh_issue")
    /\ UNCHANGED <<now, tables, req>>

\* SELECT the account and check can_login.
RefreshUser(r) ==
    /\ Goto(r, "refresh_user",
            IF CanLogin(req[r].user) THEN "refresh_issue" ELSE "AccountNotActive")
    /\ req' = IF CanLogin(req[r].user) THEN req ELSE [req EXCEPT ![r] = NoRequest]
    /\ UNCHANGED <<now, tables>>

RefreshIssue(r) ==
    /\ Goto(r, "refresh_issue", "refresh_revoke")
    /\ GenerateTokens(r)

\* Mutant of RefreshRevoke: the new token's row is revoked, not the old one's.
RefreshRevokeNew(r) ==
    /\ Goto(r, "refresh_revoke", "respond")
    /\ refresh_tokens' = Spend(refresh_tokens, r)
    /\ UNCHANGED <<now, users, reset_tokens, verification_tokens, req, minted>>

\* Revoke the token that was presented.
RefreshRevoke(r) ==
    /\ Goto(r, "refresh_revoke", "respond")
    /\ refresh_tokens' = Spend(refresh_tokens, req[r].token)
    /\ UNCHANGED <<now, users, reset_tokens, verification_tokens, req, minted>>

Refresh(r) ==
    \/ \E t \in Requests : RefreshFind(r, t)
    \/ RefreshPurge(r)
    \/ RefreshUser(r)
    \/ RefreshIssue(r)
    \/ RefreshRevoke(r)

-----------------------------------------------------------------------------
(***************************************************************************)
(* POST /auth/logout                                                       *)
(***************************************************************************)

\* Neither the row nor the random half of the token is looked at: the UPDATE goes
\* by the id in the JWT.
Logout(r) ==
    \E t \in Requests :
        /\ Delivered(refresh_tokens, t)
        /\ Arrive(r, "logout", NoRequest, IF JwtDecodes(t) THEN "ok" ELSE "InvalidToken")
        /\ refresh_tokens' = IF JwtDecodes(t) THEN Spend(refresh_tokens, t) ELSE refresh_tokens
        /\ UNCHANGED <<now, users, reset_tokens, verification_tokens, minted>>
=============================================================================
