----------------------------- MODULE Passwords ------------------------------
(***************************************************************************)
(* Forgotten, reset and changed passwords: service.rs `forgot_password',   *)
(* `reset_password' and `change_password'.                                 *)
(***************************************************************************)
EXTENDS AuthStore

(***************************************************************************)
(* POST /auth/forgot-password                                              *)
(***************************************************************************)

\* SELECT the account; an unknown address is answered like a known one.
ForgotFind(r, u) ==
    /\ Arrive(r, "forgot_password",
              Context("forgot_password", u, None, None, 0),
              IF Exists(u) THEN "forgot_invalidate" ELSE "ok")
    /\ UNCHANGED <<now, tables>>

\* Fix the expiry of the new token, mark the outstanding ones used.
ForgotInvalidate(r) ==
    /\ Goto(r, "forgot_invalidate", "forgot_insert")
    /\ req' = [req EXCEPT ![r].expires = now + ResetTTL]
    /\ reset_tokens' = SpendAll(reset_tokens, req[r].user)
    /\ UNCHANGED <<now, users, refresh_tokens, verification_tokens, minted>>

ForgotInsert(r) ==
    /\ Goto(r, "forgot_insert", "respond")
    /\ reset_tokens' = Insert(reset_tokens, r, req[r].user, req[r].expires)
    /\ UNCHANGED <<now, users, refresh_tokens, verification_tokens, req, minted>>

ForgotPassword(r) ==
    \/ \E u \in Emails : ForgotFind(r, u)
    \/ ForgotInvalidate(r)
    \/ ForgotInsert(r)

-----------------------------------------------------------------------------
(***************************************************************************)
(* POST /auth/reset-password                                               *)
(***************************************************************************)

\* The UPDATE of users in reset_password and change_password.
UpdatePassword(r) ==
    LET u == req[r].user
        n == users[u].password_changed_at + 1 IN
    /\ users' = [users EXCEPT ![u].password_hash = req[r].password,
                              ![u].password_changed_at = n]
    /\ req' = [req EXCEPT ![r].epoch = n]
    /\ UNCHANGED <<now, refresh_tokens, reset_tokens, verification_tokens, minted>>

\* revoke_all_tokens as the last statement of a handler.
RevokeSessions(r, here) ==
    /\ Goto(r, here, "ok")
    /\ refresh_tokens' = SpendAll(refresh_tokens, req[r].user)
    /\ UNCHANGED <<now, users, reset_tokens, verification_tokens, req, minted>>

\* Mutant of ResetVerdict: used tokens are not excluded.
ResetVerdictUsed(t, p) ==
    IF p \notin StrongPasswords THEN "WeakPassword"
    ELSE IF reset_tokens[t].expires_at <= now THEN "InvalidToken"
    ELSE "reset_update"

ResetVerdict(t, p) ==
    IF p \notin StrongPasswords THEN "WeakPassword"
    ELSE IF ~Usable(reset_tokens, t) THEN "InvalidToken"
    ELSE "reset_update"

\* Mutant of ResetFind: the account is the one that the request names.
ResetFindNamed(r, t, p) ==
    /\ Delivered(reset_tokens, t)
    /\ \E u \in Emails :
           Exists(u) /\ Arrive(r, "reset_password",
                                Context("reset_password", u, t, p, 0), ResetVerdict(t, p))
    /\ UNCHANGED <<now, tables>>

\* Check the new password, SELECT the token.
ResetFind(r, t, p) ==
    /\ Delivered(reset_tokens, t)
    /\ Arrive(r, "reset_password",
              Context("reset_password", reset_tokens[t].user, t, p, 0),
              ResetVerdict(t, p))
    /\ UNCHANGED <<now, tables>>

ResetUpdate(r) ==
    /\ Goto(r, "reset_update", "reset_mark")
    /\ UpdatePassword(r)

ResetMark(r) ==
    /\ Goto(r, "reset_mark", "reset_revoke")
    /\ reset_tokens' = Spend(reset_tokens, req[r].token)
    /\ UNCHANGED <<now, users, refresh_tokens, verification_tokens, req, minted>>

ResetRevoke(r) == RevokeSessions(r, "reset_revoke")

ResetPassword(r) ==
    \/ \E t \in Requests, p \in Passwords : ResetFind(r, t, p)
    \/ ResetUpdate(r)
    \/ ResetMark(r)
    \/ ResetRevoke(r)

-----------------------------------------------------------------------------
(***************************************************************************)
(* POST /auth/change-password                                              *)
(***************************************************************************)

ChangeVerdict(u, current, p) ==
    IF users[u].password_hash # current THEN "InvalidCredentials"
    ELSE IF p \notin StrongPasswords THEN "WeakPassword"
    ELSE "change_update"

\* require_auth, SELECT the account, check the current and the new password.
ChangeFind(r, u, current, p) ==
    /\ HoldsAccess(u)
    /\ Arrive(r, "change_password",
              Context("change_password", u, None, p, 0),
              ChangeVerdict(u, current, p))
    /\ UNCHANGED <<now, tables>>

ChangeUpdate(r) ==
    /\ Goto(r, "change_update", "change_revoke")
    /\ UpdatePassword(r)

ChangeRevoke(r) == RevokeSessions(r, "change_revoke")

ChangePassword(r) ==
    \/ \E u \in Emails, current, p \in Passwords : ChangeFind(r, u, current, p)
    \/ ChangeUpdate(r)
    \/ ChangeRevoke(r)
=============================================================================
