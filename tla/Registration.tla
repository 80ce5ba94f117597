---------------------------- MODULE Registration ----------------------------
(***************************************************************************)
(* Registration and email verification: service.rs `register',             *)
(* `create_email_verification', `verify_email', and the handlers           *)
(* `register' and `resend_verification' that chain them.                   *)
(***************************************************************************)
EXTENDS AuthStore

(***************************************************************************)
(* POST /auth/register                                                     *)
(***************************************************************************)

RegisterVerdict(u, p) ==
    IF p \notin StrongPasswords THEN "WeakPassword"
    ELSE IF Exists(u) THEN "EmailExists"
    ELSE "register_insert"

\* Check the password, SELECT the account.
RegisterFind(r, u, p) ==
    /\ Arrive(r, "register",
              Context("register", u, None, p, 0),
              RegisterVerdict(u, p))
    /\ UNCHANGED <<now, tables>>

\* Mutant of Collides: users.email is not UNIQUE.
NeverCollides(r) == FALSE

\* The INSERT would give users.email a second row.
Collides(r) == Exists(req[r].user)

\* Mutant of RegisterInsert: the address counts as verified from the start.
RegisterInsertVerified(r) ==
    LET u == req[r].user IN
    /\ Goto(r, "register_insert", IF Collides(r) THEN "Database" ELSE "verification_invalidate")
    /\ users' = IF Collides(r) THEN users
                ELSE [users EXCEPT ![u] = NewUser(req[r].password, "active", TRUE)]
    /\ req' = IF Collides(r) THEN [req EXCEPT ![r] = NoRequest] ELSE req
    /\ UNCHANGED <<now, refresh_tokens, reset_tokens, verification_tokens, minted>>

\* INSERT the account as 'active'; a unique violation is an ordinary database error.
RegisterInsert(r) ==
    LET u == req[r].user IN
    /\ Goto(r, "register_insert", IF Collides(r) THEN "Database" ELSE "verification_invalidate")
    /\ users' = IF Collides(r) THEN users
                ELSE [users EXCEPT ![u] = NewUser(req[r].password, "active", FALSE)]
    /\ req' = IF Collides(r) THEN [req EXCEPT ![r] = NoRequest] ELSE req
    /\ UNCHANGED <<now, refresh_tokens, reset_tokens, verification_tokens, minted>>

\* create_email_verification: fix the expiry, mark the outstanding tokens used ...
VerificationInvalidate(r) ==
    /\ Goto(r, "verification_invalidate", "verification_insert")
    /\ req' = [req EXCEPT ![r].expires = now + VerifyTTL]
    /\ verification_tokens' = SpendAll(verification_tokens, req[r].user)
    /\ UNCHANGED <<now, users, refresh_tokens, reset_tokens, minted>>

\* ... and INSERT the new one.
VerificationInsert(r) ==
    /\ Goto(r, "verification_insert", "respond")
    /\ verification_tokens' = Insert(verification_tokens, r, req[r].user, req[r].expires)
    /\ UNCHANGED <<now, users, refresh_tokens, reset_tokens, req, minted>>

\* Both callers of create_email_verification run these two statements.
CreateEmailVerification(r) == VerificationInvalidate(r) \/ VerificationInsert(r)

Register(r) ==
    \/ \E u \in Emails, p \in Passwords : RegisterFind(r, u, p)
    \/ RegisterInsert(r)

-----------------------------------------------------------------------------
(***************************************************************************)
(* POST /auth/resend-verification                                          *)
(***************************************************************************)

\* require_auth, then get_user; a verified account gets no further token.
ResendVerification(r) ==
    \E u \in Emails :
        /\ HoldsAccess(u)
        /\ Arrive(r, "resend_verification",
                  Context("resend_verification", u, None, None, 0),
                  IF users[u].email_verified THEN "ok" ELSE "verification_invalidate")
        /\ UNCHANGED <<now, tables>>

-----------------------------------------------------------------------------
(***************************************************************************)
(* POST /auth/verify-email                                                 *)
(***************************************************************************)

\* Mutant of VerifyVerdict: used tokens are not excluded.
VerifyVerdictUsed(t) ==
    IF verification_tokens[t].expires_at > now THEN "verify_update" ELSE "InvalidToken"

VerifyVerdict(t) == IF Usable(verification_tokens, t) THEN "verify_update" ELSE "InvalidToken"

\* SELECT the token.
VerifyFind(r, t) ==
    /\ Delivered(verification_tokens, t)
    /\ Arrive(r, "verify_email",
              Context("verify_email", verification_tokens[t].user, t, None, 0),
              VerifyVerdict(t))
    /\ UNCHANGED <<now, tables>>

\* The account becomes 'active' whatever its status was.
VerifyUpdate(r) ==
    /\ Goto(r, "verify_update", "verify_mark")
    /\ users' = [users EXCEPT ![req[r].user].email_verified = TRUE,
                              ![req[r].user].status = "active"]
    /\ UNCHANGED <<now, refresh_tokens, reset_tokens, verification_tokens, req, minted>>

\* Mutant of VerifyMark: whoever verifies an address is signed in.
VerifyMarkSignsIn(r) ==
    /\ Goto(r, "verify_mark", "login_issue")
    /\ verification_tokens' = Spend(verification_tokens, req[r].token)
    /\ UNCHANGED <<now, users, refresh_tokens, reset_tokens, req, minted>>

VerifyMark(r) ==
    /\ Goto(r, "verify_mark", "ok")
    /\ verification_tokens' = Spend(verification_tokens, req[r].token)
    /\ UNCHANGED <<now, users, refresh_tokens, reset_tokens, req, minted>>

VerifyEmail(r) ==
    \/ \E t \in Requests : VerifyFind(r, t)
    \/ VerifyUpdate(r)
    \/ VerifyMark(r)
=============================================================================
