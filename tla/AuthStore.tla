------------------------------ MODULE AuthStore ------------------------------
(***************************************************************************)
(* The shared state of the authentication service: the four PostgreSQL     *)
(* tables, the clock, and the HTTP requests being served.  A request is    *)
(* served by one async handler; every SQL statement it awaits commits on   *)
(* its own, so a handler is a sequence of atomic steps between which other *)
(* handlers run.  The modules Sessions, Passwords and Registration define  *)
(* the steps of the handlers on this state, AuthService composes them.     *)
(*                                                                         *)
(* A row of a token table is identified by the request that inserts it:    *)
(* no request inserts more than one row into a table.                      *)
(***************************************************************************)
EXTENDS Integers

CONSTANTS
    Emails,             \* addresses; users.email is UNIQUE, so they stand for user ids
    Passwords,          \* passwords that clients send
    StrongPasswords,    \* those validate_password accepts
    Requests,           \* HTTP requests, each arriving at most once
    None,               \* SQL NULL, and "no value"
    AccessTTL,          \* access_token_expiration
    RefreshTTL,         \* refresh_token_expiration
    ResetTTL,           \* password_reset_expiration
    VerifyTTL,          \* email_verification_expiration
    LockoutDuration,    \* lockout_duration
    MaxLoginAttempts,   \* max_login_attempts
    RequireEmailVerification,
    Leeway,             \* seconds by which jsonwebtoken extends every exp
    Registered,         \* accounts that exist when the model starts
    FirstVerified,      \* those of them whose address is verified
    FirstPassword,      \* their password
    Prior,              \* Prior[r] = u: r is a finished login of u; None: r is yet to come
    Endpoints,          \* endpoints that clients call
    HostStatuses,       \* statuses the host application may write into users.status
    Faults,             \* whether a handler may be cut short
    MaxTime             \* bound on the clock

\* What AuthConfig::validate enforces; it accepts any other number, also negative ones.
ASSUME ConfigAssumption ==
    /\ AccessTTL \in Int /\ AccessTTL > 0
    /\ RefreshTTL \in Int /\ RefreshTTL > AccessTTL
    /\ {ResetTTL, VerifyTTL, LockoutDuration, MaxLoginAttempts} \subseteq Int
    /\ RequireEmailVerification \in BOOLEAN
    /\ Leeway \in Nat

Statuses == {"pending", "active", "suspended", "deleted"}

AllEndpoints == {"login", "refresh", "logout", "register", "verify_email",
                 "resend_verification", "forgot_password", "reset_password",
                 "change_password"}

\* The accounts and sessions the model starts with.
ASSUME PopulationAssumption ==
    /\ StrongPasswords \subseteq Passwords
    /\ FirstPassword \in StrongPasswords
    /\ Registered \subseteq Emails /\ FirstVerified \subseteq Registered
    /\ Prior \in [Requests -> Registered \cup {None}]
    /\ Endpoints \subseteq AllEndpoints
    /\ HostStatuses \subseteq Statuses
    /\ Faults \in BOOLEAN
    /\ MaxTime \in Nat

\* None is none of the values it is used beside.
ASSUME NoneAssumption == None \notin (Emails \cup Passwords \cup Requests \cup Int)

VARIABLES
    now,                   \* the clock of the server and of the database
    users,                 \* table users
    refresh_tokens,        \* table refresh_tokens
    reset_tokens,          \* table password_reset_tokens
    verification_tokens,   \* table email_verification_tokens
    pc,                    \* pc[r]: the next step of the handler of r, or its answer
    req,                   \* req[r]: what that handler remembers
    minted                 \* history: password ages behind each refresh token

tables == <<users, refresh_tokens, reset_tokens, verification_tokens, minted>>
vars == <<now, users, refresh_tokens, reset_tokens, verification_tokens, pc, req, minted>>

-----------------------------------------------------------------------------
(***************************************************************************)
(* Rows.                                                                   *)
(***************************************************************************)

\* password_hash is the password it verifies.  password_changed_at counts the
\* updates of the column, each of which moves it to a later NOW().
UserRow == [status: Statuses \cup {"absent"}, password_hash: Passwords,
            email_verified: BOOLEAN, failed_login_attempts: Nat,
            locked_until: Int \cup {None}, password_changed_at: Nat]

NewUser(p, status, verified) ==
    [status |-> status, password_hash |-> p, email_verified |-> verified,
     failed_login_attempts |-> 0, locked_until |-> None, password_changed_at |-> 0]

\* "spent" is revoked_at (refresh_tokens) or used_at (the other two) not NULL.
TokenRow == [state: {"none", "live", "spent"}, user: Emails \cup {None}, expires_at: Int]
NoToken == [state |-> "none", user |-> None, expires_at |-> 0]

\* User::is_locked and User::can_login.
IsLocked(u) == users[u].locked_until # None /\ users[u].locked_until > now
CanLogin(u) == users[u].status = "active" /\ ~IsLocked(u)

\* A row of users has this email.
Exists(u) == users[u].status # "absent"

-----------------------------------------------------------------------------
(***************************************************************************)
(* Statements on a token table.                                            *)
(***************************************************************************)

\* INSERT of the row of request r.
Insert(table, r, u, exp) ==
    [table EXCEPT ![r] = [state |-> "live", user |-> u, expires_at |-> exp]]

\* UPDATE ... SET revoked_at / used_at = NOW() WHERE id = t.
Spend(table, t) == [table EXCEPT ![t].state = "spent"]

\* Mutant of SpendAll: the revocation is not executed.
SpendNone(table, u) == table

\* UPDATE ... SET revoked_at / used_at = NOW() WHERE user_id = u AND ... IS NULL.
SpendAll(table, u) ==
    [t \in Requests |-> IF table[t].user = u /\ table[t].state = "live"
                        THEN [table[t] EXCEPT !.state = "spent"] ELSE table[t]]

\* WHERE token_hash = t AND expires_at > NOW() AND used_at IS NULL.
Usable(table, t) == table[t].state = "live" /\ table[t].expires_at > now

-----------------------------------------------------------------------------
(***************************************************************************)
(* Requests.  A step takes its handler to the next one or to an answer.    *)
(***************************************************************************)

Running == {"login_increment", "login_record", "login_issue",
            "refresh_user", "refresh_issue", "refresh_revoke", "refresh_purge",
            "forgot_invalidate", "forgot_insert",
            "reset_update", "reset_mark", "reset_revoke",
            "change_update", "change_revoke", "register_insert",
            "verification_invalidate", "verification_insert",
            "verify_update", "verify_mark", "respond"}

\* "ok", or the variant of AuthError that the handler returns.
Answers == {"ok", "InvalidCredentials", "AccountLocked", "AccountNotActive",
            "EmailNotVerified", "InvalidToken", "TokenRevoked", "EmailExists",
            "WeakPassword", "Database"}

\* What a handler holds across its awaits: the account it read, the token it was
\* given, a new password, the expiry of the token it makes; epoch is history.
Request == [op: AllEndpoints \cup {"none"}, user: Emails \cup {None}, token: Requests \cup {None},
            password: Passwords \cup {None}, expires: Int, epoch: Nat]
Context(op, u, t, p, n) ==
    [op |-> op, user |-> u, token |-> t, password |-> p, expires |-> 0, epoch |-> n]
NoRequest == Context("none", None, None, None, 0)

\* The first step of request r: it calls endpoint op with the data in d and its
\* handler gets as far as next.  Nothing is kept of a request answered at once.
Arrive(r, op, d, next) ==
    /\ pc[r] = "idle"
    /\ op \in Endpoints
    /\ pc' = [pc EXCEPT ![r] = next]
    /\ req' = [req EXCEPT ![r] = IF next \in Answers THEN NoRequest ELSE d]

\* A later step, from the label here to the label next, with req unchanged.
Goto(r, here, next) ==
    /\ pc[r] = here
    /\ pc' = [pc EXCEPT ![r] = next]

\* The token made by request t has been handed to the client.
Delivered(table, t) == pc[t] = "ok" /\ table[t].state # "none"

\* The response is written: the client learns the tokens the handler made.
Respond(r) ==
    /\ Goto(r, "respond", "ok")
    /\ UNCHANGED <<now, tables, req>>

\* exp of the access token that is made just before the refresh token t.
AccessExp(t) == refresh_tokens[t].expires_at - RefreshTTL + AccessTTL

\* require_auth and AuthUser: the caller shows an access token of u.  Nothing but
\* its exp claim limits it.
HoldsAccess(u) ==
    \E t \in Requests :
        /\ Delivered(refresh_tokens, t)
        /\ refresh_tokens[t].user = u
        /\ now <= AccessExp(t) + Leeway

\* The handler stops between two steps: a statement fails, the client goes away and
\* the future is dropped, or the process dies.  What has been committed stays.
Fault(r) ==
    /\ Faults
    /\ pc[r] \in Running
    /\ pc' = [pc EXCEPT ![r] = "Database"]
    /\ req' = [req EXCEPT ![r] = NoRequest]
    /\ UNCHANGED <<now, tables>>

-----------------------------------------------------------------------------

\* A database after migrations in which the accounts of Registered exist and the
\* requests that Prior names have logged in at time 0.  Whether an account is verified
\* is independent of REQUIRE_EMAIL_VERIFICATION: the flag may be on since a restart only.
Init ==
    /\ now = 0
    /\ users = [u \in Emails |->
                   NewUser(FirstPassword, IF u \in Registered THEN "active" ELSE "absent",
                           u \in FirstVerified)]
    /\ refresh_tokens = [t \in Requests |->
                            IF Prior[t] = None THEN NoToken
                            ELSE [state |-> "live", user |-> Prior[t], expires_at |-> RefreshTTL]]
    /\ reset_tokens = [t \in Requests |-> NoToken]
    /\ verification_tokens = [t \in Requests |-> NoToken]
    /\ pc = [r \in Requests |-> IF Prior[r] = None THEN "idle" ELSE "ok"]
    /\ req = [r \in Requests |->
                 IF Prior[r] = None THEN NoRequest
                 ELSE Context("login", Prior[r], None, None, 0)]
    /\ minted = [t \in Requests |-> [auth |-> 0, wrote |-> 0]]

\* The type of every variable.
TypeOK ==
    /\ now \in Nat
    /\ users \in [Emails -> UserRow]
    /\ refresh_tokens \in [Requests -> TokenRow]
    /\ reset_tokens \in [Requests -> TokenRow]
    /\ verification_tokens \in [Requests -> TokenRow]
    /\ pc \in [Requests -> {"idle"} \cup Running \cup Answers]
    /\ req \in [Requests -> Request]
    /\ minted \in [Requests -> [auth: Nat, wrote: Nat]]
=============================================================================
