---------------------------- MODULE AccessControl ----------------------------
(***************************************************************************)
(* Roles on top of AuthService: users.role, the role that an access token  *)
(* carries from the row its maker read, and the routes guarded by the      *)
(* middleware and by the AuthUser extractor.  Every action of AuthService  *)
(* is taken over with what it does to roles; visits to guarded routes and  *)
(* the host's writes of users.role are added.                              *)
(***************************************************************************)
EXTENDS AuthService

CONSTANTS
    FirstRole,      \* role of the accounts that exist when the model starts
    HostRoles,      \* roles the host application may write into users.role
    RequiredRoles,  \* roles that the host gives to require_role
    Visits          \* requests to guarded routes, each arriving at most once

Roles == {"user", "author", "editor", "admin"}

ASSUME RolesAssumption ==
    FirstRole \in Roles /\ HostRoles \subseteq Roles /\ RequiredRoles \subseteq Roles

VARIABLES
    role,       \* users.role
    row,        \* row[r]: the role in the row of users that r makes its access token of
    claim,      \* claim[t]: the role in the access token made just before refresh token t
    visit,      \* visit[v]: guard, access token (by its refresh token), claims in the extensions
    backed      \* history: backed[u][R] is when role R last stood behind u

roleVars == <<role, row, claim, visit, backed>>
allVars == <<vars, roleVars>>

-----------------------------------------------------------------------------
(***************************************************************************)
(* Roles and access tokens.                                                *)
(***************************************************************************)

\* A moment before the model starts.
Never == -1

\* r has read the row of u with role R and has yet to make its access token of it.
Signing(r, u, R) ==
    /\ pc[r] \in {"login_record", "login_issue", "refresh_issue"}
    /\ req[r].user = u /\ row[r] = R

\* Role R stands behind u while u is active with that role, and for as long after that
\* as a login or a refresh that read it so has yet to make its access token.
Backing ==
    backed' = [u \in Emails |-> [R \in Roles |->
                 IF \/ users'[u].status = "active" /\ role'[u] = R
                    \/ backed[u][R] = now /\ \E r \in Requests : Signing(r, u, R)
                 THEN now' ELSE backed[u][R]]]

\* r has just read the row that its access token is made of.
ReadsRow(r) == pc'[r] # pc[r] /\ pc'[r] \in {"login_record", "refresh_issue"}

\* r makes its access token.
SignsToken(r) == pc'[r] # pc[r] /\ pc[r] \in {"login_issue", "refresh_issue"}

\* Mutant of RoleSigned: a refresh copies the role of the login before it.
RoleSignedAgain(r) == IF req[r].op = "refresh" THEN claim[req[r].token] ELSE row[r]

\* Mutant of RoleSigned: the name of the enum's variant, not what the database calls it.
RoleSignedVariant(r) == IF row[r] = "admin" THEN "Admin" ELSE row[r]

\* generate_access_token takes the role from the row it is given.
RoleSigned(r) == row[r]

\* A step of a handler, with what it does to roles: a new account is a 'user'.
ServeRole(r) ==
    /\ Serve(r)
    /\ row' = IF ReadsRow(r) THEN [row EXCEPT ![r] = role[req'[r].user]] ELSE row
    /\ claim' = IF SignsToken(r) THEN [claim EXCEPT ![r] = RoleSigned(r)] ELSE claim
    /\ role' = [u \in Emails |-> IF ~Exists(u) /\ Exists(u)' THEN "user" ELSE role[u]]
    /\ UNCHANGED visit
    /\ Backing

\* The host application promotes or demotes an account.
HostSetsRole(u, R) ==
    /\ Exists(u)
    /\ role[u] # R
    /\ role' = [role EXCEPT ![u] = R]
    /\ UNCHANGED <<vars, row, claim, visit>>
    /\ Backing

\* Everything else that can happen to accounts and handlers leaves roles alone.
Elsewhere ==
    /\ \/ \E r \in Requests : Fault(r)
       \/ \E u \in Emails, s \in HostStatuses : HostSetsStatus(u, s)
       \/ Tick
    /\ UNCHANGED <<role, row, claim, visit>>
    /\ Backing

-----------------------------------------------------------------------------
(***************************************************************************)
(* Guarded routes.                                                         *)
(***************************************************************************)

Guards == {"none", "optional_auth", "require_auth", "require_admin", "require_role"}

Visit == [guard: Guards, token: Requests \cup {None}, claims: Requests \cup {None},
          status: {"idle", "entered", "401", "403", "served"}]
NoVisit == [guard |-> "none", token |-> None, claims |-> None, status |-> "idle"]

\* validate_token: there is a bearer token, and it decodes.
Validates(t) == t # None /\ now <= AccessExp(t) + Leeway

\* What the middleware answers a request that shows token t.
Verdict(guard, t) ==
    CASE guard \in {"none", "optional_auth"} -> "entered"
      [] guard \in {"require_auth", "require_admin", "require_role"} /\ ~Validates(t) -> "401"
      [] guard = "require_admin" /\ claim[t] # "admin" -> "403"
      [] guard = "require_role" /\ claim[t] \notin RequiredRoles -> "403"
      [] OTHER -> "entered"

\* The middleware judges the request and puts the claims into its extensions.
Enter(v, guard, t) ==
    LET verdict == Verdict(guard, t) IN
    /\ visit[v].status = "idle"
    /\ t # None => Delivered(refresh_tokens, t)
    /\ visit' = [visit EXCEPT ![v] =
                    [guard |-> guard, token |-> t, status |-> verdict,
                     claims |-> IF guard # "none" /\ verdict = "entered" /\ Validates(t)
                                THEN t ELSE None]]
    /\ UNCHANGED <<vars, role, row, claim>>
    /\ Backing

\* Mutant of Extract: the extensions are not looked at.
ExtractAgain(v) ==
    LET t == visit[v].token IN
    /\ visit[v].status = "entered"
    /\ visit' = [visit EXCEPT ![v].claims = IF Validates(t) THEN t ELSE None,
                              ![v].status = IF Validates(t) THEN "served" ELSE "401"]
    /\ UNCHANGED <<vars, role, row, claim>>
    /\ Backing

\* The AuthUser of the handler: the claims in the extensions, or else the token itself.
Extract(v) ==
    LET t == IF visit[v].claims # None THEN visit[v].claims
             ELSE IF Validates(visit[v].token) THEN visit[v].token ELSE None
    IN
    /\ visit[v].status = "entered"
    /\ visit' = [visit EXCEPT ![v].claims = t,
                              ![v].status = IF t # None THEN "served" ELSE "401"]
    /\ UNCHANGED <<vars, role, row, claim>>
    /\ Backing

-----------------------------------------------------------------------------

AccessInit ==
    /\ Init
    /\ role = [u \in Emails |-> FirstRole]
    /\ row = [r \in Requests |-> FirstRole]
    /\ claim = [t \in Requests |-> FirstRole]
    /\ visit = [v \in Visits |-> NoVisit]
    /\ backed = [u \in Emails |-> [R \in Roles |->
                    IF u \in Registered /\ R = FirstRole THEN 0 ELSE Never]]

AccessNext ==
    \/ \E r \in Requests : ServeRole(r)
    \/ \E u \in Emails, R \in HostRoles : HostSetsRole(u, R)
    \/ Elsewhere
    \/ \E v \in Visits, guard \in Guards, t \in Requests \cup {None} : Enter(v, guard, t)
    \/ \E v \in Visits : Extract(v)

AccessSpec == AccessInit /\ [][AccessNext]_allVars

-----------------------------------------------------------------------------
(***************************************************************************)
(* Properties.                                                             *)
(***************************************************************************)

AccessTypeOK ==
    /\ role \in [Emails -> Roles]
    /\ row \in [Requests -> Roles]
    /\ claim \in [Requests -> Roles]
    /\ visit \in [Visits -> Visit]
    /\ backed \in [Emails -> [Roles -> Nat \cup {Never}]]

\* A role that was taken away, or an account that was suspended, still gets through the
\* guards, but no longer than an access token and its leeway last, counted from the last
\* moment at which the account was active with that role or a login or refresh that had
\* read it so had yet to make its token.  (How long such a handler takes nothing bounds.)
\* Refreshing does not carry the old role, or a suspended account, any further.
AuthorityIsBounded ==
    \A t \in Requests :
        Delivered(refresh_tokens, t) /\ Validates(t) =>
            now <= backed[refresh_tokens[t].user][claim[t]] + AccessTTL + Leeway

\* The handler behind a guard sees the user the guard saw, and none where it saw none:
\* a token that runs out in between does not turn away a request that was let in, and
\* one that optional_auth found bad does not become good.
GuardAndUserAgree ==
    [][\A v \in Visits :
           /\ visit[v].status = "entered" /\ visit[v].guard # "none"
           /\ visit'[v].status # "entered"
           => (visit'[v].status = "served" <=> visit[v].claims # None)]_allVars
=============================================================================
