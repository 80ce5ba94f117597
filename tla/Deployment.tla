----------------------------- MODULE Deployment -----------------------------
(***************************************************************************)
(* The plugin in a host: routers made from the service that auth_service() *)
(* hands out, the tokens those routers give to clients, restarts of the    *)
(* process, and the three places that judge an access token.  The service  *)
(* judges by the configuration it was made with; the middleware and the    *)
(* extractor read the environment again for every request.  Lifetimes are  *)
(* left to AuthStore and AccessControl.                                    *)
(***************************************************************************)
EXTENDS PluginLifecycle

CONSTANT Tokens     \* access tokens, each given out at most once

VARIABLES
    mounted,   \* services that the host's routers hold
    issued     \* issued[t]: the service that signed token t

deployment == <<vars, mounted, issued>>

-----------------------------------------------------------------------------
(***************************************************************************)
(* Judging an access token.                                                *)
(***************************************************************************)

\* The signature and the claims iss and aud of t, as generate_access_token made them.
Signed(t) ==
    [key |-> loaded[issued[t]].jwt_secret, iss |-> loaded[issued[t]].jwt_issuer,
     aud |-> loaded[issued[t]].jwt_audience]

\* jsonwebtoken::decode with a key and a Validation that name an issuer and an audience.
Decodes(t, key, iss, aud) == Signed(t) = [key |-> key, iss |-> iss, aud |-> aud]

\* AuthService::validate_access_token of service s.
ServiceAccepts(s, t) ==
    Decodes(t, loaded[s].jwt_secret, loaded[s].jwt_issuer, loaded[s].jwt_audience)

\* Mutant of ValidateToken: the audience has another default than in from_env.
ValidateTokenOtherwise(t) ==
    IF env.JWT_SECRET = Unset THEN "500"
    ELSE IF Decodes(t, env.JWT_SECRET, Default(env.JWT_ISSUER, "rustpress"),
                    Default(env.JWT_AUDIENCE, "rustpress"))
    THEN "pass" ELSE "401"

\* middleware.rs: validate_token with get_decoding_key and get_validation.
ValidateToken(t) ==
    IF env.JWT_SECRET = Unset THEN "500"
    ELSE IF Decodes(t, env.JWT_SECRET, Default(env.JWT_ISSUER, "rustpress"),
                    Default(env.JWT_AUDIENCE, "rustpress-api"))
    THEN "pass" ELSE "401"

\* extractors.rs: AuthUser without claims from the middleware.
ExtractUser(t) ==
    IF env.JWT_SECRET = Unset THEN "500"
    ELSE IF Decodes(t, env.JWT_SECRET, Default(env.JWT_ISSUER, "rustpress"),
                    Default(env.JWT_AUDIENCE, "rustpress-api"))
    THEN "pass" ELSE "401"

\* Mutant of HashToken: the hasher is seeded anew for every service.
HashTokenSeeded(s) == s

\* hash_token of service s: what goes into the hash beside the token.
HashToken(s) == loaded[s].jwt_secret

\* refresh_tokens of service s gets past its SELECT with the refresh token that came with
\* t: the JWT half decodes (it names no audience) and the hash of the other half is there.
FindsRefreshToken(s, t) ==
    /\ loaded[s].jwt_secret = Signed(t).key
    /\ loaded[s].jwt_issuer = Signed(t).iss
    /\ pool[s] = pool[issued[t]]
    /\ HashToken(s) = HashToken(issued[t])

-----------------------------------------------------------------------------

\* The host makes a router of the service that is published; it keeps that service.
Mount ==
    /\ auth_service # None
    /\ mounted' = mounted \cup {auth_service}
    /\ UNCHANGED <<vars, issued>>

\* A login or a refresh through a router of service s.
Issue(t, s) ==
    /\ issued[t] = None
    /\ s \in mounted
    /\ issued' = [issued EXCEPT ![t] = s]
    /\ UNCHANGED <<vars, mounted>>

\* The process ends and is started again: the database and the clients' tokens remain.
Restart ==
    /\ Faults
    /\ pc' = [c \in Calls |-> IF c \in Busy THEN "dropped" ELSE pc[c]]
    /\ db' = None /\ config' = None /\ auth_service' = None
    /\ state' = "Inactive"
    /\ latest' = None
    /\ mounted' = {}
    /\ UNCHANGED <<env, schema, pool, done, loaded, overlapped, issued>>

DeploymentInit ==
    /\ Init
    /\ mounted = {}
    /\ issued = [t \in Tokens |-> None]

DeploymentNext ==
    \/ Next /\ UNCHANGED <<mounted, issued>>
    \/ Mount
    \/ \E t \in Tokens, s \in Activations : Issue(t, s)
    \/ Restart

DeploymentSpec == DeploymentInit /\ [][DeploymentNext]_deployment

-----------------------------------------------------------------------------
(***************************************************************************)
(* Properties.                                                             *)
(***************************************************************************)

Issued == {t \in Tokens : issued[t] # None}

\* A router whose configuration is the one the environment gives now, and the guards in
\* front of it, agree on every token any router has ever given out: also on those of
\* routers from before the environment changed or the process restarted.
ValidatorsAgree ==
    \A s \in mounted :
        loaded[s] = FromEnv(env) =>
            \A t \in Issued :
                /\ ValidateToken(t) = IF ServiceAccepts(s, t) THEN "pass" ELSE "401"
                /\ ExtractUser(t) = ValidateToken(t)

\* Once an activation that ran alone is answered, the published service accepts exactly
\* the tokens that the guards let through, as long as the environment gives what that
\* activation has loaded: tokens from before a deactivation or a restart included.
ReactivationFollowsEnvironment ==
    \A c \in Activations :
        /\ pc[c] = "ok" /\ latest = c /\ c \notin overlapped
        /\ loaded[c] = FromEnv(env)
        => \A t \in Issued : ValidateToken(t) = "pass" <=> ServiceAccepts(auth_service, t)

\* At such an activation a session of the same database lives on or ends as a whole: the
\* published service finds the refresh token if and only if the guards let its access
\* token through, unless the audience alone has changed, which only the latter names.
SessionsSurviveReactivation ==
    \A c \in Activations :
        /\ pc[c] = "ok" /\ latest = c /\ c \notin overlapped
        /\ loaded[c] = FromEnv(env)
        => \A t \in Issued :
               /\ pool[issued[t]] = db
               /\ Signed(t).aud = loaded[c].jwt_audience
               => (FindsRefreshToken(auth_service, t) <=> ValidateToken(t) = "pass")
=============================================================================
