--------------------------- MODULE PluginLifecycle ---------------------------
(***************************************************************************)
(* AuthPlugin of lib.rs and the AuthConfig of config.rs that it loads.     *)
(* `activate' and `deactivate' take &self: the host may call them at the   *)
(* same time, and may drop a call at any of its awaits.  Each statement    *)
(* and each write of one of the four locks is a step of its own.           *)
(***************************************************************************)
EXTENDS Integers, Sequences

CONSTANTS
    Activations,    \* calls of activate, each made at most once
    Deactivations,  \* calls of deactivate, each made at most once
    Pools,          \* databases that activate can be given
    Environments,   \* process environments that the host may set
    LongSecrets,    \* values of JWT_SECRET with at least 32 bytes
    Unset,          \* an environment variable that is missing or does not parse
    None,           \* Option::None
    Faults          \* whether calls may be dropped and statements may fail

Calls == Activations \cup Deactivations

Environment ==
    {e \in Environments :
        DOMAIN e = {"JWT_SECRET", "JWT_ACCESS_EXPIRATION", "JWT_REFRESH_EXPIRATION",
                    "JWT_ISSUER", "JWT_AUDIENCE", "MIN_PASSWORD_LENGTH"}}

ASSUME LifecycleAssumption ==
    /\ Activations \cap Deactivations = {}
    /\ None \notin Calls \cup Pools
    /\ Environments # {} /\ Environments = Environment
    /\ Unset \notin LongSecrets \cup Int
    /\ Faults \in BOOLEAN

VARIABLES
    env,           \* the environment of the process
    schema,        \* schema[p]: the types, tables and indexes of database p
    db,            \* AuthPlugin.db
    config,        \* AuthPlugin.config, as the call that loaded it
    auth_service,  \* AuthPlugin.auth_service, as the call that made it
    state,         \* AuthPlugin.state
    pc,            \* pc[c]: the next step of call c, or how it ended
    pool,          \* pool[c]: the database activation c was given
    done,          \* done[c]: migration statements activation c has executed
    loaded,        \* loaded[c]: the configuration activation c has validated
    latest,        \* history: the call that began last
    overlapped     \* history: the calls that ran at the same time as another

locks == <<db, config, auth_service, state>>
vars == <<env, schema, locks, pc, pool, done, loaded, latest, overlapped>>

-----------------------------------------------------------------------------
(***************************************************************************)
(* Configuration.                                                          *)
(***************************************************************************)

Default(v, default) == IF v = Unset THEN default ELSE v

\* AuthConfig::from_env.  The numbers that validate does not look at are left out:
\* they are read in the same way.
FromEnv(e) ==
    [jwt_secret |-> e.JWT_SECRET,
     access_token_expiration |-> Default(e.JWT_ACCESS_EXPIRATION, 900),
     refresh_token_expiration |-> Default(e.JWT_REFRESH_EXPIRATION, 604800),
     jwt_issuer |-> Default(e.JWT_ISSUER, "rustpress"),
     jwt_audience |-> Default(e.JWT_AUDIENCE, "rustpress-api"),
     min_password_length |-> Default(e.MIN_PASSWORD_LENGTH, 8)]

\* AuthConfig::validate.
Valid(c) ==
    /\ c.jwt_secret \in LongSecrets
    /\ c.access_token_expiration > 0
    /\ c.refresh_token_expiration > c.access_token_expiration
    /\ c.min_password_length >= 8

-----------------------------------------------------------------------------
(***************************************************************************)
(* Migrations.                                                             *)
(***************************************************************************)

\* The statements of run_migrations, in order, by what they create.
Migrations ==
    <<"user_role", "user_status", "users", "idx_users_email", "idx_users_status",
      "refresh_tokens", "idx_refresh_tokens_user", "idx_refresh_tokens_expires",
      "password_reset_tokens", "email_verification_tokens">>

Schema == {Migrations[i] : i \in 1..Len(Migrations)}

\* What a statement refers to: column types, indexed and referenced tables.
Needs(object) ==
    CASE object = "users" -> {"user_role", "user_status"}
      [] object \in {"idx_refresh_tokens_user", "idx_refresh_tokens_expires"} -> {"refresh_tokens"}
      [] object \in {"user_role", "user_status"} -> {}
      [] OTHER -> {"users"}

-----------------------------------------------------------------------------
(***************************************************************************)
(* Calls.                                                                  *)
(***************************************************************************)

Steps == {"migrate", "configure", "set_db", "set_config", "set_service", "set_state",
          "clear_service", "clear_config", "clear_db", "clear_state"}
Ends == {"ok", "Database", "Config", "panic", "dropped"}

Busy == {c \in Calls : pc[c] \in Steps}

\* The host makes call c.
Begin(c, first) ==
    /\ pc[c] = "idle"
    /\ pc' = [pc EXCEPT ![c] = first]
    /\ latest' = c
    /\ overlapped' = IF Busy = {} THEN overlapped ELSE overlapped \cup Busy \cup {c}

\* Call c goes on from the step here.
Goto(c, here, next) ==
    /\ pc[c] = here
    /\ pc' = [pc EXCEPT ![c] = next]
    /\ UNCHANGED <<env, latest, overlapped>>

\* Mutant of Activate: an active plugin is taken to be complete.
ActivateOnce(c, p) ==
    /\ Begin(c, IF state = "Active" THEN "ok" ELSE "migrate")
    /\ pool' = [pool EXCEPT ![c] = p]
    /\ UNCHANGED <<env, schema, locks, done, loaded>>

Activate(c, p) ==
    /\ Begin(c, "migrate")
    /\ pool' = [pool EXCEPT ![c] = p]
    /\ UNCHANGED <<env, schema, locks, done, loaded>>

\* The next statement of run_migrations; each leaves alone what is there already.
Migrate(c) ==
    LET object == Migrations[done[c] + 1]
        fits == Needs(object) \subseteq schema[pool[c]]
    IN
    /\ Goto(c, "migrate",
            IF ~fits THEN "Database"
            ELSE IF done[c] + 1 = Len(Migrations) THEN "configure" ELSE "migrate")
    /\ schema' = IF fits THEN [schema EXCEPT ![pool[c]] = @ \cup {object}] ELSE schema
    /\ done' = IF fits THEN [done EXCEPT ![c] = @ + 1] ELSE done
    /\ UNCHANGED <<locks, pool, loaded>>

\* Mutant of Configure: validate is not called.
ConfigureUnchecked(c) ==
    /\ Goto(c, "configure", IF env.JWT_SECRET = Unset THEN "panic" ELSE "set_db")
    /\ loaded' = [loaded EXCEPT ![c] = FromEnv(env)]
    /\ UNCHANGED <<schema, locks, pool, done>>

\* from_env, which panics without a secret, and validate.
Configure(c) ==
    LET cfg == FromEnv(env) IN
    /\ Goto(c, "configure",
            IF env.JWT_SECRET = Unset THEN "panic"
            ELSE IF Valid(cfg) THEN "set_db" ELSE "Config")
    /\ loaded' = IF env.JWT_SECRET # Unset /\ Valid(cfg) THEN [loaded EXCEPT ![c] = cfg] ELSE loaded
    /\ UNCHANGED <<schema, locks, pool, done>>

\* The four writes of activate ...
SetDb(c) ==
    /\ Goto(c, "set_db", "set_config")
    /\ db' = pool[c]
    /\ UNCHANGED <<schema, config, auth_service, state, pool, done, loaded>>

\* Mutant of SetConfig: the plugin is called active before its service is there.
SetConfigAndState(c) ==
    /\ Goto(c, "set_config", "set_service")
    /\ config' = c
    /\ state' = "Active"
    /\ UNCHANGED <<schema, db, auth_service, pool, done, loaded>>

SetConfig(c) ==
    /\ Goto(c, "set_config", "set_service")
    /\ config' = c
    /\ UNCHANGED <<schema, db, auth_service, state, pool, done, loaded>>

\* Mutant of SetService: a service that is there is kept.
SetServiceOnce(c) ==
    /\ Goto(c, "set_service", "set_state")
    /\ auth_service' = IF auth_service = None THEN c ELSE auth_service
    /\ UNCHANGED <<schema, db, config, state, pool, done, loaded>>

SetService(c) ==
    /\ Goto(c, "set_service", "set_state")
    /\ auth_service' = c
    /\ UNCHANGED <<schema, db, config, state, pool, done, loaded>>

SetState(c) ==
    /\ Goto(c, "set_state", "ok")
    /\ state' = "Active"
    /\ UNCHANGED <<schema, db, config, auth_service, pool, done, loaded>>

\* ... and the four of deactivate.
Deactivate(c) ==
    /\ Begin(c, "clear_service")
    /\ UNCHANGED <<env, schema, locks, pool, done, loaded>>

ClearService(c) ==
    /\ Goto(c, "clear_service", "clear_config")
    /\ auth_service' = None
    /\ UNCHANGED <<schema, db, config, state, pool, done, loaded>>

ClearConfig(c) ==
    /\ Goto(c, "clear_config", "clear_db")
    /\ config' = None
    /\ UNCHANGED <<schema, db, auth_service, state, pool, done, loaded>>

ClearDb(c) ==
    /\ Goto(c, "clear_db", "clear_state")
    /\ db' = None
    /\ UNCHANGED <<schema, config, auth_service, state, pool, done, loaded>>

ClearState(c) ==
    /\ Goto(c, "clear_state", "ok")
    /\ state' = "Inactive"
    /\ UNCHANGED <<schema, db, config, auth_service, pool, done, loaded>>

\* Mutant of Fail: the error of a statement is dropped.
FailIgnored(c) ==
    /\ Faults
    /\ Goto(c, "migrate", IF done[c] + 1 = Len(Migrations) THEN "configure" ELSE "migrate")
    /\ done' = [done EXCEPT ![c] = @ + 1]
    /\ UNCHANGED <<schema, locks, pool, loaded>>

\* A statement fails.
Fail(c) ==
    /\ Faults
    /\ Goto(c, "migrate", "Database")
    /\ UNCHANGED <<schema, locks, pool, done, loaded>>

\* The future of the call is dropped while it waits.
Drop(c) ==
    /\ Faults
    /\ \E here \in Steps \ {"configure"} : Goto(c, here, "dropped")
    /\ UNCHANGED <<schema, locks, pool, done, loaded>>

\* The host changes the environment of the process.
SetEnv(e) ==
    /\ env # e
    /\ env' = e
    /\ UNCHANGED <<schema, locks, pc, pool, done, loaded, latest, overlapped>>

-----------------------------------------------------------------------------

Init ==
    /\ env \in Environments
    /\ schema = [p \in Pools |-> {}]
    /\ db = None /\ config = None /\ auth_service = None
    /\ state = "Inactive"
    /\ pc = [c \in Calls |-> "idle"]
    /\ pool = [c \in Activations |-> None]
    /\ done = [c \in Activations |-> 0]
    /\ loaded = [c \in Activations |-> None]
    /\ latest = None
    /\ overlapped = {}

ActivateStep(c) ==
    \/ \E p \in Pools : Activate(c, p)
    \/ Migrate(c) \/ Configure(c)
    \/ SetDb(c) \/ SetConfig(c) \/ SetService(c) \/ SetState(c)
    \/ Fail(c)

DeactivateStep(c) ==
    Deactivate(c) \/ ClearService(c) \/ ClearConfig(c) \/ ClearDb(c) \/ ClearState(c)

Next ==
    \/ \E c \in Activations : ActivateStep(c)
    \/ \E c \in Deactivations : DeactivateStep(c)
    \/ \E c \in Calls : Drop(c)
    \/ \E e \in Environments : SetEnv(e)

Spec == Init /\ [][Next]_vars

-----------------------------------------------------------------------------
(***************************************************************************)
(* Properties.                                                             *)
(***************************************************************************)

\* What from_env can read.
Configurations == {FromEnv(e) : e \in Environments}

\* The type of every variable; no activation keeps a configuration that is not valid.
TypeOK ==
    /\ env \in Environments
    /\ schema \in [Pools -> SUBSET Schema]
    /\ db \in Pools \cup {None}
    /\ config \in Activations \cup {None}
    /\ auth_service \in Activations \cup {None}
    /\ state \in {"Inactive", "Active"}
    /\ pc \in [Calls -> {"idle"} \cup Steps \cup Ends]
    /\ pool \in [Activations -> Pools \cup {None}]
    /\ done \in [Activations -> 0..Len(Migrations)]
    /\ loaded \in [Activations -> {c \in Configurations : Valid(c)} \cup {None}]
    /\ latest \in Calls \cup {None}
    /\ overlapped \subseteq Calls

\* The service of activation c can do its work: its database has every type, table and
\* index, and its configuration is one that validate accepts.
Ready(c) == schema[pool[c]] = Schema /\ Valid(loaded[c])

\* The service that auth_service() hands out is ready, whatever else is being activated
\* or deactivated and whatever has been cut short.
PublishedServiceIsReady == auth_service # None => Ready(auth_service)

\* As long as nobody has asked for deactivation, an active plugin has a service, a
\* configuration and a database, however activations overlap or are cut short.
ActiveMeansPublished ==
    (\A c \in Deactivations : pc[c] = "idle") /\ state = "Active" =>
        None \notin {db, config, auth_service}

\* The plugin is as call c leaves it.
AsLeftBy(c) ==
    IF c \in Activations
    THEN db = pool[c] /\ config = c /\ auth_service = c /\ state = "Active"
    ELSE db = None /\ config = None /\ auth_service = None /\ state = "Inactive"

\* A call that is answered without error and that no other call overlapped or followed
\* has settled all four locks, in whatever disarray dropped and overlapping calls had
\* left them.
LastCallSettles ==
    \A c \in Calls :
        pc[c] = "ok" /\ latest = c /\ c \notin overlapped => AsLeftBy(c)
=============================================================================
