----------------------------- MODULE RateLimiter -----------------------------
(***************************************************************************)
(* The per-client limit on the credential-bearing endpoints: rate_limit.rs *)
(* and the routes that handlers.rs wraps with it.  The token bucket itself *)
(* is tower_governor's; it is modelled by what rate_limit.rs says of it.   *)
(* One router is modelled: every call of create_routes makes buckets of    *)
(* its own.  The unit of time is the millisecond.                          *)
(***************************************************************************)
EXTENDS Integers

CONSTANTS
    Clients,    \* keys that SmartIpKeyExtractor finds
    Unset,      \* an environment variable that is missing or is not a u32
    Rates,      \* values of AUTHPRO_LOGIN_RATE_PER_MIN
    Bursts,     \* values of AUTHPRO_LOGIN_BURST
    Switches,   \* values of AUTHPRO_RATE_LIMIT_DISABLED, in lower case
    Explicit,   \* configurations given to create_routes_with_rate_limit
    MaxTime,    \* bound on the clock
    MaxCalls    \* bound on the admitted calls of a client

Config == [per_minute: Nat, burst: Nat, disabled: BOOLEAN]

ASSUME LimiterAssumption ==
    /\ Rates \subseteq Nat \cup {Unset} /\ Bursts \subseteq Nat \cup {Unset}
    /\ Unset \notin Nat
    /\ Explicit \subseteq Config
    /\ MaxTime \in Nat /\ MaxCalls \in Nat

VARIABLES
    now,       \* milliseconds
    cfg,       \* RateLimitConfig of the router
    credit,    \* credit[c]: the bucket of c, in milliseconds of replenishment
    used,      \* history: used[c][s] calls of c to sensitive endpoints got through since s
    status     \* status[c]: the limiter's answer to the last call of c

vars == <<now, cfg, credit, used, status>>

-----------------------------------------------------------------------------
(***************************************************************************)
(* Configuration.                                                          *)
(***************************************************************************)

\* What from_env makes of a number: zero counts as missing.
Positive(v, default) == IF v # Unset /\ v > 0 THEN v ELSE default

FromEnv(rate, burst, switch) ==
    [per_minute |-> Positive(rate, 10), burst |-> Positive(burst, 5),
     disabled |-> switch \in {"true", "1", "yes"}]

\* Mutant of ReplenishInterval: the division rounds up.
ReplenishIntervalUp(c) ==
    IF c.per_minute = 0 THEN 60000
    ELSE (60000 + c.per_minute - 1) \div c.per_minute

\* RateLimitConfig::replenish_interval: integer division, and at least 1 ms.
ReplenishInterval(c) ==
    IF c.per_minute = 0 THEN 60000
    ELSE LET millis == 60000 \div c.per_minute IN IF millis > 1 THEN millis ELSE 1

\* There is a limiter: it is not disabled, and GovernorConfigBuilder::finish accepts
\* the burst size.
Layered(c) == ~c.disabled /\ c.burst > 0

\* Mutant of LimitedRoutes: a sensitive endpoint is on the wrong router.
MostLimitedRoutes == {"register", "login", "forgot_password", "reset_password"}

\* The routes of `limited' in create_routes_with_rate_limit, and all routes.
LimitedRoutes == {"register", "login", "refresh", "forgot_password", "reset_password"}
Routes == {"register", "login", "refresh", "forgot_password", "reset_password", "logout",
           "verify_email", "me", "change_password", "resend_verification"}

\* The endpoints that rate_limit.rs and handlers.rs call sensitive.
Sensitive == {"login", "register", "refresh", "forgot_password", "reset_password"}

Interval == ReplenishInterval(cfg)
Capacity == cfg.burst * Interval

-----------------------------------------------------------------------------

Init ==
    /\ now = 0
    /\ cfg \in Explicit \cup {FromEnv(r, b, s) : r \in Rates, b \in Bursts, s \in Switches}
    /\ credit = [c \in Clients |-> Capacity]
    /\ used = [c \in Clients |-> [s \in 0..MaxTime |-> 0]]
    /\ status = [c \in Clients |-> "none"]

\* A call to route gets through to its handler.
Pass(c, route) ==
    /\ status' = [status EXCEPT ![c] = "pass"]
    /\ used' = IF route \in Sensitive
               THEN [used EXCEPT ![c] = [s \in 0..MaxTime |->
                                            IF s <= now THEN used[c][s] + 1 ELSE used[c][s]]]
               ELSE used
    /\ UNCHANGED <<now, cfg>>

\* Mutant of Admit: the bucket is charged without a look at what is in it.
AdmitUnchecked(c, route) ==
    /\ route \in LimitedRoutes
    /\ Layered(cfg)
    /\ credit' = [credit EXCEPT ![c] = @ - Interval]
    /\ Pass(c, route)

\* The layer takes one request from the bucket of the client.
Admit(c, route) ==
    /\ route \in LimitedRoutes
    /\ Layered(cfg)
    /\ credit[c] >= Interval
    /\ credit' = [credit EXCEPT ![c] = @ - Interval]
    /\ Pass(c, route)

\* Mutant of Throttle: a call that is refused is charged as well.
ThrottleCharges(c, route) ==
    /\ route \in LimitedRoutes
    /\ Layered(cfg)
    /\ credit[c] < Interval
    /\ credit' = [credit EXCEPT ![c] = 0]
    /\ status' = [status EXCEPT ![c] = "429"]
    /\ UNCHANGED <<now, cfg, used>>

\* The layer answers 429 and leaves the bucket as it is.
Throttle(c, route) ==
    /\ route \in LimitedRoutes
    /\ Layered(cfg)
    /\ credit[c] < Interval
    /\ status' = [status EXCEPT ![c] = "429"]
    /\ UNCHANGED <<now, cfg, credit, used>>

\* The layer finds no key for the client (no header names it and the host does not pass
\* on the peer address) and answers 500.
Unidentified(c, route) ==
    /\ route \in LimitedRoutes
    /\ Layered(cfg)
    /\ status' = [status EXCEPT ![c] = "500"]
    /\ UNCHANGED <<now, cfg, credit, used>>

\* No layer is in the way of this route.
Bypass(c, route) ==
    /\ route \notin LimitedRoutes \/ ~Layered(cfg)
    /\ Pass(c, route)
    /\ UNCHANGED credit

Call(c, route) ==
    /\ used[c][0] < MaxCalls
    /\ Admit(c, route) \/ Throttle(c, route) \/ Unidentified(c, route) \/ Bypass(c, route)

\* Every bucket gains a millisecond's worth, up to its burst.
Tick ==
    /\ now < MaxTime
    /\ now' = now + 1
    /\ credit' = [c \in Clients |-> IF credit[c] < Capacity THEN credit[c] + 1 ELSE credit[c]]
    /\ UNCHANGED <<cfg, used, status>>

Next ==
    \/ \E c \in Clients, route \in Routes : Call(c, route)
    \/ Tick

Spec == Init /\ [][Next]_vars

-----------------------------------------------------------------------------
(***************************************************************************)
(* Properties.                                                             *)
(***************************************************************************)

TypeOK ==
    /\ now \in 0..MaxTime
    /\ cfg \in Config
    /\ credit \in [Clients -> 0..Capacity]
    /\ used \in [Clients -> [0..MaxTime -> Nat]]
    /\ status \in [Clients -> {"none", "pass", "429", "500"}]

\* n calls since time s are within a burst and one call per Interval.
WithinBudget(n, s) == n * Interval <= Capacity + (now - s)

\* The layer lets a further call of a client through exactly if that keeps every
\* stretch of time up to now within the budget, counting all the sensitive endpoints
\* together and nobody else's calls.
BudgetIsExact ==
    Layered(cfg) =>
        \A c \in Clients :
            credit[c] >= Interval <=> \A s \in 0..now : WithinBudget(used[c][s] + 1, s)

\* n calls since time s are within a burst and the configured calls per minute.
WithinRate(n, s) == n * 60000 <= cfg.burst * 60000 + (now - s) * cfg.per_minute

\* Nobody is throttled within the configured rate: rounding the interval never makes
\* the limiter stricter, up to the rate of one call per millisecond.
NeverStricterThanConfigured ==
    Layered(cfg) /\ 0 < cfg.per_minute /\ cfg.per_minute <= 60000 =>
        \A c \in Clients :
            credit[c] < Interval => \E s \in 0..now : ~WithinRate(used[c][s] + 1, s)

-----------------------------------------------------------------------------
(***************************************************************************)
(* The buckets implement RateBudget.                                       *)
(***************************************************************************)

Budget ==
    INSTANCE RateBudget WITH Times <- 0..MaxTime, clock <- now, calls <- used, answer <- status,
        limit <- [on |-> Layered(cfg), burst |-> cfg.burst, interval |-> Interval]

\* The token buckets refuse a call exactly when a log of all earlier calls would.
BucketsKeepBudget == Budget!Spec
=============================================================================
