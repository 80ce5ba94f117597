# A TLA+ model of rustpress-plugin-authpro

The plugin is an authentication service: axum handlers in front of one
PostgreSQL database, with no transaction anywhere. Every handler is a short
sequence of SQL statements, each of which commits on its own, and every handler
runs concurrently with every other. What this project is about is what those
sequences do to each other, and what is left behind when one of them stops half
way. Around the handlers are the parts that start them, guard them and throttle
them: the plugin's activation, the access tokens with their roles, and the rate
limiter.

Source lines are those of `src/` in the repository (`service.rs:346` is
`src/service.rs`, line 346). `PROJECT.json` lists the components, the runs, the
lines that each definition models, the hazards, the findings and the theorems.

## The system

| Part | State | Operations | Talks to |
|---|---|---|---|
| Store (`lib.rs` migrations, `models.rs`) | tables `users`, `refresh_tokens`, `password_reset_tokens`, `email_verification_tokens` | single statements | everyone |
| Sessions (`service.rs`) | `refresh_tokens`; `failed_login_attempts`, `locked_until` of `users` | `login`, `refresh_tokens`, `logout`, `revoke_all_tokens`, `increment_failed_attempts`, `record_successful_login` | store |
| Passwords (`service.rs`) | `password_hash`, `password_changed_at`; `password_reset_tokens` | `forgot_password`, `reset_password`, `change_password` | store; revokes sessions |
| Registration (`service.rs`, `handlers.rs`) | rows of `users`; `email_verified_at`, `status`; `email_verification_tokens` | `register`, `create_email_verification`, `verify_email`, `resend_verification` | store |
| Access control (`middleware.rs`, `extractors.rs`) | `users.role`; the claims of an access token; the claims in a request's extensions; the process environment | `require_auth`, `require_admin`, `require_role`, `optional_auth`, `AuthUser`; `generate_access_token`, `validate_access_token` | guards `change_password`, `resend_verification`, `me` and the host's routes |
| Plugin lifecycle (`lib.rs`) | four `RwLock`s: db, config, service, state; the schema of the database | `activate`, `deactivate`, `run_migrations`, `auth_service` | builds the service that routers keep |
| Configuration (`config.rs`) | the process environment | `from_env`, `validate` | lifecycle |
| Rate limiter (`rate_limit.rs`, `handlers.rs`) | a token bucket per client, inside tower_governor | `from_env`, `replenish_interval`, `apply_auth_rate_limit`, `create_routes_with_rate_limit` | wraps five routes |
| Errors, DTOs, cryptography | none | conversions, checks of fields, Argon2id, JWT | everyone |

Handlers interact through the database only: a handler reads a row, decides, and
writes later, and the row may have changed. The process is the unit of failure
for nothing: a statement that fails, a client that disconnects (axum drops the
future) and a crash all leave the statements already committed.

What makes each part correct:

- **Sessions.** A token that has been rotated, revoked or has run out lets nobody
  further in (several requests that were let in before may still be under way with
  it); a locked or suspended account lets no login and no refresh past its check,
  also not a refresh already half way; counter and lock agree,
  a lock in force is not lifted by yet another failure, and only the outcome of a
  login touches either. Every session goes back to a login of its own account.
- **Passwords.** A changed password ends the sessions there were; of several
  changes the last UPDATE stands; a used reset token lets nobody further in; nobody
  changes a password who was not given a session or a reset token of that account.
- **Registration.** One account per address; with verification required no
  session without a verified address, but for accounts signed in before it was; a
  used verification token lets nobody further in; an address is not verified unless
  a token of it has been given out.
- **Access control.** The guards look at the claims and not at the account, so
  that what was taken away stays in force for a while: no longer than an access
  token and its leeway last, counted from the last moment it was held, or at which
  a login or refresh that had read it had yet to sign, however often the session is
  refreshed. Guard and handler agree on the user.
  The middleware and the extractor read the environment for every request and the
  service read it once: they agree as long as it is the same.
- **Lifecycle.** A service is published only when its schema is complete and its
  configuration valid, whatever was cut short; overlapping calls leave nothing
  that one undisturbed call does not repair; after it a session of the same
  database is good in both its tokens or in neither, unless only the audience, which
  refresh tokens do not name, has changed.
- **Rate limiter.** Every stretch of time has its burst and its rate, over all the
  sensitive routes together and for each client apart; rounding never throttles
  anybody below the configured rate.

The hard behaviours are overlaps of two handlers on one row (check, then act),
handlers cut short between two statements, stale reads, and clocks: three
different comparisons with `expires_at` (`<` in `RefreshToken::is_expired`, `<=`
in SQL, and the JWT library's leeway). In the lifecycle it is four locks written one
by one by calls that overlap, are dropped at an await, or end with the process.

## Modules

| Module | Models |
|---|---|
| `AuthStore` | the tables, the clock, rows and statements, the life of a request, `Fault`, `Init`, `TypeOK` |
| `Sessions` | login, refresh, logout |
| `Passwords` | forgotten, reset and changed passwords |
| `Registration` | registration, verification, resend |
| `AuthService` | the composition: `Serve(r)` for every request `r`, the host application, time; all properties |
| `TokenLedger` | the abstract specification of a table of one-shot tokens |
| `AccountLock` | the abstract specification of locking accounts after failures |
| `AccessControl` | roles, claims and guarded routes, on top of `AuthService` |
| `PluginLifecycle` | configuration, migrations, `activate` and `deactivate` |
| `Deployment` | the plugin in its host: routers, their tokens, restarts, and the three judges of a token |
| `RateLimiter` | configuration, routes, buckets |
| `RateBudget` | the abstract specification of a rate limit, without buckets |
| `MCAuthService`, `MCAccessControl`, `MCDeployment`, `MCRateLimiter` | the small instances that the `.cfg` files check |
| `AuthServiceProofs` | theorems: types, integrity, password changes |
| `SessionProofs` | theorems: accounts, locks and sessions, and where authority comes from |
| `RegistrationProofs` | theorem: the dead end of registration |
| `LedgerProofs` | theorems: the three tables implement `TokenLedger` |
| `LockProofs` | theorem: the lockout columns implement `AccountLock` |
| `AccessProofs` | theorems: roles, claims and visits; every theorem about `AuthService` holds with them |
| `DeploymentProofs` | theorems: lifecycle and deployment |
| `RateLimiterProofs` | theorems: the limiter |

### How the model corresponds to the code

*Requests.* `Requests` is a set of HTTP requests, each of which arrives at most
once (`Arrive`), takes steps (`Goto`) and ends with `"ok"` or with the variant of
`AuthError` that the handler returns. `pc[r]` is the next statement of its
handler and `req[r]` is what the handler's local variables hold: the account it
has read, the token it was given, the new password, the expiry of the token it
is making. Requests that are answered by their first step keep nothing. Any
number of requests of any kind may be under way at a time.

*Steps.* One step is one SQL statement with the local code that follows it up to
the next one. That code touches nothing shared, so merging it hides no
interleaving; it does read the clock, and the steps place each `Utc::now()` at
the statement beside it. The row that a SELECT returns is checked in the same
step: later code reads the row and not the table. Steps carry the names of the
statements: `LoginFind`, `LoginIncrement`, `LoginRecord`, `LoginIssue`;
`RefreshFind`, `RefreshPurge`, `RefreshUser`, `RefreshIssue`, `RefreshRevoke`;
and so on. The early returns of a handler, in their order, are its `...Verdict`.
`Respond` is the response: before it the client does not know the token that has
been made, and no request can carry it.

*Rows.* A user is its e-mail address, which is unique and never updated. Rows are
never deleted (the code has no DELETE). A token row is named by the request that
inserts it. `state` is `"spent"` when `revoked_at` or `used_at` is set.
`password_hash` is the password that it verifies. `password_changed_at` counts
the updates of the column, in place of their instants: only their order is used.
Columns that no handler reads (`last_login_at`, `last_login_ip`, `user_agent`,
`replaced_by`, ...) are left out.

*Time.* One clock, for the server and for the database. Access tokens are not
stored; the one made beside refresh token `t` is known by its expiry
(`AccessExp`), and `HoldsAccess(u)` says that some client can show one for `u`.
Requests that would be refused by `require_auth` or by the field checks of the
DTOs change nothing and are left out.

*Failures.* `Fault(r)` ends the handler of `r` between any two of its statements,
or after the last one and before the response.

*What was there before.* The model starts with any accounts (`Registered`), verified
or not (`FirstVerified`), whatever `RequireEmailVerification` says: the flag is read at
activation and can be turned on over accounts that were never verified. They may have
sessions, opened at time 0 (`Prior`), and have no outstanding reset or verification
tokens and no counted failures.

*The host.* Nothing in the plugin suspends or deletes an account, but the status
column has those values and login reads them. `HostSetsStatus` writes it, and is
external: the host application shares the database.

*History.* `minted[t]` records for refresh token `t` how often the password had
been changed when its request looked at the account (`auth`) and when the row was
inserted (`wrote`). `epoch` in `req[r]` carries the number along. No guard reads
them.

*Logout* goes by the id in the JWT, whose signature it does not check. The
tokens of the model are those the service has made.

*Roles and claims.* `AccessControl` takes over every action of `AuthService`,
each with what it does to roles. An access token is made from the row that its
handler read some statements ago; `row[r]` is that row's role, and `claim[t]` the
role in the token made beside refresh token `t`. A
visit to a guarded route has two steps, the middleware (`Enter`) and the
handler's extractor (`Extract`), with time and everything else between them.
`HostSetsRole` is external, like `HostSetsStatus`: the plugin never writes
`users.role` after the INSERT. `backed[u][R]` is a history: the last moment at which
`u` was active with role `R`, or a login or refresh that had read it so had yet to
make its token (`Signing`). Nothing in the code bounds how long such a handler takes,
which is why the bound is counted from its end.

*The lifecycle.* A call of `activate` or `deactivate` is a sequence of steps: ten
migration statements, the configuration, four writes. Each lock holds the name
of the call that wrote it, so that a mixture of two activations can be seen.
`Fail` is a statement that the database refuses, `Drop` a future dropped at one of
its awaits (there is none inside the configuration step), and a missing
`JWT_SECRET` is the panic of `from_env`. Each migration creates one object, leaves
it alone if it is there, and fails if what it refers to is not. `from_env` is one
step: nothing in the plugin writes the environment, and what a host does that
writes it while another thread reads is undefined in any case. Several activations may
be given several databases.

*The host.* A router keeps the service that `auth_service()` returned (`Mount`),
also after a deactivation. `issued[t]` is the service that signed token `t`;
`Restart` empties the process and keeps databases and clients. Tokens that no service
of the plugin has signed are outside the model. `ServiceAccepts`
judges by the configuration of the service, `ValidateToken` (middleware) and
`ExtractUser` (extractor) by the environment of the moment; the last two are
separate definitions because the code has the defaults twice. A refresh token has
two halves: a JWT that names the issuer and no audience, and a part that is stored
as a hash made with the secret of the service (`HashToken`). `FindsRefreshToken`
is the check of both by a service with a secret and a database of its own.

*The limiter.* The unit is the millisecond, and `credit[c]` is the client's bucket
in milliseconds of replenishment: the bucket belongs to tower_governor and is
modelled by what `rate_limit.rs` says of it. `used[c][s]` is a history: sensitive
calls that got through since time `s`. `LimitedRoutes` is where the handlers put
the layer and `Sensitive` is where the documentation of the two files says it is.

## What is checked

Nine runs are about `AuthService`; `access`, `deployment` and `limiter` are about
the modules above it and beside it. `Prior` says which requests are logins that
ended before the model starts, so that a run does not spend its requests on them.
Requests yet to come are interchangeable, as are calls of one kind, databases and
clients, which is the symmetry (not used for liveness). Most runs end when all
requests are served and the clock has reached `MaxTime`, hence `CHECK_DEADLOCK
FALSE`; in `sessions`, `access` and `deployment` the host can always do something more, and
deadlock is checked. Durations are a few ticks: with `AccessTTL` 1, `RefreshTTL` 2
and `Leeway` 1, a clock up to 4 passes every boundary of the comparisons above, on
both sides.

| Run | Instance | Shows |
|---|---|---|
| `sessions` | 1 account with a session, 3 requests of login, refresh, logout; host suspends and restores; clock to 4; faults | `RotationRetiresOldToken`, `BarredAccountAdmitsNoOne`, `RefreshTokensAreOneShot` |
| `passwords` | 1 account with a session, 3 requests of five endpoints; 3 passwords; clock to 1; faults | `PasswordChangeEndsSessions`, `LastChangeStands`, `ResetTokensAreOneShot` |
| `lockout` | 1 account with a session, 4 requests of login and refresh, limit 2, lock of 2 ticks, clock to 3; faults | `TypeOK`, `LockMatchesCounter`, `LockRunsItsCourse`, `BarredAccountAdmitsNoOne`, `AccountsLockOut` |
| `registration` | 2 addresses, none registered, 4 requests of all endpoints but logout; verification required; weak passwords; host suspends; clock to 1; faults | `SessionsAreVerified`, `OneAccountPerEmail`, `SessionsBeginWithLogin`, `VerifiedAddressesHadTheToken`, `ChangedPasswordsHadAHolder`, `StrandedForGood` |
| `verification` | verification required over 1 unverified account with a session, 4 requests; clock to 2; faults | `VerificationTokensAreOneShot` |
| `revocation` | 1 account with two sessions, 2 requests, `FairSpec`, no faults | `RevocationLands` |
| `access` | 1 administrator with a session and 1 further login or refresh; 1 visit to any guard; host demotes, promotes, suspends, restores; clock to 4, `AccessTTL` 1, no leeway; faults | `AccessTypeOK`, `AuthorityIsBounded`, `GuardAndUserAgree` |
| `deployment` | 2 activations on 2 databases, 1 deactivation, 1 token; 4 environments (two secrets, one of them with two issuers and the other with another audience, and a short one); restarts, faults | `TypeOK`, `PublishedServiceIsReady`, `ActiveMeansPublished`, `LastCallSettles`, `ValidatorsAgree`, `ReactivationFollowsEnvironment`, `SessionsSurviveReactivation` |
| `limiter` | 2 clients; rates around the rounding of 60000 / rate and bursts 0, 1, 2, explicit and from the environment; 4 ms, 5 calls each | `TypeOK`, `BudgetIsExact`, `NeverStricterThanConfigured`, `BucketsKeepBudget` |
| `login_again` | a login and a password change | violates `LoginAgainOnAllDevices` |
| `rotation_reuse` | two refreshes with one token | violates `RotatedTokenIsNotReused` |
| `fresh_count` | three wrong passwords, limit 2 | violates `FreshCountAfterLock` |

Why the bounds are enough. Every hazard listed is a matter of two handlers, or
of two handlers and a third that sets the scene: a refresh racing a refresh, a
change racing a login, a reset whose token a forgotten-password request made
first. Three or four requests give each of these with one to spare. Lockout needs
as many wrong passwords as the limit plus one beside a right one, hence limit 2
and four logins. Handlers touch the rows of one account, so one account is enough
except for registration, where two addresses show that uniqueness is per address
and that a token of one account opens nothing of another's. Four requests are the
longest way in: an address is registered, verified, logged in, and its session used.

For `access`, one request beside the session is one step of a chain of refreshes,
read, overtaken and signed; the property says that no step stretches the bound,
so that longer chains are the same step again. Visits do not interact, and one
crosses every guard with a token that runs out before, between or after its two
steps. For `deployment`, a mixture of locks needs two writers, and the deactivation
is the third; a token is judged by itself, hence one; the environments hold one
that `validate` rejects and three valid ones that differ in issuer alone, and in secret
and audience. Without a secret `from_env` panics, which ends a call at the same place as
a rejection; the run leaves that one out and the theorems do not. For `limiter`, rates of 17000 to 70000 per minute have
intervals of 3, 2 and 1 ms, rounded by much, by little, not at all, and floored;
four milliseconds refill a bucket of two.

The three violations are what the repository says and the code does not do.

- `handlers.rs:231` tells the client "Please login again on all devices." A login
  that had checked the old password before the change inserts its token after
  `revoke_all_tokens` and stays logged in. What the code does guarantee is
  `PasswordChangeEndsSessions`: every row that was there when the password
  changed is revoked. Its proof is below.
- `tests/refresh_rotation.rs:162` lists "rotated token cannot be reused
  (TokenRevoked)". The read, the check and the revocation are three statements:
  two overlapping refreshes are both answered. What holds is
  `RotationRetiresOldToken` and `RefreshTokensAreOneShot`: once one of them has
  revoked the row nobody further is admitted.
- `tests/lockout.rs:121` lists "after locked_until passes, login proceeds (and
  starts a fresh count)". The count goes on from the limit, so that one wrong
  password locks the account again.

### The abstract specifications

`TokenLedger` says what a table of one-shot tokens promises whatever it is for:
a token is issued once and never un-spent, and a request is admitted on a token
only while it is live and has not run out. Several bearers may be under way with
the same token at a time: that is what the code gives, and the finding above
says that it is less than the tests ask for. `AuthService` implements it three
times, with `bearers[t]` being the requests whose handler got past the check of
`t`; the refinement is checked step by step as `RefreshTokensAreOneShot`,
`ResetTokensAreOneShot` and `VerificationTokensAreOneShot`.

`AccountLock` says what locking an account promises: an attempt has its password
tried only while there is no lock, is counted at most once, and nothing but such an
outcome touches counter or lock. A lock may be set between the check and the
outcome of an attempt, and the outcome counts all the same. `AuthService`
implements it (`AccountsLockOut`) with `trying[u]` being the logins of `u` between
the check of the password and the UPDATE, and `fresh` the requests yet to come, so
that no request tries twice.

`RateBudget` says what a rate limit promises without a bucket: it looks at a log of
the calls that got through, and refuses a call exactly when some stretch of time up
to now has no room for it. `RateLimiter` implements it (`BucketsKeepBudget`) with
`used` as the log, which the layer itself never reads. Calls that were refused cost
nothing, and neither do those of other clients.

### Fairness

`Fairness` is weak fairness of every handler that has started: tokio polls a task
that is ready and the database answers a statement, and a step of a handler, once
enabled, stays enabled. There is no fairness of arrivals, faults, the host or the
clock. `RevocationLands` is checked with `Faults = FALSE`, since a handler cut
short before `revoke_all_tokens` revokes nothing; that is a listed hazard.

## What is proved

Every safety property of every passing run is a theorem: for any sets of
addresses, passwords, requests, visits, calls, databases, environments, tokens
and clients, and under the named assumptions on the constants alone.

- `ConfigAssumption`: a configuration that `AuthConfig::validate` accepts (it
  accepts limits and durations of zero and below, too), and a leeway;
- `PopulationAssumption`, `RolesAssumption`: any accounts, verified or not, with any
  sessions opened at time 0, and any host;
- `LifecycleAssumption`: environments are records of the variables that are read,
  and calls of the two kinds are told apart;
- `LimiterAssumption`: rates, bursts and bounds are numbers;
- `NoneAssumption` and its like keep `None` and `Unset` apart from the values.

| Theorem | States |
|---|---|
| `AuthServiceProofs!TypeCorrect` | `Spec => []TypeOK` |
| `AuthServiceProofs!Integrity` | `Spec => [](TypeOK /\ References)` |
| `AuthServiceProofs!PasswordChangeHolds` | `Spec => []PasswordChangeEndsSessions` |
| `AuthServiceProofs!LastChangeHolds` | `Spec => []LastChangeStands` |
| `SessionProofs!RotationHolds` | `Spec => []RotationRetiresOldToken` |
| `SessionProofs!SessionsVerifiedHolds` | `Spec => []SessionsAreVerified` |
| `SessionProofs!OneAccountHolds` | `Spec => []OneAccountPerEmail` |
| `SessionProofs!LockMatchesCounterHolds` | `Spec => []LockMatchesCounter` |
| `SessionProofs!LockCourseHolds` | `Spec => LockRunsItsCourse` |
| `SessionProofs!BarredHolds` | `Spec => BarredAccountAdmitsNoOne` |
| `SessionProofs!SessionsBeginHolds` | `Spec => []SessionsBeginWithLogin` |
| `SessionProofs!VerifiedAddressesHolds` | `Spec => []VerifiedAddressesHadTheToken` |
| `SessionProofs!ChangedPasswordsHolds` | `Spec => []ChangedPasswordsHadAHolder` |
| `LockProofs!LockoutHolds` | `Spec => AccountsLockOut` |
| `RegistrationProofs!StrandedHolds` | `Spec => StrandedForGood` |
| `LedgerProofs!RefreshLedgerHolds` | `Spec => RefreshTokensAreOneShot` |
| `LedgerProofs!ResetLedgerHolds` | `Spec => ResetTokensAreOneShot` |
| `LedgerProofs!VerificationLedgerHolds` | `Spec => VerificationTokensAreOneShot` |
| `AccessProofs!RolesAddNothing` | `AccessSpec => Spec` |
| `AccessProofs!AccessTypes` | `AccessSpec => []AccessTypeOK` |
| `AccessProofs!AuthorityHolds` | `AccessSpec => []AuthorityIsBounded` |
| `AccessProofs!GuardAndUserHolds` | `AccessSpec => GuardAndUserAgree` |
| `DeploymentProofs!PluginTypes` | `DeploymentSpec => []TypeOK` |
| `DeploymentProofs!PublishedHolds` | `DeploymentSpec => []PublishedServiceIsReady` |
| `DeploymentProofs!ActiveHolds` | `DeploymentSpec => []ActiveMeansPublished` |
| `DeploymentProofs!LastCallHolds` | `DeploymentSpec => []LastCallSettles` |
| `DeploymentProofs!ValidatorsHold` | `DeploymentSpec => []ValidatorsAgree` |
| `DeploymentProofs!ReactivationHolds` | `DeploymentSpec => []ReactivationFollowsEnvironment` |
| `DeploymentProofs!SessionsSurviveHolds` | `DeploymentSpec => []SessionsSurviveReactivation` |
| `RateLimiterProofs!LimiterTypes` | `Spec => []TypeOK` |
| `RateLimiterProofs!BudgetHolds` | `Spec => []BudgetIsExact` |
| `RateLimiterProofs!BucketsHold` | `Spec => BucketsKeepBudget` |
| `RateLimiterProofs!NeverStricterHolds` | `Spec => []NeverStricterThanConfigured` |

**Integrity.** `TypeOK` is not inductive by itself: that a statement writes a
proper row depends on what its handler holds. `References` adds that: a running
handler is at a step of its own endpoint (`HandlersFit`); the account it
remembers exists, a new password is there where its endpoint has one, and a
token it was given is a row of the right table and of that account
(`Remembered`); a request that has not come to its INSERT has no row
(`Unissued`); and every row of the three token tables belongs to an account
(`Owned`, the foreign keys). Each action keeps it. The lemmas `GoesOn`, `Arrives`
and `Forgets` do the three shapes of a step once, `Edges` says that the steps
lead forward, and each handler has one lemma for the tables and one for the
requests.

**PasswordChangeHolds.** The invariant needs `ChangesAreRecorded` beside it: a
handler that has updated a password knows an age (`epoch`) that the account's
`password_changed_at` has reached. `password_changed_at` never falls
(`StepAges`), so that a token inserted after the UPDATE carries the age of that
change or a later one, and `revoke_all_tokens`, the last statement before the answer, spends
every other token of the account. Nothing is said of tokens inserted after the
UPDATE by handlers let in before it, which is where `LoginAgainOnAllDevices`
fails.

**LastChangeHolds** rests on the same two lemmas: a step either leaves an account's
password and its age alone or makes the age greater (`AgesGrow`), so that a request
whose change is as old as the password is the one that set it, whatever other
handlers read before and write after.

**SessionProofs** rests on two summaries of the code, each proved once over all
actions. `Written(u)` lists the ways in which any step can write the row of an
account, and who does; the lock theorems are about that list alone, together with `LockBound`
(no lock reaches beyond what a failure would set now, which is why a further
failure cannot shorten one). `SessionStep(r)` says what any step does to a
request: it rotates its token by revoking it, creates an account only where there
is none, and gets past a check only on the grounds that the code looks at. With
them, `SessionsVerifiedHolds` needs `Verified`, its counterpart for requests that
are let in and have not opened their session yet: the check and the INSERT are
several statements apart. Both speak of `Settled` accounts, verified or signed in before
the model starts, because `refresh_tokens` never asks for verification.

**Where authority comes from** (`SessionProofs`, its last section). The three
invariants are about who was given what, and the handlers in between remember only
an account and a token. `Origins` closes the gap: the token a handler
was given had been handed out and whoever changes a password was shown a session of
that account (`Entitled`), and a handler that has opened a session is a login or a
refresh of the account the session belongs to (`SignsIn`). A session made by a
refresh goes back to a login because the session it came from does, and what has been
handed out stays so (`HandedStays`); hence one step is enough and no induction
along chains of refreshes. `Proceeds(r)` is what any step means to a request.

**LockoutHolds.** Each step of each handler is one of four for the locks
(`LockKind`): it enters, writes a failure, writes a success, or leaves them alone. What
it needs of the rest is that an account comes into being with neither failures nor a
lock (`AbsentClean`), since `AccountLock` knows no registration.

**StrandedHolds.** To leave the dead end an account would need a verification
token, or a way to get one made; a session from before verification was required is
such a way, hence `~Carried(u)`. `StrandedInv` closes the others: all other sessions
there have ever been belong to verified addresses (`HoldersVerified`), so that no access
token lets a resend in, and the handler that inserted a verification token has
nothing left to do but answer (`TokensComeLast`), so that a token whose handler
was cut short never reaches anybody.

**LedgerProofs.** Each step of each handler is one of a few for a given table
(`Writes`): an INSERT of its own row, the UPDATE of one row, of all rows of an
account, or nothing; and it makes a request a bearer of a token, or ends that, or
leaves it (`Enters`, `Leaves`, `Carries`). The two together are a step of
`TokenLedger` or a stutter, shown once for all three tables. `IdleBlank` is what keeps a
request that has not arrived from being a bearer.

**AccessProofs.** `AccessSteps` says that every step of `AccessSpec` is one of
`AuthService` or leaves it alone, which brings `Integrity` over, and with
`RolesAddNothing` whatever is proved of `Spec`. A role in a token was in the row that
its maker read: `PendingFits` says that such a handler keeps the role `backed` until it
signs, and `SignedFits` that a token runs out no later than a lifetime after that.
`backed` never falls (`BackedGrows`) and never runs ahead of the clock (`BackedBefore`);
there is no induction over chains of refreshes, because each refresh reads the account
anew. `VisitFits` says that a token the guard found bad stays bad, for time does
not run backwards.

**DeploymentProofs.** The invariant says where each activation is and what that
means (`Progress`: what it has executed is in the schema of its database, and it
writes locks only when its service is `Ready`); that whatever is published,
mounted or has signed a token was made by such a one (`Published`); that an
activation about to write a lock finds those before it filled, as long as nobody
deactivates (`Ahead`); and that a call that began last and was not overlapped is
the only one under way and finds what it has written (`Solo`). `OwnSteps` and
`HostTypes` say which steps and names can occur. `SessionsSurviveHolds` follows from
it: the service of a call that was not overlapped is the one published, on the
database it was given, with the secret and the issuer of the environment.

**BudgetHolds.** `BudgetIsExact` is about what clients have got, and the layer
looks only at its bucket. The two meet in `Fits` and `Tight`: no stretch of time
leaves less of the budget than is in the bucket, and some stretch leaves exactly
that (one that began when the bucket was last full). `NeverStricterHolds` adds
the arithmetic of the interval: rounding down never makes it longer than
60000 / rate milliseconds as long as that is at least one. `BucketsHold` uses
`Fits` for the calls that are let through and `Tight` for those that are refused:
the bucket is empty exactly when some stretch of time has no room.

Only model-checked: `RevocationLands`, since liveness under fairness is beyond
the prover; and the three violations, which are counterexamples.

## What is not modelled

- Argon2id, the encoding of JWTs and the hash of a token in the database: pure
  calls. A token stands for the row that it selects. That the hash depends on the
  secret is in `Deployment` for refresh tokens; reset and verification tokens are
  hashed alike, and within `AuthService` there is one service and one secret.
- Field validation, HTTP statuses, JSON and logging: no state. The variants of
  `AuthError` are the answers of the model; what status and text they become is
  not looked at.
- `ClientInfo`: it fills columns that no handler reads.
- The inside of tower_governor, and a second router with buckets of its own. With
  the same configuration it is a second set of clients, so that what is proved holds
  of each router by itself; a client of both has two budgets.
- The environment changing in the midst of `from_env`.
- Differences between the clocks of server and database.
- Several processes on one database. For the handlers they are no different from
  one, and for the migrations from two overlapping activations; each would have
  locks of its own.

Observations that are not findings, because no text of the repository says
otherwise: an activation that is rejected for its configuration has already run
the migrations (`lib.rs:295`; the README says that it "fails fast"); the interval
of the limiter is rounded down, so that 40000 calls per minute become 60000
(`rate_limit.rs:86`); a role or a suspension does not reach the guards until the
access token has run out (`middleware.rs:117`); the guards read `JWT_SECRET` for every
request and never ask how long it is (`middleware.rs:19`), so that the length which the
repository's README (line 12) calls enforced is enforced where services are made, and no
property here says that a guard refuses a token signed elsewhere with a short secret.

## Plan

1. Done: store, sessions, passwords, registration, composition, abstract token
   table, abstract lockout, abstract rate limit; lifecycle, configuration and
   deployment; access control; rate limiter; where sessions, verified addresses and
   new passwords come from; theorems for the safety properties of all of them.
2. Left, in this order:
   - liveness of `activate` and `deactivate` under fairness of calls that are not
     dropped, where the question is which overlaps settle;
   - two routers with buckets of their own in `RateLimiter`, and the budget that
     a client has then;
   - `AccessControl` and `Deployment` composed: roles across a restart with
     another environment.
