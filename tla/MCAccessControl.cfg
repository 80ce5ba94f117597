\* An account demoted, promoted, suspended and restored while it logs in and refreshes,
\* and a visit to a guarded route.
CONSTANTS
    u1 = u1
    u2 = u2
    r1 = r1
    r2 = r2
    r3 = r3
    r4 = r4
    r5 = r5
    v1 = v1
    None = None
    Emails = {u1}
    Requests = {r1, r2}
    Registered = {u1}
    FirstVerified = {}
    Prior <- PriorOne
    FirstPassword = "old"
    Passwords = {"old"}
    StrongPasswords = {"old"}
    Endpoints = {"login", "refresh"}
    HostStatuses = {"active", "suspended"}
    Faults = TRUE
    MaxTime = 4
    RequireEmailVerification = FALSE
    LockoutDuration = 1
    MaxLoginAttempts = 2
    AccessTTL = 1
    RefreshTTL = 2
    ResetTTL = 1
    VerifyTTL = 1
    Leeway = 0
    FirstRole = "admin"
    HostRoles = {"user", "admin"}
    RequiredRoles = {"admin"}
    Visits = {v1}
SPECIFICATION AccessSpec
INVARIANTS
    AccessTypeOK
    AuthorityIsBounded
PROPERTIES
    GuardAndUserAgree
