\* Right and wrong passwords tried at the same time on one account.
CONSTANTS
    u1 = u1
    u2 = u2
    r1 = r1
    r2 = r2
    r3 = r3
    r4 = r4
    r5 = r5
    None = None
    Emails = {u1}
    Requests = {r1, r2, r3, r4, r5}
    Registered = {u1}
    FirstVerified = {}
    Prior <- PriorOne
    FirstPassword = "old"
    Passwords = {"old", "bad"}
    StrongPasswords = {"old"}
    Endpoints = {"login", "refresh"}
    HostStatuses = {}
    Faults = TRUE
    MaxTime = 3
    RequireEmailVerification = FALSE
    LockoutDuration = 2
    MaxLoginAttempts = 2
    AccessTTL = 1
    RefreshTTL = 2
    ResetTTL = 1
    VerifyTTL = 1
    Leeway = 1
SPECIFICATION Spec
SYMMETRY SymOne
CHECK_DEADLOCK FALSE
INVARIANTS
    TypeOK
    LockMatchesCounter
PROPERTIES
    BarredAccountAdmitsNoOne
    LockRunsItsCourse
    AccountsLockOut
