\* Sessions of one account that the host suspends and restores.
CONSTANTS
    u1 = u1
    u2 = u2
    r1 = r1
    r2 = r2
    r3 = r3
    r4 = r4
    r5 = r5
    None = None
    Emails = {u1}
    Requests = {r1, r2, r3, r4}
    Registered = {u1}
    FirstVerified = {}
    Prior <- PriorOne
    FirstPassword = "old"
    Passwords = {"old"}
    StrongPasswords = {"old"}
    Endpoints = {"login", "refresh", "logout"}
    HostStatuses = {"suspended", "active"}
    Faults = TRUE
    MaxTime = 4
    RequireEmailVerification = FALSE
    LockoutDuration = 1
    MaxLoginAttempts = 2
    AccessTTL = 1
    RefreshTTL = 2
    ResetTTL = 1
    VerifyTTL = 1
    Leeway = 1
SPECIFICATION Spec
SYMMETRY SymOne
INVARIANTS
    RotationRetiresOldToken
PROPERTIES
    BarredAccountAdmitsNoOne
    RefreshTokensAreOneShot
