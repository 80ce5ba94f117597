\* Every started handler runs to its end.
CONSTANTS
    u1 = u1
    u2 = u2
    r1 = r1
    r2 = r2
    r3 = r3
    r4 = r4
    r5 = r5
    None = None
    Emails = {u1}
    Requests = {r1, r2, r3, r4}
    Registered = {u1}
    FirstVerified = {}
    Prior <- PriorTwo
    FirstPassword = "old"
    Passwords = {"old", "new"}
    StrongPasswords = {"old", "new"}
    Endpoints = {"refresh", "forgot_password", "reset_password", "change_password"}
    HostStatuses = {}
    Faults = FALSE
    MaxTime = 1
    RequireEmailVerification = FALSE
    LockoutDuration = 1
    MaxLoginAttempts = 2
    AccessTTL = 1
    RefreshTTL = 2
    ResetTTL = 1
    VerifyTTL = 1
    Leeway = 1
SPECIFICATION FairSpec
CHECK_DEADLOCK FALSE
PROPERTIES
    RevocationLands
