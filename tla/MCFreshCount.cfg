\* Wrong passwords up to the lock, and one more after it.
CONSTANTS
    u1 = u1
    u2 = u2
    r1 = r1
    r2 = r2
    r3 = r3
    r4 = r4
    r5 = r5
    None = None
    Emails = {u1}
    Requests = {r1, r2, r3}
    Registered = {u1}
    FirstVerified = {}
    Prior <- PriorNone
    FirstPassword = "old"
    Passwords = {"old", "bad"}
    StrongPasswords = {"old"}
    Endpoints = {"login"}
    HostStatuses = {}
    Faults = FALSE
    MaxTime = 1
    RequireEmailVerification = FALSE
    LockoutDuration = 1
    MaxLoginAttempts = 2
    AccessTTL = 1
    RefreshTTL = 2
    ResetTTL = 1
    VerifyTTL = 1
    Leeway = 1
SPECIFICATION Spec
CHECK_DEADLOCK FALSE
PROPERTIES
    FreshCountAfterLock
