\* Verification required over a session that an unverified account has already: tokens
\* resent and used.
CONSTANTS
    u1 = u1
    u2 = u2
    r1 = r1
    r2 = r2
    r3 = r3
    r4 = r4
    r5 = r5
    None = None
    Emails = {u1}
    Requests = {r1, r2, r3, r4, r5}
    Registered = {u1}
    FirstVerified = {}
    Prior <- PriorOne
    FirstPassword = "old"
    Passwords = {"old"}
    StrongPasswords = {"old"}
    Endpoints = {"verify_email", "resend_verification"}
    HostStatuses = {"suspended"}
    Faults = TRUE
    MaxTime = 2
    RequireEmailVerification = TRUE
    LockoutDuration = 1
    MaxLoginAttempts = 2
    AccessTTL = 1
    RefreshTTL = 2
    ResetTTL = 1
    VerifyTTL = 1
    Leeway = 1
SPECIFICATION Spec
SYMMETRY SymOne
CHECK_DEADLOCK FALSE
PROPERTIES
    VerificationTokensAreOneShot
