\* Two addresses registered, cut short anywhere, and every way on from there but logout,
\* with verification required: who can get at what.
CONSTANTS
    u1 = u1
    u2 = u2
    r1 = r1
    r2 = r2
    r3 = r3
    r4 = r4
    r5 = r5
    None = None
    Emails = {u1, u2}
    Requests = {r1, r2, r3, r4}
    Registered = {}
    FirstVerified = {}
    Prior <- PriorNone
    FirstPassword = "old"
    Passwords = {"old", "weak"}
    StrongPasswords = {"old"}
    Endpoints = {"register", "login", "verify_email", "resend_verification",
                 "refresh", "forgot_password", "reset_password", "change_password"}
    HostStatuses = {"suspended"}
    Faults = TRUE
    MaxTime = 1
    RequireEmailVerification = TRUE
    LockoutDuration = 1
    MaxLoginAttempts = 2
    AccessTTL = 1
    RefreshTTL = 2
    ResetTTL = 1
    VerifyTTL = 1
    Leeway = 1
SPECIFICATION Spec
SYMMETRY SymNone
CHECK_DEADLOCK FALSE
INVARIANTS
    SessionsAreVerified
    OneAccountPerEmail
    SessionsBeginWithLogin
    VerifiedAddressesHadTheToken
    ChangedPasswordsHadAHolder
PROPERTIES
    StrandedForGood
