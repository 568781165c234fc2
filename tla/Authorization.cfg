SPECIFICATION Spec
CONSTANTS
    Passwords = {p, q}
    NoPassword = NoPassword
    Threads = {t1, t2}
    Idle = Idle
    MaxChallenges = 2
    MaxPending = 1
    Lifetime = 2
    Failures = 3
    Window = 2
    MaxRemote = 1
    MaxFaults = 2
INVARIANTS
    GuessesBounded
    PasswordIsSaved
PROPERTIES
    OneUse
CHECK_DEADLOCK FALSE
