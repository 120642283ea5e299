SPECIFICATION Spec
CONSTANTS
    a1 = a1
    a2 = a2
    b1 = b1
    p = p
    q = q
    Process = {p, q}
    Author = {a1, a2, b1}
    Rotation = {r1, r2}
    ClientOf <- MCClientOf
    MaxAge = 1
    WriteTime = 1
    Start = 1
    MaxClock = 3
    MaxFaults = 1
    Limit = 1
    Period = 1
    MaxAttempts = 2
    Backoff = 1
    MaxCalls = 2
INVARIANTS
    PoliteTypeOK
    TokensWithinRate
    FailuresAreDocumented
PROPERTIES
    RotationKeepsFresh
    RotationSweepsAll
SYMMETRY Symmetric
CHECK_DEADLOCK FALSE
