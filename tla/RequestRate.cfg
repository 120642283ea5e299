SPECIFICATION Spec
CONSTANTS
    a1 = a1
    a2 = a2
    b1 = b1
    p = p
    q = q
    Process = {p}
    Author = {a1}
    Rotation = {}
    ClientOf <- MCClientOf
    MaxAge = 1
    WriteTime = 1
    Start = 0
    MaxClock = 3
    MaxFaults = 0
    Limit = 1
    Period = 1
    MaxAttempts = 2
    Backoff = 1
    MaxCalls = 1
INVARIANTS
    RequestsWithinRate
CHECK_DEADLOCK FALSE
