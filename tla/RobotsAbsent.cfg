SPECIFICATION Spec
CONSTANTS
    Caller = {c1, c2}
    Ttl = 2
    Timeout = 1
    MaxClock = 4
    MaxCalls = 2
INVARIANTS
    AbsentIsAllowed
SYMMETRY Coroutines
CHECK_DEADLOCK FALSE
