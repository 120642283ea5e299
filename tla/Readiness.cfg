SPECIFICATION FairSpec
CONSTANTS
    Concurrency = 1
    Ttl = 3
    MaxClock = 3
    MaxOutages = 1
    Probe = {p1, p2}
    PoolSize = 1
INVARIANTS
    ReadinessTypeOK
    AbsentKeyMeansTrouble
PROPERTIES
    ReadyIsHonest
    ProbesAreAnswered
CHECK_DEADLOCK FALSE
