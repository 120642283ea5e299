SPECIFICATION Spec
CONSTANTS
    Worker = {w1, w2}
    s1 = s1
    s2 = s2
    Station = {s1}
    Key <- DeadLetter
    StationOf <- MCStationOf
    TimeOf <- MCTimeOf
    Unmapped <- MCUnmapped
    Cadence = 1
    MaxRetries = 1
    DlqCap = 1
    MaxRevision = 1
    MaxClock = 2
    MaxFire = 1
    MaxFaults = 2
INVARIANTS
    MessagesAreNotLost
    ViolationsAreAccountedFor
SYMMETRY Processes
CHECK_DEADLOCK FALSE
