SPECIFICATION FairSpec
CONSTANTS
    Worker = {w1}
    s1 = s1
    s2 = s2
    Station = {s1}
    Key <- Drift
    StationOf <- MCStationOf
    TimeOf <- MCTimeOf
    Unmapped <- MCUnmapped
    Cadence = 1
    MaxRetries = 1
    DlqCap = 1
    MaxRevision = 1
    MaxClock = 2
    MaxFire = 1
    MaxFaults = 1
INVARIANTS
    TypeOK
    ViolationsAreAccountedFor
    StoredRowsAreGenuine
PROPERTIES
    SuccessFollowsOwnBatch
    Drains
CHECK_DEADLOCK FALSE
