SPECIFICATION Spec
CONSTANTS
    Worker = {w1, w2}
    s1 = s1
    s2 = s2
    Station = {s1, s2}
    Key <- TwoStations
    StationOf <- MCStationOf
    TimeOf <- MCTimeOf
    Unmapped <- MCUnmapped
    Cadence = 1
    MaxRetries = 0
    DlqCap = 2
    MaxRevision = 2
    MaxClock = 3
    MaxFire = 1
    MaxFaults = 0
INVARIANTS
    StoredRowsAreGenuine
    CoveredSlotsAreStored
PROPERTIES
    OnlyOverlapRegresses
    MirrorsSource
SYMMETRY Processes
CHECK_DEADLOCK FALSE
