SPECIFICATION FairBackfillSpec
CONSTANTS
    s1 = s1
    Worker = {w1}
    Cli = {p1}
    Station = {s1}
    Key <- Midnight
    StationOf <- MCStationOf
    TimeOf <- MCTimeOf
    Unmapped <- MCUnmapped
    Cadence = 1
    MaxRetries = 0
    DlqCap = 1
    MaxRevision = 2
    MaxClock = 2
    MaxFire = 1
    MaxFaults = 0
    DayLength = 1
    FirstDay = 0
    LastDay = 1
    Archived = {0}
    MonthLength = 1
    MaxCommands = 2
INVARIANTS
    CliTypeOK
    WrittenDaysAreStored
    ReportsCountRowsOnce
PROPERTIES
    MirrorsSource
    OnlyOverlapLosesUpdates
    CommandsEnd
CHECK_DEADLOCK FALSE
