SPECIFICATION Spec
CONSTANTS
    Row <- MCRow
    HourOf <- MCHourOf
    Day = 2
    HourlyReach = 3
    HourlyLag = 1
    DailyReach = 6
    DailyLag = 2
    Retention = 4
    Chunk = 2
    Ahead = 1
    JobDelay = 1
    MaxClock = 9
INVARIANTS
    AggregatesTypeOK
    OnTimeRowsStayInDays
    TiersAgree
PROPERTIES
    DaysOnlyGrow
CHECK_DEADLOCK FALSE
