SPECIFICATION Spec
CONSTANTS
    Worker = {w1}
    Cadence = 4
    Day = 16
    Steps = {0, 4, 8, 16}
    Delay = 6
    BackfillDays = {}
    Begin = 22
    MaxClock = 38
    MaxRuns = 3
INVARIANTS
    RowsCarryTheirCycle
CHECK_DEADLOCK FALSE
