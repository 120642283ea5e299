SPECIFICATION Spec
CONSTANTS
    Worker = {w1, w2}
    Cadence = 4
    Day = 12
    Steps = {0, 4, 8, 12}
    Delay = 6
    BackfillDays = {1}
    Begin = 20
    MaxClock = 30
    MaxRuns = 2
INVARIANTS
    CoveredCyclesAreStored
PROPERTIES
    RunsRefreshTheirCycles
    OnlyOverlapWorsens
SYMMETRY Processes
CHECK_DEADLOCK FALSE
