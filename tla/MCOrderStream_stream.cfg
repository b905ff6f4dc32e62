SPECIFICATION Spec
CONSTANTS
    Order = {1, 2}
    DayLength = 2
    Window = 2
    Overlap = 2
    Settle = 1
    Lookback = 1
    Recent = 1
    PageSize = 1
    MaxPages = 2
    MaxTime = 6
    MaxChanges = 2
    MaxRuns = 2
INVARIANTS
    NothingMissed
PROPERTIES
    OwedIsSaved
    EveryRunEnds
CHECK_DEADLOCK FALSE
