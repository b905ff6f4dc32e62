SPECIFICATION TabsSpec
CONSTANTS
    Tab = {t1}
    MaxBatches = 2
    MaxStamp = 3
    MaxFaults = 2
    MaxActions = 1
    Recent = 1
INVARIANTS
    NothingAskedTwice
PROPERTIES
    NeverShowsOlder
    TabsCatchUp
CHECK_DEADLOCK FALSE
