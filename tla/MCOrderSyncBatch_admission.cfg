SPECIFICATION FairSpec
CONSTANTS
    Store = {s1, s2}
    Old = {}
    OldMode = "YESTERDAY"
    Key = {k1, k2}
    NoKey = NoKey
    MaxBatches = 2
    MaxAttempts = 2
    Window = 0
    MaxTime = 1
INVARIANTS
    RetryTakesFailedOnly
    FinishedMeansOver
PROPERTIES
    DoneIsFinal
    EveryBatchEnds
