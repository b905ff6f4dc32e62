SPECIFICATION Spec
CONSTANTS
    Store = {s1}
    Old = {s1}
    OldMode = "CURRENT"
    Key = {k1, k2, k3}
    NoKey = NoKey
    MaxBatches = 3
    MaxAttempts = 1
    Window = 1
    MaxTime = 7
SYMMETRY MCKeys
INVARIANTS
    WatermarkIsEarned
    NoSilentGap
PROPERTY OperationsLive
