SPECIFICATION Spec
CONSTANTS
    Store = {s1}
    Old = {}
    OldMode = "YESTERDAY"
    Key = {k1}
    NoKey = NoKey
    MaxBatches = 1
    MaxAttempts = 2
    Window = 0
    MaxTime = 1
INVARIANTS
    StoreShowsLastOutcome
