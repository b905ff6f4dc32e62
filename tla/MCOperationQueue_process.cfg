SPECIFICATION FairSpec
CONSTANTS
    Op = {1, 2}
    Key = {"s1"}
    KeyOf <- MCOneKey
    SyncOp = {1, 2}
    Worker = {w1}
    Token = {t1, t2, t3}
    NoToken = NoToken
    Free = Free
    Ghost = Ghost
    MaxAttempts = 2
    LeaseTicks = 1
    BusyTicks = 1
    Backoff <- MCBackoff
    RetryAfter = {0}
    MaxFaults = 1
PROPERTIES
    SavesInOrder
    EveryOperationEnds
    LocksAreFreed
    OperationsLive
    StartedInTurn
