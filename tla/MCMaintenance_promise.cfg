SPECIFICATION MSpec
CONSTANTS
    l1 = l1
    o1 = o1
    d1 = d1
    b1 = b1
    s1 = s1
    Domain = {l1, d1}
    Log = {l1}
    Operation = {o1}
    Batch = {b1}
    State = {s1}
    Tables <- MCTables
    Call = {c1, c2, c3}
    NoCall = NoCall
    NoHash = NoHash
    MaxFaults = 2
    MaxBeside = 2
SYMMETRY MCCalls
INVARIANTS
    MemoryServesTheStored
PROPERTIES
    KeepsThePromise
CHECK_DEADLOCK FALSE
