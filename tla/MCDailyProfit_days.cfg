SPECIFICATION Spec
CONSTANTS
    i1 = i1
    i2 = i2
    u1 = u1
    u2 = u2
    s1 = s1
    Date = {1, 2}
    Unit = {u1, u2}
    Group = {g}
    Item = {i1, i2}
    PaidOn <- MCPaidOn
    Sig = {s1}
    SigOf <- MCSigOf
    FeeKnown = {i2}
    Cost = {c}
    Rated = {}
    Price = {3500}
    None = None
    MaxCommands = 4
INVARIANTS
    RowsAsLive
    AnswersAgree
    AdsAccounted
PROPERTIES
    PastCostsStay
SYMMETRY Units
CHECK_DEADLOCK FALSE
