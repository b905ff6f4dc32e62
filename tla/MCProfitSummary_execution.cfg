SPECIFICATION Spec
CONSTANTS
    Date = {1, 2}
    Item = {i1}
    Request = {q1, q2}
    Runs = 1
    MaxAttempts = 2
    MaxChunks = 2
    MaxFaults = 2
INVARIANTS
    StaleIsOwedOrLost
PROPERTIES
    StaleIsSettled
CHECK_DEADLOCK FALSE
