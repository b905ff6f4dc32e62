SPECIFICATION Spec
CONSTANTS
    Caller = {c1, c2}
    MaxRenewals = 4
    MaxFailures = 3
    NoToken = NoToken
INVARIANTS
    RenewedOnce
    FailsForItsOwnCause
PROPERTIES
    EveryCallEnds
CHECK_DEADLOCK FALSE
