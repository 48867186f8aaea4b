SPECIFICATION Spec
CONSTANTS
    Window = 3
    Limit = 2
    Ttl = 4
    MaxLag = 1
    MaxTime = 8
    MaxSent = 6
INVARIANTS
    WindowTypeOK
    LimitHolds
    RefusalHasCause
CHECK_DEADLOCK FALSE
