SPECIFICATION FairSpec
CONSTANTS
    Reader = {r1, r2}
    NoMap = NoMap
    NoOwner = NoOwner
    WaitAttempts = 8
    MaxVersion = 0
    MaxLapses = 0
    MaxOverruns = 0
    MaxFaults = 0
PROPERTIES
    WaitersAreServed
CHECK_DEADLOCK FALSE
