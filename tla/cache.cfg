SPECIFICATION Spec
CONSTANTS
    Reader = {r1, r2, r3}
    NoMap = NoMap
    NoOwner = NoOwner
    WaitAttempts = 2
    MaxVersion = 2
    MaxLapses = 2
    MaxOverruns = 1
    MaxFaults = 2
SYMMETRY Symmetry
INVARIANTS
    CacheTypeOK
    OneHydrator
    LoadsBounded
    CacheNeverRegresses
PROPERTIES
    OwnMutexOnly
    ImplementsMapService
    ReadsMoveForward
CHECK_DEADLOCK FALSE
