SPECIFICATION FairSpec
CONSTANTS
    Socket = {k1, k2}
    Event = {e1, e2}
    Signal = {SIGTERM}
    MaxPublished = 2
    MaxDrops = 1
INVARIANTS
    AppTypeOK
    RoomsMatchStates
    NothingLeaks
    InOrder
    
PROPERTIES
    RoomsAreIsolated
    MembersAreTold
    ImplementsFeed
    DeadSocketsLeave
    OnlyLatecomersDelay
CHECK_DEADLOCK FALSE
