SPECIFICATION Spec
CONSTANTS
    Call = {c1, c2, c3}
    Seat = {s1}
    Worker = {w1, w2}
    NoHold = NoHold
    BatchSize = 1
    FirstDeploy = FALSE
    Kinds = {"hold", "order"}
    ReleasesSent = TRUE
    WorkerOnBackplane = TRUE
    MaxFaults = 1
SYMMETRY Symmetry
INVARIANTS
    EngineTypeOK
    SoldOnce
    LedgerAgrees
    AtLeastOnce
    WorkIsRecoverable
    AcceptedNotLost
    ShownSoldIsSold
    NoOrderMeanwhile
    StreamBounded
PROPERTIES
    SoldIsFinal
    OwnReleaseOnly
    ImplementsSale
