SPECIFICATION FairSpec
CONSTANTS
    Call = {c1, c2}
    Seat = {s1}
    Worker = {w1, w2}
    NoHold = NoHold
    BatchSize = 1
    FirstDeploy = FALSE
    Kinds = {"hold", "order"}
    ReleasesSent = FALSE
    WorkerOnBackplane = FALSE
    MaxFaults = 1
INVARIANTS
    OneOrderPerSeat
    OrdersKeepTheirSeats
PROPERTIES
    PublishedOrdersSettle
    OnlyAbortsStrand
    PendingDrains
