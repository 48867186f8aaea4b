SPECIFICATION Spec
CONSTANTS
    Call = {c1, c2, c3}
    Seat = {s1}
    Worker = {w1}
    NoHold = NoHold
    BatchSize = 1
    FirstDeploy = FALSE
    Kinds = {"hold", "order"}
    ReleasesSent = TRUE
    WorkerOnBackplane = TRUE
    MaxFaults = 0
INVARIANTS
    OneOrderPerSeat
