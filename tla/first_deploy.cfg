SPECIFICATION Spec
CONSTANTS
    Call = {c1, c2}
    Seat = {s1}
    Worker = {w1}
    NoHold = NoHold
    BatchSize = 1
    FirstDeploy = TRUE
    Kinds = {"hold", "order"}
    ReleasesSent = FALSE
    WorkerOnBackplane = TRUE
    MaxFaults = 0
INVARIANTS
    AtLeastOnce
