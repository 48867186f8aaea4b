SPECIFICATION FairSpec
CONSTANTS
    Call = {c1, c2}
    Seat = {s1}
    Worker = {w1}
    NoHold = NoHold
    BatchSize = 1
    FirstDeploy = FALSE
    Kinds = {"hold", "order"}
    ReleasesSent = FALSE
    WorkerOnBackplane = FALSE
    MaxFaults = 0
PROPERTIES
    BookedIsShown
