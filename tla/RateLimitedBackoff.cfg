SPECIFICATION Spec
CONSTANTS
    r1 = r1
    r2 = r2
    r3 = r3
    x = x
    y = y
    Requests = {r1, r2}
    Hosts = {x}
    HostOf <- TwoRequests
    Workers = {w1, w2}
    PerHostLimit = 1
    MaxDelay = 2
    MaxLimited = 1
    Stop = Stop
    MayClose = FALSE
    None = None
SYMMETRY MCSymmetry
INVARIANT BackoffRespected
CHECK_DEADLOCK FALSE
