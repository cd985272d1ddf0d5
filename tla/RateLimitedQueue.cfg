SPECIFICATION FairSpec
CONSTANTS
    r1 = r1
    r2 = r2
    r3 = r3
    x = x
    y = y
    Requests = {r1, r2, r3}
    Hosts = {x, y}
    HostOf <- ThreeRequests
    Workers = {w1, w2}
    PerHostLimit = 1
    MaxDelay = 1
    MaxLimited = 1
    Stop = Stop
    MayClose = TRUE
    None = None
INVARIANTS TypeOK InOnePlace
PROPERTIES EnqueuedIsSettled CloseReturns
CHECK_DEADLOCK FALSE
