SPECIFICATION FairSpec
CONSTANTS
    r1 = r1
    r2 = r2
    r3 = r3
    x = x
    y = y
    Requests = {r1, r2, r3}
    Hosts = {x, y}
    HostOf <- ThreeRequests
    Slots = {1}
    MaxAttempts = 2
    MaxDelay = 2
    None = None
INVARIANTS TypeOK InOnePlace BackoffRespected NothingLeftRunning
PROPERTIES EnqueuedIsSettled
CHECK_DEADLOCK FALSE
