SPECIFICATION FairSpec
CONSTANTS
    g1 = g1
    g2 = g2
    s = s
    a = a
    a2 = a2
    b = b
    Events = {g1, g2, s}
    Github = {g1, g2}
    Admitted = {g1}
    Envelopes = {a, a2, b}
    NoEnvelope = NoEnvelope
    ContentOf <- MCContentOf
    Requests <- LivenessRequests
    Handlers = {h1}
    Oversize = {s}
    RowRank <- MCRowRank
    PendingLimit = 2
    DailyLimit = 1
    MaxDay = 1
PROPERTY PendingIsDispatched
