SPECIFICATION Spec
CONSTANTS
    g1 = g1
    g2 = g2
    s = s
    a = a
    a2 = a2
    b = b
    Events = {g1, g2}
    Github = {g1, g2}
    Admitted = {g1, g2}
    Envelopes = {a, a2, b}
    NoEnvelope = NoEnvelope
    ContentOf <- MCContentOf
    Requests <- SafetyRequests
    Handlers = {h1, h2}
    Oversize = {}
    RowRank <- SafetyRank
    PendingLimit = 2
    DailyLimit = 1
    MaxDay = 1
SYMMETRY MCSymmetry
INVARIANTS QuotaBoundsQueue TypeOK MessagesAgree SentIsHanded PointersResolve

PROPERTY ImplementsChannel
