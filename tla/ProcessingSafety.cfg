SPECIFICATION Spec
CONSTANTS
    ev = ev
    cb = cb
    openai = openai
    claude = claude
    Events = {ev, cb}
    Providers = {openai, claude}
    Callbacks = {cb}
    Retriever = openai
    Route <- BothRoutes
    Workers = {w1, w2}
    MaxDelivery = 2
    RowRank <- BothRanks
    PendingLimit = 1
    NoData = NoData
SYMMETRY MCSymmetry
INVARIANTS TypeOK ResultsAgree NoRepeatedWork ResultsAreRecorded NothingForgotten
CHECK_DEADLOCK FALSE
