SPECIFICATION FairSpec
CONSTANTS
    ev = ev
    cb = cb
    openai = openai
    claude = claude
    Events = {ev, cb}
    Providers = {openai}
    Callbacks = {cb}
    Retriever = openai
    Route <- OneRoute
    Workers = {w1}
    MaxDelivery = 2
    RowRank <- BothRanks
    PendingLimit = 2
    NoData = NoData
PROPERTIES QueuedIsPublished StoredIsPublished
CHECK_DEADLOCK FALSE
