SPECIFICATION AllSpec
CONSTANTS
    Val = 10
    Wrap = 4
    MaxNap = 3
    Gap = 2
    MaxKicks = 3
    MaxRequests = 2
    MaxFaults = 4
    Xids = {x}
    Orders = {"batch first", "advice last"}
    MaxOps = 2
    MaxCalls = 3
    MaxFailures = 1
    KeepAlive = TRUE
    LateAnswers = FALSE
    BreakInside = FALSE
    Retries = 2
    MaxNews = 1
    MaxBreaks = 1
INVARIANTS
    HealthyNeverKilled
    KilledInTime
    UpAsRegistered
    ConnectsInOrder
    HandedAsPublished
PROPERTIES
    
    RegisteredOnce
    ComesUp
    OpsArrive
    Delivered
    
\* The daemon may end, a program may be up, a push may sleep for ever.
CHECK_DEADLOCK FALSE
