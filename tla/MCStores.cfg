SPECIFICATION AllSpec
CONSTANTS
    Producers = {p1, p2}
    Getters = {g1, g2}
    Pollers = {}
    TimedPollers = {t1, t2}
    NoThread = NoThread
    MaxPuts = 2
    PageSize = 4
    Lengths = {2, 4, 6}
    InitCap = 3
    NewCaps = {2}
    MaxBlocks = 5
    MaxCrashes = 1
    MaxFailures = 1
    Hole = Hole
INVARIANTS
    GetReturnsAnElement
    NoStrandedElement
    
    
PROPERTIES
    ChannelSpec
    PolledChannelSpec
    AllDrained
\* A getter blocks in sem_wait for ever once the producers are done.
CHECK_DEADLOCK FALSE
