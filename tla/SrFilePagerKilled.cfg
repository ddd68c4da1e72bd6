SPECIFICATION Spec
CONSTANTS
    PageSize = 4
    Lengths = {2, 6}
    InitCap = 3
    NewCaps = {}
    GrowInside = FALSE
    CrashInside = TRUE
    MaxBlocks = 3
    MaxCrashes = 1
    MaxFailures = 0
    Hole = Hole
INVARIANTS Durable
