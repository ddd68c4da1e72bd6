SPECIFICATION Spec
CONSTANTS
    Cpp = FALSE
    MAX_MESSAGE_HANDLERS = 1
    Topics = {t1, t2}
    MaxCommands = 4
    MaxBreaks = 1
    MaxIncoming = 1
INVARIANT PublishedHasArrived
CHECK_DEADLOCK FALSE
