SPECIFICATION Spec
CONSTANTS
    Cpp = TRUE
    MAX_MESSAGE_HANDLERS = 1
    Topics = {t1, t2}
    MaxCommands = 4
    MaxBreaks = 1
    MaxIncoming = 1
PROPERTY KeptForReconnect
CHECK_DEADLOCK FALSE
