SPECIFICATION AllSpec
CONSTANTS
    MaxText = 3
    MaxValue = 2
    MaxRecord = 2
    SomeBytes = {0, 3, 97, 165, 248, 255}
    MaxPlain = 5
    Quota = 1
    Quotas = {2, 3}
    MaxLines = 9
    MaxKills = 2
    Period = 3
    MaxClock = 9
    MaxBytes = 3
    MaxTransfers = 4
    MaxBody = 3
    StringLengths = {0, 1, 70}
    PayloadLengths = {0, 1, 124, 125, 16380, 16381}
    ReaderLen = 16386
    MaxSaid = 2
    MaxAgain = 3
    MaxTopic = 4
    MAX_MESSAGE_HANDLERS = 1
    Topics = {t1, t2}
    MaxCommands = 4
    MaxBreaks = 1
    MaxIncoming = 1
    Sec = 2
    Timers = {timer1, timer2}
    Vals = {0, 3}
    MaxTimers = 2
    Xids = {own, other}
    Own = own
    MsgIDs = {1}
    Handled = {other}
    Nap = 1
    MaxTurn = 2
    MaxRecords = 2
    MaxBatches = 2
INVARIANTS
    ReadsBack
    CodesAndBack
    
    SilenceEnds
    OptionsAreTheTransfers
    ReadAsSaid
    MatchesByLevels
    PublishedHasArrived
    NeverLate
    ReadsAsWritten
PROPERTY NeverEarly
\* Every part may stop: texts, transfers and calls are bounded.
CHECK_DEADLOCK FALSE
