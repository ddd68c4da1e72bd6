SPECIFICATION Spec
CONSTANTS
    StringLengths = {0, 1, 70}
    PayloadLengths = {0, 1, 124, 125, 16380, 16381}
    ReaderLen = 16386
    MaxSaid = 2
    MaxAgain = 3
INVARIANTS
    WillIsSent
CHECK_DEADLOCK FALSE
