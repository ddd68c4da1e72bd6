SPECIFICATION Spec
CONSTANTS
    Period = 3
    MaxClock = 12
    MaxBytes = 3
INVARIANTS
    CancelAborts
CHECK_DEADLOCK FALSE
