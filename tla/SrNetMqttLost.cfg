SPECIFICATION Spec
CONSTANTS
    KeepAlive = TRUE
    LateAnswers = FALSE
    BreakInside = FALSE
    Retries = 2
    MaxOps = 2
    MaxNews = 1
    MaxBreaks = 1
INVARIANT PublishedIsNotLost
