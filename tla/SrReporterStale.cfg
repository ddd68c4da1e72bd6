SPECIFICATION Spec
CONSTANTS
    Chunk = 2
    Xids = {x1}
    NoXid = NoXid
    Prios = {TRUE}
    Capacities = {4}
    Batch = 3
    Retries = 1
    MaxSend = 5
INVARIANTS LostOnlyByEviction
