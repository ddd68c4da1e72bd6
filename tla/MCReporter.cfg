SPECIFICATION AllSpec
CONSTANTS
    Chunk = 4
    Prios = {TRUE, FALSE}
    Capacities = {3, 4}
    MaxSend = 4
    PagedChunk = 3
    PagedPrios = {TRUE}
    PagedCapacities = {7}
    PagedMaxSend = 5
    Xids = {x1, x2}
    NoXid = NoXid
    Batch = 3
    Retries = 1
INVARIANTS
    LostOnlyByEviction
    PagedKeepsTheUnread
    PagedRightTemplate
PROPERTIES
    GrowsWithinCapacity
    PagedFirstReadInOrder
    PagedDrained
