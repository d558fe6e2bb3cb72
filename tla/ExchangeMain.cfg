\* Two requests, which the pill may find waiting, and queues that the
\* responses to them can fill.
SPECIFICATION FairSpec
CONSTANTS
    TickerIds = {0, 1}
    MaxTickers = 1
    Capacity = 4
    MaxRequests = 2
    SnapshotWalk = 2
INVARIANTS
    RequestsServedInOrder
    NothingFreedInUse
    UpdatesAllPublished
PROPERTIES
    ShutdownCompletes
CHECK_DEADLOCK FALSE
