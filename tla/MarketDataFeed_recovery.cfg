\* Does a recovery end?  Order 2 has an id that the arrays do not hold, and
\* order 1 can be modified.
SPECIFICATION FairSpec
CONSTANTS
    Orders = {1, 2}
    InRange = {1}
    Qtys = {1, 2}
    MaxFaults = 2
    SnapshotPoolSize = 1
    MaxUpdates = 3
    MaxUnheard = 0
    MaxInFlight = 1
    Entries = {"socket", "hook"}
    BufferFrames = 2
    SizeT = 8
PROPERTIES
    RecoveryEnds
CHECK_DEADLOCK FALSE
