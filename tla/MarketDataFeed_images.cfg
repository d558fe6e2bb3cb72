\* Images of up to two orders, a pool that a third one exhausts, two faults:
\* one to start a recovery and one to spoil it.
SPECIFICATION Spec
CONSTANTS
    Orders = {1, 2, 3}
    InRange = {1, 2, 3}
    Qtys = {1}
    MaxFaults = 2
    SnapshotPoolSize = 2
    MaxUpdates = 3
    MaxUnheard = 1
    MaxInFlight = 2
    Entries = {"socket", "hook"}
    BufferFrames = 2
    SizeT = 8
INVARIANTS
    InSync
    ImageInSync
    BufferAhead
CHECK_DEADLOCK FALSE
