\* One recovery through the socket.
SPECIFICATION Spec
CONSTANTS
    Orders = {1}
    InRange = {1}
    Qtys = {1}
    MaxFaults = 1
    SnapshotPoolSize = 1
    MaxUpdates = 2
    MaxUnheard = 1
    MaxInFlight = 1
    Entries = {"socket"}
    BufferFrames = 2
    SizeT = 8
INVARIANTS
    ParsesWhatItReceived
CHECK_DEADLOCK FALSE
