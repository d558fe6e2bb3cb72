\* A client that restarts; a sequencer that two requests fill; reads with and
\* without a time stamp.
SPECIFICATION Spec
CONSTANTS
    Clients = {1}
    ClientIds = {1}
    MaxConnections = 2
    MaxRequests = 3
    MaxRestarts = 1
    KernelTime = FALSE
    MaxPending = 2
    MaxResponses = 3
INVARIANTS
    NoDanglingSocket
    RequestsInOrder
    ResponsesInOrder
CHECK_DEADLOCK FALSE
