\* Any two connections of two clients that the server knows and one that it
\* does not, bursts of two requests, one restart, room for every request.
SPECIFICATION FairSpec
CONSTANTS
    Clients = {1, 2, 3}
    ClientIds = {1, 2}
    MaxConnections = 2
    MaxRequests = 2
    MaxRestarts = 1
    KernelTime = TRUE
    MaxPending = 4
    MaxResponses = 0
INVARIANTS
    ArrivalOrder
PROPERTIES
    SessionsEnd
    FreshSessionServed
