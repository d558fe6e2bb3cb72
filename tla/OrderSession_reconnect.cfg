\* One client that restarts once.
SPECIFICATION FairSpec
CONSTANTS
    Clients = {1}
    ClientIds = {1}
    MaxConnections = 2
    MaxRequests = 2
    MaxRestarts = 1
    KernelTime = TRUE
    MaxPending = 4
    MaxResponses = 0
PROPERTIES
    RequestsServed
