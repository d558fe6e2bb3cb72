\* Two clients, two orders at most in the book; prices 1 and 4 share a slot,
\* and an order may have no quantity.
SPECIFICATION FairSpec
CONSTANTS
    MaxNumClients = 2
    MaxOrderIds = 2
    OrderPoolSize = 2
    MaxPriceLevels = 3
    Prices = {1, 2, 3, 4}
    Qtys = {0, 1, 2}
    MaxMarketOrderId = 4
INVARIANTS
    ChainsSorted
    SlotsMatchChains
    LevelsHoldTheirOrders
    TimePriority
    NotCrossed
    IndexExact
    FeedMatchesBook
    LedgerMatchesBook
    OnlyOrderPoolRunsOut
PROPERTIES
    ImplementsLimitOrderBook
    AddTerminates
CHECK_DEADLOCK FALSE
