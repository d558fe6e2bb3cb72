\* Orders of two units against a limit of three: a second order on a side is
\* too much when the first is not all filled.  One restart at any point.
SPECIFICATION FairSpec
CONSTANTS
    Prices = {1, 2}
    clip = 2
    max_order_size = 2
    max_position = 3
    MaxOrders = 3
    MaxRestarts = 1
INVARIANTS
    OneOrderPerSide
    PositionWithinLimit
    QuietSlotsAgree
PROPERTIES
    LiveOrderHeardOf
CHECK_DEADLOCK FALSE
