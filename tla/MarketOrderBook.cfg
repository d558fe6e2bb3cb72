\* Three orders at rest among four prices, of which the first and the last
\* share a slot, an id that does not fit, and a level whose quantities
\* overflow.
SPECIFICATION Spec
CONSTANTS
    MaxOrderIds = 4
    MaxPriceLevels = 3
    QtyModulus = 4
    Prices = {0, 1, 2, 3}
    Qtys = {1, 3}
    MaxId = 4
INVARIANTS
    HeapSound
    ShowsTheFeed
    BBOIsBest
