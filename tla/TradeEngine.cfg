\* Averages of thirds and flips in both directions; a book with a bid of zero.
SPECIFICATION Spec
CONSTANTS
    TickerIds = {0, 1, 2}
    MaxTickers = 2
    Traded = {0}
    BBOs <- MCBBOs
    Prices = {1, 3}
    Quantities = {1, 2}
    threshold = 1
    MaxVolume = 4
INVARIANTS
    MarkedToMarket
    OpenVwapIsThePosition
    ValuedAtTheBook
    QuotesFollowTheBook
