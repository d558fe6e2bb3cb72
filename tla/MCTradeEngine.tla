--------------------------- MODULE MCTradeEngine ---------------------------
(* An instance of TradeEngine: two tickers with a book, of which one is    *)
(* traded, and an id without one.                                          *)
EXTENDS TradeEngine

Show(bid_price, bid_qty, ask_price, ask_qty) ==
    [bid_price |-> bid_price, bid_qty |-> bid_qty, ask_price |-> ask_price, ask_qty |-> ask_qty]

\* Two spreads, two balances of the sides, quantities that wrapped to zero, and
\* books with one side.
MCBBOs == {Show(1, 1, 3, 1), Show(0, 2, 3, 1), Show(0, 1, 1, 2), Show(0, 0, 1, 0),
           Show(1, 1, NoPrice, 0), Show(NoPrice, 0, 3, 2)}

=============================================================================
