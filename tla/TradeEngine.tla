---------------------------- MODULE TradeEngine ----------------------------
(***************************************************************************)
(* The one thread of the trading client that trades                        *)
(* (trading/strategy/trade_engine.cpp): it routes fills and market updates *)
(* of several instruments to the positions, the signals and the strategy.  *)
(*                                                                         *)
(* A local book is what it shows, its BBO (module MarketOrderBook): an     *)
(* update leaves any of BBOs.  One FeatureEngine serves every instrument   *)
(* (feature_engine.h).  What the strategy (market_maker.cpp,               *)
(* liquidity_taker.cpp) asks of the order manager is kept in quote; what   *)
(* the order manager makes of it is module OrderManager.                   *)
(*                                                                         *)
(* A name of the form Operator_Fault is a faulty variant of the operator   *)
(* that follows it; no specification uses one.                             *)
(***************************************************************************)
EXTENDS PositionKeeper

CONSTANTS
    TickerIds,          \* the ids that messages carry
    MaxTickers,         \* ME_MAX_TICKERS: the ids below it have a book
    Traded,             \* the tickers whose risk limits let orders through
    BBOs,               \* what a local book may show
    Prices, Quantities, \* of fills and trades
    threshold,          \* cfg.threshold_
    MaxVolume           \* bound on the volume traded of a ticker

Tickers == { t \in TickerIds : t < MaxTickers }
NoBBO == [bid_price |-> NoPrice, bid_qty |-> 0, ask_price |-> NoPrice, ask_qty |-> 0]

TwoSided(b) == b.bid_price # NoPrice /\ b.ask_price # NoPrice

\* A book is never crossed (MarketOrderBook: BBOIsBest), and a price has a width.
ASSUME EngineAssumption ==
    /\ TickerIds \subseteq Nat /\ MaxTickers \in Nat /\ Traded \subseteq Tickers
    /\ BBOs \subseteq [bid_price : Nat \cup {NoPrice}, bid_qty : Nat,
                       ask_price : Nat \cup {NoPrice}, ask_qty : Nat]
    /\ \A b \in BBOs : TwoSided(b) => b.bid_price < b.ask_price
    /\ Prices \subseteq Nat /\ \E p \in Prices : \A q \in Prices : q <= p
    /\ Quantities \subseteq Nat \ {0} /\ threshold \in Nat /\ MaxVolume \in Nat

VARIABLES
    bbo,                    \* of the book of each ticker
    info,                   \* its PositionInfo
    cash,                   \* money received less money paid for its fills
    mark,                   \* the price at which its position was last valued
    mkt_price, agg_trade_qty_ratio,     \* the signals
    algo,                   \* the strategy whose callbacks are installed
    quote                   \* what the strategy asked for in the last step

positions == <<info, cash, mark>>
signals == <<mkt_price, agg_trade_qty_ratio>>
vars == <<bbo, info, cash, mark, mkt_price, agg_trade_qty_ratio, algo, quote>>

Feature_INVALID == [num |-> 0, den |-> 0]        \* not a number
NoQuote == [ticker |-> NoPrice]

Init ==
    /\ bbo = [t \in Tickers |-> NoBBO]
    /\ info = [t \in Tickers |-> NoPosition]
    /\ cash = [t \in Tickers |-> 0] /\ mark = [t \in Tickers |-> Whole(0)]
    /\ mkt_price = Feature_INVALID /\ agg_trade_qty_ratio = Feature_INVALID
    /\ algo = "none" /\ quote = NoQuote

----------------------------------------------------------------------------
(* FeatureEngine.                                                          *)

\* The mid price, each side weighted by the quantity of the other; 0/0 is not a
\* number, when both quantities have wrapped to zero.
onOrderBookUpdate(b) ==
    IF TwoSided(b)
    THEN IF b.bid_qty + b.ask_qty = 0 THEN Feature_INVALID
         ELSE Fraction(b.bid_price * b.ask_qty + b.ask_price * b.bid_qty, b.bid_qty + b.ask_qty)
    ELSE mkt_price

\* The part of the best level that the aggressor took.
onTradeUpdate(b, side, qty) ==
    LET aggressed_qty == IF side = "BUY" THEN b.ask_qty ELSE b.bid_qty
    IN  IF TwoSided(b) /\ aggressed_qty > 0 THEN Fraction(qty, aggressed_qty)
        ELSE agg_trade_qty_ratio

----------------------------------------------------------------------------
(* The strategies.                                                         *)

Quotable(b, signal) == TwoSided(b) /\ signal # Feature_INVALID

\* Joins a side that the fair price supports, or steps back by one.
MarketMaker(ticker, b, fair_price) ==
    IF algo = "MAKER" /\ Quotable(b, fair_price)
    THEN [ticker |-> ticker, algo |-> algo,
          bid_price |-> b.bid_price -
              IF AtMost(Whole(threshold), Minus(fair_price, Whole(b.bid_price))) THEN 0 ELSE 1,
          ask_price |-> b.ask_price +
              IF AtMost(Whole(threshold), Minus(Whole(b.ask_price), fair_price)) THEN 0 ELSE 1]
    ELSE NoQuote

\* Follows an aggressor who took enough of the best level.
LiquidityTaker(ticker, b, side, qty, ratio) ==
    IF algo = "TAKER" /\ Quotable(b, ratio) /\ AtMost(Whole(threshold), ratio)
    THEN [ticker |-> ticker, algo |-> algo, qty |-> qty,
          bid_price |-> IF side = "BUY" THEN b.ask_price ELSE NoPrice,
          ask_price |-> IF side = "BUY" THEN NoPrice ELSE b.bid_price]
    ELSE NoQuote

----------------------------------------------------------------------------
(* TradeEngine::run.                                                       *)

\* The fill is not valued at the book.
handleResponse_NotRevalued(ticker, side, price, qty) ==
    LET filled == addFill(info[ticker], side, price, qty)
    IN  /\ filled.volume <= MaxVolume
        /\ info' = [info EXCEPT ![ticker] = filled]
        /\ cash' = [cash EXCEPT ![ticker] = @ - sideToValue(side) * price * qty]
        /\ mark' = [mark EXCEPT ![ticker] = Whole(price)]
        /\ quote' = NoQuote
        /\ UNCHANGED <<bbo, signals, algo>>
\* A fill, which is then valued at the book.
handleResponse(ticker, side, price, qty) ==
    LET filled == addFill(info[ticker], side, price, qty)
    IN  /\ filled.volume <= MaxVolume
        /\ info' = [info EXCEPT ![ticker] = updateBBO(filled, bbo[ticker])]
        /\ cash' = [cash EXCEPT ![ticker] = @ - sideToValue(side) * price * qty]
        /\ mark' = [mark EXCEPT ![ticker] =
                       IF Values(filled.position, bbo[ticker]) THEN Mid(bbo[ticker])
                       ELSE Whole(price)]
        /\ quote' = NoQuote
        /\ UNCHANGED <<bbo, signals, algo>>

\* The strategy is called before the signal is computed.
handleBookUpdate_StrategyFirst(ticker, shown) ==
    /\ bbo' = [bbo EXCEPT ![ticker] = shown]
    /\ mkt_price' = onOrderBookUpdate(shown)
    /\ info' = [info EXCEPT ![ticker] = updateBBO(@, shown)]
    /\ mark' = [mark EXCEPT ![ticker] =
                   IF Values(info[ticker].position, shown) THEN Mid(shown) ELSE @]
    /\ quote' = MarketMaker(ticker, shown, mkt_price)
    /\ UNCHANGED <<cash, agg_trade_qty_ratio, algo>>
\* An update of a book that is not a trade: book, signal, position, strategy.
handleBookUpdate(ticker, shown) ==
    /\ bbo' = [bbo EXCEPT ![ticker] = shown]
    /\ mkt_price' = onOrderBookUpdate(shown)
    /\ info' = [info EXCEPT ![ticker] = updateBBO(@, shown)]
    /\ mark' = [mark EXCEPT ![ticker] =
                   IF Values(info[ticker].position, shown) THEN Mid(shown) ELSE @]
    /\ quote' = MarketMaker(ticker, shown, mkt_price')
    /\ UNCHANGED <<cash, agg_trade_qty_ratio, algo>>

\* A trade leaves the book as it is.
handleTrade(ticker, side, qty) ==
    /\ agg_trade_qty_ratio' = onTradeUpdate(bbo[ticker], side, qty)
    /\ quote' = LiquidityTaker(ticker, bbo[ticker], side, qty, agg_trade_qty_ratio')
    /\ UNCHANGED <<bbo, positions, mkt_price, algo>>

\* A ticker id without a book: CLEAR is for every book, anything else is dropped.
handleUnknown(type) ==
    /\ bbo' = IF type = "CLEAR" THEN [t \in Tickers |-> NoBBO] ELSE bbo
    /\ quote' = NoQuote
    /\ UNCHANGED <<positions, signals, algo>>

\* main plugs the strategy in while the engine runs.
Install(type) ==
    /\ algo = "none" /\ algo' = type
    /\ quote' = NoQuote
    /\ UNCHANGED <<bbo, positions, signals>>

Responses ==
    \E ticker \in TickerIds, side \in {"BUY", "SELL"}, price \in Prices, qty \in Quantities :
        \/ ticker \in Traded /\ handleResponse(ticker, side, price, qty)
        \/ ticker \notin Tickers /\ quote' = NoQuote
           /\ UNCHANGED <<bbo, positions, signals, algo>>

MarketUpdates ==
    \E ticker \in TickerIds :
        \/ /\ ticker \in Tickers
           /\ \/ \E shown \in BBOs \cup {NoBBO} : handleBookUpdate(ticker, shown)
              \/ \E side \in {"BUY", "SELL"}, qty \in Quantities : handleTrade(ticker, side, qty)
        \/ ticker \notin Tickers /\ \E type \in {"CLEAR", "ADD"} : handleUnknown(type)

Next ==
    \/ Responses
    \/ MarketUpdates
    \/ \E type \in {"MAKER", "TAKER"} : Install(type)

Spec == Init /\ [][Next]_vars

----------------------------------------------------------------------------
(* Properties.                                                             *)

(* total_pnl_ is what the client would have if it closed its position at   *)
(* the price of the last valuation, however often the position was         *)
(* increased, reduced, closed and flipped: the averages lose nothing.      *)
MarkedToMarket ==
    \A t \in Tickers :
        info[t].total_pnl = Plus(Whole(cash[t]), Times(mark[t], info[t].position))

(* What is kept open belongs to the position: the other side's sum is      *)
(* zero, and the average price of the position lies between the lowest and *)
(* the highest of Prices, those at which there may be fills.               *)
OpenVwapIsThePosition ==
    \A t \in Tickers :
        LET side == IF info[t].position > 0 THEN "BUY" ELSE "SELL"
            held == Abs(info[t].position)
        IN  /\ info[t].open_vwap[Opposite(side)] = Whole(0)
            /\ AtMost(Whole(held * Min(Prices)), info[t].open_vwap[side])
            /\ AtMost(info[t].open_vwap[side], Whole(held * Max(Prices)))

(* The profit that the loss limit is checked against is that of the        *)
(* present book whenever the book has two sides: no fill, trade or CLEAR   *)
(* leaves a valuation of an earlier one.                                   *)
ValuedAtTheBook ==
    \A t \in Tickers :
        TwoSided(bbo[t]) /\ info[t].position # 0 =>
            info[t].total_pnl = Plus(Whole(cash[t]), Times(Mid(bbo[t]), info[t].position))

(* The signals are shared by all tickers and survive the book they were    *)
(* computed from; still, a strategy acts only on two-sided books and on a  *)
(* signal of the very book it acts on: the maker joins a side exactly when *)
(* its share of the spread reaches the threshold and never crosses itself, *)
(* the taker follows only a trade that took enough of the level it hit.    *)
(* (Of a level whose quantity has wrapped to zero any trade takes enough.) *)
QuotesFollowTheBook ==
    quote # NoQuote =>
        LET b == bbo[quote.ticker]
            spread == b.ask_price - b.bid_price
            Joins(qty) == spread * qty >= threshold * (b.bid_qty + b.ask_qty)
        IN  /\ TwoSided(b)
            /\ quote.algo = "MAKER" =>
                  /\ quote.bid_price = IF Joins(b.bid_qty) THEN b.bid_price ELSE b.bid_price - 1
                  /\ quote.ask_price = IF Joins(b.ask_qty) THEN b.ask_price ELSE b.ask_price + 1
                  /\ quote.bid_price < quote.ask_price
            /\ quote.algo = "TAKER" =>
                  \/ /\ quote.bid_price = b.ask_price /\ quote.ask_price = NoPrice
                     /\ quote.qty >= threshold * b.ask_qty
                  \/ /\ quote.ask_price = b.bid_price /\ quote.bid_price = NoPrice
                     /\ quote.qty >= threshold * b.bid_qty

=============================================================================
