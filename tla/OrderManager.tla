---------------------------- MODULE OrderManager ----------------------------
(***************************************************************************)
(* The trading client's orders in one instrument                           *)
(* (trading/strategy/order_manager.cpp, risk_manager.h, and the part of    *)
(* trade_engine.cpp and position_keeper.h that feeds them).                *)
(*                                                                         *)
(* One thread, TradeEngine::run, handles the exchange's responses and      *)
(* calls the strategy, which calls moveOrders.  Requests and responses     *)
(* pass through queues that keep their order.                              *)
(*                                                                         *)
(* A name of the form Operator_Fault is a faulty variant of the operator   *)
(* that follows it; no specification uses one.                             *)
(***************************************************************************)
EXTENDS Integers, Sequences

CONSTANTS
    Prices,         \* the prices that the strategy quotes
    clip,           \* cfg.clip_
    max_order_size, max_position,   \* cfg.risk_cfg_
    MaxOrders       \* bound on the orders of the client

NoPrice == 0        \* Price{}, which is INVALID

ASSUME OrdersAssumption ==
    /\ NoPrice \notin Prices
    /\ clip \in Nat \ {0} /\ max_order_size \in Nat /\ max_position \in Nat
    /\ MaxOrders \in Nat

VARIABLES
    ticker_side_order,      \* one slot for each side: INVALID, PENDING_NEW, LIVE,
                            \* PENDING_CANCEL or DEAD
    next_order_id,
    position,               \* PositionInfo::position_
    outgoing_requests, incoming_responses

client == <<ticker_side_order, next_order_id, position>>

Sides == {"BUY", "SELL"}
NoSide == "INVALID"     \* Side::INVALID
sideToValue(side) == IF side = "BUY" THEN 1 ELSE -1

NoOrder == [order_id |-> 0, price |-> NoPrice, qty |-> 0, order_state |-> "INVALID"]

ClientInit ==
    /\ ticker_side_order = [side \in Sides |-> NoOrder]
    /\ next_order_id = 1 /\ position = 0

----------------------------------------------------------------------------
(* Requests.                                                               *)

Abs(n) == IF n < 0 THEN -n ELSE n

\* Only the present position is looked at.
checkPreTradeRisk_PresentPosition(side, qty, loss) ==
    qty <= max_order_size /\ Abs(position) <= max_position /\ ~loss
\* loss: total_pnl_ is below max_loss_.
checkPreTradeRisk(side, qty, loss) ==
    /\ qty <= max_order_size
    /\ Abs(position + sideToValue(side) * qty) <= max_position
    /\ ~loss

CancelsOrder(side, price, qty) ==
    LET order == ticker_side_order[side]
    IN  order.order_state = "LIVE" /\ (order.price # price \/ order.qty # qty)

\* An order whose cancel is on its way is taken for gone.
PlacesOrder_WhilePending(side, price, qty, loss) ==
    /\ ticker_side_order[side].order_state \in {"INVALID", "DEAD", "PENDING_CANCEL"}
    /\ price # NoPrice /\ checkPreTradeRisk(side, qty, loss)
PlacesOrder(side, price, qty, loss) ==
    /\ ticker_side_order[side].order_state \in {"INVALID", "DEAD"}
    /\ price # NoPrice /\ checkPreTradeRisk(side, qty, loss)

newOrder(side, price, qty, id) ==
    [order_id |-> id, price |-> price, qty |-> qty, order_state |-> "PENDING_NEW"]
NewRequest(side, qty, id) ==
    [type |-> "NEW", order_id |-> id, side |-> side, qty |-> qty]

cancelOrder(order) == [order EXCEPT !.order_state = "PENDING_CANCEL"]
CancelRequest(side) ==
    [type |-> "CANCEL", order_id |-> ticker_side_order[side].order_id, side |-> side,
     qty |-> ticker_side_order[side].qty]

\* What moveOrder leaves in the slot, and what it sends.
moveOrder(side, price, qty, loss, id) ==
    IF CancelsOrder(side, price, qty) THEN cancelOrder(ticker_side_order[side])
    ELSE IF PlacesOrder(side, price, qty, loss) THEN newOrder(side, price, qty, id)
    ELSE ticker_side_order[side]
Sent(side, price, qty, loss, id) ==
    IF CancelsOrder(side, price, qty) THEN <<CancelRequest(side)>>
    ELSE IF PlacesOrder(side, price, qty, loss) THEN <<NewRequest(side, qty, id)>>
    ELSE <<>>

\* The bid is moved first.
moveOrders(bid_price, ask_price, loss) ==
    LET Places(side, price) == IF PlacesOrder(side, price, clip, loss) THEN 1 ELSE 0
        bid_id == next_order_id
        ask_id == bid_id + Places("BUY", bid_price)
    IN  /\ next_order_id' = ask_id + Places("SELL", ask_price)
        /\ next_order_id' <= MaxOrders + 1
        /\ ticker_side_order' =
              [side \in Sides |-> IF side = "BUY"
                                  THEN moveOrder(side, bid_price, clip, loss, bid_id)
                                  ELSE moveOrder(side, ask_price, clip, loss, ask_id)]
        /\ outgoing_requests' = outgoing_requests \o Sent("BUY", bid_price, clip, loss, bid_id)
                                                  \o Sent("SELL", ask_price, clip, loss, ask_id)
        /\ UNCHANGED <<position, incoming_responses>>

----------------------------------------------------------------------------
(* Responses.                                                              *)

\* A partial fill ends the order.
onOrderUpdate_FillEnds(order, response) ==
    CASE response.type = "ACCEPTED" -> [order EXCEPT !.order_state = "LIVE"]
      [] response.type \in {"CANCELED", "FILLED"} -> [order EXCEPT !.order_state = "DEAD"]
      [] OTHER -> order
\* A cancelled order is not noticed.
onOrderUpdate_IgnoresCanceled(order, response) ==
    CASE response.type = "ACCEPTED" -> [order EXCEPT !.order_state = "LIVE"]
      [] response.type = "FILLED" -> [order EXCEPT
            !.qty = response.leaves_qty,
            !.order_state = IF response.leaves_qty = 0 THEN "DEAD" ELSE @]
      [] OTHER -> order
\* What a response makes of the slot of its side, whichever order it is for.
onOrderUpdate(order, response) ==
    CASE response.type = "ACCEPTED" -> [order EXCEPT !.order_state = "LIVE"]
      [] response.type = "CANCELED" -> [order EXCEPT !.order_state = "DEAD"]
      [] response.type = "FILLED" -> [order EXCEPT
            !.qty = response.leaves_qty,
            !.order_state = IF response.leaves_qty = 0 THEN "DEAD" ELSE @]
      [] OTHER -> order

\* TradeEngine::handleResponse, with PositionInfo::addFill's position.  The
\* array has a third slot for Side::INVALID, which is never an order's.
handleResponse ==
    /\ incoming_responses # <<>>
    /\ LET response == Head(incoming_responses)
           side == response.side
       IN  /\ position' = IF response.type = "FILLED"
                          THEN position + sideToValue(side) * response.exec_qty ELSE position
           /\ ticker_side_order' =
                 [s \in Sides |-> IF s = side THEN onOrderUpdate(ticker_side_order[s], response)
                                  ELSE ticker_side_order[s]]
    /\ incoming_responses' = Tail(incoming_responses)
    /\ UNCHANGED <<next_order_id, outgoing_requests>>

=============================================================================
