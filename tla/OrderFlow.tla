----------------------------- MODULE OrderFlow -----------------------------
(***************************************************************************)
(* The trading client's orders and what the exchange does with them.       *)
(*                                                                         *)
(* Of the exchange only this client's orders are kept: a request is        *)
(* answered in its turn, a resting order may be filled at any time         *)
(* (Exchange/matcher/me_order_book.cpp).  The way there and back is one    *)
(* order session, which keeps the order (module OrderSession).             *)
(*                                                                         *)
(* A name of the form Operator_Fault is a faulty variant of the operator   *)
(* that follows it; no specification uses one.                             *)
(***************************************************************************)
EXTENDS OrderManager, FiniteSets, SequencesExt

CONSTANT MaxRestarts     \* bound on the restarts of the client

ASSUME FlowAssumption == MaxRestarts \in Nat

VARIABLES
    live,            \* the client's orders in the book
    orphans,         \* those of its earlier processes
    stale_requests,  \* how many of outgoing_requests an earlier process sent
    registered,      \* whether the order server has the present process's session
    restarts,
    earlier_orders,  \* how many orders the earlier processes sent
    mixed            \* the process has handled a response to an earlier one

exchange == <<live, orphans, registered>>
vars == <<client, outgoing_requests, incoming_responses, exchange, stale_requests,
          restarts, earlier_orders, mixed>>

WithId(id) == { o \in live \cup orphans : o.order_id = id }

Init ==
    /\ ClientInit
    /\ outgoing_requests = <<>> /\ incoming_responses = <<>>
    /\ live = {} /\ orphans = {} /\ stale_requests = 0 /\ registered = FALSE
    /\ restarts = 0 /\ earlier_orders = 0 /\ mixed = FALSE

----------------------------------------------------------------------------
(* The exchange.                                                           *)

\* A response, which the server drops without a session.  It names its
\* client, not the process that it is meant for: orphan tells them apart.
Respond(type, order_id, side, exec_qty, leaves_qty, orphan) ==
    incoming_responses' =
        IF registered
        THEN Append(incoming_responses,
                    [type |-> type, order_id |-> order_id, side |-> side,
                     exec_qty |-> exec_qty, leaves_qty |-> leaves_qty, orphan |-> orphan])
        ELSE incoming_responses

\* The order server parses the first request of a process, which registers
\* its session; earlier ones may still wait for the engine.
RegisterSession ==
    /\ ~registered /\ stale_requests < Len(outgoing_requests)
    /\ registered' = TRUE
    /\ UNCHANGED <<client, outgoing_requests, incoming_responses, live, orphans,
                   stale_requests, restarts, earlier_orders, mixed>>

NextIs(type) == outgoing_requests # <<>> /\ Head(outgoing_requests).type = type
Fresh == stale_requests = 0

\* The engine takes a request that the order server has parsed.
Taken ==
    /\ Fresh => registered
    /\ outgoing_requests' = Tail(outgoing_requests)
    /\ stale_requests' = IF Fresh THEN 0 ELSE stale_requests - 1
    /\ UNCHANGED <<client, registered, restarts, earlier_orders, mixed>>

Accepts ==
    /\ NextIs("NEW")
    /\ LET request == Head(outgoing_requests)
           order == [order_id |-> request.order_id, side |-> request.side,
                     leaves_qty |-> request.qty]
       IN  /\ WithId(request.order_id) = {}
           /\ live' = IF Fresh THEN live \cup {order} ELSE live
           /\ orphans' = IF Fresh THEN orphans ELSE orphans \cup {order}
           /\ Respond("ACCEPTED", order.order_id, order.side, 0, order.leaves_qty, ~Fresh)
    /\ Taken

\* The id of a live order, or a slot that a price of another client occupies:
\* the other clients are not here, so that any order may be refused.
Rejects ==
    /\ NextIs("NEW")
    /\ LET request == Head(outgoing_requests)
       IN  Respond("INVALID", request.order_id, request.side, 0, 0, ~Fresh)
    /\ Taken
    /\ UNCHANGED <<live, orphans>>

Left(orders, order, leaves) ==
    IF order \notin orders THEN orders
    ELSE (orders \ {order}) \cup
            (IF leaves = 0 THEN {} ELSE {[order EXCEPT !.leaves_qty = leaves]})

Fills(order, exec_qty) ==
    /\ LET leaves == order.leaves_qty - exec_qty
       IN  /\ live' = Left(live, order, leaves)
           /\ orphans' = Left(orphans, order, leaves)
           /\ Respond("FILLED", order.order_id, order.side, exec_qty, leaves, order \in orphans)
    /\ UNCHANGED <<client, outgoing_requests, stale_requests, registered, restarts,
                   earlier_orders, mixed>>

Cancels ==
    /\ NextIs("CANCEL")
    /\ LET request == Head(outgoing_requests)
           found == WithId(request.order_id)
       IN  \/ /\ found = {}
              /\ Respond("CANCEL_REJECTED", request.order_id, NoSide, 0, 0, ~Fresh)
              /\ UNCHANGED <<live, orphans>>
           \/ \E order \in found :
                 /\ live' = live \ {order} /\ orphans' = orphans \ {order}
                 /\ Respond("CANCELED", order.order_id, order.side, 0, 0,
                            ~Fresh \/ order \in orphans)
    /\ Taken

----------------------------------------------------------------------------
(* The client.                                                             *)

\* A market data callback of the strategy, whatever it quotes.
StrategyNext ==
    /\ \E bid_price, ask_price \in Prices \cup {NoPrice}, loss \in BOOLEAN :
          moveOrders(bid_price, ask_price, loss)
    /\ earlier_orders + next_order_id' <= MaxOrders + 1
    /\ UNCHANGED <<exchange, stale_requests, restarts, earlier_orders, mixed>>

HandleResponse ==
    /\ handleResponse
    /\ mixed' = (mixed \/ Head(incoming_responses).orphan)
    /\ UNCHANGED <<exchange, stale_requests, restarts, earlier_orders>>

\* The process ends and another one starts, with the first order id and no
\* position.  Its orders stay in the book; some of its requests have reached
\* the exchange; responses to it are lost.
Restart ==
    /\ restarts < MaxRestarts /\ restarts' = restarts + 1
    /\ ticker_side_order' = [side \in Sides |-> NoOrder]
    /\ next_order_id' = 1 /\ position' = 0 /\ mixed' = FALSE
    /\ earlier_orders' = earlier_orders + next_order_id - 1
    /\ live' = {} /\ orphans' = orphans \cup live
    /\ registered' = FALSE
    /\ \E sent \in stale_requests .. Len(outgoing_requests) :
          /\ outgoing_requests' = SubSeq(outgoing_requests, 1, sent)
          /\ stale_requests' = sent
    /\ incoming_responses' = <<>>

AnswerRequest == Accepts \/ Rejects \/ Cancels

Next ==
    \/ StrategyNext \/ HandleResponse \/ Restart
    \/ RegisterSession \/ AnswerRequest
    \/ \E order \in live \cup orphans : \E exec_qty \in 1 .. order.leaves_qty :
          Fills(order, exec_qty)

Spec == Init /\ [][Next]_vars

\* The threads spin; nobody has to trade with the client, and it need not
\* restart.
FairSpec ==
    Spec /\ WF_vars(HandleResponse) /\ WF_vars(RegisterSession) /\ WF_vars(AnswerRequest)

----------------------------------------------------------------------------
(* Properties.                                                             *)

NewInFlight(side) ==
    { i \in stale_requests + 1 .. Len(outgoing_requests) :
        outgoing_requests[i].type = "NEW" /\ outgoing_requests[i].side = side }

(* "At most one order per side per instrument": of the orders of a client  *)
(* process, at most one on each side is in the book or on its way to it,   *)
(* as long as it has not been told of an order of an earlier process.      *)
OneOrderPerSide ==
    ~mixed => \A side \in Sides :
        Cardinality({ o \in live : o.side = side })
          + Cardinality(NewInFlight(side)) <= 1

Total(s) ==
    LET sum[i \in 0 .. Len(s)] == IF i = 0 THEN 0 ELSE sum[i - 1] + s[i]
    IN  sum[Len(s)]

\* What the orders of a side may still add to the position.
Reported(side) ==
    Total([i \in 1 .. Len(incoming_responses) |->
             IF incoming_responses[i].side = side /\ ~incoming_responses[i].orphan
             THEN incoming_responses[i].exec_qty ELSE 0])
Open(side) ==
    Reported(side)
    + MapThenSumSet(LAMBDA o : o.leaves_qty, { o \in live : o.side = side })
    + MapThenSumSet(LAMBDA i : outgoing_requests[i].qty, NewInFlight(side))

(* The position keeps its limit whatever the exchange does next: the check *)
(* of checkPreTradeRisk is made once, before the order is sent, and has to *)
(* cover fills of both sides that arrive while it waits or rests.  Fills   *)
(* of an earlier process's orders are counted too and were not checked:    *)
(* the limit holds until the process is told of one.                       *)
PositionWithinLimit ==
    ~mixed => /\ position + Open("BUY") <= max_position
              /\ position - Open("SELL") >= -max_position

(* When nothing about a side is on its way, the slot says what the book    *)
(* holds: a LIVE slot names a live order and its open quantity, any other  *)
(* slot stands for no order.  Responses name no process: this too holds    *)
(* until one to an earlier process arrives.                                *)
QuietSlotsAgree ==
    ~mixed => \A side \in Sides :
        (/\ \A i \in 1 .. Len(outgoing_requests) : outgoing_requests[i].side # side
         /\ \A i \in 1 .. Len(incoming_responses) : incoming_responses[i].side # side)
        => LET order == ticker_side_order[side]
           IN  { <<o.order_id, o.leaves_qty>> : o \in { x \in live : x.side = side } } =
               IF order.order_state = "LIVE" THEN {<<order.order_id, order.qty>>} ELSE {}

Waits(side) == ticker_side_order[side].order_state \in {"PENDING_NEW", "PENDING_CANCEL"}

(* While the book holds an order of a side, its slot does not wait for     *)
(* ever: a cancel that crosses fills is settled one way or the other.      *)
LiveOrderHeardOf ==
    \A side \in Sides :
        (Waits(side) /\ \E o \in live : o.side = side) ~> ~Waits(side) \/ mixed

=============================================================================
