---------------------------- MODULE MEOrderBook ----------------------------
(***************************************************************************)
(* The limit order book of one instrument                                  *)
(* (Exchange/matcher/me_order_book.{h,cpp}, me_order.h).                   *)
(*                                                                         *)
(* An MEOrder is named by its market order id, an MEOrdersAtPrice by its   *)
(* price.  The circular lists are sequences that start at the head         *)
(* pointer; a null entry of a lookup table is an index outside the         *)
(* domain of the function that models the table.                           *)
(*                                                                         *)
(* add() is cut at the points where it publishes: one step up to its       *)
(* ACCEPTED response, one step for each match(), one step to rest what is  *)
(* left.  Between two of these steps only the same add() can run (the book *)
(* has a single thread), but the other threads see what it has sent.       *)
(*                                                                         *)
(* A name of the form Operator_Fault (addOrder_AtFront) is a faulty        *)
(* variant of the operator that follows it; no specification uses one.     *)
(***************************************************************************)
EXTENDS Integers, Sequences, FiniteSets, SequencesExt

CONSTANTS
    MaxNumClients,      \* ME_MAX_NUM_CLIENTS
    MaxOrderIds,        \* ME_MAX_ORDER_IDS as the bound of a client order id
    OrderPoolSize,      \* ME_MAX_ORDER_IDS as the capacity of order_pool_
    MaxPriceLevels,     \* ME_MAX_PRICE_LEVELS
    Prices, Qtys,       \* prices and quantities that clients send
    MaxMarketOrderId    \* bound on the market order ids handed out

ASSUME ConstantsAssumption ==
    /\ MaxNumClients \in Nat \ {0}
    /\ MaxOrderIds \in Nat \ {0}
    /\ OrderPoolSize \in Nat
    /\ MaxPriceLevels \in Nat \ {0}
    /\ Prices \subseteq Int
    /\ Qtys \subseteq Nat
    /\ MaxMarketOrderId \in Nat

VARIABLES
    by_price,               \* bids_by_price_ and asks_by_price_: level prices, head first
    price_orders_at_price,  \* price slot -> level
    levels_in_use,          \* blocks of orders_at_price_pool_ handed out and not given back
    orders,                 \* the live objects of order_pool_, by market order id
    cid_oid_to_order,       \* <<client, client order id>> -> market order id
    next_market_order_id,
    pc,                     \* where the book's thread is
    taker,                  \* arguments and leaves_qty of the add() in progress
    ledger,                 \* what the responses have told each client
    feed                    \* what the market updates amount to when replayed

vars == <<by_price, price_orders_at_price, levels_in_use, orders, cid_oid_to_order,
          next_market_order_id, pc, taker, ledger, feed>>

Side == {"BUY", "SELL"}
Opposite(side) == IF side = "BUY" THEN "SELL" ELSE "BUY"

ClientIds == 0 .. MaxNumClients - 1
OrderIds == 0 .. MaxOrderIds - 1
Slots == 0 .. MaxPriceLevels - 1
MarketOrderIds == Nat \ {0}

MEOrder == [client_id : ClientIds, client_order_id : OrderIds, side : Side,
            price : Prices, qty : Nat, priority : Nat]
MEOrdersAtPrice == [side : Side, price : Prices, orders : Seq(MarketOrderIds)]

NoTaker == [client_id |-> 0, client_order_id |-> 0, market_order_id |-> 0,
            side |-> "BUY", price |-> 0, leaves |-> 0]

----------------------------------------------------------------------------
(* Price levels.                                                           *)

priceToIndex(price) == price % MaxPriceLevels

HasLevel(price) == priceToIndex(price) \in DOMAIN price_orders_at_price
getOrdersAtPrice(price) == price_orders_at_price[priceToIndex(price)]

\* p is the more aggressive of two prices of the same side.
Outranks(side, p, q) == IF side = "BUY" THEN p > q ELSE p < q

\* The walk of addOrdersAtPrice stops at the first level that the new one
\* does not have to let pass, or goes on to the end of the list.
shouldAdvance(side, new, target) == Outranks(side, target, new)
InsertionPoint_AlwaysLast(side, price) == Len(by_price[side]) + 1
InsertionPoint(side, price) ==
    CHOOSE k \in 1 .. Len(by_price[side]) + 1 :
        /\ \A i \in 1 .. k - 1 : shouldAdvance(side, price, by_price[side][i])
        /\ k <= Len(by_price[side]) => ~shouldAdvance(side, price, by_price[side][k])

\* The level's block has just been taken from the pool, by addOrder.
addOrdersAtPrice(level) ==
    /\ levels_in_use' = levels_in_use + 1
    /\ price_orders_at_price' =
          [s \in DOMAIN price_orders_at_price \cup {priceToIndex(level.price)} |->
              IF s = priceToIndex(level.price) THEN level ELSE price_orders_at_price[s]]
    /\ by_price' = [by_price EXCEPT ![level.side] =
          InsertAt(@, InsertionPoint(level.side, level.price), level.price)]

Position(seq, e) == CHOOSE k \in 1 .. Len(seq) : seq[k] = e

\* The slot of the dead level stays.
removeOrdersAtPrice_KeepsSlot(side, price) ==
    /\ by_price' = [by_price EXCEPT ![side] =
          RemoveAt(@, Position(@, getOrdersAtPrice(price).price))]
    /\ levels_in_use' = levels_in_use - 1
    /\ UNCHANGED price_orders_at_price
\* The block of the dead level does not go back to the pool.
removeOrdersAtPrice_LeaksLevel(side, price) ==
    /\ by_price' = [by_price EXCEPT ![side] =
          RemoveAt(@, Position(@, getOrdersAtPrice(price).price))]
    /\ price_orders_at_price' =
          Restrict(price_orders_at_price,
                   DOMAIN price_orders_at_price \ {priceToIndex(price)})
    /\ UNCHANGED levels_in_use
removeOrdersAtPrice(side, price) ==
    /\ by_price' = [by_price EXCEPT ![side] =
          RemoveAt(@, Position(@, getOrdersAtPrice(price).price))]
    /\ price_orders_at_price' =
          Restrict(price_orders_at_price,
                   DOMAIN price_orders_at_price \ {priceToIndex(price)})
    /\ levels_in_use' = levels_in_use - 1

getNextPriority(price) ==
    IF HasLevel(price)
    THEN orders[Last(getOrdersAtPrice(price).orders)].priority + 1
    ELSE 1

----------------------------------------------------------------------------
(* Orders.                                                                 *)

\* Newest first within a level.
addOrder_AtFront(m, order) ==
    /\ orders' = [x \in DOMAIN orders \cup {m} |-> IF x = m THEN order ELSE orders[x]]
    /\ IF HasLevel(order.price)
       THEN /\ price_orders_at_price' =
                  [price_orders_at_price EXCEPT
                      ![priceToIndex(order.price)].orders = <<m>> \o @]
            /\ UNCHANGED <<by_price, levels_in_use>>
       ELSE addOrdersAtPrice([side |-> order.side, price |-> order.price,
                              orders |-> <<m>>])
    /\ cid_oid_to_order' =
          [k \in DOMAIN cid_oid_to_order \cup {<<order.client_id, order.client_order_id>>} |->
              IF k = <<order.client_id, order.client_order_id>>
              THEN m ELSE cid_oid_to_order[k]]

addOrder(m, order) ==
    /\ orders' = [x \in DOMAIN orders \cup {m} |-> IF x = m THEN order ELSE orders[x]]
    /\ IF HasLevel(order.price)
       THEN /\ price_orders_at_price' =
                  [price_orders_at_price EXCEPT
                      ![priceToIndex(order.price)].orders = Append(@, m)]
            /\ UNCHANGED <<by_price, levels_in_use>>
       ELSE addOrdersAtPrice([side |-> order.side, price |-> order.price,
                              orders |-> <<m>>])
    /\ cid_oid_to_order' =
          [k \in DOMAIN cid_oid_to_order \cup {<<order.client_id, order.client_order_id>>} |->
              IF k = <<order.client_id, order.client_order_id>>
              THEN m ELSE cid_oid_to_order[k]]

\* The index entry of the dead order stays.
removeOrder_KeepsIndex(m) ==
    LET order == orders[m]
    IN  /\ IF Len(getOrdersAtPrice(order.price).orders) = 1
           THEN removeOrdersAtPrice(order.side, order.price)
           ELSE /\ price_orders_at_price' =
                      [price_orders_at_price EXCEPT ![priceToIndex(order.price)].orders =
                          RemoveAt(@, Position(@, m))]
                /\ UNCHANGED <<by_price, levels_in_use>>
        /\ UNCHANGED cid_oid_to_order
        /\ orders' = Restrict(orders, DOMAIN orders \ {m})

removeOrder(m) ==
    LET order == orders[m]
        level == getOrdersAtPrice(order.price)
    IN  /\ IF Len(level.orders) = 1
           THEN removeOrdersAtPrice(order.side, order.price)
           ELSE /\ price_orders_at_price' =
                      [price_orders_at_price EXCEPT ![priceToIndex(order.price)].orders =
                          RemoveAt(@, Position(@, m))]
                /\ UNCHANGED <<by_price, levels_in_use>>
        /\ cid_oid_to_order' =
              Restrict(cid_oid_to_order,
                       DOMAIN cid_oid_to_order \ {<<order.client_id, order.client_order_id>>})
        /\ orders' = Restrict(orders, DOMAIN orders \ {m})

----------------------------------------------------------------------------
(* What the book sends.  The responses are read by the client, who keeps   *)
(* for each of its order ids the quantity it computes to be open and the   *)
(* leaves_qty it was last told; the updates by a subscriber, who keeps the *)
(* orders it has been told of.                                             *)

\* ACCEPTED and CANCELED carry leaves_qty, FILLED exec_qty as well.
Accepted(l, c, o, leaves) == [l EXCEPT ![<<c, o>>] = [open |-> leaves, leaves |-> leaves]]
Filled_LeavesBeforeFill(l, c, o, exec, leaves) ==
    [l EXCEPT ![<<c, o>>] = [open |-> @.open - exec, leaves |-> leaves + exec]]
Filled(l, c, o, exec, leaves) ==
    [l EXCEPT ![<<c, o>>] = [open |-> @.open - exec, leaves |-> leaves]]
Canceled(l, c, o) == [l EXCEPT ![<<c, o>>] = [open |-> 0, leaves |-> 0]]

\* The four kinds of update; TRADE names no order and changes no book.
AddUpdate(f, m, order) ==
    [x \in DOMAIN f \cup {m} |-> IF x = m THEN order ELSE f[x]]
ModifyUpdate(f, m, qty) == IF m \in DOMAIN f THEN [f EXCEPT ![m].qty = qty] ELSE f
CancelUpdate_NotSent(f, m) == f
CancelUpdate(f, m) == Restrict(f, DOMAIN f \ {m})
TradeUpdate(f) == f

\* The public part of an order, which the updates carry.
Public(order) == [side |-> order.side, price |-> order.price, qty |-> order.qty,
                  priority |-> order.priority]

----------------------------------------------------------------------------
(* add()                                                                   *)

ValidIds(c, o) == c \in ClientIds /\ o \in OrderIds
Duplicate(c, o) == <<c, o>> \in DOMAIN cid_oid_to_order
Aliased_Unchecked(price) == FALSE
Aliased(price) == HasLevel(price) /\ getOrdersAtPrice(price).price # price

\* INVALID response: nothing changes.
AddRejected(c, o, price) ==
    /\ pc = "idle"
    /\ ~ValidIds(c, o) \/ Duplicate(c, o) \/ Aliased(price)
    /\ UNCHANGED vars

AddAccepted(c, o, side, price, qty) ==
    /\ pc = "idle"
    /\ ValidIds(c, o) /\ ~Duplicate(c, o) /\ ~Aliased(price)
    /\ next_market_order_id <= MaxMarketOrderId
    /\ next_market_order_id' = next_market_order_id + 1
    /\ taker' = [client_id |-> c, client_order_id |-> o,
                 market_order_id |-> next_market_order_id,
                 side |-> side, price |-> price, leaves |-> qty]
    /\ pc' = "matching"
    /\ ledger' = Accepted(ledger, c, o, qty)
    /\ UNCHANGED <<by_price, price_orders_at_price, levels_in_use, orders,
                   cid_oid_to_order, feed>>

\* The head of the opposite list is a price the taker accepts.
Crosses(side, price, best) == ~Outranks(side, best, price)
CanMatch_WrongSide ==
    /\ taker.leaves > 0
    /\ by_price[Opposite(taker.side)] # <<>>
    /\ Crosses(Opposite(taker.side), taker.price, Head(by_price[Opposite(taker.side)]))
CanMatch ==
    /\ taker.leaves > 0
    /\ by_price[Opposite(taker.side)] # <<>>
    /\ Crosses(taker.side, taker.price, Head(by_price[Opposite(taker.side)]))

\* The order that match() is called with: the first of the best level.
Passive_Newest == Last(getOrdersAtPrice(Head(by_price[Opposite(taker.side)])).orders)
Passive == Head(getOrdersAtPrice(Head(by_price[Opposite(taker.side)])).orders)
FillQty == IF taker.leaves <= orders[Passive].qty THEN taker.leaves ELSE orders[Passive].qty

match ==
    /\ pc = "matching"
    /\ CanMatch
    /\ LET m == Passive
           o == orders[m]
           rest == o.qty - FillQty
       IN  /\ taker' = [taker EXCEPT !.leaves = @ - FillQty]
           /\ ledger' = Filled(Filled(ledger, taker.client_id, taker.client_order_id,
                                      FillQty, taker.leaves - FillQty),
                               o.client_id, o.client_order_id, FillQty, rest)
           /\ IF rest = 0
              THEN /\ removeOrder(m)
                   /\ feed' = CancelUpdate(TradeUpdate(feed), m)
              ELSE /\ orders' = [orders EXCEPT ![m].qty = rest]
                   /\ feed' = ModifyUpdate(TradeUpdate(feed), m, rest)
                   /\ UNCHANGED <<by_price, price_orders_at_price, levels_in_use,
                                  cid_oid_to_order>>
    /\ UNCHANGED <<next_market_order_id, pc>>

\* Both pools have the objects that resting the order takes.
OrderPoolHasRoom == Cardinality(DOMAIN orders) < OrderPoolSize
LevelPoolHasRoom == HasLevel(taker.price) \/ levels_in_use < MaxPriceLevels

AddRests ==
    /\ pc = "matching"
    /\ ~CanMatch /\ taker.leaves > 0
    /\ OrderPoolHasRoom /\ LevelPoolHasRoom
    /\ LET order == [client_id |-> taker.client_id,
                     client_order_id |-> taker.client_order_id,
                     side |-> taker.side, price |-> taker.price,
                     qty |-> taker.leaves, priority |-> getNextPriority(taker.price)]
       IN  /\ addOrder(taker.market_order_id, order)
           /\ feed' = AddUpdate(feed, taker.market_order_id, Public(order))
    /\ pc' = "idle" /\ taker' = NoTaker
    /\ UNCHANGED <<next_market_order_id, ledger>>

AddFilled ==
    /\ pc = "matching"
    /\ taker.leaves = 0
    /\ pc' = "idle" /\ taker' = NoTaker
    /\ UNCHANGED <<by_price, price_orders_at_price, levels_in_use, orders,
                   cid_oid_to_order, next_market_order_id, ledger, feed>>

\* The scan for a free block never ends, as it did before the ASSERT.
PoolExhausted_Spins ==
    /\ pc = "matching"
    /\ ~CanMatch /\ taker.leaves > 0
    /\ ~(OrderPoolHasRoom /\ LevelPoolHasRoom)
    /\ UNCHANGED vars

\* MemPool::allocate finds no free block: ASSERT ends the process.
PoolExhausted ==
    /\ pc = "matching"
    /\ ~CanMatch /\ taker.leaves > 0
    /\ ~(OrderPoolHasRoom /\ LevelPoolHasRoom)
    /\ pc' = "exited"
    /\ UNCHANGED <<by_price, price_orders_at_price, levels_in_use, orders,
                   cid_oid_to_order, next_market_order_id, taker, ledger, feed>>

----------------------------------------------------------------------------
(* cancel()                                                                *)

\* CANCEL_REJECTED response: nothing changes.
CancelRejected(c, o) ==
    /\ pc = "idle"
    /\ ~ValidIds(c, o) \/ ~Duplicate(c, o)
    /\ UNCHANGED vars

Cancel(c, o) ==
    /\ pc = "idle"
    /\ ValidIds(c, o) /\ Duplicate(c, o)
    /\ removeOrder(cid_oid_to_order[<<c, o>>])
    /\ feed' = CancelUpdate(feed, cid_oid_to_order[<<c, o>>])
    /\ ledger' = Canceled(ledger, c, o)
    /\ UNCHANGED <<next_market_order_id, pc, taker>>

----------------------------------------------------------------------------

Init ==
    /\ by_price = [s \in Side |-> <<>>]
    /\ price_orders_at_price = [s \in {} |-> <<>>]
    /\ levels_in_use = 0
    /\ orders = [m \in {} |-> <<>>]
    /\ cid_oid_to_order = [k \in {} |-> 0]
    /\ next_market_order_id = 1
    /\ pc = "idle"
    /\ taker = NoTaker
    /\ ledger = [k \in ClientIds \X OrderIds |-> [open |-> 0, leaves |-> 0]]
    /\ feed = [m \in {} |-> <<>>]

\* Ids come off the wire, so one out of range is among them.
WireClientIds == 0 .. MaxNumClients
WireOrderIds == 0 .. MaxOrderIds

Next ==
    \/ \E c \in WireClientIds, o \in WireOrderIds :
          \/ \E price \in Prices : AddRejected(c, o, price)
          \/ \E side \in Side, price \in Prices, qty \in Qtys :
                AddAccepted(c, o, side, price, qty)
          \/ CancelRejected(c, o)
          \/ Cancel(c, o)
    \/ match
    \/ AddRests
    \/ AddFilled
    \/ PoolExhausted

Spec == Init /\ [][Next]_vars

\* The thread runs an add() it has begun to its end.
FairSpec == Spec /\ WF_vars(match \/ AddRests \/ AddFilled \/ PoolExhausted)

----------------------------------------------------------------------------
(* Properties.                                                             *)

(* Every table of the book holds what its declaration says, no quantity    *)
(* goes below zero (Qty is unsigned: match() would wrap it) and no index   *)
(* leaves cid_oid_to_order_ or price_orders_at_price_.                     *)
TypeOK ==
    /\ by_price \in [Side -> Seq(Prices)]
    /\ DOMAIN price_orders_at_price \subseteq Slots
    /\ \A s \in DOMAIN price_orders_at_price : price_orders_at_price[s] \in MEOrdersAtPrice
    /\ levels_in_use \in Nat
    /\ DOMAIN orders \subseteq MarketOrderIds
    /\ \A m \in DOMAIN orders : orders[m] \in MEOrder
    /\ DOMAIN cid_oid_to_order \subseteq ClientIds \X OrderIds
    /\ \A k \in DOMAIN cid_oid_to_order : cid_oid_to_order[k] \in MarketOrderIds
    /\ next_market_order_id \in MarketOrderIds
    /\ pc \in {"idle", "matching", "exited"}
    /\ taker \in [client_id : ClientIds, client_order_id : OrderIds, market_order_id : Nat,
                  side : Side, price : Int, leaves : Nat]
    /\ ledger \in [ClientIds \X OrderIds -> [open : Int, leaves : Nat]]

(* The best level is at the head: bids descend, asks ascend.  The sort is  *)
(* kept by the walk of addOrdersAtPrice alone.                             *)
ChainsSorted ==
    \A side \in Side : \A i, j \in 1 .. Len(by_price[side]) :
        i < j => Outranks(side, by_price[side][i], by_price[side][j])

(* A live slot holds the level whose price maps to it, the level is in the *)
(* list of its side, and a list has no level that its slot does not hold.  *)
(* This is what rejecting aliasing prices is for (add, lines 266-274).     *)
SlotsMatchChains ==
    /\ \A s \in DOMAIN price_orders_at_price :
          LET level == price_orders_at_price[s]
          IN  /\ priceToIndex(level.price) = s
              /\ \E i \in 1 .. Len(by_price[level.side]) :
                    by_price[level.side][i] = level.price
    /\ \A side \in Side : \A i \in 1 .. Len(by_price[side]) :
          LET price == by_price[side][i]
          IN  /\ HasLevel(price)
              /\ getOrdersAtPrice(price).side = side
              /\ getOrdersAtPrice(price).price = price

(* A level is never empty, holds live orders of its own side and price,    *)
(* and every live order is in the level its price leads to.                *)
LevelsHoldTheirOrders ==
    /\ \A s \in DOMAIN price_orders_at_price :
          LET level == price_orders_at_price[s]
          IN  /\ level.orders # <<>>
              /\ \A i \in 1 .. Len(level.orders) :
                    /\ level.orders[i] \in DOMAIN orders
                    /\ orders[level.orders[i]].side = level.side
                    /\ orders[level.orders[i]].price = level.price
    /\ \A m \in DOMAIN orders :
          /\ HasLevel(orders[m].price)
          /\ \E i \in 1 .. Len(getOrdersAtPrice(orders[m].price).orders) :
                getOrdersAtPrice(orders[m].price).orders[i] = m

(* Within a level the orders stand in the order of arrival, and the        *)
(* priorities published with them say so.                                  *)
TimePriority ==
    \A s \in DOMAIN price_orders_at_price :
        LET list == price_orders_at_price[s].orders
        IN  \A i, j \in 1 .. Len(list) : i < j =>
               /\ list[i] < list[j]
               /\ orders[list[i]].priority < orders[list[j]].priority

(* No resting bid meets a resting ask, not even between two matches of an  *)
(* add().                                                                  *)
NotCrossed ==
    \A b, a \in DOMAIN orders :
        orders[b].side = "BUY" /\ orders[a].side = "SELL" => orders[b].price < orders[a].price

(* The index by client order id names exactly the live orders: no order is *)
(* orphaned, so the client that placed one can always cancel it (add,      *)
(* lines 251-252), and no entry outlives its order.                        *)
IndexExact ==
    /\ \A k \in DOMAIN cid_oid_to_order :
          /\ cid_oid_to_order[k] \in DOMAIN orders
          /\ k = <<orders[cid_oid_to_order[k]].client_id,
                   orders[cid_oid_to_order[k]].client_order_id>>
    /\ \A m \in DOMAIN orders :
          LET k == <<orders[m].client_id, orders[m].client_order_id>>
          IN  k \in DOMAIN cid_oid_to_order /\ cid_oid_to_order[k] = m

(* Replaying the market updates sent so far gives the book, in every state *)
(* in which the publisher may read them.                                   *)
FeedMatchesBook == feed = [m \in DOMAIN orders |-> Public(orders[m])]

(* What a client computes from ACCEPTED, FILLED and CANCELED, what it was  *)
(* told last and what the exchange holds for it agree: no fill is lost,    *)
(* doubled or sent to the other side.                                      *)
OpenQty(k) ==
    IF k \in DOMAIN cid_oid_to_order THEN orders[cid_oid_to_order[k]].qty
    ELSE IF pc # "idle" /\ k = <<taker.client_id, taker.client_order_id>>
         THEN taker.leaves ELSE 0
LedgerMatchesBook ==
    \A k \in ClientIds \X OrderIds :
        ledger[k].open = OpenQty(k) /\ ledger[k].leaves = OpenQty(k)

(* The only pool that can run out is that of the orders: every block that  *)
(* orders_at_price_pool_ hands out is given back when its level goes, on   *)
(* the paths of match() and of cancel() alike, so a price without a level  *)
(* always finds one, after any number of levels made and removed.          *)
OnlyOrderPoolRunsOut == pc = "exited" => ~OrderPoolHasRoom /\ LevelPoolHasRoom

(* An add() that has been acknowledged finishes: the matching loop ends.   *)
AddTerminates == pc = "matching" ~> pc # "matching"

----------------------------------------------------------------------------
(* What the book promises, with the lists forgotten.                       *)

RestingOrders ==
    [m \in DOMAIN orders |->
        [client_id |-> orders[m].client_id, client_order_id |-> orders[m].client_order_id,
         side |-> orders[m].side, price |-> orders[m].price, qty |-> orders[m].qty]]

LOB == INSTANCE LimitOrderBook WITH book <- RestingOrders

(* Price-time priority: every execution is against the oldest order of the *)
(* best price, an order rests only when nothing crosses it, and nothing    *)
(* but match() and cancel() takes from a resting order.                    *)
ImplementsLimitOrderBook == LOB!Spec

=============================================================================
