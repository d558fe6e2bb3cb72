--------------------------- MODULE MarketOrderBook ---------------------------
(***************************************************************************)
(* The trading client's copy of one instrument's book                      *)
(* (trading/strategy/market_order_book.{h,cpp}, market_order.h), at the    *)
(* level of its pointers: circular doubly linked lists of pool blocks.     *)
(*                                                                         *)
(* The book is one record, and every member function an operator from the  *)
(* record before the call to the record after it.  What a freed block held *)
(* is forgotten.  aborted stands for a failed ASSERT of one of the pools.  *)
(*                                                                         *)
(* The feed is the exchange's, as the consumer hands it on: ids grow, an   *)
(* image or a restarted exchange begins with a CLEAR, and the book it      *)
(* describes is never crossed (MEOrderBook: FeedMatchesBook, NotCrossed).  *)
(*                                                                         *)
(* A name of the form Operator_Fault is a faulty variant of the operator   *)
(* that follows it; no specification uses one.                             *)
(***************************************************************************)
EXTENDS MemPool, Sequences, FiniteSetsExt, SequencesExt

CONSTANTS
    MaxOrderIds,        \* ME_MAX_ORDER_IDS: size of oid_to_order_ and of order_pool_
    MaxPriceLevels,     \* ME_MAX_PRICE_LEVELS: size of the slots and of their pool
    QtyModulus,         \* 2^32, what a Qty wraps at
    Prices, Qtys,
    MaxId               \* bound on the market order ids of the feed

\* Price{}, which is INVALID: the largest value of the type, -1 modulo 2^64.
NoPrice == -1

ASSUME BookAssumption ==
    /\ MaxOrderIds \in Nat \ {0} /\ MaxPriceLevels \in Nat \ {0} /\ MaxId \in Nat
    /\ Prices \subseteq Nat /\ QtyModulus \in Nat \ {0}
    /\ Qtys \subseteq 1 .. QtyModulus - 1

VARIABLES
    book,
    feed,               \* the orders that the feed describes, by market order id
    next_id             \* the next ADD has this id or a greater one

vars == <<book, feed, next_id>>

Sides == {"BUY", "SELL"}
Opposite(side) == IF side = "BUY" THEN "SELL" ELSE "BUY"
Outranks(side, p, q) == IF side = "BUY" THEN p > q ELSE p < q
priceToIndex(price) == price % MaxPriceLevels

NoOrder == [order_id |-> 0, side |-> "INVALID", price |-> NoPrice, qty |-> 0,
            prev |-> nullptr, next |-> nullptr]
NoLevel == [side |-> "INVALID", price |-> NoPrice, first |-> nullptr,
            prev |-> nullptr, next |-> nullptr]
NoBBO == [bid_price |-> NoPrice, bid_qty |-> 0, ask_price |-> NoPrice, ask_qty |-> 0]

NewBook ==
    [orders |-> [x \in Blocks(MaxOrderIds) |-> NoOrder], order_pool |-> NewPool(MaxOrderIds),
     levels |-> [x \in Blocks(MaxPriceLevels) |-> NoLevel], level_pool |-> NewPool(MaxPriceLevels),
     oid_to_order |-> [id \in 0 .. MaxOrderIds - 1 |-> nullptr],
     price_orders_at_price |-> [s \in 0 .. MaxPriceLevels - 1 |-> nullptr],
     by_price |-> [side \in Sides |-> nullptr],
     bbo |-> NoBBO, aborted |-> FALSE]

\* The blocks of a circular list, from its first one.
Ring(store, first) ==
    LET n == Cardinality(DOMAIN store)
        at[k \in 0 .. n] == IF k = 0 THEN first
                            ELSE IF at[k - 1] = nullptr THEN nullptr ELSE store[at[k - 1]].next
        closed == { k \in 1 .. n : at[k] = first }
    IN  [i \in 1 .. IF closed = {} THEN n ELSE Min(closed) |-> at[i - 1]]

\* The assignments that take a block into a list, and the ones that take it out.
link(store, x, before, after) ==
    [store EXCEPT ![before].next = x, ![x].prev = before, ![x].next = after, ![after].prev = x]
unlink(store, x) ==
    [store EXCEPT ![store[x].prev].next = store[x].next, ![store[x].next].prev = store[x].prev]

----------------------------------------------------------------------------
(* Price levels.                                                           *)

\* The new level goes behind one of the same side that it outranks.
shouldAdvance_Reversed(side, new, target) == Outranks(side, new, target)
shouldAdvance(side, new, target) == Outranks(side, target, new)

addOrdersAtPrice(b, l) ==
    LET level == b.levels[l]
        head == b.by_price[level.side]
        chain == Ring(b.levels, head)
        advance(t) == shouldAdvance(level.side, level.price, b.levels[t].price)
        \* The walk ends at the first level that it does not pass, or at the last.
        target == chain[Min({ i \in 1 .. Len(chain) : ~advance(chain[i]) \/ i = Len(chain) })]
        before == IF advance(target) THEN target ELSE b.levels[target].prev
        after == IF advance(target) THEN b.levels[target].next ELSE target
        in_slot == [b EXCEPT !.price_orders_at_price[priceToIndex(level.price)] = l]
    IN  IF head = nullptr
        THEN [in_slot EXCEPT !.by_price[level.side] = l, !.levels[l].prev = l, !.levels[l].next = l]
        ELSE [in_slot EXCEPT
                !.levels = link(@, l, before, after),
                !.by_price[level.side] = IF ~advance(target) /\ @ = target THEN l ELSE @]

removeOrdersAtPrice(b, side, price) ==
    LET oap == b.price_orders_at_price[priceToIndex(price)]
        level == b.levels[oap]
    IN  IF oap = nullptr THEN b
        ELSE [b EXCEPT
           !.levels = [unlink(@, oap) EXCEPT ![oap] = NoLevel],
           !.by_price[side] = IF level.next = oap THEN nullptr
                              ELSE IF @ = oap THEN level.next ELSE @,
           !.price_orders_at_price[priceToIndex(price)] = nullptr,
           !.level_pool = deallocate(@, {oap}),
           !.aborted = @ \/ oap \notin InUse(b.level_pool)]

----------------------------------------------------------------------------
(* Orders.                                                                 *)

\* A new order goes to the back of its level.
addOrder(b, x) ==
    LET order == b.orders[x]
        oap == b.price_orders_at_price[priceToIndex(order.price)]
        l == FreeBlock(b.level_pool)
        first == b.levels[oap].first
        last == b.orders[first].prev
    IN  IF oap # nullptr
        THEN [b EXCEPT !.orders = link(@, x, last, first),
                       !.oid_to_order[order.order_id] = x]
        ELSE IF Exhausted(b.level_pool) THEN [b EXCEPT !.aborted = TRUE]
        ELSE addOrdersAtPrice(
               [b EXCEPT !.orders[x].prev = x, !.orders[x].next = x,
                         !.level_pool = allocate(@),
                         !.levels[l] = [NoLevel EXCEPT !.side = order.side, !.price = order.price,
                                                       !.first = x],
                         !.oid_to_order[order.order_id] = x], l)

removeOrder(b, x) ==
    LET order == b.orders[x]
        oap == b.price_orders_at_price[priceToIndex(order.price)]
        unlinked ==
            IF order.prev = x THEN removeOrdersAtPrice(b, order.side, order.price)
            ELSE [b EXCEPT !.orders = unlink(@, x),
                           !.levels[oap].first = IF @ = x THEN order.next ELSE @]
    IN  [unlinked EXCEPT !.orders[x] = NoOrder, !.oid_to_order[order.order_id] = nullptr,
                         !.order_pool = deallocate(@, {x}),
                         !.aborted = @ \/ x \notin InUse(b.order_pool)]

\* The quantity of the orders of a level, in 32 bits.
Total_FirstOnly(b, l) == b.orders[b.levels[l].first].qty
Total(b, l) ==
    LET list == Ring(b.orders, b.levels[l].first)
        total[i \in 0 .. Len(list)] ==
            IF i = 0 THEN 0 ELSE (total[i - 1] + b.orders[list[i]].qty) % QtyModulus
    IN  total[Len(list)]

updateBBO(b) ==
    LET price(side) == IF b.by_price[side] = nullptr THEN NoPrice ELSE b.levels[b.by_price[side]].price
        qty(side) == IF b.by_price[side] = nullptr THEN 0 ELSE Total(b, b.by_price[side])
    IN  [b EXCEPT !.bbo = [bid_price |-> price("BUY"), bid_qty |-> qty("BUY"),
                           ask_price |-> price("SELL"), ask_qty |-> qty("SELL")]]

Named(table) == { table[i] : i \in DOMAIN table } \ {nullptr}

clearBook(b) ==
    [NewBook EXCEPT
        !.order_pool = deallocate(b.order_pool, Named(b.oid_to_order)),
        !.level_pool = deallocate(b.level_pool, Named(b.price_orders_at_price)),
        !.aborted = b.aborted \/ ~(Named(b.oid_to_order) \subseteq InUse(b.order_pool))
                              \/ ~(Named(b.price_orders_at_price) \subseteq InUse(b.level_pool))]

----------------------------------------------------------------------------
(* onMarketUpdate()                                                        *)

Fits(id) == id < MaxOrderIds
Aliased(b, price) ==
    LET l == b.price_orders_at_price[priceToIndex(price)]
    IN  l # nullptr /\ b.levels[l].price # price

\* ADD: an id that does not fit and a price whose slot is taken are dropped.
onAdd(b, u) ==
    IF ~Fits(u.order_id) \/ Aliased(b, u.price) THEN b
    ELSE IF Exhausted(b.order_pool) THEN [b EXCEPT !.aborted = TRUE]
    ELSE LET x == FreeBlock(b.order_pool)
         IN  updateBBO(addOrder(
               [b EXCEPT !.order_pool = allocate(@),
                         !.orders[x] = [NoOrder EXCEPT !.order_id = u.order_id, !.side = u.side,
                                                       !.price = u.price, !.qty = u.qty]], x))

Known(b, id) == Fits(id) /\ b.oid_to_order[id] # nullptr

onModify(b, u) ==
    updateBBO(IF Known(b, u.order_id) THEN [b EXCEPT !.orders[b.oid_to_order[u.order_id]].qty = u.qty]
              ELSE b)

onCancel(b, u) ==
    updateBBO(IF Known(b, u.order_id) THEN removeOrder(b, b.oid_to_order[u.order_id]) ELSE b)

onMarketUpdate(b, u) ==
    CASE u.type = "ADD" -> onAdd(b, u)
      [] u.type = "MODIFY" -> onModify(b, u)
      [] u.type = "CANCEL" -> onCancel(b, u)
      [] u.type \in {"CLEAR", "SNAPSHOT_START"} -> updateBBO(clearBook(b))
      [] u.type \in {"TRADE", "SNAPSHOT_END"} -> updateBBO(b)
      [] OTHER -> b

----------------------------------------------------------------------------
(* The feed.                                                               *)

Update(type, id, side, price, qty) ==
    [type |-> type, order_id |-> id, side |-> side, price |-> price, qty |-> qty]

Init == book = NewBook /\ feed = [id \in {} |-> 0] /\ next_id = 1

\* shown: whether the arrays of the client have room for the order.
Shown(id, price) ==
    /\ Fits(id)
    /\ \A k \in DOMAIN feed : feed[k].shown /\ priceToIndex(feed[k].price) = priceToIndex(price)
                                => feed[k].price = price

Add(id, side, price, qty) ==
    /\ ~book.aborted /\ id >= next_id
    /\ \A k \in DOMAIN feed : feed[k].side # side => Outranks(side, feed[k].price, price)
    /\ book' = onMarketUpdate(book, Update("ADD", id, side, price, qty))
    /\ feed' = [k \in DOMAIN feed \cup {id} |->
                  IF k = id THEN [side |-> side, price |-> price, qty |-> qty,
                                  shown |-> Shown(id, price)]
                  ELSE feed[k]]
    /\ next_id' = id + 1

Modify(id, qty) ==
    /\ ~book.aborted
    /\ book' = onMarketUpdate(book, Update("MODIFY", id, feed[id].side, feed[id].price, qty))
    /\ feed' = [feed EXCEPT ![id].qty = qty]
    /\ UNCHANGED next_id

Cancel(id) ==
    /\ ~book.aborted
    /\ book' = onMarketUpdate(book, Update("CANCEL", id, feed[id].side, feed[id].price, feed[id].qty))
    /\ feed' = Restrict(feed, DOMAIN feed \ {id})
    /\ UNCHANGED next_id

Clear(type) ==
    /\ ~book.aborted
    /\ book' = onMarketUpdate(book, Update(type, 0, "INVALID", NoPrice, 0))
    /\ feed' = [id \in {} |-> 0] /\ next_id' = 1

Other(type) ==
    /\ ~book.aborted
    /\ book' = onMarketUpdate(book, Update(type, 0, "INVALID", NoPrice, 0))
    /\ UNCHANGED <<feed, next_id>>

Next ==
    \/ \E id \in 1 .. MaxId, side \in Sides, price \in Prices, qty \in Qtys :
          Add(id, side, price, qty)
    \/ \E id \in DOMAIN feed : Cancel(id) \/ \E qty \in Qtys : Modify(id, qty)
    \/ \E type \in {"CLEAR", "SNAPSHOT_START"} : Clear(type)
    \/ \E type \in {"TRADE", "SNAPSHOT_END", "INVALID"} : Other(type)

Spec == Init /\ [][Next]_vars

----------------------------------------------------------------------------
(* Properties.                                                             *)

Levels(side) ==
    IF book.by_price[side] = nullptr THEN <<>> ELSE Ring(book.levels, book.by_price[side])
OrdersOf(l) == Ring(book.orders, book.levels[l].first)

\* The blocks are in use, and each one's neighbours are the next and the previous.
Linked(store, pool, list) ==
    /\ ToSet(list) \subseteq InUse(pool)
    /\ \A i \in 1 .. Len(list) :
          /\ store[list[i]].next = list[IF i = Len(list) THEN 1 ELSE i + 1]
          /\ store[list[i]].prev = list[IF i = 1 THEN Len(list) ELSE i - 1]

(* After any sequence of updates the lists are closed both ways, no block  *)
(* that was given back is in a list or a table, none that is in use has    *)
(* been lost, the counters of the pools are right, and no ASSERT of a pool *)
(* has failed: ids and slots are as many as their blocks.                  *)
HeapSound ==
    LET levels == ToSet(Levels("BUY") \o Levels("SELL"))
    IN  /\ ~book.aborted
        /\ \A side \in Sides : Linked(book.levels, book.level_pool, Levels(side))
        /\ \A l \in levels : Linked(book.orders, book.order_pool, OrdersOf(l))
        /\ InUse(book.level_pool) = levels /\ Named(book.price_orders_at_price) = levels
        /\ InUse(book.order_pool) = UNION { ToSet(OrdersOf(l)) : l \in levels }
        /\ InUse(book.order_pool) = Named(book.oid_to_order)
        /\ book.order_pool.free_count = Cardinality(Free(book.order_pool))
        /\ book.level_pool.free_count = Cardinality(Free(book.level_pool))

\* The orders that the lists of a side hold, and those that the feed has told of.
Listed(side) ==
    { [id |-> book.orders[x].order_id, price |-> book.orders[x].price, qty |-> book.orders[x].qty] :
        x \in UNION { ToSet(OrdersOf(l)) : l \in ToSet(Levels(side)) } }
Told(side) ==
    { [id |-> id, price |-> feed[id].price, qty |-> feed[id].qty] :
        id \in { k \in DOMAIN feed : feed[k].side = side /\ feed[k].shown } }

(* The lists of a side hold exactly the orders the feed has told of and    *)
(* the arrays have room for, best price first and, within a level, which   *)
(* has one price, oldest first; also after blocks were reused, images      *)
(* replaced the book and ADDs were dropped.                                *)
ShowsTheFeed ==
    \A side \in Sides :
        /\ Listed(side) = Told(side)
        /\ \A i, j \in 1 .. Len(Levels(side)) :
              i < j => Outranks(side, book.levels[Levels(side)[i]].price,
                                      book.levels[Levels(side)[j]].price)
        /\ \A l \in ToSet(Levels(side)) :
              LET list == OrdersOf(l)
              IN  \A i, j \in 1 .. Len(list) :
                     /\ book.orders[list[i]].price = book.levels[l].price
                     /\ i < j => book.orders[list[i]].order_id < book.orders[list[j]].order_id

\* The best price of a side, with its quantity in 32 bits.
Best(side) ==
    LET told == Told(side)
        best == CHOOSE p \in { o.price : o \in told } : \A o \in told : ~Outranks(side, o.price, p)
        at_best == { id \in 0 .. MaxOrderIds - 1 :
                       \E o \in told : o.id = id /\ o.price = best }
        below[id \in 0 .. MaxOrderIds] ==
            IF id = 0 THEN 0
            ELSE IF id - 1 \in at_best THEN (below[id - 1] + feed[id - 1].qty) % QtyModulus
            ELSE below[id - 1]
    IN  IF told = {} THEN [price |-> NoPrice, qty |-> 0]
        ELSE [price |-> best, qty |-> below[MaxOrderIds]]

(* "Refreshed after every applied update": the cached BBO, which strategy, *)
(* features and positions read, is the best price and size of the feed,    *)
(* also after the updates that return without refreshing it.               *)
BBOIsBest ==
    book.bbo = [bid_price |-> Best("BUY").price, bid_qty |-> Best("BUY").qty,
                ask_price |-> Best("SELL").price, ask_qty |-> Best("SELL").qty]

=============================================================================
