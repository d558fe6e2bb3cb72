------------------------- MODULE MEOrderBook_proofs -------------------------
(***************************************************************************)
(* MEOrderBook is correct for every number of clients, order ids, price    *)
(* slots and pool blocks, and every set of prices and quantities.          *)
(***************************************************************************)
EXTENDS MEOrderBook, SequenceTheorems, WellFoundedInduction, FiniteSetTheorems, TLAPS

(* A non-empty set of naturals has a least element.                        *)
LEMMA LeastNatural ==
  ASSUME NEW T \in SUBSET Nat, T # {}
  PROVE  \E n \in T : \A m \in T : n <= m
<1>1. PICK n \in T : \A m \in T : ~(<<m, n>> \in OpToRel(<, Nat))
  BY NatLessThanWellFounded, WFMin, Zenon
<1>2. \A m \in T : <<m, n>> \in OpToRel(<, Nat) <=> m < n
  BY DEF OpToRel
<1>3. \A m \in T : ~(m < n)
  BY <1>1, <1>2, Zenon
<1>4. \A m \in T : n <= m
  BY <1>3, SMT
<1> QED
  BY <1>4, Zenon

(* The elements of a sequence after an insertion.                          *)
LEMMA InsertAtFacts ==
  ASSUME NEW S, NEW s \in Seq(S), NEW k \in 1 .. Len(s) + 1, NEW e \in S
  PROVE  /\ InsertAt(s, k, e) \in Seq(S)
         /\ Len(InsertAt(s, k, e)) = Len(s) + 1
         /\ \A i \in 1 .. Len(s) + 1 : InsertAt(s, k, e)[i] =
              IF i < k THEN s[i] ELSE IF i = k THEN e ELSE s[i-1]
<1> DEFINE a == SubSeq(s, 1, k-1)
           b == a \o <<e>>
           c == SubSeq(s, k, Len(s))
<1>1. /\ a \in Seq(S) /\ Len(a) = k - 1
      /\ \A i \in 1 .. k - 1 : a[i] = s[i]
  BY SubSeqProperties
<1>2. /\ c \in Seq(S) /\ Len(c) = Len(s) - k + 1
      /\ \A i \in 1 .. Len(s) - k + 1 : c[i] = s[k+i-1]
  BY SubSeqProperties
<1>3. /\ b \in Seq(S) /\ Len(b) = k
      /\ \A i \in 1 .. k : b[i] = IF i < k THEN s[i] ELSE e
  BY <1>1
<1>4. InsertAt(s, k, e) = b \o c
  BY DEF InsertAt
<1> HIDE DEF a, b, c
<1>5. /\ b \o c \in Seq(S) /\ Len(b \o c) = Len(b) + Len(c)
      /\ \A i \in 1 .. Len(b) + Len(c) :
            (b \o c)[i] = IF i <= Len(b) THEN b[i] ELSE c[i - Len(b)]
  BY <1>2, <1>3, ConcatProperties, Zenon
<1> DEFINE d == b \o c
<1> HIDE DEF d
<1>6. Len(d) = Len(s) + 1
  BY <1>2, <1>3, <1>5 DEF d
<1>7. \A i \in 1 .. Len(s) + 1 :
         d[i] = IF i < k THEN s[i] ELSE IF i = k THEN e ELSE s[i-1]
  <2> TAKE i \in 1 .. Len(s) + 1
  <2>1. d[i] = IF i <= k THEN b[i] ELSE c[i - k]
    BY <1>2, <1>3, <1>5 DEF d
  <2> QED
    BY <2>1, <1>2, <1>3
<1> QED
  BY <1>4, <1>5, <1>7, <1>6 DEF d

(* The elements of a sequence after a removal.                             *)
LEMMA RemoveAtFacts ==
  ASSUME NEW S, NEW s \in Seq(S), NEW k \in 1 .. Len(s)
  PROVE  /\ RemoveAt(s, k) \in Seq(S)
         /\ Len(RemoveAt(s, k)) = Len(s) - 1
         /\ \A i \in 1 .. Len(s) - 1 :
              RemoveAt(s, k)[i] = IF i < k THEN s[i] ELSE s[i+1]
<1> DEFINE a == SubSeq(s, 1, k-1)
           c == SubSeq(s, k+1, Len(s))
<1>1. /\ a \in Seq(S) /\ Len(a) = k - 1
      /\ \A i \in 1 .. k - 1 : a[i] = s[i]
  BY SubSeqProperties
<1>2. /\ c \in Seq(S) /\ Len(c) = Len(s) - k
      /\ \A i \in 1 .. Len(s) - k : c[i] = s[k+i]
  BY SubSeqProperties
<1>3. RemoveAt(s, k) = a \o c
  BY DEF RemoveAt
<1> HIDE DEF a, c
<1>4. /\ a \o c \in Seq(S) /\ Len(a \o c) = Len(a) + Len(c)
      /\ \A i \in 1 .. Len(a) + Len(c) :
            (a \o c)[i] = IF i <= Len(a) THEN a[i] ELSE c[i - Len(a)]
  BY <1>1, <1>2, ConcatProperties, Zenon
<1> DEFINE d == a \o c
<1> HIDE DEF d
<1>5. Len(d) = Len(s) - 1
  BY <1>1, <1>2, <1>4 DEF d
<1>6. \A i \in 1 .. Len(s) - 1 : d[i] = IF i < k THEN s[i] ELSE s[i+1]
  <2> TAKE i \in 1 .. Len(s) - 1
  <2>1. d[i] = IF i < k THEN a[i] ELSE c[i - (k - 1)]
    BY <1>1, <1>2, <1>4 DEF d
  <2> QED
    BY <2>1, <1>1, <1>2
<1> QED
  BY <1>3, <1>4, <1>5, <1>6 DEF d

(* Position finds an element that is there.                                *)
LEMMA PositionFacts ==
  ASSUME NEW s, NEW e, \E k \in 1 .. Len(s) : s[k] = e
  PROVE  Position(s, e) \in 1 .. Len(s) /\ s[Position(s, e)] = e
BY DEF Position

(* The walk of addOrdersAtPrice always stops.                              *)
LEMMA InsertionPointFacts ==
  ASSUME NEW side \in Side, NEW price, by_price[side] \in Seq(Prices)
  PROVE  LET k == InsertionPoint(side, price)
         IN  /\ k \in 1 .. Len(by_price[side]) + 1
             /\ \A i \in 1 .. k - 1 : shouldAdvance(side, price, by_price[side][i])
             /\ k <= Len(by_price[side]) => ~shouldAdvance(side, price, by_price[side][k])
<1> DEFINE s == by_price[side]
           T == {k \in 1 .. Len(s) : ~shouldAdvance(side, price, s[k])} \cup {Len(s) + 1}
           P(k) == /\ \A i \in 1 .. k - 1 : shouldAdvance(side, price, by_price[side][i])
                   /\ k <= Len(by_price[side]) => ~shouldAdvance(side, price, by_price[side][k])
<1>1. Len(s) \in Nat
  OBVIOUS
<1>2. PICK n \in T : \A m \in T : n <= m
  <2>1. T \in SUBSET Nat /\ T # {}
    BY <1>1
  <2> QED
    BY <2>1, LeastNatural, Zenon
<1>3. n \in 1 .. Len(s) + 1 /\ P(n)
  <2>1. n \in 1 .. Len(s) + 1
    BY <1>1, <1>2
  <2>2. ASSUME NEW i \in 1 .. n - 1
        PROVE  shouldAdvance(side, price, s[i])
    <3>1. i \in 1 .. Len(s) /\ i \notin T
      BY <1>1, <1>2, <2>1
    <3> QED BY <3>1
  <2>3. n <= Len(s) => ~shouldAdvance(side, price, s[n])
    BY <1>1, <1>2
  <2> QED BY <2>1, <2>2, <2>3
<1>4. InsertionPoint(side, price) = CHOOSE k \in 1 .. Len(by_price[side]) + 1 : P(k)
  BY DEF InsertionPoint
<1> QED
  BY <1>3, <1>4, Zenon

----------------------------------------------------------------------------
(* The inductive invariant: the structure of the book; what the taker of   *)
(* an add() in progress may rely on; that the ids of resting orders are    *)
(* older than the taker's.                                                 *)

BookType ==
    /\ by_price \in [Side -> Seq(Prices)]
    /\ DOMAIN price_orders_at_price \subseteq Slots
    /\ \A s \in DOMAIN price_orders_at_price : price_orders_at_price[s] \in MEOrdersAtPrice
    /\ DOMAIN orders \subseteq MarketOrderIds
    /\ \A m \in DOMAIN orders : orders[m] \in MEOrder
    /\ DOMAIN cid_oid_to_order \subseteq ClientIds \X OrderIds
    /\ \A k \in DOMAIN cid_oid_to_order : cid_oid_to_order[k] \in MarketOrderIds

Book ==
    /\ BookType
    /\ ChainsSorted
    /\ SlotsMatchChains
    /\ LevelsHoldTheirOrders
    /\ TimePriority
    /\ IndexExact

(* removeOrder(), called with a live order, leaves a well-formed book.     *)
LEMMA RemoveOrderKeepsBook ==
  ASSUME Book, NEW m \in DOMAIN orders, removeOrder(m)
  PROVE  /\ Book'
         /\ DOMAIN orders' = DOMAIN orders \ {m}
         /\ \A x \in DOMAIN orders' : orders'[x] = orders[x]
         /\ DOMAIN price_orders_at_price' \subseteq DOMAIN price_orders_at_price
         /\ \A s \in DOMAIN price_orders_at_price' :
               price_orders_at_price'[s].price = price_orders_at_price[s].price
         /\ DOMAIN cid_oid_to_order' \subseteq DOMAIN cid_oid_to_order
<1> DEFINE order == orders[m]
           slot == priceToIndex(order.price)
           level == price_orders_at_price[slot]
           key == <<order.client_id, order.client_order_id>>
<1>1. /\ order \in MEOrder
      /\ slot \in DOMAIN price_orders_at_price
      /\ level \in MEOrdersAtPrice
      /\ level.side = order.side
      /\ level.price = order.price
      /\ \E i \in 1 .. Len(level.orders) : level.orders[i] = m
  BY DEF Book, BookType, LevelsHoldTheirOrders, HasLevel, getOrdersAtPrice
<1>2. PICK i \in 1 .. Len(level.orders) : level.orders[i] = m /\ Position(level.orders, m) = i
  BY <1>1, PositionFacts
<1>3. /\ orders' = [x \in DOMAIN orders \ {m} |-> orders[x]]
      /\ cid_oid_to_order' = [k \in DOMAIN cid_oid_to_order \ {key} |-> cid_oid_to_order[k]]
  BY DEF removeOrder, Restrict
<1>4. /\ IndexExact'
      /\ DOMAIN orders' = DOMAIN orders \ {m}
      /\ \A x \in DOMAIN orders' : orders'[x] = orders[x]
      /\ DOMAIN cid_oid_to_order' \subseteq DOMAIN cid_oid_to_order
      /\ DOMAIN orders' \subseteq MarketOrderIds
      /\ \A x \in DOMAIN orders' : orders'[x] \in MEOrder
      /\ DOMAIN cid_oid_to_order' \subseteq ClientIds \X OrderIds
      /\ \A k \in DOMAIN cid_oid_to_order' : cid_oid_to_order'[k] \in MarketOrderIds
  BY <1>3 DEF Book, BookType, IndexExact
<1>5. CASE Len(level.orders) = 1
  <2> DEFINE side == order.side
             chain == by_price[side]
             n == Position(chain, level.price)
             chain2 == RemoveAt(chain, n)
  <2>1. /\ by_price' = [by_price EXCEPT ![side] = chain2]
        /\ price_orders_at_price' =
             [s \in DOMAIN price_orders_at_price \ {slot} |-> price_orders_at_price[s]]
    BY <1>5 DEF removeOrder, removeOrdersAtPrice, getOrdersAtPrice, Restrict
  <2>2. /\ side \in Side /\ chain \in Seq(Prices)
        /\ n \in 1 .. Len(chain) /\ chain[n] = level.price
    BY <1>1, PositionFacts DEF Book, BookType, SlotsMatchChains, MEOrder
  <2>3. /\ chain2 \in Seq(Prices)
        /\ Len(chain2) = Len(chain) - 1
        /\ \A j \in 1 .. Len(chain) - 1 : chain2[j] = IF j < n THEN chain[j] ELSE chain[j+1]
    BY <2>2, RemoveAtFacts
  <2>4. /\ \A s \in Side : by_price'[s] = IF s = side THEN chain2 ELSE by_price[s]
        /\ by_price' \in [Side -> Seq(Prices)]
    BY <2>1, <2>2, <2>3 DEF Book, BookType
  <2>5. /\ DOMAIN price_orders_at_price' = DOMAIN price_orders_at_price \ {slot}
        /\ \A s \in DOMAIN price_orders_at_price' :
             price_orders_at_price'[s] = price_orders_at_price[s]
    BY <2>1
  <2> HIDE DEF order, slot, level, chain, n, chain2, side
  <2>6. BookType'
    BY <1>3, <1>4, <2>1, <2>4, <2>5 DEF Book, BookType
  <2>7. ChainsSorted'
    <3> SUFFICES ASSUME NEW sd \in Side,
                        NEW j \in 1 .. Len(by_price'[sd]), NEW k \in 1 .. Len(by_price'[sd]),
                        j < k
                 PROVE  Outranks(sd, by_price'[sd][j], by_price'[sd][k])
      BY DEF ChainsSorted, Outranks
    <3>1. CASE sd = side
      <4> DEFINE up(x) == IF x < n THEN x ELSE x + 1
      <4>1. by_price'[sd] = chain2
        BY <3>1, <2>4
      <4>2. Len(chain) \in Nat /\ Len(by_price'[sd]) = Len(chain) - 1
        BY <4>1, <2>2, <2>3, LenProperties
      <4>3. /\ up(j) \in 1 .. Len(chain) /\ up(k) \in 1 .. Len(chain) /\ up(j) < up(k)
            /\ by_price'[sd][j] = chain[up(j)] /\ by_price'[sd][k] = chain[up(k)]
        BY <4>1, <4>2, <2>2, <2>3
      <4> HIDE DEF up
      <4> QED BY <3>1, <4>3, <2>2 DEF Book, ChainsSorted, chain
    <3>2. CASE sd # side
      BY <3>2, <2>4 DEF Book, ChainsSorted
    <3> QED BY <3>1, <3>2
  \* Two levels of the book differ in their price.
  <2>8. ASSUME NEW j \in 1 .. Len(chain), j # n
        PROVE  priceToIndex(chain[j]) # slot
    <3>1. chain[j] # chain[n] /\ chain[j] \in Int /\ chain[n] \in Int
      <4>1. chain[j] \in Int /\ chain[n] \in Int /\ Len(chain) \in Nat
        BY <2>2, ConstantsAssumption, LenProperties, ElementOfSeq
      <4>2. CASE j < n
        BY <4>1, <4>2, <2>2 DEF Book, ChainsSorted, Outranks, chain
      <4>3. CASE n < j
        BY <4>1, <4>3, <2>2 DEF Book, ChainsSorted, Outranks, chain
      <4> QED BY <4>1, <4>2, <4>3, <2>8, <2>2
    <3> QED
      BY <3>1, <2>2 DEF Book, SlotsMatchChains, getOrdersAtPrice, chain, level
  <2>9. SlotsMatchChains'
    <3>1. ASSUME NEW s \in DOMAIN price_orders_at_price'
          PROVE  LET lv == price_orders_at_price'[s]
                 IN  /\ priceToIndex(lv.price) = s
                     /\ \E j \in 1 .. Len(by_price'[lv.side]) : by_price'[lv.side][j] = lv.price
      <4> DEFINE lv == price_orders_at_price[s]
      <4>1. /\ s \in DOMAIN price_orders_at_price /\ s # slot
            /\ price_orders_at_price'[s] = lv /\ lv.side \in Side
        BY <2>5 DEF Book, BookType, MEOrdersAtPrice
      <4>2. PICK j \in 1 .. Len(by_price[lv.side]) : by_price[lv.side][j] = lv.price
        BY <4>1 DEF Book, SlotsMatchChains
      <4>3. priceToIndex(lv.price) = s
        BY <4>1 DEF Book, SlotsMatchChains
      <4>4. CASE lv.side = side
        <5>1. j # n
          BY <4>1, <4>2, <4>3, <4>4, <2>2, <1>1 DEF chain, slot, level
        <5>2. CASE j < n
          <6>1. j \in 1 .. Len(chain2) /\ chain2[j] = lv.price
            BY <5>2, <4>2, <4>4, <2>2, <2>3 DEF chain
          <6> QED BY <6>1, <4>1, <4>3, <4>4, <2>4
        <5>3. CASE j > n
          <6>1. j - 1 \in 1 .. Len(chain2) /\ chain2[j - 1] = lv.price
            BY <5>3, <4>2, <4>4, <2>2, <2>3 DEF chain
          <6> QED BY <6>1, <4>1, <4>3, <4>4, <2>4
        <5> QED BY <5>1, <5>2, <5>3, <4>2, <2>2
      <4>5. CASE lv.side # side
        BY <4>1, <4>2, <4>3, <4>5, <2>4
      <4> QED BY <4>4, <4>5
    <3>2. ASSUME NEW sd \in Side, NEW j \in 1 .. Len(by_price'[sd])
          PROVE  LET pr == by_price'[sd][j]
                 IN  /\ priceToIndex(pr) \in DOMAIN price_orders_at_price'
                     /\ price_orders_at_price'[priceToIndex(pr)].side = sd
                     /\ price_orders_at_price'[priceToIndex(pr)].price = pr
      <4>1. PICK k \in 1 .. Len(by_price[sd]) :
              /\ by_price'[sd][j] = by_price[sd][k]
              /\ sd = side => k # n
        <5>1. CASE sd # side
          BY <5>1, <2>4
        <5>2. CASE sd = side
          <6> DEFINE k == IF j < n THEN j ELSE j + 1
          <6>1. Len(chain) \in Nat /\ Len(by_price'[sd]) = Len(chain) - 1
            BY <5>2, <2>2, <2>3, <2>4
          <6>2. k \in 1 .. Len(chain) /\ by_price'[sd][j] = chain[k] /\ k # n
            BY <5>2, <6>1, <2>2, <2>3, <2>4
          <6> QED BY <5>2, <6>2 DEF chain
        <5> QED BY <5>1, <5>2
      <4>2. /\ priceToIndex(by_price[sd][k]) \in DOMAIN price_orders_at_price
            /\ price_orders_at_price[priceToIndex(by_price[sd][k])].side = sd
            /\ price_orders_at_price[priceToIndex(by_price[sd][k])].price = by_price[sd][k]
        BY <4>1 DEF Book, SlotsMatchChains, HasLevel, getOrdersAtPrice
      <4>3. priceToIndex(by_price[sd][k]) # slot
        BY <4>1, <4>2, <2>8, <1>1 DEF chain, side, level
      <4> QED BY <4>1, <4>2, <4>3, <2>5
    <3> QED BY <3>1, <3>2 DEF SlotsMatchChains, HasLevel, getOrdersAtPrice
  <2>10. LevelsHoldTheirOrders'
    <3>1. ASSUME NEW s \in DOMAIN price_orders_at_price'
          PROVE  LET lv == price_orders_at_price'[s]
                 IN  /\ lv.orders # <<>>
                     /\ \A j \in 1 .. Len(lv.orders) :
                          /\ lv.orders[j] \in DOMAIN orders'
                          /\ orders'[lv.orders[j]].side = lv.side
                          /\ orders'[lv.orders[j]].price = lv.price
      <4>1. \A j \in 1 .. Len(price_orders_at_price[s].orders) :
               price_orders_at_price[s].orders[j] # m
        BY <2>5 DEF Book, SlotsMatchChains, LevelsHoldTheirOrders, slot, order
      <4> QED BY <4>1, <2>5, <1>4 DEF Book, LevelsHoldTheirOrders
    <3>2. ASSUME NEW x \in DOMAIN orders'
          PROVE  /\ priceToIndex(orders'[x].price) \in DOMAIN price_orders_at_price'
                 /\ \E j \in 1 .. Len(price_orders_at_price'[priceToIndex(orders'[x].price)].orders) :
                      price_orders_at_price'[priceToIndex(orders'[x].price)].orders[j] = x
      <4>1. priceToIndex(orders[x].price) # slot
        BY <1>2, <1>4, <1>5 DEF Book, LevelsHoldTheirOrders, getOrdersAtPrice, level
      <4> QED BY <4>1, <2>5, <1>4 DEF Book, LevelsHoldTheirOrders, HasLevel, getOrdersAtPrice
    <3> QED BY <3>1, <3>2 DEF LevelsHoldTheirOrders, HasLevel, getOrdersAtPrice
  <2>11. TimePriority'
    <3>1. ASSUME NEW s \in DOMAIN price_orders_at_price'
          PROVE  /\ price_orders_at_price'[s] = price_orders_at_price[s]
                 /\ \A j \in 1 .. Len(price_orders_at_price[s].orders) :
                      orders'[price_orders_at_price[s].orders[j]]
                        = orders[price_orders_at_price[s].orders[j]]
      BY <2>5, <2>10, <1>4 DEF LevelsHoldTheirOrders
    <3> QED BY <3>1, <2>5 DEF Book, TimePriority
  <2> QED
    BY <1>4, <2>5, <2>6, <2>7, <2>9, <2>10, <2>11 DEF Book
<1>6. CASE Len(level.orders) # 1
  <2> DEFINE list2 == RemoveAt(level.orders, i)
             level2 == [side |-> level.side, price |-> level.price, orders |-> list2]
  <2>1. /\ by_price' = by_price
        /\ price_orders_at_price' = [price_orders_at_price EXCEPT ![slot].orders = list2]
    BY <1>2, <1>6 DEF removeOrder, getOrdersAtPrice
  <2>2. /\ list2 \in Seq(MarketOrderIds)
        /\ Len(list2) = Len(level.orders) - 1
        /\ \A j \in 1 .. Len(level.orders) - 1 :
             list2[j] = IF j < i THEN level.orders[j] ELSE level.orders[j+1]
    BY <1>1, <1>2, RemoveAtFacts DEF MEOrdersAtPrice
  <2>3. /\ DOMAIN price_orders_at_price' = DOMAIN price_orders_at_price
        /\ \A s \in DOMAIN price_orders_at_price' :
             price_orders_at_price'[s] =
                IF s = slot THEN level2 ELSE price_orders_at_price[s]
    BY <1>1, <2>1 DEF MEOrdersAtPrice, Book, BookType
  <2> HIDE DEF order, slot, level, list2
  <2>4. \A j \in 1 .. Len(level.orders) : j # i => level.orders[j] # m
    <3> SUFFICES ASSUME NEW j \in 1 .. Len(level.orders), j # i PROVE level.orders[j] # m
      OBVIOUS
    <3>1. level.orders \in Seq(Nat) /\ Len(level.orders) \in Nat
      BY <1>1 DEF MEOrdersAtPrice, MarketOrderIds
    <3>2. CASE j < i
      BY <3>1, <3>2, <1>1, <1>2 DEF Book, TimePriority, level
    <3>3. CASE i < j
      BY <3>1, <3>3, <1>1, <1>2 DEF Book, TimePriority, level
    <3> QED BY <3>1, <3>2, <3>3
  <2>5. BookType'
    BY <1>1, <1>4, <2>1, <2>2, <2>3 DEF Book, BookType, MEOrdersAtPrice
  <2>6. ChainsSorted'
    BY <2>1 DEF Book, ChainsSorted
  <2>7. \A s \in DOMAIN price_orders_at_price' :
           /\ price_orders_at_price'[s].price = price_orders_at_price[s].price
           /\ price_orders_at_price'[s].side = price_orders_at_price[s].side
    BY <2>3 DEF level
  <2>8. SlotsMatchChains'
    BY <2>1, <2>3, <2>7 DEF Book, SlotsMatchChains, HasLevel, getOrdersAtPrice
  <2>9. LevelsHoldTheirOrders'
    <3>1. ASSUME NEW s \in DOMAIN price_orders_at_price'
          PROVE  LET lv == price_orders_at_price'[s]
                 IN  /\ lv.orders # <<>>
                     /\ \A j \in 1 .. Len(lv.orders) :
                          /\ lv.orders[j] \in DOMAIN orders'
                          /\ orders'[lv.orders[j]].side = lv.side
                          /\ orders'[lv.orders[j]].price = lv.price
      <4>1. CASE s = slot
        <5>1. Len(level.orders) \in Nat /\ Len(list2) \in Nat
          BY <1>1, <2>2 DEF MEOrdersAtPrice
        <5>2. price_orders_at_price'[s] = level2 /\ list2 # <<>>
          <6>1. Len(list2) # 0
            BY <5>1, <2>2, <1>2, <1>6
          <6> QED BY <4>1, <6>1, <2>3, EmptySeq
        <5>3. ASSUME NEW j \in 1 .. Len(list2)
              PROVE  /\ list2[j] \in DOMAIN orders'
                     /\ orders'[list2[j]].side = level.side
                     /\ orders'[list2[j]].price = level.price
          <6> DEFINE k == IF j < i THEN j ELSE j + 1
          <6>1. k \in 1 .. Len(level.orders) /\ list2[j] = level.orders[k] /\ k # i
            BY <5>1, <2>2, <1>2
          <6> HIDE DEF k
          <6> QED BY <6>1, <2>4, <1>4, <1>1 DEF Book, LevelsHoldTheirOrders, level
        <5> QED BY <5>2, <5>3
      <4>2. CASE s # slot
        <5>1. \A j \in 1 .. Len(price_orders_at_price[s].orders) :
                 price_orders_at_price[s].orders[j] # m
          BY <4>2, <2>3 DEF Book, SlotsMatchChains, LevelsHoldTheirOrders, slot, order
        <5>2. s \in DOMAIN price_orders_at_price /\ price_orders_at_price'[s] = price_orders_at_price[s]
          BY <4>2, <2>3
        <5>3. LET lv == price_orders_at_price[s]
              IN  /\ lv.orders # <<>>
                  /\ \A j \in 1 .. Len(lv.orders) :
                       /\ lv.orders[j] \in DOMAIN orders
                       /\ orders[lv.orders[j]].side = lv.side
                       /\ orders[lv.orders[j]].price = lv.price
          BY <5>2 DEF Book, LevelsHoldTheirOrders
        <5>4. \A j \in 1 .. Len(price_orders_at_price[s].orders) :
                 /\ price_orders_at_price[s].orders[j] \in DOMAIN orders'
                 /\ orders'[price_orders_at_price[s].orders[j]]
                      = orders[price_orders_at_price[s].orders[j]]
          BY <5>1, <5>3, <1>4
        <5> HIDE DEF Book
        <5> QED BY <5>2, <5>3, <5>4
      <4> QED BY <4>1, <4>2
    <3>2. ASSUME NEW x \in DOMAIN orders'
          PROVE  /\ priceToIndex(orders'[x].price) \in DOMAIN price_orders_at_price'
                 /\ \E j \in 1 .. Len(price_orders_at_price'[priceToIndex(orders'[x].price)].orders) :
                      price_orders_at_price'[priceToIndex(orders'[x].price)].orders[j] = x
      <4> DEFINE sx == priceToIndex(orders[x].price)
      <4>1. /\ sx \in DOMAIN price_orders_at_price /\ x # m /\ orders'[x] = orders[x]
        BY <1>4 DEF Book, LevelsHoldTheirOrders, HasLevel
      <4>2. PICK k \in 1 .. Len(price_orders_at_price[sx].orders) :
              price_orders_at_price[sx].orders[k] = x
        BY <4>1, <1>4 DEF Book, LevelsHoldTheirOrders, getOrdersAtPrice
      <4>3. CASE sx = slot
        <5>1. k # i /\ k \in 1 .. Len(level.orders) /\ level.orders[k] = x
          BY <4>1, <4>2, <4>3, <1>2 DEF level
        <5>2. \E j \in 1 .. Len(list2) : list2[j] = x
          <6>1. CASE k < i
            BY <6>1, <5>1, <2>2, <1>2
          <6>2. CASE k > i
            <7>1. k - 1 \in 1 .. Len(list2) /\ list2[k - 1] = x
              BY <6>2, <5>1, <2>2, <1>2
            <7> QED BY <7>1
          <6> QED BY <6>1, <6>2, <5>1, <1>2
        <5> QED BY <4>1, <4>3, <5>2, <2>3
      <4>4. CASE sx # slot
        BY <4>1, <4>2, <4>4, <2>3
      <4> QED BY <4>3, <4>4
    <3> QED BY <3>1, <3>2 DEF LevelsHoldTheirOrders, HasLevel, getOrdersAtPrice
  <2>10. TimePriority'
    <3> SUFFICES ASSUME NEW s \in DOMAIN price_orders_at_price',
                        NEW j \in 1 .. Len(price_orders_at_price'[s].orders),
                        NEW k \in 1 .. Len(price_orders_at_price'[s].orders),
                        j < k
                 PROVE  LET list == price_orders_at_price'[s].orders
                        IN  /\ list[j] < list[k]
                            /\ orders'[list[j]].priority < orders'[list[k]].priority
      BY DEF TimePriority
    <3>1. orders'[price_orders_at_price'[s].orders[j]] = orders[price_orders_at_price'[s].orders[j]]
      BY <2>9, <1>4 DEF LevelsHoldTheirOrders
    <3>2. orders'[price_orders_at_price'[s].orders[k]] = orders[price_orders_at_price'[s].orders[k]]
      BY <2>9, <1>4 DEF LevelsHoldTheirOrders
    <3>3. CASE s = slot
      <4> DEFINE up(x) == IF x < i THEN x ELSE x + 1
      <4>1. Len(level.orders) \in Nat /\ price_orders_at_price'[s].orders = list2
        BY <3>3, <2>3, <1>1 DEF MEOrdersAtPrice
      <4>2. /\ up(j) \in 1 .. Len(level.orders) /\ up(k) \in 1 .. Len(level.orders)
            /\ up(j) < up(k)
            /\ list2[j] = level.orders[up(j)] /\ list2[k] = level.orders[up(k)]
        <5>1. j \in 1 .. Len(level.orders) - 1 /\ k \in 1 .. Len(level.orders) - 1
          BY <4>1, <2>2
        <5> QED BY <5>1, <4>1, <2>2, <1>2
      <4> HIDE DEF up
      <4> QED BY <3>1, <3>2, <3>3, <4>1, <4>2, <1>1 DEF Book, TimePriority, level
    <3>4. CASE s # slot
      BY <3>1, <3>2, <3>4, <2>3 DEF Book, TimePriority
    <3> QED BY <3>3, <3>4
  <2> QED
    BY <1>4, <2>3, <2>5, <2>6, <2>7, <2>8, <2>9, <2>10 DEF Book
<1> QED BY <1>5, <1>6

(* addOrder(), called with the youngest order, leaves a well-formed book   *)
(* if the level that its price leads to is one of its own side and price.  *)
LEMMA AddOrderKeepsBook ==
  ASSUME Book, NEW m \in MarketOrderIds, NEW order \in MEOrder, addOrder(m, order),
         \A x \in DOMAIN orders : x < m,
         <<order.client_id, order.client_order_id>> \notin DOMAIN cid_oid_to_order,
         order.priority = getNextPriority(order.price),
         HasLevel(order.price) => /\ getOrdersAtPrice(order.price).price = order.price
                                  /\ getOrdersAtPrice(order.price).side = order.side
  PROVE  /\ Book'
         /\ DOMAIN orders' = DOMAIN orders \cup {m}
         /\ \A x \in DOMAIN orders' : orders'[x] = IF x = m THEN order ELSE orders[x]
<1> DEFINE slot == priceToIndex(order.price)
           level == price_orders_at_price[slot]
           key == <<order.client_id, order.client_order_id>>
<1>1. /\ orders' = [x \in DOMAIN orders \cup {m} |-> IF x = m THEN order ELSE orders[x]]
      /\ cid_oid_to_order' = [k \in DOMAIN cid_oid_to_order \cup {key} |->
                                IF k = key THEN m ELSE cid_oid_to_order[k]]
  BY DEF addOrder
<1>2. slot \in Slots /\ m \notin DOMAIN orders /\ key \in ClientIds \X OrderIds
      /\ order.side \in Side /\ order.price \in Prices
  <2>1. /\ order.side \in Side /\ order.price \in Prices /\ order.price \in Int
        /\ order.client_id \in ClientIds /\ order.client_order_id \in OrderIds
    BY ConstantsAssumption DEF MEOrder
  <2>2. slot \in Slots
    BY <2>1, ConstantsAssumption DEF priceToIndex, Slots
  <2>3. m \notin DOMAIN orders
    BY DEF MarketOrderIds
  <2> QED BY <2>1, <2>2, <2>3
<1>3. /\ IndexExact'
      /\ DOMAIN orders' = DOMAIN orders \cup {m}
      /\ \A x \in DOMAIN orders' : orders'[x] = IF x = m THEN order ELSE orders[x]
      /\ DOMAIN orders' \subseteq MarketOrderIds
      /\ \A x \in DOMAIN orders' : orders'[x] \in MEOrder
      /\ DOMAIN cid_oid_to_order' \subseteq ClientIds \X OrderIds
      /\ \A k \in DOMAIN cid_oid_to_order' : cid_oid_to_order'[k] \in MarketOrderIds
  BY <1>1, <1>2 DEF Book, BookType, IndexExact
<1>4. CASE slot \in DOMAIN price_orders_at_price
  <2> DEFINE list == level.orders
             list2 == Append(list, m)
             level2 == [side |-> level.side, price |-> level.price, orders |-> list2]
  <2>1. /\ by_price' = by_price
        /\ price_orders_at_price' = [price_orders_at_price EXCEPT ![slot].orders = list2]
    BY <1>4 DEF addOrder, HasLevel
  <2>2. /\ level \in MEOrdersAtPrice /\ list \in Seq(MarketOrderIds) /\ list # <<>>
        /\ level.price = order.price /\ level.side = order.side
        /\ Len(list) \in Nat \ {0}
    BY <1>4, EmptySeq DEF Book, BookType, LevelsHoldTheirOrders, MEOrdersAtPrice, HasLevel, getOrdersAtPrice
  <2>3. /\ list2 \in Seq(MarketOrderIds) /\ list2 # <<>>
        /\ Len(list2) = Len(list) + 1
        /\ \A j \in 1 .. Len(list) : list2[j] = list[j]
        /\ list2[Len(list) + 1] = m
    BY <2>2, AppendProperties
  <2>4. /\ DOMAIN price_orders_at_price' = DOMAIN price_orders_at_price
        /\ \A s \in DOMAIN price_orders_at_price' :
             price_orders_at_price'[s] = IF s = slot THEN level2 ELSE price_orders_at_price[s]
    <3> HIDE DEF slot, list2
    <3>1. [level EXCEPT !.orders = list2] = level2
      BY <2>2 DEF MEOrdersAtPrice
    <3> QED
      BY <1>4, <2>1, <3>1, Zenon
  <2>5. order.priority = orders[list[Len(list)]].priority + 1
    BY <1>4 DEF getNextPriority, HasLevel, getOrdersAtPrice, Last
  <2> HIDE DEF slot, level, list2, list
  <2>6. BookType'
    <3>1. by_price' = by_price
      BY <2>1
    <3> QED BY <3>1, <1>3, <1>4, <2>2, <2>3, <2>4 DEF Book, BookType, MEOrdersAtPrice
  <2>7. ChainsSorted'
    BY <2>1 DEF Book, ChainsSorted
  <2>8. \A s \in DOMAIN price_orders_at_price' :
           /\ price_orders_at_price'[s].price = price_orders_at_price[s].price
           /\ price_orders_at_price'[s].side = price_orders_at_price[s].side
    BY <2>4 DEF level
  <2>9. SlotsMatchChains'
    BY <2>1, <2>4, <2>8 DEF Book, SlotsMatchChains, HasLevel, getOrdersAtPrice
  <2>10. \A s \in DOMAIN price_orders_at_price :
            \A j \in 1 .. Len(price_orders_at_price[s].orders) :
              /\ price_orders_at_price[s].orders[j] \in DOMAIN orders
              /\ price_orders_at_price[s].orders[j] # m
              /\ orders'[price_orders_at_price[s].orders[j]]
                   = orders[price_orders_at_price[s].orders[j]]
    BY <1>2, <1>3 DEF Book, LevelsHoldTheirOrders
  <2>11. LevelsHoldTheirOrders'
    <3>1. ASSUME NEW s \in DOMAIN price_orders_at_price'
          PROVE  LET lv == price_orders_at_price'[s]
                 IN  /\ lv.orders # <<>>
                     /\ \A j \in 1 .. Len(lv.orders) :
                          /\ lv.orders[j] \in DOMAIN orders'
                          /\ orders'[lv.orders[j]].side = lv.side
                          /\ orders'[lv.orders[j]].price = lv.price
      <4>1. CASE s = slot
        <5>1. price_orders_at_price'[s] = level2
          BY <4>1, <2>4
        <5>2. ASSUME NEW j \in 1 .. Len(list2)
              PROVE  /\ list2[j] \in DOMAIN orders'
                     /\ orders'[list2[j]].side = level.side
                     /\ orders'[list2[j]].price = level.price
          <6>1. CASE j = Len(list) + 1
            BY <6>1, <2>2, <2>3, <1>3
          <6>2. CASE j # Len(list) + 1
            <7>1. j \in 1 .. Len(list) /\ list2[j] = list[j]
              BY <6>2, <2>2, <2>3
            <7> QED BY <7>1, <2>10, <1>3, <1>4 DEF Book, LevelsHoldTheirOrders, level, list
          <6> QED BY <6>1, <6>2
        <5> QED BY <5>1, <5>2, <2>3
      <4>2. CASE s # slot
        BY <4>2, <2>4, <2>10, <1>3 DEF Book, LevelsHoldTheirOrders
      <4> QED BY <4>1, <4>2
    <3>2. ASSUME NEW x \in DOMAIN orders'
          PROVE  /\ priceToIndex(orders'[x].price) \in DOMAIN price_orders_at_price'
                 /\ \E j \in 1 .. Len(price_orders_at_price'[priceToIndex(orders'[x].price)].orders) :
                      price_orders_at_price'[priceToIndex(orders'[x].price)].orders[j] = x
      <4>1. CASE x = m
        <5>1. priceToIndex(orders'[x].price) = slot /\ price_orders_at_price'[slot].orders = list2
          BY <4>1, <1>3, <1>4, <2>4 DEF slot
        <5>2. Len(list) + 1 \in 1 .. Len(list2) /\ list2[Len(list) + 1] = x
          BY <4>1, <2>2, <2>3
        <5> QED BY <5>1, <5>2, <1>4, <2>4
      <4>2. CASE x # m
        <5> DEFINE sx == priceToIndex(orders[x].price)
        <5>1. x \in DOMAIN orders /\ orders'[x] = orders[x] /\ sx \in DOMAIN price_orders_at_price
          BY <4>2, <1>3 DEF Book, LevelsHoldTheirOrders, HasLevel
        <5>2. PICK k \in 1 .. Len(price_orders_at_price[sx].orders) :
                price_orders_at_price[sx].orders[k] = x
          BY <5>1 DEF Book, LevelsHoldTheirOrders, getOrdersAtPrice
        <5>3. CASE sx = slot
          <6>1. k \in 1 .. Len(list2) /\ list2[k] = x
            BY <5>2, <5>3, <2>2, <2>3 DEF list, level
          <6> QED BY <6>1, <5>1, <5>3, <2>4
        <5>4. CASE sx # slot
          BY <5>1, <5>2, <5>4, <2>4
        <5> QED BY <5>3, <5>4
      <4> QED BY <4>1, <4>2
    <3> QED BY <3>1, <3>2 DEF LevelsHoldTheirOrders, HasLevel, getOrdersAtPrice
  <2>12. TimePriority'
    <3> SUFFICES ASSUME NEW s \in DOMAIN price_orders_at_price',
                        NEW j \in 1 .. Len(price_orders_at_price'[s].orders),
                        NEW k \in 1 .. Len(price_orders_at_price'[s].orders),
                        j < k
                 PROVE  LET l == price_orders_at_price'[s].orders
                        IN  /\ l[j] < l[k]
                            /\ orders'[l[j]].priority < orders'[l[k]].priority
      BY DEF TimePriority
    <3>1. CASE s # slot
      BY <3>1, <2>4, <2>10 DEF Book, TimePriority
    <3>2. \A a, b \in 1 .. Len(list) : a < b =>
             /\ list[a] < list[b]
             /\ orders[list[a]].priority < orders[list[b]].priority
      BY <1>4 DEF Book, TimePriority, list, level
    <3>3. \A a \in 1 .. Len(list) : orders'[list[a]] = orders[list[a]]
      BY <2>10, <1>4 DEF list, level
    <3> HIDE DEF Book
    <3>4. CASE s = slot /\ k # Len(list) + 1
      <4>1. /\ price_orders_at_price'[s].orders = list2
            /\ j \in 1 .. Len(list) /\ k \in 1 .. Len(list)
            /\ list2[j] = list[j] /\ list2[k] = list[k]
        BY <3>4, <2>2, <2>3, <2>4
      <4> QED BY <4>1, <3>2, <3>3
    <3>5. CASE s = slot /\ k = Len(list) + 1
      <4>1. /\ price_orders_at_price'[s].orders = list2
            /\ j \in 1 .. Len(list) /\ list2[j] = list[j] /\ list2[k] = m
            /\ Len(list) \in 1 .. Len(list)
        BY <3>5, <2>2, <2>3, <2>4
      <4>2. /\ list[j] < m /\ orders'[list[j]] = orders[list[j]] /\ orders'[m] = order
            /\ orders[list[j]].priority \in Nat
            /\ orders[list[Len(list)]].priority \in Nat
        BY <4>1, <2>10, <1>3, <1>4 DEF Book, BookType, MEOrder, list, level
      <4>3. orders[list[j]].priority <= orders[list[Len(list)]].priority
        <5>1. CASE j = Len(list)
          BY <5>1, <4>2
        <5>2. CASE j < Len(list)
          BY <5>2, <4>1, <4>2, <3>2
        <5> QED BY <5>1, <5>2, <4>1, <2>2
      <4> QED BY <3>5, <4>1, <4>2, <4>3, <2>5
    <3> QED BY <3>1, <3>4, <3>5
  <2> QED
    BY <1>3, <2>6, <2>7, <2>9, <2>11, <2>12 DEF Book
<1>5. CASE slot \notin DOMAIN price_orders_at_price
  <2> DEFINE side == order.side
             price == order.price
             new == [side |-> side, price |-> price, orders |-> <<m>>]
             chain == by_price[side]
             n == InsertionPoint(side, price)
             chain2 == InsertAt(chain, n, price)
  <2>1. /\ by_price' = [by_price EXCEPT ![side] = chain2]
        /\ price_orders_at_price' =
             [s \in DOMAIN price_orders_at_price \cup {slot} |->
                IF s = slot THEN new ELSE price_orders_at_price[s]]
    BY <1>5 DEF addOrder, addOrdersAtPrice, HasLevel
  <2>2. chain \in Seq(Prices) /\ Len(chain) \in Nat /\ price \in Prices /\ price \in Int
    BY <1>2, ConstantsAssumption, LenProperties DEF Book, BookType
  <2>3. /\ n \in 1 .. Len(chain) + 1
        /\ \A j \in 1 .. n - 1 : Outranks(side, chain[j], price)
        /\ n <= Len(chain) => ~Outranks(side, chain[n], price)
    BY <1>2, <2>2, InsertionPointFacts DEF shouldAdvance
  <2>4. /\ chain2 \in Seq(Prices)
        /\ Len(chain2) = Len(chain) + 1
        /\ \A j \in 1 .. Len(chain) + 1 : chain2[j] =
             IF j < n THEN chain[j] ELSE IF j = n THEN price ELSE chain[j-1]
    <3> HIDE DEF chain, n, price
    <3>1. chain \in Seq(Prices) /\ n \in 1 .. Len(chain) + 1 /\ price \in Prices
      BY <2>2, <2>3
    <3> QED BY <3>1, InsertAtFacts
  <2>5. /\ \A s \in Side : by_price'[s] = IF s = side THEN chain2 ELSE by_price[s]
        /\ by_price' \in [Side -> Seq(Prices)]
    BY <1>2, <2>1, <2>4 DEF Book, BookType
  <2>6. /\ DOMAIN price_orders_at_price' = DOMAIN price_orders_at_price \cup {slot}
        /\ price_orders_at_price'[slot] = new
        /\ \A s \in DOMAIN price_orders_at_price :
             price_orders_at_price'[s] = price_orders_at_price[s] /\ s # slot
    BY <1>5, <2>1
  <2>7. new \in MEOrdersAtPrice /\ Len(<<m>>) = 1 /\ <<m>>[1] = m /\ <<m>> # <<>>
    BY <1>2 DEF MEOrdersAtPrice
  <2> HIDE DEF slot, chain, n, chain2, side, price
  <2>8. BookType'
    BY <1>2, <1>3, <2>5, <2>6, <2>7 DEF Book, BookType
  \* No level has the new level's price.
  <2>9. \A j \in 1 .. Len(chain) : chain[j] # price /\ chain[j] \in Int
    <3> SUFFICES ASSUME NEW j \in 1 .. Len(chain) PROVE chain[j] # price /\ chain[j] \in Int
      OBVIOUS
    <3>1. chain[j] \in Int
      BY <2>2, ConstantsAssumption, ElementOfSeq
    <3>2. priceToIndex(chain[j]) \in DOMAIN price_orders_at_price
      BY <1>2 DEF Book, SlotsMatchChains, HasLevel, chain, side
    <3> QED BY <3>1, <3>2, <1>5 DEF slot, price
  <2>10. \A j \in n .. Len(chain) : Outranks(side, price, chain[j])
    <3> SUFFICES ASSUME NEW j \in n .. Len(chain) PROVE Outranks(side, price, chain[j])
      OBVIOUS
    <3>1. j \in 1 .. Len(chain) /\ n \in 1 .. Len(chain) /\ ~Outranks(side, chain[n], price)
      BY <2>2, <2>3
    <3>2. Outranks(side, price, chain[n])
      BY <3>1, <2>9, <2>2 DEF Outranks
    <3>3. CASE j = n
      BY <3>2, <3>3
    <3>4. CASE n < j
      <4>1. Outranks(side, chain[n], chain[j])
        BY <3>1, <3>4, <1>2 DEF Book, ChainsSorted, chain, side
      <4> QED BY <4>1, <3>1, <3>2, <2>2, <2>9 DEF Outranks
    <3> QED BY <3>1, <3>3, <3>4
  <2>11. ChainsSorted'
    <3> SUFFICES ASSUME NEW sd \in Side,
                        NEW j \in 1 .. Len(by_price'[sd]), NEW k \in 1 .. Len(by_price'[sd]),
                        j < k
                 PROVE  Outranks(sd, by_price'[sd][j], by_price'[sd][k])
      BY DEF ChainsSorted, Outranks
    <3>1. CASE sd # side
      BY <3>1, <2>5 DEF Book, ChainsSorted
    <3>2. CASE sd = side
      <4> DEFINE down(x) == IF x < n THEN x ELSE x - 1
      <4>1. by_price'[sd] = chain2 /\ j \in 1 .. Len(chain) + 1 /\ k \in 1 .. Len(chain) + 1
        BY <3>2, <2>4, <2>5
      <4>2. CASE j = n
        <5>1. chain2[j] = price /\ chain2[k] = chain[k-1] /\ k - 1 \in n .. Len(chain)
          BY <4>1, <4>2, <2>2, <2>3, <2>4
        <5> QED BY <3>2, <4>1, <5>1, <2>10
      <4>3. CASE k = n
        <5>1. chain2[k] = price /\ chain2[j] = chain[j] /\ j \in 1 .. n - 1
          BY <4>1, <4>3, <2>2, <2>3, <2>4
        <5> QED BY <3>2, <4>1, <5>1, <2>3
      <4>4. CASE j # n /\ k # n
        <5>1. /\ down(j) \in 1 .. Len(chain) /\ down(k) \in 1 .. Len(chain) /\ down(j) < down(k)
              /\ chain2[j] = chain[down(j)] /\ chain2[k] = chain[down(k)]
          BY <4>1, <4>4, <2>2, <2>3, <2>4
        <5> HIDE DEF down
        <5> QED BY <3>2, <4>1, <5>1 DEF Book, ChainsSorted, chain
      <4> QED BY <4>2, <4>3, <4>4
    <3> QED BY <3>1, <3>2
  <2>12. SlotsMatchChains'
    <3>1. ASSUME NEW s \in DOMAIN price_orders_at_price'
          PROVE  LET lv == price_orders_at_price'[s]
                 IN  /\ priceToIndex(lv.price) = s
                     /\ \E j \in 1 .. Len(by_price'[lv.side]) : by_price'[lv.side][j] = lv.price
      <4>1. CASE s = slot
        <5>1. n \in 1 .. Len(chain2) /\ chain2[n] = price
          BY <2>2, <2>3, <2>4
        <5> QED BY <4>1, <5>1, <1>2, <2>5, <2>6 DEF slot, side, price
      <4>2. CASE s # slot
        <5> DEFINE lv == price_orders_at_price[s]
        <5>1. /\ s \in DOMAIN price_orders_at_price /\ price_orders_at_price'[s] = lv
              /\ lv.side \in Side
          BY <4>2, <2>6 DEF Book, BookType, MEOrdersAtPrice
        <5>2. priceToIndex(lv.price) = s
          BY <5>1 DEF Book, SlotsMatchChains
        <5>3. PICK j \in 1 .. Len(by_price[lv.side]) : by_price[lv.side][j] = lv.price
          BY <5>1 DEF Book, SlotsMatchChains
        <5>4. CASE lv.side # side
          BY <5>1, <5>2, <5>3, <5>4, <2>5
        <5>5. CASE lv.side = side /\ j < n
          <6>1. j \in 1 .. Len(chain2) /\ chain2[j] = lv.price
            BY <5>3, <5>5, <2>2, <2>3, <2>4 DEF chain
          <6> QED BY <6>1, <5>1, <5>2, <5>5, <2>5
        <5>6. CASE lv.side = side /\ ~(j < n)
          <6>1. j + 1 \in 1 .. Len(chain2) /\ chain2[j + 1] = lv.price
            BY <5>3, <5>6, <2>2, <2>3, <2>4 DEF chain
          <6> QED BY <6>1, <5>1, <5>2, <5>6, <2>5
        <5> QED BY <5>4, <5>5, <5>6
      <4> QED BY <4>1, <4>2
    <3>2. ASSUME NEW sd \in Side, NEW j \in 1 .. Len(by_price'[sd])
          PROVE  LET pr == by_price'[sd][j]
                 IN  /\ priceToIndex(pr) \in DOMAIN price_orders_at_price'
                     /\ price_orders_at_price'[priceToIndex(pr)].side = sd
                     /\ price_orders_at_price'[priceToIndex(pr)].price = pr
      <4>1. CASE sd = side /\ j = n
        <5>1. by_price'[sd][j] = price
          BY <4>1, <2>2, <2>3, <2>4, <2>5
        <5> QED BY <4>1, <5>1, <2>6 DEF slot, price, side
      <4>2. CASE ~(sd = side /\ j = n)
        <5>1. PICK k \in 1 .. Len(by_price[sd]) : by_price'[sd][j] = by_price[sd][k]
          <6>1. CASE sd # side
            BY <6>1, <2>5
          <6>2. CASE sd = side
            <7> DEFINE k == IF j < n THEN j ELSE j - 1
            <7>1. by_price'[sd] = chain2 /\ j \in 1 .. Len(chain) + 1 /\ j # n
              BY <6>2, <4>2, <2>4, <2>5
            <7>2. k \in 1 .. Len(chain) /\ chain2[j] = chain[k]
              BY <7>1, <2>2, <2>3, <2>4
            <7> QED BY <6>2, <7>1, <7>2 DEF chain
          <6> QED BY <6>1, <6>2
        <5>2. /\ priceToIndex(by_price[sd][k]) \in DOMAIN price_orders_at_price
              /\ price_orders_at_price[priceToIndex(by_price[sd][k])].side = sd
              /\ price_orders_at_price[priceToIndex(by_price[sd][k])].price = by_price[sd][k]
          BY <5>1 DEF Book, SlotsMatchChains, HasLevel, getOrdersAtPrice
        <5> QED BY <5>1, <5>2, <2>6
      <4> QED BY <4>1, <4>2
    <3> QED BY <3>1, <3>2 DEF SlotsMatchChains, HasLevel, getOrdersAtPrice
  <2>13. LevelsHoldTheirOrders'
    <3>1. ASSUME NEW s \in DOMAIN price_orders_at_price'
          PROVE  LET lv == price_orders_at_price'[s]
                 IN  /\ lv.orders # <<>>
                     /\ \A j \in 1 .. Len(lv.orders) :
                          /\ lv.orders[j] \in DOMAIN orders'
                          /\ orders'[lv.orders[j]].side = lv.side
                          /\ orders'[lv.orders[j]].price = lv.price
      <4>1. CASE s = slot
        <5>1. ASSUME NEW j \in 1 .. 1 PROVE j = 1
          OBVIOUS
        <5> QED BY <4>1, <5>1, <2>6, <2>7, <1>3 DEF side, price
      <4>2. CASE s # slot
        BY <4>2, <2>6, <1>2, <1>3 DEF Book, LevelsHoldTheirOrders
      <4> QED BY <4>1, <4>2
    <3>2. ASSUME NEW x \in DOMAIN orders'
          PROVE  /\ priceToIndex(orders'[x].price) \in DOMAIN price_orders_at_price'
                 /\ \E j \in 1 .. Len(price_orders_at_price'[priceToIndex(orders'[x].price)].orders) :
                      price_orders_at_price'[priceToIndex(orders'[x].price)].orders[j] = x
      <4>1. CASE x = m
        <5>1. priceToIndex(orders'[x].price) = slot /\ price_orders_at_price'[slot].orders = <<m>>
          BY <4>1, <1>3, <2>6 DEF slot
        <5>2. 1 \in 1 .. Len(<<m>>)
          BY <2>7
        <5> QED BY <4>1, <5>1, <5>2, <2>6, <2>7
      <4>2. CASE x # m
        BY <4>2, <2>6, <1>3 DEF Book, LevelsHoldTheirOrders, HasLevel, getOrdersAtPrice
      <4> QED BY <4>1, <4>2
    <3> QED BY <3>1, <3>2 DEF LevelsHoldTheirOrders, HasLevel, getOrdersAtPrice
  <2>14. TimePriority'
    <3> SUFFICES ASSUME NEW s \in DOMAIN price_orders_at_price',
                        NEW j \in 1 .. Len(price_orders_at_price'[s].orders),
                        NEW k \in 1 .. Len(price_orders_at_price'[s].orders),
                        j < k
                 PROVE  LET l == price_orders_at_price'[s].orders
                        IN  /\ l[j] < l[k]
                            /\ orders'[l[j]].priority < orders'[l[k]].priority
      BY DEF TimePriority
    <3>1. CASE s = slot
      <4>1. Len(price_orders_at_price'[s].orders) = 1
        BY <3>1, <2>6, <2>7
      <4> QED BY <4>1
    <3>2. CASE s # slot
      <4>1. /\ s \in DOMAIN price_orders_at_price
            /\ price_orders_at_price'[s] = price_orders_at_price[s]
        BY <3>2, <2>6
      <4>2. \A i \in 1 .. Len(price_orders_at_price[s].orders) :
               orders'[price_orders_at_price[s].orders[i]] = orders[price_orders_at_price[s].orders[i]]
        BY <4>1, <1>2, <1>3 DEF Book, LevelsHoldTheirOrders
      <4> QED BY <4>1, <4>2 DEF Book, TimePriority
    <3> QED BY <3>1, <3>2
  <2> QED
    BY <1>3, <2>8, <2>11, <2>12, <2>13, <2>14 DEF Book
<1> QED BY <1>4, <1>5

----------------------------------------------------------------------------
(* The head of a list is the best price of its side.                       *)
LEMMA HeadIsBest ==
  ASSUME Book, NEW m \in DOMAIN orders
  PROVE  LET chain == by_price[orders[m].side]
         IN  /\ chain # <<>>
             /\ Head(chain) = orders[m].price \/ Outranks(orders[m].side, Head(chain), orders[m].price)
<1> DEFINE side == orders[m].side
           chain == by_price[side]
<1>1. side \in Side /\ chain \in Seq(Prices) /\ Len(chain) \in Nat
  BY LenProperties DEF Book, BookType, MEOrder
<1>2. PICK i \in 1 .. Len(chain) : chain[i] = orders[m].price
  BY DEF Book, LevelsHoldTheirOrders, SlotsMatchChains, HasLevel, getOrdersAtPrice
<1>3. chain # <<>> /\ Head(chain) = chain[1] /\ 1 \in 1 .. Len(chain)
  BY <1>1, <1>2, EmptySeq
<1>4. CASE i = 1
  BY <1>2, <1>3, <1>4
<1>5. CASE 1 < i
  BY <1>1, <1>2, <1>3, <1>5 DEF Book, ChainsSorted
<1> QED
  BY <1>1, <1>2, <1>3, <1>4, <1>5

(* The order that match() is called with: the oldest of the best price.    *)
LEMMA PassiveIsBest ==
  ASSUME Book, taker.side \in Side, CanMatch
  PROVE  /\ Passive \in DOMAIN orders
         /\ orders[Passive].side = Opposite(taker.side)
         /\ orders[Passive].price = Head(by_price[Opposite(taker.side)])
         /\ \A x \in DOMAIN orders \ {Passive} :
               orders[x].price = orders[Passive].price => Passive < x
<1> DEFINE side == Opposite(taker.side)
           chain == by_price[side]
           slot == priceToIndex(Head(chain))
           level == price_orders_at_price[slot]
           list == level.orders
<1>1. side \in Side /\ chain \in Seq(Prices) /\ Len(chain) \in Nat /\ chain # <<>>
  BY LenProperties DEF Book, BookType, Side, Opposite, CanMatch
<1>2. Head(chain) = chain[1] /\ 1 \in 1 .. Len(chain)
  BY <1>1, EmptySeq
<1>3. /\ slot \in DOMAIN price_orders_at_price
      /\ level.side = side /\ level.price = Head(chain)
      /\ level \in MEOrdersAtPrice
  BY <1>1, <1>2 DEF Book, BookType, SlotsMatchChains, HasLevel, getOrdersAtPrice
<1>4. list \in Seq(MarketOrderIds) /\ list # <<>> /\ Len(list) \in Nat
  BY <1>3, LenProperties DEF Book, LevelsHoldTheirOrders, MEOrdersAtPrice
<1>5. Head(list) = list[1] /\ 1 \in 1 .. Len(list)
  BY <1>4, EmptySeq
<1>6. Passive = list[1]
  BY <1>5 DEF Passive, getOrdersAtPrice
<1>7. /\ Passive \in DOMAIN orders /\ orders[Passive].side = side
      /\ orders[Passive].price = Head(chain)
  BY <1>3, <1>5, <1>6 DEF Book, LevelsHoldTheirOrders
<1>8. ASSUME NEW x \in DOMAIN orders \ {Passive}, orders[x].price = orders[Passive].price
      PROVE  Passive < x
  <2>1. PICK j \in 1 .. Len(list) : list[j] = x
    BY <1>7, <1>8 DEF Book, LevelsHoldTheirOrders, getOrdersAtPrice
  <2>2. j # 1
    BY <2>1, <1>6, <1>8
  <2> QED
    BY <2>1, <2>2, <1>3, <1>4, <1>5, <1>6 DEF Book, TimePriority
<1> QED
  BY <1>7, <1>8

TakerOK ==
    /\ next_market_order_id \in MarketOrderIds
    /\ \A x \in DOMAIN orders : x < next_market_order_id
    /\ pc \in {"idle", "matching", "exited"}
    /\ taker \in [client_id : ClientIds, client_order_id : OrderIds, market_order_id : Nat,
                  side : Side, price : Int, leaves : Nat]
    /\ pc # "idle" =>
         /\ taker.price \in Prices
         /\ taker.market_order_id \in MarketOrderIds
         /\ taker.market_order_id < next_market_order_id
         /\ \A x \in DOMAIN orders : x < taker.market_order_id
         /\ <<taker.client_id, taker.client_order_id>> \notin DOMAIN cid_oid_to_order
         /\ ~Aliased(taker.price)

LedgerOK ==
    /\ ledger \in [ClientIds \X OrderIds -> [open : Int, leaves : Nat]]
    /\ LedgerMatchesBook

IInv == Book /\ NotCrossed /\ TakerOK /\ FeedMatchesBook /\ LedgerOK

(* The empty book satisfies the inductive invariant.                       *)
LEMMA InitIInv == Init => IInv
<1> SUFFICES ASSUME Init PROVE IInv
  OBVIOUS
<1>1. Book
  BY DEF Init, Book, BookType, ChainsSorted, SlotsMatchChains, LevelsHoldTheirOrders,
         TimePriority, IndexExact, Side
<1>2. NotCrossed /\ TakerOK /\ FeedMatchesBook
  BY ConstantsAssumption
     DEF Init, NotCrossed, TakerOK, FeedMatchesBook, NoTaker, MarketOrderIds, ClientIds, OrderIds, Side
<1>3. LedgerOK
  BY DEF Init, LedgerOK, LedgerMatchesBook, OpenQty
<1> QED BY <1>1, <1>2, <1>3 DEF IInv

(* Steps that do not touch the book.                                       *)
LEMMA SameBook ==
  ASSUME Book, UNCHANGED <<by_price, price_orders_at_price, orders, cid_oid_to_order>>
  PROVE  Book'
<1>1. BookType' /\ ChainsSorted'
  BY DEF Book, BookType, ChainsSorted
<1>2. SlotsMatchChains'
  BY DEF Book, SlotsMatchChains, HasLevel, getOrdersAtPrice
<1>3. LevelsHoldTheirOrders'
  BY DEF Book, LevelsHoldTheirOrders, HasLevel, getOrdersAtPrice
<1>4. TimePriority' /\ IndexExact'
  BY DEF Book, TimePriority, IndexExact
<1> QED BY <1>1, <1>2, <1>3, <1>4 DEF Book

(* add() up to its ACCEPTED response: the new order is in hand, not yet in *)
(* the book, and its client counts its whole quantity as open.             *)
LEMMA AddAcceptedIInv ==
  ASSUME IInv, NEW c \in WireClientIds, NEW o \in WireOrderIds, NEW side \in Side,
         NEW price \in Prices, NEW qty \in Qtys, AddAccepted(c, o, side, price, qty)
  PROVE  IInv'
<1> DEFINE key == <<c, o>>
<1>1. /\ c \in ClientIds /\ o \in OrderIds /\ key \notin DOMAIN cid_oid_to_order
      /\ ~Aliased(price) /\ qty \in Nat /\ price \in Int
      /\ pc = "idle" /\ pc' = "matching"
      /\ next_market_order_id' = next_market_order_id + 1
      /\ taker' = [client_id |-> c, client_order_id |-> o,
                   market_order_id |-> next_market_order_id,
                   side |-> side, price |-> price, leaves |-> qty]
      /\ ledger' = [ledger EXCEPT ![key] = [open |-> qty, leaves |-> qty]]
      /\ UNCHANGED <<by_price, price_orders_at_price, orders, cid_oid_to_order, feed>>
  BY ConstantsAssumption DEF AddAccepted, ValidIds, Duplicate, Accepted
<1>2. Book'
  BY <1>1, SameBook DEF IInv
<1>3. NotCrossed' /\ FeedMatchesBook'
  BY <1>1 DEF IInv, NotCrossed, FeedMatchesBook
<1>4. TakerOK'
  <2>1. /\ next_market_order_id \in MarketOrderIds /\ next_market_order_id + 1 \in MarketOrderIds
        /\ next_market_order_id < next_market_order_id + 1
        /\ \A x \in DOMAIN orders : x < next_market_order_id /\ x < next_market_order_id + 1
    BY DEF IInv, Book, BookType, TakerOK, MarketOrderIds
  <2>2. /\ taker' \in [client_id : ClientIds, client_order_id : OrderIds, market_order_id : Nat,
                       side : Side, price : Int, leaves : Nat]
        /\ taker'.price = price /\ taker'.market_order_id = next_market_order_id
        /\ taker'.client_id = c /\ taker'.client_order_id = o
    BY <1>1, <2>1 DEF MarketOrderIds
  <2> QED
    BY <1>1, <2>1, <2>2 DEF TakerOK, Aliased, HasLevel, getOrdersAtPrice
<1>5. LedgerOK'
  <2>1. ledger' \in [ClientIds \X OrderIds -> [open : Int, leaves : Nat]]
    BY <1>1 DEF IInv, LedgerOK
  <2>2. ASSUME NEW k \in ClientIds \X OrderIds
        PROVE  ledger'[k].open = OpenQty(k)' /\ ledger'[k].leaves = OpenQty(k)'
    <3>1. CASE k = key
      BY <1>1, <3>1 DEF IInv, LedgerOK, OpenQty
    <3>2. CASE k # key
      BY <1>1, <3>2 DEF IInv, LedgerOK, LedgerMatchesBook, OpenQty
    <3> QED BY <3>1, <3>2
  <2> QED BY <2>1, <2>2 DEF LedgerOK, LedgerMatchesBook
<1> QED
  BY <1>2, <1>3, <1>4, <1>5 DEF IInv

(* cancel() of a live order: gone from the lists, the index, the feed and  *)
(* the ledger at once.                                                     *)
LEMMA CancelIInv ==
  ASSUME IInv, NEW c \in WireClientIds, NEW o \in WireOrderIds, Cancel(c, o)
  PROVE  IInv'
<1> DEFINE key == <<c, o>>
           m == cid_oid_to_order[key]
<1>1. /\ c \in ClientIds /\ o \in OrderIds /\ key \in DOMAIN cid_oid_to_order
      /\ pc = "idle" /\ removeOrder(m)
      /\ feed' = [x \in DOMAIN feed \ {m} |-> feed[x]]
      /\ ledger' = [ledger EXCEPT ![key] = [open |-> 0, leaves |-> 0]]
      /\ UNCHANGED <<next_market_order_id, pc, taker>>
  BY DEF Cancel, ValidIds, Duplicate, CancelUpdate, Canceled, Restrict
<1>2. m \in DOMAIN orders /\ key = <<orders[m].client_id, orders[m].client_order_id>>
  BY <1>1 DEF IInv, Book, IndexExact
<1> HIDE DEF m
<1>3. /\ Book'
      /\ DOMAIN orders' = DOMAIN orders \ {m}
      /\ \A x \in DOMAIN orders' : orders'[x] = orders[x]
  BY <1>1, <1>2, RemoveOrderKeepsBook DEF IInv
<1>4. NotCrossed'
  BY <1>3 DEF IInv, NotCrossed
<1>5. TakerOK'
  BY <1>1, <1>3 DEF IInv, TakerOK
<1>6. FeedMatchesBook'
  BY <1>1, <1>3 DEF IInv, FeedMatchesBook, Public
<1>7. LedgerOK'
  <2>1. ledger' \in [ClientIds \X OrderIds -> [open : Int, leaves : Nat]]
    BY <1>1 DEF IInv, LedgerOK
  <2>2. cid_oid_to_order' = [k \in DOMAIN cid_oid_to_order \ {key} |-> cid_oid_to_order[k]]
    BY <1>1, <1>2 DEF removeOrder, Restrict
  <2>3. ASSUME NEW k \in ClientIds \X OrderIds
        PROVE  ledger'[k].open = OpenQty(k)' /\ ledger'[k].leaves = OpenQty(k)'
    <3>1. CASE k = key
      BY <1>1, <2>2, <3>1 DEF IInv, LedgerOK, OpenQty
    <3>2. CASE k # key
      <4>1. k \in DOMAIN cid_oid_to_order => cid_oid_to_order[k] \in DOMAIN orders \ {m}
        BY <1>2, <3>2 DEF IInv, Book, IndexExact
      <4> QED BY <1>1, <1>3, <2>2, <3>2, <4>1 DEF IInv, LedgerOK, LedgerMatchesBook, OpenQty
    <3> QED BY <3>1, <3>2
  <2> QED BY <2>1, <2>3 DEF LedgerOK, LedgerMatchesBook
<1> QED
  BY <1>3, <1>4, <1>5, <1>6, <1>7 DEF IInv

(* One match(): both accounts lose the quantity that the two orders lose.  *)
LEMMA MatchIInv == ASSUME IInv, match PROVE IInv'
<1> DEFINE m == Passive
           o == orders[m]
           fill == FillQty
           rest == o.qty - fill
           kt == <<taker.client_id, taker.client_order_id>>
           kp == <<o.client_id, o.client_order_id>>
<1>1. /\ pc = "matching" /\ CanMatch
      /\ taker' = [taker EXCEPT !.leaves = @ - fill]
      /\ ledger' = Filled(Filled(ledger, taker.client_id, taker.client_order_id,
                                 fill, taker.leaves - fill),
                          o.client_id, o.client_order_id, fill, rest)
      /\ UNCHANGED <<next_market_order_id, pc>>
  BY DEF match
<1>2. /\ m \in DOMAIN orders /\ o \in MEOrder /\ o.side = Opposite(taker.side)
      /\ fill \in Nat /\ rest \in Nat /\ taker.leaves - fill \in Nat
  BY <1>1, PassiveIsBest DEF IInv, Book, BookType, TakerOK, FillQty, MEOrder
<1>3. /\ kt \in ClientIds \X OrderIds /\ kt \notin DOMAIN cid_oid_to_order
      /\ kp \in DOMAIN cid_oid_to_order /\ cid_oid_to_order[kp] = m
      /\ kp \in ClientIds \X OrderIds /\ kp # kt
  BY <1>1, <1>2 DEF IInv, Book, BookType, TakerOK, IndexExact
<1>4. /\ ledger \in [ClientIds \X OrderIds -> [open : Int, leaves : Nat]]
      /\ ledger[kt].open = taker.leaves /\ ledger[kp].open = o.qty
  BY <1>1, <1>3 DEF IInv, LedgerOK, LedgerMatchesBook, OpenQty
<1> HIDE DEF m, fill, rest
<1>5. /\ ledger' \in [ClientIds \X OrderIds -> [open : Int, leaves : Nat]]
      /\ ledger'[kt] = [open |-> taker.leaves - fill, leaves |-> taker.leaves - fill]
      /\ ledger'[kp] = [open |-> rest, leaves |-> rest]
      /\ \A k \in ClientIds \X OrderIds : k # kt /\ k # kp => ledger'[k] = ledger[k]
  BY <1>1, <1>2, <1>3, <1>4 DEF Filled, rest, MEOrder
<1>6. /\ taker' \in [client_id : ClientIds, client_order_id : OrderIds, market_order_id : Nat,
                     side : Side, price : Int, leaves : Nat]
      /\ taker'.leaves = taker.leaves - fill
      /\ taker'.client_id = taker.client_id /\ taker'.client_order_id = taker.client_order_id
      /\ taker'.price = taker.price /\ taker'.market_order_id = taker.market_order_id
  BY <1>1, <1>2 DEF IInv, TakerOK
<1>7. CASE rest = 0
  <2>1. removeOrder(m) /\ feed' = [x \in DOMAIN feed \ {m} |-> feed[x]]
    BY <1>7 DEF match, CancelUpdate, TradeUpdate, Restrict, m, rest, fill
  <2>2. /\ Book'
        /\ DOMAIN orders' = DOMAIN orders \ {m}
        /\ \A x \in DOMAIN orders' : orders'[x] = orders[x]
        /\ DOMAIN price_orders_at_price' \subseteq DOMAIN price_orders_at_price
        /\ \A s \in DOMAIN price_orders_at_price' :
              price_orders_at_price'[s].price = price_orders_at_price[s].price
        /\ cid_oid_to_order' = [k \in DOMAIN cid_oid_to_order \ {kp} |-> cid_oid_to_order[k]]
    BY <1>2, <2>1, RemoveOrderKeepsBook DEF IInv, removeOrder, Restrict
  <2>3. NotCrossed'
    BY <2>2 DEF IInv, NotCrossed
  <2>4. TakerOK'
    BY <1>1, <1>6, <2>2 DEF IInv, TakerOK, Aliased, HasLevel, getOrdersAtPrice
  <2>5. FeedMatchesBook'
    BY <2>1, <2>2 DEF IInv, FeedMatchesBook, Public
  <2>6. ASSUME NEW k \in ClientIds \X OrderIds
        PROVE  ledger'[k].open = OpenQty(k)' /\ ledger'[k].leaves = OpenQty(k)'
    <3>1. CASE k = kt
      BY <1>1, <1>3, <1>5, <1>6, <2>2, <3>1 DEF OpenQty
    <3>2. CASE k = kp
      BY <1>1, <1>3, <1>5, <1>6, <1>7, <2>2, <3>2 DEF OpenQty
    <3>3. CASE k # kt /\ k # kp
      <4>1. k \in DOMAIN cid_oid_to_order => cid_oid_to_order[k] \in DOMAIN orders \ {m}
        BY <1>2, <3>3 DEF IInv, Book, IndexExact
      <4> QED
        BY <1>1, <1>5, <1>6, <2>2, <3>3, <4>1 DEF IInv, LedgerOK, LedgerMatchesBook, OpenQty
    <3> QED BY <3>1, <3>2, <3>3
  <2> QED BY <1>5, <2>2, <2>3, <2>4, <2>5, <2>6 DEF IInv, LedgerOK, LedgerMatchesBook
<1>8. CASE rest # 0
  <2>1. /\ orders' = [orders EXCEPT ![m].qty = rest]
        /\ feed' = IF m \in DOMAIN feed THEN [feed EXCEPT ![m].qty = rest] ELSE feed
        /\ UNCHANGED <<by_price, price_orders_at_price, cid_oid_to_order>>
    BY <1>8 DEF match, ModifyUpdate, TradeUpdate, m, rest, fill
  <2> DEFINE o2 == [o EXCEPT !.qty = rest]
  <2>2. /\ o2 \in MEOrder /\ o2.qty = rest
        /\ o2.client_id = o.client_id /\ o2.client_order_id = o.client_order_id
        /\ o2.side = o.side /\ o2.price = o.price /\ o2.priority = o.priority
    BY <1>2 DEF MEOrder
  <2>3. /\ DOMAIN orders' = DOMAIN orders
        /\ \A x \in DOMAIN orders : orders'[x] = IF x = m THEN o2 ELSE orders[x]
    BY <2>1, Zenon
  <2> HIDE DEF o2
  <2>4. \A x \in DOMAIN orders :
           /\ orders'[x] \in MEOrder
           /\ orders'[x].client_id = orders[x].client_id
           /\ orders'[x].client_order_id = orders[x].client_order_id
           /\ orders'[x].side = orders[x].side /\ orders'[x].price = orders[x].price
           /\ orders'[x].priority = orders[x].priority
    BY <2>2, <2>3 DEF IInv, Book, BookType
  <2>5. Book'
    <3>1. UNCHANGED <<by_price, price_orders_at_price, cid_oid_to_order>>
      BY <2>1
    <3>2. BookType' /\ ChainsSorted'
      BY <3>1, <2>3, <2>4 DEF IInv, Book, BookType, ChainsSorted
    <3>3. SlotsMatchChains'
      BY <3>1 DEF IInv, Book, SlotsMatchChains, HasLevel, getOrdersAtPrice
    <3>4. LevelsHoldTheirOrders'
      BY <3>1, <2>3, <2>4 DEF IInv, Book, LevelsHoldTheirOrders, HasLevel, getOrdersAtPrice
    <3>5. TimePriority'
      BY <3>1, <2>4 DEF IInv, Book, TimePriority, LevelsHoldTheirOrders
    <3>6. IndexExact'
      BY <3>1, <2>3, <2>4 DEF IInv, Book, IndexExact
    <3> QED BY <3>2, <3>3, <3>4, <3>5, <3>6 DEF Book
  <2>6. NotCrossed'
    BY <2>3, <2>4 DEF IInv, NotCrossed
  <2>7. TakerOK'
    BY <1>1, <1>6, <2>1, <2>3 DEF IInv, TakerOK, Aliased, HasLevel, getOrdersAtPrice
  <2>8. FeedMatchesBook'
    <3>1. feed = [x \in DOMAIN orders |-> Public(orders[x])]
      BY DEF IInv, FeedMatchesBook
    <3>2. feed' = [x \in DOMAIN orders |-> IF x = m THEN [Public(o) EXCEPT !.qty = rest]
                                           ELSE Public(orders[x])]
      BY <1>2, <2>1, <3>1, Zenon
    <3>3. [Public(o) EXCEPT !.qty = rest] = Public(o2)
      BY <2>2 DEF Public
    <3> HIDE DEF rest
    <3> QED BY <2>3, <3>2, <3>3, Zenon DEF FeedMatchesBook
  <2>9. ASSUME NEW k \in ClientIds \X OrderIds
        PROVE  ledger'[k].open = OpenQty(k)' /\ ledger'[k].leaves = OpenQty(k)'
    <3>1. CASE k = kt
      BY <1>1, <1>3, <1>5, <1>6, <2>1, <3>1 DEF OpenQty
    <3>2. CASE k = kp
      BY <1>2, <1>3, <1>5, <2>1, <2>2, <2>3, <3>2 DEF OpenQty
    <3>3. CASE k # kt /\ k # kp
      <4>1. k \in DOMAIN cid_oid_to_order => cid_oid_to_order[k] \in DOMAIN orders \ {m}
        BY <1>2, <3>3 DEF IInv, Book, IndexExact
      <4> QED
        BY <1>1, <1>5, <1>6, <2>1, <2>3, <3>3, <4>1 DEF IInv, LedgerOK, LedgerMatchesBook, OpenQty
    <3> QED BY <3>1, <3>2, <3>3
  <2> QED BY <1>5, <2>5, <2>6, <2>7, <2>8, <2>9 DEF IInv, LedgerOK, LedgerMatchesBook
<1> QED
  BY <1>7, <1>8

(* When the matching loop has ended with something left, no order of the   *)
(* other side is at a price the taker accepts.                             *)
LEMMA NothingCrosses ==
  ASSUME Book, taker.side \in Side, taker.price \in Int, ~CanMatch, taker.leaves > 0,
         NEW x \in DOMAIN orders, orders[x].side = Opposite(taker.side)
  PROVE  IF taker.side = "BUY" THEN orders[x].price > taker.price
                               ELSE orders[x].price < taker.price
<1> DEFINE side == Opposite(taker.side)
           chain == by_price[side]
<1>1. /\ chain # <<>>
      /\ Head(chain) = orders[x].price \/ Outranks(side, Head(chain), orders[x].price)
  BY HeadIsBest
<1>2. Outranks(taker.side, Head(chain), taker.price)
  BY <1>1 DEF CanMatch, Crosses
<1>3. orders[x].price \in Int /\ Head(chain) \in Int
  <2>1. chain \in Seq(Prices)
    BY DEF Book, BookType, Opposite, Side
  <2> QED
    BY <2>1, <1>1, HeadTailProperties, ConstantsAssumption DEF Book, BookType, MEOrder
<1> QED
  BY <1>1, <1>2, <1>3 DEF Outranks, Opposite, Side

(* The end of add(): the order rests, and nothing it rests beside crosses. *)
LEMMA AddRestsIInv == ASSUME IInv, AddRests PROVE IInv'
<1> DEFINE m == taker.market_order_id
           order == [client_id |-> taker.client_id,
                     client_order_id |-> taker.client_order_id,
                     side |-> taker.side, price |-> taker.price,
                     qty |-> taker.leaves, priority |-> getNextPriority(taker.price)]
           slot == priceToIndex(taker.price)
           level == price_orders_at_price[slot]
           kt == <<taker.client_id, taker.client_order_id>>
<1>1. /\ pc = "matching" /\ ~CanMatch /\ taker.leaves > 0
      /\ addOrder(m, order)
      /\ feed' = [x \in DOMAIN feed \cup {m} |-> IF x = m THEN Public(order) ELSE feed[x]]
      /\ pc' = "idle" /\ taker' = NoTaker
      /\ UNCHANGED <<next_market_order_id, ledger>>
  BY DEF AddRests, AddUpdate
<1>2. /\ m \in MarketOrderIds /\ \A x \in DOMAIN orders : x < m
      /\ kt \notin DOMAIN cid_oid_to_order /\ kt \in ClientIds \X OrderIds
      /\ taker.side \in Side /\ taker.price \in Prices /\ taker.price \in Int
      /\ taker.leaves \in Nat /\ m < next_market_order_id
      /\ taker.client_id \in ClientIds /\ taker.client_order_id \in OrderIds
  BY <1>1 DEF IInv, TakerOK
<1>3. ASSUME slot \in DOMAIN price_orders_at_price
      PROVE  /\ level \in MEOrdersAtPrice /\ level.price = taker.price
             /\ level.orders # <<>> /\ level.side = taker.side
  <2>1. level \in MEOrdersAtPrice /\ level.price = taker.price /\ level.orders # <<>>
    BY <1>1, <1>3 DEF IInv, Book, BookType, LevelsHoldTheirOrders, TakerOK, Aliased, HasLevel, getOrdersAtPrice
  <2>2. level.orders \in Seq(MarketOrderIds) /\ 1 \in 1 .. Len(level.orders)
    BY <2>1, EmptySeq DEF MEOrdersAtPrice
  <2>3. /\ level.orders[1] \in DOMAIN orders
        /\ orders[level.orders[1]].side = level.side
        /\ orders[level.orders[1]].price = taker.price
    BY <1>3, <2>1, <2>2 DEF IInv, Book, LevelsHoldTheirOrders
  <2>4. level.side = taker.side
    <3>1. CASE level.side # taker.side
      <4>1. level.side = Opposite(taker.side)
        BY <1>2, <2>1, <3>1 DEF MEOrdersAtPrice, Opposite, Side
      <4> QED BY <4>1, <1>1, <1>2, <2>3, NothingCrosses DEF IInv
    <3> QED BY <3>1
  <2> QED BY <2>1, <2>4
<1>4. getNextPriority(taker.price) \in Nat
  <2>1. CASE slot \notin DOMAIN price_orders_at_price
    BY <2>1 DEF getNextPriority, HasLevel
  <2>2. CASE slot \in DOMAIN price_orders_at_price
    <3>1. level.orders \in Seq(MarketOrderIds) /\ Len(level.orders) \in 1 .. Len(level.orders)
      BY <1>3, <2>2, EmptySeq DEF MEOrdersAtPrice
    <3>2. orders[level.orders[Len(level.orders)]].priority \in Nat
      BY <2>2, <3>1 DEF IInv, Book, BookType, LevelsHoldTheirOrders, MEOrder
    <3> QED BY <2>2, <3>2 DEF getNextPriority, HasLevel, getOrdersAtPrice, Last
  <2> QED BY <2>1, <2>2
<1>5. order \in MEOrder
  BY <1>2, <1>4 DEF MEOrder
<1>6. /\ order.client_id = taker.client_id /\ order.client_order_id = taker.client_order_id
      /\ order.side = taker.side /\ order.price = taker.price
      /\ order.qty = taker.leaves /\ order.priority = getNextPriority(taker.price)
  OBVIOUS
<1> HIDE DEF order
<1>7. /\ Book'
      /\ DOMAIN orders' = DOMAIN orders \cup {m}
      /\ \A x \in DOMAIN orders' : orders'[x] = IF x = m THEN order ELSE orders[x]
  BY <1>1, <1>2, <1>3, <1>5, <1>6, AddOrderKeepsBook DEF IInv, HasLevel, getOrdersAtPrice
<1>8. NotCrossed'
  <2> SUFFICES ASSUME NEW b \in DOMAIN orders', NEW a \in DOMAIN orders',
                      orders'[b].side = "BUY", orders'[a].side = "SELL"
               PROVE  orders'[b].price < orders'[a].price
    BY DEF NotCrossed
  <2>1. CASE b # m /\ a # m
    BY <2>1, <1>7 DEF IInv, NotCrossed
  <2>2. CASE b = m /\ a # m
    BY <2>2, <1>1, <1>2, <1>6, <1>7, NothingCrosses DEF IInv, Opposite
  <2>3. CASE b # m /\ a = m
    BY <2>3, <1>1, <1>2, <1>6, <1>7, NothingCrosses DEF IInv, Opposite
  <2> QED BY <2>1, <2>2, <2>3
<1>9. TakerOK'
  BY <1>1, <1>2, <1>7, ConstantsAssumption
     DEF IInv, TakerOK, NoTaker, ClientIds, OrderIds, Side
<1>10. FeedMatchesBook'
  BY <1>1, <1>7 DEF IInv, FeedMatchesBook, Public
<1>11. LedgerOK'
  <2>1. cid_oid_to_order' = [k \in DOMAIN cid_oid_to_order \cup {kt} |->
                               IF k = kt THEN m ELSE cid_oid_to_order[k]]
    BY <1>1, <1>6 DEF addOrder
  <2>2. ASSUME NEW k \in ClientIds \X OrderIds
        PROVE  ledger'[k].open = OpenQty(k)' /\ ledger'[k].leaves = OpenQty(k)'
    <3>1. CASE k = kt
      BY <1>1, <1>2, <1>6, <1>7, <2>1, <3>1 DEF IInv, LedgerOK, LedgerMatchesBook, OpenQty
    <3>2. CASE k # kt
      <4>1. k \in DOMAIN cid_oid_to_order =>
              /\ cid_oid_to_order[k] \in DOMAIN orders /\ cid_oid_to_order[k] # m
        BY <1>2 DEF IInv, Book, BookType, IndexExact, MarketOrderIds
      <4> QED BY <1>1, <1>7, <2>1, <3>2, <4>1 DEF IInv, LedgerOK, LedgerMatchesBook, OpenQty
    <3> QED BY <3>1, <3>2
  <2> QED BY <1>1, <2>2 DEF IInv, LedgerOK, LedgerMatchesBook
<1> QED
  BY <1>7, <1>8, <1>9, <1>10, <1>11 DEF IInv

(* The invariant is inductive.                                             *)
LEMMA NextIInv == IInv /\ [Next]_vars => IInv'
<1> SUFFICES ASSUME IInv, [Next]_vars PROVE IInv'
  OBVIOUS
<1>1. ASSUME UNCHANGED vars PROVE IInv'
  <2>1. Book'
    BY <1>1, SameBook DEF IInv, vars
  <2>2. NotCrossed' /\ TakerOK' /\ FeedMatchesBook'
    BY <1>1 DEF IInv, vars, NotCrossed, TakerOK, FeedMatchesBook, Aliased, HasLevel, getOrdersAtPrice
  <2>3. LedgerOK'
    BY <1>1 DEF IInv, vars, LedgerOK, LedgerMatchesBook, OpenQty
  <2> QED BY <2>1, <2>2, <2>3 DEF IInv
<1>2. CASE AddFilled
  <2>1. Book'
    BY <1>2, SameBook DEF IInv, AddFilled
  <2>2. NotCrossed' /\ FeedMatchesBook'
    BY <1>2 DEF IInv, AddFilled, NotCrossed, FeedMatchesBook
  <2>3. TakerOK'
    BY <1>2, ConstantsAssumption DEF IInv, AddFilled, TakerOK, NoTaker, ClientIds, OrderIds, Side
  <2>4. LedgerOK'
    BY <1>2 DEF IInv, AddFilled, LedgerOK, LedgerMatchesBook, OpenQty
  <2> QED BY <2>1, <2>2, <2>3, <2>4 DEF IInv
<1>3. CASE PoolExhausted
  <2>1. Book'
    BY <1>3, SameBook DEF IInv, PoolExhausted
  <2>2. NotCrossed' /\ FeedMatchesBook'
    BY <1>3 DEF IInv, PoolExhausted, NotCrossed, FeedMatchesBook
  <2>3. TakerOK'
    BY <1>3 DEF IInv, PoolExhausted, TakerOK, Aliased, HasLevel, getOrdersAtPrice
  <2>4. LedgerOK'
    BY <1>3 DEF IInv, PoolExhausted, LedgerOK, LedgerMatchesBook, OpenQty
  <2> QED BY <2>1, <2>2, <2>3, <2>4 DEF IInv
<1>4. CASE match
  BY <1>4, MatchIInv
<1>5. CASE AddRests
  BY <1>5, AddRestsIInv
<1>6. ASSUME NEW c \in WireClientIds, NEW o \in WireOrderIds,
             \/ \E price \in Prices : AddRejected(c, o, price)
             \/ \E side \in Side, price \in Prices, qty \in Qtys :
                   AddAccepted(c, o, side, price, qty)
             \/ CancelRejected(c, o)
             \/ Cancel(c, o)
      PROVE  IInv'
  BY <1>1, <1>6, AddAcceptedIInv, CancelIInv DEF AddRejected, CancelRejected
<1> QED
  BY <1>1, <1>2, <1>3, <1>4, <1>5, <1>6 DEF Next

----------------------------------------------------------------------------
(* The theorems.                                                           *)

(* The invariant holds in every reachable state.                           *)
LEMMA SpecIInv == Spec => []IInv
BY InitIInv, NextIInv, PTL DEF Spec

(* Any set of slots is finite, and so is the pool of levels.               *)
LEMMA SlotsAreFinite ==
  ASSUME NEW D \in SUBSET Slots
  PROVE  IsFiniteSet(D) /\ Cardinality(D) \in Nat
<1>1. IsFiniteSet(Slots)
  BY ConstantsAssumption, FS_Interval DEF Slots
<1> QED BY <1>1, FS_Subset, FS_CardinalityType

(* As many blocks of the pool are out as there are live slots: nothing is  *)
(* leaked, and no block is given back twice.                               *)
PoolInv == levels_in_use = Cardinality(DOMAIN price_orders_at_price)

(* removeOrder() gives the block of an emptied level back.                 *)
LEMMA RemoveOrderPool ==
  ASSUME Book, PoolInv, NEW m \in DOMAIN orders, removeOrder(m)
  PROVE  PoolInv'
<1> DEFINE slot == priceToIndex(orders[m].price)
           D == DOMAIN price_orders_at_price
<1>1. slot \in D /\ IsFiniteSet(D)
  BY SlotsAreFinite DEF Book, BookType, LevelsHoldTheirOrders, HasLevel
<1>2. CASE Len(price_orders_at_price[slot].orders) = 1
  <2>1. levels_in_use' = levels_in_use - 1 /\ DOMAIN price_orders_at_price' = D \ {slot}
    BY <1>2 DEF removeOrder, removeOrdersAtPrice, getOrdersAtPrice, Restrict
  <2> QED BY <1>1, <2>1, FS_RemoveElement DEF PoolInv
<1>3. CASE Len(price_orders_at_price[slot].orders) # 1
  BY <1>3 DEF removeOrder, getOrdersAtPrice, PoolInv
<1> QED BY <1>2, <1>3

(* addOrder() takes one block for a new level and none for an old one.     *)
LEMMA AddOrderPool ==
  ASSUME Book, PoolInv, NEW m, NEW order, addOrder(m, order)
  PROVE  PoolInv'
<1> DEFINE slot == priceToIndex(order.price)
           D == DOMAIN price_orders_at_price
<1>1. IsFiniteSet(D) /\ Cardinality(D) \in Nat
  BY SlotsAreFinite DEF Book, BookType
<1>2. CASE slot \in D
  BY <1>2 DEF addOrder, HasLevel, PoolInv
<1>3. CASE slot \notin D
  <2>1. levels_in_use' = levels_in_use + 1 /\ DOMAIN price_orders_at_price' = D \cup {slot}
    BY <1>3 DEF addOrder, addOrdersAtPrice, HasLevel
  <2> QED BY <1>1, <1>3, <2>1, FS_AddElement DEF PoolInv
<1> QED BY <1>2, <1>3

(* No step leaks a level, on the paths of match() and of cancel() alike.   *)
LEMMA NextPoolInv == IInv /\ PoolInv /\ [Next]_vars => PoolInv'
<1> SUFFICES ASSUME IInv, PoolInv, [Next]_vars PROVE PoolInv'
  OBVIOUS
<1>1. ASSUME UNCHANGED <<price_orders_at_price, levels_in_use>> PROVE PoolInv'
  BY <1>1 DEF PoolInv
<1>2. CASE match
  <2>1. Passive \in DOMAIN orders
    BY <1>2, PassiveIsBest DEF match, IInv, TakerOK
  <2>2. \/ removeOrder(Passive)
        \/ UNCHANGED <<price_orders_at_price, levels_in_use>>
    BY <1>2 DEF match
  <2> QED BY <1>1, <2>1, <2>2, RemoveOrderPool DEF IInv
<1>3. CASE AddRests
  BY <1>3, AddOrderPool DEF AddRests, IInv
<1>4. ASSUME NEW c \in WireClientIds, NEW o \in WireOrderIds, Cancel(c, o) PROVE PoolInv'
  <2>1. cid_oid_to_order[<<c, o>>] \in DOMAIN orders
    BY <1>4 DEF Cancel, Duplicate, IInv, Book, IndexExact
  <2> QED BY <1>4, <2>1, RemoveOrderPool DEF Cancel, IInv
<1>5. CASE UNCHANGED vars
  BY <1>1, <1>5 DEF vars
<1>6. CASE AddFilled \/ PoolExhausted
  BY <1>1, <1>6 DEF AddFilled, PoolExhausted
<1>7. ASSUME NEW c \in WireClientIds, NEW o \in WireOrderIds,
             \/ \E price \in Prices : AddRejected(c, o, price)
             \/ \E side \in Side, price \in Prices, qty \in Qtys :
                   AddAccepted(c, o, side, price, qty)
             \/ CancelRejected(c, o)
      PROVE  PoolInv'
  BY <1>1, <1>7 DEF AddRejected, AddAccepted, CancelRejected, vars
<1> QED BY <1>2, <1>3, <1>4, <1>5, <1>6, <1>7 DEF Next

(* The blocks out are those of the live levels, in every reachable state.  *)
LEMMA SpecPoolInv == Spec => []PoolInv
<1>1. Init => PoolInv
  BY FS_EmptySet DEF Init, PoolInv
<1> QED BY <1>1, NextPoolInv, SpecIInv, PTL DEF Spec

(* The variables of the book keep their types.                             *)
THEOREM TypeCorrect == Spec => []TypeOK
<1>1. ASSUME IInv, PoolInv PROVE levels_in_use \in Nat
  BY <1>1, SlotsAreFinite, FS_CardinalityType DEF PoolInv, IInv, Book, BookType
<1>2. IInv /\ PoolInv => TypeOK
  BY <1>1 DEF IInv, Book, BookType, TakerOK, LedgerOK, TypeOK
<1> QED BY <1>2, SpecIInv, SpecPoolInv, PTL

(* addOrdersAtPrice and removeOrdersAtPrice keep both lists sorted with    *)
(* the best price at the head.                                             *)
THEOREM ListsStaySorted == Spec => []ChainsSorted
<1>1. IInv => ChainsSorted
  BY DEF IInv, Book
<1> QED BY <1>1, SpecIInv, PTL

(* However many prices share a slot, a live slot holds the level its price *)
(* maps to and the lists hold exactly the live levels.                     *)
THEOREM SlotsStayCoherent == Spec => []SlotsMatchChains
<1>1. IInv => SlotsMatchChains
  BY DEF IInv, Book
<1> QED BY <1>1, SpecIInv, PTL

(* No level is empty or holds a dead order or one of another price.        *)
THEOREM LevelsStayCoherent == Spec => []LevelsHoldTheirOrders
<1>1. IInv => LevelsHoldTheirOrders
  BY DEF IInv, Book
<1> QED BY <1>1, SpecIInv, PTL

(* The orders of a level stand in the order in which they arrived.         *)
THEOREM LevelsStayFifo == Spec => []TimePriority
<1>1. IInv => TimePriority
  BY DEF IInv, Book
<1> QED BY <1>1, SpecIInv, PTL

(* The book is never crossed, not even in the middle of an add().          *)
THEOREM NeverCrossed == Spec => []NotCrossed
<1>1. IInv => NotCrossed
  BY DEF IInv
<1> QED BY <1>1, SpecIInv, PTL

(* Every live order can be cancelled by the id its client gave it.         *)
THEOREM IndexStaysExact == Spec => []IndexExact
<1>1. IInv => IndexExact
  BY DEF IInv, Book
<1> QED BY <1>1, SpecIInv, PTL

(* Replaying the published updates gives the book.                         *)
THEOREM FeedReplaysBook == Spec => []FeedMatchesBook
<1>1. IInv => FeedMatchesBook
  BY DEF IInv
<1> QED BY <1>1, SpecIInv, PTL

(* The clients' accounts and the book agree on every open quantity.        *)
THEOREM ClientsKnowTheirOrders == Spec => []LedgerMatchesBook
<1>1. IInv => LedgerMatchesBook
  BY DEF IInv, LedgerOK
<1> QED BY <1>1, SpecIInv, PTL

(* The pool of levels never runs out, because no step leaks a block or     *)
(* holds two for one slot: only the pool of orders can end the process.    *)
THEOREM LevelPoolSuffices == Spec => []OnlyOrderPoolRunsOut
<1>1. ASSUME IInv, PoolInv, pc # "idle" PROVE LevelPoolHasRoom
  <2> DEFINE slot == priceToIndex(taker.price)
             D == DOMAIN price_orders_at_price
  <2>1. slot \in Slots /\ D \subseteq Slots
    BY <1>1, ConstantsAssumption DEF IInv, TakerOK, Book, BookType, priceToIndex, Slots
  <2>2. IsFiniteSet(Slots) /\ Cardinality(Slots) = MaxPriceLevels
    BY ConstantsAssumption, FS_Interval DEF Slots
  <2>3. CASE slot \notin D
    <3>1. IsFiniteSet(Slots \ {slot}) /\ Cardinality(Slots \ {slot}) = MaxPriceLevels - 1
      BY <2>1, <2>2, FS_RemoveElement
    <3>2. D \subseteq Slots \ {slot}
      BY <2>1, <2>3
    <3>3. Cardinality(D) <= MaxPriceLevels - 1 /\ Cardinality(D) \in Nat
      BY <3>1, <3>2, FS_Subset, FS_CardinalityType
    <3> QED BY <1>1, <3>3, ConstantsAssumption DEF LevelPoolHasRoom, PoolInv
  <2> QED BY <2>3 DEF LevelPoolHasRoom, HasLevel
<1>2. Init => OnlyOrderPoolRunsOut
  BY DEF Init, OnlyOrderPoolRunsOut
<1>3. IInv /\ PoolInv /\ OnlyOrderPoolRunsOut /\ [Next]_vars => OnlyOrderPoolRunsOut'
  <2> SUFFICES ASSUME IInv, PoolInv, OnlyOrderPoolRunsOut, [Next]_vars, pc' = "exited"
               PROVE  ~OrderPoolHasRoom' /\ LevelPoolHasRoom'
    BY DEF OnlyOrderPoolRunsOut
  <2>1. CASE UNCHANGED vars
    BY <2>1 DEF vars, OnlyOrderPoolRunsOut, OrderPoolHasRoom, LevelPoolHasRoom, HasLevel
  <2>2. CASE PoolExhausted
    BY <2>2, <1>1 DEF PoolExhausted, OrderPoolHasRoom, LevelPoolHasRoom, HasLevel
  <2>3. CASE Next /\ ~PoolExhausted /\ ~UNCHANGED vars
    BY <2>3 DEF Next, AddRejected, AddAccepted, CancelRejected, Cancel, match, AddRests, AddFilled
  <2> QED BY <2>1, <2>2, <2>3
<1> QED BY <1>2, <1>3, SpecIInv, SpecPoolInv, PTL DEF Spec

(* Price-time priority: the lists, slots and pools implement the abstract  *)
(* book.  Each match() executes against the oldest order of the best price *)
(* and an order rests only when no order of the other side crosses it.     *)
THEOREM BookImplementsLimitOrderBook == Spec => ImplementsLimitOrderBook
<1> DEFINE AbsOrder(o) == [client_id |-> o.client_id, client_order_id |-> o.client_order_id,
                           side |-> o.side, price |-> o.price, qty |-> o.qty]
<1>1. Init => LOB!Init
  BY DEF Init, LOB!Init, RestingOrders, NoTaker, LOB!NoTaker
<1>2. IInv /\ [Next]_vars => [LOB!Next]_(LOB!vars)
  <2> SUFFICES ASSUME IInv, [Next]_vars PROVE [LOB!Next]_(LOB!vars)
    OBVIOUS
  <2>1. RestingOrders = [x \in DOMAIN orders |-> AbsOrder(orders[x])]
    BY DEF RestingOrders
  <2>2. RestingOrders' = [x \in DOMAIN orders' |-> AbsOrder(orders'[x])]
    BY DEF RestingOrders
  <2>3. DOMAIN RestingOrders = DOMAIN orders /\ DOMAIN RestingOrders' = DOMAIN orders'
    BY <2>1, <2>2
  <2>4. \A x \in DOMAIN orders :
           /\ RestingOrders[x] = AbsOrder(orders[x])
           /\ RestingOrders[x].client_id = orders[x].client_id
           /\ RestingOrders[x].client_order_id = orders[x].client_order_id
           /\ RestingOrders[x].side = orders[x].side
           /\ RestingOrders[x].price = orders[x].price
           /\ RestingOrders[x].qty = orders[x].qty
    BY <2>1
  \* The same orders execute for the abstract book as for the lists.
  <2>5. ASSUME NEW x \in DOMAIN orders
        PROVE  LOB!Executable(x) <=>
                 /\ orders[x].side # taker.side
                 /\ (taker.side = "BUY" => orders[x].price <= taker.price)
                 /\ (taker.side # "BUY" => orders[x].price >= taker.price)
    <3>1. RestingOrders[x].side = orders[x].side /\ RestingOrders[x].price = orders[x].price
      BY <2>4
    <3> HIDE DEF AbsOrder
    <3> QED BY <3>1 DEF LOB!Executable
  <2>6. ASSUME NEW x \in DOMAIN orders, NEW y \in DOMAIN orders
        PROVE  LOB!Before(x, y) <=>
                 \/ taker.side = "BUY" /\ orders[x].price < orders[y].price
                 \/ taker.side # "BUY" /\ orders[x].price > orders[y].price
                 \/ orders[x].price = orders[y].price /\ x < y
    <3>1. RestingOrders[x].price = orders[x].price /\ RestingOrders[y].price = orders[y].price
      BY <2>4
    <3> QED BY <3>1 DEF LOB!Before
  <2>7. CASE UNCHANGED vars
    BY <2>7 DEF vars, LOB!vars, RestingOrders
  <2>8. ASSUME NEW c \in WireClientIds, NEW o \in WireOrderIds, NEW side \in Side,
               NEW price \in Prices, NEW qty \in Qtys, AddAccepted(c, o, side, price, qty)
        PROVE  LOB!Accept
    <3>1. /\ c \in ClientIds /\ o \in OrderIds /\ <<c, o>> \notin DOMAIN cid_oid_to_order
          /\ pc = "idle" /\ pc' = "matching"
          /\ next_market_order_id' = next_market_order_id + 1
          /\ taker' = [client_id |-> c, client_order_id |-> o,
                       market_order_id |-> next_market_order_id,
                       side |-> side, price |-> price, leaves |-> qty]
          /\ orders' = orders
      BY <2>8 DEF AddAccepted, ValidIds, Duplicate
    <3>2. \A x \in DOMAIN RestingOrders :
             ~(RestingOrders[x].client_id = c /\ RestingOrders[x].client_order_id = o)
      BY <3>1, <2>3, <2>4 DEF IInv, Book, IndexExact
    <3>3. RestingOrders' = RestingOrders
      BY <3>1, <2>1, <2>2
    <3> QED
      BY <3>1, <3>2, <3>3 DEF LOB!Accept, LOB!Side, Side, ClientIds, OrderIds
  <2>9. ASSUME NEW c \in WireClientIds, NEW o \in WireOrderIds, Cancel(c, o)
        PROVE  LOB!Cancel
    <3> DEFINE m == cid_oid_to_order[<<c, o>>]
    <3>1. m \in DOMAIN orders /\ removeOrder(m)
          /\ pc = "idle" /\ UNCHANGED <<next_market_order_id, pc, taker>>
      BY <2>9 DEF Cancel, ValidIds, Duplicate, IInv, Book, IndexExact
    <3> HIDE DEF m
    <3>2. /\ DOMAIN orders' = DOMAIN orders \ {m}
          /\ \A x \in DOMAIN orders' : orders'[x] = orders[x]
      BY <3>1, RemoveOrderKeepsBook DEF IInv
    <3>3. RestingOrders' = [n \in DOMAIN RestingOrders \ {m} |-> RestingOrders[n]]
      BY <3>2, <2>1, <2>2, <2>3
    <3> QED
      BY <3>1, <3>3, <2>3 DEF LOB!Cancel
  <2>10. CASE match
    <3> DEFINE m == Passive
               o == orders[m]
               chain == by_price[Opposite(taker.side)]
    <3>1. /\ pc = "matching" /\ CanMatch /\ taker.leaves > 0 /\ UNCHANGED <<next_market_order_id, pc>>
          /\ taker' = [taker EXCEPT !.leaves = @ - FillQty]
      BY <2>10 DEF match, CanMatch
    <3>2. taker.side \in Side /\ taker.price \in Int /\ taker.leaves \in Nat
      BY DEF IInv, TakerOK
    <3>3. /\ m \in DOMAIN orders /\ o \in MEOrder /\ o.side = Opposite(taker.side)
          /\ o.price = Head(chain) /\ o.price \in Int /\ o.qty \in Nat
          /\ \A x \in DOMAIN orders \ {m} : orders[x].price = o.price => m < x
      BY <3>1, <3>2, PassiveIsBest, ConstantsAssumption DEF IInv, Book, BookType, MEOrder
    <3>4. LOB!Executable(m)
      BY <3>1, <3>2, <3>3, <2>5 DEF CanMatch, Crosses, Outranks, Opposite, Side
    <3>5. ASSUME NEW x \in DOMAIN orders \ {m}, LOB!Executable(x)
          PROVE  LOB!Before(m, x)
      <4>1. orders[x].side = Opposite(taker.side) /\ orders[x].price \in Int
        BY <3>2, <3>5, <2>5, ConstantsAssumption
           DEF IInv, Book, BookType, MEOrder, Side, Opposite
      <4>2. Head(chain) = orders[x].price \/ Outranks(Opposite(taker.side), Head(chain), orders[x].price)
        BY <4>1, HeadIsBest DEF IInv
      <4> QED
        BY <4>1, <4>2, <3>2, <3>3, <2>6 DEF Outranks, Opposite, Side
    <3> HIDE DEF m
    <3>6. CASE o.qty <= taker.leaves
      <4>1. FillQty = o.qty /\ o.qty - FillQty = 0
        BY <3>2, <3>3, <3>6 DEF FillQty, m
      <4>2. removeOrder(m)
        BY <2>10, <4>1 DEF match, m
      <4>3. /\ DOMAIN orders' = DOMAIN orders \ {m}
            /\ \A x \in DOMAIN orders' : orders'[x] = orders[x]
        BY <4>2, <3>3, RemoveOrderKeepsBook DEF IInv
      <4>4. RestingOrders' = [n \in DOMAIN RestingOrders \ {m} |-> RestingOrders[n]]
        BY <4>3, <2>1, <2>2, <2>3
      <4>5. taker' = [taker EXCEPT !.leaves = @ - RestingOrders[m].qty]
        BY <3>1, <3>3, <4>1, <2>4
      <4> QED
        BY <3>1, <3>3, <3>4, <3>5, <3>6, <4>4, <4>5, <2>3, <2>4 DEF LOB!Next, LOB!Execute
    <3>7. CASE o.qty > taker.leaves
      <4>1. FillQty = taker.leaves /\ o.qty - FillQty # 0 /\ o.qty - FillQty \in Nat
        BY <3>2, <3>3, <3>7 DEF FillQty, m
      <4>2. orders' = [orders EXCEPT ![m].qty = o.qty - FillQty]
        BY <2>10, <4>1 DEF match, m
      <4>3. taker' = [taker EXCEPT !.leaves = 0]
        BY <3>1, <3>2, <4>1
      <4> DEFINE rest == o.qty - taker.leaves
                 o2 == [o EXCEPT !.qty = rest]
      <4>4. orders' = [x \in DOMAIN orders |-> IF x = m THEN o2 ELSE orders[x]]
        BY <3>3, <4>1, <4>2, Zenon
      <4>5. AbsOrder(o2) = [AbsOrder(o) EXCEPT !.qty = rest]
        BY <3>3 DEF MEOrder
      <4> HIDE DEF o2, rest
      <4>6. RestingOrders' = [x \in DOMAIN orders |->
                 IF x = m THEN [AbsOrder(o) EXCEPT !.qty = rest] ELSE AbsOrder(orders[x])]
        <5> HIDE DEF AbsOrder
        <5> QED BY <2>2, <4>4, <4>5, Zenon
      <4>7. RestingOrders' = [RestingOrders EXCEPT ![m].qty = rest]
        <5> HIDE DEF AbsOrder
        <5> QED BY <4>6, <2>1, <3>3, Zenon
      <4>8. rest = RestingOrders[m].qty - taker.leaves /\ RestingOrders[m].qty > taker.leaves
        BY <3>3, <3>7, <2>4 DEF rest
      <4>9. RestingOrders' = [RestingOrders EXCEPT ![m].qty = @ - taker.leaves]
        BY <4>7, <4>8, Zenon
      <4> QED
        BY <3>1, <3>3, <3>4, <3>5, <4>3, <4>8, <4>9, <2>3, Zenon DEF LOB!Next, LOB!Execute
    <3> QED BY <3>2, <3>3, <3>6, <3>7
  \* The same orders cross for the abstract book as for the lists.
  <2>11. ASSUME ~CanMatch, taker.leaves > 0, NEW x \in DOMAIN orders PROVE ~LOB!Executable(x)
    <3>1. taker.side \in Side /\ taker.price \in Int
      BY DEF IInv, TakerOK
    <3>2. orders[x].side \in Side /\ orders[x].price \in Int
      BY ConstantsAssumption DEF IInv, Book, BookType, MEOrder
    <3>3. CASE orders[x].side = Opposite(taker.side)
      BY <2>11, <3>1, <3>2, <3>3, <2>5, NothingCrosses DEF IInv
    <3>4. CASE orders[x].side = taker.side
      BY <3>4, <2>5
    <3> QED BY <3>1, <3>2, <3>3, <3>4 DEF Side, Opposite
  <2>12. CASE AddRests
    <3> DEFINE m == taker.market_order_id
    <3>1. /\ pc = "matching" /\ ~CanMatch /\ taker.leaves > 0
          /\ pc' = "idle" /\ taker' = NoTaker /\ UNCHANGED next_market_order_id
          /\ orders' = [x \in DOMAIN orders \cup {m} |->
                IF x = m
                THEN [client_id |-> taker.client_id,
                      client_order_id |-> taker.client_order_id,
                      side |-> taker.side, price |-> taker.price,
                      qty |-> taker.leaves, priority |-> getNextPriority(taker.price)]
                ELSE orders[x]]
      BY <2>12 DEF AddRests, addOrder
    <3>2. RestingOrders' = [n \in DOMAIN RestingOrders \cup {m} |->
                IF n = m
                THEN [client_id |-> taker.client_id,
                      client_order_id |-> taker.client_order_id,
                      side |-> taker.side, price |-> taker.price, qty |-> taker.leaves]
                ELSE RestingOrders[n]]
      BY <3>1, <2>1, <2>2, <2>3
    <3> QED
      BY <3>1, <3>2, <2>3, <2>11 DEF LOB!Next, LOB!Rest, NoTaker, LOB!NoTaker
  <2>13. CASE AddFilled
    BY <2>13 DEF AddFilled, LOB!Next, LOB!Done, RestingOrders, NoTaker, LOB!NoTaker
  <2>14. CASE PoolExhausted
    <3>1. /\ pc = "matching" /\ ~CanMatch /\ taker.leaves > 0 /\ pc' = "exited"
          /\ RestingOrders' = RestingOrders /\ UNCHANGED <<next_market_order_id, taker>>
      BY <2>14 DEF PoolExhausted, RestingOrders
    <3> QED
      BY <3>1, <2>3, <2>11 DEF LOB!Next, LOB!Exit
  <2> QED
    BY <2>7, <2>8, <2>9, <2>10, <2>12, <2>13, <2>14
       DEF Next, AddRejected, CancelRejected, LOB!Next
<1> QED
  BY <1>1, <1>2, SpecIInv, PTL DEF Spec, LOB!Spec, ImplementsLimitOrderBook

=============================================================================
