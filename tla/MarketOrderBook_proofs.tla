------------------------ MODULE MarketOrderBook_proofs ------------------------
(***************************************************************************)
(* The client's book is sound, shows the feed and keeps the right BBO, for *)
(* every size of its arrays and pools, every set of prices and quantities  *)
(* and every feed of the exchange.                                         *)
(***************************************************************************)
EXTENDS MarketOrderBook, FiniteSetTheorems, NaturalsInduction, WellFoundedInduction, TLAPS

----------------------------------------------------------------------------
(* The inductive invariant.  It is stated with the lists themselves, C for *)
(* the levels of a side and Q for the orders of a level, of which the      *)
(* pointers are one way to write them down.                                *)

OrderBlocks == Blocks(MaxOrderIds)
LevelBlocks == Blocks(MaxPriceLevels)
Ids == 0 .. MaxOrderIds - 1
Slots == 0 .. MaxPriceLevels - 1

OrderType == [order_id : Nat, side : Sides \cup {"INVALID"}, price : Int, qty : Nat,
              prev : Int, next : Int]
LevelType == [side : Sides \cup {"INVALID"}, price : Int, first : Int, prev : Int, next : Int]

\* The next and the previous place of a circular list of n.
Succ(i, n) == IF i = n THEN 1 ELSE i + 1
Pred(i, n) == IF i = 1 THEN n ELSE i - 1

IsRing(store, first, list) ==
    /\ list \in Seq(DOMAIN store) /\ Len(list) > 0 /\ list[1] = first
    /\ \A i, j \in 1 .. Len(list) : list[i] = list[j] => i = j
    /\ \A i \in 1 .. Len(list) : /\ store[list[i]].next = list[Succ(i, Len(list))]
                                 /\ store[list[i]].prev = list[Pred(i, Len(list))]

PoolInv(pool, n) ==
    /\ pool \in [is_free : [Blocks(n) -> BOOLEAN], next_free_index : Blocks(n), free_count : Nat]
    /\ pool.free_count = Cardinality(Free(pool))

IsBook(b) ==
    b = [orders |-> b.orders, order_pool |-> b.order_pool, levels |-> b.levels,
         level_pool |-> b.level_pool, oid_to_order |-> b.oid_to_order,
         price_orders_at_price |-> b.price_orders_at_price, by_price |-> b.by_price,
         bbo |-> b.bbo, aborted |-> b.aborted]
TypeInv(b) ==
    /\ IsBook(b)
    /\ b.orders \in [OrderBlocks -> OrderType] /\ b.levels \in [LevelBlocks -> LevelType]
    /\ PoolInv(b.order_pool, MaxOrderIds) /\ PoolInv(b.level_pool, MaxPriceLevels)
    /\ b.oid_to_order \in [Ids -> OrderBlocks \cup {nullptr}]
    /\ b.price_orders_at_price \in [Slots -> LevelBlocks \cup {nullptr}]
    /\ b.by_price \in [Sides -> LevelBlocks \cup {nullptr}]

\* The levels of a side, best price first.
ChainOf(b, side, list) ==
    /\ list = <<>> => b.by_price[side] = nullptr
    /\ list # <<>> => IsRing(b.levels, b.by_price[side], list)
    /\ \A i \in 1 .. Len(list) : list[i] \in InUse(b.level_pool) /\ b.levels[list[i]].side = side
    /\ \A i, j \in 1 .. Len(list) :
          i < j => Outranks(side, b.levels[list[i]].price, b.levels[list[j]].price)
ChainInv(b, C) ==
    /\ C \in [Sides -> Seq(LevelBlocks)]
    /\ \A side \in Sides : ChainOf(b, side, C[side])
    /\ \A l \in InUse(b.level_pool) :
          /\ b.levels[l].side \in Sides
          /\ \E i \in 1 .. Len(C[b.levels[l].side]) : C[b.levels[l].side][i] = l

\* A level is in the slot of its price, and a slot holds a level of such a price.
SlotInv(b) ==
    /\ \A l \in InUse(b.level_pool) :
          b.levels[l].price \in Nat /\ b.price_orders_at_price[priceToIndex(b.levels[l].price)] = l
    /\ \A s \in Slots : b.price_orders_at_price[s] # nullptr =>
          /\ b.price_orders_at_price[s] \in InUse(b.level_pool)
          /\ priceToIndex(b.levels[b.price_orders_at_price[s]].price) = s

\* The orders of a level, oldest first.
QueueOf(b, l, list) ==
    /\ IsRing(b.orders, b.levels[l].first, list)
    /\ \A i \in 1 .. Len(list) : /\ list[i] \in InUse(b.order_pool)
                                 /\ b.orders[list[i]].price = b.levels[l].price
                                 /\ b.orders[list[i]].side = b.levels[l].side
    /\ \A i, j \in 1 .. Len(list) :
          i < j => b.orders[list[i]].order_id < b.orders[list[j]].order_id
QueueInv(b, Q) ==
    /\ Q \in [LevelBlocks -> Seq(OrderBlocks)]
    /\ \A l \in InUse(b.level_pool) : QueueOf(b, l, Q[l])
    /\ \A x \in InUse(b.order_pool) :
          \E l \in InUse(b.level_pool) : \E i \in 1 .. Len(Q[l]) : Q[l][i] = x

\* The index by order id names the orders in use.
IndexInv(b) ==
    /\ \A x \in InUse(b.order_pool) :
          b.orders[x].order_id \in Ids /\ b.oid_to_order[b.orders[x].order_id] = x
    /\ \A id \in Ids : b.oid_to_order[id] # nullptr =>
          b.oid_to_order[id] \in InUse(b.order_pool) /\ b.orders[b.oid_to_order[id]].order_id = id

\* The orders in use are those the feed has told of.
FeedType == [side : Sides, price : Nat, qty : Nat, shown : BOOLEAN]
FeedInv(b, f, n) ==
    /\ n \in Nat /\ f \in [DOMAIN f -> FeedType]
    /\ \A id \in DOMAIN f : id \in Nat /\ id < n /\ (f[id].shown => id \in Ids)
    /\ \A id \in Ids : b.oid_to_order[id] # nullptr <=> id \in DOMAIN f /\ f[id].shown
    /\ \A id \in Ids : b.oid_to_order[id] # nullptr =>
          LET order == b.orders[b.oid_to_order[id]]
          IN  order.side = f[id].side /\ order.price = f[id].price /\ order.qty = f[id].qty

Structure(b, C, Q) ==
    TypeInv(b) /\ ChainInv(b, C) /\ SlotInv(b) /\ QueueInv(b, Q) /\ IndexInv(b)

BboInv(b) == b.bbo = updateBBO(b).bbo

IInv ==
    /\ \E C, Q : Structure(book, C, Q)
    /\ FeedInv(book, feed, next_id) /\ BboInv(book) /\ book.aborted = FALSE

----------------------------------------------------------------------------
(* Lists.                                                                  *)

(* A non-empty set of naturals has a least element.                        *)
LEMMA LeastNatural ==
    ASSUME NEW T \in SUBSET Nat, T # {}
    PROVE  \E n \in T : \A m \in T : n <= m
<1>1. PICK n \in T : \A m \in T : ~(<<m, n>> \in OpToRel(<, Nat))
  BY NatLessThanWellFounded, WFMin, Zenon
<1>2. \A m \in T : <<m, n>> \in OpToRel(<, Nat) <=> m < n
  BY DEF OpToRel
<1>3. \A m \in T : ~(m < n)
  BY <1>1, <1>2, Zenon
<1>4. \A m \in T : n <= m
  BY <1>3, SMT
<1> QED BY <1>4, Zenon

(* Min finds it.                                                           *)
LEMMA MinIs ==
    ASSUME NEW T \in SUBSET Nat, NEW n \in T, \A m \in T : n <= m
    PROVE  Min(T) = n
<1>1. \E x \in T : \A y \in T : x =< y
  OBVIOUS
<1>2. Min(T) \in T /\ \A y \in T : Min(T) =< y
  BY <1>1, Zenon DEF Min
<1>3. PICK q : q = Min(T)
  OBVIOUS
<1>4. q \in Nat /\ n \in Nat /\ q <= n /\ n <= q
  BY <1>2, <1>3
<1>5. q = n
  BY <1>4
<1> QED BY <1>3, <1>5

(* The walk along next pointers has a solution.                            *)
Walks(f, store, first, q) ==
    f = [k \in 0 .. q |-> IF k = 0 THEN first
                          ELSE IF f[k - 1] = nullptr THEN nullptr ELSE store[f[k - 1]].next]

(* It exists.                                                              *)
LEMMA WalkRecursion ==
    ASSUME NEW n \in Nat, NEW store, NEW first
    PROVE  \E f : Walks(f, store, first, n)
<1> DEFINE Step(x) == IF x = nullptr THEN nullptr ELSE store[x].next
           Solves(f, q) == f = [k \in 0 .. q |-> IF k = 0 THEN first ELSE Step(f[k - 1])]
           bad == { q \in 0 .. n : ~ \E f : Solves(f, q) }
<1> HIDE DEF Step
<1>1. bad = {}
  <2> SUFFICES ASSUME bad # {} PROVE FALSE
    OBVIOUS
  <2>1. PICK q \in bad : \A m \in bad : q <= m
    <3>1. bad \in SUBSET Nat
      OBVIOUS
    <3> HIDE DEF bad
    <3> QED BY <3>1, LeastNatural
  <2>2. q \in 0 .. n /\ ~ \E f : Solves(f, q)
    OBVIOUS
  <2>3. q # 0
    <3>1. Solves([k \in 0 .. 0 |-> first], 0)
      OBVIOUS
    <3> QED BY <3>1, <2>2
  <2>4. q - 1 \in 0 .. n /\ q - 1 \notin bad
    <3> HIDE DEF bad
    <3> QED BY <2>1, <2>2, <2>3
  <2>5. PICK f : Solves(f, q - 1)
    BY <2>4
  <2> DEFINE g == [k \in 0 .. q |-> IF k = q THEN Step(f[q - 1]) ELSE f[k]]
  <2>6. \A k \in 0 .. q : g[k] = IF k = 0 THEN first ELSE Step(g[k - 1])
    <3> TAKE k \in 0 .. q
    <3>1. CASE k = q
      <4>1. g[q - 1] = f[q - 1] /\ g[q] = Step(f[q - 1])
        BY <2>2, <2>3
      <4> QED BY <4>1, <3>1, <2>3
    <3>2. CASE k # q
      <4>1. g[k] = f[k] /\ k \in 0 .. q - 1
        BY <3>2, <2>2
      <4>2. f[k] = IF k = 0 THEN first ELSE Step(f[k - 1])
        BY <4>1, <2>5
      <4>3. k # 0 => g[k - 1] = f[k - 1]
        BY <3>2, <2>2
      <4> QED BY <4>1, <4>2, <4>3
    <3> QED BY <3>1, <3>2
  <2>7. g = [k \in 0 .. q |-> g[k]]
    OBVIOUS
  <2> HIDE DEF g
  <2>8. Solves(g, q)
    BY <2>6, <2>7
  <2> QED BY <2>2, <2>8
<1>2. \E f : Solves(f, n)
  BY <1>1
<1> QED BY <1>2, Zenon DEF Step, Walks

(* Walking the pointers of a ring gives its list.                          *)
LEMMA RingIs ==
    ASSUME NEW n \in Nat, NEW store, DOMAIN store = 0 .. n - 1, NEW first, NEW list,
           IsRing(store, first, list)
    PROVE  Ring(store, first) = list /\ Len(list) <= n
<1>1. PICK m \in Nat : m = Len(list)
  BY DEF IsRing
<1>2. /\ m > 0 /\ list[1] = first /\ DOMAIN list = 1 .. m
      /\ \A i \in 1 .. m : list[i] \in 0 .. n - 1
      /\ \A i, j \in 1 .. m : list[i] = list[j] => i = j
      /\ \A i \in 1 .. m : store[list[i]].next = list[Succ(i, m)]
  BY <1>1 DEF IsRing
<1>3. Cardinality(DOMAIN store) = n
  BY FS_Interval
<1>4. m <= n
  <2>1. list = [i \in 1 .. m |-> list[i]]
    BY <1>1 DEF IsRing
  <2>2. list \in Injection(1 .. m, 0 .. n - 1)
    BY <1>2, <2>1 DEF Injection, IsInjective
  <2>3. IsFiniteSet(0 .. n - 1) /\ Cardinality(0 .. n - 1) = n /\ Cardinality(1 .. m) = m
    BY FS_Interval
  <2> QED BY <2>2, <2>3, FS_Injection
<1> DEFINE c == Cardinality(DOMAIN store)
           Closed(f, q) == { k \in 1 .. q : f[k] = first }
           Length(f, q) == IF Closed(f, q) = {} THEN q ELSE Min(Closed(f, q))
           Walked(f, q) == [i \in 1 .. Length(f, q) |-> f[i - 1]]
<1>5. Ring(store, first) = Walked(CHOOSE f : Walks(f, store, first, c), c)
  BY Zenon DEF Ring, Walks
<1> HIDE DEF Walked, c
<1>6. PICK at : Walks(at, store, first, n) /\ Ring(store, first) = Walked(at, n)
  <2>1. Walks(CHOOSE f : Walks(f, store, first, n), store, first, n)
    BY WalkRecursion, Zenon
  <2>2. Ring(store, first) = Walked(CHOOSE f : Walks(f, store, first, n), n)
    BY <1>3, <1>5, Zenon DEF c
  <2> QED BY <2>1, <2>2, Zenon
<1> USE DEF Walked
<1>7. /\ at[0] = first
      /\ \A k \in 1 .. n : at[k] = IF at[k - 1] = nullptr THEN nullptr ELSE store[at[k - 1]].next
  <2>1. \A k \in 0 .. n : at[k] = IF k = 0 THEN first
                             ELSE IF at[k - 1] = nullptr THEN nullptr ELSE store[at[k - 1]].next
    BY <1>6, Zenon DEF Walks
  <2> QED BY <2>1
<1> DEFINE bad == { k \in 0 .. m - 1 : at[k] # list[k + 1] }
<1>8. bad = {}
  <2> SUFFICES ASSUME bad # {} PROVE FALSE
    OBVIOUS
  <2>1. PICK k \in bad : \A j \in bad : k <= j
    <3>1. bad \in SUBSET Nat
      OBVIOUS
    <3> HIDE DEF bad
    <3> QED BY <3>1, LeastNatural
  <2>2. k \in 1 .. m - 1
    BY <1>2, <1>7
  <2>3. k - 1 \in 0 .. m - 1 /\ k - 1 \notin bad
    <3> HIDE DEF bad
    <3> QED BY <2>1, <2>2
  <2>4. at[k - 1] = list[k]
    BY <2>2, <2>3
  <2>5. list[k] # nullptr /\ store[list[k]].next = list[k + 1]
    BY <1>2, <2>2 DEF nullptr, Succ
  <2>6. at[k] = list[k + 1]
    BY <1>4, <1>7, <2>2, <2>4, <2>5
  <2> QED BY <2>1, <2>6
<1>9. \A k \in 0 .. m - 1 : at[k] = list[k + 1]
  BY <1>8
<1>10. at[m] = first
  <2>1. at[m - 1] = list[m]
    <3>1. m - 1 \in 0 .. m - 1 /\ (m - 1) + 1 = m
      BY <1>2
    <3> QED BY <1>9, <3>1
  <2>2. list[m] # nullptr /\ store[list[m]].next = list[1]
    BY <1>2 DEF nullptr, Succ
  <2> QED BY <1>2, <1>4, <1>7, <2>1, <2>2
<1>11. Length(at, n) = m
  <2> DEFINE closed == Closed(at, n)
  <2>1. m \in closed /\ closed \in SUBSET Nat
    BY <1>2, <1>4, <1>10
  <2>2. \A k \in closed : m <= k
    <3> SUFFICES ASSUME NEW k \in closed, k < m PROVE FALSE
      BY <2>1
    <3>1. at[k] = list[k + 1] /\ at[k] = list[1] /\ k + 1 \in 1 .. m /\ k \in 1 .. n
      BY <1>2, <1>9
    <3>2. 1 \in 1 .. m /\ list[k + 1] = list[1]
      BY <1>2, <3>1
    <3>3. \A i, j \in 1 .. m : list[i] = list[j] => i = j
      BY <1>2
    <3>4. k + 1 = 1
      BY <3>1, <3>2, <3>3, Zenon
    <3> QED BY <3>1, <3>4
  <2> HIDE DEF closed
  <2>3. Min(closed) = m /\ closed # {}
    BY <2>1, <2>2, MinIs
  <2> QED BY <2>3, Zenon DEF closed
<1> HIDE DEF Length
<1>12. Ring(store, first) = [i \in 1 .. m |-> list[i]]
  <2>1. \A i \in 1 .. m : at[i - 1] = list[i]
    BY <1>9
  <2> QED BY <1>6, <1>11, <2>1
<1>13. list = [i \in 1 .. m |-> list[i]]
  BY <1>1 DEF IsRing
<1> QED BY <1>1, <1>4, <1>12, <1>13

(* A list keeps its shape when the pointers of its blocks stay.            *)
LEMMA RingFrame ==
    ASSUME NEW store, NEW first, NEW list, IsRing(store, first, list),
           NEW store2, DOMAIN store2 = DOMAIN store,
           \A i \in 1 .. Len(list) : /\ store2[list[i]].next = store[list[i]].next
                                     /\ store2[list[i]].prev = store[list[i]].prev
    PROVE  IsRing(store2, first, list)
BY DEF IsRing

(* A list of one.                                                          *)
LEMMA RingOfOne ==
    ASSUME NEW store, NEW x \in DOMAIN store, store[x].next = x, store[x].prev = x
    PROVE  IsRing(store, x, <<x>>)
BY DEF IsRing, Succ, Pred

Inserted(list, p, x) ==
    [k \in 1 .. Len(list) + 1 |-> IF k < p THEN list[k] ELSE IF k = p THEN x ELSE list[k - 1]]
Removed(list, p) == [k \in 1 .. Len(list) - 1 |-> IF k < p THEN list[k] ELSE list[k + 1]]

(* What insertion at a place gives.                                        *)
LEMMA InsertedIs ==
    ASSUME NEW S, NEW list \in Seq(S), NEW x \in S, NEW p \in 1 .. Len(list) + 1
    PROVE  /\ Inserted(list, p, x) \in Seq(S) /\ Len(Inserted(list, p, x)) = Len(list) + 1
           /\ \A k \in 1 .. Len(list) + 1 :
                Inserted(list, p, x)[k] = IF k < p THEN list[k] ELSE IF k = p THEN x ELSE list[k - 1]
<1> DEFINE t == Inserted(list, p, x)
<1>1. PICK n \in Nat : n = Len(list)
  OBVIOUS
<1>2. t = [k \in 1 .. n + 1 |-> IF k < p THEN list[k] ELSE IF k = p THEN x ELSE list[k - 1]]
  BY <1>1 DEF Inserted
<1>3. \A k \in 1 .. n + 1 : (IF k < p THEN list[k] ELSE IF k = p THEN x ELSE list[k - 1]) \in S
  <2> TAKE k \in 1 .. n + 1
  <2>1. CASE k < p
    <3>1. k \in 1 .. n
      BY <1>1, <2>1
    <3> QED BY <1>1, <2>1, <3>1
  <2>2. CASE k = p
    BY <2>2
  <2>3. CASE k > p
    <3>1. k - 1 \in 1 .. n
      BY <1>1, <2>3
    <3> QED BY <1>1, <2>3, <3>1
  <2> QED BY <2>1, <2>2, <2>3
<1> HIDE DEF t
<1>4. t \in [1 .. n + 1 -> S]
  BY <1>2, <1>3
<1>5. t \in Seq(S) /\ Len(t) = n + 1
  BY <1>4
<1> QED BY <1>1, <1>2, <1>5 DEF t

(* What removal at a place gives.                                          *)
LEMMA RemovedIs ==
    ASSUME NEW S, NEW list \in Seq(S), NEW p \in 1 .. Len(list)
    PROVE  /\ Removed(list, p) \in Seq(S) /\ Len(Removed(list, p)) = Len(list) - 1
           /\ \A k \in 1 .. Len(list) - 1 :
                Removed(list, p)[k] = IF k < p THEN list[k] ELSE list[k + 1]
<1> DEFINE t == Removed(list, p)
<1>1. PICK n \in Nat : n = Len(list)
  OBVIOUS
<1>2. t = [k \in 1 .. n - 1 |-> IF k < p THEN list[k] ELSE list[k + 1]]
  BY <1>1 DEF Removed
<1>3. \A k \in 1 .. n - 1 : (IF k < p THEN list[k] ELSE list[k + 1]) \in S
  BY <1>1
<1>4. n - 1 \in Nat
  BY <1>1
<1> HIDE DEF t
<1>5. t \in [1 .. n - 1 -> S]
  BY <1>2, <1>3
<1>6. t \in Seq(S) /\ Len(t) = n - 1
  BY <1>4, <1>5
<1> QED BY <1>1, <1>2, <1>6 DEF t

(* Linking a new block in before the one at place p, or at the end.        *)
LinkedIn(store, first, list, x, p, before, after, store2) ==
    /\ IsRing(store, first, list) /\ p \in 1 .. Len(list) + 1
    /\ x \in DOMAIN store /\ \A i \in 1 .. Len(list) : list[i] # x
    /\ before = list[IF p = 1 THEN Len(list) ELSE p - 1]
    /\ after = list[IF p = Len(list) + 1 THEN 1 ELSE p]
    /\ DOMAIN store2 = DOMAIN store
    /\ store2[x].prev = before /\ store2[x].next = after
    /\ \A i \in 1 .. Len(list) :
          /\ store2[list[i]].next = IF list[i] = before THEN x ELSE store[list[i]].next
          /\ store2[list[i]].prev = IF list[i] = after THEN x ELSE store[list[i]].prev

(* A ring stays one when a block is linked in.                             *)
LEMMA RingInsert ==
    ASSUME NEW store, NEW first, NEW list, NEW x, NEW p, NEW before, NEW after, NEW store2,
           LinkedIn(store, first, list, x, p, before, after, store2)
    PROVE  IsRing(store2, Inserted(list, p, x)[1], Inserted(list, p, x))
<1> USE DEF LinkedIn
<1> DEFINE t == Inserted(list, p, x)
           D == DOMAIN store
<1>1. PICK n \in Nat : n = Len(list)
  BY DEF IsRing
<1>2. /\ n > 0 /\ list \in Seq(D)
      /\ \A i, j \in 1 .. n : list[i] = list[j] => i = j
      /\ \A i \in 1 .. n : list[i] # x
      /\ p \in 1 .. n + 1 /\ x \in D
  BY <1>1 DEF IsRing
<1>3. \A i \in 1 .. n : /\ store[list[i]].next = list[Succ(i, n)]
                        /\ store[list[i]].prev = list[Pred(i, n)]
  BY <1>1 DEF IsRing
<1>4. /\ t \in Seq(D) /\ Len(t) = n + 1
      /\ \A k \in 1 .. n + 1 : t[k] = IF k < p THEN list[k] ELSE IF k = p THEN x ELSE list[k - 1]
  <2>1. ASSUME NEW q \in 1 .. Len(list) + 1, NEW y \in D, list \in Seq(D)
        PROVE  /\ Inserted(list, q, y) \in Seq(D) /\ Len(Inserted(list, q, y)) = Len(list) + 1
               /\ \A k \in 1 .. Len(list) + 1 :
                    Inserted(list, q, y)[k]
                      = IF k < q THEN list[k] ELSE IF k = q THEN y ELSE list[k - 1]
    BY ONLY <2>1, InsertedIs
  <2>2. p \in 1 .. Len(list) + 1 /\ x \in D /\ list \in Seq(D)
    BY <1>1, <1>2
  <2>3. /\ t \in Seq(D) /\ Len(t) = Len(list) + 1
        /\ \A k \in 1 .. Len(list) + 1 :
              t[k] = IF k < p THEN list[k] ELSE IF k = p THEN x ELSE list[k - 1]
    BY <2>1, <2>2
  <2> HIDE DEF t
  <2> QED BY <1>1, <2>3
<1> HIDE DEF t
<1>5. \A i, j \in 1 .. n + 1 : t[i] = t[j] => i = j
  <2> SUFFICES ASSUME NEW i \in 1 .. n + 1, NEW j \in 1 .. n + 1, i < j, t[i] = t[j] PROVE FALSE
    OBVIOUS
  <2>1. CASE j < p
    <3>1. i \in 1 .. n /\ j \in 1 .. n /\ t[i] = list[i] /\ t[j] = list[j]
      BY <1>2, <1>4, <2>1
    <3>2. i = j
      BY <1>2, <3>1
    <3> QED BY <3>2
  <2>2. CASE j = p
    <3>1. i \in 1 .. n /\ t[i] = list[i] /\ t[j] = x
      BY <1>2, <1>4, <2>2
    <3> QED BY <1>2, <3>1
  <2>3. CASE j > p /\ i < p
    <3>1. i \in 1 .. n /\ j - 1 \in 1 .. n /\ t[i] = list[i] /\ t[j] = list[j - 1]
      BY <1>2, <1>4, <2>3
    <3>2. i = j - 1
      BY <1>2, <3>1
    <3> QED BY <2>3, <3>2
  <2>4. CASE j > p /\ i = p
    <3>1. j - 1 \in 1 .. n /\ t[i] = x /\ t[j] = list[j - 1]
      BY <1>2, <1>4, <2>4
    <3> QED BY <1>2, <3>1
  <2>5. CASE i > p
    <3>1. i - 1 \in 1 .. n /\ j - 1 \in 1 .. n /\ t[i] = list[i - 1] /\ t[j] = list[j - 1]
      BY <1>2, <1>4, <2>5
    <3>2. i - 1 = j - 1
      BY <1>2, <3>1
    <3> QED BY <3>2
  <2> QED BY <2>1, <2>2, <2>3, <2>4, <2>5
<1>6. PICK u \in 1 .. n, v \in 1 .. n :
        /\ u = (IF p = 1 THEN n ELSE p - 1) /\ v = (IF p = n + 1 THEN 1 ELSE p)
        /\ before = list[u] /\ after = list[v]
  <2>1. (IF p = 1 THEN n ELSE p - 1) \in 1 .. n /\ (IF p = n + 1 THEN 1 ELSE p) \in 1 .. n
    BY <1>2
  <2> QED BY <1>1, <2>1
<1>7. /\ \A i \in 1 .. n : store2[list[i]].next = IF i = u THEN x ELSE list[Succ(i, n)]
      /\ \A i \in 1 .. n : store2[list[i]].prev = IF i = v THEN x ELSE list[Pred(i, n)]
  <2> SUFFICES ASSUME NEW i \in 1 .. n
               PROVE  /\ store2[list[i]].next = IF i = u THEN x ELSE list[Succ(i, n)]
                      /\ store2[list[i]].prev = IF i = v THEN x ELSE list[Pred(i, n)]
    OBVIOUS
  <2>1. (list[i] = before <=> i = u) /\ (list[i] = after <=> i = v)
    BY <1>2, <1>6
  <2> QED BY <1>1, <1>3, <2>1
<1>8. \A k \in 1 .. n + 1 : store2[t[k]].next = t[Succ(k, n + 1)]
  <2> TAKE k \in 1 .. n + 1
  <2>1. CASE k < p
    <3>1. k \in 1 .. n /\ t[k] = list[k] /\ k + 1 \in 1 .. n + 1 /\ Succ(k, n + 1) = k + 1
      BY <1>2, <1>4, <2>1 DEF Succ
    <3>2. t[k + 1] = IF k + 1 = p THEN x ELSE list[k + 1]
      BY <1>2, <1>4, <2>1, <3>1
    <3>3. k = u <=> k + 1 = p
      BY <1>2, <1>6, <2>1
    <3>4. k # u => Succ(k, n) = k + 1
      BY <1>2, <1>6, <2>1 DEF Succ
    <3> QED BY <1>7, <3>1, <3>2, <3>3, <3>4
  <2>2. CASE k = p
    <3>1. t[k] = x
      BY <1>2, <1>4, <2>2
    <3>2. t[Succ(k, n + 1)] = list[v]
      <4>1. CASE p = n + 1
        <5>1. Succ(k, n + 1) = 1 /\ v = 1 /\ 1 \in 1 .. n + 1
          BY <1>2, <1>6, <2>2, <4>1 DEF Succ
        <5>2. t[1] = list[1]
          BY <1>2, <1>4, <4>1, <5>1
        <5> QED BY <5>1, <5>2
      <4>2. CASE p # n + 1
        <5>1. Succ(k, n + 1) = p + 1 /\ v = p /\ p + 1 \in 1 .. n + 1
          BY <1>2, <1>6, <2>2, <4>2 DEF Succ
        <5>2. t[p + 1] = list[p]
          BY <1>2, <1>4, <4>2, <5>1
        <5> QED BY <5>1, <5>2
      <4> QED BY <4>1, <4>2
    <3> QED BY <1>6, <3>1, <3>2
  <2>3. CASE k > p
    <3>1. k - 1 \in 1 .. n /\ t[k] = list[k - 1] /\ (k - 1 # u \/ (p = 1 /\ k = n + 1))
      BY <1>2, <1>4, <1>6, <2>3
    <3>2. CASE k = n + 1
      <4>1. Succ(k, n + 1) = 1 /\ 1 \in 1 .. n + 1 /\ n \in 1 .. n
        BY <1>2, <3>2 DEF Succ
      <4>2. t[k] = list[n]
        BY <1>2, <1>4, <2>3, <3>2
      <4>3. CASE p = 1
        <5>1. t[1] = x /\ u = n
          BY <1>2, <1>4, <1>6, <4>1, <4>3
        <5> QED BY <1>7, <4>1, <4>2, <5>1
      <4>4. CASE p # 1
        <5>1. t[1] = list[1] /\ u # n /\ Succ(n, n) = 1
          BY <1>2, <1>4, <1>6, <2>3, <3>2, <4>1, <4>4 DEF Succ
        <5> QED BY <1>7, <4>1, <4>2, <5>1
      <4> QED BY <4>3, <4>4
    <3>3. CASE k # n + 1
      <4>1. /\ Succ(k, n + 1) = k + 1 /\ k + 1 \in 1 .. n + 1
            /\ k - 1 \in 1 .. n /\ k - 1 # u /\ Succ(k - 1, n) = k
        BY <1>2, <1>6, <2>3, <3>3 DEF Succ
      <4>2. t[k] = list[k - 1] /\ t[k + 1] = list[k]
        BY <1>2, <1>4, <2>3, <4>1
      <4> QED BY <1>7, <4>1, <4>2
    <3> QED BY <3>2, <3>3
  <2> QED BY <2>1, <2>2, <2>3
<1>9. \A k \in 1 .. n + 1 : store2[t[k]].prev = t[Pred(k, n + 1)]
  <2> TAKE k \in 1 .. n + 1
  <2>1. CASE k < p
    <3>1. k \in 1 .. n /\ t[k] = list[k]
      BY <1>2, <1>4, <2>1
    <3>2. CASE k = 1
      <4>1. Pred(k, n + 1) = n + 1 /\ n + 1 \in 1 .. n + 1
        BY <1>2, <3>2 DEF Pred
      <4>2. CASE p = n + 1
        <5>1. t[n + 1] = x /\ v = 1
          BY <1>2, <1>4, <1>6, <4>1, <4>2
        <5> QED BY <1>7, <3>1, <3>2, <4>1, <5>1
      <4>3. CASE p # n + 1
        <5>1. t[n + 1] = list[n] /\ v # 1 /\ Pred(1, n) = n
          BY <1>2, <1>4, <1>6, <2>1, <3>2, <4>1, <4>3 DEF Pred
        <5> QED BY <1>7, <3>1, <3>2, <4>1, <5>1
      <4> QED BY <4>2, <4>3
    <3>3. CASE k # 1
      <4>1. Pred(k, n + 1) = k - 1 /\ k - 1 \in 1 .. n + 1 /\ k # v /\ Pred(k, n) = k - 1
        BY <1>2, <1>6, <2>1, <3>3 DEF Pred
      <4>2. t[k - 1] = list[k - 1]
        BY <1>2, <1>4, <2>1, <4>1
      <4> QED BY <1>7, <3>1, <4>1, <4>2
    <3> QED BY <3>2, <3>3
  <2>2. CASE k = p
    <3>1. t[k] = x
      BY <1>2, <1>4, <2>2
    <3>2. t[Pred(k, n + 1)] = list[u]
      <4>1. CASE p = 1
        <5>1. Pred(k, n + 1) = n + 1 /\ u = n /\ n + 1 \in 1 .. n + 1
          BY <1>2, <1>6, <2>2, <4>1 DEF Pred
        <5>2. t[n + 1] = list[n]
          BY <1>2, <1>4, <4>1, <5>1
        <5> QED BY <5>1, <5>2
      <4>2. CASE p # 1
        <5>1. Pred(k, n + 1) = p - 1 /\ u = p - 1 /\ p - 1 \in 1 .. n + 1
          BY <1>2, <1>6, <2>2, <4>2 DEF Pred
        <5>2. t[p - 1] = list[p - 1]
          BY <1>2, <1>4, <4>2, <5>1
        <5> QED BY <5>1, <5>2
      <4> QED BY <4>1, <4>2
    <3> QED BY <1>6, <3>1, <3>2
  <2>3. CASE k > p
    <3>0. k # 1 /\ k - 1 \in 1 .. n /\ k - 1 \in 1 .. n + 1
      BY <1>2, <2>3
    <3>1. k - 1 \in 1 .. n /\ t[k] = list[k - 1] /\ Pred(k, n + 1) = k - 1 /\ k - 1 \in 1 .. n + 1
      BY <1>2, <1>4, <2>3, <3>0 DEF Pred
    <3>2. CASE k - 1 = p
      <4>1. t[k - 1] = x /\ v = k - 1
        BY <1>2, <1>4, <1>6, <3>1, <3>2
      <4> QED BY <1>7, <3>1, <4>1
    <3>3. CASE k - 1 # p
      <4>1. t[k - 1] = list[k - 2] /\ v # k - 1 /\ Pred(k - 1, n) = k - 2
        BY <1>2, <1>4, <1>6, <2>3, <3>1, <3>3 DEF Pred
      <4> QED BY <1>7, <3>1, <4>1
    <3> QED BY <3>2, <3>3
  <2> QED BY <2>1, <2>2, <2>3
<1> QED BY <1>4, <1>5, <1>8, <1>9 DEF IsRing, t

(* Taking the block at place p out of a list of more than one.             *)
LinkedOut(store, first, list, p, before, after, store2) ==
    /\ IsRing(store, first, list) /\ Len(list) > 1 /\ p \in 1 .. Len(list)
    /\ before = list[Pred(p, Len(list))] /\ after = list[Succ(p, Len(list))]
    /\ DOMAIN store2 = DOMAIN store
    /\ \A i \in 1 .. Len(list) : i # p =>
          /\ store2[list[i]].next = IF list[i] = before THEN after ELSE store[list[i]].next
          /\ store2[list[i]].prev = IF list[i] = after THEN before ELSE store[list[i]].prev

(* A ring stays one when a block is linked out.                            *)
LEMMA RingRemove ==
    ASSUME NEW store, NEW first, NEW list, NEW p, NEW before, NEW after, NEW store2,
           LinkedOut(store, first, list, p, before, after, store2)
    PROVE  IsRing(store2, Removed(list, p)[1], Removed(list, p))
<1> USE DEF LinkedOut
<1> DEFINE t == Removed(list, p)
           D == DOMAIN store
<1>1. PICK n \in Nat : n = Len(list)
  BY DEF IsRing
<1>2. /\ n > 1 /\ list \in Seq(D)
      /\ \A i, j \in 1 .. n : list[i] = list[j] => i = j
      /\ p \in 1 .. n
  BY <1>1 DEF IsRing
<1>3. \A i \in 1 .. n : /\ store[list[i]].next = list[Succ(i, n)]
                        /\ store[list[i]].prev = list[Pred(i, n)]
  BY <1>1 DEF IsRing
<1>4. /\ t \in Seq(D) /\ Len(t) = n - 1
      /\ \A k \in 1 .. n - 1 : t[k] = IF k < p THEN list[k] ELSE list[k + 1]
  BY <1>1, <1>2, RemovedIs
<1> HIDE DEF t
<1>5. \A i, j \in 1 .. n - 1 : t[i] = t[j] => i = j
  <2> SUFFICES ASSUME NEW i \in 1 .. n - 1, NEW j \in 1 .. n - 1, t[i] = t[j] PROVE i = j
    OBVIOUS
  <2>1. PICK a \in 1 .. n, b \in 1 .. n : /\ a = (IF i < p THEN i ELSE i + 1) /\ t[i] = list[a]
                                          /\ b = (IF j < p THEN j ELSE j + 1) /\ t[j] = list[b]
    <3>1. (IF i < p THEN i ELSE i + 1) \in 1 .. n /\ (IF j < p THEN j ELSE j + 1) \in 1 .. n
      BY <1>2
    <3>2. /\ t[i] = list[IF i < p THEN i ELSE i + 1]
          /\ t[j] = list[IF j < p THEN j ELSE j + 1]
      BY <1>4
    <3> QED BY <3>1, <3>2
  <2>2. a = b
    BY <1>2, <2>1
  <2> QED BY <2>1, <2>2
<1>6. PICK u \in 1 .. n, v \in 1 .. n :
        u = Pred(p, n) /\ v = Succ(p, n) /\ before = list[u] /\ after = list[v]
  <2>1. Pred(p, n) \in 1 .. n /\ Succ(p, n) \in 1 .. n
    BY <1>2 DEF Pred, Succ
  <2> QED BY <1>1, <2>1
<1>7. /\ \A i \in 1 .. n : i # p => store2[list[i]].next = list[IF i = u THEN v ELSE Succ(i, n)]
      /\ \A i \in 1 .. n : i # p => store2[list[i]].prev = list[IF i = v THEN u ELSE Pred(i, n)]
  <2> SUFFICES ASSUME NEW i \in 1 .. n, i # p
               PROVE  /\ store2[list[i]].next = list[IF i = u THEN v ELSE Succ(i, n)]
                      /\ store2[list[i]].prev = list[IF i = v THEN u ELSE Pred(i, n)]
    OBVIOUS
  <2>1. (list[i] = before <=> i = u) /\ (list[i] = after <=> i = v)
    BY <1>2, <1>6
  <2> QED BY <1>1, <1>3, <1>6, <2>1
<1>8. ASSUME NEW k \in 1 .. n - 1
      PROVE  /\ store2[t[k]].next = t[Succ(k, n - 1)]
             /\ store2[t[k]].prev = t[Pred(k, n - 1)]
  <2>1. PICK i \in 1 .. n : i = (IF k < p THEN k ELSE k + 1) /\ i # p /\ t[k] = list[i]
    <3>1. (IF k < p THEN k ELSE k + 1) \in 1 .. n /\ (IF k < p THEN k ELSE k + 1) # p
      BY <1>2
    <3>2. t[k] = list[IF k < p THEN k ELSE k + 1]
      BY <1>4
    <3> QED BY <3>1, <3>2
  <2>2. t[Succ(k, n - 1)] = list[IF i = u THEN v ELSE Succ(i, n)]
    <3>1. PICK j \in 1 .. n - 1 : j = Succ(k, n - 1)
      BY <1>2 DEF Succ
    <3>2. t[j] = list[IF j < p THEN j ELSE j + 1]
      BY <1>4
    <3>3. (IF j < p THEN j ELSE j + 1) = (IF i = u THEN v ELSE Succ(i, n))
      BY <1>2, <1>6, <2>1, <3>1 DEF Succ, Pred
    <3> QED BY <3>1, <3>2, <3>3
  <2>3. t[Pred(k, n - 1)] = list[IF i = v THEN u ELSE Pred(i, n)]
    <3>1. PICK j \in 1 .. n - 1 : j = Pred(k, n - 1)
      BY <1>2 DEF Pred
    <3>2. t[j] = list[IF j < p THEN j ELSE j + 1]
      BY <1>4
    <3>3. (IF j < p THEN j ELSE j + 1) = (IF i = v THEN u ELSE Pred(i, n))
      BY <1>2, <1>6, <2>1, <3>1 DEF Succ, Pred
    <3> QED BY <3>1, <3>2, <3>3
  <2> QED BY <1>7, <2>1, <2>2, <2>3
<1>9. Len(t) > 0
  BY <1>2, <1>4
<1> QED BY <1>4, <1>5, <1>8, <1>9 DEF IsRing, t

----------------------------------------------------------------------------
(* Pools.                                                                  *)

(* The blocks of a pool are free or in use.                                *)
LEMMA PoolFacts ==
    ASSUME NEW n \in Nat \ {0}, NEW pool, PoolInv(pool, n)
    PROVE  /\ DOMAIN pool.is_free = 0 .. n - 1
           /\ Free(pool) \subseteq 0 .. n - 1 /\ InUse(pool) \subseteq 0 .. n - 1
           /\ IsFiniteSet(Free(pool)) /\ IsFiniteSet(InUse(pool))
           /\ \A x \in 0 .. n - 1 : x \in InUse(pool) <=> x \notin Free(pool)
           /\ \A x \in 0 .. n - 1 : x \in Free(pool) <=> pool.is_free[x]
<1>1. DOMAIN pool.is_free = 0 .. n - 1
  BY DEF PoolInv, Blocks
<1>2. Free(pool) \subseteq 0 .. n - 1 /\ InUse(pool) \subseteq 0 .. n - 1
  BY <1>1, Zenon DEF Free, InUse
<1>3. IsFiniteSet(0 .. n - 1)
  BY FS_Interval
<1>4. IsFiniteSet(Free(pool)) /\ IsFiniteSet(InUse(pool))
  BY <1>2, <1>3, FS_Subset, Zenon
<1>5. \A x \in 0 .. n - 1 : x \in InUse(pool) <=> x \notin Free(pool)
  BY <1>1, Zenon DEF InUse
<1>6. \A x \in 0 .. n - 1 : x \in Free(pool) <=> pool.is_free[x]
  BY <1>1, Zenon DEF Free
<1> QED BY <1>1, <1>2, <1>4, <1>5, <1>6, Zenon

(* An exhausted pool has no free block.                                    *)
LEMMA ExhaustedIs ==
    ASSUME NEW n \in Nat \ {0}, NEW pool, PoolInv(pool, n)
    PROVE  Exhausted(pool) <=> InUse(pool) = 0 .. n - 1
<1>1. Exhausted(pool) <=> Cardinality(Free(pool)) = 0
  BY DEF PoolInv, Exhausted
<1>2. Cardinality(Free(pool)) = 0 <=> Free(pool) = {}
  BY PoolFacts, FS_EmptySet, Zenon
<1>3. Free(pool) = {} <=> InUse(pool) = 0 .. n - 1
  BY PoolFacts
<1> QED BY <1>1, <1>2, <1>3

(* The scan of allocate() finds a free block.                              *)
LEMMA FreeBlockIsFree ==
    ASSUME NEW n \in Nat \ {0}, NEW pool, PoolInv(pool, n), ~Exhausted(pool)
    PROVE  FreeBlock(pool) \in Free(pool)
<1> DEFINE i0 == pool.next_free_index
           At(k) == (i0 + k) % n
           Found(k) == pool.is_free[At(k)] /\ \A j \in 0 .. k - 1 : ~pool.is_free[At(j)]
           hits == { k \in 0 .. n - 1 : pool.is_free[At(k)] }
<1>1. i0 \in 0 .. n - 1
  BY DEF PoolInv, Blocks
<1>2. Cardinality(DOMAIN pool.is_free) = n
  BY PoolFacts, FS_Interval
<1>3. FreeBlock(pool) = At(CHOOSE k \in 0 .. n - 1 : Found(k))
  BY <1>2, Zenon DEF FreeBlock
<1>4. PICK x \in 0 .. n - 1 : pool.is_free[x]
  <2>1. InUse(pool) # 0 .. n - 1
    BY ExhaustedIs
  <2> QED BY <2>1, PoolFacts
<1> HIDE DEF i0
<1>5. \A y \in 0 .. n - 1 : y % n = y /\ (y + n) % n = y
  OBVIOUS
<1>6. \E k \in 0 .. n - 1 : At(k) = x
  <2>1. CASE x >= i0
    <3>1. x - i0 \in 0 .. n - 1 /\ i0 + (x - i0) = x
      BY <1>1, <2>1
    <3>2. At(x - i0) = x
      BY <1>5, <3>1
    <3> QED BY <3>1, <3>2
  <2>2. CASE x < i0
    <3>1. x - i0 + n \in 0 .. n - 1 /\ i0 + (x - i0 + n) = x + n
      BY <1>1, <2>2
    <3>2. At(x - i0 + n) = x
      BY <1>5, <3>1
    <3> QED BY <3>1, <3>2
  <2> QED BY <1>1, <2>1, <2>2
<1> HIDE DEF At
<1>7. hits # {} /\ hits \in SUBSET Nat
  BY <1>4, <1>6
<1>8. PICK k \in hits : \A j \in hits : k <= j
  <2> HIDE DEF hits
  <2> QED BY <1>7, LeastNatural
<1>9. k \in 0 .. n - 1 /\ pool.is_free[At(k)]
  BY <1>8
<1>10. \A j \in 0 .. k - 1 : ~pool.is_free[At(j)]
  <2> SUFFICES ASSUME NEW j \in 0 .. k - 1, pool.is_free[At(j)] PROVE FALSE
    OBVIOUS
  <2>1. j \in 0 .. n - 1 /\ ~(k <= j)
    BY <1>9
  <2>2. j \in hits
    BY <2>1
  <2> QED BY <1>8, <2>1, <2>2
<1>11. Found(k)
  BY <1>9, <1>10, Zenon
<1> HIDE DEF Found
<1>12. PICK c \in 0 .. n - 1 : FreeBlock(pool) = At(c) /\ Found(c)
  BY <1>3, <1>9, <1>11, Zenon
<1>13. At(c) \in 0 .. n - 1
  <2>1. (i0 + c) \in Int
    BY <1>1
  <2> QED BY <2>1 DEF At
<1>14. pool.is_free[At(c)]
  BY <1>12, Zenon DEF Found
<1> QED BY <1>12, <1>13, <1>14, PoolFacts, Zenon

(* allocate() hands out a free block and keeps the count right.            *)
LEMMA Allocates ==
    ASSUME NEW n \in Nat \ {0}, NEW pool, PoolInv(pool, n), ~Exhausted(pool),
           NEW x, x = FreeBlock(pool)
    PROVE  /\ x \in 0 .. n - 1 /\ x \notin InUse(pool)
           /\ PoolInv(allocate(pool), n) /\ InUse(allocate(pool)) = InUse(pool) \cup {x}
<1> DEFINE p == allocate(pool)
<1>1. x \in Free(pool) /\ x \in 0 .. n - 1 /\ x \notin InUse(pool)
  BY FreeBlockIsFree, PoolFacts
<1>2. /\ p.is_free = [pool.is_free EXCEPT ![x] = FALSE] /\ p.next_free_index = x
      /\ p.free_count = pool.free_count - 1
      /\ p = [is_free |-> p.is_free, next_free_index |-> p.next_free_index,
              free_count |-> p.free_count]
  BY DEF allocate
<1> HIDE DEF p
<1>3. pool.is_free \in [0 .. n - 1 -> BOOLEAN]
  BY DEF PoolInv, Blocks
<1>4. p.is_free \in [0 .. n - 1 -> BOOLEAN]
  BY <1>2, <1>3
<1>5. DOMAIN p.is_free = 0 .. n - 1
  BY <1>4
<1>6. \A y \in 0 .. n - 1 : p.is_free[y] <=> (y # x /\ pool.is_free[y])
  BY <1>1, <1>2, <1>3
<1>7. Free(p) = Free(pool) \ {x}
  <2>1. \A y : y \in Free(p) <=> y \in 0 .. n - 1 /\ p.is_free[y]
    BY <1>5, Zenon DEF Free
  <2>2. \A y : y \in Free(pool) <=> y \in 0 .. n - 1 /\ pool.is_free[y]
    BY PoolFacts, Zenon
  <2> QED BY <1>6, <2>1, <2>2, Zenon
<1>8. InUse(p) = InUse(pool) \cup {x}
  <2>1. InUse(p) = (0 .. n - 1) \ Free(p) /\ InUse(pool) = (0 .. n - 1) \ Free(pool)
    BY <1>5, PoolFacts, Zenon DEF InUse
  <2> QED BY <1>1, <1>7, <2>1, Zenon
<1>9. /\ pool.free_count \in Nat /\ pool.free_count # 0
      /\ pool.free_count = Cardinality(Free(pool))
  BY DEF PoolInv, Exhausted
<1>10. Cardinality(Free(p)) = pool.free_count - 1
  <2>1. IsFiniteSet(Free(pool))
    BY PoolFacts
  <2>2. Cardinality(Free(pool) \ {x}) = Cardinality(Free(pool)) - 1
    BY <1>1, <2>1, FS_RemoveElement
  <2> QED BY <1>7, <1>9, <2>2
<1>11. PoolInv(p, n)
  <2>1. p.free_count \in Nat /\ p.free_count = Cardinality(Free(p))
    BY <1>2, <1>9, <1>10
  <2> QED BY <1>1, <1>2, <1>4, <2>1 DEF PoolInv, Blocks
<1> QED BY <1>1, <1>8, <1>11 DEF p

(* deallocate() takes blocks back and keeps the count right.               *)
LEMMA Deallocates ==
    ASSUME NEW n \in Nat \ {0}, NEW pool, PoolInv(pool, n), NEW S \in SUBSET InUse(pool)
    PROVE  PoolInv(deallocate(pool, S), n) /\ InUse(deallocate(pool, S)) = InUse(pool) \ S
<1> DEFINE p == deallocate(pool, S)
<1>1. S \subseteq 0 .. n - 1 /\ S \cap Free(pool) = {}
  BY PoolFacts
<1>2. /\ p.is_free = [x \in 0 .. n - 1 |-> x \in S \/ pool.is_free[x]]
      /\ p.next_free_index = pool.next_free_index
      /\ p.free_count = pool.free_count + Cardinality(S)
      /\ p = [is_free |-> p.is_free, next_free_index |-> p.next_free_index,
              free_count |-> p.free_count]
  <2>1. DOMAIN pool.is_free = 0 .. n - 1
    BY PoolFacts
  <2>2. pool = [is_free |-> pool.is_free, next_free_index |-> pool.next_free_index,
                free_count |-> pool.free_count]
    BY DEF PoolInv
  <2>3. p = [pool EXCEPT !.is_free = [x \in 0 .. n - 1 |-> x \in S \/ pool.is_free[x]],
                         !.free_count = pool.free_count + Cardinality(S)]
    BY <2>1, Zenon DEF deallocate
  <2> DEFINE g == [x \in 0 .. n - 1 |-> x \in S \/ pool.is_free[x]]
  <2> HIDE DEF g, p
  <2>4. p = [pool EXCEPT !.is_free = g, !.free_count = pool.free_count + Cardinality(S)]
    BY <2>3 DEF g
  <2>5. p = [is_free |-> g, next_free_index |-> pool.next_free_index,
             free_count |-> pool.free_count + Cardinality(S)]
    BY <2>2, <2>4
  <2> QED BY <2>5 DEF g
<1> HIDE DEF p
<1>4. p.is_free \in [0 .. n - 1 -> BOOLEAN]
  BY <1>2
<1>5. DOMAIN p.is_free = 0 .. n - 1
  BY <1>4
<1>6. \A y \in 0 .. n - 1 : p.is_free[y] <=> (y \in S \/ pool.is_free[y])
  BY <1>2, Zenon
<1>7. Free(p) = Free(pool) \cup S
  <2>1. \A y : y \in Free(p) <=> y \in 0 .. n - 1 /\ p.is_free[y]
    BY <1>5, Zenon DEF Free
  <2>2. \A y : y \in Free(pool) <=> y \in 0 .. n - 1 /\ pool.is_free[y]
    BY PoolFacts, Zenon
  <2> QED BY <1>1, <1>6, <2>1, <2>2, Zenon
<1>8. InUse(p) = InUse(pool) \ S
  <2>1. InUse(p) = (0 .. n - 1) \ Free(p) /\ InUse(pool) = (0 .. n - 1) \ Free(pool)
    BY <1>5, PoolFacts, Zenon DEF InUse
  <2> QED BY <1>7, <2>1, Zenon
<1>9. pool.free_count \in Nat /\ pool.free_count = Cardinality(Free(pool))
  BY DEF PoolInv
<1>10. IsFiniteSet(S) /\ Cardinality(S) \in Nat
  BY PoolFacts, FS_Subset, FS_CardinalityType
<1>11. Cardinality(Free(p)) = pool.free_count + Cardinality(S)
  <2>1. Cardinality(Free(pool) \cup S)
          = Cardinality(Free(pool)) + Cardinality(S) - Cardinality(Free(pool) \cap S)
    BY <1>10, PoolFacts, FS_Union
  <2>2. Free(pool) \cap S = {} /\ Cardinality({}) = 0
    BY <1>1, FS_EmptySet
  <2> QED BY <1>7, <1>9, <1>10, <2>1, <2>2
<1>12. PoolInv(p, n)
  <2>1. p.free_count \in Nat /\ p.free_count = Cardinality(Free(p))
    BY <1>2, <1>9, <1>10, <1>11
  <2>2. p.next_free_index \in 0 .. n - 1
    BY <1>2 DEF PoolInv, Blocks
  <2> QED BY <1>2, <1>4, <2>1, <2>2 DEF PoolInv, Blocks
<1> QED BY <1>8, <1>12 DEF p

----------------------------------------------------------------------------
(* What an operation does to one part of the structure.  b2 is the book    *)
(* after it; the hypotheses say what it did to the fields.                 *)

SameOrder(o, q) == o.order_id = q.order_id /\ o.side = q.side /\ o.price = q.price
SameLinks(o, q) == o.next = q.next /\ o.prev = q.prev

SameLevel(o, q) == o.first = q.first /\ o.price = q.price /\ o.side = q.side

(* A list of orders that nothing touches.                                  *)
LEMMA QueueFrame ==
    ASSUME NEW b, NEW b2, NEW l, NEW list, QueueOf(b, l, list),
           DOMAIN b2.orders = DOMAIN b.orders, SameLevel(b2.levels[l], b.levels[l]),
           \A i \in 1 .. Len(list) : /\ list[i] \in InUse(b2.order_pool)
                                     /\ SameOrder(b2.orders[list[i]], b.orders[list[i]])
                                     /\ SameLinks(b2.orders[list[i]], b.orders[list[i]])
    PROVE  QueueOf(b2, l, list)
<1>1. IsRing(b.orders, b.levels[l].first, list)
  BY DEF QueueOf
<1>2. IsRing(b2.orders, b.levels[l].first, list)
  BY <1>1, RingFrame DEF SameLinks
<1> QED BY <1>2 DEF QueueOf, SameLevel, SameOrder

(* An order is in the list of one level.                                   *)
LEMMA QueuesDisjoint ==
    ASSUME NEW b, NEW Q, SlotInv(b), QueueInv(b, Q),
           NEW l \in InUse(b.level_pool), NEW m \in InUse(b.level_pool),
           NEW i \in 1 .. Len(Q[l]), NEW j \in 1 .. Len(Q[m]), Q[l][i] = Q[m][j]
    PROVE  l = m
<1>1. /\ b.orders[Q[l][i]].price = b.levels[l].price
      /\ b.orders[Q[m][j]].price = b.levels[m].price
  BY DEF QueueInv, QueueOf
<1>2. b.levels[l].price = b.levels[m].price
  BY <1>1
<1> QED BY <1>2, Zenon DEF SlotInv

(* A new order at the end of a list.                                       *)
LEMMA QueueAppend ==
    ASSUME NEW b, NEW Q, NEW b2, SlotInv(b), QueueInv(b, Q),
           DOMAIN b.orders = OrderBlocks, DOMAIN b2.orders = OrderBlocks,
           InUse(b.level_pool) \subseteq LevelBlocks,
           NEW l \in InUse(b.level_pool), NEW x \in OrderBlocks, x \notin InUse(b.order_pool),
           InUse(b2.level_pool) = InUse(b.level_pool),
           InUse(b2.order_pool) = InUse(b.order_pool) \cup {x},
           b2.levels = b.levels, NEW first, NEW last,
           first = b.levels[l].first, last = b.orders[first].prev,
           \A y \in OrderBlocks : y # x =>
              /\ SameOrder(b2.orders[y], b.orders[y])
              /\ b2.orders[y].next = IF y = last THEN x ELSE b.orders[y].next
              /\ b2.orders[y].prev = IF y = first THEN x ELSE b.orders[y].prev,
           b2.orders[x].next = first, b2.orders[x].prev = last,
           b2.orders[x].price = b.levels[l].price, b2.orders[x].side = b.levels[l].side,
           \A y \in InUse(b.order_pool) : b.orders[y].order_id < b2.orders[x].order_id
    PROVE  QueueInv(b2, [Q EXCEPT ![l] = Inserted(Q[l], Len(Q[l]) + 1, x)])
<1> DEFINE t == Inserted(Q[l], Len(Q[l]) + 1, x)
           P == [Q EXCEPT ![l] = t]
<1>1. l \in LevelBlocks /\ Q[l] \in Seq(OrderBlocks) /\ Q \in [LevelBlocks -> Seq(OrderBlocks)]
  BY DEF QueueInv, QueueOf
<1>2. PICK n \in Nat : n = Len(Q[l])
  BY <1>1
<1>3. IsRing(b.orders, first, Q[l]) /\ n > 0 /\ Q[l][1] = first
  BY <1>2 DEF QueueInv, QueueOf, IsRing
<1>4. last = Q[l][n]
  <2>1. b.orders[Q[l][1]].prev = Q[l][Pred(1, n)]
    BY <1>2, <1>3 DEF IsRing
  <2> QED BY <1>3, <2>1 DEF Pred
<1>5. /\ t \in Seq(OrderBlocks) /\ Len(t) = n + 1 /\ t[n + 1] = x
      /\ \A k \in 1 .. n : t[k] = Q[l][k]
  <2>1. Len(Q[l]) + 1 \in 1 .. Len(Q[l]) + 1
    BY <1>2
  <2>2. /\ t \in Seq(OrderBlocks) /\ Len(t) = Len(Q[l]) + 1
        /\ \A k \in 1 .. Len(Q[l]) + 1 :
             t[k] = IF k < Len(Q[l]) + 1 THEN Q[l][k]
                    ELSE IF k = Len(Q[l]) + 1 THEN x ELSE Q[l][k - 1]
    BY ONLY <1>1, <2>1, x \in OrderBlocks, InsertedIs
  <2> HIDE DEF t
  <2> QED BY <1>2, <2>2
<1>6. \A m \in InUse(b.level_pool) : \A i \in 1 .. Len(Q[m]) : Q[m][i] \in OrderBlocks /\ Q[m][i] # x
  <2>1. \A m \in InUse(b.level_pool) : Q[m] \in Seq(OrderBlocks)
    BY <1>1
  <2> QED BY <2>1 DEF QueueInv, QueueOf
<1>7. IsRing(b2.orders, first, t)
  <2>1. \A i \in 1 .. n :
           /\ b2.orders[Q[l][i]].next = IF Q[l][i] = last THEN x ELSE b.orders[Q[l][i]].next
           /\ b2.orders[Q[l][i]].prev = IF Q[l][i] = first THEN x ELSE b.orders[Q[l][i]].prev
    BY <1>2, <1>6
  <2>2. \A i \in 1 .. n : Q[l][i] # x
    BY <1>2, <1>6
  <2>3. /\ last = Q[l][IF n + 1 = 1 THEN n ELSE (n + 1) - 1]
        /\ first = Q[l][IF n + 1 = n + 1 THEN 1 ELSE n + 1]
    BY <1>3, <1>4
  <2>4. t[1] = first /\ n + 1 \in 1 .. n + 1
    BY <1>3, <1>5
  <2>5. IsRing(b2.orders, t[1], t)
    <3> HIDE DEF t
    <3>1. t = Inserted(Q[l], n + 1, x)
      BY <1>2 DEF t
    <3>2. PICK list, p : list = Q[l] /\ p = n + 1
      OBVIOUS
    <3>3. /\ IsRing(b.orders, first, list) /\ x \in DOMAIN b.orders
          /\ DOMAIN b2.orders = DOMAIN b.orders
          /\ b2.orders[x].prev = last /\ b2.orders[x].next = first
      BY <1>3, <3>2
    <3>4. /\ \A i \in 1 .. Len(list) : list[i] # x
          /\ p \in 1 .. Len(list) + 1
          /\ last = list[IF p = 1 THEN Len(list) ELSE p - 1]
          /\ first = list[IF p = Len(list) + 1 THEN 1 ELSE p]
          /\ \A i \in 1 .. Len(list) :
                /\ b2.orders[list[i]].next = IF list[i] = last THEN x ELSE b.orders[list[i]].next
                /\ b2.orders[list[i]].prev = IF list[i] = first THEN x ELSE b.orders[list[i]].prev
      BY <1>2, <2>1, <2>2, <2>3, <2>4, <3>2
    <3>5. LinkedIn(b.orders, first, list, x, p, last, first, b2.orders)
      BY <3>3, <3>4 DEF LinkedIn
    <3>6. IsRing(b2.orders, Inserted(list, p, x)[1], Inserted(list, p, x))
      BY <3>5, RingInsert, Zenon
    <3> QED BY <3>1, <3>2, <3>6
  <2> QED BY <2>4, <2>5
<1> HIDE DEF t
<1>8. P \in [LevelBlocks -> Seq(OrderBlocks)] /\ P[l] = t /\ \A m \in LevelBlocks : m # l => P[m] = Q[m]
  BY <1>1, <1>5
<1> HIDE DEF P
<1>9. ASSUME NEW m \in InUse(b2.level_pool)
      PROVE  QueueOf(b2, m, P[m])
  <2>1. CASE m = l
    <3>1. IsRing(b2.orders, b2.levels[m].first, P[m])
      BY <1>7, <1>8, <2>1
    <3>2. \A i \in 1 .. n : /\ t[i] \in InUse(b.order_pool) /\ t[i] # x /\ t[i] \in OrderBlocks
                            /\ b.orders[t[i]].price = b.levels[l].price
                            /\ b.orders[t[i]].side = b.levels[l].side
                            /\ b2.orders[t[i]].price = b.levels[l].price
                            /\ b2.orders[t[i]].side = b.levels[l].side
                            /\ b2.orders[t[i]].order_id = b.orders[t[i]].order_id
      <4> TAKE i \in 1 .. n
      <4>1. t[i] = Q[l][i] /\ i \in 1 .. Len(Q[l])
        BY <1>2, <1>5
      <4>2. t[i] \in OrderBlocks /\ t[i] # x
        BY <1>6, <4>1
      <4>3. /\ t[i] \in InUse(b.order_pool) /\ b.orders[t[i]].price = b.levels[l].price
            /\ b.orders[t[i]].side = b.levels[l].side
        BY <4>1 DEF QueueInv, QueueOf
      <4>4. SameOrder(b2.orders[t[i]], b.orders[t[i]])
        BY <4>2
      <4> QED BY <4>2, <4>3, <4>4 DEF SameOrder
    <3>3. \A i \in 1 .. n + 1 : /\ t[i] \in InUse(b2.order_pool)
                                /\ b2.orders[t[i]].price = b2.levels[m].price
                                /\ b2.orders[t[i]].side = b2.levels[m].side
      <4> TAKE i \in 1 .. n + 1
      <4>1. CASE i = n + 1
        BY <1>5, <2>1, <4>1
      <4>2. CASE i # n + 1
        <5>1. i \in 1 .. n
          BY <4>2
        <5> QED BY <2>1, <3>2, <5>1
      <4> QED BY <4>1, <4>2
    <3>4. \A i, j \in 1 .. n + 1 : i < j => b2.orders[t[i]].order_id < b2.orders[t[j]].order_id
      <4> SUFFICES ASSUME NEW i \in 1 .. n + 1, NEW j \in 1 .. n + 1, i < j
                   PROVE  b2.orders[t[i]].order_id < b2.orders[t[j]].order_id
        OBVIOUS
      <4>1. i \in 1 .. n
        OBVIOUS
      <4>2. CASE j = n + 1
        BY <1>5, <3>2, <4>1, <4>2
      <4>3. CASE j # n + 1
        <5>1. j \in 1 .. n
          BY <4>3
        <5>2. b.orders[Q[l][i]].order_id < b.orders[Q[l][j]].order_id
          BY <1>2, <4>1, <5>1 DEF QueueInv, QueueOf
        <5> QED BY <1>5, <3>2, <4>1, <5>1, <5>2
      <4> QED BY <4>2, <4>3
    <3> QED BY <1>5, <1>8, <2>1, <3>1, <3>3, <3>4 DEF QueueOf
  <2>2. CASE m # l
    <3>1. P[m] = Q[m] /\ m \in InUse(b.level_pool) /\ m \in LevelBlocks
      BY <1>8, <2>2
    <3>2. QueueOf(b, m, Q[m])
      BY <3>1 DEF QueueInv
    <3>3. \A i \in 1 .. Len(Q[m]) : /\ Q[m][i] \in OrderBlocks /\ Q[m][i] # x
                                    /\ Q[m][i] # last /\ Q[m][i] # first
      <4> SUFFICES ASSUME NEW i \in 1 .. Len(Q[m]), Q[m][i] = last \/ Q[m][i] = first PROVE FALSE
        BY <1>6, <3>1
      <4>1. PICK j \in 1 .. Len(Q[l]) : Q[l][j] = Q[m][i]
        BY <1>2, <1>3, <1>4
      <4>2. l = m
        BY <3>1, <4>1, QueuesDisjoint
      <4> QED BY <2>2, <4>2
    <3>4. \A i \in 1 .. Len(Q[m]) : /\ SameOrder(b2.orders[Q[m][i]], b.orders[Q[m][i]])
                                    /\ SameLinks(b2.orders[Q[m][i]], b.orders[Q[m][i]])
      BY <3>3 DEF SameLinks
    <3>5. \A i \in 1 .. Len(Q[m]) : Q[m][i] \in InUse(b2.order_pool)
      BY <3>2 DEF QueueOf
    <3>6. QueueOf(b2, m, Q[m])
      BY <3>2, <3>4, <3>5, QueueFrame DEF SameLevel
    <3> QED BY <3>1, <3>6
  <2> QED BY <2>1, <2>2
<1>10. ASSUME NEW y \in InUse(b2.order_pool)
       PROVE  \E m \in InUse(b2.level_pool) : \E i \in 1 .. Len(P[m]) : P[m][i] = y
  <2>1. CASE y = x
    <3>1. n + 1 \in 1 .. Len(P[l]) /\ P[l][n + 1] = x
      BY <1>5, <1>8
    <3> QED BY <2>1, <3>1
  <2>2. CASE y # x
    <3>0. PICK m \in InUse(b.level_pool) : \E i \in 1 .. Len(Q[m]) : Q[m][i] = y
      BY <2>2 DEF QueueInv, QueueOf
    <3>1. PICK i \in 1 .. Len(Q[m]) : Q[m][i] = y
      BY <3>0
    <3>2. i \in 1 .. Len(P[m]) /\ P[m][i] = Q[m][i]
      <4>1. CASE m = l
        BY <1>2, <1>5, <1>8, <3>1, <4>1
      <4>2. CASE m # l
        BY <1>8, <3>1, <4>2
      <4> QED BY <4>1, <4>2
    <3> QED BY <3>1, <3>2
  <2> QED BY <2>1, <2>2
<1> QED BY <1>8, <1>9, <1>10 DEF QueueInv, P, t

(* A new level with one order.                                             *)
LEMMA QueueNew ==
    ASSUME NEW b, NEW Q, NEW b2, QueueInv(b, Q),
           DOMAIN b.orders = OrderBlocks, DOMAIN b2.orders = OrderBlocks,
           InUse(b.level_pool) \subseteq LevelBlocks,
           NEW l \in LevelBlocks, l \notin InUse(b.level_pool),
           NEW x \in OrderBlocks, x \notin InUse(b.order_pool),
           InUse(b2.level_pool) = InUse(b.level_pool) \cup {l},
           InUse(b2.order_pool) = InUse(b.order_pool) \cup {x},
           \A m \in InUse(b.level_pool) : SameLevel(b2.levels[m], b.levels[m]),
           \A y \in OrderBlocks : y # x => b2.orders[y] = b.orders[y],
           b2.levels[l].first = x, b2.orders[x].next = x, b2.orders[x].prev = x,
           b2.orders[x].price = b2.levels[l].price, b2.orders[x].side = b2.levels[l].side
    PROVE  QueueInv(b2, [Q EXCEPT ![l] = <<x>>])
<1> DEFINE P == [Q EXCEPT ![l] = <<x>>]
<1>1. /\ P \in [LevelBlocks -> Seq(OrderBlocks)] /\ P[l] = <<x>>
      /\ \A m \in LevelBlocks : m # l => P[m] = Q[m]
  BY DEF QueueInv
<1> HIDE DEF P
<1>2. ASSUME NEW m \in InUse(b2.level_pool) PROVE QueueOf(b2, m, P[m])
  <2>1. CASE m = l
    <3>1. IsRing(b2.orders, x, <<x>>)
      BY RingOfOne
    <3>2. Len(<<x>>) = 1 /\ <<x>>[1] = x
      OBVIOUS
    <3>3. \A i \in 1 .. Len(<<x>>) : i = 1
      OBVIOUS
    <3>4. QueueOf(b2, l, <<x>>)
      BY <3>1, <3>2, <3>3 DEF QueueOf
    <3> QED BY <1>1, <2>1, <3>4
  <2>2. CASE m # l
    <3>1. m \in InUse(b.level_pool) /\ P[m] = Q[m] /\ Q[m] \in Seq(OrderBlocks)
      BY <1>1, <2>2 DEF QueueInv
    <3>2. QueueOf(b, m, Q[m])
      BY <3>1 DEF QueueInv
    <3>3. \A i \in 1 .. Len(Q[m]) :
             Q[m][i] \in InUse(b.order_pool) /\ Q[m][i] \in OrderBlocks /\ Q[m][i] # x
      BY <3>1, <3>2 DEF QueueOf
    <3>4. \A i \in 1 .. Len(Q[m]) : /\ Q[m][i] \in InUse(b2.order_pool)
                                    /\ SameOrder(b2.orders[Q[m][i]], b.orders[Q[m][i]])
                                    /\ SameLinks(b2.orders[Q[m][i]], b.orders[Q[m][i]])
      BY <3>3 DEF SameOrder, SameLinks
    <3>5. QueueOf(b2, m, Q[m])
      BY <3>1, <3>2, <3>4, QueueFrame
    <3> QED BY <3>1, <3>5
  <2> QED BY <2>1, <2>2
<1>3. ASSUME NEW y \in InUse(b2.order_pool)
      PROVE  \E m \in InUse(b2.level_pool) : \E i \in 1 .. Len(P[m]) : P[m][i] = y
  <2>1. CASE y = x
    <3>1. 1 \in 1 .. Len(P[l]) /\ P[l][1] = x
      BY <1>1
    <3> QED BY <2>1, <3>1
  <2>2. CASE y # x
    <3>1. PICK m \in InUse(b.level_pool) : \E i \in 1 .. Len(Q[m]) : Q[m][i] = y
      BY <2>2 DEF QueueInv
    <3>2. P[m] = Q[m] /\ m \in InUse(b2.level_pool)
      BY <1>1
    <3> QED BY <3>1, <3>2
  <2> QED BY <2>1, <2>2
<1> QED BY <1>1, <1>2, <1>3 DEF QueueInv, P

(* The last order of a level goes, and the level with it.                  *)
LEMMA QueueDrop ==
    ASSUME NEW b, NEW Q, NEW b2, SlotInv(b), QueueInv(b, Q),
           DOMAIN b.orders = OrderBlocks, DOMAIN b2.orders = OrderBlocks,
           InUse(b.level_pool) \subseteq LevelBlocks,
           NEW l \in InUse(b.level_pool), NEW x, Len(Q[l]) = 1, Q[l][1] = x,
           InUse(b2.level_pool) = InUse(b.level_pool) \ {l},
           InUse(b2.order_pool) = InUse(b.order_pool) \ {x},
           \A m \in InUse(b2.level_pool) : SameLevel(b2.levels[m], b.levels[m]),
           \A y \in OrderBlocks : y # x => b2.orders[y] = b.orders[y]
    PROVE  QueueInv(b2, Q)
<1>1. \A m \in InUse(b2.level_pool) : \A i \in 1 .. Len(Q[m]) : Q[m][i] # x
  <2> SUFFICES ASSUME NEW m \in InUse(b2.level_pool), NEW i \in 1 .. Len(Q[m]), Q[m][i] = x
               PROVE  FALSE
    OBVIOUS
  <2>1. 1 \in 1 .. Len(Q[l]) /\ Q[l][1] = Q[m][i] /\ m # l /\ m \in InUse(b.level_pool)
    OBVIOUS
  <2>2. l = m
    BY <2>1, QueuesDisjoint
  <2> QED BY <2>1, <2>2
<1>2. ASSUME NEW m \in InUse(b2.level_pool) PROVE QueueOf(b2, m, Q[m])
  <2>1. Q[m] \in Seq(OrderBlocks) /\ QueueOf(b, m, Q[m])
    BY DEF QueueInv
  <2>2. \A i \in 1 .. Len(Q[m]) :
           Q[m][i] \in InUse(b.order_pool) /\ Q[m][i] \in OrderBlocks /\ Q[m][i] # x
    BY <1>1, <2>1 DEF QueueOf
  <2>3. \A i \in 1 .. Len(Q[m]) : /\ Q[m][i] \in InUse(b2.order_pool)
                                  /\ SameOrder(b2.orders[Q[m][i]], b.orders[Q[m][i]])
                                  /\ SameLinks(b2.orders[Q[m][i]], b.orders[Q[m][i]])
    BY <2>2 DEF SameOrder, SameLinks
  <2> QED BY <2>1, <2>3, QueueFrame
<1>3. ASSUME NEW y \in InUse(b2.order_pool)
      PROVE  \E m \in InUse(b2.level_pool) : \E i \in 1 .. Len(Q[m]) : Q[m][i] = y
  <2>1. PICK m \in InUse(b.level_pool) : \E i \in 1 .. Len(Q[m]) : Q[m][i] = y
    BY DEF QueueInv
  <2>2. m # l
    <3> SUFFICES ASSUME m = l PROVE FALSE
      OBVIOUS
    <3>1. PICK i \in 1 .. 1 : Q[l][i] = y
      BY <2>1
    <3>2. y = x
      BY <3>1
    <3> QED BY <3>2
  <2> QED BY <2>1, <2>2
<1> QED BY <1>2, <1>3 DEF QueueInv


\* An order of several at its price is taken out.
OrderOut(b, Q, b2, l, p, x, before, after) ==
    /\ SlotInv(b) /\ QueueInv(b, Q)
    /\ DOMAIN b.orders = OrderBlocks /\ DOMAIN b2.orders = OrderBlocks
    /\ InUse(b.level_pool) \subseteq LevelBlocks
    /\ l \in InUse(b.level_pool) /\ p \in 1 .. Len(Q[l]) /\ Q[l][p] = x /\ Len(Q[l]) > 1
    /\ InUse(b2.level_pool) = InUse(b.level_pool)
    /\ InUse(b2.order_pool) = InUse(b.order_pool) \ {x}
    /\ before = b.orders[x].prev /\ after = b.orders[x].next
    /\ \A m \in InUse(b.level_pool) : m # l => SameLevel(b2.levels[m], b.levels[m])
    /\ b2.levels[l].price = b.levels[l].price /\ b2.levels[l].side = b.levels[l].side
    /\ b2.levels[l].first = IF b.levels[l].first = x THEN after ELSE b.levels[l].first
    /\ \A y \in OrderBlocks : y # x =>
          /\ SameOrder(b2.orders[y], b.orders[y])
          /\ b2.orders[y].next = IF y = before THEN after ELSE b.orders[y].next
          /\ b2.orders[y].prev = IF y = after THEN before ELSE b.orders[y].prev

(* The others of its queue stay in their order.                            *)
LEMMA QueueRemove ==
    ASSUME NEW b, NEW Q, NEW b2, NEW l, NEW p, NEW x, NEW before, NEW after,
           OrderOut(b, Q, b2, l, p, x, before, after)
    PROVE  QueueInv(b2, [Q EXCEPT ![l] = Removed(Q[l], p)])
<1> SUFFICES ASSUME
           SlotInv(b), QueueInv(b, Q),
           DOMAIN b.orders = OrderBlocks, DOMAIN b2.orders = OrderBlocks,
           InUse(b.level_pool) \subseteq LevelBlocks,
           l \in InUse(b.level_pool), p \in 1 .. Len(Q[l]), Q[l][p] = x, Len(Q[l]) > 1,
           InUse(b2.level_pool) = InUse(b.level_pool),
           InUse(b2.order_pool) = InUse(b.order_pool) \ {x},
           before = b.orders[x].prev, after = b.orders[x].next,
           \A m \in InUse(b.level_pool) : m # l => SameLevel(b2.levels[m], b.levels[m]),
           b2.levels[l].price = b.levels[l].price, b2.levels[l].side = b.levels[l].side,
           b2.levels[l].first = IF b.levels[l].first = x THEN after ELSE b.levels[l].first,
           \A y \in OrderBlocks : y # x =>
              /\ SameOrder(b2.orders[y], b.orders[y])
              /\ b2.orders[y].next = IF y = before THEN after ELSE b.orders[y].next
              /\ b2.orders[y].prev = IF y = after THEN before ELSE b.orders[y].prev
           PROVE QueueInv(b2, [Q EXCEPT ![l] = Removed(Q[l], p)])
  BY Zenon DEF OrderOut
<1> DEFINE t == Removed(Q[l], p)
           P == [Q EXCEPT ![l] = t]
<1>1. l \in LevelBlocks /\ Q[l] \in Seq(OrderBlocks) /\ Q \in [LevelBlocks -> Seq(OrderBlocks)]
  BY DEF QueueInv
<1>2. PICK n \in Nat : n = Len(Q[l])
  BY <1>1
<1>3. /\ IsRing(b.orders, b.levels[l].first, Q[l]) /\ n > 1 /\ p \in 1 .. n
      /\ Q[l][1] = b.levels[l].first
      /\ \A i, j \in 1 .. n : Q[l][i] = Q[l][j] => i = j
      /\ \A i \in 1 .. n : Q[l][i] \in OrderBlocks
  <2>1. QueueOf(b, l, Q[l])
    BY DEF QueueInv
  <2>2. IsRing(b.orders, b.levels[l].first, Q[l])
    BY <2>1 DEF QueueOf
  <2> QED BY <1>1, <1>2, <2>2 DEF IsRing
<1>4. before = Q[l][Pred(p, n)] /\ after = Q[l][Succ(p, n)]
  BY <1>2, <1>3 DEF IsRing
<1>5. /\ t \in Seq(OrderBlocks) /\ Len(t) = n - 1
      /\ \A k \in 1 .. n - 1 : t[k] = IF k < p THEN Q[l][k] ELSE Q[l][k + 1]
  <2>1. p \in 1 .. Len(Q[l])
    OBVIOUS
  <2>2. /\ t \in Seq(OrderBlocks) /\ Len(t) = Len(Q[l]) - 1
        /\ \A k \in 1 .. Len(Q[l]) - 1 : t[k] = IF k < p THEN Q[l][k] ELSE Q[l][k + 1]
    BY ONLY <1>1, <2>1, RemovedIs
  <2> HIDE DEF t
  <2> QED BY <1>2, <2>2
<1>6. IsRing(b2.orders, t[1], t)
  <2>1. PICK list : list = Q[l]
    OBVIOUS
  <2>2. \A i \in 1 .. n : i # p => list[i] \in OrderBlocks /\ list[i] # x
    BY <1>3, <2>1
  <2>3. \A i \in 1 .. n : i # p =>
           /\ b2.orders[list[i]].next = IF list[i] = before THEN after ELSE b.orders[list[i]].next
           /\ b2.orders[list[i]].prev = IF list[i] = after THEN before ELSE b.orders[list[i]].prev
    BY <2>2
  <2>4. LinkedOut(b.orders, b.levels[l].first, list, p, before, after, b2.orders)
    BY <1>2, <1>3, <1>4, <2>1, <2>3 DEF LinkedOut
  <2>5. IsRing(b2.orders, Removed(list, p)[1], Removed(list, p))
    BY <2>4, RingRemove, Zenon
  <2> QED BY <2>1, <2>5
<1> HIDE DEF t
<1>7. t[1] = b2.levels[l].first
  <2>1. CASE p = 1
    <3>1. t[1] = Q[l][2] /\ after = Q[l][2]
      BY <1>3, <1>4, <1>5, <2>1 DEF Succ
    <3> QED BY <1>3, <2>1, <3>1
  <2>2. CASE p # 1
    <3>1. t[1] = Q[l][1] /\ Q[l][1] # x
      BY <1>3, <1>5, <2>2
    <3> QED BY <1>3, <3>1
  <2> QED BY <2>1, <2>2
<1>8. /\ P \in [LevelBlocks -> Seq(OrderBlocks)] /\ P[l] = t
      /\ \A m \in LevelBlocks : m # l => P[m] = Q[m]
  BY <1>1, <1>5
<1> HIDE DEF P
\* Where the k-th order that is left was.
<1>9. ASSUME NEW k \in 1 .. n - 1
      PROVE  \E i \in 1 .. n : i = (IF k < p THEN k ELSE k + 1) /\ t[k] = Q[l][i] /\ t[k] # x
  <2>1. (IF k < p THEN k ELSE k + 1) \in 1 .. n /\ (IF k < p THEN k ELSE k + 1) # p
    BY <1>3
  <2>2. t[k] = Q[l][IF k < p THEN k ELSE k + 1]
    BY <1>5
  <2>3. t[k] # x
    BY <1>3, <2>1, <2>2
  <2> QED BY <2>1, <2>2, <2>3
<1>10. \A m \in InUse(b.level_pool) : m # l =>
         \A i \in 1 .. Len(Q[m]) : Q[m][i] # x /\ Q[m][i] # before /\ Q[m][i] # after
  <2> SUFFICES ASSUME NEW m \in InUse(b.level_pool), m # l, NEW i \in 1 .. Len(Q[m]),
                      Q[m][i] = x \/ Q[m][i] = before \/ Q[m][i] = after
               PROVE  FALSE
    OBVIOUS
  <2>1. Pred(p, n) \in 1 .. n /\ Succ(p, n) \in 1 .. n
    BY <1>3 DEF Pred, Succ
  <2>2. PICK j \in 1 .. Len(Q[l]) : Q[l][j] = Q[m][i]
    BY <1>2, <1>3, <1>4, <2>1
  <2>3. l = m
    BY <2>2, QueuesDisjoint
  <2> QED BY <2>3
<1>11. ASSUME NEW m \in InUse(b2.level_pool) PROVE QueueOf(b2, m, P[m])
  <2>1. CASE m = l
    <3>1. IsRing(b2.orders, b2.levels[l].first, t)
      BY <1>6, <1>7
    <3>2. \A k \in 1 .. n - 1 : /\ t[k] \in InUse(b2.order_pool)
                                /\ b2.orders[t[k]].price = b2.levels[l].price
                                /\ b2.orders[t[k]].side = b2.levels[l].side
                                /\ b2.orders[t[k]].order_id = b.orders[t[k]].order_id
      <4> TAKE k \in 1 .. n - 1
      <4>1. PICK i \in 1 .. n : t[k] = Q[l][i] /\ t[k] # x
        BY <1>9
      <4>2. /\ Q[l][i] \in InUse(b.order_pool) /\ b.orders[Q[l][i]].price = b.levels[l].price
            /\ b.orders[Q[l][i]].side = b.levels[l].side /\ Q[l][i] \in OrderBlocks
        BY <1>2, <1>3 DEF QueueInv, QueueOf
      <4>3. SameOrder(b2.orders[t[k]], b.orders[t[k]])
        BY <4>1, <4>2
      <4> QED BY <4>1, <4>2, <4>3 DEF SameOrder
    <3>3. \A j, k \in 1 .. n - 1 : j < k => b2.orders[t[j]].order_id < b2.orders[t[k]].order_id
      <4> SUFFICES ASSUME NEW j \in 1 .. n - 1, NEW k \in 1 .. n - 1, j < k
                   PROVE  b2.orders[t[j]].order_id < b2.orders[t[k]].order_id
        OBVIOUS
      <4>1. PICK g \in 1 .. n : g = (IF j < p THEN j ELSE j + 1) /\ t[j] = Q[l][g]
        BY <1>9
      <4>2. PICK h \in 1 .. n : h = (IF k < p THEN k ELSE k + 1) /\ t[k] = Q[l][h]
        BY <1>9
      <4>3. g < h
        BY <1>3, <4>1, <4>2
      <4>4. b.orders[Q[l][g]].order_id < b.orders[Q[l][h]].order_id
        BY <1>2, <4>3 DEF QueueInv, QueueOf
      <4>5. /\ b2.orders[t[j]].order_id = b.orders[t[j]].order_id
            /\ b2.orders[t[k]].order_id = b.orders[t[k]].order_id
        BY <3>2
      <4> QED BY ONLY <4>1, <4>2, <4>4, <4>5
    <3> QED BY <1>5, <1>8, <2>1, <3>1, <3>2, <3>3 DEF QueueOf
  <2>2. CASE m # l
    <3>1. P[m] = Q[m] /\ m \in InUse(b.level_pool) /\ Q[m] \in Seq(OrderBlocks)
      BY <1>1, <1>8, <2>2
    <3>2. QueueOf(b, m, Q[m])
      BY <3>1 DEF QueueInv
    <3>3. \A i \in 1 .. Len(Q[m]) :
             Q[m][i] \in InUse(b.order_pool) /\ Q[m][i] \in OrderBlocks /\ Q[m][i] # x
      BY <1>10, <2>2, <3>1, <3>2 DEF QueueOf
    <3>4. \A i \in 1 .. Len(Q[m]) : /\ Q[m][i] \in InUse(b2.order_pool)
                                    /\ SameOrder(b2.orders[Q[m][i]], b.orders[Q[m][i]])
                                    /\ SameLinks(b2.orders[Q[m][i]], b.orders[Q[m][i]])
      BY <1>10, <2>2, <3>1, <3>3 DEF SameLinks
    <3>5. QueueOf(b2, m, Q[m])
      BY <2>2, <3>1, <3>2, <3>4, QueueFrame
    <3> QED BY <3>1, <3>5
  <2> QED BY <2>1, <2>2
<1>12. ASSUME NEW y \in InUse(b2.order_pool)
       PROVE  \E m \in InUse(b2.level_pool) : \E i \in 1 .. Len(P[m]) : P[m][i] = y
  <2>1. PICK m \in InUse(b.level_pool) : \E i \in 1 .. Len(Q[m]) : Q[m][i] = y
    BY DEF QueueInv
  <2>2. CASE m = l
    <3>1. PICK i \in 1 .. n : Q[l][i] = y
      BY <1>2, <2>1, <2>2
    <3>2. i # p
      BY <3>1
    <3>3. \E k \in 1 .. n - 1 : t[k] = y
      <4>1. CASE i < p
        <5>1. i \in 1 .. n - 1 /\ t[i] = Q[l][i]
          BY <1>3, <1>5, <4>1
        <5> QED BY <3>1, <5>1
      <4>2. CASE i > p
        <5>1. i - 1 \in 1 .. n - 1 /\ t[i - 1] = Q[l][i]
          BY <1>3, <1>5, <4>2
        <5> QED BY <3>1, <5>1
      <4> QED BY <1>3, <3>2, <4>1, <4>2
    <3> QED BY <1>5, <1>8, <3>3
  <2>3. CASE m # l
    <3>1. P[m] = Q[m]
      BY <1>8, <2>3
    <3> QED BY <2>1, <3>1
  <2> QED BY <2>2, <2>3
<1> QED BY <1>8, <1>11, <1>12 DEF QueueInv, P, t

SameRank(o, q) == o.side = q.side /\ o.price = q.price

(* A chain of levels that nothing touches.                                 *)
LEMMA ChainOfFrame ==
    ASSUME NEW b, NEW b2, NEW side, NEW list, ChainOf(b, side, list),
           DOMAIN b2.levels = DOMAIN b.levels, b2.by_price[side] = b.by_price[side],
           \A i \in 1 .. Len(list) : /\ list[i] \in InUse(b2.level_pool)
                                     /\ SameRank(b2.levels[list[i]], b.levels[list[i]])
                                     /\ SameLinks(b2.levels[list[i]], b.levels[list[i]])
    PROVE  ChainOf(b2, side, list)
<1>1. ASSUME list # <<>> PROVE IsRing(b2.levels, b2.by_price[side], list)
  <2>1. IsRing(b.levels, b.by_price[side], list)
    BY <1>1 DEF ChainOf
  <2> QED BY <2>1, RingFrame DEF SameLinks
<1> QED BY <1>1 DEF ChainOf, SameRank

(* The chains stay when nothing they depend on changes.                    *)
LEMMA ChainFrame ==
    ASSUME NEW b, NEW b2, NEW C, ChainInv(b, C),
           DOMAIN b2.levels = DOMAIN b.levels, b2.by_price = b.by_price,
           InUse(b2.level_pool) = InUse(b.level_pool),
           \A l \in InUse(b.level_pool) : /\ SameRank(b2.levels[l], b.levels[l])
                                          /\ SameLinks(b2.levels[l], b.levels[l])
    PROVE  ChainInv(b2, C)
<1>1. ASSUME NEW side \in Sides PROVE ChainOf(b2, side, C[side])
  <2>1. ChainOf(b, side, C[side])
    BY DEF ChainInv
  <2>2. \A i \in 1 .. Len(C[side]) : C[side][i] \in InUse(b.level_pool)
    BY <2>1 DEF ChainOf
  <2> QED BY <2>1, <2>2, ChainOfFrame
<1> QED BY <1>1 DEF ChainInv, SameRank

(* The levels of the chain are of its side, so the other chain lacks them. *)
LEMMA ChainsDisjoint ==
    ASSUME NEW b, NEW C, ChainInv(b, C), NEW l \in InUse(b.level_pool),
           NEW side \in Sides, side # b.levels[l].side, NEW i \in 1 .. Len(C[side])
    PROVE  C[side][i] # l
BY DEF ChainInv, ChainOf

(* The first level of a side.                                              *)
LEMMA ChainNew ==
    ASSUME NEW b, NEW C, NEW b2, ChainInv(b, C), NEW side \in Sides, NEW l \in LevelBlocks,
           DOMAIN b.levels = LevelBlocks, DOMAIN b2.levels = LevelBlocks,
           l \notin InUse(b.level_pool), C[side] = <<>>,
           InUse(b2.level_pool) = InUse(b.level_pool) \cup {l},
           b2.by_price[side] = l, \A s \in Sides : s # side => b2.by_price[s] = b.by_price[s],
           b2.levels[l].side = side, b2.levels[l].next = l, b2.levels[l].prev = l,
           \A m \in InUse(b.level_pool) : /\ SameRank(b2.levels[m], b.levels[m])
                                          /\ SameLinks(b2.levels[m], b.levels[m])
    PROVE  ChainInv(b2, [C EXCEPT ![side] = <<l>>])
<1> DEFINE P == [C EXCEPT ![side] = <<l>>]
<1>1. P \in [Sides -> Seq(LevelBlocks)] /\ P[side] = <<l>> /\ \A s \in Sides : s # side => P[s] = C[s]
  BY DEF ChainInv
<1> HIDE DEF P
<1>2. ASSUME NEW s \in Sides PROVE ChainOf(b2, s, P[s])
  <2>1. CASE s = side
    <3>1. IsRing(b2.levels, l, <<l>>)
      BY RingOfOne
    <3>2. Len(<<l>>) = 1 /\ <<l>>[1] = l /\ \A i \in 1 .. Len(<<l>>) : i = 1
      OBVIOUS
    <3>3. <<l>> # <<>>
      OBVIOUS
    <3>4. ChainOf(b2, side, <<l>>)
      BY <3>1, <3>2, <3>3 DEF ChainOf
    <3> QED BY <1>1, <2>1, <3>4
  <2>2. CASE s # side
    <3>1. ChainOf(b, s, C[s]) /\ P[s] = C[s]
      BY <1>1, <2>2 DEF ChainInv
    <3>2. \A i \in 1 .. Len(C[s]) : C[s][i] \in InUse(b.level_pool)
      BY <3>1 DEF ChainOf
    <3>3. \A i \in 1 .. Len(C[s]) : /\ C[s][i] \in InUse(b2.level_pool)
                                    /\ SameRank(b2.levels[C[s][i]], b.levels[C[s][i]])
                                    /\ SameLinks(b2.levels[C[s][i]], b.levels[C[s][i]])
      BY <3>2
    <3>4. b2.by_price[s] = b.by_price[s]
      BY <2>2
    <3>5. ChainOf(b2, s, C[s])
      BY <3>1, <3>3, <3>4, ChainOfFrame
    <3> QED BY <3>1, <3>5
  <2> QED BY <2>1, <2>2
<1>3. ASSUME NEW m \in InUse(b2.level_pool)
      PROVE  /\ b2.levels[m].side \in Sides
             /\ \E i \in 1 .. Len(P[b2.levels[m].side]) : P[b2.levels[m].side][i] = m
  <2>1. CASE m = l
    <3>1. 1 \in 1 .. Len(P[side]) /\ P[side][1] = l
      BY <1>1
    <3> QED BY <2>1, <3>1
  <2>2. CASE m # l
    <3>1. m \in InUse(b.level_pool) /\ b2.levels[m].side = b.levels[m].side
      BY <2>2 DEF SameRank
    <3>2. PICK s \in Sides : s = b.levels[m].side /\ \E i \in 1 .. Len(C[s]) : C[s][i] = m
      BY <3>1 DEF ChainInv
    <3>3. s # side
      <4> SUFFICES ASSUME s = side PROVE FALSE
        OBVIOUS
      <4>1. Len(C[s]) = 0
        OBVIOUS
      <4> QED BY <3>2, <4>1
    <3> QED BY <1>1, <3>1, <3>2, <3>3
  <2> QED BY <2>1, <2>2
<1> QED BY <1>1, <1>2, <1>3 DEF ChainInv, P

\* A level is linked in before the one at place p of its side, or at the end.
LevelIn(b, C, b2, side, l, p, before, after) ==
    /\ ChainInv(b, C) /\ side \in Sides /\ l \in LevelBlocks
    /\ DOMAIN b.levels = LevelBlocks /\ DOMAIN b2.levels = LevelBlocks
    /\ l \notin InUse(b.level_pool) /\ C[side] # <<>>
    /\ InUse(b2.level_pool) = InUse(b.level_pool) \cup {l}
    /\ p \in 1 .. Len(C[side]) + 1
    /\ before = C[side][IF p = 1 THEN Len(C[side]) ELSE p - 1]
    /\ after = C[side][IF p = Len(C[side]) + 1 THEN 1 ELSE p]
    /\ \A i \in 1 .. Len(C[side]) :
          IF i < p THEN Outranks(side, b.levels[C[side][i]].price, b2.levels[l].price)
                   ELSE Outranks(side, b2.levels[l].price, b.levels[C[side][i]].price)
    /\ b2.by_price[side] = IF p = 1 THEN l ELSE b.by_price[side]
    /\ \A s \in Sides : s # side => b2.by_price[s] = b.by_price[s]
    /\ b2.levels[l].side = side /\ b2.levels[l].next = after /\ b2.levels[l].prev = before
    /\ \A m \in LevelBlocks : m # l =>
          /\ SameRank(b2.levels[m], b.levels[m])
          /\ b2.levels[m].next = IF m = before THEN l ELSE b.levels[m].next
          /\ b2.levels[m].prev = IF m = after THEN l ELSE b.levels[m].prev

(* A level linked in at its place of the levels of its side.               *)
LEMMA ChainAdd ==
    ASSUME NEW b, NEW C, NEW b2, NEW side, NEW l, NEW p, NEW before, NEW after,
           LevelIn(b, C, b2, side, l, p, before, after)
    PROVE  ChainInv(b2, [C EXCEPT ![side] = Inserted(C[side], p, l)])
<1> SUFFICES ASSUME
           ChainInv(b, C), side \in Sides, l \in LevelBlocks,
           DOMAIN b.levels = LevelBlocks, DOMAIN b2.levels = LevelBlocks,
           l \notin InUse(b.level_pool), C[side] # <<>>,
           InUse(b2.level_pool) = InUse(b.level_pool) \cup {l},
           p \in 1 .. Len(C[side]) + 1,
           before = C[side][IF p = 1 THEN Len(C[side]) ELSE p - 1],
           after = C[side][IF p = Len(C[side]) + 1 THEN 1 ELSE p],
           \A i \in 1 .. Len(C[side]) :
              IF i < p THEN Outranks(side, b.levels[C[side][i]].price, b2.levels[l].price)
                       ELSE Outranks(side, b2.levels[l].price, b.levels[C[side][i]].price),
           b2.by_price[side] = IF p = 1 THEN l ELSE b.by_price[side],
           \A s \in Sides : s # side => b2.by_price[s] = b.by_price[s],
           b2.levels[l].side = side, b2.levels[l].next = after, b2.levels[l].prev = before,
           \A m \in LevelBlocks : m # l =>
              /\ SameRank(b2.levels[m], b.levels[m])
              /\ b2.levels[m].next = IF m = before THEN l ELSE b.levels[m].next
              /\ b2.levels[m].prev = IF m = after THEN l ELSE b.levels[m].prev
           PROVE ChainInv(b2, [C EXCEPT ![side] = Inserted(C[side], p, l)])
  BY Zenon DEF LevelIn
<1> DEFINE t == Inserted(C[side], p, l)
           P == [C EXCEPT ![side] = t]
<1>1. C \in [Sides -> Seq(LevelBlocks)] /\ C[side] \in Seq(LevelBlocks) /\ ChainOf(b, side, C[side])
  BY DEF ChainInv
<1>2. PICK n \in Nat : n = Len(C[side])
  BY <1>1
<1>3. /\ IsRing(b.levels, b.by_price[side], C[side]) /\ n > 0 /\ p \in 1 .. n + 1
      /\ C[side][1] = b.by_price[side]
      /\ \A i, j \in 1 .. n : C[side][i] = C[side][j] => i = j
      /\ \A i \in 1 .. n : C[side][i] \in LevelBlocks
  <2>1. IsRing(b.levels, b.by_price[side], C[side])
    BY <1>1 DEF ChainOf
  <2> QED BY <1>1, <1>2, <2>1 DEF IsRing
<1>4. \A i \in 1 .. n : C[side][i] # l /\ C[side][i] \in InUse(b.level_pool)
  BY <1>1, <1>2 DEF ChainOf
<1>5. /\ t \in Seq(LevelBlocks) /\ Len(t) = n + 1
      /\ \A k \in 1 .. n + 1 :
           t[k] = IF k < p THEN C[side][k] ELSE IF k = p THEN l ELSE C[side][k - 1]
  <2>1. p \in 1 .. Len(C[side]) + 1 /\ l \in LevelBlocks
    OBVIOUS
  <2>2. /\ t \in Seq(LevelBlocks) /\ Len(t) = Len(C[side]) + 1
        /\ \A k \in 1 .. Len(C[side]) + 1 :
             t[k] = IF k < p THEN C[side][k] ELSE IF k = p THEN l ELSE C[side][k - 1]
    <3>1. PICK u \in Seq(LevelBlocks) : u = C[side]
      BY <1>1
    <3>2. p \in 1 .. Len(u) + 1 /\ l \in LevelBlocks
      BY <2>1, <3>1
    <3>3. /\ Inserted(u, p, l) \in Seq(LevelBlocks) /\ Len(Inserted(u, p, l)) = Len(u) + 1
          /\ \A k \in 1 .. Len(u) + 1 : Inserted(u, p, l)[k]
                = IF k < p THEN u[k] ELSE IF k = p THEN l ELSE u[k - 1]
      <4>1. PICK q \in 1 .. Len(u) + 1 : q = p
        BY ONLY <3>2
      <4>2. PICK y \in LevelBlocks : y = l
        BY ONLY <3>2
      <4>3. /\ Inserted(u, q, y) \in Seq(LevelBlocks) /\ Len(Inserted(u, q, y)) = Len(u) + 1
            /\ \A k \in 1 .. Len(u) + 1 : Inserted(u, q, y)[k]
                = IF k < q THEN u[k] ELSE IF k = q THEN y ELSE u[k - 1]
        BY InsertedIs
      <4> QED BY ONLY <4>1, <4>2, <4>3
    <3> QED BY ONLY <3>1, <3>3
  <2> HIDE DEF t
  <2> QED BY <1>2, <2>2
<1>6. IsRing(b2.levels, t[1], t)
  <2>1. PICK list : list = C[side]
    OBVIOUS
  <2>2. \A i \in 1 .. Len(list) :
           /\ list[i] # l
           /\ b2.levels[list[i]].next = IF list[i] = before THEN l ELSE b.levels[list[i]].next
           /\ b2.levels[list[i]].prev = IF list[i] = after THEN l ELSE b.levels[list[i]].prev
    BY <1>2, <1>3, <1>4, <2>1
  <2>3. LinkedIn(b.levels, b.by_price[side], list, l, p, before, after, b2.levels)
    BY <1>3, <2>1, <2>2 DEF LinkedIn
  <2>4. IsRing(b2.levels, Inserted(list, p, l)[1], Inserted(list, p, l))
    BY <2>3, RingInsert, Zenon
  <2> QED BY <2>1, <2>4
<1> HIDE DEF t
<1>7. t[1] = b2.by_price[side]
  BY <1>3, <1>5
<1>8. P \in [Sides -> Seq(LevelBlocks)] /\ P[side] = t /\ \A s \in Sides : s # side => P[s] = C[s]
  BY <1>1, <1>5
<1> HIDE DEF P
<1>9. ASSUME NEW s \in Sides PROVE ChainOf(b2, s, P[s])
  <2>1. CASE s = side
    <3>1. IsRing(b2.levels, b2.by_price[side], t) /\ t # <<>>
      BY <1>5, <1>6, <1>7
    <3>2. \A k \in 1 .. n + 1 : k # p =>
             \E i \in 1 .. n : /\ i = (IF k < p THEN k ELSE k - 1) /\ t[k] = C[side][i]
                               /\ b2.levels[t[k]].price = b.levels[C[side][i]].price
                               /\ b2.levels[t[k]].side = side /\ t[k] \in InUse(b.level_pool)
      <4> SUFFICES ASSUME NEW k \in 1 .. n + 1, k # p
                   PROVE  \E i \in 1 .. n : /\ i = (IF k < p THEN k ELSE k - 1) /\ t[k] = C[side][i]
                               /\ b2.levels[t[k]].price = b.levels[C[side][i]].price
                               /\ b2.levels[t[k]].side = side /\ t[k] \in InUse(b.level_pool)
        OBVIOUS
      <4>1. PICK i \in 1 .. n : i = IF k < p THEN k ELSE k - 1
        BY ONLY <1>3, k \in 1 .. n + 1, k # p, n \in Nat
      <4>2. t[k] = C[side][i]
        BY <1>5, <4>1
      <4>3. C[side][i] \in InUse(b.level_pool) /\ b.levels[C[side][i]].side = side
        BY <1>1, <1>2 DEF ChainOf
      <4>4. SameRank(b2.levels[C[side][i]], b.levels[C[side][i]])
        BY <1>3, <1>4
      <4> QED BY <4>1, <4>2, <4>3, <4>4 DEF SameRank
    <3>3. t[p] = l
      BY <1>3, <1>5
    <3>4. \A k \in 1 .. n + 1 : t[k] \in InUse(b2.level_pool) /\ b2.levels[t[k]].side = side
      BY <3>2, <3>3
    <3>5. \A j, k \in 1 .. n + 1 :
             j < k => Outranks(side, b2.levels[t[j]].price, b2.levels[t[k]].price)
      <4> SUFFICES ASSUME NEW j \in 1 .. n + 1, NEW k \in 1 .. n + 1, j < k
                   PROVE  Outranks(side, b2.levels[t[j]].price, b2.levels[t[k]].price)
        OBVIOUS
      <4>1. CASE j = p
        <5>1. PICK i \in 1 .. n : i = k - 1 /\ b2.levels[t[k]].price = b.levels[C[side][i]].price
          BY <3>2, <4>1
        <5>2. ~(i < p)
          BY <4>1, <5>1
        <5> QED BY <1>2, <3>3, <4>1, <5>1, <5>2
      <4>2. CASE k = p
        <5>1. PICK i \in 1 .. n : i = j /\ b2.levels[t[j]].price = b.levels[C[side][i]].price
          BY <3>2, <4>2
        <5>2. i < p
          BY <4>2, <5>1
        <5> QED BY <1>2, <3>3, <4>2, <5>1, <5>2
      <4>3. CASE j # p /\ k # p
        <5>1. PICK g \in 1 .. n : /\ g = (IF j < p THEN j ELSE j - 1)
                                  /\ b2.levels[t[j]].price = b.levels[C[side][g]].price
          BY <3>2, <4>3
        <5>2. PICK h \in 1 .. n : /\ h = (IF k < p THEN k ELSE k - 1)
                                  /\ b2.levels[t[k]].price = b.levels[C[side][h]].price
          BY <3>2, <4>3
        <5>3. g < h
          BY <1>3, <4>3, <5>1, <5>2
        <5>4. Outranks(side, b.levels[C[side][g]].price, b.levels[C[side][h]].price)
          BY <1>1, <1>2, <5>3 DEF ChainOf
        <5> QED BY <5>1, <5>2, <5>4
      <4> QED BY <4>1, <4>2, <4>3
    <3> QED BY <1>5, <1>8, <2>1, <3>1, <3>4, <3>5 DEF ChainOf
  <2>2. CASE s # side
    <3>1. ChainOf(b, s, C[s]) /\ P[s] = C[s] /\ C[s] \in Seq(LevelBlocks)
      BY <1>1, <1>8, <2>2 DEF ChainInv
    <3>2. \A i \in 1 .. Len(C[s]) : /\ C[s][i] \in InUse(b.level_pool) /\ C[s][i] \in LevelBlocks
                                    /\ b.levels[C[s][i]].side = s
      BY <3>1 DEF ChainOf
    <3>3. b.levels[before].side = side /\ b.levels[after].side = side
      <4>1. \A i \in 1 .. n : b.levels[C[side][i]].side = side
        BY <1>1, <1>2 DEF ChainOf
      <4>2. /\ (IF p = 1 THEN Len(C[side]) ELSE p - 1) \in 1 .. n
            /\ (IF p = Len(C[side]) + 1 THEN 1 ELSE p) \in 1 .. n
        BY <1>2, <1>3
      <4> QED BY <4>1, <4>2
    <3>4. \A i \in 1 .. Len(C[s]) : C[s][i] # before /\ C[s][i] # after /\ C[s][i] # l
      BY <2>2, <3>2, <3>3
    <3>5. \A i \in 1 .. Len(C[s]) : /\ C[s][i] \in InUse(b2.level_pool)
                                    /\ SameRank(b2.levels[C[s][i]], b.levels[C[s][i]])
                                    /\ SameLinks(b2.levels[C[s][i]], b.levels[C[s][i]])
      BY <3>2, <3>4 DEF SameLinks
    <3>6. b2.by_price[s] = b.by_price[s]
      BY <2>2
    <3>7. ChainOf(b2, s, C[s])
      BY <3>1, <3>5, <3>6, ChainOfFrame
    <3> QED BY <3>1, <3>7
  <2> QED BY <2>1, <2>2
<1>10. ASSUME NEW m \in InUse(b2.level_pool), InUse(b.level_pool) \subseteq LevelBlocks
       PROVE  /\ b2.levels[m].side \in Sides
              /\ \E i \in 1 .. Len(P[b2.levels[m].side]) : P[b2.levels[m].side][i] = m
  <2>1. CASE m = l
    <3>1. p \in 1 .. Len(P[side]) /\ P[side][p] = l
      BY <1>3, <1>5, <1>8
    <3> QED BY <2>1, <3>1
  <2>2. CASE m # l
    <3>1. m \in InUse(b.level_pool) /\ m \in LevelBlocks /\ b2.levels[m].side = b.levels[m].side
      BY <1>10, <2>2 DEF SameRank
    <3>2. PICK s \in Sides : s = b.levels[m].side /\ \E i \in 1 .. Len(C[s]) : C[s][i] = m
      BY <3>1 DEF ChainInv
    <3>3. CASE s = side
      <4>1. PICK i \in 1 .. n : C[side][i] = m
        BY <1>2, <3>2, <3>3
      <4>2. \E k \in 1 .. n + 1 : t[k] = m
        <5>1. CASE i < p
          <6>1. i \in 1 .. n + 1 /\ t[i] = C[side][i]
            BY <1>5, <5>1
          <6> QED BY <4>1, <6>1
        <5>2. CASE i >= p
          <6>1. i + 1 \in 1 .. n + 1 /\ t[i + 1] = C[side][i]
            <7>1. i + 1 \in 1 .. n + 1 /\ i + 1 > p /\ i + 1 - 1 = i /\ p \in Int /\ i \in Int
              BY ONLY <1>3, <5>2, i \in 1 .. n, n \in Nat
            <7> QED BY ONLY <1>5, <7>1
          <6> QED BY <4>1, <6>1
        <5> QED BY <1>3, <5>1, <5>2
      <4> QED BY <1>5, <1>8, <3>1, <3>2, <3>3, <4>2
    <3>4. CASE s # side
      BY <1>8, <3>1, <3>2, <3>4
    <3> QED BY <3>3, <3>4
  <2> QED BY <2>1, <2>2
<1>11. InUse(b.level_pool) \subseteq LevelBlocks
  <2> SUFFICES ASSUME NEW m \in InUse(b.level_pool) PROVE m \in LevelBlocks
    OBVIOUS
  <2>1. PICK s \in Sides : \E i \in 1 .. Len(C[s]) : C[s][i] = m
    BY DEF ChainInv
  <2>2. C[s] \in Seq(LevelBlocks)
    BY <1>1
  <2> QED BY <2>1, <2>2
<1> QED BY <1>8, <1>9, <1>10, <1>11 DEF ChainInv, P, t

(* The only level of a side goes.                                          *)
LEMMA ChainDrop ==
    ASSUME NEW b, NEW C, NEW b2, ChainInv(b, C), NEW l \in InUse(b.level_pool),
           NEW side \in Sides, b.levels[l].side = side, Len(C[side]) = 1,
           DOMAIN b.levels = LevelBlocks, DOMAIN b2.levels = LevelBlocks,
           InUse(b2.level_pool) = InUse(b.level_pool) \ {l},
           b2.by_price[side] = nullptr, \A s \in Sides : s # side => b2.by_price[s] = b.by_price[s],
           \A m \in InUse(b2.level_pool) : /\ SameRank(b2.levels[m], b.levels[m])
                                           /\ SameLinks(b2.levels[m], b.levels[m])
    PROVE  ChainInv(b2, [C EXCEPT ![side] = <<>>])
<1> DEFINE P == [C EXCEPT ![side] = <<>>]
<1>1. P \in [Sides -> Seq(LevelBlocks)] /\ P[side] = <<>> /\ \A s \in Sides : s # side => P[s] = C[s]
  BY DEF ChainInv
<1> HIDE DEF P
<1>2. ASSUME NEW s \in Sides PROVE ChainOf(b2, s, P[s])
  <2>1. CASE s = side
    <3>1. Len(<<>>) = 0
      OBVIOUS
    <3>2. ChainOf(b2, side, <<>>)
      BY <3>1 DEF ChainOf
    <3> QED BY <1>1, <2>1, <3>2
  <2>2. CASE s # side
    <3>1. ChainOf(b, s, C[s]) /\ P[s] = C[s]
      BY <1>1, <2>2 DEF ChainInv
    <3>2. \A i \in 1 .. Len(C[s]) : C[s][i] \in InUse(b.level_pool) /\ C[s][i] # l
      BY <2>2, <3>1, ChainsDisjoint DEF ChainOf
    <3>3. \A i \in 1 .. Len(C[s]) : /\ C[s][i] \in InUse(b2.level_pool)
                                    /\ SameRank(b2.levels[C[s][i]], b.levels[C[s][i]])
                                    /\ SameLinks(b2.levels[C[s][i]], b.levels[C[s][i]])
      BY <3>2
    <3>4. b2.by_price[s] = b.by_price[s]
      BY <2>2
    <3>5. ChainOf(b2, s, C[s])
      BY <3>1, <3>3, <3>4, ChainOfFrame
    <3> QED BY <3>1, <3>5
  <2> QED BY <2>1, <2>2
<1>3. ASSUME NEW m \in InUse(b2.level_pool)
      PROVE  /\ b2.levels[m].side \in Sides
             /\ \E i \in 1 .. Len(P[b2.levels[m].side]) : P[b2.levels[m].side][i] = m
  <2>1. m \in InUse(b.level_pool) /\ b2.levels[m].side = b.levels[m].side /\ m # l
    BY DEF SameRank
  <2>2. PICK s \in Sides : s = b.levels[m].side /\ \E i \in 1 .. Len(C[s]) : C[s][i] = m
    BY <2>1 DEF ChainInv
  <2>3. s # side
    <3> SUFFICES ASSUME s = side PROVE FALSE
      OBVIOUS
    <3>1. PICK i \in 1 .. 1 : C[side][i] = m
      BY <2>2
    <3>2. PICK j \in 1 .. 1 : C[side][j] = l
      BY DEF ChainInv
    <3>3. i = 1 /\ j = 1
      OBVIOUS
    <3> QED BY <2>1, <3>1, <3>2, <3>3
  <2> QED BY <1>1, <2>1, <2>2, <2>3
<1> QED BY <1>1, <1>2, <1>3 DEF ChainInv, P

\* A level of several on its side is taken out.
LevelOut(b, C, b2, side, l, p, before, after) ==
    /\ ChainInv(b, C) /\ l \in InUse(b.level_pool)
    /\ side \in Sides /\ b.levels[l].side = side /\ Len(C[side]) > 1
    /\ p \in 1 .. Len(C[side]) /\ C[side][p] = l
    /\ DOMAIN b.levels = LevelBlocks /\ DOMAIN b2.levels = LevelBlocks
    /\ InUse(b2.level_pool) = InUse(b.level_pool) \ {l}
    /\ before = b.levels[l].prev /\ after = b.levels[l].next
    /\ b2.by_price[side] = IF b.by_price[side] = l THEN after ELSE b.by_price[side]
    /\ \A s \in Sides : s # side => b2.by_price[s] = b.by_price[s]
    /\ \A m \in LevelBlocks : m # l =>
          /\ SameRank(b2.levels[m], b.levels[m])
          /\ b2.levels[m].next = IF m = before THEN after ELSE b.levels[m].next
          /\ b2.levels[m].prev = IF m = after THEN before ELSE b.levels[m].prev

(* The others of its side stay in their order.                             *)
LEMMA ChainRemove ==
    ASSUME NEW b, NEW C, NEW b2, NEW side, NEW l, NEW p, NEW before, NEW after,
           LevelOut(b, C, b2, side, l, p, before, after)
    PROVE  ChainInv(b2, [C EXCEPT ![side] = Removed(C[side], p)])
<1> SUFFICES ASSUME
           ChainInv(b, C), l \in InUse(b.level_pool),
           side \in Sides, b.levels[l].side = side, Len(C[side]) > 1,
           p \in 1 .. Len(C[side]), C[side][p] = l,
           DOMAIN b.levels = LevelBlocks, DOMAIN b2.levels = LevelBlocks,
           InUse(b2.level_pool) = InUse(b.level_pool) \ {l},
           before = b.levels[l].prev, after = b.levels[l].next,
           b2.by_price[side] = IF b.by_price[side] = l THEN after ELSE b.by_price[side],
           \A s \in Sides : s # side => b2.by_price[s] = b.by_price[s],
           \A m \in LevelBlocks : m # l =>
              /\ SameRank(b2.levels[m], b.levels[m])
              /\ b2.levels[m].next = IF m = before THEN after ELSE b.levels[m].next
              /\ b2.levels[m].prev = IF m = after THEN before ELSE b.levels[m].prev
           PROVE ChainInv(b2, [C EXCEPT ![side] = Removed(C[side], p)])
  BY Zenon DEF LevelOut
<1> DEFINE t == Removed(C[side], p)
           P == [C EXCEPT ![side] = t]
<1>1. C \in [Sides -> Seq(LevelBlocks)] /\ C[side] \in Seq(LevelBlocks) /\ ChainOf(b, side, C[side])
  BY DEF ChainInv
<1>2. PICK n \in Nat : n = Len(C[side])
  BY <1>1
<1>3. /\ IsRing(b.levels, b.by_price[side], C[side]) /\ n > 1 /\ p \in 1 .. n
      /\ C[side][1] = b.by_price[side]
      /\ \A i, j \in 1 .. n : C[side][i] = C[side][j] => i = j
      /\ \A i \in 1 .. n : C[side][i] \in LevelBlocks
  <2>1. IsRing(b.levels, b.by_price[side], C[side])
    <3>1. C[side] # <<>>
      BY <1>1, <1>2
    <3> QED BY <1>1, <3>1 DEF ChainOf
  <2> QED BY <1>1, <1>2, <2>1 DEF IsRing
<1>4. before = C[side][Pred(p, n)] /\ after = C[side][Succ(p, n)]
  BY <1>2, <1>3 DEF IsRing
<1>5. /\ t \in Seq(LevelBlocks) /\ Len(t) = n - 1
      /\ \A k \in 1 .. n - 1 : t[k] = IF k < p THEN C[side][k] ELSE C[side][k + 1]
  <2>1. p \in 1 .. Len(C[side])
    OBVIOUS
  <2>2. /\ t \in Seq(LevelBlocks) /\ Len(t) = Len(C[side]) - 1
        /\ \A k \in 1 .. Len(C[side]) - 1 : t[k] = IF k < p THEN C[side][k] ELSE C[side][k + 1]
    BY ONLY <1>1, <2>1, RemovedIs
  <2> HIDE DEF t
  <2> QED BY <1>2, <2>2
<1>6. IsRing(b2.levels, t[1], t)
  <2>1. PICK list : list = C[side]
    OBVIOUS
  <2>2. \A i \in 1 .. n : i # p => list[i] \in LevelBlocks /\ list[i] # l
    BY <1>3, <2>1
  <2>3. \A i \in 1 .. n : i # p =>
           /\ b2.levels[list[i]].next = IF list[i] = before THEN after ELSE b.levels[list[i]].next
           /\ b2.levels[list[i]].prev = IF list[i] = after THEN before ELSE b.levels[list[i]].prev
    BY <2>2
  <2>4. LinkedOut(b.levels, b.by_price[side], list, p, before, after, b2.levels)
    BY <1>2, <1>3, <1>4, <2>1, <2>3 DEF LinkedOut
  <2>5. IsRing(b2.levels, Removed(list, p)[1], Removed(list, p))
    BY <2>4, RingRemove, Zenon
  <2> QED BY <2>1, <2>5
<1> HIDE DEF t
<1>7. t[1] = b2.by_price[side]
  <2>1. CASE p = 1
    <3>1. t[1] = C[side][2] /\ after = C[side][2]
      BY <1>3, <1>4, <1>5, <2>1 DEF Succ
    <3> QED BY <1>3, <2>1, <3>1
  <2>2. CASE p # 1
    <3>1. t[1] = C[side][1] /\ C[side][1] # l
      BY <1>3, <1>5, <2>2
    <3> QED BY <1>3, <3>1
  <2> QED BY <2>1, <2>2
<1>8. P \in [Sides -> Seq(LevelBlocks)] /\ P[side] = t /\ \A s \in Sides : s # side => P[s] = C[s]
  BY <1>1, <1>5
<1> HIDE DEF P
<1>9. ASSUME NEW s \in Sides PROVE ChainOf(b2, s, P[s])
  <2>1. CASE s = side
    <3>1. IsRing(b2.levels, b2.by_price[side], t) /\ t # <<>>
      BY <1>3, <1>5, <1>6, <1>7
    <3>2. \A k \in 1 .. n - 1 :
             \E i \in 1 .. n : /\ i = (IF k < p THEN k ELSE k + 1) /\ t[k] = C[side][i]
                               /\ b2.levels[t[k]].price = b.levels[C[side][i]].price
                               /\ b2.levels[t[k]].side = side /\ t[k] \in InUse(b2.level_pool)
      <4> TAKE k \in 1 .. n - 1
      <4>1. PICK i \in 1 .. n : i = (IF k < p THEN k ELSE k + 1) /\ i # p
        <5>1. (IF k < p THEN k ELSE k + 1) \in 1 .. n /\ (IF k < p THEN k ELSE k + 1) # p
          BY <1>3
        <5> QED BY <5>1
      <4>2. t[k] = C[side][i]
        BY <1>5, <4>1
      <4>5. C[side][i] # l /\ C[side][i] \in LevelBlocks
        BY <1>3, <4>1
      <4>3. C[side][i] \in InUse(b.level_pool) /\ b.levels[C[side][i]].side = side
        BY <1>1, <1>2 DEF ChainOf
      <4>4. SameRank(b2.levels[C[side][i]], b.levels[C[side][i]])
        BY <4>5
      <4> QED BY <4>1, <4>2, <4>3, <4>4, <4>5 DEF SameRank
    <3>3. \A k \in 1 .. n - 1 : t[k] \in InUse(b2.level_pool) /\ b2.levels[t[k]].side = side
      BY <3>2
    <3>4. \A j, k \in 1 .. n - 1 :
             j < k => Outranks(side, b2.levels[t[j]].price, b2.levels[t[k]].price)
      <4> SUFFICES ASSUME NEW j \in 1 .. n - 1, NEW k \in 1 .. n - 1, j < k
                   PROVE  Outranks(side, b2.levels[t[j]].price, b2.levels[t[k]].price)
        OBVIOUS
      <4>1. PICK g \in 1 .. n : /\ g = (IF j < p THEN j ELSE j + 1)
                                /\ b2.levels[t[j]].price = b.levels[C[side][g]].price
        BY <3>2
      <4>2. PICK h \in 1 .. n : /\ h = (IF k < p THEN k ELSE k + 1)
                                /\ b2.levels[t[k]].price = b.levels[C[side][h]].price
        BY <3>2
      <4>3. g < h
        BY <1>3, <4>1, <4>2
      <4>4. Outranks(side, b.levels[C[side][g]].price, b.levels[C[side][h]].price)
        BY <1>1, <1>2, <4>3 DEF ChainOf
      <4> QED BY <4>1, <4>2, <4>4
    <3> QED BY <1>5, <1>8, <2>1, <3>1, <3>3, <3>4 DEF ChainOf
  <2>2. CASE s # side
    <3>1. ChainOf(b, s, C[s]) /\ P[s] = C[s] /\ C[s] \in Seq(LevelBlocks)
      BY <1>1, <1>8, <2>2 DEF ChainInv
    <3>2. \A i \in 1 .. Len(C[s]) : /\ C[s][i] \in InUse(b.level_pool) /\ C[s][i] \in LevelBlocks
                                    /\ b.levels[C[s][i]].side = s
      BY <3>1 DEF ChainOf
    <3>3. b.levels[before].side = side /\ b.levels[after].side = side
      <4>1. \A i \in 1 .. n : b.levels[C[side][i]].side = side
        BY <1>1, <1>2 DEF ChainOf
      <4>2. Pred(p, n) \in 1 .. n /\ Succ(p, n) \in 1 .. n
        BY <1>3 DEF Pred, Succ
      <4> QED BY <1>4, <4>1, <4>2
    <3>4. \A i \in 1 .. Len(C[s]) : C[s][i] # before /\ C[s][i] # after /\ C[s][i] # l
      BY <2>2, <3>2, <3>3
    <3>5. \A i \in 1 .. Len(C[s]) : /\ C[s][i] \in InUse(b2.level_pool)
                                    /\ SameRank(b2.levels[C[s][i]], b.levels[C[s][i]])
                                    /\ SameLinks(b2.levels[C[s][i]], b.levels[C[s][i]])
      BY <3>2, <3>4 DEF SameLinks
    <3>6. b2.by_price[s] = b.by_price[s]
      BY <2>2
    <3>7. ChainOf(b2, s, C[s])
      BY <3>1, <3>5, <3>6, ChainOfFrame
    <3> QED BY <3>1, <3>7
  <2> QED BY <2>1, <2>2
<1>10. InUse(b.level_pool) \subseteq LevelBlocks
  <2> SUFFICES ASSUME NEW m \in InUse(b.level_pool) PROVE m \in LevelBlocks
    OBVIOUS
  <2>1. PICK s \in Sides : \E i \in 1 .. Len(C[s]) : C[s][i] = m
    BY DEF ChainInv
  <2>2. C[s] \in Seq(LevelBlocks)
    BY <1>1
  <2> QED BY <2>1, <2>2
<1>11. ASSUME NEW m \in InUse(b2.level_pool)
       PROVE  /\ b2.levels[m].side \in Sides
              /\ \E i \in 1 .. Len(P[b2.levels[m].side]) : P[b2.levels[m].side][i] = m
  <2>1. /\ m \in InUse(b.level_pool) /\ m \in LevelBlocks /\ m # l
        /\ b2.levels[m].side = b.levels[m].side
    BY <1>10 DEF SameRank
  <2>2. PICK s \in Sides : s = b.levels[m].side /\ \E i \in 1 .. Len(C[s]) : C[s][i] = m
    BY <2>1 DEF ChainInv
  <2>3. CASE s = side
    <3>1. PICK i \in 1 .. n : C[side][i] = m
      BY <1>2, <2>2, <2>3
    <3>2. i # p
      BY <2>1, <3>1
    <3>3. \E k \in 1 .. n - 1 : t[k] = m
      <4>1. CASE i < p
        <5>1. i \in 1 .. n - 1 /\ t[i] = C[side][i]
          BY <1>3, <1>5, <4>1
        <5> QED BY <3>1, <5>1
      <4>2. CASE i > p
        <5>1. i - 1 \in 1 .. n - 1 /\ t[i - 1] = C[side][i]
          BY <1>3, <1>5, <4>2
        <5> QED BY <3>1, <5>1
      <4> QED BY <1>3, <3>2, <4>1, <4>2
    <3> QED BY <1>5, <1>8, <2>1, <2>2, <2>3, <3>3
  <2>4. CASE s # side
    BY <1>8, <2>1, <2>2, <2>4
  <2> QED BY <2>3, <2>4
<1> QED BY <1>8, <1>9, <1>11 DEF ChainInv, P, t

----------------------------------------------------------------------------
(* The tables.                                                             *)

(* Every price has a slot.                                                 *)
LEMMA SlotOfPrice ==
    ASSUME NEW price \in Nat
    PROVE  priceToIndex(price) \in Slots
BY BookAssumption DEF priceToIndex, Slots

(* The slots stay right when neither they nor the prices change.           *)
LEMMA SlotFrame ==
    ASSUME NEW b, NEW b2, SlotInv(b), InUse(b2.level_pool) = InUse(b.level_pool),
           b2.price_orders_at_price = b.price_orders_at_price,
           \A l \in InUse(b.level_pool) : b2.levels[l].price = b.levels[l].price
    PROVE  SlotInv(b2)
BY DEF SlotInv

(* A level enters the slot of its price.                                   *)
LEMMA SlotAdd ==
    ASSUME NEW b, NEW b2, SlotInv(b), NEW l, l \notin InUse(b.level_pool), l # nullptr,
           NEW price \in Nat, b.price_orders_at_price \in [Slots -> LevelBlocks \cup {nullptr}],
           b.price_orders_at_price[priceToIndex(price)] = nullptr,
           InUse(b.level_pool) \subseteq LevelBlocks,
           InUse(b2.level_pool) = InUse(b.level_pool) \cup {l},
           b2.price_orders_at_price = [b.price_orders_at_price EXCEPT ![priceToIndex(price)] = l],
           b2.levels[l].price = price,
           \A m \in InUse(b.level_pool) : b2.levels[m].price = b.levels[m].price
    PROVE  SlotInv(b2)
<1>1. PICK s \in Slots : s = priceToIndex(price)
  BY SlotOfPrice
<1>2. /\ b2.price_orders_at_price[s] = l
      /\ \A q \in Slots : q # s => b2.price_orders_at_price[q] = b.price_orders_at_price[q]
  BY <1>1
<1>3. ASSUME NEW m \in InUse(b2.level_pool)
      PROVE  /\ b2.levels[m].price \in Nat
             /\ b2.price_orders_at_price[priceToIndex(b2.levels[m].price)] = m
  <2>1. CASE m = l
    BY <1>1, <1>2, <2>1
  <2>2. CASE m # l
    <3>1. /\ m \in InUse(b.level_pool) /\ b2.levels[m].price = b.levels[m].price
          /\ b.levels[m].price \in Nat /\ m \in LevelBlocks
          /\ b.price_orders_at_price[priceToIndex(b.levels[m].price)] = m
      BY <2>2 DEF SlotInv
    <3>2. PICK q \in Slots : q = priceToIndex(b.levels[m].price)
      BY <3>1, SlotOfPrice
    <3>3. m # nullptr
      BY <3>1 DEF LevelBlocks, Blocks, nullptr
    <3>4. q # s
      BY <1>1, <3>1, <3>2, <3>3
    <3> QED BY <1>2, <3>1, <3>2, <3>4
  <2> QED BY <2>1, <2>2
<1>4. ASSUME NEW q \in Slots, b2.price_orders_at_price[q] # nullptr
      PROVE  /\ b2.price_orders_at_price[q] \in InUse(b2.level_pool)
             /\ priceToIndex(b2.levels[b2.price_orders_at_price[q]].price) = q
  <2>1. CASE q = s
    BY <1>1, <1>2, <2>1
  <2>2. CASE q # s
    <3>1. b2.price_orders_at_price[q] = b.price_orders_at_price[q]
      BY <1>2, <2>2
    <3>2. /\ b.price_orders_at_price[q] \in InUse(b.level_pool)
          /\ priceToIndex(b.levels[b.price_orders_at_price[q]].price) = q
      BY <1>4, <3>1 DEF SlotInv
    <3> QED BY <3>1, <3>2
  <2> QED BY <2>1, <2>2
<1> QED BY <1>3, <1>4 DEF SlotInv

(* A level leaves the slot of its price.                                   *)
LEMMA SlotRemove ==
    ASSUME NEW b, NEW b2, SlotInv(b), NEW l \in InUse(b.level_pool),
           b.price_orders_at_price \in [Slots -> LevelBlocks \cup {nullptr}],
           InUse(b2.level_pool) = InUse(b.level_pool) \ {l},
           b2.price_orders_at_price
             = [b.price_orders_at_price EXCEPT ![priceToIndex(b.levels[l].price)] = nullptr],
           \A m \in InUse(b2.level_pool) : b2.levels[m].price = b.levels[m].price
    PROVE  SlotInv(b2)
<1>1. b.levels[l].price \in Nat /\ b.price_orders_at_price[priceToIndex(b.levels[l].price)] = l
  BY DEF SlotInv
<1>2. PICK s \in Slots : s = priceToIndex(b.levels[l].price)
  BY <1>1, SlotOfPrice
<1>3. /\ b2.price_orders_at_price[s] = nullptr
      /\ \A q \in Slots : q # s => b2.price_orders_at_price[q] = b.price_orders_at_price[q]
  BY <1>2
<1>4. ASSUME NEW m \in InUse(b2.level_pool)
      PROVE  /\ b2.levels[m].price \in Nat
             /\ b2.price_orders_at_price[priceToIndex(b2.levels[m].price)] = m
  <2>1. /\ m \in InUse(b.level_pool) /\ m # l /\ b2.levels[m].price = b.levels[m].price
        /\ b.levels[m].price \in Nat
        /\ b.price_orders_at_price[priceToIndex(b.levels[m].price)] = m
    BY DEF SlotInv
  <2>2. PICK q \in Slots : q = priceToIndex(b.levels[m].price)
    BY <2>1, SlotOfPrice
  <2>3. q # s
    BY <1>1, <1>2, <2>1, <2>2
  <2> QED BY <1>3, <2>1, <2>2, <2>3
<1>5. ASSUME NEW q \in Slots, b2.price_orders_at_price[q] # nullptr
      PROVE  /\ b2.price_orders_at_price[q] \in InUse(b2.level_pool)
             /\ priceToIndex(b2.levels[b2.price_orders_at_price[q]].price) = q
  <2>1. q # s
    BY <1>3, <1>5
  <2>2. b2.price_orders_at_price[q] = b.price_orders_at_price[q]
    BY <1>3, <2>1
  <2>3. /\ b.price_orders_at_price[q] \in InUse(b.level_pool)
        /\ priceToIndex(b.levels[b.price_orders_at_price[q]].price) = q
    BY <1>5, <2>2 DEF SlotInv
  <2>4. b.price_orders_at_price[q] # l
    BY <1>2, <2>1, <2>3
  <2> QED BY <2>2, <2>3, <2>4
<1> QED BY <1>4, <1>5 DEF SlotInv

(* The index stays right when neither it nor the ids change.               *)
LEMMA IndexFrame ==
    ASSUME NEW b, NEW b2, IndexInv(b), InUse(b2.order_pool) = InUse(b.order_pool),
           b2.oid_to_order = b.oid_to_order,
           \A x \in InUse(b.order_pool) : b2.orders[x].order_id = b.orders[x].order_id
    PROVE  IndexInv(b2)
BY DEF IndexInv

(* An order enters the index.                                              *)
LEMMA IndexAdd ==
    ASSUME NEW b, NEW b2, IndexInv(b), NEW x, x \notin InUse(b.order_pool), x # nullptr,
           NEW id \in Ids, b.oid_to_order \in [Ids -> OrderBlocks \cup {nullptr}],
           b.oid_to_order[id] = nullptr, InUse(b.order_pool) \subseteq OrderBlocks,
           InUse(b2.order_pool) = InUse(b.order_pool) \cup {x},
           b2.oid_to_order = [b.oid_to_order EXCEPT ![id] = x], b2.orders[x].order_id = id,
           \A y \in InUse(b.order_pool) : b2.orders[y].order_id = b.orders[y].order_id
    PROVE  IndexInv(b2)
<1>1. /\ b2.oid_to_order[id] = x
      /\ \A q \in Ids : q # id => b2.oid_to_order[q] = b.oid_to_order[q]
  OBVIOUS
<1>2. ASSUME NEW y \in InUse(b2.order_pool)
      PROVE  b2.orders[y].order_id \in Ids /\ b2.oid_to_order[b2.orders[y].order_id] = y
  <2>1. CASE y = x
    BY <1>1, <2>1
  <2>2. CASE y # x
    <3>1. /\ y \in InUse(b.order_pool) /\ b2.orders[y].order_id = b.orders[y].order_id
          /\ b.orders[y].order_id \in Ids /\ y \in OrderBlocks
          /\ b.oid_to_order[b.orders[y].order_id] = y
      BY <2>2 DEF IndexInv
    <3>2. y # nullptr
      BY <3>1 DEF OrderBlocks, Blocks, nullptr
    <3>3. b.orders[y].order_id # id
      BY <3>1, <3>2
    <3> QED BY <1>1, <3>1, <3>3
  <2> QED BY <2>1, <2>2
<1>3. ASSUME NEW q \in Ids, b2.oid_to_order[q] # nullptr
      PROVE  /\ b2.oid_to_order[q] \in InUse(b2.order_pool)
             /\ b2.orders[b2.oid_to_order[q]].order_id = q
  <2>1. CASE q = id
    BY <1>1, <2>1
  <2>2. CASE q # id
    BY <1>1, <1>3, <2>2 DEF IndexInv
  <2> QED BY <2>1, <2>2
<1> QED BY <1>2, <1>3 DEF IndexInv

(* An order leaves the index.                                              *)
LEMMA IndexRemove ==
    ASSUME NEW b, NEW b2, IndexInv(b), NEW x \in InUse(b.order_pool),
           b.oid_to_order \in [Ids -> OrderBlocks \cup {nullptr}],
           InUse(b2.order_pool) = InUse(b.order_pool) \ {x},
           b2.oid_to_order = [b.oid_to_order EXCEPT ![b.orders[x].order_id] = nullptr],
           \A y \in InUse(b2.order_pool) : b2.orders[y].order_id = b.orders[y].order_id
    PROVE  IndexInv(b2)
<1>1. PICK id \in Ids : id = b.orders[x].order_id /\ b.oid_to_order[id] = x
  BY DEF IndexInv
<1>2. /\ b2.oid_to_order[id] = nullptr
      /\ \A q \in Ids : q # id => b2.oid_to_order[q] = b.oid_to_order[q]
  BY <1>1
<1>3. ASSUME NEW y \in InUse(b2.order_pool)
      PROVE  b2.orders[y].order_id \in Ids /\ b2.oid_to_order[b2.orders[y].order_id] = y
  <2>1. /\ y \in InUse(b.order_pool) /\ b2.orders[y].order_id = b.orders[y].order_id /\ y # x
        /\ b.orders[y].order_id \in Ids /\ b.oid_to_order[b.orders[y].order_id] = y
    BY DEF IndexInv
  <2>2. b.orders[y].order_id # id
    BY <1>1, <2>1
  <2> QED BY <1>2, <2>1, <2>2
<1>4. ASSUME NEW q \in Ids, b2.oid_to_order[q] # nullptr
      PROVE  /\ b2.oid_to_order[q] \in InUse(b2.order_pool)
             /\ b2.orders[b2.oid_to_order[q]].order_id = q
  <2>1. q # id /\ b2.oid_to_order[q] = b.oid_to_order[q]
    BY <1>2, <1>4
  <2>2. b.oid_to_order[q] \in InUse(b.order_pool) /\ b.orders[b.oid_to_order[q]].order_id = q
    BY <1>4, <2>1 DEF IndexInv
  <2>3. b.oid_to_order[q] # x
    BY <1>1, <2>1, <2>2
  <2> QED BY <2>1, <2>2, <2>3
<1> QED BY <1>3, <1>4 DEF IndexInv

----------------------------------------------------------------------------
(* What the operators do to the fields of the book.                        *)

SameTerms(o, q) == o.side = q.side /\ o.price = q.price /\ o.qty = q.qty
NewOrder(id, side, price, qty) ==
    [order_id |-> id, side |-> side, price |-> price, qty |-> qty, prev |-> nullptr, next |-> nullptr]
\* onAdd() up to the call of addOrder().
Placed(b, x, id, side, price, qty) ==
    [b EXCEPT !.order_pool = allocate(@),
              !.orders[x] = [NoOrder EXCEPT !.order_id = id, !.side = side, !.price = price,
                                            !.qty = qty]]

Fields(b, orders, order_pool, levels, level_pool, oid_to_order, slots, by_price, aborted) ==
    /\ IsBook(b) /\ b.orders = orders /\ b.order_pool = order_pool
    /\ b.levels = levels /\ b.level_pool = level_pool
    /\ b.oid_to_order = oid_to_order /\ b.price_orders_at_price = slots /\ b.by_price = by_price
    /\ b.aborted = aborted

(* The fields of the book with the new order's block filled in.            *)
LEMMA PlacedIs ==
    ASSUME NEW b, TypeInv(b), NEW x, NEW id, NEW side, NEW price, NEW qty,
           NEW b0, b0 = Placed(b, x, id, side, price, qty)
    PROVE  Fields(b0, [b.orders EXCEPT ![x] = NewOrder(id, side, price, qty)],
                  allocate(b.order_pool), b.levels, b.level_pool, b.oid_to_order,
                  b.price_orders_at_price, b.by_price, b.aborted)
<1> DEFINE o == [NoOrder EXCEPT !.order_id = id, !.side = side, !.price = price, !.qty = qty]
<1>1. o = NewOrder(id, side, price, qty)
  <2>0. PICK n : n = NoOrder
    OBVIOUS
  <2>1. /\ n.prev = nullptr /\ n.next = nullptr
        /\ n = [order_id |-> n.order_id, side |-> n.side, price |-> n.price,
                qty |-> n.qty, prev |-> n.prev, next |-> n.next]
    BY ONLY <2>0 DEF NoOrder
  <2>2. o = [n EXCEPT !.order_id = id, !.side = side, !.price = price, !.qty = qty]
    BY <2>0
  <2> HIDE DEF o
  <2>3. o = [order_id |-> o.order_id, side |-> o.side, price |-> o.price,
             qty |-> o.qty, prev |-> o.prev, next |-> o.next]
    BY ONLY <2>1, <2>2
  <2>4. o.order_id = id /\ o.side = side /\ o.price = price /\ o.qty = qty
    BY ONLY <2>1, <2>2
  <2>5. o.prev = nullptr /\ o.next = nullptr
    BY ONLY <2>1, <2>2
  <2> QED BY <2>3, <2>4, <2>5 DEF NewOrder
<1> HIDE DEF o
<1>2. b0 = [b EXCEPT !.order_pool = allocate(@), !.orders[x] = o]
  BY DEF Placed, o
<1>3. IsBook(b)
  BY DEF TypeInv
<1>4. IsBook(b0)
  BY <1>2, <1>3 DEF IsBook
<1>5. b0.orders = [b.orders EXCEPT ![x] = o]
  BY <1>2, <1>3 DEF IsBook
<1>6. b0.order_pool = allocate(b.order_pool)
  BY <1>2, <1>3 DEF IsBook
<1>7. /\ b0.levels = b.levels /\ b0.level_pool = b.level_pool /\ b0.oid_to_order = b.oid_to_order
      /\ b0.price_orders_at_price = b.price_orders_at_price /\ b0.by_price = b.by_price
      /\ b0.aborted = b.aborted
  BY <1>2, <1>3 DEF IsBook
<1> QED BY <1>1, <1>4, <1>5, <1>6, <1>7 DEF Fields

(* An order linked in at the back.                                          *)
LEMMA LinkBackIs ==
    ASSUME NEW orders \in [OrderBlocks -> OrderType], NEW x \in OrderBlocks,
           NEW first \in OrderBlocks, NEW last \in OrderBlocks, x # first, x # last,
           NEW s, s = link(orders, x, last, first)
    PROVE  /\ s \in [OrderBlocks -> OrderType]
           /\ \A y \in OrderBlocks :
                 /\ SameOrder(s[y], orders[y]) /\ SameTerms(s[y], orders[y])
                 /\ s[y].next = IF y = x THEN first ELSE IF y = last THEN x ELSE orders[y].next
                 /\ s[y].prev = IF y = x THEN last ELSE IF y = first THEN x ELSE orders[y].prev
<1>0. OrderBlocks \subseteq Int
  BY DEF OrderBlocks, Blocks
<1>1. PICK s1 : s1 = [orders EXCEPT ![last].next = x]
  OBVIOUS
<1>2. PICK s2 : s2 = [s1 EXCEPT ![x].prev = last]
  OBVIOUS
<1>3. PICK s3 : s3 = [s2 EXCEPT ![x].next = first]
  OBVIOUS
<1>4. s = [s3 EXCEPT ![first].prev = x]
  BY <1>1, <1>2, <1>3, Zenon DEF link
<1>5. /\ s1 \in [OrderBlocks -> OrderType]
      /\ \A y \in OrderBlocks :
            /\ SameOrder(s1[y], orders[y]) /\ SameTerms(s1[y], orders[y])
            /\ s1[y].next = IF y = last THEN x ELSE orders[y].next
            /\ s1[y].prev = orders[y].prev
  BY <1>0, <1>1 DEF OrderType, SameOrder, SameTerms
<1>6. /\ s2 \in [OrderBlocks -> OrderType]
      /\ \A y \in OrderBlocks :
            /\ SameOrder(s2[y], s1[y]) /\ SameTerms(s2[y], s1[y])
            /\ s2[y].next = s1[y].next
            /\ s2[y].prev = IF y = x THEN last ELSE s1[y].prev
  BY <1>0, <1>2, <1>5 DEF OrderType, SameOrder, SameTerms
<1>7. /\ s3 \in [OrderBlocks -> OrderType]
      /\ \A y \in OrderBlocks :
            /\ SameOrder(s3[y], s2[y]) /\ SameTerms(s3[y], s2[y])
            /\ s3[y].next = IF y = x THEN first ELSE s2[y].next
            /\ s3[y].prev = s2[y].prev
  BY <1>0, <1>3, <1>6 DEF OrderType, SameOrder, SameTerms
<1>8. /\ s \in [OrderBlocks -> OrderType]
      /\ \A y \in OrderBlocks :
            /\ SameOrder(s[y], s3[y]) /\ SameTerms(s[y], s3[y])
            /\ s[y].next = s3[y].next
            /\ s[y].prev = IF y = first THEN x ELSE s3[y].prev
  BY <1>0, <1>4, <1>7 DEF OrderType, SameOrder, SameTerms
<1>9. \A y \in OrderBlocks : SameOrder(s[y], orders[y]) /\ SameTerms(s[y], orders[y])
  BY <1>5, <1>6, <1>7, <1>8 DEF SameOrder, SameTerms
<1> QED BY <1>5, <1>6, <1>7, <1>8, <1>9

\* addOrder() at a price that has a level.
LEMMA AddOrderOld ==
    ASSUME NEW b, TypeInv(b), NEW x \in OrderBlocks, NEW l, NEW first, NEW last,
           l = b.price_orders_at_price[priceToIndex(b.orders[x].price)], l # nullptr,
           first = b.levels[l].first, last = b.orders[first].prev,
           NEW b2, b2 = addOrder(b, x)
    PROVE  Fields(b2, link(b.orders, x, last, first), b.order_pool, b.levels, b.level_pool,
                  [b.oid_to_order EXCEPT ![b.orders[x].order_id] = x],
                  b.price_orders_at_price, b.by_price, b.aborted)
<1>1. b2 = [b EXCEPT !.orders = link(@, x, last, first), !.oid_to_order[b.orders[x].order_id] = x]
  BY Zenon DEF addOrder
<1>2. IsBook(b)
  BY DEF TypeInv
<1>3. IsBook(b2)
  BY ONLY <1>1, <1>2 DEF IsBook
<1>4. b2.orders = link(b.orders, x, last, first)
  BY ONLY <1>1, <1>2 DEF IsBook
<1>5. b2.oid_to_order = [b.oid_to_order EXCEPT ![b.orders[x].order_id] = x]
  BY ONLY <1>1, <1>2 DEF IsBook
<1>6. /\ b2.order_pool = b.order_pool /\ b2.levels = b.levels /\ b2.level_pool = b.level_pool
      /\ b2.price_orders_at_price = b.price_orders_at_price /\ b2.by_price = b.by_price
      /\ b2.aborted = b.aborted
  BY ONLY <1>1, <1>2 DEF IsBook
<1> QED BY <1>3, <1>4, <1>5, <1>6 DEF Fields

Added(b, b2, x, id, side, price, qty) ==
    /\ b2.aborted = b.aborted /\ x \in OrderBlocks
    /\ b2.oid_to_order = [b.oid_to_order EXCEPT ![id] = x]
    /\ \A y \in InUse(b.order_pool) : SameTerms(b2.orders[y], b.orders[y])
    /\ b2.orders[x].side = side /\ b2.orders[x].price = price /\ b2.orders[x].qty = qty

(* The blocks in use are blocks.                                           *)
LEMMA InUseAreBlocks ==
    ASSUME NEW b, TypeInv(b)
    PROVE  InUse(b.order_pool) \subseteq OrderBlocks /\ InUse(b.level_pool) \subseteq LevelBlocks
<1>1. MaxOrderIds \in Nat \ {0} /\ MaxPriceLevels \in Nat \ {0}
  BY BookAssumption
<1>2. PoolInv(b.order_pool, MaxOrderIds) /\ PoolInv(b.level_pool, MaxPriceLevels)
  BY DEF TypeInv
<1> QED BY <1>1, <1>2, PoolFacts DEF OrderBlocks, LevelBlocks, Blocks

(* The block that an ADD takes.                                            *)
LEMMA OrderBlockTaken ==
    ASSUME NEW b, TypeInv(b), ~Exhausted(b.order_pool), NEW x, x = FreeBlock(b.order_pool)
    PROVE  /\ x \in OrderBlocks /\ x \notin InUse(b.order_pool) /\ x # nullptr
           /\ PoolInv(allocate(b.order_pool), MaxOrderIds)
           /\ InUse(allocate(b.order_pool)) = InUse(b.order_pool) \cup {x}
<1>1. MaxOrderIds \in Nat \ {0} /\ PoolInv(b.order_pool, MaxOrderIds)
  BY BookAssumption DEF TypeInv
<1>2. /\ x \in 0 .. MaxOrderIds - 1 /\ x \notin InUse(b.order_pool)
      /\ PoolInv(allocate(b.order_pool), MaxOrderIds)
      /\ InUse(allocate(b.order_pool)) = InUse(b.order_pool) \cup {x}
  BY <1>1, Allocates
<1> QED BY <1>2 DEF OrderBlocks, Blocks, nullptr

(* The block for a new level is one not in use.                            *)
LEMMA LevelBlockTaken ==
    ASSUME NEW b, TypeInv(b), ~Exhausted(b.level_pool), NEW l, l = FreeBlock(b.level_pool)
    PROVE  /\ l \in LevelBlocks /\ l \notin InUse(b.level_pool) /\ l # nullptr
           /\ PoolInv(allocate(b.level_pool), MaxPriceLevels)
           /\ InUse(allocate(b.level_pool)) = InUse(b.level_pool) \cup {l}
<1>1. MaxPriceLevels \in Nat \ {0} /\ PoolInv(b.level_pool, MaxPriceLevels)
  BY BookAssumption DEF TypeInv
<1>2. /\ l \in 0 .. MaxPriceLevels - 1 /\ l \notin InUse(b.level_pool)
      /\ PoolInv(allocate(b.level_pool), MaxPriceLevels)
      /\ InUse(allocate(b.level_pool)) = InUse(b.level_pool) \cup {l}
  BY <1>1, Allocates
<1> QED BY <1>2 DEF LevelBlocks, Blocks, nullptr

(* A new order has its type.                                               *)
LEMMA NewOrderType ==
    ASSUME NEW id \in Ids, NEW side \in Sides, NEW price \in Nat, NEW qty \in Nat
    PROVE  NewOrder(id, side, price, qty) \in OrderType
BY BookAssumption DEF NewOrder, OrderType, Ids, nullptr

(* The first and the last order of a level.                                *)
LEMMA EndsOfQueue ==
    ASSUME NEW b, NEW Q, QueueInv(b, Q), TypeInv(b), NEW l \in InUse(b.level_pool)
    PROVE  /\ b.levels[l].first \in InUse(b.order_pool)
           /\ b.orders[b.levels[l].first].prev \in InUse(b.order_pool)
<1>1. QueueOf(b, l, Q[l])
  BY DEF QueueInv
<1>2. IsRing(b.orders, b.levels[l].first, Q[l])
  BY <1>1 DEF QueueOf
<1>3. PICK n \in Nat : n = Len(Q[l]) /\ n > 0
  BY <1>2 DEF IsRing
<1>4. \A i \in 1 .. n : Q[l][i] \in InUse(b.order_pool)
  BY <1>1, <1>3 DEF QueueOf
<1>5. b.levels[l].first = Q[l][1] /\ b.orders[Q[l][1]].prev = Q[l][Pred(1, n)]
  BY <1>2, <1>3 DEF IsRing
<1>6. 1 \in 1 .. n /\ Pred(1, n) \in 1 .. n
  BY <1>3 DEF Pred
<1> QED BY <1>4, <1>5, <1>6

(* onAdd() of an order whose price has a level.                            *)
LEMMA JoinsLevel ==
    ASSUME NEW b, NEW C, NEW Q, Structure(b, C, Q), ~Exhausted(b.order_pool),
           NEW x, x = FreeBlock(b.order_pool), NEW id \in Ids, b.oid_to_order[id] = nullptr,
           NEW side \in Sides, NEW price \in Nat, NEW qty \in Nat,
           NEW l, l = b.price_orders_at_price[priceToIndex(price)], l # nullptr,
           b.levels[l].price = price, b.levels[l].side = side,
           \A y \in InUse(b.order_pool) : b.orders[y].order_id < id,
           NEW b2, b2 = addOrder(Placed(b, x, id, side, price, qty), x)
    PROVE  (\E P : Structure(b2, C, P)) /\ Added(b, b2, x, id, side, price, qty)
<1>1. TypeInv(b) /\ ChainInv(b, C) /\ SlotInv(b) /\ QueueInv(b, Q) /\ IndexInv(b)
  BY DEF Structure
<1>2. /\ x \in OrderBlocks /\ x \notin InUse(b.order_pool) /\ x # nullptr
      /\ PoolInv(allocate(b.order_pool), MaxOrderIds)
      /\ InUse(allocate(b.order_pool)) = InUse(b.order_pool) \cup {x}
  BY <1>1, OrderBlockTaken
<1>3. InUse(b.order_pool) \subseteq OrderBlocks /\ InUse(b.level_pool) \subseteq LevelBlocks
  BY <1>1, InUseAreBlocks
<1>4. l \in InUse(b.level_pool)
  <2>1. priceToIndex(price) \in Slots
    BY SlotOfPrice
  <2> QED BY <1>1, <2>1 DEF SlotInv
<1>5. PICK first, last : /\ first = b.levels[l].first /\ last = b.orders[first].prev
                         /\ first \in InUse(b.order_pool) /\ last \in InUse(b.order_pool)
  BY <1>1, <1>4, EndsOfQueue
<1>6. first \in OrderBlocks /\ last \in OrderBlocks /\ x # first /\ x # last
  BY <1>2, <1>3, <1>5
<1>7. PICK b0 : b0 = Placed(b, x, id, side, price, qty)
  OBVIOUS
<1>8. Fields(b0, [b.orders EXCEPT ![x] = NewOrder(id, side, price, qty)],
             allocate(b.order_pool), b.levels, b.level_pool, b.oid_to_order,
             b.price_orders_at_price, b.by_price, b.aborted)
  BY <1>1, <1>7, PlacedIs
<1>9. /\ b0.orders \in [OrderBlocks -> OrderType]
      /\ b0.orders[x] = NewOrder(id, side, price, qty)
      /\ \A y \in OrderBlocks : y # x => b0.orders[y] = b.orders[y]
  <2>1. NewOrder(id, side, price, qty) \in OrderType
    BY NewOrderType
  <2>2. b.orders \in [OrderBlocks -> OrderType]
    BY <1>1 DEF TypeInv
  <2>3. b0.orders = [b.orders EXCEPT ![x] = NewOrder(id, side, price, qty)]
    BY <1>8 DEF Fields
  <2> QED BY <1>2, <2>1, <2>2, <2>3
<1>10. TypeInv(b0)
  BY <1>1, <1>2, <1>8, <1>9 DEF TypeInv, Fields
<1>11. b0.orders[x].price = price /\ b0.orders[x].order_id = id /\ b0.orders[x].side = side
       /\ b0.orders[x].qty = qty
  BY <1>9 DEF NewOrder
<1>12. Fields(b2, link(b0.orders, x, last, first), b0.order_pool, b0.levels, b0.level_pool,
              [b0.oid_to_order EXCEPT ![b0.orders[x].order_id] = x],
              b0.price_orders_at_price, b0.by_price, b0.aborted)
  <2>1. l = b0.price_orders_at_price[priceToIndex(b0.orders[x].price)] /\ first = b0.levels[l].first
    BY <1>5, <1>8, <1>11 DEF Fields
  <2>2. last = b0.orders[first].prev
    BY <1>5, <1>6, <1>9
  <2>3. b2 = addOrder(b0, x)
    BY <1>7
  <2> QED BY <1>2, <1>10, <2>1, <2>2, <2>3, AddOrderOld
<1>13. /\ b2.orders = link(b0.orders, x, last, first) /\ b2.order_pool = allocate(b.order_pool)
       /\ b2.levels = b.levels /\ b2.level_pool = b.level_pool
       /\ b2.oid_to_order = [b.oid_to_order EXCEPT ![id] = x]
       /\ b2.price_orders_at_price = b.price_orders_at_price /\ b2.by_price = b.by_price
       /\ b2.aborted = b.aborted /\ IsBook(b2)
  BY <1>8, <1>11, <1>12 DEF Fields
<1>14. /\ b2.orders \in [OrderBlocks -> OrderType]
       /\ \A y \in OrderBlocks :
             /\ SameOrder(b2.orders[y], b0.orders[y]) /\ SameTerms(b2.orders[y], b0.orders[y])
             /\ b2.orders[y].next = IF y = x THEN first ELSE IF y = last THEN x ELSE b0.orders[y].next
             /\ b2.orders[y].prev = IF y = x THEN last ELSE IF y = first THEN x ELSE b0.orders[y].prev
  BY <1>2, <1>6, <1>9, <1>13, LinkBackIs
<1>15. \A y \in OrderBlocks : y # x =>
          /\ SameOrder(b2.orders[y], b.orders[y]) /\ SameTerms(b2.orders[y], b.orders[y])
          /\ b2.orders[y].next = IF y = last THEN x ELSE b.orders[y].next
          /\ b2.orders[y].prev = IF y = first THEN x ELSE b.orders[y].prev
  BY <1>9, <1>14
<1>16. /\ b2.orders[x].next = first /\ b2.orders[x].prev = last /\ b2.orders[x].price = price
       /\ b2.orders[x].side = side /\ b2.orders[x].order_id = id /\ b2.orders[x].qty = qty
  BY <1>2, <1>11, <1>14 DEF SameOrder, SameTerms
<1>17. InUse(b2.order_pool) = InUse(b.order_pool) \cup {x} /\ InUse(b2.level_pool) = InUse(b.level_pool)
  BY <1>2, <1>13
<1>18. TypeInv(b2)
  <2>1. b2.oid_to_order \in [Ids -> OrderBlocks \cup {nullptr}]
    <3>1. b.oid_to_order \in [Ids -> OrderBlocks \cup {nullptr}]
      BY <1>1 DEF TypeInv
    <3> QED BY <1>2, <1>13, <3>1
  <2> QED BY <1>1, <1>2, <1>13, <1>14, <2>1 DEF TypeInv
<1>19. QueueInv(b2, [Q EXCEPT ![l] = Inserted(Q[l], Len(Q[l]) + 1, x)])
  <2>1. DOMAIN b.orders = OrderBlocks /\ DOMAIN b2.orders = OrderBlocks
    BY <1>1, <1>14 DEF TypeInv
  <2>2. /\ b2.orders[x].price = b.levels[l].price /\ b2.orders[x].side = b.levels[l].side
        /\ \A y \in InUse(b.order_pool) : b.orders[y].order_id < b2.orders[x].order_id
    BY <1>16
  <2>3. /\ SlotInv(b) /\ QueueInv(b, Q) /\ InUse(b.level_pool) \subseteq LevelBlocks
        /\ l \in InUse(b.level_pool) /\ x \in OrderBlocks /\ x \notin InUse(b.order_pool)
        /\ b2.levels = b.levels /\ first = b.levels[l].first /\ last = b.orders[first].prev
        /\ b2.orders[x].next = first /\ b2.orders[x].prev = last
    BY <1>1, <1>2, <1>3, <1>4, <1>5, <1>13, <1>16
  <2>4. \A y \in OrderBlocks : y # x =>
              /\ SameOrder(b2.orders[y], b.orders[y])
              /\ b2.orders[y].next = IF y = last THEN x ELSE b.orders[y].next
              /\ b2.orders[y].prev = IF y = first THEN x ELSE b.orders[y].prev
    BY <1>15, Zenon
  <2> QED BY ONLY <1>17, <2>1, <2>2, <2>3, <2>4, QueueAppend
<1>20. ChainInv(b2, C)
  BY <1>1, <1>13, <1>17, ChainFrame DEF SameRank, SameLinks
<1>21. SlotInv(b2)
  BY <1>1, <1>13, <1>17, SlotFrame
<1>22. IndexInv(b2)
  <2>1. \A y \in InUse(b.order_pool) : b2.orders[y].order_id = b.orders[y].order_id
    BY <1>2, <1>3, <1>15 DEF SameOrder
  <2>2. b.oid_to_order \in [Ids -> OrderBlocks \cup {nullptr}]
    BY <1>1 DEF TypeInv
  <2> QED BY <1>1, <1>2, <1>3, <1>13, <1>16, <1>17, <2>1, <2>2, IndexAdd
<1>23. Added(b, b2, x, id, side, price, qty)
  <2>1. \A y \in InUse(b.order_pool) : SameTerms(b2.orders[y], b.orders[y])
    BY <1>2, <1>3, <1>15
  <2> QED BY <1>2, <1>13, <1>16, <2>1 DEF Added
<1> QED BY <1>18, <1>19, <1>20, <1>21, <1>22, <1>23 DEF Structure

\* Where the walk of addOrdersAtPrice() ends.
Target(levels, head, side, price) ==
    LET chain == Ring(levels, head)
    IN  chain[Min({ i \in 1 .. Len(chain) :
                      ~shouldAdvance(side, price, levels[chain[i]].price) \/ i = Len(chain) })]
Passes(levels, head, side, price) ==
    shouldAdvance(side, price, levels[Target(levels, head, side, price)].price)
Before(levels, head, side, price) ==
    LET target == Target(levels, head, side, price)
    IN  IF Passes(levels, head, side, price) THEN target ELSE levels[target].prev
After(levels, head, side, price) ==
    LET target == Target(levels, head, side, price)
    IN  IF Passes(levels, head, side, price) THEN levels[target].next ELSE target

(* The walk finds the place of the new level.                              *)
LEMMA WalkFindsPlace ==
    ASSUME NEW levels, DOMAIN levels = LevelBlocks, NEW head, NEW list, IsRing(levels, head, list),
           NEW side \in Sides, NEW price \in Int,
           \A i \in 1 .. Len(list) : levels[list[i]].price \in Int /\ levels[list[i]].price # price,
           \A i, j \in 1 .. Len(list) :
              i < j => Outranks(side, levels[list[i]].price, levels[list[j]].price)
    PROVE  \E p \in 1 .. Len(list) + 1 :
              /\ Before(levels, head, side, price) = list[IF p = 1 THEN Len(list) ELSE p - 1]
              /\ After(levels, head, side, price) = list[IF p = Len(list) + 1 THEN 1 ELSE p]
              /\ \A i \in 1 .. Len(list) :
                    IF i < p THEN Outranks(side, levels[list[i]].price, price)
                             ELSE Outranks(side, price, levels[list[i]].price)
              /\ p = 1 <=> (~Passes(levels, head, side, price)
                              /\ head = Target(levels, head, side, price))
<1>1. Ring(levels, head) = list
  <2>1. MaxPriceLevels \in Nat /\ DOMAIN levels = 0 .. MaxPriceLevels - 1
    BY BookAssumption DEF LevelBlocks, Blocks
  <2> QED BY <2>1, RingIs
<1>2. PICK n \in Nat : n = Len(list) /\ n > 0
  BY DEF IsRing
<1> DEFINE stops == { i \in 1 .. n : ~shouldAdvance(side, price, levels[list[i]].price) \/ i = n }
<1>3. stops \in SUBSET Nat /\ n \in stops
  BY <1>2
<1>4. PICK k \in stops : \A m \in stops : k <= m
  <2> HIDE DEF stops
  <2> QED BY <1>3, LeastNatural
<1>5. Min(stops) = k
  <2> HIDE DEF stops
  <2> QED BY <1>3, <1>4, MinIs
<1>6. Target(levels, head, side, price) = list[k]
  BY <1>1, <1>2, <1>5, Zenon DEF Target
<1>7. k \in 1 .. n
  OBVIOUS
<1>8. \A i \in 1 .. n : i < k => Outranks(side, levels[list[i]].price, price)
  <2> SUFFICES ASSUME NEW i \in 1 .. n, i < k, ~Outranks(side, levels[list[i]].price, price)
               PROVE  FALSE
    OBVIOUS
  <2>1. i \in stops
    BY DEF shouldAdvance
  <2> HIDE DEF stops
  <2>2. k <= i
    BY <1>4, <2>1
  <2> QED BY <1>7, <2>2
<1>9. /\ head = list[1] /\ \A i, j \in 1 .. n : list[i] = list[j] => i = j
      /\ levels[list[k]].next = list[Succ(k, n)] /\ levels[list[k]].prev = list[Pred(k, n)]
  BY <1>2, <1>7 DEF IsRing
<1> HIDE DEF stops
<1>10. CASE Outranks(side, levels[list[k]].price, price)
  <2>1. k = n
    BY <1>4, <1>10 DEF stops, shouldAdvance
  <2>2. Passes(levels, head, side, price)
    BY <1>6, <1>10 DEF Passes, shouldAdvance
  <2>3. Before(levels, head, side, price) = list[n] /\ After(levels, head, side, price) = list[1]
    BY <1>6, <1>9, <2>1, <2>2 DEF Before, After, Succ
  <2>4. \A i \in 1 .. n : i < n + 1 /\ Outranks(side, levels[list[i]].price, price)
    BY <1>8, <1>10, <2>1
  <2>5. n + 1 \in 1 .. Len(list) + 1 /\ n + 1 # 1 /\ n + 1 = Len(list) + 1 /\ (n + 1) - 1 = n
    BY <1>2
  <2> QED BY <1>2, <2>2, <2>3, <2>4, <2>5
<1>11. CASE ~Outranks(side, levels[list[k]].price, price)
  <2>1. ~Passes(levels, head, side, price)
    BY <1>6, <1>11 DEF Passes, shouldAdvance
  <2>2. Before(levels, head, side, price) = list[Pred(k, n)] /\ After(levels, head, side, price) = list[k]
    BY <1>6, <1>9, <2>1 DEF Before, After
  <2>3. Outranks(side, price, levels[list[k]].price)
    BY <1>2, <1>7, <1>11 DEF Outranks
  <2>4. \A i \in 1 .. n : ~(i < k) => Outranks(side, price, levels[list[i]].price)
    <3> SUFFICES ASSUME NEW i \in 1 .. n, ~(i < k)
                 PROVE  Outranks(side, price, levels[list[i]].price)
      OBVIOUS
    <3>1. CASE i = k
      BY <2>3, <3>1
    <3>2. CASE i # k
      <4>1. k < i
        BY <1>7, <3>2
      <4>2. Outranks(side, levels[list[k]].price, levels[list[i]].price)
        BY <1>2, <1>7, <4>1
      <4>3. levels[list[k]].price \in Int /\ levels[list[i]].price \in Int
        BY <1>2, <1>7
      <4> QED BY <2>3, <4>2, <4>3 DEF Outranks
    <3> QED BY <3>1, <3>2
  <2>5. head = list[k] <=> k = 1
    BY <1>2, <1>7, <1>9
  <2>6. k \in 1 .. Len(list) + 1 /\ k # Len(list) + 1 /\ Pred(k, n) = (IF k = 1 THEN Len(list) ELSE k - 1)
    BY <1>2, <1>7 DEF Pred
  <2>7. \A i \in 1 .. Len(list) :
           IF i < k THEN Outranks(side, levels[list[i]].price, price)
                    ELSE Outranks(side, price, levels[list[i]].price)
    BY <1>2, <1>8, <2>4
  <2>8. /\ Before(levels, head, side, price) = list[IF k = 1 THEN Len(list) ELSE k - 1]
        /\ After(levels, head, side, price) = list[IF k = Len(list) + 1 THEN 1 ELSE k]
    BY <2>2, <2>6
  <2> QED BY <1>6, <2>1, <2>5, <2>6, <2>7, <2>8
<1> QED BY <1>10, <1>11

NewLevel(side, price, x) ==
    [side |-> side, price |-> price, first |-> x, prev |-> nullptr, next |-> nullptr]
\* addOrder() up to the call of addOrdersAtPrice().
Levelled(b, x, l) ==
    [b EXCEPT !.orders[x].prev = x, !.orders[x].next = x,
              !.level_pool = allocate(@),
              !.levels[l] = [NoLevel EXCEPT !.side = b.orders[x].side, !.price = b.orders[x].price,
                                            !.first = x],
              !.oid_to_order[b.orders[x].order_id] = x]

(* The fields of the book with the new level's block filled in.            *)
LEMMA LevelledIs ==
    ASSUME NEW b, TypeInv(b), NEW x, NEW l, NEW b2, b2 = Levelled(b, x, l)
    PROVE  Fields(b2, [b.orders EXCEPT ![x].prev = x, ![x].next = x], b.order_pool,
                  [b.levels EXCEPT ![l] = NewLevel(b.orders[x].side, b.orders[x].price, x)],
                  allocate(b.level_pool), [b.oid_to_order EXCEPT ![b.orders[x].order_id] = x],
                  b.price_orders_at_price, b.by_price, b.aborted)
<1> DEFINE v == [NoLevel EXCEPT !.side = b.orders[x].side, !.price = b.orders[x].price, !.first = x]
<1>1. v = NewLevel(b.orders[x].side, b.orders[x].price, x)
  <2>0. PICK n : n = NoLevel
    OBVIOUS
  <2>1. /\ n.prev = nullptr /\ n.next = nullptr
        /\ n = [side |-> n.side, price |-> n.price, first |-> n.first, prev |-> n.prev,
                next |-> n.next]
    BY ONLY <2>0 DEF NoLevel
  <2>2. v = [n EXCEPT !.side = b.orders[x].side, !.price = b.orders[x].price, !.first = x]
    BY <2>0
  <2> HIDE DEF v
  <2>3. v = [side |-> v.side, price |-> v.price, first |-> v.first, prev |-> v.prev, next |-> v.next]
    BY ONLY <2>1, <2>2
  <2>4. v.side = b.orders[x].side /\ v.price = b.orders[x].price /\ v.first = x
    BY ONLY <2>1, <2>2
  <2>5. v.prev = nullptr /\ v.next = nullptr
    BY ONLY <2>1, <2>2
  <2> QED BY <2>3, <2>4, <2>5 DEF NewLevel
<1> HIDE DEF v
<1>2. PICK id : id = b.orders[x].order_id
  OBVIOUS
<1>3. b2 = [b EXCEPT !.orders[x].prev = x, !.orders[x].next = x, !.level_pool = allocate(@),
                     !.levels[l] = v, !.oid_to_order[id] = x]
  BY <1>2 DEF Levelled, v
<1>4. IsBook(b)
  BY DEF TypeInv
<1>5. IsBook(b2)
  BY ONLY <1>3, <1>4 DEF IsBook
<1>6. b2.orders = [b.orders EXCEPT ![x].prev = x, ![x].next = x]
  BY ONLY <1>3, <1>4 DEF IsBook
<1>7. b2.level_pool = allocate(b.level_pool)
  BY ONLY <1>3, <1>4 DEF IsBook
<1>8. b2.levels = [b.levels EXCEPT ![l] = v]
  BY ONLY <1>3, <1>4 DEF IsBook
<1>9. b2.oid_to_order = [b.oid_to_order EXCEPT ![id] = x]
  BY ONLY <1>3, <1>4 DEF IsBook
<1>10. /\ b2.order_pool = b.order_pool /\ b2.price_orders_at_price = b.price_orders_at_price
       /\ b2.by_price = b.by_price /\ b2.aborted = b.aborted
  BY ONLY <1>3, <1>4 DEF IsBook
<1> QED BY <1>1, <1>2, <1>5, <1>6, <1>7, <1>8, <1>9, <1>10 DEF Fields

\* addOrder() at a price that has none.
LEMMA AddOrderNew ==
    ASSUME NEW b, NEW x, NEW l, b.price_orders_at_price[priceToIndex(b.orders[x].price)] = nullptr,
           ~Exhausted(b.level_pool), l = FreeBlock(b.level_pool)
    PROVE  addOrder(b, x) = addOrdersAtPrice(Levelled(b, x, l), l)
BY Zenon DEF addOrder, Levelled

\* addOrdersAtPrice() on an empty side.
LEMMA AddLevelFirst ==
    ASSUME NEW b, IsBook(b), NEW l, b.by_price[b.levels[l].side] = nullptr,
           NEW b2, b2 = addOrdersAtPrice(b, l)
    PROVE  Fields(b2, b.orders, b.order_pool, [b.levels EXCEPT ![l].prev = l, ![l].next = l],
                  b.level_pool, b.oid_to_order,
                  [b.price_orders_at_price EXCEPT ![priceToIndex(b.levels[l].price)] = l],
                  [b.by_price EXCEPT ![b.levels[l].side] = l], b.aborted)
<1> DEFINE side == b.levels[l].side
           s == priceToIndex(b.levels[l].price)
           c == [b EXCEPT !.price_orders_at_price[s] = l]
<1>1. s = priceToIndex(b.levels[l].price) /\ side = b.levels[l].side
  OBVIOUS
<1>2. c = [b EXCEPT !.price_orders_at_price[s] = l]
  OBVIOUS
<1>3. b2 = [c EXCEPT !.by_price[side] = l, !.levels[l].prev = l, !.levels[l].next = l]
  BY DEF addOrdersAtPrice
<1> HIDE DEF c, s, side
<1>4. /\ IsBook(c) /\ c.orders = b.orders /\ c.order_pool = b.order_pool /\ c.levels = b.levels
      /\ c.level_pool = b.level_pool /\ c.oid_to_order = b.oid_to_order /\ c.by_price = b.by_price
      /\ c.aborted = b.aborted /\ c.price_orders_at_price = [b.price_orders_at_price EXCEPT ![s] = l]
  BY <1>2 DEF IsBook
<1>5. IsBook(c)
  BY <1>4
<1>6. IsBook(b2)
  BY ONLY <1>3, <1>5 DEF IsBook
<1>7. b2.levels = [c.levels EXCEPT ![l].prev = l, ![l].next = l]
  BY ONLY <1>3, <1>5 DEF IsBook
<1>8. b2.by_price = [c.by_price EXCEPT ![side] = l]
  BY ONLY <1>3, <1>5 DEF IsBook
<1>9. /\ b2.orders = c.orders /\ b2.order_pool = c.order_pool /\ b2.level_pool = c.level_pool
      /\ b2.oid_to_order = c.oid_to_order /\ b2.price_orders_at_price = c.price_orders_at_price
      /\ b2.aborted = c.aborted
  BY ONLY <1>3, <1>5 DEF IsBook
<1> QED BY <1>1, <1>4, <1>6, <1>7, <1>8, <1>9 DEF Fields

\* addOrdersAtPrice() on a side with levels.
LEMMA AddLevelNext ==
    ASSUME NEW b, IsBook(b), NEW l, b.by_price[b.levels[l].side] # nullptr,
           NEW b2, b2 = addOrdersAtPrice(b, l)
    PROVE  LET side == b.levels[l].side
               price == b.levels[l].price
               head == b.by_price[side]
           IN  Fields(b2, b.orders, b.order_pool,
                  link(b.levels, l, Before(b.levels, head, side, price),
                       After(b.levels, head, side, price)),
                  b.level_pool, b.oid_to_order,
                  [b.price_orders_at_price EXCEPT ![priceToIndex(price)] = l],
                  [b.by_price EXCEPT ![side] =
                     IF ~Passes(b.levels, head, side, price)
                          /\ head = Target(b.levels, head, side, price) THEN l ELSE head], b.aborted)
<1> DEFINE side == b.levels[l].side
           price == b.levels[l].price
           head == b.by_price[side]
           s == priceToIndex(price)
           c == [b EXCEPT !.price_orders_at_price[s] = l]
           chain == Ring(b.levels, head)
           target == chain[Min({ i \in 1 .. Len(chain) :
                        ~shouldAdvance(side, price, b.levels[chain[i]].price) \/ i = Len(chain) })]
           adv == shouldAdvance(side, price, b.levels[target].price)
           before == IF adv THEN target ELSE b.levels[target].prev
           after == IF adv THEN b.levels[target].next ELSE target
<1>0. target = Target(b.levels, head, side, price)
  BY Zenon DEF Target
<1>1. /\ Passes(b.levels, head, side, price) <=> adv
      /\ before = Before(b.levels, head, side, price) /\ after = After(b.levels, head, side, price)
  BY <1>0, Zenon DEF Passes, Before, After
<1>2. c = [b EXCEPT !.price_orders_at_price[s] = l]
  OBVIOUS
<1>3. b2 = [c EXCEPT !.levels = link(@, l, before, after),
                     !.by_price[side] = IF ~adv /\ @ = target THEN l ELSE @]
  BY Zenon DEF addOrdersAtPrice
<1> HIDE DEF c, before, after, adv, target, chain, s, head, price, side
<1>4. /\ IsBook(c) /\ c.orders = b.orders /\ c.order_pool = b.order_pool /\ c.levels = b.levels
      /\ c.level_pool = b.level_pool /\ c.oid_to_order = b.oid_to_order /\ c.by_price = b.by_price
      /\ c.aborted = b.aborted /\ c.price_orders_at_price = [b.price_orders_at_price EXCEPT ![s] = l]
  BY <1>2 DEF IsBook
<1>5. IsBook(c)
  BY <1>4
<1>6. IsBook(b2)
  BY ONLY <1>3, <1>5 DEF IsBook
<1>7. b2.levels = link(c.levels, l, before, after)
  BY ONLY <1>3, <1>5 DEF IsBook
<1>8. b2.by_price = [c.by_price EXCEPT ![side] = IF ~adv /\ @ = target THEN l ELSE @]
  BY ONLY <1>3, <1>5 DEF IsBook
<1>9. /\ b2.orders = c.orders /\ b2.order_pool = c.order_pool /\ b2.level_pool = c.level_pool
      /\ b2.oid_to_order = c.oid_to_order /\ b2.price_orders_at_price = c.price_orders_at_price
      /\ b2.aborted = c.aborted
  BY ONLY <1>3, <1>5 DEF IsBook
<1>10. [c.by_price EXCEPT ![side] = IF ~adv /\ @ = target THEN l ELSE @]
         = [b.by_price EXCEPT ![side] = IF ~adv /\ head = target THEN l ELSE head]
  BY <1>4 DEF head
<1> QED BY <1>0, <1>1, <1>4, <1>6, <1>7, <1>8, <1>9, <1>10 DEF Fields, s, price, side, head

(* A level linked in.                                                      *)
LEMMA LinkLevelIs ==
    ASSUME NEW levels \in [LevelBlocks -> LevelType], NEW l \in LevelBlocks,
           NEW before \in LevelBlocks, NEW after \in LevelBlocks, l # before, l # after,
           NEW s, s = link(levels, l, before, after)
    PROVE  /\ s \in [LevelBlocks -> LevelType]
           /\ \A m \in LevelBlocks :
                 /\ SameLevel(s[m], levels[m])
                 /\ s[m].next = IF m = l THEN after ELSE IF m = before THEN l ELSE levels[m].next
                 /\ s[m].prev = IF m = l THEN before ELSE IF m = after THEN l ELSE levels[m].prev
<1>0. LevelBlocks \subseteq Int
  BY DEF LevelBlocks, Blocks
<1>1. PICK s1 : s1 = [levels EXCEPT ![before].next = l]
  OBVIOUS
<1>2. PICK s2 : s2 = [s1 EXCEPT ![l].prev = before]
  OBVIOUS
<1>3. PICK s3 : s3 = [s2 EXCEPT ![l].next = after]
  OBVIOUS
<1>4. s = [s3 EXCEPT ![after].prev = l]
  BY <1>1, <1>2, <1>3, Zenon DEF link
<1>5. /\ s1 \in [LevelBlocks -> LevelType]
      /\ \A m \in LevelBlocks : /\ SameLevel(s1[m], levels[m])
                                /\ s1[m].next = IF m = before THEN l ELSE levels[m].next
                                /\ s1[m].prev = levels[m].prev
  BY <1>0, <1>1 DEF LevelType, SameLevel
<1>6. /\ s2 \in [LevelBlocks -> LevelType]
      /\ \A m \in LevelBlocks : /\ SameLevel(s2[m], s1[m]) /\ s2[m].next = s1[m].next
                                /\ s2[m].prev = IF m = l THEN before ELSE s1[m].prev
  BY <1>0, <1>2, <1>5 DEF LevelType, SameLevel
<1>7. /\ s3 \in [LevelBlocks -> LevelType]
      /\ \A m \in LevelBlocks : /\ SameLevel(s3[m], s2[m]) /\ s3[m].prev = s2[m].prev
                                /\ s3[m].next = IF m = l THEN after ELSE s2[m].next
  BY <1>0, <1>3, <1>6 DEF LevelType, SameLevel
<1>8. /\ s \in [LevelBlocks -> LevelType]
      /\ \A m \in LevelBlocks : /\ SameLevel(s[m], s3[m]) /\ s[m].next = s3[m].next
                                /\ s[m].prev = IF m = after THEN l ELSE s3[m].prev
  BY <1>0, <1>4, <1>7 DEF LevelType, SameLevel
<1>9. \A m \in LevelBlocks : SameLevel(s[m], levels[m])
  BY <1>5, <1>6, <1>7, <1>8 DEF SameLevel
<1> QED BY <1>5, <1>6, <1>7, <1>8, <1>9

(* A side has a first level unless its chain is empty.                     *)
LEMMA HeadOfChain ==
    ASSUME NEW b, NEW C, ChainInv(b, C), DOMAIN b.levels = LevelBlocks, NEW side \in Sides
    PROVE  /\ b.by_price[side] = nullptr <=> C[side] = <<>>
           /\ C[side] # <<>> => b.by_price[side] = C[side][1] /\ b.by_price[side] \in LevelBlocks
<1>1. ChainOf(b, side, C[side])
  BY DEF ChainInv
<1>2. ASSUME C[side] # <<>>
      PROVE  /\ b.by_price[side] = C[side][1] /\ b.by_price[side] \in LevelBlocks
             /\ b.by_price[side] # nullptr
  <2>1. IsRing(b.levels, b.by_price[side], C[side])
    BY <1>1, <1>2 DEF ChainOf
  <2>2. b.by_price[side] = C[side][1] /\ b.by_price[side] \in LevelBlocks
    BY <2>1 DEF IsRing
  <2> QED BY <2>2 DEF LevelBlocks, Blocks, nullptr
<1> QED BY <1>1, <1>2 DEF ChainOf

(* The chains after addOrdersAtPrice().                                    *)
\* b1 is the book when it is called, with the new level's block filled in.
LEMMA LevelLinked ==
    ASSUME NEW b, NEW C, ChainInv(b, C), SlotInv(b), TypeInv(b),
           NEW b1, IsBook(b1), NEW l \in LevelBlocks, l \notin InUse(b.level_pool),
           NEW side \in Sides, NEW price \in Nat,
           b1.levels \in [LevelBlocks -> LevelType], b1.by_price = b.by_price,
           InUse(b1.level_pool) = InUse(b.level_pool) \cup {l},
           b1.levels[l].side = side, b1.levels[l].price = price,
           \A m \in LevelBlocks : m # l => b1.levels[m] = b.levels[m],
           b.price_orders_at_price[priceToIndex(price)] = nullptr,
           NEW b2, b2 = addOrdersAtPrice(b1, l)
    PROVE  /\ IsBook(b2) /\ b2.orders = b1.orders /\ b2.order_pool = b1.order_pool
           /\ b2.level_pool = b1.level_pool /\ b2.oid_to_order = b1.oid_to_order
           /\ b2.price_orders_at_price = [b1.price_orders_at_price EXCEPT ![priceToIndex(price)] = l]
           /\ b2.aborted = b1.aborted
           /\ b2.by_price \in [Sides -> LevelBlocks \cup {nullptr}]
           /\ b2.levels \in [LevelBlocks -> LevelType]
           /\ \A m \in LevelBlocks : SameLevel(b2.levels[m], b1.levels[m])
           /\ \E D : ChainInv(b2, D)
<1>1. /\ b.levels \in [LevelBlocks -> LevelType] /\ DOMAIN b.levels = LevelBlocks
      /\ b.by_price \in [Sides -> LevelBlocks \cup {nullptr}]
      /\ b.price_orders_at_price \in [Slots -> LevelBlocks \cup {nullptr}]
  BY DEF TypeInv
<1>2. InUse(b.level_pool) \subseteq LevelBlocks
  BY InUseAreBlocks
<1>3. C \in [Sides -> Seq(LevelBlocks)] /\ ChainOf(b, side, C[side])
  BY DEF ChainInv
<1>4. CASE C[side] = <<>>
  <2>1. b1.by_price[b1.levels[l].side] = nullptr
    BY <1>1, <1>4, HeadOfChain
  <2>2. Fields(b2, b1.orders, b1.order_pool, [b1.levels EXCEPT ![l].prev = l, ![l].next = l],
               b1.level_pool, b1.oid_to_order,
               [b1.price_orders_at_price EXCEPT ![priceToIndex(b1.levels[l].price)] = l],
               [b1.by_price EXCEPT ![b1.levels[l].side] = l], b1.aborted)
    BY <2>1, AddLevelFirst
  <2>3. /\ IsBook(b2) /\ b2.orders = b1.orders /\ b2.order_pool = b1.order_pool
        /\ b2.level_pool = b1.level_pool /\ b2.oid_to_order = b1.oid_to_order
        /\ b2.price_orders_at_price = [b1.price_orders_at_price EXCEPT ![priceToIndex(price)] = l]
        /\ b2.aborted = b1.aborted /\ b2.by_price = [b.by_price EXCEPT ![side] = l]
        /\ b2.levels = [b1.levels EXCEPT ![l].prev = l, ![l].next = l]
    BY <2>2 DEF Fields
  <2>4. /\ b2.by_price \in [Sides -> LevelBlocks \cup {nullptr}] /\ b2.by_price[side] = l
        /\ \A s \in Sides : s # side => b2.by_price[s] = b.by_price[s]
    BY <1>1, <2>3
  <2>5. /\ b2.levels \in [LevelBlocks -> LevelType]
        /\ \A m \in LevelBlocks : SameLevel(b2.levels[m], b1.levels[m])
        /\ b2.levels[l].next = l /\ b2.levels[l].prev = l
        /\ \A m \in LevelBlocks : m # l => b2.levels[m] = b.levels[m]
    <3>1. l \in Int
      BY DEF LevelBlocks, Blocks
    <3> QED BY <2>3, <3>1 DEF LevelType, SameLevel
  <2>6. /\ DOMAIN b2.levels = LevelBlocks /\ b2.levels[l].side = side
        /\ InUse(b2.level_pool) = InUse(b.level_pool) \cup {l}
        /\ \A m \in InUse(b.level_pool) : /\ SameRank(b2.levels[m], b.levels[m])
                                          /\ SameLinks(b2.levels[m], b.levels[m])
    BY <1>2, <2>3, <2>5 DEF SameRank, SameLinks, SameLevel
  <2>7. ChainInv(b2, [C EXCEPT ![side] = <<l>>])
    BY ONLY ChainInv(b, C), side \in Sides, l \in LevelBlocks, l \notin InUse(b.level_pool),
            <1>1, <1>4, <2>4, <2>5, <2>6, ChainNew
  <2> QED BY <2>3, <2>4, <2>5, <2>7
<1>5. CASE C[side] # <<>>
  <2> DEFINE head == b.by_price[side]
             list == C[side]
             before == Before(b1.levels, head, side, price)
             after == After(b1.levels, head, side, price)
             first == ~Passes(b1.levels, head, side, price)
                        /\ head = Target(b1.levels, head, side, price)
  <2>1. head # nullptr /\ list \in Seq(LevelBlocks)
    BY <1>1, <1>3, <1>5, HeadOfChain
  <2>2. Fields(b2, b1.orders, b1.order_pool, link(b1.levels, l, before, after),
               b1.level_pool, b1.oid_to_order,
               [b1.price_orders_at_price EXCEPT ![priceToIndex(price)] = l],
               [b1.by_price EXCEPT ![side] = IF first THEN l ELSE head], b1.aborted)
    <3>1. b1.by_price[b1.levels[l].side] # nullptr
      BY <2>1
    <3>2. LET sd == b1.levels[l].side
              pr == b1.levels[l].price
              hd == b1.by_price[sd]
          IN  Fields(b2, b1.orders, b1.order_pool,
                  link(b1.levels, l, Before(b1.levels, hd, sd, pr), After(b1.levels, hd, sd, pr)),
                  b1.level_pool, b1.oid_to_order,
                  [b1.price_orders_at_price EXCEPT ![priceToIndex(pr)] = l],
                  [b1.by_price EXCEPT ![sd] =
                     IF ~Passes(b1.levels, hd, sd, pr) /\ hd = Target(b1.levels, hd, sd, pr)
                     THEN l ELSE hd], b1.aborted)
      BY <3>1, AddLevelNext, Zenon
    <3>3. b1.levels[l].side = side /\ b1.levels[l].price = price /\ b1.by_price[side] = head
      OBVIOUS
    <3> QED BY <3>2, <3>3
  <2>3. IsRing(b1.levels, head, list)
    <3>1. IsRing(b.levels, head, list)
      BY <1>3, <1>5 DEF ChainOf
    <3>2. \A i \in 1 .. Len(list) : list[i] \in InUse(b.level_pool)
      BY <1>3 DEF ChainOf
    <3>3. \A i \in 1 .. Len(list) : b1.levels[list[i]] = b.levels[list[i]]
      BY <1>2, <3>2
    <3>4. DOMAIN b1.levels = DOMAIN b.levels
      BY <1>1
    <3> HIDE DEF list, head
    <3> QED BY <3>1, <3>3, <3>4, RingFrame
  <2>4. /\ \A i \in 1 .. Len(list) : /\ list[i] \in InUse(b.level_pool) /\ list[i] \in LevelBlocks
                                     /\ b1.levels[list[i]] = b.levels[list[i]] /\ list[i] # l
                                     /\ b1.levels[list[i]].price \in Int
                                     /\ b1.levels[list[i]].price # price
        /\ \A i, j \in 1 .. Len(list) :
              i < j => Outranks(side, b1.levels[list[i]].price, b1.levels[list[j]].price)
    <3>1. \A i \in 1 .. Len(list) : /\ list[i] \in InUse(b.level_pool) /\ list[i] \in LevelBlocks
                                    /\ list[i] # l
      BY <1>2, <1>3 DEF ChainOf
    <3>2. \A i \in 1 .. Len(list) : b1.levels[list[i]] = b.levels[list[i]]
      BY <3>1
    <3>3. \A i \in 1 .. Len(list) : b.levels[list[i]].price \in Nat /\ b.levels[list[i]].price # price
      <4> TAKE i \in 1 .. Len(list)
      <4>1. /\ b.levels[list[i]].price \in Nat
            /\ b.price_orders_at_price[priceToIndex(b.levels[list[i]].price)] = list[i]
        BY <3>1 DEF SlotInv
      <4>2. list[i] # nullptr
        BY <3>1 DEF LevelBlocks, Blocks, nullptr
      <4> QED BY <4>1, <4>2
    <3>4. \A i, j \in 1 .. Len(list) :
             i < j => Outranks(side, b.levels[list[i]].price, b.levels[list[j]].price)
      BY <1>3 DEF ChainOf
    <3> HIDE DEF list
    <3> QED BY <3>1, <3>2, <3>3, <3>4
  <2> HIDE DEF list, head
  <2>5. PICK p \in 1 .. Len(list) + 1 :
           /\ before = list[IF p = 1 THEN Len(list) ELSE p - 1]
           /\ after = list[IF p = Len(list) + 1 THEN 1 ELSE p]
           /\ \A i \in 1 .. Len(list) :
                 IF i < p THEN Outranks(side, b1.levels[list[i]].price, price)
                          ELSE Outranks(side, price, b1.levels[list[i]].price)
           /\ p = 1 <=> first
    <3>1. DOMAIN b1.levels = LevelBlocks /\ price \in Int
      OBVIOUS
    <3>2. /\ \A i \in 1 .. Len(list) : b1.levels[list[i]].price \in Int /\ b1.levels[list[i]].price # price
          /\ \A i, j \in 1 .. Len(list) :
                i < j => Outranks(side, b1.levels[list[i]].price, b1.levels[list[j]].price)
      BY <2>4
    <3>3. side \in Sides
      OBVIOUS
    <3> QED BY ONLY <2>3, <3>1, <3>2, <3>3, WalkFindsPlace
  <2> HIDE DEF before, after, first
  <2>6. PICK n \in Nat : n = Len(list) /\ n > 0
    BY <2>3 DEF IsRing
  <2>7. before \in LevelBlocks /\ after \in LevelBlocks /\ before # l /\ after # l
    <3>1. /\ (IF p = 1 THEN Len(list) ELSE p - 1) \in 1 .. Len(list)
          /\ (IF p = Len(list) + 1 THEN 1 ELSE p) \in 1 .. Len(list)
      BY <2>6
    <3> QED BY <2>4, <2>5, <3>1
  <2>8. /\ IsBook(b2) /\ b2.orders = b1.orders /\ b2.order_pool = b1.order_pool
        /\ b2.level_pool = b1.level_pool /\ b2.oid_to_order = b1.oid_to_order
        /\ b2.price_orders_at_price = [b1.price_orders_at_price EXCEPT ![priceToIndex(price)] = l]
        /\ b2.aborted = b1.aborted /\ b2.levels = link(b1.levels, l, before, after)
        /\ b2.by_price = [b.by_price EXCEPT ![side] = IF first THEN l ELSE head]
    BY <2>2 DEF Fields
  <2>9. /\ b2.by_price \in [Sides -> LevelBlocks \cup {nullptr}]
        /\ b2.by_price[side] = IF p = 1 THEN l ELSE b.by_price[side]
        /\ \A s \in Sides : s # side => b2.by_price[s] = b.by_price[s]
    BY <1>1, <2>5, <2>8 DEF head
  <2>10. /\ b2.levels \in [LevelBlocks -> LevelType]
         /\ \A m \in LevelBlocks :
               /\ SameLevel(b2.levels[m], b1.levels[m])
               /\ b2.levels[m].next
                    = IF m = l THEN after ELSE IF m = before THEN l ELSE b1.levels[m].next
               /\ b2.levels[m].prev
                    = IF m = l THEN before ELSE IF m = after THEN l ELSE b1.levels[m].prev
    BY <2>7, <2>8, LinkLevelIs
  <2>11. /\ \A m \in LevelBlocks : m # l =>
               /\ SameRank(b2.levels[m], b.levels[m])
               /\ b2.levels[m].next = IF m = before THEN l ELSE b.levels[m].next
               /\ b2.levels[m].prev = IF m = after THEN l ELSE b.levels[m].prev
         /\ b2.levels[l].side = side /\ b2.levels[l].price = price
         /\ b2.levels[l].next = after /\ b2.levels[l].prev = before
         /\ DOMAIN b2.levels = LevelBlocks
         /\ InUse(b2.level_pool) = InUse(b.level_pool) \cup {l}
    BY <2>8, <2>10 DEF SameRank, SameLevel
  <2>12. \A i \in 1 .. Len(list) :
            IF i < p THEN Outranks(side, b.levels[list[i]].price, b2.levels[l].price)
                     ELSE Outranks(side, b2.levels[l].price, b.levels[list[i]].price)
    BY <2>4, <2>5, <2>11
  <2>13. ChainInv(b2, [C EXCEPT ![side] = Inserted(list, p, l)])
    <3>1. /\ ChainInv(b, C) /\ side \in Sides /\ l \in LevelBlocks /\ l \notin InUse(b.level_pool)
          /\ p \in 1 .. Len(list) + 1
      OBVIOUS
    <3>2. /\ before = list[IF p = 1 THEN Len(list) ELSE p - 1]
          /\ after = list[IF p = Len(list) + 1 THEN 1 ELSE p]
      BY <2>5
    <3>3. \A i \in 1 .. Len(C[side]) :
            IF i < p THEN Outranks(side, b.levels[C[side][i]].price, b2.levels[l].price)
                     ELSE Outranks(side, b2.levels[l].price, b.levels[C[side][i]].price)
      BY ONLY <2>12, Zenon DEF list
    <3>4. /\ p \in 1 .. Len(C[side]) + 1
          /\ before = C[side][IF p = 1 THEN Len(C[side]) ELSE p - 1]
          /\ after = C[side][IF p = Len(C[side]) + 1 THEN 1 ELSE p]
      BY ONLY <3>1, <3>2, Zenon DEF list
    <3>5. /\ DOMAIN b.levels = LevelBlocks /\ DOMAIN b2.levels = LevelBlocks
          /\ b2.by_price[side] = IF p = 1 THEN l ELSE b.by_price[side]
          /\ \A s \in Sides : s # side => b2.by_price[s] = b.by_price[s]
      BY ONLY <1>1, <2>9, <2>11
    <3>6. LevelIn(b, C, b2, side, l, p, before, after)
      BY ONLY <3>1, <3>3, <3>4, <3>5, <1>5, <2>11, Zenon DEF LevelIn
    <3>7. ChainInv(b2, [C EXCEPT ![side] = Inserted(C[side], p, l)])
      BY ONLY <3>6, ChainAdd, Zenon
    <3> QED BY ONLY <3>7, Zenon DEF list
  <2> QED BY <2>8, <2>9, <2>10, <2>13
<1> QED BY <1>4, <1>5


(* onAdd() of an order whose price has no level yet.                       *)
LEMMA OpensLevel ==
    ASSUME NEW b, NEW C, NEW Q, Structure(b, C, Q), ~Exhausted(b.order_pool), ~Exhausted(b.level_pool),
           NEW x, x = FreeBlock(b.order_pool), NEW id \in Ids, b.oid_to_order[id] = nullptr,
           NEW side \in Sides, NEW price \in Nat, NEW qty \in Nat,
           b.price_orders_at_price[priceToIndex(price)] = nullptr,
           NEW b2, b2 = addOrder(Placed(b, x, id, side, price, qty), x)
    PROVE  (\E D, P : Structure(b2, D, P)) /\ Added(b, b2, x, id, side, price, qty)
<1>1. TypeInv(b) /\ ChainInv(b, C) /\ SlotInv(b) /\ QueueInv(b, Q) /\ IndexInv(b)
  BY DEF Structure
<1>2. /\ x \in OrderBlocks /\ x \notin InUse(b.order_pool) /\ x # nullptr
      /\ PoolInv(allocate(b.order_pool), MaxOrderIds)
      /\ InUse(allocate(b.order_pool)) = InUse(b.order_pool) \cup {x}
  BY <1>1, OrderBlockTaken
<1>3. InUse(b.order_pool) \subseteq OrderBlocks /\ InUse(b.level_pool) \subseteq LevelBlocks
  BY <1>1, InUseAreBlocks
<1>4. PICK l : l = FreeBlock(b.level_pool)
  OBVIOUS
<1>5. /\ l \in LevelBlocks /\ l \notin InUse(b.level_pool) /\ l # nullptr
      /\ PoolInv(allocate(b.level_pool), MaxPriceLevels)
      /\ InUse(allocate(b.level_pool)) = InUse(b.level_pool) \cup {l}
  BY <1>1, <1>4, LevelBlockTaken
<1>7. PICK b0 : b0 = Placed(b, x, id, side, price, qty)
  OBVIOUS
<1>8. Fields(b0, [b.orders EXCEPT ![x] = NewOrder(id, side, price, qty)],
             allocate(b.order_pool), b.levels, b.level_pool, b.oid_to_order,
             b.price_orders_at_price, b.by_price, b.aborted)
  BY <1>1, <1>7, PlacedIs
<1>9. /\ b0.orders \in [OrderBlocks -> OrderType]
      /\ b0.orders[x] = NewOrder(id, side, price, qty)
      /\ \A y \in OrderBlocks : y # x => b0.orders[y] = b.orders[y]
  <2>1. NewOrder(id, side, price, qty) \in OrderType
    BY NewOrderType
  <2>2. b.orders \in [OrderBlocks -> OrderType]
    BY <1>1 DEF TypeInv
  <2>3. b0.orders = [b.orders EXCEPT ![x] = NewOrder(id, side, price, qty)]
    BY <1>8 DEF Fields
  <2> QED BY <1>2, <2>1, <2>2, <2>3
<1>10. TypeInv(b0)
  BY <1>1, <1>2, <1>8, <1>9 DEF TypeInv, Fields
<1>11. b0.orders[x].price = price /\ b0.orders[x].order_id = id /\ b0.orders[x].side = side
       /\ b0.orders[x].qty = qty
  BY <1>9 DEF NewOrder
<1>12. PICK b1 : b1 = Levelled(b0, x, l)
  OBVIOUS
<1>13. b2 = addOrdersAtPrice(b1, l)
  <2>1. b0.price_orders_at_price[priceToIndex(b0.orders[x].price)] = nullptr
    BY <1>8, <1>11 DEF Fields
  <2>2. b0.level_pool = b.level_pool
    BY <1>8 DEF Fields
  <2>3. ~Exhausted(b0.level_pool) /\ l = FreeBlock(b0.level_pool)
    BY <1>4, <2>2
  <2>4. addOrder(b0, x) = addOrdersAtPrice(Levelled(b0, x, l), l)
    BY ONLY <2>1, <2>3, AddOrderNew
  <2> QED BY <1>7, <1>12, <2>4
<1>14. Fields(b1, [b0.orders EXCEPT ![x].prev = x, ![x].next = x], b0.order_pool,
                  [b0.levels EXCEPT ![l] = NewLevel(b0.orders[x].side, b0.orders[x].price, x)],
                  allocate(b0.level_pool), [b0.oid_to_order EXCEPT ![b0.orders[x].order_id] = x],
                  b0.price_orders_at_price, b0.by_price, b0.aborted)
  BY <1>10, <1>12, LevelledIs
<1>15. /\ IsBook(b1) /\ b1.orders = [b0.orders EXCEPT ![x].prev = x, ![x].next = x]
       /\ b1.order_pool = allocate(b.order_pool)
       /\ b1.levels = [b.levels EXCEPT ![l] = NewLevel(side, price, x)]
       /\ b1.level_pool = allocate(b.level_pool)
       /\ b1.oid_to_order = [b.oid_to_order EXCEPT ![id] = x]
       /\ b1.price_orders_at_price = b.price_orders_at_price /\ b1.by_price = b.by_price
       /\ b1.aborted = b.aborted
  BY <1>8, <1>11, <1>14 DEF Fields
<1>16. /\ b1.orders \in [OrderBlocks -> OrderType]
       /\ b1.orders[x].next = x /\ b1.orders[x].prev = x /\ b1.orders[x].price = price
       /\ b1.orders[x].side = side /\ b1.orders[x].order_id = id /\ b1.orders[x].qty = qty
       /\ \A y \in OrderBlocks : y # x => b1.orders[y] = b.orders[y]
  <2>0. OrderBlocks \subseteq Int
    BY DEF OrderBlocks, Blocks
  <2>1. PICK s : s = [b0.orders EXCEPT ![x].prev = x]
    OBVIOUS
  <2>2. b1.orders = [s EXCEPT ![x].next = x]
    BY <1>15, <2>1, Zenon
  <2>3. /\ s \in [OrderBlocks -> OrderType] /\ s[x].prev = x /\ s[x].price = price
        /\ s[x].side = side /\ s[x].order_id = id /\ s[x].qty = qty
        /\ \A y \in OrderBlocks : y # x => s[y] = b.orders[y]
    BY ONLY <1>2, <1>9, <1>11, <2>0, <2>1 DEF OrderType
  <2> QED BY ONLY <1>2, <2>0, <2>2, <2>3 DEF OrderType
<1>17. /\ b1.levels \in [LevelBlocks -> LevelType]
       /\ b1.levels[l].side = side /\ b1.levels[l].price = price /\ b1.levels[l].first = x
       /\ \A m \in LevelBlocks : m # l => b1.levels[m] = b.levels[m]
  <2>1. b.levels \in [LevelBlocks -> LevelType]
    BY <1>1 DEF TypeInv
  <2>2. NewLevel(side, price, x) \in LevelType
    BY <1>2 DEF NewLevel, LevelType, OrderBlocks, Blocks, nullptr
  <2>3. /\ NewLevel(side, price, x).side = side /\ NewLevel(side, price, x).price = price
        /\ NewLevel(side, price, x).first = x
    BY DEF NewLevel
  <2> QED BY <1>5, <1>15, <2>1, <2>2, <2>3
<1>18. /\ IsBook(b2) /\ b2.orders = b1.orders /\ b2.order_pool = b1.order_pool
       /\ b2.level_pool = b1.level_pool /\ b2.oid_to_order = b1.oid_to_order
       /\ b2.price_orders_at_price = [b1.price_orders_at_price EXCEPT ![priceToIndex(price)] = l]
       /\ b2.aborted = b1.aborted
       /\ b2.by_price \in [Sides -> LevelBlocks \cup {nullptr}]
       /\ b2.levels \in [LevelBlocks -> LevelType]
       /\ \A m \in LevelBlocks : SameLevel(b2.levels[m], b1.levels[m])
       /\ \E D : ChainInv(b2, D)
  <2>1. InUse(b1.level_pool) = InUse(b.level_pool) \cup {l}
    BY <1>5, <1>15
  <2>2. b1.by_price = b.by_price /\ IsBook(b1)
    BY <1>15
  <2>3. side \in Sides /\ price \in Nat /\ b.price_orders_at_price[priceToIndex(price)] = nullptr
    OBVIOUS
  <2> QED BY ONLY <1>1, <1>5, <1>13, <1>17, <2>1, <2>2, <2>3, LevelLinked
<1>19. PICK D : ChainInv(b2, D)
  BY <1>18
<1>20. /\ InUse(b2.order_pool) = InUse(b.order_pool) \cup {x}
       /\ InUse(b2.level_pool) = InUse(b.level_pool) \cup {l}
  BY <1>2, <1>5, <1>15, <1>18
<1>21. TypeInv(b2)
  <2>1. b2.oid_to_order \in [Ids -> OrderBlocks \cup {nullptr}]
    <3>1. b.oid_to_order \in [Ids -> OrderBlocks \cup {nullptr}]
      BY <1>1 DEF TypeInv
    <3> QED BY <1>2, <1>15, <1>18, <3>1
  <2>2. b2.price_orders_at_price \in [Slots -> LevelBlocks \cup {nullptr}]
    <3>1. b.price_orders_at_price \in [Slots -> LevelBlocks \cup {nullptr}]
      BY <1>1 DEF TypeInv
    <3>2. b2.price_orders_at_price = [b.price_orders_at_price EXCEPT ![priceToIndex(price)] = l]
      BY <1>15, <1>18
    <3> QED BY ONLY <1>5, <3>1, <3>2
  <2> QED BY <1>2, <1>5, <1>15, <1>16, <1>18, <2>1, <2>2 DEF TypeInv
<1>22. /\ \A m \in InUse(b.level_pool) : SameLevel(b2.levels[m], b.levels[m])
       /\ b2.levels[l].first = x /\ b2.levels[l].price = price /\ b2.levels[l].side = side
  <2>1. \A m \in LevelBlocks : m # l => SameLevel(b2.levels[m], b.levels[m])
    BY <1>17, <1>18
  <2> QED BY <1>3, <1>5, <1>17, <1>18, <2>1 DEF SameLevel
<1>23. QueueInv(b2, [Q EXCEPT ![l] = <<x>>])
  <2>1. DOMAIN b.orders = OrderBlocks /\ DOMAIN b2.orders = OrderBlocks
    BY <1>1, <1>16, <1>18 DEF TypeInv
  <2>2. /\ \A y \in OrderBlocks : y # x => b2.orders[y] = b.orders[y]
        /\ b2.orders[x].next = x /\ b2.orders[x].prev = x
        /\ b2.orders[x].price = b2.levels[l].price /\ b2.orders[x].side = b2.levels[l].side
    BY <1>16, <1>18, <1>22
  <2>3. QueueInv(b, Q) /\ InUse(b.level_pool) \subseteq LevelBlocks
    BY <1>1, <1>3
  <2> QED BY ONLY <1>2, <1>5, <1>20, <1>22, <2>1, <2>2, <2>3, QueueNew
<1>24. SlotInv(b2)
  <2>1. b.price_orders_at_price \in [Slots -> LevelBlocks \cup {nullptr}] /\ SlotInv(b)
    BY <1>1 DEF TypeInv
  <2>2. b2.price_orders_at_price = [b.price_orders_at_price EXCEPT ![priceToIndex(price)] = l]
    BY <1>15, <1>18
  <2>3. \A m \in InUse(b.level_pool) : b2.levels[m].price = b.levels[m].price
    BY <1>22 DEF SameLevel
  <2>4. price \in Nat /\ b.price_orders_at_price[priceToIndex(price)] = nullptr
    OBVIOUS
  <2> QED BY ONLY <1>3, <1>5, <1>20, <1>22, <2>1, <2>2, <2>3, <2>4, SlotAdd
<1>25. IndexInv(b2)
  <2>1. \A y \in InUse(b.order_pool) : b2.orders[y].order_id = b.orders[y].order_id
    BY <1>2, <1>3, <1>16, <1>18
  <2>2. b.oid_to_order \in [Ids -> OrderBlocks \cup {nullptr}]
    BY <1>1 DEF TypeInv
  <2>3. /\ b2.oid_to_order = [b.oid_to_order EXCEPT ![id] = x] /\ b2.orders[x].order_id = id
        /\ IndexInv(b) /\ InUse(b.order_pool) \subseteq OrderBlocks
        /\ x \notin InUse(b.order_pool) /\ x # nullptr
    BY <1>1, <1>2, <1>3, <1>15, <1>16, <1>18
  <2>4. id \in Ids /\ b.oid_to_order[id] = nullptr
    OBVIOUS
  <2> QED BY ONLY <1>20, <2>1, <2>2, <2>3, <2>4, IndexAdd
<1>26. Added(b, b2, x, id, side, price, qty)
  <2>1. \A y \in InUse(b.order_pool) : SameTerms(b2.orders[y], b.orders[y])
    BY <1>2, <1>3, <1>16, <1>18 DEF SameTerms
  <2> QED BY <1>2, <1>15, <1>16, <1>18, <2>1 DEF Added
<1> QED BY <1>19, <1>21, <1>23, <1>24, <1>25, <1>26 DEF Structure

----------------------------------------------------------------------------
(* Removal.                                                                *)

(* The neighbours of an order that is taken out name each other.           *)
LEMMA UnlinkOrderIs ==
    ASSUME NEW orders \in [OrderBlocks -> OrderType], NEW x \in OrderBlocks,
           NEW before \in OrderBlocks, NEW after \in OrderBlocks,
           before = orders[x].prev, after = orders[x].next,
           NEW s, s = unlink(orders, x)
    PROVE  /\ s \in [OrderBlocks -> OrderType]
           /\ \A y \in OrderBlocks :
                 /\ SameOrder(s[y], orders[y]) /\ SameTerms(s[y], orders[y])
                 /\ s[y].next = IF y = before THEN after ELSE orders[y].next
                 /\ s[y].prev = IF y = after THEN before ELSE orders[y].prev
<1>0. OrderBlocks \subseteq Int
  BY DEF OrderBlocks, Blocks
<1>1. PICK s1 : s1 = [orders EXCEPT ![before].next = after]
  OBVIOUS
<1>2. s = [s1 EXCEPT ![after].prev = before]
  BY <1>1, Zenon DEF unlink
<1>3. /\ s1 \in [OrderBlocks -> OrderType]
      /\ \A y \in OrderBlocks :
            /\ SameOrder(s1[y], orders[y]) /\ SameTerms(s1[y], orders[y])
            /\ s1[y].next = IF y = before THEN after ELSE orders[y].next
            /\ s1[y].prev = orders[y].prev
  BY <1>0, <1>1 DEF OrderType, SameOrder, SameTerms
<1>4. /\ s \in [OrderBlocks -> OrderType]
      /\ \A y \in OrderBlocks :
            /\ SameOrder(s[y], s1[y]) /\ SameTerms(s[y], s1[y])
            /\ s[y].next = s1[y].next
            /\ s[y].prev = IF y = after THEN before ELSE s1[y].prev
  BY <1>0, <1>2, <1>3 DEF OrderType, SameOrder, SameTerms
<1>5. \A y \in OrderBlocks : SameOrder(s[y], orders[y]) /\ SameTerms(s[y], orders[y])
  BY <1>3, <1>4 DEF SameOrder, SameTerms
<1> QED BY <1>3, <1>4, <1>5

(* The same of a level.                                                    *)
LEMMA UnlinkLevelIs ==
    ASSUME NEW levels \in [LevelBlocks -> LevelType], NEW l \in LevelBlocks,
           NEW before \in LevelBlocks, NEW after \in LevelBlocks,
           before = levels[l].prev, after = levels[l].next,
           NEW s, s = unlink(levels, l)
    PROVE  /\ s \in [LevelBlocks -> LevelType]
           /\ \A m \in LevelBlocks :
                 /\ SameLevel(s[m], levels[m])
                 /\ s[m].next = IF m = before THEN after ELSE levels[m].next
                 /\ s[m].prev = IF m = after THEN before ELSE levels[m].prev
<1>0. LevelBlocks \subseteq Int
  BY DEF LevelBlocks, Blocks
<1>1. PICK s1 : s1 = [levels EXCEPT ![before].next = after]
  OBVIOUS
<1>2. s = [s1 EXCEPT ![after].prev = before]
  BY <1>1, Zenon DEF unlink
<1>3. /\ s1 \in [LevelBlocks -> LevelType]
      /\ \A y \in LevelBlocks :
            /\ SameLevel(s1[y], levels[y])
            /\ s1[y].next = IF y = before THEN after ELSE levels[y].next
            /\ s1[y].prev = levels[y].prev
  BY <1>0, <1>1 DEF LevelType, SameLevel
<1>4. /\ s \in [LevelBlocks -> LevelType]
      /\ \A y \in LevelBlocks :
            /\ SameLevel(s[y], s1[y])
            /\ s[y].next = s1[y].next
            /\ s[y].prev = IF y = after THEN before ELSE s1[y].prev
  BY <1>0, <1>2, <1>3 DEF LevelType, SameLevel
<1>5. \A y \in LevelBlocks : SameLevel(s[y], levels[y])
  BY <1>3, <1>4 DEF SameLevel
<1> QED BY <1>3, <1>4, <1>5

(* Where an order in use is, and which neighbours it has.                  *)
LEMMA PlaceOfOrder ==
    ASSUME NEW b, NEW Q, TypeInv(b), SlotInv(b), QueueInv(b, Q), NEW x \in InUse(b.order_pool),
           NEW l, l = b.price_orders_at_price[priceToIndex(b.orders[x].price)]
    PROVE  /\ l \in InUse(b.level_pool) /\ l # nullptr
           /\ b.levels[l].side = b.orders[x].side /\ b.levels[l].price = b.orders[x].price
           /\ b.orders[x].prev \in OrderBlocks /\ b.orders[x].next \in OrderBlocks
           /\ \E p \in 1 .. Len(Q[l]) : Q[l][p] = x
           /\ b.orders[x].prev = x => Len(Q[l]) = 1 /\ Q[l][1] = x
           /\ b.orders[x].prev # x => Len(Q[l]) > 1
<1>0. PICK m \in InUse(b.level_pool) : \E i \in 1 .. Len(Q[m]) : Q[m][i] = x
  BY DEF QueueInv
<1>3. InUse(b.order_pool) \subseteq OrderBlocks /\ InUse(b.level_pool) \subseteq LevelBlocks
  BY InUseAreBlocks
<1>1. l = m
  <2>1. QueueOf(b, m, Q[m])
    BY DEF QueueInv
  <2>2. b.orders[x].price = b.levels[m].price
    BY <1>0, <2>1 DEF QueueOf
  <2> QED BY <2>2 DEF SlotInv
<1>2. PICK p \in 1 .. Len(Q[l]) : Q[l][p] = x
  BY <1>0, <1>1
<1>4. QueueOf(b, l, Q[l]) /\ Q[l] \in Seq(OrderBlocks)
  BY <1>1, <1>3 DEF QueueInv
<1>5. b.orders[x].price = b.levels[l].price /\ b.orders[x].side = b.levels[l].side
  BY <1>2, <1>4 DEF QueueOf
<1>7. l # nullptr
  BY <1>1, <1>3 DEF LevelBlocks, Blocks, nullptr
<1>8. PICK n \in Nat : n = Len(Q[l])
  BY <1>4
<1>9. /\ b.orders[x].next = Q[l][Succ(p, n)] /\ b.orders[x].prev = Q[l][Pred(p, n)]
      /\ \A i, j \in 1 .. n : Q[l][i] = Q[l][j] => i = j
  <2>1. IsRing(b.orders, b.levels[l].first, Q[l])
    BY <1>4 DEF QueueOf
  <2> QED BY <1>2, <1>8, <2>1 DEF IsRing
<1>10. p \in 1 .. n /\ Succ(p, n) \in 1 .. n /\ Pred(p, n) \in 1 .. n
  BY <1>8 DEF Succ, Pred
<1>11. \A i \in 1 .. n : Q[l][i] \in OrderBlocks
  BY ONLY <1>4, <1>8, n \in Nat
<1>12. b.orders[x].prev \in OrderBlocks /\ b.orders[x].next \in OrderBlocks
  BY <1>9, <1>10, <1>11
<1>13. b.orders[x].prev = x => n = 1 /\ Q[l][1] = x
  <2>1. b.orders[x].prev = x => Pred(p, n) = p
    BY <1>2, <1>9, <1>10
  <2>2. Pred(p, n) = p => n = 1 /\ p = 1
    BY <1>10 DEF Pred
  <2> QED BY <1>2, <2>1, <2>2
<1>14. b.orders[x].prev # x => n > 1
  <2>1. n = 1 => Pred(p, n) = p
    BY <1>10 DEF Pred
  <2> QED BY ONLY <1>2, <1>9, <1>10, <2>1, n \in Nat
<1> QED BY <1>1, <1>2, <1>5, <1>7, <1>8, <1>12, <1>13, <1>14

\* What the removal of an order leaves of the book, apart from its lists.
Gone(b, b2, x) ==
    /\ b2.aborted = b.aborted
    /\ b2.oid_to_order = [b.oid_to_order EXCEPT ![b.orders[x].order_id] = nullptr]
    /\ \A y \in InUse(b.order_pool) : y # x => SameTerms(b2.orders[y], b.orders[y])

(* removeOrder() of an order that is not alone at its price.               *)
LEMMA RemoveOneIs ==
    ASSUME NEW b, IsBook(b), NEW x, b.orders[x].prev # x, NEW l,
           l = b.price_orders_at_price[priceToIndex(b.orders[x].price)],
           NEW b2, b2 = removeOrder(b, x)
    PROVE  Fields(b2, [unlink(b.orders, x) EXCEPT ![x] = NoOrder], deallocate(b.order_pool, {x}),
                  [b.levels EXCEPT ![l].first = IF @ = x THEN b.orders[x].next ELSE @], b.level_pool,
                  [b.oid_to_order EXCEPT ![b.orders[x].order_id] = nullptr],
                  b.price_orders_at_price, b.by_price, b.aborted \/ x \notin InUse(b.order_pool))
<1>1. PICK u : u = [b EXCEPT !.orders = unlink(@, x),
                             !.levels[l].first = IF @ = x THEN b.orders[x].next ELSE @]
  OBVIOUS
<1>2. PICK id : id = b.orders[x].order_id
  OBVIOUS
<1>3. b2 = [u EXCEPT !.orders[x] = NoOrder, !.oid_to_order[id] = nullptr,
                     !.order_pool = deallocate(@, {x}),
                     !.aborted = @ \/ x \notin InUse(b.order_pool)]
  BY <1>1, <1>2, Zenon DEF removeOrder
<1>4. IsBook(u)
  BY ONLY <1>1, IsBook(b) DEF IsBook
<1>5. u.orders = unlink(b.orders, x)
  BY ONLY <1>1, IsBook(b) DEF IsBook
<1>6. u.levels = [b.levels EXCEPT ![l].first = IF @ = x THEN b.orders[x].next ELSE @]
  BY ONLY <1>1, IsBook(b) DEF IsBook
<1>7. /\ u.order_pool = b.order_pool /\ u.level_pool = b.level_pool /\ u.oid_to_order = b.oid_to_order
      /\ u.price_orders_at_price = b.price_orders_at_price /\ u.by_price = b.by_price
      /\ u.aborted = b.aborted
  BY ONLY <1>1, IsBook(b) DEF IsBook
<1>8. IsBook(b2)
  BY ONLY <1>3, <1>4 DEF IsBook
<1>9. b2.orders = [u.orders EXCEPT ![x] = NoOrder]
  BY ONLY <1>3, <1>4 DEF IsBook
<1>10. b2.oid_to_order = [u.oid_to_order EXCEPT ![id] = nullptr]
  BY ONLY <1>3, <1>4 DEF IsBook
<1>11. b2.order_pool = deallocate(u.order_pool, {x})
  BY ONLY <1>3, <1>4 DEF IsBook
<1>12. b2.aborted = (u.aborted \/ x \notin InUse(b.order_pool))
  BY ONLY <1>3, <1>4 DEF IsBook
<1>13. /\ b2.levels = u.levels /\ b2.level_pool = u.level_pool
       /\ b2.price_orders_at_price = u.price_orders_at_price /\ b2.by_price = u.by_price
  BY ONLY <1>3, <1>4 DEF IsBook
<1> QED BY ONLY <1>2, <1>5, <1>6, <1>7, <1>8, <1>9, <1>10, <1>11, <1>12, <1>13, Zenon DEF Fields

\* The block of a removed order goes back to its pool.
LEMMA OrderBlockReturned ==
    ASSUME NEW b, TypeInv(b), NEW x \in InUse(b.order_pool)
    PROVE  /\ PoolInv(deallocate(b.order_pool, {x}), MaxOrderIds)
           /\ InUse(deallocate(b.order_pool, {x})) = InUse(b.order_pool) \ {x}
<1>1. MaxOrderIds \in Nat \ {0} /\ PoolInv(b.order_pool, MaxOrderIds)
  BY BookAssumption DEF TypeInv
<1>2. {x} \in SUBSET InUse(b.order_pool)
  OBVIOUS
<1> QED BY ONLY <1>1, <1>2, Deallocates

\* The block of a removed level goes back to its pool.
LEMMA LevelBlockReturned ==
    ASSUME NEW b, TypeInv(b), NEW l \in InUse(b.level_pool)
    PROVE  /\ PoolInv(deallocate(b.level_pool, {l}), MaxPriceLevels)
           /\ InUse(deallocate(b.level_pool, {l})) = InUse(b.level_pool) \ {l}
<1>1. MaxPriceLevels \in Nat \ {0} /\ PoolInv(b.level_pool, MaxPriceLevels)
  BY BookAssumption DEF TypeInv
<1>2. {l} \in SUBSET InUse(b.level_pool)
  OBVIOUS
<1> QED BY ONLY <1>1, <1>2, Deallocates

(* onCancel() of an order that is not alone at its price.                  *)
LEMMA LeavesLevel ==
    ASSUME NEW b, NEW C, NEW Q, Structure(b, C, Q), b.aborted = FALSE,
           NEW x \in InUse(b.order_pool), b.orders[x].prev # x,
           NEW b2, b2 = removeOrder(b, x)
    PROVE  (\E P : Structure(b2, C, P)) /\ Gone(b, b2, x)
<1>1. TypeInv(b) /\ ChainInv(b, C) /\ SlotInv(b) /\ QueueInv(b, Q) /\ IndexInv(b) /\ IsBook(b)
  BY DEF Structure, TypeInv
<1>2. InUse(b.order_pool) \subseteq OrderBlocks /\ InUse(b.level_pool) \subseteq LevelBlocks
  BY <1>1, InUseAreBlocks
<1>3. PICK l : l = b.price_orders_at_price[priceToIndex(b.orders[x].price)]
  OBVIOUS
<1>4. /\ l \in InUse(b.level_pool)
      /\ b.orders[x].prev \in OrderBlocks /\ b.orders[x].next \in OrderBlocks
      /\ \E p \in 1 .. Len(Q[l]) : Q[l][p] = x
      /\ Len(Q[l]) > 1
  BY <1>1, <1>3, PlaceOfOrder
<1>5. PICK p \in 1 .. Len(Q[l]) : Q[l][p] = x
  BY <1>4
<1>6. PICK before, after : before = b.orders[x].prev /\ after = b.orders[x].next
  OBVIOUS
<1>7. Fields(b2, [unlink(b.orders, x) EXCEPT ![x] = NoOrder], deallocate(b.order_pool, {x}),
             [b.levels EXCEPT ![l].first = IF @ = x THEN b.orders[x].next ELSE @], b.level_pool,
             [b.oid_to_order EXCEPT ![b.orders[x].order_id] = nullptr],
             b.price_orders_at_price, b.by_price, b.aborted \/ x \notin InUse(b.order_pool))
  BY <1>1, <1>3, RemoveOneIs
<1>8. /\ b2.orders = [unlink(b.orders, x) EXCEPT ![x] = NoOrder]
      /\ b2.order_pool = deallocate(b.order_pool, {x})
      /\ b2.levels = [b.levels EXCEPT ![l].first = IF @ = x THEN after ELSE @]
      /\ b2.level_pool = b.level_pool
      /\ b2.oid_to_order = [b.oid_to_order EXCEPT ![b.orders[x].order_id] = nullptr]
      /\ b2.price_orders_at_price = b.price_orders_at_price /\ b2.by_price = b.by_price
      /\ b2.aborted = b.aborted /\ IsBook(b2)
  BY <1>6, <1>7 DEF Fields
<1>9. /\ b2.orders \in [OrderBlocks -> OrderType]
      /\ \A y \in OrderBlocks : y # x =>
            /\ SameOrder(b2.orders[y], b.orders[y]) /\ SameTerms(b2.orders[y], b.orders[y])
            /\ b2.orders[y].next = IF y = before THEN after ELSE b.orders[y].next
            /\ b2.orders[y].prev = IF y = after THEN before ELSE b.orders[y].prev
  <2>1. PICK s : s = unlink(b.orders, x)
    OBVIOUS
  <2>2. b.orders \in [OrderBlocks -> OrderType] /\ x \in OrderBlocks
        /\ before \in OrderBlocks /\ after \in OrderBlocks
    BY <1>1, <1>2, <1>4, <1>6 DEF TypeInv
  <2>3. /\ s \in [OrderBlocks -> OrderType]
        /\ \A y \in OrderBlocks :
                 /\ SameOrder(s[y], b.orders[y]) /\ SameTerms(s[y], b.orders[y])
                 /\ s[y].next = IF y = before THEN after ELSE b.orders[y].next
                 /\ s[y].prev = IF y = after THEN before ELSE b.orders[y].prev
    BY <1>6, <2>1, <2>2, UnlinkOrderIs
  <2>4. NoOrder \in OrderType
    BY DEF NoOrder, OrderType, NoPrice, nullptr
  <2>5. b2.orders = [s EXCEPT ![x] = NoOrder]
    BY <1>8, <2>1
  <2>6. \A y \in OrderBlocks : y # x => b2.orders[y] = s[y]
    BY ONLY <2>3, <2>5
  <2>7. b2.orders \in [OrderBlocks -> OrderType]
    BY ONLY <2>3, <2>4, <2>5
  <2> QED BY <2>3, <2>6, <2>7
<1>10. /\ b2.levels \in [LevelBlocks -> LevelType]
       /\ \A m \in LevelBlocks : m # l => b2.levels[m] = b.levels[m]
       /\ b2.levels[l].price = b.levels[l].price /\ b2.levels[l].side = b.levels[l].side
       /\ SameLinks(b2.levels[l], b.levels[l])
       /\ b2.levels[l].first = IF b.levels[l].first = x THEN after ELSE b.levels[l].first
  <2>1. b.levels \in [LevelBlocks -> LevelType] /\ l \in LevelBlocks /\ after \in Int
    BY <1>1, <1>2, <1>4, <1>6 DEF TypeInv, OrderBlocks, Blocks
  <2>2. PICK r : r = [b.levels[l] EXCEPT !.first = IF @ = x THEN after ELSE @]
    OBVIOUS
  <2>3. b2.levels = [b.levels EXCEPT ![l] = r]
    BY ONLY <1>8, <2>2, Zenon
  <2>4. /\ r \in LevelType /\ r.price = b.levels[l].price /\ r.side = b.levels[l].side
        /\ SameLinks(r, b.levels[l])
        /\ r.first = IF b.levels[l].first = x THEN after ELSE b.levels[l].first
    BY ONLY <2>1, <2>2 DEF LevelType, SameLinks
  <2> QED BY ONLY <2>1, <2>3, <2>4
<1>11. /\ InUse(b2.order_pool) = InUse(b.order_pool) \ {x} /\ InUse(b2.level_pool) = InUse(b.level_pool)
       /\ PoolInv(b2.order_pool, MaxOrderIds)
  <2>1. /\ PoolInv(deallocate(b.order_pool, {x}), MaxOrderIds)
        /\ InUse(deallocate(b.order_pool, {x})) = InUse(b.order_pool) \ {x}
    BY <1>1, OrderBlockReturned
  <2> QED BY ONLY <1>8, <2>1
<1>12. TypeInv(b2)
  <2>1. b2.oid_to_order \in [Ids -> OrderBlocks \cup {nullptr}]
    <3>1. b.oid_to_order \in [Ids -> OrderBlocks \cup {nullptr}]
      BY <1>1 DEF TypeInv
    <3> QED BY ONLY <1>8, <3>1
  <2> QED BY <1>1, <1>8, <1>9, <1>10, <1>11, <2>1 DEF TypeInv
<1>13. QueueInv(b2, [Q EXCEPT ![l] = Removed(Q[l], p)])
  <2>1. DOMAIN b.orders = OrderBlocks /\ DOMAIN b2.orders = OrderBlocks
    BY <1>1, <1>9 DEF TypeInv
  <2>2. \A m \in InUse(b.level_pool) : m # l => SameLevel(b2.levels[m], b.levels[m])
    BY <1>2, <1>10 DEF SameLevel
  <2>3. \A y \in OrderBlocks : y # x =>
              /\ SameOrder(b2.orders[y], b.orders[y])
              /\ b2.orders[y].next = IF y = before THEN after ELSE b.orders[y].next
              /\ b2.orders[y].prev = IF y = after THEN before ELSE b.orders[y].prev
    BY <1>9, Zenon
  <2>4. /\ p \in 1 .. Len(Q[l]) /\ InUse(b2.order_pool) = InUse(b.order_pool) \ {x}
        /\ InUse(b2.level_pool) = InUse(b.level_pool) /\ l \in InUse(b.level_pool) /\ Len(Q[l]) > 1
        /\ SlotInv(b) /\ QueueInv(b, Q) /\ InUse(b.level_pool) \subseteq LevelBlocks
    BY <1>1, <1>2, <1>4, <1>11
  <2>5. OrderOut(b, Q, b2, l, p, x, before, after)
    BY ONLY <1>5, <1>6, <1>10, <2>1, <2>2, <2>3, <2>4, Zenon DEF OrderOut
  <2> QED BY ONLY <2>5, QueueRemove, Zenon
<1>14. ChainInv(b2, C)
  <2>1. \A m \in InUse(b.level_pool) : /\ SameRank(b2.levels[m], b.levels[m])
                                       /\ SameLinks(b2.levels[m], b.levels[m])
    BY <1>2, <1>10 DEF SameRank, SameLinks
  <2>2. DOMAIN b2.levels = DOMAIN b.levels
    BY <1>1, <1>10 DEF TypeInv
  <2> QED BY <1>1, <1>8, <1>11, <2>1, <2>2, ChainFrame
<1>15. SlotInv(b2)
  <2>1. \A m \in InUse(b.level_pool) : b2.levels[m].price = b.levels[m].price
    BY <1>2, <1>10
  <2> QED BY <1>1, <1>8, <1>11, <2>1, SlotFrame
<1>16. IndexInv(b2)
  <2>1. \A y \in InUse(b2.order_pool) : b2.orders[y].order_id = b.orders[y].order_id
    BY <1>2, <1>9, <1>11 DEF SameOrder
  <2>2. b.oid_to_order \in [Ids -> OrderBlocks \cup {nullptr}]
    BY <1>1 DEF TypeInv
  <2> QED BY <1>1, <1>8, <1>11, <2>1, <2>2, IndexRemove
<1>17. Gone(b, b2, x)
  BY <1>2, <1>8, <1>9 DEF Gone
<1> QED BY <1>12, <1>13, <1>14, <1>15, <1>16, <1>17 DEF Structure

(* Where a level in use is, and which neighbours it has.                   *)
LEMMA PlaceOfLevel ==
    ASSUME NEW b, NEW C, TypeInv(b), ChainInv(b, C), NEW l \in InUse(b.level_pool),
           NEW side, side = b.levels[l].side
    PROVE  /\ side \in Sides /\ b.levels[l].prev \in LevelBlocks /\ b.levels[l].next \in LevelBlocks
           /\ \E p \in 1 .. Len(C[side]) : C[side][p] = l
           /\ b.levels[l].next = l => Len(C[side]) = 1
           /\ b.levels[l].next # l => Len(C[side]) > 1
<1>1. side \in Sides /\ \E i \in 1 .. Len(C[side]) : C[side][i] = l
  BY DEF ChainInv
<1>2. PICK p \in 1 .. Len(C[side]) : C[side][p] = l
  BY <1>1
<1>3. ChainOf(b, side, C[side]) /\ C[side] \in Seq(LevelBlocks)
  BY <1>1 DEF ChainInv
<1>4. PICK n \in Nat : n = Len(C[side])
  BY <1>3
<1>5. C[side] # <<>>
  <2>1. C[side] = <<>> => Len(C[side]) = 0
    OBVIOUS
  <2> QED BY ONLY <1>4, <2>1, p \in 1 .. Len(C[side]), n \in Nat
<1>6. /\ b.levels[l].next = C[side][Succ(p, n)] /\ b.levels[l].prev = C[side][Pred(p, n)]
      /\ \A i, j \in 1 .. n : C[side][i] = C[side][j] => i = j
  <2>1. IsRing(b.levels, b.by_price[side], C[side])
    BY <1>3, <1>5 DEF ChainOf
  <2> QED BY <1>2, <1>4, <2>1 DEF IsRing
<1>7. p \in 1 .. n /\ Succ(p, n) \in 1 .. n /\ Pred(p, n) \in 1 .. n
  BY <1>4 DEF Succ, Pred
<1>8. \A i \in 1 .. n : C[side][i] \in LevelBlocks
  BY ONLY <1>3, <1>4, n \in Nat
<1>9. b.levels[l].prev \in LevelBlocks /\ b.levels[l].next \in LevelBlocks
  BY <1>6, <1>7, <1>8
<1>10. b.levels[l].next = l => n = 1
  <2>1. b.levels[l].next = l => Succ(p, n) = p
    BY ONLY <1>2, <1>6, <1>7
  <2>2. Succ(p, n) = p => n = 1
    BY <1>7 DEF Succ
  <2> QED BY <2>1, <2>2
<1>11. b.levels[l].next # l => n > 1
  <2>1. n = 1 => Succ(p, n) = p
    BY <1>7 DEF Succ
  <2> QED BY ONLY <1>2, <1>6, <1>7, <2>1, n \in Nat
<1> QED BY <1>1, <1>2, <1>4, <1>9, <1>10, <1>11

(* removeOrder() of the last order at its price, which takes the level too. *)
LEMMA RemoveLastIs ==
    ASSUME NEW b, IsBook(b), NEW x, b.orders[x].prev = x, NEW l, NEW side,
           l = b.price_orders_at_price[priceToIndex(b.orders[x].price)], l # nullptr,
           side = b.orders[x].side, NEW b2, b2 = removeOrder(b, x)
    PROVE  Fields(b2, [b.orders EXCEPT ![x] = NoOrder], deallocate(b.order_pool, {x}),
                  [unlink(b.levels, l) EXCEPT ![l] = NoLevel], deallocate(b.level_pool, {l}),
                  [b.oid_to_order EXCEPT ![b.orders[x].order_id] = nullptr],
                  [b.price_orders_at_price EXCEPT ![priceToIndex(b.orders[x].price)] = nullptr],
                  [b.by_price EXCEPT ![side] = IF b.levels[l].next = l THEN nullptr
                                               ELSE IF b.by_price[side] = l THEN b.levels[l].next
                                               ELSE b.by_price[side]],
                  (b.aborted \/ l \notin InUse(b.level_pool)) \/ x \notin InUse(b.order_pool))
<1>1. PICK u : u = removeOrdersAtPrice(b, b.orders[x].side, b.orders[x].price)
  OBVIOUS
<1>2. PICK id : id = b.orders[x].order_id
  OBVIOUS
<1>3. b2 = [u EXCEPT !.orders[x] = NoOrder, !.oid_to_order[id] = nullptr,
                     !.order_pool = deallocate(@, {x}),
                     !.aborted = @ \/ x \notin InUse(b.order_pool)]
  BY <1>1, <1>2, Zenon DEF removeOrder
<1>4. PICK i : i = priceToIndex(b.orders[x].price)
  OBVIOUS
<1>5. u = [b EXCEPT
           !.levels = [unlink(@, l) EXCEPT ![l] = NoLevel],
           !.by_price[side] = IF b.levels[l].next = l THEN nullptr
                              ELSE IF @ = l THEN b.levels[l].next ELSE @,
           !.price_orders_at_price[i] = nullptr,
           !.level_pool = deallocate(@, {l}),
           !.aborted = @ \/ l \notin InUse(b.level_pool)]
  BY <1>1, <1>4, Zenon DEF removeOrdersAtPrice
<1>6. IsBook(u)
  BY ONLY <1>5, IsBook(b) DEF IsBook
<1>7. u.levels = [unlink(b.levels, l) EXCEPT ![l] = NoLevel]
  BY ONLY <1>5, IsBook(b) DEF IsBook
<1>8. u.by_price = [b.by_price EXCEPT ![side] =
                      IF b.levels[l].next = l THEN nullptr
                      ELSE IF b.by_price[side] = l THEN b.levels[l].next ELSE b.by_price[side]]
  BY ONLY <1>5, IsBook(b) DEF IsBook
<1>9. u.price_orders_at_price = [b.price_orders_at_price EXCEPT ![i] = nullptr]
  BY ONLY <1>5, IsBook(b) DEF IsBook
<1>10. u.level_pool = deallocate(b.level_pool, {l})
  BY ONLY <1>5, IsBook(b) DEF IsBook
<1>11. u.aborted = (b.aborted \/ l \notin InUse(b.level_pool))
  BY ONLY <1>5, IsBook(b) DEF IsBook
<1>12. u.orders = b.orders /\ u.order_pool = b.order_pool /\ u.oid_to_order = b.oid_to_order
  BY ONLY <1>5, IsBook(b) DEF IsBook
<1>13. IsBook(b2)
  BY ONLY <1>3, <1>6 DEF IsBook
<1>14. b2.orders = [u.orders EXCEPT ![x] = NoOrder]
  BY ONLY <1>3, <1>6 DEF IsBook
<1>15. b2.oid_to_order = [u.oid_to_order EXCEPT ![id] = nullptr]
  BY ONLY <1>3, <1>6 DEF IsBook
<1>16. b2.order_pool = deallocate(u.order_pool, {x})
  BY ONLY <1>3, <1>6 DEF IsBook
<1>17. b2.aborted = (u.aborted \/ x \notin InUse(b.order_pool))
  BY ONLY <1>3, <1>6 DEF IsBook
<1>18. /\ b2.levels = u.levels /\ b2.level_pool = u.level_pool
       /\ b2.price_orders_at_price = u.price_orders_at_price /\ b2.by_price = u.by_price
  BY ONLY <1>3, <1>6 DEF IsBook
<1> QED BY ONLY <1>2, <1>4, <1>7, <1>8, <1>9, <1>10, <1>11, <1>12, <1>13, <1>14, <1>15, <1>16,
                <1>17, <1>18, Zenon DEF Fields

(* onCancel() of the last order at its price.                              *)
LEMMA ClosesLevel ==
    ASSUME NEW b, NEW C, NEW Q, Structure(b, C, Q), b.aborted = FALSE,
           NEW x \in InUse(b.order_pool), b.orders[x].prev = x,
           NEW b2, b2 = removeOrder(b, x)
    PROVE  (\E D : Structure(b2, D, Q)) /\ Gone(b, b2, x)
<1>1. TypeInv(b) /\ ChainInv(b, C) /\ SlotInv(b) /\ QueueInv(b, Q) /\ IndexInv(b) /\ IsBook(b)
  BY DEF Structure, TypeInv
<1>2. InUse(b.order_pool) \subseteq OrderBlocks /\ InUse(b.level_pool) \subseteq LevelBlocks
  BY <1>1, InUseAreBlocks
<1>3. PICK l : l = b.price_orders_at_price[priceToIndex(b.orders[x].price)]
  OBVIOUS
<1>4. /\ l \in InUse(b.level_pool) /\ l # nullptr /\ b.levels[l].price = b.orders[x].price
      /\ b.levels[l].side = b.orders[x].side /\ Len(Q[l]) = 1 /\ Q[l][1] = x
  BY <1>1, <1>3, PlaceOfOrder
<1>5. PICK side : side = b.orders[x].side
  OBVIOUS
<1>6. /\ side \in Sides /\ b.levels[l].prev \in LevelBlocks /\ b.levels[l].next \in LevelBlocks
      /\ \E p \in 1 .. Len(C[side]) : C[side][p] = l
      /\ b.levels[l].next = l => Len(C[side]) = 1
      /\ b.levels[l].next # l => Len(C[side]) > 1
  <2>1. side = b.levels[l].side
    BY <1>4, <1>5
  <2> QED BY <1>1, <1>4, <2>1, PlaceOfLevel
<1>7. PICK before, after : before = b.levels[l].prev /\ after = b.levels[l].next
  OBVIOUS
<1>8. Fields(b2, [b.orders EXCEPT ![x] = NoOrder], deallocate(b.order_pool, {x}),
             [unlink(b.levels, l) EXCEPT ![l] = NoLevel], deallocate(b.level_pool, {l}),
             [b.oid_to_order EXCEPT ![b.orders[x].order_id] = nullptr],
             [b.price_orders_at_price EXCEPT ![priceToIndex(b.orders[x].price)] = nullptr],
             [b.by_price EXCEPT ![side] = IF b.levels[l].next = l THEN nullptr
                                          ELSE IF b.by_price[side] = l THEN b.levels[l].next
                                          ELSE b.by_price[side]],
             (b.aborted \/ l \notin InUse(b.level_pool)) \/ x \notin InUse(b.order_pool))
  BY <1>1, <1>3, <1>4, <1>5, RemoveLastIs
<1>9. /\ b2.orders = [b.orders EXCEPT ![x] = NoOrder] /\ b2.order_pool = deallocate(b.order_pool, {x})
      /\ b2.levels = [unlink(b.levels, l) EXCEPT ![l] = NoLevel]
      /\ b2.level_pool = deallocate(b.level_pool, {l})
      /\ b2.oid_to_order = [b.oid_to_order EXCEPT ![b.orders[x].order_id] = nullptr]
      /\ b2.price_orders_at_price
           = [b.price_orders_at_price EXCEPT ![priceToIndex(b.levels[l].price)] = nullptr]
      /\ b2.by_price = [b.by_price EXCEPT ![side] = IF after = l THEN nullptr
                                                    ELSE IF b.by_price[side] = l THEN after
                                                    ELSE b.by_price[side]]
      /\ b2.aborted = b.aborted /\ IsBook(b2)
  BY <1>4, <1>7, <1>8, Zenon DEF Fields
<1>10. /\ b2.orders \in [OrderBlocks -> OrderType]
       /\ \A y \in OrderBlocks : y # x => b2.orders[y] = b.orders[y]
  <2>1. b.orders \in [OrderBlocks -> OrderType]
    BY <1>1 DEF TypeInv
  <2>2. NoOrder \in OrderType
    BY DEF NoOrder, OrderType, NoPrice, nullptr
  <2> QED BY ONLY <1>9, <2>1, <2>2
<1>11. /\ b2.levels \in [LevelBlocks -> LevelType]
       /\ \A m \in LevelBlocks : m # l =>
            /\ SameLevel(b2.levels[m], b.levels[m])
            /\ b2.levels[m].next = IF m = before THEN after ELSE b.levels[m].next
            /\ b2.levels[m].prev = IF m = after THEN before ELSE b.levels[m].prev
  <2>1. PICK s : s = unlink(b.levels, l)
    OBVIOUS
  <2>2. /\ b.levels \in [LevelBlocks -> LevelType] /\ l \in LevelBlocks
        /\ before \in LevelBlocks /\ after \in LevelBlocks
    BY <1>1, <1>2, <1>4, <1>6, <1>7 DEF TypeInv
  <2>3. /\ s \in [LevelBlocks -> LevelType]
        /\ \A m \in LevelBlocks :
                 /\ SameLevel(s[m], b.levels[m])
                 /\ s[m].next = IF m = before THEN after ELSE b.levels[m].next
                 /\ s[m].prev = IF m = after THEN before ELSE b.levels[m].prev
    BY <1>7, <2>1, <2>2, UnlinkLevelIs
  <2>4. NoLevel \in LevelType
    BY DEF NoLevel, LevelType, NoPrice, nullptr
  <2>5. b2.levels = [s EXCEPT ![l] = NoLevel]
    BY <1>9, <2>1
  <2>6. \A m \in LevelBlocks : m # l => b2.levels[m] = s[m]
    BY ONLY <2>3, <2>5
  <2>7. b2.levels \in [LevelBlocks -> LevelType]
    BY ONLY <2>3, <2>4, <2>5
  <2> QED BY <2>3, <2>6, <2>7
<1>12. /\ InUse(b2.order_pool) = InUse(b.order_pool) \ {x} /\ PoolInv(b2.order_pool, MaxOrderIds)
       /\ InUse(b2.level_pool) = InUse(b.level_pool) \ {l} /\ PoolInv(b2.level_pool, MaxPriceLevels)
  <2>1. /\ PoolInv(deallocate(b.order_pool, {x}), MaxOrderIds)
        /\ InUse(deallocate(b.order_pool, {x})) = InUse(b.order_pool) \ {x}
    BY <1>1, OrderBlockReturned
  <2>2. /\ PoolInv(deallocate(b.level_pool, {l}), MaxPriceLevels)
        /\ InUse(deallocate(b.level_pool, {l})) = InUse(b.level_pool) \ {l}
    BY <1>1, <1>4, LevelBlockReturned
  <2> QED BY ONLY <1>9, <2>1, <2>2
<1>13. /\ b2.by_price[side] = IF after = l THEN nullptr
                              ELSE IF b.by_price[side] = l THEN after ELSE b.by_price[side]
       /\ \A s \in Sides : s # side => b2.by_price[s] = b.by_price[s]
       /\ b2.by_price \in [Sides -> LevelBlocks \cup {nullptr}]
  <2>1. b.by_price \in [Sides -> LevelBlocks \cup {nullptr}] /\ after \in LevelBlocks
    BY <1>1, <1>6, <1>7 DEF TypeInv
  <2> QED BY ONLY <1>6, <1>9, <2>1
<1>14. TypeInv(b2)
  <2>1. b2.oid_to_order \in [Ids -> OrderBlocks \cup {nullptr}]
    <3>1. b.oid_to_order \in [Ids -> OrderBlocks \cup {nullptr}]
      BY <1>1 DEF TypeInv
    <3> QED BY ONLY <1>9, <3>1
  <2>2. b2.price_orders_at_price \in [Slots -> LevelBlocks \cup {nullptr}]
    <3>1. b.price_orders_at_price \in [Slots -> LevelBlocks \cup {nullptr}]
      BY <1>1 DEF TypeInv
    <3> QED BY ONLY <1>9, <3>1
  <2> QED BY <1>9, <1>10, <1>11, <1>12, <1>13, <2>1, <2>2 DEF TypeInv
<1>15. \A m \in InUse(b2.level_pool) : m \in LevelBlocks /\ m # l /\ SameLevel(b2.levels[m], b.levels[m])
  BY <1>2, <1>11, <1>12
<1>16. QueueInv(b2, Q)
  <2>1. DOMAIN b.orders = OrderBlocks /\ DOMAIN b2.orders = OrderBlocks
    BY <1>1, <1>10 DEF TypeInv
  <2>2. \A m \in InUse(b2.level_pool) : SameLevel(b2.levels[m], b.levels[m])
    BY <1>15
  <2> QED BY ONLY <1>1, <1>2, <1>4, <1>10, <1>12, <2>1, <2>2, QueueDrop
<1>17. \E D : ChainInv(b2, D)
  <2>0. DOMAIN b.levels = LevelBlocks /\ DOMAIN b2.levels = LevelBlocks
    BY <1>1, <1>11 DEF TypeInv
  <2>1. CASE after = l
    <3>1. Len(C[side]) = 1 /\ b2.by_price[side] = nullptr
      BY <1>6, <1>7, <1>13, <2>1
    <3>2. before = l
      <4>1. PICK p \in 1 .. Len(C[side]) : C[side][p] = l
        BY <1>6
      <4>2. IsRing(b.levels, b.by_price[side], C[side])
        <5>1. ChainOf(b, side, C[side]) /\ C[side] # <<>>
          <6>1. C[side] = <<>> => Len(C[side]) = 0
            OBVIOUS
          <6> QED BY <1>1, <1>6, <3>1, <6>1 DEF ChainInv
        <5> QED BY <5>1 DEF ChainOf
      <4>3. b.levels[C[side][p]].prev = C[side][Pred(p, 1)] /\ p = 1
        BY <3>1, <4>2 DEF IsRing
      <4> QED BY <1>7, <4>1, <4>3 DEF Pred
    <3>3. \A m \in InUse(b2.level_pool) : /\ SameRank(b2.levels[m], b.levels[m])
                                          /\ SameLinks(b2.levels[m], b.levels[m])
      BY <1>11, <1>15, <2>1, <3>2 DEF SameLevel, SameRank, SameLinks
    <3>4. side \in Sides /\ b.levels[l].side = side /\ ChainInv(b, C) /\ l \in InUse(b.level_pool)
          /\ InUse(b2.level_pool) = InUse(b.level_pool) \ {l}
          /\ \A s \in Sides : s # side => b2.by_price[s] = b.by_price[s]
      BY <1>1, <1>4, <1>5, <1>6, <1>12, <1>13
    <3>5. ChainInv(b2, [C EXCEPT ![side] = <<>>])
      BY ONLY <2>0, <3>1, <3>3, <3>4, ChainDrop
    <3> QED BY <3>5
  <2>2. CASE after # l
    <3>1. PICK p \in 1 .. Len(C[side]) : C[side][p] = l
      BY <1>6
    <3>2. Len(C[side]) > 1
      BY <1>6, <1>7, <2>2
    <3>3. b2.by_price[side] = IF b.by_price[side] = l THEN after ELSE b.by_price[side]
      BY <1>13, <2>2
    <3>4. side \in Sides /\ b.levels[l].side = side /\ ChainInv(b, C) /\ l \in InUse(b.level_pool)
          /\ InUse(b2.level_pool) = InUse(b.level_pool) \ {l}
          /\ \A s \in Sides : s # side => b2.by_price[s] = b.by_price[s]
          /\ p \in 1 .. Len(C[side])
      BY <1>1, <1>4, <1>5, <1>6, <1>12, <1>13
    <3>5. \A m \in LevelBlocks : m # l =>
              /\ SameRank(b2.levels[m], b.levels[m])
              /\ b2.levels[m].next = IF m = before THEN after ELSE b.levels[m].next
              /\ b2.levels[m].prev = IF m = after THEN before ELSE b.levels[m].prev
      BY <1>11 DEF SameLevel, SameRank
    <3>6. LevelOut(b, C, b2, side, l, p, before, after)
      BY ONLY <1>7, <2>0, <3>1, <3>2, <3>3, <3>4, <3>5, Zenon DEF LevelOut
    <3>7. ChainInv(b2, [C EXCEPT ![side] = Removed(C[side], p)])
      BY ONLY <3>6, ChainRemove, Zenon
    <3> QED BY <3>7
  <2> QED BY <2>1, <2>2
<1>18. SlotInv(b2)
  <2>1. \A m \in InUse(b2.level_pool) : b2.levels[m].price = b.levels[m].price
    BY <1>15 DEF SameLevel
  <2>2. b.price_orders_at_price \in [Slots -> LevelBlocks \cup {nullptr}]
    BY <1>1 DEF TypeInv
  <2>3. /\ SlotInv(b) /\ l \in InUse(b.level_pool) /\ InUse(b2.level_pool) = InUse(b.level_pool) \ {l}
        /\ b2.price_orders_at_price
             = [b.price_orders_at_price EXCEPT ![priceToIndex(b.levels[l].price)] = nullptr]
    BY ONLY <1>1, <1>4, <1>9, <1>12
  <2> QED BY ONLY <2>1, <2>2, <2>3, SlotRemove
<1>19. IndexInv(b2)
  <2>1. \A y \in InUse(b2.order_pool) : b2.orders[y].order_id = b.orders[y].order_id
    BY <1>2, <1>10, <1>12
  <2>2. b.oid_to_order \in [Ids -> OrderBlocks \cup {nullptr}] /\ IndexInv(b)
    BY <1>1 DEF TypeInv
  <2>3. x \in InUse(b.order_pool)
    OBVIOUS
  <2> QED BY ONLY <1>9, <1>12, <2>1, <2>2, <2>3, IndexRemove
<1>20. Gone(b, b2, x)
  BY <1>2, <1>9, <1>10 DEF Gone, SameTerms
<1> QED BY <1>14, <1>16, <1>17, <1>18, <1>19, <1>20 DEF Structure

(* removeOrder() of any order in use.                                      *)
LEMMA RemovesOrder ==
    ASSUME NEW b, NEW C, NEW Q, Structure(b, C, Q), b.aborted = FALSE,
           NEW x \in InUse(b.order_pool), NEW b2, b2 = removeOrder(b, x)
    PROVE  (\E D, P : Structure(b2, D, P)) /\ Gone(b, b2, x)
<1>1. CASE b.orders[x].prev = x
  BY <1>1, ClosesLevel
<1>2. CASE b.orders[x].prev # x
  BY <1>2, LeavesLevel
<1> QED BY <1>1, <1>2

----------------------------------------------------------------------------
(* The pools do not run out: there is a block for every id and every slot. *)

(* A one-to-one table leaves no pool of n blocks exhausted while one of n  *)
(* keys has no block.                                                      *)
LEMMA BlockLeft ==
    ASSUME NEW n \in Nat \ {0}, NEW pool, PoolInv(pool, n), NEW k \in 0 .. n - 1,
           NEW f \in [InUse(pool) -> 0 .. n - 1],
           \A x \in InUse(pool) : f[x] # k,
           \A x, y \in InUse(pool) : f[x] = f[y] => x = y
    PROVE  ~Exhausted(pool)
<1> SUFFICES ASSUME Exhausted(pool) PROVE FALSE
  OBVIOUS
<1>1. InUse(pool) = 0 .. n - 1
  BY ExhaustedIs
<1>2. PICK S : S = 0 .. n - 1
  OBVIOUS
<1>3. PICK T : T = S \ {k}
  OBVIOUS
<1>4. IsFiniteSet(0 .. n - 1) /\ Cardinality(0 .. n - 1) = n
  BY FS_Interval
<1>5. IsFiniteSet(T) /\ Cardinality(T) = n - 1
  <2>1. IsFiniteSet(S) /\ Cardinality(S) = n /\ k \in S
    BY <1>2, <1>4
  <2> QED BY <1>3, <2>1, FS_RemoveElement
<1>6. IsFiniteSet(S) /\ Cardinality(T) < Cardinality(S)
  BY <1>2, <1>4, <1>5
<1>7. f \in [S -> T]
  BY <1>1, <1>2, <1>3
<1>8. \E x, y \in S : x # y /\ f[x] = f[y]
  BY <1>5, <1>6, <1>7, FS_PigeonHole
<1> QED BY <1>1, <1>2, <1>8

(* An id that the index does not hold has a block.                         *)
LEMMA OrderBlockLeft ==
    ASSUME NEW b, TypeInv(b), IndexInv(b), NEW id \in Ids, b.oid_to_order[id] = nullptr
    PROVE  ~Exhausted(b.order_pool)
<1> DEFINE f == [x \in InUse(b.order_pool) |-> b.orders[x].order_id]
<1>1. MaxOrderIds \in Nat \ {0} /\ PoolInv(b.order_pool, MaxOrderIds)
  BY BookAssumption DEF TypeInv
<1>2. \A x \in InUse(b.order_pool) : x # nullptr
  <2>1. InUse(b.order_pool) \subseteq OrderBlocks
    BY InUseAreBlocks
  <2> QED BY <2>1 DEF OrderBlocks, Blocks, nullptr
<1>3. f \in [InUse(b.order_pool) -> 0 .. MaxOrderIds - 1]
  BY DEF IndexInv, Ids
<1>4. \A x \in InUse(b.order_pool) : f[x] # id
  BY <1>2 DEF IndexInv
<1>5. \A x, y \in InUse(b.order_pool) : f[x] = f[y] => x = y
  BY DEF IndexInv
<1>6. id \in 0 .. MaxOrderIds - 1
  BY DEF Ids
<1> HIDE DEF f
<1> QED BY <1>1, <1>3, <1>4, <1>5, <1>6, BlockLeft

(* A price whose slot is empty has a block.                                *)
LEMMA LevelBlockLeft ==
    ASSUME NEW b, TypeInv(b), SlotInv(b), NEW price \in Nat,
           b.price_orders_at_price[priceToIndex(price)] = nullptr
    PROVE  ~Exhausted(b.level_pool)
<1> DEFINE f == [l \in InUse(b.level_pool) |-> priceToIndex(b.levels[l].price)]
<1>1. MaxPriceLevels \in Nat \ {0} /\ PoolInv(b.level_pool, MaxPriceLevels)
  BY BookAssumption DEF TypeInv
<1>2. \A l \in InUse(b.level_pool) : l # nullptr
  <2>1. InUse(b.level_pool) \subseteq LevelBlocks
    BY InUseAreBlocks
  <2> QED BY <2>1 DEF LevelBlocks, Blocks, nullptr
<1>3. \A l \in InUse(b.level_pool) : priceToIndex(b.levels[l].price) \in 0 .. MaxPriceLevels - 1
  <2>1. \A l \in InUse(b.level_pool) : b.levels[l].price \in Nat
    BY DEF SlotInv
  <2>2. \A p \in Nat : priceToIndex(p) \in Slots
    BY SlotOfPrice
  <2> QED BY <2>1, <2>2 DEF Slots
<1>4. f \in [InUse(b.level_pool) -> 0 .. MaxPriceLevels - 1]
  BY <1>3
<1>5. \A l \in InUse(b.level_pool) : f[l] # priceToIndex(price)
  BY <1>2 DEF SlotInv
<1>6. \A l, m \in InUse(b.level_pool) : f[l] = f[m] => l = m
  BY DEF SlotInv
<1>7. priceToIndex(price) \in 0 .. MaxPriceLevels - 1
  BY SlotOfPrice DEF Slots
<1> HIDE DEF f
<1> QED BY <1>1, <1>4, <1>5, <1>6, <1>7, BlockLeft

----------------------------------------------------------------------------
(* What leaves the lists alone: a new quantity, a refreshed BBO.           *)

(* The lists do not depend on the quantities.                              *)
LEMMA Requantified ==
    ASSUME NEW b, NEW C, NEW Q, NEW b2, Structure(b, C, Q), IsBook(b2),
           b2.order_pool = b.order_pool, b2.levels = b.levels, b2.level_pool = b.level_pool,
           b2.oid_to_order = b.oid_to_order, b2.price_orders_at_price = b.price_orders_at_price,
           b2.by_price = b.by_price, b2.orders \in [OrderBlocks -> OrderType],
           \A x \in OrderBlocks : /\ SameOrder(b2.orders[x], b.orders[x])
                                  /\ SameLinks(b2.orders[x], b.orders[x])
    PROVE  Structure(b2, C, Q)
<1>1. TypeInv(b) /\ ChainInv(b, C) /\ SlotInv(b) /\ QueueInv(b, Q) /\ IndexInv(b)
  BY DEF Structure
<1>2. InUse(b.order_pool) \subseteq OrderBlocks /\ InUse(b.level_pool) \subseteq LevelBlocks
  BY <1>1, InUseAreBlocks
<1>3. TypeInv(b2)
  BY <1>1 DEF TypeInv
<1>4. ChainInv(b2, C)
  BY <1>1, ChainFrame DEF SameRank, SameLinks
<1>5. SlotInv(b2)
  BY <1>1, SlotFrame
<1>6. IndexInv(b2)
  BY <1>1, <1>2, IndexFrame DEF SameOrder
<1>7. QueueInv(b2, Q)
  <2>1. ASSUME NEW l \in InUse(b.level_pool) PROVE QueueOf(b2, l, Q[l])
    <3>1. QueueOf(b, l, Q[l])
      BY <1>1 DEF QueueInv
    <3>2. \A i \in 1 .. Len(Q[l]) : /\ Q[l][i] \in InUse(b2.order_pool)
                                    /\ SameOrder(b2.orders[Q[l][i]], b.orders[Q[l][i]])
                                    /\ SameLinks(b2.orders[Q[l][i]], b.orders[Q[l][i]])
      BY <1>2, <3>1 DEF QueueOf
    <3>3. DOMAIN b2.orders = DOMAIN b.orders /\ SameLevel(b2.levels[l], b.levels[l])
      BY <1>1 DEF TypeInv, SameLevel
    <3> QED BY ONLY <3>1, <3>2, <3>3, QueueFrame
  <2> QED BY <1>1, <2>1 DEF QueueInv
<1> QED BY <1>3, <1>4, <1>5, <1>6, <1>7 DEF Structure

(* updateBBO() assigns the BBO and nothing else, and twice is once.        *)
LEMMA UpdateBBOIs ==
    ASSUME NEW b, IsBook(b), NEW b2, b2 = updateBBO(b)
    PROVE  /\ Fields(b2, b.orders, b.order_pool, b.levels, b.level_pool, b.oid_to_order,
                     b.price_orders_at_price, b.by_price, b.aborted)
           /\ BboInv(b2)
<1> DEFINE Price(by, levels, side) == IF by[side] = nullptr THEN NoPrice ELSE levels[by[side]].price
           Qty(c, side) == IF c.by_price[side] = nullptr THEN 0 ELSE Total(c, c.by_price[side])
           Bbo(c) == [bid_price |-> Price(c.by_price, c.levels, "BUY"), bid_qty |-> Qty(c, "BUY"),
                      ask_price |-> Price(c.by_price, c.levels, "SELL"), ask_qty |-> Qty(c, "SELL")]
<1>1. \A c : updateBBO(c) = [c EXCEPT !.bbo = Bbo(c)]
  BY Zenon DEF updateBBO
<1>2. PICK v : v = Bbo(b)
  OBVIOUS
<1>3. b2 = [b EXCEPT !.bbo = v]
  BY <1>1, <1>2
<1>4. IsBook(b2)
  BY ONLY <1>3, IsBook(b) DEF IsBook
<1>5. b2.bbo = v
  BY ONLY <1>3, IsBook(b) DEF IsBook
<1>6. /\ b2.orders = b.orders /\ b2.order_pool = b.order_pool /\ b2.levels = b.levels
      /\ b2.level_pool = b.level_pool /\ b2.oid_to_order = b.oid_to_order
      /\ b2.price_orders_at_price = b.price_orders_at_price /\ b2.by_price = b.by_price
      /\ b2.aborted = b.aborted
  BY ONLY <1>3, IsBook(b) DEF IsBook
<1>7. \A l : Total(b2, l) = Total(b, l)
  BY <1>6, Zenon DEF Total
<1>8. Bbo(b2) = v
  BY <1>2, <1>6, <1>7
<1>9. updateBBO(b2) = [b2 EXCEPT !.bbo = v]
  BY <1>1, <1>8
<1>10. updateBBO(b2).bbo = v
  BY ONLY <1>4, <1>9 DEF IsBook
<1> QED BY <1>4, <1>5, <1>6, <1>10 DEF Fields, BboInv

(* Of a book with these fields the structure is the same.                  *)
LEMMA Refreshed ==
    ASSUME NEW b, NEW C, NEW Q, Structure(b, C, Q), NEW b2,
           Fields(b2, b.orders, b.order_pool, b.levels, b.level_pool, b.oid_to_order,
                  b.price_orders_at_price, b.by_price, b.aborted)
    PROVE  Structure(b2, C, Q)
<1>1. /\ IsBook(b2) /\ b2.order_pool = b.order_pool /\ b2.levels = b.levels
      /\ b2.level_pool = b.level_pool /\ b2.oid_to_order = b.oid_to_order
      /\ b2.price_orders_at_price = b.price_orders_at_price /\ b2.by_price = b.by_price
      /\ b2.orders = b.orders
  BY DEF Fields
<1>2. b2.orders \in [OrderBlocks -> OrderType]
  BY <1>1 DEF Structure, TypeInv
<1>3. \A x \in OrderBlocks : /\ SameOrder(b2.orders[x], b.orders[x])
                             /\ SameLinks(b2.orders[x], b.orders[x])
  BY <1>1 DEF SameOrder, SameLinks
<1> QED BY <1>1, <1>2, <1>3, Requantified

----------------------------------------------------------------------------
(* The empty book.                                                         *)

(* A new pool has all blocks free.                                         *)
LEMMA NewPoolIs ==
    ASSUME NEW n \in Nat \ {0}
    PROVE  PoolInv(NewPool(n), n) /\ InUse(NewPool(n)) = {}
<1>1. /\ NewPool(n).is_free = [x \in 0 .. n - 1 |-> TRUE] /\ NewPool(n).free_count = n
      /\ NewPool(n) \in [is_free : [Blocks(n) -> BOOLEAN], next_free_index : Blocks(n), free_count : Nat]
  BY DEF NewPool, Blocks
<1>2. Free(NewPool(n)) = 0 .. n - 1
  BY <1>1 DEF Free
<1>3. Cardinality(0 .. n - 1) = n
  BY FS_Interval
<1> QED BY <1>1, <1>2, <1>3 DEF PoolInv, InUse

\* Everything but the pools is as in NewBook.
IsEmpty(b) ==
    /\ IsBook(b) /\ b.orders = [x \in OrderBlocks |-> NoOrder]
    /\ b.levels = [x \in LevelBlocks |-> NoLevel]
    /\ b.oid_to_order = [id \in Ids |-> nullptr]
    /\ b.price_orders_at_price = [s \in Slots |-> nullptr]
    /\ b.by_price = [side \in Sides |-> nullptr] /\ b.bbo = NoBBO

(* Nothing is in the lists of an empty book.                               *)
LEMMA EmptyIs ==
    ASSUME NEW b, IsEmpty(b), PoolInv(b.order_pool, MaxOrderIds), InUse(b.order_pool) = {},
           PoolInv(b.level_pool, MaxPriceLevels), InUse(b.level_pool) = {}
    PROVE  Structure(b, [side \in Sides |-> <<>>], [l \in LevelBlocks |-> <<>>])
<1>1. NoOrder \in OrderType /\ NoLevel \in LevelType
  BY DEF NoOrder, OrderType, NoLevel, LevelType, NoPrice, nullptr
<1>2. TypeInv(b)
  BY <1>1 DEF IsEmpty, TypeInv
<1>3. ChainInv(b, [side \in Sides |-> <<>>])
  <2> DEFINE C == [side \in Sides |-> <<>>]
  <2>1. C \in [Sides -> Seq(LevelBlocks)]
    OBVIOUS
  <2>2. \A side \in Sides : b.by_price[side] = nullptr
    BY DEF IsEmpty
  <2>3. ASSUME NEW side \in Sides PROVE ChainOf(b, side, C[side])
    <3>1. C[side] = <<>> /\ Len(C[side]) = 0 /\ 1 .. Len(C[side]) = {}
      OBVIOUS
    <3> HIDE DEF C
    <3> QED BY <2>2, <3>1 DEF ChainOf
  <2> QED BY <2>1, <2>3 DEF ChainInv
<1>4. SlotInv(b) /\ IndexInv(b)
  BY DEF IsEmpty, SlotInv, IndexInv
<1>5. QueueInv(b, [l \in LevelBlocks |-> <<>>])
  BY DEF QueueInv
<1> QED BY <1>2, <1>3, <1>4, <1>5 DEF Structure

(* A new book is empty.                                                    *)
LEMMA NewBookIs ==
    /\ IsEmpty(NewBook) /\ NewBook.order_pool = NewPool(MaxOrderIds)
    /\ NewBook.level_pool = NewPool(MaxPriceLevels) /\ NewBook.aborted = FALSE
BY DEF NewBook, IsEmpty, IsBook, OrderBlocks, LevelBlocks, Ids, Slots

(* Its BBO has no prices.                                                  *)
LEMMA EmptyBBO ==
    ASSUME NEW b, IsEmpty(b)
    PROVE  BboInv(b)
<1>1. b.by_price["BUY"] = nullptr /\ b.by_price["SELL"] = nullptr /\ IsBook(b)
  BY DEF IsEmpty, Sides
<1>2. updateBBO(b) = [b EXCEPT !.bbo = [bid_price |-> NoPrice, bid_qty |-> 0,
                                        ask_price |-> NoPrice, ask_qty |-> 0]]
  BY <1>1 DEF updateBBO
<1>3. updateBBO(b) = [b EXCEPT !.bbo = NoBBO]
  BY <1>2, Zenon DEF NoBBO
<1>4. updateBBO(b).bbo = NoBBO
  BY ONLY <1>1, <1>3 DEF IsBook
<1> QED BY <1>4 DEF BboInv, IsEmpty

(* The tables name the blocks in use.                                      *)
LEMMA TablesNameBlocks ==
    ASSUME NEW b, TypeInv(b), SlotInv(b), IndexInv(b)
    PROVE  /\ Named(b.oid_to_order) = InUse(b.order_pool)
           /\ Named(b.price_orders_at_price) = InUse(b.level_pool)
<1>1. InUse(b.order_pool) \subseteq OrderBlocks /\ InUse(b.level_pool) \subseteq LevelBlocks
  BY InUseAreBlocks
<1>2. nullptr \notin InUse(b.order_pool) /\ nullptr \notin InUse(b.level_pool)
  BY <1>1 DEF OrderBlocks, LevelBlocks, Blocks, nullptr
<1>3. DOMAIN b.oid_to_order = Ids /\ DOMAIN b.price_orders_at_price = Slots
  BY DEF TypeInv
<1>4. \A x \in InUse(b.order_pool) : \E id \in Ids : b.oid_to_order[id] = x
  BY DEF IndexInv
<1>5. \A id \in Ids : b.oid_to_order[id] # nullptr => b.oid_to_order[id] \in InUse(b.order_pool)
  BY DEF IndexInv
<1>6. \A l \in InUse(b.level_pool) : \E s \in Slots : b.price_orders_at_price[s] = l
  BY SlotOfPrice DEF SlotInv
<1>7. \A s \in Slots : b.price_orders_at_price[s] # nullptr
                         => b.price_orders_at_price[s] \in InUse(b.level_pool)
  BY DEF SlotInv
<1> QED BY <1>2, <1>3, <1>4, <1>5, <1>6, <1>7 DEF Named

(* clearBook() gives every block back and leaves an empty book.            *)
LEMMA ClearsBook ==
    ASSUME NEW b, NEW C, NEW Q, Structure(b, C, Q), b.aborted = FALSE, NEW b2, b2 = clearBook(b)
    PROVE  (\E D, P : Structure(b2, D, P)) /\ IsEmpty(b2) /\ b2.aborted = FALSE
<1>1. TypeInv(b) /\ SlotInv(b) /\ IndexInv(b)
  BY DEF Structure
<1>2. /\ Named(b.oid_to_order) = InUse(b.order_pool)
      /\ Named(b.price_orders_at_price) = InUse(b.level_pool)
  BY <1>1, TablesNameBlocks
<1>3. PICK op, lp, nb : /\ op = deallocate(b.order_pool, InUse(b.order_pool))
                        /\ lp = deallocate(b.level_pool, InUse(b.level_pool)) /\ nb = NewBook
  OBVIOUS
<1>4. PICK fail : fail = (b.aborted \/ ~(InUse(b.order_pool) \subseteq InUse(b.order_pool))
                                    \/ ~(InUse(b.level_pool) \subseteq InUse(b.level_pool)))
  OBVIOUS
<1>5. fail = FALSE
  BY <1>4
<1>6. b2 = [nb EXCEPT !.order_pool = op, !.level_pool = lp, !.aborted = fail]
  BY <1>2, <1>3, <1>4, Zenon DEF clearBook
<1>7. IsEmpty(nb)
  BY <1>3, NewBookIs
<1>8. IsBook(nb)
  BY <1>7 DEF IsEmpty
<1>9. IsBook(b2)
  BY ONLY <1>6, <1>8 DEF IsBook
<1>10. b2.order_pool = op /\ b2.level_pool = lp /\ b2.aborted = fail
  BY ONLY <1>6, <1>8 DEF IsBook
<1>11. /\ b2.orders = nb.orders /\ b2.levels = nb.levels /\ b2.oid_to_order = nb.oid_to_order
       /\ b2.price_orders_at_price = nb.price_orders_at_price /\ b2.by_price = nb.by_price
       /\ b2.bbo = nb.bbo
  BY ONLY <1>6, <1>8 DEF IsBook
<1>12. IsEmpty(b2)
  BY ONLY <1>7, <1>9, <1>11, Zenon DEF IsEmpty
<1>13. PoolInv(op, MaxOrderIds) /\ InUse(op) = {}
  <2>1. MaxOrderIds \in Nat \ {0} /\ PoolInv(b.order_pool, MaxOrderIds)
    BY <1>1, BookAssumption DEF TypeInv
  <2>2. /\ PoolInv(deallocate(b.order_pool, InUse(b.order_pool)), MaxOrderIds)
        /\ InUse(deallocate(b.order_pool, InUse(b.order_pool)))
             = InUse(b.order_pool) \ InUse(b.order_pool)
    BY <2>1, Deallocates
  <2> QED BY <1>3, <2>2
<1>14. PoolInv(lp, MaxPriceLevels) /\ InUse(lp) = {}
  <2>1. MaxPriceLevels \in Nat \ {0} /\ PoolInv(b.level_pool, MaxPriceLevels)
    BY <1>1, BookAssumption DEF TypeInv
  <2>2. /\ PoolInv(deallocate(b.level_pool, InUse(b.level_pool)), MaxPriceLevels)
        /\ InUse(deallocate(b.level_pool, InUse(b.level_pool)))
             = InUse(b.level_pool) \ InUse(b.level_pool)
    BY <2>1, Deallocates
  <2> QED BY <1>3, <2>2
<1>15. Structure(b2, [side \in Sides |-> <<>>], [l \in LevelBlocks |-> <<>>])
  BY <1>10, <1>12, <1>13, <1>14, EmptyIs
<1> QED BY <1>5, <1>10, <1>12, <1>15

----------------------------------------------------------------------------
(* The orders in use and the feed.                                         *)

\* Shown(), of a feed f.
Shows(f, id, price) ==
    /\ Fits(id)
    /\ \A k \in DOMAIN f : f[k].shown /\ priceToIndex(f[k].price) = priceToIndex(price)
                             => f[k].price = price
FeedWith(f, id, side, price, qty, shown) ==
    [k \in DOMAIN f \cup {id} |->
       IF k = id THEN [side |-> side, price |-> price, qty |-> qty, shown |-> shown] ELSE f[k]]

(* An order in use is one that the feed has told of.                       *)
LEMMA OrdersAreTold ==
    ASSUME NEW b, NEW f, NEW n, IndexInv(b), TypeInv(b), FeedInv(b, f, n),
           NEW y \in InUse(b.order_pool), NEW k, k = b.orders[y].order_id
    PROVE  /\ k \in Ids /\ k \in DOMAIN f /\ f[k].shown /\ k < n /\ b.oid_to_order[k] = y
           /\ b.orders[y].side = f[k].side /\ b.orders[y].price = f[k].price
           /\ b.orders[y].qty = f[k].qty
<1>1. k \in Ids /\ b.oid_to_order[k] = y
  BY DEF IndexInv
<1>2. y # nullptr
  <2>1. InUse(b.order_pool) \subseteq OrderBlocks
    BY InUseAreBlocks
  <2> QED BY <2>1 DEF OrderBlocks, Blocks, nullptr
<1>3. k \in DOMAIN f /\ f[k].shown
  BY <1>1, <1>2 DEF FeedInv
<1>4. k < n
  BY <1>3 DEF FeedInv
<1>5. /\ b.orders[y].side = f[k].side /\ b.orders[y].price = f[k].price
      /\ b.orders[y].qty = f[k].qty
  BY <1>1, <1>2 DEF FeedInv
<1> QED BY <1>1, <1>3, <1>4, <1>5

(* A level in use has an order that the feed has told of.                  *)
LEMMA LevelsAreTold ==
    ASSUME NEW b, NEW Q, NEW f, NEW n, IndexInv(b), TypeInv(b), QueueInv(b, Q), FeedInv(b, f, n),
           NEW l \in InUse(b.level_pool)
    PROVE  \E k \in DOMAIN f : /\ f[k].shown /\ f[k].price = b.levels[l].price
                               /\ f[k].side = b.levels[l].side
<1>1. QueueOf(b, l, Q[l])
  BY DEF QueueInv
<1>2. 1 \in 1 .. Len(Q[l])
  BY <1>1 DEF QueueOf, IsRing
<1>3. PICK y \in InUse(b.order_pool) : /\ b.orders[y].price = b.levels[l].price
                                       /\ b.orders[y].side = b.levels[l].side
  BY <1>1, <1>2 DEF QueueOf
<1>4. PICK k : k = b.orders[y].order_id
  OBVIOUS
<1>5. /\ k \in DOMAIN f /\ f[k].shown /\ b.orders[y].side = f[k].side
      /\ b.orders[y].price = f[k].price
  BY <1>4, OrdersAreTold
<1> QED BY <1>3, <1>5

(* An order that the feed has told of has its level.                       *)
LEMMA ToldHaveLevels ==
    ASSUME NEW b, NEW Q, NEW f, NEW n, SlotInv(b), IndexInv(b), TypeInv(b), QueueInv(b, Q),
           FeedInv(b, f, n), NEW k \in DOMAIN f, f[k].shown, NEW x, x = b.oid_to_order[k]
    PROVE  /\ x \in InUse(b.order_pool) /\ k \in Ids /\ b.orders[x].order_id = k
           /\ \E l \in InUse(b.level_pool) :
                 /\ l = b.price_orders_at_price[priceToIndex(f[k].price)]
                 /\ b.levels[l].price = f[k].price /\ b.levels[l].side = f[k].side
                 /\ \E p \in 1 .. Len(Q[l]) : Q[l][p] = x
<1>1. k \in Ids /\ x # nullptr
  BY DEF FeedInv
<1>2. x \in InUse(b.order_pool) /\ b.orders[x].order_id = k
  BY <1>1 DEF IndexInv
<1>3. b.orders[x].price = f[k].price /\ b.orders[x].side = f[k].side
  BY <1>1 DEF FeedInv
<1>4. PICK l : l = b.price_orders_at_price[priceToIndex(b.orders[x].price)]
  OBVIOUS
<1>5. /\ l \in InUse(b.level_pool) /\ b.levels[l].side = b.orders[x].side
      /\ b.levels[l].price = b.orders[x].price /\ \E p \in 1 .. Len(Q[l]) : Q[l][p] = x
  BY ONLY <1>2, <1>4, TypeInv(b), SlotInv(b), QueueInv(b, Q), PlaceOfOrder
<1>6. l = b.price_orders_at_price[priceToIndex(f[k].price)]
  BY <1>3, <1>4
<1> QED BY <1>1, <1>2, <1>3, <1>5, <1>6

(* The arrays have room for the order exactly when onAdd() does not drop it. *)
LEMMA ShowsIs ==
    ASSUME NEW b, NEW Q, NEW f, NEW n, SlotInv(b), IndexInv(b), TypeInv(b), QueueInv(b, Q),
           FeedInv(b, f, n), NEW id, NEW price \in Nat
    PROVE  Shows(f, id, price) <=> Fits(id) /\ ~Aliased(b, price)
<1>1. ASSUME Aliased(b, price), Shows(f, id, price) PROVE FALSE
  <2>1. PICK l : l = b.price_orders_at_price[priceToIndex(price)]
    OBVIOUS
  <2>2. l # nullptr /\ b.levels[l].price # price
    BY <1>1, <2>1 DEF Aliased
  <2>3. priceToIndex(price) \in Slots
    BY SlotOfPrice
  <2>4. l \in InUse(b.level_pool) /\ priceToIndex(b.levels[l].price) = priceToIndex(price)
    BY <2>1, <2>2, <2>3 DEF SlotInv
  <2>5. PICK k \in DOMAIN f : f[k].shown /\ f[k].price = b.levels[l].price
    BY <2>4, LevelsAreTold
  <2> QED BY <1>1, <2>2, <2>4, <2>5 DEF Shows
<1>2. ASSUME ~Aliased(b, price), Fits(id) PROVE Shows(f, id, price)
  <2> SUFFICES ASSUME NEW k \in DOMAIN f, f[k].shown,
                      priceToIndex(f[k].price) = priceToIndex(price)
               PROVE  f[k].price = price
    BY <1>2 DEF Shows
  <2>1. PICK x : x = b.oid_to_order[k]
    OBVIOUS
  <2>2. PICK l \in InUse(b.level_pool) :
              /\ l = b.price_orders_at_price[priceToIndex(f[k].price)]
              /\ b.levels[l].price = f[k].price
    BY <2>1, ToldHaveLevels
  <2>3. l # nullptr
    <3>1. InUse(b.level_pool) \subseteq LevelBlocks
      BY InUseAreBlocks
    <3> QED BY <3>1 DEF LevelBlocks, Blocks, nullptr
  <2>4. l = b.price_orders_at_price[priceToIndex(price)]
    BY <2>2
  <2> QED BY <1>2, <2>2, <2>3, <2>4 DEF Aliased
<1>3. Shows(f, id, price) => Fits(id)
  BY DEF Shows
<1> QED BY <1>1, <1>2, <1>3

(* The feed tells of an order that the book has taken.                     *)
LEMMA FeedTaken ==
    ASSUME NEW b, NEW b2, NEW f, NEW n, NEW x, TypeInv(b), IndexInv(b), FeedInv(b, f, n),
           NEW id \in Ids, id >= n, NEW side \in Sides, NEW price \in Nat, NEW qty \in Nat,
           Added(b, b2, x, id, side, price, qty)
    PROVE  FeedInv(b2, FeedWith(f, id, side, price, qty, TRUE), id + 1)
<1> DEFINE f2 == FeedWith(f, id, side, price, qty, TRUE)
<1>1. n \in Nat /\ f \in [DOMAIN f -> FeedType] /\ id \in Nat /\ id \notin DOMAIN f
  BY DEF FeedInv, Ids
<1>2. /\ DOMAIN f2 = DOMAIN f \cup {id} /\ \A k \in DOMAIN f : k # id => f2[k] = f[k]
      /\ f2[id] = [side |-> side, price |-> price, qty |-> qty, shown |-> TRUE]
  BY DEF FeedWith
<1> HIDE DEF f2
<1>3. f2 \in [DOMAIN f2 -> FeedType]
  <2>1. f2[id] \in FeedType
    BY <1>2 DEF FeedType
  <2>2. \A k \in DOMAIN f2 : f2[k] \in FeedType
    BY <1>1, <1>2, <2>1
  <2>3. f2 = [k \in DOMAIN f2 |-> f2[k]]
    BY DEF f2, FeedWith
  <2> QED BY <2>2, <2>3
<1>4. /\ f2[id].side = side /\ f2[id].price = price /\ f2[id].qty = qty /\ f2[id].shown
  BY <1>2
<1>5. \A k \in DOMAIN f2 : k \in Nat /\ k < id + 1 /\ (f2[k].shown => k \in Ids)
  BY <1>1, <1>2 DEF FeedInv
<1>6. \A k \in Ids : b2.oid_to_order[k] = IF k = id THEN x ELSE b.oid_to_order[k]
  <2>1. b.oid_to_order \in [Ids -> OrderBlocks \cup {nullptr}]
    BY DEF TypeInv
  <2> QED BY <2>1 DEF Added
<1>7. x # nullptr
  BY DEF Added, OrderBlocks, Blocks, nullptr
<1>8. \A k \in Ids : b2.oid_to_order[k] # nullptr <=> k \in DOMAIN f2 /\ f2[k].shown
  BY <1>1, <1>2, <1>4, <1>6, <1>7 DEF FeedInv
<1>9. ASSUME NEW k \in Ids, b2.oid_to_order[k] # nullptr
      PROVE  LET order == b2.orders[b2.oid_to_order[k]]
             IN  order.side = f2[k].side /\ order.price = f2[k].price /\ order.qty = f2[k].qty
  <2>1. CASE k = id
    BY <1>4, <1>6, <2>1 DEF Added
  <2>2. CASE k # id
    <3>1. PICK y : y = b.oid_to_order[k]
      OBVIOUS
    <3>2. b2.oid_to_order[k] = y /\ y # nullptr
      BY <1>6, <1>9, <2>2, <3>1
    <3>3. y \in InUse(b.order_pool)
      BY <3>1, <3>2 DEF IndexInv
    <3>4. SameTerms(b2.orders[y], b.orders[y])
      BY <3>3 DEF Added
    <3>5. b.orders[y].side = f[k].side /\ b.orders[y].price = f[k].price /\ b.orders[y].qty = f[k].qty
      BY <3>1, <3>2 DEF FeedInv
    <3>6. k \in DOMAIN f /\ f2[k] = f[k]
      BY <1>2, <2>2, <3>1, <3>2 DEF FeedInv
    <3> QED BY <3>2, <3>4, <3>5, <3>6 DEF SameTerms
  <2> QED BY <2>1, <2>2
<1>10. id + 1 \in Nat
  BY <1>1
<1> QED BY <1>3, <1>5, <1>8, <1>9, <1>10 DEF FeedInv, f2

(* The feed tells of an order that the book has no room for.               *)
LEMMA FeedDropped ==
    ASSUME NEW b, NEW f, NEW n, FeedInv(b, f, n), NEW id \in Nat, id >= n,
           NEW side \in Sides, NEW price \in Nat, NEW qty \in Nat
    PROVE  FeedInv(b, FeedWith(f, id, side, price, qty, FALSE), id + 1)
<1> DEFINE f2 == FeedWith(f, id, side, price, qty, FALSE)
<1>1. n \in Nat /\ f \in [DOMAIN f -> FeedType] /\ id \notin DOMAIN f
  BY DEF FeedInv
<1>2. /\ DOMAIN f2 = DOMAIN f \cup {id} /\ \A k \in DOMAIN f : k # id => f2[k] = f[k]
      /\ f2[id] = [side |-> side, price |-> price, qty |-> qty, shown |-> FALSE]
  BY DEF FeedWith
<1> HIDE DEF f2
<1>3. f2 \in [DOMAIN f2 -> FeedType] /\ ~f2[id].shown
  <2>1. f2[id] \in FeedType /\ f2[id].shown = FALSE
    BY <1>2 DEF FeedType
  <2>2. \A k \in DOMAIN f2 : f2[k] \in FeedType
    BY <1>1, <1>2, <2>1
  <2>3. f2 = [k \in DOMAIN f2 |-> f2[k]]
    BY DEF f2, FeedWith
  <2> QED BY <2>1, <2>2, <2>3
<1>5. \A k \in DOMAIN f2 : k \in Nat /\ k < id + 1 /\ (f2[k].shown => k \in Ids)
  BY <1>1, <1>2, <1>3 DEF FeedInv
<1>8. \A k \in Ids : b.oid_to_order[k] # nullptr <=> k \in DOMAIN f2 /\ f2[k].shown
  BY <1>1, <1>2, <1>3 DEF FeedInv
<1>9. ASSUME NEW k \in Ids, b.oid_to_order[k] # nullptr
      PROVE  LET order == b.orders[b.oid_to_order[k]]
             IN  order.side = f2[k].side /\ order.price = f2[k].price /\ order.qty = f2[k].qty
  BY <1>1, <1>2, <1>3, <1>9 DEF FeedInv
<1>10. id + 1 \in Nat
  OBVIOUS
<1> QED BY <1>3, <1>5, <1>8, <1>9, <1>10 DEF FeedInv, f2

(* The feed tells that an order is gone.                                   *)
LEMMA FeedCancelled ==
    ASSUME NEW b, NEW b2, NEW f, NEW n, TypeInv(b), IndexInv(b), FeedInv(b, f, n),
           NEW id \in DOMAIN f, f[id].shown, NEW x, x = b.oid_to_order[id], Gone(b, b2, x)
    PROVE  FeedInv(b2, Restrict(f, DOMAIN f \ {id}), n)
<1> DEFINE f2 == Restrict(f, DOMAIN f \ {id})
<1>1. n \in Nat /\ f \in [DOMAIN f -> FeedType] /\ id \in Ids
  BY DEF FeedInv
<1>2. DOMAIN f2 = DOMAIN f \ {id} /\ \A k \in DOMAIN f : k # id => f2[k] = f[k]
  BY DEF Restrict
<1>3. f2 \in [DOMAIN f2 -> FeedType]
  BY <1>1 DEF Restrict
<1> HIDE DEF f2
<1>4. \A k \in DOMAIN f2 : k \in Nat /\ k < n /\ (f2[k].shown => k \in Ids)
  BY <1>2 DEF FeedInv
<1>5. b.orders[x].order_id = id /\ x \in InUse(b.order_pool)
  <2>1. x # nullptr
    BY <1>1 DEF FeedInv
  <2> QED BY <1>1, <2>1 DEF IndexInv
<1>6. \A k \in Ids : b2.oid_to_order[k] = IF k = id THEN nullptr ELSE b.oid_to_order[k]
  <2>1. b.oid_to_order \in [Ids -> OrderBlocks \cup {nullptr}]
    BY DEF TypeInv
  <2> QED BY <1>5, <2>1 DEF Gone
<1>8. \A k \in Ids : b2.oid_to_order[k] # nullptr <=> k \in DOMAIN f2 /\ f2[k].shown
  BY <1>2, <1>6 DEF FeedInv
<1>9. ASSUME NEW k \in Ids, b2.oid_to_order[k] # nullptr
      PROVE  LET order == b2.orders[b2.oid_to_order[k]]
             IN  order.side = f2[k].side /\ order.price = f2[k].price /\ order.qty = f2[k].qty
  <2>1. PICK y : y = b.oid_to_order[k]
    OBVIOUS
  <2>2. k # id /\ b2.oid_to_order[k] = y /\ y # nullptr
    BY <1>6, <1>9, <2>1
  <2>3. y \in InUse(b.order_pool) /\ b.orders[y].order_id = k
    BY <2>1, <2>2 DEF IndexInv
  <2>4. y # x
    BY <1>5, <2>2, <2>3
  <2>5. SameTerms(b2.orders[y], b.orders[y])
    BY <2>3, <2>4 DEF Gone
  <2>6. b.orders[y].side = f[k].side /\ b.orders[y].price = f[k].price /\ b.orders[y].qty = f[k].qty
    BY <2>1, <2>2 DEF FeedInv
  <2>7. k \in DOMAIN f /\ f2[k] = f[k]
    BY <1>2, <2>1, <2>2 DEF FeedInv
  <2> QED BY <2>2, <2>5, <2>6, <2>7 DEF SameTerms
<1> QED BY <1>1, <1>3, <1>4, <1>8, <1>9 DEF FeedInv, f2

(* Of an order that the book has not it may tell without effect.           *)
LEMMA FeedCancelledUnshown ==
    ASSUME NEW b, NEW f, NEW n, FeedInv(b, f, n), NEW id \in DOMAIN f, ~f[id].shown
    PROVE  FeedInv(b, Restrict(f, DOMAIN f \ {id}), n)
<1> DEFINE f2 == Restrict(f, DOMAIN f \ {id})
<1>1. n \in Nat /\ f \in [DOMAIN f -> FeedType]
  BY DEF FeedInv
<1>2. DOMAIN f2 = DOMAIN f \ {id} /\ \A k \in DOMAIN f : k # id => f2[k] = f[k]
  BY DEF Restrict
<1>3. f2 \in [DOMAIN f2 -> FeedType]
  BY <1>1 DEF Restrict
<1> HIDE DEF f2
<1>4. \A k \in DOMAIN f2 : k \in Nat /\ k < n /\ (f2[k].shown => k \in Ids)
  BY <1>2 DEF FeedInv
<1>5. \A k \in Ids : b.oid_to_order[k] # nullptr => k # id
  BY DEF FeedInv
<1>8. \A k \in Ids : b.oid_to_order[k] # nullptr <=> k \in DOMAIN f2 /\ f2[k].shown
  BY <1>2, <1>5 DEF FeedInv
<1>9. ASSUME NEW k \in Ids, b.oid_to_order[k] # nullptr
      PROVE  LET order == b.orders[b.oid_to_order[k]]
             IN  order.side = f2[k].side /\ order.price = f2[k].price /\ order.qty = f2[k].qty
  BY <1>2, <1>5, <1>9 DEF FeedInv
<1> QED BY <1>1, <1>3, <1>4, <1>8, <1>9 DEF FeedInv, f2

Requotes(b, b2, x, qty) ==
    /\ b2.aborted = b.aborted /\ b2.oid_to_order = b.oid_to_order
    /\ b2.orders[x].qty = qty /\ b2.orders[x].side = b.orders[x].side
    /\ b2.orders[x].price = b.orders[x].price
    /\ \A y \in OrderBlocks : y # x => b2.orders[y] = b.orders[y]
\* onModify() of an order the book has.
Requoted(b, x, qty) == [b EXCEPT !.orders[x].qty = qty]

(* It changes that quantity and no list.                                   *)
LEMMA RequotedIs ==
    ASSUME NEW b, NEW C, NEW Q, Structure(b, C, Q), NEW x \in InUse(b.order_pool), NEW qty \in Nat,
           NEW b2, b2 = Requoted(b, x, qty)
    PROVE  Structure(b2, C, Q) /\ Requotes(b, b2, x, qty)
<1>1. TypeInv(b) /\ IsBook(b) /\ b.orders \in [OrderBlocks -> OrderType]
  BY DEF Structure, TypeInv
<1>2. x \in OrderBlocks
  BY <1>1, InUseAreBlocks
<1>3. PICK r : r = [b.orders[x] EXCEPT !.qty = qty]
  OBVIOUS
<1>4. b2 = [b EXCEPT !.orders[x] = r]
  BY <1>3, Zenon DEF Requoted
<1>5. IsBook(b2)
  BY ONLY <1>1, <1>4 DEF IsBook
<1>6. b2.orders = [b.orders EXCEPT ![x] = r]
  BY ONLY <1>1, <1>4 DEF IsBook
<1>7. /\ b2.order_pool = b.order_pool /\ b2.levels = b.levels /\ b2.level_pool = b.level_pool
      /\ b2.oid_to_order = b.oid_to_order /\ b2.price_orders_at_price = b.price_orders_at_price
      /\ b2.by_price = b.by_price /\ b2.aborted = b.aborted
  BY ONLY <1>1, <1>4 DEF IsBook
<1>8. /\ r \in OrderType /\ r.qty = qty /\ SameOrder(r, b.orders[x]) /\ SameLinks(r, b.orders[x])
  BY <1>1, <1>2, <1>3 DEF OrderType, SameOrder, SameLinks
<1>9. /\ b2.orders \in [OrderBlocks -> OrderType] /\ b2.orders[x] = r
      /\ \A y \in OrderBlocks : y # x => b2.orders[y] = b.orders[y]
  BY ONLY <1>1, <1>2, <1>6, <1>8
<1>10. \A y \in OrderBlocks : /\ SameOrder(b2.orders[y], b.orders[y])
                              /\ SameLinks(b2.orders[y], b.orders[y])
  BY <1>8, <1>9 DEF SameOrder, SameLinks
<1>11. Structure(b2, C, Q)
  BY <1>5, <1>7, <1>9, <1>10, Requantified
<1> QED BY <1>7, <1>8, <1>9, <1>11 DEF SameOrder, Requotes

(* The feed tells of the quantity.                                         *)
LEMMA FeedModified ==
    ASSUME NEW b, NEW b2, NEW f, NEW n, TypeInv(b), IndexInv(b), FeedInv(b, f, n),
           NEW id \in DOMAIN f, f[id].shown, NEW x, x = b.oid_to_order[id], NEW qty \in Nat,
           Requotes(b, b2, x, qty)
    PROVE  FeedInv(b2, [f EXCEPT ![id].qty = qty], n)
<1> DEFINE f2 == [f EXCEPT ![id].qty = qty]
<1> SUFFICES ASSUME b2.oid_to_order = b.oid_to_order, b2.orders[x].qty = qty,
                    b2.orders[x].side = b.orders[x].side, b2.orders[x].price = b.orders[x].price,
                    \A y \in OrderBlocks : y # x => b2.orders[y] = b.orders[y]
             PROVE  FeedInv(b2, f2, n)
  BY DEF Requotes
<1>1. n \in Nat /\ f \in [DOMAIN f -> FeedType] /\ id \in Ids
  BY DEF FeedInv
<1>2. /\ DOMAIN f2 = DOMAIN f /\ \A k \in DOMAIN f : k # id => f2[k] = f[k]
      /\ f2[id].side = f[id].side /\ f2[id].price = f[id].price /\ f2[id].shown = f[id].shown
      /\ f2[id].qty = qty /\ f2 \in [DOMAIN f2 -> FeedType]
  BY <1>1 DEF FeedType
<1> HIDE DEF f2
<1>4. \A k \in DOMAIN f2 : k \in Nat /\ k < n /\ (f2[k].shown => k \in Ids)
  BY <1>2 DEF FeedInv
<1>8. \A k \in Ids : b2.oid_to_order[k] # nullptr <=> k \in DOMAIN f2 /\ f2[k].shown
  BY <1>2 DEF FeedInv
<1>9. ASSUME NEW k \in Ids, b2.oid_to_order[k] # nullptr
      PROVE  LET order == b2.orders[b2.oid_to_order[k]]
             IN  order.side = f2[k].side /\ order.price = f2[k].price /\ order.qty = f2[k].qty
  <2>1. PICK y : y = b.oid_to_order[k]
    OBVIOUS
  <2>2. y # nullptr /\ y \in OrderBlocks /\ y \in InUse(b.order_pool) /\ b.orders[y].order_id = k
    BY <1>9, <2>1, InUseAreBlocks DEF IndexInv
  <2>3. b.orders[y].side = f[k].side /\ b.orders[y].price = f[k].price /\ b.orders[y].qty = f[k].qty
        /\ k \in DOMAIN f
    BY <2>1, <2>2 DEF FeedInv
  <2>4. CASE k = id
    BY <1>2, <2>1, <2>3, <2>4
  <2>5. CASE k # id
    <3>1. y # x
      <4>1. x # nullptr
        BY <1>1 DEF FeedInv
      <4>2. b.orders[x].order_id = id
        BY <1>1, <4>1 DEF IndexInv
      <4> QED BY <2>2, <2>5, <4>2
    <3> QED BY <1>2, <2>1, <2>2, <2>3, <2>5, <3>1
  <2> QED BY <2>4, <2>5
<1> QED BY <1>1, <1>2, <1>4, <1>8, <1>9 DEF FeedInv, f2

(* The same for an order the book has not.                                 *)
LEMMA FeedModifiedUnshown ==
    ASSUME NEW b, NEW f, NEW n, FeedInv(b, f, n), NEW id \in DOMAIN f, ~f[id].shown, NEW qty \in Nat
    PROVE  FeedInv(b, [f EXCEPT ![id].qty = qty], n)
<1> DEFINE f2 == [f EXCEPT ![id].qty = qty]
<1>1. n \in Nat /\ f \in [DOMAIN f -> FeedType]
  BY DEF FeedInv
<1>2. /\ DOMAIN f2 = DOMAIN f /\ \A k \in DOMAIN f : k # id => f2[k] = f[k]
      /\ f2[id].shown = f[id].shown /\ f2 \in [DOMAIN f2 -> FeedType]
  BY <1>1 DEF FeedType
<1> HIDE DEF f2
<1>4. \A k \in DOMAIN f2 : k \in Nat /\ k < n /\ (f2[k].shown => k \in Ids)
  BY <1>2 DEF FeedInv
<1>5. \A k \in Ids : b.oid_to_order[k] # nullptr => k # id /\ k \in DOMAIN f
  BY DEF FeedInv
<1>8. \A k \in Ids : b.oid_to_order[k] # nullptr <=> k \in DOMAIN f2 /\ f2[k].shown
  BY <1>2, <1>5 DEF FeedInv
<1>9. ASSUME NEW k \in Ids, b.oid_to_order[k] # nullptr
      PROVE  LET order == b.orders[b.oid_to_order[k]]
             IN  order.side = f2[k].side /\ order.price = f2[k].price /\ order.qty = f2[k].qty
  BY <1>2, <1>5, <1>9 DEF FeedInv
<1> QED BY <1>1, <1>2, <1>4, <1>8, <1>9 DEF FeedInv, f2

----------------------------------------------------------------------------
(* The invariant is inductive.                                             *)

Good(b, f, n) == (\E C, Q : Structure(b, C, Q)) /\ FeedInv(b, f, n) /\ BboInv(b) /\ b.aborted = FALSE

(* updateBBO() after the lists are right makes everything right.           *)
LEMMA RefreshMakesGood ==
    ASSUME NEW b, NEW C, NEW Q, NEW f, NEW n, Structure(b, C, Q), FeedInv(b, f, n),
           b.aborted = FALSE, NEW b2, b2 = updateBBO(b)
    PROVE  Good(b2, f, n)
<1>1. IsBook(b)
  BY DEF Structure, TypeInv
<1>2. /\ Fields(b2, b.orders, b.order_pool, b.levels, b.level_pool, b.oid_to_order,
                b.price_orders_at_price, b.by_price, b.aborted)
      /\ BboInv(b2)
  BY <1>1, UpdateBBOIs
<1>3. Structure(b2, C, Q)
  BY <1>2, Refreshed
<1>4. b2.orders = b.orders /\ b2.oid_to_order = b.oid_to_order /\ b2.aborted = FALSE
  BY <1>2 DEF Fields
<1>5. FeedInv(b2, f, n)
  BY <1>4 DEF FeedInv
<1> QED BY <1>2, <1>3, <1>4, <1>5 DEF Good

(* Which handler an update reaches.                                        *)
LEMMA Handlers ==
    ASSUME NEW b, NEW id, NEW side, NEW price, NEW qty
    PROVE  /\ onMarketUpdate(b, Update("ADD", id, side, price, qty))
                = onAdd(b, Update("ADD", id, side, price, qty))
           /\ onMarketUpdate(b, Update("MODIFY", id, side, price, qty))
                = onModify(b, Update("MODIFY", id, side, price, qty))
           /\ onMarketUpdate(b, Update("CANCEL", id, side, price, qty))
                = onCancel(b, Update("CANCEL", id, side, price, qty))
           /\ \A type \in {"CLEAR", "SNAPSHOT_START"} :
                 onMarketUpdate(b, Update(type, id, side, price, qty)) = updateBBO(clearBook(b))
           /\ \A type \in {"TRADE", "SNAPSHOT_END"} :
                 onMarketUpdate(b, Update(type, id, side, price, qty)) = updateBBO(b)
           /\ onMarketUpdate(b, Update("INVALID", id, side, price, qty)) = b
<1>1. \A type : Update(type, id, side, price, qty).type = type
  BY DEF Update
<1> QED BY <1>1 DEF onMarketUpdate

(* An ADD that the book drops.                                             *)
LEMMA AddDropped ==
    ASSUME NEW b, NEW f, NEW n, Good(b, f, n), NEW id \in Nat, id >= n,
           NEW side \in Sides, NEW price \in Nat, NEW qty \in Nat, ~Shows(f, id, price),
           NEW b2, b2 = onAdd(b, Update("ADD", id, side, price, qty))
    PROVE  Good(b2, FeedWith(f, id, side, price, qty, FALSE), id + 1)
<1>1. PICK C, Q : Structure(b, C, Q)
  BY DEF Good
<1>2. FeedInv(b, f, n) /\ BboInv(b) /\ b.aborted = FALSE
  BY DEF Good
<1>3. ~Fits(id) \/ Aliased(b, price)
  BY <1>1, <1>2, ShowsIs DEF Structure
<1>4. Update("ADD", id, side, price, qty).order_id = id /\ Update("ADD", id, side, price, qty).price = price
  BY DEF Update
<1>5. b2 = b
  BY <1>3, <1>4 DEF onAdd
<1>6. FeedInv(b, FeedWith(f, id, side, price, qty, FALSE), id + 1)
  BY <1>2, FeedDropped
<1> QED BY <1>1, <1>2, <1>5, <1>6 DEF Good

(* An ADD that the book takes.                                             *)
LEMMA AddTaken ==
    ASSUME NEW b, NEW f, NEW n, Good(b, f, n), NEW id \in Nat, id >= n,
           NEW side \in Sides, NEW price \in Nat, NEW qty \in Nat, Shows(f, id, price),
           \A k \in DOMAIN f : f[k].side # side => Outranks(side, f[k].price, price),
           NEW b2, b2 = onAdd(b, Update("ADD", id, side, price, qty))
    PROVE  Good(b2, FeedWith(f, id, side, price, qty, TRUE), id + 1)
<1>1. PICK C, Q : Structure(b, C, Q)
  BY DEF Good
<1>2. FeedInv(b, f, n) /\ b.aborted = FALSE
  BY DEF Good
<1>3. TypeInv(b) /\ ChainInv(b, C) /\ SlotInv(b) /\ QueueInv(b, Q) /\ IndexInv(b)
  BY <1>1 DEF Structure
<1>4. Fits(id) /\ ~Aliased(b, price) /\ id \in Ids
  <2>1. Fits(id) /\ ~Aliased(b, price)
    BY <1>2, <1>3, ShowsIs
  <2> QED BY <2>1, BookAssumption DEF Fits, Ids
<1>5. b.oid_to_order[id] = nullptr
  BY <1>2, <1>4 DEF FeedInv
<1>6. ~Exhausted(b.order_pool)
  BY <1>3, <1>4, <1>5, OrderBlockLeft
<1>7. PICK x : x = FreeBlock(b.order_pool)
  OBVIOUS
<1>8. PICK b1 : b1 = addOrder(Placed(b, x, id, side, price, qty), x)
  OBVIOUS
<1>9. b2 = updateBBO(b1)
  <2>1. PICK u : u = Update("ADD", id, side, price, qty)
    OBVIOUS
  <2>2. u.order_id = id /\ u.price = price /\ u.side = side /\ u.qty = qty
    BY <2>1 DEF Update
  <2>3. b2 = onAdd(b, u) /\ ~(~Fits(u.order_id) \/ Aliased(b, u.price))
    BY <1>4, <2>1, <2>2
  <2>4. b2 = updateBBO(addOrder(
               [b EXCEPT !.order_pool = allocate(@),
                         !.orders[x] = [NoOrder EXCEPT !.order_id = u.order_id, !.side = u.side,
                                                       !.price = u.price, !.qty = u.qty]], x))
    BY <1>6, <1>7, <2>3, Zenon DEF onAdd
  <2>5. b2 = updateBBO(addOrder(Placed(b, x, u.order_id, u.side, u.price, u.qty), x))
    BY <2>4, Zenon DEF Placed
  <2> QED BY ONLY <1>8, <2>2, <2>5
<1>10. \A y \in InUse(b.order_pool) : b.orders[y].order_id < id
  <2> SUFFICES ASSUME NEW y \in InUse(b.order_pool) PROVE b.orders[y].order_id < id
    OBVIOUS
  <2>1. PICK k : k = b.orders[y].order_id
    OBVIOUS
  <2>2. k \in Ids /\ k < n
    BY <1>2, <1>3, <2>1, OrdersAreTold
  <2>3. k \in Int /\ n \in Int
    BY <1>2, <2>2 DEF Ids, FeedInv
  <2> QED BY ONLY <2>1, <2>2, <2>3, id >= n, id \in Nat
<1>11. (\E D, P : Structure(b1, D, P)) /\ Added(b, b1, x, id, side, price, qty)
  <2>1. CASE b.price_orders_at_price[priceToIndex(price)] = nullptr
    <3>1. ~Exhausted(b.level_pool)
      BY <1>3, <2>1, LevelBlockLeft
    <3> QED BY <1>1, <1>4, <1>5, <1>6, <1>7, <1>8, <2>1, <3>1, OpensLevel
  <2>2. CASE b.price_orders_at_price[priceToIndex(price)] # nullptr
    <3>1. PICK l : l = b.price_orders_at_price[priceToIndex(price)]
      OBVIOUS
    <3>2. l # nullptr /\ b.levels[l].price = price
      BY <1>4, <2>2, <3>1 DEF Aliased
    <3>3. l \in InUse(b.level_pool)
      BY <1>3, <3>1, <3>2, SlotOfPrice DEF SlotInv
    <3>4. PICK k \in DOMAIN f : /\ f[k].shown /\ f[k].price = b.levels[l].price
                                /\ f[k].side = b.levels[l].side
      BY <1>2, <1>3, <3>3, LevelsAreTold
    <3>5. b.levels[l].side = side
      BY <3>2, <3>4 DEF Outranks
    <3>6. id \in Ids /\ side \in Sides /\ price \in Nat /\ qty \in Nat
      BY <1>4
    <3> QED BY ONLY <1>1, <1>5, <1>6, <1>7, <1>8, <1>10, <3>1, <3>2, <3>5, <3>6, JoinsLevel
  <2> QED BY <2>1, <2>2
<1>12. FeedInv(b1, FeedWith(f, id, side, price, qty, TRUE), id + 1)
  <2>1. id \in Ids /\ side \in Sides /\ price \in Nat /\ qty \in Nat /\ id >= n
    BY <1>4
  <2> QED BY ONLY <1>2, <1>3, <1>11, <2>1, FeedTaken
<1>13. b1.aborted = FALSE
  BY <1>2, <1>11 DEF Added
<1> QED BY <1>9, <1>11, <1>12, <1>13, RefreshMakesGood

(* A MODIFY of an order the feed has told of.                              *)
LEMMA ModifyKeeps ==
    ASSUME NEW b, NEW f, NEW n, Good(b, f, n), NEW id \in DOMAIN f, NEW qty \in Nat, NEW side, NEW price,
           NEW b2, b2 = onModify(b, Update("MODIFY", id, side, price, qty))
    PROVE  Good(b2, [f EXCEPT ![id].qty = qty], n)
<1>1. PICK C, Q : Structure(b, C, Q)
  BY DEF Good
<1>2. FeedInv(b, f, n) /\ b.aborted = FALSE /\ TypeInv(b) /\ IndexInv(b)
  BY <1>1 DEF Good, Structure
<1>3. PICK u : u = Update("MODIFY", id, side, price, qty)
  OBVIOUS
<1>4. u.order_id = id /\ u.qty = qty
  BY <1>3 DEF Update
<1>5. Known(b, id) <=> f[id].shown
  <2>1. id \in Nat /\ (f[id].shown => id \in Ids) /\ (Fits(id) <=> id \in Ids)
    BY <1>2, BookAssumption DEF FeedInv, Ids, Fits
  <2>2. id \in Ids => (b.oid_to_order[id] # nullptr <=> f[id].shown)
    BY <1>2 DEF FeedInv
  <2> QED BY <2>1, <2>2 DEF Known
<1>6. CASE f[id].shown
  <2>1. PICK x, b1 : x = b.oid_to_order[id] /\ b1 = Requoted(b, x, qty)
    OBVIOUS
  <2>2. b2 = updateBBO(b1)
    <3>1. b2 = updateBBO([b EXCEPT !.orders[b.oid_to_order[u.order_id]].qty = u.qty])
      BY <1>3, <1>4, <1>5, <1>6, Zenon DEF onModify
    <3>2. b2 = updateBBO(Requoted(b, b.oid_to_order[u.order_id], u.qty))
      BY <3>1, Zenon DEF Requoted
    <3> QED BY ONLY <1>4, <2>1, <3>2
  <2>3. x \in InUse(b.order_pool)
    BY <1>2, <1>6, <2>1 DEF FeedInv, IndexInv
  <2>4. Structure(b1, C, Q) /\ Requotes(b, b1, x, qty)
    BY <1>1, <2>1, <2>3, RequotedIs
  <2>5. FeedInv(b1, [f EXCEPT ![id].qty = qty], n)
    <3>1. id \in DOMAIN f /\ qty \in Nat /\ x = b.oid_to_order[id]
      BY <2>1
    <3> QED BY ONLY <1>2, <1>6, <2>4, <3>1, FeedModified
  <2>6. b1.aborted = FALSE
    BY <1>2, <2>4 DEF Requotes
  <2> QED BY <2>2, <2>4, <2>5, <2>6, RefreshMakesGood
<1>7. CASE ~f[id].shown
  <2>1. b2 = updateBBO(b)
    BY <1>3, <1>4, <1>5, <1>7, Zenon DEF onModify
  <2>2. FeedInv(b, [f EXCEPT ![id].qty = qty], n)
    BY <1>2, <1>7, FeedModifiedUnshown
  <2> QED BY <1>1, <1>2, <2>1, <2>2, RefreshMakesGood
<1> QED BY <1>6, <1>7

(* A CANCEL of an order the feed has told of.                              *)
LEMMA CancelKeeps ==
    ASSUME NEW b, NEW f, NEW n, Good(b, f, n), NEW id \in DOMAIN f, NEW qty, NEW side, NEW price,
           NEW b2, b2 = onCancel(b, Update("CANCEL", id, side, price, qty))
    PROVE  Good(b2, Restrict(f, DOMAIN f \ {id}), n)
<1>1. PICK C, Q : Structure(b, C, Q)
  BY DEF Good
<1>2. FeedInv(b, f, n) /\ b.aborted = FALSE /\ TypeInv(b) /\ IndexInv(b)
  BY <1>1 DEF Good, Structure
<1>3. PICK u : u = Update("CANCEL", id, side, price, qty)
  OBVIOUS
<1>4. u.order_id = id
  BY <1>3 DEF Update
<1>5. Known(b, id) <=> f[id].shown
  <2>1. id \in Nat /\ (f[id].shown => id \in Ids) /\ (Fits(id) <=> id \in Ids)
    BY <1>2, BookAssumption DEF FeedInv, Ids, Fits
  <2>2. id \in Ids => (b.oid_to_order[id] # nullptr <=> f[id].shown)
    BY <1>2 DEF FeedInv
  <2> QED BY <2>1, <2>2 DEF Known
<1>6. CASE f[id].shown
  <2>1. PICK x : x = b.oid_to_order[id]
    OBVIOUS
  <2>2. PICK b1 : b1 = removeOrder(b, x)
    OBVIOUS
  <2>3. b2 = updateBBO(b1)
    BY <1>3, <1>4, <1>5, <1>6, <2>1, <2>2, Zenon DEF onCancel
  <2>4. x \in InUse(b.order_pool)
    BY <1>2, <1>6, <2>1 DEF FeedInv, IndexInv
  <2>5. (\E D, P : Structure(b1, D, P)) /\ Gone(b, b1, x)
    BY <1>1, <1>2, <2>2, <2>4, RemovesOrder
  <2>6. FeedInv(b1, Restrict(f, DOMAIN f \ {id}), n)
    BY <1>2, <1>6, <2>1, <2>5, FeedCancelled
  <2>7. b1.aborted = FALSE
    BY <1>2, <2>5 DEF Gone
  <2> QED BY <2>3, <2>5, <2>6, <2>7, RefreshMakesGood
<1>7. CASE ~f[id].shown
  <2>1. b2 = updateBBO(b)
    BY <1>3, <1>4, <1>5, <1>7, Zenon DEF onCancel
  <2>2. FeedInv(b, Restrict(f, DOMAIN f \ {id}), n)
    BY <1>2, <1>7, FeedCancelledUnshown
  <2> QED BY <1>1, <1>2, <2>1, <2>2, RefreshMakesGood
<1> QED BY <1>6, <1>7

(* The state of a cleared book and feed.                                   *)
LEMMA ClearKeeps ==
    ASSUME NEW b, NEW f, NEW n, Good(b, f, n), NEW b2, b2 = updateBBO(clearBook(b))
    PROVE  Good(b2, [id \in {} |-> 0], 1)
<1>1. PICK C, Q : Structure(b, C, Q)
  BY DEF Good
<1>2. b.aborted = FALSE
  BY DEF Good
<1>3. PICK b1 : b1 = clearBook(b)
  OBVIOUS
<1>4. (\E D, P : Structure(b1, D, P)) /\ IsEmpty(b1) /\ b1.aborted = FALSE
  BY <1>1, <1>2, <1>3, ClearsBook
<1>5. \A id \in Ids : b1.oid_to_order[id] = nullptr
  BY <1>4 DEF IsEmpty
<1>6. FeedInv(b1, [id \in {} |-> 0], 1)
  BY <1>5 DEF FeedInv
<1> QED BY <1>3, <1>4, <1>6, RefreshMakesGood

(* The invariant holds at the start.                                       *)
LEMMA InvInit == Init => IInv
<1> SUFFICES ASSUME Init PROVE IInv
  OBVIOUS
<1>1. book = NewBook /\ feed = [id \in {} |-> 0] /\ next_id = 1
  BY DEF Init
<1>2. /\ IsEmpty(book) /\ book.order_pool = NewPool(MaxOrderIds)
      /\ book.level_pool = NewPool(MaxPriceLevels) /\ book.aborted = FALSE
  BY <1>1, NewBookIs
<1>3. /\ PoolInv(book.order_pool, MaxOrderIds) /\ InUse(book.order_pool) = {}
      /\ PoolInv(book.level_pool, MaxPriceLevels) /\ InUse(book.level_pool) = {}
  BY <1>2, NewPoolIs, BookAssumption
<1>4. Structure(book, [side \in Sides |-> <<>>], [l \in LevelBlocks |-> <<>>])
  BY <1>2, <1>3, EmptyIs
<1>5. BboInv(book)
  BY <1>2, EmptyBBO
<1>6. \A id \in Ids : book.oid_to_order[id] = nullptr
  BY <1>2 DEF IsEmpty
<1>7. FeedInv(book, feed, next_id)
  BY <1>1, <1>6 DEF FeedInv
<1> QED BY <1>2, <1>4, <1>5, <1>7 DEF IInv

(* Every step keeps it.                                                    *)
LEMMA InvNext == IInv /\ [Next]_vars => IInv'
<1> SUFFICES ASSUME IInv, [Next]_vars PROVE IInv'
  OBVIOUS
<1>1. Good(book, feed, next_id)
  BY DEF IInv, Good
<1>2. SUFFICES Good(book', feed', next_id')
  BY DEF IInv, Good
<1>3. FeedInv(book, feed, next_id)
  BY DEF IInv
<1>4. Qtys \subseteq Nat /\ Prices \subseteq Nat
  BY BookAssumption
<1>5. ASSUME NEW id \in 1 .. MaxId, NEW side \in Sides, NEW price \in Prices, NEW qty \in Qtys,
             Add(id, side, price, qty)
      PROVE  Good(book', feed', next_id')
  <2>1. /\ id \in Nat /\ price \in Nat /\ qty \in Nat /\ id >= next_id /\ next_id' = id + 1
        /\ \A k \in DOMAIN feed : feed[k].side # side => Outranks(side, feed[k].price, price)
    BY <1>4, <1>5, BookAssumption DEF Add
  <2>2. book' = onAdd(book, Update("ADD", id, side, price, qty))
    BY <1>5, Handlers DEF Add
  <2>3. PICK shown : shown = Shown(id, price)
    OBVIOUS
  <2>4. Shown(id, price) <=> Shows(feed, id, price)
    BY DEF Shown, Shows
  <2>5. feed' = FeedWith(feed, id, side, price, qty, shown)
    BY <1>5, <2>3, Zenon DEF Add, FeedWith
  <2>6. shown \in BOOLEAN
    BY <2>3 DEF Shown
  <2>7. CASE shown = TRUE
    <3>1. Shows(feed, id, price)
      BY <2>3, <2>4, <2>7
    <3> QED BY <1>1, <2>1, <2>2, <2>5, <2>7, <3>1, AddTaken
  <2>8. CASE shown = FALSE
    <3>1. ~Shows(feed, id, price)
      BY <2>3, <2>4, <2>8
    <3> QED BY <1>1, <2>1, <2>2, <2>5, <2>8, <3>1, AddDropped
  <2> QED BY <2>6, <2>7, <2>8
<1>6. ASSUME NEW id \in DOMAIN feed, Cancel(id)
      PROVE  Good(book', feed', next_id')
  <2>1. /\ book' = onCancel(book, Update("CANCEL", id, feed[id].side, feed[id].price, feed[id].qty))
        /\ feed' = Restrict(feed, DOMAIN feed \ {id}) /\ next_id' = next_id
    BY <1>6, Handlers DEF Cancel
  <2> QED BY <1>1, <2>1, CancelKeeps
<1>7. ASSUME NEW id \in DOMAIN feed, NEW qty \in Qtys, Modify(id, qty)
      PROVE  Good(book', feed', next_id')
  <2>1. /\ book' = onModify(book, Update("MODIFY", id, feed[id].side, feed[id].price, qty))
        /\ feed' = [feed EXCEPT ![id].qty = qty] /\ next_id' = next_id
    BY <1>7, Handlers DEF Modify
  <2> QED BY <1>1, <1>4, <2>1, ModifyKeeps
<1>8. ASSUME NEW type \in {"CLEAR", "SNAPSHOT_START"}, Clear(type)
      PROVE  Good(book', feed', next_id')
  <2>1. book' = updateBBO(clearBook(book)) /\ feed' = [id \in {} |-> 0] /\ next_id' = 1
    BY <1>8, Handlers DEF Clear
  <2> QED BY <1>1, <2>1, ClearKeeps
<1>9. ASSUME NEW type \in {"TRADE", "SNAPSHOT_END", "INVALID"}, Other(type)
      PROVE  Good(book', feed', next_id')
  <2>1. feed' = feed /\ next_id' = next_id
    BY <1>9 DEF Other
  <2>2. CASE type \in {"TRADE", "SNAPSHOT_END"}
    <3>1. book' = updateBBO(book)
      BY <1>9, <2>2, Handlers DEF Other
    <3>2. PICK C, Q : Structure(book, C, Q)
      BY <1>1 DEF Good
    <3>3. book.aborted = FALSE
      BY <1>1 DEF Good
    <3>4. Good(book', feed, next_id)
      BY ONLY <1>3, <3>1, <3>2, <3>3, RefreshMakesGood
    <3> QED BY <2>1, <3>4
  <2>3. CASE type = "INVALID"
    <3>1. book' = book
      BY <1>9, <2>3, Handlers DEF Other
    <3> QED BY <1>1, <2>1, <3>1
  <2> QED BY <2>2, <2>3
<1>10. CASE UNCHANGED vars
  BY <1>1, <1>10 DEF vars
<1> QED BY <1>5, <1>6, <1>7, <1>8, <1>9, <1>10 DEF Next

(* The inductive invariant holds of every behaviour.                       *)
THEOREM InvHolds == Spec => []IInv
BY InvInit, InvNext, PTL DEF Spec

----------------------------------------------------------------------------
(* What the invariant says of the pointers.                                *)

(* The elements of a list.                                                 *)
LEMMA ToSetIs ==
    ASSUME NEW S, NEW list \in Seq(S), NEW x
    PROVE  x \in ToSet(list) <=> \E i \in 1 .. Len(list) : list[i] = x
<1>1. DOMAIN list = 1 .. Len(list)
  OBVIOUS
<1> QED BY <1>1, Zenon DEF ToSet

(* The lists are what the walks along the pointers give.                   *)
LEMMA ListsAre ==
    ASSUME NEW C, NEW Q, Structure(book, C, Q)
    PROVE  /\ \A side \in Sides : Levels(side) = C[side] /\ C[side] \in Seq(LevelBlocks)
           /\ \A l \in InUse(book.level_pool) : OrdersOf(l) = Q[l] /\ Q[l] \in Seq(OrderBlocks)
<1>1. TypeInv(book) /\ ChainInv(book, C) /\ QueueInv(book, Q)
  BY DEF Structure
<1>2. /\ MaxPriceLevels \in Nat /\ DOMAIN book.levels = 0 .. MaxPriceLevels - 1
      /\ MaxOrderIds \in Nat /\ DOMAIN book.orders = 0 .. MaxOrderIds - 1
  BY <1>1, BookAssumption DEF TypeInv, LevelBlocks, OrderBlocks, Blocks
<1>3. ASSUME NEW side \in Sides PROVE Levels(side) = C[side] /\ C[side] \in Seq(LevelBlocks)
  <2>1. ChainOf(book, side, C[side]) /\ C[side] \in Seq(LevelBlocks)
    BY <1>1 DEF ChainInv
  <2>2. CASE C[side] = <<>>
    <3>1. book.by_price[side] = nullptr
      BY <2>1, <2>2 DEF ChainOf
    <3> QED BY <2>1, <2>2, <3>1 DEF Levels
  <2>3. CASE C[side] # <<>>
    <3>1. IsRing(book.levels, book.by_price[side], C[side])
      BY <2>1, <2>3 DEF ChainOf
    <3>2. book.by_price[side] # nullptr
      <4>1. DOMAIN book.levels = LevelBlocks
        BY <1>1 DEF TypeInv
      <4>2. /\ book.by_price[side] = nullptr <=> C[side] = <<>>
        BY <1>1, <4>1, HeadOfChain
      <4> QED BY <2>3, <4>2
    <3>3. Ring(book.levels, book.by_price[side]) = C[side]
      BY <1>2, <3>1, RingIs
    <3> QED BY <2>1, <3>2, <3>3 DEF Levels
  <2> QED BY <2>2, <2>3
<1>4. ASSUME NEW l \in InUse(book.level_pool) PROVE OrdersOf(l) = Q[l] /\ Q[l] \in Seq(OrderBlocks)
  <2>1. QueueOf(book, l, Q[l]) /\ Q[l] \in Seq(OrderBlocks)
    BY <1>1, InUseAreBlocks DEF QueueInv
  <2>2. IsRing(book.orders, book.levels[l].first, Q[l])
    BY <2>1 DEF QueueOf
  <2>3. Ring(book.orders, book.levels[l].first) = Q[l]
    BY <1>2, <2>2, RingIs
  <2> QED BY <2>1, <2>3 DEF OrdersOf
<1> QED BY <1>3, <1>4

(* The levels in use are those of the two lists, the orders in use those   *)
(* of their queues.                                                        *)
LEMMA ListsCover ==
    ASSUME NEW C, NEW Q, Structure(book, C, Q)
    PROVE  /\ ToSet(Levels("BUY") \o Levels("SELL")) = InUse(book.level_pool)
           /\ \A side \in Sides : ToSet(Levels(side))
                 = { l \in InUse(book.level_pool) : book.levels[l].side = side }
           /\ InUse(book.order_pool) = UNION { ToSet(OrdersOf(l)) : l \in InUse(book.level_pool) }
<1>1. ChainInv(book, C) /\ QueueInv(book, Q)
  BY DEF Structure
<1>2. /\ \A side \in Sides : Levels(side) = C[side] /\ C[side] \in Seq(LevelBlocks)
      /\ \A l \in InUse(book.level_pool) : OrdersOf(l) = Q[l] /\ Q[l] \in Seq(OrderBlocks)
  BY ListsAre
<1>3. ASSUME NEW side \in Sides
      PROVE  ToSet(C[side]) = { l \in InUse(book.level_pool) : book.levels[l].side = side }
  <2>1. \A l : l \in ToSet(C[side]) <=> \E i \in 1 .. Len(C[side]) : C[side][i] = l
    BY <1>2, ToSetIs
  <2>2. ChainOf(book, side, C[side])
    BY <1>1 DEF ChainInv
  <2>3. \A i \in 1 .. Len(C[side]) :
           C[side][i] \in InUse(book.level_pool) /\ book.levels[C[side][i]].side = side
    BY <2>2 DEF ChainOf
  <2>4. \A l \in InUse(book.level_pool) : book.levels[l].side = side
           => \E i \in 1 .. Len(C[side]) : C[side][i] = l
    BY <1>1 DEF ChainInv
  <2> QED BY <2>1, <2>3, <2>4
<1>4. ToSet(Levels("BUY") \o Levels("SELL")) = InUse(book.level_pool)
  <2>0. "BUY" \in Sides /\ "SELL" \in Sides
    BY DEF Sides
  <2>1. PICK s \in Seq(LevelBlocks) : s = C["BUY"]
    BY <1>2, <2>0
  <2>2. PICK t \in Seq(LevelBlocks) : t = C["SELL"]
    BY <1>2, <2>0
  <2>3. \A x : x \in ToSet(s \o t) <=> x \in ToSet(s) \/ x \in ToSet(t)
    <3> SUFFICES ASSUME NEW x PROVE x \in ToSet(s \o t) <=> x \in ToSet(s) \/ x \in ToSet(t)
      OBVIOUS
    <3>1. PICK m \in Nat, n \in Nat : m = Len(s) /\ n = Len(t)
      OBVIOUS
    <3>2. PICK u \in Seq(LevelBlocks) : u = s \o t
      <4>1. s \o t \in Seq(LevelBlocks)
        OBVIOUS
      <4> QED BY ONLY <4>1, Zenon
    <3>3. Len(u) = m + n /\ \A i \in 1 .. m + n : u[i] = IF i <= m THEN s[i] ELSE t[i - m]
      BY <3>1, <3>2
    <3>4. /\ x \in ToSet(u) <=> \E i \in 1 .. m + n : u[i] = x
          /\ x \in ToSet(s) <=> \E i \in 1 .. m : s[i] = x
          /\ x \in ToSet(t) <=> \E i \in 1 .. n : t[i] = x
      <4>1. x \in ToSet(u) <=> \E i \in 1 .. Len(u) : u[i] = x
        BY ToSetIs
      <4>2. x \in ToSet(s) <=> \E i \in 1 .. Len(s) : s[i] = x
        BY ToSetIs
      <4>3. x \in ToSet(t) <=> \E i \in 1 .. Len(t) : t[i] = x
        BY ToSetIs
      <4> QED BY <3>1, <3>3, <4>1, <4>2, <4>3
    <3>5. ASSUME x \in ToSet(u) PROVE x \in ToSet(s) \/ x \in ToSet(t)
      <4>1. PICK i \in 1 .. m + n : u[i] = x
        BY <3>4, <3>5
      <4>2. CASE i <= m
        BY <3>3, <3>4, <4>1, <4>2
      <4>3. CASE i > m
        <5>1. i - m \in 1 .. n /\ t[i - m] = x
          BY <3>3, <4>1, <4>3
        <5> QED BY <3>4, <5>1
      <4> QED BY <4>2, <4>3
    <3>6. ASSUME x \in ToSet(s) PROVE x \in ToSet(u)
      <4>1. PICK i \in 1 .. m : s[i] = x
        BY <3>4, <3>6
      <4>2. i \in 1 .. m + n /\ u[i] = x
        BY <3>3, <4>1
      <4> QED BY <3>4, <4>2
    <3>7. ASSUME x \in ToSet(t) PROVE x \in ToSet(u)
      <4>1. PICK i \in 1 .. n : t[i] = x
        BY <3>4, <3>7
      <4>2. i + m \in 1 .. m + n /\ u[i + m] = x
        BY <3>3, <4>1
      <4> QED BY <3>4, <4>2
    <3> QED BY <3>2, <3>5, <3>6, <3>7
  <2>4. \A x : x \in ToSet(s) <=> x \in InUse(book.level_pool) /\ book.levels[x].side = "BUY"
    BY <1>3, <2>0, <2>1
  <2>5. \A x : x \in ToSet(t) <=> x \in InUse(book.level_pool) /\ book.levels[x].side = "SELL"
    BY <1>3, <2>0, <2>2
  <2>6. \A x \in InUse(book.level_pool) : book.levels[x].side \in {"BUY", "SELL"}
    BY <1>1 DEF ChainInv, Sides
  <2>7. \A x : x \in ToSet(s \o t) <=> x \in InUse(book.level_pool)
    BY ONLY <2>3, <2>4, <2>5, <2>6
  <2>8. Levels("BUY") \o Levels("SELL") = s \o t
    BY <1>2, <2>0, <2>1, <2>2
  <2> QED BY ONLY <2>7, <2>8
<1>5. InUse(book.order_pool) = UNION { ToSet(OrdersOf(l)) : l \in InUse(book.level_pool) }
  <2>1. \A l \in InUse(book.level_pool) : \A x :
           x \in ToSet(OrdersOf(l)) <=> \E i \in 1 .. Len(Q[l]) : Q[l][i] = x
    BY <1>2, ToSetIs
  <2>2. \A l \in InUse(book.level_pool) : \A i \in 1 .. Len(Q[l]) : Q[l][i] \in InUse(book.order_pool)
    BY <1>1 DEF QueueInv, QueueOf
  <2>3. \A x \in InUse(book.order_pool) :
           \E l \in InUse(book.level_pool) : \E i \in 1 .. Len(Q[l]) : Q[l][i] = x
    BY <1>1 DEF QueueInv
  <2> QED BY ONLY <2>1, <2>2, <2>3
<1> QED BY <1>2, <1>3, <1>4, <1>5

(* A ring of blocks in use is linked both ways.                            *)
LEMMA LinkedIs ==
    ASSUME NEW store, NEW pool, NEW first, NEW list, IsRing(store, first, list),
           \A i \in 1 .. Len(list) : list[i] \in InUse(pool)
    PROVE  Linked(store, pool, list)
<1>1. list \in Seq(DOMAIN store)
  BY DEF IsRing
<1>2. ToSet(list) \subseteq InUse(pool)
  BY <1>1, ToSetIs
<1>3. \A i \in 1 .. Len(list) :
         /\ store[list[i]].next = list[IF i = Len(list) THEN 1 ELSE i + 1]
         /\ store[list[i]].prev = list[IF i = 1 THEN Len(list) ELSE i - 1]
  BY DEF IsRing, Succ, Pred
<1> QED BY <1>2, <1>3 DEF Linked

(* The invariant implies HeapSound.                                        *)
LEMMA InvImpliesHeapSound == IInv => HeapSound
<1> SUFFICES ASSUME IInv PROVE HeapSound
  OBVIOUS
<1>1. PICK C, Q : Structure(book, C, Q)
  BY DEF IInv
<1>2. TypeInv(book) /\ ChainInv(book, C) /\ SlotInv(book) /\ QueueInv(book, Q) /\ IndexInv(book)
  BY <1>1 DEF Structure
<1>3. /\ \A side \in Sides : Levels(side) = C[side] /\ C[side] \in Seq(LevelBlocks)
      /\ \A l \in InUse(book.level_pool) : OrdersOf(l) = Q[l] /\ Q[l] \in Seq(OrderBlocks)
  BY <1>1, ListsAre
<1>4. /\ ToSet(Levels("BUY") \o Levels("SELL")) = InUse(book.level_pool)
      /\ InUse(book.order_pool) = UNION { ToSet(OrdersOf(l)) : l \in InUse(book.level_pool) }
  BY <1>1, ListsCover
<1>5. ASSUME NEW side \in Sides PROVE Linked(book.levels, book.level_pool, Levels(side))
  <2>1. ChainOf(book, side, C[side])
    BY <1>2 DEF ChainInv
  <2>2. CASE C[side] = <<>>
    <3>1. Len(C[side]) = 0 /\ DOMAIN C[side] = {} /\ 1 .. Len(C[side]) = {}
      BY <2>2
    <3>2. Linked(book.levels, book.level_pool, C[side])
      BY <3>1 DEF Linked, ToSet
    <3> QED BY <1>3, <3>2
  <2>3. CASE C[side] # <<>>
    <3>1. /\ IsRing(book.levels, book.by_price[side], C[side])
          /\ \A i \in 1 .. Len(C[side]) : C[side][i] \in InUse(book.level_pool)
      BY <2>1, <2>3 DEF ChainOf
    <3>2. Linked(book.levels, book.level_pool, C[side])
      BY <3>1, LinkedIs
    <3> QED BY <1>3, <3>2
  <2> QED BY <2>2, <2>3
<1>6. ASSUME NEW l \in InUse(book.level_pool)
      PROVE  Linked(book.orders, book.order_pool, OrdersOf(l))
  <2>1. QueueOf(book, l, Q[l])
    BY <1>2 DEF QueueInv
  <2>2. /\ IsRing(book.orders, book.levels[l].first, Q[l])
        /\ \A i \in 1 .. Len(Q[l]) : Q[l][i] \in InUse(book.order_pool)
    BY <2>1 DEF QueueOf
  <2>3. Linked(book.orders, book.order_pool, Q[l])
    BY <2>2, LinkedIs
  <2> QED BY <1>3, <2>3
<1>7. /\ Named(book.oid_to_order) = InUse(book.order_pool)
      /\ Named(book.price_orders_at_price) = InUse(book.level_pool)
  BY <1>2, TablesNameBlocks
<1>8. /\ book.order_pool.free_count = Cardinality(Free(book.order_pool))
      /\ book.level_pool.free_count = Cardinality(Free(book.level_pool))
  BY <1>2 DEF TypeInv, PoolInv
<1>9. ~book.aborted
  BY DEF IInv
<1> QED BY <1>4, <1>5, <1>6, <1>7, <1>8, <1>9 DEF HeapSound

(* The orders of a side's lists are the orders in use of that side.        *)
LEMMA SideHolds ==
    ASSUME NEW C, NEW Q, Structure(book, C, Q), NEW side \in Sides, NEW x
    PROVE  x \in UNION { ToSet(OrdersOf(l)) : l \in ToSet(Levels(side)) }
             <=> x \in InUse(book.order_pool) /\ book.orders[x].side = side
<1>1. QueueInv(book, Q)
  BY DEF Structure
<1>2. \A l \in InUse(book.level_pool) : OrdersOf(l) = Q[l] /\ Q[l] \in Seq(OrderBlocks)
  BY ListsAre
<1>3. \A l : l \in ToSet(Levels(side)) <=> l \in InUse(book.level_pool) /\ book.levels[l].side = side
  BY ListsCover
<1>4. \A l \in InUse(book.level_pool) : \A y :
         y \in ToSet(OrdersOf(l)) <=> \E i \in 1 .. Len(Q[l]) : Q[l][i] = y
  BY <1>2, ToSetIs
<1>5. \A l \in InUse(book.level_pool) : \A i \in 1 .. Len(Q[l]) :
         Q[l][i] \in InUse(book.order_pool) /\ book.orders[Q[l][i]].side = book.levels[l].side
  BY <1>1 DEF QueueInv, QueueOf
<1>6. \A y \in InUse(book.order_pool) :
         \E l \in InUse(book.level_pool) : \E i \in 1 .. Len(Q[l]) : Q[l][i] = y
  BY <1>1 DEF QueueInv
<1>7. ASSUME x \in UNION { ToSet(OrdersOf(l)) : l \in ToSet(Levels(side)) }
      PROVE  x \in InUse(book.order_pool) /\ book.orders[x].side = side
  <2>1. PICK l \in ToSet(Levels(side)) : x \in ToSet(OrdersOf(l))
    BY <1>7, Zenon
  <2>2. l \in InUse(book.level_pool) /\ book.levels[l].side = side
    BY <1>3, <2>1
  <2>3. PICK i \in 1 .. Len(Q[l]) : Q[l][i] = x
    BY <1>4, <2>1, <2>2
  <2> QED BY <1>5, <2>2, <2>3
<1>8. ASSUME x \in InUse(book.order_pool), book.orders[x].side = side
      PROVE  x \in UNION { ToSet(OrdersOf(l)) : l \in ToSet(Levels(side)) }
  <2>1. PICK l \in InUse(book.level_pool) : \E i \in 1 .. Len(Q[l]) : Q[l][i] = x
    BY <1>6, <1>8
  <2>2. x \in ToSet(OrdersOf(l)) /\ book.levels[l].side = side
    BY <1>4, <1>5, <1>8, <2>1
  <2>3. l \in ToSet(Levels(side))
    BY <1>3, <2>2
  <2> QED BY <2>2, <2>3, Zenon
<1> QED BY <1>7, <1>8

(* They are the ones that the feed has told of.                            *)
LEMMA ListedAreTold ==
    ASSUME IInv, NEW side \in Sides
    PROVE  Listed(side) = Told(side)
<1>1. PICK C, Q : Structure(book, C, Q)
  BY DEF IInv
<1>2. FeedInv(book, feed, next_id) /\ TypeInv(book) /\ IndexInv(book)
  BY <1>1 DEF IInv, Structure
<1> DEFINE Held == UNION { ToSet(OrdersOf(l)) : l \in ToSet(Levels(side)) }
<1>3. \A x : x \in Held <=> x \in InUse(book.order_pool) /\ book.orders[x].side = side
  BY <1>1, SideHolds
<1>4. Listed(side) = { [id |-> book.orders[x].order_id, price |-> book.orders[x].price,
                        qty |-> book.orders[x].qty] : x \in Held }
  BY Zenon DEF Listed
<1> HIDE DEF Held
<1>5. ASSUME NEW r \in Listed(side) PROVE r \in Told(side)
  <2>1. PICK x \in Held : r = [id |-> book.orders[x].order_id, price |-> book.orders[x].price,
                               qty |-> book.orders[x].qty]
    BY <1>4, <1>5, Zenon
  <2>2. x \in InUse(book.order_pool) /\ book.orders[x].side = side
    BY <1>3, <2>1
  <2>3. PICK k : k = book.orders[x].order_id
    OBVIOUS
  <2>4. /\ k \in DOMAIN feed /\ feed[k].shown /\ book.orders[x].side = feed[k].side
        /\ book.orders[x].price = feed[k].price /\ book.orders[x].qty = feed[k].qty
    BY <1>2, <2>2, <2>3, OrdersAreTold
  <2>5. r = [id |-> k, price |-> feed[k].price, qty |-> feed[k].qty]
    BY <2>1, <2>3, <2>4
  <2>6. k \in { j \in DOMAIN feed : feed[j].side = side /\ feed[j].shown }
    BY <2>2, <2>4
  <2> QED BY <2>5, <2>6, Zenon DEF Told
<1>6. ASSUME NEW r \in Told(side) PROVE r \in Listed(side)
  <2>1. PICK k \in { j \in DOMAIN feed : feed[j].side = side /\ feed[j].shown } :
           r = [id |-> k, price |-> feed[k].price, qty |-> feed[k].qty]
    BY <1>6, Zenon DEF Told
  <2>2. k \in DOMAIN feed /\ feed[k].side = side /\ feed[k].shown
    BY <2>1
  <2>3. PICK x : x = book.oid_to_order[k]
    OBVIOUS
  <2>4. k \in Ids /\ x # nullptr
    BY <1>2, <2>2, <2>3 DEF FeedInv
  <2>5. x \in InUse(book.order_pool) /\ book.orders[x].order_id = k
    BY <1>2, <2>3, <2>4 DEF IndexInv
  <2>6. /\ book.orders[x].side = feed[k].side /\ book.orders[x].price = feed[k].price
        /\ book.orders[x].qty = feed[k].qty
    BY <1>2, <2>3, <2>4 DEF FeedInv
  <2>7. x \in Held
    BY <1>3, <2>2, <2>5, <2>6
  <2>8. r = [id |-> book.orders[x].order_id, price |-> book.orders[x].price,
             qty |-> book.orders[x].qty]
    BY <2>1, <2>5, <2>6
  <2> QED BY <1>4, <2>7, <2>8, Zenon
<1> QED BY <1>5, <1>6

(* The invariant implies ShowsTheFeed.                                     *)
LEMMA InvImpliesShowsTheFeed == IInv => ShowsTheFeed
<1> SUFFICES ASSUME IInv, NEW side \in Sides
             PROVE  /\ Listed(side) = Told(side)
                    /\ \A i, j \in 1 .. Len(Levels(side)) :
                          i < j => Outranks(side, book.levels[Levels(side)[i]].price,
                                                  book.levels[Levels(side)[j]].price)
                    /\ \A l \in ToSet(Levels(side)) : \A i, j \in 1 .. Len(OrdersOf(l)) :
                          /\ book.orders[OrdersOf(l)[i]].price = book.levels[l].price
                          /\ i < j => book.orders[OrdersOf(l)[i]].order_id
                                        < book.orders[OrdersOf(l)[j]].order_id
  BY Zenon DEF ShowsTheFeed
<1>1. PICK C, Q : Structure(book, C, Q)
  BY DEF IInv
<1>2. ChainInv(book, C) /\ QueueInv(book, Q)
  BY <1>1 DEF Structure
<1>3. /\ Levels(side) = C[side]
      /\ \A l \in InUse(book.level_pool) : OrdersOf(l) = Q[l]
  BY <1>1, ListsAre
<1>4. \A l \in ToSet(Levels(side)) : l \in InUse(book.level_pool)
  BY <1>1, ListsCover
<1>5. \A i, j \in 1 .. Len(Levels(side)) :
         i < j => Outranks(side, book.levels[Levels(side)[i]].price, book.levels[Levels(side)[j]].price)
  <2>1. ChainOf(book, side, C[side])
    BY <1>2 DEF ChainInv
  <2>2. \A i, j \in 1 .. Len(C[side]) :
           i < j => Outranks(side, book.levels[C[side][i]].price, book.levels[C[side][j]].price)
    BY <2>1 DEF ChainOf
  <2> QED BY <1>3, <2>2
<1>6. ASSUME NEW l \in ToSet(Levels(side))
      PROVE  \A i, j \in 1 .. Len(OrdersOf(l)) :
                /\ book.orders[OrdersOf(l)[i]].price = book.levels[l].price
                /\ i < j => book.orders[OrdersOf(l)[i]].order_id < book.orders[OrdersOf(l)[j]].order_id
  <2>1. l \in InUse(book.level_pool) /\ OrdersOf(l) = Q[l]
    BY <1>3, <1>4
  <2>2. QueueOf(book, l, Q[l])
    BY <1>2, <2>1 DEF QueueInv
  <2>3. \A i, j \in 1 .. Len(Q[l]) :
                /\ book.orders[Q[l][i]].price = book.levels[l].price
                /\ i < j => book.orders[Q[l][i]].order_id < book.orders[Q[l][j]].order_id
    BY <2>2 DEF QueueOf
  <2> QED BY <2>1, <2>3
<1> QED BY <1>5, <1>6, ListedAreTold

----------------------------------------------------------------------------
(* The BBO.                                                                *)

(* The running total of a list has a solution.                             *)
Totals(f, orders, list, q) ==
    f = [i \in 0 .. q |-> IF i = 0 THEN 0
                          ELSE (f[i - 1] + orders[list[i]].qty) % QtyModulus]

(* It exists.                                                              *)
LEMMA TotalRecursion ==
    ASSUME NEW n \in Nat, NEW orders, NEW list
    PROVE  \E f : Totals(f, orders, list, n)
<1> DEFINE Step(x, i) == (x + orders[list[i]].qty) % QtyModulus
           Solves(f, q) == f = [k \in 0 .. q |-> IF k = 0 THEN 0 ELSE Step(f[k - 1], k)]
           bad == { q \in 0 .. n : ~ \E f : Solves(f, q) }
<1> HIDE DEF Step
<1>1. bad = {}
  <2> SUFFICES ASSUME bad # {} PROVE FALSE
    OBVIOUS
  <2>1. PICK q \in bad : \A m \in bad : q <= m
    <3>1. bad \in SUBSET Nat
      OBVIOUS
    <3> HIDE DEF bad
    <3> QED BY <3>1, LeastNatural
  <2>2. q \in 0 .. n /\ ~ \E f : Solves(f, q)
    OBVIOUS
  <2>3. q # 0
    <3>1. Solves([k \in 0 .. 0 |-> 0], 0)
      OBVIOUS
    <3> QED BY <3>1, <2>2
  <2>4. q - 1 \in 0 .. n /\ q - 1 \notin bad
    <3> HIDE DEF bad
    <3> QED BY <2>1, <2>2, <2>3
  <2>5. PICK f : Solves(f, q - 1)
    BY <2>4
  <2> DEFINE g == [k \in 0 .. q |-> IF k = q THEN Step(f[q - 1], q) ELSE f[k]]
  <2>6. \A k \in 0 .. q : g[k] = IF k = 0 THEN 0 ELSE Step(g[k - 1], k)
    <3> TAKE k \in 0 .. q
    <3>1. CASE k = q
      <4>1. g[q - 1] = f[q - 1] /\ g[q] = Step(f[q - 1], q)
        BY <2>2, <2>3
      <4> QED BY <4>1, <3>1, <2>3
    <3>2. CASE k # q
      <4>1. g[k] = f[k] /\ k \in 0 .. q - 1
        BY <3>2, <2>2
      <4>2. f[k] = IF k = 0 THEN 0 ELSE Step(f[k - 1], k)
        BY <4>1, <2>5
      <4>3. k # 0 => g[k - 1] = f[k - 1]
        BY <3>2, <2>2
      <4> QED BY <4>1, <4>2, <4>3
    <3> QED BY <3>1, <3>2
  <2>7. g = [k \in 0 .. q |-> g[k]]
    OBVIOUS
  <2> HIDE DEF g
  <2>8. Solves(g, q)
    BY <2>6, <2>7
  <2> QED BY <2>2, <2>8
<1>2. \E f : Solves(f, n)
  BY <1>1
<1> QED BY <1>2, Zenon DEF Step, Totals

(* So has the running total of the orders of the feed, by their ids.       *)
Counts(f, fd, at, q) ==
    f = [id \in 0 .. q |-> IF id = 0 THEN 0
                           ELSE IF id - 1 \in at THEN (f[id - 1] + fd[id - 1].qty) % QtyModulus
                           ELSE f[id - 1]]

(* It exists.                                                              *)
LEMMA CountRecursion ==
    ASSUME NEW n \in Nat, NEW fd, NEW at
    PROVE  \E f : Counts(f, fd, at, n)
<1> DEFINE Step(x, i) == IF i - 1 \in at THEN (x + fd[i - 1].qty) % QtyModulus ELSE x
           Solves(f, q) == f = [k \in 0 .. q |-> IF k = 0 THEN 0 ELSE Step(f[k - 1], k)]
           bad == { q \in 0 .. n : ~ \E f : Solves(f, q) }
<1> HIDE DEF Step
<1>1. bad = {}
  <2> SUFFICES ASSUME bad # {} PROVE FALSE
    OBVIOUS
  <2>1. PICK q \in bad : \A m \in bad : q <= m
    <3>1. bad \in SUBSET Nat
      OBVIOUS
    <3> HIDE DEF bad
    <3> QED BY <3>1, LeastNatural
  <2>2. q \in 0 .. n /\ ~ \E f : Solves(f, q)
    OBVIOUS
  <2>3. q # 0
    <3>1. Solves([k \in 0 .. 0 |-> 0], 0)
      OBVIOUS
    <3> QED BY <3>1, <2>2
  <2>4. q - 1 \in 0 .. n /\ q - 1 \notin bad
    <3> HIDE DEF bad
    <3> QED BY <2>1, <2>2, <2>3
  <2>5. PICK f : Solves(f, q - 1)
    BY <2>4
  <2> DEFINE g == [k \in 0 .. q |-> IF k = q THEN Step(f[q - 1], q) ELSE f[k]]
  <2>6. \A k \in 0 .. q : g[k] = IF k = 0 THEN 0 ELSE Step(g[k - 1], k)
    <3> TAKE k \in 0 .. q
    <3>1. CASE k = q
      <4>1. g[q - 1] = f[q - 1] /\ g[q] = Step(f[q - 1], q)
        BY <2>2, <2>3
      <4> QED BY <4>1, <3>1, <2>3
    <3>2. CASE k # q
      <4>1. g[k] = f[k] /\ k \in 0 .. q - 1
        BY <3>2, <2>2
      <4>2. f[k] = IF k = 0 THEN 0 ELSE Step(f[k - 1], k)
        BY <4>1, <2>5
      <4>3. k # 0 => g[k - 1] = f[k - 1]
        BY <3>2, <2>2
      <4> QED BY <4>1, <4>2, <4>3
    <3> QED BY <3>1, <3>2
  <2>7. g = [k \in 0 .. q |-> g[k]]
    OBVIOUS
  <2> HIDE DEF g
  <2>8. Solves(g, q)
    BY <2>6, <2>7
  <2> QED BY <2>2, <2>8
<1>2. \E f : Solves(f, n)
  BY <1>1
<1> QED BY <1>2, Zenon DEF Step, Counts

(* A level's total is the running total at the end of its queue.           *)
LEMMA TotalIs ==
    ASSUME NEW b, NEW l, NEW list, NEW n \in Nat, n = Len(list),
           Ring(b.orders, b.levels[l].first) = list
    PROVE  \E f : Totals(f, b.orders, list, n) /\ Total(b, l) = f[n]
<1> DEFINE At(orders, s) == (CHOOSE f : Totals(f, orders, s, Len(s)))[Len(s)]
<1>1. Total(b, l) = At(b.orders, Ring(b.orders, b.levels[l].first))
  BY Zenon DEF Total, Totals
<1>2. Total(b, l) = (CHOOSE f : Totals(f, b.orders, list, n))[n]
  BY <1>1, Zenon
<1>3. Totals(CHOOSE f : Totals(f, b.orders, list, n), b.orders, list, n)
  BY TotalRecursion, Zenon
<1> QED BY <1>2, <1>3, Zenon

(* Adding up a queue in the order of its ids, or the feed in the order of  *)
(* its ids, gives the same.  key: the ids of the queue.                    *)
SameOrders(n, orders, list, fd, at, key) ==
    /\ \A i, j \in 1 .. n : i < j => key[i] < key[j]
    /\ \A j \in 1 .. n : key[j] \in at /\ orders[list[j]].qty = fd[key[j]].qty
    /\ \A id \in at : \E j \in 1 .. n : key[j] = id

(* The two sums are equal.                                                 *)
LEMMA SumsAgree ==
    ASSUME NEW n \in Nat, NEW m \in Nat, NEW orders, NEW list, NEW fd, NEW at, NEW f, NEW g,
           Totals(f, orders, list, n), Counts(g, fd, at, m),
           NEW key \in [1 .. n -> 0 .. m - 1], SameOrders(n, orders, list, fd, at, key)
    PROVE  g[m] = f[n]
<1>0. /\ \A i, j \in 1 .. n : i < j => key[i] < key[j]
      /\ \A j \in 1 .. n : key[j] \in at /\ orders[list[j]].qty = fd[key[j]].qty
      /\ \A id \in at : \E j \in 1 .. n : key[j] = id
  BY DEF SameOrders
<1>1. /\ f[0] = 0
      /\ \A i \in 1 .. n : f[i] = (f[i - 1] + orders[list[i]].qty) % QtyModulus
  <2>1. \A i \in 0 .. n : f[i] = IF i = 0 THEN 0 ELSE (f[i - 1] + orders[list[i]].qty) % QtyModulus
    BY Zenon DEF Totals
  <2>2. \A i \in 1 .. n : i \in 0 .. n /\ i # 0
    OBVIOUS
  <2>3. 0 \in 0 .. n
    OBVIOUS
  <2> QED BY <2>1, <2>2, <2>3, Zenon
<1>2. /\ g[0] = 0
      /\ \A k \in 1 .. m : g[k] = IF k - 1 \in at THEN (g[k - 1] + fd[k - 1].qty) % QtyModulus
                                  ELSE g[k - 1]
  <2>1. \A k \in 0 .. m : g[k] = IF k = 0 THEN 0 ELSE
               IF k - 1 \in at THEN (g[k - 1] + fd[k - 1].qty) % QtyModulus ELSE g[k - 1]
    BY Zenon DEF Counts
  <2>2. \A i \in 1 .. m : i \in 0 .. m /\ i # 0
    OBVIOUS
  <2>3. 0 \in 0 .. m
    OBVIOUS
  <2> QED BY <2>1, <2>2, <2>3, Zenon
<1> DEFINE Cut(i, k) == \A j \in 1 .. n : j <= i <=> key[j] < k
           bad == { k \in 0 .. m : \E i \in 0 .. n : Cut(i, k) /\ g[k] # f[i] }
<1>3. bad = {}
  <2> SUFFICES ASSUME bad # {} PROVE FALSE
    OBVIOUS
  <2>1. PICK k \in bad : \A j \in bad : k <= j
    <3>1. bad \in SUBSET Nat
      OBVIOUS
    <3> HIDE DEF bad
    <3> QED BY <3>1, LeastNatural
  <2>2. PICK i \in 0 .. n : Cut(i, k) /\ g[k] # f[i]
    OBVIOUS
  <2>3. k \in 0 .. m
    OBVIOUS
  <2>4. k # 0
    <3> SUFFICES ASSUME k = 0 PROVE FALSE
      OBVIOUS
    <3>1. i = 0
      <4> SUFFICES ASSUME i > 0 PROVE FALSE
        OBVIOUS
      <4>1. 1 \in 1 .. n /\ 1 <= i
        OBVIOUS
      <4>2. key[1] \in 0 .. m - 1 /\ key[1] < 0
        BY <2>2, <4>1
      <4> QED BY <4>2
    <3> QED BY <1>1, <1>2, <2>2, <3>1
  <2>5. k \in 1 .. m /\ k - 1 \in 0 .. m
    BY <2>3, <2>4
  <2>6. \A h \in 0 .. n : Cut(h, k - 1) => g[k - 1] = f[h]
    <3>1. k - 1 \notin bad
      <4> HIDE DEF bad
      <4> QED BY <2>1, <2>3, <2>5
    <3> QED BY <2>5, <3>1
  <2>7. CASE k - 1 \in at
    <3>1. PICK j \in 1 .. n : key[j] = k - 1
      BY <1>0, <2>7
    <3>2. \A h \in 1 .. n : key[h] \in 0 .. m - 1
      OBVIOUS
    <3>3. j <= i
      BY <2>2, <2>3, <3>1
    <3>4. j = i
      <4> SUFFICES ASSUME j < i PROVE FALSE
        BY <3>3
      <4>1. i \in 1 .. n /\ key[j] < key[i] /\ key[i] < k
        BY <1>0, <2>2
      <4> QED BY <2>3, <3>1, <3>2, <4>1
    <3>5. Cut(i - 1, k - 1)
      <4> SUFFICES ASSUME NEW h \in 1 .. n PROVE h <= i - 1 <=> key[h] < k - 1
        OBVIOUS
      <4>1. CASE h < i
        <5>1. key[h] < key[i]
          BY <1>0, <3>4, <4>1
        <5> QED BY <3>1, <3>4, <4>1, <5>1
      <4>2. CASE h = i
        BY <3>1, <3>2, <3>4, <4>2
      <4>3. CASE h > i
        <5>1. key[i] < key[h]
          BY <1>0, <3>4, <4>3
        <5> QED BY <2>3, <3>1, <3>2, <3>4, <4>3, <5>1
      <4> QED BY <4>1, <4>2, <4>3
    <3> HIDE DEF Cut
    <3>6. g[k - 1] = f[i - 1]
      BY <2>6, <3>4, <3>5
    <3>7. orders[list[i]].qty = fd[k - 1].qty
      BY <1>0, <3>1, <3>4
    <3>8. g[k] = (g[k - 1] + fd[k - 1].qty) % QtyModulus
      BY <1>2, <2>5, <2>7
    <3>9. f[i] = (f[i - 1] + orders[list[i]].qty) % QtyModulus
      BY <1>1, <3>4
    <3> QED BY ONLY <2>2, <3>6, <3>7, <3>8, <3>9, Zenon
  <2>8. CASE k - 1 \notin at
    <3>1. Cut(i, k - 1)
      <4> SUFFICES ASSUME NEW h \in 1 .. n PROVE h <= i <=> key[h] < k - 1
        OBVIOUS
      <4>1. key[h] # k - 1 /\ key[h] \in 0 .. m - 1
        BY <1>0, <2>8
      <4>2. h <= i <=> key[h] < k
        BY <2>2
      <4> QED BY <2>3, <4>1, <4>2
    <3> QED BY <1>2, <2>2, <2>5, <2>6, <2>8, <3>1
  <2> QED BY <2>7, <2>8
<1>4. Cut(n, m)
  <2>1. \A j \in 1 .. n : key[j] \in 0 .. m - 1
    OBVIOUS
  <2> QED BY <2>1
<1> HIDE DEF Cut
<1> QED BY <1>3, <1>4

(* The first level of a side is its best one.                              *)
LEMMA HeadIsBest ==
    ASSUME NEW C, NEW Q, Structure(book, C, Q), NEW side \in Sides, NEW h, h = book.by_price[side],
           h # nullptr
    PROVE  /\ h \in InUse(book.level_pool) /\ book.levels[h].side = side
           /\ book.levels[h].price \in Nat
           /\ \A l \in InUse(book.level_pool) : book.levels[l].side = side =>
                 /\ book.levels[l].price \in Nat
                 /\ ~Outranks(side, book.levels[l].price, book.levels[h].price)
<1>1. TypeInv(book) /\ ChainInv(book, C) /\ SlotInv(book)
  BY DEF Structure
<1>2. ChainOf(book, side, C[side]) /\ C[side] \in Seq(LevelBlocks)
  BY <1>1 DEF ChainInv
<1>3. PICK list \in Seq(LevelBlocks) : list = C[side]
  BY <1>2
<1>4. IsRing(book.levels, h, list)
  BY <1>2, <1>3 DEF ChainOf
<1>5. 1 \in 1 .. Len(list) /\ list[1] = h
  BY <1>4 DEF IsRing
<1>6. \A i \in 1 .. Len(list) : list[i] \in InUse(book.level_pool) /\ book.levels[list[i]].side = side
  BY <1>2, <1>3 DEF ChainOf
<1>7. \A i, j \in 1 .. Len(list) :
         i < j => Outranks(side, book.levels[list[i]].price, book.levels[list[j]].price)
  BY <1>2, <1>3 DEF ChainOf
<1>8. \A l \in InUse(book.level_pool) : book.levels[l].price \in Nat
  BY <1>1 DEF SlotInv
<1>9. h \in InUse(book.level_pool) /\ book.levels[h].side = side /\ book.levels[h].price \in Nat
  BY <1>5, <1>6, <1>8
<1>10. ASSUME NEW l \in InUse(book.level_pool), book.levels[l].side = side
       PROVE  ~Outranks(side, book.levels[l].price, book.levels[h].price)
  <2>1. PICK i \in 1 .. Len(list) : list[i] = l
    BY <1>1, <1>3, <1>10 DEF ChainInv
  <2>2. PICK p \in Nat, q \in Nat : p = book.levels[h].price /\ q = book.levels[l].price
    BY <1>8, <1>9
  <2>3. CASE i = 1
    <3>1. p = q
      BY <1>5, <2>1, <2>2, <2>3
    <3> QED BY <2>2, <3>1 DEF Outranks
  <2>4. CASE i # 1
    <3>1. Outranks(side, p, q)
      BY <1>5, <1>7, <2>1, <2>2, <2>4
    <3>2. ~Outranks(side, q, p)
      BY <3>1 DEF Outranks
    <3> QED BY <2>2, <3>2
  <2> QED BY <2>3, <2>4
<1> QED BY <1>8, <1>9, <1>10

(* What the feed has told of a side.                                       *)
LEMMA ToldIs ==
    ASSUME NEW side, NEW r
    PROVE  r \in Told(side) <=>
             \E k \in DOMAIN feed : /\ feed[k].side = side /\ feed[k].shown
                                    /\ r = [id |-> k, price |-> feed[k].price, qty |-> feed[k].qty]
BY DEF Told

(* The feed has told of no order of a side that has no level.              *)
LEMMA NoneTold ==
    ASSUME NEW C, NEW Q, Structure(book, C, Q), FeedInv(book, feed, next_id), NEW side \in Sides,
           book.by_price[side] = nullptr
    PROVE  Told(side) = {}
<1>1. TypeInv(book) /\ ChainInv(book, C) /\ SlotInv(book) /\ QueueInv(book, Q) /\ IndexInv(book)
  BY DEF Structure
<1>2. C[side] = <<>>
  BY <1>1, HeadOfChain DEF TypeInv
<1>3. \A l \in InUse(book.level_pool) : book.levels[l].side # side
  <2> SUFFICES ASSUME NEW l \in InUse(book.level_pool), book.levels[l].side = side PROVE FALSE
    OBVIOUS
  <2>1. \E i \in 1 .. Len(C[side]) : C[side][i] = l
    BY <1>1 DEF ChainInv
  <2> QED BY <1>2, <2>1
<1>4. ASSUME NEW r \in Told(side) PROVE FALSE
  <2>1. PICK k \in DOMAIN feed : feed[k].side = side /\ feed[k].shown
    BY <1>4, ToldIs
  <2>2. \E l \in InUse(book.level_pool) : book.levels[l].side = feed[k].side
    BY <1>1, <2>1, ToldHaveLevels
  <2> QED BY <1>3, <2>1, <2>2
<1> QED BY <1>4

(* The best price that the feed has told of.                               *)
BestPrice(side) ==
    CHOOSE p \in { o.price : o \in Told(side) } : \A o \in Told(side) : ~Outranks(side, o.price, p)

(* It is the price of the side's first level.                              *)
LEMMA BestPriceIs ==
    ASSUME NEW C, NEW Q, Structure(book, C, Q), FeedInv(book, feed, next_id), NEW side \in Sides,
           NEW h, h = book.by_price[side], h # nullptr
    PROVE  BestPrice(side) = book.levels[h].price /\ Told(side) # {}
<1>1. TypeInv(book) /\ ChainInv(book, C) /\ SlotInv(book) /\ QueueInv(book, Q) /\ IndexInv(book)
  BY DEF Structure
<1>2. /\ h \in InUse(book.level_pool) /\ book.levels[h].side = side
      /\ book.levels[h].price \in Nat
      /\ \A l \in InUse(book.level_pool) : book.levels[l].side = side =>
            /\ book.levels[l].price \in Nat
            /\ ~Outranks(side, book.levels[l].price, book.levels[h].price)
  BY HeadIsBest
<1>3. PICK w \in Nat : w = book.levels[h].price
  BY <1>2
<1>4. ASSUME NEW o \in Told(side) PROVE o.price \in Nat /\ ~Outranks(side, o.price, w)
  <2>1. PICK k \in DOMAIN feed : /\ feed[k].side = side /\ feed[k].shown
                                 /\ o = [id |-> k, price |-> feed[k].price, qty |-> feed[k].qty]
    BY <1>4, ToldIs
  <2>2. PICK l \in InUse(book.level_pool) :
           book.levels[l].price = feed[k].price /\ book.levels[l].side = feed[k].side
    BY <1>1, <2>1, ToldHaveLevels
  <2>3. o.price = book.levels[l].price
    BY <2>1, <2>2
  <2> QED BY <1>2, <1>3, <2>1, <2>2, <2>3
<1>5. PICK o \in Told(side) : o.price = w
  <2>1. PICK k \in DOMAIN feed : /\ feed[k].shown /\ feed[k].price = book.levels[h].price
                                 /\ feed[k].side = book.levels[h].side
    BY <1>1, <1>2, LevelsAreTold
  <2>2. [id |-> k, price |-> feed[k].price, qty |-> feed[k].qty] \in Told(side)
    BY <1>2, <2>1, ToldIs
  <2> QED BY <1>3, <2>1, <2>2
<1> DEFINE P == { t.price : t \in Told(side) }
           Unbeaten(p) == \A t \in Told(side) : ~Outranks(side, t.price, p)
<1>6. w \in P /\ Unbeaten(w)
  BY <1>4, <1>5
<1>7. BestPrice(side) \in P /\ Unbeaten(BestPrice(side))
  <2>1. BestPrice(side) = CHOOSE p \in P : Unbeaten(p)
    BY Zenon DEF BestPrice
  <2> HIDE DEF P, Unbeaten
  <2> QED BY <1>6, <2>1, Zenon
<1>8. PICK c : c = BestPrice(side)
  OBVIOUS
<1>9. PICK t \in Told(side) : t.price = c
  BY <1>7, <1>8
<1>10. c \in Nat /\ ~Outranks(side, c, w)
  BY <1>4, <1>9
<1>11. ~Outranks(side, w, c)
  BY <1>5, <1>7, <1>8
<1>12. c = w
  BY <1>10, <1>11 DEF Outranks
<1> QED BY <1>3, <1>5, <1>8, <1>12

(* The orders at the best price are those of the first level.              *)
AtBest(side, best) ==
    { id \in 0 .. MaxOrderIds - 1 : \E o \in Told(side) : o.id = id /\ o.price = best }
Queued(id, orders, list) == \E j \in 1 .. Len(list) : orders[list[j]].order_id = id

(* They are its queue.                                                     *)
LEMMA AtBestIs ==
    ASSUME NEW C, NEW Q, Structure(book, C, Q), FeedInv(book, feed, next_id), NEW side \in Sides,
           NEW h, h = book.by_price[side], h # nullptr, NEW id
    PROVE  id \in AtBest(side, book.levels[h].price) <=> Queued(id, book.orders, Q[h])
<1>1. TypeInv(book) /\ ChainInv(book, C) /\ SlotInv(book) /\ QueueInv(book, Q) /\ IndexInv(book)
  BY DEF Structure
<1>2. h \in InUse(book.level_pool) /\ book.levels[h].side = side
  BY HeadIsBest
<1>3. QueueOf(book, h, Q[h])
  BY <1>1, <1>2 DEF QueueInv
<1>4. ASSUME id \in AtBest(side, book.levels[h].price)
      PROVE  \E j \in 1 .. Len(Q[h]) : book.orders[Q[h][j]].order_id = id
  <2>1. PICK o \in Told(side) : o.id = id /\ o.price = book.levels[h].price
    BY <1>4, Zenon DEF AtBest
  <2>2. PICK k \in DOMAIN feed : /\ feed[k].side = side /\ feed[k].shown
                                 /\ o = [id |-> k, price |-> feed[k].price, qty |-> feed[k].qty]
    BY <2>1, ToldIs
  <2>3. k = id /\ feed[k].price = book.levels[h].price
    BY <2>1, <2>2
  <2>4. PICK x : x = book.oid_to_order[k]
    OBVIOUS
  <2>5. /\ book.orders[x].order_id = k
        /\ \E l \in InUse(book.level_pool) :
              /\ l = book.price_orders_at_price[priceToIndex(feed[k].price)]
              /\ \E p \in 1 .. Len(Q[l]) : Q[l][p] = x
    BY <1>1, <2>2, <2>4, ToldHaveLevels
  <2>6. book.price_orders_at_price[priceToIndex(book.levels[h].price)] = h
    BY <1>1, <1>2 DEF SlotInv
  <2>7. \E p \in 1 .. Len(Q[h]) : Q[h][p] = x
    BY <2>3, <2>5, <2>6
  <2> QED BY <2>3, <2>5, <2>7
<1>5. ASSUME NEW j \in 1 .. Len(Q[h]), book.orders[Q[h][j]].order_id = id
      PROVE  id \in AtBest(side, book.levels[h].price)
  <2>1. PICK x : x = Q[h][j]
    OBVIOUS
  <2>2. /\ x \in InUse(book.order_pool) /\ book.orders[x].price = book.levels[h].price
        /\ book.orders[x].side = book.levels[h].side
    BY <1>3, <2>1 DEF QueueOf
  <2>3. /\ id \in Ids /\ id \in DOMAIN feed /\ feed[id].shown
        /\ book.orders[x].side = feed[id].side /\ book.orders[x].price = feed[id].price
    BY <1>1, <1>5, <2>1, <2>2, OrdersAreTold
  <2>4. [id |-> id, price |-> feed[id].price, qty |-> feed[id].qty] \in Told(side)
    BY <1>2, <2>2, <2>3, ToldIs
  <2>5. PICK o \in Told(side) : o.id = id /\ o.price = book.levels[h].price
    BY <2>2, <2>3, <2>4
  <2> QED BY <2>3, <2>5 DEF AtBest, Ids
<1> QED BY <1>4, <1>5 DEF Queued

(* What the feed has told of the best price is what the first level holds. *)
LEMMA BestIs ==
    ASSUME NEW C, NEW Q, Structure(book, C, Q), FeedInv(book, feed, next_id), NEW side \in Sides,
           NEW h, h = book.by_price[side], h # nullptr
    PROVE  Best(side).price = book.levels[h].price /\ Best(side).qty = Total(book, h)
<1>1. TypeInv(book) /\ QueueInv(book, Q) /\ IndexInv(book)
  BY DEF Structure
<1>2. h \in InUse(book.level_pool)
  BY HeadIsBest
<1>3. QueueOf(book, h, Q[h])
  BY <1>1, <1>2 DEF QueueInv
<1>4. PICK list \in Seq(OrderBlocks) : list = Q[h]
  BY <1>2, ListsAre
<1>5. PICK n \in Nat : n = Len(list)
  OBVIOUS
<1>6. Ring(book.orders, book.levels[h].first) = list
  BY <1>2, <1>4, ListsAre DEF OrdersOf
<1>7. PICK f : Totals(f, book.orders, list, n) /\ Total(book, h) = f[n]
  BY <1>5, <1>6, TotalIs
<1>8. PICK p : p = book.levels[h].price
  OBVIOUS
<1>9. BestPrice(side) = p /\ Told(side) # {}
  BY <1>8, BestPriceIs
<1> DEFINE at == AtBest(side, p)
           Count(s, best) == (CHOOSE g : Counts(g, feed, AtBest(s, best), MaxOrderIds))[MaxOrderIds]
<1>10. Best(side) = IF Told(side) = {} THEN [price |-> NoPrice, qty |-> 0]
                    ELSE [price |-> BestPrice(side), qty |-> Count(side, BestPrice(side))]
  BY Zenon DEF Best, BestPrice, AtBest, Counts
<1>11. Best(side) = [price |-> p, qty |-> Count(side, p)]
  BY ONLY <1>9, <1>10, Zenon
<1>12. PICK g : Counts(g, feed, at, MaxOrderIds) /\ Count(side, p) = g[MaxOrderIds]
  <2>1. Counts(CHOOSE g : Counts(g, feed, at, MaxOrderIds), feed, at, MaxOrderIds)
    BY CountRecursion, BookAssumption, Zenon
  <2> QED BY <2>1, Zenon
<1> DEFINE key == [j \in 1 .. n |-> book.orders[list[j]].order_id]
<1>13. \A j \in 1 .. n : /\ list[j] \in InUse(book.order_pool)
                         /\ book.orders[list[j]].order_id \in Ids
                         /\ book.orders[list[j]].qty = feed[book.orders[list[j]].order_id].qty
  <2> TAKE j \in 1 .. n
  <2>1. PICK x : x = list[j]
    OBVIOUS
  <2>2. x \in InUse(book.order_pool)
    BY <1>3, <1>4, <1>5, <2>1 DEF QueueOf
  <2>3. book.orders[x].order_id \in Ids /\ book.orders[x].qty = feed[book.orders[x].order_id].qty
    BY <1>1, <2>2, OrdersAreTold
  <2> QED BY <2>1, <2>2, <2>3
<1>14. \A i, j \in 1 .. n : i < j => book.orders[list[i]].order_id < book.orders[list[j]].order_id
  <2>1. \A i, j \in 1 .. Len(Q[h]) :
           i < j => book.orders[Q[h][i]].order_id < book.orders[Q[h][j]].order_id
    BY <1>3 DEF QueueOf
  <2> QED BY ONLY <1>4, <1>5, <2>1
<1>15. \A id : id \in at <=> \E j \in 1 .. n : book.orders[list[j]].order_id = id
  <2>1. ASSUME NEW id
        PROVE  id \in AtBest(side, book.levels[h].price) <=> Queued(id, book.orders, Q[h])
    BY AtBestIs
  <2> QED BY ONLY <1>4, <1>5, <1>8, <2>1 DEF Queued
<1> HIDE DEF at
<1>16. /\ key \in [1 .. n -> 0 .. MaxOrderIds - 1]
       /\ \A i, j \in 1 .. n : i < j => key[i] < key[j]
       /\ \A j \in 1 .. n : key[j] \in at /\ book.orders[list[j]].qty = feed[key[j]].qty
       /\ \A id \in at : \E j \in 1 .. n : key[j] = id
  BY <1>13, <1>14, <1>15 DEF Ids
<1> HIDE DEF key
<1>17. MaxOrderIds \in Nat
  BY BookAssumption
<1>18. g[MaxOrderIds] = f[n]
  <2>1. PICK k \in [1 .. n -> 0 .. MaxOrderIds - 1] : k = key
    BY <1>16
  <2>2. SameOrders(n, book.orders, list, feed, at, k)
    BY ONLY <1>16, <2>1 DEF SameOrders
  <2>3. Totals(f, book.orders, list, n) /\ Counts(g, feed, at, MaxOrderIds)
    BY <1>7, <1>12
  <2> QED BY <1>17, <2>2, <2>3, SumsAgree
<1> HIDE DEF Count
<1>19. Best(side).price = p /\ Best(side).qty = Count(side, p)
  BY ONLY <1>11
<1> QED BY <1>7, <1>8, <1>12, <1>18, <1>19

(* The invariant implies BBOIsBest.                                        *)
LEMMA InvImpliesBBOIsBest == IInv => BBOIsBest
<1> SUFFICES ASSUME IInv PROVE BBOIsBest
  OBVIOUS
<1>1. PICK C, Q : Structure(book, C, Q)
  BY DEF IInv
<1>2. FeedInv(book, feed, next_id) /\ BboInv(book) /\ IsBook(book)
  BY <1>1 DEF IInv, Structure, TypeInv
<1> DEFINE Price(side) == IF book.by_price[side] = nullptr THEN NoPrice
                          ELSE book.levels[book.by_price[side]].price
           Qty(side) == IF book.by_price[side] = nullptr THEN 0 ELSE Total(book, book.by_price[side])
           Bbo == [bid_price |-> Price("BUY"), bid_qty |-> Qty("BUY"),
                   ask_price |-> Price("SELL"), ask_qty |-> Qty("SELL")]
<1>3. updateBBO(book) = [book EXCEPT !.bbo = Bbo]
  BY Zenon DEF updateBBO
<1>4. ASSUME NEW side \in Sides PROVE Best(side).price = Price(side) /\ Best(side).qty = Qty(side)
  <2>1. CASE book.by_price[side] = nullptr
    <3>1. Told(side) = {}
      BY <1>1, <1>2, <2>1, NoneTold
    <3>2. Best(side) = [price |-> NoPrice, qty |-> 0]
      BY <3>1, Zenon DEF Best
    <3> QED BY <2>1, <3>2
  <2>2. CASE book.by_price[side] # nullptr
    <3>1. /\ Best(side).price = book.levels[book.by_price[side]].price
          /\ Best(side).qty = Total(book, book.by_price[side])
      BY <1>1, <1>2, <2>2, BestIs
    <3> QED BY <2>2, <3>1
  <2> QED BY <2>1, <2>2
<1>5. "BUY" \in Sides /\ "SELL" \in Sides
  BY DEF Sides
<1> HIDE DEF Price, Qty
<1>6. Bbo = [bid_price |-> Best("BUY").price, bid_qty |-> Best("BUY").qty,
             ask_price |-> Best("SELL").price, ask_qty |-> Best("SELL").qty]
  BY <1>4, <1>5
<1> HIDE DEF Bbo
<1>7. [book EXCEPT !.bbo = Bbo].bbo = Bbo
  BY <1>2 DEF IsBook
<1>8. book.bbo = Bbo
  BY <1>2, <1>3, <1>7 DEF BboInv
<1> QED BY <1>6, <1>8 DEF BBOIsBest

----------------------------------------------------------------------------
(* The theorems.                                                           *)

(* After every update of the feed the pointers of onMarketUpdate's lists   *)
(* are closed both ways over blocks in use, the tables name exactly those  *)
(* blocks, the pools have lost none, and no ASSERT of a pool has failed.   *)
THEOREM HeapStaysSound == Spec => []HeapSound
BY InvHolds, InvImpliesHeapSound, PTL

(* After every update the lists hold the orders the feed has told of, in   *)
(* price-time order.                                                       *)
THEOREM BookShowsTheFeed == Spec => []ShowsTheFeed
BY InvHolds, InvImpliesShowsTheFeed, PTL

(* After every update the cached BBO that getBBO() hands out is the best   *)
(* price of the feed and the quantity at it.                               *)
THEOREM BboStaysBest == Spec => []BBOIsBest
BY InvHolds, InvImpliesBBOIsBest, PTL
=============================================================================
