--------------------------- MODULE LimitOrderBook ---------------------------
(***************************************************************************)
(* What a limit order book promises, said of a set of resting orders and   *)
(* nothing else: no lists, no slots, no pools.  The time priority of an    *)
(* order is its market order id.  MEOrderBook implements it.               *)
(***************************************************************************)
EXTENDS Integers

CONSTANTS MaxNumClients, MaxOrderIds, Prices, Qtys

VARIABLES
    book,                  \* resting orders, by market order id
    next_market_order_id,
    pc,                    \* "matching" while an order is being executed
    taker                  \* that order

vars == <<book, next_market_order_id, pc, taker>>

Side == {"BUY", "SELL"}

NoTaker == [client_id |-> 0, client_order_id |-> 0, market_order_id |-> 0,
            side |-> "BUY", price |-> 0, leaves |-> 0]

\* Order m rests on the other side, at a price that the taker accepts.
Executable(m) ==
    /\ book[m].side # taker.side
    /\ IF taker.side = "BUY" THEN book[m].price <= taker.price
                             ELSE book[m].price >= taker.price

\* m comes before n for the taker: better price first, then older first.
Before(m, n) ==
    \/ IF taker.side = "BUY" THEN book[m].price < book[n].price
                             ELSE book[m].price > book[n].price
    \/ book[m].price = book[n].price /\ m < n

Init ==
    /\ book = [m \in {} |-> <<>>]
    /\ next_market_order_id = 1
    /\ pc = "idle"
    /\ taker = NoTaker

\* A client has at most one live order under an id.
Accept ==
    /\ pc = "idle"
    /\ \E c \in 0 .. MaxNumClients - 1, o \in 0 .. MaxOrderIds - 1,
          side \in Side, price \in Prices, qty \in Qtys :
          /\ \A m \in DOMAIN book : ~(book[m].client_id = c /\ book[m].client_order_id = o)
          /\ taker' = [client_id |-> c, client_order_id |-> o,
                       market_order_id |-> next_market_order_id,
                       side |-> side, price |-> price, leaves |-> qty]
    /\ next_market_order_id' = next_market_order_id + 1
    /\ pc' = "matching"
    /\ UNCHANGED book

\* Both sides lose the same quantity, and the smaller of the two is used up.
Execute ==
    /\ pc = "matching" /\ taker.leaves > 0
    /\ \E m \in DOMAIN book :
          /\ Executable(m)
          /\ \A n \in DOMAIN book \ {m} : Executable(n) => Before(m, n)
          /\ \/ /\ book[m].qty <= taker.leaves
                /\ taker' = [taker EXCEPT !.leaves = @ - book[m].qty]
                /\ book' = [n \in DOMAIN book \ {m} |-> book[n]]
             \/ /\ book[m].qty > taker.leaves
                /\ taker' = [taker EXCEPT !.leaves = 0]
                /\ book' = [book EXCEPT ![m].qty = @ - taker.leaves]
    /\ UNCHANGED <<next_market_order_id, pc>>

Rest ==
    /\ pc = "matching" /\ taker.leaves > 0
    /\ \A m \in DOMAIN book : ~Executable(m)
    /\ book' = [n \in DOMAIN book \cup {taker.market_order_id} |->
                  IF n = taker.market_order_id
                  THEN [client_id |-> taker.client_id,
                        client_order_id |-> taker.client_order_id,
                        side |-> taker.side, price |-> taker.price, qty |-> taker.leaves]
                  ELSE book[n]]
    /\ pc' = "idle" /\ taker' = NoTaker
    /\ UNCHANGED next_market_order_id

Done ==
    /\ pc = "matching" /\ taker.leaves = 0
    /\ pc' = "idle" /\ taker' = NoTaker
    /\ UNCHANGED <<book, next_market_order_id>>

Cancel ==
    /\ pc = "idle"
    /\ \E m \in DOMAIN book : book' = [n \in DOMAIN book \ {m} |-> book[n]]
    /\ UNCHANGED <<next_market_order_id, pc, taker>>

\* The process ends: only with an order in hand that cannot be stored.
Exit ==
    /\ pc = "matching" /\ taker.leaves > 0
    /\ \A m \in DOMAIN book : ~Executable(m)
    /\ pc' = "exited"
    /\ UNCHANGED <<book, next_market_order_id, taker>>

Next == Accept \/ Execute \/ Rest \/ Done \/ Cancel \/ Exit

Spec == Init /\ [][Next]_vars

=============================================================================
