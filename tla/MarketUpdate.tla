---------------------------- MODULE MarketUpdate ----------------------------
(***************************************************************************)
(* Market updates, what they do to a book, and the two multicast groups    *)
(* that carry them (Exchange/market_data/market_update.h,                  *)
(* trading/strategy/market_order_book.cpp, include/mcast_socket.h).        *)
(*                                                                         *)
(* A book is a function from its resting orders to their quantities.  An   *)
(* order is a number: the place of its (ticker, order id) in the walk of a *)
(* snapshot.  Side, price and priority travel with the order unchanged.    *)
(***************************************************************************)
EXTENDS Integers, Sequences, FiniteSets, FiniteSetsExt, Functions

CONSTANTS
    Orders,
    InRange,      \* orders whose id is below ME_MAX_ORDER_IDS
    Qtys,
    MaxFaults     \* bound on the datagrams lost, doubled or delayed

ASSUME OrdersAssumption ==
    /\ Orders \subseteq Nat \ {0} /\ InRange \subseteq Orders
    /\ Qtys \subseteq Nat
ASSUME MaxFaultsAssumption == MaxFaults \in Nat

VARIABLES
    inc_channel,    \* incremental datagrams on their way to the consumer
    snap_channel,   \* snapshot datagrams on their way to the consumer
    snap_joined,    \* the consumer's snapshot socket is open
    faults          \* datagrams lost, doubled or delayed so far

network == <<inc_channel, snap_channel, snap_joined, faults>>

EmptyBook == [k \in {} |-> 0]
WithOrder(book, k, qty) == [x \in DOMAIN book \cup {k} |-> IF x = k THEN qty ELSE book[x]]
WithoutOrder(book, k) == Restrict(book, DOMAIN book \ {k})

Update(type, order, qty) == [type |-> type, order |-> order, qty |-> qty]
Frame(seq, update) == [seq |-> seq, update |-> update]

\* What an ADD, a MODIFY or a CANCEL does to a book that takes every order.
Applied(book, u) ==
    CASE u.type = "ADD" -> WithOrder(book, u.order, u.qty)
      [] u.type = "MODIFY" /\ u.order \in DOMAIN book -> WithOrder(book, u.order, u.qty)
      [] u.type = "CANCEL" -> WithoutOrder(book, u.order)
      [] OTHER -> book

\* MarketOrderBook::onMarketUpdate: ids that do not fit its array are dropped.
onMarketUpdate(book, u) ==
    IF u.type \in {"CLEAR", "SNAPSHOT_START"} THEN EmptyBook
    ELSE IF u.type \in {"ADD", "MODIFY", "CANCEL"} /\ u.order \notin InRange THEN book
    ELSE Applied(book, u)

\* The part of a book that the arrays of the subscribers have room for.
Visible(book) == Restrict(book, DOMAIN book \cap InRange)

----------------------------------------------------------------------------
(* The network.  Multicast is UDP: a datagram may be lost, doubled or      *)
(* overtaken, and one sent to a group that nobody has joined is gone.      *)

NetworkInit ==
    /\ inc_channel = <<>> /\ snap_channel = <<>>
    /\ snap_joined = FALSE
    /\ faults = 0

\* Loss (also by the sender, whose sendto() may fail), doubling, overtaking.
Disturbed(channel) ==
    { Tail(channel), <<Head(channel)>> \o channel, Append(Tail(channel), Head(channel)) }

Fault ==
    /\ faults < MaxFaults /\ faults' = faults + 1
    /\ \/ /\ inc_channel # <<>> /\ inc_channel' \in Disturbed(inc_channel)
          /\ UNCHANGED snap_channel
       \/ /\ snap_channel # <<>> /\ snap_channel' \in Disturbed(snap_channel)
          /\ UNCHANGED inc_channel
    /\ UNCHANGED snap_joined

=============================================================================
