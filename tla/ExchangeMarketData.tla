------------------------- MODULE ExchangeMarketData -------------------------
(***************************************************************************)
(* The exchange's side of market data: the publisher numbers the engine's  *)
(* updates, multicasts them and forwards them to the synthesizer, a thread *)
(* of its own, which keeps the book and multicasts an image of it from     *)
(* time to time (Exchange/market_data/market_data_publisher.cpp,           *)
(* snapshot_synthesizer.cpp).                                              *)
(*                                                                         *)
(* A name of the form Operator_Fault is a faulty variant of the operator   *)
(* that follows it; no specification uses one.                             *)
(***************************************************************************)
EXTENDS MarketUpdate

CONSTANTS
    SnapshotPoolSize,   \* capacity of order_pool_: ME_MAX_ORDER_IDS
    MaxUpdates,         \* bound on the updates of the engine
    MaxUnheard,         \* bound on the snapshots begun while nobody listens
    MaxInFlight         \* bound on the snapshot datagrams in flight

ASSUME SnapshotAssumption ==
    /\ SnapshotPoolSize \in Nat /\ MaxUpdates \in Nat
    /\ MaxUnheard \in Nat /\ MaxInFlight \in Nat \ {0}

VARIABLES
    next_inc_seq_num,     \* the publisher's
    book_at,              \* the engine's book after each update; book_at[0] is empty
    snapshot_md_updates,  \* the queue from the publisher to the synthesizer
    ticker_orders,        \* the synthesizer's book
    last_inc_seq_num, next_snap_seq_num,
    snapshot_timed,       \* last_snapshot_time_ > 0
    snap_phase,           \* where publishSnapshot is
    snap_cursor,          \* the order its walk has come to
    unheard               \* snapshots begun while nobody listens

exchange == <<next_inc_seq_num, book_at, snapshot_md_updates, ticker_orders,
              last_inc_seq_num, next_snap_seq_num, snapshot_timed, snap_phase,
              snap_cursor, unheard>>

\* The last of the engine's books.
EngineBook == book_at[next_inc_seq_num - 1]

\* What the engine may send next (MEOrderBook: FeedMatchesBook).  Order ids
\* are never used twice; a TRADE names no order.
EngineUpdates ==
    { Update("ADD", k, q) : k \in { x \in Orders : \A n \in DOMAIN book_at : x \notin DOMAIN book_at[n] },
                            q \in Qtys }
    \cup (UNION { { Update("MODIFY", k, q) : q \in { x \in Qtys : x < EngineBook[k] } } :
                  k \in DOMAIN EngineBook })
    \cup { Update("CANCEL", k, 0) : k \in DOMAIN EngineBook }
    \cup { Update("TRADE", 0, 0) }

ExchangeInit ==
    /\ next_inc_seq_num = 1
    /\ book_at = [n \in {0} |-> EmptyBook]
    /\ snapshot_md_updates = <<>>
    /\ ticker_orders = EmptyBook
    /\ last_inc_seq_num = 0 /\ next_snap_seq_num = 1
    /\ snapshot_timed = FALSE
    /\ snap_phase = "poll" /\ snap_cursor = 0
    /\ unheard = 0

----------------------------------------------------------------------------
(* MarketDataPublisher::poll, one update of the engine.                    *)

poll_ForwardsNextSeq(u) ==
    /\ snap_phase # "exited"
    /\ next_inc_seq_num <= MaxUpdates
    /\ inc_channel' = Append(inc_channel, Frame(next_inc_seq_num, u))
    /\ snapshot_md_updates' = Append(snapshot_md_updates, Frame(next_inc_seq_num + 1, u))
    /\ book_at' = [n \in 0 .. next_inc_seq_num |->
                     IF n = next_inc_seq_num THEN Applied(EngineBook, u) ELSE book_at[n]]
    /\ next_inc_seq_num' = next_inc_seq_num + 1
    /\ UNCHANGED <<snap_channel, snap_joined, faults, ticker_orders, last_inc_seq_num,
                   next_snap_seq_num, snapshot_timed, snap_phase, snap_cursor, unheard>>
poll(u) ==
    /\ snap_phase # "exited"
    /\ next_inc_seq_num <= MaxUpdates
    /\ inc_channel' = Append(inc_channel, Frame(next_inc_seq_num, u))
    /\ snapshot_md_updates' = Append(snapshot_md_updates, Frame(next_inc_seq_num, u))
    /\ book_at' = [n \in 0 .. next_inc_seq_num |->
                     IF n = next_inc_seq_num THEN Applied(EngineBook, u) ELSE book_at[n]]
    /\ next_inc_seq_num' = next_inc_seq_num + 1
    /\ UNCHANGED <<snap_channel, snap_joined, faults, ticker_orders, last_inc_seq_num,
                   next_snap_seq_num, snapshot_timed, snap_phase, snap_cursor, unheard>>

----------------------------------------------------------------------------
(* SnapshotSynthesizer::run.                                               *)

\* publishSnapshot begins.  The clock is not modelled: it is time, or not.
SnapshotBegins ==
    /\ snap_joined \/ unheard < MaxUnheard
    /\ unheard' = IF snap_joined THEN unheard ELSE unheard + 1
    /\ snap_phase' = "CLEAR"

\* The book of the synthesizer after an update.
addToSnapshot(u) ==
    IF u.type \in {"ADD", "MODIFY", "CANCEL"} /\ u.order \notin InRange
    THEN ticker_orders ELSE Applied(ticker_orders, u)

\* ADD takes an object of order_pool_; with none left the exchange ends.
PoolRunsOut(u) ==
    /\ u.type = "ADD" /\ u.order \in InRange
    /\ Cardinality(DOMAIN ticker_orders) >= SnapshotPoolSize

SynthesizeUpdate ==
    /\ snap_phase = "poll" /\ snapshot_md_updates # <<>>
    /\ LET f == Head(snapshot_md_updates)
       IN  /\ last_inc_seq_num' = f.seq
           /\ IF PoolRunsOut(f.update)
              THEN /\ snap_phase' = "exited"
                   /\ UNCHANGED <<ticker_orders, snapshot_md_updates, snapshot_timed, unheard>>
              ELSE /\ ticker_orders' = addToSnapshot(f.update)
                   /\ snapshot_md_updates' = Tail(snapshot_md_updates)
                   /\ snapshot_timed' = TRUE
                   /\ \/ UNCHANGED <<snap_phase, unheard>>
                      \/ snapshot_timed /\ SnapshotBegins
    /\ UNCHANGED <<next_inc_seq_num, book_at, next_snap_seq_num, snap_cursor, network>>

SnapshotIsDue ==
    /\ snap_phase = "poll" /\ snapshot_md_updates = <<>> /\ snapshot_timed
    /\ SnapshotBegins
    /\ UNCHANGED <<next_inc_seq_num, book_at, snapshot_md_updates, ticker_orders,
                   last_inc_seq_num, next_snap_seq_num, snapshot_timed, snap_cursor, network>>

\* One message of the cycle, in a datagram of its own.
SendSnapshot(u) ==
    /\ Len(snap_channel) < MaxInFlight
    /\ snap_channel' = IF snap_joined
                       THEN Append(snap_channel, Frame(next_snap_seq_num, u)) ELSE snap_channel
    /\ next_snap_seq_num' = next_snap_seq_num + 1
    /\ UNCHANGED <<inc_channel, snap_joined, faults, next_inc_seq_num, book_at,
                   snapshot_md_updates, ticker_orders, last_inc_seq_num, snapshot_timed, unheard>>

OrdersLeft == { k \in DOMAIN ticker_orders : k > snap_cursor }

SnapshotClear ==
    /\ snap_phase = "CLEAR"
    /\ SendSnapshot(Update("CLEAR", 0, 0))
    /\ snap_phase' = "SNAPSHOT_START" /\ UNCHANGED snap_cursor

SnapshotStart ==
    /\ snap_phase = "SNAPSHOT_START"
    /\ SendSnapshot(Update("SNAPSHOT_START", 0, 0))
    /\ snap_phase' = "ADD" /\ snap_cursor' = 0

SnapshotAdd ==
    /\ snap_phase = "ADD" /\ OrdersLeft # {}
    /\ SendSnapshot(Update("ADD", Min(OrdersLeft), ticker_orders[Min(OrdersLeft)]))
    /\ snap_cursor' = Min(OrdersLeft) /\ UNCHANGED snap_phase

\* SNAPSHOT_END carries the number of the last update that the image holds.
SnapshotEnd ==
    /\ snap_phase = "ADD" /\ OrdersLeft = {}
    /\ SendSnapshot(Update("SNAPSHOT_END", last_inc_seq_num, 0))
    /\ snap_phase' = "poll" /\ snap_cursor' = 0

publishSnapshot == SnapshotClear \/ SnapshotStart \/ SnapshotAdd \/ SnapshotEnd

=============================================================================
