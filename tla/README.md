# Verification of the exchange

TLA+ models of the exchange and of its trading client, the TLC runs that check
them on small instances, and TLAPS proofs of what matters most for every
instance. Source paths are relative to the repository.

Contents: the system, the plan, the modules, the runs, the proofs, the findings,
what is left out.

## 1. The system

Two processes. In the **exchange** four threads run the components
`MatchingEngine`, `OrderServer`, `MarketDataPublisher` and
`SnapshotSynthesizer`; in each **client** three threads run `TradeEngine`,
`OrderGateway` and `MarketDataConsumer`. Threads of a process exchange messages
through single-producer single-consumer queues (`LFQueue`) and share nothing
else. Orders and responses travel over TCP, market data over two UDP multicast
groups: the incremental stream and the snapshot stream.

    OrderGateway --TCP--> OrderServer --queue--> MatchingEngine (MEOrderBook per ticker)
         ^                    |                      |      |
         +-------TCP----------+<-------queue---------+      +--queue--> MarketDataPublisher
         |                                                              |            |
    TradeEngine <--queue-- MarketDataConsumer <==UDP incremental========+          queue
                                  ^                                                  |
                                  +=========UDP snapshot============ SnapshotSynthesizer

### Inventory

| Component (source) | State | Operations | Interacts by | What is hard | Properties |
|---|---|---|---|---|---|
| `MEOrderBook` (`Exchange/matcher/me_order_book.*`, `me_order.h`) | circular lists of price levels and of orders, price slots (price modulo 256), index by client order id, two pools, next market order id | `add`, `cancel` | called by the engine, sends responses and updates | lists with several insertion cases, prices that share a slot, a matching loop that removes what it walks on, pools that end | coherence of lists, slots and index, sorted lists, never crossed, price-time priority, messages agree with the book, `add` ends |
| `LFQueue` (`include/lq_free.h`) | slots, two atomic indices, two cached copies | `getNextToWriteTo`, `updateWriteIndex`, `getNextToRead`, `updateReadIndex`, `size` | between every two threads | two threads, stale cached indices, a slot handed out before the check for room, wrap-around | FIFO, no shared slot, no underflow, every element is read |
| `MarketDataPublisher` (`Exchange/market_data/market_data_publisher.*`) | next sequence number | `poll` | reads the engine's queue, multicasts, feeds the synthesizer | the slot of the engine's queue must outlive its two readers | one number per update, same number for both readers |
| `SnapshotSynthesizer` (`snapshot_synthesizer.*`) | book by ticker and order id, pool, last incremental number, next snapshot number, time of the last snapshot | `run`, `addToSnapshot`, `publishSnapshot` | reads the publisher's queue, multicasts | runs behind the publisher; its number must be that of the image | the image is the engine's book as of the number in `SNAPSHOT_END` |
| `MarketDataConsumer` (`trading/market_data/market_data_consumer.*`) | expected number, recovery flag, buffer of updates out of order, three reassembly variables, two sockets | `recvIncremental`, `processIncremental`, `startRecovery`, `recvSnapshot`, `processSnapshot`, `finishRecovery` | two multicast groups in, queue to the trade engine out | loss, duplication, overtaking in both streams, joining in mid-cycle, images older than the book, a callback that destroys its socket | the client's book is one the engine had, buffered updates stay ahead, recovery ends, nothing is parsed that was not received |
| `McastSocket` (`include/mcast_socket.h`) | send and receive buffer with an index each | `init`, `destroy`, `send`, `sendAndRecv` | UDP | see the consumer | see the consumer |
| `MarketOrderBook` (`trading/strategy/market_order_book.*`) | the client's lists, slots and pools, BBO | `onMarketUpdate` | called by the trade engine | as `MEOrderBook`, plus ids from the wire and aliasing that is dropped | lists coherent, BBO is the best of the book |
| `MemPool` (`include/mem_pool.h`) | blocks, free flags, scan index, free count | `allocate`, `deallocate` | every book | scan with wrap-around, fatal exhaustion | no block handed out twice, the scan ends |
| `MatchingEngine` (`Exchange/matcher/matching_engine.*`) | books by ticker, run flag | `processClientRequest`, `sendClientResponse`, `sendMarketUpdate`, `run`, `stop` | three queues | shutdown by a request in the queue | every request is answered, all before the pill are served |
| `exchange_main` (`Exchange/exchange_main.cpp`) | the components, the shutdown flag | start, idle, teardown | constructs and deletes the others | detached threads that only a sleep waits for; a queue with a second producer at the end | nothing in use is freed, nothing taken from clients is lost, the process ends |
| `OrderServer` (`Exchange/order_server/order_server.*`) | socket, next expected and next outgoing number per client | receive and disconnect callbacks, `recvFinished`, `run` | TCP, two queues | disconnect and reconnect, numbers per session | no request lost or doubled in a session, responses only to their session |
| `FIFOSequencer` (`fifo_sequencer.h`) | up to 1024 pending requests | `addClientRequest`, `sequenceAndPublish` | the server's callbacks, queue | order by receive time within one poll cycle only | order of publication |
| `TCPServer`, `TCPSocket` (`include/tcp_*.h`) | epoll set, sockets, buffers | `poll`, `sendAndRecv`, `send` | kernel | end of stream noticed one poll later | a dead socket is reaped |
| `OrderGateway` (`trading/order_gw/*`) | two sequence numbers, socket | `run`, `recvCallback` | TCP, two queues | restarts | both ends agree on the numbers |
| `OrderManager`, `RiskManager` (`trading/strategy/`) | one order per ticker and side, limits | `onOrderUpdate`, `newOrder`, `cancelOrder`, `moveOrders` | trade engine | responses matched by ticker and side alone; rejected requests | an order is never stuck, position limit |
| `PositionKeeper` | position, open prices, profit | `addFill`, `updateBBO` | trade engine | sign changes | position is the sum of fills |
| `TradeEngine` | books, the above | `run`, `handleResponse`, `handleMarketUpdate`, callbacks | three queues | several tickers, updates that skip the valuation, order of signal and strategy | profit is that of the present book |
| `FeatureEngine`, `MarketMaker`, `LiquidityTaker` | two floating point signals, shared by all tickers | callbacks | order manager | signals that outlive their book | quotes follow the book they are for |
| `trading_main` | the client's components | start, plug in a strategy, drain, teardown | constructs and deletes the others | races between main and the threads | |

`PROJECT.json` lists the hazards by line.

## 2. The plan

1. *(done)* `MEOrderBook`, with the abstract `LimitOrderBook` it implements; proofs.
2. *(done)* `LFQueue`, with the abstract `BoundedFifo`; proofs.
3. *(done)* Market data: `MarketUpdate`, `ExchangeMarketData`,
   `MarketDataConsumer`, composed in `MarketDataFeed`.
4. *(done)* Order sessions: `TCPConnections`, `OrderGateway`, `OrderServer`
   (with `TCPServer` and `FIFOSequencer`), composed in `OrderSession`.
5. *(done)* The client's orders: `OrderManager` (with `RiskManager`), composed
   with the exchange's answers in `OrderFlow`; `PositionKeeper`.
6. *(done)* `MarketOrderBook` with its pointers and `MemPool`; `MatchingEngine`
   with dispatch and shutdown, composed with the other threads of the exchange
   in `ExchangeMain`; the routing of `TradeEngine` with signals and strategies.
7. *(done)* A restart of the client with orders in the book (`OrderFlow`); the
   order of arrival across connections (`ArrivalOrder`).
8. *(done)* Theorems about the feed, the sessions, the order of arrival, the
   client's orders, the teardown, the client's book, positions and quotes.
9. Behaviours still to state: the teardown of the client; updates packed into one
   datagram; how long updates stay in the consumer's buffer when the image is
   older than the gap.

## 3. The modules

Every module keeps the source's names. A definition named `Operator_Fault`
(`addOrder_AtFront`) is a faulty variant of the operator after it. No
specification uses one; each shows, put in the operator's place, that some
property notices the fault.

**`MEOrderBook`** models one book. A level is named by its price and an order by
its market order id, so that pointers are names: the circular lists are
sequences that start at the head, a null pointer in a table is an index outside
the table's domain. `by_price` stands for `bids_by_price_` and `asks_by_price_`,
`price_orders_at_price`, `cid_oid_to_order` and `next_market_order_id` for the
members of these names, `orders` for the live objects of `order_pool_`. What the
book sends is modelled by what it amounts to for its reader: `ledger` holds, per
client order id, the open quantity a client computes from its responses and the
`leaves_qty` it was told last; `feed` is the book that a subscriber computes from
the updates. An INVALID or CANCEL_REJECTED response changes nothing for its
reader, so those steps stutter. `add()` is one step up to ACCEPTED
(`AddAccepted`), one per pass of `checkForMatch` (`match`) and one to rest or end
(`AddRests`, `AddFilled`), because the other threads read what it has sent
meanwhile; `PoolExhausted` is the failed assertion of `MemPool::allocate`, which
ends the process. Of the pool of levels the number of blocks in use is kept
(`levels_in_use`), taken by `addOrder` and given back by `removeOrdersAtPrice`,
apart from the slot table, so that a level which leaves the table without going
back to its pool counts. Two constants stand for `ME_MAX_ORDER_IDS`, the bound of an id
and the size of the pool: a book has more client order ids (per client) than
orders, so the pool can run out, and with one client and one constant it could
not. Prices are unsigned 64-bit numbers, so `priceToIndex` is a plain
remainder. The side of a request comes off the wire unchecked and any value but
BUY is treated as SELL by some of the code and not by the rest; requests here
carry one of the two sides that the gateway sends.

**`LimitOrderBook`** is what a book promises: a set of resting orders, an
incoming order that trades against the oldest order of the best price while one
crosses it, rests otherwise, and cancellation. It has no lists, slots or pools.

**`LFQueue`** models both threads. A step touches shared memory once: one index or
one slot. That steps interleave (sequential consistency) is justified by the
release stores and acquire loads of the two indices: whoever sees an index sees
the slots before it; the slots themselves are ordinary memory, so a slot that is
being filled holds `Torn`, which a reader must never copy. `getNextToWriteTo`
hands out a slot and the producer fills it before `updateWriteIndex` asks whether
there is room; FATAL ends the process and with it both threads. `size()` called
by a third thread, as the shutdown of `trading_main.cpp` does, is approximate and
is not modelled; the threads' own view is.

**`BoundedFifo`** is the queue's promise: a sequence of at most N-1 elements and an
exit that happens only when it is full.

**`MarketUpdate`** has the messages, what they do to a book, and the network. A
book is a function from orders to quantities; side, price and priority travel
with an order unchanged. `Fault` loses, doubles or delays one datagram of either
stream. One datagram carries one update. The publisher packs the updates of one
pass into datagrams of up to 1400 bytes; losing such a datagram is losing its
updates one after the other, and the consumer's loop treats them one by one.

**`ExchangeMarketData`** is the publisher and the synthesizer. `book_at` is the
engine's book after each update (a history that the code does not keep);
`EngineUpdates` is what an engine may send in that book, which `MEOrderBook`
guarantees (`FeedMatchesBook`). The clock is not modelled: whenever the code
tests it, a snapshot is or is not due. The messages of a cycle are sent one step
at a time. The queue between the two threads is a sequence (`BoundedFifo`,
without its limit).

**`MarketDataConsumer`** is one thread; its handlers are cut at every update they
publish. Snapshot frames reach `processSnapshot` in the two ways that the code
has: through the socket and the loop of `recvSnapshot`, and through the hook
`onSnapshotForTest` that the unit tests use. The constant `Entries` says which.
The difference matters: through the socket the thread does not survive the end
of a recovery (section 6), so the hook is the only way to see what the recovery
logic does after it. Indices into the receive buffer count frames, with the
wrap-around of `size_t` (`SizeT`); what lies beyond the frames received is read
as a frame that says nothing, and reading beyond the buffer ends the process.
The downstream queue and `MarketOrderBook` are merged into `downstream`, the book
that the published updates amount to.

**`MarketDataFeed`** composes the exchange's side, the network and one consumer.

**`TCPConnections`** is TCP as both ends use it: each connection keeps the order of
its messages and loses none while both ends live; it ends in order (`fin`) or by a
reset (`rst`). A message is whole: the code keeps the part of one that has arrived
in the receive buffer and does nothing with it. `clock` counts arrivals and stands
for the kernel's receive time stamp.

**`OrderGateway`** is a client's end: connect, send, check what comes back. A
restart is a new process with a new connection and both numbers at one; what was
sent before still arrives.

**`OrderServer`** is the server's thread, cut at its system calls, so that gateways
act between them: `Reap` and `Accept` are `TCPServer::poll`, `RecvData`,
`RecvNothing`, `ParseRequest`, `ParseDone` with `Flush` are
`TCPSocket::sendAndRecv` for the socket at `cursor`, `recvFinishedCallback`
publishes the sorted requests and notes in `rounds` when their cycle began (a
history, for `ArrivalOrder`), `SendResponse` and `ResponsesDone` drain the
engine's queue. `published` is all that the engine was ever handed (a history);
the engine itself may answer any client it has a request of
(`sendClientResponse`). A read carries the time stamp of its last message, as the
kernel reports it for TCP; with `KernelTime` false it may also lack one, and then
the code takes the present time. A send takes any part of the buffer, as a full
kernel buffer would; to a gateway that is gone the send may or may not fail. The
queue to the engine is a sequence; the end of the process at the sequencer's
limit is `exited`. `send_sockets` is always empty, because sockets are registered
without EPOLLOUT.

**`OrderSession`** composes the three.

**`OrderManager`** has the two slots of one instrument (instruments do not
interact) and what `TradeEngine` does with a response. `moveOrders` is one step,
with the prices that a strategy may ask for; of the strategies only these calls
matter (`TradeEngine` has the prices they ask for). Whether the profit is below
`max_loss_` is a free choice.

**`OrderFlow`** composes it with what the exchange does to one client's orders: it
answers requests in order and fills resting orders at any time; a NEW may be
refused, because its price may share a slot with another (`Aliased` in
`MEOrderBook`). `Restart` ends the client's process at any point and starts
another with the first order id, empty slots and no position. The orders of the
earlier process stay in the book (`orphans`), some of its requests are still on
their way (`stale_requests`). `RegisterSession` is the order server, which
registers the new process when it parses its first request, while requests of
the earlier one may still wait for the engine: whatever the exchange answers
from then on goes to the new process, fills of orphans and answers to stale
requests too. Without a session a response is dropped. A new process connects and
sends after the old session was reaped; what happens otherwise is finding 2 of
section 6. `mixed` says that the process has handled a response to an order or a
request of an earlier one. CANCEL_REJECTED carries no side (`NoSide`), as in the
code.

**`PositionKeeper`** is `PositionInfo` with fractions for the code's doubles, as
operators.

**`TradeEngine`** is the thread that uses it: fills and market updates of several
tickers, the two signals of `FeatureEngine` and the rules of `MarketMaker` and
`LiquidityTaker`. A book is its BBO, any of `BBOs` after an update. `quote` is the
call of `moveOrders` that the last step made. Both quantities of a BBO may have
wrapped to zero; the weighted mid is then 0/0, which is not a number, as
`Feature_INVALID` is. Two-sided BBOs are taken to be uncrossed (`EngineAssumption`):
the client's book shows the best prices of the feed (`BBOIsBest`), and the feed is
of a book that is never crossed (`NotCrossed`). `cash` and `mark` are histories:
money in and out, and the price of the last valuation. `Traded` names the tickers
that have fills; the others have books and move the shared signals.
`MCTradeEngine` gives the BBOs of the run.

**`MemPool`** is the pool as operators on its flags, its scan index and its count; a
pointer is the index of a block. **`MarketOrderBook`** is the client's book on two
such pools, with `prev` and `next` of every block (`link` and `unlink` put a block
into a ring and take it out), the two tables and the BBO, and
all update types of `onMarketUpdate`; quantities wrap at `QtyModulus` as they do
at 2^32. The feed around it is one that an exchange may send: ids that grow,
prices that do not cross, MODIFY and CANCEL of orders it has told of, a CLEAR or
SNAPSHOT_START after which ids may come again. `feed` is what it has told, with
`shown` for the orders that the arrays have room for. `aborted` is a failed
assertion of a pool. Priorities are not kept: nothing reads them.

**`MatchingEngine`** is the engine's thread between its queues: the pill, the check
of the ticker, the lazily made books, and what a request causes (`BookDoes`): how
many responses and updates are sent and how many orders rest then. A NEW may be
refused, rest, fill any number of the resting orders and then rest, be filled
or end on one that keeps a part; each execution sends two responses and two
updates. `client_requests` is kept as slots and indices, because at
shutdown it has two producers; of the other queues the number of elements.

**`ExchangeMain`** composes it with main and the other three threads: construction
and `start()` in main's order, a signal at any time after or during it, the
teardown. Writing to the queue is two steps, slot and index, for both producers.
A destructor calls `stop()`, sleeps a second and frees. Nothing is assumed of the
second: main may wake at any time (`Free`), whatever the threads have done. What
the code relies on is recorded instead. `Work` counts the steps that the thread
has still to make when it is told to stop: for the order server the requests it
is reading and the responses to all that the engine has, for the engine the
requests before the pill and the time in which the publisher sends their updates,
for the publisher its last pass, for the synthesizer a turn and the walk of
`publishSnapshot` over every ticker and order id (`SnapshotWalk` steps), which
does not look at `run_`. A round is over when every running thread has moved, and
`in_time` says that every sleep so far had as many rounds as there was work. A
thread whose component was freed (`Outlived`) uses freed memory, which is
undefined, and the model ends there. A queue that is full ends the process
(`fatal`), which can happen during the teardown because nobody reads the responses
any more.

## 4. The runs

| Run | Module and cfg | Checks |
|---|---|---|
| `book` | `MEOrderBook` | lists, slots, levels and index coherent, sorted and never crossed, time priority, messages agree with the book, which pool runs out, refinement of `LimitOrderBook`, `add` ends |
| `queue` | `LFQueue` | FIFO of N-1 elements, no shared slot, no underflow, every element is read |
| `feed_images` | `MarketDataFeed`, `_images` | the client's book out of recovery, the synthesizer's book, the buffer |
| `feed_recovery` | `MarketDataFeed`, `_recovery` | a recovery ends |
| `feed_overrun` | `MarketDataFeed`, `_overrun` | violated, see section 6 |
| `client_book` | `MarketOrderBook` | pointers and pools sound, lists show the feed, BBO is the top of it |
| `session_restarts` | `OrderSession`, `_restarts` | no freed socket is used, requests and responses stay in sequence across restarts |
| `session_ends` | `OrderSession`, `_sessions` | order of arrival across clients, dead connections are reaped, a client without an old session is served |
| `session_reconnect` | `OrderSession`, `_reconnect` | violated, see section 6 |
| `exchange_teardown` | `ExchangeMain` | requests served once and in order; nothing freed in use and all updates published, if no sleep was shorter than the work in hand; Ctrl+C ends the process |
| `orders` | `OrderFlow` | one order per side, the position limit, slots agree with the book, no slot waits for ever on a live order, all until a response to an earlier process is handled |
| `position` | `MCTradeEngine`, `TradeEngine.cfg` | profit is cash plus the position at the present book, averages are prices, quotes follow their book |

`ArrivalOrder` says what the sequencer's "true arrival order" amounts to. A request that
arrived before another is handed over after it in two cases only: it arrived when
the other's poll cycle had begun, or both were read in one cycle and a request of
its own connection arrived after the other one, because a whole read carries the
time stamp of its last message. Without the kernel's time stamps (`KernelTime`
false) the first part holds still, and within one cycle there is no order; the run
has the time stamps, the theorem covers both.

**Bounds.** `book`: two clients with two ids each, one id of each kind out of range;
four prices of which two share one of three slots, so that there is aliasing on
either side; quantities 0 to 2, so that fills are full, partial and none; four
orders in all and two at rest, fewer than the four ids, so that the pool runs
out. With two orders at rest a side has two levels: insertion between two levels
does not happen in the run and is left to the proofs, which are for any number
(section 5). `queue`: four slots, so that the indices
wrap and the two cached copies can be behind by different amounts; two values.
`feed_images`: three updates, two faults (one to open a gap, one to spoil the
recovery or the next update), images of up to two orders, and a third order that
exhausts the synthesizer's pool. `feed_recovery` adds an order id beyond the
arrays and a modified order. `MaxUnheard` bounds the snapshot cycles sent while
nobody listens: they only advance a number. `MaxInFlight` bounds the snapshot
datagrams under way, not the incremental ones; two let one overtake another. Sequence numbers are
natural numbers: 2^64 updates do not happen. `session_restarts`: one client, one
restart and two connections, so that one dies while the next is in use or waits;
three requests on each, one more than the sequencer takes, two of them in one
read; three responses; reads with and without a time stamp. More connections are
left to the proofs.
`session_ends`: two clients and one whose id is out of range, two connections, two
requests on each, one restart. `client_book`: four ids of which one is out of
range, three orders at rest, so that a list has three levels or a level three
orders; four prices of which two share a slot; quantities that wrap when two are
added. `exchange_teardown`: two requests, any of them for a ticker without a
book, so that the pill waits behind none, one or two; queues of four slots, which
the responses can overflow; a snapshot of two steps, so that one may be under way
when the flag goes. A NEW that sweeps two orders needs a third request and is left
to the proofs. `orders`: orders of two units under a limit of three, so that an order
may be filled in parts and a second one may not be sent before the first is known
to be gone; three orders over all processes, two prices, one restart, so that both
sides are quoted and one of them a second time, before or after the restart. `position`:
fills of one or two up to four units at two prices reach averages in thirds, and
flips in both directions; two tickers with a book, an id without one, books with
one side and with two, two spreads, a bid of zero and quantities of zero.

**Deadlock** is checked in `session_ends`, where the server's thread never stops,
in `client_book` and `position`. Elsewhere the system may stop. The book stops for good after `PoolExhausted`, as the
process does, and when the bound on market order ids is used up; the queue's
threads stop after FATAL; the feed stops when the exchange or the client has
ended and the bounds are used up; the exchange ends when the sequencer is full;
the exchange is over when main returns; the client's orders rest when the bound on
orders is used up. That nothing stops before its time is what
`AddTerminates`, `ElementsAreRead`, `RecoveryEnds`, `ShutdownCompletes` and
`LiveOrderHeardOf` say.

**Fairness.** `MEOrderBook`: the thread that runs `add()` goes on with it; nothing
makes clients send requests. `LFQueue`: the consumer polls for ever, as all
readers of the queues do; the producer need not write. `MarketDataFeed`: the
synthesizer's and the consumer's threads spin for ever, and the periodic snapshot
comes again and again (`SNAPSHOT_INTERVAL`); the engine may stay quiet and the
network need not fail. `OrderSession`: the server's thread spins; gateways need do
nothing. `OrderFlow`: the exchange goes on answering requests and the client
handling responses, both threads that spin; nobody has to trade and the strategy
need not quote. `ExchangeMain`: no thread is starved; nobody has to press Ctrl+C.
Weak fairness is enough everywhere.

## 5. The proofs

Eight modules named `..._proofs` hold theorems that TLAPS checks for every value of
the constants, from the assumptions named in the modules that declare them. They
are weak: numbers of clients, ids, levels, connections, requests are naturals
(positive where an array has that size), prices are integers, quantities and
limits naturals; a queue has at least two slots and `NoValue` and `Torn` are no
values; the prices of fills have a greatest one, as numbers of 64 bits have; a
snapshot has at least one step. One is more than a type: the uncrossed BBOs of
`EngineAssumption` in `TradeEngine`, which `BboStaysBest` and `NeverCrossed` prove
of the components below.

**The book.** The inductive invariant `IInv` is the conjunction of what the lists,
slots, levels and the index must satisfy together (`Book`), `NotCrossed`, what is
known of an order being added (`TakerOK`), `FeedMatchesBook` and `LedgerOK`. None
of the checked invariants is inductive alone: that removing an order clears the
right slot needs slots and lists to agree (`SlotsMatchChains`), which needs the
rejection of aliasing prices at the moment of resting and not only at the moment
of acceptance. `TakerOK` carries it there: while an order is being matched, the
level at its price's slot is still absent or its own, because matching only
removes levels. `NotCrossed` needs the head of a list to be its best price
(`ChainsSorted`), and the ledger needs the taker's id to be free until it rests.
The lemmas about `InsertionPoint`, `InsertAt`, `RemoveAt` and `Restrict` say what
each does to a sorted list. That only the pool of orders runs out needs the blocks
of levels in use to be as many as the slots taken (`PoolInv`), after every removal
by `match` and `Cancel`; a price without a level then leaves a slot, and so a
block, free. Each action has a step of its own under which the
conjuncts it may disturb are shown. Eleven theorems follow, the invariants and
`BookImplementsLimitOrderBook`: initial states map to initial states and each step
of the book is a step of `LimitOrderBook` or leaves it alone.

**The queue.** `IInv` says that each cached index is behind the index it copies and
not behind the thread's own, measured around the ring from `next_read_index`
(`Dist`), and that the slots between the indices hold whole values. From it:
`TypeCorrect`, `SlotIsNeverShared`, `NeverUnderflows` and `QueueIsFifo`, the
refinement of `BoundedFifo` with the slots between the indices as the queue.

**The feed.** `InSync` compares the client's book with the engine's as of an earlier
number, so `IInv` must say what every copy of that book on its way means. An
incremental datagram and a buffered update are the update that the engine's
history has under that number (`IsUpdate`). For the snapshots there is a history of
all messages sent, whether anybody listened or not (`History`): each says what the
image of its number says, and of two consecutive ones within a cycle the second
goes on where the first left off. A snapshot datagram is an entry of it, and the book that
the consumer is putting together is the image up to the entry it saw last
(`AssemblyInv`). A loss, a doubling or a delay then removes, repeats or reorders
datagrams without changing what they mean. The theorems are `ClientBookInSync`,
`SynthesizerInSync` and `BufferedUpdatesAhead`.

**The sessions.** `IInv` of `OrderSession_proofs` says where a connection can be
(`ConnectionInv`), that it has an owner whose requests alone come over it
(`OwnerInv`), that the number expected of a registered client is one more than the
requests accepted from its connection and that a connection without a session has
had none accepted (`SessionInv`), and that what is pending was read in this round,
a connection's requests in one read and so with one time stamp (`PendingInv`):
that is why the sort leaves them in their order. For the responses, what is in the
kernel and in the send buffer continues what the gateway expects (`ResponseInv`).
The sort is any permutation that the comparison allows, so nothing is assumed of
`std::sort` but what it promises.

**The order of arrival.** `ServedByArrival` needs `AInv` of `OrderSession_proofs` on
top of the `IInv` of the sessions. No two connections have messages of one time
(`StampInv`); a round reads everything that came before it began (`RoundInv`,
`ReadInv`), so a request that is left for a later round came after this one's start;
numbers and times ascend together along a connection, in the kernel and in the
receive buffer (`WireInv`).
Within a round the sort goes by the time of the whole read, which is the time of
its last message. That this is the time of a request which is served in the same
round is `BatchInv`: once one message of a read is accepted, all that follow it
are. It is needed with the kernel's time stamps only; the rest holds without.

**The client's orders.** `IInv` of `OrderFlow_proofs` says for each side that one order
at most is on its way to the book or in it, that it is the slot's, that a slot
which may take a new order has none and expects no fill of an earlier one, and
that what the slot waits for is on its way (`SideInv`); and that the position,
with all that is reported, resting or on its way filled, keeps the limit
(`ExposureInv`). While requests of an earlier process wait none of the present one
is in the book, because the engine takes them in order (`BookInv`). All hold until
a response to an earlier process is handled. From these `OneOrderASide`, `PositionKeepsLimit` and `QuietSlots`.

**The teardown.** `MainInv` of `ExchangeMain_proofs` lists the places main can be in,
with what is constructed, running and freed at each. `QueueInv` describes the
queue of requests around its ring, the pill and the second producer included;
`ServedInv` and `CountInv` relate what is in it to what was handed over, answered
and published. `SleepInv` says why a sleep can be enough at all: the steps which the
thread has still to make before its loop ends are at most the rounds that it was
given and has not used, step by step, whatever the other threads send it
meanwhile. It needs a bound on what a request can send: three responses and three
updates, and two more of each for every order that rests before and not after,
so that the sum over all requests is bounded although a single sweep is not.
Where main wakes early and the thread is still there, the behaviour has ended with
`in_time` false (`Ended`). Theorems: `AllRequestsServed`, which no sleep enters
except that the model ends at `Outlived`, `ThreadsEndWithTheirWork` and
`AllUpdatesPublished`, which hold if every sleep had the rounds. That a second has
them is a matter of speed and is neither assumed nor shown.

**The client's book.** The pointers are sound when there are lists that they write
down, so `IInv` of `MarketOrderBook_proofs` says that there are: `C`, the levels of
a side in the order of their prices, and `Q`, the orders of a level in the order of
their arrival, such that `next` and `prev` of the blocks run around them both ways
(`IsRing`). `Structure` relates these lists to the tables: a level is in its slot
and in the list of its side and nowhere else (`ChainInv`, `SlotInv`), an order in
the queue of its level, behind those of smaller ids, and under its id (`QueueInv`,
`IndexInv`), and the blocks that the pools count as used are exactly the ones in
lists. `FeedInv` matches them with the feed: an order is in the book exactly if the
feed has told of it and it is `shown`. `BboInv` says that the cached BBO is what
`updateBBO` would compute now. For every operation there is a lemma that says which
list it makes of the old one (`LinkedIn`, `LinkedOut`, `LevelIn`, `LevelOut`,
`OrderOut`) and that the pointers still write it down. That `allocate` finds a free
block, so that no assertion fails, follows by counting: a live order has an id of
its own below the size of the pool, a level a slot of its own. The walk along a
ring and the running sums of quantities are recursive functions; what they return is proved
position by position. `HeapStaysSound`, `BookShowsTheFeed`, `BboStaysBest`.

**The positions and quotes.** The profit is computed from averages, the property is
about cash. `Balanced` of `TradeEngine_proofs` relates them: over one common
denominator the realized profit is the cash plus what the open sum was paid for
(`Account`), one open sum is zero, and the other lies between the lowest and the
highest of the prices there are for every piece held (`Open`). A fill that opens, reduces, closes or
flips a position keeps this (`FillOpens`, `FillCloses`); the algebra of the three
ways of closing is in `ReduceSum`, `FlipSum` and `ValueSum`. That equal quotients
are equal fractions is `FractionUnique`, because `Fraction` has the least
denominator there is. `IInv` adds that `total_pnl` is the value at the last mark and
that the mark of a position with a two-sided book is the mid of this book
(`InfoInv`, `MarkInv`); that mark is what `handleResponse` and `handleBookUpdate`
have in common. For the quotes, the signal that a strategy is given is the one
which the same step computed from the same book, unless that book has nothing to
compute it from, and then the strategy does not act or acts on a level of quantity
zero (`MakerFollows`, `TakerFollows`). `ProfitIsMarkedToMarket`,
`OpenSumsAreThePosition`, `ProfitIsOfTheBook`, `QuotesAreOfTheBook`.

Where a model function is recursive (`Without`, `Total`, the walks and sums of the
client's book), its properties are proved by the least number at which one would
fail, because the library's induction theorems are not usable with these provers.

**Only model-checked.** What eventually happens (`AddTerminates`,
`ElementsAreRead`, `RecoveryEnds`, `SessionsEnd`, `FreshSessionServed`,
`ShutdownCompletes`, `LiveOrderHeardOf`), because the prover does not do fairness.
Every other property of a passing run is a theorem.

## 6. Findings

1. **The snapshot callback runs past its data** (`feed_overrun`).
   `MarketDataConsumer::recvSnapshot` loops while
   `next_rcv_valid_index_ - offset` is a frame or more. The frame may be the
   SNAPSHOT_END that completes the recovery; `finishRecovery`, called from inside
   the loop, destroys the socket, and `destroy()` sets `next_rcv_valid_index_` to
   0 under an `offset` of one frame. The difference is unsigned, wraps, and the
   loop goes on beyond the buffer. Every recovery that completes over the network
   meets this; the unit tests do not, because they use the hook.
2. **A client that reconnects quickly is not served** (`session_reconnect`). The
   comment in `order_server.cpp` promises that a client "can reconnect with a
   fresh session". The old registration is dropped by the `poll()` after the round
   in which the end of the old connection is noticed. Requests that arrive on the
   new connection before that are dropped for coming from the wrong socket; after
   it the server expects number 1, the gateway goes on with the next number, and
   every further request is dropped as a sequence gap. The gateway is not told and
   does not reconnect. Once the old session is gone a new one works
   (`FreshSessionServed`).

Two more observations, which no run is about:

- A NEW that the book refuses is answered with INVALID, which
  `OrderManager::onOrderUpdate` ignores; the slot stays PENDING_NEW and
  `moveOrder` waits for ever. No slot waits for ever on an order that is in the
  book (`LiveOrderHeardOf`): ignoring CANCEL_REJECTED is right, because the fill
  that caused it has come before.
- "At most one order per side per instrument" (`order_manager.h`) is about one
  process. A client that restarts with orders in the book is told of their fills
  and matches them to its new orders by ticker and side alone, and so with answers
  to requests of the earlier process that the engine takes after the new session
  is registered. `OneOrderPerSide`, `PositionWithinLimit` and `QuietSlotsAgree` hold
  until it handles the first such response (`~mixed`); without this condition TLC
  violates all three. They say that nothing else breaks the slots, not that such a
  response does no harm. A new order
  whose id is that of an orphan is refused, and its side is blocked as above.

## 7. Not modelled

The teardown of the client (`trading_main.cpp`): main reads the sizes of two
queues whose producers still run, so that its end is a matter of timing, and it
installs callbacks in a running engine, a data race whose outcome no model of the
code's own steps can say. In what is modelled: the packing of updates into
datagrams and the merging of datagrams after EWOULDBLOCK, the overflow of the
queues inside the feed, `size()` from a third thread, more than one consumer;
messages cut in two by TCP, the fatal overflow of a socket's send buffer,
connections that die without a sign, and request types other than NEW and CANCEL,
which gateways do not send and the server drops before it looks at the session; the
rounding of doubles; in `ExchangeMain`, how long a step takes, so that nothing is
said of real seconds, and what happens after a thread has outlived its component.

Left out for good: logging, latency measurement, time formatting and socket
options (no control of their own; the logger's queue is `LFQueue`), the driver of
random orders, the alternative implementations kept for benchmarks, the
benchmarks, bindings, dashboard, notebooks and scripts.
