--------------------------- MODULE MatchingEngine ---------------------------
(***************************************************************************)
(* The matching engine's thread (Exchange/matcher/matching_engine.{h,cpp}) *)
(* between the queue of requests and those of responses and updates.       *)
(*                                                                         *)
(* client_requests is kept as its slots and its two indices, because two   *)
(* threads write to it: the order server and, at shutdown, main.  Of the   *)
(* other two queues only the number of unread elements is kept.  What a    *)
(* book does with a request is module MEOrderBook's; here it is the number *)
(* of responses and updates that it sends, and of orders that then rest.   *)
(*                                                                         *)
(* A name of the form Operator_Fault is a faulty variant of the operator   *)
(* that follows it; no specification uses one.                             *)
(***************************************************************************)
EXTENDS Integers, Sequences, FiniteSets

CONSTANTS
    TickerIds,      \* the ticker ids that come off the wire
    MaxTickers,     \* ME_MAX_TICKERS: the ids below it have a book
    Capacity,       \* slots of each queue, one of which stays empty
    MaxRequests     \* bound on the requests of the clients

ASSUME EngineAssumption ==
    /\ TickerIds \subseteq Nat /\ MaxTickers \in Nat
    /\ Capacity \in Nat \ {0, 1} /\ MaxRequests \in Nat

VARIABLES
    slots, next_write, next_read,   \* client_requests
    client_responses,               \* responses that wait
    market_updates,                 \* updates that wait
    ticker_order_books,             \* the tickers that have a book
    resting,                        \* the orders in the books
    engine_pc,                      \* where the engine's thread is
    served,                         \* the requests it has processed, in order
    fatal                           \* a full queue has ended the process

queue == <<slots, next_write, next_read>>
engine == <<ticker_order_books, resting, engine_pc, served>>

Shutdown == [type |-> "SHUTDOWN", ticker_id |-> 0, order_id |-> 0]
Blank == [Shutdown EXCEPT !.type = "INVALID"]
Requests == [type : {"NEW", "CANCEL"}, ticker_id : TickerIds, order_id : 1 .. MaxRequests]

EngineInit ==
    /\ slots = [i \in 0 .. Capacity - 1 |-> Blank]
    /\ next_write = 0 /\ next_read = 0
    /\ client_responses = 0 /\ market_updates = 0
    /\ ticker_order_books = {} /\ resting = 0 /\ served = <<>>
    /\ engine_pc = "none"
    /\ fatal = FALSE

----------------------------------------------------------------------------
(* client_requests, as both of its producers use it.                       *)

\* getNextToWriteTo() and the construction of the request in the slot.
WriteSlot(request) == slots' = [slots EXCEPT ![next_write] = request]

\* updateWriteIndex(): a queue that is full is FATAL.
updateWriteIndex ==
    LET next == (next_write + 1) % Capacity
    IN  IF next = next_read THEN fatal' = TRUE /\ UNCHANGED next_write
        ELSE next_write' = next /\ UNCHANGED fatal

----------------------------------------------------------------------------
(* The thread.                                                             *)

\* What a book may do with a request: the responses and the updates that it
\* sends, and the orders that rest in the books then.  A NEW is rejected or
\* has no quantity; or it fills the n orders it meets and rests; or it is
\* filled by n orders, the last of which may keep a part.  Each execution
\* sends two responses and two updates.  A CANCEL finds its order or not.
Outcome(responses, updates, orders) == [sent |-> <<responses, updates>>, resting |-> orders]
BookDoes(type) ==
    IF type = "NEW"
    THEN { Outcome(1, 0, resting) }
         \cup { Outcome(1 + 2 * n, 2 * n + 1, resting - n + 1) : n \in 0 .. resting }
         \cup { Outcome(1 + 2 * n, 2 * n, resting - n + kept) :
                 n \in 1 .. resting, kept \in {0, 1} }
    ELSE { Outcome(1, 0, resting) } \cup { Outcome(1, 1, resting - 1) : n \in 1 .. resting }

\* The outcomes of processClientRequest(), with the books that exist then.
\* A ticker without a book is rejected, and so is a type that is neither NEW
\* nor CANCEL, the latter after its book was made.
processClientRequest(request) ==
    IF request.ticker_id >= MaxTickers
    THEN { [does |-> Outcome(1, 0, resting), books |-> ticker_order_books] }
    ELSE LET books == ticker_order_books \cup {request.ticker_id}
         IN  IF request.type \notin {"NEW", "CANCEL"}
             THEN { [does |-> Outcome(1, 0, resting), books |-> books] }
             ELSE { [does |-> does, books |-> books] : does \in BookDoes(request.type) }

\* run(), one turn: the pill ends the thread, anything else is processed
\* before its slot is given back.
EngineRead ==
    /\ engine_pc = "poll" /\ next_read # next_write
    /\ IF slots[next_read] = Shutdown
       THEN engine_pc' = "exited" /\ next_read' = (next_read + 1) % Capacity
       ELSE engine_pc' = "process" /\ UNCHANGED next_read

EngineProcess ==
    /\ engine_pc = "process"
    /\ \E done \in processClientRequest(slots[next_read]) :
          /\ ticker_order_books' = done.books /\ resting' = done.does.resting
          /\ client_responses' = client_responses + done.does.sent[1]
          /\ market_updates' = market_updates + done.does.sent[2]
    /\ fatal' = (client_responses' >= Capacity \/ market_updates' >= Capacity)
    /\ served' = Append(served, slots[next_read])
    /\ next_read' = (next_read + 1) % Capacity
    /\ engine_pc' = "poll"

\* Nothing to read.
EngineSpin == engine_pc = "poll" /\ next_read = next_write

=============================================================================
