---------------------------- MODULE ExchangeMain ----------------------------
(***************************************************************************)
(* Start and end of the exchange process (Exchange/exchange_main.cpp, and  *)
(* start(), stop(), run() and destructor of its components): main, and the *)
(* threads of the engine, the order server, the publisher and the          *)
(* synthesizer.                                                            *)
(*                                                                         *)
(* The threads are detached.  A destructor asks the thread to stop, sleeps *)
(* for a second and frees what the thread was using: nothing but the       *)
(* second makes sure that it is gone.  Nothing is assumed of how much the  *)
(* threads do in a second: main may wake at any time.  A round is over     *)
(* when every thread has moved, and in_time records whether each second so *)
(* far had as many rounds as the thread had steps to make (Work).  A       *)
(* thread that outlives its component uses freed memory; what the program  *)
(* does then is undefined, and the model ends there.                       *)
(*                                                                         *)
(* A name of the form Operator_Fault is a faulty variant of the operator   *)
(* that follows it; no specification uses one.                             *)
(***************************************************************************)
EXTENDS MatchingEngine, SequencesExt

CONSTANT SnapshotWalk   \* steps of publishSnapshot: its messages and the entries it looks at

ASSUME WalkAssumption == SnapshotWalk \in Nat \ {0}

VARIABLES
    g_shutdown,
    main_pc, starting, teardown,    \* where main is, and what it has still to start or to delete
    objects,                        \* the components that exist
    run,                            \* run_ of the components that poll it
    sleep, stepped,                 \* rounds the work in hand may still take; who moved in this one
    in_time,                        \* no second so far was over before that work could be
    server_pc, pending, published,  \* OrderServer: its thread, the requests it was sent, and wrote
    publisher_pc,
    snapshot_md_updates,            \* updates that wait for the synthesizer
    synthesizer_pc, snapshot_timed, walk    \* last_snapshot_time_ > 0; the rest of publishSnapshot

main == <<g_shutdown, main_pc, starting, teardown, objects, run>>
server == <<server_pc, pending, published>>
second == <<sleep, stepped, in_time>>
synthesizer == <<synthesizer_pc, snapshot_timed, walk>>
vars == <<queue, client_responses, market_updates, engine, fatal, main, second, server,
          publisher_pc, snapshot_md_updates, synthesizer>>

\* Deleted in this order; the publisher's destructor deletes the
\* synthesizer before its own members go.
Started == <<"matching_engine", "order_server", "publisher">>
Teardown_EngineFirst == <<"matching_engine", "order_server", "publisher", "synthesizer">>
Teardown_PublisherFirst == <<"publisher", "synthesizer", "order_server", "matching_engine">>
Teardown == <<"order_server", "matching_engine", "publisher", "synthesizer">>

Freed(component) ==
    CASE component = "publisher" -> {}
      [] component = "synthesizer" -> {"synthesizer", "publisher"}
      [] OTHER -> {component}

Components == {"matching_engine", "order_server", "publisher", "synthesizer"}

Thread(component) ==
    CASE component = "matching_engine" -> engine_pc
      [] component = "order_server" -> server_pc
      [] component = "publisher" -> publisher_pc
      [] component = "synthesizer" -> synthesizer_pc
Running == { c \in Components : Thread(c) \notin {"none", "exited"} }

Init ==
    /\ EngineInit
    /\ g_shutdown = FALSE
    /\ main_pc = "start" /\ starting = Started /\ teardown = Teardown
    /\ objects = {} /\ run = {}
    /\ sleep = 0 /\ stepped = {} /\ in_time = TRUE
    /\ server_pc = "none" /\ pending = <<>> /\ published = <<>>
    /\ publisher_pc = "none" /\ snapshot_md_updates = 0
    /\ synthesizer_pc = "none" /\ snapshot_timed = FALSE /\ walk = 0

----------------------------------------------------------------------------
(* The steps that a thread told to stop has still to make, at most.  A     *)
(* request brings three responses and three updates, and two more of each  *)
(* for every order that rests when it comes and not when it is done.       *)

Unserved == Len(published) - Len(served)
Respond(unserved) == client_responses + 3 * unserved + 2 * resting + 2
ServerSteps ==
    CASE server_pc = "poll" ->
            2 * (MaxRequests - Len(published)) + 1 + Respond(MaxRequests - Len(served))
      [] server_pc = "write" -> 2 * Len(pending) + Respond(Unserved + Len(pending))
      [] server_pc = "publish" -> 2 * Len(pending) - 1 + Respond(Unserved + Len(pending))
      [] server_pc = "respond" -> Respond(Unserved)
      [] OTHER -> 1
EngineSteps == 2 * Unserved + (IF engine_pc = "process" THEN 0 ELSE 1)
PublisherSteps == IF publisher_pc = "drain" THEN market_updates + 2 ELSE 1
SynthesizerSteps ==
    CASE synthesizer_pc = "turn" -> SnapshotWalk + 2
      [] synthesizer_pc = "snapshot" -> walk + 1
      [] OTHER -> 1

\* The engine is given the time in which the publisher sends what is left.
Work(component) ==
    CASE component = "order_server" -> ServerSteps
      [] component = "matching_engine" ->
            EngineSteps + market_updates + 3 * Unserved + 2 * resting + 1
      [] component = "publisher" -> PublisherSteps
      [] component = "synthesizer" -> SynthesizerSteps

----------------------------------------------------------------------------
(* main.                                                                   *)

signal_handler ==
    /\ ~g_shutdown /\ g_shutdown' = TRUE
    /\ UNCHANGED <<queue, client_responses, market_updates, engine, fatal, main_pc, starting,
                   teardown, objects, run, second, server, publisher_pc, snapshot_md_updates,
                   synthesizer>>

\* Construction and start() of the next component.
Start ==
    /\ main_pc = "start"
    /\ LET component == Head(starting)
           new == IF component = "publisher" THEN {"publisher", "synthesizer"} ELSE {component}
       IN  /\ objects' = objects \cup new /\ run' = run \cup new
           /\ engine_pc' = IF "matching_engine" \in new THEN "poll" ELSE engine_pc
           /\ server_pc' = IF "order_server" \in new THEN "check" ELSE server_pc
           /\ publisher_pc' = IF "publisher" \in new THEN "check" ELSE publisher_pc
           /\ synthesizer_pc' = IF "synthesizer" \in new THEN "check" ELSE synthesizer_pc
    /\ starting' = Tail(starting)
    /\ main_pc' = IF Len(starting) = 1 THEN "idle" ELSE "start"
    /\ UNCHANGED <<queue, client_responses, market_updates, ticker_order_books, resting, served,
                   fatal, g_shutdown, teardown, second, pending, published, snapshot_md_updates,
                   snapshot_timed, walk>>

\* The flag is a plain bool whose load is moved out of the loop.
Idle_FlagHoisted ==
    /\ main_pc = "idle" /\ FALSE
    /\ UNCHANGED vars
\* The loop of main sees the flag.
Idle ==
    /\ main_pc = "idle" /\ g_shutdown
    /\ main_pc' = "delete"
    /\ UNCHANGED <<queue, client_responses, market_updates, engine, fatal, g_shutdown, starting,
                   teardown, objects, run, second, server, publisher_pc, snapshot_md_updates,
                   synthesizer>>

\* The engine is sent no pill.
Stop_FlagOnly ==
    /\ main_pc = "delete"
    /\ LET component == Head(teardown)
       IN  /\ run' = run \ (IF component = "publisher" THEN {"publisher", "synthesizer"}
                            ELSE {component})
           /\ main_pc' = "sleep" /\ sleep' = Work(component) /\ UNCHANGED slots
    /\ UNCHANGED <<next_write, next_read, client_responses, market_updates, engine, fatal,
                   g_shutdown, starting, teardown, objects, stepped, in_time, server, publisher_pc,
                   snapshot_md_updates, synthesizer>>
\* stop() of the component at the head of teardown.  The engine's thread does
\* not look at its flag: the pill has to follow.
Stop ==
    /\ main_pc = "delete"
    /\ LET component == Head(teardown)
       IN  /\ run' = run \ (IF component = "publisher" THEN {"publisher", "synthesizer"}
                            ELSE {component})
           /\ IF component = "matching_engine"
              THEN main_pc' = "pill" /\ WriteSlot(Shutdown) /\ UNCHANGED sleep
              ELSE main_pc' = "sleep" /\ sleep' = Work(component) /\ UNCHANGED slots
    /\ UNCHANGED <<next_write, next_read, client_responses, market_updates, engine, fatal,
                   g_shutdown, starting, teardown, objects, stepped, in_time, server, publisher_pc,
                   snapshot_md_updates, synthesizer>>

Pill ==
    /\ main_pc = "pill"
    /\ updateWriteIndex
    /\ main_pc' = "sleep" /\ sleep' = Work("matching_engine")
    /\ UNCHANGED <<slots, next_read, client_responses, market_updates, engine, g_shutdown, starting,
                   teardown, objects, run, stepped, in_time, server, publisher_pc,
                   snapshot_md_updates, synthesizer>>

\* sleep_for(1s): a round of it is over.
Sleep ==
    /\ main_pc = "sleep" /\ sleep > 0
    /\ Running \subseteq stepped
    /\ sleep' = sleep - 1 /\ stepped' = {}
    /\ UNCHANGED <<queue, client_responses, market_updates, engine, fatal, main, in_time, server,
                   publisher_pc, snapshot_md_updates, synthesizer>>

\* The second is over, whatever the threads have done in it: the rest of the
\* destructor.
Free ==
    /\ main_pc = "sleep"
    /\ sleep' = 0 /\ stepped' = {} /\ in_time' = (in_time /\ sleep = 0)
    /\ objects' = objects \ Freed(Head(teardown))
    /\ teardown' = Tail(teardown)
    /\ main_pc' = IF Len(teardown) = 1 THEN "exited" ELSE "delete"
    /\ IF Head(teardown) = "matching_engine"
       THEN ticker_order_books' = {} /\ resting' = 0
       ELSE UNCHANGED <<ticker_order_books, resting>>
    /\ UNCHANGED <<queue, client_responses, market_updates, engine_pc, served, fatal, g_shutdown,
                   starting, run, server, publisher_pc, snapshot_md_updates, synthesizer>>

----------------------------------------------------------------------------
(* The threads.                                                            *)

Moves(component) == stepped' = IF sleep > 0 THEN stepped \cup {component} ELSE stepped

Engine ==
    /\ \/ EngineRead /\ UNCHANGED <<client_responses, market_updates, ticker_order_books, resting,
                                     served, fatal>>
       \/ EngineProcess
       \/ EngineSpin /\ UNCHANGED <<next_read, client_responses, market_updates, engine, fatal>>
    /\ Moves("matching_engine")
    /\ UNCHANGED <<slots, next_write, main, sleep, in_time, server, publisher_pc,
                   snapshot_md_updates, synthesizer>>

\* while (run_) of OrderServer::run.
ServerLoop ==
    /\ server_pc = "check"
    /\ server_pc' = IF "order_server" \in run THEN "poll" ELSE "exited"
    /\ UNCHANGED <<slots, next_write, client_responses, fatal, pending, published>>

\* TCPServer::poll and sendAndRecv: any number of requests is read.
ServerPoll ==
    /\ server_pc = "poll"
    /\ \E n \in 0 .. MaxRequests - Len(published) : \E batch \in [1 .. n -> Requests] :
          /\ \A i \in 1 .. n : batch[i].order_id = Len(published) + i
          /\ pending' = batch
          /\ server_pc' = IF n = 0 THEN "respond" ELSE "write"
    /\ UNCHANGED <<slots, next_write, client_responses, fatal, published>>

\* FIFOSequencer::sequenceAndPublish, for one request: the slot, the index.
ServerWrite ==
    /\ server_pc = "write"
    /\ WriteSlot(Head(pending))
    /\ server_pc' = "publish"
    /\ UNCHANGED <<next_write, client_responses, fatal, pending, published>>
ServerPublish ==
    /\ server_pc = "publish"
    /\ updateWriteIndex
    /\ published' = Append(published, Head(pending))
    /\ pending' = Tail(pending)
    /\ server_pc' = IF Len(pending) = 1 THEN "respond" ELSE "write"
    /\ UNCHANGED <<slots, client_responses>>

\* The loop over the responses: one of them, or the end of it.
ServerRespond ==
    /\ server_pc = "respond"
    /\ IF client_responses > 0
       THEN client_responses' = client_responses - 1 /\ UNCHANGED server_pc
       ELSE server_pc' = "check" /\ UNCHANGED client_responses
    /\ UNCHANGED <<slots, next_write, fatal, pending, published>>

OrderServer ==
    /\ ServerLoop \/ ServerPoll \/ ServerWrite \/ ServerPublish \/ ServerRespond
    /\ Moves("order_server")
    /\ UNCHANGED <<next_read, market_updates, engine, main, sleep, in_time, publisher_pc,
                   snapshot_md_updates, synthesizer>>

\* MarketDataPublisher::run: while (run_), and poll()'s loop over the updates,
\* each of which goes on to the synthesizer.  A full queue is FATAL.
Publisher ==
    /\ \/ /\ publisher_pc = "check"
          /\ publisher_pc' = IF "publisher" \in run THEN "drain" ELSE "exited"
          /\ UNCHANGED <<market_updates, snapshot_md_updates, fatal>>
       \/ /\ publisher_pc = "drain" /\ market_updates > 0
          /\ market_updates' = market_updates - 1
          /\ snapshot_md_updates' = snapshot_md_updates + 1
          /\ fatal' = (snapshot_md_updates' >= Capacity)
          /\ UNCHANGED publisher_pc
       \/ /\ publisher_pc = "drain" /\ market_updates = 0
          /\ publisher_pc' = "check"
          /\ UNCHANGED <<market_updates, snapshot_md_updates, fatal>>
    /\ Moves("publisher")
    /\ UNCHANGED <<queue, client_responses, engine, main, sleep, in_time, server, synthesizer>>

\* SnapshotSynthesizer::run: while (run_); then one update, if there is one,
\* and publishSnapshot when it is time, never before the first update.
SynthesizerLoop ==
    /\ synthesizer_pc = "check"
    /\ synthesizer_pc' = IF "synthesizer" \in run THEN "turn" ELSE "exited"
    /\ UNCHANGED <<snapshot_md_updates, snapshot_timed, walk>>
SynthesizerTurn ==
    /\ synthesizer_pc = "turn"
    /\ snapshot_md_updates' = IF snapshot_md_updates > 0 THEN snapshot_md_updates - 1 ELSE 0
    /\ snapshot_timed' = (snapshot_timed \/ snapshot_md_updates > 0)
    /\ \/ synthesizer_pc' = "check" /\ UNCHANGED walk
       \/ snapshot_timed /\ synthesizer_pc' = "snapshot" /\ walk' = SnapshotWalk

\* publishSnapshot, which does not look at run_.
publishSnapshot ==
    /\ synthesizer_pc = "snapshot"
    /\ walk' = walk - 1
    /\ synthesizer_pc' = IF walk = 1 THEN "check" ELSE "snapshot"
    /\ UNCHANGED <<snapshot_md_updates, snapshot_timed>>

Synthesizer ==
    /\ SynthesizerLoop \/ SynthesizerTurn \/ publishSnapshot
    /\ Moves("synthesizer")
    /\ UNCHANGED <<queue, client_responses, market_updates, engine, fatal, main, sleep, in_time,
                   server, publisher_pc>>

----------------------------------------------------------------------------

Main == Start \/ Idle \/ Stop \/ Pill \/ Sleep \/ Free

\* A thread whose component has been freed.
Outlived == ~(Running \subseteq objects)

Alive == ~fatal /\ main_pc # "exited" /\ ~Outlived

Next ==
    /\ Alive
    /\ signal_handler \/ Main \/ Engine \/ OrderServer \/ Publisher \/ Synthesizer

Spec == Init /\ [][Next]_vars

\* The scheduler starves none of the threads; nobody has to press Ctrl+C.
FairSpec ==
    /\ Spec
    /\ WF_vars(Alive /\ Main) /\ WF_vars(Alive /\ Engine) /\ WF_vars(Alive /\ OrderServer)
    /\ WF_vars(Alive /\ Publisher) /\ WF_vars(Alive /\ Synthesizer)

----------------------------------------------------------------------------
(* Properties.                                                             *)

(* "The OrderServer thread must therefore be quiesced first, or the queue  *)
(* briefly has two concurrent producers": what the order server wrote is   *)
(* processed once and in its order, the pill overwrites none of it, and    *)
(* the engine does not leave before it has processed all of it.            *)
RequestsServedInOrder ==
    /\ IsPrefix(served, published)
    /\ engine_pc = "exited" => served = published

(* "allow detached thread to exit": a destructor frees a component whose   *)
(* thread has not ended only if its second was shorter than the work that  *)
(* the thread had in hand when it was told to stop, counted in steps: the  *)
(* requests before the pill and what they send, a last pass over what      *)
(* waits, a snapshot under way.  No thread waits for anything else, and    *)
(* none goes on for as long as it is given more to do.                     *)
NothingFreedInUse == in_time => ~Outlived

(* "After the pill: the matching engine thread exits, then the publisher   *)
(* [...] is free to go": when main returns, every update that the engine   *)
(* sent has been published, if every second was long enough in that sense. *)
UpdatesAllPublished == main_pc = "exited" /\ in_time => market_updates = 0

(* Ctrl+C ends the process, with every thread stopped first, unless a full *)
(* queue ends it before (nobody reads the responses once the order server  *)
(* is gone) or a thread outlives its component.                            *)
ShutdownCompletes ==
    g_shutdown ~> (fatal \/ Outlived \/ (main_pc = "exited" /\ Running = {}))

=============================================================================
