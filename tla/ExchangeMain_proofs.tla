------------------------ MODULE ExchangeMain_proofs ------------------------
(***************************************************************************)
(* The teardown of the exchange is orderly for every capacity of the       *)
(* queues, every number of requests and every length of a snapshot: no     *)
(* request is lost whatever the sleeps of the destructors, and a component *)
(* is freed in use only if its destructor slept for fewer rounds than the  *)
(* thread had steps to make when it was told to stop.                      *)
(***************************************************************************)
EXTENDS ExchangeMain, SequenceTheorems, TLAPS

----------------------------------------------------------------------------
(* The inductive invariant.                                                *)

Index == 0 .. Capacity - 1

TypeOK ==
    /\ slots \in [Index -> Requests \cup {Shutdown, Blank}]
    /\ next_write \in Index /\ next_read \in Index
    /\ client_responses \in Nat /\ market_updates \in Nat
    /\ served \in Seq(Requests) /\ published \in Seq(Requests) /\ pending \in Seq(Requests)
    /\ fatal \in BOOLEAN /\ in_time \in BOOLEAN
    /\ sleep \in Nat /\ stepped \subseteq Components
    /\ resting \in Nat /\ snapshot_md_updates \in Nat /\ walk \in Nat

\* What is left of the teardown once the order server, the engine and the
\* publisher are deleted.
AfterServer == <<"matching_engine", "publisher", "synthesizer">>
AfterEngine == <<"publisher", "synthesizer">>
AfterPublisher == <<"synthesizer">>

\* main is in one of these places.
At(pc, to_start, to_delete, existing, running) ==
    /\ main_pc = pc /\ starting = to_start /\ teardown = to_delete
    /\ objects = existing /\ run = running

MainInv ==
    \/ At("start", Started, Teardown, {}, {})
    \/ At("start", <<"order_server", "publisher">>, Teardown,
          {"matching_engine"}, {"matching_engine"})
    \/ At("start", <<"publisher">>, Teardown,
          {"matching_engine", "order_server"}, {"matching_engine", "order_server"})
    \/ At("idle", <<>>, Teardown, Components, Components)
    \/ At("delete", <<>>, Teardown, Components, Components)
    \/ At("sleep", <<>>, Teardown, Components, Components \ {"order_server"})
    \/ At("delete", <<>>, AfterServer,
          Components \ {"order_server"}, Components \ {"order_server"})
    \/ At("pill", <<>>, AfterServer, Components \ {"order_server"}, {"publisher", "synthesizer"})
    \/ At("sleep", <<>>, AfterServer, Components \ {"order_server"}, {"publisher", "synthesizer"})
    \/ At("delete", <<>>, AfterEngine,
          {"publisher", "synthesizer"}, {"publisher", "synthesizer"})
    \/ At("sleep", <<>>, AfterEngine, {"publisher", "synthesizer"}, {})
    \/ At("delete", <<>>, AfterPublisher, {"publisher", "synthesizer"}, {})
    \/ At("sleep", <<>>, AfterPublisher, {"publisher", "synthesizer"}, {})
    \/ At("exited", <<>>, <<>>, {}, {})

ServerDeleted == teardown # Teardown
EngineDeleted == ServerDeleted /\ teardown # AfterServer
PublisherDeleted == EngineDeleted /\ teardown # AfterEngine

\* main has handed the pill over.
PillIn == EngineDeleted \/ (teardown = AfterServer /\ main_pc = "sleep")

\* The threads exist once they are started, and those of the order server and
\* the engine are gone when these are deleted.  The publisher's destructor
\* frees nothing before the synthesizer's is through.
ThreadInv ==
    /\ engine_pc \in IF main_pc = "start" /\ starting = Started THEN {"none"}
                     ELSE IF EngineDeleted THEN {"exited"}
                     ELSE IF PillIn THEN {"poll", "process", "exited"}
                     ELSE {"poll", "process"}
    /\ server_pc \in IF main_pc = "start" /\ starting # <<"publisher">> THEN {"none"}
                     ELSE IF ServerDeleted THEN {"exited"}
                     ELSE IF main_pc = "sleep"
                          THEN {"check", "poll", "write", "publish", "respond", "exited"}
                     ELSE {"check", "poll", "write", "publish", "respond"}
    /\ publisher_pc \in IF main_pc = "start" THEN {"none"}
                        ELSE IF main_pc = "exited" \/ (PublisherDeleted /\ in_time) THEN {"exited"}
                        ELSE IF run = {} THEN {"check", "drain", "exited"}
                        ELSE {"check", "drain"}
    /\ synthesizer_pc \in IF main_pc = "start" THEN {"none"}
                          ELSE IF main_pc = "exited" THEN {"exited"}
                          ELSE IF run = {} THEN {"check", "turn", "snapshot", "exited"}
                          ELSE {"check", "turn", "snapshot"}
    /\ synthesizer_pc = "snapshot" => walk > 0

CountInv ==
    /\ Len(published) + Len(pending) <= MaxRequests
    /\ server_pc \in {"write", "publish"} => pending # <<>>
    /\ EngineDeleted /\ in_time => market_updates = 0

ServedInv ==
    /\ Len(served) <= Len(published)
    /\ \A i \in 1 .. Len(served) : served[i] = published[i]
    /\ engine_pc = "exited" => Len(served) = Len(published)
    /\ engine_pc = "process" => Len(served) < Len(published)

\* client_requests.  The slots from next_read on hold what was published and
\* not served yet, and then the pill.
Around(i, j) == IF i + j < Capacity THEN i + j ELSE i + j - Capacity
Ahead(j) == Around(next_read, j)
Written == IF PillIn THEN Len(published) + 1 ELSE Len(published)
Read == IF engine_pc = "exited" THEN Len(served) + 1 ELSE Len(served)
Item(i) == IF i < Len(published) THEN published[i + 1] ELSE Shutdown

QueueInv ==
    ~fatal =>
        /\ Written - Read \in 0 .. Capacity - 1
        /\ next_write = Ahead(Written - Read)
        /\ \A j \in 0 .. Written - Read - 1 : slots[Ahead(j)] = Item(Read + j)
        /\ server_pc = "publish" => slots[next_write] = Head(pending)
        /\ main_pc = "pill" => slots[next_write] = Shutdown

\* What the publisher needs to send all updates, once there come no more.
Publishing ==
    IF publisher_pc = "check" /\ market_updates > 0 THEN market_updates + 1 ELSE market_updates

\* The rounds in which the component's thread has not moved yet.
RoundsLeft(component) == IF component \in stepped THEN sleep - 1 ELSE sleep

SleepInv ==
    /\ sleep = 0 => stepped = {}
    /\ main_pc # "sleep" => sleep = 0
    /\ main_pc = "sleep" /\ teardown = Teardown /\ server_pc # "exited" =>
          ServerSteps <= RoundsLeft("order_server")
    /\ main_pc = "sleep" /\ teardown = AfterServer =>
          IF engine_pc = "exited" THEN Publishing <= RoundsLeft("publisher")
          ELSE Work("matching_engine") <= RoundsLeft("matching_engine")
    /\ main_pc = "sleep" /\ teardown = AfterEngine /\ publisher_pc # "exited" =>
          PublisherSteps <= RoundsLeft("publisher")
    /\ main_pc = "sleep" /\ teardown = AfterPublisher /\ synthesizer_pc # "exited" =>
          SynthesizerSteps <= RoundsLeft("synthesizer")

IInv == TypeOK /\ MainInv /\ ThreadInv /\ CountInv /\ ServedInv /\ QueueInv /\ SleepInv

\* A thread has outlived its component, and nothing happens any more.
Ended == Outlived /\ ~in_time /\ TypeOK /\ ServedInv

----------------------------------------------------------------------------
(* Facts about the sequences and the ring.                                 *)

(* The stages of the start and of the teardown.                            *)
LEMMA Stages ==
  /\ Head(Started) = "matching_engine" /\ Tail(Started) = <<"order_server", "publisher">>
  /\ Len(Started) = 3
  /\ Head(<<"order_server", "publisher">>) = "order_server"
  /\ Tail(<<"order_server", "publisher">>) = <<"publisher">> /\ Len(<<"order_server", "publisher">>) = 2
  /\ Head(<<"publisher">>) = "publisher" /\ Tail(<<"publisher">>) = <<>> /\ Len(<<"publisher">>) = 1
  /\ Head(Teardown) = "order_server" /\ Tail(Teardown) = AfterServer /\ Len(Teardown) = 4
  /\ Head(AfterServer) = "matching_engine" /\ Tail(AfterServer) = AfterEngine /\ Len(AfterServer) = 3
  /\ Head(AfterEngine) = "publisher" /\ Tail(AfterEngine) = AfterPublisher /\ Len(AfterEngine) = 2
  /\ Head(AfterPublisher) = "synthesizer" /\ Tail(AfterPublisher) = <<>> /\ Len(AfterPublisher) = 1
BY DEF Started, Teardown, AfterServer, AfterEngine, AfterPublisher

(* The stages of the teardown are told apart by what is left to do.        *)
LEMMA StagesDiffer ==
  /\ Teardown # AfterServer /\ Teardown # AfterEngine /\ Teardown # AfterPublisher
  /\ AfterServer # AfterEngine /\ AfterServer # AfterPublisher /\ AfterEngine # AfterPublisher
  /\ Teardown # <<>> /\ AfterServer # <<>> /\ AfterEngine # <<>> /\ AfterPublisher # <<>>
  /\ Started # <<"order_server", "publisher">> /\ Started # <<"publisher">> /\ Started # <<>>
  /\ <<"order_server", "publisher">> # <<"publisher">>
<1>1. Len(<<>>) = 0 /\ Len(<<"order_server", "publisher">>) = 2 /\ Len(<<"publisher">>) = 1
  OBVIOUS
<1>2. Len(Started) = 3
  BY Stages
<1>3. Len(Teardown) = 4 /\ Len(AfterServer) = 3 /\ Len(AfterEngine) = 2 /\ Len(AfterPublisher) = 1
  BY Stages
<1>4. Started # <<"order_server", "publisher">> /\ Started # <<"publisher">> /\ Started # <<>>
  BY <1>1, <1>2
<1>5. <<"order_server", "publisher">> # <<"publisher">>
  BY <1>1
<1>6. /\ Teardown # AfterServer /\ Teardown # AfterEngine /\ Teardown # AfterPublisher
      /\ AfterServer # AfterEngine /\ AfterServer # AfterPublisher /\ AfterEngine # AfterPublisher
  BY <1>3
<1>7. Teardown # <<>> /\ AfterServer # <<>> /\ AfterEngine # <<>> /\ AfterPublisher # <<>>
  BY <1>3
<1> QED BY <1>4, <1>5, <1>6, <1>7

(* The slots of the ring, counted from slot r, are all different; the next *)
(* slot is taken modulo the capacity.                                      *)
LEMMA RingFacts ==
  ASSUME NEW r \in Index
  PROVE  /\ (r + 1) % Capacity \in Index
         /\ Around(r, 0) = r
         /\ \A j \in Index : Around(r, j) \in Index
         /\ \A i, j \in Index : Around(r, i) = Around(r, j) => i = j
         /\ \A j \in Index : j + 1 \in Index =>
               /\ Around(r, j + 1) = (Around(r, j) + 1) % Capacity
               /\ Around((r + 1) % Capacity, j) = Around(r, j + 1)
         /\ \A j \in Index : (Around(r, j) + 1) % Capacity = r <=> j = Capacity - 1
<1>1. \A i \in Index : (i + 1) % Capacity = IF i + 1 = Capacity THEN 0 ELSE i + 1
  BY EngineAssumption DEF Index
<1>2. \A j \in Index : Around(r, j) \in Index
  BY EngineAssumption DEF Around, Index
<1>3. (r + 1) % Capacity \in Index /\ Around(r, 0) = r
  BY <1>1, EngineAssumption DEF Around, Index
<1>4. \A i, j \in Index : Around(r, i) = Around(r, j) => i = j
  BY EngineAssumption DEF Around, Index
<1>5. ASSUME NEW j \in Index, j + 1 \in Index
      PROVE  /\ Around(r, j + 1) = (Around(r, j) + 1) % Capacity
             /\ Around((r + 1) % Capacity, j) = Around(r, j + 1)
  <2>1. (Around(r, j) + 1) % Capacity =
           IF Around(r, j) + 1 = Capacity THEN 0 ELSE Around(r, j) + 1
    BY <1>1, <1>2
  <2>2. (r + 1) % Capacity = IF r + 1 = Capacity THEN 0 ELSE r + 1
    BY <1>1
  <2>3. Around(r, j + 1) = (Around(r, j) + 1) % Capacity
    BY <1>5, <2>1, EngineAssumption DEF Around, Index
  <2>4. Around((r + 1) % Capacity, j) = Around(r, j + 1)
    BY <1>5, <2>2, EngineAssumption DEF Around, Index
  <2> QED BY <2>3, <2>4
<1>6. ASSUME NEW j \in Index
      PROVE  (Around(r, j) + 1) % Capacity = r <=> j = Capacity - 1
  <2>1. (Around(r, j) + 1) % Capacity =
           IF Around(r, j) + 1 = Capacity THEN 0 ELSE Around(r, j) + 1
    BY <1>1, <1>2
  <2> QED BY <2>1, EngineAssumption DEF Around, Index
<1> QED BY <1>2, <1>3, <1>4, <1>5, <1>6

(* A sequence that grows by one element, and one that loses its first.     *)
LEMMA AppendFacts ==
  ASSUME NEW S, NEW s \in Seq(S), NEW e \in S
  PROVE  /\ Append(s, e) \in Seq(S) /\ Len(Append(s, e)) = Len(s) + 1
         /\ \A i \in 1 .. Len(s) : Append(s, e)[i] = s[i]
         /\ Append(s, e)[Len(s) + 1] = e
BY AppendProperties

(* Taking the first of a sequence.                                         *)
LEMMA TailFacts ==
  ASSUME NEW S, NEW s \in Seq(S), s # <<>>
  PROVE  /\ Head(s) \in S /\ Tail(s) \in Seq(S) /\ Len(Tail(s)) = Len(s) - 1 /\ Len(s) > 0
BY HeadTailProperties, EmptySeq, LenProperties

(* What a book sends for a request is bounded by what rests before it and  *)
(* not after it.                                                           *)
LEMMA BookFacts ==
  ASSUME resting \in Nat, NEW type, NEW does \in BookDoes(type)
  PROVE  /\ does.resting \in Nat /\ does.sent[1] \in Nat /\ does.sent[2] \in Nat
         /\ does.sent[1] + 2 * does.resting <= 3 + 2 * resting
         /\ does.sent[2] + 2 * does.resting <= 3 + 2 * resting
<1> DEFINE Fine(a, b, c) == /\ c \in Nat /\ a \in Nat /\ b \in Nat
                            /\ a + 2 * c <= 3 + 2 * resting /\ b + 2 * c <= 3 + 2 * resting
<1>2. Fine(1, 0, resting) /\ \A n \in 1 .. resting : Fine(1, 1, resting - 1)
  OBVIOUS
<1>3. \A n \in 0 .. resting : Fine(1 + 2 * n, 2 * n + 1, resting - n + 1)
  OBVIOUS
<1>4. \A n \in 1 .. resting, kept \in {0, 1} : Fine(1 + 2 * n, 2 * n, resting - n + kept)
  OBVIOUS
<1>5. \/ does = Outcome(1, 0, resting)
      \/ \E n \in 1 .. resting : does = Outcome(1, 1, resting - 1)
      \/ \E n \in 0 .. resting : does = Outcome(1 + 2 * n, 2 * n + 1, resting - n + 1)
      \/ \E n \in 1 .. resting, kept \in {0, 1} :
            does = Outcome(1 + 2 * n, 2 * n, resting - n + kept)
  BY DEF BookDoes
<1> HIDE DEF Fine
<1>6. \E a, b, c : does = Outcome(a, b, c) /\ Fine(a, b, c)
  <2>1. CASE does = Outcome(1, 0, resting)
    BY <1>2, <2>1, Zenon
  <2>2. CASE \E n \in 1 .. resting : does = Outcome(1, 1, resting - 1)
    BY <1>2, <2>2, Zenon
  <2>3. CASE \E n \in 0 .. resting : does = Outcome(1 + 2 * n, 2 * n + 1, resting - n + 1)
    BY <1>3, <2>3, Zenon
  <2>4. CASE \E n \in 1 .. resting, kept \in {0, 1} :
               does = Outcome(1 + 2 * n, 2 * n, resting - n + kept)
    BY <1>4, <2>4, Zenon
  <2> QED BY <1>5, <2>1, <2>2, <2>3, <2>4
<1>7. PICK a, b, c : does = Outcome(a, b, c) /\ Fine(a, b, c)
  BY <1>6
<1>8. does.resting = c /\ does.sent[1] = a /\ does.sent[2] = b
  BY <1>7 DEF Outcome
<1> QED BY <1>7, <1>8 DEF Fine

(* A request is not the pill, and what it sends is bounded likewise.       *)
LEMMA RequestFacts ==
  ASSUME NEW r \in Requests, resting \in Nat
  PROVE  /\ r # Shutdown
         /\ \A done \in processClientRequest(r) :
               /\ done.does.resting \in Nat
               /\ done.does.sent[1] \in Nat /\ done.does.sent[2] \in Nat
               /\ done.does.sent[1] + 2 * done.does.resting <= 3 + 2 * resting
               /\ done.does.sent[2] + 2 * done.does.resting <= 3 + 2 * resting
<1>1. r # Shutdown
  BY DEF Requests, Shutdown
<1>2. Outcome(1, 0, resting) \in BookDoes(r.type)
  BY DEF BookDoes
<1>3. ASSUME NEW done \in processClientRequest(r)
      PROVE  done.does \in BookDoes(r.type)
  <2>1. \E does \in BookDoes(r.type) : \E books : done = [does |-> does, books |-> books]
    BY <1>2, Zenon DEF processClientRequest
  <2> QED BY <2>1
<1> QED BY <1>1, <1>3, BookFacts

(* A request that is processed takes at least a step off what the engine   *)
(* and the publisher have to do, and adds none to what the server has.     *)
LEMMA Progress ==
  \A c, r, c1, r1 \in Nat, u \in Int : c1 + 2 * r1 <= c + 3 + 2 * r =>
     /\ c1 + 3 * (u - 1) + 2 * r1 + 2 <= c + 3 * u + 2 * r + 2
     /\ c1 + 3 * (u - 1) + 2 * r1 + 2 \in Int /\ c + 3 * u + 2 * r + 2 \in Int
     /\ (2 * (u - 1) + 1) + c1 + 3 * (u - 1) + 2 * r1 + 1 <= (2 * u + c + 3 * u + 2 * r + 1) - 1
     /\ (2 * (u - 1) + 1) + c1 + 3 * (u - 1) + 2 * r1 + 1 \in Int
     /\ 2 * u + c + 3 * u + 2 * r + 1 \in Int
OBVIOUS

(* A thread that moves uses up one round at most, and none of the others'. *)
LEMMA MoveFacts ==
  ASSUME TypeOK, SleepInv, NEW c \in Components, Moves(c), sleep' = sleep
  PROVE  /\ stepped' \subseteq Components /\ (sleep' = 0 => stepped' = {})
         /\ RoundsLeft(c)' >= RoundsLeft(c) - 1
         /\ \A d \in Components : /\ RoundsLeft(d) \in Int /\ RoundsLeft(d)' \in Nat
                                  /\ d # c => RoundsLeft(d)' = RoundsLeft(d)
BY DEF TypeOK, SleepInv, Moves, RoundsLeft

(* The counts of steps are numbers, and the threads that have not ended    *)
(* have steps to make.                                                     *)
LEMMA WorkFacts ==
  ASSUME TypeOK, CountInv, ServedInv
  PROVE  /\ Len(served) \in Nat /\ Len(published) \in Nat /\ Len(pending) \in Nat
         /\ client_responses \in Nat /\ market_updates \in Nat /\ resting \in Nat
         /\ MaxRequests \in Nat /\ Unserved \in Nat /\ Unserved = Len(published) - Len(served)
         /\ Len(served) <= Len(published) /\ Len(published) + Len(pending) <= MaxRequests
         /\ ServerSteps \in Nat \ {0} /\ EngineSteps \in Nat
         /\ Work("matching_engine") =
               EngineSteps + market_updates + 3 * Unserved + 2 * resting + 1
         /\ Work("matching_engine") \in Nat \ {0}
         /\ PublisherSteps \in Nat \ {0} /\ SynthesizerSteps \in Nat \ {0}
<1>1. /\ Len(served) \in Nat /\ Len(published) \in Nat /\ Len(pending) \in Nat
      /\ client_responses \in Nat /\ market_updates \in Nat /\ resting \in Nat
      /\ MaxRequests \in Nat /\ walk \in Nat
      /\ Len(served) <= Len(published) /\ Len(published) + Len(pending) <= MaxRequests
  BY EngineAssumption DEF TypeOK, CountInv, ServedInv
<1>2. Unserved \in Nat /\ Unserved = Len(published) - Len(served)
  BY <1>1 DEF Unserved
<1>3. ASSUME NEW u \in Nat PROVE Respond(u) \in Nat \ {0}
  BY <1>1 DEF Respond
<1>4. ServerSteps \in Nat \ {0}
  <2>1. CASE server_pc = "poll"
    <3>1. ServerSteps = 2 * (MaxRequests - Len(published)) + 1 + Respond(MaxRequests - Len(served))
      BY <2>1 DEF ServerSteps
    <3>2. MaxRequests - Len(served) \in Nat /\ MaxRequests - Len(published) \in Nat
      BY <1>1
    <3>3. Respond(MaxRequests - Len(served)) \in Nat
      BY <1>3, <3>2
    <3> QED BY <3>1, <3>2, <3>3
  <2>2. CASE server_pc \in {"write", "publish"}
    <3>1. \/ ServerSteps = 2 * Len(pending) + Respond(Unserved + Len(pending))
          \/ ServerSteps = 2 * Len(pending) - 1 + Respond(Unserved + Len(pending))
      BY <2>2 DEF ServerSteps
    <3>2. Len(pending) # 0
      BY <1>1, <2>2 DEF CountInv, TypeOK
    <3>3. Respond(Unserved + Len(pending)) \in Nat
      <4>1. Unserved + Len(pending) \in Nat
        BY <1>1, <1>2
      <4> QED BY <1>3, <4>1
    <3> QED BY <1>1, <3>1, <3>2, <3>3
  <2>3. CASE server_pc \notin {"poll", "write", "publish"}
    <3>1. ServerSteps = Respond(Unserved) \/ ServerSteps = 1
      BY <2>3 DEF ServerSteps
    <3>2. Respond(Unserved) \in Nat \ {0}
      BY <1>2, <1>3
    <3> QED BY <3>1, <3>2
  <2> QED BY <2>1, <2>2, <2>3
<1>5. EngineSteps \in Nat
  BY <1>2 DEF EngineSteps
<1>6. /\ Work("matching_engine") = EngineSteps + market_updates + 3 * Unserved + 2 * resting + 1
      /\ Work("matching_engine") \in Nat \ {0}
  BY <1>1, <1>2, <1>5 DEF Work
<1>7. PublisherSteps \in Nat \ {0} /\ SynthesizerSteps \in Nat \ {0}
  BY <1>1, WalkAssumption DEF PublisherSteps, SynthesizerSteps
<1> QED BY <1>1, <1>2, <1>3, <1>4, <1>5, <1>6, <1>7

----------------------------------------------------------------------------
(* Every step preserves the invariant.                                     *)

(* It holds when the program starts.                                       *)
LEMMA InitIInv == Init => IInv
<1> SUFFICES ASSUME Init PROVE IInv
  OBVIOUS
<1>1. Blank \in Requests \cup {Shutdown, Blank} /\ 0 \in Index
  BY EngineAssumption DEF Index
<1>2. TypeOK
  <2>1. slots \in [Index -> Requests \cup {Shutdown, Blank}]
    BY DEF Init, EngineInit, Index
  <2>2. \A S : <<>> \in Seq(S)
    OBVIOUS
  <2> QED BY <1>1, <2>1, <2>2 DEF Init, EngineInit, TypeOK
<1>8. MainInv
  BY DEF Init, MainInv, At
<1>3. ~EngineDeleted /\ ~PillIn /\ ~ServerDeleted /\ ~PublisherDeleted
  BY StagesDiffer DEF Init, EngineDeleted, PillIn, ServerDeleted, PublisherDeleted
<1>4. ThreadInv
  BY <1>3, StagesDiffer DEF Init, EngineInit, ThreadInv
<1>5. CountInv /\ ServedInv
  BY <1>3, EngineAssumption DEF Init, EngineInit, CountInv, ServedInv
<1>6. QueueInv
  BY <1>3, EngineAssumption DEF Init, EngineInit, QueueInv, Written, Read, Ahead, Around, Index
<1>7. SleepInv
  BY DEF Init, SleepInv
<1> QED BY <1>2, <1>4, <1>5, <1>6, <1>7, <1>8 DEF IInv

(* The invariant does not speak of the flag that a signal sets.            *)
LEMMA SignalIInv == ASSUME IInv, signal_handler \/ UNCHANGED vars PROVE IInv'
<1>1. /\ UNCHANGED <<slots, next_write, next_read, client_responses, market_updates, fatal>>
      /\ UNCHANGED <<main_pc, starting, teardown, objects, run, sleep, stepped>>
      /\ UNCHANGED <<engine_pc, served, server_pc, pending, published>>
      /\ UNCHANGED publisher_pc
      /\ UNCHANGED <<resting, in_time, snapshot_md_updates, synthesizer_pc, walk>>
  BY DEF signal_handler, vars, queue, engine, main, server, second, synthesizer
<1>2. TypeOK'
  BY <1>1 DEF IInv, TypeOK
<1>3. MainInv'
  BY <1>1 DEF IInv, MainInv, At
<1>4. ThreadInv' /\ CountInv' /\ ServedInv'
  BY <1>1 DEF IInv, ThreadInv, CountInv, ServedInv, ServerDeleted, EngineDeleted, PublisherDeleted,
              PillIn
<1>5. QueueInv'
  BY <1>1 DEF IInv, QueueInv, Ahead, Written, Read, Item, PillIn, EngineDeleted, ServerDeleted
<1>6. SleepInv'
  BY <1>1 DEF IInv, SleepInv, ServerSteps, EngineSteps, Publishing, RoundsLeft,
              Work, Respond, Unserved, PublisherSteps, SynthesizerSteps
<1> QED BY <1>2, <1>3, <1>4, <1>5, <1>6 DEF IInv

(* Where main is while the order server's thread runs.                     *)
LEMMA ServerRuns ==
  ASSUME IInv, server_pc \in {"check", "poll", "write", "publish", "respond"}
  PROVE  /\ teardown = Teardown /\ ~PillIn
         /\ "order_server" \notin run <=> main_pc = "sleep"
         /\ main_pc # "pill"
<1>1. teardown = Teardown
  BY DEF IInv, ThreadInv, ServerDeleted
<1>2. ~PillIn
  BY <1>1, StagesDiffer DEF PillIn, EngineDeleted, ServerDeleted
<1>3. main_pc # "start" \/ starting = <<"publisher">>
  BY DEF IInv, ThreadInv
<1>4. main_pc # "pill" /\ ("order_server" \notin run <=> main_pc = "sleep")
  BY <1>1, <1>3, StagesDiffer DEF IInv, MainInv, At, Components
<1> QED BY <1>1, <1>2, <1>4

(* The order server's loop ends when it is told to stop.                   *)
LEMMA ServerLoopIInv ==
  ASSUME IInv, ServerLoop, Moves("order_server"),
         UNCHANGED <<next_read, market_updates, engine, main, sleep, in_time, publisher_pc,
                     snapshot_md_updates, synthesizer>>
  PROVE  IInv'
<1>1. /\ server_pc = "check"
      /\ server_pc' = IF "order_server" \in run THEN "poll" ELSE "exited"
      /\ UNCHANGED <<slots, next_write, next_read, client_responses, market_updates, fatal>>
      /\ UNCHANGED <<main_pc, starting, teardown, objects, run>>
      /\ UNCHANGED <<engine_pc, served, pending, published, sleep, publisher_pc, synthesizer_pc>>
      /\ UNCHANGED <<resting, in_time, snapshot_md_updates, synthesizer_pc, walk>>
  BY DEF ServerLoop, engine, main, synthesizer
<1>2. /\ stepped' \subseteq Components /\ (sleep' = 0 => stepped' = {})
      /\ RoundsLeft("publisher")' = RoundsLeft("publisher")
      /\ RoundsLeft("synthesizer")' = RoundsLeft("synthesizer")
      /\ RoundsLeft("matching_engine")' = RoundsLeft("matching_engine")
  BY <1>1, MoveFacts DEF IInv, Components
<1>3. TypeOK' /\ MainInv'
  BY <1>1, <1>2 DEF IInv, TypeOK, MainInv, At
<1>4. /\ teardown = Teardown /\ ~PillIn
      /\ "order_server" \notin run <=> main_pc = "sleep"
  BY <1>1, ServerRuns
<1>6. ThreadInv' /\ CountInv' /\ ServedInv' /\ QueueInv'
  BY <1>1, <1>4
     DEF IInv, ThreadInv, CountInv, ServedInv, QueueInv, ServerDeleted, EngineDeleted,
         PublisherDeleted, PillIn, Ahead, Written, Read, Item
<1>7. SleepInv'
  BY <1>1, <1>2, <1>4, StagesDiffer DEF IInv, SleepInv
<1> QED BY <1>3, <1>6, <1>7 DEF IInv


(* The order server is sent requests.                                      *)
LEMMA ServerPollIInv ==
  ASSUME IInv, ServerPoll, Moves("order_server"),
         UNCHANGED <<next_read, market_updates, engine, main, sleep, in_time, publisher_pc,
                     snapshot_md_updates, synthesizer>>
  PROVE  IInv'
<1>1. /\ server_pc = "poll"
      /\ UNCHANGED <<slots, next_write, next_read, client_responses, market_updates, fatal>>
      /\ UNCHANGED <<main_pc, starting, teardown, objects, run>>
      /\ UNCHANGED <<engine_pc, served, published, sleep, publisher_pc, synthesizer_pc>>
      /\ UNCHANGED <<resting, in_time, snapshot_md_updates, synthesizer_pc, walk>>
  BY DEF ServerPoll, engine, main, synthesizer
<1>2. /\ stepped' \subseteq Components /\ (sleep' = 0 => stepped' = {})
      /\ RoundsLeft("order_server")' >= RoundsLeft("order_server") - 1
      /\ RoundsLeft("order_server") \in Int /\ RoundsLeft("order_server")' \in Int
  BY <1>1, MoveFacts DEF IInv, Components
<1>3. PICK n \in 0 .. MaxRequests - Len(published) : \E batch \in [1 .. n -> Requests] :
         pending' = batch /\ server_pc' = IF n = 0 THEN "respond" ELSE "write"
  BY DEF ServerPoll
<1>4. /\ n \in Nat /\ Len(published) \in Nat /\ Len(served) \in Nat /\ client_responses \in Nat
      /\ MaxRequests \in Nat
  BY <1>3, EngineAssumption DEF IInv, TypeOK
<1>5. pending' \in Seq(Requests) /\ Len(pending') = n
  <2>1. \A batch \in [1 .. n -> Requests] : batch \in Seq(Requests) /\ Len(batch) = n
    BY <1>4
  <2> QED BY <1>3, <2>1
<1>6. teardown = Teardown /\ ~PillIn /\ main_pc # "pill"
  BY <1>1, ServerRuns
<1>7. TypeOK' /\ MainInv'
  BY <1>1, <1>2, <1>5 DEF IInv, TypeOK, MainInv, At
<1>8. ThreadInv' /\ ServedInv'
  BY <1>1, <1>3, <1>6 DEF IInv, ThreadInv, ServedInv, ServerDeleted, EngineDeleted, PublisherDeleted,
                          PillIn
<1>9. CountInv'
  <2>1. n # 0 => pending' # <<>>
    BY <1>5
  <2> QED BY <1>1, <1>3, <1>4, <1>5, <2>1 DEF IInv, CountInv, EngineDeleted, ServerDeleted
<1>10. QueueInv'
  BY <1>1, <1>3, <1>6 DEF IInv, QueueInv, Ahead, Written, Read, Item, PillIn, EngineDeleted,
                          ServerDeleted
<1>11. SleepInv'
  <2>1. /\ Unserved' \in Nat /\ Unserved' = Len(published) - Len(served) /\ resting \in Nat
    BY <1>1, WorkFacts DEF IInv, Unserved
  <2>2. ServerSteps' <= ServerSteps - 1 /\ ServerSteps \in Int /\ ServerSteps' \in Int
    <3>1. ServerSteps = 2 * (MaxRequests - Len(published)) + 1
                           + (client_responses + 3 * (MaxRequests - Len(served)) + 2 * resting + 2)
      BY <1>1 DEF ServerSteps, Respond
    <3>2. ServerSteps' = 2 * n + (client_responses + 3 * (Unserved' + n) + 2 * resting + 2)
      <4>1. CASE n = 0
        BY <1>1, <1>3, <1>4, <2>1, <4>1 DEF ServerSteps, Respond
      <4>2. CASE n # 0
        BY <1>1, <1>3, <1>5, <4>2 DEF ServerSteps, Respond
      <4> QED BY <4>1, <4>2
    <3> QED BY <1>3, <1>4, <2>1, <3>1, <3>2
  <2> QED BY <1>1, <1>2, <1>6, <2>2, StagesDiffer DEF IInv, SleepInv
<1> QED BY <1>7, <1>8, <1>9, <1>10, <1>11 DEF IInv


(* The order server fills the slot after the elements of the queue.        *)
LEMMA ServerWriteIInv ==
  ASSUME IInv, ServerWrite, Moves("order_server"),
         UNCHANGED <<next_read, market_updates, engine, main, sleep, in_time, publisher_pc,
                     snapshot_md_updates, synthesizer>>
  PROVE  IInv'
<1>1. /\ server_pc = "write" /\ server_pc' = "publish"
      /\ slots' = [slots EXCEPT ![next_write] = Head(pending)]
      /\ UNCHANGED <<next_write, next_read, client_responses, market_updates, fatal>>
      /\ UNCHANGED <<main_pc, starting, teardown, objects, run>>
      /\ UNCHANGED <<engine_pc, served, published, pending, sleep, publisher_pc, synthesizer_pc>>
      /\ UNCHANGED <<resting, in_time, snapshot_md_updates, synthesizer_pc, walk>>
  BY DEF ServerWrite, WriteSlot, engine, main, synthesizer
<1>2. /\ stepped' \subseteq Components /\ (sleep' = 0 => stepped' = {})
      /\ RoundsLeft("order_server")' >= RoundsLeft("order_server") - 1
      /\ RoundsLeft("order_server") \in Int /\ RoundsLeft("order_server")' \in Int
  BY <1>1, MoveFacts DEF IInv, Components
<1>3. Head(pending) \in Requests /\ Len(pending) \in Nat
  BY <1>1, TailFacts DEF IInv, TypeOK, CountInv
<1>4. teardown = Teardown /\ ~PillIn /\ main_pc # "pill"
  BY <1>1, ServerRuns
<1>5. slots \in [Index -> Requests \cup {Shutdown, Blank}] /\ next_write \in Index /\ next_read \in Index
  BY DEF IInv, TypeOK
<1>6. TypeOK' /\ MainInv'
  BY <1>1, <1>2, <1>3 DEF IInv, TypeOK, MainInv, At
<1>7. ThreadInv' /\ ServedInv' /\ CountInv'
  BY <1>1, <1>4 DEF IInv, ThreadInv, ServedInv, CountInv, ServerDeleted, EngineDeleted,
                    PublisherDeleted, PillIn
<1>8. QueueInv'
  <2> SUFFICES ASSUME ~fatal' PROVE QueueInv'
    BY DEF QueueInv
  <2>1. Written' = Written /\ Read' = Read /\ \A j : Ahead(j)' = Ahead(j) /\ Item(j)' = Item(j)
    BY <1>1 DEF Written, Read, Ahead, Item, PillIn, EngineDeleted, ServerDeleted
  <2>2. Written - Read \in Index /\ next_write = Ahead(Written - Read)
    BY <1>1 DEF IInv, QueueInv, Index
  <2>3. Written \in Nat /\ Read \in Nat
    BY DEF Written, Read, IInv, TypeOK
  <2>4. \A j \in 0 .. Written - Read - 1 : Ahead(j) \in Index /\ Ahead(j) # next_write
    <3>1. \A j \in 0 .. Written - Read - 1 : j \in Index /\ j # Written - Read
      BY <2>2, <2>3, EngineAssumption DEF Index
    <3>2. \A i \in Index : Ahead(i) \in Index
      BY <1>5, RingFacts DEF Ahead
    <3>3. \A i, j \in Index : Ahead(i) = Ahead(j) => i = j
      BY <1>5, RingFacts DEF Ahead
    <3> QED BY <2>2, <3>1, <3>2, <3>3
  <2>5. \A j \in 0 .. Written - Read - 1 : slots'[Ahead(j)] = Item(Read + j)
    BY <1>1, <1>5, <2>4 DEF IInv, QueueInv
  <2>6. slots'[next_write] = Head(pending)
    BY <1>1, <1>5
  <2> QED BY <1>1, <1>4, <2>1, <2>2, <2>5, <2>6 DEF QueueInv, Index
<1>9. SleepInv'
  <2>1. /\ Respond(Unserved + Len(pending)) \in Nat
        /\ Respond(Unserved + Len(pending))' = Respond(Unserved + Len(pending))
    <3>1. Unserved' = Unserved
      BY <1>1 DEF Unserved
    <3>2. Unserved \in Nat /\ client_responses \in Nat /\ resting \in Nat
      BY WorkFacts DEF IInv
    <3> QED BY <1>1, <1>3, <3>1, <3>2 DEF Respond
  <2>2. ServerSteps' = ServerSteps - 1 /\ ServerSteps \in Int
    BY <1>1, <1>3, <2>1 DEF ServerSteps
  <2> QED BY <1>1, <1>2, <1>4, <2>2, StagesDiffer DEF IInv, SleepInv
<1> QED BY <1>6, <1>7, <1>8, <1>9 DEF IInv

(* The order server passes a response on, or is through with them.         *)
LEMMA ServerRespondIInv ==
  ASSUME IInv, ServerRespond, Moves("order_server"),
         UNCHANGED <<next_read, market_updates, engine, main, sleep, in_time, publisher_pc,
                     snapshot_md_updates, synthesizer>>
  PROVE  IInv'
<1>1. /\ server_pc = "respond"
      /\ IF client_responses > 0
         THEN client_responses' = client_responses - 1 /\ server_pc' = "respond"
         ELSE server_pc' = "check" /\ client_responses' = client_responses
      /\ UNCHANGED <<slots, next_write, next_read, market_updates, fatal>>
      /\ UNCHANGED <<main_pc, starting, teardown, objects, run>>
      /\ UNCHANGED <<engine_pc, served, published, pending, sleep, publisher_pc, synthesizer_pc>>
      /\ UNCHANGED <<resting, in_time, snapshot_md_updates, synthesizer_pc, walk>>
  BY DEF ServerRespond, engine, main, synthesizer
<1>2. /\ stepped' \subseteq Components /\ (sleep' = 0 => stepped' = {})
      /\ RoundsLeft("order_server")' >= RoundsLeft("order_server") - 1
      /\ RoundsLeft("order_server") \in Int /\ RoundsLeft("order_server")' \in Int
  BY <1>1, MoveFacts DEF IInv, Components
<1>3. teardown = Teardown /\ ~PillIn /\ main_pc # "pill"
  BY <1>1, ServerRuns
<1>4. /\ client_responses \in Nat /\ client_responses' \in Nat
      /\ client_responses' <= client_responses
  BY <1>1 DEF IInv, TypeOK
<1>5. TypeOK' /\ MainInv'
  BY <1>1, <1>2, <1>4 DEF IInv, TypeOK, MainInv, At
<1>6. ThreadInv' /\ ServedInv'
  BY <1>1, <1>3 DEF IInv, ThreadInv, ServedInv, ServerDeleted, EngineDeleted, PublisherDeleted,
                    PillIn
<1>7. CountInv'
  <2>1. Len(served) \in Nat
    BY DEF IInv, TypeOK
  <2> QED BY <1>1, <1>4, <2>1 DEF IInv, CountInv, EngineDeleted, ServerDeleted
<1>8. QueueInv'
  BY <1>1, <1>3 DEF IInv, QueueInv, Ahead, Written, Read, Item, PillIn, EngineDeleted, ServerDeleted
<1>9. SleepInv'
  <2>1. /\ Unserved \in Nat /\ Unserved' = Unserved /\ resting \in Nat
        /\ Respond(Unserved) = client_responses + 3 * Unserved + 2 * resting + 2
        /\ Respond(Unserved)' = client_responses' + 3 * Unserved + 2 * resting + 2
    BY <1>1, WorkFacts DEF IInv, Unserved, Respond
  <2>2. ServerSteps' <= ServerSteps - 1 /\ ServerSteps \in Int /\ ServerSteps' \in Int
    <3>1. CASE client_responses > 0
      <4>1. ServerSteps = Respond(Unserved) /\ ServerSteps' = Respond(Unserved)'
        BY <1>1, <3>1 DEF ServerSteps
      <4> QED BY <1>1, <1>4, <2>1, <3>1, <4>1
    <3>2. CASE client_responses = 0
      <4>1. ServerSteps' = 1 /\ ServerSteps = Respond(Unserved)
        BY <1>1, <3>2 DEF ServerSteps
      <4> QED BY <1>4, <2>1, <3>2, <4>1
    <3> QED BY <1>4, <3>1, <3>2
  <2> QED BY <1>1, <1>2, <1>3, <2>2, StagesDiffer DEF IInv, SleepInv
<1> QED BY <1>5, <1>6, <1>7, <1>8, <1>9 DEF IInv


(* The order server hands a request over, or the queue is full.            *)
LEMMA ServerPublishIInv ==
  ASSUME IInv, ServerPublish, Moves("order_server"),
         UNCHANGED <<next_read, market_updates, engine, main, sleep, in_time, publisher_pc,
                     snapshot_md_updates, synthesizer>>
  PROVE  IInv'
<1> DEFINE next == (next_write + 1) % Capacity
<1>1. /\ server_pc = "publish" /\ server_pc' = IF Len(pending) = 1 THEN "respond" ELSE "write"
      /\ published' = Append(published, Head(pending)) /\ pending' = Tail(pending)
      /\ UNCHANGED <<slots, next_read, client_responses, market_updates>>
      /\ UNCHANGED <<main_pc, starting, teardown, objects, run>>
      /\ UNCHANGED <<engine_pc, served, sleep, publisher_pc, synthesizer_pc>>
      /\ UNCHANGED <<resting, in_time, snapshot_md_updates, synthesizer_pc, walk>>
  BY DEF ServerPublish, engine, main, synthesizer
<1>2. IF next = next_read THEN fatal' = TRUE /\ UNCHANGED next_write
      ELSE next_write' = next /\ UNCHANGED fatal
  BY DEF ServerPublish, updateWriteIndex
<1>3. /\ stepped' \subseteq Components /\ (sleep' = 0 => stepped' = {})
      /\ RoundsLeft("order_server")' >= RoundsLeft("order_server") - 1
      /\ RoundsLeft("order_server") \in Int /\ RoundsLeft("order_server")' \in Int
  BY <1>1, MoveFacts DEF IInv, Components
<1>4. /\ pending \in Seq(Requests) /\ pending # <<>> /\ published \in Seq(Requests)
      /\ served \in Seq(Requests) /\ next_write \in Index /\ next_read \in Index
  BY <1>1 DEF IInv, TypeOK, CountInv
<1>5. /\ Head(pending) \in Requests /\ pending' \in Seq(Requests)
      /\ Len(pending') = Len(pending) - 1 /\ Len(pending) \in Nat \ {0}
  BY <1>1, <1>4, TailFacts
<1>6. /\ published' \in Seq(Requests) /\ Len(published') = Len(published) + 1
      /\ \A i \in 1 .. Len(published) : published'[i] = published[i]
      /\ published'[Len(published) + 1] = Head(pending)
      /\ Len(published) \in Nat /\ Len(served) \in Nat
  BY <1>1, <1>4, <1>5, AppendFacts
<1>7. teardown = Teardown /\ ~PillIn /\ main_pc # "pill"
  BY <1>1, ServerRuns
<1>8. engine_pc # "exited"
  BY <1>7 DEF IInv, ThreadInv, PillIn
<1>9. TypeOK' /\ MainInv'
  <2>1. next \in Index
    BY <1>4, RingFacts
  <2>2. next_write' \in Index /\ fatal' \in BOOLEAN
    BY <1>2, <1>4, <2>1 DEF IInv, TypeOK
  <2> QED BY <1>1, <1>3, <1>5, <1>6, <2>2 DEF IInv, TypeOK, MainInv, At
<1>10. ThreadInv'
  BY <1>1, <1>7 DEF IInv, ThreadInv, ServerDeleted, EngineDeleted, PublisherDeleted, PillIn
<1>11. CountInv'
  <2>1. server_pc' = "write" => pending' # <<>>
    <3>1. server_pc' = "write" => Len(pending') # 0
      BY <1>1, <1>5
    <3> QED BY <3>1
  <2> QED BY <1>1, <1>5, <1>6, <2>1, EngineAssumption DEF IInv, CountInv, EngineDeleted, ServerDeleted
<1>12. ServedInv'
  BY <1>1, <1>6, <1>8 DEF IInv, ServedInv
<1>13. QueueInv'
  <2> SUFFICES ASSUME ~fatal' PROVE QueueInv'
    BY DEF QueueInv
  <2> DEFINE n == Len(published) - Len(served)
  <2>1. next # next_read /\ next_write' = next /\ ~fatal
    BY <1>2
  <2>2. ~PillIn'
    BY <1>1, <1>7 DEF PillIn, EngineDeleted, ServerDeleted
  <2>3. Written = Len(published) /\ Written' = Len(published) + 1
    BY <1>6, <1>7, <2>2 DEF Written
  <2>4. Read = Len(served) /\ Read' = Len(served)
    BY <1>1, <1>8 DEF Read
  <2>5. n \in Index /\ next_write = Ahead(n)
    BY <2>1, <2>3, <2>4 DEF IInv, QueueInv, Index
  <2>6. n # Capacity - 1
    BY <1>4, <2>1, <2>5, RingFacts DEF Ahead
  <2>7. n + 1 \in Index
    BY <2>5, <2>6, EngineAssumption DEF Index
  <2>8. next_write' = Around(next_read, n + 1)
    BY <1>4, <2>1, <2>5, <2>7, RingFacts DEF Ahead
  <2>9. ASSUME NEW j \in 0 .. n PROVE slots'[Ahead(j)'] = Item(Len(served) + j)'
    <3>1. Ahead(j)' = Ahead(j) /\ slots' = slots
      BY <1>1 DEF Ahead
    <3>2. CASE j = n
      <4>1. Item(Len(served) + j)' = Head(pending)
        BY <1>1, <1>6, <3>2 DEF Item
      <4>2. slots[Ahead(j)] = Head(pending)
        BY <1>1, <2>1, <2>5, <3>2 DEF IInv, QueueInv
      <4> QED BY <3>1, <4>1, <4>2
    <3>3. CASE j # n
      <4>1. j \in 0 .. n - 1 /\ Len(served) + j \in Nat /\ Len(served) + j < Len(published)
        BY <1>6, <3>3
      <4>2. slots[Ahead(j)] = Item(Len(served) + j)
        BY <2>1, <2>3, <2>4, <4>1 DEF IInv, QueueInv
      <4>3. Item(Len(served) + j)' = Item(Len(served) + j)
        <5>1. Len(served) + j + 1 \in 1 .. Len(published)
          BY <1>6, <4>1
        <5> QED BY <1>1, <1>6, <4>1, <5>1 DEF Item
      <4> QED BY <3>1, <4>2, <4>3
    <3> QED BY <3>2, <3>3
  <2>10. Written' - Read' = n + 1 /\ n \in Int
    BY <1>6, <2>3, <2>4
  <2>11. Written' - Read' \in 0 .. Capacity - 1 /\ next_write' = Ahead(Written - Read)'
    BY <1>1, <2>7, <2>8, <2>10 DEF Index, Ahead
  <2>12. \A j \in 0 .. Written' - Read' - 1 : slots'[Ahead(j)'] = Item(Read + j)'
    <3>1. 0 .. Written' - Read' - 1 = 0 .. n
      BY <2>10
    <3> QED BY <1>1, <2>4, <2>9, <3>1
  <2> QED BY <1>1, <1>7, <2>11, <2>12 DEF QueueInv
<1>14. SleepInv'
  <2> DEFINE respond == client_responses + 3 * (Unserved + Len(pending)) + 2 * resting + 2
  <2>1. /\ Unserved \in Nat /\ Unserved' = Unserved + 1 /\ respond \in Nat
        /\ Len(pending) \in Nat
    <3>1. /\ Unserved \in Nat /\ Len(pending) \in Nat /\ client_responses \in Nat
          /\ resting \in Nat
      BY WorkFacts DEF IInv
    <3>2. Unserved' = Unserved + 1
      BY <1>1, <1>6 DEF Unserved
    <3> QED BY <3>1, <3>2
  <2>2. ServerSteps = 2 * Len(pending) - 1 + respond
    BY <1>1 DEF ServerSteps, Respond
  <2>3. ServerSteps' = 2 * (Len(pending) - 1) + respond
    <3>1. CASE Len(pending) = 1
      <4>1. ServerSteps' = client_responses + 3 * (Unserved + 1) + 2 * resting + 2
        BY <1>1, <2>1, <3>1 DEF ServerSteps, Respond
      <4> QED BY <2>1, <3>1, <4>1
    <3>2. CASE Len(pending) # 1
      <4>1. ServerSteps' = 2 * (Len(pending) - 1)
              + (client_responses + 3 * (Unserved + 1 + (Len(pending) - 1)) + 2 * resting + 2)
        BY <1>1, <1>5, <2>1, <3>2 DEF ServerSteps, Respond
      <4>2. Unserved + 1 + (Len(pending) - 1) = Unserved + Len(pending)
        BY <2>1
      <4> QED BY <4>1, <4>2
    <3> QED BY <3>1, <3>2
  <2> HIDE DEF respond
  <2>4. ServerSteps' = ServerSteps - 1 /\ ServerSteps \in Int
    BY <1>5, <2>1, <2>2, <2>3
  <2> QED BY <1>1, <1>3, <1>7, <2>4, StagesDiffer DEF IInv, SleepInv
<1> QED BY <1>9, <1>10, <1>11, <1>12, <1>13, <1>14 DEF IInv


(* Where main is while the engine's thread runs.                           *)
LEMMA EngineRuns ==
  ASSUME IInv, engine_pc \in {"poll", "process"}
  PROVE  /\ ~EngineDeleted /\ teardown \in {Teardown, AfterServer}
         /\ PillIn <=> teardown = AfterServer /\ main_pc = "sleep"
         /\ ~(main_pc = "start" /\ starting = Started)
BY StagesDiffer DEF IInv, ThreadInv, EngineDeleted, ServerDeleted, PillIn

(* The first unread slot is given back.                                    *)
LEMMA ReadAdvances ==
  ASSUME IInv, ~fatal, Written > Read,
         next_read' = (next_read + 1) % Capacity, Read' = Read + 1,
         UNCHANGED <<slots, next_write, published, pending, server_pc, main_pc, teardown>>
  PROVE  QueueInv'
<1> DEFINE n == Written - Read
<1>1. /\ n \in Index /\ next_write = Around(next_read, n)
      /\ \A j \in 0 .. n - 1 : slots[Around(next_read, j)] = Item(Read + j)
      /\ server_pc = "publish" => slots[next_write] = Head(pending)
      /\ main_pc = "pill" => slots[next_write] = Shutdown
  BY DEF IInv, QueueInv, Ahead, Index
<1>2. Written \in Nat /\ Read \in Nat /\ n \in Nat /\ n # 0
  BY DEF IInv, TypeOK, Written, Read
<1>3. next_read \in Index
  BY DEF IInv, TypeOK
<1>4. Written' = Written /\ \A i : Item(i)' = Item(i)
  BY DEF Written, Item, PillIn, EngineDeleted, ServerDeleted
<1>5. \A j \in 0 .. n - 1 : Around(next_read', j) = Around(next_read, j + 1)
  <2> TAKE j \in 0 .. n - 1
  <2>1. j \in Index /\ j + 1 \in Index
    BY <1>1, <1>2, EngineAssumption DEF Index
  <2> QED BY <1>3, <2>1, RingFacts
<1>6. n - 1 \in 0 .. Capacity - 1 /\ n - 1 \in 0 .. n - 1
  <2>1. n \in 1 .. Capacity - 1
    BY <1>1, <1>2, EngineAssumption DEF Index
  <2> QED BY <2>1, EngineAssumption
<1>7. next_write' = Around(next_read', n - 1)
  <2>1. n - 1 + 1 = n
    BY <1>2
  <2> QED BY <1>1, <1>5, <1>6, <2>1
<1>8. \A j \in 0 .. n - 2 : slots'[Around(next_read', j)] = Item(Read + 1 + j)
  <2> TAKE j \in 0 .. n - 2
  <2>1. j \in 0 .. n - 1 /\ j + 1 \in 0 .. n - 1 /\ Read + (j + 1) = Read + 1 + j
    BY <1>2
  <2> QED BY <1>1, <1>5, <2>1
<1>9. Written' - Read' = n - 1 /\ n - 1 - 1 = n - 2
  BY <1>2, <1>4
<1> QED BY <1>1, <1>4, <1>6, <1>7, <1>8, <1>9 DEF QueueInv, Ahead

(* The first unread slot holds the next request, or after the last one the *)
(* pill.                                                                   *)
LEMMA FirstUnread ==
  ASSUME IInv, ~fatal, engine_pc \in {"poll", "process"}
  PROVE  /\ next_read # next_write <=> Written > Read
         /\ Read = Len(served) /\ Written \in Nat /\ Len(served) \in Nat
         /\ Len(published) \in Nat
         /\ Len(served) < Len(published) =>
               /\ Written > Read /\ slots[next_read] = published[Len(served) + 1]
               /\ slots[next_read] \in Requests
         /\ Len(served) = Len(published) => (Written > Read <=> PillIn)
         /\ Len(served) = Len(published) /\ PillIn => slots[next_read] = Shutdown
<1>1. /\ Read = Len(served) /\ Read \in Nat /\ Len(served) \in Nat /\ Written \in Nat
      /\ Len(published) \in Nat
      /\ Written = IF PillIn THEN Len(published) + 1 ELSE Len(published)
  BY DEF IInv, TypeOK, Read, Written
<1>2. Written - Read \in Index /\ next_write = Around(next_read, Written - Read) /\ next_read \in Index
  BY DEF IInv, TypeOK, QueueInv, Ahead, Index
<1>3. next_read # next_write <=> Written > Read
  <2>1. 0 \in Index /\ Around(next_read, 0) = next_read
    BY <1>2, RingFacts, EngineAssumption DEF Index
  <2>2. Written - Read = 0 <=> Around(next_read, Written - Read) = next_read
    <3>1. \A i, j \in Index : Around(next_read, i) = Around(next_read, j) => i = j
      BY <1>2, RingFacts
    <3> QED BY <1>2, <2>1, <3>1
  <2>3. Written - Read >= 0
    BY <1>2 DEF Index
  <2> QED BY <1>1, <1>2, <2>2, <2>3
<1>4. Written > Read => slots[next_read] = Item(Len(served))
  <2> SUFFICES ASSUME Written > Read PROVE slots[next_read] = Item(Len(served))
    OBVIOUS
  <2>1. 0 \in 0 .. Written - Read - 1 /\ Read + 0 = Len(served)
    BY <1>1
  <2>2. Ahead(0) = next_read
    BY <1>2, RingFacts DEF Ahead
  <2> QED BY <2>1, <2>2 DEF IInv, QueueInv
<1>5. ASSUME Len(served) < Len(published)
      PROVE  /\ Written > Read /\ slots[next_read] = published[Len(served) + 1]
             /\ slots[next_read] \in Requests
  <2>1. Written > Read
    BY <1>1, <1>5
  <2>2. Len(served) + 1 \in 1 .. Len(published)
    BY <1>1, <1>5
  <2>3. published[Len(served) + 1] \in Requests
    BY <2>2, ElementOfSeq DEF IInv, TypeOK
  <2> QED BY <1>4, <1>5, <2>1, <2>3 DEF Item
<1>6. ASSUME Len(served) = Len(published)
      PROVE  /\ Written > Read <=> PillIn
             /\ PillIn => slots[next_read] = Shutdown
  BY <1>1, <1>4, <1>6 DEF Item
<1> QED BY <1>1, <1>3, <1>5, <1>6


(* The engine finds a request or the pill.                                 *)
LEMMA EngineReadIInv ==
  ASSUME IInv, ~fatal, EngineRead, Moves("matching_engine"),
         UNCHANGED <<client_responses, market_updates, ticker_order_books, resting, served, fatal>>,
         UNCHANGED <<slots, next_write, main, sleep, in_time, server, publisher_pc,
                     snapshot_md_updates, synthesizer>>
  PROVE  IInv'
<1>1. /\ engine_pc = "poll" /\ next_read # next_write
      /\ UNCHANGED <<slots, next_write, client_responses, market_updates, fatal>>
      /\ UNCHANGED <<main_pc, starting, teardown, objects, run>>
      /\ UNCHANGED <<served, server_pc, published, pending, sleep, publisher_pc, synthesizer_pc>>
      /\ UNCHANGED <<resting, in_time, snapshot_md_updates, synthesizer_pc, walk>>
  BY DEF EngineRead, main, server, synthesizer
<1>2. IF slots[next_read] = Shutdown
      THEN engine_pc' = "exited" /\ next_read' = (next_read + 1) % Capacity
      ELSE engine_pc' = "process" /\ UNCHANGED next_read
  BY DEF EngineRead
<1>3. /\ stepped' \subseteq Components /\ (sleep' = 0 => stepped' = {})
      /\ RoundsLeft("matching_engine")' >= RoundsLeft("matching_engine") - 1
      /\ RoundsLeft("matching_engine") \in Int /\ RoundsLeft("matching_engine")' \in Int
      /\ RoundsLeft("order_server")' = RoundsLeft("order_server")
  BY <1>1, MoveFacts DEF IInv, Components
<1>4. /\ ~EngineDeleted /\ teardown \in {Teardown, AfterServer}
      /\ PillIn <=> teardown = AfterServer /\ main_pc = "sleep"
      /\ ~(main_pc = "start" /\ starting = Started)
  BY <1>1, EngineRuns
<1>5. /\ Written > Read /\ Read = Len(served) /\ Len(served) \in Nat /\ Len(published) \in Nat
      /\ Len(served) < Len(published) => slots[next_read] \in Requests
      /\ Len(served) = Len(published) => PillIn /\ slots[next_read] = Shutdown
      /\ Len(served) <= Len(published)
  BY <1>1, FirstUnread DEF IInv, ServedInv
<1>6. slots[next_read] = Shutdown <=> Len(served) = Len(published)
  BY <1>5, RequestFacts DEF IInv, TypeOK
<1>7. TypeOK' /\ MainInv'
  <2>1. next_read' \in Index
    BY <1>2, RingFacts DEF IInv, TypeOK
  <2> QED BY <1>1, <1>3, <2>1 DEF IInv, TypeOK, MainInv, At
<1>8. UNCHANGED <<EngineDeleted, ServerDeleted, PublisherDeleted, PillIn, Written>>
  BY <1>1 DEF EngineDeleted, ServerDeleted, PublisherDeleted, PillIn, Written
<1>9. ThreadInv'
  BY <1>1, <1>2, <1>4, <1>5, <1>6, <1>8 DEF IInv, ThreadInv
<1>10. CountInv' /\ ServedInv'
  BY <1>1, <1>2, <1>5, <1>6, <1>8 DEF IInv, CountInv, ServedInv
<1>11. QueueInv'
  <2>1. CASE slots[next_read] = Shutdown
    <3>1. Read' = Read + 1
      BY <1>1, <1>2, <1>5, <2>1 DEF Read
    <3> QED BY <1>1, <1>2, <1>5, <2>1, <3>1, ReadAdvances
  <2>2. CASE slots[next_read] # Shutdown
    <3>1. Read' = Read /\ next_read' = next_read
      BY <1>1, <1>2, <1>5, <2>2 DEF Read
    <3> QED BY <1>1, <1>8, <3>1 DEF IInv, QueueInv, Ahead, Item
  <2> QED BY <2>1, <2>2
<1>12. SleepInv'
  <2>1. ServerSteps' = ServerSteps
    BY <1>1 DEF ServerSteps, Respond, Unserved
  <2>2. /\ Work("matching_engine") = EngineSteps + market_updates + 3 * Unserved + 2 * resting + 1
        /\ Work("matching_engine")' = EngineSteps' + market_updates + 3 * Unserved + 2 * resting + 1
        /\ Unserved \in Nat /\ Unserved' = Unserved /\ market_updates \in Nat /\ resting \in Nat
        /\ Unserved = Len(published) - Len(served)
    BY <1>1, WorkFacts DEF IInv, Work, Unserved
  <2>3. EngineSteps = 2 * Unserved + 1
    BY <1>1 DEF EngineSteps
  <2>4. ASSUME main_pc = "sleep", teardown = AfterServer
        PROVE  IF engine_pc' = "exited" THEN Publishing' <= RoundsLeft("publisher")'
               ELSE Work("matching_engine")' <= RoundsLeft("matching_engine")'
    <3>1. Work("matching_engine") <= RoundsLeft("matching_engine")
      BY <1>1, <2>4 DEF IInv, SleepInv
    <3>2. CASE slots[next_read] = Shutdown
      <4>1. RoundsLeft("matching_engine") <= sleep /\ sleep \in Nat /\ sleep' = sleep
        BY <1>1 DEF IInv, TypeOK, RoundsLeft
      <4>2. RoundsLeft("publisher")' >= sleep - 1 /\ RoundsLeft("publisher")' \in Int
        BY <4>1 DEF RoundsLeft
      <4>3. Publishing' <= market_updates + 1 /\ Publishing' \in Nat
        BY <1>1, <2>2 DEF Publishing
      <4>4. sleep >= market_updates + 2
        BY <1>3, <2>2, <2>3, <3>1, <4>1
      <4>5. Publishing' <= RoundsLeft("publisher")'
        BY <2>2, <4>1, <4>2, <4>3, <4>4
      <4> QED BY <1>2, <3>2, <4>5
    <3>3. CASE slots[next_read] # Shutdown
      <4>1. EngineSteps' = 2 * Unserved /\ engine_pc' = "process"
        BY <1>1, <1>2, <2>2, <3>3 DEF EngineSteps
      <4>2. Work("matching_engine")' = Work("matching_engine") - 1 /\ Work("matching_engine") \in Int
        BY <2>2, <2>3, <4>1
      <4> QED BY <1>3, <3>1, <4>1, <4>2
    <3> QED BY <3>2, <3>3
  <2> QED BY <1>1, <1>3, <1>4, <2>1, <2>4, StagesDiffer DEF IInv, SleepInv
<1> QED BY <1>7, <1>9, <1>10, <1>11, <1>12 DEF IInv

(* The engine finds nothing; after the pill it always finds something.     *)
LEMMA EngineSpinIInv ==
  ASSUME IInv, ~fatal, EngineSpin, Moves("matching_engine"),
         UNCHANGED <<next_read, client_responses, market_updates, engine, fatal>>,
         UNCHANGED <<slots, next_write, main, sleep, in_time, server, publisher_pc,
                     snapshot_md_updates, synthesizer>>
  PROVE  IInv'
<1>1. /\ engine_pc = "poll" /\ next_read = next_write
      /\ UNCHANGED <<slots, next_write, next_read, client_responses, market_updates, fatal>>
      /\ UNCHANGED <<main_pc, starting, teardown, objects, run, engine_pc>>
      /\ UNCHANGED <<served, server_pc, published, pending, sleep, publisher_pc, synthesizer_pc>>
      /\ UNCHANGED <<resting, in_time, snapshot_md_updates, synthesizer_pc, walk>>
  BY DEF EngineSpin, main, server, engine, synthesizer
<1>2. /\ stepped' \subseteq Components /\ (sleep' = 0 => stepped' = {})
      /\ RoundsLeft("order_server")' = RoundsLeft("order_server")
  BY <1>1, MoveFacts DEF IInv, Components
<1>3. /\ teardown \in {Teardown, AfterServer}
      /\ PillIn <=> teardown = AfterServer /\ main_pc = "sleep"
  BY <1>1, EngineRuns
<1>4. ~PillIn
  BY <1>1, FirstUnread DEF IInv, ServedInv
<1>5. TypeOK' /\ MainInv'
  BY <1>1, <1>2 DEF IInv, TypeOK, MainInv, At
<1>6. ThreadInv' /\ CountInv' /\ ServedInv'
  BY <1>1 DEF IInv, ThreadInv, CountInv, ServedInv, ServerDeleted, EngineDeleted, PublisherDeleted,
              PillIn
<1>7. QueueInv'
  BY <1>1 DEF IInv, QueueInv, Ahead, Written, Read, Item, PillIn, EngineDeleted, ServerDeleted
<1>8. SleepInv'
  <2>1. ServerSteps' = ServerSteps
    BY <1>1 DEF ServerSteps, Respond, Unserved
  <2> QED BY <1>1, <1>2, <1>3, <1>4, <2>1, StagesDiffer DEF IInv, SleepInv
<1> QED BY <1>5, <1>6, <1>7, <1>8 DEF IInv


(* The engine processes a request and gives its slot back.                 *)
LEMMA EngineProcessIInv ==
  ASSUME IInv, ~fatal, EngineProcess, Moves("matching_engine"),
         UNCHANGED <<slots, next_write, main, sleep, in_time, server, publisher_pc,
                     snapshot_md_updates, synthesizer>>
  PROVE  IInv'
<1> DEFINE request == slots[next_read]
<1>1. /\ engine_pc = "process" /\ engine_pc' = "poll"
      /\ served' = Append(served, request) /\ next_read' = (next_read + 1) % Capacity
      /\ fatal' = (client_responses' >= Capacity \/ market_updates' >= Capacity)
      /\ UNCHANGED <<slots, next_write, main_pc, starting, teardown, objects, run>>
      /\ UNCHANGED <<server_pc, published, pending, sleep, publisher_pc, synthesizer_pc>>
      /\ UNCHANGED <<in_time, snapshot_md_updates, synthesizer_pc, walk>>
  BY DEF EngineProcess, main, server, synthesizer
<1>2. /\ stepped' \subseteq Components /\ (sleep' = 0 => stepped' = {})
      /\ RoundsLeft("matching_engine")' >= RoundsLeft("matching_engine") - 1
      /\ RoundsLeft("matching_engine") \in Int /\ RoundsLeft("matching_engine")' \in Int
      /\ RoundsLeft("order_server")' = RoundsLeft("order_server")
      /\ RoundsLeft("order_server") \in Int
  BY <1>1, MoveFacts DEF IInv, Components
<1>3. /\ ~EngineDeleted /\ teardown \in {Teardown, AfterServer}
      /\ ~(main_pc = "start" /\ starting = Started)
  BY <1>1, EngineRuns
<1>4. /\ Written > Read /\ Read = Len(served) /\ Len(served) \in Nat /\ Len(published) \in Nat
      /\ Len(served) < Len(published)
      /\ request = published[Len(served) + 1] /\ request \in Requests
  BY <1>1, FirstUnread DEF IInv, ServedInv
<1>5. /\ client_responses \in Nat /\ market_updates \in Nat /\ resting \in Nat
      /\ client_responses' \in Nat /\ market_updates' \in Nat /\ resting' \in Nat
      /\ client_responses' + 2 * resting' <= client_responses + 3 + 2 * resting
      /\ market_updates' + 2 * resting' <= market_updates + 3 + 2 * resting
  <2>1. client_responses \in Nat /\ market_updates \in Nat /\ resting \in Nat
    BY DEF IInv, TypeOK
  <2>2. PICK done \in processClientRequest(request) :
           /\ resting' = done.does.resting
           /\ client_responses' = client_responses + done.does.sent[1]
           /\ market_updates' = market_updates + done.does.sent[2]
    BY DEF EngineProcess
  <2>3. /\ done.does.resting \in Nat /\ done.does.sent[1] \in Nat /\ done.does.sent[2] \in Nat
        /\ done.does.sent[1] + 2 * done.does.resting <= 3 + 2 * resting
        /\ done.does.sent[2] + 2 * done.does.resting <= 3 + 2 * resting
    BY <1>4, <2>1, RequestFacts
  <2> QED BY <2>1, <2>2, <2>3
<1>6. /\ served' \in Seq(Requests) /\ Len(served') = Len(served) + 1
      /\ \A i \in 1 .. Len(served) : served'[i] = served[i]
      /\ served'[Len(served) + 1] = request
  BY <1>1, <1>4, AppendFacts DEF IInv, TypeOK
<1>7. TypeOK' /\ MainInv'
  <2>1. next_read' \in Index
    BY <1>1, RingFacts DEF IInv, TypeOK
  <2>2. fatal' \in BOOLEAN
    BY <1>1
  <2> QED BY <1>1, <1>2, <1>5, <1>6, <2>1, <2>2 DEF IInv, TypeOK, MainInv, At
<1>8. UNCHANGED <<EngineDeleted, ServerDeleted, PublisherDeleted, PillIn>>
  BY <1>1 DEF EngineDeleted, ServerDeleted, PublisherDeleted, PillIn
<1>9. ThreadInv'
  BY <1>1, <1>3, <1>8 DEF IInv, ThreadInv
<1>10. CountInv'
  BY <1>1, <1>3, <1>8 DEF IInv, CountInv
<1>11. ServedInv'
  <2>1. \A i \in 1 .. Len(served') : served'[i] = published[i]
    <3>1. \A i \in 1 .. Len(served') : i \in 1 .. Len(served) \/ i = Len(served) + 1
      BY <1>4, <1>6
    <3> QED BY <1>4, <1>6, <3>1 DEF IInv, ServedInv
  <2> QED BY <1>1, <1>4, <1>6, <2>1 DEF ServedInv
<1>12. QueueInv'
  <2>1. Read' = Read + 1
    BY <1>1, <1>4, <1>6 DEF Read
  <2> QED BY <1>1, <1>4, <2>1, ReadAdvances
<1>13. SleepInv'
  <2>1. /\ MaxRequests \in Nat /\ Len(pending) \in Nat /\ Len(pending') = Len(pending)
        /\ Unserved \in Nat
    BY <1>1, WorkFacts DEF IInv
  <2>2. Unserved' = Unserved - 1 /\ Unserved' \in Nat
    BY <1>1, <1>4, <1>6 DEF Unserved
  <2> DEFINE Before(u) == client_responses + 3 * u + 2 * resting + 2
             After(u) == client_responses' + 3 * (u - 1) + 2 * resting' + 2
  <2>3. \A u \in Int : After(u) <= Before(u) /\ After(u) \in Int /\ Before(u) \in Int
    BY <1>5, Progress, Zenon
  <2>4. /\ Unserved \in Int /\ Unserved + Len(pending) \in Int /\ MaxRequests - Len(served) \in Int
        /\ MaxRequests - Len(published) \in Int
        /\ Unserved' + Len(pending) = Unserved + Len(pending) - 1
        /\ MaxRequests - Len(served') = MaxRequests - Len(served) - 1
    <3>1. Unserved + Len(pending) \in Int /\ Unserved' + Len(pending) = Unserved + Len(pending) - 1
      BY <2>1, <2>2
    <3>2. /\ MaxRequests - Len(served) \in Int /\ MaxRequests - Len(published) \in Int
          /\ MaxRequests - Len(served') = MaxRequests - Len(served) - 1
      BY <1>4, <1>6, <2>1
    <3> QED BY <2>1, <3>1, <3>2
  <2>5. ServerSteps' <= ServerSteps /\ ServerSteps \in Int /\ ServerSteps' \in Int
    <3>1. CASE server_pc = "poll"
      <4> DEFINE u == MaxRequests - Len(served)
      <4>1. /\ ServerSteps = 2 * (MaxRequests - Len(published)) + 1 + Before(u)
            /\ ServerSteps' = 2 * (MaxRequests - Len(published)) + 1 + After(u)
        BY <1>1, <2>4, <3>1 DEF ServerSteps, Respond
      <4>2. After(u) <= Before(u) /\ After(u) \in Int /\ Before(u) \in Int
        BY <2>3, <2>4
      <4> HIDE DEF Before, After
      <4> QED BY <2>4, <4>1, <4>2
    <3>2. CASE server_pc \in {"write", "publish"}
      <4> DEFINE u == Unserved + Len(pending)
      <4>1. \/ ServerSteps = 2 * Len(pending) + Before(u) /\ ServerSteps' = 2 * Len(pending) + After(u)
            \/ /\ ServerSteps = 2 * Len(pending) - 1 + Before(u)
               /\ ServerSteps' = 2 * Len(pending) - 1 + After(u)
        <5>1. CASE server_pc = "write"
          BY <1>1, <2>1, <2>4, <5>1 DEF ServerSteps, Respond
        <5>2. CASE server_pc = "publish"
          BY <1>1, <2>1, <2>4, <5>2 DEF ServerSteps, Respond
        <5> QED BY <3>2, <5>1, <5>2
      <4>2. After(u) <= Before(u) /\ After(u) \in Int /\ Before(u) \in Int
        BY <2>3, <2>4
      <4> HIDE DEF Before, After
      <4> QED BY <2>1, <4>1, <4>2
    <3>3. CASE server_pc = "respond"
      <4>1. ServerSteps = Before(Unserved) /\ ServerSteps' = After(Unserved)
        BY <1>1, <2>2, <3>3 DEF ServerSteps, Respond
      <4> QED BY <2>3, <2>4, <4>1
    <3>4. CASE server_pc \notin {"poll", "write", "publish", "respond"}
      <4>1. ServerSteps = 1 /\ ServerSteps' = 1
        BY <1>1, <3>4 DEF ServerSteps
      <4> QED BY <4>1
    <3> QED BY <3>1, <3>2, <3>3, <3>4
  <2>6. /\ Work("matching_engine")' <= Work("matching_engine") - 1
        /\ Work("matching_engine") \in Int /\ Work("matching_engine")' \in Int
    <3>1. EngineSteps = 2 * Unserved /\ EngineSteps' = 2 * (Unserved - 1) + 1
      BY <1>1, <2>1, <2>2 DEF EngineSteps
    <3> DEFINE before == 2 * Unserved + market_updates + 3 * Unserved + 2 * resting + 1
               after == (2 * (Unserved - 1) + 1) + market_updates' + 3 * (Unserved - 1) + 2 * resting' + 1
    <3>2. Work("matching_engine") = before /\ Work("matching_engine")' = after
      BY <2>2, <3>1 DEF Work
    <3>3. after <= before - 1 /\ after \in Int /\ before \in Int
      BY <1>5, <2>4, Progress, Zenon
    <3> HIDE DEF before, after
    <3> QED BY <3>2, <3>3
  <2>7. main_pc = "sleep" /\ teardown = AfterServer =>
           Work("matching_engine")' <= RoundsLeft("matching_engine")'
    BY <1>1, <1>2, <2>6 DEF IInv, SleepInv
  <2>8. main_pc = "sleep" /\ teardown = Teardown /\ server_pc # "exited" =>
           ServerSteps' <= RoundsLeft("order_server")'
    BY <1>2, <2>5 DEF IInv, SleepInv
  <2> QED BY <1>1, <1>2, <1>3, <2>7, <2>8, StagesDiffer DEF IInv, SleepInv
<1> QED BY <1>7, <1>9, <1>10, <1>11, <1>12, <1>13 DEF IInv

(* The publisher sends an update, or looks at its flag.                    *)
LEMMA PublisherIInv == ASSUME IInv, ~fatal, Publisher PROVE IInv'
<1>1. /\ Moves("publisher")
      /\ UNCHANGED <<slots, next_write, next_read, client_responses, engine_pc>>
      /\ UNCHANGED <<main_pc, starting, teardown, objects, run>>
      /\ UNCHANGED <<served, server_pc, published, pending, sleep>>
      /\ UNCHANGED <<resting, in_time, synthesizer_pc, walk>>
  BY DEF Publisher, queue, engine, main, server, synthesizer
<1>2. /\ publisher_pc \in {"check", "drain"}
      /\ publisher_pc = "check" => /\ publisher_pc' = IF "publisher" \in run THEN "drain" ELSE "exited"
                                   /\ market_updates' = market_updates
      /\ publisher_pc = "drain" =>
            \/ market_updates > 0 /\ market_updates' = market_updates - 1 /\ publisher_pc' = "drain"
            \/ market_updates = 0 /\ publisher_pc' = "check" /\ market_updates' = market_updates
  BY DEF Publisher
<1>3. /\ stepped' \subseteq Components /\ (sleep' = 0 => stepped' = {})
      /\ RoundsLeft("publisher")' >= RoundsLeft("publisher") - 1
      /\ RoundsLeft("publisher") \in Int /\ RoundsLeft("publisher")' \in Nat
      /\ RoundsLeft("order_server")' = RoundsLeft("order_server")
      /\ RoundsLeft("matching_engine")' = RoundsLeft("matching_engine")
      /\ RoundsLeft("matching_engine") \in Int
      /\ RoundsLeft("synthesizer")' = RoundsLeft("synthesizer")
  BY <1>1, MoveFacts DEF IInv, Components
<1>4. UNCHANGED <<EngineDeleted, ServerDeleted, PublisherDeleted, PillIn>>
  BY <1>1 DEF EngineDeleted, ServerDeleted, PublisherDeleted, PillIn
<1>5. /\ market_updates \in Nat /\ market_updates' \in Nat /\ market_updates' <= market_updates
      /\ snapshot_md_updates' \in Nat /\ fatal' \in BOOLEAN
  <2>1. market_updates \in Nat /\ snapshot_md_updates \in Nat /\ fatal \in BOOLEAN
    BY DEF IInv, TypeOK
  <2>2. market_updates' \in Nat /\ market_updates' <= market_updates
    BY <1>2, <2>1
  <2>3. \/ UNCHANGED <<snapshot_md_updates, fatal>>
        \/ /\ snapshot_md_updates' = snapshot_md_updates + 1
           /\ fatal' = (snapshot_md_updates' >= Capacity)
    BY DEF Publisher
  <2>4. fatal' \in BOOLEAN
    <3>1. CASE fatal' = fatal
      BY <2>1, <3>1
    <3>2. CASE fatal' = (snapshot_md_updates' >= Capacity)
      BY <3>2
    <3> QED BY <2>3, <3>1, <3>2
  <2> QED BY <2>1, <2>2, <2>3, <2>4
<1>6. main_pc \notin {"start", "exited"} /\ ~(PublisherDeleted /\ in_time)
  BY <1>2 DEF IInv, ThreadInv
<1>7. "publisher" \notin run => run = {}
  BY <1>6 DEF IInv, MainInv, At, Components
<1>8. TypeOK' /\ MainInv'
  BY <1>1, <1>3, <1>5 DEF IInv, TypeOK, MainInv, At
<1>9. ThreadInv'
  BY <1>1, <1>2, <1>4, <1>6, <1>7 DEF IInv, ThreadInv
<1>10. CountInv' /\ ServedInv'
  BY <1>1, <1>4, <1>5 DEF IInv, CountInv, ServedInv
<1>11. QueueInv'
  BY <1>1, <1>4 DEF IInv, QueueInv, Ahead, Written, Read, Item
<1>12. SleepInv'
  <2>1. ServerSteps' = ServerSteps /\ SynthesizerSteps' = SynthesizerSteps
    BY <1>1 DEF ServerSteps, SynthesizerSteps, Respond, Unserved
  <2>2. ASSUME main_pc = "sleep", teardown = AfterServer, engine_pc = "exited"
        PROVE  Publishing' <= RoundsLeft("publisher")'
    <3>1. Publishing <= RoundsLeft("publisher")
      BY <2>2 DEF IInv, SleepInv
    <3>2. "publisher" \in run
      BY <2>2, StagesDiffer DEF IInv, MainInv, At
    <3>3. CASE publisher_pc = "check" /\ market_updates > 0
      <4>1. Publishing = market_updates + 1
        BY <3>3 DEF Publishing
      <4>2. Publishing' = market_updates
        BY <1>2, <3>2, <3>3 DEF Publishing
      <4> QED BY <1>3, <1>5, <3>1, <4>1, <4>2
    <3>4. CASE publisher_pc = "drain" /\ market_updates > 0
      <4>1. Publishing = market_updates
        BY <3>4 DEF Publishing
      <4>2. Publishing' = market_updates - 1
        BY <1>2, <3>4 DEF Publishing
      <4> QED BY <1>3, <1>5, <3>1, <4>1, <4>2
    <3>5. CASE market_updates = 0
      <4>1. market_updates' = 0
        BY <1>5, <3>5
      <4>2. Publishing' = 0
        BY <4>1 DEF Publishing
      <4> QED BY <1>3, <4>2
    <3> QED BY <1>2, <1>5, <3>3, <3>4, <3>5
  <2>3. ASSUME main_pc = "sleep", teardown = AfterServer, engine_pc # "exited"
        PROVE  Work("matching_engine")' <= RoundsLeft("matching_engine")'
    <3>1. /\ Work("matching_engine") = EngineSteps + market_updates + 3 * Unserved + 2 * resting + 1
          /\ EngineSteps \in Nat /\ Unserved \in Nat /\ resting \in Nat
      BY WorkFacts DEF IInv
    <3>2. Work("matching_engine")' = EngineSteps + market_updates' + 3 * Unserved + 2 * resting + 1
      BY <1>1 DEF Work, EngineSteps, Unserved
    <3>3. Work("matching_engine") <= RoundsLeft("matching_engine")
      BY <2>3 DEF IInv, SleepInv
    <3> QED BY <1>3, <1>5, <3>1, <3>2, <3>3
  <2>4. ASSUME main_pc = "sleep", teardown = AfterEngine, publisher_pc' # "exited"
        PROVE  PublisherSteps' <= RoundsLeft("publisher")'
    <3>1. "publisher" \notin run
      BY <2>4, StagesDiffer DEF IInv, MainInv, At
    <3>2. PublisherSteps <= RoundsLeft("publisher")
      BY <1>2, <2>4 DEF IInv, SleepInv
    <3>3. publisher_pc = "drain" /\ PublisherSteps = market_updates + 2
      BY <1>2, <2>4, <3>1 DEF PublisherSteps
    <3>4. CASE market_updates > 0
      BY <1>2, <1>3, <1>5, <3>2, <3>3, <3>4 DEF PublisherSteps
    <3>5. CASE market_updates = 0
      <4>1. publisher_pc' = "check"
        BY <1>2, <3>3, <3>5
      <4>2. PublisherSteps' = 1
        BY <4>1 DEF PublisherSteps
      <4> QED BY <1>3, <3>2, <3>3, <3>5, <4>2
    <3> QED BY <1>5, <3>4, <3>5
  <2> QED BY <1>1, <1>3, <2>1, <2>2, <2>3, <2>4 DEF IInv, SleepInv
<1> QED BY <1>8, <1>9, <1>10, <1>11, <1>12 DEF IInv

(* The synthesizer looks at its flag, takes an update, or sends on with    *)
(* its snapshot.                                                           *)
LEMMA SynthesizerIInv == ASSUME IInv, Synthesizer PROVE IInv'
<1>1. /\ Moves("synthesizer")
      /\ UNCHANGED <<slots, next_write, next_read, client_responses, market_updates, fatal>>
      /\ UNCHANGED <<main_pc, starting, teardown, objects, run, engine_pc>>
      /\ UNCHANGED <<served, server_pc, published, pending, sleep, publisher_pc, resting, in_time>>
  BY DEF Synthesizer, queue, engine, main, server
<1>2. walk \in Nat /\ snapshot_md_updates \in Nat /\ SnapshotWalk \in Nat \ {0}
  BY WalkAssumption DEF IInv, TypeOK
<1>3. /\ synthesizer_pc \in {"check", "turn", "snapshot"}
      /\ synthesizer_pc = "check" => /\ synthesizer_pc' = IF "synthesizer" \in run THEN "turn" ELSE "exited"
                                     /\ walk' = walk
      /\ synthesizer_pc = "turn" => \/ synthesizer_pc' = "check" /\ walk' = walk
                                    \/ synthesizer_pc' = "snapshot" /\ walk' = SnapshotWalk
      /\ synthesizer_pc = "snapshot" =>
            walk' = walk - 1 /\ synthesizer_pc' = IF walk = 1 THEN "check" ELSE "snapshot"
  BY DEF Synthesizer, SynthesizerLoop, SynthesizerTurn, publishSnapshot
<1>4. snapshot_md_updates' \in Nat
  <2>1. \/ snapshot_md_updates' = snapshot_md_updates
        \/ snapshot_md_updates' = IF snapshot_md_updates > 0 THEN snapshot_md_updates - 1 ELSE 0
    BY DEF Synthesizer, SynthesizerLoop, SynthesizerTurn, publishSnapshot
  <2> QED BY <1>2, <2>1
<1>5. synthesizer_pc = "snapshot" => walk > 0
  BY DEF IInv, ThreadInv
<1>6. walk' \in Nat /\ (synthesizer_pc' = "snapshot" => walk' > 0)
  BY <1>2, <1>3, <1>5
<1>7. /\ stepped' \subseteq Components /\ (sleep' = 0 => stepped' = {})
      /\ RoundsLeft("order_server")' = RoundsLeft("order_server")
      /\ RoundsLeft("matching_engine")' = RoundsLeft("matching_engine")
      /\ RoundsLeft("publisher")' = RoundsLeft("publisher")
      /\ RoundsLeft("synthesizer")' >= RoundsLeft("synthesizer") - 1
      /\ RoundsLeft("synthesizer") \in Int /\ RoundsLeft("synthesizer")' \in Int
  BY <1>1, MoveFacts DEF IInv, Components
<1>8. UNCHANGED <<EngineDeleted, ServerDeleted, PublisherDeleted, PillIn>>
  BY <1>1 DEF EngineDeleted, ServerDeleted, PublisherDeleted, PillIn
<1>9. main_pc \notin {"start", "exited"}
  BY <1>3 DEF IInv, ThreadInv
<1>10. "synthesizer" \notin run => run = {}
  BY <1>9 DEF IInv, MainInv, At, Components
<1>11. TypeOK' /\ MainInv'
  BY <1>1, <1>4, <1>6, <1>7 DEF IInv, TypeOK, MainInv, At
<1>12. ThreadInv'
  BY <1>1, <1>3, <1>6, <1>8, <1>9, <1>10 DEF IInv, ThreadInv
<1>13. CountInv' /\ ServedInv'
  BY <1>1, <1>8 DEF IInv, CountInv, ServedInv
<1>14. QueueInv'
  BY <1>1, <1>8 DEF IInv, QueueInv, Ahead, Written, Read, Item
<1>15. SleepInv'
  <2>1. UNCHANGED <<ServerSteps, PublisherSteps, Publishing, Work("matching_engine")>>
    BY <1>1 DEF ServerSteps, EngineSteps, PublisherSteps, Publishing, Work, Respond, Unserved
  <2>2. ASSUME main_pc = "sleep", teardown = AfterPublisher, synthesizer_pc' # "exited"
        PROVE  SynthesizerSteps' <= RoundsLeft("synthesizer")'
    <3>1. "synthesizer" \notin run
      BY <2>2, StagesDiffer DEF IInv, MainInv, At
    <3>2. SynthesizerSteps <= RoundsLeft("synthesizer")
      BY <1>3, <2>2 DEF IInv, SleepInv
    <3>3. CASE synthesizer_pc = "turn"
      <4>1. SynthesizerSteps = SnapshotWalk + 2
        BY <3>3 DEF SynthesizerSteps
      <4>2. SynthesizerSteps' = 1 \/ SynthesizerSteps' = SnapshotWalk + 1
        BY <1>3, <3>3 DEF SynthesizerSteps
      <4> QED BY <1>2, <1>7, <3>2, <4>1, <4>2
    <3>4. CASE synthesizer_pc = "snapshot"
      <4>1. SynthesizerSteps = walk + 1
        BY <3>4 DEF SynthesizerSteps
      <4>2. SynthesizerSteps' = walk
        BY <1>2, <1>3, <3>4 DEF SynthesizerSteps
      <4> QED BY <1>2, <1>7, <3>2, <4>1, <4>2
    <3> QED BY <1>3, <2>2, <3>1, <3>3, <3>4
  <2> QED BY <1>1, <1>7, <2>1, <2>2 DEF IInv, SleepInv
<1> QED BY <1>11, <1>12, <1>13, <1>14, <1>15 DEF IInv


(* main starts the components one after the other.                         *)
LEMMA StartIInv == ASSUME IInv, Start PROVE IInv'
<1>1. /\ main_pc = "start"
      /\ UNCHANGED <<slots, next_write, next_read, client_responses, market_updates, fatal>>
      /\ UNCHANGED <<served, published, pending, teardown, sleep, stepped>>
      /\ UNCHANGED <<resting, in_time, snapshot_md_updates, walk>>
  BY DEF Start, queue, second
<1>2. teardown = Teardown /\ sleep = 0
  BY <1>1 DEF IInv, MainInv, At, SleepInv
<1>3. /\ ~EngineDeleted /\ ~ServerDeleted /\ ~PublisherDeleted /\ ~PillIn
      /\ ~EngineDeleted' /\ ~ServerDeleted' /\ ~PublisherDeleted' /\ ~PillIn'
  BY <1>1, <1>2, StagesDiffer DEF EngineDeleted, ServerDeleted, PublisherDeleted, PillIn
<1>4. /\ main_pc' = IF Len(starting) = 1 THEN "idle" ELSE "start"
      /\ starting' = Tail(starting)
  BY DEF Start
<1>5. /\ MainInv' /\ ThreadInv' /\ main_pc' \in {"start", "idle"}
      /\ engine_pc' \in {"poll", engine_pc} /\ engine_pc \in {"none", "poll", "process"}
      /\ server_pc' \in {"check", server_pc}
  <2>1. CASE starting = Started
    <3>1. objects = {} /\ run = {}
      BY <1>1, <2>1, StagesDiffer DEF IInv, MainInv, At
    <3>2. /\ engine_pc = "none" /\ server_pc = "none" /\ publisher_pc = "none"
          /\ synthesizer_pc = "none"
      BY <1>1, <2>1, StagesDiffer DEF IInv, ThreadInv
    <3>3. /\ objects' = {"matching_engine"} /\ run' = {"matching_engine"} /\ engine_pc' = "poll"
          /\ UNCHANGED <<server_pc, publisher_pc, synthesizer_pc>>
      BY <2>1, <3>1, Stages DEF Start
    <3>4. main_pc' = "start" /\ starting' = <<"order_server", "publisher">>
      BY <1>4, <2>1, Stages
    <3>5. MainInv'
      BY <1>1, <1>2, <3>3, <3>4 DEF MainInv, At
    <3>6. ThreadInv'
      BY <1>3, <3>2, <3>3, <3>4, StagesDiffer DEF ThreadInv
    <3> QED BY <3>2, <3>3, <3>4, <3>5, <3>6
  <2>2. CASE starting = <<"order_server", "publisher">>
    <3>1. objects = {"matching_engine"} /\ run = {"matching_engine"}
      BY <1>1, <2>2, StagesDiffer DEF IInv, MainInv, At
    <3>2. /\ engine_pc \in {"poll", "process"} /\ server_pc = "none" /\ publisher_pc = "none"
          /\ synthesizer_pc = "none"
      BY <1>1, <1>3, <2>2, StagesDiffer DEF IInv, ThreadInv
    <3>3. /\ objects' = {"matching_engine", "order_server"}
          /\ run' = {"matching_engine", "order_server"} /\ server_pc' = "check"
          /\ UNCHANGED <<engine_pc, publisher_pc, synthesizer_pc>>
      BY <2>2, <3>1, Stages DEF Start
    <3>4. main_pc' = "start" /\ starting' = <<"publisher">>
      BY <1>4, <2>2, Stages
    <3>5. MainInv'
      BY <1>1, <1>2, <3>3, <3>4 DEF MainInv, At
    <3>6. ThreadInv'
      BY <1>3, <3>2, <3>3, <3>4, StagesDiffer DEF ThreadInv
    <3> QED BY <3>2, <3>3, <3>4, <3>5, <3>6
  <2>3. CASE starting = <<"publisher">>
    <3>1. objects = {"matching_engine", "order_server"} /\ run = {"matching_engine", "order_server"}
      BY <1>1, <2>3, StagesDiffer DEF IInv, MainInv, At
    <3>2. /\ engine_pc \in {"poll", "process"}
          /\ server_pc \in {"check", "poll", "write", "publish", "respond"}
      BY <1>1, <1>3, <2>3, StagesDiffer DEF IInv, ThreadInv
    <3>3. /\ objects' = objects \cup {"publisher", "synthesizer"}
          /\ run' = run \cup {"publisher", "synthesizer"}
          /\ publisher_pc' = "check" /\ synthesizer_pc' = "check"
          /\ UNCHANGED <<engine_pc, server_pc>>
      BY <2>3, Stages DEF Start
    <3>4. main_pc' = "idle" /\ starting' = <<>>
      BY <1>4, <2>3, Stages
    <3>5. objects' = Components /\ run' = Components
      BY <3>1, <3>3 DEF Components
    <3>6. MainInv'
      BY <1>1, <1>2, <3>4, <3>5 DEF MainInv, At
    <3>7. ThreadInv'
      BY <1>3, <3>2, <3>3, <3>4 DEF ThreadInv
    <3> QED BY <3>2, <3>3, <3>4, <3>6, <3>7
  <2> QED BY <1>1, <2>1, <2>2, <2>3 DEF IInv, MainInv, At
<1>6. TypeOK'
  BY <1>1 DEF IInv, TypeOK
<1>7. CountInv' /\ ServedInv'
  BY <1>1, <1>3, <1>5 DEF IInv, CountInv, ServedInv
<1>8. QueueInv'
  BY <1>1, <1>3, <1>5 DEF IInv, QueueInv, Ahead, Written, Read, Item
<1>9. SleepInv'
  BY <1>1, <1>2, <1>5 DEF IInv, SleepInv
<1> QED BY <1>5, <1>6, <1>7, <1>8, <1>9 DEF IInv

(* main notices the flag.                                                  *)
LEMMA IdleIInv == ASSUME IInv, Idle PROVE IInv'
<1>1. /\ main_pc = "idle" /\ main_pc' = "delete"
      /\ UNCHANGED <<slots, next_write, next_read, client_responses, market_updates, fatal>>
      /\ UNCHANGED <<starting, teardown, objects, run, sleep, stepped>>
      /\ UNCHANGED <<engine_pc, served, server_pc, published, pending, publisher_pc, synthesizer_pc>>
      /\ UNCHANGED <<resting, in_time, snapshot_md_updates, synthesizer_pc, walk>>
  BY DEF Idle, queue, engine, server, synthesizer, second
<1>2. teardown = Teardown /\ starting = <<>> /\ objects = Components /\ run = Components
  BY <1>1 DEF IInv, MainInv, At
<1>3. /\ ~EngineDeleted /\ ~ServerDeleted /\ ~PublisherDeleted /\ ~PillIn
      /\ ~EngineDeleted' /\ ~ServerDeleted' /\ ~PublisherDeleted' /\ ~PillIn'
  BY <1>1, <1>2, StagesDiffer DEF EngineDeleted, ServerDeleted, PublisherDeleted, PillIn
<1>4. TypeOK' /\ MainInv'
  BY <1>1, <1>2 DEF IInv, TypeOK, MainInv, At
<1>5. ThreadInv' /\ CountInv' /\ ServedInv'
  BY <1>1, <1>3 DEF IInv, ThreadInv, CountInv, ServedInv
<1>6. QueueInv'
  BY <1>1, <1>3 DEF IInv, QueueInv, Ahead, Written, Read, Item
<1>7. SleepInv'
  BY <1>1 DEF IInv, SleepInv
<1> QED BY <1>4, <1>5, <1>6, <1>7 DEF IInv

(* main tells a component to stop.  To the engine it writes the pill, into *)
(* a slot that nobody uses: the order server is gone.                      *)
LEMMA StopIInv == ASSUME IInv, ~fatal, Stop PROVE IInv'
<1>1. /\ main_pc = "delete"
      /\ UNCHANGED <<next_write, next_read, client_responses, market_updates, fatal>>
      /\ UNCHANGED <<starting, teardown, objects, stepped>>
      /\ UNCHANGED <<engine_pc, served, server_pc, published, pending, publisher_pc, synthesizer_pc>>
      /\ UNCHANGED <<resting, in_time, snapshot_md_updates, synthesizer_pc, walk>>
  BY DEF Stop, engine, server, synthesizer
<1>2. sleep = 0 /\ stepped = {} /\ starting = <<>>
  BY <1>1 DEF IInv, MainInv, At, SleepInv
<1>3. UNCHANGED <<EngineDeleted, ServerDeleted, PublisherDeleted>>
  BY <1>1 DEF EngineDeleted, ServerDeleted, PublisherDeleted
<1>4. CountInv' /\ ServedInv'
  BY <1>1, <1>3 DEF IInv, CountInv, ServedInv
<1>5. /\ UNCHANGED <<ServerSteps, PublisherSteps, SynthesizerSteps>>
      /\ ServerSteps \in Nat \ {0} /\ PublisherSteps \in Nat \ {0} /\ SynthesizerSteps \in Nat \ {0}
  <2>1. UNCHANGED <<ServerSteps, PublisherSteps, SynthesizerSteps>>
    BY <1>1 DEF ServerSteps, PublisherSteps, SynthesizerSteps, Respond, Unserved
  <2> QED BY <2>1, WorkFacts DEF IInv
<1>6. \A d : RoundsLeft(d)' = sleep'
  BY <1>1, <1>2 DEF RoundsLeft
<1>7. CASE teardown = Teardown
  <2>1. /\ main_pc' = "sleep" /\ sleep' = ServerSteps /\ slots' = slots
        /\ run' = run \ {"order_server"} /\ run = Components /\ objects = Components
    BY <1>1, <1>7, Stages, StagesDiffer DEF Stop, Work, IInv, MainInv, At
  <2>2. ~EngineDeleted /\ ~ServerDeleted /\ ~PublisherDeleted /\ ~PillIn /\ ~PillIn'
    BY <1>1, <1>7, <2>1, StagesDiffer DEF EngineDeleted, ServerDeleted, PublisherDeleted, PillIn
  <2>3. TypeOK' /\ MainInv'
    BY <1>1, <1>2, <1>5, <1>7, <2>1 DEF IInv, TypeOK, MainInv, At
  <2>4. ThreadInv'
    BY <1>1, <1>3, <2>1, <2>2 DEF IInv, ThreadInv
  <2>5. QueueInv'
    BY <1>1, <2>1, <2>2 DEF IInv, QueueInv, Ahead, Written, Read, Item
  <2>7. SleepInv'
    BY <1>1, <1>2, <1>5, <1>6, <1>7, <2>1, StagesDiffer DEF SleepInv
  <2> QED BY <1>4, <2>3, <2>4, <2>5, <2>7 DEF IInv
<1>8. CASE teardown = AfterServer
  <2>1. /\ main_pc' = "pill" /\ slots' = [slots EXCEPT ![next_write] = Shutdown] /\ sleep' = sleep
        /\ run' = run \ {"matching_engine"} /\ run = Components \ {"order_server"}
        /\ objects = Components \ {"order_server"}
    BY <1>1, <1>8, Stages, StagesDiffer DEF Stop, WriteSlot, IInv, MainInv, At
  <2>2. ~EngineDeleted /\ ServerDeleted /\ ~PublisherDeleted /\ ~PillIn /\ ~PillIn'
    BY <1>1, <1>8, <2>1, StagesDiffer DEF EngineDeleted, ServerDeleted, PublisherDeleted, PillIn
  <2>3. run' = {"publisher", "synthesizer"}
    BY <2>1 DEF Components
  <2>4. TypeOK'
    BY <1>1, <2>1 DEF IInv, TypeOK
  <2>5. MainInv'
    BY <1>1, <1>2, <1>8, <2>1, <2>3 DEF MainInv, At
  <2>6. ThreadInv'
    BY <1>1, <1>3, <2>1, <2>2 DEF IInv, ThreadInv
  <2>7. QueueInv'
    <3> SUFFICES ASSUME ~fatal' PROVE QueueInv'
      BY DEF QueueInv
    <3>1. Written' = Written /\ Read' = Read /\ \A j : Ahead(j)' = Ahead(j) /\ Item(j)' = Item(j)
      BY <1>1, <2>2 DEF Written, Read, Ahead, Item
    <3>2. Written - Read \in Index /\ next_write = Ahead(Written - Read)
      BY DEF IInv, QueueInv, Index
    <3>3. /\ Written \in Nat /\ Read \in Nat /\ next_read \in Index /\ next_write \in Index
          /\ slots \in [Index -> Requests \cup {Shutdown, Blank}]
      BY DEF Written, Read, IInv, TypeOK
    <3>4. \A j \in 0 .. Written - Read - 1 : Ahead(j) \in Index /\ Ahead(j) # next_write
      <4>1. \A j \in 0 .. Written - Read - 1 : j \in Index /\ j # Written - Read
        BY <3>2, <3>3, EngineAssumption DEF Index
      <4>2. \A i \in Index : Ahead(i) \in Index
        BY <3>3, RingFacts DEF Ahead
      <4>3. \A i, j \in Index : Ahead(i) = Ahead(j) => i = j
        BY <3>3, RingFacts DEF Ahead
      <4> QED BY <3>2, <4>1, <4>2, <4>3
    <3>5. \A j \in 0 .. Written - Read - 1 : slots'[Ahead(j)] = Item(Read + j)
      BY <2>1, <3>3, <3>4 DEF IInv, QueueInv
    <3>6. slots'[next_write] = Shutdown /\ server_pc # "publish"
      BY <2>1, <2>2, <3>3, <1>2, <1>1 DEF IInv, ThreadInv
    <3> QED BY <1>1, <3>1, <3>2, <3>5, <3>6 DEF QueueInv, Index
  <2>8. SleepInv'
    BY <1>1, <1>2, <2>1 DEF SleepInv
  <2> QED BY <1>4, <2>4, <2>5, <2>6, <2>7, <2>8 DEF IInv
<1>9. CASE teardown \in {AfterEngine, AfterPublisher}
  <2>1. EngineDeleted /\ ServerDeleted /\ PillIn /\ PillIn'
    BY <1>1, <1>9, StagesDiffer DEF EngineDeleted, ServerDeleted, PillIn
  <2>2. /\ main_pc' = "sleep" /\ slots' = slots
        /\ sleep' = IF teardown = AfterEngine THEN PublisherSteps ELSE SynthesizerSteps
        /\ run' = {} /\ objects = {"publisher", "synthesizer"}
    <3>1. CASE teardown = AfterEngine
      BY <1>1, <3>1, Stages, StagesDiffer DEF Stop, Work, IInv, MainInv, At
    <3>2. CASE teardown = AfterPublisher
      BY <1>1, <3>2, Stages, StagesDiffer DEF Stop, Work, IInv, MainInv, At
    <3> QED BY <1>9, <3>1, <3>2
  <2>3. TypeOK' /\ MainInv'
    BY <1>1, <1>2, <1>5, <1>9, <2>2 DEF IInv, TypeOK, MainInv, At
  <2>4. ThreadInv'
    BY <1>1, <1>2, <1>3, <2>1, <2>2 DEF IInv, ThreadInv
  <2>5. QueueInv'
    BY <1>1, <2>1, <2>2 DEF IInv, QueueInv, Ahead, Written, Read, Item
  <2>6. SleepInv'
    BY <1>1, <1>2, <1>5, <1>6, <1>9, <2>2, StagesDiffer DEF SleepInv
  <2> QED BY <1>4, <2>3, <2>4, <2>5, <2>6 DEF IInv
<1> QED BY <1>1, <1>7, <1>8, <1>9 DEF IInv, MainInv, At


(* main hands the pill over, or the queue is full.                         *)
LEMMA PillIInv == ASSUME IInv, ~fatal, Pill PROVE IInv'
<1> DEFINE next == (next_write + 1) % Capacity
           n == Written - Read
<1>1. /\ main_pc = "pill" /\ main_pc' = "sleep" /\ sleep' = Work("matching_engine")
      /\ UNCHANGED <<slots, next_read, client_responses, market_updates>>
      /\ UNCHANGED <<starting, teardown, objects, run, stepped>>
      /\ UNCHANGED <<engine_pc, served, server_pc, published, pending, publisher_pc, synthesizer_pc>>
      /\ UNCHANGED <<resting, in_time, snapshot_md_updates, synthesizer_pc, walk>>
  BY DEF Pill, engine, server, synthesizer
<1>2. IF next = next_read THEN fatal' = TRUE /\ UNCHANGED next_write
      ELSE next_write' = next /\ UNCHANGED fatal
  BY DEF Pill, updateWriteIndex
<1>3. /\ teardown = AfterServer /\ starting = <<>> /\ objects = Components \ {"order_server"}
      /\ run = {"publisher", "synthesizer"} /\ stepped = {}
  BY <1>1 DEF IInv, MainInv, At, SleepInv
<1>4. /\ ~EngineDeleted /\ ServerDeleted /\ ~PublisherDeleted /\ ~PillIn
      /\ ~EngineDeleted' /\ ServerDeleted' /\ ~PublisherDeleted' /\ PillIn'
  BY <1>1, <1>3, StagesDiffer DEF EngineDeleted, ServerDeleted, PublisherDeleted, PillIn
<1>5. engine_pc \in {"poll", "process"} /\ server_pc = "exited"
  BY <1>1, <1>4 DEF IInv, ThreadInv
<1>6. /\ Work("matching_engine") \in Nat \ {0}
      /\ Len(served) \in Nat /\ Len(published) \in Nat
      /\ next_write \in Index /\ next_read \in Index
  BY WorkFacts DEF IInv, TypeOK
<1>7. TypeOK' /\ MainInv'
  <2>1. next_write' \in Index /\ fatal' \in BOOLEAN
    BY <1>2, <1>6, RingFacts DEF IInv, TypeOK
  <2> QED BY <1>1, <1>3, <1>6, <2>1 DEF IInv, TypeOK, MainInv, At
<1>8. ThreadInv' /\ CountInv' /\ ServedInv'
  BY <1>1, <1>4, <1>5 DEF IInv, ThreadInv, CountInv, ServedInv
<1>9. QueueInv'
  <2> SUFFICES ASSUME ~fatal' PROVE QueueInv'
    BY DEF QueueInv
  <2>1. next # next_read /\ next_write' = next
    BY <1>2
  <2>2. Written = Len(published) /\ Written' = Len(published) + 1
    BY <1>1, <1>4 DEF Written
  <2>3. Read = Len(served) /\ Read' = Len(served)
    BY <1>1, <1>5 DEF Read
  <2>4. n \in Index /\ next_write = Around(next_read, n) /\ n \in Int
    BY <1>6, <2>2, <2>3 DEF IInv, QueueInv, Index, Ahead
  <2>5. n # Capacity - 1
    BY <1>6, <2>1, <2>4, RingFacts
  <2>6. n + 1 \in Index
    BY <2>4, <2>5, EngineAssumption DEF Index
  <2>7. next_write' = Around(next_read, n + 1)
    BY <1>6, <2>1, <2>4, <2>6, RingFacts
  <2>8. Written' - Read' = n + 1 /\ Len(served) + n = Len(published)
    BY <1>6, <2>2, <2>3
  <2>9. ASSUME NEW j \in 0 .. n PROVE slots'[Around(next_read, j)] = Item(Len(served) + j)
    <3>1. CASE j = n
      <4>1. slots[next_write] = Shutdown
        BY <1>1 DEF IInv, QueueInv
      <4>2. Item(Len(served) + j) = Shutdown
        BY <1>6, <2>8, <3>1 DEF Item
      <4> QED BY <1>1, <2>4, <3>1, <4>1, <4>2
    <3>2. CASE j # n
      <4>1. j \in 0 .. n - 1
        BY <2>4, <3>2
      <4> QED BY <1>1, <2>3, <4>1 DEF IInv, QueueInv, Ahead
    <3> QED BY <3>1, <3>2
  <2>10. \A i : Item(i)' = Item(i)
    BY <1>1 DEF Item
  <2>11. Written' - Read' \in 0 .. Capacity - 1 /\ next_write' = Ahead(Written - Read)'
    BY <1>1, <2>6, <2>7, <2>8 DEF Index, Ahead
  <2>12. \A j \in 0 .. Written' - Read' - 1 : slots'[Ahead(j)'] = Item(Read + j)'
    <3>1. 0 .. Written' - Read' - 1 = 0 .. n
      BY <2>4, <2>8
    <3> QED BY <1>1, <2>3, <2>9, <2>10, <3>1 DEF Ahead
  <2> QED BY <1>1, <1>5, <2>11, <2>12 DEF QueueInv
<1>10. SleepInv'
  <2>1. Work("matching_engine")' = Work("matching_engine")
    BY <1>1 DEF Work, EngineSteps, Unserved
  <2>2. RoundsLeft("matching_engine")' = Work("matching_engine")
    BY <1>1, <1>3 DEF RoundsLeft
  <2> QED BY <1>1, <1>3, <1>5, <1>6, <2>1, <2>2, StagesDiffer DEF SleepInv
<1> QED BY <1>7, <1>8, <1>9, <1>10 DEF IInv

(* A round of main's sleep is over: all threads that run have moved.       *)
LEMMA SleepIInv == ASSUME IInv, Sleep PROVE IInv'
<1>1. /\ main_pc = "sleep" /\ sleep > 0 /\ Running \subseteq stepped
      /\ sleep' = sleep - 1 /\ stepped' = {}
      /\ UNCHANGED <<slots, next_write, next_read, client_responses, market_updates, fatal>>
      /\ UNCHANGED <<main_pc, starting, teardown, objects, run>>
      /\ UNCHANGED <<engine_pc, served, server_pc, published, pending, publisher_pc, synthesizer_pc>>
      /\ UNCHANGED <<resting, in_time, snapshot_md_updates, synthesizer_pc, walk>>
  BY DEF Sleep, queue, engine, server, main, synthesizer
<1>2. TypeOK' /\ MainInv'
  BY <1>1 DEF IInv, TypeOK, MainInv, At
<1>3. ThreadInv' /\ CountInv' /\ ServedInv'
  BY <1>1 DEF IInv, ThreadInv, CountInv, ServedInv, ServerDeleted, EngineDeleted, PublisherDeleted,
              PillIn
<1>4. QueueInv'
  BY <1>1 DEF IInv, QueueInv, Ahead, Written, Read, Item, PillIn, EngineDeleted, ServerDeleted
<1>5. SleepInv'
  <2>1. \A d \in Running : RoundsLeft(d)' = RoundsLeft(d)
    BY <1>1 DEF RoundsLeft
  <2>2. /\ server_pc \notin {"none", "exited"} => "order_server" \in Running
        /\ engine_pc \notin {"none", "exited"} => "matching_engine" \in Running
        /\ publisher_pc \notin {"none", "exited"} => "publisher" \in Running
        /\ synthesizer_pc \notin {"none", "exited"} => "synthesizer" \in Running
    BY DEF Running, Components, Thread
  <2>3. server_pc # "none" /\ engine_pc # "none" /\ publisher_pc # "none" /\ synthesizer_pc # "none"
    BY <1>1 DEF IInv, ThreadInv
  <2>4. teardown = AfterServer => publisher_pc # "exited"
    BY <1>1, StagesDiffer DEF IInv, MainInv, At, ThreadInv, PublisherDeleted, EngineDeleted, ServerDeleted
  <2>5. UNCHANGED <<ServerSteps, Work("matching_engine"), Publishing, PublisherSteps, SynthesizerSteps>>
    BY <1>1 DEF ServerSteps, Work, EngineSteps, Publishing, PublisherSteps, SynthesizerSteps, Respond,
                Unserved
  <2> QED BY <1>1, <2>1, <2>2, <2>3, <2>4, <2>5 DEF IInv, SleepInv
<1> QED BY <1>2, <1>3, <1>4, <1>5 DEF IInv

(* Where main has slept for long enough, what it was waiting for has       *)
(* happened.                                                               *)
LEMMA Slept ==
  ASSUME IInv, main_pc = "sleep", sleep = 0
  PROVE  /\ teardown = Teardown => server_pc = "exited"
         /\ teardown = AfterServer => engine_pc = "exited" /\ market_updates = 0
         /\ teardown = AfterEngine => publisher_pc = "exited"
         /\ teardown = AfterPublisher => synthesizer_pc = "exited"
<1>1. \A d : RoundsLeft(d) = 0
  BY DEF IInv, SleepInv, RoundsLeft
<1>2. /\ ServerSteps \in Nat \ {0} /\ Work("matching_engine") \in Nat \ {0}
      /\ PublisherSteps \in Nat \ {0} /\ SynthesizerSteps \in Nat \ {0} /\ market_updates \in Nat
  BY WorkFacts DEF IInv
<1>3. ASSUME teardown = Teardown PROVE server_pc = "exited"
  BY <1>1, <1>2, <1>3 DEF IInv, SleepInv
<1>4. ASSUME teardown = AfterServer PROVE engine_pc = "exited" /\ market_updates = 0
  <2>1. engine_pc = "exited"
    BY <1>1, <1>2, <1>4 DEF IInv, SleepInv
  <2>2. Publishing <= 0
    BY <1>1, <1>4, <2>1 DEF IInv, SleepInv
  <2> QED BY <1>2, <2>1, <2>2 DEF Publishing
<1>5. ASSUME teardown = AfterEngine PROVE publisher_pc = "exited"
  BY <1>1, <1>2, <1>5 DEF IInv, SleepInv
<1>6. ASSUME teardown = AfterPublisher PROVE synthesizer_pc = "exited"
  BY <1>1, <1>2, <1>6 DEF IInv, SleepInv
<1> QED BY <1>3, <1>4, <1>5, <1>6

(* main frees a component.  A thread that still uses it was not given the  *)
(* time for its work.                                                      *)
LEMMA FreeIInv == ASSUME IInv, Free PROVE IInv' \/ Ended'
<1>1. /\ main_pc = "sleep" /\ sleep' = 0 /\ stepped' = {} /\ in_time' = (in_time /\ sleep = 0)
      /\ objects' = objects \ Freed(Head(teardown)) /\ teardown' = Tail(teardown)
      /\ main_pc' = IF Len(teardown) = 1 THEN "exited" ELSE "delete"
      /\ UNCHANGED <<slots, next_write, next_read, client_responses, market_updates, fatal>>
      /\ UNCHANGED <<starting, run, snapshot_md_updates, walk>>
      /\ UNCHANGED <<engine_pc, served, server_pc, published, pending, publisher_pc, synthesizer_pc>>
  BY DEF Free, queue, server, synthesizer
<1>2. starting = <<>>
  BY <1>1 DEF IInv, MainInv, At
<1>3. TypeOK' /\ ServedInv' /\ SleepInv'
  <2>1. main_pc' # "sleep"
    BY <1>1
  <2>2. resting' \in {0, resting}
    BY DEF Free
  <2>3. in_time' \in BOOLEAN
    BY <1>1
  <2> QED BY <1>1, <2>1, <2>2, <2>3 DEF IInv, TypeOK, ServedInv, SleepInv
<1>4. in_time' =>
        /\ teardown = Teardown => server_pc = "exited"
        /\ teardown = AfterServer => engine_pc = "exited" /\ market_updates = 0
        /\ teardown = AfterEngine => publisher_pc = "exited"
        /\ teardown = AfterPublisher => synthesizer_pc = "exited" /\ publisher_pc = "exited"
  <2> SUFFICES ASSUME in_time'
               PROVE  /\ teardown = Teardown => server_pc = "exited"
                      /\ teardown = AfterServer => engine_pc = "exited" /\ market_updates = 0
                      /\ teardown = AfterEngine => publisher_pc = "exited"
                      /\ teardown = AfterPublisher =>
                            synthesizer_pc = "exited" /\ publisher_pc = "exited"
    OBVIOUS
  <2>1. in_time /\ sleep = 0
    BY <1>1
  <2>2. teardown = AfterPublisher => PublisherDeleted
    BY StagesDiffer DEF PublisherDeleted, EngineDeleted, ServerDeleted
  <2>3. teardown = AfterPublisher => publisher_pc = "exited"
    BY <1>1, <2>1, <2>2 DEF IInv, ThreadInv
  <2> QED BY <1>1, <2>1, <2>3, Slept
<1>5. /\ Thread("order_server")' = server_pc /\ Thread("matching_engine")' = engine_pc
      /\ Thread("publisher")' = publisher_pc /\ Thread("synthesizer")' = synthesizer_pc
  BY <1>1 DEF Thread
<1>6. ASSUME NEW c \in Components, Thread(c)' \notin {"none", "exited"}, c \notin objects', ~in_time'
      PROVE  Ended'
  BY <1>3, <1>6 DEF Ended, Outlived, Running
<1>7. \/ Ended'
      \/ MainInv' /\ ThreadInv' /\ CountInv' /\ (PillIn' <=> PillIn) /\ main_pc' # "pill"
  <2>1. CASE teardown = Teardown
    <3>1. /\ teardown' = AfterServer /\ main_pc' = "delete" /\ objects = Components
          /\ objects' = Components \ {"order_server"} /\ run = Components \ {"order_server"}
      BY <1>1, <2>1, Stages, StagesDiffer DEF Freed, IInv, MainInv, At
    <3>2. /\ ~EngineDeleted /\ ~PublisherDeleted /\ ~PillIn
          /\ ~EngineDeleted' /\ ServerDeleted' /\ ~PublisherDeleted' /\ ~PillIn'
      BY <1>1, <2>1, <3>1, StagesDiffer DEF EngineDeleted, ServerDeleted, PublisherDeleted, PillIn
    <3>3. MainInv'
      BY <1>1, <1>2, <3>1 DEF MainInv, At
    <3>4. CASE server_pc # "exited"
      <4>1. server_pc # "none"
        BY <1>1 DEF IInv, ThreadInv
      <4> QED BY <1>4, <1>5, <1>6, <2>1, <3>1, <3>4, <4>1 DEF Components
    <3>5. CASE server_pc = "exited"
      <4>1. ThreadInv'
        BY <1>1, <2>1, <3>1, <3>2, <3>5 DEF IInv, ThreadInv, Components
      <4>2. CountInv'
        BY <1>1, <3>2 DEF IInv, CountInv
      <4> QED BY <3>1, <3>2, <3>3, <4>1, <4>2
    <3> QED BY <3>4, <3>5
  <2>2. CASE teardown = AfterServer
    <3>1. /\ teardown' = AfterEngine /\ main_pc' = "delete"
          /\ objects = Components \ {"order_server"} /\ objects' = objects \ {"matching_engine"}
          /\ run = {"publisher", "synthesizer"}
      BY <1>1, <2>2, Stages, StagesDiffer DEF Freed, IInv, MainInv, At
    <3>2. objects' = {"publisher", "synthesizer"}
      BY <3>1 DEF Components
    <3>3. /\ ~EngineDeleted /\ ServerDeleted /\ ~PublisherDeleted /\ PillIn
          /\ EngineDeleted' /\ ServerDeleted' /\ ~PublisherDeleted' /\ PillIn'
      BY <1>1, <2>2, <3>1, StagesDiffer DEF EngineDeleted, ServerDeleted, PublisherDeleted, PillIn
    <3>4. MainInv'
      BY <1>1, <1>2, <3>1, <3>2 DEF MainInv, At
    <3>5. CASE engine_pc # "exited"
      <4>1. engine_pc # "none"
        BY <1>1 DEF IInv, ThreadInv
      <4> QED BY <1>4, <1>5, <1>6, <2>2, <3>2, <3>5, <4>1 DEF Components
    <3>6. CASE engine_pc = "exited"
      <4>1. ThreadInv'
        BY <1>1, <2>2, <3>1, <3>3, <3>6 DEF IInv, ThreadInv
      <4>2. CountInv'
        BY <1>1, <1>4, <2>2 DEF IInv, CountInv
      <4> QED BY <3>1, <3>3, <3>4, <4>1, <4>2
    <3> QED BY <3>5, <3>6
  <2>3. CASE teardown = AfterEngine
    <3>1. /\ teardown' = AfterPublisher /\ main_pc' = "delete"
          /\ objects = {"publisher", "synthesizer"} /\ objects' = objects /\ run = {}
      BY <1>1, <2>3, Stages, StagesDiffer DEF Freed, IInv, MainInv, At
    <3>2. /\ EngineDeleted /\ ServerDeleted /\ ~PublisherDeleted /\ PillIn
          /\ EngineDeleted' /\ ServerDeleted' /\ PublisherDeleted' /\ PillIn'
      BY <1>1, <2>3, <3>1, StagesDiffer DEF EngineDeleted, ServerDeleted, PublisherDeleted, PillIn
    <3>3. MainInv'
      BY <1>1, <1>2, <3>1 DEF MainInv, At
    <3>4. ThreadInv'
      BY <1>1, <1>4, <2>3, <3>1, <3>2 DEF IInv, ThreadInv
    <3>5. CountInv'
      BY <1>1, <3>2 DEF IInv, CountInv
    <3> QED BY <3>1, <3>2, <3>3, <3>4, <3>5
  <2>4. CASE teardown = AfterPublisher
    <3>1. /\ teardown' = <<>> /\ main_pc' = "exited"
          /\ objects = {"publisher", "synthesizer"} /\ objects' = {} /\ run = {}
      BY <1>1, <2>4, Stages, StagesDiffer DEF Freed, IInv, MainInv, At
    <3>2. /\ EngineDeleted /\ ServerDeleted /\ PublisherDeleted /\ PillIn
          /\ EngineDeleted' /\ ServerDeleted' /\ PublisherDeleted' /\ PillIn'
      BY <1>1, <2>4, <3>1, StagesDiffer DEF EngineDeleted, ServerDeleted, PublisherDeleted, PillIn
    <3>3. MainInv'
      BY <1>1, <1>2, <3>1 DEF MainInv, At
    <3>4. publisher_pc # "none" /\ synthesizer_pc # "none"
      BY <1>1 DEF IInv, ThreadInv
    <3>5. CASE publisher_pc # "exited"
      BY <1>4, <1>5, <1>6, <2>4, <3>1, <3>4, <3>5 DEF Components
    <3>6. CASE synthesizer_pc # "exited"
      BY <1>4, <1>5, <1>6, <2>4, <3>1, <3>4, <3>6 DEF Components
    <3>7. CASE publisher_pc = "exited" /\ synthesizer_pc = "exited"
      <4>1. ThreadInv'
        BY <1>1, <3>1, <3>2, <3>7 DEF IInv, ThreadInv
      <4>2. CountInv'
        BY <1>1, <3>2 DEF IInv, CountInv
      <4> QED BY <3>1, <3>2, <3>3, <4>1, <4>2
    <3> QED BY <3>5, <3>6, <3>7
  <2> QED BY <1>1, <2>1, <2>2, <2>3, <2>4 DEF IInv, MainInv, At
<1>8. ASSUME PillIn' <=> PillIn, main_pc' # "pill" PROVE QueueInv'
  BY <1>1, <1>8 DEF IInv, QueueInv, Ahead, Written, Read, Item
<1> QED BY <1>3, <1>7, <1>8 DEF IInv

----------------------------------------------------------------------------
(* The theorems.                                                           *)

(* Under the invariant no thread has outlived its component.               *)
LEMMA NobodyOutlived == ASSUME IInv PROVE ~Outlived
<1> SUFFICES ASSUME NEW c \in Running PROVE c \in objects
  BY DEF Outlived
<1>1. c \in Components /\ Thread(c) \notin {"none", "exited"}
  BY DEF Running
<1>2. CASE c = "matching_engine"
  <2>1. engine_pc \notin {"none", "exited"}
    BY <1>1, <1>2 DEF Thread
  <2>2. ~EngineDeleted /\ ~(main_pc = "start" /\ starting = Started)
    BY <2>1 DEF IInv, ThreadInv
  <2> QED BY <1>2, <2>2, StagesDiffer
          DEF IInv, MainInv, At, EngineDeleted, ServerDeleted, Components
<1>3. CASE c = "order_server"
  <2>1. server_pc \notin {"none", "exited"}
    BY <1>1, <1>3 DEF Thread
  <2>2. ~ServerDeleted /\ ~(main_pc = "start" /\ starting # <<"publisher">>)
    BY <2>1 DEF IInv, ThreadInv
  <2> QED BY <1>3, <2>2, StagesDiffer DEF IInv, MainInv, At, ServerDeleted, Components
<1>4. CASE c \in {"publisher", "synthesizer"}
  <2>1. publisher_pc \notin {"none", "exited"} \/ synthesizer_pc \notin {"none", "exited"}
    BY <1>1, <1>4 DEF Thread
  <2>2. main_pc \notin {"start", "exited"}
    BY <2>1 DEF IInv, ThreadInv
  <2> QED BY <1>4, <2>2 DEF IInv, MainInv, At, Components
<1> QED BY <1>1, <1>2, <1>3, <1>4 DEF Components

(* Every step of Next is one of the above; where a thread has outlived its *)
(* component there is none.                                                *)
LEMMA TeardownInvariant == Spec => [](IInv \/ Ended)
<1>1. ASSUME IInv, Next PROVE IInv' \/ Ended'
  <2>1. ~fatal
    BY <1>1 DEF Next, Alive
  <2>2. CASE signal_handler
    BY <1>1, <2>2, SignalIInv
  <2>3. CASE Main
    BY <1>1, <2>1, <2>3, StartIInv, IdleIInv, StopIInv, PillIInv, SleepIInv, FreeIInv DEF Main
  <2>4. CASE Engine
    BY <1>1, <2>1, <2>4, EngineReadIInv, EngineProcessIInv, EngineSpinIInv DEF Engine
  <2>5. CASE OrderServer
    BY <1>1, <2>5, ServerLoopIInv, ServerPollIInv, ServerWriteIInv, ServerPublishIInv,
       ServerRespondIInv DEF OrderServer
  <2>6. CASE Publisher
    BY <1>1, <2>1, <2>6, PublisherIInv
  <2>7. CASE Synthesizer
    BY <1>1, <2>7, SynthesizerIInv
  <2> QED BY <1>1, <2>2, <2>3, <2>4, <2>5, <2>6, <2>7 DEF Next
<1>2. IInv /\ UNCHANGED vars => IInv'
  BY SignalIInv
<1>3. Ended /\ Next => FALSE
  BY DEF Ended, Next, Alive
<1>4. ASSUME Ended, UNCHANGED vars PROVE Ended'
  <2>1. /\ UNCHANGED <<slots, next_write, next_read, client_responses, market_updates, fatal>>
        /\ UNCHANGED <<objects, sleep, stepped, engine_pc, served, server_pc, pending, published>>
        /\ UNCHANGED <<publisher_pc, resting, in_time, snapshot_md_updates, synthesizer_pc, walk>>
    BY <1>4 DEF vars, queue, engine, main, server, second, synthesizer
  <2>2. TypeOK' /\ ServedInv'
    BY <1>4, <2>1 DEF Ended, TypeOK, ServedInv
  <2>3. Running' = Running
    BY <2>1 DEF Running, Thread
  <2> QED BY <1>4, <2>1, <2>2, <2>3 DEF Ended, Outlived
<1> QED BY <1>1, <1>2, <1>3, <1>4, InitIInv, PTL DEF Spec

(* The pill of MatchingEngine::stop() overwrites no request, and the       *)
(* engine leaves only when it has processed all that OrderServer handed    *)
(* over, once and in order.  Nothing is assumed of the sleeps; where one   *)
(* is too short for its thread the behaviour ends, and the property holds  *)
(* up to there.                                                            *)
THEOREM AllRequestsServed == Spec => []RequestsServedInOrder
<1>1. ASSUME TypeOK, ServedInv PROVE RequestsServedInOrder
  <2>1. /\ served \in Seq(Requests) /\ published \in Seq(Requests)
        /\ Len(served) <= Len(published) /\ Len(served) \in Nat /\ Len(published) \in Nat
        /\ \A i \in 1 .. Len(served) : served[i] = published[i]
    BY <1>1 DEF TypeOK, ServedInv
  <2>2. IsPrefix(served, published)
    <3>1. SubSeq(published, 1, Len(served)) = served
      <4> DEFINE s == SubSeq(published, 1, Len(served))
      <4>1. s = [i \in 1 .. Len(served) |-> published[i]]
        BY <2>1
      <4>2. served = [i \in 1 .. Len(served) |-> served[i]]
        <5>1. served \in [1 .. Len(served) -> Requests]
          BY <2>1, LenProperties
        <5> QED BY <5>1
      <4> QED BY <2>1, <4>1, <4>2
    <3> QED BY <2>1, <3>1 DEF IsPrefix
  <2>3. ASSUME engine_pc = "exited" PROVE served = published
    <3>1. Len(served) = Len(published)
      BY <1>1, <2>3 DEF ServedInv
    <3> QED BY <2>1, <3>1, SeqEqual
  <2> QED BY <2>2, <2>3 DEF RequestsServedInOrder
<1>2. IInv \/ Ended => RequestsServedInOrder
  BY <1>1 DEF IInv, Ended
<1> QED BY <1>2, TeardownInvariant, PTL

(* A destructor frees a component whose detached thread still runs only if *)
(* its sleep had fewer rounds than the thread had steps to make when it    *)
(* was told to stop (Work).                                                *)
THEOREM ThreadsEndWithTheirWork == Spec => []NothingFreedInUse
<1>1. IInv \/ Ended => NothingFreedInUse
  BY NobodyOutlived DEF Ended, NothingFreedInUse
<1> QED BY <1>1, TeardownInvariant, PTL

(* When main returns, and every sleep had the rounds for the work in hand, *)
(* MarketDataPublisher has sent every update that the engine produced.     *)
THEOREM AllUpdatesPublished == Spec => []UpdatesAllPublished
<1>1. ASSUME IInv \/ Ended PROVE UpdatesAllPublished
  <2> SUFFICES ASSUME main_pc = "exited", in_time PROVE market_updates = 0
    BY DEF UpdatesAllPublished
  <2>1. IInv
    BY <1>1 DEF Ended
  <2>2. teardown = <<>>
    BY <2>1 DEF IInv, MainInv, At
  <2>3. EngineDeleted
    BY <2>2, StagesDiffer DEF EngineDeleted, ServerDeleted
  <2> QED BY <2>1, <2>3 DEF IInv, CountInv
<1> QED BY <1>1, TeardownInvariant, PTL

=============================================================================
