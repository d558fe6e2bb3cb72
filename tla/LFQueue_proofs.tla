--------------------------- MODULE LFQueue_proofs ---------------------------
(***************************************************************************)
(* LFQueue is safe for every number of slots: the two threads never share  *)
(* a slot, and together they behave as a bounded FIFO.                     *)
(***************************************************************************)
EXTENDS LFQueue, SequenceTheorems, TLAPS

----------------------------------------------------------------------------
(* The inductive invariant.  Dist(i, j) is how far j is ahead of i.  Each  *)
(* cached index is behind the index it copies, so that the producer sees   *)
(* no more room, and the consumer no more elements, than there are.        *)

Dist(i, j) == IF j >= i THEN j - i ELSE Slots - i + j

Caches ==
    /\ Dist(next_read_index, next_write_index) <= Dist(cached_read_index, next_write_index)
    /\ Dist(next_read_index, cached_write_index) <= Dist(next_read_index, next_write_index)

Producer ==
    /\ pstate = "idle" <=> value = NoValue
    /\ pstate = "publishing" => Dist(cached_read_index, next_write_index) < Slots - 1
    /\ pstate = "exited" => Dist(next_read_index, next_write_index) = Slots - 1
    /\ pstate \in {"written", "publishing", "exited"} => store[next_write_index] = value

Consumer ==
    /\ cstate \in {"reading", "read"} => next_read_index # cached_write_index
    /\ cstate \in {"idle", "reading"} => copy = NoValue
    /\ cstate = "read" => copy = store[next_read_index]

\* The slots between the indices hold what was handed over.
LiveSlots ==
    \A i \in Index :
        Dist(next_read_index, i) < Dist(next_read_index, next_write_index) => store[i] \in Values

IInv == TypeOK /\ NoUnderflow /\ Caches /\ Producer /\ Consumer /\ LiveSlots

(* A sequence is the function of its elements.                             *)
LEMMA SeqIsFunction ==
  ASSUME NEW S, NEW s \in Seq(S) PROVE s = [i \in 1 .. Len(s) |-> s[i]]
<1>1. s \in [1 .. Len(s) -> S]
  BY LenProperties
<1> QED BY <1>1

(* A step of an index moves it one further from, or closer to, the others. *)
LEMMA DistFacts ==
  ASSUME NEW i \in Index, NEW j \in Index
  PROVE  /\ Dist(i, j) \in 0 .. Slots - 1
         /\ Dist(i, j) = 0 <=> i = j
         /\ wrapped(i) \in Index
         /\ Dist(i, j) = Slots - 1 <=> wrapped(j) = i
         /\ Dist(i, j) < Slots - 1 => Dist(i, wrapped(j)) = Dist(i, j) + 1
         /\ i # j => Dist(wrapped(i), j) = Dist(i, j) - 1
BY SlotsAssumption DEF Dist, wrapped, Index

(* The empty queue satisfies the invariant.                                *)
LEMMA InitIInv == Init => IInv
BY SlotsAssumption, ValuesAssumption
   DEF Init, IInv, TypeOK, NoUnderflow, Caches, Producer, Consumer, LiveSlots, Index, Dist

(* The producer writes a slot that no element is in.                       *)
LEMMA WriteIInv == ASSUME IInv, getNextToWriteTo \/ SlotWritten PROVE IInv'
<1> USE ValuesAssumption
<1>1. /\ next_write_index \in Index /\ next_read_index \in Index
      /\ Dist(next_read_index, next_write_index) \in Nat
  BY DistFacts DEF IInv, TypeOK
<1>2. PICK v \in Values \cup {Torn} : store' = [store EXCEPT ![next_write_index] = v]
  BY DEF getNextToWriteTo, SlotWritten, IInv, TypeOK, Producer
<1>3. UNCHANGED <<next_write_index, cached_read_index, consumer>>
  BY DEF getNextToWriteTo, SlotWritten
<1>4. TypeOK'
  BY <1>1, <1>2, <1>3 DEF getNextToWriteTo, SlotWritten, IInv, TypeOK, consumer
<1>5. NoUnderflow' /\ Caches'
  BY <1>3 DEF IInv, NoUnderflow, Caches, Dist, consumer
<1>6. Producer'
  BY <1>1, <1>3 DEF getNextToWriteTo, SlotWritten, IInv, TypeOK, Producer, consumer, Dist
<1>7. cstate = "read" => next_write_index # next_read_index
  BY <1>1, DistFacts DEF IInv, TypeOK, Consumer, Caches
<1>8. Consumer'
  BY <1>1, <1>2, <1>3, <1>7 DEF IInv, TypeOK, Consumer, consumer
<1>9. LiveSlots'
  BY <1>1, <1>2, <1>3 DEF IInv, TypeOK, LiveSlots, Dist, consumer
<1> QED BY <1>4, <1>5, <1>6, <1>8, <1>9 DEF IInv

(* The check for room: the cached index errs on the side of full.          *)
LEMMA CheckRoomIInv == ASSUME IInv, CheckRoom PROVE IInv'
<1> DEFINE w == next_write_index
           r == next_read_index
           c == cached_read_index
<1>1. w \in Index /\ r \in Index /\ c \in Index /\ Dist(r, w) <= Dist(c, w)
  BY DEF IInv, TypeOK, Caches
<1>2. /\ Dist(c, w) \in 0 .. Slots - 1 /\ Dist(r, w) \in 0 .. Slots - 1
      /\ wrapped(w) = c <=> Dist(c, w) = Slots - 1
      /\ wrapped(w) = r <=> Dist(r, w) = Slots - 1
  BY <1>1, DistFacts
<1>3. /\ cached_read_index' \in {c, r}
      /\ pstate' \in {"publishing", "exited"} /\ pstate = "written"
      /\ pstate' = "publishing" => Dist(cached_read_index', w) < Slots - 1
      /\ pstate' = "exited" => Dist(r, w) = Slots - 1
      /\ UNCHANGED <<store, next_write_index, value, consumer>>
  <2> HIDE DEF w, r, c
  <2>1. pstate = "written" /\ UNCHANGED <<store, next_write_index, value, consumer>>
    BY DEF CheckRoom
  <2>2. CASE wrapped(w) # c
    BY <1>2, <2>1, <2>2, SlotsAssumption DEF CheckRoom, w, c
  <2>3. CASE wrapped(w) = c
    BY <1>2, <2>1, <2>3, SlotsAssumption DEF CheckRoom, w, r, c
  <2> QED BY <2>2, <2>3
<1>4. TypeOK' /\ NoUnderflow'
  BY <1>1, <1>3 DEF IInv, TypeOK, NoUnderflow, consumer
<1>5. Caches'
  BY <1>1, <1>2, <1>3 DEF IInv, Caches, consumer
<1>6. Producer' /\ Consumer' /\ LiveSlots'
  BY <1>1, <1>3 DEF IInv, Producer, Consumer, LiveSlots, consumer
<1> QED BY <1>4, <1>5, <1>6 DEF IInv

(* The store of the write index makes the slot just written the youngest   *)
(* element.                                                                *)
LEMMA PublishIInv == ASSUME IInv, Publish PROVE IInv'
<1> DEFINE w == next_write_index
           r == next_read_index
           c == cached_read_index
<1>1. /\ w \in Index /\ r \in Index /\ c \in Index /\ cached_write_index \in Index
      /\ Dist(r, w) <= Dist(c, w)
      /\ Dist(c, w) < Slots - 1 /\ Dist(r, cached_write_index) <= Dist(r, w)
  BY DEF IInv, TypeOK, Caches, Publish, Producer
<1>2. /\ Dist(r, w) \in Nat /\ Dist(c, w) \in Nat /\ Dist(r, w) < Slots - 1
      /\ Dist(r, cached_write_index) \in Nat
      /\ wrapped(w) \in Index
      /\ Dist(r, wrapped(w)) = Dist(r, w) + 1 /\ Dist(c, wrapped(w)) = Dist(c, w) + 1
  BY <1>1, DistFacts, SlotsAssumption
<1>3. /\ pstate = "publishing" /\ pstate' = "idle" /\ value' = NoValue
      /\ next_write_index' = wrapped(w) /\ UNCHANGED <<store, cached_read_index, consumer>>
  BY DEF Publish
<1>4. TypeOK' /\ NoUnderflow'
  BY <1>2, <1>3 DEF IInv, TypeOK, NoUnderflow, consumer
<1>5. Caches'
  BY <1>1, <1>2, <1>3 DEF Caches, consumer
<1>6. Producer' /\ Consumer'
  BY <1>3 DEF IInv, Producer, Consumer, consumer
<1>7. store[w] \in Values
  BY <1>3 DEF IInv, TypeOK, Producer
<1>8. LiveSlots'
  <2> SUFFICES ASSUME NEW i \in Index, Dist(r, i) < Dist(r, w) + 1
               PROVE  store[i] \in Values
    BY <1>2, <1>3 DEF LiveSlots, consumer
  <2>1. CASE i = w
    BY <2>1, <1>7
  <2>2. CASE i # w
    <3>1. Dist(r, i) # Dist(r, w) /\ Dist(r, i) \in Nat
      BY <2>2, <1>1, SlotsAssumption DEF Dist, Index
    <3> QED BY <3>1, <1>2 DEF IInv, LiveSlots
  <2> QED BY <2>1, <2>2
<1> QED BY <1>4, <1>5, <1>6, <1>8 DEF IInv

(* The consumer takes a slot only where there is an element.               *)
LEMMA ReadIInv == ASSUME IInv, getNextToRead \/ SlotRead PROVE IInv'
<1>1. UNCHANGED <<store, producer, next_read_index>>
  BY DEF getNextToRead, SlotRead
<1>2. cached_write_index' \in {cached_write_index, next_write_index}
  BY DEF getNextToRead, SlotRead
<1>3. /\ next_write_index \in Index /\ next_read_index \in Index /\ cached_write_index \in Index
      /\ store[next_read_index] \in Values \cup {NoValue, Torn}
      /\ Dist(next_read_index, next_write_index) \in Nat
  BY DistFacts DEF IInv, TypeOK
<1>4. TypeOK' /\ NoUnderflow'
  BY <1>1, <1>2, <1>3 DEF IInv, TypeOK, NoUnderflow, producer, getNextToRead, SlotRead
<1>5. Caches'
  BY <1>1, <1>2, <1>3 DEF IInv, Caches, producer
<1>6. Producer' /\ LiveSlots'
  BY <1>1 DEF IInv, Producer, LiveSlots, producer
<1>7. Consumer'
  BY <1>1 DEF IInv, Consumer, producer, getNextToRead, SlotRead
<1> QED BY <1>4, <1>5, <1>6, <1>7 DEF IInv

(* The release gives back the oldest element's slot, and its assertion     *)
(* holds.                                                                  *)
LEMMA ReleaseIInv == ASSUME IInv, updateReadIndex PROVE IInv'
<1> DEFINE w == next_write_index
           r == next_read_index
           c == cached_read_index
           d == cached_write_index
<1>1. /\ w \in Index /\ r \in Index /\ c \in Index /\ d \in Index /\ r # d
      /\ Dist(r, w) <= Dist(c, w) /\ Dist(r, d) <= Dist(r, w)
  BY DEF IInv, TypeOK, Caches, updateReadIndex, Consumer
<1>2. /\ Dist(r, w) \in Nat /\ Dist(c, w) \in Nat /\ Dist(r, d) \in Nat /\ r # w
      /\ wrapped(r) \in Index
      /\ Dist(wrapped(r), w) = Dist(r, w) - 1 /\ Dist(wrapped(r), d) = Dist(r, d) - 1
  BY <1>1, DistFacts
<1>3. /\ cstate' = "idle" /\ copy' = NoValue /\ pstate # "exited"
      /\ next_read_index' = wrapped(r) /\ UNCHANGED <<store, producer, cached_write_index>>
  BY <1>1 DEF updateReadIndex
<1>4. TypeOK' /\ NoUnderflow'
  BY <1>2, <1>3 DEF IInv, TypeOK, NoUnderflow, producer
<1>5. Caches'
  BY <1>1, <1>2, <1>3 DEF Caches, producer
<1>6. Producer' /\ Consumer'
  BY <1>3 DEF IInv, Producer, Consumer, producer
<1>7. LiveSlots'
  <2> SUFFICES ASSUME NEW i \in Index, Dist(wrapped(r), i) < Dist(r, w) - 1
               PROVE  store[i] \in Values
    BY <1>2, <1>3 DEF LiveSlots, producer
  <2>1. Dist(r, i) < Dist(r, w)
    BY <1>1, SlotsAssumption DEF Dist, wrapped, Index
  <2> QED BY <2>1 DEF IInv, LiveSlots
<1> QED BY <1>4, <1>5, <1>6, <1>7 DEF IInv

(* The invariant is inductive, so it holds in every reachable state.       *)
LEMMA SpecIInv == Spec => []IInv
<1>1. IInv /\ [Next]_vars => IInv'
  <2> SUFFICES ASSUME IInv, [Next]_vars PROVE IInv'
    OBVIOUS
  <2>1. CASE UNCHANGED vars
    BY <2>1 DEF IInv, TypeOK, NoUnderflow, Caches, Producer, Consumer, LiveSlots, vars, Dist
  <2> QED
    BY <2>1, WriteIInv, CheckRoomIInv, PublishIInv, ReadIInv, ReleaseIInv DEF Next
<1> QED BY <1>1, InitIInv, PTL DEF Spec

(* The variables of the queue keep their types: no index leaves the store. *)
THEOREM TypeCorrect == Spec => []TypeOK
<1>1. IInv => TypeOK
  BY DEF IInv
<1> QED BY <1>1, SpecIInv, PTL

(* The producer never writes the slot that the consumer holds, whatever    *)
(* the number of slots.                                                    *)
THEOREM SlotIsNeverShared == Spec => []SlotNotShared
<1>1. IInv => SlotNotShared
  BY DistFacts DEF IInv, SlotNotShared, TypeOK, Caches, Consumer
<1> QED BY <1>1, SpecIInv, PTL

(* The assertion of updateReadIndex never fails.                           *)
THEOREM NeverUnderflows == Spec => []NoUnderflow
<1>1. IInv => NoUnderflow
  BY DEF IInv
<1> QED BY <1>1, SpecIInv, PTL

(* The queue is a bounded FIFO: nothing is lost, doubled, torn or          *)
(* reordered, and the process ends only when N-1 elements are waiting.     *)
THEOREM QueueIsFifo == Spec => ImplementsBoundedFifo
<1>1. Init => FIFO!Init
  <2> SUFFICES ASSUME Init PROVE FIFO!Init
    OBVIOUS
  <2>1. size = 0
    BY DEF Init, size
  <2>2. Contents = <<>>
    BY <2>1 DEF Contents
  <2> QED BY <2>2 DEF Init, FIFO!Init
<1>2. IInv /\ [Next]_vars => [FIFO!Next]_(FIFO!vars)
  <2> SUFFICES ASSUME IInv, [Next]_vars PROVE [FIFO!Next]_(FIFO!vars)
    OBVIOUS
  <2> DEFINE w == next_write_index
             r == next_read_index
             At(from, i) == IF from + i < Slots THEN from + i ELSE from + i - Slots
  <2>1. /\ w \in Index /\ r \in Index
        /\ size = Dist(r, w) /\ size \in Nat /\ size <= Slots - 1
    <3>1. w \in Index /\ r \in Index
      BY DEF IInv, TypeOK
    <3>2. size = Dist(r, w)
      BY DEF size, Dist
    <3> QED BY <3>1, <3>2, DistFacts, SlotsAssumption
  <2>2. /\ size' = Dist(r', w')
        /\ Contents = [i \in 1 .. size |-> store[At(r, i - 1)]]
        /\ Contents' = [i \in 1 .. size' |-> store'[At(r', i - 1)]]
    BY DEF size, Dist, Contents, SlotAt
  \* The i-th element is in the slot i - 1 ahead of the read index.
  <2>3. ASSUME NEW i \in 1 .. size
        PROVE  At(r, i - 1) \in Index /\ Dist(r, At(r, i - 1)) = i - 1 /\ At(r, i - 1) # w
    BY <2>1, SlotsAssumption DEF Index, Dist
  <2>4. Contents \in Seq(Values) /\ Len(Contents) = size
    <3>1. \A i \in 1 .. size : store[At(r, i - 1)] \in Values
      BY <2>1, <2>3 DEF IInv, LiveSlots
    <3> HIDE DEF At
    <3> QED BY <2>1, <2>2, <3>1
  <2>5. CASE UNCHANGED vars
    BY <2>5 DEF vars, FIFO!vars, Contents, size, SlotAt
  <2>6. ASSUME getNextToWriteTo \/ SlotWritten PROVE Contents' = Contents
    <3>1. PICK v : store' = [store EXCEPT ![w] = v]
      BY <2>6 DEF getNextToWriteTo, SlotWritten
    <3>2. UNCHANGED <<next_write_index, next_read_index>>
      BY <2>6 DEF getNextToWriteTo, SlotWritten, consumer
    <3>3. size' = size /\ r' = r
      BY <3>2, <2>1, <2>2
    <3>4. \A i \in 1 .. size : store'[At(r, i - 1)] = store[At(r, i - 1)]
      BY <2>1, <2>3, <3>1 DEF IInv, TypeOK
    <3> HIDE DEF At
    <3> QED BY <2>2, <3>3, <3>4
  <2>7. CASE getNextToWriteTo
    BY <2>6, <2>7 DEF getNextToWriteTo, FIFO!Next, FIFO!Offer, IInv, Producer, consumer
  <2>8. CASE SlotWritten
    BY <2>6, <2>8 DEF SlotWritten, FIFO!vars, consumer
  <2>9. CASE CheckRoom
    <3>1. Contents' = Contents /\ value' = value /\ copy' = copy /\ pstate = "written"
      BY <2>9 DEF CheckRoom, consumer, Contents, size, SlotAt
    <3>2. CASE pstate' = "exited"
      <4>1. Dist(r, w) = Slots - 1
        BY <2>9, <3>2, CheckRoomIInv DEF CheckRoom, IInv, Producer, consumer, Dist
      <4>2. value # NoValue
        BY <3>1 DEF IInv, Producer
      <4> QED
        BY <3>1, <3>2, <4>1, <4>2, <2>1, <2>4 DEF FIFO!Next, FIFO!Overflow
    <3>3. CASE pstate' # "exited"
      BY <3>1, <3>3 DEF FIFO!vars
    <3> QED BY <3>2, <3>3
  <2>10. CASE Publish
    <3>1. /\ pstate = "publishing" /\ pstate' = "idle" /\ value' = NoValue
          /\ w' = wrapped(w) /\ r' = r /\ store' = store /\ copy' = copy
      BY <2>10 DEF Publish, consumer
    <3>2. store[w] = value /\ value # NoValue /\ Dist(r, w) < Slots - 1 /\ value \in Values
      BY <3>1, <2>1, DistFacts DEF IInv, TypeOK, Producer, Caches
    <3>3. size' = size + 1
      BY <3>1, <3>2, <2>1, <2>2, DistFacts
    <3>4. At(r, size) = w
      BY <2>1, SlotsAssumption DEF Dist, Index
    <3>5. Contents' = Append(Contents, value)
      <4> HIDE DEF At, w, r
      <4>1. Contents' = [i \in 1 .. size + 1 |-> store[At(r, i - 1)]]
        BY <2>2, <3>1, <3>3
      <4>2. size + 1 - 1 = size
        BY <2>1
      <4>3. \A i \in 1 .. size + 1 :
               store[At(r, i - 1)] = IF i \in 1 .. size THEN Contents[i] ELSE value
        BY <2>1, <2>2, <3>2, <3>4, <4>2
      <4> DEFINE more == Append(Contents, value)
      <4>4. /\ more \in Seq(Values) /\ Len(more) = size + 1
            /\ \A i \in 1 .. size : more[i] = Contents[i]
            /\ more[size + 1] = value
        BY <3>2, <2>1, <2>4, AppendProperties
      <4>5. more = [i \in 1 .. size + 1 |-> more[i]]
        <5> HIDE DEF more
        <5> QED BY <4>4, SeqIsFunction
      <4>6. \A i \in 1 .. size + 1 : more[i] = store[At(r, i - 1)]
        <5> HIDE DEF more
        <5> QED BY <4>3, <4>4, <2>1
      <4> HIDE DEF more
      <4>7. Contents' = more
        BY <4>1, <4>5, <4>6
      <4> QED BY <4>7 DEF more
    <3> QED
      BY <3>1, <3>2, <3>5, <2>1, <2>4 DEF FIFO!Next, FIFO!Push
  <2>11. CASE getNextToRead
    BY <2>11 DEF getNextToRead, FIFO!vars, producer, Contents, size, SlotAt
  <2>12. CASE SlotRead \/ updateReadIndex
    <3>1. r # w /\ size > 0
      <4>1. /\ cached_write_index \in Index /\ r # cached_write_index
            /\ Dist(r, cached_write_index) <= Dist(r, w)
        BY <2>12 DEF SlotRead, updateReadIndex, IInv, TypeOK, Consumer, Caches
      <4>2. Dist(r, cached_write_index) \in Nat \ {0} /\ Dist(r, w) \in Nat
        BY <2>1, <4>1, DistFacts
      <4> QED BY <2>1, <4>1, <4>2, DistFacts
    <3>2. Contents # <<>> /\ Head(Contents) = store[r]
      <4>1. At(r, 0) = r
        BY <2>1, SlotsAssumption DEF Index
      <4> HIDE DEF At
      <4>2. Contents[1] = store[r]
        BY <2>1, <2>2, <3>1, <4>1
      <4> QED BY <4>2, <3>1, <2>4
    <3>3. CASE SlotRead
      <4>1. Contents' = Contents /\ copy' = store[r] /\ copy = NoValue
            /\ UNCHANGED <<value, pstate>> /\ pstate # "exited"
        BY <3>3 DEF SlotRead, producer, Contents, size, SlotAt, IInv, Consumer
      <4> QED BY <4>1, <3>2 DEF FIFO!Next, FIFO!Copy
    <3>4. CASE updateReadIndex
      <4>1. /\ r' = wrapped(r) /\ w' = w /\ store' = store /\ copy' = NoValue
            /\ copy = store[r] /\ UNCHANGED <<value, pstate>> /\ pstate # "exited"
        BY <3>4 DEF updateReadIndex, producer, IInv, Consumer
      <4>2. size' = size - 1
        BY <4>1, <3>1, <2>1, <2>2, DistFacts
      <4>3. \A i \in 1 .. size - 1 : At(wrapped(r), i - 1) = At(r, i)
        BY <2>1, SlotsAssumption DEF wrapped, Index
      <4>4. Contents' = Tail(Contents)
        <5> HIDE DEF At, w, r
        <5>1. Contents' = [i \in 1 .. size - 1 |-> store[At(r, i)]]
          BY <2>2, <4>1, <4>2, <4>3
        <5>2. \A i \in 1 .. size - 1 : i + 1 \in 1 .. size /\ i + 1 - 1 = i
          BY <2>1
        <5>3. \A i \in 1 .. size - 1 : store[At(r, i)] = Contents[i + 1]
          BY <2>2, <5>2
        <5> DEFINE less == Tail(Contents)
        <5>4. less = [i \in 1 .. size - 1 |-> Contents[i + 1]]
          <6>1. /\ less \in Seq(Values) /\ Len(less) = size - 1
                /\ \A i \in 1 .. size - 1 : less[i] = Contents[i + 1]
            BY <2>4, <3>2, HeadTailProperties
          <6> HIDE DEF less
          <6>2. less = [i \in 1 .. size - 1 |-> less[i]]
            BY <6>1, SeqIsFunction
          <6> QED BY <6>1, <6>2
        <5> HIDE DEF less
        <5>5. Contents' = less
          BY <5>1, <5>3, <5>4
        <5> QED BY <5>5 DEF less
      <4> QED BY <4>1, <4>4, <3>2 DEF FIFO!Next, FIFO!Release
    <3> QED BY <2>12, <3>3, <3>4
  <2> QED
    BY <2>5, <2>7, <2>8, <2>9, <2>10, <2>11, <2>12 DEF Next
<1> QED
  BY <1>1, <1>2, SpecIInv, PTL DEF Spec, FIFO!Spec, ImplementsBoundedFifo

=============================================================================
