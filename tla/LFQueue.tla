------------------------------ MODULE LFQueue ------------------------------
(***************************************************************************)
(* The single-producer single-consumer queue between two threads           *)
(* (include/lq_free.h).                                                    *)
(*                                                                         *)
(* A step makes at most one access to what the threads share: one slot or  *)
(* one atomic index.  The indices are stored with release and loaded with  *)
(* acquire, so a thread that sees an index sees the slots written before   *)
(* it, and steps interleave.  A slot that is being written holds Torn: it  *)
(* is filled by many stores and a reader would see any part of them.       *)
(*                                                                         *)
(* A name of the form Operator_Fault is a faulty variant of the operator   *)
(* that follows it; no specification uses one.                             *)
(***************************************************************************)
EXTENDS Integers, Sequences

CONSTANTS
    Slots,      \* num_elems
    Values,
    NoValue, Torn

ASSUME SlotsAssumption == Slots \in Nat /\ Slots >= 2
ASSUME ValuesAssumption == NoValue \notin Values /\ Torn \notin Values

VARIABLES
    store,
    next_write_index, cached_read_index,    \* written by the producer
    next_read_index, cached_write_index,    \* written by the consumer
    pstate,     \* where the producer is
    value,      \* what the producer is handing over
    cstate,     \* where the consumer is
    copy        \* what the consumer has copied out of the slot it holds

vars == <<store, next_write_index, cached_read_index, next_read_index,
          cached_write_index, pstate, value, cstate, copy>>
producer == <<next_write_index, cached_read_index, pstate, value>>
consumer == <<next_read_index, cached_write_index, cstate, copy>>

Index == 0 .. Slots - 1

wrapped(i) == IF i + 1 = Slots THEN 0 ELSE i + 1

Init ==
    /\ store = [i \in Index |-> NoValue]
    /\ next_write_index = 0 /\ cached_read_index = 0
    /\ next_read_index = 0 /\ cached_write_index = 0
    /\ pstate = "idle" /\ value = NoValue
    /\ cstate = "idle" /\ copy = NoValue

----------------------------------------------------------------------------
(* The producer.                                                           *)

\* The slot is handed out, and written, before anyone asks if there is room.
getNextToWriteTo ==
    /\ pstate = "idle"
    /\ value' \in Values
    /\ store' = [store EXCEPT ![next_write_index] = Torn]
    /\ pstate' = "writing"
    /\ UNCHANGED <<next_write_index, cached_read_index, consumer>>

SlotWritten ==
    /\ pstate = "writing"
    /\ store' = [store EXCEPT ![next_write_index] = value]
    /\ pstate' = "written"
    /\ UNCHANGED <<next_write_index, cached_read_index, value, consumer>>

\* updateWriteIndex up to the store: the reader's index is loaded only when
\* the cached copy says that the queue is full.
CheckRoom_TrustsCache ==
    /\ pstate = "written"
    /\ pstate' = IF wrapped(next_write_index) = cached_read_index
                 THEN "exited" ELSE "publishing"
    /\ UNCHANGED <<store, next_write_index, cached_read_index, value, consumer>>
CheckRoom_UsesLastSlot ==
    /\ pstate = "written"
    /\ pstate' = "publishing"
    /\ UNCHANGED <<store, next_write_index, cached_read_index, value, consumer>>
CheckRoom ==
    /\ pstate = "written"
    /\ LET next == wrapped(next_write_index)
       IN  IF next # cached_read_index
           THEN pstate' = "publishing" /\ UNCHANGED cached_read_index
           ELSE /\ cached_read_index' = next_read_index
                /\ pstate' = IF next = next_read_index THEN "exited" ELSE "publishing"
    /\ UNCHANGED <<store, next_write_index, value, consumer>>

\* The store that ends updateWriteIndex.
Publish ==
    /\ pstate = "publishing"
    /\ next_write_index' = wrapped(next_write_index)
    /\ value' = NoValue
    /\ pstate' = "idle"
    /\ UNCHANGED <<store, cached_read_index, consumer>>

----------------------------------------------------------------------------
(* The consumer.  FATAL in the producer ends its thread too.               *)

\* The writer's index is loaded only when the cached copy says that the
\* queue is empty; nullptr leaves the consumer where it was.
getNextToRead_TrustsCache ==
    /\ cstate = "idle" /\ pstate # "exited"
    /\ next_read_index # cached_write_index
    /\ cstate' = "reading"
    /\ UNCHANGED <<store, producer, next_read_index, cached_write_index, copy>>
getNextToRead_NoSecondCheck ==
    /\ cstate = "idle" /\ pstate # "exited"
    /\ cached_write_index' = IF next_read_index = cached_write_index
                             THEN next_write_index ELSE cached_write_index
    /\ cstate' = "reading"
    /\ UNCHANGED <<store, producer, next_read_index, copy>>
getNextToRead ==
    /\ cstate = "idle" /\ pstate # "exited"
    /\ cached_write_index' = IF next_read_index = cached_write_index
                             THEN next_write_index ELSE cached_write_index
    /\ cstate' = IF next_read_index = cached_write_index' THEN "idle" ELSE "reading"
    /\ UNCHANGED <<store, producer, next_read_index, copy>>

SlotRead ==
    /\ cstate = "reading" /\ pstate # "exited"
    /\ copy' = store[next_read_index]
    /\ cstate' = "read"
    /\ UNCHANGED <<store, producer, next_read_index, cached_write_index>>

\* The slot goes back to the producer.
updateReadIndex ==
    /\ cstate = "read" /\ pstate # "exited"
    /\ cached_write_index' = IF next_read_index = cached_write_index
                             THEN next_write_index ELSE cached_write_index
    /\ IF next_read_index = cached_write_index'
       THEN cstate' = "asserted" /\ UNCHANGED <<next_read_index, copy>>
       ELSE /\ next_read_index' = wrapped(next_read_index)
            /\ copy' = NoValue
            /\ cstate' = "idle"
    /\ UNCHANGED <<store, producer>>

----------------------------------------------------------------------------

Next ==
    \/ getNextToWriteTo \/ SlotWritten \/ CheckRoom \/ Publish
    \/ getNextToRead \/ SlotRead \/ updateReadIndex

Spec == Init /\ [][Next]_vars

\* The consumer polls for ever.
FairSpec == Spec /\ WF_vars(getNextToRead \/ SlotRead \/ updateReadIndex)

----------------------------------------------------------------------------
(* Properties.                                                             *)

(* The indices, cached ones included, stay inside store_, and both threads *)
(* stay in the protocol of getNextToWriteTo/updateWriteIndex and           *)
(* getNextToRead/updateReadIndex.                                          *)
TypeOK ==
    /\ store \in [Index -> Values \cup {NoValue, Torn}]
    /\ next_write_index \in Index /\ cached_read_index \in Index
    /\ next_read_index \in Index /\ cached_write_index \in Index
    /\ pstate \in {"idle", "writing", "written", "publishing", "exited"}
    /\ value \in Values \cup {NoValue}
    /\ cstate \in {"idle", "reading", "read", "asserted"}
    /\ copy \in Values \cup {NoValue, Torn}

(* size(), as the thread that owns an index computes it.                   *)
size ==
    IF next_write_index >= next_read_index
    THEN next_write_index - next_read_index
    ELSE Slots - next_read_index + next_write_index

(* The slot that the consumer holds, from getNextToRead until it calls     *)
(* updateReadIndex, is never the one that the producer writes: the slot    *)
(* that is handed out before the check for room is the sacrificed one.     *)
SlotNotShared ==
    cstate \in {"reading", "read"} /\ pstate # "idle" => next_write_index # next_read_index

(* The assertion of updateReadIndex holds: a consumer that was given a     *)
(* slot finds the queue non-empty when it releases the slot.               *)
NoUnderflow == cstate # "asserted"

(* Whatever is published is read: a stale cached_write_index never hides   *)
(* an element for ever.                                                    *)
ElementsAreRead == size > 0 ~> (copy # NoValue \/ pstate = "exited")

\* The elements between the indices, oldest first.
SlotAt(i) == IF next_read_index + i < Slots
             THEN next_read_index + i ELSE next_read_index + i - Slots
Contents == [i \in 1 .. size |-> store[SlotAt(i - 1)]]

FIFO == INSTANCE BoundedFifo
          WITH queue <- Contents, exited <- (pstate = "exited"), Capacity <- Slots - 1

(* The queue is a FIFO of N-1 elements: each comes out whole, once and in  *)
(* order, and the producer ends the process only when the queue is full.   *)
ImplementsBoundedFifo == FIFO!Spec

=============================================================================
