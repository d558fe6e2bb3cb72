---------------------------- MODULE BoundedFifo ----------------------------
(***************************************************************************)
(* What a queue between two threads promises: what the producer hands over *)
(* comes out whole, once and in order; the process ends when the producer  *)
(* hands over to a queue that is full, and only then.  LFQueue implements  *)
(* it.                                                                     *)
(***************************************************************************)
EXTENDS Naturals, Sequences

CONSTANTS Values, NoValue, Capacity

VARIABLES
    queue,    \* handed over and not released
    value,    \* what the producer is handing over
    copy,     \* what the consumer has copied from the head
    exited

vars == <<queue, value, copy, exited>>

Init == queue = <<>> /\ value = NoValue /\ copy = NoValue /\ exited = FALSE

Offer ==
    /\ value = NoValue
    /\ value' \in Values
    /\ UNCHANGED <<queue, copy, exited>>

Push ==
    /\ value # NoValue /\ Len(queue) < Capacity
    /\ queue' = Append(queue, value)
    /\ value' = NoValue
    /\ UNCHANGED <<copy, exited>>

Copy ==
    /\ queue # <<>> /\ copy = NoValue
    /\ copy' = Head(queue)
    /\ UNCHANGED <<queue, value, exited>>

Release ==
    /\ queue # <<>> /\ copy = Head(queue)
    /\ queue' = Tail(queue)
    /\ copy' = NoValue
    /\ UNCHANGED <<value, exited>>

Overflow ==
    /\ value # NoValue /\ Len(queue) = Capacity
    /\ exited' = TRUE
    /\ UNCHANGED <<queue, value, copy>>

Next == ~exited /\ (Offer \/ Push \/ Copy \/ Release \/ Overflow)

Spec == Init /\ [][Next]_vars

=============================================================================
