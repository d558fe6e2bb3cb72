-------------------------- MODULE OrderFlow_proofs --------------------------
(***************************************************************************)
(* A client has one order a side, its position keeps the limit and its     *)
(* slots say what the book holds, for every clip, limit and number of      *)
(* orders and restarts.                                                    *)
(***************************************************************************)
EXTENDS OrderFlow, SequenceTheorems, FiniteSetTheorems, WellFoundedInduction, TLAPS

----------------------------------------------------------------------------
(* The inductive invariant.                                                *)

States == {"INVALID", "PENDING_NEW", "LIVE", "PENDING_CANCEL", "DEAD"}
Slots == [order_id : Nat, price : Prices \cup {NoPrice}, qty : Nat, order_state : States]
Orders == [order_id : Nat, side : Sides, leaves_qty : Nat \ {0}]
Requests == [type : {"NEW", "CANCEL"}, order_id : Nat, side : Sides, qty : Nat]
ResponseTypes == {"ACCEPTED", "INVALID", "FILLED", "CANCELED", "CANCEL_REJECTED"}
Responses == { r \in [type : ResponseTypes, order_id : Nat, side : Sides \cup {NoSide},
                      exec_qty : Nat, leaves_qty : Nat, orphan : BOOLEAN] :
                 r.type # "CANCEL_REJECTED" => r.side \in Sides }

TypeOK ==
    /\ ticker_side_order \in [Sides -> Slots]
    /\ next_order_id \in Nat /\ position \in Int
    /\ outgoing_requests \in Seq(Requests) /\ incoming_responses \in Seq(Responses)
    /\ \A i \in 1 .. Len(outgoing_requests) :
          outgoing_requests[i].type = "NEW" => outgoing_requests[i].qty # 0
    /\ \A i \in 1 .. Len(incoming_responses) :
          incoming_responses[i].type # "FILLED" => incoming_responses[i].exec_qty = 0
    /\ live \subseteq Orders /\ orphans \subseteq Orders
    /\ stale_requests \in 0 .. Len(outgoing_requests)
    /\ registered \in BOOLEAN /\ mixed \in BOOLEAN

\* An order is in one place only.  A process has no order in the book while
\* requests of an earlier one wait, or before it has a session, without which
\* it is sent nothing.
BookInv ==
    /\ \A o, p \in live \cup orphans : o.order_id = p.order_id => o = p
    /\ live \cap orphans = {}
    /\ stale_requests # 0 => live = {}
    /\ ~registered => live = {} /\ incoming_responses = <<>>

\* The following are about one side: its slot, the requests q of which the
\* first st are stale, the orders in the book and the responses s.
News(q, st, side) == { i \in st + 1 .. Len(q) : q[i].type = "NEW" /\ q[i].side = side }
Resting(book, side) == { o \in book : o.side = side }
IsOwn(r, side) == r.side = side /\ ~r.orphan
Own(s, i, side) == i \in 1 .. Len(s) /\ IsOwn(s[i], side)
FillAt(s, i, side) == Own(s, i, side) /\ s[i].type = "FILLED"
EndAt(s, i, side) ==
    Own(s, i, side) /\ (s[i].type = "CANCELED" \/ (s[i].type = "FILLED" /\ s[i].leaves_qty = 0))
AcceptedAt(s, i, side) == Own(s, i, side) /\ s[i].type = "ACCEPTED"
NoFill(s, side) == \A i \in 1 .. Len(s) : ~FillAt(s, i, side) /\ ~EndAt(s, i, side)

\* One order at most is on its way to the book or in it.
OneOpen(q, st, book, side) ==
    /\ \A i, j \in News(q, st, side) : i = j
    /\ \A o, p \in Resting(book, side) : o = p
    /\ News(q, st, side) = {} \/ Resting(book, side) = {}
\* A slot that takes an order has none, and nothing of an earlier one comes.
FreeSlot(slot, q, st, book, s, side) ==
    slot.order_state \in {"INVALID", "DEAD"} =>
        /\ News(q, st, side) = {} /\ Resting(book, side) = {}
        /\ NoFill(s, side)
\* An order on its way is the slot's.
NewSlot(slot, q, st, s, side) ==
    \A i \in News(q, st, side) :
        /\ slot.order_state = "PENDING_NEW" /\ slot.order_id = q[i].order_id /\ slot.qty = q[i].qty
        /\ NoFill(s, side)
\* The last response to an order is the end of it.
EndsLast(book, s, side) ==
    \A i \in 1 .. Len(s) : EndAt(s, i, side) =>
        /\ Resting(book, side) = {}
        /\ \A j \in i + 1 .. Len(s) : ~FillAt(s, j, side) /\ ~EndAt(s, j, side)
\* An order that was accepted rests, or its end is reported.
AcceptedRests(slot, book, s, side) ==
    /\ \A i \in 1 .. Len(s) : AcceptedAt(s, i, side) =>
          Resting(book, side) # {} \/ \E j \in i + 1 .. Len(s) : EndAt(s, j, side)
    /\ slot.order_state = "LIVE" =>
          Resting(book, side) # {} \/ \E j \in 1 .. Len(s) : EndAt(s, j, side)
\* The quantity of a resting order is the one last reported.
LastReported(slot, o, s, side) ==
    /\ (\A i \in 1 .. Len(s) : ~FillAt(s, i, side)) => slot.qty = o.leaves_qty
    /\ \A i \in 1 .. Len(s) :
          FillAt(s, i, side) /\ (\A j \in i + 1 .. Len(s) : ~FillAt(s, j, side)) =>
             s[i].leaves_qty = o.leaves_qty
\* A resting order is the slot's; what the slot waits for is on its way.
RestingSlot(slot, q, st, book, s, side) ==
    \A o \in Resting(book, side) :
        /\ slot.order_id = o.order_id
        /\ slot.order_state = "PENDING_NEW" => \E i \in 1 .. Len(s) : AcceptedAt(s, i, side)
        /\ slot.order_state = "PENDING_CANCEL" =>
              \E i \in st + 1 .. Len(q) : /\ q[i].type = "CANCEL" /\ q[i].side = side
                                          /\ q[i].order_id = o.order_id
        /\ LastReported(slot, o, s, side)

SideOk(slot, q, st, book, s, side) ==
    /\ OneOpen(q, st, book, side)
    /\ FreeSlot(slot, q, st, book, s, side)
    /\ NewSlot(slot, q, st, s, side)
    /\ EndsLast(book, s, side)
    /\ AcceptedRests(slot, book, s, side)
    /\ RestingSlot(slot, q, st, book, s, side)

SideInv ==
    ~mixed => \A side \in Sides :
        SideOk(ticker_side_order[side], outgoing_requests, stale_requests, live,
               incoming_responses, side)

(* What an order of a side may still add to the position.                  *)

Execs(s, side) == [i \in 1 .. Len(s) |-> IF IsOwn(s[i], side) THEN s[i].exec_qty ELSE 0]
RestQty(book, side) == MapThenSumSet(LAMBDA o : o.leaves_qty, Resting(book, side))
NewQty(q, st, side) == MapThenSumSet(LAMBDA i : q[i].qty, News(q, st, side))
Exposure(q, st, book, s, side) ==
    Total(Execs(s, side)) + RestQty(book, side) + NewQty(q, st, side)

Within(side, p, e) == IF side = "BUY" THEN p + e <= max_position ELSE p - e >= -max_position

ExposureInv ==
    ~mixed => \A side \in Sides :
        Within(side, position, Exposure(outgoing_requests, stale_requests, live,
                                        incoming_responses, side))

IInv == TypeOK /\ BookInv /\ SideInv /\ ExposureInv

----------------------------------------------------------------------------
(* Requests: one is added, one is taken.                                   *)

PopStale(st) == IF st = 0 THEN 0 ELSE st - 1

(* A request sent adds at most itself to the NEWs under way.               *)
LEMMA NewsAppend ==
    ASSUME NEW q \in Seq(Requests), NEW r \in Requests, NEW st \in 0 .. Len(q), NEW side \in Sides
    PROVE  /\ \A i \in News(q, st, side) : i \in News(Append(q, r), st, side)
           /\ \A i \in News(Append(q, r), st, side) :
                 i \in News(q, st, side) \/ (i = Len(q) + 1 /\ r.type = "NEW" /\ r.side = side)
           /\ r.type = "NEW" /\ r.side = side => Len(q) + 1 \in News(Append(q, r), st, side)
           /\ \A i \in 1 .. Len(q) : Append(q, r)[i] = q[i]
           /\ Append(q, r)[Len(q) + 1] = r
           /\ Len(Append(q, r)) = Len(q) + 1
           /\ Append(q, r) \in Seq(Requests)
<1>1. /\ \A i \in 1 .. Len(q) : Append(q, r)[i] = q[i]
      /\ Append(q, r)[Len(q) + 1] = r
      /\ Len(Append(q, r)) = Len(q) + 1
      /\ Append(q, r) \in Seq(Requests)
  OBVIOUS
<1>2. Len(q) \in Nat
  OBVIOUS
<1> QED BY <1>1, <1>2 DEF News

(* A request taken removes at most itself from them.                       *)
LEMMA NewsTail ==
    ASSUME NEW q \in Seq(Requests), q # <<>>, NEW st \in 0 .. Len(q), NEW side \in Sides
    PROVE  /\ \A i \in News(Tail(q), PopStale(st), side) : i + 1 \in News(q, st, side)
           /\ \A i \in News(q, st, side) :
                 i - 1 \in News(Tail(q), PopStale(st), side) \/ (i = 1 /\ st = 0)
           /\ \A i \in 1 .. Len(q) - 1 : Tail(q)[i] = q[i + 1]
           /\ Len(Tail(q)) = Len(q) - 1
           /\ PopStale(st) \in 0 .. Len(Tail(q))
           /\ Head(q) = q[1] /\ q[1] \in Requests
           /\ Tail(q) \in Seq(Requests) /\ Len(q) \in Nat \ {0}
<1>1. /\ \A i \in 1 .. Len(q) - 1 : Tail(q)[i] = q[i + 1]
      /\ Len(Tail(q)) = Len(q) - 1
      /\ Head(q) = q[1] /\ q[1] \in Requests
      /\ Tail(q) \in Seq(Requests)
  OBVIOUS
<1>2. Len(q) \in Nat \ {0}
  OBVIOUS
<1>3. PopStale(st) \in 0 .. Len(Tail(q))
  BY <1>1, <1>2 DEF PopStale
<1> QED BY <1>1, <1>2, <1>3 DEF News, PopStale

(* Responses.                                                              *)

(* A response sent adds at most itself to the ones of a side's order.      *)
LEMMA OwnAppend ==
    ASSUME NEW s \in Seq(Responses), NEW r \in Responses, NEW side \in Sides, NEW i
    PROVE  /\ Own(Append(s, r), i, side) <=>
                 Own(s, i, side) \/ (i = Len(s) + 1 /\ IsOwn(r, side))
           /\ i \in 1 .. Len(s) => Append(s, r)[i] = s[i]
           /\ Append(s, r)[Len(s) + 1] = r
           /\ Len(Append(s, r)) = Len(s) + 1
           /\ Append(s, r) \in Seq(Responses) /\ Len(s) \in Nat
<1>1. /\ i \in 1 .. Len(s) => Append(s, r)[i] = s[i]
      /\ Append(s, r)[Len(s) + 1] = r
      /\ Len(Append(s, r)) = Len(s) + 1
      /\ Append(s, r) \in Seq(Responses)
      /\ Len(s) \in Nat
  OBVIOUS
<1> QED BY <1>1 DEF Own

(* A response taken moves the others up by one.                            *)
LEMMA OwnTail ==
    ASSUME NEW s \in Seq(Responses), s # <<>>, NEW side \in Sides, NEW i \in Nat
    PROVE  /\ Own(Tail(s), i, side) <=> i \in 1 .. Len(s) - 1 /\ Own(s, i + 1, side)
           /\ i \in 1 .. Len(s) - 1 => Tail(s)[i] = s[i + 1]
           /\ Len(Tail(s)) = Len(s) - 1
           /\ Head(s) = s[1] /\ s[1] \in Responses
           /\ Tail(s) \in Seq(Responses) /\ Len(s) \in Nat \ {0}
<1>1. /\ \A k \in 1 .. Len(s) - 1 : Tail(s)[k] = s[k + 1]
      /\ Len(Tail(s)) = Len(s) - 1
      /\ Head(s) = s[1] /\ s[1] \in Responses
      /\ Tail(s) \in Seq(Responses)
  OBVIOUS
<1>2. Len(s) \in Nat \ {0}
  OBVIOUS
<1> QED BY <1>1, <1>2 DEF Own

(* The fills, ends and acceptances under way after a response is sent.     *)
LEMMA ResponsesAppend ==
    ASSUME NEW s \in Seq(Responses), NEW r \in Responses, NEW side \in Sides
    PROVE  LET s2 == Append(s, r) IN
           /\ \A i : FillAt(s2, i, side) <=>
                 FillAt(s, i, side) \/ (i = Len(s) + 1 /\ IsOwn(r, side) /\ r.type = "FILLED")
           /\ \A i : EndAt(s2, i, side) <=>
                 EndAt(s, i, side) \/ (/\ i = Len(s) + 1 /\ IsOwn(r, side)
                                       /\ \/ r.type = "CANCELED"
                                          \/ r.type = "FILLED" /\ r.leaves_qty = 0)
           /\ \A i : AcceptedAt(s2, i, side) <=>
                 AcceptedAt(s, i, side) \/ (i = Len(s) + 1 /\ IsOwn(r, side) /\ r.type = "ACCEPTED")
           /\ \A i \in 1 .. Len(s) : s2[i] = s[i]
           /\ s2[Len(s) + 1] = r
           /\ Len(s2) = Len(s) + 1 /\ Len(s) \in Nat
           /\ s2 \in Seq(Responses)
<1> DEFINE s2 == Append(s, r)
<1>1. /\ \A i \in 1 .. Len(s) : s2[i] = s[i]
      /\ s2[Len(s) + 1] = r
      /\ Len(s2) = Len(s) + 1 /\ Len(s) \in Nat
      /\ s2 \in Seq(Responses)
  BY OwnAppend
<1>2. \A i : Own(s2, i, side) <=> Own(s, i, side) \/ (i = Len(s) + 1 /\ IsOwn(r, side))
  BY OwnAppend
<1>3. \A i : Own(s, i, side) => i \in 1 .. Len(s) /\ i # Len(s) + 1
  BY <1>1 DEF Own
<1> HIDE DEF s2
<1>4. ASSUME NEW i
      PROVE  /\ FillAt(s2, i, side) <=>
                   FillAt(s, i, side) \/ (i = Len(s) + 1 /\ IsOwn(r, side) /\ r.type = "FILLED")
             /\ EndAt(s2, i, side) <=>
                   EndAt(s, i, side) \/ (/\ i = Len(s) + 1 /\ IsOwn(r, side)
                                         /\ \/ r.type = "CANCELED"
                                            \/ r.type = "FILLED" /\ r.leaves_qty = 0)
             /\ AcceptedAt(s2, i, side) <=>
                   AcceptedAt(s, i, side) \/ (i = Len(s) + 1 /\ IsOwn(r, side) /\ r.type = "ACCEPTED")
  BY <1>1, <1>2, <1>3 DEF FillAt, EndAt, AcceptedAt
<1> QED BY <1>1, <1>4 DEF s2

(* And after one is taken.                                                 *)
LEMMA ResponsesTail ==
    ASSUME NEW s \in Seq(Responses), s # <<>>, NEW side \in Sides
    PROVE  LET s2 == Tail(s) IN
           /\ \A i \in Nat : FillAt(s2, i, side) <=> i \in 1 .. Len(s) - 1 /\ FillAt(s, i + 1, side)
           /\ \A i \in Nat : EndAt(s2, i, side) <=> i \in 1 .. Len(s) - 1 /\ EndAt(s, i + 1, side)
           /\ \A i \in Nat :
                 AcceptedAt(s2, i, side) <=> i \in 1 .. Len(s) - 1 /\ AcceptedAt(s, i + 1, side)
           /\ \A i \in 1 .. Len(s) - 1 : s2[i] = s[i + 1]
           /\ Len(s2) = Len(s) - 1 /\ Len(s) \in Nat \ {0}
           /\ Head(s) = s[1] /\ s[1] \in Responses
           /\ s2 \in Seq(Responses)
<1> DEFINE s2 == Tail(s)
<1>1. /\ \A i \in 1 .. Len(s) - 1 : s2[i] = s[i + 1]
      /\ Len(s2) = Len(s) - 1 /\ Len(s) \in Nat \ {0}
      /\ Head(s) = s[1] /\ s[1] \in Responses
      /\ s2 \in Seq(Responses)
  BY OwnTail
<1>2. \A i \in Nat : Own(s2, i, side) <=> i \in 1 .. Len(s) - 1 /\ Own(s, i + 1, side)
  BY OwnTail
<1> HIDE DEF s2
<1>3. ASSUME NEW i \in Nat
      PROVE  /\ FillAt(s2, i, side) <=> i \in 1 .. Len(s) - 1 /\ FillAt(s, i + 1, side)
             /\ EndAt(s2, i, side) <=> i \in 1 .. Len(s) - 1 /\ EndAt(s, i + 1, side)
             /\ AcceptedAt(s2, i, side) <=> i \in 1 .. Len(s) - 1 /\ AcceptedAt(s, i + 1, side)
  BY <1>1, <1>2 DEF FillAt, EndAt, AcceptedAt
<1> QED BY <1>1, <1>3 DEF s2

(* They are at indices of the sequence of responses.                       *)
LEMMA AtAnIndex ==
    ASSUME NEW s \in Seq(Responses), NEW side \in Sides, NEW i
    PROVE  /\ FillAt(s, i, side) => i \in 1 .. Len(s)
           /\ EndAt(s, i, side) => i \in 1 .. Len(s)
           /\ AcceptedAt(s, i, side) => i \in 1 .. Len(s)
           /\ Len(s) \in Nat
BY DEF FillAt, EndAt, AcceptedAt, Own

----------------------------------------------------------------------------
(* One side, as the client moves its order.                                *)

(* A request that is no NEW of a side leaves the side as it was.           *)
LEMMA SideRequestAdded ==
    ASSUME NEW q \in Seq(Requests), NEW r \in Requests, NEW st \in 0 .. Len(q), NEW side \in Sides,
           NEW slot, NEW book, NEW s \in Seq(Responses),
           SideOk(slot, q, st, book, s, side),
           ~(r.type = "NEW" /\ r.side = side)
    PROVE  SideOk(slot, Append(q, r), st, book, s, side)
<1> DEFINE q2 == Append(q, r)
<1>1. /\ \A i \in News(q, st, side) : i \in News(q2, st, side)
      /\ \A i \in News(q2, st, side) : i \in News(q, st, side)
      /\ \A i \in 1 .. Len(q) : q2[i] = q[i]
      /\ Len(q2) = Len(q) + 1 /\ Len(q) \in Nat
  BY NewsAppend
<1>2. \A i \in News(q, st, side) : i \in 1 .. Len(q)
  BY DEF News
<1> HIDE DEF q2
<1>3. OneOpen(q2, st, book, side) /\ FreeSlot(slot, q2, st, book, s, side)
  <2>1. News(q2, st, side) = News(q, st, side)
    BY <1>1
  <2> QED BY <2>1 DEF SideOk, OneOpen, FreeSlot
<1>4. NewSlot(slot, q2, st, s, side)
  BY <1>1, <1>2 DEF SideOk, NewSlot
<1>5. RestingSlot(slot, q2, st, book, s, side)
  BY <1>1 DEF SideOk, RestingSlot
<1> QED BY <1>3, <1>4, <1>5 DEF SideOk, q2

\* The slot is sent to be cancelled.
LEMMA SideCancelSent ==
    ASSUME NEW q \in Seq(Requests), NEW r \in Requests, NEW st \in 0 .. Len(q), NEW side \in Sides,
           NEW slot \in Slots, NEW book, NEW s \in Seq(Responses),
           SideOk(slot, q, st, book, s, side), slot.order_state = "LIVE",
           r.type = "CANCEL", r.side = side, r.order_id = slot.order_id
    PROVE  SideOk(cancelOrder(slot), Append(q, r), st, book, s, side)
<1> DEFINE q2 == Append(q, r)
           slot2 == cancelOrder(slot)
<1>1. SideOk(slot, q2, st, book, s, side)
  BY SideRequestAdded
<1>2. /\ slot2.order_state = "PENDING_CANCEL" /\ slot2.order_id = slot.order_id
      /\ slot2.qty = slot.qty
  BY DEF cancelOrder, Slots
<1>3. Len(q) + 1 \in st + 1 .. Len(q2) /\ q2[Len(q) + 1] = r
  BY NewsAppend
<1> HIDE DEF q2, slot2
<1>4. News(q2, st, side) = {}
  BY <1>1 DEF SideOk, NewSlot
<1>5. FreeSlot(slot2, q2, st, book, s, side) /\ NewSlot(slot2, q2, st, s, side)
  BY <1>2, <1>4 DEF FreeSlot, NewSlot
<1>6. AcceptedRests(slot2, book, s, side)
  BY <1>1, <1>2 DEF SideOk, AcceptedRests
<1>7. RestingSlot(slot2, q2, st, book, s, side)
  BY <1>1, <1>2, <1>3 DEF SideOk, RestingSlot, LastReported
<1> QED BY <1>1, <1>5, <1>6, <1>7 DEF SideOk, q2, slot2

\* The slot takes a new order.
LEMMA SideOrderSent ==
    ASSUME NEW q \in Seq(Requests), NEW r \in Requests, NEW st \in 0 .. Len(q), NEW side \in Sides,
           NEW slot \in Slots, NEW slot2, NEW book, NEW s \in Seq(Responses),
           SideOk(slot, q, st, book, s, side), slot.order_state \in {"INVALID", "DEAD"},
           r.type = "NEW", r.side = side,
           slot2.order_state = "PENDING_NEW", slot2.order_id = r.order_id, slot2.qty = r.qty
    PROVE  SideOk(slot2, Append(q, r), st, book, s, side)
<1> DEFINE q2 == Append(q, r)
<1>1. News(q, st, side) = {} /\ Resting(book, side) = {} /\ NoFill(s, side)
  BY DEF SideOk, FreeSlot
<1>2. News(q2, st, side) = {Len(q) + 1} /\ q2[Len(q) + 1] = r
  BY NewsAppend, <1>1
<1> HIDE DEF q2
<1>3. OneOpen(q2, st, book, side)
  BY <1>1, <1>2 DEF OneOpen
<1>4. FreeSlot(slot2, q2, st, book, s, side) /\ NewSlot(slot2, q2, st, s, side)
  BY <1>1, <1>2 DEF FreeSlot, NewSlot
<1>5. AcceptedRests(slot2, book, s, side)
  BY DEF SideOk, AcceptedRests
<1>6. RestingSlot(slot2, q2, st, book, s, side)
  BY <1>1 DEF RestingSlot
<1> QED BY <1>3, <1>4, <1>5, <1>6 DEF SideOk, q2

----------------------------------------------------------------------------
(* One side, as the exchange takes a request.                              *)

\* A request that is neither this side's new order nor the cancel of its
\* resting order, or one whose order no longer rests.
LEMMA SideRequestTaken ==
    ASSUME NEW q \in Seq(Requests), q # <<>>, NEW st \in 0 .. Len(q), NEW side \in Sides,
           NEW slot, NEW book, NEW s \in Seq(Responses),
           SideOk(slot, q, st, book, s, side),
           st = 0 /\ Head(q).type = "CANCEL" =>
               \A o \in Resting(book, side) : o.order_id # Head(q).order_id
    PROVE  SideOk(slot, Tail(q), PopStale(st), book, s, side)
<1> DEFINE q2 == Tail(q)
           st2 == PopStale(st)
<1>1. /\ \A i \in News(q2, st2, side) : i + 1 \in News(q, st, side) /\ q2[i] = q[i + 1]
      /\ \A i \in News(q2, st2, side) : i \in Int
  BY NewsTail DEF News
<1>2. /\ \A i \in 1 .. Len(q) - 1 : q2[i] = q[i + 1]
      /\ Len(q2) = Len(q) - 1 /\ Head(q) = q[1] /\ Len(q) \in Nat \ {0}
  BY NewsTail
<1>3. /\ st = 0 => st2 = 0
      /\ st # 0 => st2 = st - 1
  BY DEF PopStale
<1> HIDE DEF q2, st2
<1>4. OneOpen(q2, st2, book, side)
  <2>1. \A i, j \in News(q2, st2, side) : i = j
    BY <1>1 DEF SideOk, OneOpen
  <2>2. News(q2, st2, side) # {} => News(q, st, side) # {}
    BY <1>1
  <2> QED BY <2>1, <2>2 DEF SideOk, OneOpen
<1>5. FreeSlot(slot, q2, st2, book, s, side)
  BY <1>1 DEF SideOk, FreeSlot
<1>6. NewSlot(slot, q2, st2, s, side)
  BY <1>1 DEF SideOk, NewSlot
<1>7. RestingSlot(slot, q2, st2, book, s, side)
  <2>1. SUFFICES ASSUME NEW o \in Resting(book, side), slot.order_state = "PENDING_CANCEL"
                 PROVE  \E i \in st2 + 1 .. Len(q2) :
                            q2[i].type = "CANCEL" /\ q2[i].side = side
                            /\ q2[i].order_id = o.order_id
    BY DEF SideOk, RestingSlot
  <2>2. PICK i \in st + 1 .. Len(q) :
           q[i].type = "CANCEL" /\ q[i].side = side /\ q[i].order_id = o.order_id
    BY <2>1 DEF SideOk, RestingSlot
  <2>3. ~(st = 0 /\ i = 1)
    BY <1>2, <2>2
  <2>4. i - 1 \in st2 + 1 .. Len(q2) /\ q2[i - 1] = q[i]
    BY <1>2, <1>3, <2>3
  <2> QED BY <2>2, <2>4
<1> QED BY <1>4, <1>5, <1>6, <1>7 DEF SideOk, q2, st2

\* A response that says nothing about this side's order.
LEMMA SideUnconcerned ==
    ASSUME NEW q, NEW st, NEW side \in Sides,
           NEW slot, NEW book, NEW s \in Seq(Responses), NEW r \in Responses,
           SideOk(slot, q, st, book, s, side),
           IsOwn(r, side) => r.type \in {"INVALID", "CANCEL_REJECTED"}
    PROVE  SideOk(slot, q, st, book, Append(s, r), side)
<1> DEFINE s2 == Append(s, r)
<1>1. /\ \A i : FillAt(s2, i, side) <=> FillAt(s, i, side)
      /\ \A i : EndAt(s2, i, side) <=> EndAt(s, i, side)
      /\ \A i : AcceptedAt(s2, i, side) <=> AcceptedAt(s, i, side)
  BY ResponsesAppend
<1>2. /\ \A i \in 1 .. Len(s) : s2[i] = s[i]
      /\ Len(s2) = Len(s) + 1
  BY ResponsesAppend
<1>3. /\ \A i : FillAt(s, i, side) => i \in 1 .. Len(s)
      /\ \A i : EndAt(s, i, side) => i \in 1 .. Len(s)
      /\ \A i : AcceptedAt(s, i, side) => i \in 1 .. Len(s)
      /\ Len(s) \in Nat
  BY AtAnIndex
<1> HIDE DEF s2
<1>4. NoFill(s2, side) <=> NoFill(s, side)
  BY <1>1, <1>2, <1>3 DEF NoFill
<1>5. OneOpen(q, st, book, side) /\ FreeSlot(slot, q, st, book, s2, side)
      /\ NewSlot(slot, q, st, s2, side)
  BY <1>4 DEF SideOk, FreeSlot, NewSlot
<1>6. EndsLast(book, s2, side)
  BY <1>1, <1>2, <1>3 DEF SideOk, EndsLast
<1>7. AcceptedRests(slot, book, s2, side)
  BY <1>1, <1>2, <1>3 DEF SideOk, AcceptedRests
<1>8. ASSUME NEW o \in Resting(book, side)
      PROVE  LastReported(slot, o, s2, side)
  <2>1. LastReported(slot, o, s, side)
    BY <1>8 DEF SideOk, RestingSlot
  <2> QED BY <1>1, <1>2, <1>3, <2>1 DEF LastReported
<1>9. RestingSlot(slot, q, st, book, s2, side)
  BY <1>1, <1>2, <1>3, <1>8 DEF SideOk, RestingSlot
<1> QED BY <1>5, <1>6, <1>7, <1>9 DEF SideOk, s2

\* The order on its way enters the book.
LEMMA SideAccepted ==
    ASSUME NEW q \in Seq(Requests), q # <<>>, NEW side \in Sides,
           NEW slot, NEW book, NEW book2, NEW s \in Seq(Responses), NEW r \in Responses, NEW order,
           SideOk(slot, q, 0, book, s, side),
           Head(q).type = "NEW", Head(q).side = side,
           order.side = side, order.order_id = Head(q).order_id, order.leaves_qty = Head(q).qty,
           Resting(book2, side) = Resting(book, side) \cup {order},
           r.type = "ACCEPTED", IsOwn(r, side)
    PROVE  SideOk(slot, Tail(q), 0, book2, Append(s, r), side)
<1> DEFINE q2 == Tail(q)
           s2 == Append(s, r)
<1>1. 1 \in News(q, 0, side) /\ Head(q) = q[1]
  BY NewsTail DEF News
<1>2. \A i \in News(q2, 0, side) : i + 1 \in News(q, 0, side) /\ i + 1 # 1
  BY NewsTail DEF News, PopStale
<1>3. /\ \A i : FillAt(s2, i, side) <=> FillAt(s, i, side)
      /\ \A i : EndAt(s2, i, side) <=> EndAt(s, i, side)
      /\ \A i : AcceptedAt(s2, i, side) <=> AcceptedAt(s, i, side) \/ i = Len(s) + 1
      /\ Len(s2) = Len(s) + 1 /\ Len(s) \in Nat
  BY ResponsesAppend
<1> HIDE DEF q2, s2
<1>4. News(q2, 0, side) = {} /\ Resting(book, side) = {} /\ Resting(book2, side) = {order}
  BY <1>1, <1>2 DEF SideOk, OneOpen
<1>5. /\ slot.order_state = "PENDING_NEW" /\ slot.order_id = q[1].order_id
      /\ slot.qty = q[1].qty /\ NoFill(s, side)
  BY <1>1 DEF SideOk, NewSlot
<1>6. \A i : ~FillAt(s2, i, side) /\ ~EndAt(s2, i, side)
  <2>1. \A i : (FillAt(s, i, side) \/ EndAt(s, i, side)) => i \in 1 .. Len(s)
    BY AtAnIndex
  <2> QED BY <1>3, <1>5, <2>1 DEF NoFill
<1>7. OneOpen(q2, 0, book2, side) /\ FreeSlot(slot, q2, 0, book2, s2, side)
      /\ NewSlot(slot, q2, 0, s2, side)
  BY <1>4, <1>5 DEF OneOpen, FreeSlot, NewSlot
<1>8. EndsLast(book2, s2, side) /\ AcceptedRests(slot, book2, s2, side)
  BY <1>4, <1>5, <1>6 DEF EndsLast, AcceptedRests
<1>9. LastReported(slot, order, s2, side)
  BY <1>1, <1>5, <1>6 DEF LastReported
<1>10. \E i \in 1 .. Len(s2) : AcceptedAt(s2, i, side)
  BY <1>3
<1>11. RestingSlot(slot, q2, 0, book2, s2, side)
  BY <1>1, <1>4, <1>5, <1>9, <1>10 DEF RestingSlot
<1> QED BY <1>7, <1>8, <1>11 DEF SideOk, q2, s2

\* The resting order leaves the book, cancelled or filled.
LEMMA SideEnded ==
    ASSUME NEW q, NEW st, NEW side \in Sides,
           NEW slot, NEW book, NEW book2, NEW s \in Seq(Responses), NEW r \in Responses,
           SideOk(slot, q, st, book, s, side),
           Resting(book, side) # {}, Resting(book2, side) = {},
           IsOwn(r, side), r.type = "CANCELED" \/ (r.type = "FILLED" /\ r.leaves_qty = 0)
    PROVE  SideOk(slot, q, st, book2, Append(s, r), side)
<1> DEFINE s2 == Append(s, r)
<1>1. /\ \A i : FillAt(s2, i, side) => FillAt(s, i, side) \/ i = Len(s) + 1
      /\ \A i : EndAt(s2, i, side) <=> EndAt(s, i, side) \/ i = Len(s) + 1
      /\ \A i : AcceptedAt(s2, i, side) <=> AcceptedAt(s, i, side)
      /\ Len(s2) = Len(s) + 1 /\ Len(s) \in Nat
  BY ResponsesAppend
<1>2. /\ \A i : FillAt(s, i, side) => i \in 1 .. Len(s)
      /\ \A i : EndAt(s, i, side) => i \in 1 .. Len(s)
      /\ \A i : AcceptedAt(s, i, side) => i \in 1 .. Len(s)
  BY AtAnIndex
<1> HIDE DEF s2
<1>3. /\ News(q, st, side) = {} /\ slot.order_state \notin {"INVALID", "DEAD"}
      /\ \A i : ~EndAt(s, i, side)
  BY <1>2 DEF SideOk, OneOpen, FreeSlot, EndsLast
<1>4. OneOpen(q, st, book2, side) /\ FreeSlot(slot, q, st, book2, s2, side)
      /\ NewSlot(slot, q, st, s2, side) /\ RestingSlot(slot, q, st, book2, s2, side)
  BY <1>3 DEF OneOpen, FreeSlot, NewSlot, RestingSlot
<1>5. EndsLast(book2, s2, side)
  BY <1>1, <1>2, <1>3 DEF EndsLast
<1>6. AcceptedRests(slot, book2, s2, side)
  BY <1>1, <1>2 DEF AcceptedRests
<1> QED BY <1>4, <1>5, <1>6 DEF SideOk, s2

\* The resting order is filled in part.
LEMMA SidePartlyFilled ==
    ASSUME NEW q, NEW st, NEW side \in Sides,
           NEW slot, NEW book, NEW book2, NEW s \in Seq(Responses), NEW r \in Responses,
           NEW o, NEW o2,
           SideOk(slot, q, st, book, s, side),
           Resting(book, side) = {o}, Resting(book2, side) = {o2}, o2.order_id = o.order_id,
           IsOwn(r, side), r.type = "FILLED", r.leaves_qty = o2.leaves_qty, r.leaves_qty # 0
    PROVE  SideOk(slot, q, st, book2, Append(s, r), side)
<1> DEFINE s2 == Append(s, r)
<1>1. /\ \A i : FillAt(s2, i, side) <=> FillAt(s, i, side) \/ i = Len(s) + 1
      /\ \A i : EndAt(s2, i, side) <=> EndAt(s, i, side)
      /\ \A i : AcceptedAt(s2, i, side) <=> AcceptedAt(s, i, side)
      /\ \A i \in 1 .. Len(s) : s2[i] = s[i]
      /\ s2[Len(s) + 1] = r
      /\ Len(s2) = Len(s) + 1 /\ Len(s) \in Nat
  BY ResponsesAppend
<1>2. /\ \A i : FillAt(s, i, side) => i \in 1 .. Len(s)
      /\ \A i : EndAt(s, i, side) => i \in 1 .. Len(s)
      /\ \A i : AcceptedAt(s, i, side) => i \in 1 .. Len(s)
  BY AtAnIndex
<1> HIDE DEF s2
<1>3. /\ News(q, st, side) = {} /\ slot.order_state \notin {"INVALID", "DEAD"}
      /\ \A i : ~EndAt(s, i, side)
  BY <1>2 DEF SideOk, OneOpen, FreeSlot, EndsLast
<1>4. OneOpen(q, st, book2, side) /\ FreeSlot(slot, q, st, book2, s2, side)
      /\ NewSlot(slot, q, st, s2, side)
  BY <1>3 DEF OneOpen, FreeSlot, NewSlot
<1>5. EndsLast(book2, s2, side) /\ AcceptedRests(slot, book2, s2, side)
  BY <1>1, <1>3 DEF EndsLast, AcceptedRests
<1>6. LastReported(slot, o2, s2, side)
  BY <1>1, <1>2 DEF LastReported
<1>7. RestingSlot(slot, q, st, book2, s2, side)
  BY <1>1, <1>2, <1>6 DEF SideOk, RestingSlot
<1> QED BY <1>4, <1>5, <1>7 DEF SideOk, s2

----------------------------------------------------------------------------
(* One side, as the client handles a response.                             *)

\* A response that says nothing about this side's order.
LEMMA SideNotTold ==
    ASSUME NEW q, NEW st, NEW side \in Sides,
           NEW slot, NEW book, NEW s \in Seq(Responses), s # <<>>,
           SideOk(slot, q, st, book, s, side),
           IsOwn(Head(s), side) => Head(s).type \in {"INVALID", "CANCEL_REJECTED"}
    PROVE  SideOk(slot, q, st, book, Tail(s), side)
<1> DEFINE s2 == Tail(s)
<1>1. /\ \A i \in Nat : FillAt(s2, i, side) <=> i \in 1 .. Len(s) - 1 /\ FillAt(s, i + 1, side)
      /\ \A i \in Nat : EndAt(s2, i, side) <=> i \in 1 .. Len(s) - 1 /\ EndAt(s, i + 1, side)
      /\ \A i \in Nat :
            AcceptedAt(s2, i, side) <=> i \in 1 .. Len(s) - 1 /\ AcceptedAt(s, i + 1, side)
      /\ \A i \in 1 .. Len(s) - 1 : s2[i] = s[i + 1]
      /\ Len(s2) = Len(s) - 1 /\ Len(s) \in Nat \ {0}
  BY ResponsesTail
<1>2. ~FillAt(s, 1, side) /\ ~EndAt(s, 1, side) /\ ~AcceptedAt(s, 1, side)
  BY ResponsesTail DEF FillAt, EndAt, AcceptedAt, Own
<1>3. /\ \A i : FillAt(s, i, side) => i \in 1 .. Len(s)
      /\ \A i : EndAt(s, i, side) => i \in 1 .. Len(s)
      /\ \A i : AcceptedAt(s, i, side) => i \in 1 .. Len(s)
  BY AtAnIndex
<1> HIDE DEF s2
<1>4. /\ \A i \in 2 .. Len(s) : FillAt(s, i, side) <=> FillAt(s2, i - 1, side)
      /\ \A i \in 2 .. Len(s) : EndAt(s, i, side) <=> EndAt(s2, i - 1, side)
      /\ \A i \in 2 .. Len(s) : AcceptedAt(s, i, side) <=> AcceptedAt(s2, i - 1, side)
  BY <1>1
<1>5. NoFill(s, side) => NoFill(s2, side)
  BY <1>1 DEF NoFill
<1>6. OneOpen(q, st, book, side) /\ FreeSlot(slot, q, st, book, s2, side)
      /\ NewSlot(slot, q, st, s2, side)
  BY <1>5 DEF SideOk, FreeSlot, NewSlot
<1>7. EndsLast(book, s2, side)
  <2> SUFFICES ASSUME NEW i \in 1 .. Len(s2), EndAt(s2, i, side)
               PROVE  /\ Resting(book, side) = {}
                      /\ \A j \in i + 1 .. Len(s2) : ~FillAt(s2, j, side) /\ ~EndAt(s2, j, side)
    BY DEF EndsLast
  <2>1. i + 1 \in 1 .. Len(s) /\ EndAt(s, i + 1, side)
    BY <1>1
  <2>2. /\ Resting(book, side) = {}
        /\ \A j \in i + 1 + 1 .. Len(s) : ~FillAt(s, j, side) /\ ~EndAt(s, j, side)
    BY <2>1 DEF SideOk, EndsLast
  <2> QED BY <1>1, <2>2
<1>8. AcceptedRests(slot, book, s2, side)
  <2>1. ASSUME NEW i \in 1 .. Len(s2), AcceptedAt(s2, i, side), Resting(book, side) = {}
        PROVE  \E j \in i + 1 .. Len(s2) : EndAt(s2, j, side)
    <3>1. i + 1 \in 1 .. Len(s) /\ AcceptedAt(s, i + 1, side)
      BY <1>1, <2>1
    <3>2. PICK j \in i + 1 + 1 .. Len(s) : EndAt(s, j, side)
      BY <2>1, <3>1 DEF SideOk, AcceptedRests
    <3>3. j - 1 \in i + 1 .. Len(s2) /\ EndAt(s2, j - 1, side)
      BY <1>1, <1>4, <3>2
    <3> QED BY <3>3
  <2>2. ASSUME slot.order_state = "LIVE", Resting(book, side) = {}
        PROVE  \E j \in 1 .. Len(s2) : EndAt(s2, j, side)
    <3>1. PICK j \in 1 .. Len(s) : EndAt(s, j, side)
      BY <2>2 DEF SideOk, AcceptedRests
    <3>2. j - 1 \in 1 .. Len(s2) /\ EndAt(s2, j - 1, side)
      BY <1>1, <1>2, <1>4, <3>1
    <3> QED BY <3>2
  <2> QED BY <2>1, <2>2 DEF AcceptedRests
<1>9. RestingSlot(slot, q, st, book, s2, side)
  <2> SUFFICES ASSUME NEW o \in Resting(book, side)
               PROVE  /\ slot.order_state = "PENDING_NEW" =>
                            \E i \in 1 .. Len(s2) : AcceptedAt(s2, i, side)
                      /\ LastReported(slot, o, s2, side)
    BY DEF SideOk, RestingSlot
  <2>1. LastReported(slot, o, s, side)
    BY DEF SideOk, RestingSlot
  <2>2. ASSUME slot.order_state = "PENDING_NEW"
        PROVE  \E i \in 1 .. Len(s2) : AcceptedAt(s2, i, side)
    <3>1. PICK i \in 1 .. Len(s) : AcceptedAt(s, i, side)
      BY <2>2 DEF SideOk, RestingSlot
    <3>2. i - 1 \in 1 .. Len(s2) /\ AcceptedAt(s2, i - 1, side)
      BY <1>1, <1>2, <1>4, <3>1
    <3> QED BY <3>2
  <2>3. ASSUME \A i \in 1 .. Len(s2) : ~FillAt(s2, i, side)
        PROVE  slot.qty = o.leaves_qty
    <3>1. \A i \in 1 .. Len(s) : ~FillAt(s, i, side)
      BY <1>1, <1>2, <1>4, <2>3
    <3> QED BY <2>1, <3>1 DEF LastReported
  <2>4. ASSUME NEW i \in 1 .. Len(s2), FillAt(s2, i, side),
               \A j \in i + 1 .. Len(s2) : ~FillAt(s2, j, side)
        PROVE  s2[i].leaves_qty = o.leaves_qty
    <3>1. i + 1 \in 1 .. Len(s) /\ FillAt(s, i + 1, side) /\ s2[i] = s[i + 1]
      BY <1>1, <2>4
    <3>2. \A j \in i + 1 + 1 .. Len(s) : ~FillAt(s, j, side)
      BY <1>1, <1>4, <2>4
    <3> QED BY <2>1, <3>1, <3>2 DEF LastReported
  <2> QED BY <2>2, <2>3, <2>4 DEF LastReported
<1> QED BY <1>6, <1>7, <1>8, <1>9 DEF SideOk, s2

\* The order was accepted.
LEMMA SideToldAccepted ==
    ASSUME NEW q, NEW st, NEW side \in Sides, NEW slot \in Slots,
           NEW book, NEW s \in Seq(Responses), s # <<>>,
           SideOk(slot, q, st, book, s, side),
           IsOwn(Head(s), side), Head(s).type = "ACCEPTED"
    PROVE  SideOk([slot EXCEPT !.order_state = "LIVE"], q, st, book, Tail(s), side)
<1> DEFINE s2 == Tail(s)
           slot2 == [slot EXCEPT !.order_state = "LIVE"]
<1>1. /\ \A i \in Nat : FillAt(s2, i, side) <=> i \in 1 .. Len(s) - 1 /\ FillAt(s, i + 1, side)
      /\ \A i \in Nat : EndAt(s2, i, side) <=> i \in 1 .. Len(s) - 1 /\ EndAt(s, i + 1, side)
      /\ \A i \in Nat :
            AcceptedAt(s2, i, side) <=> i \in 1 .. Len(s) - 1 /\ AcceptedAt(s, i + 1, side)
      /\ \A i \in 1 .. Len(s) - 1 : s2[i] = s[i + 1]
      /\ Len(s2) = Len(s) - 1 /\ Len(s) \in Nat \ {0}
  BY ResponsesTail
<1>2. ~FillAt(s, 1, side) /\ ~EndAt(s, 1, side) /\ AcceptedAt(s, 1, side)
  BY ResponsesTail DEF FillAt, EndAt, AcceptedAt, Own
<1>3. slot2.order_state = "LIVE" /\ slot2.order_id = slot.order_id /\ slot2.qty = slot.qty
  BY DEF Slots
<1> HIDE DEF s2, slot2
<1>4. /\ \A i \in 2 .. Len(s) : FillAt(s, i, side) <=> FillAt(s2, i - 1, side)
      /\ \A i \in 2 .. Len(s) : EndAt(s, i, side) <=> EndAt(s2, i - 1, side)
  BY <1>1
<1>5. Resting(book, side) # {} \/ \E j \in 2 .. Len(s) : EndAt(s, j, side)
  BY <1>1, <1>2 DEF SideOk, AcceptedRests
<1>6. News(q, st, side) = {}
  <2>1. CASE Resting(book, side) # {}
    BY <2>1 DEF SideOk, OneOpen
  <2>2. CASE \E j \in 2 .. Len(s) : EndAt(s, j, side)
    <3>1. ~NoFill(s, side)
      BY <1>1, <2>2 DEF NoFill
    <3> QED BY <3>1 DEF SideOk, NewSlot
  <2> QED BY <1>5, <2>1, <2>2
<1>7. OneOpen(q, st, book, side) /\ FreeSlot(slot2, q, st, book, s2, side)
      /\ NewSlot(slot2, q, st, s2, side)
  BY <1>3, <1>6 DEF SideOk, FreeSlot, NewSlot
<1>8. EndsLast(book, s2, side)
  <2> SUFFICES ASSUME NEW i \in 1 .. Len(s2), EndAt(s2, i, side)
               PROVE  /\ Resting(book, side) = {}
                      /\ \A j \in i + 1 .. Len(s2) : ~FillAt(s2, j, side) /\ ~EndAt(s2, j, side)
    BY DEF EndsLast
  <2>1. i + 1 \in 1 .. Len(s) /\ EndAt(s, i + 1, side)
    BY <1>1
  <2>2. /\ Resting(book, side) = {}
        /\ \A j \in i + 1 + 1 .. Len(s) : ~FillAt(s, j, side) /\ ~EndAt(s, j, side)
    BY <2>1 DEF SideOk, EndsLast
  <2> QED BY <1>1, <2>2
<1>9. AcceptedRests(slot2, book, s2, side)
  <2>1. ASSUME NEW i \in 1 .. Len(s2), AcceptedAt(s2, i, side), Resting(book, side) = {}
        PROVE  \E j \in i + 1 .. Len(s2) : EndAt(s2, j, side)
    <3>1. i + 1 \in 1 .. Len(s) /\ AcceptedAt(s, i + 1, side)
      BY <1>1, <2>1
    <3>2. PICK j \in i + 1 + 1 .. Len(s) : EndAt(s, j, side)
      BY <2>1, <3>1 DEF SideOk, AcceptedRests
    <3>3. j - 1 \in i + 1 .. Len(s2) /\ EndAt(s2, j - 1, side)
      BY <1>1, <1>4, <3>2
    <3> QED BY <3>3
  <2>2. ASSUME Resting(book, side) = {}
        PROVE  \E j \in 1 .. Len(s2) : EndAt(s2, j, side)
    <3>1. PICK j \in 2 .. Len(s) : EndAt(s, j, side)
      BY <1>5, <2>2
    <3>2. j - 1 \in 1 .. Len(s2) /\ EndAt(s2, j - 1, side)
      BY <1>1, <1>4, <3>1
    <3> QED BY <3>2
  <2> QED BY <2>1, <2>2 DEF AcceptedRests
<1>10. ASSUME NEW o \in Resting(book, side)
       PROVE  LastReported(slot2, o, s2, side)
  <2>1. LastReported(slot, o, s, side)
    BY <1>10 DEF SideOk, RestingSlot
  <2>2. ASSUME \A i \in 1 .. Len(s2) : ~FillAt(s2, i, side)
        PROVE  slot2.qty = o.leaves_qty
    <3>1. \A i \in 1 .. Len(s) : ~FillAt(s, i, side)
      BY <1>1, <1>2, <1>4, <2>2
    <3> QED BY <1>3, <2>1, <3>1 DEF LastReported
  <2>3. ASSUME NEW i \in 1 .. Len(s2), FillAt(s2, i, side),
               \A j \in i + 1 .. Len(s2) : ~FillAt(s2, j, side)
        PROVE  s2[i].leaves_qty = o.leaves_qty
    <3>1. i + 1 \in 1 .. Len(s) /\ FillAt(s, i + 1, side) /\ s2[i] = s[i + 1]
      BY <1>1, <2>3
    <3>2. \A j \in i + 1 + 1 .. Len(s) : ~FillAt(s, j, side)
      BY <1>1, <1>4, <2>3
    <3> QED BY <2>1, <3>1, <3>2 DEF LastReported
  <2> QED BY <2>2, <2>3 DEF LastReported
<1>11. RestingSlot(slot2, q, st, book, s2, side)
  BY <1>3, <1>10 DEF SideOk, RestingSlot
<1> QED BY <1>7, <1>8, <1>9, <1>11 DEF SideOk, s2, slot2

\* The order is gone.
LEMMA SideToldEnd ==
    ASSUME NEW q, NEW st, NEW side \in Sides, NEW slot, NEW slot2,
           NEW book, NEW s \in Seq(Responses), s # <<>>,
           SideOk(slot, q, st, book, s, side), EndAt(s, 1, side),
           slot2.order_state = "DEAD"
    PROVE  SideOk(slot2, q, st, book, Tail(s), side)
<1> DEFINE s2 == Tail(s)
<1>1. /\ \A i \in Nat : FillAt(s2, i, side) <=> i \in 1 .. Len(s) - 1 /\ FillAt(s, i + 1, side)
      /\ \A i \in Nat : EndAt(s2, i, side) <=> i \in 1 .. Len(s) - 1 /\ EndAt(s, i + 1, side)
      /\ \A i \in Nat :
            AcceptedAt(s2, i, side) <=> i \in 1 .. Len(s) - 1 /\ AcceptedAt(s, i + 1, side)
      /\ Len(s2) = Len(s) - 1 /\ Len(s) \in Nat \ {0}
  BY ResponsesTail
<1> HIDE DEF s2
<1>2. /\ Resting(book, side) = {}
      /\ \A j \in 2 .. Len(s) : ~FillAt(s, j, side) /\ ~EndAt(s, j, side)
  BY <1>1 DEF SideOk, EndsLast
<1>3. \A j \in 1 .. Len(s2) : ~FillAt(s2, j, side) /\ ~EndAt(s2, j, side)
  BY <1>1, <1>2
<1>4. News(q, st, side) = {}
  <2>1. ~NoFill(s, side)
    BY <1>1 DEF NoFill
  <2> QED BY <2>1 DEF SideOk, NewSlot
<1>5. OneOpen(q, st, book, side) /\ FreeSlot(slot2, q, st, book, s2, side)
      /\ NewSlot(slot2, q, st, s2, side) /\ RestingSlot(slot2, q, st, book, s2, side)
  BY <1>2, <1>3, <1>4 DEF SideOk, FreeSlot, NewSlot, RestingSlot, NoFill
<1>6. EndsLast(book, s2, side)
  BY <1>3 DEF EndsLast
<1>7. AcceptedRests(slot2, book, s2, side)
  <2> SUFFICES ASSUME NEW i \in 1 .. Len(s2), AcceptedAt(s2, i, side)
               PROVE  FALSE
    BY DEF AcceptedRests
  <2>1. i + 1 \in 1 .. Len(s) /\ AcceptedAt(s, i + 1, side)
    BY <1>1
  <2>2. PICK j \in i + 1 + 1 .. Len(s) : EndAt(s, j, side)
    BY <1>2, <2>1 DEF SideOk, AcceptedRests
  <2> QED BY <1>1, <1>2, <2>2
<1> QED BY <1>5, <1>6, <1>7 DEF SideOk, s2

\* The order was filled in part.
LEMMA SideToldFill ==
    ASSUME NEW q, NEW st, NEW side \in Sides, NEW slot, NEW slot2,
           NEW book, NEW s \in Seq(Responses), s # <<>>,
           SideOk(slot, q, st, book, s, side),
           IsOwn(Head(s), side), Head(s).type = "FILLED", Head(s).leaves_qty # 0,
           slot2.order_state = slot.order_state, slot2.order_id = slot.order_id,
           slot2.qty = Head(s).leaves_qty
    PROVE  SideOk(slot2, q, st, book, Tail(s), side)
<1> DEFINE s2 == Tail(s)
<1>1. /\ \A i \in Nat : FillAt(s2, i, side) <=> i \in 1 .. Len(s) - 1 /\ FillAt(s, i + 1, side)
      /\ \A i \in Nat : EndAt(s2, i, side) <=> i \in 1 .. Len(s) - 1 /\ EndAt(s, i + 1, side)
      /\ \A i \in Nat :
            AcceptedAt(s2, i, side) <=> i \in 1 .. Len(s) - 1 /\ AcceptedAt(s, i + 1, side)
      /\ \A i \in 1 .. Len(s) - 1 : s2[i] = s[i + 1]
      /\ Len(s2) = Len(s) - 1 /\ Len(s) \in Nat \ {0} /\ Head(s) = s[1]
  BY ResponsesTail
<1>2. FillAt(s, 1, side) /\ ~EndAt(s, 1, side) /\ ~AcceptedAt(s, 1, side)
  BY ResponsesTail DEF FillAt, EndAt, AcceptedAt, Own
<1> HIDE DEF s2
<1>3. /\ \A i \in 2 .. Len(s) : FillAt(s, i, side) <=> FillAt(s2, i - 1, side)
      /\ \A i \in 2 .. Len(s) : EndAt(s, i, side) <=> EndAt(s2, i - 1, side)
      /\ \A i \in 2 .. Len(s) : AcceptedAt(s, i, side) <=> AcceptedAt(s2, i - 1, side)
  BY <1>1
<1>4. ~NoFill(s, side)
  BY <1>1, <1>2 DEF NoFill
<1>5. News(q, st, side) = {} /\ slot.order_state \notin {"INVALID", "DEAD"}
  BY <1>4 DEF SideOk, NewSlot, FreeSlot
<1>6. OneOpen(q, st, book, side) /\ FreeSlot(slot2, q, st, book, s2, side)
      /\ NewSlot(slot2, q, st, s2, side)
  BY <1>5 DEF SideOk, FreeSlot, NewSlot
<1>7. EndsLast(book, s2, side)
  <2> SUFFICES ASSUME NEW i \in 1 .. Len(s2), EndAt(s2, i, side)
               PROVE  /\ Resting(book, side) = {}
                      /\ \A j \in i + 1 .. Len(s2) : ~FillAt(s2, j, side) /\ ~EndAt(s2, j, side)
    BY DEF EndsLast
  <2>1. i + 1 \in 1 .. Len(s) /\ EndAt(s, i + 1, side)
    BY <1>1
  <2>2. /\ Resting(book, side) = {}
        /\ \A j \in i + 1 + 1 .. Len(s) : ~FillAt(s, j, side) /\ ~EndAt(s, j, side)
    BY <2>1 DEF SideOk, EndsLast
  <2> QED BY <1>1, <2>2
<1>8. AcceptedRests(slot2, book, s2, side)
  <2>1. ASSUME NEW i \in 1 .. Len(s2), AcceptedAt(s2, i, side), Resting(book, side) = {}
        PROVE  \E j \in i + 1 .. Len(s2) : EndAt(s2, j, side)
    <3>1. i + 1 \in 1 .. Len(s) /\ AcceptedAt(s, i + 1, side)
      BY <1>1, <2>1
    <3>2. PICK j \in i + 1 + 1 .. Len(s) : EndAt(s, j, side)
      BY <2>1, <3>1 DEF SideOk, AcceptedRests
    <3>3. j - 1 \in i + 1 .. Len(s2) /\ EndAt(s2, j - 1, side)
      BY <1>1, <1>3, <3>2
    <3> QED BY <3>3
  <2>2. ASSUME slot.order_state = "LIVE", Resting(book, side) = {}
        PROVE  \E j \in 1 .. Len(s2) : EndAt(s2, j, side)
    <3>1. PICK j \in 1 .. Len(s) : EndAt(s, j, side)
      BY <2>2 DEF SideOk, AcceptedRests
    <3>2. j - 1 \in 1 .. Len(s2) /\ EndAt(s2, j - 1, side)
      BY <1>1, <1>2, <1>3, <3>1
    <3> QED BY <3>2
  <2> QED BY <2>1, <2>2 DEF AcceptedRests
<1>9. RestingSlot(slot2, q, st, book, s2, side)
  <2> SUFFICES ASSUME NEW o \in Resting(book, side)
               PROVE  /\ slot.order_state = "PENDING_NEW" =>
                            \E i \in 1 .. Len(s2) : AcceptedAt(s2, i, side)
                      /\ LastReported(slot2, o, s2, side)
    BY DEF SideOk, RestingSlot
  <2>1. LastReported(slot, o, s, side)
    BY DEF SideOk, RestingSlot
  <2>2. ASSUME slot.order_state = "PENDING_NEW"
        PROVE  \E i \in 1 .. Len(s2) : AcceptedAt(s2, i, side)
    <3>1. PICK i \in 1 .. Len(s) : AcceptedAt(s, i, side)
      BY <2>2 DEF SideOk, RestingSlot
    <3>2. i - 1 \in 1 .. Len(s2) /\ AcceptedAt(s2, i - 1, side)
      BY <1>1, <1>2, <1>3, <3>1
    <3> QED BY <3>2
  <2>3. ASSUME \A i \in 1 .. Len(s2) : ~FillAt(s2, i, side)
        PROVE  slot2.qty = o.leaves_qty
    <3>1. \A i \in 2 .. Len(s) : ~FillAt(s, i, side)
      BY <1>1, <1>3, <2>3
    <3> QED BY <1>1, <1>2, <2>1, <3>1 DEF LastReported
  <2>4. ASSUME NEW i \in 1 .. Len(s2), FillAt(s2, i, side),
               \A j \in i + 1 .. Len(s2) : ~FillAt(s2, j, side)
        PROVE  s2[i].leaves_qty = o.leaves_qty
    <3>1. i + 1 \in 1 .. Len(s) /\ FillAt(s, i + 1, side) /\ s2[i] = s[i + 1]
      BY <1>1, <2>4
    <3>2. \A j \in i + 1 + 1 .. Len(s) : ~FillAt(s, j, side)
      BY <1>1, <1>3, <2>4
    <3> QED BY <2>1, <3>1, <3>2 DEF LastReported
  <2> QED BY <2>2, <2>3, <2>4 DEF LastReported
<1> QED BY <1>6, <1>7, <1>8, <1>9 DEF SideOk, s2

----------------------------------------------------------------------------
(* Sums.                                                                   *)

(* A non-empty set of naturals has a least element.                        *)
LEMMA LeastNatural ==
    ASSUME NEW T \in SUBSET Nat, T # {}
    PROVE  \E n \in T : \A m \in T : n <= m
<1>1. PICK n \in T : \A m \in T : ~(<<m, n>> \in OpToRel(<, Nat))
  BY NatLessThanWellFounded, WFMin, Zenon
<1>2. \A m \in T : <<m, n>> \in OpToRel(<, Nat) <=> m < n
  BY DEF OpToRel
<1>3. \A m \in T : ~(m < n)
  BY <1>1, <1>2, Zenon
<1>4. \A m \in T : n <= m
  BY <1>3, SMT
<1> QED BY <1>4, Zenon

(* The recursion of Total has a solution.                                  *)
LEMMA TotalRecursion ==
    ASSUME NEW s \in Seq(Nat)
    PROVE  \E f : /\ f[0] = 0 /\ \A i \in 1 .. Len(s) : f[i] = f[i - 1] + s[i]
                  /\ Total(s) = f[Len(s)]
                  /\ \A i \in 0 .. Len(s) : f[i] \in Nat
<1> DEFINE Solves(f, n) == f = [i \in 0 .. n |-> IF i = 0 THEN 0 ELSE f[i - 1] + s[i]]
           bad == { n \in 0 .. Len(s) : ~ \E f : Solves(f, n) }
<1>1. bad = {}
  <2> SUFFICES ASSUME bad # {} PROVE FALSE
    OBVIOUS
  <2>1. PICK n \in bad : \A m \in bad : n <= m
    <3>1. bad \in SUBSET Nat
      OBVIOUS
    <3> HIDE DEF bad
    <3> QED BY <3>1, LeastNatural
  <2>2. n \in 0 .. Len(s) /\ ~ \E f : Solves(f, n)
    OBVIOUS
  <2>3. n # 0
    <3>1. Solves([i \in 0 .. 0 |-> 0], 0)
      OBVIOUS
    <3> QED BY <3>1, <2>2
  <2>4. n - 1 \in 0 .. Len(s) /\ n - 1 \notin bad
    <3> HIDE DEF bad
    <3> QED BY <2>1, <2>2, <2>3
  <2>5. PICK f : Solves(f, n - 1)
    BY <2>4
  <2> DEFINE g == [i \in 0 .. n |-> IF i = n THEN f[n - 1] + s[n] ELSE f[i]]
  <2>6. \A i \in 0 .. n : g[i] = IF i = 0 THEN 0 ELSE g[i - 1] + s[i]
    <3> TAKE i \in 0 .. n
    <3>1. CASE i = n
      <4>1. g[n - 1] = f[n - 1] /\ g[n] = f[n - 1] + s[n]
        BY <2>2, <2>3
      <4> QED BY <4>1, <3>1, <2>3
    <3>2. CASE i # n
      <4>1. g[i] = f[i] /\ i \in 0 .. n - 1
        BY <3>2, <2>2
      <4>2. f[i] = IF i = 0 THEN 0 ELSE f[i - 1] + s[i]
        BY <4>1, <2>5
      <4>3. i # 0 => g[i - 1] = f[i - 1]
        BY <3>2, <2>2
      <4> QED BY <4>1, <4>2, <4>3
    <3> QED BY <3>1, <3>2
  <2>7. g = [i \in 0 .. n |-> g[i]]
    OBVIOUS
  <2> HIDE DEF g
  <2>8. Solves(g, n)
    BY <2>6, <2>7
  <2> QED BY <2>2, <2>8
<1>2. \E f : Solves(f, Len(s))
  BY <1>1
<1>3. Solves(CHOOSE f : Solves(f, Len(s)), Len(s))
  BY <1>2, Zenon
<1>4. Total(s) = (CHOOSE f : Solves(f, Len(s)))[Len(s)]
  BY Zenon DEF Total
<1> HIDE DEF Solves
<1>5. PICK f : Solves(f, Len(s)) /\ Total(s) = f[Len(s)]
  BY <1>3, <1>4
<1>6. f[0] = 0 /\ \A i \in 1 .. Len(s) : f[i] = f[i - 1] + s[i]
  <2>1. Len(s) \in Nat
    OBVIOUS
  <2>2. f = [i \in 0 .. Len(s) |-> IF i = 0 THEN 0 ELSE f[i - 1] + s[i]]
    BY <1>5 DEF Solves
  <2>3. \A i \in 0 .. Len(s) : f[i] = IF i = 0 THEN 0 ELSE f[i - 1] + s[i]
    BY <2>2, Zenon
  <2> QED BY <2>1, <2>3
<1> DEFINE odd == { i \in 0 .. Len(s) : f[i] \notin Nat }
<1>7. odd = {}
  <2> SUFFICES ASSUME odd # {} PROVE FALSE
    OBVIOUS
  <2>1. odd \in SUBSET Nat
    OBVIOUS
  <2>2. PICK n \in odd : \A m \in odd : n <= m
    <3> HIDE DEF odd
    <3> QED BY <2>1, LeastNatural
  <2>3. n \in 1 .. Len(s)
    BY <1>6
  <2>4. n - 1 \in 0 .. Len(s) /\ n - 1 \notin odd
    <3> HIDE DEF odd
    <3> QED BY <2>2, <2>3
  <2>5. s[n] \in Nat
    BY <2>3
  <2> QED BY <1>6, <2>3, <2>4, <2>5
<1> QED BY <1>5, <1>6, <1>7

(* A total of quantities is a quantity.                                    *)
LEMMA TotalNat == ASSUME NEW s \in Seq(Nat) PROVE Total(s) \in Nat
<1>1. Len(s) \in 0 .. Len(s)
  OBVIOUS
<1> QED BY <1>1, TotalRecursion

(* Two sums that grow alike keep their distance.                           *)
GrowAlike(f, g, n, d) ==
    /\ n \in Nat /\ d \in Nat
    /\ \A i \in 0 .. n : f[i] \in Nat /\ g[i] \in Nat
    /\ g[0] = f[0] + d
    /\ \A i \in 1 .. n : g[i] - g[i - 1] = f[i] - f[i - 1]
(* Two running sums that take the same steps stay the same distance apart. *)
LEMMA SumsAlike ==
    ASSUME NEW n, NEW f, NEW g, NEW d, GrowAlike(f, g, n, d)
    PROVE  g[n] = f[n] + d
<1> USE DEF GrowAlike
<1> DEFINE bad == { i \in 0 .. n : g[i] # f[i] + d }
<1>1. bad = {}
  <2> SUFFICES ASSUME bad # {} PROVE FALSE
    OBVIOUS
  <2>1. bad \in SUBSET Nat
    OBVIOUS
  <2>2. PICK k \in bad : \A m \in bad : k <= m
    <3> HIDE DEF bad
    <3> QED BY <2>1, LeastNatural
  <2>3. k \in 1 .. n
    OBVIOUS
  <2>4. k - 1 \in 0 .. n /\ k - 1 \notin bad
    <3> HIDE DEF bad
    <3> QED BY <2>2, <2>3
  <2>5. g[k - 1] = f[k - 1] + d
    BY <2>4
  <2>6. /\ g[k] - g[k - 1] = f[k] - f[k - 1]
        /\ g[k] \in Nat /\ f[k] \in Nat /\ g[k - 1] \in Nat /\ f[k - 1] \in Nat
    BY <2>3, <2>4
  <2>7. g[k] = f[k] + d
    BY <2>5, <2>6
  <2> QED BY <2>7
<1> QED BY <1>1

(* Zeros add up to zero.                                                   *)
LEMMA TotalZero ==
    ASSUME NEW s \in Seq(Nat), \A i \in 1 .. Len(s) : s[i] = 0
    PROVE  Total(s) = 0
<1>1. PICK f : /\ f[0] = 0 /\ \A i \in 1 .. Len(s) : f[i] = f[i - 1] + s[i]
               /\ Total(s) = f[Len(s)]
               /\ \A i \in 0 .. Len(s) : f[i] \in Nat
  BY TotalRecursion
<1> DEFINE zero == [i \in 0 .. Len(s) |-> 0]
<1>2. Len(s) \in Nat
  OBVIOUS
<1>3. \A i \in 1 .. Len(s) : f[i] - f[i - 1] = zero[i] - zero[i - 1]
  BY <1>1, <1>2
<1>4. f[0] = zero[0] + 0
  BY <1>1, <1>2
<1>5. \A i \in 0 .. Len(s) : zero[i] \in Nat /\ f[i] \in Nat
  BY <1>1
<1>6. zero[Len(s)] = 0
  BY <1>2
<1> HIDE DEF zero
<1>7. GrowAlike(zero, f, Len(s), 0)
  BY <1>2, <1>3, <1>4, <1>5 DEF GrowAlike
<1>8. f[Len(s)] = zero[Len(s)] + 0
  BY <1>7, SumsAlike
<1> QED BY <1>1, <1>6, <1>8

(* A total grows by what is appended.                                      *)
LEMMA TotalAppend ==
    ASSUME NEW s \in Seq(Nat), NEW x \in Nat
    PROVE  Total(Append(s, x)) = Total(s) + x
<1> DEFINE t == Append(s, x)
<1>1. /\ t \in Seq(Nat) /\ Len(t) = Len(s) + 1 /\ Len(s) \in Nat /\ t[Len(s) + 1] = x
      /\ \A i \in 1 .. Len(s) : t[i] = s[i] /\ s[i] \in Nat
  OBVIOUS
<1> HIDE DEF t
<1>2. PICK f : /\ f[0] = 0 /\ \A i \in 1 .. Len(s) : f[i] = f[i - 1] + s[i]
               /\ Total(s) = f[Len(s)]
               /\ \A i \in 0 .. Len(s) : f[i] \in Nat
  BY TotalRecursion
<1>3. PICK g : /\ g[0] = 0 /\ \A i \in 1 .. Len(t) : g[i] = g[i - 1] + t[i]
               /\ Total(t) = g[Len(t)]
               /\ \A i \in 0 .. Len(t) : g[i] \in Nat
  BY <1>1, TotalRecursion
<1>4. \A i \in 1 .. Len(s) : g[i] - g[i - 1] = f[i] - f[i - 1]
  <2> TAKE i \in 1 .. Len(s)
  <2>1. i - 1 \in 0 .. Len(s) /\ i \in 1 .. Len(t) /\ i - 1 \in 0 .. Len(t)
    BY <1>1
  <2>2. f[i - 1] \in Nat /\ g[i - 1] \in Nat /\ s[i] \in Nat /\ t[i] = s[i]
    BY <1>1, <1>2, <1>3, <2>1
  <2>3. f[i] = f[i - 1] + s[i] /\ g[i] = g[i - 1] + s[i]
    BY <1>1, <1>2, <1>3, <2>1
  <2> QED BY <2>2, <2>3
<1>5. /\ \A i \in 0 .. Len(s) : f[i] \in Nat /\ g[i] \in Nat
      /\ g[0] = f[0] + 0
  BY <1>1, <1>2, <1>3
<1>6. g[Len(s)] = f[Len(s)] + 0
  <2>1. GrowAlike(f, g, Len(s), 0)
    BY <1>1, <1>4, <1>5 DEF GrowAlike
  <2> QED BY <2>1, SumsAlike
<1>7. g[Len(t)] = g[Len(s)] + x
  BY <1>1, <1>3
<1> QED BY <1>1, <1>2, <1>3, <1>5, <1>6, <1>7 DEF t

(* A total is its first element and the total of the rest.                 *)
LEMMA TotalTail ==
    ASSUME NEW s \in Seq(Nat), s # <<>>
    PROVE  Total(s) = s[1] + Total(Tail(s))
<1> DEFINE t == Tail(s)
<1>1. /\ t \in Seq(Nat) /\ Len(t) = Len(s) - 1 /\ Len(s) \in Nat \ {0} /\ s[1] \in Nat
      /\ \A i \in 1 .. Len(t) : t[i] = s[i + 1] /\ t[i] \in Nat
  OBVIOUS
<1> HIDE DEF t
<1>2. PICK g : /\ g[0] = 0 /\ \A i \in 1 .. Len(s) : g[i] = g[i - 1] + s[i]
               /\ Total(s) = g[Len(s)]
               /\ \A i \in 0 .. Len(s) : g[i] \in Nat
  BY TotalRecursion
<1>3. PICK f : /\ f[0] = 0 /\ \A i \in 1 .. Len(t) : f[i] = f[i - 1] + t[i]
               /\ Total(t) = f[Len(t)]
               /\ \A i \in 0 .. Len(t) : f[i] \in Nat
  BY <1>1, TotalRecursion
<1> DEFINE h == [i \in 0 .. Len(t) |-> g[i + 1]]
<1>4. \A i \in 1 .. Len(t) : h[i] - h[i - 1] = f[i] - f[i - 1]
  <2> TAKE i \in 1 .. Len(t)
  <2>1. h[i] = g[i + 1] /\ h[i - 1] = g[i]
    BY <1>1
  <2>2. i - 1 \in 0 .. Len(t) /\ i + 1 \in 1 .. Len(s) /\ i \in 0 .. Len(s)
    BY <1>1
  <2>3. f[i - 1] \in Nat /\ g[i] \in Nat /\ t[i] \in Nat /\ t[i] = s[i + 1]
    BY <1>1, <1>2, <1>3, <2>2
  <2>4. f[i] = f[i - 1] + t[i] /\ g[i + 1] = g[i] + s[i + 1]
    BY <1>1, <1>2, <1>3, <2>2
  <2> QED BY <2>1, <2>3, <2>4
<1>5. \A i \in 0 .. Len(t) : f[i] \in Nat /\ h[i] \in Nat
  BY <1>1, <1>2, <1>3
<1>6. h[0] = f[0] + s[1]
  BY <1>1, <1>2, <1>3
<1>7. h[Len(t)] = g[Len(s)] /\ Len(t) \in Nat
  BY <1>1
<1> HIDE DEF h
<1>8. h[Len(t)] = f[Len(t)] + s[1]
  <2>1. GrowAlike(f, h, Len(t), s[1])
    BY <1>1, <1>4, <1>5, <1>6, <1>7 DEF GrowAlike
  <2> QED BY <2>1, SumsAlike
<1>9. f[Len(t)] \in Nat
  BY <1>3, <1>7
<1> QED BY <1>1, <1>2, <1>3, <1>7, <1>8, <1>9 DEF t

(* With at most one order resting, the resting quantity is its.            *)
LEMMA RestQtyOne ==
    ASSUME NEW book \in SUBSET Orders, NEW side \in Sides
    PROVE  /\ Resting(book, side) = {} => RestQty(book, side) = 0
           /\ \A o : Resting(book, side) = {o} =>
                        o.leaves_qty \in Nat /\ RestQty(book, side) = o.leaves_qty
<1> DEFINE S == Resting(book, side)
           Solves(f) == f = [s \in SUBSET S |-> IF s = {} THEN 0
                             ELSE LET x == CHOOSE x \in s : TRUE IN x.leaves_qty + f[s \ {x}]]
<1>1. RestQty(book, side) = (CHOOSE f : Solves(f))[S]
  BY Zenon DEF RestQty, MapThenSumSet, MapThenFoldSet
<1>2. S \subseteq Orders
  BY DEF Resting
<1> HIDE DEF S
<1>3. ASSUME S = {} PROVE RestQty(book, side) = 0
  <2>1. Solves([s \in SUBSET S |-> 0])
    BY <1>3
  <2>2. Solves(CHOOSE f : Solves(f))
    BY <2>1, Zenon
  <2> HIDE DEF Solves
  <2>3. PICK f : f = (CHOOSE g : Solves(g)) /\ Solves(f)
    BY <2>2
  <2>4. f[S] = 0
    BY <1>3, <2>3 DEF Solves
  <2> QED BY <1>1, <2>3, <2>4
<1>4. ASSUME NEW o, S = {o} PROVE o.leaves_qty \in Nat /\ RestQty(book, side) = o.leaves_qty
  <2>1. o.leaves_qty \in Nat
    BY <1>2, <1>4 DEF Orders
  <2> DEFINE g == [s \in SUBSET S |-> IF s = {} THEN 0 ELSE o.leaves_qty]
  <2>2. \A s \in SUBSET S : s # {} => s = {o} /\ (CHOOSE x \in s : TRUE) = o /\ s \ {o} = {}
    BY <1>4
  <2>3. g[{}] = 0 /\ g[{o}] = o.leaves_qty
    BY <1>4
  <2>4. \A s \in SUBSET S : g[s] = IF s = {} THEN 0
                              ELSE LET x == CHOOSE x \in s : TRUE IN x.leaves_qty + g[s \ {x}]
    BY <2>1, <2>2, <2>3
  <2>5. g = [s \in SUBSET S |-> g[s]]
    OBVIOUS
  <2> HIDE DEF g
  <2>6. Solves(g)
    BY <2>4, <2>5
  <2>7. Solves(CHOOSE f : Solves(f))
    BY <2>6, Zenon
  <2> HIDE DEF Solves
  <2>8. PICK f : f = (CHOOSE h : Solves(h)) /\ Solves(f)
    BY <2>7
  <2>9. f[{}] = 0
    BY <2>8 DEF Solves
  <2>10. f[{o}] = LET x == CHOOSE x \in {o} : TRUE IN x.leaves_qty + f[{o} \ {x}]
    BY <1>4, <2>8 DEF Solves
  <2>11. (CHOOSE x \in {o} : TRUE) = o /\ {o} \ {o} = {}
    OBVIOUS
  <2> QED BY <1>1, <1>4, <2>1, <2>8, <2>9, <2>10, <2>11
<1> QED BY <1>3, <1>4 DEF S

(* With at most one NEW under way, the quantity under way is its.          *)
LEMMA NewQtyOne ==
    ASSUME NEW q \in Seq(Requests), NEW st \in Nat, NEW side \in Sides
    PROVE  /\ News(q, st, side) = {} => NewQty(q, st, side) = 0
           /\ \A i : News(q, st, side) = {i} =>
                        q[i].qty \in Nat /\ NewQty(q, st, side) = q[i].qty
<1> DEFINE S == News(q, st, side)
           Solves(f) == f = [s \in SUBSET S |-> IF s = {} THEN 0
                             ELSE LET x == CHOOSE x \in s : TRUE IN q[x].qty + f[s \ {x}]]
<1>1. NewQty(q, st, side) = (CHOOSE f : Solves(f))[S]
  BY Zenon DEF NewQty, MapThenSumSet, MapThenFoldSet
<1>2. S \subseteq 1 .. Len(q)
  BY DEF News
<1> HIDE DEF S
<1>3. ASSUME S = {} PROVE NewQty(q, st, side) = 0
  <2>1. Solves([s \in SUBSET S |-> 0])
    BY <1>3
  <2>2. Solves(CHOOSE f : Solves(f))
    BY <2>1, Zenon
  <2> HIDE DEF Solves
  <2>3. PICK f : f = (CHOOSE g : Solves(g)) /\ Solves(f)
    BY <2>2
  <2>4. f[S] = 0
    BY <1>3, <2>3 DEF Solves
  <2> QED BY <1>1, <2>3, <2>4
<1>4. ASSUME NEW o, S = {o} PROVE q[o].qty \in Nat /\ NewQty(q, st, side) = q[o].qty
  <2>1. q[o].qty \in Nat
    <3>1. q[o] \in Requests
      BY <1>2, <1>4
    <3> QED BY <3>1 DEF Requests
  <2> DEFINE g == [s \in SUBSET S |-> IF s = {} THEN 0 ELSE q[o].qty]
  <2>2. \A s \in SUBSET S : s # {} => s = {o} /\ (CHOOSE x \in s : TRUE) = o /\ s \ {o} = {}
    BY <1>4
  <2>3. g[{}] = 0 /\ g[{o}] = q[o].qty
    BY <1>4
  <2>4. \A s \in SUBSET S : g[s] = IF s = {} THEN 0
                              ELSE LET x == CHOOSE x \in s : TRUE IN q[x].qty + g[s \ {x}]
    BY <2>1, <2>2, <2>3
  <2>5. g = [s \in SUBSET S |-> g[s]]
    OBVIOUS
  <2> HIDE DEF g
  <2>6. Solves(g)
    BY <2>4, <2>5
  <2>7. Solves(CHOOSE f : Solves(f))
    BY <2>6, Zenon
  <2> HIDE DEF Solves
  <2>8. PICK f : f = (CHOOSE h : Solves(h)) /\ Solves(f)
    BY <2>7
  <2>9. f[{}] = 0
    BY <2>8 DEF Solves
  <2>10. f[{o}] = LET x == CHOOSE x \in {o} : TRUE IN q[x].qty + f[{o} \ {x}]
    BY <1>4, <2>8 DEF Solves
  <2>11. (CHOOSE x \in {o} : TRUE) = o /\ {o} \ {o} = {}
    OBVIOUS
  <2>12. f[{o}] = q[o].qty + f[{}]
    BY <2>10, <2>11, Zenon
  <2>13. NewQty(q, st, side) = f[{o}]
    BY <1>1, <1>4, <2>8, Zenon
  <2> QED BY <2>1, <2>9, <2>12, <2>13
<1> QED BY <1>3, <1>4 DEF S

(* The same, when there is one.                                            *)
LEMMA NewQtySingle ==
    ASSUME NEW q \in Seq(Requests), NEW st \in Nat, NEW side \in Sides,
           NEW i, News(q, st, side) = {i}
    PROVE  NewQty(q, st, side) = q[i].qty
BY NewQtyOne, Zenon

(* The same, when one rests.                                               *)
LEMMA RestQtySingle ==
    ASSUME NEW book \in SUBSET Orders, NEW side \in Sides, NEW o, Resting(book, side) = {o}
    PROVE  RestQty(book, side) = o.leaves_qty /\ o.leaves_qty \in Nat
BY RestQtyOne, Zenon

(* The quantity executed and not yet heard of, after a response is sent.   *)
LEMMA ExecsAppend ==
    ASSUME NEW s \in Seq(Responses), NEW r \in Responses, NEW side \in Sides
    PROVE  /\ Total(Execs(Append(s, r), side)) =
                 Total(Execs(s, side)) + (IF IsOwn(r, side) THEN r.exec_qty ELSE 0)
           /\ Total(Execs(s, side)) \in Nat
<1> DEFINE x == IF IsOwn(r, side) THEN r.exec_qty ELSE 0
<1>1. x \in Nat
  BY DEF Responses
<1>2. /\ \A i \in 1 .. Len(s) : Append(s, r)[i] = s[i] /\ s[i] \in Responses
      /\ Append(s, r)[Len(s) + 1] = r /\ Len(Append(s, r)) = Len(s) + 1 /\ Len(s) \in Nat
  OBVIOUS
<1>3. Execs(s, side) \in Seq(Nat) /\ Len(Execs(s, side)) = Len(s)
  <2>1. \A i \in 1 .. Len(s) : (IF IsOwn(s[i], side) THEN s[i].exec_qty ELSE 0) \in Nat
    BY <1>2 DEF Responses
  <2>2. Execs(s, side) \in [1 .. Len(s) -> Nat]
    BY <2>1 DEF Execs
  <2> QED BY <1>2, <2>2 DEF Execs
<1>4. Execs(Append(s, r), side) = Append(Execs(s, side), x)
  <2> DEFINE e == Append(Execs(s, side), x)
             d == Execs(Append(s, r), side)
  <2>1. DOMAIN d = 1 .. Len(s) + 1 /\ d = [i \in 1 .. Len(s) + 1 |-> d[i]]
    BY <1>2 DEF Execs
  <2>2. e \in Seq(Nat) /\ Len(e) = Len(s) + 1
    BY <1>1, <1>3
  <2>3. e = [i \in 1 .. Len(s) + 1 |-> e[i]]
    <3> HIDE DEF e
    <3> QED BY <2>2
  <2>4. \A i \in 1 .. Len(s) : e[i] = d[i]
    <3> TAKE i \in 1 .. Len(s)
    <3>1. e[i] = Execs(s, side)[i]
      BY <1>1, <1>3
    <3>2. i \in 1 .. Len(Append(s, r)) /\ Append(s, r)[i] = s[i]
      BY <1>2
    <3>3. d[i] = IF IsOwn(s[i], side) THEN s[i].exec_qty ELSE 0
      BY <3>2 DEF Execs
    <3>4. Execs(s, side)[i] = IF IsOwn(s[i], side) THEN s[i].exec_qty ELSE 0
      BY DEF Execs
    <3> QED BY <3>1, <3>3, <3>4
  <2>5. e[Len(s) + 1] = x
    BY <1>1, <1>3
  <2>6. d[Len(s) + 1] = x
    <3>1. Len(s) + 1 \in 1 .. Len(Append(s, r))
      BY <1>2
    <3> QED BY <1>2, <3>1 DEF Execs
  <2> HIDE DEF d, e
  <2>7. \A i \in 1 .. Len(s) + 1 : e[i] = d[i]
    BY <1>2, <2>4, <2>5, <2>6
  <2>8. e = d
    BY <2>1, <2>3, <2>7
  <2> QED BY <2>8 DEF d, e
<1> QED BY <1>1, <1>3, <1>4, TotalAppend, TotalNat

(* And after one is taken.                                                 *)
LEMMA ExecsTail ==
    ASSUME NEW s \in Seq(Responses), s # <<>>, NEW side \in Sides
    PROVE  /\ Total(Execs(s, side)) = (IF IsOwn(Head(s), side) THEN Head(s).exec_qty ELSE 0)
                                      + Total(Execs(Tail(s), side))
           /\ Total(Execs(Tail(s), side)) \in Nat
<1>1. /\ \A i \in 1 .. Len(s) : s[i] \in Responses
      /\ \A i \in 1 .. Len(s) - 1 : Tail(s)[i] = s[i + 1]
      /\ Head(s) = s[1] /\ Len(Tail(s)) = Len(s) - 1 /\ Len(s) \in Nat \ {0}
  OBVIOUS
<1>2. /\ Execs(s, side) \in Seq(Nat) /\ Len(Execs(s, side)) = Len(s)
      /\ \A i \in 1 .. Len(s) :
            Execs(s, side)[i] = IF IsOwn(s[i], side) THEN s[i].exec_qty ELSE 0
  <2>1. \A i \in 1 .. Len(s) : (IF IsOwn(s[i], side) THEN s[i].exec_qty ELSE 0) \in Nat
    BY <1>1 DEF Responses
  <2>2. Execs(s, side) \in [1 .. Len(s) -> Nat]
    BY <2>1 DEF Execs
  <2> QED BY <1>1, <2>2 DEF Execs
<1>3. Execs(s, side) # <<>>
  BY <1>1, <1>2
<1>4. Execs(Tail(s), side) = Tail(Execs(s, side))
  <2> DEFINE e == Tail(Execs(s, side))
             d == Execs(Tail(s), side)
  <2>1. d = [i \in 1 .. Len(s) - 1 |-> d[i]]
    BY <1>1 DEF Execs
  <2>2. e \in Seq(Nat) /\ Len(e) = Len(s) - 1
    BY <1>2, <1>3
  <2>3. e = [i \in 1 .. Len(s) - 1 |-> e[i]]
    <3> HIDE DEF e
    <3> QED BY <2>2
  <2>4. ASSUME NEW i \in 1 .. Len(s) - 1 PROVE e[i] = d[i]
    <3>1. i + 1 \in 1 .. Len(s) /\ i \in 1 .. Len(Tail(s)) /\ Tail(s)[i] = s[i + 1]
      BY <1>1, <2>4
    <3>2. d[i] = IF IsOwn(s[i + 1], side) THEN s[i + 1].exec_qty ELSE 0
      BY <3>1 DEF Execs
    <3>3. e[i] = Execs(s, side)[i + 1]
      BY <1>2, <1>3, <2>4
    <3> QED BY <1>2, <3>1, <3>2, <3>3
  <2> HIDE DEF d, e
  <2>5. e = d
    BY <2>1, <2>3, <2>4
  <2> QED BY <2>5 DEF d, e
<1>5. Tail(Execs(s, side)) \in Seq(Nat)
  BY <1>2, <1>3
<1>6. 1 \in 1 .. Len(s)
  BY <1>1
<1> QED BY <1>1, <1>2, <1>3, <1>4, <1>5, <1>6, TotalTail, TotalNat

(* It is zero when no response under way tells of an execution.            *)
LEMMA ExecsZero ==
    ASSUME NEW s \in Seq(Responses), NEW side \in Sides,
           \A i \in 1 .. Len(s) : IsOwn(s[i], side) => s[i].exec_qty = 0
    PROVE  Total(Execs(s, side)) = 0
<1>1. Execs(s, side) = [i \in 1 .. Len(s) |-> 0]
  BY DEF Execs
<1>2. [i \in 1 .. Len(s) |-> 0] \in Seq(Nat) /\ Len([i \in 1 .. Len(s) |-> 0]) = Len(s)
  OBVIOUS
<1> QED BY <1>1, <1>2, TotalZero

(* It is a quantity.                                                       *)
LEMMA ExecsNat ==
    ASSUME NEW s \in Seq(Responses), NEW side \in Sides
    PROVE  Total(Execs(s, side)) \in Nat
<1>1. \A i \in 1 .. Len(s) : (IF IsOwn(s[i], side) THEN s[i].exec_qty ELSE 0) \in Nat
  <2>1. \A i \in 1 .. Len(s) : s[i] \in Responses
    OBVIOUS
  <2> QED BY <2>1 DEF Responses
<1>2. Execs(s, side) \in [1 .. Len(s) -> Nat] /\ Len(s) \in Nat
  BY <1>1 DEF Execs
<1>3. Execs(s, side) \in Seq(Nat)
  BY <1>2
<1> QED BY <1>3, TotalNat

(* It is zero when nothing is under way.                                   *)
LEMMA ExecsEmpty == ASSUME NEW side \in Sides PROVE Total(Execs(<<>>, side)) = 0
<1> DEFINE s == <<>>
<1>1. s \in Seq(Responses) /\ \A i \in 1 .. Len(s) : IsOwn(s[i], side) => s[i].exec_qty = 0
  OBVIOUS
<1> HIDE DEF s
<1>2. Total(Execs(s, side)) = 0
  BY <1>1, ExecsZero
<1> QED BY <1>2 DEF s

(* What rests and what is under way are quantities.                        *)
LEMMA ExposureNat ==
    ASSUME NEW q \in Seq(Requests), NEW st \in Nat, NEW side \in Sides,
           NEW book \in SUBSET Orders, OneOpen(q, st, book, side)
    PROVE  RestQty(book, side) \in Nat /\ NewQty(q, st, side) \in Nat
<1>1. RestQty(book, side) \in Nat
  <2>1. Resting(book, side) = {} \/ \E o : Resting(book, side) = {o}
    BY DEF OneOpen
  <2> QED BY <2>1, RestQtyOne, 0 \in Nat, Zenon
<1>2. NewQty(q, st, side) \in Nat
  <2>1. News(q, st, side) = {} \/ \E i : News(q, st, side) = {i}
    BY DEF OneOpen
  <2> QED BY <2>1, NewQtyOne, 0 \in Nat, Zenon
<1> QED BY <1>1, <1>2

(* A request that is no NEW of a side adds nothing to its quantity.        *)
LEMMA NewQtyAppend ==
    ASSUME NEW q \in Seq(Requests), NEW r \in Requests, NEW st \in 0 .. Len(q), NEW side \in Sides,
           \A i, j \in News(q, st, side) : i = j,
           ~(r.type = "NEW" /\ r.side = side)
    PROVE  NewQty(Append(q, r), st, side) = NewQty(q, st, side)
<1> DEFINE q2 == Append(q, r)
<1>1. /\ News(q2, st, side) = News(q, st, side)
      /\ \A i \in News(q, st, side) : q2[i] = q[i]
      /\ q2 \in Seq(Requests) /\ st \in Nat
  <2>1. /\ \A i \in News(q, st, side) : i \in News(q2, st, side)
        /\ \A i \in News(q2, st, side) : i \in News(q, st, side)
        /\ \A i \in 1 .. Len(q) : q2[i] = q[i]
        /\ q2 \in Seq(Requests) /\ st \in Nat
    BY NewsAppend
  <2>2. \A i \in News(q, st, side) : i \in 1 .. Len(q)
    BY DEF News
  <2> HIDE DEF q2
  <2> QED BY <2>1, <2>2
<1> HIDE DEF q2
<1>2. CASE News(q, st, side) = {}
  <2>1. News(q2, st, side) = {}
    BY <1>1, <1>2
  <2>2. NewQty(q, st, side) = 0
    BY <1>1, <1>2, NewQtyOne, Zenon
  <2>3. NewQty(q2, st, side) = 0
    BY <1>1, <2>1, NewQtyOne, Zenon
  <2> QED BY <2>2, <2>3 DEF q2
<1>3. CASE \E i : News(q, st, side) = {i}
  <2>1. PICK i : News(q, st, side) = {i}
    BY <1>3
  <2>2. NewQty(q, st, side) = q[i].qty
    BY <2>1, <1>1, NewQtyOne, Zenon
  <2>3. News(q2, st, side) = {i} /\ q2[i] = q[i]
    BY <2>1, <1>1
  <2>4. NewQty(q2, st, side) = q2[i].qty
    BY <2>3, <1>1, NewQtyOne, Zenon
  <2> QED BY <2>2, <2>3, <2>4 DEF q2
<1> QED BY <1>2, <1>3

(* The quantity under way does not grow when a request is taken.           *)
LEMMA NewQtyTail ==
    ASSUME NEW q \in Seq(Requests), q # <<>>, NEW st \in 0 .. Len(q), NEW side \in Sides,
           \A i, j \in News(q, st, side) : i = j
    PROVE  /\ NewQty(Tail(q), PopStale(st), side) <= NewQty(q, st, side)
           /\ NewQty(Tail(q), PopStale(st), side) \in Nat /\ NewQty(q, st, side) \in Nat
<1> DEFINE q2 == Tail(q)
           st2 == PopStale(st)
<1>1. \A i \in News(q2, st2, side) : i \in Int /\ i + 1 \in News(q, st, side) /\ q2[i] = q[i + 1]
  BY NewsTail DEF News
<1>2. q2 \in Seq(Requests) /\ st2 \in Nat
  BY NewsTail DEF PopStale
<1> HIDE DEF q2, st2
<1>3. NewQty(q, st, side) \in Nat
  <2>1. News(q, st, side) = {} \/ \E i : News(q, st, side) = {i}
    OBVIOUS
  <2>2. st \in Nat
    OBVIOUS
  <2> QED BY <2>1, <2>2, NewQtyOne, 0 \in Nat, Zenon
<1>4. CASE News(q2, st2, side) = {}
  <2>1. NewQty(q2, st2, side) = 0
    BY <1>2, <1>4, NewQtyOne, Zenon
  <2> QED BY <1>3, <2>1 DEF q2, st2
<1>5. CASE News(q2, st2, side) # {}
  <2>1. PICK i : i \in News(q2, st2, side)
    BY <1>5
  <2>2. PICK k : k = i + 1 /\ News(q, st, side) = {k}
    BY <1>1, <2>1
  <2>3. NewQty(q2, st2, side) = q2[i].qty /\ NewQty(q, st, side) = q[i + 1].qty
    <3>1. News(q2, st2, side) = {i}
      BY <1>1, <2>1
    <3>2. News(q, st, side) = {k} /\ st \in Nat
      BY <2>2
    <3>3. NewQty(q2, st2, side) = q2[i].qty
      BY <1>2, <3>1, NewQtySingle
    <3>4. NewQty(q, st, side) = q[k].qty
      BY <3>2, NewQtySingle
    <3> QED BY <2>2, <3>3, <3>4
  <2>4. NewQty(q2, st2, side) = NewQty(q, st, side)
    BY <1>1, <2>1, <2>3
  <2> QED BY <1>3, <2>4 DEF q2, st2
<1> QED BY <1>4, <1>5

----------------------------------------------------------------------------
(* The client moves the order of one side.                                 *)

NewsHaveQty(q) == \A i \in 1 .. Len(q) : q[i].type = "NEW" => q[i].qty # 0

MovedOk(side, q, st, q2, slot2) ==
    /\ q2 \in Seq(Requests) /\ st \in 0 .. Len(q2) /\ NewsHaveQty(q2)
    /\ slot2 \in Slots
    /\ SideOk(ticker_side_order[side], q, st, live, incoming_responses, side) =>
          /\ SideOk(slot2, q2, st, live, incoming_responses, side)
          /\ Within(side, position, Exposure(q, st, live, incoming_responses, side)) =>
             Within(side, position, Exposure(q2, st, live, incoming_responses, side))
    /\ \A other \in Sides : \A slot :
          other # side /\ SideOk(slot, q, st, live, incoming_responses, other) =>
             /\ SideOk(slot, q2, st, live, incoming_responses, other)
             /\ Exposure(q2, st, live, incoming_responses, other)
                  = Exposure(q, st, live, incoming_responses, other)

(* What moveOrder sends and keeps, in each of its cases.                   *)
LEMMA MoveOne ==
    ASSUME TypeOK, NEW side \in Sides, NEW price \in Prices \cup {NoPrice}, NEW loss \in BOOLEAN,
           NEW id \in Nat, NEW q \in Seq(Requests), NEW st \in 0 .. Len(q), NewsHaveQty(q)
    PROVE  MovedOk(side, q, st, q \o Sent(side, price, clip, loss, id),
                   moveOrder(side, price, clip, loss, id))
<1> DEFINE slot1 == ticker_side_order[side]
           slot2 == moveOrder(side, price, clip, loss, id)
           sent == Sent(side, price, clip, loss, id)
           q2 == q \o sent
           s == incoming_responses
<1>1. slot1 \in Slots /\ live \in SUBSET Orders /\ s \in Seq(Responses) /\ position \in Int
  BY DEF TypeOK
<1>2. clip \in Nat \ {0} /\ max_position \in Nat
  BY OrdersAssumption
<1>3. CASE CancelsOrder(side, price, clip)
  <2> DEFINE r == CancelRequest(side)
  <2>1. /\ r \in Requests /\ r.type = "CANCEL" /\ r.side = side /\ r.order_id = slot1.order_id
        /\ slot1.order_state = "LIVE"
    BY <1>1, <1>3 DEF CancelRequest, Requests, Slots, CancelsOrder
  <2>2. sent = <<r>> /\ slot2 = cancelOrder(slot1)
    BY <1>3 DEF Sent, moveOrder
  <2>3. q2 = Append(q, r)
    BY <2>1, <2>2
  <2>4. slot2 \in Slots
    BY <1>1, <2>2 DEF cancelOrder, Slots, States
  <2> HIDE DEF r, q2, sent, slot2, slot1, s
  <2>5. q2 \in Seq(Requests) /\ st \in 0 .. Len(q2) /\ NewsHaveQty(q2)
    BY <2>1, <2>3, NewsAppend DEF NewsHaveQty
  <2>6. ASSUME NEW other \in Sides, NEW slot, SideOk(slot, q, st, live, s, other)
        PROVE  SideOk(slot, q2, st, live, s, other)
               /\ Exposure(q2, st, live, s, other) = Exposure(q, st, live, s, other)
    <3>1. \A i, j \in News(q, st, other) : i = j
      BY <2>6 DEF SideOk, OneOpen
    <3>2. NewQty(q2, st, other) = NewQty(q, st, other)
      BY <2>1, <2>3, <3>1, NewQtyAppend
    <3> QED BY <1>1, <2>1, <2>3, <2>6, <3>2, SideRequestAdded DEF Exposure
  <2>7. ASSUME SideOk(slot1, q, st, live, s, side)
        PROVE  SideOk(slot2, q2, st, live, s, side)
    BY <1>1, <2>1, <2>2, <2>3, <2>7, SideCancelSent
  <2>8. MovedOk(side, q, st, q2, slot2)
    BY <2>4, <2>5, <2>6, <2>7 DEF MovedOk, slot1, s
  <2> QED BY <2>8 DEF q2, sent, slot2
<1>4. CASE ~CancelsOrder(side, price, clip) /\ PlacesOrder(side, price, clip, loss)
  <2> DEFINE r == NewRequest(side, clip, id)
  <2>1. /\ r \in Requests /\ r.type = "NEW" /\ r.side = side /\ r.order_id = id /\ r.qty = clip
        /\ slot1.order_state \in {"INVALID", "DEAD"}
    BY <1>1, <1>2, <1>4 DEF NewRequest, Requests, PlacesOrder
  <2>2. sent = <<r>> /\ slot2 = newOrder(side, price, clip, id)
    BY <1>4 DEF Sent, moveOrder
  <2>3. q2 = Append(q, r)
    BY <2>1, <2>2
  <2>4. /\ slot2 \in Slots /\ slot2.order_state = "PENDING_NEW" /\ slot2.order_id = id
        /\ slot2.qty = clip
    BY <1>2, <2>2 DEF newOrder, Slots, States
  <2>5. Within(side, position, clip)
    BY <1>1, <1>2, <1>4 DEF PlacesOrder, checkPreTradeRisk, Abs, sideToValue, Within, Sides
  <2>6. \A i \in 1 .. Len(s) : s[i].type # "FILLED" => s[i].exec_qty = 0
    BY DEF TypeOK
  <2> HIDE DEF r, q2, sent, slot2, slot1, s
  <2>7. q2 \in Seq(Requests) /\ st \in 0 .. Len(q2) /\ NewsHaveQty(q2)
    BY <1>2, <2>1, <2>3, NewsAppend DEF NewsHaveQty
  <2>8. ASSUME NEW other \in Sides, other # side, NEW slot, SideOk(slot, q, st, live, s, other)
        PROVE  SideOk(slot, q2, st, live, s, other)
               /\ Exposure(q2, st, live, s, other) = Exposure(q, st, live, s, other)
    <3>1. \A i, j \in News(q, st, other) : i = j
      BY <2>8 DEF SideOk, OneOpen
    <3>2. NewQty(q2, st, other) = NewQty(q, st, other)
      BY <2>1, <2>3, <2>8, <3>1, NewQtyAppend
    <3> QED BY <1>1, <2>1, <2>3, <2>8, <3>2, SideRequestAdded DEF Exposure
  <2>9. ASSUME SideOk(slot1, q, st, live, s, side)
        PROVE  SideOk(slot2, q2, st, live, s, side) /\ Exposure(q2, st, live, s, side) = clip
    <3>1. SideOk(slot2, q2, st, live, s, side)
      BY <1>1, <2>1, <2>3, <2>4, <2>9, SideOrderSent
    <3>2. News(q, st, side) = {} /\ Resting(live, side) = {} /\ NoFill(s, side)
      BY <2>1, <2>9 DEF SideOk, FreeSlot
    <3>3. PICK n : News(q2, st, side) = {n} /\ q2[n] = r
      <4>1. News(q2, st, side) = {Len(q) + 1} /\ q2[Len(q) + 1] = r
        BY <2>1, <2>3, <3>2, NewsAppend
      <4> QED BY <4>1
    <3>4. NewQty(q2, st, side) = clip
      <4>1. News(q2, st, side) = {n} /\ st \in Nat /\ q2 \in Seq(Requests)
        BY <2>7, <3>3
      <4>2. NewQty(q2, st, side) = q2[n].qty
        BY <4>1, NewQtySingle
      <4> QED BY <2>1, <3>3, <4>2
    <3>5. RestQty(live, side) = 0
      BY <1>1, <3>2, RestQtyOne, Zenon
    <3>6. Total(Execs(s, side)) = 0
      <4>1. \A i \in 1 .. Len(s) : IsOwn(s[i], side) => s[i].exec_qty = 0
        BY <2>6, <3>2 DEF NoFill, FillAt, Own
      <4> QED BY <1>1, <4>1, ExecsZero
    <3> QED BY <1>2, <3>1, <3>4, <3>5, <3>6 DEF Exposure
  <2>10. MovedOk(side, q, st, q2, slot2)
    BY <2>4, <2>5, <2>7, <2>8, <2>9 DEF MovedOk, slot1, s
  <2> QED BY <2>10 DEF q2, sent, slot2
<1>5. CASE ~CancelsOrder(side, price, clip) /\ ~PlacesOrder(side, price, clip, loss)
  <2>1. sent = <<>> /\ slot2 = slot1
    BY <1>5 DEF Sent, moveOrder
  <2>2. q2 = q
    BY <2>1
  <2> QED BY <1>1, <2>1, <2>2 DEF MovedOk
<1> QED BY <1>3, <1>4, <1>5

----------------------------------------------------------------------------
(* The actions.                                                            *)

(* The strategy moves its orders.                                          *)
LEMMA StrategyStep ==
    ASSUME IInv, StrategyNext
    PROVE  IInv'
<1>1. PICK bid, ask \in Prices \cup {NoPrice}, loss \in BOOLEAN : moveOrders(bid, ask, loss)
  BY DEF StrategyNext
<1>2. /\ live' = live /\ orphans' = orphans /\ registered' = registered
      /\ stale_requests' = stale_requests /\ mixed' = mixed
      /\ position' = position /\ incoming_responses' = incoming_responses
  BY <1>1 DEF StrategyNext, exchange, moveOrders
<1>3. TypeOK /\ BookInv /\ SideInv /\ ExposureInv
  BY DEF IInv
<1>4. PICK bid_id \in Nat, ask_id \in Nat :
         /\ next_order_id' \in Nat
         /\ ticker_side_order' =
              [side \in Sides |-> IF side = "BUY"
                                  THEN moveOrder(side, bid, clip, loss, bid_id)
                                  ELSE moveOrder(side, ask, clip, loss, ask_id)]
         /\ outgoing_requests' = outgoing_requests \o Sent("BUY", bid, clip, loss, bid_id)
                                                   \o Sent("SELL", ask, clip, loss, ask_id)
  <2> DEFINE Places(side, price) == IF PlacesOrder(side, price, clip, loss) THEN 1 ELSE 0
             b == next_order_id
             a == b + Places("BUY", bid)
  <2>1. next_order_id \in Nat
    BY <1>3 DEF TypeOK
  <2>2. Places("BUY", bid) \in Nat /\ Places("SELL", ask) \in Nat
    OBVIOUS
  <2>3. /\ next_order_id' = a + Places("SELL", ask)
        /\ ticker_side_order' =
              [side \in Sides |-> IF side = "BUY"
                                  THEN moveOrder(side, bid, clip, loss, b)
                                  ELSE moveOrder(side, ask, clip, loss, a)]
        /\ outgoing_requests' = outgoing_requests \o Sent("BUY", bid, clip, loss, b)
                                                  \o Sent("SELL", ask, clip, loss, a)
    BY <1>1, Zenon DEF moveOrders
  <2> HIDE DEF Places
  <2>4. b \in Nat /\ a \in Nat /\ a + Places("SELL", ask) \in Nat
    BY <2>1, <2>2
  <2> HIDE DEF a, b
  <2> QED BY <2>3, <2>4
<1> DEFINE q == outgoing_requests
           st == stale_requests
           q1 == q \o Sent("BUY", bid, clip, loss, bid_id)
           q2 == q1 \o Sent("SELL", ask, clip, loss, ask_id)
           buy == moveOrder("BUY", bid, clip, loss, bid_id)
           sell == moveOrder("SELL", ask, clip, loss, ask_id)
           s == incoming_responses
<1>5. "BUY" \in Sides /\ "SELL" \in Sides /\ \A side \in Sides : side = "BUY" \/ side = "SELL"
  BY DEF Sides
<1>6. q \in Seq(Requests) /\ st \in 0 .. Len(q) /\ NewsHaveQty(q)
  BY <1>3 DEF TypeOK, NewsHaveQty
<1>7. /\ q1 \in Seq(Requests) /\ st \in 0 .. Len(q1) /\ NewsHaveQty(q1) /\ buy \in Slots
      /\ SideOk(ticker_side_order["BUY"], q, st, live, s, "BUY") =>
            /\ SideOk(buy, q1, st, live, s, "BUY")
            /\ Within("BUY", position, Exposure(q, st, live, s, "BUY")) =>
               Within("BUY", position, Exposure(q1, st, live, s, "BUY"))
      /\ SideOk(ticker_side_order["SELL"], q, st, live, s, "SELL") =>
            /\ SideOk(ticker_side_order["SELL"], q1, st, live, s, "SELL")
            /\ Exposure(q1, st, live, s, "SELL") = Exposure(q, st, live, s, "SELL")
  <2>1. MovedOk("BUY", q, st, q1, buy)
    BY <1>3, <1>5, <1>6, MoveOne
  <2> HIDE DEF q1, buy
  <2> QED BY <1>5, <2>1 DEF MovedOk
<1>8. /\ q2 \in Seq(Requests) /\ st \in 0 .. Len(q2) /\ NewsHaveQty(q2) /\ sell \in Slots
      /\ SideOk(ticker_side_order["SELL"], q1, st, live, s, "SELL") =>
            /\ SideOk(sell, q2, st, live, s, "SELL")
            /\ Within("SELL", position, Exposure(q1, st, live, s, "SELL")) =>
               Within("SELL", position, Exposure(q2, st, live, s, "SELL"))
      /\ SideOk(buy, q1, st, live, s, "BUY") =>
            /\ SideOk(buy, q2, st, live, s, "BUY")
            /\ Exposure(q2, st, live, s, "BUY") = Exposure(q1, st, live, s, "BUY")
  <2> HIDE DEF q1, buy
  <2>1. MovedOk("SELL", q1, st, q2, sell)
    BY <1>3, <1>5, <1>7, MoveOne
  <2> HIDE DEF q2, sell
  <2> QED BY <1>5, <2>1 DEF MovedOk
<1>9. /\ outgoing_requests' = q2
      /\ ticker_side_order'["BUY"] = buy /\ ticker_side_order'["SELL"] = sell
  BY <1>4, <1>5
<1>10. ticker_side_order' \in [Sides -> Slots]
  <2>1. \A side \in Sides : (IF side = "BUY" THEN moveOrder(side, bid, clip, loss, bid_id)
                             ELSE moveOrder(side, ask, clip, loss, ask_id)) \in Slots
    BY <1>5, <1>7, <1>8
  <2> QED BY <1>4, <2>1
<1> HIDE DEF q1, q2, buy, sell
<1>11. TypeOK'
  BY <1>2, <1>3, <1>4, <1>8, <1>9, <1>10 DEF TypeOK, NewsHaveQty
<1>12. BookInv'
  BY <1>2, <1>3 DEF BookInv
<1>13. ASSUME ~mixed'
       PROVE  \A side \in Sides :
                 /\ SideOk(ticker_side_order'[side], q2, st, live, s, side)
                 /\ Within(side, position, Exposure(q2, st, live, s, side))
  <2>1. \A side \in Sides : /\ SideOk(ticker_side_order[side], q, st, live, s, side)
                            /\ Within(side, position, Exposure(q, st, live, s, side))
    BY <1>2, <1>3, <1>13 DEF SideInv, ExposureInv
  <2> QED BY <1>5, <1>7, <1>8, <1>9, <2>1
<1>14. SideInv' /\ ExposureInv'
  BY <1>2, <1>9, <1>13 DEF SideInv, ExposureInv
<1> QED BY <1>11, <1>12, <1>14 DEF IInv

\* What a response makes of the side it names.
LEMMA SideTold ==
    ASSUME NEW q, NEW st, NEW side \in Sides, NEW slot \in Slots,
           NEW book, NEW s \in Seq(Responses), s # <<>>,
           SideOk(slot, q, st, book, s, side), IsOwn(Head(s), side)
    PROVE  SideOk(onOrderUpdate(slot, Head(s)), q, st, book, Tail(s), side)
<1> DEFINE r == Head(s)
           slot2 == onOrderUpdate(slot, r)
<1>1. r \in Responses /\ r = s[1] /\ 1 \in 1 .. Len(s)
  BY ResponsesTail
<1>2. r.type \in ResponseTypes /\ r.leaves_qty \in Nat
  BY <1>1 DEF Responses
<1> HIDE DEF r
<1>3. CASE r.type = "ACCEPTED"
  <2>1. slot2 = [slot EXCEPT !.order_state = "LIVE"]
    BY <1>3 DEF onOrderUpdate
  <2> QED BY <1>3, <2>1, SideToldAccepted DEF r
<1>4. CASE r.type = "CANCELED"
  <2>1. slot2.order_state = "DEAD"
    BY <1>4 DEF onOrderUpdate, Slots
  <2>2. EndAt(s, 1, side)
    BY <1>1, <1>4 DEF EndAt, Own, r
  <2> HIDE DEF slot2
  <2>3. SideOk(slot2, q, st, book, Tail(s), side)
    BY <2>1, <2>2, SideToldEnd
  <2> QED BY <2>3 DEF slot2, r
<1>5. CASE r.type = "FILLED"
  <2>1. /\ slot2.qty = r.leaves_qty /\ slot2.order_id = slot.order_id
        /\ slot2.order_state = IF r.leaves_qty = 0 THEN "DEAD" ELSE slot.order_state
    BY <1>5 DEF onOrderUpdate, Slots
  <2> HIDE DEF slot2
  <2>2. CASE r.leaves_qty = 0
    <3>1. EndAt(s, 1, side)
      BY <1>1, <1>5, <2>2 DEF EndAt, Own, r
    <3>2. slot2.order_state = "DEAD"
      BY <2>1, <2>2
    <3>3. SideOk(slot2, q, st, book, Tail(s), side)
      BY <3>1, <3>2, SideToldEnd
    <3> QED BY <3>3 DEF slot2, r
  <2>3. CASE r.leaves_qty # 0
    <3>1. SideOk(slot2, q, st, book, Tail(s), side)
      BY <1>5, <2>1, <2>3, SideToldFill DEF r
    <3> QED BY <3>1 DEF slot2, r
  <2> QED BY <2>2, <2>3
<1>6. CASE r.type \in {"INVALID", "CANCEL_REJECTED"}
  <2>1. slot2 = slot
    BY <1>6 DEF onOrderUpdate
  <2> QED BY <1>6, <2>1, SideNotTold DEF r
<1> QED BY <1>2, <1>3, <1>4, <1>5, <1>6 DEF ResponseTypes

(* A fill heard of moves its quantity from the exposure to the position.   *)
LEMMA FillCounted ==
    ASSUME NEW side \in Sides, NEW m \in Sides \cup {NoSide}, NEW p \in Int, NEW p2, NEW e \in Nat,
           NEW x \in Nat,
           m = "BUY" => p2 = p + e, m = "SELL" => p2 = p - e, m = NoSide => p2 = p,
           Within(side, p, IF side = m THEN e + x ELSE x)
    PROVE  Within(side, p2, x)
<1>1. max_position \in Nat
  BY OrdersAssumption
<1>2. CASE m = "BUY" /\ side = "BUY"
  BY <1>1, <1>2 DEF Within
<1>3. CASE m = "BUY" /\ side = "SELL"
  BY <1>1, <1>3 DEF Within
<1>4. CASE m = "SELL" /\ side = "BUY"
  BY <1>1, <1>4 DEF Within
<1>5. CASE m = "SELL" /\ side = "SELL"
  BY <1>1, <1>5 DEF Within
<1>6. CASE m = NoSide
  BY <1>6 DEF Sides, NoSide
<1> QED BY <1>2, <1>3, <1>4, <1>5, <1>6 DEF Sides

(* The client handles a response.                                          *)
LEMMA HandleStep ==
    ASSUME IInv, HandleResponse
    PROVE  IInv'
<1> DEFINE q == outgoing_requests
           st == stale_requests
           s == incoming_responses
           r == Head(s)
           m == r.side
<1>1. TypeOK /\ BookInv /\ SideInv /\ ExposureInv
  BY DEF IInv
<1>2. /\ live' = live /\ orphans' = orphans /\ registered' = registered
      /\ stale_requests' = st /\ outgoing_requests' = q /\ next_order_id' = next_order_id
      /\ incoming_responses' = Tail(s) /\ s # <<>>
      /\ mixed' = (mixed \/ r.orphan)
      /\ ticker_side_order' =
            [side \in Sides |-> IF side = m THEN onOrderUpdate(ticker_side_order[side], r)
                                ELSE ticker_side_order[side]]
      /\ position' = IF r.type = "FILLED"
                     THEN position + sideToValue(m) * r.exec_qty ELSE position
  BY DEF HandleResponse, handleResponse, exchange
<1>3. /\ s \in Seq(Responses) /\ live \in SUBSET Orders /\ position \in Int
      /\ q \in Seq(Requests) /\ st \in 0 .. Len(q) /\ ticker_side_order \in [Sides -> Slots]
      /\ mixed \in BOOLEAN
  BY <1>1 DEF TypeOK
<1>4. /\ Tail(s) \in Seq(Responses) /\ r \in Responses /\ r = s[1] /\ Len(s) \in Nat \ {0}
      /\ Len(Tail(s)) = Len(s) - 1 /\ \A i \in 1 .. Len(s) - 1 : Tail(s)[i] = s[i + 1]
  BY <1>2, <1>3, OwnTail
<1>5. /\ m \in Sides \cup {NoSide} /\ (m = NoSide => r.type # "FILLED")
      /\ r.exec_qty \in Nat /\ r.leaves_qty \in Nat /\ r.orphan \in BOOLEAN
  BY <1>4 DEF Responses, Sides, NoSide
<1>6. r.type # "FILLED" => r.exec_qty = 0
  <2>1. 1 \in 1 .. Len(s)
    BY <1>4
  <2> QED BY <1>1, <1>4, <2>1 DEF TypeOK
<1> HIDE DEF r, m
<1>7. \A side \in Sides : onOrderUpdate(ticker_side_order[side], r) \in Slots
  <2> TAKE side \in Sides
  <2>1. ticker_side_order[side] \in Slots
    BY <1>3
  <2> QED BY <1>5, <2>1 DEF onOrderUpdate, Slots, States
<1>8. /\ ticker_side_order' \in [Sides -> Slots]
      /\ \A side \in Sides :
            ticker_side_order'[side] = IF side = m THEN onOrderUpdate(ticker_side_order[side], r)
                                       ELSE ticker_side_order[side]
  BY <1>2, <1>3, <1>7
<1>9. TypeOK'
  <2>1. mixed' \in BOOLEAN
    BY <1>2, <1>3, <1>5, Zenon
  <2>2. position' \in Int
    BY <1>2, <1>3, <1>5 DEF sideToValue
  <2>3. \A i \in 1 .. Len(Tail(s)) : Tail(s)[i].type # "FILLED" => Tail(s)[i].exec_qty = 0
    <3> TAKE i \in 1 .. Len(Tail(s))
    <3>1. i + 1 \in 1 .. Len(s) /\ Tail(s)[i] = s[i + 1]
      BY <1>4
    <3> QED BY <1>1, <3>1 DEF TypeOK
  <2> QED BY <1>1, <1>2, <1>4, <1>8, <2>1, <2>2, <2>3 DEF TypeOK
<1>10. BookInv'
  BY <1>1, <1>2 DEF BookInv
<1>11. ASSUME ~mixed'
       PROVE  \A side \in Sides :
                 /\ SideOk(ticker_side_order'[side], q, st, live, Tail(s), side)
                 /\ Within(side, position', Exposure(q, st, live, Tail(s), side))
  <2>1. ~mixed /\ ~r.orphan
    BY <1>2, <1>11
  <2> SUFFICES ASSUME NEW side \in Sides
               PROVE  /\ SideOk(ticker_side_order'[side], q, st, live, Tail(s), side)
                      /\ Within(side, position', Exposure(q, st, live, Tail(s), side))
    OBVIOUS
  <2>2. /\ SideOk(ticker_side_order[side], q, st, live, s, side)
        /\ Within(side, position, Exposure(q, st, live, s, side))
    BY <1>1, <2>1 DEF SideInv, ExposureInv
  <2>3. IsOwn(r, side) <=> side = m
    BY <2>1 DEF IsOwn, m
  <2>4. SideOk(ticker_side_order'[side], q, st, live, Tail(s), side)
    <3>1. CASE side = m
      <4>1. ticker_side_order[side] \in Slots
        BY <1>3
      <4> QED BY <1>2, <1>3, <1>8, <2>2, <2>3, <3>1, <4>1, SideTold DEF r
    <3>2. CASE side # m
      BY <1>2, <1>3, <1>8, <2>2, <2>3, <3>2, SideNotTold DEF r
    <3> QED BY <3>1, <3>2
  <2>5. /\ Total(Execs(s, side)) = (IF side = m THEN r.exec_qty ELSE 0)
                                   + Total(Execs(Tail(s), side))
        /\ Total(Execs(Tail(s), side)) \in Nat
    BY <1>2, <1>3, <2>3, ExecsTail DEF r
  <2>6. RestQty(live, side) \in Nat /\ NewQty(q, st, side) \in Nat
    <3>1. OneOpen(q, st, live, side) /\ st \in Nat
      BY <1>3, <2>2 DEF SideOk
    <3> QED BY <1>3, <3>1, ExposureNat
  <2>7. Within(side, position', Exposure(q, st, live, Tail(s), side))
    <3>1. PICK e, t, u, v \in Nat :
             /\ e = r.exec_qty /\ t = Total(Execs(Tail(s), side))
             /\ u = RestQty(live, side) /\ v = NewQty(q, st, side)
      BY <1>5, <2>5, <2>6
    <3>2. /\ Exposure(q, st, live, s, side) = (IF side = m THEN e ELSE 0) + t + u + v
          /\ Exposure(q, st, live, Tail(s), side) = t + u + v
      BY <2>5, <3>1 DEF Exposure
    <3>3. /\ m = "BUY" => position' = position + e
          /\ m = "SELL" => position' = position - e
          /\ m = NoSide => position' = position
      <4>1. CASE m = "BUY"
        BY <1>2, <1>3, <1>6, <3>1, <4>1 DEF sideToValue, NoSide
      <4>2. CASE m = "SELL"
        <5>1. sideToValue(m) * e = -e
          BY <3>1, <4>2 DEF sideToValue
        <5> QED BY <1>2, <1>3, <1>6, <3>1, <4>2, <5>1 DEF NoSide
      <4>3. CASE m = NoSide
        BY <1>2, <1>5, <4>3 DEF NoSide
      <4> QED BY <4>1, <4>2, <4>3 DEF NoSide
    <3>4. PICK x \in Nat : x = t + u + v
      BY <3>1
    <3>5. Exposure(q, st, live, s, side) = IF side = m THEN e + x ELSE x
      BY <3>1, <3>2, <3>4
    <3>6. Within(side, position, IF side = m THEN e + x ELSE x)
      BY <2>2, <3>5
    <3>7. Within(side, position', x)
      BY <1>3, <1>5, <3>3, <3>6, FillCounted
    <3> QED BY <3>2, <3>4, <3>7
  <2> QED BY <2>4, <2>7
<1>12. SideInv' /\ ExposureInv'
  BY <1>2, <1>11 DEF SideInv, ExposureInv
<1> QED BY <1>9, <1>10, <1>12 DEF IInv

(* The client restarts.                                                    *)
LEMMA RestartStep ==
    ASSUME IInv, Restart
    PROVE  IInv'
<1>1. TypeOK /\ BookInv
  BY DEF IInv
<1>2. PICK sent \in stale_requests .. Len(outgoing_requests) :
         /\ outgoing_requests' = SubSeq(outgoing_requests, 1, sent)
         /\ stale_requests' = sent
  BY DEF Restart
<1>3. /\ ticker_side_order' = [side \in Sides |-> NoOrder]
      /\ next_order_id' = 1 /\ position' = 0 /\ mixed' = FALSE
      /\ live' = {} /\ orphans' = orphans \cup live /\ registered' = FALSE
      /\ incoming_responses' = <<>>
  BY DEF Restart
<1> DEFINE q == outgoing_requests
           q2 == SubSeq(q, 1, sent)
<1>4. q \in Seq(Requests) /\ sent \in 0 .. Len(q) /\ Len(q) \in Nat
  BY <1>1, <1>2 DEF TypeOK
<1>5. /\ q2 \in Seq(Requests) /\ Len(q2) = sent /\ \A i \in 1 .. sent : q2[i] = q[i]
  BY <1>4
<1> HIDE DEF q2
<1>6. NoOrder \in Slots
  BY DEF NoOrder, Slots, States
<1>7. TypeOK'
  <2>1. /\ live' \subseteq Orders /\ orphans' \subseteq Orders
        /\ ticker_side_order' \in [Sides -> Slots]
        /\ next_order_id' \in Nat /\ position' \in Int
    BY <1>1, <1>3, <1>6 DEF TypeOK
  <2>2. /\ outgoing_requests' \in Seq(Requests)
        /\ stale_requests' \in 0 .. Len(outgoing_requests')
        /\ \A i \in 1 .. Len(outgoing_requests') :
              outgoing_requests'[i].type = "NEW" => outgoing_requests'[i].qty # 0
    BY <1>1, <1>2, <1>4, <1>5 DEF TypeOK, q2
  <2>3. /\ incoming_responses' \in Seq(Responses)
        /\ \A i \in 1 .. Len(incoming_responses') :
              incoming_responses'[i].type # "FILLED" => incoming_responses'[i].exec_qty = 0
    BY <1>3
  <2>4. registered' \in BOOLEAN /\ mixed' \in BOOLEAN
    BY <1>3, Zenon
  <2> QED BY <2>1, <2>2, <2>3, <2>4 DEF TypeOK
<1>8. BookInv'
  BY <1>1, <1>3 DEF BookInv
<1>9. ASSUME NEW side \in Sides
      PROVE  /\ SideOk(NoOrder, q2, sent, {}, <<>>, side)
             /\ Within(side, 0, Exposure(q2, sent, {}, <<>>, side))
  <2>1. News(q2, sent, side) = {} /\ Resting({}, side) = {}
    BY <1>4, <1>5 DEF News, Resting
  <2>2. /\ \A i : ~FillAt(<<>>, i, side) /\ ~EndAt(<<>>, i, side) /\ ~AcceptedAt(<<>>, i, side)
        /\ NoOrder.order_state = "INVALID"
    BY DEF FillAt, EndAt, AcceptedAt, Own, NoOrder
  <2>3. SideOk(NoOrder, q2, sent, {}, <<>>, side)
    BY <2>1, <2>2 DEF SideOk, OneOpen, FreeSlot, NewSlot, EndsLast, AcceptedRests, RestingSlot,
                      NoFill
  <2>4. <<>> \in Seq(Responses) /\ {} \in SUBSET Orders /\ sent \in Nat
    BY <1>4
  <2>5. Total(Execs(<<>>, side)) = 0
    BY <2>4, ExecsEmpty
  <2>6. RestQty({}, side) = 0
    BY <2>1, <2>4, RestQtyOne, Zenon
  <2>7. NewQty(q2, sent, side) = 0
    BY <1>5, <2>1, <2>4, NewQtyOne, Zenon
  <2>8. Exposure(q2, sent, {}, <<>>, side) = 0
    BY <2>5, <2>6, <2>7 DEF Exposure
  <2> QED BY <2>3, <2>8, OrdersAssumption DEF Within
<1>10. SideInv' /\ ExposureInv'
  BY <1>2, <1>3, <1>9 DEF SideInv, ExposureInv, q2
<1> QED BY <1>7, <1>8, <1>10 DEF IInv

(* The invariant holds at the start.                                       *)
LEMMA FlowInit ==
    ASSUME Init
    PROVE  IInv
<1> USE DEF Init, ClientInit
<1>1. NoOrder \in Slots
  BY DEF NoOrder, Slots, States
<1>2. TypeOK
  <2>1. ticker_side_order \in [Sides -> Slots]
    BY <1>1
  <2>2. registered \in BOOLEAN /\ mixed \in BOOLEAN
    BY Zenon
  <2>3. outgoing_requests \in Seq(Requests) /\ incoming_responses \in Seq(Responses)
    OBVIOUS
  <2>4. stale_requests \in 0 .. Len(outgoing_requests)
    OBVIOUS
  <2> QED BY <2>1, <2>2, <2>3, <2>4 DEF TypeOK
<1>3. BookInv
  BY DEF BookInv
<1>4. ASSUME NEW side \in Sides
      PROVE  /\ SideOk(NoOrder, <<>>, 0, {}, <<>>, side)
             /\ Within(side, 0, Exposure(<<>>, 0, {}, <<>>, side))
  <2>1. News(<<>>, 0, side) = {} /\ Resting({}, side) = {}
    BY DEF News, Resting
  <2>2. /\ \A i : ~FillAt(<<>>, i, side) /\ ~EndAt(<<>>, i, side) /\ ~AcceptedAt(<<>>, i, side)
        /\ NoOrder.order_state = "INVALID"
    BY DEF FillAt, EndAt, AcceptedAt, Own, NoOrder
  <2>3. SideOk(NoOrder, <<>>, 0, {}, <<>>, side)
    BY <2>1, <2>2 DEF SideOk, OneOpen, FreeSlot, NewSlot, EndsLast, AcceptedRests, RestingSlot,
                      NoFill
  <2>4. <<>> \in Seq(Responses) /\ <<>> \in Seq(Requests) /\ {} \in SUBSET Orders /\ 0 \in Nat
    OBVIOUS
  <2>5. Total(Execs(<<>>, side)) = 0
    BY <2>4, ExecsEmpty
  <2>6. RestQty({}, side) = 0
    BY <2>1, <2>4, RestQtyOne, Zenon
  <2>7. NewQty(<<>>, 0, side) = 0
    BY <2>1, <2>4, NewQtyOne, Zenon
  <2>8. Exposure(<<>>, 0, {}, <<>>, side) = 0
    BY <2>5, <2>6, <2>7 DEF Exposure
  <2> QED BY <2>3, <2>8, OrdersAssumption DEF Within
<1>5. SideInv /\ ExposureInv
  BY <1>4 DEF SideInv, ExposureInv
<1> QED BY <1>2, <1>3, <1>5 DEF IInv

----------------------------------------------------------------------------
(* A side that is in order and within the limit, as the exchange acts.     *)

Good(slot, q, st, book, s, side, p) ==
    SideOk(slot, q, st, book, s, side) /\ Within(side, p, Exposure(q, st, book, s, side))

(* Less exposure is within the limit too.                                  *)
LEMMA WithinLess ==
    ASSUME NEW side \in Sides, NEW p \in Int, NEW e \in Nat, NEW e2 \in Nat, e2 <= e,
           Within(side, p, e)
    PROVE  Within(side, p, e2)
<1>1. max_position \in Nat
  BY OrdersAssumption
<1>2. CASE side = "BUY"
  BY <1>1, <1>2 DEF Within
<1>3. CASE side # "BUY"
  BY <1>1, <1>3 DEF Within
<1> QED BY <1>2, <1>3

(* The engine takes a request that does nothing to the side's order.       *)
LEMMA GoodTaken ==
    ASSUME NEW q \in Seq(Requests), q # <<>>, NEW st \in 0 .. Len(q), NEW side \in Sides,
           NEW slot, NEW book \in SUBSET Orders, NEW s \in Seq(Responses), NEW p \in Int,
           Good(slot, q, st, book, s, side, p),
           st = 0 /\ Head(q).type = "CANCEL" =>
               \A o \in Resting(book, side) : o.order_id # Head(q).order_id
    PROVE  Good(slot, Tail(q), PopStale(st), book, s, side, p)
<1> DEFINE q2 == Tail(q)
           st2 == PopStale(st)
<1>1. SideOk(slot, q2, st2, book, s, side)
  BY SideRequestTaken DEF Good
<1>2. OneOpen(q, st, book, side) /\ \A i, j \in News(q, st, side) : i = j
  BY DEF Good, SideOk, OneOpen
<1>3. /\ NewQty(q2, st2, side) <= NewQty(q, st, side)
      /\ NewQty(q2, st2, side) \in Nat /\ NewQty(q, st, side) \in Nat
  BY <1>2, NewQtyTail
<1>4. RestQty(book, side) \in Nat
  <2>1. st \in Nat
    OBVIOUS
  <2> QED BY <1>2, <2>1, ExposureNat
<1>5. Total(Execs(s, side)) \in Nat
  BY ExecsNat
<1> HIDE DEF q2, st2
<1>6. PICK t, u, v, w \in Nat : /\ t = Total(Execs(s, side)) /\ u = RestQty(book, side)
                                /\ v = NewQty(q, st, side) /\ w = NewQty(q2, st2, side)
  BY <1>3, <1>4, <1>5
<1>7. /\ Exposure(q, st, book, s, side) = t + u + v
      /\ Exposure(q2, st2, book, s, side) = t + u + w
  BY <1>6 DEF Exposure
<1>8. t + u + v \in Nat /\ t + u + w \in Nat /\ t + u + w <= t + u + v
  BY <1>3, <1>6
<1>9. Within(side, p, t + u + w)
  BY <1>7, <1>8, WithinLess DEF Good
<1> QED BY <1>1, <1>7, <1>9 DEF Good, q2, st2

(* A response that ends nothing and fills nothing is sent.                 *)
LEMMA GoodUnconcerned ==
    ASSUME NEW q, NEW st, NEW side \in Sides,
           NEW slot, NEW book, NEW s \in Seq(Responses), NEW r \in Responses, NEW p \in Int,
           Good(slot, q, st, book, s, side, p),
           IsOwn(r, side) => r.type \in {"INVALID", "CANCEL_REJECTED"} /\ r.exec_qty = 0
    PROVE  Good(slot, q, st, book, Append(s, r), side, p)
<1>1. SideOk(slot, q, st, book, Append(s, r), side)
  BY SideUnconcerned DEF Good
<1>2. Total(Execs(Append(s, r), side)) = Total(Execs(s, side))
  BY ExecsAppend
<1>3. Exposure(q, st, book, Append(s, r), side) = Exposure(q, st, book, s, side)
  BY <1>2 DEF Exposure
<1> QED BY <1>1, <1>3 DEF Good

(* The side's NEW becomes its resting order.                               *)
LEMMA GoodAccepted ==
    ASSUME NEW q \in Seq(Requests), q # <<>>, NEW side \in Sides,
           NEW slot, NEW book \in SUBSET Orders, NEW book2 \in SUBSET Orders,
           NEW s \in Seq(Responses), NEW r \in Responses, NEW order, NEW p \in Int,
           Good(slot, q, 0, book, s, side, p),
           Head(q).type = "NEW", Head(q).side = side,
           order.side = side, order.order_id = Head(q).order_id, order.leaves_qty = Head(q).qty,
           Resting(book2, side) = Resting(book, side) \cup {order},
           r.type = "ACCEPTED", IsOwn(r, side), r.exec_qty = 0
    PROVE  Good(slot, Tail(q), 0, book2, Append(s, r), side, p)
<1> DEFINE q2 == Tail(q)
           s2 == Append(s, r)
<1>1. SideOk(slot, q2, 0, book2, s2, side)
  BY SideAccepted DEF Good
<1>2. OneOpen(q, 0, book, side) /\ OneOpen(q2, 0, book2, side)
  BY <1>1 DEF Good, SideOk
<1>3. Total(Execs(s2, side)) = Total(Execs(s, side)) /\ Total(Execs(s, side)) \in Nat
  BY ExecsAppend
<1>4. 1 \in News(q, 0, side) /\ Head(q) = q[1] /\ q2 \in Seq(Requests)
  BY NewsTail DEF News
<1> HIDE DEF q2, s2
<1>5. News(q, 0, side) = {1} /\ Resting(book, side) = {} /\ Resting(book2, side) = {order}
  BY <1>2, <1>4 DEF OneOpen
<1>6. News(q2, 0, side) = {}
  BY <1>2, <1>5 DEF OneOpen
<1>7. NewQty(q, 0, side) = q[1].qty
  BY <1>5, NewQtySingle
<1>8. NewQty(q2, 0, side) = 0
  BY <1>4, <1>6, 0 \in Nat, NewQtyOne, Zenon
<1>9. RestQty(book, side) = 0
  BY <1>5, RestQtyOne, Zenon
<1>10. RestQty(book2, side) = order.leaves_qty /\ order.leaves_qty \in Nat
  BY <1>5, RestQtySingle
<1>11. PICK t, x \in Nat : t = Total(Execs(s, side)) /\ x = order.leaves_qty
  BY <1>3, <1>10
<1>12. Exposure(q2, 0, book2, s2, side) = t + x /\ Exposure(q, 0, book, s, side) = t + x
  BY <1>3, <1>4, <1>7, <1>8, <1>9, <1>10, <1>11 DEF Exposure
<1> QED BY <1>1, <1>12 DEF Good, q2, s2

(* The side's resting order ends.                                          *)
LEMMA GoodEnded ==
    ASSUME NEW q \in Seq(Requests), NEW st \in Nat, NEW side \in Sides,
           NEW slot, NEW book \in SUBSET Orders, NEW book2 \in SUBSET Orders,
           NEW s \in Seq(Responses), NEW r \in Responses, NEW order, NEW p \in Int,
           Good(slot, q, st, book, s, side, p),
           Resting(book, side) = {order}, Resting(book2, side) = {},
           IsOwn(r, side), r.type = "CANCELED" \/ (r.type = "FILLED" /\ r.leaves_qty = 0),
           r.exec_qty <= order.leaves_qty
    PROVE  Good(slot, q, st, book2, Append(s, r), side, p)
<1> DEFINE s2 == Append(s, r)
<1>1. SideOk(slot, q, st, book2, s2, side)
  BY SideEnded DEF Good
<1>2. Total(Execs(s2, side)) = Total(Execs(s, side)) + r.exec_qty
      /\ Total(Execs(s, side)) \in Nat /\ r.exec_qty \in Nat
  BY ExecsAppend DEF Responses
<1>3. NewQty(q, st, side) \in Nat
  BY ExposureNat DEF Good, SideOk
<1>4. RestQty(book, side) = order.leaves_qty /\ order.leaves_qty \in Nat
  BY RestQtySingle
<1>5. RestQty(book2, side) = 0
  BY RestQtyOne, Zenon
<1> HIDE DEF s2
<1>6. PICK t, e, x, v \in Nat : /\ t = Total(Execs(s, side)) /\ e = r.exec_qty
                                /\ x = order.leaves_qty /\ v = NewQty(q, st, side)
  BY <1>2, <1>3, <1>4
<1>7. Exposure(q, st, book, s, side) = t + x + v /\ Exposure(q, st, book2, s2, side) = t + e + v
  BY <1>2, <1>4, <1>5, <1>6 DEF Exposure
<1>8. t + x + v \in Nat /\ t + e + v \in Nat /\ t + e + v <= t + x + v
  <2>1. e <= x
    BY <1>6
  <2> HIDE <1>6
  <2> QED BY <2>1
<1>9. Within(side, p, t + e + v)
  BY <1>7, <1>8, WithinLess DEF Good
<1> QED BY <1>1, <1>7, <1>9 DEF Good, s2

(* The side's resting order is filled in part.                             *)
LEMMA GoodPartlyFilled ==
    ASSUME NEW q \in Seq(Requests), NEW st \in Nat, NEW side \in Sides,
           NEW slot, NEW book \in SUBSET Orders, NEW book2 \in SUBSET Orders,
           NEW s \in Seq(Responses), NEW r \in Responses, NEW o, NEW o2, NEW p \in Int,
           Good(slot, q, st, book, s, side, p),
           Resting(book, side) = {o}, Resting(book2, side) = {o2}, o2.order_id = o.order_id,
           IsOwn(r, side), r.type = "FILLED", r.leaves_qty = o2.leaves_qty, r.leaves_qty # 0,
           r.exec_qty = o.leaves_qty - o2.leaves_qty
    PROVE  Good(slot, q, st, book2, Append(s, r), side, p)
<1> DEFINE s2 == Append(s, r)
<1>1. SideOk(slot, q, st, book2, s2, side)
  BY SidePartlyFilled DEF Good
<1>2. Total(Execs(s2, side)) = Total(Execs(s, side)) + r.exec_qty
      /\ Total(Execs(s, side)) \in Nat /\ r.exec_qty \in Nat
  BY ExecsAppend DEF Responses
<1>3. NewQty(q, st, side) \in Nat
  BY ExposureNat DEF Good, SideOk
<1>4. RestQty(book, side) = o.leaves_qty /\ o.leaves_qty \in Nat
  BY RestQtySingle
<1>5. RestQty(book2, side) = o2.leaves_qty /\ o2.leaves_qty \in Nat
  BY RestQtySingle
<1> HIDE DEF s2
<1>6. PICK t, e, x, y, v \in Nat : /\ t = Total(Execs(s, side)) /\ e = r.exec_qty
                                   /\ x = o.leaves_qty /\ y = o2.leaves_qty
                                   /\ v = NewQty(q, st, side)
  BY <1>2, <1>3, <1>4, <1>5
<1>7. Exposure(q, st, book, s, side) = t + x + v
      /\ Exposure(q, st, book2, s2, side) = t + e + y + v
  BY <1>2, <1>4, <1>5, <1>6 DEF Exposure
<1>8. t + e + y + v = t + x + v
  <2>1. e = x - y
    BY <1>6
  <2> HIDE <1>6
  <2> QED BY <2>1
<1> QED BY <1>1, <1>7, <1>8 DEF Good, s2

(* A change of the book that leaves the side's orders alone.               *)
LEMMA GoodElsewhere ==
    ASSUME NEW q, NEW st, NEW side, NEW slot, NEW book, NEW book2, NEW s, NEW p,
           Good(slot, q, st, book, s, side, p), Resting(book2, side) = Resting(book, side)
    PROVE  Good(slot, q, st, book2, s, side, p)
BY DEF Good, SideOk, OneOpen, FreeSlot, NewSlot, EndsLast, AcceptedRests, RestingSlot, Exposure, RestQty

----------------------------------------------------------------------------
(* The actions of the exchange.                                            *)

\* What every answer leaves alone, and the queue without its head.
LEMMA TakenFacts ==
    ASSUME IInv, Taken, outgoing_requests # <<>>
    PROVE  /\ outgoing_requests' = Tail(outgoing_requests)
           /\ stale_requests' = PopStale(stale_requests)
           /\ ticker_side_order' = ticker_side_order /\ next_order_id' = next_order_id
           /\ position' = position /\ mixed' = mixed
           /\ registered' = registered /\ registered \in BOOLEAN
           /\ stale_requests = 0 => registered
           /\ outgoing_requests' \in Seq(Requests)
           /\ stale_requests' \in 0 .. Len(outgoing_requests')
           /\ \A i \in 1 .. Len(outgoing_requests') :
                 outgoing_requests'[i].type = "NEW" => outgoing_requests'[i].qty # 0
           /\ Head(outgoing_requests) \in Requests
           /\ Head(outgoing_requests).type = "NEW" => Head(outgoing_requests).qty # 0
           /\ stale_requests # 0 => live = {}
           /\ ~registered => live = {} /\ incoming_responses = <<>>
           /\ stale_requests' # 0 => stale_requests # 0
<1> DEFINE q == outgoing_requests
           st == stale_requests
<1>1. TypeOK /\ BookInv
  BY DEF IInv
<1>2. /\ q \in Seq(Requests) /\ st \in 0 .. Len(q) /\ registered \in BOOLEAN
      /\ \A i \in 1 .. Len(q) : q[i].type = "NEW" => q[i].qty # 0
  BY <1>1 DEF TypeOK
<1>3. /\ \A i \in 1 .. Len(q) - 1 : Tail(q)[i] = q[i + 1]
      /\ Len(Tail(q)) = Len(q) - 1 /\ PopStale(st) \in 0 .. Len(Tail(q))
      /\ Head(q) = q[1] /\ q[1] \in Requests
      /\ Tail(q) \in Seq(Requests) /\ Len(q) \in Nat \ {0}
  <2>1. "BUY" \in Sides
    BY DEF Sides
  <2> QED BY <1>2, <2>1, NewsTail
<1>4. /\ outgoing_requests' = Tail(q) /\ stale_requests' = PopStale(st)
      /\ ticker_side_order' = ticker_side_order /\ next_order_id' = next_order_id
      /\ position' = position /\ mixed' = mixed
      /\ registered' = registered /\ (st = 0 => registered)
  BY DEF Taken, Fresh, PopStale, client
<1>6. \A i \in 1 .. Len(Tail(q)) : Tail(q)[i].type = "NEW" => Tail(q)[i].qty # 0
  <2> TAKE i \in 1 .. Len(Tail(q))
  <2>1. i + 1 \in 1 .. Len(q) /\ Tail(q)[i] = q[i + 1]
    BY <1>3
  <2> QED BY <1>2, <2>1
<1>7. q[1].type = "NEW" => q[1].qty # 0
  <2>1. 1 \in 1 .. Len(q)
    BY <1>3
  <2> QED BY <1>2, <2>1
<1>8. /\ st # 0 => live = {}
      /\ ~registered => live = {} /\ incoming_responses = <<>>
  BY <1>1 DEF BookInv
<1>9. stale_requests' # 0 => st # 0
  BY <1>4 DEF PopStale
<1> QED BY <1>2, <1>3, <1>4, <1>6, <1>7, <1>8, <1>9

(* The order server learns of the process.                                 *)
LEMMA RegisterStep ==
    ASSUME IInv, RegisterSession
    PROVE  IInv'
<1>1. /\ ticker_side_order' = ticker_side_order /\ next_order_id' = next_order_id
      /\ position' = position /\ outgoing_requests' = outgoing_requests
      /\ incoming_responses' = incoming_responses
      /\ live' = live /\ orphans' = orphans /\ registered' = TRUE
      /\ stale_requests' = stale_requests /\ mixed' = mixed
  BY DEF RegisterSession, client
<1>2. TypeOK' /\ BookInv'
  <2>1. registered' \in BOOLEAN
    BY <1>1, Zenon
  <2> QED BY <1>1, <2>1 DEF IInv, TypeOK, BookInv
<1>3. SideInv' /\ ExposureInv'
  BY <1>1 DEF IInv, SideInv, ExposureInv
<1> QED BY <1>2, <1>3 DEF IInv

Response(type, id, side, e, l, orphan) ==
    [type |-> type, order_id |-> id, side |-> side, exec_qty |-> e, leaves_qty |-> l,
     orphan |-> orphan]

\* It is sent to whoever has the session.
Sends(r) ==
    incoming_responses' = IF registered THEN Append(incoming_responses, r) ELSE incoming_responses

\* What is to be known of a response that the exchange sends.
ResponseOk(r, type, side, e, l, orphan) ==
    /\ r \in Responses
    /\ r.type = type /\ r.side = side /\ r.exec_qty = e /\ r.leaves_qty = l
    /\ \A k : IsOwn(r, k) <=> (k = side /\ ~orphan)

(* What a response that the engine builds says.                            *)
LEMMA RespondFacts ==
    ASSUME NEW type \in ResponseTypes, NEW id \in Nat, NEW side \in Sides \cup {NoSide},
           type # "CANCEL_REJECTED" => side \in Sides,
           NEW e \in Nat, NEW l \in Nat, NEW orphan \in BOOLEAN
    PROVE  ResponseOk(Response(type, id, side, e, l, orphan), type, side, e, l, orphan)
<1> DEFINE r == Response(type, id, side, e, l, orphan)
<1>1. r \in Responses
  BY DEF Responses, Response
<1>2. r.type = type /\ r.side = side /\ r.exec_qty = e /\ r.leaves_qty = l /\ r.orphan = orphan
  BY DEF Response
<1> HIDE DEF r
<1>3. \A k : IsOwn(r, k) <=> (k = side /\ ~orphan)
  BY <1>2 DEF IsOwn
<1>4. ResponseOk(r, type, side, e, l, orphan)
  BY <1>1, <1>2, <1>3 DEF ResponseOk
<1> QED BY <1>4 DEF r

(* What is on its way to the client once a response is sent.               *)
LEMMA SendsFacts ==
    ASSUME TypeOK, NEW r \in Responses, r.type # "FILLED" => r.exec_qty = 0, Sends(r)
    PROVE  /\ incoming_responses' \in Seq(Responses)
           /\ \A i \in 1 .. Len(incoming_responses') :
                 incoming_responses'[i].type # "FILLED" => incoming_responses'[i].exec_qty = 0
           /\ registered => incoming_responses' = Append(incoming_responses, r)
           /\ ~registered => incoming_responses' = incoming_responses
<1> DEFINE s == incoming_responses
<1>1. s \in Seq(Responses) /\ \A i \in 1 .. Len(s) : s[i].type # "FILLED" => s[i].exec_qty = 0
  BY DEF TypeOK
<1>2. /\ Append(s, r) \in Seq(Responses) /\ Len(Append(s, r)) = Len(s) + 1 /\ Len(s) \in Nat
      /\ \A i \in 1 .. Len(s) : Append(s, r)[i] = s[i]
      /\ Append(s, r)[Len(s) + 1] = r
  BY <1>1
<1>3. \A i \in 1 .. Len(s) + 1 :
         Append(s, r)[i].type # "FILLED" => Append(s, r)[i].exec_qty = 0
  <2> TAKE i \in 1 .. Len(s) + 1
  <2>1. CASE i \in 1 .. Len(s)
    BY <1>1, <1>2, <2>1
  <2>2. CASE i = Len(s) + 1
    BY <1>2, <2>2
  <2> QED BY <1>2, <2>1, <2>2
<1>4. CASE registered
  BY <1>2, <1>3, <1>4 DEF Sends
<1>5. CASE ~registered
  BY <1>1, <1>5 DEF Sends
<1> QED BY <1>4, <1>5

\* The invariant, from what the step makes of each side.
LEMMA SidesGood ==
    ASSUME SideInv, ExposureInv, ~mixed
    PROVE  \A side \in Sides : Good(ticker_side_order[side], outgoing_requests, stale_requests,
                                    live, incoming_responses, side, position)
BY DEF SideInv, ExposureInv, Good

(* The engine accepts a NEW.                                               *)
LEMMA AcceptsStep ==
    ASSUME IInv, Accepts
    PROVE  IInv'
<1> DEFINE q == outgoing_requests
           st == stale_requests
           s == incoming_responses
           request == Head(q)
           m == request.side
           order == [order_id |-> request.order_id, side |-> request.side,
                     leaves_qty |-> request.qty]
           r == Response("ACCEPTED", order.order_id, order.side, 0, order.leaves_qty, st # 0)
<1>1. TypeOK /\ BookInv /\ SideInv /\ ExposureInv
  BY DEF IInv
<1>2. /\ q # <<>> /\ request.type = "NEW" /\ Taken
      /\ WithId(request.order_id) = {}
      /\ live' = IF st = 0 THEN live \cup {order} ELSE live
      /\ orphans' = IF st = 0 THEN orphans ELSE orphans \cup {order}
      /\ Sends(r)
  BY DEF Accepts, NextIs, Fresh, Respond, Response, Sends
<1>3. /\ outgoing_requests' = Tail(q) /\ stale_requests' = PopStale(st)
      /\ ticker_side_order' = ticker_side_order /\ next_order_id' = next_order_id
      /\ position' = position /\ mixed' = mixed
      /\ registered' = registered /\ registered \in BOOLEAN /\ (st = 0 => registered)
      /\ outgoing_requests' \in Seq(Requests)
      /\ stale_requests' \in 0 .. Len(outgoing_requests')
      /\ \A i \in 1 .. Len(outgoing_requests') :
            outgoing_requests'[i].type = "NEW" => outgoing_requests'[i].qty # 0
      /\ request \in Requests /\ request.qty # 0
      /\ st # 0 => live = {}
      /\ ~registered => live = {} /\ s = <<>>
      /\ stale_requests' # 0 => st # 0
  BY <1>2, TakenFacts
<1>4. /\ request.order_id \in Nat /\ m \in Sides /\ request.qty \in Nat
  BY <1>3 DEF Requests
<1> HIDE DEF request
<1>5. order \in Orders /\ order.order_id = request.order_id /\ order.side = m
      /\ order.leaves_qty = request.qty
  BY <1>3, <1>4 DEF Orders
<1>6. ResponseOk(r, "ACCEPTED", m, 0, request.qty, st # 0)
  <2>1. "ACCEPTED" \in ResponseTypes /\ (st # 0) \in BOOLEAN
    BY DEF ResponseTypes
  <2> QED BY <1>4, <1>5, <2>1, RespondFacts
<1> HIDE DEF order, r
<1>7. /\ r \in Responses /\ r.type = "ACCEPTED" /\ r.exec_qty = 0
      /\ \A k : IsOwn(r, k) <=> (k = m /\ st = 0)
  BY <1>6 DEF ResponseOk
<1>8. /\ incoming_responses' \in Seq(Responses)
      /\ \A i \in 1 .. Len(incoming_responses') :
            incoming_responses'[i].type # "FILLED" => incoming_responses'[i].exec_qty = 0
      /\ registered => incoming_responses' = Append(s, r)
      /\ ~registered => incoming_responses' = s
  BY <1>1, <1>2, <1>7, SendsFacts
<1>9. TypeOK'
  <2>1. live' \subseteq Orders /\ orphans' \subseteq Orders
    BY <1>1, <1>2, <1>5 DEF TypeOK
  <2> QED BY <1>1, <1>3, <1>8, <2>1 DEF TypeOK
<1>10. BookInv'
  <2>1. \A o \in live \cup orphans : o.order_id # order.order_id
    BY <1>2, <1>5 DEF WithId
  <2>2. live' \cup orphans' = live \cup orphans \cup {order}
    BY <1>2
  <2>3. \A o, p \in live' \cup orphans' : o.order_id = p.order_id => o = p
    BY <1>1, <2>1, <2>2 DEF BookInv
  <2>4. live' \cap orphans' = {}
    BY <1>1, <1>2, <2>1 DEF BookInv
  <2>5. ~registered' => live' = {} /\ incoming_responses' = <<>>
    BY <1>2, <1>3, <1>8
  <2>6. stale_requests' # 0 => live' = {}
    BY <1>2, <1>3
  <2> QED BY <2>3, <2>4, <2>5, <2>6 DEF BookInv
<1>11. ASSUME ~mixed', NEW side \in Sides
      PROVE  Good(ticker_side_order[side], Tail(q), PopStale(st), live', incoming_responses',
                  side, position)
  <2>1. Good(ticker_side_order[side], q, st, live, s, side, position)
    BY <1>1, <1>3, <1>11, SidesGood
  <2>2. /\ q \in Seq(Requests) /\ st \in 0 .. Len(q) /\ live \in SUBSET Orders
        /\ s \in Seq(Responses) /\ position \in Int
    BY <1>1 DEF TypeOK
  <2>3. live' \in SUBSET Orders
    BY <1>9 DEF TypeOK
  <2>4. Head(q).type # "CANCEL"
    BY <1>2 DEF request
  <2>5. Good(ticker_side_order[side], Tail(q), PopStale(st), live, s, side, position)
    BY <1>2, <2>1, <2>2, <2>4, GoodTaken
  <2>6. CASE st # 0
    <3>1. live' = live /\ ~IsOwn(r, side)
      BY <1>2, <1>7, <2>6
    <3>2. Good(ticker_side_order[side], Tail(q), PopStale(st), live, Append(s, r), side, position)
      BY <1>7, <2>2, <2>5, <3>1, GoodUnconcerned
    <3> QED BY <1>3, <1>8, <2>5, <3>1, <3>2
  <2>7. CASE st = 0
    <3>1. incoming_responses' = Append(s, r) /\ \A k : IsOwn(r, k) <=> k = m
      BY <1>3, <1>7, <1>8, <2>7
    <3>2. PopStale(st) = 0 /\ live' = live \cup {order}
      BY <1>2, <2>7 DEF PopStale
    <3>3. CASE side = m
      <4>1. Resting(live', side) = Resting(live, side) \cup {order}
        BY <1>5, <3>2, <3>3 DEF Resting
      <4>2. IsOwn(r, side)
        BY <3>1, <3>3
      <4>3. Head(q).side = side /\ Head(q).type = "NEW" /\ order.side = side
            /\ order.order_id = Head(q).order_id /\ order.leaves_qty = Head(q).qty
        BY <1>2, <1>5, <3>3 DEF request
      <4>4. Good(ticker_side_order[side], q, 0, live, s, side, position)
        BY <2>1, <2>7
      <4>5. Good(ticker_side_order[side], Tail(q), 0, live', Append(s, r), side, position)
        BY <1>2, <1>7, <2>2, <2>3, <4>1, <4>2, <4>3, <4>4, GoodAccepted, Zenon
      <4> QED BY <3>1, <3>2, <4>5
    <3>4. CASE side # m
      <4>1. Resting(live', side) = Resting(live, side)
        BY <1>5, <3>2, <3>4 DEF Resting
      <4>2. Good(ticker_side_order[side], Tail(q), PopStale(st), live', s, side, position)
        BY <2>5, <4>1, GoodElsewhere
      <4>3. ~IsOwn(r, side)
        BY <3>1, <3>4
      <4> QED BY <1>7, <2>2, <3>1, <4>2, <4>3, GoodUnconcerned
    <3> QED BY <3>3, <3>4
  <2> QED BY <2>6, <2>7
<1>12. SideInv' /\ ExposureInv'
  BY <1>3, <1>11 DEF SideInv, ExposureInv, Good
<1> QED BY <1>9, <1>10, <1>12 DEF IInv

(* The engine rejects a request.                                           *)
LEMMA RejectsStep ==
    ASSUME IInv, Rejects
    PROVE  IInv'
<1> DEFINE q == outgoing_requests
           st == stale_requests
           s == incoming_responses
           request == Head(q)
           r == Response("INVALID", request.order_id, request.side, 0, 0, st # 0)
<1>1. TypeOK /\ BookInv /\ SideInv /\ ExposureInv
  BY DEF IInv
<1>2. /\ q # <<>> /\ request.type = "NEW" /\ Taken
      /\ live' = live /\ orphans' = orphans
      /\ Sends(r)
  BY DEF Rejects, NextIs, Fresh, Respond, Response, Sends
<1>3. /\ outgoing_requests' = Tail(q) /\ stale_requests' = PopStale(st)
      /\ ticker_side_order' = ticker_side_order /\ next_order_id' = next_order_id
      /\ position' = position /\ mixed' = mixed
      /\ registered' = registered /\ registered \in BOOLEAN /\ (st = 0 => registered)
      /\ outgoing_requests' \in Seq(Requests)
      /\ stale_requests' \in 0 .. Len(outgoing_requests')
      /\ \A i \in 1 .. Len(outgoing_requests') :
            outgoing_requests'[i].type = "NEW" => outgoing_requests'[i].qty # 0
      /\ request \in Requests
      /\ st # 0 => live = {}
      /\ ~registered => live = {} /\ s = <<>>
      /\ stale_requests' # 0 => st # 0
  BY <1>2, TakenFacts
<1>4. request.order_id \in Nat /\ request.side \in Sides
  BY <1>3 DEF Requests
<1>5. /\ incoming_responses' \in Seq(Responses)
      /\ \A i \in 1 .. Len(incoming_responses') :
            incoming_responses'[i].type # "FILLED" => incoming_responses'[i].exec_qty = 0
      /\ registered => incoming_responses' = Append(s, r)
      /\ ~registered => incoming_responses' = s
      /\ r \in Responses /\ r.type = "INVALID" /\ r.exec_qty = 0
  <2>1. "INVALID" \in ResponseTypes /\ (st # 0) \in BOOLEAN
    BY DEF ResponseTypes
  <2>2. ResponseOk(r, "INVALID", request.side, 0, 0, st # 0)
    BY <1>4, <2>1, RespondFacts
  <2> HIDE DEF r
  <2> QED BY <1>1, <1>2, <2>2, SendsFacts DEF ResponseOk
<1> HIDE DEF r
<1>6. TypeOK'
  BY <1>1, <1>2, <1>3, <1>5 DEF TypeOK
<1>7. BookInv'
  <2>1. ~registered' => live' = {} /\ incoming_responses' = <<>>
    BY <1>2, <1>3, <1>5
  <2>2. stale_requests' # 0 => live' = {}
    BY <1>2, <1>3
  <2> QED BY <1>1, <1>2, <2>1, <2>2 DEF BookInv
<1>8. ASSUME ~mixed', NEW side \in Sides
      PROVE  Good(ticker_side_order[side], Tail(q), PopStale(st), live', incoming_responses',
                  side, position)
  <2>1. Good(ticker_side_order[side], q, st, live, s, side, position)
    BY <1>1, <1>3, <1>8, SidesGood
  <2>2. /\ q \in Seq(Requests) /\ st \in 0 .. Len(q) /\ live \in SUBSET Orders
        /\ s \in Seq(Responses) /\ position \in Int
    BY <1>1 DEF TypeOK
  <2>3. Head(q).type # "CANCEL"
    BY <1>2
  <2>4. Good(ticker_side_order[side], Tail(q), PopStale(st), live, s, side, position)
    BY <1>2, <2>1, <2>2, <2>3, GoodTaken
  <2>5. Good(ticker_side_order[side], Tail(q), PopStale(st), live, Append(s, r), side, position)
    BY <1>5, <2>2, <2>4, GoodUnconcerned
  <2> QED BY <1>2, <1>3, <1>5, <2>4, <2>5
<1>9. SideInv' /\ ExposureInv'
  BY <1>3, <1>8 DEF SideInv, ExposureInv, Good
<1> QED BY <1>6, <1>7, <1>9 DEF IInv

(* The engine cancels an order.                                            *)
LEMMA CancelsStep ==
    ASSUME IInv, Cancels
    PROVE  IInv'
<1> DEFINE q == outgoing_requests
           st == stale_requests
           s == incoming_responses
           request == Head(q)
           found == WithId(request.order_id)
           rejected == Response("CANCEL_REJECTED", request.order_id, NoSide, 0, 0, st # 0)
           canceled(order) == Response("CANCELED", order.order_id, order.side, 0, 0,
                                       st # 0 \/ order \in orphans)
<1>1. TypeOK /\ BookInv /\ SideInv /\ ExposureInv
  BY DEF IInv
<1>2. /\ q # <<>> /\ request.type = "CANCEL" /\ Taken
      /\ \/ /\ found = {}
            /\ Sends(rejected)
            /\ live' = live /\ orphans' = orphans
         \/ \E order \in found :
               /\ live' = live \ {order} /\ orphans' = orphans \ {order}
               /\ Sends(canceled(order))
  BY DEF Cancels, NextIs, Fresh, Respond, Response, Sends
<1>3. /\ outgoing_requests' = Tail(q) /\ stale_requests' = PopStale(st)
      /\ ticker_side_order' = ticker_side_order /\ next_order_id' = next_order_id
      /\ position' = position /\ mixed' = mixed
      /\ registered' = registered /\ registered \in BOOLEAN /\ (st = 0 => registered)
      /\ outgoing_requests' \in Seq(Requests)
      /\ stale_requests' \in 0 .. Len(outgoing_requests')
      /\ \A i \in 1 .. Len(outgoing_requests') :
            outgoing_requests'[i].type = "NEW" => outgoing_requests'[i].qty # 0
      /\ request \in Requests
      /\ st # 0 => live = {}
      /\ ~registered => live = {} /\ s = <<>>
      /\ stale_requests' # 0 => st # 0
  BY <1>2, TakenFacts
<1>4. request.order_id \in Nat /\ request.side \in Sides
  BY <1>3 DEF Requests
<1>5. /\ q \in Seq(Requests) /\ st \in 0 .. Len(q) /\ live \in SUBSET Orders
      /\ orphans \in SUBSET Orders /\ s \in Seq(Responses) /\ position \in Int
      /\ \A i \in 1 .. Len(s) : s[i].type # "FILLED" => s[i].exec_qty = 0
  BY <1>1 DEF TypeOK
<1>6. \A o, p \in live \cup orphans : o.order_id = p.order_id => o = p
  BY <1>1 DEF BookInv
<1> DEFINE Wanted == /\ TypeOK' /\ BookInv'
                     /\ ~mixed' => \A side \in Sides :
                           Good(ticker_side_order[side], Tail(q), PopStale(st), live',
                                incoming_responses', side, position)
<1> HIDE DEF request
<1>7. ASSUME /\ found = {}
             /\ Sends(rejected)
             /\ live' = live /\ orphans' = orphans
      PROVE  Wanted
  <2> DEFINE r == rejected
  <2>1. /\ r \in Responses /\ r.type = "CANCEL_REJECTED" /\ r.exec_qty = 0
        /\ \A side \in Sides : ~IsOwn(r, side)
    <3>1. "CANCEL_REJECTED" \in ResponseTypes /\ (st # 0) \in BOOLEAN /\ NoSide \notin Sides
      BY DEF ResponseTypes, Sides, NoSide
    <3>2. ResponseOk(r, "CANCEL_REJECTED", NoSide, 0, 0, st # 0)
      BY <1>4, <3>1, RespondFacts
    <3> HIDE DEF r
    <3> QED BY <3>1, <3>2 DEF ResponseOk
  <2>2. Sends(r)
    BY <1>7
  <2> HIDE DEF r
  <2>3. /\ incoming_responses' \in Seq(Responses)
        /\ \A i \in 1 .. Len(incoming_responses') :
              incoming_responses'[i].type # "FILLED" => incoming_responses'[i].exec_qty = 0
        /\ registered => incoming_responses' = Append(s, r)
        /\ ~registered => incoming_responses' = s
    BY <1>1, <2>1, <2>2, SendsFacts
  <2>4. TypeOK'
    BY <1>1, <1>3, <1>7, <2>3 DEF TypeOK
  <2>5. BookInv'
    <3>1. ~registered' => live' = {} /\ incoming_responses' = <<>>
      BY <1>3, <1>7, <2>3
    <3>2. stale_requests' # 0 => live' = {}
      BY <1>3, <1>7
    <3> QED BY <1>1, <1>7, <3>1, <3>2 DEF BookInv
  <2>6. ASSUME ~mixed', NEW side \in Sides
        PROVE  Good(ticker_side_order[side], Tail(q), PopStale(st), live', incoming_responses',
                    side, position)
    <3>1. Good(ticker_side_order[side], q, st, live, s, side, position)
      BY <1>1, <1>3, <2>6, SidesGood
    <3>2. \A o \in Resting(live, side) : o.order_id # Head(q).order_id
      BY <1>7 DEF Resting, WithId, request
    <3>3. Good(ticker_side_order[side], Tail(q), PopStale(st), live, s, side, position)
      BY <1>2, <1>5, <3>1, <3>2, GoodTaken
    <3>4. Good(ticker_side_order[side], Tail(q), PopStale(st), live, Append(s, r), side, position)
      BY <1>5, <2>1, <3>3, GoodUnconcerned
    <3> QED BY <1>3, <1>7, <2>3, <3>3, <3>4
  <2> QED BY <2>4, <2>5, <2>6
<1>8. ASSUME NEW order \in found,
             /\ live' = live \ {order} /\ orphans' = orphans \ {order}
             /\ Sends(canceled(order))
      PROVE  Wanted
  <2> DEFINE r == canceled(order)
  <2>1. order \in live \cup orphans /\ order.order_id = request.order_id
    BY DEF WithId
  <2>2. order.order_id \in Nat /\ order.side \in Sides /\ order \in Orders
        /\ order.leaves_qty \in Nat
    BY <1>5, <2>1 DEF Orders
  <2>3. /\ r \in Responses /\ r.type = "CANCELED" /\ r.exec_qty = 0
        /\ \A side : IsOwn(r, side) <=> (side = order.side /\ ~(st # 0 \/ order \in orphans))
    <3>1. "CANCELED" \in ResponseTypes /\ (st # 0 \/ order \in orphans) \in BOOLEAN
      BY DEF ResponseTypes
    <3>2. ResponseOk(r, "CANCELED", order.side, 0, 0, st # 0 \/ order \in orphans)
      BY <2>2, <3>1, RespondFacts
    <3> HIDE DEF r
    <3> QED BY <3>2 DEF ResponseOk
  <2>4. Sends(r)
    BY <1>8
  <2> HIDE DEF r
  <2>5. /\ incoming_responses' \in Seq(Responses)
        /\ \A i \in 1 .. Len(incoming_responses') :
              incoming_responses'[i].type # "FILLED" => incoming_responses'[i].exec_qty = 0
        /\ registered => incoming_responses' = Append(s, r)
        /\ ~registered => incoming_responses' = s
    BY <1>1, <2>3, <2>4, SendsFacts
  <2>6. TypeOK'
    <3>1. live' \subseteq Orders /\ orphans' \subseteq Orders
      BY <1>5, <1>8
    <3> QED BY <1>1, <1>3, <2>5, <3>1 DEF TypeOK
  <2>7. BookInv'
    <3>1. ~registered' => live' = {} /\ incoming_responses' = <<>>
      BY <1>3, <1>8, <2>5
    <3>2. stale_requests' # 0 => live' = {}
      BY <1>3, <1>8
    <3>3. \A o, p \in live' \cup orphans' : o.order_id = p.order_id => o = p
      BY <1>6, <1>8
    <3>4. live' \cap orphans' = {}
      BY <1>1, <1>8 DEF BookInv
    <3> QED BY <3>1, <3>3, <3>4, <3>2 DEF BookInv
  <2>8. ASSUME ~mixed', NEW side \in Sides
        PROVE  Good(ticker_side_order[side], Tail(q), PopStale(st), live', incoming_responses',
                    side, position)
    <3>1. Good(ticker_side_order[side], q, st, live, s, side, position)
      BY <1>1, <1>3, <2>8, SidesGood
    <3>2. \A o \in live : o.order_id = Head(q).order_id => o = order
      BY <1>6, <2>1 DEF request
    <3>3. live \cap orphans = {} /\ live' \in SUBSET Orders
      BY <1>1, <1>5, <1>8 DEF BookInv
    <3>4. CASE order \notin live \/ side # order.side
      <4>1. Resting(live', side) = Resting(live, side)
        BY <1>8, <3>4 DEF Resting
      <4>2. \A o \in Resting(live, side) : o.order_id # Head(q).order_id
        BY <3>2, <3>4 DEF Resting
      <4>3. Good(ticker_side_order[side], Tail(q), PopStale(st), live, s, side, position)
        BY <1>2, <1>5, <3>1, <4>2, GoodTaken
      <4>4. Good(ticker_side_order[side], Tail(q), PopStale(st), live', s, side, position)
        BY <4>1, <4>3, GoodElsewhere
      <4>5. ~IsOwn(r, side)
        BY <2>1, <2>3, <3>4
      <4>6. Good(ticker_side_order[side], Tail(q), PopStale(st), live', Append(s, r), side, position)
        BY <1>5, <2>3, <4>4, <4>5, GoodUnconcerned
      <4> QED BY <1>3, <2>5, <4>4, <4>6
    <3>5. CASE order \in live /\ side = order.side
      <4>1. st = 0 /\ incoming_responses' = Append(s, r) /\ order \notin orphans
        BY <1>3, <2>5, <3>3, <3>5
      <4>2. Resting(live, side) = {order}
        BY <3>1, <3>5 DEF Good, SideOk, OneOpen, Resting
      <4>3. Resting(live', side) = {}
        BY <1>8, <4>2 DEF Resting
      <4>4. IsOwn(r, side) /\ r.exec_qty <= order.leaves_qty /\ st \in Nat
        BY <1>5, <2>2, <2>3, <3>5, <4>1
      <4>5. Good(ticker_side_order[side], q, st, live', Append(s, r), side, position)
        BY <1>5, <2>3, <3>1, <3>3, <4>2, <4>3, <4>4, GoodEnded, Zenon
      <4>6. \A o \in Resting(live', side) : o.order_id # Head(q).order_id
        BY <4>3
      <4> QED BY <1>2, <1>5, <2>5, <3>3, <4>1, <4>5, <4>6, GoodTaken
    <3> QED BY <3>4, <3>5
  <2> QED BY <2>6, <2>7, <2>8
<1>9. Wanted
  <2> HIDE DEF Wanted
  <2>1. CASE \E order \in found :
               /\ live' = live \ {order} /\ orphans' = orphans \ {order}
               /\ Sends(canceled(order))
    BY <1>8, <2>1
  <2>2. CASE /\ found = {}
             /\ Sends(rejected)
             /\ live' = live /\ orphans' = orphans
    BY <1>7, <2>2
  <2> QED BY <1>2, <2>1, <2>2
<1>10. SideInv' /\ ExposureInv'
  BY <1>3, <1>9 DEF SideInv, ExposureInv, Good
<1> QED BY <1>9, <1>10 DEF IInv

(* The engine fills an order.                                              *)
LEMMA FillsStep ==
    ASSUME IInv, NEW order \in live \cup orphans, NEW exec_qty \in 1 .. order.leaves_qty,
           Fills(order, exec_qty)
    PROVE  IInv'
<1> DEFINE q == outgoing_requests
           st == stale_requests
           s == incoming_responses
           leaves == order.leaves_qty - exec_qty
           less == [order EXCEPT !.leaves_qty = leaves]
           rest == IF leaves = 0 THEN {} ELSE {less}
           r == Response("FILLED", order.order_id, order.side, exec_qty, leaves, order \in orphans)
<1>1. TypeOK /\ BookInv /\ SideInv /\ ExposureInv
  BY DEF IInv
<1>2. /\ live' = Left(live, order, leaves) /\ orphans' = Left(orphans, order, leaves)
      /\ Sends(r)
      /\ ticker_side_order' = ticker_side_order /\ next_order_id' = next_order_id
      /\ position' = position /\ mixed' = mixed /\ registered' = registered
      /\ outgoing_requests' = q /\ stale_requests' = st
  BY DEF Fills, Respond, Response, Sends, client
<1>3. /\ q \in Seq(Requests) /\ st \in 0 .. Len(q) /\ live \in SUBSET Orders
      /\ orphans \in SUBSET Orders /\ s \in Seq(Responses) /\ position \in Int
      /\ \A i \in 1 .. Len(s) : s[i].type # "FILLED" => s[i].exec_qty = 0
  BY <1>1 DEF TypeOK
<1>4. /\ \A o, p \in live \cup orphans : o.order_id = p.order_id => o = p
      /\ live \cap orphans = {} /\ (~registered => live = {} /\ s = <<>>)
      /\ (st # 0 => live = {})
  BY <1>1 DEF BookInv
<1>5. /\ order \in Orders /\ order.order_id \in Nat /\ order.side \in Sides
      /\ order.leaves_qty \in Nat /\ exec_qty \in Nat \ {0} /\ leaves \in Nat
      /\ exec_qty <= order.leaves_qty
  BY <1>3 DEF Orders
<1>6. /\ less.order_id = order.order_id /\ less.side = order.side /\ less.leaves_qty = leaves
      /\ (leaves # 0 => less \in Orders)
  BY <1>5 DEF Orders
<1>7. /\ r \in Responses /\ r.type = "FILLED" /\ r.exec_qty = exec_qty /\ r.leaves_qty = leaves
      /\ \A side : IsOwn(r, side) <=> (side = order.side /\ order \notin orphans)
  <2> HIDE DEF leaves
  <2>1. "FILLED" \in ResponseTypes /\ (order \in orphans) \in BOOLEAN
    BY DEF ResponseTypes
  <2>2. ResponseOk(r, "FILLED", order.side, exec_qty, leaves, order \in orphans)
    BY <1>5, <2>1, RespondFacts
  <2> HIDE DEF r
  <2> QED BY <2>2 DEF ResponseOk
<1>8. exec_qty = order.leaves_qty - leaves
  BY <1>5
<1> HIDE DEF less, leaves, r
<1>9. /\ incoming_responses' \in Seq(Responses)
      /\ \A i \in 1 .. Len(incoming_responses') :
            incoming_responses'[i].type # "FILLED" => incoming_responses'[i].exec_qty = 0
      /\ registered => incoming_responses' = Append(s, r)
      /\ ~registered => incoming_responses' = s
  BY <1>1, <1>2, <1>7, SendsFacts
<1>10. /\ order \in live => live' = (live \ {order}) \cup rest /\ orphans' = orphans
       /\ order \in orphans => orphans' = (orphans \ {order}) \cup rest /\ live' = live
  <2>1. \A book : order \in book => Left(book, order, leaves) = (book \ {order}) \cup rest
    BY DEF Left, less
  <2>2. \A book : order \notin book => Left(book, order, leaves) = book
    BY DEF Left
  <2> HIDE DEF rest
  <2> QED BY <1>2, <1>4, <2>1, <2>2
<1>11. \A o \in rest : o = less /\ leaves # 0 /\ o.order_id = order.order_id
  BY <1>6
<1> HIDE DEF rest
<1>12. TypeOK'
  <2>1. live' \subseteq Orders /\ orphans' \subseteq Orders
    BY <1>3, <1>6, <1>10, <1>11
  <2> QED BY <1>1, <1>2, <1>9, <2>1 DEF TypeOK
<1>13. BookInv'
  <2>1. live' \cup orphans' = ((live \cup orphans) \ {order}) \cup rest
    BY <1>4, <1>10
  <2>2. \A o \in (live \cup orphans) \ {order} : o.order_id # order.order_id
    BY <1>4
  <2>3. \A o, p \in live' \cup orphans' : o.order_id = p.order_id => o = p
    BY <1>4, <1>11, <2>1, <2>2
  <2>4. live' \cap orphans' = {}
    BY <1>4, <1>10, <1>11, <2>2
  <2>5. ~registered' => live' = {} /\ incoming_responses' = <<>>
    BY <1>2, <1>4, <1>10, <1>9
  <2>6. stale_requests' # 0 => live' = {}
    BY <1>2, <1>4, <1>10
  <2> QED BY <2>3, <2>4, <2>5, <2>6 DEF BookInv
<1>14. ASSUME ~mixed', NEW side \in Sides
       PROVE  Good(ticker_side_order[side], q, st, live', incoming_responses', side, position)
  <2>1. Good(ticker_side_order[side], q, st, live, s, side, position)
    BY <1>1, <1>2, <1>14, SidesGood
  <2>2. live' \in SUBSET Orders
    BY <1>12 DEF TypeOK
  <2>3. CASE order \notin live \/ side # order.side
    <3>1. Resting(live', side) = Resting(live, side)
      BY <1>6, <1>10, <1>11, <2>3 DEF Resting
    <3>2. Good(ticker_side_order[side], q, st, live', s, side, position)
      BY <2>1, <3>1, GoodElsewhere
    <3>3. CASE ~registered
      BY <1>9, <3>2, <3>3
    <3>4. CASE registered
      <4>1. incoming_responses' = Append(s, r)
        BY <1>9, <3>4
      <4>2. ~IsOwn(r, side)
        BY <1>7, <2>3
      <4> QED BY <1>3, <1>7, <3>2, <4>1, <4>2, GoodUnconcerned
    <3> QED BY <3>3, <3>4
  <2>4. CASE order \in live /\ side = order.side
    <3>1. incoming_responses' = Append(s, r) /\ order \notin orphans
      BY <1>4, <1>9, <2>4
    <3>2. Resting(live, side) = {order}
      BY <2>1, <2>4 DEF Good, SideOk, OneOpen, Resting
    <3>3. IsOwn(r, side) /\ st \in Nat
      BY <1>3, <1>7, <2>4, <3>1
    <3>4. CASE leaves = 0
      <4>1. Resting(live', side) = {}
        BY <1>10, <1>11, <2>4, <3>2, <3>4 DEF Resting
      <4>2. r.leaves_qty = 0 /\ r.type = "FILLED" /\ r.exec_qty <= order.leaves_qty
        BY <1>5, <1>7, <3>4
      <4>3. Good(ticker_side_order[side], q, st, live', Append(s, r), side, position)
        BY <1>3, <1>7, <2>1, <2>2, <3>2, <3>3, <4>1, <4>2, GoodEnded, Zenon
      <4> QED BY <3>1, <4>3
    <3>5. CASE leaves # 0
      <4>1. rest = {less}
        BY <3>5 DEF rest
      <4>2. Resting(live', side) = {less}
        BY <1>6, <1>10, <2>4, <3>2, <4>1 DEF Resting
      <4>3. /\ r.leaves_qty = less.leaves_qty /\ r.leaves_qty # 0 /\ r.type = "FILLED"
            /\ less.order_id = order.order_id
            /\ r.exec_qty = order.leaves_qty - less.leaves_qty
        BY <1>6, <1>7, <1>8, <3>5
      <4>4. Good(ticker_side_order[side], q, st, live', Append(s, r), side, position)
        BY <1>3, <1>7, <2>1, <2>2, <3>2, <3>3, <4>2, <4>3, GoodPartlyFilled, Zenon
      <4> QED BY <3>1, <4>4
    <3> QED BY <3>4, <3>5
  <2> QED BY <2>3, <2>4
<1>15. SideInv' /\ ExposureInv'
  BY <1>2, <1>14 DEF SideInv, ExposureInv, Good
<1> QED BY <1>12, <1>13, <1>15 DEF IInv

(* Nothing happens.                                                        *)
LEMMA FlowUnchanged ==
    ASSUME IInv, UNCHANGED vars
    PROVE  IInv'
<1>1. /\ ticker_side_order' = ticker_side_order /\ next_order_id' = next_order_id
      /\ position' = position /\ outgoing_requests' = outgoing_requests
      /\ incoming_responses' = incoming_responses
      /\ live' = live /\ orphans' = orphans /\ registered' = registered
      /\ stale_requests' = stale_requests /\ mixed' = mixed
  BY DEF vars, client, exchange
<1>2. TypeOK' /\ BookInv'
  BY <1>1 DEF IInv, TypeOK, BookInv
<1>3. SideInv' /\ ExposureInv'
  BY <1>1 DEF IInv, SideInv, ExposureInv
<1> QED BY <1>2, <1>3 DEF IInv

(* The invariant holds in every state.                                     *)
LEMMA FlowInvariant == Spec => []IInv
<1>1. ASSUME IInv, [Next]_vars PROVE IInv'
  <2>1. CASE StrategyNext
    BY <1>1, <2>1, StrategyStep
  <2>2. CASE HandleResponse
    BY <1>1, <2>2, HandleStep
  <2>3. CASE Restart
    BY <1>1, <2>3, RestartStep
  <2>4. CASE AnswerRequest
    BY <1>1, <2>4, AcceptsStep, RejectsStep, CancelsStep DEF AnswerRequest
  <2>5. CASE \E order \in live \cup orphans : \E exec_qty \in 1 .. order.leaves_qty :
                Fills(order, exec_qty)
    BY <1>1, <2>5, FillsStep
  <2>6. CASE UNCHANGED vars
    BY <1>1, <2>6, FlowUnchanged
  <2>7. CASE RegisterSession
    BY <1>1, <2>7, RegisterStep
  <2> QED BY <1>1, <2>1, <2>2, <2>3, <2>4, <2>5, <2>6, <2>7 DEF Next
<1>2. Init => IInv
  BY FlowInit
<1> QED BY <1>1, <1>2, PTL DEF Spec

(* Of the orders of a client process at most one on each side is in the    *)
(* book or on its way to it, until it is told of an order of an earlier    *)
(* process: a slot that waits keeps OrderManager::moveOrder from sending.  *)
THEOREM OneOrderASide == Spec => []OneOrderPerSide
<1>1. ASSUME IInv PROVE OneOrderPerSide
  <2> SUFFICES ASSUME ~mixed, NEW side \in Sides
               PROVE  Cardinality({ o \in live : o.side = side })
                        + Cardinality(NewInFlight(side)) <= 1
    BY DEF OneOrderPerSide
  <2>1. OneOpen(outgoing_requests, stale_requests, live, side)
    BY <1>1 DEF IInv, SideInv, SideOk
  <2> DEFINE A == { o \in live : o.side = side }
             B == NewInFlight(side)
  <2>2. /\ A = Resting(live, side) /\ B = News(outgoing_requests, stale_requests, side)
    BY DEF Resting, News, NewInFlight
  <2> HIDE DEF A, B
  <2>3. /\ A = {} \/ \E o : A = {o}
        /\ B = {} \/ \E i : B = {i}
        /\ A = {} \/ B = {}
    <3>1. /\ \A o, p \in A : o = p
          /\ \A i, j \in B : i = j
          /\ A = {} \/ B = {}
      BY <2>1, <2>2 DEF OneOpen
    <3>2. A = {} \/ \E o : A = {o}
      BY <3>1
    <3>3. B = {} \/ \E i : B = {i}
      BY <3>1
    <3> QED BY <3>1, <3>2, <3>3
  <2>4. Cardinality({}) = 0 /\ \A x : Cardinality({x}) = 1
    BY FS_EmptySet, FS_Singleton
  <2>5. Cardinality(A) + Cardinality(B) <= 1
    <3>1. CASE A = {} /\ B = {}
      BY <2>4, <3>1
    <3>2. CASE A = {} /\ \E i : B = {i}
      <4>1. Cardinality(A) = 0 /\ Cardinality(B) = 1
        BY <2>4, <3>2, Zenon
      <4> QED BY <4>1
    <3>3. CASE B = {} /\ \E o : A = {o}
      <4>1. Cardinality(A) = 1 /\ Cardinality(B) = 0
        BY <2>4, <3>3, Zenon
      <4> QED BY <4>1
    <3> QED BY <2>3, <3>1, <3>2, <3>3
  <2> QED BY <2>5 DEF A, B
<1> QED BY <1>1, FlowInvariant, PTL

(* The position keeps its limit whatever the exchange does next with the   *)
(* orders of the process: RiskManager::checkPreTradeRisk looks at the      *)
(* position before the order is sent, and no other of its side is out.     *)
(* It holds until the process is told of an order of an earlier one.       *)
THEOREM PositionKeepsLimit == Spec => []PositionWithinLimit
<1>1. ASSUME IInv PROVE PositionWithinLimit
  <2> SUFFICES ASSUME ~mixed
               PROVE  /\ position + Open("BUY") <= max_position
                      /\ position - Open("SELL") >= -max_position
    BY DEF PositionWithinLimit
  <2>1. \A side : Open(side) = Exposure(outgoing_requests, stale_requests, live,
                                        incoming_responses, side)
    <3> TAKE side
    <3>1. Reported(side) = Total(Execs(incoming_responses, side))
      BY DEF Reported, Execs, IsOwn
    <3>2. { o \in live : o.side = side } = Resting(live, side)
      BY DEF Resting
    <3>3. NewInFlight(side) = News(outgoing_requests, stale_requests, side)
      BY DEF NewInFlight, News
    <3> QED BY <3>1, <3>2, <3>3, Zenon DEF Open, Exposure, RestQty, NewQty
  <2>2. \A side \in Sides : Within(side, position,
            Exposure(outgoing_requests, stale_requests, live, incoming_responses, side))
    BY <1>1 DEF IInv, ExposureInv
  <2>3. Within("BUY", position, Open("BUY")) /\ Within("SELL", position, Open("SELL"))
    BY <2>1, <2>2 DEF Sides
  <2> QED BY <2>3 DEF Within
<1> QED BY <1>1, FlowInvariant, PTL

(* When nothing about a side is on its way, the slot of                    *)
(* OrderManager::ticker_side_order_ says what the exchange's book holds,   *)
(* until the process is told of an order of an earlier one.                *)
THEOREM QuietSlots == Spec => []QuietSlotsAgree
<1>1. ASSUME IInv PROVE QuietSlotsAgree
  <2> DEFINE q == outgoing_requests
             s == incoming_responses
  <2> SUFFICES ASSUME ~mixed, NEW side \in Sides,
                      \A i \in 1 .. Len(q) : q[i].side # side,
                      \A i \in 1 .. Len(s) : s[i].side # side
               PROVE  { <<o.order_id, o.leaves_qty>> : o \in { x \in live : x.side = side } } =
                      IF ticker_side_order[side].order_state = "LIVE"
                      THEN {<<ticker_side_order[side].order_id, ticker_side_order[side].qty>>}
                      ELSE {}
    BY DEF QuietSlotsAgree
  <2> DEFINE slot == ticker_side_order[side]
             st == stale_requests
  <2>1. SideOk(slot, q, st, live, s, side) /\ slot \in Slots
    BY <1>1 DEF IInv, SideInv, TypeOK
  <2>2. \A i : ~FillAt(s, i, side) /\ ~EndAt(s, i, side) /\ ~AcceptedAt(s, i, side)
    BY DEF FillAt, EndAt, AcceptedAt, Own, IsOwn
  <2>3. slot.order_state \in States
    BY <2>1 DEF Slots
  <2>4. { x \in live : x.side = side } = Resting(live, side)
    BY DEF Resting
  <2>5. \A o, p \in Resting(live, side) : o = p
    BY <2>1 DEF SideOk, OneOpen
  <2>6. \A o \in Resting(live, side) : /\ slot.order_state = "LIVE"
                                       /\ slot.order_id = o.order_id /\ slot.qty = o.leaves_qty
    <3> TAKE o \in Resting(live, side)
    <3>1. slot.order_state \notin {"INVALID", "DEAD", "PENDING_NEW"}
      BY <2>1, <2>2 DEF SideOk, FreeSlot, RestingSlot
    <3>2. slot.order_id = o.order_id /\ slot.qty = o.leaves_qty
      BY <2>1, <2>2 DEF SideOk, RestingSlot, LastReported
    <3>3. slot.order_state # "PENDING_CANCEL"
      <4> SUFFICES ASSUME slot.order_state = "PENDING_CANCEL" PROVE FALSE
        OBVIOUS
      <4>1. PICK i \in st + 1 .. Len(q) : q[i].side = side
        BY <2>1 DEF SideOk, RestingSlot
      <4>2. st \in Nat
        BY <1>1 DEF IInv, TypeOK
      <4> QED BY <4>1, <4>2
    <3> QED BY <2>3, <3>1, <3>2, <3>3 DEF States
  <2>7. slot.order_state = "LIVE" => Resting(live, side) # {}
    BY <2>1, <2>2 DEF SideOk, AcceptedRests
  <2> HIDE DEF slot
  <2>8. CASE Resting(live, side) = {}
    BY <2>4, <2>7, <2>8 DEF slot
  <2>9. CASE Resting(live, side) # {}
    <3>1. PICK o : Resting(live, side) = {o}
      BY <2>5, <2>9
    <3>2. slot.order_state = "LIVE" /\ slot.order_id = o.order_id /\ slot.qty = o.leaves_qty
      BY <2>6, <3>1
    <3> QED BY <2>4, <3>1, <3>2 DEF slot
  <2> QED BY <2>8, <2>9
<1> QED BY <1>1, FlowInvariant, PTL

=============================================================================
