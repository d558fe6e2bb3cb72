----------------------- MODULE MarketDataFeed_proofs -----------------------
(***************************************************************************)
(* The client's book is right, for every set of orders and quantities,     *)
(* every size of the pool and the buffers, and any number of lost, doubled *)
(* and overtaken datagrams.                                                *)
(***************************************************************************)
EXTENDS MarketDataFeed, SequenceTheorems, WellFoundedInduction, TLAPS

----------------------------------------------------------------------------
(* The inductive invariant.                                                *)

UpdateTypes == {"ADD", "MODIFY", "CANCEL", "TRADE"}
SnapshotTypes == {"CLEAR", "SNAPSHOT_START", "ADD", "SNAPSHOT_END"}
Updates == [type : UpdateTypes \cup SnapshotTypes, order : Nat, qty : Nat]

\* The n-th update of the engine is u.
IsUpdate(n, u) ==
    /\ n \in 1 .. next_inc_seq_num - 1
    /\ u \in Updates /\ u.type \in UpdateTypes
    /\ book_at[n] = Applied(book_at[n - 1], u)

\* The datagrams that carry an update under its number.
IncFrames == { f \in [seq : Nat, update : Updates] : IsUpdate(f.seq, f.update) }

EngineInv ==
    /\ next_inc_seq_num \in Nat \ {0}
    /\ DOMAIN book_at = 0 .. next_inc_seq_num - 1
    /\ \A n \in DOMAIN book_at :
          /\ DOMAIN book_at[n] \subseteq Orders
          /\ \A k \in DOMAIN book_at[n] : book_at[n][k] \in Nat

\* What the synthesizer has not taken yet follows what it has.
QueueInv ==
    /\ last_inc_seq_num \in Nat
    /\ snapshot_md_updates \in Seq(IncFrames)
    /\ snap_phase # "exited" =>
          /\ last_inc_seq_num + Len(snapshot_md_updates) = next_inc_seq_num - 1
          /\ \A i \in 1 .. Len(snapshot_md_updates) :
                snapshot_md_updates[i].seq = last_inc_seq_num + i

BufferInv ==
    /\ \A n \in Buffered : IsUpdate(n, out_of_order_buf[n])
    /\ mdc_pc = "draining" => \A n \in Buffered : n >= next_exp_inc_seq_num
    /\ BufferAhead

\* The image of update n, and the part of a book up to order c.
Image(n) == Visible(book_at[n])
UpTo(book, c) == Restrict(book, { k \in DOMAIN book : k <= c })

\* Order u.order is the first of the image after order c.
AddsNext(image, c, u) ==
    /\ u.order \in DOMAIN image /\ u.qty = image[u.order]
    /\ c < u.order
    /\ \A k \in DOMAIN image : k <= c \/ k >= u.order

(* A snapshot message as it was sent: the update, the number of the image  *)
(* it is part of, and the order that the walk had come to.                 *)
Sendings == [update : Updates, image : Nat, after : Nat]

Inside(h) == h.update.type \in {"SNAPSHOT_START", "ADD"}
WalkedTo(h) == IF h.update.type = "SNAPSHOT_START" THEN 0 ELSE h.update.order

\* Each message says what the image says.
Truthful(h) ==
    /\ h.image \in DOMAIN book_at
    /\ h.update.type = "ADD" => AddsNext(Image(h.image), h.after, h.update)
    /\ h.update.type = "SNAPSHOT_END" =>
          /\ h.update.order = h.image
          /\ \A k \in DOMAIN Image(h.image) : k <= h.after

\* hist[s] is the message that was sent under number s, heard or not.
History(hist) ==
    /\ hist \in [1 .. next_snap_seq_num - 1 -> Sendings]
    /\ \A s \in DOMAIN hist : Truthful(hist[s])
    /\ \A s \in DOMAIN hist :
          s + 1 \in DOMAIN hist /\ Inside(hist[s])
            /\ hist[s + 1].update.type \in {"ADD", "SNAPSHOT_END"} =>
              /\ hist[s + 1].image = hist[s].image
              /\ hist[s + 1].after = WalkedTo(hist[s])

SnapFrames(hist) == { Frame(s, hist[s].update) : s \in DOMAIN hist }

\* The synthesizer goes on where its last message left off.
WalkInv(hist) ==
    snap_phase = "ADD" =>
        /\ next_snap_seq_num - 1 \in DOMAIN hist
        /\ Inside(hist[next_snap_seq_num - 1])
        /\ hist[next_snap_seq_num - 1].image = last_inc_seq_num
        /\ WalkedTo(hist[next_snap_seq_num - 1]) = snap_cursor

\* What the consumer has put together is the image up to where it has come.
AssemblyInv(hist) ==
    in_snapshot /\ mdc_pc # "replaying" =>
        /\ snapshot_last_seen \in DOMAIN hist
        /\ Inside(hist[snapshot_last_seen])
        /\ downstream = UpTo(Image(hist[snapshot_last_seen].image),
                             WalkedTo(hist[snapshot_last_seen]))

SnapshotInv(hist) ==
    /\ History(hist)
    /\ snap_channel \in Seq(SnapFrames(hist))
    /\ rcv_frame \in SnapFrames(hist) \cup {NoFrame}
    /\ WalkInv(hist)
    /\ AssemblyInv(hist)

PhaseInv ==
    /\ next_snap_seq_num \in Nat \ {0}
    /\ snap_cursor \in Nat
    /\ snapshot_last_seen \in Nat
    /\ next_exp_inc_seq_num \in Nat
    /\ in_recovery \in BOOLEAN /\ snapshot_armed \in BOOLEAN /\ in_snapshot \in BOOLEAN
    /\ mdc_pc = "draining" => ~in_recovery
    /\ mdc_pc = "replaying" => in_recovery /\ in_snapshot
    /\ snapshot_armed => in_recovery /\ ~in_snapshot /\ downstream = EmptyBook
    /\ in_snapshot => in_recovery

IInv ==
    /\ EngineInv
    /\ inc_channel \in Seq(IncFrames)
    /\ QueueInv /\ ImageInSync
    /\ PhaseInv
    /\ BufferInv /\ InSync
    /\ \E hist : SnapshotInv(hist)

----------------------------------------------------------------------------
(* Lemmas about the operators.                                             *)

(* The least element of a non-empty set of naturals is what Min says.      *)
LEMMA MinIsLeast ==
  ASSUME NEW T \in SUBSET Nat, T # {}
  PROVE  Min(T) \in T /\ \A m \in T : Min(T) <= m
<1>1. PICK n \in T : \A m \in T : ~(<<m, n>> \in OpToRel(<, Nat))
  BY NatLessThanWellFounded, WFMin, Zenon
<1>2. \A m \in T : <<m, n>> \in OpToRel(<, Nat) <=> m < n
  BY DEF OpToRel
<1>3. \A m \in T : ~(m < n)
  BY <1>1, <1>2, Zenon
<1>4. \A m \in T : n <= m
  BY <1>3, SMT
<1> QED
  BY <1>4, Zenon DEF Min

(* A lost, doubled or overtaken datagram leaves nothing in a channel that  *)
(* was not sent.                                                           *)
LEMMA DisturbedStays ==
  ASSUME NEW S, NEW ch \in Seq(S), ch # <<>>, NEW dis \in Disturbed(ch)
  PROVE  dis \in Seq(S)
<1>1. Head(ch) \in S /\ Tail(ch) \in Seq(S)
  BY HeadTailProperties
<1>2. <<Head(ch)>> \in Seq(S)
  BY <1>1
<1>3. <<Head(ch)>> \o ch \in Seq(S)
  BY <1>2, ConcatProperties
<1>4. Append(Tail(ch), Head(ch)) \in Seq(S)
  BY <1>1, AppendProperties
<1> QED
  BY <1>1, <1>3, <1>4 DEF Disturbed

(* A sequence over a set is one over every larger set.                     *)
LEMMA SeqGrows ==
  ASSUME NEW S, NEW T, S \subseteq T, NEW s \in Seq(S)
  PROVE  s \in Seq(T)
<1>1. s \in [1 .. Len(s) -> T]
  OBVIOUS
<1> QED
  BY <1>1

(* What the subscribers' arrays have room for follows the feed: an update  *)
(* does to the visible part of a book what it does to the book.            *)
LEMMA VisibleFollows ==
  ASSUME NEW b, NEW u, u.type \in UpdateTypes
  PROVE  onMarketUpdate(Visible(b), u) = Visible(Applied(b, u))
<1>0. u.type \notin {"CLEAR", "SNAPSHOT_START"}
  BY DEF UpdateTypes
<1>1. CASE u.type = "TRADE"
  BY <1>1 DEF onMarketUpdate, Applied
<1>2. CASE u.type # "TRADE" /\ u.order \notin InRange
  <2>1. onMarketUpdate(Visible(b), u) = Visible(b)
    BY <1>0, <1>2 DEF onMarketUpdate, UpdateTypes
  <2>2. Visible(WithOrder(b, u.order, u.qty)) = Visible(b)
    BY <1>2 DEF Visible, WithOrder, Restrict
  <2>3. Visible(WithoutOrder(b, u.order)) = Visible(b)
    BY <1>2 DEF Visible, WithoutOrder, Restrict
  <2> QED
    BY <1>2, <2>1, <2>2, <2>3 DEF Applied, UpdateTypes
<1>3. CASE u.type # "TRADE" /\ u.order \in InRange
  <2>1. onMarketUpdate(Visible(b), u) = Applied(Visible(b), u)
    BY <1>0, <1>3 DEF onMarketUpdate
  <2>2. Visible(WithOrder(b, u.order, u.qty)) = WithOrder(Visible(b), u.order, u.qty)
    BY <1>3 DEF Visible, WithOrder, Restrict
  <2>3. Visible(WithoutOrder(b, u.order)) = WithoutOrder(Visible(b), u.order)
    BY <1>3 DEF Visible, WithoutOrder, Restrict
  <2>4. u.order \in DOMAIN Visible(b) <=> u.order \in DOMAIN b
    BY <1>3 DEF Visible, Restrict
  <2> QED
    BY <1>3, <2>1, <2>2, <2>3, <2>4 DEF Applied, UpdateTypes
<1> QED
  BY <1>1, <1>2, <1>3

(* The visible part of a book holds orders of the book that are in range.  *)
LEMMA VisibleDomain ==
  ASSUME NEW b
  PROVE  /\ DOMAIN Visible(b) = DOMAIN b \cap InRange
         /\ \A k \in DOMAIN Visible(b) : Visible(b)[k] = b[k]
BY DEF Visible, Restrict

(* A walk has shown nothing before the first order, takes in the next      *)
(* order that it comes to, and has shown everything after the last one.    *)
LEMMA WalkBegins ==
  ASSUME NEW b, DOMAIN b \subseteq Nat \ {0}
  PROVE  UpTo(b, 0) = EmptyBook
<1>1. { k \in DOMAIN b : k <= 0 } = {}
  OBVIOUS
<1> QED
  BY <1>1 DEF UpTo, EmptyBook, Restrict

(* An ADD of the walk shows the image one order further.                   *)
LEMMA WalkTakes ==
  ASSUME NEW b, DOMAIN b \subseteq Nat, NEW c \in Nat, NEW u \in Updates, AddsNext(b, c, u)
  PROVE  WithOrder(UpTo(b, c), u.order, u.qty) = UpTo(b, u.order)
<1> DEFINE before == { k \in DOMAIN b : k <= c }
           after == { k \in DOMAIN b : k <= u.order }
<1>1. after = before \cup {u.order}
  BY DEF AddsNext, Updates
<1>2. UpTo(b, c) = [k \in before |-> b[k]] /\ UpTo(b, u.order) = [k \in after |-> b[k]]
  BY DEF UpTo, Restrict
<1>3. u.order \notin before
  BY DEF AddsNext, Updates
<1> HIDE DEF before, after
<1>4. WithOrder(UpTo(b, c), u.order, u.qty) =
        [x \in after |-> IF x = u.order THEN u.qty ELSE UpTo(b, c)[x]]
  BY <1>1, <1>2 DEF WithOrder
<1>5. \A x \in after : (IF x = u.order THEN u.qty ELSE UpTo(b, c)[x]) = b[x]
  BY <1>1, <1>2 DEF AddsNext
<1> QED
  BY <1>2, <1>4, <1>5

(* Past the last order the walk has shown the whole image.                 *)
LEMMA WalkEnds ==
  ASSUME NEW b, NEW c, \A k \in DOMAIN Visible(b) : k <= c
  PROVE  UpTo(Visible(b), c) = Visible(b)
<1>1. { k \in DOMAIN Visible(b) : k <= c } = DOMAIN Visible(b)
  OBVIOUS
<1>2. Visible(b) = [k \in DOMAIN Visible(b) |-> Visible(b)[k]]
  BY DEF Visible, Restrict
<1> QED
  BY <1>1, <1>2 DEF UpTo, Restrict

----------------------------------------------------------------------------
(* What the invariant says of one update and of one image.                 *)

(* The books of the engine that a subscriber can show are over orders that *)
(* are positive numbers, in range, with a quantity.                        *)
LEMMA ImageTyped ==
  ASSUME EngineInv, NEW n \in DOMAIN book_at
  PROVE  /\ DOMAIN Image(n) \subseteq Nat \ {0}
         /\ DOMAIN Image(n) \subseteq InRange
         /\ \A k \in DOMAIN Image(n) : Image(n)[k] \in Nat
BY VisibleDomain, OrdersAssumption DEF EngineInv, Image

(* A subscriber whose book is the engine's before an update has the        *)
(* engine's book after it, once it has applied that update.                *)
LEMMA UpdateAdvances ==
  ASSUME EngineInv, NEW n, NEW u, IsUpdate(n, u)
  PROVE  /\ n \in DOMAIN book_at /\ n - 1 \in DOMAIN book_at
         /\ onMarketUpdate(Image(n - 1), u) = Image(n)
<1>1. n \in DOMAIN book_at /\ n - 1 \in DOMAIN book_at
  BY DEF EngineInv, IsUpdate
<1>2. onMarketUpdate(Visible(book_at[n - 1]), u) = Visible(Applied(book_at[n - 1], u))
  BY VisibleFollows DEF IsUpdate
<1> QED
  BY <1>1, <1>2 DEF IsUpdate, Image

(* A step of the consumer or the network leaves what is known of the       *)
(* exchange alone.                                                         *)
LEMMA ExchangeKept ==
  ASSUME IInv, UNCHANGED exchange
  PROVE  /\ EngineInv' /\ QueueInv' /\ ImageInSync'
         /\ IncFrames' = IncFrames
         /\ \A n, u : IsUpdate(n, u)' <=> IsUpdate(n, u)
         /\ \A n : Image(n)' = Image(n)
         /\ \A hist : History(hist)' <=> History(hist)
         /\ \A hist : WalkInv(hist)' <=> WalkInv(hist)
<1> USE DEF exchange
<1>1. \A n, u : IsUpdate(n, u)' <=> IsUpdate(n, u)
  BY DEF IsUpdate
<1>2. IncFrames' = IncFrames
  BY <1>1 DEF IncFrames
<1>3. \A n : Image(n)' = Image(n)
  BY DEF Image
<1>4. \A h : Truthful(h)' <=> Truthful(h)
  BY <1>3 DEF Truthful
<1>5. \A hist : History(hist)' <=> History(hist)
  BY <1>4 DEF History
<1>6. \A hist : WalkInv(hist)' <=> WalkInv(hist)
  BY DEF WalkInv
<1>7. EngineInv'
  BY DEF IInv, EngineInv
<1>8. QueueInv'
  BY <1>2 DEF IInv, QueueInv
<1>9. ImageInSync'
  BY DEF IInv, ImageInSync
<1> QED
  BY <1>1, <1>2, <1>3, <1>5, <1>6, <1>7, <1>8, <1>9

(* A step of the exchange or the network leaves what is known of the       *)
(* consumer's buffer and phases alone.                                     *)
LEMMA ConsumerKept ==
  ASSUME IInv, UNCHANGED consumer,
         \A n \in Buffered : IsUpdate(n, out_of_order_buf[n])',
         next_snap_seq_num' \in Nat \ {0}, snap_cursor' \in Nat
  PROVE  PhaseInv' /\ BufferInv'
<1>1. PhaseInv'
  BY DEF IInv, PhaseInv, consumer
<1>2. BufferInv'
  BY DEF IInv, BufferInv, BufferAhead, Buffered, consumer, IsUpdate
<1> QED
  BY <1>1, <1>2

(* The invariant holds at the start, with an empty history.                *)
LEMMA InitIInv == Init => IInv
<1> SUFFICES ASSUME Init PROVE IInv
  OBVIOUS
<1> USE DEF Init, NetworkInit, ExchangeInit, ConsumerInit
<1>1. EngineInv
  BY DEF EngineInv, EmptyBook
<1>2. inc_channel \in Seq(IncFrames)
  OBVIOUS
<1>3. QueueInv
  BY DEF QueueInv
<1>4. Visible(EmptyBook) = EmptyBook
  BY DEF Visible, Restrict, EmptyBook
<1>5. ImageInSync /\ InSync
  BY <1>4 DEF ImageInSync, InSync
<1>6. PhaseInv
  BY DEF PhaseInv
<1>7. Buffered = {}
  BY DEF Buffered, EmptyBook
<1>8. BufferInv
  BY <1>7 DEF BufferInv, BufferAhead
<1>9. SnapshotInv([s \in 1 .. 0 |-> 0])
  <2> DEFINE none == [s \in 1 .. 0 |-> 0]
  <2>1. 1 .. 0 = {} /\ DOMAIN none = {}
    OBVIOUS
  <2>2. History(none)
    <3>1. none \in [1 .. next_snap_seq_num - 1 -> Sendings]
      BY <2>1
    <3> QED
      BY <3>1, <2>1 DEF History
  <2>3. WalkInv(none) /\ AssemblyInv(none)
    BY DEF WalkInv, AssemblyInv
  <2>4. snap_channel \in Seq(SnapFrames(none)) /\ rcv_frame \in SnapFrames(none) \cup {NoFrame}
    OBVIOUS
  <2> QED
    BY <2>2, <2>3, <2>4 DEF SnapshotInv
<1> QED
  BY <1>1, <1>2, <1>3, <1>5, <1>6, <1>8, <1>9 DEF IInv

----------------------------------------------------------------------------
(* The exchange.                                                           *)

(* The engine's updates are of the four kinds and keep its book well       *)
(* formed.                                                                 *)
LEMMA EngineUpdateTyped ==
  ASSUME EngineInv, NEW u \in EngineUpdates
  PROVE  /\ u \in Updates /\ u.type \in UpdateTypes
         /\ DOMAIN Applied(EngineBook, u) \subseteq Orders
         /\ \A k \in DOMAIN Applied(EngineBook, u) : Applied(EngineBook, u)[k] \in Nat
<1> DEFINE b == EngineBook
<1>1. /\ DOMAIN b \subseteq Orders
      /\ \A k \in DOMAIN b : b[k] \in Nat
  BY DEF EngineInv, EngineBook
<1>2. /\ u \in Updates /\ u.type \in UpdateTypes
      /\ u.type # "TRADE" => u.order \in Orders
  <2>1. \A t \in UpdateTypes, k \in Nat, q \in Nat :
          /\ Update(t, k, q) \in Updates
          /\ Update(t, k, q).type = t /\ Update(t, k, q).order = k
    BY DEF Update, Updates
  <2>2. \/ \E k \in Orders, q \in Qtys : u = Update("ADD", k, q)
        \/ \E k \in DOMAIN b, q \in Qtys : u = Update("MODIFY", k, q)
        \/ \E k \in DOMAIN b : u = Update("CANCEL", k, 0)
        \/ u = Update("TRADE", 0, 0)
    <3> DEFINE adds == { Update("ADD", k, q) :
                   k \in { x \in Orders : \A n \in DOMAIN book_at : x \notin DOMAIN book_at[n] },
                   q \in Qtys }
               modifies == UNION { { Update("MODIFY", k, q) :
                                       q \in { x \in Qtys : x < EngineBook[k] } } :
                                   k \in DOMAIN EngineBook }
               cancels == { Update("CANCEL", k, 0) : k \in DOMAIN EngineBook }
               trades == { Update("TRADE", 0, 0) }
    <3>1. EngineUpdates = ((adds \cup modifies) \cup cancels) \cup trades
      BY DEF EngineUpdates
    <3>2. \A x \in adds : \E k \in Orders, q \in Qtys : x = Update("ADD", k, q)
      OBVIOUS
    <3>3. \A x \in modifies : \E k \in DOMAIN b, q \in Qtys : x = Update("MODIFY", k, q)
      OBVIOUS
    <3>4. \A x \in cancels : \E k \in DOMAIN b : x = Update("CANCEL", k, 0)
      OBVIOUS
    <3>5. \A x \in trades : x = Update("TRADE", 0, 0)
      OBVIOUS
    <3> HIDE DEF adds, modifies, cancels, trades
    <3> QED
      BY <3>1, <3>2, <3>3, <3>4, <3>5
  <2>3. PICK t \in UpdateTypes, k \in Nat, q \in Nat :
          u = Update(t, k, q) /\ (t # "TRADE" => k \in Orders)
    BY <1>1, <2>2, OrdersAssumption DEF UpdateTypes
  <2> QED
    BY <2>1, <2>3
<1> HIDE DEF b
<1>3. /\ DOMAIN Applied(b, u) \subseteq Orders
      /\ \A k \in DOMAIN Applied(b, u) : Applied(b, u)[k] \in Nat
  <2>1. u.qty \in Nat
    BY <1>2 DEF Updates
  <2>2. u.type # "TRADE" =>
          /\ DOMAIN WithOrder(b, u.order, u.qty) \subseteq Orders
          /\ \A k \in DOMAIN WithOrder(b, u.order, u.qty) : WithOrder(b, u.order, u.qty)[k] \in Nat
    BY <1>1, <1>2, <2>1 DEF WithOrder
  <2>3. /\ DOMAIN WithoutOrder(b, u.order) \subseteq Orders
        /\ \A k \in DOMAIN WithoutOrder(b, u.order) : WithoutOrder(b, u.order)[k] \in Nat
    BY <1>1 DEF WithoutOrder, Restrict
  <2>4. CASE Applied(b, u) = WithOrder(b, u.order, u.qty) /\ u.type # "TRADE"
    BY <2>2, <2>4
  <2>5. CASE Applied(b, u) = WithoutOrder(b, u.order)
    BY <2>3, <2>5
  <2>6. CASE Applied(b, u) = b
    BY <1>1, <2>6
  <2> QED
    BY <2>4, <2>5, <2>6, <1>2 DEF Applied, UpdateTypes
<1> QED
  BY <1>2, <1>3 DEF b

(* The publisher numbers an update, sends it and forwards it.              *)
LEMMA PollKeepsIInv ==
  ASSUME IInv, NEW u \in EngineUpdates, poll(u), UNCHANGED consumer
  PROVE  IInv'
<1> DEFINE new == Frame(next_inc_seq_num, u)
<1>1. EngineInv /\ next_inc_seq_num \in Nat \ {0}
  BY DEF IInv, EngineInv
<1>2. /\ u \in Updates /\ u.type \in UpdateTypes
      /\ DOMAIN Applied(EngineBook, u) \subseteq Orders
      /\ \A k \in DOMAIN Applied(EngineBook, u) : Applied(EngineBook, u)[k] \in Nat
  BY <1>1, EngineUpdateTyped
<1>3. /\ DOMAIN book_at' = 0 .. next_inc_seq_num
      /\ \A n \in DOMAIN book_at : book_at'[n] = book_at[n]
      /\ book_at'[next_inc_seq_num] = Applied(book_at[next_inc_seq_num - 1], u)
      /\ next_inc_seq_num' = next_inc_seq_num + 1
  BY <1>1 DEF poll, EngineInv, EngineBook
<1>4. EngineInv'
  BY <1>1, <1>2, <1>3 DEF EngineInv, EngineBook
<1>5. \A n, v : IsUpdate(n, v) => IsUpdate(n, v)'
  BY <1>1, <1>3 DEF IsUpdate, EngineInv
<1>6. IncFrames \subseteq IncFrames'
  BY <1>5 DEF IncFrames
<1>7. new \in IncFrames'
  BY <1>1, <1>2, <1>3 DEF IncFrames, IsUpdate, Frame, EngineInv
<1>8. inc_channel' \in Seq(IncFrames')
  <2>1. inc_channel \in Seq(IncFrames')
    BY <1>6, SeqGrows DEF IInv
  <2>2. inc_channel' = Append(inc_channel, new)
    BY DEF poll
  <2> QED
    BY <1>7, <2>1, <2>2, AppendProperties
<1>9. QueueInv'
  <2> DEFINE q == snapshot_md_updates
  <2>1. q \in Seq(IncFrames')
    BY <1>6, SeqGrows DEF IInv, QueueInv
  <2>2. q' = Append(q, new) /\ UNCHANGED <<last_inc_seq_num, snap_phase>> /\ snap_phase # "exited"
    BY DEF poll
  <2>3. q' \in Seq(IncFrames') /\ Len(q') = Len(q) + 1
        /\ \A i \in 1 .. Len(q') : q'[i] = IF i <= Len(q) THEN q[i] ELSE new
    BY <1>7, <2>1, <2>2, AppendProperties
  <2>4. new.seq = next_inc_seq_num
    BY DEF Frame
  <2> HIDE DEF new
  <2>5. /\ last_inc_seq_num + Len(q) = next_inc_seq_num - 1
        /\ \A i \in 1 .. Len(q) : q[i].seq = last_inc_seq_num + i
        /\ last_inc_seq_num \in Nat /\ Len(q) \in Nat
    BY <2>2 DEF IInv, QueueInv
  <2>6. last_inc_seq_num + Len(q') = next_inc_seq_num
    BY <1>1, <2>3, <2>5
  <2>7. \A i \in 1 .. Len(q') : q'[i].seq = last_inc_seq_num + i
    <3> TAKE i \in 1 .. Len(q')
    <3>1. CASE i <= Len(q)
      BY <2>3, <2>5, <3>1
    <3>2. CASE i = Len(q) + 1
      <4>1. q'[i] = new
        BY <2>3, <2>5, <3>2
      <4> QED
        BY <4>1, <1>1, <2>4, <2>5, <3>2
    <3> QED
      BY <3>1, <3>2, <2>3, <2>5
  <2> QED
    BY <1>1, <1>3, <2>2, <2>3, <2>5, <2>6, <2>7 DEF QueueInv
<1>10. \A n \in DOMAIN book_at : n \in DOMAIN book_at' /\ Image(n)' = Image(n)
  BY <1>1, <1>3 DEF Image, EngineInv
<1>11. ImageInSync'
  BY <1>10 DEF IInv, ImageInSync, poll, Image
<1>12. InSync'
  BY <1>10 DEF IInv, InSync, consumer, Image
<1>13. PhaseInv' /\ BufferInv'
  <2>1. \A n \in Buffered : IsUpdate(n, out_of_order_buf[n])'
    BY <1>5 DEF IInv, BufferInv, consumer
  <2>2. next_snap_seq_num' \in Nat \ {0} /\ snap_cursor' \in Nat
    BY DEF IInv, PhaseInv, poll
  <2> QED
    BY <2>1, <2>2, ConsumerKept
<1>14. \E hist : SnapshotInv(hist)'
  <2>1. PICK hist : SnapshotInv(hist)
    BY DEF IInv
  <2>2. \A h : Truthful(h) => Truthful(h)'
    BY <1>10 DEF Truthful
  <2>3. History(hist)'
    BY <2>1, <2>2 DEF SnapshotInv, History, poll
  <2>4. WalkInv(hist)'
    BY <2>1 DEF SnapshotInv, WalkInv, poll
  <2>5. AssemblyInv(hist)'
    BY <2>1, <1>10 DEF SnapshotInv, AssemblyInv, consumer, History, Truthful
  <2> QED
    BY <2>1, <2>3, <2>4, <2>5 DEF SnapshotInv, poll, consumer
<1> QED
  BY <1>4, <1>8, <1>9, <1>11, <1>12, <1>13, <1>14 DEF IInv

(* The synthesizer takes an update: its book moves on with its number.     *)
LEMMA SynthesizeKeepsIInv ==
  ASSUME IInv, SynthesizeUpdate, UNCHANGED consumer
  PROVE  IInv'
<1> DEFINE q == snapshot_md_updates
           f == Head(q)
<1>0. EngineInv /\ UNCHANGED <<next_inc_seq_num, book_at, next_snap_seq_num, snap_cursor,
                               inc_channel, snap_channel>>
  BY DEF IInv, SynthesizeUpdate, network
<1>1. q \in Seq(IncFrames) /\ q # <<>> /\ snap_phase = "poll"
  BY DEF IInv, QueueInv, SynthesizeUpdate
<1>2. f \in IncFrames /\ f = q[1] /\ Tail(q) \in Seq(IncFrames) /\ Len(Tail(q)) = Len(q) - 1
      /\ \A i \in 1 .. Len(q) - 1 : Tail(q)[i] = q[i + 1]
  BY <1>1, HeadTailProperties
<1>3. Len(q) \in Nat \ {0}
  BY <1>1
<1>4. IsUpdate(f.seq, f.update) /\ f.seq \in Nat /\ f.seq = last_inc_seq_num + 1
  BY <1>1, <1>2, <1>3 DEF IncFrames, IInv, QueueInv
<1>5. \A n, v : IsUpdate(n, v)' <=> IsUpdate(n, v)
  BY <1>0 DEF IsUpdate
<1>6. IncFrames' = IncFrames
  BY <1>5 DEF IncFrames
<1>7. EngineInv'
  BY <1>0 DEF EngineInv
<1>8. last_inc_seq_num' = f.seq
  BY DEF SynthesizeUpdate
<1>9. QueueInv'
  <2>1. CASE PoolRunsOut(f.update)
    <3>1. q' = q /\ snap_phase' = "exited"
      BY <2>1 DEF SynthesizeUpdate
    <3> QED
      BY <3>1, <1>1, <1>4, <1>6, <1>8 DEF QueueInv
  <2>2. CASE ~PoolRunsOut(f.update)
    <3>1. q' = Tail(q)
      BY <2>2 DEF SynthesizeUpdate
    <3>2. /\ last_inc_seq_num + Len(q) = next_inc_seq_num - 1
          /\ \A i \in 1 .. Len(q) : q[i].seq = last_inc_seq_num + i
          /\ last_inc_seq_num \in Nat
      BY <1>1 DEF IInv, QueueInv
    <3>3. last_inc_seq_num' + Len(q') = next_inc_seq_num - 1
      BY <3>1, <3>2, <1>2, <1>3, <1>4, <1>8
    <3>4. \A i \in 1 .. Len(q') : q'[i].seq = last_inc_seq_num' + i
      <4> TAKE i \in 1 .. Len(q')
      <4>1. q'[i] = q[i + 1] /\ i + 1 \in 1 .. Len(q)
        BY <3>1, <1>2, <1>3
      <4>2. q[i + 1].seq = last_inc_seq_num + (i + 1) /\ i \in Nat
        BY <4>1, <3>2
      <4>3. last_inc_seq_num' = last_inc_seq_num + 1
        BY <1>4, <1>8
      <4> QED
        BY <4>1, <4>2, <4>3, <3>2
    <3> QED
      BY <3>1, <3>3, <3>4, <1>0, <1>2, <1>4, <1>6, <1>8 DEF QueueInv
  <2> QED
    BY <2>1, <2>2
<1>10. ImageInSync'
  <2> SUFFICES ASSUME snap_phase' # "exited"
               PROVE  last_inc_seq_num' \in DOMAIN book_at
                      /\ ticker_orders' = Image(last_inc_seq_num')
    BY <1>0 DEF ImageInSync, Image
  <2>1. ticker_orders' = addToSnapshot(f.update)
    BY DEF SynthesizeUpdate
  <2>2. ticker_orders = Image(f.seq - 1)
    <3>1. f.seq - 1 = last_inc_seq_num
      BY <1>4 DEF IInv, QueueInv
    <3> QED
      BY <3>1, <1>1 DEF IInv, ImageInSync, Image
  <2>3. f.update.type \notin {"CLEAR", "SNAPSHOT_START"}
    BY <1>4 DEF IsUpdate, UpdateTypes
  <2>4. addToSnapshot(f.update) = onMarketUpdate(Image(f.seq - 1), f.update)
    BY <2>2, <2>3 DEF addToSnapshot, onMarketUpdate
  <2> QED
    BY <2>1, <2>4, <1>0, <1>4, <1>8, UpdateAdvances
<1>11. PhaseInv' /\ BufferInv'
  <2>1. \A n \in Buffered : IsUpdate(n, out_of_order_buf[n])'
    BY <1>5 DEF IInv, BufferInv, consumer
  <2>2. next_snap_seq_num' \in Nat \ {0} /\ snap_cursor' \in Nat
    BY <1>0 DEF IInv, PhaseInv
  <2> QED
    BY <2>1, <2>2, ConsumerKept
<1>12. InSync'
  BY <1>0 DEF IInv, InSync, consumer
<1>13. \E hist : SnapshotInv(hist)'
  <2>1. PICK hist : SnapshotInv(hist)
    BY DEF IInv
  <2>2. \A n : Image(n)' = Image(n)
    BY <1>0 DEF Image
  <2>3. \A h : Truthful(h)' <=> Truthful(h)
    BY <2>2, <1>0 DEF Truthful
  <2>4. History(hist)'
    BY <2>1, <2>3, <1>0 DEF SnapshotInv, History
  <2>5. snap_phase' # "ADD"
    BY <1>1 DEF SynthesizeUpdate, SnapshotBegins
  <2>6. AssemblyInv(hist)'
    BY <2>1, <2>2 DEF SnapshotInv, AssemblyInv, consumer
  <2> QED
    BY <2>1, <2>4, <2>5, <2>6, <1>0 DEF SnapshotInv, WalkInv, consumer
<1>14. inc_channel' \in Seq(IncFrames')
  BY <1>0, <1>6 DEF IInv
<1> QED
  BY <1>7, <1>9, <1>10, <1>11, <1>12, <1>13, <1>14 DEF IInv

(* It begins to publish an image.                                          *)
LEMMA DueKeepsIInv ==
  ASSUME IInv, SnapshotIsDue, UNCHANGED consumer
  PROVE  IInv'
<1>0. /\ UNCHANGED <<next_inc_seq_num, book_at, next_snap_seq_num, snap_cursor,
                     snapshot_md_updates, ticker_orders, last_inc_seq_num,
                     inc_channel, snap_channel>>
      /\ snap_phase = "poll" /\ snap_phase' = "CLEAR"
  BY DEF SnapshotIsDue, SnapshotBegins, network
<1>1. \A n, v : IsUpdate(n, v)' <=> IsUpdate(n, v)
  BY <1>0 DEF IsUpdate
<1>2. IncFrames' = IncFrames
  BY <1>1 DEF IncFrames
<1>3. EngineInv' /\ inc_channel' \in Seq(IncFrames')
  BY <1>0, <1>2 DEF IInv, EngineInv
<1>4. QueueInv' /\ ImageInSync'
  BY <1>0, <1>2 DEF IInv, QueueInv, ImageInSync
<1>5. PhaseInv' /\ BufferInv'
  BY <1>0, <1>1, ConsumerKept DEF IInv, BufferInv, PhaseInv, consumer
<1>6. InSync'
  BY <1>0 DEF IInv, InSync, consumer
<1>7. \E hist : SnapshotInv(hist)'
  <2>1. PICK hist : SnapshotInv(hist)
    BY DEF IInv
  <2>2. \A n : Image(n)' = Image(n)
    BY <1>0 DEF Image
  <2>3. \A h : Truthful(h)' <=> Truthful(h)
    BY <2>2, <1>0 DEF Truthful
  <2>4. History(hist)'
    BY <2>1, <2>3, <1>0 DEF SnapshotInv, History
  <2>5. AssemblyInv(hist)'
    BY <2>1, <2>2 DEF SnapshotInv, AssemblyInv, consumer
  <2> QED
    BY <2>1, <2>4, <2>5, <1>0 DEF SnapshotInv, WalkInv, consumer
<1> QED
  BY <1>3, <1>4, <1>5, <1>6, <1>7 DEF IInv

(* A message that tells the truth about the image, sent where the last one *)
(* left off, extends the history.                                          *)
LEMMA SendKeepsIInv ==
  ASSUME IInv, NEW h \in Sendings, Truthful(h), SendSnapshot(h.update), UNCHANGED consumer,
         snap_phase # "exited", snap_phase' # "exited", snap_cursor' \in Nat,
         h.update.type \in {"ADD", "SNAPSHOT_END"} =>
            snap_phase = "ADD" /\ h.image = last_inc_seq_num /\ h.after = snap_cursor,
         snap_phase' = "ADD" =>
            Inside(h) /\ h.image = last_inc_seq_num /\ WalkedTo(h) = snap_cursor'
  PROVE  IInv'
<1>0. /\ UNCHANGED <<next_inc_seq_num, book_at, snapshot_md_updates, ticker_orders,
                     last_inc_seq_num, inc_channel>>
      /\ next_snap_seq_num' = next_snap_seq_num + 1
      /\ next_snap_seq_num \in Nat \ {0}
  BY DEF SendSnapshot, IInv, PhaseInv
<1>1. \A n, v : IsUpdate(n, v)' <=> IsUpdate(n, v)
  BY <1>0 DEF IsUpdate
<1>2. IncFrames' = IncFrames
  BY <1>1 DEF IncFrames
<1>3. EngineInv' /\ inc_channel' \in Seq(IncFrames')
  BY <1>0, <1>2 DEF IInv, EngineInv
<1>4. QueueInv' /\ ImageInSync'
  BY <1>0, <1>2 DEF IInv, QueueInv, ImageInSync
<1>5. PhaseInv' /\ BufferInv'
  BY <1>0, <1>1, ConsumerKept DEF IInv, BufferInv, consumer
<1>6. InSync'
  BY <1>0 DEF IInv, InSync, consumer
<1>7. \E hist : SnapshotInv(hist)'
  <2>1. PICK hist : SnapshotInv(hist)
    BY DEF IInv
  <2> DEFINE n == next_snap_seq_num
  <2>2. hist \in [1 .. n - 1 -> Sendings]
    BY <2>1 DEF SnapshotInv, History
  <2>3. PICK more :
        /\ more \in [1 .. n -> Sendings]
        /\ more[n] = h
        /\ \A s \in DOMAIN hist : s \in DOMAIN more /\ more[s] = hist[s]
        /\ DOMAIN more = DOMAIN hist \cup {n}
    <3> DEFINE ext == [s \in 1 .. n |-> IF s = n THEN h ELSE hist[s]]
    <3>1. /\ ext \in [1 .. n -> Sendings]
          /\ ext[n] = h
          /\ \A s \in DOMAIN hist : s \in DOMAIN ext /\ ext[s] = hist[s]
          /\ DOMAIN ext = DOMAIN hist \cup {n}
      BY <2>2, <1>0
    <3> QED
      BY <3>1, Zenon
  <2>4. \A m : Image(m)' = Image(m)
    BY <1>0 DEF Image
  <2>5. \A g : Truthful(g)' <=> Truthful(g)
    BY <2>4, <1>0 DEF Truthful
  <2>6. \A s \in DOMAIN more : Truthful(more[s])'
    BY <2>1, <2>3, <2>5 DEF SnapshotInv, History
  <2>7. ASSUME NEW s \in DOMAIN more, s + 1 \in DOMAIN more, Inside(more[s]),
               more[s + 1].update.type \in {"ADD", "SNAPSHOT_END"}
        PROVE  more[s + 1].image = more[s].image /\ more[s + 1].after = WalkedTo(more[s])
    <3>1. CASE s + 1 \in DOMAIN hist
      <4>1. s \in DOMAIN hist
        BY <3>1, <2>2, <2>3, <1>0
      <4> QED
        BY <4>1, <3>1, <2>1, <2>3, <2>7 DEF SnapshotInv, History
    <3>2. CASE s + 1 = n
      <4>1. s \in DOMAIN hist /\ s = n - 1
        BY <3>2, <2>2, <2>3, <1>0
      <4>2. more[s] = hist[n - 1] /\ more[s + 1] = h
        BY <4>1, <3>2, <2>3
      <4>3. snap_phase = "ADD" /\ h.image = last_inc_seq_num /\ h.after = snap_cursor
        BY <4>2, <2>7
      <4>4. hist[n - 1].image = last_inc_seq_num /\ WalkedTo(hist[n - 1]) = snap_cursor
        BY <4>3, <2>1 DEF SnapshotInv, WalkInv
      <4> QED
        BY <4>2, <4>3, <4>4
    <3> QED
      BY <3>1, <3>2, <2>3, <2>7
  <2>8. History(more)'
    <3>1. more \in [1 .. next_snap_seq_num' - 1 -> Sendings]
      BY <2>3, <1>0
    <3> QED
      BY <3>1, <2>6, <2>7 DEF History
  <2>9. SnapFrames(hist) \subseteq SnapFrames(more) /\ Frame(n, h.update) \in SnapFrames(more)
    BY <2>3 DEF SnapFrames
  <2>10. snap_channel' \in Seq(SnapFrames(more))
    <3>1. snap_channel \in Seq(SnapFrames(more))
      BY <2>1, <2>9, SeqGrows DEF SnapshotInv
    <3>2. \/ snap_channel' = snap_channel
          \/ snap_channel' = Append(snap_channel, Frame(n, h.update))
      BY DEF SendSnapshot
    <3> QED
      BY <3>1, <3>2, <2>9, AppendProperties
  <2>11. rcv_frame' \in SnapFrames(more) \cup {NoFrame}
    BY <2>1, <2>9 DEF SnapshotInv, consumer
  <2>12. WalkInv(more)'
    <3>1. next_snap_seq_num' - 1 = n /\ n \in DOMAIN more
      BY <1>0, <2>3
    <3> QED
      BY <3>1, <2>3, <1>0 DEF WalkInv
  <2>13. AssemblyInv(more)'
    BY <2>1, <2>3, <2>4 DEF SnapshotInv, AssemblyInv, consumer
  <2>14. SnapshotInv(more)'
    BY <2>8, <2>10, <2>11, <2>12, <2>13 DEF SnapshotInv
  <2> QED
    BY <2>14
<1> QED
  BY <1>3, <1>4, <1>5, <1>6, <1>7 DEF IInv

(* Each message of publishSnapshot is such a message.                      *)
LEMMA PublishKeepsIInv ==
  ASSUME IInv, publishSnapshot, UNCHANGED consumer
  PROVE  IInv'
<1> DEFINE n == last_inc_seq_num
           Said(u) == [update |-> u, image |-> n, after |-> snap_cursor]
<1>1. snap_cursor \in Nat /\ n \in Nat
  BY DEF IInv, PhaseInv, QueueInv
<1>2. snap_phase # "exited"
  BY DEF publishSnapshot, SnapshotClear, SnapshotStart, SnapshotAdd, SnapshotEnd
<1>3. n \in DOMAIN book_at /\ ticker_orders = Image(n)
  BY <1>2 DEF IInv, ImageInSync, Image
<1>4. /\ DOMAIN ticker_orders \subseteq Nat \ {0}
      /\ \A k \in DOMAIN ticker_orders : ticker_orders[k] \in Nat
  BY <1>3, ImageTyped DEF IInv
<1>5. \A u \in Updates : Said(u) \in Sendings /\ Said(u).update = u
                         /\ Said(u).image = n /\ Said(u).after = snap_cursor
  BY <1>1 DEF Sendings
<1>6. \A t \in SnapshotTypes, k \in Nat, q \in Nat :
        /\ Update(t, k, q) \in Updates
        /\ Update(t, k, q).type = t /\ Update(t, k, q).order = k /\ Update(t, k, q).qty = q
  BY DEF Update, Updates
<1> HIDE DEF Said
<1>7. CASE SnapshotClear
  <2> DEFINE u == Update("CLEAR", 0, 0)
  <2>1. u \in Updates /\ u.type = "CLEAR"
    BY <1>6 DEF SnapshotTypes
  <2>2. SendSnapshot(u) /\ snap_phase' = "SNAPSHOT_START" /\ snap_cursor' = snap_cursor
    BY <1>7 DEF SnapshotClear
  <2> HIDE DEF u
  <2>3. Truthful(Said(u))
    BY <2>1, <1>3, <1>5 DEF Truthful
  <2> QED
    BY <2>1, <2>2, <2>3, <1>1, <1>2, <1>5, SendKeepsIInv
<1>8. CASE SnapshotStart
  <2> DEFINE u == Update("SNAPSHOT_START", 0, 0)
  <2>1. u \in Updates /\ u.type = "SNAPSHOT_START"
    BY <1>6 DEF SnapshotTypes
  <2>2. SendSnapshot(u) /\ snap_phase' = "ADD" /\ snap_cursor' = 0
    BY <1>8 DEF SnapshotStart
  <2> HIDE DEF u
  <2>3. Truthful(Said(u))
    BY <2>1, <1>3, <1>5 DEF Truthful
  <2>4. Inside(Said(u)) /\ WalkedTo(Said(u)) = 0
    BY <2>1, <1>5 DEF Inside, WalkedTo
  <2> QED
    BY <2>1, <2>2, <2>3, <2>4, <1>1, <1>2, <1>5, SendKeepsIInv
<1>9. CASE SnapshotAdd
  <2> DEFINE k == Min(OrdersLeft)
             u == Update("ADD", k, ticker_orders[k])
  <2>1. OrdersLeft \in SUBSET Nat /\ OrdersLeft # {}
    BY <1>4, <1>9 DEF SnapshotAdd, OrdersLeft
  <2>2. k \in OrdersLeft /\ \A m \in OrdersLeft : k <= m
    BY <2>1, MinIsLeast
  <2>3. SendSnapshot(u) /\ snap_phase = "ADD" /\ snap_phase' = "ADD" /\ snap_cursor' = k
    BY <1>9 DEF SnapshotAdd
  <2> HIDE DEF k
  <2>4. k \in DOMAIN ticker_orders /\ k > snap_cursor /\ k \in Nat
    BY <2>2, <1>4 DEF OrdersLeft
  <2>5. u \in Updates /\ u.type = "ADD" /\ u.order = k /\ u.qty = ticker_orders[k]
    BY <2>4, <1>4, <1>6 DEF SnapshotTypes
  <2> HIDE DEF u
  <2>6. \A m \in DOMAIN ticker_orders : m <= snap_cursor \/ m >= k
    BY <2>2, <2>4, <1>1, <1>4 DEF OrdersLeft
  <2>7. AddsNext(Image(n), snap_cursor, u)
    BY <2>4, <2>5, <2>6, <1>1, <1>3 DEF AddsNext
  <2>8. Truthful(Said(u))
    BY <2>5, <2>7, <1>3, <1>5 DEF Truthful
  <2>9. Inside(Said(u)) /\ WalkedTo(Said(u)) = k
    BY <2>5, <1>5 DEF Inside, WalkedTo
  <2> QED
    BY <2>3, <2>4, <2>5, <2>8, <2>9, <1>2, <1>5, SendKeepsIInv
<1>10. CASE SnapshotEnd
  <2> DEFINE u == Update("SNAPSHOT_END", n, 0)
  <2>1. u \in Updates /\ u.type = "SNAPSHOT_END" /\ u.order = n
    BY <1>1, <1>6 DEF SnapshotTypes
  <2>2. /\ SendSnapshot(u) /\ snap_phase = "ADD" /\ snap_phase' = "poll" /\ snap_cursor' = 0
        /\ OrdersLeft = {}
    BY <1>10 DEF SnapshotEnd
  <2> HIDE DEF u
  <2>3. \A m \in DOMAIN Image(n) : m <= snap_cursor
    BY <2>2, <1>1, <1>3, <1>4 DEF OrdersLeft
  <2>4. Truthful(Said(u))
    BY <2>1, <2>3, <1>3, <1>5 DEF Truthful
  <2> QED
    BY <2>1, <2>2, <2>4, <1>1, <1>2, <1>5, SendKeepsIInv
<1> QED
  BY <1>7, <1>8, <1>9, <1>10 DEF publishSnapshot

----------------------------------------------------------------------------
(* The consumer.                                                           *)

(* One snapshot message, whatever was lost, doubled or overtaken: a cycle  *)
(* is put together only from messages with consecutive numbers, and these  *)
(* are of one image.                                                       *)
LEMMA ProcessSnapshotKeeps ==
  ASSUME IInv, NEW hist, SnapshotInv(hist),
         NEW f \in SnapFrames(hist) \cup {NoFrame}, processSnapshot(f),
         mdc_pc \in {"poll", "parsing"},
         UNCHANGED exchange, UNCHANGED <<in_recovery, out_of_order_buf>>
  PROVE  PhaseInv' /\ BufferInv' /\ InSync' /\ AssemblyInv(hist)'
<1>1. /\ EngineInv' /\ EngineInv
      /\ \A n, u : IsUpdate(n, u)' <=> IsUpdate(n, u)
      /\ \A n : Image(n)' = Image(n)
      /\ book_at' = book_at
      /\ next_snap_seq_num' = next_snap_seq_num /\ snap_cursor' = snap_cursor
  BY ExchangeKept DEF IInv, exchange
<1>2. Caller \in {"poll", "parsing"}
  BY DEF Caller
<1>3. /\ hist \in [1 .. next_snap_seq_num - 1 -> Sendings]
      /\ \A s \in DOMAIN hist : Truthful(hist[s]) /\ s \in Nat /\ hist[s].update \in Updates
  BY DEF SnapshotInv, History, Sendings, IInv, PhaseInv
<1>4. f.update.type # "TRADE" => f.seq \in DOMAIN hist /\ f.update = hist[f.seq].update
  BY <1>3 DEF SnapFrames, NoFrame, Frame, Update
<1>5. \A n \in Buffered' : IsUpdate(n, out_of_order_buf[n])'
  BY <1>1 DEF IInv, BufferInv, Buffered
<1>6. CASE ~in_recovery
  <2>1. UNCHANGED <<reassembly, downstream, next_exp_inc_seq_num>> /\ mdc_pc' = Caller
    BY <1>6 DEF processSnapshot
  <2>2. ~snapshot_armed /\ ~in_snapshot
    BY <1>6 DEF IInv, PhaseInv
  <2>3. PhaseInv'
    BY <2>1, <2>2, <1>1, <1>2 DEF IInv, PhaseInv, reassembly
  <2>4. BufferInv'
    BY <2>1, <1>2, <1>5 DEF IInv, BufferInv, BufferAhead, Buffered
  <2>5. InSync'
    BY <2>1, <1>1, <1>2, <1>6 DEF IInv, InSync
  <2>6. AssemblyInv(hist)'
    BY <2>1, <2>2 DEF AssemblyInv, reassembly
  <2> QED
    BY <2>3, <2>4, <2>5, <2>6
<1>7. CASE in_recovery /\ mdc_pc' = Caller
  <2>1. mdc_pc' \notin {"draining", "replaying"} /\ in_recovery'
    BY <1>2, <1>7
  <2>2. BufferInv' /\ InSync'
    BY <2>1, <1>5 DEF BufferInv, BufferAhead, InSync
  <2>3. CASE f.update.type = "CLEAR"
    <3>1. /\ ~in_snapshot' /\ snapshot_armed' /\ snapshot_last_seen' = f.seq
          /\ downstream' = EmptyBook /\ next_exp_inc_seq_num' = next_exp_inc_seq_num
          /\ in_snapshot' = FALSE /\ snapshot_armed' = TRUE
      BY <1>7, <2>3 DEF processSnapshot, publishDownstream, onMarketUpdate
    <3>2. f.seq \in Nat
      BY <2>3, <1>3, <1>4
    <3>3. PhaseInv'
      BY <3>1, <3>2, <2>1, <1>1 DEF IInv, PhaseInv
    <3> QED
      BY <3>1, <3>3, <2>2 DEF AssemblyInv
  <2>4. CASE f.update.type = "SNAPSHOT_START"
    <3>1. /\ in_snapshot' = (snapshot_armed /\ Contiguous(f))
          /\ snapshot_last_seen' = IF in_snapshot' THEN f.seq ELSE snapshot_last_seen
          /\ snapshot_armed' = FALSE
          /\ UNCHANGED <<downstream, next_exp_inc_seq_num>>
      BY <1>7, <2>4 DEF processSnapshot
    <3>2. f.seq \in DOMAIN hist /\ f.update = hist[f.seq].update /\ f.seq \in Nat
      BY <2>4, <1>3, <1>4
    <3>3. in_snapshot' \in BOOLEAN
      BY <3>1
    <3>4. PhaseInv'
      BY <3>1, <3>2, <3>3, <2>1, <1>1 DEF IInv, PhaseInv
    <3>5. ASSUME in_snapshot'
          PROVE  /\ Inside(hist[f.seq]) /\ WalkedTo(hist[f.seq]) = 0
                 /\ downstream' = UpTo(Image(hist[f.seq].image)', 0)
      <4>1. snapshot_armed /\ downstream = EmptyBook
        BY <3>1, <3>5 DEF IInv, PhaseInv
      <4>2. hist[f.seq].image \in DOMAIN book_at
        BY <3>2, <1>3 DEF Truthful
      <4>3. UpTo(Image(hist[f.seq].image), 0) = EmptyBook
        BY <4>2, <1>1, ImageTyped, WalkBegins
      <4> QED
        BY <4>1, <4>3, <3>1, <3>2, <2>4, <1>1 DEF Inside, WalkedTo
    <3>6. AssemblyInv(hist)'
      BY <3>1, <3>2, <3>5 DEF AssemblyInv
    <3> QED
      BY <3>4, <3>6, <2>2
  <2>5. CASE f.update.type = "ADD"
    <3>1. /\ in_snapshot' = (in_snapshot /\ Contiguous(f))
          /\ IF in_snapshot' THEN publishDownstream(f.update) /\ snapshot_last_seen' = f.seq
                             ELSE UNCHANGED <<downstream, snapshot_last_seen>>
          /\ UNCHANGED <<snapshot_armed, next_exp_inc_seq_num>>
      BY <1>7, <2>5 DEF processSnapshot
    <3>2. f.seq \in DOMAIN hist /\ f.update = hist[f.seq].update /\ f.seq \in Nat
      BY <2>5, <1>3, <1>4
    <3>3. in_snapshot' \in BOOLEAN
      BY <3>1
    <3>4. PhaseInv'
      <4>1. snapshot_last_seen' \in Nat
        BY <3>1, <3>2 DEF IInv, PhaseInv
      <4>2. snapshot_armed' => ~in_snapshot' /\ downstream' = EmptyBook
        BY <3>1 DEF IInv, PhaseInv
      <4> QED
        BY <4>1, <4>2, <3>1, <3>3, <2>1, <1>1 DEF IInv, PhaseInv
    <3>5. ASSUME in_snapshot'
          PROVE  /\ Inside(hist[f.seq])
                 /\ downstream' = UpTo(Image(hist[f.seq].image)', WalkedTo(hist[f.seq]))
      <4> DEFINE s == snapshot_last_seen
                 im == hist[s].image
                 c == WalkedTo(hist[s])
      <4>1. in_snapshot /\ f.seq = s + 1 /\ downstream' = onMarketUpdate(downstream, f.update)
        BY <3>1, <3>5 DEF Contiguous, publishDownstream
      <4>2. s \in DOMAIN hist /\ Inside(hist[s]) /\ downstream = UpTo(Image(im), c)
        BY <4>1 DEF SnapshotInv, AssemblyInv
      <4>3. hist[f.seq].image = im /\ hist[f.seq].after = c
        BY <4>1, <4>2, <3>2, <2>5 DEF SnapshotInv, History
      <4>4. im \in DOMAIN book_at /\ AddsNext(Image(im), c, f.update)
        BY <4>3, <3>2, <2>5, <1>3 DEF Truthful
      <4>5. /\ DOMAIN Image(im) \subseteq Nat /\ DOMAIN Image(im) \subseteq InRange
            /\ c \in Nat /\ f.update \in Updates
        <5>1. c \in Nat
          BY <4>2, <1>3 DEF WalkedTo, Updates
        <5> QED
          BY <5>1, <4>4, <3>2, <1>1, <1>3, ImageTyped
      <4>6. onMarketUpdate(downstream, f.update) =
              WithOrder(downstream, f.update.order, f.update.qty)
        BY <4>4, <4>5, <2>5 DEF onMarketUpdate, Applied, AddsNext
      <4>7. downstream' = UpTo(Image(im), f.update.order)
        BY <4>1, <4>2, <4>4, <4>5, <4>6, WalkTakes
      <4> QED
        BY <4>3, <4>7, <3>2, <2>5, <1>1 DEF Inside, WalkedTo
    <3>6. AssemblyInv(hist)'
      BY <3>1, <3>2, <3>5 DEF AssemblyInv
    <3> QED
      BY <3>4, <3>6, <2>2
  <2>6. CASE f.update.type = "SNAPSHOT_END"
    <3>1. /\ ~in_snapshot' /\ in_snapshot' = (in_snapshot /\ Contiguous(f))
          /\ UNCHANGED <<snapshot_armed, downstream, snapshot_last_seen, next_exp_inc_seq_num>>
      BY <1>2, <1>7, <2>6 DEF processSnapshot
    <3>2. PhaseInv'
      <4>1. in_snapshot' \in BOOLEAN
        BY <3>1
      <4> QED
        BY <4>1, <3>1, <2>1, <1>1 DEF IInv, PhaseInv
    <3> QED
      BY <3>1, <3>2, <2>2 DEF AssemblyInv
  <2> QED
    BY <2>3, <2>4, <2>5, <2>6, <1>7 DEF processSnapshot
<1>8. CASE in_recovery /\ mdc_pc' # Caller
  <2> DEFINE s == snapshot_last_seen
             im == hist[s].image
             c == WalkedTo(hist[s])
  <2>1. /\ f.update.type = "SNAPSHOT_END"
        /\ in_snapshot' = (in_snapshot /\ Contiguous(f)) /\ in_snapshot'
        /\ snapshot_last_seen' = f.seq
        /\ next_exp_inc_seq_num' = f.update.order + 1
        /\ mdc_pc' = "replaying"
        /\ UNCHANGED <<snapshot_armed, downstream>>
    BY <1>8 DEF processSnapshot
  <2>2. f.seq \in DOMAIN hist /\ f.update = hist[f.seq].update /\ f.seq \in Nat
    BY <2>1, <1>3, <1>4
  <2>3. in_snapshot /\ f.seq = s + 1 /\ ~snapshot_armed /\ in_snapshot' \in BOOLEAN
    BY <2>1 DEF Contiguous, IInv, PhaseInv
  <2>4. s \in DOMAIN hist /\ Inside(hist[s]) /\ downstream = UpTo(Image(im), c)
    BY <2>3 DEF SnapshotInv, AssemblyInv
  <2>5. hist[f.seq].image = im /\ hist[f.seq].after = c
    BY <2>1, <2>2, <2>3, <2>4 DEF SnapshotInv, History
  <2>6. /\ im \in DOMAIN book_at /\ f.update.order = im
        /\ \A k \in DOMAIN Image(im) : k <= c
    BY <2>1, <2>2, <2>5, <1>3 DEF Truthful
  <2>7. downstream = Image(im)
    BY <2>4, <2>6, WalkEnds DEF Image
  <2>8. im \in Nat
    BY <2>6 DEF IInv, EngineInv
  <2>9. PhaseInv'
    BY <2>1, <2>2, <2>3, <2>6, <2>8, <1>1, <1>8 DEF IInv, PhaseInv
  <2>10. BufferInv'
    BY <2>1, <1>5, <1>8 DEF BufferInv, BufferAhead
  <2>11. InSync'
    <3>1. next_exp_inc_seq_num' - 1 = im
      BY <2>1, <2>6, <2>8
    <3> QED
      BY <3>1, <2>1, <2>6, <2>7, <1>1 DEF InSync, Image
  <2> QED
    BY <2>1, <2>9, <2>10, <2>11 DEF AssemblyInv
<1> QED
  BY <1>6, <1>7, <1>8 DEF IInv, PhaseInv

(* What a step of the consumer has to keep.                                *)
LEMMA ConsumerStep ==
  ASSUME IInv, UNCHANGED exchange, NEW hist, SnapshotInv(hist),
         inc_channel' \in Seq(IncFrames),
         snap_channel' \in Seq(SnapFrames(hist)),
         rcv_frame' \in SnapFrames(hist) \cup {NoFrame},
         PhaseInv', BufferInv', InSync', AssemblyInv(hist)'
  PROVE  IInv'
<1>1. /\ EngineInv' /\ QueueInv' /\ ImageInSync'
      /\ IncFrames' = IncFrames
      /\ History(hist)' /\ WalkInv(hist)'
  BY ExchangeKept DEF SnapshotInv
<1>2. SnapshotInv(hist)'
  BY <1>1 DEF SnapshotInv
<1> QED
  BY <1>1, <1>2 DEF IInv

(* Publishing the update that is expected, from the channel or from the    *)
(* buffer, keeps the client's book in step.                                *)
LEMMA PublishInSync ==
  ASSUME IInv, InSync, ~in_recovery \/ mdc_pc = "replaying", UNCHANGED exchange,
         NEW u, IsUpdate(next_exp_inc_seq_num, u), publishDownstream(u),
         next_exp_inc_seq_num' = next_exp_inc_seq_num + 1
  PROVE  InSync'
<1> DEFINE n == next_exp_inc_seq_num
<1>1. downstream = Image(n - 1) /\ n \in Nat
  BY DEF InSync, Image, IInv, PhaseInv
<1>2. n \in DOMAIN book_at /\ onMarketUpdate(Image(n - 1), u) = Image(n)
  BY UpdateAdvances DEF IInv
<1>3. downstream' = Image(n)
  BY <1>1, <1>2 DEF publishDownstream
<1>4. next_exp_inc_seq_num' - 1 = n /\ book_at' = book_at
  BY <1>1 DEF exchange
<1> QED
  BY <1>2, <1>3, <1>4 DEF InSync, Image

(* Every buffered update is one, whatever is inserted or removed.          *)
LEMMA BufferInserts ==
  ASSUME IInv, UNCHANGED exchange, NEW f \in IncFrames, out_of_order_buf' = Buffer(f)
  PROVE  /\ Buffered' = Buffered \cup {f.seq}
         /\ \A n \in Buffered' : IsUpdate(n, out_of_order_buf[n])'
<1>1. Buffered' = Buffered \cup {f.seq}
  BY DEF Buffered, Buffer, WithOrder
<1>2. \A n \in Buffered' : out_of_order_buf'[n] = IF n = f.seq THEN f.update
                                                  ELSE out_of_order_buf[n]
  BY <1>1 DEF Buffered, Buffer, WithOrder
<1>3. IsUpdate(f.seq, f.update)
  BY DEF IncFrames
<1>4. \A n \in Buffered' : IsUpdate(n, out_of_order_buf'[n])
  BY <1>1, <1>2, <1>3 DEF IInv, BufferInv
<1> QED
  BY <1>1, <1>4 DEF IsUpdate, exchange

(* An update taken out of the buffer leaves the others as they were.       *)
LEMMA BufferRemoves ==
  ASSUME IInv, UNCHANGED exchange, NEW k,
         out_of_order_buf' = WithoutOrder(out_of_order_buf, k)
  PROVE  /\ Buffered' = Buffered \ {k}
         /\ \A n \in Buffered' : IsUpdate(n, out_of_order_buf[n])'
<1>1. Buffered' = Buffered \ {k}
  BY DEF Buffered, WithoutOrder, Restrict
<1>2. \A n \in Buffered' : out_of_order_buf'[n] = out_of_order_buf[n]
  BY <1>1 DEF Buffered, WithoutOrder, Restrict
<1> QED
  BY <1>1, <1>2 DEF IInv, BufferInv, IsUpdate, exchange

(* A step that leaves the buffer alone.                                    *)
LEMMA BufferStays ==
  ASSUME IInv, UNCHANGED exchange, out_of_order_buf' = out_of_order_buf
  PROVE  /\ Buffered' = Buffered
         /\ \A n \in Buffered' : IsUpdate(n, out_of_order_buf[n])'
BY DEF IInv, BufferInv, Buffered, IsUpdate, exchange

(* The buffer is keyed by sequence numbers.                                *)
LEMMA BufferedNumbers ==
  ASSUME IInv
  PROVE  Buffered \in SUBSET Nat
BY DEF IInv, BufferInv, IsUpdate, EngineInv

(* One incremental update.                                                 *)
LEMMA RecvIncrementalKeepsIInv ==
  ASSUME IInv, recvIncremental, UNCHANGED exchange
  PROVE  IInv'
<1> DEFINE f == Head(inc_channel)
           n == next_exp_inc_seq_num
<1>1. /\ inc_channel # <<>> /\ inc_channel' = Tail(inc_channel) /\ processIncremental(f)
      /\ mdc_pc = "poll" /\ rcv_frame' = rcv_frame
  BY DEF recvIncremental
<1>2. f \in IncFrames /\ inc_channel' \in Seq(IncFrames)
  BY <1>1, HeadTailProperties DEF IInv
<1>3. f.seq \in Nat /\ IsUpdate(f.seq, f.update) /\ n \in Nat
  BY <1>2 DEF IncFrames, IInv, PhaseInv
<1>4. PICK hist : SnapshotInv(hist)
  BY DEF IInv
<1>5. \A m : Image(m)' = Image(m)
  BY ExchangeKept
<1>6. rcv_frame' \in SnapFrames(hist) \cup {NoFrame} /\ <<>> \in Seq(SnapFrames(hist))
  BY <1>1, <1>4 DEF SnapshotInv
<1>7. /\ next_snap_seq_num' = next_snap_seq_num /\ snap_cursor' = snap_cursor
      /\ book_at' = book_at
  BY DEF exchange
<1> HIDE DEF f
<1>8. CASE in_recovery
  <2>1. /\ out_of_order_buf' = Buffer(f)
        /\ UNCHANGED <<in_recovery, next_exp_inc_seq_num, downstream, reassembly,
                       snap_channel, mdc_pc>>
    BY <1>1, <1>8 DEF processIncremental
  <2>2. \A m \in Buffered' : IsUpdate(m, out_of_order_buf[m])'
    BY <2>1, <1>2, BufferInserts
  <2>3. PhaseInv'
    BY <2>1, <1>7 DEF IInv, PhaseInv, reassembly
  <2>4. BufferInv' /\ InSync'
    BY <2>1, <2>2, <1>1, <1>8 DEF BufferInv, BufferAhead, InSync
  <2>5. AssemblyInv(hist)'
    BY <2>1, <1>4, <1>5 DEF SnapshotInv, AssemblyInv, reassembly
  <2> QED
    BY <2>1, <2>3, <2>4, <2>5, <1>2, <1>4, <1>6, ConsumerStep DEF SnapshotInv
<1>9. CASE ~in_recovery /\ f.seq = n
  <2>1. /\ publishDownstream(f.update)
        /\ next_exp_inc_seq_num' = n + 1
        /\ mdc_pc' = "draining"
        /\ UNCHANGED <<in_recovery, out_of_order_buf, reassembly, snap_channel>>
    BY <1>1, <1>3, <1>9 DEF processIncremental
  <2>2. ~snapshot_armed /\ ~in_snapshot
    BY <1>9 DEF IInv, PhaseInv
  <2>3. PhaseInv'
    BY <2>1, <2>2, <1>3, <1>7, <1>9 DEF IInv, PhaseInv, reassembly
  <2>4. InSync'
    BY <2>1, <1>3, <1>9, PublishInSync DEF IInv
  <2>5. BufferInv'
    <3>1. \A m \in Buffered : m > n
      BY <1>1, <1>9 DEF IInv, BufferInv, BufferAhead
    <3>2. \A m \in Buffered' : IsUpdate(m, out_of_order_buf[m])' /\ m >= n + 1
      BY <3>1, <2>1, <1>3, BufferStays, BufferedNumbers
    <3> QED
      BY <3>2, <2>1 DEF BufferInv, BufferAhead
  <2>6. AssemblyInv(hist)'
    BY <2>1, <2>2 DEF AssemblyInv, reassembly
  <2> QED
    BY <2>1, <2>3, <2>4, <2>5, <2>6, <1>2, <1>4, <1>6, ConsumerStep DEF SnapshotInv
<1>10. CASE ~in_recovery /\ f.seq < n
  <2>1. UNCHANGED <<in_recovery, next_exp_inc_seq_num, out_of_order_buf, downstream,
                    reassembly, snap_channel, mdc_pc>>
    BY <1>1, <1>3, <1>10 DEF processIncremental
  <2>2. PhaseInv'
    BY <2>1, <1>7 DEF IInv, PhaseInv, reassembly
  <2>3. InSync'
    BY <2>1, <1>7 DEF IInv, InSync
  <2>4. BufferInv'
    <3>1. Buffered' = Buffered /\ \A m \in Buffered' : IsUpdate(m, out_of_order_buf[m])'
      BY <2>1, BufferStays
    <3> QED
      BY <3>1, <2>1 DEF IInv, BufferInv, BufferAhead
  <2>5. AssemblyInv(hist)'
    BY <2>1, <1>4, <1>5 DEF SnapshotInv, AssemblyInv, reassembly
  <2> QED
    BY <2>1, <2>2, <2>3, <2>4, <2>5, <1>2, <1>4, <1>6, ConsumerStep DEF SnapshotInv
<1>11. CASE ~in_recovery /\ f.seq > n
  <2>1. /\ out_of_order_buf' = Buffer(f)
        /\ in_recovery' = TRUE
        /\ snapshot_armed' = FALSE /\ in_snapshot' = FALSE /\ snapshot_last_seen' = 0
        /\ snap_channel' = <<>>
        /\ UNCHANGED <<next_exp_inc_seq_num, downstream, mdc_pc>>
    BY <1>1, <1>3, <1>11 DEF processIncremental, startRecovery
  <2>2. \A m \in Buffered' : IsUpdate(m, out_of_order_buf[m])'
    BY <2>1, <1>2, BufferInserts
  <2>3. PhaseInv'
    BY <2>1, <1>1, <1>7 DEF IInv, PhaseInv
  <2>4. BufferInv' /\ InSync'
    BY <2>1, <2>2, <1>1 DEF BufferInv, BufferAhead, InSync
  <2>5. AssemblyInv(hist)'
    BY <2>1 DEF AssemblyInv
  <2> QED
    BY <2>1, <2>3, <2>4, <2>5, <1>2, <1>4, <1>6, ConsumerStep
<1> QED
  BY <1>3, <1>8, <1>9, <1>10, <1>11 DEF IInv, PhaseInv

(* One pass of the loop that follows an expected update.                   *)
LEMMA DrainKeepsIInv ==
  ASSUME IInv, DrainBuffer, UNCHANGED exchange
  PROVE  IInv'
<1> DEFINE n == next_exp_inc_seq_num
<1>1. /\ mdc_pc = "draining"
      /\ UNCHANGED <<in_recovery, snapshot_armed, in_snapshot, snapshot_last_seen, rcv_frame,
                     inc_channel, snap_channel>>
  BY DEF DrainBuffer, reassembly, socket, network
<1>2. /\ ~in_recovery /\ ~snapshot_armed /\ ~in_snapshot /\ n \in Nat
      /\ \A m \in Buffered : m >= n
  BY <1>1 DEF IInv, PhaseInv, BufferInv
<1>3. PICK hist : SnapshotInv(hist)
  BY DEF IInv
<1>4. AssemblyInv(hist)'
  BY <1>1, <1>2 DEF AssemblyInv
<1>5. Buffered \in SUBSET Nat
  BY BufferedNumbers
<1> DEFINE low == Min(Buffered)
<1>6. Buffered # {} =>
        low \in Buffered /\ low \in Nat /\ \A m \in Buffered : m \in Nat /\ low <= m
  BY <1>5, MinIsLeast
<1> HIDE DEF low
<1>7. CASE Buffered # {} /\ low = n
  <2>1. /\ publishDownstream(out_of_order_buf[n])
        /\ out_of_order_buf' = WithoutOrder(out_of_order_buf, n)
        /\ next_exp_inc_seq_num' = n + 1 /\ mdc_pc' = "draining"
    BY <1>1, <1>7 DEF DrainBuffer, PublishBuffered, low
  <2>2. IsUpdate(n, out_of_order_buf[n])
    BY <1>6, <1>7 DEF IInv, BufferInv
  <2>3. InSync'
    BY <2>1, <2>2, <1>2, PublishInSync DEF IInv
  <2>4. BufferInv'
    <3>1. Buffered' = Buffered \ {n} /\ \A m \in Buffered' : IsUpdate(m, out_of_order_buf[m])'
      BY <2>1, BufferRemoves
    <3>2. \A m \in Buffered' : m >= n + 1
      BY <3>1, <1>2, <1>5
    <3> QED
      BY <3>1, <3>2, <2>1 DEF BufferInv, BufferAhead
  <2>5. PhaseInv'
    BY <2>1, <1>1, <1>2 DEF IInv, PhaseInv, exchange
  <2> QED
    BY <2>3, <2>4, <2>5, <1>1, <1>3, <1>4, ConsumerStep DEF IInv, SnapshotInv
<1>8. CASE ~(Buffered # {} /\ low = n)
  <2>1. UNCHANGED <<downstream, out_of_order_buf, next_exp_inc_seq_num>> /\ mdc_pc' = "poll"
    BY <1>8 DEF DrainBuffer, low
  <2>2. InSync'
    BY <2>1, <1>1, <1>2 DEF IInv, InSync, exchange
  <2>3. BufferInv'
    <3>1. Buffered' = Buffered /\ \A m \in Buffered' : IsUpdate(m, out_of_order_buf[m])'
      BY <2>1, BufferStays
    <3>2. \A m \in Buffered : m > n
      BY <1>2, <1>5, <1>6, <1>8
    <3> QED
      BY <3>1, <3>2, <2>1 DEF BufferInv, BufferAhead
  <2>4. PhaseInv'
    BY <2>1, <1>1, <1>2 DEF IInv, PhaseInv, exchange
  <2> QED
    BY <2>2, <2>3, <2>4, <1>1, <1>3, <1>4, ConsumerStep DEF IInv, SnapshotInv
<1> QED
  BY <1>7, <1>8

(* One pass of the loop of finishRecovery, or what follows it.             *)
LEMMA FinishKeepsIInv ==
  ASSUME IInv, finishRecovery, UNCHANGED exchange
  PROVE  IInv'
<1> DEFINE n == next_exp_inc_seq_num
<1>1. mdc_pc = "replaying" /\ UNCHANGED <<snapshot_last_seen, rcv_frame, inc_channel>>
  BY DEF finishRecovery
<1>2. in_recovery /\ in_snapshot /\ ~snapshot_armed /\ n \in Nat
  BY <1>1 DEF IInv, PhaseInv
<1>3. PICK hist : SnapshotInv(hist)
  BY DEF IInv
<1>4. Buffered \in SUBSET Nat
  BY BufferedNumbers
<1> DEFINE low == Min(Buffered)
<1>5. Buffered # {} =>
        low \in Buffered /\ low \in Nat /\ \A m \in Buffered : m \in Nat /\ low <= m
  BY <1>4, MinIsLeast
<1>6. \/ /\ Buffered # {} /\ low < n
         /\ out_of_order_buf' = WithoutOrder(out_of_order_buf, low)
         /\ UNCHANGED <<downstream, next_exp_inc_seq_num, in_recovery, snapshot_armed,
                        in_snapshot, snap_channel, mdc_pc>>
      \/ /\ Buffered # {} /\ low = n
         /\ publishDownstream(out_of_order_buf[n])
         /\ out_of_order_buf' = WithoutOrder(out_of_order_buf, n)
         /\ next_exp_inc_seq_num' = n + 1
         /\ UNCHANGED <<in_recovery, snapshot_armed, in_snapshot, snap_channel, mdc_pc>>
      \/ /\ Buffered # {} => low > n
         /\ snap_channel' = <<>>
         /\ snapshot_armed' = FALSE /\ in_snapshot' = FALSE /\ in_recovery' = FALSE
         /\ mdc_pc' = Caller
         /\ UNCHANGED <<downstream, out_of_order_buf, next_exp_inc_seq_num>>
  BY DEF finishRecovery, PublishBuffered
<1> HIDE DEF low
<1>7. Buffered # {} => /\ low < n => ~(low = n) /\ ~(low > n)
                       /\ low = n => ~(low < n) /\ ~(low > n)
                       /\ low > n => ~(low < n) /\ ~(low = n)
                       /\ low < n \/ low = n \/ low > n
  BY <1>2, <1>5
<1>8. CASE Buffered # {} /\ low < n
  <2>1. /\ out_of_order_buf' = WithoutOrder(out_of_order_buf, low)
        /\ UNCHANGED <<downstream, next_exp_inc_seq_num, in_recovery, snapshot_armed,
                       in_snapshot, snap_channel, mdc_pc>>
    BY <1>6, <1>8, <1>7, Zenon
  <2>2. BufferInv'
    <3>1. \A m \in Buffered' : IsUpdate(m, out_of_order_buf[m])'
      BY <2>1, BufferRemoves
    <3> QED
      BY <3>1, <2>1, <1>1, <1>2 DEF BufferInv, BufferAhead
  <2>3. InSync'
    BY <2>1, <1>1 DEF IInv, InSync, exchange
  <2>4. PhaseInv'
    BY <2>1, <1>1 DEF IInv, PhaseInv, exchange
  <2>5. AssemblyInv(hist)'
    BY <2>1, <1>1 DEF AssemblyInv
  <2> QED
    BY <2>1, <2>2, <2>3, <2>4, <2>5, <1>1, <1>3, ConsumerStep DEF IInv, SnapshotInv
<1>9. CASE Buffered # {} /\ low = n
  <2>1. /\ publishDownstream(out_of_order_buf[n])
        /\ out_of_order_buf' = WithoutOrder(out_of_order_buf, n)
        /\ next_exp_inc_seq_num' = n + 1
        /\ UNCHANGED <<in_recovery, snapshot_armed, in_snapshot, snap_channel, mdc_pc>>
    BY <1>6, <1>9, <1>7, Zenon
  <2>2. IsUpdate(n, out_of_order_buf[n])
    BY <1>5, <1>9 DEF IInv, BufferInv
  <2>3. InSync'
    BY <2>1, <2>2, <1>1, PublishInSync DEF IInv
  <2>4. BufferInv'
    <3>1. \A m \in Buffered' : IsUpdate(m, out_of_order_buf[m])'
      BY <2>1, BufferRemoves
    <3> QED
      BY <3>1, <2>1, <1>1, <1>2 DEF BufferInv, BufferAhead
  <2>5. PhaseInv'
    BY <2>1, <1>1, <1>2 DEF IInv, PhaseInv, exchange
  <2>6. AssemblyInv(hist)'
    BY <2>1, <1>1 DEF AssemblyInv
  <2> QED
    BY <2>1, <2>3, <2>4, <2>5, <2>6, <1>1, <1>3, ConsumerStep DEF IInv, SnapshotInv
<1>10. CASE Buffered # {} => low > n
  <2>1. /\ snap_channel' = <<>>
        /\ snapshot_armed' = FALSE /\ in_snapshot' = FALSE /\ in_recovery' = FALSE
        /\ mdc_pc' = Caller
        /\ UNCHANGED <<downstream, out_of_order_buf, next_exp_inc_seq_num>>
    BY <1>6, <1>10, <1>7, Zenon
  <2>2. Caller \in {"poll", "parsing"}
    BY DEF Caller
  <2>3. InSync'
    BY <2>1, <1>1 DEF IInv, InSync, exchange
  <2>4. BufferInv'
    <3>1. Buffered' = Buffered /\ \A m \in Buffered' : IsUpdate(m, out_of_order_buf[m])'
      BY <2>1, BufferStays
    <3>2. \A m \in Buffered : m > n
      BY <1>2, <1>4, <1>5, <1>10
    <3> QED
      BY <3>1, <3>2, <2>1, <2>2 DEF BufferInv, BufferAhead
  <2>5. PhaseInv'
    BY <2>1, <2>2, <1>1 DEF IInv, PhaseInv, exchange
  <2>6. AssemblyInv(hist)'
    BY <2>1 DEF AssemblyInv
  <2>7. snap_channel' \in Seq(SnapFrames(hist))
    BY <2>1
  <2> QED
    BY <2>3, <2>4, <2>5, <2>6, <2>7, <1>1, <1>3, ConsumerStep DEF IInv, SnapshotInv
<1> QED
  BY <1>2, <1>4, <1>5, <1>8, <1>9, <1>10

(* A snapshot datagram that arrives, and the ways in for its message.      *)
LEMMA SnapshotSideKeepsIInv ==
  ASSUME IInv, UNCHANGED exchange,
         onSnapshotForTest \/ recvSnapshot \/ ParseSnapshot \/ ParseFault \/ ParseDone
  PROVE  IInv'
<1>1. PICK hist : SnapshotInv(hist)
  BY DEF IInv
<1>2. /\ snap_channel \in Seq(SnapFrames(hist))
      /\ rcv_frame \in SnapFrames(hist) \cup {NoFrame}
      /\ AssemblyInv(hist)
      /\ inc_channel \in Seq(IncFrames)
  BY <1>1 DEF SnapshotInv, IInv
<1>3. snap_channel # <<>> =>
        Head(snap_channel) \in SnapFrames(hist) /\ Tail(snap_channel) \in Seq(SnapFrames(hist))
  BY <1>2, HeadTailProperties
<1>4. CASE onSnapshotForTest
  <2>1. /\ processSnapshot(Head(snap_channel)) /\ mdc_pc = "poll" /\ snap_channel # <<>>
        /\ snap_channel' = Tail(snap_channel)
        /\ UNCHANGED <<in_recovery, out_of_order_buf, rcv_frame, inc_channel>>
    BY <1>4 DEF onSnapshotForTest, socket
  <2>2. PhaseInv' /\ BufferInv' /\ InSync' /\ AssemblyInv(hist)'
    BY <2>1, <1>1, <1>3, ProcessSnapshotKeeps
  <2> QED
    BY <2>1, <2>2, <1>1, <1>2, <1>3, ConsumerStep
<1>5. CASE ParseSnapshot
  <2> DEFINE f == IF offset = 0 THEN rcv_frame ELSE NoFrame
  <2>1. /\ processSnapshot(f) /\ mdc_pc = "parsing"
        /\ UNCHANGED <<in_recovery, out_of_order_buf, rcv_frame, inc_channel, snap_channel>>
    BY <1>5 DEF ParseSnapshot, network
  <2>2. f \in SnapFrames(hist) \cup {NoFrame}
    BY <1>2
  <2> HIDE DEF f
  <2>3. PhaseInv' /\ BufferInv' /\ InSync' /\ AssemblyInv(hist)'
    BY <2>1, <2>2, <1>1, ProcessSnapshotKeeps
  <2> QED
    BY <2>1, <2>3, <1>1, <1>2, ConsumerStep
<1>6. CASE recvSnapshot \/ ParseFault \/ ParseDone
  <2>1. /\ UNCHANGED <<next_exp_inc_seq_num, in_recovery, out_of_order_buf, snapshot_armed,
                       in_snapshot, snapshot_last_seen, downstream, inc_channel>>
        /\ mdc_pc \in {"poll", "parsing"} /\ mdc_pc' \in {"poll", "parsing", "crashed"}
        /\ snap_channel' \in Seq(SnapFrames(hist))
        /\ rcv_frame' \in SnapFrames(hist) \cup {NoFrame}
    BY <1>2, <1>3, <1>6 DEF recvSnapshot, ParseFault, ParseDone, reassembly, socket, network
  <2>2. PhaseInv'
    BY <2>1 DEF IInv, PhaseInv, exchange
  <2>3. BufferInv'
    <3>1. Buffered' = Buffered /\ \A m \in Buffered' : IsUpdate(m, out_of_order_buf[m])'
      BY <2>1, BufferStays
    <3> QED
      BY <3>1, <2>1 DEF IInv, BufferInv, BufferAhead
  <2>4. InSync'
    BY <2>1 DEF IInv, InSync, exchange
  <2>5. AssemblyInv(hist)'
    BY <2>1, <1>2, ExchangeKept DEF AssemblyInv
  <2> QED
    BY <2>1, <2>2, <2>3, <2>4, <2>5, <1>1, <1>2, ConsumerStep
<1> QED
  BY <1>4, <1>5, <1>6

----------------------------------------------------------------------------
(* The network, and the theorems.                                          *)

(* A fault of the network, or a step of nothing that is modelled.          *)
LEMMA NetworkKeepsIInv ==
  ASSUME IInv, UNCHANGED <<exchange, consumer>>,
         \/ inc_channel' = inc_channel
         \/ inc_channel # <<>> /\ inc_channel' \in Disturbed(inc_channel),
         \/ snap_channel' = snap_channel
         \/ snap_channel # <<>> /\ snap_channel' \in Disturbed(snap_channel)
  PROVE  IInv'
<1>1. PICK hist : SnapshotInv(hist)
  BY DEF IInv
<1>2. inc_channel' \in Seq(IncFrames) /\ snap_channel' \in Seq(SnapFrames(hist))
  BY <1>1, DisturbedStays DEF IInv, SnapshotInv
<1>3. PhaseInv' /\ BufferInv'
  <2>1. \A n \in Buffered : IsUpdate(n, out_of_order_buf[n])'
    BY BufferStays DEF consumer, Buffered
  <2>2. next_snap_seq_num' \in Nat \ {0} /\ snap_cursor' \in Nat
    BY DEF IInv, PhaseInv, exchange
  <2> QED
    BY <2>1, <2>2, ConsumerKept
<1>4. InSync'
  BY DEF IInv, InSync, exchange, consumer
<1>5. AssemblyInv(hist)'
  BY <1>1, ExchangeKept DEF SnapshotInv, AssemblyInv, consumer
<1>6. rcv_frame' \in SnapFrames(hist) \cup {NoFrame}
  BY <1>1 DEF SnapshotInv, consumer
<1> QED
  BY <1>1, <1>2, <1>3, <1>4, <1>5, <1>6, ConsumerStep

(* The invariant is inductive.                                             *)
LEMMA NextKeepsIInv ==
  ASSUME IInv, [Next]_vars
  PROVE  IInv'
<1>1. CASE ExchangeNext
  BY <1>1, PollKeepsIInv, SynthesizeKeepsIInv, DueKeepsIInv, PublishKeepsIInv DEF ExchangeNext
<1>2. CASE ConsumerNext
  BY <1>2, RecvIncrementalKeepsIInv, DrainKeepsIInv, FinishKeepsIInv, SnapshotSideKeepsIInv
     DEF ConsumerNext
<1>3. CASE Fault /\ UNCHANGED <<exchange, consumer>>
  BY <1>3, NetworkKeepsIInv DEF Fault
<1>4. CASE UNCHANGED vars
  BY <1>4, NetworkKeepsIInv DEF vars, network
<1> QED
  BY <1>1, <1>2, <1>3, <1>4 DEF Next

(* Out of recovery, and from the moment an image is complete, the client's *)
(* book is the engine's as of the last update before the one that          *)
(* MarketDataConsumer expects, whatever the network does to datagrams.     *)
THEOREM ClientBookInSync == Spec => []InSync
<1>1. Init => IInv
  BY InitIInv
<1>2. IInv /\ [Next]_vars => IInv'
  BY NextKeepsIInv
<1>3. IInv => InSync
  BY DEF IInv
<1> QED
  BY <1>1, <1>2, <1>3, PTL DEF Spec

(* The book of SnapshotSynthesizer is the engine's as of the number that   *)
(* SNAPSHOT_END announces.                                                 *)
THEOREM SynthesizerInSync == Spec => []ImageInSync
<1>1. Init => IInv
  BY InitIInv
<1>2. IInv /\ [Next]_vars => IInv'
  BY NextKeepsIInv
<1>3. IInv => ImageInSync
  BY DEF IInv
<1> QED
  BY <1>1, <1>2, <1>3, PTL DEF Spec

(* Out of recovery nothing in out_of_order_buf_ is behind the update that  *)
(* is expected: nothing is published twice and nothing stays for ever.     *)
THEOREM BufferedUpdatesAhead == Spec => []BufferAhead
<1>1. Init => IInv
  BY InitIInv
<1>2. IInv /\ [Next]_vars => IInv'
  BY NextKeepsIInv
<1>3. IInv => BufferAhead
  BY DEF IInv, BufferInv
<1> QED
  BY <1>1, <1>2, <1>3, PTL DEF Spec

=============================================================================
