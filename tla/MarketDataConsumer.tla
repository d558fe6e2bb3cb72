------------------------- MODULE MarketDataConsumer -------------------------
(***************************************************************************)
(* The client's side of market data: gap detection and recovery            *)
(* (trading/market_data/market_data_consumer.cpp).                         *)
(*                                                                         *)
(* One thread runs all of it.  A handler is cut where it publishes more    *)
(* than one update downstream: each pass of a loop over out_of_order_buf_  *)
(* is a step.  The book downstream is what the updates published so far    *)
(* amount to (MarketOrderBook::onMarketUpdate).                            *)
(*                                                                         *)
(* Snapshot frames come through the socket, parsed by recvSnapshot, or are *)
(* handed to processSnapshot by the test hook onSnapshotForTest.  Indices  *)
(* into the receive buffer are counted in frames; a datagram is one frame. *)
(*                                                                         *)
(* A name of the form Operator_Fault is a faulty variant of the operator   *)
(* that follows it; no specification uses one.                             *)
(***************************************************************************)
EXTENDS MarketUpdate

CONSTANTS
    Entries,         \* the ways in for snapshot frames, of {"socket", "hook"}
    BufferFrames,    \* McastBufferSize
    SizeT            \* the modulus of size_t

ASSUME ConsumerAssumption ==
    /\ Entries \subseteq {"socket", "hook"}
    /\ BufferFrames \in Nat \ {0} /\ SizeT \in Nat /\ SizeT > BufferFrames

VARIABLES
    next_exp_inc_seq_num, in_recovery, out_of_order_buf,
    snapshot_armed, in_snapshot, snapshot_last_seen,
    downstream,             \* the book that the published updates amount to
    rcv_frame,              \* the first frame of the snapshot socket's buffer
    next_rcv_valid_index,   \* frames received into that buffer
    offset,                 \* frames of it that recvSnapshot has parsed
    entry,                  \* the way in for snapshot frames
    mdc_pc                  \* where the thread is

consumer == <<next_exp_inc_seq_num, in_recovery, out_of_order_buf, snapshot_armed,
              in_snapshot, snapshot_last_seen, downstream, rcv_frame,
              next_rcv_valid_index, offset, entry, mdc_pc>>
reassembly == <<snapshot_armed, in_snapshot, snapshot_last_seen>>
socket == <<rcv_frame, next_rcv_valid_index, offset, entry>>

NoFrame == Frame(0, Update("TRADE", 0, 0))

ConsumerInit ==
    /\ next_exp_inc_seq_num = 1 /\ in_recovery = FALSE
    /\ out_of_order_buf = EmptyBook
    /\ snapshot_armed = FALSE /\ in_snapshot = FALSE /\ snapshot_last_seen = 0
    /\ downstream = EmptyBook
    /\ rcv_frame = NoFrame /\ next_rcv_valid_index = 0 /\ offset = 0
    /\ entry \in Entries
    /\ mdc_pc = "poll"

Buffered == DOMAIN out_of_order_buf
Buffer(f) == WithOrder(out_of_order_buf, f.seq, f.update)
publishDownstream(u) == downstream' = onMarketUpdate(downstream, u)

----------------------------------------------------------------------------
(* Incrementals.                                                           *)

\* The new socket does not join the group.
startRecovery_NotListening ==
    /\ in_recovery' = TRUE
    /\ snapshot_armed' = FALSE /\ in_snapshot' = FALSE /\ snapshot_last_seen' = 0
    /\ snap_channel' = <<>> /\ next_rcv_valid_index' = 0
    /\ UNCHANGED snap_joined
\* A fresh snapshot socket, with nothing in it.
startRecovery ==
    /\ in_recovery' = TRUE
    /\ snapshot_armed' = FALSE /\ in_snapshot' = FALSE /\ snapshot_last_seen' = 0
    /\ snap_joined' = TRUE /\ snap_channel' = <<>>
    /\ next_rcv_valid_index' = 0

processIncremental(f) ==
    \/ /\ in_recovery
       /\ out_of_order_buf' = Buffer(f)
       /\ UNCHANGED <<in_recovery, next_exp_inc_seq_num, downstream, reassembly,
                      next_rcv_valid_index, snap_joined, snap_channel, mdc_pc>>
    \/ /\ ~in_recovery /\ f.seq = next_exp_inc_seq_num
       /\ publishDownstream(f.update)
       /\ next_exp_inc_seq_num' = next_exp_inc_seq_num + 1
       /\ mdc_pc' = "draining"
       /\ UNCHANGED <<in_recovery, out_of_order_buf, reassembly,
                      next_rcv_valid_index, snap_joined, snap_channel>>
    \/ /\ ~in_recovery /\ f.seq < next_exp_inc_seq_num
       /\ UNCHANGED <<in_recovery, next_exp_inc_seq_num, out_of_order_buf, downstream,
                      reassembly, next_rcv_valid_index, snap_joined, snap_channel, mdc_pc>>
    \/ /\ ~in_recovery /\ f.seq > next_exp_inc_seq_num
       /\ out_of_order_buf' = Buffer(f)
       /\ startRecovery
       /\ UNCHANGED <<next_exp_inc_seq_num, downstream, mdc_pc>>

recvIncremental ==
    /\ mdc_pc = "poll" /\ inc_channel # <<>>
    /\ inc_channel' = Tail(inc_channel)
    /\ processIncremental(Head(inc_channel))
    /\ UNCHANGED <<rcv_frame, offset, entry, faults>>

\* The first buffered update is the one expected: publish it and go on.
PublishBuffered ==
    /\ publishDownstream(out_of_order_buf[next_exp_inc_seq_num])
    /\ out_of_order_buf' = WithoutOrder(out_of_order_buf, next_exp_inc_seq_num)
    /\ next_exp_inc_seq_num' = next_exp_inc_seq_num + 1

\* The loop that follows an update that was expected.
DrainBuffer_Skipped ==
    /\ mdc_pc = "draining"
    /\ mdc_pc' = "poll"
    /\ UNCHANGED <<downstream, out_of_order_buf, next_exp_inc_seq_num,
                   in_recovery, reassembly, socket, network>>
DrainBuffer ==
    /\ mdc_pc = "draining"
    /\ \/ /\ Buffered # {} /\ Min(Buffered) = next_exp_inc_seq_num
          /\ PublishBuffered
          /\ UNCHANGED mdc_pc
       \/ /\ ~(Buffered # {} /\ Min(Buffered) = next_exp_inc_seq_num)
          /\ mdc_pc' = "poll"
          /\ UNCHANGED <<downstream, out_of_order_buf, next_exp_inc_seq_num>>
    /\ UNCHANGED <<in_recovery, reassembly, socket, network>>

----------------------------------------------------------------------------
(* Snapshots.                                                              *)

Contiguous_Unchecked(f) == TRUE
Contiguous(f) == f.seq = snapshot_last_seen + 1
\* Where the thread goes on after processSnapshot.
Caller == IF entry = "socket" THEN "parsing" ELSE "poll"

processSnapshot(f) ==
    \/ /\ ~in_recovery
       /\ UNCHANGED <<reassembly, downstream, next_exp_inc_seq_num>> /\ mdc_pc' = Caller
    \/ /\ in_recovery /\ f.update.type = "CLEAR"
       /\ in_snapshot' = FALSE /\ snapshot_armed' = TRUE /\ snapshot_last_seen' = f.seq
       /\ publishDownstream(f.update)
       /\ UNCHANGED next_exp_inc_seq_num /\ mdc_pc' = Caller
    \/ /\ in_recovery /\ f.update.type = "SNAPSHOT_START"
       /\ in_snapshot' = (snapshot_armed /\ Contiguous(f))
       /\ snapshot_last_seen' = IF in_snapshot' THEN f.seq ELSE snapshot_last_seen
       /\ snapshot_armed' = FALSE
       /\ UNCHANGED <<downstream, next_exp_inc_seq_num>> /\ mdc_pc' = Caller
    \/ /\ in_recovery /\ f.update.type = "ADD"
       /\ in_snapshot' = (in_snapshot /\ Contiguous(f))
       /\ IF in_snapshot' THEN publishDownstream(f.update) /\ snapshot_last_seen' = f.seq
                          ELSE UNCHANGED <<downstream, snapshot_last_seen>>
       /\ UNCHANGED <<snapshot_armed, next_exp_inc_seq_num>> /\ mdc_pc' = Caller
    \/ /\ in_recovery /\ f.update.type = "SNAPSHOT_END"
       /\ in_snapshot' = (in_snapshot /\ Contiguous(f))
       /\ IF in_snapshot'
          THEN \* finishRecovery: expect what follows the image.
               /\ snapshot_last_seen' = f.seq
               /\ next_exp_inc_seq_num' = f.update.order + 1
               /\ mdc_pc' = "replaying"
          ELSE /\ UNCHANGED <<snapshot_last_seen, next_exp_inc_seq_num>>
               /\ mdc_pc' = Caller
       /\ UNCHANGED <<snapshot_armed, downstream>>

\* The loop of finishRecovery, and what follows it: destroy() empties the
\* socket and its receive buffer.
finishRecovery ==
    /\ mdc_pc = "replaying"
    /\ \/ /\ Buffered # {} /\ Min(Buffered) < next_exp_inc_seq_num
          /\ out_of_order_buf' = WithoutOrder(out_of_order_buf, Min(Buffered))
          /\ UNCHANGED <<downstream, next_exp_inc_seq_num, in_recovery, snapshot_armed,
                         in_snapshot, next_rcv_valid_index, snap_joined, snap_channel, mdc_pc>>
       \/ /\ Buffered # {} /\ Min(Buffered) = next_exp_inc_seq_num
          /\ PublishBuffered
          /\ UNCHANGED <<in_recovery, snapshot_armed, in_snapshot, next_rcv_valid_index,
                         snap_joined, snap_channel, mdc_pc>>
       \/ /\ Buffered # {} => Min(Buffered) > next_exp_inc_seq_num
          /\ snap_joined' = FALSE /\ snap_channel' = <<>> /\ next_rcv_valid_index' = 0
          /\ snapshot_armed' = FALSE /\ in_snapshot' = FALSE /\ in_recovery' = FALSE
          /\ mdc_pc' = Caller
          /\ UNCHANGED <<downstream, out_of_order_buf, next_exp_inc_seq_num>>
    /\ UNCHANGED <<snapshot_last_seen, rcv_frame, offset, entry, inc_channel, faults>>

\* The test hook: a frame goes to processSnapshot without a socket.
onSnapshotForTest ==
    /\ entry = "hook"
    /\ mdc_pc = "poll" /\ in_recovery /\ snap_channel # <<>>
    /\ snap_channel' = Tail(snap_channel)
    /\ processSnapshot(Head(snap_channel))
    /\ UNCHANGED <<in_recovery, out_of_order_buf, socket, inc_channel, snap_joined, faults>>

\* McastSocket::sendAndRecv: a datagram is appended to the receive buffer
\* and the callback, recvSnapshot, begins.
recvSnapshot ==
    /\ entry = "socket"
    /\ mdc_pc = "poll" /\ in_recovery /\ snap_channel # <<>>
    /\ snap_channel' = Tail(snap_channel)
    /\ rcv_frame' = Head(snap_channel)
    /\ next_rcv_valid_index' = next_rcv_valid_index + 1
    /\ offset' = 0
    /\ mdc_pc' = "parsing"
    /\ UNCHANGED <<next_exp_inc_seq_num, in_recovery, out_of_order_buf, reassembly,
                   downstream, entry, inc_channel, snap_joined, faults>>

\* The loop condition of recvSnapshot, in size_t.
FramesLeft == (next_rcv_valid_index - offset) % SizeT

\* What lies beyond the first frame of the buffer was never received.
ParseSnapshot ==
    /\ mdc_pc = "parsing" /\ FramesLeft >= 1 /\ offset < BufferFrames
    /\ offset' = offset + 1
    /\ processSnapshot(IF offset = 0 THEN rcv_frame ELSE NoFrame)
    /\ UNCHANGED <<in_recovery, out_of_order_buf, rcv_frame, next_rcv_valid_index, entry, network>>

\* A read beyond the buffer ends the process.
ParseFault ==
    /\ mdc_pc = "parsing" /\ FramesLeft >= 1 /\ offset >= BufferFrames
    /\ mdc_pc' = "crashed"
    /\ UNCHANGED <<next_exp_inc_seq_num, in_recovery, out_of_order_buf, reassembly,
                   downstream, socket, network>>

ParseDone ==
    /\ mdc_pc = "parsing" /\ FramesLeft = 0
    /\ next_rcv_valid_index' = next_rcv_valid_index - offset
    /\ offset' = 0 /\ rcv_frame' = NoFrame
    /\ mdc_pc' = "poll"
    /\ UNCHANGED <<next_exp_inc_seq_num, in_recovery, out_of_order_buf, reassembly,
                   downstream, entry, network>>

=============================================================================
