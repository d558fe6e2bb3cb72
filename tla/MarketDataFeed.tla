--------------------------- MODULE MarketDataFeed ---------------------------
(***************************************************************************)
(* Market data from the engine to the client's book: publisher,            *)
(* synthesizer, an unreliable network and one consumer.                    *)
(***************************************************************************)
EXTENDS ExchangeMarketData, MarketDataConsumer

vars == <<network, exchange, consumer>>

Init == NetworkInit /\ ExchangeInit /\ ConsumerInit

ExchangeNext ==
    /\ \/ \E u \in EngineUpdates : poll(u)
       \/ SynthesizeUpdate
       \/ SnapshotIsDue
       \/ publishSnapshot
    /\ UNCHANGED consumer

ConsumerNext ==
    /\ \/ recvIncremental \/ DrainBuffer
       \/ recvSnapshot \/ ParseSnapshot \/ ParseFault \/ ParseDone
       \/ onSnapshotForTest
       \/ finishRecovery
    /\ UNCHANGED exchange

Next ==
    \/ ExchangeNext
    \/ ConsumerNext
    \/ Fault /\ UNCHANGED <<exchange, consumer>>

Spec == Init /\ [][Next]_vars

\* The threads poll for ever and snapshots keep coming.  The engine need
\* not send anything more, and the network need not fail.
FairSpec ==
    /\ Spec
    /\ WF_vars((SynthesizeUpdate \/ publishSnapshot) /\ UNCHANGED consumer)
    /\ WF_vars(SnapshotIsDue /\ UNCHANGED consumer)
    /\ WF_vars(ConsumerNext)

----------------------------------------------------------------------------
(* Properties.                                                             *)

(* Out of recovery, and from the moment an image is complete, the client's *)
(* book is the engine's as of the last update before the one expected:     *)
(* lost, doubled and overtaken datagrams, aborted snapshots and images     *)
(* older than the book never leave a wrong book behind.                    *)
InSync ==
    ~in_recovery \/ mdc_pc = "replaying" =>
        /\ next_exp_inc_seq_num - 1 \in DOMAIN book_at
        /\ downstream = Visible(book_at[next_exp_inc_seq_num - 1])

(* The synthesizer's book is the engine's as of last_inc_seq_num_, the     *)
(* number that SNAPSHOT_END announces.                                     *)
ImageInSync ==
    snap_phase # "exited" =>
        /\ last_inc_seq_num \in DOMAIN book_at
        /\ ticker_orders = Visible(book_at[last_inc_seq_num])

(* Out of recovery every buffered update is ahead of the one expected: an  *)
(* update is neither published twice nor forgotten in the buffer, where it *)
(* would stop the draining for ever.                                       *)
BufferAhead ==
    ~in_recovery /\ mdc_pc # "draining" => \A n \in Buffered : n > next_exp_inc_seq_num

(* A recovery ends, unless the exchange does: an aborted cycle is made up  *)
(* for by the next one.                                                    *)
RecoveryEnds == in_recovery ~> (~in_recovery \/ snap_phase = "exited")

(* "Drain complete MDPMarketUpdate frames": the snapshot callback parses   *)
(* what was received and nothing else.                                     *)
ParsesWhatItReceived == mdc_pc = "parsing" => offset <= next_rcv_valid_index

=============================================================================
