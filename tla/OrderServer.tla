---------------------------- MODULE OrderServer ----------------------------
(***************************************************************************)
(* The exchange's end of the order sessions: OrderServer::run with the     *)
(* TCPServer it polls and the FIFOSequencer it fills                       *)
(* (Exchange/order_server/, src/tcp_server.cpp, src/tcp_socket.cpp).       *)
(*                                                                         *)
(* One thread goes round: reap and accept (TCPServer::poll), read and      *)
(* flush every socket in turn (sendAndRecv), publish what was read to the  *)
(* engine, send the engine's responses.  The gateways act between any two  *)
(* of its system calls.                                                    *)
(*                                                                         *)
(* A name of the form Operator_Fault is a faulty variant of the operator   *)
(* that follows it; no specification uses one.                             *)
(***************************************************************************)
EXTENDS TCPConnections

CONSTANTS
    ClientIds,      \* the clients whose id is below ME_MAX_NUM_CLIENTS
    KernelTime,     \* whether every read comes with the kernel's time stamp
    MaxPending,     \* ME_MAX_PENDING_REQUESTS
    MaxResponses    \* bound on the responses of the engine

ASSUME ServerAssumption ==
    ClientIds \subseteq Clients /\ KernelTime \in BOOLEAN /\ MaxPending \in Nat /\ MaxResponses \in Nat

VARIABLES
    rcv_sockets, disconnected_sockets,
    send_buffer,                \* of each socket
    cid_tcp_socket, cid_next_exp_seq_num, cid_next_outgoing_seq_num,
    pending_client_requests,    \* the sequencer's
    published,                  \* what the engine has been handed, in order
    responses, num_responses,   \* the engine's queue, and how many it has sent
    server_pc,                  \* where the thread is
    cursor,                     \* the socket of rcv_sockets that it has come to
    rcv_buffer,                 \* what it has read from that socket and not parsed
    rx_time,
    recv,                       \* something was read in this round
    round_start, rounds         \* history: the time at which this round began, and those
                                \* at which the rounds began in which published was read

server == <<rcv_sockets, disconnected_sockets, send_buffer, cid_tcp_socket,
            cid_next_exp_seq_num, cid_next_outgoing_seq_num, pending_client_requests,
            published, responses, num_responses, server_pc, cursor, rcv_buffer, rx_time, recv,
            round_start, rounds>>
sessions == <<cid_tcp_socket, cid_next_exp_seq_num, cid_next_outgoing_seq_num>>
engine == <<published, rounds, responses, num_responses>>
reading == <<cursor, rcv_buffer, rx_time, recv, round_start>>

ServerInit ==
    /\ rcv_sockets = <<>> /\ disconnected_sockets = {}
    /\ send_buffer = [k \in Connections |-> <<>>]
    /\ cid_tcp_socket = [c \in ClientIds |-> NoSocket]
    /\ cid_next_exp_seq_num = [c \in ClientIds |-> 1]
    /\ cid_next_outgoing_seq_num = [c \in ClientIds |-> 1]
    /\ pending_client_requests = <<>>
    /\ published = <<>> /\ responses = <<>> /\ num_responses = 0
    /\ server_pc = "reap"
    /\ cursor = 1 /\ rcv_buffer = <<>> /\ rx_time = 0 /\ recv = FALSE
    /\ round_start = 0 /\ rounds = <<>>

----------------------------------------------------------------------------
(* TCPServer::poll                                                         *)

\* Only the registration is dropped.
disconnect_callback_KeepsSeqNums(gone) ==
    /\ cid_tcp_socket' = [c \in ClientIds |->
          IF cid_tcp_socket[c] \in gone THEN NoSocket ELSE cid_tcp_socket[c]]
    /\ UNCHANGED <<cid_next_exp_seq_num, cid_next_outgoing_seq_num>>
\* The clients of the sockets that are about to be freed lose their session.
disconnect_callback(gone) ==
    LET lost == { c \in ClientIds : cid_tcp_socket[c] \in gone }
    IN  /\ cid_tcp_socket' = [c \in ClientIds |-> IF c \in lost THEN NoSocket ELSE cid_tcp_socket[c]]
        /\ cid_next_exp_seq_num' = [c \in ClientIds |-> IF c \in lost THEN 1 ELSE cid_next_exp_seq_num[c]]
        /\ cid_next_outgoing_seq_num' =
              [c \in ClientIds |-> IF c \in lost THEN 1 ELSE cid_next_outgoing_seq_num[c]]

\* What is left of a sequence, in its order.
Without(s, gone) ==
    LET kept[i \in 0 .. Len(s)] ==
          IF i = 0 THEN <<>>
          ELSE IF s[i] \in gone THEN kept[i - 1] ELSE Append(kept[i - 1], s[i])
    IN  kept[Len(s)]

\* The owner is not told.
Reap_Silent ==
    /\ server_pc = "reap"
    /\ rcv_sockets' = Without(rcv_sockets, disconnected_sockets)
    /\ send_buffer' = [k \in Connections |->
          IF k \in disconnected_sockets THEN <<>> ELSE send_buffer[k]]
    /\ disconnected_sockets' = {}
    /\ server_pc' = "accept"
    /\ UNCHANGED <<sessions, pending_client_requests, engine, reading, network>>
Reap ==
    /\ server_pc = "reap"
    /\ rcv_sockets' = Without(rcv_sockets, disconnected_sockets)
    /\ send_buffer' = [k \in Connections |->
          IF k \in disconnected_sockets THEN <<>> ELSE send_buffer[k]]
    /\ disconnect_callback(disconnected_sockets)
    /\ disconnected_sockets' = {}
    /\ server_pc' = "accept"
    /\ UNCHANGED <<pending_client_requests, engine, reading, network>>

\* epoll_wait reports the sockets that were reset; the backlog is accepted.
Accept ==
    /\ server_pc = "accept"
    /\ disconnected_sockets' = { k \in Range(rcv_sockets) : peer[k] = "rst" }
    /\ rcv_sockets' = rcv_sockets \o backlog /\ backlog' = <<>>
    /\ cursor' = 1 /\ recv' = FALSE
    /\ round_start' = clock
    /\ server_pc' = "recv"
    /\ UNCHANGED <<send_buffer, sessions, pending_client_requests, engine, rcv_buffer, rx_time,
                   peer, up, down, clock>>

----------------------------------------------------------------------------
(* TCPServer::sendAndRecv, for the socket at the cursor.                   *)

Socket == rcv_sockets[cursor]

\* The end of TCPSocket::sendAndRecv.  The kernel takes a part of the send
\* buffer, or all of it, and the rest is kept; to a gateway that is gone
\* everything is lost, and the call may fail or not.  A socket that was found
\* dead is reaped in the next round.
Flush(eof) ==
    /\ \/ /\ peer[Socket] = "open"
          /\ \E sent \in 0 .. Len(send_buffer[Socket]) :
                /\ down' = [down EXCEPT ![Socket] = @ \o SubSeq(send_buffer[Socket], 1, sent)]
                /\ send_buffer' = [send_buffer EXCEPT ![Socket] = SubSeq(@, sent + 1, Len(@))]
          /\ UNCHANGED disconnected_sockets
       \/ /\ peer[Socket] # "open"
          /\ \E failed \in IF send_buffer[Socket] = <<>> THEN {FALSE} ELSE BOOLEAN :
                disconnected_sockets' = disconnected_sockets \cup
                                           (IF eof \/ failed THEN {Socket} ELSE {})
          /\ send_buffer' = [send_buffer EXCEPT ![Socket] = <<>>]
          /\ UNCHANGED down
    /\ cursor' = cursor + 1
    /\ server_pc' = "recv"
    /\ UNCHANGED <<peer, backlog, clock, rcv_sockets, engine, rx_time, round_start>>

\* The time of the read is the time stamp of the last message, or without
\* one the present.
RecvData ==
    /\ server_pc = "recv" /\ cursor <= Len(rcv_sockets)
    /\ up[Socket] # <<>>
    /\ rcv_buffer' = up[Socket]
    /\ rx_time' \in {Last(up[Socket]).time} \cup (IF KernelTime THEN {} ELSE {clock})
    /\ up' = [up EXCEPT ![Socket] = <<>>]
    /\ recv' = TRUE
    /\ server_pc' = "parse"
    /\ UNCHANGED <<peer, backlog, down, clock, rcv_sockets, disconnected_sockets, send_buffer,
                   sessions, pending_client_requests, engine, cursor, round_start>>

\* The end of the stream is taken for a call that would block.
RecvNothing_IgnoresEof ==
    /\ server_pc = "recv" /\ cursor <= Len(rcv_sockets)
    /\ up[Socket] = <<>>
    /\ Flush(FALSE)
    /\ UNCHANGED <<up, sessions, pending_client_requests, rcv_buffer, recv>>
\* Nothing to read: the end of the stream, or a call that would block.
RecvNothing ==
    /\ server_pc = "recv" /\ cursor <= Len(rcv_sockets)
    /\ up[Socket] = <<>>
    /\ Flush(peer[Socket] # "open")
    /\ UNCHANGED <<up, sessions, pending_client_requests, rcv_buffer, recv>>

----------------------------------------------------------------------------
(* OrderServer::recvCallback and the sequencer.                            *)

\* The client's session is that of this socket, once it has one.
Registered(c) == IF cid_tcp_socket[c] = NoSocket THEN Socket ELSE cid_tcp_socket[c]
InSequence(msg) == msg.seq = cid_next_exp_seq_num[msg.client_id]

\* Buffered; without room the process ends.
addClientRequest(msg) ==
    IF Len(pending_client_requests) < MaxPending
    THEN /\ pending_client_requests' = Append(pending_client_requests,
               [recv_time |-> rx_time, request |-> msg,
                arrival_index |-> Len(pending_client_requests)])
         /\ UNCHANGED server_pc
    ELSE server_pc' = "exited" /\ UNCHANGED pending_client_requests

\* One message of the receive buffer.
ParseRequest ==
    /\ server_pc = "parse" /\ rcv_buffer # <<>>
    /\ rcv_buffer' = Tail(rcv_buffer)
    /\ LET msg == Head(rcv_buffer)
           c == msg.client_id
       IN  \/ \* INVALID client_id
              /\ c \notin ClientIds
              /\ UNCHANGED <<sessions, pending_client_requests, server_pc>>
           \/ \* SOCKET MISMATCH
              /\ c \in ClientIds /\ Registered(c) # Socket
              /\ UNCHANGED <<sessions, pending_client_requests, server_pc>>
           \/ \* SEQUENCE GAP
              /\ c \in ClientIds /\ Registered(c) = Socket /\ ~InSequence(msg)
              /\ cid_tcp_socket' = [cid_tcp_socket EXCEPT ![c] = Socket]
              /\ UNCHANGED <<cid_next_exp_seq_num, cid_next_outgoing_seq_num,
                             pending_client_requests, server_pc>>
           \/ /\ c \in ClientIds /\ Registered(c) = Socket /\ InSequence(msg)
              /\ cid_tcp_socket' = [cid_tcp_socket EXCEPT ![c] = Socket]
              /\ cid_next_exp_seq_num' = [cid_next_exp_seq_num EXCEPT ![c] = @ + 1]
              /\ addClientRequest(msg)
              /\ UNCHANGED cid_next_outgoing_seq_num
    /\ UNCHANGED <<rcv_sockets, disconnected_sockets, send_buffer, engine, cursor, rx_time, recv,
                   round_start, network>>

ParseDone ==
    /\ server_pc = "parse" /\ rcv_buffer = <<>>
    /\ Flush(FALSE)
    /\ UNCHANGED <<up, sessions, pending_client_requests, rcv_buffer, recv>>

\* Requests of one time come out in any order, such as the reverse.
Precedes_TimeOnly(a, b) ==
    a.recv_time < b.recv_time \/ (a.recv_time = b.recv_time /\ a.arrival_index > b.arrival_index)
\* RecvTimeClientRequest::operator<
Precedes(a, b) ==
    a.recv_time < b.recv_time \/ (a.recv_time = b.recv_time /\ a.arrival_index < b.arrival_index)

\* In the order in which the sockets were read.
sequenceAndPublish_Unsorted ==
    /\ published' = published \o [i \in 1 .. Len(pending_client_requests) |->
                                     pending_client_requests[i].request]
    /\ rounds' = rounds \o [i \in 1 .. Len(pending_client_requests) |-> round_start]
    /\ pending_client_requests' = <<>>
\* std::sort: some order of what is pending in which each precedes the later ones.
sequenceAndPublish ==
    LET places == 1 .. Len(pending_client_requests)
    IN  \E order \in Bijection(places, places) :
           /\ \A i, j \in places : i < j => Precedes(pending_client_requests[order[i]],
                                                     pending_client_requests[order[j]])
           /\ published' = published \o [i \in places |-> pending_client_requests[order[i]].request]
           /\ rounds' = rounds \o [i \in places |-> round_start]
           /\ pending_client_requests' = <<>>

recvFinishedCallback ==
    /\ server_pc = "recv" /\ cursor > Len(rcv_sockets)
    /\ IF recv THEN sequenceAndPublish ELSE UNCHANGED <<published, rounds, pending_client_requests>>
    /\ server_pc' = "respond"
    /\ UNCHANGED <<rcv_sockets, disconnected_sockets, send_buffer, sessions, responses,
                   num_responses, reading, network>>

----------------------------------------------------------------------------
(* Responses.                                                              *)

\* MatchingEngine: a response to any client that it has a request of; an
\* order may be filled long after.
sendClientResponse(c) ==
    /\ server_pc # "exited"
    /\ num_responses < MaxResponses /\ num_responses' = num_responses + 1
    /\ \E i \in 1 .. Len(published) : published[i].client_id = c
    /\ responses' = Append(responses, c)
    /\ UNCHANGED <<rcv_sockets, disconnected_sockets, send_buffer, sessions,
                   pending_client_requests, published, rounds, server_pc, reading, network>>

\* The last part of OrderServer::run: one response.
SendResponse ==
    /\ server_pc = "respond" /\ responses # <<>>
    /\ responses' = Tail(responses)
    /\ LET c == Head(responses)
           k == cid_tcp_socket[c]
       IN  IF k = NoSocket
           THEN UNCHANGED <<send_buffer, cid_next_outgoing_seq_num>>
           ELSE /\ send_buffer' = [send_buffer EXCEPT ![k] =
                                     Append(@, Response(c, cid_next_outgoing_seq_num[c]))]
                /\ cid_next_outgoing_seq_num' = [cid_next_outgoing_seq_num EXCEPT ![c] = @ + 1]
    /\ UNCHANGED <<rcv_sockets, disconnected_sockets, cid_tcp_socket, cid_next_exp_seq_num,
                   pending_client_requests, published, rounds, num_responses, server_pc, reading,
                   network>>

ResponsesDone ==
    /\ server_pc = "respond" /\ responses = <<>>
    /\ server_pc' = "reap"
    /\ UNCHANGED <<rcv_sockets, disconnected_sockets, send_buffer, sessions,
                   pending_client_requests, engine, reading, network>>

=============================================================================
