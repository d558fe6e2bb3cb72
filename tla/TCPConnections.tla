--------------------------- MODULE TCPConnections ---------------------------
(***************************************************************************)
(* The TCP connections between the gateways and the order server           *)
(* (include/tcp_socket.h, src/tcp_socket.cpp).                             *)
(*                                                                         *)
(* A connection is a number, given in the order in which the server will   *)
(* accept them; it also names the server's TCPSocket.  Bytes are grouped   *)
(* into whole messages: the part of one that has not arrived waits in the  *)
(* receive buffer, as if it had not been sent.                             *)
(***************************************************************************)
EXTENDS Integers, Sequences, FiniteSets, SequencesExt

CONSTANTS
    Clients,        \* client ids that the gateways are started with
    MaxConnections, \* bound on the connections ever made
    MaxRequests     \* bound on the requests sent on a connection

ASSUME ConnectionsAssumption ==
    MaxConnections \in Nat /\ MaxRequests \in Nat

VARIABLES
    peer,       \* the gateway's end of each connection: unused, open, fin (closed
                \* with nothing unread) or rst (reset, which epoll reports)
    backlog,    \* connections that the server has not accepted yet
    up, down,   \* messages on their way to the server and to the gateway
    clock       \* kernel time, advanced by each message that arrives

network == <<peer, backlog, up, down, clock>>

Connections == 1 .. MaxConnections
NoSocket == 0

Request(c, k, seq, time) == [client_id |-> c, conn |-> k, seq |-> seq, time |-> time]
Response(c, seq) == [client_id |-> c, seq |-> seq]

NetworkInit ==
    /\ peer = [k \in Connections |-> "unused"]
    /\ backlog = <<>>
    /\ up = [k \in Connections |-> <<>>]
    /\ down = [k \in Connections |-> <<>>]
    /\ clock = 0

=============================================================================
