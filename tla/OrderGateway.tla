---------------------------- MODULE OrderGateway ----------------------------
(***************************************************************************)
(* The clients' ends of the order sessions                                 *)
(* (trading/order_gw/order_gateway.{h,cpp}), one gateway for each client.  *)
(* A gateway connects once, when it is constructed; it does not look at    *)
(* the disconnection flags of its socket.  A client that goes away and     *)
(* comes back is a new process, with a new gateway.                        *)
(***************************************************************************)
EXTENDS TCPConnections

CONSTANTS
    MaxRestarts     \* bound on the restarts of clients

ASSUME RestartsAssumption == MaxRestarts \in Nat

VARIABLES
    tcp_socket,                 \* the gateway's connection, NoSocket before and after
    next_outgoing_seq_num,
    next_exp_incoming_seq_num,
    restarts

gateway == <<tcp_socket, next_outgoing_seq_num, next_exp_incoming_seq_num, restarts>>

GatewayInit ==
    /\ tcp_socket = [c \in Clients |-> NoSocket]
    /\ next_outgoing_seq_num = [c \in Clients |-> 1]
    /\ next_exp_incoming_seq_num = [c \in Clients |-> 1]
    /\ restarts = 0

Unused == { k \in Connections : peer[k] = "unused" }

\* The constructor: connect, with both sequence numbers at one.
Connect(c) ==
    /\ tcp_socket[c] = NoSocket /\ Unused # {}
    /\ LET k == Min(Unused)
       IN  /\ tcp_socket' = [tcp_socket EXCEPT ![c] = k]
           /\ peer' = [peer EXCEPT ![k] = "open"]
           /\ backlog' = Append(backlog, k)
    /\ next_outgoing_seq_num' = [next_outgoing_seq_num EXCEPT ![c] = 1]
    /\ next_exp_incoming_seq_num' = [next_exp_incoming_seq_num EXCEPT ![c] = 1]
    /\ UNCHANGED <<up, down, clock, restarts>>

\* The process ends: what it has sent still arrives, what it has not read
\* is lost.
Close(c, how) ==
    /\ tcp_socket[c] # NoSocket
    /\ restarts < MaxRestarts /\ restarts' = restarts + 1
    /\ peer' = [peer EXCEPT ![tcp_socket[c]] = how]
    /\ down' = [down EXCEPT ![tcp_socket[c]] = <<>>]
    /\ tcp_socket' = [tcp_socket EXCEPT ![c] = NoSocket]
    /\ UNCHANGED <<backlog, up, clock, next_outgoing_seq_num, next_exp_incoming_seq_num>>

\* A request of the strategy, NEW or CANCEL: a gateway is given no other.
sendRequest(c) ==
    /\ tcp_socket[c] # NoSocket
    /\ next_outgoing_seq_num[c] <= MaxRequests
    /\ clock' = clock + 1
    /\ up' = [up EXCEPT ![tcp_socket[c]] =
                Append(@, Request(c, tcp_socket[c], next_outgoing_seq_num[c], clock'))]
    /\ next_outgoing_seq_num' = [next_outgoing_seq_num EXCEPT ![c] = @ + 1]
    /\ UNCHANGED <<peer, backlog, down, tcp_socket, next_exp_incoming_seq_num, restarts>>

\* recvCallback, one message: published to the strategy, or dropped.
processResponse(c) ==
    /\ tcp_socket[c] # NoSocket /\ down[tcp_socket[c]] # <<>>
    /\ LET msg == Head(down[tcp_socket[c]])
       IN  next_exp_incoming_seq_num' =
             IF msg.client_id = c /\ msg.seq = next_exp_incoming_seq_num[c]
             THEN [next_exp_incoming_seq_num EXCEPT ![c] = @ + 1]
             ELSE next_exp_incoming_seq_num
    /\ down' = [down EXCEPT ![tcp_socket[c]] = Tail(@)]
    /\ UNCHANGED <<peer, backlog, up, clock, tcp_socket, next_outgoing_seq_num, restarts>>

=============================================================================
