---------------------------- MODULE OrderSession ----------------------------
(***************************************************************************)
(* Order sessions: the gateways, their TCP connections and the order       *)
(* server.                                                                 *)
(***************************************************************************)
EXTENDS OrderGateway, OrderServer

vars == <<network, gateway, server>>

Init == NetworkInit /\ GatewayInit /\ ServerInit

GatewayNext ==
    /\ \E c \in Clients :
          \/ Connect(c)
          \/ \E how \in {"fin", "rst"} : Close(c, how)
          \/ sendRequest(c)
          \/ processResponse(c)
    /\ UNCHANGED server

\* The order server's thread.
ServerNext ==
    /\ \/ Reap \/ Accept
       \/ RecvData \/ RecvNothing
       \/ ParseRequest \/ ParseDone
       \/ recvFinishedCallback
       \/ SendResponse \/ ResponsesDone
    /\ UNCHANGED gateway

EngineNext == (\E c \in ClientIds : sendClientResponse(c)) /\ UNCHANGED gateway

Next == GatewayNext \/ ServerNext \/ EngineNext

Spec == Init /\ [][Next]_vars

\* The order server's thread never stops; clients need not do anything.
FairSpec == Spec /\ WF_vars(ServerNext)

----------------------------------------------------------------------------
(* Properties.                                                             *)

(* "Ensures fairness across TCP connections": a request that reached the   *)
(* server before another one is handed to the engine after it only if it   *)
(* came when the other's round had begun, or if both were read in one      *)
(* round and a request of its own connection came after the other one: the *)
(* time of a read is that of its last message.  Without the kernel's time  *)
(* stamps the requests of one round come in any order.                     *)
ArrivalOrder ==
    \A i, j \in 1 .. Len(published) :
        i < j /\ published[j].time < published[i].time =>
            \/ published[j].time > rounds[i]
            \/ /\ rounds[j] = rounds[i]
               /\ KernelTime =>
                     \E m \in 1 .. Len(published) : /\ published[m].conn = published[j].conn
                                                    /\ published[m].time > published[i].time

(* The server sends to no socket that has been freed: whatever is          *)
(* registered is still among its sockets (TCPServer::poll frees a socket   *)
(* after it has called disconnect_callback).                               *)
NoDanglingSocket ==
    \A c \in ClientIds :
        cid_tcp_socket[c] # NoSocket => cid_tcp_socket[c] \in Range(rcv_sockets)

(* The engine is handed the requests of a connection in the order in which *)
(* they were sent, from the first one on, none twice and none left out in  *)
(* between: neither restarts nor the sort of the sequencer mix them up.    *)
RequestsInOrder ==
    \A j \in 1 .. Len(published) :
        { published[i].seq : i \in { m \in 1 .. j - 1 : published[m].conn = published[j].conn } }
          = 1 .. published[j].seq - 1

(* No response is dropped by a gateway's sequence check, restarts or not:  *)
(* what is on its way to a gateway is what the gateway expects.            *)
ResponsesInOrder ==
    \A c \in Clients :
        LET k == tcp_socket[c]
            coming == down[k] \o send_buffer[k]
        IN  k # NoSocket =>
              \A i \in 1 .. Len(coming) :
                 coming[i] = Response(c, next_exp_incoming_seq_num[c] + i - 1)

(* A dead connection does not hold its client's session for ever: the end  *)
(* of the stream or a reset is noticed, and disconnect_callback is called. *)
SessionsEnd ==
    \A k \in Connections :
        k \in Range(cid_tcp_socket) /\ peer[k] # "open"
          ~> k \notin Range(cid_tcp_socket) \/ server_pc = "exited"

InFlight(c, k) == { i \in 1 .. Len(up[k]) : up[k][i].client_id = c }
Handed(k, seq) == \E i \in 1 .. Len(published) : published[i].conn = k /\ published[i].seq = seq

\* The first seq requests of c wait on its connection k, and nothing else
\* of c is registered or on its way.
WaitsAlone(c, k, seq) ==
    /\ tcp_socket[c] = k /\ cid_tcp_socket[c] = NoSocket
    /\ Len(up[k]) >= seq /\ up[k][1].seq = 1
    /\ \A other \in Connections \ {k} : InFlight(c, other) = {}
    /\ \A i \in 1 .. Len(rcv_buffer) : rcv_buffer[i].client_id # c

(* A client whose earlier session the server has done with is served from  *)
(* its first request on: disconnect_callback leaves nothing behind that    *)
(* the new session would trip over.                                        *)
FreshSessionServed ==
    \A k \in Connections, seq \in 1 .. MaxRequests :
        (\E c \in ClientIds : WaitsAlone(c, k, seq))
          ~> Handed(k, seq) \/ server_pc = "exited"

(* "The client can reconnect with a fresh session": a request sent on a    *)
(* connection that stays open is handed to the engine.                     *)
RequestsServed ==
    \A c \in ClientIds, k \in Connections, seq \in 1 .. MaxRequests :
        tcp_socket[c] = k /\ next_outgoing_seq_num[c] > seq
          ~> tcp_socket[c] # k \/ Handed(k, seq) \/ server_pc = "exited"

=============================================================================
