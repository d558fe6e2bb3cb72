------------------------ MODULE OrderSession_proofs ------------------------
(***************************************************************************)
(* Order sessions keep their order, for every number of clients,           *)
(* connections, requests, responses and restarts.  Requests of different   *)
(* connections reach the engine in the order of their arrival, as far as   *)
(* ArrivalOrder says: the rounds follow each other with the kernel's time  *)
(* stamps and without, the requests of one round only with them.           *)
(***************************************************************************)
EXTENDS OrderSession, SequenceTheorems, WellFoundedInduction, TLAPS

----------------------------------------------------------------------------
(* The inductive invariant.                                                *)

Messages == [client_id : Clients, conn : Connections, seq : Nat, time : Nat]
Answers == [client_id : Clients, seq : Nat]
Entries == [recv_time : Nat, request : Messages, arrival_index : Nat]
Sockets == Connections \cup {NoSocket}

TypeOK ==
    /\ peer \in [Connections -> {"unused", "open", "fin", "rst"}]
    /\ backlog \in Seq(Connections)
    /\ up \in [Connections -> Seq(Messages)]
    /\ down \in [Connections -> Seq(Answers)]
    /\ clock \in Nat
    /\ tcp_socket \in [Clients -> Sockets]
    /\ next_outgoing_seq_num \in [Clients -> Nat]
    /\ next_exp_incoming_seq_num \in [Clients -> Nat]
    /\ rcv_sockets \in Seq(Connections)
    /\ disconnected_sockets \subseteq Connections
    /\ send_buffer \in [Connections -> Seq(Answers)]
    /\ cid_tcp_socket \in [ClientIds -> Sockets]
    /\ cid_next_exp_seq_num \in [ClientIds -> Nat \ {0}]
    /\ cid_next_outgoing_seq_num \in [ClientIds -> Nat]
    /\ pending_client_requests \in Seq(Entries)
    /\ published \in Seq(Messages)
    /\ responses \in Seq(ClientIds)
    /\ server_pc \in {"reap", "accept", "recv", "parse", "respond", "exited"}
    /\ cursor \in Nat \ {0}
    /\ rcv_buffer \in Seq(Messages)
    /\ rx_time \in Nat
    /\ recv \in BOOLEAN

\* A connection is unused, waits to be accepted, or is or was a socket of
\* the server; only one whose gateway is gone is given up.
ConnectionInv ==
    /\ IsInjective(backlog) /\ IsInjective(rcv_sockets)
    /\ Range(backlog) \cap Range(rcv_sockets) = {}
    /\ \A k \in Unused :
          /\ k \notin Range(backlog) /\ k \notin Range(rcv_sockets)
          /\ up[k] = <<>> /\ down[k] = <<>> /\ send_buffer[k] = <<>>
    /\ \A k \in disconnected_sockets :
          k \in Range(rcv_sockets) /\ peer[k] \in {"fin", "rst"}
    /\ \A c \in Clients : tcp_socket[c] # NoSocket => peer[tcp_socket[c]] = "open"

\* own[k] is the client that made connection k.
OwnerInv(own) ==
    /\ own \in [Connections -> Clients \cup {NoSocket}]
    /\ \A k \in Connections : \A i \in 1 .. Len(up[k]) :
          up[k][i].conn = k /\ up[k][i].client_id = own[k]
    /\ server_pc = "parse" =>
          /\ cursor <= Len(rcv_sockets)
          /\ \A i \in 1 .. Len(rcv_buffer) :
                rcv_buffer[i].conn = Socket /\ rcv_buffer[i].client_id = own[Socket]
    /\ \A c \in Clients : tcp_socket[c] # NoSocket => own[tcp_socket[c]] = c
    /\ \A c \in ClientIds : cid_tcp_socket[c] # NoSocket => own[cid_tcp_socket[c]] = c

\* The numbers of the requests of connection k that the engine has been
\* handed, and of those among the first n that are pending.
Handled(k) == { published[i].seq : i \in { m \in 1 .. Len(published) : published[m].conn = k } }
PendingOf(k, n) ==
    { pending_client_requests[i].request.seq :
        i \in { m \in 1 .. n : pending_client_requests[m].request.conn = k } }
Accepted(k) == Handled(k) \cup PendingOf(k, Len(pending_client_requests))

\* Connections that the server may still read from for the first time.
Live == Range(rcv_sockets) \cup Range(backlog) \cup Unused

\* A client's number is that of the requests accepted from its connection,
\* and a connection without a session has had none accepted.
SessionInv ==
    /\ \A c \in ClientIds : cid_tcp_socket[c] = NoSocket =>
          cid_next_exp_seq_num[c] = 1 /\ cid_next_outgoing_seq_num[c] = 1
    /\ \A c \in ClientIds, k \in Connections : cid_tcp_socket[c] = k =>
          Accepted(k) = 1 .. cid_next_exp_seq_num[c] - 1
    /\ \A k \in Live : k \notin Range(cid_tcp_socket) => Accepted(k) = {}

\* What is pending was read in this round, a connection's requests in one
\* read.
WasRead(x) ==
    \E m \in 1 .. Len(rcv_sockets) :
        /\ rcv_sockets[m] = x.request.conn
        /\ m < cursor \/ (m = cursor /\ server_pc = "parse" /\ x.recv_time = rx_time)
PendingInv ==
    /\ \A i \in 1 .. Len(pending_client_requests) :
          /\ pending_client_requests[i].arrival_index = i - 1
          /\ WasRead(pending_client_requests[i])
    /\ \A i \in 1 .. Len(pending_client_requests) : \A k \in Connections :
          pending_client_requests[i].request.conn = k =>
            Handled(k) \cup PendingOf(k, i - 1) = 1 .. pending_client_requests[i].request.seq - 1
    /\ \A i, j \in 1 .. Len(pending_client_requests) :
          pending_client_requests[i].request.conn = pending_client_requests[j].request.conn =>
            pending_client_requests[i].recv_time = pending_client_requests[j].recv_time
    /\ server_pc = "parse" => recv
    /\ server_pc \in {"reap", "accept", "respond"} \/ ~recv => pending_client_requests = <<>>

\* The responses on their way to a gateway are the ones it expects, and the
\* server's next one follows them.
Follows(c, n, s) == \A i \in 1 .. Len(s) : s[i] = Response(c, n + i - 1)
Coming(c, k, n) ==
    /\ Follows(c, n, down[k])
    /\ Follows(c, n + Len(down[k]), send_buffer[k])
    /\ IF c \in ClientIds /\ cid_tcp_socket[c] = k
       THEN cid_next_outgoing_seq_num[c] = n + Len(down[k]) + Len(send_buffer[k])
       ELSE n = 1 /\ down[k] = <<>> /\ send_buffer[k] = <<>>
ResponseInv ==
    \A c \in Clients, k \in Connections, n \in Nat :
        tcp_socket[c] = k /\ next_exp_incoming_seq_num[c] = n => Coming(c, k, n)

IInv ==
    /\ TypeOK
    /\ ConnectionInv
    /\ NoDanglingSocket
    /\ \E own : OwnerInv(own)
    /\ server_pc # "exited" => SessionInv /\ PendingInv
    /\ RequestsInOrder
    /\ ResponseInv

----------------------------------------------------------------------------
(* Lemmas about the operators.                                             *)

(* A non-empty set of naturals has a least element.                        *)
LEMMA LeastNatural ==
  ASSUME NEW T \in SUBSET Nat, T # {}
  PROVE  \E n \in T : \A m \in T : n <= m
<1>1. PICK n \in T : \A m \in T : ~(<<m, n>> \in OpToRel(<, Nat))
  BY NatLessThanWellFounded, WFMin, Zenon
<1>2. \A m \in T : <<m, n>> \in OpToRel(<, Nat) <=> m < n
  BY DEF OpToRel
<1>3. \A m \in T : ~(m < n)
  BY <1>1, <1>2, Zenon
<1>4. \A m \in T : n <= m
  BY <1>3, SMT
<1> QED
  BY <1>4, Zenon

(* A new element joins the range, and the sequence stays without repeats.  *)
LEMMA AppendFacts ==
  ASSUME NEW S, NEW s \in Seq(S), NEW x \in S
  PROVE  /\ Append(s, x) \in Seq(S)
         /\ Range(Append(s, x)) = Range(s) \cup {x}
         /\ IsInjective(s) /\ x \notin Range(s) => IsInjective(Append(s, x))
<1> DEFINE t == Append(s, x)
<1>1. /\ t \in Seq(S) /\ Len(t) = Len(s) + 1 /\ Len(s) \in Nat
      /\ \A i \in 1 .. Len(s) : t[i] = s[i]
      /\ t[Len(s) + 1] = x
      /\ DOMAIN t = 1 .. Len(s) + 1 /\ DOMAIN s = 1 .. Len(s)
  OBVIOUS
<1> HIDE DEF t
<1>2. \A i \in 1 .. Len(s) + 1 : i \in 1 .. Len(s) \/ i = Len(s) + 1
  BY <1>1
<1>3. Range(t) = Range(s) \cup {x}
  <2>1. \A y \in Range(t) : y \in Range(s) \cup {x}
    BY <1>1, <1>2 DEF Range
  <2>2. \A y \in Range(s) \cup {x} : y \in Range(t)
    BY <1>1 DEF Range
  <2> QED
    BY <2>1, <2>2
<1>4. ASSUME IsInjective(s), x \notin Range(s) PROVE IsInjective(t)
  <2>1. \A i \in 1 .. Len(s) : s[i] # x
    BY <1>1, <1>4 DEF Range
  <2>2. \A i, j \in 1 .. Len(s) : s[i] = s[j] => i = j
    BY <1>1, <1>4 DEF IsInjective
  <2>3. \A i, j \in 1 .. Len(s) + 1 : t[i] = t[j] => i = j
    BY <1>1, <1>2, <2>1, <2>2
  <2> QED
    BY <1>1, <2>3 DEF IsInjective
<1> QED
  BY <1>1, <1>3, <1>4 DEF t

(* The recursion of Without has a solution, prefix by prefix.              *)
LEMMA WithoutRecursion ==
  ASSUME NEW S, NEW s \in Seq(S), NEW gone
  PROVE  \E f : /\ f = [i \in 0 .. Len(s) |->
                          IF i = 0 THEN <<>>
                          ELSE IF s[i] \in gone THEN f[i - 1] ELSE Append(f[i - 1], s[i])]
                /\ Without(s, gone) = f[Len(s)]
<1> DEFINE Grow(f, i) == IF s[i] \in gone THEN f[i - 1] ELSE Append(f[i - 1], s[i])
           Solves(f, n) == f = [i \in 0 .. n |-> IF i = 0 THEN <<>> ELSE Grow(f, i)]
           bad == { n \in 0 .. Len(s) : ~ \E f : Solves(f, n) }
<1>1. bad = {}
  <2> SUFFICES ASSUME bad # {} PROVE FALSE
    OBVIOUS
  <2>1. PICK n \in bad : \A m \in bad : n <= m
    <3>1. bad \in SUBSET Nat
      OBVIOUS
    <3> HIDE DEF bad
    <3> QED
      BY <3>1, LeastNatural
  <2>2. n \in 0 .. Len(s) /\ ~ \E f : Solves(f, n)
    OBVIOUS
  <2>3. n # 0
    <3>1. Solves([i \in 0 .. 0 |-> <<>>], 0)
      OBVIOUS
    <3> QED
      BY <3>1, <2>2
  <2>4. n - 1 \in 0 .. Len(s) /\ n - 1 \notin bad
    <3> HIDE DEF bad
    <3> QED
      BY <2>1, <2>2, <2>3
  <2>5. PICK f : Solves(f, n - 1)
    BY <2>4
  <2> DEFINE g == [i \in 0 .. n |-> IF i = n THEN Grow(f, n) ELSE f[i]]
  <2>6. \A i \in 0 .. n : g[i] = IF i = 0 THEN <<>> ELSE Grow(g, i)
    <3> TAKE i \in 0 .. n
    <3>1. CASE i = n
      <4>1. g[n - 1] = f[n - 1] /\ g[n] = Grow(f, n)
        BY <2>2, <2>3
      <4> QED
        BY <4>1, <3>1, <2>3
    <3>2. CASE i # n
      <4>1. g[i] = f[i] /\ i \in 0 .. n - 1
        BY <3>2, <2>2
      <4>2. f[i] = IF i = 0 THEN <<>> ELSE Grow(f, i)
        BY <4>1, <2>5
      <4>3. i # 0 => g[i - 1] = f[i - 1]
        BY <3>2, <2>2
      <4> QED
        BY <4>1, <4>2, <4>3
    <3> QED
      BY <3>1, <3>2
  <2>7. g = [i \in 0 .. n |-> g[i]]
    OBVIOUS
  <2> HIDE DEF g
  <2>8. Solves(g, n)
    BY <2>6, <2>7
  <2> QED
    BY <2>2, <2>8
<1>2. \E f : Solves(f, Len(s))
  <2>1. Len(s) \in 0 .. Len(s) /\ Len(s) \notin bad
    BY <1>1
  <2> HIDE DEF Solves
  <2> QED
    BY <2>1
<1>3. Solves(CHOOSE f : Solves(f, Len(s)), Len(s))
  BY <1>2, Zenon
<1>4. Without(s, gone) = (CHOOSE f : Solves(f, Len(s)))[Len(s)]
  BY Zenon DEF Without
<1> QED
  BY <1>3, <1>4

(* What is left after the removal: the sockets that are not gone, each as  *)
(* often as before.                                                        *)
LEMMA WithoutFacts ==
  ASSUME NEW S, NEW s \in Seq(S), NEW gone
  PROVE  /\ Without(s, gone) \in Seq(S)
         /\ Range(Without(s, gone)) = Range(s) \ gone
         /\ IsInjective(s) => IsInjective(Without(s, gone))
<1>1. PICK f : /\ f = [i \in 0 .. Len(s) |->
                         IF i = 0 THEN <<>>
                         ELSE IF s[i] \in gone THEN f[i - 1] ELSE Append(f[i - 1], s[i])]
               /\ Without(s, gone) = f[Len(s)]
  BY WithoutRecursion
<1>2. /\ f[0] = <<>>
      /\ \A i \in 1 .. Len(s) : f[i] = IF s[i] \in gone THEN f[i - 1] ELSE Append(f[i - 1], s[i])
  <2>1. \A i \in 0 .. Len(s) : f[i] = IF i = 0 THEN <<>>
                ELSE IF s[i] \in gone THEN f[i - 1] ELSE Append(f[i - 1], s[i])
    BY <1>1, Zenon
  <2> QED
    BY <2>1
<1> DEFINE Good(n) ==
             /\ f[n] \in Seq(S)
             /\ Range(f[n]) = { s[j] : j \in 1 .. n } \ gone
             /\ IsInjective(s) => IsInjective(f[n])
           bad == { n \in 0 .. Len(s) : ~Good(n) }
<1>3. bad = {}
  <2> SUFFICES ASSUME bad # {} PROVE FALSE
    OBVIOUS
  <2>1. PICK n \in bad : \A m \in bad : n <= m
    <3>1. bad \in SUBSET Nat
      OBVIOUS
    <3> HIDE DEF bad
    <3> QED
      BY <3>1, LeastNatural
  <2>2. n \in 0 .. Len(s) /\ ~Good(n)
    OBVIOUS
  <2>3. n # 0
    <3>1. f[0] \in Seq(S) /\ Range(f[0]) = {} /\ IsInjective(f[0])
      BY <1>2 DEF Range, IsInjective
    <3>2. Good(0)
      BY <3>1
    <3> QED
      BY <3>2, <2>2
  <2>4. n - 1 \in 0 .. Len(s) /\ n - 1 \notin bad
    <3> HIDE DEF bad
    <3> QED
      BY <2>1, <2>2, <2>3
  <2>5. Good(n - 1) /\ n \in 1 .. Len(s)
    BY <2>2, <2>3, <2>4
  <2>6. { s[j] : j \in 1 .. n } = { s[j] : j \in 1 .. n - 1 } \cup {s[n]}
    BY <2>5
  <2>7. CASE s[n] \in gone
    <3>1. f[n] = f[n - 1]
      BY <2>5, <2>7, <1>2
    <3>2. Range(f[n]) = { s[j] : j \in 1 .. n } \ gone
      BY <3>1, <2>5, <2>6, <2>7
    <3>3. Good(n)
      BY <3>1, <3>2, <2>5
    <3> QED
      BY <3>3, <2>2
  <2>8. CASE s[n] \notin gone
    <3> DEFINE p == f[n - 1]
    <3>0. n \in 1 .. Len(s)
      BY <2>5
    <3>1. f[n] = Append(p, s[n]) /\ s[n] \in S
      <4> HIDE DEF Good, bad
      <4>1. s[n] \in S
        BY <3>0
      <4> QED
        BY <3>0, <2>8, <1>2, <4>1
    <3>2. p \in Seq(S) /\ Range(p) = { s[j] : j \in 1 .. n - 1 } \ gone
      BY <2>5
    <3>3. IsInjective(s) => IsInjective(p)
      BY <2>5
    <3> HIDE DEF p
    <3>4. /\ f[n] \in Seq(S) /\ Len(f[n]) = Len(p) + 1
          /\ \A i \in 1 .. Len(p) + 1 : f[n][i] = IF i <= Len(p) THEN p[i] ELSE s[n]
      BY <3>1, <3>2, AppendProperties
    <3>5. Range(f[n]) = Range(p) \cup {s[n]}
      <4>1. DOMAIN f[n] = 1 .. Len(p) + 1 /\ DOMAIN p = 1 .. Len(p) /\ Len(p) \in Nat
        BY <3>2, <3>4
      <4> QED
        BY <4>1, <3>4 DEF Range
    <3>6. Range(f[n]) = { s[j] : j \in 1 .. n } \ gone
      BY <3>2, <3>5, <2>6, <2>8
    <3>7. ASSUME IsInjective(s) PROVE IsInjective(f[n])
      <4>1. s[n] \notin { s[j] : j \in 1 .. n - 1 }
        BY <3>7, <2>5 DEF IsInjective
      <4>2. s[n] \notin Range(p)
        BY <4>1, <3>2
      <4>3. \A i \in 1 .. Len(p) : p[i] # s[n]
        BY <4>2, <3>2 DEF Range
      <4>4. \A i, j \in 1 .. Len(p) : p[i] = p[j] => i = j
        BY <3>2, <3>3, <3>7 DEF IsInjective
      <4>5. DOMAIN f[n] = 1 .. Len(p) + 1 /\ Len(p) \in Nat
        BY <3>2, <3>4
      <4> QED
        BY <4>3, <4>4, <4>5, <3>4 DEF IsInjective
    <3>8. Good(n)
      BY <3>4, <3>6, <3>7
    <3> QED
      BY <3>8, <2>2
  <2> QED
    BY <2>7, <2>8
<1>4. Good(Len(s))
  <2>1. Len(s) \in 0 .. Len(s)
    BY LenProperties
  <2>2. Len(s) \in bad \/ Good(Len(s))
    <3> HIDE DEF Good
    <3> QED
      BY <2>1
  <2> HIDE DEF Good, bad
  <2> QED
    BY <1>3, <2>2
<1>5. { s[j] : j \in 1 .. Len(s) } = Range(s)
  BY DEF Range
<1> QED
  BY <1>1, <1>4, <1>5

----------------------------------------------------------------------------
(* The initial states.                                                     *)

(* The invariant holds at the start.                                       *)
LEMMA InitIInv == Init => IInv
<1> SUFFICES ASSUME Init PROVE IInv
  OBVIOUS
<1> USE DEF Init, NetworkInit, GatewayInit, ServerInit
<1>1. TypeOK
  <2>1. /\ <<>> \in Seq(Connections) /\ <<>> \in Seq(Messages) /\ <<>> \in Seq(Answers)
        /\ <<>> \in Seq(Entries) /\ <<>> \in Seq(ClientIds)
    OBVIOUS
  <2>2. NoSocket \in Sockets
    BY DEF Sockets
  <2>3. /\ peer \in [Connections -> {"unused", "open", "fin", "rst"}]
        /\ backlog \in Seq(Connections) /\ up \in [Connections -> Seq(Messages)]
        /\ down \in [Connections -> Seq(Answers)] /\ clock \in Nat
    BY <2>1
  <2>4. /\ tcp_socket \in [Clients -> Sockets] /\ next_outgoing_seq_num \in [Clients -> Nat]
        /\ next_exp_incoming_seq_num \in [Clients -> Nat]
    BY <2>2
  <2>5. /\ rcv_sockets \in Seq(Connections) /\ disconnected_sockets \subseteq Connections
        /\ send_buffer \in [Connections -> Seq(Answers)]
        /\ cid_tcp_socket \in [ClientIds -> Sockets] /\ cid_next_exp_seq_num \in [ClientIds -> Nat \ {0}]
        /\ cid_next_outgoing_seq_num \in [ClientIds -> Nat]
    BY <2>1, <2>2
  <2>6. /\ pending_client_requests \in Seq(Entries) /\ published \in Seq(Messages)
        /\ responses \in Seq(ClientIds) /\ rcv_buffer \in Seq(Messages)
    BY <2>1
  <2>7. /\ server_pc \in {"reap", "accept", "recv", "parse", "respond", "exited"}
        /\ cursor \in Nat \ {0} /\ rx_time \in Nat
    OBVIOUS
  <2>8. recv \in BOOLEAN
    BY Zenon
  <2> QED
    BY <2>3, <2>4, <2>5, <2>6, <2>7, <2>8, Zenon DEF TypeOK
<1>2. ConnectionInv
  BY DEF ConnectionInv, Unused, IsInjective, Range
<1>3. NoDanglingSocket
  BY DEF NoDanglingSocket
<1>4. OwnerInv([k \in Connections |-> NoSocket])
  BY DEF OwnerInv
<1>5. SessionInv /\ PendingInv
  <2>1. \A k \in Connections : Accepted(k) = {}
    BY DEF Accepted, Handled, PendingOf
  <2>2. Live \subseteq Connections
    BY DEF Live, Unused, Range
  <2>3. SessionInv
    BY <2>1, <2>2 DEF SessionInv
  <2>4. PendingInv
    BY DEF PendingInv
  <2> QED
    BY <2>3, <2>4
<1>6. RequestsInOrder
  BY DEF RequestsInOrder
<1>7. ResponseInv
  BY DEF ResponseInv, Connections, NoSocket
<1> QED
  BY <1>1, <1>2, <1>3, <1>4, <1>5, <1>6, <1>7 DEF IInv

----------------------------------------------------------------------------
(* Steps of the gateways.                                                  *)

\* What the order server's part of the invariant depends on.
sessionVars == <<sessions, rcv_sockets, pending_client_requests, published, server_pc, cursor,
                 rx_time, recv>>

(* The accepted requests do not change unless the queues do.               *)
LEMMA AcceptedUnchanged ==
  ASSUME UNCHANGED <<published, pending_client_requests>>
  PROVE  /\ \A k : Handled(k)' = Handled(k) /\ Accepted(k)' = Accepted(k)
         /\ \A k, n : PendingOf(k, n)' = PendingOf(k, n)
<1>1. \A k : Handled(k)' = Handled(k)
  BY DEF Handled
<1>2. \A k, n : PendingOf(k, n)' = PendingOf(k, n)
  BY DEF PendingOf
<1>3. \A k : Accepted(k)' = Accepted(k)
  BY DEF Accepted, Handled, PendingOf
<1> QED
  BY <1>1, <1>2, <1>3

(* A step of a gateway that leaves the set of live connections as it was   *)
(* leaves the sessions as they were.                                       *)
LEMMA SessionsUnchanged ==
  ASSUME SessionInv, PendingInv, UNCHANGED sessionVars, Live' = Live
  PROVE  SessionInv' /\ PendingInv'
<1>1. SessionInv'
  BY AcceptedUnchanged DEF SessionInv, sessionVars, sessions
<1>2. PendingInv'
  <2>1. UNCHANGED <<rcv_sockets, pending_client_requests, published, server_pc, cursor, rx_time, recv>>
    BY DEF sessionVars
  <2>2. \A x : WasRead(x)' <=> WasRead(x)
    BY <2>1, Zenon DEF WasRead
  <2> QED
    BY <2>1, <2>2, AcceptedUnchanged DEF PendingInv
<1> QED
  BY <1>1, <1>2

(* An unused connection is put into the backlog.                           *)
LEMMA ConnectStep ==
  ASSUME IInv, NEW c \in Clients, Connect(c), UNCHANGED server
  PROVE  IInv'
<1> DEFINE k == Min(Unused)
<1>1. k \in Unused /\ k \in Connections /\ peer[k] = "unused"
  <2>1. Unused \subseteq Nat /\ Unused # {}
    BY ConnectionsAssumption DEF Connect, Unused, Connections
  <2>2. \E n \in Unused : \A m \in Unused : n <= m
    BY <2>1, LeastNatural
  <2>3. k \in Unused
    BY <2>2 DEF Min
  <2> HIDE DEF k
  <2> QED
    BY <2>3 DEF Unused
<1>2. /\ tcp_socket[c] = NoSocket /\ tcp_socket' = [tcp_socket EXCEPT ![c] = k]
      /\ peer' = [peer EXCEPT ![k] = "open"] /\ backlog' = Append(backlog, k)
      /\ next_outgoing_seq_num' = [next_outgoing_seq_num EXCEPT ![c] = 1]
      /\ next_exp_incoming_seq_num' = [next_exp_incoming_seq_num EXCEPT ![c] = 1]
      /\ UNCHANGED <<up, down, clock, restarts, server>>
  BY DEF Connect
<1> HIDE DEF k
<1>3. TypeOK /\ ConnectionInv /\ NoDanglingSocket /\ RequestsInOrder /\ ResponseInv
  BY DEF IInv
<1>4. PICK own : OwnerInv(own)
  BY DEF IInv
<1>5. UNCHANGED sessionVars
  BY <1>2 DEF server, sessionVars, sessions
<1>6. TypeOK'
  <2>1. backlog' \in Seq(Connections)
    BY <1>1, <1>2, <1>3, AppendFacts DEF TypeOK
  <2>2. /\ tcp_socket' \in [Clients -> Sockets]
        /\ peer' \in [Connections -> {"unused", "open", "fin", "rst"}]
        /\ next_outgoing_seq_num' \in [Clients -> Nat]
        /\ next_exp_incoming_seq_num' \in [Clients -> Nat]
    BY <1>1, <1>2, <1>3 DEF TypeOK, Sockets
  <2> QED
    BY <1>2, <1>3, <2>1, <2>2 DEF TypeOK, server
<1>7. Unused' = Unused \ {k}
  BY <1>1, <1>2, <1>3 DEF TypeOK, Unused
<1>8. Range(backlog') = Range(backlog) \cup {k} /\ IsInjective(backlog')
  <2>1. backlog \in Seq(Connections)
    BY <1>3 DEF TypeOK
  <2>2. k \notin Range(backlog) /\ IsInjective(backlog)
    BY <1>1, <1>3 DEF ConnectionInv
  <2>3. /\ Range(Append(backlog, k)) = Range(backlog) \cup {k}
        /\ IsInjective(Append(backlog, k))
    BY <1>1, <2>1, <2>2, AppendFacts
  <2> QED
    BY <1>2, <2>3
<1>9. ConnectionInv'
  BY <1>1, <1>2, <1>3, <1>7, <1>8 DEF ConnectionInv, TypeOK, server, Sockets
<1>10. NoDanglingSocket'
  BY <1>2, <1>3 DEF NoDanglingSocket, server
<1>11. \E new : OwnerInv(new)'
  <2> PICK new : new = [own EXCEPT ![k] = c]
    OBVIOUS
  <2>1. new \in [Connections -> Clients \cup {NoSocket}] /\ new[k] = c
    BY <1>1, <1>4 DEF OwnerInv
  <2>2. \A j \in Connections \ {k} : new[j] = own[j]
    BY <1>4 DEF OwnerInv
  <2>3. up[k] = <<>> /\ k \notin Range(rcv_sockets)
    BY <1>1, <1>3 DEF ConnectionInv
  <2>4. \A d \in ClientIds : cid_tcp_socket[d] # k
    BY <1>1, <1>3, <2>3 DEF NoDanglingSocket, Connections, NoSocket
  <2>5. \A d \in Clients : tcp_socket[d] # NoSocket => tcp_socket[d] # k
    BY <1>1, <1>3 DEF ConnectionInv
  <2>6. ASSUME server_pc = "parse"
        PROVE  cursor <= Len(rcv_sockets) /\ Socket \in Connections \ {k}
    <3>1. cursor <= Len(rcv_sockets) /\ cursor \in DOMAIN rcv_sockets
      BY <1>3, <1>4, <2>6 DEF OwnerInv, TypeOK
    <3>2. Socket \in Range(rcv_sockets) /\ Socket \in Connections
      BY <1>3, <3>1 DEF Socket, Range, TypeOK
    <3> QED
      BY <3>1, <3>2, <2>3
  <2>7. \A j \in Connections : \A i \in 1 .. Len(up[j]) :
           up[j][i].conn = j /\ up[j][i].client_id = new[j]
    BY <1>4, <2>2, <2>3 DEF OwnerInv
  <2>8. server_pc = "parse" =>
           /\ cursor <= Len(rcv_sockets)
           /\ \A i \in 1 .. Len(rcv_buffer) :
                 rcv_buffer[i].conn = Socket /\ rcv_buffer[i].client_id = new[Socket]
    BY <1>4, <2>2, <2>6 DEF OwnerInv
  <2>9. \A d \in Clients : tcp_socket'[d] # NoSocket => new[tcp_socket'[d]] = d
    <3>1. /\ tcp_socket'[c] = k
          /\ \A d \in Clients : d # c => tcp_socket'[d] = tcp_socket[d]
      BY <1>2, <1>3 DEF TypeOK
    <3>2. \A d \in Clients : tcp_socket[d] # NoSocket => tcp_socket[d] \in Connections \ {k}
      BY <1>3, <2>5 DEF TypeOK, Sockets
    <3>3. \A d \in Clients : tcp_socket[d] # NoSocket => new[tcp_socket[d]] = d
      BY <1>4, <2>2, <3>2 DEF OwnerInv
    <3> QED
      BY <2>1, <3>1, <3>3
  <2>10. \A d \in ClientIds : cid_tcp_socket[d] # NoSocket => new[cid_tcp_socket[d]] = d
    BY <1>3, <1>4, <2>2, <2>4 DEF OwnerInv, TypeOK, Sockets
  <2>11. OwnerInv(new)'
    <3>1. UNCHANGED <<up, rcv_sockets, cursor, rcv_buffer, server_pc, cid_tcp_socket>>
      BY <1>2 DEF server
    <3> QED
      BY <3>1, <2>1, <2>7, <2>8, <2>9, <2>10, Zenon DEF OwnerInv, Socket
  <2> QED
    BY <2>11
<1>12. Live' = Live
  BY <1>1, <1>5, <1>7, <1>8 DEF Live, sessionVars
<1>13. server_pc' # "exited" => SessionInv' /\ PendingInv'
  BY <1>5, <1>12, SessionsUnchanged DEF IInv, sessionVars
<1>14. RequestsInOrder'
  BY <1>2, <1>3 DEF RequestsInOrder, server
<1>15. ResponseInv'
  <2>1. k \notin Range(cid_tcp_socket)
    <3>1. k \notin Range(rcv_sockets) /\ k # NoSocket
      BY <1>1, <1>3 DEF ConnectionInv, Connections, NoSocket
    <3> QED
      BY <1>3, <3>1 DEF NoDanglingSocket, Range, TypeOK
  <2>2. down[k] = <<>> /\ send_buffer[k] = <<>>
    BY <1>1, <1>3 DEF ConnectionInv
  <2>3. \A d \in ClientIds : cid_tcp_socket[d] # k
    BY <1>3, <2>1 DEF Range, TypeOK
  <2> SUFFICES ASSUME NEW d \in Clients, NEW j \in Connections, NEW n \in Nat,
                      tcp_socket'[d] = j, next_exp_incoming_seq_num'[d] = n
               PROVE  Coming(d, j, n)'
    BY DEF ResponseInv
  <2>4. CASE d = c
    <3>1. j = k /\ n = 1
      BY <1>2, <1>3, <2>4 DEF TypeOK
    <3>2. \A m : Follows(d, m, <<>>)
      BY DEF Follows
    <3>3. ~(d \in ClientIds /\ cid_tcp_socket[d] = k)
      BY <2>3
    <3>4. Coming(d, j, n)
      BY <2>2, <3>1, <3>2, <3>3, Zenon DEF Coming
    <3> QED
      BY <1>2, <3>4, Zenon DEF Coming, Follows, server
  <2>5. CASE d # c
    <3>1. tcp_socket[d] = j /\ next_exp_incoming_seq_num[d] = n
      BY <1>2, <1>3, <2>5 DEF TypeOK
    <3>2. Coming(d, j, n)
      BY <1>3, <3>1 DEF ResponseInv
    <3> QED
      BY <1>2, <3>2, Zenon DEF Coming, Follows, server
  <2> QED
    BY <2>4, <2>5
<1> QED
  BY <1>6, <1>9, <1>10, <1>11, <1>13, <1>14, <1>15 DEF IInv

(* Reading the responses of a sequence of consecutive ones.                *)
LEMMA FollowsFacts ==
  ASSUME NEW c, NEW n \in Nat, NEW s \in Seq(Answers), Follows(c, n, s)
  PROVE  /\ s # <<>> => /\ Head(s) = Response(c, n)
                        /\ Tail(s) \in Seq(Answers) /\ Len(Tail(s)) = Len(s) - 1
                        /\ Follows(c, n + 1, Tail(s))
         /\ Follows(c, n, Append(s, Response(c, n + Len(s))))
<1>1. ASSUME s # <<>>
      PROVE  /\ Head(s) = Response(c, n)
             /\ Tail(s) \in Seq(Answers) /\ Len(Tail(s)) = Len(s) - 1
             /\ Follows(c, n + 1, Tail(s))
  <2>1. /\ Tail(s) \in Seq(Answers) /\ Len(Tail(s)) = Len(s) - 1 /\ Len(s) \in Nat \ {0}
        /\ \A i \in 1 .. Len(s) - 1 : Tail(s)[i] = s[i + 1]
    BY <1>1, HeadTailProperties, EmptySeq, LenProperties
  <2>2. \A i \in 1 .. Len(s) - 1 : i + 1 \in 1 .. Len(s) /\ n + (i + 1) - 1 = n + 1 + i - 1
    BY <2>1
  <2>3. \A i \in 1 .. Len(s) - 1 : s[i + 1] = Response(c, n + (i + 1) - 1)
    BY <2>2, Zenon DEF Follows
  <2>4. Follows(c, n + 1, Tail(s))
    BY <2>1, <2>2, <2>3, Zenon DEF Follows
  <2>5. 1 \in 1 .. Len(s) /\ n + 1 - 1 = n
    BY <2>1
  <2>6. s[1] = Response(c, n + 1 - 1)
    BY <2>5, Zenon DEF Follows
  <2>7. Head(s) = s[1]
    BY <1>1
  <2> QED
    BY <2>1, <2>4, <2>5, <2>6, <2>7
<1>2. Follows(c, n, Append(s, Response(c, n + Len(s))))
  <2> DEFINE t == Append(s, Response(c, n + Len(s)))
  <2>1. Len(t) = Len(s) + 1 /\ t[Len(s) + 1] = Response(c, n + Len(s))
    OBVIOUS
  <2>2. \A i \in 1 .. Len(s) : t[i] = s[i]
    OBVIOUS
  <2>3. \A i \in 1 .. Len(s) : s[i] = Response(c, n + i - 1)
    BY Zenon DEF Follows
  <2> HIDE DEF t
  <2>4. ASSUME NEW i \in 1 .. Len(t) PROVE t[i] = Response(c, n + i - 1)
    <3>1. CASE i = Len(s) + 1
      <4>1. n + i - 1 = n + Len(s)
        BY <3>1, LenProperties
      <4> QED
        BY <3>1, <2>1, <4>1
    <3>2. CASE i # Len(s) + 1
      <4>1. i \in 1 .. Len(s)
        BY <3>2, <2>1, LenProperties
      <4> QED
        BY <4>1, <2>2, <2>3
    <3> QED
      BY <3>1, <3>2
  <2>5. Follows(c, n, t)
    BY <2>4 DEF Follows
  <2> QED
    BY <2>5 DEF t
<1> QED
  BY <1>1, <1>2

(* An open connection belongs to one gateway.                              *)
LEMMA OneGateway ==
  ASSUME NEW own, TypeOK, OwnerInv(own), NEW c \in Clients, tcp_socket[c] # NoSocket
  PROVE  /\ tcp_socket[c] \in Connections
         /\ \A d \in Clients : tcp_socket[d] = tcp_socket[c] => d = c
BY DEF TypeOK, OwnerInv, Sockets

(* The rest of the server's buffers belongs to the connection's client.    *)
LEMMA OwnersUnchanged ==
  ASSUME NEW own, OwnerInv(own),
         UNCHANGED <<up, rcv_sockets, cursor, rcv_buffer, server_pc, cid_tcp_socket>>,
         \A d \in Clients : tcp_socket'[d] # NoSocket => tcp_socket'[d] = tcp_socket[d]
  PROVE  OwnerInv(own)'
BY DEF OwnerInv, Socket

(* What is on its way to a gateway that stays is what it was.              *)
LEMMA ComingUnchanged ==
  ASSUME NEW c, NEW k, NEW n, Coming(c, k, n),
         down'[k] = down[k], send_buffer'[k] = send_buffer[k],
         c \in ClientIds =>
           /\ cid_tcp_socket'[c] = k <=> cid_tcp_socket[c] = k
           /\ cid_tcp_socket[c] = k => cid_next_outgoing_seq_num'[c] = cid_next_outgoing_seq_num[c]
  PROVE  Coming(c, k, n)'
<1>1. Follows(c, n, down'[k]) /\ Follows(c, n + Len(down'[k]), send_buffer'[k])
  BY Zenon DEF Coming
<1>2. IF c \in ClientIds /\ cid_tcp_socket'[c] = k
      THEN cid_next_outgoing_seq_num'[c] = n + Len(down'[k]) + Len(send_buffer'[k])
      ELSE n = 1 /\ down'[k] = <<>> /\ send_buffer'[k] = <<>>
  <2>1. CASE c \in ClientIds /\ cid_tcp_socket[c] = k
    BY <2>1, Zenon DEF Coming
  <2>2. CASE ~(c \in ClientIds /\ cid_tcp_socket[c] = k)
    BY <2>2, Zenon DEF Coming
  <2> QED
    BY <2>1, <2>2
<1> QED
  BY <1>1, <1>2, Zenon DEF Coming, Follows

(* The same for all gateways.                                              *)
LEMMA ResponsesUnchanged ==
  ASSUME ResponseInv,
         \A d \in Clients, k \in Connections : tcp_socket'[d] = k =>
            /\ tcp_socket[d] = k
            /\ next_exp_incoming_seq_num'[d] = next_exp_incoming_seq_num[d]
            /\ down'[k] = down[k] /\ send_buffer'[k] = send_buffer[k]
            /\ d \in ClientIds =>
                 /\ cid_tcp_socket'[d] = k <=> cid_tcp_socket[d] = k
                 /\ cid_tcp_socket[d] = k =>
                      cid_next_outgoing_seq_num'[d] = cid_next_outgoing_seq_num[d]
  PROVE  ResponseInv'
<1> SUFFICES ASSUME NEW d \in Clients, NEW k \in Connections, NEW n \in Nat,
                    tcp_socket'[d] = k, next_exp_incoming_seq_num'[d] = n
             PROVE  Coming(d, k, n)'
  BY DEF ResponseInv
<1>1. Coming(d, k, n)
  BY DEF ResponseInv
<1> QED
  BY <1>1, ComingUnchanged

(* The gateway's process ends.                                             *)
LEMMA CloseStep ==
  ASSUME IInv, NEW c \in Clients, NEW how \in {"fin", "rst"}, Close(c, how), UNCHANGED server
  PROVE  IInv'
<1>1. PICK k : k = tcp_socket[c]
  OBVIOUS
<1>2. /\ k # NoSocket /\ tcp_socket' = [tcp_socket EXCEPT ![c] = NoSocket]
      /\ peer' = [peer EXCEPT ![k] = how] /\ down' = [down EXCEPT ![k] = <<>>]
      /\ UNCHANGED <<backlog, up, clock, next_outgoing_seq_num, next_exp_incoming_seq_num, server>>
  BY <1>1 DEF Close
<1>3. TypeOK /\ ConnectionInv /\ NoDanglingSocket /\ RequestsInOrder /\ ResponseInv
  BY DEF IInv
<1>4. PICK own : OwnerInv(own)
  BY DEF IInv
<1>5. UNCHANGED sessionVars
  BY <1>2 DEF server, sessionVars, sessions
<1>6. k \in Connections /\ peer[k] = "open" /\ \A d \in Clients : tcp_socket[d] = k => d = c
  <2>1. k \in Connections /\ \A d \in Clients : tcp_socket[d] = k => d = c
    BY <1>1, <1>2, <1>3, <1>4, OneGateway
  <2>2. peer[k] = "open"
    BY <1>1, <1>2, <1>3 DEF ConnectionInv
  <2> QED
    BY <2>1, <2>2
<1>7. TypeOK'
  <2>1. <<>> \in Seq(Answers)
    OBVIOUS
  <2> QED
    BY <1>2, <1>3, <1>6, <2>1 DEF TypeOK, server, Sockets
<1>8. Unused' = Unused
  BY <1>2, <1>3, <1>6 DEF TypeOK, Unused
<1>9. \A d \in Clients : tcp_socket'[d] # NoSocket => tcp_socket'[d] = tcp_socket[d] /\ tcp_socket[d] # k
  BY <1>2, <1>3, <1>6 DEF TypeOK
<1>10. ConnectionInv'
  <2>1. UNCHANGED <<backlog, rcv_sockets, up, send_buffer, disconnected_sockets>>
    BY <1>2 DEF server
  <2>2. \A j \in Unused : down'[j] = down[j]
    BY <1>2, <1>3, <1>6 DEF Unused, TypeOK
  <2>3. \A j \in Connections : peer[j] \in {"fin", "rst"} => peer'[j] \in {"fin", "rst"}
    BY <1>2, <1>3 DEF TypeOK
  <2>4. disconnected_sockets \subseteq Connections
    BY <1>3 DEF TypeOK
  <2>5. \A d \in Clients : tcp_socket'[d] # NoSocket => peer'[tcp_socket'[d]] = "open"
    BY <1>2, <1>3, <1>9 DEF TypeOK, ConnectionInv, Sockets
  <2> QED
    BY <1>3, <1>8, <2>1, <2>2, <2>3, <2>4, <2>5 DEF ConnectionInv
<1>11. NoDanglingSocket'
  BY <1>2, <1>3 DEF NoDanglingSocket, server
<1>12. OwnerInv(own)'
  BY <1>2, <1>4, <1>9, OwnersUnchanged DEF server
<1>13. Live' = Live
  BY <1>2, <1>5, <1>8 DEF Live, sessionVars
<1>14. server_pc' # "exited" => SessionInv' /\ PendingInv'
  BY <1>5, <1>13, SessionsUnchanged DEF IInv, sessionVars
<1>15. RequestsInOrder'
  BY <1>2, <1>3 DEF RequestsInOrder, server
<1>16. ResponseInv'
  <2>1. \A d \in Clients, j \in Connections : tcp_socket'[d] = j => tcp_socket[d] = j /\ down'[j] = down[j]
    BY <1>2, <1>3, <1>9 DEF TypeOK, Connections, NoSocket
  <2>2. UNCHANGED <<next_exp_incoming_seq_num, send_buffer, cid_tcp_socket, cid_next_outgoing_seq_num>>
    BY <1>2 DEF server
  <2> QED
    BY <1>3, <2>1, <2>2, ResponsesUnchanged
<1> QED
  BY <1>7, <1>10, <1>11, <1>12, <1>14, <1>15, <1>16 DEF IInv

(* A request is put on the gateway's connection.                           *)
LEMMA SendRequestStep ==
  ASSUME IInv, NEW c \in Clients, sendRequest(c), UNCHANGED server
  PROVE  IInv'
<1>1. PICK k : k = tcp_socket[c]
  OBVIOUS
<1>2. /\ k # NoSocket
      /\ clock' = clock + 1
      /\ up' = [up EXCEPT ![k] = Append(@, Request(c, k, next_outgoing_seq_num[c], clock'))]
      /\ next_outgoing_seq_num' = [next_outgoing_seq_num EXCEPT ![c] = @ + 1]
      /\ UNCHANGED <<peer, backlog, down, tcp_socket, next_exp_incoming_seq_num, server>>
  BY <1>1 DEF sendRequest
<1>3. TypeOK /\ ConnectionInv /\ NoDanglingSocket /\ RequestsInOrder /\ ResponseInv
  BY DEF IInv
<1>4. PICK own : OwnerInv(own)
  BY DEF IInv
<1>5. UNCHANGED sessionVars
  BY <1>2 DEF server, sessionVars, sessions
<1>6. k \in Connections /\ peer[k] = "open" /\ own[k] = c
  BY <1>1, <1>2, <1>3, <1>4 DEF ConnectionInv, OwnerInv, TypeOK, Sockets
<1>7. PICK msg : msg = Request(c, k, next_outgoing_seq_num[c], clock')
  OBVIOUS
<1>8. msg \in Messages /\ msg.conn = k /\ msg.client_id = c
  <2>1. next_outgoing_seq_num[c] \in Nat /\ clock' \in Nat
    BY <1>2, <1>3 DEF TypeOK
  <2> QED
    BY <1>6, <1>7, <2>1 DEF Request, Messages
<1>9. /\ up' = [up EXCEPT ![k] = Append(up[k], msg)] /\ up'[k] = Append(up[k], msg)
      /\ up[k] \in Seq(Messages)
  BY <1>2, <1>3, <1>6, <1>7 DEF TypeOK
<1>10. TypeOK'
  <2>1. Append(up[k], msg) \in Seq(Messages)
    BY <1>8, <1>9, AppendProperties
  <2>2. up' \in [Connections -> Seq(Messages)]
    BY <1>3, <1>9, <2>1 DEF TypeOK
  <2>3. next_outgoing_seq_num' \in [Clients -> Nat] /\ clock' \in Nat
    BY <1>2, <1>3 DEF TypeOK
  <2> QED
    BY <1>2, <1>3, <2>2, <2>3 DEF TypeOK, server
<1>11. Unused' = Unused
  BY <1>2 DEF Unused
<1>12. ConnectionInv'
  <2>1. \A j \in Unused : up'[j] = up[j]
    BY <1>3, <1>6, <1>9 DEF Unused, TypeOK
  <2>2. UNCHANGED <<backlog, rcv_sockets, down, send_buffer, disconnected_sockets, peer, tcp_socket>>
    BY <1>2 DEF server
  <2> QED
    BY <1>3, <1>11, <2>1, <2>2 DEF ConnectionInv
<1>13. NoDanglingSocket'
  BY <1>2, <1>3 DEF NoDanglingSocket, server
<1>14. OwnerInv(own)'
  <2>1. ASSUME NEW j \in Connections, NEW i \in 1 .. Len(up'[j])
        PROVE  up'[j][i].conn = j /\ up'[j][i].client_id = own[j]
    <3>1. CASE j = k
      <4>1. CASE i = Len(up[k]) + 1
        BY <1>6, <1>8, <1>9, <3>1, <4>1
      <4>2. CASE i # Len(up[k]) + 1
        <5>1. i \in 1 .. Len(up[k]) /\ up'[k][i] = up[k][i]
          BY <1>8, <1>9, <3>1, <4>2, AppendProperties
        <5> QED
          BY <1>4, <3>1, <5>1 DEF OwnerInv
      <4> QED
        BY <4>1, <4>2
    <3>2. CASE j # k
      <4>1. up'[j] = up[j]
        BY <1>3, <1>9, <3>2 DEF TypeOK
      <4> QED
        BY <4>1, <1>4 DEF OwnerInv
    <3> QED
      BY <3>1, <3>2
  <2>2. UNCHANGED <<rcv_sockets, cursor, rcv_buffer, server_pc, cid_tcp_socket, tcp_socket>>
    BY <1>2 DEF server
  <2> QED
    BY <1>4, <2>1, <2>2 DEF OwnerInv, Socket
<1>15. Live' = Live
  BY <1>2, <1>5, <1>11 DEF Live, sessionVars
<1>16. server_pc' # "exited" => SessionInv' /\ PendingInv'
  BY <1>5, <1>15, SessionsUnchanged DEF IInv, sessionVars
<1>17. RequestsInOrder'
  BY <1>2, <1>3 DEF RequestsInOrder, server
<1>18. ResponseInv'
  <2>1. UNCHANGED <<next_exp_incoming_seq_num, send_buffer, cid_tcp_socket, cid_next_outgoing_seq_num,
                    down, tcp_socket>>
    BY <1>2 DEF server
  <2> QED
    BY <1>3, <2>1, ResponsesUnchanged
<1> QED
  BY <1>10, <1>12, <1>13, <1>14, <1>16, <1>17, <1>18 DEF IInv

(* A response is read: it is the one that the gateway expects.             *)
LEMMA ProcessResponseStep ==
  ASSUME IInv, NEW c \in Clients, processResponse(c), UNCHANGED server
  PROVE  IInv'
<1>1. PICK k : k = tcp_socket[c]
  OBVIOUS
<1>2. TypeOK /\ ConnectionInv /\ NoDanglingSocket /\ RequestsInOrder /\ ResponseInv
  BY DEF IInv
<1>3. PICK own : OwnerInv(own)
  BY DEF IInv
<1>4. /\ k # NoSocket /\ down[k] # <<>>
      /\ down' = [down EXCEPT ![k] = Tail(@)]
      /\ UNCHANGED <<peer, backlog, up, clock, tcp_socket, next_outgoing_seq_num, server>>
      /\ next_exp_incoming_seq_num' =
            IF Head(down[k]).client_id = c /\ Head(down[k]).seq = next_exp_incoming_seq_num[c]
            THEN [next_exp_incoming_seq_num EXCEPT ![c] = @ + 1]
            ELSE next_exp_incoming_seq_num
  BY <1>1 DEF processResponse
<1>5. k \in Connections /\ peer[k] = "open" /\ \A d \in Clients : tcp_socket[d] = k => d = c
  <2>1. k \in Connections /\ \A d \in Clients : tcp_socket[d] = k => d = c
    BY <1>1, <1>2, <1>3, <1>4, OneGateway
  <2>2. peer[k] = "open"
    BY <1>1, <1>2, <1>4 DEF ConnectionInv
  <2> QED
    BY <2>1, <2>2
<1>6. PICK n \in Nat : n = next_exp_incoming_seq_num[c]
  BY <1>2 DEF TypeOK
<1>7. Coming(c, k, n)
  BY <1>1, <1>2, <1>5, <1>6 DEF ResponseInv
<1>8. down[k] \in Seq(Answers) /\ send_buffer[k] \in Seq(Answers) /\ down'[k] = Tail(down[k])
  BY <1>2, <1>4, <1>5 DEF TypeOK
<1>9. /\ Head(down[k]) = Response(c, n)
      /\ Tail(down[k]) \in Seq(Answers) /\ Len(Tail(down[k])) = Len(down[k]) - 1
      /\ Follows(c, n + 1, Tail(down[k]))
  <2>1. Follows(c, n, down[k])
    BY <1>7 DEF Coming
  <2> QED
    BY <2>1, <1>4, <1>8, FollowsFacts
<1>10. next_exp_incoming_seq_num' = [next_exp_incoming_seq_num EXCEPT ![c] = n + 1]
  BY <1>4, <1>6, <1>9 DEF Response
<1>11. UNCHANGED sessionVars
  BY <1>4 DEF server, sessionVars, sessions
<1>12. TypeOK'
  <2>1. down' \in [Connections -> Seq(Answers)]
    BY <1>2, <1>4, <1>9 DEF TypeOK
  <2>2. next_exp_incoming_seq_num' \in [Clients -> Nat]
    BY <1>2, <1>10 DEF TypeOK
  <2> QED
    BY <1>2, <1>4, <2>1, <2>2 DEF TypeOK, server
<1>13. Unused' = Unused
  BY <1>4 DEF Unused
<1>14. ConnectionInv'
  <2>1. \A j \in Unused : down'[j] = down[j]
    BY <1>2, <1>4, <1>5 DEF Unused, TypeOK
  <2>2. UNCHANGED <<backlog, rcv_sockets, up, send_buffer, disconnected_sockets, peer, tcp_socket>>
    BY <1>4 DEF server
  <2> QED
    BY <1>2, <1>13, <2>1, <2>2 DEF ConnectionInv
<1>15. NoDanglingSocket'
  BY <1>2, <1>4 DEF NoDanglingSocket, server
<1>16. OwnerInv(own)'
  BY <1>3, <1>4, OwnersUnchanged DEF server
<1>17. Live' = Live
  BY <1>4, <1>11, <1>13 DEF Live, sessionVars
<1>18. server_pc' # "exited" => SessionInv' /\ PendingInv'
  BY <1>11, <1>17, SessionsUnchanged DEF IInv, sessionVars
<1>19. RequestsInOrder'
  BY <1>2, <1>4 DEF RequestsInOrder, server
<1>20. ResponseInv'
  <2>1. UNCHANGED <<send_buffer, cid_tcp_socket, cid_next_outgoing_seq_num, tcp_socket>>
    BY <1>4 DEF server
  <2> SUFFICES ASSUME NEW d \in Clients, NEW j \in Connections, NEW m \in Nat,
                      tcp_socket'[d] = j, next_exp_incoming_seq_num'[d] = m
               PROVE  Coming(d, j, m)'
    BY DEF ResponseInv
  <2>2. CASE d = c
    <3>1. j = k /\ m = n + 1
      BY <1>1, <1>2, <1>10, <2>1, <2>2 DEF TypeOK
    <3>2. n + 1 + Len(down'[k]) = n + Len(down[k])
      BY <1>8, <1>9
    <3>3. Follows(c, m, down'[k])
      BY <1>8, <1>9, <3>1
    <3>4. Follows(c, m + Len(down'[k]), send_buffer'[k])
      BY <1>7, <2>1, <3>1, <3>2 DEF Coming
    <3>5. c \in ClientIds /\ cid_tcp_socket[c] = k
      BY <1>4, <1>7 DEF Coming
    <3>6. cid_next_outgoing_seq_num[c] = n + Len(down[k]) + Len(send_buffer[k])
      BY <1>7, <3>5 DEF Coming
    <3>7. cid_next_outgoing_seq_num[c] = m + Len(down'[k]) + Len(send_buffer'[k])
      BY <2>1, <3>1, <3>2, <3>6
    <3>8. c \in ClientIds /\ cid_tcp_socket'[c] = k /\ cid_next_outgoing_seq_num'[c] = cid_next_outgoing_seq_num[c]
      BY <2>1, <3>5
    <3> QED
      BY <2>2, <3>1, <3>3, <3>4, <3>7, <3>8, Zenon DEF Coming, Follows
  <2>3. CASE d # c
    <3>1. tcp_socket[d] = j /\ next_exp_incoming_seq_num[d] = m /\ j # k
      BY <1>2, <1>5, <1>10, <2>1, <2>3 DEF TypeOK
    <3>2. Coming(d, j, m)
      BY <1>2, <3>1 DEF ResponseInv
    <3>3. down'[j] = down[j]
      BY <1>2, <1>4, <3>1 DEF TypeOK
    <3> QED
      BY <2>1, <3>2, <3>3, ComingUnchanged
  <2> QED
    BY <2>2, <2>3
<1> QED
  BY <1>12, <1>14, <1>15, <1>16, <1>18, <1>19, <1>20 DEF IInv

----------------------------------------------------------------------------
(* Steps of the order server.                                              *)

(* What two sequences hold together.                                       *)
LEMMA ConcatRange ==
  ASSUME NEW S, NEW s \in Seq(S), NEW t \in Seq(S)
  PROVE  /\ s \o t \in Seq(S)
         /\ Range(s \o t) = Range(s) \cup Range(t)
         /\ IsInjective(s) /\ IsInjective(t) /\ Range(s) \cap Range(t) = {} => IsInjective(s \o t)
<1> DEFINE u == s \o t
<1>1. /\ u \in Seq(S) /\ Len(u) = Len(s) + Len(t)
      /\ \A i \in 1 .. Len(s) + Len(t) : u[i] = IF i <= Len(s) THEN s[i] ELSE t[i - Len(s)]
  BY ConcatProperties
<1> HIDE DEF u
<1>2. /\ Len(s) \in Nat /\ Len(t) \in Nat
      /\ DOMAIN s = 1 .. Len(s) /\ DOMAIN t = 1 .. Len(t) /\ DOMAIN u = 1 .. Len(s) + Len(t)
  BY <1>1
<1>3. \A i \in 1 .. Len(s) : u[i] = s[i]
  BY <1>1, <1>2
<1>4. \A i \in 1 .. Len(t) : i + Len(s) \in DOMAIN u /\ u[i + Len(s)] = t[i]
  BY <1>1, <1>2
<1>5. Range(u) = Range(s) \cup Range(t)
  <2>1. ASSUME NEW i \in DOMAIN u PROVE u[i] \in Range(s) \cup Range(t)
    <3>1. CASE i <= Len(s)
      BY <1>1, <1>2, <3>1 DEF Range
    <3>2. CASE ~(i <= Len(s))
      <4>1. i - Len(s) \in DOMAIN t /\ u[i] = t[i - Len(s)]
        BY <1>1, <1>2, <3>2
      <4> QED
        BY <4>1 DEF Range
    <3> QED
      BY <3>1, <3>2
  <2>2. \A i \in DOMAIN s : s[i] \in Range(u)
    BY <1>2, <1>3 DEF Range
  <2>3. \A i \in DOMAIN t : t[i] \in Range(u)
    BY <1>2, <1>4 DEF Range
  <2> QED
    BY <2>1, <2>2, <2>3 DEF Range
<1>6. ASSUME IsInjective(s), IsInjective(t), Range(s) \cap Range(t) = {} PROVE IsInjective(u)
  <2>1. \A i \in DOMAIN s, j \in DOMAIN t : s[i] # t[j]
    BY <1>6 DEF Range
  <2>2. \A i, j \in DOMAIN s : s[i] = s[j] => i = j
    BY <1>6 DEF IsInjective
  <2>3. \A i, j \in DOMAIN t : t[i] = t[j] => i = j
    BY <1>6 DEF IsInjective
  <2>4. ASSUME NEW i \in DOMAIN u, NEW j \in DOMAIN u, u[i] = u[j] PROVE i = j
    <3>1. CASE i <= Len(s) /\ j <= Len(s)
      BY <1>1, <1>2, <2>2, <2>4, <3>1
    <3>2. CASE i <= Len(s) /\ ~(j <= Len(s))
      <4>1. i \in DOMAIN s /\ j - Len(s) \in DOMAIN t /\ u[i] = s[i] /\ u[j] = t[j - Len(s)]
        BY <1>1, <1>2, <3>2
      <4> QED
        BY <2>1, <2>4, <4>1
    <3>3. CASE ~(i <= Len(s)) /\ j <= Len(s)
      <4>1. j \in DOMAIN s /\ i - Len(s) \in DOMAIN t /\ u[j] = s[j] /\ u[i] = t[i - Len(s)]
        BY <1>1, <1>2, <3>3
      <4> QED
        BY <2>1, <2>4, <4>1
    <3>4. CASE ~(i <= Len(s)) /\ ~(j <= Len(s))
      <4>1. /\ j - Len(s) \in DOMAIN t /\ i - Len(s) \in DOMAIN t
            /\ u[j] = t[j - Len(s)] /\ u[i] = t[i - Len(s)]
        BY <1>1, <1>2, <3>4
      <4>2. i - Len(s) = j - Len(s)
        BY <2>3, <2>4, <4>1
      <4> QED
        BY <1>2, <4>2
    <3> QED
      BY <3>1, <3>2, <3>3, <3>4
  <2> QED
    BY <2>4 DEF IsInjective
<1> QED
  BY <1>1, <1>5, <1>6 DEF u

(* Sockets found dead are freed; their clients lose their sessions.        *)
LEMMA ReapStep ==
  ASSUME IInv, Reap, UNCHANGED gateway
  PROVE  IInv'
<1>1. TypeOK /\ ConnectionInv /\ NoDanglingSocket /\ RequestsInOrder /\ ResponseInv
  BY DEF IInv
<1>2. PICK own : OwnerInv(own)
  BY DEF IInv
<1>3. PICK gone : gone = disconnected_sockets
  OBVIOUS
<1>4. /\ server_pc = "reap" /\ server_pc' = "accept"
      /\ rcv_sockets' = Without(rcv_sockets, gone)
      /\ send_buffer' = [k \in Connections |-> IF k \in gone THEN <<>> ELSE send_buffer[k]]
      /\ disconnected_sockets' = {}
      /\ cid_tcp_socket' = [c \in ClientIds |->
            IF cid_tcp_socket[c] \in gone THEN NoSocket ELSE cid_tcp_socket[c]]
      /\ cid_next_exp_seq_num' = [c \in ClientIds |->
            IF cid_tcp_socket[c] \in gone THEN 1 ELSE cid_next_exp_seq_num[c]]
      /\ cid_next_outgoing_seq_num' = [c \in ClientIds |->
            IF cid_tcp_socket[c] \in gone THEN 1 ELSE cid_next_outgoing_seq_num[c]]
      /\ UNCHANGED <<pending_client_requests, published, responses, cursor, rcv_buffer, rx_time, recv>>
      /\ UNCHANGED <<peer, backlog, up, down, clock>>
      /\ UNCHANGED <<tcp_socket, next_outgoing_seq_num, next_exp_incoming_seq_num>>
  BY <1>3 DEF Reap, disconnect_callback, engine, reading, network, gateway
<1>5. SessionInv /\ PendingInv /\ pending_client_requests = <<>>
  BY <1>4 DEF IInv, PendingInv
<1>6. /\ rcv_sockets' \in Seq(Connections) /\ IsInjective(rcv_sockets')
      /\ Range(rcv_sockets') = Range(rcv_sockets) \ gone
  <2>1. rcv_sockets \in Seq(Connections) /\ IsInjective(rcv_sockets)
    BY <1>1 DEF TypeOK, ConnectionInv
  <2> QED
    BY <1>4, <2>1, WithoutFacts
<1>7. \A k \in gone : k \in Range(rcv_sockets) /\ peer[k] \in {"fin", "rst"} /\ k # NoSocket
  BY <1>1, <1>3 DEF ConnectionInv, TypeOK, Connections, NoSocket
<1>8. TypeOK'
  <2>1. <<>> \in Seq(Answers) /\ NoSocket \in Sockets
    BY DEF Sockets
  <2>2. send_buffer' \in [Connections -> Seq(Answers)]
    BY <1>1, <1>4, <2>1 DEF TypeOK
  <2>3. /\ cid_tcp_socket' \in [ClientIds -> Sockets] /\ cid_next_exp_seq_num' \in [ClientIds -> Nat \ {0}]
        /\ cid_next_outgoing_seq_num' \in [ClientIds -> Nat]
    BY <1>1, <1>4, <2>1 DEF TypeOK
  <2> QED
    BY <1>1, <1>4, <1>6, <2>2, <2>3 DEF TypeOK
<1>9. Unused' = Unused
  BY <1>4 DEF Unused
<1>10. ConnectionInv'
  <2>1. \A k \in Unused : send_buffer'[k] = <<>>
    BY <1>1, <1>4 DEF ConnectionInv, Unused
  <2> QED
    BY <1>1, <1>4, <1>6, <1>9, <2>1 DEF ConnectionInv
<1>11. NoDanglingSocket'
  BY <1>1, <1>4, <1>6 DEF NoDanglingSocket
<1>12. OwnerInv(own)'
  BY <1>2, <1>4 DEF OwnerInv
<1>13. SessionInv'
  <2>1. \A k : Accepted(k)' = Accepted(k)
    BY <1>4, AcceptedUnchanged
  <2>2. ASSUME NEW k \in Live' PROVE k \in Live /\ k \notin gone
    BY <1>1, <1>4, <1>6, <1>7, <1>9 DEF Live, ConnectionInv
  <2>3. ASSUME NEW k \in Live', k \notin Range(cid_tcp_socket') PROVE Accepted(k)' = {}
    <3>1. k \notin Range(cid_tcp_socket)
      BY <1>1, <1>4, <2>2, <2>3 DEF Range, TypeOK
    <3> QED
      BY <1>5, <2>1, <2>2, <3>1 DEF SessionInv
  <2>4. ASSUME NEW c \in ClientIds
        PROVE  /\ cid_tcp_socket'[c] = NoSocket =>
                    cid_next_exp_seq_num'[c] = 1 /\ cid_next_outgoing_seq_num'[c] = 1
               /\ \A k \in Connections : cid_tcp_socket'[c] = k =>
                    Accepted(k)' = 1 .. cid_next_exp_seq_num'[c] - 1
    <3>1. CASE cid_tcp_socket[c] \in gone
      BY <1>4, <3>1 DEF Connections, NoSocket
    <3>2. CASE cid_tcp_socket[c] \notin gone
      <4>1. /\ cid_tcp_socket'[c] = cid_tcp_socket[c]
            /\ cid_next_exp_seq_num'[c] = cid_next_exp_seq_num[c]
            /\ cid_next_outgoing_seq_num'[c] = cid_next_outgoing_seq_num[c]
        BY <1>4, <3>2
      <4> QED
        BY <1>5, <2>1, <4>1 DEF SessionInv
    <3> QED
      BY <3>1, <3>2
  <2> QED
    BY <2>3, <2>4 DEF SessionInv
<1>14. PendingInv'
  BY <1>4, <1>5 DEF PendingInv
<1>15. RequestsInOrder'
  BY <1>1, <1>4 DEF RequestsInOrder
<1>16. ResponseInv'
  <2>1. ASSUME NEW d \in Clients, NEW k \in Connections, tcp_socket'[d] = k
        PROVE  /\ tcp_socket[d] = k
               /\ next_exp_incoming_seq_num'[d] = next_exp_incoming_seq_num[d]
               /\ down'[k] = down[k] /\ send_buffer'[k] = send_buffer[k]
               /\ d \in ClientIds =>
                    /\ cid_tcp_socket'[d] = k <=> cid_tcp_socket[d] = k
                    /\ cid_tcp_socket[d] = k =>
                         cid_next_outgoing_seq_num'[d] = cid_next_outgoing_seq_num[d]
    <3>1. k # NoSocket /\ peer[k] = "open"
      BY <1>1, <1>4, <2>1 DEF ConnectionInv, Connections, NoSocket
    <3>2. k \notin gone
      BY <1>7, <3>1
    <3>3. send_buffer'[k] = send_buffer[k]
      BY <1>4, <3>2
    <3>4. d \in ClientIds =>
            /\ cid_tcp_socket'[d] = k <=> cid_tcp_socket[d] = k
            /\ cid_tcp_socket[d] = k => cid_next_outgoing_seq_num'[d] = cid_next_outgoing_seq_num[d]
      BY <1>4, <3>1, <3>2
    <3> QED
      BY <1>4, <2>1, <3>3, <3>4
  <2> QED
    BY <1>1, <2>1, ResponsesUnchanged
<1> QED
  BY <1>4, <1>8, <1>10, <1>11, <1>12, <1>13, <1>14, <1>15, <1>16 DEF IInv

(* The backlog is accepted.                                                *)
LEMMA AcceptStep ==
  ASSUME IInv, Accept, UNCHANGED gateway
  PROVE  IInv'
<1>1. TypeOK /\ ConnectionInv /\ NoDanglingSocket /\ RequestsInOrder /\ ResponseInv
  BY DEF IInv
<1>2. PICK own : OwnerInv(own)
  BY DEF IInv
<1>3. /\ server_pc = "accept" /\ server_pc' = "recv"
      /\ disconnected_sockets' = { k \in Range(rcv_sockets) : peer[k] = "rst" }
      /\ rcv_sockets' = rcv_sockets \o backlog /\ backlog' = <<>>
      /\ cursor' = 1 /\ recv' = FALSE
      /\ UNCHANGED <<send_buffer, cid_tcp_socket, cid_next_exp_seq_num, cid_next_outgoing_seq_num>>
      /\ UNCHANGED <<pending_client_requests, published, responses, rcv_buffer, rx_time>>
      /\ UNCHANGED <<peer, up, down, clock>>
      /\ UNCHANGED <<tcp_socket, next_outgoing_seq_num, next_exp_incoming_seq_num>>
  BY DEF Accept, engine, sessions, gateway
<1>4. SessionInv /\ PendingInv /\ pending_client_requests = <<>>
  BY <1>3 DEF IInv, PendingInv
<1>5. /\ rcv_sockets \in Seq(Connections) /\ backlog \in Seq(Connections)
      /\ IsInjective(rcv_sockets) /\ IsInjective(backlog) /\ Range(rcv_sockets) \cap Range(backlog) = {}
  BY <1>1 DEF TypeOK, ConnectionInv
<1>6. /\ rcv_sockets' \in Seq(Connections) /\ IsInjective(rcv_sockets')
      /\ Range(rcv_sockets') = Range(rcv_sockets) \cup Range(backlog)
  BY <1>3, <1>5, ConcatRange
<1>7. Range(rcv_sockets) \subseteq Connections
  BY <1>5 DEF Range
<1>8. TypeOK'
  <2>1. recv' \in BOOLEAN
    BY <1>3, Zenon
  <2>2. disconnected_sockets' \subseteq Connections /\ backlog' \in Seq(Connections)
    BY <1>3, <1>7
  <2> QED
    BY <1>1, <1>3, <1>6, <2>1, <2>2 DEF TypeOK
<1>9. Unused' = Unused /\ Range(backlog') = {} /\ IsInjective(backlog')
  BY <1>3 DEF Unused, Range, IsInjective
<1>10. ConnectionInv'
  BY <1>1, <1>3, <1>6, <1>9 DEF ConnectionInv
<1>11. NoDanglingSocket'
  BY <1>1, <1>3, <1>6 DEF NoDanglingSocket
<1>12. OwnerInv(own)'
  BY <1>2, <1>3 DEF OwnerInv
<1>13. SessionInv'
  <2>1. \A k : Accepted(k)' = Accepted(k)
    BY <1>3, AcceptedUnchanged
  <2>2. Live' = Live
    BY <1>6, <1>9 DEF Live
  <2> QED
    BY <1>3, <1>4, <2>1, <2>2 DEF SessionInv
<1>14. PendingInv'
  BY <1>3, <1>4 DEF PendingInv
<1>15. RequestsInOrder'
  BY <1>1, <1>3 DEF RequestsInOrder
<1>16. ResponseInv'
  BY <1>1, <1>3, ResponsesUnchanged
<1> QED
  BY <1>8, <1>10, <1>11, <1>12, <1>13, <1>14, <1>15, <1>16 DEF IInv

(* A read: what the connection held is in the receive buffer.              *)
LEMMA RecvDataStep ==
  ASSUME IInv, RecvData, UNCHANGED gateway
  PROVE  IInv'
<1>1. TypeOK /\ ConnectionInv /\ NoDanglingSocket /\ RequestsInOrder /\ ResponseInv
  BY DEF IInv
<1>2. PICK own : OwnerInv(own)
  BY DEF IInv
<1>3. PICK k : k = Socket
  OBVIOUS
<1>4. /\ server_pc = "recv" /\ server_pc' = "parse" /\ cursor <= Len(rcv_sockets)
      /\ up[k] # <<>> /\ rcv_buffer' = up[k] /\ up' = [up EXCEPT ![k] = <<>>]
      /\ rx_time' \in {Last(up[k]).time} \cup (IF KernelTime THEN {} ELSE {clock})
      /\ recv' = TRUE
      /\ UNCHANGED <<peer, backlog, down, clock>>
      /\ UNCHANGED <<rcv_sockets, disconnected_sockets, send_buffer, cursor>>
      /\ UNCHANGED <<cid_tcp_socket, cid_next_exp_seq_num, cid_next_outgoing_seq_num>>
      /\ UNCHANGED <<pending_client_requests, published, responses>>
      /\ UNCHANGED <<tcp_socket, next_outgoing_seq_num, next_exp_incoming_seq_num>>
  BY <1>3 DEF RecvData, sessions, engine, gateway
<1>5. SessionInv /\ PendingInv
  BY <1>4 DEF IInv
<1>6. k \in Range(rcv_sockets) /\ k \in Connections /\ rcv_sockets[cursor] = k
  <2>1. cursor \in DOMAIN rcv_sockets /\ rcv_sockets \in Seq(Connections)
    BY <1>1, <1>4 DEF TypeOK
  <2> QED
    BY <1>3, <2>1 DEF Socket, Range
<1>7. up[k] \in Seq(Messages)
  BY <1>1, <1>6 DEF TypeOK
<1>8. TypeOK'
  <2>1. recv' \in BOOLEAN
    BY <1>4, Zenon
  <2>2. <<>> \in Seq(Messages)
    OBVIOUS
  <2>3. up' \in [Connections -> Seq(Messages)]
    BY <1>1, <1>4, <2>2 DEF TypeOK
  <2>4. Len(up[k]) \in DOMAIN up[k]
    BY <1>4, <1>7, EmptySeq, LenProperties
  <2>5. Last(up[k]).time \in Nat
    <3>1. Last(up[k]) \in Messages
      BY <1>7, <2>4 DEF Last
    <3> QED
      BY <3>1 DEF Messages
  <2>6. rx_time' \in Nat
    BY <1>1, <1>4, <2>5 DEF TypeOK
  <2> QED
    BY <1>1, <1>4, <1>7, <2>1, <2>3, <2>6 DEF TypeOK
<1>9. Unused' = Unused
  BY <1>4 DEF Unused
<1>10. ConnectionInv'
  <2>1. \A j \in Unused : up'[j] = up[j]
    BY <1>1, <1>4, <1>6 DEF TypeOK, ConnectionInv, Unused
  <2> QED
    BY <1>1, <1>4, <1>9, <2>1 DEF ConnectionInv
<1>11. NoDanglingSocket'
  BY <1>1, <1>4 DEF NoDanglingSocket
<1>12. OwnerInv(own)'
  <2>1. \A j \in Connections : up'[j] = up[j] \/ up'[j] = <<>>
    BY <1>1, <1>4 DEF TypeOK
  <2>2. \A j \in Connections : \A i \in 1 .. Len(up'[j]) :
           up'[j][i].conn = j /\ up'[j][i].client_id = own[j]
    BY <1>2, <2>1 DEF OwnerInv
  <2>3. Socket' = k
    BY <1>3, <1>4 DEF Socket
  <2>4. \A i \in 1 .. Len(rcv_buffer') : rcv_buffer'[i].conn = k /\ rcv_buffer'[i].client_id = own[k]
    BY <1>2, <1>4, <1>6 DEF OwnerInv
  <2> QED
    BY <1>2, <1>4, <2>2, <2>3, <2>4 DEF OwnerInv
<1>13. SessionInv'
  <2>1. \A j : Accepted(j)' = Accepted(j)
    BY <1>4, AcceptedUnchanged
  <2>2. Live' = Live
    BY <1>4, <1>9 DEF Live
  <2> QED
    BY <1>4, <1>5, <2>1, <2>2 DEF SessionInv
<1>14. PendingInv'
  <2>1. \A x : WasRead(x) => WasRead(x)'
    BY <1>4 DEF WasRead
  <2>2. /\ \A j : Handled(j)' = Handled(j)
        /\ \A j, n : PendingOf(j, n)' = PendingOf(j, n)
    BY <1>4, AcceptedUnchanged
  <2> QED
    BY <1>4, <1>5, <2>1, <2>2 DEF PendingInv
<1>15. RequestsInOrder'
  BY <1>1, <1>4 DEF RequestsInOrder
<1>16. ResponseInv'
  BY <1>1, <1>4, ResponsesUnchanged
<1> QED
  BY <1>8, <1>10, <1>11, <1>12, <1>13, <1>14, <1>15, <1>16 DEF IInv

(* A part of the send buffer moves on: what is on its way stays the same.  *)
LEMMA FlushFollows ==
  ASSUME NEW c, NEW n \in Nat, NEW a \in Seq(Answers), NEW b \in Seq(Answers),
         NEW sent \in 0 .. Len(b), Follows(c, n, a), Follows(c, n + Len(a), b)
  PROVE  LET a2 == a \o SubSeq(b, 1, sent)
             b2 == SubSeq(b, sent + 1, Len(b))
         IN  /\ a2 \in Seq(Answers) /\ b2 \in Seq(Answers)
             /\ Len(a2) = Len(a) + sent /\ Len(b2) = Len(b) - sent
             /\ Follows(c, n, a2) /\ Follows(c, n + Len(a2), b2)
             /\ a = <<>> /\ b = <<>> => a2 = <<>> /\ b2 = <<>>
<1>0. PICK a2, b2 : a2 = a \o SubSeq(b, 1, sent) /\ b2 = SubSeq(b, sent + 1, Len(b))
  OBVIOUS
<1> DEFINE p == SubSeq(b, 1, sent)
<1>1. Len(a) \in Nat /\ Len(b) \in Nat /\ sent \in Nat
  BY LenProperties
<1>2. p \in Seq(Answers) /\ Len(p) = sent /\ \A i \in 1 .. sent : p[i] = b[i]
  BY <1>1, SubSeqProperties
<1>3. /\ b2 \in Seq(Answers) /\ Len(b2) = Len(b) - sent
      /\ \A i \in 1 .. Len(b) - sent : b2[i] = b[sent + i]
  <2>1. CASE sent = Len(b)
    <3>1. sent + 1 > Len(b)
      BY <1>1, <2>1
    <3>2. b2 = <<>>
      BY <1>0, <1>1, <2>1, <3>1, SubSeqProperties
    <3> QED
      BY <1>1, <2>1, <3>2
  <2>2. CASE sent # Len(b)
    <3>1. sent + 1 \in 1 .. Len(b) /\ Len(b) \in 1 .. Len(b) /\ sent + 1 <= Len(b)
      BY <1>1, <2>2
    <3>2. b2 \in Seq(Answers) /\ Len(b2) = Len(b) - (sent + 1) + 1
      BY <1>0, <1>1, <3>1, SubSeqProperties
    <3>3. \A i \in 1 .. Len(b) - (sent + 1) + 1 : b2[i] = b[(sent + 1) + i - 1]
      BY <1>0, <1>1, <3>1, SubSeqProperties
    <3>4. /\ Len(b) - (sent + 1) + 1 = Len(b) - sent
          /\ \A i \in 1 .. Len(b) - sent : (sent + 1) + i - 1 = sent + i
      BY <1>1
    <3> QED
      BY <3>2, <3>3, <3>4
  <2> QED
    BY <2>1, <2>2
<1> HIDE DEF p
<1>4. a2 = a \o p
  BY <1>0 DEF p
<1>5. /\ a2 \in Seq(Answers) /\ Len(a2) = Len(a) + sent
      /\ \A i \in 1 .. Len(a) + sent : a2[i] = IF i <= Len(a) THEN a[i] ELSE p[i - Len(a)]
  BY <1>1, <1>2, <1>4, ConcatProperties
<1>6. \A i \in 1 .. Len(a) : a[i] = Response(c, n + i - 1)
  BY Zenon DEF Follows
<1>7. \A i \in 1 .. Len(b) : b[i] = Response(c, n + Len(a) + i - 1)
  BY Zenon DEF Follows
<1>8. Follows(c, n, a2)
  <2>1. ASSUME NEW i \in 1 .. Len(a2) PROVE a2[i] = Response(c, n + i - 1)
    <3>1. CASE i <= Len(a)
      BY <1>1, <1>5, <1>6, <2>1, <3>1
    <3>2. CASE ~(i <= Len(a))
      <4>1. i - Len(a) \in 1 .. sent /\ i - Len(a) \in 1 .. Len(b) /\ a2[i] = p[i - Len(a)]
        BY <1>1, <1>5, <2>1, <3>2
      <4>2. n + Len(a) + (i - Len(a)) - 1 = n + i - 1
        BY <1>1, <4>1
      <4>3. a2[i] = b[i - Len(a)]
        BY <1>2, <4>1
      <4>4. b[i - Len(a)] = Response(c, n + Len(a) + (i - Len(a)) - 1)
        BY <1>7, <4>1, Zenon
      <4> QED
        BY <4>2, <4>3, <4>4
    <3> QED
      BY <3>1, <3>2
  <2> QED
    BY <2>1 DEF Follows
<1>9. Follows(c, n + Len(a2), b2)
  <2>1. ASSUME NEW i \in 1 .. Len(b2) PROVE b2[i] = Response(c, n + Len(a2) + i - 1)
    <3>1. sent + i \in 1 .. Len(b) /\ b2[i] = b[sent + i]
      BY <1>1, <1>3, <2>1
    <3>2. b[sent + i] = Response(c, n + Len(a) + (sent + i) - 1)
      BY <1>7, <3>1, Zenon
    <3>3. n + Len(a) + (sent + i) - 1 = n + Len(a2) + i - 1
      <4>1. n + Len(a) + (sent + i) - 1 = n + (Len(a) + sent) + i - 1
        BY <1>1, <3>1
      <4> QED
        BY <1>5, <4>1, Zenon
    <3> QED
      BY <3>1, <3>2, <3>3
  <2> QED
    BY <2>1 DEF Follows
<1>10. ASSUME a = <<>>, b = <<>> PROVE a2 = <<>> /\ b2 = <<>>
  <2>1. Len(a2) = 0 /\ Len(b2) = 0
    BY <1>1, <1>3, <1>5, <1>10
  <2> QED
    BY <1>3, <1>5, <2>1, EmptySeq
<1> QED
  BY <1>0, <1>3, <1>5, <1>8, <1>9, <1>10

(* The end of sendAndRecv for one socket.                                  *)
LEMMA FlushStep ==
  ASSUME IInv, NEW eof, server_pc \in {"recv", "parse"}, cursor <= Len(rcv_sockets), Flush(eof),
         UNCHANGED <<up, sessions, pending_client_requests, rcv_buffer, recv>>, UNCHANGED gateway
  PROVE  IInv'
<1>1. TypeOK /\ ConnectionInv /\ NoDanglingSocket /\ RequestsInOrder /\ ResponseInv
  BY DEF IInv
<1>2. PICK own : OwnerInv(own)
  BY DEF IInv
<1>3. PICK k : k = Socket
  OBVIOUS
<1>4. /\ server_pc' = "recv" /\ cursor' = cursor + 1
      /\ UNCHANGED <<peer, backlog, clock, up>>
      /\ UNCHANGED <<rcv_sockets, rx_time, recv, rcv_buffer>>
      /\ UNCHANGED <<cid_tcp_socket, cid_next_exp_seq_num, cid_next_outgoing_seq_num>>
      /\ UNCHANGED <<pending_client_requests, published, responses>>
      /\ UNCHANGED <<tcp_socket, next_outgoing_seq_num, next_exp_incoming_seq_num>>
  BY DEF Flush, sessions, engine, gateway
<1>5. SessionInv /\ PendingInv
  BY DEF IInv
<1>6. k \in Range(rcv_sockets) /\ k \in Connections /\ k \notin Unused
  <2>1. cursor \in DOMAIN rcv_sockets /\ rcv_sockets \in Seq(Connections)
    BY <1>1 DEF TypeOK
  <2>2. k \in Range(rcv_sockets) /\ k \in Connections
    BY <1>3, <2>1 DEF Socket, Range
  <2> QED
    BY <1>1, <2>2 DEF ConnectionInv
<1>7. /\ \A j \in Connections \ {k} : down'[j] = down[j] /\ send_buffer'[j] = send_buffer[j]
      /\ down' \in [Connections -> Seq(Answers)] /\ send_buffer' \in [Connections -> Seq(Answers)]
      /\ disconnected_sockets' \subseteq disconnected_sockets \cup {k}
      /\ k \in disconnected_sockets' \ disconnected_sockets => peer[k] \in {"fin", "rst"}
      /\ \A d \in Clients, n \in Nat : tcp_socket[d] = k /\ Coming(d, k, n) => Coming(d, k, n)'
  <2>1. /\ down \in [Connections -> Seq(Answers)] /\ send_buffer \in [Connections -> Seq(Answers)]
        /\ down[k] \in Seq(Answers) /\ send_buffer[k] \in Seq(Answers)
    BY <1>1, <1>6 DEF TypeOK
  <2>2. CASE peer[k] = "open"
    <3>1. PICK sent \in 0 .. Len(send_buffer[k]) :
             /\ down' = [down EXCEPT ![k] = @ \o SubSeq(send_buffer[k], 1, sent)]
             /\ send_buffer' = [send_buffer EXCEPT ![k] = SubSeq(@, sent + 1, Len(@))]
             /\ disconnected_sockets' = disconnected_sockets
      BY <1>3, <2>2 DEF Flush
    <3>2. /\ down'[k] = down[k] \o SubSeq(send_buffer[k], 1, sent)
          /\ send_buffer'[k] = SubSeq(send_buffer[k], sent + 1, Len(send_buffer[k]))
      BY <1>6, <2>1, <3>1
    <3>3. down'[k] \in Seq(Answers) /\ send_buffer'[k] \in Seq(Answers)
      <4>1. SubSeq(send_buffer[k], 1, sent) \in Seq(Answers)
        BY <2>1, <3>1, SubSeqProperties, LenProperties
      <4>2. SubSeq(send_buffer[k], sent + 1, Len(send_buffer[k])) \in Seq(Answers)
        BY <2>1, <3>1, SubSeqProperties, LenProperties
      <4> QED
        BY <2>1, <3>2, <4>1, <4>2, ConcatProperties
    <3>4. down' \in [Connections -> Seq(Answers)] /\ send_buffer' \in [Connections -> Seq(Answers)]
      BY <2>1, <3>1, <3>2, <3>3
    <3>5. ASSUME NEW d \in Clients, NEW n \in Nat, tcp_socket[d] = k, Coming(d, k, n)
          PROVE  Coming(d, k, n)'
      <4>1. Follows(d, n, down[k]) /\ Follows(d, n + Len(down[k]), send_buffer[k])
        BY <3>5 DEF Coming
      <4>2. /\ n + Len(down'[k]) + Len(send_buffer'[k]) = n + Len(down[k]) + Len(send_buffer[k])
            /\ Follows(d, n, down'[k]) /\ Follows(d, n + Len(down'[k]), send_buffer'[k])
            /\ down[k] = <<>> /\ send_buffer[k] = <<>> => down'[k] = <<>> /\ send_buffer'[k] = <<>>
        <5>1. PICK a \in Seq(Answers), b \in Seq(Answers) : a = down[k] /\ b = send_buffer[k]
          BY <2>1
        <5>2. sent \in 0 .. Len(b) /\ Follows(d, n, a) /\ Follows(d, n + Len(a), b)
          BY <3>1, <4>1, <5>1
        <5> DEFINE a2 == a \o SubSeq(b, 1, sent)
                   b2 == SubSeq(b, sent + 1, Len(b))
        <5>3. Follows(d, n, a2)
          BY <5>2, FlushFollows
        <5>4. Follows(d, n + Len(a2), b2)
          BY <5>2, FlushFollows
        <5>5. n + Len(a2) + Len(b2) = n + Len(a) + Len(b)
          <6>1. Len(a2) = Len(a) + sent /\ Len(b2) = Len(b) - sent
            BY <5>2, FlushFollows
          <6>2. n + (Len(a) + sent) + (Len(b) - sent) = n + Len(a) + Len(b)
            BY <5>2, LenProperties
          <6> HIDE DEF a2, b2
          <6> QED
            BY <6>1, <6>2, Zenon
        <5>6. a = <<>> /\ b = <<>> => a2 = <<>> /\ b2 = <<>>
          BY <5>2, FlushFollows
        <5>7. a2 = down'[k] /\ b2 = send_buffer'[k]
          BY <3>2, <5>1
        <5> HIDE DEF a2, b2
        <5> QED
          BY <5>1, <5>3, <5>4, <5>5, <5>6, <5>7, Zenon
      <4>3. IF d \in ClientIds /\ cid_tcp_socket'[d] = k
            THEN cid_next_outgoing_seq_num'[d] = n + Len(down'[k]) + Len(send_buffer'[k])
            ELSE n = 1 /\ down'[k] = <<>> /\ send_buffer'[k] = <<>>
        BY <1>4, <3>5, <4>2, Zenon DEF Coming
      <4> QED
        BY <4>2, <4>3, Zenon DEF Coming, Follows
    <3> QED
      BY <2>1, <3>1, <3>4, <3>5
  <2>3. CASE peer[k] # "open"
    <3>1. /\ down' = down /\ send_buffer' = [send_buffer EXCEPT ![k] = <<>>]
          /\ \E failed \in BOOLEAN : disconnected_sockets' = disconnected_sockets \cup
                                           (IF eof \/ failed THEN {k} ELSE {})
      BY <1>3, <2>3 DEF Flush
    <3>2. disconnected_sockets' \subseteq disconnected_sockets \cup {k}
      BY <3>1
    <3>3. peer[k] \in {"fin", "rst"}
      BY <1>1, <1>6, <2>3 DEF TypeOK, Unused
    <3>4. \A d \in Clients : tcp_socket[d] # k
      BY <1>1, <1>6, <2>3 DEF ConnectionInv, Connections, NoSocket
    <3>5. <<>> \in Seq(Answers)
      OBVIOUS
    <3>6. send_buffer' \in [Connections -> Seq(Answers)]
      BY <2>1, <3>1, <3>5
    <3>7. \A j \in Connections \ {k} : down'[j] = down[j] /\ send_buffer'[j] = send_buffer[j]
      BY <2>1, <3>1
    <3> QED
      BY <2>1, <3>1, <3>2, <3>3, <3>4, <3>6, <3>7, Zenon
  <2> QED
    BY <2>2, <2>3
<1>8. TypeOK'
  <2>1. cursor' \in Nat \ {0}
    BY <1>1, <1>4 DEF TypeOK
  <2>2. disconnected_sockets \subseteq Connections
    BY <1>1 DEF TypeOK
  <2>3. disconnected_sockets' \subseteq Connections
    BY <1>6, <1>7, <2>2
  <2> QED
    BY <1>1, <1>4, <1>7, <2>1, <2>3 DEF TypeOK
<1>9. Unused' = Unused
  BY <1>4 DEF Unused
<1>10. ConnectionInv'
  <2>1. \A j \in Unused : down'[j] = down[j] /\ send_buffer'[j] = send_buffer[j]
    BY <1>6, <1>7 DEF Unused
  <2>2. \A j \in disconnected_sockets' : j \in Range(rcv_sockets) /\ peer[j] \in {"fin", "rst"}
    BY <1>1, <1>6, <1>7 DEF ConnectionInv
  <2> QED
    BY <1>1, <1>4, <1>9, <2>1, <2>2 DEF ConnectionInv
<1>11. NoDanglingSocket'
  BY <1>1, <1>4 DEF NoDanglingSocket
<1>12. OwnerInv(own)'
  BY <1>2, <1>4 DEF OwnerInv
<1>13. SessionInv'
  <2>1. \A j : Accepted(j)' = Accepted(j)
    BY <1>4, AcceptedUnchanged
  <2>2. Live' = Live
    BY <1>4, <1>9 DEF Live
  <2> QED
    BY <1>4, <1>5, <2>1, <2>2 DEF SessionInv
<1>14. PendingInv'
  <2>1. \A x : WasRead(x) => WasRead(x)'
    BY <1>1, <1>4 DEF WasRead, TypeOK
  <2>2. /\ \A j : Handled(j)' = Handled(j)
        /\ \A j, n : PendingOf(j, n)' = PendingOf(j, n)
    BY <1>4, AcceptedUnchanged
  <2> QED
    BY <1>4, <1>5, <2>1, <2>2 DEF PendingInv
<1>15. RequestsInOrder'
  BY <1>1, <1>4 DEF RequestsInOrder
<1>16. ResponseInv'
  <2> SUFFICES ASSUME NEW d \in Clients, NEW j \in Connections, NEW n \in Nat,
                      tcp_socket'[d] = j, next_exp_incoming_seq_num'[d] = n
               PROVE  Coming(d, j, n)'
    BY DEF ResponseInv
  <2>1. tcp_socket[d] = j /\ Coming(d, j, n)
    BY <1>1, <1>4 DEF ResponseInv
  <2>2. CASE j = k
    BY <1>7, <2>1, <2>2
  <2>3. CASE j # k
    <3>1. down'[j] = down[j] /\ send_buffer'[j] = send_buffer[j]
      BY <1>7, <2>3
    <3> QED
      BY <1>4, <2>1, <3>1, ComingUnchanged
  <2> QED
    BY <2>2, <2>3
<1> QED
  BY <1>8, <1>10, <1>11, <1>12, <1>13, <1>14, <1>15, <1>16 DEF IInv

(* What the pending requests are after one more.                           *)
LEMMA AppendPending ==
  ASSUME NEW s \in Seq(Entries), pending_client_requests = s, NEW x \in Entries,
         pending_client_requests' = Append(s, x), published' = published
  PROVE  /\ \A j, n : n \in 0 .. Len(s) => PendingOf(j, n)' = PendingOf(j, n)
         /\ \A j : Handled(j)' = Handled(j)
         /\ \A j : j # x.request.conn => Accepted(j)' = Accepted(j)
         /\ Accepted(x.request.conn)' = Accepted(x.request.conn) \cup {x.request.seq}
<1> DEFINE t == Append(s, x)
           Places(j, n) == { m \in 1 .. n : s[m].request.conn = j }
           NewPlaces(j, n) == { m \in 1 .. n : t[m].request.conn = j }
<1>1. Len(s) \in Nat /\ Len(t) = Len(s) + 1 /\ t[Len(s) + 1] = x /\ \A m \in 1 .. Len(s) : t[m] = s[m]
  OBVIOUS
<1>2. \A j : Handled(j)' = Handled(j)
  BY DEF Handled
<1>3. \A j, n : /\ PendingOf(j, n) = { s[i].request.seq : i \in Places(j, n) }
                /\ PendingOf(j, n)' = { t[i].request.seq : i \in NewPlaces(j, n) }
  BY DEF PendingOf
<1> HIDE DEF t
<1>4. ASSUME NEW j, NEW n \in 0 .. Len(s) PROVE PendingOf(j, n)' = PendingOf(j, n)
  <2>1. Places(j, n) = NewPlaces(j, n)
    BY <1>1
  <2>2. \A i \in Places(j, n) : t[i] = s[i]
    BY <1>1
  <2> HIDE DEF Places, NewPlaces
  <2> QED
    BY <1>3, <2>1, <2>2
<1>5. ASSUME NEW j, j # x.request.conn
      PROVE  PendingOf(j, Len(s) + 1)' = PendingOf(j, Len(s))
  <2>1. Places(j, Len(s)) = NewPlaces(j, Len(s) + 1)
    BY <1>1, <1>5
  <2>2. \A i \in Places(j, Len(s)) : t[i] = s[i]
    BY <1>1
  <2> HIDE DEF Places, NewPlaces
  <2> QED
    BY <1>3, <2>1, <2>2
<1>6. PendingOf(x.request.conn, Len(s) + 1)' = PendingOf(x.request.conn, Len(s)) \cup {x.request.seq}
  <2> DEFINE j == x.request.conn
  <2>1. NewPlaces(j, Len(s) + 1) = Places(j, Len(s)) \cup {Len(s) + 1}
    BY <1>1
  <2>2. \A i \in Places(j, Len(s)) : t[i] = s[i]
    BY <1>1
  <2>3. t[Len(s) + 1] = x
    BY <1>1
  <2> HIDE DEF Places, NewPlaces
  <2> QED
    BY <1>3, <2>1, <2>2, <2>3
<1>7. Len(pending_client_requests') = Len(s) + 1
  BY <1>1 DEF t
<1>8. \A j : /\ Accepted(j) = Handled(j) \cup PendingOf(j, Len(s))
             /\ Accepted(j)' = Handled(j)' \cup PendingOf(j, Len(s) + 1)'
  BY <1>7 DEF Accepted, PendingOf
<1> QED
  BY <1>2, <1>4, <1>5, <1>6, <1>8

(* One message of the receive buffer.                                      *)
LEMMA ParseRequestStep ==
  ASSUME IInv, ParseRequest, UNCHANGED gateway
  PROVE  IInv'
<1>1. TypeOK /\ ConnectionInv /\ NoDanglingSocket /\ RequestsInOrder /\ ResponseInv
  BY DEF IInv
<1>2. PICK own : OwnerInv(own)
  BY DEF IInv
<1>3. PICK k, msg, c : k = Socket /\ msg = Head(rcv_buffer) /\ c = msg.client_id
  OBVIOUS
<1>4. /\ server_pc = "parse" /\ rcv_buffer # <<>> /\ rcv_buffer' = Tail(rcv_buffer)
      /\ UNCHANGED <<rcv_sockets, disconnected_sockets, send_buffer, published, responses>>
      /\ UNCHANGED <<cursor, rx_time, recv, peer, backlog, up, down, clock>>
      /\ UNCHANGED <<tcp_socket, next_outgoing_seq_num, next_exp_incoming_seq_num>>
  BY DEF ParseRequest, engine, gateway, network
<1>5. SessionInv /\ PendingInv
  BY <1>4 DEF IInv
<1>6. /\ cursor \in 1 .. Len(rcv_sockets) /\ rcv_sockets[cursor] = k
      /\ k \in Range(rcv_sockets) /\ k \in Connections /\ k # NoSocket
  <2>1. cursor \in DOMAIN rcv_sockets /\ cursor \in 1 .. Len(rcv_sockets) /\ rcv_sockets \in Seq(Connections)
    BY <1>1, <1>2, <1>4 DEF TypeOK, OwnerInv
  <2>2. rcv_sockets[cursor] = k
    BY <1>3 DEF Socket
  <2>3. k \in Range(rcv_sockets) /\ k \in Connections
    BY <2>1, <2>2 DEF Range
  <2> QED
    BY <2>1, <2>2, <2>3 DEF Connections, NoSocket
<1>7. /\ msg \in Messages /\ msg.conn = k /\ c = own[k] /\ rcv_buffer \in Seq(Messages)
      /\ rcv_buffer' \in Seq(Messages) /\ Len(rcv_buffer') = Len(rcv_buffer) - 1
      /\ \A i \in 1 .. Len(rcv_buffer') : i + 1 \in 1 .. Len(rcv_buffer) /\ rcv_buffer'[i] = rcv_buffer[i + 1]
  <2>1. rcv_buffer \in Seq(Messages) /\ 1 \in 1 .. Len(rcv_buffer) /\ msg = rcv_buffer[1]
    BY <1>1, <1>3, <1>4, EmptySeq, LenProperties DEF TypeOK
  <2>2. msg \in Messages
    BY <2>1
  <2>3. rcv_buffer[1].conn = k /\ rcv_buffer[1].client_id = own[k]
    BY <1>2, <1>3, <1>4, <2>1 DEF OwnerInv
  <2>4. /\ rcv_buffer' \in Seq(Messages) /\ Len(rcv_buffer') = Len(rcv_buffer) - 1
        /\ \A i \in 1 .. Len(rcv_buffer') : i + 1 \in 1 .. Len(rcv_buffer) /\ rcv_buffer'[i] = rcv_buffer[i + 1]
    BY <1>4, <2>1, HeadTailProperties
  <2> QED
    BY <1>3, <2>1, <2>2, <2>3, <2>4
<1>8. \/ UNCHANGED <<cid_tcp_socket, cid_next_exp_seq_num, cid_next_outgoing_seq_num,
                     pending_client_requests, server_pc>>
      \/ /\ c \in ClientIds /\ cid_tcp_socket[c] \in {NoSocket, k}
         /\ cid_tcp_socket' = [cid_tcp_socket EXCEPT ![c] = k]
         /\ cid_next_outgoing_seq_num' = cid_next_outgoing_seq_num
         /\ \/ UNCHANGED <<cid_next_exp_seq_num, pending_client_requests, server_pc>>
            \/ /\ msg.seq = cid_next_exp_seq_num[c]
               /\ cid_next_exp_seq_num' = [cid_next_exp_seq_num EXCEPT ![c] = @ + 1]
               /\ pending_client_requests' = Append(pending_client_requests,
                     [recv_time |-> rx_time, request |-> msg,
                      arrival_index |-> Len(pending_client_requests)])
               /\ server_pc' = server_pc
            \/ /\ cid_next_exp_seq_num' = [cid_next_exp_seq_num EXCEPT ![c] = @ + 1]
               /\ server_pc' = "exited" /\ pending_client_requests' = pending_client_requests
  BY <1>3, <1>6 DEF ParseRequest, sessions, Registered, InSequence, addClientRequest
<1>9. PICK entry : entry = [recv_time |-> rx_time, request |-> msg,
                            arrival_index |-> Len(pending_client_requests)]
  OBVIOUS
<1>10. entry \in Entries /\ entry.request = msg /\ entry.recv_time = rx_time
       /\ entry.arrival_index = Len(pending_client_requests)
  <2>1. Len(pending_client_requests) \in Nat /\ rx_time \in Nat
    BY <1>1 DEF TypeOK
  <2> QED
    BY <1>7, <1>9, <2>1 DEF Entries
<1>11. /\ \A d \in ClientIds : \/ cid_tcp_socket'[d] = cid_tcp_socket[d]
                               \/ d = c /\ cid_tcp_socket[d] = NoSocket /\ cid_tcp_socket'[d] = k
       /\ cid_tcp_socket' \in [ClientIds -> Sockets]
       /\ UNCHANGED cid_next_outgoing_seq_num
  BY <1>1, <1>6, <1>8 DEF TypeOK, Sockets
<1>12. TypeOK'
  <2>1. cid_next_exp_seq_num' \in [ClientIds -> Nat \ {0}]
    BY <1>1, <1>8 DEF TypeOK
  <2>2. pending_client_requests' \in Seq(Entries)
    <3>1. pending_client_requests' = pending_client_requests
          \/ pending_client_requests' = Append(pending_client_requests, entry)
      BY <1>8, <1>9, Zenon
    <3>2. pending_client_requests \in Seq(Entries)
      BY <1>1 DEF TypeOK
    <3>3. Append(pending_client_requests, entry) \in Seq(Entries)
      BY <1>10, <3>2, AppendProperties
    <3> QED
      BY <3>1, <3>2, <3>3
  <2>3. server_pc' \in {"parse", "exited"}
    BY <1>4, <1>8
  <2> QED
    BY <1>1, <1>4, <1>7, <1>11, <2>1, <2>2, <2>3 DEF TypeOK
<1>13. Unused' = Unused
  BY <1>4 DEF Unused
<1>14. ConnectionInv'
  BY <1>1, <1>4, <1>13 DEF ConnectionInv
<1>15. NoDanglingSocket'
  BY <1>1, <1>4, <1>6, <1>11 DEF NoDanglingSocket
<1>16. OwnerInv(own)'
  <2>1. Socket' = k
    BY <1>3, <1>4 DEF Socket
  <2>2. \A i \in 1 .. Len(rcv_buffer') : rcv_buffer'[i].conn = k /\ rcv_buffer'[i].client_id = own[k]
    BY <1>2, <1>3, <1>4, <1>7 DEF OwnerInv
  <2>3. \A d \in ClientIds : cid_tcp_socket'[d] # NoSocket => own[cid_tcp_socket'[d]] = d
    BY <1>2, <1>7, <1>11 DEF OwnerInv
  <2>4. cursor <= Len(rcv_sockets)
    BY <1>6
  <2> QED
    BY <1>2, <1>4, <2>1, <2>2, <2>3, <2>4 DEF OwnerInv
<1>17. RequestsInOrder'
  BY <1>1, <1>4 DEF RequestsInOrder
<1>18. ResponseInv'
  <2> SUFFICES ASSUME NEW d \in Clients, NEW j \in Connections, NEW n \in Nat,
                      tcp_socket'[d] = j, next_exp_incoming_seq_num'[d] = n
               PROVE  Coming(d, j, n)'
    BY DEF ResponseInv
  <2>1. Coming(d, j, n)
    BY <1>1, <1>4 DEF ResponseInv
  <2>2. CASE ~(d \in ClientIds) \/ cid_tcp_socket'[d] = cid_tcp_socket[d]
    BY <1>4, <1>11, <2>1, <2>2, ComingUnchanged
  <2>3. CASE d \in ClientIds /\ cid_tcp_socket'[d] # cid_tcp_socket[d]
    <3>1. d = c /\ cid_tcp_socket[d] = NoSocket /\ cid_tcp_socket'[d] = k /\ j # NoSocket
      BY <1>11, <2>3 DEF Connections, NoSocket
    <3>2. n = 1 /\ down[j] = <<>> /\ send_buffer[j] = <<>>
      BY <2>1, <3>1 DEF Coming
    <3>3. cid_next_outgoing_seq_num'[d] = n + Len(down'[j]) + Len(send_buffer'[j])
      <4>1. cid_next_outgoing_seq_num'[d] = 1
        BY <1>5, <1>11, <2>3, <3>1 DEF SessionInv
      <4> QED
        BY <1>4, <3>2, <4>1
    <3>4. Follows(d, n, down'[j]) /\ Follows(d, n + Len(down'[j]), send_buffer'[j])
      BY <1>4, <2>1, Zenon DEF Coming
    <3>5. n = 1 /\ down'[j] = <<>> /\ send_buffer'[j] = <<>>
      BY <1>4, <3>2
    <3> QED
      BY <3>3, <3>4, <3>5, Zenon DEF Coming, Follows
  <2> QED
    BY <2>2, <2>3
<1>19. Live' = Live
  BY <1>4, <1>13 DEF Live
<1>20. CASE UNCHANGED <<cid_tcp_socket, cid_next_exp_seq_num, cid_next_outgoing_seq_num,
                        pending_client_requests, server_pc>>
  <2>1. UNCHANGED sessionVars
    BY <1>4, <1>20 DEF sessionVars, sessions
  <2>2. SessionInv' /\ PendingInv'
    BY <1>5, <1>19, <2>1, SessionsUnchanged
  <2> QED
    BY <1>12, <1>14, <1>15, <1>16, <1>17, <1>18, <2>2 DEF IInv
<1>21. CASE server_pc' = "exited"
  BY <1>12, <1>14, <1>15, <1>16, <1>17, <1>18, <1>21 DEF IInv
<1>22. ASSUME c \in ClientIds, cid_tcp_socket[c] \in {NoSocket, k}
       PROVE  Accepted(k) = 1 .. cid_next_exp_seq_num[c] - 1
  <2>1. CASE cid_tcp_socket[c] = k
    BY <1>5, <1>6, <1>22, <2>1 DEF SessionInv
  <2>2. CASE cid_tcp_socket[c] = NoSocket
    <3>1. k \notin Range(cid_tcp_socket)
      <4>1. \A d \in ClientIds : cid_tcp_socket[d] = k => d = c
        BY <1>2, <1>6, <1>7 DEF OwnerInv
      <4>2. DOMAIN cid_tcp_socket = ClientIds
        BY <1>1 DEF TypeOK
      <4> QED
        BY <1>6, <2>2, <4>1, <4>2 DEF Range
    <3>2. k \in Live
      BY <1>6 DEF Live
    <3>3. Accepted(k) = {}
      BY <1>5, <3>1, <3>2 DEF SessionInv
    <3>4. cid_next_exp_seq_num[c] = 1
      BY <1>5, <1>22, <2>2 DEF SessionInv
    <3> QED
      BY <3>3, <3>4
  <2> QED
    BY <1>22, <2>1, <2>2
<1>23. ASSUME c \in ClientIds, cid_tcp_socket[c] \in {NoSocket, k},
              cid_tcp_socket' = [cid_tcp_socket EXCEPT ![c] = k],
              \A d \in ClientIds \ {c} : cid_next_exp_seq_num'[d] = cid_next_exp_seq_num[d],
              \A j : j # k => Accepted(j)' = Accepted(j),
              Accepted(k)' = 1 .. cid_next_exp_seq_num'[c] - 1
       PROVE  SessionInv'
  <2>1. cid_tcp_socket'[c] = k /\ \A d \in ClientIds \ {c} : cid_tcp_socket'[d] = cid_tcp_socket[d]
    BY <1>1, <1>23 DEF TypeOK
  <2>2. \A d \in ClientIds : cid_tcp_socket[d] = k => d = c
    BY <1>2, <1>6, <1>7 DEF OwnerInv
  <2>3. ASSUME NEW d \in ClientIds
        PROVE  /\ cid_tcp_socket'[d] = NoSocket =>
                    cid_next_exp_seq_num'[d] = 1 /\ cid_next_outgoing_seq_num'[d] = 1
               /\ \A j \in Connections : cid_tcp_socket'[d] = j =>
                    Accepted(j)' = 1 .. cid_next_exp_seq_num'[d] - 1
    <3>1. CASE d = c
      BY <1>6, <1>23, <2>1, <3>1
    <3>2. CASE d # c
      <4>1. /\ cid_tcp_socket'[d] = cid_tcp_socket[d] /\ cid_tcp_socket[d] # k
            /\ cid_next_exp_seq_num'[d] = cid_next_exp_seq_num[d]
            /\ cid_next_outgoing_seq_num'[d] = cid_next_outgoing_seq_num[d]
        BY <1>11, <1>23, <2>1, <2>2, <3>2
      <4> QED
        BY <1>5, <1>23, <4>1 DEF SessionInv
    <3> QED
      BY <3>1, <3>2
  <2>4. ASSUME NEW j \in Live', j \notin Range(cid_tcp_socket') PROVE Accepted(j)' = {}
    <3>1. DOMAIN cid_tcp_socket' = ClientIds /\ DOMAIN cid_tcp_socket = ClientIds
      BY <1>1, <1>11 DEF TypeOK
    <3>2. j # k
      BY <1>23, <2>1, <2>4, <3>1 DEF Range
    <3>3. j # NoSocket
      <4>1. Live \subseteq Connections
        BY <1>1 DEF Live, TypeOK, Unused, Range
      <4> QED
        BY <1>19, <4>1 DEF Connections, NoSocket
    <3>4. j \notin Range(cid_tcp_socket)
      BY <1>23, <2>1, <2>4, <3>1, <3>2, <3>3 DEF Range
    <3> QED
      BY <1>5, <1>19, <1>23, <2>4, <3>2, <3>4 DEF SessionInv
  <2> QED
    BY <2>3, <2>4 DEF SessionInv
<1>24. CASE /\ c \in ClientIds /\ cid_tcp_socket[c] \in {NoSocket, k}
            /\ cid_tcp_socket' = [cid_tcp_socket EXCEPT ![c] = k]
            /\ UNCHANGED <<cid_next_exp_seq_num, pending_client_requests, server_pc>>
  <2>1. /\ \A j : Handled(j)' = Handled(j) /\ Accepted(j)' = Accepted(j)
        /\ \A j, n : PendingOf(j, n)' = PendingOf(j, n)
    BY <1>4, <1>24, AcceptedUnchanged
  <2>2. Accepted(k)' = 1 .. cid_next_exp_seq_num'[c] - 1
    BY <1>22, <1>24, <2>1
  <2>3. SessionInv'
    BY <1>23, <1>24, <2>1, <2>2
  <2>4. \A x : WasRead(x)' <=> WasRead(x)
    BY <1>4, <1>24, Zenon DEF WasRead
  <2>5. PendingInv'
    BY <1>4, <1>5, <1>24, <2>1, <2>4 DEF PendingInv
  <2> QED
    BY <1>12, <1>14, <1>15, <1>16, <1>17, <1>18, <2>3, <2>5 DEF IInv
<1>25. CASE /\ c \in ClientIds /\ cid_tcp_socket[c] \in {NoSocket, k}
            /\ cid_tcp_socket' = [cid_tcp_socket EXCEPT ![c] = k]
            /\ msg.seq = cid_next_exp_seq_num[c]
            /\ cid_next_exp_seq_num' = [cid_next_exp_seq_num EXCEPT ![c] = @ + 1]
            /\ pending_client_requests' = Append(pending_client_requests, entry)
            /\ server_pc' = server_pc
  <2>1. PICK s \in Seq(Entries) : s = pending_client_requests
    BY <1>1 DEF TypeOK
  <2>2. /\ \A j, n : n \in 0 .. Len(s) => PendingOf(j, n)' = PendingOf(j, n)
        /\ \A j : Handled(j)' = Handled(j)
        /\ \A j : j # k => Accepted(j)' = Accepted(j)
        /\ Accepted(k)' = Accepted(k) \cup {msg.seq}
    BY <1>4, <1>7, <1>10, <1>25, <2>1, AppendPending
  <2>3. Accepted(k) = 1 .. msg.seq - 1 /\ msg.seq \in Nat
    BY <1>7, <1>22, <1>25 DEF Messages
  <2>4. cid_next_exp_seq_num'[c] = msg.seq + 1
    BY <1>1, <1>25 DEF TypeOK
  <2>5. msg.seq >= 1
    BY <1>1, <1>25 DEF TypeOK
  <2>6. Accepted(k)' = 1 .. cid_next_exp_seq_num'[c] - 1
    BY <2>2, <2>3, <2>4, <2>5
  <2>7. \A d \in ClientIds \ {c} : cid_next_exp_seq_num'[d] = cid_next_exp_seq_num[d]
    BY <1>1, <1>25 DEF TypeOK
  <2>8. SessionInv'
    BY <1>23, <1>25, <2>2, <2>6, <2>7
  <2>9. PendingInv'
    <3>1. /\ Len(s) \in Nat /\ Len(pending_client_requests') = Len(s) + 1
          /\ pending_client_requests'[Len(s) + 1] = entry
          /\ \A i \in 1 .. Len(s) : pending_client_requests'[i] = s[i]
      BY <1>25, <2>1
    <3>2. \A x : WasRead(x)' <=> WasRead(x)
      BY <1>4, <1>25, Zenon DEF WasRead
    <3>3. WasRead(entry)
      BY <1>4, <1>6, <1>7, <1>10 DEF WasRead
    <3>4. \A i \in 1 .. Len(s) + 1 : \/ i \in 1 .. Len(s) /\ pending_client_requests'[i] = s[i]
                                     \/ i = Len(s) + 1 /\ pending_client_requests'[i] = entry
      BY <3>1
    <3>5. \A i \in 1 .. Len(s) : s[i].arrival_index = i - 1 /\ WasRead(s[i])
      BY <1>5, <2>1 DEF PendingInv
    <3>6. \A i \in 1 .. Len(s) + 1 :
             /\ pending_client_requests'[i].arrival_index = i - 1
             /\ WasRead(pending_client_requests'[i])
      BY <1>10, <2>1, <3>1, <3>3, <3>4, <3>5
    <3>7. ASSUME NEW i \in 1 .. Len(s) + 1, NEW j \in Connections,
                 pending_client_requests'[i].request.conn = j
          PROVE  Handled(j)' \cup PendingOf(j, i - 1)' = 1 .. pending_client_requests'[i].request.seq - 1
      <4>1. Handled(j)' = Handled(j) /\ PendingOf(j, i - 1)' = PendingOf(j, i - 1)
        BY <2>2, <3>1
      <4>2. CASE i \in 1 .. Len(s)
        BY <1>5, <2>1, <3>1, <3>7, <4>1, <4>2 DEF PendingInv
      <4>3. CASE i = Len(s) + 1
        <5>1. j = k /\ i - 1 = Len(s) /\ pending_client_requests'[i] = entry
          BY <1>7, <1>10, <3>1, <3>7, <4>3
        <5>2. Accepted(k) = Handled(k) \cup PendingOf(k, Len(s))
          BY <2>1 DEF Accepted
        <5> QED
          BY <1>10, <2>3, <4>1, <5>1, <5>2
      <4> QED
        BY <3>4, <4>2, <4>3
    <3>8. \A i \in 1 .. Len(s) : s[i].request.conn = k => s[i].recv_time = rx_time
      <4>1. ASSUME NEW i \in 1 .. Len(s), s[i].request.conn = k PROVE s[i].recv_time = rx_time
        <5>1. PICK m \in 1 .. Len(rcv_sockets) :
                 /\ rcv_sockets[m] = k
                 /\ m < cursor \/ (m = cursor /\ server_pc = "parse" /\ s[i].recv_time = rx_time)
          BY <3>5, <4>1 DEF WasRead
        <5>2. m = cursor
          <6>1. IsInjective(rcv_sockets) /\ DOMAIN rcv_sockets = 1 .. Len(rcv_sockets)
            BY <1>1 DEF ConnectionInv, TypeOK
          <6> QED
            BY <1>6, <5>1, <6>1 DEF IsInjective
        <5> QED
          BY <1>6, <5>1, <5>2
      <4> QED
        BY <4>1
    <3>9. \A i, j \in 1 .. Len(s) : s[i].request.conn = s[j].request.conn => s[i].recv_time = s[j].recv_time
      <4>1. \A i, j \in 1 .. Len(pending_client_requests) :
              pending_client_requests[i].request.conn = pending_client_requests[j].request.conn =>
                pending_client_requests[i].recv_time = pending_client_requests[j].recv_time
        BY <1>5, Zenon DEF PendingInv
      <4> QED
        BY <2>1, <4>1
    <3>10. \A i, j \in 1 .. Len(s) + 1 :
              pending_client_requests'[i].request.conn = pending_client_requests'[j].request.conn =>
                pending_client_requests'[i].recv_time = pending_client_requests'[j].recv_time
      <4>1. ASSUME NEW i \in 1 .. Len(s) + 1, NEW j \in 1 .. Len(s) + 1,
                   pending_client_requests'[i].request.conn = pending_client_requests'[j].request.conn
            PROVE  pending_client_requests'[i].recv_time = pending_client_requests'[j].recv_time
        <5>1. CASE i \in 1 .. Len(s) /\ j \in 1 .. Len(s)
          <6>1. pending_client_requests'[i] = s[i] /\ pending_client_requests'[j] = s[j]
            BY <3>1, <5>1
          <6> QED
            BY <3>9, <4>1, <5>1, <6>1
        <5>2. CASE i \in 1 .. Len(s) /\ j = Len(s) + 1
          BY <1>7, <1>10, <3>1, <3>8, <4>1, <5>2
        <5>3. CASE i = Len(s) + 1 /\ j \in 1 .. Len(s)
          BY <1>7, <1>10, <3>1, <3>8, <4>1, <5>3
        <5>4. CASE i = Len(s) + 1 /\ j = Len(s) + 1
          BY <5>4
        <5> QED
          BY <3>1, <5>1, <5>2, <5>3, <5>4
      <4> QED
        BY <4>1
    <3>11. recv
      BY <1>4, <1>5 DEF PendingInv
    <3>12. \A i \in 1 .. Len(s) + 1 : WasRead(pending_client_requests[i])'
      <4>1. \A x, y : x = y => (WasRead(x)' <=> WasRead(y))
        BY <3>2
      <4> QED
        BY <3>6, <4>1, <1>4, <1>25 DEF WasRead
    <3>13. server_pc' = "parse" /\ recv'
      BY <1>4, <1>25, <3>11
    <3>14. ~(server_pc' \in {"reap", "accept", "respond"} \/ ~recv')
      BY <3>13
    <3>15. \A i \in 1 .. Len(pending_client_requests') :
              pending_client_requests'[i].arrival_index = i - 1 /\ WasRead(pending_client_requests[i])'
      BY <3>1, <3>6, <3>12
    <3>16. \A i \in 1 .. Len(pending_client_requests') : \A j \in Connections :
              pending_client_requests'[i].request.conn = j =>
                Handled(j)' \cup PendingOf(j, i - 1)' = 1 .. pending_client_requests'[i].request.seq - 1
      BY <3>1, <3>7
    <3>17. \A i, j \in 1 .. Len(pending_client_requests') :
              pending_client_requests'[i].request.conn = pending_client_requests'[j].request.conn =>
                pending_client_requests'[i].recv_time = pending_client_requests'[j].recv_time
      BY <3>1, <3>10
    <3> QED
      BY <3>13, <3>14, <3>15, <3>16, <3>17, Zenon DEF PendingInv
  <2> QED
    BY <1>12, <1>14, <1>15, <1>16, <1>17, <1>18, <2>8, <2>9 DEF IInv
<1> QED
  BY <1>8, <1>9, <1>20, <1>21, <1>24, <1>25, Zenon

(* A sorted round: the requests of a connection come out in the order in   *)
(* which they were read, since they have the time of one read.             *)
LEMMA SortKeepsOrder ==
  ASSUME TypeOK, PendingInv,
         NEW s \in Seq(Entries), s = pending_client_requests,
         NEW order \in Bijection(1 .. Len(s), 1 .. Len(s)),
         \A i, j \in 1 .. Len(s) : i < j => Precedes(s[order[i]], s[order[j]])
  PROVE  /\ order \in [1 .. Len(s) -> 1 .. Len(s)]
         /\ \A i \in 1 .. Len(s) : \E a \in 1 .. Len(s) : order[a] = i
         /\ \A a, b \in 1 .. Len(s) : s[order[a]].request.conn = s[order[b]].request.conn =>
               (a < b <=> order[a] < order[b])
<1>1. /\ order \in [1 .. Len(s) -> 1 .. Len(s)]
      /\ \A i \in 1 .. Len(s) : \E a \in 1 .. Len(s) : order[a] = i
      /\ \A a, b \in 1 .. Len(s) : order[a] = order[b] => a = b
  BY DEF Bijection, Injection, Surjection, IsInjective
<1>2. \A i \in 1 .. Len(s) : s[i].arrival_index = i - 1 /\ s[i].recv_time \in Nat
  <2>1. \A i \in 1 .. Len(s) : s[i].arrival_index = i - 1
    BY DEF PendingInv
  <2>2. \A i \in 1 .. Len(s) : s[i] \in Entries
    OBVIOUS
  <2>3. \A x \in Entries : x.recv_time \in Nat
    BY DEF Entries
  <2> QED
    BY <2>1, <2>2, <2>3
<1>3. \A i, j \in 1 .. Len(s) : s[i].request.conn = s[j].request.conn => s[i].recv_time = s[j].recv_time
  <2>1. \A i, j \in 1 .. Len(pending_client_requests) :
           pending_client_requests[i].request.conn = pending_client_requests[j].request.conn =>
             pending_client_requests[i].recv_time = pending_client_requests[j].recv_time
    BY Zenon DEF PendingInv
  <2> QED
    BY <2>1
<1>4. ASSUME NEW a \in 1 .. Len(s), NEW b \in 1 .. Len(s), a < b,
             s[order[a]].request.conn = s[order[b]].request.conn
      PROVE  order[a] < order[b]
  <2>1. PICK i \in 1 .. Len(s), j \in 1 .. Len(s) : i = order[a] /\ j = order[b]
    BY <1>1
  <2>2. Precedes(s[i], s[j]) /\ s[i].recv_time = s[j].recv_time
    BY <1>3, <1>4, <2>1
  <2>3. s[i].arrival_index < s[j].arrival_index
    BY <1>2, <2>2 DEF Precedes
  <2>4. s[i].arrival_index = i - 1 /\ s[j].arrival_index = j - 1
    BY <1>2
  <2> QED
    BY <2>1, <2>3, <2>4
<1>5. ASSUME NEW a \in 1 .. Len(s), NEW b \in 1 .. Len(s), order[a] < order[b],
             s[order[a]].request.conn = s[order[b]].request.conn
      PROVE  a < b
  <2>0. order[a] \in 1 .. Len(s) /\ order[b] \in 1 .. Len(s)
    BY <1>1, Zenon
  <2>1. order[a] \in Int /\ order[b] \in Int /\ a \in Int /\ b \in Int
    BY <2>0
  <2>2. ~(order[b] < order[a]) /\ order[a] # order[b]
    BY <1>5, <2>1
  <2>3. ~(b < a)
    BY <1>4, <1>5, <2>2
  <2>4. a # b
    BY <2>2
  <2> QED
    BY <2>1, <2>3, <2>4
<1> QED
  BY <1>1, <1>4, <1>5

(* What the engine has been handed after a round, position by position.    *)
LEMMA PublishRound ==
  ASSUME TypeOK, PendingInv, RequestsInOrder,
         NEW s \in Seq(Entries), s = pending_client_requests,
         NEW order \in Bijection(1 .. Len(s), 1 .. Len(s)),
         \A i, j \in 1 .. Len(s) : i < j => Precedes(s[order[i]], s[order[j]]),
         published' = published \o [i \in 1 .. Len(s) |-> s[order[i]].request]
  PROVE  /\ published' \in Seq(Messages)
         /\ RequestsInOrder'
         /\ \A k : Handled(k)' = Accepted(k)
<1> DEFINE q == [i \in 1 .. Len(s) |-> s[order[i]].request]
<1>1. /\ order \in [1 .. Len(s) -> 1 .. Len(s)]
      /\ \A i \in 1 .. Len(s) : \E a \in 1 .. Len(s) : order[a] = i
      /\ \A a, b \in 1 .. Len(s) : s[order[a]].request.conn = s[order[b]].request.conn =>
            (a < b <=> order[a] < order[b])
  BY SortKeepsOrder
<1>2. PICK L \in Nat, M \in Nat : L = Len(published) /\ M = Len(s)
  BY LenProperties DEF TypeOK
<1>3. q \in Seq(Messages) /\ Len(q) = M /\ \A i \in 1 .. M : q[i] = s[order[i]].request /\ q[i] \in Messages
  <2>1. \A x \in Entries : x.request \in Messages
    BY DEF Entries
  <2>2. \A i \in 1 .. M : s[order[i]] \in Entries
    <3>1. \A i \in 1 .. M : order[i] \in 1 .. M
      BY <1>1, <1>2, Zenon
    <3>2. \A i \in 1 .. M : s[i] \in Entries
      BY <1>2
    <3> QED
      BY <3>1, <3>2
  <2>3. \A i \in 1 .. M : s[order[i]].request \in Messages
    BY <2>1, <2>2
  <2> QED
    BY <1>2, <2>3
<1> HIDE DEF q
<1>4. published' = published \o q
  BY DEF q
<1>5. published \in Seq(Messages)
  BY DEF TypeOK
<1>6. /\ published' \in Seq(Messages) /\ Len(published') = L + M
      /\ \A i \in 1 .. L + M : published'[i] = IF i <= L THEN published[i] ELSE q[i - L]
  <2>1. /\ published \o q \in Seq(Messages) /\ Len(published \o q) = Len(published) + Len(q)
        /\ \A i \in 1 .. Len(published) + Len(q) :
              (published \o q)[i] = IF i <= Len(published) THEN published[i] ELSE q[i - Len(published)]
    BY <1>3, <1>5, ConcatProperties, Zenon
  <2> QED
    BY <1>2, <1>3, <1>4, <2>1, Zenon
<1>7. \A i \in 1 .. L : published'[i] = published[i]
  BY <1>2, <1>6
<1>8. \A a \in 1 .. M : L + a \in 1 .. L + M /\ published'[L + a] = s[order[a]].request
  <2> TAKE a \in 1 .. M
  <2>1. L + a \in 1 .. L + M /\ ~(L + a <= L) /\ (L + a) - L = a
    BY <1>2
  <2> QED
    BY <1>3, <1>6, <2>1
\* The requests of k among the first L + n, for a place n of the round.
<1> DEFINE Before(k, n) == { published'[i].seq : i \in { m \in 1 .. n : published'[m].conn = k } }
           Sorted(k, n) == { s[order[a]].request.seq :
                               a \in { m \in 1 .. n : s[order[m]].request.conn = k } }
<1>9. ASSUME NEW k, NEW n \in 0 .. M PROVE Before(k, L + n) = Handled(k) \cup Sorted(k, n)
  <2>1. ASSUME NEW x \in Before(k, L + n) PROVE x \in Handled(k) \cup Sorted(k, n)
    <3>1. PICK i \in 1 .. L + n : published'[i].conn = k /\ x = published'[i].seq
      BY <2>1
    <3>2. CASE i <= L
      <4>1. i \in 1 .. L /\ published'[i] = published[i]
        BY <1>2, <1>7, <3>2
      <4> QED
        BY <1>2, <3>1, <4>1 DEF Handled
    <3>3. CASE ~(i <= L)
      <4>1. PICK a \in 1 .. n : i = L + a /\ a \in 1 .. M
        <5>1. i - L \in 1 .. n /\ i = L + (i - L) /\ i - L \in 1 .. M
          BY <1>2, <3>3
        <5> QED
          BY <5>1
      <4>2. published'[i] = s[order[a]].request
        BY <1>8, <4>1
      <4> QED
        BY <3>1, <4>2
    <3> QED
      BY <3>2, <3>3
  <2>2. ASSUME NEW x \in Handled(k) PROVE x \in Before(k, L + n)
    <3>1. PICK i \in 1 .. L : published[i].conn = k /\ x = published[i].seq
      BY <1>2, <2>2 DEF Handled
    <3>2. i \in 1 .. L + n /\ published'[i] = published[i]
      BY <1>2, <1>7, <3>1
    <3> QED
      BY <3>1, <3>2
  <2>3. ASSUME NEW x \in Sorted(k, n) PROVE x \in Before(k, L + n)
    <3>1. PICK a \in 1 .. n : s[order[a]].request.conn = k /\ x = s[order[a]].request.seq
      BY <2>3
    <3>2. L + a \in 1 .. L + n /\ published'[L + a] = s[order[a]].request
      BY <1>2, <1>8, <3>1
    <3> QED
      BY <3>1, <3>2
  <2> HIDE DEF Before, Sorted
  <2> QED
    BY <2>1, <2>2, <2>3
<1>10. ASSUME NEW b \in 1 .. M, NEW k, s[order[b]].request.conn = k
       PROVE  Sorted(k, b - 1) = PendingOf(k, order[b] - 1)
  <2>1. ASSUME NEW x \in Sorted(k, b - 1) PROVE x \in PendingOf(k, order[b] - 1)
    <3>1. PICK a \in 1 .. b - 1 : s[order[a]].request.conn = k /\ x = s[order[a]].request.seq
      BY <2>1
    <3>2. a \in 1 .. M /\ a < b
      BY <1>2, <3>1
    <3>3. order[a] < order[b] /\ order[a] \in 1 .. M /\ order[b] \in 1 .. M
      BY <1>1, <1>2, <1>10, <3>1, <3>2
    <3>4. order[a] \in 1 .. order[b] - 1
      BY <3>3
    <3> QED
      BY <3>1, <3>4 DEF PendingOf
  <2>2. ASSUME NEW x \in PendingOf(k, order[b] - 1) PROVE x \in Sorted(k, b - 1)
    <3>1. PICK i \in 1 .. order[b] - 1 : s[i].request.conn = k /\ x = s[i].request.seq
      BY <2>2 DEF PendingOf
    <3>2. order[b] \in 1 .. M
      BY <1>1, <1>2
    <3>3. i \in 1 .. M /\ i < order[b]
      BY <3>1, <3>2
    <3>4. PICK a \in 1 .. M : order[a] = i
      BY <1>1, <1>2, <3>3
    <3>5. a < b
      BY <1>1, <1>2, <1>10, <3>1, <3>3, <3>4
    <3>6. a \in 1 .. b - 1
      BY <3>5
    <3> QED
      BY <3>1, <3>4, <3>6
  <2> HIDE DEF Sorted
  <2> QED
    BY <2>1, <2>2
<1>11. \A k : Sorted(k, M) = PendingOf(k, M)
  <2> TAKE k
  <2>1. ASSUME NEW x \in Sorted(k, M) PROVE x \in PendingOf(k, M)
    <3>1. PICK a \in 1 .. M : s[order[a]].request.conn = k /\ x = s[order[a]].request.seq
      BY <2>1
    <3>2. order[a] \in 1 .. M
      BY <1>1, <1>2
    <3> QED
      BY <3>1, <3>2 DEF PendingOf
  <2>2. ASSUME NEW x \in PendingOf(k, M) PROVE x \in Sorted(k, M)
    <3>1. PICK i \in 1 .. M : s[i].request.conn = k /\ x = s[i].request.seq
      BY <2>2 DEF PendingOf
    <3>2. PICK a \in 1 .. M : order[a] = i
      BY <1>1, <1>2
    <3> QED
      BY <3>1, <3>2
  <2> HIDE DEF Sorted
  <2> QED
    BY <2>1, <2>2
<1>12. \A k : Handled(k)' = Accepted(k)
  <2> TAKE k
  <2>1. Handled(k)' = Before(k, L + M)
    BY <1>6 DEF Handled
  <2>2. M \in 0 .. M
    BY <1>2
  <2>3. Accepted(k) = Handled(k) \cup PendingOf(k, M)
    BY <1>2 DEF Accepted
  <2> HIDE DEF Before, Sorted
  <2> QED
    BY <1>9, <1>11, <2>1, <2>2, <2>3
<1>13. ASSUME NEW j \in 1 .. L + M
       PROVE  Before(published'[j].conn, j - 1) = 1 .. published'[j].seq - 1
  <2>1. CASE j <= L
    <3>1. PICK k : k = published'[j].conn
      OBVIOUS
    <3>2. j \in 1 .. L /\ published'[j] = published[j]
      BY <1>2, <1>7, <2>1
    <3>3. { published[i].seq : i \in { m \in 1 .. j - 1 : published[m].conn = k } }
            = 1 .. published[j].seq - 1
      BY <1>2, <3>1, <3>2 DEF RequestsInOrder
    <3>4. \A i \in 1 .. j - 1 : published'[i] = published[i]
      BY <1>2, <1>7, <3>2
    <3>5. Before(k, j - 1) = { published[i].seq : i \in { m \in 1 .. j - 1 : published[m].conn = k } }
      BY <3>4
    <3> HIDE DEF Before
    <3> QED
      BY <3>1, <3>2, <3>3, <3>5
  <2>2. CASE ~(j <= L)
    <3>1. PICK b \in 1 .. M : j = L + b
      <4>1. j - L \in 1 .. M /\ j = L + (j - L)
        BY <1>2, <2>2
      <4> QED
        BY <4>1
    <3>2. published'[j] = s[order[b]].request
      BY <1>8, <3>1
    <3>3. PICK k : k = published'[j].conn
      OBVIOUS
    <3>4. j - 1 = L + (b - 1) /\ b - 1 \in 0 .. M
      BY <1>2, <3>1
    <3>5. Before(k, L + (b - 1)) = Handled(k) \cup Sorted(k, b - 1)
      BY <1>9, <3>4
    <3>6. Sorted(k, b - 1) = PendingOf(k, order[b] - 1)
      BY <1>10, <3>2, <3>3
    <3>7. PICK i \in 1 .. M : i = order[b]
      BY <1>1, <1>2
    <3>8. k \in Connections
      <4>1. s[order[b]].request \in Messages
        BY <1>3
      <4> QED
        BY <3>2, <3>3, <4>1 DEF Messages
    <3>9. Handled(k) \cup PendingOf(k, i - 1) = 1 .. s[i].request.seq - 1
      BY <1>2, <3>2, <3>3, <3>7, <3>8 DEF PendingInv
    <3> HIDE DEF Before, Sorted
    <3> QED
      BY <3>2, <3>3, <3>4, <3>5, <3>6, <3>7, <3>9
  <2> QED
    BY <2>1, <2>2
<1>14. RequestsInOrder'
  BY <1>6, <1>13 DEF RequestsInOrder
<1> QED
  BY <1>6, <1>12, <1>14

(* The round's requests are sorted and handed to the engine.               *)
LEMMA RecvFinishedStep ==
  ASSUME IInv, recvFinishedCallback, UNCHANGED gateway
  PROVE  IInv'
<1>1. TypeOK /\ ConnectionInv /\ NoDanglingSocket /\ RequestsInOrder /\ ResponseInv
  BY DEF IInv
<1>2. PICK own : OwnerInv(own)
  BY DEF IInv
<1>3. /\ server_pc = "recv" /\ server_pc' = "respond"
      /\ UNCHANGED <<rcv_sockets, disconnected_sockets, send_buffer, responses>>
      /\ UNCHANGED <<cid_tcp_socket, cid_next_exp_seq_num, cid_next_outgoing_seq_num>>
      /\ UNCHANGED <<cursor, rcv_buffer, rx_time, recv, peer, backlog, up, down, clock>>
      /\ UNCHANGED <<tcp_socket, next_outgoing_seq_num, next_exp_incoming_seq_num>>
  BY DEF recvFinishedCallback, sessions, reading, network, gateway
<1>4. SessionInv /\ PendingInv
  BY <1>3 DEF IInv
<1>5. /\ published' \in Seq(Messages) /\ pending_client_requests' = <<>>
      /\ RequestsInOrder' /\ \A k : Accepted(k)' = Accepted(k)
  <2>1. CASE recv
    <3>1. PICK s \in Seq(Entries) : s = pending_client_requests
      BY <1>1 DEF TypeOK
    <3>2. PICK order \in Bijection(1 .. Len(s), 1 .. Len(s)) :
             /\ \A i, j \in 1 .. Len(s) : i < j => Precedes(s[order[i]], s[order[j]])
             /\ published' = published \o [i \in 1 .. Len(s) |-> s[order[i]].request]
             /\ pending_client_requests' = <<>>
      BY <2>1, <3>1 DEF recvFinishedCallback, sequenceAndPublish
    <3>3. published' \in Seq(Messages) /\ RequestsInOrder' /\ \A k : Handled(k)' = Accepted(k)
      BY <1>1, <1>4, <3>1, <3>2, PublishRound
    <3>4. \A k : Accepted(k)' = Handled(k)'
      BY <3>2 DEF Accepted, PendingOf
    <3> QED
      BY <3>2, <3>3, <3>4
  <2>2. CASE ~recv
    <3>1. UNCHANGED <<published, pending_client_requests>>
      BY <2>2 DEF recvFinishedCallback
    <3>2. pending_client_requests = <<>>
      BY <1>4, <2>2 DEF PendingInv
    <3>3. RequestsInOrder'
      BY <1>1, <3>1 DEF RequestsInOrder
    <3> QED
      BY <1>1, <3>1, <3>2, <3>3, AcceptedUnchanged DEF TypeOK
  <2> QED
    BY <2>1, <2>2
<1>6. TypeOK'
  <2>1. pending_client_requests' \in Seq(Entries)
    BY <1>5
  <2> QED
    BY <1>1, <1>3, <1>5, <2>1 DEF TypeOK
<1>7. Unused' = Unused
  BY <1>3 DEF Unused
<1>8. ConnectionInv'
  BY <1>1, <1>3, <1>7 DEF ConnectionInv
<1>9. NoDanglingSocket'
  BY <1>1, <1>3 DEF NoDanglingSocket
<1>10. OwnerInv(own)'
  BY <1>2, <1>3 DEF OwnerInv
<1>11. SessionInv'
  <2>1. Live' = Live
    BY <1>3, <1>7 DEF Live
  <2> QED
    BY <1>3, <1>4, <1>5, <2>1 DEF SessionInv
<1>12. PendingInv'
  BY <1>3, <1>5 DEF PendingInv
<1>13. ResponseInv'
  BY <1>1, <1>3, ResponsesUnchanged
<1> QED
  BY <1>5, <1>6, <1>8, <1>9, <1>10, <1>11, <1>12, <1>13 DEF IInv

----------------------------------------------------------------------------
(* Responses.                                                              *)

(* The engine queues a response.                                           *)
LEMMA EngineStep ==
  ASSUME IInv, NEW c \in ClientIds, sendClientResponse(c), UNCHANGED gateway
  PROVE  IInv'
<1>1. TypeOK /\ ConnectionInv /\ NoDanglingSocket /\ RequestsInOrder /\ ResponseInv
  BY DEF IInv
<1>2. PICK own : OwnerInv(own)
  BY DEF IInv
<1>3. /\ server_pc # "exited" /\ responses' = Append(responses, c)
      /\ UNCHANGED <<rcv_sockets, disconnected_sockets, send_buffer, pending_client_requests>>
      /\ UNCHANGED <<cid_tcp_socket, cid_next_exp_seq_num, cid_next_outgoing_seq_num>>
      /\ UNCHANGED <<published, server_pc, cursor, rcv_buffer, rx_time, recv>>
      /\ UNCHANGED <<peer, backlog, up, down, clock>>
      /\ UNCHANGED <<tcp_socket, next_outgoing_seq_num, next_exp_incoming_seq_num>>
  BY DEF sendClientResponse, sessions, reading, network, gateway
<1>4. TypeOK'
  <2>1. responses' \in Seq(ClientIds)
    BY <1>1, <1>3 DEF TypeOK
  <2> QED
    BY <1>1, <1>3, <2>1 DEF TypeOK
<1>5. Unused' = Unused
  BY <1>3 DEF Unused
<1>6. ConnectionInv' /\ NoDanglingSocket' /\ RequestsInOrder'
  BY <1>1, <1>3, <1>5 DEF ConnectionInv, NoDanglingSocket, RequestsInOrder
<1>7. OwnerInv(own)'
  BY <1>2, <1>3, OwnersUnchanged
<1>8. SessionInv' /\ PendingInv'
  <2>1. UNCHANGED sessionVars /\ Live' = Live
    BY <1>3, <1>5 DEF sessionVars, sessions, Live
  <2> QED
    BY <1>3, <2>1, SessionsUnchanged DEF IInv
<1>9. ResponseInv'
  BY <1>1, <1>3, ResponsesUnchanged
<1> QED
  BY <1>4, <1>6, <1>7, <1>8, <1>9 DEF IInv

(* A response gets the next number of its client's session.                *)
LEMMA SendResponseStep ==
  ASSUME IInv, SendResponse, UNCHANGED gateway
  PROVE  IInv'
<1>1. TypeOK /\ ConnectionInv /\ NoDanglingSocket /\ RequestsInOrder /\ ResponseInv
  BY DEF IInv
<1>2. PICK own : OwnerInv(own)
  BY DEF IInv
<1>3. PICK c, k : c = Head(responses) /\ k = cid_tcp_socket[c]
  OBVIOUS
<1>4. /\ server_pc = "respond" /\ responses # <<>> /\ responses' = Tail(responses)
      /\ UNCHANGED <<rcv_sockets, disconnected_sockets, pending_client_requests>>
      /\ UNCHANGED <<cid_tcp_socket, cid_next_exp_seq_num>>
      /\ UNCHANGED <<published, server_pc, cursor, rcv_buffer, rx_time, recv>>
      /\ UNCHANGED <<peer, backlog, up, down, clock>>
      /\ UNCHANGED <<tcp_socket, next_outgoing_seq_num, next_exp_incoming_seq_num>>
  BY DEF SendResponse, reading, network, gateway
<1>5. c \in ClientIds /\ responses' \in Seq(ClientIds)
  BY <1>1, <1>3, <1>4, HeadTailProperties DEF TypeOK
<1>6. Unused' = Unused
  BY <1>4 DEF Unused
<1>7. OwnerInv(own)'
  BY <1>2, <1>4, OwnersUnchanged
<1>8. NoDanglingSocket' /\ RequestsInOrder'
  BY <1>1, <1>4 DEF NoDanglingSocket, RequestsInOrder
<1>9. Live' = Live
  BY <1>4, <1>6 DEF Live
<1>10. CASE k = NoSocket
  <2>1. UNCHANGED <<send_buffer, cid_next_outgoing_seq_num>>
    BY <1>3, <1>10 DEF SendResponse
  <2>2. TypeOK'
    BY <1>1, <1>4, <1>5, <2>1 DEF TypeOK
  <2>3. ConnectionInv'
    BY <1>1, <1>4, <1>6, <2>1 DEF ConnectionInv
  <2>4. SessionInv' /\ PendingInv'
    <3>1. UNCHANGED sessionVars
      BY <1>4, <2>1 DEF sessionVars, sessions
    <3> QED
      BY <1>4, <1>9, <3>1, SessionsUnchanged DEF IInv
  <2>5. ResponseInv'
    BY <1>1, <1>4, <2>1, ResponsesUnchanged
  <2> QED
    BY <1>7, <1>8, <2>2, <2>3, <2>4, <2>5 DEF IInv
<1>11. CASE k # NoSocket
  <2>1. PICK r, n : r = Response(c, n) /\ n = cid_next_outgoing_seq_num[c]
    OBVIOUS
  <2>2. /\ send_buffer' = [send_buffer EXCEPT ![k] = Append(@, r)]
        /\ cid_next_outgoing_seq_num' = [cid_next_outgoing_seq_num EXCEPT ![c] = @ + 1]
    BY <1>3, <1>11, <2>1 DEF SendResponse
  <2>3. k \in Connections /\ k \in Range(rcv_sockets) /\ k \notin Unused /\ n \in Nat /\ c \in Clients
    <3>1. k \in Connections
      BY <1>1, <1>3, <1>5, <1>11 DEF TypeOK, Sockets
    <3>2. k \in Range(rcv_sockets)
      BY <1>1, <1>3, <1>5, <1>11 DEF NoDanglingSocket
    <3>3. k \notin Unused
      BY <1>1, <3>2 DEF ConnectionInv
    <3>4. n \in Nat /\ c \in Clients
      BY <1>1, <1>5, <2>1, ServerAssumption DEF TypeOK
    <3> QED
      BY <3>1, <3>2, <3>3, <3>4
  <2>4. r \in Answers
    BY <2>1, <2>3 DEF Response, Answers
  <2>5. /\ send_buffer[k] \in Seq(Answers) /\ send_buffer'[k] = Append(send_buffer[k], r)
        /\ \A j \in Connections \ {k} : send_buffer'[j] = send_buffer[j]
        /\ cid_next_outgoing_seq_num'[c] = n + 1
        /\ \A d \in ClientIds \ {c} : cid_next_outgoing_seq_num'[d] = cid_next_outgoing_seq_num[d]
    BY <1>1, <1>5, <2>1, <2>2, <2>3 DEF TypeOK
  <2>6. TypeOK'
    <3>1. Append(send_buffer[k], r) \in Seq(Answers)
      BY <2>4, <2>5, AppendProperties
    <3>2. send_buffer' \in [Connections -> Seq(Answers)]
      BY <1>1, <2>2, <3>1 DEF TypeOK
    <3>3. cid_next_outgoing_seq_num' \in [ClientIds -> Nat]
      <4>1. cid_next_outgoing_seq_num' = [cid_next_outgoing_seq_num EXCEPT ![c] = n + 1] /\ n + 1 \in Nat
        BY <2>1, <2>2, <2>3
      <4> QED
        BY <1>1, <4>1 DEF TypeOK
    <3> QED
      BY <1>1, <1>4, <1>5, <3>2, <3>3 DEF TypeOK
  <2>7. ConnectionInv'
    <3>1. \A j \in Unused : send_buffer'[j] = send_buffer[j]
      BY <2>3, <2>5 DEF Unused
    <3> QED
      BY <1>1, <1>4, <1>6, <3>1 DEF ConnectionInv
  <2>8. SessionInv'
    <3>1. \A j : Accepted(j)' = Accepted(j)
      BY <1>4, AcceptedUnchanged
    <3>2. SessionInv
      BY <1>4 DEF IInv
    <3>3. \A d \in ClientIds : cid_tcp_socket[d] = NoSocket =>
             cid_next_outgoing_seq_num'[d] = cid_next_outgoing_seq_num[d]
      BY <1>3, <1>11, <2>5
    <3> QED
      BY <1>4, <1>9, <3>1, <3>2, <3>3 DEF SessionInv
  <2>9. PendingInv'
    <3>1. pending_client_requests' = <<>>
      BY <1>4 DEF IInv, PendingInv
    <3> QED
      BY <1>4, <3>1 DEF PendingInv
  <2>10. ResponseInv'
    <3> SUFFICES ASSUME NEW d \in Clients, NEW j \in Connections, NEW m \in Nat,
                        tcp_socket'[d] = j, next_exp_incoming_seq_num'[d] = m
                 PROVE  Coming(d, j, m)'
      BY DEF ResponseInv
    <3>1. tcp_socket[d] = j /\ Coming(d, j, m)
      BY <1>1, <1>4 DEF ResponseInv
    <3>2. CASE j # k
      <4>1. send_buffer'[j] = send_buffer[j]
        BY <2>5, <3>2
      <4>2. d \in ClientIds /\ cid_tcp_socket[d] = j =>
              cid_next_outgoing_seq_num'[d] = cid_next_outgoing_seq_num[d]
        BY <1>3, <2>5, <3>2
      <4> QED
        BY <1>4, <3>1, <4>1, <4>2, ComingUnchanged
    <3>3. CASE j = k
      <4>1. d = c
        <5>1. j # NoSocket
          BY DEF Connections, NoSocket
        <5> QED
          BY <1>2, <1>3, <1>5, <1>11, <3>1, <3>3, <5>1 DEF OwnerInv
      <4>2. /\ Follows(c, m, down[k]) /\ Follows(c, m + Len(down[k]), send_buffer[k])
            /\ n = m + Len(down[k]) + Len(send_buffer[k])
        BY <1>3, <1>5, <2>1, <3>1, <3>3, <4>1 DEF Coming
      <4>3. Len(down[k]) \in Nat /\ Len(send_buffer[k]) \in Nat
        BY <1>1, <2>3, LenProperties DEF TypeOK
      <4>4. PICK p \in Nat : p = m + Len(down[k])
        BY <4>3
      <4>5. Follows(c, p, send_buffer[k]) /\ n = p + Len(send_buffer[k])
        BY <4>2, <4>4
      <4>6. Follows(c, p, Append(send_buffer[k], Response(c, p + Len(send_buffer[k]))))
        BY <2>5, <4>5, FollowsFacts
      <4>7. Follows(c, m + Len(down'[k]), send_buffer'[k])
        BY <1>4, <2>1, <2>5, <4>4, <4>5, <4>6
      <4>8. Len(send_buffer'[k]) = Len(send_buffer[k]) + 1
        BY <2>5
      <4>9. cid_next_outgoing_seq_num'[c] = m + Len(down'[k]) + Len(send_buffer'[k])
        <5>1. n + 1 = m + Len(down[k]) + (Len(send_buffer[k]) + 1)
          <6>1. PICK x \in Nat, y \in Nat : x = Len(down[k]) /\ y = Len(send_buffer[k])
            BY <4>3
          <6>2. n = m + x + y
            BY <4>2, <6>1
          <6>3. n + 1 = m + x + (y + 1)
            BY <6>2
          <6> QED
            BY <6>1, <6>3, Zenon
        <5> QED
          BY <1>4, <2>5, <4>8, <5>1, Zenon
      <4>10. Follows(c, m, down'[k]) /\ cid_tcp_socket'[c] = k
        BY <1>3, <1>4, <4>2
      <4> QED
        BY <1>5, <3>3, <4>1, <4>7, <4>9, <4>10, Zenon DEF Coming, Follows
    <3> QED
      BY <3>2, <3>3
  <2> QED
    BY <1>7, <1>8, <2>6, <2>7, <2>8, <2>9, <2>10 DEF IInv
<1> QED
  BY <1>10, <1>11

(* The queue of responses is empty: the next round begins.                 *)
LEMMA ResponsesDoneStep ==
  ASSUME IInv, ResponsesDone, UNCHANGED gateway
  PROVE  IInv'
<1>1. TypeOK /\ ConnectionInv /\ NoDanglingSocket /\ RequestsInOrder /\ ResponseInv
  BY DEF IInv
<1>2. PICK own : OwnerInv(own)
  BY DEF IInv
<1>3. /\ server_pc = "respond" /\ server_pc' = "reap"
      /\ UNCHANGED <<rcv_sockets, disconnected_sockets, send_buffer, pending_client_requests>>
      /\ UNCHANGED <<cid_tcp_socket, cid_next_exp_seq_num, cid_next_outgoing_seq_num>>
      /\ UNCHANGED <<published, responses, cursor, rcv_buffer, rx_time, recv>>
      /\ UNCHANGED <<peer, backlog, up, down, clock>>
      /\ UNCHANGED <<tcp_socket, next_outgoing_seq_num, next_exp_incoming_seq_num>>
  BY DEF ResponsesDone, sessions, engine, reading, network, gateway
<1>4. SessionInv /\ PendingInv /\ pending_client_requests = <<>>
  BY <1>3 DEF IInv, PendingInv
<1>5. TypeOK'
  BY <1>1, <1>3 DEF TypeOK
<1>6. Unused' = Unused
  BY <1>3 DEF Unused
<1>7. ConnectionInv' /\ NoDanglingSocket' /\ RequestsInOrder'
  BY <1>1, <1>3, <1>6 DEF ConnectionInv, NoDanglingSocket, RequestsInOrder
<1>8. OwnerInv(own)'
  BY <1>2, <1>3 DEF OwnerInv
<1>9. SessionInv'
  <2>1. \A k : Accepted(k)' = Accepted(k)
    BY <1>3, AcceptedUnchanged
  <2>2. Live' = Live
    BY <1>3, <1>6 DEF Live
  <2> QED
    BY <1>3, <1>4, <2>1, <2>2 DEF SessionInv
<1>10. PendingInv'
  BY <1>3, <1>4 DEF PendingInv
<1>11. ResponseInv'
  BY <1>1, <1>3, ResponsesUnchanged
<1> QED
  BY <1>5, <1>7, <1>8, <1>9, <1>10, <1>11 DEF IInv

----------------------------------------------------------------------------
(* The theorems.                                                           *)

(* Every step preserves the invariant.                                     *)
LEMMA NextIInv == IInv /\ [Next]_vars => IInv'
<1> SUFFICES ASSUME IInv, [Next]_vars PROVE IInv'
  OBVIOUS
<1>1. CASE GatewayNext
  BY <1>1, ConnectStep, CloseStep, SendRequestStep, ProcessResponseStep DEF GatewayNext
<1>2. CASE ServerNext
  <2>1. CASE RecvNothing
    BY <1>2, <2>1, FlushStep DEF ServerNext, RecvNothing
  <2>2. CASE ParseDone
    <3>1. cursor <= Len(rcv_sockets)
      BY <2>2 DEF ParseDone, IInv, OwnerInv
    <3>2. PICK eof : eof = FALSE
      OBVIOUS
    <3>3. /\ server_pc \in {"recv", "parse"} /\ Flush(eof)
          /\ UNCHANGED <<up, sessions, pending_client_requests, rcv_buffer, recv>>
          /\ UNCHANGED gateway
      <4>1. Flush(FALSE)
        BY <2>2 DEF ParseDone
      <4>2. Flush(eof)
        BY <3>2, <4>1, Zenon
      <4> QED
        BY <1>2, <2>2, <4>2 DEF ServerNext, ParseDone
    <3> QED
      BY <3>1, <3>3, FlushStep
  <2> QED
    BY <1>2, <2>1, <2>2, ReapStep, AcceptStep, RecvDataStep, ParseRequestStep, RecvFinishedStep,
       SendResponseStep, ResponsesDoneStep DEF ServerNext
<1>3. CASE EngineNext
  BY <1>3, EngineStep DEF EngineNext
<1>4. CASE UNCHANGED vars
  <2>1. TypeOK /\ ConnectionInv /\ NoDanglingSocket /\ RequestsInOrder /\ ResponseInv
    BY DEF IInv
  <2>2. PICK own : OwnerInv(own)
    BY DEF IInv
  <2>3. /\ UNCHANGED <<rcv_sockets, disconnected_sockets, send_buffer, pending_client_requests>>
        /\ UNCHANGED <<cid_tcp_socket, cid_next_exp_seq_num, cid_next_outgoing_seq_num>>
        /\ UNCHANGED <<published, responses, server_pc, cursor, rcv_buffer, rx_time, recv>>
        /\ UNCHANGED <<peer, backlog, up, down, clock>>
        /\ UNCHANGED <<tcp_socket, next_outgoing_seq_num, next_exp_incoming_seq_num>>
    BY <1>4 DEF vars, server, gateway, network
  <2>4. TypeOK'
    BY <2>1, <2>3 DEF TypeOK
  <2>5. Unused' = Unused
    BY <2>3 DEF Unused
  <2>6. ConnectionInv' /\ NoDanglingSocket' /\ RequestsInOrder'
    BY <2>1, <2>3, <2>5 DEF ConnectionInv, NoDanglingSocket, RequestsInOrder
  <2>7. OwnerInv(own)'
    BY <2>2, <2>3, OwnersUnchanged
  <2>8. server_pc' # "exited" => SessionInv' /\ PendingInv'
    <3>1. UNCHANGED sessionVars /\ Live' = Live
      BY <2>3, <2>5 DEF sessionVars, sessions, Live
    <3> QED
      BY <2>3, <3>1, SessionsUnchanged DEF IInv
  <2>9. ResponseInv'
    BY <2>1, <2>3, ResponsesUnchanged
  <2> QED
    BY <2>4, <2>6, <2>7, <2>8, <2>9 DEF IInv
<1> QED
  BY <1>1, <1>2, <1>3, <1>4 DEF Next

(* The invariant holds always.                                             *)
LEMMA IInvAlways == Spec => []IInv
  BY InitIInv, NextIInv, PTL DEF Spec

(* The order server sends to no socket that it has freed, however the      *)
(* gateways come and go.                                                   *)
THEOREM NoResponseToFreedSocket == Spec => []NoDanglingSocket
<1>1. IInv => NoDanglingSocket
  BY DEF IInv
<1> QED
  BY <1>1, IInvAlways, PTL

(* The engine is handed the requests of each connection in the order in    *)
(* which they were sent, from the first, without a gap or a repetition.    *)
THEOREM RequestsReachEngineInOrder == Spec => []RequestsInOrder
<1>1. IInv => RequestsInOrder
  BY DEF IInv
<1> QED
  BY <1>1, IInvAlways, PTL

(* Every response on its way to a gateway is the one it will expect when   *)
(* it comes: OrderGateway::recvCallback drops none.                        *)
THEOREM NoResponseDropped == Spec => []ResponsesInOrder
<1>1. IInv => ResponsesInOrder
  <2> SUFFICES ASSUME IInv, NEW c \in Clients, tcp_socket[c] # NoSocket,
                      NEW i \in 1 .. Len(down[tcp_socket[c]] \o send_buffer[tcp_socket[c]])
               PROVE  (down[tcp_socket[c]] \o send_buffer[tcp_socket[c]])[i]
                        = Response(c, next_exp_incoming_seq_num[c] + i - 1)
    BY DEF ResponsesInOrder
  <2>1. PICK k \in Connections, n \in Nat : k = tcp_socket[c] /\ n = next_exp_incoming_seq_num[c]
    BY DEF IInv, TypeOK, Sockets
  <2>2. Follows(c, n, down[k]) /\ Follows(c, n + Len(down[k]), send_buffer[k])
    BY <2>1 DEF IInv, ResponseInv, Coming
  <2>3. down[k] \in Seq(Answers) /\ send_buffer[k] \in Seq(Answers)
    BY DEF IInv, TypeOK
  <2>4. PICK a \in Seq(Answers), b \in Seq(Answers) : a = down[k] /\ b = send_buffer[k]
    BY <2>3
  <2>5. Len(a) \in Nat /\ Len(b) \in Nat /\ i \in 1 .. Len(a) + Len(b)
    <3>1. Len(a \o b) = Len(a) + Len(b)
      BY ConcatProperties
    <3>2. i \in 1 .. Len(a \o b)
      BY <2>1, <2>4, Zenon
    <3> QED
      BY <3>1, <3>2, LenProperties
  <2>6. (a \o b)[i] = IF i <= Len(a) THEN a[i] ELSE b[i - Len(a)]
    BY <2>5, ConcatProperties
  <2>7. (a \o b)[i] = Response(c, n + i - 1)
    <3>1. CASE i <= Len(a)
      BY <2>2, <2>4, <2>5, <2>6, <3>1 DEF Follows
    <3>2. CASE ~(i <= Len(a))
      <4>1. i - Len(a) \in 1 .. Len(b) /\ n + Len(a) + (i - Len(a)) - 1 = n + i - 1
        BY <2>5, <3>2
      <4>2. b[i - Len(a)] = Response(c, n + Len(a) + (i - Len(a)) - 1)
        BY <2>2, <2>4, <4>1, Zenon DEF Follows
      <4> QED
        BY <2>6, <3>2, <4>1, <4>2
    <3> QED
      BY <3>1, <3>2
  <2> QED
    BY <2>1, <2>4, <2>7
<1> QED
  BY <1>1, IInvAlways, PTL

----------------------------------------------------------------------------
(* The order of arrival.  The inductive invariant, in addition to IInv.    *)

\* The requests that the engine has not been handed: on the wire, in the
\* receive buffer, and pending.
OnTheWay(wire, buffer, pending) ==
    (UNION { Range(wire[k]) : k \in Connections }) \cup Range(buffer)
      \cup { pending[i].request : i \in 1 .. Len(pending) }
Moving == OnTheWay(up, rcv_buffer, pending_client_requests)

\* A time stamp is of one connection.
StampInv ==
    /\ \A x \in Moving : x.time \in 1 .. clock
    /\ \A x, y \in Moving : x.time = y.time => x.conn = y.conn

RoundInv ==
    /\ round_start \in 0 .. clock
    /\ rounds \in Seq(Nat) /\ Len(rounds) = Len(published)
    /\ \A r \in 1 .. Len(rounds) : rounds[r] <= clock

\* The server has still to read socket k in this round.
Unread(k) ==
    \E m \in 1 .. Len(rcv_sockets) :
        /\ rcv_sockets[m] = k
        /\ (server_pc = "recv" /\ m >= cursor) \/ (server_pc = "parse" /\ m > cursor)

\* A round reads all that came before it began.
After(s, t) == \A i \in 1 .. Len(s) : s[i].time > t
ReadInv ==
    /\ server_pc # "parse" => rcv_buffer = <<>>
    /\ \A k \in Live : ~Unread(k) => After(up[k], round_start)
    /\ \A r \in 1 .. Len(rounds) :
          /\ \A k \in Live : After(up[k], rounds[r])
          /\ After(rcv_buffer, rounds[r])
          /\ \A i \in 1 .. Len(pending_client_requests) :
                pending_client_requests[i].request.time > rounds[r]

\* The requests of a connection are numbered and stamped one after the other.
Ascending(s) ==
    \A i, j \in 1 .. Len(s) : i < j => s[i].time < s[j].time /\ s[j].seq = s[i].seq + (j - i)
WireInv ==
    /\ \A k \in Connections : Ascending(up[k])
    /\ Ascending(rcv_buffer)
    /\ \A c \in Clients, k \in Connections : tcp_socket[c] = k /\ up[k] # <<>> =>
          up[k][Len(up[k])].seq + 1 = next_outgoing_seq_num[c]

\* Being parsed: once one message of a read is accepted, all that follow are.
Parsing(k) == server_pc = "parse" /\ rcv_buffer # <<>> /\ k = Socket
AcceptedNext(msg) ==
    /\ msg.client_id \in ClientIds
    /\ cid_tcp_socket[msg.client_id] = Socket /\ InSequence(msg)
BatchInv ==
    /\ server_pc = "parse" /\ rcv_buffer # <<>> => rcv_buffer[Len(rcv_buffer)].time = rx_time
    /\ \A i \in 1 .. Len(pending_client_requests) :
          LET x == pending_client_requests[i]
          IN  /\ x.request.time <= x.recv_time
              /\ \A j \in 1 .. Len(pending_client_requests) :
                    LET y == pending_client_requests[j]
                    IN  i < j /\ y.request.conn = x.request.conn => x.request.time < y.request.time
              /\ Parsing(x.request.conn) =>
                    AcceptedNext(rcv_buffer[1]) /\ x.request.time < rcv_buffer[1].time
              \* The time of a read is that of its last message, which is accepted too.
              /\ \/ Parsing(x.request.conn)
                 \/ \E j \in 1 .. Len(pending_client_requests) :
                       /\ pending_client_requests[j].request.conn = x.request.conn
                       /\ pending_client_requests[j].request.time = x.recv_time

AInv ==
    /\ ArrivalOrder
    /\ server_pc # "exited" =>
          StampInv /\ RoundInv /\ ReadInv /\ WireInv /\ (KernelTime => BatchInv)

----------------------------------------------------------------------------
(* Lemmas.                                                                 *)

(* A request is on its way in one of three places.                         *)
LEMMA Places ==
  ASSUME NEW wire \in [Connections -> Seq(Messages)], NEW buffer \in Seq(Messages),
         NEW pending \in Seq(Entries)
  PROVE  \A x : x \in OnTheWay(wire, buffer, pending) <=>
            \/ \E k \in Connections : \E i \in 1 .. Len(wire[k]) : x = wire[k][i]
            \/ \E i \in 1 .. Len(buffer) : x = buffer[i]
            \/ \E i \in 1 .. Len(pending) : x = pending[i].request
<1> DEFINE first == UNION { Range(wire[k]) : k \in Connections }
           last == { pending[i].request : i \in 1 .. Len(pending) }
<1>1. \A k \in Connections : DOMAIN wire[k] = 1 .. Len(wire[k])
  OBVIOUS
<1>2. \A k \in Connections : Range(wire[k]) = { wire[k][i] : i \in 1 .. Len(wire[k]) }
  BY <1>1 DEF Range
<1>3. \A x : x \in first <=> \E k \in Connections : x \in Range(wire[k])
  OBVIOUS
<1>4. \A x : (\E k \in Connections : x \in Range(wire[k])) <=>
               \E k \in Connections : \E i \in 1 .. Len(wire[k]) : x = wire[k][i]
  BY <1>2
<1>5. \A x : x \in Range(buffer) <=> \E i \in 1 .. Len(buffer) : x = buffer[i]
  BY DEF Range
<1>6. \A x : x \in last <=> \E i \in 1 .. Len(pending) : x = pending[i].request
  OBVIOUS
<1>7. OnTheWay(wire, buffer, pending) = first \cup Range(buffer) \cup last
  BY Zenon DEF OnTheWay
<1> HIDE DEF first, last
<1>8. \A x : x \in OnTheWay(wire, buffer, pending) <=> x \in first \/ x \in Range(buffer) \/ x \in last
  BY <1>7
<1> QED
  BY <1>3, <1>4, <1>5, <1>6, <1>8, Zenon

(* Where a request under way is, before a step and after it.               *)
LEMMA MovingPlaces ==
  /\ TypeOK =>
       \A x : x \in Moving <=>
          \/ \E k \in Connections : \E i \in 1 .. Len(up[k]) : x = up[k][i]
          \/ \E i \in 1 .. Len(rcv_buffer) : x = rcv_buffer[i]
          \/ \E i \in 1 .. Len(pending_client_requests) : x = pending_client_requests[i].request
  /\ TypeOK' =>
       \A x : x \in Moving' <=>
          \/ \E k \in Connections : \E i \in 1 .. Len(up'[k]) : x = up'[k][i]
          \/ \E i \in 1 .. Len(rcv_buffer') : x = rcv_buffer'[i]
          \/ \E i \in 1 .. Len(pending_client_requests') : x = pending_client_requests'[i].request
<1>1. TypeOK => /\ up \in [Connections -> Seq(Messages)]
                /\ rcv_buffer \in Seq(Messages) /\ pending_client_requests \in Seq(Entries)
  BY DEF TypeOK
<1>2. TypeOK' => /\ up' \in [Connections -> Seq(Messages)]
                 /\ rcv_buffer' \in Seq(Messages) /\ pending_client_requests' \in Seq(Entries)
  BY DEF TypeOK
<1>3. /\ Moving = OnTheWay(up, rcv_buffer, pending_client_requests)
      /\ Moving' = OnTheWay(up', rcv_buffer', pending_client_requests')
  BY DEF Moving, OnTheWay
<1>4. TypeOK =>
        \A x : x \in OnTheWay(up, rcv_buffer, pending_client_requests) <=>
           \/ \E k \in Connections : \E i \in 1 .. Len(up[k]) : x = up[k][i]
           \/ \E i \in 1 .. Len(rcv_buffer) : x = rcv_buffer[i]
           \/ \E i \in 1 .. Len(pending_client_requests) : x = pending_client_requests[i].request
  BY <1>1, Places, Zenon
<1>5. TypeOK' =>
        \A x : x \in OnTheWay(up', rcv_buffer', pending_client_requests') <=>
           \/ \E k \in Connections : \E i \in 1 .. Len(up'[k]) : x = up'[k][i]
           \/ \E i \in 1 .. Len(rcv_buffer') : x = rcv_buffer'[i]
           \/ \E i \in 1 .. Len(pending_client_requests') : x = pending_client_requests'[i].request
  BY <1>2, Places, Zenon
<1> QED
  BY <1>3, <1>4, <1>5

(* What two sequences joined consist of.                                   *)
LEMMA JoinFacts ==
  ASSUME NEW S, NEW s \in Seq(S), NEW t \in Seq(S)
  PROVE  /\ s \o t \in Seq(S) /\ Len(s \o t) = Len(s) + Len(t)
         /\ \A i \in 1 .. Len(s) : (s \o t)[i] = s[i]
         /\ \A a \in 1 .. Len(t) : (s \o t)[Len(s) + a] = t[a]
<1>1. /\ s \o t \in Seq(S) /\ Len(s \o t) = Len(s) + Len(t)
      /\ \A i \in 1 .. Len(s) + Len(t) : (s \o t)[i] = IF i <= Len(s) THEN s[i] ELSE t[i - Len(s)]
  BY ConcatProperties, Zenon
<1>2. Len(s) \in Nat /\ Len(t) \in Nat
  BY LenProperties
<1>3. \A i \in 1 .. Len(s) : (s \o t)[i] = s[i]
  BY <1>1, <1>2
<1>4. \A a \in 1 .. Len(t) : (s \o t)[Len(s) + a] = t[a]
  <2> TAKE a \in 1 .. Len(t)
  <2>1. Len(s) + a \in 1 .. Len(s) + Len(t) /\ ~(Len(s) + a <= Len(s)) /\ (Len(s) + a) - Len(s) = a
    BY <1>2
  <2> QED
    BY <1>1, <2>1
<1> QED
  BY <1>1, <1>3, <1>4

(* Times are numbers.                                                      *)
LEMMA TimesAreNumbers ==
  ASSUME TypeOK
  PROVE  /\ \A k \in Connections : /\ Len(up[k]) \in Nat
                                   /\ \A i \in 1 .. Len(up[k]) : /\ up[k][i] \in Messages
                                                                 /\ up[k][i].time \in Nat
                                                                 /\ up[k][i].seq \in Nat
         /\ Len(rcv_buffer) \in Nat
         /\ \A i \in 1 .. Len(rcv_buffer) : /\ rcv_buffer[i] \in Messages
                                            /\ rcv_buffer[i].time \in Nat
                                            /\ rcv_buffer[i].seq \in Nat
         /\ Len(pending_client_requests) \in Nat
         /\ \A i \in 1 .. Len(pending_client_requests) :
               /\ pending_client_requests[i] \in Entries
               /\ pending_client_requests[i].recv_time \in Nat
               /\ pending_client_requests[i].request \in Messages
               /\ pending_client_requests[i].request.time \in Nat
<1>1. \A x \in Messages : x.time \in Nat /\ x.seq \in Nat
  BY DEF Messages
<1>2. \A x \in Entries : x.recv_time \in Nat /\ x.request \in Messages
  BY DEF Entries
<1>3. \A k \in Connections : up[k] \in Seq(Messages)
  BY DEF TypeOK
<1>4. rcv_buffer \in Seq(Messages) /\ pending_client_requests \in Seq(Entries)
  BY DEF TypeOK
<1>5. \A k \in Connections : Len(up[k]) \in Nat /\ \A i \in 1 .. Len(up[k]) : up[k][i] \in Messages
  BY <1>3
<1>6. Len(rcv_buffer) \in Nat /\ \A i \in 1 .. Len(rcv_buffer) : rcv_buffer[i] \in Messages
  BY <1>4
<1>7. /\ Len(pending_client_requests) \in Nat
      /\ \A i \in 1 .. Len(pending_client_requests) : pending_client_requests[i] \in Entries
  BY <1>4
<1> QED
  BY <1>1, <1>2, <1>5, <1>6, <1>7

(* A live connection is a connection.                                      *)
LEMMA LiveConnections ==
  ASSUME TypeOK
  PROVE  Live \subseteq Connections
<1>1. rcv_sockets \in Seq(Connections) /\ backlog \in Seq(Connections)
  BY DEF TypeOK
<1>2. Range(rcv_sockets) \subseteq Connections /\ Range(backlog) \subseteq Connections
  BY <1>1 DEF Range
<1>3. Unused \subseteq Connections
  BY DEF Unused
<1> QED
  BY <1>2, <1>3 DEF Live

(* A connection is one of the server's sockets only.                       *)
LEMMA OneSocket ==
  ASSUME TypeOK, ConnectionInv
  PROVE  \A a, b \in 1 .. Len(rcv_sockets) : rcv_sockets[a] = rcv_sockets[b] => a = b
<1>1. IsInjective(rcv_sockets) /\ rcv_sockets \in Seq(Connections)
  BY DEF TypeOK, ConnectionInv
<1>2. DOMAIN rcv_sockets = 1 .. Len(rcv_sockets)
  BY <1>1
<1> QED
  BY <1>1, <1>2 DEF IsInjective

(* The order of what was handed on depends on nothing else.                *)
LEMMA ArrivalOrderUnchanged ==
  ASSUME ArrivalOrder, UNCHANGED <<published, rounds>>
  PROVE  ArrivalOrder'
BY DEF ArrivalOrder

(* It holds at the start.                                                  *)
LEMMA InitAInv == Init => AInv
<1> SUFFICES ASSUME Init PROVE AInv
  OBVIOUS
<1> USE DEF Init, NetworkInit, GatewayInit, ServerInit
<1>1. ArrivalOrder
  BY DEF ArrivalOrder
<1>2. StampInv
  <2>1. TypeOK
    BY InitIInv DEF IInv
  <2>2. Moving = {}
    BY <2>1, MovingPlaces
  <2> QED
    BY <2>2 DEF StampInv
<1>3. RoundInv
  BY DEF RoundInv
<1>4. ReadInv
  BY DEF ReadInv, After, Live, Unused, Range
<1>5. WireInv
  BY DEF WireInv, Ascending
<1>6. BatchInv
  BY DEF BatchInv
<1> QED
  BY <1>1, <1>2, <1>3, <1>4, <1>5, <1>6 DEF AInv

(* A step in which no request moves: no round is forgotten, nothing that   *)
(* has still to be read is passed over, and the read goes on as it was.    *)
LEMMA QuietStep ==
  ASSUME IInv, AInv, server_pc' # "exited" => server_pc # "exited",
         UNCHANGED <<up, rcv_buffer, pending_client_requests, published, rounds, round_start,
                     clock, rx_time>>,
         \A c \in Clients, k \in Connections : tcp_socket'[c] = k /\ up[k] # <<>> =>
            tcp_socket[c] = k /\ next_outgoing_seq_num'[c] = next_outgoing_seq_num[c],
         Live' \subseteq Live,
         \A k \in Live' : Unread(k) => Unread(k)' \/ up[k] = <<>>,
         rcv_buffer # <<>> =>
            /\ server_pc' = server_pc
            /\ UNCHANGED <<cid_tcp_socket, cid_next_exp_seq_num, cursor, rcv_sockets>>
  PROVE  AInv'
<1>1. ArrivalOrder'
  BY DEF AInv, ArrivalOrder
<1> SUFFICES ASSUME server_pc' # "exited"
             PROVE  /\ StampInv' /\ RoundInv' /\ ReadInv' /\ WireInv'
                    /\ KernelTime => BatchInv'
  BY <1>1 DEF AInv
<1>2. StampInv /\ RoundInv /\ ReadInv /\ WireInv /\ (KernelTime => BatchInv)
  BY DEF AInv
<1>3. StampInv'
  BY <1>2 DEF StampInv, Moving
<1>4. RoundInv'
  BY <1>2 DEF RoundInv
<1>5. ReadInv'
  <2>1. server_pc' # "parse" => rcv_buffer' = <<>>
    BY <1>2 DEF ReadInv
  <2>2. ASSUME NEW k \in Live', ~Unread(k)' PROVE After(up'[k], round_start')
    BY <1>2, <2>2 DEF ReadInv, After
  <2>3. \A r \in 1 .. Len(rounds') :
          /\ \A k \in Live' : After(up'[k], rounds'[r])
          /\ After(rcv_buffer', rounds'[r])
          /\ \A i \in 1 .. Len(pending_client_requests') :
                pending_client_requests'[i].request.time > rounds'[r]
    BY <1>2 DEF ReadInv
  <2> QED
    BY <2>1, <2>2, <2>3 DEF ReadInv, After
<1>6. WireInv'
  BY <1>2 DEF WireInv, Ascending
<1>7. ASSUME KernelTime PROVE BatchInv'
  <2>1. BatchInv
    BY <1>2, <1>7
  <2>2. \A k : Parsing(k)' <=> Parsing(k)
    BY DEF Parsing, Socket
  <2>3. rcv_buffer # <<>> => (AcceptedNext(rcv_buffer[1])' <=> AcceptedNext(rcv_buffer[1]))
    BY DEF AcceptedNext, Socket, InSequence
  <2>4. server_pc' = "parse" /\ rcv_buffer' # <<>> => rcv_buffer'[Len(rcv_buffer')].time = rx_time'
    BY <2>1 DEF BatchInv
  <2>5. \A k : Parsing(k) => rcv_buffer # <<>>
    BY DEF Parsing
  <2> HIDE DEF Parsing, AcceptedNext
  <2> QED
    BY <2>1, <2>2, <2>3, <2>4, <2>5 DEF BatchInv
<1> QED
  BY <1>3, <1>4, <1>5, <1>6, <1>7

----------------------------------------------------------------------------
(* Steps in which no request moves.                                        *)

(* A client connects, or its process ends.                                 *)
LEMMA ConnectKeeps ==
  ASSUME IInv, AInv, NEW c \in Clients, Connect(c), UNCHANGED server
  PROVE  AInv'
<1> DEFINE k == Min(Unused)
<1>1. /\ UNCHANGED <<up, clock, rcv_buffer, pending_client_requests, published, rounds, round_start>>
      /\ UNCHANGED <<rx_time, server_pc, cid_tcp_socket, cid_next_exp_seq_num, cursor, rcv_sockets>>
  BY DEF Connect, server
<1>2. k \in Unused /\ k \in Connections
  <2>1. Unused \subseteq Nat /\ Unused # {}
    BY ConnectionsAssumption DEF Connect, Unused, Connections
  <2>2. PICK n \in Unused : \A m \in Unused : n <= m
    BY <2>1, LeastNatural
  <2>3. k \in Unused
    BY <2>1, <2>2 DEF Min
  <2> QED
    BY <2>3 DEF Unused
<1> HIDE DEF k
<1>3. /\ tcp_socket' = [tcp_socket EXCEPT ![c] = k]
      /\ next_outgoing_seq_num' = [next_outgoing_seq_num EXCEPT ![c] = 1]
      /\ peer' = [peer EXCEPT ![k] = "open"]
      /\ backlog' = Append(backlog, k)
  BY DEF Connect, k
<1>4. TypeOK /\ ConnectionInv
  BY DEF IInv
<1>5. up[k] = <<>>
  BY <1>2, <1>4 DEF ConnectionInv
<1>6. \A d \in Clients, j \in Connections : tcp_socket'[d] = j /\ up[j] # <<>> =>
        tcp_socket[d] = j /\ next_outgoing_seq_num'[d] = next_outgoing_seq_num[d]
  BY <1>3, <1>4, <1>5 DEF TypeOK
<1>7. Live' \subseteq Live
  <2>1. Range(backlog') = Range(backlog) \cup {k}
    BY <1>2, <1>3, <1>4, AppendFacts DEF TypeOK
  <2>2. Unused' \subseteq Unused
    BY <1>3, <1>4 DEF Unused, TypeOK
  <2> QED
    BY <1>1, <1>2, <2>1, <2>2 DEF Live
<1>8. \A j : Unread(j)' <=> Unread(j)
  BY <1>1 DEF Unread
<1> QED
  BY <1>1, <1>6, <1>7, <1>8, QuietStep

(* A client closes its connection.                                         *)
LEMMA CloseKeeps ==
  ASSUME IInv, AInv, NEW c \in Clients, NEW how \in {"fin", "rst"}, Close(c, how), UNCHANGED server
  PROVE  AInv'
<1>1. /\ UNCHANGED <<up, clock, rcv_buffer, pending_client_requests, published, rounds, round_start>>
      /\ UNCHANGED <<rx_time, server_pc, cid_tcp_socket, cid_next_exp_seq_num, cursor, rcv_sockets>>
      /\ UNCHANGED <<backlog, next_outgoing_seq_num>>
      /\ tcp_socket' = [tcp_socket EXCEPT ![c] = NoSocket]
      /\ peer' = [peer EXCEPT ![tcp_socket[c]] = how]
  BY DEF Close, server
<1>2. TypeOK
  BY DEF IInv
<1>3. \A d \in Clients, j \in Connections : tcp_socket'[d] = j /\ up[j] # <<>> =>
        tcp_socket[d] = j /\ next_outgoing_seq_num'[d] = next_outgoing_seq_num[d]
  BY <1>1, <1>2 DEF TypeOK, Connections, NoSocket
<1>4. Live' \subseteq Live
  <2>1. Unused' \subseteq Unused
    BY <1>1, <1>2 DEF Unused, TypeOK
  <2> QED
    BY <1>1, <2>1 DEF Live
<1>5. \A j : Unread(j)' <=> Unread(j)
  BY <1>1 DEF Unread
<1> QED
  BY <1>1, <1>3, <1>4, <1>5, QuietStep

(* A step that changes neither the gateways nor the sockets, nor how far   *)
(* the server has come.                                                    *)
LEMMA IdleKeeps ==
  ASSUME IInv, AInv,
         UNCHANGED <<up, clock, rcv_buffer, pending_client_requests, published, rounds, round_start>>,
         UNCHANGED <<rx_time, cid_tcp_socket, cid_next_exp_seq_num, cursor, rcv_sockets>>,
         UNCHANGED <<peer, backlog, tcp_socket, next_outgoing_seq_num>>,
         server_pc' = server_pc \/ (server_pc = "respond" /\ server_pc' = "reap")
  PROVE  AInv'
<1>1. Live' = Live
  BY DEF Live, Unused
<1>2. \A j : Unread(j) => Unread(j)'
  BY DEF Unread
<1>3. server_pc' # "exited" => server_pc # "exited"
  OBVIOUS
<1>4. rcv_buffer # <<>> => server_pc' = server_pc
  BY DEF AInv, ReadInv
<1> QED
  BY <1>1, <1>2, <1>3, <1>4, QuietStep

(* Sockets are freed.                                                      *)
LEMMA ReapKeeps ==
  ASSUME IInv, AInv, Reap, UNCHANGED gateway
  PROVE  AInv'
<1>1. /\ UNCHANGED <<up, clock, rcv_buffer, pending_client_requests, published, rounds, round_start>>
      /\ UNCHANGED <<rx_time, cursor, peer, backlog, tcp_socket, next_outgoing_seq_num>>
      /\ rcv_sockets' = Without(rcv_sockets, disconnected_sockets)
      /\ server_pc = "reap" /\ server_pc' = "accept"
  BY DEF Reap, engine, reading, network, gateway
<1>2. Live' \subseteq Live
  <2>1. Range(rcv_sockets') \subseteq Range(rcv_sockets)
    BY <1>1, WithoutFacts DEF IInv, TypeOK
  <2> QED
    BY <1>1, <2>1 DEF Live, Unused
<1>3. \A j : ~Unread(j)
  BY <1>1 DEF Unread
<1>4. rcv_buffer = <<>>
  BY <1>1 DEF AInv, ReadInv
<1> QED
  BY <1>1, <1>2, <1>3, <1>4, QuietStep

(* The server goes on to the next socket: this one has nothing to read, or *)
(* was read.                                                               *)
LEMMA FlushKeeps ==
  ASSUME IInv, AInv, NEW eof, Flush(eof), UNCHANGED gateway,
         UNCHANGED <<up, sessions, pending_client_requests, rcv_buffer, recv>>,
         \/ server_pc = "recv" /\ cursor <= Len(rcv_sockets) /\ up[Socket] = <<>>
         \/ server_pc = "parse" /\ rcv_buffer = <<>>
  PROVE  AInv'
<1>1. /\ UNCHANGED <<clock, published, rounds, round_start, rx_time, peer, backlog, rcv_sockets>>
      /\ UNCHANGED <<tcp_socket, next_outgoing_seq_num>>
      /\ cursor' = cursor + 1 /\ server_pc' = "recv"
  BY DEF Flush, engine, gateway
<1>2. Live' = Live
  BY <1>1 DEF Live, Unused
<1>3. rcv_buffer = <<>>
  BY DEF AInv, ReadInv
<1>4. ASSUME NEW j \in Live', Unread(j) PROVE Unread(j)' \/ up[j] = <<>>
  <2>1. PICK m \in 1 .. Len(rcv_sockets) :
           /\ rcv_sockets[m] = j
           /\ (server_pc = "recv" /\ m >= cursor) \/ (server_pc = "parse" /\ m > cursor)
    BY <1>4 DEF Unread
  <2>2. cursor \in Nat /\ m \in Nat
    BY DEF IInv, TypeOK
  <2>3. CASE m = cursor
    BY <2>1, <2>2, <2>3 DEF Socket
  <2>4. CASE m # cursor
    <3>1. m >= cursor'
      BY <1>1, <2>1, <2>2, <2>4
    <3> QED
      BY <1>1, <2>1, <3>1 DEF Unread
  <2> QED
    BY <2>3, <2>4
<1> QED
  BY <1>1, <1>2, <1>3, <1>4, QuietStep

(* The backlog is accepted, and a round begins: every connection over      *)
(* which something came is going to be read.                               *)
LEMMA AcceptKeeps ==
  ASSUME IInv, AInv, Accept, UNCHANGED gateway
  PROVE  AInv'
<1>1. /\ UNCHANGED <<up, clock, rcv_buffer, pending_client_requests, published, rounds>>
      /\ UNCHANGED <<rx_time, peer, tcp_socket, next_outgoing_seq_num>>
      /\ rcv_sockets' = rcv_sockets \o backlog /\ backlog' = <<>> /\ cursor' = 1
      /\ round_start' = clock
      /\ server_pc = "accept" /\ server_pc' = "recv"
  BY DEF Accept, engine, gateway
<1>2. TypeOK /\ ConnectionInv
  BY DEF IInv
<1>3. StampInv /\ RoundInv /\ ReadInv /\ WireInv
  BY <1>1 DEF AInv
<1>4. rcv_buffer = <<>> /\ pending_client_requests = <<>>
  BY <1>1 DEF IInv, PendingInv, AInv, ReadInv
<1>5. ArrivalOrder'
  BY <1>1, ArrivalOrderUnchanged DEF AInv
<1>6. StampInv'
  BY <1>1, <1>3 DEF StampInv, Moving
<1>7. RoundInv'
  BY <1>1, <1>2, <1>3 DEF RoundInv, TypeOK
<1>8. /\ Range(rcv_sockets') = Range(rcv_sockets) \cup Range(backlog)
      /\ rcv_sockets' \in Seq(Connections)
  BY <1>1, <1>2, ConcatRange DEF TypeOK, ConnectionInv
<1>9. Range(backlog') = {} /\ Unused' = Unused
  BY <1>1 DEF Range, Unused
<1>10. Live' = Live
  BY <1>8, <1>9 DEF Live
<1>11. ReadInv'
  <2>1. ASSUME NEW k \in Live', ~Unread(k)' PROVE After(up'[k], round_start')
    <3>1. k \notin Range(rcv_sockets')
      <4> SUFFICES ASSUME k \in Range(rcv_sockets') PROVE FALSE
        OBVIOUS
      <4>1. PICK m \in 1 .. Len(rcv_sockets') : rcv_sockets'[m] = k
        BY <1>8 DEF Range
      <4>2. m >= cursor'
        BY <1>1
      <4> QED
        BY <1>1, <2>1, <4>1, <4>2 DEF Unread
    <3>2. k \in Unused
      BY <1>9, <2>1, <3>1 DEF Live
    <3> QED
      BY <1>1, <1>2, <3>2 DEF ConnectionInv, After
  <2> QED
    BY <1>1, <1>3, <1>4, <1>10, <2>1 DEF ReadInv, After
<1>12. WireInv'
  BY <1>1, <1>3 DEF WireInv, Ascending
<1>13. BatchInv'
  BY <1>1, <1>4 DEF BatchInv
<1> QED
  BY <1>5, <1>6, <1>7, <1>11, <1>12, <1>13 DEF AInv

----------------------------------------------------------------------------
(* Steps in which requests move.                                           *)

(* A request is sent: its stamp is later than all before, and its number   *)
(* follows those of its connection.                                        *)
LEMMA SendRequestKeeps ==
  ASSUME IInv, AInv, NEW c \in Clients, sendRequest(c), UNCHANGED server
  PROVE  AInv'
<1>1. PICK k : k = tcp_socket[c]
  OBVIOUS
<1>2. PICK msg : msg = Request(c, k, next_outgoing_seq_num[c], clock + 1)
  OBVIOUS
<1>3. TypeOK /\ TypeOK'
  BY SendRequestStep DEF IInv
<1>4. PICK own : OwnerInv(own)
  BY DEF IInv
<1>5. /\ UNCHANGED <<rcv_buffer, pending_client_requests, published, rounds, round_start>>
      /\ UNCHANGED <<rx_time, server_pc, cid_tcp_socket, cid_next_exp_seq_num, cursor, rcv_sockets>>
      /\ UNCHANGED <<peer, backlog, tcp_socket>>
      /\ k # NoSocket /\ clock' = clock + 1 /\ clock \in Nat
      /\ up' = [up EXCEPT ![k] = Append(up[k], msg)]
      /\ next_outgoing_seq_num' = [next_outgoing_seq_num EXCEPT ![c] = @ + 1]
  BY <1>1, <1>2, <1>3 DEF sendRequest, server, TypeOK
<1>6. k \in Connections /\ \A d \in Clients : tcp_socket[d] = k => d = c
  BY <1>1, <1>3, <1>4, <1>5, OneGateway
<1>7. /\ msg \in Messages /\ msg.conn = k /\ msg.time = clock + 1
      /\ msg.seq = next_outgoing_seq_num[c] /\ msg.seq \in Nat
  <2>1. next_outgoing_seq_num[c] \in Nat
    BY <1>3 DEF TypeOK
  <2> QED
    BY <1>2, <1>5, <1>6, <2>1 DEF Request, Messages
<1>8. /\ up[k] \in Seq(Messages) /\ Len(up[k]) \in Nat
      /\ up'[k] = Append(up[k], msg) /\ Len(up'[k]) = Len(up[k]) + 1
      /\ \A i \in 1 .. Len(up[k]) : up'[k][i] = up[k][i]
      /\ up'[k][Len(up[k]) + 1] = msg
      /\ \A j \in Connections \ {k} : up'[j] = up[j]
  <2>1. up[k] \in Seq(Messages)
    BY <1>3, <1>6 DEF TypeOK
  <2>2. up'[k] = Append(up[k], msg) /\ \A j \in Connections \ {k} : up'[j] = up[j]
    BY <1>3, <1>5, <1>6 DEF TypeOK
  <2> QED
    BY <1>7, <2>1, <2>2, AppendProperties, LenProperties
<1>9. \A j \in Connections : \A i \in 1 .. Len(up'[j]) :
         \/ i \in 1 .. Len(up[j]) /\ up'[j][i] = up[j][i]
         \/ j = k /\ i = Len(up[k]) + 1 /\ up'[j][i] = msg
  BY <1>8
<1>10. ArrivalOrder'
  BY <1>5 DEF AInv, ArrivalOrder
<1> SUFFICES ASSUME server_pc # "exited"
             PROVE  /\ StampInv' /\ RoundInv' /\ ReadInv' /\ WireInv'
                    /\ KernelTime => BatchInv'
  BY <1>5, <1>10 DEF AInv
<1>11. StampInv /\ RoundInv /\ ReadInv /\ WireInv /\ (KernelTime => BatchInv)
  BY DEF AInv
<1>12. StampInv'
  <2>1. ASSUME NEW x \in Moving' PROVE x \in Moving \/ x = msg
    BY <1>3, <1>5, <1>9, MovingPlaces
  <2>2. \A x \in Moving : x.time \in 1 .. clock
    BY <1>11 DEF StampInv
  <2>3. \A x, y \in Moving : x.time = y.time => x.conn = y.conn
    BY <1>11 DEF StampInv
  <2>4. ASSUME NEW x \in Moving' PROVE x.time \in 1 .. clock'
    BY <1>5, <1>7, <2>1, <2>2
  <2>5. ASSUME NEW x \in Moving', NEW y \in Moving', x.time = y.time PROVE x.conn = y.conn
    <3>1. CASE x = msg /\ y = msg
      BY <3>1
    <3>2. CASE x = msg /\ y \in Moving
      BY <1>5, <1>7, <2>2, <2>5, <3>2
    <3>3. CASE x \in Moving /\ y = msg
      BY <1>5, <1>7, <2>2, <2>5, <3>3
    <3>4. CASE x \in Moving /\ y \in Moving
      BY <2>3, <2>5, <3>4
    <3> QED
      BY <2>1, <3>1, <3>2, <3>3, <3>4
  <2> QED
    BY <2>4, <2>5 DEF StampInv
<1>13. RoundInv'
  <2>1. rounds \in Seq(Nat)
    BY <1>11 DEF RoundInv
  <2>2. \A r \in 1 .. Len(rounds) : rounds[r] <= clock'
    BY <1>5, <1>11, <2>1 DEF RoundInv
  <2>3. round_start \in 0 .. clock'
    BY <1>5, <1>11 DEF RoundInv
  <2> QED
    BY <1>5, <1>11, <2>2, <2>3 DEF RoundInv
<1>14. Live' = Live
  BY <1>5 DEF Live, Unused
<1>15. Live \subseteq Connections
  BY <1>3, LiveConnections
<1>16. \A j : Unread(j)' <=> Unread(j)
  BY <1>5 DEF Unread
<1>17. ASSUME NEW j \in Live, NEW t \in 0 .. clock, After(up[j], t) PROVE After(up'[j], t)
  <2>1. ASSUME NEW i \in 1 .. Len(up'[j]) PROVE up'[j][i].time > t
    <3>1. CASE i \in 1 .. Len(up[j]) /\ up'[j][i] = up[j][i]
      BY <1>17, <3>1 DEF After
    <3>2. CASE up'[j][i] = msg
      BY <1>5, <1>7, <3>2
    <3> QED
      BY <1>9, <1>15, <3>1, <3>2
  <2> QED
    BY <2>1 DEF After
<1>18. ReadInv'
  <2>1. round_start \in 0 .. clock /\ \A r \in 1 .. Len(rounds) : rounds[r] \in 0 .. clock
    BY <1>5, <1>11 DEF RoundInv
  <2>2. \A j \in Live : ~Unread(j) => After(up'[j], round_start)
    BY <1>11, <1>17, <2>1 DEF ReadInv
  <2>3. \A r \in 1 .. Len(rounds) : \A j \in Live : After(up'[j], rounds[r])
    BY <1>11, <1>17, <2>1 DEF ReadInv
  <2>4. \A r \in 1 .. Len(rounds) :
          /\ After(rcv_buffer', rounds[r])
          /\ \A i \in 1 .. Len(pending_client_requests) :
                pending_client_requests[i].request.time > rounds[r]
    BY <1>5, <1>11 DEF ReadInv
  <2>5. server_pc # "parse" => rcv_buffer = <<>>
    BY <1>11 DEF ReadInv
  <2> HIDE DEF After
  <2> QED
    BY <1>5, <1>14, <1>16, <2>2, <2>3, <2>4, <2>5 DEF ReadInv
<1>19. WireInv'
  <2>1. Ascending(up'[k])
    <3>1. up[k] # <<>> => up[k][Len(up[k])].seq + 1 = msg.seq
      BY <1>1, <1>6, <1>7, <1>11 DEF WireInv
    <3>2. Ascending(up[k])
      BY <1>6, <1>11 DEF WireInv
    <3>3. \A i \in 1 .. Len(up[k]) : up[k][i].time \in 1 .. clock /\ up[k][i].seq \in Nat
      <4>1. \A i \in 1 .. Len(up[k]) : up[k][i] \in Moving
        BY <1>3, <1>6, MovingPlaces
      <4>2. \A i \in 1 .. Len(up[k]) : up[k][i].seq \in Nat
        BY <1>3, <1>6, TimesAreNumbers
      <4> QED
        BY <1>11, <4>1, <4>2 DEF StampInv
    <3>4. ASSUME NEW i \in 1 .. Len(up'[k]), NEW j \in 1 .. Len(up'[k]), i < j
          PROVE  up'[k][i].time < up'[k][j].time /\ up'[k][j].seq = up'[k][i].seq + (j - i)
      <4>1. i \in 1 .. Len(up[k]) /\ up'[k][i] = up[k][i]
        BY <1>8, <3>4
      <4>2. CASE j \in 1 .. Len(up[k])
        BY <1>8, <3>2, <3>4, <4>1, <4>2 DEF Ascending
      <4>3. CASE j = Len(up[k]) + 1
        <5>1. up'[k][j] = msg
          BY <1>8, <4>3
        <5>2. up[k][i].time < msg.time
          BY <1>5, <1>7, <3>3, <4>1
        <5>3. up[k] # <<>> /\ Len(up[k]) \in 1 .. Len(up[k])
          BY <1>8, <4>1
        <5>4. msg.seq = up[k][Len(up[k])].seq + 1
          BY <3>1, <5>3
        <5>5. up[k][Len(up[k])].seq = up[k][i].seq + (Len(up[k]) - i)
          <6>1. CASE i = Len(up[k])
            BY <3>3, <4>1, <6>1
          <6>2. CASE i < Len(up[k])
            BY <3>2, <4>1, <5>3, <6>2 DEF Ascending
          <6> QED
            BY <1>8, <4>1, <6>1, <6>2
        <5>6. msg.seq = up[k][i].seq + (j - i)
          <6>1. PICK x \in Nat, n \in Nat : x = up[k][i].seq /\ n = Len(up[k])
            BY <1>8, <3>3, <4>1
          <6>2. msg.seq = x + (n - i) + 1 /\ j = n + 1 /\ i \in Nat
            BY <4>1, <4>3, <5>4, <5>5, <6>1
          <6>3. msg.seq = x + (j - i)
            BY <6>2
          <6> QED
            BY <6>1, <6>3
        <5> QED
          BY <4>1, <5>1, <5>2, <5>6
      <4> QED
        BY <1>8, <4>2, <4>3
    <3> QED
      BY <3>4 DEF Ascending
  <2>2. \A j \in Connections : Ascending(up'[j])
    BY <1>8, <1>11, <2>1 DEF WireInv
  <2>3. ASSUME NEW d \in Clients, NEW j \in Connections, tcp_socket'[d] = j, up'[j] # <<>>
        PROVE  up'[j][Len(up'[j])].seq + 1 = next_outgoing_seq_num'[d]
    <3>1. CASE j = k
      <4>1. d = c
        BY <1>5, <1>6, <2>3, <3>1
      <4>2. next_outgoing_seq_num'[c] = next_outgoing_seq_num[c] + 1
        BY <1>3, <1>5 DEF TypeOK
      <4> QED
        BY <1>7, <1>8, <3>1, <4>1, <4>2
    <3>2. CASE j # k
      <4>1. d # c /\ up'[j] = up[j]
        BY <1>1, <1>5, <1>8, <2>3, <3>2
      <4>2. next_outgoing_seq_num'[d] = next_outgoing_seq_num[d]
        BY <1>3, <1>5, <4>1 DEF TypeOK
      <4> QED
        BY <1>5, <1>11, <2>3, <4>1, <4>2 DEF WireInv
    <3> QED
      BY <3>1, <3>2
  <2>4. Ascending(rcv_buffer')
    BY <1>5, <1>11 DEF WireInv
  <2> HIDE DEF Ascending
  <2> QED
    BY <2>2, <2>3, <2>4 DEF WireInv
<1>20. KernelTime => BatchInv'
  <2>1. \A x : Parsing(x)' <=> Parsing(x)
    BY <1>5 DEF Parsing, Socket
  <2>2. AcceptedNext(rcv_buffer[1])' <=> AcceptedNext(rcv_buffer[1])
    BY <1>5 DEF AcceptedNext, Socket, InSequence
  <2> HIDE DEF Parsing, AcceptedNext
  <2> QED
    BY <1>5, <1>11, <2>1, <2>2 DEF BatchInv
<1> QED
  BY <1>12, <1>13, <1>18, <1>19, <1>20

(* A read: what came over the connection is in the receive buffer, and the *)
(* time of the read is that of its last message.                           *)
LEMMA RecvDataKeeps ==
  ASSUME IInv, AInv, RecvData, UNCHANGED gateway
  PROVE  AInv'
<1>1. TypeOK /\ ConnectionInv /\ TypeOK'
  BY RecvDataStep DEF IInv
<1>2. PICK k : k = Socket
  OBVIOUS
<1>3. /\ server_pc = "recv" /\ server_pc' = "parse" /\ cursor <= Len(rcv_sockets)
      /\ up[k] # <<>> /\ rcv_buffer' = up[k] /\ up' = [up EXCEPT ![k] = <<>>]
      /\ KernelTime => rx_time' = Last(up[k]).time
      /\ UNCHANGED <<clock, pending_client_requests, published, rounds, round_start>>
      /\ UNCHANGED <<cid_tcp_socket, cid_next_exp_seq_num, cursor, rcv_sockets>>
      /\ UNCHANGED <<peer, backlog, tcp_socket, next_outgoing_seq_num>>
  BY <1>2 DEF RecvData, engine, sessions, gateway
<1>4. StampInv /\ RoundInv /\ ReadInv /\ WireInv /\ (KernelTime => BatchInv)
  BY <1>3 DEF AInv
<1>5. SessionInv /\ PendingInv
  BY <1>3 DEF IInv
<1>6. /\ cursor \in 1 .. Len(rcv_sockets) /\ rcv_sockets[cursor] = k
      /\ k \in Range(rcv_sockets) /\ k \in Connections
  <2>1. cursor \in DOMAIN rcv_sockets /\ cursor \in 1 .. Len(rcv_sockets) /\ rcv_sockets \in Seq(Connections)
    BY <1>1, <1>3 DEF TypeOK
  <2> QED
    BY <1>2, <2>1 DEF Socket, Range
<1>7. /\ up'[k] = <<>> /\ \A j \in Connections \ {k} : up'[j] = up[j]
      /\ up[k] \in Seq(Messages) /\ Len(up[k]) \in 1 .. Len(up[k])
  <2>1. up[k] \in Seq(Messages)
    BY <1>1, <1>6 DEF TypeOK
  <2> QED
    BY <1>1, <1>3, <1>6, <2>1, EmptySeq, LenProperties DEF TypeOK
<1>8. ArrivalOrder'
  BY <1>3 DEF AInv, ArrivalOrder
<1>9. StampInv'
  <2>1. ASSUME NEW x \in Moving' PROVE x \in Moving
    <3>1. CASE \E j \in Connections : \E i \in 1 .. Len(up'[j]) : x = up'[j][i]
      <4>1. PICK j \in Connections : \E i \in 1 .. Len(up'[j]) : x = up'[j][i]
        BY <3>1
      <4>2. j # k
        BY <1>7, <4>1
      <4> QED
        BY <1>1, <1>7, <4>1, <4>2, MovingPlaces
    <3>2. CASE \E i \in 1 .. Len(rcv_buffer') : x = rcv_buffer'[i]
      BY <1>1, <1>3, <1>6, <3>2, MovingPlaces
    <3>3. CASE \E i \in 1 .. Len(pending_client_requests') : x = pending_client_requests'[i].request
      BY <1>1, <1>3, <3>3, MovingPlaces
    <3> QED
      BY <1>1, <2>1, <3>1, <3>2, <3>3, MovingPlaces
  <2> QED
    BY <1>3, <1>4, <2>1 DEF StampInv
<1>10. RoundInv'
  BY <1>3, <1>4 DEF RoundInv
<1>11. Live' = Live /\ Live \subseteq Connections /\ k \in Live
  <2>1. Live' = Live
    BY <1>3 DEF Live, Unused
  <2>2. Live \subseteq Connections
    BY <1>1, LiveConnections
  <2> QED
    BY <1>6, <2>1, <2>2 DEF Live
<1>12. ReadInv'
  <2>1. ASSUME NEW j \in Live, ~Unread(j)' PROVE After(up'[j], round_start)
    <3>1. CASE j = k
      BY <1>7, <3>1 DEF After
    <3>2. CASE j # k
      <4>1. ~Unread(j)
        <5> SUFFICES ASSUME Unread(j) PROVE FALSE
          OBVIOUS
        <5>1. PICK m \in 1 .. Len(rcv_sockets) : rcv_sockets[m] = j /\ m >= cursor
          BY <1>3 DEF Unread
        <5>2. m # cursor
          BY <1>6, <3>2, <5>1
        <5>3. m > cursor
          BY <1>6, <5>1, <5>2
        <5> QED
          BY <1>3, <2>1, <5>1, <5>3 DEF Unread
      <4> QED
        BY <1>4, <1>7, <1>11, <3>2, <4>1 DEF ReadInv
    <3> QED
      BY <3>1, <3>2
  <2>2. ASSUME NEW r \in 1 .. Len(rounds)
        PROVE  /\ \A j \in Live : After(up'[j], rounds[r])
               /\ After(rcv_buffer', rounds[r])
               /\ \A i \in 1 .. Len(pending_client_requests) :
                     pending_client_requests[i].request.time > rounds[r]
    <3>1. /\ \A j \in Live : After(up[j], rounds[r])
          /\ \A i \in 1 .. Len(pending_client_requests) :
                pending_client_requests[i].request.time > rounds[r]
      BY <1>4 DEF ReadInv
    <3>2. After(rcv_buffer', rounds[r])
      BY <1>3, <1>11, <3>1
    <3>3. ASSUME NEW j \in Live PROVE After(up'[j], rounds[r])
      <4>1. up'[j] = up[j] \/ up'[j] = <<>>
        BY <1>7, <1>11
      <4> QED
        BY <3>1, <4>1 DEF After
    <3> QED
      BY <3>1, <3>2, <3>3
  <2> HIDE DEF After
  <2> QED
    BY <1>3, <1>11, <2>1, <2>2 DEF ReadInv
<1>13. WireInv'
  <2>1. \A j \in Connections : Ascending(up[j])
    BY <1>4 DEF WireInv
  <2>2. ASSUME NEW j \in Connections PROVE Ascending(up'[j])
    <3>1. up'[j] = up[j] \/ up'[j] = <<>>
      BY <1>7
    <3> QED
      BY <2>1, <3>1 DEF Ascending
  <2>3. Ascending(rcv_buffer')
    BY <1>3, <1>6, <2>1
  <2>4. ASSUME NEW d \in Clients, NEW j \in Connections, tcp_socket'[d] = j, up'[j] # <<>>
        PROVE  up'[j][Len(up'[j])].seq + 1 = next_outgoing_seq_num'[d]
    <3>1. up'[j] = up[j]
      BY <1>7, <2>4
    <3> QED
      BY <1>3, <1>4, <2>4, <3>1 DEF WireInv
  <2> HIDE DEF Ascending
  <2> QED
    BY <2>2, <2>3, <2>4 DEF WireInv
<1>14. ASSUME KernelTime PROVE BatchInv'
  <2>1. BatchInv
    BY <1>4, <1>14
  <2>2. rcv_buffer'[Len(rcv_buffer')].time = rx_time'
    BY <1>3, <1>14 DEF Last
  <2>3. ASSUME NEW i \in 1 .. Len(pending_client_requests)
        PROVE  pending_client_requests[i].request.conn # k
    <3> SUFFICES ASSUME pending_client_requests[i].request.conn = k PROVE FALSE
      OBVIOUS
    <3>1. PICK m \in 1 .. Len(rcv_sockets) : rcv_sockets[m] = k /\ m < cursor
      BY <1>3, <1>5 DEF PendingInv, WasRead
    <3>2. \A a, b \in 1 .. Len(rcv_sockets) : rcv_sockets[a] = rcv_sockets[b] => a = b
      BY <1>1, OneSocket
    <3>3. m = cursor
      BY <1>6, <3>1, <3>2
    <3> QED
      BY <1>6, <3>1, <3>3
  <2>4. \A j : Parsing(j)' => j = k
    BY <1>2, <1>3 DEF Parsing, Socket
  <2>5. \A j : ~Parsing(j)
    BY <1>3 DEF Parsing
  <2> HIDE DEF Parsing, AcceptedNext
  <2> QED
    BY <1>3, <2>1, <2>2, <2>3, <2>4, <2>5 DEF BatchInv
<1> QED
  BY <1>8, <1>9, <1>10, <1>12, <1>13, <1>14 DEF AInv

(* One message of the receive buffer: with time stamps it is accepted if   *)
(* one of the same read was.                                               *)
LEMMA ParseRequestKeeps ==
  ASSUME IInv, AInv, ParseRequest, UNCHANGED gateway
  PROVE  AInv'
<1>1. TypeOK /\ ConnectionInv /\ TypeOK'
  BY ParseRequestStep DEF IInv
<1>2. PICK own : OwnerInv(own)
  BY DEF IInv
<1>3. PICK k, msg, c : k = Socket /\ msg = Head(rcv_buffer) /\ c = msg.client_id
  OBVIOUS
<1>4. /\ server_pc = "parse" /\ rcv_buffer # <<>> /\ rcv_buffer' = Tail(rcv_buffer)
      /\ UNCHANGED <<up, clock, published, rounds, round_start, rx_time, cursor, rcv_sockets>>
      /\ UNCHANGED <<peer, backlog, tcp_socket, next_outgoing_seq_num>>
  BY DEF ParseRequest, engine, gateway, network
<1>5. ArrivalOrder'
  <2>1. ArrivalOrder /\ UNCHANGED <<published, rounds>>
    BY <1>4 DEF AInv
  <2> QED
    BY <2>1 DEF ArrivalOrder
<1> SUFFICES ASSUME server_pc' # "exited"
             PROVE  /\ StampInv' /\ RoundInv' /\ ReadInv' /\ WireInv'
                    /\ KernelTime => BatchInv'
  BY <1>5 DEF AInv
<1>6. StampInv /\ RoundInv /\ ReadInv /\ WireInv /\ (KernelTime => BatchInv)
  BY <1>4 DEF AInv
<1>7. SessionInv /\ PendingInv
  BY <1>4 DEF IInv
<1>8. PICK entry : entry = [recv_time |-> rx_time, request |-> msg,
                            arrival_index |-> Len(pending_client_requests)]
  OBVIOUS
<1>9. /\ server_pc' = server_pc
      /\ \/ \* dropped
            /\ pending_client_requests' = pending_client_requests
            /\ ~AcceptedNext(msg)
         \/ \* accepted
            /\ pending_client_requests' = Append(pending_client_requests, entry)
            /\ c \in ClientIds /\ InSequence(msg)
            /\ cid_tcp_socket' = [cid_tcp_socket EXCEPT ![c] = k]
            /\ cid_next_exp_seq_num' = [cid_next_exp_seq_num EXCEPT ![c] = @ + 1]
  BY <1>3, <1>4, <1>8 DEF ParseRequest, sessions, Registered, InSequence, addClientRequest, AcceptedNext
<1>10. /\ rcv_buffer \in Seq(Messages) /\ msg = rcv_buffer[1] /\ 1 \in 1 .. Len(rcv_buffer)
       /\ rcv_buffer' \in Seq(Messages) /\ Len(rcv_buffer') = Len(rcv_buffer) - 1
       /\ \A i \in 1 .. Len(rcv_buffer') : i + 1 \in 1 .. Len(rcv_buffer) /\ rcv_buffer'[i] = rcv_buffer[i + 1]
       /\ Len(rcv_buffer) \in Nat
  <2>1. rcv_buffer \in Seq(Messages) /\ 1 \in 1 .. Len(rcv_buffer) /\ msg = rcv_buffer[1]
    BY <1>1, <1>3, <1>4, EmptySeq, LenProperties DEF TypeOK
  <2> QED
    BY <1>4, <2>1, HeadTailProperties
<1>11. /\ msg \in Messages /\ msg.conn = k /\ msg.time \in Nat /\ msg.seq \in Nat
       /\ \A i \in 1 .. Len(rcv_buffer) : rcv_buffer[i].client_id = c /\ rcv_buffer[i].conn = k
  <2>1. \A i \in 1 .. Len(rcv_buffer) : rcv_buffer[i].client_id = own[k] /\ rcv_buffer[i].conn = k
    BY <1>2, <1>3, <1>4 DEF OwnerInv
  <2>2. msg \in Messages /\ msg.time \in Nat /\ msg.seq \in Nat
    BY <1>1, <1>10, TimesAreNumbers
  <2> QED
    BY <1>3, <1>10, <2>1, <2>2
<1>12. entry \in Entries /\ entry.request = msg /\ entry.recv_time = rx_time
  BY <1>1, <1>8, <1>11 DEF Entries, TypeOK
<1>13. PICK s \in Seq(Entries) : s = pending_client_requests /\ Len(s) \in Nat
  BY <1>1, LenProperties DEF TypeOK
<1>14. PICK t \in Seq(Entries) : t = pending_client_requests' /\ Len(t) \in Nat
  BY <1>1, LenProperties DEF TypeOK
<1>15. \/ t = s /\ ~AcceptedNext(msg)
       \/ /\ Len(t) = Len(s) + 1 /\ t[Len(s) + 1] = entry /\ \A i \in 1 .. Len(s) : t[i] = s[i]
          /\ c \in ClientIds /\ InSequence(msg)
          /\ cid_tcp_socket' = [cid_tcp_socket EXCEPT ![c] = k]
          /\ cid_next_exp_seq_num' = [cid_next_exp_seq_num EXCEPT ![c] = @ + 1]
  <2>1. /\ Len(Append(s, entry)) = Len(s) + 1 /\ Append(s, entry)[Len(s) + 1] = entry
        /\ \A i \in 1 .. Len(s) : Append(s, entry)[i] = s[i]
    BY <1>12, <1>13, AppendProperties
  <2> QED
    BY <1>9, <1>13, <1>14, <2>1
<1>16. \A i \in 1 .. Len(t) : \/ i \in 1 .. Len(s) /\ t[i] = s[i]
                              \/ i = Len(s) + 1 /\ t[i] = entry
  BY <1>13, <1>15
<1>17. StampInv'
  <2>1. ASSUME NEW x \in Moving' PROVE x \in Moving
    <3>1. CASE \E j \in Connections : \E i \in 1 .. Len(up'[j]) : x = up'[j][i]
      BY <1>1, <1>4, <3>1, MovingPlaces
    <3>2. CASE \E i \in 1 .. Len(rcv_buffer') : x = rcv_buffer'[i]
      BY <1>1, <1>10, <3>2, MovingPlaces
    <3>3. CASE \E i \in 1 .. Len(pending_client_requests') : x = pending_client_requests'[i].request
      <4>1. PICK i \in 1 .. Len(t) : x = t[i].request
        BY <1>14, <3>3
      <4>2. (\E j \in 1 .. Len(s) : x = s[j].request) \/ x = rcv_buffer[1]
        BY <1>10, <1>12, <1>16, <4>1
      <4> QED
        BY <1>1, <1>10, <1>13, <4>2, MovingPlaces
    <3> QED
      BY <1>1, <2>1, <3>1, <3>2, <3>3, MovingPlaces
  <2> QED
    BY <1>4, <1>6, <2>1 DEF StampInv
<1>18. RoundInv'
  BY <1>4, <1>6 DEF RoundInv
<1>19. Live' = Live
  BY <1>4 DEF Live, Unused
<1>20. ReadInv'
  <2>1. \A j : Unread(j)' <=> Unread(j)
    BY <1>4, <1>9 DEF Unread
  <2>2. ASSUME NEW r \in 1 .. Len(rounds)
        PROVE  /\ \A j \in Live : After(up[j], rounds[r])
               /\ After(rcv_buffer', rounds[r])
               /\ \A i \in 1 .. Len(t) : t[i].request.time > rounds[r]
    <3>1. /\ \A j \in Live : After(up[j], rounds[r])
          /\ After(rcv_buffer, rounds[r])
          /\ \A i \in 1 .. Len(s) : s[i].request.time > rounds[r]
      BY <1>6, <1>13 DEF ReadInv
    <3>2. After(rcv_buffer', rounds[r])
      BY <1>10, <3>1 DEF After
    <3>3. msg.time > rounds[r]
      BY <1>10, <3>1 DEF After
    <3> QED
      BY <1>12, <1>16, <3>1, <3>2, <3>3
  <2>3. \A j \in Live : ~Unread(j) => After(up[j], round_start)
    BY <1>6 DEF ReadInv
  <2> HIDE DEF After
  <2> QED
    BY <1>4, <1>9, <1>14, <1>19, <2>1, <2>2, <2>3 DEF ReadInv
<1>21. Ascending(rcv_buffer) /\ Ascending(rcv_buffer')
  <2>1. Ascending(rcv_buffer)
    BY <1>6 DEF WireInv
  <2>2. ASSUME NEW i \in 1 .. Len(rcv_buffer'), NEW j \in 1 .. Len(rcv_buffer'), i < j
        PROVE  /\ rcv_buffer'[i].time < rcv_buffer'[j].time
               /\ rcv_buffer'[j].seq = rcv_buffer'[i].seq + (j - i)
    <3>1. /\ i + 1 \in 1 .. Len(rcv_buffer) /\ rcv_buffer'[i] = rcv_buffer[i + 1]
          /\ j + 1 \in 1 .. Len(rcv_buffer) /\ rcv_buffer'[j] = rcv_buffer[j + 1]
      BY <1>10
    <3>2. i + 1 < j + 1 /\ (j + 1) - (i + 1) = j - i
      BY <2>2
    <3> QED
      BY <2>1, <3>1, <3>2 DEF Ascending
  <2> QED
    BY <2>1, <2>2 DEF Ascending
<1>22. WireInv'
  BY <1>4, <1>6, <1>21 DEF WireInv
<1>23. ASSUME KernelTime PROVE BatchInv'
  <2>1. BatchInv
    BY <1>6, <1>23
  <2>2. \A i \in 1 .. Len(rcv_buffer) : rcv_buffer[i].time \in Nat /\ rcv_buffer[i].seq \in Nat
    BY <1>1, TimesAreNumbers
  <2>3. rcv_buffer[Len(rcv_buffer)].time = rx_time
    BY <1>4, <2>1 DEF BatchInv
  <2>4. rcv_buffer' # <<>> =>
          /\ rcv_buffer'[Len(rcv_buffer')].time = rx_time
          /\ 1 \in 1 .. Len(rcv_buffer') /\ rcv_buffer'[1] = rcv_buffer[2]
          /\ msg.time < rcv_buffer'[1].time /\ rcv_buffer'[1].seq = msg.seq + 1
          /\ rcv_buffer'[1].client_id = c
    <3> SUFFICES ASSUME rcv_buffer' # <<>>
                 PROVE  /\ rcv_buffer'[Len(rcv_buffer')].time = rx_time
                        /\ 1 \in 1 .. Len(rcv_buffer') /\ rcv_buffer'[1] = rcv_buffer[2]
                        /\ msg.time < rcv_buffer'[1].time /\ rcv_buffer'[1].seq = msg.seq + 1
                        /\ rcv_buffer'[1].client_id = c
      OBVIOUS
    <3>1. 1 \in 1 .. Len(rcv_buffer') /\ Len(rcv_buffer') \in 1 .. Len(rcv_buffer')
      BY <1>10, EmptySeq, LenProperties
    <3>2. rcv_buffer'[1] = rcv_buffer[2] /\ 2 \in 1 .. Len(rcv_buffer)
      BY <1>10, <3>1
    <3>3. rcv_buffer'[Len(rcv_buffer')] = rcv_buffer[Len(rcv_buffer)]
      BY <1>10, <3>1
    <3>4. rcv_buffer[1].time < rcv_buffer[2].time /\ rcv_buffer[2].seq = rcv_buffer[1].seq + (2 - 1)
      BY <1>10, <1>21, <3>2 DEF Ascending
    <3> QED
      BY <1>10, <1>11, <2>3, <3>1, <3>2, <3>3, <3>4
  <2>5. msg.time <= rx_time /\ (rcv_buffer' = <<>> => msg.time = rx_time)
    <3>1. CASE Len(rcv_buffer) = 1
      BY <1>10, <1>11, <2>3, <3>1
    <3>2. CASE Len(rcv_buffer) # 1
      <4>1. Len(rcv_buffer) \in 1 .. Len(rcv_buffer) /\ 1 < Len(rcv_buffer)
        BY <1>10, <3>2
      <4>2. rcv_buffer[1].time < rcv_buffer[Len(rcv_buffer)].time
        BY <1>10, <1>21, <4>1 DEF Ascending
      <4>3. Len(rcv_buffer') # 0
        BY <1>10, <3>2
      <4>4. rcv_buffer' # <<>>
        BY <4>3
      <4> QED
        BY <1>10, <2>2, <2>3, <4>1, <4>2, <4>4
    <3> QED
      BY <3>1, <3>2
  <2>6. \A j : Parsing(j) <=> j = k
    BY <1>3, <1>4 DEF Parsing
  <2>7. \A j : Parsing(j)' <=> rcv_buffer' # <<>> /\ j = k
    BY <1>3, <1>4, <1>9 DEF Parsing, Socket
  <2>8. \A i \in 1 .. Len(s) : /\ s[i] \in Entries /\ s[i].recv_time \in Nat
                               /\ s[i].request.time \in Nat
    BY <1>1, <1>13, TimesAreNumbers
  \* What the invariant says of the requests pending before.
  <2>9. ASSUME NEW i \in 1 .. Len(s)
        PROVE  /\ s[i].request.time <= s[i].recv_time
               /\ \A j \in 1 .. Len(s) : i < j /\ s[j].request.conn = s[i].request.conn =>
                     s[i].request.time < s[j].request.time
               /\ s[i].request.conn = k => AcceptedNext(msg) /\ s[i].request.time < msg.time
               /\ s[i].request.conn # k =>
                     \E j \in 1 .. Len(s) : /\ s[j].request.conn = s[i].request.conn
                                            /\ s[j].request.time = s[i].recv_time
    <3> HIDE DEF Parsing, AcceptedNext
    <3> QED
      BY <1>10, <1>13, <2>1, <2>6 DEF BatchInv
  <2>10. ASSUME NEW i \in 1 .. Len(s), s[i].request.conn = k PROVE s[i].recv_time = rx_time
    <3>1. WasRead(s[i])
      BY <1>7, <1>13 DEF PendingInv
    <3>2. PICK m \in 1 .. Len(rcv_sockets) :
             rcv_sockets[m] = k /\ (m < cursor \/ (m = cursor /\ s[i].recv_time = rx_time))
      BY <2>10, <3>1 DEF WasRead
    <3>3. cursor \in 1 .. Len(rcv_sockets) /\ rcv_sockets[cursor] = k
      BY <1>1, <1>2, <1>3, <1>4 DEF TypeOK, OwnerInv, Socket
    <3>4. m = cursor
      BY <1>1, <3>2, <3>3, OneSocket
    <3> QED
      BY <3>2, <3>3, <3>4
  <2>11. server_pc' = "parse" /\ rcv_buffer' # <<>> => rcv_buffer'[Len(rcv_buffer')].time = rx_time'
    BY <1>4, <2>4
  <2>12. ASSUME NEW i \in 1 .. Len(t)
         PROVE  /\ t[i].request.time <= t[i].recv_time
                /\ \A j \in 1 .. Len(t) : i < j /\ t[j].request.conn = t[i].request.conn =>
                      t[i].request.time < t[j].request.time
                /\ Parsing(t[i].request.conn)' =>
                      AcceptedNext(rcv_buffer[1])' /\ t[i].request.time < rcv_buffer'[1].time
                /\ \/ Parsing(t[i].request.conn)'
                   \/ \E j \in 1 .. Len(t) : /\ t[j].request.conn = t[i].request.conn
                                             /\ t[j].request.time = t[i].recv_time
    <3>1. CASE t = s /\ ~AcceptedNext(msg)
      <4>1. i \in 1 .. Len(s) /\ s[i].request.conn # k
        BY <2>9, <3>1
      <4> HIDE DEF Parsing, AcceptedNext
      <4> QED
        BY <2>7, <2>9, <3>1, <4>1
    <3>2. CASE /\ Len(t) = Len(s) + 1 /\ t[Len(s) + 1] = entry /\ \A j \in 1 .. Len(s) : t[j] = s[j]
               /\ c \in ClientIds /\ InSequence(msg)
               /\ cid_tcp_socket' = [cid_tcp_socket EXCEPT ![c] = k]
               /\ cid_next_exp_seq_num' = [cid_next_exp_seq_num EXCEPT ![c] = @ + 1]
      <4>1. rcv_buffer' # <<>> => AcceptedNext(rcv_buffer[1])'
        <5> SUFFICES ASSUME rcv_buffer' # <<>> PROVE AcceptedNext(rcv_buffer[1])'
          OBVIOUS
        <5>1. Socket' = k
          BY <1>3, <1>4 DEF Socket
        <5>2. cid_tcp_socket'[c] = k /\ cid_next_exp_seq_num'[c] = msg.seq + 1
          BY <1>1, <1>3, <3>2 DEF InSequence, TypeOK
        <5> QED
          BY <2>4, <3>2, <5>1, <5>2 DEF AcceptedNext, InSequence
      <4>2. t[i].request.time <= t[i].recv_time
        BY <1>12, <1>16, <2>5, <2>9
      <4>3. ASSUME NEW j \in 1 .. Len(t), i < j, t[j].request.conn = t[i].request.conn
            PROVE  t[i].request.time < t[j].request.time
        <5>1. i \in 1 .. Len(s) /\ t[i] = s[i]
          BY <1>13, <3>2, <4>3
        <5>2. CASE j \in 1 .. Len(s)
          BY <2>9, <3>2, <4>3, <5>1, <5>2
        <5>3. CASE j = Len(s) + 1
          BY <1>11, <1>12, <2>9, <3>2, <4>3, <5>1, <5>3
        <5> QED
          BY <1>16, <5>2, <5>3
      <4>4. ASSUME t[i].request.conn = k, rcv_buffer' # <<>>
            PROVE  t[i].request.time < rcv_buffer'[1].time
        <5>1. t[i].request.time <= msg.time /\ t[i].request.time \in Nat
          BY <1>11, <1>12, <1>16, <2>8, <2>9, <4>4
        <5>2. msg.time < rcv_buffer'[1].time /\ rcv_buffer'[1].time \in Nat
          BY <1>10, <2>2, <2>4, <4>4
        <5> QED
          BY <1>11, <5>1, <5>2
      <4>5. ASSUME t[i].request.conn = k, rcv_buffer' = <<>>
            PROVE  t[Len(s) + 1].request.conn = k /\ t[Len(s) + 1].request.time = t[i].recv_time
        <5>1. t[i].recv_time = rx_time
          BY <1>12, <1>16, <2>10, <4>5
        <5> QED
          BY <1>11, <1>12, <2>5, <3>2, <4>5, <5>1
      <4>6. ASSUME t[i].request.conn # k
            PROVE  \E j \in 1 .. Len(t) : /\ t[j].request.conn = t[i].request.conn
                                          /\ t[j].request.time = t[i].recv_time
        <5>1. i \in 1 .. Len(s) /\ t[i] = s[i]
          BY <1>11, <1>12, <1>16, <4>6
        <5>2. PICK j \in 1 .. Len(s) : /\ s[j].request.conn = s[i].request.conn
                                       /\ s[j].request.time = s[i].recv_time
          BY <2>9, <4>6, <5>1
        <5>3. j \in 1 .. Len(t) /\ t[j] = s[j]
          BY <1>13, <3>2
        <5> QED
          BY <5>1, <5>2, <5>3
      <4>7. Len(s) + 1 \in 1 .. Len(t)
        BY <1>13, <3>2
      <4> HIDE DEF Parsing, AcceptedNext
      <4> QED
        BY <2>7, <4>1, <4>2, <4>3, <4>4, <4>5, <4>6, <4>7
    <3> QED
      BY <1>15, <3>1, <3>2
  <2> HIDE DEF Parsing, AcceptedNext
  <2> QED
    BY <1>14, <2>11, <2>12 DEF BatchInv
<1> QED
  BY <1>17, <1>18, <1>20, <1>22, <1>23

(* Of two requests of a round, the one that came first is handed over      *)
(* second only if a later one of its connection was read with it.          *)
LEMMA SortedByArrival ==
  ASSUME TypeOK, PendingInv, StampInv, BatchInv, server_pc = "recv",
         NEW s \in Seq(Entries), s = pending_client_requests,
         NEW order \in Bijection(1 .. Len(s), 1 .. Len(s)),
         \A i, j \in 1 .. Len(s) : i < j => Precedes(s[order[i]], s[order[j]]),
         NEW a \in 1 .. Len(s), NEW b \in 1 .. Len(s), a < b,
         s[order[b]].request.time < s[order[a]].request.time
  PROVE  \E m \in 1 .. Len(s) : /\ s[order[m]].request.conn = s[order[b]].request.conn
                                /\ s[order[m]].request.time > s[order[a]].request.time
<1>1. /\ order \in [1 .. Len(s) -> 1 .. Len(s)]
      /\ \A i \in 1 .. Len(s) : \E m \in 1 .. Len(s) : order[m] = i
      /\ s[order[a]].request.conn = s[order[b]].request.conn => (a < b <=> order[a] < order[b])
  <2>1. /\ order \in [1 .. Len(s) -> 1 .. Len(s)]
        /\ \A i \in 1 .. Len(s) : \E m \in 1 .. Len(s) : order[m] = i
        /\ \A m, n \in 1 .. Len(s) : s[order[m]].request.conn = s[order[n]].request.conn =>
              (m < n <=> order[m] < order[n])
    BY SortKeepsOrder, ZenonT(60)
  <2> QED
    BY <2>1, Zenon
<1>2. PICK i \in 1 .. Len(s), j \in 1 .. Len(s) : i = order[a] /\ j = order[b]
  BY <1>1
<1>3. \A n \in 1 .. Len(s) : s[n].recv_time \in Nat /\ s[n].request.time \in Nat
  BY TimesAreNumbers
<1>4. s[i].recv_time <= s[j].recv_time
  <2>1. Precedes(s[i], s[j])
    BY <1>2
  <2> QED
    BY <1>3, <2>1 DEF Precedes
<1>5. /\ s[i].request.time <= s[i].recv_time
      /\ i < j /\ s[j].request.conn = s[i].request.conn => s[i].request.time < s[j].request.time
  BY DEF BatchInv
<1>6. s[i].request.conn # s[j].request.conn
  <2> SUFFICES ASSUME s[i].request.conn = s[j].request.conn PROVE FALSE
    OBVIOUS
  <2>1. i < j
    BY <1>1, <1>2
  <2>2. s[i].request.time < s[j].request.time
    BY <1>5, <2>1
  <2> QED
    BY <1>2, <1>3, <2>2
<1>7. PICK n \in 1 .. Len(s) : /\ s[n].request.conn = s[j].request.conn
                               /\ s[n].request.time = s[j].recv_time
  <2>1. ~Parsing(s[j].request.conn)
    BY DEF Parsing
  <2> HIDE DEF Parsing
  <2> QED
    BY <2>1 DEF BatchInv
<1>8. s[n].request.time # s[i].request.time
  <2>1. s[n].request \in Moving /\ s[i].request \in Moving
    BY MovingPlaces
  <2> QED
    BY <1>6, <1>7, <2>1 DEF StampInv
<1>9. s[n].request.time > s[i].request.time
  BY <1>3, <1>4, <1>5, <1>7, <1>8
<1>10. PICK m \in 1 .. Len(s) : order[m] = n
  BY <1>1
<1> QED
  BY <1>2, <1>7, <1>9, <1>10

(* The round ends: what it hands over was read before all that came after  *)
(* it began.                                                               *)
LEMMA RecvFinishedKeeps ==
  ASSUME IInv, AInv, recvFinishedCallback, UNCHANGED gateway
  PROVE  AInv'
<1>1. TypeOK /\ TypeOK' /\ RequestsInOrder
  BY RecvFinishedStep DEF IInv
<1>2. /\ server_pc = "recv" /\ cursor > Len(rcv_sockets) /\ server_pc' = "respond"
      /\ UNCHANGED <<up, clock, rcv_buffer, rx_time, round_start, cursor, rcv_sockets>>
      /\ UNCHANGED <<cid_tcp_socket, cid_next_exp_seq_num>>
      /\ UNCHANGED <<peer, backlog, tcp_socket, next_outgoing_seq_num>>
  BY DEF recvFinishedCallback, sessions, reading, network, gateway
<1>3. StampInv /\ RoundInv /\ ReadInv /\ WireInv /\ (KernelTime => BatchInv)
  BY <1>2 DEF AInv
<1>4. PendingInv
  BY <1>2 DEF IInv
<1>5. Live' = Live /\ rcv_buffer = <<>>
  BY <1>2, <1>3 DEF Live, Unused, ReadInv
<1>6. \A k : ~Unread(k)
  <2>1. Len(rcv_sockets) \in Nat /\ cursor \in Nat
    BY <1>1 DEF TypeOK
  <2> QED
    BY <1>2, <2>1 DEF Unread
<1>7. CASE ~recv
  <2>1. UNCHANGED <<published, rounds, pending_client_requests>>
    BY <1>7 DEF recvFinishedCallback
  <2> QED
    BY <1>2, <1>5, <1>6, <2>1, QuietStep
<1>8. CASE recv
  <2>1. PICK s \in Seq(Entries) : s = pending_client_requests
    BY <1>1 DEF TypeOK
  <2>2. PICK order \in Bijection(1 .. Len(s), 1 .. Len(s)) :
           /\ \A i, j \in 1 .. Len(s) : i < j => Precedes(s[order[i]], s[order[j]])
           /\ published' = published \o [i \in 1 .. Len(s) |-> s[order[i]].request]
           /\ rounds' = rounds \o [i \in 1 .. Len(s) |-> round_start]
           /\ pending_client_requests' = <<>>
    BY <1>8, <2>1 DEF recvFinishedCallback, sequenceAndPublish
  <2>3. order \in [1 .. Len(s) -> 1 .. Len(s)]
    BY <1>1, <1>4, <2>1, <2>2, SortKeepsOrder
  <2>4. PICK L \in Nat, M \in Nat : L = Len(published) /\ M = Len(s)
    BY <1>1, LenProperties DEF TypeOK
  <2>5. /\ published \in Seq(Messages) /\ rounds \in Seq(Nat) /\ Len(rounds) = L
        /\ round_start \in Nat /\ round_start <= clock /\ clock \in Nat
    BY <1>1, <1>3, <2>4 DEF RoundInv, TypeOK
  <2>6. /\ Len(published') = L + M
        /\ \A i \in 1 .. L : published'[i] = published[i]
        /\ \A a \in 1 .. M : published'[L + a] = s[order[a]].request
    <3> DEFINE q == [i \in 1 .. Len(s) |-> s[order[i]].request]
    <3>1. \A i \in 1 .. M : s[order[i]].request \in Messages
      <4>1. \A i \in 1 .. M : order[i] \in 1 .. M
        BY <2>3, <2>4, Zenon
      <4>2. \A i \in 1 .. M : s[i].request \in Messages
        BY <1>1, <2>1, <2>4, TimesAreNumbers
      <4> QED
        BY <4>1, <4>2
    <3>2. q \in Seq(Messages) /\ Len(q) = M /\ \A i \in 1 .. M : q[i] = s[order[i]].request
      BY <2>4, <3>1
    <3> HIDE DEF q
    <3>3. published' = published \o q
      BY <2>2 DEF q
    <3>4. /\ Len(published \o q) = Len(published) + Len(q)
          /\ \A i \in 1 .. Len(published) : (published \o q)[i] = published[i]
          /\ \A a \in 1 .. Len(q) : (published \o q)[Len(published) + a] = q[a]
      <4>1. published \in Seq(Messages) /\ q \in Seq(Messages)
        BY <2>5, <3>2
      <4> QED
        BY <4>1, JoinFacts
    <3> QED
      BY <2>4, <3>2, <3>3, <3>4
  <2>7. /\ Len(rounds') = L + M /\ rounds' \in Seq(Nat)
        /\ \A i \in 1 .. L : rounds'[i] = rounds[i]
        /\ \A a \in 1 .. M : rounds'[L + a] = round_start
    <3> DEFINE q == [i \in 1 .. Len(s) |-> round_start]
    <3>1. q \in Seq(Nat) /\ Len(q) = M /\ \A i \in 1 .. M : q[i] = round_start
      BY <2>4, <2>5
    <3> HIDE DEF q
    <3>2. rounds' = rounds \o q
      BY <2>2 DEF q
    <3>3. /\ rounds \o q \in Seq(Nat) /\ Len(rounds \o q) = Len(rounds) + Len(q)
          /\ \A i \in 1 .. Len(rounds) : (rounds \o q)[i] = rounds[i]
          /\ \A a \in 1 .. Len(q) : (rounds \o q)[Len(rounds) + a] = q[a]
      <4>1. rounds \in Seq(Nat) /\ q \in Seq(Nat)
        BY <2>5, <3>1
      <4> QED
        BY <4>1, JoinFacts
    <3> QED
      BY <2>4, <2>5, <3>1, <3>2, <3>3
  <2>8. \A i \in 1 .. L + M : i \in 1 .. L \/ \E a \in 1 .. M : i = L + a
    <3> TAKE i \in 1 .. L + M
    <3>1. i \in 1 .. L \/ (i - L \in 1 .. M /\ i = L + (i - L))
      BY <2>4
    <3> QED
      BY <3>1
  <2>9. \A a \in 1 .. M : s[order[a]].request.time \in Nat /\ s[order[a]].request.time >= 1
    <3>1. \A i \in 1 .. M : s[i].request \in Moving /\ s[i].request.time \in Nat
      BY <1>1, <2>1, <2>4, MovingPlaces, TimesAreNumbers
    <3>2. \A i \in 1 .. M : s[i].request.time \in Nat /\ s[i].request.time >= 1
      BY <1>3, <2>5, <3>1 DEF StampInv
    <3>3. \A a \in 1 .. M : order[a] \in 1 .. M
      BY <2>3, <2>4, Zenon
    <3> QED
      BY <3>2, <3>3
  \* A request of this round came after the rounds before it began.
  <2>10. \A r \in 1 .. L : \A a \in 1 .. M : s[order[a]].request.time > rounds[r]
    <3>1. \A r \in 1 .. L : \A i \in 1 .. M : s[i].request.time > rounds[r]
      BY <1>3, <2>1, <2>4, <2>5 DEF ReadInv
    <3>2. \A a \in 1 .. M : order[a] \in 1 .. M
      BY <2>3, <2>4, Zenon
    <3> QED
      BY <3>1, <3>2
  <2>11. ArrivalOrder'
    <3> SUFFICES ASSUME NEW i \in 1 .. L + M, NEW j \in 1 .. L + M,
                        i < j, published'[j].time < published'[i].time
                 PROVE  \/ published'[j].time > rounds'[i]
                        \/ /\ rounds'[j] = rounds'[i]
                           /\ KernelTime =>
                                \E m \in 1 .. L + M : /\ published'[m].conn = published'[j].conn
                                                      /\ published'[m].time > published'[i].time
      BY <2>6 DEF ArrivalOrder
    <3>1. CASE j \in 1 .. L
      <4>1. i \in 1 .. L
        BY <2>4, <3>1
      <4>2. /\ published'[i] = published[i] /\ published'[j] = published[j]
            /\ rounds'[i] = rounds[i] /\ rounds'[j] = rounds[j]
        BY <2>6, <2>7, <3>1, <4>1
      <4>3. \/ published[j].time > rounds[i]
            \/ /\ rounds[j] = rounds[i]
               /\ KernelTime => \E m \in 1 .. L : /\ published[m].conn = published[j].conn
                                                  /\ published[m].time > published[i].time
        BY <2>4, <3>1, <4>1, <4>2 DEF AInv, ArrivalOrder
      <4>4. ASSUME NEW m \in 1 .. L PROVE m \in 1 .. L + M /\ published'[m] = published[m]
        BY <2>4, <2>6
      <4> QED
        BY <4>2, <4>3, <4>4
    <3>2. CASE i \in 1 .. L /\ j \notin 1 .. L
      <4>1. PICK b \in 1 .. M : j = L + b
        BY <2>8, <3>2
      <4> QED
        BY <2>6, <2>7, <2>10, <3>2, <4>1
    <3>3. CASE i \notin 1 .. L /\ j \notin 1 .. L
      <4>1. PICK a \in 1 .. M, b \in 1 .. M : i = L + a /\ j = L + b
        BY <2>8, <3>3
      <4>2. /\ published'[i] = s[order[a]].request /\ published'[j] = s[order[b]].request
            /\ rounds'[i] = round_start /\ rounds'[j] = round_start
        BY <2>6, <2>7, <4>1
      <4>3. CASE ~KernelTime
        BY <4>2, <4>3
      <4>4. CASE KernelTime
        <5>1. BatchInv /\ a < b
          BY <1>3, <2>4, <4>1, <4>4
        <5>2. s[order[b]].request.time < s[order[a]].request.time
          BY <4>2
        <5>3. a \in 1 .. Len(s) /\ b \in 1 .. Len(s)
          BY <2>4
        <5>4. \E m \in 1 .. Len(s) : /\ s[order[m]].request.conn = s[order[b]].request.conn
                                      /\ s[order[m]].request.time > s[order[a]].request.time
          <6>1. TypeOK /\ PendingInv /\ StampInv /\ BatchInv /\ server_pc = "recv" /\ a < b
            BY <1>1, <1>2, <1>3, <1>4, <5>1
          <6>2. \A m, n \in 1 .. Len(s) : m < n => Precedes(s[order[m]], s[order[n]])
            BY <2>2
          <6> QED
            BY <2>1, <5>2, <5>3, <6>1, <6>2, SortedByArrival
        <5>5. PICK m \in 1 .. M : /\ s[order[m]].request.conn = s[order[b]].request.conn
                                  /\ s[order[m]].request.time > s[order[a]].request.time
          BY <2>4, <5>4
        <5>6. L + m \in 1 .. L + M
          BY <2>4
        <5>7. published'[L + m] = s[order[m]].request
          BY <2>6, Zenon
        <5> QED
          BY <4>2, <5>5, <5>6, <5>7
      <4> QED
        BY <4>3, <4>4
    <3>4. i \in 1 .. L \/ j \notin 1 .. L
      BY <2>4
    <3> QED
      BY <3>1, <3>2, <3>3, <3>4
  <2>12. StampInv'
    <3>1. ASSUME NEW x \in Moving' PROVE x \in Moving
      <4>1. \/ \E k \in Connections : \E i \in 1 .. Len(up'[k]) : x = up'[k][i]
            \/ \E i \in 1 .. Len(rcv_buffer') : x = rcv_buffer'[i]
            \/ \E i \in 1 .. Len(pending_client_requests') : x = pending_client_requests'[i].request
        BY <1>1, <3>1, MovingPlaces
      <4>2. \/ \E k \in Connections : \E i \in 1 .. Len(up[k]) : x = up[k][i]
            \/ \E i \in 1 .. Len(rcv_buffer) : x = rcv_buffer[i]
        BY <1>2, <2>2, <4>1
      <4> QED
        BY <1>1, <4>2, MovingPlaces
    <3> QED
      BY <1>2, <1>3, <3>1 DEF StampInv
  <2>13. RoundInv'
    <3>1. ASSUME NEW r \in 1 .. L + M
          PROVE  rounds'[r] <= clock
      BY <1>3, <2>5, <2>7, <2>8 DEF RoundInv
    <3> QED
      BY <1>2, <1>3, <2>6, <2>7, <3>1 DEF RoundInv
  <2>14. ReadInv'
    <3>1. ASSUME NEW r \in 1 .. L + M, NEW k \in Live PROVE After(up[k], rounds'[r])
      <4>1. CASE r \in 1 .. L
        BY <1>3, <2>5, <2>7, <4>1 DEF ReadInv
      <4>2. CASE r \notin 1 .. L
        <5>1. rounds'[r] = round_start
          BY <2>7, <2>8, <4>2
        <5> QED
          BY <1>3, <1>6, <5>1 DEF ReadInv
      <4> QED
        BY <4>1, <4>2
    <3>2. \A k \in Live : After(up[k], round_start)
      BY <1>3, <1>6 DEF ReadInv
    <3> QED
      BY <1>2, <1>5, <2>2, <2>7, <3>1, <3>2 DEF ReadInv, After
  <2>15. WireInv'
    BY <1>2, <1>3 DEF WireInv, Ascending
  <2>16. BatchInv'
    BY <1>2, <2>2 DEF BatchInv
  <2> QED
    BY <2>11, <2>12, <2>13, <2>14, <2>15, <2>16 DEF AInv
<1> QED
  BY <1>7, <1>8

----------------------------------------------------------------------------
(* The theorem.                                                            *)

(* Every step keeps it.                                                    *)
LEMMA NextAInv == IInv /\ AInv /\ [Next]_vars => AInv'
<1> SUFFICES ASSUME IInv, AInv, [Next]_vars PROVE AInv'
  OBVIOUS
<1>1. CASE GatewayNext
  <2>1. PICK c \in Clients : \/ Connect(c)
                             \/ \E how \in {"fin", "rst"} : Close(c, how)
                             \/ sendRequest(c)
                             \/ processResponse(c)
    BY <1>1 DEF GatewayNext
  <2>2. UNCHANGED server
    BY <1>1 DEF GatewayNext
  <2>3. CASE processResponse(c)
    <3>1. /\ UNCHANGED <<up, clock, rcv_buffer, pending_client_requests, published, rounds, round_start>>
          /\ UNCHANGED <<rx_time, cid_tcp_socket, cid_next_exp_seq_num, cursor, rcv_sockets>>
          /\ UNCHANGED <<peer, backlog, tcp_socket, next_outgoing_seq_num, server_pc>>
      BY <2>2, <2>3 DEF processResponse, server
    <3> QED
      BY <3>1, IdleKeeps
  <2> QED
    BY <2>1, <2>2, <2>3, ConnectKeeps, CloseKeeps, SendRequestKeeps
<1>2. CASE ServerNext
  <2>1. UNCHANGED gateway
    BY <1>2 DEF ServerNext
  <2>2. CASE RecvNothing
    BY <2>1, <2>2, FlushKeeps DEF RecvNothing
  <2>3. CASE ParseDone
    <3>1. PICK eof : eof = FALSE
      OBVIOUS
    <3>2. Flush(FALSE)
      BY <2>3 DEF ParseDone
    <3>3. Flush(eof)
      BY <3>1, <3>2, Zenon
    <3>4. /\ UNCHANGED <<up, sessions, pending_client_requests, rcv_buffer, recv>>
          /\ server_pc = "parse" /\ rcv_buffer = <<>>
      BY <2>3 DEF ParseDone
    <3> QED
      BY <2>1, <3>3, <3>4, FlushKeeps
  <2>4. CASE SendResponse \/ ResponsesDone
    <3>1. /\ UNCHANGED <<up, clock, rcv_buffer, pending_client_requests, published, rounds, round_start>>
          /\ UNCHANGED <<rx_time, cid_tcp_socket, cid_next_exp_seq_num, cursor, rcv_sockets>>
          /\ UNCHANGED <<peer, backlog, tcp_socket, next_outgoing_seq_num>>
          /\ server_pc' = server_pc \/ (server_pc = "respond" /\ server_pc' = "reap")
      BY <2>1, <2>4 DEF SendResponse, ResponsesDone, engine, sessions, reading, network, gateway
    <3> QED
      BY <3>1, IdleKeeps
  <2> QED
    BY <1>2, <2>1, <2>2, <2>3, <2>4, ReapKeeps, AcceptKeeps, RecvDataKeeps, ParseRequestKeeps,
       RecvFinishedKeeps DEF ServerNext
<1>3. CASE EngineNext \/ UNCHANGED vars
  <2>1. /\ UNCHANGED <<up, clock, rcv_buffer, pending_client_requests, published, rounds, round_start>>
        /\ UNCHANGED <<rx_time, cid_tcp_socket, cid_next_exp_seq_num, cursor, rcv_sockets>>
        /\ UNCHANGED <<peer, backlog, tcp_socket, next_outgoing_seq_num, server_pc>>
    BY <1>3 DEF EngineNext, sendClientResponse, vars, server, gateway, network, sessions, reading
  <2> QED
    BY <2>1, IdleKeeps
<1> QED
  BY <1>1, <1>2, <1>3 DEF Next

(* "Ensures fairness across TCP connections": the order in which the       *)
(* sequencer hands requests to the engine differs from their order of      *)
(* arrival only for requests that came when the round had begun or, in one *)
(* round, by the time stamp of a whole read; without the kernel's stamps   *)
(* by anything in one round.                                               *)
THEOREM ServedByArrival == Spec => []ArrivalOrder
<1>1. AInv => ArrivalOrder
  BY DEF AInv
<1> QED
  BY <1>1, IInvAlways, InitAInv, NextAInv, PTL DEF Spec

=============================================================================
