--------------------------- MODULE ResponderProofs ---------------------------
(***************************************************************************)
(* Proofs about the responder (Responder.tla), for any hosts and ports,    *)
(* any limits and any scenarios.                                           *)
(*                                                                         *)
(* Nothing bounds the peers that connect: that only finitely many are      *)
(* tracked at any time is part of the invariant.                           *)
(***************************************************************************)
EXTENDS Responder, QueueLemmas, FiniteSetTheorems

-----------------------------------------------------------------------------
(* The inductive invariant.                                                *)

(* The parts of a ResponderState that TypeOK is about.                     *)
StateOK(s) ==
  /\ {"connection", "violation", "error_count", "proto", "unsent"} \subseteq DOMAIN s
  /\ s.connection \in {"New", "Connected", "Initialized", "Errored"}
  /\ s.unsent \in {NoMsg, RequestTxIds}

(* A queue of outputs and a list of connections, whatever else they carry, *)
(* name peers.                                                             *)
QueueOK(q) == \E S : q \in Seq(S) /\ \A o \in S : o.pid \in Peers
ConnsOK(ks) == \E T : ks \in Seq(T) /\ \A k \in T : {"pid", "shut"} \subseteq DOMAIN k /\ k.pid \in Peers

Shapes ==
  /\ DOMAIN peers = Peers /\ \A p \in Peers : StateOK(peers[p])
  /\ QueueOK(outbound) /\ ConnsOK(conns)
  /\ writers \in [Peers -> 0..Len(conns)]
  /\ \A r \in pending : r.do \in RequestNames /\ r.pid \in Peers

(* The gauge counts the accepted peers, who are among finitely many.       *)
Tracking ==
  /\ known \subseteq Peers /\ IsFiniteSet(known) /\ banned_peers \subseteq Peers
  /\ accepted_peers \subseteq known /\ active_peers = Cardinality(accepted_peers)
  /\ connections_per_ip \in [Hosts -> Nat]

(* While nobody returns, whoever is tracked or banned has connected, and   *)
(* so will not connect again.                                              *)
Met(ks) == {ks[c].pid : c \in DOMAIN ks}
Slots ==
  NobodyReturns => known \subseteq Met(conns) /\ banned_peers \subseteq Met(conns)

ResponderInv ==
  scene \in Scenarios /\ Shapes /\ Tracking /\ Slots /\ SlotsExact

-----------------------------------------------------------------------------
(* Queues of outputs.                                                      *)

LEMMA QueueEmpty == QueueOK(<<>>)
<1> DEFINE S == {}
<1>1. <<>> \in Seq(S) /\ \A o \in S : o.pid \in Peers
  OBVIOUS
<1> HIDE DEF S
<1> QED BY <1>1 DEF QueueOK

LEMMA QueueAppend ==
  ASSUME NEW q, QueueOK(q), NEW o, o.pid \in Peers
  PROVE  QueueOK(Append(q, o))
<1>1. PICK S : q \in Seq(S) /\ \A x \in S : x.pid \in Peers
  BY DEF QueueOK
<1>2. Append(q, o) \in Seq(S \cup {o}) /\ \A x \in S \cup {o} : x.pid \in Peers
  BY <1>1
<1> QED BY <1>2 DEF QueueOK

LEMMA QueueTail ==
  ASSUME NEW q, QueueOK(q), q # <<>>
  PROVE  QueueOK(Tail(q)) /\ Head(q).pid \in Peers
<1>1. PICK S : q \in Seq(S) /\ \A x \in S : x.pid \in Peers
  BY DEF QueueOK
<1>2. Tail(q) \in Seq(S) /\ Head(q) \in S
  BY <1>1
<1> QED BY <1>1, <1>2 DEF QueueOK

LEMMA QueueConcat ==
  ASSUME NEW q, QueueOK(q), NEW r, QueueOK(r)
  PROVE  QueueOK(q \o r)
<1>1. PICK S : q \in Seq(S) /\ \A x \in S : x.pid \in Peers
  BY DEF QueueOK
<1>2. PICK T : r \in Seq(T) /\ \A x \in T : x.pid \in Peers
  BY DEF QueueOK
<1> DEFINE U == S \cup T
<1>3. q \in Seq(U) /\ r \in Seq(U) /\ \A x \in U : x.pid \in Peers
  BY <1>1, <1>2
<1> HIDE DEF U
<1>4. q \o r \in Seq(U)
  BY <1>3
<1> QED BY <1>3, <1>4 DEF QueueOK

(* A queue with one or two outputs.                                        *)
LEMMA QueueFew ==
  ASSUME NEW a, a.pid \in Peers, NEW b, b.pid \in Peers
  PROVE  QueueOK(<<a>>) /\ QueueOK(<<a, b>>)
<1> DEFINE S == {a, b}
<1>1. <<a>> \in Seq(S) /\ <<a, b>> \in Seq(S)
  OBVIOUS
<1>2. \A x \in S : x.pid \in Peers
  OBVIOUS
<1> HIDE DEF S
<1> QED BY <1>1, <1>2 DEF QueueOK

LEMMA OutputPids ==
  ASSUME NEW p, NEW m, NEW name
  PROVE  Send(p, m).pid = p /\ Disconnect(p).pid = p /\ Event(p, name).pid = p
BY DEF Send, Disconnect, Event

-----------------------------------------------------------------------------
(* Connections.                                                            *)

LEMMA ConnFacts ==
  ASSUME ConnsOK(conns)
  PROVE  /\ Len(conns) \in Nat /\ DOMAIN conns = 1..Len(conns)
         /\ \A c \in DOMAIN conns : {"pid", "shut"} \subseteq DOMAIN conns[c] /\ conns[c].pid \in Peers
BY DEF ConnsOK

(* No step takes a connection from the list or gives it to another peer.   *)
PidsKept ==
  /\ DOMAIN conns \subseteq DOMAIN conns'
  /\ \A c \in DOMAIN conns : conns'[c].pid = conns[c].pid

(* A step of one connection leaves the list and every pid in it.           *)
LEMMA OneConnStep ==
  ASSUME ConnsOK(conns), NEW c \in DOMAIN conns, NEW k,
         {"pid", "shut"} \subseteq DOMAIN k, k.pid = conns[c].pid, conns' = [conns EXCEPT ![c] = k]
  PROVE  /\ ConnsOK(conns') /\ Len(conns') = Len(conns) /\ Met(conns') = Met(conns)
         /\ PidsKept
<1>1. PICK T : conns \in Seq(T) /\ \A x \in T : {"pid", "shut"} \subseteq DOMAIN x /\ x.pid \in Peers
  BY DEF ConnsOK
<1> DEFINE U == T \cup {k}
<1>2. conns[c].pid \in Peers
  BY <1>1
<1>3. conns \in Seq(U) /\ k \in U /\ \A x \in U : {"pid", "shut"} \subseteq DOMAIN x /\ x.pid \in Peers
  BY <1>1, <1>2
<1> HIDE DEF U
<1>4. conns' \in Seq(U) /\ Len(conns') = Len(conns) /\ DOMAIN conns' = DOMAIN conns
  BY <1>3
<1>5. \A d \in DOMAIN conns : conns'[d].pid = conns[d].pid
  OBVIOUS
<1>6. Met(conns') = Met(conns)
  BY <1>4, <1>5 DEF Met
<1> QED BY <1>3, <1>4, <1>5, <1>6 DEF ConnsOK, PidsKept

(* A new connection.                                                       *)
LEMMA NewConnStep ==
  ASSUME ConnsOK(conns), NEW p \in Peers, conns' = Append(conns, NewConn(p))
  PROVE  /\ ConnsOK(conns') /\ Len(conns') = Len(conns) + 1
         /\ Met(conns') = Met(conns) \cup {p} /\ PidsKept
<1>1. PICK T : conns \in Seq(T) /\ \A x \in T : {"pid", "shut"} \subseteq DOMAIN x /\ x.pid \in Peers
  BY DEF ConnsOK
<1> DEFINE k == NewConn(p)
<1>2. k.pid = p /\ {"pid", "shut"} \subseteq DOMAIN k
  BY DEF NewConn
<1> HIDE DEF k
<1> DEFINE U == T \cup {k}
<1>3. conns \in Seq(U) /\ k \in U /\ \A x \in U : {"pid", "shut"} \subseteq DOMAIN x /\ x.pid \in Peers
  BY <1>1, <1>2
<1> HIDE DEF U
<1>4. /\ conns' \in Seq(U) /\ Len(conns') = Len(conns) + 1
      /\ DOMAIN conns' = DOMAIN conns \cup {Len(conns) + 1}
      /\ conns'[Len(conns) + 1] = k
      /\ \A d \in DOMAIN conns : conns'[d] = conns[d]
  BY <1>3 DEF k
<1>5. Met(conns') = Met(conns) \cup {p}
  BY <1>2, <1>4 DEF Met
<1>6. PidsKept
  BY <1>4 DEF PidsKept
<1> QED BY <1>3, <1>4, <1>5, <1>6 DEF ConnsOK

(* What a step of the pool keeps, whichever future completes or command is *)
(* dispatched: who has connected is not forgotten.                         *)
PoolKept ==
  /\ ConnsOK(conns') /\ writers' \in [Peers -> 0..Len(conns')]
  /\ Met(conns) \subseteq Met(conns') /\ scene' = scene /\ PidsKept

LEMMA PoolIdle ==
  ASSUME Shapes, UNCHANGED <<scene, conns, writers>>
  PROVE  PoolKept
BY DEF Shapes, PoolKept, PidsKept

LEMMA PoolOneConn ==
  ASSUME Shapes, NEW c \in DOMAIN conns, NEW k,
         {"pid", "shut"} \subseteq DOMAIN k, k.pid = conns[c].pid, conns' = [conns EXCEPT ![c] = k],
         writers' = writers \/ writers' = [writers EXCEPT ![conns[c].pid] = 0],
         UNCHANGED scene
  PROVE  PoolKept
<1>1. ConnsOK(conns) /\ writers \in [Peers -> 0..Len(conns)]
  BY DEF Shapes
<1>2. ConnsOK(conns') /\ Len(conns') = Len(conns) /\ Met(conns') = Met(conns) /\ PidsKept
  BY <1>1, OneConnStep
<1>3. writers' \in [Peers -> 0..Len(conns)]
  BY <1>1, ConnFacts
<1> QED BY <1>2, <1>3 DEF PoolKept

(* A task is added to the queue of the writer of a peer.                   *)
LEMMA QueuedKeeps ==
  ASSUME Shapes, NEW p \in Peers, writers[p] # 0, NEW task,
         conns' = Queued(writers[p], task), UNCHANGED <<scene, writers>>
  PROVE  PoolKept
<1> DEFINE c == writers[p]
<1> DEFINE k == [conns[c] EXCEPT !.tasks = Append(@, task)]
<1>1. c \in DOMAIN conns /\ {"pid", "shut"} \subseteq DOMAIN conns[c]
  BY ConnFacts DEF Shapes
<1>2. {"pid", "shut"} \subseteq DOMAIN k /\ k.pid = conns[c].pid
  BY <1>1
<1>3. conns' = [conns EXCEPT ![c] = k]
  BY DEF Queued
<1> HIDE DEF c, k
<1> QED BY <1>1, <1>2, <1>3, PoolOneConn

LEMMA DispatchKeeps ==
  ASSUME Shapes, NEW p \in Peers, NEW m, dispatch_send(p, m) \/ dispatch_disconnect(p)
  PROVE  PoolKept
<1>1. CASE writers[p] # 0
  BY <1>1, QueuedKeeps DEF dispatch_send, dispatch_disconnect
<1>2. CASE writers[p] = 0
  BY <1>2, PoolIdle DEF dispatch_send, dispatch_disconnect
<1> QED BY <1>1, <1>2

(* A write, an error or a shutdown of one connection, and what it reads.   *)
LEMMA CompletionKeeps ==
  ASSUME Shapes, NEW c \in DOMAIN conns, NEW m,
         \/ PoolSent(c) \/ PoolSendFailed(c) \/ PoolDisconnected(c)
         \/ PoolRecv(c, m) \/ PoolRecvFailed(c)
  PROVE  PoolKept
<1>0. {"pid", "shut"} \subseteq DOMAIN conns[c]
  BY ConnFacts DEF Shapes
<1>1. CASE PoolSent(c)
  <2> DEFINE j == [conns[c] EXCEPT !.tasks = Tail(@)]
  <2>1. {"pid", "shut"} \subseteq DOMAIN j /\ j.pid = conns[c].pid
    BY <1>0
  <2> HIDE DEF j
  <2> DEFINE k == RemoteGets(j, Task(c))
  <2>2. {"pid", "shut"} \subseteq DOMAIN k /\ k.pid = j.pid
    BY <2>1 DEF RemoteGets
  <2>3. conns' = [conns EXCEPT ![c] = k] /\ UNCHANGED <<scene, writers>>
    BY <1>1 DEF PoolSent, j
  <2> HIDE DEF k
  <2> QED BY <2>1, <2>2, <2>3, PoolOneConn
<1>2. CASE PoolSendFailed(c)
  <2> DEFINE k == [conns[c] EXCEPT !.tasks = Tail(@), !.writing = FALSE]
  <2>1. {"pid", "shut"} \subseteq DOMAIN k /\ k.pid = conns[c].pid
    BY <1>0
  <2>2. conns' = [conns EXCEPT ![c] = k] /\ UNCHANGED <<scene, writers>>
    BY <1>2 DEF PoolSendFailed
  <2> HIDE DEF k
  <2> QED BY <2>1, <2>2, PoolOneConn
<1>3. CASE PoolDisconnected(c)
  <2> DEFINE k == [conns[c] EXCEPT !.tasks = Tail(@), !.shut = TRUE]
  <2>1. {"pid", "shut"} \subseteq DOMAIN k /\ k.pid = conns[c].pid
    BY <1>0
  <2>2. /\ conns' = [conns EXCEPT ![c] = k] /\ UNCHANGED scene
        /\ writers' = [writers EXCEPT ![conns[c].pid] = 0]
    BY <1>3 DEF PoolDisconnected
  <2> HIDE DEF k
  <2> QED BY <2>1, <2>2, PoolOneConn
<1>4. CASE PoolRecv(c, m)
  <2>1. CASE CanApply(conns[c].remote[m.ch], m)
    <3> DEFINE k == [conns[c] EXCEPT !.remote[m.ch] = Apply(@, m)]
    <3>1. {"pid", "shut"} \subseteq DOMAIN k /\ k.pid = conns[c].pid
      BY <1>0
    <3>2. conns' = [conns EXCEPT ![c] = k] /\ UNCHANGED <<scene, writers>>
      BY <1>4, <2>1 DEF PoolRecv
    <3> HIDE DEF k
    <3> QED BY <3>1, <3>2, PoolOneConn
  <2>2. CASE ~CanApply(conns[c].remote[m.ch], m)
    BY <1>4, <2>2, PoolIdle DEF PoolRecv
  <2> QED BY <2>1, <2>2
<1>5. CASE PoolRecvFailed(c)
  <2> DEFINE k == [conns[c] EXCEPT !.reading = FALSE,
                                   !.remote = [ch \in Channels |-> Default(ch)]]
  <2>1. {"pid", "shut"} \subseteq DOMAIN k /\ k.pid = conns[c].pid
    BY <1>0
  <2>2. conns' = [conns EXCEPT ![c] = k] /\ UNCHANGED <<scene, writers>>
    BY <1>5 DEF PoolRecvFailed
  <2> HIDE DEF k
  <2> QED BY <2>1, <2>2, PoolOneConn
<1> QED BY <1>1, <1>2, <1>3, <1>4, <1>5

LEMMA AcceptKeeps ==
  ASSUME Shapes, NEW p \in Peers, PoolConnected(p)
  PROVE  PoolKept /\ p \in Met(conns')
<1>1. ConnsOK(conns) /\ writers \in [Peers -> 0..Len(conns)]
  BY DEF Shapes
<1>2. /\ ConnsOK(conns') /\ Len(conns') = Len(conns) + 1
      /\ Met(conns') = Met(conns) \cup {p} /\ PidsKept
  BY <1>1, NewConnStep DEF PoolConnected
<1>3. writers' \in [Peers -> 0..(Len(conns) + 1)]
  BY <1>1, ConnFacts DEF PoolConnected
<1> QED BY <1>2, <1>3 DEF PoolKept, PoolConnected

LEMMA ReadyKeeps ==
  ASSUME Shapes, NEW p \in Peers, PoolReady(p)
  PROVE  PoolKept
<1>1. ConnsOK(conns) /\ writers \in [Peers -> 0..Len(conns)]
  BY DEF Shapes
<1>2. writers' \in [Peers -> 0..Len(conns)] /\ UNCHANGED <<scene, conns>>
  BY <1>1, ConnFacts DEF PoolReady
<1> QED BY <1>1, <1>2 DEF PoolKept, PidsKept

-----------------------------------------------------------------------------
(* What a step of the behaviour does to the peers' states and the queue.   *)

StatesKept == DOMAIN peers' = Peers /\ \A p \in Peers : StateOK(peers'[p])

LEMMA ApplyMsgKeeps ==
  ASSUME NEW s, StateOK(s), NEW m
  PROVE  StateOK(apply_msg(s, m)) /\ StateOK(clear_unsent(s, m))
<1>1. StateOK(apply_msg(s, m))
  BY DEF StateOK, apply_msg
<1>2. StateOK(clear_unsent(s, m))
  BY DEF StateOK, clear_unsent
<1> QED BY <1>1, <1>2

(* The reaction of the visitor that owns the message's channel.            *)
LEMMA VisitKeeps ==
  ASSUME NEW s, StateOK(s), NEW p \in Peers, NEW ch
  PROVE  /\ StateOK(visit_inbound_msg(s, p, ch).s)
         /\ QueueOK(visit_inbound_msg(s, p, ch).out)
<1> DEFINE Good(r) == StateOK(r.s) /\ QueueOK(r.out)
<1>1. ASSUME NEW q, QueueOK(q) PROVE Good(Reaction(s, q))
  BY <1>1 DEF Reaction
<1>2. QueueOK(<<>>)
  BY QueueEmpty
<1>3. ASSUME NEW m PROVE QueueOK(<<Send(p, m)>>)
  BY OutputPids, QueueFew
<1>4. ASSUME NEW name PROVE QueueOK(<<Event(p, name)>>)
  BY OutputPids, QueueFew
<1>5. Good(try_accept_handshake(s, p))
  <2> DEFINE proposal == s.proto["handshake"].arg
  <2> DEFINE m == Msg("handshake", "Accept", Highest(Common(proposal)))
  <2> DEFINE t == [s EXCEPT !.connection = "Initialized"]
  <2>1. StateOK(t)
    BY DEF StateOK
  <2>2. QueueOK(<<Send(p, m), Event(p, "PeerInitialized")>>)
    <3> HIDE DEF m
    <3> QED BY OutputPids, QueueFew
  <2>3. QueueOK(<<Send(p, Refusal(proposal))>>)
    BY <1>3
  <2>4. \/ try_accept_handshake(s, p) = Reaction(s, <<>>)
        \/ try_accept_handshake(s, p) = Reaction(t, <<Send(p, m), Event(p, "PeerInitialized")>>)
        \/ try_accept_handshake(s, p) = Reaction(s, <<Send(p, Refusal(proposal))>>)
    BY DEF try_accept_handshake
  <2> HIDE DEF t, m, proposal
  <2>5. Good(Reaction(t, <<Send(p, m), Event(p, "PeerInitialized")>>))
    BY <2>1, <2>2 DEF Reaction
  <2> HIDE DEF Good
  <2> QED BY <1>1, <1>2, <2>3, <2>4, <2>5
<1>6. QueueOK(check_requests(s, p, ch))
  BY <1>2, <1>4 DEF check_requests
<1>7. QueueOK(try_respond(s, p)) /\ QueueOK(try_extract_txs(s, p)) /\ QueueOK(close_notify(s, p))
  BY <1>2, <1>3, <1>4 DEF try_respond, try_extract_txs, close_notify
<1>8. QueueOK(check_requests(s, p, ch) \o close_notify(s, p))
  BY <1>6, <1>7, QueueConcat
<1> HIDE DEF Good
<1>9. Good(visit_inbound_msg(s, p, ch))
  BY <1>1, <1>5, <1>6, <1>7, <1>8 DEF visit_inbound_msg
<1> QED BY <1>9 DEF Good

LEMMA InboundKeeps ==
  ASSUME Shapes, Tracking, NEW p \in Peers, NEW m, on_inbound_msg(p, m)
  PROVE  StatesKept /\ QueueOK(outbound')
<1>1. DOMAIN peers = Peers /\ (\A q \in Peers : StateOK(peers[q])) /\ QueueOK(outbound)
  BY DEF Shapes
<1>2. CASE p \in known
  <2> DEFINE s == apply_msg(peers[p], m)
  <2> DEFINE r == IF s.violation THEN Reaction(s, <<>>) ELSE visit_inbound_msg(s, p, m.ch)
  <2>1. StateOK(s)
    BY <1>1, ApplyMsgKeeps
  <2>2. peers' = [peers EXCEPT ![p] = r.s] /\ outbound' = outbound \o r.out
    BY <1>2 DEF on_inbound_msg
  <2> HIDE DEF s
  <2>3. StateOK(r.s) /\ QueueOK(r.out)
    <3>1. CASE s.violation
      BY <2>1, <3>1, QueueEmpty DEF Reaction
    <3>2. CASE ~s.violation
      BY <2>1, <3>2, VisitKeeps
    <3> QED BY <3>1, <3>2
  <2> HIDE DEF r
  <2>4. QueueOK(outbound')
    BY <1>1, <2>2, <2>3, QueueConcat
  <2> QED BY <1>1, <2>2, <2>3, <2>4 DEF StatesKept
<1>3. CASE p \notin known
  BY <1>1, <1>3 DEF on_inbound_msg, StatesKept
<1> QED BY <1>2, <1>3

LEMMA OutboundKeeps ==
  ASSUME Shapes, NEW p \in Peers, NEW m, on_outbound_msg(p, m)
  PROVE  StatesKept /\ QueueOK(outbound')
<1>1. DOMAIN peers = Peers /\ (\A q \in Peers : StateOK(peers[q])) /\ QueueOK(outbound)
  BY DEF Shapes
<1>2. StateOK(apply_msg(clear_unsent(peers[p], m), m))
  BY <1>1, ApplyMsgKeeps
<1>3. peers' = [peers EXCEPT ![p] = apply_msg(clear_unsent(peers[p], m), m)] \/ peers' = peers
  BY DEF on_outbound_msg
<1>4. outbound' = outbound
  BY DEF on_outbound_msg
<1> QED BY <1>1, <1>2, <1>3, <1>4 DEF StatesKept

LEMMA LifecycleKeeps ==
  ASSUME Shapes, NEW p \in Peers,
         on_connected(p) \/ on_disconnected(p) \/ on_errored(p)
  PROVE  StatesKept /\ QueueOK(outbound')
<1>1. DOMAIN peers = Peers /\ (\A q \in Peers : StateOK(peers[q])) /\ QueueOK(outbound)
  BY DEF Shapes
<1>2. QueueOK(Append(outbound, Disconnect(p))) /\ \A name : QueueOK(Append(outbound, Event(p, name)))
  BY <1>1, OutputPids, QueueAppend
<1>3. StateOK(NewState) /\ StateOK([NewState EXCEPT !.connection = "Connected"])
  BY DEF StateOK, NewState
<1>4. StateOK([peers[p] EXCEPT !.connection = "Errored", !.error_count = @ + 1])
  BY <1>1 DEF StateOK
<1>5. CASE on_connected(p)
  <2>1. outbound' = outbound \/ outbound' = Append(outbound, Disconnect(p))
    BY <1>5 DEF on_connected, visit_connected, Admit, TurnAway
  <2>2. peers' = [peers EXCEPT ![p] = [NewState EXCEPT !.connection = "Connected"]]
    BY <1>5 DEF on_connected
  <2> QED BY <1>1, <1>2, <1>3, <2>1, <2>2 DEF StatesKept
<1>6. CASE on_disconnected(p)
  BY <1>1, <1>2, <1>3, <1>6 DEF on_disconnected, StatesKept
<1>7. CASE on_errored(p)
  BY <1>1, <1>2, <1>4, <1>7 DEF on_errored, StatesKept
<1> QED BY <1>5, <1>6, <1>7

-----------------------------------------------------------------------------
(* The counts.                                                             *)

LEMMA HostCounts ==
  ASSUME NEW S, IsFiniteSet(S), NEW p, NEW h
  PROVE  /\ IsFiniteSet(FromHost(S, h)) /\ Cardinality(FromHost(S, h)) \in Nat
         /\ Cardinality(FromHost(S \cup {p}, h)) =
              Cardinality(FromHost(S, h)) + (IF p.host = h /\ p \notin S THEN 1 ELSE 0)
         /\ Cardinality(FromHost(S \ {p}, h)) =
              Cardinality(FromHost(S, h)) - (IF p.host = h /\ p \in S THEN 1 ELSE 0)
         /\ p \in S => Cardinality(FromHost(S, p.host)) >= 1
<1>1. ASSUME NEW g PROVE IsFiniteSet(FromHost(S, g)) /\ Cardinality(FromHost(S, g)) \in Nat
  <2>1. FromHost(S, g) \in SUBSET S
    BY DEF FromHost
  <2> QED BY <2>1, FS_Subset, FS_CardinalityType
<1>2. CASE p.host = h
  <2>1. /\ FromHost(S \cup {p}, h) = FromHost(S, h) \cup {p}
        /\ FromHost(S \ {p}, h) = FromHost(S, h) \ {p}
        /\ p \in FromHost(S, h) <=> p \in S
    BY <1>2 DEF FromHost
  <2>2. /\ Cardinality(FromHost(S, h) \cup {p}) =
             IF p \in FromHost(S, h) THEN Cardinality(FromHost(S, h))
                                     ELSE Cardinality(FromHost(S, h)) + 1
        /\ Cardinality(FromHost(S, h) \ {p}) =
             IF p \in FromHost(S, h) THEN Cardinality(FromHost(S, h)) - 1
                                     ELSE Cardinality(FromHost(S, h))
    BY <1>1, FS_AddElement, FS_RemoveElement
  <2>3. p \in S => Cardinality(FromHost(S, h)) # 0
    BY <1>1, <2>1, FS_EmptySet
  <2> DEFINE n == Cardinality(FromHost(S, h))
  <2>4. n \in Nat
    BY <1>1
  <2>5. /\ Cardinality(FromHost(S \cup {p}, h)) = IF p \in S THEN n ELSE n + 1
        /\ Cardinality(FromHost(S \ {p}, h)) = IF p \in S THEN n - 1 ELSE n
        /\ p \in S => n # 0
    BY <2>1, <2>2, <2>3
  <2> HIDE DEF n
  <2>6. /\ Cardinality(FromHost(S \cup {p}, h)) = n + (IF p.host = h /\ p \notin S THEN 1 ELSE 0)
        /\ Cardinality(FromHost(S \ {p}, h)) = n - (IF p.host = h /\ p \in S THEN 1 ELSE 0)
        /\ p \in S => n >= 1
    BY <1>2, <2>4, <2>5
  <2> QED BY <1>1, <1>2, <2>6 DEF n
<1>3. CASE p.host # h
  <2>1. FromHost(S \cup {p}, h) = FromHost(S, h) /\ FromHost(S \ {p}, h) = FromHost(S, h)
    BY <1>3 DEF FromHost
  <2>2. p \in S => Cardinality(FromHost(S, p.host)) # 0
    <3>1. p \in S => p \in FromHost(S, p.host)
      BY DEF FromHost
    <3> QED BY <1>1, <3>1, FS_EmptySet
  <2> QED BY <1>1, <1>3, <2>1, <2>2
<1> QED BY <1>2, <1>3

(* What the steps that touch no count keep.                                *)
LEMMA CountsIdle ==
  ASSUME Tracking, Slots, SlotsExact, PoolKept,
         UNCHANGED <<known, connections_per_ip, accepted_peers, active_peers>>,
         banned_peers' \subseteq Peers,
         NobodyReturns => banned_peers' \subseteq banned_peers \cup known
  PROVE  Tracking' /\ Slots' /\ SlotsExact'
<1>1. NobodyReturns' <=> NobodyReturns
  BY DEF NobodyReturns, MaxConns, Commands, PoolKept
<1>2. Tracking'
  BY DEF Tracking
<1>3. Slots'
  BY <1>1 DEF Slots, PoolKept
<1>4. SlotsExact'
  BY <1>1 DEF SlotsExact, FromHost
<1> QED BY <1>2, <1>3, <1>4

(* A connection is accepted, counted and turned away, or turned away.      *)
LEMMA ConnectCounts ==
  ASSUME ResponderInv, NEW p \in Peers, PoolKept, p \in Met(conns'), visit_connected(p),
         known' = known \cup {p},
         Cardinality(ConnsOf(p)) < MaxConns
  PROVE  Tracking' /\ Slots' /\ SlotsExact'
<1>0. /\ Tracking /\ Slots /\ SlotsExact /\ Shapes /\ MaxPerIp \in Nat
      /\ p.host \in Hosts /\ IsFiniteSet(known) /\ banned_peers' = banned_peers
      /\ IsFiniteSet(accepted_peers)
  <2>1. banned_peers' = banned_peers
    BY DEF visit_connected, Admit, connectionVars
  <2>2. IsFiniteSet(accepted_peers)
    BY FS_Subset DEF ResponderInv, Tracking
  <2> QED BY <2>1, <2>2, ResponderAssumption DEF ResponderInv, Tracking, Peers
<1>1. NobodyReturns' <=> NobodyReturns
  BY DEF NobodyReturns, MaxConns, Commands, PoolKept
<1>2. NobodyReturns => p \notin Met(conns)
  <2> SUFFICES ASSUME NobodyReturns PROVE p \notin Met(conns)
    OBVIOUS
  <2>1. ConnsOf(p) \in SUBSET (1..Len(conns)) /\ Len(conns) \in Nat
    BY <1>0, ConnFacts DEF ConnsOf, Shapes
  <2>2. IsFiniteSet(ConnsOf(p))
    <3>1. IsFiniteSet(1..Len(conns))
      BY <2>1, FS_Interval
    <3> QED BY <2>1, <3>1, FS_Subset
  <2>3. Cardinality(ConnsOf(p)) \in Nat /\ Cardinality(ConnsOf(p)) < 1
    BY <2>2, FS_CardinalityType DEF NobodyReturns
  <2>4. ConnsOf(p) = {}
    BY <2>2, <2>3, FS_EmptySet
  <2> QED BY <2>4 DEF ConnsOf, Met
<1>3. Slots'
  BY <1>0, <1>1 DEF Slots, PoolKept
<1>4. known' \subseteq Peers /\ IsFiniteSet(known')
  BY <1>0, FS_AddElement DEF Tracking
<1>5. \/ accepted_peers' = accepted_peers /\ active_peers' = active_peers
      \/ /\ accepted_peers' = accepted_peers \cup {p}
         /\ active_peers' = active_peers + (IF p \in accepted_peers THEN 0 ELSE 1)
         /\ connections_per_ip'[p.host] <= MaxPerIp
  <2>1. connections_per_ip[p.host] \in Nat
    BY <1>0 DEF Tracking
  <2>2. connections_per_ip' = [connections_per_ip EXCEPT ![p.host] = @ + 1]
          => connections_per_ip'[p.host] \in Nat
    BY <1>0, <2>1 DEF Tracking
  <2> QED BY <1>0, <2>1, <2>2 DEF visit_connected, Admit, connectionVars
<1>6. connections_per_ip' \in [Hosts -> Nat]
  BY <1>0 DEF visit_connected, Admit, connectionVars, Tracking
<1>7. accepted_peers' \subseteq known' /\ active_peers' = Cardinality(accepted_peers')
  <2>1. CASE accepted_peers' = accepted_peers /\ active_peers' = active_peers
    BY <1>0, <2>1 DEF Tracking
  <2>2. CASE /\ accepted_peers' = accepted_peers \cup {p}
             /\ active_peers' = active_peers + (IF p \in accepted_peers THEN 0 ELSE 1)
    <3>1. Cardinality(accepted_peers) \in Nat
      BY <1>0, FS_CardinalityType
    <3>2. Cardinality(accepted_peers \cup {p}) =
            IF p \in accepted_peers THEN Cardinality(accepted_peers)
                                    ELSE Cardinality(accepted_peers) + 1
      BY <1>0, FS_AddElement
    <3> QED BY <1>0, <2>2, <3>1, <3>2 DEF Tracking
  <2> QED BY <1>5, <2>1, <2>2
<1>8. ASSUME NobodyReturns, NEW h \in Hosts
      PROVE  /\ connections_per_ip'[h] = Cardinality(FromHost(known', h))
             /\ Cardinality(FromHost(accepted_peers', h)) <= MaxPerIp
  <2>1. p \notin known /\ p \notin banned_peers
    BY <1>0, <1>2, <1>8 DEF Slots
  <2>2. connections_per_ip' = [connections_per_ip EXCEPT ![p.host] = @ + 1]
    BY <2>1 DEF visit_connected, Admit
  <2>3. /\ connections_per_ip[h] = Cardinality(FromHost(known, h))
        /\ Cardinality(FromHost(accepted_peers, h)) <= MaxPerIp
    BY <1>0, <1>8 DEF SlotsExact
  <2>4. Cardinality(FromHost(known', h)) =
          Cardinality(FromHost(known, h)) + (IF p.host = h THEN 1 ELSE 0)
    BY <1>0, <2>1, HostCounts
  <2>5. connections_per_ip'[h] = Cardinality(FromHost(known', h))
    <3>1. Cardinality(FromHost(known, h)) \in Nat
      BY <1>0, HostCounts
    <3> QED BY <1>0, <2>2, <2>3, <2>4, <3>1 DEF Tracking
  <2>6. Cardinality(FromHost(accepted_peers', h)) <= MaxPerIp
    <3>1. CASE FromHost(accepted_peers', h) = FromHost(accepted_peers, h)
      BY <2>3, <3>1
    <3>2. CASE FromHost(accepted_peers', h) # FromHost(accepted_peers, h)
      <4>1. accepted_peers' = accepted_peers \cup {p} /\ connections_per_ip'[p.host] <= MaxPerIp
        BY <1>5, <3>2
      <4>2. p.host = h
        BY <3>2, <4>1 DEF FromHost
      <4>3. FromHost(accepted_peers', h) \in SUBSET FromHost(known', h)
        BY <1>7 DEF FromHost
      <4>4. IsFiniteSet(FromHost(known', h)) /\ Cardinality(FromHost(known', h)) \in Nat
        BY <1>4, HostCounts
      <4>5. Cardinality(FromHost(accepted_peers', h)) <= Cardinality(FromHost(known', h))
        BY <4>3, <4>4, FS_Subset
      <4>6. Cardinality(FromHost(accepted_peers', h)) \in Nat
        BY <4>3, <4>4, FS_Subset, FS_CardinalityType
      <4>7. Cardinality(FromHost(known', h)) <= MaxPerIp
        BY <2>5, <4>1, <4>2
      <4> HIDE DEF FromHost
      <4> QED BY <1>0, <4>4, <4>5, <4>6, <4>7
    <3> QED BY <3>1, <3>2
  <2> QED BY <2>5, <2>6
<1>9. SlotsExact'
  BY <1>1, <1>8 DEF SlotsExact, FromHost
<1>10. Tracking'
  BY <1>0, <1>4, <1>6, <1>7 DEF Tracking
<1> QED BY <1>3, <1>9, <1>10

(* A peer is gone, and gives back what it was counted for.                 *)
LEMMA DisconnectCounts ==
  ASSUME ResponderInv, NEW p \in Peers, PoolKept, on_disconnected(p)
  PROVE  Tracking' /\ Slots' /\ SlotsExact'
<1>0. /\ Tracking /\ Slots /\ SlotsExact /\ MaxPerIp \in Nat
      /\ p.host \in Hosts /\ IsFiniteSet(known) /\ banned_peers' = banned_peers
      /\ IsFiniteSet(accepted_peers) /\ known' = known \ {p}
  <2>1. banned_peers' = banned_peers /\ known' = known \ {p}
    BY DEF on_disconnected, visit_disconnected, connectionVars
  <2>2. IsFiniteSet(accepted_peers)
    BY FS_Subset DEF ResponderInv, Tracking
  <2> QED BY <2>1, <2>2, ResponderAssumption DEF ResponderInv, Tracking, Peers
<1>1. NobodyReturns' <=> NobodyReturns
  BY DEF NobodyReturns, MaxConns, Commands, PoolKept
<1>2. CASE p \notin known
  <2>1. known' = known /\ UNCHANGED connectionVars
    BY <1>0, <1>2 DEF on_disconnected
  <2> QED BY <1>0, <2>1, CountsIdle DEF connectionVars, Tracking
<1>3. CASE p \in known
  <2>1. /\ connections_per_ip' = [connections_per_ip EXCEPT ![p.host] = MonusOne(@)]
        /\ active_peers' = IF p \in accepted_peers THEN MonusOne(active_peers) ELSE active_peers
        /\ accepted_peers' = accepted_peers \ {p}
    BY <1>3 DEF on_disconnected, visit_disconnected
  <2>2. \A n \in Nat : MonusOne(n) \in Nat /\ (n # 0 => MonusOne(n) = n - 1)
    BY DEF MonusOne
  <2>3. connections_per_ip' \in [Hosts -> Nat]
    BY <1>0, <2>1, <2>2 DEF Tracking
  <2>4. /\ known' \subseteq Peers /\ IsFiniteSet(known') /\ accepted_peers' \subseteq known'
    <3>1. IsFiniteSet(known \ {p})
      BY <1>0, FS_RemoveElement
    <3> QED BY <1>0, <2>1, <3>1 DEF Tracking
  <2>5. active_peers' = Cardinality(accepted_peers')
    <3>1. /\ Cardinality(accepted_peers) \in Nat
          /\ p \in accepted_peers => Cardinality(accepted_peers) # 0
      BY <1>0, FS_CardinalityType, FS_EmptySet
    <3>2. Cardinality(accepted_peers \ {p}) =
            IF p \in accepted_peers THEN Cardinality(accepted_peers) - 1
                                    ELSE Cardinality(accepted_peers)
      BY <1>0, FS_RemoveElement
    <3> QED BY <1>0, <2>1, <2>2, <3>1, <3>2 DEF Tracking
  <2>6. ASSUME NobodyReturns, NEW h \in Hosts
        PROVE  /\ connections_per_ip'[h] = Cardinality(FromHost(known', h))
               /\ Cardinality(FromHost(accepted_peers', h)) <= MaxPerIp
    <3>1. /\ connections_per_ip[h] = Cardinality(FromHost(known, h))
          /\ Cardinality(FromHost(accepted_peers, h)) <= MaxPerIp
      BY <1>0, <2>6 DEF SlotsExact
    <3>2. /\ Cardinality(FromHost(known', h)) =
               Cardinality(FromHost(known, h)) - (IF p.host = h THEN 1 ELSE 0)
          /\ Cardinality(FromHost(known, h)) \in Nat
          /\ p.host = h => Cardinality(FromHost(known, h)) >= 1
      BY <1>0, <1>3, HostCounts
    <3>3. connections_per_ip'[h] = Cardinality(FromHost(known', h))
      BY <1>0, <2>1, <2>2, <3>1, <3>2 DEF Tracking
    <3>4. /\ FromHost(accepted_peers', h) \in SUBSET FromHost(accepted_peers, h)
          /\ IsFiniteSet(FromHost(accepted_peers, h))
      BY <1>0, <2>1, HostCounts DEF FromHost
    <3>5. /\ Cardinality(FromHost(accepted_peers', h)) <= Cardinality(FromHost(accepted_peers, h))
          /\ Cardinality(FromHost(accepted_peers', h)) \in Nat
          /\ Cardinality(FromHost(accepted_peers, h)) \in Nat
      BY <3>4, FS_Subset, FS_CardinalityType
    <3> QED BY <1>0, <3>1, <3>3, <3>5
  <2>7. SlotsExact'
    BY <1>1, <2>6 DEF SlotsExact, FromHost
  <2>8. Tracking' /\ Slots'
    BY <1>0, <1>1, <2>3, <2>4, <2>5 DEF Tracking, Slots, PoolKept
  <2> QED BY <2>7, <2>8
<1> QED BY <1>2, <1>3

-----------------------------------------------------------------------------
(* The steps.                                                              *)

(* The answers to a request are queues of messages.                        *)
LEMMA AnswersAreQueues ==
  ASSUME NEW name \in RequestNames, NEW msgs \in Answers[name]
  PROVE  \E n \in Nat : DOMAIN msgs = 1..n
<1>1. name \in {"IntersectionRequested", "NextHeaderRequested", "BlockRangeRequested",
                "PeersRequested", "EbNotificationRequested", "EbRequested", "EbTxsRequested"}
  BY DEF RequestNames, Shown
<1>2. ASSUME NEW m PROVE DOMAIN <<m>> = 1..1
  OBVIOUS
<1>3. CASE name = "BlockRangeRequested"
  <2> DEFINE a == Msg("blockfetch", "StartBatch", None)
  <2> DEFINE b == Msg("blockfetch", "Block", None)
  <2> DEFINE d == Msg("blockfetch", "BatchDone", None)
  <2>1. msgs \in {<<a>> \o blocks \o <<d>> : blocks \in {<<>>, <<b>>}}
    BY <1>3 DEF Answers
  <2> HIDE DEF a, b, d
  <2> DEFINE M == {a, b, d}
  <2>2. <<a>> \in Seq(M) /\ <<b>> \in Seq(M) /\ <<d>> \in Seq(M) /\ <<>> \in Seq(M)
    OBVIOUS
  <2> HIDE DEF M
  <2>3. PICK blocks \in {<<>>, <<b>>} : msgs = <<a>> \o blocks \o <<d>>
    BY <2>1
  <2>4. blocks \in Seq(M)
    BY <2>2
  <2>5. msgs \in Seq(M)
    BY <2>2, <2>3, <2>4
  <2> QED BY <2>5
<1>4. CASE name # "BlockRangeRequested"
  <2>1. \E m : msgs = <<m>>
    BY <1>1, <1>4 DEF Answers, Only
  <2> QED BY <1>2, <2>1
<1> QED BY <1>3, <1>4

LEMMA ProvideKeeps ==
  ASSUME Shapes, NEW r \in pending, Provide(r)
  PROVE  QueueOK(outbound')
<1>1. r.do \in RequestNames /\ r.pid \in Peers /\ QueueOK(outbound)
  BY DEF Shapes
<1>2. PICK msgs \in Answers[r.do] :
        outbound' = outbound \o [i \in DOMAIN msgs |-> Send(r.pid, msgs[i])]
  BY DEF Provide
<1>3. PICK n \in Nat : DOMAIN msgs = 1..n
  BY <1>1, AnswersAreQueues
<1> DEFINE S == {Send(r.pid, msgs[i]) : i \in 1..n}
<1> DEFINE q == [i \in DOMAIN msgs |-> Send(r.pid, msgs[i])]
<1>4. \A o \in S : o.pid \in Peers
  BY <1>1, OutputPids
<1>5. q \in Seq(S)
  <2>1. q \in [1..n -> S]
    BY <1>3
  <2> HIDE DEF q, S
  <2> QED BY <2>1
<1> HIDE DEF q, S
<1>6. QueueOK(q)
  BY <1>4, <1>5 DEF QueueOK
<1> QED BY <1>1, <1>2, <1>6, QueueConcat DEF q

LEMMA HousekeepingKeeps ==
  ASSUME Shapes, Tracking, Housekeeping
  PROVE  StatesKept /\ QueueOK(outbound')
<1>1. DOMAIN peers = Peers /\ (\A q \in Peers : StateOK(peers[q])) /\ QueueOK(outbound)
  BY DEF Shapes
<1>2. StatesKept
  <2>1. peers' = [p \in Peers |->
                    IF p \in known /\ try_request_tx_ids(p, peers[p])
                      THEN [peers[p] EXCEPT !.unsent = RequestTxIds] ELSE peers[p]]
    BY DEF Housekeeping
  <2>2. ASSUME NEW p \in Peers PROVE StateOK([peers[p] EXCEPT !.unsent = RequestTxIds])
    BY <1>1 DEF StateOK
  <2> QED BY <1>1, <2>1, <2>2 DEF StatesKept
<1>3. PICK order \in [1..Cardinality(known) -> known] :
        outbound' = outbound \o FlattenSeq([i \in DOMAIN order |->
                                  visit_housekeeping(order[i], peers[order[i]])])
  BY DEF Housekeeping
<1> DEFINE n == Cardinality(known)
<1> DEFINE seqs == [i \in DOMAIN order |-> visit_housekeeping(order[i], peers[order[i]])]
<1> DEFINE S == {Disconnect(p) : p \in Peers} \cup {Send(p, RequestTxIds) : p \in Peers}
<1>4. n \in Nat /\ known \subseteq Peers
  BY FS_CardinalityType DEF Tracking
<1>5. \A o \in S : o.pid \in Peers
  BY OutputPids
<1>6. ASSUME NEW p \in Peers, NEW s PROVE visit_housekeeping(p, s) \in Seq(S)
  <2>1. Disconnect(p) \in S /\ Send(p, RequestTxIds) \in S
    OBVIOUS
  <2> DEFINE a == IF needs_ban(p, s) \/ needs_disconnect(p, s) THEN <<Disconnect(p)>> ELSE <<>>
  <2> DEFINE b == IF try_request_tx_ids(p, s) THEN <<Send(p, RequestTxIds)>> ELSE <<>>
  <2> HIDE DEF S
  <2>2. a \in Seq(S) /\ b \in Seq(S)
    BY <2>1
  <2>3. visit_housekeeping(p, s) = a \o b
    BY DEF visit_housekeeping
  <2> HIDE DEF a, b
  <2> QED BY <2>2, <2>3
<1>7. seqs \in [1..n -> Seq(S)]
  BY <1>3, <1>4, <1>6
<1> HIDE DEF seqs, n, S
<1>8. seqs \in Seq(Seq(S))
  BY <1>4, <1>7
<1>9. QueueOK(FlattenSeq(seqs))
  BY <1>5, <1>8, FlattenType DEF QueueOK
<1>10. QueueOK(outbound')
  BY <1>1, <1>3, <1>9, QueueConcat DEF seqs
<1> QED BY <1>2, <1>10

LEMMA PollPool ==
  ASSUME Shapes, PollBehavior
  PROVE  PoolKept /\ QueueOK(outbound') /\ Head(outbound).pid \in Peers
<1> DEFINE o == Head(outbound)
<1>2. QueueOK(outbound') /\ o.pid \in Peers
  BY QueueTail DEF PollBehavior, Shapes
<1>3. PoolKept
  <2>1. CASE o.do = "Send" /\ dispatch_send(o.pid, o.msg)
    <3> DEFINE m == o.msg
    <3>1. dispatch_send(o.pid, m)
      BY <2>1
    <3> HIDE DEF m, o
    <3> QED BY <1>2, <3>1, DispatchKeeps
  <2>2. CASE o.do = "Disconnect" /\ dispatch_disconnect(o.pid)
    BY <1>2, <2>2, DispatchKeeps
  <2>3. CASE UNCHANGED poolVars
    BY <2>3, PoolIdle DEF poolVars
  <2> QED BY <2>1, <2>2, <2>3 DEF PollBehavior
<1> QED BY <1>2, <1>3

LEMMA PollKeeps ==
  ASSUME ResponderInv, PollBehavior
  PROVE  ResponderInv'
<1>1. Shapes /\ Tracking /\ Slots /\ SlotsExact
  BY DEF ResponderInv
<1> DEFINE o == Head(outbound)
<1>2. QueueOK(outbound') /\ o.pid \in Peers
  BY <1>1, PollPool
<1>3. PoolKept
  BY <1>1, PollPool
<1>4. \A r \in pending' : r.do \in RequestNames /\ r.pid \in Peers
  <2>1. \/ o.do \in RequestNames /\ pending' = pending \cup {o}
        \/ pending' \subseteq pending
    BY DEF PollBehavior
  <2> HIDE DEF o
  <2> QED BY <1>1, <1>2, <2>1 DEF Shapes
<1>5. Shapes'
  BY <1>1, <1>2, <1>3, <1>4 DEF Shapes, PollBehavior, PoolKept
<1>6. Tracking' /\ Slots' /\ SlotsExact'
  BY <1>1, <1>3, CountsIdle DEF PollBehavior, connectionVars, Tracking
<1> QED BY <1>3, <1>5, <1>6 DEF ResponderInv, PoolKept

LEMMA InterfaceKeeps ==
  ASSUME ResponderInv, Interface
  PROVE  ResponderInv'
<1>1. Shapes /\ Tracking /\ Slots /\ SlotsExact
  BY DEF ResponderInv
<1>2. ASSUME PoolKept, StatesKept, QueueOK(outbound'), UNCHANGED pending,
             Tracking' /\ Slots' /\ SlotsExact'
      PROVE  ResponderInv'
  <2>1. Shapes'
    BY <1>1, <1>2 DEF Shapes, StatesKept, PoolKept
  <2> QED BY <1>2, <2>1 DEF ResponderInv, PoolKept
<1>3. ASSUME PoolKept, UNCHANGED <<known, connectionVars>>
      PROVE  Tracking' /\ Slots' /\ SlotsExact'
  BY <1>1, <1>3, CountsIdle DEF connectionVars, Tracking
<1>4. ASSUME NEW p \in Peers, Connected(p) PROVE ResponderInv'
  <2>1. PoolKept /\ p \in Met(conns')
    BY <1>1, <1>4, AcceptKeeps DEF Connected
  <2>2. StatesKept /\ QueueOK(outbound') /\ UNCHANGED pending
    BY <1>1, <1>4, LifecycleKeeps DEF Connected, on_connected
  <2>3. Tracking' /\ Slots' /\ SlotsExact'
    BY <1>4, <2>1, ConnectCounts DEF Connected, on_connected
  <2> QED BY <1>2, <2>1, <2>2, <2>3
<1>5. ASSUME NEW p \in Peers, ReadyDisconnected(p) PROVE ResponderInv'
  <2>1. PoolKept
    BY <1>1, <1>5, ReadyKeeps DEF ReadyDisconnected
  <2>2. StatesKept /\ QueueOK(outbound') /\ UNCHANGED pending
    BY <1>1, <1>5, LifecycleKeeps DEF ReadyDisconnected, on_disconnected
  <2>3. Tracking' /\ Slots' /\ SlotsExact'
    BY <1>5, <2>1, DisconnectCounts DEF ReadyDisconnected
  <2> QED BY <1>2, <2>1, <2>2, <2>3
<1>6. ASSUME NEW c \in DOMAIN conns PROVE conns[c].pid \in Peers
  BY <1>1, ConnFacts DEF Shapes
<1>7. ASSUME NEW c \in DOMAIN conns, Sent(c) PROVE ResponderInv'
  <2>1. PoolKept
    BY <1>1, <1>7, CompletionKeeps DEF Sent
  <2>2. StatesKept /\ QueueOK(outbound') /\ UNCHANGED <<pending, known, connectionVars>>
    BY <1>1, <1>6, <1>7, OutboundKeeps DEF Sent, on_outbound_msg
  <2> QED BY <1>2, <1>3, <2>1, <2>2
<1>8. ASSUME NEW c \in DOMAIN conns, SendFailed(c) \/ RecvFailed(c) PROVE ResponderInv'
  <2>1. PoolKept
    BY <1>1, <1>8, CompletionKeeps DEF SendFailed, RecvFailed
  <2>2. StatesKept /\ QueueOK(outbound') /\ UNCHANGED <<pending, known, connectionVars>>
    BY <1>1, <1>6, <1>8, LifecycleKeeps DEF SendFailed, RecvFailed, on_errored
  <2> QED BY <1>2, <1>3, <2>1, <2>2
<1>9. ASSUME NEW c \in DOMAIN conns, Disconnected(c) PROVE ResponderInv'
  <2>1. PoolKept
    BY <1>1, <1>9, CompletionKeeps DEF Disconnected
  <2>2. StatesKept /\ QueueOK(outbound') /\ UNCHANGED pending
    BY <1>1, <1>6, <1>9, LifecycleKeeps DEF Disconnected, on_disconnected
  <2>3. Tracking' /\ Slots' /\ SlotsExact'
    BY <1>6, <1>9, <2>1, DisconnectCounts DEF Disconnected
  <2> QED BY <1>2, <2>1, <2>2, <2>3
<1>10. ASSUME NEW c \in DOMAIN conns, Recv(c) PROVE ResponderInv'
  <2>1. PICK m \in ClientMsgs : PoolRecv(c, m) /\ on_inbound_msg(conns[c].pid, m)
    BY <1>10 DEF Recv
  <2>2. PoolKept
    BY <1>1, <2>1, CompletionKeeps
  <2>3. StatesKept /\ QueueOK(outbound') /\ UNCHANGED <<pending, known, connectionVars>>
    BY <1>1, <1>6, <2>1, InboundKeeps DEF on_inbound_msg
  <2> QED BY <1>2, <1>3, <2>2, <2>3
<1> QED BY <1>4, <1>5, <1>7, <1>8, <1>9, <1>10 DEF Interface

LEMMA ApplicationKeeps ==
  ASSUME ResponderInv, Application
  PROVE  ResponderInv'
<1>1. Shapes /\ Tracking /\ Slots /\ SlotsExact /\ scene \in Scenarios
  BY DEF ResponderInv
<1>2. PoolKept /\ UNCHANGED <<known, connections_per_ip, accepted_peers, active_peers, scene>>
  <2>1. UNCHANGED <<poolVars, known, connections_per_ip, accepted_peers, active_peers>>
    BY DEF Application, Provide, BanPeer, DisconnectPeer, Housekeeping, connectionVars
  <2> QED BY <1>1, <2>1, PoolIdle DEF poolVars
<1>3. ASSUME StatesKept, QueueOK(outbound'), pending' \subseteq pending,
             banned_peers' \subseteq Peers,
             NobodyReturns => banned_peers' \subseteq banned_peers \cup known
      PROVE  ResponderInv'
  <2>1. Tracking' /\ Slots' /\ SlotsExact'
    BY <1>1, <1>2, <1>3, CountsIdle
  <2>2. Shapes'
    BY <1>1, <1>2, <1>3 DEF Shapes, StatesKept, PoolKept
  <2> QED BY <1>1, <1>2, <2>1, <2>2 DEF ResponderInv
<1>4. ASSUME UNCHANGED peers PROVE StatesKept
  BY <1>1, <1>4 DEF Shapes, StatesKept
<1>5. ASSUME NEW r \in pending, Provide(r) PROVE ResponderInv'
  <2>1. QueueOK(outbound')
    BY <1>1, <1>5, ProvideKeeps
  <2>2. UNCHANGED <<peers, banned_peers>> /\ pending' \subseteq pending
    BY <1>5 DEF Provide, connectionVars
  <2> QED BY <1>1, <1>3, <1>4, <2>1, <2>2 DEF Tracking
<1>6. ASSUME NEW p \in [host : Hosts, port : Callers], BanPeer(p) \/ DisconnectPeer(p)
      PROVE  ResponderInv'
  <2>1. p \in Peers
    BY <1>1, ResponderAssumption DEF Peers, Callers
  <2>2. QueueOK(outbound')
    BY <1>1, <1>6, <2>1, QueueAppend, OutputPids DEF BanPeer, DisconnectPeer, Shapes
  <2>3. /\ UNCHANGED <<peers, pending>>
        /\ \/ banned_peers' = banned_peers
           \/ banned_peers' = banned_peers \cup {p} /\ ~NobodyReturns
    <3>1. CASE BanPeer(p)
      BY <3>1 DEF BanPeer, NobodyReturns
    <3>2. CASE DisconnectPeer(p)
      BY <3>2 DEF DisconnectPeer, connectionVars
    <3> QED BY <1>6, <3>1, <3>2
  <2> QED BY <1>1, <1>3, <1>4, <2>1, <2>2, <2>3 DEF Tracking
<1>7. ASSUME Housekeeping PROVE ResponderInv'
  <2>1. StatesKept /\ QueueOK(outbound')
    BY <1>1, <1>7, HousekeepingKeeps
  <2>2. UNCHANGED pending /\ banned_peers' \subseteq banned_peers \cup known
    BY <1>7 DEF Housekeeping
  <2> QED BY <1>1, <1>3, <2>1, <2>2 DEF Tracking
<1> QED BY <1>5, <1>6, <1>7 DEF Application

(* Every step of the responder keeps the invariant.                        *)
LEMMA ResponderStep == ResponderInv /\ [Next]_vars => ResponderInv'
<1> SUFFICES ASSUME ResponderInv, [Next]_vars PROVE ResponderInv'
  OBVIOUS
<1>1. CASE UNCHANGED vars
  BY <1>1 DEF vars, poolVars, connectionVars, ResponderInv, Shapes, Tracking, Slots,
    SlotsExact, NobodyReturns, MaxConns, Commands
<1>2. CASE Next
  BY <1>2, PollKeeps, InterfaceKeeps, ApplicationKeeps DEF Next
<1> QED BY <1>1, <1>2

(* The invariant holds before anybody has connected.                       *)
LEMMA ResponderInitInv == Init => ResponderInv
<1> SUFFICES ASSUME Init PROVE ResponderInv
  OBVIOUS
<1>1. scene \in Scenarios /\ conns = <<>> /\ known = {} /\ banned_peers = {}
      /\ accepted_peers = {}
  BY DEF Init, PoolInit
<1>2. StateOK(NewState)
  BY DEF StateOK, NewState
<1>3. ConnsOK(conns)
  <2> DEFINE T == {}
  <2>1. conns \in Seq(T) /\ \A k \in T : {"pid", "shut"} \subseteq DOMAIN k /\ k.pid \in Peers
    BY <1>1
  <2> HIDE DEF T
  <2> QED BY <2>1 DEF ConnsOK
<1>4. writers \in [Peers -> 0..Len(conns)]
  BY <1>1 DEF Init, PoolInit
<1>5. Shapes
  BY <1>2, <1>3, <1>4, QueueEmpty DEF Init, Shapes
<1>6. Tracking /\ Slots
  BY <1>1, FS_EmptySet DEF Init, Tracking, Slots
<1>7. SlotsExact
  <2>1. \A h \in Hosts : FromHost(known, h) = {} /\ FromHost(accepted_peers, h) = {}
    BY <1>1 DEF FromHost
  <2>2. MaxPerIp \in Nat /\ Cardinality({}) = 0 /\ \A h \in Hosts : connections_per_ip[h] = 0
    BY ResponderAssumption, FS_EmptySet DEF Init
  <2> QED BY <2>1, <2>2 DEF SlotsExact
<1> QED BY <1>1, <1>5, <1>6, <1>7 DEF ResponderInv

-----------------------------------------------------------------------------
(* The state of the responder keeps its type, whatever its peers send, and *)
(* however connections, errors and the application's calls interleave.     *)
THEOREM ResponderTypeSafe == Spec => []TypeOK
<1>1. ResponderInv => TypeOK
  <2> SUFFICES ASSUME ResponderInv PROVE TypeOK
    OBVIOUS
  <2>1. IsFiniteSet(accepted_peers)
    BY FS_Subset DEF ResponderInv, Tracking
  <2>2. active_peers \in Nat
    BY <2>1, FS_CardinalityType DEF ResponderInv, Tracking
  <2> QED BY <2>2 DEF ResponderInv, Shapes, Tracking, StateOK, TypeOK
<1> QED BY <1>1, ResponderInitInv, ResponderStep, PTL DEF Spec

(* The active_peers gauge counts the accepted peers, all of them tracked:  *)
(* visit_disconnected takes away no more than visit_connected added,       *)
(* however many peers there are and in whatever order they come back.      *)
THEOREM ResponderCountsActive == Spec => []ActivePeersTracked
<1>1. ResponderInv => ActivePeersTracked
  BY DEF ResponderInv, Tracking, ActivePeersTracked
<1> QED BY <1>1, ResponderInitInv, ResponderStep, PTL DEF Spec

(* While nobody returns, connections_per_ip counts the tracked peers of a  *)
(* host exactly, and the accepted ones never exceed the limit.             *)
THEOREM ResponderSlotsExact == Spec => []SlotsExact
<1>1. ResponderInv => SlotsExact
  BY DEF ResponderInv
<1> QED BY <1>1, ResponderInitInv, ResponderStep, PTL DEF Spec

-----------------------------------------------------------------------------
(* Tracked connections.                                                    *)

(* A step that reports no disconnect and accepts nothing.                  *)
LEMMA TrackedStill ==
  ASSUME PidsKept, DOMAIN conns' = DOMAIN conns, UNCHANGED <<known, writers>>,
         NEW c \in DOMAIN conns', c \in DOMAIN conns => Keeps(c)
  PROVE  Tracked(c)'
BY DEF PidsKept, Keeps, Tracked

(* An output that leaves for the pool keeps the connections and writers.   *)
LEMMA DispatchStill ==
  ASSUME NEW p, NEW m, dispatch_send(p, m) \/ dispatch_disconnect(p)
  PROVE  UNCHANGED <<scene, writers>> /\ DOMAIN conns' = DOMAIN conns
<1>1. CASE dispatch_send(p, m)
  BY <1>1 DEF dispatch_send, Queued
<1>2. CASE dispatch_disconnect(p)
  BY <1>2 DEF dispatch_disconnect, Queued
<1> QED BY <1>1, <1>2

LEMMA PollStill ==
  ASSUME PollBehavior
  PROVE  UNCHANGED <<scene, known, writers>> /\ DOMAIN conns' = DOMAIN conns
<1> DEFINE o == Head(outbound)
<1>1. \/ dispatch_send(o.pid, o.msg) \/ dispatch_disconnect(o.pid)
      \/ UNCHANGED poolVars
  BY DEF PollBehavior
<1>2. UNCHANGED known
  BY DEF PollBehavior
<1>3. PICK p, m : \/ dispatch_send(p, m) \/ dispatch_disconnect(p) \/ UNCHANGED poolVars
  BY <1>1
<1>4. CASE dispatch_send(p, m) \/ dispatch_disconnect(p)
  BY <1>2, <1>4, DispatchStill
<1>5. CASE UNCHANGED poolVars
  BY <1>2, <1>5 DEF poolVars
<1> QED BY <1>3, <1>4, <1>5

(* A disconnect that is reported takes the state and the writer of its     *)
(* peer alone: of a connection that is given up or that is haunted.        *)
LEMMA TrackedByOthers ==
  ASSUME Shapes, PidsKept, DOMAIN conns' = DOMAIN conns, NEW p \in Peers,
         known' = known \ {p}, writers' = [writers EXCEPT ![p] = 0],
         NEW c \in DOMAIN conns', c \in DOMAIN conns => Keeps(c),
         conns[c].pid = p => Haunted(c) \/ ~Open(c)'
  PROVE  Tracked(c)'
<1>1. c \in DOMAIN conns /\ conns[c].pid \in Peers /\ conns'[c].pid = conns[c].pid
  BY ConnFacts DEF Shapes, PidsKept
<1>2. conns[c].pid # p /\ Tracked(c)
  BY <1>1 DEF Keeps
<1> QED BY <1>1, <1>2 DEF Tracked, Shapes

LEMMA TrackedStep ==
  ASSUME ResponderInv, Next, NEW c \in DOMAIN conns', c \in DOMAIN conns => Keeps(c)
  PROVE  Tracked(c)'
<1>0. Shapes /\ DOMAIN conns = 1..Len(conns) /\ Len(conns) \in Nat
  BY ConnFacts DEF ResponderInv, Shapes
<1>1. CASE PollBehavior
  <2>1. PoolKept
    BY <1>0, <1>1, PollPool
  <2>2. UNCHANGED <<known, writers>> /\ DOMAIN conns' = DOMAIN conns
    BY <1>1, PollStill
  <2> QED BY <2>1, <2>2, TrackedStill DEF PoolKept
<1>2. ASSUME NEW p \in Peers, Connected(p) PROVE Tracked(c)'
  <2>0. PoolConnected(p) /\ ConnsOK(conns)
    BY <1>0, <1>2 DEF Connected, Shapes
  <2>1. PoolKept /\ DOMAIN conns' = DOMAIN conns \cup {Len(conns) + 1}
    <3>1. PoolKept
      BY <1>0, <2>0, AcceptKeeps
    <3>2. DOMAIN Append(conns, NewConn(p)) = 1..(Len(conns) + 1)
      BY <2>0 DEF ConnsOK
    <3>3. DOMAIN conns' = 1..(Len(conns) + 1)
      BY <2>0, <3>2 DEF PoolConnected
    <3> QED BY <1>0, <3>1, <3>3
  <2>2. known' = known \cup {p} /\ writers' = [writers EXCEPT ![p] = Len(conns) + 1]
    BY <1>2 DEF Connected, PoolConnected, on_connected
  <2>3. conns'[Len(conns) + 1].pid = p
    BY <1>0, <1>2, NewConnStep DEF Connected, PoolConnected, NewConn, Shapes, ConnsOK
  <2>4. CASE c = Len(conns) + 1
    BY <1>0, <2>2, <2>3, <2>4 DEF Tracked, Shapes
  <2>5. CASE c \in DOMAIN conns
    <3>1. conns[c].pid # p
      BY <1>2, <2>5 DEF Connected, ConnsOf, Keeps, Open
    <3> QED BY <2>1, <2>2, <2>5, <3>1 DEF PoolKept, PidsKept, Keeps, Tracked
  <2> QED BY <2>1, <2>4, <2>5
<1>3. ASSUME NEW p \in Peers, ReadyDisconnected(p) PROVE Tracked(c)'
  <2>1. PoolKept /\ UNCHANGED conns /\ writers' = [writers EXCEPT ![p] = 0] /\ known' = known \ {p}
    BY <1>0, <1>3, ReadyKeeps DEF ReadyDisconnected, PoolReady, on_disconnected
  <2>2. futures[p] # <<>>
    BY <1>3 DEF ReadyDisconnected, PoolReady, Readies
  <2> QED BY <1>0, <2>1, <2>2, TrackedByOthers DEF PoolKept, Haunted
<1>4. ASSUME NEW b \in DOMAIN conns, Disconnected(b) PROVE Tracked(c)'
  <2>1. /\ PoolKept /\ DOMAIN conns' = DOMAIN conns /\ conns[b].tasks # <<>>
        /\ writers' = [writers EXCEPT ![conns[b].pid] = 0] /\ known' = known \ {conns[b].pid}
    BY <1>0, <1>4, CompletionKeeps DEF Disconnected, PoolDisconnected, on_disconnected
  <2>2. conns[b].pid \in Peers
    BY <1>0, ConnFacts DEF Shapes
  <2>3. conns[c].pid = conns[b].pid => Haunted(c) \/ ~Open(c)'
    <3>1. CASE c = b
      <4>1. "shut" \in DOMAIN conns[b]
        BY <1>0, ConnFacts DEF Shapes
      <4>2. conns'[b].shut
        BY <1>4, <4>1 DEF Disconnected, PoolDisconnected
      <4> QED BY <3>1, <4>2 DEF Open
    <3>2. CASE c # b
      BY <2>1, <3>2 DEF Haunted, ConnsOf
    <3> QED BY <3>1, <3>2
  <2> QED BY <1>0, <2>1, <2>2, <2>3, TrackedByOthers DEF PoolKept
<1>5. ASSUME NEW b \in DOMAIN conns, Sent(b) \/ SendFailed(b) \/ RecvFailed(b) PROVE Tracked(c)'
  <2>1. PoolKept
    BY <1>0, <1>5, CompletionKeeps DEF Sent, SendFailed, RecvFailed
  <2>2. UNCHANGED <<known, writers>> /\ DOMAIN conns' = DOMAIN conns
    BY <1>5 DEF Sent, SendFailed, RecvFailed, PoolSent, PoolSendFailed, PoolRecvFailed,
      on_outbound_msg, on_errored
  <2> QED BY <2>1, <2>2, TrackedStill DEF PoolKept
<1>6. ASSUME NEW b \in DOMAIN conns, Recv(b) PROVE Tracked(c)'
  <2>1. PICK m \in ClientMsgs : PoolRecv(b, m) /\ on_inbound_msg(conns[b].pid, m)
    BY <1>6 DEF Recv
  <2>2. PoolKept
    BY <1>0, <2>1, CompletionKeeps
  <2>3. UNCHANGED <<known, writers>> /\ DOMAIN conns' = DOMAIN conns
    BY <2>1 DEF PoolRecv, on_inbound_msg
  <2> QED BY <2>2, <2>3, TrackedStill DEF PoolKept
<1>7. CASE Application
  <2>1. UNCHANGED <<known, conns, writers>>
    BY <1>7 DEF Application, Provide, BanPeer, DisconnectPeer, Housekeeping, poolVars
  <2> QED BY <2>1, TrackedStill DEF PidsKept
<1> QED BY <1>1, <1>2, <1>3, <1>4, <1>5, <1>6, <1>7 DEF Next, Interface

(* Every connection that the listener accepts is tracked by on_connected,  *)
(* whether its peer is welcome or turned away, and keeps its state and its *)
(* writer while it is open, whatever is sent, fails or is commanded,       *)
(* unless a disconnect of its address's past is still to be reported, for  *)
(* any peers and any number of connections of an address.                  *)
THEOREM ResponderTracksConnections == Spec => ConnectionsTracked
<1>1. ResponderInv /\ [Next]_vars =>
        [\A c \in DOMAIN conns' : (c \in DOMAIN conns => Keeps(c)) => Tracked(c)']_vars
  BY TrackedStep
<1>2. Spec => []ResponderInv
  BY ResponderInitInv, ResponderStep, PTL DEF Spec
<1> QED BY <1>1, <1>2, PTL DEF Spec, ConnectionsTracked

-----------------------------------------------------------------------------
(***************************************************************************)
(* Proofs that the responder (Responder.tla) answers in turn, on every     *)
(* channel, for any peers and any scenario in which an address connects    *)
(* once, whatever those peers send.                                        *)
(*                                                                         *)
(* Far and near state of a protocol are the same while the connection is   *)
(* read; what lies between them, the outputs of the behaviour and the      *)
(* tasks of the pool, is at most one answer or one request to be told.     *)
(***************************************************************************)

(* The turns of a connection.                                              *)

(* The names under which the requests of a channel are told.               *)
ShownNames(ch) == IF ch \in DOMAIN Shown THEN {Shown[ch][a] : a \in DOMAIN Shown[ch]} ELSE {}

(* What an output, and a task of the pool, mean to a client on a channel:  *)
(* the kind of a message for it, or the name of its request.               *)
OutToken(p, ch, o) ==
  IF o.pid = p /\ o.do = "Send" /\ o.msg.ch = ch THEN <<o.msg.kind>>
  ELSE IF o.pid = p /\ o.do \in ShownNames(ch) THEN <<o.do>> ELSE <<>>
TaskToken(ch, m) == IF m.ch = ch THEN <<m.kind>> ELSE <<>>

OutLine(p, ch, q) == FlattenSeq([i \in DOMAIN q |-> OutToken(p, ch, q[i])])
TaskLine(ch, q) == FlattenSeq([i \in DOMAIN q |-> TaskToken(ch, q[i])])

OutOf(p, q) == [ch \in AllChannels |-> OutLine(p, ch, q)]
ToldOf(p, rs) == [ch \in AllChannels |-> {r \in rs : r.pid = p /\ r.do \in ShownNames(ch)}]

(* What may be on its way to a client whose protocol is in state x: an     *)
(* answer, the request that is to be told, or (a part of) a batch.         *)
Answered(ch, x) == {<<t[2]>> : t \in {u \in Moves[ch] : u[1] = x /\ u[2] \in ServerKinds[ch]}}
Asked(ch, x) == IF ch \in DOMAIN Shown /\ x \in DOMAIN Shown[ch] THEN {<<Shown[ch][x]>>} ELSE {}
Batch(ch, x) ==
  IF ch # "blockfetch" THEN {}
  ELSE CASE x = "Busy" -> {<<"StartBatch", "BatchDone">>, <<"StartBatch", "Block">>,
                           <<"StartBatch", "Block", "BatchDone">>}
         [] x = "StreamingNone" -> {<<"Block", "BatchDone">>}
         [] OTHER -> {}
InTurn(ch, x, line) ==
  line \in {<<>>} \cup Answered(ch, x) \cup Asked(ch, x) \cup Batch(ch, x)

(* Messages of the server, in outputs and in the tasks of a connection.    *)
Kinds == UNION {ServerKinds[ch] : ch \in AllChannels}
Tokens == Kinds \cup RequestNames
Speech(m) == m.ch \in AllChannels /\ m.kind \in ServerKinds[m.ch]
Speaks(o) == o.do = "Send" => Speech(o.msg)
OutputsOK(q) == \E S : q \in Seq(S) /\ \A o \in S : Speaks(o)
TasksOK(q) == \E S : q \in Seq(S) /\ \A m \in S : Speech(m) \/ m = Shutdown

(* One channel of a client in state x, with the line of what is on its way *)
(* and the requests that were told: none, or the one that is to be         *)
(* answered.                                                               *)
Turn(ch, x, line, isWriter, told) ==
  /\ InTurn(ch, x, line)
  /\ isWriter /\ told # {} =>
       line = <<>> /\ \E r \in told : told = {r} /\ <<r.do>> \in Asked(ch, x)

(* A connection k of a peer in state s, which is tracked (isKnown) and     *)
(* whose writer it is (isWriter), with the outputs and the told requests   *)
(* of the peer; chs are the protocols in use.                              *)
Live(k, isKnown) == ~k.shut /\ k.writing /\ (k.reading \/ isKnown)
View(chs, k, s, ch) ==
  IF ch \notin chs THEN StartAt[ch]
  ELSE IF k.reading THEN k.remote[ch].at ELSE s.proto[ch].at
Line(k, isWriter, out, ch) == TaskLine(ch, k.tasks) \o (IF isWriter THEN out[ch] ELSE <<>>)

ConnShape(chs, k) ==
  /\ {"pid", "tasks", "shut", "reading", "writing", "remote", "offended"} \subseteq DOMAIN k
  /\ TasksOK(k.tasks) /\ DOMAIN k.remote = chs
Mirrored(k, s, isKnown) == k.reading /\ isKnown => k.remote = s.proto
OneTurn(chs, k, s, isKnown, isWriter, out, told, ch) ==
  Live(k, isKnown) =>
    Turn(ch, View(chs, k, s, ch), Line(k, isWriter, out, ch), isWriter, told[ch])
TxIdsOnce(k, s, isKnown, isWriter, out) ==
  Live(k, isKnown) /\ isKnown /\ Line(k, isWriter, out, "txsubmission") # <<>>
    => s.unsent # NoMsg

Turns(chs, k, s, isKnown, isWriter, out, told) ==
  /\ ConnShape(chs, k) /\ DOMAIN s.proto = chs /\ ~k.offended
  /\ Mirrored(k, s, isKnown)
  /\ \A ch \in AllChannels : OneTurn(chs, k, s, isKnown, isWriter, out, told, ch)
  /\ TxIdsOnce(k, s, isKnown, isWriter, out)

(* The turns of a peer: those of its connection, if it has one.            *)
Silent(p) == \A ch \in AllChannels : OutOf(p, outbound)[ch] = <<>> /\ ToldOf(p, pending)[ch] = {}
PeerTurns(p) ==
  /\ \A c \in DOMAIN conns : conns[c].pid = p =>
       Turns(Channels, conns[c], peers[p], p \in known, writers[p] = c,
             OutOf(p, outbound), ToldOf(p, pending))
  /\ \A c, d \in DOMAIN conns : conns[c].pid = p /\ conns[d].pid = p => c = d
  /\ writers[p] # 0 => conns[writers[p]].pid = p
  /\ p \notin Met(conns) => p \notin known /\ Silent(p)
  /\ p.port \notin Accusable => ~peers[p].violation

(* The inductive invariant, in scenarios where an address connects once.   *)
AllTurns == OutputsOK(outbound) /\ \A p \in Peers : PeerTurns(p)
TurnsInv == ResponderInv /\ (MaxConns <= 1 => AllTurns)

-----------------------------------------------------------------------------
(* Queues whose elements mean something.                                   *)

LEMMA TokenTypes ==
  ASSUME NEW ch \in AllChannels
  PROVE  /\ \A p, o : Speaks(o) => OutToken(p, ch, o) \in Seq(Tokens)
         /\ \A m : Speech(m) \/ m = Shutdown => TaskToken(ch, m) \in Seq(Tokens)
<1>1. \A x \in Tokens : <<x>> \in Seq(Tokens)
  OBVIOUS
<1>2. <<>> \in Seq(Tokens)
  OBVIOUS
<1>3. ShownNames(ch) \subseteq Tokens
  BY DEF ShownNames, RequestNames, Tokens
<1>4. \A m : Speech(m) => m.kind \in Tokens
  BY DEF Speech, Tokens, Kinds
<1>5. Shutdown.ch # ch
  BY DEF Shutdown, Msg, AllChannels
<1> HIDE DEF Tokens
<1>6. ASSUME NEW p, NEW o, Speaks(o) PROVE OutToken(p, ch, o) \in Seq(Tokens)
  BY <1>1, <1>2, <1>3, <1>4, <1>6 DEF Speaks, OutToken
<1>7. ASSUME NEW m, Speech(m) \/ m = Shutdown PROVE TaskToken(ch, m) \in Seq(Tokens)
  BY <1>1, <1>2, <1>4, <1>5, <1>7 DEF TaskToken
<1> QED BY <1>6, <1>7

LEMMA OutConcat ==
  ASSUME NEW q, OutputsOK(q), NEW r, OutputsOK(r), NEW p, NEW ch \in AllChannels
  PROVE  /\ OutputsOK(q \o r) /\ OutLine(p, ch, q) \in Seq(Tokens)
         /\ OutLine(p, ch, q \o r) = OutLine(p, ch, q) \o OutLine(p, ch, r)
<1>1. PICK S : q \in Seq(S) /\ \A o \in S : Speaks(o)
  BY DEF OutputsOK
<1>2. PICK T : r \in Seq(T) /\ \A o \in T : Speaks(o)
  BY DEF OutputsOK
<1> DEFINE U == S \cup T
<1>3. q \in Seq(U) /\ r \in Seq(U) /\ \A o \in U : Speaks(o)
  BY <1>1, <1>2
<1> HIDE DEF U
<1>4. q \o r \in Seq(U)
  BY <1>3
<1> DEFINE g == [o \in U |-> OutToken(p, ch, o)]
<1>5. MapsTo(g, U, Seq(Tokens))
  BY <1>3, TokenTypes DEF MapsTo
<1>6. ASSUME NEW s \in Seq(U) PROVE OutLine(p, ch, s) = FlatMap(g, s)
  <2>1. [i \in DOMAIN s |-> OutToken(p, ch, s[i])] = [i \in DOMAIN s |-> g[s[i]]]
    OBVIOUS
  <2> QED BY <2>1 DEF OutLine, FlatMap
<1> HIDE DEF g
<1>7. FlatMap(g, q) \in Seq(Tokens) /\ FlatMap(g, q \o r) = FlatMap(g, q) \o FlatMap(g, r)
  BY <1>3, <1>5, FlatMapFacts
<1> QED BY <1>3, <1>4, <1>6, <1>7 DEF OutputsOK

LEMMA OutEnds ==
  ASSUME NEW U, \A o \in U : Speaks(o), NEW q \in Seq(U), NEW p, NEW ch \in AllChannels
  PROVE  /\ \A o \in U : OutLine(p, ch, Append(q, o)) = OutLine(p, ch, q) \o OutToken(p, ch, o)
         /\ q # <<>> => OutLine(p, ch, q) = OutToken(p, ch, Head(q)) \o OutLine(p, ch, Tail(q))
<1> DEFINE g == [o \in U |-> OutToken(p, ch, o)]
<1>1. MapsTo(g, U, Seq(Tokens))
  BY TokenTypes DEF MapsTo
<1>2. ASSUME NEW s \in Seq(U) PROVE OutLine(p, ch, s) = FlatMap(g, s)
  <2>1. [i \in DOMAIN s |-> OutToken(p, ch, s[i])] = [i \in DOMAIN s |-> g[s[i]]]
    OBVIOUS
  <2> QED BY <2>1 DEF OutLine, FlatMap
<1>3. \A o \in U : g[o] = OutToken(p, ch, o)
  OBVIOUS
<1> HIDE DEF g
<1>4. /\ \A o \in U : FlatMap(g, Append(q, o)) = FlatMap(g, q) \o g[o]
      /\ q # <<>> => FlatMap(g, q) = g[Head(q)] \o FlatMap(g, Tail(q))
  BY <1>1, FlatMapEnds
<1>5. \A o \in U : Append(q, o) \in Seq(U)
  OBVIOUS
<1>6. q # <<>> => Head(q) \in U /\ Tail(q) \in Seq(U)
  OBVIOUS
<1> QED BY <1>2, <1>3, <1>4, <1>5, <1>6

LEMMA OutAppend ==
  ASSUME NEW q, OutputsOK(q), NEW o, Speaks(o), NEW p, NEW ch \in AllChannels
  PROVE  /\ OutputsOK(Append(q, o))
         /\ OutLine(p, ch, Append(q, o)) = OutLine(p, ch, q) \o OutToken(p, ch, o)
<1>1. PICK S : q \in Seq(S) /\ \A x \in S : Speaks(x)
  BY DEF OutputsOK
<1> DEFINE U == S \cup {o}
<1>2. q \in Seq(U) /\ o \in U /\ \A x \in U : Speaks(x)
  BY <1>1
<1> HIDE DEF U
<1>3. Append(q, o) \in Seq(U)
  BY <1>2
<1>4. \A x \in U : OutLine(p, ch, Append(q, x)) = OutLine(p, ch, q) \o OutToken(p, ch, x)
  BY <1>2, OutEnds
<1> QED BY <1>2, <1>3, <1>4 DEF OutputsOK

LEMMA OutHead ==
  ASSUME NEW q, OutputsOK(q), q # <<>>, NEW p, NEW ch \in AllChannels
  PROVE  /\ OutputsOK(Tail(q)) /\ Speaks(Head(q))
         /\ OutLine(p, ch, q) = OutToken(p, ch, Head(q)) \o OutLine(p, ch, Tail(q))
<1>1. PICK S : q \in Seq(S) /\ \A o \in S : Speaks(o)
  BY DEF OutputsOK
<1>2. Head(q) \in S /\ Tail(q) \in Seq(S)
  BY <1>1
<1>3. OutLine(p, ch, q) = OutToken(p, ch, Head(q)) \o OutLine(p, ch, Tail(q))
  BY <1>1, OutEnds
<1> QED BY <1>1, <1>2, <1>3 DEF OutputsOK

LEMMA OutType ==
  ASSUME NEW q, OutputsOK(q), NEW p, NEW ch \in AllChannels
  PROVE  OutLine(p, ch, q) \in Seq(Tokens)
BY OutConcat, ZenonT(30)

LEMMA TaskEnds ==
  ASSUME NEW q, TasksOK(q), NEW ch \in AllChannels
  PROVE  /\ TaskLine(ch, q) \in Seq(Tokens)
         /\ \A m : Speech(m) \/ m = Shutdown =>
              /\ TasksOK(Append(q, m))
              /\ TaskLine(ch, Append(q, m)) = TaskLine(ch, q) \o TaskToken(ch, m)
         /\ q # <<>> => /\ TasksOK(Tail(q)) /\ (Speech(Head(q)) \/ Head(q) = Shutdown)
                        /\ TaskLine(ch, q) = TaskToken(ch, Head(q)) \o TaskLine(ch, Tail(q))
<1> DEFINE Good(m) == Speech(m) \/ m = Shutdown
<1>1. PICK S : q \in Seq(S) /\ \A m \in S : Good(m)
  BY DEF TasksOK
<1>8. \A m : Good(m) => TaskToken(ch, m) \in Seq(Tokens)
  BY TokenTypes
<1>9. \A s, U : s \in Seq(U) /\ (\A m \in U : Good(m)) => TasksOK(s)
  BY DEF TasksOK
<1>2. ASSUME NEW U, q \in Seq(U), \A m \in U : Good(m)
      PROVE  /\ TaskLine(ch, q) \in Seq(Tokens)
             /\ \A m \in U : TaskLine(ch, Append(q, m)) = TaskLine(ch, q) \o TaskToken(ch, m)
             /\ q # <<>> => TaskLine(ch, q) = TaskToken(ch, Head(q)) \o TaskLine(ch, Tail(q))
  <2> DEFINE g == [m \in U |-> TaskToken(ch, m)]
  <2>1. MapsTo(g, U, Seq(Tokens))
    <3> HIDE DEF Good
    <3> QED BY <1>2, <1>8 DEF MapsTo
  <2>2. ASSUME NEW s \in Seq(U) PROVE TaskLine(ch, s) = FlatMap(g, s)
    <3>1. [i \in DOMAIN s |-> TaskToken(ch, s[i])] = [i \in DOMAIN s |-> g[s[i]]]
      OBVIOUS
    <3> QED BY <3>1 DEF TaskLine, FlatMap
  <2>3. \A m \in U : g[m] = TaskToken(ch, m)
    OBVIOUS
  <2> HIDE DEF g, Good
  <2>4. FlatMap(g, q) \in Seq(Tokens)
    BY <1>2, <2>1, FlatMapFacts
  <2>5. /\ \A m \in U : FlatMap(g, Append(q, m)) = FlatMap(g, q) \o g[m]
        /\ q # <<>> => FlatMap(g, q) = g[Head(q)] \o FlatMap(g, Tail(q))
    BY <1>2, <2>1, FlatMapEnds
  <2>6. \A m \in U : Append(q, m) \in Seq(U)
    BY <1>2
  <2>7. q # <<>> => Head(q) \in U /\ Tail(q) \in Seq(U)
    BY <1>2
  <2> QED BY <1>2, <2>2, <2>3, <2>4, <2>5, <2>6, <2>7
<1>3. TaskLine(ch, q) \in Seq(Tokens)
  <2> HIDE DEF Good
  <2> QED BY <1>1, <1>2
<1>4. ASSUME NEW m, Speech(m) \/ m = Shutdown
      PROVE  /\ TasksOK(Append(q, m))
             /\ TaskLine(ch, Append(q, m)) = TaskLine(ch, q) \o TaskToken(ch, m)
  <2> DEFINE U == S \cup {m}
  <2> HIDE DEF Good
  <2>1. q \in Seq(U) /\ m \in U /\ \A x \in U : Good(x)
    BY <1>1, <1>4 DEF Good
  <2> HIDE DEF U
  <2>2. Append(q, m) \in Seq(U)
    BY <2>1
  <2> QED BY <1>2, <1>9, <2>1, <2>2
<1>5. ASSUME q # <<>>
      PROVE  /\ TasksOK(Tail(q)) /\ Good(Head(q))
             /\ TaskLine(ch, q) = TaskToken(ch, Head(q)) \o TaskLine(ch, Tail(q))
  <2> HIDE DEF Good
  <2>1. Head(q) \in S /\ Tail(q) \in Seq(S)
    BY <1>1, <1>5
  <2> QED BY <1>1, <1>2, <1>5, <1>9, <2>1
<1> QED BY <1>3, <1>4, <1>5

LEMMA TaskAppend ==
  ASSUME NEW q, TasksOK(q), NEW m, Speech(m) \/ m = Shutdown, NEW ch \in AllChannels
  PROVE  /\ TasksOK(Append(q, m))
         /\ TaskLine(ch, Append(q, m)) = TaskLine(ch, q) \o TaskToken(ch, m)
BY TaskEnds, ZenonT(30)

LEMMA TaskHead ==
  ASSUME NEW q, TasksOK(q), q # <<>>, NEW ch \in AllChannels
  PROVE  /\ TasksOK(Tail(q)) /\ (Speech(Head(q)) \/ Head(q) = Shutdown)
         /\ TaskLine(ch, q) = TaskToken(ch, Head(q)) \o TaskLine(ch, Tail(q))
BY TaskEnds, ZenonT(30)

LEMMA TaskType ==
  ASSUME NEW q, TasksOK(q), NEW ch \in AllChannels
  PROVE  TaskLine(ch, q) \in Seq(Tokens)
BY TaskEnds, ZenonT(30)

-----------------------------------------------------------------------------
(* The tables: in no state may both sides speak.                           *)

LEMMA SidesApart ==
  ASSUME NEW ch \in AllChannels, NEW t \in Moves[ch], t[2] \in ClientKinds[ch]
  PROVE  /\ \A u \in Moves[ch] : u[2] \in ServerKinds[ch] => u[1] # t[1]
         /\ Asked(ch, t[1]) = {} /\ Batch(ch, t[1]) = {}
<1> DEFINE Apart ==
      /\ \A u \in Moves[ch] : u[2] \in ServerKinds[ch] => u[1] # t[1]
      /\ Asked(ch, t[1]) = {} /\ Batch(ch, t[1]) = {}
<1>1. CASE ch = "handshake"
  BY <1>1 DEF Moves, HandshakeMoves, From, ClientKinds, ServerKinds, Asked, Batch, Shown
<1>2. CASE ch = "keepalive"
  BY <1>2 DEF Moves, KeepAliveMoves, From, ClientKinds, ServerKinds, Asked, Batch, Shown
<1>3. CASE ch = "peersharing"
  BY <1>3 DEF Moves, PeerSharingMoves, From, ClientKinds, ServerKinds, Asked, Batch, Shown
<1>4. CASE ch = "blockfetch"
  BY <1>4 DEF Moves, BlockFetchMoves, From, ClientKinds, ServerKinds, Asked, Batch, Shown
<1>5. CASE ch = "chainsync"
  BY <1>5 DEF Moves, ChainSyncMoves, ChainSyncIdle, From, ClientKinds, ServerKinds, Asked,
    Batch, Shown
<1>6. CASE ch = "txsubmission"
  BY <1>6 DEF Moves, TxSubmissionMoves, From, ClientKinds, ServerKinds, Asked, Batch, Shown
<1>7. CASE ch = "leiosnotify"
  BY <1>7 DEF Moves, LeiosNotifyMoves, From, ClientKinds, ServerKinds, Asked, Batch, Shown
<1>8. CASE ch = "leiosfetch"
  BY <1>8 DEF Moves, LeiosFetchMoves, From, ClientKinds, ServerKinds, Asked, Batch, Shown
<1> QED BY <1>1, <1>2, <1>3, <1>4, <1>5, <1>6, <1>7, <1>8 DEF AllChannels

(* Every protocol starts with the client.                                  *)
LEMMA ClientsStart ==
  ASSUME NEW ch \in AllChannels
  PROVE  \E t \in Moves[ch] : t[1] = StartAt[ch] /\ t[2] \in ClientKinds[ch]
<1>1. CASE ch = "handshake"
  <2> DEFINE t == <<"Propose", "Propose", "Confirm">>
  <2>1. t \in Moves[ch] /\ t[1] = StartAt[ch] /\ t[2] \in ClientKinds[ch]
    BY <1>1 DEF Moves, HandshakeMoves, From, ClientKinds, StartAt
  <2> QED BY <2>1
<1>2. CASE ch = "keepalive"
  <2> DEFINE t == <<"ClientEmpty", "KeepAlive", "Server">>
  <2>1. t \in Moves[ch] /\ t[1] = StartAt[ch] /\ t[2] \in ClientKinds[ch]
    BY <1>2 DEF Moves, KeepAliveMoves, From, ClientKinds, StartAt
  <2> QED BY <2>1
<1>3. CASE ch = "peersharing"
  <2> DEFINE t == <<"IdleEmpty", "ShareRequest", "Busy">>
  <2>1. t \in Moves[ch] /\ t[1] = StartAt[ch] /\ t[2] \in ClientKinds[ch]
    BY <1>3 DEF Moves, PeerSharingMoves, From, ClientKinds, StartAt
  <2> QED BY <2>1
<1>4. CASE ch = "blockfetch"
  <2> DEFINE t == <<"Idle", "RequestRange", "Busy">>
  <2>1. t \in Moves[ch] /\ t[1] = StartAt[ch] /\ t[2] \in ClientKinds[ch]
    BY <1>4 DEF Moves, BlockFetchMoves, From, ClientKinds, StartAt
  <2> QED BY <2>1
<1>5. CASE ch = "chainsync"
  <2> DEFINE t == <<"IdleNew", "Done", "Done">>
  <2>1. t \in Moves[ch] /\ t[1] = StartAt[ch] /\ t[2] \in ClientKinds[ch]
    BY <1>5 DEF Moves, ChainSyncMoves, ChainSyncIdle, From, ClientKinds, StartAt
  <2> QED BY <2>1
<1>6. CASE ch = "txsubmission"
  <2> DEFINE t == <<"Init", "Init", "Idle">>
  <2>1. t \in Moves[ch] /\ t[1] = StartAt[ch] /\ t[2] \in ClientKinds[ch]
    BY <1>6 DEF Moves, TxSubmissionMoves, From, ClientKinds, StartAt
  <2> QED BY <2>1
<1>7. CASE ch = "leiosnotify"
  <2> DEFINE t == <<"IdleNone", "Quit", "Quit">>
  <2>1. t \in Moves[ch] /\ t[1] = StartAt[ch] /\ t[2] \in ClientKinds[ch]
    BY <1>7 DEF Moves, LeiosNotifyMoves, From, ClientKinds, StartAt
  <2> QED BY <2>1
<1>8. CASE ch = "leiosfetch"
  <2> DEFINE t == <<"IdleNone", "Done", "Done">>
  <2>1. t \in Moves[ch] /\ t[1] = StartAt[ch] /\ t[2] \in ClientKinds[ch]
    BY <1>8 DEF Moves, LeiosFetchMoves, From, ClientKinds, StartAt
  <2> QED BY <2>1
<1> QED BY <1>1, <1>2, <1>3, <1>4, <1>5, <1>6, <1>7, <1>8 DEF AllChannels

(* Nothing is on its way to a client that may speak.                       *)
LEMMA ClientSilence ==
  ASSUME NEW ch \in AllChannels, NEW x, NEW line, InTurn(ch, x, line),
         NEW t \in Moves[ch], t[1] = x, t[2] \in ClientKinds[ch]
  PROVE  line = <<>> /\ Asked(ch, x) = {}
<1>1. Asked(ch, x) = {} /\ Batch(ch, x) = {}
  BY SidesApart
<1>2. Answered(ch, x) = {}
  BY SidesApart DEF Answered
<1> QED BY <1>1, <1>2 DEF InTurn

LEMMA StartSilence ==
  ASSUME NEW ch \in AllChannels, NEW line, InTurn(ch, StartAt[ch], line)
  PROVE  line = <<>> /\ Asked(ch, StartAt[ch]) = {}
BY ClientsStart, ClientSilence

(* Kinds of messages are no names of events.                               *)
LEMMA KindsNotNames ==
  ASSUME NEW ch \in AllChannels, NEW kind \in ServerKinds[ch]
  PROVE  kind \notin RequestNames
<1>1. RequestNames \subseteq {"IntersectionRequested", "NextHeaderRequested",
        "BlockRangeRequested", "PeersRequested", "EbNotificationRequested", "EbRequested",
        "EbTxsRequested"}
  BY DEF RequestNames, Shown
<1>2. ServerKinds[ch] \cap {"IntersectionRequested", "NextHeaderRequested",
        "BlockRangeRequested", "PeersRequested", "EbNotificationRequested", "EbRequested",
        "EbTxsRequested"} = {}
  BY DEF ServerKinds, AllChannels
<1> QED BY <1>1, <1>2

LEMMA AskedNames ==
  ASSUME NEW ch, NEW x, NEW e, <<e>> \in Asked(ch, x)
  PROVE  e \in ShownNames(ch) /\ e \in RequestNames /\ e = Shown[ch][x]
         /\ ch \in DOMAIN Shown /\ x \in DOMAIN Shown[ch]
<1>1. ch \in DOMAIN Shown /\ x \in DOMAIN Shown[ch] /\ <<e>> = <<Shown[ch][x]>>
  BY DEF Asked
<1>2. e = Shown[ch][x]
  BY <1>1
<1> QED BY <1>1, <1>2 DEF ShownNames, RequestNames

(* The parts of a batch are messages of the server.                        *)
LEMMA BatchWords ==
  ASSUME NEW ch \in AllChannels, NEW x, NEW line \in Batch(ch, x)
  PROVE  /\ ch = "blockfetch"
         /\ \/ x = "Busy" /\ line = <<"StartBatch", "BatchDone">>
            \/ x = "Busy" /\ line = <<"StartBatch", "Block">>
            \/ x = "Busy" /\ line = <<"StartBatch", "Block", "BatchDone">>
            \/ x = "StreamingNone" /\ line = <<"Block", "BatchDone">>
<1>1. ch = "blockfetch"
  BY DEF Batch
<1> QED BY <1>1 DEF Batch

LEMMA BatchMoves ==
  /\ \A k \in {"StartBatch", "Block", "BatchDone"} : k \in ServerKinds["blockfetch"]
  /\ <<"Busy", "StartBatch", "StreamingNone">> \in Moves["blockfetch"]
  /\ <<"StreamingNone", "Block", "StreamingSome">> \in Moves["blockfetch"]
  /\ <<"StreamingNone", "BatchDone", "Idle">> \in Moves["blockfetch"]
  /\ <<"StreamingSome", "BatchDone", "Idle">> \in Moves["blockfetch"]
  /\ \A t \in Moves["blockfetch"] :
       /\ t[1] = "Busy" /\ t[2] = "StartBatch" => t[3] = "StreamingNone"
       /\ t[1] = "StreamingNone" /\ t[2] = "Block" => t[3] = "StreamingSome"
<1>1. \A k \in {"StartBatch", "Block", "BatchDone"} : k \in ServerKinds["blockfetch"]
  BY DEF ServerKinds
<1>2. /\ <<"Busy", "StartBatch", "StreamingNone">> \in Moves["blockfetch"]
      /\ <<"StreamingNone", "Block", "StreamingSome">> \in Moves["blockfetch"]
      /\ <<"StreamingNone", "BatchDone", "Idle">> \in Moves["blockfetch"]
      /\ <<"StreamingSome", "BatchDone", "Idle">> \in Moves["blockfetch"]
  BY DEF Moves, BlockFetchMoves, From
<1>3. \A t \in Moves["blockfetch"] :
       /\ t[1] = "Busy" /\ t[2] = "StartBatch" => t[3] = "StreamingNone"
       /\ t[1] = "StreamingNone" /\ t[2] = "Block" => t[3] = "StreamingSome"
  BY DEF Moves, BlockFetchMoves, From
<1> QED BY <1>1, <1>2, <1>3

LEMMA AnsweredBy ==
  ASSUME NEW ch, NEW x, NEW y, NEW k \in ServerKinds[ch], <<x, k, y>> \in Moves[ch]
  PROVE  <<k>> \in Answered(ch, x)
<1> DEFINE t == <<x, k, y>>
<1>1. t \in Moves[ch] /\ t[1] = x /\ t[2] = k
  OBVIOUS
<1> HIDE DEF t
<1> QED BY <1>1 DEF Answered

(* The states in which parts of a batch are answers.                       *)
LEMMA BatchAnswers ==
  /\ <<"StartBatch">> \in Answered("blockfetch", "Busy")
  /\ <<"Block">> \in Answered("blockfetch", "StreamingNone")
  /\ <<"BatchDone">> \in Answered("blockfetch", "StreamingNone")
  /\ <<"BatchDone">> \in Answered("blockfetch", "StreamingSome")
BY BatchMoves, AnsweredBy

(* What a line is made of.                                                 *)
LEMMA LineWords ==
  ASSUME NEW ch \in AllChannels, NEW x, NEW line, InTurn(ch, x, line)
  PROVE  \/ line = <<>>
         \/ \E t \in Moves[ch] : t[1] = x /\ t[2] \in ServerKinds[ch] /\ line = <<t[2]>>
         \/ \E e \in RequestNames : line = <<e>> /\ line \in Asked(ch, x)
         \/ line \in Batch(ch, x)
<1>1. CASE line \in Answered(ch, x)
  BY <1>1 DEF Answered
<1>2. CASE line \in Asked(ch, x)
  <2>1. line = <<Shown[ch][x]>>
    BY <1>2 DEF Asked
  <2>2. Shown[ch][x] \in RequestNames
    BY <1>2, <2>1, AskedNames
  <2> QED BY <1>2, <2>1, <2>2
<1> QED BY <1>1, <1>2 DEF InTurn

LEMMA FirstWord ==
  ASSUME NEW S, NEW k \in S, NEW rest \in Seq(S)
  PROVE  LET line == <<k>> \o rest
         IN  line # <<>> /\ line[1] = k /\ Len(line) = Len(rest) + 1
             /\ \A i \in 1..Len(rest) : rest[i] = line[i + 1]
<1> DEFINE one == <<k>>
<1>1. one \in Seq(S) /\ Len(one) = 1 /\ one[1] = k
  OBVIOUS
<1> HIDE DEF one
<1> DEFINE line == one \o rest
<1>2. /\ line \in Seq(S) /\ Len(line) = Len(one) + Len(rest) /\ Len(rest) \in Nat
      /\ \A i \in 1..(Len(one) + Len(rest)) :
           line[i] = IF i <= Len(one) THEN one[i] ELSE rest[i - Len(one)]
  <2>1. one \in Seq(S) /\ Len(rest) \in Nat
    BY <1>1
  <2> QED BY <2>1, ConcatProperties, ZenonT(30)
<1> HIDE DEF line
<1>3. line[1] = k /\ Len(line) = Len(rest) + 1 /\ line # <<>>
  BY <1>1, <1>2
<1>4. ASSUME NEW i \in 1..Len(rest) PROVE rest[i] = line[i + 1]
  <2>1. i + 1 \in 1..(1 + Len(rest)) /\ ~(i + 1 <= 1) /\ (i + 1) - 1 = i
    BY <1>2
  <2> QED BY <1>1, <1>2, <2>1
<1> QED BY <1>3, <1>4 DEF one, line

(* The first message of a line may be sent, and the rest follows it.       *)
LEMMA SpeakNext ==
  ASSUME NEW ch \in AllChannels, NEW x, NEW k \in ServerKinds[ch], NEW rest \in Seq(Tokens),
         InTurn(ch, x, <<k>> \o rest)
  PROVE  /\ \E t \in Moves[ch] : t[1] = x /\ t[2] = k
         /\ \A t \in Moves[ch] : t[1] = x /\ t[2] = k => InTurn(ch, t[3], rest)
<1> DEFINE line == <<k>> \o rest
<1>0. k \in Tokens
  BY DEF Tokens, Kinds
<1>1. /\ line # <<>> /\ line[1] = k /\ Len(line) = Len(rest) + 1 /\ Len(rest) \in Nat
      /\ \A i \in 1..Len(rest) : rest[i] = line[i + 1]
  BY <1>0, FirstWord
<1>2. InTurn(ch, x, line)
  OBVIOUS
<1> HIDE DEF line
<1>3. \A y : InTurn(ch, y, <<>>)
  BY DEF InTurn
<1>4. ASSUME NEW w, line = <<w>> PROVE k = w /\ rest = <<>>
  <2>1. Len(rest) = 0 /\ k = w
    BY <1>1, <1>4
  <2> QED BY <2>1
<1>5. CASE \E t \in Moves[ch] : t[1] = x /\ t[2] \in ServerKinds[ch] /\ line = <<t[2]>>
  BY <1>3, <1>4, <1>5
<1>6. CASE \E e \in RequestNames : line = <<e>> /\ line \in Asked(ch, x)
  BY <1>4, <1>6, KindsNotNames
<1>7. CASE line \in Batch(ch, x)
  <2>1. ch = "blockfetch"
    BY <1>7, BatchWords
  <2>2. CASE x = "Busy" /\ line = <<"StartBatch", "BatchDone">>
    <3>1. k = "StartBatch" /\ rest = <<"BatchDone">>
      <4>1. Len(rest) = 1 /\ k = "StartBatch" /\ rest[1] = line[2]
        BY <1>1, <2>2
      <4> QED BY <2>2, <4>1
    <3> QED BY <2>1, <2>2, <3>1, BatchMoves, BatchAnswers DEF InTurn
  <2>3. CASE x = "Busy" /\ line = <<"StartBatch", "Block">>
    <3>1. k = "StartBatch" /\ rest = <<"Block">>
      <4>1. Len(rest) = 1 /\ k = "StartBatch" /\ rest[1] = line[2]
        BY <1>1, <2>3
      <4> QED BY <2>3, <4>1
    <3> QED BY <2>1, <2>3, <3>1, BatchMoves, BatchAnswers DEF InTurn
  <2>4. CASE x = "Busy" /\ line = <<"StartBatch", "Block", "BatchDone">>
    <3>1. k = "StartBatch" /\ rest = <<"Block", "BatchDone">>
      <4>0. Len(line) = 3 /\ line[1] = "StartBatch"
        BY <2>4
      <4>1. Len(rest) = 2 /\ k = "StartBatch"
        <5>1. Len(line) = Len(rest) + 1 /\ Len(rest) \in Nat /\ line[1] = k
          BY <1>1
        <5>2. Len(rest) = 2
          <6>1. \A n \in Nat : n + 1 = 3 => n = 2
            OBVIOUS
          <6>2. Len(rest) \in Nat /\ Len(rest) + 1 = 3
            BY <4>0, <5>1, Zenon
          <6> QED BY <6>1, <6>2, Zenon
        <5>3. k = "StartBatch"
          BY <4>0, <5>1
        <5> QED BY <5>2, <5>3
      <4>2. rest[1] = line[2] /\ rest[2] = line[3]
        <5>1. 1 \in 1..Len(rest) /\ 2 \in 1..Len(rest) /\ 1 + 1 = 2 /\ 2 + 1 = 3
          BY <4>1
        <5> QED BY <1>1, <5>1
      <4>3. rest[1] = "Block" /\ rest[2] = "BatchDone"
        BY <2>4, <4>2
      <4> QED BY <4>1, <4>3
    <3>2. rest \in Batch("blockfetch", "StreamingNone")
      BY <3>1 DEF Batch
    <3> QED BY <2>1, <2>4, <3>1, <3>2, BatchMoves DEF InTurn
  <2>5. CASE x = "StreamingNone" /\ line = <<"Block", "BatchDone">>
    <3>1. k = "Block" /\ rest = <<"BatchDone">>
      <4>1. Len(rest) = 1 /\ k = "Block" /\ rest[1] = line[2]
        BY <1>1, <2>5
      <4> QED BY <2>5, <4>1
    <3> QED BY <2>1, <2>5, <3>1, BatchMoves, BatchAnswers DEF InTurn
  <2> QED BY <1>7, <2>2, <2>3, <2>4, <2>5, BatchWords
<1> QED BY <1>1, <1>2, <1>5, <1>6, <1>7, LineWords

(* The words of a line, one after the other.                               *)
LEMMA ConcatWords ==
  ASSUME NEW S, NEW u \in Seq(S), NEW v \in Seq(S)
  PROVE  /\ Len(u) \in Nat /\ Len(v) \in Nat /\ Len(u \o v) = Len(u) + Len(v)
         /\ \A i \in 1..Len(u) : (u \o v)[i] = u[i]
<1> DEFINE w == u \o v
<1>1. /\ Len(w) = Len(u) + Len(v) /\ Len(u) \in Nat /\ Len(v) \in Nat
      /\ \A i \in 1..(Len(u) + Len(v)) : w[i] = IF i <= Len(u) THEN u[i] ELSE v[i - Len(u)]
  BY ConcatProperties
<1> HIDE DEF w
<1>2. \A i \in 1..Len(u) : w[i] = u[i]
  BY <1>1
<1> QED BY <1>1, <1>2 DEF w

(* If the end of a line is cut off, what is left is in turn.               *)
LEMMA CutInTurn ==
  ASSUME NEW ch \in AllChannels, NEW x, NEW u \in Seq(Tokens), NEW v \in Seq(Tokens),
         InTurn(ch, x, u \o v)
  PROVE  InTurn(ch, x, u)
<1> DEFINE line == u \o v
<1>1. /\ Len(u) \in Nat /\ Len(v) \in Nat /\ Len(line) = Len(u) + Len(v)
      /\ \A i \in 1..Len(u) : line[i] = u[i]
  BY ConcatWords
<1>2. InTurn(ch, x, line) /\ (v = <<>> => line = u)
  OBVIOUS
<1> HIDE DEF line
<1>3. CASE u = <<>> \/ v = <<>>
  BY <1>2, <1>3 DEF InTurn
<1>4. CASE u # <<>> /\ v # <<>>
  <2>1. Len(u) >= 1 /\ Len(v) >= 1
    BY <1>1, <1>4
  <2>2. Len(line) >= 2
    BY <1>1, <2>1
  <2>3. line \in Batch(ch, x)
    <3>1. ASSUME NEW w, line = <<w>> PROVE FALSE
      <4>1. Len(<<w>>) = 1
        OBVIOUS
      <4> QED BY <2>2, <3>1, <4>1
    <3>2. line # <<>>
      BY <2>2
    <3> QED BY <1>2, <3>1, <3>2, LineWords
  <2>4. ch = "blockfetch"
    BY <2>3, BatchWords
  <2>5. ASSUME NEW a, NEW b, line = <<a, b>> PROVE u = <<a>>
    <3>1. Len(line) = 2 /\ line[1] = a
      BY <2>5
    <3>2. Len(u) = 1
      <4>1. \A m, n \in Nat : m + n = 2 /\ m >= 1 /\ n >= 1 => m = 1
        OBVIOUS
      <4>2. Len(u) + Len(v) = 2
        BY <1>1, <3>1, Zenon
      <4> QED BY <1>1, <2>1, <4>1, <4>2, Zenon
    <3>3. u[1] = a
      BY <1>1, <3>1, <3>2
    <3> QED BY <3>2, <3>3
  <2>6. ASSUME NEW a, NEW b, NEW d, line = <<a, b, d>> PROVE u = <<a>> \/ u = <<a, b>>
    <3>1. Len(line) = 3 /\ line[1] = a /\ line[2] = b
      BY <2>6
    <3>2. Len(u) = 1 \/ Len(u) = 2
      <4>1. \A m, n \in Nat : m + n = 3 /\ m >= 1 /\ n >= 1 => m = 1 \/ m = 2
        OBVIOUS
      <4>2. Len(u) + Len(v) = 3
        BY <1>1, <3>1, Zenon
      <4> QED BY <1>1, <2>1, <4>1, <4>2, Zenon
    <3>3. u[1] = a
      <4>1. 1 \in 1..Len(u)
        BY <3>2
      <4> QED BY <1>1, <3>1, <4>1
    <3>4. CASE Len(u) = 1
      BY <3>3, <3>4
    <3>5. CASE Len(u) = 2
      <4>1. u[2] = b
        <5>1. 2 \in 1..Len(u)
          BY <3>5
        <5> QED BY <1>1, <3>1, <5>1
      <4> QED BY <3>3, <3>5, <4>1
    <3> QED BY <3>2, <3>4, <3>5
  <2>7. CASE x = "Busy" /\ line = <<"StartBatch", "BatchDone">>
    BY <2>4, <2>5, <2>7, BatchAnswers DEF InTurn
  <2>8. CASE x = "Busy" /\ line = <<"StartBatch", "Block">>
    BY <2>4, <2>5, <2>8, BatchAnswers DEF InTurn
  <2>9. CASE x = "Busy" /\ line = <<"StartBatch", "Block", "BatchDone">>
    <3>1. u = <<"StartBatch">> \/ u = <<"StartBatch", "Block">>
      BY <2>6, <2>9
    <3>2. <<"StartBatch", "Block">> \in Batch("blockfetch", "Busy")
      BY DEF Batch
    <3> QED BY <2>4, <2>9, <3>1, <3>2, BatchAnswers DEF InTurn
  <2>10. CASE x = "StreamingNone" /\ line = <<"Block", "BatchDone">>
    BY <2>4, <2>5, <2>10, BatchAnswers DEF InTurn
  <2> QED BY <2>3, <2>7, <2>8, <2>9, <2>10, BatchWords
<1> QED BY <1>3, <1>4

(* A request in a line is alone in it.                                     *)
LEMMA RequestAlone ==
  ASSUME NEW ch \in AllChannels, NEW x, NEW u \in Seq(Tokens), NEW v \in Seq(Tokens),
         NEW e \in ShownNames(ch), InTurn(ch, x, u \o (<<e>> \o v))
  PROVE  u = <<>> /\ v = <<>> /\ <<e>> \in Asked(ch, x)
<1>0. e \in RequestNames /\ e \in Tokens
  BY DEF ShownNames, RequestNames, Tokens
<1> DEFINE w == <<e>> \o v
<1>1. w \in Seq(Tokens) /\ Len(w) = Len(v) + 1 /\ w[1] = e /\ Len(v) \in Nat
  <2> DEFINE one == <<e>>
  <2>1. one \in Seq(Tokens)
    BY <1>0
  <2>2. one \o v \in Seq(Tokens)
    <3> HIDE DEF one
    <3> QED BY <2>1
  <2>3. Len(w) = Len(v) + 1 /\ w[1] = e
    BY <1>0, FirstWord
  <2> QED BY <2>2, <2>3
<1>2. InTurn(ch, x, u \o w)
  OBVIOUS
<1> HIDE DEF w
<1> DEFINE line == u \o w
<1>3. /\ Len(line) = Len(u) + Len(w) /\ Len(u) \in Nat /\ Len(w) \in Nat
      /\ \A i \in 1..(Len(u) + Len(w)) : line[i] = IF i <= Len(u) THEN u[i] ELSE w[i - Len(u)]
  <2>1. Len(u) \in Nat /\ Len(w) \in Nat
    BY <1>1
  <2> QED BY <1>1, <2>1, ConcatProperties, ZenonT(30)
<1>4. InTurn(ch, x, line)
  BY <1>2
<1> HIDE DEF line
<1> DEFINE n == Len(u) + 1
<1>5. n \in 1..Len(line) /\ line[n] = e
  <2>1. n \in 1..(Len(u) + Len(w)) /\ ~(n <= Len(u)) /\ n - Len(u) = 1
    BY <1>1, <1>3
  <2> QED BY <1>1, <1>3, <2>1
<1>6. ASSUME NEW a, line = <<a>> PROVE u = <<>> /\ v = <<>> /\ a = e
  <2>1. Len(line) = 1 /\ line[1] = a
    BY <1>6
  <2>2. Len(u) = 0 /\ Len(v) = 0
    BY <1>1, <1>3, <2>1
  <2> QED BY <1>5, <2>1, <2>2
<1>7. CASE \E t \in Moves[ch] : t[1] = x /\ t[2] \in ServerKinds[ch] /\ line = <<t[2]>>
  BY <1>0, <1>6, <1>7, KindsNotNames
<1>8. CASE \E a \in RequestNames : line = <<a>> /\ line \in Asked(ch, x)
  BY <1>6, <1>8
<1>9. CASE line \in Batch(ch, x)
  <2>1. e \notin {"StartBatch", "Block", "BatchDone"}
    BY <1>0, BatchMoves, KindsNotNames DEF AllChannels
  <2>2. n \in {1, 2, 3} /\ line[n] \in {"StartBatch", "Block", "BatchDone"}
    <3>1. \/ line = <<"StartBatch", "BatchDone">>
          \/ line = <<"StartBatch", "Block">>
          \/ line = <<"StartBatch", "Block", "BatchDone">>
          \/ line = <<"Block", "BatchDone">>
      BY <1>9, BatchWords
    <3> HIDE DEF n
    <3>2. CASE line = <<"StartBatch", "BatchDone">>
      BY <1>5, <3>2
    <3>3. CASE line = <<"StartBatch", "Block">>
      BY <1>5, <3>3
    <3>4. CASE line = <<"StartBatch", "Block", "BatchDone">>
      BY <1>5, <3>4
    <3>5. CASE line = <<"Block", "BatchDone">>
      BY <1>5, <3>5
    <3> QED BY <3>1, <3>2, <3>3, <3>4, <3>5
  <2> QED BY <1>5, <2>1, <2>2
<1>10. line # <<>>
  BY <1>5
<1> QED BY <1>4, <1>7, <1>8, <1>9, <1>10, LineWords

-----------------------------------------------------------------------------
(* What is pushed to the queue of outputs.                                 *)

LEMMA OutEmpty ==
  OutputsOK(<<>>) /\ \A p, ch : OutLine(p, ch, <<>>) = <<>>
<1> DEFINE S == {}
<1>1. <<>> \in Seq(S) /\ \A o \in S : Speaks(o)
  OBVIOUS
<1> HIDE DEF S
<1>2. OutputsOK(<<>>)
  BY <1>1 DEF OutputsOK
<1>3. ASSUME NEW p, NEW ch PROVE OutLine(p, ch, <<>>) = <<>>
  <2>1. [i \in DOMAIN <<>> |-> OutToken(p, ch, <<>>[i])] = <<>>
    OBVIOUS
  <2> QED BY <2>1, FlattenEmpty DEF OutLine
<1> QED BY <1>2, <1>3

LEMMA TaskEmpty ==
  TasksOK(<<>>) /\ \A ch : TaskLine(ch, <<>>) = <<>>
<1> DEFINE S == {}
<1>1. <<>> \in Seq(S) /\ \A m \in S : Speech(m) \/ m = Shutdown
  OBVIOUS
<1> HIDE DEF S
<1>2. TasksOK(<<>>)
  BY <1>1 DEF TasksOK
<1>3. ASSUME NEW ch PROVE TaskLine(ch, <<>>) = <<>>
  <2>1. [i \in DOMAIN <<>> |-> TaskToken(ch, <<>>[i])] = <<>>
    OBVIOUS
  <2> QED BY <2>1, FlattenEmpty DEF TaskLine
<1> QED BY <1>2, <1>3

LEMMA OutOne ==
  ASSUME NEW o, Speaks(o), NEW p, NEW ch \in AllChannels
  PROVE  OutputsOK(<<o>>) /\ OutLine(p, ch, <<o>>) = OutToken(p, ch, o)
<1> DEFINE none == <<>>
<1>1. Append(none, o) = <<o>>
  OBVIOUS
<1>2. OutputsOK(none) /\ OutLine(p, ch, none) = <<>>
  BY OutEmpty
<1>3. /\ OutputsOK(Append(none, o))
      /\ OutLine(p, ch, Append(none, o)) = OutLine(p, ch, none) \o OutToken(p, ch, o)
  <2> HIDE DEF none
  <2> QED BY <1>2, OutAppend
<1>4. <<>> \o OutToken(p, ch, o) = OutToken(p, ch, o)
  <2>1. OutToken(p, ch, o) \in Seq(Tokens)
    BY TokenTypes
  <2>2. \A t \in Seq(Tokens) : <<>> \o t = t
    OBVIOUS
  <2> QED BY <2>1, <2>2, Zenon
<1> QED BY <1>1, <1>2, <1>3, <1>4

LEMMA AppendWords ==
  ASSUME NEW a, NEW b, NEW d
  PROVE  Append(<<a>>, b) = <<a, b>> /\ Append(<<a, b>>, d) = <<a, b, d>>
<1> DEFINE S == {a, b, d}
<1>1. a \in S /\ b \in S /\ d \in S
  OBVIOUS
<1> HIDE DEF S
<1>2. Append(<<a>>, b) = <<a, b>>
  <2> DEFINE s == <<a>>
  <2> DEFINE t == <<a, b>>
  <2>1. s \in Seq(S) /\ Len(s) = 1 /\ s[1] = a
    BY <1>1
  <2>2. t \in Seq(S) /\ Len(t) = 2 /\ t[1] = a /\ t[2] = b
    BY <1>1
  <2> HIDE DEF s, t
  <2>3. /\ Append(s, b) \in Seq(S) /\ Len(Append(s, b)) = 2
        /\ Append(s, b)[1] = a /\ Append(s, b)[2] = b
    <3>0. s \in Seq(S) /\ b \in S
      BY <1>1, <2>1
    <3>1. /\ Append(s, b) \in Seq(S) /\ Len(Append(s, b)) = Len(s) + 1
          /\ \A i \in 1..Len(s) : Append(s, b)[i] = s[i]
          /\ Append(s, b)[Len(s) + 1] = b
      BY <3>0, AppendProperties
    <3>2. 1 + 1 = 2 /\ 1 \in 1..1
      OBVIOUS
    <3> QED BY <2>1, <3>1, <3>2, Zenon
  <2>4. \A i \in 1..2 : Append(s, b)[i] = t[i]
    BY <2>2, <2>3
  <2>5. Append(s, b) = t
    BY <2>2, <2>3, <2>4, SeqEqual
  <2> QED BY <2>5 DEF s, t
<1>3. Append(<<a, b>>, d) = <<a, b, d>>
  <2> DEFINE s == <<a, b>>
  <2> DEFINE t == <<a, b, d>>
  <2>1. s \in Seq(S) /\ Len(s) = 2 /\ s[1] = a /\ s[2] = b
    BY <1>1
  <2>2. t \in Seq(S) /\ Len(t) = 3 /\ t[1] = a /\ t[2] = b /\ t[3] = d
    BY <1>1
  <2> HIDE DEF s, t
  <2>3. /\ Append(s, d) \in Seq(S) /\ Len(Append(s, d)) = 3
        /\ Append(s, d)[1] = a /\ Append(s, d)[2] = b /\ Append(s, d)[3] = d
    <3>0. s \in Seq(S) /\ d \in S
      BY <1>1, <2>1
    <3>1. /\ Append(s, d) \in Seq(S) /\ Len(Append(s, d)) = Len(s) + 1
          /\ \A i \in 1..Len(s) : Append(s, d)[i] = s[i]
          /\ Append(s, d)[Len(s) + 1] = d
      BY <3>0, AppendProperties
    <3>2. 2 + 1 = 3 /\ 1 \in 1..2 /\ 2 \in 1..2
      OBVIOUS
    <3> QED BY <2>1, <3>1, <3>2, Zenon
  <2>4. \A i \in 1..3 : Append(s, d)[i] = t[i]
    BY <2>2, <2>3
  <2>5. Append(s, d) = t
    BY <2>2, <2>3, <2>4, SeqEqual
  <2> QED BY <2>5 DEF s, t
<1> QED BY <1>2, <1>3

LEMMA JoinWords ==
  ASSUME NEW a, NEW b, NEW d
  PROVE  /\ <<a>> \o <<>> = <<a>> /\ <<a>> \o <<d>> = <<a, d>>
         /\ (<<a>> \o <<>>) \o <<d>> = <<a, d>>
         /\ (<<a>> \o <<b>>) \o <<d>> = <<a, b, d>>
<1> DEFINE S == {a, b, d}
<1>1. <<a>> \in Seq(S) /\ <<a, b>> \in Seq(S) /\ b \in S /\ d \in S
  OBVIOUS
<1> HIDE DEF S
<1>2. /\ <<a>> \o <<>> = <<a>> /\ <<a>> \o <<b>> = Append(<<a>>, b)
      /\ <<a>> \o <<d>> = Append(<<a>>, d) /\ <<a, b>> \o <<d>> = Append(<<a, b>>, d)
  <2> DEFINE one == <<a>>
  <2> DEFINE two == <<a, b>>
  <2>1. one \in Seq(S) /\ two \in Seq(S)
    BY <1>1
  <2> HIDE DEF one, two
  <2>2. one \o <<>> = one /\ one \o <<b>> = Append(one, b)
    BY <1>1, <2>1, ConcatEmptySeq, AppendIsConcat
  <2>3. one \o <<d>> = Append(one, d) /\ two \o <<d>> = Append(two, d)
    BY <1>1, <2>1, AppendIsConcat
  <2> QED BY <2>2, <2>3 DEF one, two
<1>3. /\ Append(<<a>>, b) = <<a, b>> /\ Append(<<a>>, d) = <<a, d>>
      /\ Append(<<a, b>>, d) = <<a, b, d>>
  BY AppendWords, Zenon
<1> QED BY <1>2, <1>3, Zenon

LEMMA OutTwo ==
  ASSUME NEW o, Speaks(o), NEW b, Speaks(b), NEW p, NEW ch \in AllChannels
  PROVE  /\ OutputsOK(<<o, b>>)
         /\ OutLine(p, ch, <<o, b>>) = OutToken(p, ch, o) \o OutToken(p, ch, b)
<1> DEFINE one == <<o>>
<1>1. Append(one, b) = <<o, b>>
  BY AppendWords
<1>2. OutputsOK(one) /\ OutLine(p, ch, one) = OutToken(p, ch, o)
  BY OutOne
<1> HIDE DEF one
<1>3. /\ OutputsOK(Append(one, b))
      /\ OutLine(p, ch, Append(one, b)) = OutLine(p, ch, one) \o OutToken(p, ch, b)
  BY <1>2, OutAppend
<1> QED BY <1>1, <1>2, <1>3

LEMMA OutThree ==
  ASSUME NEW o, Speaks(o), NEW b, Speaks(b), NEW d, Speaks(d), NEW p, NEW ch \in AllChannels
  PROVE  /\ OutputsOK(<<o, b, d>>)
         /\ OutLine(p, ch, <<o, b, d>>)
              = (OutToken(p, ch, o) \o OutToken(p, ch, b)) \o OutToken(p, ch, d)
<1> DEFINE two == <<o, b>>
<1>1. Append(two, d) = <<o, b, d>>
  BY AppendWords
<1>2. OutputsOK(two) /\ OutLine(p, ch, two) = OutToken(p, ch, o) \o OutToken(p, ch, b)
  BY OutTwo
<1> HIDE DEF two
<1>3. /\ OutputsOK(Append(two, d))
      /\ OutLine(p, ch, Append(two, d)) = OutLine(p, ch, two) \o OutToken(p, ch, d)
  BY <1>2, OutAppend
<1> QED BY <1>1, <1>2, <1>3

(* The token of each kind of output.                                       *)
LEMMA SendToken ==
  ASSUME NEW p, NEW m, NEW q, NEW ch \in AllChannels, Speech(m)
  PROVE  /\ Speaks(Send(p, m))
         /\ OutToken(q, ch, Send(p, m)) = IF q = p /\ m.ch = ch THEN <<m.kind>> ELSE <<>>
<1> DEFINE o == Send(p, m)
<1>1. o.do = "Send" /\ o.pid = p /\ o.msg = m
  BY DEF Send
<1>2. "Send" \notin ShownNames(ch)
  BY DEF ShownNames, Shown
<1> HIDE DEF o
<1>3. Speaks(o) /\ OutToken(q, ch, o) = IF q = p /\ m.ch = ch THEN <<m.kind>> ELSE <<>>
  BY <1>1, <1>2 DEF Speaks, OutToken
<1> QED BY <1>3 DEF o

LEMMA EventToken ==
  ASSUME NEW p, NEW name, NEW q, NEW ch \in AllChannels, name # "Send"
  PROVE  /\ Speaks(Event(p, name))
         /\ OutToken(q, ch, Event(p, name)) = IF q = p /\ name \in ShownNames(ch)
                                                THEN <<name>> ELSE <<>>
<1> DEFINE o == Event(p, name)
<1>1. o.do = name /\ o.pid = p
  BY DEF Event
<1> HIDE DEF o
<1>2. Speaks(o) /\ OutToken(q, ch, o) = IF q = p /\ name \in ShownNames(ch)
                                                THEN <<name>> ELSE <<>>
  BY <1>1 DEF Speaks, OutToken
<1> QED BY <1>2 DEF o

LEMMA QuietTokens ==
  ASSUME NEW p, NEW q, NEW ch \in AllChannels
  PROVE  /\ Speaks(Disconnect(p)) /\ OutToken(q, ch, Disconnect(p)) = <<>>
         /\ \A name \in {"PeerInitialized", "PeerDisconnected", "TxReceived"} :
              Speaks(Event(p, name)) /\ OutToken(q, ch, Event(p, name)) = <<>>
<1>1. \A name \in {"Disconnect", "PeerInitialized", "PeerDisconnected", "TxReceived"} :
        name # "Send" /\ name \notin ShownNames(ch)
  BY DEF ShownNames, Shown
<1>2. Disconnect(p) = Event(p, "Disconnect")
  BY DEF Disconnect, Event
<1> QED BY <1>1, <1>2, EventToken

-----------------------------------------------------------------------------
(* What happens to the turn of a channel.                                  *)

LEMMA TurnIdle ==
  ASSUME NEW ch, NEW x, NEW w
  PROVE  Turn(ch, x, <<>>, w, {})
BY DEF Turn, InTurn

(* The first message of the line is sent.                                  *)
LEMMA TurnSend ==
  ASSUME NEW ch \in AllChannels, NEW x, NEW k \in ServerKinds[ch], NEW rest \in Seq(Tokens),
         NEW w, NEW told, Turn(ch, x, <<k>> \o rest, w, told)
  PROVE  /\ \E t \in Moves[ch] : t[1] = x /\ t[2] = k
         /\ \A t \in Moves[ch] : t[1] = x /\ t[2] = k => Turn(ch, t[3], rest, w, told)
<1> DEFINE line == <<k>> \o rest
<1>1. line # <<>>
  <2>1. k \in Tokens
    BY DEF Tokens, Kinds
  <2> QED BY <2>1, FirstWord
<1>2. InTurn(ch, x, line) /\ (w => told = {})
  <2> HIDE DEF line
  <2>1. Turn(ch, x, line, w, told)
    BY DEF line
  <2> QED BY <1>1, <2>1 DEF Turn
<1>3. /\ \E t \in Moves[ch] : t[1] = x /\ t[2] = k
      /\ \A t \in Moves[ch] : t[1] = x /\ t[2] = k => InTurn(ch, t[3], rest)
  BY <1>2, SpeakNext
<1> QED BY <1>2, <1>3 DEF Turn

(* The application is told of the request in the line.                     *)
LEMMA TurnTell ==
  ASSUME NEW ch \in AllChannels, NEW x, NEW u \in Seq(Tokens), NEW v \in Seq(Tokens),
         NEW o, o.do \in ShownNames(ch), NEW told,
         Turn(ch, x, u \o (<<o.do>> \o v), TRUE, told)
  PROVE  told = {} /\ u = <<>> /\ v = <<>> /\ Turn(ch, x, <<>>, TRUE, {o})
<1> DEFINE e == o.do
<1> DEFINE w == <<e>> \o v
<1> DEFINE line == u \o w
<1>1. e \in ShownNames(ch) /\ e \in Tokens
  BY DEF ShownNames, RequestNames, Tokens
<1> HIDE DEF e
<1>2. InTurn(ch, x, line)
  <2>1. Turn(ch, x, line, TRUE, told)
    BY DEF e
  <2> HIDE DEF line
  <2> QED BY <2>1 DEF Turn
<1>3. u = <<>> /\ v = <<>> /\ <<e>> \in Asked(ch, x)
  BY <1>1, <1>2, RequestAlone
<1>4. w \in Seq(Tokens) /\ w # <<>>
  <2> DEFINE one == <<e>>
  <2>1. one \in Seq(Tokens)
    BY <1>1
  <2>2. one \o v \in Seq(Tokens)
    <3> HIDE DEF one
    <3> QED BY <2>1
  <2>3. w # <<>>
    BY <1>1, FirstWord
  <2> QED BY <2>2, <2>3
<1>5. line # <<>>
  <2> HIDE DEF w
  <2>1. <<>> \o w = w
    BY <1>4
  <2> QED BY <1>3, <1>4, <2>1
<1>6. told = {}
  <2>1. Turn(ch, x, line, TRUE, told)
    BY DEF e
  <2> HIDE DEF line
  <2> QED BY <1>5, <2>1 DEF Turn
<1>7. Turn(ch, x, <<>>, TRUE, {o})
  BY <1>3 DEF Turn, InTurn, e
<1> QED BY <1>3, <1>6, <1>7

(* The outputs of the peer are no longer for this connection.              *)
LEMMA TurnCut ==
  ASSUME NEW ch \in AllChannels, NEW x, NEW u \in Seq(Tokens), NEW v \in Seq(Tokens),
         NEW w, NEW told, Turn(ch, x, u \o v, w, told)
  PROVE  Turn(ch, x, u, FALSE, told)
<1>1. InTurn(ch, x, u \o v)
  BY DEF Turn
<1>2. InTurn(ch, x, u)
  BY <1>1, CutInTurn
<1> QED BY <1>2 DEF Turn

(* The client speaks, and may be answered at once.                         *)
LEMMA TurnRecv ==
  ASSUME NEW ch \in AllChannels, NEW x, NEW line, NEW w, NEW told, Turn(ch, x, line, w, told),
         NEW t \in Moves[ch], t[1] = x, t[2] \in ClientKinds[ch]
  PROVE  line = <<>> /\ \A y, a : InTurn(ch, y, a) => Turn(ch, y, a, w, told)
<1>1. InTurn(ch, x, line)
  BY DEF Turn
<1>2. line = <<>> /\ Asked(ch, x) = {}
  BY <1>1, ClientSilence
<1>3. w => told = {}
  BY <1>2 DEF Turn
<1>4. ASSUME NEW y, NEW a, InTurn(ch, y, a) PROVE Turn(ch, y, a, w, told)
  BY <1>3, <1>4 DEF Turn
<1> QED BY <1>2, <1>4, Zenon

LEMMA TurnAtStart ==
  ASSUME NEW ch \in AllChannels, NEW line, NEW w, NEW told, Turn(ch, StartAt[ch], line, w, told)
  PROVE  line = <<>>
<1>1. InTurn(ch, StartAt[ch], line)
  BY DEF Turn
<1>2. line = <<>> /\ Asked(ch, StartAt[ch]) = {}
  BY <1>1, StartSilence, Zenon
<1> QED BY <1>2

-----------------------------------------------------------------------------
(* The answers of the application.                                         *)

(* The state in which each request is made, by its name.                   *)
LEMMA AskedStates ==
  ASSUME NEW ch, NEW x, NEW e, <<e>> \in Asked(ch, x)
  PROVE  \/ ch = "chainsync" /\ x = "Intersect" /\ e = "IntersectionRequested"
         \/ ch = "chainsync" /\ x \in {"CanAwait", "MustReply"} /\ e = "NextHeaderRequested"
         \/ ch = "blockfetch" /\ x = "Busy" /\ e = "BlockRangeRequested"
         \/ ch = "peersharing" /\ x = "Busy" /\ e = "PeersRequested"
         \/ ch = "leiosnotify" /\ x = "Busy" /\ e = "EbNotificationRequested"
         \/ ch = "leiosfetch" /\ x = "AwaitingBlock" /\ e = "EbRequested"
         \/ ch = "leiosfetch" /\ x = "AwaitingBlockTxs" /\ e = "EbTxsRequested"
<1>1. ch \in DOMAIN Shown /\ x \in DOMAIN Shown[ch] /\ e = Shown[ch][x]
  BY AskedNames
<1> QED BY <1>1 DEF Shown

(* An answer is one message of a channel, or a batch.                      *)
Single(e, ch, kinds) == \A msgs \in Answers[e] : \E k \in kinds : msgs = <<Msg(ch, k, None)>>
Block(k) == Msg("blockfetch", k, None)

LEMMA AnswerForms ==
  /\ Single("IntersectionRequested", "chainsync", {"IntersectFound"})
  /\ Single("NextHeaderRequested", "chainsync", {"RollForward", "RollBackward"})
  /\ Single("PeersRequested", "peersharing", {"SharePeers"})
  /\ Single("EbNotificationRequested", "leiosnotify",
            {"BlockAnnouncement", "BlockOffer", "BlockTxsOffer", "Votes"})
  /\ Single("EbRequested", "leiosfetch", {"Block"})
  /\ Single("EbTxsRequested", "leiosfetch", {"BlockTxs"})
BY DEF Single, Answers, Only

LEMMA BatchForms ==
  ASSUME NEW msgs \in Answers["BlockRangeRequested"]
  PROVE  \/ msgs = <<Block("StartBatch"), Block("BatchDone")>>
         \/ msgs = <<Block("StartBatch"), Block("Block"), Block("BatchDone")>>
<1> DEFINE a == Block("StartBatch")
<1> DEFINE b == Block("Block")
<1> DEFINE d == Block("BatchDone")
<1>1. \/ msgs = (<<a>> \o <<>>) \o <<d>>
      \/ msgs = (<<a>> \o <<b>>) \o <<d>>
  BY DEF Answers, Block
<1> HIDE DEF a, b, d
<1> QED BY <1>1, JoinWords, Zenon DEF a, b, d

(* The outputs q say `line` to peer p on channel ch, and nothing else.     *)
Says(q, p, ch, line) ==
  /\ OutputsOK(q)
  /\ \A r : \A c \in AllChannels : OutLine(r, c, q) = IF r = p /\ c = ch THEN line ELSE <<>>

LEMMA SaysNothing ==
  ASSUME NEW p, NEW ch
  PROVE  Says(<<>>, p, ch, <<>>)
BY OutEmpty DEF Says

LEMMA SpeechOf ==
  ASSUME NEW ch \in AllChannels, NEW k \in ServerKinds[ch], NEW arg
  PROVE  LET m == Msg(ch, k, arg) IN Speech(m) /\ m.ch = ch /\ m.kind = k
BY DEF Msg, Speech

LEMMA SaysOne ==
  ASSUME NEW p, NEW ch \in AllChannels, NEW k \in ServerKinds[ch], NEW arg
  PROVE  Says(<<Send(p, Msg(ch, k, arg))>>, p, ch, <<k>>)
<1> DEFINE m == Msg(ch, k, arg)
<1> DEFINE o == Send(p, m)
<1>1. Speech(m) /\ m.ch = ch /\ m.kind = k
  BY SpeechOf
<1> HIDE DEF m
<1>2. Speaks(o)
  BY <1>1, SendToken
<1>3. ASSUME NEW r, NEW c \in AllChannels
      PROVE  OutToken(r, c, o) = IF r = p /\ c = ch THEN <<k>> ELSE <<>>
  BY <1>1, SendToken
<1> HIDE DEF o
<1>4. OutputsOK(<<o>>)
  BY <1>2, OutOne
<1>5. ASSUME NEW r, NEW c \in AllChannels
      PROVE  OutLine(r, c, <<o>>) = IF r = p /\ c = ch THEN <<k>> ELSE <<>>
  <2>1. OutLine(r, c, <<o>>) = OutToken(r, c, o)
    BY <1>2, OutOne
  <2> QED BY <1>3, <2>1
<1>6. Says(<<o>>, p, ch, <<k>>)
  BY <1>4, <1>5 DEF Says
<1> QED BY <1>6 DEF o, m

LEMMA SaysEvent ==
  ASSUME NEW p, NEW ch \in AllChannels, NEW e \in ShownNames(ch),
         \A c \in AllChannels : e \in ShownNames(c) => c = ch
  PROVE  Says(<<Event(p, e)>>, p, ch, <<e>>)
<1> DEFINE o == Event(p, e)
<1>1. e # "Send"
  BY DEF ShownNames, Shown
<1>2. Speaks(o)
  BY <1>1, EventToken
<1>3. ASSUME NEW r, NEW c \in AllChannels
      PROVE  OutToken(r, c, o) = IF r = p /\ c = ch THEN <<e>> ELSE <<>>
  BY <1>1, EventToken
<1> HIDE DEF o
<1>4. OutputsOK(<<o>>)
  BY <1>2, OutOne
<1>5. ASSUME NEW r, NEW c \in AllChannels
      PROVE  OutLine(r, c, <<o>>) = IF r = p /\ c = ch THEN <<e>> ELSE <<>>
  <2>1. OutLine(r, c, <<o>>) = OutToken(r, c, o)
    BY <1>2, OutOne
  <2> QED BY <1>3, <2>1
<1>6. Says(<<o>>, p, ch, <<e>>)
  BY <1>4, <1>5 DEF Says
<1> QED BY <1>6 DEF o

(* The names of requests belong to one channel each.                       *)
LEMMA NamesApart ==
  ASSUME NEW ch \in AllChannels, NEW e \in ShownNames(ch), NEW c \in AllChannels,
         e \in ShownNames(c)
  PROVE  c = ch
BY DEF ShownNames, Shown, AllChannels

(* One batch.                                                              *)
LEMMA SaysBatch ==
  ASSUME NEW p
  PROVE  LET a == Send(p, Block("StartBatch"))
             b == Send(p, Block("Block"))
             d == Send(p, Block("BatchDone"))
         IN  /\ Says(<<a, d>>, p, "blockfetch", <<"StartBatch", "BatchDone">>)
             /\ Says(<<a, b, d>>, p, "blockfetch", <<"StartBatch", "Block", "BatchDone">>)
<1> DEFINE o(k) == Send(p, Block(k))
<1> DEFINE K == {"StartBatch", "Block", "BatchDone"}
<1>0. "blockfetch" \in AllChannels /\ \A k \in K : k \in ServerKinds["blockfetch"]
  BY BatchMoves DEF AllChannels
<1>1. ASSUME NEW k \in K
      PROVE  /\ Speaks(o(k))
             /\ \A r : \A c \in AllChannels :
                  OutToken(r, c, o(k)) = IF r = p /\ c = "blockfetch" THEN <<k>> ELSE <<>>
  <2> DEFINE m == Msg("blockfetch", k, None)
  <2>1. Speech(m) /\ m.ch = "blockfetch" /\ m.kind = k
    BY <1>0, SpeechOf
  <2> HIDE DEF m
  <2>2. Speaks(Send(p, m))
    BY <1>0, <2>1, SendToken
  <2>3. ASSUME NEW r, NEW c \in AllChannels
        PROVE  OutToken(r, c, Send(p, m)) = IF r = p /\ c = "blockfetch" THEN <<k>> ELSE <<>>
    BY <2>1, SendToken
  <2> QED BY <2>2, <2>3 DEF m, Block
<1> DEFINE a == o("StartBatch")
<1> DEFINE b == o("Block")
<1> DEFINE d == o("BatchDone")
<1>2. /\ Speaks(a) /\ Speaks(b) /\ Speaks(d)
      /\ \A r : \A c \in AllChannels :
           /\ OutToken(r, c, a) = IF r = p /\ c = "blockfetch" THEN <<"StartBatch">> ELSE <<>>
           /\ OutToken(r, c, b) = IF r = p /\ c = "blockfetch" THEN <<"Block">> ELSE <<>>
           /\ OutToken(r, c, d) = IF r = p /\ c = "blockfetch" THEN <<"BatchDone">> ELSE <<>>
  <2> HIDE DEF o
  <2> QED BY <1>1
<1> HIDE DEF a, b, d
<1>3. OutputsOK(<<a, d>>) /\ OutputsOK(<<a, b, d>>)
  BY <1>0, <1>2, OutTwo, OutThree
<1>4. ASSUME NEW r, NEW c \in AllChannels
      PROVE  /\ OutLine(r, c, <<a, d>>) = OutToken(r, c, a) \o OutToken(r, c, d)
             /\ OutLine(r, c, <<a, b, d>>)
                  = (OutToken(r, c, a) \o OutToken(r, c, b)) \o OutToken(r, c, d)
  <2>0. Speaks(a) /\ Speaks(b) /\ Speaks(d)
    BY <1>2
  <2>1. OutLine(r, c, <<a, d>>) = OutToken(r, c, a) \o OutToken(r, c, d)
    BY <2>0, OutTwo
  <2>2. OutLine(r, c, <<a, b, d>>)
          = (OutToken(r, c, a) \o OutToken(r, c, b)) \o OutToken(r, c, d)
    <3> DEFINE two == <<a, b>>
    <3>1. Append(two, d) = <<a, b, d>>
      BY AppendWords
    <3>2. OutputsOK(two) /\ OutLine(r, c, two) = OutToken(r, c, a) \o OutToken(r, c, b)
      BY <2>0, OutTwo
    <3> HIDE DEF two
    <3>3. OutLine(r, c, Append(two, d)) = OutLine(r, c, two) \o OutToken(r, c, d)
      BY <2>0, <3>2, OutAppend
    <3> QED BY <3>1, <3>2, <3>3
  <2> QED BY <2>1, <2>2
<1>5. /\ <<"StartBatch">> \o <<"BatchDone">> = <<"StartBatch", "BatchDone">>
      /\ (<<"StartBatch">> \o <<"Block">>) \o <<"BatchDone">> = <<"StartBatch", "Block", "BatchDone">>
      /\ <<>> \o <<>> = <<>>
  <2>1. <<>> \o <<>> = <<>>
    OBVIOUS
  <2> QED BY <2>1, JoinWords, Zenon
<1>6. ASSUME NEW r, NEW c \in AllChannels
      PROVE  /\ OutLine(r, c, <<a, d>>) =
                  IF r = p /\ c = "blockfetch" THEN <<"StartBatch", "BatchDone">> ELSE <<>>
             /\ OutLine(r, c, <<a, b, d>>) =
                  IF r = p /\ c = "blockfetch" THEN <<"StartBatch", "Block", "BatchDone">> ELSE <<>>
  <2>1. CASE r = p /\ c = "blockfetch"
    BY <1>2, <1>4, <1>5, <2>1
  <2>2. CASE ~(r = p /\ c = "blockfetch")
    BY <1>2, <1>4, <1>5, <2>2
  <2> QED BY <2>1, <2>2
<1>7. Says(<<a, d>>, p, "blockfetch", <<"StartBatch", "BatchDone">>)
  BY <1>3, <1>6 DEF Says
<1>8. Says(<<a, b, d>>, p, "blockfetch", <<"StartBatch", "Block", "BatchDone">>)
  BY <1>3, <1>6 DEF Says
<1> QED BY <1>7, <1>8 DEF a, b, d

Sends(p, msgs) == [i \in DOMAIN msgs |-> Send(p, msgs[i])]

(* An answer speaks on the channel of the request, in its turn.            *)
Answering(e, p, msgs) ==
  \E ch \in AllChannels : \E line :
    /\ e \in ShownNames(ch) /\ Says(Sends(p, msgs), p, ch, line)
    /\ \A x : <<e>> \in Asked(ch, x) => InTurn(ch, x, line)

LEMMA SingleAnswer ==
  ASSUME NEW ch \in AllChannels, NEW e \in ShownNames(ch), NEW k \in ServerKinds[ch],
         \A x : <<e>> \in Asked(ch, x) => <<k>> \in Answered(ch, x),
         NEW msgs, msgs = <<Msg(ch, k, None)>>, NEW p
  PROVE  Answering(e, p, msgs)
<1> DEFINE m == Msg(ch, k, None)
<1>1. Says(<<Send(p, m)>>, p, ch, <<k>>)
  BY SaysOne
<1>2. Sends(p, <<m>>) = <<Send(p, m)>>
  <2> HIDE DEF m
  <2> QED BY DEF Sends
<1>3. \A x : <<e>> \in Asked(ch, x) => InTurn(ch, x, <<k>>)
  BY DEF InTurn
<1> QED BY <1>1, <1>2, <1>3 DEF Answering

LEMMA BatchAnswer ==
  ASSUME NEW msgs \in Answers["BlockRangeRequested"], NEW p
  PROVE  Answering("BlockRangeRequested", p, msgs)
<1> DEFINE a == Block("StartBatch")
<1> DEFINE b == Block("Block")
<1> DEFINE d == Block("BatchDone")
<1>1. /\ Says(<<Send(p, a), Send(p, d)>>, p, "blockfetch", <<"StartBatch", "BatchDone">>)
      /\ Says(<<Send(p, a), Send(p, b), Send(p, d)>>, p, "blockfetch",
              <<"StartBatch", "Block", "BatchDone">>)
  BY SaysBatch
<1>2. msgs = <<a, d>> \/ msgs = <<a, b, d>>
  BY BatchForms
<1>3. "blockfetch" \in AllChannels /\ "BlockRangeRequested" \in ShownNames("blockfetch")
  BY DEF AllChannels, ShownNames, Shown
<1>4. \A x : <<"BlockRangeRequested">> \in Asked("blockfetch", x) =>
         /\ InTurn("blockfetch", x, <<"StartBatch", "BatchDone">>)
         /\ InTurn("blockfetch", x, <<"StartBatch", "Block", "BatchDone">>)
  <2> SUFFICES ASSUME NEW x, <<"BlockRangeRequested">> \in Asked("blockfetch", x)
               PROVE  /\ InTurn("blockfetch", x, <<"StartBatch", "BatchDone">>)
                      /\ InTurn("blockfetch", x, <<"StartBatch", "Block", "BatchDone">>)
    OBVIOUS
  <2>1. x = "Busy"
    BY AskedStates
  <2>2. /\ <<"StartBatch", "BatchDone">> \in Batch("blockfetch", "Busy")
        /\ <<"StartBatch", "Block", "BatchDone">> \in Batch("blockfetch", "Busy")
    BY DEF Batch
  <2> QED BY <2>1, <2>2 DEF InTurn
<1> HIDE DEF a, b, d
<1>5. CASE msgs = <<a, d>>
  <2>1. Sends(p, msgs) = <<Send(p, a), Send(p, d)>>
    BY <1>5 DEF Sends
  <2> QED BY <1>1, <1>3, <1>4, <2>1 DEF Answering
<1>6. CASE msgs = <<a, b, d>>
  <2>1. Sends(p, msgs) = <<Send(p, a), Send(p, b), Send(p, d)>>
    BY <1>6 DEF Sends
  <2> QED BY <1>1, <1>3, <1>4, <2>1 DEF Answering
<1> QED BY <1>2, <1>5, <1>6

LEMMA AnswersAnswer ==
  ASSUME NEW e \in RequestNames, NEW msgs \in Answers[e], NEW p
  PROVE  Answering(e, p, msgs)
<1>0. e \in {"IntersectionRequested", "NextHeaderRequested", "BlockRangeRequested",
             "PeersRequested", "EbNotificationRequested", "EbRequested", "EbTxsRequested"}
  BY DEF RequestNames, Shown
<1>1. CASE e = "IntersectionRequested"
  <2>1. msgs = <<Msg("chainsync", "IntersectFound", None)>>
    BY <1>1, AnswerForms DEF Single
  <2>2. "chainsync" \in AllChannels /\ e \in ShownNames("chainsync")
        /\ "IntersectFound" \in ServerKinds["chainsync"]
    BY <1>1 DEF AllChannels, ShownNames, Shown, ServerKinds
  <2>3. <<"Intersect", "IntersectFound", "IdleIntersection">> \in Moves["chainsync"]
    BY DEF Moves, ChainSyncMoves, From
  <2>4. \A x : <<e>> \in Asked("chainsync", x) => <<"IntersectFound">> \in Answered("chainsync", x)
    BY <1>1, <2>2, <2>3, AskedStates, AnsweredBy
  <2> QED BY <2>1, <2>2, <2>4, SingleAnswer
<1>2. CASE e = "NextHeaderRequested"
  <2>1. PICK k \in {"RollForward", "RollBackward"} : msgs = <<Msg("chainsync", k, None)>>
    BY <1>2, AnswerForms DEF Single
  <2>2. "chainsync" \in AllChannels /\ e \in ShownNames("chainsync")
        /\ k \in ServerKinds["chainsync"]
    BY <1>2 DEF AllChannels, ShownNames, Shown, ServerKinds
  <2>3. \A x \in {"CanAwait", "MustReply"} : \E y : <<x, k, y>> \in Moves["chainsync"]
    <3>1. \A x \in {"CanAwait", "MustReply"} :
            /\ <<x, "RollForward", "IdleContent">> \in Moves["chainsync"]
            /\ <<x, "RollBackward", "IdleRollback">> \in Moves["chainsync"]
      BY DEF Moves, ChainSyncMoves, From
    <3> QED BY <3>1
  <2>4. \A x : <<e>> \in Asked("chainsync", x) => <<k>> \in Answered("chainsync", x)
    <3> SUFFICES ASSUME NEW x, <<e>> \in Asked("chainsync", x)
                 PROVE  <<k>> \in Answered("chainsync", x)
      OBVIOUS
    <3>1. x \in {"CanAwait", "MustReply"}
      BY <1>2, AskedStates
    <3>2. PICK y : <<x, k, y>> \in Moves["chainsync"]
      BY <2>3, <3>1
    <3> QED BY <2>2, <3>2, AnsweredBy
  <2> QED BY <2>1, <2>2, <2>4, SingleAnswer
<1>3. CASE e = "PeersRequested"
  <2>1. msgs = <<Msg("peersharing", "SharePeers", None)>>
    BY <1>3, AnswerForms DEF Single
  <2>2. "peersharing" \in AllChannels /\ e \in ShownNames("peersharing")
        /\ "SharePeers" \in ServerKinds["peersharing"]
    BY <1>3 DEF AllChannels, ShownNames, Shown, ServerKinds
  <2>3. <<"Busy", "SharePeers", "IdleResponse">> \in Moves["peersharing"]
    BY DEF Moves, PeerSharingMoves, From
  <2>4. \A x : <<e>> \in Asked("peersharing", x) => <<"SharePeers">> \in Answered("peersharing", x)
    BY <1>3, <2>2, <2>3, AskedStates, AnsweredBy
  <2> QED BY <2>1, <2>2, <2>4, SingleAnswer
<1>4. CASE e = "EbNotificationRequested"
  <2> DEFINE K == {"BlockAnnouncement", "BlockOffer", "BlockTxsOffer", "Votes"}
  <2>1. PICK k \in K : msgs = <<Msg("leiosnotify", k, None)>>
    BY <1>4, AnswerForms DEF Single
  <2>2. "leiosnotify" \in AllChannels /\ e \in ShownNames("leiosnotify")
        /\ k \in ServerKinds["leiosnotify"]
    BY <1>4 DEF AllChannels, ShownNames, Shown, ServerKinds
  <2>3. <<"Busy", k, "IdleSome">> \in Moves["leiosnotify"]
    BY DEF Moves, LeiosNotifyMoves, From
  <2>4. \A x : <<e>> \in Asked("leiosnotify", x) => <<k>> \in Answered("leiosnotify", x)
    <3> HIDE DEF K
    <3> QED BY <1>4, <2>2, <2>3, AskedStates, AnsweredBy
  <2> QED BY <2>1, <2>2, <2>4, SingleAnswer
<1>5. CASE e = "EbRequested"
  <2>1. msgs = <<Msg("leiosfetch", "Block", None)>>
    BY <1>5, AnswerForms DEF Single
  <2>2. "leiosfetch" \in AllChannels /\ e \in ShownNames("leiosfetch")
        /\ "Block" \in ServerKinds["leiosfetch"]
    BY <1>5 DEF AllChannels, ShownNames, Shown, ServerKinds
  <2>3. <<"AwaitingBlock", "Block", "IdleSome">> \in Moves["leiosfetch"]
    BY DEF Moves, LeiosFetchMoves, From
  <2>4. \A x : <<e>> \in Asked("leiosfetch", x) => <<"Block">> \in Answered("leiosfetch", x)
    BY <1>5, <2>2, <2>3, AskedStates, AnsweredBy
  <2> QED BY <2>1, <2>2, <2>4, SingleAnswer
<1>6. CASE e = "EbTxsRequested"
  <2>1. msgs = <<Msg("leiosfetch", "BlockTxs", None)>>
    BY <1>6, AnswerForms DEF Single
  <2>2. "leiosfetch" \in AllChannels /\ e \in ShownNames("leiosfetch")
        /\ "BlockTxs" \in ServerKinds["leiosfetch"]
    BY <1>6 DEF AllChannels, ShownNames, Shown, ServerKinds
  <2>3. <<"AwaitingBlockTxs", "BlockTxs", "IdleSome">> \in Moves["leiosfetch"]
    BY DEF Moves, LeiosFetchMoves, From
  <2>4. \A x : <<e>> \in Asked("leiosfetch", x) => <<"BlockTxs">> \in Answered("leiosfetch", x)
    BY <1>6, <2>2, <2>3, AskedStates, AnsweredBy
  <2> QED BY <2>1, <2>2, <2>4, SingleAnswer
<1>7. CASE e = "BlockRangeRequested"
  BY <1>7, BatchAnswer
<1> QED BY <1>0, <1>1, <1>2, <1>3, <1>4, <1>5, <1>6, <1>7

-----------------------------------------------------------------------------
(* The reaction of the responder to a message of the client.               *)

Reacting(r, s, p, ch) ==
  \E line :
    /\ Says(r.out, p, ch, line) /\ InTurn(ch, At(s, ch), line)
    /\ ch = "txsubmission" => line = <<>>
    /\ r.s.proto = s.proto /\ r.s.violation = s.violation /\ r.s.unsent = s.unsent

LEMMA ReactsWith ==
  ASSUME NEW s, NEW p, NEW ch, NEW out, NEW line, Says(out, p, ch, line),
         InTurn(ch, At(s, ch), line), ch = "txsubmission" => line = <<>>
  PROVE  Reacting(Reaction(s, out), s, p, ch)
BY DEF Reacting, Reaction

LEMMA ReactsNot ==
  ASSUME NEW s, NEW p, NEW ch
  PROVE  Reacting(Reaction(s, <<>>), s, p, ch)
<1>1. Says(<<>>, p, ch, <<>>)
  BY SaysNothing
<1>2. InTurn(ch, At(s, ch), <<>>)
  BY DEF InTurn
<1> QED BY <1>1, <1>2, ReactsWith

LEMMA ReactsSend ==
  ASSUME NEW s, NEW p, NEW ch \in AllChannels, ch # "txsubmission", NEW x, At(s, ch) = x,
         NEW k \in ServerKinds[ch], NEW y, <<x, k, y>> \in Moves[ch], NEW arg
  PROVE  Reacting(Reaction(s, <<Send(p, Msg(ch, k, arg))>>), s, p, ch)
<1>1. Says(<<Send(p, Msg(ch, k, arg))>>, p, ch, <<k>>)
  BY SaysOne
<1>2. InTurn(ch, At(s, ch), <<k>>)
  BY AnsweredBy DEF InTurn
<1> QED BY <1>1, <1>2, ReactsWith

LEMMA ChecksRequests ==
  ASSUME NEW s, NEW p, NEW ch \in AllChannels, ch \in DOMAIN Shown
  PROVE  Reacting(Reaction(s, check_requests(s, p, ch)), s, p, ch)
<1> DEFINE x == At(s, ch)
<1>1. CASE is_initialized(s) /\ x \in DOMAIN Shown[ch]
  <2> DEFINE e == Shown[ch][x]
  <2>1. check_requests(s, p, ch) = <<Event(p, e)>>
    BY <1>1 DEF check_requests
  <2>2. <<e>> \in Asked(ch, x)
    BY <1>1 DEF Asked
  <2>3. e \in ShownNames(ch) /\ \A c \in AllChannels : e \in ShownNames(c) => c = ch
    <3>1. e \in ShownNames(ch)
      BY <1>1 DEF ShownNames
    <3> HIDE DEF e
    <3> QED BY <3>1, NamesApart
  <2>4. ch # "txsubmission"
    BY DEF Shown
  <2> HIDE DEF e
  <2>5. Says(<<Event(p, e)>>, p, ch, <<e>>)
    BY <2>3, SaysEvent
  <2>6. InTurn(ch, At(s, ch), <<e>>)
    BY <2>2 DEF InTurn
  <2> QED BY <2>1, <2>4, <2>5, <2>6, ReactsWith
<1>2. CASE ~(is_initialized(s) /\ x \in DOMAIN Shown[ch])
  <2>1. check_requests(s, p, ch) = <<>>
    BY <1>2 DEF check_requests
  <2> QED BY <2>1, ReactsNot
<1> QED BY <1>1, <1>2

LEMMA HandshakeReacts ==
  ASSUME NEW s, StateOK(s), NEW p
  PROVE  Reacting(try_accept_handshake(s, p), s, p, "handshake")
<1> DEFINE proposal == s.proto["handshake"].arg
<1> DEFINE high == Highest(Common(proposal))
<1> DEFINE t == [s EXCEPT !.connection = "Initialized"]
<1> DEFINE a == Send(p, Msg("handshake", "Accept", high))
<1> DEFINE b == Event(p, "PeerInitialized")
<1>0. /\ "handshake" \in AllChannels /\ "handshake" # "txsubmission"
      /\ \A k \in {"Accept", "Refuse"} : k \in ServerKinds["handshake"]
      /\ <<"Confirm", "Accept", "Accepted">> \in Moves["handshake"]
      /\ <<"Confirm", "Refuse", "Rejected">> \in Moves["handshake"]
  BY DEF AllChannels, ServerKinds, Moves, HandshakeMoves, From
<1>1. CASE At(s, "handshake") # "Confirm"
  BY <1>1, ReactsNot DEF try_accept_handshake
<1>2. CASE At(s, "handshake") = "Confirm" /\ ~Acceptable(proposal)
  <2>1. PICK arg : Refusal(proposal) = Msg("handshake", "Refuse", arg)
    BY DEF Refusal
  <2>2. try_accept_handshake(s, p) = Reaction(s, <<Send(p, Msg("handshake", "Refuse", arg))>>)
    BY <1>2, <2>1 DEF try_accept_handshake
  <2> QED BY <1>0, <1>2, <2>2, ReactsSend
<1>3. CASE At(s, "handshake") = "Confirm" /\ Acceptable(proposal)
  <2>1. try_accept_handshake(s, p) = Reaction(t, <<a, b>>)
    BY <1>3 DEF try_accept_handshake
  <2>2. t.proto = s.proto /\ t.violation = s.violation /\ t.unsent = s.unsent
    BY DEF StateOK
  <2>3. Says(<<a>>, p, "handshake", <<"Accept">>)
    BY <1>0, SaysOne
  <2>4. Speaks(a)
    <3>1. Speech(Msg("handshake", "Accept", high))
      BY <1>0, SpeechOf
    <3> QED BY <1>0, <3>1, SendToken
  <2>5. Speaks(b) /\ \A r : \A c \in AllChannels : OutToken(r, c, b) = <<>>
    BY <1>0, QuietTokens
  <2> HIDE DEF a, b, t
  <2>6. OutputsOK(<<a, b>>)
    BY <1>0, <2>4, <2>5, OutTwo
  <2>7. ASSUME NEW r, NEW c \in AllChannels
        PROVE  OutLine(r, c, <<a, b>>) = IF r = p /\ c = "handshake" THEN <<"Accept">> ELSE <<>>
    <3>1. OutLine(r, c, <<a>>) = OutToken(r, c, a)
      BY <2>4, OutOne
    <3>2. OutLine(r, c, <<a, b>>) = OutToken(r, c, a) \o OutToken(r, c, b)
      BY <2>4, <2>5, OutTwo
    <3>3. OutToken(r, c, a) = IF r = p /\ c = "handshake" THEN <<"Accept">> ELSE <<>>
      BY <2>3, <3>1 DEF Says
    <3>4. OutToken(r, c, b) = <<>>
      BY <2>5
    <3>5. <<"Accept">> \o <<>> = <<"Accept">> /\ <<>> \o <<>> = <<>>
      OBVIOUS
    <3> QED BY <3>2, <3>3, <3>4, <3>5
  <2>8. Says(<<a, b>>, p, "handshake", <<"Accept">>)
    BY <2>6, <2>7 DEF Says
  <2>9. InTurn("handshake", At(s, "handshake"), <<"Accept">>)
    BY <1>0, <1>3, AnsweredBy DEF InTurn
  <2> QED BY <1>0, <2>1, <2>2, <2>8, <2>9 DEF Reacting, Reaction
<1> QED BY <1>1, <1>2, <1>3

LEMMA NotifyReacts ==
  ASSUME NEW s, NEW p
  PROVE  Reacting(Reaction(s, check_requests(s, p, "leiosnotify") \o close_notify(s, p)),
                  s, p, "leiosnotify")
<1> DEFINE ch == "leiosnotify"
<1> DEFINE a == check_requests(s, p, ch)
<1> DEFINE b == close_notify(s, p)
<1>0. /\ ch \in AllChannels /\ ch \in DOMAIN Shown /\ "Quit" \notin DOMAIN Shown[ch]
      /\ ch # "txsubmission" /\ "Done" \in ServerKinds[ch]
      /\ <<"Quit", "Done", "Done">> \in Moves[ch]
  BY DEF AllChannels, Shown, ServerKinds, Moves, LeiosNotifyMoves, From
<1>1. CASE is_initialized(s) /\ At(s, ch) = "Quit"
  <2>1. a = <<>> /\ b = <<Send(p, Msg(ch, "Done", None))>>
    BY <1>0, <1>1 DEF check_requests, close_notify
  <2>2. a \o b = <<Send(p, Msg(ch, "Done", None))>>
    <3>1. \A o : <<>> \o <<o>> = <<o>>
      OBVIOUS
    <3> QED BY <2>1, <3>1, Zenon
  <2> QED BY <1>0, <1>1, <2>2, ReactsSend
<1>2. CASE ~(is_initialized(s) /\ At(s, ch) = "Quit")
  <2>1. b = <<>>
    BY <1>2 DEF close_notify
  <2>2. a = <<>> \/ \E e : a = <<Event(p, e)>>
    BY DEF check_requests
  <2>3. a \o b = a
    <3>1. \A e : <<Event(p, e)>> \o <<>> = <<Event(p, e)>>
      BY JoinWords, Zenon
    <3>2. <<>> \o <<>> = <<>>
      OBVIOUS
    <3> HIDE DEF a, b
    <3> QED BY <2>1, <2>2, <3>1, <3>2, Zenon
  <2> QED BY <1>0, <2>3, ChecksRequests
<1> QED BY <1>1, <1>2

LEMMA VisitReacts ==
  ASSUME NEW s, StateOK(s), NEW p, NEW ch \in AllChannels
  PROVE  Reacting(visit_inbound_msg(s, p, ch), s, p, ch)
<1>1. CASE ch = "handshake"
  BY <1>1, HandshakeReacts DEF visit_inbound_msg
<1>2. CASE ch = "keepalive"
  <2>0. /\ "keepalive" # "txsubmission" /\ "ResponseKeepAlive" \in ServerKinds["keepalive"]
        /\ <<"Server", "ResponseKeepAlive", "ClientResponse">> \in Moves["keepalive"]
    BY DEF ServerKinds, Moves, KeepAliveMoves, From
  <2>1. visit_inbound_msg(s, p, ch) = Reaction(s, try_respond(s, p))
    BY <1>2 DEF visit_inbound_msg
  <2>2. CASE is_initialized(s) /\ At(s, "keepalive") = "Server"
    <3>1. try_respond(s, p) = <<Send(p, Msg("keepalive", "ResponseKeepAlive", None))>>
      BY <2>2 DEF try_respond
    <3> QED BY <1>2, <2>0, <2>1, <2>2, <3>1, ReactsSend
  <2>3. CASE ~(is_initialized(s) /\ At(s, "keepalive") = "Server")
    <3>1. try_respond(s, p) = <<>>
      BY <2>3 DEF try_respond
    <3> QED BY <2>1, <3>1, ReactsNot
  <2> QED BY <2>2, <2>3
<1>3. CASE ch = "txsubmission"
  <2>1. visit_inbound_msg(s, p, ch) = Reaction(s, try_extract_txs(s, p))
    BY <1>3 DEF visit_inbound_msg
  <2>2. CASE At(s, "txsubmission") = "TxsReplied"
    <3> DEFINE o == Event(p, "TxReceived")
    <3>1. try_extract_txs(s, p) = <<o>>
      BY <2>2 DEF try_extract_txs
    <3>2. Speaks(o) /\ \A r : \A c \in AllChannels : OutToken(r, c, o) = <<>>
      BY QuietTokens
    <3> HIDE DEF o
    <3>3. OutputsOK(<<o>>)
      BY <3>2, OutOne
    <3>4. ASSUME NEW r, NEW c \in AllChannels PROVE OutLine(r, c, <<o>>) = <<>>
      <4>1. OutLine(r, c, <<o>>) = OutToken(r, c, o)
        BY <3>2, OutOne
      <4> QED BY <3>2, <4>1
    <3>5. Says(<<o>>, p, ch, <<>>)
      BY <3>3, <3>4 DEF Says
    <3>6. InTurn(ch, At(s, ch), <<>>)
      BY DEF InTurn
    <3> QED BY <2>1, <3>1, <3>5, <3>6, ReactsWith
  <2>3. CASE At(s, "txsubmission") # "TxsReplied"
    <3>1. try_extract_txs(s, p) = <<>>
      BY <2>3 DEF try_extract_txs
    <3> QED BY <2>1, <3>1, ReactsNot
  <2> QED BY <2>2, <2>3
<1>4. CASE ch = "leiosnotify"
  BY <1>4, NotifyReacts DEF visit_inbound_msg
<1>5. CASE ch \in {"chainsync", "blockfetch", "peersharing", "leiosfetch"}
  <2>1. visit_inbound_msg(s, p, ch) = Reaction(s, check_requests(s, p, ch))
    BY <1>5 DEF visit_inbound_msg
  <2>2. ch \in DOMAIN Shown
    BY <1>5 DEF Shown
  <2> QED BY <2>1, <2>2, ChecksRequests
<1> QED BY <1>1, <1>2, <1>3, <1>4, <1>5 DEF AllChannels

-----------------------------------------------------------------------------
(* Housekeeping speaks at most once to each peer.                          *)

LEMMA OnceEach ==
  ASSUME NEW P, NEW X, NEW v, MapsTo(v, P, Seq(X)), \A o \in X : Speaks(o),
         NEW p, NEW ch \in AllChannels, NEW tok \in Seq(Tokens),
         \A x \in P : OutLine(p, ch, v[x]) = IF x = p THEN tok ELSE <<>>,
         NEW order \in Seq(P), \A i, j \in 1..Len(order) : order[i] = order[j] => i = j
  PROVE  OutputsOK(FlatMap(v, order)) /\ OutLine(p, ch, FlatMap(v, order)) \in {<<>>, tok}
<1> DEFINE L(s) == OutLine(p, ch, FlatMap(v, s))
<1> DEFINE Absent(s) == \A i \in 1..Len(s) : s[i] # p
<1> DEFINE Once(s) == \A i, j \in 1..Len(s) : s[i] = s[j] => i = j
<1> DEFINE T == {s \in Seq(P) : /\ Absent(s) => L(s) = <<>>
                                /\ Once(s) => L(s) \in {<<>>, tok}}
<1>0. \A s \in Seq(X) : OutputsOK(s)
  BY DEF OutputsOK
<1>1. \A s \in Seq(P) : FlatMap(v, s) \in Seq(X) /\ OutputsOK(FlatMap(v, s))
  <2> SUFFICES ASSUME NEW s \in Seq(P)
               PROVE  FlatMap(v, s) \in Seq(X) /\ OutputsOK(FlatMap(v, s))
    OBVIOUS
  <2>1. FlatMap(v, s) \in Seq(X)
    BY FlatMapFacts
  <2> QED BY <1>0, <2>1
<1>2. L(<<>>) = <<>>
  <2>1. FlatMap(v, <<>>) = <<>>
    <3>1. [i \in DOMAIN <<>> |-> v[<<>>[i]]] = <<>>
      OBVIOUS
    <3> QED BY <3>1, FlattenEmpty DEF FlatMap
  <2> QED BY <2>1, OutEmpty
<1>3. <<>> \in T
  <2>1. <<>> \in Seq(P)
    OBVIOUS
  <2> HIDE DEF L
  <2> QED BY <1>2, <2>1
<1>4. ASSUME NEW s \in T, NEW x \in P PROVE Append(s, x) \in T
  <2> DEFINE t == Append(s, x)
  <2>1. s \in Seq(P) /\ (Absent(s) => L(s) = <<>>) /\ (Once(s) => L(s) \in {<<>>, tok})
    <3> HIDE DEF Absent, Once, L
    <3> QED BY <1>4
  <2>2. /\ t \in Seq(P) /\ Len(t) = Len(s) + 1 /\ Len(s) \in Nat
        /\ t[Len(s) + 1] = x /\ \A i \in 1..Len(s) : t[i] = s[i]
    <3>1. s \in Seq(P) /\ Len(s) \in Nat
      BY <2>1
    <3> QED BY <3>1, AppendProperties
  <2>3. L(t) = L(s) \o (IF x = p THEN tok ELSE <<>>)
    <3>1. FlatMap(v, t) = FlatMap(v, s) \o v[x]
      BY <2>1, FlatMapEnds
    <3>2. OutputsOK(v[x])
      BY <1>0 DEF MapsTo
    <3>3. OutLine(p, ch, FlatMap(v, s) \o v[x]) = OutLine(p, ch, FlatMap(v, s)) \o OutLine(p, ch, v[x])
      BY <1>1, <2>1, <3>2, OutConcat
    <3> QED BY <3>1, <3>3
  <2>4. L(s) \in Seq(Tokens)
    BY <1>1, <2>1, OutType
  <2> HIDE DEF t, L
  <2>5. CASE x # p
    <3>1. L(t) = L(s)
      BY <2>3, <2>4, <2>5
    <3>0. \A i \in 1..Len(s) : i \in 1..Len(t) /\ t[i] = s[i]
      BY <2>2
    <3>2. (Absent(t) => Absent(s)) /\ (Once(t) => Once(s))
      BY <3>0, Zenon
    <3> HIDE DEF Absent, Once
    <3>3. t \in T
      BY <2>1, <2>2, <3>1, <3>2
    <3> QED BY <3>3 DEF t
  <2>6. CASE x = p
    <3>1. ~Absent(t)
      <4>1. Len(s) + 1 \in 1..Len(t)
        BY <2>2
      <4> QED BY <2>2, <2>6, <4>1
    <3>2. Once(t) => Absent(s)
      <4> SUFFICES ASSUME Once(t), NEW i \in 1..Len(s), s[i] = p PROVE FALSE
        OBVIOUS
      <4>1. i \in 1..Len(t) /\ Len(s) + 1 \in 1..Len(t) /\ i # Len(s) + 1
        BY <2>2
      <4>2. t[i] = p /\ t[Len(s) + 1] = p
        BY <2>2, <2>6
      <4> QED BY <4>1, <4>2
    <3> HIDE DEF Absent, Once
    <3>3. Absent(s) => L(t) = tok
      <4>1. <<>> \o tok = tok
        OBVIOUS
      <4> QED BY <2>1, <2>3, <2>6, <4>1
    <3>4. t \in T
      BY <2>2, <3>1, <3>2, <3>3
    <3> QED BY <3>4 DEF t
  <2> QED BY <2>5, <2>6
<1>5. order \in T
  <2> HIDE DEF T
  <2>1. Seq(P) \subseteq T
    BY <1>3, <1>4, SeqInduct
  <2> QED BY <2>1
<1>6. Once(order)
  OBVIOUS
<1>7. L(order) \in {<<>>, tok}
  <2> HIDE DEF L, Once, Absent
  <2> QED BY <1>5, <1>6
<1> QED BY <1>1, <1>7

(* What a visit of housekeeping says.                                      *)
LEMMA VisitSays ==
  ASSUME NEW p, NEW s
  PROVE  Says(visit_housekeeping(p, s), p, "txsubmission",
              IF try_request_tx_ids(p, s) THEN <<"RequestTxIds">> ELSE <<>>)
<1> DEFINE tx == "txsubmission"
<1> DEFINE k == "RequestTxIds"
<1> DEFINE a == IF needs_ban(p, s) \/ needs_disconnect(p, s) THEN <<Disconnect(p)>> ELSE <<>>
<1> DEFINE b == IF try_request_tx_ids(p, s) THEN <<Send(p, RequestTxIds)>> ELSE <<>>
<1> DEFINE line == IF try_request_tx_ids(p, s) THEN <<k>> ELSE <<>>
<1>0. tx \in AllChannels /\ k \in ServerKinds[tx]
  BY DEF AllChannels, ServerKinds
<1>1. Says(a, p, tx, <<>>)
  <2> DEFINE o == Disconnect(p)
  <2>1. Speaks(o) /\ \A r : \A c \in AllChannels : OutToken(r, c, o) = <<>>
    BY <1>0, QuietTokens
  <2> HIDE DEF o
  <2>2. OutputsOK(<<o>>)
    BY <1>0, <2>1, OutOne
  <2>3. ASSUME NEW r, NEW c \in AllChannels PROVE OutLine(r, c, <<o>>) = <<>>
    <3>1. OutLine(r, c, <<o>>) = OutToken(r, c, o)
      BY <2>1, OutOne
    <3> QED BY <2>1, <3>1
  <2>4. Says(<<o>>, p, tx, <<>>)
    BY <2>2, <2>3 DEF Says
  <2>5. Says(<<>>, p, tx, <<>>)
    BY SaysNothing
  <2>6. a = <<o>> \/ a = <<>>
    BY DEF o
  <2> HIDE DEF a
  <2> QED BY <2>4, <2>5, <2>6
<1>2. Says(b, p, tx, line)
  <2>1. Says(<<Send(p, RequestTxIds)>>, p, tx, <<k>>)
    BY <1>0, SaysOne DEF RequestTxIds
  <2>2. Says(<<>>, p, tx, <<>>)
    BY SaysNothing
  <2> QED BY <2>1, <2>2
<1>3. visit_housekeeping(p, s) = a \o b
  BY DEF visit_housekeeping
<1>4. line \in Seq(Tokens)
  <2>1. k \in Tokens
    BY <1>0 DEF Tokens, Kinds
  <2> HIDE DEF k
  <2>2. <<k>> \in Seq(Tokens) /\ <<>> \in Seq(Tokens)
    BY <2>1
  <2> QED BY <2>2
<1> HIDE DEF a, b, line, k, tx
<1>5. OutputsOK(a \o b)
  BY <1>0, <1>1, <1>2, OutConcat DEF Says
<1>6. ASSUME NEW r, NEW c \in AllChannels
      PROVE  OutLine(r, c, a \o b) = IF r = p /\ c = tx THEN line ELSE <<>>
  <2>1. OutLine(r, c, a \o b) = OutLine(r, c, a) \o OutLine(r, c, b)
    BY <1>1, <1>2, OutConcat DEF Says
  <2>2. OutLine(r, c, a) = <<>> /\ OutLine(r, c, b) = IF r = p /\ c = tx THEN line ELSE <<>>
    BY <1>1, <1>2 DEF Says
  <2>3. <<>> \o line = line /\ <<>> \o <<>> = <<>>
    BY <1>4
  <2> QED BY <2>1, <2>2, <2>3
<1>7. Says(a \o b, p, tx, line)
  BY <1>5, <1>6 DEF Says
<1> QED BY <1>3, <1>7 DEF line, tx, k

-----------------------------------------------------------------------------
(* What a step does to one connection: from k, of a peer in state s, to j, *)
(* of the peer in state u.                                                 *)

LEMMA LineType ==
  ASSUME NEW chs, NEW k, ConnShape(chs, k), NEW w, NEW out, NEW ch \in AllChannels,
         out[ch] \in Seq(Tokens)
  PROVE  /\ TaskLine(ch, k.tasks) \in Seq(Tokens) /\ Line(k, w, out, ch) \in Seq(Tokens)
         /\ ~w => Line(k, w, out, ch) = TaskLine(ch, k.tasks)
<1>1. TaskLine(ch, k.tasks) \in Seq(Tokens)
  BY TaskType DEF ConnShape
<1> DEFINE u == TaskLine(ch, k.tasks)
<1> DEFINE v == IF w THEN out[ch] ELSE <<>>
<1>2. <<>> \in Seq(Tokens)
  OBVIOUS
<1>3. v \in Seq(Tokens) /\ (~w => v = <<>>)
  BY <1>2
<1>4. Line(k, w, out, ch) = u \o v
  BY DEF Line
<1> HIDE DEF u, v
<1>5. u \o v \in Seq(Tokens) /\ u \o <<>> = u
  BY <1>1, <1>3 DEF u
<1> QED BY <1>1, <1>3, <1>4, <1>5 DEF u

(* The connection is over, for the client.                                 *)
LEMMA TurnsOver ==
  ASSUME NEW chs, NEW j, NEW u, NEW isKnown, NEW isWriter, NEW out, NEW told,
         ConnShape(chs, j), DOMAIN u.proto = chs, ~j.offended, Mirrored(j, u, isKnown),
         ~Live(j, isKnown)
  PROVE  Turns(chs, j, u, isKnown, isWriter, out, told)
BY DEF Turns, OneTurn, TxIdsOnce

(* Nothing that the client could tell has changed.                         *)
LEMMA TurnsSame ==
  ASSUME NEW chs, NEW k, NEW s, NEW isKnown, NEW isWriter, NEW out, NEW told,
         Turns(chs, k, s, isKnown, isWriter, out, told),
         NEW j, NEW u, NEW out2, NEW told2,
         ConnShape(chs, j), DOMAIN u.proto = chs, ~j.offended, Mirrored(j, u, isKnown),
         Live(j, isKnown) => Live(k, isKnown) /\ u.unsent = s.unsent,
         \A ch \in AllChannels : Live(j, isKnown) =>
           /\ View(chs, j, u, ch) = View(chs, k, s, ch)
           /\ Line(j, isWriter, out2, ch) = Line(k, isWriter, out, ch)
           /\ told2[ch] \in {told[ch], {}}
  PROVE  Turns(chs, j, u, isKnown, isWriter, out2, told2)
<1>1. ASSUME NEW ch \in AllChannels
      PROVE  OneTurn(chs, j, u, isKnown, isWriter, out2, told2, ch)
  <2> SUFFICES ASSUME Live(j, isKnown)
               PROVE  Turn(ch, View(chs, j, u, ch), Line(j, isWriter, out2, ch), isWriter, told2[ch])
    BY DEF OneTurn
  <2> DEFINE x == View(chs, k, s, ch)
  <2> DEFINE line == Line(k, isWriter, out, ch)
  <2>1. Turn(ch, x, line, isWriter, told[ch])
    BY DEF Turns, OneTurn
  <2> HIDE DEF x, line
  <2>2. Turn(ch, x, line, isWriter, told2[ch])
    <3>1. told2[ch] = told[ch] \/ told2[ch] = {}
      OBVIOUS
    <3> QED BY <2>1, <3>1 DEF Turn
  <2> QED BY <2>2 DEF x, line
<1>2. TxIdsOnce(j, u, isKnown, isWriter, out2)
  <2>1. "txsubmission" \in AllChannels
    BY DEF AllChannels
  <2> QED BY <2>1 DEF Turns, TxIdsOnce
<1> QED BY <1>1, <1>2 DEF Turns

(* The head of the outputs leaves the queue.                               *)
LEMMA HeadSent ==
  ASSUME NEW q, OutputsOK(q), q # <<>>, NEW p, Head(q).pid = p, Head(q).do = "Send",
         NEW tasks, TasksOK(tasks), NEW ch \in AllChannels
  PROVE  LET m == Head(q).msg
         IN  /\ TasksOK(Append(tasks, m))
             /\ TaskLine(ch, Append(tasks, m)) \o OutLine(p, ch, Tail(q))
                  = TaskLine(ch, tasks) \o OutLine(p, ch, q)
<1> DEFINE o == Head(q)
<1> DEFINE m == o.msg
<1> DEFINE a == TaskLine(ch, tasks)
<1> DEFINE t == TaskToken(ch, m)
<1> DEFINE b == OutLine(p, ch, Tail(q))
<1>1. OutputsOK(Tail(q)) /\ Speaks(o) /\ OutLine(p, ch, q) = OutToken(p, ch, o) \o b
  BY OutHead
<1>2. Speech(m)
  BY <1>1 DEF Speaks
<1>3. OutToken(p, ch, o) = t
  <2>1. "Send" \notin ShownNames(ch)
    BY DEF ShownNames, Shown
  <2> QED BY <2>1 DEF OutToken, TaskToken
<1>4. a \in Seq(Tokens) /\ b \in Seq(Tokens) /\ t \in Seq(Tokens)
  BY <1>1, <1>2, TaskType, OutType, TokenTypes
<1> HIDE DEF m
<1>5. TasksOK(Append(tasks, m)) /\ TaskLine(ch, Append(tasks, m)) = a \o t
  BY <1>2, TaskAppend
<1> HIDE DEF a, t, b, o
<1>6. (a \o t) \o b = a \o (t \o b)
  BY <1>4
<1> QED BY <1>1, <1>3, <1>5, <1>6 DEF a, b, m, o

LEMMA HeadQuiet ==
  ASSUME NEW q, OutputsOK(q), q # <<>>, NEW p, NEW ch \in AllChannels,
         OutToken(p, ch, Head(q)) = <<>>
  PROVE  OutLine(p, ch, Tail(q)) = OutLine(p, ch, q)
<1> DEFINE b == OutLine(p, ch, Tail(q))
<1>1. OutputsOK(Tail(q)) /\ OutLine(p, ch, q) = OutToken(p, ch, Head(q)) \o b
  BY OutHead
<1>2. b \in Seq(Tokens)
  BY <1>1, OutType
<1>3. <<>> \o b = b
  <2> HIDE DEF b
  <2> QED BY <1>2
<1> QED BY <1>1, <1>3

(* A task that is none of the client's business.                           *)
LEMMA ShutdownQueued ==
  ASSUME NEW tasks, TasksOK(tasks), NEW ch \in AllChannels
  PROVE  TasksOK(Append(tasks, Shutdown)) /\ TaskLine(ch, Append(tasks, Shutdown)) = TaskLine(ch, tasks)
<1> DEFINE a == TaskLine(ch, tasks)
<1>1. /\ TasksOK(Append(tasks, Shutdown))
      /\ TaskLine(ch, Append(tasks, Shutdown)) = a \o TaskToken(ch, Shutdown)
  BY TaskAppend
<1>2. TaskToken(ch, Shutdown) = <<>>
  BY DEF TaskToken, Shutdown, Msg, AllChannels
<1>3. a \in Seq(Tokens)
  BY TaskType
<1>4. a \o <<>> = a
  <2> HIDE DEF a
  <2> QED BY <1>3
<1> QED BY <1>1, <1>2, <1>4

(* An event of the peer reaches the application.                           *)
LEMMA TurnsTold ==
  ASSUME NEW chs, NEW k, NEW s, NEW isKnown, NEW isWriter, NEW p, NEW q, NEW told,
         Turns(chs, k, s, isKnown, isWriter, OutOf(p, q), told),
         OutputsOK(q), q # <<>>, Head(q).pid = p, Head(q).do # "Send",
         NEW told2, \A ch \in AllChannels :
           IF Head(q).do \in ShownNames(ch) THEN told2[ch] = told[ch] \cup {Head(q)}
                                            ELSE told2[ch] \in {told[ch], {}}
  PROVE  Turns(chs, k, s, isKnown, isWriter, OutOf(p, Tail(q)), told2)
<1> DEFINE o == Head(q)
<1> DEFINE out == OutOf(p, q)
<1> DEFINE out2 == OutOf(p, Tail(q))
<1>0. ConnShape(chs, k) /\ OutputsOK(Tail(q)) /\ "txsubmission" \in AllChannels
  <2>1. "txsubmission" \in AllChannels
    BY DEF AllChannels
  <2> QED BY <2>1, OutHead DEF Turns
<1>1. \A ch \in AllChannels : /\ out[ch] = OutLine(p, ch, q) /\ out2[ch] = OutLine(p, ch, Tail(q))
                              /\ out[ch] \in Seq(Tokens) /\ out2[ch] \in Seq(Tokens)
  BY <1>0, OutType DEF OutOf
<1>2. ASSUME NEW ch \in AllChannels, o.do \notin ShownNames(ch)
      PROVE  Line(k, isWriter, out2, ch) = Line(k, isWriter, out, ch)
  <2>1. OutToken(p, ch, o) = <<>>
    BY <1>2 DEF OutToken
  <2>2. out2[ch] = out[ch]
    BY <1>1, <2>1, HeadQuiet
  <2> QED BY <2>2 DEF Line
<1>3. ASSUME NEW ch \in AllChannels
      PROVE  OneTurn(chs, k, s, isKnown, isWriter, out2, told2, ch)
  <2> SUFFICES ASSUME Live(k, isKnown)
               PROVE  Turn(ch, View(chs, k, s, ch), Line(k, isWriter, out2, ch), isWriter, told2[ch])
    BY DEF OneTurn
  <2> DEFINE x == View(chs, k, s, ch)
  <2>1. Turn(ch, x, Line(k, isWriter, out, ch), isWriter, told[ch])
    BY DEF Turns, OneTurn
  <2> HIDE DEF x
  <2>2. CASE o.do \notin ShownNames(ch)
    <3> DEFINE line == Line(k, isWriter, out, ch)
    <3>1. told2[ch] = told[ch] \/ told2[ch] = {}
      BY <2>2
    <3>2. Line(k, isWriter, out2, ch) = line
      BY <1>2, <2>2
    <3> HIDE DEF line
    <3>3. Turn(ch, x, line, isWriter, told2[ch])
      BY <2>1, <3>1 DEF Turn, line
    <3> QED BY <3>2, <3>3 DEF x
  <2>3. CASE o.do \in ShownNames(ch) /\ isWriter
    <3> DEFINE a == TaskLine(ch, k.tasks)
    <3> DEFINE b == OutLine(p, ch, Tail(q))
    <3>1. a \in Seq(Tokens) /\ b \in Seq(Tokens)
      BY <1>0, <1>1, LineType
    <3>2. OutToken(p, ch, o) = <<o.do>>
      BY <2>3 DEF OutToken
    <3>3. OutLine(p, ch, q) = <<o.do>> \o b
      BY <3>2, OutHead
    <3>4. Line(k, isWriter, out, ch) = a \o (<<o.do>> \o b) /\ Line(k, isWriter, out2, ch) = a \o b
      BY <1>1, <2>3, <3>3 DEF Line
    <3> HIDE DEF a, b, o
    <3>5. Turn(ch, x, a \o (<<o.do>> \o b), TRUE, told[ch])
      <4>1. Turn(ch, x, a \o (<<o.do>> \o b), isWriter, told[ch])
        BY <2>1, <3>4
      <4> QED BY <2>3, <4>1 DEF Turn
    <3>6. told[ch] = {} /\ a = <<>> /\ b = <<>> /\ Turn(ch, x, <<>>, TRUE, {o})
      BY <2>3, <3>1, <3>5, TurnTell
    <3>7. told2[ch] = {o} /\ Line(k, isWriter, out2, ch) = <<>>
      <4>1. told2[ch] = told[ch] \cup {o}
        BY <2>3 DEF o
      <4>2. <<>> \o <<>> = <<>>
        OBVIOUS
      <4> QED BY <3>4, <3>6, <4>1, <4>2
    <3>8. Turn(ch, x, <<>>, isWriter, {o})
      BY <3>6 DEF Turn
    <3> QED BY <3>7, <3>8 DEF x
  <2>4. CASE o.do \in ShownNames(ch) /\ ~isWriter
    <3>1. Line(k, isWriter, out2, ch) = Line(k, isWriter, out, ch)
      BY <2>4 DEF Line
    <3> QED BY <2>1, <2>4, <3>1 DEF Turn, x
  <2> QED BY <2>2, <2>3, <2>4
<1>4. TxIdsOnce(k, s, isKnown, isWriter, out2)
  <2>1. ShownNames("txsubmission") = {}
    BY DEF ShownNames, Shown
  <2>2. Line(k, isWriter, out2, "txsubmission") = Line(k, isWriter, out, "txsubmission")
    BY <1>0, <1>2, <2>1
  <2> QED BY <2>2 DEF Turns, TxIdsOnce
<1> QED BY <1>3, <1>4 DEF Turns

(* The writer of the peer is dropped, and the peer is forgotten.           *)
LEMMA TurnsCut ==
  ASSUME NEW chs, NEW k, NEW s, NEW isKnown, NEW isWriter, NEW out, NEW told,
         Turns(chs, k, s, isKnown, isWriter, out, told),
         \A ch \in AllChannels : out[ch] \in Seq(Tokens),
         NEW u, DOMAIN u.proto = chs, NEW out2
  PROVE  Turns(chs, k, u, FALSE, FALSE, out2, told)
<1>0. ConnShape(chs, k)
  BY DEF Turns
<1>1. ASSUME NEW ch \in AllChannels
      PROVE  OneTurn(chs, k, u, FALSE, FALSE, out2, told, ch)
  <2> SUFFICES ASSUME Live(k, FALSE)
               PROVE  Turn(ch, View(chs, k, u, ch), Line(k, FALSE, out2, ch), FALSE, told[ch])
    BY DEF OneTurn
  <2> DEFINE x == View(chs, k, s, ch)
  <2> DEFINE a == TaskLine(ch, k.tasks)
  <2> DEFINE b == IF isWriter THEN out[ch] ELSE <<>>
  <2>1. Turn(ch, x, a \o b, isWriter, told[ch])
    BY DEF Turns, OneTurn, Live, Line
  <2>2. View(chs, k, u, ch) = x
    BY DEF View, Live
  <2>3. <<>> \in Seq(Tokens)
    OBVIOUS
  <2>4. a \in Seq(Tokens) /\ b \in Seq(Tokens)
    BY <1>0, <2>3, LineType
  <2>5. Line(k, FALSE, out2, ch) = a
    <3> HIDE DEF a
    <3>1. a \o <<>> = a
      BY <2>4
    <3> QED BY <3>1 DEF Line, a
  <2> HIDE DEF x, a, b
  <2>6. Turn(ch, x, a, FALSE, told[ch])
    BY <2>1, <2>4, TurnCut
  <2> QED BY <2>2, <2>5, <2>6
<1>2. Mirrored(k, u, FALSE) /\ TxIdsOnce(k, u, FALSE, FALSE, out2)
  BY DEF Mirrored, TxIdsOnce
<1> QED BY <1>1, <1>2 DEF Turns

(* A message that a state accepts, and the state it leads to.              *)
LEMMA ApplyMoves ==
  ASSUME NEW y, NEW m, CanApply(y, m)
  PROVE  \E t \in Moves[m.ch] : t[1] = y.at /\ t[2] = m.kind /\ Apply(y, m).at = t[3]
BY DEF CanApply, Apply

LEMMA TxRequested ==
  ASSUME NEW t \in Moves["txsubmission"], t[2] \in ServerKinds["txsubmission"], NEW rest,
         InTurn("txsubmission", t[3], rest)
  PROVE  rest = <<>>
<1> DEFINE tx == "txsubmission"
<1>1. t[3] \in {"TxIdsBlocking", "TxsEmpty"}
  BY DEF Moves, TxSubmissionMoves, From, ServerKinds
<1>2. \A x \in {"TxIdsBlocking", "TxsEmpty"} :
        \E v \in Moves[tx] : v[1] = x /\ v[2] \in ClientKinds[tx]
  <2> DEFINE v == <<"TxIdsBlocking", "ReplyTxIds", "TxIdsBlocking">>
  <2> DEFINE w == <<"TxsEmpty", "ReplyTxs", "TxsReplied">>
  <2>1. v \in Moves[tx] /\ v[1] = "TxIdsBlocking" /\ v[2] \in ClientKinds[tx]
    BY DEF Moves, TxSubmissionMoves, From, ClientKinds
  <2>2. w \in Moves[tx] /\ w[1] = "TxsEmpty" /\ w[2] \in ClientKinds[tx]
    BY DEF Moves, TxSubmissionMoves, From, ClientKinds
  <2> HIDE DEF v, w
  <2> QED BY <2>1, <2>2
<1>3. tx \in AllChannels
  BY DEF AllChannels
<1> QED BY <1>1, <1>2, <1>3, ClientSilence

(* What the responder and the far end make of a message that both accept.  *)
Applied(k, m) == [k EXCEPT !.remote[m.ch] = Apply(k.remote[m.ch], m)]

LEMMA ApplyMsgOK ==
  ASSUME NEW s, StateOK(s), NEW m, CanApply(s.proto[m.ch], m), m.ch \in DOMAIN s.proto
  PROVE  LET u == apply_msg(s, m)
         IN  /\ u.proto = [s.proto EXCEPT ![m.ch] = Apply(s.proto[m.ch], m)]
             /\ u.violation = s.violation /\ u.unsent = s.unsent
BY DEF StateOK, apply_msg

LEMMA ClearUnsentOK ==
  ASSUME NEW s, StateOK(s), NEW m
  PROVE  LET u == clear_unsent(s, m)
         IN  /\ u.proto = s.proto /\ u.violation = s.violation /\ StateOK(u)
             /\ m.ch # "txsubmission" => u.unsent = s.unsent
<1>1. StateOK(clear_unsent(s, m))
  BY ApplyMsgKeeps
<1> QED BY <1>1 DEF StateOK, clear_unsent, can_apply

(* The line of k is that of j, behind message m.                           *)
LineAfter(k, j, w, out, ch, m) ==
  /\ Line(j, w, out, ch) \in Seq(Tokens)
  /\ Line(k, w, out, ch) = IF m.ch = ch THEN <<m.kind>> \o Line(j, w, out, ch)
                                        ELSE Line(j, w, out, ch)

LEMMA LineSent ==
  ASSUME NEW k, TasksOK(k.tasks), k.tasks # <<>>, NEW w, NEW out,
         NEW ch \in AllChannels, out[ch] \in Seq(Tokens), NEW m, m = Head(k.tasks), Speech(m),
         NEW j, j.tasks = Tail(k.tasks)
  PROVE  LineAfter(k, j, w, out, ch, m)
<1> DEFINE t == TaskToken(ch, m)
<1> DEFINE a == TaskLine(ch, j.tasks)
<1> DEFINE b == IF w THEN out[ch] ELSE <<>>
<1>1. TasksOK(j.tasks) /\ TaskLine(ch, k.tasks) = t \o a
  BY TaskHead
<1>2. <<>> \in Seq(Tokens)
  OBVIOUS
<1>3. a \in Seq(Tokens) /\ b \in Seq(Tokens) /\ t \in Seq(Tokens)
  BY <1>1, <1>2, TaskType, TokenTypes
<1>4. Line(k, w, out, ch) = (t \o a) \o b /\ Line(j, w, out, ch) = a \o b
  BY <1>1 DEF Line
<1>5. t = IF m.ch = ch THEN <<m.kind>> ELSE <<>>
  BY DEF TaskToken
<1> HIDE DEF t, a, b
<1>6. (t \o a) \o b = t \o (a \o b) /\ a \o b \in Seq(Tokens)
  BY <1>3
<1>7. <<>> \o (a \o b) = a \o b
  <2> DEFINE ab == a \o b
  <2>1. ab \in Seq(Tokens)
    BY <1>6
  <2> HIDE DEF ab
  <2>2. <<>> \o ab = ab
    BY <2>1
  <2> QED BY <2>2 DEF ab
<1> QED BY <1>4, <1>5, <1>6, <1>7 DEF LineAfter

(* A message is written and delivered.                                     *)
LEMMA TurnsSent ==
  ASSUME NEW chs, NEW k, NEW s, StateOK(s), NEW isKnown, NEW isWriter, NEW out, NEW told,
         Turns(chs, k, s, isKnown, isWriter, out, told),
         \A ch \in AllChannels : out[ch] \in Seq(Tokens),
         k.tasks # <<>>, Speech(Head(k.tasks)), ~k.shut, k.writing,
         NEW u, u = IF isKnown THEN apply_msg(clear_unsent(s, Head(k.tasks)), Head(k.tasks)) ELSE s
  PROVE  LET j == RemoteGets([k EXCEPT !.tasks = Tail(@)], Head(k.tasks))
         IN  /\ Turns(chs, j, u, isKnown, isWriter, out, told)
             /\ u.violation = s.violation
<1> DEFINE m == Head(k.tasks)
<1> DEFINE h == [k EXCEPT !.tasks = Tail(@)]
<1> DEFINE j == RemoteGets(h, m)
<1> DEFINE ch == m.ch
<1>0. ConnShape(chs, k) /\ DOMAIN s.proto = chs /\ ~k.offended /\ Mirrored(k, s, isKnown)
      /\ m.ch \in AllChannels /\ m.kind \in ServerKinds[m.ch] /\ "txsubmission" \in AllChannels
  <2>1. "txsubmission" \in AllChannels
    BY DEF AllChannels
  <2> QED BY <2>1 DEF Turns, Speech
<1>1. /\ h.tasks = Tail(k.tasks) /\ h.shut = k.shut /\ h.reading = k.reading
      /\ h.writing = k.writing /\ h.remote = k.remote /\ h.offended = k.offended
      /\ DOMAIN h = DOMAIN k
  BY <1>0 DEF ConnShape
<1> HIDE DEF h
<1>2. ASSUME NEW c \in AllChannels
      PROVE  /\ Line(h, isWriter, out, c) \in Seq(Tokens)
             /\ Line(k, isWriter, out, c) = IF m.ch = c
                                              THEN <<m.kind>> \o Line(h, isWriter, out, c)
                                              ELSE Line(h, isWriter, out, c)
  <2>1. TasksOK(k.tasks) /\ h.tasks = Tail(k.tasks) /\ m = Head(k.tasks) /\ Speech(m)
    BY <1>0, <1>1 DEF ConnShape
  <2> HIDE DEF m
  <2>2. LineAfter(k, h, isWriter, out, c, m)
    BY <2>1, LineSent
  <2> QED BY <2>2 DEF LineAfter
<1>3. ConnShape(chs, h)
  <2>1. TasksOK(h.tasks)
    BY <1>0, <1>1, TaskHead DEF ConnShape
  <2> QED BY <1>0, <1>1, <2>1 DEF ConnShape
<1>4. CASE ~k.reading /\ ~isKnown
  <2>1. j = h /\ u = s
    BY <1>1, <1>4 DEF RemoteGets
  <2>2. ~Live(h, isKnown) /\ Mirrored(h, s, isKnown)
    BY <1>1, <1>4 DEF Live, Mirrored
  <2> HIDE DEF j
  <2>3. Turns(chs, h, s, isKnown, isWriter, out, told)
    BY <1>0, <1>1, <1>3, <2>2, TurnsOver
  <2> QED BY <2>1, <2>3 DEF h, j
<1>5. CASE k.reading \/ isKnown
  <2>1. Live(k, isKnown)
    BY <1>5 DEF Live
  <2> DEFINE rest == Line(h, isWriter, out, ch)
  <2> DEFINE x == View(chs, k, s, ch)
  <2>2. Turn(ch, x, <<m.kind>> \o rest, isWriter, told[ch]) /\ rest \in Seq(Tokens)
    <3>1. Turn(ch, x, Line(k, isWriter, out, ch), isWriter, told[ch])
      BY <1>0, <2>1 DEF Turns, OneTurn
    <3> QED BY <1>0, <1>2, <3>1
  <2>3. /\ \E t \in Moves[ch] : t[1] = x /\ t[2] = m.kind
        /\ \A t \in Moves[ch] : t[1] = x /\ t[2] = m.kind => Turn(ch, t[3], rest, isWriter, told[ch])
    <3> HIDE DEF rest, x
    <3> QED BY <1>0, <2>2, TurnSend
  <2>4. ch \in chs
    <3>1. ASSUME ch \notin chs PROVE FALSE
      <4>1. x = StartAt[ch]
        BY <3>1 DEF View
      <4>2. m.kind \in Tokens
        BY <1>0 DEF Tokens, Kinds
      <4> HIDE DEF rest, x
      <4>3. <<m.kind>> \o rest # <<>>
        BY <2>2, <4>2, FirstWord
      <4> DEFINE line == <<m.kind>> \o rest
      <4>4. Turn(ch, StartAt[ch], line, isWriter, told[ch])
        BY <2>2, <4>1
      <4> HIDE DEF line
      <4>5. line = <<>>
        BY <1>0, <4>4, TurnAtStart
      <4> QED BY <4>3, <4>5 DEF line
    <3> QED BY <3>1
  <2> DEFINE y == IF k.reading THEN k.remote[ch] ELSE s.proto[ch]
  <2>5. y.at = x
    BY <2>4 DEF View
  <2>6. CanApply(y, m)
    BY <2>3, <2>5 DEF CanApply
  <2>7. /\ Turn(ch, Apply(y, m).at, rest, isWriter, told[ch])
        /\ ch = "txsubmission" => rest = <<>>
    <3> HIDE DEF y, rest
    <3>1. PICK t \in Moves[ch] : t[1] = y.at /\ t[2] = m.kind /\ Apply(y, m).at = t[3]
      BY <2>6, ApplyMoves
    <3>2. Turn(ch, t[3], rest, isWriter, told[ch])
      BY <2>3, <2>5, <3>1
    <3>3. ch = "txsubmission" => rest = <<>>
      BY <1>0, <3>1, <3>2, TxRequested DEF Turn
    <3> QED BY <3>1, <3>2, <3>3
  <2>8. /\ j.tasks = h.tasks /\ j.shut = k.shut /\ j.reading = k.reading
        /\ j.writing = k.writing /\ ~j.offended /\ DOMAIN j = DOMAIN k
        /\ j.remote = IF k.reading THEN [k.remote EXCEPT ![ch] = Apply(y, m)] ELSE k.remote
    <3>1. CASE k.reading
      <4>1. j = [h EXCEPT !.remote[m.ch] = Apply(h.remote[m.ch], m)]
        BY <1>1, <2>6, <3>1 DEF RemoteGets
      <4> QED BY <1>0, <1>1, <3>1, <4>1 DEF ConnShape
    <3>2. CASE ~k.reading
      <4>1. j = h
        BY <1>1, <3>2 DEF RemoteGets
      <4> QED BY <1>0, <1>1, <3>2, <4>1
    <3> QED BY <3>1, <3>2
  <2>9. /\ u.violation = s.violation
        /\ u.proto = IF isKnown THEN [s.proto EXCEPT ![ch] = Apply(y, m)] ELSE s.proto
        /\ ch # "txsubmission" => u.unsent = s.unsent
    <3>1. CASE isKnown
      <4> DEFINE v == clear_unsent(s, m)
      <4>1. /\ v.proto = s.proto /\ v.violation = s.violation /\ StateOK(v)
            /\ ch # "txsubmission" => v.unsent = s.unsent
        BY ClearUnsentOK
      <4>2. y = s.proto[ch]
        BY <1>0, <3>1 DEF Mirrored
      <4>3. u = apply_msg(v, m)
        BY <3>1
      <4> HIDE DEF v, y
      <4>4. /\ u.proto = [v.proto EXCEPT ![ch] = Apply(v.proto[ch], m)]
            /\ u.violation = v.violation /\ u.unsent = v.unsent
        BY <1>0, <2>4, <2>6, <4>1, <4>2, <4>3, ApplyMsgOK
      <4> QED BY <3>1, <4>1, <4>2, <4>4
    <3>2. CASE ~isKnown
      BY <3>2
    <3> QED BY <3>1, <3>2
  <2> HIDE DEF j, y
  <2>10. ConnShape(chs, j) /\ DOMAIN u.proto = chs
    BY <1>0, <1>3, <2>8, <2>9 DEF ConnShape
  <2>11. Mirrored(j, u, isKnown)
    BY <1>0, <2>8, <2>9 DEF Mirrored
  <2>12. \A c \in AllChannels : Line(j, isWriter, out, c) = Line(h, isWriter, out, c)
    BY <2>8 DEF Line
  <2>13. ASSUME NEW c \in AllChannels
         PROVE  View(chs, j, u, c) = IF c = ch THEN Apply(y, m).at ELSE View(chs, k, s, c)
    BY <1>0, <1>5, <2>4, <2>8, <2>9 DEF View, ConnShape
  <2>14. ASSUME NEW c \in AllChannels
         PROVE  OneTurn(chs, j, u, isKnown, isWriter, out, told, c)
    <3> SUFFICES Turn(c, View(chs, j, u, c), Line(j, isWriter, out, c), isWriter, told[c])
      BY DEF OneTurn
    <3>1. CASE c = ch
      BY <2>7, <2>12, <2>13, <3>1
    <3>2. CASE c # ch
      <4>1. Turn(c, View(chs, k, s, c), Line(k, isWriter, out, c), isWriter, told[c])
        BY <2>1 DEF Turns, OneTurn
      <4> QED BY <1>2, <2>12, <2>13, <3>2, <4>1
    <3> QED BY <3>1, <3>2
  <2>15. TxIdsOnce(j, u, isKnown, isWriter, out)
    <3>1. CASE ch = "txsubmission"
      BY <1>0, <2>7, <2>12, <3>1 DEF TxIdsOnce
    <3>2. CASE ch # "txsubmission"
      <4>1. Line(k, isWriter, out, "txsubmission") = Line(j, isWriter, out, "txsubmission")
        BY <1>0, <1>2, <2>12, <3>2
      <4> QED BY <2>1, <2>9, <3>2, <4>1 DEF Turns, TxIdsOnce
    <3> QED BY <3>1, <3>2
  <2>16. Turns(chs, j, u, isKnown, isWriter, out, told)
    BY <2>8, <2>10, <2>11, <2>14, <2>15 DEF Turns
  <2> QED BY <2>9, <2>16 DEF j, h
<1> QED BY <1>4, <1>5

(* Something is said to the peer when nothing is on its way.               *)
SaidNow(k, w, out, out2, ch, said) ==
  Line(k, w, out, ch) = <<>> /\ out2[ch] = out[ch] \o said
    => Line(k, w, out2, ch) = IF w THEN said ELSE <<>>

LEMMA LineGrown ==
  ASSUME NEW k, TasksOK(k.tasks), NEW w, NEW out, NEW ch \in AllChannels, NEW said \in Seq(Tokens),
         out[ch] \in Seq(Tokens), NEW out2
  PROVE  SaidNow(k, w, out, out2, ch, said)
<1> SUFFICES ASSUME Line(k, w, out, ch) = <<>>, out2[ch] = out[ch] \o said
             PROVE  Line(k, w, out2, ch) = IF w THEN said ELSE <<>>
  BY DEF SaidNow
<1> DEFINE a == TaskLine(ch, k.tasks)
<1> DEFINE b == out[ch]
<1>1. a \in Seq(Tokens)
  BY TaskType
<1>2. CASE w
  <2>1. Line(k, w, out, ch) = a \o b /\ Line(k, w, out2, ch) = a \o (b \o said)
    BY <1>2 DEF Line
  <2> HIDE DEF a, b
  <2>2. b \in Seq(Tokens)
    BY DEF b
  <2>3. a \o (b \o said) = (a \o b) \o said
    BY <1>1, <2>2
  <2>4. <<>> \o said = said
    OBVIOUS
  <2> QED BY <1>2, <2>1, <2>3, <2>4
<1>3. CASE ~w
  <2>1. Line(k, w, out2, ch) = Line(k, w, out, ch)
    BY <1>3 DEF Line
  <2> QED BY <1>3, <2>1
<1> QED BY <1>2, <1>3

(* A message of the client is read, and reacted to.                        *)
Reads(chs, k, s, isKnown, out, m, said, out2, u) ==
  /\ \A c \in AllChannels : out[c] \in Seq(Tokens)
  /\ k.reading /\ m.ch \in chs /\ m.ch \in AllChannels /\ m.kind \in ClientKinds[m.ch]
  /\ CanApply(k.remote[m.ch], m)
  /\ said \in Seq(Tokens) /\ InTurn(m.ch, Apply(k.remote[m.ch], m).at, said)
  /\ m.ch = "txsubmission" => said = <<>>
  /\ \A c \in AllChannels : out2[c] = IF c = m.ch THEN out[c] \o said ELSE out[c]
  /\ u.unsent = s.unsent /\ DOMAIN u.proto = chs
  /\ isKnown => u.proto = [s.proto EXCEPT ![m.ch] = Apply(s.proto[m.ch], m)]

LEMMA TurnsRead ==
  ASSUME NEW chs, NEW k, NEW s, NEW isKnown, NEW isWriter, NEW out, NEW told,
         Turns(chs, k, s, isKnown, isWriter, out, told), NEW m, NEW said, NEW out2, NEW u,
         Reads(chs, k, s, isKnown, out, m, said, out2, u)
  PROVE  Turns(chs, Applied(k, m), u, isKnown, isWriter, out2, told)
<1>5. /\ \A c \in AllChannels : out[c] \in Seq(Tokens)
      /\ k.reading /\ m.ch \in chs /\ m.ch \in AllChannels /\ m.kind \in ClientKinds[m.ch]
      /\ CanApply(k.remote[m.ch], m)
      /\ said \in Seq(Tokens) /\ InTurn(m.ch, Apply(k.remote[m.ch], m).at, said)
      /\ m.ch = "txsubmission" => said = <<>>
      /\ \A c \in AllChannels : out2[c] = IF c = m.ch THEN out[c] \o said ELSE out[c]
      /\ u.unsent = s.unsent /\ DOMAIN u.proto = chs
      /\ isKnown => u.proto = [s.proto EXCEPT ![m.ch] = Apply(s.proto[m.ch], m)]
  BY DEF Reads
<1> USE <1>5
<1> DEFINE ch == m.ch
<1> DEFINE y == k.remote[ch]
<1> DEFINE j == Applied(k, m)
<1>0. ConnShape(chs, k) /\ ~k.offended /\ Mirrored(k, s, isKnown)
  BY DEF Turns
<1>1. /\ j.tasks = k.tasks /\ j.shut = k.shut /\ j.reading /\ j.writing = k.writing
      /\ ~j.offended /\ DOMAIN j = DOMAIN k /\ j.remote = [k.remote EXCEPT ![ch] = Apply(y, m)]
  BY <1>0 DEF ConnShape, Applied
<1> HIDE DEF j
<1>2. ConnShape(chs, j) /\ Mirrored(j, u, isKnown)
  BY <1>0, <1>1 DEF ConnShape, Mirrored
<1>3. CASE ~Live(k, isKnown)
  <2>1. ~Live(j, isKnown)
    BY <1>1, <1>3 DEF Live
  <2>2. Turns(chs, j, u, isKnown, isWriter, out2, told)
    BY <1>1, <1>2, <2>1, TurnsOver
  <2> QED BY <2>2 DEF j
<1>4. CASE Live(k, isKnown)
  <2>1. \A c \in AllChannels : View(chs, j, u, c) = IF c = ch THEN Apply(y, m).at ELSE View(chs, k, s, c)
    BY <1>0, <1>1 DEF View, ConnShape
  <2>2. ASSUME NEW c \in AllChannels
        PROVE  Turn(c, View(chs, k, s, c), Line(k, isWriter, out, c), isWriter, told[c])
    BY <1>4 DEF Turns, OneTurn
  <2>3. \A c \in AllChannels \ {ch} : Line(j, isWriter, out2, c) = Line(k, isWriter, out, c)
    BY <1>1 DEF Line
  <2> DEFINE x == View(chs, k, s, ch)
  <2>4. PICK t \in Moves[ch] : t[1] = x /\ t[2] \in ClientKinds[ch]
    BY DEF View, CanApply
  <2> HIDE DEF x
  <2>5. /\ Line(k, isWriter, out, ch) = <<>>
        /\ \A z, a : InTurn(ch, z, a) => Turn(ch, z, a, isWriter, told[ch])
    <3> DEFINE line == Line(k, isWriter, out, ch)
    <3>1. Turn(ch, x, line, isWriter, told[ch])
      BY <2>2 DEF x
    <3> HIDE DEF line
    <3>2. line = <<>> /\ \A z, a : InTurn(ch, z, a) => Turn(ch, z, a, isWriter, told[ch])
      BY <2>4, <3>1, TurnRecv
    <3> QED BY <3>2 DEF line
  <2>6. Line(j, isWriter, out2, ch) = IF isWriter THEN said ELSE <<>>
    <3>1. Line(k, isWriter, out2, ch) = IF isWriter THEN said ELSE <<>>
      <4>1. TasksOK(k.tasks) /\ out[ch] \in Seq(Tokens) /\ out2[ch] = out[ch] \o said
        BY <1>0 DEF ConnShape
      <4>2. Line(k, isWriter, out, ch) = <<>>
        BY <2>5
      <4>3. SaidNow(k, isWriter, out, out2, ch, said)
        BY <4>1, LineGrown
      <4> QED BY <4>1, <4>2, <4>3 DEF SaidNow
    <3> QED BY <1>1, <3>1 DEF Line
  <2>7. Turn(ch, Apply(y, m).at, Line(j, isWriter, out2, ch), isWriter, told[ch])
    <3>1. InTurn(ch, Apply(y, m).at, said) /\ InTurn(ch, Apply(y, m).at, <<>>)
      BY DEF InTurn
    <3> QED BY <2>5, <2>6, <3>1
  <2>8. ASSUME NEW c \in AllChannels
        PROVE  OneTurn(chs, j, u, isKnown, isWriter, out2, told, c)
    <3>1. CASE c = ch
      BY <2>1, <2>7, <3>1 DEF OneTurn
    <3>2. CASE c # ch
      BY <2>1, <2>2, <2>3, <3>2 DEF OneTurn
    <3> QED BY <3>1, <3>2
  <2>9. TxIdsOnce(j, u, isKnown, isWriter, out2)
    <3>1. CASE ch = "txsubmission"
      BY <2>6, <3>1 DEF TxIdsOnce
    <3>2. CASE ch # "txsubmission"
      <4>1. Line(j, isWriter, out2, "txsubmission") = Line(k, isWriter, out, "txsubmission")
        BY <2>3, <3>2 DEF AllChannels
      <4> QED BY <1>4, <4>1 DEF Turns, TxIdsOnce
    <3> QED BY <3>1, <3>2
  <2>10. Turns(chs, j, u, isKnown, isWriter, out2, told)
    BY <1>1, <1>2, <2>8, <2>9 DEF Turns
  <2> QED BY <2>10 DEF j
<1> QED BY <1>3, <1>4

(* The application answers a request it was told of.                       *)
Provides(out, told, ch, r, said, out2, told2) ==
  /\ \A c \in AllChannels : out[c] \in Seq(Tokens)
  /\ ch \in AllChannels /\ ch # "txsubmission" /\ r \in told[ch] /\ said \in Seq(Tokens)
  /\ \A x : <<r.do>> \in Asked(ch, x) => InTurn(ch, x, said)
  /\ \A c \in AllChannels : out2[c] = IF c = ch THEN out[c] \o said ELSE out[c]
  /\ \A c \in AllChannels : told2[c] = IF c = ch THEN told[c] \ {r} ELSE told[c]

LEMMA TurnsProvided ==
  ASSUME NEW chs, NEW k, NEW s, NEW isKnown, NEW isWriter, NEW out, NEW told,
         Turns(chs, k, s, isKnown, isWriter, out, told),
         NEW ch, NEW r, NEW said, NEW out2, NEW told2,
         Provides(out, told, ch, r, said, out2, told2)
  PROVE  Turns(chs, k, s, isKnown, isWriter, out2, told2)
<1>4. /\ \A c \in AllChannels : out[c] \in Seq(Tokens)
      /\ ch \in AllChannels /\ ch # "txsubmission" /\ r \in told[ch] /\ said \in Seq(Tokens)
      /\ \A x : <<r.do>> \in Asked(ch, x) => InTurn(ch, x, said)
      /\ \A c \in AllChannels : out2[c] = IF c = ch THEN out[c] \o said ELSE out[c]
      /\ \A c \in AllChannels : told2[c] = IF c = ch THEN told[c] \ {r} ELSE told[c]
  BY DEF Provides
<1> USE <1>4
<1>0. ConnShape(chs, k)
  BY DEF Turns
<1>1. \A c \in AllChannels \ {ch} : Line(k, isWriter, out2, c) = Line(k, isWriter, out, c)
  BY DEF Line
<1>2. ASSUME NEW c \in AllChannels
      PROVE  OneTurn(chs, k, s, isKnown, isWriter, out2, told2, c)
  <2> SUFFICES ASSUME Live(k, isKnown)
               PROVE  Turn(c, View(chs, k, s, c), Line(k, isWriter, out2, c), isWriter, told2[c])
    BY DEF OneTurn
  <2> DEFINE x == View(chs, k, s, c)
  <2>1. Turn(c, x, Line(k, isWriter, out, c), isWriter, told[c])
    BY DEF Turns, OneTurn
  <2> HIDE DEF x
  <2>2. CASE c # ch
    BY <1>1, <2>1, <2>2 DEF x
  <2>3. CASE c = ch /\ isWriter
    <3>1. Line(k, isWriter, out, ch) = <<>> /\ told[ch] = {r} /\ <<r.do>> \in Asked(ch, x)
      BY <2>1, <2>3 DEF Turn
    <3>2. Line(k, isWriter, out2, ch) = said
      <4>1. Line(k, isWriter, out2, ch) = IF isWriter THEN said ELSE <<>>
        <5>1. TasksOK(k.tasks) /\ out[ch] \in Seq(Tokens) /\ out2[ch] = out[ch] \o said
          BY <1>0 DEF ConnShape
        <5>2. SaidNow(k, isWriter, out, out2, ch, said)
          BY <5>1, LineGrown
        <5> QED BY <3>1, <5>1, <5>2 DEF SaidNow
      <4> QED BY <2>3, <4>1
    <3>3. told2[ch] = {} /\ InTurn(ch, x, said)
      BY <3>1
    <3>4. Turn(ch, x, said, isWriter, {})
      BY <3>3 DEF Turn
    <3> QED BY <2>3, <3>2, <3>3, <3>4 DEF x
  <2>4. CASE c = ch /\ ~isWriter
    <3>1. Line(k, isWriter, out2, ch) = Line(k, isWriter, out, ch)
      BY <2>4 DEF Line
    <3> QED BY <2>1, <2>4, <3>1 DEF Turn, x
  <2> QED BY <2>2, <2>3, <2>4
<1>3. TxIdsOnce(k, s, isKnown, isWriter, out2)
  <2>1. Line(k, isWriter, out2, "txsubmission") = Line(k, isWriter, out, "txsubmission")
    BY <1>1 DEF AllChannels
  <2> QED BY <2>1 DEF Turns, TxIdsOnce
<1> QED BY <1>2, <1>3 DEF Turns

(* Housekeeping asks for transactions.                                     *)
Asks(chs, s, out, told, said, out2, u) ==
  /\ \A c \in AllChannels : out[c] \in Seq(Tokens)
  /\ told["txsubmission"] = {} /\ s.unsent = NoMsg
  /\ "txsubmission" \in chs /\ s.proto["txsubmission"].at = "Idle"
  /\ said \in {<<>>, <<"RequestTxIds">>}
  /\ \A c \in AllChannels : out2[c] = IF c = "txsubmission" THEN out[c] \o said ELSE out[c]
  /\ u.proto = s.proto /\ u.unsent = RequestTxIds

LEMMA TurnsAsked ==
  ASSUME NEW chs, NEW k, NEW s, NEW isWriter, NEW out, NEW told,
         Turns(chs, k, s, TRUE, isWriter, out, told), NEW said, NEW out2, NEW u,
         Asks(chs, s, out, told, said, out2, u)
  PROVE  Turns(chs, k, u, TRUE, isWriter, out2, told)
<1>7. /\ \A c \in AllChannels : out[c] \in Seq(Tokens)
      /\ told["txsubmission"] = {} /\ s.unsent = NoMsg
      /\ "txsubmission" \in chs /\ s.proto["txsubmission"].at = "Idle"
      /\ said \in {<<>>, <<"RequestTxIds">>}
      /\ \A c \in AllChannels : out2[c] = IF c = "txsubmission" THEN out[c] \o said ELSE out[c]
      /\ u.proto = s.proto /\ u.unsent = RequestTxIds
  BY DEF Asks
<1> USE <1>7
<1> DEFINE tx == "txsubmission"
<1>0. /\ ConnShape(chs, k) /\ tx \in AllChannels /\ RequestTxIds # NoMsg
      /\ "RequestTxIds" \in ServerKinds[tx] /\ <<"Idle", "RequestTxIds", "TxIdsBlocking">> \in Moves[tx]
  <2>1. RequestTxIds # NoMsg
    <3>1. RequestTxIds.ch # NoMsg.ch
      BY DEF RequestTxIds, NoMsg, Msg, None
    <3> QED BY <3>1
  <2>2. tx \in AllChannels /\ "RequestTxIds" \in ServerKinds[tx]
        /\ <<"Idle", "RequestTxIds", "TxIdsBlocking">> \in Moves[tx]
    BY DEF AllChannels, ServerKinds, Moves, TxSubmissionMoves, From
  <2> QED BY <2>1, <2>2 DEF Turns
<1>1. \A c \in AllChannels \ {tx} : Line(k, isWriter, out2, c) = Line(k, isWriter, out, c)
  BY DEF Line
<1>2. \A c \in AllChannels : View(chs, k, u, c) = View(chs, k, s, c)
  BY DEF View
<1>3. Mirrored(k, u, TRUE)
  BY DEF Turns, Mirrored
<1>4. said \in Seq(Tokens)
  <2>1. "RequestTxIds" \in Tokens
    BY <1>0 DEF Tokens, Kinds
  <2>2. <<"RequestTxIds">> \in Seq(Tokens) /\ <<>> \in Seq(Tokens)
    BY <2>1
  <2> QED BY <2>2
<1>5. ASSUME NEW c \in AllChannels
      PROVE  OneTurn(chs, k, u, TRUE, isWriter, out2, told, c)
  <2> SUFFICES ASSUME Live(k, TRUE)
               PROVE  Turn(c, View(chs, k, u, c), Line(k, isWriter, out2, c), isWriter, told[c])
    BY DEF OneTurn
  <2>1. CASE c # tx
    <3>1. Turn(c, View(chs, k, s, c), Line(k, isWriter, out, c), isWriter, told[c])
      BY DEF Turns, OneTurn
    <3> QED BY <1>1, <1>2, <2>1, <3>1
  <2>2. CASE c = tx
    <3>1. Line(k, isWriter, out, tx) = <<>>
      BY DEF Turns, TxIdsOnce
    <3>2. Line(k, isWriter, out2, tx) = IF isWriter THEN said ELSE <<>>
      <4>1. TasksOK(k.tasks) /\ out[tx] \in Seq(Tokens) /\ out2[tx] = out[tx] \o said
        BY <1>0 DEF ConnShape
      <4>2. SaidNow(k, isWriter, out, out2, tx, said)
        BY <1>0, <1>4, <4>1, LineGrown
      <4> QED BY <3>1, <4>1, <4>2 DEF SaidNow
    <3>3. View(chs, k, s, tx) = "Idle"
      BY DEF View, Turns, Mirrored
    <3>4. InTurn(tx, "Idle", <<>>) /\ InTurn(tx, "Idle", <<"RequestTxIds">>)
      BY <1>0, AnsweredBy DEF InTurn
    <3>5. InTurn(tx, "Idle", Line(k, isWriter, out2, tx))
      BY <3>2, <3>4
    <3> QED BY <1>0, <1>2, <2>2, <3>3, <3>5 DEF Turn
  <2> QED BY <2>1, <2>2
<1>6. TxIdsOnce(k, u, TRUE, isWriter, out2)
  BY <1>0 DEF TxIdsOnce
<1> QED BY <1>3, <1>5, <1>6 DEF Turns

-----------------------------------------------------------------------------
(* The peers that a step does not touch, and the one that it does.         *)

LEMMA WriterConn ==
  ASSUME Shapes, NEW q \in Peers, writers[q] # 0
  PROVE  writers[q] \in DOMAIN conns
BY ConnFacts DEF Shapes

SameConns(q) ==
  /\ DOMAIN conns \subseteq DOMAIN conns'
  /\ \A c \in DOMAIN conns : conns[c].pid = q => conns'[c] = conns[c]
  /\ \A c \in DOMAIN conns' : conns'[c].pid = q => c \in DOMAIN conns /\ conns[c].pid = q

LEMMA Untouched ==
  ASSUME Shapes, NEW q \in Peers, PeerTurns(q), scene' = scene, SameConns(q),
         peers'[q] = peers[q], q \in known' <=> q \in known, writers'[q] = writers[q],
         OutOf(q, outbound') = OutOf(q, outbound), ToldOf(q, pending') = ToldOf(q, pending)
  PROVE  PeerTurns(q)'
<1>1. (q \in known') = (q \in known) /\ Channels' = Channels /\ Accusable' = Accusable
  BY DEF Channels, Accusable, Liars, Enders
<1>2. ASSUME NEW c \in DOMAIN conns', conns'[c].pid = q
      PROVE  Turns(Channels', conns'[c], peers'[q], q \in known', writers'[q] = c,
                   OutOf(q, outbound'), ToldOf(q, pending'))
  <2>1. c \in DOMAIN conns /\ conns[c].pid = q /\ conns'[c] = conns[c]
    BY <1>2 DEF SameConns
  <2>2. Turns(Channels, conns[c], peers[q], q \in known, writers[q] = c,
              OutOf(q, outbound), ToldOf(q, pending))
    BY <2>1 DEF PeerTurns
  <2> QED BY <1>1, <2>1, <2>2
<1>3. \A c, d \in DOMAIN conns' : conns'[c].pid = q /\ conns'[d].pid = q => c = d
  BY DEF SameConns, PeerTurns
<1>4. writers'[q] # 0 => conns'[writers'[q]].pid = q
  BY WriterConn DEF SameConns, PeerTurns
<1>5. q \notin Met(conns') => q \notin known' /\ Silent(q)'
  <2> SUFFICES ASSUME q \notin Met(conns') PROVE q \notin known' /\ Silent(q)'
    OBVIOUS
  <2>1. q \notin Met(conns)
    BY DEF Met, SameConns
  <2>2. q \notin known /\ Silent(q)
    BY <2>1 DEF PeerTurns
  <2> QED BY <2>2 DEF Silent
<1>6. q.port \notin Accusable' => ~peers'[q].violation
  BY <1>1 DEF PeerTurns
<1> QED BY <1>2, <1>3, <1>4, <1>5, <1>6 DEF PeerTurns

(* A step of one connection.                                               *)
OneConn(c) ==
  /\ c \in DOMAIN conns /\ DOMAIN conns' = DOMAIN conns /\ conns'[c].pid = conns[c].pid
  /\ \A d \in DOMAIN conns \ {c} : conns'[d] = conns[d]

LEMMA Touched ==
  ASSUME Shapes, NEW p \in Peers, PeerTurns(p), scene' = scene, NEW c \in DOMAIN conns,
         OneConn(c), conns[c].pid = p, writers'[p] \in {writers[p], 0},
         Turns(Channels, conns'[c], peers'[p], p \in known', writers'[p] = c,
               OutOf(p, outbound'), ToldOf(p, pending')),
         p.port \notin Accusable => ~peers'[p].violation
  PROVE  PeerTurns(p)'
<1>1. Channels' = Channels /\ Accusable' = Accusable
  BY DEF Channels, Accusable, Liars, Enders
<1>2. \A d \in DOMAIN conns' : conns'[d].pid = p <=> d = c
  <2>1. \A d \in DOMAIN conns : conns[d].pid = p => d = c
    BY DEF PeerTurns
  <2> QED BY <2>1 DEF OneConn
<1>3. writers'[p] # 0 => conns'[writers'[p]].pid = p
  BY WriterConn DEF OneConn, PeerTurns
<1>4. p \in Met(conns')
  BY <1>2 DEF Met, OneConn
<1>5. ASSUME NEW d \in DOMAIN conns', conns'[d].pid = p
      PROVE  Turns(Channels', conns'[d], peers'[p], p \in known', writers'[p] = d,
                   OutOf(p, outbound'), ToldOf(p, pending'))
  <2>1. d = c
    BY <1>2, <1>5
  <2> QED BY <1>1, <2>1
<1> QED BY <1>1, <1>2, <1>3, <1>4, <1>5 DEF PeerTurns

(* The connections of the others.                                          *)
LEMMA OthersSame ==
  ASSUME NEW c, OneConn(c), NEW q, q # conns[c].pid
  PROVE  SameConns(q)
BY DEF OneConn, SameConns

LEMMA AllSame ==
  ASSUME UNCHANGED conns, NEW q
  PROVE  SameConns(q) /\ \A c \in DOMAIN conns : OneConn(c)
BY DEF OneConn, SameConns

-----------------------------------------------------------------------------
(* The steps: each keeps the turns of all peers.                           *)

LEMMA OutOfFacts ==
  ASSUME NEW q, OutputsOK(q), NEW p
  PROVE  \A ch \in AllChannels :
           OutOf(p, q)[ch] = OutLine(p, ch, q) /\ OutOf(p, q)[ch] \in Seq(Tokens)
BY OutType DEF OutOf

(* Whoever is not spoken to.                                               *)
LEMMA OutOfSame ==
  ASSUME NEW p, NEW q, NEW r, \A ch \in AllChannels : OutLine(p, ch, q) = OutLine(p, ch, r)
  PROVE  OutOf(p, q) = OutOf(p, r)
BY DEF OutOf

LEMMA QuietAppend ==
  ASSUME NEW q, OutputsOK(q), NEW p, NEW o \in {Disconnect(p), Event(p, "PeerDisconnected")}
  PROVE  OutputsOK(Append(q, o)) /\ \A r : OutOf(r, Append(q, o)) = OutOf(r, q)
<1>1. Speaks(o)
  BY QuietTokens DEF AllChannels
<1>2. OutputsOK(Append(q, o))
  BY <1>1, OutAppend DEF AllChannels
<1>3. ASSUME NEW r, NEW ch \in AllChannels
      PROVE  OutLine(r, ch, Append(q, o)) = OutLine(r, ch, q)
  <2>1. OutToken(r, ch, o) = <<>>
    BY QuietTokens
  <2>2. OutLine(r, ch, Append(q, o)) = OutLine(r, ch, q) \o <<>>
    BY <1>1, <2>1, OutAppend, ZenonT(30)
  <2>3. OutLine(r, ch, q) \in Seq(Tokens)
    BY OutType
  <2>4. OutLine(r, ch, q) \o <<>> = OutLine(r, ch, q)
    BY <2>3
  <2> QED BY <2>2, <2>4
<1> QED BY <1>2, <1>3, OutOfSame

LEMMA AppendKeeps ==
  ASSUME ResponderInv, AllTurns, UNCHANGED <<known, peers, poolVars, pending>>, NEW p,
         outbound' = Append(outbound, Disconnect(p))
  PROVE  AllTurns'
<1>1. OutputsOK(outbound') /\ \A r : OutOf(r, outbound') = OutOf(r, outbound)
  BY QuietAppend DEF AllTurns
<1>2. ASSUME NEW q \in Peers PROVE PeerTurns(q)'
  <2>1. PeerTurns(q) /\ Shapes
    BY DEF AllTurns, ResponderInv
  <2>2. SameConns(q)
    BY AllSame DEF poolVars
  <2> QED BY <1>1, <2>1, <2>2, Untouched DEF poolVars
<1> QED BY <1>1, <1>2 DEF AllTurns

(* A peer that never connected.                                            *)
LEMMA StillUnmet ==
  ASSUME NEW p \in Peers, PeerTurns(p), p \notin Met(conns), UNCHANGED <<scene, conns>>,
         writers'[p] \in {writers[p], 0}, p \notin known', Silent(p)',
         p.port \notin Accusable => ~peers'[p].violation
  PROVE  PeerTurns(p)'
<1>1. \A c \in DOMAIN conns : conns[c].pid # p
  BY DEF Met
<1>2. \A c \in DOMAIN conns' : conns'[c].pid # p
  BY <1>1
<1>3. writers'[p] # 0 => conns'[writers'[p]].pid = p
  BY DEF PeerTurns
<1>4. Accusable' = Accusable
  BY DEF Accusable, Liars, Enders
<1> QED BY <1>2, <1>3, <1>4 DEF PeerTurns

LEMMA NothingLeft ==
  ASSUME NEW u \in Seq(Tokens), NEW v \in Seq(Tokens), u \o v = <<>>
  PROVE  u = <<>> /\ v = <<>>
<1>1. Len(u \o v) = Len(u) + Len(v) /\ Len(u) \in Nat /\ Len(v) \in Nat
  OBVIOUS
<1>2. Len(u \o v) = 0
  OBVIOUS
<1>3. Len(u) = 0 /\ Len(v) = 0
  BY <1>1, <1>2
<1> QED BY <1>3

LEMMA SilentTail ==
  ASSUME NEW q, OutputsOK(q), q # <<>>, NEW p, NEW ch \in AllChannels, OutLine(p, ch, q) = <<>>
  PROVE  OutLine(p, ch, Tail(q)) = <<>> /\ OutToken(p, ch, Head(q)) = <<>>
<1>1. /\ OutputsOK(Tail(q)) /\ Speaks(Head(q))
      /\ OutLine(p, ch, q) = OutToken(p, ch, Head(q)) \o OutLine(p, ch, Tail(q))
  BY OutHead
<1>2. OutLine(p, ch, Tail(q)) \in Seq(Tokens)
  BY <1>1, OutType
<1>3. OutToken(p, ch, Head(q)) \in Seq(Tokens)
  BY <1>1, TokenTypes
<1> QED BY <1>1, <1>2, <1>3, NothingLeft

(* The peers that the head of the queue is not about.                      *)
LEMMA PollOthers ==
  ASSUME ResponderInv, AllTurns, outbound # <<>>, outbound' = Tail(outbound),
         UNCHANGED <<known, peers, scene, writers>>, NEW q \in Peers, q # Head(outbound).pid,
         SameConns(q), \A r : r.pid = q => (r \in pending' <=> r \in pending)
  PROVE  PeerTurns(q)'
<1>1. PeerTurns(q) /\ Shapes /\ OutputsOK(outbound)
  BY DEF AllTurns, ResponderInv
<1>2. ASSUME NEW ch \in AllChannels
      PROVE  OutLine(q, ch, outbound') = OutLine(q, ch, outbound)
  <2>1. OutToken(q, ch, Head(outbound)) = <<>>
    BY DEF OutToken
  <2> QED BY <1>1, <2>1, HeadQuiet
<1>3. OutOf(q, outbound') = OutOf(q, outbound)
  BY <1>2, OutOfSame
<1>4. ToldOf(q, pending') = ToldOf(q, pending)
  <2>1. ASSUME NEW ch \in AllChannels
        PROVE  {r \in pending' : r.pid = q /\ r.do \in ShownNames(ch)}
                 = {r \in pending : r.pid = q /\ r.do \in ShownNames(ch)}
    OBVIOUS
  <2> QED BY <2>1 DEF ToldOf
<1> QED BY <1>1, <1>3, <1>4, Untouched

(* A task is queued behind the others of a connection.                     *)
LEMMA TurnsQueued ==
  ASSUME NEW chs, NEW k, NEW s, NEW isKnown, NEW isWriter, NEW out, NEW told,
         Turns(chs, k, s, isKnown, isWriter, out, told), NEW tasks, TasksOK(tasks), NEW out2,
         \A ch \in AllChannels :
           TaskLine(ch, tasks) \o (IF isWriter THEN out2[ch] ELSE <<>>) = Line(k, isWriter, out, ch)
  PROVE  Turns(chs, [k EXCEPT !.tasks = tasks], s, isKnown, isWriter, out2, told)
<1> DEFINE j == [k EXCEPT !.tasks = tasks]
<1>1. /\ ConnShape(chs, k) /\ DOMAIN s.proto = chs /\ ~k.offended /\ Mirrored(k, s, isKnown)
  BY DEF Turns
<1>2. /\ DOMAIN j = DOMAIN k /\ j.tasks = tasks /\ j.pid = k.pid /\ j.shut = k.shut
      /\ j.reading = k.reading /\ j.writing = k.writing /\ j.remote = k.remote
      /\ j.offended = k.offended
  BY <1>1 DEF ConnShape
<1> HIDE DEF j
<1>3. ConnShape(chs, j) /\ ~j.offended /\ Mirrored(j, s, isKnown)
  BY <1>1, <1>2 DEF ConnShape, Mirrored
<1>4. Live(j, isKnown) => Live(k, isKnown) /\ s.unsent = s.unsent
  BY <1>2 DEF Live
<1>5. ASSUME NEW ch \in AllChannels, Live(j, isKnown)
      PROVE  /\ View(chs, j, s, ch) = View(chs, k, s, ch)
             /\ Line(j, isWriter, out2, ch) = Line(k, isWriter, out, ch)
             /\ told[ch] \in {told[ch], {}}
  <2>1. View(chs, j, s, ch) = View(chs, k, s, ch)
    BY <1>2 DEF View
  <2>2. Line(j, isWriter, out2, ch) = Line(k, isWriter, out, ch)
    BY <1>2 DEF Line
  <2> QED BY <2>1, <2>2
<1>6. Turns(chs, j, s, isKnown, isWriter, out2, told)
  BY <1>1, <1>3, <1>4, <1>5, TurnsSame
<1> QED BY <1>6 DEF j

(* The writer of a peer gets a task.                                       *)
LEMMA QueuedConn ==
  ASSUME ResponderInv, AllTurns, NEW p \in Peers, writers[p] # 0, NEW task,
         conns' = Queued(writers[p], task)
  PROVE  /\ OneConn(writers[p]) /\ conns[writers[p]].pid = p
         /\ conns'[writers[p]] = [conns[writers[p]] EXCEPT
                                    !.tasks = Append(conns[writers[p]].tasks, task)]
<1> DEFINE c == writers[p]
<1>1. c \in DOMAIN conns
  BY WriterConn DEF ResponderInv
<1>2. conns[c].pid = p /\ PeerTurns(p)
  BY DEF AllTurns, PeerTurns
<1>3. "tasks" \in DOMAIN conns[c] /\ {"pid", "shut"} \subseteq DOMAIN conns[c]
  BY <1>1, <1>2 DEF PeerTurns, Turns, ConnShape
<1>4. conns'[c] = [conns[c] EXCEPT !.tasks = Append(conns[c].tasks, task)]
  BY <1>1 DEF Queued
<1>5. DOMAIN conns' = DOMAIN conns /\ \A d \in DOMAIN conns \ {c} : conns'[d] = conns[d]
  BY DEF Queued
<1>6. conns'[c].pid = conns[c].pid
  BY <1>3, <1>4
<1> QED BY <1>1, <1>2, <1>4, <1>5, <1>6 DEF OneConn

(* The connection of a peer, with its turns.                               *)
LEMMA ConnTurns ==
  ASSUME ResponderInv, AllTurns, NEW c \in DOMAIN conns
  PROVE  LET p == conns[c].pid
         IN  /\ p \in Peers /\ PeerTurns(p) /\ StateOK(peers[p]) /\ Shapes
             /\ p.port \notin Accusable => ~peers[p].violation
             /\ Turns(Channels, conns[c], peers[p], p \in known, writers[p] = c,
                      OutOf(p, outbound), ToldOf(p, pending))
             /\ ConnShape(Channels, conns[c]) /\ DOMAIN peers[p].proto = Channels
             /\ ~conns[c].offended /\ Mirrored(conns[c], peers[p], p \in known)
<1> DEFINE p == conns[c].pid
<1>1. p \in Peers /\ Shapes
  BY ConnFacts DEF ResponderInv, Shapes
<1>2. PeerTurns(p) /\ StateOK(peers[p])
  BY <1>1 DEF AllTurns, Shapes
<1>3. Turns(Channels, conns[c], peers[p], p \in known, writers[p] = c,
            OutOf(p, outbound), ToldOf(p, pending))
  BY <1>2 DEF PeerTurns
<1>4. p.port \notin Accusable => ~peers[p].violation
  BY <1>2 DEF PeerTurns
<1>5. /\ ConnShape(Channels, conns[c]) /\ DOMAIN peers[p].proto = Channels
      /\ ~conns[c].offended /\ Mirrored(conns[c], peers[p], p \in known)
  BY <1>3 DEF Turns
<1> QED BY <1>1, <1>2, <1>3, <1>4, <1>5

(* What is pushed for a peer does not reach a connection it has lost.      *)
LEMMA TurnsMute ==
  ASSUME NEW chs, NEW k, NEW s, NEW isKnown, NEW out, NEW told,
         Turns(chs, k, s, isKnown, FALSE, out, told), NEW out2
  PROVE  Turns(chs, k, s, isKnown, FALSE, out2, told)
<1>1. \A ch : Line(k, FALSE, out2, ch) = Line(k, FALSE, out, ch)
  BY DEF Line
<1> QED BY <1>1 DEF Turns, OneTurn, TxIdsOnce, AllChannels

LEMMA PollSend ==
  ASSUME ResponderInv, AllTurns, outbound # <<>>, outbound' = Tail(outbound),
         UNCHANGED <<known, peers, pending>>, NEW p \in Peers, Head(outbound).pid = p,
         Head(outbound).do = "Send", dispatch_send(p, Head(outbound).msg)
  PROVE  PeerTurns(p)' /\ \A q : q # p => SameConns(q)
<1> DEFINE m == Head(outbound).msg
<1>1. OutputsOK(outbound) /\ PeerTurns(p) /\ Shapes
  BY DEF AllTurns, ResponderInv
<1>2. UNCHANGED <<scene, writers>> /\ (p.port \notin Accusable => ~peers'[p].violation)
  BY <1>1 DEF dispatch_send, PeerTurns
<1>3. CASE writers[p] # 0
  <2> DEFINE c == writers[p]
  <2>1. conns' = Queued(c, m)
    BY <1>3 DEF dispatch_send
  <2>2. /\ OneConn(c) /\ conns[c].pid = p
        /\ conns'[c] = [conns[c] EXCEPT !.tasks = Append(conns[c].tasks, m)]
    BY <1>3, <2>1, QueuedConn
  <2>3. c \in DOMAIN conns
    BY <2>2 DEF OneConn
  <2>4. /\ Turns(Channels, conns[c], peers[p], p \in known, writers[p] = c,
                 OutOf(p, outbound), ToldOf(p, pending))
        /\ ConnShape(Channels, conns[c])
    BY <2>2, <2>3, ConnTurns
  <2> HIDE DEF c
  <2>5. TasksOK(conns[c].tasks)
    BY <2>4 DEF ConnShape
  <2>6. ASSUME NEW ch \in AllChannels
        PROVE  /\ TasksOK(Append(conns[c].tasks, m))
               /\ TaskLine(ch, Append(conns[c].tasks, m)) \o OutOf(p, outbound')[ch]
                    = Line(conns[c], writers[p] = c, OutOf(p, outbound), ch)
    <3>1. /\ TasksOK(Append(conns[c].tasks, m))
          /\ TaskLine(ch, Append(conns[c].tasks, m)) \o OutLine(p, ch, outbound')
               = TaskLine(ch, conns[c].tasks) \o OutLine(p, ch, outbound)
      BY <1>1, <2>5, HeadSent
    <3>2. writers[p] = c
      BY DEF c
    <3> QED BY <3>1, <3>2 DEF Line, OutOf
  <2>7. TasksOK(Append(conns[c].tasks, m))
    BY <2>6 DEF AllChannels
  <2>8. \A ch \in AllChannels :
          TaskLine(ch, Append(conns[c].tasks, m))
            \o (IF writers[p] = c THEN OutOf(p, outbound')[ch] ELSE <<>>)
              = Line(conns[c], writers[p] = c, OutOf(p, outbound), ch)
    BY <2>6 DEF c
  <2>9. Turns(Channels, conns'[c], peers[p], p \in known, writers[p] = c,
              OutOf(p, outbound'), ToldOf(p, pending))
    <3> DEFINE tasks == Append(conns[c].tasks, m)
               out2 == OutOf(p, outbound')
               told == ToldOf(p, pending)
               out == OutOf(p, outbound)
               k == conns[c]
               w == writers[p] = c
               isKnown == p \in known
               s == peers[p]
    <3>1. /\ Turns(Channels, k, s, isKnown, w, out, told) /\ TasksOK(tasks)
          /\ \A ch \in AllChannels :
               TaskLine(ch, tasks) \o (IF w THEN out2[ch] ELSE <<>>) = Line(k, w, out, ch)
      BY <2>4, <2>7, <2>8
    <3> HIDE DEF tasks, out2, told, out, k, w, isKnown, s
    <3>2. Turns(Channels, [k EXCEPT !.tasks = tasks], s, isKnown, w, out2, told)
      BY <3>1, TurnsQueued
    <3> QED BY <2>2, <3>2 DEF tasks, out2, told, k, w, isKnown, s
  <2>10. PeerTurns(p)'
    BY <1>1, <1>2, <2>2, <2>3, <2>9, Touched
  <2> QED BY <2>2, <2>10, OthersSame
<1>4. CASE writers[p] = 0 /\ p \in Met(conns)
  <2>1. UNCHANGED conns
    BY <1>4 DEF dispatch_send
  <2>2. PICK c \in DOMAIN conns : conns[c].pid = p
    BY <1>4 DEF Met
  <2>3. Turns(Channels, conns[c], peers[p], p \in known, writers[p] = c,
              OutOf(p, outbound), ToldOf(p, pending))
    BY <2>2, ConnTurns
  <2>4. (writers[p] = c) = FALSE
    BY <1>1, <1>4, ConnFacts DEF Shapes
  <2>5. Turns(Channels, conns[c], peers[p], p \in known, FALSE,
              OutOf(p, outbound'), ToldOf(p, pending))
    BY <2>3, <2>4, TurnsMute
  <2>6. OneConn(c) /\ \A q : SameConns(q)
    BY <2>1, AllSame
  <2>7. Turns(Channels, conns'[c], peers'[p], p \in known', writers'[p] = c,
              OutOf(p, outbound'), ToldOf(p, pending'))
    BY <1>2, <2>1, <2>4, <2>5
  <2>8. PeerTurns(p)'
    BY <1>1, <1>2, <2>2, <2>6, <2>7, Touched
  <2> QED BY <2>6, <2>8
<1>5. CASE writers[p] = 0 /\ p \notin Met(conns)
  <2>1. UNCHANGED conns
    BY <1>5 DEF dispatch_send
  <2>2. p \notin known /\ Silent(p)
    BY <1>1, <1>5 DEF PeerTurns
  <2>3. Silent(p)'
    <3>1. \A ch \in AllChannels : OutLine(p, ch, outbound) = <<>> /\ ToldOf(p, pending)[ch] = {}
      BY <2>2 DEF Silent, OutOf
    <3>2. \A ch \in AllChannels : OutLine(p, ch, outbound') = <<>>
      BY <1>1, <3>1, SilentTail
    <3> QED BY <3>1, <3>2 DEF Silent, OutOf
  <2>4. PeerTurns(p)'
    BY <1>1, <1>2, <1>5, <2>1, <2>2, <2>3, StillUnmet
  <2> QED BY <2>1, <2>4, AllSame
<1> QED BY <1>3, <1>4, <1>5

LEMMA PollDisconnect ==
  ASSUME ResponderInv, AllTurns, outbound # <<>>, outbound' = Tail(outbound),
         UNCHANGED <<known, peers, pending>>, NEW p \in Peers, Head(outbound).pid = p,
         Head(outbound).do = "Disconnect", dispatch_disconnect(p)
  PROVE  PeerTurns(p)' /\ \A q : q # p => SameConns(q)
<1>1. OutputsOK(outbound) /\ PeerTurns(p) /\ Shapes
  BY DEF AllTurns, ResponderInv
<1>2. UNCHANGED <<scene, writers>> /\ (p.port \notin Accusable => ~peers'[p].violation)
  BY <1>1 DEF dispatch_disconnect, PeerTurns
<1>3. OutOf(p, outbound') = OutOf(p, outbound)
  <2>1. ASSUME NEW ch \in AllChannels
        PROVE  OutLine(p, ch, outbound') = OutLine(p, ch, outbound)
    <3>1. OutToken(p, ch, Head(outbound)) = <<>>
      BY DEF OutToken, ShownNames, Shown
    <3> QED BY <1>1, <3>1, HeadQuiet
  <2> QED BY <2>1, OutOfSame
<1>4. CASE writers[p] # 0
  <2> DEFINE c == writers[p]
  <2>1. conns' = Queued(c, Shutdown)
    BY <1>4 DEF dispatch_disconnect
  <2>2. /\ OneConn(c) /\ conns[c].pid = p
        /\ conns'[c] = [conns[c] EXCEPT !.tasks = Append(conns[c].tasks, Shutdown)]
    BY <1>4, <2>1, QueuedConn
  <2>3. c \in DOMAIN conns
    BY <2>2 DEF OneConn
  <2>4. /\ Turns(Channels, conns[c], peers[p], p \in known, writers[p] = c,
                 OutOf(p, outbound), ToldOf(p, pending))
        /\ ConnShape(Channels, conns[c])
    BY <2>2, <2>3, ConnTurns
  <2> HIDE DEF c
  <2>5. TasksOK(conns[c].tasks)
    BY <2>4 DEF ConnShape
  <2>6. \A ch \in AllChannels :
          /\ TasksOK(Append(conns[c].tasks, Shutdown))
          /\ TaskLine(ch, Append(conns[c].tasks, Shutdown)) = TaskLine(ch, conns[c].tasks)
    BY <2>5, ShutdownQueued
  <2>9. Turns(Channels, conns'[c], peers[p], p \in known, writers[p] = c,
              OutOf(p, outbound), ToldOf(p, pending))
    <3> DEFINE tasks == Append(conns[c].tasks, Shutdown)
               told == ToldOf(p, pending)
               out == OutOf(p, outbound)
               k == conns[c]
               w == writers[p] = c
               isKnown == p \in known
               s == peers[p]
    <3>1. Turns(Channels, k, s, isKnown, w, out, told)
      BY <2>4
    <3>2. TasksOK(tasks) /\ \A ch \in AllChannels : TaskLine(ch, tasks) = TaskLine(ch, k.tasks)
      BY <2>6 DEF AllChannels
    <3>4. conns'[c] = [k EXCEPT !.tasks = tasks]
      BY <2>2
    <3> HIDE DEF tasks, told, out, k, w, isKnown, s
    <3>5. \A ch \in AllChannels :
            TaskLine(ch, tasks) \o (IF w THEN out[ch] ELSE <<>>) = Line(k, w, out, ch)
      BY <3>2 DEF Line
    <3>6. Turns(Channels, [k EXCEPT !.tasks = tasks], s, isKnown, w, out, told)
      BY <3>1, <3>2, <3>5, TurnsQueued
    <3> QED BY <3>4, <3>6 DEF told, out, w, isKnown, s
  <2>10. PeerTurns(p)'
    BY <1>1, <1>2, <1>3, <2>2, <2>3, <2>9, Touched
  <2> QED BY <2>2, <2>10, OthersSame
<1>5. CASE writers[p] = 0
  <2>1. UNCHANGED conns
    BY <1>5 DEF dispatch_disconnect
  <2>2. \A q : SameConns(q)
    BY <2>1, AllSame
  <2> QED BY <1>1, <1>2, <1>3, <2>2, Untouched
<1> QED BY <1>4, <1>5

(* Events that are no requests.                                            *)
LEMMA PollEvent ==
  ASSUME ResponderInv, AllTurns, outbound # <<>>, outbound' = Tail(outbound),
         UNCHANGED <<known, peers, poolVars>>, NEW p \in Peers, Head(outbound).pid = p,
         Head(outbound).do \notin {"Send", "Disconnect"},
         IF Head(outbound).do \in RequestNames THEN pending' = pending \cup {Head(outbound)}
         ELSE pending' \in {pending, {r \in pending : r.pid # p}}
  PROVE  PeerTurns(p)'
<1> DEFINE o == Head(outbound)
<1>1. OutputsOK(outbound) /\ PeerTurns(p) /\ Shapes
  BY DEF AllTurns, ResponderInv
<1>2. /\ UNCHANGED <<scene, conns, writers, peers, known>>
      /\ p.port \notin Accusable => ~peers'[p].violation
  BY <1>1 DEF poolVars, PeerTurns
<1>3. \A ch \in AllChannels : ShownNames(ch) \subseteq RequestNames
  BY DEF ShownNames, RequestNames
<1>4. ASSUME NEW ch \in AllChannels
      PROVE  IF o.do \in ShownNames(ch)
               THEN ToldOf(p, pending')[ch] = ToldOf(p, pending)[ch] \cup {o}
               ELSE ToldOf(p, pending')[ch] \in {ToldOf(p, pending)[ch], {}}
  <2> DEFINE Told(rs) == {r \in rs : r.pid = p /\ r.do \in ShownNames(ch)}
  <2>1. ToldOf(p, pending')[ch] = Told(pending') /\ ToldOf(p, pending)[ch] = Told(pending)
    BY DEF ToldOf
  <2>2. CASE o.do \in ShownNames(ch)
    <3>1. pending' = pending \cup {o}
      BY <1>3, <2>2
    <3>2. Told(pending \cup {o}) = Told(pending) \cup {o}
      BY <2>2
    <3> QED BY <2>1, <2>2, <3>1, <3>2
  <2>3. CASE o.do \notin ShownNames(ch)
    <3>1. Told(pending \cup {o}) = Told(pending)
      BY <2>3
    <3>2. Told({r \in pending : r.pid # p}) = {}
      OBVIOUS
    <3>3. pending' \in {pending, pending \cup {o}, {r \in pending : r.pid # p}}
      OBVIOUS
    <3> QED BY <2>1, <2>3, <3>1, <3>2, <3>3
  <2> QED BY <2>2, <2>3
<1>5. CASE p \in Met(conns)
  <2>2. PICK c \in DOMAIN conns : conns[c].pid = p
    BY <1>5 DEF Met
  <2>3. Turns(Channels, conns[c], peers[p], p \in known, writers[p] = c,
              OutOf(p, outbound), ToldOf(p, pending))
    BY <2>2, ConnTurns
  <2>4. Turns(Channels, conns[c], peers[p], p \in known, writers[p] = c,
              OutOf(p, outbound'), ToldOf(p, pending'))
    <3> DEFINE told == ToldOf(p, pending)
               told2 == ToldOf(p, pending')
               w == writers[p] = c
               isKnown == p \in known
               q == outbound
    <3>1. \A ch \in AllChannels :
            IF Head(q).do \in ShownNames(ch) THEN told2[ch] = told[ch] \cup {Head(q)}
                                             ELSE told2[ch] \in {told[ch], {}}
      BY <1>4
    <3>2. Turns(Channels, conns[c], peers[p], isKnown, w, OutOf(p, q), told)
      BY <2>3
    <3>3. OutputsOK(q) /\ q # <<>> /\ Head(q).pid = p /\ Head(q).do # "Send"
      BY <1>1
    <3> HIDE DEF told, told2, w, isKnown, q
    <3>4. Turns(Channels, conns[c], peers[p], isKnown, w, OutOf(p, Tail(q)), told2)
      BY <3>1, <3>2, <3>3, TurnsTold
    <3> QED BY <3>4 DEF told2, w, isKnown, q
  <2>5. Turns(Channels, conns'[c], peers'[p], p \in known', writers'[p] = c,
              OutOf(p, outbound'), ToldOf(p, pending'))
    BY <1>2, <2>4
  <2>6. OneConn(c)
    BY <1>2, AllSame
  <2> QED BY <1>1, <1>2, <2>2, <2>5, <2>6, Touched
<1>6. CASE p \notin Met(conns)
  <2>1. p \notin known /\ Silent(p)
    BY <1>1, <1>6 DEF PeerTurns
  <2>2. \A ch \in AllChannels : OutLine(p, ch, outbound) = <<>> /\ ToldOf(p, pending)[ch] = {}
    BY <2>1 DEF Silent, OutOf
  <2>3. ASSUME NEW ch \in AllChannels
        PROVE  OutLine(p, ch, outbound') = <<>> /\ ToldOf(p, pending')[ch] = {}
    <3>1. OutLine(p, ch, outbound') = <<>> /\ OutToken(p, ch, o) = <<>>
      BY <1>1, <2>2, SilentTail
    <3>2. o.do \notin ShownNames(ch)
      BY <3>1 DEF OutToken
    <3> QED BY <1>4, <2>2, <3>1, <3>2
  <2>4. Silent(p)'
    BY <2>3 DEF Silent, OutOf
  <2> QED BY <1>1, <1>2, <1>6, <2>1, <2>4, StillUnmet
<1> QED BY <1>5, <1>6

LEMMA PollTurns ==
  ASSUME ResponderInv, AllTurns, PollBehavior
  PROVE  AllTurns'
<1> DEFINE o == Head(outbound)
<1>1. /\ outbound # <<>> /\ outbound' = Tail(outbound) /\ UNCHANGED <<known, peers>>
      /\ OutputsOK(outbound) /\ Shapes
  BY DEF PollBehavior, AllTurns, ResponderInv
<1>2. PICK p \in Peers : o.pid = p
  BY <1>1, QueueTail DEF Shapes
<1>3. OutputsOK(outbound')
  BY <1>1, OutHead DEF AllChannels
<1>4. /\ o.do \in RequestNames => pending' = pending \cup {o}
      /\ o.do \notin RequestNames => pending' \in {pending, {r \in pending : r.pid # p}}
      /\ o.do \in {"Send", "Disconnect"} => pending' = pending
  <2>1. pending' = CASE o.do \in RequestNames -> pending \cup {o}
                     [] o.do = "PeerDisconnected" -> {r \in pending : r.pid # o.pid}
                     [] OTHER -> pending
    BY DEF PollBehavior
  <2>2. "Send" \notin RequestNames /\ "Disconnect" \notin RequestNames
        /\ "PeerDisconnected" \notin RequestNames
    BY DEF RequestNames, Shown
  <2> HIDE DEF o
  <2> QED BY <1>2, <2>1, <2>2
<1>5. PeerTurns(p)' /\ UNCHANGED <<scene, writers>> /\ \A q : q # p => SameConns(q)
  <2>1. CASE o.do = "Send" /\ dispatch_send(p, o.msg)
    <3>1. UNCHANGED <<scene, writers>> /\ pending' = pending
      BY <1>4, <2>1 DEF dispatch_send
    <3>2. PeerTurns(p)' /\ \A q : q # p => SameConns(q)
      BY <1>1, <1>2, <2>1, <3>1, PollSend
    <3> QED BY <3>1, <3>2
  <2>2. CASE o.do = "Disconnect" /\ dispatch_disconnect(p)
    <3>1. UNCHANGED <<scene, writers>> /\ pending' = pending
      BY <1>4, <2>2 DEF dispatch_disconnect
    <3>2. PeerTurns(p)' /\ \A q : q # p => SameConns(q)
      BY <1>1, <1>2, <2>2, <3>1, PollDisconnect
    <3> QED BY <3>1, <3>2
  <2>3. CASE o.do \notin {"Send", "Disconnect"} /\ UNCHANGED poolVars
    <3>1. UNCHANGED <<scene, conns, writers>>
      BY <2>3 DEF poolVars
    <3>2. PeerTurns(p)'
      BY <1>1, <1>2, <1>4, <2>3, PollEvent
    <3> QED BY <3>1, <3>2, AllSame
  <2> QED BY <1>2, <2>1, <2>2, <2>3 DEF PollBehavior
<1>6. ASSUME NEW q \in Peers, q # p PROVE PeerTurns(q)'
  <2>1. \A r : r.pid = q => (r \in pending' <=> r \in pending)
    BY <1>2, <1>4, <1>6
  <2> QED BY <1>1, <1>2, <1>5, <1>6, <2>1, PollOthers
<1> QED BY <1>3, <1>5, <1>6 DEF AllTurns

-----------------------------------------------------------------------------
(* Steps of one connection; the others are not touched.                    *)

LEMMA ConnStep ==
  ASSUME ResponderInv, AllTurns, NEW c \in DOMAIN conns, OneConn(c), scene' = scene,
         OutputsOK(outbound'),
         \A q \in Peers \ {conns[c].pid} :
           /\ peers'[q] = peers[q] /\ (q \in known' <=> q \in known)
           /\ OutOf(q, outbound') = OutOf(q, outbound),
         pending' = pending,
         writers' = writers \/ writers' = [writers EXCEPT ![conns[c].pid] = 0],
         Turns(Channels, conns'[c], peers'[conns[c].pid], conns[c].pid \in known',
               writers'[conns[c].pid] = c, OutOf(conns[c].pid, outbound'),
               ToldOf(conns[c].pid, pending)),
         conns[c].pid.port \notin Accusable => ~peers'[conns[c].pid].violation
  PROVE  AllTurns'
<1>0. PICK p \in Peers : p = conns[c].pid
  BY ConnTurns
<1>1. PeerTurns(p) /\ Shapes
  BY <1>0, ConnTurns
<1>2. writers'[p] \in {writers[p], 0} /\ \A q \in Peers \ {p} : writers'[q] = writers[q]
  BY <1>1, <1>0 DEF Shapes
<1>3. PeerTurns(p)'
  BY <1>1, <1>2, <1>0, Touched
<1>4. ASSUME NEW q \in Peers, q # p PROVE PeerTurns(q)'
  <2>1. SameConns(q) /\ PeerTurns(q)
    BY <1>4, <1>0, OthersSame DEF AllTurns
  <2> QED BY <1>1, <1>2, <1>4, <1>0, <2>1, Untouched
<1> QED BY <1>3, <1>4 DEF AllTurns

(* One connection becomes k.                                               *)
LEMMA OneBecomes ==
  ASSUME NEW c \in DOMAIN conns, NEW k, k.pid = conns[c].pid, conns' = [conns EXCEPT ![c] = k]
  PROVE  OneConn(c) /\ conns'[c] = k
BY DEF OneConn

LEMMA SentTurns ==
  ASSUME ResponderInv, AllTurns, NEW c \in DOMAIN conns, Sent(c)
  PROVE  AllTurns'
<1> DEFINE k == conns[c]
           p == k.pid
           m == Head(k.tasks)
           j == RemoteGets([k EXCEPT !.tasks = Tail(@)], m)
<1>1. /\ p \in Peers /\ PeerTurns(p) /\ StateOK(peers[p]) /\ Shapes
      /\ p.port \notin Accusable => ~peers[p].violation
      /\ Turns(Channels, k, peers[p], p \in known, writers[p] = c,
               OutOf(p, outbound), ToldOf(p, pending))
      /\ ConnShape(Channels, k)
  BY ConnTurns
<1>2. /\ k.tasks # <<>> /\ m.ch # Shutdown.ch /\ ~k.shut /\ k.writing
      /\ conns' = [conns EXCEPT ![c] = j] /\ UNCHANGED <<scene, writers>>
  BY DEF Sent, PoolSent, IsShutdown, Task
<1>3. /\ UNCHANGED <<known, outbound, pending>>
      /\ peers' = IF p \in known
                    THEN [peers EXCEPT ![p] = apply_msg(clear_unsent(@, m), m)] ELSE peers
  BY DEF Sent, on_outbound_msg, Task
<1>4. Speech(m)
  BY <1>1, <1>2, TaskHead DEF ConnShape, AllChannels
<1>5. /\ peers'[p] = IF p \in known THEN apply_msg(clear_unsent(peers[p], m), m) ELSE peers[p]
      /\ \A q \in Peers \ {p} : peers'[q] = peers[q]
  BY <1>1, <1>3 DEF Shapes
<1>6. \A ch \in AllChannels : OutOf(p, outbound)[ch] \in Seq(Tokens)
  BY OutOfFacts DEF AllTurns
<1>7. /\ Turns(Channels, j, peers'[p], p \in known, writers[p] = c,
               OutOf(p, outbound), ToldOf(p, pending))
      /\ peers'[p].violation = peers[p].violation
  <2> DEFINE w == writers[p] = c
             isKnown == p \in known
             out == OutOf(p, outbound)
             told == ToldOf(p, pending)
             s == peers[p]
             u == peers'[p]
             kk == k
  <2>1. /\ Turns(Channels, kk, s, isKnown, w, out, told) /\ StateOK(s)
        /\ \A ch \in AllChannels : out[ch] \in Seq(Tokens)
        /\ kk.tasks # <<>> /\ Speech(Head(kk.tasks)) /\ ~kk.shut /\ kk.writing
        /\ u = IF isKnown THEN apply_msg(clear_unsent(s, Head(kk.tasks)), Head(kk.tasks)) ELSE s
    BY <1>1, <1>2, <1>4, <1>5, <1>6
  <2> HIDE DEF w, isKnown, out, told, s, u, kk
  <2>2. /\ Turns(Channels, RemoteGets([kk EXCEPT !.tasks = Tail(@)], Head(kk.tasks)),
                 u, isKnown, w, out, told)
        /\ u.violation = s.violation
    BY <2>1, TurnsSent
  <2> QED BY <2>2 DEF w, isKnown, out, told, s, u, kk
<1>8. j.pid = k.pid
  <2>1. {"pid", "shut"} \subseteq DOMAIN k
    BY <1>1 DEF ConnShape
  <2> QED BY <2>1 DEF RemoteGets
<1> HIDE DEF j
<1>9. OneConn(c) /\ conns'[c] = j
  BY <1>2, <1>8, OneBecomes
<1> QED BY <1>1, <1>2, <1>3, <1>5, <1>7, <1>9, ConnStep DEF AllTurns

(* What the handlers of an error and of a disconnect do to the peers.      *)
LEMMA ErroredQuiet ==
  ASSUME ResponderInv, AllTurns, NEW p \in Peers, on_errored(p)
  PROVE  /\ OutputsOK(outbound') /\ \A q : OutOf(q, outbound') = OutOf(q, outbound)
         /\ UNCHANGED <<known, pending>> /\ \A q \in Peers \ {p} : peers'[q] = peers[q]
         /\ peers'[p].proto = peers[p].proto /\ peers'[p].unsent = peers[p].unsent
         /\ peers'[p].violation = peers[p].violation
<1>1. /\ OutputsOK(outbound) /\ DOMAIN peers = Peers
      /\ {"connection", "violation", "error_count", "proto", "unsent"} \subseteq DOMAIN peers[p]
  BY DEF AllTurns, ResponderInv, Shapes, StateOK
<1>2. CASE p \in known
  <2>1. /\ peers' = [peers EXCEPT ![p].connection = "Errored", ![p].error_count = @ + 1]
        /\ outbound' = Append(outbound, Disconnect(p)) /\ UNCHANGED <<known, pending>>
    BY <1>2 DEF on_errored
  <2>2. OutputsOK(outbound') /\ \A q : OutOf(q, outbound') = OutOf(q, outbound)
    BY <1>1, <2>1, QuietAppend
  <2>3. /\ \A q \in Peers \ {p} : peers'[q] = peers[q]
        /\ peers'[p].proto = peers[p].proto /\ peers'[p].unsent = peers[p].unsent
        /\ peers'[p].violation = peers[p].violation
    BY <1>1, <2>1
  <2> QED BY <2>1, <2>2, <2>3
<1>3. CASE p \notin known
  BY <1>1, <1>3 DEF on_errored
<1> QED BY <1>2, <1>3

LEMMA DisconnectedQuiet ==
  ASSUME ResponderInv, AllTurns, NEW p \in Peers, on_disconnected(p)
  PROVE  /\ OutputsOK(outbound') /\ \A q : OutOf(q, outbound') = OutOf(q, outbound)
         /\ pending' = pending /\ known' = known \ {p}
         /\ \A q \in Peers \ {p} : peers'[q] = peers[q]
         /\ DOMAIN peers'[p].proto = Channels /\ ~peers'[p].violation
<1>1. OutputsOK(outbound) /\ DOMAIN peers = Peers
  BY DEF AllTurns, ResponderInv, Shapes
<1>2. /\ peers' = [peers EXCEPT ![p] = NewState] /\ known' = known \ {p} /\ pending' = pending
      /\ outbound' = Append(outbound, Event(p, "PeerDisconnected"))
  BY DEF on_disconnected
<1>3. OutputsOK(outbound') /\ \A q : OutOf(q, outbound') = OutOf(q, outbound)
  BY <1>1, <1>2, QuietAppend
<1>4. peers'[p] = NewState /\ \A q \in Peers \ {p} : peers'[q] = peers[q]
  BY <1>1, <1>2
<1>5. DOMAIN NewState.proto = Channels /\ ~NewState.violation
  BY DEF NewState
<1> QED BY <1>2, <1>3, <1>4, <1>5

LEMMA SendFailedTurns ==
  ASSUME ResponderInv, AllTurns, NEW c \in DOMAIN conns, SendFailed(c)
  PROVE  AllTurns'
<1>0. PICK p \in Peers : p = conns[c].pid
  BY ConnTurns
<1> DEFINE k == conns[c]
           j == [k EXCEPT !.tasks = Tail(k.tasks), !.writing = FALSE]
<1>1. /\ Shapes /\ (p.port \notin Accusable => ~peers[p].violation)
      /\ ConnShape(Channels, k) /\ DOMAIN peers[p].proto = Channels
      /\ ~k.offended /\ Mirrored(k, peers[p], p \in known)
  BY <1>0, ConnTurns
<1>2. /\ k.tasks # <<>> /\ UNCHANGED <<scene, writers>>
      /\ conns' = [conns EXCEPT ![c].tasks = Tail(@), ![c].writing = FALSE]
  BY DEF SendFailed, PoolSendFailed
<1>3. conns' = [conns EXCEPT ![c] = j]
  BY <1>2
<1>4. /\ OutputsOK(outbound') /\ \A q : OutOf(q, outbound') = OutOf(q, outbound)
      /\ UNCHANGED <<known, pending>> /\ \A q \in Peers \ {p} : peers'[q] = peers[q]
      /\ peers'[p].proto = peers[p].proto /\ peers'[p].violation = peers[p].violation
  BY <1>0, ErroredQuiet DEF SendFailed
<1>5. /\ DOMAIN j = DOMAIN k /\ j.pid = k.pid /\ j.tasks = Tail(k.tasks) /\ ~j.writing
      /\ j.reading = k.reading /\ j.remote = k.remote /\ j.offended = k.offended
  BY <1>1 DEF ConnShape
<1> HIDE DEF j
<1>6. TasksOK(j.tasks)
  BY <1>1, <1>2, <1>5, TaskHead DEF ConnShape, AllChannels
<1>7. ConnShape(Channels, j) /\ ~j.offended /\ Mirrored(j, peers'[p], p \in known')
  BY <1>1, <1>4, <1>5, <1>6 DEF ConnShape, Mirrored
<1>8. ~Live(j, p \in known')
  BY <1>5 DEF Live
<1>9. OneConn(c) /\ conns'[c] = j
  BY <1>3, <1>5, OneBecomes
<1>10. Turns(Channels, conns'[c], peers'[p], p \in known', writers'[p] = c, OutOf(p, outbound'),
             ToldOf(p, pending))
  BY <1>1, <1>4, <1>7, <1>8, <1>9, TurnsOver
<1> QED BY <1>0, <1>1, <1>2, <1>4, <1>9, <1>10, ConnStep

LEMMA DisconnectedTurns ==
  ASSUME ResponderInv, AllTurns, NEW c \in DOMAIN conns, Disconnected(c)
  PROVE  AllTurns'
<1>0. PICK p \in Peers : p = conns[c].pid
  BY ConnTurns
<1> DEFINE k == conns[c]
           j == [k EXCEPT !.tasks = Tail(k.tasks), !.shut = TRUE]
<1>1. /\ Shapes /\ ConnShape(Channels, k) /\ ~k.offended
  BY <1>0, ConnTurns
<1>2. /\ k.tasks # <<>> /\ UNCHANGED scene /\ writers' = [writers EXCEPT ![p] = 0]
      /\ conns' = [conns EXCEPT ![c].tasks = Tail(@), ![c].shut = TRUE]
  BY <1>0 DEF Disconnected, PoolDisconnected
<1>3. conns' = [conns EXCEPT ![c] = j]
  BY <1>2
<1>4. /\ OutputsOK(outbound') /\ \A q : OutOf(q, outbound') = OutOf(q, outbound)
      /\ pending' = pending /\ known' = known \ {p}
      /\ \A q \in Peers \ {p} : peers'[q] = peers[q]
      /\ DOMAIN peers'[p].proto = Channels /\ ~peers'[p].violation
  BY <1>0, DisconnectedQuiet DEF Disconnected
<1>5. /\ DOMAIN j = DOMAIN k /\ j.pid = k.pid /\ j.tasks = Tail(k.tasks) /\ j.shut
      /\ j.remote = k.remote /\ j.offended = k.offended
  BY <1>1 DEF ConnShape
<1> HIDE DEF j
<1>6. TasksOK(j.tasks)
  BY <1>1, <1>2, <1>5, TaskHead DEF ConnShape, AllChannels
<1>7. ConnShape(Channels, j) /\ ~j.offended /\ Mirrored(j, peers'[p], p \in known')
  BY <1>1, <1>4, <1>5, <1>6 DEF ConnShape, Mirrored
<1>8. ~Live(j, p \in known')
  BY <1>5 DEF Live
<1>9. OneConn(c) /\ conns'[c] = j
  BY <1>3, <1>5, OneBecomes
<1>10. Turns(Channels, conns'[c], peers'[p], p \in known', writers'[p] = c, OutOf(p, outbound'),
             ToldOf(p, pending))
  BY <1>4, <1>7, <1>8, <1>9, TurnsOver
<1> QED BY <1>0, <1>2, <1>4, <1>9, <1>10, ConnStep

(* The reader of a tracked peer fails; the writer goes on.                 *)
LEMMA TurnsUnread ==
  ASSUME NEW chs, NEW k, NEW s, NEW isWriter, NEW out, NEW told,
         Turns(chs, k, s, TRUE, isWriter, out, told), k.reading,
         NEW j, ConnShape(chs, j), ~j.offended, ~j.reading, j.tasks = k.tasks,
         j.shut = k.shut, j.writing = k.writing,
         NEW u, u.proto = s.proto, u.unsent = s.unsent
  PROVE  Turns(chs, j, u, TRUE, isWriter, out, told)
<1>1. DOMAIN u.proto = chs /\ Mirrored(j, u, TRUE) /\ k.remote = s.proto
  BY DEF Turns, Mirrored
<1>2. \A ch : /\ View(chs, j, u, ch) = View(chs, k, s, ch)
              /\ Line(j, isWriter, out, ch) = Line(k, isWriter, out, ch)
  BY <1>1 DEF View, Line
<1>3. Live(j, TRUE) => Live(k, TRUE)
  BY DEF Live
<1> QED BY <1>1, <1>2, <1>3 DEF Turns, OneTurn, TxIdsOnce

LEMMA RecvFailedTurns ==
  ASSUME ResponderInv, AllTurns, NEW c \in DOMAIN conns, RecvFailed(c)
  PROVE  AllTurns'
<1>0. PICK p \in Peers : p = conns[c].pid
  BY ConnTurns
<1> DEFINE k == conns[c]
           j == [k EXCEPT !.reading = FALSE, !.remote = [ch \in Channels |-> Default(ch)]]
<1>1. /\ Shapes /\ (p.port \notin Accusable => ~peers[p].violation)
      /\ Turns(Channels, k, peers[p], p \in known, writers[p] = c,
               OutOf(p, outbound), ToldOf(p, pending))
      /\ ConnShape(Channels, k) /\ DOMAIN peers[p].proto = Channels
      /\ ~k.offended /\ Mirrored(k, peers[p], p \in known)
  BY <1>0, ConnTurns
<1>2. /\ k.reading /\ UNCHANGED <<scene, writers>>
      /\ conns' = [conns EXCEPT ![c].reading = FALSE,
                                ![c].remote = [ch \in Channels |-> Default(ch)]]
  BY DEF RecvFailed, PoolRecvFailed
<1>3. conns' = [conns EXCEPT ![c] = j]
  BY <1>2
<1>4. /\ OutputsOK(outbound') /\ \A q : OutOf(q, outbound') = OutOf(q, outbound)
      /\ UNCHANGED <<known, pending>> /\ \A q \in Peers \ {p} : peers'[q] = peers[q]
      /\ peers'[p].proto = peers[p].proto /\ peers'[p].unsent = peers[p].unsent
      /\ peers'[p].violation = peers[p].violation
  BY <1>0, ErroredQuiet DEF RecvFailed
<1>5. /\ DOMAIN j = DOMAIN k /\ j.pid = k.pid /\ j.tasks = k.tasks /\ j.shut = k.shut
      /\ ~j.reading /\ j.writing = k.writing /\ DOMAIN j.remote = Channels
      /\ j.offended = k.offended
  BY <1>1 DEF ConnShape
<1> HIDE DEF j
<1>7. ConnShape(Channels, j) /\ ~j.offended /\ Mirrored(j, peers'[p], p \in known)
  BY <1>1, <1>4, <1>5 DEF ConnShape, Mirrored
<1>9. OneConn(c) /\ conns'[c] = j
  BY <1>3, <1>5, OneBecomes
<1>10. Turns(Channels, j, peers'[p], p \in known, writers[p] = c, OutOf(p, outbound),
             ToldOf(p, pending))
  <2>1. CASE p \notin known
    <3>1. ~Live(j, p \in known)
      BY <1>5, <2>1 DEF Live
    <3> QED BY <1>1, <1>4, <1>7, <3>1, TurnsOver
  <2>2. CASE p \in known
    <3>1. (p \in known) = TRUE
      BY <2>2
    <3>2. Turns(Channels, k, peers[p], TRUE, writers[p] = c, OutOf(p, outbound), ToldOf(p, pending))
      BY <1>1, <3>1
    <3>3. Turns(Channels, j, peers'[p], TRUE, writers[p] = c, OutOf(p, outbound), ToldOf(p, pending))
      <4> DEFINE w == writers[p] = c
                 out == OutOf(p, outbound)
                 told == ToldOf(p, pending)
                 s == peers[p]
                 u == peers'[p]
                 kk == conns[c]
                 chs == Channels
      <4>1. /\ Turns(chs, kk, s, TRUE, w, out, told) /\ kk.reading /\ ConnShape(chs, j)
            /\ ~j.offended /\ ~j.reading /\ j.tasks = kk.tasks /\ j.shut = kk.shut
            /\ j.writing = kk.writing /\ u.proto = s.proto /\ u.unsent = s.unsent
        BY <1>2, <1>4, <1>5, <1>7, <3>2
      <4> HIDE DEF w, out, told, s, u, kk, chs
      <4>2. Turns(chs, j, u, TRUE, w, out, told)
        BY <4>1, TurnsUnread
      <4> QED BY <4>2 DEF w, out, told, u, chs
    <3> QED BY <3>1, <3>3
  <2> QED BY <2>1, <2>2
<1>11. Turns(Channels, conns'[c], peers'[p], p \in known', writers'[p] = c, OutOf(p, outbound'),
             ToldOf(p, pending))
  BY <1>2, <1>4, <1>9, <1>10
<1> QED BY <1>0, <1>1, <1>2, <1>4, <1>9, <1>11, ConnStep

LEMMA ReadyTurns ==
  ASSUME ResponderInv, AllTurns, NEW p \in Peers, ReadyDisconnected(p)
  PROVE  AllTurns'
<1>1. /\ OutputsOK(outbound') /\ \A q : OutOf(q, outbound') = OutOf(q, outbound)
      /\ pending' = pending /\ known' = known \ {p}
      /\ \A q \in Peers \ {p} : peers'[q] = peers[q]
      /\ DOMAIN peers'[p].proto = Channels /\ ~peers'[p].violation
  BY DisconnectedQuiet DEF ReadyDisconnected
<1>2. UNCHANGED <<scene, conns>> /\ writers' = [writers EXCEPT ![p] = 0]
  BY DEF ReadyDisconnected, PoolReady
<1>3. Shapes /\ PeerTurns(p)
  BY DEF ResponderInv, AllTurns
<1>4. CASE p \in Met(conns)
  <2>1. PICK c \in DOMAIN conns : conns[c].pid = p
    BY <1>4 DEF Met
  <2>2. OneConn(c) /\ conns'[c] = conns[c]
    BY <1>2, AllSame
  <2>3. Turns(Channels, conns[c], peers[p], p \in known, writers[p] = c,
              OutOf(p, outbound), ToldOf(p, pending))
    BY <2>1, ConnTurns
  <2>4. \A ch \in AllChannels : OutOf(p, outbound)[ch] \in Seq(Tokens)
    BY OutOfFacts DEF AllTurns
  <2>5. Turns(Channels, conns[c], peers'[p], FALSE, FALSE, OutOf(p, outbound'), ToldOf(p, pending))
    <3> DEFINE w == writers[p] = c
               isKnown == p \in known
               out == OutOf(p, outbound)
               out2 == OutOf(p, outbound')
               told == ToldOf(p, pending)
               s == peers[p]
               u == peers'[p]
               k == conns[c]
               chs == Channels
    <3>1. /\ Turns(chs, k, s, isKnown, w, out, told) /\ DOMAIN u.proto = chs
          /\ \A ch \in AllChannels : out[ch] \in Seq(Tokens)
      BY <1>1, <2>3, <2>4
    <3> HIDE DEF w, isKnown, out, out2, told, s, u, k, chs
    <3>2. Turns(chs, k, u, FALSE, FALSE, out2, told)
      BY <3>1, TurnsCut
    <3> QED BY <3>2 DEF out2, told, u, k, chs
  <2>6. (p \in known') = FALSE /\ (writers'[p] = c) = FALSE
    BY <1>1, <1>2, <1>3, ConnFacts DEF Shapes
  <2>7. Turns(Channels, conns'[c], peers'[p], p \in known', writers'[p] = c,
              OutOf(p, outbound'), ToldOf(p, pending))
    BY <2>2, <2>5, <2>6
  <2> QED BY <1>1, <1>2, <2>1, <2>2, <2>7, ConnStep
<1>5. CASE p \notin Met(conns)
  <2>1. Silent(p)
    BY <1>3, <1>5 DEF PeerTurns
  <2>2. Silent(p)' /\ p \notin known'
    BY <1>1, <2>1 DEF Silent
  <2>3. writers'[p] \in {writers[p], 0}
    BY <1>2, <1>3 DEF Shapes
  <2>4. PeerTurns(p)'
    BY <1>1, <1>2, <1>3, <1>5, <2>2, <2>3, StillUnmet
  <2>5. ASSUME NEW q \in Peers, q # p PROVE PeerTurns(q)'
    <3>1. SameConns(q) /\ PeerTurns(q) /\ writers'[q] = writers[q]
      BY <1>2, <1>3, <2>5, AllSame DEF AllTurns, Shapes
    <3> QED BY <1>1, <1>2, <1>3, <2>5, <3>1, Untouched
  <2> QED BY <1>1, <2>4, <2>5 DEF AllTurns
<1> QED BY <1>4, <1>5

(* A connection that was just made.                                        *)
LEMMA TurnsNew ==
  ASSUME NEW chs, NEW k, ConnShape(chs, k), k.tasks = <<>>, ~k.offended,
         NEW u, DOMAIN u.proto = chs, k.remote = u.proto, NEW isKnown, NEW isWriter,
         NEW out, NEW told, \A ch \in AllChannels : out[ch] = <<>> /\ told[ch] = {}
  PROVE  Turns(chs, k, u, isKnown, isWriter, out, told)
<1>1. ASSUME NEW ch \in AllChannels PROVE Line(k, isWriter, out, ch) = <<>>
  <2>1. TaskLine(ch, k.tasks) = <<>>
    BY TaskEmpty
  <2>2. <<>> \o <<>> = <<>>
    OBVIOUS
  <2> QED BY <2>1, <2>2 DEF Line
<1>2. ASSUME NEW ch \in AllChannels
      PROVE  OneTurn(chs, k, u, isKnown, isWriter, out, told, ch)
  BY <1>1, TurnIdle DEF OneTurn
<1>3. TxIdsOnce(k, u, isKnown, isWriter, out)
  BY <1>1 DEF TxIdsOnce, AllChannels
<1> QED BY <1>2, <1>3 DEF Turns, Mirrored

LEMMA NeverMet ==
  ASSUME ResponderInv, NEW p \in Peers, MaxConns <= 1, Cardinality(ConnsOf(p)) < MaxConns
  PROVE  p \notin Met(conns)
<1>1. Len(conns) \in Nat /\ DOMAIN conns = 1..Len(conns)
  BY ConnFacts DEF ResponderInv, Shapes
<1>2. IsFiniteSet(1..Len(conns))
  BY <1>1, FS_Interval
<1>3. IsFiniteSet(ConnsOf(p))
  BY <1>1, <1>2, FS_Subset DEF ConnsOf
<1>4. MaxConns \in Nat
  BY ResponderAssumption DEF ResponderInv, MaxConns
<1>5. Cardinality(ConnsOf(p)) \in Nat
  BY <1>3, FS_CardinalityType
<1>6. Cardinality(ConnsOf(p)) = 0
  BY <1>4, <1>5
<1>7. ConnsOf(p) = {}
  BY <1>3, <1>6, FS_EmptySet
<1> QED BY <1>7 DEF ConnsOf, Met

LEMMA ConnectedTurns ==
  ASSUME ResponderInv, AllTurns, MaxConns <= 1, NEW p \in Peers, Connected(p)
  PROVE  AllTurns'
<1> DEFINE c == Len(conns) + 1
<1>1. Shapes /\ PeerTurns(p) /\ OutputsOK(outbound)
  BY DEF ResponderInv, AllTurns
<1>2. /\ conns' = Append(conns, NewConn(p)) /\ writers' = [writers EXCEPT ![p] = c]
      /\ UNCHANGED <<scene, pending>> /\ known' = known \cup {p}
      /\ peers' = [peers EXCEPT ![p] = [NewState EXCEPT !.connection = "Connected"]]
  BY DEF Connected, PoolConnected, on_connected
<1>3. OutputsOK(outbound') /\ \A q : OutOf(q, outbound') = OutOf(q, outbound)
  <2>1. outbound' \in {outbound, Append(outbound, Disconnect(p))}
    BY DEF Connected, on_connected, visit_connected, Admit, TurnAway
  <2>2. /\ OutputsOK(Append(outbound, Disconnect(p)))
        /\ \A q : OutOf(q, Append(outbound, Disconnect(p))) = OutOf(q, outbound)
    BY <1>1, QuietAppend
  <2> QED BY <1>1, <2>1, <2>2
<1>4. p \notin Met(conns)
  BY NeverMet DEF Connected
<1>5. Silent(p) /\ \A d \in DOMAIN conns : conns[d].pid # p
  BY <1>1, <1>4 DEF PeerTurns, Met
<1>6. /\ Len(conns) \in Nat /\ DOMAIN conns = 1..Len(conns) /\ c \in Nat
      /\ DOMAIN conns' = 1..c /\ conns'[c] = NewConn(p) /\ \A d \in DOMAIN conns : conns'[d] = conns[d]
  <2>1. PICK T : conns \in Seq(T)
    BY <1>1 DEF Shapes, ConnsOK
  <2> HIDE DEF NewConn
  <2> DEFINE U == T \cup {NewConn(p)}
  <2>2. conns \in Seq(U) /\ NewConn(p) \in U
    BY <2>1
  <2> HIDE DEF U
  <2> QED BY <1>2, <2>2
<1>7. /\ peers'[p] = [NewState EXCEPT !.connection = "Connected"] /\ writers'[p] = c
      /\ \A q \in Peers \ {p} : peers'[q] = peers[q] /\ writers'[q] = writers[q]
  BY <1>1, <1>2 DEF Shapes
<1>8. /\ peers'[p].proto = [ch \in Channels |-> Default(ch)] /\ ~peers'[p].violation
  BY <1>7 DEF NewState
<1>9. NewConn(p).pid = p
  BY DEF NewConn
<1>10. Turns(Channels, NewConn(p), peers'[p], p \in known', writers'[p] = c,
             OutOf(p, outbound'), ToldOf(p, pending'))
  <2>1. /\ ConnShape(Channels, NewConn(p)) /\ NewConn(p).tasks = <<>> /\ ~NewConn(p).offended
        /\ NewConn(p).remote = peers'[p].proto
    BY <1>8, TaskEmpty DEF NewConn, ConnShape
  <2>2. \A ch \in AllChannels : OutOf(p, outbound')[ch] = <<>> /\ ToldOf(p, pending')[ch] = {}
    BY <1>2, <1>3, <1>5 DEF Silent
  <2>3. DOMAIN peers'[p].proto = Channels
    BY <1>8
  <2> QED BY <2>1, <2>2, <2>3, TurnsNew
<1>11. Channels' = Channels
  BY <1>2 DEF Channels
<1> HIDE DEF c
<1>12. \A d \in DOMAIN conns' : conns'[d].pid = p <=> d = c
  <2>1. \A d \in DOMAIN conns' : d = c \/ d \in DOMAIN conns
    BY <1>6 DEF c
  <2> QED BY <1>5, <1>6, <1>9, <2>1
<1>13. c \in DOMAIN conns'
  BY <1>6 DEF c
<1>14. PeerTurns(p)'
  <2>1. p \in Met(conns')
    BY <1>12, <1>13 DEF Met
  <2>2. \A d \in DOMAIN conns' : conns'[d].pid = p =>
          Turns(Channels', conns'[d], peers'[p], p \in known', writers'[p] = d,
                OutOf(p, outbound'), ToldOf(p, pending'))
    BY <1>6, <1>10, <1>11, <1>12
  <2>3. \A d, e \in DOMAIN conns' : conns'[d].pid = p /\ conns'[e].pid = p => d = e
    BY <1>12
  <2>4. writers'[p] # 0 => conns'[writers'[p]].pid = p
    BY <1>7, <1>12, <1>13
  <2> QED BY <1>8, <2>1, <2>2, <2>3, <2>4 DEF PeerTurns
<1>15. ASSUME NEW q \in Peers, q # p PROVE PeerTurns(q)'
  <2>1. PeerTurns(q) /\ peers'[q] = peers[q] /\ writers'[q] = writers[q]
    BY <1>7, <1>15 DEF AllTurns
  <2>2. SameConns(q)
    <3>1. DOMAIN conns \subseteq DOMAIN conns'
      BY <1>6 DEF c
    <3>2. \A d \in DOMAIN conns' : conns'[d].pid = q => d \in DOMAIN conns
      BY <1>6, <1>12, <1>15 DEF c
    <3> QED BY <1>6, <3>1, <3>2 DEF SameConns
  <2> QED BY <1>1, <1>2, <1>3, <1>15, <2>1, <2>2, Untouched
<1> QED BY <1>3, <1>14, <1>15 DEF AllTurns

-----------------------------------------------------------------------------
(* A message of a client.                                                  *)

(* The outputs are q2 after q: `line` is said to p on channel ch.          *)
Heard(q2, q, p, ch, line) ==
  /\ OutputsOK(q2) /\ line \in Seq(Tokens)
  /\ \A c \in AllChannels :
       OutOf(p, q2)[c] = IF c = ch THEN OutOf(p, q)[c] \o line ELSE OutOf(p, q)[c]
  /\ \A x : x # p => OutOf(x, q2) = OutOf(x, q)

LEMMA SaysMore ==
  ASSUME NEW q, OutputsOK(q), NEW r, NEW p, NEW ch \in AllChannels, NEW line, Says(r, p, ch, line)
  PROVE  Heard(q \o r, q, p, ch, line)
<1>1. OutputsOK(r) /\ \A x : \A c \in AllChannels :
                        OutLine(x, c, r) = IF x = p /\ c = ch THEN line ELSE <<>>
  BY DEF Says
<1>2. \A x : \A c \in AllChannels :
        /\ OutputsOK(q \o r) /\ OutLine(x, c, q) \in Seq(Tokens)
        /\ OutLine(x, c, q \o r) = OutLine(x, c, q) \o OutLine(x, c, r)
  BY <1>1, OutConcat
<1>3. line \in Seq(Tokens)
  <2>1. OutLine(p, ch, r) \in Seq(Tokens)
    BY <1>1, OutType
  <2> QED BY <1>1, <2>1
<1>4. ASSUME NEW x, NEW c \in AllChannels, ~(x = p /\ c = ch)
      PROVE  OutLine(x, c, q \o r) = OutLine(x, c, q)
  <2>1. OutLine(x, c, q \o r) = OutLine(x, c, q) \o <<>> /\ OutLine(x, c, q) \in Seq(Tokens)
    BY <1>1, <1>2, <1>4
  <2> QED BY <2>1
<1>5. OutLine(p, ch, q \o r) = OutLine(p, ch, q) \o line
  BY <1>1, <1>2
<1>6. \A c \in AllChannels :
        OutOf(p, q \o r)[c] = IF c = ch THEN OutOf(p, q)[c] \o line ELSE OutOf(p, q)[c]
  BY <1>4, <1>5 DEF OutOf
<1>7. \A x : x # p => OutOf(x, q \o r) = OutOf(x, q)
  BY <1>4, OutOfSame
<1>8. OutputsOK(q \o r)
  BY <1>2 DEF AllChannels
<1> QED BY <1>3, <1>6, <1>7, <1>8 DEF Heard

(* The state of a tracked peer, and what it is told, when it accepts m.    *)
Taken(p, m, at) ==
  \E said, out :
    /\ outbound' = outbound \o out /\ Says(out, p, m.ch, said) /\ InTurn(m.ch, at, said)
    /\ m.ch = "txsubmission" => said = <<>>
    /\ peers'[p].proto = [peers[p].proto EXCEPT ![m.ch] = Apply(peers[p].proto[m.ch], m)]
    /\ peers'[p].unsent = peers[p].unsent /\ peers'[p].violation = peers[p].violation

LEMMA InboundTaken ==
  ASSUME Shapes, NEW p \in Peers, p \in known, NEW m, m.ch \in Channels, m.ch \in AllChannels,
         DOMAIN peers[p].proto = Channels, CanApply(peers[p].proto[m.ch], m), on_inbound_msg(p, m)
  PROVE  Taken(p, m, Apply(peers[p].proto[m.ch], m).at)
<1> DEFINE s == peers[p]
           t == apply_msg(s, m)
           r == IF t.violation THEN Reaction(t, <<>>) ELSE visit_inbound_msg(t, p, m.ch)
<1>1. StateOK(s) /\ DOMAIN peers = Peers
  BY DEF Shapes
<1>2. /\ t.proto = [s.proto EXCEPT ![m.ch] = Apply(s.proto[m.ch], m)]
      /\ t.violation = s.violation /\ t.unsent = s.unsent
  BY <1>1, ApplyMsgOK
<1>3. StateOK(t)
  BY <1>1, ApplyMsgKeeps
<1>4. peers' = [peers EXCEPT ![p] = r.s] /\ outbound' = outbound \o r.out
  BY DEF on_inbound_msg
<1>5. At(t, m.ch) = Apply(s.proto[m.ch], m).at
  BY <1>2 DEF At
<1> HIDE DEF t
<1>6. Reacting(r, t, p, m.ch)
  BY <1>3, VisitReacts, ReactsNot
<1>7. peers'[p] = r.s
  BY <1>1, <1>4
<1> HIDE DEF r
<1>8. PICK line : /\ Says(r.out, p, m.ch, line) /\ InTurn(m.ch, At(t, m.ch), line)
                  /\ m.ch = "txsubmission" => line = <<>>
                  /\ r.s.proto = t.proto /\ r.s.violation = t.violation /\ r.s.unsent = t.unsent
  BY <1>6 DEF Reacting
<1> QED BY <1>2, <1>4, <1>5, <1>7, <1>8 DEF Taken

(* Only the protocols and what is unsent of a peer's state matter here.    *)
LEMMA TurnsState ==
  ASSUME NEW chs, NEW k, NEW s, NEW isKnown, NEW isWriter, NEW out, NEW told,
         Turns(chs, k, s, isKnown, isWriter, out, told), NEW u, u.proto = s.proto, u.unsent = s.unsent
  PROVE  Turns(chs, k, u, isKnown, isWriter, out, told)
<1>1. \A ch : View(chs, k, u, ch) = View(chs, k, s, ch)
  BY DEF View
<1> QED BY <1>1 DEF Turns, OneTurn, TxIdsOnce, Mirrored

LEMMA ClientMsgFacts ==
  ASSUME NEW m \in ClientMsgs, scene \in Scenarios
  PROVE  m.ch \in Channels /\ m.ch \in AllChannels /\ m.kind \in ClientKinds[m.ch]
<1>1. PICK ch \in Channels :
        m \in UNION {{Msg(ch, kind, a) : a \in Args(kind)} : kind \in ClientKinds[ch] \cap Requested}
  BY DEF ClientMsgs
<1>2. PICK kind \in ClientKinds[ch] \cap Requested : m \in {Msg(ch, kind, a) : a \in Args(kind)}
  BY <1>1
<1>3. PICK a \in Args(kind) : m = Msg(ch, kind, a)
  BY <1>2
<1>4. m.ch = ch /\ m.kind = kind
  BY <1>3 DEF Msg
<1> QED BY <1>1, <1>2, <1>4, ScenariosAssumption DEF Channels

(* A message that the state of the client allows.                          *)
LEMMA RecvTaken ==
  ASSUME ResponderInv, AllTurns, NEW c \in DOMAIN conns, NEW m, m.ch \in Channels,
         m.ch \in AllChannels, m.kind \in ClientKinds[m.ch], PoolRecv(c, m),
         CanApply(conns[c].remote[m.ch], m), on_inbound_msg(conns[c].pid, m)
  PROVE  AllTurns'
<1>0. PICK p \in Peers : p = conns[c].pid
  BY ConnTurns
<1> DEFINE k == conns[c]
           s == peers[p]
           at == Apply(k.remote[m.ch], m).at
<1>1. /\ Shapes /\ (p.port \notin Accusable => ~s.violation)
      /\ Turns(Channels, k, s, p \in known, writers[p] = c,
               OutOf(p, outbound), ToldOf(p, pending))
      /\ ConnShape(Channels, k) /\ DOMAIN s.proto = Channels
      /\ Mirrored(k, s, p \in known) /\ OutputsOK(outbound)
  BY <1>0, ConnTurns DEF AllTurns
<1>2. k.reading /\ UNCHANGED <<scene, writers>>
  BY DEF PoolRecv
<1>3. conns' = [conns EXCEPT ![c] = Applied(k, m)]
  BY DEF PoolRecv, Applied
<1>4. Applied(k, m).pid = k.pid
  BY <1>1 DEF Applied, ConnShape
<1>5. OneConn(c) /\ conns'[c] = Applied(k, m)
  BY <1>3, <1>4, OneBecomes
<1>6. /\ UNCHANGED <<known, pending>> /\ \A q \in Peers \ {p} : peers'[q] = peers[q]
  BY <1>0, <1>1 DEF on_inbound_msg, Shapes
<1>7. PICK said, out :
        /\ outbound' = outbound \o out /\ Says(out, p, m.ch, said) /\ InTurn(m.ch, at, said)
        /\ m.ch = "txsubmission" => said = <<>>
        /\ peers'[p].unsent = s.unsent /\ peers'[p].violation = s.violation
        /\ DOMAIN peers'[p].proto = Channels
        /\ p \in known => peers'[p].proto = [s.proto EXCEPT ![m.ch] = Apply(s.proto[m.ch], m)]
  <2>1. CASE p \in known
    <3>1. k.remote = s.proto
      BY <1>1, <1>2, <2>1 DEF Mirrored
    <3>2. Taken(p, m, at)
      BY <1>0, <1>1, <2>1, <3>1, InboundTaken
    <3>3. DOMAIN [s.proto EXCEPT ![m.ch] = Apply(s.proto[m.ch], m)] = Channels
      BY <1>1
    <3> HIDE DEF at
    <3> QED BY <3>2, <3>3 DEF Taken
  <2>2. CASE p \notin known
    <3>1. UNCHANGED <<peers, outbound>>
      BY <1>0, <2>2 DEF on_inbound_msg
    <3>2. outbound \o <<>> = outbound
      BY <1>1 DEF OutputsOK
    <3>3. Says(<<>>, p, m.ch, <<>>)
      BY SaysNothing
    <3>4. InTurn(m.ch, at, <<>>)
      BY DEF InTurn
    <3> HIDE DEF at
    <3> QED BY <1>1, <2>2, <3>1, <3>2, <3>3, <3>4
  <2> QED BY <2>1, <2>2
<1>8. /\ OutputsOK(outbound') /\ said \in Seq(Tokens)
      /\ \A ch \in AllChannels : OutOf(p, outbound')[ch] =
           IF ch = m.ch THEN OutOf(p, outbound)[ch] \o said ELSE OutOf(p, outbound)[ch]
      /\ \A q : q # p => OutOf(q, outbound') = OutOf(q, outbound)
  <2>1. Heard(outbound', outbound, p, m.ch, said)
    BY <1>1, <1>7, SaysMore
  <2> QED BY <2>1 DEF Heard
<1>9. \A ch \in AllChannels : OutOf(p, outbound)[ch] \in Seq(Tokens)
  BY <1>1, OutOfFacts
<1>10. Turns(Channels, Applied(k, m), peers'[p], p \in known, writers[p] = c,
             OutOf(p, outbound'), ToldOf(p, pending))
  <2> DEFINE w == writers[p] = c
             isKnown == p \in known
             out1 == OutOf(p, outbound)
             out2 == OutOf(p, outbound')
             told == ToldOf(p, pending)
             u == peers'[p]
             chs == Channels
             s1 == peers[p]
             kk == conns[c]
  <2>1. /\ Turns(chs, kk, s1, isKnown, w, out1, told)
        /\ \A ch \in AllChannels : out1[ch] \in Seq(Tokens)
        /\ kk.reading /\ m.ch \in chs /\ CanApply(kk.remote[m.ch], m)
    BY <1>1, <1>2, <1>9
  <2>2. /\ InTurn(m.ch, Apply(kk.remote[m.ch], m).at, said)
        /\ m.ch = "txsubmission" => said = <<>>
        /\ u.unsent = s1.unsent /\ DOMAIN u.proto = chs
        /\ isKnown => u.proto = [s1.proto EXCEPT ![m.ch] = Apply(s1.proto[m.ch], m)]
    BY <1>7
  <2>3. \A ch \in AllChannels : out2[ch] = IF ch = m.ch THEN out1[ch] \o said ELSE out1[ch]
    BY <1>8
  <2> HIDE DEF w, isKnown, out1, out2, told, u, chs, s1, kk
  <2>4. Turns(chs, Applied(kk, m), u, isKnown, w, out2, told)
    <3>1. Reads(chs, kk, s1, isKnown, out1, m, said, out2, u)
      BY <1>8, <2>1, <2>2, <2>3 DEF Reads
    <3> QED BY <2>1, <3>1, TurnsRead
  <2> QED BY <2>4 DEF w, isKnown, out2, told, u, chs, kk
<1>11. Turns(Channels, conns'[c], peers'[p], p \in known', writers'[p] = c,
             OutOf(p, outbound'), ToldOf(p, pending))
  BY <1>2, <1>5, <1>6, <1>10
<1> QED BY <1>0, <1>1, <1>2, <1>5, <1>6, <1>7, <1>8, <1>11, ConnStep

(* A message that is refused: only a liar sends one out of turn, and only  *)
(* an ender a Done that no state takes, and it is not answered.            *)
LEMMA RecvRefused ==
  ASSUME ResponderInv, AllTurns, NEW c \in DOMAIN conns, NEW m, Willing(conns[c], m),
         PoolRecv(c, m), ~CanApply(conns[c].remote[m.ch], m), on_inbound_msg(conns[c].pid, m)
  PROVE  AllTurns'
<1>0. PICK p \in Peers : p = conns[c].pid
  BY ConnTurns
<1> DEFINE k == conns[c]
           s == peers[p]
<1>1. /\ Shapes /\ StateOK(s)
      /\ Turns(Channels, k, s, p \in known, writers[p] = c,
               OutOf(p, outbound), ToldOf(p, pending))
      /\ Mirrored(k, s, p \in known) /\ OutputsOK(outbound)
  BY <1>0, ConnTurns DEF AllTurns
<1>2. k.reading /\ UNCHANGED <<scene, conns, writers>>
  BY DEF PoolRecv
<1>3. p.port \in Accusable
  BY <1>0 DEF Willing, Ends, Accusable
<1>4. OneConn(c)
  BY <1>2, AllSame
<1>5. outbound \o <<>> = outbound
  BY <1>1 DEF OutputsOK
<1>6. /\ UNCHANGED <<known, pending, outbound>> /\ \A q \in Peers \ {p} : peers'[q] = peers[q]
      /\ peers'[p].proto = s.proto /\ peers'[p].unsent = s.unsent
  <2>1. CASE p \in known
    <3>1. ~CanApply(s.proto[m.ch], m)
      BY <1>1, <1>2, <2>1 DEF Mirrored
    <3>2. apply_msg(s, m) = [s EXCEPT !.violation = TRUE]
      BY <3>1 DEF apply_msg
    <3> DEFINE t == [s EXCEPT !.violation = TRUE]
    <3>3. t.violation = TRUE /\ t.proto = s.proto /\ t.unsent = s.unsent
      BY <1>1 DEF StateOK
    <3> HIDE DEF t
    <3>4. peers' = [peers EXCEPT ![p] = t] /\ outbound' = outbound \o <<>>
      BY <1>0, <2>1, <3>2, <3>3 DEF on_inbound_msg, Reaction, t
    <3>5. DOMAIN peers = Peers /\ UNCHANGED <<known, pending>>
      BY <1>1 DEF Shapes, on_inbound_msg
    <3> QED BY <1>5, <3>3, <3>4, <3>5
  <2>2. CASE p \notin known
    BY <1>0, <2>2 DEF on_inbound_msg
  <2> QED BY <2>1, <2>2
<1>7. Turns(Channels, conns[c], peers'[p], p \in known, writers[p] = c,
            OutOf(p, outbound), ToldOf(p, pending))
  BY <1>1, <1>6, TurnsState
<1>8. Turns(Channels, conns'[c], peers'[p], p \in known', writers'[p] = c,
            OutOf(p, outbound'), ToldOf(p, pending))
  BY <1>2, <1>6, <1>7
<1> QED BY <1>0, <1>1, <1>2, <1>3, <1>4, <1>6, <1>8, ConnStep

LEMMA RecvTurns ==
  ASSUME ResponderInv, AllTurns, NEW c \in DOMAIN conns, Recv(c)
  PROVE  AllTurns'
<1>1. PICK m \in ClientMsgs :
        Willing(conns[c], m) /\ PoolRecv(c, m) /\ on_inbound_msg(conns[c].pid, m)
  BY DEF Recv
<1>2. m.ch \in Channels /\ m.ch \in AllChannels /\ m.kind \in ClientKinds[m.ch]
  BY ClientMsgFacts DEF ResponderInv
<1> QED BY <1>1, <1>2, RecvTaken, RecvRefused

-----------------------------------------------------------------------------
(* The application.                                                        *)

LEMMA ProvideTurns ==
  ASSUME ResponderInv, AllTurns, NEW r \in pending, Provide(r)
  PROVE  AllTurns'
<1>0. r.do \in RequestNames /\ r.pid \in Peers /\ Shapes /\ OutputsOK(outbound)
  BY DEF ResponderInv, Shapes, AllTurns
<1>1. PICK p \in Peers : p = r.pid
  BY <1>0
<1>2. PICK msgs \in Answers[r.do] : outbound' = outbound \o Sends(p, msgs)
  BY <1>1 DEF Provide, Sends
<1>3. pending' = pending \ {r} /\ UNCHANGED <<known, peers, scene, conns, writers>>
  BY DEF Provide, poolVars
<1>4. Answering(r.do, p, msgs)
  BY <1>0, AnswersAnswer
<1>17. PICK ch \in AllChannels : \E said :
         /\ r.do \in ShownNames(ch) /\ Says(Sends(p, msgs), p, ch, said)
         /\ \A x : <<r.do>> \in Asked(ch, x) => InTurn(ch, x, said)
  BY <1>4 DEF Answering
<1>5. PICK said :
        /\ r.do \in ShownNames(ch) /\ Says(Sends(p, msgs), p, ch, said)
        /\ \A x : <<r.do>> \in Asked(ch, x) => InTurn(ch, x, said)
  BY <1>17
<1>6. Heard(outbound', outbound, p, ch, said)
  BY <1>0, <1>2, <1>5, SaysMore
<1>7. ch # "txsubmission"
  BY <1>5 DEF ShownNames, Shown
<1>8. r \in ToldOf(p, pending)[ch]
  BY <1>1, <1>5 DEF ToldOf
<1>9. \A c \in AllChannels :
        ToldOf(p, pending')[c] = IF c = ch THEN ToldOf(p, pending)[c] \ {r} ELSE ToldOf(p, pending)[c]
  <2>1. ASSUME NEW c \in AllChannels
        PROVE  {x \in pending \ {r} : x.pid = p /\ x.do \in ShownNames(c)}
                 = {x \in pending : x.pid = p /\ x.do \in ShownNames(c)} \ {r}
    OBVIOUS
  <2>2. ASSUME NEW c \in AllChannels, c # ch PROVE r.do \notin ShownNames(c)
    BY <1>5, <2>2, NamesApart
  <2> QED BY <1>3, <2>1, <2>2 DEF ToldOf
<1>10. PICK c \in DOMAIN conns : conns[c].pid = p
  <2>1. ~Silent(p)
    BY <1>8 DEF Silent
  <2>2. p \in Met(conns)
    BY <2>1 DEF AllTurns, PeerTurns
  <2> QED BY <2>2 DEF Met
<1>11. Turns(Channels, conns[c], peers[p], p \in known, writers[p] = c,
             OutOf(p, outbound), ToldOf(p, pending))
  BY <1>10, ConnTurns
<1>12. \A a \in AllChannels : OutOf(p, outbound)[a] \in Seq(Tokens)
  BY <1>0, OutOfFacts
<1>13. Turns(Channels, conns[c], peers[p], p \in known, writers[p] = c,
             OutOf(p, outbound'), ToldOf(p, pending'))
  <2> DEFINE w == writers[p] = c
             isKnown == p \in known
             out == OutOf(p, outbound)
             out2 == OutOf(p, outbound')
             told == ToldOf(p, pending)
             told2 == ToldOf(p, pending')
             chs == Channels
             s == peers[p]
             k == conns[c]
  <2>1. Turns(chs, k, s, isKnown, w, out, told) /\ \A a \in AllChannels : out[a] \in Seq(Tokens)
    BY <1>11, <1>12
  <2>2. /\ said \in Seq(Tokens)
        /\ \A a \in AllChannels : out2[a] = IF a = ch THEN out[a] \o said ELSE out[a]
        /\ \A a \in AllChannels : told2[a] = IF a = ch THEN told[a] \ {r} ELSE told[a]
        /\ r \in told[ch]
    BY <1>6, <1>8, <1>9 DEF Heard
  <2> HIDE DEF w, isKnown, out, out2, told, told2, chs, s, k
  <2>3. Turns(chs, k, s, isKnown, w, out2, told2)
    <3>1. Provides(out, told, ch, r, said, out2, told2)
      BY <1>5, <1>7, <2>1, <2>2 DEF Provides
    <3> QED BY <2>1, <3>1, TurnsProvided
  <2> QED BY <2>3 DEF w, isKnown, out2, told2, chs, s, k
<1>14. PeerTurns(p)'
  <2>1. Turns(Channels, conns'[c], peers'[p], p \in known', writers'[p] = c,
              OutOf(p, outbound'), ToldOf(p, pending'))
    BY <1>3, <1>13
  <2>2. PeerTurns(p) /\ (p.port \notin Accusable => ~peers'[p].violation) /\ OneConn(c)
    BY <1>3, AllSame DEF AllTurns, PeerTurns
  <2> QED BY <1>0, <1>3, <1>10, <2>1, <2>2, Touched
<1>15. ASSUME NEW q \in Peers, q # p PROVE PeerTurns(q)'
  <2>1. OutOf(q, outbound') = OutOf(q, outbound)
    BY <1>6, <1>15 DEF Heard
  <2>2. ToldOf(q, pending') = ToldOf(q, pending)
    <3>1. ASSUME NEW a \in AllChannels
          PROVE  {x \in pending \ {r} : x.pid = q /\ x.do \in ShownNames(a)}
                   = {x \in pending : x.pid = q /\ x.do \in ShownNames(a)}
      BY <1>1, <1>15
    <3> QED BY <1>3, <3>1 DEF ToldOf
  <2>3. SameConns(q) /\ PeerTurns(q)
    BY <1>3, AllSame DEF AllTurns
  <2> QED BY <1>0, <1>3, <2>1, <2>2, <2>3, Untouched
<1>16. OutputsOK(outbound')
  BY <1>6 DEF Heard
<1> QED BY <1>14, <1>15, <1>16 DEF AllTurns

(* What one pass of housekeeping says.                                     *)
LEMMA PassSays ==
  ASSUME ResponderInv, AllTurns, Housekeeping
  PROVE  /\ OutputsOK(outbound')
         /\ \A q \in Peers : \A ch \in AllChannels :
              \E said \in {<<>>, <<"RequestTxIds">>} :
                /\ OutLine(q, ch, outbound') = OutLine(q, ch, outbound) \o said
                /\ ~(ch = "txsubmission" /\ q \in known /\ try_request_tx_ids(q, peers[q])) => said = <<>>
<1>1. PICK order \in [1..Cardinality(known) -> known] :
        /\ \A i, j \in DOMAIN order : order[i] = order[j] => i = j
        /\ outbound' = outbound \o FlattenSeq([i \in DOMAIN order |->
                                    visit_housekeeping(order[i], peers[order[i]])])
  BY DEF Housekeeping
<1> DEFINE v == [x \in known |-> visit_housekeeping(x, peers[x])]
           X == {Disconnect(p) : p \in known} \cup {Send(p, RequestTxIds) : p \in known}
<1>2. Cardinality(known) \in Nat /\ OutputsOK(outbound)
  BY FS_CardinalityType DEF ResponderInv, Tracking, AllTurns
<1>3. order \in Seq(known) /\ \A i, j \in 1..Len(order) : order[i] = order[j] => i = j
  BY <1>1, <1>2
<1>4. outbound' = outbound \o FlatMap(v, order)
  <2>1. [i \in DOMAIN order |-> visit_housekeeping(order[i], peers[order[i]])]
          = [i \in DOMAIN order |-> v[order[i]]]
    BY <1>3
  <2> QED BY <1>1, <2>1 DEF FlatMap
<1>5. MapsTo(v, known, Seq(X))
  <2> SUFFICES ASSUME NEW p \in known PROVE visit_housekeeping(p, peers[p]) \in Seq(X)
    BY DEF MapsTo
  <2>1. Disconnect(p) \in X /\ Send(p, RequestTxIds) \in X
    OBVIOUS
  <2> DEFINE a == IF needs_ban(p, peers[p]) \/ needs_disconnect(p, peers[p])
                    THEN <<Disconnect(p)>> ELSE <<>>
             b == IF try_request_tx_ids(p, peers[p]) THEN <<Send(p, RequestTxIds)>> ELSE <<>>
  <2> HIDE DEF X
  <2>2. a \in Seq(X) /\ b \in Seq(X)
    BY <2>1
  <2>3. visit_housekeeping(p, peers[p]) = a \o b
    BY DEF visit_housekeeping
  <2> HIDE DEF a, b
  <2> QED BY <2>2, <2>3
<1>6. \A o \in X : Speaks(o)
  <2>1. Speech(RequestTxIds)
    BY DEF RequestTxIds, Speech, Msg, ServerKinds, AllChannels
  <2>2. \A p : Speaks(Send(p, RequestTxIds))
    BY <2>1, SendToken DEF AllChannels
  <2>3. \A p : Speaks(Disconnect(p))
    BY QuietTokens DEF AllChannels
  <2> QED BY <2>2, <2>3
<1> DEFINE Due(q, ch) == ch = "txsubmission" /\ q \in known /\ try_request_tx_ids(q, peers[q])
           Tok(q, ch) == IF Due(q, ch) THEN <<"RequestTxIds">> ELSE <<>>
<1>7. ASSUME NEW q, NEW ch \in AllChannels, NEW x \in known
      PROVE  OutLine(q, ch, v[x]) = IF x = q THEN Tok(q, ch) ELSE <<>>
  <2>1. OutLine(q, ch, visit_housekeeping(x, peers[x])) =
          IF q = x /\ ch = "txsubmission"
            THEN (IF try_request_tx_ids(x, peers[x]) THEN <<"RequestTxIds">> ELSE <<>>) ELSE <<>>
    BY VisitSays DEF Says
  <2>2. v[x] = visit_housekeeping(x, peers[x])
    OBVIOUS
  <2> HIDE DEF v
  <2> QED BY <2>1, <2>2
<1>8. \A q, ch : Tok(q, ch) \in Seq(Tokens)
  <2>1. "RequestTxIds" \in Tokens
    <3>1. "RequestTxIds" \in ServerKinds["txsubmission"]
      BY DEF ServerKinds
    <3> QED BY <3>1 DEF Tokens, Kinds, AllChannels
  <2>2. <<"RequestTxIds">> \in Seq(Tokens) /\ <<>> \in Seq(Tokens)
    BY <2>1
  <2> QED BY <2>2
<1> HIDE DEF v, X, Tok
<1>9. ASSUME NEW q, NEW ch \in AllChannels
      PROVE  /\ OutputsOK(FlatMap(v, order))
             /\ OutLine(q, ch, FlatMap(v, order)) \in {<<>>, Tok(q, ch)}
  <2> DEFINE tok == Tok(q, ch)
  <2>1. tok \in Seq(Tokens) /\ \A x \in known : OutLine(q, ch, v[x]) = IF x = q THEN tok ELSE <<>>
    BY <1>7, <1>8
  <2> HIDE DEF tok
  <2>2. /\ OutputsOK(FlatMap(v, order)) /\ OutLine(q, ch, FlatMap(v, order)) \in {<<>>, tok}
    BY <1>3, <1>5, <1>6, <2>1, OnceEach
  <2> QED BY <2>2 DEF tok
<1>10. OutputsOK(FlatMap(v, order))
  BY <1>9 DEF AllChannels
<1>11. ASSUME NEW q, NEW ch \in AllChannels
       PROVE  /\ OutputsOK(outbound')
              /\ OutLine(q, ch, outbound') = OutLine(q, ch, outbound) \o OutLine(q, ch, FlatMap(v, order))
  BY <1>2, <1>4, <1>10, OutConcat
<1>12. ASSUME NEW q \in Peers, NEW ch \in AllChannels
       PROVE  \E said \in {<<>>, <<"RequestTxIds">>} :
                /\ OutLine(q, ch, outbound') = OutLine(q, ch, outbound) \o said
                /\ ~Due(q, ch) => said = <<>>
  <2> DEFINE said == OutLine(q, ch, FlatMap(v, order))
  <2>1. said \in {<<>>, Tok(q, ch)}
    BY <1>9
  <2>2. OutLine(q, ch, outbound') = OutLine(q, ch, outbound) \o said
    BY <1>11
  <2> HIDE DEF said, Due
  <2>3. said \in {<<>>, <<"RequestTxIds">>} /\ (~Due(q, ch) => said = <<>>)
    BY <2>1 DEF Tok
  <2> QED BY <2>2, <2>3
<1>13. OutputsOK(outbound')
  BY <1>11 DEF AllChannels
<1> QED BY <1>12, <1>13

LEMMA HousekeepingTurns ==
  ASSUME ResponderInv, AllTurns, Housekeeping
  PROVE  AllTurns'
<1>1. /\ OutputsOK(outbound')
      /\ \A q \in Peers : \A ch \in AllChannels :
           \E said \in {<<>>, <<"RequestTxIds">>} :
             /\ OutLine(q, ch, outbound') = OutLine(q, ch, outbound) \o said
             /\ ~(ch = "txsubmission" /\ q \in known /\ try_request_tx_ids(q, peers[q])) => said = <<>>
  BY PassSays
<1>2. /\ UNCHANGED <<known, pending, scene, conns, writers>>
      /\ peers' = [p \in Peers |->
                     IF p \in known /\ try_request_tx_ids(p, peers[p])
                       THEN [peers[p] EXCEPT !.unsent = RequestTxIds] ELSE peers[p]]
  BY DEF Housekeeping, poolVars
<1>3. Shapes /\ OutputsOK(outbound)
  BY DEF ResponderInv, AllTurns
<1>4. ASSUME NEW q \in Peers, ~(q \in known /\ try_request_tx_ids(q, peers[q]))
      PROVE  PeerTurns(q)'
  <2>1. peers'[q] = peers[q]
    BY <1>2, <1>4
  <2>2. ASSUME NEW ch \in AllChannels PROVE OutLine(q, ch, outbound') = OutLine(q, ch, outbound)
    <3>1. OutLine(q, ch, outbound') = OutLine(q, ch, outbound) \o <<>>
      BY <1>1, <1>4
    <3>2. OutLine(q, ch, outbound) \in Seq(Tokens)
      BY <1>3, OutType
    <3>3. OutLine(q, ch, outbound) \o <<>> = OutLine(q, ch, outbound)
      BY <3>2
    <3> QED BY <3>1, <3>3
  <2>3. OutOf(q, outbound') = OutOf(q, outbound)
    BY <2>2, OutOfSame
  <2>4. SameConns(q) /\ PeerTurns(q)
    BY <1>2, AllSame DEF AllTurns
  <2> QED BY <1>2, <1>3, <2>1, <2>3, <2>4, Untouched
<1>5. ASSUME NEW p \in Peers, p \in known, try_request_tx_ids(p, peers[p])
      PROVE  PeerTurns(p)'
  <2>1. PeerTurns(p) /\ StateOK(peers[p])
    BY <1>3 DEF AllTurns, Shapes
  <2>2. PICK c \in DOMAIN conns : conns[c].pid = p
    BY <1>5, <2>1 DEF PeerTurns, Met
  <2>3. /\ Turns(Channels, conns[c], peers[p], p \in known, writers[p] = c,
                 OutOf(p, outbound), ToldOf(p, pending))
        /\ p.port \notin Accusable => ~peers[p].violation
    BY <2>2, ConnTurns
  <2>4. peers'[p] = [peers[p] EXCEPT !.unsent = RequestTxIds]
    BY <1>2, <1>5
  <2>5. /\ peers'[p].proto = peers[p].proto /\ peers'[p].unsent = RequestTxIds
        /\ peers'[p].violation = peers[p].violation
    BY <2>1, <2>4 DEF StateOK
  <2>6. PICK said \in {<<>>, <<"RequestTxIds">>} :
          OutLine(p, "txsubmission", outbound') = OutLine(p, "txsubmission", outbound) \o said
    BY <1>1 DEF AllChannels
  <2>7. ASSUME NEW ch \in AllChannels
        PROVE  OutOf(p, outbound')[ch] = IF ch = "txsubmission" THEN OutOf(p, outbound)[ch] \o said
                                                                ELSE OutOf(p, outbound)[ch]
    <3>1. CASE ch = "txsubmission"
      BY <2>6, <3>1 DEF OutOf
    <3>2. CASE ch # "txsubmission"
      <4>1. OutLine(p, ch, outbound') = OutLine(p, ch, outbound) \o <<>>
        BY <1>1, <3>2
      <4>2. OutLine(p, ch, outbound) \in Seq(Tokens)
        BY <1>3, OutType
      <4>3. OutLine(p, ch, outbound) \o <<>> = OutLine(p, ch, outbound)
        BY <4>2
      <4> QED BY <3>2, <4>1, <4>3 DEF OutOf
    <3> QED BY <3>1, <3>2
  <2>8. ToldOf(p, pending)["txsubmission"] = {}
    BY DEF ToldOf, ShownNames, Shown, AllChannels
  <2>9. /\ "txsubmission" \in Channels /\ peers[p].proto["txsubmission"].at = "Idle"
        /\ peers[p].unsent = NoMsg
    BY <1>5 DEF try_request_tx_ids, At, StartAt
  <2>10. Asks(Channels, peers[p], OutOf(p, outbound), ToldOf(p, pending), said,
              OutOf(p, outbound'), peers'[p])
    BY <1>3, <2>5, <2>7, <2>8, <2>9, OutOfFacts DEF Asks
  <2>11. (p \in known) = TRUE
    BY <1>5
  <2>12. Turns(Channels, conns[c], peers'[p], TRUE, writers[p] = c,
               OutOf(p, outbound'), ToldOf(p, pending))
    BY <2>3, <2>10, <2>11, TurnsAsked
  <2>13. Turns(Channels, conns'[c], peers'[p], p \in known', writers'[p] = c,
               OutOf(p, outbound'), ToldOf(p, pending'))
    BY <1>2, <2>11, <2>12
  <2>14. OneConn(c)
    BY <1>2, AllSame
  <2> QED BY <1>2, <1>3, <2>1, <2>2, <2>3, <2>5, <2>13, <2>14, Touched
<1> QED BY <1>1, <1>4, <1>5 DEF AllTurns

-----------------------------------------------------------------------------
(* The theorems.                                                           *)

LEMMA NextTurns ==
  ASSUME ResponderInv, AllTurns, MaxConns <= 1, Next
  PROVE  AllTurns'
<1>1. CASE PollBehavior
  BY <1>1, PollTurns
<1>2. CASE Interface
  <2>1. ASSUME NEW p \in Peers, Connected(p) \/ ReadyDisconnected(p) PROVE AllTurns'
    BY <2>1, ConnectedTurns, ReadyTurns
  <2>2. ASSUME NEW c \in DOMAIN conns,
               Sent(c) \/ SendFailed(c) \/ Disconnected(c) \/ Recv(c) \/ RecvFailed(c)
        PROVE  AllTurns'
    BY <2>2, SentTurns, SendFailedTurns, DisconnectedTurns, RecvTurns, RecvFailedTurns
  <2> QED BY <1>2, <2>1, <2>2 DEF Interface
<1>3. CASE Application
  <2>1. ASSUME NEW r \in pending, Provide(r) PROVE AllTurns'
    BY <2>1, ProvideTurns
  <2>2. ASSUME NEW p, BanPeer(p) \/ DisconnectPeer(p) PROVE AllTurns'
    BY <2>2, AppendKeeps DEF BanPeer, DisconnectPeer
  <2>3. ASSUME Housekeeping PROVE AllTurns'
    BY <2>3, HousekeepingTurns
  <2> QED BY <1>3, <2>1, <2>2, <2>3 DEF Application
<1> QED BY <1>1, <1>2, <1>3 DEF Next

LEMMA TurnsInit == Init => TurnsInv
<1> SUFFICES ASSUME Init PROVE TurnsInv
  OBVIOUS
<1>1. ResponderInv
  BY ResponderInitInv
<1>2. /\ conns = <<>> /\ writers = [p \in Peers |-> 0] /\ known = {} /\ outbound = <<>>
      /\ pending = {} /\ peers = [p \in Peers |-> NewState]
  BY DEF Init, PoolInit
<1>3. OutputsOK(outbound)
  BY <1>2, OutEmpty
<1>4. ASSUME NEW p \in Peers PROVE PeerTurns(p)
  <2>1. DOMAIN conns = {} /\ writers[p] = 0 /\ p \notin known
    BY <1>2
  <2>2. Silent(p)
    BY <1>2, OutEmpty DEF Silent, OutOf, ToldOf
  <2>3. ~peers[p].violation
    BY <1>2 DEF NewState
  <2> QED BY <2>1, <2>2, <2>3 DEF PeerTurns
<1> QED BY <1>1, <1>3, <1>4 DEF TurnsInv, AllTurns

LEMMA SceneKept == Next => scene' = scene
<1> SUFFICES ASSUME Next PROVE scene' = scene
  OBVIOUS
<1>1. CASE PollBehavior
  BY <1>1, PollStill
<1>2. CASE Interface
  BY <1>2, ZenonT(30) DEF Interface, Connected, PoolConnected, ReadyDisconnected, PoolReady, Sent,
    PoolSent, SendFailed, PoolSendFailed, Disconnected, PoolDisconnected, Recv, PoolRecv,
    RecvFailed, PoolRecvFailed
<1>3. CASE Application
  BY <1>3 DEF Application, Provide, BanPeer, DisconnectPeer, Housekeeping, poolVars
<1> QED BY <1>1, <1>2, <1>3 DEF Next

LEMMA TurnsStep == TurnsInv /\ [Next]_vars => TurnsInv'
<1> SUFFICES ASSUME TurnsInv, [Next]_vars PROVE TurnsInv'
  OBVIOUS
<1>1. ResponderInv /\ ResponderInv'
  BY ResponderStep DEF TurnsInv
<1>2. CASE UNCHANGED vars
  <2>1. UNCHANGED <<known, peers, scene, conns, writers, outbound, pending>>
    BY <1>2 DEF vars, poolVars
  <2> QED BY <1>1, <2>1 DEF TurnsInv, AllTurns, PeerTurns, Silent, Met, MaxConns, Accusable, Liars,
    Enders, Channels
<1>3. CASE Next
  <2>1. MaxConns' = MaxConns
    BY <1>1, <1>3, SceneKept DEF MaxConns
  <2> QED BY <1>1, <1>3, <2>1, NextTurns DEF TurnsInv
<1> QED BY <1>2, <1>3

LEMMA TurnsAlways == Spec => []TurnsInv
BY TurnsInit, TurnsStep, PTL DEF Spec

(* A client is answered in turn: try_accept_handshake, try_respond,        *)
(* close_notify, the application's Provide commands and the RequestTxIds   *)
(* of housekeeping never send a client a message that its own protocol     *)
(* state refuses, for any peers, whatever they send, and however outputs,  *)
(* tasks and failures interleave, where each address connects once.        *)
THEOREM ResponderAnswersInTurn == Spec => [](MaxConns <= 1 => AnswersInTurn)
<1>1. TurnsInv => (MaxConns <= 1 => AnswersInTurn)
  <2> SUFFICES ASSUME TurnsInv, MaxConns <= 1, NEW c \in DOMAIN conns PROVE ~conns[c].offended
    BY DEF AnswersInTurn
  <2> QED BY ConnTurns DEF TurnsInv
<1> QED BY <1>1, TurnsAlways, PTL

(* A client that respects the protocols and leaves alone the Done of       *)
(* keepalive, peer sharing and tx-submission is never charged with a       *)
(* violation: apply_msg refuses neither what it sends nor, in              *)
(* on_outbound_msg, what the responder sends it, for any peers, the others *)
(* lying or ending protocols as they like, where each address connects     *)
(* once.                                                                   *)
THEOREM ResponderAccusesNoClient == Spec => [](MaxConns <= 1 => ClientsNotAccused)
<1>1. TurnsInv => (MaxConns <= 1 => ClientsNotAccused)
  BY DEF TurnsInv, AllTurns, PeerTurns, ClientsNotAccused
<1> QED BY <1>1, TurnsAlways, PTL
=============================================================================
