------------------------------ MODULE Responder ------------------------------
(***************************************************************************)
(* The responder of pallas-network2: ResponderBehavior with its nine       *)
(* sub-behaviours (behavior/responder/*.rs), the listener interface that   *)
(* accepts its connections (interface.rs), the application that answers    *)
(* its events, and the remote peers as clients.                            *)
(*                                                                         *)
(* Unlike the initiator, the responder forgets a peer when it disconnects, *)
(* takes as its id the address the connection came from, and lets only the *)
(* sub-behaviour that owns a message's channel react to it.                *)
(***************************************************************************)
EXTENDS Pool, SequencesExt

CONSTANTS
  Hosts, Ports,     \* where connections come from: a PeerId is a pair
  MaxErrorCount,    \* ConnectionResponderConfig.max_error_count
  MaxPerIp,         \* ConnectionResponderConfig.max_connections_per_ip
  Supported         \* HandshakeResponderConfig.supported_version: the numbers

Peers == [host : Hosts, port : Ports]

(* The scenario: what the application and the peers do in an execution.    *)
Commands == scene.commands      \* the ResponderCommands that are issued
Callers == scene.callers        \* ports of the peers that connect, and that
                                \* the application names in its commands
Proposed == scene.proposed      \* the sets of version numbers they propose
Requested == scene.requested    \* the kinds of message they send
Liars == scene.liars            \* ports of those that may send at any time
Enders == scene.enders          \* ports of those that may end, with Done, a
                                \* protocol whose Done the responder refuses
Flaky == scene.flaky            \* ports of those whose connections may fail
MaxConns == scene.max_conns     \* bound: connections made with one PeerId
MaxPending == scene.max_pending \* bound: outputs, tasks and events pending
                                \* when something comes in

ASSUME ResponderAssumption ==
  /\ MaxErrorCount \in Nat /\ MaxPerIp \in Nat /\ Supported \subseteq Nat
  /\ \A s \in Scenarios :
       /\ s.proposed \subseteq SUBSET Nat
       /\ s.callers \cup s.liars \cup s.enders \cup s.flaky \subseteq Ports
       /\ s.max_conns \in Nat /\ s.max_pending \in Nat

VARIABLES
  known,                \* the keys of ResponderBehavior.peers
  peers,                \* ResponderState of each pid
  banned_peers, connections_per_ip, accepted_peers, active_peers,
                        \* ConnectionResponder
  outbound,             \* OutboundQueue
  pending               \* requests the application was told of

connectionVars == <<banned_peers, connections_per_ip, accepted_peers, active_peers>>
vars == <<known, peers, connectionVars, outbound, poolVars, pending>>

(* A proposal maps the numbers a peer offers to whether the network magic  *)
(* in that version's data is ours.                                         *)
Proposals == UNION {[numbers -> BOOLEAN] : numbers \in Proposed}

NewState ==
  [connection |-> "New", violation |-> FALSE, error_count |-> 0,
   proto |-> [ch \in Channels |-> Default(ch)], unsent |-> NoMsg]

Init ==
  /\ PoolInit(Peers)
  /\ known = {} /\ peers = [p \in Peers |-> NewState]
  /\ banned_peers = {} /\ accepted_peers = {} /\ active_peers = 0
  /\ connections_per_ip = [h \in Hosts |-> 0]
  /\ outbound = <<>> /\ pending = {}

-----------------------------------------------------------------------------
At(s, ch) == IF ch \in Channels THEN s.proto[ch].at ELSE StartAt[ch]
is_initialized(s) == s.connection = "Initialized"

apply_msg(s, m) ==
  IF CanApply(s.proto[m.ch], m)
    THEN [s EXCEPT !.proto[m.ch] = Apply(s.proto[m.ch], m)]
    ELSE [s EXCEPT !.violation = TRUE]

(* unsent.rs for the responder: its only request is RequestTxIds.          *)
RequestTxIds == Msg("txsubmission", "RequestTxIds", None)

can_apply(s, m) == m.ch = "txsubmission" /\ CanApply(s.proto[m.ch], m)
clear_unsent(s, m) ==
  IF can_apply(s, m) /\ s.unsent = m THEN [s EXCEPT !.unsent = NoMsg] ELSE s

needs_disconnect(p, s) == p \in banned_peers \/ s.connection = "Errored"
needs_ban(p, s) ==
  p \notin banned_peers /\ (s.violation \/ s.error_count > MaxErrorCount)

-----------------------------------------------------------------------------
(* Visitors of an inbound message: the new state of the peer, and what is  *)
(* pushed to the outbound queue.                                           *)

Reaction(s, out) == [s |-> s, out |-> out]

(* try_accept_handshake: the highest common version, if its magic is ours. *)
Common(proposal) == DOMAIN proposal \cap Supported
Highest(numbers) == CHOOSE n \in numbers : \A k \in numbers : k <= n
Acceptable(proposal) ==
  Common(proposal) # {} /\ proposal[Highest(Common(proposal))]

(* RefuseReason: Refused names the version, VersionMismatch names none.    *)
Refusal(proposal) ==
  Msg("handshake", "Refuse", IF Common(proposal) = {} THEN 0 ELSE Highest(Common(proposal)))

(* Seeded fault: the peer is not marked as initialized.                    *)
AcceptedNotInitialized(s, p) ==
  IF At(s, "handshake") # "Confirm" THEN Reaction(s, <<>>)
  ELSE LET proposal == s.proto["handshake"].arg
       IN  IF Acceptable(proposal)
             THEN Reaction(s, <<Send(p, Msg("handshake", "Accept", Highest(Common(proposal))))>>)
             ELSE Reaction(s, <<Send(p, Refusal(proposal))>>)

try_accept_handshake(s, p) ==
  IF At(s, "handshake") # "Confirm" THEN Reaction(s, <<>>)
  ELSE LET proposal == s.proto["handshake"].arg
       IN  IF Acceptable(proposal)
             THEN Reaction([s EXCEPT !.connection = "Initialized"],
                    <<Send(p, Msg("handshake", "Accept", Highest(Common(proposal)))),
                      Event(p, "PeerInitialized")>>)
             ELSE Reaction(s, <<Send(p, Refusal(proposal))>>)

(* The request that a protocol state shows, as the event it is told by.    *)
Shown ==
  [chainsync   |-> [Intersect |-> "IntersectionRequested",
                    CanAwait |-> "NextHeaderRequested",
                    MustReply |-> "NextHeaderRequested"],
   blockfetch  |-> [Busy |-> "BlockRangeRequested"],
   peersharing |-> [Busy |-> "PeersRequested"],
   leiosnotify |-> [Busy |-> "EbNotificationRequested"],
   leiosfetch  |-> [AwaitingBlock |-> "EbRequested",
                    AwaitingBlockTxs |-> "EbTxsRequested"]]

check_requests(s, p, ch) ==
  IF is_initialized(s) /\ At(s, ch) \in DOMAIN Shown[ch]
    THEN <<Event(p, Shown[ch][At(s, ch)])>> ELSE <<>>

try_respond(s, p) ==
  IF is_initialized(s) /\ At(s, "keepalive") = "Server"
    THEN <<Send(p, Msg("keepalive", "ResponseKeepAlive", None))>> ELSE <<>>

try_extract_txs(s, p) ==
  IF At(s, "txsubmission") = "TxsReplied" THEN <<Event(p, "TxReceived")>> ELSE <<>>

close_notify(s, p) ==
  IF is_initialized(s) /\ At(s, "leiosnotify") = "Quit"
    THEN <<Send(p, Msg("leiosnotify", "Done", None))>> ELSE <<>>

(* Seeded fault: every visitor runs on every message.                      *)
VisitedByAll(s, p, ch) ==
  LET h == try_accept_handshake(s, p)
      out(c) == IF c \in Channels THEN check_requests(h.s, p, c) ELSE <<>>
  IN  Reaction(h.s, h.out \o try_respond(h.s, p) \o out("chainsync")
                      \o out("blockfetch") \o out("peersharing"))

(* The visitor that owns the message's channel.                            *)
visit_inbound_msg(s, p, ch) ==
  CASE ch = "handshake" -> try_accept_handshake(s, p)
    [] ch = "keepalive" -> Reaction(s, try_respond(s, p))
    [] ch = "txsubmission" -> Reaction(s, try_extract_txs(s, p))
    [] ch = "leiosnotify" -> Reaction(s, check_requests(s, p, ch) \o close_notify(s, p))
    [] OTHER -> Reaction(s, check_requests(s, p, ch))

-----------------------------------------------------------------------------
(* The handlers of handle_io.                                              *)

on_inbound_msg(p, m) ==
  /\ IF p \in known
       THEN LET s == apply_msg(peers[p], m)
                r == IF s.violation THEN Reaction(s, <<>>)
                                    ELSE visit_inbound_msg(s, p, m.ch)
            IN  peers' = [peers EXCEPT ![p] = r.s] /\ outbound' = outbound \o r.out
       ELSE UNCHANGED <<peers, outbound>>
  /\ UNCHANGED <<known, connectionVars, pending>>

OutboundNotApplied(p, m) ==                              \* seeded fault
  /\ peers' = IF p \in known THEN [peers EXCEPT ![p] = clear_unsent(@, m)] ELSE peers
  /\ UNCHANGED <<known, connectionVars, outbound, pending>>

on_outbound_msg(p, m) ==
  /\ peers' = IF p \in known
                THEN [peers EXCEPT ![p] = apply_msg(clear_unsent(@, m), m)] ELSE peers
  /\ UNCHANGED <<known, connectionVars, outbound, pending>>

(* connection.rs visit_connected: a banned peer is turned away before it   *)
(* is counted, one over the limit after.                                   *)
StaysConnected(p) == UNCHANGED outbound                  \* seeded fault
TurnAway(p) == outbound' = Append(outbound, Disconnect(p))

Admit(p, limit) ==
  IF p \in banned_peers
    THEN TurnAway(p) /\ UNCHANGED connectionVars
    ELSE /\ connections_per_ip' = [connections_per_ip EXCEPT ![p.host] = @ + 1]
         /\ IF connections_per_ip'[p.host] > limit
              THEN TurnAway(p) /\ UNCHANGED <<accepted_peers, active_peers>>
              ELSE /\ accepted_peers' = accepted_peers \cup {p}
                   /\ active_peers' = active_peers + (IF p \in accepted_peers THEN 0 ELSE 1)
                   /\ UNCHANGED outbound
         /\ UNCHANGED banned_peers

visit_connected(p) == Admit(p, MaxPerIp)

UntracksTheBanned(p) ==                                  \* seeded fault
  /\ visit_connected(p)
  /\ known' = IF p \in banned_peers THEN known ELSE known \cup {p}
  /\ peers' = [peers EXCEPT ![p] = [NewState EXCEPT !.connection = "Connected"]]
  /\ UNCHANGED pending

on_connected(p) ==
  /\ visit_connected(p)
  /\ known' = known \cup {p}
  /\ peers' = [peers EXCEPT ![p] = [NewState EXCEPT !.connection = "Connected"]]
  /\ UNCHANGED pending

MonusOne(n) == IF n = 0 THEN 0 ELSE n - 1                \* saturating_sub(1)

(* Seeded faults: only accepted peers give their slot back; an accepted    *)
(* peer is forgotten but still counted.                                    *)
FreesAcceptedOnly(p) ==
  /\ connections_per_ip' = [connections_per_ip EXCEPT
                              ![p.host] = IF p \in accepted_peers THEN MonusOne(@) ELSE @]
  /\ active_peers' = IF p \in accepted_peers THEN MonusOne(active_peers) ELSE active_peers
  /\ accepted_peers' = accepted_peers \ {p}
  /\ UNCHANGED banned_peers

ForgetsWithoutCounting(p) ==
  /\ connections_per_ip' = [connections_per_ip EXCEPT ![p.host] = MonusOne(@)]
  /\ accepted_peers' = accepted_peers \ {p}
  /\ UNCHANGED <<active_peers, banned_peers>>

visit_disconnected(p) ==
  /\ connections_per_ip' = [connections_per_ip EXCEPT ![p.host] = MonusOne(@)]
  /\ active_peers' = IF p \in accepted_peers THEN MonusOne(active_peers) ELSE active_peers
  /\ accepted_peers' = accepted_peers \ {p}
  /\ UNCHANGED banned_peers

on_disconnected(p) ==
  /\ IF p \in known THEN visit_disconnected(p) ELSE UNCHANGED connectionVars
  /\ known' = known \ {p}
  /\ peers' = [peers EXCEPT ![p] = NewState]
  /\ outbound' = Append(outbound, Event(p, "PeerDisconnected"))
  /\ UNCHANGED pending

on_errored(p) ==
  /\ IF p \in known
       THEN /\ peers' = [peers EXCEPT ![p].connection = "Errored", ![p].error_count = @ + 1]
            /\ outbound' = Append(outbound, Disconnect(p))
       ELSE UNCHANGED <<peers, outbound>>
  /\ UNCHANGED <<known, connectionVars, pending>>

-----------------------------------------------------------------------------
(* Manager::poll_next: an event reaches the application, which keeps the   *)
(* requests and drops those of a peer it is told has gone; a command       *)
(* reaches the pool.                                                       *)

RequestNames == UNION {{Shown[ch][a] : a \in DOMAIN Shown[ch]} : ch \in DOMAIN Shown}

PollBehavior ==
  /\ outbound # <<>>
  /\ outbound' = Tail(outbound)
  /\ LET o == Head(outbound)
     IN  /\ pending' = CASE o.do \in RequestNames -> pending \cup {o}
                         [] o.do = "PeerDisconnected" -> {r \in pending : r.pid # o.pid}
                         [] OTHER -> pending
         /\ \/ o.do = "Send" /\ dispatch_send(o.pid, o.msg)
            \/ o.do = "Disconnect" /\ dispatch_disconnect(o.pid)
            \/ o.do \notin {"Send", "Disconnect"} /\ UNCHANGED poolVars
  /\ UNCHANGED <<known, peers, connectionVars>>

NotFlooded ==
  /\ Len(outbound) <= MaxPending
  /\ \A p \in Peers : Len(futures[p]) <= MaxPending
  /\ \A c \in DOMAIN conns : Len(conns[c].tasks) <= MaxPending

(* The listener accepts a connection.  TCP gives one PeerId to one live    *)
(* connection: the same address comes back only once the old one is over.  *)
ConnsOf(p) == {c \in DOMAIN conns : conns[c].pid = p}

Connected(p) ==
  /\ p.port \in Callers /\ NotFlooded
  /\ Cardinality(ConnsOf(p)) < MaxConns
  /\ \A c \in ConnsOf(p) : ~conns[c].reading
  /\ PoolConnected(p) /\ UNCHANGED futures
  /\ on_connected(p)

Sent(c) == PoolSent(c) /\ on_outbound_msg(conns[c].pid, Task(c))
SendFailed(c) == PoolSendFailed(c) /\ on_errored(conns[c].pid)
Disconnected(c) == PoolDisconnected(c) /\ on_disconnected(conns[c].pid)
ReadyDisconnected(p) == PoolReady(p) /\ on_disconnected(p)

(* What a client may send: a message its own state allows, once the        *)
(* handshake is through; a liar anything.  A client answers RequestTxIds   *)
(* once.                                                                   *)
ClientKinds ==
  [handshake    |-> {"Propose"},
   keepalive    |-> {"KeepAlive", "Done"},
   peersharing  |-> {"ShareRequest", "Done"},
   blockfetch   |-> {"RequestRange", "ClientDone"},
   chainsync    |-> {"FindIntersect", "RequestNext", "Done"},
   txsubmission |-> {"Init", "ReplyTxIds", "ReplyTxs", "Done"},
   leiosnotify  |-> {"RequestNext", "Quit"},
   leiosfetch   |-> {"BlockRequest", "BlockTxsRequest", "Done"}]

Args(kind) == CASE kind = "Propose" -> Proposals
                [] kind = "ReplyTxIds" -> {"ids"}
                [] OTHER -> {None}

(* Where a client may end a protocol with a Done that State::apply has no  *)
(* arm for.  The far end is left in the state it was in: whatever it says  *)
(* after that, the responder has charged it and does not react.            *)
Endings ==
  [keepalive    |-> {"ClientEmpty", "ClientResponse"},
   peersharing  |-> {"IdleEmpty", "IdleResponse"},
   txsubmission |-> {"TxIdsBlocking"}]

Ends(k, m) ==
  /\ k.pid.port \in Enders
  /\ m.ch \in DOMAIN Endings /\ m.kind = "Done" /\ k.remote[m.ch].at \in Endings[m.ch]

Willing(k, m) ==
  \/ k.pid.port \in Liars
  \/ /\ CanApply(k.remote[m.ch], m) \/ Ends(k, m)
     /\ m.ch = "handshake" \/ k.remote["handshake"].at = "Accepted"
     /\ m.ch = "txsubmission" /\ m.kind \in {"ReplyTxIds", "Done"} => k.remote[m.ch].arg = None

ClientMsgs == UNION {UNION {{Msg(ch, kind, a) : a \in Args(kind)} :
                              kind \in ClientKinds[ch] \cap Requested} : ch \in Channels}

Recv(c) ==
  /\ NotFlooded
  /\ \E m \in ClientMsgs :
       Willing(conns[c], m) /\ PoolRecv(c, m) /\ on_inbound_msg(conns[c].pid, m)

RecvFailed(c) ==
  /\ conns[c].shut \/ conns[c].pid.port \in Flaky
  /\ PoolRecvFailed(c)
  /\ on_errored(conns[c].pid)

-----------------------------------------------------------------------------
(* Behavior::execute.  Each Provide command pushes the messages of its     *)
(* answer; the application answers a request it was told of, once.         *)

Only(ch, kinds) == {<<Msg(ch, kind, None)>> : kind \in kinds}

Answers ==
  [IntersectionRequested   |-> Only("chainsync", {"IntersectFound"}),
   NextHeaderRequested     |-> Only("chainsync", {"RollForward", "RollBackward"}),
   BlockRangeRequested     |->
     {<<Msg("blockfetch", "StartBatch", None)>> \o blocks
         \o <<Msg("blockfetch", "BatchDone", None)>> :
           blocks \in {<<>>, <<Msg("blockfetch", "Block", None)>>}},
   PeersRequested          |-> Only("peersharing", {"SharePeers"}),
   EbNotificationRequested |-> Only("leiosnotify", {"BlockAnnouncement", "BlockOffer",
                                                    "BlockTxsOffer", "Votes"}),
   EbRequested             |-> Only("leiosfetch", {"Block"}),
   EbTxsRequested          |-> Only("leiosfetch", {"BlockTxs"})]

Provide(r) ==
  /\ pending' = pending \ {r}
  /\ \E msgs \in Answers[r.do] :
       outbound' = outbound \o [i \in DOMAIN msgs |-> Send(r.pid, msgs[i])]
  /\ UNCHANGED <<known, peers, connectionVars, poolVars>>

BanPeer(p) ==
  /\ "BanPeer" \in Commands /\ NotFlooded
  /\ banned_peers' = banned_peers \cup {p}
  /\ outbound' = Append(outbound, Disconnect(p))
  /\ UNCHANGED <<known, peers, connections_per_ip, accepted_peers, active_peers,
                 poolVars, pending>>

DisconnectPeer(p) ==
  /\ "DisconnectPeer" \in Commands /\ NotFlooded
  /\ outbound' = Append(outbound, Disconnect(p))
  /\ UNCHANGED <<known, peers, connectionVars, poolVars, pending>>

(* Housekeeping visits the peers in the order of a HashMap; a visit reads  *)
(* and writes only what belongs to its own peer, so the order shows only   *)
(* in the queue.                                                           *)
try_request_tx_ids(p, s) ==
  /\ is_initialized(s) /\ At(s, "txsubmission") = "Idle"
  /\ can_apply(s, RequestTxIds) /\ s.unsent = NoMsg

visit_housekeeping(p, s) ==
  (IF needs_ban(p, s) \/ needs_disconnect(p, s) THEN <<Disconnect(p)>> ELSE <<>>)
    \o (IF try_request_tx_ids(p, s) THEN <<Send(p, RequestTxIds)>> ELSE <<>>)

Housekeeping ==
  /\ NotFlooded
  /\ \E order \in {f \in [1..Cardinality(known) -> known] :
                     \A i, j \in DOMAIN f : f[i] = f[j] => i = j} :
       outbound' = outbound \o FlattenSeq([i \in DOMAIN order |->
                                 visit_housekeeping(order[i], peers[order[i]])])
  /\ banned_peers' = banned_peers \cup {p \in known : needs_ban(p, peers[p])}
  /\ peers' = [p \in Peers |->
                 IF p \in known /\ try_request_tx_ids(p, peers[p])
                   THEN [peers[p] EXCEPT !.unsent = RequestTxIds] ELSE peers[p]]
  /\ UNCHANGED <<known, connections_per_ip, accepted_peers, active_peers,
                 poolVars, pending>>

-----------------------------------------------------------------------------
Interface ==
  \/ \E p \in Peers : Connected(p) \/ ReadyDisconnected(p)
  \/ \E c \in DOMAIN conns :
        Sent(c) \/ SendFailed(c) \/ Disconnected(c) \/ Recv(c) \/ RecvFailed(c)

Application ==
  \/ \E r \in pending : Provide(r)
  \/ \E p \in [host : Hosts, port : Callers] : BanPeer(p) \/ DisconnectPeer(p)
  \/ Housekeeping

Next == PollBehavior \/ Interface \/ Application

Spec == Init /\ [][Next]_vars

-----------------------------------------------------------------------------
(* Type invariant of the responder's state.                                *)
TypeOK ==
  /\ known \subseteq Peers
  /\ \A p \in Peers :
       /\ peers[p].connection \in {"New", "Connected", "Initialized", "Errored"}
       /\ peers[p].unsent \in {NoMsg, RequestTxIds}
  /\ banned_peers \subseteq Peers /\ accepted_peers \subseteq Peers
  /\ connections_per_ip \in [Hosts -> Nat] /\ active_peers \in Nat
  /\ writers \in [Peers -> 0..Len(conns)]
  /\ \A r \in pending : r.do \in RequestNames /\ r.pid \in Peers

FromHost(S, h) == {p \in S : p.host = h}

(* The ports of the peers that the responder may charge.                   *)
Accusable == Liars \cup Enders

(* Scenarios in which no address connects that was banned or used before.  *)
NobodyReturns == MaxConns = 1 /\ "BanPeer" \notin Commands

(* Scenarios in which an address returns, if at all, when nothing of its   *)
(* last connection is pending: neither a disconnect to be reported nor an  *)
(* output, which names the address and not the connection.                 *)
Settled == MaxConns <= 1 \/ MaxPending = 0

(* While nobody returns, the slots of an IP are accounted exactly: every   *)
(* tracked peer of the host holds one, whether it was accepted or is being *)
(* turned away, each is given back once, however many errors, disconnects  *)
(* and bans for violations come together, and the accepted peers of a host *)
(* never exceed max_connections_per_ip.                                    *)
SlotsExact ==
  NobodyReturns =>
    \A h \in Hosts :
      /\ connections_per_ip[h] = Cardinality(FromHost(known, h))
      /\ Cardinality(FromHost(accepted_peers, h)) <= MaxPerIp

(* The active_peers gauge counts the accepted peers, and every accepted    *)
(* peer is tracked, through reconnects of an address under which the last  *)
(* disconnect is still to be reported.                                     *)
ActivePeersTracked ==
  active_peers = Cardinality(accepted_peers) /\ accepted_peers \subseteq known

(* A connection that neither end has given up; that the responder can be   *)
(* reached through; whose address has disconnects of its past to report.   *)
Open(c) == conns[c].reading /\ conns[c].writing /\ ~conns[c].shut
Tracked(c) == conns[c].pid \in known /\ writers[conns[c].pid] = c
Haunted(c) ==
  \/ futures[conns[c].pid] # <<>>
  \/ \E b \in ConnsOf(conns[c].pid) \ {c} : conns[b].tasks # <<>>

(* Every connection the listener accepts is tracked from then on, also of  *)
(* a peer that is turned away or that comes back, and an open one loses    *)
(* its state or its writer to nothing but a disconnect of the address's    *)
(* past that was still to be reported when it was accepted.                *)
Keeps(c) == Open(c) /\ Tracked(c) /\ ~Haunted(c) /\ Open(c)'

ConnectionsTracked ==
  [][\A c \in DOMAIN conns' : (c \in DOMAIN conns => Keeps(c)) => Tracked(c)']_vars

(* A client is answered in turn: unless its address returned too early, it *)
(* is never sent a message its own protocol state refuses, such as a       *)
(* second answer to one request.                                           *)
AnswersInTurn == Settled => \A c \in DOMAIN conns : ~conns[c].offended

(* A client that respects the protocols, does not end keepalive, peer      *)
(* sharing or tx-submission with their Done, which State::apply refuses    *)
(* though the protocols have it, and whose address did not return too      *)
(* early is never charged with a violation, neither for what it sends nor  *)
(* for what the responder itself sends it.                                 *)
ClientsNotAccused ==
  Settled => \A p \in Peers : p.port \notin Accusable => ~peers[p].violation

-----------------------------------------------------------------------------
(* Fairness: the manager loop is polled for ever, tokio completes writes,  *)
(* the application answers what it is told and keeps calling housekeeping, *)
(* and a peer reads what it is sent.                                       *)
ConnIds == UNION {1..(s.max_conns * Cardinality(Peers)) : s \in Scenarios}

Writes(c) == c \in DOMAIN conns /\ (Sent(c) \/ SendFailed(c) \/ Disconnected(c))

Fairness ==
  /\ WF_vars(PollBehavior) /\ WF_vars(Housekeeping)
  /\ \A p \in Peers, name \in RequestNames :
       WF_vars(Event(p, name) \in pending /\ Provide(Event(p, name)))
  /\ \A p \in Peers : WF_vars(ReadyDisconnected(p))
  /\ \A c \in ConnIds : WF_vars(Writes(c))

FairSpec == Spec /\ Fairness

(* A peer that was turned away, for its ban or its IP's limit, or that     *)
(* violated a protocol is disconnected in the end, though its messages are *)
(* ignored from then on and no handler reacts to them.                     *)
Unwelcome(p) == p \in known \ accepted_peers \/ peers[p].violation
UnwelcomePeersLeave == \A p \in Peers : Unwelcome(p) ~> p \notin known

(* The states in which a client waits for the responder.                   *)
ServerTurn ==
  [handshake |-> {"Confirm"}, keepalive |-> {"Server"}, peersharing |-> {"Busy"},
   blockfetch |-> {"Busy", "StreamingNone", "StreamingSome"},
   chainsync |-> {"Intersect", "CanAwait"}, txsubmission |-> {"Idle"},
   leiosnotify |-> {"Busy", "Quit"}, leiosfetch |-> {"AwaitingBlock", "AwaitingBlockTxs"}]

Over(c) == conns[c].shut \/ ~conns[c].reading
Waiting(c, ch) ==
  ch \in Channels /\ conns[c].remote[ch].at \in ServerTurn[ch] /\ ~Over(c)

(* No request of a well-behaved client is swallowed: whatever a client     *)
(* waits for, an answer or the end of its connection comes.                *)
RequestsAnswered ==
  \A c \in ConnIds, ch \in AllChannels :
    c \in DOMAIN conns /\ Waiting(c, ch) ~> c \in DOMAIN conns /\ ~Waiting(c, ch)
=============================================================================
