--------------------------- MODULE InitiatorProofs ---------------------------
(***************************************************************************)
(* Proofs about the initiator (Initiator.tla), for any finite set of       *)
(* peers, any limits and any scenarios.                                    *)
(***************************************************************************)
EXTENDS Initiator, PromotionProofs, QueueLemmas

(* The messages the sub-behaviours send.                                   *)
EbRequests == {Msg("leiosfetch", kind, eb) : kind \in {"BlockRequest", "BlockTxsRequest"},
                                             eb \in Ebs}
Asks ==
  {Msg("handshake", "Propose", None), Msg("keepalive", "KeepAlive", None),
   Msg("peersharing", "ShareRequest", None), Msg("chainsync", "RequestNext", None),
   Msg("chainsync", "FindIntersect", None), Msg("leiosnotify", "RequestNext", None)}
    \cup {RequestRange(r) : r \in Ranges} \cup EbRequests

(* What a message, and the protocol state that keeps it, may carry.        *)
Payloads == {None} \cup Ranges \cup Ebs \cup Versions \cup SUBSET Peers

AllMoves == UNION {Moves[ch] : ch \in AllChannels}
Ats == {t[3] : t \in AllMoves} \cup {StartAt[ch] : ch \in AllChannels}
         \cup {"Done", "IdleDrained"}
ProtoStates == [at : Ats, arg : Payloads]

PeerStates ==
  [connection : ConnectionStates, violation : BOOLEAN, error_count : Nat,
   continue_sync : BOOLEAN, sync_next_deferred : BOOLEAN,
   proto : [Channels -> ProtoStates], unsent : [Channels -> Asks \cup {NoMsg}],
   in_flight : Ranges \cup {None}]

(* A block range and a set of shared peers are kept where they belong.     *)
WellKept(s) ==
  /\ "blockfetch" \in Channels => s.proto["blockfetch"].arg \in Ranges \cup {None}
  /\ "blockfetch" \in Channels =>
       s.unsent["blockfetch"] = NoMsg \/ s.unsent["blockfetch"].ch = "blockfetch"
  /\ "peersharing" \in Channels /\ s.proto["peersharing"].at = "IdleResponse"
       => s.proto["peersharing"].arg \in SUBSET Peers

Events == {"PeerInitialized", "BlockBodyReceived", "BlockHeaderReceived",
           "RollbackReceived", "IntersectionFound", "EbNotification", "EbFetched"}
Outputs == [do : {"Send"}, pid : Peers, msg : Asks]
             \cup [do : {"Connect", "Disconnect"} \cup Events, pid : Peers, msg : {NoMsg}]
Fetches == [pid : Peers, msg : EbRequests]

(* What the visitors work on.                                              *)
Contexts == [s : PeerStates, out : Seq(Outputs), requests : Seq(Ranges),
             fetches : Seq(Fetches), discovered : SUBSET Peers]
ContextOK(x) == scene \in Scenarios /\ x \in Contexts /\ WellKept(x.s)

ConnStates ==
  [pid : Peers, tasks : Seq(Asks \cup {Shutdown}), shut : BOOLEAN, reading : BOOLEAN,
   writing : BOOLEAN, remote : [Channels -> ProtoStates], offended : BOOLEAN]

BehaviorTypes ==
  /\ peers \in [Peers -> PeerStates] /\ \A p \in Peers : WellKept(peers[p])
  /\ requests \in Seq(Ranges) /\ fetches \in Seq(Fetches) /\ discovered \in SUBSET Peers
  /\ outbound \in Seq(Outputs) /\ asked \in SUBSET Ranges

PoolTypes ==
  /\ conns \in Seq(ConnStates)
  /\ writers \in [Peers -> 0..Len(conns)]
  /\ futures \in [Peers -> Seq({"connect", "ready"})]

-----------------------------------------------------------------------------
(* The mini-protocol tables.                                               *)

(* What the sub-behaviours send: its channel, and what it carries.         *)
LEMMA AskFacts ==
  ASSUME NEW m \in Asks
  PROVE  /\ m.ch \in AllChannels /\ m.kind # "SharePeers"
         /\ m.arg \in {None} \cup Ranges \cup Ebs
         /\ m.ch = "blockfetch" => m.arg \in Ranges /\ m = RequestRange(m.arg)
BY DEF Asks, EbRequests, RequestRange, Msg, AllChannels, None

(* Only SharePeers leads to IdleResponse.                                  *)
LEMMA MoveFacts ==
  ASSUME NEW t \in Moves["peersharing"], t[3] = "IdleResponse"
  PROVE  t[2] = "SharePeers"
BY DEF Moves, PeerSharingMoves, From

(* State::apply keeps the shape of a protocol state, and what a state      *)
(* carries comes from the message, or stays.                               *)
LEMMA ApplyFacts ==
  ASSUME NEW s \in ProtoStates, NEW m, m.ch \in AllChannels, m.arg \in Payloads,
         CanApply(s, m)
  PROVE  /\ Apply(s, m) \in ProtoStates
         /\ m.ch # "leiosfetch" => Apply(s, m).arg = m.arg
         /\ m.ch = "peersharing" /\ Apply(s, m).at = "IdleResponse" => m.kind = "SharePeers"
<1> DEFINE P(u) == u[1] = s.at /\ u[2] = m.kind
<1> DEFINE t == CHOOSE u \in Moves[m.ch] : P(u)
<1>1. t \in Moves[m.ch] /\ P(t)
  <2>1. \E u \in Moves[m.ch] : P(u)
    BY DEF CanApply
  <2> QED BY <2>1
<1>2. Apply(s, m) = [at |-> t[3],
                     arg |-> IF m.ch = "leiosfetch" /\ m.kind \in {"Block", "BlockTxs"}
                               THEN s.arg ELSE m.arg]
  BY DEF Apply
<1> HIDE DEF t
<1>3. t[3] \in Ats
  <2>1. t \in AllMoves
    BY <1>1 DEF AllMoves
  <2> QED BY <2>1 DEF Ats
<1>4. m.ch = "peersharing" /\ t[3] = "IdleResponse" => t[2] = "SharePeers"
  BY <1>1, MoveFacts
<1> QED BY <1>1, <1>2, <1>3, <1>4 DEF ProtoStates

(* The start of every protocol.                                            *)
LEMMA DefaultFacts ==
  ASSUME NEW ch \in AllChannels
  PROVE  /\ Default(ch) \in ProtoStates /\ Default(ch).arg = None
         /\ Default(ch).at = StartAt[ch]
         /\ ch = "peersharing" => Default(ch).at # "IdleResponse"
<1>1. StartAt["peersharing"] # "IdleResponse"
  BY DEF StartAt
<1>2. Default(ch) = [at |-> StartAt[ch], arg |-> None] /\ StartAt[ch] \in Ats
  BY DEF Default, Ats
<1> QED BY <1>1, <1>2 DEF ProtoStates, Payloads

-----------------------------------------------------------------------------
(* The block ranges a peer's state holds; a state that is New holds them   *)
(* only by a stale event, after they were given back.                      *)
Unsent(s, r) ==
  /\ "blockfetch" \in Channels
  /\ s.unsent["blockfetch"] # NoMsg /\ s.unsent["blockfetch"].arg = r
Holds(s, r) == s.connection # "New" /\ (Unsent(s, r) \/ s.in_flight = r)
InQueue(queue, r) == \E i \in DOMAIN queue : queue[i] = r

(* A peer that may be asked for a range has none in flight.                *)
Free(s) == At(s, "blockfetch") = "Idle" => s.in_flight = None

(* RangesNotLost, strengthened: a peer that is New is no holder, because   *)
(* an IncludePeer replaces its state.                                      *)
RangesSafe ==
  \A r \in asked \ answered : InQueue(requests, r) \/ \E p \in known : Holds(peers[p], r)

BehaviorInv == BehaviorTypes /\ (\A p \in Peers : Free(peers[p])) /\ RangesSafe

(* The inductive invariant.                                                *)
InitiatorInv ==
  /\ scene \in Scenarios /\ sweep \subseteq known
  /\ GovernanceInv /\ BehaviorInv /\ PoolTypes

(* No range gets lost between x and y.                                     *)
Keeps(x, y) ==
  \A r \in Ranges :
    InQueue(x.requests, r) \/ Holds(x.s, r) => InQueue(y.requests, r) \/ Holds(y.s, r)

(* The block-fetch state and the range in flight are the same in x and y.  *)
SameFetch(x, y) ==
  y.s.in_flight = x.s.in_flight /\ At(y.s, "blockfetch") = At(x.s, "blockfetch")

(* What every visitor but blockfetch_inbound does.                         *)
Fine(x, y) == ContextOK(y) /\ Keeps(x, y) /\ SameFetch(x, y)

(* A visitor that leaves the block ranges alone is fine.                   *)
LEMMA FineWhenSame ==
  ASSUME NEW x, NEW y, ContextOK(y), SameFetch(x, y), y.requests = x.requests,
         "blockfetch" \in Channels => y.s.unsent["blockfetch"] = x.s.unsent["blockfetch"],
         y.s.connection = "New" => x.s.connection = "New"
  PROVE  Fine(x, y)
BY DEF Fine, Keeps, Holds, Unsent, SameFetch

(* Visitors that are fine compose.                                         *)
LEMMA FineComposes ==
  /\ \A x : ContextOK(x) => Fine(x, x)
  /\ \A x, y, z : Fine(x, y) /\ Fine(y, z) => Fine(x, z)
BY FineWhenSame DEF Fine, Keeps, SameFetch

(* An output appended to the queue.                                        *)
LEMMA PushOK ==
  ASSUME NEW x, ContextOK(x), NEW o \in Outputs
  PROVE  ContextOK(Push(x, o)) /\ Push(x, o).s = x.s /\ Push(x, o).requests = x.requests
<1>1. x \in Contexts /\ Append(x.out, o) \in Seq(Outputs)
  BY DEF ContextOK, Contexts
<1>2. Push(x, o) \in Contexts /\ Push(x, o).s = x.s /\ Push(x, o).requests = x.requests
  BY <1>1 DEF Push, Contexts
<1> QED BY <1>2 DEF ContextOK

(* The outputs of the behaviour have their type.                           *)
LEMMA OutputFacts ==
  ASSUME NEW p \in Peers
  PROVE  /\ \A m \in Asks : Send(p, m) \in Outputs
         /\ Connect(p) \in Outputs /\ Disconnect(p) \in Outputs
         /\ \A name \in Events : Event(p, name) \in Outputs
BY DEF Send, Connect, Disconnect, Event, Outputs

(* A request is sent or not.                                               *)
LEMMA RequestOK ==
  ASSUME NEW x, ContextOK(x), NEW p \in Peers, NEW m \in Asks
  PROVE  /\ ContextOK(try_send_request(x, p, m)) /\ SameFetch(x, try_send_request(x, p, m))
         /\ m.ch # "blockfetch" => Fine(x, try_send_request(x, p, m))
<1> DEFINE y == [x EXCEPT !.s.unsent[m.ch] = m]
<1> DEFINE z == Push(y, Send(p, m))
<1>1. /\ ContextOK(y) /\ SameFetch(x, y)
      /\ y.requests = x.requests /\ y.s.connection = x.s.connection
      /\ m.ch # "blockfetch" =>
           ("blockfetch" \in Channels => y.s.unsent["blockfetch"] = x.s.unsent["blockfetch"])
  BY DEF ContextOK, Contexts, PeerStates, WellKept, At, SameFetch
<1> HIDE DEF y
<1>2. ContextOK(z) /\ z.s = y.s /\ z.requests = y.requests
  BY <1>1, OutputFacts, PushOK
<1> HIDE DEF z
<1>3. SameFetch(x, z) /\ (m.ch # "blockfetch" => Fine(x, z))
  BY <1>1, <1>2, FineWhenSame DEF SameFetch
<1>4. Fine(x, x)
  BY FineComposes
<1>5. try_send_request(x, p, m) = IF CanSend(x.s, m) THEN z ELSE x
  BY DEF try_send_request, y, z
<1> QED BY <1>2, <1>3, <1>4, <1>5 DEF Fine

-----------------------------------------------------------------------------
(* The sub-behaviours, one after the other.                                *)

(* The connection state moves, and stays other than New.                   *)
LEMMA SetConnectionFine ==
  ASSUME NEW x, ContextOK(x), NEW k \in ConnectionStates \ {"New"}
  PROVE  Fine(x, [x EXCEPT !.s.connection = k])
<1> DEFINE y == [x EXCEPT !.s.connection = k]
<1>1. /\ ContextOK(y) /\ SameFetch(x, y) /\ y.requests = x.requests
      /\ y.s.unsent = x.s.unsent /\ y.s.connection # "New"
  BY DEF ContextOK, Contexts, PeerStates, WellKept, At, SameFetch
<1> QED BY <1>1, FineWhenSame

(* An output is pushed.                                                    *)
LEMMA PushFine ==
  ASSUME NEW x, ContextOK(x), NEW o \in Outputs
  PROVE  Fine(x, Push(x, o))
BY PushOK, FineWhenSame DEF SameFetch

(* A request of another protocol than block-fetch is sent or not.          *)
LEMMA RequestFine ==
  ASSUME NEW x, ContextOK(x), NEW p \in Peers, NEW m \in Asks, m.ch # "blockfetch"
  PROVE  Fine(x, try_send_request(x, p, m))
BY RequestOK

(* The protocol state of another protocol than block-fetch is replaced by  *)
(* one that holds no shared peers.                                         *)
LEMMA SetProtoFine ==
  ASSUME NEW x, ContextOK(x), NEW ch \in Channels \ {"blockfetch"},
         NEW k \in ProtoStates, k.at # "IdleResponse"
  PROVE  Fine(x, [x EXCEPT !.s.proto[ch] = k])
<1> DEFINE y == [x EXCEPT !.s.proto[ch] = k]
<1>1. /\ ContextOK(y) /\ SameFetch(x, y) /\ y.requests = x.requests
      /\ y.s.unsent = x.s.unsent /\ y.s.connection = x.s.connection
  BY DEF ContextOK, Contexts, PeerStates, WellKept, At, SameFetch
<1> QED BY <1>1, FineWhenSame

(* connection.rs and handshake.rs                                          *)
LEMMA ConnectionFine ==
  ASSUME NEW x, ContextOK(x), NEW p \in Peers, NEW t
  PROVE  /\ Fine(x, connection_housekeeping(x, p, t))
         /\ Fine(x, connection_errored(x, p, t))
         /\ Fine(x, propose_handshake(x, p))
         /\ Fine(x, handshake_inbound(x, p))
<1> USE FineComposes, PushFine, OutputFacts
<1>1. Fine(x, connection_housekeeping(x, p, t))
  <2> DEFINE a == [x EXCEPT !.s.connection = "Connecting"]
  <2> DEFINE y == IF needs_connection(x.s, t) THEN Push(a, Connect(p)) ELSE x
  <2>1. Fine(x, a)
    BY SetConnectionFine DEF ConnectionStates
  <2> HIDE DEF a
  <2>2. Fine(x, y)
    BY <2>1 DEF Fine
  <2> HIDE DEF y
  <2>3. connection_housekeeping(x, p, t)
          = IF needs_disconnect(y.s, t) THEN Push(y, Disconnect(p)) ELSE y
    BY DEF connection_housekeeping, y, a
  <2> QED BY <2>2, <2>3 DEF Fine
<1>2. Fine(x, connection_errored(x, p, t))
  BY DEF connection_errored
<1>3. Fine(x, propose_handshake(x, p))
  BY DEF propose_handshake, Asks
<1>4. Fine(x, handshake_inbound(x, p))
  <2> DEFINE a == [x EXCEPT !.s.connection = "Initialized"]
  <2>1. Fine(x, a)
    BY SetConnectionFine DEF ConnectionStates
  <2>2. Fine(x, Push(a, Event(p, "PeerInitialized")))
    BY <2>1 DEF Fine, Events
  <2> QED BY <2>2 DEF handshake_inbound
<1> QED BY <1>1, <1>2, <1>3, <1>4

(* keepalive.rs and discovery.rs                                           *)
LEMMA DiscoveryFine ==
  ASSUME NEW x, ContextOK(x), NEW p \in Peers
  PROVE  /\ Fine(x, keepalive_housekeeping(x, p))
         /\ Fine(x, discovery_housekeeping(x, p))
         /\ Fine(x, discovery_inbound(x, p))
<1> USE FineComposes
<1>1. Fine(x, keepalive_housekeeping(x, p))
  <2>1. Msg("keepalive", "KeepAlive", None) \in Asks
    BY DEF Asks
  <2> QED BY <2>1, RequestFine DEF keepalive_housekeeping, Msg
<1>2. Fine(x, discovery_housekeeping(x, p))
  <2>1. Msg("peersharing", "ShareRequest", None) \in Asks
    BY DEF Asks
  <2> QED BY <2>1, RequestFine DEF discovery_housekeeping, Msg
<1>3. Fine(x, discovery_inbound(x, p))
  <2>1. CASE At(x.s, "peersharing") = "IdleResponse"
    <3> DEFINE y == [x EXCEPT !.discovered = @ \cup x.s.proto["peersharing"].arg]
    <3> DEFINE z == [y EXCEPT !.s.proto["peersharing"] = [at |-> "Done", arg |-> None]]
    <3>1. "peersharing" \in Channels
      BY <2>1 DEF At, StartAt
    <3>2. x.s.proto["peersharing"].arg \in SUBSET Peers
      BY <2>1, <3>1 DEF ContextOK, WellKept, At
    <3>3. /\ ContextOK(y) /\ y.s = x.s /\ y.requests = x.requests
      BY <3>2 DEF ContextOK, Contexts
    <3>4. Fine(x, y)
      BY <3>3, FineWhenSame DEF SameFetch
    <3>5. [at |-> "Done", arg |-> None] \in ProtoStates
      BY DEF ProtoStates, Ats, Payloads
    <3> HIDE DEF y
    <3>6. Fine(y, z)
      BY <3>1, <3>3, <3>5, SetProtoFine
    <3>7. discovery_inbound(x, p) \in {x, z}
      BY DEF discovery_inbound, y, z, ContextOK, Contexts, PeerStates
    <3> HIDE DEF z
    <3> QED BY <3>4, <3>6, <3>7
  <2>2. CASE At(x.s, "peersharing") # "IdleResponse"
    BY <2>2 DEF discovery_inbound
  <2> QED BY <2>1, <2>2
<1> QED BY <1>1, <1>2, <1>3

(* blockfetch.rs: the first queued range moves to the peer that takes it.  *)
LEMMA ServeNextFine ==
  ASSUME NEW x, ContextOK(x), NEW p \in Peers, NEW t
  PROVE  Fine(x, serve_next(x, p, t))
<1>1. CASE ~ServesRange(x.s, t, x.requests)
  BY <1>1, FineComposes DEF serve_next
<1>2. CASE ServesRange(x.s, t, x.requests)
  <2> DEFINE m == RequestRange(Head(x.requests))
  <2> DEFINE y == [x EXCEPT !.requests = Tail(@)]
  <2>1. /\ x.requests \in Seq(Ranges) /\ x.requests # <<>>
        /\ Head(x.requests) \in Ranges /\ Tail(x.requests) \in Seq(Ranges)
    BY <1>2 DEF ServesRange, ContextOK, Contexts
  <2>2. m \in Asks /\ m.ch = "blockfetch" /\ m.arg = Head(x.requests) /\ m # NoMsg
    BY <2>1 DEF Asks, RequestRange, Msg, NoMsg, None
  <2> HIDE DEF m
  <2>3. ContextOK(y) /\ y.s = x.s /\ y.requests = Tail(x.requests)
    BY <2>1 DEF ContextOK, Contexts
  <2>4. /\ CanSend(x.s, m) /\ is_initialized(x.s)
    BY <1>2 DEF ServesRange, FetchAvailable, m
  <2>5. "blockfetch" \in Channels /\ x.s.unsent["blockfetch"] = NoMsg
    BY <2>2, <2>4 DEF CanSend, can_apply
  <2> DEFINE z == try_send_request(y, p, m)
  <2> HIDE DEF y
  <2>6. z = Push([y EXCEPT !.s.unsent["blockfetch"] = m], Send(p, m))
    BY <2>2, <2>3, <2>4 DEF try_send_request
  <2>7. /\ z.requests = Tail(x.requests) /\ z.s.unsent["blockfetch"] = m
        /\ z.s.in_flight = x.s.in_flight /\ z.s.connection = x.s.connection
    BY <2>3, <2>5, <2>6 DEF Push, ContextOK, Contexts, PeerStates
  <2>8. ContextOK(z) /\ SameFetch(x, z)
    BY <2>2, <2>3, RequestOK DEF SameFetch
  <2>9. Keeps(x, z)
    <3> SUFFICES ASSUME NEW r \in Ranges, InQueue(x.requests, r) \/ Holds(x.s, r)
                 PROVE  InQueue(z.requests, r) \/ Holds(z.s, r)
      BY DEF Keeps
    <3>1. CASE Holds(x.s, r)
      BY <2>5, <2>7, <3>1 DEF Holds, Unsent
    <3>2. CASE InQueue(x.requests, r)
      <4>1. PICK i \in DOMAIN x.requests : x.requests[i] = r
        BY <3>2 DEF InQueue
      <4>2. CASE i = 1
        <5>1. Head(x.requests) = r
          BY <2>1, <4>1, <4>2
        <5> QED BY <2>2, <2>4, <2>5, <2>7, <5>1 DEF Holds, Unsent, is_initialized
      <4>3. CASE i # 1
        <5>1. i - 1 \in DOMAIN Tail(x.requests) /\ Tail(x.requests)[i - 1] = r
          BY <2>1, <4>1, <4>3, SMTT(30)
        <5> QED BY <2>7, <5>1 DEF InQueue
      <4> QED BY <4>2, <4>3
    <3> QED BY <3>1, <3>2
  <2> QED BY <1>2, <2>8, <2>9 DEF serve_next, Fine, y, m
<1> QED BY <1>1, <1>2

(* What on_inbound_msg makes of the ranges: none gets lost but the one in  *)
(* flight when the protocol has returned to Idle, which is answered.       *)
Settles(x, y) ==
  /\ ContextOK(y)
  /\ At(y.s, "blockfetch") = "Idle" => y.s.in_flight = None
  /\ \A r \in Ranges :
       InQueue(x.requests, r) \/ Holds(x.s, r) =>
         \/ InQueue(y.requests, r) \/ Holds(y.s, r)
         \/ At(x.s, "blockfetch") = "Idle" /\ x.s.in_flight = r

(* blockfetch_inbound settles the range in flight.                         *)
LEMMA BlockfetchInboundSettles ==
  ASSUME NEW x, ContextOK(x), NEW p \in Peers, NEW t
  PROVE  Settles(x, blockfetch_inbound(x, p, t))
<1> DEFINE y == IF At(x.s, "blockfetch") = "StreamingSome"
                  THEN Push(x, Event(p, "BlockBodyReceived")) ELSE x
<1> DEFINE z == IF At(y.s, "blockfetch") = "Idle"
                  THEN [y EXCEPT !.s.in_flight = None] ELSE y
<1>1. Fine(x, y)
  BY FineComposes, PushFine, OutputFacts DEF Events
<1> HIDE DEF y
<1>2. Settles(y, z)
  <2>1. ContextOK(y)
    BY <1>1 DEF Fine
  <2>2. CASE At(y.s, "blockfetch") # "Idle"
    BY <2>1, <2>2 DEF Settles
  <2>3. CASE At(y.s, "blockfetch") = "Idle"
    <3>1. /\ ContextOK(z) /\ z.s.in_flight = None /\ z.requests = y.requests
          /\ z.s.unsent = y.s.unsent /\ z.s.connection = y.s.connection
      BY <2>1, <2>3 DEF ContextOK, Contexts, PeerStates, WellKept
    <3> HIDE DEF z
    <3> QED BY <2>3, <3>1 DEF Settles, Holds, Unsent
  <2> QED BY <2>2, <2>3
<1> HIDE DEF z
<1>3. Fine(z, serve_next(z, p, t))
  BY <1>2, ServeNextFine DEF Settles
<1>4. blockfetch_inbound(x, p, t) = serve_next(z, p, t)
  BY DEF blockfetch_inbound, y, z
<1> QED BY <1>1, <1>2, <1>3, <1>4 DEF Settles, Fine, Keeps, SameFetch

(* chainsync.rs                                                            *)
LEMMA ChainSyncFine ==
  ASSUME NEW x, ContextOK(x), NEW p \in Peers, NEW t
  PROVE  /\ Fine(x, chainsync_inbound(x, p))
         /\ Fine(x, chainsync_tagged(x, p))
         /\ Fine(x, chainsync_housekeeping(x, p, t))
<1>0. RequestNextHeader \in Asks /\ RequestNextHeader.ch # "blockfetch"
  BY DEF RequestNextHeader, Asks, Msg
<1>1. Fine(x, drain_data(x, p))
  <2> DEFINE k == [at |-> "IdleDrained", arg |-> None]
  <2> DEFINE y == [x EXCEPT !.s.proto["chainsync"] = k]
  <2>1. CASE At(x.s, "chainsync") \in {"IdleContent", "IdleRollback", "IdleIntersection",
                                       "IdleNoIntersection"}
    <3>1. "chainsync" \in Channels
      BY <2>1 DEF At, StartAt
    <3>2. k \in ProtoStates /\ k.at # "IdleResponse"
      BY DEF ProtoStates, Ats, Payloads
    <3> HIDE DEF k
    <3>3. Fine(x, y)
      BY <3>1, <3>2, SetProtoFine
    <3> HIDE DEF y
    <3>4. CASE At(x.s, "chainsync") = "IdleNoIntersection"
      <4> DEFINE z == [y EXCEPT !.s.violation = TRUE]
      <4>1. /\ ContextOK(z) /\ SameFetch(y, z) /\ z.requests = y.requests
            /\ z.s.unsent = y.s.unsent /\ z.s.connection = y.s.connection
        BY <3>3, ZenonT(30) DEF Fine, ContextOK, Contexts, PeerStates, WellKept, At, SameFetch
      <4>2. Fine(y, z)
        BY <4>1, FineWhenSame
      <4>3. drain_data(x, p) = z
        BY <3>4 DEF drain_data, ChainSyncEvent, y, k
      <4> QED BY <3>3, <4>2, <4>3, FineComposes
    <3>5. CASE At(x.s, "chainsync") # "IdleNoIntersection"
      <4>1. PICK name \in Events : drain_data(x, p) = Push(y, Event(p, name))
        BY <2>1, <3>5 DEF drain_data, ChainSyncEvent, Events, y, k
      <4> QED BY <3>3, <4>1, FineComposes, PushFine, OutputFacts DEF Fine
    <3> QED BY <3>4, <3>5
  <2>2. CASE At(x.s, "chainsync") \notin {"IdleContent", "IdleRollback", "IdleIntersection",
                                          "IdleNoIntersection"}
    BY <2>2, FineComposes DEF drain_data, ChainSyncEvent
  <2> QED BY <2>1, <2>2
<1>2. ASSUME NEW y, ContextOK(y)
      PROVE  Fine(y, [y EXCEPT !.s.sync_next_deferred = FALSE])
             /\ Fine(y, [y EXCEPT !.s.sync_next_deferred = TRUE])
  <2>1. ASSUME NEW b \in BOOLEAN PROVE Fine(y, [y EXCEPT !.s.sync_next_deferred = b])
    <3> DEFINE z == [y EXCEPT !.s.sync_next_deferred = b]
    <3>1. /\ ContextOK(z) /\ SameFetch(y, z) /\ z.requests = y.requests
          /\ z.s.unsent = y.s.unsent /\ z.s.connection = y.s.connection
      BY <1>2, ZenonT(30) DEF ContextOK, Contexts, PeerStates, WellKept, At, SameFetch
    <3> QED BY <3>1, FineWhenSame
  <2> QED BY <2>1
<1>3. ASSUME NEW y, ContextOK(y) PROVE Fine(y, try_send_deferred_next(y, p))
  <2> DEFINE z == [y EXCEPT !.s.sync_next_deferred = FALSE]
  <2>1. Fine(y, z)
    BY <1>2, <1>3
  <2> HIDE DEF z
  <2>2. Fine(z, try_send_request(z, p, RequestNextHeader))
    BY <1>0, <2>1, RequestFine DEF Fine
  <2>3. try_send_deferred_next(y, p) \in {y, try_send_request(z, p, RequestNextHeader)}
    BY DEF try_send_deferred_next, z
  <2> QED BY <1>3, <2>1, <2>2, <2>3, FineComposes
<1>4. Fine(x, chainsync_inbound(x, p))
  BY <1>1, <1>3, FineComposes DEF chainsync_inbound, Fine
<1>5. Fine(x, chainsync_tagged(x, p))
  BY <1>0, <1>2, RequestFine, FineComposes DEF chainsync_tagged
<1>6. Fine(x, chainsync_housekeeping(x, p, t))
  <2>1. Msg("chainsync", "FindIntersect", None) \in Asks
    BY DEF Asks
  <2> QED BY <2>1, RequestFine, FineComposes DEF chainsync_housekeeping, Msg
<1> QED BY <1>4, <1>5, <1>6

(* Taking an element out of a queue leaves a queue.                        *)
LEMMA WithoutType ==
  ASSUME NEW S, NEW queue \in Seq(S), NEW i \in DOMAIN queue
  PROVE  Without(queue, i) \in Seq(S)
BY DEF Without

(* on_errored and on_disconnected drop the fetches of a peer and keep the  *)
(* others.  The recursive function has a solution (no least length lacks   *)
(* one), and its values are queues (no least index has another value).     *)
LEMMA PurgedType ==
  ASSUME NEW S, NEW queue \in Seq(S), NEW p
  PROVE  Purged(queue, p) \in Seq(S)
<1> DEFINE Step(i, before) ==
             IF i = 0 THEN <<>>
             ELSE IF queue[i].pid = p THEN before ELSE Append(before, queue[i])
<1> DEFINE Def(g) == [i \in 0..Len(queue) |-> Step(i, g[i - 1])]
<1> DEFINE kept == CHOOSE g : g = Def(g)
<1>0. Purged(queue, p) = kept[Len(queue)]
  BY DEF Purged
<1>1. ASSUME NEW i \in 1..Len(queue), NEW before \in Seq(S)
      PROVE  Step(i, before) \in Seq(S)
  OBVIOUS
<1>2. Step(0, 0) = <<>> /\ \A x : Step(0, x) = <<>>
  OBVIOUS
<1> HIDE DEF Step
<1> DEFINE Upto(n, g) == \A i \in 0..n : g[i] = Step(i, g[i - 1])
<1> DEFINE Bad == {n \in 0..Len(queue) : ~\E g \in [0..n -> Seq(S)] : Upto(n, g)}
<1> HIDE DEF Upto
<1>3. Bad = {}
  <2> SUFFICES ASSUME Bad # {} PROVE FALSE
    OBVIOUS
  <2>0. Bad \subseteq Nat
    OBVIOUS
  <2>1. PICK n \in Bad : \A m \in Bad : n <= m
    <3> HIDE DEF Bad
    <3> QED BY <2>0, LeastOf
  <2>2. CASE n = 0
    <3>1. [i \in 0..0 |-> <<>>] \in [0..n -> Seq(S)] /\ Upto(n, [i \in 0..0 |-> <<>>])
      BY <1>2, <2>2 DEF Upto
    <3> QED BY <3>1
  <2>3. CASE n # 0
    <3>1. n \in 1..Len(queue) /\ n - 1 \in 0..Len(queue) /\ n - 1 \notin Bad
      BY <2>1, <2>3, SMTT(30)
    <3>2. PICK g \in [0..(n - 1) -> Seq(S)] : Upto(n - 1, g)
      BY <3>1
    <3> DEFINE h == [i \in 0..n |-> IF i = n THEN Step(n, g[n - 1]) ELSE g[i]]
    <3>3. h \in [0..n -> Seq(S)]
      BY <1>1, <3>1
    <3>4. ASSUME NEW i \in 0..n PROVE h[i] = Step(i, h[i - 1])
      <4>1. CASE i = n
        BY <4>1, <3>1
      <4>2. CASE i # n /\ i # 0
        <5>1. i \in 0..(n-1) /\ i - 1 \in 0..(n-1) /\ h[i] = g[i] /\ h[i-1] = g[i-1]
          BY <4>2, <3>1
        <5> QED BY <5>1, <3>2 DEF Upto
      <4>3. CASE i # n /\ i = 0
        <5>1. 0 \in 0..(n-1) /\ h[i] = g[i]
          BY <4>3, <3>1
        <5> QED BY <5>1, <3>2, <1>2, <4>3 DEF Upto
      <4> QED BY <4>1, <4>2, <4>3
    <3>5. Upto(n, h)
      BY <3>4 DEF Upto
    <3> HIDE DEF h
    <3> QED BY <3>3, <3>5
  <2> QED BY <2>2, <2>3
<1>4. PICK f \in [0..Len(queue) -> Seq(S)] : Upto(Len(queue), f)
  <2>1. Len(queue) \in 0..Len(queue)
    OBVIOUS
  <2> QED BY <1>3, <2>1
<1>5. f = Def(f)
  BY <1>4 DEF Upto
<1>6. kept = Def(kept)
  BY <1>5
<1> HIDE DEF kept
<1> DEFINE Odd == {n \in 0..Len(queue) : kept[n] \notin Seq(S)}
<1>7. Odd = {}
  <2> SUFFICES ASSUME Odd # {} PROVE FALSE
    OBVIOUS
  <2>0. Odd \subseteq Nat
    OBVIOUS
  <2>1. PICK n \in Odd : \A m \in Odd : n <= m
    <3> HIDE DEF Odd
    <3> QED BY <2>0, LeastOf
  <2>2. kept[n] = Step(n, kept[n - 1])
    BY <1>6
  <2>3. CASE n = 0
    <3>1. kept[n] = <<>>
      BY <1>2, <2>2, <2>3
    <3>2. kept[n] \notin Seq(S) /\ <<>> \in Seq(S)
      OBVIOUS
    <3> QED BY <3>1, <3>2, Zenon
  <2>4. CASE n # 0
    <3>1. n \in 1..Len(queue) /\ n - 1 \in 0..Len(queue) /\ n - 1 \notin Odd
      BY <2>1, <2>4
    <3> QED BY <1>1, <2>2, <3>1
  <2> QED BY <2>3, <2>4
<1>8. Len(queue) \in 0..Len(queue)
  OBVIOUS
<1> QED BY <1>0, <1>7, <1>8

(* leiosnotify.rs and leiosfetch.rs                                        *)
LEMMA LeiosFine ==
  ASSUME NEW x, ContextOK(x), NEW p \in Peers, NEW t
  PROVE  /\ Fine(x, leiosnotify_inbound(x, p))
         /\ Fine(x, leiosnotify_housekeeping(x, p))
         /\ Fine(x, leios_serve_next(x, p, t))
         /\ Fine(x, leiosfetch_inbound(x, p, t))
<1>1. ASSUME NEW ch \in {"leiosnotify", "leiosfetch"}, NEW name \in Events
      PROVE  Fine(x, Drained(x, ch, p, name))
  <2>1. CASE At(x.s, ch) = "IdleSome"
    <3> DEFINE y == [x EXCEPT !.s.proto[ch] = Default(ch)]
    <3>1. StartAt[ch] = "IdleNone"
      BY DEF StartAt
    <3>2. ch \in Channels
      BY <2>1, <3>1 DEF At
    <3>3. Default(ch) \in ProtoStates /\ Default(ch).at # "IdleResponse"
      BY <3>1, DefaultFacts DEF AllChannels
    <3>4. Fine(x, y)
      BY <3>2, <3>3, SetProtoFine
    <3> HIDE DEF y
    <3>5. Fine(y, Push(y, Event(p, name)))
      BY <3>4, PushFine, OutputFacts DEF Fine
    <3>6. Drained(x, ch, p, name) = Push(y, Event(p, name))
      BY <2>1 DEF Drained, y
    <3> QED BY <3>4, <3>5, <3>6, FineComposes
  <2>2. CASE At(x.s, ch) # "IdleSome"
    BY <2>2, FineComposes DEF Drained
  <2> QED BY <2>1, <2>2
<1>2. Fine(x, leiosnotify_inbound(x, p))
  BY <1>1 DEF leiosnotify_inbound, Events
<1>3. Fine(x, leiosnotify_housekeeping(x, p))
  <2>1. Msg("leiosnotify", "RequestNext", None) \in Asks
    BY DEF Asks
  <2> QED BY <2>1, RequestFine, FineComposes DEF leiosnotify_housekeeping, Msg
<1>4. ASSUME NEW w, ContextOK(w) PROVE Fine(w, leios_serve_next(w, p, t))
  <2>1. CASE FetchesFor(w.fetches, p) = {}
    BY <1>4, <2>1, FineComposes DEF leios_serve_next
  <2>2. CASE FetchesFor(w.fetches, p) # {}
    <3> DEFINE i == FirstFor(w.fetches, p)
    <3> DEFINE y == [w EXCEPT !.fetches = Without(@, i)]
    <3>1. w.fetches \in Seq(Fetches) /\ FetchesFor(w.fetches, p) \subseteq Nat
      BY <1>4 DEF ContextOK, Contexts, FetchesFor
    <3>2. i \in FetchesFor(w.fetches, p)
      <4>1. \E a \in FetchesFor(w.fetches, p) : \A j \in FetchesFor(w.fetches, p) : a <= j
        BY <2>2, <3>1, LeastOf
      <4> QED BY <4>1 DEF FirstFor
    <3> HIDE DEF i
    <3>3. /\ i \in DOMAIN w.fetches /\ w.fetches[i] \in Fetches
      BY <3>1, <3>2 DEF FetchesFor
    <3>4. w.fetches[i].msg \in Asks /\ w.fetches[i].msg.ch # "blockfetch"
      BY <3>3 DEF Fetches, EbRequests, Asks, Msg
    <3>5. Without(w.fetches, i) \in Seq(Fetches)
      BY <3>1, <3>3, WithoutType
    <3>6. ContextOK(y) /\ y.s = w.s /\ y.requests = w.requests
      BY <1>4, <3>5 DEF ContextOK, Contexts
    <3>7. Fine(w, y)
      BY <3>6, FineWhenSame DEF SameFetch
    <3> HIDE DEF y
    <3>8. Fine(y, try_send_request(y, p, w.fetches[i].msg))
      BY <3>4, <3>6, RequestFine
    <3>9. leios_serve_next(w, p, t) \in {w, try_send_request(y, p, w.fetches[i].msg)}
      BY DEF leios_serve_next, y, i
    <3> QED BY <1>4, <3>7, <3>8, <3>9, FineComposes
  <2> QED BY <2>1, <2>2
<1>5. Fine(x, leiosfetch_inbound(x, p, t))
  BY <1>1, <1>4, FineComposes DEF leiosfetch_inbound, Events, Fine
<1> QED BY <1>2, <1>3, <1>4, <1>5

(* all_visitors!                                                           *)
LEMMA VisitsFine ==
  ASSUME NEW x, ContextOK(x), NEW p \in Peers, NEW t
  PROVE  /\ Settles(x, visit_inbound_msg(x, p, t))
         /\ Fine(x, visit_housekeeping(x, p, t))
<1>1. Settles(x, visit_inbound_msg(x, p, t))
  <2> DEFINE a == handshake_inbound(x, p)
  <2> DEFINE b == discovery_inbound(a, p)
  <2> DEFINE c == blockfetch_inbound(b, p, t)
  <2> DEFINE d == chainsync_inbound(c, p)
  <2> DEFINE e == leiosnotify_inbound(d, p)
  <2> DEFINE f == leiosfetch_inbound(e, p, t)
  <2>1. Fine(x, a) BY ConnectionFine
  <2> HIDE DEF a
  <2>2. Fine(a, b) BY <2>1, DiscoveryFine DEF Fine
  <2> HIDE DEF b
  <2>3. Settles(b, c) BY <2>2, BlockfetchInboundSettles DEF Fine
  <2> HIDE DEF c
  <2>4. Fine(c, d) BY <2>3, ChainSyncFine DEF Settles
  <2> HIDE DEF d
  <2>5. Fine(d, e) BY <2>4, LeiosFine DEF Fine
  <2> HIDE DEF e
  <2>6. Fine(e, f) BY <2>5, LeiosFine DEF Fine
  <2> HIDE DEF f
  <2>7. visit_inbound_msg(x, p, t) = f
    BY DEF visit_inbound_msg, a, b, c, d, e, f
  <2>8. Fine(x, b) BY <2>1, <2>2, FineComposes
  <2>9. Fine(c, f) BY <2>4, <2>5, <2>6, FineComposes
  <2> QED BY <2>3, <2>7, <2>8, <2>9 DEF Settles, Fine, Keeps, SameFetch
<1>2. Fine(x, visit_housekeeping(x, p, t))
  <2> DEFINE a == connection_housekeeping(x, p, t)
  <2> DEFINE b == keepalive_housekeeping(a, p)
  <2> DEFINE c == discovery_housekeeping(b, p)
  <2> DEFINE d == serve_next(c, p, t)
  <2> DEFINE e == chainsync_housekeeping(d, p, t)
  <2> DEFINE f == leiosnotify_housekeeping(e, p)
  <2> DEFINE g == leios_serve_next(f, p, t)
  <2>1. Fine(x, a) BY ConnectionFine
  <2> HIDE DEF a
  <2>2. Fine(a, b) BY <2>1, DiscoveryFine DEF Fine
  <2> HIDE DEF b
  <2>3. Fine(b, c) BY <2>2, DiscoveryFine DEF Fine
  <2> HIDE DEF c
  <2>4. Fine(c, d) BY <2>3, ServeNextFine DEF Fine
  <2> HIDE DEF d
  <2>5. Fine(d, e) BY <2>4, ChainSyncFine DEF Fine
  <2> HIDE DEF e
  <2>6. Fine(e, f) BY <2>5, LeiosFine DEF Fine
  <2> HIDE DEF f
  <2>7. Fine(f, g) BY <2>6, LeiosFine DEF Fine
  <2> HIDE DEF g
  <2>8. visit_housekeeping(x, p, t) = g
    BY DEF visit_housekeeping, a, b, c, d, e, f, g
  <2>9. Fine(x, d) BY <2>1, <2>2, <2>3, <2>4, FineComposes
  <2>10. Fine(d, g) BY <2>5, <2>6, <2>7, FineComposes
  <2> QED BY <2>8, <2>9, <2>10, FineComposes
<1> QED BY <1>1, <1>2

-----------------------------------------------------------------------------
(* From the visitors to the steps.                                         *)

(* The scenario of an execution stays, and with it the types.              *)
LEMMA SceneFacts ==
  ASSUME UNCHANGED scene
  PROVE  /\ Channels' = Channels /\ PeerStates' = PeerStates
         /\ ConnStates' = ConnStates /\ ProtoStates' = ProtoStates
<1>1. Channels' = Channels /\ Versions' = Versions
  BY DEF Channels, Versions
<1>2. ProtoStates' = ProtoStates
  BY <1>1 DEF ProtoStates, Payloads
<1> QED BY <1>1, <1>2 DEF PeerStates, ConnStates

PeerOK(s) == s \in PeerStates /\ WellKept(s) /\ Free(s)

(* What a step has to show of the behaviour's state.                       *)
LEMMA BehaviorStep ==
  ASSUME UNCHANGED scene, peers' \in [Peers -> PeerStates],
         \A p \in Peers : PeerOK(peers'[p]),
         requests' \in Seq(Ranges), fetches' \in Seq(Fetches),
         discovered' \in SUBSET Peers, outbound' \in Seq(Outputs), asked' \in SUBSET Ranges
  PROVE  BehaviorTypes' /\ (\A p \in Peers : Free(peers[p]))'
<1>1. ASSUME NEW p \in Peers PROVE WellKept(peers[p])' /\ Free(peers[p])'
  <2>1. WellKept(peers'[p]) /\ Free(peers'[p])
    BY DEF PeerOK
  <2> QED BY <2>1, SceneFacts DEF WellKept, Free, At
<1> QED BY <1>1, SceneFacts DEF BehaviorTypes

(* The same, of the ranges.                                                *)
LEMMA RangesStep ==
  ASSUME UNCHANGED scene,
         \A r \in asked' \ answered' :
           InQueue(requests', r) \/ \E p \in known' : Holds(peers'[p], r)
  PROVE  RangesSafe'
<1> SUFFICES ASSUME NEW r \in asked' \ answered'
             PROVE  InQueue(requests', r) \/ \E p \in known' : Holds(peers[p], r)'
  BY DEF RangesSafe, InQueue
<1> QED BY SceneFacts DEF Holds, Unsent

(* The invariant as the visitors see it.                                   *)
LEMMA ContextFacts ==
  ASSUME InitiatorInv, NEW s \in PeerStates, WellKept(s)
  PROVE  /\ ContextOK(Context(s)) /\ Context(s).s = s
         /\ Context(s).requests = requests /\ Context(s).fetches = fetches
BY DEF InitiatorInv, BehaviorInv, BehaviorTypes, ContextOK, Context, Contexts

(* A handler that stores what the visitors made of peer p.                 *)
LEMMA StoreStep ==
  ASSUME InitiatorInv, UNCHANGED <<scene, asked, known>>, answered \subseteq answered',
         NEW p \in Peers, NEW x, ContextOK(x), Free(x.s), Store(p, x),
         \/ x.s = peers[p] /\ x.requests = requests
         \/ /\ p \in known
            /\ \A r \in Ranges \ answered' :
                 InQueue(requests, r) \/ Holds(peers[p], r)
                   => InQueue(x.requests, r) \/ Holds(x.s, r)
  PROVE  BehaviorInv'
<1>1. /\ peers' = [peers EXCEPT ![p] = x.s] /\ outbound' = x.out
      /\ requests' = x.requests /\ fetches' = x.fetches /\ discovered' = x.discovered
  BY DEF Store
<1>2. peers \in [Peers -> PeerStates] /\ \A q \in Peers : PeerOK(peers[q])
  BY DEF InitiatorInv, BehaviorInv, BehaviorTypes, PeerOK
<1>3. /\ PeerOK(x.s) /\ x.out \in Seq(Outputs) /\ x.requests \in Seq(Ranges)
      /\ x.fetches \in Seq(Fetches) /\ x.discovered \in SUBSET Peers
  BY DEF ContextOK, Contexts, PeerOK
<1>4. \A q \in Peers : peers'[q] = IF q = p THEN x.s ELSE peers[q]
  BY <1>1, <1>2
<1>5. peers' \in [Peers -> PeerStates] /\ \A q \in Peers : PeerOK(peers'[q])
  BY <1>1, <1>2, <1>3, <1>4 DEF PeerOK
<1>6. asked' \in SUBSET Ranges
  BY DEF InitiatorInv, BehaviorInv, BehaviorTypes
<1>7. BehaviorTypes' /\ (\A q \in Peers : Free(peers[q]))'
  BY <1>1, <1>3, <1>5, <1>6, BehaviorStep
<1>8. known \subseteq Peers
  BY DEF InitiatorInv, GovernanceInv, GovernanceTypeOK
<1>9. ASSUME NEW r \in asked' \ answered'
      PROVE  InQueue(requests', r) \/ \E q \in known' : Holds(peers'[q], r)
  <2>1. r \in Ranges \ answered' /\ r \in asked \ answered
    BY <1>6
  <2>2. InQueue(requests, r) \/ \E q \in known : Holds(peers[q], r)
    BY <2>1 DEF InitiatorInv, BehaviorInv, RangesSafe
  <2>3. CASE \E q \in known \ {p} : Holds(peers[q], r)
    BY <1>4, <1>8, <2>3
  <2>4. CASE InQueue(requests, r) \/ (p \in known /\ Holds(peers[p], r))
    BY <1>1, <1>4, <2>1, <2>4
  <2> QED BY <2>2, <2>3, <2>4
<1> QED BY <1>7, <1>9, RangesStep DEF BehaviorInv

-----------------------------------------------------------------------------
(* Messages: InitiatorState::apply_msg, on the way in and on the way out.  *)

(* What may be applied: a message that carries what its kind says.         *)
Proper(m) ==
  /\ m.ch \in AllChannels /\ m.arg \in Payloads
  /\ m.ch = "blockfetch" => m.arg \in Ranges \cup {None}
  /\ m.ch = "peersharing" /\ m.kind = "SharePeers" => m.arg \in SUBSET Peers

(* What the two ends send is proper.                                       *)
LEMMA AsksProper == \A m \in Asks : Proper(m)
<1> SUFFICES ASSUME NEW m \in Asks PROVE Proper(m)
  OBVIOUS
<1> QED BY AskFacts DEF Proper, Payloads

(* A message that is applied, or refused, touches one protocol state or    *)
(* the violation flag.                                                     *)
LEMMA ApplyMsgFacts ==
  ASSUME NEW s \in PeerStates, WellKept(s), NEW m, Proper(m)
  PROVE  /\ apply_msg(s, m) \in PeerStates /\ WellKept(apply_msg(s, m))
         /\ apply_msg(s, m).unsent = s.unsent
         /\ apply_msg(s, m).in_flight = s.in_flight
         /\ apply_msg(s, m).connection = s.connection
         /\ m.ch # "blockfetch" =>
              At(apply_msg(s, m), "blockfetch") = At(s, "blockfetch")
<1>1. CASE ~CanApply(s.proto[m.ch], m)
  <2>1. apply_msg(s, m) = [s EXCEPT !.violation = TRUE]
    BY <1>1 DEF apply_msg
  <2> QED BY <2>1 DEF PeerStates, WellKept, At
<1>2. CASE CanApply(s.proto[m.ch], m)
  <2> DEFINE k == Apply(s.proto[m.ch], m)
  <2>1. apply_msg(s, m) = [s EXCEPT !.proto[m.ch] = k]
    BY <1>2 DEF apply_msg
  <2>2. CASE m.ch \notin Channels
    <3>1. apply_msg(s, m) = s
      BY <2>1, <2>2 DEF PeerStates
    <3> QED BY <3>1
  <2>3. CASE m.ch \in Channels
    <3>1. s.proto[m.ch] \in ProtoStates
      BY <2>3 DEF PeerStates
    <3>2. /\ k \in ProtoStates /\ (m.ch # "leiosfetch" => k.arg = m.arg)
          /\ m.ch = "peersharing" /\ k.at = "IdleResponse" => m.kind = "SharePeers"
      BY <1>2, <3>1, ApplyFacts DEF Proper
    <3> HIDE DEF k
    <3> DEFINE y == [s EXCEPT !.proto[m.ch] = k]
    <3>3. /\ y \in PeerStates /\ y.unsent = s.unsent /\ y.in_flight = s.in_flight
          /\ y.connection = s.connection
          /\ \A ch \in Channels : y.proto[ch] = IF ch = m.ch THEN k ELSE s.proto[ch]
      BY <2>3, <3>2 DEF PeerStates
    <3> HIDE DEF y
    <3>4. WellKept(y)
      BY <3>2, <3>3 DEF WellKept, Proper
    <3>5. m.ch # "blockfetch" => At(y, "blockfetch") = At(s, "blockfetch")
      BY <3>3 DEF At
    <3> QED BY <2>1, <3>3, <3>4, <3>5 DEF y
  <2> QED BY <2>2, <2>3
<1> QED BY <1>1, <1>2

(* A range is requested from Idle, and makes the peer Busy.                *)
LEMMA RangeMove ==
  ASSUME NEW t \in Moves["blockfetch"], t[2] = "RequestRange"
  PROVE  t[1] = "Idle" /\ t[3] = "Busy"
BY DEF Moves, BlockFetchMoves, From

(* The same of State::apply.                                               *)
LEMMA ApplyRange ==
  ASSUME NEW s, NEW r, CanApply(s, RequestRange(r))
  PROVE  s.at = "Idle" /\ Apply(s, RequestRange(r)) = [at |-> "Busy", arg |-> r]
<1> DEFINE P(u) == u[1] = s.at /\ u[2] = "RequestRange"
<1> DEFINE t == CHOOSE u \in Moves["blockfetch"] : P(u)
<1>1. t \in Moves["blockfetch"] /\ P(t)
  <2>1. \E u \in Moves["blockfetch"] : P(u)
    BY DEF CanApply, RequestRange, Msg
  <2> QED BY <2>1
<1>2. Apply(s, RequestRange(r)) = [at |-> t[3], arg |-> r]
  BY DEF Apply, RequestRange, Msg
<1> HIDE DEF t
<1> QED BY <1>1, <1>2, RangeMove

(* Sent: the range a peer has not been sent yet is in flight afterwards.   *)
LEMMA OutboundKeeps ==
  ASSUME NEW s, PeerOK(s), NEW m \in Asks
  PROVE  LET y == blockfetch_outbound(apply_msg(clear_unsent(s, m), m))
         IN  PeerOK(y) /\ \A r \in Ranges : Holds(s, r) => Holds(y, r)
<1> DEFINE c == clear_unsent(s, m)
<1> DEFINE a == apply_msg(c, m)
<1> DEFINE y == blockfetch_outbound(a)
<1>1. s \in PeerStates /\ WellKept(s) /\ Free(s)
  BY DEF PeerOK
<1>2. /\ c \in PeerStates /\ c.proto = s.proto /\ c.in_flight = s.in_flight
      /\ c.connection = s.connection
      /\ m.ch # "blockfetch" \/ ~can_apply(s, m) \/ s.unsent[m.ch] # m
           => ("blockfetch" \in Channels => c.unsent["blockfetch"] = s.unsent["blockfetch"])
      /\ "blockfetch" \in Channels =>
           c.unsent["blockfetch"] = NoMsg \/ c.unsent["blockfetch"] = s.unsent["blockfetch"]
  BY <1>1 DEF clear_unsent, PeerStates
<1> HIDE DEF c
<1>3. WellKept(c) /\ At(c, "blockfetch") = At(s, "blockfetch")
  BY <1>1, <1>2 DEF WellKept, At
<1>4. Proper(m)
  BY AsksProper
<1>5. /\ a \in PeerStates /\ WellKept(a)
      /\ a.unsent = c.unsent /\ a.in_flight = s.in_flight /\ a.connection = s.connection
      /\ m.ch # "blockfetch" => At(a, "blockfetch") = At(s, "blockfetch")
  BY <1>2, <1>3, <1>4, ApplyMsgFacts
<1>6. ASSUME m.ch = "blockfetch", "blockfetch" \in Channels, CanApply(s.proto["blockfetch"], m)
      PROVE  /\ s.in_flight = None /\ At(a, "blockfetch") = "Busy"
             /\ a.proto["blockfetch"].arg = m.arg
  <2>1. m = RequestRange(m.arg)
    BY <1>6, AskFacts
  <2>2. /\ s.proto["blockfetch"].at = "Idle"
        /\ Apply(s.proto["blockfetch"], m) = [at |-> "Busy", arg |-> m.arg]
    BY <1>6, <2>1, ApplyRange
  <2>3. a.proto["blockfetch"] = [at |-> "Busy", arg |-> m.arg]
    BY <1>2, <1>6, <2>2 DEF apply_msg, PeerStates
  <2> QED BY <1>1, <1>6, <2>2, <2>3 DEF Free, At
<1>7. m.ch = "blockfetch" /\ ~("blockfetch" \in Channels /\ CanApply(s.proto["blockfetch"], m))
        => At(a, "blockfetch") = At(s, "blockfetch")
  <2>1. SUFFICES ASSUME m.ch = "blockfetch", "blockfetch" \in Channels,
                        ~CanApply(s.proto["blockfetch"], m)
                 PROVE  At(a, "blockfetch") = At(s, "blockfetch")
    BY DEF At
  <2>2. a = [c EXCEPT !.violation = TRUE]
    BY <1>2, <2>1 DEF apply_msg
  <2> QED BY <1>2, <2>1, <2>2 DEF At, PeerStates
<1> HIDE DEF a
<1>8. /\ y \in PeerStates /\ WellKept(y) /\ y.unsent = c.unsent
      /\ y.connection = s.connection /\ y.proto = a.proto
      /\ y.in_flight = IF At(a, "blockfetch") = "Busy" /\ s.in_flight = None
                         THEN a.proto["blockfetch"].arg ELSE s.in_flight
  <2>1. At(a, "blockfetch") = "Busy" => "blockfetch" \in Channels
    BY DEF At, StartAt
  <2>2. At(a, "blockfetch") = "Busy" => a.proto["blockfetch"].arg \in Ranges \cup {None}
    BY <1>5, <2>1 DEF WellKept
  <2> QED BY <1>5, <2>2 DEF blockfetch_outbound, PeerStates, WellKept
<1> HIDE DEF y
<1>9. Free(y)
  BY <1>1, <1>5, <1>6, <1>7, <1>8 DEF Free, At
<1>10. ASSUME NEW r \in Ranges, Holds(s, r) PROVE Holds(y, r)
  <2>1. CASE s.in_flight = r
    BY <1>8, <1>10, <2>1, RangesAssumption DEF Holds
  <2>2. CASE Unsent(s, r)
    <3>1. CASE m.ch = "blockfetch" /\ can_apply(s, m) /\ s.unsent[m.ch] = m
      <4>1. "blockfetch" \in Channels /\ CanApply(s.proto["blockfetch"], m) /\ m.arg = r
        BY <2>2, <3>1 DEF can_apply, Unsent
      <4>2. y.in_flight = r
        BY <1>6, <1>8, <3>1, <4>1
      <4> QED BY <1>8, <1>10, <4>2 DEF Holds
    <3>2. CASE ~(m.ch = "blockfetch" /\ can_apply(s, m) /\ s.unsent[m.ch] = m)
      BY <1>2, <1>8, <1>10, <2>2, <3>2 DEF Holds, Unsent
    <3> QED BY <3>1, <3>2
  <2> QED BY <1>10, <2>1, <2>2 DEF Holds
<1> QED BY <1>8, <1>9, <1>10 DEF PeerOK, c, a, y

-----------------------------------------------------------------------------
(* serve_block_fetch: the ranges at the head of the queue move to as many  *)
(* available peers, one each.                                              *)

(* A peer that takes a range.                                              *)
LEMMA TakesRange ==
  ASSUME NEW s, PeerOK(s), NEW t, FetchAvailable(s, t), CanSend(s, RequestRange(None)),
         NEW r \in Ranges
  PROVE  LET y == [s EXCEPT !.unsent["blockfetch"] = RequestRange(r)]
         IN  PeerOK(y) /\ Holds(y, r) /\ \A u : Holds(s, u) => Holds(y, u)
<1> DEFINE y == [s EXCEPT !.unsent["blockfetch"] = RequestRange(r)]
<1>1. /\ RequestRange(r) \in Asks /\ RequestRange(r).arg = r /\ RequestRange(r) # NoMsg
      /\ RequestRange(r).ch = "blockfetch"
  BY DEF Asks, RequestRange, Msg, NoMsg, None
<1>2. "blockfetch" \in Channels /\ s.unsent["blockfetch"] = NoMsg
  BY DEF CanSend, can_apply, RequestRange, Msg
<1>3. /\ y \in PeerStates /\ y.unsent["blockfetch"] = RequestRange(r)
      /\ y.proto = s.proto /\ y.in_flight = s.in_flight /\ y.connection = s.connection
  BY <1>1, <1>2 DEF PeerOK, PeerStates
<1> HIDE DEF y
<1>4. s.connection = "Initialized"
  BY DEF FetchAvailable, is_initialized
<1>5. PeerOK(y)
  BY <1>1, <1>3 DEF PeerOK, WellKept, Free, At
<1>6. Holds(y, r) /\ \A u : Holds(s, u) => Holds(y, u)
  BY <1>1, <1>2, <1>3, <1>4 DEF Holds, Unsent
<1> QED BY <1>5, <1>6 DEF y

(* The order in which the peers are served.                                *)
LEMMA OrderFacts ==
  ASSUME NEW A, A \subseteq Peers, NEW queue \in Seq(Ranges),
         NEW order \in Orders(A, Least(Cardinality(A), Len(queue)))
  PROVE  /\ order \in Seq(A) /\ DOMAIN order = 1..Len(order) /\ Len(order) <= Len(queue)
         /\ \A i, j \in DOMAIN order : order[i] = order[j] => i = j
<1> DEFINE k == Least(Cardinality(A), Len(queue))
<1>1. Cardinality(A) \in Nat /\ Len(queue) \in Nat
  BY PeerSetSize
<1>2. k \in Nat /\ k <= Len(queue)
  BY <1>1 DEF Least
<1> HIDE DEF k
<1>3. order \in [1..k -> A] /\ \A i, j \in 1..k : order[i] = order[j] => i = j
  BY DEF Orders, k
<1>4. order \in Seq(A) /\ DOMAIN order = 1..k /\ Len(order) = k
  BY <1>2, <1>3
<1> QED BY <1>2, <1>3, <1>4

(* No range is lost on the way from the queue to the peers.                *)
LEMMA ServeKeeps ==
  ASSUME known \subseteq Peers, outbound \in Seq(Outputs),
         NEW all \in [Peers -> PeerStates], \A q \in Peers : PeerOK(all[q]), NEW tags,
         NEW queue \in Seq(Ranges), serve_block_fetch(all, tags, queue)
  PROVE  /\ peers' \in [Peers -> PeerStates] /\ \A q \in Peers : PeerOK(peers'[q])
         /\ requests' \in Seq(Ranges) /\ outbound' \in Seq(Outputs)
         /\ \A r \in Ranges :
              InQueue(queue, r) \/ (\E q \in known : Holds(all[q], r))
                => InQueue(requests', r) \/ \E q \in known : Holds(peers'[q], r)
<1> DEFINE A == Available(all, tags)
<1>1. A \subseteq known /\ A \subseteq Peers
  BY DEF Available
<1>2. PICK order \in Orders(A, Least(Cardinality(A), Len(queue))) :
        /\ peers' = [q \in Peers |->
             IF \E i \in DOMAIN order : order[i] = q
               THEN [all[q] EXCEPT !.unsent["blockfetch"] =
                       RequestRange(queue[CHOOSE i \in DOMAIN order : order[i] = q])]
               ELSE all[q]]
        /\ outbound' = outbound \o [i \in DOMAIN order |-> Send(order[i], RequestRange(queue[i]))]
        /\ requests' = SubSeq(queue, Len(order) + 1, Len(queue))
  BY DEF serve_block_fetch
<1>3. /\ order \in Seq(A) /\ DOMAIN order = 1..Len(order) /\ Len(order) <= Len(queue)
      /\ \A i, j \in DOMAIN order : order[i] = order[j] => i = j
  BY <1>1, <1>2, OrderFacts
<1>4. \A i \in DOMAIN order : order[i] \in A /\ queue[i] \in Ranges /\ order[i] \in Peers
  BY <1>1, <1>3
<1>5. ASSUME NEW i \in DOMAIN order
      PROVE  /\ PeerOK(peers'[order[i]]) /\ Holds(peers'[order[i]], queue[i])
             /\ \A u : Holds(all[order[i]], u) => Holds(peers'[order[i]], u)
  <2>1. (CHOOSE j \in DOMAIN order : order[j] = order[i]) = i
    BY <1>3
  <2>2. peers'[order[i]] = [all[order[i]] EXCEPT !.unsent["blockfetch"] = RequestRange(queue[i])]
    BY <1>2, <1>4, <2>1
  <2>3. /\ PeerOK(all[order[i]]) /\ FetchAvailable(all[order[i]], tags[order[i]])
        /\ CanSend(all[order[i]], RequestRange(None))
    BY <1>4 DEF Available
  <2> DEFINE s == all[order[i]]
  <2> DEFINE t == tags[order[i]]
  <2> DEFINE r == queue[i]
  <2> DEFINE y == [s EXCEPT !.unsent["blockfetch"] = RequestRange(r)]
  <2>4. PeerOK(s) /\ FetchAvailable(s, t) /\ CanSend(s, RequestRange(None)) /\ r \in Ranges
    BY <1>4, <2>3
  <2> HIDE DEF s, t, r
  <2>5. PeerOK(y) /\ Holds(y, r) /\ \A u : Holds(s, u) => Holds(y, u)
    BY <2>4, TakesRange
  <2>6. peers'[order[i]] = y
    BY <2>2 DEF s, r
  <2> HIDE DEF y
  <2> QED BY <2>5, <2>6 DEF s, r
<1>6. \A q \in Peers : (~\E i \in DOMAIN order : order[i] = q) => peers'[q] = all[q]
  BY <1>2
<1>7. \A q \in Peers : PeerOK(peers'[q]) /\ \A u : Holds(all[q], u) => Holds(peers'[q], u)
  BY <1>5, <1>6
<1>8. peers' \in [Peers -> PeerStates]
  <2>1. peers' = [q \in Peers |-> peers'[q]]
    BY <1>2
  <2> QED BY <1>7, <2>1 DEF PeerOK
<1>9. requests' \in Seq(Ranges)
  BY <1>2, <1>3
<1>10. outbound' \in Seq(Outputs)
  <2> DEFINE sends == [i \in DOMAIN order |-> Send(order[i], RequestRange(queue[i]))]
  <2>1. ASSUME NEW i \in DOMAIN order PROVE Send(order[i], RequestRange(queue[i])) \in Outputs
    <3>1. RequestRange(queue[i]) \in Asks
      BY <1>4 DEF Asks
    <3> QED BY <1>4, <3>1, OutputFacts
  <2>2. sends \in [1..Len(order) -> Outputs] /\ Len(order) \in Nat
    BY <1>3, <2>1
  <2>3. sends \in Seq(Outputs)
    <3> HIDE DEF sends
    <3> QED BY <2>2
  <2> HIDE DEF sends
  <2> QED BY <1>2, <2>3 DEF sends
<1>11. ASSUME NEW r \in Ranges, InQueue(queue, r)
       PROVE  InQueue(requests', r) \/ \E q \in known : Holds(peers'[q], r)
  <2>1. PICK i \in DOMAIN queue : queue[i] = r
    BY <1>11 DEF InQueue
  <2>2. CASE i \in DOMAIN order
    BY <1>1, <1>4, <1>5, <2>1, <2>2
  <2>3. CASE i \notin DOMAIN order
    <3>1. i \in (Len(order) + 1)..Len(queue)
      BY <1>3, <2>1, <2>3
    <3>2. /\ i - Len(order) \in DOMAIN SubSeq(queue, Len(order) + 1, Len(queue))
          /\ SubSeq(queue, Len(order) + 1, Len(queue))[i - Len(order)] = r
      BY <1>3, <2>1, <3>1
    <3> QED BY <1>2, <3>2 DEF InQueue
  <2> QED BY <2>2, <2>3
<1> QED BY <1>7, <1>8, <1>9, <1>10, <1>11

-----------------------------------------------------------------------------
(* The handlers.                                                           *)

(* What the invariant says of one peer.                                    *)
LEMMA PeerFacts ==
  ASSUME InitiatorInv
  PROVE  /\ known \subseteq Peers /\ outbound \in Seq(Outputs)
         /\ peers \in [Peers -> PeerStates] /\ \A p \in Peers : PeerOK(peers[p])
BY DEF InitiatorInv, BehaviorInv, BehaviorTypes, GovernanceInv, GovernanceTypeOK, PeerOK

(* A fresh entry, and one that is reset.                                   *)
LEMMA FreshOK ==
  ASSUME scene \in Scenarios
  PROVE  PeerOK(NewState) /\ \A s \in PeerStates : PeerOK(reset(s))
<1>1. Channels \subseteq AllChannels
  BY ScenariosAssumption DEF Channels
<1>2. \A n \in Nat : [NewState EXCEPT !.error_count = n] \in PeerStates
  <2>1. [ch \in Channels |-> Default(ch)] \in [Channels -> ProtoStates]
    BY <1>1, DefaultFacts
  <2> QED BY <2>1 DEF NewState, PeerStates, ConnectionStates
<1>3. \A n : LET s == [NewState EXCEPT !.error_count = n] IN WellKept(s) /\ Free(s)
  <2>1. \A ch \in Channels : Default(ch).arg = None
    BY <1>1, DefaultFacts
  <2>2. "peersharing" \in Channels => Default("peersharing").at # "IdleResponse"
    BY <1>1, DefaultFacts
  <2> QED BY <2>1, <2>2 DEF NewState, WellKept, Free
<1>4. \A s \in PeerStates : PeerOK(reset(s))
  BY <1>2, <1>3 DEF reset, PeerOK, PeerStates
<1>5. NewState = [NewState EXCEPT !.error_count = 0]
  BY DEF NewState
<1> QED BY <1>2, <1>3, <1>4, <1>5 DEF PeerOK

(* What a lost peer gives back.                                            *)
LEMMA HeldFacts ==
  ASSUME NEW s, PeerOK(s)
  PROVE  /\ RangesHeld(s) \in Seq(Ranges)
         /\ \A r \in Ranges : Holds(s, r) => InQueue(RangesHeld(s), r)
<1> DEFINE a == IF "blockfetch" \in Channels /\ s.unsent["blockfetch"] # NoMsg
                  THEN <<s.unsent["blockfetch"].arg>> ELSE <<>>
<1> DEFINE b == IF s.in_flight # None THEN <<s.in_flight>> ELSE <<>>
<1>1. RangesHeld(s) = a \o b
  BY DEF RangesHeld
<1>2. s.in_flight \in Ranges \cup {None}
  BY DEF PeerOK, PeerStates
<1>3. "blockfetch" \in Channels /\ s.unsent["blockfetch"] # NoMsg
        => s.unsent["blockfetch"].arg \in Ranges
  <2> SUFFICES ASSUME "blockfetch" \in Channels, s.unsent["blockfetch"] # NoMsg
               PROVE  s.unsent["blockfetch"].arg \in Ranges
    OBVIOUS
  <2>1. s.unsent["blockfetch"] \in Asks
    BY DEF PeerOK, PeerStates
  <2>2. s.unsent["blockfetch"].ch = "blockfetch"
    BY DEF PeerOK, WellKept
  <2> QED BY <2>1, <2>2, AskFacts
<1>4. a \in Seq(Ranges) /\ b \in Seq(Ranges)
  BY <1>2, <1>3
<1>5. ASSUME NEW r \in Ranges, Holds(s, r) PROVE InQueue(a \o b, r)
  <2>1. CASE Unsent(s, r)
    <3>1. a = <<r>>
      BY <2>1 DEF Unsent
    <3>2. 1 \in DOMAIN (a \o b) /\ (a \o b)[1] = r
      BY <1>4, <3>1
    <3> QED BY <3>2 DEF InQueue
  <2>2. CASE s.in_flight = r
    <3>1. b = <<r>>
      BY <2>2, RangesAssumption
    <3>2. Len(a) + 1 \in DOMAIN (a \o b) /\ (a \o b)[Len(a) + 1] = r
      BY <1>4, <3>1
    <3> QED BY <3>2 DEF InQueue
  <2> QED BY <1>5, <2>1, <2>2 DEF Holds
<1> QED BY <1>1, <1>4, <1>5

(* A step that leaves the behaviour alone.                                 *)
LEMMA IdleKeeps ==
  ASSUME InitiatorInv, UNCHANGED <<scene, known, behaviorVars, outbound, history>>
  PROVE  BehaviorInv'
<1>1. UNCHANGED <<scene, known, peers, requests, fetches, discovered, outbound, asked, answered>>
  BY DEF behaviorVars, history
<1>2. /\ peers \in [Peers -> PeerStates] /\ \A p \in Peers : PeerOK(peers[p])
      /\ requests \in Seq(Ranges) /\ fetches \in Seq(Fetches)
      /\ discovered \in SUBSET Peers /\ outbound \in Seq(Outputs) /\ asked \in SUBSET Ranges
  BY DEF InitiatorInv, BehaviorInv, BehaviorTypes, PeerOK
<1>3. BehaviorTypes' /\ (\A p \in Peers : Free(peers[p]))'
  BY <1>1, <1>2, BehaviorStep
<1>4. RangesSafe'
  BY <1>1, RangesStep DEF InitiatorInv, BehaviorInv, RangesSafe
<1> QED BY <1>3, <1>4 DEF BehaviorInv

(* A message of the remote: what it settles was answered.                  *)
LEMMA InboundKeeps ==
  ASSUME InitiatorInv, UNCHANGED scene, NEW p \in Peers, NEW m, Proper(m),
         on_inbound_msg(p, m)
  PROVE  BehaviorInv'
<1>1. CASE p \notin known
  BY <1>1, IdleKeeps DEF on_inbound_msg, govVars
<1>2. CASE p \in known
  <2> DEFINE s == apply_msg(peers[p], m)
  <2> DEFINE t == TagAfter(p, faulty(s), is_initialized(s))
  <2> DEFINE y == visit_inbound_msg(Context(s), p, t)
  <2>1. /\ Store(p, y) /\ UNCHANGED <<known, asked>>
        /\ answered' = IF m.ch = "blockfetch" /\ At(s, "blockfetch") = "Idle"
                         THEN answered \cup ({s.in_flight} \ {None}) ELSE answered
    BY <1>2 DEF on_inbound_msg
  <2>2. PeerOK(peers[p])
    BY PeerFacts
  <2>3. /\ s \in PeerStates /\ WellKept(s) /\ s.unsent = peers[p].unsent
        /\ s.in_flight = peers[p].in_flight /\ s.connection = peers[p].connection
        /\ m.ch # "blockfetch" => At(s, "blockfetch") = At(peers[p], "blockfetch")
    BY <2>2, ApplyMsgFacts DEF PeerOK
  <2> HIDE DEF s, t
  <2>4. ContextOK(Context(s)) /\ Context(s).s = s /\ Context(s).requests = requests
    BY <2>3, ContextFacts
  <2>5. Settles(Context(s), y)
    BY <2>4, VisitsFine
  <2> HIDE DEF y
  <2>6. ASSUME NEW r \in Ranges \ answered', InQueue(requests, r) \/ Holds(peers[p], r)
        PROVE  InQueue(y.requests, r) \/ Holds(y.s, r)
    <3>1. InQueue(requests, r) \/ Holds(s, r)
      BY <2>3, <2>6 DEF Holds, Unsent
    <3>2. CASE At(s, "blockfetch") = "Idle" /\ s.in_flight = r
      <4>1. m.ch = "blockfetch"
        BY <2>2, <2>3, <3>2, RangesAssumption DEF PeerOK, Free
      <4> QED BY <2>1, <3>2, <4>1, RangesAssumption
    <3>3. CASE ~(At(s, "blockfetch") = "Idle" /\ s.in_flight = r)
      BY <2>4, <2>5, <3>1, <3>3 DEF Settles
    <3> QED BY <3>2, <3>3
  <2>7. ContextOK(y) /\ Free(y.s)
    BY <2>5 DEF Settles, Free
  <2>8. answered \subseteq answered'
    BY <2>1
  <2> QED BY <1>2, <2>1, <2>6, <2>7, <2>8, StoreStep
<1> QED BY <1>1, <1>2

(* A message written.                                                      *)
LEMMA OutboundStep ==
  ASSUME InitiatorInv, UNCHANGED scene, NEW p \in Peers, NEW m \in Asks,
         on_outbound_msg(p, m)
  PROVE  BehaviorInv'
<1>0. UNCHANGED <<known, requests, fetches, discovered, intersection, outbound, history>>
  BY DEF on_outbound_msg, govVars
<1>1. CASE p \notin known
  BY <1>0, <1>1, IdleKeeps DEF on_outbound_msg, behaviorVars
<1>2. CASE p \in known
  <2> DEFINE y == blockfetch_outbound(apply_msg(clear_unsent(peers[p], m), m))
  <2> DEFINE x == Context(y)
  <2>1. peers' = [peers EXCEPT ![p] = y]
    BY <1>2 DEF on_outbound_msg
  <2>2. PeerOK(y) /\ \A r \in Ranges : Holds(peers[p], r) => Holds(y, r)
    BY PeerFacts, OutboundKeeps
  <2> HIDE DEF y
  <2>3. ContextOK(x) /\ x.s = y /\ x.requests = requests
    BY <2>2, ContextFacts DEF PeerOK
  <2>4. Store(p, x)
    BY <1>0, <2>1 DEF Store, Context
  <2> HIDE DEF x
  <2> QED BY <1>0, <1>2, <2>2, <2>3, <2>4, StoreStep DEF PeerOK, history
<1> QED BY <1>1, <1>2

(* A visitor that is fine, run on the state of a tracked peer.             *)
LEMMA FineStep ==
  ASSUME InitiatorInv, UNCHANGED <<scene, known, history>>, NEW p \in known,
         NEW s, PeerOK(s), \A r \in Ranges : Holds(peers[p], r) => Holds(s, r),
         NEW y, Fine(Context(s), y), Store(p, y)
  PROVE  BehaviorInv'
<1>1. ContextOK(Context(s)) /\ Context(s).s = s /\ Context(s).requests = requests
  BY ContextFacts DEF PeerOK
<1>2. ContextOK(y) /\ Free(y.s)
  BY <1>1 DEF Fine, SameFetch, Free, PeerOK
<1>3. \A r \in Ranges : InQueue(requests, r) \/ Holds(peers[p], r)
                          => InQueue(y.requests, r) \/ Holds(y.s, r)
  BY <1>1 DEF Fine, Keeps
<1> QED BY <1>2, <1>3, PeerFacts, StoreStep DEF history

(* A connect completed.                                                    *)
LEMMA ConnectedStep ==
  ASSUME InitiatorInv, UNCHANGED scene, NEW p \in Peers, on_connected(p)
  PROVE  BehaviorInv'
<1>1. CASE p \notin known
  BY <1>1, IdleKeeps DEF on_connected, govVars
<1>2. CASE p \in known
  <2> DEFINE s == [peers[p] EXCEPT !.connection = "Connected"]
  <2>1. PeerOK(peers[p])
    BY PeerFacts
  <2>2. PeerOK(s) /\ \A r \in Ranges : Holds(peers[p], r) => Holds(s, r)
    BY <2>1 DEF PeerOK, PeerStates, ConnectionStates, WellKept, Free, At, Holds, Unsent
  <2>3. Store(p, propose_handshake(Context(s), p)) /\ UNCHANGED <<known, history>>
    BY <1>2 DEF on_connected, govVars
  <2> HIDE DEF s
  <2>4. Fine(Context(s), propose_handshake(Context(s), p))
    BY <2>2, ContextFacts, ConnectionFine DEF PeerOK
  <2> QED BY <1>2, <2>2, <2>3, <2>4, FineStep
<1> QED BY <1>1, <1>2

(* An I/O error.                                                           *)
LEMMA ErroredStep ==
  ASSUME InitiatorInv, UNCHANGED scene, NEW p \in Peers, on_errored(p)
  PROVE  BehaviorInv'
<1>1. CASE p \notin known
  BY <1>1, IdleKeeps DEF on_errored, govVars
<1>2. CASE p \in known
  <2> DEFINE s == [peers[p] EXCEPT !.connection = "Errored", !.error_count = @ + 1]
  <2> DEFINE x == connection_errored(Context(s), p, tag[p])
  <2> DEFINE y == [x EXCEPT !.fetches = Purged(@, p)]
  <2>1. PeerOK(peers[p])
    BY PeerFacts
  <2>2. PeerOK(s) /\ \A r \in Ranges : Holds(peers[p], r) => Holds(s, r)
    <3>1. peers[p] \in PeerStates /\ peers[p].error_count + 1 \in Nat
      BY <2>1 DEF PeerOK, PeerStates
    <3>2. /\ s \in PeerStates /\ s.proto = peers[p].proto /\ s.unsent = peers[p].unsent
          /\ s.in_flight = peers[p].in_flight /\ s.connection = "Errored"
      BY <3>1 DEF PeerStates, ConnectionStates
    <3> HIDE DEF s
    <3> QED BY <2>1, <3>2 DEF PeerOK, WellKept, Free, At, Holds, Unsent
  <2>3. Store(p, y) /\ UNCHANGED <<known, history>>
    BY <1>2 DEF on_errored, govVars
  <2> HIDE DEF s
  <2>4. Fine(Context(s), x)
    BY <2>2, ContextFacts, ConnectionFine DEF PeerOK
  <2> HIDE DEF x
  <2>5. Purged(x.fetches, p) \in Seq(Fetches)
    <3>1. x.fetches \in Seq(Fetches)
      BY <2>4 DEF Fine, ContextOK, Contexts
    <3> QED BY <3>1, PurgedType
  <2>6. ContextOK(y) /\ y.s = x.s /\ y.requests = x.requests
    BY <2>4, <2>5 DEF Fine, ContextOK, Contexts
  <2> HIDE DEF y
  <2>7. Fine(x, y)
    BY <2>6, FineWhenSame DEF SameFetch
  <2>8. Fine(Context(s), y)
    BY <2>4, <2>7, FineComposes
  <2> QED BY <1>2, <2>2, <2>3, <2>8, FineStep
<1> QED BY <1>1, <1>2

(* A peer is lost: what it held goes to the front of the queue.            *)
LEMMA DisconnectedStep ==
  ASSUME InitiatorInv, UNCHANGED scene, NEW p \in Peers, on_disconnected(p)
  PROVE  BehaviorInv'
<1>0. UNCHANGED <<known, discovered, asked, answered>>
  BY DEF on_disconnected, reset_tag, history
<1>1. PICK all \in [Peers -> PeerStates], queue \in Seq(Ranges), tags \in {tag, tag'} :
        /\ \A q \in Peers : PeerOK(all[q])
        /\ serve_block_fetch(all, tags, queue)
        /\ fetches' \in Seq(Fetches)
        /\ \A r \in Ranges : InQueue(requests, r) => InQueue(queue, r)
        /\ \A r \in Ranges, q \in Peers :
             Holds(peers[q], r) => InQueue(queue, r) \/ Holds(all[q], r)
  <2>0. /\ peers \in [Peers -> PeerStates] /\ \A q \in Peers : PeerOK(peers[q])
        /\ requests \in Seq(Ranges) /\ fetches \in Seq(Fetches)
    BY DEF InitiatorInv, BehaviorInv, BehaviorTypes, PeerOK
  <2>1. CASE p \notin known
    BY <2>0, <2>1 DEF on_disconnected
  <2>2. CASE p \in known
    <3> DEFINE all == [peers EXCEPT ![p] = reset(@)]
    <3> DEFINE queue == RangesHeld(peers[p]) \o requests
    <3>1. serve_block_fetch(all, tag', queue) /\ fetches' = Purged(fetches, p)
      BY <2>2 DEF on_disconnected
    <3>2. fetches' \in Seq(Fetches)
      BY <2>0, <3>1, PurgedType
    <3>3. PeerOK(reset(peers[p]))
      BY <2>0, FreshOK DEF InitiatorInv
    <3>4. /\ all \in [Peers -> PeerStates] /\ \A q \in Peers : PeerOK(all[q])
          /\ \A q \in Peers \ {p} : all[q] = peers[q]
      BY <2>0, <3>3 DEF PeerOK
    <3>5. /\ RangesHeld(peers[p]) \in Seq(Ranges)
          /\ \A r \in Ranges : Holds(peers[p], r) => InQueue(RangesHeld(peers[p]), r)
      BY <2>0, HeldFacts
    <3>6. queue \in Seq(Ranges)
      BY <2>0, <3>5
    <3>7. ASSUME NEW r \in Ranges, InQueue(requests, r) PROVE InQueue(queue, r)
      <4>1. PICK i \in DOMAIN requests : requests[i] = r
        BY <3>7 DEF InQueue
      <4>2. /\ Len(RangesHeld(peers[p])) + i \in DOMAIN queue
            /\ queue[Len(RangesHeld(peers[p])) + i] = r
        BY <2>0, <3>5, <4>1
      <4> QED BY <4>2 DEF InQueue
    <3>8. ASSUME NEW r \in Ranges, InQueue(RangesHeld(peers[p]), r) PROVE InQueue(queue, r)
      <4>1. PICK i \in DOMAIN RangesHeld(peers[p]) : RangesHeld(peers[p])[i] = r
        BY <3>8 DEF InQueue
      <4>2. i \in DOMAIN queue /\ queue[i] = r
        BY <2>0, <3>5, <4>1
      <4> QED BY <4>2 DEF InQueue
    <3> HIDE DEF all, queue
    <3>9. \A r \in Ranges, q \in Peers :
            Holds(peers[q], r) => InQueue(queue, r) \/ Holds(all[q], r)
      BY <3>4, <3>5, <3>8
    <3> QED BY <3>1, <3>2, <3>4, <3>6, <3>7, <3>9
  <2> QED BY <2>1, <2>2
<1>2. known \subseteq Peers /\ outbound \in Seq(Outputs)
  BY PeerFacts
<1>3. /\ peers' \in [Peers -> PeerStates] /\ \A q \in Peers : PeerOK(peers'[q])
      /\ requests' \in Seq(Ranges) /\ outbound' \in Seq(Outputs)
      /\ \A r \in Ranges :
           InQueue(queue, r) \/ (\E q \in known : Holds(all[q], r))
             => InQueue(requests', r) \/ \E q \in known : Holds(peers'[q], r)
  BY <1>1, <1>2, ServeKeeps
<1>4. discovered' \in SUBSET Peers /\ asked' \in SUBSET Ranges
  BY <1>0 DEF InitiatorInv, BehaviorInv, BehaviorTypes
<1>5. BehaviorTypes' /\ (\A q \in Peers : Free(peers[q]))'
  BY <1>1, <1>3, <1>4, BehaviorStep
<1>6. ASSUME NEW r \in asked' \ answered'
      PROVE  InQueue(requests', r) \/ \E q \in known' : Holds(peers'[q], r)
  <2>1. r \in Ranges /\ (InQueue(requests, r) \/ \E q \in known : Holds(peers[q], r))
    BY <1>0, <1>4 DEF InitiatorInv, BehaviorInv, RangesSafe
  <2> QED BY <1>0, <1>1, <1>2, <1>3, <2>1
<1> QED BY <1>5, <1>6, RangesStep DEF BehaviorInv

-----------------------------------------------------------------------------
(* The commands of the application.                                        *)

(* A new or replaced entry: it held nothing.                               *)
LEMMA IncludeStep ==
  ASSUME InitiatorInv, UNCHANGED scene, NEW new, new \subseteq Peers,
         \A p \in new : p \notin known \/ peers[p].connection = "New",
         known' = known \cup new,
         peers' = [p \in Peers |-> IF p \in new THEN NewState ELSE peers[p]],
         discovered' \in SUBSET Peers,
         UNCHANGED <<requests, fetches, outbound, history>>
  PROVE  BehaviorInv'
<1>1. UNCHANGED <<asked, answered>>
  BY DEF history
<1>2. peers \in [Peers -> PeerStates] /\ \A q \in Peers : PeerOK(peers[q])
  BY PeerFacts
<1>3. PeerOK(NewState)
  BY FreshOK DEF InitiatorInv
<1>4. peers' \in [Peers -> PeerStates] /\ \A q \in Peers : PeerOK(peers'[q])
  BY <1>2, <1>3 DEF PeerOK
<1>5. /\ requests' \in Seq(Ranges) /\ fetches' \in Seq(Fetches)
      /\ outbound' \in Seq(Outputs) /\ asked' \in SUBSET Ranges
  BY <1>1 DEF InitiatorInv, BehaviorInv, BehaviorTypes
<1>6. BehaviorTypes' /\ (\A q \in Peers : Free(peers[q]))'
  BY <1>4, <1>5, BehaviorStep
<1>7. ASSUME NEW r \in asked' \ answered'
      PROVE  InQueue(requests', r) \/ \E q \in known' : Holds(peers'[q], r)
  <2>1. InQueue(requests, r) \/ \E q \in known : Holds(peers[q], r)
    BY <1>1 DEF InitiatorInv, BehaviorInv, RangesSafe
  <2>2. CASE InQueue(requests, r)
    BY <2>2
  <2>3. CASE \E q \in known : Holds(peers[q], r)
    <3>1. PICK q \in known : Holds(peers[q], r)
      BY <2>3
    <3>2. q \notin new /\ q \in Peers
      BY <3>1, PeerFacts DEF Holds
    <3>3. peers'[q] = peers[q]
      BY <3>2
    <3> QED BY <3>1, <3>3
  <2> QED BY <2>1, <2>2, <2>3
<1> QED BY <1>6, <1>7, RangesStep DEF BehaviorInv

(* RequestBlocks.                                                          *)
LEMMA RequestBlocksStep ==
  ASSUME InitiatorInv, UNCHANGED scene, NEW r \in Ranges, RequestBlocks(r)
  PROVE  BehaviorInv'
<1> DEFINE queue == Append(requests, r)
<1>1. /\ serve_block_fetch(peers, tag, queue) /\ asked' = asked \cup {r}
      /\ UNCHANGED <<known, fetches, discovered, answered>>
  BY DEF RequestBlocks, govVars
<1>2. /\ requests \in Seq(Ranges) /\ fetches \in Seq(Fetches)
      /\ discovered \in SUBSET Peers /\ asked \in SUBSET Ranges
  BY DEF InitiatorInv, BehaviorInv, BehaviorTypes
<1>3. queue \in Seq(Ranges) /\ InQueue(queue, r)
      /\ \A u \in Ranges : InQueue(requests, u) => InQueue(queue, u)
  <2>1. queue \in Seq(Ranges)
    BY <1>2
  <2>2. Len(requests) + 1 \in DOMAIN queue /\ queue[Len(requests) + 1] = r
    BY <1>2
  <2>3. \A i \in DOMAIN requests : i \in DOMAIN queue /\ queue[i] = requests[i]
    BY <1>2
  <2> HIDE DEF queue
  <2> QED BY <2>1, <2>2, <2>3 DEF InQueue
<1> HIDE DEF queue
<1>4. /\ known \subseteq Peers /\ outbound \in Seq(Outputs)
      /\ peers \in [Peers -> PeerStates] /\ \A q \in Peers : PeerOK(peers[q])
  BY PeerFacts
<1>5. /\ peers' \in [Peers -> PeerStates] /\ \A q \in Peers : PeerOK(peers'[q])
      /\ requests' \in Seq(Ranges) /\ outbound' \in Seq(Outputs)
      /\ \A u \in Ranges :
           InQueue(queue, u) \/ (\E q \in known : Holds(peers[q], u))
             => InQueue(requests', u) \/ \E q \in known : Holds(peers'[q], u)
  BY <1>1, <1>3, <1>4, ServeKeeps
<1>6. BehaviorTypes' /\ (\A q \in Peers : Free(peers[q]))'
  BY <1>1, <1>2, <1>5, BehaviorStep
<1>7. ASSUME NEW u \in asked' \ answered'
      PROVE  InQueue(requests', u) \/ \E q \in known' : Holds(peers'[q], u)
  <2>1. u \in Ranges /\ (u = r \/ InQueue(requests, u) \/ \E q \in known : Holds(peers[q], u))
    BY <1>1, <1>2 DEF InitiatorInv, BehaviorInv, RangesSafe
  <2> QED BY <1>1, <1>3, <1>5, <2>1
<1> QED BY <1>6, <1>7, RangesStep DEF BehaviorInv

(* ContinueSync, BanPeer and DemotePeer.                                   *)
LEMMA TaggedStep ==
  ASSUME InitiatorInv, UNCHANGED <<scene, known>>, NEW p \in known, NEW s, PeerOK(s),
         \A r \in Ranges : Holds(peers[p], r) => Holds(s, r), on_tagged(p, s)
  PROVE  BehaviorInv'
<1>1. Fine(Context(s), chainsync_tagged(Context(s), p))
  BY PeerFacts, ContextFacts, ChainSyncFine DEF PeerOK
<1> QED BY <1>1, FineStep DEF on_tagged

(* FetchEb and FetchEbTxs.                                                 *)
LEMMA FetchEbStep ==
  ASSUME InitiatorInv, UNCHANGED scene, NEW p \in Peers,
         NEW kind \in {"BlockRequest", "BlockTxsRequest"}, NEW eb \in Ebs,
         FetchEb(p, kind, eb)
  PROVE  BehaviorInv'
<1> DEFINE queue == Append(fetches, [pid |-> p, msg |-> Msg("leiosfetch", kind, eb)])
<1> DEFINE x == [Context(peers[p]) EXCEPT !.fetches = queue]
<1>1. /\ Store(p, IF p \in known THEN leios_serve_next(x, p, tag[p]) ELSE x)
      /\ UNCHANGED <<known, asked, answered>>
  BY DEF FetchEb, govVars, history
<1>2. PeerOK(peers[p]) /\ fetches \in Seq(Fetches)
  BY PeerFacts DEF InitiatorInv, BehaviorInv, BehaviorTypes
<1>3. queue \in Seq(Fetches)
  BY <1>2 DEF Fetches, EbRequests
<1> HIDE DEF queue
<1>4. /\ ContextOK(Context(peers[p])) /\ Context(peers[p]).s = peers[p]
      /\ Context(peers[p]).requests = requests
  BY <1>2, ContextFacts DEF PeerOK
<1>5. ContextOK(x) /\ x.s = peers[p] /\ x.requests = requests
  BY <1>3, <1>4 DEF ContextOK, Contexts
<1> HIDE DEF x
<1>6. CASE p \notin known
  BY <1>1, <1>2, <1>5, <1>6, StoreStep DEF PeerOK
<1>7. CASE p \in known
  <2> DEFINE y == leios_serve_next(x, p, tag[p])
  <2>1. Store(p, y)
    BY <1>1, <1>7
  <2>2. Fine(x, y)
    BY <1>5, LeiosFine
  <2> HIDE DEF y
  <2>3. ContextOK(y) /\ Free(y.s)
    BY <1>2, <1>5, <2>2 DEF Fine, SameFetch, Free, PeerOK
  <2>4. \A r \in Ranges : InQueue(requests, r) \/ Holds(peers[p], r)
                            => InQueue(y.requests, r) \/ Holds(y.s, r)
    BY <1>5, <2>2 DEF Fine, Keeps
  <2> QED BY <1>1, <1>7, <2>1, <2>3, <2>4, StoreStep
<1> QED BY <1>6, <1>7

(* A visit of housekeeping.                                                *)
LEMMA VisitStep ==
  ASSUME InitiatorInv, NEW p \in Peers, HousekeepingVisit(p)
  PROVE  BehaviorInv'
<1> DEFINE t == TagAfter(p, faulty(peers[p]), is_initialized(peers[p]))
<1>1. /\ Store(p, visit_housekeeping(Context(peers[p]), p, t))
      /\ UNCHANGED <<scene, known, history>>
  BY DEF HousekeepingVisit, poolVars
<1> HIDE DEF t
<1>2. p \in known
  BY DEF HousekeepingVisit, InitiatorInv
<1>3. PeerOK(peers[p])
  BY PeerFacts
<1>4. Fine(Context(peers[p]), visit_housekeeping(Context(peers[p]), p, t))
  BY <1>3, ContextFacts, VisitsFine DEF PeerOK
<1> QED BY <1>1, <1>2, <1>3, <1>4, FineStep

-----------------------------------------------------------------------------
(* The connection pool.                                                    *)

(* What the invariant says of one connection.                              *)
LEMMA ConnFacts ==
  ASSUME InitiatorInv, NEW c \in DOMAIN conns
  PROVE  /\ conns[c] \in ConnStates /\ conns[c].pid \in Peers
         /\ conns[c].tasks # <<>> => /\ Task(c) \in Asks \cup {Shutdown}
                                     /\ ~IsShutdown(c) => Task(c) \in Asks
                                     /\ Tail(conns[c].tasks) \in Seq(Asks \cup {Shutdown})
<1>1. conns[c] \in ConnStates
  BY DEF InitiatorInv, PoolTypes
<1>2. conns[c].pid \in Peers /\ conns[c].tasks \in Seq(Asks \cup {Shutdown})
  BY <1>1 DEF ConnStates
<1>3. conns[c].tasks # <<>> => /\ Task(c) \in Asks \cup {Shutdown}
                               /\ Tail(conns[c].tasks) \in Seq(Asks \cup {Shutdown})
  BY <1>2 DEF Task
<1> QED BY <1>1, <1>2, <1>3 DEF IsShutdown

(* A step that changes one connection, and takes writers away at most.     *)
LEMMA OneConnStep ==
  ASSUME InitiatorInv, UNCHANGED <<scene, futures>>, NEW c \in DOMAIN conns, NEW k \in ConnStates,
         conns' = [conns EXCEPT ![c] = k],
         writers' = writers \/ \E p \in Peers : writers' = [writers EXCEPT ![p] = 0]
  PROVE  PoolTypes'
<1>1. /\ conns \in Seq(ConnStates) /\ writers \in [Peers -> 0..Len(conns)]
      /\ futures \in [Peers -> Seq({"connect", "ready"})]
  BY DEF InitiatorInv, PoolTypes
<1>2. conns' \in Seq(ConnStates) /\ Len(conns') = Len(conns)
  BY <1>1
<1>3. writers' \in [Peers -> 0..Len(conns)]
  BY <1>1, SMTT(30)
<1> QED BY <1>1, <1>2, <1>3, SceneFacts DEF PoolTypes

(* A task is queued on the connection of a writer.                         *)
LEMMA QueuedStep ==
  ASSUME InitiatorInv, UNCHANGED <<scene, writers, futures>>, NEW p \in Peers, writers[p] # 0,
         NEW task \in Asks \cup {Shutdown}, conns' = Queued(writers[p], task)
  PROVE  PoolTypes'
<1> DEFINE c == writers[p]
<1>1. c \in DOMAIN conns
  BY DEF InitiatorInv, PoolTypes
<1> HIDE DEF c
<1>2. conns[c] \in ConnStates /\ conns[c].tasks \in Seq(Asks \cup {Shutdown})
  BY <1>1, ConnFacts DEF ConnStates
<1> DEFINE k == [conns[c] EXCEPT !.tasks = Append(@, task)]
<1>3. Append(conns[c].tasks, task) \in Seq(Asks \cup {Shutdown})
  BY <1>2
<1>4. k \in ConnStates
  BY <1>2, <1>3 DEF ConnStates
<1>5. conns' = [conns EXCEPT ![c] = k]
  BY DEF Queued, c
<1> HIDE DEF k
<1> QED BY <1>1, <1>4, <1>5, OneConnStep

(* The next output of the behaviour.                                       *)
LEMMA DispatchStep ==
  ASSUME InitiatorInv, PollBehavior
  PROVE  PoolTypes' /\ UNCHANGED scene
<1> DEFINE o == Head(outbound)
<1>1. o \in Outputs
  BY PeerFacts DEF PollBehavior
<1>2. /\ \/ o.do = "Send" /\ dispatch_send(o.pid, o.msg)
         \/ o.do = "Disconnect" /\ dispatch_disconnect(o.pid)
         \/ o.do = "Connect" /\ dispatch_connect(o.pid)
         \/ UNCHANGED poolVars
  BY DEF PollBehavior
<1>3. o.pid \in Peers /\ (o.do = "Send" => o.msg \in Asks)
  BY <1>1 DEF Outputs, Events
<1> HIDE DEF o
<1>4. PoolTypes
  BY DEF InitiatorInv
<1>5. ASSUME UNCHANGED poolVars PROVE PoolTypes' /\ UNCHANGED scene
  BY <1>4, <1>5, SceneFacts DEF poolVars, PoolTypes
<1>6. ASSUME NEW f \in {"connect", "ready"},
             futures' = [futures EXCEPT ![o.pid] = Append(@, f)],
             UNCHANGED <<scene, conns, writers>>
      PROVE  PoolTypes' /\ UNCHANGED scene
  <2>1. futures' \in [Peers -> Seq({"connect", "ready"})]
    <3>1. futures \in [Peers -> Seq({"connect", "ready"})]
      BY <1>4 DEF PoolTypes
    <3>2. Append(futures[o.pid], f) \in Seq({"connect", "ready"})
      BY <1>3, <3>1
    <3> QED BY <1>6, <3>1, <3>2
  <2> QED BY <1>4, <1>6, <2>1, SceneFacts DEF PoolTypes
<1>7. CASE o.do = "Send" /\ dispatch_send(o.pid, o.msg)
  <2>1. CASE writers[o.pid] # 0
    BY <1>3, <1>7, <2>1, QueuedStep DEF dispatch_send
  <2>2. CASE writers[o.pid] = 0
    BY <1>5, <1>7, <2>2 DEF dispatch_send, poolVars
  <2> QED BY <2>1, <2>2
<1>8. CASE o.do = "Disconnect" /\ dispatch_disconnect(o.pid)
  <2>1. CASE writers[o.pid] # 0
    BY <1>3, <1>8, <2>1, QueuedStep DEF dispatch_disconnect
  <2>2. CASE writers[o.pid] = 0
    BY <1>6, <1>8, <2>2 DEF dispatch_disconnect
  <2> QED BY <2>1, <2>2
<1>9. CASE o.do = "Connect" /\ dispatch_connect(o.pid)
  BY <1>6, <1>9 DEF dispatch_connect
<1> QED BY <1>2, <1>5, <1>7, <1>8, <1>9

(* The futures of a peer, one of them completed.                           *)
LEMMA CompletesType ==
  ASSUME InitiatorInv, NEW p \in Peers, NEW i \in DOMAIN futures[p], Completes(p, i)
  PROVE  futures' \in [Peers -> Seq({"connect", "ready"})]
<1>1. futures \in [Peers -> Seq({"connect", "ready"})]
  BY DEF InitiatorInv, PoolTypes
<1>2. futures[p] \in Seq({"connect", "ready"})
  BY <1>1
<1>3. Without(futures[p], i) \in Seq({"connect", "ready"})
  BY <1>2, WithoutType
<1> QED BY <1>1, <1>3 DEF Completes

(* A connect completed, or failed.                                         *)
LEMMA ConnectStep ==
  ASSUME InitiatorInv, NEW p \in Peers, \E i \in Completing(p) : Completes(p, i),
         PoolConnected(p) \/ UNCHANGED <<scene, conns, writers>>
  PROVE  PoolTypes' /\ UNCHANGED scene
<1>1. futures' \in [Peers -> Seq({"connect", "ready"})]
  BY CompletesType DEF Completing, Connects
<1>2. UNCHANGED scene
  BY DEF PoolConnected
<1>3. conns \in Seq(ConnStates) /\ writers \in [Peers -> 0..Len(conns)]
  BY DEF InitiatorInv, PoolTypes
<1>4. conns' \in Seq(ConnStates) /\ writers' \in [Peers -> 0..Len(conns')]
  <2>1. CASE PoolConnected(p)
    <3>1. Channels \subseteq AllChannels
      BY ScenariosAssumption DEF InitiatorInv, Channels
    <3>2. [ch \in Channels |-> Default(ch)] \in [Channels -> ProtoStates]
      BY <3>1, DefaultFacts
    <3>3. NewConn(p) \in ConnStates
      <4>1. <<>> \in Seq(Asks \cup {Shutdown})
        OBVIOUS
      <4> QED BY <3>2, <4>1 DEF NewConn, ConnStates
    <3>4. conns' \in Seq(ConnStates) /\ Len(conns') = Len(conns) + 1
      BY <1>3, <2>1, <3>3 DEF PoolConnected
    <3> QED BY <1>3, <2>1, <3>4 DEF PoolConnected
  <2>2. CASE UNCHANGED <<scene, conns, writers>>
    BY <1>3, <2>2
  <2> QED BY <2>1, <2>2
<1> QED BY <1>1, <1>2, <1>4, SceneFacts DEF PoolTypes

(* A Disconnected event that was ready.                                    *)
LEMMA ReadyStep ==
  ASSUME InitiatorInv, NEW p \in Peers, PoolReady(p)
  PROVE  PoolTypes' /\ UNCHANGED scene
<1> DEFINE i == CHOOSE k \in Readies(p) : \A j \in Readies(p) : k <= j
<1>1. Readies(p) \subseteq DOMAIN futures[p] /\ Readies(p) # {}
  BY DEF PoolReady, Readies
<1>2. DOMAIN futures[p] \subseteq Nat
  BY DEF InitiatorInv, PoolTypes
<1>3. i \in Readies(p)
  <2>1. \E k \in Readies(p) : \A j \in Readies(p) : k <= j
    BY <1>1, <1>2, LeastOf
  <2> QED BY <2>1
<1>4. Completes(p, i) /\ writers' = [writers EXCEPT ![p] = 0] /\ UNCHANGED <<scene, conns>>
  BY DEF PoolReady
<1> HIDE DEF i
<1>5. futures' \in [Peers -> Seq({"connect", "ready"})]
  BY <1>1, <1>3, <1>4, CompletesType
<1>6. conns \in Seq(ConnStates) /\ writers \in [Peers -> 0..Len(conns)]
  BY DEF InitiatorInv, PoolTypes
<1>7. writers' \in [Peers -> 0..Len(conns)]
  BY <1>4, <1>6
<1> QED BY <1>4, <1>5, <1>6, <1>7, SceneFacts DEF PoolTypes

(* The far end takes a message.                                            *)
LEMMA RemoteTakes ==
  ASSUME NEW k \in ConnStates, NEW m, Proper(m), CanApply(k.remote[m.ch], m)
  PROVE  [k EXCEPT !.remote[m.ch] = Apply(k.remote[m.ch], m)] \in ConnStates
<1>1. ASSUME NEW q, m.ch \in Channels => q \in ProtoStates
      PROVE  [k EXCEPT !.remote[m.ch] = q] \in ConnStates
  <2>1. k.remote \in [Channels -> ProtoStates]
    BY DEF ConnStates
  <2>2. [k.remote EXCEPT ![m.ch] = q] \in [Channels -> ProtoStates]
    BY <1>1, <2>1
  <2> QED BY <2>2 DEF ConnStates
<1>2. m.ch \in Channels => Apply(k.remote[m.ch], m) \in ProtoStates
  <2> SUFFICES ASSUME m.ch \in Channels PROVE Apply(k.remote[m.ch], m) \in ProtoStates
    OBVIOUS
  <2>1. k.remote[m.ch] \in ProtoStates
    BY DEF ConnStates
  <2> QED BY <2>1, ApplyFacts DEF Proper
<1> QED BY <1>1, <1>2

(* A write completed, or failed, or the connection was shut down.          *)
LEMMA WriteStep ==
  ASSUME InitiatorInv, NEW c \in DOMAIN conns,
         PoolSent(c) \/ PoolSendFailed(c) \/ PoolDisconnected(c)
  PROVE  PoolTypes' /\ UNCHANGED scene
<1>1. conns[c] \in ConnStates /\ conns[c].pid \in Peers
  BY ConnFacts
<1>2. conns[c].tasks # <<>>
  BY DEF PoolSent, PoolSendFailed, PoolDisconnected
<1>3. Tail(conns[c].tasks) \in Seq(Asks \cup {Shutdown}) /\ (~IsShutdown(c) => Task(c) \in Asks)
  BY <1>2, ConnFacts
<1>4. CASE PoolSent(c)
  <2> DEFINE j == [conns[c] EXCEPT !.tasks = Tail(@)]
  <2> DEFINE k == RemoteGets(j, Task(c))
  <2>1. j \in ConnStates
    BY <1>1, <1>3 DEF ConnStates
  <2>2. Proper(Task(c))
    BY <1>3, <1>4, AsksProper DEF PoolSent
  <2>3. conns' = [conns EXCEPT ![c] = k] /\ UNCHANGED <<scene, writers, futures>>
    BY <1>4 DEF PoolSent
  <2> HIDE DEF j
  <2>4. [j EXCEPT !.offended = TRUE] \in ConnStates
    BY <2>1 DEF ConnStates
  <2>5. k \in ConnStates
    <3> DEFINE m == Task(c)
    <3> HIDE DEF m
    <3>1. Proper(m) /\ k = RemoteGets(j, m)
      BY <2>2 DEF m
    <3> HIDE DEF k
    <3>2. CASE CanApply(j.remote[m.ch], m)
      BY <2>1, <3>1, <3>2, RemoteTakes DEF RemoteGets
    <3>3. CASE ~CanApply(j.remote[m.ch], m)
      BY <2>1, <2>4, <3>1, <3>3 DEF RemoteGets
    <3> QED BY <3>2, <3>3
  <2> HIDE DEF k
  <2> QED BY <2>3, <2>5, OneConnStep
<1>5. CASE PoolSendFailed(c)
  <2> DEFINE k == [conns[c] EXCEPT !.tasks = Tail(@), !.writing = FALSE]
  <2>1. k \in ConnStates
    BY <1>1, <1>3 DEF ConnStates
  <2>2. conns' = [conns EXCEPT ![c] = k] /\ UNCHANGED <<scene, writers, futures>>
    BY <1>5 DEF PoolSendFailed, InitiatorInv, PoolTypes
  <2> HIDE DEF k
  <2> QED BY <2>1, <2>2, OneConnStep
<1>6. CASE PoolDisconnected(c)
  <2> DEFINE k == [conns[c] EXCEPT !.tasks = Tail(@), !.shut = TRUE]
  <2>1. k \in ConnStates
    BY <1>1, <1>3 DEF ConnStates
  <2>2. /\ conns' = [conns EXCEPT ![c] = k] /\ UNCHANGED <<scene, futures>>
        /\ writers' = [writers EXCEPT ![conns[c].pid] = 0]
    BY <1>6 DEF PoolDisconnected, InitiatorInv, PoolTypes
  <2> HIDE DEF k
  <2> QED BY <1>1, <2>1, <2>2, OneConnStep
<1> QED BY <1>4, <1>5, <1>6

(* What the far end sends is proper.                                       *)
LEMMA RemoteMsgsProper ==
  ASSUME scene \in Scenarios, NEW c, NEW m \in RemoteMsgs(c)
  PROVE  Proper(m)
<1>1. PICK ch \in Channels :
        \E kind \in ServerKinds[ch] : \E a \in Args(ch, kind) : m = Msg(ch, kind, a)
  BY DEF RemoteMsgs
<1>2. PICK kind \in ServerKinds[ch] : \E a \in Args(ch, kind) : m = Msg(ch, kind, a)
  BY <1>1
<1>3. PICK a \in Args(ch, kind) : m = Msg(ch, kind, a)
  BY <1>2
<1>4. ch \in AllChannels /\ Shared \in SUBSET SUBSET Peers
  BY ScenariosAssumption, InitiatorAssumption DEF Channels, Shared
<1>5. ch = "blockfetch" => kind \notin {"Accept", "SharePeers"}
  BY DEF ServerKinds
<1>6. a \in IF kind = "Accept" THEN Versions ELSE IF kind = "SharePeers" THEN Shared ELSE {None}
  BY DEF Args
<1>7. m.ch = ch /\ m.kind = kind /\ m.arg = a
  BY <1>3 DEF Msg
<1> QED BY <1>4, <1>5, <1>6, <1>7 DEF Proper, Payloads

(* A message was read, or the reader failed.                               *)
LEMMA ReadStep ==
  ASSUME InitiatorInv, NEW c \in DOMAIN conns,
         (\E m \in RemoteMsgs(c) : PoolRecv(c, m)) \/ PoolRecvFailed(c)
  PROVE  PoolTypes' /\ UNCHANGED scene
<1>1. conns[c] \in ConnStates /\ conns \in Seq(ConnStates)
  BY ConnFacts DEF InitiatorInv, PoolTypes
<1>2. CASE PoolRecvFailed(c)
  <2> DEFINE k == [conns[c] EXCEPT !.reading = FALSE,
                                   !.remote = [ch \in Channels |-> Default(ch)]]
  <2>1. Channels \subseteq AllChannels
    BY ScenariosAssumption DEF InitiatorInv, Channels
  <2>2. [ch \in Channels |-> Default(ch)] \in [Channels -> ProtoStates]
    BY <2>1, DefaultFacts
  <2>3. k \in ConnStates
    BY <1>1, <2>2 DEF ConnStates
  <2>4. conns' = [conns EXCEPT ![c] = k] /\ UNCHANGED <<scene, writers, futures>>
    BY <1>1, <1>2 DEF PoolRecvFailed
  <2> HIDE DEF k
  <2> QED BY <2>3, <2>4, OneConnStep
<1>3. CASE \E m \in RemoteMsgs(c) : PoolRecv(c, m)
  <2>1. PICK m \in RemoteMsgs(c) : PoolRecv(c, m)
    BY <1>3
  <2>2. Proper(m)
    BY RemoteMsgsProper DEF InitiatorInv
  <2>3. UNCHANGED <<scene, writers, futures>>
    BY <2>1 DEF PoolRecv
  <2>4. CASE CanApply(conns[c].remote[m.ch], m)
    <3> DEFINE k == [conns[c] EXCEPT !.remote[m.ch] = Apply(conns[c].remote[m.ch], m)]
    <3>1. k \in ConnStates
      BY <1>1, <2>2, <2>4, RemoteTakes
    <3>2. conns' = [conns EXCEPT ![c] = k]
      BY <2>1, <2>4 DEF PoolRecv
    <3> HIDE DEF k
    <3> QED BY <2>3, <3>1, <3>2, OneConnStep
  <2>5. CASE ~CanApply(conns[c].remote[m.ch], m)
    <3>1. conns' = [conns EXCEPT ![c] = conns[c]]
      BY <1>1, <2>1, <2>5 DEF PoolRecv
    <3> QED BY <1>1, <2>3, <3>1, OneConnStep
  <2> QED BY <2>4, <2>5
<1> QED BY <1>2, <1>3

-----------------------------------------------------------------------------
(* Governance: whatever the initiator does to its tags and sets is a step  *)
(* of Promotion.                                                           *)

(* categorize_peer, with the two conditions computed from a state.         *)
LEMMA CategorizeStep ==
  ASSUME NEW p \in known, NEW s,
         categorize_peer(p, faulty(s), is_initialized(s)), UNCHANGED known
  PROVE  GovernanceNext
<1>1. faulty(s) \in BOOLEAN /\ is_initialized(s) \in BOOLEAN
  BY DEF faulty, is_initialized
<1> QED BY <1>1 DEF GovernanceNext

(* The handlers of handle_io.                                              *)
LEMMA HandlersGovern ==
  ASSUME NEW p \in Peers,
         \/ \E m : on_inbound_msg(p, m) \/ on_outbound_msg(p, m)
         \/ on_connected(p) \/ on_errored(p) \/ on_disconnected(p)
  PROVE  [GovernanceNext]_govVars
<1>1. CASE \E m : on_inbound_msg(p, m)
  <2>1. PICK m : on_inbound_msg(p, m)
    BY <1>1
  <2>2. CASE p \in known
    BY <2>1, <2>2, CategorizeStep DEF on_inbound_msg
  <2>3. CASE p \notin known
    BY <2>1, <2>3 DEF on_inbound_msg
  <2> QED BY <2>2, <2>3
<1>2. CASE on_disconnected(p)
  BY <1>2 DEF on_disconnected, GovernanceNext
<1>3. CASE (\E m : on_outbound_msg(p, m)) \/ on_connected(p) \/ on_errored(p)
  BY <1>3 DEF on_outbound_msg, on_connected, on_errored
<1> QED BY <1>1, <1>2, <1>3

(* The commands and housekeeping.                                          *)
LEMMA CommandsGovern ==
  ASSUME InitiatorInv, Application \/ Sweep
  PROVE  [GovernanceNext]_govVars
<1>1. Included \subseteq Peers
  BY InitiatorAssumption DEF InitiatorInv, Included
<1>2. ASSUME NEW p \in Included, IncludePeer(p) PROVE GovernanceNext
  BY <1>1, <1>2 DEF IncludePeer, GovernanceNext
<1>3. ASSUME NEW p \in Peers, BanPeer(p) \/ DemotePeer(p) PROVE GovernanceNext
  BY <1>3 DEF BanPeer, DemotePeer, GovernanceNext
<1>4. ASSUME HousekeepingEnd PROVE GovernanceNext
  <2>1. discovered \subseteq Peers
    BY DEF InitiatorInv, BehaviorInv, BehaviorTypes
  <2> QED BY <1>4, <2>1 DEF HousekeepingEnd, GovernanceNext
<1>5. ASSUME NEW p \in Peers, HousekeepingVisit(p) PROVE GovernanceNext
  <2>1. p \in known
    BY <1>5 DEF HousekeepingVisit, InitiatorInv
  <2> QED BY <1>5, <2>1, CategorizeStep DEF HousekeepingVisit
<1>6. ASSUME NEW p \in Peers, ContinueSync(p) PROVE UNCHANGED govVars
  BY <1>6 DEF ContinueSync
<1>7. ASSUME NEW r \in Ranges, RequestBlocks(r) PROVE UNCHANGED govVars
  BY <1>7 DEF RequestBlocks
<1>8. ASSUME NEW p, NEW kind, NEW eb, FetchEb(p, kind, eb) PROVE UNCHANGED govVars
  BY <1>8 DEF FetchEb
<1>9. ASSUME StartSync \/ Housekeeping PROVE UNCHANGED govVars
  BY <1>9 DEF StartSync, Housekeeping
<1> QED BY <1>2, <1>3, <1>4, <1>5, <1>6, <1>7, <1>8, <1>9 DEF Application, Sweep

(* Every step.                                                             *)
LEMMA NextGoverns ==
  ASSUME InitiatorInv, [Next]_vars
  PROVE  [GovernanceNext]_govVars
<1>1. CASE UNCHANGED vars
  BY <1>1 DEF vars
<1>2. CASE PollBehavior
  BY <1>2 DEF PollBehavior
<1>3. CASE Interface
  <2>1. ASSUME NEW p \in Peers, Connected(p) \/ ConnectFailed(p) \/ ReadyDisconnected(p)
        PROVE  [GovernanceNext]_govVars
    BY <2>1, HandlersGovern DEF Connected, ConnectFailed, ReadyDisconnected
  <2>2. ASSUME NEW c \in DOMAIN conns,
               Sent(c) \/ SendFailed(c) \/ Disconnected(c) \/ Recv(c) \/ RecvFailed(c)
        PROVE  [GovernanceNext]_govVars
    <3>1. conns[c].pid \in Peers
      BY ConnFacts
    <3>2. \/ \E m : on_inbound_msg(conns[c].pid, m) \/ on_outbound_msg(conns[c].pid, m)
          \/ on_errored(conns[c].pid) \/ on_disconnected(conns[c].pid)
      BY <2>2 DEF Sent, SendFailed, Disconnected, Recv, RecvFailed
    <3> QED BY <3>1, <3>2, HandlersGovern
  <2> QED BY <1>3, <2>1, <2>2 DEF Interface
<1>4. CASE Application \/ Sweep
  BY <1>4, CommandsGovern
<1> QED BY <1>1, <1>2, <1>3, <1>4 DEF Next

-----------------------------------------------------------------------------
(* The invariant holds at the start.                                       *)
LEMMA InitiatorInitInv == Init => InitiatorInv
<1> SUFFICES ASSUME Init PROVE InitiatorInv
  OBVIOUS
<1>1. /\ scene \in Scenarios /\ conns = <<>> /\ writers = [p \in Peers |-> 0]
      /\ futures = [p \in Peers |-> <<>>] /\ GovernanceInit
      /\ peers = [p \in Peers |-> NewState] /\ requests = <<>> /\ fetches = <<>>
      /\ discovered = {} /\ outbound = <<>> /\ sweep = {} /\ asked = {} /\ answered = {}
  BY DEF Init, PoolInit
<1>2. GovernanceInv
  BY <1>1, InvInit
<1>3. PoolTypes
  <2>1. conns \in Seq(ConnStates) /\ Len(conns) = 0
    BY <1>1
  <2>2. <<>> \in Seq({"connect", "ready"})
    OBVIOUS
  <2> QED BY <1>1, <2>1, <2>2 DEF PoolTypes
<1>4. BehaviorInv
  <2>1. PeerOK(NewState)
    BY <1>1, FreshOK
  <2>2. peers \in [Peers -> PeerStates] /\ \A p \in Peers : WellKept(peers[p]) /\ Free(peers[p])
    BY <1>1, <2>1 DEF PeerOK
  <2>3. requests \in Seq(Ranges) /\ fetches \in Seq(Fetches) /\ outbound \in Seq(Outputs)
    BY <1>1
  <2> QED BY <1>1, <2>2, <2>3 DEF BehaviorInv, BehaviorTypes, RangesSafe
<1> QED BY <1>1, <1>2, <1>3, <1>4 DEF InitiatorInv

(* A completed future, and the handler of its event.                       *)
LEMMA InterfaceKeepsInv ==
  ASSUME InitiatorInv, Interface
  PROVE  BehaviorInv' /\ PoolTypes' /\ UNCHANGED <<scene, sweep, known>>
<1>1. ASSUME NEW p \in Peers, Connected(p) \/ ConnectFailed(p) \/ ReadyDisconnected(p)
      PROVE  BehaviorInv' /\ PoolTypes' /\ UNCHANGED <<scene, sweep, known>>
  <2>1. CASE Connected(p)
    <3>1. PoolTypes' /\ UNCHANGED scene
      BY <2>1, ConnectStep DEF Connected
    <3> QED BY <2>1, <3>1, ConnectedStep DEF Connected, IO, on_connected, govVars
  <2>2. CASE ConnectFailed(p)
    <3>1. PoolTypes' /\ UNCHANGED scene
      BY <2>2, ConnectStep DEF ConnectFailed
    <3> QED BY <2>2, <3>1, ErroredStep DEF ConnectFailed, IO, on_errored, govVars
  <2>3. CASE ReadyDisconnected(p)
    <3>1. PoolTypes' /\ UNCHANGED scene
      BY <2>3, ReadyStep DEF ReadyDisconnected
    <3> QED BY <2>3, <3>1, DisconnectedStep
         DEF ReadyDisconnected, IO, on_disconnected, reset_tag
  <2> QED BY <1>1, <2>1, <2>2, <2>3
<1>2. ASSUME NEW c \in DOMAIN conns,
             Sent(c) \/ SendFailed(c) \/ Disconnected(c) \/ Recv(c) \/ RecvFailed(c)
      PROVE  BehaviorInv' /\ PoolTypes' /\ UNCHANGED <<scene, sweep, known>>
  <2>0. conns[c].pid \in Peers
    BY ConnFacts
  <2>1. CASE Sent(c)
    <3>1. PoolTypes' /\ UNCHANGED scene
      BY <2>1, WriteStep DEF Sent
    <3>2. Task(c) \in Asks
      BY <2>1, ConnFacts DEF Sent, PoolSent
    <3> QED BY <2>0, <2>1, <3>1, <3>2, OutboundStep DEF Sent, IO, on_outbound_msg, govVars
  <2>2. CASE SendFailed(c)
    <3>1. PoolTypes' /\ UNCHANGED scene
      BY <2>2, WriteStep DEF SendFailed
    <3> QED BY <2>0, <2>2, <3>1, ErroredStep DEF SendFailed, IO, on_errored, govVars
  <2>3. CASE Disconnected(c)
    <3>1. PoolTypes' /\ UNCHANGED scene
      BY <2>3, WriteStep DEF Disconnected
    <3> QED BY <2>0, <2>3, <3>1, DisconnectedStep
         DEF Disconnected, IO, on_disconnected, reset_tag
  <2>4. CASE Recv(c)
    <3>1. PICK m \in RemoteMsgs(c) : PoolRecv(c, m) /\ on_inbound_msg(conns[c].pid, m)
      BY <2>4 DEF Recv
    <3>2. PoolTypes' /\ UNCHANGED scene
      BY <3>1, ReadStep
    <3>3. Proper(m)
      BY RemoteMsgsProper DEF InitiatorInv
    <3> QED BY <2>0, <2>4, <3>1, <3>2, <3>3, InboundKeeps DEF Recv, IO, on_inbound_msg, govVars
  <2>5. CASE RecvFailed(c)
    <3>1. PoolTypes' /\ UNCHANGED scene
      BY <2>5, ReadStep DEF RecvFailed
    <3> QED BY <2>0, <2>5, <3>1, ErroredStep DEF RecvFailed, IO, on_errored, govVars
  <2> QED BY <1>2, <2>1, <2>2, <2>3, <2>4, <2>5
<1> QED BY <1>1, <1>2 DEF Interface

(* The commands and housekeeping leave the pool alone.                     *)
LEMMA CommandsKeepInv ==
  ASSUME InitiatorInv, Application \/ Sweep
  PROVE  BehaviorInv' /\ UNCHANGED poolVars /\ sweep' \subseteq known'
<1>0. /\ Included \subseteq Peers /\ discovered \subseteq Peers /\ sweep \subseteq known
      /\ peers \in [Peers -> PeerStates] /\ \A p \in Peers : PeerOK(peers[p])
  BY InitiatorAssumption, PeerFacts
     DEF InitiatorInv, Included, BehaviorInv, BehaviorTypes
<1>1. ASSUME NEW p \in Included, IncludePeer(p)
      PROVE  BehaviorInv' /\ UNCHANGED poolVars /\ sweep' \subseteq known'
  <2>1. /\ UNCHANGED <<scene, requests, fetches, discovered, outbound, history>>
        /\ UNCHANGED poolVars /\ sweep' = sweep /\ known' = known \cup {p}
        /\ p \notin known \/ peers[p].connection = "New"
    BY <1>1 DEF IncludePeer, Execute, IO, on_discovered, poolVars
  <2>2. BehaviorInv'
    <3> DEFINE new == {p}
    <3>1. /\ new \subseteq Peers /\ discovered' \in SUBSET Peers /\ known' = known \cup new
          /\ \A q \in new : q \notin known \/ peers[q].connection = "New"
      BY <1>0, <2>1
    <3>2. peers' = [q \in Peers |-> IF q \in new THEN NewState ELSE peers[q]]
      BY <1>0, <1>1 DEF IncludePeer
    <3> HIDE DEF new
    <3> QED BY <2>1, <3>1, <3>2, IncludeStep
  <2> QED BY <1>0, <2>1, <2>2
<1>2. ASSUME StartSync
      PROVE  BehaviorInv' /\ UNCHANGED poolVars /\ sweep' \subseteq known'
  <2>1. /\ UNCHANGED <<scene, peers, requests, fetches, discovered, outbound, history>>
        /\ UNCHANGED poolVars /\ sweep' = sweep /\ known' = known
    BY <1>2 DEF StartSync, Execute, IO, govVars, poolVars
  <2>2. BehaviorInv'
    <3> DEFINE new == {}
    <3>1. /\ new \subseteq Peers /\ discovered' \in SUBSET Peers /\ known' = known \cup new
          /\ \A q \in new : q \notin known \/ peers[q].connection = "New"
      BY <1>0, <2>1
    <3>2. peers' = [q \in Peers |-> IF q \in new THEN NewState ELSE peers[q]]
      BY <1>0, <2>1
    <3> HIDE DEF new
    <3> QED BY <2>1, <3>1, <3>2, IncludeStep
  <2> QED BY <1>0, <2>1, <2>2
<1>3. ASSUME NEW p \in Peers, ContinueSync(p) \/ BanPeer(p) \/ DemotePeer(p)
      PROVE  BehaviorInv' /\ UNCHANGED poolVars /\ sweep' \subseteq known'
  <2>1. /\ p \in known /\ UNCHANGED poolVars /\ UNCHANGED <<scene, sweep, known>>
        /\ \/ on_tagged(p, peers[p])
           \/ on_tagged(p, [peers[p] EXCEPT !.continue_sync = TRUE])
    BY <1>3 DEF ContinueSync, BanPeer, DemotePeer, Execute, IO, govVars, set_tag, poolVars
  <2> DEFINE s == [peers[p] EXCEPT !.continue_sync = TRUE]
  <2>2. PeerOK(s) /\ \A r \in Ranges : Holds(peers[p], r) => Holds(s, r)
    BY <1>0 DEF PeerOK, PeerStates, WellKept, Free, At, Holds, Unsent
  <2> HIDE DEF s
  <2>3. on_tagged(p, peers[p]) \/ on_tagged(p, s)
    BY <2>1 DEF s
  <2>4. BehaviorInv'
    BY <1>0, <2>1, <2>2, <2>3, TaggedStep
  <2> QED BY <1>0, <2>1, <2>4
<1>4. ASSUME NEW r \in Ranges, RequestBlocks(r)
      PROVE  BehaviorInv' /\ UNCHANGED poolVars /\ sweep' \subseteq known'
  <2>1. UNCHANGED poolVars /\ UNCHANGED <<scene, sweep, known>>
    BY <1>4 DEF RequestBlocks, Execute, IO, govVars, poolVars
  <2> QED BY <1>0, <1>4, <2>1, RequestBlocksStep
<1>5. ASSUME NEW p \in Included, NEW kind \in {"BlockRequest", "BlockTxsRequest"},
             NEW eb \in Ebs, FetchEb(p, kind, eb)
      PROVE  BehaviorInv' /\ UNCHANGED poolVars /\ sweep' \subseteq known'
  <2>1. UNCHANGED poolVars /\ UNCHANGED <<scene, sweep, known>>
    BY <1>5 DEF FetchEb, Execute, IO, govVars, poolVars
  <2> QED BY <1>0, <1>5, <2>1, FetchEbStep
<1>6. ASSUME Housekeeping
      PROVE  BehaviorInv' /\ UNCHANGED poolVars /\ sweep' \subseteq known'
  <2>1. /\ UNCHANGED <<scene, known, behaviorVars, outbound, history>>
        /\ UNCHANGED poolVars /\ sweep' = known
    BY <1>6 DEF Housekeeping, govVars, poolVars
  <2> QED BY <2>1, IdleKeeps
<1>7. ASSUME NEW p \in Peers, HousekeepingVisit(p)
      PROVE  BehaviorInv' /\ UNCHANGED poolVars /\ sweep' \subseteq known'
  <2>1. UNCHANGED poolVars /\ known' = known /\ sweep' = sweep \ {p}
    BY <1>7 DEF HousekeepingVisit
  <2> QED BY <1>0, <1>7, <2>1, VisitStep
<1>8. ASSUME HousekeepingEnd
      PROVE  BehaviorInv' /\ UNCHANGED poolVars /\ sweep' \subseteq known'
  <2>1. PICK new \in SUBSET discovered :
          /\ known' = known \cup new /\ discovered' = discovered \ new
          /\ peers' = [p \in Peers |-> IF p \in new \ known THEN NewState ELSE peers[p]]
    BY <1>8 DEF HousekeepingEnd, move_discovered_into_promotion
  <2>2. /\ UNCHANGED <<scene, requests, fetches, outbound, history>>
        /\ UNCHANGED poolVars /\ sweep' = sweep
    BY <1>8 DEF HousekeepingEnd, poolVars
  <2>3. BehaviorInv'
    <3> DEFINE fresh == new \ known
    <3>1. /\ fresh \subseteq Peers /\ discovered' \in SUBSET Peers
          /\ known' = known \cup fresh /\ \A p \in fresh : p \notin known
      BY <1>0, <2>1
    <3>2. peers' = [p \in Peers |-> IF p \in fresh THEN NewState ELSE peers[p]]
      BY <2>1
    <3> HIDE DEF fresh
    <3> QED BY <2>2, <3>1, <3>2, IncludeStep
  <2> QED BY <1>0, <2>1, <2>2, <2>3
<1> QED BY <1>1, <1>2, <1>3, <1>4, <1>5, <1>6, <1>7, <1>8 DEF Application, Sweep

(* Every step keeps the invariant.                                         *)
LEMMA InitiatorStep == InitiatorInv /\ [Next]_vars => InitiatorInv'
<1> SUFFICES ASSUME InitiatorInv, [Next]_vars PROVE InitiatorInv'
  OBVIOUS
<1>0. GovernanceInv'
  BY NextGoverns, InvStep DEF InitiatorInv
<1>1. scene \in Scenarios /\ sweep \subseteq known /\ PoolTypes
  BY DEF InitiatorInv
<1>2. ASSUME UNCHANGED poolVars PROVE scene' \in Scenarios /\ PoolTypes'
  BY <1>1, <1>2, SceneFacts DEF poolVars, PoolTypes
<1>3. CASE UNCHANGED vars
  <2>1. UNCHANGED poolVars /\ UNCHANGED <<scene, known, behaviorVars, outbound, history, sweep>>
    BY <1>3 DEF vars, govVars, poolVars
  <2> QED BY <1>0, <1>1, <1>2, <2>1, IdleKeeps DEF InitiatorInv
<1>4. CASE PollBehavior
  <2>1. PoolTypes' /\ UNCHANGED scene
    BY <1>4, DispatchStep
  <2>2. /\ UNCHANGED <<known, sweep, behaviorVars, history>>
        /\ outbound # <<>> /\ outbound' = Tail(outbound)
    BY <1>4 DEF PollBehavior, govVars
  <2>3. BehaviorInv'
    <3>1. /\ peers \in [Peers -> PeerStates] /\ \A p \in Peers : PeerOK(peers[p])
          /\ requests \in Seq(Ranges) /\ fetches \in Seq(Fetches)
          /\ discovered \in SUBSET Peers /\ outbound \in Seq(Outputs) /\ asked \in SUBSET Ranges
      BY DEF InitiatorInv, BehaviorInv, BehaviorTypes, PeerOK
    <3>2. outbound' \in Seq(Outputs)
      BY <2>2, <3>1
    <3>3. BehaviorTypes' /\ (\A p \in Peers : Free(peers[p]))'
      BY <2>1, <2>2, <3>1, <3>2, BehaviorStep DEF behaviorVars, history
    <3>4. RangesSafe'
      BY <2>1, <2>2, RangesStep
         DEF behaviorVars, history, InitiatorInv, BehaviorInv, RangesSafe
    <3> QED BY <3>3, <3>4 DEF BehaviorInv
  <2> QED BY <1>0, <1>1, <2>1, <2>2, <2>3 DEF InitiatorInv
<1>5. CASE Interface
  BY <1>0, <1>1, <1>5, InterfaceKeepsInv DEF InitiatorInv
<1>6. CASE Application \/ Sweep
  BY <1>0, <1>2, <1>6, CommandsKeepInv DEF InitiatorInv
<1> QED BY <1>3, <1>4, <1>5, <1>6 DEF Next

-----------------------------------------------------------------------------
(* The initiator implements Promotion: the tags and sets its handlers      *)
(* leave are those of peer governance, whatever messages, failures and     *)
(* commands come.                                                          *)
THEOREM InitiatorGoverns == Spec => Governance
<1>1. Init => GovernanceInit
  BY DEF Init
<1>2. InitiatorInv /\ [Next]_vars => [GovernanceNext]_govVars
  BY NextGoverns
<1> QED BY <1>1, <1>2, InitiatorInitInv, InitiatorStep, PTL DEF Spec, Governance

(* What is proved of Promotion holds in the whole initiator: the counters  *)
(* of PromotionConfig never underflow, banned peers stay out for ever, and *)
(* a tag that asks for a connection has its slot.                          *)
THEOREM InitiatorKeepsLimits ==
  Spec => [](NoUnderflow /\ BannedStaysOut /\ TagImpliesSlot) /\ BansArePermanent
BY InitiatorGoverns, GovernanceNeverUnderflows, GovernanceBansHold,
   GovernanceTagsHaveSlots, GovernanceBansPermanent, PTL

(* Requests are messages of the tables.                                    *)
LEMMA AsksAreTasks == Asks \subseteq TaskSet
<1>1. ASSUME NEW ch \in AllChannels, NEW t \in Moves[ch], NEW a \in {None} \cup Ranges \cup Ebs
      PROVE  Msg(ch, t[2], a) \in TaskSet
  BY DEF TaskSet
<1> DEFINE Kinds(ch) == {t[2] : t \in Moves[ch]}
<1>2. \A ch \in AllChannels : \A kind \in Kinds(ch), a \in {None} \cup Ranges \cup Ebs :
        Msg(ch, kind, a) \in TaskSet
  BY <1>1
<1>3. "Propose" \in Kinds("handshake")
  <2>1. <<"Propose", "Propose", "Confirm">> \in Moves["handshake"]
    BY DEF Moves, HandshakeMoves, From
  <2> QED BY <2>1
<1>4. "KeepAlive" \in Kinds("keepalive")
  <2>1. <<"ClientEmpty", "KeepAlive", "Server">> \in Moves["keepalive"]
    BY DEF Moves, KeepAliveMoves, From
  <2> QED BY <2>1
<1>5. "ShareRequest" \in Kinds("peersharing")
  <2>1. <<"IdleEmpty", "ShareRequest", "Busy">> \in Moves["peersharing"]
    BY DEF Moves, PeerSharingMoves, From
  <2> QED BY <2>1
<1>6. "RequestNext" \in Kinds("chainsync") /\ "FindIntersect" \in Kinds("chainsync")
  <2>1. <<"IdleNew", "RequestNext", "CanAwait">> \in Moves["chainsync"]
    BY DEF Moves, ChainSyncMoves, ChainSyncIdle, From
  <2>2. <<"IdleNew", "FindIntersect", "Intersect">> \in Moves["chainsync"]
    BY DEF Moves, ChainSyncMoves, ChainSyncIdle, From
  <2> QED BY <2>1, <2>2
<1>7. "RequestNext" \in Kinds("leiosnotify")
  <2>1. <<"IdleNone", "RequestNext", "Busy">> \in Moves["leiosnotify"]
    BY DEF Moves, LeiosNotifyMoves, From
  <2> QED BY <2>1
<1>8. "RequestRange" \in Kinds("blockfetch")
  <2>1. <<"Idle", "RequestRange", "Busy">> \in Moves["blockfetch"]
    BY DEF Moves, BlockFetchMoves, From
  <2> QED BY <2>1
<1>9. "BlockRequest" \in Kinds("leiosfetch") /\ "BlockTxsRequest" \in Kinds("leiosfetch")
  <2>1. <<"IdleNone", "BlockRequest", "AwaitingBlock">> \in Moves["leiosfetch"]
    BY DEF Moves, LeiosFetchMoves, From
  <2>2. <<"IdleNone", "BlockTxsRequest", "AwaitingBlockTxs">> \in Moves["leiosfetch"]
    BY DEF Moves, LeiosFetchMoves, From
  <2> QED BY <2>1, <2>2
<1> HIDE DEF Kinds
<1> QED BY <1>2, <1>3, <1>4, <1>5, <1>6, <1>7, <1>8, <1>9
        DEF Asks, EbRequests, RequestRange, AllChannels

(* The behaviour's and the pool's state keep their type: a peer holds only *)
(* requests of its own protocols, a writer names a connection that exists, *)
(* and housekeeping visits tracked peers only.                             *)
THEOREM InitiatorTypeSafe == Spec => []TypeOK
<1>1. InitiatorInv => TypeOK
  <2> SUFFICES ASSUME InitiatorInv PROVE TypeOK
    OBVIOUS
  <2>1. GovernanceTypeOK /\ requests \in Seq(Ranges) /\ discovered \subseteq Peers
        /\ writers \in [Peers -> 0..Len(conns)] /\ sweep \subseteq known
    BY DEF InitiatorInv, GovernanceInv, BehaviorInv, BehaviorTypes, PoolTypes
  <2>2. ASSUME NEW p \in Peers
        PROVE  /\ peers[p].connection \in ConnectionStates
               /\ peers[p].in_flight \in Ranges \cup {None}
               /\ \A ch \in Channels : peers[p].unsent[ch] \in TaskSet \cup {NoMsg}
    <3>1. peers[p] \in PeerStates
      BY PeerFacts
    <3> QED BY <3>1, AsksAreTasks DEF PeerStates
  <2>3. ASSUME NEW c \in DOMAIN conns PROVE conns[c].tasks \in Seq(TaskSet \cup {Shutdown})
    <3>1. conns[c].tasks \in Seq(Asks \cup {Shutdown})
      BY ConnFacts DEF ConnStates
    <3> QED BY <3>1, AsksAreTasks
  <2> QED BY <2>1, <2>2, <2>3 DEF TypeOK
<1> QED BY <1>1, InitiatorInitInv, InitiatorStep, PTL DEF Spec

(* A requested block range is not lost, through every error, disconnect,   *)
(* re-include and stale event, on any number of peers and connections.     *)
THEOREM InitiatorLosesNoRange == Spec => []RangesNotLost
<1>1. InitiatorInv => RangesNotLost
  <2> SUFFICES ASSUME InitiatorInv, NEW r \in asked \ answered
               PROVE  (\E i \in DOMAIN requests : requests[i] = r) \/ RangeHolders(r) # {}
    BY DEF RangesNotLost
  <2>1. r \in Ranges /\ (InQueue(requests, r) \/ \E p \in known : Holds(peers[p], r))
    BY DEF InitiatorInv, BehaviorInv, BehaviorTypes, RangesSafe
  <2>2. ASSUME NEW p \in known, Holds(peers[p], r) PROVE p \in RangeHolders(r)
    <3>1. InQueue(RangesHeld(peers[p]), r)
      BY <2>1, <2>2, PeerFacts, HeldFacts
    <3> QED BY <3>1 DEF InQueue, RangeHolders
  <2> QED BY <2>1, <2>2 DEF InQueue
<1> QED BY <1>1, InitiatorInitInv, InitiatorStep, PTL DEF Spec

-----------------------------------------------------------------------------
(***************************************************************************)
(* Initiator: whose turn it is.  A request is decided on in a visitor,     *)
(* waits in the outbound queue, then in the tasks of a writer, and reaches *)
(* the peer steps later, while the peer's answers, write and read          *)
(* failures, disconnects and commands come in between.  The invariant      *)
(* AllTurns follows it through the queues: where a connection lasts, both  *)
(* ends are in the same protocol states, at most one request of a protocol *)
(* is under way, and only where the turn is the initiator's.               *)
(***************************************************************************)

(* The protocols of the Leios overlay.                                     *)
Leioses == {"leiosnotify", "leiosfetch"}

(* The near end's protocol state and the far end's agree, but for the      *)
(* data that the visitors of the near end have drained from it.            *)
Same(ch, near, far) ==
  \/ near = far
  \/ ch = "peersharing" /\ near = "Done" /\ far = "IdleResponse"
  \/ ch = "chainsync" /\ near = "IdleDrained" /\ far \in ChainSyncIdle
  \/ ch \in Leioses /\ near = "IdleNone" /\ far = "IdleSome"

(* The states in which the initiator has the turn: a request may be        *)
(* queued.                                                                 *)
Asking ==
  [handshake |-> {"Propose"}, keepalive |-> {"ClientEmpty", "ClientResponse"},
   peersharing |-> {"IdleEmpty"}, blockfetch |-> {"Idle"}, chainsync |-> ChainSyncIdle,
   txsubmission |-> {}, leiosnotify |-> {"IdleNone", "IdleSome"},
   leiosfetch |-> {"IdleNone", "IdleSome"}]

(* The lines of a queue: one for each protocol, and one for what opens     *)
(* and closes connections.  A token is what an entry means to one line of  *)
(* one peer, and a line is the queue with every entry replaced by its      *)
(* token.                                                                  *)
Keys == AllChannels \cup {"link"}
Tokens == Asks \cup {"connect", "ready"}
OutToken(p, ch) ==
  [o \in Outputs |->
     IF o.pid # p THEN <<>>
     ELSE IF o.do = "Send" THEN IF o.msg.ch = ch THEN <<o.msg>> ELSE <<>>
     ELSE IF ch = "link" /\ o.do = "Connect" THEN <<"connect">>
     ELSE IF ch = "link" /\ o.do = "Disconnect" THEN <<"ready">> ELSE <<>>]
TaskToken(ch) == [m \in Asks \cup {Shutdown} |-> IF m.ch = ch THEN <<m>> ELSE <<>>]
OutLine(p, ch, q) == FlatMap(OutToken(p, ch), q)
TaskLine(ch, q) == FlatMap(TaskToken(ch), q)
LinkLine(p, q) == OutLine(p, "link", q)

(* The version the near end believes it negotiated.                        *)
Version(s) ==
  IF s.proto["handshake"].at = "Accepted" THEN s.proto["handshake"].arg ELSE None

(* At most one request waits between the decision to send it and the       *)
(* socket, in a state that still asks, and the peer's unsent entry names   *)
(* it.                                                                     *)
Pending(sc, s, ch, line) ==
  line # <<>> =>
    /\ ch \in sc.channels /\ s.proto[ch].at \in Asking[ch]
    /\ ch \in Leioses => Version(s) = "leios"
    /\ \E m \in Asks : /\ m.ch = ch /\ line = <<m>>
                       /\ ch # "handshake" => s.unsent[ch] = m

(* The near end follows the far end, protocol by protocol.                 *)
Mirrored(sc, s, k) ==
  /\ k.remote["handshake"] = s.proto["handshake"]
  /\ \A ch \in sc.channels : Same(ch, s.proto[ch].at, k.remote[ch].at)

(* A peer that only says what its state allows is not accused.             *)
Innocent(sc, p, s) ==
  "IntersectNotFound" \notin sc.replies =>
    /\ p \notin sc.liars => ~s.violation
    /\ "chainsync" \in sc.channels => s.proto["chainsync"].at # "IdleNoIntersection"

(* The far end saw a Leios message only on a version that carries them.    *)
Negotiated(sc, k) ==
  \A ch \in sc.channels \cap Leioses : k.remote[ch].at # StartAt[ch] =>
     k.remote["handshake"].at = "Accepted" /\ k.remote["handshake"].arg = "leios"

(* A peer without a connection: its protocols are where they start, and    *)
(* no request to it is queued.                                             *)
Fresh(sc, p, s, out) ==
  /\ s.connection \in {"New", "Connecting", "Errored"}
  /\ s.proto = [ch \in sc.channels |-> Default(ch)]
  /\ \A ch \in AllChannels : OutLine(p, ch, out) = <<>>
  /\ Innocent(sc, p, s)

(* A peer whose connection k lasts.                                        *)
Upheld(sc, p, s, k, out) ==
  /\ s.connection \in {"Connected", "Initialized", "Errored"}
  /\ k.reading => Mirrored(sc, s, k)
  /\ k.writing => \A ch \in AllChannels :
                    Pending(sc, s, ch, TaskLine(ch, k.tasks) \o OutLine(p, ch, out))
  /\ Innocent(sc, p, s)

(* A connect to the peer is queued or under way.                           *)
Linking(fut, link) ==
  \/ \E i \in DOMAIN fut : fut[i] = "connect"
  \/ \E i \in DOMAIN link : link[i] = "connect"

(* Nothing is queued behind a connect: what follows it would meet the new  *)
(* connection.                                                             *)
ConnectLast(fut, link) ==
  /\ \A i \in DOMAIN fut : fut[i] = "connect" => i = Len(fut) /\ link = <<>>
  /\ \A i \in DOMAIN link : link[i] = "connect" => i = Len(link)

(* Before its one connection, a peer is fresh and has no writer; after a   *)
(* connect failed nothing connects it any more.                            *)
Apart(sc, p, s, w, fut, out) ==
  /\ Fresh(sc, p, s, out) /\ w = 0 /\ ConnectLast(fut, LinkLine(p, out))
  /\ Linking(fut, LinkLine(p, out)) => s.connection # "Errored"

(* With its one connection c, the peer's state is that of the connection   *)
(* for as long as the connection is not shut.                              *)
Live(sc, p, s, k, c, w, fut, out) ==
  /\ ~k.offended /\ Negotiated(sc, k) /\ ~Linking(fut, LinkLine(p, out))
  /\ w = IF k.shut THEN 0 ELSE c
  /\ ~k.shut => fut = <<>> /\ Upheld(sc, p, s, k, out)

(* What governance must keep for a peer not to be connected twice.         *)
Governed(s, t, linked, isKnown, isCold) ==
  /\ s.connection # "Disconnected"
  /\ t \in {"Warm", "Hot"} => ~isCold
  /\ linked => isKnown /\ ~isCold /\ (t \in {"Warm", "Hot"} => s.connection # "New")

(* The connections of peer p.                                              *)
ConnsOf(p, cs) == {c \in DOMAIN cs : cs[c].pid = p}

(* The turns of one peer: apart from the network, or live on its one       *)
(* connection, and governed accordingly.                                   *)
PeerTurns(p) ==
  /\ \/ /\ ConnsOf(p, conns) = {}
        /\ Apart(scene, p, peers[p], writers[p], futures[p], outbound)
     \/ \E c \in DOMAIN conns :
          /\ ConnsOf(p, conns) = {c}
          /\ Live(scene, p, peers[p], conns[c], c, writers[p], futures[p], outbound)
  /\ Governed(peers[p], tag[p],
              ConnsOf(p, conns) # {} \/ Linking(futures[p], LinkLine(p, outbound)),
              p \in known, p \in cold_peers)

(* The strengthening of NeverOffends, LeiosOnlyWhenNegotiated and          *)
(* AccusedOnlyWhenLate.                                                    *)
AllTurns == MaxConns = 1 => \A p \in Peers : PeerTurns(p)

-----------------------------------------------------------------------------
(* Queues whose elements mean something to one peer.                       *)

(* A token is a sequence of tokens, empty or of one.                       *)
LEMMA TokenFacts ==
  ASSUME NEW ch \in Keys
  PROVE  /\ \A p : MapsTo(OutToken(p, ch), Outputs, Seq(Tokens))
         /\ MapsTo(TaskToken(ch), Asks \cup {Shutdown}, Seq(Tokens))
<1>1. \A x \in Tokens : <<x>> \in Seq(Tokens)
  OBVIOUS
<1>2. <<>> \in Seq(Tokens)
  OBVIOUS
<1>3. \A o \in Outputs : o.do = "Send" => o.msg \in Tokens
  BY DEF Outputs, Tokens, Events
<1>4. "connect" \in Tokens /\ "ready" \in Tokens /\ Asks \subseteq Tokens
  BY DEF Tokens
<1>5. ASSUME NEW p, NEW o \in Outputs PROVE OutToken(p, ch)[o] \in Seq(Tokens)
  <2> HIDE DEF Tokens, Outputs
  <2> QED BY <1>1, <1>2, <1>3, <1>4 DEF OutToken
<1>6. ASSUME NEW m \in Asks \cup {Shutdown} PROVE TaskToken(ch)[m] \in Seq(Tokens)
  <2>1. ch # Shutdown.ch
    BY DEF Keys, AllChannels, Shutdown, Msg
  <2> HIDE DEF Tokens, Asks
  <2> QED BY <1>1, <1>2, <1>4, <2>1 DEF TaskToken
<1> QED BY <1>5, <1>6 DEF MapsTo

(* Every token of a queue is empty, all but one are, or one is found.      *)
LEMMA FlatMapEmpty ==
  ASSUME NEW S, NEW T, NEW g, MapsTo(g, S, Seq(T)), NEW s \in Seq(S),
         \A i \in DOMAIN s : g[s[i]] = <<>>
  PROVE  FlatMap(g, s) = <<>>
<1> DEFINE Q == {r \in Seq(S) : (\A i \in DOMAIN r : g[r[i]] = <<>>) => FlatMap(g, r) = <<>>}
<1>1. <<>> \in Q
  <2>1. FlatMap(g, <<>>) = <<>>
    <3>1. [i \in DOMAIN <<>> |-> g[<<>>[i]]] = <<>>
      OBVIOUS
    <3> QED BY <3>1, FlattenEmpty DEF FlatMap
  <2> QED BY <2>1
<1>2. ASSUME NEW r \in Q, NEW x \in S PROVE Append(r, x) \in Q
  <2>0. r \in Seq(S) /\ Append(r, x) \in Seq(S)
    OBVIOUS
  <2> SUFFICES ASSUME \A i \in DOMAIN Append(r, x) : g[Append(r, x)[i]] = <<>>
               PROVE  FlatMap(g, Append(r, x)) = <<>>
    BY <2>0, Zenon
  <2>1. \A i \in DOMAIN r : g[r[i]] = <<>>
    OBVIOUS
  <2>2. g[x] = <<>>
    <3>1. Len(r) + 1 \in DOMAIN Append(r, x) /\ Append(r, x)[Len(r) + 1] = x
      OBVIOUS
    <3> QED BY <3>1
  <2>3. FlatMap(g, r) = <<>>
    BY <2>1
  <2>4. FlatMap(g, Append(r, x)) = FlatMap(g, r) \o g[x]
    <3>1. r \in Seq(S)
      OBVIOUS
    <3> HIDE DEF Q
    <3> QED BY <3>1, FlatMapEnds
  <2> QED BY <2>2, <2>3, <2>4
<1> HIDE DEF Q
<1>3. Seq(S) \subseteq Q
  BY <1>1, <1>2, SeqInduct
<1> QED BY <1>3 DEF Q

(* A line to which one entry alone contributes is that entry's token.      *)
LEMMA FlatMapOnce ==
  ASSUME NEW S, NEW T, NEW g, MapsTo(g, S, Seq(T)), NEW s \in Seq(S), NEW k \in DOMAIN s,
         \A i \in DOMAIN s \ {k} : g[s[i]] = <<>>
  PROVE  FlatMap(g, s) = g[s[k]]
<1> DEFINE a == SubSeq(s, 1, k - 1)
<1> DEFINE b == SubSeq(s, 1, k)
<1> DEFINE c == SubSeq(s, k + 1, Len(s))
<1>0. k \in 1..Len(s) /\ Len(s) \in Nat /\ k \in 0..Len(s) /\ k - 1 \in 0..Len(s) /\ s[k] \in S
  OBVIOUS
<1>1. b \in Seq(S) /\ c \in Seq(S) /\ s = b \o c /\ Len(b) = k /\ \A i \in 1..k : b[i] = s[i]
  BY <1>0, SplitAt
<1>2. a \in Seq(S) /\ Len(a) = k - 1 /\ \A i \in 1..(k - 1) : a[i] = s[i]
  BY <1>0, SplitAt
<1>3. b = Append(a, s[k])
  <2> HIDE DEF a, b, c
  <2>1. Append(a, s[k]) \in Seq(S) /\ Len(Append(a, s[k])) = k
    BY <1>0, <1>2
  <2>2. \A i \in 1..k : Append(a, s[k])[i] = b[i]
    BY <1>0, <1>1, <1>2
  <2> QED BY <1>1, <2>1, <2>2, SeqEqual
<1>4. \A i \in DOMAIN c : c[i] = s[i + k] /\ i + k \in DOMAIN s \ {k}
  BY <1>0
<1>5. \A i \in DOMAIN a : a[i] = s[i] /\ i \in DOMAIN s \ {k}
  BY <1>0
<1> HIDE DEF a, b, c
<1>6. FlatMap(g, a) = <<>>
  BY <1>2, <1>5, FlatMapEmpty
<1>7. FlatMap(g, c) = <<>>
  <2>1. \A i \in DOMAIN c : g[c[i]] = <<>>
    BY <1>4
  <2> QED BY <1>1, <2>1, FlatMapEmpty
<1>8. FlatMap(g, b) = <<>> \o g[s[k]]
  <2>1. \A x \in S : FlatMap(g, Append(a, x)) = FlatMap(g, a) \o g[x]
    BY <1>2, FlatMapEnds
  <2> QED BY <1>0, <1>3, <1>6, <2>1
<1>9. FlatMap(g, s) = FlatMap(g, b) \o FlatMap(g, c)
  BY <1>1, FlatMapFacts
<1>10. g[s[k]] \in Seq(T)
  BY <1>0 DEF MapsTo
<1> QED BY <1>7, <1>8, <1>9, <1>10

(* What is found in a line comes from an entry of the queue.               *)
LEMMA FlatMapElement ==
  ASSUME NEW S, NEW T, NEW g, MapsTo(g, S, Seq(T)), NEW s \in Seq(S),
         NEW j \in DOMAIN FlatMap(g, s)
  PROVE  \E i \in DOMAIN s : \E n \in DOMAIN g[s[i]] : g[s[i]][n] = FlatMap(g, s)[j]
<1> DEFINE From1(r, x) == \E i \in DOMAIN r : \E n \in DOMAIN g[r[i]] : g[r[i]][n] = x
<1> DEFINE Q == {r \in Seq(S) : \A l \in DOMAIN FlatMap(g, r) : From1(r, FlatMap(g, r)[l])}
<1>1. <<>> \in Q
  <2>1. FlatMap(g, <<>>) = <<>>
    <3>1. [i \in DOMAIN <<>> |-> g[<<>>[i]]] = <<>>
      OBVIOUS
    <3> QED BY <3>1, FlattenEmpty DEF FlatMap
  <2> QED BY <2>1
<1>2. ASSUME NEW r \in Q, NEW x \in S PROVE Append(r, x) \in Q
  <2> DEFINE u == Append(r, x)
  <2> DEFINE f == FlatMap(g, r)
  <2>0. r \in Seq(S) /\ \A l \in DOMAIN f : From1(r, f[l])
    OBVIOUS
  <2>1. FlatMap(g, u) = f \o g[x] /\ f \in Seq(T) /\ g[x] \in Seq(T)
    <3>1. r \in Seq(S)
      BY <2>0
    <3> HIDE DEF Q, From1
    <3>2. \A y \in S : FlatMap(g, Append(r, y)) = FlatMap(g, r) \o g[y]
      BY <3>1, FlatMapEnds
    <3>3. FlatMap(g, r) \in Seq(T)
      BY <3>1, FlatMapFacts
    <3> QED BY <3>2, <3>3 DEF MapsTo
  <2>2. u \in Seq(S) /\ Len(r) + 1 \in DOMAIN u /\ u[Len(r) + 1] = x
        /\ \A i \in DOMAIN r : i \in DOMAIN u /\ u[i] = r[i]
    BY <2>0
  <2>3. \A y : From1(r, y) => From1(u, y)
    <3> HIDE DEF u
    <3> QED BY <2>2
  <2>4. \A n \in DOMAIN g[x] : From1(u, g[x][n])
    <3> HIDE DEF u
    <3> QED BY <2>2
  <2> HIDE DEF f, u, From1
  <2>5. ASSUME NEW l \in DOMAIN (f \o g[x]) PROVE From1(u, (f \o g[x])[l])
    <3> DEFINE e == g[x]
    <3>0. f \in Seq(T) /\ e \in Seq(T)
      BY <2>1
    <3> HIDE DEF e
    <3>1. /\ l \in 1..(Len(f) + Len(e)) /\ Len(f) \in Nat /\ Len(e) \in Nat
          /\ (f \o e)[l] = IF l <= Len(f) THEN f[l] ELSE e[l - Len(f)]
      BY <2>5, <3>0 DEF e
    <3>2. CASE l <= Len(f)
      <4>1. l \in DOMAIN f
        BY <3>0, <3>1, <3>2
      <4> QED BY <2>0, <2>3, <3>1, <3>2, <4>1 DEF e
    <3>3. CASE ~(l <= Len(f))
      <4>1. l - Len(f) \in DOMAIN e
        BY <3>0, <3>1, <3>3
      <4> QED BY <2>4, <3>1, <3>3, <4>1 DEF e
    <3> QED BY <3>2, <3>3
  <2> QED BY <2>1, <2>2, <2>5 DEF u
<1> HIDE DEF Q
<1>3. Seq(S) \subseteq Q
  BY <1>1, <1>2, SeqInduct
<1> QED BY <1>3 DEF Q, From1

(* One output more, and one less.                                          *)
LEMMA OutEnds ==
  ASSUME NEW q \in Seq(Outputs), NEW p, NEW ch \in Keys
  PROVE  /\ OutLine(p, ch, q) \in Seq(Tokens)
         /\ \A o \in Outputs :
              OutLine(p, ch, Append(q, o)) = OutLine(p, ch, q) \o OutToken(p, ch)[o]
         /\ q # <<>> =>
              OutLine(p, ch, q) = OutToken(p, ch)[Head(q)] \o OutLine(p, ch, Tail(q))
<1> DEFINE g == OutToken(p, ch)
<1>1. MapsTo(g, Outputs, Seq(Tokens))
  BY TokenFacts
<1> HIDE DEF g
<1>2. FlatMap(g, q) \in Seq(Tokens)
  BY <1>1, FlatMapFacts
<1>3. /\ \A o \in Outputs : FlatMap(g, Append(q, o)) = FlatMap(g, q) \o g[o]
      /\ q # <<>> => FlatMap(g, q) = g[Head(q)] \o FlatMap(g, Tail(q))
  BY <1>1, FlatMapEnds
<1> QED BY <1>2, <1>3 DEF OutLine, g

(* The same for the tasks of a writer.                                     *)
LEMMA TaskEnds ==
  ASSUME NEW q \in Seq(Asks \cup {Shutdown}), NEW ch \in Keys
  PROVE  /\ TaskLine(ch, q) \in Seq(Tokens)
         /\ \A m \in Asks \cup {Shutdown} :
              TaskLine(ch, Append(q, m)) = TaskLine(ch, q) \o TaskToken(ch)[m]
         /\ q # <<>> => TaskLine(ch, q) = TaskToken(ch)[Head(q)] \o TaskLine(ch, Tail(q))
<1> DEFINE g == TaskToken(ch)
<1> DEFINE S == Asks \cup {Shutdown}
<1>1. MapsTo(g, S, Seq(Tokens)) /\ q \in Seq(S)
  BY TokenFacts
<1> HIDE DEF g, S
<1>2. FlatMap(g, q) \in Seq(Tokens)
  BY <1>1, FlatMapFacts
<1>3. /\ \A o \in S : FlatMap(g, Append(q, o)) = FlatMap(g, q) \o g[o]
      /\ q # <<>> => FlatMap(g, q) = g[Head(q)] \o FlatMap(g, Tail(q))
  BY <1>1, FlatMapEnds
<1> QED BY <1>2, <1>3 DEF TaskLine, g, S

(* An empty queue has empty lines.                                         *)
LEMMA NoLines == \A p, ch : OutLine(p, ch, <<>>) = <<>> /\ TaskLine(ch, <<>>) = <<>>
<1>1. \A g : FlatMap(g, <<>>) = <<>>
  <2> SUFFICES ASSUME NEW g PROVE FlatMap(g, <<>>) = <<>>
    OBVIOUS
  <2>1. [i \in DOMAIN <<>> |-> g[<<>>[i]]] = <<>>
    OBVIOUS
  <2> QED BY <2>1, FlattenEmpty DEF FlatMap
<1> QED BY <1>1 DEF OutLine, TaskLine

(* What the outputs mean.                                                  *)
LEMMA OutTokens ==
  ASSUME NEW p, NEW ch \in Keys
  PROVE  /\ \A o \in Outputs : o.pid # p => OutToken(p, ch)[o] = <<>>
         /\ \A o \in Outputs : o.pid = p /\ o.do = "Send" =>
              OutToken(p, ch)[o] = IF o.msg.ch = ch THEN <<o.msg>> ELSE <<>>
         /\ \A o \in Outputs : o.pid = p /\ o.do = "Connect" =>
              OutToken(p, ch)[o] = IF ch = "link" THEN <<"connect">> ELSE <<>>
         /\ \A o \in Outputs : o.pid = p /\ o.do = "Disconnect" =>
              OutToken(p, ch)[o] = IF ch = "link" THEN <<"ready">> ELSE <<>>
         /\ \A o \in Outputs : o.do \notin {"Send", "Connect", "Disconnect"} =>
              OutToken(p, ch)[o] = <<>>
<1> HIDE DEF Outputs
<1> QED BY DEF OutToken

(* What the tasks of a writer mean.                                        *)
LEMMA TaskTokens ==
  ASSUME NEW ch \in Keys
  PROVE  /\ \A m \in Asks : TaskToken(ch)[m] = IF m.ch = ch THEN <<m>> ELSE <<>>
         /\ TaskToken(ch)[Shutdown] = <<>>
<1>1. ch # Shutdown.ch
  BY DEF Keys, AllChannels, Shutdown, Msg
<1> HIDE DEF Asks
<1> QED BY <1>1 DEF TaskToken

(* To peer p the queues a and b are the same.                              *)
SameLines(p, a, b) == \A ch \in Keys : OutLine(p, ch, a) = OutLine(p, ch, b)

(* An output is pushed.                                                    *)
LEMMA PushLines ==
  ASSUME NEW q \in Seq(Outputs), NEW o \in Outputs
  PROVE  /\ \A p : p # o.pid => SameLines(p, Append(q, o), q)
         /\ o.do \notin {"Send", "Connect", "Disconnect"} =>
              \A p : SameLines(p, Append(q, o), q)
         /\ o.do \in {"Connect", "Disconnect"} => \A p : \A ch \in AllChannels :
              OutLine(p, ch, Append(q, o)) = OutLine(p, ch, q)
         /\ o.do = "Connect" =>
              LinkLine(o.pid, Append(q, o)) = Append(LinkLine(o.pid, q), "connect")
         /\ o.do = "Disconnect" =>
              LinkLine(o.pid, Append(q, o)) = Append(LinkLine(o.pid, q), "ready")
         /\ o.do = "Send" => \A ch \in Keys :
              OutLine(o.pid, ch, Append(q, o)) =
                IF o.msg.ch = ch THEN Append(OutLine(o.pid, ch, q), o.msg)
                                 ELSE OutLine(o.pid, ch, q)
<1>1. \A p : \A ch \in Keys :
        /\ OutLine(p, ch, q) \in Seq(Tokens)
        /\ OutLine(p, ch, Append(q, o)) = OutLine(p, ch, q) \o OutToken(p, ch)[o]
  BY OutEnds
<1>2. \A l \in Seq(Tokens) : l \o <<>> = l /\ \A x \in Tokens : l \o <<x>> = Append(l, x)
  OBVIOUS
<1>3. /\ "connect" \in Tokens /\ "ready" \in Tokens /\ "link" \in Keys
      /\ AllChannels \subseteq Keys /\ "link" \notin AllChannels
      /\ o.do = "Send" => o.msg \in Tokens
  <2>1. o.do = "Send" => o.msg \in Asks
    BY DEF Outputs, Events
  <2>2. "link" \notin AllChannels
    BY DEF AllChannels
  <2> QED BY <2>1, <2>2 DEF Tokens, Keys
<1> HIDE DEF Tokens, Keys, AllChannels, Outputs
<1>4. ASSUME NEW p, NEW ch \in Keys, OutToken(p, ch)[o] = <<>>
      PROVE  OutLine(p, ch, Append(q, o)) = OutLine(p, ch, q)
  BY <1>1, <1>2, <1>4
<1>5. ASSUME NEW p, NEW ch \in Keys, NEW x \in Tokens, OutToken(p, ch)[o] = <<x>>
      PROVE  OutLine(p, ch, Append(q, o)) = Append(OutLine(p, ch, q), x)
  <2> DEFINE l == OutLine(p, ch, q)
  <2>1. l \in Seq(Tokens) /\ OutLine(p, ch, Append(q, o)) = l \o <<x>>
    BY <1>1, <1>5
  <2> HIDE DEF l
  <2>2. l \o <<x>> = Append(l, x)
    BY <2>1
  <2> QED BY <2>1, <2>2 DEF l
<1>6. \A p : p # o.pid => SameLines(p, Append(q, o), q)
  BY <1>4, OutTokens DEF SameLines
<1>7. o.do \notin {"Send", "Connect", "Disconnect"} => \A p : SameLines(p, Append(q, o), q)
  BY <1>4, OutTokens DEF SameLines
<1>8. ASSUME o.do \in {"Connect", "Disconnect"}, NEW p, NEW ch \in AllChannels
      PROVE  OutLine(p, ch, Append(q, o)) = OutLine(p, ch, q)
  <2>1. ch \in Keys /\ ch # "link"
    BY <1>3
  <2>2. OutToken(p, ch)[o] = <<>>
    BY <1>8, <2>1, OutTokens
  <2> QED BY <1>4, <2>1, <2>2
<1>9. ASSUME o.do \in {"Connect", "Disconnect"}
      PROVE  LinkLine(o.pid, Append(q, o)) =
               Append(LinkLine(o.pid, q), IF o.do = "Connect" THEN "connect" ELSE "ready")
  <2>1. OutToken(o.pid, "link")[o] = <<IF o.do = "Connect" THEN "connect" ELSE "ready">>
    BY <1>3, <1>9, OutTokens
  <2> QED BY <1>3, <1>5, <2>1 DEF LinkLine
<1>10. ASSUME o.do = "Send", NEW ch \in Keys
       PROVE  OutLine(o.pid, ch, Append(q, o)) =
                IF o.msg.ch = ch THEN Append(OutLine(o.pid, ch, q), o.msg)
                                 ELSE OutLine(o.pid, ch, q)
  <2>1. OutToken(o.pid, ch)[o] = IF o.msg.ch = ch THEN <<o.msg>> ELSE <<>>
    BY <1>10, OutTokens
  <2> QED BY <1>3, <1>4, <1>5, <1>10, <2>1
<1> QED BY <1>6, <1>7, <1>8, <1>9, <1>10

(* The first output leaves the queue.                                      *)
LEMMA HeadLines ==
  ASSUME NEW q \in Seq(Outputs), q # <<>>
  PROVE  LET o == Head(q)
         IN  /\ o \in Outputs /\ Tail(q) \in Seq(Outputs)
             /\ \A p : p # o.pid => SameLines(p, Tail(q), q)
             /\ o.do \notin {"Send", "Connect", "Disconnect"} =>
                  \A p : SameLines(p, Tail(q), q)
             /\ o.do \in {"Connect", "Disconnect"} => \A p : \A ch \in AllChannels :
                  OutLine(p, ch, Tail(q)) = OutLine(p, ch, q)
             /\ o.do = "Connect" =>
                  LinkLine(o.pid, q) = <<"connect">> \o LinkLine(o.pid, Tail(q))
             /\ o.do = "Disconnect" =>
                  LinkLine(o.pid, q) = <<"ready">> \o LinkLine(o.pid, Tail(q))
             /\ o.do = "Send" => \A ch \in Keys :
                  OutLine(o.pid, ch, q) =
                    IF o.msg.ch = ch THEN <<o.msg>> \o OutLine(o.pid, ch, Tail(q))
                                     ELSE OutLine(o.pid, ch, Tail(q))
<1> DEFINE o == Head(q)
<1> DEFINE r == Tail(q)
<1>0. o \in Outputs /\ r \in Seq(Outputs)
  OBVIOUS
<1>1. \A p : \A ch \in Keys :
        /\ OutLine(p, ch, r) \in Seq(Tokens)
        /\ OutLine(p, ch, q) = OutToken(p, ch)[o] \o OutLine(p, ch, r)
  BY <1>0, OutEnds
<1>2. \A l \in Seq(Tokens) : <<>> \o l = l
  OBVIOUS
<1>3. /\ "link" \in Keys /\ AllChannels \subseteq Keys /\ "link" \notin AllChannels
  BY DEF Keys, AllChannels
<1> HIDE DEF Tokens, Keys, AllChannels, Outputs, o, r
<1>4. ASSUME NEW p, NEW ch \in Keys, OutToken(p, ch)[o] = <<>>
      PROVE  OutLine(p, ch, r) = OutLine(p, ch, q)
  BY <1>1, <1>2, <1>4
<1>6. \A p : p # o.pid => SameLines(p, r, q)
  BY <1>0, <1>4, OutTokens DEF SameLines
<1>7. o.do \notin {"Send", "Connect", "Disconnect"} => \A p : SameLines(p, r, q)
  BY <1>0, <1>4, OutTokens DEF SameLines
<1>8. ASSUME o.do \in {"Connect", "Disconnect"}, NEW p, NEW ch \in AllChannels
      PROVE  OutLine(p, ch, r) = OutLine(p, ch, q)
  <2>1. ch \in Keys /\ ch # "link"
    BY <1>3
  <2>2. OutToken(p, ch)[o] = <<>>
    BY <1>0, <1>8, <2>1, OutTokens
  <2> QED BY <1>4, <2>1, <2>2
<1>9. ASSUME o.do \in {"Connect", "Disconnect"}
      PROVE  LinkLine(o.pid, q) =
               <<IF o.do = "Connect" THEN "connect" ELSE "ready">> \o LinkLine(o.pid, r)
  <2>1. OutToken(o.pid, "link")[o] = <<IF o.do = "Connect" THEN "connect" ELSE "ready">>
    BY <1>0, <1>3, <1>9, OutTokens
  <2> QED BY <1>1, <1>3, <2>1 DEF LinkLine
<1>10. ASSUME o.do = "Send", NEW ch \in Keys
       PROVE  OutLine(o.pid, ch, q) =
                IF o.msg.ch = ch THEN <<o.msg>> \o OutLine(o.pid, ch, r)
                                 ELSE OutLine(o.pid, ch, r)
  <2>1. OutToken(o.pid, ch)[o] = IF o.msg.ch = ch THEN <<o.msg>> ELSE <<>>
    BY <1>0, <1>10, OutTokens
  <2> QED BY <1>1, <1>4, <1>10, <2>1
<1> QED BY <1>0, <1>6, <1>7, <1>8, <1>9, <1>10 DEF o, r

-----------------------------------------------------------------------------
(* The tables of the mini-protocols.                                       *)

(* A state and a message determine the next state.                         *)
LEMMA MovesOnce ==
  ASSUME NEW ch \in AllChannels, NEW t \in Moves[ch], NEW u \in Moves[ch],
         t[1] = u[1], t[2] = u[2]
  PROVE  t[3] = u[3]
<1>1. CASE ch = "handshake"
  BY <1>1 DEF Moves, HandshakeMoves, From
<1>2. CASE ch = "keepalive"
  BY <1>2 DEF Moves, KeepAliveMoves, From
<1>3. CASE ch = "peersharing"
  BY <1>3 DEF Moves, PeerSharingMoves, From
<1>4. CASE ch = "blockfetch"
  BY <1>4 DEF Moves, BlockFetchMoves, From
<1>5. CASE ch = "chainsync"
  BY <1>5 DEF Moves, ChainSyncMoves, ChainSyncIdle, From
<1>6. CASE ch = "txsubmission"
  BY <1>6 DEF Moves, TxSubmissionMoves, From
<1>7. CASE ch = "leiosnotify"
  BY <1>7 DEF Moves, LeiosNotifyMoves, From
<1>8. CASE ch = "leiosfetch"
  BY <1>8 DEF Moves, LeiosFetchMoves, From
<1> QED BY <1>1, <1>2, <1>3, <1>4, <1>5, <1>6, <1>7, <1>8 DEF AllChannels

(* Where the client asks, the server says nothing.                         *)
LEMMA ServerSilent ==
  ASSUME NEW ch \in AllChannels, NEW t \in Moves[ch], t[2] \in ServerKinds[ch]
  PROVE  /\ t[1] \notin Asking[ch] /\ (ch = "handshake" => t[1] = "Confirm")
         /\ ch = "chainsync" /\ t[3] = "IdleNoIntersection" => t[2] = "IntersectNotFound"
<1>1. CASE ch = "handshake"
  BY <1>1 DEF Moves, HandshakeMoves, From, ServerKinds, Asking
<1>2. CASE ch = "keepalive"
  BY <1>2 DEF Moves, KeepAliveMoves, From, ServerKinds, Asking
<1>3. CASE ch = "peersharing"
  BY <1>3 DEF Moves, PeerSharingMoves, From, ServerKinds, Asking
<1>4. CASE ch = "blockfetch"
  BY <1>4 DEF Moves, BlockFetchMoves, From, ServerKinds, Asking
<1>5. CASE ch = "chainsync"
  BY <1>5 DEF Moves, ChainSyncMoves, ChainSyncIdle, From, ServerKinds, Asking
<1>6. CASE ch = "txsubmission"
  BY <1>6 DEF Moves, TxSubmissionMoves, From, ServerKinds, Asking
<1>7. CASE ch = "leiosnotify"
  BY <1>7 DEF Moves, LeiosNotifyMoves, From, ServerKinds, Asking
<1>8. CASE ch = "leiosfetch"
  BY <1>8 DEF Moves, LeiosFetchMoves, From, ServerKinds, Asking
<1> QED BY <1>1, <1>2, <1>3, <1>4, <1>5, <1>6, <1>7, <1>8 DEF AllChannels

(* Where near and far state differ, neither has a move of the server.      *)
LEMMA DrainedSilent ==
  ASSUME NEW ch \in AllChannels, NEW near, NEW far, Same(ch, near, far), near # far,
         NEW t \in Moves[ch], t[2] \in ServerKinds[ch]
  PROVE  t[1] # near /\ t[1] # far
<1>1. CASE ch = "handshake"
  BY <1>1 DEF Moves, HandshakeMoves, From, ServerKinds, Same, Leioses
<1>2. CASE ch = "keepalive"
  BY <1>2 DEF Moves, KeepAliveMoves, From, ServerKinds, Same, Leioses
<1>3. CASE ch = "peersharing"
  BY <1>3 DEF Moves, PeerSharingMoves, From, ServerKinds, Same, Leioses
<1>4. CASE ch = "blockfetch"
  BY <1>4 DEF Moves, BlockFetchMoves, From, ServerKinds, Same, Leioses
<1>5. CASE ch = "chainsync"
  BY <1>5 DEF Moves, ChainSyncMoves, ChainSyncIdle, From, ServerKinds, Same, Leioses
<1>6. CASE ch = "txsubmission"
  BY <1>6 DEF Moves, TxSubmissionMoves, From, ServerKinds, Same, Leioses
<1>7. CASE ch = "leiosnotify"
  BY <1>7 DEF Moves, LeiosNotifyMoves, From, ServerKinds, Same, Leioses
<1>8. CASE ch = "leiosfetch"
  BY <1>8 DEF Moves, LeiosFetchMoves, From, ServerKinds, Same, Leioses
<1> QED BY <1>1, <1>2, <1>3, <1>4, <1>5, <1>6, <1>7, <1>8 DEF AllChannels

(* What is asked, and from where.                                          *)
AskKinds ==
  [handshake |-> {"Propose"}, keepalive |-> {"KeepAlive"}, peersharing |-> {"ShareRequest"},
   blockfetch |-> {"RequestRange"}, chainsync |-> {"RequestNext", "FindIntersect"},
   txsubmission |-> {}, leiosnotify |-> {"RequestNext"},
   leiosfetch |-> {"BlockRequest", "BlockTxsRequest"}]

(* The shape of a request.                                                 *)
LEMMA AsksKinds ==
  ASSUME NEW m \in Asks
  PROVE  /\ m.ch \in AllChannels /\ m.kind \in AskKinds[m.ch] /\ m # NoMsg
         /\ m = Msg(m.ch, m.kind, m.arg) /\ m.ch # "link"
         /\ m.ch # "handshake" => IsRequest(m)
         /\ m.ch \notin {"blockfetch", "leiosfetch"} => m.arg = None
<1>1. CASE m \in EbRequests
  BY <1>1 DEF EbRequests, Msg, AllChannels, AskKinds, NoMsg, None, IsRequest, Requests
<1>2. CASE m \in {RequestRange(r) : r \in Ranges}
  BY <1>2 DEF RequestRange, Msg, AllChannels, AskKinds, NoMsg, None, IsRequest, Requests
<1>3. CASE m \in {Msg("handshake", "Propose", None), Msg("keepalive", "KeepAlive", None),
                  Msg("peersharing", "ShareRequest", None), Msg("chainsync", "RequestNext", None),
                  Msg("chainsync", "FindIntersect", None), Msg("leiosnotify", "RequestNext", None)}
  BY <1>3 DEF Msg, AllChannels, AskKinds, NoMsg, None, IsRequest, Requests
<1> QED BY <1>1, <1>2, <1>3 DEF Asks

(* Where the turn is the initiator's, both ends take the request.          *)
LEMMA AskMoves ==
  ASSUME NEW ch \in AllChannels, NEW kind \in AskKinds[ch], NEW near, NEW far,
         near \in Asking[ch], Same(ch, near, far)
  PROVE  /\ \E t \in Moves[ch] : t[1] = near /\ t[2] = kind
         /\ \E t \in Moves[ch] : t[1] = far /\ t[2] = kind
<1> DEFINE Goes(x) == \E t \in Moves[ch] : t[1] = x /\ t[2] = kind
<1>0. ASSUME NEW x, NEW z, <<x, kind, z>> \in Moves[ch] PROVE Goes(x)
  <2> DEFINE t == <<x, kind, z>>
  <2>1. t \in Moves[ch] /\ t[1] = x /\ t[2] = kind
    BY <1>0
  <2> QED BY <2>1
<1> HIDE DEF Goes
<1>1. CASE ch = "handshake"
  <2>1. near = "Propose" /\ far = "Propose" /\ kind = "Propose"
    BY <1>1 DEF Asking, Same, Leioses, AskKinds
  <2>2. <<"Propose", "Propose", "Confirm">> \in Moves[ch]
    BY <1>1 DEF Moves, HandshakeMoves, From
  <2> QED BY <1>0, <2>1, <2>2 DEF Goes
<1>2. CASE ch = "keepalive"
  <2>1. near \in {"ClientEmpty", "ClientResponse"} /\ far = near /\ kind = "KeepAlive"
    BY <1>2 DEF Asking, Same, Leioses, AskKinds
  <2>2. <<near, "KeepAlive", "Server">> \in Moves[ch]
    BY <1>2, <2>1 DEF Moves, KeepAliveMoves, From
  <2> QED BY <1>0, <2>1, <2>2 DEF Goes
<1>3. CASE ch = "peersharing"
  <2>1. near = "IdleEmpty" /\ far = near /\ kind = "ShareRequest"
    BY <1>3 DEF Asking, Same, Leioses, AskKinds
  <2>2. <<near, "ShareRequest", "Busy">> \in Moves[ch]
    BY <1>3, <2>1 DEF Moves, PeerSharingMoves, From
  <2> QED BY <1>0, <2>1, <2>2 DEF Goes
<1>4. CASE ch = "blockfetch"
  <2>1. near = "Idle" /\ far = near /\ kind = "RequestRange"
    BY <1>4 DEF Asking, Same, Leioses, AskKinds
  <2>2. <<near, "RequestRange", "Busy">> \in Moves[ch]
    BY <1>4, <2>1 DEF Moves, BlockFetchMoves, From
  <2> QED BY <1>0, <2>1, <2>2 DEF Goes
<1>5. CASE ch = "chainsync"
  <2>1. near \in ChainSyncIdle /\ far \in ChainSyncIdle /\ kind \in {"RequestNext", "FindIntersect"}
    BY <1>5 DEF Asking, Same, Leioses, AskKinds
  <2>2. \A x \in ChainSyncIdle : /\ <<x, "RequestNext", "CanAwait">> \in Moves[ch]
                                 /\ <<x, "FindIntersect", "Intersect">> \in Moves[ch]
    BY <1>5 DEF Moves, ChainSyncMoves, From
  <2>3. \A x \in ChainSyncIdle : Goes(x)
    BY <1>0, <2>1, <2>2
  <2> QED BY <2>1, <2>3 DEF Goes
<1>6. CASE ch = "leiosnotify"
  <2>1. near \in {"IdleNone", "IdleSome"} /\ far \in {"IdleNone", "IdleSome"} /\ kind = "RequestNext"
    BY <1>6 DEF Asking, Same, Leioses, AskKinds
  <2>2. \A x \in {"IdleNone", "IdleSome"} : <<x, "RequestNext", "Busy">> \in Moves[ch]
    BY <1>6 DEF Moves, LeiosNotifyMoves, From
  <2> QED BY <1>0, <2>1, <2>2 DEF Goes
<1>7. CASE ch = "leiosfetch"
  <2>1. near \in {"IdleNone", "IdleSome"} /\ far \in {"IdleNone", "IdleSome"}
        /\ kind \in {"BlockRequest", "BlockTxsRequest"}
    BY <1>7 DEF Asking, Same, Leioses, AskKinds
  <2>2. \A x \in {"IdleNone", "IdleSome"} : /\ <<x, "BlockRequest", "AwaitingBlock">> \in Moves[ch]
                                            /\ <<x, "BlockTxsRequest", "AwaitingBlockTxs">> \in Moves[ch]
    BY <1>7 DEF Moves, LeiosFetchMoves, From
  <2>3. \A x \in {"IdleNone", "IdleSome"} : Goes(x)
    BY <1>0, <2>1, <2>2
  <2> QED BY <2>1, <2>3 DEF Goes
<1>8. ch # "txsubmission"
  BY DEF AskKinds
<1> QED BY <1>1, <1>2, <1>3, <1>4, <1>5, <1>6, <1>7, <1>8 DEF AllChannels

(* What is asked leads to one state, and is accepted where it may be asked *)
(* (a peer that shared its peers is not asked again).                      *)
LEMMA AskLeads ==
  ASSUME NEW ch \in AllChannels, NEW kind \in AskKinds[ch],
         NEW t \in Moves[ch], t[2] = kind
  PROVE  /\ \A u \in Moves[ch] : u[2] = kind => u[3] = t[3]
         /\ t[1] \in Asking[ch] \/ ch = "peersharing"
         /\ t[3] # "IdleNoIntersection"
<1>1. CASE ch = "handshake"
  BY <1>1 DEF Moves, HandshakeMoves, From, AskKinds, Asking
<1>2. CASE ch = "keepalive"
  BY <1>2 DEF Moves, KeepAliveMoves, From, AskKinds, Asking
<1>3. CASE ch = "peersharing"
  BY <1>3 DEF Moves, PeerSharingMoves, From, AskKinds, Asking
<1>4. CASE ch = "blockfetch"
  BY <1>4 DEF Moves, BlockFetchMoves, From, AskKinds, Asking
<1>5. CASE ch = "chainsync"
  BY <1>5 DEF Moves, ChainSyncMoves, ChainSyncIdle, From, AskKinds, Asking
<1>6. CASE ch = "txsubmission"
  BY <1>6 DEF Moves, TxSubmissionMoves, From, AskKinds, Asking
<1>7. CASE ch = "leiosnotify"
  BY <1>7 DEF Moves, LeiosNotifyMoves, From, AskKinds, Asking
<1>8. CASE ch = "leiosfetch"
  BY <1>8 DEF Moves, LeiosFetchMoves, From, AskKinds, Asking
<1> QED BY <1>1, <1>2, <1>3, <1>4, <1>5, <1>6, <1>7, <1>8 DEF AllChannels

-----------------------------------------------------------------------------
(* State::apply at the two ends of a connection.                           *)

(* An applied message is a transition of the protocol's table.             *)
LEMMA AppliedAt ==
  ASSUME NEW s, NEW m, CanApply(s, m)
  PROVE  \E t \in Moves[m.ch] : t[1] = s.at /\ t[2] = m.kind /\ Apply(s, m).at = t[3]
<1> DEFINE P(u) == u[1] = s.at /\ u[2] = m.kind
<1> DEFINE t == CHOOSE u \in Moves[m.ch] : P(u)
<1>1. t \in Moves[m.ch] /\ P(t)
  <2>1. \E u \in Moves[m.ch] : P(u)
    BY DEF CanApply
  <2> QED BY <2>1
<1>2. Apply(s, m) = [at |-> t[3],
                     arg |-> IF m.ch = "leiosfetch" /\ m.kind \in {"Block", "BlockTxs"}
                               THEN s.arg ELSE m.arg]
  BY DEF Apply
<1> HIDE DEF t
<1> QED BY <1>1, <1>2

(* A request that is asked where it may be is accepted at both ends.       *)
LEMMA AskApplied ==
  ASSUME NEW m \in Asks, NEW a, NEW b, a.at \in Asking[m.ch], Same(m.ch, a.at, b.at)
  PROVE  /\ CanApply(a, m) /\ CanApply(b, m) /\ Apply(a, m).at = Apply(b, m).at
         /\ Apply(a, m).at # "IdleNoIntersection"
<1>1. m.ch \in AllChannels /\ m.kind \in AskKinds[m.ch]
  BY AsksKinds
<1>2. CanApply(a, m) /\ CanApply(b, m)
  BY <1>1, AskMoves DEF CanApply
<1>3. PICK t \in Moves[m.ch] : t[1] = a.at /\ t[2] = m.kind /\ Apply(a, m).at = t[3]
  BY <1>2, AppliedAt
<1>4. PICK u \in Moves[m.ch] : u[1] = b.at /\ u[2] = m.kind /\ Apply(b, m).at = u[3]
  BY <1>2, AppliedAt
<1>5. t[3] = u[3] /\ t[3] # "IdleNoIntersection"
  BY <1>1, <1>3, <1>4, AskLeads
<1> QED BY <1>2, <1>3, <1>4, <1>5

(* A message of the server is accepted at both ends or at none.            *)
LEMMA ReplyApplied ==
  ASSUME NEW m, m.ch \in AllChannels, m.kind \in ServerKinds[m.ch], NEW a, NEW b,
         Same(m.ch, a.at, b.at), CanApply(a, m) \/ CanApply(b, m)
  PROVE  /\ a.at = b.at /\ CanApply(a, m) /\ CanApply(b, m)
         /\ Apply(a, m).at = Apply(b, m).at
<1>1. a.at = b.at
  BY DrainedSilent DEF CanApply
<1>2. CanApply(a, m) /\ CanApply(b, m)
  BY <1>1 DEF CanApply
<1>3. PICK t \in Moves[m.ch] : t[1] = a.at /\ t[2] = m.kind /\ Apply(a, m).at = t[3]
  BY <1>2, AppliedAt
<1>4. PICK u \in Moves[m.ch] : u[1] = b.at /\ u[2] = m.kind /\ Apply(b, m).at = u[3]
  BY <1>2, AppliedAt
<1>5. t[3] = u[3]
  BY <1>1, <1>3, <1>4, MovesOnce
<1> QED BY <1>1, <1>2, <1>3, <1>4, <1>5

(* It comes where the client does not ask.                                 *)
LEMMA ReplyFrom ==
  ASSUME NEW m, m.ch \in AllChannels, m.kind \in ServerKinds[m.ch], NEW a, CanApply(a, m)
  PROVE  /\ a.at \notin Asking[m.ch] /\ (m.ch = "handshake" => a.at = "Confirm")
         /\ m.ch = "chainsync" /\ Apply(a, m).at = "IdleNoIntersection"
              => m.kind = "IntersectNotFound"
<1>1. PICK t \in Moves[m.ch] : t[1] = a.at /\ t[2] = m.kind /\ Apply(a, m).at = t[3]
  BY AppliedAt
<1> QED BY <1>1, ServerSilent

-----------------------------------------------------------------------------
(* What the visitors make of a peer that has a connection, or has none.    *)

(* A visitor of peer p that turns the context x into y disturbs no other   *)
(* peer, opens and closes no connection, and keeps what the state was.     *)
Safe(p, x, y) ==
  /\ ContextOK(y)
  /\ \A q \in Peers \ {p} : SameLines(q, y.out, x.out)
  /\ LinkLine(p, y.out) = LinkLine(p, x.out)
  /\ y.s.connection = x.s.connection \/ y.s.connection = "Initialized"
  /\ \A k \in ConnStates : Upheld(scene, p, x.s, k, x.out) => Upheld(scene, p, y.s, k, y.out)
  /\ Fresh(scene, p, x.s, x.out) => Fresh(scene, p, y.s, y.out)

(* Visitors run one after the other.                                       *)
LEMMA SafeComposes ==
  ASSUME NEW p \in Peers
  PROVE  /\ \A x : ContextOK(x) => Safe(p, x, x)
         /\ \A x, y, z : Safe(p, x, y) /\ Safe(p, y, z) => Safe(p, x, z)
<1>1. ASSUME NEW x, ContextOK(x) PROVE Safe(p, x, x)
  BY <1>1 DEF Safe, SameLines
<1>2. ASSUME NEW x, NEW y, NEW z, Safe(p, x, y), Safe(p, y, z) PROVE Safe(p, x, z)
  <2>1. \A q \in Peers \ {p} : SameLines(q, z.out, x.out)
    BY <1>2 DEF Safe, SameLines
  <2> QED BY <1>2, <2>1 DEF Safe
<1> QED BY <1>1, <1>2

(* The lines of a peer are what its turns depend on.                       *)
LEMMA UpheldSame ==
  ASSUME NEW p, NEW s, NEW r, NEW k, NEW a, NEW b, SameLines(p, a, b),
         r.connection = s.connection \/ r.connection = "Initialized",
         r.proto = s.proto, r.unsent = s.unsent, r.violation = s.violation
  PROVE  /\ Upheld(scene, p, s, k, b) => Upheld(scene, p, r, k, a)
         /\ Fresh(scene, p, s, b) /\ r.connection = s.connection => Fresh(scene, p, r, a)
<1>1. \A ch \in AllChannels : OutLine(p, ch, a) = OutLine(p, ch, b)
  BY DEF SameLines, Keys
<1>2. \A ch, line : Pending(scene, s, ch, line) => Pending(scene, r, ch, line)
  BY DEF Pending, Version
<1>3. Mirrored(scene, s, k) => Mirrored(scene, r, k)
  BY DEF Mirrored
<1>4. Innocent(scene, p, s) => Innocent(scene, p, r)
  BY DEF Innocent
<1> HIDE DEF Pending, Mirrored, Innocent
<1> QED BY <1>1, <1>2, <1>3, <1>4 DEF Upheld, Fresh

(* A visitor that leaves the connection, the protocols and the queues      *)
(* alone is safe.                                                          *)
LEMMA SafeSame ==
  ASSUME NEW p \in Peers, NEW x, NEW y, ContextOK(y), y.out = x.out,
         y.s.connection = x.s.connection, y.s.proto = x.s.proto, y.s.unsent = x.s.unsent,
         y.s.violation = x.s.violation
  PROVE  Safe(p, x, y)
<1>1. \A q : SameLines(q, y.out, x.out)
  BY DEF SameLines
<1>2. \A k : Upheld(scene, p, x.s, k, x.out) => Upheld(scene, p, y.s, k, y.out)
  BY <1>1, UpheldSame
<1>3. Fresh(scene, p, x.s, x.out) => Fresh(scene, p, y.s, y.out)
  BY <1>1, UpheldSame
<1> QED BY <1>1, <1>2, <1>3 DEF Safe

(* An event is told.                                                       *)
LEMMA SafeTold ==
  ASSUME NEW p \in Peers, NEW x, ContextOK(x), NEW name \in Events
  PROVE  Safe(p, x, Push(x, Event(p, name))) /\ Push(x, Event(p, name)).s = x.s
<1> DEFINE o == Event(p, name)
<1> DEFINE y == Push(x, o)
<1>1. o \in Outputs /\ o.do \notin {"Send", "Connect", "Disconnect"}
  BY OutputFacts DEF Event, Events
<1>2. x.out \in Seq(Outputs) /\ y.out = Append(x.out, o)
  BY DEF ContextOK, Contexts, Push
<1>3. ContextOK(y) /\ y.s = x.s
  BY <1>1, PushOK
<1> HIDE DEF o, y
<1>4. \A q : SameLines(q, y.out, x.out)
  BY <1>1, <1>2, PushLines
<1>5. LinkLine(p, y.out) = LinkLine(p, x.out)
  BY <1>4 DEF SameLines, LinkLine, Keys
<1>6. \A k : Upheld(scene, p, x.s, k, x.out) => Upheld(scene, p, y.s, k, y.out)
  BY <1>3, <1>4, UpheldSame
<1>7. Fresh(scene, p, x.s, x.out) => Fresh(scene, p, y.s, y.out)
  BY <1>3, <1>4, UpheldSame
<1> QED BY <1>3, <1>4, <1>5, <1>6, <1>7 DEF Safe, o, y

(* The visitors of a peer that was never connected find nothing to do.     *)
Awake(s) == is_initialized(s) \/ \E ch \in Channels : s.proto[ch].at # StartAt[ch]

(* A fresh peer takes part in no protocol yet.                             *)
LEMMA FreshAsleep ==
  ASSUME scene \in Scenarios, NEW p, NEW s, NEW out, Fresh(scene, p, s, out)
  PROVE  ~Awake(s) /\ \A ch \in AllChannels : At(s, ch) = StartAt[ch]
<1>1. Channels \subseteq AllChannels
  BY ScenariosAssumption DEF Channels
<1>2. \A ch \in Channels : s.proto[ch].at = StartAt[ch]
  BY <1>1, DefaultFacts DEF Fresh, Channels
<1> QED BY <1>2 DEF Awake, is_initialized, At, Fresh

(* Two sequences that join to nothing are empty.                           *)
LEMMA BothEmpty ==
  ASSUME NEW T, NEW a \in Seq(T), NEW b \in Seq(T), a \o b = <<>>
  PROVE  a = <<>> /\ b = <<>>
<1>1. Len(a \o b) = Len(a) + Len(b) /\ Len(a) \in Nat /\ Len(b) \in Nat
  OBVIOUS
<1>2. Len(a \o b) = 0
  OBVIOUS
<1>3. Len(a) = 0 /\ Len(b) = 0
  BY <1>1, <1>2
<1> QED BY <1>3

(* A request joins the empty line of its channel.                          *)
LEMMA AskPending ==
  ASSUME NEW s, NEW r, NEW m \in Asks, m.ch \in Channels, m.ch # "handshake",
         s.unsent[m.ch] = NoMsg, r.unsent[m.ch] = m, r.proto = s.proto,
         s.proto[m.ch].at \in Asking[m.ch], m.ch \in Leioses => Version(s) = "leios",
         NEW a \in Seq(Tokens), NEW b \in Seq(Tokens), Pending(scene, s, m.ch, a \o b)
  PROVE  Pending(scene, r, m.ch, a \o Append(b, m))
<1>1. a \o b = <<>>
  BY AsksKinds DEF Pending
<1>2. a = <<>> /\ b = <<>>
  BY <1>1, BothEmpty
<1>3. a \o Append(b, m) = <<m>>
  BY <1>2
<1> QED BY <1>3 DEF Pending, Channels, Version

(* try_send_request is safe where the turn is the initiator's.             *)
LEMMA SafeAsk ==
  ASSUME NEW p \in Peers, NEW x, ContextOK(x), NEW m \in Asks,
         CanSend(x.s, m) => /\ Awake(x.s) /\ x.s.proto[m.ch].at \in Asking[m.ch]
                            /\ m.ch \in Leioses => Version(x.s) = "leios"
  PROVE  Safe(p, x, try_send_request(x, p, m))
<1> DEFINE z == try_send_request(x, p, m)
<1>1. CASE ~CanSend(x.s, m)
  BY <1>1, SafeComposes DEF try_send_request
<1>2. CASE CanSend(x.s, m)
  <2>1. /\ m.ch \in Channels \ {"handshake", "txsubmission"} /\ x.s.unsent[m.ch] = NoMsg
        /\ Awake(x.s)
    BY <1>2 DEF CanSend, can_apply
  <2>2. ContextOK(z)
    BY RequestOK
  <2>3. x.s \in PeerStates /\ x.out \in Seq(Outputs) /\ scene \in Scenarios /\ x \in Contexts
    BY DEF ContextOK, Contexts
  <2>4. /\ z.out = Append(x.out, Send(p, m)) /\ z.s.proto = x.s.proto
        /\ z.s.connection = x.s.connection /\ z.s.violation = x.s.violation
        /\ z.s.unsent = [x.s.unsent EXCEPT ![m.ch] = m]
    BY <1>2, <2>1, <2>3 DEF try_send_request, Push, Contexts, PeerStates
  <2>5. Send(p, m) \in Outputs /\ Send(p, m).do = "Send" /\ Send(p, m).pid = p
        /\ Send(p, m).msg = m
    BY OutputFacts DEF Send
  <2>6. /\ \A q : q # p => SameLines(q, z.out, x.out)
        /\ \A ch \in Keys : OutLine(p, ch, z.out) =
             IF m.ch = ch THEN Append(OutLine(p, ch, x.out), m) ELSE OutLine(p, ch, x.out)
    BY <2>3, <2>4, <2>5, PushLines
  <2>7. LinkLine(p, z.out) = LinkLine(p, x.out)
    BY <2>6, AsksKinds DEF LinkLine, Keys
  <2> HIDE DEF z
  <2>8. ASSUME NEW k \in ConnStates, Upheld(scene, p, x.s, k, x.out)
        PROVE  Upheld(scene, p, z.s, k, z.out)
    <3>1. ASSUME NEW ch \in AllChannels, k.writing
          PROVE  Pending(scene, z.s, ch, TaskLine(ch, k.tasks) \o OutLine(p, ch, z.out))
      <4> DEFINE a == TaskLine(ch, k.tasks)
      <4> DEFINE b == OutLine(p, ch, x.out)
      <4>1. Pending(scene, x.s, ch, a \o b)
        BY <2>8, <3>1 DEF Upheld
      <4>2. ch \in Keys
        BY DEF Keys
      <4>3. a \in Seq(Tokens) /\ b \in Seq(Tokens)
        BY <2>3, <4>2, TaskEnds, OutEnds DEF ConnStates
      <4> HIDE DEF a, b
      <4>4. CASE ch = m.ch
        <5>1. z.s.unsent[ch] = m
          BY <2>1, <2>3, <2>4, <4>4 DEF PeerStates
        <5>2. Pending(scene, z.s, ch, a \o Append(b, m))
          BY <1>2, <2>1, <2>4, <4>1, <4>3, <4>4, <5>1, AskPending
        <5> QED BY <2>6, <4>2, <4>4, <5>2 DEF a, b
      <4>5. CASE ch # m.ch
        <5>1. ch \in Channels => z.s.unsent[ch] = x.s.unsent[ch]
          BY <2>3, <2>4, <4>5 DEF PeerStates
        <5>2. Pending(scene, z.s, ch, a \o b)
          BY <2>4, <4>1, <5>1 DEF Pending, Version, Channels
        <5> QED BY <2>6, <4>2, <4>5, <5>2 DEF a, b
      <4> QED BY <4>4, <4>5
    <3>2. Mirrored(scene, x.s, k) => Mirrored(scene, z.s, k)
      BY <2>4 DEF Mirrored
    <3>3. Innocent(scene, p, x.s) => Innocent(scene, p, z.s)
      BY <2>4 DEF Innocent
    <3> QED BY <2>4, <2>8, <3>1, <3>2, <3>3 DEF Upheld
  <2>9. ~Fresh(scene, p, x.s, x.out)
    BY <2>1, <2>3, FreshAsleep
  <2> QED BY <2>2, <2>4, <2>6, <2>7, <2>8, <2>9 DEF Safe, z
<1> QED BY <1>1, <1>2

(* The near state of a protocol is drained.                                *)
LEMMA SafeProto ==
  ASSUME NEW p \in Peers, NEW x, ContextOK(x), NEW y, ContextOK(y), y.out = x.out,
         NEW ch \in Channels \ {"handshake"}, NEW v,
         x.s.proto[ch].at # StartAt[ch],
         y.s.connection = x.s.connection, y.s.unsent = x.s.unsent,
         y.s.proto = [x.s.proto EXCEPT ![ch] = v],
         y.s.violation = x.s.violation
           \/ (ch = "chainsync" /\ x.s.proto[ch].at = "IdleNoIntersection"),
         \A far : Same(ch, x.s.proto[ch].at, far) => Same(ch, v.at, far),
         x.s.proto[ch].at \in Asking[ch] => v.at \in Asking[ch],
         v.at # "IdleNoIntersection"
  PROVE  Safe(p, x, y)
<1>1. x.s \in PeerStates /\ scene \in Scenarios
  BY DEF ContextOK, Contexts
<1>2. /\ y.s.proto[ch] = v
      /\ \A o \in Channels : o # ch => y.s.proto[o] = x.s.proto[o]
      /\ "handshake" \in Channels /\ Channels = scene.channels
      /\ Replies = scene.replies
  BY <1>1, ScenariosAssumption DEF PeerStates, Channels, Replies
<1>3. Version(y.s) = Version(x.s)
  BY <1>2 DEF Version
<1>4. ASSUME NEW k \in ConnStates, Upheld(scene, p, x.s, k, x.out)
      PROVE  Upheld(scene, p, y.s, k, y.out)
  <2>1. Mirrored(scene, x.s, k) => Mirrored(scene, y.s, k)
    BY <1>2 DEF Mirrored
  <2>2. Innocent(scene, p, x.s) => Innocent(scene, p, y.s)
    BY <1>2 DEF Innocent
  <2>3. ASSUME NEW c, NEW line, Pending(scene, x.s, c, line)
        PROVE  Pending(scene, y.s, c, line)
    BY <1>2, <1>3, <2>3 DEF Pending
  <2> HIDE DEF Mirrored, Innocent, Pending
  <2> QED BY <1>4, <2>1, <2>2, <2>3 DEF Upheld
<1>5. ~Fresh(scene, p, x.s, x.out)
  BY <1>1, FreshAsleep DEF Awake
<1>6. \A q : SameLines(q, y.out, x.out)
  BY DEF SameLines
<1> QED BY <1>4, <1>5, <1>6 DEF Safe

(* The connection is initialized.                                          *)
LEMMA SafeInit ==
  ASSUME NEW p \in Peers, NEW x, ContextOK(x), x.s.connection = "Connected"
  PROVE  Safe(p, x, [x EXCEPT !.s.connection = "Initialized"])
<1> DEFINE y == [x EXCEPT !.s.connection = "Initialized"]
<1>1. ContextOK(y)
  BY SetConnectionFine DEF Fine, ConnectionStates
<1>2. /\ y.out = x.out /\ y.s.connection = "Initialized" /\ y.s.proto = x.s.proto
      /\ y.s.unsent = x.s.unsent /\ y.s.violation = x.s.violation
  BY DEF ContextOK, Contexts, PeerStates
<1> HIDE DEF y
<1>3. \A q : SameLines(q, y.out, x.out)
  BY <1>2 DEF SameLines
<1>4. \A k : Upheld(scene, p, x.s, k, x.out) => Upheld(scene, p, y.s, k, y.out)
  BY <1>2, <1>3, UpheldSame
<1>5. ~Fresh(scene, p, x.s, x.out)
  BY DEF Fresh
<1> QED BY <1>1, <1>2, <1>3, <1>4, <1>5 DEF Safe, y

-----------------------------------------------------------------------------
(* The sub-behaviours, one after the other.                                *)

(* CanSend holds only in a state that asks, peer sharing apart.            *)
LEMMA SendsWhereAsked ==
  ASSUME NEW s, NEW m \in Asks, CanSend(s, m), m.ch # "peersharing"
  PROVE  m.ch \in Channels /\ s.proto[m.ch].at \in Asking[m.ch]
<1>1. m.ch \in Channels /\ CanApply(s.proto[m.ch], m)
  BY DEF CanSend, can_apply
<1>2. PICK t \in Moves[m.ch] : t[1] = s.proto[m.ch].at /\ t[2] = m.kind
  BY <1>1 DEF CanApply
<1> QED BY <1>1, <1>2, AsksKinds, AskLeads

(* The version accessors agree.                                            *)
LEMMA VersionFacts ==
  ASSUME scene \in Scenarios, NEW s
  PROVE  version(s) = Version(s)
<1>1. "handshake" \in Channels
  BY ScenariosAssumption DEF Channels
<1> QED BY <1>1 DEF version, Version, At

(* The handshake visitor is safe.                                          *)
LEMMA SafeHandshake ==
  ASSUME NEW p \in Peers, NEW x, ContextOK(x)
  PROVE  Safe(p, x, handshake_inbound(x, p))
<1> DEFINE a == [x EXCEPT !.s.connection = "Initialized"]
<1>1. CASE x.s.connection = "Connected" /\ At(x.s, "handshake") = "Accepted"
  <2>1. Safe(p, x, a)
    BY <1>1, SafeInit
  <2> HIDE DEF a
  <2>2. Safe(p, a, Push(a, Event(p, "PeerInitialized")))
    BY <2>1, SafeTold DEF Safe, Events
  <2> QED BY <1>1, <2>1, <2>2, SafeComposes DEF handshake_inbound, a
<1>2. CASE ~(x.s.connection = "Connected" /\ At(x.s, "handshake") = "Accepted")
  BY <1>2, SafeComposes DEF handshake_inbound
<1> QED BY <1>1, <1>2

(* The keep-alive visitor is safe.                                         *)
LEMMA SafeKeepAlive ==
  ASSUME NEW p \in Peers, NEW x, ContextOK(x)
  PROVE  Safe(p, x, keepalive_housekeeping(x, p))
<1> DEFINE m == Msg("keepalive", "KeepAlive", None)
<1>1. m \in Asks /\ m.ch = "keepalive"
  BY DEF Asks, Msg
<1> HIDE DEF m
<1>2. ASSUME is_initialized(x.s) PROVE Safe(p, x, try_send_request(x, p, m))
  BY <1>1, <1>2, SendsWhereAsked, SafeAsk DEF Awake, Leioses
<1> QED BY <1>2, SafeComposes DEF keepalive_housekeeping, m

(* The discovery visitor is safe: it asks only where no answer is stored.  *)
LEMMA SafeDiscovery ==
  ASSUME NEW p \in Peers, NEW x, ContextOK(x)
  PROVE  /\ Safe(p, x, discovery_housekeeping(x, p))
         /\ Safe(p, x, discovery_inbound(x, p))
<1>1. Safe(p, x, discovery_housekeeping(x, p))
  <2> DEFINE m == Msg("peersharing", "ShareRequest", None)
  <2>1. m \in Asks /\ m.ch = "peersharing"
    BY DEF Asks, Msg
  <2> HIDE DEF m
  <2>2. ASSUME is_initialized(x.s), At(x.s, "peersharing") = "IdleEmpty"
        PROVE  Safe(p, x, try_send_request(x, p, m))
    <3>1. CanSend(x.s, m) => x.s.proto[m.ch].at \in Asking[m.ch]
      BY <2>1, <2>2 DEF CanSend, can_apply, At, Asking
    <3> QED BY <2>1, <2>2, <3>1, SafeAsk DEF Awake, Leioses
  <2> QED BY <2>2, SafeComposes DEF discovery_housekeeping, m
<1>2. Safe(p, x, discovery_inbound(x, p))
  <2>1. CASE discovery_inbound(x, p) = x
    BY <2>1, SafeComposes
  <2>2. CASE discovery_inbound(x, p) # x
    <3> DEFINE v == [at |-> "Done", arg |-> None]
    <3> DEFINE y == discovery_inbound(x, p)
    <3>1. /\ At(x.s, "peersharing") = "IdleResponse"
          /\ y = [x EXCEPT !.discovered = @ \cup x.s.proto["peersharing"].arg,
                           !.s.proto["peersharing"] = v]
      BY <2>2 DEF discovery_inbound
    <3>2. "peersharing" \in Channels /\ x.s.proto["peersharing"].at = "IdleResponse"
      BY <3>1 DEF At, StartAt
    <3>3. ContextOK(y)
      BY DiscoveryFine DEF Fine
    <3>4. /\ y.out = x.out /\ y.s.connection = x.s.connection /\ y.s.unsent = x.s.unsent
          /\ y.s.violation = x.s.violation
          /\ y.s.proto = [x.s.proto EXCEPT !["peersharing"] = v]
      BY <3>1 DEF ContextOK, Contexts, PeerStates
    <3>5. \A far : Same("peersharing", "IdleResponse", far) => Same("peersharing", "Done", far)
      BY DEF Same, Leioses
    <3>6. "IdleResponse" \notin Asking["peersharing"] /\ StartAt["peersharing"] # "IdleResponse"
      BY DEF Asking, StartAt
    <3>7. v.at = "Done"
      OBVIOUS
    <3> HIDE DEF y, v
    <3> QED BY <3>2, <3>3, <3>4, <3>5, <3>6, <3>7, SafeProto DEF y
  <2> QED BY <2>1, <2>2
<1> QED BY <1>1, <1>2

(* The block-fetch queue is served safely.                                 *)
LEMMA SafeServeNext ==
  ASSUME NEW p \in Peers, NEW x, ContextOK(x), NEW t
  PROVE  Safe(p, x, serve_next(x, p, t))
<1>1. CASE ~ServesRange(x.s, t, x.requests)
  BY <1>1, SafeComposes DEF serve_next
<1>2. CASE ServesRange(x.s, t, x.requests)
  <2> DEFINE m == RequestRange(Head(x.requests))
  <2> DEFINE y == [x EXCEPT !.requests = Tail(@)]
  <2>1. /\ x.requests \in Seq(Ranges) /\ x.requests # <<>>
        /\ Head(x.requests) \in Ranges /\ Tail(x.requests) \in Seq(Ranges)
    BY <1>2 DEF ServesRange, ContextOK, Contexts
  <2>2. m \in Asks /\ m.ch = "blockfetch"
    BY <2>1 DEF Asks, RequestRange, Msg
  <2>3. is_initialized(x.s)
    BY <1>2 DEF ServesRange, FetchAvailable
  <2> HIDE DEF m
  <2>4. ContextOK(y) /\ y.s = x.s /\ y.out = x.out
    BY <2>1 DEF ContextOK, Contexts
  <2> HIDE DEF y
  <2>5. Safe(p, x, y)
    BY <2>4, SafeSame
  <2>6. Safe(p, y, try_send_request(y, p, m))
    BY <2>2, <2>3, <2>4, SendsWhereAsked, SafeAsk DEF Awake, Leioses
  <2>7. serve_next(x, p, t) = try_send_request(y, p, m)
    BY <1>2 DEF serve_next, y, m
  <2> QED BY <2>5, <2>6, <2>7, SafeComposes
<1> QED BY <1>1, <1>2

(* The block-fetch visitor is safe on an inbound message.                  *)
LEMMA SafeBlockfetch ==
  ASSUME NEW p \in Peers, NEW x, ContextOK(x), NEW t
  PROVE  Safe(p, x, blockfetch_inbound(x, p, t))
<1> DEFINE y == IF At(x.s, "blockfetch") = "StreamingSome"
                  THEN Push(x, Event(p, "BlockBodyReceived")) ELSE x
<1> DEFINE z == IF At(y.s, "blockfetch") = "Idle"
                  THEN [y EXCEPT !.s.in_flight = None] ELSE y
<1>1. Safe(p, x, y)
  BY SafeComposes, SafeTold DEF Events
<1> HIDE DEF y
<1>2. Safe(p, y, z)
  <2>1. ContextOK(y)
    BY <1>1 DEF Safe
  <2>2. CASE At(y.s, "blockfetch") # "Idle"
    BY <2>1, <2>2, SafeComposes
  <2>3. CASE At(y.s, "blockfetch") = "Idle"
    <3>1. /\ ContextOK(z) /\ z.out = y.out /\ z.s.proto = y.s.proto
          /\ z.s.unsent = y.s.unsent /\ z.s.connection = y.s.connection
          /\ z.s.violation = y.s.violation
      BY <2>1, <2>3 DEF ContextOK, Contexts, PeerStates, WellKept
    <3> HIDE DEF z
    <3> QED BY <3>1, SafeSame
  <2> QED BY <2>2, <2>3
<1> HIDE DEF z
<1>3. Safe(p, z, serve_next(z, p, t))
  BY <1>2, SafeServeNext DEF Safe
<1>4. blockfetch_inbound(x, p, t) = serve_next(z, p, t)
  BY DEF blockfetch_inbound, y, z
<1> QED BY <1>1, <1>2, <1>3, <1>4, SafeComposes

(* Deferring a RequestNext, or taking the flag back, is safe.              *)
LEMMA SafeDeferred ==
  ASSUME NEW p \in Peers, NEW x, ContextOK(x), NEW b \in BOOLEAN
  PROVE  LET y == [x EXCEPT !.s.sync_next_deferred = b]
         IN  Safe(p, x, y) /\ y.s.proto = x.s.proto /\ y.s.unsent = x.s.unsent
<1> DEFINE y == [x EXCEPT !.s.sync_next_deferred = b]
<1>1. /\ ContextOK(y) /\ y.out = x.out /\ y.s.proto = x.s.proto
      /\ y.s.unsent = x.s.unsent /\ y.s.connection = x.s.connection
      /\ y.s.violation = x.s.violation
  BY ZenonT(30) DEF ContextOK, Contexts, PeerStates, WellKept
<1> HIDE DEF y
<1> QED BY <1>1, SafeSame DEF y

(* A peer that is syncing is asked for the next header.                    *)
LEMMA SafeNext ==
  ASSUME NEW p \in Peers, NEW x, ContextOK(x), peer_is_syncing(x.s)
  PROVE  /\ Safe(p, x, try_send_request(x, p, RequestNextHeader))
         /\ Safe(p, x, try_send_deferred_next(x, p))
<1>1. RequestNextHeader \in Asks /\ RequestNextHeader.ch = "chainsync"
  BY DEF RequestNextHeader, Asks, Msg
<1>2. ASSUME NEW y, ContextOK(y), peer_is_syncing(y.s)
      PROVE  Safe(p, y, try_send_request(y, p, RequestNextHeader))
  <2>1. Awake(y.s)
    BY <1>2 DEF peer_is_syncing, Awake, At, StartAt
  <2> QED BY <1>1, <1>2, <2>1, SendsWhereAsked, SafeAsk DEF Leioses
<1>3. Safe(p, x, try_send_deferred_next(x, p))
  <2> DEFINE y == [x EXCEPT !.s.sync_next_deferred = FALSE]
  <2>1. Safe(p, x, y) /\ y.s.proto = x.s.proto
    BY SafeDeferred
  <2> HIDE DEF y
  <2>2. ContextOK(y) /\ peer_is_syncing(y.s)
    BY <2>1 DEF Safe, peer_is_syncing, At
  <2>3. Safe(p, y, try_send_request(y, p, RequestNextHeader))
    BY <1>2, <2>2
  <2>4. try_send_deferred_next(x, p) \in {x, try_send_request(y, p, RequestNextHeader)}
    BY DEF try_send_deferred_next, y
  <2> QED BY <2>1, <2>3, <2>4, SafeComposes
<1> QED BY <1>2, <1>3

(* drain_data is safe: what it takes is the near end's copy only.          *)
LEMMA SafeDrain ==
  ASSUME NEW p \in Peers, NEW x, ContextOK(x), peer_is_syncing(x.s)
  PROVE  Safe(p, x, drain_data(x, p)) /\ peer_is_syncing(drain_data(x, p).s)
<1> DEFINE v == [at |-> "IdleDrained", arg |-> None]
<1> DEFINE y == [x EXCEPT !.s.proto["chainsync"] = v]
<1> DEFINE data == {"IdleContent", "IdleRollback", "IdleIntersection", "IdleNoIntersection"}
<1>0. drain_data(x, p) \in {x, y} \/ At(x.s, "chainsync") \in data
  BY DEF drain_data, ChainSyncEvent
<1>1. CASE At(x.s, "chainsync") \notin data
  BY <1>1, SafeComposes DEF drain_data, ChainSyncEvent
<1>2. CASE At(x.s, "chainsync") \in data
  <2>1. /\ "chainsync" \in Channels /\ x.s.proto["chainsync"].at \in data
        /\ StartAt["chainsync"] \notin data
    BY <1>2 DEF At, StartAt
  <2>2. v \in ProtoStates /\ v.at = "IdleDrained"
    BY DEF ProtoStates, Ats, Payloads
  <2>3. /\ \A near \in data : \A far :
              Same("chainsync", near, far) => Same("chainsync", v.at, far)
        /\ "IdleDrained" \in Asking["chainsync"]
    BY DEF Same, Leioses, ChainSyncIdle, Asking
  <2> HIDE DEF v
  <2>4. ContextOK(y)
    BY <2>1, <2>2, SetProtoFine DEF Fine
  <2>5. /\ y.out = x.out /\ y.s.connection = x.s.connection /\ y.s.unsent = x.s.unsent
        /\ y.s.violation = x.s.violation
        /\ y.s.proto = [x.s.proto EXCEPT !["chainsync"] = v]
        /\ y.s.proto["chainsync"] = v
    BY <2>1 DEF ContextOK, Contexts, PeerStates
  <2>6. peer_is_syncing(y.s)
    BY <2>1, <2>2, <2>5 DEF peer_is_syncing, At
  <2> HIDE DEF y
  <2>7. CASE At(x.s, "chainsync") = "IdleNoIntersection"
    <3> DEFINE z == [y EXCEPT !.s.violation = TRUE]
    <3>1. /\ ContextOK(z) /\ z.out = y.out /\ z.s.connection = y.s.connection
          /\ z.s.unsent = y.s.unsent /\ z.s.proto = y.s.proto
      BY <2>4, ZenonT(30) DEF ContextOK, Contexts, PeerStates, WellKept
    <3>2. drain_data(x, p) = z
      BY <2>7 DEF drain_data, ChainSyncEvent, y, v
    <3> HIDE DEF z
    <3>3. Safe(p, x, z)
      <4>1. x.s.proto["chainsync"].at = "IdleNoIntersection"
        BY <2>1, <2>7 DEF At
      <4>2. x.s.proto["chainsync"].at # StartAt["chainsync"]
        BY <2>1
      <4> HIDE DEF data
      <4> QED BY <2>1, <2>2, <2>3, <2>5, <3>1, <4>1, <4>2, SafeProto
    <3>4. peer_is_syncing(z.s)
      BY <2>6, <3>1 DEF peer_is_syncing, At
    <3> QED BY <3>2, <3>3, <3>4
  <2>8. CASE At(x.s, "chainsync") # "IdleNoIntersection"
    <3>1. PICK name \in Events : drain_data(x, p) = Push(y, Event(p, name))
      BY <1>2, <2>8 DEF drain_data, ChainSyncEvent, Events, y, v
    <3>2. Safe(p, x, y)
      BY <2>1, <2>2, <2>3, <2>4, <2>5, SafeProto
    <3>3. Safe(p, y, Push(y, Event(p, name))) /\ Push(y, Event(p, name)).s = y.s
      BY <2>4, SafeTold
    <3> QED BY <2>6, <3>1, <3>2, <3>3, SafeComposes
  <2> QED BY <2>7, <2>8
<1> QED BY <1>1, <1>2

(* The chain-sync visitors are safe.                                       *)
LEMMA SafeChainSync ==
  ASSUME NEW p \in Peers, NEW x, ContextOK(x), NEW t
  PROVE  /\ Safe(p, x, chainsync_inbound(x, p))
         /\ Safe(p, x, chainsync_tagged(x, p))
         /\ Safe(p, x, chainsync_housekeeping(x, p, t))
<1>1. Safe(p, x, chainsync_inbound(x, p))
  <2>1. CASE peer_is_syncing(x.s)
    <3> DEFINE y == drain_data(x, p)
    <3>1. Safe(p, x, y) /\ peer_is_syncing(y.s)
      BY <2>1, SafeDrain
    <3> HIDE DEF y
    <3>2. Safe(p, y, try_send_deferred_next(y, p))
      BY <3>1, SafeNext DEF Safe
    <3> QED BY <2>1, <3>1, <3>2, SafeComposes DEF chainsync_inbound, y
  <2>2. CASE ~peer_is_syncing(x.s)
    BY <2>2, SafeComposes DEF chainsync_inbound
  <2> QED BY <2>1, <2>2
<1>2. Safe(p, x, chainsync_tagged(x, p))
  BY SafeNext, SafeDeferred, SafeComposes DEF chainsync_tagged
<1>3. Safe(p, x, chainsync_housekeeping(x, p, t))
  <2> DEFINE m == Msg("chainsync", "FindIntersect", None)
  <2>1. m \in Asks /\ m.ch = "chainsync"
    BY DEF Asks, Msg
  <2> HIDE DEF m
  <2>2. ASSUME is_initialized(x.s) PROVE Safe(p, x, try_send_request(x, p, m))
    BY <2>1, <2>2, SendsWhereAsked, SafeAsk DEF Awake, Leioses
  <2> QED BY <2>2, SafeComposes DEF chainsync_housekeeping, m
<1> QED BY <1>1, <1>2, <1>3

(* Draining what a Leios protocol stored is safe.                          *)
LEMMA SafeDrained ==
  ASSUME NEW p \in Peers, NEW x, ContextOK(x), NEW ch \in Leioses, NEW name \in Events
  PROVE  Safe(p, x, Drained(x, ch, p, name))
<1>1. CASE At(x.s, ch) = "IdleSome"
  <2> DEFINE y == [x EXCEPT !.s.proto[ch] = Default(ch)]
  <2>1. StartAt[ch] = "IdleNone" /\ ch # "handshake"
    BY DEF StartAt, Leioses
  <2>2. ch \in Channels /\ x.s.proto[ch].at = "IdleSome"
    BY <1>1, <2>1 DEF At
  <2>3. Default(ch) \in ProtoStates /\ Default(ch).at = "IdleNone"
    BY <2>1, DefaultFacts DEF AllChannels, Leioses
  <2>4. ContextOK(y)
    BY <2>2, <2>3, SetProtoFine DEF Fine, Leioses
  <2>5. /\ y.out = x.out /\ y.s.connection = x.s.connection /\ y.s.unsent = x.s.unsent
        /\ y.s.violation = x.s.violation
        /\ y.s.proto = [x.s.proto EXCEPT ![ch] = Default(ch)]
    BY <2>2 DEF ContextOK, Contexts, PeerStates
  <2>6. /\ \A far : Same(ch, "IdleSome", far) => Same(ch, "IdleNone", far)
        /\ "IdleNone" \in Asking[ch]
    BY DEF Same, Leioses, Asking
  <2> HIDE DEF y
  <2>7. Safe(p, x, y)
    <3> DEFINE v == Default(ch)
    <3>1. v.at = "IdleNone" /\ y.s.proto = [x.s.proto EXCEPT ![ch] = v]
      BY <2>3, <2>5
    <3> HIDE DEF v
    <3> QED BY <2>1, <2>2, <2>4, <2>5, <2>6, <3>1, SafeProto
  <2>8. Safe(p, y, Push(y, Event(p, name)))
    BY <2>4, SafeTold
  <2> QED BY <1>1, <2>7, <2>8, SafeComposes DEF Drained, y
<1>2. CASE At(x.s, ch) # "IdleSome"
  BY <1>2, SafeComposes DEF Drained
<1> QED BY <1>1, <1>2

(* The Leios fetch queue is served safely.                                 *)
LEMMA SafeLeiosServe ==
  ASSUME NEW p \in Peers, NEW x, ContextOK(x), NEW t
  PROVE  Safe(p, x, leios_serve_next(x, p, t))
<1>1. CASE ~(is_initialized(x.s) /\ supports_leios(x.s) /\ FetchesFor(x.fetches, p) # {})
  BY <1>1, SafeComposes DEF leios_serve_next
<1>2. CASE is_initialized(x.s) /\ supports_leios(x.s) /\ FetchesFor(x.fetches, p) # {}
  <2> DEFINE i == FirstFor(x.fetches, p)
  <2> DEFINE y == [x EXCEPT !.fetches = Without(@, i)]
  <2>1. x.fetches \in Seq(Fetches) /\ FetchesFor(x.fetches, p) \subseteq Nat
    BY DEF ContextOK, Contexts, FetchesFor
  <2>2. i \in FetchesFor(x.fetches, p)
    <3>1. \E a \in FetchesFor(x.fetches, p) : \A j \in FetchesFor(x.fetches, p) : a <= j
      BY <1>2, <2>1, LeastOf
    <3> QED BY <3>1 DEF FirstFor
  <2> HIDE DEF i
  <2>3. i \in DOMAIN x.fetches /\ x.fetches[i] \in Fetches
    BY <2>1, <2>2 DEF FetchesFor
  <2> DEFINE m == x.fetches[i].msg
  <2>4. m \in Asks /\ m.ch = "leiosfetch"
    BY <2>3 DEF Fetches, EbRequests, Asks, Msg
  <2>5. Without(x.fetches, i) \in Seq(Fetches)
    BY <2>1, <2>3, WithoutType
  <2>6. ContextOK(y) /\ y.s = x.s /\ y.out = x.out
    BY <2>5 DEF ContextOK, Contexts
  <2>7. Version(x.s) = "leios" /\ Awake(x.s)
    BY <1>2, VersionFacts DEF supports_leios, Awake, ContextOK
  <2>8. leios_serve_next(x, p, t) \in {x, try_send_request(y, p, m)}
    BY DEF leios_serve_next, y, i
  <2> HIDE DEF y, m
  <2>9. Safe(p, x, y)
    BY <2>6, SafeSame
  <2>10. Safe(p, y, try_send_request(y, p, m))
    BY <2>4, <2>6, <2>7, SendsWhereAsked, SafeAsk
  <2> QED BY <2>8, <2>9, <2>10, SafeComposes
<1> QED BY <1>1, <1>2

(* The Leios visitors are safe: they ask behind the version gate.          *)
LEMMA SafeLeios ==
  ASSUME NEW p \in Peers, NEW x, ContextOK(x), NEW t
  PROVE  /\ Safe(p, x, leiosnotify_inbound(x, p))
         /\ Safe(p, x, leiosnotify_housekeeping(x, p))
         /\ Safe(p, x, leiosfetch_inbound(x, p, t))
<1>1. Safe(p, x, leiosnotify_inbound(x, p))
  BY SafeDrained DEF leiosnotify_inbound, Leioses, Events
<1>2. Safe(p, x, leiosnotify_housekeeping(x, p))
  <2> DEFINE m == Msg("leiosnotify", "RequestNext", None)
  <2>1. m \in Asks /\ m.ch = "leiosnotify"
    BY DEF Asks, Msg
  <2> HIDE DEF m
  <2>2. ASSUME is_initialized(x.s), supports_leios(x.s)
        PROVE  Safe(p, x, try_send_request(x, p, m))
    <3>1. Version(x.s) = "leios" /\ Awake(x.s)
      BY <2>2, VersionFacts DEF supports_leios, Awake, ContextOK
    <3> QED BY <2>1, <3>1, SendsWhereAsked, SafeAsk
  <2> QED BY <2>2, SafeComposes DEF leiosnotify_housekeeping, m
<1>3. Safe(p, x, leiosfetch_inbound(x, p, t))
  <2> DEFINE y == Drained(x, "leiosfetch", p, "EbFetched")
  <2>1. Safe(p, x, y)
    BY SafeDrained DEF Leioses, Events
  <2> HIDE DEF y
  <2>2. Safe(p, y, leios_serve_next(y, p, t))
    BY <2>1, SafeLeiosServe DEF Safe
  <2> QED BY <2>1, <2>2, SafeComposes DEF leiosfetch_inbound, y
<1> QED BY <1>1, <1>2, <1>3

(* all_visitors!, the connection's own apart.                              *)
LEMMA SafeVisits ==
  ASSUME NEW p \in Peers, NEW x, ContextOK(x), NEW t
  PROVE  /\ Safe(p, x, visit_inbound_msg(x, p, t))
         /\ LET a == connection_housekeeping(x, p, t)
            IN  Safe(p, a, visit_housekeeping(x, p, t))
<1>1. Safe(p, x, visit_inbound_msg(x, p, t))
  <2> DEFINE a == handshake_inbound(x, p)
  <2> DEFINE b == discovery_inbound(a, p)
  <2> DEFINE c == blockfetch_inbound(b, p, t)
  <2> DEFINE d == chainsync_inbound(c, p)
  <2> DEFINE e == leiosnotify_inbound(d, p)
  <2> DEFINE f == leiosfetch_inbound(e, p, t)
  <2>1. Safe(p, x, a) BY SafeHandshake
  <2> HIDE DEF a
  <2>2. Safe(p, a, b) BY <2>1, SafeDiscovery DEF Safe
  <2> HIDE DEF b
  <2>3. Safe(p, b, c) BY <2>2, SafeBlockfetch DEF Safe
  <2> HIDE DEF c
  <2>4. Safe(p, c, d) BY <2>3, SafeChainSync DEF Safe
  <2> HIDE DEF d
  <2>5. Safe(p, d, e) BY <2>4, SafeLeios DEF Safe
  <2> HIDE DEF e
  <2>6. Safe(p, e, f) BY <2>5, SafeLeios DEF Safe
  <2> HIDE DEF f
  <2>7. visit_inbound_msg(x, p, t) = f
    BY DEF visit_inbound_msg, a, b, c, d, e, f
  <2>8. Safe(p, x, c) BY <2>1, <2>2, <2>3, SafeComposes
  <2>9. Safe(p, c, f) BY <2>4, <2>5, <2>6, SafeComposes
  <2> QED BY <2>7, <2>8, <2>9, SafeComposes
<1>2. Safe(p, connection_housekeeping(x, p, t), visit_housekeeping(x, p, t))
  <2> DEFINE a == connection_housekeeping(x, p, t)
  <2> DEFINE b == keepalive_housekeeping(a, p)
  <2> DEFINE c == discovery_housekeeping(b, p)
  <2> DEFINE d == serve_next(c, p, t)
  <2> DEFINE e == chainsync_housekeeping(d, p, t)
  <2> DEFINE f == leiosnotify_housekeeping(e, p)
  <2> DEFINE g == leios_serve_next(f, p, t)
  <2>1. ContextOK(a) BY ConnectionFine DEF Fine
  <2> HIDE DEF a
  <2>2. Safe(p, a, b) BY <2>1, SafeKeepAlive
  <2> HIDE DEF b
  <2>3. Safe(p, b, c) BY <2>2, SafeDiscovery DEF Safe
  <2> HIDE DEF c
  <2>4. Safe(p, c, d) BY <2>3, SafeServeNext DEF Safe
  <2> HIDE DEF d
  <2>5. Safe(p, d, e) BY <2>4, SafeChainSync DEF Safe
  <2> HIDE DEF e
  <2>6. Safe(p, e, f) BY <2>5, SafeLeios DEF Safe
  <2> HIDE DEF f
  <2>7. Safe(p, f, g) BY <2>6, SafeLeiosServe DEF Safe
  <2> HIDE DEF g
  <2>8. visit_housekeeping(x, p, t) = g
    BY DEF visit_housekeeping, a, b, c, d, e, f, g
  <2>9. Safe(p, a, d) BY <2>2, <2>3, <2>4, SafeComposes
  <2>10. Safe(p, d, g) BY <2>5, <2>6, <2>7, SafeComposes
  <2>11. Safe(p, a, g) BY <2>9, <2>10, SafeComposes
  <2> QED BY <2>8, <2>11 DEF a
<1> QED BY <1>1, <1>2

-----------------------------------------------------------------------------
(* What a step makes of one peer: the state s and the queue a become r, b. *)

(* What a connection or its absence makes of (s, a) still holds of (r,     *)
(* b).                                                                     *)
Carried(p, s, a, r, b) ==
  /\ LinkLine(p, b) = LinkLine(p, a)
  /\ r.connection = s.connection \/ r.connection = "Initialized"
  /\ \A k \in ConnStates : Upheld(scene, p, s, k, a) => Upheld(scene, p, r, k, b)
  /\ Fresh(scene, p, s, a) => Fresh(scene, p, r, b)

(* A safe visitor carries the peer on.                                     *)
LEMMA SafeCarries ==
  ASSUME NEW p, NEW x, NEW y, Safe(p, x, y)
  PROVE  Carried(p, x.s, x.out, y.s, y.out)
BY DEF Safe, Carried

(* So does a step that leaves the peer's protocols and lines alone.        *)
LEMMA SameCarries ==
  ASSUME NEW p, NEW s, NEW a, NEW r, NEW b, SameLines(p, b, a),
         r.connection = s.connection, r.proto = s.proto, r.unsent = s.unsent,
         r.violation = s.violation
  PROVE  Carried(p, s, a, r, b)
<1>1. \A k : Upheld(scene, p, s, k, a) => Upheld(scene, p, r, k, b)
  BY UpheldSame
<1>2. Fresh(scene, p, s, a) => Fresh(scene, p, r, b)
  BY UpheldSame
<1>3. LinkLine(p, b) = LinkLine(p, a)
  BY DEF SameLines, LinkLine, Keys
<1> QED BY <1>1, <1>2, <1>3 DEF Carried

(* The connections of peer q stay as they are.                             *)
SameConns(q) ==
  /\ ConnsOf(q, conns') = ConnsOf(q, conns)
  /\ \A c \in ConnsOf(q, conns) : conns'[c] = conns[c]

(* A step that leaves every connection alone leaves those of a peer.       *)
LEMMA ConnsSame ==
  ASSUME UNCHANGED conns, NEW q
  PROVE  SameConns(q)
BY DEF SameConns, ConnsOf

(* A step that changes one connection changes those of one peer.           *)
LEMMA OneConnOf ==
  ASSUME conns \in Seq(ConnStates), NEW c \in DOMAIN conns, NEW k, k.pid = conns[c].pid,
         conns' = [conns EXCEPT ![c] = k]
  PROVE  /\ \A q : ConnsOf(q, conns') = ConnsOf(q, conns)
         /\ \A q : q # conns[c].pid => SameConns(q)
         /\ conns'[c] = k /\ DOMAIN conns' = DOMAIN conns
<1>1. conns'[c] = k /\ DOMAIN conns' = DOMAIN conns
      /\ \A d \in DOMAIN conns : d # c => conns'[d] = conns[d]
  OBVIOUS
<1>2. \A q : ConnsOf(q, conns') = ConnsOf(q, conns)
  BY <1>1 DEF ConnsOf
<1>3. \A q : q # conns[c].pid => \A d \in ConnsOf(q, conns) : conns'[d] = conns[d]
  BY <1>1 DEF ConnsOf
<1> QED BY <1>1, <1>2, <1>3 DEF SameConns

(* The parts of PeerTurns in the current state.                            *)
Apart1(p) == Apart(scene, p, peers[p], writers[p], futures[p], outbound)
Live1(p, c) == Live(scene, p, peers[p], conns[c], c, writers[p], futures[p], outbound)
Linked(p) == ConnsOf(p, conns) # {} \/ Linking(futures[p], LinkLine(p, outbound))

(* PeerTurns in these words.                                               *)
LEMMA TurnsCases ==
  ASSUME NEW p \in Peers, PeerTurns(p)
  PROVE  /\ \/ ConnsOf(p, conns) = {} /\ Apart1(p)
            \/ \E c \in DOMAIN conns : ConnsOf(p, conns) = {c} /\ Live1(p, c)
         /\ Governed(peers[p], tag[p], Linked(p), p \in known, p \in cold_peers)
BY DEF PeerTurns, Apart1, Live1, Linked

(* What a step has to show.                                                *)
LEMMA StaysApart ==
  ASSUME NEW p \in Peers, UNCHANGED scene, ConnsOf(p, conns') = {},
         Apart(scene, p, peers'[p], writers'[p], futures'[p], outbound'),
         Governed(peers'[p], tag'[p], Linking(futures'[p], LinkLine(p, outbound')),
                  p \in known', p \in cold_peers')
  PROVE  PeerTurns(p)'
<1>1. (ConnsOf(p, conns') # {} \/ Linking(futures'[p], LinkLine(p, outbound')))
        = Linking(futures'[p], LinkLine(p, outbound'))
  BY DEF Linking
<1> QED BY <1>1 DEF PeerTurns

(* A peer that has its connection after the step.                          *)
LEMMA StaysLive ==
  ASSUME NEW p \in Peers, UNCHANGED scene, NEW c \in DOMAIN conns', ConnsOf(p, conns') = {c},
         Live(scene, p, peers'[p], conns'[c], c, writers'[p], futures'[p], outbound'),
         Governed(peers'[p], tag'[p], TRUE, p \in known', p \in cold_peers')
  PROVE  PeerTurns(p)'
<1>1. (ConnsOf(p, conns') # {} \/ Linking(futures'[p], LinkLine(p, outbound'))) = TRUE
  BY DEF Linking
<1> QED BY <1>1 DEF PeerTurns

(* A step that carries a peer on, and does not promote it against its      *)
(* link, keeps its turns.                                                  *)
LEMMA CarriedOn ==
  ASSUME InitiatorInv, UNCHANGED scene, NEW p \in Peers, PeerTurns(p), SameConns(p),
         writers'[p] = writers[p], futures'[p] = futures[p],
         Carried(p, peers[p], outbound, peers'[p], outbound'),
         p \in known => p \in known', p \in cold_peers' => p \in cold_peers,
         tag'[p] \in {"Warm", "Hot"} =>
           /\ p \notin cold_peers'
           /\ Linked(p) => tag[p] \in {"Warm", "Hot"} \/ peers'[p].connection # "New"
  PROVE  PeerTurns(p)'
<1>1. Governed(peers[p], tag[p], Linked(p), p \in known, p \in cold_peers)
  BY TurnsCases
<1>2. LinkLine(p, outbound') = LinkLine(p, outbound)
  BY DEF Carried
<1>3. /\ peers'[p].connection # "Disconnected"
      /\ tag'[p] \in {"Warm", "Hot"} => p \notin cold_peers'
      /\ Linked(p) => /\ p \in known' /\ p \notin cold_peers'
                      /\ tag'[p] \in {"Warm", "Hot"} => peers'[p].connection # "New"
  BY <1>1 DEF Governed, Carried
<1>4. CASE ConnsOf(p, conns) = {} /\ Apart1(p)
  <2>1. Linked(p) = Linking(futures[p], LinkLine(p, outbound))
    BY <1>4 DEF Linked, Linking
  <2>2. Governed(peers'[p], tag'[p], Linking(futures'[p], LinkLine(p, outbound')),
                 p \in known', p \in cold_peers')
    BY <1>2, <1>3, <2>1 DEF Governed
  <2>3. Apart(scene, p, peers'[p], writers'[p], futures'[p], outbound')
    BY <1>2, <1>4 DEF Apart, Apart1, Carried
  <2>4. ConnsOf(p, conns') = {}
    BY <1>4 DEF SameConns
  <2> QED BY <2>2, <2>3, <2>4, StaysApart
<1>5. CASE \E c \in DOMAIN conns : ConnsOf(p, conns) = {c} /\ Live1(p, c)
  <2>1. PICK c \in DOMAIN conns : ConnsOf(p, conns) = {c} /\ Live1(p, c)
    BY <1>5
  <2>2. conns'[c] = conns[c] /\ ConnsOf(p, conns') = {c} /\ conns[c] \in ConnStates
    BY <2>1, ConnFacts DEF SameConns
  <2>3. c \in DOMAIN conns'
    BY <2>2 DEF ConnsOf
  <2>4. Live(scene, p, peers'[p], conns'[c], c, writers'[p], futures'[p], outbound')
    BY <1>2, <2>1, <2>2 DEF Live, Live1, Carried
  <2>5. Governed(peers'[p], tag'[p], TRUE, p \in known', p \in cold_peers')
    BY <1>3, <2>1 DEF Governed, Linked
  <2> QED BY <2>2, <2>3, <2>4, <2>5, StaysLive
<1> QED BY <1>4, <1>5, TurnsCases

(* The peers that a step is not about.                                     *)
Aside(q) ==
  /\ SameConns(q) /\ writers'[q] = writers[q] /\ futures'[q] = futures[q]
  /\ peers'[q] = peers[q] /\ tag'[q] = tag[q] /\ SameLines(q, outbound', outbound)
  /\ q \in known => q \in known'
  /\ q \in cold_peers' => q \in cold_peers

(* A peer the step does not concern keeps its turns.                       *)
LEMMA AsideKeeps ==
  ASSUME InitiatorInv, UNCHANGED scene, NEW q \in Peers, PeerTurns(q), Aside(q)
  PROVE  PeerTurns(q)'
<1>1. Carried(q, peers[q], outbound, peers'[q], outbound')
  BY SameCarries DEF Aside
<1>2. tag[q] \in {"Warm", "Hot"} => q \notin cold_peers
  BY TurnsCases DEF Governed
<1> QED BY <1>1, <1>2, CarriedOn DEF Aside

(* A step concerns one peer at a time.                                     *)
LEMMA OneTurns ==
  ASSUME InitiatorInv, AllTurns, UNCHANGED scene, NEW p \in Peers,
         MaxConns = 1 => (\A q \in Peers \ {p} : Aside(q)) /\ PeerTurns(p)'
  PROVE  AllTurns'
<1>1. MaxConns' = MaxConns
  BY DEF MaxConns
<1>2. ASSUME MaxConns = 1, NEW q \in Peers PROVE PeerTurns(q)'
  BY <1>2, AsideKeeps DEF AllTurns
<1> QED BY <1>1, <1>2 DEF AllTurns

(* What governance does to the tags and to the cold set.                   *)
GovernsOnly(p) ==
  \A q \in Peers \ {p} : /\ tag'[q] = tag[q]
                         /\ q \in known => q \in known'
                         /\ q \in cold_peers' => q \in cold_peers

(* Categorizing, tagging and resetting change one peer; none gives a cold  *)
(* peer a tag that asks for a connection.                                  *)
LEMMA GovernFacts ==
  ASSUME GovernanceInv, NEW p \in Peers
  PROVE  /\ \A f, r : categorize_peer(p, f, r) /\ UNCHANGED known =>
              /\ GovernsOnly(p) /\ tag'[p] = TagAfter(p, f, r)
              /\ p \in cold_peers' => p \in cold_peers
              /\ tag'[p] \in {"Warm", "Hot"} =>
                   tag'[p] = tag[p] \/ p \notin cold_peers' \/ r
              /\ p \notin cold_peers /\ tag'[p] \in {"Warm", "Hot"} =>
                   tag'[p] = tag[p] \/ r
         /\ \A t : set_tag(p, t) => GovernsOnly(p) /\ tag'[p] \in {tag[p], t}
                                    /\ UNCHANGED <<known, cold_peers>>
         /\ reset_tag(p) => /\ GovernsOnly(p) /\ UNCHANGED <<known, cold_peers>>
                            /\ tag'[p] = IF p \in known THEN "Cold" ELSE tag[p]
         /\ on_discovered(p) => GovernsOnly(p) /\ tag'[p] = "Cold" /\ p \in known'
         /\ UNCHANGED govVars => /\ GovernsOnly(p)
                                 /\ UNCHANGED <<known, cold_peers, tag>>
<1>0. tag \in [Peers -> Tags]
  BY DEF GovernanceInv, GovernanceTypeOK
<1>1. ASSUME NEW f, NEW r, categorize_peer(p, f, r), UNCHANGED known
      PROVE  /\ GovernsOnly(p) /\ tag'[p] = TagAfter(p, f, r)
             /\ p \in cold_peers' => p \in cold_peers
             /\ tag'[p] \in {"Warm", "Hot"} =>
                  tag'[p] = tag[p] \/ p \notin cold_peers' \/ r
             /\ p \notin cold_peers /\ tag'[p] \in {"Warm", "Hot"} =>
                  tag'[p] = tag[p] \/ r
  <2>1. CASE MustBan(p, f) /\ ban_peer(p)
    BY <1>0, <1>1, <2>1 DEF ban_peer, GovernsOnly, TagAfter
  <2>2. CASE ~MustBan(p, f) /\ MustWarm(p) /\ promote_cold_peer(p)
    BY <1>0, <1>1, <2>2 DEF promote_cold_peer, GovernsOnly, TagAfter, MustWarm
  <2>3. CASE ~MustBan(p, f) /\ ~MustWarm(p) /\ MustHeat(p, r) /\ promote_warm_peer(p)
    <3>1. r
      BY <2>3, Zenon DEF MustHeat
    <3>3. tag' = [tag EXCEPT ![p] = "Hot"] /\ UNCHANGED cold_peers
      BY <2>3 DEF promote_warm_peer
    <3>4. tag'[p] = TagAfter(p, f, r)
      <4>1. TagAfter(p, f, r) = "Hot"
        BY <2>3 DEF TagAfter
      <4> QED BY <1>0, <3>3, <4>1
    <3> QED BY <1>0, <1>1, <3>1, <3>3, <3>4 DEF GovernsOnly
  <2>4. CASE ~MustBan(p, f) /\ ~MustWarm(p) /\ ~MustHeat(p, r) /\ UNCHANGED <<sets, tag>>
    BY <1>0, <1>1, <2>4 DEF sets, GovernsOnly, TagAfter
  <2> QED BY <1>1, <2>1, <2>2, <2>3, <2>4 DEF categorize_peer
<1>2. ASSUME NEW t, set_tag(p, t)
      PROVE  GovernsOnly(p) /\ tag'[p] \in {tag[p], t} /\ UNCHANGED <<known, cold_peers>>
  BY <1>0, <1>2 DEF set_tag, sets, GovernsOnly
<1>3. ASSUME reset_tag(p)
      PROVE  /\ GovernsOnly(p) /\ UNCHANGED <<known, cold_peers>>
             /\ tag'[p] = IF p \in known THEN "Cold" ELSE tag[p]
  BY <1>0, <1>3 DEF reset_tag, sets, GovernsOnly
<1>4. ASSUME on_discovered(p)
      PROVE  GovernsOnly(p) /\ tag'[p] = "Cold" /\ p \in known'
  BY <1>0, <1>4 DEF on_discovered, GovernsOnly
<1>5. ASSUME UNCHANGED govVars
      PROVE  GovernsOnly(p) /\ UNCHANGED <<known, cold_peers, tag>>
  BY <1>5 DEF govVars, GovernsOnly
<1> QED BY <1>1, <1>2, <1>3, <1>4, <1>5

-----------------------------------------------------------------------------
(* The commands of the application.                                        *)

(* Store writes back one peer's state and the queue.                       *)
LEMMA StoreFacts ==
  ASSUME InitiatorInv, NEW p \in Peers, NEW y, Store(p, y)
  PROVE  /\ peers'[p] = y.s /\ outbound' = y.out
         /\ \A q \in Peers \ {p} : peers'[q] = peers[q]
BY PeerFacts DEF Store

(* A step that stores one peer's context leaves the others aside.          *)
LEMMA StoreAside ==
  ASSUME InitiatorInv, NEW p \in Peers, NEW y, Store(p, y), GovernsOnly(p),
         \A q \in Peers \ {p} : /\ SameLines(q, y.out, outbound) /\ SameConns(q)
                                /\ writers'[q] = writers[q] /\ futures'[q] = futures[q]
  PROVE  \A q \in Peers \ {p} : Aside(q)
BY StoreFacts DEF Aside, GovernsOnly

(* A step that leaves the pool alone.                                      *)
LEMMA PoolSame ==
  ASSUME UNCHANGED poolVars
  PROVE  /\ UNCHANGED <<scene, conns, writers, futures>>
         /\ \A q : SameConns(q) /\ writers'[q] = writers[q] /\ futures'[q] = futures[q]
BY ConnsSame DEF poolVars

(* A visitor runs on a peer's state, the connections left alone.           *)
LEMMA SafeStep ==
  ASSUME InitiatorInv, AllTurns, UNCHANGED poolVars, NEW p \in Peers,
         NEW x, x.out = outbound, NEW y, Safe(p, x, y), Store(p, y),
         x.s.connection = peers[p].connection, x.s.proto = peers[p].proto,
         x.s.unsent = peers[p].unsent, x.s.violation = peers[p].violation,
         GovernsOnly(p), UNCHANGED <<known, cold_peers>>,
         tag'[p] \in {tag[p], "Cold", "Banned"}
  PROVE  AllTurns'
<1>1. \A q \in Peers \ {p} : Aside(q)
  BY StoreAside, PoolSame DEF Safe
<1>2. ASSUME MaxConns = 1 PROVE PeerTurns(p)'
  <2>1. PeerTurns(p)
    BY <1>2 DEF AllTurns
  <2>2. SameLines(p, outbound, outbound)
    BY DEF SameLines
  <2>3. Carried(p, peers[p], outbound, x.s, x.out) /\ Carried(p, x.s, x.out, y.s, y.out)
    BY <2>2, SameCarries, SafeCarries
  <2>4. Carried(p, peers[p], outbound, peers'[p], outbound')
    BY <2>3, StoreFacts DEF Carried
  <2>5. tag[p] \in {"Warm", "Hot"} => p \notin cold_peers
    BY <2>1, TurnsCases DEF Governed
  <2> QED BY <2>1, <2>4, <2>5, CarriedOn, PoolSame
<1> QED BY <1>1, <1>2, OneTurns, PoolSame

(* The commands that tag a peer, with the visitors on_tagged runs.         *)
LEMMA TaggedTurns ==
  ASSUME InitiatorInv, AllTurns, NEW p \in Peers,
         ContinueSync(p) \/ BanPeer(p) \/ DemotePeer(p)
  PROVE  AllTurns'
<1>1. UNCHANGED poolVars /\ p \in known /\ PeerOK(peers[p]) /\ GovernanceInv
  BY PeerFacts DEF ContinueSync, BanPeer, DemotePeer, Execute, InitiatorInv
<1>2. PICK s : /\ on_tagged(p, s) /\ PeerOK(s) /\ s.connection = peers[p].connection
               /\ s.proto = peers[p].proto /\ s.unsent = peers[p].unsent
               /\ s.violation = peers[p].violation
  <2>1. CASE ContinueSync(p)
    <3> DEFINE s == [peers[p] EXCEPT !.continue_sync = TRUE]
    <3>1. on_tagged(p, s)
      BY <2>1 DEF ContinueSync
    <3>2. /\ s \in PeerStates /\ s.connection = peers[p].connection
          /\ s.proto = peers[p].proto /\ s.unsent = peers[p].unsent
          /\ s.violation = peers[p].violation /\ s.in_flight = peers[p].in_flight
      BY <1>1 DEF PeerOK, PeerStates
    <3> HIDE DEF s
    <3>3. PeerOK(s)
      BY <1>1, <3>2 DEF PeerOK, WellKept, Free, At
    <3> QED BY <3>1, <3>2, <3>3
  <2>2. CASE BanPeer(p) \/ DemotePeer(p)
    BY <1>1, <2>2 DEF BanPeer, DemotePeer
  <2> QED BY <2>1, <2>2
<1>3. /\ GovernsOnly(p) /\ UNCHANGED <<known, cold_peers>>
      /\ tag'[p] \in {tag[p], "Cold", "Banned"}
  <2>1. UNCHANGED govVars \/ set_tag(p, "Banned") \/ set_tag(p, "Cold")
    BY DEF ContinueSync, BanPeer, DemotePeer
  <2> QED BY <1>1, <2>1, GovernFacts
<1> DEFINE x == Context(s)
<1> DEFINE y == chainsync_tagged(x, p)
<1>4. ContextOK(x) /\ x.s = s /\ x.out = outbound
  BY <1>2, ContextFacts DEF PeerOK, Context
<1>5. Store(p, y)
  BY <1>2 DEF on_tagged
<1> HIDE DEF x
<1>6. Safe(p, x, y)
  BY <1>4, SafeChainSync
<1> HIDE DEF y
<1> QED BY <1>1, <1>2, <1>3, <1>4, <1>5, <1>6, SafeStep

(* FetchEb queues the request and serves the queue.                        *)
LEMMA FetchEbTurns ==
  ASSUME InitiatorInv, AllTurns, NEW p \in Peers,
         NEW kind \in {"BlockRequest", "BlockTxsRequest"}, NEW eb \in Ebs,
         FetchEb(p, kind, eb)
  PROVE  AllTurns'
<1> DEFINE queue == Append(fetches, [pid |-> p, msg |-> Msg("leiosfetch", kind, eb)])
<1> DEFINE x == [Context(peers[p]) EXCEPT !.fetches = queue]
<1>1. /\ Store(p, IF p \in known THEN leios_serve_next(x, p, tag[p]) ELSE x)
      /\ UNCHANGED poolVars /\ UNCHANGED govVars
  BY DEF FetchEb, Execute
<1>2. PeerOK(peers[p]) /\ fetches \in Seq(Fetches) /\ GovernanceInv
  BY PeerFacts DEF InitiatorInv, BehaviorInv, BehaviorTypes
<1>3. queue \in Seq(Fetches)
  BY <1>2 DEF Fetches, EbRequests
<1> HIDE DEF queue
<1>4. ContextOK(Context(peers[p])) /\ Context(peers[p]).s = peers[p]
  BY <1>2, ContextFacts DEF PeerOK
<1>5. ContextOK(x) /\ x.s = peers[p] /\ x.out = outbound
  BY <1>3, <1>4 DEF ContextOK, Contexts, Context
<1> HIDE DEF x
<1>6. PICK y : Store(p, y) /\ Safe(p, x, y)
  BY <1>1, <1>5, SafeLeiosServe, SafeComposes
<1>7. /\ GovernsOnly(p) /\ UNCHANGED <<known, cold_peers>> /\ tag'[p] = tag[p]
  BY <1>1, <1>2, GovernFacts
<1> QED BY <1>1, <1>5, <1>6, <1>7, SafeStep

(* serve_block_fetch: a peer takes one range, or is left alone.            *)
LEMMA Served ==
  ASSUME InitiatorInv, NEW all \in [Peers -> PeerStates], \A q \in Peers : PeerOK(all[q]),
         NEW tags, NEW queue \in Seq(Ranges), serve_block_fetch(all, tags, queue),
         NEW p \in Peers
  PROVE  Carried(p, all[p], outbound, peers'[p], outbound')
<1> DEFINE A == Available(all, tags)
<1>0. known \subseteq Peers /\ outbound \in Seq(Outputs)
  BY PeerFacts
<1>1. A \subseteq known /\ A \subseteq Peers
  BY <1>0 DEF Available
<1>2. PICK order \in Orders(A, Least(Cardinality(A), Len(queue))) :
        /\ peers' = [q \in Peers |->
             IF \E i \in DOMAIN order : order[i] = q
               THEN [all[q] EXCEPT !.unsent["blockfetch"] =
                       RequestRange(queue[CHOOSE i \in DOMAIN order : order[i] = q])]
               ELSE all[q]]
        /\ outbound' = outbound \o [i \in DOMAIN order |-> Send(order[i], RequestRange(queue[i]))]
        /\ requests' = SubSeq(queue, Len(order) + 1, Len(queue))
  BY DEF serve_block_fetch
<1>3. /\ order \in Seq(A) /\ DOMAIN order = 1..Len(order) /\ Len(order) <= Len(queue)
      /\ \A i, j \in DOMAIN order : order[i] = order[j] => i = j
  BY <1>1, <1>2, OrderFacts
<1>4. \A i \in DOMAIN order : /\ order[i] \in A /\ order[i] \in Peers
                              /\ queue[i] \in Ranges /\ RequestRange(queue[i]) \in Asks
  <2>1. \A i \in DOMAIN order : order[i] \in A /\ queue[i] \in Ranges /\ order[i] \in Peers
    BY <1>1, <1>3
  <2> QED BY <2>1 DEF Asks
<1> DEFINE sends == [i \in DOMAIN order |-> Send(order[i], RequestRange(queue[i]))]
<1>5. /\ sends \in Seq(Outputs) /\ DOMAIN sends = DOMAIN order
      /\ \A i \in DOMAIN order : sends[i] = Send(order[i], RequestRange(queue[i]))
  <2>1. ASSUME NEW i \in DOMAIN order PROVE Send(order[i], RequestRange(queue[i])) \in Outputs
    BY <1>4, OutputFacts
  <2>2. sends \in [1..Len(order) -> Outputs] /\ Len(order) \in Nat
    BY <1>3, <2>1
  <2>3. sends \in Seq(Outputs)
    <3> HIDE DEF sends
    <3> QED BY <2>2
  <2> QED BY <2>3
<1>6. outbound' = outbound \o sends
  BY <1>2
<1> HIDE DEF sends
<1>7. ASSUME NEW ch \in Keys
      PROVE  /\ OutLine(p, ch, outbound') = OutLine(p, ch, outbound) \o OutLine(p, ch, sends)
             /\ MapsTo(OutToken(p, ch), Outputs, Seq(Tokens))
  <2> DEFINE g == OutToken(p, ch)
  <2>1. MapsTo(g, Outputs, Seq(Tokens))
    BY TokenFacts
  <2> HIDE DEF g
  <2>2. FlatMap(g, outbound \o sends) = FlatMap(g, outbound) \o FlatMap(g, sends)
    BY <1>0, <1>5, <2>1, FlatMapFacts
  <2> QED BY <1>6, <2>1, <2>2 DEF OutLine, g
<1>8. \A i \in DOMAIN order : sends[i] \in Outputs /\ sends[i].pid = order[i]
  BY <1>5 DEF Send
<1>9. CASE ~\E i \in DOMAIN order : order[i] = p
  <2>1. peers'[p] = all[p]
    BY <1>2, <1>9
  <2>2. ASSUME NEW ch \in Keys PROVE OutLine(p, ch, outbound') = OutLine(p, ch, outbound)
    <3>1. \A i \in DOMAIN sends : OutToken(p, ch)[sends[i]] = <<>>
      BY <1>5, <1>8, <1>9, OutTokens
    <3>2. OutLine(p, ch, sends) = <<>>
      BY <1>5, <1>7, <3>1, FlatMapEmpty DEF OutLine
    <3>3. OutLine(p, ch, outbound) \in Seq(Tokens)
      BY <1>0, OutEnds
    <3> QED BY <1>7, <3>2, <3>3
  <2> QED BY <2>1, <2>2, SameCarries DEF SameLines
<1>10. CASE \E i \in DOMAIN order : order[i] = p
  <2>1. PICK i \in DOMAIN order : order[i] = p
    BY <1>10
  <2> DEFINE m == RequestRange(queue[i])
  <2>2. (CHOOSE j \in DOMAIN order : order[j] = p) = i
    BY <1>3, <2>1
  <2>3. peers'[p] = [all[p] EXCEPT !.unsent["blockfetch"] = m]
    BY <1>2, <2>1, <2>2
  <2>4. /\ FetchAvailable(all[p], tags[p]) /\ CanSend(all[p], RequestRange(None))
        /\ PeerOK(all[p])
    BY <1>4, <2>1 DEF Available
  <2>5. m \in Asks /\ m.ch = "blockfetch" /\ sends[i] = Send(p, m)
    BY <1>4, <1>5, <2>1 DEF RequestRange, Msg
  <2>6. CanSend(all[p], m)
    BY <2>4 DEF CanSend, can_apply, RequestRange, Msg, CanApply, IsRequest
  <2> HIDE DEF m
  <2>7. ASSUME NEW ch \in Keys
        PROVE  OutLine(p, ch, outbound') = OutLine(p, ch, Append(outbound, Send(p, m)))
    <3>1. \A j \in DOMAIN sends \ {i} : OutToken(p, ch)[sends[j]] = <<>>
      <4>1. \A j \in DOMAIN sends \ {i} : sends[j] \in Outputs /\ sends[j].pid # p
        BY <1>3, <1>5, <1>8, <2>1
      <4> QED BY <4>1, OutTokens
    <3>2. OutLine(p, ch, sends) = OutToken(p, ch)[Send(p, m)]
      <4> DEFINE g == OutToken(p, ch)
      <4>1. MapsTo(g, Outputs, Seq(Tokens)) /\ \A j \in DOMAIN sends \ {i} : g[sends[j]] = <<>>
        BY <1>7, <3>1
      <4> HIDE DEF g
      <4>2. FlatMap(g, sends) = g[sends[i]]
        BY <1>5, <2>1, <4>1, FlatMapOnce
      <4> QED BY <2>5, <4>2 DEF OutLine, g
    <3>3. Send(p, m) \in Outputs
      BY <2>5, OutputFacts
    <3>4. OutLine(p, ch, Append(outbound, Send(p, m)))
            = OutLine(p, ch, outbound) \o OutToken(p, ch)[Send(p, m)]
      BY <1>0, <3>3, OutEnds
    <3>5. OutLine(p, ch, outbound') = OutLine(p, ch, outbound) \o OutLine(p, ch, sends)
      BY <1>7
    <3> QED BY <3>2, <3>4, <3>5, Zenon
  <2> DEFINE x == Context(all[p])
  <2> DEFINE y == try_send_request(x, p, m)
  <2>8. ContextOK(x) /\ x.s = all[p] /\ x.out = outbound
    BY <2>4, ContextFacts DEF PeerOK, Context
  <2>9. y.s = peers'[p] /\ y.out = Append(outbound, Send(p, m))
    <3>1. x.s \in PeerStates /\ x \in Contexts
      BY <2>8 DEF ContextOK, Contexts
    <3> HIDE DEF x
    <3> QED BY <2>3, <2>5, <2>6, <2>8, <3>1 DEF try_send_request, Push, Contexts
  <2> HIDE DEF x
  <2>10. Safe(p, x, y)
    <3>1. Awake(x.s)
      BY <2>4, <2>8 DEF FetchAvailable, Awake
    <3>2. x.s.proto[m.ch].at \in Asking[m.ch]
      BY <2>5, <2>6, <2>8, SendsWhereAsked
    <3>3. m.ch \notin Leioses
      BY <2>5 DEF Leioses
    <3> QED BY <2>5, <2>8, <3>1, <3>2, <3>3, SafeAsk
  <2> HIDE DEF y
  <2>11. Carried(p, x.s, x.out, y.s, y.out)
    BY <2>10, SafeCarries
  <2>12. Carried(p, y.s, y.out, peers'[p], outbound')
    BY <2>7, <2>9, SameCarries DEF SameLines
  <2> QED BY <2>8, <2>11, <2>12 DEF Carried
<1> QED BY <1>9, <1>10

(* RequestBlocks queues the range and serves the queue.                    *)
LEMMA RequestBlocksTurns ==
  ASSUME InitiatorInv, AllTurns, NEW r \in Ranges, RequestBlocks(r)
  PROVE  AllTurns'
<1>1. /\ serve_block_fetch(peers, tag, Append(requests, r))
      /\ UNCHANGED poolVars /\ UNCHANGED govVars
  BY DEF RequestBlocks, Execute
<1>2. Append(requests, r) \in Seq(Ranges) /\ UNCHANGED <<known, cold_peers, tag>>
  BY <1>1 DEF InitiatorInv, BehaviorInv, BehaviorTypes, govVars
<1>3. MaxConns' = MaxConns
  BY <1>1 DEF MaxConns, poolVars
<1>4. ASSUME MaxConns = 1, NEW p \in Peers PROVE PeerTurns(p)'
  <2>1. PeerTurns(p)
    BY <1>4 DEF AllTurns
  <2>2. Carried(p, peers[p], outbound, peers'[p], outbound')
    BY <1>1, <1>2, PeerFacts, Served
  <2>3. tag[p] \in {"Warm", "Hot"} => p \notin cold_peers
    BY <2>1, TurnsCases DEF Governed
  <2> QED BY <1>1, <1>2, <2>1, <2>2, <2>3, CarriedOn, PoolSame
<1> QED BY <1>3, <1>4 DEF AllTurns

(* A new entry for a peer that has no connection and none under way.       *)
LEMMA NewFresh ==
  ASSUME scene \in Scenarios, NEW p, NEW s, NEW out, s.connection = "New",
         s.proto = [ch \in Channels |-> Default(ch)], s.violation = FALSE,
         \A ch \in AllChannels : OutLine(p, ch, out) = <<>>
  PROVE  Fresh(scene, p, s, out)
<1>1. "chainsync" \in Channels => s.proto["chainsync"].at # "IdleNoIntersection"
  <2>1. "chainsync" \in AllChannels /\ StartAt["chainsync"] # "IdleNoIntersection"
    BY DEF AllChannels, StartAt
  <2> QED BY <2>1, DefaultFacts
<1> QED BY <1>1 DEF Fresh, Innocent, Channels

(* A new state, and a state reset by a disconnect.                         *)
LEMMA NewStateFacts ==
  /\ NewState.connection = "New" /\ NewState.violation = FALSE
  /\ NewState.proto = [ch \in Channels |-> Default(ch)]
  /\ \A s : /\ reset(s).connection = "New" /\ reset(s).violation = FALSE
            /\ reset(s).proto = [ch \in Channels |-> Default(ch)]
BY DEF NewState, reset

(* The cardinality of a set of indices.                                    *)
LEMMA SmallSet ==
  ASSUME NEW n \in Nat, NEW S, S \subseteq 1..n
  PROVE  Cardinality(S) \in Nat /\ (Cardinality(S) = 0 => S = {})
<1>1. IsFiniteSet(1..n)
  BY FS_Interval
<1>2. IsFiniteSet(S)
  BY <1>1, FS_Subset
<1> QED BY <1>2, FS_CardinalityType, FS_EmptySet

(* A peer the budget still allows to connect has no link.                  *)
LEMMA NotLinked ==
  ASSUME InitiatorInv, NEW p \in Peers, ConnectsOf(p) < 1
  PROVE  ~Linked(p)
<1> DEFINE A == {c \in DOMAIN conns : conns[c].pid = p}
<1> DEFINE B == Connects(p)
<1> DEFINE D == {i \in DOMAIN outbound : outbound[i] = Connect(p)}
<1>0. /\ conns \in Seq(ConnStates) /\ futures[p] \in Seq({"connect", "ready"})
      /\ outbound \in Seq(Outputs)
  BY PeerFacts DEF InitiatorInv, PoolTypes
<1>1. Len(conns) \in Nat /\ Len(futures[p]) \in Nat /\ Len(outbound) \in Nat
  BY <1>0
<1>2. A \subseteq 1..Len(conns) /\ B \subseteq 1..Len(futures[p]) /\ D \subseteq 1..Len(outbound)
  BY <1>0 DEF Connects
<1>3. Cardinality(A) + Cardinality(B) + Cardinality(D) < 1
  BY DEF ConnectsOf
<1>4. /\ A = {} \/ Cardinality(A) # 0
      /\ B = {} \/ Cardinality(B) # 0
      /\ D = {} \/ Cardinality(D) # 0
      /\ Cardinality(A) \in Nat /\ Cardinality(B) \in Nat /\ Cardinality(D) \in Nat
  <2> HIDE DEF A, B, D
  <2> QED BY <1>1, <1>2, SmallSet
<1>5. A = {} /\ B = {} /\ D = {}
  <2> DEFINE a == Cardinality(A)
  <2> DEFINE b == Cardinality(B)
  <2> DEFINE d == Cardinality(D)
  <2>1. a \in Nat /\ b \in Nat /\ d \in Nat /\ a + b + d < 1
    BY <1>3, <1>4
  <2> HIDE DEF a, b, d
  <2>2. a = 0 /\ b = 0 /\ d = 0
    BY <2>1
  <2> QED BY <1>4, <2>2 DEF a, b, d
<1>6. ConnsOf(p, conns) = {}
  BY <1>5 DEF ConnsOf
<1>7. ~\E i \in DOMAIN futures[p] : futures[p][i] = "connect"
  BY <1>5 DEF Connects
<1>8. ASSUME NEW j \in DOMAIN LinkLine(p, outbound), LinkLine(p, outbound)[j] = "connect"
      PROVE  FALSE
  <2> DEFINE g == OutToken(p, "link")
  <2>1. MapsTo(g, Outputs, Seq(Tokens)) /\ LinkLine(p, outbound) = FlatMap(g, outbound)
    BY TokenFacts DEF LinkLine, OutLine, Keys
  <2> HIDE DEF g
  <2>2. \E i \in DOMAIN outbound : \E n \in DOMAIN g[outbound[i]] :
           g[outbound[i]][n] = FlatMap(g, outbound)[j]
    BY <1>0, <1>8, <2>1, FlatMapElement
  <2>3. PICK i \in DOMAIN outbound : \E n \in DOMAIN g[outbound[i]] :
           g[outbound[i]][n] = "connect"
    BY <1>8, <2>1, <2>2
  <2> DEFINE o == outbound[i]
  <2>4. o \in Outputs /\ \E n \in DOMAIN g[o] : g[o][n] = "connect"
    BY <1>0, <2>3
  <2> HIDE DEF o
  <2>5. o.pid = p /\ o.do = "Connect"
    <3>1. "link" \in Keys
      BY DEF Keys
    <3>2. o.do = "Send" => o.msg.ch # "link"
      BY <2>4, AsksKinds DEF Outputs, Events
    <3>3. g[o] # <<>> /\ g[o] # <<"ready">>
      BY <2>4
    <3> HIDE DEF Outputs
    <3>4. o.pid = p
      BY <2>4, <3>1, <3>3, OutTokens DEF g
    <3>5. o.do # "Send"
      <4>1. o.do = "Send" => g[o] = IF o.msg.ch = "link" THEN <<o.msg>> ELSE <<>>
        BY <2>4, <3>1, <3>4, OutTokens DEF g
      <4> QED BY <3>2, <3>3, <4>1
    <3>6. o.do # "Disconnect"
      BY <2>4, <3>1, <3>3, <3>4, OutTokens DEF g
    <3> QED BY <2>4, <3>1, <3>3, <3>4, <3>5, <3>6, OutTokens DEF g
  <2>6. o = Connect(p)
    BY <2>4, <2>5 DEF Outputs, Events, Connect
  <2> QED BY <1>5, <2>6 DEF o
<1> QED BY <1>6, <1>7, <1>8 DEF Linked, Linking

(* An entry is made or replaced where nothing is linked.                   *)
LEMMA NewEntry ==
  ASSUME InitiatorInv, UNCHANGED <<scene, outbound>>, NEW p \in Peers, PeerTurns(p), ~Linked(p),
         SameConns(p), writers'[p] = writers[p], futures'[p] = futures[p],
         peers'[p] = NewState, tag'[p] = "Cold"
  PROVE  PeerTurns(p)'
<1>1. ConnsOf(p, conns) = {} /\ ~Linking(futures[p], LinkLine(p, outbound))
  BY DEF Linked
<1>2. Apart1(p)
  BY <1>1, TurnsCases
<1>3. Fresh(scene, p, NewState, outbound)
  <2>1. \A ch \in AllChannels : OutLine(p, ch, outbound) = <<>>
    BY <1>2 DEF Apart1, Apart, Fresh
  <2>2. scene \in Scenarios
    BY DEF InitiatorInv
  <2> QED BY <2>1, <2>2, NewFresh, NewStateFacts
<1>4. Apart(scene, p, peers'[p], writers'[p], futures'[p], outbound')
  BY <1>1, <1>2, <1>3 DEF Apart1, Apart
<1>5. Governed(peers'[p], tag'[p], Linking(futures'[p], LinkLine(p, outbound')),
               p \in known', p \in cold_peers')
  BY <1>1, NewStateFacts DEF Governed
<1>6. ConnsOf(p, conns') = {}
  BY <1>1 DEF SameConns
<1> QED BY <1>4, <1>5, <1>6, StaysApart

(* IncludePeer starts a peer afresh only if it is not tracked.             *)
LEMMA IncludeTurns ==
  ASSUME InitiatorInv, AllTurns, NEW p \in Peers, IncludePeer(p)
  PROVE  AllTurns'
<1>1. /\ UNCHANGED poolVars /\ UNCHANGED outbound /\ on_discovered(p)
      /\ peers' = [peers EXCEPT ![p] = NewState] /\ ConnectsOf(p) < MaxConns
  BY DEF IncludePeer, Execute
<1>2. GovernsOnly(p) /\ tag'[p] = "Cold"
  BY <1>1, GovernFacts DEF InitiatorInv
<1>3. peers'[p] = NewState /\ \A q \in Peers \ {p} : peers'[q] = peers[q]
  BY <1>1, PeerFacts
<1>4. \A q \in Peers \ {p} : Aside(q)
  BY <1>1, <1>2, <1>3, PoolSame DEF Aside, GovernsOnly, SameLines
<1>5. ASSUME MaxConns = 1 PROVE PeerTurns(p)'
  <2>1. ~Linked(p) /\ PeerTurns(p)
    BY <1>1, <1>5, NotLinked DEF AllTurns
  <2> QED BY <1>1, <1>2, <1>3, <2>1, NewEntry, PoolSame
<1> QED BY <1>1, <1>4, <1>5, OneTurns, PoolSame

(* The end of a housekeeping pass takes in the discovered peers.           *)
LEMMA EndTurns ==
  ASSUME InitiatorInv, AllTurns, HousekeepingEnd
  PROVE  AllTurns'
<1>1. UNCHANGED poolVars /\ UNCHANGED outbound
  BY DEF HousekeepingEnd
<1>2. PICK new \in SUBSET discovered :
        /\ move_discovered_into_promotion(new)
        /\ peers' = [p \in Peers |-> IF p \in new \ known THEN NewState ELSE peers[p]]
  BY DEF HousekeepingEnd
<1>3. MaxConns' = MaxConns
  BY <1>1 DEF MaxConns, poolVars
<1>4. ASSUME MaxConns = 1, NEW p \in Peers PROVE PeerTurns(p)'
  <2>0. PeerTurns(p)
    BY <1>4 DEF AllTurns
  <2>1. CASE p \in new \ known
    <3>1. peers'[p] = NewState /\ tag'[p] = "Cold"
      BY <1>2, <2>1 DEF move_discovered_into_promotion
    <3>2. ~Linked(p)
      BY <2>0, <2>1, TurnsCases DEF Governed
    <3> QED BY <1>1, <2>0, <3>1, <3>2, NewEntry, PoolSame
  <2>2. CASE p \notin new \ known
    <3>1. /\ peers'[p] = peers[p] /\ tag'[p] = tag[p]
          /\ p \in known => p \in known'
          /\ p \in cold_peers' => p \in cold_peers
      BY <1>2, <2>2 DEF move_discovered_into_promotion
    <3>2. Aside(p)
      BY <1>1, <3>1, PoolSame DEF Aside, SameLines
    <3> QED BY <1>1, <2>0, <3>2, AsideKeeps, PoolSame
  <2> QED BY <2>1, <2>2
<1> QED BY <1>3, <1>4 DEF AllTurns

(* Steps that leave every peer alone.                                      *)
LEMMA IdleTurns ==
  ASSUME InitiatorInv, AllTurns, UNCHANGED <<poolVars, govVars, peers, outbound>>
  PROVE  AllTurns'
<1>1. UNCHANGED poolVars /\ UNCHANGED govVars /\ UNCHANGED <<peers, outbound>>
  OBVIOUS
<1>2. \A q \in Peers : Aside(q)
  BY <1>1, PoolSame DEF Aside, SameLines, govVars
<1>3. MaxConns' = MaxConns /\ UNCHANGED scene
  BY <1>1 DEF MaxConns, poolVars
<1>4. ASSUME MaxConns = 1, NEW q \in Peers PROVE PeerTurns(q)'
  BY <1>2, <1>3, <1>4, AsideKeeps DEF AllTurns
<1> QED BY <1>3, <1>4 DEF AllTurns

-----------------------------------------------------------------------------
(* Housekeeping of one peer.                                               *)

(* Categorizing a tracked peer keeps it governed.                          *)
LEMMA CategorizeGoverned ==
  ASSUME InitiatorInv, NEW p \in known, NEW s, s.connection = peers[p].connection,
         categorize_peer(p, faulty(s), is_initialized(s)), UNCHANGED known
  PROVE  /\ GovernsOnly(p) /\ tag'[p] = TagAfter(p, faulty(s), is_initialized(s))
         /\ PeerTurns(p) =>
              /\ peers[p].connection # "Disconnected"
              /\ tag'[p] \in {"Warm", "Hot"} => p \notin cold_peers'
              /\ Linked(p) => /\ p \notin cold_peers'
                              /\ tag'[p] \in {"Warm", "Hot"} => peers[p].connection # "New"
<1>0. p \in Peers /\ GovernanceInv
  BY PeerFacts DEF InitiatorInv
<1>1. /\ GovernsOnly(p) /\ tag'[p] = TagAfter(p, faulty(s), is_initialized(s))
      /\ p \in cold_peers' => p \in cold_peers
      /\ tag'[p] \in {"Warm", "Hot"} =>
           tag'[p] = tag[p] \/ p \notin cold_peers' \/ is_initialized(s)
      /\ p \notin cold_peers /\ tag'[p] \in {"Warm", "Hot"} =>
           tag'[p] = tag[p] \/ is_initialized(s)
  BY <1>0, GovernFacts
<1>2. ASSUME PeerTurns(p)
      PROVE  /\ peers[p].connection # "Disconnected"
             /\ tag'[p] \in {"Warm", "Hot"} => p \notin cold_peers'
             /\ Linked(p) => /\ p \notin cold_peers'
                             /\ tag'[p] \in {"Warm", "Hot"} => peers[p].connection # "New"
  <2>1. Governed(peers[p], tag[p], Linked(p), p \in known, p \in cold_peers)
    BY <1>0, <1>2, TurnsCases
  <2>2. is_initialized(s) => Linked(p) /\ peers[p].connection # "New"
    <3>1. ConnsOf(p, conns) = {} => Apart1(p)
      BY <1>0, <1>2, TurnsCases
    <3>2. is_initialized(s) => peers[p].connection = "Initialized"
      BY DEF is_initialized
    <3> QED BY <3>1, <3>2 DEF Apart1, Apart, Fresh, Linked
  <2> QED BY <1>1, <2>1, <2>2 DEF Governed
<1> QED BY <1>1, <1>2

(* A new connection state alone changes little.                            *)
LEMMA UpheldOn ==
  ASSUME NEW p, NEW s, NEW r, NEW a, NEW b,
         \A ch \in AllChannels : OutLine(p, ch, a) = OutLine(p, ch, b),
         r.proto = s.proto, r.unsent = s.unsent, r.violation = s.violation
  PROVE  /\ r.connection \in {"Connected", "Initialized", "Errored"} =>
              \A k : Upheld(scene, p, s, k, b) => Upheld(scene, p, r, k, a)
         /\ Fresh(scene, p, s, b) /\ r.connection \in {"New", "Connecting", "Errored"} =>
              Fresh(scene, p, r, a)
<1>1. \A ch, line : Pending(scene, s, ch, line) => Pending(scene, r, ch, line)
  BY DEF Pending, Version
<1>2. \A k : Mirrored(scene, s, k) => Mirrored(scene, r, k)
  BY DEF Mirrored
<1>3. Innocent(scene, p, s) => Innocent(scene, p, r)
  BY DEF Innocent
<1> HIDE DEF Pending, Mirrored, Innocent
<1> QED BY <1>1, <1>2, <1>3 DEF Upheld, Fresh

(* A Connect or a Disconnect joins the link line.                          *)
Joined(p, x, y, token) ==
  /\ ContextOK(y) /\ y.s = x.s
  /\ \A q \in Peers \ {p} : SameLines(q, y.out, x.out)
  /\ \A ch \in AllChannels : OutLine(p, ch, y.out) = OutLine(p, ch, x.out)
  /\ LinkLine(p, y.out) = Append(LinkLine(p, x.out), token)

(* Pushing a Connect or a Disconnect joins the link line.                  *)
LEMMA JoinLink ==
  ASSUME NEW p \in Peers, NEW x, ContextOK(x)
  PROVE  /\ Joined(p, x, Push(x, Connect(p)), "connect")
         /\ Joined(p, x, Push(x, Disconnect(p)), "ready")
<1>0. x.out \in Seq(Outputs)
  BY DEF ContextOK, Contexts
<1>1. ASSUME NEW o \in {Connect(p), Disconnect(p)}
      PROVE  Joined(p, x, Push(x, o), IF o.do = "Connect" THEN "connect" ELSE "ready")
  <2>1. o \in Outputs /\ o.pid = p /\ o.do \in {"Connect", "Disconnect"}
    <3>1. o \in Outputs
      BY OutputFacts
    <3>2. o.pid = p /\ o.do \in {"Connect", "Disconnect"}
      BY DEF Connect, Disconnect
    <3> QED BY <3>1, <3>2
  <2> DEFINE y == Push(x, o)
  <2>2. ContextOK(y) /\ y.s = x.s
    BY <2>1, PushOK
  <2>3. y.out = Append(x.out, o)
    BY DEF Push, ContextOK, Contexts
  <2> HIDE DEF y
  <2>4. /\ \A q : q # p => SameLines(q, y.out, x.out)
        /\ \A ch \in AllChannels : OutLine(p, ch, y.out) = OutLine(p, ch, x.out)
        /\ LinkLine(p, y.out) = Append(LinkLine(p, x.out),
                                       IF o.do = "Connect" THEN "connect" ELSE "ready")
    <3> DEFINE q0 == x.out
    <3>0. q0 \in Seq(Outputs)
      BY <1>0
    <3> HIDE DEF q0
    <3>1. /\ \A q : q # o.pid => SameLines(q, Append(q0, o), q0)
          /\ \A q : \A ch \in AllChannels : OutLine(q, ch, Append(q0, o)) = OutLine(q, ch, q0)
          /\ o.do = "Connect" =>
               LinkLine(o.pid, Append(q0, o)) = Append(LinkLine(o.pid, q0), "connect")
          /\ o.do = "Disconnect" =>
               LinkLine(o.pid, Append(q0, o)) = Append(LinkLine(o.pid, q0), "ready")
      BY <2>1, <3>0, PushLines
    <3> QED BY <2>1, <2>3, <3>1 DEF q0
  <2> QED BY <2>2, <2>4 DEF Joined, y
<1>2. Connect(p).do = "Connect" /\ Disconnect(p).do = "Disconnect"
  BY DEF Connect, Disconnect
<1> QED BY <1>1, <1>2

(* The types of the link line and of the futures.                          *)
LEMMA LinkTypes ==
  ASSUME InitiatorInv, NEW p \in Peers
  PROVE  LinkLine(p, outbound) \in Seq(Tokens) /\ futures[p] \in Seq(Tokens)
<1>1. futures[p] \in Seq({"connect", "ready"}) /\ outbound \in Seq(Outputs)
  BY PeerFacts DEF InitiatorInv, PoolTypes
<1>2. futures[p] \in Seq(Tokens)
  <2>1. {"connect", "ready"} \subseteq Tokens
    BY DEF Tokens
  <2> HIDE DEF Tokens
  <2> QED BY <1>1, <2>1
<1> QED BY <1>1, <1>2, OutEnds DEF LinkLine, Keys

(* What a Connect or a Disconnect at the end of the link line does.        *)
LEMMA JoinedLink ==
  ASSUME NEW fut, NEW link \in Seq(Tokens)
  PROVE  /\ Linking(fut, Append(link, "ready")) = Linking(fut, link)
         /\ ~Linking(fut, link) => /\ ConnectLast(fut, link)
                                   /\ ConnectLast(fut, Append(link, "ready"))
                                   /\ ConnectLast(fut, Append(link, "connect"))
         /\ Linking(fut, Append(link, "connect"))
<1>1. ASSUME NEW x \in {"connect", "ready"}
      PROVE  /\ Len(link) \in Nat /\ DOMAIN link = 1..Len(link)
             /\ Len(Append(link, x)) = Len(link) + 1
             /\ DOMAIN Append(link, x) = 1..(Len(link) + 1)
             /\ Append(link, x)[Len(link) + 1] = x
             /\ \A i \in 1..Len(link) : Append(link, x)[i] = link[i]
  <2>1. x \in Tokens
    BY DEF Tokens
  <2> HIDE DEF Tokens
  <2> QED BY <2>1
<1> DEFINE a == Append(link, "ready")
<1> DEFINE b == Append(link, "connect")
<1>2. /\ Len(link) \in Nat /\ DOMAIN link = 1..Len(link)
      /\ Len(a) = Len(link) + 1 /\ DOMAIN a = 1..(Len(link) + 1)
      /\ a[Len(link) + 1] = "ready" /\ \A i \in 1..Len(link) : a[i] = link[i]
      /\ Len(b) = Len(link) + 1 /\ DOMAIN b = 1..(Len(link) + 1)
      /\ b[Len(link) + 1] = "connect" /\ \A i \in 1..Len(link) : b[i] = link[i]
  BY <1>1
<1> HIDE DEF a, b
<1>3. (\E i \in DOMAIN a : a[i] = "connect") = (\E i \in DOMAIN link : link[i] = "connect")
  BY <1>2
<1>4. Linking(fut, a) = Linking(fut, link)
  BY <1>3 DEF Linking
<1>5. ASSUME ~Linking(fut, link)
      PROVE  ConnectLast(fut, link) /\ ConnectLast(fut, a) /\ ConnectLast(fut, b)
  <2>1. /\ \A i \in DOMAIN fut : fut[i] # "connect"
        /\ \A i \in DOMAIN link : link[i] # "connect"
    BY <1>5 DEF Linking
  <2>2. \A i \in DOMAIN a : a[i] # "connect"
    BY <1>3, <2>1
  <2>3. \A i \in DOMAIN b : b[i] = "connect" => i = Len(b)
    BY <1>2, <2>1
  <2> QED BY <2>1, <2>2, <2>3 DEF ConnectLast
<1>6. Linking(fut, b)
  <2>1. Len(link) + 1 \in DOMAIN b
    BY <1>2
  <2> QED BY <1>2, <2>1 DEF Linking
<1> QED BY <1>4, <1>5, <1>6 DEF a, b

(* The visitor of the connection: nothing, a disconnect, or a connect.     *)
LEMMA HousekeepCases ==
  ASSUME NEW p \in Peers, NEW x, ContextOK(x), NEW t, x.s.connection # "Disconnected"
  PROVE  LET y == connection_housekeeping(x, p, t)
             z == [x EXCEPT !.s.connection = "Connecting"]
         IN  \/ y = x /\ ~(x.s.connection = "New" /\ t \in {"Warm", "Hot"})
             \/ /\ y = Push(x, Disconnect(p))
                /\ x.s.connection \in {"Errored", "Connected", "Initialized"}
             \/ /\ x.s.connection = "New" /\ t \in {"Warm", "Hot"}
                /\ y = Push(z, Connect(p))
                /\ ContextOK(z) /\ z.s.connection = "Connecting" /\ z.out = x.out
                /\ z.s.proto = x.s.proto /\ z.s.unsent = x.s.unsent
                /\ z.s.violation = x.s.violation
<1> DEFINE z == [x EXCEPT !.s.connection = "Connecting"]
<1> DEFINE y == Push(z, Connect(p))
<1>1. CASE needs_connection(x.s, t)
  <2>1. x.s.connection = "New" /\ t \in {"Warm", "Hot"}
    BY <1>1 DEF needs_connection
  <2>2. ContextOK(z)
    BY SetConnectionFine DEF Fine, ConnectionStates
  <2>3. /\ z.s.connection = "Connecting" /\ z.out = x.out
        /\ z.s.proto = x.s.proto /\ z.s.unsent = x.s.unsent
        /\ z.s.violation = x.s.violation
    BY DEF ContextOK, Contexts, PeerStates
  <2>4. connection_housekeeping(x, p, t) = IF needs_disconnect(y.s, t) THEN Push(y, Disconnect(p)) ELSE y
    BY <1>1 DEF connection_housekeeping
  <2> HIDE DEF z
  <2>5. y.s.connection = "Connecting"
    BY <2>2, <2>3, OutputFacts, PushOK
  <2>6. ~needs_disconnect(y.s, t)
    BY <2>5 DEF needs_disconnect
  <2> HIDE DEF y
  <2>7. connection_housekeeping(x, p, t) = y
    BY <2>4, <2>6
  <2> QED BY <2>1, <2>2, <2>3, <2>7 DEF y, z
<1>2. CASE ~needs_connection(x.s, t)
  <2>1. connection_housekeeping(x, p, t) =
          IF needs_disconnect(x.s, t) THEN Push(x, Disconnect(p)) ELSE x
    BY <1>2 DEF connection_housekeeping
  <2>2. ~(x.s.connection = "New" /\ t \in {"Warm", "Hot"})
    BY <1>2 DEF needs_connection
  <2>3. needs_disconnect(x.s, t) => x.s.connection \in {"Errored", "Connected", "Initialized"}
    BY DEF needs_disconnect
  <2> QED BY <2>1, <2>2, <2>3
<1> QED BY <1>1, <1>2

(* A housekeeping visit categorizes, connects or disconnects, and runs     *)
(* every visitor.                                                          *)
LEMMA VisitTurns ==
  ASSUME InitiatorInv, AllTurns, NEW p \in Peers, HousekeepingVisit(p)
  PROVE  AllTurns'
<1> DEFINE s == peers[p]
<1> DEFINE x == Context(s)
<1> DEFINE t == TagAfter(p, faulty(s), is_initialized(s))
<1> DEFINE a == connection_housekeeping(x, p, t)
<1> DEFINE y == visit_housekeeping(x, p, t)
<1>1. /\ categorize_peer(p, faulty(s), is_initialized(s)) /\ Store(p, y)
      /\ UNCHANGED <<known, poolVars>> /\ p \in known
  BY DEF HousekeepingVisit, InitiatorInv
<1>2. /\ GovernsOnly(p) /\ tag'[p] = t
      /\ PeerTurns(p) =>
           /\ s.connection # "Disconnected"
           /\ tag'[p] \in {"Warm", "Hot"} => p \notin cold_peers'
           /\ Linked(p) => /\ p \notin cold_peers'
                           /\ tag'[p] \in {"Warm", "Hot"} => s.connection # "New"
  BY <1>1, CategorizeGoverned
<1>3. ContextOK(x) /\ x.s = s /\ x.out = outbound
  BY PeerFacts, ContextFacts DEF PeerOK, Context
<1>4. Safe(p, a, y)
  BY <1>3, SafeVisits
<1>5. peers'[p] = y.s /\ outbound' = y.out
  BY <1>1, StoreFacts
<1>6. UNCHANGED <<scene, conns, writers, futures>>
  BY <1>1 DEF poolVars
<1>7. p \in known'
  BY <1>1
<1> HIDE DEF x, t, s, y
<1> SUFFICES ASSUME MaxConns = 1
             PROVE  (\A q \in Peers \ {p} : Aside(q)) /\ PeerTurns(p)'
  BY <1>6, OneTurns
<1>8. PeerTurns(p) /\ s.connection # "Disconnected"
  BY <1>2 DEF AllTurns
<1>9. \/ /\ a = x
         /\ ~(s.connection = "New" /\ t \in {"Warm", "Hot"})
      \/ Joined(p, x, a, "ready") /\ s.connection \in {"Errored", "Connected", "Initialized"}
      \/ /\ s.connection = "New" /\ t \in {"Warm", "Hot"}
         /\ \E z : /\ Joined(p, z, a, "connect") /\ z.s.connection = "Connecting"
                   /\ z.out = x.out /\ z.s.proto = s.proto /\ z.s.unsent = s.unsent
                   /\ z.s.violation = s.violation
  <2>1. /\ a = connection_housekeeping(x, p, t) /\ ContextOK(x) /\ x.s = s
        /\ x.s.connection # "Disconnected"
    BY <1>3, <1>8
  <2> DEFINE z == [x EXCEPT !.s.connection = "Connecting"]
  <2>2. \/ a = x /\ ~(s.connection = "New" /\ t \in {"Warm", "Hot"})
        \/ /\ a = Push(x, Disconnect(p))
           /\ s.connection \in {"Errored", "Connected", "Initialized"}
        \/ /\ s.connection = "New" /\ t \in {"Warm", "Hot"}
           /\ a = Push(z, Connect(p))
           /\ ContextOK(z) /\ z.s.connection = "Connecting" /\ z.out = x.out
           /\ z.s.proto = s.proto /\ z.s.unsent = s.unsent
           /\ z.s.violation = s.violation
    BY <2>1, HousekeepCases
  <2> HIDE DEF a, z
  <2> QED BY <2>1, <2>2, JoinLink
<1> HIDE DEF a
<1>10. \A q \in Peers \ {p} : Aside(q)
  <2>1. \A q \in Peers \ {p} : SameLines(q, a.out, outbound)
    BY <1>3, <1>9 DEF Joined, SameLines
  <2>2. \A q \in Peers \ {p} : SameLines(q, y.out, outbound)
    BY <1>4, <2>1 DEF Safe, SameLines
  <2> QED BY <1>1, <1>2, <2>2, StoreAside, PoolSame
<1>11. Carried(p, a.s, a.out, y.s, y.out)
  BY <1>4, SafeCarries
<1> DEFINE fut == futures[p]
<1> DEFINE link == LinkLine(p, outbound)
<1>12. link \in Seq(Tokens) /\ futures'[p] = fut /\ writers'[p] = writers[p] /\ conns' = conns
  BY <1>6, LinkTypes
<1>13. CASE ConnsOf(p, conns) = {} /\ Apart1(p)
  <2>1. /\ Fresh(scene, p, s, outbound) /\ writers[p] = 0 /\ ConnectLast(fut, link)
        /\ Linking(fut, link) => s.connection # "Errored"
        /\ Linked(p) = Linking(fut, link)
    BY <1>13 DEF Apart1, Apart, Linked, Linking, s
  <2> DEFINE more == LinkLine(p, a.out)
  <2>2. /\ Fresh(scene, p, a.s, a.out) /\ ConnectLast(fut, more)
        /\ Linking(fut, more) => /\ a.s.connection # "Errored" /\ p \notin cold_peers'
                                 /\ tag'[p] \in {"Warm", "Hot"} => a.s.connection # "New"
        /\ a.s.connection # "Disconnected"
    <3>1. CASE a = x
      BY <1>2, <1>3, <1>8, <2>1, <3>1
    <3>2. CASE Joined(p, x, a, "ready") /\ s.connection \in {"Errored", "Connected", "Initialized"}
      <4>1. s.connection = "Errored" /\ ~Linking(fut, link)
        BY <2>1, <3>2 DEF Fresh
      <4>2. more = Append(link, "ready") /\ a.s = s
            /\ \A ch \in AllChannels : OutLine(p, ch, a.out) = OutLine(p, ch, outbound)
        BY <1>3, <3>2 DEF Joined
      <4>3. ConnectLast(fut, more) /\ ~Linking(fut, more)
        <5> HIDE DEF link, fut, more
        <5> QED BY <1>12, <4>1, <4>2, JoinedLink
      <4>4. Fresh(scene, p, a.s, a.out)
        BY <2>1, <4>1, <4>2, UpheldOn
      <4> QED BY <4>1, <4>2, <4>3, <4>4
    <3>3. CASE s.connection = "New" /\ t \in {"Warm", "Hot"}
               /\ \E z : /\ Joined(p, z, a, "connect") /\ z.s.connection = "Connecting"
                         /\ z.out = x.out /\ z.s.proto = s.proto /\ z.s.unsent = s.unsent
                         /\ z.s.violation = s.violation
      <4>0. PICK z : /\ Joined(p, z, a, "connect") /\ z.s.connection = "Connecting"
                     /\ z.out = x.out /\ z.s.proto = s.proto /\ z.s.unsent = s.unsent
                     /\ z.s.violation = s.violation
        BY <3>3
      <4>1. ~Linking(fut, link) /\ p \notin cold_peers'
        BY <1>2, <1>8, <2>1, <3>3
      <4>2. more = Append(link, "connect") /\ a.s = z.s
            /\ \A ch \in AllChannels : OutLine(p, ch, a.out) = OutLine(p, ch, outbound)
        BY <1>3, <4>0 DEF Joined
      <4>3. ConnectLast(fut, more)
        <5> HIDE DEF link, fut, more
        <5> QED BY <1>12, <4>1, <4>2, JoinedLink
      <4>4. Fresh(scene, p, a.s, a.out)
        BY <2>1, <4>0, <4>2, UpheldOn
      <4> QED BY <4>0, <4>1, <4>2, <4>3, <4>4
    <3> QED BY <1>9, <3>1, <3>2, <3>3
  <2>3. LinkLine(p, outbound') = more
    BY <1>5, <1>11 DEF Carried
  <2> HIDE DEF more
  <2>4. Apart(scene, p, peers'[p], writers'[p], futures'[p], outbound')
    BY <1>5, <1>11, <1>12, <2>1, <2>2, <2>3 DEF Apart, Carried
  <2>5. Governed(peers'[p], tag'[p], Linking(futures'[p], LinkLine(p, outbound')),
                 p \in known', p \in cold_peers')
    BY <1>2, <1>5, <1>7, <1>8, <1>11, <1>12, <2>2, <2>3 DEF Governed, Carried
  <2> QED BY <1>6, <1>10, <1>12, <1>13, <2>4, <2>5, StaysApart
<1>14. CASE \E c \in DOMAIN conns : ConnsOf(p, conns) = {c} /\ Live1(p, c)
  <2>1. PICK c \in DOMAIN conns : ConnsOf(p, conns) = {c} /\ Live1(p, c)
    BY <1>14
  <2> DEFINE k == conns[c]
  <2>2. k \in ConnStates
    BY ConnFacts
  <2>3. /\ ~k.offended /\ Negotiated(scene, k) /\ ~Linking(fut, link)
        /\ writers[p] = IF k.shut THEN 0 ELSE c
        /\ ~k.shut => fut = <<>> /\ Upheld(scene, p, s, k, outbound)
    BY <2>1 DEF Live1, Live, s
  <2>4. Linked(p)
    BY <2>1 DEF Linked
  <2> HIDE DEF k, link, fut
  <2>5. /\ ~Linking(fut, LinkLine(p, a.out)) /\ a.s = s
        /\ Upheld(scene, p, s, k, outbound) => Upheld(scene, p, a.s, k, a.out)
    <3>1. CASE a = x
      BY <1>3, <2>3, <3>1 DEF link
    <3>2. CASE Joined(p, x, a, "ready") /\ s.connection \in {"Errored", "Connected", "Initialized"}
      <4>1. LinkLine(p, a.out) = Append(link, "ready") /\ a.s = s
            /\ \A ch \in AllChannels : OutLine(p, ch, a.out) = OutLine(p, ch, outbound)
        BY <1>3, <3>2 DEF Joined, link
      <4>2. ~Linking(fut, LinkLine(p, a.out))
        BY <1>12, <2>3, <4>1, JoinedLink
      <4>3. Upheld(scene, p, s, k, outbound) => Upheld(scene, p, s, k, a.out)
        BY <3>2, <4>1, UpheldOn
      <4> QED BY <4>1, <4>2, <4>3
    <3>3. ~(s.connection = "New" /\ t \in {"Warm", "Hot"})
      BY <1>2, <1>8, <2>4
    <3> QED BY <1>9, <3>1, <3>2, <3>3
  <2>6. Live(scene, p, peers'[p], conns'[c], c, writers'[p], futures'[p], outbound')
    BY <1>5, <1>11, <1>12, <2>2, <2>3, <2>5 DEF Live, Carried, k
  <2>7. Governed(peers'[p], tag'[p], TRUE, p \in known', p \in cold_peers')
    BY <1>2, <1>5, <1>7, <1>8, <1>11, <2>4, <2>5 DEF Governed, Carried
  <2>8. c \in DOMAIN conns' /\ ConnsOf(p, conns') = {c}
    BY <1>12, <2>1
  <2> QED BY <1>6, <1>10, <2>6, <2>7, <2>8, StaysLive
<1> QED BY <1>8, <1>13, <1>14, TurnsCases

-----------------------------------------------------------------------------
(* A command is dispatched to the pool.                                    *)

(* A task joins the line of its channel.                                   *)
LEMMA TaskJoins ==
  ASSUME NEW tasks \in Seq(Asks \cup {Shutdown}), NEW ch \in Keys
  PROVE  /\ TaskLine(ch, Append(tasks, Shutdown)) = TaskLine(ch, tasks)
         /\ \A m \in Asks : TaskLine(ch, Append(tasks, m)) =
              IF m.ch = ch THEN Append(TaskLine(ch, tasks), m) ELSE TaskLine(ch, tasks)
<1> DEFINE l == TaskLine(ch, tasks)
<1>1. l \in Seq(Tokens) /\ \A m \in Asks \cup {Shutdown} :
        TaskLine(ch, Append(tasks, m)) = l \o TaskToken(ch)[m]
  BY TaskEnds
<1>2. Asks \subseteq Tokens
  BY DEF Tokens
<1> HIDE DEF l, Tokens, Asks
<1>3. l \o <<>> = l /\ \A x \in Tokens : l \o <<x>> = Append(l, x)
  BY <1>1
<1>4. TaskLine(ch, Append(tasks, Shutdown)) = l
  BY <1>1, <1>3, TaskTokens
<1>5. ASSUME NEW m \in Asks
      PROVE  TaskLine(ch, Append(tasks, m)) = IF m.ch = ch THEN Append(l, m) ELSE l
  <2>1. TaskToken(ch)[m] = IF m.ch = ch THEN <<m>> ELSE <<>>
    BY TaskTokens
  <2>2. TaskLine(ch, Append(tasks, m)) = l \o TaskToken(ch)[m]
    BY <1>1
  <2>3. m \in Tokens
    BY <1>2
  <2> QED BY <1>3, <2>1, <2>2, <2>3
<1> QED BY <1>4, <1>5 DEF l

(* A dispatched Connect or Disconnect moves from the queue to the          *)
(* futures.                                                                *)
LEMMA LinkMoves ==
  ASSUME NEW fut \in Seq(Tokens), NEW rest \in Seq(Tokens), NEW link
  PROVE  /\ link = <<"ready">> \o rest =>
              /\ Linking(fut, rest) => Linking(fut, link)
              /\ Linking(Append(fut, "ready"), rest) => Linking(fut, link)
              /\ ConnectLast(fut, link) => ConnectLast(Append(fut, "ready"), rest)
         /\ link = <<"connect">> \o rest =>
              /\ Linking(fut, link) /\ Linking(Append(fut, "connect"), rest)
              /\ ConnectLast(fut, link) => ConnectLast(Append(fut, "connect"), rest)
<1>0. "connect" \in Tokens /\ "ready" \in Tokens
  BY DEF Tokens
<1> HIDE DEF Tokens
<1>1. ASSUME NEW x \in {"connect", "ready"}
      PROVE  LET f == Append(fut, x)
                 l == <<x>> \o rest
             IN  /\ Len(fut) \in Nat /\ DOMAIN fut = 1..Len(fut)
                 /\ Len(rest) \in Nat /\ DOMAIN rest = 1..Len(rest)
                 /\ Len(f) = Len(fut) + 1 /\ DOMAIN f = 1..(Len(fut) + 1)
                 /\ f[Len(fut) + 1] = x /\ \A i \in 1..Len(fut) : f[i] = fut[i]
                 /\ Len(l) = Len(rest) + 1 /\ DOMAIN l = 1..(Len(rest) + 1)
                 /\ l[1] = x
                 /\ \A i \in 1..Len(rest) : l[i + 1] = rest[i]
                 /\ Len(rest) = 0 => rest = <<>>
  BY <1>0
<1>2. ASSUME link = <<"ready">> \o rest
      PROVE  /\ Linking(fut, rest) => Linking(fut, link)
             /\ Linking(Append(fut, "ready"), rest) => Linking(fut, link)
             /\ ConnectLast(fut, link) => ConnectLast(Append(fut, "ready"), rest)
  <2> DEFINE f == Append(fut, "ready")
  <2>1. /\ Len(fut) \in Nat /\ DOMAIN fut = 1..Len(fut)
        /\ Len(rest) \in Nat /\ DOMAIN rest = 1..Len(rest)
        /\ Len(f) = Len(fut) + 1 /\ DOMAIN f = 1..(Len(fut) + 1)
        /\ f[Len(fut) + 1] = "ready" /\ \A i \in 1..Len(fut) : f[i] = fut[i]
        /\ Len(link) = Len(rest) + 1 /\ DOMAIN link = 1..(Len(rest) + 1)
        /\ link[1] = "ready" /\ \A i \in 1..Len(rest) : link[i + 1] = rest[i]
    BY <1>1, <1>2
  <2> HIDE DEF f
  <2>2. (\E i \in DOMAIN rest : rest[i] = "connect") => \E i \in DOMAIN link : link[i] = "connect"
    <3>1. \A i \in DOMAIN rest : i + 1 \in DOMAIN link /\ link[i + 1] = rest[i]
      BY <2>1
    <3> QED BY <3>1
  <2>3. (\E i \in DOMAIN f : f[i] = "connect") => \E i \in DOMAIN fut : fut[i] = "connect"
    BY <2>1
  <2>4. ASSUME ConnectLast(fut, link) PROVE ConnectLast(f, rest)
    <3>1. link # <<>>
      BY <2>1
    <3>2. \A i \in DOMAIN f : f[i] # "connect"
      BY <2>1, <2>4, <3>1 DEF ConnectLast
    <3>3. ASSUME NEW i \in DOMAIN rest, rest[i] = "connect" PROVE i = Len(rest)
      <4>1. i + 1 \in DOMAIN link /\ link[i + 1] = "connect" /\ i \in Nat
        BY <2>1, <3>3
      <4>2. i + 1 = Len(link)
        BY <2>4, <4>1 DEF ConnectLast
      <4> QED BY <2>1, <4>1, <4>2
    <3> QED BY <3>2, <3>3 DEF ConnectLast
  <2> QED BY <2>2, <2>3, <2>4 DEF Linking, f
<1>3. ASSUME link = <<"connect">> \o rest
      PROVE  /\ Linking(fut, link) /\ Linking(Append(fut, "connect"), rest)
             /\ ConnectLast(fut, link) => ConnectLast(Append(fut, "connect"), rest)
  <2> DEFINE f == Append(fut, "connect")
  <2>1. /\ Len(fut) \in Nat /\ DOMAIN fut = 1..Len(fut)
        /\ Len(rest) \in Nat /\ DOMAIN rest = 1..Len(rest)
        /\ Len(f) = Len(fut) + 1 /\ DOMAIN f = 1..(Len(fut) + 1)
        /\ f[Len(fut) + 1] = "connect" /\ \A i \in 1..Len(fut) : f[i] = fut[i]
        /\ Len(link) = Len(rest) + 1 /\ DOMAIN link = 1..(Len(rest) + 1)
        /\ link[1] = "connect"
    BY <1>1, <1>3
  <2>0. Len(rest) = 0 => rest = <<>>
    BY <1>1
  <2> HIDE DEF f
  <2>2. 1 \in DOMAIN link /\ Len(fut) + 1 \in DOMAIN f
    BY <2>1
  <2>3. Linking(fut, link) /\ Linking(f, rest)
    BY <2>1, <2>2 DEF Linking
  <2>4. ASSUME ConnectLast(fut, link) PROVE ConnectLast(f, rest)
    <3>1. link # <<>>
      BY <2>1, <2>2
    <3>2. \A i \in DOMAIN f : f[i] = "connect" => i = Len(f)
      BY <2>1, <2>4, <3>1 DEF ConnectLast
    <3>3. 1 = Len(link)
      BY <2>1, <2>2, <2>4 DEF ConnectLast
    <3>4. rest = <<>>
      BY <2>0, <2>1, <3>3
    <3> QED BY <3>2, <3>4 DEF ConnectLast
  <2> QED BY <2>3, <2>4 DEF f
<1> QED BY <1>2, <1>3

(* The writer of a peer is that of its one connection.                     *)
LEMMA WriterOf ==
  ASSUME NEW p \in Peers, PeerTurns(p), writers[p] # 0
  PROVE  /\ writers[p] \in DOMAIN conns /\ ConnsOf(p, conns) = {writers[p]}
         /\ Live1(p, writers[p]) /\ ~conns[writers[p]].shut
         /\ conns[writers[p]].pid = p
<1>1. PICK c \in DOMAIN conns : ConnsOf(p, conns) = {c} /\ Live1(p, c)
  BY TurnsCases DEF Apart1, Apart
<1>2. writers[p] = c /\ ~conns[c].shut
  BY <1>1 DEF Live1, Live
<1>3. conns[c].pid = p
  BY <1>1 DEF ConnsOf
<1> QED BY <1>1, <1>2, <1>3

(* The tasks of a connection grow by what leaves the queue.                *)
LEMMA QueuedConn ==
  ASSUME InitiatorInv, NEW p \in Peers, PeerTurns(p), writers[p] # 0,
         NEW task \in Asks \cup {Shutdown}, conns' = Queued(writers[p], task)
  PROVE  LET c == writers[p]
             k == conns[c]
             n == conns'[c]
         IN  /\ \A q : ConnsOf(q, conns') = ConnsOf(q, conns)
             /\ \A q : q # p => SameConns(q)
             /\ DOMAIN conns' = DOMAIN conns
             /\ n.tasks = Append(k.tasks, task)
             /\ n.shut = k.shut /\ n.reading = k.reading /\ n.writing = k.writing
             /\ n.remote = k.remote /\ n.offended = k.offended
<1> DEFINE c == writers[p]
<1> DEFINE k == conns[c]
<1> DEFINE n == [k EXCEPT !.tasks = Append(@, task)]
<1>1. c \in DOMAIN conns /\ k.pid = p
  BY WriterOf
<1>2. conns' = [conns EXCEPT ![c] = n]
  BY DEF Queued
<1>3. k \in ConnStates
  BY <1>1, ConnFacts
<1>4. /\ n.tasks = Append(k.tasks, task) /\ n.pid = p
      /\ n.shut = k.shut /\ n.reading = k.reading /\ n.writing = k.writing
      /\ n.remote = k.remote /\ n.offended = k.offended
  BY <1>1, <1>3 DEF ConnStates
<1>5. conns \in Seq(ConnStates)
  BY DEF InitiatorInv, PoolTypes
<1> HIDE DEF c, n
<1>6. /\ \A q : ConnsOf(q, conns') = ConnsOf(q, conns)
      /\ \A q : q # conns[c].pid => SameConns(q)
      /\ conns'[c] = n /\ DOMAIN conns' = DOMAIN conns
  BY <1>1, <1>2, <1>4, <1>5, OneConnOf
<1> QED BY <1>1, <1>4, <1>6 DEF c

(* A dispatched Send moves from the queue to the writer of the peer's      *)
(* connection, or is dropped where there is none.                          *)
LEMMA PollSends ==
  ASSUME InitiatorInv, NEW p \in Peers, PeerTurns(p), outbound # <<>>, NEW m \in Asks,
         Head(outbound) = Send(p, m), outbound' = Tail(outbound),
         dispatch_send(p, m), UNCHANGED <<govVars, peers>>
  PROVE  PeerTurns(p)'
<1> DEFINE s == peers[p]
<1> DEFINE r == outbound'
<1> DEFINE fut == futures[p]
<1> DEFINE link == LinkLine(p, outbound)
<1>0. /\ outbound \in Seq(Outputs) /\ r \in Seq(Outputs)
      /\ UNCHANGED <<scene, writers, futures, known, cold_peers, tag, peers>>
  BY PeerFacts DEF dispatch_send, govVars
<1>1. \A ch \in Keys : OutLine(p, ch, outbound) =
        IF m.ch = ch THEN <<m>> \o OutLine(p, ch, r) ELSE OutLine(p, ch, r)
  <2>1. Send(p, m).do = "Send" /\ Send(p, m).pid = p /\ Send(p, m).msg = m
    BY DEF Send
  <2>2. Head(outbound).do = "Send" => \A ch \in Keys :
          OutLine(Head(outbound).pid, ch, outbound) =
            IF Head(outbound).msg.ch = ch
              THEN <<Head(outbound).msg>> \o OutLine(Head(outbound).pid, ch, Tail(outbound))
              ELSE OutLine(Head(outbound).pid, ch, Tail(outbound))
    BY <1>0, HeadLines
  <2> QED BY <2>1, <2>2
<1>2. m.ch \in AllChannels /\ m.ch # "link" /\ m.ch \in Keys /\ "link" \in Keys
  BY AsksKinds DEF Keys
<1>3. LinkLine(p, r) = link
  BY <1>1, <1>2 DEF LinkLine
<1>4. \A ch \in Keys : OutLine(p, ch, r) \in Seq(Tokens)
  BY <1>0, OutEnds
<1>5. OutLine(p, m.ch, outbound) # <<>>
  <2> DEFINE l == OutLine(p, m.ch, r)
  <2>1. l \in Seq(Tokens) /\ OutLine(p, m.ch, outbound) = <<m>> \o l
    BY <1>1, <1>2, <1>4
  <2>2. m \in Tokens
    BY DEF Tokens
  <2> HIDE DEF l, Tokens
  <2>3. <<m>> \o l # <<>>
    BY <2>1, <2>2
  <2> QED BY <2>1, <2>3
<1>6. ~Apart1(p)
  BY <1>2, <1>5 DEF Apart1, Apart, Fresh
<1>7. PICK c \in DOMAIN conns : ConnsOf(p, conns) = {c} /\ Live1(p, c)
  BY <1>6, TurnsCases
<1> DEFINE k == conns[c]
<1>8. /\ ~k.offended /\ Negotiated(scene, k) /\ ~Linking(fut, link)
      /\ writers[p] = IF k.shut THEN 0 ELSE c
      /\ ~k.shut => fut = <<>> /\ Upheld(scene, p, s, k, outbound)
      /\ k \in ConnStates
  BY <1>7, ConnFacts DEF Live1, Live
<1>9. Governed(peers'[p], tag'[p], TRUE, p \in known', p \in cold_peers')
  <2>1. Governed(peers[p], tag[p], Linked(p), p \in known, p \in cold_peers) /\ Linked(p)
    BY <1>7, TurnsCases DEF Linked
  <2> QED BY <1>0, <2>1 DEF Governed
<1>10. CASE k.shut
  <2>1. conns' = conns
    BY <1>8, <1>10 DEF dispatch_send
  <2>2. Live(scene, p, peers'[p], conns'[c], c, writers'[p], futures'[p], outbound')
    BY <1>0, <1>3, <1>8, <1>10, <2>1 DEF Live
  <2> QED BY <1>0, <1>7, <1>9, <2>1, <2>2, StaysLive
<1>11. CASE ~k.shut
  <2>0. c # 0 /\ writers[p] = c
    <3>1. conns \in Seq(ConnStates)
      BY DEF InitiatorInv, PoolTypes
    <3> QED BY <1>8, <1>11, <3>1
  <2>1. conns' = Queued(writers[p], m)
    BY <2>0 DEF dispatch_send
  <2> DEFINE n == conns'[c]
  <2>2. /\ ConnsOf(p, conns') = {c} /\ c \in DOMAIN conns'
        /\ n.tasks = Append(k.tasks, m)
        /\ n.shut = k.shut /\ n.reading = k.reading /\ n.writing = k.writing
        /\ n.remote = k.remote /\ n.offended = k.offended
    BY <1>7, <2>0, <2>1, QueuedConn
  <2> HIDE DEF n
  <2>3. ASSUME NEW ch \in AllChannels
        PROVE  TaskLine(ch, n.tasks) \o OutLine(p, ch, r)
                 = TaskLine(ch, k.tasks) \o OutLine(p, ch, outbound)
    <3> DEFINE a == TaskLine(ch, k.tasks)
    <3> DEFINE b == OutLine(p, ch, r)
    <3>1. ch \in Keys /\ k.tasks \in Seq(Asks \cup {Shutdown}) /\ m \in Tokens
      BY <1>8 DEF Keys, ConnStates, Tokens
    <3>2. a \in Seq(Tokens) /\ b \in Seq(Tokens)
      BY <1>4, <3>1, TaskEnds
    <3>3. TaskLine(ch, n.tasks) = IF m.ch = ch THEN Append(a, m) ELSE a
      <4>1. TaskLine(ch, Append(k.tasks, m)) =
              IF m.ch = ch THEN Append(TaskLine(ch, k.tasks), m) ELSE TaskLine(ch, k.tasks)
        BY <3>1, TaskJoins
      <4> QED BY <2>2, <4>1
    <3>4. OutLine(p, ch, outbound) = IF m.ch = ch THEN <<m>> \o b ELSE b
      BY <1>1, <3>1
    <3> HIDE DEF a, b, r
    <3>5. a \o (<<m>> \o b) = Append(a, m) \o b
      BY <3>1, <3>2, InsertOne
    <3> QED BY <3>3, <3>4, <3>5 DEF a, b
  <2>4. Upheld(scene, p, s, n, r)
    <3>1. Mirrored(scene, s, k) => Mirrored(scene, s, n)
      BY <2>2 DEF Mirrored
    <3> QED BY <1>8, <1>11, <2>2, <2>3, <3>1 DEF Upheld
  <2>5. Negotiated(scene, n)
    BY <1>8, <2>2 DEF Negotiated
  <2>6. Live(scene, p, peers'[p], conns'[c], c, writers'[p], futures'[p], outbound')
    BY <1>0, <1>3, <1>8, <1>11, <2>2, <2>4, <2>5 DEF Live, n
  <2> QED BY <1>0, <1>9, <2>2, <2>6, StaysLive
<1> QED BY <1>10, <1>11

(* A dispatched Disconnect queues a Shutdown behind the requests, or       *)
(* completes at once where there is no writer.                             *)
LEMMA PollDisconnects ==
  ASSUME InitiatorInv, NEW p \in Peers, PeerTurns(p), outbound # <<>>,
         Head(outbound) = Disconnect(p), outbound' = Tail(outbound),
         dispatch_disconnect(p), UNCHANGED <<govVars, peers>>
  PROVE  PeerTurns(p)'
<1> DEFINE s == peers[p]
<1> DEFINE r == outbound'
<1> DEFINE fut == futures[p]
<1> DEFINE link == LinkLine(p, outbound)
<1> DEFINE rest == LinkLine(p, r)
<1>0. /\ outbound \in Seq(Outputs) /\ r \in Seq(Outputs)
      /\ UNCHANGED <<scene, writers, known, cold_peers, tag, peers>>
  BY PeerFacts DEF dispatch_disconnect, govVars
<1>1. /\ \A ch \in AllChannels : OutLine(p, ch, r) = OutLine(p, ch, outbound)
      /\ link = <<"ready">> \o rest
  <2>1. Disconnect(p).do = "Disconnect" /\ Disconnect(p).pid = p
    BY DEF Disconnect
  <2> QED BY <1>0, <2>1, HeadLines
<1>2. fut \in Seq(Tokens) /\ rest \in Seq(Tokens)
  BY <1>0, LinkTypes, OutEnds DEF LinkLine, Keys
<1>3. futures \in [Peers -> Seq({"connect", "ready"})]
  BY DEF InitiatorInv, PoolTypes
<1> HIDE DEF rest, link, fut
<1>4. /\ Linking(fut, rest) => Linking(fut, link)
      /\ Linking(Append(fut, "ready"), rest) => Linking(fut, link)
      /\ ConnectLast(fut, link) => ConnectLast(Append(fut, "ready"), rest)
  BY <1>1, <1>2, LinkMoves
<1>5. Governed(peers[p], tag[p], Linked(p), p \in known, p \in cold_peers)
  BY TurnsCases
<1>6. writers[p] = 0 => /\ futures'[p] = Append(fut, "ready") /\ UNCHANGED conns
  BY <1>3 DEF dispatch_disconnect, fut
<1>7. CASE ConnsOf(p, conns) = {} /\ Apart1(p)
  <2>1. /\ writers[p] = 0 /\ Fresh(scene, p, s, outbound) /\ ConnectLast(fut, link)
        /\ Linking(fut, link) => s.connection # "Errored"
    BY <1>7 DEF Apart1, Apart, fut, link
  <2>2. Fresh(scene, p, s, r)
    BY <1>1, <2>1 DEF Fresh
  <2>3. Apart(scene, p, peers'[p], writers'[p], futures'[p], outbound')
    BY <1>0, <1>4, <1>6, <2>1, <2>2 DEF Apart, rest
  <2>4. Governed(peers'[p], tag'[p], Linking(futures'[p], LinkLine(p, outbound')),
                 p \in known', p \in cold_peers')
    BY <1>0, <1>4, <1>5, <1>6, <2>1 DEF Governed, Linked, rest, link, fut
  <2> QED BY <1>0, <1>6, <1>7, <2>1, <2>3, <2>4, StaysApart
<1>8. CASE \E c \in DOMAIN conns : ConnsOf(p, conns) = {c} /\ Live1(p, c)
  <2>0. PICK c \in DOMAIN conns : ConnsOf(p, conns) = {c} /\ Live1(p, c)
    BY <1>8
  <2> DEFINE k == conns[c]
  <2>1. /\ ~k.offended /\ Negotiated(scene, k) /\ ~Linking(fut, link)
        /\ writers[p] = IF k.shut THEN 0 ELSE c
        /\ ~k.shut => fut = <<>> /\ Upheld(scene, p, s, k, outbound)
        /\ k \in ConnStates
    BY <2>0, ConnFacts DEF Live1, Live, fut, link
  <2>2. Governed(peers'[p], tag'[p], TRUE, p \in known', p \in cold_peers')
    BY <1>0, <1>5, <2>0 DEF Governed, Linked
  <2>3. CASE k.shut
    <3>1. Live(scene, p, peers'[p], conns'[c], c, writers'[p], futures'[p], outbound')
      BY <1>0, <1>4, <1>6, <2>1, <2>3 DEF Live, rest
    <3> QED BY <1>0, <1>6, <2>0, <2>1, <2>2, <2>3, <3>1, StaysLive
  <2>4. CASE ~k.shut
    <3>0. c # 0 /\ writers[p] = c
      <4>1. conns \in Seq(ConnStates)
        BY DEF InitiatorInv, PoolTypes
      <4> QED BY <2>1, <2>4, <4>1
    <3>1. conns' = Queued(writers[p], Shutdown) /\ UNCHANGED futures
      BY <3>0 DEF dispatch_disconnect
    <3> DEFINE n == conns'[c]
    <3>2. /\ ConnsOf(p, conns') = {c} /\ c \in DOMAIN conns'
          /\ n.tasks = Append(k.tasks, Shutdown)
          /\ n.shut = k.shut /\ n.reading = k.reading /\ n.writing = k.writing
          /\ n.remote = k.remote /\ n.offended = k.offended
      BY <2>0, <3>0, <3>1, QueuedConn
    <3> HIDE DEF n
    <3>3. \A ch \in AllChannels : TaskLine(ch, n.tasks) = TaskLine(ch, k.tasks)
      BY <2>1, <3>2, TaskJoins DEF ConnStates, Keys
    <3>4. Upheld(scene, p, s, n, r)
      <4>1. Mirrored(scene, s, k) => Mirrored(scene, s, n)
        BY <3>2 DEF Mirrored
      <4> QED BY <1>1, <2>1, <2>4, <3>2, <3>3, <4>1 DEF Upheld
    <3>5. Negotiated(scene, n)
      BY <2>1, <3>2 DEF Negotiated
    <3>6. Live(scene, p, peers'[p], conns'[c], c, writers'[p], futures'[p], outbound')
      BY <1>0, <1>4, <2>1, <2>4, <3>1, <3>2, <3>4, <3>5 DEF Live, n, rest, fut
    <3> QED BY <1>0, <2>2, <3>2, <3>6, StaysLive
  <2> QED BY <2>3, <2>4
<1> QED BY <1>7, <1>8, TurnsCases

(* A dispatched Connect becomes a future.                                  *)
LEMMA PollConnects ==
  ASSUME InitiatorInv, NEW p \in Peers, PeerTurns(p), outbound # <<>>,
         Head(outbound) = Connect(p), outbound' = Tail(outbound),
         dispatch_connect(p), UNCHANGED <<govVars, peers>>
  PROVE  PeerTurns(p)'
<1> DEFINE s == peers[p]
<1> DEFINE r == outbound'
<1> DEFINE fut == futures[p]
<1> DEFINE link == LinkLine(p, outbound)
<1> DEFINE rest == LinkLine(p, r)
<1>0. /\ outbound \in Seq(Outputs) /\ r \in Seq(Outputs)
      /\ UNCHANGED <<scene, conns, writers, known, cold_peers, tag, peers>>
  BY PeerFacts DEF dispatch_connect, govVars
<1>1. /\ \A ch \in AllChannels : OutLine(p, ch, r) = OutLine(p, ch, outbound)
      /\ link = <<"connect">> \o rest
  <2>1. Connect(p).do = "Connect" /\ Connect(p).pid = p
    BY DEF Connect
  <2> QED BY <1>0, <2>1, HeadLines
<1>2. fut \in Seq(Tokens) /\ rest \in Seq(Tokens)
  BY <1>0, LinkTypes, OutEnds DEF LinkLine, Keys
<1>3. futures'[p] = Append(fut, "connect")
  BY DEF InitiatorInv, PoolTypes, dispatch_connect
<1> HIDE DEF rest, link, fut
<1>4. /\ Linking(fut, link) /\ Linking(Append(fut, "connect"), rest)
      /\ ConnectLast(fut, link) => ConnectLast(Append(fut, "connect"), rest)
  BY <1>1, <1>2, LinkMoves
<1>5. ConnsOf(p, conns) = {} /\ Apart1(p)
  <2>1. \A c : ~Live1(p, c)
    BY <1>4 DEF Live1, Live, fut, link
  <2> QED BY <2>1, TurnsCases
<1>6. /\ writers[p] = 0 /\ Fresh(scene, p, s, outbound) /\ ConnectLast(fut, link)
      /\ s.connection # "Errored"
  BY <1>4, <1>5 DEF Apart1, Apart, fut, link
<1>7. Fresh(scene, p, s, r)
  BY <1>1, <1>6 DEF Fresh
<1>8. Apart(scene, p, peers'[p], writers'[p], futures'[p], outbound')
  BY <1>0, <1>3, <1>4, <1>6, <1>7 DEF Apart, rest
<1>9. Governed(peers'[p], tag'[p], Linking(futures'[p], LinkLine(p, outbound')),
               p \in known', p \in cold_peers')
  <2>1. Governed(peers[p], tag[p], Linked(p), p \in known, p \in cold_peers) /\ Linked(p)
    BY <1>4, TurnsCases DEF Linked, fut, link
  <2> QED BY <1>0, <2>1 DEF Governed
<1> QED BY <1>0, <1>5, <1>8, <1>9, StaysApart

(* The manager takes one output off the queue and dispatches it.           *)
LEMMA PollTurns ==
  ASSUME InitiatorInv, AllTurns, PollBehavior
  PROVE  AllTurns'
<1>1. /\ outbound # <<>> /\ outbound' = Tail(outbound) /\ UNCHANGED govVars
      /\ UNCHANGED behaviorVars
  BY DEF PollBehavior
<1>2. UNCHANGED peers /\ UNCHANGED scene
  BY <1>1, DispatchStep DEF behaviorVars
<1>0. Head(outbound) \in Outputs /\ Head(outbound).pid \in Peers
  <2>1. Head(outbound) \in Outputs
    BY <1>1, PeerFacts
  <2> QED BY <2>1 DEF Outputs
<1>00. PICK o \in Outputs, p \in Peers : o = Head(outbound) /\ p = o.pid
  BY <1>0
<1>3. /\ \A q : q # p => SameLines(q, outbound', outbound)
      /\ o.do \notin {"Send", "Connect", "Disconnect"} =>
           \A q : SameLines(q, outbound', outbound)
  BY <1>1, <1>00, PeerFacts, HeadLines
<1>4. \/ o.do = "Send" /\ dispatch_send(p, o.msg)
      \/ o.do = "Disconnect" /\ dispatch_disconnect(p)
      \/ o.do = "Connect" /\ dispatch_connect(p)
      \/ o.do \notin {"Send", "Connect", "Disconnect"} /\ UNCHANGED poolVars
  BY <1>00 DEF PollBehavior
<1>5. /\ o.do = "Send" => o.msg \in Asks /\ o = Send(p, o.msg)
      /\ o.do = "Disconnect" => o = Disconnect(p)
      /\ o.do = "Connect" => o = Connect(p)
  BY <1>00 DEF Outputs, Events, Send, Connect, Disconnect
<1>6. p \in Peers /\ Head(outbound) = o
  BY <1>00
<1> SUFFICES ASSUME MaxConns = 1
             PROVE  (\A q \in Peers \ {p} : Aside(q)) /\ PeerTurns(p)'
  BY <1>2, <1>6, OneTurns
<1>7. \A q \in Peers : PeerTurns(q)
  BY DEF AllTurns
<1>8. CASE o.do \notin {"Send", "Connect", "Disconnect"}
  <2>1. UNCHANGED poolVars
    BY <1>4, <1>8
  <2>2. \A q \in Peers : Aside(q)
    BY <1>1, <1>2, <1>3, <1>8, <2>1, PoolSame DEF Aside, govVars
  <2> QED BY <1>2, <1>6, <1>7, <2>2, AsideKeeps
<1>9. CASE o.do \in {"Send", "Connect", "Disconnect"}
  <2>1. \A q \in Peers \ {p} : futures'[q] = futures[q] /\ writers'[q] = writers[q]
    BY <1>4, <1>9 DEF dispatch_send, dispatch_connect, dispatch_disconnect,
                      InitiatorInv, PoolTypes
  <2>2. ASSUME NEW q \in Peers \ {p} PROVE SameConns(q)
    <3>1. \/ UNCHANGED conns
          \/ /\ writers[p] # 0
             /\ \E task \in Asks \cup {Shutdown} : conns' = Queued(writers[p], task)
      BY <1>4, <1>5, <1>6, <1>9 DEF dispatch_send, dispatch_connect, dispatch_disconnect
    <3> QED BY <1>6, <1>7, <3>1, ConnsSame, QueuedConn
  <2>3. \A q \in Peers \ {p} : Aside(q)
    BY <1>1, <1>2, <1>3, <2>1, <2>2 DEF Aside, govVars
  <2>4. PeerTurns(p)'
    <3>1. CASE o.do = "Send"
      <4>1. o.msg \in Asks /\ o = Send(p, o.msg) /\ dispatch_send(p, o.msg)
        BY <1>4, <1>5, <1>6, <3>1
      <4> QED BY <1>1, <1>2, <1>6, <1>7, <4>1, PollSends
    <3>2. CASE o.do = "Connect"
      <4>1. o = Connect(p) /\ dispatch_connect(p)
        BY <1>4, <1>5, <1>6, <3>2
      <4> QED BY <1>1, <1>2, <1>6, <1>7, <4>1, PollConnects
    <3>3. CASE o.do = "Disconnect"
      <4>1. o = Disconnect(p) /\ dispatch_disconnect(p)
        BY <1>4, <1>5, <1>6, <3>3
      <4> QED BY <1>1, <1>2, <1>6, <1>7, <4>1, PollDisconnects
    <3> QED BY <1>9, <3>1, <3>2, <3>3
  <2> QED BY <2>3, <2>4
<1> QED BY <1>8, <1>9

-----------------------------------------------------------------------------
(* A connect completes or fails.                                           *)

(* A completed future is one peer's.                                       *)
LEMMA CompletesOthers ==
  ASSUME InitiatorInv, NEW p \in Peers, NEW i, Completes(p, i)
  PROVE  /\ futures'[p] = Without(futures[p], i)
         /\ \A q \in Peers \ {p} : futures'[q] = futures[q]
BY DEF InitiatorInv, PoolTypes, Completes

(* A connect that completes is the peer's first and its last future.       *)
LEMMA CompletingOnly ==
  ASSUME InitiatorInv, NEW p \in Peers, PeerTurns(p), NEW i \in Completing(p), Completes(p, i)
  PROVE  /\ ConnsOf(p, conns) = {} /\ Apart1(p) /\ LinkLine(p, outbound) = <<>>
         /\ futures'[p] = <<>> /\ p \in known /\ p \notin cold_peers
<1> DEFINE fut == futures[p]
<1>0. fut \in Seq({"connect", "ready"})
  BY DEF InitiatorInv, PoolTypes
<1>1. /\ i \in DOMAIN fut /\ fut[i] = "connect"
      /\ \A j \in DOMAIN fut : fut[j] = "ready" => i < j
  BY DEF Completing, Connects, Readies
<1>2. Linking(fut, LinkLine(p, outbound)) /\ Linked(p)
  BY <1>1 DEF Linking, Linked
<1>3. ConnsOf(p, conns) = {} /\ Apart1(p)
  <2>1. \A c : ~Live1(p, c)
    BY <1>2 DEF Live1, Live
  <2> QED BY <2>1, TurnsCases
<1>4. /\ i = Len(fut) /\ LinkLine(p, outbound) = <<>>
      /\ \A j \in DOMAIN fut : fut[j] = "connect" => j = Len(fut)
  BY <1>1, <1>3 DEF Apart1, Apart, ConnectLast
<1>5. p \in known /\ p \notin cold_peers
  BY <1>2, TurnsCases DEF Governed
<1>6. futures'[p] = Without(fut, i)
  BY CompletesOthers
<1> HIDE DEF fut
<1>7. Len(fut) = 1
  <2>1. Len(fut) \in Nat /\ DOMAIN fut = 1..Len(fut)
        /\ \A j \in 1..Len(fut) : fut[j] \in {"connect", "ready"}
    BY <1>0
  <2>2. ASSUME Len(fut) # 1 PROVE FALSE
    <3>1. 1 \in DOMAIN fut /\ i \in Nat /\ 1 < i
      BY <1>1, <1>4, <2>1, <2>2
    <3>2. fut[1] # "connect" /\ fut[1] # "ready"
      BY <1>1, <1>4, <2>2, <3>1
    <3> QED BY <2>1, <3>1, <3>2
  <2> QED BY <2>2
<1>8. Without(fut, i) = <<>>
  <2>1. i = 1 /\ Len(fut) = 1
    BY <1>4, <1>7
  <2>2. SubSeq(fut, 1, 0) = <<>> /\ SubSeq(fut, 2, 1) = <<>>
    BY <1>0
  <2>3. Without(fut, i) = SubSeq(fut, 1, 0) \o SubSeq(fut, 2, 1)
    BY <2>1 DEF Without
  <2> QED BY <2>2, <2>3
<1> QED BY <1>3, <1>4, <1>5, <1>6, <1>8

(* A connect completes, and the handshake is proposed on it.               *)
LEMMA ConnectedTurns ==
  ASSUME InitiatorInv, AllTurns, NEW p \in Peers, Connected(p)
  PROVE  AllTurns'
<1>1. PICK i \in Completing(p) : Completes(p, i)
  BY DEF Connected
<1>2. PoolConnected(p) /\ on_connected(p) /\ UNCHANGED scene
  BY DEF Connected, PoolConnected
<1> SUFFICES ASSUME MaxConns = 1
             PROVE  (\A q \in Peers \ {p} : Aside(q)) /\ PeerTurns(p)'
  BY <1>2, OneTurns
<1>3. /\ PeerTurns(p) /\ ConnsOf(p, conns) = {} /\ Apart1(p)
      /\ LinkLine(p, outbound) = <<>>
      /\ futures'[p] = <<>> /\ p \in known /\ p \notin cold_peers
      /\ \A q \in Peers \ {p} : futures'[q] = futures[q]
  BY <1>1, CompletingOnly, CompletesOthers DEF AllTurns
<1> DEFINE m == Msg("handshake", "Propose", None)
<1> DEFINE s == [peers[p] EXCEPT !.connection = "Connected"]
<1> DEFINE x == Context(s)
<1> DEFINE y == propose_handshake(x, p)
<1> DEFINE c == Len(conns) + 1
<1> DEFINE k == NewConn(p)
<1>4. Store(p, y) /\ UNCHANGED govVars
  BY <1>2, <1>3 DEF on_connected
<1>5. /\ GovernsOnly(p) /\ UNCHANGED <<known, cold_peers, tag>>
  BY <1>4, GovernFacts DEF InitiatorInv
<1>6. m \in Asks /\ m.ch = "handshake" /\ Send(p, m) \in Outputs
      /\ Send(p, m).do = "Send" /\ Send(p, m).pid = p /\ Send(p, m).msg = m
  <2>1. m \in Asks /\ m.ch = "handshake"
    BY DEF Asks, Msg
  <2> HIDE DEF m
  <2>2. Send(p, m) \in Outputs
    BY <2>1, OutputFacts
  <2> QED BY <2>1, <2>2 DEF Send
<1>7. /\ s.proto = peers[p].proto /\ s.unsent = peers[p].unsent
      /\ s.violation = peers[p].violation /\ s.connection = "Connected"
  BY PeerFacts DEF PeerOK, PeerStates
<1>8. y.s = s /\ y.out = Append(outbound, Send(p, m))
  BY DEF propose_handshake, Push, Context
<1> HIDE DEF m, s, y
<1>9. outbound \in Seq(Outputs) /\ peers'[p] = s /\ outbound' = Append(outbound, Send(p, m))
  BY <1>4, <1>8, PeerFacts, StoreFacts
<1>10. /\ \A q : q # p => SameLines(q, y.out, outbound)
       /\ \A ch \in Keys : OutLine(p, ch, outbound') =
            IF m.ch = ch THEN Append(OutLine(p, ch, outbound), m) ELSE OutLine(p, ch, outbound)
  <2> DEFINE o == Send(p, m)
  <2>1. o \in Outputs /\ o.do = "Send" /\ o.pid = p /\ o.msg = m
    BY <1>6
  <2> HIDE DEF o
  <2>2. /\ \A q : q # o.pid => SameLines(q, Append(outbound, o), outbound)
        /\ \A ch \in Keys : OutLine(o.pid, ch, Append(outbound, o)) =
             IF o.msg.ch = ch THEN Append(OutLine(o.pid, ch, outbound), o.msg)
                              ELSE OutLine(o.pid, ch, outbound)
    BY <1>9, <2>1, PushLines
  <2> QED BY <1>8, <1>9, <2>1, <2>2 DEF o
<1>11. /\ conns' = Append(conns, k) /\ writers' = [writers EXCEPT ![p] = c]
       /\ conns \in Seq(ConnStates) /\ writers \in [Peers -> 0..Len(conns)]
  BY <1>2 DEF PoolConnected, InitiatorInv, PoolTypes
<1>12. /\ k.pid = p /\ k.tasks = <<>> /\ k.shut = FALSE /\ k.offended = FALSE
       /\ k.remote = [ch \in Channels |-> Default(ch)]
  BY DEF NewConn
<1> HIDE DEF k
<1>13. /\ Len(conns) \in Nat /\ DOMAIN conns = 1..Len(conns)
       /\ DOMAIN conns' = 1..c /\ conns'[c] = k
       /\ \A d \in 1..Len(conns) : conns'[d] = conns[d]
  BY <1>11
<1>14. \A q \in Peers \ {p} : SameConns(q)
  BY <1>12, <1>13 DEF SameConns, ConnsOf
<1>15. \A q \in Peers \ {p} : Aside(q)
  <2>1. \A q \in Peers \ {p} : writers'[q] = writers[q]
    BY <1>11
  <2> QED BY <1>3, <1>4, <1>5, <1>10, <1>14, <2>1, StoreAside
<1>16. ConnsOf(p, conns') = {c} /\ c \in DOMAIN conns' /\ writers'[p] = c
  BY <1>3, <1>11, <1>12, <1>13 DEF ConnsOf
<1>17. /\ Fresh(scene, p, peers[p], outbound) /\ scene \in Scenarios
       /\ Channels \subseteq AllChannels /\ "handshake" \in Channels
  BY <1>3, ScenariosAssumption DEF Apart1, Apart, InitiatorInv, Channels
<1>18. s.proto = [ch \in Channels |-> Default(ch)]
       /\ \A ch \in AllChannels : OutLine(p, ch, outbound) = <<>>
  BY <1>7, <1>17 DEF Fresh, Channels
<1>19. Mirrored(scene, s, k)
  BY <1>12, <1>17, <1>18 DEF Mirrored, Same, Channels
<1>20. \A ch \in Channels : Default(ch).at = StartAt[ch]
  BY <1>17, DefaultFacts
<1>21. Negotiated(scene, k)
  BY <1>12, <1>20 DEF Negotiated, Channels
<1>22. ASSUME NEW ch \in AllChannels
       PROVE  Pending(scene, s, ch, TaskLine(ch, k.tasks) \o OutLine(p, ch, outbound'))
  <2>0. TaskLine(ch, k.tasks) = <<>> /\ ch \in Keys
    BY <1>12, NoLines DEF Keys
  <2>1. CASE ch = "handshake"
    <3>1. OutLine(p, ch, outbound') = <<m>>
      <4>1. OutLine(p, ch, outbound') = Append(OutLine(p, ch, outbound), m)
        BY <1>6, <1>10, <2>0, <2>1
      <4>2. Append(<<>>, m) = <<m>>
        OBVIOUS
      <4> QED BY <1>18, <4>1, <4>2
    <3>2. <<>> \o <<m>> = <<m>>
      OBVIOUS
    <3>3. s.proto[ch].at \in Asking[ch] /\ ch \in scene.channels
      BY <1>17, <1>18, <1>20, <2>1 DEF StartAt, Asking, Channels
    <3> QED BY <1>6, <2>0, <2>1, <3>1, <3>2, <3>3 DEF Pending, Leioses
  <2>2. CASE ch # "handshake"
    <3>1. OutLine(p, ch, outbound') = <<>>
      BY <1>6, <1>10, <1>18, <2>0, <2>2
    <3>2. <<>> \o <<>> = <<>>
      OBVIOUS
    <3> QED BY <2>0, <3>1, <3>2 DEF Pending
  <2> QED BY <2>1, <2>2
<1>23. Innocent(scene, p, s)
  BY <1>7, <1>17 DEF Fresh, Innocent
<1>24. Upheld(scene, p, s, k, outbound')
  BY <1>7, <1>19, <1>22, <1>23 DEF Upheld
<1>25. ~Linking(futures'[p], LinkLine(p, outbound'))
  <2>1. LinkLine(p, outbound') = <<>>
    BY <1>3, <1>6, <1>10 DEF LinkLine, Keys
  <2> QED BY <1>3, <2>1 DEF Linking
<1>26. Live(scene, p, peers'[p], conns'[c], c, writers'[p], futures'[p], outbound')
  BY <1>3, <1>9, <1>12, <1>13, <1>16, <1>21, <1>24, <1>25 DEF Live
<1>27. Governed(peers'[p], tag'[p], TRUE, p \in known', p \in cold_peers')
  BY <1>3, <1>5, <1>7, <1>9 DEF Governed
<1>28. PICK n \in DOMAIN conns' : n = c
  BY <1>16
<1>29. Live(scene, p, peers'[p], conns'[n], n, writers'[p], futures'[p], outbound')
       /\ ConnsOf(p, conns') = {n}
  BY <1>16, <1>26, <1>28
<1> QED BY <1>2, <1>15, <1>27, <1>28, <1>29, StaysLive

-----------------------------------------------------------------------------
(* Errors: a connect, a write or a read fails.                             *)

(* A connection and the peer it belongs to.                                *)
LEMMA ConnOf ==
  ASSUME InitiatorInv, NEW c \in DOMAIN conns, NEW p \in Peers, p = conns[c].pid, PeerTurns(p)
  PROVE  /\ ConnsOf(p, conns) = {c} /\ Live1(p, c) /\ p \in known /\ p \notin cold_peers
         /\ Governed(peers[p], tag[p], TRUE, p \in known, p \in cold_peers)
<1>1. c \in ConnsOf(p, conns)
  BY DEF ConnsOf
<1>2. Linked(p)
  BY <1>1 DEF Linked
<1>3. Governed(peers[p], tag[p], TRUE, p \in known, p \in cold_peers)
  BY <1>2, TurnsCases
<1>4. ConnsOf(p, conns) = {c} /\ Live1(p, c)
  BY <1>1, TurnsCases
<1> QED BY <1>3, <1>4 DEF Governed

(* on_errored marks the peer and queues its disconnect.                    *)
LEMMA ErroredFacts ==
  ASSUME InitiatorInv, NEW p \in known, on_errored(p)
  PROVE  /\ peers'[p].connection = "Errored" /\ peers'[p].proto = peers[p].proto
         /\ peers'[p].unsent = peers[p].unsent /\ peers'[p].violation = peers[p].violation
         /\ \A ch \in AllChannels : OutLine(p, ch, outbound') = OutLine(p, ch, outbound)
         /\ LinkLine(p, outbound') = Append(LinkLine(p, outbound), "ready")
         /\ GovernsOnly(p) /\ UNCHANGED <<known, cold_peers, tag>>
         /\ \A q \in Peers \ {p} : peers'[q] = peers[q] /\ SameLines(q, outbound', outbound)
<1> DEFINE s == [peers[p] EXCEPT !.connection = "Errored", !.error_count = @ + 1]
<1> DEFINE a == Context(s)
<1> DEFINE x == connection_errored(a, p, tag[p])
<1> DEFINE y == [x EXCEPT !.fetches = Purged(@, p)]
<1>0. p \in Peers /\ PeerOK(peers[p])
  BY PeerFacts
<1>1. Store(p, y) /\ UNCHANGED govVars
  BY DEF on_errored
<1>2. GovernsOnly(p) /\ UNCHANGED <<known, cold_peers, tag>>
  BY <1>0, <1>1, GovernFacts DEF InitiatorInv
<1>3. /\ s \in PeerStates /\ s.connection = "Errored" /\ s.proto = peers[p].proto
      /\ s.unsent = peers[p].unsent /\ s.violation = peers[p].violation
  <2>1. peers[p] \in PeerStates /\ peers[p].error_count + 1 \in Nat
    BY <1>0 DEF PeerOK, PeerStates
  <2> QED BY <2>1 DEF PeerStates, ConnectionStates
<1> HIDE DEF s
<1>4. WellKept(s)
  BY <1>0, <1>3 DEF PeerOK, WellKept
<1>5. ContextOK(a) /\ a.s = s /\ a.out = outbound
  BY <1>3, <1>4, ContextFacts DEF Context
<1> HIDE DEF a
<1>6. x = Push(a, Disconnect(p))
  BY <1>3, <1>5 DEF connection_errored, needs_disconnect
<1>7. Joined(p, a, x, "ready")
  BY <1>0, <1>5, <1>6, JoinLink
<1> HIDE DEF x
<1>8. y.s = x.s /\ y.out = x.out
  <2>1. x \in Contexts
    BY <1>7 DEF Joined, ContextOK
  <2> QED BY <2>1 DEF Contexts
<1> HIDE DEF y
<1>9. peers'[p] = s /\ outbound' = x.out /\ \A q \in Peers \ {p} : peers'[q] = peers[q]
  BY <1>0, <1>1, <1>5, <1>7, <1>8, StoreFacts DEF Joined
<1>10. /\ \A q \in Peers \ {p} : SameLines(q, outbound', outbound)
       /\ \A ch \in AllChannels : OutLine(p, ch, outbound') = OutLine(p, ch, outbound)
       /\ LinkLine(p, outbound') = Append(LinkLine(p, outbound), "ready")
  BY <1>5, <1>7, <1>9 DEF Joined
<1> QED BY <1>2, <1>3, <1>9, <1>10

(* A connect fails.                                                        *)
LEMMA ConnectFailedTurns ==
  ASSUME InitiatorInv, AllTurns, NEW p \in Peers, ConnectFailed(p)
  PROVE  AllTurns'
<1>1. PICK i \in Completing(p) : Completes(p, i)
  BY DEF ConnectFailed
<1>2. UNCHANGED <<scene, conns, writers>> /\ on_errored(p)
  BY DEF ConnectFailed
<1> SUFFICES ASSUME MaxConns = 1
             PROVE  (\A q \in Peers \ {p} : Aside(q)) /\ PeerTurns(p)'
  BY <1>2, OneTurns
<1>3. /\ PeerTurns(p) /\ ConnsOf(p, conns) = {} /\ Apart1(p)
      /\ LinkLine(p, outbound) = <<>>
      /\ futures'[p] = <<>> /\ p \in known /\ p \notin cold_peers
      /\ \A q \in Peers \ {p} : futures'[q] = futures[q]
  BY <1>1, CompletingOnly, CompletesOthers DEF AllTurns
<1>4. /\ peers'[p].connection = "Errored" /\ peers'[p].proto = peers[p].proto
      /\ peers'[p].unsent = peers[p].unsent /\ peers'[p].violation = peers[p].violation
      /\ \A ch \in AllChannels : OutLine(p, ch, outbound') = OutLine(p, ch, outbound)
      /\ LinkLine(p, outbound') = Append(LinkLine(p, outbound), "ready")
      /\ GovernsOnly(p) /\ UNCHANGED <<known, cold_peers, tag>>
      /\ \A q \in Peers \ {p} : peers'[q] = peers[q] /\ SameLines(q, outbound', outbound)
  BY <1>2, <1>3, ErroredFacts
<1>5. \A q \in Peers \ {p} : Aside(q)
  BY <1>2, <1>3, <1>4, ConnsSame DEF Aside, GovernsOnly
<1>6. Fresh(scene, p, peers[p], outbound) /\ writers[p] = 0
  BY <1>3 DEF Apart1, Apart
<1>7. Fresh(scene, p, peers'[p], outbound')
  BY <1>4, <1>6, UpheldOn
<1>8. /\ ~Linking(futures'[p], LinkLine(p, outbound'))
      /\ ConnectLast(futures'[p], LinkLine(p, outbound'))
  <2> DEFINE link == LinkLine(p, outbound)
  <2>1. link \in Seq(Tokens) /\ link = <<>>
    BY <1>3, LinkTypes
  <2>2. ~Linking(<<>>, link)
    BY <2>1 DEF Linking
  <2> HIDE DEF link
  <2>3. ~Linking(<<>>, Append(link, "ready")) /\ ConnectLast(<<>>, Append(link, "ready"))
    BY <2>1, <2>2, JoinedLink
  <2> QED BY <1>3, <1>4, <2>3 DEF link
<1>9. Apart(scene, p, peers'[p], writers'[p], futures'[p], outbound')
  BY <1>2, <1>6, <1>7, <1>8 DEF Apart
<1>10. Governed(peers'[p], tag'[p], Linking(futures'[p], LinkLine(p, outbound')),
                p \in known', p \in cold_peers')
  BY <1>3, <1>4, <1>8 DEF Governed
<1> QED BY <1>2, <1>3, <1>5, <1>9, <1>10, StaysApart

(* The connection becomes n, of which no more is asked than before.        *)
LEMMA ConnErrored ==
  ASSUME InitiatorInv, AllTurns, NEW c \in DOMAIN conns, NEW p \in Peers, p = conns[c].pid,
         NEW n, conns' = [conns EXCEPT ![c] = n], UNCHANGED <<scene, writers, futures>>,
         n.pid = p, n.shut = conns[c].shut, n.offended = conns[c].offended,
         Negotiated(scene, conns[c]) => Negotiated(scene, n),
         \A s, out : Upheld(scene, p, s, conns[c], out) => Upheld(scene, p, s, n, out),
         on_errored(p)
  PROVE  AllTurns'
<1> SUFFICES ASSUME MaxConns = 1
             PROVE  (\A q \in Peers \ {p} : Aside(q)) /\ PeerTurns(p)'
  BY OneTurns
<1>1. /\ ConnsOf(p, conns) = {c} /\ Live1(p, c) /\ p \in known /\ p \notin cold_peers
      /\ Governed(peers[p], tag[p], TRUE, p \in known, p \in cold_peers)
  BY ConnOf DEF AllTurns
<1>2. /\ peers'[p].connection = "Errored" /\ peers'[p].proto = peers[p].proto
      /\ peers'[p].unsent = peers[p].unsent /\ peers'[p].violation = peers[p].violation
      /\ \A ch \in AllChannels : OutLine(p, ch, outbound') = OutLine(p, ch, outbound)
      /\ LinkLine(p, outbound') = Append(LinkLine(p, outbound), "ready")
      /\ GovernsOnly(p) /\ UNCHANGED <<known, cold_peers, tag>>
      /\ \A q \in Peers \ {p} : peers'[q] = peers[q] /\ SameLines(q, outbound', outbound)
  BY <1>1, ErroredFacts
<1>3. /\ \A q : ConnsOf(q, conns') = ConnsOf(q, conns)
      /\ \A q : q # p => SameConns(q)
      /\ conns'[c] = n /\ DOMAIN conns' = DOMAIN conns
  <2>1. conns \in Seq(ConnStates)
    BY DEF InitiatorInv, PoolTypes
  <2> QED BY <2>1, OneConnOf
<1>4. \A q \in Peers \ {p} : Aside(q)
  BY <1>2, <1>3 DEF Aside, GovernsOnly
<1> DEFINE k == conns[c]
<1> DEFINE link == LinkLine(p, outbound)
<1>5. /\ ~k.offended /\ Negotiated(scene, k) /\ ~Linking(futures[p], link)
      /\ writers[p] = IF k.shut THEN 0 ELSE c
      /\ ~k.shut => futures[p] = <<>> /\ Upheld(scene, p, peers[p], k, outbound)
  BY <1>1 DEF Live1, Live
<1>6. ~Linking(futures'[p], LinkLine(p, outbound'))
  <2>1. link \in Seq(Tokens)
    BY LinkTypes
  <2> HIDE DEF link
  <2>2. Linking(futures[p], Append(link, "ready")) = Linking(futures[p], link)
    BY <2>1, JoinedLink
  <2> QED BY <1>2, <1>5, <2>2 DEF link
<1>7. ~n.shut => Upheld(scene, p, peers'[p], n, outbound')
  <2> SUFFICES ASSUME ~n.shut PROVE Upheld(scene, p, peers'[p], n, outbound')
    OBVIOUS
  <2>1. Upheld(scene, p, peers[p], n, outbound)
    BY <1>5
  <2>2. \A j : Upheld(scene, p, peers[p], j, outbound) => Upheld(scene, p, peers'[p], j, outbound')
    BY <1>2, UpheldOn
  <2> QED BY <2>1, <2>2
<1>8. Live(scene, p, peers'[p], conns'[c], c, writers'[p], futures'[p], outbound')
  BY <1>3, <1>5, <1>6, <1>7 DEF Live
<1>9. Governed(peers'[p], tag'[p], TRUE, p \in known', p \in cold_peers')
  BY <1>1, <1>2 DEF Governed
<1>10. ConnsOf(p, conns') = {c} /\ c \in DOMAIN conns'
  BY <1>1, <1>3
<1> QED BY <1>4, <1>8, <1>9, <1>10, StaysLive

(* A write fails, and its task ends.                                       *)
LEMMA SendFailedTurns ==
  ASSUME InitiatorInv, AllTurns, NEW c \in DOMAIN conns, SendFailed(c)
  PROVE  AllTurns'
<1>0. PICK p \in Peers : p = conns[c].pid
  BY ConnFacts
<1> DEFINE n == [conns[c] EXCEPT !.tasks = Tail(@), !.writing = FALSE]
<1>1. conns \in Seq(ConnStates) /\ conns[c] \in ConnStates
  BY ConnFacts DEF InitiatorInv, PoolTypes
<1>2. conns' = [conns EXCEPT ![c] = n] /\ UNCHANGED <<scene, writers, futures>> /\ on_errored(p)
  BY <1>0, <1>1 DEF SendFailed, PoolSendFailed
<1>3. /\ n.pid = conns[c].pid /\ n.shut = conns[c].shut /\ n.offended = conns[c].offended
      /\ n.remote = conns[c].remote /\ n.reading = conns[c].reading /\ n.writing = FALSE
  BY <1>1 DEF ConnStates
<1> HIDE DEF n
<1>4. Negotiated(scene, conns[c]) => Negotiated(scene, n)
  BY <1>3 DEF Negotiated
<1>5. \A s, out : Upheld(scene, p, s, conns[c], out) => Upheld(scene, p, s, n, out)
  BY <1>3 DEF Upheld, Mirrored
<1> QED BY <1>0, <1>2, <1>3, <1>4, <1>5, ConnErrored

(* A read fails, and its task ends.                                        *)
LEMMA RecvFailedTurns ==
  ASSUME InitiatorInv, AllTurns, NEW c \in DOMAIN conns, RecvFailed(c)
  PROVE  AllTurns'
<1>0. PICK p \in Peers : p = conns[c].pid
  BY ConnFacts
<1> DEFINE far == [ch \in Channels |-> Default(ch)]
<1> DEFINE n == [conns[c] EXCEPT !.reading = FALSE, !.remote = far]
<1>1. conns \in Seq(ConnStates) /\ conns[c] \in ConnStates
  BY ConnFacts DEF InitiatorInv, PoolTypes
<1>2. conns' = [conns EXCEPT ![c] = n] /\ UNCHANGED <<scene, writers, futures>> /\ on_errored(p)
  <2>1. PoolRecvFailed(c) /\ on_errored(p)
    BY <1>0 DEF RecvFailed
  <2>2. /\ conns' = [conns EXCEPT ![c].reading = FALSE, ![c].remote = far]
        /\ UNCHANGED <<scene, writers, futures>>
    BY <2>1, Zenon DEF PoolRecvFailed
  <2> HIDE DEF far
  <2>3. conns' = [conns EXCEPT ![c] = n]
    BY <1>1, <2>2
  <2> QED BY <2>1, <2>2, <2>3
<1>3. /\ n.pid = conns[c].pid /\ n.shut = conns[c].shut /\ n.offended = conns[c].offended
      /\ n.remote = far /\ n.reading = FALSE
      /\ n.writing = conns[c].writing /\ n.tasks = conns[c].tasks
  BY <1>1 DEF ConnStates
<1> HIDE DEF n
<1>4. Channels \subseteq AllChannels
  BY ScenariosAssumption DEF InitiatorInv, Channels
<1>5. Negotiated(scene, n)
  <2>1. \A ch \in Channels : far[ch].at = StartAt[ch]
    BY <1>4, DefaultFacts
  <2> QED BY <1>3, <2>1 DEF Negotiated, Channels
<1>6. \A s, out : Upheld(scene, p, s, conns[c], out) => Upheld(scene, p, s, n, out)
  BY <1>3 DEF Upheld
<1> QED BY <1>0, <1>2, <1>3, <1>5, <1>6, ConnErrored

-----------------------------------------------------------------------------
(* A request is written: both ends take it.                                *)

(* The head of a writer's tasks leaves the line of its channel.            *)
LEMMA TaskHead ==
  ASSUME NEW tasks \in Seq(Asks \cup {Shutdown}), tasks # <<>>, NEW ch \in Keys,
         Head(tasks) \in Asks
  PROVE  /\ TaskLine(ch, Tail(tasks)) \in Seq(Tokens)
         /\ TaskLine(ch, tasks) =
              IF Head(tasks).ch = ch THEN <<Head(tasks)>> \o TaskLine(ch, Tail(tasks))
                                     ELSE TaskLine(ch, Tail(tasks))
<1> DEFINE m == Head(tasks)
<1> DEFINE l == TaskLine(ch, Tail(tasks))
<1>1. TaskLine(ch, tasks) = TaskToken(ch)[m] \o l
  BY TaskEnds
<1>2. Tail(tasks) \in Seq(Asks \cup {Shutdown}) /\ m \in Asks
  OBVIOUS
<1>3. l \in Seq(Tokens)
  BY <1>2, TaskEnds
<1>4. TaskToken(ch)[m] = IF m.ch = ch THEN <<m>> ELSE <<>>
  BY <1>2, TaskTokens
<1> HIDE DEF l, m
<1>5. <<>> \o l = l
  BY <1>3
<1> QED BY <1>1, <1>3, <1>4, <1>5 DEF l, m

(* What on_outbound_msg does to the near end.                              *)
LEMMA SentNear ==
  ASSUME NEW s, PeerOK(s), NEW m \in Asks, m.ch \in Channels, CanApply(s.proto[m.ch], m)
  PROVE  LET y == blockfetch_outbound(apply_msg(clear_unsent(s, m), m))
         IN  /\ y.connection = s.connection /\ y.violation = s.violation
             /\ \A ch \in Channels :
                  /\ y.proto[ch] = IF ch = m.ch THEN Apply(s.proto[ch], m) ELSE s.proto[ch]
                  /\ ch # m.ch => y.unsent[ch] = s.unsent[ch]
<1> DEFINE c == clear_unsent(s, m)
<1> DEFINE v == Apply(s.proto[m.ch], m)
<1> DEFINE a == apply_msg(c, m)
<1> DEFINE y == blockfetch_outbound(a)
<1>1. s \in PeerStates
  BY DEF PeerOK
<1>2. /\ c \in PeerStates /\ c.proto = s.proto /\ c.connection = s.connection
      /\ c.violation = s.violation
      /\ \A ch \in Channels \ {m.ch} : c.unsent[ch] = s.unsent[ch]
  BY <1>1 DEF clear_unsent, PeerStates
<1> HIDE DEF c
<1>3. a = [c EXCEPT !.proto[m.ch] = v]
  BY <1>2 DEF apply_msg
<1> HIDE DEF v
<1>4. /\ a.connection = s.connection /\ a.violation = s.violation /\ a.unsent = c.unsent
      /\ \A ch \in Channels : a.proto[ch] = IF ch = m.ch THEN v ELSE s.proto[ch]
      /\ a \in [connection : ConnectionStates, violation : BOOLEAN, error_count : Nat,
                continue_sync : BOOLEAN, sync_next_deferred : BOOLEAN,
                proto : {a.proto}, unsent : {c.unsent},
                in_flight : Ranges \cup {None}]
  BY <1>2, <1>3 DEF PeerStates
<1> HIDE DEF a
<1>5. /\ y.connection = a.connection /\ y.violation = a.violation
      /\ y.unsent = a.unsent /\ y.proto = a.proto
  BY <1>4 DEF blockfetch_outbound
<1> HIDE DEF y
<1> QED BY <1>2, <1>4, <1>5 DEF c, v, a, y

(* The state of peer p and of its connection before the write, and after.  *)
LEMMA SentUpheld ==
  ASSUME scene \in Scenarios, NEW p, NEW out, NEW s, NEW k \in ConnStates, NEW m \in Asks,
         NEW rest, rest = Tail(k.tasks), k.tasks # <<>>, Head(k.tasks) = m,
         k.writing, Upheld(scene, p, s, k, out), Negotiated(scene, k), ~k.offended,
         \A ch \in AllChannels : OutLine(p, ch, out) \in Seq(Tokens),
         PeerOK(s), NEW y, y = blockfetch_outbound(apply_msg(clear_unsent(s, m), m)),
         NEW n, n = RemoteGets([k EXCEPT !.tasks = rest], m)
  PROVE  /\ n.pid = k.pid /\ n.shut = k.shut /\ n.offended = k.offended
         /\ Negotiated(scene, n) /\ Upheld(scene, p, y, n, out)
         /\ y.connection = s.connection
<1>0. m.ch \in AllChannels /\ m.ch \in Keys /\ m \in Tokens /\ AllChannels \subseteq Keys
      /\ k.tasks \in Seq(Asks \cup {Shutdown}) /\ "handshake" \in Channels
      /\ Channels \subseteq AllChannels
  BY AsksKinds, ScenariosAssumption DEF Keys, Tokens, ConnStates, Channels
<1>1. ASSUME NEW ch \in AllChannels
      PROVE  /\ TaskLine(ch, rest) \in Seq(Tokens)
             /\ TaskLine(ch, k.tasks) =
                  IF m.ch = ch THEN <<m>> \o TaskLine(ch, rest) ELSE TaskLine(ch, rest)
  <2> DEFINE t == k.tasks
  <2>1. /\ t \in Seq(Asks \cup {Shutdown}) /\ t # <<>> /\ Head(t) \in Asks
        /\ Head(t) = m /\ Tail(t) = rest /\ ch \in Keys
    BY <1>0
  <2> HIDE DEF t
  <2>2. /\ TaskLine(ch, Tail(t)) \in Seq(Tokens)
        /\ TaskLine(ch, t) =
             IF Head(t).ch = ch THEN <<Head(t)>> \o TaskLine(ch, Tail(t))
                                ELSE TaskLine(ch, Tail(t))
    BY <2>1, TaskHead
  <2> QED BY <2>1, <2>2 DEF t
<1>2. /\ m.ch \in Channels /\ s.proto[m.ch].at \in Asking[m.ch]
      /\ m.ch \in Leioses => Version(s) = "leios"
      /\ TaskLine(m.ch, rest) \o OutLine(p, m.ch, out) = <<>>
  <2> DEFINE a == TaskLine(m.ch, rest)
  <2> DEFINE b == OutLine(p, m.ch, out)
  <2>1. a \in Seq(Tokens) /\ b \in Seq(Tokens) /\ TaskLine(m.ch, k.tasks) = <<m>> \o a
    BY <1>0, <1>1
  <2>2. Pending(scene, s, m.ch, (<<m>> \o a) \o b)
    BY <1>0, <2>1 DEF Upheld
  <2> HIDE DEF a, b
  <2>3. (<<m>> \o a) \o b # <<>> /\ \A x : (<<m>> \o a) \o b = <<x>> => x = m /\ a \o b = <<>>
    <3>1. PICK l : l = (<<m>> \o a) \o b
      OBVIOUS
    <3>2. Len(l) = 1 + Len(a) + Len(b) /\ Len(a) \in Nat /\ Len(b) \in Nat /\ l[1] = m
      BY <1>0, <2>1, <3>1
    <3>3. Len(a) = 0 /\ Len(b) = 0 => a \o b = <<>>
      BY <2>1
    <3>4. Len(<<>>) = 0 /\ \A x : Len(<<x>>) = 1 /\ <<x>>[1] = x
      OBVIOUS
    <3>5. l # <<>>
      BY <3>2, <3>4
    <3>6. ASSUME NEW x, l = <<x>> PROVE x = m /\ a \o b = <<>>
      <4>1. Len(l) = 1 /\ l[1] = x
        BY <3>4, <3>6
      <4>2. \A i, j \in Nat : 1 = 1 + i + j => i = 0 /\ j = 0
        OBVIOUS
      <4>3. Len(a) = 0 /\ Len(b) = 0 /\ x = m
        BY <3>2, <4>1, <4>2, Zenon
      <4> QED BY <3>3, <4>3
    <3> QED BY <3>1, <3>5, <3>6
  <2>4. /\ m.ch \in scene.channels /\ s.proto[m.ch].at \in Asking[m.ch]
        /\ m.ch \in Leioses => Version(s) = "leios"
        /\ \E x \in Asks : (<<m>> \o a) \o b = <<x>>
    BY <2>2, <2>3 DEF Pending
  <2> QED BY <2>3, <2>4 DEF Channels, a, b
<1>3. /\ CanApply(s.proto[m.ch], m)
      /\ Apply(s.proto[m.ch], m).at # "IdleNoIntersection"
  BY <1>2, AskApplied DEF Same
<1>4. /\ y.connection = s.connection /\ y.violation = s.violation
      /\ \A ch \in Channels :
           /\ y.proto[ch] = IF ch = m.ch THEN Apply(s.proto[ch], m) ELSE s.proto[ch]
           /\ ch # m.ch => y.unsent[ch] = s.unsent[ch]
  BY <1>2, <1>3, SentNear
<1> DEFINE j == [k EXCEPT !.tasks = rest]
<1>5. /\ j.pid = k.pid /\ j.shut = k.shut /\ j.offended = k.offended /\ j.tasks = rest
      /\ j.reading = k.reading /\ j.writing = k.writing /\ j.remote = k.remote
      /\ k.remote \in [Channels -> ProtoStates]
      /\ \A r : LET i == [j EXCEPT !.remote = r]
                IN  /\ i.pid = k.pid /\ i.shut = k.shut /\ i.offended = k.offended
                    /\ i.tasks = rest /\ i.reading = k.reading /\ i.writing = k.writing
                    /\ i.remote = r
  BY DEF ConnStates
<1>51. j.remote \in [Channels -> ProtoStates] /\ n = RemoteGets(j, m)
  BY <1>5
<1>52. \A v : [j EXCEPT !.remote[m.ch] = v] = [j EXCEPT !.remote = [j.remote EXCEPT ![m.ch] = v]]
  OBVIOUS
<1> HIDE DEF j
<1>6. k.reading => /\ Mirrored(scene, s, k) /\ Same(m.ch, s.proto[m.ch].at, k.remote[m.ch].at)
                   /\ CanApply(k.remote[m.ch], m)
                   /\ Apply(k.remote[m.ch], m).at = Apply(s.proto[m.ch], m).at
  <2>1. k.reading => Mirrored(scene, s, k) /\ Same(m.ch, s.proto[m.ch].at, k.remote[m.ch].at)
    BY <1>2 DEF Upheld, Mirrored, Channels
  <2>2. ASSUME k.reading
        PROVE  /\ CanApply(k.remote[m.ch], m)
               /\ Apply(k.remote[m.ch], m).at = Apply(s.proto[m.ch], m).at
    <3> DEFINE a == s.proto[m.ch]
    <3> DEFINE b == k.remote[m.ch]
    <3>1. a.at \in Asking[m.ch] /\ Same(m.ch, a.at, b.at)
      BY <1>2, <2>1, <2>2
    <3> HIDE DEF a, b
    <3>2. CanApply(b, m) /\ Apply(a, m).at = Apply(b, m).at
      BY <3>1, AskApplied
    <3> QED BY <3>2 DEF a, b
  <2> QED BY <2>1, <2>2
<1>7. /\ n.pid = k.pid /\ n.shut = k.shut /\ n.offended = k.offended /\ n.tasks = rest
      /\ n.reading = k.reading /\ n.writing = k.writing
      /\ \A ch \in Channels : n.remote[ch] =
           IF k.reading /\ ch = m.ch THEN Apply(k.remote[ch], m) ELSE k.remote[ch]
  <2>1. CASE ~k.reading
    BY <1>5, <1>51, <2>1 DEF RemoteGets
  <2>2. CASE k.reading
    <3> DEFINE v == Apply(k.remote[m.ch], m)
    <3>1. n = [j EXCEPT !.remote[m.ch] = v]
      BY <1>5, <1>51, <1>6, <2>2 DEF RemoteGets
    <3> HIDE DEF v
    <3> DEFINE r == [k.remote EXCEPT ![m.ch] = v]
    <3>2. \A ch \in Channels : r[ch] = IF ch = m.ch THEN v ELSE k.remote[ch]
      BY <1>5
    <3>3. n = [j EXCEPT !.remote = r]
      BY <1>5, <1>52, <3>1
    <3> HIDE DEF r
    <3>4. /\ n.pid = k.pid /\ n.shut = k.shut /\ n.offended = k.offended /\ n.tasks = rest
          /\ n.reading = k.reading /\ n.writing = k.writing /\ n.remote = r
      BY <3>3 DEF j, ConnStates
    <3> QED BY <2>2, <3>2, <3>4 DEF v
  <2> QED BY <2>1, <2>2
<1>8. m.ch = "handshake" => s.proto["handshake"].at = "Propose" /\ Version(s) = None
  BY <1>2 DEF Asking, Version
<1>9. m.ch # "handshake" => y.proto["handshake"] = s.proto["handshake"] /\ Version(y) = Version(s)
  BY <1>0, <1>4 DEF Version
<1>10. Negotiated(scene, n)
  <2> SUFFICES ASSUME NEW ch \in Channels \cap Leioses, n.remote[ch].at # StartAt[ch]
               PROVE  n.remote["handshake"].at = "Accepted" /\ n.remote["handshake"].arg = "leios"
    BY DEF Negotiated, Channels
  <2>0. ch # "handshake"
    BY DEF Leioses
  <2>1. CASE k.reading /\ m.ch = ch
    <3>1. k.remote["handshake"] = s.proto["handshake"] /\ Version(s) = "leios"
      BY <1>2, <1>6, <2>1 DEF Mirrored
    <3>2. n.remote["handshake"] = s.proto["handshake"]
      BY <1>0, <1>7, <2>0, <2>1, <3>1
    <3> QED BY <3>1, <3>2 DEF Version, None
  <2>2. CASE ~(k.reading /\ m.ch = ch)
    <3>1. n.remote[ch] = k.remote[ch]
      BY <1>7, <2>2
    <3>2. k.remote["handshake"].at = "Accepted" /\ k.remote["handshake"].arg = "leios"
      BY <3>1 DEF Negotiated, Channels
    <3>3. ~(k.reading /\ m.ch = "handshake")
      BY <1>6, <1>8, <3>2 DEF Mirrored
    <3> QED BY <1>0, <1>7, <3>2, <3>3
  <2> QED BY <2>1, <2>2
<1>11. n.reading => Mirrored(scene, y, n)
  <2> SUFFICES ASSUME k.reading PROVE Mirrored(scene, y, n)
    BY <1>7
  <2>1. n.remote["handshake"] = y.proto["handshake"]
    <3>1. k.remote["handshake"] = s.proto["handshake"]
      BY <1>6 DEF Mirrored
    <3>2. CASE m.ch = "handshake"
      <4>1. /\ n.remote["handshake"] = Apply(k.remote["handshake"], m)
            /\ y.proto["handshake"] = Apply(s.proto["handshake"], m)
        <5>1. /\ n.remote[m.ch] = Apply(k.remote[m.ch], m)
              /\ y.proto[m.ch] = Apply(s.proto[m.ch], m)
          BY <1>2, <1>4, <1>7
        <5> QED BY <3>2, <5>1
      <4> QED BY <3>1, <4>1
    <3>3. CASE m.ch # "handshake"
      BY <1>0, <1>4, <1>7, <3>1, <3>3
    <3> QED BY <3>2, <3>3
  <2>2. ASSUME NEW ch \in Channels PROVE Same(ch, y.proto[ch].at, n.remote[ch].at)
    <3>1. CASE ch = m.ch
      BY <1>4, <1>6, <1>7, <3>1 DEF Same
    <3>2. CASE ch # m.ch
      <4>1. y.proto[ch] = s.proto[ch] /\ n.remote[ch] = k.remote[ch]
        BY <1>4, <1>7, <3>2
      <4>2. Same(ch, s.proto[ch].at, k.remote[ch].at)
        BY <1>6 DEF Mirrored, Channels
      <4> QED BY <4>1, <4>2
    <3> QED BY <3>1, <3>2
  <2> QED BY <2>1, <2>2 DEF Mirrored, Channels
<1>12. ASSUME NEW ch \in AllChannels
       PROVE  Pending(scene, y, ch, TaskLine(ch, rest) \o OutLine(p, ch, out))
  <2> DEFINE l == TaskLine(ch, rest) \o OutLine(p, ch, out)
  <2>1. CASE ch = m.ch
    BY <1>2, <2>1 DEF Pending
  <2>2. CASE ch # m.ch
    <3>1. TaskLine(ch, k.tasks) = TaskLine(ch, rest)
      BY <1>1, <2>2
    <3>2. Pending(scene, s, ch, l)
      BY <3>1 DEF Upheld
    <3> HIDE DEF l
    <3> SUFFICES ASSUME l # <<>> PROVE Pending(scene, y, ch, l)
      BY DEF Pending, l
    <3>3. /\ ch \in Channels /\ s.proto[ch].at \in Asking[ch]
          /\ ch \in Leioses => Version(s) = "leios"
          /\ \E x \in Asks : /\ x.ch = ch /\ l = <<x>>
                             /\ ch # "handshake" => s.unsent[ch] = x
      BY <3>2 DEF Pending, Channels
    <3>4. y.proto[ch] = s.proto[ch] /\ y.unsent[ch] = s.unsent[ch]
      BY <1>4, <2>2, <3>3
    <3>5. ch \in Leioses => Version(y) = "leios"
      <4>1. ch \in Leioses => m.ch # "handshake"
        BY <1>8, <3>3 DEF None
      <4> QED BY <1>9, <3>3, <4>1
    <3> QED BY <3>3, <3>4, <3>5 DEF Pending, Channels
  <2> QED BY <2>1, <2>2
<1>13. Innocent(scene, p, y)
  <2>1. "chainsync" \in Channels /\ s.proto["chainsync"].at # "IdleNoIntersection"
          => y.proto["chainsync"].at # "IdleNoIntersection"
    BY <1>3, <1>4
  <2> QED BY <1>4, <2>1 DEF Innocent, Upheld, Channels
<1>14. y.connection \in {"Connected", "Initialized", "Errored"}
  BY <1>4 DEF Upheld
<1>15. Upheld(scene, p, y, n, out)
  BY <1>7, <1>11, <1>12, <1>13, <1>14 DEF Upheld
<1> QED BY <1>4, <1>7, <1>10, <1>15

(* A written request moves both ends along the same transition.            *)
LEMMA SentTurns ==
  ASSUME InitiatorInv, AllTurns, NEW c \in DOMAIN conns, Sent(c)
  PROVE  AllTurns'
<1>0. PICK p \in Peers : p = conns[c].pid
  BY ConnFacts
<1> DEFINE k == conns[c]
<1> DEFINE m == Task(c)
<1> DEFINE n == RemoteGets([k EXCEPT !.tasks = Tail(@)], m)
<1> DEFINE s == peers[p]
<1> DEFINE y == blockfetch_outbound(apply_msg(clear_unsent(s, m), m))
<1>1. PoolSent(c) /\ on_outbound_msg(p, m)
  BY <1>0 DEF Sent
<1>2. /\ k.tasks # <<>> /\ ~IsShutdown(c) /\ ~k.shut /\ k.writing
      /\ conns' = [conns EXCEPT ![c] = n] /\ UNCHANGED <<scene, writers, futures>>
  BY <1>1 DEF PoolSent
<1>3. k \in ConnStates /\ m \in Asks /\ Head(k.tasks) = m /\ conns \in Seq(ConnStates)
  BY <1>2, ConnFacts DEF InitiatorInv, PoolTypes, Task
<1> SUFFICES ASSUME MaxConns = 1
             PROVE  (\A q \in Peers \ {p} : Aside(q)) /\ PeerTurns(p)'
  BY <1>2, OneTurns
<1>4. /\ ConnsOf(p, conns) = {c} /\ Live1(p, c) /\ p \in known /\ p \notin cold_peers
      /\ Governed(peers[p], tag[p], TRUE, p \in known, p \in cold_peers)
  BY <1>0, ConnOf DEF AllTurns
<1>5. peers' = [peers EXCEPT ![p] = y] /\ UNCHANGED govVars /\ UNCHANGED outbound
  BY <1>1, <1>4 DEF on_outbound_msg
<1>6. /\ ~k.offended /\ Negotiated(scene, k) /\ ~Linking(futures[p], LinkLine(p, outbound))
      /\ writers[p] = c
      /\ futures[p] = <<>> /\ Upheld(scene, p, s, k, outbound)
  BY <1>2, <1>4 DEF Live1, Live
<1>7. PeerOK(s) /\ peers \in [Peers -> PeerStates] /\ outbound \in Seq(Outputs)
  BY PeerFacts
<1>8. \A ch \in AllChannels : OutLine(p, ch, outbound) \in Seq(Tokens)
  BY <1>7, OutEnds DEF Keys
<1>9. scene \in Scenarios /\ n = RemoteGets([k EXCEPT !.tasks = Tail(k.tasks)], m)
  BY DEF InitiatorInv
<1>10. PICK rest : rest = Tail(k.tasks)
  OBVIOUS
<1> HIDE DEF m, s, y, n
<1>11. /\ n.pid = k.pid /\ n.shut = k.shut /\ n.offended = k.offended
       /\ Negotiated(scene, n) /\ Upheld(scene, p, y, n, outbound)
       /\ y.connection = s.connection
  <2>1. y = blockfetch_outbound(apply_msg(clear_unsent(s, m), m))
    BY DEF y
  <2>2. n = RemoteGets([k EXCEPT !.tasks = rest], m)
    BY <1>9, <1>10
  <2> HIDE DEF k
  <2>3. /\ scene \in Scenarios /\ k \in ConnStates /\ m \in Asks
        /\ rest = Tail(k.tasks) /\ k.tasks # <<>> /\ Head(k.tasks) = m /\ k.writing
        /\ Upheld(scene, p, s, k, outbound) /\ Negotiated(scene, k) /\ ~k.offended
        /\ PeerOK(s)
    BY <1>2, <1>3, <1>6, <1>7, <1>9, <1>10
  <2> QED BY <1>8, <2>1, <2>2, <2>3, SentUpheld, SMTT(60)
<1>12. /\ \A q : ConnsOf(q, conns') = ConnsOf(q, conns)
       /\ \A q : q # p => SameConns(q)
       /\ conns'[c] = n /\ DOMAIN conns' = DOMAIN conns
  BY <1>0, <1>2, <1>3, <1>11, OneConnOf
<1>13. GovernsOnly(p) /\ UNCHANGED <<known, cold_peers, tag>>
  BY <1>5, GovernFacts DEF InitiatorInv
<1>14. peers'[p] = y /\ \A q \in Peers \ {p} : peers'[q] = peers[q]
  BY <1>5, <1>7
<1>15. \A q \in Peers \ {p} : Aside(q)
  BY <1>2, <1>5, <1>12, <1>13, <1>14 DEF Aside, GovernsOnly, SameLines
<1>16. Live(scene, p, peers'[p], conns'[c], c, writers'[p], futures'[p], outbound')
  BY <1>2, <1>5, <1>6, <1>11, <1>12, <1>14 DEF Live
<1>17. Governed(peers'[p], tag'[p], TRUE, p \in known', p \in cold_peers')
  BY <1>4, <1>11, <1>13, <1>14 DEF Governed, s
<1>18. ConnsOf(p, conns') = {c} /\ c \in DOMAIN conns'
  BY <1>4, <1>12
<1> QED BY <1>2, <1>15, <1>16, <1>17, <1>18, StaysLive

-----------------------------------------------------------------------------
(* A peer is lost: by a shutdown, or by a disconnect that found no writer. *)

(* on_disconnected resets a tracked peer and its tag.                      *)
LEMMA LostFacts ==
  ASSUME InitiatorInv, NEW p \in Peers, on_disconnected(p),
         NEW s, s = IF p \in known THEN reset(peers[p]) ELSE peers[p]
  PROVE  /\ UNCHANGED <<known, cold_peers>> /\ GovernsOnly(p)
         /\ tag'[p] = IF p \in known THEN "Cold" ELSE tag[p]
         /\ \A q \in Peers \ {p} : Carried(q, peers[q], outbound, peers'[q], outbound')
         /\ Carried(p, s, outbound, peers'[p], outbound')
<1>1. /\ UNCHANGED <<known, cold_peers>> /\ GovernsOnly(p)
      /\ tag'[p] = IF p \in known THEN "Cold" ELSE tag[p]
  <2>1. reset_tag(p)
    BY DEF on_disconnected
  <2> QED BY <2>1, GovernFacts DEF InitiatorInv
<1>2. PICK all \in [Peers -> PeerStates], queue \in Seq(Ranges), tags \in {tag, tag'} :
        /\ \A q \in Peers : PeerOK(all[q]) /\ serve_block_fetch(all, tags, queue)
        /\ all[p] = s /\ \A q \in Peers \ {p} : all[q] = peers[q]
  <2>0. /\ peers \in [Peers -> PeerStates] /\ \A q \in Peers : PeerOK(peers[q])
        /\ requests \in Seq(Ranges)
    BY DEF InitiatorInv, BehaviorInv, BehaviorTypes, PeerOK
  <2>1. CASE p \notin known
    <3>1. serve_block_fetch(peers, tag, requests)
      BY <2>1 DEF on_disconnected
    <3> QED BY <2>0, <2>1, <3>1
  <2>2. CASE p \in known
    <3> DEFINE all == [peers EXCEPT ![p] = reset(@)]
    <3> DEFINE queue == RangesHeld(peers[p]) \o requests
    <3>1. serve_block_fetch(all, tag', queue)
      BY <2>2 DEF on_disconnected
    <3>2. PeerOK(reset(peers[p]))
      BY <2>0, FreshOK DEF InitiatorInv
    <3>3. /\ all \in [Peers -> PeerStates] /\ \A q \in Peers : PeerOK(all[q])
          /\ all[p] = s /\ \A q \in Peers \ {p} : all[q] = peers[q]
      BY <2>0, <2>2, <3>2 DEF PeerOK
    <3>4. RangesHeld(peers[p]) \in Seq(Ranges)
      BY <2>0, HeldFacts
    <3>5. queue \in Seq(Ranges)
      BY <2>0, <3>4
    <3> HIDE DEF all, queue
    <3> QED BY <3>1, <3>3, <3>5
  <2> QED BY <2>1, <2>2
<1>3. \A q \in Peers : PeerOK(all[q]) /\ serve_block_fetch(all, tags, queue)
  BY <1>2
<1>4. \A q \in Peers : Carried(q, all[q], outbound, peers'[q], outbound')
  BY <1>3, Served
<1> QED BY <1>1, <1>2, <1>4

(* The other peers may be given the ranges of the one that is lost.        *)
LEMMA LostTurns ==
  ASSUME InitiatorInv, AllTurns, UNCHANGED scene, NEW p \in Peers, on_disconnected(p),
         \A q \in Peers \ {p} : /\ SameConns(q) /\ writers'[q] = writers[q]
                                /\ futures'[q] = futures[q],
         MaxConns = 1 => PeerTurns(p)'
  PROVE  AllTurns'
<1>1. MaxConns' = MaxConns
  BY DEF MaxConns
<1>2. /\ UNCHANGED <<known, cold_peers>> /\ GovernsOnly(p)
      /\ \A q \in Peers \ {p} : Carried(q, peers[q], outbound, peers'[q], outbound')
  BY LostFacts
<1>3. ASSUME MaxConns = 1, NEW q \in Peers \ {p} PROVE PeerTurns(q)'
  <2>1. PeerTurns(q)
    BY <1>3 DEF AllTurns
  <2>2. tag'[q] = tag[q] /\ (tag[q] \in {"Warm", "Hot"} => q \notin cold_peers)
    BY <1>2, <2>1, TurnsCases DEF Governed, GovernsOnly
  <2> QED BY <1>2, <2>1, <2>2, CarriedOn
<1> QED BY <1>1, <1>3 DEF AllTurns

(* A writer reaches its Shutdown: the connection is shut, the peer reset.  *)
LEMMA DisconnectedTurns ==
  ASSUME InitiatorInv, AllTurns, NEW c \in DOMAIN conns, Disconnected(c)
  PROVE  AllTurns'
<1>0. PICK p \in Peers : p = conns[c].pid
  BY ConnFacts
<1> DEFINE k == conns[c]
<1> DEFINE n == [k EXCEPT !.tasks = Tail(@), !.shut = TRUE]
<1>1. conns \in Seq(ConnStates) /\ k \in ConnStates /\ writers \in [Peers -> 0..Len(conns)]
  BY ConnFacts DEF InitiatorInv, PoolTypes
<1>2. PoolDisconnected(c) /\ on_disconnected(p)
  BY <1>0 DEF Disconnected
<1>3. /\ conns' = [conns EXCEPT ![c] = n] /\ UNCHANGED <<scene, futures>>
      /\ writers' = [writers EXCEPT ![p] = 0]
  BY <1>0, <1>1, <1>2 DEF PoolDisconnected
<1>4. /\ n.pid = k.pid /\ n.shut = TRUE /\ n.offended = k.offended /\ n.remote = k.remote
  BY <1>1 DEF ConnStates
<1> HIDE DEF n
<1>5. /\ \A q : ConnsOf(q, conns') = ConnsOf(q, conns)
      /\ \A q : q # p => SameConns(q)
      /\ conns'[c] = n /\ DOMAIN conns' = DOMAIN conns
  BY <1>0, <1>1, <1>3, <1>4, OneConnOf
<1>6. writers'[p] = 0 /\ \A q \in Peers \ {p} : writers'[q] = writers[q]
  BY <1>1, <1>3
<1>7. ASSUME MaxConns = 1 PROVE PeerTurns(p)'
  <2>1. /\ ConnsOf(p, conns) = {c} /\ Live1(p, c) /\ p \in known /\ p \notin cold_peers
    BY <1>0, <1>7, ConnOf DEF AllTurns
  <2>2. PICK s : s = IF p \in known THEN reset(peers[p]) ELSE peers[p]
    OBVIOUS
  <2>3. /\ UNCHANGED <<known, cold_peers>> /\ tag'[p] = "Cold"
        /\ Carried(p, s, outbound, peers'[p], outbound')
    BY <1>2, <2>1, <2>2, LostFacts
  <2>4. s.connection = "New"
    BY <2>1, <2>2, NewStateFacts
  <2>5. ~k.offended /\ Negotiated(scene, k) /\ ~Linking(futures[p], LinkLine(p, outbound))
    BY <2>1 DEF Live1, Live
  <2>6. Negotiated(scene, n)
    BY <1>4, <2>5 DEF Negotiated
  <2>7. LinkLine(p, outbound') = LinkLine(p, outbound) /\ peers'[p].connection # "Disconnected"
    BY <2>3, <2>4 DEF Carried
  <2>8. Live(scene, p, peers'[p], conns'[c], c, writers'[p], futures'[p], outbound')
    BY <1>3, <1>4, <1>5, <1>6, <2>5, <2>6, <2>7 DEF Live
  <2>9. Governed(peers'[p], tag'[p], TRUE, p \in known', p \in cold_peers')
    BY <2>1, <2>3, <2>7 DEF Governed
  <2>10. ConnsOf(p, conns') = {c} /\ c \in DOMAIN conns'
    BY <1>5, <2>1
  <2> QED BY <1>3, <2>8, <2>9, <2>10, StaysLive
<1> QED BY <1>2, <1>3, <1>5, <1>6, <1>7, LostTurns

(* A sequence without its i-th element.                                    *)
LEMMA WithoutFacts ==
  ASSUME NEW S, NEW queue \in Seq(S), NEW i \in DOMAIN queue,
         NEW w, w = Without(queue, i)
  PROVE  /\ Len(w) = Len(queue) - 1 /\ DOMAIN w = 1..(Len(queue) - 1)
         /\ \A j \in 1..(Len(queue) - 1) :
              w[j] = IF j < i THEN queue[j] ELSE queue[j + 1]
<1> DEFINE a == SubSeq(queue, 1, i - 1)
<1> DEFINE b == SubSeq(queue, i + 1, Len(queue))
<1>0. i \in 1..Len(queue) /\ Len(queue) \in Nat
  OBVIOUS
<1>1. a \in Seq(S) /\ Len(a) = i - 1 /\ \A j \in 1..(i - 1) : a[j] = queue[j]
  BY <1>0
<1>2. /\ b \in Seq(S) /\ Len(b) = Len(queue) - i
      /\ \A j \in 1..(Len(queue) - i) : b[j] = queue[j + i]
  BY <1>0
<1>3. w = a \o b
  BY DEF Without
<1> HIDE DEF a, b
<1>4. /\ w \in Seq(S) /\ Len(w) = Len(a) + Len(b)
      /\ \A j \in 1..(Len(a) + Len(b)) :
           w[j] = IF j <= Len(a) THEN a[j] ELSE b[j - Len(a)]
  <2>1. a \in Seq(S) /\ b \in Seq(S)
    BY <1>1, <1>2
  <2>2. /\ a \o b \in Seq(S) /\ Len(a \o b) = Len(a) + Len(b)
        /\ \A j \in 1..(Len(a) + Len(b)) :
             (a \o b)[j] = IF j <= Len(a) THEN a[j] ELSE b[j - Len(a)]
    BY <2>1
  <2> QED BY <1>3, <2>2
<1>5. Len(w) = Len(queue) - 1 /\ DOMAIN w = 1..(Len(queue) - 1)
  BY <1>0, <1>1, <1>2, <1>4
<1>6. ASSUME NEW j \in 1..(Len(queue) - 1)
      PROVE  w[j] = IF j < i THEN queue[j] ELSE queue[j + 1]
  <2>1. j \in 1..(Len(a) + Len(b))
    BY <1>0, <1>1, <1>2
  <2>2. CASE j < i
    <3>1. j <= Len(a) /\ j \in 1..(i - 1)
      BY <1>0, <1>1, <2>2
    <3> QED BY <1>1, <1>4, <2>1, <2>2, <3>1
  <2>3. CASE ~(j < i)
    <3>1. ~(j <= Len(a)) /\ j - Len(a) = j - (i - 1) /\ j - (i - 1) \in 1..(Len(queue) - i)
          /\ (j - (i - 1)) + i = j + 1
      BY <1>0, <1>1, <2>3
    <3>2. w[j] = b[j - (i - 1)]
      BY <1>4, <2>1, <3>1
    <3>3. b[j - (i - 1)] = queue[(j - (i - 1)) + i]
      BY <1>2, <3>1
    <3> QED BY <2>3, <3>1, <3>2, <3>3
  <2> QED BY <2>2, <2>3
<1> QED BY <1>5, <1>6

(* Taking out an event keeps the connect, if there is one, at the end.     *)
LEMMA ReadyTaken ==
  ASSUME NEW fut \in Seq({"connect", "ready"}), NEW i \in DOMAIN fut, fut[i] = "ready",
         NEW w, w = Without(fut, i), NEW link
  PROVE  /\ Linking(w, link) => Linking(fut, link)
         /\ ConnectLast(fut, link) => ConnectLast(w, link)
<1> DEFINE n == Len(fut)
<1>0. n \in Nat /\ DOMAIN fut = 1..n /\ i \in 1..n
  OBVIOUS
<1>1. /\ Len(w) = n - 1 /\ DOMAIN w = 1..(n - 1)
      /\ \A j \in 1..(n - 1) : w[j] = IF j < i THEN fut[j] ELSE fut[j + 1]
  BY WithoutFacts
<1> HIDE DEF n
<1>2. ASSUME NEW j \in DOMAIN w
      PROVE  \E l \in DOMAIN fut : w[j] = fut[l] /\ (l = n /\ i # n => j = n - 1)
  <2>1. CASE j < i
    <3>1. j \in DOMAIN fut /\ w[j] = fut[j] /\ j # n
      BY <1>0, <1>1, <1>2, <2>1
    <3> QED BY <3>1
  <2>2. CASE ~(j < i)
    <3>1. j + 1 \in DOMAIN fut /\ w[j] = fut[j + 1] /\ (j + 1 = n => j = n - 1)
      BY <1>0, <1>1, <1>2, <2>2
    <3> QED BY <3>1
  <2> QED BY <2>1, <2>2
<1>3. Linking(w, link) => Linking(fut, link)
  BY <1>2 DEF Linking
<1>4. ASSUME ConnectLast(fut, link) PROVE ConnectLast(w, link)
  <2>1. \A l \in DOMAIN fut : fut[l] = "connect" => l = n /\ link = <<>>
    BY <1>4 DEF ConnectLast, n
  <2>2. \A j \in DOMAIN w : w[j] = "connect" => j = Len(w) /\ link = <<>>
    BY <1>1, <1>2, <2>1
  <2> QED BY <1>4, <2>2 DEF ConnectLast
<1> QED BY <1>3, <1>4

(* The disconnect of a peer without a writer completes.                    *)
LEMMA ReadyTurns ==
  ASSUME InitiatorInv, AllTurns, NEW p \in Peers, ReadyDisconnected(p)
  PROVE  AllTurns'
<1> DEFINE fut == futures[p]
<1> DEFINE link == LinkLine(p, outbound)
<1>0. fut \in Seq({"connect", "ready"}) /\ writers \in [Peers -> 0..Len(conns)]
  BY DEF InitiatorInv, PoolTypes
<1>1. PoolReady(p) /\ on_disconnected(p)
  BY DEF ReadyDisconnected
<1>2. PICK i \in Readies(p) : Completes(p, i)
  <2> DEFINE i == CHOOSE k \in Readies(p) : \A j \in Readies(p) : k <= j
  <2>1. Readies(p) # {} /\ Readies(p) \subseteq Nat /\ Completes(p, i)
    <3>1. Readies(p) # {} /\ Completes(p, i)
      BY <1>1, Zenon DEF PoolReady
    <3>2. Readies(p) \subseteq Nat
      BY <1>0 DEF Readies
    <3> QED BY <3>1, <3>2
  <2>2. i \in Readies(p)
    <3>1. \E k \in Readies(p) : \A j \in Readies(p) : k <= j
      BY <2>1, LeastOf
    <3> QED BY <3>1
  <2> HIDE DEF i
  <2> QED BY <2>1, <2>2
<1>3. i \in DOMAIN fut /\ fut[i] = "ready"
  BY DEF Readies
<1>4. /\ UNCHANGED <<scene, conns>> /\ writers'[p] = 0
      /\ \A q \in Peers \ {p} : writers'[q] = writers[q]
  BY <1>0, <1>1 DEF PoolReady
<1>5. futures'[p] = Without(fut, i) /\ \A q \in Peers \ {p} : futures'[q] = futures[q]
  BY <1>2, CompletesOthers
<1>6. ASSUME MaxConns = 1 PROVE PeerTurns(p)'
  <2>0. PeerTurns(p)
    BY <1>6 DEF AllTurns
  <2>1. PICK s : s = IF p \in known THEN reset(peers[p]) ELSE peers[p]
    OBVIOUS
  <2>2. /\ UNCHANGED <<known, cold_peers>>
        /\ tag'[p] = IF p \in known THEN "Cold" ELSE tag[p]
        /\ Carried(p, s, outbound, peers'[p], outbound')
    BY <1>1, <2>1, LostFacts
  <2>3. LinkLine(p, outbound') = link
    BY <2>2 DEF Carried
  <2>4. /\ Linking(futures'[p], link) => Linking(fut, link)
        /\ ConnectLast(fut, link) => ConnectLast(futures'[p], link)
    BY <1>0, <1>3, <1>5, ReadyTaken
  <2>5. Governed(peers[p], tag[p], Linked(p), p \in known, p \in cold_peers)
    BY <2>0, TurnsCases
  <2>6. CASE ConnsOf(p, conns) = {} /\ Apart1(p)
    <3>1. Fresh(scene, p, peers[p], outbound) /\ ConnectLast(fut, link)
      BY <2>6 DEF Apart1, Apart
    <3>2. p \in known => s.connection = "New" /\ Fresh(scene, p, s, outbound)
      <4> SUFFICES ASSUME p \in known PROVE s.connection = "New" /\ Fresh(scene, p, s, outbound)
        OBVIOUS
      <4>1. /\ s.connection = "New" /\ s.violation = FALSE
            /\ s.proto = [ch \in Channels |-> Default(ch)]
        BY <2>1, NewStateFacts
      <4>2. \A ch \in AllChannels : OutLine(p, ch, outbound) = <<>>
        BY <3>1 DEF Fresh
      <4> QED BY <4>1, <4>2, NewFresh DEF InitiatorInv
    <3>3. p \notin known => s = peers[p] /\ ~Linking(fut, link)
      BY <2>1, <2>5 DEF Governed, Linked
    <3>4. Fresh(scene, p, peers'[p], outbound')
      BY <2>2, <3>1, <3>2, <3>3 DEF Carried
    <3>5. peers'[p].connection = s.connection
      BY <2>2, <3>4 DEF Carried, Fresh
    <3>6. Apart(scene, p, peers'[p], writers'[p], futures'[p], outbound')
      BY <1>4, <2>3, <2>4, <3>1, <3>2, <3>3, <3>4, <3>5 DEF Apart
    <3>7. Governed(peers'[p], tag'[p], Linking(futures'[p], LinkLine(p, outbound')),
                   p \in known', p \in cold_peers')
      BY <2>2, <2>3, <2>4, <2>5, <3>2, <3>3, <3>5 DEF Governed, Linked
    <3> QED BY <1>4, <2>6, <3>6, <3>7, StaysApart
  <2>7. CASE \E c \in DOMAIN conns : ConnsOf(p, conns) = {c} /\ Live1(p, c)
    <3>1. PICK c \in DOMAIN conns : ConnsOf(p, conns) = {c} /\ Live1(p, c)
      BY <2>7
    <3>2. /\ ~conns[c].offended /\ Negotiated(scene, conns[c]) /\ ~Linking(fut, link)
          /\ ~conns[c].shut => fut = <<>>
      BY <3>1 DEF Live1, Live
    <3>3. conns[c].shut
      <4>1. fut # <<>>
        BY <1>3
      <4> QED BY <3>2, <4>1
    <3>4. Live(scene, p, peers'[p], conns'[c], c, writers'[p], futures'[p], outbound')
      BY <1>4, <2>3, <2>4, <3>2, <3>3 DEF Live
    <3>5. p \in known /\ p \notin cold_peers
      BY <2>5, <3>1 DEF Governed, Linked
    <3>6. peers'[p].connection # "Disconnected"
      <4>1. s.connection = "New"
        BY <2>1, <3>5, NewStateFacts
      <4> QED BY <2>2, <4>1 DEF Carried
    <3>7. Governed(peers'[p], tag'[p], TRUE, p \in known', p \in cold_peers')
      BY <2>2, <3>5, <3>6 DEF Governed
    <3>8. c \in DOMAIN conns' /\ ConnsOf(p, conns') = {c}
      BY <1>4, <3>1
    <3> QED BY <1>4, <3>4, <3>7, <3>8, StaysLive
  <2> QED BY <2>0, <2>6, <2>7, TurnsCases
<1> QED BY <1>1, <1>4, <1>5, <1>6, ConnsSame, LostTurns

-----------------------------------------------------------------------------
(* A message of the far end is read: both ends take it, or it is a lie.    *)

(* What a remote may say.                                                  *)
LEMMA RemoteMsgFacts ==
  ASSUME scene \in Scenarios, NEW c, NEW m \in RemoteMsgs(c)
  PROVE  /\ m.ch \in Channels /\ m.ch \in AllChannels /\ m.kind \in ServerKinds[m.ch]
         /\ m.kind \in Replies /\ Proper(m)
         /\ conns[c].pid \in Liars \/ CanApply(conns[c].remote[m.ch], m)
<1>1. PICK ch \in Channels :
        \E kind \in {k \in ServerKinds[ch] \cap Replies :
                       \/ conns[c].pid \in Liars
                       \/ CanApply(conns[c].remote[ch], Msg(ch, k, None))} :
          \E a \in Args(ch, kind) : m = Msg(ch, kind, a)
  BY DEF RemoteMsgs
<1>2. PICK kind \in ServerKinds[ch] \cap Replies :
        /\ conns[c].pid \in Liars \/ CanApply(conns[c].remote[ch], Msg(ch, kind, None))
        /\ \E a \in Args(ch, kind) : m = Msg(ch, kind, a)
  BY <1>1
<1>3. m.ch = ch /\ m.kind = kind
  BY <1>2 DEF Msg
<1>4. CanApply(conns[c].remote[ch], Msg(ch, kind, None)) = CanApply(conns[c].remote[ch], m)
  BY <1>3 DEF CanApply, Msg
<1>5. ch \in AllChannels
  BY ScenariosAssumption DEF Channels
<1> QED BY <1>2, <1>3, <1>4, <1>5, RemoteMsgsProper

(* The connection c after it was read from.                                *)
Heard(k, m) ==
  IF CanApply(k.remote[m.ch], m)
    THEN [k EXCEPT !.remote[m.ch] = Apply(k.remote[m.ch], m)] ELSE k

(* What becomes of the far end, field by field.                            *)
TookFar(k, m, n) ==
  /\ n.pid = k.pid /\ n.shut = k.shut /\ n.offended = k.offended
  /\ n.tasks = k.tasks /\ n.reading = k.reading /\ n.writing = k.writing
  /\ \A ch \in Channels : n.remote[ch] =
       IF ch = m.ch /\ CanApply(k.remote[m.ch], m) THEN Apply(k.remote[m.ch], m)
                                                   ELSE k.remote[ch]

(* The far end takes the transition it announces.                          *)
LEMMA HeardFacts ==
  ASSUME NEW k \in ConnStates, NEW m, Proper(m), m.ch \in Channels, NEW n, n = Heard(k, m)
  PROVE  n \in ConnStates /\ TookFar(k, m, n)
<1> USE DEF TookFar
<1>1. CASE ~CanApply(k.remote[m.ch], m)
  BY <1>1 DEF Heard
<1>2. CASE CanApply(k.remote[m.ch], m)
  <2> DEFINE v == Apply(k.remote[m.ch], m)
  <2>1. n = [k EXCEPT !.remote[m.ch] = v]
    BY <1>2 DEF Heard
  <2>2. n \in ConnStates
    BY <1>2, <2>1, RemoteTakes
  <2> HIDE DEF v
  <2>3. /\ n.pid = k.pid /\ n.shut = k.shut /\ n.offended = k.offended
        /\ n.tasks = k.tasks /\ n.reading = k.reading /\ n.writing = k.writing
        /\ n.remote = [k.remote EXCEPT ![m.ch] = v]
    BY <2>1 DEF ConnStates
  <2>4. k.remote \in [Channels -> ProtoStates]
    BY DEF ConnStates
  <2>5. \A ch \in Channels : n.remote[ch] = IF ch = m.ch THEN v ELSE k.remote[ch]
    BY <2>3, <2>4
  <2> QED BY <1>2, <2>2, <2>3, <2>5 DEF v
<1> QED BY <1>1, <1>2

(* No answer lets Leios messages in without a version.                     *)
LEMMA HeardNegotiated ==
  ASSUME scene \in Scenarios, NEW k \in ConnStates, NEW m, Proper(m), m.ch \in Channels,
         m.kind \in ServerKinds[m.ch], NEW n, n = Heard(k, m), Negotiated(scene, k)
  PROVE  Negotiated(scene, n)
<1> SUFFICES ASSUME NEW ch \in Channels \cap Leioses, n.remote[ch].at # StartAt[ch]
             PROVE  n.remote["handshake"].at = "Accepted" /\ n.remote["handshake"].arg = "leios"
  BY DEF Negotiated, Channels
<1>0. m.ch \in AllChannels /\ "handshake" \in Channels /\ ch # "handshake"
  BY ScenariosAssumption DEF Proper, Channels, Leioses
<1>1. \A d \in Channels : n.remote[d] =
        IF d = m.ch /\ CanApply(k.remote[m.ch], m) THEN Apply(k.remote[m.ch], m) ELSE k.remote[d]
  BY HeardFacts DEF TookFar
<1> DEFINE a == k.remote[m.ch]
<1>2. CanApply(a, m) => a.at \notin Asking[m.ch] /\ (m.ch = "handshake" => a.at = "Confirm")
  <2> HIDE DEF a
  <2> QED BY <1>0, ReplyFrom
<1>3. k.remote[ch].at # StartAt[ch]
  <2>1. CASE ch = m.ch /\ CanApply(a, m)
    <3>1. StartAt[ch] \in Asking[ch]
      BY DEF Leioses, StartAt, Asking
    <3> QED BY <1>2, <2>1, <3>1
  <2>2. CASE ~(ch = m.ch /\ CanApply(a, m))
    BY <1>1, <2>2
  <2> QED BY <2>1, <2>2
<1>4. k.remote["handshake"].at = "Accepted" /\ k.remote["handshake"].arg = "leios"
  BY <1>3 DEF Negotiated, Channels
<1>5. ~("handshake" = m.ch /\ CanApply(a, m))
  BY <1>2, <1>4
<1>6. n.remote["handshake"] = k.remote["handshake"]
  BY <1>0, <1>1, <1>5
<1> QED BY <1>4, <1>6

(* What becomes of the near end, field by field.                           *)
Took(s, m, r) ==
  /\ r.connection = s.connection /\ r.unsent = s.unsent
  /\ r.violation = IF CanApply(s.proto[m.ch], m) THEN s.violation ELSE TRUE
  /\ \A ch \in Channels : r.proto[ch] =
       IF ch = m.ch /\ CanApply(s.proto[m.ch], m) THEN Apply(s.proto[m.ch], m) ELSE s.proto[ch]

(* The near end takes the transition it is told of, or flags it.           *)
LEMMA AppliedFacts ==
  ASSUME NEW s \in PeerStates, NEW m, Proper(m), m.ch \in Channels, NEW r, r = apply_msg(s, m)
  PROVE  Took(s, m, r)
<1> USE DEF Took
<1>1. CASE ~CanApply(s.proto[m.ch], m)
  <2>1. r = [s EXCEPT !.violation = TRUE]
    BY <1>1 DEF apply_msg
  <2> QED BY <1>1, <2>1 DEF PeerStates
<1>2. CASE CanApply(s.proto[m.ch], m)
  <2> DEFINE v == Apply(s.proto[m.ch], m)
  <2>1. r = [s EXCEPT !.proto[m.ch] = v]
    BY <1>2 DEF apply_msg
  <2> HIDE DEF v
  <2>2. /\ r.connection = s.connection /\ r.unsent = s.unsent /\ r.violation = s.violation
        /\ r.proto = [s.proto EXCEPT ![m.ch] = v]
    BY <2>1 DEF PeerStates
  <2>3. s.proto \in [Channels -> ProtoStates]
    BY DEF PeerStates
  <2>4. \A ch \in Channels : r.proto[ch] = IF ch = m.ch THEN v ELSE s.proto[ch]
    BY <2>2, <2>3
  <2> QED BY <1>2, <2>2, <2>4 DEF v
<1> QED BY <1>1, <1>2

(* A message heard moves both ends along the same transition, and the      *)
(* near end accepts what the far end may say.                              *)
LEMMA HeardUpheld ==
  ASSUME scene \in Scenarios, NEW p, NEW out, NEW s \in PeerStates, NEW k \in ConnStates, k.reading,
         Upheld(scene, p, s, k, out), NEW m, Proper(m), m.ch \in Channels,
         m.kind \in ServerKinds[m.ch], m.kind \in Replies,
         p \in Liars \/ CanApply(k.remote[m.ch], m),
         NEW r, r = apply_msg(s, m), NEW n, n = Heard(k, m)
  PROVE  Upheld(scene, p, r, n, out)
<1> DEFINE a == s.proto[m.ch]
<1> DEFINE b == k.remote[m.ch]
<1>0. m.ch \in AllChannels /\ "handshake" \in Channels
  BY ScenariosAssumption DEF Proper, Channels
<1>1. /\ r.connection = s.connection /\ r.unsent = s.unsent
      /\ r.violation = IF CanApply(a, m) THEN s.violation ELSE TRUE
      /\ \A ch \in Channels : r.proto[ch] =
           IF ch = m.ch /\ CanApply(a, m) THEN Apply(a, m) ELSE s.proto[ch]
  <2>1. Took(s, m, r)
    BY AppliedFacts
  <2> QED BY <2>1 DEF Took
<1>2. /\ n.tasks = k.tasks /\ n.reading = k.reading /\ n.writing = k.writing
      /\ \A ch \in Channels : n.remote[ch] =
           IF ch = m.ch /\ CanApply(b, m) THEN Apply(b, m) ELSE k.remote[ch]
  <2>1. TookFar(k, m, n)
    BY HeardFacts
  <2> QED BY <2>1 DEF TookFar
<1>3. /\ Mirrored(scene, s, k) /\ Same(m.ch, a.at, b.at) /\ Innocent(scene, p, s)
      /\ k.remote["handshake"] = s.proto["handshake"]
  BY DEF Upheld, Mirrored, Channels
<1> HIDE DEF a, b
<1>4. CASE CanApply(a, m) \/ CanApply(b, m)
  <2>1. /\ a.at = b.at /\ CanApply(a, m) /\ CanApply(b, m) /\ Apply(a, m).at = Apply(b, m).at
    BY <1>0, <1>3, <1>4, ReplyApplied
  <2>2. /\ a.at \notin Asking[m.ch] /\ (m.ch = "handshake" => a.at = "Confirm")
        /\ m.ch = "chainsync" /\ Apply(a, m).at = "IdleNoIntersection"
             => m.kind = "IntersectNotFound"
    BY <1>0, <2>1, ReplyFrom
  <2>3. \A ch \in Channels :
          /\ r.proto[ch] = IF ch = m.ch THEN Apply(a, m) ELSE s.proto[ch]
          /\ n.remote[ch] = IF ch = m.ch THEN Apply(b, m) ELSE k.remote[ch]
    BY <1>1, <1>2, <2>1
  <2>4. Mirrored(scene, r, n)
    <3>1. r.proto["handshake"] = n.remote["handshake"]
      <4>1. CASE m.ch = "handshake"
        <5>1. a = b
          BY <1>3, <4>1 DEF a, b
        <5>2. r.proto[m.ch] = Apply(a, m) /\ n.remote[m.ch] = Apply(b, m)
          BY <2>3
        <5> QED BY <4>1, <5>1, <5>2
      <4>2. CASE m.ch # "handshake"
        BY <1>0, <1>3, <2>3, <4>2
      <4> QED BY <4>1, <4>2
    <3>2. ASSUME NEW ch \in Channels PROVE Same(ch, r.proto[ch].at, n.remote[ch].at)
      <4>1. CASE ch = m.ch
        BY <2>1, <2>3, <4>1 DEF Same
      <4>2. CASE ch # m.ch
        <5>1. r.proto[ch] = s.proto[ch] /\ n.remote[ch] = k.remote[ch]
          BY <2>3, <4>2
        <5>2. Same(ch, s.proto[ch].at, k.remote[ch].at)
          BY <1>3 DEF Mirrored, Channels
        <5> QED BY <5>1, <5>2
      <4> QED BY <4>1, <4>2
    <3> QED BY <3>1, <3>2 DEF Mirrored, Channels
  <2>5. ASSUME NEW ch \in AllChannels, NEW l, Pending(scene, s, ch, l)
        PROVE  Pending(scene, r, ch, l)
    <3> SUFFICES ASSUME l # <<>> PROVE Pending(scene, r, ch, l)
      BY DEF Pending
    <3>1. /\ ch \in Channels /\ s.proto[ch].at \in Asking[ch]
          /\ ch \in Leioses => Version(s) = "leios"
          /\ \E x \in Asks : /\ x.ch = ch /\ l = <<x>>
                             /\ ch # "handshake" => s.unsent[ch] = x
      BY <2>5 DEF Pending, Channels
    <3>2. ch # m.ch
      BY <2>2, <3>1 DEF a
    <3>3. r.proto[ch] = s.proto[ch]
      BY <2>3, <3>1, <3>2
    <3>4. ch \in Leioses => Version(r) = "leios"
      <4> SUFFICES ASSUME ch \in Leioses PROVE Version(r) = "leios"
        OBVIOUS
      <4>1. s.proto["handshake"].at = "Accepted" /\ s.proto["handshake"].arg = "leios"
        BY <3>1 DEF Version, None
      <4>2. m.ch # "handshake"
        BY <2>2, <4>1 DEF a
      <4>3. r.proto["handshake"] = s.proto["handshake"]
        BY <1>0, <2>3, <4>2
      <4> QED BY <4>1, <4>3 DEF Version
    <3> QED BY <1>1, <3>1, <3>3, <3>4 DEF Pending, Channels
  <2>6. Innocent(scene, p, r)
    <3> SUFFICES ASSUME "IntersectNotFound" \notin Replies
                 PROVE  /\ p \notin Liars => ~r.violation
                        /\ "chainsync" \in Channels => r.proto["chainsync"].at # "IdleNoIntersection"
      BY DEF Innocent, Replies, Liars, Channels
    <3>1. /\ p \notin Liars => ~s.violation
          /\ "chainsync" \in Channels => s.proto["chainsync"].at # "IdleNoIntersection"
      BY <1>3 DEF Innocent, Replies, Liars, Channels
    <3>2. m.ch = "chainsync" => Apply(a, m).at # "IdleNoIntersection"
      BY <2>2
    <3> QED BY <1>1, <2>1, <2>3, <3>1, <3>2
  <2> QED BY <1>1, <1>2, <2>4, <2>5, <2>6 DEF Upheld
<1>5. CASE ~(CanApply(a, m) \/ CanApply(b, m))
  <2>1. n = k /\ p \in Liars /\ r = [s EXCEPT !.violation = TRUE]
    BY <1>5 DEF Heard, apply_msg, a, b
  <2>2. r.proto = s.proto /\ r.unsent = s.unsent /\ r.connection = s.connection
    BY <2>1 DEF PeerStates
  <2>3. Innocent(scene, p, r)
    BY <1>3, <2>1, <2>2 DEF Innocent, Liars
  <2>4. Mirrored(scene, r, k)
    BY <1>3, <2>2 DEF Mirrored
  <2>5. \A ch, l : Pending(scene, s, ch, l) => Pending(scene, r, ch, l)
    BY <2>2 DEF Pending, Version
  <2> QED BY <2>1, <2>2, <2>3, <2>4, <2>5 DEF Upheld
<1> QED BY <1>4, <1>5

(* A message is read, applied and shown to every visitor.                  *)
LEMMA RecvTurns ==
  ASSUME InitiatorInv, AllTurns, NEW c \in DOMAIN conns, Recv(c)
  PROVE  AllTurns'
<1>0. PICK p \in Peers : p = conns[c].pid
  BY ConnFacts
<1>1. PICK m \in RemoteMsgs(c) : PoolRecv(c, m) /\ on_inbound_msg(p, m)
  BY <1>0 DEF Recv
<1> DEFINE k == conns[c]
<1>2. PICK n : n = Heard(k, m)
  OBVIOUS
<1>3. conns \in Seq(ConnStates) /\ k \in ConnStates /\ scene \in Scenarios
  BY ConnFacts DEF InitiatorInv, PoolTypes
<1>4. k.reading /\ conns' = [conns EXCEPT ![c] = n] /\ UNCHANGED <<scene, writers, futures>>
  <2>1. /\ k.reading /\ UNCHANGED <<scene, writers, futures>>
        /\ conns' = IF CanApply(k.remote[m.ch], m)
                      THEN [conns EXCEPT ![c].remote[m.ch] = Apply(k.remote[m.ch], m)] ELSE conns
    BY <1>1 DEF PoolRecv
  <2>2. CASE CanApply(k.remote[m.ch], m)
    BY <1>2, <2>1, <2>2 DEF Heard
  <2>3. CASE ~CanApply(k.remote[m.ch], m)
    BY <1>2, <1>3, <2>1, <2>3 DEF Heard
  <2> QED BY <2>1, <2>2, <2>3
<1> SUFFICES ASSUME MaxConns = 1
             PROVE  (\A q \in Peers \ {p} : Aside(q)) /\ PeerTurns(p)'
  BY <1>4, OneTurns
<1>5. /\ ConnsOf(p, conns) = {c} /\ Live1(p, c) /\ p \in known /\ p \notin cold_peers
      /\ PeerTurns(p) /\ Linked(p)
  BY <1>0, ConnOf DEF AllTurns, Linked
<1>6. /\ m.ch \in Channels /\ m.kind \in ServerKinds[m.ch] /\ m.kind \in Replies /\ Proper(m)
      /\ p \in Liars \/ CanApply(k.remote[m.ch], m)
  BY <1>0, <1>3, RemoteMsgFacts
<1>7. /\ n \in ConnStates /\ n.pid = k.pid /\ n.shut = k.shut /\ n.offended = k.offended
  BY <1>2, <1>3, <1>6, HeardFacts DEF TookFar
<1>8. /\ \A q : ConnsOf(q, conns') = ConnsOf(q, conns)
      /\ \A q : q # p => SameConns(q)
      /\ conns'[c] = n /\ DOMAIN conns' = DOMAIN conns
  BY <1>0, <1>3, <1>4, <1>7, OneConnOf
<1> DEFINE s == apply_msg(peers[p], m)
<1> DEFINE t == TagAfter(p, faulty(s), is_initialized(s))
<1> DEFINE x == Context(s)
<1> DEFINE y == visit_inbound_msg(x, p, t)
<1>9. /\ categorize_peer(p, faulty(s), is_initialized(s)) /\ Store(p, y) /\ UNCHANGED known
  BY <1>1, <1>5 DEF on_inbound_msg
<1>10. s \in PeerStates /\ WellKept(s) /\ s.connection = peers[p].connection
       /\ peers[p] \in PeerStates
  BY <1>6, PeerFacts, ApplyMsgFacts DEF PeerOK
<1>11. PICK r : r = s
  OBVIOUS
<1>12. ContextOK(x) /\ x.s = r /\ x.out = outbound
  BY <1>10, <1>11, ContextFacts DEF Context
<1>13. Safe(p, x, y)
  <2> HIDE DEF x, t
  <2> QED BY <1>12, SafeVisits
<1>14. /\ GovernsOnly(p)
       /\ peers[p].connection # "Disconnected"
       /\ p \notin cold_peers'
       /\ tag'[p] \in {"Warm", "Hot"} => peers[p].connection # "New"
  <2> HIDE DEF s
  <2> QED BY <1>5, <1>9, <1>10, CategorizeGoverned
<1> HIDE DEF y, x
<1>15. \A q \in Peers \ {p} : Aside(q)
  BY <1>4, <1>8, <1>9, <1>12, <1>13, <1>14, StoreAside DEF Safe
<1>16. peers'[p] = y.s /\ outbound' = y.out
  BY <1>9, StoreFacts
<1>17. Carried(p, r, outbound, peers'[p], outbound')
  BY <1>12, <1>13, <1>16, SafeCarries
<1>18. /\ ~k.offended /\ Negotiated(scene, k) /\ ~Linking(futures[p], LinkLine(p, outbound))
       /\ writers[p] = IF k.shut THEN 0 ELSE c
       /\ ~k.shut => futures[p] = <<>> /\ Upheld(scene, p, peers[p], k, outbound)
  BY <1>5 DEF Live1, Live
<1>19. Negotiated(scene, n)
  BY <1>2, <1>3, <1>6, <1>18, HeardNegotiated
<1>20. ~k.shut => Upheld(scene, p, peers'[p], n, outbound')
  <2> SUFFICES ASSUME ~k.shut PROVE Upheld(scene, p, peers'[p], n, outbound')
    OBVIOUS
  <2>1. Upheld(scene, p, r, n, outbound)
    BY <1>2, <1>3, <1>4, <1>6, <1>10, <1>11, <1>18, HeardUpheld
  <2> QED BY <1>7, <1>17, <2>1 DEF Carried
<1>21. Live(scene, p, peers'[p], conns'[c], c, writers'[p], futures'[p], outbound')
  BY <1>4, <1>7, <1>8, <1>17, <1>18, <1>19, <1>20 DEF Live, Carried
<1>22. Governed(peers'[p], tag'[p], TRUE, p \in known', p \in cold_peers')
  <2>1. peers'[p].connection \in {peers[p].connection, "Initialized"}
    BY <1>10, <1>11, <1>17 DEF Carried
  <2> QED BY <1>5, <1>9, <1>14, <2>1 DEF Governed
<1>23. ConnsOf(p, conns') = {c} /\ c \in DOMAIN conns'
  BY <1>5, <1>8
<1> QED BY <1>4, <1>15, <1>21, <1>22, <1>23, StaysLive

-----------------------------------------------------------------------------
(* Nobody is connected at the start.                                       *)
LEMMA TurnsInit == Init => AllTurns
<1> SUFFICES ASSUME Init, MaxConns = 1, NEW p \in Peers PROVE PeerTurns(p)
  BY DEF AllTurns
<1>1. /\ scene \in Scenarios /\ conns = <<>> /\ writers[p] = 0 /\ futures[p] = <<>>
      /\ peers[p] = NewState /\ outbound = <<>>
  BY DEF Init, PoolInit
<1>2. tag[p] = "Cold" /\ known = {} /\ cold_peers = {}
  BY DEF Init, GovernanceInit
<1>3. ConnsOf(p, conns) = {}
  BY <1>1 DEF ConnsOf
<1>4. LinkLine(p, outbound) = <<>> /\ \A ch \in AllChannels : OutLine(p, ch, outbound) = <<>>
  BY <1>1, NoLines DEF LinkLine
<1>5. Fresh(scene, p, peers[p], outbound)
  BY <1>1, <1>4, NewFresh, NewStateFacts
<1>6. ~Linking(futures[p], LinkLine(p, outbound)) /\ ConnectLast(futures[p], LinkLine(p, outbound))
  BY <1>1, <1>4 DEF Linking, ConnectLast
<1>7. Apart(scene, p, peers[p], writers[p], futures[p], outbound)
  BY <1>1, <1>5, <1>6 DEF Apart
<1>8. peers[p].connection # "Disconnected"
  BY <1>1, NewStateFacts
<1> QED BY <1>2, <1>3, <1>6, <1>7, <1>8 DEF PeerTurns, Governed

(* Every step keeps the turns.                                             *)
LEMMA TurnsStep == InitiatorInv /\ AllTurns /\ [Next]_vars => AllTurns'
<1> SUFFICES ASSUME InitiatorInv, AllTurns, [Next]_vars PROVE AllTurns'
  OBVIOUS
<1>0. Included \subseteq Peers
  BY InitiatorAssumption DEF InitiatorInv, Included
<1>1. CASE UNCHANGED vars
  BY <1>1, IdleTurns DEF vars, behaviorVars
<1>2. CASE PollBehavior
  BY <1>2, PollTurns
<1>3. CASE Interface
  <2>1. CASE \E p \in Peers : Connected(p) \/ ConnectFailed(p) \/ ReadyDisconnected(p)
    BY <2>1, ConnectedTurns, ConnectFailedTurns, ReadyTurns
  <2>2. CASE \E c \in DOMAIN conns :
               Sent(c) \/ SendFailed(c) \/ Disconnected(c) \/ Recv(c) \/ RecvFailed(c)
    BY <2>2, SentTurns, SendFailedTurns, DisconnectedTurns, RecvTurns, RecvFailedTurns
  <2> QED BY <1>3, <2>1, <2>2 DEF Interface
<1>4. CASE Application
  <2>1. CASE StartSync \/ Housekeeping
    <3>1. UNCHANGED <<poolVars, govVars, peers, outbound>>
      BY <2>1 DEF StartSync, Housekeeping, Execute, behaviorVars
    <3> QED BY <3>1, IdleTurns
  <2>2. CASE \E p \in Included : IncludePeer(p)
    BY <1>0, <2>2, IncludeTurns
  <2>3. CASE \E p \in Peers : ContinueSync(p) \/ BanPeer(p) \/ DemotePeer(p)
    BY <2>3, TaggedTurns
  <2>4. CASE \E r \in Ranges : RequestBlocks(r)
    BY <2>4, RequestBlocksTurns
  <2>5. CASE \E p \in Included, kind \in {"BlockRequest", "BlockTxsRequest"}, eb \in Ebs :
               FetchEb(p, kind, eb)
    BY <1>0, <2>5, FetchEbTurns
  <2> QED BY <1>4, <2>1, <2>2, <2>3, <2>4, <2>5 DEF Application
<1>5. CASE Sweep
  BY <1>5, EndTurns, VisitTurns DEF Sweep
<1> QED BY <1>1, <1>2, <1>3, <1>4, <1>5 DEF Next

(* What the turns say of one connection.                                   *)
LEMMA TurnsOfConn ==
  ASSUME InitiatorInv, AllTurns, MaxConns = 1, NEW c \in DOMAIN conns
  PROVE  ~conns[c].offended /\ Negotiated(scene, conns[c])
<1>1. conns[c].pid \in Peers
  BY ConnFacts
<1>2. PeerTurns(conns[c].pid)
  BY <1>1 DEF AllTurns
<1>3. Live1(conns[c].pid, c)
  BY <1>1, <1>2, ConnOf
<1> QED BY <1>3 DEF Live1, Live

(* The initiator respects agency, on any number of peers and whatever      *)
(* fails: a request reaches the remote end only in a state that accepts    *)
(* it, although queues, sockets and resets separate it from the decision.  *)
THEOREM InitiatorNeverOffends == Spec => []NeverOffends
<1>1. InitiatorInv /\ AllTurns => NeverOffends
  BY TurnsOfConn DEF NeverOffends, ConnectedOnce
<1> QED BY <1>1, InitiatorInitInv, InitiatorStep, TurnsInit, TurnsStep, PTL DEF Spec

(* A remote is sent a Leios message only after it accepted a version that  *)
(* carries the overlay.                                                    *)
THEOREM InitiatorGatesLeios == Spec => []LeiosOnlyWhenNegotiated
<1>1. InitiatorInv /\ AllTurns => LeiosOnlyWhenNegotiated
  BY TurnsOfConn DEF LeiosOnlyWhenNegotiated, ConnectedOnce, Negotiated, Leioses, Channels
<1> QED BY <1>1, InitiatorInitInv, InitiatorStep, TurnsInit, TurnsStep, PTL DEF Spec

(* A well-behaved peer is accused of a violation only by a message that    *)
(* arrives on a connection already shut down.                              *)
THEOREM InitiatorAccusesOnlyLate == Spec => []AccusedOnlyWhenLate
<1>1. InitiatorInv /\ AllTurns => AccusedOnlyWhenLate
  <2> SUFFICES ASSUME InitiatorInv, AllTurns, MaxConns = 1, "IntersectNotFound" \notin Replies,
                      NEW p \in Peers \ Liars, peers[p].violation
               PROVE  \E c \in DOMAIN conns : conns[c].pid = p /\ conns[c].shut
    BY DEF AccusedOnlyWhenLate, ConnectedOnce
  <2>1. ~Innocent(scene, p, peers[p])
    BY DEF Innocent, Replies, Liars
  <2>2. PeerTurns(p)
    BY DEF AllTurns
  <2>3. ~Apart1(p)
    BY <2>1 DEF Apart1, Apart, Fresh
  <2>4. PICK c \in DOMAIN conns : ConnsOf(p, conns) = {c} /\ Live1(p, c)
    BY <2>2, <2>3, TurnsCases
  <2>5. conns[c].shut
    BY <2>1, <2>4 DEF Live1, Live, Upheld
  <2>6. conns[c].pid = p
    BY <2>4 DEF ConnsOf
  <2> QED BY <2>5, <2>6
<1> QED BY <1>1, InitiatorInitInv, InitiatorStep, TurnsInit, TurnsStep, PTL DEF Spec
=============================================================================
