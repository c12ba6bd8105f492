------------------------------ MODULE Initiator ------------------------------
(***************************************************************************)
(* The initiator of pallas-network2: InitiatorBehavior with its nine       *)
(* sub-behaviours (behavior/initiator/*.rs, behavior/unsent.rs), the       *)
(* Manager loop that drives it (lib.rs), the TCP connection pool below it  *)
(* (interface.rs), and the remote peers as its environment.                *)
(*                                                                         *)
(* One step of Manager::poll_next either takes the next output of the      *)
(* behaviour (a command is dispatched to the pool, an event is handed to   *)
(* the application) or completes one future of the pool and runs handle_io *)
(* on it at once.  `select!` picks either branch when both are ready, so   *)
(* commands wait in `outbound` while events overtake them.                 *)
(***************************************************************************)
EXTENDS Promotion, Pool

CONSTANTS
  Ranges,           \* the block ranges the application asks for, once each
  Ebs,              \* the endorser blocks it asks for
  MaxErrorCount,    \* PromotionConfig.max_error_count
  HighWaterMark,    \* DiscoveryConfig.high_water_mark
  MaxErrors         \* bound: I/O errors counted against one peer

(* The scenario: what the application and the peers do in an execution.    *)
Commands == scene.commands      \* the InitiatorCommands that are issued; also
                                \* "IncludeAgain": IncludePeer for a tracked
                                \* peer whose state a disconnect has reset
Included == scene.included      \* the peers the application names in
                                \* IncludePeer, FetchEb and FetchEbTxs
Shared == scene.shared          \* the sets of peers a SharePeers may name
Replies == scene.replies        \* the kinds of message the remotes send
Versions == scene.versions      \* outcomes of a handshake: "plain",
                                \* "sharing", "leios"
Liars == scene.liars            \* peers that may send a message at any time
Flaky == scene.flaky            \* peers whose connections may fail
MaxConns == scene.max_conns     \* bound: TCP connections made with one peer
MaxPending == scene.max_pending \* bound: outputs, tasks and events pending
                                \* when a command or a message comes in

ASSUME InitiatorAssumption ==
  /\ \A s \in Scenarios :
       /\ s.replies \subseteq UNION {ServerKinds[ch] : ch \in s.channels}
       /\ s.included \subseteq Peers /\ s.shared \subseteq SUBSET Peers
       /\ s.liars \subseteq Peers /\ s.flaky \subseteq Peers
       /\ s.max_conns \in Nat /\ s.max_pending \in Nat
  /\ MaxErrorCount \in Nat /\ HighWaterMark \in Nat /\ MaxErrors \in Nat

(* A range is never mistaken for the None of an Option.                    *)
ASSUME RangesAssumption == None \notin Ranges

VARIABLES
  peers,            \* InitiatorState of each pid, its promotion tag apart
  requests,         \* BlockFetchBehavior.requests
  fetches,          \* LeiosFetchBehavior.requests
  discovered,       \* DiscoveryBehavior.discovered
  intersection,     \* whether ChainSyncBehavior.intersection is set
  outbound,         \* OutboundQueue: commands and events, first in first out
  sweeping, sweep,  \* a housekeeping pass, and the peers it has yet to visit
  asked, answered   \* history: ranges requested, ranges answered by a peer

behaviorVars == <<peers, requests, fetches, discovered, intersection>>
history == <<asked, answered>>
vars == <<govVars, behaviorVars, outbound, sweeping, sweep, poolVars, history>>

ConnectionStates ==
  {"New", "Connecting", "Connected", "Initialized", "Disconnected", "Errored"}

(* InitiatorState::new, the promotion tag apart.                           *)
NewState ==
  [connection |-> "New", violation |-> FALSE, error_count |-> 0,
   continue_sync |-> FALSE, sync_next_deferred |-> FALSE,
   proto |-> [ch \in Channels |-> Default(ch)],
   unsent |-> [ch \in Channels |-> NoMsg], in_flight |-> None]

Init ==
  /\ PoolInit(Peers)
  /\ GovernanceInit
  /\ peers = [p \in Peers |-> NewState]
  /\ requests = <<>> /\ fetches = <<>> /\ discovered = {} /\ intersection = FALSE
  /\ outbound = <<>>
  /\ sweeping = FALSE /\ sweep = {}
  /\ asked = {} /\ answered = {}

-----------------------------------------------------------------------------
(* Predicates of one peer's state.                                         *)

At(s, ch) == IF ch \in Channels THEN s.proto[ch].at ELSE StartAt[ch]
is_initialized(s) == s.connection = "Initialized"
version(s) == IF At(s, "handshake") = "Accepted" THEN s.proto["handshake"].arg ELSE None
supports_peer_sharing(s) == version(s) = "sharing"
SupportsAny(s) == version(s) # None                      \* seeded fault
supports_leios(s) == version(s) = "leios"
faulty(s) == s.violation \/ s.error_count > MaxErrorCount

needs_connection(s, t) == s.connection \in {"New", "Disconnected"} /\ t \in {"Warm", "Hot"}
needs_disconnect(s, t) ==
  \/ s.connection = "Errored"
  \/ s.connection \in {"Connected", "Initialized"} /\ t \in {"Cold", "Banned"}

(* InitiatorState::apply_msg: a message the protocol state refuses leaves  *)
(* it as it was and flags a violation.                                     *)
apply_msg(s, m) ==
  IF CanApply(s.proto[m.ch], m)
    THEN [s EXCEPT !.proto[m.ch] = Apply(s.proto[m.ch], m)]
    ELSE [s EXCEPT !.violation = TRUE]

(* can_apply of unsent.rs refuses the two channels without requests.       *)
can_apply(s, m) ==
  /\ m.ch \in Channels \ {"handshake", "txsubmission"}
  /\ CanApply(s.proto[m.ch], m)

clear_unsent(s, m) ==
  IF can_apply(s, m) /\ s.unsent[m.ch] = m
    THEN [s EXCEPT !.unsent[m.ch] = NoMsg] ELSE s

-----------------------------------------------------------------------------
(* What a visitor may touch: the peer's state s and the shared queues.     *)
(* Visitors are functions on this record, composed in the order of the     *)
(* all_visitors! macro.  t is the peer's promotion tag.                    *)

Context(s) == [s |-> s, out |-> outbound, requests |-> requests,
               fetches |-> fetches, discovered |-> discovered]

Push(x, o) == [x EXCEPT !.out = Append(@, o)]

CanSendTwice(s, m) == can_apply(s, m) /\ IsRequest(m)    \* seeded fault

CanSend(s, m) == can_apply(s, m) /\ IsRequest(m) /\ s.unsent[m.ch] = NoMsg

try_send_request(x, p, m) ==
  IF CanSend(x.s, m)
    THEN Push([x EXCEPT !.s.unsent[m.ch] = m], Send(p, m)) ELSE x

RequestNextHeader == Msg("chainsync", "RequestNext", None)

try_send_deferred_next(x, p) ==
  IF x.s.sync_next_deferred /\ CanSend(x.s, RequestNextHeader)
    THEN try_send_request([x EXCEPT !.s.sync_next_deferred = FALSE], p, RequestNextHeader)
    ELSE x

-----------------------------------------------------------------------------
(* connection.rs, handshake.rs, keepalive.rs                               *)

connection_housekeeping(x, p, t) ==
  LET y == IF needs_connection(x.s, t)
             THEN Push([x EXCEPT !.s.connection = "Connecting"], Connect(p)) ELSE x
  IN  IF needs_disconnect(y.s, t) THEN Push(y, Disconnect(p)) ELSE y

connection_errored(x, p, t) ==
  IF needs_disconnect(x.s, t) THEN Push(x, Disconnect(p)) ELSE x

propose_handshake(x, p) == Push(x, Send(p, Msg("handshake", "Propose", None)))

handshake_inbound(x, p) ==
  IF x.s.connection = "Connected" /\ At(x.s, "handshake") = "Accepted"
    THEN Push([x EXCEPT !.s.connection = "Initialized"], Event(p, "PeerInitialized"))
    ELSE x

keepalive_housekeeping(x, p) ==
  IF is_initialized(x.s)
    THEN try_send_request(x, p, Msg("keepalive", "KeepAlive", None)) ELSE x

-----------------------------------------------------------------------------
(* discovery.rs: one ShareRequest per connection, since the state is set   *)
(* to Done once the answer is taken.                                       *)

discovery_housekeeping(x, p) ==
  IF /\ Cardinality(x.discovered) < HighWaterMark
     /\ is_initialized(x.s) /\ supports_peer_sharing(x.s)
     /\ At(x.s, "peersharing") = "IdleEmpty"
    THEN try_send_request(x, p, Msg("peersharing", "ShareRequest", None)) ELSE x

discovery_inbound(x, p) ==
  IF /\ is_initialized(x.s) /\ supports_peer_sharing(x.s)
     /\ At(x.s, "peersharing") = "IdleResponse"
    THEN [x EXCEPT !.discovered = @ \cup x.s.proto["peersharing"].arg,
                   !.s.proto["peersharing"] = [at |-> "Done", arg |-> None]]
    ELSE x

-----------------------------------------------------------------------------
(* blockfetch.rs                                                           *)

RequestRange(r) == Msg("blockfetch", "RequestRange", r)

FetchAvailable(s, t) ==
  is_initialized(s) /\ At(s, "blockfetch") = "Idle" /\ ~needs_disconnect(s, t)

(* Whether serve_next hands the first queued range to this peer.           *)
ServesRange(s, t, queue) ==
  queue # <<>> /\ FetchAvailable(s, t) /\ CanSend(s, RequestRange(Head(queue)))

serve_next(x, p, t) ==
  IF ServesRange(x.s, t, x.requests)
    THEN try_send_request([x EXCEPT !.requests = Tail(@)], p, RequestRange(Head(x.requests)))
    ELSE x

blockfetch_inbound(x, p, t) ==
  LET y == IF At(x.s, "blockfetch") = "StreamingSome"
             THEN Push(x, Event(p, "BlockBodyReceived")) ELSE x
      z == IF At(y.s, "blockfetch") = "Idle"
             THEN [y EXCEPT !.s.in_flight = None] ELSE y
  IN  serve_next(z, p, t)

blockfetch_outbound(s) ==
  IF At(s, "blockfetch") = "Busy" /\ s.in_flight = None
    THEN [s EXCEPT !.in_flight = s.proto["blockfetch"].arg] ELSE s

(* Seeded faults: one of the two ranges is forgotten.                      *)
InFlightOnly(s) == IF s.in_flight # None THEN <<s.in_flight>> ELSE <<>>
UnsentOnly(s) ==
  IF "blockfetch" \in Channels /\ s.unsent["blockfetch"] # NoMsg
    THEN <<s.unsent["blockfetch"].arg>> ELSE <<>>

(* The ranges a lost peer gives back, in the order they are pushed to the  *)
(* front: the one in flight first, so the unsent one ends up ahead of it.  *)
RangesHeld(s) ==
  (IF "blockfetch" \in Channels /\ s.unsent["blockfetch"] # NoMsg
     THEN <<s.unsent["blockfetch"].arg>> ELSE <<>>)
  \o (IF s.in_flight # None THEN <<s.in_flight>> ELSE <<>>)

-----------------------------------------------------------------------------
(* chainsync.rs                                                            *)

peer_is_syncing(s) == At(s, "chainsync") # "IdleNew"

ChainSyncEvent ==
  [IdleContent |-> "BlockHeaderReceived", IdleRollback |-> "RollbackReceived",
   IdleIntersection |-> "IntersectionFound"]

drain_data(x, p) ==
  LET data == At(x.s, "chainsync")
      y == [x EXCEPT !.s.proto["chainsync"] = [at |-> "IdleDrained", arg |-> None]]
  IN  CASE data \in DOMAIN ChainSyncEvent -> Push(y, Event(p, ChainSyncEvent[data]))
        [] data = "IdleNoIntersection" -> [y EXCEPT !.s.violation = TRUE]
        [] OTHER -> x

DrainsOnly(x, p) ==                                      \* seeded fault
  IF peer_is_syncing(x.s) THEN drain_data(x, p) ELSE x

chainsync_inbound(x, p) ==
  IF peer_is_syncing(x.s) THEN try_send_deferred_next(drain_data(x, p), p) ELSE x

chainsync_tagged(x, p) ==
  IF /\ peer_is_syncing(x.s) /\ At(x.s, "chainsync") \in ChainSyncIdle
     /\ x.s.continue_sync
    THEN IF CanSend(x.s, RequestNextHeader)
           THEN try_send_request(x, p, RequestNextHeader)
           ELSE [x EXCEPT !.s.sync_next_deferred = TRUE]
    ELSE x

chainsync_housekeeping(x, p, t) ==
  IF intersection /\ is_initialized(x.s) /\ t = "Hot" /\ ~peer_is_syncing(x.s)
    THEN try_send_request(x, p, Msg("chainsync", "FindIntersect", None)) ELSE x

-----------------------------------------------------------------------------
(* leiosnotify.rs and leiosfetch.rs: `drain` empties an idle state that    *)
(* holds something.                                                        *)

Drained(x, ch, p, name) ==
  IF At(x.s, ch) = "IdleSome"
    THEN Push([x EXCEPT !.s.proto[ch] = Default(ch)], Event(p, name)) ELSE x

leiosnotify_inbound(x, p) == Drained(x, "leiosnotify", p, "EbNotification")

leiosnotify_housekeeping(x, p) ==
  IF is_initialized(x.s) /\ supports_leios(x.s) /\ At(x.s, "leiosnotify") = "IdleNone"
    THEN try_send_request(x, p, Msg("leiosnotify", "RequestNext", None)) ELSE x

(* A queued fetch is a record [pid, msg].                                  *)
FetchesFor(queue, p) == {i \in DOMAIN queue : queue[i].pid = p}
FirstFor(queue, p) == CHOOSE i \in FetchesFor(queue, p) :
                        \A j \in FetchesFor(queue, p) : i <= j
Purged(queue, p) ==
  LET kept[i \in 0..Len(queue)] ==
        IF i = 0 THEN <<>>
        ELSE IF queue[i].pid = p THEN kept[i - 1] ELSE Append(kept[i - 1], queue[i])
  IN  kept[Len(queue)]

leios_serve_next(x, p, t) ==
  LET i == FirstFor(x.fetches, p)
  IN  IF /\ is_initialized(x.s) /\ supports_leios(x.s)
         /\ At(x.s, "leiosfetch") = "IdleNone" /\ ~needs_disconnect(x.s, t)
         /\ FetchesFor(x.fetches, p) # {} /\ CanSend(x.s, x.fetches[i].msg)
        THEN try_send_request([x EXCEPT !.fetches = Without(@, i)], p, x.fetches[i].msg)
        ELSE x

leiosfetch_inbound(x, p, t) ==
  leios_serve_next(Drained(x, "leiosfetch", p, "EbFetched"), p, t)

-----------------------------------------------------------------------------
(* all_visitors!: promotion comes first and is the action categorize_peer; *)
(* the other sub-behaviours follow in this order.                          *)

visit_inbound_msg(x, p, t) ==
  LET a == handshake_inbound(x, p)
      b == discovery_inbound(a, p)
      c == blockfetch_inbound(b, p, t)
      d == chainsync_inbound(c, p)
      e == leiosnotify_inbound(d, p)
  IN  leiosfetch_inbound(e, p, t)

visit_housekeeping(x, p, t) ==
  LET a == connection_housekeeping(x, p, t)
      b == keepalive_housekeeping(a, p)
      c == discovery_housekeeping(b, p)
      d == serve_next(c, p, t)
      e == chainsync_housekeeping(d, p, t)
      f == leiosnotify_housekeeping(e, p)
  IN  leios_serve_next(f, p, t)

(* Stores what the visitors made of peer p and of the shared queues.       *)
Store(p, x) ==
  /\ peers' = [peers EXCEPT ![p] = x.s]
  /\ outbound' = x.out
  /\ requests' = x.requests
  /\ fetches' = x.fetches
  /\ discovered' = x.discovered
  /\ UNCHANGED intersection

-----------------------------------------------------------------------------
(* The handlers of handle_io.  A pid that is not tracked is ignored, except *)
(* that on_disconnected serves block ranges whoever was lost.              *)

on_inbound_msg(p, m) ==
  IF p \in known
    THEN LET s == apply_msg(peers[p], m)
             t == TagAfter(p, faulty(s), is_initialized(s))
         IN  /\ categorize_peer(p, faulty(s), is_initialized(s))
             /\ Store(p, visit_inbound_msg(Context(s), p, t))
             /\ answered' = IF m.ch = "blockfetch" /\ At(s, "blockfetch") = "Idle"
                              THEN answered \cup ({s.in_flight} \ {None})
                              ELSE answered
             /\ UNCHANGED <<known, asked>>
    ELSE UNCHANGED <<govVars, behaviorVars, outbound, history>>

OutboundNotApplied(p, m) ==                              \* seeded fault
  /\ peers' = IF p \in known THEN [peers EXCEPT ![p] = clear_unsent(@, m)] ELSE peers
  /\ UNCHANGED <<govVars, requests, fetches, discovered, intersection, outbound, history>>

on_outbound_msg(p, m) ==
  /\ peers' = IF p \in known
                THEN [peers EXCEPT ![p] =
                        blockfetch_outbound(apply_msg(clear_unsent(@, m), m))]
                ELSE peers
  /\ UNCHANGED <<govVars, requests, fetches, discovered, intersection, outbound, history>>

on_connected(p) ==
  IF p \in known
    THEN /\ Store(p, propose_handshake(
                       Context([peers[p] EXCEPT !.connection = "Connected"]), p))
         /\ UNCHANGED <<govVars, history>>
    ELSE UNCHANGED <<govVars, behaviorVars, outbound, history>>

on_errored(p) ==
  IF p \in known
    THEN LET s == [peers[p] EXCEPT !.connection = "Errored", !.error_count = @ + 1]
             x == connection_errored(Context(s), p, tag[p])
         IN  /\ Store(p, [x EXCEPT !.fetches = Purged(@, p)])
             /\ UNCHANGED <<govVars, history>>
    ELSE UNCHANGED <<govVars, behaviorVars, outbound, history>>

(* serve_block_fetch walks the peers in the order of a HashMap: any k of   *)
(* the available ones, in any order, take the first k queued ranges.       *)
Available(all, tags) ==
  {q \in known : FetchAvailable(all[q], tags[q]) /\ CanSend(all[q], RequestRange(None))}

Least(a, b) == IF a < b THEN a ELSE b

Orders(S, k) == {f \in [1..k -> S] : \A i, j \in 1..k : f[i] = f[j] => i = j}

serve_block_fetch(all, tags, queue) ==
  \E order \in Orders(Available(all, tags), Least(Cardinality(Available(all, tags)), Len(queue))) :
    /\ peers' = [q \in Peers |->
         IF \E i \in DOMAIN order : order[i] = q
           THEN [all[q] EXCEPT !.unsent["blockfetch"] =
                   RequestRange(queue[CHOOSE i \in DOMAIN order : order[i] = q])]
           ELSE all[q]]
    /\ outbound' = outbound \o [i \in DOMAIN order |-> Send(order[i], RequestRange(queue[i]))]
    /\ requests' = SubSeq(queue, Len(order) + 1, Len(queue))

(* InitiatorState::reset keeps the error count and nothing else.           *)
reset(s) == [NewState EXCEPT !.error_count = s.error_count]

on_disconnected(p) ==
  /\ reset_tag(p)
  /\ IF p \in known
       THEN /\ serve_block_fetch([peers EXCEPT ![p] = reset(@)], tag',
                                 RangesHeld(peers[p]) \o requests)
            /\ fetches' = Purged(fetches, p)
       ELSE /\ serve_block_fetch(peers, tag, requests)
            /\ UNCHANGED fetches
  /\ UNCHANGED <<discovered, intersection, history>>

-----------------------------------------------------------------------------
(* Manager::poll_next, first branch: the next output of the behaviour.  An *)
(* event goes to the application; a command goes to the pool's dispatch.   *)

PollBehavior ==
  /\ ~sweeping /\ outbound # <<>>
  /\ outbound' = Tail(outbound)
  /\ LET o == Head(outbound)
     IN  \/ o.do = "Send" /\ dispatch_send(o.pid, o.msg)
         \/ o.do = "Disconnect" /\ dispatch_disconnect(o.pid)
         \/ o.do = "Connect" /\ dispatch_connect(o.pid)
         \/ /\ o.do \notin {"Send", "Disconnect", "Connect"}
            /\ UNCHANGED poolVars
  /\ UNCHANGED <<govVars, behaviorVars, sweeping, sweep, history>>

-----------------------------------------------------------------------------
(* Manager::poll_next, second branch: a future of the pool completes and   *)
(* handle_io runs on its event.                                            *)

IO == ~sweeping /\ UNCHANGED <<sweeping, sweep>>

ConnectsOf(p) ==
  Cardinality({c \in DOMAIN conns : conns[c].pid = p}) + Cardinality(Connects(p))
    + Cardinality({i \in DOMAIN outbound : outbound[i] = Connect(p)})

(* The assert! of propose_handshake aborts the process when it fails.      *)
AssertPropose(p) == p \in known => At(peers[p], "handshake") = "Propose"

Connected(p) ==
  /\ IO /\ AssertPropose(p)
  /\ \E i \in Completing(p) : Completes(p, i)
  /\ PoolConnected(p)
  /\ on_connected(p)

ConnectFailed(p) ==
  /\ IO /\ p \in Flaky /\ peers[p].error_count < MaxErrors
  /\ \E i \in Completing(p) : Completes(p, i)
  /\ UNCHANGED <<scene, conns, writers>>
  /\ on_errored(p)

Sent(c) == IO /\ PoolSent(c) /\ on_outbound_msg(conns[c].pid, Task(c))
SendFailed(c) == IO /\ PoolSendFailed(c) /\ on_errored(conns[c].pid)
Disconnected(c) == IO /\ PoolDisconnected(c) /\ on_disconnected(conns[c].pid)
ReadyDisconnected(p) == IO /\ PoolReady(p) /\ on_disconnected(p)

(* What the remote end of connection c may send: the answers its protocol  *)
(* state allows, or anything if it is a liar.                              *)
Args(ch, kind) ==
  CASE kind = "Accept" -> Versions
    [] kind = "SharePeers" -> Shared
    [] OTHER -> {None}

RemoteMsgs(c) ==
  UNION {UNION {{Msg(ch, kind, a) : a \in Args(ch, kind)} :
                  kind \in {k \in ServerKinds[ch] \cap Replies :
                              \/ conns[c].pid \in Liars
                              \/ CanApply(conns[c].remote[ch], Msg(ch, k, None))}} :
           ch \in Channels}

Recv(c) ==
  /\ IO /\ Len(outbound) <= MaxPending
  /\ \E m \in RemoteMsgs(c) : PoolRecv(c, m) /\ on_inbound_msg(conns[c].pid, m)

RecvFailed(c) ==
  /\ IO
  /\ \/ conns[c].shut
     \/ conns[c].pid \in Flaky /\ peers[conns[c].pid].error_count < MaxErrors
  /\ PoolRecvFailed(c)
  /\ on_errored(conns[c].pid)

-----------------------------------------------------------------------------
(* Behavior::execute: the commands of the application.                     *)

NotFlooded ==
  /\ Len(outbound) <= MaxPending
  /\ \A p \in Peers : Len(futures[p]) <= MaxPending
  /\ \A c \in DOMAIN conns : Len(conns[c].tasks) <= MaxPending

Execute(command) ==
  /\ command \in Commands /\ NotFlooded
  /\ IO /\ UNCHANGED poolVars

IncludePeer(p) ==
  /\ Execute("IncludePeer")
  /\ p \notin known \/ ("IncludeAgain" \in Commands /\ peers[p].connection = "New")
  /\ ConnectsOf(p) < MaxConns
  /\ on_discovered(p)
  /\ peers' = [peers EXCEPT ![p] = NewState]
  /\ UNCHANGED <<requests, fetches, discovered, intersection, outbound, history>>

StartSync ==
  /\ Execute("StartSync")
  /\ intersection' = TRUE
  /\ UNCHANGED <<govVars, peers, requests, fetches, discovered, outbound, history>>

(* on_tagged with state s after the tagger ran.                            *)
on_tagged(p, s) ==
  /\ Store(p, chainsync_tagged(Context(s), p))
  /\ UNCHANGED history

ContinueSync(p) ==
  /\ Execute("ContinueSync") /\ p \in known
  /\ on_tagged(p, [peers[p] EXCEPT !.continue_sync = TRUE])
  /\ UNCHANGED govVars

BanPeer(p) ==
  /\ Execute("BanPeer") /\ p \in known
  /\ set_tag(p, "Banned")
  /\ on_tagged(p, peers[p])

DemotePeer(p) ==
  /\ Execute("DemotePeer") /\ p \in known
  /\ set_tag(p, "Cold")
  /\ on_tagged(p, peers[p])

RequestBlocks(r) ==
  /\ Execute("RequestBlocks") /\ r \notin asked
  /\ asked' = asked \cup {r}
  /\ serve_block_fetch(peers, tag, Append(requests, r))
  /\ UNCHANGED <<govVars, fetches, discovered, intersection, answered>>

FetchEb(p, kind, eb) ==
  /\ Execute("FetchEb")
  /\ \A i \in DOMAIN fetches : fetches[i].msg.arg # eb
  /\ LET queue == Append(fetches, [pid |-> p, msg |-> Msg("leiosfetch", kind, eb)])
         x == [Context(peers[p]) EXCEPT !.fetches = queue]
     IN  Store(p, IF p \in known THEN leios_serve_next(x, p, tag[p]) ELSE x)
  /\ UNCHANGED <<govVars, history>>

(* The housekeeping command visits the peers one after the other, in the order of a    *)
(* HashMap, and then takes in discovered peers.  It runs to its end before *)
(* the manager does anything else: every other action waits for it.        *)
Housekeeping ==
  /\ ~sweeping /\ NotFlooded
  /\ sweeping' = TRUE /\ sweep' = known
  /\ UNCHANGED <<govVars, behaviorVars, outbound, poolVars, history>>

HousekeepingVisit(p) ==
  /\ sweeping /\ p \in sweep
  /\ sweep' = sweep \ {p}
  /\ LET s == peers[p]
         t == TagAfter(p, faulty(s), is_initialized(s))
     IN  /\ categorize_peer(p, faulty(s), is_initialized(s))
         /\ Store(p, visit_housekeeping(Context(s), p, t))
  /\ UNCHANGED <<known, sweeping, poolVars, history>>

HousekeepingDrainsAll ==                                 \* seeded fault
  /\ sweeping /\ sweep = {}
  /\ sweeping' = FALSE
  /\ move_discovered_into_promotion(discovered)
  /\ discovered' = {}
  /\ peers' = [p \in Peers |-> IF p \in discovered \ known THEN NewState ELSE peers[p]]
  /\ UNCHANGED <<requests, fetches, intersection, outbound, sweep, poolVars, history>>

(* drain_new_peers takes peer_deficit of the discovered peers, or all.     *)
HousekeepingEnd ==
  /\ sweeping /\ sweep = {}
  /\ sweeping' = FALSE
  /\ \E new \in SUBSET discovered :
       /\ Cardinality(new) <= peer_deficit
       /\ new = discovered \/ Cardinality(new) = peer_deficit
       /\ move_discovered_into_promotion(new)
       /\ discovered' = discovered \ new
       /\ peers' = [p \in Peers |-> IF p \in new \ known THEN NewState ELSE peers[p]]
  /\ UNCHANGED <<requests, fetches, intersection, outbound, sweep, poolVars, history>>

-----------------------------------------------------------------------------
Interface ==
  \/ \E p \in Peers : Connected(p) \/ ConnectFailed(p) \/ ReadyDisconnected(p)
  \/ \E c \in DOMAIN conns :
        Sent(c) \/ SendFailed(c) \/ Disconnected(c) \/ Recv(c) \/ RecvFailed(c)

Application ==
  \/ StartSync
  \/ \E p \in Included : IncludePeer(p)
  \/ \E p \in Peers : ContinueSync(p) \/ BanPeer(p) \/ DemotePeer(p)
  \/ \E r \in Ranges : RequestBlocks(r)
  \/ \E p \in Included, kind \in {"BlockRequest", "BlockTxsRequest"}, eb \in Ebs :
        FetchEb(p, kind, eb)
  \/ Housekeeping

Sweep == HousekeepingEnd \/ \E p \in Peers : HousekeepingVisit(p)

Next == PollBehavior \/ Interface \/ Application \/ Sweep

Spec == Init /\ [][Next]_vars

-----------------------------------------------------------------------------
TaskSet == UNION {{Msg(ch, kind, a) : kind \in {t[2] : t \in Moves[ch]},
                     a \in {None} \cup Ranges \cup Ebs} : ch \in AllChannels}

(* Type invariant of the behaviour's and the pool's state.                 *)
TypeOK ==
  /\ GovernanceTypeOK
  /\ \A p \in Peers :
       /\ peers[p].connection \in ConnectionStates
       /\ peers[p].in_flight \in Ranges \cup {None}
       /\ \A ch \in Channels : peers[p].unsent[ch] \in TaskSet \cup {NoMsg}
  /\ requests \in Seq(Ranges)
  /\ discovered \subseteq Peers
  /\ \A c \in DOMAIN conns : conns[c].tasks \in Seq(TaskSet \cup {Shutdown})
  /\ writers \in [Peers -> 0..Len(conns)]
  /\ sweep \subseteq known

(* A requested block range is not lost: until a peer has answered it, it   *)
(* is queued, or some tracked peer holds it as unsent or in flight,        *)
(* through every error, disconnect, re-include and stale event.            *)
RangeHolders(r) == {p \in known : r \in {RangesHeld(peers[p])[i] :
                                           i \in DOMAIN RangesHeld(peers[p])}}
RangesNotLost ==
  \A r \in asked \ answered :
    \/ \E i \in DOMAIN requests : requests[i] = r
    \/ RangeHolders(r) # {}

(* A peer is connected once.  With a second connection, which may overlap  *)
(* the first, everything below is lost: see HandshakeNotStarted.           *)
ConnectedOnce == MaxConns = 1

(* The initiator respects agency: a request reaches the remote end of a    *)
(* connection only in a protocol state that accepts it, even when the      *)
(* local state was reset under requests still queued or in flight.         *)
NeverOffends == ConnectedOnce => \A c \in DOMAIN conns : ~conns[c].offended

(* Leios messages are version-gated: the remote of a connection is sent    *)
(* one only after it accepted a version that carries the overlay.  A peer  *)
(* connected twice escapes the gate, when the Accept of the old connection *)
(* is read late and taken for an answer of the new one.                    *)
LeiosOnlyWhenNegotiated ==
  ConnectedOnce =>
    \A c \in DOMAIN conns, ch \in Channels \cap {"leiosnotify", "leiosfetch"} :
      conns[c].remote[ch].at # StartAt[ch] => conns[c].remote["handshake"].arg = "leios"

(* A well-behaved peer is not accused of a violation while its connection  *)
(* lasts: every message it may send is one the local protocol state        *)
(* accepts, except the IntersectNotFound that drain_data takes for one.    *)
(* What remains is the message that arrives late, on a connection whose    *)
(* shutdown already reset the peer's state.                                *)
AccusedOnlyWhenLate ==
  ConnectedOnce /\ "IntersectNotFound" \notin Replies =>
    \A p \in Peers \ Liars :
      peers[p].violation => \E c \in DOMAIN conns : conns[c].pid = p /\ conns[c].shut

(* A connect that completes finds the handshake not yet proposed, so the   *)
(* assert! of propose_handshake holds.                                     *)
HandshakeNotStarted == \A p \in Peers : Completing(p) # {} => AssertPropose(p)

-----------------------------------------------------------------------------
(* Fairness: the manager loop is polled for ever, tokio completes what can *)
(* complete, the application includes its peers and keeps calling          *)
(* housekeeping, and a remote answers and ends the batches it streams.  A  *)
(* housekeeping pass is one call in the code and several steps here,       *)
(* during which the rest is disabled: fairness of the rest is strong only  *)
(* to see through that pause.                                              *)

CompletesConnect(p) == Connected(p) \/ ReadyDisconnected(p)
Writes(c) == c \in DOMAIN conns /\ (Sent(c) \/ SendFailed(c) \/ Disconnected(c))
Answers(c) == c \in DOMAIN conns /\ Recv(c) /\ conns' # conns
IncludesNew == \E p \in Included \ known : IncludePeer(p)

ConnIds == UNION {1..(s.max_conns * Cardinality(Peers)) : s \in Scenarios}

Fairness ==
  /\ WF_vars(Sweep) /\ WF_vars(Housekeeping)
  /\ SF_vars(PollBehavior) /\ SF_vars(IncludesNew)
  /\ \A p \in Peers : SF_vars(CompletesConnect(p))
  /\ \A c \in ConnIds : SF_vars(Writes(c)) /\ SF_vars(Answers(c))

FairSpec == Spec /\ Fairness

(* Every requested block range is answered in the end, although the peer   *)
(* that holds it may be lost, as long as one peer stays up.                *)
RangesAnswered == \A r \in Ranges : r \in asked ~> r \in answered

(* A ContinueSync that found a RequestNext not yet written is not          *)
(* forgotten: the deferred request goes out once the first is answered.    *)
DeferredNextSent ==
  \A p \in Peers : peers[p].sync_next_deferred ~> ~peers[p].sync_next_deferred
=============================================================================
