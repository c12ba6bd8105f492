-------------------------------- MODULE Pool --------------------------------
(***************************************************************************)
(* The TCP connection pool under both behaviours: TcpConnectionPool of     *)
(* interface.rs, and the far end of each connection.                       *)
(*                                                                         *)
(* An operator here is what a completed future of the pool does to the     *)
(* pool's own state; Initiator and Responder conjoin it with the handler   *)
(* that handle_io runs on the event in the same step of Manager::poll_next.*)
(*                                                                         *)
(* The writer half of a connection is behind a mutex, so its sends and its *)
(* shutdown complete in the order they were dispatched; the reader half is *)
(* a future of its own that outlives the shutdown.  A message is written   *)
(* and delivered in one step: on every channel only one side may speak at  *)
(* a time, so a message under way commutes with all the other end can do.  *)
(***************************************************************************)
EXTENDS MiniProtocols

CONSTANT Scenarios       \* what the environment of a behaviour may be like:
                         \* records with a field channels, and those of the
                         \* module that uses the pool

ASSUME ScenariosAssumption ==
  \A s \in Scenarios : s.channels \subseteq AllChannels /\ "handshake" \in s.channels

VARIABLES
  scene,            \* the scenario, chosen at the start and kept
  conns,            \* every TCP connection made, in order
  writers,          \* TcpConnectionPool.writers: index into conns, 0 if none
  futures           \* connects in flight, and Disconnected events to come

poolVars == <<scene, conns, writers, futures>>

Channels == scene.channels      \* the mini-protocols that are in use

PoolInit(pids) ==
  /\ scene \in Scenarios
  /\ conns = <<>>
  /\ writers = [p \in pids |-> 0]
  /\ futures = [p \in pids |-> <<>>]

NoMsg == Msg(None, None, None)

(* What a behaviour pushes to its OutboundQueue.                           *)
Send(p, m) == [do |-> "Send", pid |-> p, msg |-> m]
Connect(p) == [do |-> "Connect", pid |-> p, msg |-> NoMsg]
Disconnect(p) == [do |-> "Disconnect", pid |-> p, msg |-> NoMsg]
Event(p, name) == [do |-> name, pid |-> p, msg |-> NoMsg]

-----------------------------------------------------------------------------
(* Dispatch of a command.                                                  *)

Shutdown == Msg("shutdown", None, None)

Queued(c, task) == [conns EXCEPT ![c].tasks = Append(@, task)]

dispatch_send(p, m) ==
  /\ conns' = IF writers[p] # 0 THEN Queued(writers[p], m) ELSE conns
  /\ UNCHANGED <<scene, writers, futures>>

dispatch_disconnect(p) ==
  /\ IF writers[p] # 0
       THEN conns' = Queued(writers[p], Shutdown) /\ UNCHANGED futures
       ELSE futures' = [futures EXCEPT ![p] = Append(@, "ready")] /\ UNCHANGED conns
  /\ UNCHANGED <<scene, writers>>

dispatch_connect(p) ==
  /\ futures' = [futures EXCEPT ![p] = Append(@, "connect")]
  /\ UNCHANGED <<scene, conns, writers>>

-----------------------------------------------------------------------------
(* Completion of a future.                                                 *)

Without(queue, i) == SubSeq(queue, 1, i - 1) \o SubSeq(queue, i + 1, Len(queue))

Connects(p) == {i \in DOMAIN futures[p] : futures[p][i] = "connect"}
Readies(p) == {i \in DOMAIN futures[p] : futures[p][i] = "ready"}

(* The connects that may complete: FuturesUnordered polls a future first   *)
(* when it is pushed, in the order of the pushes, so an event that is      *)
(* ready at once comes before a connect dispatched after it.               *)
Completing(p) == {i \in Connects(p) : \A j \in Readies(p) : i < j}

Completes(p, i) == futures' = [futures EXCEPT ![p] = Without(@, i)]

(* `remote` is the state of each protocol at the far end; `offended`       *)
(* records that the far end was sent a message its own state refuses.      *)
NewConn(p) ==
  [pid |-> p, tasks |-> <<>>, shut |-> FALSE, reading |-> TRUE, writing |-> TRUE,
   remote |-> [ch \in Channels |-> Default(ch)], offended |-> FALSE]

(* Seeded fault: the new writer is stored under the wrong connection.      *)
ConnectedOffByOne(p) ==
  /\ conns' = Append(conns, NewConn(p))
  /\ writers' = [writers EXCEPT ![p] = Len(conns) + 2]
  /\ UNCHANGED scene

PoolConnected(p) ==
  /\ conns' = Append(conns, NewConn(p))
  /\ writers' = [writers EXCEPT ![p] = Len(conns) + 1]
  /\ UNCHANGED scene

Task(c) == Head(conns[c].tasks)
IsShutdown(c) == Task(c).ch = Shutdown.ch

RemoteGets(k, m) ==
  IF ~k.reading THEN k
  ELSE IF CanApply(k.remote[m.ch], m)
    THEN [k EXCEPT !.remote[m.ch] = Apply(k.remote[m.ch], m)]
    ELSE [k EXCEPT !.offended = TRUE]

PoolSent(c) ==
  /\ conns[c].tasks # <<>> /\ ~IsShutdown(c) /\ ~conns[c].shut /\ conns[c].writing
  /\ conns' = [conns EXCEPT ![c] = RemoteGets([conns[c] EXCEPT !.tasks = Tail(@)], Task(c))]
  /\ UNCHANGED <<scene, writers, futures>>

(* A write may fail once the connection is broken; after one that failed   *)
(* every other fails.                                                      *)
PoolSendFailed(c) ==
  /\ conns[c].tasks # <<>> /\ ~IsShutdown(c)
  /\ conns[c].shut \/ ~conns[c].reading
  /\ conns' = [conns EXCEPT ![c].tasks = Tail(@), ![c].writing = FALSE]
  /\ UNCHANGED <<scene, writers, futures>>

PoolDisconnected(c) ==
  /\ conns[c].tasks # <<>> /\ IsShutdown(c)
  /\ conns' = [conns EXCEPT ![c].tasks = Tail(@), ![c].shut = TRUE]
  /\ writers' = [writers EXCEPT ![conns[c].pid] = 0]
  /\ UNCHANGED <<scene, futures>>

PoolReady(p) ==
  /\ Readies(p) # {}
  /\ Completes(p, CHOOSE i \in Readies(p) : \A j \in Readies(p) : i <= j)
  /\ writers' = [writers EXCEPT ![p] = 0]
  /\ UNCHANGED <<scene, conns>>

(* A message of the far end is read.  The reader is armed again.           *)
PoolRecv(c, m) ==
  /\ conns[c].reading
  /\ conns' = IF CanApply(conns[c].remote[m.ch], m)
                THEN [conns EXCEPT ![c].remote[m.ch] = Apply(@, m)] ELSE conns
  /\ UNCHANGED <<scene, writers, futures>>

(* The far end closes, or the connection breaks: the reader is not armed   *)
(* again, and what the far end had in mind no longer matters.              *)
PoolRecvFailed(c) ==
  /\ conns[c].reading
  /\ conns' = [conns EXCEPT ![c].reading = FALSE,
                            ![c].remote = [ch \in Channels |-> Default(ch)]]
  /\ UNCHANGED <<scene, writers, futures>>

=============================================================================
