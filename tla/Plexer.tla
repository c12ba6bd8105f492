------------------------------- MODULE Plexer -------------------------------
(***************************************************************************)
(* pallas-network's multiplexer (multiplexer.rs): two ends of a bearer,    *)
(* each with a Plexer whose muxer and demuxer tasks serve the agents of    *)
(* that end.  An agent sends messages as chunks into the one ingress queue *)
(* of its end; the muxer writes them as segments; the demuxer of the other *)
(* end reads segments and puts their payloads into the egress queue of the *)
(* agent subscribed to their protocol; that agent's ChannelBuffer puts     *)
(* messages together again.                                                *)
(*                                                                         *)
(* A byte is a record: which agent's message it belongs to, at which       *)
(* place.  A header of eight bytes is one record.  Protocol ids are pairs  *)
(* of a number and the bit 0x8000.                                         *)
(***************************************************************************)
EXTENDS Naturals, Sequences, FiniteSets, SequencesExt

CONSTANTS
  Protocols,
  MaxSegment,      \* MAX_SEGMENT_PAYLOAD_LENGTH, the largest value of a u16
  QueueSize,       \* INGRESS_ and EGRESS_MSG_QUEUE_BUFFER
  BearerSize,      \* bytes that the operating system buffers
  Sizes,           \* sizes of encoded messages
  MaxRequests,     \* bound: messages a client sends
  Scenarios        \* who takes part and what may happen, see MCPlexer

ASSUME PlexerAssumption ==
  /\ MaxSegment \in Nat \ {0} /\ QueueSize \in Nat \ {0} /\ BearerSize \in Nat
  /\ MaxRequests \in Nat /\ Sizes \subseteq Nat \ {0}
  /\ \A s \in Scenarios :
       s.agents \subseteq [end : {"A", "B"}, proto : Protocols, role : {"client", "server"}]
         /\ s.sizes \subseteq Sizes

Ends == {"A", "B"}
Other(e) == IF e = "A" THEN "B" ELSE "A"

Agents == [end : Ends, proto : Protocols, role : {"client", "server"}]
Counterpart(a) ==
  [end |-> Other(a.end), proto |-> a.proto,
   role |-> IF a.role = "client" THEN "server" ELSE "client"]

VARIABLES
  scene,           \* the scenario, chosen once
  sent, got,       \* history: the messages each agent sent and received
  turn,            \* of each agent: "send", "recv", "failed" or "dropped"
  chunks,          \* chunks an agent is yet to enqueue
  ingress,         \* by end: queue of <<protocol, payload>> to the muxer
  muxing,          \* by end: what the muxer is writing
  wire,            \* by end: bytes written there and not yet read
  demuxing,        \* by end: the segment read and not yet delivered
  egress,          \* by agent: queue of payloads from the demuxer
  temp,            \* ChannelBuffer.temp
  running          \* by end: which of the tasks "mux", "demux" live

history == <<sent, got>>
agentVars == <<turn, chunks, temp>>
taskVars == <<muxing, wire, demuxing, running>>
vars == <<scene, history, agentVars, ingress, taskVars, egress>>

(* The scenario: the agents subscribed, whether the other implementation   *)
(* packs messages into a segment, the sizes of the messages, who may abort *)
(* and who may be dropped.                                                 *)
Subscribed == scene.agents
Packs(a) == a \in scene.packers

Init ==
  /\ scene \in Scenarios
  /\ sent = [a \in Agents |-> <<>>] /\ got = [a \in Agents |-> <<>>]
  /\ turn = [a \in Agents |-> IF a.role = "client" THEN "send" ELSE "recv"]
  /\ chunks = [a \in Agents |-> <<>>] /\ temp = [a \in Agents |-> <<>>]
  /\ ingress = [e \in Ends |-> <<>>] /\ egress = [a \in Agents |-> <<>>]
  /\ muxing = [e \in Ends |-> <<>>] /\ wire = [e \in Ends |-> <<>>]
  /\ demuxing = [e \in Ends |-> <<>>]
  /\ running = [e \in Ends |-> {"mux", "demux"}]

(* A message: whose it is, its number among them, its encoded size, and    *)
(* whether the turn of its sender ends with it.                            *)
Messages(a) == [of : {a}, no : {Len(sent[a]) + 1}, size : scene.sizes, last : BOOLEAN]

-----------------------------------------------------------------------------
(* subscribe_client and subscribe_server: the id an agent puts on its      *)
(* segments, and the one it listens to.                                    *)

Flip(id) == <<id[1], 1 - id[2]>>                         \* ^ 0x8000
to_plexer(a) == IF a.role = "client" THEN <<a.proto, 0>> ELSE Flip(<<a.proto, 0>>)
SameForBoth(a) == <<a.proto, 0>>                         \* seeded fault
from_plexer(a) == IF a.role = "client" THEN Flip(<<a.proto, 0>>) ELSE <<a.proto, 0>>

Subscribers(e, id) == {a \in Subscribed : a.end = e /\ from_plexer(a) = id}

-----------------------------------------------------------------------------
(* ChannelBuffer::send_msg_chunks: encode, cut, enqueue chunk by chunk.    *)

Encoded(m) == [i \in 1..m.size |-> [msg |-> m, at |-> i]]

Cut(payload, length) ==
  LET count == (Len(payload) + length - 1) \div length
      upto(i) == IF i * length < Len(payload) THEN i * length ELSE Len(payload)
  IN  [i \in 1..count |-> SubSeq(payload, (i - 1) * length + 1, upto(i))]

ChunksTooLong(payload) == Cut(payload, MaxSegment + 1)   \* seeded fault
Chunked(payload) == Cut(payload, MaxSegment)

(* A client makes one request at a time; a server answers with one or two  *)
(* messages.                                                               *)
MayFollow(a, m) ==
  IF a.role = "client" THEN Len(sent[a]) < MaxRequests /\ m.last
  ELSE sent[a] # <<>> /\ ~sent[a][Len(sent[a])].last => m.last

send_msg_chunks(a) ==
  /\ turn[a] = "send" /\ chunks[a] = <<>>
  /\ \E m \in Messages(a) :
       /\ MayFollow(a, m)
       /\ sent' = [sent EXCEPT ![a] = Append(@, m)]
       /\ chunks' = [chunks EXCEPT ![a] = Chunked(Encoded(m))]
  /\ UNCHANGED <<scene, got, turn, temp, ingress, egress, taskVars>>

(* External: another implementation may put several messages in a segment. *)
SendPacked(a) ==
  /\ Packs(a) /\ turn[a] = "send" /\ chunks[a] = <<>>
  /\ \E m \in Messages(a), size \in scene.sizes :
       LET n == [m EXCEPT !.no = @ + 1, !.size = size, !.last = TRUE]
       IN  /\ MayFollow(a, m) /\ ~m.last
           /\ sent' = [sent EXCEPT ![a] = @ \o <<m, n>>]
           /\ chunks' = [chunks EXCEPT ![a] = Chunked(Encoded(m) \o Encoded(n))]
  /\ UNCHANGED <<scene, got, turn, temp, ingress, egress, taskVars>>

(* The last message handed over ends the turn of the sender.               *)
AfterChunk(a) ==
  IF Len(chunks[a]) = 1 /\ sent[a][Len(sent[a])].last THEN "recv" ELSE "send"

Unbounded(e) == TRUE                                     \* seeded fault
IngressRoom(e) == Len(ingress[e]) < QueueSize

enqueue_chunk(a) ==
  /\ turn[a] = "send" /\ chunks[a] # <<>>
  /\ IF "mux" \in running[a.end]
       THEN /\ IngressRoom(a.end)
            /\ ingress' = [ingress EXCEPT ![a.end] =
                             Append(@, <<to_plexer(a), Head(chunks[a])>>)]
            /\ chunks' = [chunks EXCEPT ![a] = Tail(@)]
            /\ turn' = [turn EXCEPT ![a] = AfterChunk(a)]
       ELSE /\ turn' = [turn EXCEPT ![a] = "failed"]     \* Error::AgentEnqueue
            /\ UNCHANGED <<ingress, chunks>>
  /\ UNCHANGED <<scene, history, temp, egress, taskVars>>

-----------------------------------------------------------------------------
(* Muxer::tick: take one payload, write header and payload.                *)

Header(id, payload) == [id |-> id, len |-> Len(payload) % (MaxSegment + 1)]
Closed(e) == running[e] = {}

mux(e) ==
  /\ "mux" \in running[e] /\ muxing[e] = <<>> /\ ingress[e] # <<>>
  /\ LET x == Head(ingress[e])
     IN  muxing' = [muxing EXCEPT ![e] = <<Header(x[1], x[2])>> \o x[2]]
  /\ ingress' = [ingress EXCEPT ![e] = Tail(@)]
  /\ UNCHANGED <<scene, history, agentVars, egress, wire, demuxing, running>>

(* A write waits for room; one to a closed bearer is lost or fails.        *)
write_segment(e) ==
  /\ muxing[e] # <<>>
  /\ \/ /\ ~Closed(Other(e))
        /\ wire[e] = <<>> \/ Len(wire[e]) + Len(muxing[e]) <= BearerSize
        /\ wire' = [wire EXCEPT ![e] = @ \o muxing[e]]
        /\ UNCHANGED <<running, ingress>>
     \/ Closed(Other(e)) /\ UNCHANGED <<wire, running, ingress>>
     \/ /\ Closed(Other(e))                              \* Error::PlexerMux
        /\ running' = [running EXCEPT ![e] = @ \ {"mux"}]
        /\ ingress' = [ingress EXCEPT ![e] = <<>>]
        /\ UNCHANGED wire
  /\ muxing' = [muxing EXCEPT ![e] = <<>>]
  /\ UNCHANGED <<scene, history, agentVars, egress, demuxing>>

-----------------------------------------------------------------------------
(* Demuxer::tick: read one segment, deliver it.                            *)

Incoming(e) == wire[Other(e)]
SegmentReady(e) ==
  /\ Incoming(e) # <<>>
  /\ "id" \in DOMAIN Head(Incoming(e))
  /\ Len(Incoming(e)) > Head(Incoming(e)).len

read_segment(e) ==
  /\ "demux" \in running[e] /\ demuxing[e] = <<>> /\ SegmentReady(e)
  /\ LET n == Head(Incoming(e)).len
     IN  /\ demuxing' = [demuxing EXCEPT ![e] =
                           <<Head(Incoming(e)).id, SubSeq(Incoming(e), 2, n + 1)>>]
         /\ wire' = [wire EXCEPT ![Other(e)] = SubSeq(@, n + 2, Len(@))]
  /\ UNCHANGED <<scene, history, agentVars, ingress, egress, muxing, running>>

(* The bearer ends within or before a segment: Error::BearerIo.            *)
EndOfBearer(e) ==
  /\ "demux" \in running[e] /\ demuxing[e] = <<>> /\ ~SegmentReady(e)
  /\ "mux" \notin running[Other(e)]

(* Seeded fault: the loop goes on after an error.                          *)
ReadAgain(e) == EndOfBearer(e) /\ UNCHANGED vars
ReadFails(e) ==
  /\ EndOfBearer(e)
  /\ running' = [running EXCEPT ![e] = @ \ {"demux"}]
  /\ UNCHANGED <<scene, history, agentVars, ingress, egress, muxing, wire, demuxing>>

demux(e) ==
  /\ "demux" \in running[e] /\ demuxing[e] # <<>>
  /\ \/ \E a \in Subscribers(e, demuxing[e][1]) :
          \/ /\ turn[a] # "dropped" /\ Len(egress[a]) < QueueSize
             /\ egress' = [egress EXCEPT ![a] = Append(@, demuxing[e][2])]
             /\ UNCHANGED running
          \/ /\ turn[a] = "dropped"                      \* Error::PlexerDemux
             /\ running' = [running EXCEPT ![e] = @ \ {"demux"}]
             /\ UNCHANGED egress
     \/ /\ Subscribers(e, demuxing[e][1]) = {}           \* unregistered protocol
        /\ UNCHANGED <<egress, running>>
  /\ demuxing' = [demuxing EXCEPT ![e] = <<>>]
  /\ UNCHANGED <<scene, history, agentVars, ingress, muxing, wire>>

-----------------------------------------------------------------------------
(* try_decode_message on a buffer: the whole message at its start, not     *)
(* enough data, or a decoding error.                                       *)

Decoded(buffer) == buffer[1].msg
Garbled(buffer) ==
  \E i \in DOMAIN buffer :
    i <= Decoded(buffer).size /\ buffer[i] # [msg |-> Decoded(buffer), at |-> i]
Complete(buffer) == buffer # <<>> /\ Len(buffer) >= Decoded(buffer).size
DrainAll(buffer) == <<>>                                 \* seeded fault
Drained(buffer) == SubSeq(buffer, Decoded(buffer).size + 1, Len(buffer))

(* The outcome of one attempt on a buffer.                                 *)
try_decode_message(a, buffer) ==
  \/ /\ ~Garbled(buffer) /\ Complete(buffer)
     /\ got' = [got EXCEPT ![a] = Append(@, Decoded(buffer))]
     /\ temp' = [temp EXCEPT ![a] = Drained(buffer)]
     /\ turn' = [turn EXCEPT ![a] = IF Decoded(buffer).last THEN "send" ELSE "recv"]
  \/ /\ ~Garbled(buffer) /\ ~Complete(buffer)
     /\ temp' = [temp EXCEPT ![a] = buffer]
     /\ UNCHANGED <<got, turn>>
  \/ /\ Garbled(buffer)                                  \* Error::Decoding
     /\ temp' = [temp EXCEPT ![a] = buffer]
     /\ turn' = [turn EXCEPT ![a] = "failed"]
     /\ UNCHANGED got

(* recv_full_msg: first what is left in the buffer, then chunk by chunk.   *)
recv_full_msg(a) ==
  /\ turn[a] = "recv"
  /\ \/ /\ Complete(temp[a])
        /\ try_decode_message(a, temp[a])
        /\ UNCHANGED egress
     \/ /\ ~Complete(temp[a]) /\ egress[a] # <<>>
        /\ egress' = [egress EXCEPT ![a] = Tail(@)]
        /\ try_decode_message(a, temp[a] \o Head(egress[a]))
     \/ /\ ~Complete(temp[a]) /\ egress[a] = <<>>
        /\ "demux" \notin running[a.end]                 \* Error::AgentDequeue
        /\ turn' = [turn EXCEPT ![a] = "failed"]
        /\ UNCHANGED <<got, temp, egress>>
  /\ UNCHANGED <<scene, sent, chunks, ingress, taskVars>>

-----------------------------------------------------------------------------
(* RunningPlexer::abort cancels both tasks wherever they wait.  The socket *)
(* lingers for no time: what the other end has not read may be lost.       *)
abort(e) ==
  /\ e \in scene.aborts /\ ~Closed(e)
  /\ running' = [running EXCEPT ![e] = {}]
  /\ \E k \in 0..Len(wire[e] \o muxing[e]) :
       wire' = [wire EXCEPT ![e] = SubSeq(@ \o muxing[e], 1, k), ![Other(e)] = <<>>]
  /\ muxing' = [muxing EXCEPT ![e] = <<>>]
  /\ demuxing' = [demuxing EXCEPT ![e] = <<>>]
  /\ ingress' = [ingress EXCEPT ![e] = <<>>]
  /\ UNCHANGED <<scene, history, agentVars, egress>>

(* The application gives up an agent: its end of the queue is dropped.     *)
DropAgent(a) ==
  /\ a \in scene.drops /\ turn[a] # "dropped"
  /\ turn' = [turn EXCEPT ![a] = "dropped"]
  /\ egress' = [egress EXCEPT ![a] = <<>>]
  /\ temp' = [temp EXCEPT ![a] = <<>>] /\ chunks' = [chunks EXCEPT ![a] = <<>>]
  /\ UNCHANGED <<scene, history, ingress, taskVars>>

Task(e) == mux(e) \/ write_segment(e) \/ read_segment(e) \/ ReadFails(e) \/ demux(e)
Agent(a) == send_msg_chunks(a) \/ SendPacked(a) \/ enqueue_chunk(a) \/ recv_full_msg(a)
Next ==
  \/ \E e \in Ends : Task(e) \/ abort(e)
  \/ \E a \in Subscribed : Agent(a) \/ DropAgent(a)
Spec == Init /\ [][Next]_vars

(* Tasks and agents are tokio tasks that are polled again when they can go *)
(* on: the muxer and the demuxer, an agent in the middle of sending, and   *)
(* an agent that waits for a message.                                      *)
Fairness ==
  /\ \A e \in Ends : /\ WF_vars(mux(e) \/ write_segment(e))
                     /\ WF_vars(read_segment(e) \/ ReadFails(e) \/ demux(e))
  /\ \A a \in Agents : WF_vars(a \in Subscribed /\ (enqueue_chunk(a) \/ recv_full_msg(a)))
FairSpec == Spec /\ Fairness

-----------------------------------------------------------------------------
AllMessages == [of : Agents, no : Nat, size : Sizes, last : BOOLEAN]
Bytes == [msg : AllMessages, at : Nat]
Ids == Protocols \X {0, 1}

TypeOK ==
  /\ sent \in [Agents -> Seq(AllMessages)] /\ got \in [Agents -> Seq(AllMessages)]
  /\ turn \in [Agents -> {"send", "recv", "failed", "dropped"}]
  /\ chunks \in [Agents -> Seq(Seq(Bytes))] /\ temp \in [Agents -> Seq(Bytes)]
  /\ \A e \in Ends : Len(ingress[e]) <= QueueSize /\ running[e] \subseteq {"mux", "demux"}
  /\ \A a \in Agents : Len(egress[a]) <= QueueSize
  /\ \A e \in Ends : demuxing[e] # <<>> => demuxing[e][1] \in Ids

(* Each agent has a channel of its own: messages arrive whole, once and in *)
(* order, whatever the other agents on the connection do and whenever one  *)
(* end is torn down.                                                       *)
Channels == INSTANCE MessageChannels WITH Agents <- Agents, Counterpart <- Counterpart,
                                          sent <- sent, got <- got
Delivery == Channels!ChannelSpec

(* As long as neither end was stopped and the counterpart is subscribed,   *)
(* every byte an agent sent is somewhere between it and its counterpart,   *)
(* in the order of the sending.                                            *)
IsOf(a, b) == "msg" \in DOMAIN b /\ b.msg.of = a
OfSender(a, bytes) ==
  FlattenSeq([i \in DOMAIN bytes |-> IF IsOf(a, bytes[i]) THEN <<bytes[i]>> ELSE <<>>])
Payloads(queue) == FlattenSeq([i \in DOMAIN queue |-> queue[i][2]])
BytesOf(messages) == FlattenSeq([i \in DOMAIN messages |-> Encoded(messages[i])])
Between(a, b) ==
  OfSender(a, temp[b] \o FlattenSeq(egress[b])
                \o (IF demuxing[b.end] = <<>> THEN <<>> ELSE demuxing[b.end][2])
                \o wire[a.end] \o muxing[a.end] \o Payloads(ingress[a.end])
                \o FlattenSeq(chunks[a]))
Undisturbed ==
  /\ \A e \in Ends : running[e] = {"mux", "demux"}
  /\ \A a \in Subscribed : turn[a] # "dropped"
NothingLost ==
  Undisturbed => \A a \in Subscribed :
    Counterpart(a) \in Subscribed =>
      BytesOf(sent[a]) = BytesOf(got[Counterpart(a)]) \o Between(a, Counterpart(a))

(* A message that was sent arrives, although the queues are bounded and    *)
(* shared: agents that take turns cannot block each other for ever.  Only  *)
(* the end of a task or of an agent excuses it.                            *)
Behind(a) ==
  /\ {a, Counterpart(a)} \subseteq Subscribed
  /\ Len(got[Counterpart(a)]) < Len(sent[a])
EveryMessageArrives == \A a \in Agents : Behind(a) ~> ~Behind(a) \/ ~Undisturbed

(* When an end was aborted no agent, on either end, waits for ever: each   *)
(* gets an error, or stops for want of anything to do.                     *)
Waits(a) == a \in Subscribed /\ (turn[a] = "recv" \/ (turn[a] = "send" /\ chunks[a] # <<>>))
NobodyWaitsAfterAbort ==
  \A a \in Agents : (\E e \in Ends : Closed(e)) /\ Waits(a) ~> ~Waits(a)
=============================================================================
