--------------------------------- MODULE Wire -------------------------------
(***************************************************************************)
(* Messages on a connection: the sender encodes them, cuts the bytes into  *)
(* segments, and the segments of several mini-protocols share a bearer.    *)
(* The receiver puts the messages together again without knowing where one  *)
(* ends: it tries to decode what it has and waits when the input ends too   *)
(* early.  pallas-network does so in ChannelBuffer (multiplexer.rs),       *)
(* pallas-network2 in BearerReadHalf::read_full_msgs (bearer.rs).          *)
(*                                                                         *)
(* The bearer itself, its headers and queues are those of Plexer: here the *)
(* next segment of a channel is any number of bytes its sender wrote,      *)
(* since a peer need not be pallas and cuts where it likes.                *)
(***************************************************************************)
EXTENDS Cbor

CONSTANTS Links,   \* the connections tried
          LinkAt(_), \* of each, the crate that receives and the lanes
          Cuts,    \* sizes of segments, besides all that was written
          MaxSent  \* messages per lane

\* A lane is one direction of a mini-protocol: the codec the sender encodes
\* with and its style, the one the receiver decodes with (Unsupported if it has
\* none), the values of the first message, the one of those that follow, and
\* the names of the messages the receiver cannot read.
Unsupported == [is |-> "unsupported"]

VARIABLES link,    \* the connection, one of Links
          sent,    \* by lane: the messages handed to the sender
          flight,  \* by lane: bytes written and not yet taken from the bearer
          partial, \* by lane: bytes taken and not yet decoded
          got,     \* by lane: the messages returned by the receiver
          failed   \* the lanes whose receiver returned an error

vars == <<link, sent, flight, partial, got, failed>>

Lanes == 1..Len(LinkAt(link).lanes)
At(l) == LinkAt(link).lanes[l]

Init ==
    /\ link \in Links
    /\ sent = Tupled([l \in Lanes |-> <<>>])
    /\ flight = sent /\ partial = sent /\ got = sent
    /\ failed = {}

\* The chunks of an encoded message go out one after the other, each as a
\* segment of its own; the channel's other bytes never come between them.
write_message(l, v) == flight' = [flight EXCEPT ![l] = @ \o Write(At(l).enc, v, At(l).style)]

\* send_msg_chunks, or the Send command of the interface.
Send(l) ==
    /\ Len(sent[l]) < MaxSent
    /\ \E v \in IF sent[l] = <<>> THEN At(l).first ELSE {At(l).then} :
         /\ sent' = [sent EXCEPT ![l] = Append(@, v)]
         /\ write_message(l, v)
    /\ UNCHANGED <<link, partial, got, failed>>

-----------------------------------------------------------------------------
\* The sizes the next segment may have.
Sizes(l) == {n \in Cuts \cup {Len(flight[l])} : 0 < n /\ n <= Len(flight[l])}
Chunk(l, n) == SubSeq(flight[l], 1, n)
Taken(l, n) == flight' = [flight EXCEPT ![l] = SubSeq(@, n + 1, Len(@))]

(* pallas-network *)

\* A bug: the message stays in the buffer.
NotDrained(l, buffer) == Then(Read(At(l).dec, buffer), LAMBDA r : Good(r.v, buffer))
\* The decoder's position is drained from the buffer; the end of the input
\* means that the message is not complete, any other error is returned.
try_decode_message(l, buffer) == Read(At(l).dec, buffer)

\* What a call makes of the bytes it has.
Returned(l, buffer) ==
    LET r == try_decode_message(l, buffer)
    IN  /\ partial' = [partial EXCEPT ![l] = IF r.ok = "good" THEN r.rest ELSE buffer]
        /\ got' = [got EXCEPT ![l] = IF r.ok = "good" THEN Append(@, r.v) ELSE @]
        /\ failed' = failed \cup (IF r.ok = "bad" THEN {l} ELSE {})

Incomplete(l) == partial[l] = <<>> \/ try_decode_message(l, partial[l]).ok = "short"

\* One message is returned; what is left of the last chunk is tried before
\* another one is awaited.
recv_full_msg(l) ==
    /\ LinkAt(link).crate = "network"
    /\ l \notin failed
    /\ \/ ~Incomplete(l) /\ Returned(l, partial[l]) /\ UNCHANGED flight
       \/ /\ Incomplete(l)
          /\ \E n \in Sizes(l) : Taken(l, n) /\ Returned(l, partial[l] \o Chunk(l, n))
    /\ UNCHANGED <<link, sent>>

(* pallas-network2 *)

\* A message, or none: an error is logged and taken for an incomplete message.
try_decode_msg(l, buffer) == Read(At(l).dec, buffer)

\* from_payload, as long as it returns a message: the messages and what is
\* left.  The payload of an unsupported channel is cleared.
RECURSIVE from_payload(_, _)
from_payload(l, payload) ==
    IF At(l).dec = Unsupported THEN [msgs |-> <<>>, rest |-> <<>>]
    ELSE LET r == try_decode_msg(l, payload)
         IN  IF r.ok # "good" THEN [msgs |-> <<>>, rest |-> payload]
             ELSE LET more == from_payload(l, r.rest)
                  IN  [more EXCEPT !.msgs = <<r.v>> \o @]

\* A bug: what is left after the messages is not kept for the next segment.
DropsRest(l, rest) == [partial EXCEPT ![l] = <<>>]
\* partial_chunks.insert
KeepRest(l, rest) == [partial EXCEPT ![l] = rest]

read_full_msgs(l) ==
    /\ LinkAt(link).crate = "network2"
    /\ \E n \in Sizes(l) :
         LET read == from_payload(l, partial[l] \o Chunk(l, n))
         IN  /\ Taken(l, n)
             /\ partial' = KeepRest(l, read.rest)
             /\ got' = [got EXCEPT ![l] = @ \o read.msgs]
    /\ UNCHANGED <<link, sent, failed>>

-----------------------------------------------------------------------------

Receive(l) == recv_full_msg(l) \/ read_full_msgs(l)
Next == \E l \in Lanes : Send(l) \/ Receive(l)

Spec == Init /\ [][Next]_vars

\* No message the receiver cannot read was sent.
Spoken(l) == \A i \in 1..Len(sent[l]) : sent[l][i][1] \notin At(l).unread

Ends == (1..2) \X {"sender", "receiver"}
OtherEnd(e) == <<e[1], IF e[2] = "sender" THEN "receiver" ELSE "sender">>
AtEnd(e, side, seqs) == IF e[2] = side /\ e[1] \in DOMAIN seqs THEN seqs[e[1]] ELSE <<>>
Channels == INSTANCE MessageChannels WITH
              Agents <- Ends,
              Counterpart <- OtherEnd,
              sent <- [e \in Ends |-> AtEnd(e, "sender", sent)],
              got <- [e \in Ends |-> AtEnd(e, "receiver", got)]

\* Wherever the segments are cut, however many messages are pipelined and
\* however the lanes are interleaved, the receiver returns the values the
\* sender encoded, each once and in order.
Delivery == Channels!ChannelSpec

\* A receiver that waits for bytes when none are on their way has returned
\* every message that was sent, and none of those failed, unless one of the
\* messages it cannot read was sent on that lane: those of a protocol it has no
\* codec for, those with a label of a later version, and the rejection of a
\* transaction encoded by pallas-network itself, which localtxsubmission/codec.rs
\* does not write as it reads it.  Such a message holds up no other lane.
Waiting(l) == flight[l] = <<>> /\ (LinkAt(link).crate = "network" => Incomplete(l))
EverythingRead ==
    \A l \in Lanes : Spoken(l) =>
      /\ l \notin failed
      /\ Waiting(l) => got[l] = sent[l] /\ partial[l] = <<>>
=============================================================================
