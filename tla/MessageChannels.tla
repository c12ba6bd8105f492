-------------------------- MODULE MessageChannels --------------------------
(***************************************************************************)
(* What a multiplexed connection promises to the agents on it: each agent  *)
(* has a channel of its own to its counterpart, on which messages arrive   *)
(* whole, once and in the order of the sending.  Nothing promises that     *)
(* they arrive at all: the connection may be torn down at any moment.      *)
(***************************************************************************)
EXTENDS Naturals, SequencesExt

CONSTANTS Agents, Counterpart(_)
VARIABLES sent, got            \* by agent: what it sent, what it received

channelVars == <<sent, got>>

ChannelInit ==
  /\ sent = [a \in Agents |-> <<>>]
  /\ got = [a \in Agents |-> <<>>]

(* send_msg_chunks: an agent sends, one or several messages at a time.     *)
Accept(a) ==
  /\ IsStrictPrefix(sent[a], sent'[a])
  /\ sent' = [sent EXCEPT ![a] = sent'[a]]
  /\ UNCHANGED got

(* recv_full_msg, or read_full_msgs, which returns several at once.        *)
Deliver(a) ==
  /\ IsStrictPrefix(got[a], got'[a])
  /\ IsPrefix(got'[a], sent[Counterpart(a)])
  /\ got' = [got EXCEPT ![a] = got'[a]]
  /\ UNCHANGED sent

ChannelNext == \E a \in Agents : Accept(a) \/ Deliver(a)
ChannelSpec == ChannelInit /\ [][ChannelNext]_channelVars
=============================================================================
