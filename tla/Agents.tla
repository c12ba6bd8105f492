------------------------------- MODULE Agents -------------------------------
(***************************************************************************)
(* A client and a server of one mini-protocol of pallas-network, talking   *)
(* over the two channels that a plexer gives them (MessageChannels: whole  *)
(* messages, once, in order).  The applications may call any operation at  *)
(* any time; a call that the agent refuses changes nothing.                *)
(***************************************************************************)
EXTENDS AgentTables, Sequences

CONSTANTS
  MaxInFlight                   \* bound: messages under way in one direction

Protocols ==
  [handshake |-> [client |-> HandshakeClient, server |-> HandshakeServer],
   chainsync |-> [client |-> ChainSyncClient, server |-> ChainSyncServer],
   blockfetch |-> [client |-> BlockFetchClient, server |-> BlockFetchServer],
   txsubmission |-> [client |-> TxSubmissionClient, server |-> TxSubmissionServer],
   keepalive |-> [client |-> KeepAliveClient, server |-> KeepAliveServer],
   peersharing |-> [client |-> PeerSharingClient, server |-> PeerSharingServer],
   localstate |-> [client |-> LocalStateClient, server |-> LocalStateServer],
   localtxsubmission |-> [client |-> LocalTxSubmissionClient, server |-> LocalTxSubmissionServer],
   localmsgnotification |-> [client |-> LocalMsgNotificationClient,
                             server |-> LocalMsgNotificationServer],
   txmonitor |-> [client |-> TxMonitorClient, server |-> TxMonitorServer]]

Sides == {"client", "server"}
Peer(s) == IF s = "client" THEN "server" ELSE "client"

VARIABLES
  protocol,        \* the protocol spoken, chosen once
  state,           \* by side: the State of the agent
  inbox,           \* by side: messages on their way to it
  refused          \* by side: whether assert_inbound_state failed there

vars == <<protocol, state, inbox, refused>>

Table(s) == Protocols[protocol][s]

Init ==
  /\ protocol \in DOMAIN Protocols
  /\ state = [s \in Sides |-> Protocols[protocol][s].start]
  /\ inbox = [s \in Sides |-> <<>>]
  /\ refused = [s \in Sides |-> FALSE]

has_agency(s) == state[s] \in Table(s).agency

(* An operation that sends: agency and table are checked, the message is   *)
(* handed to the plexer, and then the state is assigned.                   *)
CanSend(s, row) == has_agency(s) /\ <<state[s], row[2]>> \in Table(s).outbound

send_message(s) ==
  \E row \in Table(s).sends :
    /\ CanSend(s, row)
    /\ Len(inbox[Peer(s)]) < MaxInFlight
    /\ inbox' = [inbox EXCEPT ![Peer(s)] = Append(@, row[2])]
    /\ state' = [state EXCEPT ![s] = row[3]]
    /\ UNCHANGED <<protocol, refused>>

(* An operation that receives: the message is consumed in any case; one    *)
(* that the table refuses leaves the state alone.  The application calls   *)
(* the operation that is made for the message: recv_while_busy when busy,  *)
(* the response of the request it made.  (Another operation would consume  *)
(* the message and fail.)                                                  *)
Expected(s) == <<state[s], Head(inbox[s])>> \in Table(s).inbound

recv_message(s) ==
  /\ ~has_agency(s) /\ inbox[s] # <<>>
  /\ inbox' = [inbox EXCEPT ![s] = Tail(@)]
  /\ \/ /\ ~Expected(s)                                  \* InvalidInbound
        /\ refused' = [refused EXCEPT ![s] = TRUE]
        /\ UNCHANGED state
     \/ /\ Expected(s)
        /\ \E row \in Table(s).recvs :
             row[2] = Head(inbox[s]) /\ state' = [state EXCEPT ![s] = row[3]]
        /\ UNCHANGED refused
  /\ UNCHANGED protocol

Next == \E s \in Sides : send_message(s) \/ recv_message(s)
Spec == Init /\ [][Next]_vars

-----------------------------------------------------------------------------
(* Two agents of this library, used in any order of calls, never meet a    *)
(* message that the assert_inbound_state of the receiver refuses.          *)
NothingRefused == \A s \in Sides : ~refused[s]

(* The two ends agree on whose turn it is, although each side keeps its    *)
(* own state and moves it by its own table: the agents never both have      *)
(* agency, messages never cross, and when everything sent was received both *)
(* are in the same state.                                                   *)
StatesAgree ==
  /\ ~(has_agency("client") /\ has_agency("server"))
  /\ inbox["client"] = <<>> \/ inbox["server"] = <<>>
  /\ inbox["client"] = <<>> /\ inbox["server"] = <<>> => state["client"] = state["server"]

(* The agents never wait for each other: as long as the protocol is not    *)
(* over, one of them has a message to read or an operation to call.        *)
DoneState == IF protocol = "keepalive" THEN Plain("Done") ELSE "Done"
Over == \E s \in Sides : state[s] = DoneState
NobodyStuck ==
  Over \/ \E s \in Sides :
            IF has_agency(s) THEN \E row \in Table(s).sends : CanSend(s, row)
            ELSE inbox[s] # <<>>
=============================================================================
