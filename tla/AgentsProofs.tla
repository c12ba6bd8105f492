---------------------------- MODULE AgentsProofs ----------------------------
(***************************************************************************)
(* Proofs about the client and server agents of pallas-network             *)
(* (Agents.tla), for every protocol, any set of keep-alive cookies and any *)
(* number of messages under way.                                           *)
(*                                                                         *)
(* The two tables of a protocol are compared once, row by row (Matching);  *)
(* that is the part that reads the code's tables.  The rest is the same    *)
(* for every protocol: the messages under way always lead, one legal move  *)
(* after the other, from the receiver's state to the sender's (Leads).     *)
(***************************************************************************)
EXTENDS Agents, TLAPS

(* Whatever agent a may send, agent b takes it in the same state, has no   *)
(* agency there, and goes where a went.                                    *)
Understands(a, b) ==
  \A x \in a.agency, row \in a.sends :
    <<x, row[2]>> \in a.outbound =>
      /\ x \notin b.agency
      /\ <<x, row[2]>> \in b.inbound
      /\ \A r \in b.recvs : r[2] = row[2] => r[3] = row[3]

(* In state x one of the two agents has an operation to call.              *)
MaySpeak(a, x) == x \in a.agency /\ \E row \in a.sends : <<x, row[2]>> \in a.outbound

Targets(a) == {row[3] : row \in a.sends}

Matching(a, b, done) ==
  /\ Understands(a, b) /\ Understands(b, a)
  /\ a.start = b.start
  /\ a.agency \cap b.agency = {}
  /\ \A x \in {a.start} \cup Targets(a) \cup Targets(b) :
       x = done \/ MaySpeak(a, x) \/ MaySpeak(b, x)

-----------------------------------------------------------------------------
(* The tables of client.rs and server.rs match, protocol by protocol.      *)

(* handshake: what each side sends, the other side takes.                 *)
LEMMA HandshakeMatch == Matching(HandshakeClient, HandshakeServer, "Done")
<1> USE DEF In, Recv, Agent, HandshakeClient, HandshakeServer,
            HandshakeClientRules, HandshakeServerRules
<1>1. Understands(HandshakeClient, HandshakeServer)
  BY DEF Understands
<1>2. Understands(HandshakeServer, HandshakeClient)
  BY DEF Understands
<1>3. /\ HandshakeClient.start = HandshakeServer.start
      /\ HandshakeClient.agency \cap HandshakeServer.agency = {}
  OBVIOUS
<1>4. \A x \in {HandshakeClient.start} \cup Targets(HandshakeClient)
                \cup Targets(HandshakeServer) :
        x = "Done" \/ MaySpeak(HandshakeClient, x) \/ MaySpeak(HandshakeServer, x)
  BY DEF Targets, MaySpeak
<1> QED BY <1>1, <1>2, <1>3, <1>4 DEF Matching

(* chainsync: what each side sends, the other side takes.                 *)
LEMMA ChainSyncMatch == Matching(ChainSyncClient, ChainSyncServer, "Done")
<1> USE DEF In, Recv, Agent, ChainSyncClient, ChainSyncServer,
            ChainSyncClientRules, ChainSyncServerRules, Awaited, AfterAwaitReply
<1>1. Understands(ChainSyncClient, ChainSyncServer)
  BY DEF Understands
<1>2. Understands(ChainSyncServer, ChainSyncClient)
  BY DEF Understands
<1>3. /\ ChainSyncClient.start = ChainSyncServer.start
      /\ ChainSyncClient.agency \cap ChainSyncServer.agency = {}
  OBVIOUS
<1>4. \A x \in {ChainSyncClient.start} \cup Targets(ChainSyncClient)
                \cup Targets(ChainSyncServer) :
        x = "Done" \/ MaySpeak(ChainSyncClient, x) \/ MaySpeak(ChainSyncServer, x)
  BY DEF Targets, MaySpeak
<1> QED BY <1>1, <1>2, <1>3, <1>4 DEF Matching

(* blockfetch: what each side sends, the other side takes.                *)
LEMMA BlockFetchMatch == Matching(BlockFetchClient, BlockFetchServer, "Done")
<1> USE DEF In, Recv, Agent, BlockFetchClient, BlockFetchServer,
            BlockFetchClientRules, BlockFetchServerRules, AfterBatchDone
<1>1. Understands(BlockFetchClient, BlockFetchServer)
  BY DEF Understands
<1>2. Understands(BlockFetchServer, BlockFetchClient)
  BY DEF Understands
<1>3. /\ BlockFetchClient.start = BlockFetchServer.start
      /\ BlockFetchClient.agency \cap BlockFetchServer.agency = {}
  OBVIOUS
<1>4. \A x \in {BlockFetchClient.start} \cup Targets(BlockFetchClient)
                \cup Targets(BlockFetchServer) :
        x = "Done" \/ MaySpeak(BlockFetchClient, x) \/ MaySpeak(BlockFetchServer, x)
  BY DEF Targets, MaySpeak
<1> QED BY <1>1, <1>2, <1>3, <1>4 DEF Matching

(* txsubmission: what each side sends, the other side takes.              *)
LEMMA TxSubmissionMatch == Matching(TxSubmissionClient, TxSubmissionServer, "Done")
<1> USE DEF In, Recv, Agent, TxSubmissionClient, TxSubmissionServer,
            TxSubmissionClientRules, TxSubmissionServerRules
<1>1. Understands(TxSubmissionClient, TxSubmissionServer)
  BY DEF Understands
<1>2. Understands(TxSubmissionServer, TxSubmissionClient)
  BY DEF Understands
<1>3. /\ TxSubmissionClient.start = TxSubmissionServer.start
      /\ TxSubmissionClient.agency \cap TxSubmissionServer.agency = {}
  OBVIOUS
<1>4. \A x \in {TxSubmissionClient.start} \cup Targets(TxSubmissionClient)
                \cup Targets(TxSubmissionServer) :
        x = "Done" \/ MaySpeak(TxSubmissionClient, x) \/ MaySpeak(TxSubmissionServer, x)
  BY DEF Targets, MaySpeak
<1> QED BY <1>1, <1>2, <1>3, <1>4 DEF Matching

(* keepalive: what each side sends, the other side takes.                 *)
LEMMA KeepAliveMatch == Matching(KeepAliveClient, KeepAliveServer, Plain("Done"))
<1> USE DEF In, Recv, Agent, KeepAliveClient, KeepAliveServer,
            KeepAliveClientRules, KeepAliveServerRules, Held, Plain
<1>1. Understands(KeepAliveClient, KeepAliveServer)
  BY DEF Understands
<1>2. Understands(KeepAliveServer, KeepAliveClient)
  BY DEF Understands
<1>3. /\ KeepAliveClient.start = KeepAliveServer.start
      /\ KeepAliveClient.agency \cap KeepAliveServer.agency = {}
  OBVIOUS
<1>4. \A x \in {KeepAliveClient.start} \cup Targets(KeepAliveClient)
                \cup Targets(KeepAliveServer) :
        x = Plain("Done") \/ MaySpeak(KeepAliveClient, x) \/ MaySpeak(KeepAliveServer, x)
  <2>1. MaySpeak(KeepAliveClient, Plain("Client"))
    <3>1. PICK c \in Cookies : TRUE
      BY CookiesAssumption
    <3>2. <<"send_keepalive_request", <<"KeepAlive", c>>, Held(c)>> \in KeepAliveClient.sends
      OBVIOUS
    <3>3. <<Plain("Client"), <<"KeepAlive", c>>>> \in KeepAliveClient.outbound
      OBVIOUS
    <3> QED BY <3>2, <3>3 DEF MaySpeak
  <2>2. ASSUME NEW c \in Cookies PROVE MaySpeak(KeepAliveServer, Held(c))
    <3>1. <<"send_keepalive_response", <<"ResponseKeepAlive", c>>, Plain("Client")>>
            \in KeepAliveServer.sends
      OBVIOUS
    <3> QED BY <3>1 DEF MaySpeak
  <2>3. {KeepAliveClient.start} \cup Targets(KeepAliveClient) \cup Targets(KeepAliveServer)
          \subseteq {Plain("Client")} \cup {Held(c) : c \in Cookies}
    BY DEF Targets
  <2> HIDE DEF In, Recv, Agent, KeepAliveClient, KeepAliveServer
  <2> QED BY <2>1, <2>2, <2>3
<1> QED BY <1>1, <1>2, <1>3, <1>4 DEF Matching

(* peersharing: what each side sends, the other side takes.               *)
LEMMA PeerSharingMatch == Matching(PeerSharingClient, PeerSharingServer, "Done")
<1> USE DEF In, Recv, Agent, PeerSharingClient, PeerSharingServer,
            PeerSharingClientRules, PeerSharingServerRules
<1>1. Understands(PeerSharingClient, PeerSharingServer)
  BY DEF Understands
<1>2. Understands(PeerSharingServer, PeerSharingClient)
  BY DEF Understands
<1>3. /\ PeerSharingClient.start = PeerSharingServer.start
      /\ PeerSharingClient.agency \cap PeerSharingServer.agency = {}
  OBVIOUS
<1>4. \A x \in {PeerSharingClient.start} \cup Targets(PeerSharingClient)
                \cup Targets(PeerSharingServer) :
        x = "Done" \/ MaySpeak(PeerSharingClient, x) \/ MaySpeak(PeerSharingServer, x)
  BY DEF Targets, MaySpeak
<1> QED BY <1>1, <1>2, <1>3, <1>4 DEF Matching

(* localstate: what each side sends, the other side takes.                *)
LEMMA LocalStateMatch == Matching(LocalStateClient, LocalStateServer, "Done")
<1> USE DEF In, Recv, Agent, LocalStateClient, LocalStateServer,
            LocalStateClientRules, LocalStateServerRules, LocalStateAgency
<1>1. Understands(LocalStateClient, LocalStateServer)
  BY DEF Understands
<1>2. Understands(LocalStateServer, LocalStateClient)
  BY DEF Understands
<1>3. /\ LocalStateClient.start = LocalStateServer.start
      /\ LocalStateClient.agency \cap LocalStateServer.agency = {}
  OBVIOUS
<1>4. \A x \in {LocalStateClient.start} \cup Targets(LocalStateClient)
                \cup Targets(LocalStateServer) :
        x = "Done" \/ MaySpeak(LocalStateClient, x) \/ MaySpeak(LocalStateServer, x)
  BY DEF Targets, MaySpeak
<1> QED BY <1>1, <1>2, <1>3, <1>4 DEF Matching

(* localtxsubmission: what each side sends, the other side takes.         *)
LEMMA LocalTxSubmissionMatch == Matching(LocalTxSubmissionClient, LocalTxSubmissionServer, "Done")
<1> USE DEF In, Recv, Agent, LocalTxSubmissionClient, LocalTxSubmissionServer,
            LocalTxSubmissionClientRules, LocalTxSubmissionServerRules
<1>1. Understands(LocalTxSubmissionClient, LocalTxSubmissionServer)
  BY DEF Understands
<1>2. Understands(LocalTxSubmissionServer, LocalTxSubmissionClient)
  BY DEF Understands
<1>3. /\ LocalTxSubmissionClient.start = LocalTxSubmissionServer.start
      /\ LocalTxSubmissionClient.agency \cap LocalTxSubmissionServer.agency = {}
  OBVIOUS
<1>4. \A x \in {LocalTxSubmissionClient.start} \cup Targets(LocalTxSubmissionClient)
                \cup Targets(LocalTxSubmissionServer) :
        x = "Done" \/ MaySpeak(LocalTxSubmissionClient, x) \/ MaySpeak(LocalTxSubmissionServer, x)
  <2>1. MaySpeak(LocalTxSubmissionClient, "Idle")
    BY DEF MaySpeak
  <2>2. <<"send_submit_tx_response", "AcceptTx", "Idle">> \in LocalTxSubmissionServer.sends
    OBVIOUS
  <2>3. MaySpeak(LocalTxSubmissionServer, "Busy")
    BY <2>2 DEF MaySpeak
  <2>4. {LocalTxSubmissionClient.start} \cup Targets(LocalTxSubmissionClient)
          \cup Targets(LocalTxSubmissionServer) \subseteq {"Idle", "Busy", "Done"}
    BY DEF Targets
  <2> QED BY <2>1, <2>3, <2>4
<1> QED BY <1>1, <1>2, <1>3, <1>4 DEF Matching

(* localmsgnotification: what each side sends, the other side takes.      *)
LEMMA LocalMsgNotificationMatch == Matching(LocalMsgNotificationClient, LocalMsgNotificationServer, "Done")
<1> USE DEF In, Recv, Agent, LocalMsgNotificationClient, LocalMsgNotificationServer,
            LocalMsgNotificationClientRules, LocalMsgNotificationServerRules
<1>1. Understands(LocalMsgNotificationClient, LocalMsgNotificationServer)
  BY DEF Understands
<1>2. Understands(LocalMsgNotificationServer, LocalMsgNotificationClient)
  BY DEF Understands
<1>3. /\ LocalMsgNotificationClient.start = LocalMsgNotificationServer.start
      /\ LocalMsgNotificationClient.agency \cap LocalMsgNotificationServer.agency = {}
  OBVIOUS
<1>4. \A x \in {LocalMsgNotificationClient.start} \cup Targets(LocalMsgNotificationClient)
                \cup Targets(LocalMsgNotificationServer) :
        x = "Done" \/ MaySpeak(LocalMsgNotificationClient, x) \/ MaySpeak(LocalMsgNotificationServer, x)
  BY SMTT(30) DEF Targets, MaySpeak
<1> QED BY <1>1, <1>2, <1>3, <1>4 DEF Matching

(* txmonitor: what each side sends, the other side takes.                 *)
LEMMA TxMonitorMatch == Matching(TxMonitorClient, TxMonitorServer, "Done")
<1> USE DEF In, Recv, Agent, TxMonitorClient, TxMonitorServer,
            TxMonitorClientRules, TxMonitorServerRules
<1>1. Understands(TxMonitorClient, TxMonitorServer)
  BY DEF Understands
<1>2. Understands(TxMonitorServer, TxMonitorClient)
  BY DEF Understands
<1>3. /\ TxMonitorClient.start = TxMonitorServer.start
      /\ TxMonitorClient.agency \cap TxMonitorServer.agency = {}
  BY SMTT(30)
<1>4. \A x \in {TxMonitorClient.start} \cup Targets(TxMonitorClient)
                \cup Targets(TxMonitorServer) :
        x = "Done" \/ MaySpeak(TxMonitorClient, x) \/ MaySpeak(TxMonitorServer, x)
  <2>1. MaySpeak(TxMonitorClient, "Idle") /\ MaySpeak(TxMonitorClient, "Acquired")
    BY DEF MaySpeak
  <2>2. MaySpeak(TxMonitorServer, "Acquiring")
    <3>1. <<"acquired", "Acquired", "Acquired">> \in TxMonitorServer.sends
      OBVIOUS
    <3>2. <<"Acquiring", "Acquired">> \in TxMonitorServer.outbound
      BY DEF TxMonitorClient, TxMonitorClientRules
    <3> QED BY <3>1, <3>2 DEF MaySpeak
  <2>3. <<"respond", "ResponseHasTx", "Acquired">> \in TxMonitorServer.sends
    OBVIOUS
  <2>4. MaySpeak(TxMonitorServer, "Busy")
    BY <2>3 DEF MaySpeak
  <2>5. {TxMonitorClient.start} \cup Targets(TxMonitorClient) \cup Targets(TxMonitorServer)
          \subseteq {"Idle", "Acquired", "Acquiring", "Busy"}
    BY DEF Targets
  <2> QED BY <2>1, <2>2, <2>4, <2>5
<1> QED BY <1>1, <1>2, <1>3, <1>4, ZenonT(30) DEF Matching

(* All of them together.                                                   *)
LEMMA TablesMatch ==
  ASSUME protocol \in DOMAIN Protocols
  PROVE  Matching(Table("client"), Table("server"), DoneState)
<1> USE DEF Table, DoneState, Protocols
<1>1. CASE protocol = "handshake" BY <1>1, HandshakeMatch
<1>2. CASE protocol = "chainsync" BY <1>2, ChainSyncMatch
<1>3. CASE protocol = "blockfetch" BY <1>3, BlockFetchMatch
<1>4. CASE protocol = "txsubmission" BY <1>4, TxSubmissionMatch
<1>5. CASE protocol = "keepalive" BY <1>5, KeepAliveMatch
<1>6. CASE protocol = "peersharing" BY <1>6, PeerSharingMatch
<1>7. CASE protocol = "localstate" BY <1>7, LocalStateMatch
<1>8. CASE protocol = "localtxsubmission" BY <1>8, LocalTxSubmissionMatch
<1>9. CASE protocol = "localmsgnotification" BY <1>9, LocalMsgNotificationMatch
<1>10. CASE protocol = "txmonitor" BY <1>10, TxMonitorMatch
<1> QED BY <1>1, <1>2, <1>3, <1>4, <1>5, <1>6, <1>7, <1>8, <1>9, <1>10

-----------------------------------------------------------------------------
(* The inductive invariant.                                                *)

Words == {row[2] : row \in Table("client").sends \cup Table("server").sends}

States ==
  {Table("client").start} \cup Targets(Table("client")) \cup Targets(Table("server"))

(* Agent t may send m in state x, and is then in state y.                  *)
Moves(t, x, m, y) ==
  /\ x \in Table(t).agency /\ <<x, m>> \in Table(t).outbound
  /\ \E row \in Table(t).sends : row[2] = m /\ row[3] = y

(* The messages on their way to s lead from its state to its peer's, and   *)
(* nothing is on its way back.                                             *)
Leads(s) ==
  /\ inbox[Peer(s)] = <<>>
  /\ \E path \in [1..(Len(inbox[s]) + 1) -> States] :
       /\ path[1] = state[s]
       /\ path[Len(inbox[s]) + 1] = state[Peer(s)]
       /\ \A i \in 1..Len(inbox[s]) : Moves(Peer(s), path[i], inbox[s][i], path[i + 1])

AgentsTypeOK ==
  /\ protocol \in DOMAIN Protocols
  /\ state \in [Sides -> States]
  /\ inbox \in [Sides -> Seq(Words)]

AgentsInv ==
  /\ AgentsTypeOK
  /\ refused = [s \in Sides |-> FALSE]
  /\ \E s \in Sides : Leads(s)

-----------------------------------------------------------------------------
(* Each agent's peer is the other one.                                     *)
LEMMA PeerOfPeer == \A s \in Sides : Peer(s) \in Sides /\ Peer(s) # s /\ Peer(Peer(s)) = s
BY DEF Sides, Peer

(* TablesMatch seen from either side.                                      *)
LEMMA SideMatches ==
  ASSUME protocol \in DOMAIN Protocols, NEW t \in Sides
  PROVE  /\ Understands(Table(t), Table(Peer(t)))
         /\ Table(t).agency \cap Table(Peer(t)).agency = {}
         /\ Table(t).start = Table("client").start
         /\ \A x \in States : \/ x = DoneState
                              \/ MaySpeak(Table(t), x) \/ MaySpeak(Table(Peer(t)), x)
         /\ Targets(Table(t)) \subseteq States
         /\ \A row \in Table(t).sends : row[2] \in Words
<1>1. Matching(Table("client"), Table("server"), DoneState)
  BY TablesMatch
<1>2. CASE t = "client"
  BY <1>1, <1>2 DEF Matching, Peer, States, Words
<1>3. CASE t = "server"
  BY <1>1, <1>3 DEF Matching, Peer, States, Words
<1> QED BY <1>2, <1>3 DEF Sides

(* A move of t is one its peer expects, without agency, and follows.       *)
LEMMA MoveUnderstood ==
  ASSUME protocol \in DOMAIN Protocols, NEW t \in Sides, NEW x, NEW m, NEW y,
         Moves(t, x, m, y)
  PROVE  /\ x \notin Table(Peer(t)).agency
         /\ <<x, m>> \in Table(Peer(t)).inbound
         /\ \A r \in Table(Peer(t)).recvs : r[2] = m => r[3] = y
<1>1. PICK row \in Table(t).sends : row[2] = m /\ row[3] = y
  BY DEF Moves
<1> QED BY <1>1, SideMatches DEF Moves, Understands

(* In the initial state both agents are at their common start.             *)
LEMMA AgentsInit == Init => AgentsInv
<1> SUFFICES ASSUME Init PROVE AgentsInv
  OBVIOUS
<1>1. protocol \in DOMAIN Protocols
  BY DEF Init
<1>2. state = [s \in Sides |-> Table("client").start]
  BY <1>1, SideMatches DEF Init, Table
<1>3. AgentsTypeOK
  BY <1>1, <1>2 DEF Init, AgentsTypeOK, States
<1>4. Leads("client")
  <2> DEFINE path == [i \in 1..1 |-> Table("client").start]
  <2>1. inbox["client"] = <<>> /\ inbox["server"] = <<>> /\ Len(inbox["client"]) = 0
    BY DEF Init, Sides
  <2>2. path \in [1..(Len(inbox["client"]) + 1) -> States]
    BY <2>1 DEF States
  <2>3. path[1] = state["client"] /\ path[Len(inbox["client"]) + 1] = state["server"]
    BY <1>2, <2>1 DEF Sides
  <2> HIDE DEF path
  <2> QED BY <2>1, <2>2, <2>3 DEF Leads, Peer
<1> QED BY <1>3, <1>4 DEF Init, AgentsInv, Sides

(* The agent that speaks is the one all messages under way come from: the  *)
(* receiver of a message under way has no agency.                          *)
LEMMA SpeakerLeads ==
  ASSUME AgentsInv, NEW s \in Sides, has_agency(s)
  PROVE  Leads(Peer(s)) /\ inbox[s] = <<>>
<1>1. PICK u \in Sides : Leads(u)
  BY DEF AgentsInv
<1>2. CASE u = Peer(s)
  BY <1>1, <1>2, PeerOfPeer DEF Leads
<1>3. CASE u = s
  <2>1. inbox[s] \in Seq(Words) /\ Len(inbox[s]) \in Nat
    BY DEF AgentsInv, AgentsTypeOK
  <2>2. PICK path \in [1..(Len(inbox[s]) + 1) -> States] :
          /\ path[1] = state[s]
          /\ path[Len(inbox[s]) + 1] = state[Peer(s)]
          /\ \A i \in 1..Len(inbox[s]) :
               Moves(Peer(s), path[i], inbox[s][i], path[i + 1])
    BY <1>1, <1>3 DEF Leads
  <2>3. Len(inbox[s]) = 0
    <3> SUFFICES ASSUME Len(inbox[s]) # 0 PROVE FALSE
      OBVIOUS
    <3>1. Moves(Peer(s), state[s], inbox[s][1], path[2])
      BY <2>1, <2>2
    <3> QED BY <3>1, MoveUnderstood, PeerOfPeer DEF AgentsInv, AgentsTypeOK, has_agency
  <2>4. inbox[s] = <<>> /\ inbox[Peer(s)] = <<>>
    BY <1>1, <1>3, <2>1, <2>3 DEF Leads
  <2>5. Leads(Peer(s))
    <3>1. path \in [1..(Len(inbox[Peer(s)]) + 1) -> States] /\ Len(inbox[Peer(s)]) = 0
      BY <2>2, <2>3, <2>4
    <3>2. /\ path[1] = state[Peer(s)]
          /\ path[Len(inbox[Peer(s)]) + 1] = state[Peer(Peer(s))]
      BY <2>2, <2>3, <3>1, PeerOfPeer
    <3> QED BY <2>4, <3>1, <3>2, PeerOfPeer DEF Leads
  <2> QED BY <2>4, <2>5
<1> QED BY <1>2, <1>3, PeerOfPeer DEF Sides, Peer

(* A sent message is one more legal move at the end.                       *)
LEMMA SendKeepsInv ==
  ASSUME AgentsInv, NEW s \in Sides, send_message(s)
  PROVE  AgentsInv'
<1> DEFINE r == Peer(s)
<1> DEFINE q == inbox[r]
<1>1. PICK row \in Table(s).sends :
        /\ CanSend(s, row)
        /\ inbox' = [inbox EXCEPT ![r] = Append(@, row[2])]
        /\ state' = [state EXCEPT ![s] = row[3]]
        /\ UNCHANGED <<protocol, refused>>
  BY DEF send_message
<1>2. r \in Sides /\ r # s /\ Peer(r) = s
  BY PeerOfPeer
<1>3. /\ protocol \in DOMAIN Protocols /\ q \in Seq(Words) /\ Len(q) \in Nat
      /\ row[2] \in Words /\ row[3] \in States
  BY <1>2, SideMatches DEF AgentsInv, AgentsTypeOK, Targets
<1>4. States' = States /\ Words' = Words /\ \A t, x, m, y : Moves(t, x, m, y)' = Moves(t, x, m, y)
  BY <1>1 DEF States, Words, Moves, Table, Targets
<1>5. AgentsTypeOK'
  BY <1>1, <1>2, <1>3, <1>4 DEF AgentsInv, AgentsTypeOK
<1>6. Leads(r)'
  <2>1. Leads(r) /\ inbox[s] = <<>>
    BY <1>1, SpeakerLeads DEF CanSend
  <2>2. PICK path \in [1..(Len(q) + 1) -> States] :
          /\ path[1] = state[r]
          /\ path[Len(q) + 1] = state[s]
          /\ \A i \in 1..Len(q) : Moves(s, path[i], q[i], path[i + 1])
    BY <1>2, <2>1 DEF Leads
  <2>3. /\ inbox'[r] = Append(q, row[2]) /\ inbox'[s] = <<>>
        /\ state'[r] = state[r] /\ state'[s] = row[3]
    BY <1>1, <1>2, <2>1 DEF AgentsInv, AgentsTypeOK
  <2> DEFINE longer == [i \in 1..(Len(q) + 2) |-> IF i = Len(q) + 2 THEN row[3] ELSE path[i]]
  <2>4. /\ Len(inbox'[r]) = Len(q) + 1
        /\ \A i \in 1..Len(q) : inbox'[r][i] = q[i]
        /\ inbox'[r][Len(q) + 1] = row[2]
    BY <1>3, <2>3
  <2>5. longer \in [1..(Len(inbox'[r]) + 1) -> States]
    BY <1>3, <2>2, <2>4
  <2>6. longer[1] = state'[r] /\ longer[Len(inbox'[r]) + 1] = state'[s]
    BY <1>3, <2>2, <2>3, <2>4
  <2>7. ASSUME NEW i \in 1..Len(inbox'[r])
        PROVE  Moves(s, longer[i], inbox'[r][i], longer[i + 1])
    <3>1. CASE i \in 1..Len(q)
      <4>1. longer[i] = path[i] /\ longer[i + 1] = path[i + 1]
        BY <1>3, <3>1
      <4> QED BY <2>2, <2>4, <3>1, <4>1
    <3>2. CASE i = Len(q) + 1
      <4>1. longer[i] = state[s] /\ longer[i + 1] = row[3]
        BY <1>3, <2>2, <3>2
      <4> QED BY <1>1, <2>4, <3>2, <4>1 DEF Moves, CanSend, has_agency
    <3> QED BY <1>3, <2>4, <3>1, <3>2
  <2> HIDE DEF longer
  <2> QED BY <1>2, <1>4, <2>3, <2>5, <2>6, <2>7 DEF Leads
<1> QED BY <1>1, <1>2, <1>5, <1>6 DEF AgentsInv

(* A received message is the first move, which the receiver repeats.       *)
LEMMA RecvKeepsInv ==
  ASSUME AgentsInv, NEW s \in Sides, recv_message(s)
  PROVE  AgentsInv'
<1> DEFINE t == Peer(s)
<1> DEFINE q == inbox[s]
<1>1. q # <<>> /\ inbox' = [inbox EXCEPT ![s] = Tail(@)] /\ UNCHANGED protocol
  BY DEF recv_message
<1>2. t \in Sides /\ t # s /\ Peer(t) = s
  BY PeerOfPeer
<1>3. /\ protocol \in DOMAIN Protocols /\ q \in Seq(Words) /\ Len(q) \in Nat \ {0}
      /\ Head(q) = q[1] /\ state[s] \in States
  BY <1>1 DEF AgentsInv, AgentsTypeOK
<1>4. States' = States /\ Words' = Words /\ \A u, x, m, y : Moves(u, x, m, y)' = Moves(u, x, m, y)
  BY <1>1 DEF States, Words, Moves, Table, Targets
<1>5. PICK path \in [1..(Len(q) + 1) -> States] :
        /\ path[1] = state[s]
        /\ path[Len(q) + 1] = state[t]
        /\ \A i \in 1..Len(q) : Moves(t, path[i], q[i], path[i + 1])
  <2>1. PICK u \in Sides : Leads(u)
    BY DEF AgentsInv
  <2>2. u = s
    BY <1>1, <2>1, PeerOfPeer DEF Leads, Sides, Peer
  <2> QED BY <2>1, <2>2 DEF Leads
<1>6. inbox[t] = <<>>
  BY <1>1, PeerOfPeer DEF AgentsInv, Leads, Sides, Peer
<1>7. Moves(t, state[s], Head(q), path[2])
  BY <1>3, <1>5
<1>8. state' = [state EXCEPT ![s] = path[2]] /\ UNCHANGED refused
  <2>1. /\ <<state[s], Head(q)>> \in Table(s).inbound
        /\ \A r \in Table(s).recvs : r[2] = Head(q) => r[3] = path[2]
    BY <1>2, <1>3, <1>7, MoveUnderstood
  <2>2. Expected(s)
    BY <2>1 DEF Expected
  <2> QED BY <2>1, <2>2 DEF recv_message
<1>9. AgentsTypeOK'
  <2>1. path[2] \in States
    BY <1>3, <1>5
  <2>2. Tail(q) \in Seq(Words)
    BY <1>1, <1>3
  <2>3. state' \in [Sides -> States] /\ inbox' \in [Sides -> Seq(Words)]
    BY <1>1, <1>8, <2>1, <2>2 DEF AgentsInv, AgentsTypeOK
  <2> QED BY <1>1, <1>3, <1>4, <2>3 DEF AgentsTypeOK
<1>10. Leads(s)'
  <2>1. /\ inbox'[s] = Tail(q) /\ inbox'[t] = <<>>
        /\ state'[s] = path[2] /\ state'[t] = state[t]
    BY <1>1, <1>2, <1>6, <1>8 DEF AgentsInv, AgentsTypeOK
  <2>2. Len(inbox'[s]) = Len(q) - 1 /\ \A i \in 1..(Len(q) - 1) : inbox'[s][i] = q[i + 1]
    <3> HIDE DEF q
    <3>1. Len(Tail(q)) = Len(q) - 1 /\ \A i \in 1..(Len(q) - 1) : Tail(q)[i] = q[i + 1]
      BY <1>1, <1>3
    <3> QED BY <2>1, <3>1
  <2> DEFINE shorter == [i \in 1..Len(q) |-> path[i + 1]]
  <2>3. shorter \in [1..(Len(inbox'[s]) + 1) -> States]
    BY <1>3, <1>5, <2>2
  <2>4. shorter[1] = state'[s] /\ shorter[Len(inbox'[s]) + 1] = state'[t]
    BY <1>3, <1>5, <2>1, <2>2
  <2>5. ASSUME NEW i \in 1..Len(inbox'[s])
        PROVE  Moves(t, shorter[i], inbox'[s][i], shorter[i + 1])
    <3>1. /\ i + 1 \in 1..Len(q) /\ inbox'[s][i] = q[i + 1]
          /\ shorter[i] = path[i + 1] /\ shorter[i + 1] = path[(i + 1) + 1]
      <4>1. Len(q) \in Nat /\ i \in 1..(Len(q) - 1) /\ inbox'[s][i] = q[i + 1]
        BY <1>3, <2>2
      <4>2. i + 1 \in 1..Len(q) /\ i \in 1..Len(q)
        BY <4>1
      <4>3. shorter[i] = path[i + 1] /\ shorter[i + 1] = path[(i + 1) + 1]
        BY <4>2
      <4> QED BY <4>1, <4>2, <4>3
    <3> QED BY <1>5, <3>1
  <2> HIDE DEF shorter
  <2> QED BY <1>2, <1>4, <2>1, <2>3, <2>4, <2>5 DEF Leads
<1> QED BY <1>8, <1>9, <1>10 DEF AgentsInv

(* Every step of the two agents keeps the invariant.                       *)
LEMMA AgentsStep == AgentsInv /\ [Next]_vars => AgentsInv'
<1> SUFFICES ASSUME AgentsInv, [Next]_vars PROVE AgentsInv'
  OBVIOUS
<1>1. CASE UNCHANGED vars
  BY <1>1, SMTT(30) DEF vars, AgentsInv, AgentsTypeOK, Leads, Moves, States, Words, Targets, Table
<1>2. CASE Next
  BY <1>2, SendKeepsInv, RecvKeepsInv DEF Next
<1> QED BY <1>1, <1>2

-----------------------------------------------------------------------------
(* Whatever the applications call, in any order, with any number of        *)
(* messages under way, no agent of this library meets a message that its   *)
(* assert_inbound_state refuses.                                           *)
THEOREM AgentsNothingRefused == Spec => []NothingRefused
<1>1. AgentsInv => NothingRefused
  BY DEF AgentsInv, NothingRefused
<1> QED BY <1>1, AgentsInit, AgentsStep, PTL DEF Spec

(* Client and server never both have agency, messages never cross, and     *)
(* when all that was sent was received both are in the same state.         *)
THEOREM AgentsStatesAgree == Spec => []StatesAgree
<1>1. AgentsInv => StatesAgree
  <2> SUFFICES ASSUME AgentsInv PROVE StatesAgree
    OBVIOUS
  <2>1. ~(has_agency("client") /\ has_agency("server"))
    <3> SUFFICES ASSUME has_agency("client"), has_agency("server") PROVE FALSE
      OBVIOUS
    <3>1. Leads("server") /\ inbox["server"] = <<>>
      BY SpeakerLeads DEF Sides, Peer
    <3>2. state["client"] = state["server"]
      BY <3>1 DEF Leads, Peer
    <3> QED BY <3>2, SideMatches DEF AgentsInv, AgentsTypeOK, has_agency, Sides, Peer
  <2>2. inbox["client"] = <<>> \/ inbox["server"] = <<>>
    BY DEF AgentsInv, Leads, Sides, Peer
  <2>3. inbox["client"] = <<>> /\ inbox["server"] = <<>> => state["client"] = state["server"]
    BY DEF AgentsInv, Leads, Sides, Peer
  <2> QED BY <2>1, <2>2, <2>3 DEF StatesAgree
<1> QED BY <1>1, AgentsInit, AgentsStep, PTL DEF Spec

(* As long as the protocol is not over, one agent has a message to read or *)
(* an operation to call: they never wait for each other.                   *)
THEOREM AgentsNobodyStuck == Spec => []NobodyStuck
<1>1. AgentsInv => NobodyStuck
  <2> SUFFICES ASSUME AgentsInv, ~Over PROVE NobodyStuck
    BY DEF NobodyStuck
  <2>1. CASE inbox["client"] = <<>> /\ inbox["server"] = <<>>
    <3>1. state["client"] = state["server"] /\ state["client"] \in States
      BY <2>1 DEF AgentsInv, AgentsTypeOK, Leads, Sides, Peer
    <3>2. state["client"] # DoneState
      BY DEF Over, Sides
    <3>3. \E s \in Sides : MaySpeak(Table(s), state[s])
      BY <3>1, <3>2, SideMatches DEF AgentsInv, AgentsTypeOK, Sides, Peer
    <3> QED BY <3>3 DEF NobodyStuck, MaySpeak, CanSend, has_agency
  <2>2. CASE \E s \in Sides : inbox[s] # <<>>
    <3>1. PICK s \in Sides : inbox[s] # <<>>
      BY <2>2
    <3>2. ~has_agency(s)
      BY <3>1, SpeakerLeads
    <3> QED BY <3>1, <3>2 DEF NobodyStuck
  <2> QED BY <2>1, <2>2 DEF Sides
<1> QED BY <1>1, AgentsInit, AgentsStep, PTL DEF Spec
=============================================================================
