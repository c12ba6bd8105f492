---------------------------- MODULE AgentTables ----------------------------
(***************************************************************************)
(* The mini-protocol agents of pallas-network (miniprotocols/*/client.rs   *)
(* and server.rs), one record for each, read off the two sides of every    *)
(* protocol separately:                                                    *)
(*   agency    the states in which has_agency is true;                     *)
(*   outbound  what assert_outbound_state allows, <<state, message>>;      *)
(*   inbound   what assert_inbound_state allows;                           *)
(* which are its rules, and its operations                                 *)
(*   sends     <<operation, message, state assigned after it was sent>>;   *)
(*   recvs     <<operation, message, state assigned on its arrival>>.      *)
(* Operations that only call others in turn (request_range, handshake,     *)
(* keepalive_roundtrip, acquire, query_*...) have no row of their own.     *)
(***************************************************************************)
EXTENDS Naturals

CONSTANT Cookies                \* keep-alive cookies, u16 in the code

ASSUME CookiesAssumption == Cookies # {}

In(state, messages) == {state} \X messages
Recv(op, messages, to) == {op} \X messages \X {to}
Agent(rules, sends, recvs) ==
  [start |-> rules.start, agency |-> rules.agency, outbound |-> rules.outbound,
   inbound |-> rules.inbound, sends |-> sends, recvs |-> recvs]

-----------------------------------------------------------------------------
HandshakeClientRules ==
  [start |-> "Propose", agency |-> {"Propose"},
   outbound |-> In("Propose", {"Propose"}),
   inbound |-> In("Confirm", {"Accept", "Refuse", "QueryReply"})]
HandshakeClient == Agent(HandshakeClientRules,
    {<<"send_propose", "Propose", "Confirm">>},
    Recv("recv_while_confirm", {"Accept", "Refuse"}, "Done")
    \cup Recv("recv_while_confirm", {"QueryReply"}, "Confirm"))

HandshakeServerRules ==
  [start |-> "Propose", agency |-> {"Confirm"},
   outbound |-> In("Confirm", {"Accept", "Refuse"}),
   inbound |-> In("Propose", {"Propose"})]
HandshakeServer == Agent(HandshakeServerRules,
    {<<"accept_version", "Accept", "Done">>, <<"refuse", "Refuse", "Done">>},
    Recv("receive_proposed_versions", {"Propose"}, "Confirm"))

-----------------------------------------------------------------------------
(* What may follow AwaitReply.                                             *)
ForwardOnly == {"RollForward"}                           \* seeded fault
Awaited == {"RollForward", "RollBackward"}

ChainSyncClientRules ==
  [start |-> "Idle", agency |-> {"Idle"},
   outbound |-> In("Idle", {"RequestNext", "FindIntersect", "Done"}),
   inbound |-> In("CanAwait", {"RollForward", "RollBackward", "AwaitReply"})
               \cup In("MustReply", Awaited)
               \cup In("Intersect", {"IntersectFound", "IntersectNotFound"})]
ChainSyncClient == Agent(ChainSyncClientRules,
    {<<"send_find_intersect", "FindIntersect", "Intersect">>,
     <<"send_request_next", "RequestNext", "CanAwait">>,
     <<"send_done", "Done", "Done">>},
    Recv("recv_intersect_response", {"IntersectFound", "IntersectNotFound"}, "Idle")
    \cup Recv("recv_while_can_await", {"AwaitReply"}, "MustReply")
    \cup Recv("recv_while_can_await", {"RollForward", "RollBackward"}, "Idle")
    \cup Recv("recv_while_must_reply", {"RollForward", "RollBackward"}, "Idle"))

(* Where send_await_reply leads the server.                                *)
AwaitNotNoted == "CanAwait"                              \* seeded fault
AfterAwaitReply == "MustReply"

ChainSyncServerRules ==
  [start |-> "Idle", agency |-> {"CanAwait", "MustReply", "Intersect"},
   outbound |-> In("CanAwait", {"RollForward", "RollBackward", "AwaitReply"})
                \cup In("MustReply", {"RollForward", "RollBackward"})
                \cup In("Intersect", {"IntersectFound", "IntersectNotFound"}),
   inbound |-> In("Idle", {"RequestNext", "FindIntersect", "Done"})]
ChainSyncServer == Agent(ChainSyncServerRules,
    {<<"send_intersect_not_found", "IntersectNotFound", "Idle">>,
     <<"send_intersect_found", "IntersectFound", "Idle">>,
     <<"send_roll_forward", "RollForward", "Idle">>,
     <<"send_roll_backward", "RollBackward", "Idle">>,
     <<"send_await_reply", "AwaitReply", AfterAwaitReply>>},
    Recv("recv_while_idle", {"FindIntersect"}, "Intersect")
    \cup Recv("recv_while_idle", {"RequestNext"}, "CanAwait")
    \cup Recv("recv_while_idle", {"Done"}, "Done"))

-----------------------------------------------------------------------------
BlockFetchClientRules ==
  [start |-> "Idle", agency |-> {"Idle"},
   outbound |-> In("Idle", {"RequestRange", "ClientDone"}),
   inbound |-> In("Busy", {"StartBatch", "NoBlocks"})
               \cup In("Streaming", {"Block", "BatchDone"})]
BlockFetchClient == Agent(BlockFetchClientRules,
    {<<"send_request_range", "RequestRange", "Busy">>,
     <<"send_done", "ClientDone", "Done">>},
    Recv("recv_while_busy", {"StartBatch"}, "Streaming")
    \cup Recv("recv_while_busy", {"NoBlocks"}, "Idle")
    \cup Recv("recv_while_streaming", {"Block"}, "Streaming")
    \cup Recv("recv_while_streaming", {"BatchDone"}, "Idle"))

(* Where send_batch_done leads the server.                                 *)
AfterBatchDone == "Idle"

BlockFetchServerRules ==
  [start |-> "Idle", agency |-> {"Busy", "Streaming"},
   outbound |-> In("Busy", {"NoBlocks", "StartBatch"})
                \cup In("Streaming", {"Block", "BatchDone"}),
   inbound |-> In("Idle", {"RequestRange", "ClientDone"})]
BlockFetchServer == Agent(BlockFetchServerRules,
    {<<"send_start_batch", "StartBatch", "Streaming">>,
     <<"send_no_blocks", "NoBlocks", "Idle">>,
     <<"send_block", "Block", "Streaming">>,
     <<"send_batch_done", "BatchDone", AfterBatchDone>>},
    Recv("recv_while_idle", {"RequestRange"}, "Busy")
    \cup Recv("recv_while_idle", {"ClientDone"}, "Done"))

-----------------------------------------------------------------------------
TxSubmissionClientRules ==
  [start |-> "Init", agency |-> {"Init", "TxIdsBlocking", "TxIdsNonBlocking", "Txs", "Done"},
   outbound |-> In("Init", {"Init"}) \cup In("TxIdsBlocking", {"ReplyTxIds", "Done"})
                \cup In("TxIdsNonBlocking", {"ReplyTxIds"}) \cup In("Txs", {"ReplyTxs"}),
   inbound |-> In("Idle", {"RequestTxIdsBlocking", "RequestTxIdsNonBlocking", "RequestTxs"})]
TxSubmissionClient == Agent(TxSubmissionClientRules,
    {<<"send_init", "Init", "Idle">>, <<"reply_tx_ids", "ReplyTxIds", "Idle">>,
     <<"reply_txs", "ReplyTxs", "Idle">>, <<"send_done", "Done", "Done">>},
    Recv("next_request", {"RequestTxIdsBlocking"}, "TxIdsBlocking")
    \cup Recv("next_request", {"RequestTxIdsNonBlocking"}, "TxIdsNonBlocking")
    \cup Recv("next_request", {"RequestTxs"}, "Txs"))

TxSubmissionServerRules ==
  [start |-> "Init", agency |-> {"Idle"},
   outbound |-> In("Idle", {"RequestTxIdsBlocking", "RequestTxIdsNonBlocking", "RequestTxs"}),
   inbound |-> In("Init", {"Init"}) \cup In("TxIdsBlocking", {"ReplyTxIds", "Done"})
               \cup In("TxIdsNonBlocking", {"ReplyTxIds"}) \cup In("Txs", {"ReplyTxs"})]
TxSubmissionServer == Agent(TxSubmissionServerRules,
    {<<"acknowledge_and_request_tx_ids", "RequestTxIdsBlocking", "TxIdsBlocking">>,
     <<"acknowledge_and_request_tx_ids", "RequestTxIdsNonBlocking", "TxIdsNonBlocking">>,
     <<"request_txs", "RequestTxs", "Txs">>},
    Recv("wait_for_init", {"Init"}, "Idle")
    \cup Recv("receive_next_reply", {"ReplyTxIds", "ReplyTxs"}, "Idle")
    \cup Recv("receive_next_reply", {"Done"}, "Done"))

-----------------------------------------------------------------------------
(* A keep-alive state or message that carries a cookie is a pair.  That    *)
(* the client refuses another cookie than its own, with an error of its    *)
(* own (KeepAliveCookieMismatch), is part of its inbound table.            *)
Held(c) == <<"Server", c>>
Plain(word) == <<word, 0>>

KeepAliveClientRules ==
  [start |-> Plain("Client"), agency |-> {Plain("Client")},
   outbound |-> In(Plain("Client"), {<<"KeepAlive", c>> : c \in Cookies} \cup {Plain("Done")}),
   inbound |-> {<<Held(c), <<"ResponseKeepAlive", c>>>> : c \in Cookies}]
KeepAliveClient == Agent(KeepAliveClientRules,
    {<<"send_keepalive_request", <<"KeepAlive", c>>, Held(c)>> : c \in Cookies},
    {<<"recv_keepalive_response", <<"ResponseKeepAlive", c>>, Plain("Client")>> : c \in Cookies})

KeepAliveServerRules ==
  [start |-> Plain("Client"), agency |-> {Held(c) : c \in Cookies},
   outbound |-> {<<Held(c), <<"ResponseKeepAlive", c>>>> : c \in Cookies},
   inbound |-> In(Plain("Client"), {<<"KeepAlive", c>> : c \in Cookies} \cup {Plain("Done")})]
KeepAliveServer == Agent(KeepAliveServerRules,
    {<<"send_keepalive_response", <<"ResponseKeepAlive", c>>, Plain("Client")>> : c \in Cookies},
    {<<"recv_keepalive_request", <<"KeepAlive", c>>, Held(c)>> : c \in Cookies}
    \cup Recv("recv_keepalive_request", {Plain("Done")}, Plain("Done")))

-----------------------------------------------------------------------------
PeerSharingClientRules ==
  [start |-> "Idle", agency |-> {"Idle"},
   outbound |-> In("Idle", {"ShareRequest", "Done"}),
   inbound |-> In("Busy", {"SharePeers"})]
PeerSharingClient == Agent(PeerSharingClientRules,
    {<<"send_share_request", "ShareRequest", "Busy">>, <<"send_done", "Done", "Done">>},
    Recv("recv_peer_addresses", {"SharePeers"}, "Idle"))

PeerSharingServerRules ==
  [start |-> "Idle", agency |-> {"Busy"},
   outbound |-> In("Busy", {"SharePeers"}),
   inbound |-> In("Idle", {"ShareRequest", "Done"})]
PeerSharingServer == Agent(PeerSharingServerRules,
    {<<"send_peer_addresses", "SharePeers", "Idle">>},
    Recv("recv_share_request", {"ShareRequest"}, "Busy")
    \cup Recv("recv_share_request", {"Done"}, "Done"))

-----------------------------------------------------------------------------
IdleOnly == {"Idle"}                                     \* seeded fault
LocalStateAgency == {"Idle", "Acquired"}

LocalStateClientRules ==
  [start |-> "Idle", agency |-> LocalStateAgency,
   outbound |-> In("Idle", {"Acquire", "Done"})
                \cup In("Acquired", {"Query", "ReAcquire", "Release"}),
   inbound |-> In("Acquiring", {"Acquired", "Failure"}) \cup In("Querying", {"Result"})]
LocalStateClient == Agent(LocalStateClientRules,
    {<<"send_acquire", "Acquire", "Acquiring">>,
     <<"send_reacquire", "ReAcquire", "Acquiring">>,
     <<"send_release", "Release", "Idle">>, <<"send_done", "Done", "Done">>,
     <<"send_query", "Query", "Querying">>},
    Recv("recv_while_acquiring", {"Acquired"}, "Acquired")
    \cup Recv("recv_while_acquiring", {"Failure"}, "Idle")
    \cup Recv("recv_while_querying", {"Result"}, "Acquired"))

LocalStateServerRules ==
  [start |-> "Idle", agency |-> {"Acquiring", "Querying"},
   outbound |-> In("Acquiring", {"Acquired", "Failure"}) \cup In("Querying", {"Result"}),
   inbound |-> In("Idle", {"Acquire", "Done"})
               \cup In("Acquired", {"Query", "ReAcquire", "Release"})]
LocalStateServer == Agent(LocalStateServerRules,
    {<<"send_failure", "Failure", "Idle">>, <<"send_acquired", "Acquired", "Acquired">>,
     <<"send_result", "Result", "Acquired">>},
    Recv("recv_while_idle", {"Acquire"}, "Acquiring")
    \cup Recv("recv_while_idle", {"Done"}, "Done")
    \cup Recv("recv_while_acquired", {"ReAcquire"}, "Acquiring")
    \cup Recv("recv_while_acquired", {"Query"}, "Querying")
    \cup Recv("recv_while_acquired", {"Release"}, "Idle"))

-----------------------------------------------------------------------------
(* Also localmsgsubmission, which instantiates the same generic agents.    *)
LocalTxSubmissionClientRules ==
  [start |-> "Idle", agency |-> {"Idle"},
   outbound |-> In("Idle", {"SubmitTx", "Done"}),
   inbound |-> In("Busy", {"AcceptTx", "RejectTx"})]
LocalTxSubmissionClient == Agent(LocalTxSubmissionClientRules,
    {<<"send_submit_tx", "SubmitTx", "Busy">>,
     <<"terminate_gracefully", "Done", "Done">>},
    Recv("recv_submit_tx_response", {"AcceptTx", "RejectTx"}, "Idle"))

LocalTxSubmissionServerRules ==
  [start |-> "Idle", agency |-> {"Busy", "Done"},
   outbound |-> In("Busy", {"AcceptTx", "RejectTx"}),
   inbound |-> In("Idle", {"SubmitTx", "Done"})]
LocalTxSubmissionServer == Agent(LocalTxSubmissionServerRules,
    {"send_submit_tx_response"} \X {"AcceptTx", "RejectTx"} \X {"Idle"},
    Recv("recv_next_request", {"SubmitTx"}, "Busy")
    \cup Recv("recv_next_request", {"Done"}, "Done"))

-----------------------------------------------------------------------------
LocalMsgNotificationClientRules ==
  [start |-> "Idle", agency |-> {"Idle"},
   outbound |-> In("Idle", {"RequestMessagesNonBlocking", "RequestMessagesBlocking", "ClientDone"}),
   inbound |-> In("BusyNonBlocking", {"ReplyMessagesNonBlocking"})
               \cup In("BusyBlocking", {"ReplyMessagesBlocking"})]
LocalMsgNotificationClient == Agent(LocalMsgNotificationClientRules,
    {<<"send_request_messages_non_blocking", "RequestMessagesNonBlocking", "BusyNonBlocking">>,
     <<"send_request_messages_blocking", "RequestMessagesBlocking", "BusyBlocking">>,
     <<"send_done", "ClientDone", "Done">>},
    Recv("recv_next_reply", {"ReplyMessagesNonBlocking", "ReplyMessagesBlocking"}, "Idle"))

LocalMsgNotificationServerRules ==
  [start |-> "Idle", agency |-> {"BusyNonBlocking", "BusyBlocking", "Done"},
   outbound |-> In("BusyNonBlocking", {"ReplyMessagesNonBlocking"})
                \cup In("BusyBlocking", {"ReplyMessagesBlocking"}),
   inbound |-> In("Idle", {"RequestMessagesNonBlocking", "RequestMessagesBlocking", "ClientDone"})]
LocalMsgNotificationServer == Agent(LocalMsgNotificationServerRules,
    {<<"send_reply_messages_non_blocking", "ReplyMessagesNonBlocking", "Idle">>,
     <<"send_reply_messages_blocking", "ReplyMessagesBlocking", "Idle">>},
    Recv("recv_next_request", {"RequestMessagesNonBlocking"}, "BusyNonBlocking")
    \cup Recv("recv_next_request", {"RequestMessagesBlocking"}, "BusyBlocking")
    \cup Recv("recv_done", {"ClientDone"}, "Done"))

-----------------------------------------------------------------------------
TxMonitorClientRules ==
  [start |-> "Idle", agency |-> {"Idle", "Acquired"},
   outbound |-> In("Idle", {"Acquire", "Done"})
                \cup In("Acquired", {"Acquire", "RequestHasTx", "RequestNextTx",
                                     "RequestSizeAndCapacity"}),
   inbound |-> In("Acquiring", {"Acquired"})
               \cup In("Busy", {"ResponseHasTx", "ResponseNextTx", "ResponseSizeAndCapacity"})]
TxMonitorClient == Agent(TxMonitorClientRules,
    {<<"send_acquire", "Acquire", "Acquiring">>,
     <<"send_request_has_tx", "RequestHasTx", "Busy">>,
     <<"send_request_next_tx", "RequestNextTx", "Busy">>,
     <<"send_request_size_and_capacity", "RequestSizeAndCapacity", "Busy">>,
     <<"release", "Release", "Idle">>},
    Recv("recv_while_acquiring", {"Acquired"}, "Acquired")
    \cup Recv("recv_while_requesting_has_tx", {"ResponseHasTx"}, "Acquired")
    \cup Recv("recv_while_requesting_next_tx", {"ResponseNextTx"}, "Acquired")
    \cup Recv("recv_while_requesting_size_and_capacity",
              {"ResponseSizeAndCapacity"}, "Acquired"))

(* External: the node's side, which the repository does not have.          *)
TxMonitorServerRules ==
  [start |-> "Idle", agency |-> {"Acquiring", "Busy"},
   outbound |-> TxMonitorClient.inbound,
   inbound |-> TxMonitorClient.outbound \cup In("Acquired", {"Release"})]
TxMonitorServer == Agent(TxMonitorServerRules,
    {<<"acquired", "Acquired", "Acquired">>}
    \cup ({"respond"} \X {"ResponseHasTx", "ResponseNextTx", "ResponseSizeAndCapacity"}
             \X {"Acquired"}),
    Recv("request", {"Acquire"}, "Acquiring")
    \cup Recv("request", {"RequestHasTx", "RequestNextTx", "RequestSizeAndCapacity"}, "Busy")
    \cup Recv("request", {"Release"}, "Idle") \cup Recv("request", {"Done"}, "Done"))

=============================================================================
