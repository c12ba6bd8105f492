---------------------------- MODULE MiniProtocols ----------------------------
(***************************************************************************)
(* The mini-protocol state machines of pallas-network2 (protocol/*.rs).    *)
(*                                                                         *)
(* A message is a record [ch, kind, arg]: its channel, its variant, and    *)
(* what the variant carries, abstracted to the value a property may tell   *)
(* apart (a block range, an endorser block, a set of shared peers).  A     *)
(* protocol state is a record [at, arg]: the variant of `State` and the    *)
(* payload it keeps.  Variants that hold an Option or a data enum are      *)
(* split: Streaming(None) / Streaming(Some), Idle(Data::New) and so on.    *)
(***************************************************************************)
EXTENDS Naturals, Sequences, FiniteSets

None == "none"                      \* a payload that is absent or abstracted

AllChannels == {"handshake", "keepalive", "peersharing", "blockfetch",
                "chainsync", "txsubmission", "leiosnotify", "leiosfetch"}

Msg(ch, kind, arg) == [ch |-> ch, kind |-> kind, arg |-> arg]

-----------------------------------------------------------------------------
(* The default state of each protocol.                                     *)

StartAt == [handshake    |-> "Propose",
            keepalive    |-> "ClientEmpty",
            peersharing  |-> "IdleEmpty",
            blockfetch   |-> "Idle",
            chainsync    |-> "IdleNew",
            txsubmission |-> "Init",
            leiosnotify  |-> "IdleNone",
            leiosfetch   |-> "IdleNone"]

Default(ch) == [at |-> StartAt[ch], arg |-> None]

-----------------------------------------------------------------------------
(* Moves of `State::apply`, as triples <<state, message, next state>>: a   *)
(* message with no triple is the error that flags a violation.             *)

From(states, kinds, next) == states \X kinds \X {next}

HandshakeMoves ==
  From({"Propose"}, {"Propose"}, "Confirm")
    \cup From({"Confirm"}, {"Accept"}, "Accepted")
    \cup From({"Confirm"}, {"Refuse"}, "Rejected")
    \cup From({"Confirm"}, {"QueryReply"}, "QueryReply")

KeepAliveMoves ==
  From({"ClientEmpty", "ClientResponse"}, {"KeepAlive"}, "Server")
    \cup From({"Server"}, {"ResponseKeepAlive"}, "ClientResponse")

PeerSharingMoves ==
  From({"IdleEmpty", "IdleResponse"}, {"ShareRequest"}, "Busy")
    \cup From({"Busy"}, {"SharePeers"}, "IdleResponse")

BlockFetchMoves ==
  From({"Idle"}, {"RequestRange"}, "Busy")
    \cup From({"Idle"}, {"ClientDone"}, "Done")
    \cup From({"Busy"}, {"NoBlocks"}, "Idle")
    \cup From({"Busy"}, {"StartBatch"}, "StreamingNone")
    \cup From({"StreamingNone", "StreamingSome"}, {"Block"}, "StreamingSome")
    \cup From({"StreamingNone", "StreamingSome"}, {"BatchDone"}, "Idle")

ChainSyncIdle == {"IdleNew", "IdleDrained", "IdleContent", "IdleRollback",
                  "IdleIntersection", "IdleNoIntersection"}

ChainSyncMoves ==
  From(ChainSyncIdle, {"FindIntersect"}, "Intersect")
    \cup From(ChainSyncIdle, {"RequestNext"}, "CanAwait")
    \cup From(ChainSyncIdle, {"Done"}, "Done")
    \cup From({"Intersect"}, {"IntersectFound"}, "IdleIntersection")
    \cup From({"Intersect"}, {"IntersectNotFound"}, "IdleNoIntersection")
    \cup From({"CanAwait", "MustReply"}, {"RollForward"}, "IdleContent")
    \cup From({"CanAwait", "MustReply"}, {"RollBackward"}, "IdleRollback")
    \cup From({"CanAwait"}, {"AwaitReply"}, "MustReply")

(* `ReplyTxIds` and `ReplyTxs` keep the state they arrive in: the machine  *)
(* in the code never returns to Idle after the first request.              *)
TxSubmissionMoves ==
  From({"Init"}, {"Init"}, "Idle")
    \cup From({"Idle"}, {"RequestTxIds"}, "TxIdsBlocking")
    \cup From({"Idle"}, {"RequestTxs"}, "TxsEmpty")
    \cup From({"TxIdsNonBlocking"}, {"ReplyTxIds"}, "TxIdsNonBlocking")
    \cup From({"TxIdsBlocking"}, {"ReplyTxIds"}, "TxIdsBlocking")
    \cup From({"TxsEmpty", "TxsReplied"}, {"ReplyTxs"}, "TxsReplied")

LeiosNotifyMoves ==
  From({"IdleNone", "IdleSome"}, {"RequestNext"}, "Busy")
    \cup From({"IdleNone", "IdleSome"}, {"Quit"}, "Quit")
    \cup From({"Busy"}, {"BlockAnnouncement", "BlockOffer", "BlockTxsOffer",
                         "Votes"}, "IdleSome")
    \cup From({"Busy"}, {"Canceled"}, "IdleNone")
    \cup From({"Quit"}, {"Done"}, "Done")

LeiosFetchMoves ==
  From({"IdleNone", "IdleSome"}, {"BlockRequest"}, "AwaitingBlock")
    \cup From({"IdleNone", "IdleSome"}, {"BlockTxsRequest"}, "AwaitingBlockTxs")
    \cup From({"IdleNone", "IdleSome"}, {"Done"}, "Done")
    \cup From({"AwaitingBlock"}, {"Block"}, "IdleSome")
    \cup From({"AwaitingBlockTxs"}, {"BlockTxs"}, "IdleSome")

Moves == [handshake    |-> HandshakeMoves,
          keepalive    |-> KeepAliveMoves,
          peersharing  |-> PeerSharingMoves,
          blockfetch   |-> BlockFetchMoves,
          chainsync    |-> ChainSyncMoves,
          txsubmission |-> TxSubmissionMoves,
          leiosnotify  |-> LeiosNotifyMoves,
          leiosfetch   |-> LeiosFetchMoves]

-----------------------------------------------------------------------------
(* `state.apply(msg)`: whether it is Ok, and the state it returns.  The    *)
(* answer of leios-fetch is paired with the request it answers, so those   *)
(* states keep the argument of the request.                                *)

CanApply(s, m) == \E t \in Moves[m.ch] : t[1] = s.at /\ t[2] = m.kind

Apply(s, m) ==
  LET t == CHOOSE u \in Moves[m.ch] : u[1] = s.at /\ u[2] = m.kind
  IN  [at  |-> t[3],
       arg |-> IF m.ch = "leiosfetch" /\ m.kind \in {"Block", "BlockTxs"}
                 THEN s.arg ELSE m.arg]

(* `is_request` (behavior/unsent.rs): the messages that are held as unsent *)
(* until their Sent event is applied.                                      *)
Requests ==
  {<<"keepalive", "KeepAlive">>, <<"peersharing", "ShareRequest">>,
   <<"blockfetch", "RequestRange">>, <<"chainsync", "RequestNext">>,
   <<"chainsync", "FindIntersect">>, <<"leiosnotify", "RequestNext">>,
   <<"leiosfetch", "BlockRequest">>, <<"leiosfetch", "BlockTxsRequest">>,
   <<"txsubmission", "RequestTxIds">>}

IsRequest(m) == <<m.ch, m.kind>> \in Requests

(* The messages a well-behaved responder may send in a given state of a    *)
(* protocol: those the state machine accepts from the side that does not   *)
(* make requests.                                                          *)
ServerKinds ==
  [handshake    |-> {"Accept", "Refuse", "QueryReply"},
   keepalive    |-> {"ResponseKeepAlive"},
   peersharing  |-> {"SharePeers"},
   blockfetch   |-> {"NoBlocks", "StartBatch", "Block", "BatchDone"},
   chainsync    |-> {"IntersectFound", "IntersectNotFound", "RollForward",
                     "RollBackward", "AwaitReply"},
   txsubmission |-> {"RequestTxIds", "RequestTxs"},
   leiosnotify  |-> {"BlockAnnouncement", "BlockOffer", "BlockTxsOffer",
                     "Votes", "Canceled", "Done"},
   leiosfetch   |-> {"Block", "BlockTxs"}]

=============================================================================
