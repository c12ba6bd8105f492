---------------------------- MODULE MCInitiator ----------------------------
(***************************************************************************)
(* Initiator for TLC: the scenarios of its runs.                           *)
(***************************************************************************)
EXTENDS Initiator

(* One peer that may fail once, with handshake and keep-alive.             *)
Base ==
  [channels |-> {"handshake", "keepalive"}, commands |-> {"IncludePeer"},
   included |-> {"p1"}, shared |-> {},
   replies |-> {"Accept", "ResponseKeepAlive"}, versions |-> {"plain"},
   liars |-> {}, flaky |-> {"p1"}, max_conns |-> 1, max_pending |-> 1]

BlockReplies == {"StartBatch", "Block", "BatchDone", "NoBlocks"}

(* The plain protocols against each other on one connection.               *)
Agency ==
  [Base EXCEPT
    !.channels = {"handshake", "keepalive", "blockfetch", "chainsync"},
    !.commands = {"IncludePeer", "DemotePeer", "RequestBlocks", "StartSync", "ContinueSync"},
    !.replies = {"Accept", "Refuse", "ResponseKeepAlive", "StartBatch", "Block",
                 "BatchDone", "IntersectFound", "RollForward", "AwaitReply"}]

(* The Leios overlay, negotiated or not.                                   *)
Leios ==
  [Base EXCEPT
    !.channels = {"handshake", "leiosnotify", "leiosfetch"},
    !.commands = {"IncludePeer", "DemotePeer", "FetchEb"},
    !.versions = {"plain", "leios"},
    !.replies = {"Accept", "BlockOffer", "Canceled", "Block", "BlockTxs"}]

(* A peer that is lost and included again while it holds a block range.    *)
Refetch ==
  [Base EXCEPT
    !.channels = {"handshake", "blockfetch"},
    !.commands = {"IncludePeer", "IncludeAgain", "RequestBlocks"},
    !.replies = {"Accept"} \cup BlockReplies, !.max_conns = 2]

(* Discovery through a lying peer, with bans and demotions.                *)
Gossip ==
  [Base EXCEPT
    !.channels = {"handshake", "peersharing"},
    !.commands = {"IncludePeer", "IncludeAgain", "BanPeer", "DemotePeer"},
    !.shared = {{"p2", "p3"}},
    !.replies = {"Accept", "SharePeers"}, !.versions = {"sharing"},
    !.liars = {"p1"}, !.max_pending = 0]

(* A range asked of two peers, one of which may fail.                      *)
FetchFromTwo ==
  [Base EXCEPT
    !.channels = {"handshake", "blockfetch"},
    !.commands = {"IncludePeer", "RequestBlocks"}, !.included = {"p1", "p2"},
    !.replies = {"Accept", "StartBatch", "Block", "BatchDone"}, !.max_pending = 0]

(* Following a chain.                                                      *)
Follow ==
  [Base EXCEPT
    !.channels = {"handshake", "chainsync"},
    !.commands = {"IncludePeer", "StartSync", "ContinueSync"},
    !.replies = {"Accept", "IntersectFound", "RollForward", "RollBackward", "AwaitReply"}]

SafetyScenarios == {Agency, Leios, Refetch, Gossip}
LivenessScenarios == {FetchFromTwo, Follow}
TwoConnects == {[Base EXCEPT !.commands = {"IncludePeer", "IncludeAgain"}, !.max_conns = 2]}
=============================================================================
