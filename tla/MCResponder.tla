---------------------------- MODULE MCResponder ----------------------------
(***************************************************************************)
(* Responder for TLC: the scenarios of its runs.                           *)
(***************************************************************************)
EXTENDS Responder

(* One client that may fail, with the handshake alone.                     *)
Base ==
  [channels |-> {"handshake"}, commands |-> {}, callers |-> {1},
   proposed |-> {{13}}, requested |-> {"Propose"}, liars |-> {}, enders |-> {}, flaky |-> {1},
   max_conns |-> 1, max_pending |-> 0]

NodeKinds == {"Propose", "KeepAlive", "RequestRange", "FindIntersect", "RequestNext"}

(* The protocols of a block-serving node, and every outcome of a handshake. *)
Service ==
  [Base EXCEPT
    !.channels = {"handshake", "keepalive", "blockfetch", "chainsync"},
    !.commands = {"DisconnectPeer"}, !.proposed = {{}, {12, 13}, {13, 14}},
    !.requested = NodeKinds, !.max_pending = 1]

(* The other protocols, and a client that ends them.                       *)
Overlay ==
  [Base EXCEPT
    !.channels = {"handshake", "keepalive", "peersharing", "leiosnotify", "leiosfetch",
                  "txsubmission"},
    !.commands = {"DisconnectPeer"}, !.proposed = {{13, 14}}, !.enders = {1},
    !.requested = {"Init", "ReplyTxIds", "Propose", "ShareRequest", "RequestNext",
                   "Quit", "BlockRequest", "BlockTxsRequest", "Done"}]

(* Three addresses of one host, each used once.                            *)
Slots ==
  [Base EXCEPT !.callers = {1, 2, 3}, !.commands = {"DisconnectPeer"}, !.liars = {2}]

(* Two addresses of one host that come back when all is settled, and the   *)
(* ban command.                                                            *)
Return ==
  [Base EXCEPT !.callers = {1, 2}, !.commands = {"BanPeer"}, !.max_conns = 2,
               !.liars = {1}, !.flaky = {1, 2}]

(* An address that comes back while its last disconnect is to be reported. *)
Hasty ==
  [Base EXCEPT !.commands = {"DisconnectPeer", "BanPeer"}, !.max_conns = 2,
               !.max_pending = 1]

(* A violator, and a peer over the limit of its host.                      *)
Intruders == [Base EXCEPT !.callers = {1, 2}, !.liars = {1}, !.max_pending = 1]

(* A client of a block-serving node that waits for its answers.            *)
Client ==
  [Base EXCEPT
    !.channels = {"handshake", "keepalive", "blockfetch", "chainsync"},
    !.proposed = {{13, 14}}, !.requested = NodeKinds]

SafetyScenarios == {Service, Overlay, Slots, Return, Hasty}
LivenessScenarios == {Intruders, Client}
=============================================================================
