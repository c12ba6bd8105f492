------------------------------ MODULE Promotion ------------------------------
(***************************************************************************)
(* Peer governance of the initiator: behavior/initiator/promotion.rs.      *)
(*                                                                         *)
(* The code keeps the promotion level of a peer twice: as membership of    *)
(* one of four HashSets of PromotionBehavior, and as the tag in the        *)
(* peer's own InitiatorState.  The sets decide promotion, the tag decides  *)
(* connecting and disconnecting, and different handlers write them.        *)
(*                                                                         *)
(* This module is the governance seen alone: whether a peer is faulty      *)
(* (a violation, or too many errors) or ready (handshake done) is decided  *)
(* by the environment.  Module Initiator takes the same actions with both  *)
(* conditions computed from the peer's state, and implements this module.  *)
(***************************************************************************)
EXTENDS Naturals, FiniteSets

CONSTANTS
  Peers,            \* every peer id that can be met
  MaxPeers,         \* PromotionConfig.max_peers
  MaxWarm,          \* PromotionConfig.max_warm_peers
  MaxHot            \* PromotionConfig.max_hot_peers

ASSUME PeersAssumption == IsFiniteSet(Peers)
ASSUME LimitsAssumption == MaxPeers \in Nat /\ MaxWarm \in Nat /\ MaxHot \in Nat

VARIABLES
  cold_peers, warm_peers, hot_peers, banned_peers,   \* PromotionBehavior
  known,            \* the keys of InitiatorBehavior.peers
  tag               \* InitiatorState.promotion of each peer

sets == <<cold_peers, warm_peers, hot_peers, banned_peers>>
govVars == <<cold_peers, warm_peers, hot_peers, banned_peers, known, tag>>

Tags == {"Cold", "Warm", "Hot", "Banned"}

GovernanceInit ==
  /\ cold_peers = {} /\ warm_peers = {} /\ hot_peers = {} /\ banned_peers = {}
  /\ known = {}
  /\ tag = [p \in Peers |-> "Cold"]

-----------------------------------------------------------------------------
(* The counters.  In the code each is a usize subtraction: it must not     *)
(* underflow.                                                              *)

total_peers ==
  Cardinality(cold_peers) + Cardinality(warm_peers) + Cardinality(hot_peers)

required_cold_peers == MaxPeers - total_peers
required_warm_peers == MaxWarm - Cardinality(warm_peers)
required_hot_peers  == MaxHot - Cardinality(hot_peers)
peer_deficit        == MaxPeers - total_peers

-----------------------------------------------------------------------------
promote_warm_peer(p) ==
  /\ warm_peers' = warm_peers \ {p}
  /\ hot_peers' = hot_peers \cup {p}
  /\ tag' = [tag EXCEPT ![p] = "Hot"]
  /\ UNCHANGED <<cold_peers, banned_peers>>

PromotedButNotWarm(p) ==                                 \* seeded fault
  /\ cold_peers' = cold_peers \ {p}
  /\ tag' = [tag EXCEPT ![p] = "Warm"]
  /\ UNCHANGED <<warm_peers, hot_peers, banned_peers>>

promote_cold_peer(p) ==
  /\ cold_peers' = cold_peers \ {p}
  /\ warm_peers' = warm_peers \cup {p}
  /\ tag' = [tag EXCEPT ![p] = "Warm"]
  /\ UNCHANGED <<hot_peers, banned_peers>>

ban_peer(p) ==
  /\ hot_peers' = hot_peers \ {p}
  /\ warm_peers' = warm_peers \ {p}
  /\ cold_peers' = cold_peers \ {p}
  /\ banned_peers' = banned_peers \cup {p}
  /\ tag' = [tag EXCEPT ![p] = "Banned"]

(* The branches of categorize_peer, in the order the code tries them.      *)
MustBan(p, faulty) == faulty /\ p \notin banned_peers
MustWarm(p) == required_warm_peers > 0 /\ p \in cold_peers
MustHeat(p, ready) == required_hot_peers > 0 /\ p \in warm_peers /\ ready

(* The tag categorize_peer leaves on p, read by the visitors that follow.  *)
TagAfter(p, faulty, ready) ==
  CASE MustBan(p, faulty) -> "Banned"
    [] ~MustBan(p, faulty) /\ MustWarm(p) -> "Warm"
    [] ~MustBan(p, faulty) /\ ~MustWarm(p) /\ MustHeat(p, ready) -> "Hot"
    [] OTHER -> tag[p]

categorize_peer(p, faulty, ready) ==
  \/ MustBan(p, faulty) /\ ban_peer(p)
  \/ ~MustBan(p, faulty) /\ MustWarm(p) /\ promote_cold_peer(p)
  \/ /\ ~MustBan(p, faulty) /\ ~MustWarm(p) /\ MustHeat(p, ready)
     /\ promote_warm_peer(p)
  \/ /\ ~MustBan(p, faulty) /\ ~MustWarm(p) /\ ~MustHeat(p, ready)
     /\ UNCHANGED <<sets, tag>>

(* Seeded faults: the room is not checked; the ban is not checked; the ban *)
(* is lifted.                                                              *)
DiscoveredWithoutRoom(p) ==
  /\ known' = known \cup {p}
  /\ tag' = [tag EXCEPT ![p] = "Cold"]
  /\ cold_peers' = IF p \notin banned_peers THEN cold_peers \cup {p} ELSE cold_peers
  /\ UNCHANGED <<warm_peers, hot_peers, banned_peers>>

DiscoveredThoughBanned(p) ==
  /\ known' = known \cup {p}
  /\ tag' = [tag EXCEPT ![p] = "Cold"]
  /\ cold_peers' = IF required_cold_peers > 0 THEN cold_peers \cup {p} ELSE cold_peers
  /\ UNCHANGED <<warm_peers, hot_peers, banned_peers>>

DiscoveredLiftsBan(p) ==
  /\ known' = known \cup {p}
  /\ tag' = [tag EXCEPT ![p] = "Cold"]
  /\ cold_peers' = IF required_cold_peers > 0 THEN cold_peers \cup {p} ELSE cold_peers
  /\ banned_peers' = banned_peers \ {p}
  /\ UNCHANGED <<warm_peers, hot_peers>>

(* on_peer_discovered under on_discovered: the entry of p is created or    *)
(* replaced by a fresh state, and p becomes cold if it is not banned and   *)
(* there is room for one more peer.                                        *)
on_discovered(p) ==
  /\ known' = known \cup {p}
  /\ tag' = [tag EXCEPT ![p] = "Cold"]
  /\ cold_peers' = IF p \notin banned_peers /\ required_cold_peers > 0
                     THEN cold_peers \cup {p} ELSE cold_peers
  /\ UNCHANGED <<warm_peers, hot_peers, banned_peers>>

(* move_discovered_into_promotion with the drained set `new`: on_discovered *)
(* for each pid that is not tracked yet.  At most peer_deficit peers are   *)
(* drained, so there is room for every one of them in whatever order the   *)
(* set is walked.                                                          *)
move_discovered_into_promotion(new) ==
  /\ known' = known \cup new
  /\ tag' = [p \in Peers |-> IF p \in new \ known THEN "Cold" ELSE tag[p]]
  /\ cold_peers' = cold_peers \cup ((new \ known) \ banned_peers)
  /\ UNCHANGED <<warm_peers, hot_peers, banned_peers>>

(* on_tagged with the BanPeer and DemotePeer commands: only the tag moves. *)
set_tag(p, t) ==
  /\ tag' = IF p \in known THEN [tag EXCEPT ![p] = t] ELSE tag
  /\ UNCHANGED <<sets, known>>

(* InitiatorState::reset, run by on_disconnected: the tag returns to Cold  *)
(* and no set of PromotionBehavior is told.                                *)
reset_tag(p) ==
  /\ tag' = IF p \in known THEN [tag EXCEPT ![p] = "Cold"] ELSE tag
  /\ UNCHANGED <<sets, known>>

-----------------------------------------------------------------------------
GovernanceNext ==
  \/ \E p \in Peers : on_discovered(p)
  \/ \E p \in known, faulty, ready \in BOOLEAN :
        categorize_peer(p, faulty, ready) /\ UNCHANGED known
  \/ \E new \in SUBSET Peers :
        Cardinality(new) <= peer_deficit /\ move_discovered_into_promotion(new)
  \/ \E p \in Peers, t \in {"Banned", "Cold"} : set_tag(p, t)
  \/ \E p \in Peers : reset_tag(p)

Governance == GovernanceInit /\ [][GovernanceNext]_govVars

-----------------------------------------------------------------------------
(* Type invariant of the sets and tags of PromotionBehavior.               *)
GovernanceTypeOK ==
  /\ known \subseteq Peers
  /\ cold_peers \subseteq known
  /\ warm_peers \subseteq known
  /\ hot_peers \subseteq known
  /\ banned_peers \subseteq known
  /\ tag \in [Peers -> Tags]

(* The usize subtractions of peer_deficit, required_cold_peers,            *)
(* required_warm_peers and required_hot_peers never underflow: the limits  *)
(* of PromotionConfig hold through every order of discoveries, promotions, *)
(* disconnects and repeated includes of a peer that still occupies a set.  *)
NoUnderflow ==
  /\ total_peers <= MaxPeers
  /\ Cardinality(warm_peers) <= MaxWarm
  /\ Cardinality(hot_peers) <= MaxHot

(* A peer banned for a fault is in no other set, and its tag never again   *)
(* asks for a connection (needs_connection wants Warm or Hot), whatever    *)
(* disconnects, re-includes, re-discoveries and commands follow.           *)
BannedStaysOut ==
  \A p \in banned_peers :
    /\ p \notin cold_peers \cup warm_peers \cup hot_peers
    /\ tag[p] \in {"Banned", "Cold"}

(* A peer whose tag asks for a connection holds the slot the tag names:    *)
(* the limits on the sets are also limits on the connections the tags      *)
(* cause.                                                                  *)
TagImpliesSlot ==
  \A p \in Peers :
    /\ tag[p] = "Warm" => p \in warm_peers
    /\ tag[p] = "Hot" => p \in hot_peers

(* A ban is for ever: no handler takes a peer out of banned_peers.         *)
BansArePermanent == [][banned_peers \subseteq banned_peers']_govVars
=============================================================================
