--------------------------- MODULE PromotionProofs ---------------------------
(***************************************************************************)
(* Proofs about peer governance (Promotion.tla) for any finite set of      *)
(* peers and any limits of PromotionConfig.                                *)
(*                                                                         *)
(* The inductive invariant is the conjunction GovernanceInv: the counters  *)
(* need the type invariant (the sets are finite), the ban needs it too,    *)
(* and each of the others is inductive next to it.                         *)
(***************************************************************************)
EXTENDS Promotion, FiniteSetTheorems, TLAPS

GovernanceInv == GovernanceTypeOK /\ NoUnderflow /\ BannedStaysOut /\ TagImpliesSlot

-----------------------------------------------------------------------------
(* Sizes of sets of peers: HashSet::len under insert, remove and extend.   *)

(* A set of tracked peers is finite, so its len() is a natural number.     *)
LEMMA PeerSetSize ==
  ASSUME NEW S, S \subseteq Peers
  PROVE  IsFiniteSet(S) /\ Cardinality(S) \in Nat
BY PeersAssumption, FS_Subset, FS_CardinalityType

(* Inserting a peer adds at most one to the size.                          *)
LEMMA InsertSize ==
  ASSUME NEW S, S \subseteq Peers, NEW p
  PROVE  Cardinality(S \cup {p}) \in Nat /\ Cardinality(S \cup {p}) <= Cardinality(S) + 1
<1>1. IsFiniteSet(S) /\ Cardinality(S) \in Nat
  BY PeerSetSize
<1>2. Cardinality(S \cup {p}) = IF p \in S THEN Cardinality(S) ELSE Cardinality(S) + 1
  BY <1>1, FS_AddElement
<1> QED BY <1>1, <1>2

(* Removing a member takes one off the size; removing another peer         *)
(* nothing.                                                                *)
LEMMA RemoveSize ==
  ASSUME NEW S, S \subseteq Peers, NEW p
  PROVE  /\ Cardinality(S \ {p}) \in Nat
         /\ Cardinality(S \ {p}) <= Cardinality(S)
         /\ p \in S => Cardinality(S \ {p}) = Cardinality(S) - 1
<1>1. IsFiniteSet(S) /\ Cardinality(S) \in Nat
  BY PeerSetSize
<1>2. Cardinality(S \ {p}) = IF p \in S THEN Cardinality(S) - 1 ELSE Cardinality(S)
  BY <1>1, FS_RemoveElement
<1>3. Cardinality(S \ {p}) \in Nat
  BY PeerSetSize
<1> QED BY <1>1, <1>2, <1>3

(* Inserting some of the peers of T adds at most the size of T.            *)
LEMMA ExtendSize ==
  ASSUME NEW S, S \subseteq Peers, NEW T, T \subseteq Peers, NEW U, U \subseteq T
  PROVE  /\ Cardinality(S \cup U) \in Nat
         /\ Cardinality(S \cup U) <= Cardinality(S) + Cardinality(T)
<1>1. U \subseteq Peers /\ S \cap U \subseteq Peers /\ S \cup U \subseteq Peers
  OBVIOUS
<1>2. Cardinality(U) <= Cardinality(T)
  BY PeerSetSize, FS_Subset
<1>3. Cardinality(S \cup U) = Cardinality(S) + Cardinality(U) - Cardinality(S \cap U)
  BY <1>1, PeerSetSize, FS_Union
<1>4. /\ Cardinality(S) \in Nat /\ Cardinality(T) \in Nat /\ Cardinality(U) \in Nat
      /\ Cardinality(S \cap U) \in Nat /\ Cardinality(S \cup U) \in Nat
  BY <1>1, PeerSetSize
<1> QED BY <1>2, <1>3, <1>4

(* The sizes of the governance sets are natural numbers.                   *)
LEMMA SizesAreNat ==
  ASSUME GovernanceTypeOK
  PROVE  /\ Cardinality(cold_peers) \in Nat
         /\ Cardinality(warm_peers) \in Nat
         /\ Cardinality(hot_peers) \in Nat
BY PeerSetSize DEF GovernanceTypeOK

-----------------------------------------------------------------------------
(* GovernanceInit establishes every part of the invariant.                 *)
LEMMA InvInit == GovernanceInit => GovernanceInv
<1> SUFFICES ASSUME GovernanceInit PROVE GovernanceInv
  OBVIOUS
<1>1. GovernanceTypeOK
  BY DEF GovernanceInit, GovernanceTypeOK, Tags
<1>2. NoUnderflow
  BY FS_EmptySet, LimitsAssumption DEF GovernanceInit, NoUnderflow, total_peers
<1>3. BannedStaysOut
  BY DEF GovernanceInit, BannedStaysOut
<1>4. TagImpliesSlot
  BY DEF GovernanceInit, TagImpliesSlot
<1> QED BY <1>1, <1>2, <1>3, <1>4 DEF GovernanceInv

(* One visit of categorize_peer keeps the invariant, whatever the peer's   *)
(* health: a promotion moves a peer into a set that has room for it.       *)
LEMMA CategorizeKeepsInv ==
  ASSUME GovernanceInv, NEW p \in known, NEW faulty \in BOOLEAN, NEW ready \in BOOLEAN,
         categorize_peer(p, faulty, ready), UNCHANGED known
  PROVE  GovernanceInv'
<1> USE DEF GovernanceInv
<1> /\ cold_peers \subseteq Peers /\ warm_peers \subseteq Peers /\ hot_peers \subseteq Peers
    /\ p \in Peers
  BY DEF GovernanceTypeOK
<1>1. CASE MustBan(p, faulty) /\ ban_peer(p)
  <2>1. GovernanceTypeOK'
    BY <1>1 DEF ban_peer, GovernanceTypeOK, Tags
  <2>2. NoUnderflow'
    BY <1>1, RemoveSize, SizesAreNat, LimitsAssumption, SMTT(30)
    DEF ban_peer, NoUnderflow, total_peers
  <2>3. BannedStaysOut'
    BY <1>1 DEF ban_peer, BannedStaysOut, GovernanceTypeOK
  <2>4. TagImpliesSlot'
    BY <1>1 DEF ban_peer, TagImpliesSlot, GovernanceTypeOK
  <2> QED BY <2>1, <2>2, <2>3, <2>4
<1>2. CASE MustWarm(p) /\ promote_cold_peer(p)
  <2>1. GovernanceTypeOK'
    BY <1>2 DEF promote_cold_peer, GovernanceTypeOK, Tags
  <2>2. NoUnderflow'
    <3>1. /\ cold_peers' = cold_peers \ {p} /\ warm_peers' = warm_peers \cup {p}
          /\ hot_peers' = hot_peers /\ p \in cold_peers
      BY <1>2 DEF promote_cold_peer, MustWarm
    <3>2. /\ Cardinality(cold_peers') \in Nat
          /\ Cardinality(cold_peers') = Cardinality(cold_peers) - 1
      BY <3>1, RemoveSize
    <3>3. /\ Cardinality(warm_peers') \in Nat
          /\ Cardinality(warm_peers') <= Cardinality(warm_peers) + 1
      BY <3>1, InsertSize
    <3>4. Cardinality(warm_peers) < MaxWarm
      BY <1>2, SizesAreNat, LimitsAssumption DEF MustWarm, required_warm_peers
    <3> QED
      BY <3>1, <3>2, <3>3, <3>4, SizesAreNat, LimitsAssumption DEF NoUnderflow, total_peers
  <2>3. BannedStaysOut'
    BY <1>2 DEF MustWarm, promote_cold_peer, BannedStaysOut, GovernanceTypeOK
  <2>4. TagImpliesSlot'
    BY <1>2 DEF promote_cold_peer, TagImpliesSlot, GovernanceTypeOK
  <2> QED BY <2>1, <2>2, <2>3, <2>4
<1>3. CASE MustHeat(p, ready) /\ promote_warm_peer(p)
  <2>1. GovernanceTypeOK'
    BY <1>3 DEF promote_warm_peer, GovernanceTypeOK, Tags
  <2>2. NoUnderflow'
    <3>1. /\ warm_peers' = warm_peers \ {p} /\ hot_peers' = hot_peers \cup {p}
          /\ cold_peers' = cold_peers /\ p \in warm_peers
      BY <1>3 DEF promote_warm_peer, MustHeat
    <3>2. /\ Cardinality(warm_peers') \in Nat
          /\ Cardinality(warm_peers') = Cardinality(warm_peers) - 1
      BY <3>1, RemoveSize
    <3>3. /\ Cardinality(hot_peers') \in Nat
          /\ Cardinality(hot_peers') <= Cardinality(hot_peers) + 1
      BY <3>1, InsertSize
    <3>4. Cardinality(hot_peers) < MaxHot
      BY <1>3, SizesAreNat, LimitsAssumption DEF MustHeat, required_hot_peers
    <3> QED
      BY <3>1, <3>2, <3>3, <3>4, SizesAreNat, LimitsAssumption DEF NoUnderflow, total_peers
  <2>3. BannedStaysOut'
    BY <1>3 DEF MustHeat, promote_warm_peer, BannedStaysOut, GovernanceTypeOK
  <2>4. TagImpliesSlot'
    BY <1>3 DEF promote_warm_peer, TagImpliesSlot, GovernanceTypeOK
  <2> QED BY <2>1, <2>2, <2>3, <2>4
<1>4. CASE UNCHANGED <<sets, tag>>
  BY <1>4 DEF sets, GovernanceTypeOK, NoUnderflow, total_peers, BannedStaysOut, TagImpliesSlot
<1> QED BY <1>1, <1>2, <1>3, <1>4 DEF categorize_peer

(* A discovered or included peer is taken in only while there is room.     *)
LEMMA DiscoveredKeepsInv ==
  ASSUME GovernanceInv, NEW p \in Peers, on_discovered(p)
  PROVE  GovernanceInv'
<1> USE DEF GovernanceInv
<1> cold_peers \subseteq Peers
  BY DEF GovernanceTypeOK
<1>1. GovernanceTypeOK'
  BY DEF on_discovered, GovernanceTypeOK, Tags
<1>2. NoUnderflow'
  <2>1. CASE UNCHANGED <<cold_peers, warm_peers, hot_peers>>
    BY <2>1 DEF NoUnderflow, total_peers
  <2>2. CASE /\ required_cold_peers > 0 /\ cold_peers' = cold_peers \cup {p}
             /\ UNCHANGED <<warm_peers, hot_peers>>
    <3>1. /\ Cardinality(cold_peers') \in Nat
          /\ Cardinality(cold_peers') <= Cardinality(cold_peers) + 1
      BY <2>2, InsertSize
    <3> QED
      BY <2>2, <3>1, SizesAreNat, LimitsAssumption
      DEF required_cold_peers, NoUnderflow, total_peers
  <2> QED BY <2>1, <2>2 DEF on_discovered
<1>3. BannedStaysOut'
  BY DEF on_discovered, BannedStaysOut, GovernanceTypeOK
<1>4. TagImpliesSlot'
  BY DEF on_discovered, TagImpliesSlot, GovernanceTypeOK
<1> QED BY <1>1, <1>2, <1>3, <1>4

(* drain_new_peers hands over at most peer_deficit peers, so there is room *)
(* for all of them.                                                        *)
LEMMA MovedKeepsInv ==
  ASSUME GovernanceInv, NEW new \in SUBSET Peers, Cardinality(new) <= peer_deficit,
         move_discovered_into_promotion(new)
  PROVE  GovernanceInv'
<1> USE DEF GovernanceInv
<1> DEFINE fresh == (new \ known) \ banned_peers
<1> cold_peers \subseteq Peers /\ fresh \subseteq new
  BY DEF GovernanceTypeOK
<1>1. GovernanceTypeOK'
  BY DEF move_discovered_into_promotion, GovernanceTypeOK, Tags
<1>2. NoUnderflow'
  <2>1. /\ Cardinality(cold_peers \cup fresh) \in Nat
        /\ Cardinality(cold_peers \cup fresh) <= Cardinality(cold_peers) + Cardinality(new)
    BY ExtendSize
  <2>2. cold_peers' = cold_peers \cup fresh /\ UNCHANGED <<warm_peers, hot_peers>>
    BY DEF move_discovered_into_promotion
  <2>3. Cardinality(new) \in Nat
    BY PeerSetSize
  <2> QED
    BY <2>1, <2>2, <2>3, SizesAreNat, LimitsAssumption DEF peer_deficit, NoUnderflow, total_peers
<1>3. BannedStaysOut'
  BY DEF move_discovered_into_promotion, BannedStaysOut, GovernanceTypeOK
<1>4. TagImpliesSlot'
  BY DEF move_discovered_into_promotion, TagImpliesSlot, GovernanceTypeOK
<1> QED BY <1>1, <1>2, <1>3, <1>4

(* The commands and a disconnect lower a tag and touch no set.             *)
LEMMA TaggedKeepsInv ==
  ASSUME GovernanceInv, NEW p \in Peers,
         (\E t \in {"Banned", "Cold"} : set_tag(p, t)) \/ reset_tag(p)
  PROVE  GovernanceInv'
<1> USE DEF GovernanceInv
<1>0. /\ UNCHANGED <<cold_peers, warm_peers, hot_peers, banned_peers, known>>
      /\ tag' = tag \/ \E t \in {"Banned", "Cold"} : tag' = [tag EXCEPT ![p] = t]
  BY DEF set_tag, reset_tag, sets
<1>1. GovernanceTypeOK'
  BY <1>0 DEF GovernanceTypeOK, Tags
<1>2. NoUnderflow'
  BY <1>0 DEF NoUnderflow, total_peers
<1>3. BannedStaysOut'
  BY <1>0 DEF BannedStaysOut, GovernanceTypeOK
<1>4. TagImpliesSlot'
  BY <1>0 DEF TagImpliesSlot, GovernanceTypeOK
<1> QED BY <1>1, <1>2, <1>3, <1>4

(* Every governance step, and every step that changes no governance state, *)
(* keeps the invariant.                                                    *)
LEMMA InvStep == GovernanceInv /\ [GovernanceNext]_govVars => GovernanceInv'
<1> SUFFICES ASSUME GovernanceInv, [GovernanceNext]_govVars PROVE GovernanceInv'
  OBVIOUS
<1>1. CASE UNCHANGED govVars
  BY <1>1 DEF govVars, GovernanceInv, GovernanceTypeOK, NoUnderflow, total_peers,
              BannedStaysOut, TagImpliesSlot
<1>2. CASE GovernanceNext
  BY <1>2, CategorizeKeepsInv, DiscoveredKeepsInv, MovedKeepsInv, TaggedKeepsInv
  DEF GovernanceNext
<1> QED BY <1>1, <1>2

-----------------------------------------------------------------------------
(* The sets, the tracked peers and the tags keep their types: a peer of    *)
(* any set is tracked.                                                     *)
THEOREM GovernanceTypeSafe == Governance => []GovernanceTypeOK
<1>1. GovernanceInv => GovernanceTypeOK
  BY DEF GovernanceInv
<1> QED BY <1>1, InvInit, InvStep, PTL DEF Governance

(* No usize subtraction of promotion.rs underflows, for every limit and    *)
(* every order of discoveries, promotions, commands and disconnects.       *)
THEOREM GovernanceNeverUnderflows == Governance => []NoUnderflow
<1>1. GovernanceInv => NoUnderflow
  BY DEF GovernanceInv
<1> QED BY <1>1, InvInit, InvStep, PTL DEF Governance

(* A peer banned for a fault is never again in another set, and its tag    *)
(* never again asks for a connection.                                      *)
THEOREM GovernanceBansHold == Governance => []BannedStaysOut
<1>1. GovernanceInv => BannedStaysOut
  BY DEF GovernanceInv
<1> QED BY <1>1, InvInit, InvStep, PTL DEF Governance

(* A peer whose tag asks for a connection holds the slot the tag names.    *)
THEOREM GovernanceTagsHaveSlots == Governance => []TagImpliesSlot
<1>1. GovernanceInv => TagImpliesSlot
  BY DEF GovernanceInv
<1> QED BY <1>1, InvInit, InvStep, PTL DEF Governance

(* No handler takes a peer out of banned_peers.                            *)
THEOREM GovernanceBansPermanent == Governance => BansArePermanent
<1>1. [GovernanceNext]_govVars => [banned_peers \subseteq banned_peers']_govVars
  BY DEF GovernanceNext, govVars, sets, on_discovered, categorize_peer, ban_peer,
         promote_cold_peer, promote_warm_peer, move_discovered_into_promotion,
         set_tag, reset_tag
<1> QED BY <1>1, PTL DEF Governance, BansArePermanent
=============================================================================
