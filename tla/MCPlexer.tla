----------------------------- MODULE MCPlexer -----------------------------
(***************************************************************************)
(* Plexer for TLC: the scenarios of its run.                               *)
(***************************************************************************)
EXTENDS Plexer

At(e, p, r) == [end |-> e, proto |-> p, role |-> r]
Pair(e, p) == {At(e, p, "client"), At(Other(e), p, "server")}

(* Both ends run a client and a server of the same protocol.               *)
Duplex == [agents |-> Pair("A", 1) \cup Pair("B", 1), packers |-> {}, sizes |-> {3},
           aborts |-> {}, drops |-> {}]

(* Two protocols in one direction; one of the servers packs its answers.   *)
Packed == [Duplex EXCEPT !.agents = Pair("A", 1) \cup Pair("A", 2),
                         !.packers = {At("B", 1, "server")}]
(* Two messages to a segment.                                              *)
PackedSmall == [Packed EXCEPT !.sizes = {1}]

(* Messages of one and of two segments, packed or not.                     *)
Mixed == [Packed EXCEPT !.agents = Pair("A", 1), !.sizes = {1, 3}]

(* A client whose protocol the other end does not know.                    *)
Orphan == [Duplex EXCEPT !.agents = Pair("A", 1) \cup {At("A", 2, "client")}]

(* Either end may be aborted, and an agent given up.                       *)
TornDown == [Duplex EXCEPT !.agents = Pair("A", 1), !.aborts = Ends,
                           !.drops = {At("A", 1, "client")}]

MCScenarios == {Duplex, Packed, PackedSmall, Mixed, Orphan, TornDown}
=============================================================================
