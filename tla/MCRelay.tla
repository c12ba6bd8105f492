------------------------------- MODULE MCRelay ------------------------------
(***************************************************************************)
(* The values tried: each differs from a default in one place, so that      *)
(* every case of every nested type is taken once.                          *)
(***************************************************************************)
EXTENDS Relay

Y == INSTANCE ByronCodecs
A == INSTANCE AlonzoCodecs
B == INSTANCE BabbageCodecs
C == INSTANCE ConwayCodecs
D == INSTANCE DijkstraCodecs

LayoutTable == <<Y!Block, Y!EbBlock, Y!AddressPayload, D!EndorserBlock, A!Tx, A!Block,
                 B!Tx, B!Block, C!Tx, C!Block, D!BlockTransaction, D!Block, D!MempoolTransaction>>
\* In the middle of the Dijkstra samples are those of the sub-transactions,
\* which repeat the fields of the transaction around them.
Ends(seq, n) == IF Len(seq) <= 2 * n THEN seq
                ELSE SubSeq(seq, 1, n) \o SubSeq(seq, Len(seq) - n, Len(seq))
SampleTable == Tupled([k \in 1..Len(LayoutTable) |->
                 Ends(Samples(LayoutTable[k]), IF k <= 11 THEN 900 ELSE 40)])

MCKinds == 1..Len(LayoutTable)
MCLayout(k) == LET table == LayoutTable IN table[k]
MCValues(k) == LET table == SampleTable IN table[k]
\* As pallas itself, and with open headers and bare sets.
MCStyles == {Own, [raw |-> FALSE, open |-> TRUE, tags |-> FALSE, own |-> FALSE]}
=============================================================================
