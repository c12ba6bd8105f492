---------------------------- MODULE NetworkCodecs ---------------------------
(***************************************************************************)
(* The layouts of the node-to-node messages of pallas-network: one codec   *)
(* per pair of Encode and Decode implementations.                          *)
(***************************************************************************)
EXTENDS Cbor

\* common.rs: a point is told from the origin by the length of its array.
Point == ByLength(<<OfLength(0, "Origin", <<>>),
                    OfLength(2, "Specific", <<U64, Blob>>)>>)

(* chainsync/codec.rs *)
Tip == Tuple(<<Point, U64>>)
HeaderBytes == Tagged(24, Blob)
\* Label 0 is Byron, with a prefix of its own; any other is a later era.
HeaderContent == Variant(<<
    Case(0, "Byron", <<Tuple(<<Exactly(<<U8, U64>>), HeaderBytes>>)>>),
    Case(1, "Shelley", <<HeaderBytes>>),
    Case(6, "Conway", <<HeaderBytes>>)>>)
BlockContent == Tagged(24, Blob)
\* Nothing is kept of the content: null is written, any item is read.
SkippedContent == [is |-> "skip"]
ChainSyncMessage(content) == Variant(<<
    Case(0, "RequestNext", <<>>),
    Case(1, "AwaitReply", <<>>),
    Case(2, "RollForward", <<content, Tip>>),
    Case(3, "RollBackward", <<Point, Tip>>),
    Case(4, "FindIntersect", <<List(Point)>>),
    Case(5, "IntersectFound", <<Point, Tip>>),
    Case(6, "IntersectNotFound", <<Tip>>),
    Case(7, "Done", <<>>)>>)

(* blockfetch/codec.rs *)
BlockFetchMessage == Variant(<<
    Case(0, "RequestRange", <<Point, Point>>),
    Case(1, "ClientDone", <<>>),
    Case(2, "StartBatch", <<>>),
    Case(3, "NoBlocks", <<>>),
    Case(4, "Block", <<Tagged(24, Blob)>>),
    Case(5, "BatchDone", <<>>)>>)

(* keepalive/codec.rs *)
KeepAliveMessage == Variant(<<
    Case(0, "KeepAlive", <<U16>>),
    Case(1, "ResponseKeepAlive", <<U16>>),
    Case(2, "Done", <<>>)>>)

(* peersharing/codec.rs: ports are 32 bits wide here, and the header of an *)
(* IPv6 address announces eight items where six follow.                    *)
PeerAddress == Variant(<<
    Case(0, "V4", <<U32, U32>>),
    CaseSized(8, 1, "V6", <<U32, U32, U32, U32, U32>>)>>)
PeerSharingMessage == Variant(<<
    Case(0, "ShareRequest", <<U8>>),
    Case(1, "SharePeers", <<OpenList(PeerAddress)>>),
    Case(2, "Done", <<>>)>>)

(* txsubmission/codec.rs *)
EraTxId == Tuple(<<U16, Blob>>)
EraTxBody == Tuple(<<U16, TaggedOnly(24, Blob)>>)
TxIdAndSize == Tuple(<<EraTxId, U32>>)
TxSubmissionMessage == Variant(<<
    Case(6, "Init", <<>>),
    Case(0, "RequestTxIds", <<Bool, U16, U16>>),
    Case(1, "ReplyTxIds", <<OpenList(TxIdAndSize)>>),
    Case(2, "RequestTxs", <<OpenList(EraTxId)>>),
    Case(3, "ReplyTxs", <<OpenList(EraTxBody)>>),
    Case(4, "Done", <<>>)>>)

(* handshake/protocol.rs, n2n.rs and n2c.rs *)
\* Peer sharing and query travel together or not at all: a value with one of
\* them, which nothing in the repository builds, would be written without it.
VersionDataN2N == ByLength(<<
    OfLength(4, "Full", <<U64, Bool, U8, Bool>>),
    OtherLength(2, "Basic", <<U64, Bool>>)>>)
VersionDataN2C == ByType(<<
    OfType(UInts, "Magic", U64),
    OfType({"array"}, "Query", Tuple(<<U64, Bool>>))>>)
VersionTable(data) == DefMap(U64, data)
RefuseReason == Variant(<<
    Case(0, "VersionMismatch", <<List(U64)>>),
    Case(1, "HandshakeDecodeError", <<U64, Text>>),
    Case(2, "Refused", <<U64, Text>>)>>)
HandshakeMessage(data) == Variant(<<
    Case(0, "Propose", <<VersionTable(data)>>),
    Case(1, "Accept", <<U64, data>>),
    Case(2, "Refuse", <<RefuseReason>>),
    Case(3, "QueryReply", <<VersionTable(data)>>)>>)
=============================================================================
