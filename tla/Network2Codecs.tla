--------------------------- MODULE Network2Codecs ---------------------------
(***************************************************************************)
(* The layouts of the messages of pallas-network2, which has codecs of its *)
(* own for the node-to-node protocols and adds the two of Leios.           *)
(***************************************************************************)
EXTENDS Cbor

(* common.rs *)
Point == ByLength(<<OfLength(0, "Origin", <<>>),
                    OfLength(2, "Specific", <<U64, Blob>>)>>)
EbId == Point

(* chainsync.rs *)
Tip == Tuple(<<Point, U64>>)
\* The tag is written as CBOR's and read without a check.
HeaderContent ==
    LET cbor == Tagged(24, Blob)
    IN  Variant(<<
          Case(0, "Byron", <<Tuple(<<Exactly(<<U8, U64>>), cbor>>)>>),
          Case(1, "Shelley", <<cbor>>),
          Case(6, "Conway", <<cbor>>)>>)
BlockContent == Tagged(24, Blob)
SkippedContent == [is |-> "skip"]
ChainSyncMessage(content) == Variant(<<
    Case(0, "RequestNext", <<>>),
    Case(1, "AwaitReply", <<>>),
    Case(2, "RollForward", <<content, Tip>>),
    Case(3, "RollBackward", <<Point, Tip>>),
    Case(4, "FindIntersect", <<List(Point)>>),
    Case(5, "IntersectFound", <<Point, Tip>>),
    Case(6, "IntersectNotFound", <<Tip>>),
    Case(7, "Done", <<>>)>>)

(* blockfetch.rs *)
BlockFetchMessage == Variant(<<
    Case(0, "RequestRange", <<Point, Point>>),
    Case(1, "ClientDone", <<>>),
    Case(2, "StartBatch", <<>>),
    Case(3, "NoBlocks", <<>>),
    Case(4, "Block", <<Tagged(24, Blob)>>),
    Case(5, "BatchDone", <<>>)>>)

(* keepalive.rs *)
KeepAliveMessage == Variant(<<
    Case(0, "KeepAlive", <<U16>>),
    Case(1, "ResponseKeepAlive", <<U16>>),
    Case(2, "Done", <<>>)>>)

(* peersharing.rs: ports of 16 bits; the IPv6 header is eight here too. *)
PeerAddress == Variant(<<
    Case(0, "V4", <<U32, U16>>),
    CaseSized(8, 1, "V6", <<U32, U32, U32, U32, U16>>)>>)
PeerSharingMessage == Variant(<<
    Case(0, "ShareRequest", <<U8>>),
    Case(1, "SharePeers", <<OpenList(PeerAddress)>>),
    Case(2, "Done", <<>>)>>)

(* txsubmission.rs *)
EraTxId == Tuple(<<U16, Blob>>)
EraTxBody == Tuple(<<U16, TaggedOnly(24, Blob)>>)
TxIdAndSize == Tuple(<<EraTxId, U32>>)
TxSubmissionMessage == Variant(<<
    Case(6, "Init", <<>>),
    Case(0, "RequestTxIds", <<Bool, U16, U16>>),
    Case(1, "ReplyTxIds", <<OpenList(TxIdAndSize)>>),
    Case(2, "RequestTxs", <<OpenList(EraTxId)>>),
    Case(3, "ReplyTxs", <<OpenList(EraTxBody)>>),
    Case(4, "Done", <<>>)>>)

(* leiosnotify.rs *)
LeiosNotifyMessage == Variant(<<
    Case(0, "Done", <<>>),
    Case(1, "Quit", <<>>),
    Case(2, "Canceled", <<>>),
    Case(3, "RequestNext", <<>>),
    Case(4, "BlockAnnouncement", <<AnyCbor>>),
    Case(5, "BlockOffer", <<EbId, U32>>),
    Case(6, "BlockTxsOffer", <<EbId>>),
    Case(7, "Votes", <<List(AnyCbor)>>)>>)

(* leiosfetch.rs *)
Bitmaps == OpenMap(U16, U64)
LeiosFetchMessage == Variant(<<
    Case(0, "Done", <<>>),
    Case(1, "BlockRequest", <<EbId>>),
    Case(2, "Block", <<AnyCbor>>),
    Case(3, "BlockTxsRequest", <<EbId, Bitmaps>>),
    Case(4, "BlockTxs", <<List(CborWrap(AnyCbor))>>)>>)

(* handshake/mod.rs, n2n.rs and n2c.rs *)
\* A value with one of peer sharing and query would be written without it.
VersionDataN2N == ByLength(<<
    OfLength(4, "Full", <<U64, Bool, U8, Bool>>),
    OtherLength(2, "Basic", <<U64, Bool>>)>>)
VersionDataN2C == ByType(<<
    OfType(UInts, "Magic", U64),
    OfType({"array"}, "Query", Tuple(<<U64, Bool>>))>>)
VersionTable(data) == DefMap(U64, data)
RefuseReason == Variant(<<
    Case(0, "VersionMismatch", <<List(U64)>>),
    Case(1, "HandshakeDecodeError", <<U64, Text>>),
    Case(2, "Refused", <<U64, Text>>)>>)
HandshakeMessage(data) == Variant(<<
    Case(0, "Propose", <<VersionTable(data)>>),
    Case(1, "Accept", <<U64, data>>),
    Case(2, "Refuse", <<RefuseReason>>),
    Case(3, "QueryReply", <<VersionTable(data)>>)>>)
=============================================================================
