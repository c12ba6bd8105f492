--------------------------- MODULE StateQueryCodecs -------------------------
(***************************************************************************)
(* The layouts of the local-state-query protocol of pallas-network: the    *)
(* messages (localstate/codec.rs), the queries and their answers           *)
(* (queries_v16/).  The names are those of the source.                     *)
(***************************************************************************)
EXTENDS Cbor

\* How deep the recursive types are unrolled: every constructor around every
\* leaf.
Depth == 1

SMaybe(of) == ZeroOrOneArray(of)
TaggedSet(of) == TagWrap(TAG_SET, List(of))
Coin == AnyUInt
Epoch == U64
Hash == Blob
Labels(names) == [i \in 1..Len(names) |-> Case(i - 1, names[i], <<>>)]

(* Scalars and small structs. *)
RationalNumber == Tagged(30, Tuple(<<U64, U64>>))
UnitInterval == RationalNumber
ProtocolVersion == Exactly(<<U64, U64>>)
ExUnitPrices == Record(<<RationalNumber, RationalNumber>>)
ExUnits == Record(<<U64, U64>>)
PoolVotingThresholds == Record([i \in 1..5 |-> UnitInterval])
DRepVotingThresholds == Record([i \in 1..10 |-> UnitInterval])
\* The entries of a language without a field are read into `unknown`, which
\* the derived encoder skips; they are left out here.
CostModels == Keyed([i \in 1..3 |-> Key(i - 1, Option(List(SInt)))])
Anchor == Record(<<Text, Bytes>>)
Constitution == Record(<<Anchor, Option(Hash)>>)
Fraction == Record(<<U64, U64>>)
StakeAddr == Record(<<U8, Bytes>>)
Credential == StakeAddr
Pools == TaggedSet(Bytes)
GovActionId == Record(<<Hash, U32>>)
TransactionInput == Record(<<Hash, U64>>)
UTxO == Record(<<Hash, AnyUInt>>)
Vote == Index(Labels(<<"No", "Yes", "Abstain">>))
MemberStatus == Index(Labels(<<"Active", "Expired", "Unrecognized">>))
AccountState == Record(<<Coin, Coin>>)
ChainBlockNumber == Record(<<U32, U32>>)
Stakes == Record(<<U64, U64, U64>>)
PoolMetadata == Record(<<Text, Bytes>>)
Relay == Variant(<<
    Case(0, "SingleHostAddr", <<Nullable(U32), Nullable(Bytes), Nullable(Bytes)>>),
    Case(1, "SingleHostName", <<Nullable(U32), Text>>),
    Case(2, "MultiHostName", <<Text>>)>>)
DRep == Variant(<<
    Case(0, "KeyHash", <<Bytes>>), Case(1, "ScriptHash", <<Bytes>>),
    Case(2, "AlwaysAbstain", <<>>), Case(3, "AlwaysNoConfidence", <<>>)>>)
\* localtxsubmission/primitives.rs
StakeCredential == Flat(<<Case(1, "ScriptHash", <<Hash>>),
                          Case(0, "AddrKeyhash", <<Hash>>)>>)
Either(left, right) == Variant(<<Case(0, "Left", <<left>>),
                                 Case(1, "Right", <<right>>)>>)

(* Plutus data (plutus_data.rs): an explicit stack instead of recursion; an *)
(* open map is read as such and written with its length.                   *)
BigInt == ByType(<<
    OfType(Ints, "Int", SInt),
    OfTag({2}, "BigUInt", Tagged(2, BoundedBytes)),
    OfTag({3}, "BigNInt", Tagged(3, BoundedBytes))>>)
\* Tags 121..127 and 1280..1400 hold the fields, 102 the constructor too; one
\* tag of each range stands for the others.
Constr(of) == ByType(<<
    OfTag(121..127, "Compact", Tagged(121, MaybeIndefArray(of))),
    OfTag(1280..1400, "Compact2", Tagged(1280, MaybeIndefArray(of))),
    OfTag({102}, "General", Tagged(102, Tuple(<<U64, MaybeIndefArray(of)>>)))>>)
PlutusDataOf(depth) ==
    LET unrolled[d \in 0..depth] ==
          LET of == unrolled[d - 1]
              leaves == <<[OfType(Ints \cup {"tag"}, "BigInt", BigInt)
                              EXCEPT !.tags = {2, 3}],
                          OfType({"bytes", "bytes*"}, "BoundedBytes", BoundedBytes)>>
          IN  ByType(IF d = 0 THEN leaves
                     ELSE leaves \o <<OfType({"tag"}, "Constr", Constr(of)),
                            OfType(Maps, "Map", Sided(Map(of, of), KeyValuePairs(of, of))),
                            OfType(Arrays, "Array", MaybeIndefArray(of))>>)
    IN  unrolled[depth]
PlutusData == PlutusDataOf(Depth)

(* Native scripts (localtxsubmission/native_script.rs) and outputs. *)
NativeScriptOf(depth) ==
    LET unrolled[d \in 0..depth] ==
          LET of == List(unrolled[d - 1])
              leaves == <<Case(0, "ScriptPubkey", <<Hash>>),
                          Case(4, "InvalidBefore", <<U64>>),
                          Case(5, "InvalidHereafter", <<U64>>)>>
          IN  Variant(IF d = 0 THEN leaves
                      ELSE leaves \o <<Case(1, "ScriptAll", <<of>>),
                                       Case(2, "ScriptAny", <<of>>),
                                       Case(3, "ScriptNOfK", <<SInt, of>>)>>)
    IN  unrolled[depth]
NativeScript == NativeScriptOf(Depth)
PseudoScript(native) == Variant(<<
    Case(0, "NativeScript", <<native>>), Case(1, "PlutusV1Script", <<Bytes>>),
    Case(2, "PlutusV2Script", <<Bytes>>), Case(3, "PlutusV3Script", <<Bytes>>)>>)
DatumOption == Variant(<<Case(0, "Hash", <<Hash>>),
                         Case(1, "Data", <<CborWrap(PlutusData)>>)>>)
Multiasset(amount) == KeyValuePairs(Hash, KeyValuePairs(Bytes, amount))
Value == ByType(<<OfType(UInts, "Coin", Coin),
                  OfType({"array"}, "Multiasset", Tuple(<<Coin, Multiasset(Coin)>>))>>)
PostAlonsoTransactionOutput == Keyed(<<
    Key(0, Bytes), Key(1, Value), Key(2, Option(DatumOption)),
    Key(3, Option(CborWrap(PseudoScript(NativeScript))))>>)
LegacyTransactionOutput == Record(<<Bytes, Value, Option(Hash)>>)
TransactionOutput == ByType(<<
    OfType({"map"}, "Current", PostAlonsoTransactionOutput),
    OfType({"array"}, "Legacy", LegacyTransactionOutput)>>)

(* Parameters and governance. *)
\* The parameters both layouts share: the first nine, the three ratios, and
\* those from min_pool_cost on.
FirstParams == <<U64, U64, U64, U64, U64, Coin, Coin, Epoch, U64,
                 RationalNumber, UnitInterval, UnitInterval>>
LaterParams == <<Coin, Coin, CostModels, ExUnitPrices, ExUnits, ExUnits, U64, U64, U64,
                 PoolVotingThresholds, DRepVotingThresholds, U64, Epoch, Epoch,
                 Coin, Coin, Epoch, UnitInterval>>
Options(codecs) == [i \in 1..Len(codecs) |-> Option(codecs[i])]
PParamsUpdate == Keyed([i \in 1..30 |->
    IF i <= 12 THEN Key(i - 1, Option(FirstParams[i]))
               ELSE Key(i + 3, Option(LaterParams[i - 12]))])
ProtocolParam ==
    Record(Options(FirstParams \o <<ProtocolVersion>> \o LaterParams))
GovAction == Variant(<<
    Case(0, "ParameterChange", <<Option(GovActionId), PParamsUpdate, Option(Hash)>>),
    Case(1, "HardForkInitiation", <<Option(GovActionId), ProtocolVersion>>),
    Case(2, "TreasuryWithdrawals", <<KeyValuePairs(Bytes, Coin), Option(Hash)>>),
    Case(3, "NoConfidence", <<Option(GovActionId)>>),
    Case(4, "UpdateCommittee", <<Option(GovActionId), TaggedSet(StakeCredential),
                                 Map(StakeCredential, Epoch), UnitInterval>>),
    Case(5, "NewConstitution", <<Option(GovActionId), Constitution>>),
    Case(6, "InfoAction", <<>>)>>)
ProposalProcedure == Record(<<Coin, Bytes, GovAction, Anchor>>)
GovActionState == Record(<<
    GovActionId, Map(Credential, Vote), Map(Credential, Vote), Map(Bytes, Vote),
    ProposalProcedure, Epoch, Epoch>>)
Committee == Record(<<Map(Credential, Epoch), UnitInterval>>)
HotCredAuthStatus == Variant(<<
    Case(0, "MemberAuthorized", <<Credential>>), Case(1, "MemberNotAuthorized", <<>>),
    Case(2, "MemberResigned", <<SMaybe(Anchor)>>)>>)
NextEpochChange == Variant(
    Labels(<<"ToBeEnacted", "ToBeRemoved", "NoChangeExpected", "ToBeExpired">>)
      \o <<Case(4, "TermAdjusted", <<Epoch>>)>>)
CommitteeMemberState ==
    Record(<<HotCredAuthStatus, MemberStatus, SMaybe(Epoch), NextEpochChange>>)
CommitteeMembersState ==
    Record(<<Map(Credential, CommitteeMemberState), SMaybe(RationalNumber), Epoch>>)
DRepState == Record(<<Epoch, SMaybe(Anchor), Coin, TaggedSet(StakeAddr)>>)
GovRelation == Record([i \in 1..4 |-> SMaybe(GovActionId)])
EnactState == Record(<<SMaybe(Committee), Constitution, ProtocolParam, ProtocolParam,
                       Coin, Map(Credential, Coin), GovRelation>>)
RatifyState == Record(<<EnactState, List(GovActionState), TaggedSet(GovActionId), Bool>>)
FuturePParams == Variant(<<
    Case(0, "NoPParamsUpdate", <<>>),
    Case(1, "DefinitePParamsUpdate", <<PParamsUpdate>>),
    Case(2, "PotentialPParamsUpdate", <<SMaybe(PParamsUpdate)>>)>>)
GovState == Record(<<AnyCbor, SMaybe(Committee), Constitution, ProtocolParam,
                     ProtocolParam, FuturePParams, AnyCbor>>)

(* Pools, stake and genesis. *)
Pool == Record(<<RationalNumber, Bytes>>)
PoolParams == Record(<<Bytes, Bytes, Coin, Coin, UnitInterval, Bytes, Pools,
                       List(Relay), Nullable(PoolMetadata)>>)
PState == Record(<<Map(Bytes, PoolParams), Map(Bytes, PoolParams),
                   Map(Bytes, U32), Map(Bytes, Coin)>>)
IndividualPoolStake == Record(<<RationalNumber, Bytes>>)
StakeSnapshots == Record(<<KeyValuePairs(Bytes, Stakes), U64, U64, U64>>)
FilteredDelegsRewards == Record(<<KeyValuePairs(StakeAddr, Bytes),
                                  KeyValuePairs(StakeAddr, U64)>>)
SystemStart == Record(<<BigInt, SInt, BigInt>>)
GenesisConfig == Record(<<SystemStart, U32, U32, Fraction, U32, U32, U32, U32, U32,
                          U32, Coin>>)

-----------------------------------------------------------------------------
(* The queries.  GetCBOR wraps any other one; label 34 is two queries, told *)
(* apart by the length of the array.                                       *)
PlainQueries == <<
    Case(0, "GetLedgerTip", <<>>), Case(1, "GetEpochNo", <<>>),
    Case(2, "GetNonMyopicMemberRewards", <<TaggedSet(Either(Coin, StakeAddr))>>),
    Case(3, "GetCurrentPParams", <<>>), Case(4, "GetProposedPParamsUpdates", <<>>),
    Case(5, "GetStakeDistribution", <<>>), Case(6, "GetUTxOByAddress", <<List(Bytes)>>),
    Case(7, "GetUTxOWhole", <<>>), Case(8, "DebugEpochState", <<>>),
    Case(10, "GetFilteredDelegationsAndRewardAccounts", <<List(StakeAddr)>>),
    Case(11, "GetGenesisConfig", <<>>), Case(12, "DebugNewEpochState", <<>>),
    Case(13, "DebugChainDepState", <<>>), Case(14, "GetRewardProvenance", <<>>),
    Case(15, "GetUTxOByTxIn", <<List(TransactionInput)>>), Case(16, "GetStakePools", <<>>),
    Case(17, "GetStakePoolParams", <<Pools>>), Case(18, "GetRewardInfoPools", <<>>),
    Case(19, "GetPoolState", <<SMaybe(Pools)>>),
    Case(20, "GetStakeSnapshots", <<SMaybe(Pools)>>),
    Case(21, "GetPoolDistr", <<SMaybe(Pools)>>),
    Case(22, "GetStakeDelegDeposits", <<TaggedSet(StakeAddr)>>),
    Case(23, "GetConstitution", <<>>), Case(24, "GetGovState", <<>>),
    Case(25, "GetDRepState", <<TaggedSet(Credential)>>),
    Case(26, "GetDRepStakeDistr", <<TaggedSet(DRep)>>),
    Case(27, "GetCommitteeMembersState",
         <<TaggedSet(Credential), TaggedSet(Credential), TaggedSet(MemberStatus)>>),
    Case(28, "GetFilteredVoteDelegatees", <<List(StakeAddr)>>),
    Case(29, "GetAccountState", <<>>), Case(30, "GetSPOStakeDistr", <<Pools>>),
    Case(31, "GetProposals", <<TaggedSet(GovActionId)>>),
    Case(32, "GetRatifyState", <<>>), Case(33, "GetFuturePParams", <<>>),
    CaseExact(34, "GetBigLedgerPeerSnapshot", <<>>),
    CaseExact(34, "GetLedgerPeerSnapshot", <<Index(Labels(<<"All", "Big">>))>>),
    Case(36, "GetPoolDistr2", <<SMaybe(Pools)>>),
    Case(37, "GetStakeDistribution2", <<>>),
    Case(39, "GetDRepsDelegations", <<TaggedSet(DRep)>>)>>
BlockQuery ==
    LET wrapped[d \in 0..Depth] ==
          IF d = 0 THEN Variant(PlainQueries)
          ELSE Variant(PlainQueries \o <<Case(9, "GetCBOR", <<wrapped[d - 1]>>)>>)
    IN  wrapped[Depth]
HardForkQuery == Variant(Labels(<<"GetInterpreter", "GetCurrentEra">>))
LedgerQuery == Variant(<<
    Case(0, "BlockQuery", <<Exactly(<<U16, BlockQuery>>)>>),
    Case(2, "HardForkQuery", <<HardForkQuery>>)>>)
Request == Variant(<<
    Case(0, "LedgerQuery", <<LedgerQuery>>), Case(1, "GetSystemStart", <<>>),
    Case(2, "GetChainBlockNo", <<>>), Case(3, "GetChainPoint", <<>>)>>)

\* localstate/codec.rs: an acquisition of the tip has labels of its own.
AcquireFailure == Index(Labels(<<"PointTooOld", "PointNotOnChain">>))
LocalStateMessage(point, query, result) == Variant(<<
    Case(0, "Acquire", <<point>>), Case(8, "AcquireTip", <<>>),
    Case(1, "Acquired", <<>>), Case(2, "Failure", <<AcquireFailure>>),
    Case(3, "Query", <<AnyCborOf(query)>>), Case(4, "Result", <<AnyCborOf(result)>>),
    Case(5, "Release", <<>>), Case(6, "ReAcquire", <<point>>),
    Case(9, "ReAcquireTip", <<>>), Case(7, "Done", <<>>)>>)

\* What the get_* functions of queries_v16/mod.rs ask and how they read the
\* answer: that of a block query comes in an array of one.
Answer(query, of) == [query |-> query, of |-> Exactly(<<of>>)]
UTxOs == KeyValuePairs(UTxO, TransactionOutput)
ChainAnswers(point) == <<
    [query |-> "GetChainPoint", of |-> point],
    [query |-> "GetCurrentEra", of |-> U16],
    [query |-> "GetSystemStart", of |-> SystemStart],
    [query |-> "GetChainBlockNo", of |-> ChainBlockNumber],
    [query |-> "GetCBOR", of |-> List(TagWrap(24, Bytes))]>>
\* block_query_with_args!
AnswersWithArgs == <<
    Answer("GetStakeSnapshots", StakeSnapshots),
    Answer("GetUTxOByAddress", UTxOs),
    Answer("GetStakePoolParams", Map(Bytes, PoolParams)),
    Answer("GetPoolState", PState),
    Answer("GetPoolDistr", Map(Bytes, IndividualPoolStake)),
    Answer("GetNonMyopicMemberRewards", Map(Either(Coin, StakeAddr), Map(Bytes, Coin))),
    Answer("GetFilteredDelegationsAndRewardAccounts", FilteredDelegsRewards),
    Answer("GetUTxOByTxIn", UTxOs),
    Answer("GetStakeDelegDeposits", Map(StakeAddr, Coin)),
    Answer("GetDRepState", Map(StakeAddr, DRepState)),
    Answer("GetDRepStakeDistr", Map(DRep, Coin)),
    Answer("GetFilteredVoteDelegatees", Map(StakeAddr, DRep)),
    Answer("GetSPOStakeDistr", Map(Bytes, Coin)),
    Answer("GetProposals", List(GovActionState)),
    Answer("GetCommitteeMembersState", CommitteeMembersState)>>
\* block_query_no_args!
AnswersWithoutArgs == <<
    Answer("GetCurrentPParams", ProtocolParam),
    Answer("GetEpochNo", U32),
    Answer("GetStakeDistribution", KeyValuePairs(Bytes, Pool)),
    Answer("GetGenesisConfig", GenesisConfig),
    Answer("GetUTxOWhole", UTxOs),
    Answer("GetConstitution", Constitution),
    Answer("GetGovState", GovState),
    Answer("GetAccountState", AccountState),
    Answer("GetFuturePParams", SMaybe(ProtocolParam)),
    Answer("GetRatifyState", RatifyState),
    Answer("GetBigLedgerPeerSnapshot", AnyCbor),
    Answer("GetProposedPParamsUpdates", Map(Bytes, PParamsUpdate))>>
\* The queries of the later protocol versions.
LaterAnswers == <<
    Answer("GetLedgerPeerSnapshot", AnyCbor),
    Answer("GetPoolDistr2", Map(Bytes, IndividualPoolStake)),
    Answer("GetStakeDistribution2", KeyValuePairs(Bytes, Pool)),
    Answer("GetDRepsDelegations", AnyCbor)>>
Answers(point) ==
    ChainAnswers(point) \o AnswersWithArgs \o AnswersWithoutArgs \o LaterAnswers
=============================================================================
