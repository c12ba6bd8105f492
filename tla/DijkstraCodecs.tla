--------------------------- MODULE DijkstraCodecs ---------------------------
(***************************************************************************)
(* The layouts of the Dijkstra era                                         *)
(* (pallas-primitives/src/dijkstra/model.rs, behind the unstable feature); *)
(* what it takes over from earlier eras is named A!, B! and C!.            *)
(***************************************************************************)
EXTENDS PrimitiveCodecs

A == INSTANCE AlonzoCodecs
B == INSTANCE BabbageCodecs
C == INSTANCE ConwayCodecs

\* tag_preserving_set!: the arm read is the arm written.
ArmedSet(of) == ByType(<<
    OfTag({TAG_SET}, "Tagged", Tagged(TAG_SET, List(of))),
    OfType(Arrays, "Bare", List(of))>>)
\* A set that must not be empty.
SomeSet(of) == Unless(ArmedSet(of), {<<arm, <<<<"list", <<>>>>>>>> : arm \in {"Tagged", "Bare"}})

EbAnnouncement == Record(<<Hash, U32>>)
HeaderBody == Record(B!HeaderFields \o <<Bool, Nullable(EbAnnouncement)>>)
MintedHeader == KeepRaw(Record(<<HeaderBody, Bytes>>))
EndorserBlock == KeyValuePairs(Hash, U32)
BlsKey == Record(<<Bytes, Bytes>>)
LeiosCertificate == Record(<<Bytes, Bytes>>)

\* Hand-written: the BLS key of a pool is there, null, or left out, which the
\* type of the next item tells.
OptionalBlsKey == ByType(<<OfType(Arrays, "Some", BlsKey), OfType({"null"}, "Null", Unit),
                           OfType(UInts, "None", Inline(<<>>))>>)
Certificate == Variant(<<
    Case(2, "StakeDelegation", <<StakeCredential, Hash>>),
    Case(3, "PoolRegistration", <<Hash, Hash, OptionalBlsKey, Coin, Coin, RationalNumber,
                                  Bytes, ArmedSet(Hash), List(Relay),
                                  Option(PoolMetadata)>>),
    Case(4, "PoolRetirement", <<Hash, Epoch>>)>> \o C!GovernanceCertificates)

\* Every entry is kept, in the order of its keys.
CostModels == Map(U64, CostModel)
ProtocolParamUpdate == Keyed(
    A!CommonParams(U64) \o A!ScriptParams(CostModels, U64) \o C!GovernanceParams
      \o Tupled([i \in 1..15 |-> Key(33 + i, Option(
           CASE i = 5 -> Nullable(RationalNumber)
             [] i \in {4, 6, 11} -> RationalNumber
             [] i = 14 -> ExUnits
             [] OTHER -> U64))]))
GovAction == C!GovActionOf(ProtocolParamUpdate, ArmedSet)
ProposalProcedure == C!ProposalProcedureOf(GovAction)

\* Told by the first element: a key hash is a byte string, a credential an
\* array.
Guards == ByElement(<<
    OfType(Arrays, "Credentials", SomeSet(StakeCredential)),
    OfType({"bytes", "bytes*"}, "AddrKeyhashes", SomeSet(Hash))>>)
\* One of the bounds may be missing, not both.
AccountBalanceInterval == ByType(<<
    OfType(Arrays, "Bounds", Unless(Exactly(<<Option(Coin), Option(Coin)>>),
                                    {<<"tuple", <<Absent, Absent>>>>})),
    OfType(UInts, "Exact", Coin)>>)
RequiredTopLevelGuards == Map(StakeCredential, Nullable(PlutusData))
AccountBalanceIntervals == Map(Bytes, AccountBalanceInterval)

NativeScript2 == NativeScriptWith(<<Case(6, "ScriptRequireGuard", <<StakeCredential>>)>>)
ScriptRef == B!ScriptRefOf(NativeScript2, 4)
TransactionOutput == B!TransactionOutputOf(C!Value, ScriptRef)
RedeemerTag == Index(Labels(<<"Spend", "Mint", "Cert", "Reward", "Vote", "Propose",
                              "Guarding">>))
WitnessSet == C!WitnessSetOf(NativeScript2, C!RedeemersMap(RedeemerTag), 3, SomeSet)
PostAlonzoAuxiliaryData == TaggedOnly(259, Keyed(<<
    Key(0, Option(Metadata)), Key(1, Option(List(NativeScript2)))>>
      \o Tupled([i \in 1..4 |-> Key(1 + i, Option(List(PlutusScript)))])))
ShelleyMaAuxiliaryData == Record(<<Metadata, Option(List(NativeScript2))>>)
AuxiliaryData == A!AuxiliaryDataOf(PostAlonzoAuxiliaryData, ShelleyMaAuxiliaryData)

\* The fields a sub-transaction shares with the transaction around it.
SharedBodyFields == <<
    Key(0, ArmedSet(TransactionInput)), Key(1, MaybeIndefArray(TransactionOutput)),
    Key(3, Option(U64)), Key(4, Option(SomeSet(Certificate))),
    Key(5, Option(A!RewardMap)), Key(7, Option(Hash)), Key(8, Option(U64)),
    Key(9, Option(A!Multiasset(NonZeroInt))), Key(11, Option(Hash)),
    Key(14, Option(Guards)), Key(15, Option(NetworkId)),
    Key(18, Option(SomeSet(TransactionInput))), Key(19, Option(C!VotingProcedures)),
    Key(20, Option(SomeSet(ProposalProcedure))), Key(21, Option(Coin)),
    Key(22, Option(C!PositiveCoin)), Key(24, Option(RequiredTopLevelGuards)),
    Key(25, Option(A!RewardMap)), Key(26, Option(AccountBalanceIntervals))>>
SubTransactionBody == Keyed(SharedBodyFields)
SubTransaction ==
    Record(<<KeepRaw(SubTransactionBody), KeepRaw(WitnessSet),
             Nullable(KeepRaw(AuxiliaryData))>>)
\* The derived encoder writes the entries in the order of their keys.
TransactionBody == Keyed(SortSeq(SharedBodyFields \o <<
    Key(2, Coin), Key(13, Option(SomeSet(TransactionInput))),
    Key(16, Option(TransactionOutput)), Key(17, Option(Coin)),
    Key(23, Option(SomeSet(SubTransaction))),
    Key(27, Option(AccountBalanceIntervals))>>, LAMBDA a, b : a.n < b.n))
BlockTransaction ==
    Record(<<KeepRaw(TransactionBody), KeepRaw(WitnessSet),
             Nullable(KeepRaw(AuxiliaryData)), Bool>>)
\* Three items, or Conway's four with the flag set; told here by the length,
\* which the reader compares with what it found.
MempoolTransaction == ByLength(<<
    OfLength(3, "Plain", <<KeepRaw(TransactionBody), KeepRaw(WitnessSet),
                           Nullable(KeepRaw(AuxiliaryData))>>),
    OfLength(4, "Flagged", <<KeepRaw(TransactionBody), KeepRaw(WitnessSet),
                             Unless(Bool, {<<"bool", 0>>}),
                             Nullable(KeepRaw(AuxiliaryData))>>)>>)
BlockBody == Record(<<MaybeIndefArray(BlockTransaction), Nullable(LeiosCertificate),
                      Nullable(Bytes)>>)
Block == Record(<<MintedHeader, BlockBody>>)
=============================================================================
