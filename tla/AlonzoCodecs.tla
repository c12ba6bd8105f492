---------------------------- MODULE AlonzoCodecs ----------------------------
(***************************************************************************)
(* The layouts of the Shelley to Alonzo eras                               *)
(* (pallas-primitives/src/alonzo/model.rs).                                *)
(***************************************************************************)
EXTENDS PrimitiveCodecs

HeaderBody == Record(<<
    U64, U64, Option(Hash), Bytes, Bytes, VrfCert, VrfCert, U64, Hash,
    Bytes, U64, U64, Bytes, U64, U64>>)
MintedHeader == KeepRaw(Record(<<HeaderBody, Bytes>>))
Multiasset(amount) == Map(Hash, Map(Bytes, amount))
ValueOf(coin, asset) == ByType(<<
    OfType(UInts, "Coin", coin),
    OfType({"array"}, "Multiasset", Tuple(<<coin, Multiasset(asset)>>))>>)
Value == ValueOf(Coin, Coin)
TransactionOutput == Record(<<Bytes, Value, Option(Hash)>>)

MoveInstantaneousReward == Record(<<
    Index(Labels(<<"Reserves", "Treasury">>)),
    ByType(<<OfType(Maps, "StakeCredentials", Map(StakeCredential, SInt)),
             OfType(UInts, "OtherAccountingPot", Coin)>>)>>)
PoolParams(owners) == <<Hash, Hash, Coin, Coin, RationalNumber, Bytes, owners,
                        List(Relay), Option(PoolMetadata)>>
Certificate == Flat(<<
    Case(0, "StakeRegistration", <<StakeCredential>>),
    Case(1, "StakeDeregistration", <<StakeCredential>>),
    Case(2, "StakeDelegation", <<StakeCredential, Hash>>),
    Case(3, "PoolRegistration", PoolParams(List(Hash))),
    Case(4, "PoolRetirement", <<Hash, Epoch>>),
    Case(5, "GenesisKeyDelegation", <<Bytes, Bytes, Hash>>),
    Case(6, "MoveInstantaneousRewardsCert", <<MoveInstantaneousReward>>)>>)

Language == Index(Labels(<<"PlutusV1">>))
CostModels == Map(Language, CostModel)
\* Keys 0 to 11 are the same in every era.
CommonParams(small) == Tupled([i \in 1..12 |-> Key(i - 1, Option(
    IF i \in 10..12 THEN RationalNumber ELSE IF i \in 6..8 THEN U64 ELSE small))])
ScriptParams(costs, small) == <<
    Key(16, Option(Coin)), Key(17, Option(Coin)), Key(18, Option(costs)),
    Key(19, Option(ExUnitPrices)), Key(20, Option(ExUnits)), Key(21, Option(ExUnits)),
    Key(22, Option(small)), Key(23, Option(small)), Key(24, Option(small))>>
ProtocolParamUpdate == Keyed(
    CommonParams(U32)
      \o <<Key(12, Option(RationalNumber)), Key(13, Option(Nonce)),
           Key(14, Option(ProtocolVersion))>>
      \o ScriptParams(CostModels, U32))
UpdateOf(params) == Record(<<Map(Bytes, params), Epoch>>)
Update == UpdateOf(ProtocolParamUpdate)
RewardMap == Map(Bytes, Coin)
TransactionBody == Keyed(<<
    Key(0, List(TransactionInput)), Key(1, List(TransactionOutput)), Key(2, Coin),
    Key(3, Option(U64)), Key(4, Option(List(Certificate))), Key(5, Option(RewardMap)),
    Key(6, Option(Update)), Key(7, Option(Hash)), Key(8, Option(U64)),
    Key(9, Option(Multiasset(SInt))), Key(11, Option(Hash)),
    Key(13, Option(List(TransactionInput))), Key(14, Option(List(Hash))),
    Key(15, Option(NetworkId))>>)

VKeyWitness == Record(<<Bytes, Bytes>>)
BootstrapWitness == Record(<<Bytes, Bytes, Bytes, Bytes>>)
RedeemerTag == Index(Labels(<<"Spend", "Mint", "Cert", "Reward">>))
RedeemerOf(tag) == Record(<<tag, U32, PlutusData, ExUnits>>)
Redeemer == RedeemerOf(RedeemerTag)
WitnessSet == Keyed(<<
    Key(0, Option(List(VKeyWitness))), Key(1, Option(List(KeepRaw(NativeScript)))),
    Key(2, Option(List(BootstrapWitness))), Key(3, Option(List(PlutusScript))),
    Key(4, Option(List(KeepRaw(PlutusData)))), Key(5, Option(List(Redeemer)))>>)

PostAlonzoAuxiliaryData == TaggedOnly(259, Keyed(<<
    Key(0, Option(Metadata)), Key(1, Option(List(NativeScript))),
    Key(2, Option(List(PlutusScript)))>>))
ShelleyMaAuxiliaryData == Record(<<Metadata, Option(List(NativeScript))>>)
AuxiliaryDataOf(tagged, arrayed) == ByType(<<
    OfType(Maps, "Shelley", Metadata), OfType(Arrays, "ShelleyMa", arrayed),
    OfType({"tag"}, "PostAlonzo", tagged)>>)
AuxiliaryData == AuxiliaryDataOf(PostAlonzoAuxiliaryData, ShelleyMaAuxiliaryData)

\* A block keeps the parts of its transactions apart.
BlockOf(header, body, witness, aux) == Record(<<
    header, List(KeepRaw(body)), List(KeepRaw(witness)),
    Map(U32, KeepRaw(aux)), Option(List(U32))>>)
TxOf(body, witness, aux) ==
    Record(<<KeepRaw(body), KeepRaw(witness), Bool, Nullable(KeepRaw(aux))>>)
Block == BlockOf(MintedHeader, TransactionBody, WitnessSet, AuxiliaryData)
Tx == TxOf(TransactionBody, WitnessSet, AuxiliaryData)
=============================================================================
