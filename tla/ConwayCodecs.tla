---------------------------- MODULE ConwayCodecs ----------------------------
(***************************************************************************)
(* The layouts of the Conway era (pallas-primitives/src/conway/model.rs);  *)
(* what it takes over from Alonzo and Babbage is named A! and B!.          *)
(***************************************************************************)
EXTENDS PrimitiveCodecs

A == INSTANCE AlonzoCodecs
B == INSTANCE BabbageCodecs

\* PositiveCoin's codec is derived: only its constructor refuses zero.
PositiveCoin == U64
Value == A!ValueOf(Coin, PositiveCoin)
NonEmptySet(of) == Set(of)

Anchor == Record(<<Text, Hash>>)
DRep == Flat(<<Case(0, "Key", <<Hash>>), Case(1, "Script", <<Hash>>),
               Case(2, "Abstain", <<>>), Case(3, "NoConfidence", <<>>)>>)
\* The certificates Conway adds.
GovernanceCertificates == <<
    Case(7, "Reg", <<StakeCredential, Coin>>),
    Case(8, "UnReg", <<StakeCredential, Coin>>),
    Case(9, "VoteDeleg", <<StakeCredential, DRep>>),
    Case(10, "StakeVoteDeleg", <<StakeCredential, Hash, DRep>>),
    Case(11, "StakeRegDeleg", <<StakeCredential, Hash, Coin>>),
    Case(12, "VoteRegDeleg", <<StakeCredential, DRep, Coin>>),
    Case(13, "StakeVoteRegDeleg", <<StakeCredential, Hash, DRep, Coin>>),
    Case(14, "AuthCommitteeHot", <<StakeCredential, StakeCredential>>),
    Case(15, "ResignCommitteeCold", <<StakeCredential, Option(Anchor)>>),
    Case(16, "RegDRepCert", <<StakeCredential, Coin, Option(Anchor)>>),
    Case(17, "UnRegDRepCert", <<StakeCredential, Coin>>),
    Case(18, "UpdateDRepCert", <<StakeCredential, Option(Anchor)>>)>>
Certificate == Flat(<<
    Case(0, "StakeRegistration", <<StakeCredential>>),
    Case(1, "StakeDeregistration", <<StakeCredential>>),
    Case(2, "StakeDelegation", <<StakeCredential, Hash>>),
    Case(3, "PoolRegistration", A!PoolParams(Set(Hash))),
    Case(4, "PoolRetirement", <<Hash, Epoch>>)>> \o GovernanceCertificates)

\* The entries of a language without a field are kept and not written again.
CostModels == KnownKeys(3, CostModel)
Intervals(n) == Record(Tupled([i \in 1..n |-> RationalNumber]))
PoolVotingThresholds == Intervals(5)
DRepVotingThresholds == Intervals(10)
GovernanceParams == <<
    Key(25, Option(PoolVotingThresholds)), Key(26, Option(DRepVotingThresholds)),
    Key(27, Option(U64)), Key(28, Option(Epoch)), Key(29, Option(Epoch)),
    Key(30, Option(Coin)), Key(31, Option(Coin)), Key(32, Option(Epoch)),
    Key(33, Option(RationalNumber))>>
ProtocolParamUpdate ==
    Keyed(A!CommonParams(U64) \o A!ScriptParams(CostModels, U64) \o GovernanceParams)

GovActionId == Record(<<Hash, U32>>)
Constitution == Record(<<Anchor, Option(Hash)>>)
GovActionOf(params, set(_)) == Flat(<<
    Case(0, "ParameterChange", <<Option(GovActionId), params, Option(Hash)>>),
    Case(1, "HardForkInitiation", <<Option(GovActionId), ProtocolVersion>>),
    Case(2, "TreasuryWithdrawals", <<A!RewardMap, Option(Hash)>>),
    Case(3, "NoConfidence", <<Option(GovActionId)>>),
    Case(4, "UpdateCommittee", <<Option(GovActionId), set(StakeCredential),
                                 Map(StakeCredential, Epoch), RationalNumber>>),
    Case(5, "NewConstitution", <<Option(GovActionId), Constitution>>),
    Case(6, "Information", <<>>)>>)
ProposalProcedureOf(action) == Record(<<Coin, Bytes, action, Anchor>>)
GovAction == GovActionOf(ProtocolParamUpdate, Set)
ProposalProcedure == ProposalProcedureOf(GovAction)
Vote == Index(Labels(<<"No", "Yes", "Abstain">>))
VotingProcedure == Record(<<Vote, Option(Anchor)>>)
Voter == Flat(Tupled([i \in 1..5 |-> Case(i - 1,
    <<"ConstitutionalCommitteeKey", "ConstitutionalCommitteeScript", "DRepKey",
      "DRepScript", "StakePoolKey">>[i], <<Hash>>)]))
VotingProcedures == Map(Voter, Map(GovActionId, VotingProcedure))

ScriptRef == B!ScriptRefOf(NativeScript, 3)
TransactionOutput == B!TransactionOutputOf(Value, ScriptRef)
TransactionBody == Keyed(<<
    Key(0, Set(TransactionInput)), Key(1, List(TransactionOutput)), Key(2, Coin),
    Key(3, Option(U64)), Key(4, Option(NonEmptySet(Certificate))),
    Key(5, Option(A!RewardMap)), Key(7, Option(Hash)), Key(8, Option(U64)),
    Key(9, Option(A!Multiasset(NonZeroInt))), Key(11, Option(Hash)),
    Key(13, Option(NonEmptySet(TransactionInput))), Key(14, Option(NonEmptySet(Hash))),
    Key(15, Option(NetworkId)), Key(16, Option(TransactionOutput)),
    Key(17, Option(Coin)), Key(18, Option(NonEmptySet(TransactionInput))),
    Key(19, Option(VotingProcedures)), Key(20, Option(NonEmptySet(ProposalProcedure))),
    Key(21, Option(Coin)), Key(22, Option(PositiveCoin))>>)

RedeemerTag == Index(Labels(<<"Spend", "Mint", "Cert", "Reward", "Vote", "Propose">>))
RedeemersMap(tag) == Map(Record(<<tag, U32>>), Record(<<PlutusData, ExUnits>>))
Redeemers == ByType(<<OfType(Arrays, "List", List(A!RedeemerOf(RedeemerTag))),
                      OfType(Maps, "Map", RedeemersMap(RedeemerTag))>>)
\* The scripts of each version have a key of their own from 6 on.
WitnessSetOf(native, redeemers, scripts, set(_)) == Keyed(<<
    Key(0, Option(set(A!VKeyWitness))), Key(1, Option(set(KeepRaw(native)))),
    Key(2, Option(set(A!BootstrapWitness))), Key(3, Option(set(PlutusScript))),
    Key(4, Option(KeepRaw(set(KeepRaw(PlutusData))))),
    Key(5, Option(KeepRaw(redeemers)))>>
      \o Tupled([i \in 1..scripts |-> Key(5 + i, Option(set(PlutusScript)))]))
WitnessSet == WitnessSetOf(NativeScript, Redeemers, 2, NonEmptySet)

Block == A!BlockOf(B!MintedHeader, TransactionBody, WitnessSet, A!AuxiliaryData)
Tx == A!TxOf(TransactionBody, WitnessSet, A!AuxiliaryData)
=============================================================================
