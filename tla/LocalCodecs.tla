------------------------------ MODULE LocalCodecs ---------------------------
(***************************************************************************)
(* The layouts of the other node-to-client protocols of pallas-network:    *)
(* txmonitor, localtxsubmission, localmsgsubmission, localmsgnotification. *)
(*                                                                         *)
(* A client reads rejections a node of the network wrote.  Several of their *)
(* types the crate encodes in another layout than it decodes them from;    *)
(* those are Sided, and a node writes what the decoder reads.              *)
(***************************************************************************)
EXTENDS StateQueryCodecs

(* txmonitor/codec.rs: a reply without a transaction is a shorter array,   *)
(* but the reader looks at what follows the label instead.                 *)
MonitorTx == Exactly(<<U8, Tagged(24, Bytes)>>)
TxMonitorMessage == Variant(<<
    Case(0, "Done", <<>>), Case(1, "Acquire", <<>>), Case(2, "Acquired", <<U64>>),
    Case(3, "Release", <<>>), Case(4, "AwaitAcquire", <<>>),
    Case(5, "RequestNextTx", <<>>),
    CasePeek(6, "ResponseNextTx", <<MonitorTx>>), Case(6, "ResponseNoTx", <<>>),
    Case(7, "RequestHasTx", <<Text>>), Case(8, "ResponseHasTx", <<Bool>>),
    Case(9, "RequestSizeAndCapacity", <<>>),
    Case(10, "ResponseSizeAndCapacity", <<Tuple(<<U32, U32, U32>>)>>)>>)

(* localtxsubmission/primitives.rs and codec.rs *)
TxCredential == Flat(<<Case(0, "ScriptHashObj", <<Hash>>),
                       Case(1, "KeyHashObj", <<Hash>>)>>)
Certificate == Variant(<<
    Case(0, "StakeRegistration", <<StakeCredential>>),
    Case(1, "StakeDeregistration", <<StakeCredential>>),
    Case(2, "StakeDelegation", <<StakeCredential, Hash>>),
    Case(3, "PoolRegistration", <<Hash, Hash, Coin, Coin, UnitInterval, Bytes,
                                  Set(Hash), List(Relay), Nullable(PoolMetadata)>>),
    Case(4, "PoolRetirement", <<Hash, Epoch>>),
    Case(7, "Reg", <<StakeCredential, Coin>>),
    Case(8, "UnReg", <<StakeCredential, Coin>>),
    Case(9, "VoteDeleg", <<StakeCredential, DRep>>),
    Case(10, "StakeVoteDeleg", <<StakeCredential, Hash, DRep>>),
    Case(11, "StakeRegDeleg", <<StakeCredential, Hash, Coin>>),
    Case(12, "VoteRegDeleg", <<StakeCredential, DRep, Coin>>),
    Case(13, "StakeVoteRegDeleg", <<StakeCredential, Hash, DRep, Coin>>),
    Case(14, "AuthCommitteeHot", <<StakeCredential, StakeCredential>>),
    Case(15, "ResignCommitteeCold", <<StakeCredential, Nullable(Anchor)>>),
    Case(16, "RegDRepCert", <<StakeCredential, Coin, Nullable(Anchor)>>),
    Case(17, "UnRegDRepCert", <<StakeCredential, Coin>>),
    Case(18, "UpdateDRepCert", <<StakeCredential, Nullable(Anchor)>>)>>)
\* The certificate with its class, which its label decides.
ConwayTxCert == Certificate
Voter == Variant(Tupled([i \in 1..5 |-> Case(i - 1,
    <<"ConstitutionalCommitteeKey", "ConstitutionalCommitteeScript", "DRepKey",
      "DRepScript", "StakePoolKey">>[i], <<Hash>>)]))
VotingProcedure == Tuple(<<Vote, Nullable(Anchor)>>)
VotingProcedures == KeyValuePairs(Voter, KeyValuePairs(GovActionId, VotingProcedure))
Language == Index(Labels(<<"PlutusV1", "PlutusV2", "PlutusV3">>))
ShelleyBasedEra == Index(Tupled([i \in 1..6 |-> Case(i,
    <<"Shelley", "Allegra", "Mary", "Alonzo", "Babbage", "Conway">>[i], <<>>)]))
Network == Index(Labels(<<"Testnet", "Mainnet">>))
ValidityInterval == Record(<<SMaybe(U64), SMaybe(U64)>>)
\* Encoded as the header of a map followed by an array of pairs.
OHashMap(key, val) == Sided(PairList(key, val), PairMap(key, val))
Utxo == OHashMap(TransactionInput, TransactionOutput)
\* Encoded with an array of one around it.
PlutusPurpose(items) ==
    LET purpose == Variant(Tupled([i \in 1..6 |-> Case(i - 1,
          <<"Spending", "Minting", "Certifying", "Rewarding", "Voting", "Proposing">>[i],
          <<items[i]>>)]))
    IN  Sided(Boxed(purpose), purpose)
PlutusPurposeItem == PlutusPurpose(<<TransactionInput, Hash, ConwayTxCert, Bytes, Voter,
                                     ProposalProcedure>>)
PlutusPurposeIx == PlutusPurpose([i \in 1..6 |-> U64])

(* The rejections of the ledger (protocol.rs). *)
ConwayContextError ==
    LET TxOutSource == Flat(<<Case(0, "Input", <<TransactionInput>>),
                              Case(1, "Output", <<U64>>)>>)
        BabbageContextError == Flat(<<
          Case(0, "ByronTxOutInContext", <<TxOutSource>>),
          Case(1, "AlonzoMissingInput", <<TransactionInput>>),
          Case(2, "RedeemerPointerPointsToNothing", <<PlutusPurposeIx>>),
          Case(4, "InlineDatumsNotSupported", <<TxOutSource>>),
          Case(5, "ReferenceScriptsNotSupported", <<TxOutSource>>),
          Case(6, "ReferenceInputsNotSupported", <<Set(TransactionInput)>>),
          Case(7, "AlonzoTimeTranslationPastHorizon", <<Text>>)>>)
    IN  Flat(<<
          Case(8, "BabbageContextError", <<BabbageContextError>>),
          Case(9, "CertificateNotSupported", <<ConwayTxCert>>),
          Case(10, "PlutusPurposeNotSupported", <<PlutusPurposeItem>>),
          Case(11, "CurrentTreasuryFieldNotSupported", <<Coin>>),
          Case(12, "VotingProceduresFieldNotSupported", <<VotingProcedures>>),
          Case(13, "ProposalProceduresFieldNotSupported", <<Set(ProposalProcedure)>>),
          Case(14, "TreasuryDonationFieldNotSupported", <<Coin>>)>>)
CollectError == Flat(<<
    Case(0, "NoRedeemer", <<PlutusPurposeItem>>), Case(1, "NoWitness", <<Hash>>),
    Case(2, "NoCostModel", <<Language>>), Case(3, "BadTranslation", <<ConwayContextError>>)>>)
UtxosFailure ==
    LET FailureDescription == Flat(<<Case(1, "PlutusFailure", <<Text, Bytes>>)>>)
        TagMismatchDescription == Flat(<<
            Case(0, "PassedUnexpectedly", <<>>),
            Case(1, "FailedUnexpectedly", <<List(FailureDescription)>>)>>)
    IN  Flat(<<Case(0, "ValidationTagMismatch", <<Bool, TagMismatchDescription>>),
               Case(1, "CollectErrors", <<List(CollectError)>>)>>)
UtxoFailure == Flat(<<
    Case(0, "UtxosFailure", <<UtxosFailure>>),
    Case(1, "BadInputsUTxO", <<Set(TransactionInput)>>),
    Case(2, "OutsideValidityIntervalUTxO", <<ValidityInterval, U64>>),
    Case(3, "MaxTxSizeUTxO", <<SInt, SInt>>), Case(4, "InputSetEmptyUTxO", <<>>),
    Case(5, "FeeTooSmallUTxO", <<Coin, Coin>>),
    Case(6, "ValueNotConservedUTxO", <<Value, Value>>),
    Case(7, "WrongNetwork", <<Network, Set(Bytes)>>),
    Case(8, "WrongNetworkWithdrawal", <<Network, Set(Bytes)>>),
    Case(9, "OutputTooSmallUTxO", <<List(TransactionOutput)>>),
    Case(10, "OutputBootAddrAttrsTooBig", <<List(TransactionOutput)>>),
    Case(11, "OutputTooBigUTxO", <<List(Exactly(<<SInt, SInt, TransactionOutput>>))>>),
    Case(12, "InsufficientCollateral", <<SInt, Coin>>),
    Case(13, "ScriptsNotPaidUTxO", <<Utxo>>),
    Case(14, "ExUnitsTooBigUTxO", <<ExUnits, ExUnits>>),
    Case(15, "CollateralContainsNonADA", <<Value>>),
    Case(16, "WrongNetworkInTxBody", <<Network, Network>>),
    Case(17, "OutsideForecast", <<U64>>), Case(18, "TooManyCollateralInputs", <<U16, U16>>),
    Case(19, "NoCollateralInputs", <<>>),
    Case(20, "IncorrectTotalCollateralField", <<SInt, Coin>>),
    Case(21, "BabbageOutputTooSmallUTxO", <<List(Exactly(<<TransactionOutput, Coin>>))>>),
    Case(22, "BabbageNonDisjointRefInputs", <<List(TransactionInput)>>)>>)
ConwayUtxoWPredFailure == Flat(<<
    Case(0, "UtxoFailure", <<UtxoFailure>>),
    Case(1, "InvalidWitnessesUTXOW", <<List(Bytes)>>),
    Case(2, "MissingVKeyWitnessesUTXOW", <<Set(Bytes)>>),
    Case(3, "MissingScriptWitnessesUTXOW", <<Set(Hash)>>),
    Case(4, "ScriptWitnessNotValidatingUTXOW", <<Set(Hash)>>),
    Case(5, "MissingTxBodyMetadataHash", <<Bytes>>), Case(6, "MissingTxMetadata", <<Bytes>>),
    Case(7, "ConflictingMetadataHash", <<Bytes, Bytes>>), Case(8, "InvalidMetadata", <<>>),
    Case(9, "ExtraneousScriptWitnessesUTXOW", <<Set(Hash)>>),
    Case(10, "MissingRedeemers", <<List(Exactly(<<PlutusPurposeItem, Hash>>))>>),
    Case(11, "MissingRequiredDatums", <<Set(Bytes), Set(Bytes)>>),
    Case(12, "NotAllowedSupplementalDatums", <<Set(Bytes), Set(Bytes)>>),
    Case(13, "PPViewHashesDontMatch", <<SMaybe(Bytes), SMaybe(Bytes)>>),
    Case(14, "UnspendableUTxONoDatumHash", <<Set(TransactionInput)>>),
    Case(15, "ExtraRedeemers", <<List(PlutusPurposeIx)>>),
    Case(16, "MalformedScriptWitnesses", <<Set(Hash)>>),
    Case(17, "MalformedReferenceScripts", <<Set(Hash)>>)>>)
\* Two values in a row, under no header of their own.
Mismatch(of) == Inline(<<of, of>>)
\* Encoded by a derived encoder under labels 0 to 4 and headers that count a
\* mismatch once; the decoder has labels of its own, finds the expected value
\* before the supplied one and fills the supplied epoch into both mismatches.
ShelleyPoolPredFailure ==
    LET enc == Variant(<<
          Case(0, "StakePoolNotRegisteredOnKeyPOOL", <<Bytes>>),
          CaseSized(3, 1, "StakePoolRetirementWrongEpochPOOL",
                    <<Inline(<<Mismatch(Epoch), Mismatch(Epoch)>>)>>),
          Case(2, "StakePoolCostTooLowPOOL", <<Mismatch(Coin)>>),
          Case(3, "WrongNetworkPOOL", <<Inline(<<Mismatch(Network)>>), Bytes>>),
          Case(4, "PoolMedataHashTooBig", <<Bytes, SInt>>)>>)
        dec == Variant(<<
          Case(0, "StakePoolNotRegisteredOnKeyPOOL", <<Bytes>>),
          CaseSized(4, 1, "StakePoolRetirementWrongEpochPOOL",
                    <<Arranged(<<Epoch, Epoch, Epoch>>, <<<<2, 1>>, <<2, 3>>>>)>>),
          CaseSized(3, 3, "StakePoolCostTooLowPOOL", <<Mismatch(Coin)>>),
          CaseSized(4, 4, "WrongNetworkPOOL",
                    <<Arranged(<<Network, Network>>, <<<<2, 1>>>>), Bytes>>),
          Case(5, "PoolMedataHashTooBig", <<Bytes, SInt>>)>>)
    IN  [Sided(enc, dec) EXCEPT !.some = dec]
ConwayDelegPredFailure == Flat(<<
    Case(1, "IncorrectDepositDELEG", <<Coin>>),
    Case(2, "StakeKeyRegisteredDELEG", <<TxCredential>>),
    Case(3, "StakeKeyNotRegisteredDELEG", <<TxCredential>>),
    Case(4, "StakeKeyHasNonZeroRewardAccountBalanceDELEG", <<Coin>>),
    Case(5, "DelegateeDRepNotRegisteredDELEG", <<TxCredential>>),
    Case(6, "DelegateeStakePoolNotRegisteredDELEG", <<Bytes>>)>>)
ConwayGovCertPredFailure == Flat(<<
    Case(0, "DRepAlreadyRegistered", <<TxCredential>>),
    Case(1, "DRepNotRegistered", <<TxCredential>>),
    Case(2, "DRepIncorrectDeposit", <<Coin, Coin>>),
    Case(3, "CommitteeHasPreviouslyResigned", <<TxCredential>>),
    Case(4, "DRepIncorrectRefund", <<Coin, Coin>>),
    Case(5, "CommitteeIsUnknown", <<TxCredential>>)>>)
ConwayCertPredFailure == Flat(<<
    Case(1, "DelegFailure", <<ConwayDelegPredFailure>>),
    Case(2, "PoolFailure", <<ShelleyPoolPredFailure>>),
    Case(3, "GovCertFailure", <<ConwayGovCertPredFailure>>)>>)
ConwayCertsPredFailure == Flat(<<
    Case(0, "WithdrawalsNotInRewardsCERTS", <<OHashMap(Bytes, Coin)>>),
    Case(1, "CertFailure", <<ConwayCertPredFailure>>)>>)
ConwayGovPredFailure ==
    LET votes == List(Exactly(<<Voter, GovActionId>>))
    IN  Flat(<<
          Case(0, "GovActionsDoNotExist", <<List(GovActionId)>>),
          Case(1, "MalformedProposal", <<GovAction>>),
          Case(2, "ProposalProcedureNetworkIdMismatch", <<Bytes, Network>>),
          Case(3, "TreasuryWithdrawalsNetworkIdMismatch", <<Set(Bytes), Network>>),
          Case(4, "ProposalDepositIncorrect", <<Coin, Coin>>),
          Case(5, "DisallowedVoters", <<votes>>),
          Case(6, "ConflictingCommitteeUpdate", <<Set(TxCredential)>>),
          Case(7, "ExpirationEpochTooSmall", <<OHashMap(StakeCredential, Epoch)>>),
          Case(8, "InvalidPrevGovActionId", <<ProposalProcedure>>),
          Case(9, "VotingOnExpiredGovAction", <<votes>>),
          Case(10, "ProposalCantFollow", <<SMaybe(GovActionId), ProtocolVersion,
                                           ProtocolVersion>>),
          Case(11, "InvalidPolicyHash", <<SMaybe(Hash), SMaybe(Hash)>>),
          Case(12, "DisallowedProposalDuringBootstrap", <<ProposalProcedure>>),
          Case(13, "DisallowedVotesDuringBootstrap", <<votes>>),
          Case(14, "VotersDoNotExist", <<List(Voter)>>),
          Case(15, "ZeroTreasuryWithdrawals", <<GovAction>>),
          Case(16, "ProposalReturnAccountDoesNotExist", <<Bytes>>),
          Case(17, "TreasuryWithdrawalReturnAccountsDoNotExist", <<List(Bytes)>>)>>)
ConwayLedgerFailure == Flat(<<
    Case(1, "UtxowFailure", <<ConwayUtxoWPredFailure>>),
    Case(2, "CertsFailure", <<ConwayCertsPredFailure>>),
    Case(3, "GovFailure", <<ConwayGovPredFailure>>),
    Case(4, "WdrlNotDelegatedToDRep", <<List(Bytes)>>),
    Case(5, "TreasuryValueMismatch", <<Coin, Coin>>),
    Case(6, "TxRefScriptsSizeTooBig", <<SInt, SInt>>),
    Case(7, "MempoolFailure", <<Text>>),
    Case(8, "WithdrawalsMissingAccounts", <<OHashMap(Bytes, Coin)>>),
    Case(9, "IncompleteWithdrawals", <<OHashMap(Bytes, Exactly(<<Coin, Coin>>))>>)>>)
\* Encoded without the outer array; a Plutus or Byron error is not encoded at
\* all (todo!), and the former is read from plain text (OrText).
TxValidationError ==
    LET shelley == Tuple(<<ShelleyBasedEra, List(ConwayLedgerFailure)>>)
    IN  Sided(shelley, Boxed(shelley))
EraTx == Tuple(<<U16, TaggedOnly(24, Blob)>>)
SubmissionMessage(tx, reject) == OrText(Variant(<<
    Case(0, "SubmitTx", <<tx>>), Case(1, "AcceptTx", <<>>),
    Case(2, "RejectTx", <<reject>>), Case(3, "Done", <<>>)>>))
LocalTxSubmissionMessage == SubmissionMessage(EraTx, TxValidationError)

(* localmsgsubmission/codec.rs and localmsgnotification/codec.rs *)
DmqMsg == Tuple(<<Blob, Tuple(<<Blob, U64, U32>>), Blob,
                  Tuple(<<Blob, U64, U64, Blob>>), Blob>>)
DmqMsgRejectReason == Variant(<<
    CaseExact(0, "Invalid", <<Text>>), CaseExact(1, "AlreadyReceived", <<>>),
    CaseExact(2, "Expired", <<>>), CaseExact(3, "Other", <<Text>>)>>)
LocalMsgSubmissionMessage == SubmissionMessage(DmqMsg, DmqMsgRejectReason)
\* A blocking reply announces three items where two follow.
LocalMsgNotificationMessage == Variant(<<
    Case(0, "RequestMessages", <<Bool>>),
    Case(1, "ReplyMessagesNonBlocking", <<OpenList(DmqMsg), Bool>>),
    CaseSized(3, 2, "ReplyMessagesBlocking", <<OpenList(DmqMsg)>>),
    Case(3, "ClientDone", <<>>)>>)
=============================================================================
