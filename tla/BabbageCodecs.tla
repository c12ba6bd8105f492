--------------------------- MODULE BabbageCodecs ----------------------------
(***************************************************************************)
(* The layouts of the Babbage era (pallas-primitives/src/babbage/model.rs);*)
(* what it takes over from the earlier eras is named A!.                   *)
(***************************************************************************)
EXTENDS PrimitiveCodecs

A == INSTANCE AlonzoCodecs

OperationalCert == Record(<<Bytes, U64, U64, Bytes>>)
HeaderFields == <<U64, U64, Option(Hash), Bytes, Bytes, VrfCert, U64, Hash,
                  OperationalCert, ProtocolVersion>>
MintedHeader == KeepRaw(Record(<<Record(HeaderFields), Bytes>>))

\* The entries of a language without a field are skipped by the decoder.
CostModels == Keyed(<<Key(0, Option(CostModel)), Key(1, Option(CostModel))>>)
ProtocolParamUpdate == Keyed(
    A!CommonParams(U32) \o <<Key(14, Option(ProtocolVersion))>>
      \o A!ScriptParams(CostModels, U32))
Update == A!UpdateOf(ProtocolParamUpdate)

(* Outputs: the older form is an array, the newer one a map. *)
DatumOption == Flat(<<Case(0, "Hash", <<Hash>>),
                      Case(1, "Data", <<CborWrap(KeepRaw(PlutusData))>>)>>)
\* A script of version n has the label n.
ScriptRefOf(native, versions) == Flat(
    <<Case(0, "NativeScript", <<KeepRaw(native)>>)>>
      \o Tupled([i \in 1..versions |-> Case(i,
           <<"PlutusV1Script", "PlutusV2Script", "PlutusV3Script",
             "PlutusV4Script">>[i], <<PlutusScript>>)]))
ScriptRef == ScriptRefOf(NativeScript, 2)
PostAlonzoTransactionOutput(value, script) == Keyed(<<
    Key(0, Bytes), Key(1, value), Key(2, Option(KeepRaw(DatumOption))),
    Key(3, Option(CborWrap(script)))>>)
LegacyTransactionOutput(value) == Record(<<Bytes, value, Option(Hash)>>)
TransactionOutputOf(value, script) == ByType(<<
    OfType(Maps, "PostAlonzo", KeepRaw(PostAlonzoTransactionOutput(value, script))),
    OfType(Arrays, "Legacy", KeepRaw(LegacyTransactionOutput(A!Value)))>>)
TransactionOutput == TransactionOutputOf(A!Value, ScriptRef)

TransactionBody == Keyed(<<
    Key(0, List(TransactionInput)), Key(1, List(KeepRaw(TransactionOutput))),
    Key(2, Coin), Key(3, Option(U64)), Key(4, Option(List(A!Certificate))),
    Key(5, Option(A!RewardMap)), Key(6, Option(Update)), Key(7, Option(Bytes)),
    Key(8, Option(U64)), Key(9, Option(A!Multiasset(SInt))), Key(11, Option(Hash)),
    Key(13, Option(List(TransactionInput))), Key(14, Option(List(Hash))),
    Key(15, Option(NetworkId)), Key(16, Option(KeepRaw(TransactionOutput))),
    Key(17, Option(Coin)), Key(18, Option(List(TransactionInput)))>>)
WitnessSet == Keyed(<<
    Key(0, Option(List(A!VKeyWitness))), Key(1, Option(List(KeepRaw(NativeScript)))),
    Key(2, Option(List(A!BootstrapWitness))), Key(3, Option(List(PlutusScript))),
    Key(4, Option(List(KeepRaw(PlutusData)))), Key(5, Option(List(A!Redeemer))),
    Key(6, Option(List(PlutusScript)))>>)
Block == A!BlockOf(MintedHeader, TransactionBody, WitnessSet, A!AuxiliaryData)
Tx == A!TxOf(TransactionBody, WitnessSet, A!AuxiliaryData)
=============================================================================
