----------------------------- MODULE ByronCodecs ----------------------------
(***************************************************************************)
(* The layouts of the Byron era (pallas-primitives/src/byron/model.rs).    *)
(* Keys, signatures and hashes are byte strings of definite length.        *)
(***************************************************************************)
EXTENDS PrimitiveCodecs

Blobs(n) == Tupled([i \in 1..n |-> Blob])
SlotId == Record(<<Epoch, U64>>)
\* A label without a layout of its own keeps the payload as bytes.
OtherCase == Case(9, "Other", <<Blob>>)
Address == Record(<<TagWrap(24, Blob), U32>>)
TxOut == Record(<<Address, U64>>)
TxIn == Variant(<<Case(0, "Variant0", <<CborWrap(Exactly(<<Hash, U32>>))>>), OtherCase>>)
Tx == Record(<<MaybeIndefArray(TxIn), MaybeIndefArray(TxOut), EmptyMap>>)
TxProof == Exactly(<<U32, Hash, Hash>>)
ValidatorScript == Exactly(<<U16, Blob>>)
Twit == Variant(<<
    Case(0, "PkWitness", <<CborWrap(Exactly(Blobs(2)))>>),
    Case(1, "ScriptWitness", <<CborWrap(Exactly(<<ValidatorScript, ValidatorScript>>))>>),
    Case(2, "RedeemWitness", <<CborWrap(Exactly(Blobs(2)))>>), OtherCase>>)
Witnesses == MaybeIndefArray(Twit)

(* The inside of an address (pallas-addresses/src/byron.rs). *)
AddrDistr == Variant(<<Case(0, "SingleKeyDistribution", <<Hash>>),
                       Case(1, "BootstrapEraDistribution", <<>>)>>)
\* Labels from 3 on are kept as they are.
AddrType == U32
AddrAttrProperty == Labelled(<<Case(0, "AddrDistr", <<AddrDistr>>),
                               Case(1, "DerivationPath", <<Blob>>),
                               Case(2, "NetworkTag", <<Blob>>)>>)
AddrAttrs == OrderPreservingProperties(AddrAttrProperty)
AddressPayload == Record(<<Hash, AddrAttrs, AddrType>>)

(* The shared-seed computation. *)
VssProof == Exactly(Blobs(3) \o <<MaybeIndefArray(Blob)>>)
SscComm == Exactly(<<Blob, Exactly(<<KeyValuePairs(Blob, MaybeIndefArray(Blob)),
                                     VssProof>>), Blob>>)
SscComms == TagWrap(TAG_SET, MaybeIndefArray(SscComm))
SscOpens == KeyValuePairs(Hash, Blob)
SscShares == KeyValuePairs(Hash, KeyValuePairs(Hash, MaybeIndefArray(Blob)))
SscCerts == TagWrap(TAG_SET, MaybeIndefArray(Exactly(<<Blob, Epoch, Blob, Blob>>)))
Ssc == Variant(<<Case(0, "Variant0", <<SscComms, SscCerts>>),
                 Case(1, "Variant1", <<SscOpens, SscCerts>>),
                 Case(2, "Variant2", <<SscShares, SscCerts>>),
                 Case(3, "Variant3", <<SscCerts>>)>>)
SscProof == Variant(<<Case(0, "Variant0", Blobs(2)), Case(1, "Variant1", Blobs(2)),
                      Case(2, "Variant2", Blobs(2)), Case(3, "Variant3", Blobs(1))>>)

(* Delegation and updates. *)
Dlg == Record(<<Epoch>> \o Blobs(3))
Lwdlg == Record(<<Exactly(<<Epoch, Epoch>>)>> \o Blobs(3))
BVer == Exactly(<<U16, U16, U8>>)
TxFeePol == Variant(<<Case(0, "Variant0", <<CborWrap(Exactly(<<SInt, SInt>>))>>),
                      OtherCase>>)
BVerMod == Record(Tupled([i \in 1..14 |-> ZeroOrOneArray(
    CASE i = 1 -> U16 [] i = 12 -> Exactly(<<U64, U64, U64>>) [] i = 13 -> TxFeePol
      [] OTHER -> U64)]))
SoftwareVersion == Exactly(<<Text, U32>>)
UpData == Exactly(Blobs(4))
UpProp == Record(<<Option(BVer), Option(BVerMod), Option(SoftwareVersion),
                   KeyValuePairs(Text, UpData), Option(EmptyMap), Option(Blob),
                   Option(Blob)>>)
UpVote == Record(<<Blob, Hash, Bool, Blob>>)
Up == Record(<<ZeroOrOneArray(UpProp), MaybeIndefArray(UpVote)>>)

(* Blocks. *)
BlockSig == Variant(<<Case(0, "Signature", <<Blob>>),
                      Case(1, "LwdlgSig", <<Exactly(<<Lwdlg, Blob>>)>>),
                      Case(2, "DlgSig", <<Exactly(<<Dlg, Blob>>)>>)>>)
BlockCons == Record(<<SlotId, Blob, MaybeIndefArray(U64), BlockSig>>)
BlockHeadEx == Record(<<BVer, SoftwareVersion, Option(EmptyMap), Hash>>)
BlockProof == Record(<<TxProof, SscProof, Hash, Hash>>)
BlockHead == Record(<<U32, Hash, BlockProof, BlockCons, BlockHeadEx>>)
TxPayload == Record(<<KeepRaw(Tx), KeepRaw(Witnesses)>>)
BlockBody == Record(<<MaybeIndefArray(TxPayload), Ssc, MaybeIndefArray(Dlg), Up>>)
Block == Record(<<KeepRaw(BlockHead), BlockBody, MaybeIndefArray(EmptyMap)>>)
EbbCons == Record(<<Epoch, MaybeIndefArray(U64)>>)
EbbHead == Record(<<U32, Hash, Hash, EbbCons, Exactly(<<EmptyMap>>)>>)
EbBlock == Record(<<KeepRaw(EbbHead), MaybeIndefArray(Hash), MaybeIndefArray(EmptyMap)>>)
=============================================================================
