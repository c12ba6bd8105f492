--------------------------- MODULE PrimitiveCodecs --------------------------
(***************************************************************************)
(* The layouts pallas-primitives shares between the eras: lib.rs,          *)
(* plutus_data.rs, metadatum.rs, native_script.rs.                         *)
(***************************************************************************)
EXTENDS Cbor

\* How deep the recursive types are unrolled: every constructor around every
\* leaf.
Depth == 1

(* lib.rs *)
Hash == Blob
Coin == U64
Epoch == U64
CostModel == List(SInt)
Labels(names) == Tupled([i \in 1..Len(names) |-> Case(i - 1, names[i], <<>>)])
\* Written with tag 30; any tag is read.
RationalNumber == Tagged(30, Tuple(<<U64, U64>>))
ExUnits == Record(<<U64, U64>>)
ExUnitPrices == Record(<<RationalNumber, RationalNumber>>)
NetworkId == Index(Labels(<<"Testnet", "Mainnet">>))
Nonce == Record(<<Index(Labels(<<"NeutralNonce", "Nonce">>)), Option(Hash)>>)
PlutusScript == Bytes
PoolMetadata == Record(<<Text, Bytes>>)
ProtocolVersion == Exactly(<<U64, U64>>)
Relay == Variant(<<
    Case(0, "SingleHostAddr", <<Option(U32), Option(Bytes), Option(Bytes)>>),
    Case(1, "SingleHostName", <<Option(U32), Text>>),
    Case(2, "MultiHostName", <<Text>>)>>)
StakeCredential == Flat(<<Case(1, "ScriptHash", <<Hash>>),
                          Case(0, "AddrKeyhash", <<Hash>>)>>)
TransactionInput == Record(<<Hash, U64>>)
VrfCert == Record(<<Bytes, Bytes>>)

(* The trees below are read and written with a stack of open nodes         *)
(* (pallas-codec/src/tree.rs): a header, the children, the end of the node. *)

(* plutus_data.rs *)
BigInt == ByType(<<
    OfType(Ints, "Int", SInt),
    OfTag({2}, "BigUInt", Tagged(2, BoundedBytes)),
    OfTag({3}, "BigNInt", Tagged(3, BoundedBytes))>>)
\* One tag of each of the ranges 121..127 and 1280..1400 is written.
Constr(of) == ByType(<<
    OfTag(121..127, "Compact", Tagged(121, MaybeIndefArray(of))),
    OfTag(1280..1400, "Compact2", Tagged(1280, MaybeIndefArray(of))),
    OfTag({102}, "General", Tagged(102, Tuple(<<U64, MaybeIndefArray(of)>>)))>>)
PlutusData ==
    LET unrolled[d \in 0..Depth] ==
          LET of == unrolled[d - 1]
              leaves == <<[OfType(Ints \cup {"tag"}, "BigInt", BigInt)
                              EXCEPT !.tags = {2, 3}],
                          OfType({"bytes", "bytes*"}, "BoundedBytes", BoundedBytes)>>
          IN  ByType(IF d = 0 THEN leaves
                     ELSE leaves \o <<OfType({"tag"}, "Constr", Constr(of)),
                                      OfType(Maps, "Map", KeyValuePairs(of, of)),
                                      OfType(Arrays, "Array", MaybeIndefArray(of))>>)
    IN  unrolled[Depth]

(* metadatum.rs: the form of a map is kept, that of an array is not. *)
Metadatum ==
    LET unrolled[d \in 0..Depth] ==
          LET of == unrolled[d - 1]
              leaves == <<OfType(Ints, "Int", SInt),
                          OfType({"bytes", "bytes*"}, "Bytes", Bytes),
                          OfType({"text"}, "Text", Text)>>
          IN  ByType(IF d = 0 THEN leaves
                     ELSE leaves \o <<OfType(Arrays, "Array", List(of)),
                                      OfType(Maps, "Map", KeyValuePairs(of, of))>>)
    IN  unrolled[Depth]
Metadata == Map(U64, Metadatum)

(* native_script.rs: an array of definite length; surplus fields are       *)
(* skipped.  `more` holds the leaves an era adds.                          *)
NativeScriptWith(more) ==
    LET unrolled[d \in 0..Depth] ==
          LET of == List(unrolled[d - 1])
              leaves == <<Case(0, "ScriptPubkey", <<Hash>>),
                          Case(4, "InvalidBefore", <<U64>>),
                          Case(5, "InvalidHereafter", <<U64>>)>> \o more
          IN  Flat(IF d = 0 THEN leaves
                   ELSE leaves \o <<Case(1, "ScriptAll", <<of>>),
                                    Case(2, "ScriptAny", <<of>>),
                                    Case(3, "ScriptNOfK", <<SInt, of>>)>>)
    IN  unrolled[Depth]
NativeScript == NativeScriptWith(<<>>)
=============================================================================
