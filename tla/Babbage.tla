------------------------------ MODULE Babbage ------------------------------
(***************************************************************************)
(* The Babbage rules of pallas-validate (phase1/babbage.rs): reference     *)
(* inputs and scripts, inline datums, collateral return, and the languages *)
(* that the block and the shape of the transaction allow.                  *)
(***************************************************************************)
EXTENDS LedgerTypes

(* The outputs as_babbage recognises.                                      *)
IsBabbage(i, utxos) == i \in DOMAIN utxos /\ utxos[i].era = "Babbage"

check_ins_not_empty(tx) == Ensure(tx.ins # <<>>, "TxInsEmpty")

check_all_ins_in_utxos(tx, utxos) ==
    EachOk(tx.ins, LAMBDA i : Ensure(i \in DOMAIN utxos, "InputNotInUTxO"))
      && EachOk(tx.coll, LAMBDA i : Ensure(i \in DOMAIN utxos, "CollateralNotInUTxO"))
      && EachOk(tx.refs, LAMBDA i : Ensure(i \in DOMAIN utxos, "ReferenceInputNotInUTxO"))

check_lower_bound(tx, slot) == Ensure(IsSome(tx.start) => slot >= tx.start.is, "BlockPrecedesValInt")
check_upper_bound(tx, slot) == Ensure(IsSome(tx.ttl) => tx.ttl.is >= slot, "BlockExceedsValInt")
check_tx_validity_interval(tx, slot) == check_lower_bound(tx, slot) && check_upper_bound(tx, slot)

check_min_fee(tx, pp) ==
    Ensure(tx.fee >= (pp.minfee_b + pp.minfee_a * tx.size) % Word32, "FeeBelowMin")

presence_of_plutus_scripts(tx) == tx.v1 # <<>> \/ tx.v2 # <<>>

----------------------------------------------------------------------------
(* Collateral.                                                             *)

check_collaterals_number(coll, pp) ==
    Ensure(coll # <<>>, "CollateralMissing")
      && Ensure(Len(coll) <= pp.max_collateral_inputs, "TooManyCollaterals")

check_collaterals_address(coll, utxos) ==
    EachOk(coll, LAMBDA i :
        IF ~IsBabbage(i, utxos) THEN "Ok"
        ELSE Ensure(utxos[i].addr.kind \in {"Key", "Script"}, "InputDecoding")
               && Ensure(utxos[i].addr.kind = "Key", "CollateralNotVKeyLocked"))

(* unimplemented!() for an output of a later era.                          *)
val_from_multi_era_output(out) ==
    CASE out.era = "Byron" -> Val(Coin(out.value.coin))
      [] out.era \in {"Alonzo", "Babbage"} -> Val(out.value)
      [] OTHER -> Fail("Panic")

AddOutput(acc, out) ==
    LET v == val_from_multi_era_output(out)
    IN IF v.err = "Ok" THEN add_values(acc, v.val, "NegativeValue") ELSE v

(* Mutant: what comes back is not subtracted.                              *)
CollateralGross(tx, utxos, pp) ==
    LET coll_input == TryFold(LAMBDA acc, i : AddOutput(acc, utxos[i]), empty_value, tx.coll)
    IN coll_input.err
         && Ensure(coll_input.val.coin * 100 >= tx.fee * pp.collateral_percentage, "CollateralMinLovelace")

check_collaterals_assets(tx, utxos, pp) ==
    LET coll_input == TryFold(LAMBDA acc, i : AddOutput(acc, utxos[i]), empty_value, tx.coll)
        coll_return == IF IsSome(tx.coll_return) THEN tx.coll_return.is.value ELSE Coin(0)
        paid == lovelace_diff_or_fail(coll_input.val, coll_return, "NonLovelaceCollateral")
    IN coll_input.err && paid.err
         && Ensure(paid.val * 100 >= tx.fee * pp.collateral_percentage, "CollateralMinLovelace")
         && Ensure(IsSome(tx.total_coll) => paid.val = tx.total_coll.is, "CollateralAnnotation")

check_collaterals(tx, utxos, pp) ==
    check_collaterals_number(tx.coll, pp) && check_collaterals_address(tx.coll, utxos)
      && check_collaterals_assets(tx, utxos, pp)

check_fee(tx, utxos, pp) ==
    check_min_fee(tx, pp)
      && IF presence_of_plutus_scripts(tx) THEN check_collaterals(tx, utxos, pp) ELSE "Ok"

----------------------------------------------------------------------------
(* Values.                                                                 *)

get_consumed(tx, utxos) == TryFold(LAMBDA acc, i : AddOutput(acc, utxos[i]), empty_value, tx.ins)

get_produced(tx) ==
    TryFold(LAMBDA acc, o : add_values(acc, o.value, "NegativeValue"), empty_value, tx.outs)

check_preservation_of_value(tx, utxos) ==
    LET consumed == get_consumed(tx, utxos)
        produced == get_produced(tx)
        output == add_values(produced.val, Coin(tx.fee), "NegativeValue")
        input == IF IsSome(tx.mint) THEN add_minted_value(consumed.val, tx.mint.is, "NegativeValue")
                                    ELSE consumed
    IN consumed.err && produced.err && output.err && input.err
         && Ensure(values_are_equal(input.val, output.val), "PreservationOfValue")

compute_min_lovelace(out, pp) == pp.ada_per_utxo_byte * (get_val_size_in_words(out.value) + 160)

check_min_lovelace(tx, pp) ==
    EachOk(tx.outs, LAMBDA o : Ensure(o.value.coin >= compute_min_lovelace(o, pp),
                                      "MinLovelaceUnreached"))

check_output_val_size(tx, pp) ==
    EachOk(tx.outs, LAMBDA o : Ensure(get_val_size_in_words(o.value) <= pp.max_value_size,
                                      "MaxValSizeExceeded"))

check_tx_outs_network_id(tx, net) ==
    EachOk(tx.outs, LAMBDA o : Ensure(o.addr.kind \in {"Key", "Script"}, "AddressDecoding")
                                 && Ensure(o.addr.net = net, "OutputWrongNetworkID"))
check_tx_network_id(tx, net) == Ensure(IsSome(tx.net) => tx.net.is = net, "TxWrongNetworkID")
check_network_id(tx, net) == check_tx_outs_network_id(tx, net) && check_tx_network_id(tx, net)

check_tx_size(tx, pp) == Ensure(tx.size <= pp.max_transaction_size, "MaxTxSizeExceeded")

check_tx_ex_units(tx, pp) ==
    IF ~presence_of_plutus_scripts(tx) THEN "Ok"
    ELSE Ensure(tx.redeemers # <<>>, "RedeemerMissing")
           && Ensure(/\ SumUnits(tx.redeemers, LAMBDA r : r.mem) <= pp.max_mem
                     /\ SumUnits(tx.redeemers, LAMBDA r : r.steps) <= pp.max_steps,
                     "TxExUnitsExceeded")

----------------------------------------------------------------------------
(* Scripts: in the witness set, or in an output of a reference input.      *)

get_script_hash_from_reference_input(i, utxos) ==
    IF IsBabbage(i, utxos) /\ ~utxos[i].legacy /\ IsSome(utxos[i].script_ref)
    THEN Some(utxos[i].script_ref.is.id) ELSE None

get_reference_script_hashes(tx, utxos) ==
    {s.is : s \in {o \in {get_script_hash_from_reference_input(i, utxos) : i \in Elems(tx.refs)} :
                     IsSome(o)}}

get_script_hash_from_input(i, utxos) == IF IsBabbage(i, utxos) THEN ScriptOf(utxos[i]) ELSE None

get_script_hashes_from_inputs(tx, utxos) ==
    {s.is : s \in {o \in {get_script_hash_from_input(i, utxos) : i \in Elems(tx.ins)} : IsSome(o)}}

WitnessScripts(tx) == Elems(tx.native) \cup Elems(tx.v1) \cup Elems(tx.v2)

check_minting(tx, utxos) ==
    Ensure(MintPolicies(tx) \subseteq WitnessScripts(tx) \cup get_reference_script_hashes(tx, utxos),
           "MintingLacksPolicy")

check_input_scripts(tx, utxos, ref) ==
    Ensure(get_script_hashes_from_inputs(tx, utxos) \subseteq (WitnessScripts(tx) \ ref) \cup ref,
           "ScriptWitnessMissing")

check_minting_policies(tx, ref) ==
    Ensure(MintPolicies(tx) \subseteq (WitnessScripts(tx) \ ref) \cup ref, "MintingLacksPolicy")

(* A witness that is also referenced is not looked at.                     *)
check_needed_scripts(tx, utxos, ref) ==
    LET needed == get_script_hashes_from_inputs(tx, utxos) \cup MintPolicies(tx) \cup ref
    IN check_input_scripts(tx, utxos, ref) && check_minting_policies(tx, ref)
         && Ensure(Elems(tx.native) \subseteq needed, "UnneededNativeScript")
         && Ensure(Elems(tx.v1) \subseteq needed, "UnneededPlutusV1Script")
         && Ensure(Elems(tx.v2) \subseteq needed, "UnneededPlutusV2Script")

----------------------------------------------------------------------------
(* Datums: out.datum is a datum hash, out.inline a datum in the output.    *)

check_input_datum_hash_in_witness_set(tx, utxos) ==
    EachOk(tx.ins, LAMBDA i :
        Ensure(IsBabbage(i, utxos), "InputNotInUTxO")
          && Ensure(IsSome(utxos[i].datum) => utxos[i].datum.is \in Elems(tx.datums), "DatumMissing"))

find_datum(d, tx, utxos) ==
    Ensure(\/ \E o \in Elems(tx.outs) : HasSome(o.datum, d)
           \/ IsSome(tx.coll_return) /\ HasSome(tx.coll_return.is.datum, d)
           \/ \E i \in Elems(tx.refs) : IsBabbage(i, utxos) /\ HasSome(utxos[i].datum, d),
           "UnneededDatum")

check_remaining_datums(tx, utxos) ==
    EachOk(Indexed(tx.datums), LAMBDA k :
        IF k \in find_plutus_datum_in_witness_set(tx, utxos)
        THEN "Ok" ELSE find_datum(tx.datums[k], tx, utxos))

check_datums(tx, utxos) ==
    check_input_datum_hash_in_witness_set(tx, utxos) && check_remaining_datums(tx, utxos)

----------------------------------------------------------------------------
(* Redeemers.  Every script input asks for one, a policy only when its     *)
(* script is a Plutus witness or a reference script of any language.       *)

is_phase_2_script(policy, tx, ref) == policy \in Elems(tx.v1) \cup Elems(tx.v2) \cup ref

mk_plutus_script_redeemer_pointers(tx, utxos, ref) ==
    LET ins == SortRefs(tx.ins)
        policies == SortHashes(MintPolicies(tx))
    IN {<<"Spend", i - 1>> : i \in {j \in DOMAIN ins : IsSome(get_script_hash_from_input(ins[j], utxos))}}
         \cup {<<"Mint", i - 1>> : i \in {j \in DOMAIN policies : is_phase_2_script(policies[j], tx, ref)}}

redeemer_pointers_coincide(pointers, scripts) ==
    Ensure(pointers \subseteq scripts, "UnneededRedeemer")
      && Ensure(scripts \subseteq pointers, "RedeemerMissing")

check_redeemers(tx, utxos, ref) ==
    redeemer_pointers_coincide(RedeemerPointers(tx), mk_plutus_script_redeemer_pointers(tx, utxos, ref))

----------------------------------------------------------------------------
(* Signatures.                                                             *)

check_required_signers(tx) ==
    EachOk(tx.signers, LAMBDA k : KeyWitness(k, tx.vkeys, "ReqSignerMissing", "ReqSignerWrongSig"))

check_vk_wit(key, wits) == KeyWitness(key, wits, "VKWitnessMissing", "VKWrongSignature")

check_remaining_vk_wits(wits, covered) ==
    LET rest == DOMAIN wits \ covered
    IN Ensure(rest = {} \/ verify_signature(wits[Min(rest)]), "VKWrongSignature")

check_vkey_input_wits(tx, utxos) ==
    LET Input(i) ==
            CASE ~IsBabbage(i, utxos) -> "Ok"
              [] utxos[i].addr.kind = "Key" -> check_vk_wit(utxos[i].addr.id, tx.vkeys)
              [] utxos[i].addr.kind = "Script" -> "Ok"
              [] OTHER -> "InputDecoding"
        keys == {utxos[i].addr.id : i \in {j \in Elems(tx.ins \o tx.coll) :
                     IsBabbage(j, utxos) /\ utxos[j].addr.kind = "Key"}}
    IN Ensure(tx.vkeys # <<>>, "VKWitnessMissing") && EachOk(tx.ins \o tx.coll, Input)
         && check_remaining_vk_wits(tx.vkeys, CoveredBy(tx.vkeys, keys))

check_witness_set(tx, utxos) ==
    LET ref == get_reference_script_hashes(tx, utxos)
    IN check_needed_scripts(tx, utxos, ref) && check_datums(tx, utxos)
         && check_redeemers(tx, utxos, ref) && check_required_signers(tx)
         && check_vkey_input_wits(tx, utxos)

----------------------------------------------------------------------------
(* Languages and the integrity of script data.                             *)

(* Where the network introduces PlutusV2.                                  *)
block_langs(magic, net, slot) ==
    LET v2_from == CASE magic = 1 /\ net = 0 -> 3974409
                     [] magic = 2 /\ net = 0 -> 777610
                     [] OTHER -> 72748820
    IN IF slot >= v2_from THEN {"V1", "V2"} ELSE {"V1"}

compute_all_outputs(tx, utxos) ==
    {utxos[i] : i \in {j \in Elems(tx.ins \o tx.refs) : IsBabbage(j, utxos)}} \cup Elems(tx.outs)

any_byron_addresses(outs) == \E o \in outs : o.addr.kind \notin {"Key", "Script"}

any_datums_or_script_refs(outs) ==
    \E o \in outs : ~o.legacy /\ (IsSome(o.script_ref) \/ IsSome(o.inline))

allowed_langs(tx, utxos) ==
    LET outs == compute_all_outputs(tx, utxos)
    IN CASE any_byron_addresses(outs) -> {}
         [] ~any_byron_addresses(outs) /\ (any_datums_or_script_refs(outs) \/ tx.refs # <<>>) -> {"V2"}
         [] OTHER -> {"V1", "V2"}

available_langs(tx, utxos, magic, net, slot) ==
    block_langs(magic, net, slot) \cap allowed_langs(tx, utxos)

tx_languages(tx, utxos) ==
    LET referenced == {utxos[i].script_ref.is.lang :
                         i \in {j \in Elems(tx.refs) : IsBabbage(j, utxos) /\ ~utxos[j].legacy
                                                       /\ IsSome(utxos[j].script_ref)}}
    IN {l \in {"V1", "V2"} : \/ l \in referenced
                             \/ l = "V1" /\ tx.v1 # <<>>
                             \/ l = "V2" /\ tx.v2 # <<>>}

check_languages(tx, utxos, magic, net, slot) ==
    Ensure(tx_languages(tx, utxos) \subseteq available_langs(tx, utxos, magic, net, slot),
           "UnsupportedPlutusLanguage")

check_auxiliary_data(tx) == Ensure(tx.aux_hash = tx.aux, "MetadataHash")

(* The cost models in force: a period of the network, and the languages;   *)
(* before PlutusV2 there is one model, and no language stands for both.    *)
cost_model_cbor(langs, magic, net, slot) ==
    LET starts == CASE magic = 1 /\ net = 0 -> <<3974409, 20390404>>
                    [] magic = 2 /\ net = 0 -> <<777610, 1900893, 9244811>>
                    [] OTHER -> <<72748820, 84844885>>
        period == Cardinality({p \in DOMAIN starts : slot >= starts[p]})
    IN <<period, IF period = 0 THEN {"V1"} ELSE IF langs = {} THEN {"V1", "V2"} ELSE langs>>

(* The hash with the datums as an indefinite or as a definite array.       *)
compute_script_integrity_hash(tx, langs, magic, net, slot) ==
    LET model == cost_model_cbor(langs, magic, net, slot)
    IN {<<tx.redeemers, "indef", tx.datums, model>>, <<tx.redeemers, "def", tx.datums, model>>}

check_script_data_hash(tx, utxos, magic, net, slot) ==
    Ensure(IF IsSome(tx.sdh)
           THEN /\ tx.data_present /\ tx.redeemers # <<>>
                /\ tx.sdh.is \in compute_script_integrity_hash(tx, tx_languages(tx, utxos),
                                                               magic, net, slot)
           ELSE tx.datums = <<>> /\ tx.redeemers = <<>>,
           "ScriptIntegrityHash")

validate_babbage_tx(tx, utxos, pp, slot, magic, net) ==
    check_ins_not_empty(tx) && check_all_ins_in_utxos(tx, utxos)
      && check_tx_validity_interval(tx, slot) && check_fee(tx, utxos, pp)
      && check_preservation_of_value(tx, utxos) && check_min_lovelace(tx, pp)
      && check_output_val_size(tx, pp) && check_network_id(tx, net) && check_tx_size(tx, pp)
      && check_tx_ex_units(tx, pp) && check_minting(tx, utxos) && check_witness_set(tx, utxos)
      && check_languages(tx, utxos, magic, net, slot)
      && check_auxiliary_data(tx) && check_script_data_hash(tx, utxos, magic, net, slot)

=============================================================================
