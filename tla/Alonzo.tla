------------------------------ MODULE Alonzo ------------------------------
(***************************************************************************)
(* The Alonzo rules of pallas-validate (phase1/alonzo.rs).                 *)
(***************************************************************************)
EXTENDS LedgerTypes

check_ins_not_empty(tx) == Ensure(tx.ins # <<>>, "TxInsEmpty")

check_ins_and_collateral_in_utxos(tx, utxos) ==
    EachOk(tx.ins, LAMBDA i : Ensure(i \in DOMAIN utxos, "InputNotInUTxO"))
      && EachOk(tx.coll, LAMBDA i : Ensure(i \in DOMAIN utxos, "CollateralNotInUTxO"))

check_lower_bound(tx, slot) == Ensure(IsSome(tx.start) => slot >= tx.start.is, "BlockPrecedesValInt")
check_upper_bound(tx, slot) == Ensure(IsSome(tx.ttl) => tx.ttl.is >= slot, "BlockExceedsValInt")
check_tx_validity_interval(tx, slot) == check_lower_bound(tx, slot) && check_upper_bound(tx, slot)

check_min_fee(tx, pp) ==
    Ensure(tx.fee >= (pp.minfee_b + pp.minfee_a * tx.size) % Word32, "FeeBelowMin")

presence_of_plutus_scripts(tx) == tx.v1 # <<>>

----------------------------------------------------------------------------
(* Collateral.  Only an output of an Alonzo-compatible era is looked at;   *)
(* every single one covers the percentage of the fee.                      *)

check_collaterals_number(coll, pp) ==
    Ensure(coll # <<>>, "CollateralMissing")
      && Ensure(Len(coll) <= pp.max_collateral_inputs, "TooManyCollaterals")

check_collaterals_address(coll, utxos) ==
    EachOk(coll, LAMBDA i :
        IF utxos[i].era # "Alonzo" THEN "Ok"
        ELSE Ensure(utxos[i].addr.kind \in {"Key", "Script"}, "InputDecoding")
               && Ensure(utxos[i].addr.kind = "Key", "CollateralNotVKeyLocked"))

check_collaterals_assets(tx, utxos, pp) ==
    EachOk(tx.coll, LAMBDA i :
        IF utxos[i].era # "Alonzo" THEN "Ok"
        ELSE Ensure(utxos[i].value.coin * 100 >= tx.fee * pp.collateral_percentage,
                    "CollateralMinLovelace")
               && Ensure(utxos[i].value.ma = NoAssets, "NonLovelaceCollateral"))

check_collaterals(tx, utxos, pp) ==
    check_collaterals_number(tx.coll, pp) && check_collaterals_address(tx.coll, utxos)
      && check_collaterals_assets(tx, utxos, pp)

check_fee(tx, utxos, pp) ==
    check_min_fee(tx, pp)
      && IF presence_of_plutus_scripts(tx) THEN check_collaterals(tx, utxos, pp) ELSE "Ok"

----------------------------------------------------------------------------
(* Values.                                                                 *)

get_consumed(tx, utxos) ==
    TryFold(LAMBDA acc, i :
                CASE utxos[i].era = "Alonzo" -> add_values(acc, utxos[i].value, "NegativeValue")
                  [] utxos[i].era = "Byron" -> add_values(acc, Coin(utxos[i].value.coin), "NegativeValue")
                  [] OTHER -> Fail("InputNotInUTxO"),
            empty_value, tx.ins)

(* Mutant: the last output is left out.                                    *)
ProducedButLast(tx) ==
    TryFold(LAMBDA acc, o : add_values(acc, o.value, "NegativeValue"), empty_value,
            SubSeq(tx.outs, 1, Len(tx.outs) - 1))

get_produced(tx) ==
    TryFold(LAMBDA acc, o : add_values(acc, o.value, "NegativeValue"), empty_value, tx.outs)

check_preservation_of_value(tx, utxos) ==
    LET consumed == get_consumed(tx, utxos)
        produced == get_produced(tx)
        output == add_values(produced.val, Coin(tx.fee), "NegativeValue")
        input == IF IsSome(tx.mint) THEN add_minted_value(consumed.val, tx.mint.is, "NegativeValue")
                                    ELSE consumed
    IN consumed.err && produced.err && output.err && input.err
         && Ensure(values_are_equal(input.val, output.val), "PreservationOfValue")

compute_min_lovelace(out, pp) ==
    pp.ada_per_utxo_byte * (get_val_size_in_words(out.value) + IF IsSome(out.datum) THEN 37 ELSE 27)

check_min_lovelace(tx, pp) ==
    EachOk(tx.outs, LAMBDA o : Ensure(o.value.coin >= compute_min_lovelace(o, pp),
                                      "MinLovelaceUnreached"))

check_output_val_size(tx, pp) ==
    EachOk(tx.outs, LAMBDA o : Ensure(get_val_size_in_words(o.value) <= pp.max_value_size,
                                      "MaxValSizeExceeded"))

check_tx_outs_network_id(tx, net) ==
    EachOk(tx.outs, LAMBDA o : Ensure(o.addr.kind \in {"Key", "Script"}, "AddressDecoding")
                                 && Ensure(o.addr.net = net, "OutputWrongNetworkID"))
check_tx_network_id(tx, net) == Ensure(IsSome(tx.net) => tx.net.is = net, "TxWrongNetworkID")
check_network_id(tx, net) == check_tx_outs_network_id(tx, net) && check_tx_network_id(tx, net)

check_tx_size(tx, pp) == Ensure(tx.size <= pp.max_transaction_size, "MaxTxSizeExceeded")

check_tx_ex_units(tx, pp) ==
    IF ~presence_of_plutus_scripts(tx) THEN "Ok"
    ELSE Ensure(tx.redeemers # <<>>, "RedeemerMissing")
           && Ensure(/\ SumUnits(tx.redeemers, LAMBDA r : r.mem) <= pp.max_mem
                     /\ SumUnits(tx.redeemers, LAMBDA r : r.steps) <= pp.max_steps,
                     "TxExUnitsExceeded")

----------------------------------------------------------------------------
(* The witness set.                                                        *)

get_script_hash_from_input(i, utxos) ==
    IF i \in DOMAIN utxos /\ utxos[i].era = "Alonzo" THEN ScriptOf(utxos[i]) ELSE None

get_script_hashes(tx, utxos) ==
    {s.is : s \in {o \in {get_script_hash_from_input(i, utxos) : i \in Elems(tx.ins)} : IsSome(o)}}

check_script_inputs(tx, utxos) ==
    Ensure(get_script_hashes(tx, utxos) \subseteq Elems(tx.native) \cup Elems(tx.v1),
           "ScriptWitnessMissing")

check_minting_policies(tx) ==
    Ensure(MintPolicies(tx) \subseteq Elems(tx.native) \cup Elems(tx.v1), "MintingLacksPolicy")

check_needed_scripts_are_included(tx, utxos) ==
    LET needed == get_script_hashes(tx, utxos) \cup MintPolicies(tx)
    IN check_script_inputs(tx, utxos) && check_minting_policies(tx)
         && Ensure(Elems(tx.native) \subseteq needed, "UnneededNativeScript")
         && Ensure(Elems(tx.v1) \subseteq needed, "UnneededPlutusScript")

check_input_datum_hash_in_witness_set(tx, utxos) ==
    EachOk(tx.ins, LAMBDA i :
        Ensure(utxos[i].era = "Alonzo", "InputNotInUTxO")
          && Ensure(IsSome(utxos[i].datum) => utxos[i].datum.is \in Elems(tx.datums), "DatumMissing"))

check_datums_from_witness_set_in_inputs_or_outputs(tx, utxos) ==
    EachOk(Indexed(tx.datums), LAMBDA k :
        Ensure(\/ k \in find_plutus_datum_in_witness_set(tx, utxos)
               \/ \E o \in Elems(tx.outs) : HasSome(o.datum, tx.datums[k]), "UnneededDatum"))

check_datums(tx, utxos) ==
    check_input_datum_hash_in_witness_set(tx, utxos)
      && check_datums_from_witness_set_in_inputs_or_outputs(tx, utxos)

(* A pointer is <<tag, index>>, the index from 0 in the sorted inputs (with *)
(* their duplicates) or policies.                                          *)
mk_plutus_script_redeemer_pointers(tx, utxos) ==
    LET ins == SortRefs(tx.ins)
        policies == SortHashes(MintPolicies(tx))
        Locked(i) == LET s == get_script_hash_from_input(i, utxos)
                     IN IsSome(s) /\ s.is \in Elems(tx.v1)
    IN {<<"Spend", i - 1>> : i \in {j \in DOMAIN ins : Locked(ins[j])}}
         \cup {<<"Mint", i - 1>> : i \in {j \in DOMAIN policies : policies[j] \in Elems(tx.v1)}}

redeemer_pointers_coincide(pointers, scripts) ==
    Ensure(pointers \subseteq scripts, "UnneededRedeemer")
      && Ensure(scripts \subseteq pointers, "RedeemerMissing")

check_redeemers(tx, utxos) ==
    redeemer_pointers_coincide(RedeemerPointers(tx), mk_plutus_script_redeemer_pointers(tx, utxos))

check_required_signers(tx) ==
    EachOk(tx.signers, LAMBDA k : KeyWitness(k, tx.vkeys, "ReqSignerMissing", "ReqSignerWrongSig"))

check_vk_wit(key, wits) == KeyWitness(key, wits, "VKWitnessMissing", "VKWrongSignature")

(* The first witness that covers no input decides for all the others.      *)
check_remaining_vk_wits(wits, covered) ==
    LET rest == DOMAIN wits \ covered
    IN Ensure(rest = {} \/ verify_signature(wits[Min(rest)]), "VKWrongSignature")

check_vkey_input_wits(tx, utxos) ==
    LET Input(i) ==
            CASE utxos[i].era # "Alonzo" -> "Ok"
              [] utxos[i].addr.kind = "Key" -> check_vk_wit(utxos[i].addr.id, tx.vkeys)
              [] utxos[i].addr.kind = "Script" -> "Ok"
              [] OTHER -> "InputDecoding"
        keys == {utxos[i].addr.id : i \in {j \in Elems(tx.ins \o tx.coll) :
                     utxos[j].era = "Alonzo" /\ utxos[j].addr.kind = "Key"}}
    IN Ensure(tx.vkeys # <<>>, "VKWitnessMissing") && EachOk(tx.ins \o tx.coll, Input)
         && check_remaining_vk_wits(tx.vkeys, CoveredBy(tx.vkeys, keys))

check_witness_set(tx, utxos) ==
    check_needed_scripts_are_included(tx, utxos) && check_datums(tx, utxos)
      && check_redeemers(tx, utxos) && check_required_signers(tx) && check_vkey_input_wits(tx, utxos)

check_auxiliary_data(tx) == Ensure(tx.aux_hash = tx.aux, "MetadataHash")

compute_script_integrity_hash(tx) == <<tx.redeemers, tx.datums>>

check_script_data_hash(tx) ==
    Ensure(IF IsSome(tx.sdh)
           THEN /\ tx.data_present /\ tx.redeemers # <<>>
                /\ tx.sdh.is = compute_script_integrity_hash(tx)
           ELSE tx.datums = <<>> /\ tx.redeemers = <<>>,
           "ScriptIntegrityHash")

check_minting(tx) ==
    Ensure(MintPolicies(tx) \subseteq Elems(tx.native) \cup Elems(tx.v1), "MintingLacksPolicy")

validate_alonzo_tx(tx, utxos, pp, slot, net) ==
    check_ins_not_empty(tx) && check_ins_and_collateral_in_utxos(tx, utxos)
      && check_tx_validity_interval(tx, slot) && check_fee(tx, utxos, pp)
      && check_preservation_of_value(tx, utxos) && check_min_lovelace(tx, pp)
      && check_output_val_size(tx, pp) && check_network_id(tx, net) && check_tx_size(tx, pp)
      && check_tx_ex_units(tx, pp) && check_witness_set(tx, utxos)
      && check_auxiliary_data(tx) && check_script_data_hash(tx) && check_minting(tx)

=============================================================================
