------------------------------- MODULE Conway -------------------------------
(***************************************************************************)
(* The Conway rules of pallas-validate (phase1/conway.rs) with the script  *)
(* data hash of pallas-primitives (conway/script_data.rs).                 *)
(***************************************************************************)
EXTENDS LedgerTypes

(* The outputs as_conway recognises.                                       *)
IsConway(i, utxos) == i \in DOMAIN utxos /\ utxos[i].era = "Conway"

check_ins_not_empty(tx) == Ensure(tx.ins # <<>>, "TxInsEmpty")

check_all_ins_in_utxos(tx, utxos) ==
    EachOk(tx.ins, LAMBDA i : Ensure(i \in DOMAIN utxos, "InputNotInUTxO"))
      && EachOk(tx.coll, LAMBDA i : Ensure(i \in DOMAIN utxos, "CollateralNotInUTxO"))
      && EachOk(tx.refs, LAMBDA i : Ensure(i \in DOMAIN utxos, "ReferenceInputNotInUTxO"))

check_lower_bound(tx, slot) == Ensure(IsSome(tx.start) => slot >= tx.start.is, "BlockPrecedesValInt")
check_upper_bound(tx, slot) == Ensure(IsSome(tx.ttl) => tx.ttl.is >= slot, "BlockExceedsValInt")
check_tx_validity_interval(tx, slot) == check_lower_bound(tx, slot) && check_upper_bound(tx, slot)

check_min_fee(tx, pp) ==
    Ensure(tx.fee >= (pp.minfee_b + pp.minfee_a * tx.size) % Word32, "FeeBelowMin")

presence_of_plutus_scripts(tx) == tx.v1 # <<>> \/ tx.v2 # <<>> \/ tx.v3 # <<>>

----------------------------------------------------------------------------
(* Collateral.                                                             *)

(* The value of an output of any era as a Conway value, which holds no     *)
(* zero: what is zero is dropped.                                          *)
into_conway(v) ==
    LET Positive(p) == {a \in DOMAIN v.ma[p] : v.ma[p][a] > 0}
        kept == {p \in DOMAIN v.ma : Positive(p) # {}}
    IN IF kept = {} THEN Coin(v.coin)
       ELSE Multiasset(v.coin, [p \in kept |-> [a \in Positive(p) |-> v.ma[p][a]]])

val_from_multi_era_output(out) == IF out.era = "Conway" THEN out.value ELSE into_conway(out.value)

(* A legacy output of the transaction is converted with unwrap().          *)
OutputValue(out) ==
    IF out.legacy /\ out.value.multi
    THEN LET ma == conway_coerce_to_coin(out.value.ma)
         IN IF ma.err = "Ok" THEN Val(out.value) ELSE ma
    ELSE Val(out.value)

SumValues(vals) == TryFold(LAMBDA acc, v : conway_add_values(acc, v, "NegativeValue"),
                           Head(vals), Tail(vals))

check_collaterals_number(coll, pp) ==
    Ensure(coll # <<>>, "CollateralMissing")
      && Ensure(Len(coll) <= pp.max_collateral_inputs, "TooManyCollaterals")

check_collaterals_address(coll, utxos) ==
    EachOk(coll, LAMBDA i :
        IF ~IsConway(i, utxos) THEN "Ok"
        ELSE Ensure(utxos[i].addr.kind \in {"Key", "Script"}, "InputDecoding")
               && Ensure(utxos[i].addr.kind = "Key", "CollateralNotVKeyLocked"))

check_collaterals_assets(tx, utxos, pp) ==
    LET coll_input == SumValues([c \in DOMAIN tx.coll |-> val_from_multi_era_output(utxos[tx.coll[c]])])
        coll_return == IF IsSome(tx.coll_return) THEN OutputValue(tx.coll_return.is) ELSE Val(Coin(0))
        paid == lovelace_diff_or_fail(coll_input.val, coll_return.val, "NonLovelaceCollateral")
    IN coll_input.err && coll_return.err && paid.err
         && Ensure(paid.val * 100 >= tx.fee * pp.collateral_percentage, "CollateralMinLovelace")
         && Ensure(IsSome(tx.total_coll) => paid.val = tx.total_coll.is, "CollateralAnnotation")

check_collaterals(tx, utxos, pp) ==
    check_collaterals_number(tx.coll, pp) && check_collaterals_address(tx.coll, utxos)
      && check_collaterals_assets(tx, utxos, pp)

check_fee(tx, utxos, pp) ==
    check_min_fee(tx, pp)
      && IF presence_of_plutus_scripts(tx) THEN check_collaterals(tx, utxos, pp) ELSE "Ok"

----------------------------------------------------------------------------
(* Values.  Neither side counts withdrawals, deposits or donations.        *)

get_consumed(tx, utxos) ==
    SumValues([i \in DOMAIN tx.ins |-> val_from_multi_era_output(utxos[tx.ins[i]])])

get_produced(tx) ==
    LET vals == [o \in DOMAIN tx.outs |-> OutputValue(tx.outs[o])]
        bad == {o \in DOMAIN vals : vals[o].err # "Ok"}
    IN IF tx.outs = <<>> THEN Fail("TxInsEmpty")
       ELSE IF bad # {} THEN vals[Min(bad)]
       ELSE SumValues([o \in DOMAIN vals |-> vals[o].val])

check_preservation_of_value(tx, utxos) ==
    LET consumed == get_consumed(tx, utxos)
        produced == get_produced(tx)
        output == conway_add_values(produced.val, Coin(tx.fee), "NegativeValue")
        input == IF IsSome(tx.mint) THEN conway_add_minted_non_zero(consumed.val, tx.mint.is)
                                    ELSE consumed
    IN consumed.err && produced.err && output.err && input.err
         && Ensure(values_are_equal(input.val, output.val), "PreservationOfValue")

compute_min_lovelace(out, pp) == pp.ada_per_utxo_byte * (get_val_size_in_words(out.value) + 160)

check_min_lovelace(tx, pp) ==
    EachOk(tx.outs, LAMBDA o : OutputValue(o).err
                                 && Ensure(o.value.coin >= compute_min_lovelace(o, pp),
                                           "MinLovelaceUnreached"))

check_output_val_size(tx, pp) ==
    EachOk(tx.outs, LAMBDA o : Ensure(get_val_size_in_words(o.value) <= pp.max_value_size,
                                      "MaxValSizeExceeded"))

check_tx_outs_network_id(tx, net) ==
    EachOk(tx.outs, LAMBDA o : Ensure(o.addr.kind \in {"Key", "Script"}, "AddressDecoding")
                                 && Ensure(o.addr.net = net, "OutputWrongNetworkID"))
check_tx_network_id(tx, net) == Ensure(IsSome(tx.net) => tx.net.is = net, "TxWrongNetworkID")
check_network_id(tx, net) == check_tx_outs_network_id(tx, net) && check_tx_network_id(tx, net)

check_tx_size(tx, pp) == Ensure(tx.size <= pp.max_transaction_size, "MaxTxSizeExceeded")

(* The sums are taken in closures of a map() that is never driven: mem and *)
(* steps stay zero.                                                        *)
check_tx_ex_units(tx, pp) ==
    LET mem == 0
        steps == 0
    IN IF ~presence_of_plutus_scripts(tx) THEN "Ok"
       ELSE Ensure(tx.redeemers # <<>>, "RedeemerMissing")
              && Ensure(mem <= pp.max_mem /\ steps <= pp.max_steps, "TxExUnitsExceeded")

----------------------------------------------------------------------------
(* Scripts.                                                                *)

get_script_hash_from_reference_input(i, utxos) ==
    IF IsConway(i, utxos) /\ ~utxos[i].legacy /\ IsSome(utxos[i].script_ref)
    THEN Some(utxos[i].script_ref.is.id) ELSE None

get_reference_script_hashes(tx, utxos) ==
    {s.is : s \in {o \in {get_script_hash_from_reference_input(i, utxos) : i \in Elems(tx.refs)} :
                     IsSome(o)}}

get_script_hash_from_input(i, utxos) == IF IsConway(i, utxos) THEN ScriptOf(utxos[i]) ELSE None

get_script_hashes_from_inputs(tx, utxos) ==
    {s.is : s \in {o \in {get_script_hash_from_input(i, utxos) : i \in Elems(tx.ins)} : IsSome(o)}}

WitnessScripts(tx) == Elems(tx.native) \cup Elems(tx.v1) \cup Elems(tx.v2) \cup Elems(tx.v3)

check_minting(tx, utxos) ==
    Ensure(MintPolicies(tx) \subseteq WitnessScripts(tx) \cup get_reference_script_hashes(tx, utxos),
           "MintingLacksPolicy")

check_input_scripts(tx, utxos, ref) ==
    Ensure(get_script_hashes_from_inputs(tx, utxos) \subseteq WitnessScripts(tx) \cup ref,
           "ScriptWitnessMissing")

check_minting_policies(tx, ref) ==
    Ensure(MintPolicies(tx) \subseteq WitnessScripts(tx) \cup ref, "MintingLacksPolicy")

(* A PlutusV3 witness too many is reported as one of PlutusV2.  Withdrawals *)
(* make no script needed.                                                  *)
check_needed_scripts(tx, utxos, ref) ==
    LET needed == get_script_hashes_from_inputs(tx, utxos) \cup MintPolicies(tx) \cup ref
    IN check_input_scripts(tx, utxos, ref) && check_minting_policies(tx, ref)
         && Ensure(Elems(tx.native) \subseteq needed, "UnneededNativeScript")
         && Ensure(Elems(tx.v1) \subseteq needed, "UnneededPlutusV1Script")
         && Ensure(Elems(tx.v2) \cup Elems(tx.v3) \subseteq needed, "UnneededPlutusV2Script")

----------------------------------------------------------------------------
(* Datums.                                                                 *)

check_input_datum_hash_in_witness_set(tx, utxos) ==
    EachOk(tx.ins, LAMBDA i :
        Ensure(i \in DOMAIN utxos, "InputNotInUTxO")
          && Ensure(IsSome(utxos[i].datum) => utxos[i].datum.is \in Elems(tx.datums), "DatumMissing"))

find_datum(d, tx, utxos) ==
    Ensure(\/ \E o \in Elems(tx.outs) : HasSome(o.datum, d)
           \/ IsSome(tx.coll_return) /\ HasSome(tx.coll_return.is.datum, d)
           \/ \E i \in Elems(tx.refs) : IsConway(i, utxos) /\ HasSome(utxos[i].datum, d),
           "UnneededDatum")

check_remaining_datums(tx, utxos) ==
    EachOk(Indexed(tx.datums), LAMBDA k :
        IF k \in find_plutus_datum_in_witness_set(tx, utxos)
        THEN "Ok" ELSE find_datum(tx.datums[k], tx, utxos))

check_datums(tx, utxos) ==
    check_input_datum_hash_in_witness_set(tx, utxos) && check_remaining_datums(tx, utxos)

----------------------------------------------------------------------------
(* Redeemers.  A reward account is [net, script, id].                      *)

is_phase_2_script(hash, tx, ref) ==
    hash \in Elems(tx.v1) \cup Elems(tx.v2) \cup Elems(tx.v3) \cup ref

(* Mutant: by the bytes of the account, keys before scripts.               *)
AccountsByBytes(a, b) ==
    \/ ~a.script /\ b.script
    \/ a.script = b.script /\ a.net < b.net
    \/ a.script = b.script /\ a.net = b.net /\ Rank(a.id) < Rank(b.id)

(* By network, scripts before keys, then by hash.                          *)
sort_reward_accounts(a, b) ==
    \/ a.net < b.net
    \/ a.net = b.net /\ a.script /\ ~b.script
    \/ a.net = b.net /\ a.script = b.script /\ Rank(a.id) < Rank(b.id)

mk_plutus_script_redeemer_pointers(tx, utxos, ref) ==
    LET ins == SortRefs(tx.ins)
        policies == SortHashes(MintPolicies(tx))
        accounts == Sorted(SetToSeq(tx.wdrl), sort_reward_accounts)
        Locked(i) == LET s == get_script_hash_from_input(i, utxos)
                     IN IsSome(s) /\ is_phase_2_script(s.is, tx, ref)
    IN {<<"Spend", i - 1>> : i \in {j \in DOMAIN ins : Locked(ins[j])}}
         \cup {<<"Mint", i - 1>> : i \in {j \in DOMAIN policies : is_phase_2_script(policies[j], tx, ref)}}
         \cup {<<"Reward", i - 1>> : i \in {j \in DOMAIN accounts :
                                   accounts[j].script /\ is_phase_2_script(accounts[j].id, tx, ref)}}

redeemer_key_coincide(pointers, scripts) ==
    Ensure(pointers \subseteq scripts, "UnneededRedeemer")
      && Ensure(scripts \subseteq pointers, "RedeemerMissing")

check_redeemers(tx, utxos, ref) ==
    redeemer_key_coincide(RedeemerPointers(tx), mk_plutus_script_redeemer_pointers(tx, utxos, ref))

----------------------------------------------------------------------------
(* Signatures.                                                             *)

check_required_signers(tx) ==
    EachOk(tx.signers, LAMBDA k : KeyWitness(k, tx.vkeys, "ReqSignerMissing", "ReqSignerWrongSig"))

check_vk_wit(key, wits) == KeyWitness(key, wits, "VKWitnessMissing", "VKWrongSignature")

check_remaining_vk_wits(wits, covered) ==
    LET rest == DOMAIN wits \ covered
    IN Ensure(rest = {} \/ verify_signature(wits[Min(rest)]), "VKWrongSignature")

(* Outputs of every era but Byron show their payment key.                  *)
check_vkey_input_wits(tx, utxos) ==
    LET Input(i) ==
            CASE utxos[i].era = "Byron" -> "InputDecoding"
              [] utxos[i].era # "Byron" /\ utxos[i].addr.kind = "Key" ->
                     check_vk_wit(utxos[i].addr.id, tx.vkeys)
              [] utxos[i].era # "Byron" /\ utxos[i].addr.kind = "Script" -> "Ok"
              [] OTHER -> "InputDecoding"
        keys == {utxos[i].addr.id : i \in {j \in Elems(tx.ins \o tx.coll) : utxos[j].addr.kind = "Key"}}
    IN EachOk(tx.ins \o tx.coll, Input)
         && check_remaining_vk_wits(tx.vkeys, CoveredBy(tx.vkeys, keys))

check_witness_set(tx, utxos) ==
    LET ref == get_reference_script_hashes(tx, utxos)
    IN check_needed_scripts(tx, utxos, ref) && check_datums(tx, utxos)
         && check_redeemers(tx, utxos, ref) && check_required_signers(tx)
         && check_vkey_input_wits(tx, utxos)

----------------------------------------------------------------------------
(* Languages and the integrity of script data.  pp.cost_models is the set  *)
(* of languages with a cost model.                                         *)

available_langs(pp) == pp.cost_models

compute_all_outputs(tx, utxos) ==
    {utxos[i] : i \in {j \in Elems(tx.ins \o tx.refs) : IsConway(j, utxos)}} \cup Elems(tx.outs)

any_byron_addresses(outs) == \E o \in outs : o.addr.kind \notin {"Key", "Script"}

any_datums_or_script_refs(outs) ==
    \E o \in outs : ~o.legacy /\ (IsSome(o.script_ref) \/ IsSome(o.inline))

allowed_tx_langs(tx, utxos) ==
    LET outs == compute_all_outputs(tx, utxos)
    IN IF any_byron_addresses(outs) THEN {}
       ELSE IF any_datums_or_script_refs(outs) \/ tx.refs # <<>> THEN {"V2", "V3"}
       ELSE {"V1", "V2", "V3"}

tx_languages(tx, utxos) ==
    LET referenced == {utxos[i].script_ref.is.lang :
                         i \in {j \in Elems(tx.refs) : IsConway(j, utxos) /\ ~utxos[j].legacy
                                                       /\ IsSome(utxos[j].script_ref)}}
    IN {l \in {"V1", "V2", "V3"} : \/ l \in referenced
                                   \/ l = "V1" /\ tx.v1 # <<>>
                                   \/ l = "V2" /\ tx.v2 # <<>>
                                   \/ l = "V3" /\ tx.v3 # <<>>}

(* A language is refused when it is neither available nor allowed.         *)
check_languages(tx, utxos, pp) ==
    Ensure(tx_languages(tx, utxos) \subseteq available_langs(pp) \cup allowed_tx_langs(tx, utxos),
           "UnsupportedPlutusLanguage")

check_auxiliary_data(tx) == Ensure(tx.aux_hash = tx.aux, "MetadataHash")

cost_model_for_tx(langs, pp) == IF langs \subseteq pp.cost_models THEN Some(langs) ELSE None

(* ScriptData: nothing to hash without redeemers and datums; the language  *)
(* views count only beside redeemers.                                      *)
build_for(tx, views) ==
    IF tx.redeemers = <<>> /\ ~tx.data_present THEN None
    ELSE Some(<<tx.redeemers, tx.datums, IF tx.redeemers # <<>> THEN views ELSE {}>>)

check_script_data_hash(tx, utxos, pp) ==
    LET langs == tx_languages(tx, utxos)
        views == cost_model_for_tx(langs, pp)
        expected == build_for(tx, views.is)
    IN Ensure(IF ~IsSome(tx.sdh) THEN langs = {}
              ELSE IsSome(views) /\ IsSome(expected) /\ tx.sdh = expected,
              "ScriptIntegrityHash")

validate_conway_tx(tx, utxos, pp, slot, net) ==
    check_ins_not_empty(tx) && check_all_ins_in_utxos(tx, utxos)
      && check_tx_validity_interval(tx, slot) && check_fee(tx, utxos, pp)
      && check_preservation_of_value(tx, utxos) && check_min_lovelace(tx, pp)
      && check_output_val_size(tx, pp) && check_network_id(tx, net) && check_tx_size(tx, pp)
      && check_tx_ex_units(tx, pp) && check_minting(tx, utxos) && check_witness_set(tx, utxos)
      && check_languages(tx, utxos, pp)
      && check_auxiliary_data(tx) && check_script_data_hash(tx, utxos, pp)

=============================================================================
