----------------------------- MODULE ShelleyMA -----------------------------
(***************************************************************************)
(* The Shelley, Allegra and Mary rules of pallas-validate                  *)
(* (phase1/shelley_ma.rs).  The certificates change the stake and pool     *)
(* state in place as they are checked, so that validate_shelley_ma_tx      *)
(* returns its verdict with the state it leaves behind.                    *)
(***************************************************************************)
EXTENDS LedgerTypes

StabilityWindow == 129600

----------------------------------------------------------------------------
(* Certificates: each check returns [err, val], val the state after it.    *)

Without(f, keys) == [k \in DOMAIN f \ keys |-> f[k]]
With(f, k, v) == [x \in DOMAIN f \cup {k} |-> IF x = k THEN v ELSE f[x]]
Over(f, g) == [x \in DOMAIN f \cup DOMAIN g |-> IF x \in DOMAIN f THEN f[x] ELSE g[x]]
SumOf(f) == FoldSet(LAMBDA x, acc : f[x] + acc, 0, DOMAIN f)

EmptyCertState ==
    [rewards |-> NoAssets, delegations |-> NoAssets, ptrs |-> NoAssets,
     fut_gen_delegs |-> NoAssets, gen_delegs |-> NoAssets,
     ir_reserves |-> NoAssets, ir_treasury |-> NoAssets,
     pool_params |-> NoAssets, fut_pool_params |-> NoAssets, retiring |-> NoAssets]

check_stake_registration(stc, ptr, ds) ==
    IF stc \in DOMAIN ds.rewards THEN Fail("KeyAlreadyRegistered")
    ELSE IF ptr \in DOMAIN ds.ptrs
    THEN [err |-> "PointerInUse", val |-> [ds EXCEPT !.rewards = With(@, stc, 0)]]
    ELSE Val([ds EXCEPT !.rewards = With(@, stc, 0), !.ptrs = With(@, ptr, stc)])

(* Mutant: the pointer of the credential stays.                            *)
DeregisteredWithPointer(stc, ds) ==
    IF stc \notin DOMAIN ds.rewards THEN Fail("KeyNotRegistered")
    ELSE IF ds.rewards[stc] # 0 THEN Fail("RewardsNotNull")
    ELSE Val([ds EXCEPT !.delegations = Without(@, {stc}), !.rewards = Without(@, {stc})])

check_stake_deregistration(stc, ds) ==
    IF stc \notin DOMAIN ds.rewards THEN Fail("KeyNotRegistered")
    ELSE IF ds.rewards[stc] # 0 THEN Fail("RewardsNotNull")
    ELSE Val([ds EXCEPT !.ptrs = Without(@, {p \in DOMAIN @ : @[p] = stc}),
                        !.delegations = Without(@, {stc}),
                        !.rewards = Without(@, {stc})])

check_stake_delegation(stc, pool, ds) ==
    IF pool \notin DOMAIN ds.pool_params THEN Fail("PoolNotRegistered")
    ELSE IF stc \notin DOMAIN ds.rewards THEN Fail("KeyNotRegistered")
    ELSE Val([ds EXCEPT !.delegations = With(@, stc, pool)])

check_pool_reg_or_update(pool, cost, min_pool_cost, ps) ==
    IF cost < min_pool_cost THEN Fail("PoolCostBelowMin")
    ELSE IF pool \in DOMAIN ps.pool_params
    THEN Val([ps EXCEPT !.fut_pool_params = With(@, pool, cost), !.retiring = Without(@, {pool})])
    ELSE Val([ps EXCEPT !.pool_params = With(@, pool, cost)])

check_pool_retirement(pool, repoch, cepoch, emax, ps) ==
    IF pool \in DOMAIN ps.pool_params /\ cepoch < repoch /\ repoch <= cepoch + emax
    THEN Val([ps EXCEPT !.retiring = With(@, pool, repoch)])
    ELSE Fail("PoolNotRegistered")

(* A delegation is a pair <<delegate, vrf>>; a delegate and a vrf key may  *)
(* serve one genesis key only, now or in the future.                       *)
check_genesis_key_delegation(gkh, dkh, vrf, slot, ds) ==
    LET others == {ds.gen_delegs[g] : g \in DOMAIN ds.gen_delegs \ {gkh}}
                    \cup {ds.fut_gen_delegs[k] : k \in {x \in DOMAIN ds.fut_gen_delegs : x[2] # gkh}}
    IN IF \E d \in others : d[1] = dkh \/ d[2] = vrf THEN Fail("DuplicateGenesisDelegate")
       ELSE IF gkh \notin DOMAIN ds.gen_delegs THEN Fail("GenesisKeyNotInMapping")
       ELSE Val([ds EXCEPT !.fut_gen_delegs = With(@, <<slot + StabilityWindow, gkh>>, <<dkh, vrf>>)])

to_epoch(slot) == absolute_slot_to_relative(mainnet, slot)[1]
first_slot(epoch) == relative_slot_to_absolute(mainnet, epoch, 0)

(* mir is [source, target]; a target that is not a map of credentials      *)
(* (None) moves money between the pots and leaves the combined map empty.  *)
(* Rewards already in the pot win over the new ones.  The pair is put back *)
(* with the other pot in the position of this one.                         *)
check_mir(mir, slot, ds, acnt) ==
    LET reserves == mir.source = "Reserves"
        pot == IF reserves THEN acnt.reserves ELSE acnt.treasury
        ir_pot == IF reserves THEN ds.ir_reserves ELSE ds.ir_treasury
        combined == IF IsSome(mir.target)
                    THEN Over(ir_pot, [k \in DOMAIN mir.target.is |-> as_u64(mir.target.is[k])])
                    ELSE NoAssets
    IN IF slot >= first_slot(to_epoch(slot) + 1) - StabilityWindow
       THEN Fail("MIRCertificateTooLateinEpoch")
       ELSE IF SumOf(combined) > pot THEN Fail("InsufficientForInstantaneousRewards")
       ELSE Val(IF reserves
                THEN [ds EXCEPT !.ir_reserves = combined, !.ir_treasury = ds.ir_reserves]
                ELSE [ds EXCEPT !.ir_reserves = ds.ir_treasury, !.ir_treasury = combined])

(* One certificate at position ix (from 0) of the transaction.  cert_ix is *)
(* updated after each certificate, so that the first two carry 0.  A       *)
(* failed certificate leaves what its predecessors, and itself, did so far. *)
check_certificate(acc, ix, cert, tx_ix, env) ==
    LET ds == acc.state
        ptr == <<env.slot, tx_ix, acc.cert_ix>>
        r == CASE cert.t = "StakeRegistration" -> check_stake_registration(cert.stc, ptr, ds)
               [] cert.t = "StakeDeregistration" -> check_stake_deregistration(cert.stc, ds)
               [] cert.t = "StakeDelegation" -> check_stake_delegation(cert.stc, cert.pool, ds)
               [] cert.t = "PoolRegistration" ->
                      check_pool_reg_or_update(cert.pool, cert.cost, env.pp.min_pool_cost, ds)
               [] cert.t = "PoolRetirement" ->
                      check_pool_retirement(cert.pool, cert.epoch, to_epoch(env.slot),
                                            env.pp.maximum_epoch, ds)
               [] cert.t = "GenesisKeyDelegation" ->
                      check_genesis_key_delegation(cert.gkh, cert.dkh, cert.vrf, env.slot, ds)
               [] cert.t = "MIR" -> check_mir(cert, env.slot, ds, env.acnt.is)
        Count(t) == IF cert.t = t THEN 1 ELSE 0
        new_pool == cert.t = "PoolRegistration" /\ cert.pool \notin DOMAIN ds.pool_params
    IN IF acc.err # "Ok" THEN acc
       ELSE IF r.err # "Ok" THEN [acc EXCEPT !.err = r.err, !.state = IF "val" \in DOMAIN r THEN r.val ELSE ds]
       ELSE [err |-> "Ok", state |-> r.val, cert_ix |-> ix,
             deposits |-> acc.deposits + Count("StakeRegistration"),
             refunds |-> acc.refunds + Count("StakeDeregistration"),
             pools |-> acc.pools + IF new_pool THEN 1 ELSE 0]

check_certificates(certs, tx_ix, state, env) ==
    LET none == [err |-> "Ok", state |-> state, cert_ix |-> 0, deposits |-> 0, refunds |-> 0, pools |-> 0]
        upto[n \in 0 .. Len(certs)] ==
            IF n = 0 THEN none ELSE check_certificate(upto[n - 1], n - 1, certs[n], tx_ix, env)
    IN upto[Len(certs)]

----------------------------------------------------------------------------
(* The body.                                                               *)

check_ins_not_empty(tx) == Ensure(tx.ins # <<>>, "TxInsEmpty")

check_ins_in_utxos(tx, utxos) ==
    EachOk(tx.ins, LAMBDA i : Ensure(i \in DOMAIN utxos, "InputNotInUTxO"))

check_ttl(tx, slot) ==
    IF IsSome(tx.ttl) THEN Ensure(tx.ttl.is >= slot, "TTLExceeded") ELSE "AlonzoCompNotShelley"

check_tx_size(tx, pp) == Ensure(tx.size <= pp.max_transaction_size, "MaxTxSizeExceeded")

(* With tokens the bound is max(lovelace, ..): the amount is compared with *)
(* at least itself.                                                        *)
compute_min_lovelace(out, pp) ==
    IF ~out.value.multi THEN pp.min_utxo_value
    ELSE Max({out.value.coin, (27 + get_val_size_in_words(out.value)) * (pp.min_utxo_value \div 27)})

check_min_lovelace(tx, pp) ==
    EachOk(tx.outs, LAMBDA o : Ensure(o.value.coin >= compute_min_lovelace(o, pp),
                                      "MinLovelaceUnreached"))

get_consumed(tx, utxos, refunds, pp) ==
    LET Add(acc, i) ==
            LET out == utxos[i] IN
            CASE out.era = "Byron" -> add_values(acc, Coin(out.value.coin), "NegativeValue")
              [] out.era \notin {"Byron", "Alonzo"} -> Fail("InputNotInUTxO")
              [] out.era = "Alonzo" /\ out.value.multi /\ tx.era = "Shelley" -> Fail("ValueNotShelley")
              [] OTHER -> add_values(acc, out.value, "NegativeValue")
        ins == TryFold(Add, empty_value, tx.ins)
        refunded == IF ins.err = "Ok"
                    THEN add_values(ins.val, Coin(pp.key_deposit * refunds), "NegativeValue") ELSE ins
    IN IF refunded.err = "Ok" /\ IsSome(tx.mint)
       THEN add_minted_value(refunded.val, tx.mint.is, "NegativeValue") ELSE refunded

get_produced(tx, deposits, pools, pp) ==
    LET Add(acc, o) ==
            IF o.value.multi /\ tx.era = "Shelley" THEN Fail("WrongEraOutput")
            ELSE add_values(acc, o.value, "NegativeValue")
        Plus(r, n) == IF r.err = "Ok" THEN add_values(r.val, Coin(n), "NegativeValue") ELSE r
    IN Plus(Plus(TryFold(Add, empty_value, tx.outs), tx.fee),
            pp.pool_deposit * pools + pp.key_deposit * deposits)

check_preservation_of_value(tx, utxos, counts, pp) ==
    LET consumed == get_consumed(tx, utxos, counts.refunds, pp)
        produced == get_produced(tx, counts.deposits, counts.pools, pp)
    IN consumed.err && produced.err
         && Ensure(values_are_equal(consumed.val, produced.val), "PreservationOfValue")

check_fees(tx, pp) ==
    Ensure(tx.fee >= (pp.minfee_b + pp.minfee_a * tx.size) % Word32, "FeesBelowMin")

check_network_id(tx, net) ==
    EachOk(tx.outs, LAMBDA o : Ensure(o.addr.kind \in {"Key", "Script"}, "AddressDecoding")
                                 && Ensure(o.addr.net = net, "WrongNetworkID"))

check_metadata(tx) == Ensure(tx.aux_hash = tx.aux, "MetadataHash")

----------------------------------------------------------------------------
(* Witnesses.  A check list pairs every witness with "covered".            *)

check_vk_wit(key, wits) == KeyWitness(key, wits, "MissingVKWitness", "WrongSignature")

(* The payload that is hashed accumulates the scripts: only the first of   *)
(* the list is ever recognised.                                            *)
check_native_script_witness(hash, scripts) ==
    Ensure(scripts # <<>> /\ Head(scripts) = hash, "MissingScriptWitness")

Covered(tx, utxos) ==
    CoveredBy(tx.vkeys, {utxos[i].addr.id : i \in {j \in Elems(tx.ins) :
                            utxos[j].era = "Alonzo" /\ utxos[j].addr.kind = "Key"}})

(* The first witness that covers no input decides for all the others.      *)
check_remaining_vk_wits(wits, covered) ==
    LET rest == DOMAIN wits \ covered
    IN Ensure(rest = {} \/ verify_signature(wits[Min(rest)]), "WrongSignature")

check_native_scripts(tx) ==
    LET eval == eval_native_script({tx.vkeys[w].vkey : w \in DOMAIN tx.vkeys}, tx.start, tx.ttl)
    IN EachOk(tx.native, LAMBDA s : Ensure(eval[s], "ScriptDenial"))

(* Only outputs of the Alonzo-compatible eras ask for a witness.           *)
check_witnesses(tx, utxos) ==
    LET Input(i) ==
            LET out == utxos[i] IN
            CASE out.era # "Alonzo" -> "Ok"
              [] out.addr.kind = "Key" -> check_vk_wit(out.addr.id, tx.vkeys)
              [] out.addr.kind = "Script" -> check_native_script_witness(out.addr.id, tx.native)
              [] OTHER -> "AddressDecoding"
    IN Ensure(tx.vkeys # <<>>, "MissingVKWitness") && EachOk(tx.ins, Input)
         && check_native_scripts(tx) && check_remaining_vk_wits(tx.vkeys, Covered(tx, utxos))

check_minting(tx) ==
    Ensure(IsSome(tx.mint) => DOMAIN tx.mint.is \subseteq {tx.native[i] : i \in DOMAIN tx.native},
           "MintingLacksPolicy")

validate_shelley_ma_tx(tx, tx_ix, utxos, cert_state, env) ==
    LET early == check_ins_not_empty(tx) && check_ins_in_utxos(tx, utxos)
                   && check_ttl(tx, env.slot) && check_tx_size(tx, env.pp)
                   && check_min_lovelace(tx, env.pp)
        certs == check_certificates(tx.certs, tx_ix, cert_state, env)
    IN IF early # "Ok" THEN [err |-> early, certs |-> cert_state]
       ELSE [err |-> certs.err && check_preservation_of_value(tx, utxos, certs, env.pp)
                       && check_fees(tx, env.pp) && check_network_id(tx, env.net)
                       && check_metadata(tx) && check_witnesses(tx, utxos) && check_minting(tx),
             certs |-> certs.state]

=============================================================================
