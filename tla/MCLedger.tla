------------------------------ MODULE MCLedger ------------------------------
(***************************************************************************)
(* Five eras, two keys, one native and three Plutus scripts, one asset.    *)
(* The client starts from transactions that a wallet would build and makes *)
(* the mistakes, or the unusual choices, listed in MCEdits.                *)
(***************************************************************************)
EXTENDS Ledger

MCWord == 4096
MCWord32 == 2048
MCEras == <<"Byron", "Shelley", "Alonzo", "Babbage", "Conway">>
MCHashOrder == <<"k1", "n1", "p1", "p2", "p3", "k2">>
MCNativeOf == [s \in {"n1", "only_k1"} |->
    IF s = "n1" THEN [kind |-> "All", args |-> <<"only_k1">>, n |-> 0]
                ELSE [kind |-> "Pubkey", args |-> <<>>, n |-> "k1"]]
MCPlutusOf == [s \in {"p1", "p2", "p3"} |->
    [arity |-> IF s = "p3" THEN 1 ELSE 3, result |-> "Unit"]]
MCSlotConfig == [zero_slot |-> 0, zero_time |-> 0, slot_length |-> 1]
MCEnv == [slot |-> 4500000, net |-> 0, magic |-> 1, reserves |-> 30, treasury |-> 20]
MCGenDelegs == [g \in {"g1", "g2"} |-> IF g = "g1" THEN <<"d1", "v1">> ELSE <<"d2", "v2">>]

MCParams ==
    LET shelley == [minfee_a |-> 1, minfee_b |-> 1, max_transaction_size |-> 20, key_deposit |-> 4,
                    pool_deposit |-> 6, min_pool_cost |-> 5, maximum_epoch |-> 2, min_utxo_value |-> 27]
        plutus == [minfee_a |-> 1, minfee_b |-> 1, max_transaction_size |-> 20,
                   max_collateral_inputs |-> 2, collateral_percentage |-> 150, ada_per_utxo_byte |-> 1,
                   max_value_size |-> 3, max_mem |-> 8, max_steps |-> 8,
                   cost_models |-> {"V1", "V2", "V3"}]
    IN [e \in {"Byron", "Shelley", "Alonzo", "Babbage", "Conway"} |->
           CASE e = "Byron" -> [summand |-> 1, multiplier |-> 1, max_tx_size |-> 20]
             [] e = "Shelley" -> shelley
             [] OTHER -> plutus]

----------------------------------------------------------------------------
(* Outputs.                                                                *)

Tokens(n) == [p \in {"n1"} |-> [a \in {"a"} |-> n]]
Out(format, kind, id, value) ==
    [era |-> format, addr |-> [kind |-> kind, id |-> id, net |-> 0], value |-> value,
     datum |-> None, inline |-> None, script_ref |-> None, legacy |-> format \in {"Byron", "Alonzo"}]

MCGenesis ==
    [r \in 1 .. 14 |->
        CASE r = 1 -> Out("Byron", "PubKey", "k1", Coin(400))
          [] r = 2 -> Out("Byron", "Redeem", "k2", Coin(400))
          [] r = 3 -> Out("Alonzo", "Key", "k1", Multiasset(400, Tokens(3)))
          [] r = 4 -> Out("Alonzo", "Script", "n1", Coin(400))
          [] r = 5 -> [Out("Alonzo", "Script", "p1", Coin(400)) EXCEPT !.datum = Some("d")]
          [] r = 6 -> Out("Alonzo", "Key", "k2", Coin(400))
          [] r = 7 -> Out("Babbage", "Key", "k1", Multiasset(400, Tokens(3)))
          [] r = 8 -> [Out("Babbage", "Script", "p2", Coin(400)) EXCEPT !.inline = Some("d")]
          [] r = 9 -> [Out("Babbage", "Key", "k2", Coin(400)) EXCEPT
                          !.script_ref = Some([lang |-> "V2", id |-> "p2"])]
          [] r = 10 -> Out("Conway", "Key", "k1", Multiasset(400, Tokens(3)))
          [] r = 11 -> Out("Conway", "Script", "p3", Coin(400))
          [] r = 12 -> [Out("Conway", "Key", "k2", Coin(400)) EXCEPT
                          !.script_ref = Some([lang |-> "V3", id |-> "p3"])]
          [] r = 13 -> Out("Conway", "Script", "p2", Coin(400))
          [] r = 14 -> [Out("Conway", "Key", "k2", Coin(400)) EXCEPT
                          !.script_ref = Some([lang |-> "Native", id |-> "n1"])]]

----------------------------------------------------------------------------
(* Transactions.                                                           *)

Blank(e) ==
    [era |-> e, ins |-> <<>>, outs |-> <<>>, fee |-> 20, ttl |-> Some(5000000), start |-> None,
     certs |-> <<>>, wdrl |-> {}, mint |-> None, coll |-> <<>>, coll_return |-> None,
     total_coll |-> None, refs |-> <<>>, signers |-> <<>>, net |-> None, sdh |-> None,
     aux_hash |-> None, aux |-> None, vkeys |-> <<>>, wits |-> <<>>, native |-> <<>>, v1 |-> <<>>,
     v2 |-> <<>>, v3 |-> <<>>, datums |-> <<>>, data_present |-> FALSE, redeemers |-> <<>>,
     votes |-> {}, proposals |-> <<>>, size |-> 10, success |-> TRUE]

Redeemer(tag, index) == [tag |-> tag, index |-> index, mem |-> 4, steps |-> 4]
Account(script, id) == [net |-> 0, script |-> script, id |-> id]
Signature(k) == [vkey |-> k, valid |-> TRUE]

(* What the client has to pay into the outputs: the first takes the rest,  *)
(* tokens included.                                                        *)
Deposits(tx) ==
    LET N(t) == Cardinality({i \in DOMAIN tx.certs : tx.certs[i].t = t})
    IN 4 * (N("StakeRegistration") - N("StakeDeregistration")) + 6 * N("PoolRegistration")

Balanced(tx, outs) ==
    LET ins == {i \in Elems(tx.ins) : i \in DOMAIN outs}
        coin == SumCoins(outs, ins) - SumCoins(tx.outs, 2 .. Len(tx.outs)) - tx.fee - Deposits(tx)
        mint == IF is_valid(tx) /\ IsSome(tx.mint) THEN tx.mint.is ELSE NoAssets
        rest == TokensOf([o \in 2 .. Len(tx.outs) |-> tx.outs[o]])
        ma == PlusTokens(PlusTokens(TokensOf([r \in ins |-> outs[r]]), mint),
                         MapAmounts(rest, LAMBDA n : -n))
    IN IF coin < 1 \/ AnyAmount(ma, LAMBDA n : n < 0 \/ n >= Word) THEN tx
       ELSE [tx EXCEPT !.outs[1].value = IF PairsOf(ma) = {} \/ ~AnyAmount(ma, LAMBDA n : n > 0)
                                         THEN Coin(coin) ELSE Multiasset(coin, ma)]

Sealed(tx, outs) ==
    LET t == [tx EXCEPT !.data_present = tx.datums # <<>> \/ tx.data_present]
    IN CASE t.redeemers = <<>> /\ t.datums = <<>> -> [t EXCEPT !.sdh = None]
         [] t.era = "Alonzo" -> [t EXCEPT !.sdh = Some(<<t.redeemers, t.datums>>)]
         [] t.era = "Babbage" ->
                [t EXCEPT !.data_present = TRUE,
                          !.sdh = Some(<<t.redeemers, "def", t.datums,
                              BabbageRules!cost_model_cbor(BabbageRules!tx_languages(t, outs),
                                                           MCEnv.magic, MCEnv.net, MCEnv.slot)>>)]
         [] t.era = "Conway" ->
                [t EXCEPT !.sdh = ConwayRules!build_for(t, ConwayRules!tx_languages(t, outs))]
         [] OTHER -> t

Ready(tx, outs) == Sealed(Balanced(tx, outs), outs)

Pay(e, i, outs) ==
    LET o == outs[i]
        to == Out(Format(e), IF e = "Byron" THEN "PubKey" ELSE "Key", "k2", Coin(0))
    IN [Blank(e) EXCEPT !.ins = <<i>>, !.outs = <<to>>,
            !.vkeys = IF e = "Byron" THEN <<>> ELSE <<Signature(o.addr.id)>>,
            !.wits = IF e # "Byron" THEN <<>>
                     ELSE <<[kind |-> IF o.addr.kind = "Redeem" THEN "Redeem" ELSE "Pk",
                             vkey |-> o.addr.id, magic |-> 1, valid |-> TRUE]>>]

(* A payment of the owner's, one that mints beside it, and one that spends *)
(* what a script locks, with the first output of a key as its collateral.  *)
(* Under Shelley parameters there are Shelley and Mary transactions.  At   *)
(* the edge: tokens that add up to those consumed only modulo Word, a burn *)
(* of tokens that are not there, and a policy that is a reference script.  *)
MCTemplates(e, outs) ==
    LET own == {i \in DOMAIN outs : outs[i].era = Format(e)}
        keys == {i \in own : outs[i].addr.kind \in {"Key", "PubKey", "Redeem"}}
        coll == {i \in keys : outs[i].value.ma = NoAssets}
        locked == {i \in own : outs[i].addr.kind = "Script"}
        Minting(tx) == [tx EXCEPT !.mint = Some(Tokens(1)), !.native = <<"n1">>]
        Locked(i) ==
            LET c == Min(coll)
                s == outs[i].addr.id
                tx == [Blank(e) EXCEPT !.ins = <<i>>,
                         !.outs = <<Out(Format(e), "Key", "k2", Coin(0))>>,
                         !.vkeys = <<Signature("k1"), Signature("k2")>>]
                paid == [tx EXCEPT !.coll = <<c>>, !.redeemers = <<Redeemer("Spend", 0)>>]
            IN CASE s = "n1" -> [tx EXCEPT !.native = <<"n1">>]
                 [] s = "p1" -> [paid EXCEPT !.v1 = <<"p1">>, !.datums = <<"d">>]
                 [] s = "p2" -> [paid EXCEPT !.v2 = <<"p2">>]
                 [] s = "p3" -> [paid EXCEPT !.v3 = <<"p3">>, !.wdrl = {Account(TRUE, "p3"), Account(FALSE, "k1")},
                                             !.redeemers = <<Redeemer("Spend", 0), Redeemer("Reward", 0)>>]
        Amounts(tx, m, n) == [tx EXCEPT !.outs =
            <<[@[1] EXCEPT !.value = Multiasset(200, Tokens(m))], [@[1] EXCEPT !.value = Multiasset(180, Tokens(n))]>>]
        edge == {Amounts(Pay(e, i, outs), 4, Word - 1) :
                     i \in {j \in keys : outs[j].value.ma = Tokens(3)}}
                  \cup {[Amounts(Pay(e, i, outs), Word - 2, 1) EXCEPT !.mint = Some(Tokens(-1)), !.native = <<"n1">>] :
                           i \in coll}
                  \cup {[Minting(Pay(e, i, outs)) EXCEPT
                            !.native = <<>>, !.refs = <<r>>, !.redeemers = <<Redeemer("Mint", 0)>>] :
                           i \in coll, r \in {j \in own : HasSome(outs[j].script_ref, [lang |-> "Native", id |-> "n1"])}}
        Registering(i) == [Pay(e, i, outs) EXCEPT
            !.certs = <<[t |-> "PoolRegistration", pool |-> "pool", cost |-> 5],
                        [t |-> "StakeRegistration", stc |-> "k1"]>>]
        simple == {Pay(e, i, outs) : i \in keys}
        all == CASE e = "Byron" -> simple
                 [] e = "Shelley" -> simple \cup {Registering(i) : i \in keys} \cup {Locked(i) : i \in {j \in locked : outs[j].addr.id = "n1"}}
                 [] OTHER -> simple \cup (IF coll = {} THEN {} ELSE {Locked(i) : i \in locked})
        minted == IF e = "Byron" THEN {} ELSE edge \cup {Minting(Pay(e, i, outs)) : i \in keys}
        mary == IF e = "Shelley" THEN {[tx EXCEPT !.era = "Mary"] : tx \in all \cup minted} ELSE {}
    IN {Ready(tx, outs) : tx \in all \cup minted \cup mary}

----------------------------------------------------------------------------
(* One change.  What a wallet keeps in step with the rest (the balance and *)
(* the hash of the script data) is left alone or brought up to date.       *)

Dropped(s) == IF s = <<>> THEN {} ELSE {Tail(s)}
Extended(s, S) == {Append(s, x) : x \in S}

Certs == {[t |-> "StakeRegistration", stc |-> "k1"], [t |-> "StakeRegistration", stc |-> "k2"],
          [t |-> "StakeDeregistration", stc |-> "k1"], [t |-> "StakeDelegation", stc |-> "k1", pool |-> "pool"],
          [t |-> "PoolRegistration", pool |-> "pool", cost |-> 5],
          [t |-> "PoolRegistration", pool |-> "pool", cost |-> 4],
          [t |-> "PoolRetirement", pool |-> "pool", epoch |-> 209],
          [t |-> "GenesisKeyDelegation", gkh |-> "g1", dkh |-> "d3", vrf |-> "v3"],
          [t |-> "GenesisKeyDelegation", gkh |-> "g2", dkh |-> "d3", vrf |-> "v1"],
          [t |-> "MIR", source |-> "Reserves", target |-> Some([k \in {"k1"} |-> 25])],
          [t |-> "MIR", source |-> "Treasury", target |-> Some([k \in {"k2"} |-> 25])]}

MCEdits(tx, outs) ==
    LET common ==
            {[tx EXCEPT !.ins = s] : s \in Extended(tx.ins, DOMAIN outs)}
              \cup {[tx EXCEPT !.fee = n] : n \in {5, 30}}
              \cup {[tx EXCEPT !.size = 25]}
              \cup {[tx EXCEPT !.outs = <<[@[1] EXCEPT !.value.coin = @ + d]>>] : d \in {-1, 1}}
        later ==
            {[tx EXCEPT !.vkeys = s] : s \in Dropped(tx.vkeys)
                  \cup Extended(tx.vkeys, {[vkey |-> "k1", valid |-> FALSE], Signature("k1")})
                  \cup {<<[vkey |-> "k1", valid |-> FALSE]>> \o tx.vkeys}
                  \cup {[tx.vkeys EXCEPT ![i].valid = FALSE] : i \in DOMAIN tx.vkeys}}
              \cup {[tx EXCEPT !.mint = m] : m \in {None, Some(Tokens(-1)), Some(Tokens(-3))}}
              \cup {[tx EXCEPT !.native = s] : s \in Dropped(tx.native) \cup Extended(tx.native, {"n1"})}
              \cup {[tx EXCEPT !.ttl = None], [tx EXCEPT !.aux_hash = Some("meta")],
                    [tx EXCEPT !.start = Some(6000000)], [tx EXCEPT !.outs[1].addr.net = 1],
                    [tx EXCEPT !.outs = Append(@, Out(Format(tx.era), "Script", "n1", Coin(180)))]}
        staking == {[tx EXCEPT !.certs = s] : s \in Dropped(tx.certs) \cup Extended(tx.certs, Certs)}
        plutus ==
            {[tx EXCEPT !.coll = s] : s \in Dropped(tx.coll) \cup Extended(tx.coll, DOMAIN outs)
                                              \cup {<<i>> : i \in DOMAIN outs}}
              \cup {[tx EXCEPT !.v1 = s] : s \in Dropped(tx.v1)}
              \cup {[tx EXCEPT !.datums = s] : s \in Dropped(tx.datums) \cup Extended(tx.datums, {"d", "e"})}
              \cup {[tx EXCEPT !.redeemers = s] : s \in Dropped(tx.redeemers)
                          \cup {[tx.redeemers EXCEPT ![i].index = 1] : i \in DOMAIN tx.redeemers}
                          \cup Extended(tx.redeemers, {Redeemer("Mint", 0), Redeemer("Spend", 1),
                                                       Redeemer("Reward", 1), Redeemer("Cert", 0)})}
              \cup {[tx EXCEPT !.signers = <<"k2">>], [tx EXCEPT !.net = Some(1)],
                    [tx EXCEPT !.success = FALSE]}
        referring ==
            {[tx EXCEPT !.refs = s] : s \in Dropped(tx.refs) \cup Extended(tx.refs, DOMAIN outs)}
              \cup {[tx EXCEPT !.v2 = s] : s \in Dropped(tx.v2)}
              \cup {[tx EXCEPT !.v3 = s] : s \in Dropped(tx.v3)}
              \cup {[tx EXCEPT !.coll_return = Some(Out(Format(tx.era), "Key", "k1", v))] :
                        v \in {Coin(370), Coin(390), Multiasset(370, Tokens(3)), Multiasset(370, Tokens(4))}}
              \cup {[tx EXCEPT !.total_coll = Some(30)]}
              \cup {[tx EXCEPT !.wdrl = {}], [tx EXCEPT !.wdrl = {Account(FALSE, "k1")}]}
        all == common
                 \cup (IF tx.era = "Byron"
                       THEN {[tx EXCEPT !.outs[1].value.coin = 410], [tx EXCEPT !.wits = <<>>], [tx EXCEPT !.wits[1].vkey = "k2"],
                             [tx EXCEPT !.wits[1].magic = 2]}
                       ELSE later)
                 \cup (IF tx.era \in {"Shelley", "Mary"} THEN staking ELSE {})
                 \cup (IF tx.era \in {"Alonzo", "Babbage", "Conway"} THEN plutus ELSE {})
                 \cup (IF tx.era \in {"Babbage", "Conway"} THEN referring ELSE {})
    IN (all \cup {Ready(t, outs) : t \in all}) \ {tx}

=============================================================================
