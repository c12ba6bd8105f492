---------------------------- MODULE MCTxBuilder ----------------------------
(***************************************************************************)
(* Three inputs of which two are locked by scripts, two policies, two keys *)
(* and bytes that do not decode.  The client starts afresh, from a payment *)
(* or from a transaction that spends and mints with Plutus scripts.        *)
(***************************************************************************)
EXTENDS TxBuilder

MCWord == 4096
MCWord32 == 2048
MCHashOrder == <<"k1", "n1", "p2", "p3", "k2">>
MCNativeOf == [s \in {"n1"} |-> [kind |-> "All", args |-> <<>>, n |-> 0]]
MCPlutusOf == [s \in {"p2", "p3"} |-> [arity |-> 1, result |-> "Unit"]]
MCSlotConfig == [zero_slot |-> 0, zero_time |-> 0, slot_length |-> 1]
MCAmounts == {1, -1}
MCParams == [cost_models |-> {"V1", "V2", "V3"}]
MCScripts == [k \in {<<"Native", "n">>, <<"Native", "bad">>, <<"V2", "p">>, <<"V3", "p">>} |->
    CASE k = <<"Native", "n">> -> "n1" [] k = <<"V2", "p">> -> "p2" [] k = <<"V3", "p">> -> "p3"
      [] OTHER -> "k2"]

Locked(kind, id) == [era |-> "Conway", addr |-> [kind |-> kind, id |-> id, net |-> 0], value |-> Coin(9),
                     datum |-> None, inline |-> None, script_ref |-> None, legacy |-> FALSE]
MCKnown == [r \in {11, 12, 21} |-> CASE r = 11 -> Locked("Key", "k1")
                                      [] r = 12 -> [Locked("Script", "p2") EXCEPT !.inline = Some("d1")]
                                      [] r = 21 -> Locked("Script", "p3")]

Paid == Output([kind |-> "Key", id |-> "k2", net |-> 0], 5)
MCOuts == {add_asset(set_datum_hash(Paid, "d1"), "p3", 1), add_asset(add_asset(Paid, "p3", 0), "n1", 1),
           set_inline_datum(Paid, "bad"), set_inline_script(Paid, "Native", "bad"),
           set_inline_script(set_inline_datum(Paid, "d1"), "V2", "p")}

Payment == set(push(push(new, "inputs", 21), "outputs", Paid), "fee", 20)
Plutus ==
    LET spending == add_redeemer(push(Payment, "collateral_inputs", 11), Spend(21), "d1", Some(4))
    IN add_language(script(mint_asset(spending, "p3", 1), "V3", "p"), "V3", "current")
MCBases == {new, Payment, Plutus, add_redeemer(datum(Plutus, "d1"), Mint("p3"), "d2", Some(4))}

=============================================================================
