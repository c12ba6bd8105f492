------------------------------- MODULE Byron -------------------------------
(***************************************************************************)
(* The Byron rules of pallas-validate (phase1/byron.rs).  A transaction is *)
(* [ins, outs, wits, size]; a witness [kind, vkey, magic, valid] is a      *)
(* signature by vkey that covers the protocol magic.                       *)
(***************************************************************************)
EXTENDS LedgerTypes

CONSTANT OverflowChecks   \* the build panics on an underflow rather than wrap around

check_ins_not_empty(tx) == Ensure(tx.ins # <<>>, "TxInsEmpty")
check_outs_not_empty(tx) == Ensure(tx.outs # <<>>, "TxOutsEmpty")

check_ins_in_utxos(tx, utxos) ==
    EachOk(tx.ins, LAMBDA i : Ensure(i \in DOMAIN utxos, "InputNotInUTxO"))

check_outs_have_lovelace(tx) ==
    EachOk(tx.outs, LAMBDA o : Ensure(o.value.coin # 0, "OutputWithoutLovelace"))

find_tx_out(i, utxos) ==
    IF i \in DOMAIN utxos /\ utxos[i].era = "Byron" THEN Val(utxos[i]) ELSE Fail("InputNotInUTxO")

is_redeem_utxo(i, utxos) ==
    LET out == find_tx_out(i, utxos)
    IN out.err = "Ok" /\ out.val.addr.kind = "Redeem"

Balance(coins) == FoldLeft(LAMBDA acc, n : acc + n, 0, coins)

check_fees(tx, utxos, pp) ==
    LET inputs_balance == Balance([i \in DOMAIN tx.ins |-> utxos[tx.ins[i]].value.coin])
        outputs_balance == Balance([o \in DOMAIN tx.outs |-> tx.outs[o].value.coin])
        total_balance == (inputs_balance - outputs_balance) % Word
        overflow == inputs_balance >= Word
        underflow == outputs_balance > inputs_balance
    IN CASE \E i \in DOMAIN tx.ins : find_tx_out(tx.ins[i], utxos).err # "Ok" -> "UnableToComputeFees"
         [] OverflowChecks /\ overflow -> "Panic"
         [] \A i \in DOMAIN tx.ins : is_redeem_utxo(tx.ins[i], utxos) -> "Ok"
         [] OverflowChecks /\ underflow -> "Panic"
         [] OTHER -> Ensure(total_balance >= pp.summand + pp.multiplier * tx.size, "FeesBelowMin")

check_size(tx, pp) == Ensure(tx.size <= pp.max_tx_size, "MaxTxSizeExceeded")

(* A witness redeems an address of its own kind whose root is its key.     *)
redeems(w, addr) == w.vkey = addr.id /\ addr.kind = [Pk |-> "PubKey", Redeem |-> "Redeem"][w.kind]

tag_witnesses(wits) ==
    IF \E i \in DOMAIN wits : wits[i].kind \notin {"Pk", "Redeem"}
    THEN Fail("UnableToProcessWitness") ELSE Val(wits)

find_raw_witness(out, wits) ==
    LET fit == {i \in DOMAIN wits : redeems(wits[i], out.addr)}
    IN IF fit = {} THEN Fail("MissingWitness") ELSE Val(wits[Min(fit)])

check_witnesses(tx, utxos, magic) ==
    LET wits == tag_witnesses(tx.wits)
        Input(i) ==
            LET out == find_tx_out(i, utxos)
                w == find_raw_witness(out.val, wits.val)
            IN IF out.err # "Ok" THEN out.err
               ELSE w.err && Ensure(verify_signature(w.val) /\ w.val.magic = magic, "WrongSignature")
    IN wits.err && EachOk(tx.ins, Input)

validate_byron_tx(tx, utxos, pp, magic) ==
    check_ins_not_empty(tx) && check_outs_not_empty(tx) && check_ins_in_utxos(tx, utxos)
        && check_outs_have_lovelace(tx) && check_fees(tx, utxos, pp) && check_size(tx, pp)
        && check_witnesses(tx, utxos, magic)

=============================================================================
