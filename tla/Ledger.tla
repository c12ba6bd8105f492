------------------------------- MODULE Ledger -------------------------------
(***************************************************************************)
(* Blocks of transactions validated by pallas-validate (phase1/mod.rs) and *)
(* applied with the accessors of pallas-traverse.  A client composes the   *)
(* transactions of a block from templates and edits, validate_txs judges   *)
(* the block against the outputs known before it, and a block it accepts   *)
(* is applied.  The era of the protocol parameters only moves forward, so  *)
(* that outputs of earlier eras stay to be spent in later ones.            *)
(***************************************************************************)
EXTENDS LedgerTypes

CONSTANTS
    Eras,            \* the eras the chain goes through, in order
    Params,          \* era -> protocol parameters
    Env,             \* [slot, net, magic, reserves, treasury]
    Genesis,         \* the outputs known at first, of any format
    GenDelegs,       \* the genesis keys with their delegates at first
    Templates(_, _), \* the transactions a client starts from, by era and outputs
    Edits(_, _),     \* what one change makes of a transaction, by the outputs
    MaxTxs, MaxBlock, MaxEdits,  \* bounds: transactions ever, in a block, changes ever
    DistinctInputs,  \* no output is named twice by the inputs of a block
    PlutusOf, SlotConfig, OverflowChecks

ASSUME LedgerAssumption ==
    /\ Eras \in Seq({"Byron", "Shelley", "Alonzo", "Babbage", "Conway"})
    /\ MaxTxs \in Nat /\ MaxBlock \in Nat /\ MaxEdits \in Nat
    /\ DistinctInputs \in BOOLEAN /\ OverflowChecks \in BOOLEAN

(* The genesis keys start with delegates and VRF keys of their own.        *)
ASSUME GenDelegsAssumption ==
    \A g, h \in DOMAIN GenDelegs :
        g # h => GenDelegs[g][1] # GenDelegs[h][1] /\ GenDelegs[g][2] # GenDelegs[h][2]

ByronRules == INSTANCE Byron
ShelleyRules == INSTANCE ShelleyMA
AlonzoRules == INSTANCE Alonzo
BabbageRules == INSTANCE Babbage
ConwayRules == INSTANCE Conway
Evaluation == INSTANCE Phase2

VARIABLES
    era,     \* position in Eras of the protocol parameters in force
    utxos,   \* reference -> output
    certs,   \* the CertState
    block,   \* the transactions composed so far
    edits,   \* changes made so far
    count,   \* transactions composed so far
    supply,  \* [coins, tokens]: what was there at first and was issued since
    fees,    \* collected since
    last     \* the verdict on the last block: [err, txs, spent]

vars == <<era, utxos, certs, block, edits, count, supply, fees, last>>

(* Every block has a slot of its own.                                      *)
slot == Env.slot + count

----------------------------------------------------------------------------
(* validate_tx: [err, certs], certs the state that the call leaves.        *)

validate_tx(tx, ix, pera, acnt, outs, cs) ==
    LET pp == Params[pera]
        env == [slot |-> slot, net |-> Env.net, pp |-> pp, acnt |-> acnt]
        Stateless(e) == [err |-> e, certs |-> cs]
        Of(eras, verdict) == IF tx.era \in eras THEN verdict ELSE Stateless("TxAndProtParamsDiffer")
    IN CASE pera = "Byron" /\ ~IsSome(acnt) ->
                Of({"Byron"}, Stateless(ByronRules!validate_byron_tx(tx, outs, pp, Env.magic)))
         [] pera = "Byron" /\ IsSome(acnt) -> Stateless("PParamsByronDoesntNeedAccountState")
         [] pera = "Shelley" /\ IsSome(acnt) ->
                Of({"Shelley", "Allegra", "Mary"},
                   ShelleyRules!validate_shelley_ma_tx(tx, ix, outs, cs, env))
         [] pera = "Alonzo" ->
                Of({"Alonzo"}, Stateless(AlonzoRules!validate_alonzo_tx(tx, outs, pp, slot, Env.net)))
         [] pera = "Babbage" ->
                Of({"Babbage"}, Stateless(BabbageRules!validate_babbage_tx(tx, outs, pp, slot,
                                                                           Env.magic, Env.net)))
         [] pera = "Conway" ->
                Of({"Conway"}, Stateless(ConwayRules!validate_conway_tx(tx, outs, pp, slot, Env.net)))
         [] OTHER -> Stateless("EnvMissingAccountState")

(* validate_txs: every transaction sees the same outputs, and the          *)
(* certificate state its predecessors left.                                *)
validate_txs(txs, pera, acnt, outs, cs) ==
    LET upto[n \in 0 .. Len(txs)] ==
            IF n = 0 THEN [err |-> "Ok", certs |-> cs]
            ELSE IF upto[n - 1].err # "Ok" THEN upto[n - 1]
            ELSE validate_tx(txs[n], n - 1, pera, acnt, outs, upto[n - 1].certs)
        delta == upto[Len(txs)]
    IN IF delta.err = "Ok" THEN delta ELSE [err |-> delta.err, certs |-> cs]

----------------------------------------------------------------------------
(* What an accepted transaction does to the outputs and to the pots.  The  *)
(* reference of an output is a hundred times the number of its transaction *)
(* plus its index; those below a hundred are the outputs known at first.   *)

MaxOutputs == 100

apply(outs, tx, n) ==
    LET new == produces(tx)
        made == {n * MaxOutputs + i : i \in DOMAIN new}
    IN [r \in (DOMAIN outs \ consumes(tx)) \cup made |->
            IF r \in made THEN new[r - n * MaxOutputs] ELSE outs[r]]

SumCoins(outs, refs) == FoldSet(LAMBDA r, acc : outs[r].value.coin + acc, 0, refs)
CoinsOf(outs) == SumCoins(outs, DOMAIN outs)

PlusTokens(f, s) == AddAmounts(f, s, LAMBDA m, n : m + n)
TokensOf(outs) == FoldSet(LAMBDA r, acc : PlusTokens(acc, outs[r].value.ma), NoAssets, DOMAIN outs)

Spends(tx, outs) == [r \in consumes(tx) \cap DOMAIN outs |-> outs[r]]

(* The format of the outputs of an era.                                    *)
Format(e) == CASE e \in {"Shelley", "Allegra", "Mary", "Alonzo"} -> "Alonzo" [] OTHER -> e

(* The rules look at the collateral where there is a Plutus script, and    *)
(* can where it has the format of the era.                                 *)
Collateralised(tx, outs) ==
    /\ tx.era \in {"Alonzo", "Babbage", "Conway"}
    /\ tx.v1 \o tx.v2 \o tx.v3 # <<>>
    /\ \A r \in Elems(tx.coll) : r \in DOMAIN outs /\ outs[r].era = Format(tx.era)

(* No rule looks at the balance of a Byron transaction that only redeems,  *)
(* of any Byron transaction where a negative one wraps around, and of one  *)
(* that failed without collateral that is looked at.                       *)
Unbalanced(tx, outs) ==
    IF tx.era = "Byron"
    THEN ~OverflowChecks \/ \A i \in consumes(tx) : outs[i].addr.kind = "Redeem"
    ELSE ~is_valid(tx) /\ ~Collateralised(tx, outs)

(* The rules add tokens as i64, in Conway as u64 with a mint that is cast: *)
(* they count what fits an i64.                                            *)
Countable(tx, outs) ==
    LET Fits(ma) == ~AnyAmount(ma, LAMBDA n : n >= Word \div 2)
    IN Fits(TokensOf(Spends(tx, outs))) /\ Fits(TokensOf(produces(tx)))

(* A Byron transaction pays what it does not send on, a failed one the     *)
(* collateral it does not get back, every other one its fee.               *)
feesOf(tx, outs) ==
    CASE Unbalanced(tx, outs) -> 0
      [] ~Unbalanced(tx, outs) /\ (tx.era = "Byron" \/ ~is_valid(tx)) ->
             CoinsOf(Spends(tx, outs)) - CoinsOf(produces(tx))
      [] OTHER -> tx.fee

(* What a transaction puts into circulation: what it mints, and whatever   *)
(* it makes of its inputs where no rule looks at that.                     *)
issuedBy(tx, outs) ==
    LET spent == Spends(tx, outs)
        new == produces(tx)
        minted == IF is_valid(tx) /\ IsSome(tx.mint) THEN tx.mint.is ELSE NoAssets
    IN [coins |-> IF Unbalanced(tx, outs) THEN CoinsOf(new) - CoinsOf(spent) ELSE 0,
        tokens |-> IF Unbalanced(tx, outs) \/ ~Countable(tx, outs)
                   THEN PlusTokens(TokensOf(new), MapAmounts(TokensOf(spent), LAMBDA n : -n))
                   ELSE minted]

----------------------------------------------------------------------------

(* The formats an output can have by the time of an era.                   *)
FormatsBy(e) == {Format(Eras[i]) : i \in 1 .. e}

Init ==
    /\ era \in DOMAIN Eras
    /\ utxos = [r \in {x \in DOMAIN Genesis : Genesis[x].era \in FormatsBy(era)} |-> Genesis[r]]
    /\ certs = [ShelleyRules!EmptyCertState EXCEPT !.gen_delegs = GenDelegs]
    /\ block = <<>> /\ edits = 0 /\ count = 0 /\ fees = 0
    /\ supply = [coins |-> CoinsOf(utxos), tokens |-> TokensOf(utxos)]
    /\ last = [err |-> "None", txs |-> <<>>, spent |-> <<>>]

(* The next era starts between two blocks.                                 *)
HardFork ==
    /\ block = <<>> /\ era < Len(Eras)
    /\ era' = era + 1
    /\ UNCHANGED <<utxos, certs, block, edits, count, supply, fees, last>>

(* What the type MultiEraTx of a transaction guarantees: its inputs,       *)
(* certificates and witnesses are lists, what it mints and withdraws are   *)
(* maps, and the certificates of the eras before Alonzo are of the kinds   *)
(* there are.  A reference to an output is a number.                       *)
IsSeq(s) == s \in Seq(Elems(s))
CertKinds == {"StakeRegistration", "StakeDeregistration", "StakeDelegation", "PoolRegistration",
              "PoolRetirement", "GenesisKeyDelegation", "MIR"}
MultiEraTx(tx) ==
    /\ IsSeq(tx.ins) /\ IsSeq(tx.coll) /\ IsSeq(tx.refs) /\ IsSeq(tx.certs)
    /\ IsSeq(tx.vkeys) /\ IsSeq(tx.wits)
    /\ IsSeq(tx.native) /\ IsSeq(tx.v1) /\ IsSeq(tx.v2) /\ IsSeq(tx.v3) /\ IsSeq(tx.redeemers)
    /\ Elems(tx.ins) \cup Elems(tx.refs) \subseteq Nat
    /\ IsFiniteSet(MintPolicies(tx)) /\ IsFiniteSet(tx.wdrl)
    /\ tx.era \in {"Shelley", "Allegra", "Mary"} =>
           \A i \in DOMAIN tx.certs : tx.certs[i].t \in CertKinds

Compose ==
    /\ count < MaxTxs /\ Len(block) < MaxBlock
    /\ \E tx \in Templates(Eras[era], utxos) : MultiEraTx(tx) /\ block' = Append(block, tx)
    /\ count' = count + 1
    /\ UNCHANGED <<era, utxos, certs, edits, supply, fees, last>>

Edit ==
    /\ block # <<>> /\ edits < MaxEdits
    /\ \E tx \in Edits(block[Len(block)], utxos) :
           MultiEraTx(tx) /\ block' = Append(Front(block), tx)
    /\ edits' = edits + 1
    /\ UNCHANGED <<era, utxos, certs, count, supply, fees, last>>

(* The account state is given to every era but Byron.                      *)
acnt == IF Eras[era] = "Byron" THEN None
        ELSE Some([reserves |-> Env.reserves, treasury |-> Env.treasury])

(* What an accepted block does.                                            *)
ApplyBlock(first) ==
    /\ utxos' = FoldLeft(LAMBDA acc, i : apply(acc, block[i], first + i), utxos, Indexed(block))
    /\ fees' = fees + FoldLeft(LAMBDA acc, tx : acc + feesOf(tx, utxos), 0, block)
    /\ supply' = FoldLeft(LAMBDA acc, tx :
                     [coins |-> acc.coins + issuedBy(tx, utxos).coins,
                      tokens |-> PlusTokens(acc.tokens, issuedBy(tx, utxos).tokens)], supply, block)

ValidateTxs ==
    /\ block # <<>>
    /\ DistinctInputs => \A tx \in Elems(block) : IsInjective(tx.ins) /\ IsInjective(tx.coll)
    /\ DistinctInputs => \A i, j \in DOMAIN block :
           i # j => Elems(block[i].ins \o block[i].coll) \cap Elems(block[j].ins \o block[j].coll) = {}
    /\ \E r \in {validate_txs(block, Eras[era], acnt, utxos, certs)} :
         /\ certs' = r.certs
         /\ IF r.err = "Ok" THEN ApplyBlock(count - Len(block)) ELSE UNCHANGED <<utxos, fees, supply>>
         /\ last' = [err |-> r.err, txs |-> block,
                     spent |-> [i \in DOMAIN block |->
                                  [k \in Elems(requires(block[i])) \cap DOMAIN utxos |-> utxos[k]]]]
    /\ block' = <<>>
    /\ UNCHANGED <<era, edits, count>>

Next == HardFork \/ Compose \/ Edit \/ ValidateTxs

Spec == Init /\ [][Next]_vars

----------------------------------------------------------------------------
Accepted == IF last.err = "Ok" THEN DOMAIN last.txs ELSE {}

SameTokens(f, g) == \A x \in PairsOf(f) \cup PairsOf(g) : Amount(f, x[1], x[2]) = Amount(g, x[1], x[2])

(* Money is neither created nor destroyed by the blocks that validate_txs  *)
(* accepts: what the outputs hold, the fees, and the deposits of the keys  *)
(* and pools that the certificates registered always make up the lovelace  *)
(* there was at first, every token was there or was minted, and no fee is  *)
(* negative: a Byron transaction, which does not state its own, pays the   *)
(* least that the parameters ask for.  This is so but for the transactions *)
(* that no rule balances (Unbalanced), and the tokens of those that move   *)
(* 2^63 or more of one (Countable): Conway casts a mint of -n of an asset  *)
(* that the inputs do not have to 2^64 - n, and lets outputs be paid that. *)
SupplyConserved ==
    /\ CoinsOf(utxos) + fees
         + Params["Shelley"].key_deposit * Cardinality(DOMAIN certs.rewards)
         + Params["Shelley"].pool_deposit * Cardinality(DOMAIN certs.pool_params)
       = supply.coins
    /\ SameTokens(TokensOf(utxos), supply.tokens)
    /\ \A t \in Accepted :
           LET tx == last.txs[t]
               pp == Params["Byron"]
               least == IF tx.era = "Byron" THEN pp.summand + pp.multiplier * tx.size ELSE 0
           IN Unbalanced(tx, last.spent[t]) \/ feesOf(tx, last.spent[t]) >= least

(* An output is spent by its owner: a key that signed the transaction, or  *)
(* a script that the transaction brings or refers to.                      *)
Authorised(tx, outs, i) ==
    LET o == outs[i]
        scripts == Elems(tx.native \o tx.v1 \o tx.v2 \o tx.v3)
    IN IF o.addr.kind = "Script"
       THEN \/ o.addr.id \in scripts
            \/ \E r \in Elems(tx.refs) : IsSome(outs[r].script_ref) /\ outs[r].script_ref.is.id = o.addr.id
       ELSE \E w \in Elems(tx.vkeys \o tx.wits) : w.vkey = o.addr.id /\ w.valid

(* The Plutus scripts among the witnesses, of the languages of the era.    *)
plutus_scripts(tx) == plutus_v1_scripts(tx) \o plutus_v2_scripts(tx) \o plutus_v3_scripts(tx)

(* The rules look at who owns an output that is an input, or collateral,   *)
(* of a transaction of their era.  They do not where a transaction marked  *)
(* as failed consumes its collateral, and that is locked by a script while *)
(* no Plutus script comes with the transaction, or the transaction is of   *)
(* an era before Alonzo: those share the type that has collateral.         *)
Asked(tx, o) ==
    /\ o.era = Format(tx.era)
    /\ \/ is_valid(tx)
       \/ /\ tx.era \in {"Alonzo", "Babbage", "Conway"}
          /\ o.addr.kind = "Script" => plutus_scripts(tx) # <<>>

(* Every output that an accepted transaction consumes, and whose owner the *)
(* rules of its era look at, is spent by its owner.                        *)
SpentByOwner ==
    \A t \in Accepted : LET tx == last.txs[t] IN
        \A i \in consumes(tx) : Asked(tx, last.spent[t][i]) => Authorised(tx, last.spent[t], i)

(* A transaction that fails in phase two pays for it: where it brings a    *)
(* Plutus script and collateral in the format of its era, the collateral   *)
(* that is consumed, less the output that returns the rest, is lovelace    *)
(* only and at least the percentage of the fee that the parameters ask for. *)
FailurePays ==
    \A t \in Accepted :
        LET tx == last.txs[t]
            outs == last.spent[t]
            failed == [tx EXCEPT !.success = FALSE]
            paid == Spends(failed, outs)
            back == produces(failed)
        IN Collateralised(tx, outs)
           => /\ 100 * (CoinsOf(paid) - CoinsOf(back)) >= tx.fee * Params[tx.era].collateral_percentage
              /\ SameTokens(TokensOf(paid), TokensOf(back))

(* The certificates of accepted blocks keep the stake state consistent:    *)
(* every registered credential has one pointer and no other has, only      *)
(* registered credentials delegate and only to registered pools, only such *)
(* pools retire, and no delegate or VRF key serves two genesis keys, now   *)
(* or in the future.                                                       *)
StakeConsistent ==
    LET serving == {<<g, certs.gen_delegs[g]>> : g \in DOMAIN certs.gen_delegs}
                     \cup {<<k[2], certs.fut_gen_delegs[k]>> : k \in DOMAIN certs.fut_gen_delegs}
    IN /\ {certs.ptrs[p] : p \in DOMAIN certs.ptrs} = DOMAIN certs.rewards
       /\ Cardinality(DOMAIN certs.ptrs) = Cardinality(DOMAIN certs.rewards)
       /\ DOMAIN certs.delegations \subseteq DOMAIN certs.rewards
       /\ \A k \in DOMAIN certs.delegations : certs.delegations[k] \in DOMAIN certs.pool_params
       /\ DOMAIN certs.retiring \cup DOMAIN certs.fut_pool_params \subseteq DOMAIN certs.pool_params
       /\ \A a, b \in serving : a[1] # b[1] => a[2][1] # b[2][1] /\ a[2][2] # b[2][2]

(* The errors of phase two that mean that a redeemer does not point at a   *)
(* script that phase two runs, or not at one that came with what it needs. *)
Misdirected ==
    {"ExtraneousRedeemer", "MissingScriptForRedeemer", "MissingRequiredScript", "NonScriptWithdrawal",
     "NonScriptStakeCredential", "UnsupportedCertificateType", "NoGuardrailScriptForProcedure",
     "MissingRequiredDatum", "ResolvedInputNotFound", "MissingRequiredInlineDatumOrHash",
     "NativeScriptPhaseTwo"}

(* An output locked by a PlutusV1 or PlutusV2 script that has no datum at  *)
(* all: the rules of phase one ask for the datum of a hash only.           *)
Datumless(tx, outs) ==
    LET scripts == Evaluation!from_transaction(tx, outs).scripts
    IN \E i \in Elems(tx.ins) :
           /\ outs[i].addr.kind = "Script" /\ outs[i].addr.id \in DOMAIN scripts
           /\ scripts[outs[i].addr.id] \in {"V1", "V2"}
           /\ ~IsSome(outs[i].datum) /\ ~IsSome(outs[i].inline)

(* A native script comes in an output: phase one wants a redeemer for what *)
(* a script of a reference input guards, in whatever language that is.     *)
NativeReferred(outs) ==
    \E i \in DOMAIN outs :
        ~outs[i].legacy /\ IsSome(outs[i].script_ref) /\ outs[i].script_ref.is.lang = "Native"

(* Phase one accepts two kinds of transactions that phase two cannot       *)
(* evaluate; no other is misdirected.                                      *)
Excused(tx, outs) ==
    {e \in {"MissingRequiredInlineDatumOrHash"} : Datumless(tx, outs)}
      \cup {e \in {"NativeScriptPhaseTwo"} : NativeReferred(outs)}

(* The two phases agree on what a redeemer is for: evaluating an accepted  *)
(* Conway transaction never fails because a redeemer points at nothing, at *)
(* something no script guards, at a script or datum that is missing, or at *)
(* a script that has no phase two.  There are two exceptions: an output of *)
(* a PlutusV1 or PlutusV2 script without a datum, and native scripts that  *)
(* are reference scripts.                                                  *)
RedeemersFound ==
    \A t \in Accepted :
        LET tx == last.txs[t]
            outs == last.spent[t]
        IN tx.era = "Conway" => Evaluation!eval_tx(tx, outs).err \notin Misdirected \ Excused(tx, outs)

=============================================================================
