---------------------------- MODULE LedgerTypes ----------------------------
(***************************************************************************)
(* What the ledger rules of pallas-validate share: values and their        *)
(* arithmetic (utils.rs), witnesses, native scripts, the Result of a check *)
(* and, with phase two and the builder, the transaction as pallas-traverse *)
(* shows it.  A check is "Ok" or the name of the error it returns; a       *)
(* fallible computation is a record [err, val].  Hashes are injective: a   *)
(* key, a script or a datum stands for its own hash.                       *)
(***************************************************************************)
EXTENDS Integers, Sequences, FiniteSets, SequencesExt, FiniteSetsExt

CONSTANTS
    Word,       \* the modulus of u64: amounts wrap around, or are refused, at Word
    Word32,     \* the modulus of u32, the width of the fee computed from a size
    NativeOf,   \* native script -> [kind, args, n]; args name the scripts inside
    HashOrder   \* the script and key hashes in lexicographic order

ASSUME WidthsAssumption == /\ Word \in Nat /\ Word32 \in Nat
                           /\ Word32 > 1 /\ Word > Word32 /\ Word % 2 = 0

NativeScripts == DOMAIN NativeOf

----------------------------------------------------------------------------
(* Results.  a && b is a?; b: the first error ends the sequence of checks. *)

a && b == IF a = "Ok" THEN b ELSE a

Ensure(cond, err) == IF cond THEN "Ok" ELSE err

Val(v) == [err |-> "Ok", val |-> v]
Fail(e) == [err |-> e]

(* The elements of a sequence checked in order; the error of the first     *)
(* that fails is the error of the whole loop.                              *)
FirstError(results) ==
    LET bad == {i \in DOMAIN results : results[i] # "Ok"}
    IN IF bad = {} THEN "Ok" ELSE results[Min(bad)]
EachOk(s, Check(_)) == FirstError([i \in DOMAIN s |-> Check(s[i])])

(* The results of a sequence of computations, or the first error of one.   *)
Collect(results) ==
    LET err == FirstError([i \in DOMAIN results |-> results[i].err])
    IN IF err = "Ok" THEN Val([i \in DOMAIN results |-> results[i].val]) ELSE Fail(err)

Indexed(s) == [i \in DOMAIN s |-> i]

(* A fallible step folded over a sequence.                                 *)
TryFold(Step(_, _), start, s) ==
    FoldLeft(LAMBDA acc, x : IF acc.err = "Ok" THEN Step(acc.val, x) ELSE acc, Val(start), s)

(* A stable sort: an element has ahead of it those that come before it,    *)
(* and the earlier ones that it does not come before.                      *)
Sorted(s, Before(_, _)) ==
    LET Ahead(i) == {j \in DOMAIN s : Before(s[j], s[i]) \/ (j < i /\ ~Before(s[i], s[j]))}
    IN [k \in DOMAIN s |-> s[CHOOSE i \in DOMAIN s : Cardinality(Ahead(i)) = k - 1]]

(* Sorting by hash, and by reference.                                      *)
Rank(h) == CHOOSE i \in DOMAIN HashOrder : HashOrder[i] = h
SortHashes(S) == Sorted(SetToSeq(S), LAMBDA x, y : Rank(x) < Rank(y))
SortRefs(s) == Sorted(s, LAMBDA x, y : x < y)
Elems(s) == {s[i] : i \in DOMAIN s}

None == [some |-> FALSE]
Some(x) == [some |-> TRUE, is |-> x]
IsSome(o) == o.some
HasSome(o, x) == o.some /\ o.is = x

----------------------------------------------------------------------------
(* Amounts.                                                                *)

as_i64(n) == IF n >= Word \div 2 THEN n - Word ELSE n
as_u64(n) == n % Word

(* Sums of i64 and of u64 wrap around, as they do in a release build; a    *)
(* build with overflow checks panics there and accepts no more.            *)
add_i64(m, n) == as_i64((m + n) % Word)

(* A multiasset maps a policy to the amounts of its assets.                *)
NoAssets == [p \in {} |-> 0]
Amount(ma, p, a) == IF p \in DOMAIN ma /\ a \in DOMAIN ma[p] THEN ma[p][a] ELSE 0
MapAmounts(ma, Op(_)) == [p \in DOMAIN ma |-> [a \in DOMAIN ma[p] |-> Op(ma[p][a])]]
AnyAmount(ma, Bad(_)) == \E p \in DOMAIN ma : \E a \in DOMAIN ma[p] : Bad(ma[p][a])
AssetsOf(ma, p) == IF p \in DOMAIN ma THEN DOMAIN ma[p] ELSE {}
PairsOf(ma) == UNION {{<<p, a>> : a \in DOMAIN ma[p]} : p \in DOMAIN ma}

Coin(n) == [coin |-> n, multi |-> FALSE, ma |-> NoAssets]
Multiasset(n, m) == [coin |-> n, multi |-> TRUE, ma |-> m]
empty_value == Multiasset(0, NoAssets)

add_lovelace(f, s, err) == IF f + s < Word THEN Val(f + s) ELSE Fail(err)

(* Two multiassets added amount by amount.                                 *)
AddAmounts(f, s, Add(_, _)) ==
    [p \in DOMAIN f \cup DOMAIN s |->
        [a \in AssetsOf(f, p) \cup AssetsOf(s, p) |-> Add(Amount(f, p, a), Amount(s, p, a))]]

add_multiasset_values(f, s) == AddAmounts(f, s, add_i64)

coerce_to_i64(ma) == MapAmounts(ma, as_i64)

coerce_to_coin(ma, err) ==
    IF AnyAmount(ma, LAMBDA n : n < 0) THEN Fail(err) ELSE Val(ma)

(* PositiveCoin::try_from(..).unwrap() panics on a zero.                    *)
conway_coerce_to_coin(ma) ==
    IF AnyAmount(ma, LAMBDA n : n = 0) THEN Fail("Panic") ELSE Val(ma)

conway_coerce_to_non_zero_coin(mint) == conway_coerce_to_coin(MapAmounts(mint, as_u64))

conway_add_multiasset_values(f, s) == AddAmounts(f, s, LAMBDA m, n : as_u64(m + n))

(* Minting on an asset of the base adds the signed amounts; on any other   *)
(* asset the signed amount is cast, and what is zero in the end is dropped. *)
conway_add_multiasset_non_negative_values(f, mint) ==
    LET New(p, a) == IF a \in AssetsOf(mint, p)
                     THEN IF a \in AssetsOf(f, p) THEN add_i64(as_i64(f[p][a]), mint[p][a])
                                                  ELSE as_u64(mint[p][a])
                     ELSE f[p][a]
        Names(p) == AssetsOf(f, p) \cup AssetsOf(mint, p)
        Kept(p) == {a \in Names(p) : New(p, a) > 0}
        policies == DOMAIN f \cup DOMAIN mint
    IN IF \E p \in policies : \E a \in Names(p) : New(p, a) < 0
       THEN Fail("NegativeValue")
       ELSE Val([p \in {q \in policies : Kept(q) # {}} |-> [a \in Kept(p) |-> New(p, a)]])

WithAssets(f, s, err, assets) ==
    LET coin == add_lovelace(f.coin, s.coin, err)
    IN IF coin.err # "Ok" THEN coin
       ELSE IF assets.err # "Ok" THEN assets
       ELSE Val([coin |-> coin.val, multi |-> f.multi \/ s.multi, ma |-> assets.val])

add_values(f, s, err) ==
    WithAssets(f, s, err,
        CASE f.multi /\ s.multi ->
                 coerce_to_coin(add_multiasset_values(coerce_to_i64(f.ma), coerce_to_i64(s.ma)), err)
          [] f.multi /\ ~s.multi -> Val(f.ma)
          [] ~f.multi -> Val(s.ma))

conway_add_values(f, s, err) ==
    WithAssets(f, s, err,
        CASE f.multi /\ s.multi -> conway_coerce_to_coin(conway_add_multiasset_values(f.ma, s.ma))
          [] f.multi /\ ~s.multi -> Val(f.ma)
          [] ~f.multi -> Val(s.ma))

add_minted_value(base, mint, err) ==
    LET ma == IF base.multi
              THEN coerce_to_coin(add_multiasset_values(coerce_to_i64(base.ma), mint), err)
              ELSE coerce_to_coin(mint, err)
    IN IF ma.err = "Ok" THEN Val(Multiasset(base.coin, ma.val)) ELSE ma

conway_add_minted_non_zero(base, mint) ==
    LET sum == conway_add_multiasset_non_negative_values(base.ma, mint)
        ma == IF ~base.multi THEN conway_coerce_to_non_zero_coin(mint)
              ELSE IF sum.err = "Ok" THEN conway_coerce_to_coin(sum.val) ELSE sum
    IN IF ma.err = "Ok" THEN Val(Multiasset(base.coin, ma.val)) ELSE ma

(* A policy that is missing on the other side differs, even when all its   *)
(* amounts are zero.                                                       *)
multi_asset_included(f, s) ==
    \A p \in DOMAIN f :
        /\ p \in DOMAIN s
        /\ \A a \in DOMAIN f[p] : f[p][a] # 0 => a \in DOMAIN s[p] /\ s[p][a] = f[p][a]

multi_assets_are_equal(f, s) == multi_asset_included(f, s) /\ multi_asset_included(s, f)

values_are_equal(f, s) ==
    /\ f.coin = s.coin
    /\ CASE f.multi /\ s.multi -> multi_assets_are_equal(f.ma, s.ma)
         [] f.multi /\ ~s.multi -> f.ma = NoAssets
         [] ~f.multi /\ s.multi -> s.ma = NoAssets
         [] ~f.multi /\ ~s.multi -> TRUE

lovelace_diff_or_fail(f, s, err) ==
    IF /\ f.coin >= s.coin
       /\ s.multi => f.multi
       /\ values_are_equal([f EXCEPT !.coin = 0], [s EXCEPT !.coin = 0])
    THEN Val(f.coin - s.coin) ELSE Fail(err)

(* Words of the encoded value: the assets are what makes it grow.          *)
get_val_size_in_words(v) == IF v.multi THEN 1 + Cardinality(PairsOf(v.ma)) ELSE 1

----------------------------------------------------------------------------
(* Witnesses.  A key witness is [vkey, valid]: valid when the signature is *)
(* one of this transaction's body.                                         *)

verify_signature(w) == w.valid

(* The script hash that locks an output, if a script does.                 *)
ScriptOf(out) == IF out.addr.kind = "Script" THEN Some(out.addr.id) ELSE None

(* Mutant: any witness of the key will do, signed or not.                  *)
KeyNamed(key, wits, missing, wrong) == Ensure(\E i \in DOMAIN wits : wits[i].vkey = key, missing)

(* The first witness of a key decides.                                     *)
KeyWitness(key, wits, missing, wrong) ==
    LET fit == {i \in DOMAIN wits : wits[i].vkey = key}
    IN IF fit = {} THEN missing ELSE Ensure(verify_signature(wits[Min(fit)]), wrong)

(* The witnesses that stand for one of the keys: the first of each.        *)
CoveredBy(wits, keys) ==
    {Min({w \in DOMAIN wits : wits[w].vkey = k}) :
        k \in {x \in keys : \E w \in DOMAIN wits : wits[w].vkey = x}}

(* The data among the witnesses that the hashes in the inputs mark as      *)
(* found: of equal ones, the first.                                        *)
find_plutus_datum_in_witness_set(tx, utxos) ==
    LET hashes == {utxos[i].datum.is : i \in {j \in Elems(tx.ins) : IsSome(utxos[j].datum)}}
    IN {Min({k \in DOMAIN tx.datums : tx.datums[k] = h}) : h \in hashes \cap Elems(tx.datums)}

MintPolicies(tx) == IF IsSome(tx.mint) THEN DOMAIN tx.mint.is ELSE {}
RedeemerPointers(tx) == {<<r.tag, r.index>> : r \in Elems(tx.redeemers)}
SumUnits(s, Unit(_)) == FoldLeft(LAMBDA acc, r : acc + Unit(r), 0, s)

(* A native script against the witnesses and the validity interval, with   *)
(* the bounds of the interval as options.                                  *)
eval_native_script(vkeys, low, upp) ==
    LET eval[s \in NativeScripts] ==
            LET d == NativeOf[s] IN
            CASE d.kind = "All" -> \A i \in DOMAIN d.args : eval[d.args[i]]
              [] d.kind = "Any" -> \E i \in DOMAIN d.args : eval[d.args[i]]
              [] d.kind = "Pubkey" -> d.n \in vkeys
              [] d.kind = "NOfK" -> Cardinality({i \in DOMAIN d.args : eval[d.args[i]]}) >= d.n
              [] d.kind = "InvalidBefore" -> IsSome(low) /\ d.n <= low.is
              [] d.kind = "InvalidHereafter" -> IsSome(upp) /\ d.n >= upp.is
    IN eval

----------------------------------------------------------------------------
(* The era-independent view of a transaction in pallas-traverse (tx.rs):   *)
(* which outputs it consumes and produces, and the orders in which indexes *)
(* count.  A field that an era does not have is empty in its record.       *)

inputs(tx) == tx.ins
outputs(tx) == tx.outs
collateral(tx) == IF tx.era = "Byron" THEN <<>> ELSE tx.coll
reference_inputs(tx) == IF tx.era \in {"Babbage", "Conway"} THEN tx.refs ELSE <<>>
collateral_return(tx) == IF tx.era \in {"Babbage", "Conway"} THEN tx.coll_return ELSE None
is_valid(tx) == tx.era = "Byron" \/ tx.success

(* The inputs in order, each once.                                         *)
inputs_sorted_set(tx) == SortRefs(SetToSeq(Elems(tx.ins)))
mints_sorted_set(tx) == SortHashes(MintPolicies(tx))

consumes(tx) == Elems(IF is_valid(tx) THEN inputs(tx) ELSE collateral(tx))

(* Output index -> output; the return of the collateral takes the index    *)
(* that follows the outputs.                                               *)
produces(tx) ==
    IF is_valid(tx) THEN [i \in 0 .. Len(outputs(tx)) - 1 |-> outputs(tx)[i + 1]]
    ELSE IF IsSome(collateral_return(tx)) THEN [i \in {Len(outputs(tx))} |-> collateral_return(tx).is]
    ELSE [i \in {} |-> 0]

requires(tx) == inputs(tx) \o reference_inputs(tx) \o collateral(tx)

----------------------------------------------------------------------------
(* The witnesses (witnesses.rs), each from the era that brought it.        *)

multi_era_native_scripts(tx) == IF tx.era = "Byron" THEN <<>> ELSE tx.native
plutus_v1_scripts(tx) == IF tx.era = "Byron" THEN <<>> ELSE tx.v1
plutus_v2_scripts(tx) == IF tx.era \in {"Babbage", "Conway"} THEN tx.v2 ELSE <<>>
plutus_v3_scripts(tx) == IF tx.era = "Conway" THEN tx.v3 ELSE <<>>
plutus_data(tx) == IF tx.era = "Byron" THEN <<>> ELSE tx.datums
redeemers(tx) == IF tx.era = "Byron" THEN <<>> ELSE tx.redeemers

----------------------------------------------------------------------------
(* Slots and epochs (time.rs) over the genesis values of the main network  *)
(* (wellknown.rs).                                                         *)

mainnet == [byron_epoch_length |-> 432000, byron_slot_length |-> 20,
            shelley_epoch_length |-> 432000, shelley_slot_length |-> 1,
            shelley_known_slot |-> 4492800]

compute_era_epoch(era_slot, slot_length, epoch_length) ==
    <<(era_slot * slot_length) \div epoch_length, era_slot % epoch_length>>

compute_absolute_slot_within_era(epoch, slot, epoch_length, slot_length) ==
    ((epoch * epoch_length) \div slot_length) + slot

shelley_start_epoch(g) ==
    compute_era_epoch(g.shelley_known_slot, g.byron_slot_length, g.byron_epoch_length)[1]

absolute_slot_to_relative(g, slot) ==
    IF slot < g.shelley_known_slot
    THEN compute_era_epoch(slot, g.byron_slot_length, g.byron_epoch_length)
    ELSE LET r == compute_era_epoch(slot - g.shelley_known_slot,
                                    g.shelley_slot_length, g.shelley_epoch_length)
         IN <<shelley_start_epoch(g) + r[1], r[2]>>

relative_slot_to_absolute(g, epoch, slot) ==
    LET start == shelley_start_epoch(g)
    IN IF epoch < start
       THEN compute_absolute_slot_within_era(epoch, slot, g.byron_epoch_length, g.byron_slot_length)
       ELSE compute_absolute_slot_within_era(start, 0, g.byron_epoch_length, g.byron_slot_length)
              + compute_absolute_slot_within_era(epoch - start, slot, g.shelley_epoch_length,
                                                 g.shelley_slot_length)

=============================================================================
