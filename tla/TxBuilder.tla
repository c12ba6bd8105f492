----------------------------- MODULE TxBuilder -----------------------------
(***************************************************************************)
(* pallas-txbuilder: a transaction is staged by builder calls in any order *)
(* (transaction/model.rs), may be stored as JSON and loaded again in       *)
(* between (transaction/serialise.rs), is built (conway.rs), and then      *)
(* signatures come and go.  The maps of the staging transaction are hash   *)
(* maps: the build meets their entries in any order.  The built            *)
(* transaction has the form that the rules of module Conway judge.         *)
(***************************************************************************)
EXTENDS LedgerTypes

CONSTANTS
    Bases,      \* staging transactions that earlier calls made
    Refs,       \* inputs
    Outs,       \* outputs that are staged
    Policies, Amounts, \* of minted assets: an asset is named by its policy
    Keys,       \* keys that sign
    Scripts,    \* [kind, bytes] -> hash
    Data,       \* Plutus data, by their bytes
    Malformed,  \* bytes that decode to no script or datum
    Known,      \* reference -> output, for the rules that judge the result
    Params,     \* the protocol parameters they judge it by
    MaxOps, MaxSigs,   \* bounds: staging calls, changes of signatures
    PlutusOf, SlotConfig

ASSUME BuilderAssumption == MaxOps \in Nat /\ MaxSigs \in Nat

ConwayRules == INSTANCE Conway
Evaluation == INSTANCE Phase2

VARIABLES
    st,     \* the StagingTransaction
    built,  \* [status, tx, signatures]: status is "no", "Ok", an error or "panic"
    ops, sigs

vars == <<st, built, ops, sigs>>

Over(f, x, y) == [z \in DOMAIN f \cup {x} |-> IF z = x THEN y ELSE f[z]]
Less(f, x) == [z \in DOMAIN f \ {x} |-> f[z]]
Retained(s, Keep(_)) == FlattenSeq([i \in DOMAIN s |-> IF Keep(s[i]) THEN <<s[i]>> ELSE <<>>])
Empty == [x \in {} |-> 0]

(* StagingTransaction::new.                                                *)
new == [inputs |-> <<>>, reference_inputs |-> <<>>, outputs |-> <<>>, fee |-> None, mint |-> Empty,
        valid_from_slot |-> None, invalid_from_slot |-> None, network_id |-> None,
        collateral_inputs |-> <<>>, collateral_output |-> None, disclosed_signers |-> <<>>,
        scripts |-> Empty, datums |-> Empty, redeemers |-> Empty, language_views |-> None,
        auxiliary_data |-> None]

----------------------------------------------------------------------------
(* The staging calls: what each may make of a staging transaction.         *)

(* A field that is a list grows at its end, and loses every copy.          *)
push(s, field, x) == [s EXCEPT ![field] = Append(@, x)]
retain(s, field, x) == [s EXCEPT ![field] = Retained(@, LAMBDA y : y # x)]
set(s, field, x) == [s EXCEPT ![field] = Some(x)]
clear(s, field) == [s EXCEPT ![field] = None]

remove_output(s, i) == [s EXCEPT !.outputs = SubSeq(@, 1, i) \o SubSeq(@, i + 2, Len(@))]

mint_asset(s, p, n) ==
    [s EXCEPT !.mint = Over(@, p, Over(IF p \in DOMAIN @ THEN @[p] ELSE Empty, "a", n + Amount(@, p, "a")))]

remove_mint_asset(s, p) == [s EXCEPT !.mint = Less(@, p)]

(* The same bytes have a hash for every language.                          *)
script(s, kind, bytes) == [s EXCEPT !.scripts = Over(@, Scripts[kind, bytes], [kind |-> kind, bytes |-> bytes])]
remove_script_by_hash(s, h) == [s EXCEPT !.scripts = Less(@, h)]

(* hash_cbor hashes the bytes encoded once more, as an array of numbers,   *)
(* not the bytes themselves: the key is not the hash of the datum.         *)
hash(d) == <<"bytes", d>>
hash_cbor(d) == <<"array", d>>
datum(s, d) == [s EXCEPT !.datums = Over(@, hash_cbor(d), d)]
remove_datum(s, d) == [s EXCEPT !.datums = Less(@, hash_cbor(d))]
remove_datum_by_hash(s, h) == [s EXCEPT !.datums = Less(@, h)]

add_language(s, kind, model) ==
    IF kind = "Native" THEN s
    ELSE [s EXCEPT !.language_views = Some(Over(IF IsSome(@) THEN @.is ELSE Empty, kind, model))]

Spend(r) == <<"Spend", r>>
Mint(p) == <<"Mint", p>>
add_redeemer(s, purpose, d, ex_units) ==
    [s EXCEPT !.redeemers = Over(@, purpose, [data |-> d, ex |-> ex_units])]
remove_redeemer(s, purpose) == [s EXCEPT !.redeemers = Less(@, purpose)]

(* Bytes that do not decode are ignored.                                   *)
add_auxiliary_data(s, d) == IF d \in Malformed THEN s ELSE set(s, "auxiliary_data", d)

(* The calls that make an output.                                          *)
Output(addr, n) == [addr |-> addr, lovelace |-> n, assets |-> Empty, datum |-> None, inline |-> None, script |-> None]
add_asset(o, p, n) ==
    [o EXCEPT !.assets = Over(@, p, Over(IF p \in DOMAIN @ THEN @[p] ELSE Empty, "a", n + Amount(@, p, "a")))]
set_inline_datum(o, d) == [o EXCEPT !.inline = Some(d), !.datum = None]
set_datum_hash(o, h) == [o EXCEPT !.datum = Some(h), !.inline = None]
set_inline_script(o, kind, bytes) == [o EXCEPT !.script = Some([kind |-> kind, bytes |-> bytes])]

----------------------------------------------------------------------------
(* JSON: the keys of a map become text.  A purpose is written with its tag *)
(* and, for an input, its hash and index (here a reference by tens), and   *)
(* read back by splitting at the separators.                               *)

serialize(purpose) == IF purpose[1] = "Spend" THEN <<"spend", purpose[2] \div 10, purpose[2] % 10>>
                                              ELSE <<"mint", purpose[2]>>
visit_str(text) == IF text[1] = "spend" THEN Spend(text[2] * 10 + text[3]) ELSE Mint(text[2])

to_json(s) == [s EXCEPT !.redeemers = {<<serialize(p), @[p]>> : p \in DOMAIN @},
                        !.mint = {<<p, {<<a, @[p][a]>> : a \in DOMAIN @[p]}>> : p \in DOMAIN @}]
from_json(j) ==
    LET Pairs(S, Key(_), Value(_)) ==
            [k \in {Key(e[1]) : e \in S} |-> Value((CHOOSE e \in S : Key(e[1]) = k)[2])]
        Same(x) == x
    IN [j EXCEPT !.redeemers = Pairs(@, visit_str, Same),
                 !.mint = Pairs(@, Same, LAMBDA assets : Pairs(assets, Same, Same))]

----------------------------------------------------------------------------
(* build_conway_raw.                                                       *)

(* An output: a zero amount panics, an inline datum or a native script has *)
(* to decode.                                                              *)
build_babbage_raw(o) ==
    IF AnyAmount(o.assets, LAMBDA n : n = 0) THEN Fail("panic")
    ELSE IF IsSome(o.inline) /\ o.inline.is \in Malformed THEN Fail("MalformedDatum")
    ELSE IF IsSome(o.script) /\ o.script.is.kind = "Native" /\ o.script.is.bytes \in Malformed
    THEN Fail("MalformedScript")
    ELSE Val([era |-> "Conway", addr |-> o.addr, datum |-> o.datum, inline |-> o.inline, legacy |-> FALSE,
              value |-> IF o.assets = Empty THEN Coin(o.lovelace) ELSE Multiasset(o.lovelace, o.assets),
              script_ref |-> IF IsSome(o.script)
                             THEN Some([lang |-> o.script.is.kind, id |-> Scripts[o.script.is.kind, o.script.is.bytes]])
                             ELSE None])

(* Mutant: the position among the inputs as they were staged.              *)
InStagedOrder(s, ins, policies, purpose) ==
    LET r == s.redeemers[purpose]
        among == IF purpose[1] = "Spend" THEN s.inputs ELSE policies
        at == {i \in DOMAIN among : among[i] = purpose[2]}
    IN IF ~IsSome(r.ex) THEN Fail("panic")
       ELSE IF r.data \in Malformed THEN Fail("MalformedDatum")
       ELSE IF at = {} THEN Fail("RedeemerTargetMissing")
       ELSE Val([tag |-> purpose[1], index |-> Min(at) - 1, data |-> r.data,
                 mem |-> r.ex.is, steps |-> r.ex.is])

(* A redeemer names its target by position: that of the first copy of the  *)
(* input among the sorted inputs, or of the policy among the sorted ones.  *)
build_redeemer(s, ins, policies, purpose) ==
    LET r == s.redeemers[purpose]
        among == IF purpose[1] = "Spend" THEN ins ELSE policies
        at == {i \in DOMAIN among : among[i] = purpose[2]}
    IN IF ~IsSome(r.ex) THEN Fail("panic")
       ELSE IF r.data \in Malformed THEN Fail("MalformedDatum")
       ELSE IF at = {} THEN Fail("RedeemerTargetMissing")
       ELSE Val([tag |-> purpose[1], index |-> Min(at) - 1, data |-> r.data,
                 mem |-> r.ex.is, steps |-> r.ex.is])

(* The language views of a staging transaction: a language stands for the  *)
(* model that the parameters have for it.                                  *)
ViewsOf(views) == {IF views[l] = "current" THEN l ELSE "outdated" : l \in DOMAIN views}

(* Mutant: only the redeemers are hashed.                                  *)
HashWithoutDatums(s, rdmrs, datums) ==
    IF ~IsSome(s.language_views) THEN None
    ELSE Some(<<rdmrs, <<>>, ViewsOf(s.language_views.is)>>)

(* The hash is there when language views are, and then covers a list of    *)
(* redeemers even if it is empty.                                          *)
script_data_hash(s, rdmrs, datums) ==
    IF ~IsSome(s.language_views) THEN None
    ELSE Some(<<IF rdmrs = <<>> THEN <<"empty list">> ELSE rdmrs, datums, ViewsOf(s.language_views.is)>>)

(* scripts, datums and purposes: the orders in which the maps are met.     *)
build_conway_raw(s, scripts, datums, purposes) ==
    LET ins == SortRefs(s.inputs)
        policies == SortHashes(DOMAIN s.mint)
        outs == Collect([i \in DOMAIN s.outputs |-> build_babbage_raw(s.outputs[i])])
        returned == IF IsSome(s.collateral_output) THEN build_babbage_raw(s.collateral_output.is) ELSE Val(0)
        rdmrs == Collect([i \in DOMAIN purposes |-> build_redeemer(s, ins, policies, purposes[i])])
        Of(kind) == SelectSeq(scripts, LAMBDA h : s.scripts[h].kind = kind)
        bytes == [i \in DOMAIN datums |-> s.datums[datums[i]]]
        err == outs.err
                 && Ensure(~AnyAmount(s.mint, LAMBDA n : n = 0), "panic")
                 && Ensure(IsSome(s.network_id) => s.network_id.is \in {0, 1}, "InvalidNetworkId")
                 && returned.err
                 && EachOk(Of("Native"), LAMBDA h : Ensure(s.scripts[h].bytes \notin Malformed, "MalformedScript"))
                 && EachOk(bytes, LAMBDA d : Ensure(d \notin Malformed, "MalformedDatum"))
                 && rdmrs.err
    IN IF err # "Ok" THEN Fail(err)
       ELSE Val([era |-> "Conway", ins |-> ins, outs |-> outs.val,
                 fee |-> IF IsSome(s.fee) THEN s.fee.is ELSE 0, ttl |-> s.invalid_from_slot,
                 start |-> s.valid_from_slot, certs |-> <<>>, wdrl |-> {},
                 mint |-> IF s.mint = Empty THEN None ELSE Some(s.mint),
                 coll |-> s.collateral_inputs,
                 coll_return |-> IF IsSome(s.collateral_output) THEN Some(returned.val) ELSE None,
                 total_coll |-> None, refs |-> s.reference_inputs, signers |-> s.disclosed_signers,
                 net |-> s.network_id, sdh |-> script_data_hash(s, rdmrs.val, bytes),
                 aux_hash |-> s.auxiliary_data, aux |-> s.auxiliary_data,
                 vkeys |-> <<>>, wits |-> <<>>, native |-> Of("Native"), v1 |-> Of("V1"), v2 |-> Of("V2"),
                 v3 |-> Of("V3"), datums |-> bytes, data_present |-> bytes # <<>>,
                 redeemers |-> rdmrs.val, votes |-> {}, proposals |-> <<>>, size |-> 1, success |-> TRUE])

----------------------------------------------------------------------------
(* Signatures of a built transaction: the map of the document and the      *)
(* witnesses inside the bytes.                                             *)

add_signature(b, k, valid) ==
    [b EXCEPT !.signatures = Over(@, k, valid),
              !.tx.vkeys = Append(@, [vkey |-> k, valid |-> valid])]

sign(b, k) == add_signature(b, k, TRUE)

(* Mutant: only the first witness of the key goes.                         *)
RemovesFirst(b, k) ==
    LET w == b.tx.vkeys
        at == {i \in DOMAIN w : w[i].vkey = k}
        rest == IF at = {} THEN w ELSE RemoveAt(w, Min(at))
    IN [b EXCEPT !.signatures = Less(@, k), !.tx.vkeys = rest, !.status = IF rest = <<>> THEN "panic" ELSE @]

(* A set of witnesses that would be empty is unwrapped all the same.       *)
remove_signature(b, k) ==
    LET rest == Retained(b.tx.vkeys, LAMBDA w : w.vkey # k)
    IN [b EXCEPT !.signatures = Less(@, k), !.tx.vkeys = rest, !.status = IF rest = <<>> THEN "panic" ELSE @]

----------------------------------------------------------------------------
(* What the type StagingTransaction guarantees: its inputs are a list, its *)
(* maps are finite, and a redeemer is for an input or for a policy.        *)
StagingTransaction(s) ==
    /\ DOMAIN s = DOMAIN new
    /\ s.inputs \in Seq(Nat)
    /\ IsFiniteSet(DOMAIN s.mint) /\ IsFiniteSet(DOMAIN s.redeemers)
    /\ \A p \in DOMAIN s.redeemers : (p = Spend(p[2]) /\ p[2] \in Nat) \/ p = Mint(p[2])

ASSUME BasesAssumption == Refs \subseteq Nat /\ \A s \in Bases : StagingTransaction(s)

Init ==
    /\ st \in Bases
    /\ built = [status |-> "no", tx |-> Empty, signatures |-> Empty]
    /\ ops = 0 /\ sigs = 0

Staged(next) ==
    /\ built.status = "no" /\ ops < MaxOps
    /\ st' \in next
    /\ ops' = ops + 1
    /\ UNCHANGED <<built, sigs>>

Inputs == \E f \in {"inputs", "reference_inputs", "collateral_inputs"} :
              Staged({push(st, f, r) : r \in Refs} \cup {retain(st, f, r) : r \in Elems(st[f])})
Signers == Staged({push(st, "disclosed_signers", k) : k \in Keys}
                    \cup {retain(st, "disclosed_signers", k) : k \in Keys})
Outputs == Staged({push(st, "outputs", o) : o \in Outs}
                    \cup {remove_output(st, i) : i \in 0 .. Len(st.outputs) - 1})
Fields == Staged({set(st, "fee", 20), clear(st, "fee"), set(st, "valid_from_slot", 1), clear(st, "valid_from_slot"),
                  set(st, "invalid_from_slot", 9), clear(st, "invalid_from_slot"), clear(st, "network_id"),
                  clear(st, "collateral_output"), clear(st, "auxiliary_data")}
                   \cup {set(st, "network_id", n) : n \in {0, 2}}
                   \cup {set(st, "collateral_output", o) : o \in Outs}
                   \cup {add_auxiliary_data(st, d) : d \in {"meta"} \cup Malformed})
Mints == Staged({mint_asset(st, p, n) : p \in Policies, n \in Amounts} \cup {remove_mint_asset(st, p) : p \in Policies})
Attached == Staged({script(st, k[1], k[2]) : k \in DOMAIN Scripts}
                     \cup {remove_script_by_hash(st, h) : h \in DOMAIN st.scripts}
                     \cup {datum(st, d) : d \in Data} \cup {remove_datum(st, d) : d \in Data}
                     \cup {remove_datum_by_hash(st, hash(d)) : d \in Data}
                     \cup {add_language(st, k[1], m) : k \in DOMAIN Scripts, m \in {"current", "old"}})
Redeemers == Staged({add_redeemer(st, p, d, e) : p \in {Spend(r) : r \in Refs} \cup {Mint(h) : h \in Policies},
                                                d \in Data, e \in {None, Some(4)}}
                      \cup {remove_redeemer(st, p) : p \in DOMAIN st.redeemers})
Reload == Staged({from_json(to_json(st))})

Build ==
    /\ built.status = "no"
    /\ \E scripts \in SetToSeqs(DOMAIN st.scripts), datums \in SetToSeqs(DOMAIN st.datums),
          purposes \in SetToSeqs(DOMAIN st.redeemers) :
           LET r == build_conway_raw(st, scripts, datums, purposes)
           IN built' = IF r.err = "Ok" THEN [built EXCEPT !.status = "Ok", !.tx = r.val]
                                       ELSE [built EXCEPT !.status = r.err]
    /\ UNCHANGED <<st, ops, sigs>>

Signed(next) ==
    /\ built.status = "Ok" /\ sigs < MaxSigs
    /\ built' \in next
    /\ sigs' = sigs + 1
    /\ UNCHANGED <<st, ops>>

Signatures == \E k \in Keys :
    Signed({sign(built, k), add_signature(built, k, FALSE), remove_signature(built, k)})

Next == \/ Inputs \/ Signers \/ Outputs \/ Fields \/ Mints \/ Attached \/ Redeemers \/ Reload
        \/ Build \/ Signatures

Spec == Init /\ [][Next]_vars

----------------------------------------------------------------------------
(* What a redeemer of the built transaction points at, in the orders that  *)
(* pallas-traverse gives to its readers.                                   *)
Target(tx, r) ==
    LET among == IF r.tag = "Spend" THEN inputs_sorted_set(tx) ELSE mints_sorted_set(tx)
    IN IF r.index < Len(among) THEN <<r.tag, among[r.index + 1]>> ELSE <<"Nothing">>

(* Whatever the order of the calls, every redeemer of the built            *)
(* transaction points at the purpose it was staged for, with its data, as  *)
(* pallas-traverse counts inputs and policies and, where the output is     *)
(* known and locked by a script, as phase two finds the script to run (an  *)
(* input staged twice shifts what traverse counts).                        *)
RedeemersResolve ==
    built.status = "Ok" /\ IsInjective(st.inputs) =>
        LET tx == built.tx
            table == Evaluation!from_transaction(tx, Known)
        IN /\ {<<Target(tx, r), r.data>> : r \in Elems(tx.redeemers)}
                = {<<p, st.redeemers[p].data>> : p \in DOMAIN st.redeemers}
           /\ \A r \in Elems(tx.redeemers) :
                  LET f == Evaluation!find_script(r, tx, Known, table)
                      p == Target(tx, r)
                  IN f.err = "Ok" => f.val.script = IF p[1] = "Mint" THEN p[2] ELSE Known[p[2]].addr.id

(* The signatures that the document lists are those inside the bytes: the  *)
(* same keys, and for each key the signature that was added last.          *)
SignaturesAgree ==
    built.status = "Ok" =>
        LET w == built.tx.vkeys
        IN /\ DOMAIN built.signatures = {w[i].vkey : i \in DOMAIN w}
           /\ \A k \in DOMAIN built.signatures :
                  w[Max({i \in DOMAIN w : w[i].vkey = k})].valid = built.signatures[k]

(* The rules of phase one accept the script data hash of a transaction     *)
(* with redeemers whose staged language views are the languages of its     *)
(* scripts with the models of the parameters, which have one for each,     *)
(* whatever order the hash maps were met in.                               *)
IntegrityHashAccepted ==
    /\ built.status = "Ok" /\ built.tx.redeemers # <<>>
    /\ Elems(built.tx.refs) \subseteq DOMAIN Known
    /\ IsSome(st.language_views)
    /\ ViewsOf(st.language_views.is) = ConwayRules!tx_languages(built.tx, Known)
    /\ ViewsOf(st.language_views.is) \subseteq Params.cost_models
    => ConwayRules!check_script_data_hash(built.tx, Known, Params) = "Ok"
=============================================================================
