------------------------------- MODULE Phase2 -------------------------------
(***************************************************************************)
(* Phase two of pallas-validate: the script each redeemer runs, the data   *)
(* it is given and the verdict (phase2/tx.rs, script_context.rs and        *)
(* evaluator.rs).  Only Conway transactions are evaluated.                 *)
(***************************************************************************)
EXTENDS LedgerTypes

CONSTANTS
    PlutusOf,   \* Plutus script -> [arity, result]: what the machine makes of it
    SlotConfig  \* [zero_slot, zero_time, slot_length]

(* An output decoded as a Conway output: those of Byron are not.           *)
Decodes(out) == out.era # "Byron"

(* The scripts by hash: the reference scripts of all the known outputs     *)
(* come last and win.  A datum stands for its hash.                        *)
from_transaction(tx, utxos) ==
    LET refs == {utxos[i].script_ref.is : i \in {j \in DOMAIN utxos :
                    ~utxos[j].legacy /\ IsSome(utxos[j].script_ref)}}
        Lang(s) == CASE \E r \in refs : r.id = s -> (CHOOSE r \in refs : r.id = s).lang
                     [] s \in Elems(plutus_v3_scripts(tx)) -> "V3"
                     [] s \in Elems(plutus_v2_scripts(tx)) -> "V2"
                     [] s \in Elems(plutus_v1_scripts(tx)) -> "V1"
                     [] OTHER -> "Native"
        known == Elems(multi_era_native_scripts(tx)) \cup Elems(plutus_v1_scripts(tx))
                   \cup Elems(plutus_v2_scripts(tx)) \cup Elems(plutus_v3_scripts(tx))
                   \cup {r.id : r \in refs}
    IN [datum |-> Elems(plutus_data(tx)), scripts |-> [s \in known |-> Lang(s)]]

----------------------------------------------------------------------------
(* The orders of a script context.                                         *)

sort_reward_accounts(a, b) ==
    \/ a.net < b.net
    \/ a.net = b.net /\ a.script /\ ~b.script
    \/ a.net = b.net /\ a.script = b.script /\ Rank(a.id) < Rank(b.id)

(* A voter is [kind, id].                                                  *)
sort_voters(a, b) ==
    LET order == [CommitteeScript |-> 0, CommitteeKey |-> 1, DRepScript |-> 2,
                  DRepKey |-> 3, StakePoolKey |-> 4]
    IN \/ order[a.kind] < order[b.kind]
       \/ a.kind = b.kind /\ Rank(a.id) < Rank(b.id)

sort_redeemers(a, b) ==
    LET order == [Spend |-> 0, Mint |-> 1, Cert |-> 2, Reward |-> 3, Vote |-> 4, Propose |-> 5]
    IN \/ order[a.tag] < order[b.tag]
       \/ a.tag = b.tag /\ a.index < b.index

get_withdrawals_info(tx) == Sorted(SetToSeq(tx.wdrl), sort_reward_accounts)
get_mint_info(tx) == SortHashes(MintPolicies(tx))
get_votes_info(tx) == Sorted(SetToSeq(tx.votes), sort_voters)

----------------------------------------------------------------------------
(* The inputs, sorted and with their duplicates.                           *)

output_address(o) == o.addr

TxInInfo(ins, utxos, OutputCheck(_)) ==
    LET sorted == SortRefs(ins)
        err == EachOk(sorted, LAMBDA i :
                   Ensure(i \in DOMAIN utxos, "ResolvedInputNotFound")
                     && Ensure(output_address(utxos[i]).kind \in {"Key", "Script"}, "ByronAddressNotAllowed")
                     && OutputCheck(utxos[i]))
    IN IF err = "Ok" THEN Val([k \in DOMAIN sorted |-> utxos[sorted[k]]]) ELSE Fail(err)

get_tx_in_info_v1(ins, utxos) ==
    TxInInfo(ins, utxos, LAMBDA o :
        IF o.legacy THEN "Ok"
        ELSE Ensure(~IsSome(o.inline), "InlineDatumNotAllowed")
               && Ensure(~IsSome(o.script_ref), "ScriptAndInputRefNotAllowed"))

get_tx_in_info_v2(ins, utxos) == TxInInfo(ins, utxos, LAMBDA o : "Ok")

----------------------------------------------------------------------------
(* What a redeemer points at.  Every sequence is indexed from 0.           *)

At(s, index, err) == IF index < Len(s) THEN Val(s[index + 1]) ELSE Fail(err)

script_purpose_builder(tx, nins, proposals, votes, r) ==
    LET Purpose(s) == At(s, r.index, "ExtraneousRedeemer")
    IN CASE r.tag = "Mint" -> Purpose(get_mint_info(tx)).err
         [] r.tag = "Spend" -> Ensure(r.index < nins, "ExtraneousRedeemer")
         [] r.tag = "Cert" -> Purpose(tx.certs).err
         [] r.tag = "Reward" ->
                LET account == Purpose(get_withdrawals_info(tx))
                IN account.err && Ensure(account.val.script, "NonScriptWithdrawal")
         [] r.tag = "Vote" -> Purpose(votes).err
         [] r.tag = "Propose" -> Purpose(proposals).err

(* One redeemer without a purpose fails them all.                          *)
get_redeemers_info(tx, nins, proposals, votes) ==
    EachOk(Sorted(tx.redeemers, sort_redeemers),
           LAMBDA r : script_purpose_builder(tx, nins, proposals, votes, r))

slot_to_begin_posix_time(slot) ==
    IF slot < SlotConfig.zero_slot THEN Fail("SlotTooFarInThePast")
    ELSE Val(SlotConfig.zero_time + (slot - SlotConfig.zero_slot) * SlotConfig.slot_length)

get_validity_range_info(tx) ==
    EachOk(<<tx.start, tx.ttl>>, LAMBDA b : IF IsSome(b) THEN slot_to_begin_posix_time(b.is).err ELSE "Ok")

(* PlutusV1 and PlutusV2 know neither proposals nor votes.                 *)
TxInfoV1(tx, utxos) ==
    LET ins == get_tx_in_info_v1(tx.ins, utxos)
    IN Ensure(tx.refs = <<>>, "ScriptAndInputRefNotAllowed") && ins.err
         && get_redeemers_info(tx, Len(tx.ins), <<>>, <<>>) && get_validity_range_info(tx)

TxInfoV2(tx, utxos) ==
    LET ins == get_tx_in_info_v2(tx.ins, utxos)
    IN ins.err && get_redeemers_info(tx, Len(tx.ins), <<>>, <<>>)
         && get_tx_in_info_v2(tx.refs, utxos).err && get_validity_range_info(tx)

TxInfoV3(tx, utxos) ==
    LET ins == get_tx_in_info_v2(tx.ins, utxos)
    IN ins.err && get_redeemers_info(tx, Len(tx.ins), tx.proposals, get_votes_info(tx))
         && get_tx_in_info_v2(tx.refs, utxos).err && get_validity_range_info(tx)

----------------------------------------------------------------------------
(* The script of a redeemer with the datum it is given: [script, datum].   *)

find_script(r, tx, utxos, table) ==
    LET Script(hash) == IF hash \in DOMAIN table.scripts
                        THEN Val([script |-> hash, datum |-> None]) ELSE Fail("MissingRequiredScript")
        Target(s) == At(s, r.index, "MissingScriptForRedeemer")
        Datum(o) == CASE IsSome(o.inline) -> Val(o.inline)
                      [] ~IsSome(o.inline) /\ IsSome(o.datum) ->
                             IF o.datum.is \in table.datum THEN Val(o.datum) ELSE Fail("MissingRequiredDatum")
                      [] OTHER -> Val(None)
        Bind(t, F(_)) == IF t.err = "Ok" THEN F(t.val) ELSE t
        v2 == get_tx_in_info_v2(tx.ins, utxos)
        tx_ins == IF v2.err = "ByronAddressNotAllowed" THEN get_tx_in_info_v1(tx.ins, utxos) ELSE v2
        Spend(o) ==
            LET s == Script(o.addr.id)
                d == Datum(o)
            IN IF s.err # "Ok" THEN s
               ELSE IF d.err # "Ok" THEN d
               ELSE IF ~IsSome(d.val) /\ table.scripts[o.addr.id] \in {"V1", "V2"}
               THEN Fail("MissingRequiredInlineDatumOrHash")
               ELSE Val([script |-> o.addr.id, datum |-> d.val])
    IN CASE r.tag = "Mint" -> Bind(Target(get_mint_info(tx)), Script)
         [] r.tag = "Reward" -> Bind(Target(get_withdrawals_info(tx)), LAMBDA a :
                IF a.script THEN Script(a.id) ELSE Fail("NonScriptWithdrawal"))
         [] r.tag = "Cert" -> Bind(Target(tx.certs), LAMBDA c :
                CASE c.t \in {"StakeRegistration", "PoolRetirement", "Reg", "PoolRegistration"} ->
                         Fail("UnsupportedCertificateType")
                  [] OTHER -> IF c.script THEN Script(c.stc) ELSE Fail("NonScriptStakeCredential"))
         [] r.tag = "Spend" -> Bind(tx_ins, LAMBDA ins : Bind(Target(ins), Spend))
         [] r.tag = "Vote" -> Bind(Target(get_votes_info(tx)), LAMBDA v :
                IF v.kind \in {"CommitteeScript", "DRepScript"} THEN Script(v.id)
                ELSE Fail("NonScriptStakeCredential"))
         [] r.tag = "Propose" -> Bind(Target(tx.proposals), LAMBDA p :
                IF IsSome(p.guardrail) THEN Script(p.guardrail.is)
                ELSE Fail("NoGuardrailScriptForProcedure"))

(* The machine applies a script to its arguments.  A script that waits for *)
(* another argument is a value too: PlutusV3 asks for the unit value.      *)
eval_script(lang, script, datum) ==
    LET args == CASE lang = "V3" -> 1
                  [] lang # "V3" /\ IsSome(datum) -> 3
                  [] OTHER -> 2
        arity == PlutusOf[script].arity
        term == CASE args < arity -> "Lambda"
                  [] args = arity -> PlutusOf[script].result
                  [] args > arity -> "Error"
    IN term # "Error" /\ (lang = "V3" => term = "Unit")

(* [err, val]: val says whether the script succeeded.                      *)
eval_redeemer(r, tx, utxos, table) ==
    LET found == find_script(r, tx, utxos, table)
        lang == table.scripts[found.val.script]
        info == CASE lang = "Native" -> "NativeScriptPhaseTwo"
                  [] lang = "V1" -> TxInfoV1(tx, utxos)
                  [] lang = "V2" -> TxInfoV2(tx, utxos)
                  [] OTHER -> TxInfoV3(tx, utxos)
    IN IF found.err # "Ok" THEN found
       ELSE IF info # "Ok" THEN Fail(info)
       ELSE Val(eval_script(lang, found.val.script, found.val.datum))

(* [err, val]: val holds the verdicts in the order of the redeemers.       *)
eval_tx(tx, utxos) ==
    LET table == from_transaction(tx, utxos)
        evals == [i \in DOMAIN redeemers(tx) |-> eval_redeemer(redeemers(tx)[i], tx, utxos, table)]
    IN IF \E i \in DOMAIN utxos : ~Decodes(utxos[i]) THEN Fail("DecodeError")
       ELSE IF tx.era # "Conway" /\ redeemers(tx) # <<>> THEN Fail("WrongEra")
       ELSE Collect(evals)

=============================================================================
