--------------------------- MODULE TxBuilderProofs ---------------------------
(***************************************************************************)
(* Proofs about built transactions (TxBuilder.tla), for any keys, scripts  *)
(* and data and any number of calls: the signatures of the document are    *)
(* those inside the bytes, whatever order they come and go in, the script  *)
(* data hash is one that the rules of phase one accept, and every redeemer *)
(* points at what it was staged for, wherever the sorting moved it.        *)
(***************************************************************************)
EXTENDS TxBuilder, QueueLemmas

(* A witness inside the bytes, and the last one of a key.                  *)
Witnesses == [vkey : Keys, valid : BOOLEAN]

LastOf(w, k, v) ==
    \E i \in DOMAIN w : /\ w[i].vkey = k /\ w[i].valid = v
                        /\ \A j \in DOMAIN w : j > i => w[j].vkey # k

KeysOf(w) == {w[i].vkey : i \in DOMAIN w}

(* What remove_signature keeps of a witness.                               *)
Kept(k) == [x \in Witnesses |-> IF x.vkey # k THEN <<x>> ELSE <<>>]

----------------------------------------------------------------------------
(* Sequences of witnesses.                                                 *)

(* A witness more is the last of its key, and no other key's.              *)
LEMMA LastAppend ==
    ASSUME NEW w \in Seq(Witnesses), NEW x \in Witnesses
    PROVE  /\ Append(w, x) \in Seq(Witnesses)
           /\ KeysOf(Append(w, x)) = KeysOf(w) \cup {x.vkey}
           /\ LastOf(Append(w, x), x.vkey, x.valid)
           /\ \A k, v : k # x.vkey => (LastOf(Append(w, x), k, v) <=> LastOf(w, k, v))
<1> DEFINE u == Append(w, x)
<1> DEFINE n == Len(w) + 1
<1>1. /\ u \in Seq(Witnesses) /\ DOMAIN w = 1..Len(w) /\ Len(w) \in Nat
      /\ DOMAIN u = 1..n /\ n \in DOMAIN u /\ u[n] = x /\ \A i \in DOMAIN w : u[i] = w[i]
    OBVIOUS
<1>2. DOMAIN u = DOMAIN w \cup {n}
    BY <1>1
<1> HIDE DEF u
<1>3. KeysOf(u) = KeysOf(w) \cup {x.vkey}
    <2>1. ASSUME NEW k PROVE (\E i \in DOMAIN u : u[i].vkey = k) <=> (\E i \in DOMAIN w : w[i].vkey = k) \/ k = x.vkey
        <3> HIDE DEF n
        <3> QED BY <1>1, <1>2
    <2> HIDE DEF n
    <2> QED BY <2>1 DEF KeysOf
<1>4. LastOf(u, x.vkey, x.valid)
    <2>1. \A j \in DOMAIN u : ~(j > n)
        BY <1>1
    <2> HIDE DEF n
    <2> QED BY <1>1, <2>1 DEF LastOf
<1>5. ASSUME NEW k, NEW v, k # x.vkey PROVE LastOf(u, k, v) <=> LastOf(w, k, v)
    <2>1. ASSUME LastOf(u, k, v) PROVE LastOf(w, k, v)
        <3>1. PICK i \in DOMAIN u : /\ u[i].vkey = k /\ u[i].valid = v
                                    /\ \A j \in DOMAIN u : j > i => u[j].vkey # k
            BY <2>1 DEF LastOf
        <3>2. i \in DOMAIN w
            BY <1>1, <1>2, <1>5, <3>1
        <3> HIDE DEF n
        <3> QED BY <1>1, <1>2, <3>1, <3>2 DEF LastOf
    <2>2. ASSUME LastOf(w, k, v) PROVE LastOf(u, k, v)
        <3>1. PICK i \in DOMAIN w : /\ w[i].vkey = k /\ w[i].valid = v
                                    /\ \A j \in DOMAIN w : j > i => w[j].vkey # k
            BY <2>2 DEF LastOf
        <3> HIDE DEF n
        <3> QED BY <1>1, <1>2, <1>5, <3>1 DEF LastOf
    <2> QED BY <2>1, <2>2
<1> QED BY <1>1, <1>3, <1>4, <1>5 DEF u

(* No key has two last witnesses, and Max finds the one there is.          *)
LEMMA LastIsMax ==
    ASSUME NEW w \in Seq(Witnesses), NEW k, NEW v, LastOf(w, k, v)
    PROVE  w[Max({i \in DOMAIN w : w[i].vkey = k})].valid = v
<1> DEFINE S == {i \in DOMAIN w : w[i].vkey = k}
<1>1. PICK i \in DOMAIN w : /\ w[i].vkey = k /\ w[i].valid = v
                            /\ \A j \in DOMAIN w : j > i => w[j].vkey # k
    BY DEF LastOf
<1>2. i \in S /\ S \subseteq Nat /\ \A j \in S : i >= j
    BY <1>1
<1> HIDE DEF S
<1>3. Max(S) \in S /\ \A j \in S : Max(S) >= j
    BY <1>2 DEF Max
<1>4. Max(S) = i
    BY <1>2, <1>3
<1> QED BY <1>1, <1>4 DEF S

(* The last witness of a key is one.                                       *)
LEMMA LastIsOne ==
    ASSUME NEW w \in Seq(Witnesses), NEW k, NEW u, NEW v, LastOf(w, k, u), LastOf(w, k, v)
    PROVE  u = v
BY LastIsMax

(* Removing a key's witnesses takes all of them and no other key's last.   *)
LEMMA LastKept ==
    ASSUME NEW w \in Seq(Witnesses), NEW k
    PROVE  /\ FlatMap(Kept(k), w) \in Seq(Witnesses)
           /\ KeysOf(FlatMap(Kept(k), w)) = KeysOf(w) \ {k}
           /\ \A j, v : j # k => (LastOf(FlatMap(Kept(k), w), j, v) <=> LastOf(w, j, v))
<1> DEFINE g == Kept(k)
<1> DEFINE Good(r) == /\ KeysOf(FlatMap(g, r)) = KeysOf(r) \ {k}
                      /\ \A j, v : j # k => (LastOf(FlatMap(g, r), j, v) <=> LastOf(r, j, v))
<1> DEFINE Q == {r \in Seq(Witnesses) : Good(r)}
<1>1. MapsTo(g, Witnesses, Seq(Witnesses))
    <2>1. \A x \in Witnesses : <<x>> \in Seq(Witnesses) /\ <<>> \in Seq(Witnesses)
        OBVIOUS
    <2> HIDE DEF Witnesses
    <2> QED BY <2>1 DEF MapsTo, Kept
<1>2. \A x \in Witnesses : g[x] = IF x.vkey # k THEN <<x>> ELSE <<>>
    <2> HIDE DEF Witnesses
    <2> QED BY DEF Kept
<1> HIDE DEF g
<1>3. \A r \in Seq(Witnesses) : FlatMap(g, r) \in Seq(Witnesses)
    BY <1>1, FlatMapFacts
<1>4. <<>> \in Q
    <2>1. FlatMap(g, <<>>) = <<>>
        <3>1. [i \in DOMAIN <<>> |-> g[<<>>[i]]] = <<>>
            OBVIOUS
        <3> QED BY <3>1, FlattenEmpty DEF FlatMap
    <2>2. KeysOf(<<>>) = {}
        BY DEF KeysOf
    <2> QED BY <2>1, <2>2
<1>5. ASSUME NEW r \in Q, NEW x \in Witnesses PROVE Append(r, x) \in Q
    <2> DEFINE f == FlatMap(g, r)
    <2>0. r \in Seq(Witnesses) /\ Good(r) /\ Append(r, x) \in Seq(Witnesses)
        OBVIOUS
    <2>1. f \in Seq(Witnesses) /\ FlatMap(g, Append(r, x)) = f \o g[x]
        BY <1>1, <1>3, <2>0, FlatMapEnds
    <2>2. /\ KeysOf(Append(r, x)) = KeysOf(r) \cup {x.vkey}
          /\ LastOf(Append(r, x), x.vkey, x.valid)
          /\ \A j, v : j # x.vkey => (LastOf(Append(r, x), j, v) <=> LastOf(r, j, v))
        BY <2>0, LastAppend
    <2>3. KeysOf(f) = KeysOf(r) \ {k} /\ \A j, v : j # k => (LastOf(f, j, v) <=> LastOf(r, j, v))
        BY <2>0
    <2>4. CASE x.vkey = k
        <3>1. FlatMap(g, Append(r, x)) = f
            <4> HIDE DEF f
            <4>1. FlatMap(g, Append(r, x)) = f \o <<>>
                BY <1>2, <2>1, <2>4
            <4> QED BY <2>1, <4>1
        <3>2. Good(Append(r, x))
            <4> HIDE DEF f
            <4> QED BY <2>2, <2>3, <2>4, <3>1
        <3> QED BY <2>0, <3>2
    <2>5. CASE x.vkey # k
        <3>1. FlatMap(g, Append(r, x)) = Append(f, x)
            <4>1. f \o <<x>> = Append(f, x)
                BY <2>1, AppendIsConcat
            <4> QED BY <1>2, <2>1, <2>5, <4>1
        <3>2. /\ KeysOf(Append(f, x)) = KeysOf(f) \cup {x.vkey}
              /\ LastOf(Append(f, x), x.vkey, x.valid)
              /\ \A j, v : j # x.vkey => (LastOf(Append(f, x), j, v) <=> LastOf(f, j, v))
            BY <2>1, LastAppend
        <3>3. \A v : LastOf(Append(f, x), x.vkey, v) <=> LastOf(Append(r, x), x.vkey, v)
            <4>1. Append(f, x) \in Seq(Witnesses)
                BY <2>1
            <4> HIDE DEF f
            <4>2. \A v : LastOf(Append(f, x), x.vkey, v) => v = x.valid
                BY <3>2, <4>1, LastIsOne
            <4>3. \A v : LastOf(Append(r, x), x.vkey, v) => v = x.valid
                BY <2>0, <2>2, LastIsOne
            <4> QED BY <2>2, <3>2, <4>2, <4>3
        <3>4. Good(Append(r, x))
            <4> HIDE DEF f
            <4> QED BY <2>2, <2>3, <2>5, <3>1, <3>2, <3>3
        <3> QED BY <2>0, <3>4
    <2> QED BY <2>4, <2>5
<1> HIDE DEF Q
<1>6. Seq(Witnesses) \subseteq Q
    BY <1>4, <1>5, SeqInduct
<1> QED BY <1>3, <1>6 DEF Q, g

----------------------------------------------------------------------------
(* The invariant: before the build there are no signatures; after it the   *)
(* signatures agree with the witnesses, and the script data hash is that   *)
(* of the redeemers and datums inside, and of the views still staged.      *)
Unsigned == built.signatures = Empty

Agreeing(tx, sig) ==
    /\ "vkeys" \in DOMAIN tx /\ tx.vkeys \in Seq(Witnesses)
    /\ sig \in [KeysOf(tx.vkeys) -> BOOLEAN]
    /\ \A k \in DOMAIN sig : LastOf(tx.vkeys, k, sig[k])

Hashed(tx) ==
    /\ {"sdh", "redeemers", "datums"} \subseteq DOMAIN tx
    /\ tx.sdh = script_data_hash(st, tx.redeemers, tx.datums)

BuiltInv ==
    /\ DOMAIN built = {"status", "tx", "signatures"}
    /\ built = [x \in DOMAIN built |-> built[x]]
    /\ built.status = "no" => Unsigned
    /\ built.status = "Ok" => Agreeing(built.tx, built.signatures) /\ Hashed(built.tx)

(* What a build that succeeds leaves.                                      *)
LEMMA BuildFacts ==
    ASSUME NEW s, NEW scripts, NEW datums, NEW purposes,
           NEW r, r = build_conway_raw(s, scripts, datums, purposes), r.err = "Ok"
    PROVE  /\ {"vkeys", "sdh", "redeemers", "datums"} \subseteq DOMAIN r.val /\ r.val.vkeys = <<>>
           /\ r.val.sdh = script_data_hash(s, r.val.redeemers, r.val.datums)
<1>1. r.val.vkeys = <<>> /\ r.val.sdh = script_data_hash(s, r.val.redeemers, r.val.datums)
    BY DEF build_conway_raw, Fail, Val
<1>2. "vkeys" \in DOMAIN r.val /\ "sdh" \in DOMAIN r.val
    BY DEF build_conway_raw, Fail, Val
<1>3. "redeemers" \in DOMAIN r.val /\ "datums" \in DOMAIN r.val
    BY DEF build_conway_raw, Fail, Val
<1> QED BY <1>1, <1>2, <1>3

(* Nothing is built at first.                                              *)
LEMMA BuiltInit == Init => BuiltInv
BY DEF Init, BuiltInv, Unsigned

(* A signature added last is the one that counts.                          *)
LEMMA AddKeeps ==
    ASSUME BuiltInv, built.status = "Ok", NEW k \in Keys, NEW valid \in BOOLEAN,
           NEW b, b = add_signature(built, k, valid)
    PROVE  /\ DOMAIN b = DOMAIN built /\ b = [x \in DOMAIN b |-> b[x]] /\ b.status = "Ok"
           /\ Agreeing(b.tx, b.signatures)
           /\ DOMAIN b.tx = DOMAIN built.tx /\ \A x \in DOMAIN b.tx \ {"vkeys"} : b.tx[x] = built.tx[x]
<1> DEFINE w == built.tx.vkeys
<1> DEFINE x == [vkey |-> k, valid |-> valid]
<1> DEFINE sig == built.signatures
<1>1. /\ "vkeys" \in DOMAIN built.tx /\ w \in Seq(Witnesses) /\ sig \in [KeysOf(w) -> BOOLEAN]
      /\ \A j \in DOMAIN sig : LastOf(w, j, sig[j])
    BY DEF BuiltInv, Agreeing
<1>2. x \in Witnesses /\ x.vkey = k /\ x.valid = valid
    BY DEF Witnesses
<1>3. /\ DOMAIN b = DOMAIN built /\ b = [y \in DOMAIN b |-> b[y]] /\ b.status = "Ok"
      /\ b.signatures = Over(sig, k, valid)
      /\ b.tx = [built.tx EXCEPT !.vkeys = Append(w, x)]
    BY DEF add_signature, BuiltInv
<1>4. b.tx.vkeys = Append(w, x) /\ "vkeys" \in DOMAIN b.tx
      /\ DOMAIN b.tx = DOMAIN built.tx /\ \A y \in DOMAIN b.tx \ {"vkeys"} : b.tx[y] = built.tx[y]
    <2> HIDE DEF w, x
    <2> QED BY <1>1, <1>3
<1>5. /\ Append(w, x) \in Seq(Witnesses) /\ KeysOf(Append(w, x)) = KeysOf(w) \cup {k}
      /\ LastOf(Append(w, x), k, valid)
      /\ \A j, v : j # k => (LastOf(Append(w, x), j, v) <=> LastOf(w, j, v))
    <2> HIDE DEF w, x
    <2> QED BY <1>1, <1>2, LastAppend
<1> HIDE DEF w, x, sig
<1>6. DOMAIN sig = KeysOf(w) /\ Over(sig, k, valid) \in [KeysOf(Append(w, x)) -> BOOLEAN]
      /\ \A j \in DOMAIN Over(sig, k, valid) :
            Over(sig, k, valid)[j] = IF j = k THEN valid ELSE sig[j]
    BY <1>1, <1>5 DEF Over
<1>7. \A j \in DOMAIN Over(sig, k, valid) : LastOf(Append(w, x), j, Over(sig, k, valid)[j])
    <2>1. DOMAIN Over(sig, k, valid) = DOMAIN sig \cup {k}
        BY DEF Over
    <2> QED BY <1>1, <1>5, <1>6, <2>1
<1> QED BY <1>3, <1>4, <1>5, <1>6, <1>7 DEF Agreeing

(* Removing a key leaves the other keys' signatures, and nothing to see of *)
(* its own.                                                                *)
LEMMA RemoveKeeps ==
    ASSUME BuiltInv, built.status = "Ok", NEW k \in Keys, NEW b, b = remove_signature(built, k)
    PROVE  /\ DOMAIN b = DOMAIN built /\ b = [x \in DOMAIN b |-> b[x]] /\ b.status \in {"Ok", "panic"}
           /\ Agreeing(b.tx, b.signatures)
           /\ DOMAIN b.tx = DOMAIN built.tx /\ \A x \in DOMAIN b.tx \ {"vkeys"} : b.tx[x] = built.tx[x]
<1> DEFINE w == built.tx.vkeys
<1> DEFINE rest == FlatMap(Kept(k), w)
<1> DEFINE sig == built.signatures
<1>1. /\ "vkeys" \in DOMAIN built.tx /\ w \in Seq(Witnesses) /\ sig \in [KeysOf(w) -> BOOLEAN]
      /\ \A j \in DOMAIN sig : LastOf(w, j, sig[j])
    BY DEF BuiltInv, Agreeing
<1>2. FlattenSeq([i \in DOMAIN w |-> IF w[i].vkey # k THEN <<w[i]>> ELSE <<>>]) = rest
    <2>1. \A i \in DOMAIN w : w[i] \in Witnesses
        BY <1>1
    <2> HIDE DEF w, Witnesses
    <2>2. \A i \in DOMAIN w : Kept(k)[w[i]] = IF w[i].vkey # k THEN <<w[i]>> ELSE <<>>
        BY <2>1 DEF Kept
    <2>3. [i \in DOMAIN w |-> IF w[i].vkey # k THEN <<w[i]>> ELSE <<>>]
            = [i \in DOMAIN w |-> Kept(k)[w[i]]]
        BY <2>2
    <2> QED BY <2>3 DEF FlatMap
<1>3. /\ DOMAIN b = DOMAIN built /\ b = [y \in DOMAIN b |-> b[y]] /\ b.status \in {"Ok", "panic"}
      /\ b.signatures = Less(sig, k) /\ b.tx = [built.tx EXCEPT !.vkeys = rest]
    <2> DEFINE found == FlattenSeq([i \in DOMAIN w |-> IF w[i].vkey # k THEN <<w[i]>> ELSE <<>>])
    <2>1. b = [built EXCEPT !.signatures = Less(sig, k), !.tx = [built.tx EXCEPT !.vkeys = found],
                            !.status = IF found = <<>> THEN "panic" ELSE @]
        BY DEF remove_signature, Retained
    <2>2. found = rest
        BY <1>2
    <2> HIDE DEF found, rest, w, sig
    <2> QED BY <2>1, <2>2 DEF BuiltInv
<1>4. b.tx.vkeys = rest /\ "vkeys" \in DOMAIN b.tx
      /\ DOMAIN b.tx = DOMAIN built.tx /\ \A y \in DOMAIN b.tx \ {"vkeys"} : b.tx[y] = built.tx[y]
    <2> HIDE DEF w, rest
    <2> QED BY <1>1, <1>3
<1>5. /\ rest \in Seq(Witnesses) /\ KeysOf(rest) = KeysOf(w) \ {k}
      /\ \A j, v : j # k => (LastOf(rest, j, v) <=> LastOf(w, j, v))
    <2> HIDE DEF w
    <2> QED BY <1>1, LastKept
<1> HIDE DEF w, rest, sig
<1>6. /\ Less(sig, k) \in [KeysOf(rest) -> BOOLEAN]
      /\ \A j \in DOMAIN Less(sig, k) : j # k /\ j \in DOMAIN sig /\ Less(sig, k)[j] = sig[j]
    BY <1>1, <1>5 DEF Less
<1>7. \A j \in DOMAIN Less(sig, k) : LastOf(rest, j, Less(sig, k)[j])
    BY <1>1, <1>5, <1>6
<1> QED BY <1>3, <1>4, <1>5, <1>6, <1>7 DEF Agreeing

(* Every call keeps the invariant.                                         *)
LEMMA BuiltStep == BuiltInv /\ [Next]_vars => BuiltInv'
<1> SUFFICES ASSUME BuiltInv, [Next]_vars PROVE BuiltInv'
    OBVIOUS
<1>1. CASE UNCHANGED vars
    BY <1>1 DEF vars, BuiltInv, Unsigned, Hashed, Agreeing
<1>2. ASSUME NEW next, Staged(next) PROVE BuiltInv'
    <2>1. built' = built /\ built.status = "no"
        BY <1>2 DEF Staged
    <2> QED BY <2>1 DEF BuiltInv, Unsigned
<1>3. CASE Build
    <2>1. PICK scripts \in SetToSeqs(DOMAIN st.scripts), datums \in SetToSeqs(DOMAIN st.datums),
               purposes \in SetToSeqs(DOMAIN st.redeemers) :
            LET r == build_conway_raw(st, scripts, datums, purposes)
            IN built' = IF r.err = "Ok" THEN [built EXCEPT !.status = "Ok", !.tx = r.val]
                                        ELSE [built EXCEPT !.status = r.err]
        BY <1>3, Zenon DEF Build
    <2> DEFINE r == build_conway_raw(st, scripts, datums, purposes)
    <2>2. built.status = "no" /\ st' = st /\ built.signatures = Empty
        BY <1>3 DEF Build, BuiltInv, Unsigned
    <2>3. r.err = "Ok" => /\ {"vkeys", "sdh", "redeemers", "datums"} \subseteq DOMAIN r.val
                          /\ r.val.vkeys = <<>>
                          /\ r.val.sdh = script_data_hash(st, r.val.redeemers, r.val.datums)
        BY BuildFacts
    <2>4. built' = IF r.err = "Ok" THEN [built EXCEPT !.status = "Ok", !.tx = r.val]
                                   ELSE [built EXCEPT !.status = r.err]
        BY <2>1
    <2> HIDE DEF r
    <2>5. CASE r.err = "Ok"
        <3>1. /\ DOMAIN built' = {"status", "tx", "signatures"} /\ built'.status = "Ok"
              /\ built' = [x \in DOMAIN built' |-> built'[x]]
              /\ built'.tx = r.val /\ built'.signatures = Empty
            BY <2>2, <2>4, <2>5 DEF BuiltInv
        <3>2. Agreeing(r.val, Empty)
            <4>1. KeysOf(<<>>) = {} /\ <<>> \in Seq(Witnesses)
                BY DEF KeysOf
            <4>2. Empty \in [{} -> BOOLEAN] /\ DOMAIN Empty = {}
                BY DEF Empty
            <4> QED BY <2>3, <2>5, <4>1, <4>2 DEF Agreeing
        <3>3. Hashed(built.tx)'
            BY <2>2, <2>3, <2>5, <3>1 DEF Hashed
        <3> QED BY <3>1, <3>2, <3>3 DEF BuiltInv
    <2>6. CASE r.err # "Ok"
        <3>1. /\ DOMAIN built' = {"status", "tx", "signatures"} /\ built'.status # "Ok"
              /\ built' = [x \in DOMAIN built' |-> built'[x]] /\ built'.signatures = Empty
            BY <2>2, <2>4, <2>6 DEF BuiltInv
        <3> QED BY <3>1 DEF BuiltInv, Unsigned
    <2> QED BY <2>5, <2>6
<1>4. CASE Signatures
    <2>1. PICK k \in Keys :
            Signed({sign(built, k), add_signature(built, k, FALSE), remove_signature(built, k)})
        BY <1>4 DEF Signatures
    <2>2. /\ built.status = "Ok" /\ st' = st
          /\ \/ \E v \in BOOLEAN : built' = add_signature(built, k, v)
             \/ built' = remove_signature(built, k)
        BY <2>1 DEF Signed, sign
    <2>3. /\ DOMAIN built' = DOMAIN built /\ built' = [x \in DOMAIN built' |-> built'[x]]
          /\ built'.status \in {"Ok", "panic"} /\ Agreeing(built'.tx, built'.signatures)
          /\ DOMAIN built'.tx = DOMAIN built.tx
          /\ \A x \in DOMAIN built.tx \ {"vkeys"} : built'.tx[x] = built.tx[x]
        BY <2>2, AddKeeps, RemoveKeeps
    <2>4. Hashed(built.tx)'
        <3>1. Hashed(built.tx)
            BY <2>2 DEF BuiltInv
        <3>2. \A x \in {"sdh", "redeemers", "datums"} : x \in DOMAIN built.tx \ {"vkeys"}
            BY <3>1 DEF Hashed
        <3> QED BY <2>2, <2>3, <3>1, <3>2 DEF Hashed
    <2> QED BY <2>3, <2>4 DEF BuiltInv
<1>5. CASE \/ Inputs \/ Signers \/ Outputs \/ Fields \/ Mints \/ Attached \/ Redeemers \/ Reload
    BY <1>2, <1>5 DEF Inputs, Signers, Outputs, Fields, Mints, Attached, Redeemers, Reload
<1> QED BY <1>1, <1>3, <1>4, <1>5 DEF Next

----------------------------------------------------------------------------
(* The signatures that the document lists are those inside the bytes, by   *)
(* key and by value, through every order of sign, add_signature and        *)
(* remove_signature.                                                       *)
THEOREM BuilderSignaturesAgree == Spec => []SignaturesAgree
<1>1. BuiltInv => SignaturesAgree
    <2> SUFFICES ASSUME BuiltInv, built.status = "Ok" PROVE SignaturesAgree
        BY DEF SignaturesAgree
    <2> DEFINE w == built.tx.vkeys
    <2>1. /\ w \in Seq(Witnesses) /\ DOMAIN built.signatures = KeysOf(w)
          /\ \A k \in DOMAIN built.signatures : LastOf(w, k, built.signatures[k])
        BY DEF BuiltInv, Agreeing
    <2> HIDE DEF w
    <2>2. \A k \in DOMAIN built.signatures :
            w[Max({i \in DOMAIN w : w[i].vkey = k})].valid = built.signatures[k]
        BY <2>1, LastIsMax
    <2> QED BY <2>1, <2>2 DEF SignaturesAgree, KeysOf, w
<1> QED BY <1>1, BuiltInit, BuiltStep, PTL DEF Spec

(* The script data hash that the builder writes is the one that the rules  *)
(* of phase one compute from the transaction.                              *)
THEOREM BuilderHashAccepted == Spec => []IntegrityHashAccepted
<1>1. BuiltInv => IntegrityHashAccepted
    <2> SUFFICES ASSUME BuiltInv, built.status = "Ok", built.tx.redeemers # <<>>,
                        IsSome(st.language_views),
                        ViewsOf(st.language_views.is) = ConwayRules!tx_languages(built.tx, Known),
                        ViewsOf(st.language_views.is) \subseteq Params.cost_models
                 PROVE  ConwayRules!check_script_data_hash(built.tx, Known, Params) = "Ok"
        BY DEF IntegrityHashAccepted
    <2> DEFINE tx == built.tx
    <2> DEFINE views == ViewsOf(st.language_views.is)
    <2>1. tx.sdh = Some(<<tx.redeemers, tx.datums, views>>)
        BY DEF BuiltInv, Hashed, script_data_hash
    <2>2. ConwayRules!cost_model_for_tx(views, Params) = Some(views)
        BY DEF ConwayRules!cost_model_for_tx, ConwayRules!Some, Some
    <2>3. ConwayRules!build_for(tx, views) = Some(<<tx.redeemers, tx.datums, views>>)
        BY DEF ConwayRules!build_for, ConwayRules!Some, Some
    <2>4. Some(views).is = views /\ \A x : ConwayRules!IsSome(Some(x))
        BY DEF ConwayRules!IsSome, Some
    <2>5. ConwayRules!tx_languages(tx, Known) = views
        OBVIOUS
    <2> HIDE DEF tx, views
    <2>6. ConwayRules!check_script_data_hash(tx, Known, Params) = "Ok"
        BY <2>1, <2>2, <2>3, <2>4, <2>5
           DEF ConwayRules!check_script_data_hash, ConwayRules!Ensure
    <2> QED BY <2>6 DEF tx
<1> QED BY <1>1, BuiltInit, BuiltStep, PTL DEF Spec

----------------------------------------------------------------------------
(* Lists of sets, and their order.                                         *)

(* A list of as many distinct elements as a finite set has is of all.      *)
LEMMA ListsAll ==
  ASSUME NEW S, IsFiniteSet(S), NEW f \in [1..Cardinality(S) -> S],
         \A i, j \in 1..Cardinality(S) : i # j => f[i] # f[j]
  PROVE  Cardinality(S) \in Nat /\ \A x \in S : \E i \in 1..Cardinality(S) : f[i] = x
<1> DEFINE n == Cardinality(S)
<1>1. n \in Nat
  BY FS_CardinalityType
<1>2. IsFiniteSet(1..n) /\ Cardinality(1..n) = n
  BY <1>1, FS_Interval
<1>3. f \in Injection(1..n, S)
  BY DEF Injection, IsInjective
<1>4. f \in Surjection(1..n, S)
  <2> HIDE DEF n
  <2> QED BY <1>2, <1>3, FS_Injection DEF n
<1> QED BY <1>1, <1>4 DEF Surjection

(* SetToSeq is such a list.                                                *)
LEMMA SetListed ==
  ASSUME NEW S, IsFiniteSet(S)
  PROVE  /\ Cardinality(S) \in Nat /\ SetToSeq(S) \in [1..Cardinality(S) -> S]
         /\ \A i, j \in 1..Cardinality(S) : i # j => SetToSeq(S)[i] # SetToSeq(S)[j]
         /\ \A x \in S : \E i \in 1..Cardinality(S) : SetToSeq(S)[i] = x
<1>1. Cardinality(S) \in Nat /\ ExistsBijection(1..Cardinality(S), S)
  BY FS_CardinalityType
<1>2. \E f \in [1..Cardinality(S) -> S] : IsInjective(f)
  BY <1>1 DEF ExistsBijection, Bijection, Injection, IsInjective
<1>3. SetToSeq(S) \in [1..Cardinality(S) -> S] /\ IsInjective(SetToSeq(S))
  BY <1>2 DEF SetToSeq
<1>4. \A i, j \in 1..Cardinality(S) : i # j => SetToSeq(S)[i] # SetToSeq(S)[j]
  BY <1>3 DEF IsInjective
<1> QED BY <1>1, <1>3, <1>4, ListsAll

(* A list of the elements of a set, each once.                             *)
Lists(x, S) ==
    /\ x \in [1..Cardinality(S) -> S]
    /\ \A i, j \in 1..Cardinality(S) : i # j => x[i] # x[j]
    /\ \A v \in S : \E i \in 1..Cardinality(S) : x[i] = v

(* The numbers of a set in order: each after as many as are below it.      *)
Below(S, v) == {u \in S : u < v}
Ordered(S) == [k \in 1..Cardinality(S) |-> CHOOSE v \in S : Cardinality(Below(S, v)) = k - 1]

(* No two numbers of a set have as many below them.                        *)
LEMMA BelowCounts ==
    ASSUME NEW S, IsFiniteSet(S), S \subseteq Nat
    PROVE  /\ \A v \in S : IsFiniteSet(Below(S, v)) /\ Cardinality(Below(S, v)) \in Nat
           /\ \A v, w \in S : v # w => Cardinality(Below(S, v)) # Cardinality(Below(S, w))
<1>1. ASSUME NEW v \in S PROVE IsFiniteSet(Below(S, v)) /\ Cardinality(Below(S, v)) \in Nat
    <2>1. Below(S, v) \in SUBSET S
        BY DEF Below
    <2> QED BY <2>1, FS_Subset, FS_CardinalityType
<1>2. ASSUME NEW v \in S, NEW w \in S, v < w PROVE Cardinality(Below(S, v)) # Cardinality(Below(S, w))
    <2>1. Below(S, v) \in SUBSET Below(S, w)
        <3>1. \A u \in S : u < v => u < w
            BY <1>2
        <3> QED BY <3>1 DEF Below
    <2>2. v \in Below(S, w) /\ v \notin Below(S, v)
        BY <1>2 DEF Below
    <2>3. IsFiniteSet(Below(S, w))
        BY <1>1
    <2>4. Cardinality(Below(S, w)) = Cardinality(Below(S, v)) => Below(S, w) = Below(S, v)
        BY <2>1, <2>3, FS_Subset
    <2> QED BY <2>2, <2>4
<1>3. ASSUME NEW v \in S, NEW w \in S, v # w PROVE Cardinality(Below(S, v)) # Cardinality(Below(S, w))
    <2>1. v < w \/ w < v
        BY <1>3
    <2> QED BY <1>2, <2>1
<1> QED BY <1>1, <1>3

(* Sorting a list of distinct numbers depends on the set alone.            *)
LEMMA SortedByCount ==
    ASSUME NEW S, IsFiniteSet(S), S \subseteq Nat, NEW x, Lists(x, S)
    PROVE  /\ SortRefs(x) = Ordered(S)
           /\ \A k \in 1..Cardinality(S) : \E v \in S : Cardinality(Below(S, v)) = k - 1
           /\ \A v \in S : Cardinality(Below(S, v)) + 1 \in 1..Cardinality(S)
<1> DEFINE n == Cardinality(S)
<1> DEFINE Ahead(i) == {j \in DOMAIN x : x[j] < x[i] \/ (j < i /\ ~(x[i] < x[j]))}
<1> DEFINE At(k) == CHOOSE i \in DOMAIN x : Cardinality(Ahead(i)) = k - 1
<1> DEFINE ahead == [i \in 1..n |-> Ahead(i)]
<1>1. n \in Nat /\ DOMAIN x = 1..n /\ \A i \in 1..n : x[i] \in S /\ x[i] \in Nat
    BY FS_CardinalityType DEF Lists
<1>2. SortRefs(x) = [k \in DOMAIN x |-> x[At(k)]]
    BY DEF SortRefs, Sorted
<1>3. \A i, j \in 1..n : i # j => x[i] # x[j]
    BY DEF Lists
<1>4. ASSUME NEW i \in 1..n PROVE ahead[i] = {j \in 1..n : x[j] < x[i]}
    <2>1. \A j \in 1..n : j < i => (~(x[i] < x[j]) => x[j] < x[i])
        BY <1>1, <1>3
    <2> QED BY <1>1, <2>1
<1>5. ASSUME NEW i \in 1..n PROVE Cardinality(ahead[i]) = Cardinality(Below(S, x[i]))
    <2> DEFINE f == [j \in ahead[i] |-> x[j]]
    <2> DEFINE B == Below(S, x[i])
    <2>1. f \in [ahead[i] -> B]
        <3> HIDE DEF ahead
        <3> QED BY <1>1, <1>4 DEF Below
    <2>2. \A j, k \in ahead[i] : j # k => f[j] # f[k]
        <3> HIDE DEF ahead
        <3> QED BY <1>1, <1>3, <1>4
    <2>3. \A v \in B : \E j \in ahead[i] : f[j] = v
        <3> SUFFICES ASSUME NEW v \in B PROVE \E j \in ahead[i] : f[j] = v
            OBVIOUS
        <3>1. v \in S /\ v < x[i]
            BY DEF Below
        <3>2. PICK j \in 1..n : x[j] = v
            BY <3>1 DEF Lists
        <3>3. j \in ahead[i]
            <4> HIDE DEF ahead
            <4> QED BY <1>4, <3>1, <3>2
        <3> HIDE DEF ahead
        <3> QED BY <3>2, <3>3
    <2> HIDE DEF ahead, f, B
    <2>4. f \in Bijection(ahead[i], B)
        BY <2>1, <2>2, <2>3 DEF Bijection, Injection, Surjection, IsInjective
    <2>5. ExistsBijection(ahead[i], B)
        BY <2>4 DEF ExistsBijection
    <2>6. IsFiniteSet(ahead[i])
        <3>1. ahead[i] \in SUBSET (1..n)
            BY <1>4
        <3>2. IsFiniteSet(1..n)
            BY <1>1, FS_Interval
        <3> QED BY <3>1, <3>2, FS_Subset
    <2> QED BY <2>5, <2>6, FS_Bijection DEF B
<1>6. /\ \A i \in 1..n : Cardinality(ahead[i]) \in 0..(n - 1)
      /\ \A k \in 1..n : \E i \in 1..n : Cardinality(ahead[i]) = k - 1
    <2>1. ahead \in [1..n -> SUBSET (1..n)]
        BY <1>1
    <2> HIDE DEF ahead
    <2>2. \A i \in 1..n : i \notin ahead[i]
        BY <1>1, <1>4
    <2>3. \A i, j, k \in 1..n : i \in ahead[j] /\ j \in ahead[k] => i \in ahead[k]
        BY <1>1, <1>4
    <2>4. \A i, j \in 1..n : i # j => i \in ahead[j] \/ j \in ahead[i]
        BY <1>1, <1>3, <1>4
    <2> QED BY <1>1, <2>1, <2>2, <2>3, <2>4, PlacesTaken
<1>7. \A i \in 1..n : ahead[i] = Ahead(i)
    OBVIOUS
<1> HIDE DEF ahead, Ahead
<1>8. ASSUME NEW k \in 1..n
      PROVE  At(k) \in 1..n /\ Cardinality(Below(S, x[At(k)])) = k - 1
    <2>1. At(k) \in DOMAIN x /\ Cardinality(Ahead(At(k))) = k - 1
        BY <1>1, <1>6, <1>7
    <2> HIDE DEF At
    <2> QED BY <1>1, <1>5, <1>7, <2>1
<1> HIDE DEF At
<1>9. ASSUME NEW k \in 1..n PROVE x[At(k)] = Ordered(S)[k]
    <2>1. x[At(k)] \in S /\ Cardinality(Below(S, x[At(k)])) = k - 1
        BY <1>1, <1>8
    <2> DEFINE v == CHOOSE u \in S : Cardinality(Below(S, u)) = k - 1
    <2>2. v \in S /\ Cardinality(Below(S, v)) = k - 1
        BY <2>1
    <2>3. Ordered(S)[k] = v
        BY DEF Ordered
    <2> HIDE DEF v
    <2> QED BY <2>1, <2>2, <2>3, BelowCounts
<1>10. SortRefs(x) = Ordered(S)
    <2>1. Ordered(S) = [k \in 1..n |-> Ordered(S)[k]]
        BY DEF Ordered
    <2> QED BY <1>1, <1>2, <1>9, <2>1
<1>11. ASSUME NEW v \in S PROVE Cardinality(Below(S, v)) + 1 \in 1..n
    <2>1. PICK i \in 1..n : x[i] = v
        BY DEF Lists
    <2>2. Cardinality(Below(S, v)) \in 0..(n - 1)
        BY <1>5, <1>6, <2>1
    <2> QED BY <1>1, <2>2
<1> QED BY <1>1, <1>8, <1>10, <1>11

(* The ordered numbers are a list of the set.                              *)
LEMMA OrderedLists ==
    ASSUME NEW S, IsFiniteSet(S), S \subseteq Nat
    PROVE  Lists(Ordered(S), S) /\ SortRefs(SetToSeq(S)) = Ordered(S) /\ SortRefs(Ordered(S)) = Ordered(S)
<1> DEFINE n == Cardinality(S)
<1> DEFINE o == Ordered(S)
<1>1. Lists(SetToSeq(S), S)
    BY SetListed DEF Lists
<1>2. /\ SortRefs(SetToSeq(S)) = Ordered(S)
      /\ \A k \in 1..n : \E v \in S : Cardinality(Below(S, v)) = k - 1
      /\ \A v \in S : Cardinality(Below(S, v)) + 1 \in 1..n
    BY <1>1, SortedByCount
<1>3. \A k \in 1..n : o[k] \in S /\ Cardinality(Below(S, o[k])) = k - 1
    BY <1>2 DEF Ordered
<1>4. o \in [1..n -> S]
    <2>1. o = [k \in 1..n |-> o[k]]
        BY DEF Ordered
    <2> HIDE DEF o
    <2> QED BY <1>3, <2>1
<1> HIDE DEF o
<1>5. ASSUME NEW i \in 1..n, NEW j \in 1..n, i # j PROVE o[i] # o[j]
    <2>1. i \in Int /\ j \in Int
        BY FS_CardinalityType
    <2> QED BY <1>3, <1>5, <2>1
<1>6. ASSUME NEW v \in S PROVE \E i \in 1..n : o[i] = v
    <2> DEFINE i == Cardinality(Below(S, v)) + 1
    <2>1. i \in 1..n /\ Cardinality(Below(S, v)) \in Nat
        BY <1>2, BelowCounts
    <2>2. o[i] \in S /\ Cardinality(Below(S, o[i])) = i - 1
        <3> HIDE DEF i
        <3> QED BY <1>3, <2>1
    <2>3. i - 1 = Cardinality(Below(S, v))
        BY <2>1
    <2> HIDE DEF i
    <2>4. o[i] = v
        BY <2>2, <2>3, BelowCounts
    <2> QED BY <2>1, <2>4
<1>7. Lists(Ordered(S), S)
    BY <1>4, <1>5, <1>6 DEF Lists, o
<1> QED BY <1>2, <1>7, SortedByCount

----------------------------------------------------------------------------
(* The staging calls leave a staging transaction.                          *)

(* What a redeemer of a staging transaction can be for.                    *)
Purpose(p) == (p = Spend(p[2]) /\ p[2] \in Nat) \/ p = Mint(p[2])
Purposes(m) == IsFiniteSet(DOMAIN m) /\ \A p \in DOMAIN m : Purpose(p)

(* A call that sets one field leaves the others.                           *)
LEMMA FieldKeeps ==
    ASSUME NEW s, StagingTransaction(s), NEW f, NEW v, NEW t, t = [s EXCEPT ![f] = v],
           f = "inputs" => v \in Seq(Nat), f = "mint" => IsFiniteSet(DOMAIN v), f = "redeemers" => Purposes(v)
    PROVE  StagingTransaction(t)
<1>1. DOMAIN s = DOMAIN new /\ s.inputs \in Seq(Nat) /\ IsFiniteSet(DOMAIN s.mint) /\ Purposes(s.redeemers)
    BY DEF StagingTransaction, Purposes, Purpose
<1>2. "inputs" \in DOMAIN new /\ "mint" \in DOMAIN new /\ "redeemers" \in DOMAIN new
    BY DEF new
<1>3. /\ DOMAIN t = DOMAIN s /\ t.inputs = IF f = "inputs" THEN v ELSE s.inputs
      /\ t.mint = IF f = "mint" THEN v ELSE s.mint
      /\ t.redeemers = IF f = "redeemers" THEN v ELSE s.redeemers
    BY <1>1, <1>2
<1>4. t.inputs \in Seq(Nat) /\ IsFiniteSet(DOMAIN t.mint) /\ Purposes(t.redeemers)
    BY <1>1, <1>3
<1> QED BY <1>1, <1>3, <1>4 DEF StagingTransaction, Purposes, Purpose

(* Removing elements leaves a list.                                        *)
LEMMA RetainedType ==
    ASSUME NEW S, NEW s \in Seq(S), NEW x
    PROVE  FlattenSeq([i \in DOMAIN s |-> IF s[i] # x THEN <<s[i]>> ELSE <<>>]) \in Seq(S)
<1> DEFINE ss == [i \in DOMAIN s |-> IF s[i] # x THEN <<s[i]>> ELSE <<>>]
<1>1. Len(s) \in Nat /\ DOMAIN s = 1..Len(s) /\ \A i \in 1..Len(s) : s[i] \in S
    OBVIOUS
<1>2. \A v \in S : <<v>> \in Seq(S) /\ <<>> \in Seq(S)
    OBVIOUS
<1>3. ss \in [1..Len(s) -> Seq(S)]
    BY <1>1, <1>2
<1>4. ss \in Seq(Seq(S))
    <2> HIDE DEF ss
    <2> QED BY <1>1, <1>3, SeqOfFunction
<1>5. FlattenSeq(ss) \in Seq(S)
    <2> HIDE DEF ss
    <2> QED BY <1>4, FlattenType
<1> QED BY <1>5

(* Maps with an entry more, or less, are finite.                           *)
LEMMA MapKeeps ==
    ASSUME NEW m, IsFiniteSet(DOMAIN m), NEW x, NEW y
    PROVE  /\ DOMAIN Over(m, x, y) = DOMAIN m \cup {x} /\ IsFiniteSet(DOMAIN Over(m, x, y))
           /\ DOMAIN Less(m, x) = DOMAIN m \ {x} /\ IsFiniteSet(DOMAIN Less(m, x))
<1>1. DOMAIN Over(m, x, y) = DOMAIN m \cup {x} /\ DOMAIN Less(m, x) = DOMAIN m \ {x}
    BY DEF Over, Less
<1>2. IsFiniteSet(DOMAIN m \cup {x}) /\ IsFiniteSet(DOMAIN m \ {x})
    <2>1. DOMAIN m \ {x} \in SUBSET DOMAIN m
        OBVIOUS
    <2> QED BY <2>1, FS_AddElement, FS_Subset
<1> QED BY <1>1, <1>2

(* The keys of the redeemers survive the text they are stored as.          *)
LEMMA TextKeeps ==
    ASSUME NEW p, Purpose(p)
    PROVE  visit_str(serialize(p)) = p
<1>1. CASE p = Spend(p[2]) /\ p[2] \in Nat
    <2> DEFINE n == p[2]
    <2>1. p[1] = "Spend" /\ n \in Nat
        BY <1>1 DEF Spend
    <2>2. (n \div 10) * 10 + (n % 10) = n
        BY <2>1
    <2>3. serialize(p) = <<"spend", n \div 10, n % 10>>
        BY <2>1 DEF serialize
    <2> HIDE DEF n
    <2>4. visit_str(<<"spend", n \div 10, n % 10>>) = Spend((n \div 10) * 10 + (n % 10))
        BY DEF visit_str
    <2> QED BY <1>1, <2>2, <2>3, <2>4 DEF n
<1>2. CASE p = Mint(p[2])
    <2>1. p[1] # "Spend"
        BY <1>2 DEF Mint
    <2>2. serialize(p) = <<"mint", p[2]>>
        BY <2>1 DEF serialize
    <2>3. visit_str(<<"mint", p[2]>>) = Mint(p[2])
        BY DEF visit_str
    <2> QED BY <1>2, <2>2, <2>3
<1> QED BY <1>1, <1>2 DEF Purpose

(* What is read back has the same inputs, and entries under the same keys. *)
LEMMA ReloadKeeps ==
    ASSUME NEW s, StagingTransaction(s), NEW t, t = from_json(to_json(s))
    PROVE  StagingTransaction(t)
<1> DEFINE R == {<<serialize(p), s.redeemers[p]>> : p \in DOMAIN s.redeemers}
<1> DEFINE M == {<<p, {<<a, s.mint[p][a]>> : a \in DOMAIN s.mint[p]}>> : p \in DOMAIN s.mint}
<1>1. DOMAIN s = DOMAIN new /\ "inputs" \in DOMAIN new /\ "mint" \in DOMAIN new /\ "redeemers" \in DOMAIN new
    BY DEF StagingTransaction, new
<1>2. to_json(s) = [s EXCEPT !.redeemers = R, !.mint = M]
    BY DEF to_json
<1> DEFINE j == [s EXCEPT !.redeemers = R, !.mint = M]
<1>3. DOMAIN j = DOMAIN s /\ j.redeemers = R /\ j.mint = M /\ j.inputs = s.inputs
    <2> HIDE DEF R, M
    <2> QED BY <1>1
<1> HIDE DEF R, M, j
<1>4. /\ DOMAIN t = DOMAIN s /\ t.inputs = s.inputs
      /\ DOMAIN t.redeemers = {visit_str(e[1]) : e \in R}
      /\ DOMAIN t.mint = {e[1] : e \in M}
    <2>1. t = from_json(j)
        BY <1>2 DEF j
    <2> QED BY <1>1, <1>3, <2>1 DEF from_json
<1>5. DOMAIN t.redeemers = DOMAIN s.redeemers
    <2>1. \A p \in DOMAIN s.redeemers : visit_str(serialize(p)) = p
        BY TextKeeps DEF StagingTransaction, Purpose
    <2>2. {visit_str(e[1]) : e \in R} = {visit_str(serialize(p)) : p \in DOMAIN s.redeemers}
        <3>1. \A e \in R : \E p \in DOMAIN s.redeemers : e[1] = serialize(p)
            BY DEF R
        <3>2. \A p \in DOMAIN s.redeemers : \E e \in R : e[1] = serialize(p)
            <4> SUFFICES ASSUME NEW p \in DOMAIN s.redeemers PROVE \E e \in R : e[1] = serialize(p)
                OBVIOUS
            <4>1. <<serialize(p), s.redeemers[p]>> \in R
                BY DEF R
            <4> QED BY <4>1
        <3> QED BY <3>1, <3>2
    <2> QED BY <1>4, <2>1, <2>2
<1>6. DOMAIN t.mint = DOMAIN s.mint
    <2>1. \A e \in M : e[1] \in DOMAIN s.mint
        BY DEF M
    <2>2. ASSUME NEW p \in DOMAIN s.mint PROVE \E e \in M : e[1] = p
        <3>1. <<p, {<<a, s.mint[p][a]>> : a \in DOMAIN s.mint[p]}>> \in M
            BY DEF M
        <3> QED BY <3>1
    <2> QED BY <1>4, <2>1, <2>2
<1> QED BY <1>4, <1>5, <1>6 DEF StagingTransaction

(* Every staging call leaves a staging transaction.                        *)
LEMMA StagedKeeps ==
    ASSUME StagingTransaction(st), Next
    PROVE  StagingTransaction(st)'
<1> DEFINE s == st
<1>0. s.inputs \in Seq(Nat) /\ IsFiniteSet(DOMAIN s.mint) /\ Purposes(s.redeemers)
    BY DEF StagingTransaction, Purposes, Purpose
<1>1. ASSUME NEW next, Staged(next), \A t \in next : StagingTransaction(t) PROVE StagingTransaction(st)'
    <2>1. st' \in next
        BY <1>1 DEF Staged
    <2>2. StagingTransaction(st')
        BY <1>1, <2>1
    <2> QED BY <2>2 DEF StagingTransaction
<1>2. ASSUME UNCHANGED st PROVE StagingTransaction(st)'
    BY <1>2 DEF StagingTransaction
<1> HIDE DEF s
<1>3. ASSUME NEW f, f \notin {"inputs", "mint", "redeemers"}, NEW v, NEW t, t = [s EXCEPT ![f] = v]
      PROVE  StagingTransaction(t)
    BY <1>3, FieldKeeps DEF s
<1>4. CASE Inputs
    <2>1. PICK f \in {"inputs", "reference_inputs", "collateral_inputs"} :
            Staged({push(st, f, r) : r \in Refs} \cup {retain(st, f, r) : r \in Elems(st[f])})
        BY <1>4, Zenon DEF Inputs
    <2>2. ASSUME NEW r \in Refs PROVE StagingTransaction(push(s, f, r))
        <3> DEFINE v == Append(s[f], r)
        <3>1. push(s, f, r) = [s EXCEPT ![f] = v]
            BY DEF push
        <3>2. f = "inputs" => v \in Seq(Nat)
            BY <1>0, BasesAssumption
        <3> HIDE DEF v
        <3> QED BY <3>1, <3>2, FieldKeeps DEF s
    <2>3. ASSUME NEW r PROVE StagingTransaction(retain(s, f, r))
        <3> DEFINE v == Retained(s[f], LAMBDA y : y # r)
        <3>1. retain(s, f, r) = [s EXCEPT ![f] = v]
            BY DEF retain
        <3>2. f = "inputs" => v \in Seq(Nat)
            BY <1>0, RetainedType DEF Retained
        <3> HIDE DEF v
        <3> QED BY <3>1, <3>2, FieldKeeps DEF s
    <2>4. \A t \in {push(st, f, r) : r \in Refs} \cup {retain(st, f, r) : r \in Elems(st[f])} :
            StagingTransaction(t)
        BY <2>2, <2>3 DEF s
    <2> QED BY <1>1, <2>1, <2>4
<1>5. CASE Signers
    <2>1. ASSUME NEW k
          PROVE  StagingTransaction(push(s, "disclosed_signers", k)) /\ StagingTransaction(retain(s, "disclosed_signers", k))
        BY <1>3 DEF push, retain
    <2>2. \A t \in {push(st, "disclosed_signers", k) : k \in Keys} \cup {retain(st, "disclosed_signers", k) : k \in Keys} :
            StagingTransaction(t)
        BY <2>1 DEF s
    <2> QED BY <1>1, <1>5, <2>2 DEF Signers
<1>6. CASE Outputs
    <2>1. ASSUME NEW o PROVE StagingTransaction(push(s, "outputs", o)) /\ StagingTransaction(remove_output(s, o))
        BY <1>3 DEF push, remove_output
    <2>2. \A t \in {push(st, "outputs", o) : o \in Outs} \cup {remove_output(st, i) : i \in 0 .. Len(st.outputs) - 1} :
            StagingTransaction(t)
        BY <2>1 DEF s
    <2> QED BY <1>1, <1>6, <2>2 DEF Outputs
<1>7. CASE Fields
    <2>1. ASSUME NEW f \in {"fee", "valid_from_slot", "invalid_from_slot", "network_id", "collateral_output",
                            "auxiliary_data"}, NEW v
          PROVE  StagingTransaction(set(s, f, v)) /\ StagingTransaction(clear(s, f))
        BY <1>3 DEF set, clear
    <2>2. ASSUME NEW d PROVE StagingTransaction(add_auxiliary_data(s, d))
        BY <2>1 DEF add_auxiliary_data, s
    <2> DEFINE next == {set(s, "fee", 20), clear(s, "fee"), set(s, "valid_from_slot", 1), clear(s, "valid_from_slot"),
                  set(s, "invalid_from_slot", 9), clear(s, "invalid_from_slot"), clear(s, "network_id"),
                  clear(s, "collateral_output"), clear(s, "auxiliary_data")}
                   \cup {set(s, "network_id", n) : n \in {0, 2}}
                   \cup {set(s, "collateral_output", o) : o \in Outs}
                   \cup {add_auxiliary_data(s, d) : d \in {"meta"} \cup Malformed}
    <2>3. \A t \in next : StagingTransaction(t)
        BY <2>1, <2>2
    <2>4. Staged(next)
        BY <1>7 DEF Fields, s
    <2> QED BY <1>1, <2>3, <2>4
<1>8. CASE Mints
    <2>1. ASSUME NEW p, NEW n PROVE StagingTransaction(mint_asset(s, p, n))
        <3> DEFINE y == Over(IF p \in DOMAIN s.mint THEN s.mint[p] ELSE Empty, "a", n + Amount(s.mint, p, "a"))
        <3> DEFINE v == Over(s.mint, p, y)
        <3>1. mint_asset(s, p, n) = [s EXCEPT !["mint"] = v]
            BY DEF mint_asset
        <3> HIDE DEF y
        <3>2. IsFiniteSet(DOMAIN v)
            BY <1>0, MapKeeps
        <3> HIDE DEF v
        <3> QED BY <3>1, <3>2, FieldKeeps DEF s
    <2>2. ASSUME NEW p PROVE StagingTransaction(remove_mint_asset(s, p))
        <3> DEFINE v == Less(s.mint, p)
        <3>1. remove_mint_asset(s, p) = [s EXCEPT !["mint"] = v]
            BY DEF remove_mint_asset
        <3>2. IsFiniteSet(DOMAIN v)
            BY <1>0, MapKeeps
        <3> HIDE DEF v
        <3> QED BY <3>1, <3>2, FieldKeeps DEF s
    <2>3. \A t \in {mint_asset(st, p, n) : p \in Policies, n \in Amounts} \cup {remove_mint_asset(st, p) : p \in Policies} :
            StagingTransaction(t)
        BY <2>1, <2>2 DEF s
    <2> QED BY <1>1, <1>8, <2>3 DEF Mints
<1>9. CASE Attached
    <2>1. ASSUME NEW k, NEW b
          PROVE  StagingTransaction(script(s, k, b)) /\ StagingTransaction(remove_script_by_hash(s, b))
        BY <1>3 DEF script, remove_script_by_hash
    <2>2. ASSUME NEW d
          PROVE  /\ StagingTransaction(datum(s, d)) /\ StagingTransaction(remove_datum(s, d))
                 /\ StagingTransaction(remove_datum_by_hash(s, d))
        BY <1>3 DEF datum, remove_datum, remove_datum_by_hash
    <2>3. ASSUME NEW k, NEW m PROVE StagingTransaction(add_language(s, k, m))
        <3> DEFINE v == Some(Over(IF IsSome(s.language_views) THEN s.language_views.is ELSE Empty, k, m))
        <3>1. add_language(s, k, m) = IF k = "Native" THEN s ELSE [s EXCEPT !["language_views"] = v]
            BY DEF add_language
        <3> HIDE DEF v
        <3> QED BY <1>3, <3>1 DEF s
    <2> DEFINE next == {script(s, k[1], k[2]) : k \in DOMAIN Scripts}
                     \cup {remove_script_by_hash(s, h) : h \in DOMAIN s.scripts}
                     \cup {datum(s, d) : d \in Data} \cup {remove_datum(s, d) : d \in Data}
                     \cup {remove_datum_by_hash(s, hash(d)) : d \in Data}
                     \cup {add_language(s, k[1], m) : k \in DOMAIN Scripts, m \in {"current", "old"}}
    <2>4. \A t \in next : StagingTransaction(t)
        BY <2>1, <2>2, <2>3
    <2>5. Staged(next)
        BY <1>9 DEF Attached, s
    <2> QED BY <1>1, <2>4, <2>5
<1>10. CASE Redeemers
    <2>1. ASSUME NEW p, Purpose(p), NEW d, NEW e PROVE StagingTransaction(add_redeemer(s, p, d, e))
        <3> DEFINE v == Over(s.redeemers, p, [data |-> d, ex |-> e])
        <3>1. add_redeemer(s, p, d, e) = [s EXCEPT !["redeemers"] = v]
            BY DEF add_redeemer
        <3>2. DOMAIN v = DOMAIN s.redeemers \cup {p} /\ IsFiniteSet(DOMAIN v)
            BY <1>0, MapKeeps DEF Purposes
        <3> HIDE DEF v
        <3>3. Purposes(v)
            BY <1>0, <2>1, <3>2 DEF Purposes
        <3> QED BY <3>1, <3>3, FieldKeeps DEF s
    <2>2. ASSUME NEW p PROVE StagingTransaction(remove_redeemer(s, p))
        <3> DEFINE v == Less(s.redeemers, p)
        <3>1. remove_redeemer(s, p) = [s EXCEPT !["redeemers"] = v]
            BY DEF remove_redeemer
        <3>2. DOMAIN v = DOMAIN s.redeemers \ {p} /\ IsFiniteSet(DOMAIN v)
            BY <1>0, MapKeeps DEF Purposes
        <3> HIDE DEF v
        <3>3. Purposes(v)
            BY <1>0, <3>2 DEF Purposes
        <3> QED BY <3>1, <3>3, FieldKeeps DEF s
    <2> DEFINE P == {Spend(r) : r \in Refs} \cup {Mint(h) : h \in Policies}
    <2>3. \A p \in P : Purpose(p)
        <3>1. ASSUME NEW r \in Refs PROVE Purpose(Spend(r))
            BY BasesAssumption DEF Purpose, Spend
        <3>2. ASSUME NEW h PROVE Purpose(Mint(h))
            BY DEF Purpose, Mint
        <3> QED BY <3>1, <3>2
    <2> HIDE DEF P
    <2> DEFINE next == {add_redeemer(s, p, d, e) : p \in P, d \in Data, e \in {None, Some(4)}}
                         \cup {remove_redeemer(s, p) : p \in DOMAIN s.redeemers}
    <2>4. \A t \in next : StagingTransaction(t)
        BY <2>1, <2>2, <2>3
    <2>5. Staged(next)
        BY <1>10 DEF Redeemers, s, P
    <2> QED BY <1>1, <2>4, <2>5
<1>11. CASE Reload
    <2>1. \A t \in {from_json(to_json(st))} : StagingTransaction(t)
        BY ReloadKeeps
    <2> QED BY <1>1, <1>11, <2>1 DEF Reload
<1>12. CASE Build \/ Signatures
    BY <1>2, <1>12 DEF Build, Signatures, Signed
<1> QED BY <1>4, <1>5, <1>6, <1>7, <1>8, <1>9, <1>10, <1>11, <1>12 DEF Next

----------------------------------------------------------------------------
(* Redeemers and their positions.                                          *)

(* A loop of checks that ends well passed every element.                   *)
LEMMA AllOk ==
    ASSUME NEW results, DOMAIN results \subseteq Nat, FirstError(results) = "Ok"
    PROVE  \A i \in DOMAIN results : results[i] = "Ok"
<1> DEFINE bad == {i \in DOMAIN results : results[i] # "Ok"}
<1>1. SUFFICES ASSUME bad # {} PROVE FALSE
    OBVIOUS
<1>2. PICK m \in bad : \A k \in bad : m <= k
    <2>1. bad \subseteq Nat
        OBVIOUS
    <2> HIDE DEF bad
    <2> QED BY <1>1, <2>1, LeastOf
<1>3. Min(bad) \in bad
    <2> HIDE DEF bad
    <2> QED BY <1>2 DEF Min
<1>4. FirstError(results) = results[Min(bad)]
    BY <1>1 DEF FirstError
<1> QED BY <1>3, <1>4

(* The redeemers of a built transaction are those staged, in the order in  *)
(* which the map was met, with positions among the sorted targets.         *)
Positioned(s, p) == build_redeemer(s, SortRefs(s.inputs), SortHashes(DOMAIN s.mint), p)

Pointed(s, tx) ==
    /\ {"ins", "mint", "redeemers"} \subseteq DOMAIN tx
    /\ tx.ins = SortRefs(s.inputs)
    /\ tx.mint = IF s.mint = Empty THEN None ELSE Some(s.mint)
    /\ \E purposes \in SetToSeqs(DOMAIN s.redeemers) :
          /\ \A i \in DOMAIN purposes : Positioned(s, purposes[i]).err = "Ok"
          /\ tx.redeemers = [i \in DOMAIN purposes |-> Positioned(s, purposes[i]).val]

(* That is what build_conway_raw makes of a staging transaction.           *)
LEMMA BuildPoints ==
    ASSUME NEW s, NEW scripts, NEW datums, NEW purposes \in SetToSeqs(DOMAIN s.redeemers),
           NEW r, r = build_conway_raw(s, scripts, datums, purposes), r.err = "Ok"
    PROVE  Pointed(s, r.val)
<1> DEFINE results == [i \in DOMAIN purposes |-> Positioned(s, purposes[i])]
<1> DEFINE errs == [i \in DOMAIN results |-> results[i].err]
<1>1. DOMAIN purposes \subseteq Nat
    BY DEF SetToSeqs
<1>2. /\ r.val.ins = SortRefs(s.inputs)
      /\ r.val.mint = IF s.mint = Empty THEN None ELSE Some(s.mint)
      /\ "ins" \in DOMAIN r.val /\ "mint" \in DOMAIN r.val /\ "redeemers" \in DOMAIN r.val
    BY DEF build_conway_raw, Fail, Val
<1>3. r.val.redeemers = Collect(results).val /\ Collect(results).err = "Ok"
    BY DEF build_conway_raw, Fail, Val, Positioned, &&
<1> HIDE DEF results
<1>4. FirstError(errs) = "Ok" /\ Collect(results).val = [i \in DOMAIN results |-> results[i].val]
    BY <1>3 DEF Collect, Fail, Val
<1>5. DOMAIN results = DOMAIN purposes /\ \A i \in DOMAIN purposes : results[i] = Positioned(s, purposes[i])
    BY DEF results
<1>6. \A i \in DOMAIN errs : errs[i] = "Ok"
    <2>1. DOMAIN errs \subseteq Nat
        BY <1>1, <1>5
    <2> HIDE DEF errs
    <2> QED BY <1>4, <2>1, AllOk
<1>7. \A i \in DOMAIN purposes : Positioned(s, purposes[i]).err = "Ok"
    BY <1>5, <1>6
<1>8. r.val.redeemers = [i \in DOMAIN purposes |-> Positioned(s, purposes[i]).val]
    BY <1>3, <1>4, <1>5
<1> QED BY <1>2, <1>7, <1>8 DEF Pointed

(* The position that a redeemer is built with is that of its target.       *)
LEMMA PositionFound ==
    ASSUME NEW s, NEW ins, NEW policies, NEW p, NEW among, NEW n \in Nat, DOMAIN among = 1..n,
           among = IF p[1] = "Spend" THEN ins ELSE policies,
           NEW b, b = build_redeemer(s, ins, policies, p), b.err = "Ok"
    PROVE  /\ b.val.tag = p[1] /\ b.val.data = s.redeemers[p].data
           /\ b.val.index \in Nat /\ b.val.index < n /\ among[b.val.index + 1] = p[2]
<1> DEFINE at == {i \in DOMAIN among : among[i] = p[2]}
<1>1. /\ at # {} /\ b.val.tag = p[1] /\ b.val.data = s.redeemers[p].data /\ b.val.index = Min(at) - 1
    BY DEF build_redeemer, Val, Fail
<1>2. at \subseteq Nat
    OBVIOUS
<1>3. Min(at) \in at
    <2> HIDE DEF at
    <2>1. PICK m \in at : \A k \in at : m <= k
        BY <1>1, <1>2, LeastOf
    <2> QED BY <2>1 DEF Min
<1>4. Min(at) \in 1..n /\ among[Min(at)] = p[2]
    BY <1>3
<1> HIDE DEF at
<1> QED BY <1>1, <1>4

(* The elements of a list of a set are that set.                           *)
LEMMA ListsElems ==
    ASSUME NEW S, NEW x, Lists(x, S)
    PROVE  Elems(x) = S
<1>1. DOMAIN x = 1..Cardinality(S) /\ \A i \in DOMAIN x : x[i] \in S
    BY DEF Lists
<1>2. \A v \in S : \E i \in DOMAIN x : x[i] = v
    BY <1>1 DEF Lists
<1> QED BY <1>1, <1>2 DEF Elems

(* The lists that positions count in, under their different names.         *)
LEMMA SameTargets ==
    ASSUME NEW s, StagingTransaction(s), IsInjective(s.inputs), NEW tx, Pointed(s, tx),
           NEW S, S = Elems(s.inputs), NEW policies, policies = SortHashes(DOMAIN s.mint)
    PROVE  /\ IsFiniteSet(S) /\ S \subseteq Nat /\ Cardinality(S) \in Nat
           /\ SortRefs(s.inputs) = Ordered(S)
           /\ inputs_sorted_set(tx) = Ordered(S) /\ Evaluation!SortRefs(tx.ins) = Ordered(S)
           /\ Ordered(S) \in [1..Cardinality(S) -> S]
           /\ mints_sorted_set(tx) = policies /\ Evaluation!get_mint_info(tx) = policies
           /\ Len(policies) \in Nat /\ DOMAIN policies = 1..Len(policies)
<1> DEFINE x == s.inputs
<1>1. x \in Seq(Nat) /\ DOMAIN x = 1..Len(x) /\ Len(x) \in Nat /\ IsFiniteSet(DOMAIN s.mint)
    BY DEF StagingTransaction
<1>2. S \subseteq Nat /\ x \in [1..Len(x) -> S]
    BY <1>1 DEF Elems
<1>3. \A i, j \in 1..Len(x) : i # j => x[i] # x[j]
    BY <1>1 DEF IsInjective
<1>4. \A v \in S : \E i \in 1..Len(x) : x[i] = v
    BY <1>1 DEF Elems
<1>5. IsFiniteSet(S) /\ Cardinality(S) = Len(x)
    <2>1. IsFiniteSet(1..Len(x)) /\ Cardinality(1..Len(x)) = Len(x)
        BY <1>1, FS_Interval
    <2>2. x \in Bijection(1..Len(x), S)
        BY <1>2, <1>3, <1>4 DEF Bijection, Injection, Surjection, IsInjective
    <2>3. ExistsBijection(1..Len(x), S)
        BY <2>2 DEF ExistsBijection
    <2> QED BY <2>1, <2>3, FS_Bijection
<1>6. Lists(x, S)
    BY <1>2, <1>3, <1>4, <1>5 DEF Lists
<1>7. SortRefs(x) = Ordered(S)
    BY <1>2, <1>5, <1>6, SortedByCount
<1>8. Lists(Ordered(S), S) /\ SortRefs(SetToSeq(S)) = Ordered(S) /\ SortRefs(Ordered(S)) = Ordered(S)
    BY <1>2, <1>5, OrderedLists
<1>9. tx.ins = Ordered(S)
    BY <1>7 DEF Pointed
<1>10. Elems(Ordered(S)) = S
    BY <1>8, ListsElems
<1>11. inputs_sorted_set(tx) = Ordered(S)
    BY <1>8, <1>9, <1>10 DEF inputs_sorted_set
<1>12. \A y : Evaluation!SortRefs(y) = SortRefs(y)
    BY DEF SortRefs, Sorted, Evaluation!SortRefs, Evaluation!Sorted, Cardinality, Evaluation!Cardinality
<1>13. MintPolicies(tx) = DOMAIN s.mint
    BY DEF MintPolicies, Pointed, None, Some, IsSome, Empty
<1>14. Evaluation!get_mint_info(tx) = SortHashes(MintPolicies(tx))
    BY DEF Evaluation!get_mint_info, Evaluation!SortHashes, Evaluation!Sorted, Evaluation!MintPolicies, Evaluation!Rank,
           SortHashes, Sorted, MintPolicies, Rank, IsSome, Evaluation!IsSome, Evaluation!Cardinality, Cardinality,
           SetToSeq, Evaluation!SetToSeq, IsInjective, Evaluation!IsInjective
<1>15. Len(policies) \in Nat /\ DOMAIN policies = 1..Len(policies)
    <2> DEFINE P == DOMAIN s.mint
    <2>1. Cardinality(P) \in Nat /\ DOMAIN SetToSeq(P) = 1..Cardinality(P)
        BY <1>1, SetListed
    <2>2. policies = [k \in 1..Cardinality(P) |-> policies[k]]
        BY <2>1 DEF SortHashes, Sorted
    <2>3. policies \in Seq({policies[k] : k \in 1..Cardinality(P)})
        <3> HIDE DEF P
        <3> QED BY <2>1, <2>2
    <2> QED BY <2>3
<1> QED BY <1>1, <1>2, <1>5, <1>7, <1>8, <1>9, <1>11, <1>12, <1>13, <1>14, <1>15
        DEF Lists, mints_sorted_set

(* A redeemer that was built for a purpose has the position of its target, *)
(* where pallas-traverse counts it.                                        *)
LEMMA TargetIs ==
    ASSUME NEW s, StagingTransaction(s), IsInjective(s.inputs), NEW tx, Pointed(s, tx),
           NEW p \in DOMAIN s.redeemers, NEW b, b = Positioned(s, p), b.err = "Ok"
    PROVE  /\ b.val.tag = p[1] /\ b.val.data = s.redeemers[p].data /\ b.val.index \in Nat
           /\ p = <<p[1], p[2]>> /\ p[1] \in {"Spend", "Mint"}
           /\ Target(tx, b.val) = p
           /\ p[1] = "Spend" => /\ b.val.index < Cardinality(Elems(s.inputs))
                                /\ Ordered(Elems(s.inputs))[b.val.index + 1] = p[2]
           /\ p[1] = "Mint" => /\ b.val.index < Len(SortHashes(DOMAIN s.mint))
                               /\ SortHashes(DOMAIN s.mint)[b.val.index + 1] = p[2]
<1> DEFINE S == Elems(s.inputs)
<1> DEFINE policies == SortHashes(DOMAIN s.mint)
<1>1. /\ Cardinality(S) \in Nat /\ SortRefs(s.inputs) = Ordered(S) /\ inputs_sorted_set(tx) = Ordered(S)
      /\ Ordered(S) \in [1..Cardinality(S) -> S] /\ mints_sorted_set(tx) = policies
      /\ Len(policies) \in Nat /\ DOMAIN policies = 1..Len(policies)
    BY SameTargets
<1>2. p = <<p[1], p[2]>> /\ p[1] \in {"Spend", "Mint"}
    <2>1. p = Spend(p[2]) \/ p = Mint(p[2])
        BY DEF StagingTransaction
    <2> QED BY <2>1 DEF Spend, Mint
<1> HIDE DEF S, policies
<1>3. b = build_redeemer(s, Ordered(S), policies, p)
    BY <1>1 DEF Positioned, S, policies
<1>4. Len(Ordered(S)) = Cardinality(S) /\ DOMAIN Ordered(S) = 1..Cardinality(S)
    BY <1>1
<1>5. CASE p[1] = "Spend"
    <2>1. /\ b.val.tag = p[1] /\ b.val.data = s.redeemers[p].data
          /\ b.val.index \in Nat /\ b.val.index < Cardinality(S) /\ Ordered(S)[b.val.index + 1] = p[2]
        <3> DEFINE among == IF p[1] = "Spend" THEN Ordered(S) ELSE policies
        <3>1. among = Ordered(S)
            BY <1>5
        <3>2. DOMAIN among = 1..Cardinality(S)
            BY <1>4, <3>1
        <3> HIDE DEF among
        <3>3. among = IF p[1] = "Spend" THEN Ordered(S) ELSE policies
            BY DEF among
        <3>4. /\ b.val.tag = p[1] /\ b.val.data = s.redeemers[p].data
              /\ b.val.index \in Nat /\ b.val.index < Cardinality(S) /\ among[b.val.index + 1] = p[2]
            BY <1>1, <1>3, <3>2, <3>3, PositionFound
        <3> QED BY <3>1, <3>4
    <2>2. Target(tx, b.val) = <<p[1], p[2]>>
        BY <1>1, <1>4, <1>5, <2>1 DEF Target
    <2>3. p[1] # "Mint"
        BY <1>5
    <2> QED BY <1>2, <2>1, <2>2, <2>3 DEF S
<1>6. CASE p[1] = "Mint"
    <2>1. /\ b.val.tag = p[1] /\ b.val.data = s.redeemers[p].data
          /\ b.val.index \in Nat /\ b.val.index < Len(policies) /\ policies[b.val.index + 1] = p[2]
        <3> DEFINE among == IF p[1] = "Spend" THEN Ordered(S) ELSE policies
        <3>1. among = policies
            BY <1>6
        <3>2. DOMAIN among = 1..Len(policies)
            BY <1>1, <3>1
        <3> HIDE DEF among
        <3>3. among = IF p[1] = "Spend" THEN Ordered(S) ELSE policies
            BY DEF among
        <3>4. /\ b.val.tag = p[1] /\ b.val.data = s.redeemers[p].data
              /\ b.val.index \in Nat /\ b.val.index < Len(policies) /\ among[b.val.index + 1] = p[2]
            BY <1>1, <1>3, <3>2, <3>3, PositionFound
        <3> QED BY <3>1, <3>4
    <2>2. Target(tx, b.val) = <<p[1], p[2]>>
        BY <1>1, <1>6, <2>1 DEF Target
    <2>3. p[1] # "Spend"
        BY <1>6
    <2> QED BY <1>2, <2>1, <2>2, <2>3 DEF policies
<1> QED BY <1>2, <1>5, <1>6

(* A redeemer at the position of its target has phase two find the target: *)
(* the script it runs is the policy, or the one that locks the input.      *)
LEMMA ScriptIs ==
    ASSUME NEW s, StagingTransaction(s), IsInjective(s.inputs), NEW tx, Pointed(s, tx), NEW table,
           NEW p \in DOMAIN s.redeemers, NEW r, r.tag = p[1], r.index \in Nat,
           p[1] = "Spend" => /\ r.index < Cardinality(Elems(s.inputs))
                             /\ Ordered(Elems(s.inputs))[r.index + 1] = p[2],
           p[1] = "Mint" => /\ r.index < Len(SortHashes(DOMAIN s.mint))
                            /\ SortHashes(DOMAIN s.mint)[r.index + 1] = p[2],
           p[1] \in {"Spend", "Mint"}, NEW f, f = Evaluation!find_script(r, tx, Known, table), f.err = "Ok"
    PROVE  f.val.script = IF p[1] = "Mint" THEN p[2] ELSE Known[p[2]].addr.id
<1> DEFINE Script(h) == IF h \in DOMAIN table.scripts
              THEN Evaluation!Val([script |-> h, datum |-> Evaluation!None])
              ELSE Evaluation!Fail("MissingRequiredScript")
<1> DEFINE At(l) == Evaluation!At(l, r.index, "MissingScriptForRedeemer")
<1> DEFINE S == Elems(s.inputs)
<1> DEFINE policies == SortHashes(DOMAIN s.mint)
<1>1. /\ Cardinality(S) \in Nat /\ Evaluation!SortRefs(tx.ins) = Ordered(S)
      /\ Ordered(S) \in [1..Cardinality(S) -> S] /\ Evaluation!get_mint_info(tx) = policies
    BY SameTargets
<1>2. \A h : Script(h).err = "Ok" => Script(h).val.script = h
    BY DEF Evaluation!Val, Evaluation!Fail
<1>3. CASE p[1] = "Mint"
    <2> DEFINE t == At(policies)
    <2>1. t = Evaluation!Val(p[2])
        BY <1>3 DEF Evaluation!At
    <2>2. t.err = "Ok" /\ t.val = p[2]
        <3> HIDE DEF t
        <3> QED BY <2>1 DEF Evaluation!Val
    <2>3. f = IF t.err = "Ok" THEN Script(t.val) ELSE t
        BY <1>1, <1>3 DEF Evaluation!find_script
    <2> HIDE DEF t, Script
    <2> QED BY <1>2, <1>3, <2>2, <2>3
<1>4. CASE p[1] = "Spend"
    <2> DEFINE v1 == Evaluation!get_tx_in_info_v1(tx.ins, Known)
    <2> DEFINE v2 == Evaluation!get_tx_in_info_v2(tx.ins, Known)
    <2> DEFINE ins == IF v2.err = "ByronAddressNotAllowed" THEN v1 ELSE v2
    <2> DEFINE u == At(ins.val)
    <2> DEFINE D(x) == CASE Evaluation!IsSome(x.inline) -> Evaluation!Val(x.inline)
                    [] ~Evaluation!IsSome(x.inline) /\ Evaluation!IsSome(x.datum) ->
                         IF x.datum.is \in table.datum THEN Evaluation!Val(x.datum)
                         ELSE Evaluation!Fail("MissingRequiredDatum")
                    [] OTHER -> Evaluation!Val(Evaluation!None)
    <2> DEFINE Run(x) == IF Script(x.addr.id).err # "Ok" THEN Script(x.addr.id)
                      ELSE IF D(x).err # "Ok" THEN D(x)
                      ELSE IF ~Evaluation!IsSome(D(x).val) /\ table.scripts[x.addr.id] \in {"V1", "V2"}
                      THEN Evaluation!Fail("MissingRequiredInlineDatumOrHash")
                      ELSE Evaluation!Val([script |-> x.addr.id, datum |-> D(x).val])
    <2>1. f = IF ins.err = "Ok" THEN IF u.err = "Ok" THEN Run(u.val) ELSE u ELSE ins
        BY <1>4 DEF Evaluation!find_script
    <2>2. ins.err = "Ok" => ins.val = [k \in 1..Cardinality(S) |-> Known[Ordered(S)[k]]]
        <3> DEFINE resolved == [k \in 1..Cardinality(S) |-> Known[Ordered(S)[k]]]
        <3>1. DOMAIN Ordered(S) = 1..Cardinality(S)
            BY <1>1
        <3> HIDE DEF S
        <3>2. v1.err = "Ok" => v1.val = resolved
            BY <1>1, <3>1 DEF Evaluation!get_tx_in_info_v1, Evaluation!TxInInfo, Evaluation!Val, Evaluation!Fail
        <3>3. v2.err = "Ok" => v2.val = resolved
            BY <1>1, <3>1 DEF Evaluation!get_tx_in_info_v2, Evaluation!TxInInfo, Evaluation!Val, Evaluation!Fail
        <3> HIDE DEF v1, v2, resolved
        <3> QED BY <3>2, <3>3 DEF resolved
    <2>3. \A x : Run(x).err = "Ok" => Run(x).val.script = x.addr.id
        <3> HIDE DEF Script, D
        <3> QED BY DEF Evaluation!Val, Evaluation!Fail
    <2> HIDE DEF ins, Run
    <2>4. ins.err = "Ok"
        BY <2>1
    <2>5. u = Evaluation!Val(Known[p[2]])
        <3>1. Len(ins.val) = Cardinality(S)
            <4> DEFINE T == {Known[Ordered(S)[k]] : k \in 1..Cardinality(S)}
            <4>1. ins.val \in [1..Cardinality(S) -> T]
                BY <2>2, <2>4
            <4> HIDE DEF T, S
            <4> QED BY <1>1, <4>1, SeqOfFunction
        <3>2. ins.val[r.index + 1] = Known[p[2]]
            <4>1. r.index + 1 \in 1..Cardinality(S) /\ Ordered(S)[r.index + 1] = p[2]
                BY <1>1, <1>4
            <4>2. ins.val = [k \in 1..Cardinality(S) |-> Known[Ordered(S)[k]]]
                BY <2>2, <2>4
            <4> HIDE DEF S, At, Script, policies, v1, v2, u, D
            <4> QED BY <4>1, <4>2
        <3>3. r.index < Cardinality(S)
            BY <1>4
        <3> QED BY <3>1, <3>2, <3>3 DEF Evaluation!At
    <2>6. u.err = "Ok" /\ u.val = Known[p[2]]
        <3> HIDE DEF u
        <3> QED BY <2>5 DEF Evaluation!Val
    <2> HIDE DEF u
    <2> QED BY <1>4, <2>1, <2>3, <2>4, <2>6
<1> QED BY <1>3, <1>4

(* So every redeemer is for what it was staged for.                        *)
LEMMA PointedResolves ==
    ASSUME StagingTransaction(st), built.status = "Ok" => Pointed(st, built.tx)
    PROVE  RedeemersResolve
<1> SUFFICES ASSUME built.status = "Ok", IsInjective(st.inputs) PROVE RedeemersResolve
    BY DEF RedeemersResolve
<1> DEFINE tx == built.tx
<1> DEFINE m == st.redeemers
<1> DEFINE table == Evaluation!from_transaction(tx, Known)
<1>1. Pointed(st, tx) /\ IsFiniteSet(DOMAIN m)
    BY DEF StagingTransaction
<1>2. PICK purposes \in SetToSeqs(DOMAIN m) :
          /\ \A i \in DOMAIN purposes : Positioned(st, purposes[i]).err = "Ok"
          /\ tx.redeemers = [i \in DOMAIN purposes |-> Positioned(st, purposes[i]).val]
    BY <1>1 DEF Pointed
<1>3. /\ DOMAIN purposes = 1..Cardinality(DOMAIN m)
      /\ \A i \in DOMAIN purposes : purposes[i] \in DOMAIN m
      /\ \A p \in DOMAIN m : \E i \in DOMAIN purposes : purposes[i] = p
    <2>1. /\ purposes \in [1..Cardinality(DOMAIN m) -> DOMAIN m]
          /\ \A i, j \in 1..Cardinality(DOMAIN m) : i # j => purposes[i] # purposes[j]
        BY DEF SetToSeqs
    <2>2. ASSUME NEW D, IsFiniteSet(D), purposes \in [1..Cardinality(D) -> D],
                 \A i, j \in 1..Cardinality(D) : i # j => purposes[i] # purposes[j]
          PROVE  /\ DOMAIN purposes = 1..Cardinality(D) /\ \A i \in DOMAIN purposes : purposes[i] \in D
                 /\ \A p \in D : \E i \in DOMAIN purposes : purposes[i] = p
        <3>1. \A p \in D : \E i \in 1..Cardinality(D) : purposes[i] = p
            BY <2>2, ListsAll
        <3> QED BY <2>2, <3>1
    <2> HIDE DEF m
    <2> QED BY <1>1, <2>1, <2>2
<1> DEFINE R(p) == Positioned(st, p).val
<1>4. /\ \A r \in Elems(tx.redeemers) : \E p \in DOMAIN m : r = R(p) /\ Positioned(st, p).err = "Ok"
      /\ \A p \in DOMAIN m : R(p) \in Elems(tx.redeemers) /\ Positioned(st, p).err = "Ok"
    <2> HIDE DEF m, tx
    <2> QED BY <1>2, <1>3 DEF Elems
<1>5. ASSUME NEW p \in DOMAIN m, Positioned(st, p).err = "Ok"
      PROVE  /\ Target(tx, R(p)) = p /\ R(p).data = m[p].data
             /\ LET f == Evaluation!find_script(R(p), tx, Known, table)
                IN f.err = "Ok" => f.val.script = IF p[1] = "Mint" THEN p[2] ELSE Known[p[2]].addr.id
    <2> DEFINE b == Positioned(st, p)
    <2> DEFINE r == b.val
    <2>1. /\ b.val.tag = p[1] /\ b.val.data = st.redeemers[p].data /\ b.val.index \in Nat
          /\ p = <<p[1], p[2]>> /\ p[1] \in {"Spend", "Mint"}
          /\ Target(tx, b.val) = p
          /\ p[1] = "Spend" => /\ b.val.index < Cardinality(Elems(st.inputs))
                               /\ Ordered(Elems(st.inputs))[b.val.index + 1] = p[2]
          /\ p[1] = "Mint" => /\ b.val.index < Len(SortHashes(DOMAIN st.mint))
                              /\ SortHashes(DOMAIN st.mint)[b.val.index + 1] = p[2]
        <3> HIDE DEF tx, b
        <3> QED BY <1>1, <1>5, TargetIs DEF b
    <2> HIDE DEF b, tx, table
    <2>2. LET f == Evaluation!find_script(r, tx, Known, table)
          IN f.err = "Ok" => f.val.script = IF p[1] = "Mint" THEN p[2] ELSE Known[p[2]].addr.id
        BY <1>1, <2>1, ScriptIs
    <2> QED BY <2>1, <2>2 DEF b
<1> HIDE DEF tx, table, R, m
<1>6. {<<Target(tx, r), r.data>> : r \in Elems(tx.redeemers)} = {<<p, m[p].data>> : p \in DOMAIN m}
    <2>1. ASSUME NEW r \in Elems(tx.redeemers) PROVE \E p \in DOMAIN m : <<Target(tx, r), r.data>> = <<p, m[p].data>>
        BY <1>4, <1>5
    <2>2. ASSUME NEW p \in DOMAIN m PROVE \E r \in Elems(tx.redeemers) : <<Target(tx, r), r.data>> = <<p, m[p].data>>
        BY <1>4, <1>5
    <2> QED BY <2>1, <2>2
<1>7. ASSUME NEW r \in Elems(tx.redeemers)
      PROVE  LET f == Evaluation!find_script(r, tx, Known, table)
                 p == Target(tx, r)
             IN f.err = "Ok" => f.val.script = IF p[1] = "Mint" THEN p[2] ELSE Known[p[2]].addr.id
    BY <1>4, <1>5
<1> QED BY <1>6, <1>7 DEF RedeemersResolve, tx, table, m

(* What the calls keep of redeemers.                                       *)
PointsInv == StagingTransaction(st) /\ (built.status = "Ok" => Pointed(st, built.tx))

LEMMA PointsInit == Init => PointsInv
BY BasesAssumption DEF Init, PointsInv

(* A build points the redeemers; signatures touch neither them nor the     *)
(* lists that positions count in.                                          *)
LEMMA PointsStep == BuiltInv /\ PointsInv /\ [Next]_vars => PointsInv'
<1> SUFFICES ASSUME BuiltInv, PointsInv, [Next]_vars PROVE PointsInv'
    OBVIOUS
<1>1. CASE UNCHANGED vars
    BY <1>1 DEF vars, PointsInv, StagingTransaction, Pointed, Positioned
<1>2. ASSUME NEW next, Staged(next) PROVE built'.status # "Ok"
    BY <1>2 DEF Staged
<1>3. CASE Build
    <2>1. PICK scripts \in SetToSeqs(DOMAIN st.scripts), datums \in SetToSeqs(DOMAIN st.datums),
               purposes \in SetToSeqs(DOMAIN st.redeemers) :
            LET r == build_conway_raw(st, scripts, datums, purposes)
            IN built' = IF r.err = "Ok" THEN [built EXCEPT !.status = "Ok", !.tx = r.val]
                                        ELSE [built EXCEPT !.status = r.err]
        BY <1>3, Zenon DEF Build
    <2> DEFINE r == build_conway_raw(st, scripts, datums, purposes)
    <2>2. st' = st
        BY <1>3 DEF Build
    <2>3. r.err = "Ok" => Pointed(st, r.val)
        BY BuildPoints
    <2>4. built' = IF r.err = "Ok" THEN [built EXCEPT !.status = "Ok", !.tx = r.val]
                                   ELSE [built EXCEPT !.status = r.err]
        BY <2>1
    <2> HIDE DEF r
    <2>5. built'.status = "Ok" => r.err = "Ok" /\ built'.tx = r.val
        BY <2>4 DEF BuiltInv
    <2>6. built'.status = "Ok" => Pointed(st', built'.tx)
        BY <2>2, <2>3, <2>5
    <2>7. StagingTransaction(st')
        BY <2>2 DEF PointsInv
    <2> QED BY <2>6, <2>7 DEF PointsInv, StagingTransaction, Pointed, Positioned
<1>4. CASE Signatures
    <2>1. PICK k \in Keys :
            Signed({sign(built, k), add_signature(built, k, FALSE), remove_signature(built, k)})
        BY <1>4 DEF Signatures
    <2>2. /\ built.status = "Ok" /\ st' = st
          /\ \/ \E v \in BOOLEAN : built' = add_signature(built, k, v)
             \/ built' = remove_signature(built, k)
        BY <2>1 DEF Signed, sign
    <2>3. /\ DOMAIN built'.tx = DOMAIN built.tx
          /\ \A x \in DOMAIN built.tx \ {"vkeys"} : built'.tx[x] = built.tx[x]
        BY <2>2, AddKeeps, RemoveKeeps
    <2>4. Pointed(st, built.tx)
        BY <2>2 DEF PointsInv
    <2>5. Pointed(st, built'.tx)
        <3>1. \A x \in {"ins", "mint", "redeemers"} : x \in DOMAIN built.tx \ {"vkeys"}
            BY <2>4 DEF Pointed
        <3>2. /\ built'.tx.ins = built.tx.ins /\ built'.tx.mint = built.tx.mint
              /\ built'.tx.redeemers = built.tx.redeemers
            BY <2>3, <3>1
        <3> QED BY <2>3, <2>4, <3>2 DEF Pointed
    <2>6. StagingTransaction(st') /\ Pointed(st', built'.tx)
        BY <2>2, <2>5 DEF PointsInv
    <2> QED BY <2>6 DEF PointsInv, StagingTransaction, Pointed, Positioned
<1>5. CASE \/ Inputs \/ Signers \/ Outputs \/ Fields \/ Mints \/ Attached \/ Redeemers \/ Reload
    <2>1. built'.status # "Ok"
        BY <1>2, <1>5 DEF Inputs, Signers, Outputs, Fields, Mints, Attached, Redeemers, Reload
    <2>2. Next
        BY <1>5 DEF Next
    <2>3. StagingTransaction(st)'
        BY <2>2, StagedKeeps DEF PointsInv
    <2> QED BY <2>1, <2>3 DEF PointsInv
<1> QED BY <1>1, <1>3, <1>4, <1>5 DEF Next

(* Every redeemer of a built transaction points at the input or the policy *)
(* it was staged for, as pallas-traverse counts them and as phase two      *)
(* finds the script to run, through every order of the staging calls, a    *)
(* reload from JSON in between, every order in which the build meets the   *)
(* hash maps, and every change of signatures after it.                     *)
THEOREM BuilderRedeemersResolve == Spec => []RedeemersResolve
<1>1. PointsInv => RedeemersResolve
    BY PointedResolves DEF PointsInv
<1> QED BY <1>1, BuiltInit, BuiltStep, PointsInit, PointsStep, PTL DEF Spec
=============================================================================
