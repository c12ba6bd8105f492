---------------------------- MODULE LedgerProofs ----------------------------
(***************************************************************************)
(* Proofs about chains of blocks (Ledger.tla), for any genesis, parameters *)
(* and bounds, and for clients that compose any transactions.              *)
(***************************************************************************)
EXTENDS Ledger, QueueLemmas, FiniteSetTheorems

(* A sequence of anything is one of its elements.                          *)
LEMMA SeqOfElems ==
  ASSUME NEW s, NEW S, s \in Seq(S)
  PROVE  IsSeq(s)
<1>1. /\ Len(s) \in Nat /\ DOMAIN s = 1..Len(s) /\ s = [i \in 1..Len(s) |-> s[i]]
      /\ \A i \in 1..Len(s) : s[i] \in Elems(s)
  BY DEF Elems
<1> QED BY <1>1 DEF IsSeq

(* The block between two others.                                           *)
LEMMA NothingSeq == IsSeq(<<>>) /\ DOMAIN <<>> = {}
<1>1. <<>> \in Seq({}) /\ DOMAIN <<>> = {}
  OBVIOUS
<1>2. IsSeq(<<>>)
  BY <1>1, SeqOfElems
<1> QED BY <1>1, <1>2

-----------------------------------------------------------------------------
(* The certificate state.                                                  *)

(* The fields of CertState, flattened.                                     *)
CertFields ==
  {"rewards", "delegations", "ptrs", "fut_gen_delegs", "gen_delegs", "ir_reserves", "ir_treasury",
   "pool_params", "fut_pool_params", "retiring"}

(* Pointers and registered credentials correspond one to one.              *)
Pointed(cs) ==
  /\ IsFiniteSet(DOMAIN cs.rewards)
  /\ \A p \in DOMAIN cs.ptrs : cs.ptrs[p] \in DOMAIN cs.rewards
  /\ \A k \in DOMAIN cs.rewards : \E p \in DOMAIN cs.ptrs : cs.ptrs[p] = k
  /\ \A p, q \in DOMAIN cs.ptrs : cs.ptrs[p] = cs.ptrs[q] => p = q

(* Delegations are of registered credentials to registered pools, and only *)
(* such pools have new parameters or an epoch to retire in.                *)
Delegated(cs) ==
  /\ DOMAIN cs.delegations \subseteq DOMAIN cs.rewards
  /\ \A k \in DOMAIN cs.delegations : cs.delegations[k] \in DOMAIN cs.pool_params
  /\ DOMAIN cs.retiring \cup DOMAIN cs.fut_pool_params \subseteq DOMAIN cs.pool_params

(* Two pairs of a delegate and a VRF key that share neither.               *)
Differ(d, e) == d[1] # e[1] /\ d[2] # e[2]

(* No delegate and no VRF key serves two genesis keys, now or later.       *)
Apart(cs) ==
  /\ \A g, h \in DOMAIN cs.gen_delegs : g # h => Differ(cs.gen_delegs[g], cs.gen_delegs[h])
  /\ \A g \in DOMAIN cs.gen_delegs, k \in DOMAIN cs.fut_gen_delegs :
       g # k[2] => Differ(cs.gen_delegs[g], cs.fut_gen_delegs[k])
  /\ \A k, l \in DOMAIN cs.fut_gen_delegs :
       k[2] # l[2] => Differ(cs.fut_gen_delegs[k], cs.fut_gen_delegs[l])

(* The certificate state in order.                                         *)
CertsOK(cs) == DOMAIN cs = CertFields /\ Pointed(cs) /\ Delegated(cs) /\ Apart(cs)

(* A registration takes a pointer that is free.                            *)
LEMMA RegistrationKeeps ==
  ASSUME NEW cs, CertsOK(cs), NEW stc, NEW ptr, NEW r,
         r = ShelleyRules!check_stake_registration(stc, ptr, cs), r.err = "Ok"
  PROVE  CertsOK(r.val)
<1> USE DEF CertFields
<1>1. /\ stc \notin DOMAIN cs.rewards /\ ptr \notin DOMAIN cs.ptrs
      /\ r.val = [cs EXCEPT !.rewards = ShelleyRules!With(@, stc, 0),
                            !.ptrs = ShelleyRules!With(@, ptr, stc)]
  BY DEF ShelleyRules!check_stake_registration, ShelleyRules!Val, ShelleyRules!Fail
<1> DEFINE rewards == ShelleyRules!With(cs.rewards, stc, 0)
<1> DEFINE ptrs == ShelleyRules!With(cs.ptrs, ptr, stc)
<1>2. /\ DOMAIN r.val = CertFields /\ r.val.rewards = rewards /\ r.val.ptrs = ptrs
      /\ r.val.delegations = cs.delegations /\ r.val.pool_params = cs.pool_params
      /\ r.val.fut_pool_params = cs.fut_pool_params /\ r.val.retiring = cs.retiring
      /\ r.val.gen_delegs = cs.gen_delegs /\ r.val.fut_gen_delegs = cs.fut_gen_delegs
  BY <1>1 DEF CertsOK
<1>3. /\ DOMAIN rewards = DOMAIN cs.rewards \cup {stc} /\ DOMAIN ptrs = DOMAIN cs.ptrs \cup {ptr}
      /\ ptrs[ptr] = stc /\ \A p \in DOMAIN cs.ptrs : ptrs[p] = cs.ptrs[p]
  BY <1>1 DEF ShelleyRules!With
<1> HIDE DEF rewards, ptrs, CertFields
<1>4. IsFiniteSet(DOMAIN rewards)
  BY <1>3, FS_AddElement DEF CertsOK, Pointed
<1>5. Pointed(r.val)
  BY <1>1, <1>2, <1>3, <1>4 DEF CertsOK, Pointed
<1>6. Delegated(r.val)
  BY <1>2, <1>3 DEF CertsOK, Delegated
<1>7. Apart(r.val)
  BY <1>2 DEF CertsOK, Apart
<1> QED BY <1>2, <1>5, <1>6, <1>7 DEF CertsOK

(* A deregistration takes the pointer and the delegation with it.          *)
LEMMA DeregistrationKeeps ==
  ASSUME NEW cs, CertsOK(cs), NEW stc, NEW r,
         r = ShelleyRules!check_stake_deregistration(stc, cs), r.err = "Ok"
  PROVE  CertsOK(r.val)
<1> USE DEF CertFields
<1> DEFINE ptrs == ShelleyRules!Without(cs.ptrs, {p \in DOMAIN cs.ptrs : cs.ptrs[p] = stc})
<1> DEFINE delegations == ShelleyRules!Without(cs.delegations, {stc})
<1> DEFINE rewards == ShelleyRules!Without(cs.rewards, {stc})
<1>1. r.val = [cs EXCEPT !.ptrs = ptrs, !.delegations = delegations, !.rewards = rewards]
  BY DEF ShelleyRules!check_stake_deregistration, ShelleyRules!Val, ShelleyRules!Fail
<1>3. /\ DOMAIN rewards = DOMAIN cs.rewards \ {stc}
      /\ DOMAIN ptrs = {p \in DOMAIN cs.ptrs : cs.ptrs[p] # stc}
      /\ \A p \in DOMAIN ptrs : ptrs[p] = cs.ptrs[p]
      /\ DOMAIN delegations = DOMAIN cs.delegations \ {stc}
      /\ \A k \in DOMAIN delegations : delegations[k] = cs.delegations[k]
  BY DEF ShelleyRules!Without
<1> HIDE DEF rewards, ptrs, delegations
<1>2. /\ DOMAIN r.val = CertFields /\ r.val.rewards = rewards /\ r.val.ptrs = ptrs
      /\ r.val.delegations = delegations /\ r.val.pool_params = cs.pool_params
      /\ r.val.fut_pool_params = cs.fut_pool_params /\ r.val.retiring = cs.retiring
      /\ r.val.gen_delegs = cs.gen_delegs /\ r.val.fut_gen_delegs = cs.fut_gen_delegs
  BY <1>1 DEF CertsOK
<1> HIDE DEF CertFields
<1>4. IsFiniteSet(DOMAIN rewards)
  BY <1>3, FS_Subset DEF CertsOK, Pointed
<1>5. Pointed(r.val)
  BY <1>2, <1>3, <1>4 DEF CertsOK, Pointed
<1>6. Delegated(r.val)
  BY <1>2, <1>3 DEF CertsOK, Delegated
<1>7. Apart(r.val)
  BY <1>2 DEF CertsOK, Apart
<1> QED BY <1>2, <1>5, <1>6, <1>7 DEF CertsOK

(* Credentials and pools: a delegation is of a registered credential to a  *)
(* registered pool, and only such a pool is updated or retired.            *)
LEMMA DelegationKeeps ==
  ASSUME NEW cs, CertsOK(cs), NEW stc, NEW pool, NEW r,
         r = ShelleyRules!check_stake_delegation(stc, pool, cs), r.err = "Ok"
  PROVE  CertsOK(r.val)
<1> USE DEF CertFields
<1> DEFINE delegations == ShelleyRules!With(cs.delegations, stc, pool)
<1>1. /\ pool \in DOMAIN cs.pool_params /\ stc \in DOMAIN cs.rewards
      /\ r.val = [cs EXCEPT !.delegations = delegations]
  BY DEF ShelleyRules!check_stake_delegation, ShelleyRules!Val, ShelleyRules!Fail
<1>2. /\ DOMAIN delegations = DOMAIN cs.delegations \cup {stc} /\ delegations[stc] = pool
      /\ \A k \in DOMAIN cs.delegations : k # stc => delegations[k] = cs.delegations[k]
  BY DEF ShelleyRules!With
<1> HIDE DEF delegations
<1>3. /\ DOMAIN r.val = CertFields /\ r.val.rewards = cs.rewards /\ r.val.ptrs = cs.ptrs
      /\ r.val.delegations = delegations /\ r.val.pool_params = cs.pool_params
      /\ r.val.fut_pool_params = cs.fut_pool_params /\ r.val.retiring = cs.retiring
      /\ r.val.gen_delegs = cs.gen_delegs /\ r.val.fut_gen_delegs = cs.fut_gen_delegs
  BY <1>1 DEF CertsOK
<1> HIDE DEF CertFields
<1>4. Pointed(r.val) /\ Apart(r.val)
  BY <1>3 DEF CertsOK, Pointed, Apart
<1>5. Delegated(r.val)
  BY <1>1, <1>2, <1>3 DEF CertsOK, Delegated
<1> QED BY <1>3, <1>4, <1>5 DEF CertsOK

(* A pool that is there already is updated, and is no longer retiring.     *)
LEMMA PoolUpdateKeeps ==
  ASSUME NEW cs, CertsOK(cs), NEW pool, NEW cost, NEW least, NEW r,
         r = ShelleyRules!check_pool_reg_or_update(pool, cost, least, cs), r.err = "Ok"
  PROVE  CertsOK(r.val)
<1> USE DEF CertFields
<1> DEFINE future == ShelleyRules!With(cs.fut_pool_params, pool, cost)
<1> DEFINE retiring == ShelleyRules!Without(cs.retiring, {pool})
<1> DEFINE pools == ShelleyRules!With(cs.pool_params, pool, cost)
<1>1. \/ pool \in DOMAIN cs.pool_params /\ r.val = [cs EXCEPT !.fut_pool_params = future,
                                                            !.retiring = retiring]
      \/ r.val = [cs EXCEPT !.pool_params = pools]
  BY DEF ShelleyRules!check_pool_reg_or_update, ShelleyRules!Val, ShelleyRules!Fail
<1>2. /\ DOMAIN future = DOMAIN cs.fut_pool_params \cup {pool}
      /\ DOMAIN retiring \subseteq DOMAIN cs.retiring
      /\ DOMAIN pools = DOMAIN cs.pool_params \cup {pool}
  BY DEF ShelleyRules!With, ShelleyRules!Without
<1> HIDE DEF future, retiring, pools
<1>3. /\ DOMAIN r.val = CertFields /\ r.val.rewards = cs.rewards /\ r.val.ptrs = cs.ptrs
      /\ r.val.delegations = cs.delegations
      /\ r.val.gen_delegs = cs.gen_delegs /\ r.val.fut_gen_delegs = cs.fut_gen_delegs
      /\ \/ /\ pool \in DOMAIN cs.pool_params /\ r.val.pool_params = cs.pool_params
            /\ r.val.fut_pool_params = future /\ r.val.retiring = retiring
         \/ /\ r.val.pool_params = pools
            /\ r.val.fut_pool_params = cs.fut_pool_params /\ r.val.retiring = cs.retiring
  BY <1>1 DEF CertsOK
<1> HIDE DEF CertFields
<1>4. Pointed(r.val) /\ Apart(r.val)
  BY <1>3 DEF CertsOK, Pointed, Apart
<1>5. Delegated(r.val)
  BY <1>2, <1>3 DEF CertsOK, Delegated
<1> QED BY <1>3, <1>4, <1>5 DEF CertsOK

(* Only a pool that is there retires.                                      *)
LEMMA RetirementKeeps ==
  ASSUME NEW cs, CertsOK(cs), NEW pool, NEW e1, NEW e2, NEW e3, NEW r,
         r = ShelleyRules!check_pool_retirement(pool, e1, e2, e3, cs), r.err = "Ok"
  PROVE  CertsOK(r.val)
<1> USE DEF CertFields
<1> DEFINE retiring == ShelleyRules!With(cs.retiring, pool, e1)
<1>1. pool \in DOMAIN cs.pool_params /\ r.val = [cs EXCEPT !.retiring = retiring]
  BY DEF ShelleyRules!check_pool_retirement, ShelleyRules!Val, ShelleyRules!Fail
<1>2. DOMAIN retiring = DOMAIN cs.retiring \cup {pool}
  BY DEF ShelleyRules!With
<1> HIDE DEF retiring
<1>3. /\ DOMAIN r.val = CertFields /\ r.val.rewards = cs.rewards /\ r.val.ptrs = cs.ptrs
      /\ r.val.delegations = cs.delegations /\ r.val.pool_params = cs.pool_params
      /\ r.val.fut_pool_params = cs.fut_pool_params /\ r.val.retiring = retiring
      /\ r.val.gen_delegs = cs.gen_delegs /\ r.val.fut_gen_delegs = cs.fut_gen_delegs
  BY <1>1 DEF CertsOK
<1> HIDE DEF CertFields
<1>4. Pointed(r.val) /\ Apart(r.val)
  BY <1>3 DEF CertsOK, Pointed, Apart
<1>5. Delegated(r.val)
  BY <1>1, <1>2, <1>3 DEF CertsOK, Delegated
<1> QED BY <1>3, <1>4, <1>5 DEF CertsOK

(* A delegate is checked against those of all other genesis keys, now and  *)
(* later; the one it replaces is of the same key.                          *)
LEMMA GenesisKeeps ==
  ASSUME NEW cs, CertsOK(cs), NEW gkh, NEW dkh, NEW vrf, NEW at, NEW r,
         r = ShelleyRules!check_genesis_key_delegation(gkh, dkh, vrf, at, cs), r.err = "Ok"
  PROVE  CertsOK(r.val)
<1> USE DEF CertFields
<1> DEFINE key == <<at + ShelleyRules!StabilityWindow, gkh>>
<1> DEFINE future == ShelleyRules!With(cs.fut_gen_delegs, key, <<dkh, vrf>>)
<1> DEFINE others == {cs.gen_delegs[g] : g \in DOMAIN cs.gen_delegs \ {gkh}}
                  \cup {cs.fut_gen_delegs[k] : k \in {x \in DOMAIN cs.fut_gen_delegs : x[2] # gkh}}
<1>1. /\ \A d \in others : ~(d[1] = dkh \/ d[2] = vrf)
      /\ r.val = [cs EXCEPT !.fut_gen_delegs = future]
  BY DEF ShelleyRules!check_genesis_key_delegation, ShelleyRules!Val, ShelleyRules!Fail
<1>2. /\ \A g \in DOMAIN cs.gen_delegs : g # gkh => Differ(cs.gen_delegs[g], <<dkh, vrf>>)
      /\ \A k \in DOMAIN cs.fut_gen_delegs :
           k[2] # gkh => Differ(cs.fut_gen_delegs[k], <<dkh, vrf>>)
  BY <1>1 DEF Differ
<1>3. /\ DOMAIN future = DOMAIN cs.fut_gen_delegs \cup {key} /\ future[key] = <<dkh, vrf>>
      /\ \A k \in DOMAIN cs.fut_gen_delegs : k # key => future[k] = cs.fut_gen_delegs[k]
      /\ key[2] = gkh
  BY DEF ShelleyRules!With
<1> HIDE DEF future, key, others
<1>4. /\ DOMAIN r.val = CertFields /\ r.val.rewards = cs.rewards /\ r.val.ptrs = cs.ptrs
      /\ r.val.delegations = cs.delegations /\ r.val.pool_params = cs.pool_params
      /\ r.val.fut_pool_params = cs.fut_pool_params /\ r.val.retiring = cs.retiring
      /\ r.val.gen_delegs = cs.gen_delegs /\ r.val.fut_gen_delegs = future
  BY <1>1 DEF CertsOK
<1> HIDE DEF CertFields
<1>5. Pointed(r.val) /\ Delegated(r.val)
  BY <1>4 DEF CertsOK, Pointed, Delegated
<1>6. ASSUME NEW d, NEW e, Differ(d, e) PROVE Differ(e, d)
  BY <1>6 DEF Differ
<1>7. /\ \A g, h \in DOMAIN cs.gen_delegs : g # h => Differ(cs.gen_delegs[g], cs.gen_delegs[h])
      /\ \A g \in DOMAIN cs.gen_delegs, k \in DOMAIN cs.fut_gen_delegs :
           g # k[2] => Differ(cs.gen_delegs[g], cs.fut_gen_delegs[k])
      /\ \A k, l \in DOMAIN cs.fut_gen_delegs :
           k[2] # l[2] => Differ(cs.fut_gen_delegs[k], cs.fut_gen_delegs[l])
  BY DEF CertsOK, Apart
<1>8. \A g \in DOMAIN cs.gen_delegs, k \in DOMAIN future :
        g # k[2] => Differ(cs.gen_delegs[g], future[k])
  BY <1>2, <1>3, <1>7
<1>9. \A k, l \in DOMAIN future : k[2] # l[2] => Differ(future[k], future[l])
  <2> SUFFICES ASSUME NEW k \in DOMAIN future, NEW l \in DOMAIN future, k[2] # l[2]
               PROVE  Differ(future[k], future[l])
    OBVIOUS
  <2>1. CASE k = key
    BY <2>1, <1>2, <1>3, <1>6
  <2>2. CASE l = key
    BY <2>2, <1>2, <1>3
  <2>3. CASE k # key /\ l # key
    BY <2>3, <1>3, <1>7
  <2> QED BY <2>1, <2>2, <2>3
<1>10. Apart(r.val)
  BY <1>4, <1>7, <1>8, <1>9 DEF Apart
<1> QED BY <1>4, <1>5, <1>10 DEF CertsOK

(* Instantaneous rewards touch the two pots only.                          *)
LEMMA MirKeeps ==
  ASSUME NEW cs, CertsOK(cs), NEW mir, NEW at, NEW pots, NEW r,
         r = ShelleyRules!check_mir(mir, at, cs, pots), r.err = "Ok"
  PROVE  CertsOK(r.val)
<1> USE DEF CertFields
<1> DEFINE reserves == mir.source = "Reserves"
<1> DEFINE pot == IF reserves THEN cs.ir_reserves ELSE cs.ir_treasury
<1> DEFINE new == [k \in DOMAIN mir.target.is |-> ShelleyRules!as_u64(mir.target.is[k])]
<1> DEFINE combined == IF ShelleyRules!IsSome(mir.target) THEN ShelleyRules!Over(pot, new)
                       ELSE ShelleyRules!NoAssets
<1>1. \/ r.val = [cs EXCEPT !.ir_reserves = combined, !.ir_treasury = cs.ir_reserves]
      \/ r.val = [cs EXCEPT !.ir_reserves = cs.ir_treasury, !.ir_treasury = combined]
  BY DEF ShelleyRules!check_mir, ShelleyRules!Val, ShelleyRules!Fail
<1> HIDE DEF combined
<1>2. /\ DOMAIN r.val = CertFields /\ r.val.rewards = cs.rewards /\ r.val.ptrs = cs.ptrs
      /\ r.val.delegations = cs.delegations /\ r.val.pool_params = cs.pool_params
      /\ r.val.fut_pool_params = cs.fut_pool_params /\ r.val.retiring = cs.retiring
      /\ r.val.gen_delegs = cs.gen_delegs /\ r.val.fut_gen_delegs = cs.fut_gen_delegs
  BY <1>1 DEF CertsOK
<1> QED BY <1>2 DEF CertsOK, Pointed, Delegated, Apart

(* Every certificate that is accepted keeps the state.                     *)
LEMMA CertificateKeeps ==
  ASSUME NEW acc, acc.err = "Ok" => CertsOK(acc.state), "err" \in DOMAIN acc,
         NEW ix, NEW cert, cert.t \in CertKinds, NEW tx_ix, NEW env, NEW next,
         next = ShelleyRules!check_certificate(acc, ix, cert, tx_ix, env)
  PROVE  /\ "err" \in DOMAIN next
         /\ next.err = "Ok" => acc.err = "Ok" /\ CertsOK(next.state)
<1> DEFINE ds == acc.state
<1> DEFINE r == CASE cert.t = "StakeRegistration" ->
                       ShelleyRules!check_stake_registration(cert.stc, <<env.slot, tx_ix, acc.cert_ix>>, ds)
                  [] cert.t = "StakeDeregistration" ->
                       ShelleyRules!check_stake_deregistration(cert.stc, ds)
                  [] cert.t = "StakeDelegation" ->
                       ShelleyRules!check_stake_delegation(cert.stc, cert.pool, ds)
                  [] cert.t = "PoolRegistration" ->
                       ShelleyRules!check_pool_reg_or_update(cert.pool, cert.cost, env.pp.min_pool_cost, ds)
                  [] cert.t = "PoolRetirement" ->
                       ShelleyRules!check_pool_retirement(cert.pool, cert.epoch,
                                      ShelleyRules!to_epoch(env.slot), env.pp.maximum_epoch, ds)
                  [] cert.t = "GenesisKeyDelegation" ->
                       ShelleyRules!check_genesis_key_delegation(cert.gkh, cert.dkh, cert.vrf, env.slot, ds)
                  [] cert.t = "MIR" -> ShelleyRules!check_mir(cert, env.slot, ds, env.acnt.is)
<1>1. acc.err = "Ok" /\ r.err = "Ok" => CertsOK(r.val)
  BY RegistrationKeeps, DeregistrationKeeps, DelegationKeeps, PoolUpdateKeeps, RetirementKeeps,
     GenesisKeeps, MirKeeps DEF CertKinds
<1>2. \/ acc.err # "Ok" /\ next = acc
      \/ /\ acc.err = "Ok" /\ r.err # "Ok"
         /\ next = [acc EXCEPT !.err = r.err, !.state = IF "val" \in DOMAIN r THEN r.val ELSE ds]
      \/ /\ acc.err = "Ok" /\ r.err = "Ok"
         /\ "err" \in DOMAIN next /\ next.state = r.val
  BY DEF ShelleyRules!check_certificate
<1> HIDE DEF r
<1>3. CASE acc.err # "Ok" /\ next = acc
  BY <1>3
<1>4. CASE /\ acc.err = "Ok" /\ r.err # "Ok"
           /\ next = [acc EXCEPT !.err = r.err, !.state = IF "val" \in DOMAIN r THEN r.val ELSE ds]
  BY <1>4
<1>5. CASE /\ acc.err = "Ok" /\ r.err = "Ok" /\ "err" \in DOMAIN next /\ next.state = r.val
  BY <1>1, <1>5
<1> QED BY <1>2, <1>3, <1>4, <1>5

(* So do the certificates of a transaction, if all of them are accepted.   *)
LEMMA CertificatesKeep ==
  ASSUME NEW list, IsSeq(list), \A i \in DOMAIN list : list[i].t \in CertKinds,
         NEW tx_ix, NEW cs, CertsOK(cs), NEW env, NEW r,
         r = ShelleyRules!check_certificates(list, tx_ix, cs, env), r.err = "Ok"
  PROVE  CertsOK(r.state)
<1> DEFINE none == [err |-> "Ok", state |-> cs, cert_ix |-> 0, deposits |-> 0, refunds |-> 0,
                    pools |-> 0]
<1> DEFINE Step(acc, n) == ShelleyRules!check_certificate(acc, n - 1, list[n], tx_ix, env)
<1> DEFINE Def(f) == [n \in 0..Len(list) |-> IF n = 0 THEN none ELSE Step(f[n - 1], n)]
<1> DEFINE upto == CHOOSE f : f = Def(f)
<1>1. r = upto[Len(list)]
  BY DEF ShelleyRules!check_certificates
<1>2. Len(list) \in Nat /\ DOMAIN list = 1..Len(list)
  BY DEF IsSeq
<1>3. ASSUME NEW acc, NEW n \in 1..Len(list), "err" \in DOMAIN acc,
             acc.err = "Ok" => CertsOK(acc.state)
      PROVE  /\ "err" \in DOMAIN Step(acc, n)
             /\ Step(acc, n).err = "Ok" => acc.err = "Ok" /\ CertsOK(Step(acc, n).state)
  BY <1>2, <1>3, CertificateKeeps
<1>4. none.err = "Ok" /\ "err" \in DOMAIN none /\ none.state = cs
  OBVIOUS
<1> HIDE DEF Step, none
<1> DEFINE Runs(m, f) == f[0] = none /\ \A n \in 1..m : f[n] = Step(f[n - 1], n)
<1> HIDE DEF Runs
<1>5. \E f : DOMAIN f = 0..Len(list) /\ Runs(Len(list), f)
  <2> DEFINE Bad == {m \in 0..Len(list) : ~\E f : DOMAIN f = 0..m /\ Runs(m, f)}
  <2>1. SUFFICES Bad = {}
    BY <1>2
  <2>2. SUFFICES ASSUME Bad # {} PROVE FALSE
    OBVIOUS
  <2>3. PICK m \in Bad : \A k \in Bad : m <= k
    <3>1. Bad \subseteq Nat
      BY <1>2
    <3> HIDE DEF Bad
    <3> QED BY <2>2, <3>1, LeastOf
  <2>4. m # 0
    <3> DEFINE g == [n \in 0..0 |-> none]
    <3>1. DOMAIN g = 0..0 /\ Runs(0, g)
      BY DEF Runs
    <3> QED BY <3>1, <1>2
  <2>5. m \in 1..Len(list) /\ m - 1 \in 0..Len(list) /\ m - 1 \notin Bad
    BY <1>2, <2>3, <2>4
  <2>6. PICK f : DOMAIN f = 0..(m - 1) /\ Runs(m - 1, f)
    BY <2>5
  <2> DEFINE g == [n \in 0..m |-> IF n = m THEN Step(f[m - 1], m) ELSE f[n]]
  <2>7. ASSUME NEW n \in 1..m PROVE g[n] = Step(g[n - 1], n)
    <3>0. n \in Nat /\ n - 1 \in 0..m /\ n - 1 # m
      BY <2>5
    <3>1. CASE n = m
      BY <3>0, <3>1
    <3>2. CASE n # m
      <4>1. n \in 1..(m - 1) /\ g[n] = f[n] /\ g[n - 1] = f[n - 1]
        BY <2>5, <3>0, <3>2
      <4> QED BY <4>1, <2>6 DEF Runs
    <3> QED BY <3>1, <3>2
  <2>8. g[0] = none
    BY <2>5, <2>6 DEF Runs
  <2>9. DOMAIN g = 0..m /\ Runs(m, g)
    BY <2>7, <2>8 DEF Runs
  <2> HIDE DEF g
  <2> QED BY <2>3, <2>9
<1>6. PICK f : DOMAIN f = 0..Len(list) /\ Runs(Len(list), f)
  BY <1>5
<1>7. \E g : g = Def(g)
  <2> DEFINE g == [n \in 0..Len(list) |-> f[n]]
  <2>1. ASSUME NEW n \in 0..Len(list) PROVE g[n] = IF n = 0 THEN none ELSE Step(g[n - 1], n)
    <3>1. CASE n = 0
      BY <1>6, <3>1 DEF Runs
    <3>2. CASE n # 0
      <4>1. n \in 1..Len(list) /\ n - 1 \in 0..Len(list)
        BY <1>2, <3>2
      <4>2. g[n] = f[n] /\ g[n - 1] = f[n - 1]
        BY <4>1
      <4> QED BY <1>6, <3>2, <4>1, <4>2 DEF Runs
    <3> QED BY <3>1, <3>2
  <2>2. g = Def(g)
    BY <2>1
  <2> QED BY <2>2
<1>8. upto = Def(upto)
  BY <1>7
<1> HIDE DEF upto
<1>9. /\ upto[0] = none /\ \A n \in 1..Len(list) : upto[n] = Step(upto[n - 1], n)
  <2>1. 0 \in 0..Len(list) /\ \A n \in 1..Len(list) : n \in 0..Len(list) /\ n # 0
    BY <1>2
  <2> QED BY <1>8, <2>1
<1> DEFINE Odd == {m \in 0..Len(list) :
                     ~("err" \in DOMAIN upto[m] /\ (upto[m].err = "Ok" => CertsOK(upto[m].state)))}
<1>10. Odd = {}
  <2>1. SUFFICES ASSUME Odd # {} PROVE FALSE
    OBVIOUS
  <2>2. PICK m \in Odd : \A k \in Odd : m <= k
    <3>1. Odd \subseteq Nat
      BY <1>2
    <3> HIDE DEF Odd
    <3> QED BY <2>1, <3>1, LeastOf
  <2>3. m # 0
    BY <1>4, <1>9
  <2>4. m \in 1..Len(list) /\ m - 1 \in 0..Len(list) /\ m - 1 \notin Odd
    BY <1>2, <2>2, <2>3
  <2>5. "err" \in DOMAIN upto[m - 1] /\ (upto[m - 1].err = "Ok" => CertsOK(upto[m - 1].state))
    BY <2>4
  <2>6. upto[m] = Step(upto[m - 1], m)
    BY <1>9, <2>4
  <2> QED BY <1>3, <2>2, <2>4, <2>5, <2>6
<1> QED BY <1>1, <1>2, <1>10

-----------------------------------------------------------------------------
(* Transactions and blocks.                                                *)

(* A transaction that is accepted keeps the certificate state: only the    *)
(* Shelley rules change it, and the certificates come first.               *)
LEMMA TxKeeps ==
  ASSUME NEW tx, MultiEraTx(tx), NEW ix, NEW pera, NEW pots, NEW outs, NEW cs, CertsOK(cs), NEW r,
         r = validate_tx(tx, ix, pera, pots, outs, cs), r.err = "Ok"
  PROVE  CertsOK(r.certs)
<1> DEFINE env == [slot |-> slot, net |-> Env.net, pp |-> Params[pera], acnt |-> pots]
<1> DEFINE v == ShelleyRules!validate_shelley_ma_tx(tx, ix, outs, cs, env)
<1>1. r.certs = cs \/ (r = v /\ tx.era \in {"Shelley", "Allegra", "Mary"})
  BY DEF validate_tx
<1>2. CASE r = v /\ tx.era \in {"Shelley", "Allegra", "Mary"}
  <2> DEFINE c == ShelleyRules!check_certificates(tx.certs, ix, cs, env)
  <2> HIDE DEF env
  <2>1. v.certs = cs \/ (c.err = "Ok" /\ v.certs = c.state)
    <3>1. v.err = "Ok"
      <4> HIDE DEF v
      <4> QED BY <1>2
    <3> QED BY <3>1 DEF ShelleyRules!validate_shelley_ma_tx, ShelleyRules!&&
  <2>2. c.err = "Ok" => CertsOK(c.state)
    <3>1. IsSeq(tx.certs) /\ \A i \in DOMAIN tx.certs : tx.certs[i].t \in CertKinds
      BY <1>2 DEF MultiEraTx
    <3> QED BY <3>1, CertificatesKeep
  <2> HIDE DEF v, c
  <2> QED BY <1>2, <2>1, <2>2
<1> QED BY <1>1, <1>2

(* A block that is refused leaves the certificate state; of one that is    *)
(* accepted, every transaction was, in some state of its predecessors.     *)
LEMMA BlockVerdict ==
  ASSUME NEW txs, IsSeq(txs), \A i \in DOMAIN txs : MultiEraTx(txs[i]),
         NEW pera, NEW pots, NEW outs, NEW cs, CertsOK(cs), NEW r,
         r = validate_txs(txs, pera, pots, outs, cs)
  PROVE  /\ CertsOK(r.certs)
         /\ r.err = "Ok" =>
              \A i \in DOMAIN txs : \E c :
                CertsOK(c) /\ validate_tx(txs[i], i - 1, pera, pots, outs, c).err = "Ok"
<1> DEFINE none == [err |-> "Ok", certs |-> cs]
<1> DEFINE Verdict(acc, n) == validate_tx(txs[n], n - 1, pera, pots, outs, acc.certs)
<1> DEFINE Step(acc, n) == IF acc.err # "Ok" THEN acc ELSE Verdict(acc, n)
<1> DEFINE Def(f) == [n \in 0..Len(txs) |->
                        IF n = 0 THEN none
                        ELSE IF f[n - 1].err # "Ok" THEN f[n - 1]
                        ELSE validate_tx(txs[n], n - 1, pera, pots, outs, f[n - 1].certs)]
<1> DEFINE upto == CHOOSE f : f = Def(f)
<1> DEFINE delta == upto[Len(txs)]
<1>1. r = IF delta.err = "Ok" THEN delta ELSE [err |-> delta.err, certs |-> cs]
  BY DEF validate_txs
<1>2. Len(txs) \in Nat /\ DOMAIN txs = 1..Len(txs)
  BY DEF IsSeq
<1>3. ASSUME NEW acc, NEW n \in 1..Len(txs), acc.err = "Ok" => CertsOK(acc.certs)
      PROVE  Step(acc, n).err = "Ok" =>
               acc.err = "Ok" /\ Verdict(acc, n).err = "Ok" /\ CertsOK(Step(acc, n).certs)
  BY <1>2, <1>3, TxKeeps
<1>4. none.err = "Ok" /\ none.certs = cs
  OBVIOUS
<1>5. \A f : Def(f) = [n \in 0..Len(txs) |-> IF n = 0 THEN none ELSE Step(f[n - 1], n)]
  OBVIOUS
<1> HIDE DEF Step, Verdict, none
<1> DEFINE Runs(m, f) == f[0] = none /\ \A n \in 1..m : f[n] = Step(f[n - 1], n)
<1> HIDE DEF Runs
<1>6. PICK f : DOMAIN f = 0..Len(txs) /\ Runs(Len(txs), f)
  <2> DEFINE Bad == {m \in 0..Len(txs) : ~\E f : DOMAIN f = 0..m /\ Runs(m, f)}
  <2>1. SUFFICES Bad = {}
    BY <1>2
  <2>2. SUFFICES ASSUME Bad # {} PROVE FALSE
    OBVIOUS
  <2>3. PICK m \in Bad : \A k \in Bad : m <= k
    <3>1. Bad \subseteq Nat
      BY <1>2
    <3> HIDE DEF Bad
    <3> QED BY <2>2, <3>1, LeastOf
  <2>4. m # 0
    <3> DEFINE g == [n \in 0..0 |-> none]
    <3>1. DOMAIN g = 0..0 /\ Runs(0, g)
      BY DEF Runs
    <3> QED BY <3>1, <1>2
  <2>5. m \in 1..Len(txs) /\ m - 1 \in 0..Len(txs) /\ m - 1 \notin Bad
    BY <1>2, <2>3, <2>4
  <2>6. PICK f : DOMAIN f = 0..(m - 1) /\ Runs(m - 1, f)
    BY <2>5
  <2> DEFINE g == [n \in 0..m |-> IF n = m THEN Step(f[m - 1], m) ELSE f[n]]
  <2>7. ASSUME NEW n \in 1..m PROVE g[n] = Step(g[n - 1], n)
    <3>0. n \in Nat /\ n - 1 \in 0..m /\ n - 1 # m
      BY <2>5
    <3>1. CASE n = m
      BY <3>0, <3>1
    <3>2. CASE n # m
      <4>1. n \in 1..(m - 1) /\ g[n] = f[n] /\ g[n - 1] = f[n - 1]
        BY <2>5, <3>0, <3>2
      <4> QED BY <4>1, <2>6 DEF Runs
    <3> QED BY <3>1, <3>2
  <2>8. g[0] = none
    BY <2>5, <2>6 DEF Runs
  <2>9. DOMAIN g = 0..m /\ Runs(m, g)
    BY <2>7, <2>8 DEF Runs
  <2> HIDE DEF g
  <2> QED BY <2>3, <2>9
<1>7. \E g : g = Def(g)
  <2> DEFINE g == [n \in 0..Len(txs) |-> f[n]]
  <2>1. ASSUME NEW n \in 0..Len(txs) PROVE g[n] = IF n = 0 THEN none ELSE Step(g[n - 1], n)
    <3>1. CASE n = 0
      BY <1>6, <3>1 DEF Runs
    <3>2. CASE n # 0
      <4>1. n \in 1..Len(txs) /\ n - 1 \in 0..Len(txs)
        BY <1>2, <3>2
      <4>2. g[n] = f[n] /\ g[n - 1] = f[n - 1]
        BY <4>1
      <4> QED BY <1>6, <3>2, <4>1, <4>2 DEF Runs
    <3> QED BY <3>1, <3>2
  <2>2. g = [n \in 0..Len(txs) |-> IF n = 0 THEN none ELSE Step(g[n - 1], n)]
    BY <2>1
  <2> HIDE DEF g, Def
  <2> QED BY <1>5, <2>2
<1>8. upto = Def(upto)
  <2> HIDE DEF Def
  <2> QED BY <1>7
<1> HIDE DEF upto, Def
<1>9. /\ upto[0] = none /\ \A n \in 1..Len(txs) : upto[n] = Step(upto[n - 1], n)
  <2>1. 0 \in 0..Len(txs) /\ \A n \in 1..Len(txs) : n \in 0..Len(txs) /\ n # 0
    BY <1>2
  <2>2. upto = [n \in 0..Len(txs) |-> IF n = 0 THEN none ELSE Step(upto[n - 1], n)]
    BY <1>5, <1>8
  <2> QED BY <2>1, <2>2
<1> DEFINE Sound(m) == /\ CertsOK(upto[m].certs)
                       /\ \A i \in 1..m : \E c :
                            CertsOK(c) /\ validate_tx(txs[i], i - 1, pera, pots, outs, c).err = "Ok"
<1> DEFINE Odd == {m \in 0..Len(txs) : ~(upto[m].err = "Ok" => Sound(m))}
<1>10. Odd = {}
  <2>1. SUFFICES ASSUME Odd # {} PROVE FALSE
    OBVIOUS
  <2>2. PICK m \in Odd : \A k \in Odd : m <= k
    <3>1. Odd \subseteq Nat
      BY <1>2
    <3> HIDE DEF Odd
    <3> QED BY <2>1, <3>1, LeastOf
  <2>3. m # 0
    BY <1>4, <1>9
  <2>4. m \in 1..Len(txs) /\ m - 1 \in 0..Len(txs) /\ m - 1 \notin Odd
    BY <1>2, <2>2, <2>3
  <2>5. upto[m - 1].err = "Ok" => Sound(m - 1)
    BY <2>4
  <2>6. upto[m] = Step(upto[m - 1], m) /\ upto[m].err = "Ok"
    BY <1>9, <2>2, <2>4
  <2>7. /\ upto[m - 1].err = "Ok" /\ Verdict(upto[m - 1], m).err = "Ok"
        /\ CertsOK(upto[m].certs) /\ CertsOK(upto[m - 1].certs)
    BY <1>3, <2>4, <2>5, <2>6
  <2>8. ASSUME NEW i \in 1..m
        PROVE  \E c : CertsOK(c) /\ validate_tx(txs[i], i - 1, pera, pots, outs, c).err = "Ok"
    <3>1. CASE i = m
      BY <2>7, <3>1 DEF Verdict
    <3>2. CASE i # m
      <4>1. i \in 1..(m - 1)
        BY <2>4, <3>2
      <4> QED BY <2>5, <2>7, <4>1
    <3> QED BY <3>1, <3>2
  <2> QED BY <2>2, <2>7, <2>8
<1>11. delta.err = "Ok" => Sound(Len(txs))
  BY <1>2, <1>10
<1> HIDE DEF delta
<1> QED BY <1>1, <1>2, <1>11 DEF delta

-----------------------------------------------------------------------------
(* Chains of blocks.                                                       *)

(* The inductive invariant: the transactions of the block are some a       *)
(* client composed, and the certificate state is in order.                 *)
LedgerInv ==
  /\ era \in DOMAIN Eras
  /\ IsSeq(block) /\ \A i \in DOMAIN block : MultiEraTx(block[i])
  /\ CertsOK(certs)

(* Nothing is registered at first.                                         *)
LEMMA LedgerInit ==
  ASSUME Init
  PROVE  LedgerInv
<1> DEFINE none == ShelleyRules!EmptyCertState
<1>1. /\ certs = [none EXCEPT !.gen_delegs = GenDelegs] /\ block = <<>> /\ era \in DOMAIN Eras
  BY DEF Init
<1>2. /\ DOMAIN none = CertFields
      /\ \A x \in CertFields : DOMAIN none[x] = {}
  BY DEF ShelleyRules!EmptyCertState, ShelleyRules!NoAssets, CertFields
<1> HIDE DEF none
<1>3. /\ DOMAIN certs = CertFields /\ certs.gen_delegs = GenDelegs
      /\ DOMAIN certs.rewards = {} /\ DOMAIN certs.delegations = {} /\ DOMAIN certs.ptrs = {}
      /\ DOMAIN certs.fut_gen_delegs = {} /\ DOMAIN certs.pool_params = {}
      /\ DOMAIN certs.fut_pool_params = {} /\ DOMAIN certs.retiring = {}
  BY <1>1, <1>2 DEF CertFields
<1>4. Pointed(certs) /\ Delegated(certs)
  BY <1>3, FS_EmptySet DEF Pointed, Delegated
<1>5. Apart(certs)
  BY <1>3, GenDelegsAssumption DEF Apart, Differ
<1>6. IsSeq(block) /\ DOMAIN block = {}
  BY <1>1, NothingSeq
<1> QED BY <1>1, <1>3, <1>4, <1>5, <1>6 DEF LedgerInv, CertsOK

(* A block of sound transactions that is extended with one.                *)
LEMMA AppendFormed ==
  ASSUME NEW txs, IsSeq(txs), \A i \in DOMAIN txs : MultiEraTx(txs[i]), NEW tx, MultiEraTx(tx)
  PROVE  IsSeq(Append(txs, tx)) /\ \A i \in DOMAIN Append(txs, tx) : MultiEraTx(Append(txs, tx)[i])
<1>1. PICK S : txs \in Seq(S)
  BY DEF IsSeq
<1>2. txs \in Seq(S \cup {tx}) /\ tx \in S \cup {tx}
  BY <1>1
<1>3. /\ Append(txs, tx) \in Seq(S \cup {tx}) /\ Len(txs) \in Nat /\ DOMAIN txs = 1..Len(txs)
      /\ DOMAIN Append(txs, tx) = 1..(Len(txs) + 1) /\ Append(txs, tx)[Len(txs) + 1] = tx
      /\ \A i \in 1..Len(txs) : Append(txs, tx)[i] = txs[i]
  BY <1>2, AppendProperties
<1>4. \A i \in 1..(Len(txs) + 1) : i = Len(txs) + 1 \/ i \in 1..Len(txs)
  BY <1>3
<1> QED BY <1>3, <1>4, SeqOfElems

(* Clients add transactions, and blocks keep the certificate state.        *)
LEMMA LedgerStep ==
  ASSUME LedgerInv, [Next]_vars
  PROVE  LedgerInv'
<1>1. CASE HardFork
  <2>1. era' \in DOMAIN Eras
    <3>1. era \in Nat /\ era + 1 \in 1..Len(Eras) /\ DOMAIN Eras = 1..Len(Eras)
      BY <1>1, LedgerAssumption DEF HardFork, LedgerInv
    <3> QED BY <1>1, <3>1 DEF HardFork
  <2> QED BY <1>1, <2>1 DEF HardFork, LedgerInv
<1>2. CASE Compose
  <2>1. PICK tx : MultiEraTx(tx) /\ block' = Append(block, tx)
    BY <1>2 DEF Compose
  <2>3. IsSeq(block') /\ \A i \in DOMAIN block' : MultiEraTx(block'[i])
    BY <2>1, AppendFormed DEF LedgerInv
  <2> QED BY <1>2, <2>3 DEF Compose, LedgerInv
<1>3. CASE Edit
  <2>1. PICK tx : MultiEraTx(tx) /\ block' = Append(Front(block), tx)
    BY <1>3 DEF Edit
  <2>2. PICK S : block \in Seq(S)
    BY DEF LedgerInv, IsSeq
  <2>3. Len(block) \in DOMAIN block
    BY <1>3, <2>2 DEF Edit
  <2>5. /\ Front(block) \in Seq(S)
        /\ \A i \in DOMAIN Front(block) : i \in DOMAIN block /\ Front(block)[i] = block[i]
    BY <2>2, <2>3 DEF Front
  <2>6. IsSeq(Front(block)) /\ \A i \in DOMAIN Front(block) : MultiEraTx(Front(block)[i])
    BY <2>5, SeqOfElems DEF LedgerInv
  <2>7. IsSeq(block') /\ \A i \in DOMAIN block' : MultiEraTx(block'[i])
    BY <2>1, <2>6, AppendFormed
  <2> QED BY <1>3, <2>7 DEF Edit, LedgerInv
<1>4. CASE ValidateTxs
  <2>1. certs' = validate_txs(block, Eras[era], acnt, utxos, certs).certs /\ block' = <<>>
        /\ UNCHANGED era
    BY <1>4 DEF ValidateTxs
  <2>2. CertsOK(certs')
    BY <2>1, BlockVerdict DEF LedgerInv
  <2>3. IsSeq(block') /\ DOMAIN block' = {}
    BY <2>1, NothingSeq
  <2> QED BY <2>1, <2>2, <2>3 DEF LedgerInv
<1>5. CASE UNCHANGED vars
  BY <1>5 DEF vars, LedgerInv
<1> QED BY <1>1, <1>2, <1>3, <1>4, <1>5 DEF Next

(* The certificate state in order is the one the property asks for.        *)
LEMMA CertsConsistent ==
  ASSUME LedgerInv
  PROVE  StakeConsistent
<1>1. Pointed(certs) /\ Delegated(certs) /\ Apart(certs)
  BY DEF LedgerInv, CertsOK
<1>2. {certs.ptrs[p] : p \in DOMAIN certs.ptrs} = DOMAIN certs.rewards
  BY <1>1 DEF Pointed
<1>3. Cardinality(DOMAIN certs.ptrs) = Cardinality(DOMAIN certs.rewards)
  <2> DEFINE f == [p \in DOMAIN certs.ptrs |-> certs.ptrs[p]]
  <2>1. /\ f \in Injection(DOMAIN certs.ptrs, DOMAIN certs.rewards)
        /\ f \in Surjection(DOMAIN certs.ptrs, DOMAIN certs.rewards)
    BY <1>1 DEF Pointed, Injection, Surjection, IsInjective
  <2>2. IsFiniteSet(DOMAIN certs.rewards)
    BY <1>1 DEF Pointed
  <2> HIDE DEF f
  <2> QED BY <2>1, <2>2, FS_Injection
<1> DEFINE now == {<<g, certs.gen_delegs[g]>> : g \in DOMAIN certs.gen_delegs}
<1> DEFINE later == {<<k[2], certs.fut_gen_delegs[k]>> : k \in DOMAIN certs.fut_gen_delegs}
<1>4. \A a, b \in now \cup later : a[1] # b[1] => a[2][1] # b[2][1] /\ a[2][2] # b[2][2]
  <2> SUFFICES ASSUME NEW a \in now \cup later, NEW b \in now \cup later, a[1] # b[1]
               PROVE  Differ(a[2], b[2])
    BY DEF Differ
  <2>1. CASE a \in now /\ b \in now
    BY <1>1, <2>1 DEF Apart
  <2>2. CASE a \in now /\ b \in later
    BY <1>1, <2>2 DEF Apart
  <2>3. CASE a \in later /\ b \in now
    BY <1>1, <2>3 DEF Apart, Differ
  <2>4. CASE a \in later /\ b \in later
    BY <1>1, <2>4 DEF Apart
  <2> QED BY <2>1, <2>2, <2>3, <2>4
<1> QED BY <1>1, <1>2, <1>3, <1>4 DEF StakeConsistent, Delegated

(* Through every chain of blocks, whatever certificates their transactions *)
(* carry and wherever they fail: a registered credential has one pointer,  *)
(* delegations are of registered credentials to registered pools, only     *)
(* such pools retire, and no delegate serves two genesis keys.             *)
THEOREM LedgerStakeConsistent ==
  Spec => []StakeConsistent
<1> QED BY LedgerInit, LedgerStep, CertsConsistent, PTL DEF Spec

-----------------------------------------------------------------------------
(* Owners.  The five rule sets share the helpers of LedgerTypes.           *)

(* A loop of checks that ends well passed every element.                   *)
LEMMA AllOk ==
  ASSUME NEW results, DOMAIN results \subseteq Nat, FirstError(results) = "Ok"
  PROVE  \A i \in DOMAIN results : results[i] = "Ok"
<1> DEFINE bad == {i \in DOMAIN results : results[i] # "Ok"}
<1>1. SUFFICES ASSUME bad # {} PROVE FALSE
  OBVIOUS
<1>2. PICK m \in bad : \A k \in bad : m <= k
  <2>1. bad \subseteq Nat
    OBVIOUS
  <2> HIDE DEF bad
  <2> QED BY <1>1, <2>1, LeastOf
<1>3. Min(bad) \in bad
  <2> HIDE DEF bad
  <2> QED BY <1>2 DEF Min
<1>4. FirstError(results) = results[Min(bad)]
  BY <1>1 DEF FirstError
<1> QED BY <1>3, <1>4

(* The witness that stands for a key names it and is signed.               *)
LEMMA Witnessed ==
  ASSUME NEW key, NEW wits, DOMAIN wits \subseteq Nat, NEW missing, NEW wrong,
         missing # "Ok", wrong # "Ok", KeyWitness(key, wits, missing, wrong) = "Ok"
  PROVE  \E i \in DOMAIN wits : wits[i].vkey = key /\ wits[i].valid
<1> DEFINE fit == {i \in DOMAIN wits : wits[i].vkey = key}
<1>1. fit # {} /\ KeyWitness(key, wits, missing, wrong) = Ensure(wits[Min(fit)].valid, wrong)
  BY DEF KeyWitness, verify_signature
<1>2. PICK m \in fit : \A k \in fit : m <= k
  <2>1. fit \subseteq Nat
    OBVIOUS
  <2> HIDE DEF fit
  <2> QED BY <1>1, <2>1, LeastOf
<1>3. Min(fit) \in fit
  <2> HIDE DEF fit
  <2> QED BY <1>2 DEF Min
<1>4. wits[Min(fit)].valid
  <2> HIDE DEF fit
  <2> QED BY <1>1 DEF Ensure
<1> HIDE DEF fit
<1> QED BY <1>3, <1>4 DEF fit

(* The helpers under the names of the rule sets.                           *)
LEMMA SharedErrors ==
  ASSUME NEW results
  PROVE  /\ ByronRules!FirstError(results) = FirstError(results)
         /\ ShelleyRules!FirstError(results) = FirstError(results)
         /\ AlonzoRules!FirstError(results) = FirstError(results)
         /\ BabbageRules!FirstError(results) = FirstError(results)
         /\ ConwayRules!FirstError(results) = FirstError(results)
  BY DEF FirstError, ByronRules!FirstError, ShelleyRules!FirstError, AlonzoRules!FirstError,
         BabbageRules!FirstError, ConwayRules!FirstError,
         Min, ByronRules!Min, ShelleyRules!Min, AlonzoRules!Min, BabbageRules!Min, ConwayRules!Min

(* The search for the witness of a key, under the same names.              *)
LEMMA SharedWitness ==
  ASSUME NEW key, NEW wits, NEW missing, NEW wrong
  PROVE  /\ ShelleyRules!KeyWitness(key, wits, missing, wrong) = KeyWitness(key, wits, missing, wrong)
         /\ AlonzoRules!KeyWitness(key, wits, missing, wrong) = KeyWitness(key, wits, missing, wrong)
         /\ BabbageRules!KeyWitness(key, wits, missing, wrong) = KeyWitness(key, wits, missing, wrong)
         /\ ConwayRules!KeyWitness(key, wits, missing, wrong) = KeyWitness(key, wits, missing, wrong)
<1> USE DEF Min, KeyWitness, Ensure, verify_signature
<1>1. ShelleyRules!KeyWitness(key, wits, missing, wrong) = KeyWitness(key, wits, missing, wrong)
  BY DEF ShelleyRules!KeyWitness, ShelleyRules!Min, ShelleyRules!Ensure, ShelleyRules!verify_signature
<1>2. AlonzoRules!KeyWitness(key, wits, missing, wrong) = KeyWitness(key, wits, missing, wrong)
  BY DEF AlonzoRules!KeyWitness, AlonzoRules!Min, AlonzoRules!Ensure, AlonzoRules!verify_signature
<1>3. BabbageRules!KeyWitness(key, wits, missing, wrong) = KeyWitness(key, wits, missing, wrong)
  BY DEF BabbageRules!KeyWitness, BabbageRules!Min, BabbageRules!Ensure, BabbageRules!verify_signature
<1>4. ConwayRules!KeyWitness(key, wits, missing, wrong) = KeyWitness(key, wits, missing, wrong)
  BY DEF ConwayRules!KeyWitness, ConwayRules!Min, ConwayRules!Ensure, ConwayRules!verify_signature
<1> QED BY <1>1, <1>2, <1>3, <1>4

(* The scripts that come with a transaction.                               *)
Scripts(tx) == Elems(tx.native) \cup Elems(tx.v1) \cup Elems(tx.v2) \cup Elems(tx.v3)

(* The output is of a key that signed, or of a script that is there.       *)
Owned(tx, outs, i) ==
  IF outs[i].addr.kind = "Script"
  THEN \/ outs[i].addr.id \in Scripts(tx)
       \/ /\ tx.era \in {"Babbage", "Conway"}
          /\ \E r \in Elems(tx.refs) : /\ r \in DOMAIN outs /\ IsSome(outs[r].script_ref)
                                       /\ outs[r].script_ref.is.id = outs[i].addr.id
  ELSE \E w \in Elems(tx.vkeys) \cup Elems(tx.wits) : w.vkey = outs[i].addr.id /\ w.valid

(* The positions of a sequence are numbers.                                *)
LEMMA SeqDomain ==
  ASSUME NEW s, IsSeq(s)
  PROVE  DOMAIN s \subseteq Nat
<1>1. PICK S : s \in Seq(S)
  BY DEF IsSeq
<1> QED BY <1>1

(* The elements of a concatenation.                                        *)
LEMMA ElemsConcat ==
  ASSUME NEW s, IsSeq(s), NEW t, IsSeq(t)
  PROVE  IsSeq(s \o t) /\ Elems(s \o t) = Elems(s) \cup Elems(t)
<1>1. PICK S, T : s \in Seq(S) /\ t \in Seq(T)
  BY DEF IsSeq
<1>2. s \in Seq(S \cup T) /\ t \in Seq(S \cup T)
  BY <1>1
<1>3. /\ s \o t \in Seq(S \cup T) /\ Len(s) \in Nat /\ Len(t) \in Nat
      /\ DOMAIN (s \o t) = 1..(Len(s) + Len(t))
      /\ DOMAIN s = 1..Len(s) /\ DOMAIN t = 1..Len(t)
      /\ \A i \in 1..Len(s) : (s \o t)[i] = s[i]
      /\ \A i \in 1..Len(t) : (s \o t)[Len(s) + i] = t[i]
  <2>1. \A i \in 1..(Len(s) + Len(t)) : (s \o t)[i] = IF i <= Len(s) THEN s[i] ELSE t[i - Len(s)]
    BY <1>2, ConcatProperties
  <2> QED BY <1>2, <2>1, ConcatProperties
<1>4. Elems(s \o t) \subseteq Elems(s) \cup Elems(t)
  <2> SUFFICES ASSUME NEW i \in 1..(Len(s) + Len(t))
               PROVE  (s \o t)[i] \in Elems(s) \cup Elems(t)
    BY <1>3 DEF Elems
  <2>1. CASE i \in 1..Len(s)
    BY <1>3, <2>1 DEF Elems
  <2>2. CASE i \notin 1..Len(s)
    <3>1. i - Len(s) \in 1..Len(t) /\ i = Len(s) + (i - Len(s))
      BY <1>3, <2>2
    <3> QED BY <1>3, <3>1 DEF Elems
  <2> QED BY <2>1, <2>2
<1>5. Elems(s) \subseteq Elems(s \o t) /\ Elems(t) \subseteq Elems(s \o t)
  <2>1. ASSUME NEW i \in 1..Len(s) PROVE s[i] \in Elems(s \o t)
    <3>1. i \in 1..(Len(s) + Len(t))
      BY <1>3
    <3> QED BY <1>3, <3>1 DEF Elems
  <2>2. ASSUME NEW i \in 1..Len(t) PROVE t[i] \in Elems(s \o t)
    <3>1. Len(s) + i \in 1..(Len(s) + Len(t))
      BY <1>3
    <3> QED BY <1>3, <3>1 DEF Elems
  <2> QED BY <1>3, <2>1, <2>2 DEF Elems
<1> QED BY <1>3, <1>4, <1>5, SeqOfElems

(* What a transaction consumes is among its inputs, or its collateral.     *)
LEMMA Consumed ==
  ASSUME NEW tx, NEW i \in consumes(tx)
  PROVE  \/ is_valid(tx) /\ i \in Elems(tx.ins)
         \/ ~is_valid(tx) /\ tx.era # "Byron" /\ i \in Elems(tx.coll)
  BY DEF consumes, inputs, collateral, Elems, is_valid

(* The rules look at the collateral of a failed transaction, too.          *)
Heeded(tx) == is_valid(tx) \/ tx.era \in {"Alonzo", "Babbage", "Conway"}

(* What the rules of an era establish about an accepted transaction.       *)
OwnerAsked(tx, outs) ==
  \A i \in consumes(tx) :
    Heeded(tx) => i \in DOMAIN outs /\ (Asked(tx, outs[i]) => Owned(tx, outs, i))

(* An accepted Alonzo transaction spends what its owners let go: input and *)
(* collateral are known, a key has its witness, a script comes along, and  *)
(* with a Plutus script no collateral is locked by a script.               *)
LEMMA AlonzoOwner ==
  ASSUME NEW tx, MultiEraTx(tx), tx.era = "Alonzo", NEW outs, NEW pp, NEW at, NEW net,
         AlonzoRules!validate_alonzo_tx(tx, outs, pp, at, net) = "Ok"
  PROVE  OwnerAsked(tx, outs)
<1>1. /\ AlonzoRules!check_ins_and_collateral_in_utxos(tx, outs) = "Ok"
      /\ AlonzoRules!check_fee(tx, outs, pp) = "Ok"
      /\ AlonzoRules!check_script_inputs(tx, outs) = "Ok"
      /\ AlonzoRules!check_vkey_input_wits(tx, outs) = "Ok"
  <2>1. /\ AlonzoRules!check_ins_and_collateral_in_utxos(tx, outs) = "Ok"
        /\ AlonzoRules!check_fee(tx, outs, pp) = "Ok"
        /\ AlonzoRules!check_witness_set(tx, outs) = "Ok"
    BY DEF AlonzoRules!validate_alonzo_tx, AlonzoRules!&&
  <2>2. /\ AlonzoRules!check_needed_scripts_are_included(tx, outs) = "Ok"
        /\ AlonzoRules!check_vkey_input_wits(tx, outs) = "Ok"
    BY <2>1 DEF AlonzoRules!check_witness_set, AlonzoRules!&&
  <2> QED BY <2>1, <2>2 DEF AlonzoRules!check_needed_scripts_are_included, AlonzoRules!&&
<1>2. /\ DOMAIN tx.ins \subseteq Nat /\ DOMAIN tx.coll \subseteq Nat
      /\ DOMAIN (tx.ins \o tx.coll) \subseteq Nat /\ DOMAIN tx.vkeys \subseteq Nat
      /\ Elems(tx.ins \o tx.coll) = Elems(tx.ins) \cup Elems(tx.coll)
  BY SeqDomain, ElemsConcat DEF MultiEraTx
<1>3. /\ \A j \in DOMAIN tx.ins : tx.ins[j] \in DOMAIN outs
      /\ \A j \in DOMAIN tx.coll : tx.coll[j] \in DOMAIN outs
  <2> DEFINE a == [j \in DOMAIN tx.ins |->
                     AlonzoRules!Ensure(tx.ins[j] \in DOMAIN outs, "InputNotInUTxO")]
  <2> DEFINE b == [j \in DOMAIN tx.coll |->
                     AlonzoRules!Ensure(tx.coll[j] \in DOMAIN outs, "CollateralNotInUTxO")]
  <2>1. AlonzoRules!FirstError(a) = "Ok" /\ AlonzoRules!FirstError(b) = "Ok"
    BY <1>1 DEF AlonzoRules!check_ins_and_collateral_in_utxos, AlonzoRules!EachOk, AlonzoRules!&&
  <2>2. (\A j \in DOMAIN a : a[j] = "Ok") /\ (\A j \in DOMAIN b : b[j] = "Ok")
    <3>1. DOMAIN a \subseteq Nat /\ DOMAIN b \subseteq Nat
      BY <1>2
    <3> HIDE DEF a, b
    <3> QED BY <2>1, <3>1, AllOk, SharedErrors
  <2> QED BY <2>2 DEF AlonzoRules!Ensure
<1>4. ASSUME NEW j \in Elems(tx.ins) \cup Elems(tx.coll), outs[j].era = "Alonzo"
      PROVE  \/ outs[j].addr.kind = "Script"
             \/ \E w \in Elems(tx.vkeys) : w.vkey = outs[j].addr.id /\ w.valid
  <2> DEFINE Input(k) ==
        CASE outs[k].era # "Alonzo" -> "Ok"
          [] outs[k].addr.kind = "Key" -> AlonzoRules!check_vk_wit(outs[k].addr.id, tx.vkeys)
          [] outs[k].addr.kind = "Script" -> "Ok"
          [] OTHER -> "InputDecoding"
  <2> DEFINE a == [n \in DOMAIN (tx.ins \o tx.coll) |-> Input((tx.ins \o tx.coll)[n])]
  <2>1. AlonzoRules!FirstError(a) = "Ok"
    BY <1>1 DEF AlonzoRules!check_vkey_input_wits, AlonzoRules!EachOk, AlonzoRules!&&
  <2>2. \A n \in DOMAIN a : a[n] = "Ok"
    <3>1. DOMAIN a \subseteq Nat
      BY <1>2
    <3> HIDE DEF a
    <3> QED BY <2>1, <3>1, AllOk, SharedErrors
  <2>3. PICK n \in DOMAIN (tx.ins \o tx.coll) : (tx.ins \o tx.coll)[n] = j
    BY <1>2 DEF Elems
  <2>4. Input(j) = "Ok"
    BY <2>2, <2>3
  <2>5. CASE outs[j].addr.kind = "Key"
    <3>1. KeyWitness(outs[j].addr.id, tx.vkeys, "VKWitnessMissing", "VKWrongSignature") = "Ok"
      BY <1>4, <2>4, <2>5, SharedWitness DEF AlonzoRules!check_vk_wit
    <3> QED BY <1>2, <3>1, Witnessed DEF Elems
  <2> QED BY <1>4, <2>4, <2>5
<1>5. ASSUME NEW j \in Elems(tx.ins), outs[j].era = "Alonzo", outs[j].addr.kind = "Script"
      PROVE  outs[j].addr.id \in Scripts(tx)
  <2>1. j \in DOMAIN outs
    BY <1>3 DEF Elems
  <2>2. AlonzoRules!get_script_hash_from_input(j, outs) = AlonzoRules!Some(outs[j].addr.id)
    BY <1>5, <2>1 DEF AlonzoRules!get_script_hash_from_input, AlonzoRules!ScriptOf
  <2>3. outs[j].addr.id \in AlonzoRules!get_script_hashes(tx, outs)
    BY <2>2 DEF AlonzoRules!get_script_hashes, AlonzoRules!Some, AlonzoRules!IsSome,
                AlonzoRules!Elems, Elems
  <2> QED BY <1>1, <2>3 DEF AlonzoRules!check_script_inputs, AlonzoRules!Ensure, AlonzoRules!Elems,
                            Elems, Scripts
<1>6. ASSUME NEW j \in Elems(tx.coll), outs[j].era = "Alonzo", plutus_scripts(tx) # <<>>
      PROVE  outs[j].addr.kind # "Script"
  <2>1. tx.v1 # <<>>
    BY <1>6 DEF plutus_scripts, plutus_v1_scripts, plutus_v2_scripts, plutus_v3_scripts
  <2>2. AlonzoRules!check_collaterals_address(tx.coll, outs) = "Ok"
    BY <1>1, <2>1 DEF AlonzoRules!check_fee, AlonzoRules!presence_of_plutus_scripts,
                      AlonzoRules!check_collaterals, AlonzoRules!&&
  <2> DEFINE Address(k) ==
        IF outs[k].era # "Alonzo" THEN "Ok"
        ELSE AlonzoRules!&&(AlonzoRules!Ensure(outs[k].addr.kind \in {"Key", "Script"}, "InputDecoding"),
                            AlonzoRules!Ensure(outs[k].addr.kind = "Key", "CollateralNotVKeyLocked"))
  <2> DEFINE a == [n \in DOMAIN tx.coll |-> Address(tx.coll[n])]
  <2>3. AlonzoRules!FirstError(a) = "Ok"
    BY <2>2 DEF AlonzoRules!check_collaterals_address, AlonzoRules!EachOk
  <2>4. \A n \in DOMAIN a : a[n] = "Ok"
    <3>1. DOMAIN a \subseteq Nat
      BY <1>2
    <3> HIDE DEF a
    <3> QED BY <2>3, <3>1, AllOk, SharedErrors
  <2>5. PICK n \in DOMAIN tx.coll : tx.coll[n] = j
    BY DEF Elems
  <2>6. Address(j) = "Ok"
    BY <2>4, <2>5
  <2> QED BY <1>6, <2>6 DEF AlonzoRules!&&, AlonzoRules!Ensure
<1>7. ASSUME NEW i \in consumes(tx)
      PROVE  i \in DOMAIN outs /\ (Asked(tx, outs[i]) => Owned(tx, outs, i))
  <2>1. CASE is_valid(tx) /\ i \in Elems(tx.ins)
    BY <1>3, <1>4, <1>5, <2>1 DEF Owned, Asked, Format, Elems
  <2>2. CASE ~is_valid(tx) /\ i \in Elems(tx.coll)
    BY <1>3, <1>4, <1>6, <2>2 DEF Owned, Asked, Format, Elems
  <2> QED BY <2>1, <2>2, Consumed
<1> QED BY <1>7 DEF OwnerAsked

(* The same for Babbage, where a script may stand in a reference input.    *)
LEMMA BabbageOwner ==
  ASSUME NEW tx, MultiEraTx(tx), tx.era = "Babbage", NEW outs, NEW pp, NEW at, NEW magic, NEW net,
         BabbageRules!validate_babbage_tx(tx, outs, pp, at, magic, net) = "Ok"
  PROVE  OwnerAsked(tx, outs)
<1> DEFINE ref == BabbageRules!get_reference_script_hashes(tx, outs)
<1>1. /\ BabbageRules!check_all_ins_in_utxos(tx, outs) = "Ok"
      /\ BabbageRules!check_fee(tx, outs, pp) = "Ok"
      /\ BabbageRules!check_input_scripts(tx, outs, ref) = "Ok"
      /\ BabbageRules!check_vkey_input_wits(tx, outs) = "Ok"
  <2>1. /\ BabbageRules!check_all_ins_in_utxos(tx, outs) = "Ok"
        /\ BabbageRules!check_fee(tx, outs, pp) = "Ok"
        /\ BabbageRules!check_witness_set(tx, outs) = "Ok"
    BY DEF BabbageRules!validate_babbage_tx, BabbageRules!&&
  <2>2. /\ BabbageRules!check_needed_scripts(tx, outs, ref) = "Ok"
        /\ BabbageRules!check_vkey_input_wits(tx, outs) = "Ok"
    BY <2>1 DEF BabbageRules!check_witness_set, BabbageRules!&&
  <2> QED BY <2>1, <2>2 DEF BabbageRules!check_needed_scripts, BabbageRules!&&
<1> HIDE DEF ref
<1>2. /\ DOMAIN tx.ins \subseteq Nat /\ DOMAIN tx.coll \subseteq Nat
      /\ DOMAIN (tx.ins \o tx.coll) \subseteq Nat /\ DOMAIN tx.vkeys \subseteq Nat
      /\ Elems(tx.ins \o tx.coll) = Elems(tx.ins) \cup Elems(tx.coll)
  BY SeqDomain, ElemsConcat DEF MultiEraTx
<1>3. /\ \A j \in DOMAIN tx.ins : tx.ins[j] \in DOMAIN outs
      /\ \A j \in DOMAIN tx.coll : tx.coll[j] \in DOMAIN outs
  <2> DEFINE a == [j \in DOMAIN tx.ins |->
                     BabbageRules!Ensure(tx.ins[j] \in DOMAIN outs, "InputNotInUTxO")]
  <2> DEFINE b == [j \in DOMAIN tx.coll |->
                     BabbageRules!Ensure(tx.coll[j] \in DOMAIN outs, "CollateralNotInUTxO")]
  <2>1. BabbageRules!FirstError(a) = "Ok" /\ BabbageRules!FirstError(b) = "Ok"
    BY <1>1 DEF BabbageRules!check_all_ins_in_utxos, BabbageRules!EachOk, BabbageRules!&&
  <2>2. (\A j \in DOMAIN a : a[j] = "Ok") /\ (\A j \in DOMAIN b : b[j] = "Ok")
    <3>1. DOMAIN a \subseteq Nat /\ DOMAIN b \subseteq Nat
      BY <1>2
    <3> HIDE DEF a, b
    <3> QED BY <2>1, <3>1, AllOk, SharedErrors
  <2> QED BY <2>2 DEF BabbageRules!Ensure
<1>4. ASSUME NEW j \in Elems(tx.ins) \cup Elems(tx.coll), outs[j].era = "Babbage"
      PROVE  \/ outs[j].addr.kind = "Script"
             \/ \E w \in Elems(tx.vkeys) : w.vkey = outs[j].addr.id /\ w.valid
  <2> DEFINE Input(k) ==
        CASE ~BabbageRules!IsBabbage(k, outs) -> "Ok"
          [] outs[k].addr.kind = "Key" -> BabbageRules!check_vk_wit(outs[k].addr.id, tx.vkeys)
          [] outs[k].addr.kind = "Script" -> "Ok"
          [] OTHER -> "InputDecoding"
  <2> DEFINE a == [n \in DOMAIN (tx.ins \o tx.coll) |-> Input((tx.ins \o tx.coll)[n])]
  <2>1. BabbageRules!FirstError(a) = "Ok"
    BY <1>1 DEF BabbageRules!check_vkey_input_wits, BabbageRules!EachOk, BabbageRules!&&
  <2>2. \A n \in DOMAIN a : a[n] = "Ok"
    <3>1. DOMAIN a \subseteq Nat
      BY <1>2
    <3> HIDE DEF a
    <3> QED BY <2>1, <3>1, AllOk, SharedErrors
  <2>3. PICK n \in DOMAIN (tx.ins \o tx.coll) : (tx.ins \o tx.coll)[n] = j
    BY <1>2 DEF Elems
  <2>4. Input(j) = "Ok" /\ j \in DOMAIN outs
    BY <1>3, <2>2, <2>3 DEF Elems
  <2>5. CASE outs[j].addr.kind = "Key"
    <3>1. KeyWitness(outs[j].addr.id, tx.vkeys, "VKWitnessMissing", "VKWrongSignature") = "Ok"
      BY <1>4, <2>4, <2>5, SharedWitness DEF BabbageRules!check_vk_wit, BabbageRules!IsBabbage
    <3> QED BY <1>2, <3>1, Witnessed DEF Elems
  <2> QED BY <1>4, <2>4, <2>5 DEF BabbageRules!IsBabbage
<1>5. ASSUME NEW h \in ref
      PROVE  \E r \in Elems(tx.refs) : /\ r \in DOMAIN outs /\ IsSome(outs[r].script_ref)
                                       /\ outs[r].script_ref.is.id = h
  <2>1. PICK r \in Elems(tx.refs) :
          /\ BabbageRules!IsSome(BabbageRules!get_script_hash_from_reference_input(r, outs))
          /\ BabbageRules!get_script_hash_from_reference_input(r, outs).is = h
    BY DEF ref, BabbageRules!get_reference_script_hashes, BabbageRules!Elems, Elems
  <2> QED BY <2>1 DEF BabbageRules!get_script_hash_from_reference_input, BabbageRules!IsBabbage, BabbageRules!None,
                      BabbageRules!Some, BabbageRules!IsSome, IsSome
<1>6. ASSUME NEW j \in Elems(tx.ins), outs[j].era = "Babbage", outs[j].addr.kind = "Script"
      PROVE  outs[j].addr.id \in Scripts(tx) \cup ref
  <2>1. j \in DOMAIN outs
    BY <1>3 DEF Elems
  <2>2. BabbageRules!get_script_hash_from_input(j, outs) = BabbageRules!Some(outs[j].addr.id)
    BY <1>6, <2>1 DEF BabbageRules!get_script_hash_from_input, BabbageRules!ScriptOf, BabbageRules!IsBabbage
  <2>3. outs[j].addr.id \in BabbageRules!get_script_hashes_from_inputs(tx, outs)
    BY <2>2 DEF BabbageRules!get_script_hashes_from_inputs, BabbageRules!Some, BabbageRules!IsSome,
                BabbageRules!Elems, Elems
  <2> QED BY <1>1, <2>3 DEF BabbageRules!check_input_scripts, BabbageRules!Ensure, BabbageRules!WitnessScripts,
                            BabbageRules!Elems, Elems, Scripts
<1>7. ASSUME NEW j \in Elems(tx.coll), outs[j].era = "Babbage", plutus_scripts(tx) # <<>>
      PROVE  outs[j].addr.kind # "Script"
  <2>1. BabbageRules!presence_of_plutus_scripts(tx)
    BY <1>7 DEF plutus_scripts, plutus_v1_scripts, plutus_v2_scripts, plutus_v3_scripts,
                BabbageRules!presence_of_plutus_scripts
  <2>2. BabbageRules!check_collaterals_address(tx.coll, outs) = "Ok"
    BY <1>1, <2>1 DEF BabbageRules!check_fee, BabbageRules!check_collaterals, BabbageRules!&&
  <2> DEFINE Address(k) ==
        IF ~BabbageRules!IsBabbage(k, outs) THEN "Ok"
        ELSE BabbageRules!&&(BabbageRules!Ensure(outs[k].addr.kind \in {"Key", "Script"}, "InputDecoding"),
                       BabbageRules!Ensure(outs[k].addr.kind = "Key", "CollateralNotVKeyLocked"))
  <2> DEFINE a == [n \in DOMAIN tx.coll |-> Address(tx.coll[n])]
  <2>3. BabbageRules!FirstError(a) = "Ok"
    BY <2>2 DEF BabbageRules!check_collaterals_address, BabbageRules!EachOk
  <2>4. \A n \in DOMAIN a : a[n] = "Ok"
    <3>1. DOMAIN a \subseteq Nat
      BY <1>2
    <3> HIDE DEF a
    <3> QED BY <2>3, <3>1, AllOk, SharedErrors
  <2>5. PICK n \in DOMAIN tx.coll : tx.coll[n] = j
    BY DEF Elems
  <2>6. Address(j) = "Ok" /\ j \in DOMAIN outs
    BY <1>3, <2>4, <2>5
  <2> QED BY <1>7, <2>6 DEF BabbageRules!&&, BabbageRules!Ensure, BabbageRules!IsBabbage
<1>8. ASSUME NEW i \in consumes(tx)
      PROVE  i \in DOMAIN outs /\ (Asked(tx, outs[i]) => Owned(tx, outs, i))
  <2>1. CASE is_valid(tx) /\ i \in Elems(tx.ins)
    <3>1. i \in DOMAIN outs
      BY <1>3, <2>1 DEF Elems
    <3>2. CASE outs[i].era = "Babbage" /\ outs[i].addr.kind = "Script"
      BY <1>5, <1>6, <2>1, <3>1, <3>2 DEF Owned
    <3>3. CASE outs[i].era = "Babbage" /\ outs[i].addr.kind # "Script"
      BY <1>4, <2>1, <3>1, <3>3 DEF Owned
    <3> QED BY <3>1, <3>2, <3>3 DEF Asked, Format
  <2>2. CASE ~is_valid(tx) /\ i \in Elems(tx.coll)
    BY <1>3, <1>4, <1>7, <2>2 DEF Owned, Asked, Format, Elems
  <2> QED BY <2>1, <2>2, Consumed
<1> QED BY <1>8 DEF OwnerAsked

(* The same for Conway, which asks the key of every output after Byron.    *)
LEMMA ConwayOwner ==
  ASSUME NEW tx, MultiEraTx(tx), tx.era = "Conway", NEW outs, NEW pp, NEW at, NEW net,
         ConwayRules!validate_conway_tx(tx, outs, pp, at, net) = "Ok"
  PROVE  OwnerAsked(tx, outs)
<1> DEFINE ref == ConwayRules!get_reference_script_hashes(tx, outs)
<1>1. /\ ConwayRules!check_all_ins_in_utxos(tx, outs) = "Ok"
      /\ ConwayRules!check_fee(tx, outs, pp) = "Ok"
      /\ ConwayRules!check_input_scripts(tx, outs, ref) = "Ok"
      /\ ConwayRules!check_vkey_input_wits(tx, outs) = "Ok"
  <2>1. /\ ConwayRules!check_all_ins_in_utxos(tx, outs) = "Ok"
        /\ ConwayRules!check_fee(tx, outs, pp) = "Ok"
        /\ ConwayRules!check_witness_set(tx, outs) = "Ok"
    BY DEF ConwayRules!validate_conway_tx, ConwayRules!&&
  <2>2. /\ ConwayRules!check_needed_scripts(tx, outs, ref) = "Ok"
        /\ ConwayRules!check_vkey_input_wits(tx, outs) = "Ok"
    BY <2>1 DEF ConwayRules!check_witness_set, ConwayRules!&&
  <2> QED BY <2>1, <2>2 DEF ConwayRules!check_needed_scripts, ConwayRules!&&
<1> HIDE DEF ref
<1>2. /\ DOMAIN tx.ins \subseteq Nat /\ DOMAIN tx.coll \subseteq Nat
      /\ DOMAIN (tx.ins \o tx.coll) \subseteq Nat /\ DOMAIN tx.vkeys \subseteq Nat
      /\ Elems(tx.ins \o tx.coll) = Elems(tx.ins) \cup Elems(tx.coll)
  BY SeqDomain, ElemsConcat DEF MultiEraTx
<1>3. /\ \A j \in DOMAIN tx.ins : tx.ins[j] \in DOMAIN outs
      /\ \A j \in DOMAIN tx.coll : tx.coll[j] \in DOMAIN outs
  <2> DEFINE a == [j \in DOMAIN tx.ins |->
                     ConwayRules!Ensure(tx.ins[j] \in DOMAIN outs, "InputNotInUTxO")]
  <2> DEFINE b == [j \in DOMAIN tx.coll |->
                     ConwayRules!Ensure(tx.coll[j] \in DOMAIN outs, "CollateralNotInUTxO")]
  <2>1. ConwayRules!FirstError(a) = "Ok" /\ ConwayRules!FirstError(b) = "Ok"
    BY <1>1 DEF ConwayRules!check_all_ins_in_utxos, ConwayRules!EachOk, ConwayRules!&&
  <2>2. (\A j \in DOMAIN a : a[j] = "Ok") /\ (\A j \in DOMAIN b : b[j] = "Ok")
    <3>1. DOMAIN a \subseteq Nat /\ DOMAIN b \subseteq Nat
      BY <1>2
    <3> HIDE DEF a, b
    <3> QED BY <2>1, <3>1, AllOk, SharedErrors
  <2> QED BY <2>2 DEF ConwayRules!Ensure
<1>4. ASSUME NEW j \in Elems(tx.ins) \cup Elems(tx.coll), outs[j].era = "Conway"
      PROVE  \/ outs[j].addr.kind = "Script"
             \/ \E w \in Elems(tx.vkeys) : w.vkey = outs[j].addr.id /\ w.valid
  <2> DEFINE Input(k) ==
        CASE outs[k].era = "Byron" -> "InputDecoding"
          [] outs[k].era # "Byron" /\ outs[k].addr.kind = "Key" ->
                 ConwayRules!check_vk_wit(outs[k].addr.id, tx.vkeys)
          [] outs[k].era # "Byron" /\ outs[k].addr.kind = "Script" -> "Ok"
          [] OTHER -> "InputDecoding"
  <2> DEFINE a == [n \in DOMAIN (tx.ins \o tx.coll) |-> Input((tx.ins \o tx.coll)[n])]
  <2>1. ConwayRules!FirstError(a) = "Ok"
    BY <1>1 DEF ConwayRules!check_vkey_input_wits, ConwayRules!EachOk, ConwayRules!&&
  <2>2. \A n \in DOMAIN a : a[n] = "Ok"
    <3>1. DOMAIN a \subseteq Nat
      BY <1>2
    <3> HIDE DEF a
    <3> QED BY <2>1, <3>1, AllOk, SharedErrors
  <2>3. PICK n \in DOMAIN (tx.ins \o tx.coll) : (tx.ins \o tx.coll)[n] = j
    BY <1>2 DEF Elems
  <2>4. Input(j) = "Ok" /\ j \in DOMAIN outs
    BY <1>3, <2>2, <2>3 DEF Elems
  <2>5. CASE outs[j].addr.kind = "Key"
    <3>1. KeyWitness(outs[j].addr.id, tx.vkeys, "VKWitnessMissing", "VKWrongSignature") = "Ok"
      BY <1>4, <2>4, <2>5, SharedWitness DEF ConwayRules!check_vk_wit
    <3> QED BY <1>2, <3>1, Witnessed DEF Elems
  <2> QED BY <1>4, <2>4, <2>5
<1>5. ASSUME NEW h \in ref
      PROVE  \E r \in Elems(tx.refs) : /\ r \in DOMAIN outs /\ IsSome(outs[r].script_ref)
                                       /\ outs[r].script_ref.is.id = h
  <2>1. PICK r \in Elems(tx.refs) :
          /\ ConwayRules!IsSome(ConwayRules!get_script_hash_from_reference_input(r, outs))
          /\ ConwayRules!get_script_hash_from_reference_input(r, outs).is = h
    BY DEF ref, ConwayRules!get_reference_script_hashes, ConwayRules!Elems, Elems
  <2> QED BY <2>1 DEF ConwayRules!get_script_hash_from_reference_input, ConwayRules!IsConway, ConwayRules!None,
                      ConwayRules!Some, ConwayRules!IsSome, IsSome
<1>6. ASSUME NEW j \in Elems(tx.ins), outs[j].era = "Conway", outs[j].addr.kind = "Script"
      PROVE  outs[j].addr.id \in Scripts(tx) \cup ref
  <2>1. j \in DOMAIN outs
    BY <1>3 DEF Elems
  <2>2. ConwayRules!get_script_hash_from_input(j, outs) = ConwayRules!Some(outs[j].addr.id)
    BY <1>6, <2>1 DEF ConwayRules!get_script_hash_from_input, ConwayRules!ScriptOf, ConwayRules!IsConway
  <2>3. outs[j].addr.id \in ConwayRules!get_script_hashes_from_inputs(tx, outs)
    BY <2>2 DEF ConwayRules!get_script_hashes_from_inputs, ConwayRules!Some, ConwayRules!IsSome,
                ConwayRules!Elems, Elems
  <2> QED BY <1>1, <2>3 DEF ConwayRules!check_input_scripts, ConwayRules!Ensure, ConwayRules!WitnessScripts,
                            ConwayRules!Elems, Elems, Scripts
<1>7. ASSUME NEW j \in Elems(tx.coll), outs[j].era = "Conway", plutus_scripts(tx) # <<>>
      PROVE  outs[j].addr.kind # "Script"
  <2>1. ConwayRules!presence_of_plutus_scripts(tx)
    BY <1>7 DEF plutus_scripts, plutus_v1_scripts, plutus_v2_scripts, plutus_v3_scripts,
                ConwayRules!presence_of_plutus_scripts
  <2>2. ConwayRules!check_collaterals_address(tx.coll, outs) = "Ok"
    BY <1>1, <2>1 DEF ConwayRules!check_fee, ConwayRules!check_collaterals, ConwayRules!&&
  <2> DEFINE Address(k) ==
        IF ~ConwayRules!IsConway(k, outs) THEN "Ok"
        ELSE ConwayRules!&&(ConwayRules!Ensure(outs[k].addr.kind \in {"Key", "Script"}, "InputDecoding"),
                       ConwayRules!Ensure(outs[k].addr.kind = "Key", "CollateralNotVKeyLocked"))
  <2> DEFINE a == [n \in DOMAIN tx.coll |-> Address(tx.coll[n])]
  <2>3. ConwayRules!FirstError(a) = "Ok"
    BY <2>2 DEF ConwayRules!check_collaterals_address, ConwayRules!EachOk
  <2>4. \A n \in DOMAIN a : a[n] = "Ok"
    <3>1. DOMAIN a \subseteq Nat
      BY <1>2
    <3> HIDE DEF a
    <3> QED BY <2>3, <3>1, AllOk, SharedErrors
  <2>5. PICK n \in DOMAIN tx.coll : tx.coll[n] = j
    BY DEF Elems
  <2>6. Address(j) = "Ok" /\ j \in DOMAIN outs
    BY <1>3, <2>4, <2>5
  <2> QED BY <1>7, <2>6 DEF ConwayRules!&&, ConwayRules!Ensure, ConwayRules!IsConway
<1>8. ASSUME NEW i \in consumes(tx)
      PROVE  i \in DOMAIN outs /\ (Asked(tx, outs[i]) => Owned(tx, outs, i))
  <2>1. CASE is_valid(tx) /\ i \in Elems(tx.ins)
    <3>1. i \in DOMAIN outs
      BY <1>3, <2>1 DEF Elems
    <3>2. CASE outs[i].era = "Conway" /\ outs[i].addr.kind = "Script"
      BY <1>5, <1>6, <2>1, <3>1, <3>2 DEF Owned
    <3>3. CASE outs[i].era = "Conway" /\ outs[i].addr.kind # "Script"
      BY <1>4, <2>1, <3>1, <3>3 DEF Owned
    <3> QED BY <3>1, <3>2, <3>3 DEF Asked, Format
  <2>2. CASE ~is_valid(tx) /\ i \in Elems(tx.coll)
    BY <1>3, <1>4, <1>7, <2>2 DEF Owned, Asked, Format, Elems
  <2> QED BY <2>1, <2>2, Consumed
<1> QED BY <1>8 DEF OwnerAsked

(* Shelley, Allegra and Mary: a key has its witness, and a script is the   *)
(* first native script of the transaction.                                 *)
LEMMA ShelleyOwner ==
  ASSUME NEW tx, MultiEraTx(tx), tx.era \in {"Shelley", "Allegra", "Mary"},
         NEW outs, NEW ix, NEW cs, NEW env,
         ShelleyRules!validate_shelley_ma_tx(tx, ix, outs, cs, env).err = "Ok"
  PROVE  OwnerAsked(tx, outs)
<1> DEFINE early == ShelleyRules!&&(ShelleyRules!&&(ShelleyRules!&&(ShelleyRules!&&(
                      ShelleyRules!check_ins_not_empty(tx), ShelleyRules!check_ins_in_utxos(tx, outs)),
                      ShelleyRules!check_ttl(tx, env.slot)), ShelleyRules!check_tx_size(tx, env.pp)),
                      ShelleyRules!check_min_lovelace(tx, env.pp))
<1>1. early = "Ok" /\ ShelleyRules!check_witnesses(tx, outs) = "Ok"
  BY DEF ShelleyRules!validate_shelley_ma_tx, ShelleyRules!&&
<1>2. ShelleyRules!check_ins_in_utxos(tx, outs) = "Ok"
  BY <1>1 DEF ShelleyRules!&&
<1> HIDE DEF early
<1>3. DOMAIN tx.ins \subseteq Nat /\ DOMAIN tx.vkeys \subseteq Nat
  BY SeqDomain DEF MultiEraTx
<1>4. \A j \in DOMAIN tx.ins : tx.ins[j] \in DOMAIN outs
  <2> DEFINE a == [j \in DOMAIN tx.ins |->
                     ShelleyRules!Ensure(tx.ins[j] \in DOMAIN outs, "InputNotInUTxO")]
  <2>1. ShelleyRules!FirstError(a) = "Ok"
    BY <1>2 DEF ShelleyRules!check_ins_in_utxos, ShelleyRules!EachOk
  <2>2. \A j \in DOMAIN a : a[j] = "Ok"
    <3>1. DOMAIN a \subseteq Nat
      BY <1>3
    <3> HIDE DEF a
    <3> QED BY <2>1, <3>1, AllOk, SharedErrors
  <2> QED BY <2>2 DEF ShelleyRules!Ensure
<1>5. ASSUME NEW j \in Elems(tx.ins), outs[j].era = "Alonzo"
      PROVE  Owned(tx, outs, j)
  <2> DEFINE Input(k) ==
        CASE outs[k].era # "Alonzo" -> "Ok"
          [] outs[k].addr.kind = "Key" -> ShelleyRules!check_vk_wit(outs[k].addr.id, tx.vkeys)
          [] outs[k].addr.kind = "Script" ->
                 ShelleyRules!check_native_script_witness(outs[k].addr.id, tx.native)
          [] OTHER -> "AddressDecoding"
  <2> DEFINE a == [n \in DOMAIN tx.ins |-> Input(tx.ins[n])]
  <2>1. ShelleyRules!FirstError(a) = "Ok"
    BY <1>1 DEF ShelleyRules!check_witnesses, ShelleyRules!EachOk, ShelleyRules!&&
  <2>2. \A n \in DOMAIN a : a[n] = "Ok"
    <3>1. DOMAIN a \subseteq Nat
      BY <1>3
    <3> HIDE DEF a
    <3> QED BY <2>1, <3>1, AllOk, SharedErrors
  <2>3. PICK n \in DOMAIN tx.ins : tx.ins[n] = j
    BY DEF Elems
  <2>4. Input(j) = "Ok"
    <3>1. \A x \in DOMAIN tx.ins : a[x] = Input(tx.ins[x])
      OBVIOUS
    <3> HIDE DEF a, Input
    <3> QED BY <2>2, <2>3, <3>1 DEF a
  <2>5. CASE outs[j].addr.kind = "Key"
    <3>1. KeyWitness(outs[j].addr.id, tx.vkeys, "MissingVKWitness", "WrongSignature") = "Ok"
      BY <1>5, <2>4, <2>5, SharedWitness DEF ShelleyRules!check_vk_wit
    <3>2. \E w \in Elems(tx.vkeys) : w.vkey = outs[j].addr.id /\ w.valid
      BY <1>3, <3>1, Witnessed DEF Elems
    <3> QED BY <2>5, <3>2 DEF Owned
  <2>6. CASE outs[j].addr.kind = "Script"
    <3>1. tx.native # <<>> /\ Head(tx.native) = outs[j].addr.id
      BY <1>5, <2>4, <2>6 DEF ShelleyRules!check_native_script_witness, ShelleyRules!Ensure
    <3>2. PICK S : tx.native \in Seq(S)
      BY DEF MultiEraTx, IsSeq
    <3>3. 1 \in DOMAIN tx.native /\ Head(tx.native) = tx.native[1]
      BY <3>1, <3>2
    <3> QED BY <2>6, <3>1, <3>3 DEF Owned, Scripts, Elems
  <2> QED BY <1>5, <2>4, <2>5, <2>6
<1>7. ASSUME NEW i \in consumes(tx), Heeded(tx)
      PROVE  i \in DOMAIN outs /\ (Asked(tx, outs[i]) => Owned(tx, outs, i))
  <2>1. i \in Elems(tx.ins)
    BY <1>7, Consumed DEF Heeded
  <2> QED BY <1>4, <1>5, <2>1 DEF Elems, Asked, Format
<1> QED BY <1>7 DEF OwnerAsked

(* Byron: the first witness that redeems the address is valid; no script   *)
(* locks an address of the kinds that a witness redeems.                   *)
LEMMA ByronOwner ==
  ASSUME NEW tx, MultiEraTx(tx), tx.era = "Byron", NEW outs, NEW pp, NEW magic,
         ByronRules!validate_byron_tx(tx, outs, pp, magic) = "Ok"
  PROVE  OwnerAsked(tx, outs)
<1>1. /\ ByronRules!check_ins_in_utxos(tx, outs) = "Ok"
      /\ ByronRules!check_witnesses(tx, outs, magic) = "Ok"
  BY DEF ByronRules!validate_byron_tx, ByronRules!&&
<1>2. DOMAIN tx.ins \subseteq Nat /\ DOMAIN tx.wits \subseteq Nat
  BY SeqDomain DEF MultiEraTx
<1>3. \A j \in DOMAIN tx.ins : tx.ins[j] \in DOMAIN outs
  <2> DEFINE a == [j \in DOMAIN tx.ins |->
                     ByronRules!Ensure(tx.ins[j] \in DOMAIN outs, "InputNotInUTxO")]
  <2>1. ByronRules!FirstError(a) = "Ok"
    BY <1>1 DEF ByronRules!check_ins_in_utxos, ByronRules!EachOk
  <2>2. \A j \in DOMAIN a : a[j] = "Ok"
    <3>1. DOMAIN a \subseteq Nat
      BY <1>2
    <3> HIDE DEF a
    <3> QED BY <2>1, <3>1, AllOk, SharedErrors
  <2> QED BY <2>2 DEF ByronRules!Ensure
<1> DEFINE tagged == ByronRules!tag_witnesses(tx.wits)
<1>4. tagged.err = "Ok"
  BY <1>1 DEF ByronRules!check_witnesses, ByronRules!&&
<1>5. tagged = ByronRules!Val(tx.wits) /\ \A n \in DOMAIN tx.wits : tx.wits[n].kind \in {"Pk", "Redeem"}
  BY <1>4 DEF ByronRules!tag_witnesses, ByronRules!Fail
<1>6. tagged.val = tx.wits
  BY <1>5 DEF ByronRules!Val
<1>7. ASSUME NEW j \in Elems(tx.ins)
      PROVE  Owned(tx, outs, j)
  <2> DEFINE out == ByronRules!find_tx_out(j, outs)
  <2> DEFINE found == ByronRules!find_raw_witness(out.val, tx.wits)
  <2> DEFINE Input(k) ==
        IF ByronRules!find_tx_out(k, outs).err # "Ok" THEN ByronRules!find_tx_out(k, outs).err
        ELSE ByronRules!&&(
               ByronRules!find_raw_witness(ByronRules!find_tx_out(k, outs).val, tagged.val).err,
               ByronRules!Ensure(
                 /\ ByronRules!verify_signature(
                      ByronRules!find_raw_witness(ByronRules!find_tx_out(k, outs).val, tagged.val).val)
                 /\ ByronRules!find_raw_witness(ByronRules!find_tx_out(k, outs).val, tagged.val).val.magic
                      = magic, "WrongSignature"))
  <2> DEFINE a == [n \in DOMAIN tx.ins |-> Input(tx.ins[n])]
  <2>1. ByronRules!FirstError(a) = "Ok"
    BY <1>1, <1>4 DEF ByronRules!check_witnesses, ByronRules!EachOk, ByronRules!&&
  <2>2. \A n \in DOMAIN a : a[n] = "Ok"
    <3>1. DOMAIN a \subseteq Nat
      BY <1>2
    <3> HIDE DEF a
    <3> QED BY <2>1, <3>1, AllOk, SharedErrors
  <2>3. PICK n \in DOMAIN tx.ins : tx.ins[n] = j
    BY DEF Elems
  <2>4. Input(j) = "Ok"
    BY <2>2, <2>3
  <2>5. out.err = "Ok" /\ found.err = "Ok" /\ ByronRules!verify_signature(found.val)
    BY <1>6, <2>4 DEF ByronRules!&&, ByronRules!Ensure
  <2>6. out.val = outs[j]
    BY <2>5 DEF ByronRules!find_tx_out, ByronRules!Val, ByronRules!Fail
  <2> DEFINE fit == {k \in DOMAIN tx.wits : ByronRules!redeems(tx.wits[k], outs[j].addr)}
  <2>7. fit # {} /\ found.val = tx.wits[ByronRules!Min(fit)]
    BY <2>5, <2>6 DEF ByronRules!find_raw_witness, ByronRules!Val, ByronRules!Fail
  <2>8. ByronRules!Min(fit) \in fit
    <3>1. fit \subseteq Nat
      BY <1>2
    <3> HIDE DEF fit
    <3>2. PICK m \in fit : \A k \in fit : m <= k
      BY <2>7, <3>1, LeastOf
    <3> QED BY <3>2 DEF ByronRules!Min
  <2>9. PICK m \in DOMAIN tx.wits : ByronRules!redeems(tx.wits[m], outs[j].addr) /\ found.val = tx.wits[m]
    BY <2>7, <2>8
  <2>10. /\ tx.wits[m].vkey = outs[j].addr.id /\ tx.wits[m].valid
         /\ outs[j].addr.kind = [Pk |-> "PubKey", Redeem |-> "Redeem"][tx.wits[m].kind]
    BY <2>5, <2>9 DEF ByronRules!redeems, ByronRules!verify_signature
  <2>11. outs[j].addr.kind # "Script"
    <3>1. tx.wits[m].kind \in {"Pk", "Redeem"}
      BY <1>5
    <3> QED BY <2>10, <3>1
  <2> QED BY <2>10, <2>11 DEF Owned, Elems
<1>8. ASSUME NEW i \in consumes(tx)
      PROVE  i \in DOMAIN outs /\ (Asked(tx, outs[i]) => Owned(tx, outs, i))
  <2>1. i \in Elems(tx.ins)
    BY Consumed
  <2> QED BY <1>3, <1>7, <2>1 DEF Elems
<1> QED BY <1>8 DEF OwnerAsked

(* What the rules of the era of the protocol parameters accept.            *)
LEMMA ValidOwner ==
  ASSUME NEW tx, MultiEraTx(tx), NEW ix, NEW pera, NEW pots, NEW outs, NEW cs,
         pera \in {"Byron", "Shelley", "Alonzo", "Babbage", "Conway"},
         validate_tx(tx, ix, pera, pots, outs, cs).err = "Ok"
  PROVE  OwnerAsked(tx, outs)
<1> DEFINE env == [slot |-> slot, net |-> Env.net, pp |-> Params[pera], acnt |-> pots]
<1>1. CASE pera = "Byron"
  <2>1. tx.era = "Byron" /\ ByronRules!validate_byron_tx(tx, outs, Params[pera], Env.magic) = "Ok"
    BY <1>1 DEF validate_tx
  <2> QED BY <2>1, ByronOwner
<1>2. CASE pera = "Shelley"
  <2>1. /\ tx.era \in {"Shelley", "Allegra", "Mary"}
        /\ ShelleyRules!validate_shelley_ma_tx(tx, ix, outs, cs, env).err = "Ok"
    BY <1>2 DEF validate_tx
  <2> HIDE DEF env
  <2> QED BY <2>1, ShelleyOwner
<1>3. CASE pera = "Alonzo"
  <2>1. tx.era = "Alonzo" /\ AlonzoRules!validate_alonzo_tx(tx, outs, Params[pera], slot, Env.net) = "Ok"
    BY <1>3 DEF validate_tx
  <2> QED BY <2>1, AlonzoOwner
<1>4. CASE pera = "Babbage"
  <2>1. /\ tx.era = "Babbage"
        /\ BabbageRules!validate_babbage_tx(tx, outs, Params[pera], slot, Env.magic, Env.net) = "Ok"
    BY <1>4 DEF validate_tx
  <2> QED BY <2>1, BabbageOwner
<1>5. CASE pera = "Conway"
  <2>1. tx.era = "Conway" /\ ConwayRules!validate_conway_tx(tx, outs, Params[pera], slot, Env.net) = "Ok"
    BY <1>5 DEF validate_tx
  <2> QED BY <2>1, ConwayOwner
<1> QED BY <1>1, <1>2, <1>3, <1>4, <1>5

-----------------------------------------------------------------------------
(* The outputs that a verdict keeps are enough to tell the owners.         *)
Kept(tx, outs) == [k \in Elems(requires(tx)) \cap DOMAIN outs |-> outs[k]]

(* What a transaction consumes or refers to is kept.                       *)
LEMMA KeptOutput ==
  ASSUME NEW tx, MultiEraTx(tx), NEW outs
  PROVE  /\ \A i \in consumes(tx) \cap DOMAIN outs : Kept(tx, outs)[i] = outs[i]
         /\ \A r \in Elems(reference_inputs(tx)) \cap DOMAIN outs : Kept(tx, outs)[r] = outs[r]
<1>1. IsSeq(<<>>) /\ IsSeq(tx.ins) /\ IsSeq(tx.refs) /\ IsSeq(tx.coll)
  BY NothingSeq DEF MultiEraTx
<1>2. IsSeq(inputs(tx)) /\ IsSeq(reference_inputs(tx)) /\ IsSeq(collateral(tx))
  BY <1>1 DEF inputs, reference_inputs, collateral
<1>3. /\ Elems(inputs(tx)) \subseteq Elems(requires(tx))
      /\ Elems(reference_inputs(tx)) \subseteq Elems(requires(tx))
      /\ Elems(collateral(tx)) \subseteq Elems(requires(tx))
  <2>1. /\ IsSeq(inputs(tx) \o reference_inputs(tx))
        /\ Elems(inputs(tx) \o reference_inputs(tx)) = Elems(inputs(tx)) \cup Elems(reference_inputs(tx))
    BY <1>2, ElemsConcat
  <2> QED BY <1>2, <2>1, ElemsConcat DEF requires
<1> QED BY <1>3 DEF Kept, consumes

(* So the owner can still be told from what is kept.                       *)
LEMMA KeptOwner ==
  ASSUME NEW tx, MultiEraTx(tx), NEW outs, NEW i \in consumes(tx), i \in DOMAIN outs, Owned(tx, outs, i)
  PROVE  Authorised(tx, Kept(tx, outs), i)
<1>4. Kept(tx, outs)[i] = outs[i]
  BY KeptOutput
<1>5. Elems(tx.native \o tx.v1 \o tx.v2 \o tx.v3) = Scripts(tx)
  <2>1. IsSeq(tx.native) /\ IsSeq(tx.v1) /\ IsSeq(tx.v2) /\ IsSeq(tx.v3)
    BY DEF MultiEraTx
  <2>2. IsSeq(tx.native \o tx.v1) /\ Elems(tx.native \o tx.v1) = Elems(tx.native) \cup Elems(tx.v1)
    BY <2>1, ElemsConcat
  <2>3. /\ IsSeq(tx.native \o tx.v1 \o tx.v2)
        /\ Elems(tx.native \o tx.v1 \o tx.v2) = Elems(tx.native) \cup Elems(tx.v1) \cup Elems(tx.v2)
    BY <2>1, <2>2, ElemsConcat
  <2> QED BY <2>1, <2>3, ElemsConcat DEF Scripts
<1>6. Elems(tx.vkeys \o tx.wits) = Elems(tx.vkeys) \cup Elems(tx.wits)
  BY ElemsConcat DEF MultiEraTx
<1>7. CASE outs[i].addr.kind = "Script"
  <2>1. CASE outs[i].addr.id \in Scripts(tx)
    BY <1>4, <1>5, <1>7, <2>1 DEF Authorised
  <2>2. CASE outs[i].addr.id \notin Scripts(tx)
    <3>1. PICK r \in Elems(tx.refs) : /\ r \in DOMAIN outs /\ IsSome(outs[r].script_ref)
                                      /\ outs[r].script_ref.is.id = outs[i].addr.id
      BY <1>7, <2>2 DEF Owned
    <3>2. tx.era \in {"Babbage", "Conway"}
      BY <1>7, <2>2 DEF Owned
    <3>3. Kept(tx, outs)[r] = outs[r]
      BY <3>1, <3>2, KeptOutput DEF reference_inputs
    <3> QED BY <1>4, <1>7, <3>1, <3>3 DEF Authorised
  <2> QED BY <2>1, <2>2
<1>8. CASE outs[i].addr.kind # "Script"
  <2>1. PICK w \in Elems(tx.vkeys) \cup Elems(tx.wits) : w.vkey = outs[i].addr.id /\ w.valid
    BY <1>8 DEF Owned
  <2> QED BY <1>4, <1>6, <1>8, <2>1 DEF Authorised
<1> QED BY <1>7, <1>8

(* A verdict keeps to the owners.                                          *)
OwnersOf(verdict) ==
  verdict.err = "Ok" =>
    \A t \in DOMAIN verdict.txs : \A i \in consumes(verdict.txs[t]) :
      Asked(verdict.txs[t], verdict.spent[t][i]) => Authorised(verdict.txs[t], verdict.spent[t], i)

(* The verdict of validate_txs on a block.                                 *)
LEMMA VerdictOwners ==
  ASSUME LedgerInv, NEW verdict,
         verdict.err = validate_txs(block, Eras[era], acnt, utxos, certs).err,
         verdict.txs = block, verdict.spent = [i \in DOMAIN block |-> Kept(block[i], utxos)]
  PROVE  OwnersOf(verdict)
<1> SUFFICES ASSUME verdict.err = "Ok", NEW t \in DOMAIN block, NEW i \in consumes(block[t]),
                    Asked(block[t], Kept(block[t], utxos)[i])
             PROVE  Authorised(block[t], Kept(block[t], utxos), i)
  BY DEF OwnersOf
<1>1. MultiEraTx(block[t])
  BY DEF LedgerInv
<1> DEFINE r == validate_txs(block, Eras[era], acnt, utxos, certs)
<1>2. PICK c : validate_tx(block[t], t - 1, Eras[era], acnt, utxos, c).err = "Ok"
  <2>1. IsSeq(block) /\ (\A n \in DOMAIN block : MultiEraTx(block[n])) /\ CertsOK(certs) /\ r.err = "Ok"
    BY DEF LedgerInv
  <2>2. r.err = "Ok" =>
          \A n \in DOMAIN block : \E c :
            CertsOK(c) /\ validate_tx(block[n], n - 1, Eras[era], acnt, utxos, c).err = "Ok"
    BY <2>1, BlockVerdict
  <2> QED BY <2>1, <2>2
<1>3. Eras[era] \in {"Byron", "Shelley", "Alonzo", "Babbage", "Conway"}
  BY LedgerAssumption DEF LedgerInv
<1>4. OwnerAsked(block[t], utxos)
  BY <1>1, <1>2, <1>3, ValidOwner
<1>5. Heeded(block[t]) /\ i \in DOMAIN utxos
  BY <1>4 DEF OwnerAsked, Asked, Heeded
<1>6. Kept(block[t], utxos)[i] = utxos[i]
  BY <1>1, <1>5, KeptOutput
<1>7. Owned(block[t], utxos, i)
  BY <1>4, <1>5, <1>6 DEF OwnerAsked
<1> QED BY <1>1, <1>5, <1>7, KeptOwner

(* Only a verdict on a block changes what the property is about.           *)
LEMMA OwnersStep ==
  ASSUME LedgerInv, SpentByOwner, [Next]_vars
  PROVE  SpentByOwner'
<1>1. CASE UNCHANGED last
  BY <1>1 DEF SpentByOwner, Accepted
<1>2. CASE ValidateTxs
  <2>1. last' = [err |-> validate_txs(block, Eras[era], acnt, utxos, certs).err, txs |-> block,
                 spent |-> [i \in DOMAIN block |-> Kept(block[i], utxos)]]
    BY <1>2 DEF ValidateTxs, Kept
  <2>2. /\ last'.err = validate_txs(block, Eras[era], acnt, utxos, certs).err
        /\ last'.txs = block /\ last'.spent = [i \in DOMAIN block |-> Kept(block[i], utxos)]
    BY <2>1
  <2>3. OwnersOf(last')
    BY <2>2, VerdictOwners
  <2> QED BY <2>3 DEF SpentByOwner, Accepted, OwnersOf
<1> QED BY <1>1, <1>2 DEF Next, HardFork, Compose, Edit, vars

(* Whatever blocks validate_txs accepts in whatever eras, an output of the *)
(* format of its era is consumed only by a transaction that carries a      *)
(* valid signature of its key or the script that locks it.                 *)
THEOREM LedgerSpentByOwner ==
  Spec => []SpentByOwner
<1>1. Init => SpentByOwner
  <2> SUFFICES ASSUME Init PROVE SpentByOwner
    OBVIOUS
  <2>1. last.err = "None"
    BY DEF Init
  <2>2. Accepted = {}
    BY <2>1 DEF Accepted
  <2> QED BY <2>2 DEF SpentByOwner
<1>2. LedgerInv /\ SpentByOwner /\ [Next]_vars => LedgerInv' /\ SpentByOwner'
  BY LedgerStep, OwnersStep
<1>3. Init => LedgerInv
  BY LedgerInit
<1> QED BY <1>1, <1>2, <1>3, PTL DEF Spec

-----------------------------------------------------------------------------
(* The two phases.  What the Conway rules of phase one check of the        *)
(* redeemers is what phase two needs to find their scripts.                *)

(* An error of a sequence of checks is the error of one of them.           *)
LEMMA SomeError ==
  ASSUME NEW results, DOMAIN results \subseteq Nat
  PROVE  FirstError(results) = "Ok" \/ \E i \in DOMAIN results : FirstError(results) = results[i]
<1> DEFINE bad == {i \in DOMAIN results : results[i] # "Ok"}
<1>1. CASE bad = {}
  BY <1>1 DEF FirstError
<1>2. CASE bad # {}
  <2>1. PICK m \in bad : \A k \in bad : m <= k
    BY <1>2, LeastOf
  <2>2. Min(bad) = m
    <3>1. ASSUME NEW x \in bad, \A k \in bad : x <= k PROVE x = m
      BY <2>1, <3>1
    <3> HIDE DEF bad
    <3> QED BY <2>1, <3>1 DEF Min
  <2>3. FirstError(results) = results[Min(bad)]
    BY <1>2 DEF FirstError
  <2> QED BY <2>2, <2>3
<1> QED BY <1>1, <1>2

(* The sorted references are as many, and the same ones.                   *)
LEMMA RefsSorted ==
  ASSUME NEW s, IsSeq(s), Elems(s) \subseteq Nat, NEW t, t = SortRefs(s)
  PROVE  DOMAIN t = 1..Len(s) /\ Len(t) = Len(s) /\ Len(s) \in Nat /\ Elems(t) \subseteq Elems(s)
<1> DEFINE n == Len(s)
<1> DEFINE Ahead(i) == {j \in DOMAIN s : s[j] < s[i] \/ (j < i /\ ~(s[i] < s[j]))}
<1> DEFINE At(k) == CHOOSE i \in DOMAIN s : Cardinality(Ahead(i)) = k - 1
<1> DEFINE ahead == [i \in 1..n |-> Ahead(i)]
<1>1. n \in Nat /\ DOMAIN s = 1..n /\ \A i \in 1..n : s[i] \in Nat
  BY DEF IsSeq, Elems
<1>2. t = [k \in DOMAIN s |-> s[At(k)]]
  BY DEF SortRefs, Sorted
<1>3. \A k \in 1..n : \E i \in 1..n : Cardinality(Ahead(i)) = k - 1
  <2>1. /\ ahead \in [1..n -> SUBSET (1..n)]
        /\ \A i \in 1..n : i \notin ahead[i]
    BY <1>1
  <2>2. \A i, j, k \in 1..n : i \in ahead[j] /\ j \in ahead[k] => i \in ahead[k]
    BY <1>1
  <2>3. \A i, j \in 1..n : i # j => i \in ahead[j] \/ j \in ahead[i]
    BY <1>1
  <2>4. \A i \in 1..n : ahead[i] = Ahead(i)
    OBVIOUS
  <2> HIDE DEF ahead, n, Ahead
  <2>5. \A k \in 1..n : \E i \in 1..n : Cardinality(ahead[i]) = k - 1
    BY <1>1, <2>1, <2>2, <2>3, PlacesTaken
  <2> QED BY <2>4, <2>5
<1> HIDE DEF Ahead, n
<1>4. \A k \in 1..n : At(k) \in 1..n
  BY <1>1, <1>3
<1> HIDE DEF At
<1>5. t \in Seq(Nat) /\ DOMAIN t = 1..n
  BY <1>1, <1>2, <1>4
<1>6. Len(t) = n
  BY <1>1, <1>5
<1> QED BY <1>1, <1>2, <1>4, <1>5, <1>6 DEF Elems, n

(* The set of a finite number of things is listed.                         *)
LEMMA SetListed ==
  ASSUME NEW S, IsFiniteSet(S)
  PROVE  SetToSeq(S) \in Seq(S)
<1>1. Cardinality(S) \in Nat /\ ExistsBijection(1..Cardinality(S), S)
  BY FS_CardinalityType
<1>2. \E f \in [1..Cardinality(S) -> S] : IsInjective(f)
  BY <1>1 DEF ExistsBijection, Bijection, Injection, IsInjective
<1>3. SetToSeq(S) \in [1..Cardinality(S) -> S]
  BY <1>2 DEF SetToSeq
<1> QED BY <1>1, <1>3

(* The pointers of the redeemers, and those of the scripts to run, keep to *)
(* the same lists in both phases.                                          *)
LEMMA SameLists ==
  ASSUME NEW tx
  PROVE  /\ \A s : Evaluation!SortRefs(s) = SortRefs(s) /\ ConwayRules!SortRefs(s) = SortRefs(s)
         /\ ConwayRules!SortHashes(ConwayRules!MintPolicies(tx)) = Evaluation!get_mint_info(tx)
         /\ ConwayRules!Sorted(ConwayRules!SetToSeq(tx.wdrl), ConwayRules!sort_reward_accounts)
              = Evaluation!get_withdrawals_info(tx)
<1>1. ASSUME NEW s PROVE Evaluation!SortRefs(s) = SortRefs(s) /\ ConwayRules!SortRefs(s) = SortRefs(s)
  BY DEF SortRefs, Sorted, Evaluation!SortRefs, Evaluation!Sorted, ConwayRules!SortRefs, ConwayRules!Sorted,
         Cardinality, Evaluation!Cardinality, ConwayRules!Cardinality
<1>2. ConwayRules!SortHashes(ConwayRules!MintPolicies(tx)) = Evaluation!get_mint_info(tx)
  BY DEF Evaluation!get_mint_info, Evaluation!SortHashes, Evaluation!Sorted, Evaluation!MintPolicies, Evaluation!Rank,
         ConwayRules!SortHashes, ConwayRules!Sorted, ConwayRules!MintPolicies, ConwayRules!Rank,
         ConwayRules!IsSome, Evaluation!IsSome, Evaluation!Cardinality, ConwayRules!Cardinality,
         ConwayRules!SetToSeq, Evaluation!SetToSeq, ConwayRules!IsInjective, Evaluation!IsInjective
<1>3. ConwayRules!Sorted(ConwayRules!SetToSeq(tx.wdrl), ConwayRules!sort_reward_accounts)
              = Evaluation!get_withdrawals_info(tx)
  BY DEF Evaluation!get_withdrawals_info, Evaluation!Sorted, Evaluation!sort_reward_accounts, Evaluation!Rank,
         ConwayRules!Sorted, ConwayRules!Rank, ConwayRules!sort_reward_accounts, Evaluation!Cardinality, ConwayRules!Cardinality,
         ConwayRules!SetToSeq, Evaluation!SetToSeq, ConwayRules!IsInjective, Evaluation!IsInjective
<1> QED BY <1>1, <1>2, <1>3

(* The policies and the reward accounts in the order of both phases.       *)
PoliciesOf(tx) == Evaluation!get_mint_info(tx)
AccountsOf(tx) == Evaluation!get_withdrawals_info(tx)

LEMMA ListsIndexed ==
  ASSUME NEW tx, MultiEraTx(tx)
  PROVE  /\ Len(PoliciesOf(tx)) \in Nat /\ DOMAIN PoliciesOf(tx) = 1..Len(PoliciesOf(tx))
         /\ Len(AccountsOf(tx)) \in Nat /\ DOMAIN AccountsOf(tx) = 1..Len(AccountsOf(tx))
<1>1. \A S : Evaluation!SetToSeq(S) = SetToSeq(S)
  BY DEF SetToSeq, Evaluation!SetToSeq, Cardinality, Evaluation!Cardinality, IsInjective, Evaluation!IsInjective
<1>2. Evaluation!MintPolicies(tx) = MintPolicies(tx)
  BY DEF MintPolicies, Evaluation!MintPolicies, IsSome, Evaluation!IsSome
<1>3. ASSUME NEW S, IsFiniteSet(S), NEW t, NEW v, t = [k \in DOMAIN SetToSeq(S) |-> v[k]]
      PROVE  Len(t) \in Nat /\ DOMAIN t = 1..Len(t)
  <2>1. SetToSeq(S) \in Seq(S)
    BY <1>3, SetListed
  <2>2. PICK n \in Nat : DOMAIN SetToSeq(S) = 1..n
    BY <2>1
  <2>3. DOMAIN t = 1..n /\ t = [k \in 1..n |-> t[k]]
    BY <1>3, <2>2
  <2>4. t \in Seq({t[k] : k \in 1..n})
    BY <2>3
  <2> QED BY <2>4
<1>4. Len(PoliciesOf(tx)) \in Nat /\ DOMAIN PoliciesOf(tx) = 1..Len(PoliciesOf(tx))
  <2>1. PoliciesOf(tx) = [k \in DOMAIN SetToSeq(MintPolicies(tx)) |-> PoliciesOf(tx)[k]]
    BY <1>1, <1>2 DEF PoliciesOf, Evaluation!get_mint_info, Evaluation!SortHashes, Evaluation!Sorted
  <2> QED BY <1>3, <2>1 DEF MultiEraTx
<1>5. Len(AccountsOf(tx)) \in Nat /\ DOMAIN AccountsOf(tx) = 1..Len(AccountsOf(tx))
  <2>1. AccountsOf(tx) = [k \in DOMAIN SetToSeq(tx.wdrl) |-> AccountsOf(tx)[k]]
    BY <1>1 DEF AccountsOf, Evaluation!get_withdrawals_info, Evaluation!Sorted
  <2> QED BY <1>3, <2>1 DEF MultiEraTx
<1> QED BY <1>4, <1>5

(* The Plutus scripts that phase one lets a redeemer run.                  *)
Runnable(tx, outs) ==
  Elems(tx.v1) \cup Elems(tx.v2) \cup Elems(tx.v3) \cup ConwayRules!get_reference_script_hashes(tx, outs)

(* A redeemer points at an input, a policy or an account of such a script. *)
Directed(tx, outs, r) ==
  /\ r.index \in Nat
  /\ \/ /\ r.tag = "Spend" /\ r.index < Len(tx.ins)
        /\ outs[SortRefs(tx.ins)[r.index + 1]].addr.kind = "Script"
        /\ outs[SortRefs(tx.ins)[r.index + 1]].addr.id \in Runnable(tx, outs)
     \/ /\ r.tag = "Mint" /\ r.index < Len(PoliciesOf(tx))
        /\ PoliciesOf(tx)[r.index + 1] \in Runnable(tx, outs)
     \/ /\ r.tag = "Reward" /\ r.index < Len(AccountsOf(tx))
        /\ AccountsOf(tx)[r.index + 1].script
        /\ AccountsOf(tx)[r.index + 1].id \in Runnable(tx, outs)

(* What the Conway rules ensure for phase two.                             *)
Prepared(tx, outs) ==
  /\ Elems(tx.ins) \cup Elems(tx.refs) \subseteq DOMAIN outs
  /\ \A i \in Elems(tx.ins) : IsSome(outs[i].datum) => outs[i].datum.is \in Elems(tx.datums)
  /\ \A r \in Elems(tx.redeemers) : Directed(tx, outs, r)

LEMMA ConwayPrepares ==
  ASSUME NEW tx, MultiEraTx(tx), tx.era = "Conway", NEW outs, NEW pp, NEW at, NEW net,
         ConwayRules!validate_conway_tx(tx, outs, pp, at, net) = "Ok"
  PROVE  Prepared(tx, outs)
<1> DEFINE ref == ConwayRules!get_reference_script_hashes(tx, outs)
<1>1. /\ ConwayRules!check_all_ins_in_utxos(tx, outs) = "Ok"
      /\ ConwayRules!check_input_datum_hash_in_witness_set(tx, outs) = "Ok"
      /\ ConwayRules!check_redeemers(tx, outs, ref) = "Ok"
  <2>1. /\ ConwayRules!check_all_ins_in_utxos(tx, outs) = "Ok"
        /\ ConwayRules!check_witness_set(tx, outs) = "Ok"
    BY DEF ConwayRules!validate_conway_tx, ConwayRules!&&
  <2>2. ConwayRules!check_datums(tx, outs) = "Ok" /\ ConwayRules!check_redeemers(tx, outs, ref) = "Ok"
    BY <2>1 DEF ConwayRules!check_witness_set, ConwayRules!&&
  <2> QED BY <2>1, <2>2 DEF ConwayRules!check_datums, ConwayRules!&&
<1>2. DOMAIN tx.ins \subseteq Nat /\ DOMAIN tx.refs \subseteq Nat
  BY SeqDomain DEF MultiEraTx
<1>3. /\ \A j \in DOMAIN tx.ins : tx.ins[j] \in DOMAIN outs
      /\ \A j \in DOMAIN tx.refs : tx.refs[j] \in DOMAIN outs
  <2> DEFINE a == [j \in DOMAIN tx.ins |->
                     ConwayRules!Ensure(tx.ins[j] \in DOMAIN outs, "InputNotInUTxO")]
  <2> DEFINE b == [j \in DOMAIN tx.refs |->
                     ConwayRules!Ensure(tx.refs[j] \in DOMAIN outs, "ReferenceInputNotInUTxO")]
  <2>1. ConwayRules!FirstError(a) = "Ok" /\ ConwayRules!FirstError(b) = "Ok"
    BY <1>1 DEF ConwayRules!check_all_ins_in_utxos, ConwayRules!EachOk, ConwayRules!&&
  <2>2. (\A j \in DOMAIN a : a[j] = "Ok") /\ (\A j \in DOMAIN b : b[j] = "Ok")
    <3>1. DOMAIN a \subseteq Nat /\ DOMAIN b \subseteq Nat
      BY <1>2
    <3> HIDE DEF a, b
    <3> QED BY <2>1, <3>1, AllOk, SharedErrors
  <2> QED BY <2>2 DEF ConwayRules!Ensure
<1>4. ASSUME NEW j \in DOMAIN tx.ins, IsSome(outs[tx.ins[j]].datum)
      PROVE  outs[tx.ins[j]].datum.is \in Elems(tx.datums)
  <2> DEFINE Datum(i) ==
        ConwayRules!&&(ConwayRules!Ensure(i \in DOMAIN outs, "InputNotInUTxO"),
                       ConwayRules!Ensure(ConwayRules!IsSome(outs[i].datum) =>
                                            outs[i].datum.is \in ConwayRules!Elems(tx.datums), "DatumMissing"))
  <2> DEFINE a == [n \in DOMAIN tx.ins |-> Datum(tx.ins[n])]
  <2>1. ConwayRules!FirstError(a) = "Ok"
    BY <1>1 DEF ConwayRules!check_input_datum_hash_in_witness_set, ConwayRules!EachOk
  <2>2. \A n \in DOMAIN a : a[n] = "Ok"
    <3>1. DOMAIN a \subseteq Nat
      BY <1>2
    <3> HIDE DEF a
    <3> QED BY <2>1, <3>1, AllOk, SharedErrors
  <2>3. Datum(tx.ins[j]) = "Ok"
    BY <2>2
  <2> QED BY <1>3, <1>4, <2>3 DEF ConwayRules!&&, ConwayRules!Ensure, ConwayRules!IsSome, IsSome,
                                   ConwayRules!Elems, Elems
<1>5. ASSUME NEW r \in Elems(tx.redeemers) PROVE Directed(tx, outs, r)
  <2> DEFINE ins == SortRefs(tx.ins)
  <2>1. <<r.tag, r.index>> \in ConwayRules!mk_plutus_script_redeemer_pointers(tx, outs, ref)
    <3>1. <<r.tag, r.index>> \in ConwayRules!RedeemerPointers(tx)
      BY DEF ConwayRules!RedeemerPointers, ConwayRules!Elems, Elems
    <3>2. ConwayRules!RedeemerPointers(tx) \subseteq
            ConwayRules!mk_plutus_script_redeemer_pointers(tx, outs, ref)
      <4> HIDE DEF ref
      <4> QED BY <1>1 DEF ConwayRules!check_redeemers, ConwayRules!redeemer_key_coincide, ConwayRules!&&,
                  ConwayRules!Ensure
    <3> QED BY <3>1, <3>2
  <2>2. \A h : ConwayRules!is_phase_2_script(h, tx, ref) => h \in Runnable(tx, outs)
    <3> HIDE DEF ref
    <3> QED BY DEF ConwayRules!is_phase_2_script, Runnable, ConwayRules!Elems, Elems, ref
  <2> DEFINE Locked(i) == LET s == ConwayRules!get_script_hash_from_input(i, outs)
                          IN ConwayRules!IsSome(s) /\ ConwayRules!is_phase_2_script(s.is, tx, ref)
  <2>3. \A i : Locked(i) => outs[i].addr.kind = "Script" /\ outs[i].addr.id \in Runnable(tx, outs)
    <3> HIDE DEF ref
    <3> QED BY <2>2 DEF ConwayRules!get_script_hash_from_input, ConwayRules!ScriptOf, ConwayRules!IsConway,
                        ConwayRules!None, ConwayRules!Some, ConwayRules!IsSome
  <2>4. \/ \E j \in DOMAIN ins : <<r.tag, r.index>> = <<"Spend", j - 1>> /\ Locked(ins[j])
        \/ \E j \in DOMAIN PoliciesOf(tx) :
             /\ <<r.tag, r.index>> = <<"Mint", j - 1>>
             /\ ConwayRules!is_phase_2_script(PoliciesOf(tx)[j], tx, ref)
        \/ \E j \in DOMAIN AccountsOf(tx) :
             /\ <<r.tag, r.index>> = <<"Reward", j - 1>>
             /\ AccountsOf(tx)[j].script /\ ConwayRules!is_phase_2_script(AccountsOf(tx)[j].id, tx, ref)
    <3> HIDE DEF ref
    <3> QED BY <2>1, SameLists DEF ConwayRules!mk_plutus_script_redeemer_pointers, PoliciesOf, AccountsOf
  <2> HIDE DEF Locked, ref
  <2>5. CASE \E j \in DOMAIN ins : <<r.tag, r.index>> = <<"Spend", j - 1>> /\ Locked(ins[j])
    <3>1. PICK j \in DOMAIN ins : <<r.tag, r.index>> = <<"Spend", j - 1>> /\ Locked(ins[j])
      BY <2>5
    <3>2. DOMAIN ins = 1..Len(tx.ins) /\ Len(tx.ins) \in Nat
      BY RefsSorted DEF MultiEraTx
    <3>3. r.index \in Nat /\ r.index < Len(tx.ins) /\ r.index + 1 = j /\ r.tag = "Spend"
      BY <3>1, <3>2
    <3> QED BY <2>3, <3>1, <3>3 DEF Directed
  <2>6. CASE \E j \in DOMAIN PoliciesOf(tx) :
               /\ <<r.tag, r.index>> = <<"Mint", j - 1>>
               /\ ConwayRules!is_phase_2_script(PoliciesOf(tx)[j], tx, ref)
    <3>1. PICK j \in DOMAIN PoliciesOf(tx) :
               /\ <<r.tag, r.index>> = <<"Mint", j - 1>>
               /\ ConwayRules!is_phase_2_script(PoliciesOf(tx)[j], tx, ref)
      BY <2>6
    <3>3. r.index \in Nat /\ r.index < Len(PoliciesOf(tx)) /\ r.index + 1 = j /\ r.tag = "Mint"
      BY <3>1, ListsIndexed
    <3> QED BY <2>2, <3>1, <3>3 DEF Directed
  <2>7. CASE \E j \in DOMAIN AccountsOf(tx) :
             /\ <<r.tag, r.index>> = <<"Reward", j - 1>>
             /\ AccountsOf(tx)[j].script /\ ConwayRules!is_phase_2_script(AccountsOf(tx)[j].id, tx, ref)
    <3>1. PICK j \in DOMAIN AccountsOf(tx) :
             /\ <<r.tag, r.index>> = <<"Reward", j - 1>>
             /\ AccountsOf(tx)[j].script /\ ConwayRules!is_phase_2_script(AccountsOf(tx)[j].id, tx, ref)
      BY <2>7
    <3>3. r.index \in Nat /\ r.index < Len(AccountsOf(tx)) /\ r.index + 1 = j /\ r.tag = "Reward"
      BY <3>1, ListsIndexed
    <3> QED BY <2>2, <3>1, <3>3 DEF Directed
  <2> QED BY <2>4, <2>5, <2>6, <2>7
<1> QED BY <1>3, <1>4, <1>5 DEF Prepared, Elems

(* The helpers of phase two are those of the rules.                        *)
LEMMA EvaluationErrors ==
  ASSUME NEW results
  PROVE  Evaluation!FirstError(results) = FirstError(results)
  BY DEF FirstError, Evaluation!FirstError, Min, Evaluation!Min

(* The redeemers in the order of their purposes are redeemers of the       *)
(* transaction.                                                            *)
LEMMA RedeemersSorted ==
  ASSUME NEW s, IsSeq(s),
         \A r \in Elems(s) : r.tag \in {"Spend", "Mint", "Reward"} /\ r.index \in Nat,
         NEW t, t = Evaluation!Sorted(s, Evaluation!sort_redeemers)
  PROVE  DOMAIN t \subseteq Nat /\ \A k \in DOMAIN t : t[k] \in Elems(s)
<1> DEFINE n == Len(s)
<1> DEFINE Ahead(i) == {j \in DOMAIN s : \/ Evaluation!sort_redeemers(s[j], s[i])
                                         \/ (j < i /\ ~Evaluation!sort_redeemers(s[i], s[j]))}
<1> DEFINE At(k) == CHOOSE i \in DOMAIN s : Cardinality(Ahead(i)) = k - 1
<1> DEFINE ahead == [i \in 1..n |-> Ahead(i)]
<1> DEFINE order == [i \in 1..n |-> IF s[i].tag = "Spend" THEN 0 ELSE IF s[i].tag = "Mint" THEN 1 ELSE 3]
<1> DEFINE index == [i \in 1..n |-> s[i].index]
<1>1. n \in Nat /\ DOMAIN s = 1..n /\ \A i \in 1..n : s[i] \in Elems(s)
  BY DEF IsSeq, Elems
<1>2. t = [k \in DOMAIN s |-> s[At(k)]]
  BY DEF Evaluation!Sorted, Evaluation!Cardinality, Cardinality
<1>3. order \in [1..n -> Nat] /\ index \in [1..n -> Nat]
  BY <1>1
<1>4. ASSUME NEW i \in 1..n, NEW j \in 1..n
      PROVE  Evaluation!sort_redeemers(s[i], s[j]) <=>
               order[i] < order[j] \/ (order[i] = order[j] /\ index[i] < index[j])
  <2>1. s[i].tag \in {"Spend", "Mint", "Reward"} /\ s[j].tag \in {"Spend", "Mint", "Reward"}
    BY <1>1
  <2> DEFINE o == [Spend |-> 0, Mint |-> 1, Cert |-> 2, Reward |-> 3, Vote |-> 4, Propose |-> 5]
  <2>2. Evaluation!sort_redeemers(s[i], s[j]) <=>
          o[s[i].tag] < o[s[j].tag] \/ (s[i].tag = s[j].tag /\ index[i] < index[j])
    BY DEF Evaluation!sort_redeemers
  <2>3. o["Spend"] = 0 /\ o["Mint"] = 1 /\ o["Reward"] = 3
    OBVIOUS
  <2> HIDE DEF o
  <2>4. o[s[i].tag] = order[i] /\ o[s[j].tag] = order[j]
    BY <2>1, <2>3
  <2>5. s[i].tag = s[j].tag <=> order[i] = order[j]
    BY <2>1
  <2> QED BY <2>2, <2>4, <2>5
<1>5. \A i, j \in 1..n : j \in ahead[i] <=>
        \/ order[j] < order[i] \/ (order[j] = order[i] /\ index[j] < index[i])
        \/ (j < i /\ ~(order[i] < order[j] \/ (order[i] = order[j] /\ index[i] < index[j])))
  BY <1>1, <1>4
<1>6. ahead \in [1..n -> SUBSET (1..n)]
  BY <1>1
<1>7. \A i \in 1..n : ahead[i] = Ahead(i)
  OBVIOUS
<1> HIDE DEF ahead, Ahead, n, order, index
<1>8. \A i \in 1..n : i \notin ahead[i]
  BY <1>1, <1>3, <1>5
<1>9. ASSUME NEW i \in 1..n, NEW j \in 1..n, NEW k \in 1..n, i \in ahead[j], j \in ahead[k]
      PROVE  i \in ahead[k]
  <2>1. /\ order[i] \in Nat /\ order[j] \in Nat /\ order[k] \in Nat
        /\ index[i] \in Nat /\ index[j] \in Nat /\ index[k] \in Nat
        /\ i \in Nat /\ j \in Nat /\ k \in Nat
    BY <1>1, <1>3
  <2>2. \/ order[i] < order[j] \/ (order[i] = order[j] /\ index[i] < index[j])
        \/ (i < j /\ order[i] = order[j] /\ index[i] = index[j])
    BY <1>5, <1>9, <2>1
  <2>3. \/ order[j] < order[k] \/ (order[j] = order[k] /\ index[j] < index[k])
        \/ (j < k /\ order[j] = order[k] /\ index[j] = index[k])
    BY <1>5, <1>9, <2>1
  <2>4. \/ order[i] < order[k] \/ (order[i] = order[k] /\ index[i] < index[k])
        \/ (i < k /\ order[i] = order[k] /\ index[i] = index[k])
    BY <2>1, <2>2, <2>3
  <2> QED BY <1>5, <2>1, <2>4
<1>10. \A i, j \in 1..n : i # j => i \in ahead[j] \/ j \in ahead[i]
  BY <1>1, <1>3, <1>5
<1>11. \A k \in 1..n : \E i \in 1..n : Cardinality(ahead[i]) = k - 1
  BY <1>1, <1>6, <1>8, <1>9, <1>10, PlacesTaken
<1>12. \A k \in 1..n : At(k) \in 1..n
  BY <1>1, <1>7, <1>11
<1> HIDE DEF At
<1> QED BY <1>1, <1>2, <1>12

(* What is kept holds the inputs and the reference inputs.                 *)
LEMMA KeptInputs ==
  ASSUME NEW tx, MultiEraTx(tx), tx.era = "Conway", NEW outs,
         Elems(tx.ins) \cup Elems(tx.refs) \subseteq DOMAIN outs
  PROVE  \A i \in Elems(tx.ins) \cup Elems(tx.refs) :
           i \in DOMAIN Kept(tx, outs) /\ Kept(tx, outs)[i] = outs[i]
<1>1. IsSeq(<<>>) /\ IsSeq(tx.ins) /\ IsSeq(tx.refs) /\ IsSeq(tx.coll)
  BY NothingSeq DEF MultiEraTx
<1>2. requires(tx) = (tx.ins \o tx.refs) \o tx.coll
  BY DEF requires, inputs, reference_inputs, collateral
<1>3. IsSeq(tx.ins \o tx.refs) /\ Elems(tx.ins \o tx.refs) = Elems(tx.ins) \cup Elems(tx.refs)
  BY <1>1, ElemsConcat
<1>4. Elems(requires(tx)) = Elems(tx.ins) \cup Elems(tx.refs) \cup Elems(tx.coll)
  BY <1>1, <1>2, <1>3, ElemsConcat
<1> QED BY <1>4 DEF Kept

(* The scripts that phase one lets a redeemer run are in the table.        *)
LEMMA TableHas ==
  ASSUME NEW tx, MultiEraTx(tx), tx.era = "Conway", NEW outs, Prepared(tx, outs),
         NEW table, table = Evaluation!from_transaction(tx, Kept(tx, outs))
  PROVE  Runnable(tx, outs) \subseteq DOMAIN table.scripts /\ table.datum = Elems(tx.datums)
<1> DEFINE kept == Kept(tx, outs)
<1> DEFINE refs == {kept[i].script_ref.is : i \in {j \in DOMAIN kept :
                    ~kept[j].legacy /\ Evaluation!IsSome(kept[j].script_ref)}}
<1>1. DOMAIN table.scripts = Elems(tx.native) \cup Elems(tx.v1) \cup Elems(tx.v2) \cup Elems(tx.v3)
                               \cup {r.id : r \in refs}
  <2> HIDE DEF kept
  <2> QED BY DEF Evaluation!from_transaction, Evaluation!multi_era_native_scripts, Evaluation!plutus_v1_scripts,
         Evaluation!plutus_v2_scripts, Evaluation!plutus_v3_scripts, Evaluation!Elems, Elems, kept
<1>2. table.datum = Elems(tx.datums)
  BY DEF Evaluation!from_transaction, Evaluation!plutus_data, Evaluation!Elems, Elems
<1>3. ASSUME NEW h \in ConwayRules!get_reference_script_hashes(tx, outs) PROVE h \in {r.id : r \in refs}
  <2>1. PICK i \in Elems(tx.refs) : /\ ~outs[i].legacy /\ IsSome(outs[i].script_ref)
                                    /\ outs[i].script_ref.is.id = h
    BY DEF ConwayRules!get_reference_script_hashes, ConwayRules!get_script_hash_from_reference_input,
           ConwayRules!IsSome, ConwayRules!Some, ConwayRules!None, ConwayRules!Elems, Elems, IsSome
  <2>2. i \in DOMAIN kept /\ kept[i] = outs[i]
    BY KeptInputs DEF Prepared
  <2> HIDE DEF kept
  <2> QED BY <2>1, <2>2 DEF Evaluation!IsSome, IsSome
<1> HIDE DEF refs, kept
<1> QED BY <1>1, <1>2, <1>3 DEF Runnable

(* What the table has as a native script to run is one in an output.       *)
LEMMA TableNative ==
  ASSUME NEW tx, MultiEraTx(tx), tx.era = "Conway", NEW outs, Prepared(tx, outs), NEW kept, kept = Kept(tx, outs),
         NEW h \in Runnable(tx, outs), Evaluation!from_transaction(tx, kept).scripts[h] = "Native"
  PROVE  NativeReferred(kept)
<1> DEFINE table == Evaluation!from_transaction(tx, kept)
<1> DEFINE refs == {kept[i].script_ref.is : i \in {j \in DOMAIN kept :
                    ~kept[j].legacy /\ Evaluation!IsSome(kept[j].script_ref)}}
<1>1. h \in DOMAIN table.scripts
  BY TableHas
<1>2. table.scripts[h] = CASE \E r \in refs : r.id = h -> (CHOOSE r \in refs : r.id = h).lang
                           [] h \in Elems(tx.v3) -> "V3"
                           [] h \in Elems(tx.v2) -> "V2"
                           [] h \in Elems(tx.v1) -> "V1"
                           [] OTHER -> "Native"
  BY <1>1 DEF Evaluation!from_transaction, Evaluation!plutus_v1_scripts, Evaluation!plutus_v2_scripts,
              Evaluation!plutus_v3_scripts, Evaluation!Elems, Elems
<1>3. \/ h \in Elems(tx.v1) \cup Elems(tx.v2) \cup Elems(tx.v3)
      \/ \E r \in refs : r.id = h
  <2>1. CASE h \in ConwayRules!get_reference_script_hashes(tx, outs)
    <3>1. PICK i \in Elems(tx.refs) : /\ ~outs[i].legacy /\ IsSome(outs[i].script_ref)
                                      /\ outs[i].script_ref.is.id = h
      BY <2>1 DEF ConwayRules!get_reference_script_hashes, ConwayRules!get_script_hash_from_reference_input,
           ConwayRules!IsSome, ConwayRules!Some, ConwayRules!None, ConwayRules!Elems, Elems, IsSome
    <3>2. i \in DOMAIN kept /\ kept[i] = outs[i]
      BY KeptInputs DEF Prepared
    <3> QED BY <3>1, <3>2 DEF Evaluation!IsSome, IsSome
  <2> QED BY <2>1 DEF Runnable
<1>4. CASE \E r \in refs : r.id = h
  <2>1. (CHOOSE r \in refs : r.id = h) \in refs /\ (CHOOSE r \in refs : r.id = h).lang = "Native"
    <3> HIDE DEF refs, table
    <3> QED BY <1>2, <1>4 DEF table
  <2> DEFINE c == CHOOSE r \in refs : r.id = h
  <2>2. PICK i \in DOMAIN kept : ~kept[i].legacy /\ Evaluation!IsSome(kept[i].script_ref) /\ kept[i].script_ref.is = c
    <3> HIDE DEF c
    <3> QED BY <2>1 DEF c
  <2>3. kept[i].script_ref.is.lang = "Native"
    <3> HIDE DEF refs
    <3> QED BY <2>1, <2>2
  <2> QED BY <2>2, <2>3 DEF NativeReferred, IsSome, Evaluation!IsSome
<1>5. CASE ~\E r \in refs : r.id = h
  <2> HIDE DEF refs, table
  <2> QED BY <1>2, <1>3, <1>5 DEF table
<1> QED BY <1>4, <1>5

(* The errors of the resolution of inputs are not about redeemers.         *)
LEMMA InputsResolved ==
  ASSUME NEW s, IsSeq(s), Elems(s) \subseteq Nat, NEW kept, Elems(s) \subseteq DOMAIN kept
  PROVE  /\ Evaluation!get_tx_in_info_v1(s, kept).err \notin Misdirected
         /\ Evaluation!get_tx_in_info_v2(s, kept).err \notin Misdirected
         /\ Evaluation!get_tx_in_info_v1(s, kept).err = "Ok" =>
              Evaluation!get_tx_in_info_v1(s, kept).val = [k \in 1..Len(s) |-> kept[SortRefs(s)[k]]]
         /\ Evaluation!get_tx_in_info_v2(s, kept).err = "Ok" =>
              Evaluation!get_tx_in_info_v2(s, kept).val = [k \in 1..Len(s) |-> kept[SortRefs(s)[k]]]
<1> DEFINE t == SortRefs(s)
<1>1. /\ DOMAIN t = 1..Len(s) /\ Len(s) \in Nat /\ Evaluation!SortRefs(s) = t
      /\ \A k \in DOMAIN t : t[k] \in DOMAIN kept
  BY RefsSorted, SameLists DEF Elems
<1> HIDE DEF t
<1> DEFINE V1(o) == IF o.legacy THEN "Ok"
                    ELSE Evaluation!&&(Evaluation!Ensure(~Evaluation!IsSome(o.inline), "InlineDatumNotAllowed"),
                           Evaluation!Ensure(~Evaluation!IsSome(o.script_ref), "ScriptAndInputRefNotAllowed"))
<1> DEFINE Known(i) == Evaluation!&&(Evaluation!Ensure(i \in DOMAIN kept, "ResolvedInputNotFound"),
                   Evaluation!Ensure(Evaluation!output_address(kept[i]).kind \in {"Key", "Script"}, "ByronAddressNotAllowed"))
<1> DEFINE r1 == [k \in DOMAIN t |-> Evaluation!&&(Known(t[k]), V1(kept[t[k]]))]
<1> DEFINE r2 == [k \in DOMAIN t |-> Evaluation!&&(Known(t[k]), "Ok")]
<1>2. /\ \A k \in DOMAIN r1 : r1[k] \notin Misdirected
      /\ \A k \in DOMAIN r2 : r2[k] \notin Misdirected
  BY <1>1 DEF Misdirected, Evaluation!&&, Evaluation!Ensure
<1>3. DOMAIN r1 \subseteq Nat /\ DOMAIN r2 \subseteq Nat
  BY <1>1
<1>4. /\ Evaluation!get_tx_in_info_v1(s, kept) =
           IF Evaluation!FirstError(r1) = "Ok" THEN Evaluation!Val([k \in DOMAIN t |-> kept[t[k]]])
           ELSE Evaluation!Fail(Evaluation!FirstError(r1))
      /\ Evaluation!get_tx_in_info_v2(s, kept) =
           IF Evaluation!FirstError(r2) = "Ok" THEN Evaluation!Val([k \in DOMAIN t |-> kept[t[k]]])
           ELSE Evaluation!Fail(Evaluation!FirstError(r2))
  BY <1>1 DEF Evaluation!get_tx_in_info_v1, Evaluation!get_tx_in_info_v2, Evaluation!TxInInfo, Evaluation!EachOk
<1> HIDE DEF r1, r2
<1>5. "Ok" \notin Misdirected
  BY DEF Misdirected
<1>6. Evaluation!FirstError(r1) \notin Misdirected /\ Evaluation!FirstError(r2) \notin Misdirected
  BY <1>2, <1>3, <1>5, SomeError, EvaluationErrors
<1> QED BY <1>1, <1>4, <1>5, <1>6 DEF Evaluation!Val, Evaluation!Fail, t

(* A redeemer that the rules let pass has its purpose.                     *)
LEMMA PurposeBuilt ==
  ASSUME NEW tx, MultiEraTx(tx), NEW outs, NEW r, Directed(tx, outs, r), NEW proposals, NEW votes
  PROVE  Evaluation!script_purpose_builder(tx, Len(tx.ins), proposals, votes, r) = "Ok"
<1>1. CASE r.tag = "Spend"
  BY <1>1 DEF Directed, Evaluation!script_purpose_builder, Evaluation!Ensure
<1>2. CASE r.tag = "Mint"
  BY <1>2 DEF Directed, Evaluation!script_purpose_builder, Evaluation!At, Evaluation!Val, PoliciesOf
<1>3. CASE r.tag = "Reward"
  <2>1. Evaluation!At(AccountsOf(tx), r.index, "ExtraneousRedeemer") = Evaluation!Val(AccountsOf(tx)[r.index + 1])
    BY <1>3 DEF Directed, Evaluation!At
  <2>2. AccountsOf(tx)[r.index + 1].script
    BY <1>3 DEF Directed
  <2> HIDE DEF AccountsOf
  <2> DEFINE account == Evaluation!At(AccountsOf(tx), r.index, "ExtraneousRedeemer")
  <2>3. account.err = "Ok" /\ account.val.script
    BY <2>1, <2>2 DEF Evaluation!Val
  <2>4. Evaluation!script_purpose_builder(tx, Len(tx.ins), proposals, votes, r) =
          Evaluation!&&(account.err, Evaluation!Ensure(account.val.script, "NonScriptWithdrawal"))
    BY <1>3 DEF Evaluation!script_purpose_builder, AccountsOf
  <2> HIDE DEF account
  <2> QED BY <2>3, <2>4 DEF Evaluation!&&, Evaluation!Ensure
<1> QED BY <1>1, <1>2, <1>3 DEF Directed

LEMMA PurposesBuilt ==
  ASSUME NEW tx, MultiEraTx(tx), NEW outs, Prepared(tx, outs), NEW proposals, NEW votes
  PROVE  Evaluation!get_redeemers_info(tx, Len(tx.ins), proposals, votes) = "Ok"
<1> DEFINE t == Evaluation!Sorted(tx.redeemers, Evaluation!sort_redeemers)
<1>1. DOMAIN t \subseteq Nat /\ \A k \in DOMAIN t : t[k] \in Elems(tx.redeemers)
  <2>1. IsSeq(tx.redeemers)
    BY DEF MultiEraTx
  <2>2. \A r \in Elems(tx.redeemers) : r.tag \in {"Spend", "Mint", "Reward"} /\ r.index \in Nat
    BY DEF Prepared, Directed
  <2> QED BY <2>1, <2>2, RedeemersSorted
<1> DEFINE results == [k \in DOMAIN t |-> Evaluation!script_purpose_builder(tx, Len(tx.ins), proposals, votes, t[k])]
<1>2. Evaluation!get_redeemers_info(tx, Len(tx.ins), proposals, votes) = Evaluation!FirstError(results)
  BY DEF Evaluation!get_redeemers_info, Evaluation!EachOk
<1> HIDE DEF t
<1>3. \A k \in DOMAIN results : results[k] = "Ok"
  <2> SUFFICES ASSUME NEW k \in DOMAIN t
               PROVE  Evaluation!script_purpose_builder(tx, Len(tx.ins), proposals, votes, t[k]) = "Ok"
    OBVIOUS
  <2> QED BY <1>1, PurposeBuilt DEF Prepared
<1>4. DOMAIN results \subseteq Nat
  BY <1>1
<1> HIDE DEF results
<1> QED BY <1>2, <1>3, <1>4, SomeError, EvaluationErrors

LEMMA RangeGiven ==
  ASSUME NEW tx
  PROVE  Evaluation!get_validity_range_info(tx) \notin Misdirected
<1> DEFINE Bound(b) == IF Evaluation!IsSome(b) THEN Evaluation!slot_to_begin_posix_time(b.is).err ELSE "Ok"
<1> DEFINE s == <<tx.start, tx.ttl>>
<1> DEFINE results == [i \in DOMAIN s |-> Bound(s[i])]
<1>1. Evaluation!get_validity_range_info(tx) = Evaluation!FirstError(results)
  BY DEF Evaluation!get_validity_range_info, Evaluation!EachOk
<1>2. \A b : Bound(b) \notin Misdirected
  BY DEF Evaluation!slot_to_begin_posix_time, Evaluation!Val, Evaluation!Fail, Misdirected
<1> HIDE DEF Bound
<1>3. DOMAIN results \subseteq Nat /\ \A i \in DOMAIN results : results[i] \notin Misdirected
  BY <1>2
<1> HIDE DEF results
<1>4. "Ok" \notin Misdirected
  BY DEF Misdirected
<1> QED BY <1>1, <1>3, <1>4, SomeError, EvaluationErrors

(* The context of a script is built, or fails for another reason.          *)
LEMMA ContextBuilt ==
  ASSUME NEW tx, MultiEraTx(tx), tx.era = "Conway", NEW outs, Prepared(tx, outs), NEW kept, kept = Kept(tx, outs)
  PROVE  /\ Evaluation!TxInfoV1(tx, kept) \notin Misdirected
         /\ Evaluation!TxInfoV2(tx, kept) \notin Misdirected
         /\ Evaluation!TxInfoV3(tx, kept) \notin Misdirected
<1>1. IsSeq(tx.ins) /\ IsSeq(tx.refs) /\ Elems(tx.ins) \subseteq Nat /\ Elems(tx.refs) \subseteq Nat
  BY DEF MultiEraTx
<1>2. Elems(tx.ins) \subseteq DOMAIN kept /\ Elems(tx.refs) \subseteq DOMAIN kept
  BY KeptInputs DEF Prepared
<1>3. /\ Evaluation!get_tx_in_info_v1(tx.ins, kept).err \notin Misdirected
      /\ Evaluation!get_tx_in_info_v2(tx.ins, kept).err \notin Misdirected
      /\ Evaluation!get_tx_in_info_v2(tx.refs, kept).err \notin Misdirected
  BY <1>1, <1>2, InputsResolved
<1>4. \A proposals, votes : Evaluation!get_redeemers_info(tx, Len(tx.ins), proposals, votes) = "Ok"
  BY PurposesBuilt
<1>5. Evaluation!get_validity_range_info(tx) \notin Misdirected
  BY RangeGiven
<1>6. "ScriptAndInputRefNotAllowed" \notin Misdirected
  BY DEF Misdirected
<1> HIDE DEF Misdirected
<1> QED BY <1>3, <1>4, <1>5, <1>6 DEF Evaluation!TxInfoV1, Evaluation!TxInfoV2, Evaluation!TxInfoV3,
           Evaluation!&&, Evaluation!Ensure

(* The script of a redeemer is found, with its datum.                      *)
LEMMA ScriptFound ==
  ASSUME NEW tx, MultiEraTx(tx), tx.era = "Conway", NEW outs, Prepared(tx, outs),
         NEW kept, kept = Kept(tx, outs), NEW table, table = Evaluation!from_transaction(tx, kept),
         NEW r \in Elems(tx.redeemers)
  PROVE  LET found == Evaluation!find_script(r, tx, kept, table)
         IN /\ found.err \notin Misdirected \ Excused(tx, kept)
            /\ found.err = "Ok" => found.val.script \in Runnable(tx, outs)
<1> DEFINE Script(hash) == IF hash \in DOMAIN table.scripts
              THEN Evaluation!Val([script |-> hash, datum |-> Evaluation!None])
              ELSE Evaluation!Fail("MissingRequiredScript")
<1> DEFINE Target(s) == Evaluation!At(s, r.index, "MissingScriptForRedeemer")
<1>1. Directed(tx, outs, r)
  BY DEF Prepared
<1>2. Runnable(tx, outs) \subseteq DOMAIN table.scripts /\ table.datum = Elems(tx.datums)
  BY TableHas
<1>3. "Ok" \notin Misdirected
  BY DEF Misdirected
<1>4. \A h \in Runnable(tx, outs) : Script(h).err = "Ok" /\ Script(h).val.script = h
  BY <1>2 DEF Evaluation!Val
<1>5. CASE r.tag = "Mint"
  <2> DEFINE t == Target(PoliciesOf(tx))
  <2>1. t = Evaluation!Val(PoliciesOf(tx)[r.index + 1]) /\ PoliciesOf(tx)[r.index + 1] \in Runnable(tx, outs)
    BY <1>1, <1>5 DEF Directed, Evaluation!At
  <2>2. t.err = "Ok" /\ t.val \in Runnable(tx, outs)
    <3> HIDE DEF t
    <3> QED BY <2>1 DEF Evaluation!Val
  <2>3. Evaluation!find_script(r, tx, kept, table) = IF t.err = "Ok" THEN Script(t.val) ELSE t
    BY <1>5 DEF Evaluation!find_script, PoliciesOf
  <2> HIDE DEF t, Script
  <2> QED BY <1>3, <1>4, <2>2, <2>3
<1>6. CASE r.tag = "Reward"
  <2> DEFINE t == Target(AccountsOf(tx))
  <2>1. /\ t = Evaluation!Val(AccountsOf(tx)[r.index + 1]) /\ AccountsOf(tx)[r.index + 1].script
        /\ AccountsOf(tx)[r.index + 1].id \in Runnable(tx, outs)
    BY <1>1, <1>6 DEF Directed, Evaluation!At
  <2>2. t.err = "Ok" /\ t.val.script /\ t.val.id \in Runnable(tx, outs)
    <3> HIDE DEF t
    <3> QED BY <2>1 DEF Evaluation!Val
  <2>3. Evaluation!find_script(r, tx, kept, table) =
          IF t.err = "Ok" THEN IF t.val.script THEN Script(t.val.id) ELSE Evaluation!Fail("NonScriptWithdrawal")
          ELSE t
    BY <1>6 DEF Evaluation!find_script, AccountsOf
  <2> HIDE DEF t, Script
  <2> QED BY <1>3, <1>4, <2>2, <2>3
<1>7. CASE r.tag = "Spend"
  <2> DEFINE ins == IF Evaluation!get_tx_in_info_v2(tx.ins, kept).err = "ByronAddressNotAllowed"
                    THEN Evaluation!get_tx_in_info_v1(tx.ins, kept) ELSE Evaluation!get_tx_in_info_v2(tx.ins, kept)
  <2> DEFINE i == SortRefs(tx.ins)[r.index + 1]
  <2>1. /\ r.index \in Nat /\ r.index < Len(tx.ins) /\ outs[i].addr.kind = "Script"
        /\ outs[i].addr.id \in Runnable(tx, outs)
    BY <1>1, <1>7 DEF Directed
  <2>2. IsSeq(tx.ins) /\ Elems(tx.ins) \subseteq Nat
    BY DEF MultiEraTx
  <2>3. /\ \A x \in Elems(tx.ins) : x \in DOMAIN kept /\ kept[x] = outs[x]
    BY KeptInputs DEF Prepared
  <2>4. Len(tx.ins) \in Nat /\ i \in Elems(tx.ins)
    <3>1. /\ DOMAIN SortRefs(tx.ins) = 1..Len(tx.ins) /\ Len(tx.ins) \in Nat
          /\ Elems(SortRefs(tx.ins)) \subseteq Elems(tx.ins)
      BY <2>2, RefsSorted
    <3>2. r.index + 1 \in DOMAIN SortRefs(tx.ins)
      BY <2>1, <3>1
    <3>3. \A s : \A k \in DOMAIN s : s[k] \in Elems(s)
      BY DEF Elems
    <3> QED BY <3>1, <3>2, <3>3
  <2> HIDE DEF i
  <2>5. ins.err \notin Misdirected /\ (ins.err = "Ok" => ins.val = [k \in 1..Len(tx.ins) |-> kept[SortRefs(tx.ins)[k]]])
    <3>1. Elems(tx.ins) \subseteq DOMAIN kept
      BY <2>3
    <3> QED BY <2>2, <3>1, InputsResolved
  <2> DEFINE o == kept[i]
  <2> DEFINE d == CASE Evaluation!IsSome(o.inline) -> Evaluation!Val(o.inline)
                    [] ~Evaluation!IsSome(o.inline) /\ Evaluation!IsSome(o.datum) ->
                         IF o.datum.is \in table.datum THEN Evaluation!Val(o.datum)
                         ELSE Evaluation!Fail("MissingRequiredDatum")
                    [] OTHER -> Evaluation!Val(Evaluation!None)
  <2> DEFINE Spend == IF Script(o.addr.id).err # "Ok" THEN Script(o.addr.id)
                      ELSE IF d.err # "Ok" THEN d
                      ELSE IF ~Evaluation!IsSome(d.val) /\ table.scripts[o.addr.id] \in {"V1", "V2"}
                      THEN Evaluation!Fail("MissingRequiredInlineDatumOrHash")
                      ELSE Evaluation!Val([script |-> o.addr.id, datum |-> d.val])
  <2>6. ins.err = "Ok" => Evaluation!find_script(r, tx, kept, table) = Spend
    <3> SUFFICES ASSUME ins.err = "Ok" PROVE Evaluation!find_script(r, tx, kept, table) = Spend
      OBVIOUS
    <3> DEFINE u == Target(ins.val)
    <3>1. u.err = "Ok" /\ u.val = o
      <4>1. ins.val \in Seq({kept[SortRefs(tx.ins)[k]] : k \in 1..Len(tx.ins)}) /\ Len(ins.val) = Len(tx.ins)
        <5> HIDE DEF ins
        <5> QED BY <2>4, <2>5
      <4>2. ins.val[r.index + 1] = o
        <5> HIDE DEF ins
        <5> QED BY <2>1, <2>4, <2>5 DEF i
      <4>3. u = Evaluation!Val(o)
        <5> HIDE DEF ins, o
        <5> QED BY <2>1, <4>1, <4>2 DEF Evaluation!At
      <4> HIDE DEF u, o
      <4> QED BY <4>3 DEF Evaluation!Val
    <3> DEFINE D(x) == CASE Evaluation!IsSome(x.inline) -> Evaluation!Val(x.inline)
                    [] ~Evaluation!IsSome(x.inline) /\ Evaluation!IsSome(x.datum) ->
                         IF x.datum.is \in table.datum THEN Evaluation!Val(x.datum)
                         ELSE Evaluation!Fail("MissingRequiredDatum")
                    [] OTHER -> Evaluation!Val(Evaluation!None)
    <3> DEFINE S(x) == IF Script(x.addr.id).err # "Ok" THEN Script(x.addr.id)
                      ELSE IF D(x).err # "Ok" THEN D(x)
                      ELSE IF ~Evaluation!IsSome(D(x).val) /\ table.scripts[x.addr.id] \in {"V1", "V2"}
                      THEN Evaluation!Fail("MissingRequiredInlineDatumOrHash")
                      ELSE Evaluation!Val([script |-> x.addr.id, datum |-> D(x).val])
    <3>2. Evaluation!find_script(r, tx, kept, table) =
            IF ins.err = "Ok" THEN IF u.err = "Ok" THEN S(u.val) ELSE u ELSE ins
      BY <1>7 DEF Evaluation!find_script
    <3>3. S(o) = Spend
      OBVIOUS
    <3> HIDE DEF ins, u, S, Spend, o
    <3> QED BY <3>1, <3>2, <3>3
  <2>7. ins.err # "Ok" => Evaluation!find_script(r, tx, kept, table) = ins
    BY <1>7 DEF Evaluation!find_script
  <2>8. o = outs[i] /\ o.addr.kind = "Script" /\ o.addr.id \in Runnable(tx, outs)
    BY <2>1, <2>3, <2>4
  <2>9. Evaluation!IsSome(o.datum) => o.datum.is \in table.datum
    BY <1>2, <2>4, <2>8 DEF Prepared, Evaluation!IsSome, IsSome
  <2>10. d.err = "Ok"
    <3> HIDE DEF o
    <3> QED BY <2>9 DEF Evaluation!Val
  <2>11. ASSUME ~Evaluation!IsSome(d.val), table.scripts[o.addr.id] \in {"V1", "V2"}
         PROVE  Datumless(tx, kept)
    <3>1. ~Evaluation!IsSome(o.inline) /\ ~Evaluation!IsSome(o.datum)
      <4> HIDE DEF o
      <4> QED BY <2>9, <2>11 DEF Evaluation!Val
    <3>2. i \in Elems(tx.ins) /\ o.addr.id \in DOMAIN table.scripts
      BY <1>2, <2>4, <2>8
    <3> QED BY <2>8, <2>11, <3>1, <3>2 DEF Datumless, IsSome, Evaluation!IsSome
  <2>12. /\ Spend.err \notin Misdirected \ Excused(tx, kept)
         /\ Spend.err = "Ok" => Spend.val.script \in Runnable(tx, outs)
    <3>1. Datumless(tx, kept) => "MissingRequiredInlineDatumOrHash" \in Excused(tx, kept)
      BY DEF Excused
    <3> HIDE DEF d, o, Script
    <3> QED BY <1>3, <1>4, <2>8, <2>10, <2>11, <3>1 DEF Evaluation!Val, Evaluation!Fail
  <2> HIDE DEF ins, Spend
  <2> QED BY <2>5, <2>6, <2>7, <2>12
<1> QED BY <1>1, <1>5, <1>6, <1>7 DEF Directed

(* So evaluating it does not fail for want of what it points at.           *)
LEMMA RedeemerEvaluated ==
  ASSUME NEW tx, MultiEraTx(tx), tx.era = "Conway", NEW outs, Prepared(tx, outs),
         NEW kept, kept = Kept(tx, outs), NEW table, table = Evaluation!from_transaction(tx, kept),
         NEW r \in Elems(tx.redeemers)
  PROVE  Evaluation!eval_redeemer(r, tx, kept, table).err \notin Misdirected \ Excused(tx, kept)
<1> DEFINE found == Evaluation!find_script(r, tx, kept, table)
<1> DEFINE lang == table.scripts[found.val.script]
<1> DEFINE info == CASE lang = "Native" -> "NativeScriptPhaseTwo"
                     [] lang = "V1" -> Evaluation!TxInfoV1(tx, kept)
                     [] lang = "V2" -> Evaluation!TxInfoV2(tx, kept)
                     [] OTHER -> Evaluation!TxInfoV3(tx, kept)
<1>1. /\ found.err \notin Misdirected \ Excused(tx, kept)
      /\ found.err = "Ok" => found.val.script \in Runnable(tx, outs)
  BY ScriptFound
<1>2. Evaluation!eval_redeemer(r, tx, kept, table) =
        IF found.err # "Ok" THEN found ELSE IF info # "Ok" THEN Evaluation!Fail(info)
        ELSE Evaluation!Val(Evaluation!eval_script(lang, found.val.script, found.val.datum))
  BY DEF Evaluation!eval_redeemer
<1>3. found.err = "Ok" => info \notin Misdirected \ Excused(tx, kept)
  <2> SUFFICES ASSUME found.err = "Ok" PROVE info \notin Misdirected \ Excused(tx, kept)
    OBVIOUS
  <2>1. lang = "Native" => "NativeScriptPhaseTwo" \in Excused(tx, kept)
    <3>1. found.val.script \in Runnable(tx, outs)
      BY <1>1
    <3> HIDE DEF found
    <3> QED BY <3>1, TableNative DEF Excused
  <2>2. /\ Evaluation!TxInfoV1(tx, kept) \notin Misdirected
        /\ Evaluation!TxInfoV2(tx, kept) \notin Misdirected
        /\ Evaluation!TxInfoV3(tx, kept) \notin Misdirected
    BY ContextBuilt
  <2> HIDE DEF lang
  <2>3. CASE lang = "Native"
    BY <2>1, <2>3
  <2>4. CASE lang = "V1"
    BY <2>2, <2>4
  <2>5. CASE lang = "V2"
    BY <2>2, <2>5
  <2>6. CASE lang \notin {"Native", "V1", "V2"}
    BY <2>2, <2>6
  <2> QED BY <2>3, <2>4, <2>5, <2>6
<1>4. "Ok" \notin Misdirected
  BY DEF Misdirected
<1> HIDE DEF found, lang, info
<1> QED BY <1>1, <1>2, <1>3, <1>4 DEF Evaluation!Val, Evaluation!Fail

LEMMA TxEvaluated ==
  ASSUME NEW tx, MultiEraTx(tx), tx.era = "Conway", NEW outs, Prepared(tx, outs)
  PROVE  Evaluation!eval_tx(tx, Kept(tx, outs)).err \notin Misdirected \ Excused(tx, Kept(tx, outs))
<1> DEFINE kept == Kept(tx, outs)
<1> DEFINE table == Evaluation!from_transaction(tx, kept)
<1> DEFINE evals == [i \in DOMAIN tx.redeemers |-> Evaluation!eval_redeemer(tx.redeemers[i], tx, kept, table)]
<1> DEFINE errs == [i \in DOMAIN evals |-> evals[i].err]
<1>1. Evaluation!redeemers(tx) = tx.redeemers
  BY DEF Evaluation!redeemers
<1>2. ASSUME NEW i \in DOMAIN tx.redeemers
      PROVE  Evaluation!eval_redeemer(tx.redeemers[i], tx, kept, table).err \notin Misdirected \ Excused(tx, kept)
  <2>1. tx.redeemers[i] \in Elems(tx.redeemers)
    BY DEF Elems
  <2> HIDE DEF table, kept
  <2> QED BY <2>1, RedeemerEvaluated DEF table, kept
<1> HIDE DEF table, kept
<1>3. DOMAIN errs \subseteq Nat /\ \A i \in DOMAIN errs : errs[i] \notin Misdirected \ Excused(tx, kept)
  BY <1>2, SeqDomain DEF MultiEraTx
<1>4. Evaluation!eval_tx(tx, kept) =
        IF \E i \in DOMAIN kept : ~Evaluation!Decodes(kept[i]) THEN Evaluation!Fail("DecodeError")
        ELSE Evaluation!Collect(evals)
  BY <1>1 DEF Evaluation!eval_tx, table
<1>5. Evaluation!Collect(evals).err = Evaluation!FirstError(errs)
  <2> HIDE DEF evals
  <2> QED BY DEF Evaluation!Collect, Evaluation!Val, Evaluation!Fail
<1> HIDE DEF errs, evals
<1>6. "Ok" \notin Misdirected /\ "DecodeError" \notin Misdirected
  BY DEF Misdirected
<1>7. Evaluation!FirstError(errs) \notin Misdirected \ Excused(tx, kept)
  BY <1>3, <1>6, SomeError, EvaluationErrors
<1>8. Evaluation!Fail("DecodeError").err = "DecodeError"
  BY DEF Evaluation!Fail
<1>9. Evaluation!eval_tx(tx, kept).err \notin Misdirected \ Excused(tx, kept)
  BY <1>4, <1>5, <1>6, <1>7, <1>8
<1> QED BY <1>9 DEF kept

(* A verdict whose transactions can be evaluated.                          *)
FoundOf(verdict) ==
  verdict.err = "Ok" =>
    \A t \in DOMAIN verdict.txs :
      verdict.txs[t].era = "Conway" =>
        Evaluation!eval_tx(verdict.txs[t], verdict.spent[t]).err
          \notin Misdirected \ Excused(verdict.txs[t], verdict.spent[t])

LEMMA VerdictFound ==
  ASSUME LedgerInv, NEW verdict,
         verdict.err = validate_txs(block, Eras[era], acnt, utxos, certs).err,
         verdict.txs = block, verdict.spent = [i \in DOMAIN block |-> Kept(block[i], utxos)]
  PROVE  FoundOf(verdict)
<1> SUFFICES ASSUME verdict.err = "Ok", NEW t \in DOMAIN block, block[t].era = "Conway"
             PROVE  Evaluation!eval_tx(block[t], Kept(block[t], utxos)).err
                      \notin Misdirected \ Excused(block[t], Kept(block[t], utxos))
  BY DEF FoundOf
<1>1. MultiEraTx(block[t])
  BY DEF LedgerInv
<1> DEFINE r == validate_txs(block, Eras[era], acnt, utxos, certs)
<1>2. PICK c : validate_tx(block[t], t - 1, Eras[era], acnt, utxos, c).err = "Ok"
  <2>1. IsSeq(block) /\ (\A n \in DOMAIN block : MultiEraTx(block[n])) /\ CertsOK(certs) /\ r.err = "Ok"
    BY DEF LedgerInv
  <2>2. r.err = "Ok" =>
          \A n \in DOMAIN block : \E c :
            CertsOK(c) /\ validate_tx(block[n], n - 1, Eras[era], acnt, utxos, c).err = "Ok"
    BY <2>1, BlockVerdict
  <2> QED BY <2>1, <2>2
<1>3. Eras[era] \in {"Byron", "Shelley", "Alonzo", "Babbage", "Conway"}
  BY LedgerAssumption DEF LedgerInv
<1>4. /\ Eras[era] = "Conway"
      /\ ConwayRules!validate_conway_tx(block[t], utxos, Params["Conway"], slot, Env.net) = "Ok"
  BY <1>2, <1>3 DEF validate_tx
<1>5. Prepared(block[t], utxos)
  BY <1>1, <1>4, ConwayPrepares
<1> QED BY <1>1, <1>5, TxEvaluated

(* Only a verdict on a block changes what the property is about.           *)
LEMMA FoundStep ==
  ASSUME LedgerInv, RedeemersFound, [Next]_vars
  PROVE  RedeemersFound'
<1>1. CASE UNCHANGED last
  BY <1>1 DEF RedeemersFound, Accepted
<1>2. CASE ValidateTxs
  <2>1. last' = [err |-> validate_txs(block, Eras[era], acnt, utxos, certs).err, txs |-> block,
                 spent |-> [i \in DOMAIN block |-> Kept(block[i], utxos)]]
    BY <1>2 DEF ValidateTxs, Kept
  <2>2. /\ last'.err = validate_txs(block, Eras[era], acnt, utxos, certs).err
        /\ last'.txs = block /\ last'.spent = [i \in DOMAIN block |-> Kept(block[i], utxos)]
    BY <2>1
  <2>3. FoundOf(last')
    BY <2>2, VerdictFound
  <2> QED BY <2>3 DEF RedeemersFound, Accepted, FoundOf
<1> QED BY <1>1, <1>2 DEF Next, HardFork, Compose, Edit, vars

(* Phase one prepares phase two: whatever transactions validate_txs        *)
(* accepts in the Conway era, evaluating one of them never fails for want  *)
(* of what a redeemer points at, of its script or of its datum, nor for a  *)
(* script without a phase two, but for the outputs of PlutusV1 and         *)
(* PlutusV2 scripts that have no datum and for native reference scripts.   *)
THEOREM LedgerRedeemersFound ==
  Spec => []RedeemersFound
<1>1. Init => RedeemersFound
  <2> SUFFICES ASSUME Init PROVE RedeemersFound
    OBVIOUS
  <2>1. last.err = "None"
    BY DEF Init
  <2>2. Accepted = {}
    BY <2>1 DEF Accepted
  <2> QED BY <2>2 DEF RedeemersFound
<1>2. LedgerInv /\ RedeemersFound /\ [Next]_vars => LedgerInv' /\ RedeemersFound'
  BY LedgerStep, FoundStep
<1>3. Init => LedgerInv
  BY LedgerInit
<1> QED BY <1>1, <1>2, <1>3, PTL DEF Spec

=============================================================================
