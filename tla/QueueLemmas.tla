----------------------------- MODULE QueueLemmas -----------------------------
(***************************************************************************)
(* What the proofs of several components need about naturals and           *)
(* sequences.  The induction theorems of the library take an operator,     *)
(* which the provers cannot instantiate, so a recursive function is        *)
(* reasoned about by its least counterexample.                             *)
(***************************************************************************)
EXTENDS SequencesExt, SequenceTheorems, FiniteSetTheorems, WellFoundedInduction, TLAPS

(* A non-empty set of indices has a least one.                             *)
LEMMA LeastOf ==
  ASSUME NEW T, T \subseteq Nat, T # {}
  PROVE  \E x \in T : \A y \in T : x <= y
<1> DEFINE R == OpToRel(<, Nat)
<1>1. IsWellFoundedOn(R, Nat)
  BY NatLessThanWellFounded
<1>2. \A x, y \in Nat : y < x => <<y, x>> \in R
  BY DEF OpToRel
<1> HIDE DEF R
<1>3. PICK x \in T : \A y \in T : ~(<<y, x>> \in R)
  BY <1>1, WFMin, Zenon
<1>4. ASSUME NEW y \in T PROVE x <= y
  <2>1. ~(y < x)
    BY <1>2, <1>3
  <2>2. x \in Nat /\ y \in Nat
    OBVIOUS
  <2> QED BY <2>1, <2>2
<1> QED BY <1>4

(* FlattenSeq of the community modules: the prefixes of the concatenation. *)
(* The recursive function has a solution, since no least length lacks one. *)
LEMMA FlattenFacts ==
  ASSUME NEW S, NEW seqs \in Seq(Seq(S)), Len(seqs) # 0
  PROVE  \E f : /\ FlattenSeq(seqs) = f[Len(seqs)]
                /\ \A i \in 1..Len(seqs) : f[i] \in Seq(S)
                /\ f[1] = seqs[1]
                /\ \A i \in 2..Len(seqs) : f[i] = f[i - 1] \o seqs[i]
<1> DEFINE n == Len(seqs)
<1> DEFINE Step(i, before) == IF i = 1 THEN seqs[i] ELSE before \o seqs[i]
<1> DEFINE Def(g) == [i \in 1..n |-> Step(i, g[i - 1])]
<1> DEFINE f == CHOOSE g : g = Def(g)
<1>0. FlattenSeq(seqs) = f[n]
  BY DEF FlattenSeq
<1>1. n \in Nat /\ n # 0 /\ \A i \in 1..n : seqs[i] \in Seq(S)
  OBVIOUS
<1>2. /\ \A x : Step(1, x) = seqs[1]
      /\ \A i \in 2..n : \A x : Step(i, x) = x \o seqs[i]
  OBVIOUS
<1>3. ASSUME NEW i \in 2..n, NEW before \in Seq(S) PROVE Step(i, before) \in Seq(S)
  BY <1>1, <1>2
<1> HIDE DEF Step, n
<1> DEFINE Upto(m, g) == \A i \in 1..m : g[i] = Step(i, g[i - 1])
<1> DEFINE Bad == {m \in 1..n : ~\E g \in [1..m -> Seq(S)] : Upto(m, g)}
<1> HIDE DEF Upto
<1>4. Bad = {}
  <2> SUFFICES ASSUME Bad # {} PROVE FALSE
    OBVIOUS
  <2>0. Bad \subseteq Nat
    BY <1>1
  <2>1. PICK m \in Bad : \A k \in Bad : m <= k
    <3> HIDE DEF Bad
    <3> QED BY <2>0, LeastOf
  <2>2. CASE m = 1
    <3> DEFINE g == [i \in 1..1 |-> seqs[1]]
    <3>1. g \in [1..m -> Seq(S)]
      BY <1>1, <2>2
    <3>2. Upto(m, g)
      BY <1>2, <2>2 DEF Upto
    <3> QED BY <3>1, <3>2
  <2>3. CASE m # 1
    <3>1. m \in 2..n /\ m - 1 \in 1..n /\ m - 1 \notin Bad
      BY <1>1, <2>1, <2>3, SMTT(30)
    <3>2. PICK g \in [1..(m - 1) -> Seq(S)] : Upto(m - 1, g)
      BY <3>1
    <3> DEFINE h == [i \in 1..m |-> IF i = m THEN Step(m, g[m - 1]) ELSE g[i]]
    <3>3. h \in [1..m -> Seq(S)]
      <4>1. g[m - 1] \in Seq(S)
        BY <3>1
      <4>2. Step(m, g[m - 1]) \in Seq(S)
        BY <1>3, <3>1, <4>1
      <4> QED BY <3>1, <4>2
    <3>4. ASSUME NEW i \in 1..m PROVE h[i] = Step(i, h[i - 1])
      <4>1. CASE i = m
        BY <4>1, <3>1
      <4>2. CASE i # m /\ i # 1
        <5>1. i \in 1..(m - 1) /\ i - 1 \in 1..(m - 1) /\ h[i] = g[i] /\ h[i - 1] = g[i - 1]
          BY <4>2, <3>1
        <5> QED BY <5>1, <3>2 DEF Upto
      <4>3. CASE i # m /\ i = 1
        <5>1. 1 \in 1..(m - 1) /\ h[i] = g[i]
          BY <4>3, <3>1
        <5> QED BY <5>1, <3>2, <1>2, <4>3 DEF Upto
      <4> QED BY <4>1, <4>2, <4>3
    <3>5. Upto(m, h)
      BY <3>4 DEF Upto
    <3> HIDE DEF h
    <3> QED BY <3>3, <3>5
  <2> QED BY <2>2, <2>3
<1>5. PICK g \in [1..n -> Seq(S)] : Upto(n, g)
  <2>1. n \in 1..n
    BY <1>1
  <2> QED BY <1>4, <2>1
<1>6. g = Def(g)
  BY <1>5 DEF Upto
<1>7. f = Def(f)
  BY <1>6
<1> HIDE DEF f
<1>8. \A i \in 1..n : f[i] = Step(i, f[i - 1])
  BY <1>7
<1>9. f[1] = seqs[1] /\ \A i \in 2..n : f[i] = f[i - 1] \o seqs[i]
  <2>1. 1 \in 1..n
    BY <1>1
  <2>2. f[1] = seqs[1]
    BY <1>2, <1>8, <2>1
  <2>3. ASSUME NEW i \in 2..n PROVE f[i] = f[i - 1] \o seqs[i]
    <3>1. i \in 1..n
      BY <1>1
    <3> QED BY <1>2, <1>8, <3>1
  <2> QED BY <2>2, <2>3
<1> DEFINE Odd == {i \in 1..n : f[i] \notin Seq(S)}
<1>10. Odd = {}
  <2> SUFFICES ASSUME Odd # {} PROVE FALSE
    OBVIOUS
  <2>0. Odd \subseteq Nat
    BY <1>1
  <2>1. PICK i \in Odd : \A k \in Odd : i <= k
    <3> HIDE DEF Odd
    <3> QED BY <2>0, LeastOf
  <2>2. CASE i = 1
    BY <1>1, <1>9, <2>2
  <2>3. CASE i # 1
    <3>1. i \in 2..n /\ i - 1 \in 1..n /\ i - 1 \notin Odd
      BY <1>1, <2>1, <2>3
    <3>2. f[i - 1] \in Seq(S) /\ seqs[i] \in Seq(S)
      BY <1>1, <3>1
    <3>3. f[i] = f[i - 1] \o seqs[i]
      BY <1>9, <3>1
    <3>4. f[i] \notin Seq(S)
      OBVIOUS
    <3> QED BY <3>2, <3>3, <3>4
  <2> QED BY <2>2, <2>3
<1>11. \A i \in 1..n : f[i] \in Seq(S)
  BY <1>10
<1> QED BY <1>0, <1>9, <1>11 DEF n

(* The concatenation of queues is a queue.                                 *)
LEMMA FlattenType ==
  ASSUME NEW S, NEW seqs \in Seq(Seq(S))
  PROVE  FlattenSeq(seqs) \in Seq(S)
<1>1. CASE Len(seqs) = 0
  BY <1>1 DEF FlattenSeq
<1>2. CASE Len(seqs) # 0
  <2>1. Len(seqs) \in 1..Len(seqs)
    BY <1>2
  <2> QED BY <1>2, <2>1, FlattenFacts
<1> QED BY <1>1, <1>2

(* Induction over sequences, for a set of sequences instead of a           *)
(* predicate.                                                              *)
LEMMA SeqInduct ==
  ASSUME NEW S, NEW T, <<>> \in T, \A s \in T, x \in S : Append(s, x) \in T
  PROVE  Seq(S) \subseteq T
<1> SUFFICES ASSUME NEW odd \in Seq(S), odd \notin T PROVE FALSE
  OBVIOUS
<1> DEFINE Lengths == {n \in Nat : \E s \in Seq(S) : s \notin T /\ Len(s) = n}
<1>1. Lengths # {}
  OBVIOUS
<1>2. PICK n \in Lengths : \A m \in Lengths : n <= m
  <2>1. Lengths \subseteq Nat
    OBVIOUS
  <2> HIDE DEF Lengths
  <2> QED BY <1>1, <2>1, LeastOf
<1>3. PICK s \in Seq(S) : s \notin T /\ Len(s) = n
  OBVIOUS
<1>4. s # <<>>
  BY <1>3
<1>5. PICK r \in Seq(S), x \in S : s = Append(r, x)
  BY <1>4, SequenceEmptyOrAppend
<1>6. Len(r) \in Nat /\ Len(r) = n - 1 /\ n \in Nat
  BY <1>3, <1>5
<1>7. r \in T
  BY <1>2, <1>6
<1> QED BY <1>3, <1>5, <1>7

-----------------------------------------------------------------------------
(* FlattenSeq is a homomorphism.                                           *)

LEMMA FlattenEmpty == FlattenSeq(<<>>) = <<>>
BY DEF FlattenSeq

LEMMA FlattenAppend ==
  ASSUME NEW S, NEW ss \in Seq(Seq(S)), NEW t \in Seq(S)
  PROVE  FlattenSeq(Append(ss, t)) = FlattenSeq(ss) \o t
<1> DEFINE n == Len(ss)
<1> DEFINE tt == Append(ss, t)
<1>1. /\ tt \in Seq(Seq(S)) /\ Len(tt) = n + 1 /\ n \in Nat
      /\ tt[n + 1] = t /\ \A i \in 1..n : tt[i] = ss[i]
  BY AppendProperties
<1> HIDE DEF tt
<1>2. PICK g : /\ FlattenSeq(tt) = g[n + 1]
               /\ \A i \in 1..(n + 1) : g[i] \in Seq(S)
               /\ g[1] = tt[1]
               /\ \A i \in 2..(n + 1) : g[i] = g[i - 1] \o tt[i]
  <2>1. Len(tt) # 0
    BY <1>1
  <2>2. \E g : /\ FlattenSeq(tt) = g[Len(tt)]
               /\ \A i \in 1..Len(tt) : g[i] \in Seq(S)
               /\ g[1] = tt[1]
               /\ \A i \in 2..Len(tt) : g[i] = g[i - 1] \o tt[i]
    BY <1>1, <2>1, FlattenFacts, ZenonT(30)
  <2> HIDE DEF n
  <2> QED BY <1>1, <2>2
<1>3. CASE n = 0
  <2>1. ss = <<>>
    BY <1>3
  <2>2. FlattenSeq(tt) = t
    BY <1>1, <1>2, <1>3
  <2>3. <<>> \o t = t
    OBVIOUS
  <2>4. FlattenSeq(ss) \o t = t
    BY <2>1, <2>3, FlattenEmpty
  <2> QED BY <2>2, <2>4 DEF tt
<1>4. CASE n # 0
  <2>1. PICK f : /\ FlattenSeq(ss) = f[n]
                 /\ \A i \in 1..n : f[i] \in Seq(S)
                 /\ f[1] = ss[1]
                 /\ \A i \in 2..n : f[i] = f[i - 1] \o ss[i]
    BY <1>4, FlattenFacts
  <2> DEFINE Odd == {i \in 1..n : f[i] # g[i]}
  <2>2. Odd = {}
    <3> SUFFICES ASSUME Odd # {} PROVE FALSE
      OBVIOUS
    <3>1. PICK i \in Odd : \A k \in Odd : i <= k
      <4>1. Odd \subseteq Nat
        BY <1>1
      <4> HIDE DEF Odd
      <4> QED BY <4>1, LeastOf
    <3>2. CASE i = 1
      <4>1. 1 \in 1..n
        BY <1>1, <1>4
      <4> QED BY <1>1, <1>2, <2>1, <3>2, <4>1
    <3>3. CASE i # 1
      <4>1. i \in 2..n /\ i \in 2..(n + 1) /\ i - 1 \in 1..n /\ i - 1 \notin Odd /\ i \in 1..n
        BY <1>1, <3>1, <3>3
      <4>2. f[i] = f[i - 1] \o ss[i]
        BY <2>1, <4>1
      <4>3. g[i] = g[i - 1] \o tt[i] /\ tt[i] = ss[i]
        BY <1>1, <1>2, <4>1
      <4>4. f[i - 1] = g[i - 1]
        BY <4>1
      <4> QED BY <4>2, <4>3, <4>4
    <3> QED BY <3>2, <3>3
  <2>3. f[n] = g[n]
    <3>1. n \in 1..n
      BY <1>1, <1>4
    <3> QED BY <2>2, <3>1
  <2>4. g[n + 1] = g[n] \o t
    <3>1. n + 1 \in 2..(n + 1) /\ (n + 1) - 1 = n
      BY <1>1, <1>4
    <3> HIDE DEF n
    <3> QED BY <1>1, <1>2, <3>1
  <2> QED BY <1>2, <2>1, <2>3, <2>4 DEF tt
<1> QED BY <1>3, <1>4

LEMMA FlattenConcat ==
  ASSUME NEW S, NEW ss \in Seq(Seq(S)), NEW tt \in Seq(Seq(S))
  PROVE  FlattenSeq(ss \o tt) = FlattenSeq(ss) \o FlattenSeq(tt)
<1> DEFINE T == {rr \in Seq(Seq(S)) : FlattenSeq(ss \o rr) = FlattenSeq(ss) \o FlattenSeq(rr)}
<1>1. <<>> \in T
  <2>1. ss \o <<>> = ss /\ FlattenSeq(ss) \o <<>> = FlattenSeq(ss)
    BY FlattenType, ConcatEmptySeq
  <2>2. FlattenSeq(ss \o <<>>) = FlattenSeq(ss) \o FlattenSeq(<<>>)
    BY <2>1, FlattenEmpty
  <2>3. <<>> \in Seq(Seq(S))
    OBVIOUS
  <2> QED BY <2>2, <2>3
<1>2. ASSUME NEW rr \in T, NEW x \in Seq(S) PROVE Append(rr, x) \in T
  <2>1. ss \o Append(rr, x) = Append(ss \o rr, x)
    OBVIOUS
  <2>2. FlattenSeq(Append(ss \o rr, x)) = (FlattenSeq(ss) \o FlattenSeq(rr)) \o x
    <3>1. ss \o rr \in Seq(Seq(S)) /\ FlattenSeq(ss \o rr) = FlattenSeq(ss) \o FlattenSeq(rr)
      BY ConcatProperties
    <3> QED BY <3>1, FlattenAppend
  <2>3. FlattenSeq(Append(rr, x)) = FlattenSeq(rr) \o x
    BY FlattenAppend
  <2>4. FlattenSeq(ss) \in Seq(S) /\ FlattenSeq(rr) \in Seq(S)
    BY FlattenType
  <2>5. (FlattenSeq(ss) \o FlattenSeq(rr)) \o x = FlattenSeq(ss) \o (FlattenSeq(rr) \o x)
    BY <2>4, ConcatAssociative, SMTT(30)
  <2>6. Append(rr, x) \in Seq(Seq(S))
    OBVIOUS
  <2>7. FlattenSeq(ss \o Append(rr, x)) = FlattenSeq(ss) \o FlattenSeq(Append(rr, x))
    BY <2>1, <2>2, <2>3, <2>5
  <2> QED BY <2>6, <2>7
<1> HIDE DEF T
<1>3. Seq(Seq(S)) \subseteq T
  BY <1>1, <1>2, SeqInduct
<1> QED BY <1>3 DEF T

LEMMA FlattenOne ==
  ASSUME NEW S, NEW t \in Seq(S)
  PROVE  FlattenSeq(<<t>>) = t
<1>1. <<t>> = Append(<<>>, t) /\ <<>> \in Seq(Seq(S)) /\ <<>> \o t = t
  OBVIOUS
<1> QED BY <1>1, FlattenAppend, FlattenEmpty

LEMMA FlattenHead ==
  ASSUME NEW S, NEW ss \in Seq(Seq(S)), ss # <<>>
  PROVE  FlattenSeq(ss) = Head(ss) \o FlattenSeq(Tail(ss))
<1>1. ss = <<Head(ss)>> \o Tail(ss) /\ Head(ss) \in Seq(S) /\ Tail(ss) \in Seq(Seq(S))
  OBVIOUS
<1>2. <<Head(ss)>> \in Seq(Seq(S))
  BY <1>1
<1>3. FlattenSeq(<<Head(ss)>>) = Head(ss)
  BY <1>1, FlattenOne
<1>4. FlattenSeq(<<Head(ss)>> \o Tail(ss)) = FlattenSeq(<<Head(ss)>>) \o FlattenSeq(Tail(ss))
  BY <1>1, <1>2, FlattenConcat
<1> QED BY <1>1, <1>3, <1>4

LEMMA SeqOfFunction ==
  ASSUME NEW X, NEW n \in Nat, NEW f \in [1..n -> X]
  PROVE  f \in Seq(X) /\ Len(f) = n
OBVIOUS

(* The concatenation of what a function gives for the elements of a queue. *)
MapsTo(g, S, X) == \A x \in S : g[x] \in X
Mapped(g, s) == [i \in DOMAIN s |-> g[s[i]]]
FlatMap(g, s) == FlattenSeq([i \in DOMAIN s |-> g[s[i]]])

LEMMA MappedFacts ==
  ASSUME NEW S, NEW X, NEW g, MapsTo(g, S, X), NEW s \in Seq(S)
  PROVE  /\ Mapped(g, s) \in Seq(X) /\ Len(Mapped(g, s)) = Len(s)
         /\ \A i \in 1..Len(s) : Mapped(g, s)[i] = g[s[i]]
<1>1. Len(s) \in Nat /\ Mapped(g, s) \in [1..Len(s) -> X]
  BY DEF Mapped, MapsTo
<1>2. \A i \in 1..Len(s) : Mapped(g, s)[i] = g[s[i]]
  BY DEF Mapped
<1> QED BY <1>1, <1>2, SeqOfFunction

LEMMA MappedConcat ==
  ASSUME NEW S, NEW X, NEW g, MapsTo(g, S, X), NEW s \in Seq(S), NEW t \in Seq(S)
  PROVE  Mapped(g, s \o t) = Mapped(g, s) \o Mapped(g, t)
<1> DEFINE st == s \o t
<1> DEFINE x == Mapped(g, st)
<1> DEFINE y == Mapped(g, s)
<1> DEFINE z == Mapped(g, t)
<1>1. /\ st \in Seq(S) /\ Len(st) = Len(s) + Len(t) /\ Len(s) \in Nat /\ Len(t) \in Nat
      /\ \A i \in 1..(Len(s) + Len(t)) : st[i] = IF i <= Len(s) THEN s[i] ELSE t[i - Len(s)]
  BY ConcatProperties
<1> HIDE DEF st
<1>2. /\ x \in Seq(X) /\ Len(x) = Len(st)
      /\ \A i \in 1..Len(st) : x[i] = g[st[i]]
  <2>1. st \in Seq(S)
    BY <1>1
  <2> QED BY <2>1, MappedFacts
<1>3. /\ y \in Seq(X) /\ Len(y) = Len(s) /\ z \in Seq(X) /\ Len(z) = Len(t)
      /\ \A i \in 1..Len(s) : y[i] = g[s[i]]
      /\ \A i \in 1..Len(t) : z[i] = g[t[i]]
  BY MappedFacts
<1> HIDE DEF x, y, z
<1> DEFINE yz == y \o z
<1>4. /\ yz \in Seq(X) /\ Len(yz) = Len(y) + Len(z)
      /\ \A i \in 1..(Len(y) + Len(z)) : yz[i] = IF i <= Len(y) THEN y[i] ELSE z[i - Len(y)]
  BY <1>3, ConcatProperties, ZenonT(30)
<1> HIDE DEF yz
<1>5. ASSUME NEW i \in 1..Len(x) PROVE x[i] = yz[i]
  <2>0. i \in 1..(Len(s) + Len(t)) /\ x[i] = g[st[i]]
    BY <1>1, <1>2
  <2>1. CASE i <= Len(s)
    BY <1>1, <1>3, <1>4, <2>0, <2>1
  <2>2. CASE ~(i <= Len(s))
    <3>1. i - Len(s) \in 1..Len(t)
      BY <1>1, <2>0, <2>2
    <3>2. st[i] = t[i - Len(s)] /\ yz[i] = z[i - Len(s)]
      BY <1>1, <1>3, <1>4, <2>0, <2>2
    <3> QED BY <1>3, <2>0, <3>1, <3>2
  <2> QED BY <2>1, <2>2
<1>6. x = yz
  BY <1>1, <1>2, <1>3, <1>4, <1>5, SeqEqual
<1> QED BY <1>6 DEF x, y, z, yz, st

LEMMA FlatMapFacts ==
  ASSUME NEW S, NEW T, NEW g, MapsTo(g, S, Seq(T)), NEW s \in Seq(S), NEW t \in Seq(S)
  PROVE  /\ FlatMap(g, s) \in Seq(T)
         /\ FlatMap(g, s \o t) = FlatMap(g, s) \o FlatMap(g, t)
<1> DEFINE X == Seq(T)
<1>1. Mapped(g, s) \in Seq(X) /\ Mapped(g, t) \in Seq(X)
  BY MappedFacts
<1>2. Mapped(g, s \o t) = Mapped(g, s) \o Mapped(g, t)
  BY MappedConcat
<1>3. FlattenSeq(Mapped(g, s) \o Mapped(g, t))
        = FlattenSeq(Mapped(g, s)) \o FlattenSeq(Mapped(g, t))
  BY <1>1, FlattenConcat
<1>4. FlattenSeq(Mapped(g, s)) \in Seq(T)
  BY <1>1, FlattenType
<1> QED BY <1>2, <1>3, <1>4 DEF FlatMap, Mapped

LEMMA FlatMapOne ==
  ASSUME NEW S, NEW T, NEW g, MapsTo(g, S, Seq(T)), NEW x \in S
  PROVE  FlatMap(g, <<x>>) = g[x] /\ FlatMap(g, <<>>) = <<>>
<1>1. [i \in DOMAIN <<x>> |-> g[<<x>>[i]]] = <<g[x]>>
  OBVIOUS
<1>2. [i \in DOMAIN <<>> |-> g[<<>>[i]]] = <<>>
  OBVIOUS
<1>3. FlattenSeq(<<g[x]>>) = g[x]
  <2>1. g[x] \in Seq(T)
    BY DEF MapsTo
  <2> QED BY <2>1, FlattenOne
<1> QED BY <1>1, <1>2, <1>3, FlattenEmpty DEF FlatMap

(* One element more at the end, or one at the start.                       *)
LEMMA FlatMapEnds ==
  ASSUME NEW S, NEW T, NEW g, MapsTo(g, S, Seq(T)), NEW s \in Seq(S)
  PROVE  /\ \A x \in S : FlatMap(g, Append(s, x)) = FlatMap(g, s) \o g[x]
         /\ s # <<>> => FlatMap(g, s) = g[Head(s)] \o FlatMap(g, Tail(s))
<1>1. ASSUME NEW x \in S PROVE FlatMap(g, Append(s, x)) = FlatMap(g, s) \o g[x]
  <2>1. Append(s, x) = s \o <<x>> /\ <<x>> \in Seq(S)
    BY AppendIsConcat
  <2> DEFINE o == <<x>>
  <2>2. FlatMap(g, s \o o) = FlatMap(g, s) \o FlatMap(g, o)
    <3>1. o \in Seq(S)
      BY <2>1
    <3> HIDE DEF o
    <3> QED BY <3>1, FlatMapFacts
  <2> QED BY <2>1, <2>2, FlatMapOne
<1>2. ASSUME s # <<>> PROVE FlatMap(g, s) = g[Head(s)] \o FlatMap(g, Tail(s))
  <2>1. s = <<Head(s)>> \o Tail(s) /\ Head(s) \in S /\ Tail(s) \in Seq(S) /\ <<Head(s)>> \in Seq(S)
    BY <1>2
  <2> DEFINE o == <<Head(s)>>
  <2> DEFINE t == Tail(s)
  <2>2. FlatMap(g, o \o t) = FlatMap(g, o) \o FlatMap(g, t)
    <3>1. o \in Seq(S) /\ t \in Seq(S)
      BY <2>1
    <3> HIDE DEF o, t
    <3> QED BY <3>1, FlatMapFacts
  <2>3. FlatMap(g, <<Head(s)>>) = g[Head(s)]
    BY <2>1, FlatMapOne
  <2> QED BY <2>1, <2>2, <2>3
<1> QED BY <1>1, <1>2

-----------------------------------------------------------------------------
(* Splitting and comparing queues.                                         *)

LEMMA SplitAt ==
  ASSUME NEW S, NEW s \in Seq(S), NEW k \in 0..Len(s)
  PROVE  /\ SubSeq(s, 1, k) \in Seq(S) /\ Len(SubSeq(s, 1, k)) = k
         /\ SubSeq(s, k + 1, Len(s)) \in Seq(S)
         /\ \A i \in 1..k : SubSeq(s, 1, k)[i] = s[i]
         /\ s = SubSeq(s, 1, k) \o SubSeq(s, k + 1, Len(s))
<1>0. Len(s) \in Nat /\ k \in Nat
  OBVIOUS
<1>1. /\ SubSeq(s, 1, k) \in Seq(S) /\ Len(SubSeq(s, 1, k)) = k
      /\ \A i \in 1..k : SubSeq(s, 1, k)[i] = s[i]
  BY <1>0
<1>2. SubSeq(s, k + 1, Len(s)) \in Seq(S)
  BY <1>0
<1>3. SubSeq(s, 1, k) \o SubSeq(s, k + 1, Len(s)) = SubSeq(s, 1, Len(s))
  <2>1. 1 \in 1..(Len(s) + 1) /\ k \in (1 - 1)..Len(s) /\ Len(s) \in k..Len(s)
    BY <1>0
  <2> QED BY <2>1, ConcatAdjacentSubSeq
<1> QED BY <1>1, <1>2, <1>3, SubSeqFull

(* Two concatenations with first parts of the same length.                 *)
LEMMA ConcatSame ==
  ASSUME NEW S, NEW s \in Seq(S), NEW t \in Seq(S), NEW u \in Seq(S), NEW v \in Seq(S),
         s \o t = u \o v, Len(s) = Len(u)
  PROVE  s = u /\ t = v
<1> DEFINE x == s \o t
<1>1. /\ Len(x) = Len(s) + Len(t) /\ Len(s) \in Nat /\ Len(t) \in Nat
      /\ \A i \in 1..(Len(s) + Len(t)) : x[i] = IF i <= Len(s) THEN s[i] ELSE t[i - Len(s)]
  BY ConcatProperties
<1>2. /\ Len(x) = Len(u) + Len(v) /\ Len(u) \in Nat /\ Len(v) \in Nat
      /\ \A i \in 1..(Len(u) + Len(v)) : x[i] = IF i <= Len(u) THEN u[i] ELSE v[i - Len(u)]
  BY ConcatProperties
<1> HIDE DEF x
<1>3. s = u
  <2>1. \A i \in 1..Len(s) : s[i] = u[i]
    BY <1>1, <1>2
  <2> QED BY <2>1, SeqEqual
<1>4. t = v
  <2>0. Len(t) = Len(v)
    BY <1>1, <1>2
  <2>1. ASSUME NEW i \in 1..Len(t) PROVE t[i] = v[i]
    <3>1. i + Len(s) \in 1..(Len(s) + Len(t)) /\ ~(i + Len(s) <= Len(s)) /\ (i + Len(s)) - Len(s) = i
      BY <1>1
    <3>2. i + Len(u) \in 1..(Len(u) + Len(v)) /\ ~(i + Len(u) <= Len(u)) /\ (i + Len(u)) - Len(u) = i
      BY <1>2, <2>0
    <3>3. x[i + Len(s)] = t[i]
      BY <1>1, <3>1
    <3>4. x[i + Len(u)] = v[i]
      BY <1>2, <3>2
    <3> QED BY <3>3, <3>4
  <2> QED BY <2>0, <2>1, SeqEqual
<1> QED BY <1>3, <1>4

LEMMA ConcatIsPrefix ==
  ASSUME NEW S, NEW s \in Seq(S), NEW t \in Seq(S)
  PROVE  IsPrefix(s, s \o t)
<1> DEFINE x == s \o t
<1>1. x \in Seq(S) /\ Len(x) = Len(s) + Len(t) /\ Len(s) \in Nat /\ Len(t) \in Nat
      /\ \A i \in 1..(Len(s) + Len(t)) : x[i] = IF i <= Len(s) THEN s[i] ELSE t[i - Len(s)]
  BY ConcatProperties
<1> HIDE DEF x
<1>2. Len(s) <= Len(x)
  BY <1>1
<1>3. SubSeq(s, 1, Len(s)) = SubSeq(x, 1, Len(s))
  <2> DEFINE y == SubSeq(x, 1, Len(s))
  <2>1. Len(s) \in 0..Len(x)
    BY <1>1
  <2>2. y \in Seq(S) /\ Len(y) = Len(s) /\ \A i \in 1..Len(s) : y[i] = x[i]
    BY <1>1, <2>1, SplitAt
  <2> HIDE DEF y
  <2>3. \A i \in 1..Len(s) : s[i] = y[i]
    BY <1>1, <2>2
  <2>4. s = y
    BY <2>2, <2>3, SeqEqual
  <2> QED BY <2>4, SubSeqFull DEF y
<1> QED BY <1>2, <1>3 DEF IsPrefix, x

LEMMA InsertOne ==
  ASSUME NEW S, NEW x \in Seq(S), NEW m \in S, NEW y \in Seq(S)
  PROVE  x \o (<<m>> \o y) = Append(x, m) \o y
<1>1. ASSUME NEW one, one = <<m>> PROVE x \o (one \o y) = Append(x, m) \o y
  <2>0. one \in Seq(S)
    BY <1>1
  <2>1. x \o one = Append(x, m)
    BY <1>1, AppendIsConcat
  <2>2. (x \o one) \o y = x \o (one \o y)
    BY <2>0, ConcatAssociative
  <2> QED BY <2>1, <2>2
<1> QED BY <1>1
-----------------------------------------------------------------------------
(* Sorting.                                                                *)

(* Each of n items has some of the others ahead of it, in a linear order:  *)
(* the numbers of those ahead are the places 0 to n - 1, each taken once.  *)
LEMMA PlacesTaken ==
  ASSUME NEW n \in Nat, NEW ahead \in [1..n -> SUBSET (1..n)],
         \A i \in 1..n : i \notin ahead[i],
         \A i, j, k \in 1..n : i \in ahead[j] /\ j \in ahead[k] => i \in ahead[k],
         \A i, j \in 1..n : i # j => i \in ahead[j] \/ j \in ahead[i]
  PROVE  /\ \A i \in 1..n : IsFiniteSet(ahead[i]) /\ Cardinality(ahead[i]) \in 0..(n - 1)
         /\ \A i, j \in 1..n : i \in ahead[j] => Cardinality(ahead[i]) < Cardinality(ahead[j])
         /\ \A k \in 1..n : \E i \in 1..n : Cardinality(ahead[i]) = k - 1
<1> DEFINE D == 1..n
<1> DEFINE place == [i \in D |-> Cardinality(ahead[i]) + 1]
<1>1. IsFiniteSet(D) /\ Cardinality(D) = n
  BY FS_Interval
<1> HIDE DEF D
<1>2. ASSUME NEW i \in D
      PROVE  IsFiniteSet(ahead[i]) /\ Cardinality(ahead[i]) \in Nat /\ Cardinality(ahead[i]) < n
  <2>1. ahead[i] \in SUBSET D /\ i \notin ahead[i]
    BY DEF D
  <2>2. /\ IsFiniteSet(ahead[i]) /\ Cardinality(ahead[i]) <= n
        /\ n = Cardinality(ahead[i]) => D = ahead[i]
    BY <1>1, <2>1, FS_Subset
  <2>3. Cardinality(ahead[i]) \in Nat
    BY <2>2, FS_CardinalityType
  <2>4. n # Cardinality(ahead[i])
    BY <2>1, <2>2
  <2> QED BY <2>2, <2>3, <2>4
<1>3. ASSUME NEW i \in D, NEW j \in D, i \in ahead[j]
      PROVE  Cardinality(ahead[i]) < Cardinality(ahead[j])
  <2>1. ahead[i] \in SUBSET ahead[j] /\ ahead[i] # ahead[j]
    BY <1>3 DEF D
  <2>2. IsFiniteSet(ahead[j]) /\ Cardinality(ahead[i]) \in Nat /\ Cardinality(ahead[j]) \in Nat
    BY <1>2
  <2>3. /\ Cardinality(ahead[i]) <= Cardinality(ahead[j])
        /\ Cardinality(ahead[j]) = Cardinality(ahead[i]) => ahead[j] = ahead[i]
    BY <2>1, <2>2, FS_Subset
  <2> QED BY <2>1, <2>2, <2>3
<1>4. place \in Injection(D, D)
  <2>1. place \in [D -> D]
    BY <1>2 DEF D
  <2>2. ASSUME NEW i \in D, NEW j \in D, i # j PROVE place[i] # place[j]
    <3>1. i \in ahead[j] \/ j \in ahead[i]
      BY <2>2 DEF D
    <3>2. Cardinality(ahead[i]) \in Nat /\ Cardinality(ahead[j]) \in Nat
      BY <1>2
    <3>3. Cardinality(ahead[i]) # Cardinality(ahead[j])
      BY <1>3, <3>1, <3>2
    <3> QED BY <3>2, <3>3
  <2> HIDE DEF place
  <2> QED BY <2>1, <2>2 DEF Injection, IsInjective
<1>5. place \in Surjection(D, D)
  <2> HIDE DEF place
  <2> QED BY <1>1, <1>4, FS_Injection
<1>6. ASSUME NEW k \in D PROVE \E i \in D : Cardinality(ahead[i]) = k - 1
  <2>1. PICK i \in D : place[i] = k
    <3> HIDE DEF place
    <3> QED BY <1>5 DEF Surjection
  <2>2. Cardinality(ahead[i]) \in Nat /\ k \in Nat
    BY <1>2 DEF D
  <2> QED BY <2>1, <2>2
<1> QED BY <1>2, <1>3, <1>6 DEF D

=============================================================================
