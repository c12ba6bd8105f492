---------------------------- MODULE PlexerProofs ----------------------------
(***************************************************************************)
(* Proofs about the multiplexer (Plexer.tla): for any protocols, message   *)
(* and segment sizes, queue and bearer capacities and scenarios, a         *)
(* connection gives every agent a channel of its own, on which messages    *)
(* arrive whole, once and in order (MessageChannels.tla).                  *)
(***************************************************************************)
EXTENDS Plexer, QueueLemmas

-----------------------------------------------------------------------------
(* What travels.                                                           *)

AgentsAt(e) == {a \in Agents : a.end = e}
OwnBytes(a) == {b \in Bytes : b.msg.of = a}

(* What an agent hands to the muxer in one piece, and what the muxer       *)
(* writes for it.                                                          *)
Chunk(a) == {p \in Seq(OwnBytes(a)) : Len(p) <= MaxSegment}
Segments(e) == UNION {{to_plexer(a)} \X Chunk(a) : a \in AgentsAt(e)}
Frame(x) == <<Header(x[1], x[2])>> \o x[2]
Frames(segs) == FlattenSeq([i \in DOMAIN segs |-> Frame(segs[i])])

Headers == [id : Ids, len : Nat]
Items == Bytes \cup Headers

LEMMA SmallMod ==
  ASSUME NEW n \in Nat, NEW m \in Nat, n <= m
  PROVE  n % (m + 1) = n
<1> DEFINE d == m + 1
<1> DEFINE q == n \div d
<1> DEFINE r == n % d
<1>1. d \in Nat /\ d > 0 /\ n < d
  OBVIOUS
<1> HIDE DEF d
<1>2. q \in Int /\ r \in 0..(d - 1) /\ n = d * q + r
  BY <1>1
<1> HIDE DEF q, r
<1>3. q = 0
  <2>1. CASE q >= 1
    <3>1. d * q >= d
      BY <1>1, <1>2, <2>1
    <3> QED BY <1>1, <1>2, <3>1
  <2>2. CASE q <= -1
    <3>1. d * q <= -d
      BY <1>1, <1>2, <2>2
    <3> QED BY <1>1, <1>2, <3>1
  <2> QED BY <1>2, <2>1, <2>2
<1> QED BY <1>1, <1>2, <1>3 DEF r, d

LEMMA CounterpartFacts ==
  ASSUME NEW a \in Agents
  PROVE  /\ Counterpart(a) \in Agents /\ Counterpart(Counterpart(a)) = a
         /\ Counterpart(a).end = Other(a.end) /\ a.end \in Ends
BY DEF Agents, Counterpart, Other, Ends

LEMMA EndFacts ==
  ASSUME NEW e \in Ends
  PROVE  Other(e) \in Ends /\ Other(Other(e)) = e /\ Other(e) # e
BY DEF Ends, Other

(* A segment is read by the counterpart of the agent that wrote it, and by *)
(* nobody else: the ids of the agents of an end differ.                    *)
LEMMA IdFacts ==
  ASSUME NEW a \in Agents
  PROVE  /\ to_plexer(a) \in Ids
         /\ \A b \in Agents : b.end = a.end /\ to_plexer(b) = to_plexer(a) => b = a
         /\ \A b \in Agents : b.end = Other(a.end) /\ from_plexer(b) = to_plexer(a)
                                => b = Counterpart(a)
         /\ from_plexer(Counterpart(a)) = to_plexer(a)
<1>1. a \in [end : Ends, proto : Protocols, role : {"client", "server"}]
  BY DEF Agents
<1>2. to_plexer(a) \in Ids
  BY <1>1 DEF to_plexer, Flip, Ids
<1>3. ASSUME NEW b \in Agents, b.end = a.end, to_plexer(b) = to_plexer(a) PROVE b = a
  <2>1. b \in [end : Ends, proto : Protocols, role : {"client", "server"}]
    BY DEF Agents
  <2>2. b.proto = a.proto /\ b.role = a.role
    BY <1>1, <1>3, <2>1 DEF to_plexer, Flip
  <2> QED BY <1>1, <1>3, <2>1, <2>2
<1>4. ASSUME NEW b \in Agents, b.end = Other(a.end), from_plexer(b) = to_plexer(a)
      PROVE  b = Counterpart(a)
  <2>1. b \in [end : Ends, proto : Protocols, role : {"client", "server"}]
    BY DEF Agents
  <2>2. b.proto = a.proto /\ b.role # a.role
    BY <1>1, <1>4, <2>1 DEF to_plexer, from_plexer, Flip
  <2> QED BY <1>1, <1>4, <2>1, <2>2 DEF Counterpart
<1>5. from_plexer(Counterpart(a)) = to_plexer(a)
  BY <1>1 DEF to_plexer, from_plexer, Counterpart, Flip
<1> QED BY <1>2, <1>3, <1>4, <1>5

LEMMA SegmentFacts ==
  ASSUME NEW e \in Ends, NEW x \in Segments(e)
  PROVE  /\ x = <<x[1], x[2]>> /\ x # <<>> /\ x[1] \in Ids /\ x[2] \in Seq(Bytes)
         /\ \E a \in AgentsAt(e) : x[1] = to_plexer(a) /\ x[2] \in Chunk(a)
         /\ Header(x[1], x[2]) = [id |-> x[1], len |-> Len(x[2])]
         /\ Header(x[1], x[2]) \in Headers
<1>1. PICK a \in AgentsAt(e) : x \in {to_plexer(a)} \X Chunk(a)
  BY DEF Segments
<1>2. x = <<x[1], x[2]>> /\ x[1] = to_plexer(a) /\ x[2] \in Chunk(a)
  BY <1>1
<1>3. x[1] \in Ids
  BY <1>2, IdFacts DEF AgentsAt
<1>4. x[2] \in Seq(OwnBytes(a)) /\ Len(x[2]) <= MaxSegment
  BY <1>2 DEF Chunk
<1>5. x[2] \in Seq(Bytes)
  BY <1>4, SeqMonotonic DEF OwnBytes
<1>6. Len(x[2]) \in Nat /\ MaxSegment \in Nat
  BY <1>4, PlexerAssumption
<1>7. Len(x[2]) % (MaxSegment + 1) = Len(x[2])
  BY <1>4, <1>6, SmallMod
<1>8. Header(x[1], x[2]) = [id |-> x[1], len |-> Len(x[2])]
  BY <1>7 DEF Header
<1>9. x # <<>>
  BY <1>2
<1> QED BY <1>2, <1>3, <1>5, <1>6, <1>8, <1>9 DEF Headers

-----------------------------------------------------------------------------
(* The bytes of one agent in a queue that it shares with others.           *)

Picked(a, s) == [i \in DOMAIN s |-> IF IsOf(a, s[i]) THEN <<s[i]>> ELSE <<>>]

LEMMA IsOfFacts ==
  ASSUME NEW a, NEW x \in Items
  PROVE  IsOf(a, x) <=> x \in OwnBytes(a)
<1>1. CASE x \in Bytes
  BY <1>1 DEF IsOf, OwnBytes, Bytes
<1>2. CASE x \in Headers /\ x \notin Bytes
  BY <1>2 DEF IsOf, OwnBytes, Headers
<1> QED BY <1>1, <1>2 DEF Items

LEMMA PickedType ==
  ASSUME NEW a, NEW s \in Seq(Items)
  PROVE  Picked(a, s) \in Seq(Seq(OwnBytes(a)))
<1>1. ASSUME NEW i \in 1..Len(s)
      PROVE  (IF IsOf(a, s[i]) THEN <<s[i]>> ELSE <<>>) \in Seq(OwnBytes(a))
  <2>1. s[i] \in Items
    OBVIOUS
  <2>2. CASE IsOf(a, s[i])
    <3>1. s[i] \in OwnBytes(a)
      BY <2>1, <2>2, IsOfFacts
    <3> QED BY <2>2, <3>1
  <2>3. CASE ~IsOf(a, s[i])
    BY <2>3
  <2> QED BY <2>2, <2>3
<1>2. Picked(a, s) \in [1..Len(s) -> Seq(OwnBytes(a))]
  BY <1>1 DEF Picked
<1>3. Len(s) \in Nat
  OBVIOUS
<1> HIDE DEF OwnBytes
<1> QED BY <1>2, <1>3

LEMMA OfType ==
  ASSUME NEW a, NEW s \in Seq(Items)
  PROVE  OfSender(a, s) \in Seq(OwnBytes(a)) /\ OfSender(a, s) \in Seq(Bytes)
<1>1. OfSender(a, s) \in Seq(OwnBytes(a))
  BY PickedType, FlattenType DEF OfSender, Picked
<1>2. OwnBytes(a) \subseteq Bytes
  BY DEF OwnBytes
<1> QED BY <1>1, <1>2, SeqMonotonic

LEMMA OfEmpty == ASSUME NEW a PROVE OfSender(a, <<>>) = <<>>
<1>1. [i \in DOMAIN <<>> |-> IF IsOf(a, <<>>[i]) THEN <<(<<>>[i])>> ELSE <<>>] = <<>>
  OBVIOUS
<1> QED BY <1>1, FlattenEmpty DEF OfSender

LEMMA OfConcat ==
  ASSUME NEW a, NEW s \in Seq(Items), NEW t \in Seq(Items)
  PROVE  OfSender(a, s \o t) = OfSender(a, s) \o OfSender(a, t)
<1> DEFINE S == Seq(OwnBytes(a))
<1> DEFINE x == Picked(a, s \o t)
<1> DEFINE y == Picked(a, s)
<1> DEFINE z == Picked(a, t)
<1>1. s \o t \in Seq(Items) /\ Len(s \o t) = Len(s) + Len(t)
  BY ConcatProperties
<1>2. x \in Seq(S) /\ y \in Seq(S) /\ z \in Seq(S)
  BY <1>1, PickedType
<1>3. Len(x) = Len(s) + Len(t) /\ Len(y) = Len(s) /\ Len(z) = Len(t)
  BY <1>1, <1>2 DEF Picked
<1>4. y \o z \in Seq(S) /\ Len(y \o z) = Len(x)
      /\ \A i \in 1..Len(x) : (y \o z)[i] = IF i <= Len(s) THEN y[i] ELSE z[i - Len(s)]
  <2> HIDE DEF S, x, y, z
  <2>1. /\ y \o z \in Seq(S) /\ Len(y \o z) = Len(y) + Len(z)
        /\ \A i \in 1..(Len(y) + Len(z)) : (y \o z)[i] = IF i <= Len(y) THEN y[i] ELSE z[i - Len(y)]
    BY <1>2, ConcatProperties
  <2> QED BY <1>3, <2>1
<1>5. ASSUME NEW i \in 1..Len(x) PROVE x[i] = (y \o z)[i]
  <2>0. i \in DOMAIN (s \o t) /\ Len(s) \in Nat /\ Len(t) \in Nat /\ i \in 1..(Len(s) + Len(t))
    BY <1>1, <1>3
  <2>1. CASE i <= Len(s)
    <3>1. i \in DOMAIN s /\ (s \o t)[i] = s[i]
      BY <2>0, <2>1
    <3>2. x[i] = y[i]
      BY <2>0, <3>1 DEF Picked
    <3> HIDE DEF x, y, z
    <3> QED BY <1>4, <2>1, <3>2
  <2>2. CASE ~(i <= Len(s))
    <3>1. i - Len(s) \in DOMAIN t /\ (s \o t)[i] = t[i - Len(s)]
      BY <2>0, <2>2
    <3>2. x[i] = z[i - Len(s)]
      BY <2>0, <3>1 DEF Picked
    <3> HIDE DEF x, y, z
    <3> QED BY <1>4, <2>2, <3>2
  <2> QED BY <2>1, <2>2
<1>6. x = y \o z
  <2> HIDE DEF S, x, y, z
  <2> QED BY <1>2, <1>4, <1>5, SeqEqual
<1>7. FlattenSeq(y \o z) = FlattenSeq(y) \o FlattenSeq(z)
  BY <1>2, FlattenConcat
<1> QED BY <1>6, <1>7 DEF OfSender, Picked

LEMMA OfOne ==
  ASSUME NEW a, NEW x \in Items
  PROVE  OfSender(a, <<x>>) = IF x \in OwnBytes(a) THEN <<x>> ELSE <<>>
<1> DEFINE p == IF IsOf(a, x) THEN <<x>> ELSE <<>>
<1>1. Picked(a, <<x>>) = <<p>>
  BY DEF Picked
<1>2. p = (IF x \in OwnBytes(a) THEN <<x>> ELSE <<>>) /\ p \in Seq(OwnBytes(a))
  BY IsOfFacts
<1>3. FlattenSeq(<<p>>) = p
  BY <1>2, FlattenOne
<1> QED BY <1>1, <1>2, <1>3 DEF OfSender, Picked

LEMMA BytesAreItems ==
  /\ \A s \in Seq(Bytes) : s \in Seq(Items)
  /\ \A a : \A s \in Seq(OwnBytes(a)) : s \in Seq(Items) /\ s \in Seq(Bytes)
<1>1. Bytes \subseteq Items /\ \A a : OwnBytes(a) \subseteq Bytes
  BY DEF Items, OwnBytes
<1> QED BY <1>1, SeqMonotonic

LEMMA BytesConcat ==
  \A s, t \in Seq(Bytes) :
    s \o t \in Seq(Bytes) /\ \A u \in Seq(Bytes) : (s \o t) \o u = s \o (t \o u)
BY ConcatProperties, ConcatAssociative, SMTT(30)

LEMMA ItemsConcat ==
  \A s, t \in Seq(Items) :
    s \o t \in Seq(Items) /\ \A u \in Seq(Items) : (s \o t) \o u = s \o (t \o u)
BY ConcatProperties, ConcatAssociative, SMTT(30)

LEMMA OfOwn ==
  ASSUME NEW a, NEW s \in Seq(OwnBytes(a))
  PROVE  OfSender(a, s) = s
<1> DEFINE T == {r \in Seq(OwnBytes(a)) : OfSender(a, r) = r}
<1>1. <<>> \in T
  BY OfEmpty
<1>2. ASSUME NEW r \in T, NEW x \in OwnBytes(a) PROVE Append(r, x) \in T
  <2>1. x \in Items /\ r \in Seq(Items) /\ <<x>> \in Seq(Items)
    BY BytesAreItems DEF OwnBytes, Items
  <2>2. Append(r, x) = r \o <<x>> /\ Append(r, x) \in Seq(OwnBytes(a))
    BY AppendIsConcat
  <2>3. OfSender(a, r \o <<x>>) = OfSender(a, r) \o OfSender(a, <<x>>)
    BY <2>1, OfConcat
  <2>4. OfSender(a, <<x>>) = <<x>>
    BY <2>1, OfOne
  <2>5. OfSender(a, Append(r, x)) = Append(r, x)
    BY <2>2, <2>3, <2>4
  <2> QED BY <2>2, <2>5
<1> HIDE DEF T
<1>3. Seq(OwnBytes(a)) \subseteq T
  BY <1>1, <1>2, SeqInduct
<1> QED BY <1>3 DEF T

LEMMA OfForeign ==
  ASSUME NEW a, NEW c, c # a, NEW s \in Seq(OwnBytes(c))
  PROVE  OfSender(a, s) = <<>>
<1> DEFINE T == {r \in Seq(OwnBytes(c)) : OfSender(a, r) = <<>>}
<1>1. <<>> \in T
  BY OfEmpty
<1>2. ASSUME NEW r \in T, NEW x \in OwnBytes(c) PROVE Append(r, x) \in T
  <2>1. x \in Items /\ r \in Seq(Items) /\ <<x>> \in Seq(Items) /\ x \notin OwnBytes(a)
    BY BytesAreItems DEF OwnBytes, Items
  <2>2. Append(r, x) = r \o <<x>> /\ Append(r, x) \in Seq(OwnBytes(c))
    BY AppendIsConcat
  <2>3. OfSender(a, r \o <<x>>) = OfSender(a, r) \o OfSender(a, <<x>>)
    BY <2>1, OfConcat
  <2>4. OfSender(a, <<x>>) = <<>>
    BY <2>1, OfOne
  <2>5. OfSender(a, Append(r, x)) = <<>>
    BY <2>2, <2>3, <2>4
  <2> QED BY <2>2, <2>5
<1> HIDE DEF T
<1>3. Seq(OwnBytes(c)) \subseteq T
  BY <1>1, <1>2, SeqInduct
<1> QED BY <1>3 DEF T

-----------------------------------------------------------------------------
(* The payloads of a queue, the frames on the bearer and the bytes of a    *)
(* sequence of messages, one element at a time.                            *)

LEMMA PayloadsFacts ==
  ASSUME NEW e \in Ends, NEW q \in Seq(Segments(e))
  PROVE  /\ Payloads(q) \in Seq(Bytes) /\ Payloads(<<>>) = <<>>
         /\ \A x \in Segments(e) : Payloads(Append(q, x)) = Payloads(q) \o x[2]
         /\ q # <<>> => Payloads(q) = Head(q)[2] \o Payloads(Tail(q))
<1> DEFINE S == Segments(e)
<1> DEFINE g == [x \in S |-> x[2]]
<1>1. MapsTo(g, S, Seq(Bytes))
  BY SegmentFacts DEF MapsTo
<1>2. \A x \in S : g[x] = x[2]
  OBVIOUS
<1>3. ASSUME NEW r \in Seq(S) PROVE Payloads(r) = FlatMap(g, r)
  <2>1. \A i \in DOMAIN r : g[r[i]] = r[i][2]
    BY <1>2
  <2> HIDE DEF g, S
  <2>2. [i \in DOMAIN r |-> g[r[i]]] = [i \in DOMAIN r |-> r[i][2]]
    BY <2>1
  <2> QED BY <2>2 DEF Payloads, FlatMap
<1> HIDE DEF g
<1>4. FlatMap(g, q) \in Seq(Bytes)
  BY <1>1, FlatMapFacts
<1>5. Payloads(<<>>) = <<>>
  <2>1. [i \in DOMAIN <<>> |-> <<>>[i][2]] = <<>>
    OBVIOUS
  <2> QED BY <2>1, FlattenEmpty DEF Payloads
<1>6. /\ \A x \in S : FlatMap(g, Append(q, x)) = FlatMap(g, q) \o g[x]
      /\ q # <<>> => FlatMap(g, q) = g[Head(q)] \o FlatMap(g, Tail(q))
  BY <1>1, FlatMapEnds
<1>7. ASSUME NEW x \in S PROVE Payloads(Append(q, x)) = Payloads(q) \o x[2]
  <2>1. Append(q, x) \in Seq(S)
    OBVIOUS
  <2> QED BY <1>2, <1>3, <1>6, <2>1
<1>8. ASSUME q # <<>> PROVE Payloads(q) = Head(q)[2] \o Payloads(Tail(q))
  <2>1. Head(q) \in S /\ Tail(q) \in Seq(S)
    BY <1>8
  <2> QED BY <1>2, <1>3, <1>6, <1>8, <2>1
<1> QED BY <1>3, <1>4, <1>5, <1>7, <1>8

LEMMA FrameFacts ==
  ASSUME NEW e \in Ends, NEW x \in Segments(e)
  PROVE  /\ Frame(x) \in Seq(Items) /\ Frame(x) # <<>>
         /\ Len(Frame(x)) = Len(x[2]) + 1 /\ Frame(x)[1] = Header(x[1], x[2])
         /\ \A a : OfSender(a, Frame(x)) = OfSender(a, x[2])
<1> DEFINE h == Header(x[1], x[2])
<1>1. h \in Headers /\ x[2] \in Seq(Bytes)
  BY SegmentFacts
<1>2. h \in Items /\ x[2] \in Seq(Items) /\ <<h>> \in Seq(Items)
  BY <1>1, BytesAreItems DEF Items
<1> HIDE DEF h
<1>3. Frame(x) = <<h>> \o x[2]
  BY DEF Frame, h
<1>4. ASSUME NEW a PROVE OfSender(a, Frame(x)) = OfSender(a, x[2])
  <2>1. h \notin OwnBytes(a)
    BY <1>1 DEF Headers, OwnBytes, Bytes
  <2>2. OfSender(a, <<h>>) = <<>>
    BY <1>2, <2>1, OfOne
  <2>3. OfSender(a, <<h>> \o x[2]) = OfSender(a, <<h>>) \o OfSender(a, x[2])
    BY <1>2, OfConcat
  <2>4. OfSender(a, x[2]) \in Seq(Bytes)
    BY <1>2, OfType
  <2> QED BY <1>3, <2>2, <2>3, <2>4
<1>5. /\ Frame(x) \in Seq(Items) /\ Frame(x) # <<>>
      /\ Len(Frame(x)) = Len(x[2]) + 1 /\ Frame(x)[1] = h
  BY <1>2, <1>3
<1> QED BY <1>4, <1>5 DEF h

LEMMA FramesFacts ==
  ASSUME NEW e \in Ends, NEW q \in Seq(Segments(e))
  PROVE  /\ Frames(q) \in Seq(Items) /\ Frames(<<>>) = <<>>
         /\ \A x \in Segments(e) : Frames(Append(q, x)) = Frames(q) \o Frame(x)
         /\ q # <<>> => Frames(q) = Frame(Head(q)) \o Frames(Tail(q))
<1> DEFINE S == Segments(e)
<1> DEFINE g == [x \in S |-> Frame(x)]
<1>1. MapsTo(g, S, Seq(Items))
  BY FrameFacts DEF MapsTo
<1>2. \A x \in S : g[x] = Frame(x)
  OBVIOUS
<1>3. ASSUME NEW r \in Seq(S) PROVE Frames(r) = FlatMap(g, r)
  <2>1. \A i \in DOMAIN r : g[r[i]] = Frame(r[i])
    BY <1>2
  <2> HIDE DEF g, S
  <2>2. [i \in DOMAIN r |-> g[r[i]]] = [i \in DOMAIN r |-> Frame(r[i])]
    BY <2>1
  <2> QED BY <2>2 DEF Frames, FlatMap
<1> HIDE DEF g
<1>4. FlatMap(g, q) \in Seq(Items)
  BY <1>1, FlatMapFacts
<1>5. Frames(<<>>) = <<>>
  <2>1. [i \in DOMAIN <<>> |-> Frame(<<>>[i])] = <<>>
    OBVIOUS
  <2> QED BY <2>1, FlattenEmpty DEF Frames
<1>6. /\ \A x \in S : FlatMap(g, Append(q, x)) = FlatMap(g, q) \o g[x]
      /\ q # <<>> => FlatMap(g, q) = g[Head(q)] \o FlatMap(g, Tail(q))
  BY <1>1, FlatMapEnds
<1>7. ASSUME NEW x \in S PROVE Frames(Append(q, x)) = Frames(q) \o Frame(x)
  <2>1. Append(q, x) \in Seq(S)
    OBVIOUS
  <2> QED BY <1>2, <1>3, <1>6, <2>1
<1>8. ASSUME q # <<>> PROVE Frames(q) = Frame(Head(q)) \o Frames(Tail(q))
  <2>1. Head(q) \in S /\ Tail(q) \in Seq(S)
    BY <1>8
  <2> QED BY <1>2, <1>3, <1>6, <1>8, <2>1
<1> QED BY <1>3, <1>4, <1>5, <1>7, <1>8

LEMMA EncodedFacts ==
  ASSUME NEW m \in AllMessages
  PROVE  /\ Encoded(m) \in Seq(Bytes) /\ Encoded(m) \in Seq(OwnBytes(m.of))
         /\ Len(Encoded(m)) = m.size /\ m.size \in Nat \ {0}
         /\ \A i \in 1..m.size : Encoded(m)[i] = [msg |-> m, at |-> i]
<1>1. m.size \in Nat \ {0}
  BY PlexerAssumption DEF AllMessages
<1>2. \A i \in 1..m.size : [msg |-> m, at |-> i] \in OwnBytes(m.of)
  BY <1>1 DEF OwnBytes, Bytes
<1>3. Encoded(m) \in [1..m.size -> OwnBytes(m.of)]
  BY <1>2 DEF Encoded
<1>4. \A i \in 1..m.size : Encoded(m)[i] = [msg |-> m, at |-> i]
  BY DEF Encoded
<1>5. Encoded(m) \in Seq(OwnBytes(m.of)) /\ Len(Encoded(m)) = m.size
  BY <1>1, <1>3, SeqOfFunction
<1> QED BY <1>1, <1>4, <1>5, BytesAreItems

LEMMA BytesOfFacts ==
  ASSUME NEW q \in Seq(AllMessages)
  PROVE  /\ BytesOf(q) \in Seq(Bytes) /\ BytesOf(<<>>) = <<>>
         /\ \A x \in AllMessages : BytesOf(Append(q, x)) = BytesOf(q) \o Encoded(x)
         /\ q # <<>> => BytesOf(q) = Encoded(Head(q)) \o BytesOf(Tail(q))
<1> DEFINE S == AllMessages
<1> DEFINE g == [x \in S |-> Encoded(x)]
<1>1. MapsTo(g, S, Seq(Bytes))
  BY EncodedFacts DEF MapsTo
<1>2. \A x \in S : g[x] = Encoded(x)
  OBVIOUS
<1>3. ASSUME NEW r \in Seq(S) PROVE BytesOf(r) = FlatMap(g, r)
  <2>1. \A i \in DOMAIN r : g[r[i]] = Encoded(r[i])
    BY <1>2
  <2> HIDE DEF g, S
  <2>2. [i \in DOMAIN r |-> g[r[i]]] = [i \in DOMAIN r |-> Encoded(r[i])]
    BY <2>1
  <2> QED BY <2>2 DEF BytesOf, FlatMap
<1> HIDE DEF g
<1>4. FlatMap(g, q) \in Seq(Bytes)
  BY <1>1, FlatMapFacts
<1>5. BytesOf(<<>>) = <<>>
  <2>1. [i \in DOMAIN <<>> |-> Encoded(<<>>[i])] = <<>>
    OBVIOUS
  <2> QED BY <2>1, FlattenEmpty DEF BytesOf
<1>6. /\ \A x \in S : FlatMap(g, Append(q, x)) = FlatMap(g, q) \o g[x]
      /\ q # <<>> => FlatMap(g, q) = g[Head(q)] \o FlatMap(g, Tail(q))
  BY <1>1, FlatMapEnds
<1>7. ASSUME NEW x \in S PROVE BytesOf(Append(q, x)) = BytesOf(q) \o Encoded(x)
  <2>1. Append(q, x) \in Seq(S)
    OBVIOUS
  <2> QED BY <1>2, <1>3, <1>6, <2>1
<1>8. ASSUME q # <<>> PROVE BytesOf(q) = Encoded(Head(q)) \o BytesOf(Tail(q))
  <2>1. Head(q) \in S /\ Tail(q) \in Seq(S)
    BY <1>8
  <2> QED BY <1>2, <1>3, <1>6, <1>8, <2>1
<1> QED BY <1>3, <1>4, <1>5, <1>7, <1>8

-----------------------------------------------------------------------------
(* send_msg_chunks cuts a message into pieces that give it back.           *)

LEMMA CutPoints ==
  ASSUME NEW L \in Nat, NEW n \in Nat \ {0}, NEW i \in Nat,
         i \in 1..((L + n - 1) \div n)
  PROVE  /\ (i - 1) * n \in 0..L /\ (i - 1) * n < L
         /\ i < (L + n - 1) \div n => i * n < L
         /\ i = (L + n - 1) \div n => ~(i * n < L)
         /\ i * n \in Nat /\ i * n = (i - 1) * n + n
<1> DEFINE c == (L + n - 1) \div n
<1> DEFINE r == (L + n - 1) % n
<1>1. c \in Int /\ r \in 0..(n - 1) /\ L + n - 1 = n * c + r
  OBVIOUS
<1> HIDE DEF c, r
<1>2. i \in 1..c
  BY DEF c
<1>3. ASSUME NEW k \in Nat, k < c PROVE k * n < L
  <2>1. k * n <= (c - 1) * n
    BY <1>1, <1>3
  <2>2. (c - 1) * n = n * c - n
    BY <1>1
  <2> QED BY <1>1, <2>1, <2>2
<1>4. ~(c * n < L)
  <2>1. c * n = n * c
    BY <1>1
  <2> QED BY <1>1, <2>1
<1>5. i - 1 \in Nat /\ i - 1 < c
  BY <1>1, <1>2
<1>6. (i - 1) * n < L
  BY <1>3, <1>5
<1>7. (i - 1) * n \in Nat /\ i * n \in Nat /\ i * n = (i - 1) * n + n
  BY <1>5
<1>8. i < c => i * n < L
  BY <1>3
<1>9. i = c => ~(i * n < L)
  BY <1>4
<1> QED BY <1>6, <1>7, <1>8, <1>9 DEF c

LEMMA CutFacts ==
  ASSUME NEW S, NEW p \in Seq(S), NEW n \in Nat \ {0}
  PROVE  /\ Cut(p, n) \in Seq({q \in Seq(S) : Len(q) <= n})
         /\ FlattenSeq(Cut(p, n)) = p
<1> DEFINE L == Len(p)
<1> DEFINE count == (L + n - 1) \div n
<1> DEFINE upto(i) == IF i * n < L THEN i * n ELSE L
<1> DEFINE from(i) == (i - 1) * n
<1> DEFINE cut == Cut(p, n)
<1> DEFINE Q == {q \in Seq(S) : Len(q) <= n}
<1>1. L \in Nat /\ count \in Int /\ (L = 0 => ~(count >= 1)) /\ (count < 1 => L = 0)
  <2> DEFINE r == (L + n - 1) % n
  <2>0. L \in Nat
    OBVIOUS
  <2>1. count \in Int /\ r \in 0..(n - 1) /\ L + n - 1 = n * count + r
    BY <2>0
  <2> HIDE DEF count, r, L
  <2>2. ASSUME L = 0 PROVE ~(count >= 1)
    <3>1. ASSUME count >= 1 PROVE n * count >= n
      BY <2>1, <3>1
    <3> QED BY <2>1, <2>2, <3>1
  <2>3. ASSUME count < 1 PROVE L = 0
    <3>1. n * count <= 0
      BY <2>1, <2>3
    <3> QED BY <2>0, <2>1, <3>1
  <2> QED BY <2>0, <2>1, <2>2, <2>3
<1>2. ASSUME NEW i \in 1..count
      PROVE  /\ from(i) \in 0..L /\ upto(i) \in from(i)..L /\ upto(i) - from(i) <= n
             /\ i < count => upto(i) = from(i + 1)
             /\ i = count => upto(i) = L
  <2>1. i \in Nat /\ i \in 1..((L + n - 1) \div n)
    BY <1>1
  <2>2. /\ (i - 1) * n \in 0..L /\ (i - 1) * n < L
        /\ i < (L + n - 1) \div n => i * n < L
        /\ i = (L + n - 1) \div n => ~(i * n < L)
        /\ i * n \in Nat /\ i * n = (i - 1) * n + n
    BY <1>1, <2>1, CutPoints
  <2>3. from(i + 1) = i * n
    BY <2>1
  <2> HIDE DEF from, L
  <2>4. from(i) = (i - 1) * n
    BY DEF from
  <2> QED BY <1>1, <2>2, <2>3, <2>4
<1>3. cut = [i \in 1..count |-> SubSeq(p, from(i) + 1, upto(i))]
  BY DEF Cut
<1>4. from(1) = 0
  OBVIOUS
<1> HIDE DEF from, upto, count, L, cut
<1>5. CASE count < 1
  <2>1. L = 0 /\ 1..count = {}
    BY <1>1, <1>5
  <2>2. p = <<>> /\ cut = <<>>
    BY <1>3, <2>1 DEF L
  <2>3. <<>> \in Seq(Q)
    OBVIOUS
  <2> HIDE DEF Q
  <2>4. cut \in Seq(Q) /\ FlattenSeq(cut) = p
    BY <2>2, <2>3, FlattenEmpty
  <2> QED BY <2>4 DEF cut, Q
<1>6. CASE count >= 1
  <2>1. count \in Nat /\ L # 0
    BY <1>1, <1>6
  <2>2. ASSUME NEW i \in 1..count PROVE SubSeq(p, from(i) + 1, upto(i)) \in Q
    <3>1. /\ from(i) \in Nat /\ upto(i) \in Nat /\ from(i) <= upto(i) /\ upto(i) <= L
          /\ upto(i) - from(i) <= n
      BY <1>1, <1>2
    <3>2. \A j \in (from(i) + 1)..upto(i) : p[j] \in S
      BY <3>1 DEF L
    <3>3. /\ SubSeq(p, from(i) + 1, upto(i)) \in Seq(S)
          /\ Len(SubSeq(p, from(i) + 1, upto(i))) =
               IF from(i) + 1 <= upto(i) THEN upto(i) - (from(i) + 1) + 1 ELSE 0
      BY <3>1, <3>2, SubSeqProperties
    <3> QED BY <3>1, <3>3
  <2>3. cut \in [1..count -> Q]
    BY <1>3, <2>2
  <2>4. cut \in Seq(Q) /\ Len(cut) = count
    BY <2>1, <2>3, SeqOfFunction
  <2>5. cut \in Seq(Seq(S))
    <3>1. Q \subseteq Seq(S)
      OBVIOUS
    <3> HIDE DEF Q
    <3> QED BY <2>4, <3>1, SeqMonotonic
  <2>6. PICK f : /\ FlattenSeq(cut) = f[count]
                 /\ f[1] = cut[1]
                 /\ \A i \in 2..count : f[i] = f[i - 1] \o cut[i]
    <3>1. Len(cut) # 0
      BY <1>6, <2>4
    <3>2. \E f : /\ FlattenSeq(cut) = f[Len(cut)]
                 /\ \A i \in 1..Len(cut) : f[i] \in Seq(S)
                 /\ f[1] = cut[1]
                 /\ \A i \in 2..Len(cut) : f[i] = f[i - 1] \o cut[i]
      BY <2>5, <3>1, FlattenFacts
    <3> QED BY <2>4, <3>2
  <2> DEFINE Odd == {i \in 1..count : f[i] # SubSeq(p, 1, upto(i))}
  <2>7. Odd = {}
    <3> SUFFICES ASSUME Odd # {} PROVE FALSE
      OBVIOUS
    <3>1. PICK i \in Odd : \A k \in Odd : i <= k
      <4>1. Odd \subseteq Nat
        BY <2>1
      <4> HIDE DEF Odd
      <4> QED BY <4>1, LeastOf
    <3>2. CASE i = 1
      <4>1. 1 \in 1..count
        BY <2>1, <1>6
      <4>0. from(1) + 1 = 1
        BY <1>4
      <4>2. cut[1] = SubSeq(p, from(1) + 1, upto(1))
        BY <1>3, <4>1
      <4>3. f[1] = SubSeq(p, 1, upto(1))
        BY <2>6, <4>0, <4>2
      <4> QED BY <3>2, <4>3
    <3>3. CASE i # 1
      <4>1. i \in 2..count /\ i \in 1..count /\ i - 1 \in 1..count /\ i - 1 \notin Odd
            /\ i - 1 < count /\ (i - 1) + 1 = i
        BY <2>1, <3>1, <3>3
      <4>2. f[i - 1] = SubSeq(p, 1, from(i))
        <5>1. upto(i - 1) = from(i)
          BY <1>2, <4>1
        <5> QED BY <4>1, <5>1
      <4>3. cut[i] = SubSeq(p, from(i) + 1, upto(i))
        BY <1>3, <4>1
      <4>4. SubSeq(p, 1, from(i)) \o SubSeq(p, from(i) + 1, upto(i)) = SubSeq(p, 1, upto(i))
        <5>1. from(i) \in 0..L /\ upto(i) \in from(i)..L
          BY <1>2, <4>1
        <5>2. 1 \in 1..(Len(p) + 1) /\ from(i) \in (1 - 1)..Len(p) /\ upto(i) \in from(i)..Len(p)
          BY <1>1, <5>1 DEF L
        <5> QED BY <5>2, ConcatAdjacentSubSeq
      <4> QED BY <2>6, <4>1, <4>2, <4>3, <4>4
    <3> QED BY <3>2, <3>3
  <2>8. f[count] = SubSeq(p, 1, L)
    <3>1. count \in 1..count
      BY <2>1, <1>6
    <3> QED BY <1>2, <2>7, <3>1
  <2> QED BY <2>4, <2>6, <2>8, SubSeqFull DEF cut, L
<1> QED BY <1>1, <1>5, <1>6

-----------------------------------------------------------------------------
(* try_decode_message takes the message at the start of the buffer, and a  *)
(* stream of encoded messages is decoded in only one way.                  *)

LEMMA DecodeFacts ==
  ASSUME NEW a, NEW buffer \in Seq(OwnBytes(a)), Complete(buffer), ~Garbled(buffer)
  PROVE  /\ Decoded(buffer) \in AllMessages /\ Drained(buffer) \in Seq(OwnBytes(a))
         /\ buffer = Encoded(Decoded(buffer)) \o Drained(buffer)
<1> DEFINE m == Decoded(buffer)
<1> DEFINE k == m.size
<1>1. buffer # <<>> /\ Len(buffer) >= k
  BY DEF Complete
<1>2. m \in AllMessages
  <2>1. buffer[1] \in OwnBytes(a)
    BY <1>1
  <2> QED BY <2>1 DEF Decoded, OwnBytes, Bytes
<1> HIDE DEF m
<1>3. k \in 0..Len(buffer) /\ k \in Nat
  BY <1>1, <1>2, EncodedFacts
<1>4. /\ SubSeq(buffer, 1, k) \in Seq(OwnBytes(a)) /\ Len(SubSeq(buffer, 1, k)) = k
      /\ SubSeq(buffer, k + 1, Len(buffer)) \in Seq(OwnBytes(a))
      /\ \A i \in 1..k : SubSeq(buffer, 1, k)[i] = buffer[i]
      /\ buffer = SubSeq(buffer, 1, k) \o SubSeq(buffer, k + 1, Len(buffer))
  BY <1>3, SplitAt
<1>5. SubSeq(buffer, 1, k) = Encoded(m)
  <2> DEFINE s == SubSeq(buffer, 1, k)
  <2>1. \A i \in 1..k : buffer[i] = [msg |-> m, at |-> i]
    <3>1. \A i \in 1..k : i \in DOMAIN buffer /\ i <= k
      BY <1>3
    <3> QED BY <3>1 DEF Garbled, m
  <2>2. s \in Seq(Bytes) /\ Len(s) = k
    BY <1>4, BytesAreItems
  <2>3. Encoded(m) \in Seq(Bytes) /\ Len(Encoded(m)) = k
        /\ \A i \in 1..k : Encoded(m)[i] = [msg |-> m, at |-> i]
    BY <1>2, EncodedFacts
  <2>4. \A i \in 1..k : s[i] = Encoded(m)[i]
    BY <1>4, <2>1, <2>3
  <2> HIDE DEF s
  <2>5. s = Encoded(m)
    BY <2>2, <2>3, <2>4, SeqEqual
  <2> QED BY <2>5 DEF s
<1> QED BY <1>2, <1>4, <1>5 DEF Drained, m

Fits(x) ==
  \A y \in Seq(AllMessages), b \in Seq(Bytes) :
    BytesOf(y) = BytesOf(x) \o b
      => \E t \in Seq(AllMessages) : y = x \o t /\ b = BytesOf(t)

LEMMA FitsEmpty == Fits(<<>>)
<1> DEFINE nil == <<>>
<1>1. BytesOf(nil) = <<>>
  <2>1. <<>> \in Seq(AllMessages)
    OBVIOUS
  <2> QED BY <2>1, BytesOfFacts
<1>2. \A S : \A q \in Seq(S) : nil \o q = q
  BY ConcatEmptySeq
<1> HIDE DEF nil
<1>3. ASSUME NEW y \in Seq(AllMessages), NEW b \in Seq(Bytes), BytesOf(y) = BytesOf(nil) \o b
      PROVE  \E t \in Seq(AllMessages) : y = nil \o t /\ b = BytesOf(t)
  <2>1. y = nil \o y /\ b = BytesOf(y)
    BY <1>1, <1>2, <1>3, ConcatEmptySeq
  <2> QED BY <2>1
<1>4. \A y \in Seq(AllMessages), b \in Seq(Bytes) :
        BytesOf(y) = BytesOf(nil) \o b
          => \E t \in Seq(AllMessages) : y = nil \o t /\ b = BytesOf(t)
  BY <1>3, Zenon
<1>5. Fits(nil)
  BY <1>4, Zenon DEF Fits
<1> QED BY <1>5 DEF nil

LEMMA FitsAppend ==
  ASSUME NEW x \in Seq(AllMessages), NEW m \in AllMessages, Fits(x)
  PROVE  Fits(Append(x, m))
<1> DEFINE M == AllMessages
<1> SUFFICES ASSUME NEW y \in Seq(M), NEW b \in Seq(Bytes),
                    BytesOf(y) = BytesOf(Append(x, m)) \o b
             PROVE  \E t \in Seq(M) : y = Append(x, m) \o t /\ b = BytesOf(t)
  BY DEF Fits
<1> DEFINE c == Encoded(m) \o b
<1>1. BytesOf(x) \in Seq(Bytes) /\ Encoded(m) \in Seq(Bytes) /\ c \in Seq(Bytes)
  BY BytesOfFacts, EncodedFacts
<1>2. BytesOf(y) = BytesOf(x) \o c
  <2>1. BytesOf(Append(x, m)) = BytesOf(x) \o Encoded(m)
    BY BytesOfFacts
  <2>2. (BytesOf(x) \o Encoded(m)) \o b = BytesOf(x) \o (Encoded(m) \o b)
    BY <1>1, ConcatAssociative, SMTT(30)
  <2> QED BY <2>1, <2>2
<1> HIDE DEF c
<1>3. PICK t \in Seq(M) : y = x \o t /\ c = BytesOf(t)
  BY <1>1, <1>2 DEF Fits
<1>4. /\ Len(Encoded(m)) = m.size /\ m.size \in Nat \ {0}
      /\ Encoded(m)[1] = [msg |-> m, at |-> 1]
  <2>1. /\ Len(Encoded(m)) = m.size /\ m.size \in Nat \ {0}
        /\ \A i \in 1..m.size : Encoded(m)[i] = [msg |-> m, at |-> i]
    BY EncodedFacts
  <2>2. 1 \in 1..m.size
    BY <2>1
  <2> QED BY <2>1, <2>2
<1>5. c # <<>> /\ c[1] = [msg |-> m, at |-> 1]
  BY <1>1, <1>4 DEF c
<1>6. t # <<>>
  BY <1>3, <1>5, BytesOfFacts
<1> DEFINE h == Head(t)
<1> DEFINE u == Tail(t)
<1>7. h \in M /\ u \in Seq(M) /\ t = <<h>> \o u
  BY <1>6
<1>8. c = Encoded(h) \o BytesOf(u)
  BY <1>3, <1>6, BytesOfFacts
<1> HIDE DEF h, u
<1>9. /\ Encoded(h) \in Seq(Bytes) /\ BytesOf(u) \in Seq(Bytes)
      /\ Len(Encoded(h)) # 0 /\ Encoded(h)[1] = [msg |-> h, at |-> 1]
  <2>1. /\ Len(Encoded(h)) = h.size /\ h.size \in Nat \ {0} /\ Encoded(h) \in Seq(Bytes)
        /\ \A i \in 1..h.size : Encoded(h)[i] = [msg |-> h, at |-> i]
    BY <1>7, EncodedFacts
  <2>2. 1 \in 1..h.size
    BY <2>1
  <2> QED BY <1>7, <2>1, <2>2, BytesOfFacts
<1>10. c[1] = [msg |-> h, at |-> 1]
  BY <1>8, <1>9
<1>11. h = m
  BY <1>5, <1>10
<1>12. b = BytesOf(u)
  <2>1. Encoded(m) \o b = Encoded(m) \o BytesOf(u)
    BY <1>8, <1>11 DEF c
  <2> QED BY <1>1, <1>9, <2>1, ConcatSame
<1>13. y = Append(x, m) \o u
  <2>1. y = x \o (<<m>> \o u)
    BY <1>3, <1>7, <1>11
  <2> QED BY <1>7, <2>1, InsertOne, SMTT(30)
<1> QED BY <1>7, <1>12, <1>13

LEMMA DecodedOnce ==
  ASSUME NEW s \in Seq(AllMessages), NEW g \in Seq(AllMessages), NEW r \in Seq(Bytes),
         BytesOf(s) = BytesOf(g) \o r
  PROVE  \E t \in Seq(AllMessages) : s = g \o t
<1> DEFINE T == {x \in Seq(AllMessages) : Fits(x)}
<1>1. <<>> \in T
  BY FitsEmpty
<1>2. ASSUME NEW x \in T, NEW m \in AllMessages PROVE Append(x, m) \in T
  <2>1. x \in Seq(AllMessages) /\ Fits(x) /\ Append(x, m) \in Seq(AllMessages)
    OBVIOUS
  <2> QED BY <2>1, FitsAppend
<1> HIDE DEF T
<1>3. Seq(AllMessages) \subseteq T
  BY <1>1, <1>2, SeqInduct
<1>4. Fits(g)
  BY <1>3 DEF T
<1> QED BY <1>4 DEF Fits

-----------------------------------------------------------------------------
(* read_segment: the first frame on the bearer is read as it was written.  *)

LEMMA ReadFrame ==
  ASSUME NEW e \in Ends, NEW segs \in Seq(Segments(e)), NEW w \in Seq(Items),
         NEW tail \in Seq(Items), Frames(segs) = w \o tail, w # <<>>, Len(w) > Head(w).len
  PROVE  \E x \in Segments(e), more \in Seq(Segments(e)), r \in Seq(Items) :
           /\ x = <<Head(w).id, SubSeq(w, 2, Head(w).len + 1)>>
           /\ r = SubSeq(w, Head(w).len + 2, Len(w))
           /\ w = Frame(x) \o r /\ Frames(more) = r \o tail
<1> DEFINE x == Head(segs)
<1> DEFINE more == Tail(segs)
<1>1. segs # <<>>
  <2>1. w \o tail # <<>>
    OBVIOUS
  <2> QED BY <2>1, FramesFacts
<1>2. x \in Segments(e) /\ more \in Seq(Segments(e))
  BY <1>1
<1>3. Frames(segs) = Frame(x) \o Frames(more)
  BY <1>1, FramesFacts
<1> HIDE DEF x, more
<1> DEFINE n == Len(x[2])
<1> DEFINE k == n + 1
<1>4. /\ Frame(x) \in Seq(Items) /\ Len(Frame(x)) = k /\ n \in Nat
      /\ Frame(x)[1] = [id |-> x[1], len |-> n]
  <2>1. /\ Frame(x) \in Seq(Items) /\ Len(Frame(x)) = k
        /\ Frame(x)[1] = Header(x[1], x[2])
    BY <1>2, FrameFacts
  <2>2. Header(x[1], x[2]) = [id |-> x[1], len |-> n] /\ x[2] \in Seq(Bytes)
    BY <1>2, SegmentFacts
  <2> QED BY <2>1, <2>2
<1>5. Frames(more) \in Seq(Items)
  BY <1>2, FramesFacts
<1> DEFINE both == Frame(x) \o Frames(more)
<1>6. both = w \o tail
  BY <1>3
<1>7. Head(w) = [id |-> x[1], len |-> n]
  <2>1. both[1] = Frame(x)[1]
    BY <1>4, <1>5
  <2> HIDE DEF both, k, n
  <2>2. (w \o tail)[1] = w[1] /\ Head(w) = w[1]
    OBVIOUS
  <2> QED BY <1>4, <1>6, <2>1, <2>2
<1> HIDE DEF both
<1>8. Head(w).id = x[1] /\ Head(w).len = n
  BY <1>7
<1>9. k \in 0..Len(w) /\ k \in Nat
  <2>1. Len(w) \in Nat /\ Len(w) > n
    BY <1>8
  <2> HIDE DEF n
  <2> QED BY <1>4, <2>1
<1> DEFINE first == SubSeq(w, 1, k)
<1> DEFINE r == SubSeq(w, k + 1, Len(w))
<1> HIDE DEF n
<1>10. /\ first \in Seq(Items) /\ Len(first) = k /\ r \in Seq(Items)
       /\ \A i \in 1..k : first[i] = w[i]
       /\ w = first \o r
  BY <1>9, SplitAt
<1> HIDE DEF first, r
<1>11. first \o (r \o tail) = Frame(x) \o Frames(more)
  <2>0. first \in Seq(Items) /\ r \in Seq(Items)
    BY <1>10
  <2>1. (first \o r) \o tail = first \o (r \o tail)
    BY <2>0, ConcatAssociative, SMTT(30)
  <2> QED BY <1>6, <1>10, <2>1 DEF both
<1>12. first = Frame(x) /\ r \o tail = Frames(more)
  <2>1. r \o tail \in Seq(Items)
    BY <1>10, ConcatProperties
  <2>2. Len(first) = Len(Frame(x))
    BY <1>4, <1>10
  <2> QED BY <1>4, <1>5, <1>10, <1>11, <2>1, <2>2, ConcatSame
<1>13. SubSeq(w, 2, n + 1) = x[2]
  <2> DEFINE p == SubSeq(w, 2, n + 1)
  <2>0. x[2] \in Seq(Items) /\ Len(x[2]) = n /\ n \in Nat
    BY <1>2, <1>4, SegmentFacts, BytesAreItems DEF n
  <2>1. \A i \in 2..(n + 1) : w[i] \in Items
    BY <1>9, <2>0
  <2>2. /\ p \in Seq(Items) /\ Len(p) = IF 2 <= n + 1 THEN (n + 1) - 2 + 1 ELSE 0
        /\ \A i \in 1..((n + 1) - 2 + 1) : p[i] = w[2 + i - 1]
    BY <2>0, <2>1, SubSeqProperties
  <2> HIDE DEF p
  <2>3. Len(p) = n /\ \A i \in 1..n : p[i] = w[i + 1]
    <3>1. (n + 1) - 2 + 1 = n
      BY <2>0
    <3>2. Len(p) = n
      BY <2>0, <2>2, <3>1
    <3>3. ASSUME NEW i \in 1..n PROVE p[i] = w[i + 1]
      <4>1. 2 + i - 1 = i + 1
        BY <2>0
      <4> QED BY <2>2, <3>1, <4>1
    <3> QED BY <3>2, <3>3
  <2>4. ASSUME NEW i \in 1..n PROVE w[i + 1] = x[2][i]
    <3>1. i + 1 \in 1..k /\ i + 1 > 1 /\ (i + 1) - 1 = i
      BY <2>0
    <3>2. w[i + 1] = Frame(x)[i + 1]
      BY <1>10, <1>12, <3>1
    <3> DEFINE h == <<Header(x[1], x[2])>>
    <3>3. Frame(x) = h \o x[2] /\ h \in Seq(Items) /\ Len(h) = 1
      <4>1. Header(x[1], x[2]) \in Items
        BY <1>2, SegmentFacts DEF Items
      <4> QED BY <4>1 DEF Frame
    <3> HIDE DEF h
    <3>4. \A j \in 1..(Len(h) + Len(x[2])) : (h \o x[2])[j] =
            IF j <= Len(h) THEN h[j] ELSE x[2][j - Len(h)]
      BY <2>0, <3>3, ConcatProperties
    <3>5. i + 1 \in 1..(Len(h) + Len(x[2])) /\ ~(i + 1 <= Len(h)) /\ (i + 1) - Len(h) = i
      BY <2>0, <3>3
    <3>6. (h \o x[2])[i + 1] = x[2][i]
      BY <3>4, <3>5
    <3> QED BY <3>2, <3>3, <3>6
  <2>5. p = x[2]
    <3>1. \A i \in 1..Len(p) : p[i] = x[2][i]
      BY <2>3, <2>4
    <3> QED BY <2>0, <2>2, <2>3, <3>1, SeqEqual
  <2> QED BY <2>5 DEF p
<1>14. x = <<x[1], x[2]>>
  BY <1>2, SegmentFacts
<1>15. r = SubSeq(w, Head(w).len + 2, Len(w))
  <2>1. k + 1 = n + 2
    BY <1>4
  <2> QED BY <1>8, <2>1 DEF r
<1>16. x = <<Head(w).id, SubSeq(w, 2, Head(w).len + 1)>>
  BY <1>8, <1>13, <1>14
<1> QED BY <1>2, <1>10, <1>12, <1>15, <1>16, ZenonT(30)

-----------------------------------------------------------------------------
(* The inductive invariant, first part: every queue holds what its place   *)
(* on the way allows.  Bytes reach only the counterpart of their sender,   *)
(* and the bearer carries whole frames, except that the last one may be    *)
(* cut short once the muxer that wrote it is gone.                         *)

AgentTyped(a) ==
  /\ temp[a] \in Seq(OwnBytes(Counterpart(a)))
  /\ egress[a] \in Seq(Chunk(Counterpart(a))) /\ Len(egress[a]) <= QueueSize
  /\ chunks[a] \in Seq(Chunk(a))

Framed(e) ==
  \E segs \in Seq(Segments(e)), tail \in Seq(Items) :
    /\ Frames(segs) = wire[e] \o tail
    /\ "mux" \in running[e] => tail = <<>>

EndTyped(e) ==
  /\ ingress[e] \in Seq(Segments(e)) /\ Len(ingress[e]) <= QueueSize
  /\ muxing[e] # <<>> => "mux" \in running[e] /\ \E x \in Segments(e) : muxing[e] = Frame(x)
  /\ demuxing[e] # <<>> => demuxing[e] \in Segments(Other(e))
  /\ Framed(e)

AgentStates == {"send", "recv", "failed", "dropped"}
Tasks == {"mux", "demux"}
Payload == Ids \X Seq(Bytes)

Typed ==
  /\ scene \in Scenarios
  /\ sent \in [Agents -> Seq(AllMessages)] /\ got \in [Agents -> Seq(AllMessages)]
  /\ turn \in [Agents -> AgentStates]
  /\ temp \in [Agents -> Seq(Bytes)]
  /\ egress \in [Agents -> Seq(Seq(Bytes))] /\ chunks \in [Agents -> Seq(Seq(Bytes))]
  /\ running \in [Ends -> SUBSET Tasks] /\ ingress \in [Ends -> Seq(Payload)]
  /\ wire \in [Ends -> Seq(Items)] /\ muxing \in [Ends -> Seq(Items)]
  /\ demuxing \in [Ends -> {<<>>} \cup Payload]
  /\ \A a \in Agents : AgentTyped(a)
  /\ \A e \in Ends : EndTyped(e)

LEMMA ChunkFacts ==
  ASSUME NEW a
  PROVE  /\ Chunk(a) \subseteq Seq(OwnBytes(a)) /\ Chunk(a) \subseteq Seq(Bytes)
         /\ \A q \in Seq(Chunk(a)) : q \in Seq(Seq(OwnBytes(a))) /\ q \in Seq(Seq(Bytes))
         /\ \A q \in Seq(Chunk(a)) : FlattenSeq(q) \in Seq(OwnBytes(a)) /\ FlattenSeq(q) \in Seq(Bytes)
<1>1. Chunk(a) \subseteq Seq(OwnBytes(a)) /\ Chunk(a) \subseteq Seq(Bytes)
  BY BytesAreItems DEF Chunk
<1>2. ASSUME NEW q \in Seq(Chunk(a)) PROVE q \in Seq(Seq(OwnBytes(a))) /\ q \in Seq(Seq(Bytes))
  BY <1>1, SeqMonotonic
<1>3. ASSUME NEW q \in Seq(Chunk(a))
      PROVE  FlattenSeq(q) \in Seq(OwnBytes(a)) /\ FlattenSeq(q) \in Seq(Bytes)
  BY <1>2, FlattenType
<1> QED BY <1>1, <1>2, <1>3

LEMMA SegmentsArePayloads ==
  ASSUME NEW e \in Ends
  PROVE  Segments(e) \subseteq Payload /\ \A q \in Seq(Segments(e)) : q \in Seq(Payload)
<1>1. ASSUME NEW x \in Segments(e) PROVE x \in Payload
  <2>1. x = <<x[1], x[2]>> /\ x[1] \in Ids /\ x[2] \in Seq(Bytes)
    BY SegmentFacts
  <2> QED BY <2>1 DEF Payload
<1> QED BY <1>1, SeqMonotonic

LEMMA SubscribedFacts ==
  ASSUME scene \in Scenarios
  PROVE  Subscribed \subseteq Agents /\ scene.sizes \subseteq Sizes
BY PlexerAssumption DEF Subscribed, Agents, Ends

(* Chunks made of an agent's bytes.                                        *)
LEMMA ChunkedFacts ==
  ASSUME NEW a, NEW p \in Seq(OwnBytes(a))
  PROVE  Chunked(p) \in Seq(Chunk(a)) /\ FlattenSeq(Chunked(p)) = p
<1>1. MaxSegment \in Nat \ {0}
  BY PlexerAssumption
<1>2. /\ Cut(p, MaxSegment) \in Seq({q \in Seq(OwnBytes(a)) : Len(q) <= MaxSegment})
      /\ FlattenSeq(Cut(p, MaxSegment)) = p
  BY <1>1, CutFacts
<1> QED BY <1>2 DEF Chunked, Chunk

LEMMA TypedInit ==
  ASSUME Init
  PROVE  Typed
<1>0. QueueSize \in Nat
  BY PlexerAssumption
<1>1. ASSUME NEW a \in Agents PROVE AgentTyped(a)
  BY <1>0 DEF AgentTyped, Init
<1>2. ASSUME NEW e \in Ends PROVE EndTyped(e)
  <2>1. Frames(<<>>) = wire[e] \o <<>> /\ <<>> \in Seq(Segments(e)) /\ <<>> \in Seq(Items)
    <3>1. <<>> \in Seq(Segments(e)) /\ <<>> \in Seq(Items) /\ wire[e] = <<>>
      BY DEF Init
    <3>2. Frames(<<>>) = <<>>
      BY <3>1, FramesFacts
    <3>3. wire[e] \o <<>> = <<>>
      BY <3>1
    <3> QED BY <3>1, <3>2, <3>3
  <2>2. Framed(e)
    BY <2>1 DEF Framed
  <2> QED BY <1>0, <2>2 DEF EndTyped, Init
<1>3. /\ scene \in Scenarios
      /\ sent \in [Agents -> Seq(AllMessages)] /\ got \in [Agents -> Seq(AllMessages)]
      /\ temp \in [Agents -> Seq(Bytes)]
      /\ egress \in [Agents -> Seq(Seq(Bytes))] /\ chunks \in [Agents -> Seq(Seq(Bytes))]
      /\ ingress \in [Ends -> Seq(Payload)]
      /\ wire \in [Ends -> Seq(Items)] /\ muxing \in [Ends -> Seq(Items)]
      /\ demuxing \in [Ends -> {<<>>} \cup Payload]
  BY DEF Init
<1>4. turn \in [Agents -> AgentStates] /\ running \in [Ends -> SUBSET Tasks]
  BY DEF Init, AgentStates, Tasks
<1> QED BY <1>1, <1>2, <1>3, <1>4 DEF Typed

(* What an action leaves alone keeps its type.                             *)
LEMMA AgentTypedKept ==
  ASSUME NEW a \in Agents, AgentTyped(a), temp'[a] = temp[a], egress'[a] = egress[a],
         chunks'[a] = chunks[a]
  PROVE  AgentTyped(a)'
BY DEF AgentTyped

LEMMA FramedKept ==
  ASSUME NEW e \in Ends, Framed(e), wire'[e] = wire[e], running'[e] \subseteq running[e]
  PROVE  Framed(e)'
BY DEF Framed

LEMMA EndTypedKept ==
  ASSUME NEW e \in Ends, EndTyped(e), ingress'[e] = ingress[e], muxing'[e] = muxing[e],
         demuxing'[e] = demuxing[e], wire'[e] = wire[e], running'[e] = running[e]
  PROVE  EndTyped(e)'
<1>1. Framed(e)'
  BY FramedKept DEF EndTyped
<1> QED BY <1>1 DEF EndTyped

-----------------------------------------------------------------------------
(* Each action keeps the types.                                            *)

LEMMA MessageFacts ==
  ASSUME Typed, NEW a \in Subscribed, NEW m \in Messages(a)
  PROVE  a \in Agents /\ m \in AllMessages /\ m.of = a
<1>1. a \in Agents /\ scene.sizes \subseteq Sizes
  BY SubscribedFacts DEF Typed
<1>2. sent[a] \in Seq(AllMessages)
  BY <1>1 DEF Typed
<1>3. Len(sent[a]) + 1 \in Nat
  BY <1>2
<1> QED BY <1>1, <1>3 DEF Messages, AllMessages

(* send_msg_chunks and its external variant: what is appended to the       *)
(* history is what the chunks hold.                                        *)
LEMMA SendFacts ==
  ASSUME Typed, NEW a \in Subscribed, send_msg_chunks(a) \/ SendPacked(a)
  PROVE  /\ a \in Agents /\ turn[a] = "send" /\ chunks[a] = <<>>
         /\ \E more \in Seq(AllMessages) :
              /\ more # <<>> /\ sent' = [sent EXCEPT ![a] = @ \o more]
              /\ BytesOf(more) \in Seq(OwnBytes(a))
              /\ chunks' = [chunks EXCEPT ![a] = Chunked(BytesOf(more))]
         /\ UNCHANGED <<scene, got, turn, temp, ingress, egress, taskVars>>
<1>1. a \in Agents
  BY SubscribedFacts DEF Typed
<1>2. ASSUME NEW m \in AllMessages
      PROVE  <<m>> \in Seq(AllMessages) /\ <<m>> # <<>> /\ BytesOf(<<m>>) = Encoded(m)
  <2>1. <<>> \in Seq(AllMessages) /\ <<m>> = Append(<<>>, m) /\ Encoded(m) \in Seq(Bytes)
    BY EncodedFacts
  <2>2. BytesOf(Append(<<>>, m)) = BytesOf(<<>>) \o Encoded(m) /\ BytesOf(<<>>) = <<>>
    BY <2>1, BytesOfFacts
  <2>3. <<>> \o Encoded(m) = Encoded(m)
    BY <2>1
  <2>4. BytesOf(Append(<<>>, m)) = Encoded(m)
    BY <2>2, <2>3
  <2>5. <<m>> \in Seq(AllMessages) /\ <<m>> # <<>>
    OBVIOUS
  <2> QED BY <2>1, <2>4, <2>5
<1>3. CASE send_msg_chunks(a)
  <2>1. PICK m \in Messages(a) :
             /\ sent' = [sent EXCEPT ![a] = Append(@, m)]
             /\ chunks' = [chunks EXCEPT ![a] = Chunked(Encoded(m))]
    BY <1>3 DEF send_msg_chunks
  <2>2. m \in AllMessages /\ m.of = a
    BY MessageFacts
  <2> DEFINE more == <<m>>
  <2>3. more \in Seq(AllMessages) /\ more # <<>> /\ BytesOf(more) = Encoded(m)
    BY <1>2, <2>2
  <2>4. Append(sent[a], m) = sent[a] \o more
    BY <1>1, <2>2, AppendIsConcat DEF Typed
  <2>5. Encoded(m) \in Seq(OwnBytes(a))
    BY <2>2, EncodedFacts
  <2> HIDE DEF more
  <2>6. sent' = [sent EXCEPT ![a] = @ \o more]
    BY <2>1, <2>4
  <2> QED BY <1>1, <1>3, <2>1, <2>3, <2>5, <2>6 DEF send_msg_chunks
<1>4. CASE SendPacked(a)
  <2>1. PICK m \in Messages(a), size \in scene.sizes :
          LET n == [m EXCEPT !.no = @ + 1, !.size = size, !.last = TRUE]
          IN  /\ sent' = [sent EXCEPT ![a] = @ \o <<m, n>>]
              /\ chunks' = [chunks EXCEPT ![a] = Chunked(Encoded(m) \o Encoded(n))]
    BY <1>4 DEF SendPacked
  <2> DEFINE n == [m EXCEPT !.no = @ + 1, !.size = size, !.last = TRUE]
  <2>2. m \in AllMessages /\ m.of = a
    BY MessageFacts
  <2>3. n \in AllMessages /\ n.of = a
    <3>1. scene.sizes \subseteq Sizes
      BY SubscribedFacts DEF Typed
    <3> DEFINE n1 == [m EXCEPT !.no = m.no + 1]
    <3> DEFINE n2 == [n1 EXCEPT !.size = size]
    <3> DEFINE n3 == [n2 EXCEPT !.last = TRUE]
    <3>2. n1 \in AllMessages /\ n1.of = a
      BY <2>2 DEF AllMessages
    <3>3. n = n3
      OBVIOUS
    <3> HIDE DEF n, n1
    <3>4. n2 \in AllMessages /\ n2.of = a
      BY <3>1, <3>2 DEF AllMessages
    <3> HIDE DEF n2
    <3>5. n3 \in AllMessages /\ n3.of = a
      BY <3>4 DEF AllMessages
    <3> QED BY <3>3, <3>5
  <2> HIDE DEF n
  <2> DEFINE more == <<m, n>>
  <2>4. more \in Seq(AllMessages) /\ more # <<>> /\ more = Append(<<m>>, n)
    BY <2>2, <2>3
  <2>5. BytesOf(more) = Encoded(m) \o Encoded(n)
    <3>1. <<m>> \in Seq(AllMessages) /\ BytesOf(<<m>>) = Encoded(m)
      BY <1>2, <2>2
    <3>2. BytesOf(Append(<<m>>, n)) = BytesOf(<<m>>) \o Encoded(n)
      BY <2>3, <3>1, BytesOfFacts
    <3>3. BytesOf(Append(<<m>>, n)) = Encoded(m) \o Encoded(n)
      BY <3>1, <3>2
    <3>4. more = Append(<<m>>, n)
      BY <2>4
    <3> HIDE DEF more
    <3> QED BY <3>3, <3>4
  <2>6. Encoded(m) \o Encoded(n) \in Seq(OwnBytes(a))
    BY <2>2, <2>3, EncodedFacts, ConcatProperties
  <2>7. sent' = [sent EXCEPT ![a] = @ \o more]
    BY <2>1 DEF n
  <2>8. chunks' = [chunks EXCEPT ![a] = Chunked(BytesOf(more))]
    BY <2>1, <2>5 DEF n
  <2> HIDE DEF more
  <2> QED BY <1>1, <1>4, <2>4, <2>5, <2>6, <2>7, <2>8 DEF SendPacked
<1> QED BY <1>3, <1>4

LEMMA SendTyped ==
  ASSUME Typed, NEW a \in Subscribed, send_msg_chunks(a) \/ SendPacked(a)
  PROVE  Typed'
<1>1. /\ a \in Agents
      /\ UNCHANGED <<scene, got, turn, temp, ingress, egress, taskVars>>
  BY SendFacts
<1>2. PICK more \in Seq(AllMessages) :
              /\ sent' = [sent EXCEPT ![a] = @ \o more]
              /\ BytesOf(more) \in Seq(OwnBytes(a))
              /\ chunks' = [chunks EXCEPT ![a] = Chunked(BytesOf(more))]
  BY SendFacts
<1>3. Chunked(BytesOf(more)) \in Seq(Chunk(a)) /\ Chunked(BytesOf(more)) \in Seq(Seq(Bytes))
  BY <1>2, ChunkedFacts, ChunkFacts
<1>4. sent' \in [Agents -> Seq(AllMessages)]
  <2>1. sent[a] \o more \in Seq(AllMessages)
    BY <1>1, ConcatProperties DEF Typed
  <2> QED BY <1>2, <2>1 DEF Typed
<1>5. chunks' \in [Agents -> Seq(Seq(Bytes))]
  BY <1>2, <1>3 DEF Typed
<1>6. ASSUME NEW c \in Agents PROVE AgentTyped(c)'
  <2>0. AgentTyped(c)
    BY DEF Typed
  <2>1. CASE c = a
    <3>1. chunks'[c] \in Seq(Chunk(c))
      BY <1>1, <1>2, <1>3, <2>1 DEF Typed
    <3> QED BY <1>1, <2>0, <3>1 DEF AgentTyped
  <2>2. CASE c # a
    <3>1. chunks'[c] = chunks[c]
      BY <1>1, <1>2, <2>2 DEF Typed
    <3> QED BY <1>1, <2>0, <3>1, AgentTypedKept
  <2> QED BY <2>1, <2>2
<1>7. ASSUME NEW e \in Ends PROVE EndTyped(e)'
  BY <1>1, EndTypedKept DEF Typed, taskVars
<1> QED BY <1>1, <1>4, <1>5, <1>6, <1>7 DEF Typed, taskVars

LEMMA EnqueueTyped ==
  ASSUME Typed, NEW a \in Subscribed, enqueue_chunk(a)
  PROVE  Typed'
<1>1. /\ a \in Agents /\ a.end \in Ends /\ chunks[a] # <<>>
      /\ UNCHANGED <<scene, history, temp, egress, taskVars>>
  BY SubscribedFacts, CounterpartFacts DEF Typed, enqueue_chunk
<1>2. CASE "mux" \notin running[a.end]
  <2>1. turn' = [turn EXCEPT ![a] = "failed"] /\ UNCHANGED <<ingress, chunks>>
    BY <1>2 DEF enqueue_chunk
  <2>2. turn' \in [Agents -> AgentStates]
    BY <1>1, <2>1 DEF Typed, AgentStates
  <2>3. ASSUME NEW c \in Agents PROVE AgentTyped(c)'
    BY <1>1, <2>1, AgentTypedKept DEF Typed
  <2>4. ASSUME NEW e \in Ends PROVE EndTyped(e)'
    BY <1>1, <2>1, EndTypedKept DEF Typed, taskVars
  <2> QED BY <1>1, <2>1, <2>2, <2>3, <2>4 DEF Typed, taskVars, history
<1>3. CASE "mux" \in running[a.end]
  <2> DEFINE x == <<to_plexer(a), Head(chunks[a])>>
  <2>1. /\ Len(ingress[a.end]) < QueueSize
        /\ ingress' = [ingress EXCEPT ![a.end] = Append(@, x)]
        /\ chunks' = [chunks EXCEPT ![a] = Tail(@)]
        /\ turn' = [turn EXCEPT ![a] = AfterChunk(a)]
    BY <1>3 DEF enqueue_chunk, IngressRoom
  <2>2. x \in Segments(a.end)
    <3>1. Head(chunks[a]) \in Chunk(a)
      BY <1>1 DEF Typed, AgentTyped
    <3>2. a \in AgentsAt(a.end)
      BY <1>1 DEF AgentsAt
    <3>3. x \in {to_plexer(a)} \X Chunk(a)
      BY <3>1
    <3> HIDE DEF x
    <3> QED BY <3>2, <3>3 DEF Segments
  <2>3. x \in Payload
    BY <1>1, <2>2, SegmentsArePayloads
  <2> HIDE DEF x
  <2>4. /\ Tail(chunks[a]) \in Seq(Chunk(a)) /\ Tail(chunks[a]) \in Seq(Seq(Bytes))
        /\ Append(ingress[a.end], x) \in Seq(Segments(a.end))
        /\ Append(ingress[a.end], x) \in Seq(Payload)
    <3>1. Tail(chunks[a]) \in Seq(Chunk(a))
      BY <1>1 DEF Typed, AgentTyped
    <3>2. Append(ingress[a.end], x) \in Seq(Segments(a.end))
      BY <1>1, <2>2 DEF Typed, EndTyped
    <3> QED BY <1>1, <3>1, <3>2, ChunkFacts, SegmentsArePayloads
  <2>5. turn' \in [Agents -> AgentStates]
    BY <1>1, <2>1 DEF Typed, AgentStates, AfterChunk
  <2>6. chunks' \in [Agents -> Seq(Seq(Bytes))] /\ ingress' \in [Ends -> Seq(Payload)]
    BY <1>1, <2>1, <2>4 DEF Typed
  <2>7. ASSUME NEW c \in Agents PROVE AgentTyped(c)'
    <3>0. AgentTyped(c)
      BY DEF Typed
    <3>1. CASE c = a
      <4>1. chunks'[c] \in Seq(Chunk(c))
        BY <1>1, <2>1, <2>4, <3>1 DEF Typed
      <4> QED BY <1>1, <3>0, <4>1 DEF AgentTyped
    <3>2. CASE c # a
      <4>1. chunks'[c] = chunks[c]
        BY <1>1, <2>1, <3>2 DEF Typed
      <4> QED BY <1>1, <3>0, <4>1, AgentTypedKept
    <3> QED BY <3>1, <3>2
  <2>8. ASSUME NEW e \in Ends PROVE EndTyped(e)'
    <3>0. EndTyped(e)
      BY DEF Typed
    <3>1. CASE e = a.end
      <4>1. ingress'[e] = Append(ingress[e], x)
        BY <1>1, <2>1, <3>1 DEF Typed
      <4>2. ingress'[e] \in Seq(Segments(e))
        BY <2>4, <3>1, <4>1
      <4>3. Len(ingress'[e]) <= QueueSize
        <5>1. Len(ingress'[e]) = Len(ingress[e]) + 1 /\ Len(ingress[e]) \in Nat
          BY <2>2, <3>0, <3>1, <4>1 DEF EndTyped
        <5>2. Len(ingress[e]) < QueueSize /\ QueueSize \in Nat
          BY <2>1, <3>1, PlexerAssumption
        <5> QED BY <5>1, <5>2
      <4>4. Framed(e)'
        BY <1>1, <3>0, FramedKept DEF EndTyped, taskVars
      <4> QED BY <1>1, <3>0, <4>2, <4>3, <4>4 DEF EndTyped, taskVars
    <3>2. CASE e # a.end
      <4>1. ingress'[e] = ingress[e]
        BY <1>1, <2>1, <3>2 DEF Typed
      <4> QED BY <1>1, <3>0, <4>1, EndTypedKept DEF taskVars
    <3> QED BY <3>1, <3>2
  <2> QED BY <1>1, <2>5, <2>6, <2>7, <2>8 DEF Typed, taskVars, history
<1> QED BY <1>2, <1>3

LEMMA MuxTyped ==
  ASSUME Typed, NEW e \in Ends, mux(e)
  PROVE  Typed'
<1> DEFINE x == Head(ingress[e])
<1>1. /\ "mux" \in running[e] /\ muxing[e] = <<>> /\ ingress[e] # <<>>
      /\ muxing' = [muxing EXCEPT ![e] = Frame(x)]
      /\ ingress' = [ingress EXCEPT ![e] = Tail(@)]
      /\ UNCHANGED <<scene, history, agentVars, egress, wire, demuxing, running>>
  BY DEF mux, Frame
<1>2. ingress[e] \in Seq(Segments(e)) /\ Len(ingress[e]) <= QueueSize /\ QueueSize \in Nat
  BY PlexerAssumption DEF Typed, EndTyped
<1>3. x \in Segments(e) /\ Tail(ingress[e]) \in Seq(Segments(e))
      /\ Len(Tail(ingress[e])) <= QueueSize
  BY <1>1, <1>2
<1>4. Frame(x) \in Seq(Items) /\ Tail(ingress[e]) \in Seq(Payload)
  BY <1>3, FrameFacts, SegmentsArePayloads
<1> HIDE DEF x
<1>5. muxing' \in [Ends -> Seq(Items)] /\ ingress' \in [Ends -> Seq(Payload)]
  BY <1>1, <1>4 DEF Typed
<1>6. ASSUME NEW f \in Ends PROVE EndTyped(f)'
  <2>0. EndTyped(f)
    BY DEF Typed
  <2>1. CASE f = e
    <3>1. muxing'[f] = Frame(x) /\ ingress'[f] = Tail(ingress[e])
      BY <1>1, <2>1 DEF Typed
    <3>2. Framed(f)'
      BY <1>1, <2>0, FramedKept DEF EndTyped
    <3>3. muxing'[f] # <<>> => "mux" \in running'[f] /\ \E y \in Segments(f) : muxing'[f] = Frame(y)
      BY <1>1, <1>3, <2>1, <3>1
    <3> QED BY <1>1, <1>3, <2>0, <2>1, <3>1, <3>2, <3>3 DEF EndTyped
  <2>2. CASE f # e
    <3>1. muxing'[f] = muxing[f] /\ ingress'[f] = ingress[f]
      BY <1>1, <2>2 DEF Typed
    <3> QED BY <1>1, <2>0, <3>1, EndTypedKept
  <2> QED BY <2>1, <2>2
<1>7. ASSUME NEW a \in Agents PROVE AgentTyped(a)'
  BY <1>1, AgentTypedKept DEF Typed, agentVars
<1> QED BY <1>1, <1>5, <1>6, <1>7 DEF Typed, agentVars, history

(* The bearer takes a whole frame.                                         *)
LEMMA FramedWritten ==
  ASSUME Typed, NEW e \in Ends, muxing[e] # <<>>
  PROVE  \E segs \in Seq(Segments(e)) : Frames(segs) = wire[e] \o muxing[e]
<1>1. PICK x \in Segments(e) : muxing[e] = Frame(x) /\ "mux" \in running[e]
  BY DEF Typed, EndTyped
<1>2. PICK segs \in Seq(Segments(e)) : Frames(segs) = wire[e]
  <2>1. PICK s \in Seq(Segments(e)), tail \in Seq(Items) :
          Frames(s) = wire[e] \o tail /\ tail = <<>>
    BY <1>1 DEF Typed, EndTyped, Framed
  <2>2. wire[e] \in Seq(Items)
    BY DEF Typed
  <2>3. wire[e] \o tail = wire[e]
    BY <2>1, <2>2, ConcatEmptySeq
  <2> QED BY <2>1, <2>3
<1>3. Frames(Append(segs, x)) = wire[e] \o muxing[e]
  BY <1>1, <1>2, FramesFacts
<1>4. Append(segs, x) \in Seq(Segments(e))
  OBVIOUS
<1> QED BY <1>3, <1>4

LEMMA WriteTyped ==
  ASSUME Typed, NEW e \in Ends, write_segment(e)
  PROVE  Typed'
<1>1. /\ muxing[e] # <<>> /\ muxing' = [muxing EXCEPT ![e] = <<>>]
      /\ UNCHANGED <<scene, history, agentVars, egress, demuxing>>
  BY DEF write_segment
<1>2. muxing'[e] = <<>> /\ \A f \in Ends : f # e => muxing'[f] = muxing[f]
  BY <1>1 DEF Typed
<1>3. muxing' \in [Ends -> Seq(Items)]
  BY <1>1 DEF Typed
<1>4. ASSUME NEW a \in Agents PROVE AgentTyped(a)'
  BY <1>1, AgentTypedKept DEF Typed, agentVars
<1>5. CASE /\ wire' = [wire EXCEPT ![e] = @ \o muxing[e]]
           /\ UNCHANGED <<running, ingress>>
  <2>1. wire'[e] = wire[e] \o muxing[e] /\ \A f \in Ends : f # e => wire'[f] = wire[f]
    BY <1>5 DEF Typed
  <2>2. wire[e] \o muxing[e] \in Seq(Items)
    BY ConcatProperties DEF Typed
  <2>3. wire' \in [Ends -> Seq(Items)]
    BY <1>5, <2>2 DEF Typed
  <2>4. ASSUME NEW f \in Ends PROVE EndTyped(f)'
    <3>0. EndTyped(f)
      BY DEF Typed
    <3>1. CASE f = e
      <4>1. PICK segs \in Seq(Segments(e)) : Frames(segs) = wire[e] \o muxing[e]
        BY <1>1, FramedWritten
      <4>2. wire'[f] \o <<>> = wire'[f] /\ <<>> \in Seq(Items)
        BY <2>3, ConcatEmptySeq
      <4>3. Frames(segs) = wire'[f] \o <<>>
        BY <2>1, <3>1, <4>1, <4>2
      <4>4. Framed(f)'
        BY <3>1, <4>2, <4>3 DEF Framed
      <4> QED BY <1>1, <1>2, <1>5, <3>0, <3>1, <4>4 DEF EndTyped
    <3>2. CASE f # e
      BY <1>1, <1>2, <1>5, <2>1, <3>0, <3>2, EndTypedKept
    <3> QED BY <3>1, <3>2
  <2> QED BY <1>1, <1>3, <1>4, <1>5, <2>3, <2>4 DEF Typed, agentVars, history
<1>6. CASE UNCHANGED <<wire, running, ingress>>
  <2>1. ASSUME NEW f \in Ends PROVE EndTyped(f)'
    <3>0. EndTyped(f)
      BY DEF Typed
    <3>1. Framed(f)'
      BY <1>6, <3>0, FramedKept DEF EndTyped
    <3>2. muxing'[f] = muxing[f] \/ muxing'[f] = <<>>
      BY <1>2
    <3> QED BY <1>1, <1>6, <3>0, <3>1, <3>2 DEF EndTyped
  <2> QED BY <1>1, <1>3, <1>4, <1>6, <2>1 DEF Typed, agentVars, history
<1>7. CASE /\ running' = [running EXCEPT ![e] = @ \ {"mux"}]
           /\ ingress' = [ingress EXCEPT ![e] = <<>>]
           /\ UNCHANGED wire
  <2>1. /\ running'[e] = running[e] \ {"mux"} /\ ingress'[e] = <<>>
        /\ \A f \in Ends : f # e => running'[f] = running[f] /\ ingress'[f] = ingress[f]
    BY <1>7 DEF Typed
  <2>2. running' \in [Ends -> SUBSET Tasks] /\ ingress' \in [Ends -> Seq(Payload)]
    BY <1>7 DEF Typed
  <2>3. ASSUME NEW f \in Ends PROVE EndTyped(f)'
    <3>0. EndTyped(f)
      BY DEF Typed
    <3>1. Framed(f)'
      BY <1>7, <2>1, <3>0, FramedKept DEF EndTyped
    <3>2. CASE f = e
      <4>0. QueueSize \in Nat
        BY PlexerAssumption
      <4>1. Len(ingress'[f]) <= QueueSize /\ ingress'[f] \in Seq(Segments(f))
        <5>1. ingress'[f] = <<>>
          BY <2>1, <3>2
        <5>2. Len(<<>>) <= QueueSize /\ <<>> \in Seq(Segments(f))
          BY <4>0
        <5> QED BY <5>1, <5>2
      <4> QED BY <1>1, <1>2, <3>0, <3>1, <3>2, <4>1 DEF EndTyped
    <3>3. CASE f # e
      BY <1>1, <1>2, <1>7, <2>1, <3>0, <3>3, EndTypedKept
    <3> QED BY <3>2, <3>3
  <2> QED BY <1>1, <1>3, <1>4, <1>7, <2>2, <2>3 DEF Typed, agentVars, history
<1> QED BY <1>5, <1>6, <1>7 DEF write_segment

(* read_segment takes the first frame off the bearer.                      *)
LEMMA ReadFacts ==
  ASSUME Typed, NEW e \in Ends, read_segment(e)
  PROVE  /\ demuxing[e] = <<>>
         /\ \E x \in Segments(Other(e)), r \in Seq(Items),
               more \in Seq(Segments(Other(e))), tail \in Seq(Items) :
              /\ wire[Other(e)] = Frame(x) \o r
              /\ demuxing' = [demuxing EXCEPT ![e] = x]
              /\ wire' = [wire EXCEPT ![Other(e)] = r]
              /\ Frames(more) = r \o tail
              /\ "mux" \in running[Other(e)] => tail = <<>>
         /\ UNCHANGED <<scene, history, agentVars, ingress, egress, muxing, running>>
<1> DEFINE o == Other(e)
<1> DEFINE w == wire[o]
<1>1. /\ w # <<>> /\ Len(w) > Head(w).len /\ demuxing[e] = <<>>
      /\ demuxing' = [demuxing EXCEPT ![e] = <<Head(w).id, SubSeq(w, 2, Head(w).len + 1)>>]
      /\ wire' = [wire EXCEPT ![o] = SubSeq(w, Head(w).len + 2, Len(w))]
      /\ UNCHANGED <<scene, history, agentVars, ingress, egress, muxing, running>>
  BY DEF read_segment, SegmentReady, Incoming
<1>2. o \in Ends /\ w \in Seq(Items)
  BY EndFacts DEF Typed
<1>3. PICK segs \in Seq(Segments(o)), tail \in Seq(Items) :
        Frames(segs) = w \o tail /\ ("mux" \in running[o] => tail = <<>>)
  BY <1>2 DEF Typed, EndTyped, Framed
<1> HIDE DEF w, o
<1>4. PICK x \in Segments(o), more \in Seq(Segments(o)), r \in Seq(Items) :
           /\ x = <<Head(w).id, SubSeq(w, 2, Head(w).len + 1)>>
           /\ r = SubSeq(w, Head(w).len + 2, Len(w))
           /\ w = Frame(x) \o r /\ Frames(more) = r \o tail
  BY <1>1, <1>2, <1>3, ReadFrame, ZenonT(30)
<1>5. demuxing' = [demuxing EXCEPT ![e] = x] /\ wire' = [wire EXCEPT ![o] = r]
  BY <1>1, <1>4, ZenonT(30)
<1>6. \E xx \in Segments(o), rr \in Seq(Items), mm \in Seq(Segments(o)), tt \in Seq(Items) :
              /\ w = Frame(xx) \o rr
              /\ demuxing' = [demuxing EXCEPT ![e] = xx]
              /\ wire' = [wire EXCEPT ![o] = rr]
              /\ Frames(mm) = rr \o tt
              /\ "mux" \in running[o] => tt = <<>>
  <2>1. w = Frame(x) \o r /\ Frames(more) = r \o tail
    BY <1>4, ZenonT(30)
  <2>2. "mux" \in running[o] => tail = <<>>
    BY <1>3
  <2> QED BY <1>5, <2>1, <2>2, Zenon
<1> QED BY <1>1, <1>6 DEF w, o

LEMMA ReadTyped ==
  ASSUME Typed, NEW e \in Ends, read_segment(e)
  PROVE  Typed'
<1> DEFINE o == Other(e)
<1>1. PICK x \in Segments(o), r \in Seq(Items), more \in Seq(Segments(o)), tail \in Seq(Items) :
              /\ demuxing' = [demuxing EXCEPT ![e] = x]
              /\ wire' = [wire EXCEPT ![o] = r]
              /\ Frames(more) = r \o tail
              /\ "mux" \in running[o] => tail = <<>>
  BY ReadFacts
<1>2. UNCHANGED <<scene, history, agentVars, ingress, egress, muxing, running>>
  BY ReadFacts
<1>3. o \in Ends /\ o # e
  BY EndFacts
<1> HIDE DEF o
<1>4. x \in Payload
  BY <1>3, SegmentsArePayloads
<1>5. demuxing' \in [Ends -> {<<>>} \cup Payload] /\ wire' \in [Ends -> Seq(Items)]
  BY <1>1, <1>3, <1>4 DEF Typed
<1>6. ASSUME NEW f \in Ends PROVE EndTyped(f)'
  <2>0. EndTyped(f)
    BY DEF Typed
  <2>1. CASE f = o
    <3>1. wire'[f] = r /\ demuxing'[f] = demuxing[f]
      BY <1>1, <1>3, <2>1 DEF Typed
    <3>2. Framed(f)'
      BY <1>1, <1>2, <2>1, <3>1 DEF Framed
    <3> QED BY <1>2, <2>0, <3>1, <3>2 DEF EndTyped
  <2>2. CASE f # o
    <3>1. wire'[f] = wire[f]
      BY <1>1, <1>3, <2>2 DEF Typed
    <3>2. Framed(f)'
      BY <1>2, <2>0, <3>1, FramedKept DEF EndTyped
    <3>3. f = e /\ demuxing'[f] = x
      BY <1>1, <1>3, <2>2 DEF Typed, Ends, o, Other
    <3>4. demuxing'[f] \in Segments(Other(f))
      BY <3>3 DEF o
    <3> QED BY <1>2, <2>0, <3>2, <3>4 DEF EndTyped
  <2> QED BY <2>1, <2>2
<1>7. ASSUME NEW a \in Agents PROVE AgentTyped(a)'
  BY <1>2, AgentTypedKept DEF Typed, agentVars
<1> QED BY <1>2, <1>5, <1>6, <1>7 DEF Typed, agentVars, history

LEMMA ReadFailsTyped ==
  ASSUME Typed, NEW e \in Ends, ReadFails(e)
  PROVE  Typed'
<1>1. /\ running' = [running EXCEPT ![e] = @ \ {"demux"}]
      /\ UNCHANGED <<scene, history, agentVars, ingress, egress, muxing, wire, demuxing>>
  BY DEF ReadFails
<1>2. running' \in [Ends -> SUBSET Tasks]
  BY <1>1 DEF Typed
<1>3. ASSUME NEW f \in Ends PROVE EndTyped(f)'
  <2>0. EndTyped(f)
    BY DEF Typed
  <2>1. running'[f] \subseteq running[f] /\ ("mux" \in running[f] => "mux" \in running'[f])
    BY <1>1 DEF Typed
  <2>2. Framed(f)'
    BY <1>1, <2>0, <2>1, FramedKept DEF EndTyped
  <2> QED BY <1>1, <2>0, <2>1, <2>2 DEF EndTyped
<1>4. ASSUME NEW a \in Agents PROVE AgentTyped(a)'
  BY <1>1, AgentTypedKept DEF Typed, agentVars
<1> QED BY <1>1, <1>2, <1>3, <1>4 DEF Typed, agentVars, history

(* demux: the segment in hand was written by the counterpart of the only   *)
(* agent that listens to its id.                                           *)
LEMMA InHandFacts ==
  ASSUME Typed, NEW e \in Ends, demuxing[e] # <<>>
  PROVE  \E a \in Agents :
           /\ a.end = Other(e) /\ Counterpart(a).end = e
           /\ demuxing[e][2] \in Chunk(a) /\ demuxing[e][1] \in Ids
           /\ \A c \in Subscribers(e, demuxing[e][1]) : c = Counterpart(a) /\ c \in Agents
           /\ Counterpart(a) \in Subscribed => Counterpart(a) \in Subscribers(e, demuxing[e][1])
<1> DEFINE x == demuxing[e]
<1>1. x \in Segments(Other(e)) /\ Other(e) \in Ends /\ Other(Other(e)) = e
  BY EndFacts DEF Typed, EndTyped
<1>2. PICK a \in AgentsAt(Other(e)) : x[1] = to_plexer(a) /\ x[2] \in Chunk(a)
  BY <1>1, SegmentFacts
<1>3. x[1] \in Ids
  BY <1>1, SegmentFacts
<1> HIDE DEF x
<1>4. a \in Agents /\ a.end = Other(e)
  BY DEF AgentsAt
<1>5. Counterpart(a).end = e
  BY <1>1, <1>4, CounterpartFacts
<1>6. ASSUME NEW c \in Subscribers(e, x[1]) PROVE c = Counterpart(a) /\ c \in Agents
  <2>1. c \in Agents /\ c.end = e /\ from_plexer(c) = to_plexer(a)
    BY <1>2, SubscribedFacts DEF Subscribers, Typed
  <2> QED BY <1>1, <1>4, <2>1, IdFacts
<1>7. ASSUME Counterpart(a) \in Subscribed PROVE Counterpart(a) \in Subscribers(e, x[1])
  BY <1>2, <1>4, <1>5, <1>7, IdFacts DEF Subscribers
<1> QED BY <1>2, <1>3, <1>4, <1>5, <1>6, <1>7 DEF x

LEMMA DemuxTyped ==
  ASSUME Typed, NEW e \in Ends, demux(e)
  PROVE  Typed'
<1>1. /\ demuxing[e] # <<>> /\ demuxing' = [demuxing EXCEPT ![e] = <<>>]
      /\ UNCHANGED <<scene, history, agentVars, ingress, muxing, wire>>
  BY DEF demux
<1>2. demuxing' \in [Ends -> {<<>>} \cup Payload]
      /\ \A f \in Ends : demuxing'[f] = demuxing[f] \/ demuxing'[f] = <<>>
  BY <1>1 DEF Typed
<1>3. ASSUME \/ UNCHANGED running
             \/ running' = [running EXCEPT ![e] = @ \ {"demux"}]
      PROVE  running' \in [Ends -> SUBSET Tasks] /\ \A f \in Ends : EndTyped(f)'
  <2>1. running' \in [Ends -> SUBSET Tasks]
    BY <1>3 DEF Typed
  <2>2. ASSUME NEW f \in Ends PROVE EndTyped(f)'
    <3>0. EndTyped(f)
      BY DEF Typed
    <3>1. running'[f] \subseteq running[f] /\ ("mux" \in running[f] => "mux" \in running'[f])
      BY <1>3 DEF Typed
    <3>2. Framed(f)'
      BY <1>1, <3>0, <3>1, FramedKept DEF EndTyped
    <3>3. demuxing'[f] = demuxing[f] \/ demuxing'[f] = <<>>
      BY <1>2
    <3> QED BY <1>1, <3>0, <3>1, <3>2, <3>3 DEF EndTyped
  <2> QED BY <2>1, <2>2
<1>4. CASE UNCHANGED egress
  <2>1. ASSUME NEW a \in Agents PROVE AgentTyped(a)'
    BY <1>1, <1>4, AgentTypedKept DEF Typed, agentVars
  <2>2. \/ UNCHANGED running
        \/ running' = [running EXCEPT ![e] = @ \ {"demux"}]
    BY DEF demux
  <2> QED BY <1>1, <1>2, <1>3, <1>4, <2>1, <2>2 DEF Typed, agentVars, history
<1>5. CASE \E c \in Subscribers(e, demuxing[e][1]) :
             /\ Len(egress[c]) < QueueSize
             /\ egress' = [egress EXCEPT ![c] = Append(@, demuxing[e][2])]
             /\ UNCHANGED running
  <2>1. PICK c \in Subscribers(e, demuxing[e][1]) :
             /\ Len(egress[c]) < QueueSize
             /\ egress' = [egress EXCEPT ![c] = Append(@, demuxing[e][2])]
             /\ UNCHANGED running
    BY <1>5
  <2> DEFINE p == demuxing[e][2]
  <2>2. c \in Agents /\ p \in Chunk(Counterpart(c))
    <3>1. PICK a \in Agents : p \in Chunk(a) /\ c = Counterpart(a) /\ c \in Agents
      BY <1>1, InHandFacts
    <3> QED BY <3>1, CounterpartFacts
  <2>3. p \in Seq(Bytes)
    BY <2>2, ChunkFacts
  <2> HIDE DEF p
  <2>4. egress' = [egress EXCEPT ![c] = Append(@, p)]
    BY <2>1 DEF p
  <2>5. egress' \in [Agents -> Seq(Seq(Bytes))]
    BY <2>2, <2>3, <2>4 DEF Typed
  <2>6. ASSUME NEW a \in Agents PROVE AgentTyped(a)'
    <3>0. AgentTyped(a)
      BY DEF Typed
    <3>1. CASE a = c
      <4>1. egress'[a] = Append(egress[a], p)
        BY <2>2, <2>4, <3>1 DEF Typed
      <4>2. egress[a] \in Seq(Chunk(Counterpart(a))) /\ p \in Chunk(Counterpart(a))
        BY <2>2, <3>0, <3>1 DEF AgentTyped
      <4>3. /\ Append(egress[a], p) \in Seq(Chunk(Counterpart(a)))
            /\ Len(Append(egress[a], p)) = Len(egress[a]) + 1 /\ Len(egress[a]) \in Nat
        BY <4>2
      <4>4. QueueSize \in Nat /\ Len(egress[a]) < QueueSize
        BY <2>1, <3>1, PlexerAssumption
      <4>5. Len(egress'[a]) <= QueueSize
        BY <4>1, <4>3, <4>4
      <4> QED BY <1>1, <3>0, <4>1, <4>3, <4>5 DEF AgentTyped, agentVars
    <3>2. CASE a # c
      <4>1. egress'[a] = egress[a]
        BY <2>2, <2>4, <3>2 DEF Typed
      <4> QED BY <1>1, <3>0, <4>1, AgentTypedKept DEF agentVars
    <3> QED BY <3>1, <3>2
  <2> QED BY <1>1, <1>2, <1>3, <2>1, <2>5, <2>6 DEF Typed, agentVars, history
<1> QED BY <1>4, <1>5 DEF demux

(* recv_full_msg works on a buffer: what was left in it and, where that    *)
(* holds no whole message, one more payload.                               *)
RecvOutcome(a, buffer) ==
  \/ \E m \in AllMessages, r \in Seq(OwnBytes(Counterpart(a))) :
       /\ buffer = Encoded(m) \o r
       /\ got' = [got EXCEPT ![a] = Append(@, m)]
       /\ temp' = [temp EXCEPT ![a] = r]
       /\ turn' = [turn EXCEPT ![a] = IF m.last THEN "send" ELSE "recv"]
  \/ /\ temp' = [temp EXCEPT ![a] = buffer] /\ UNCHANGED got
     /\ UNCHANGED turn \/ turn' = [turn EXCEPT ![a] = "failed"]

LEMMA DecodeOutcome ==
  ASSUME Typed, NEW a \in Agents, NEW buffer \in Seq(OwnBytes(Counterpart(a))),
         try_decode_message(a, buffer)
  PROVE  RecvOutcome(a, buffer)
<1>1. CASE /\ ~Garbled(buffer) /\ Complete(buffer)
           /\ got' = [got EXCEPT ![a] = Append(@, Decoded(buffer))]
           /\ temp' = [temp EXCEPT ![a] = Drained(buffer)]
           /\ turn' = [turn EXCEPT ![a] = IF Decoded(buffer).last THEN "send" ELSE "recv"]
  <2>1. /\ Decoded(buffer) \in AllMessages /\ Drained(buffer) \in Seq(OwnBytes(Counterpart(a)))
        /\ buffer = Encoded(Decoded(buffer)) \o Drained(buffer)
    BY <1>1, DecodeFacts
  <2> DEFINE m == Decoded(buffer)
  <2> DEFINE r == Drained(buffer)
  <2>2. /\ m \in AllMessages /\ r \in Seq(OwnBytes(Counterpart(a)))
        /\ buffer = Encoded(m) \o r
        /\ got' = [got EXCEPT ![a] = Append(@, m)]
        /\ temp' = [temp EXCEPT ![a] = r]
        /\ turn' = [turn EXCEPT ![a] = IF m.last THEN "send" ELSE "recv"]
    BY <1>1, <2>1
  <2> HIDE DEF m, r
  <2> QED BY <2>2, Zenon DEF RecvOutcome
<1>2. CASE /\ temp' = [temp EXCEPT ![a] = buffer] /\ UNCHANGED got
           /\ UNCHANGED turn \/ turn' = [turn EXCEPT ![a] = "failed"]
  BY <1>2 DEF RecvOutcome
<1> QED BY <1>1, <1>2 DEF try_decode_message

LEMMA RecvFacts ==
  ASSUME Typed, NEW a \in Subscribed, recv_full_msg(a)
  PROVE  /\ a \in Agents /\ turn[a] = "recv"
         /\ \E buffer \in Seq(OwnBytes(Counterpart(a))), q \in Seq(Chunk(Counterpart(a))) :
              /\ buffer \o FlattenSeq(q) = temp[a] \o FlattenSeq(egress[a])
              /\ Len(q) <= QueueSize /\ egress' = [egress EXCEPT ![a] = q]
              /\ RecvOutcome(a, buffer)
         /\ UNCHANGED <<scene, sent, chunks, ingress, taskVars>>
<1> DEFINE S == OwnBytes(Counterpart(a))
<1> DEFINE C == Chunk(Counterpart(a))
<1>1. a \in Agents /\ turn[a] = "recv" /\ UNCHANGED <<scene, sent, chunks, ingress, taskVars>>
  BY SubscribedFacts DEF Typed, recv_full_msg
<1>2. temp[a] \in Seq(S) /\ egress[a] \in Seq(C) /\ Len(egress[a]) <= QueueSize /\ QueueSize \in Nat
  BY <1>1, PlexerAssumption DEF Typed, AgentTyped
<1>3. CASE UNCHANGED egress
  <2>1. egress' = [egress EXCEPT ![a] = egress[a]]
    BY <1>3 DEF Typed
  <2>2. RecvOutcome(a, temp[a])
    <3>1. CASE try_decode_message(a, temp[a])
      BY <1>1, <1>2, <3>1, DecodeOutcome
    <3>2. CASE turn' = [turn EXCEPT ![a] = "failed"] /\ UNCHANGED <<got, temp>>
      <4>1. temp' = [temp EXCEPT ![a] = temp[a]]
        BY <3>2 DEF Typed
      <4> QED BY <3>2, <4>1 DEF RecvOutcome
    <3>3. ~(/\ egress[a] # <<>> /\ egress' = [egress EXCEPT ![a] = Tail(@)])
      <4>1. SUFFICES ASSUME egress[a] # <<>>, egress' = [egress EXCEPT ![a] = Tail(@)] PROVE FALSE
        OBVIOUS
      <4>2. egress[a] = Tail(egress[a])
        BY <1>1, <1>3, <4>1 DEF Typed
      <4>3. Len(Tail(egress[a])) = Len(egress[a]) - 1 /\ Len(egress[a]) \in Nat
        BY <1>2, <4>1
      <4>4. Len(egress[a]) = Len(egress[a]) - 1
        BY <4>2, <4>3
      <4> QED BY <4>3, <4>4
    <3> QED BY <3>1, <3>2, <3>3 DEF recv_full_msg
  <2> QED BY <1>1, <1>2, <2>1, <2>2
<1>4. CASE /\ egress[a] # <<>> /\ egress' = [egress EXCEPT ![a] = Tail(@)]
           /\ try_decode_message(a, temp[a] \o Head(egress[a]))
  <2> DEFINE h == Head(egress[a])
  <2> DEFINE q == Tail(egress[a])
  <2>1. h \in C /\ q \in Seq(C) /\ Len(q) <= QueueSize
    BY <1>2, <1>4
  <2>2. h \in Seq(S) /\ egress[a] \in Seq(Seq(S)) /\ FlattenSeq(q) \in Seq(S)
    BY <1>2, <2>1, ChunkFacts
  <2>3. FlattenSeq(egress[a]) = h \o FlattenSeq(q)
    BY <1>4, <2>2, FlattenHead
  <2> HIDE DEF h, q
  <2> DEFINE buffer == temp[a] \o h
  <2>4. buffer \in Seq(S)
    BY <1>2, <2>2, ConcatProperties
  <2>5. buffer \o FlattenSeq(q) = temp[a] \o FlattenSeq(egress[a])
    <3>1. (temp[a] \o h) \o FlattenSeq(q) = temp[a] \o (h \o FlattenSeq(q))
      <4>1. temp[a] \in Seq(Bytes) /\ h \in Seq(Bytes) /\ FlattenSeq(q) \in Seq(Bytes)
        BY <1>2, <2>2, BytesAreItems
      <4> QED BY <4>1, BytesConcat, ZenonT(30)
    <3> QED BY <2>3, <3>1
  <2>6. RecvOutcome(a, buffer)
    BY <1>1, <1>4, <2>4, DecodeOutcome DEF h
  <2>7. egress' = [egress EXCEPT ![a] = q]
    BY <1>4 DEF q
  <2> HIDE DEF buffer
  <2> QED BY <1>1, <2>1, <2>4, <2>5, <2>6, <2>7
<1> QED BY <1>3, <1>4 DEF recv_full_msg

LEMMA RecvTyped ==
  ASSUME Typed, NEW a \in Subscribed, recv_full_msg(a)
  PROVE  Typed'
<1>1. a \in Agents /\ UNCHANGED <<scene, sent, chunks, ingress, taskVars>>
  BY RecvFacts
<1> DEFINE S == OwnBytes(Counterpart(a))
<1>2. PICK buffer \in Seq(S), q \in Seq(Chunk(Counterpart(a))) :
              /\ Len(q) <= QueueSize /\ egress' = [egress EXCEPT ![a] = q]
              /\ RecvOutcome(a, buffer)
  BY RecvFacts
<1>3. q \in Seq(Seq(Bytes)) /\ \A r \in Seq(S) : r \in Seq(Bytes)
  BY ChunkFacts, BytesAreItems
<1>4. egress' \in [Agents -> Seq(Seq(Bytes))]
  BY <1>1, <1>2, <1>3 DEF Typed
<1>5. \E r \in Seq(S) : temp' = [temp EXCEPT ![a] = r]
  BY <1>2 DEF RecvOutcome
<1>6. PICK r \in Seq(S) : temp' = [temp EXCEPT ![a] = r]
  BY <1>5
<1>7. temp' \in [Agents -> Seq(Bytes)]
  BY <1>1, <1>3, <1>6 DEF Typed
<1>8. got' \in [Agents -> Seq(AllMessages)] /\ turn' \in [Agents -> AgentStates]
  <2>1. CASE \E m \in AllMessages :
               /\ got' = [got EXCEPT ![a] = Append(@, m)]
               /\ turn' = [turn EXCEPT ![a] = IF m.last THEN "send" ELSE "recv"]
    BY <1>1, <2>1 DEF Typed, AgentStates
  <2>2. CASE UNCHANGED got /\ (UNCHANGED turn \/ turn' = [turn EXCEPT ![a] = "failed"])
    BY <1>1, <2>2 DEF Typed, AgentStates
  <2> QED BY <1>2, <2>1, <2>2 DEF RecvOutcome
<1>9. ASSUME NEW c \in Agents PROVE AgentTyped(c)'
  <2>0. AgentTyped(c)
    BY DEF Typed
  <2>1. CASE c = a
    <3>1. temp'[c] = r /\ egress'[c] = q
      BY <1>1, <1>2, <1>6, <2>1 DEF Typed
    <3> QED BY <1>1, <1>2, <2>0, <2>1, <3>1 DEF AgentTyped
  <2>2. CASE c # a
    <3>1. temp'[c] = temp[c] /\ egress'[c] = egress[c]
      BY <1>1, <1>2, <1>6, <2>2 DEF Typed
    <3> QED BY <1>1, <2>0, <3>1, AgentTypedKept
  <2> QED BY <2>1, <2>2
<1>10. ASSUME NEW e \in Ends PROVE EndTyped(e)'
  BY <1>1, EndTypedKept DEF Typed, taskVars
<1> QED BY <1>1, <1>4, <1>7, <1>8, <1>9, <1>10 DEF Typed, taskVars

(* abort keeps a part of what was written, in order.                       *)
LEMMA AbortFacts ==
  ASSUME Typed, NEW e \in Ends, abort(e)
  PROVE  /\ running' = [running EXCEPT ![e] = {}]
         /\ muxing' = [muxing EXCEPT ![e] = <<>>]
         /\ demuxing' = [demuxing EXCEPT ![e] = <<>>]
         /\ ingress' = [ingress EXCEPT ![e] = <<>>]
         /\ wire' \in [Ends -> Seq(Items)] /\ wire'[Other(e)] = <<>>
         /\ \E lost \in Seq(Items) : wire[e] \o muxing[e] = wire'[e] \o lost
         /\ UNCHANGED <<scene, history, agentVars, egress>>
<1> DEFINE w == wire[e] \o muxing[e]
<1>1. PICK k \in 0..Len(w) :
        wire' = [wire EXCEPT ![e] = SubSeq(w, 1, k), ![Other(e)] = <<>>]
  BY DEF abort
<1>2. w \in Seq(Items)
  BY ConcatProperties DEF Typed
<1>3. e # Other(e) /\ Other(e) \in Ends
  BY EndFacts
<1> HIDE DEF w
<1>4. /\ SubSeq(w, 1, k) \in Seq(Items) /\ SubSeq(w, k + 1, Len(w)) \in Seq(Items)
      /\ w = SubSeq(w, 1, k) \o SubSeq(w, k + 1, Len(w))
  BY <1>2, SplitAt
<1>5. wire'[e] = SubSeq(w, 1, k) /\ wire'[Other(e)] = <<>> /\ wire' \in [Ends -> Seq(Items)]
  <2> DEFINE v == [wire EXCEPT ![e] = SubSeq(w, 1, k)]
  <2>1. v \in [Ends -> Seq(Items)] /\ v[e] = SubSeq(w, 1, k)
    BY <1>4 DEF Typed
  <2>2. wire' = [v EXCEPT ![Other(e)] = <<>>]
    BY <1>1
  <2> HIDE DEF v
  <2> QED BY <1>3, <2>1, <2>2
<1>6. \E lost \in Seq(Items) : w = wire'[e] \o lost
  BY <1>4, <1>5
<1> QED BY <1>5, <1>6 DEF abort, w

LEMMA AbortTyped ==
  ASSUME Typed, NEW e \in Ends, abort(e)
  PROVE  Typed'
<1>1. /\ running' = [running EXCEPT ![e] = {}]
      /\ muxing' = [muxing EXCEPT ![e] = <<>>]
      /\ demuxing' = [demuxing EXCEPT ![e] = <<>>]
      /\ ingress' = [ingress EXCEPT ![e] = <<>>]
      /\ wire' \in [Ends -> Seq(Items)] /\ wire'[Other(e)] = <<>>
      /\ UNCHANGED <<scene, history, agentVars, egress>>
  BY AbortFacts
<1>2. PICK lost \in Seq(Items) : wire[e] \o muxing[e] = wire'[e] \o lost
  BY AbortFacts
<1>3. /\ running' \in [Ends -> SUBSET Tasks] /\ muxing' \in [Ends -> Seq(Items)]
      /\ demuxing' \in [Ends -> {<<>>} \cup Payload] /\ ingress' \in [Ends -> Seq(Payload)]
  BY <1>1 DEF Typed
<1>4. ASSUME NEW f \in Ends PROVE EndTyped(f)'
  <2>0. EndTyped(f) /\ QueueSize \in Nat
    BY PlexerAssumption DEF Typed
  <2>1. CASE f = e
    <3>1. running'[f] = {} /\ muxing'[f] = <<>> /\ demuxing'[f] = <<>> /\ ingress'[f] = <<>>
      BY <1>1, <2>1 DEF Typed
    <3>2. Framed(f)'
      <4>1. \E segs \in Seq(Segments(e)), tail \in Seq(Items) :
              Frames(segs) = (wire[e] \o muxing[e]) \o tail
        <5>1. CASE muxing[e] # <<>>
          <6>1. PICK segs \in Seq(Segments(e)) : Frames(segs) = wire[e] \o muxing[e]
            BY <5>1, FramedWritten
          <6>2. Frames(segs) \in Seq(Items)
            BY FramesFacts
          <6>3. Frames(segs) \o <<>> = Frames(segs)
            BY <6>2, ConcatEmptySeq
          <6>4. Frames(segs) = (wire[e] \o muxing[e]) \o <<>> /\ <<>> \in Seq(Items)
            BY <6>1, <6>3
          <6> QED BY <6>4
        <5>2. CASE muxing[e] = <<>>
          <6>1. wire[e] \o muxing[e] = wire[e]
            BY <5>2, ConcatEmptySeq DEF Typed
          <6> QED BY <2>0, <2>1, <6>1 DEF EndTyped, Framed
        <5> QED BY <5>1, <5>2
      <4>2. PICK segs \in Seq(Segments(e)), tail \in Seq(Items) :
              Frames(segs) = (wire'[e] \o lost) \o tail
        BY <1>2, <4>1
      <4>3. wire'[e] \in Seq(Items)
        BY <1>1
      <4>4. (wire'[e] \o lost) \o tail = wire'[e] \o (lost \o tail)
        BY <4>3, ItemsConcat
      <4>5. lost \o tail \in Seq(Items)
        BY ItemsConcat
      <4> QED BY <2>1, <3>1, <4>2, <4>4, <4>5 DEF Framed
    <3>3. Len(<<>>) <= QueueSize /\ <<>> \in Seq(Segments(f))
      BY <2>0
    <3> QED BY <3>1, <3>2, <3>3 DEF EndTyped
  <2>2. CASE f # e
    <3>1. /\ running'[f] = running[f] /\ muxing'[f] = muxing[f] /\ demuxing'[f] = demuxing[f]
          /\ ingress'[f] = ingress[f]
      BY <1>1, <2>2 DEF Typed
    <3>2. wire'[f] = <<>>
      BY <1>1, <2>2 DEF Ends, Other
    <3>3. Framed(f)'
      <4>1. <<>> \in Seq(Segments(f)) /\ <<>> \in Seq(Items)
        OBVIOUS
      <4>2. Frames(<<>>) = <<>>
        BY <4>1, FramesFacts
      <4>3. wire'[f] \o <<>> = <<>>
        BY <3>2
      <4>4. Frames(<<>>) = wire'[f] \o <<>>
        BY <4>2, <4>3
      <4> QED BY <4>1, <4>4 DEF Framed
    <3> QED BY <2>0, <3>1, <3>3 DEF EndTyped
  <2> QED BY <2>1, <2>2
<1>5. ASSUME NEW a \in Agents PROVE AgentTyped(a)'
  BY <1>1, AgentTypedKept DEF Typed, agentVars
<1> QED BY <1>1, <1>3, <1>4, <1>5 DEF Typed, agentVars, history

LEMMA DropTyped ==
  ASSUME Typed, NEW a \in Subscribed, DropAgent(a)
  PROVE  Typed'
<1>1. /\ a \in Agents
      /\ turn' = [turn EXCEPT ![a] = "dropped"] /\ egress' = [egress EXCEPT ![a] = <<>>]
      /\ temp' = [temp EXCEPT ![a] = <<>>] /\ chunks' = [chunks EXCEPT ![a] = <<>>]
      /\ UNCHANGED <<scene, history, ingress, taskVars>>
  BY SubscribedFacts DEF Typed, DropAgent
<1>2. turn' \in [Agents -> AgentStates]
  BY <1>1 DEF Typed, AgentStates
<1>3. /\ egress' \in [Agents -> Seq(Seq(Bytes))] /\ chunks' \in [Agents -> Seq(Seq(Bytes))]
      /\ temp' \in [Agents -> Seq(Bytes)]
  BY <1>1 DEF Typed
<1>4. ASSUME NEW c \in Agents PROVE AgentTyped(c)'
  <2>0. AgentTyped(c) /\ QueueSize \in Nat
    BY PlexerAssumption DEF Typed
  <2>1. CASE c = a
    <3>1. temp'[c] = <<>> /\ egress'[c] = <<>> /\ chunks'[c] = <<>>
      BY <1>1, <2>1 DEF Typed
    <3> QED BY <2>0, <3>1 DEF AgentTyped
  <2>2. CASE c # a
    <3>1. temp'[c] = temp[c] /\ egress'[c] = egress[c] /\ chunks'[c] = chunks[c]
      BY <1>1, <2>2 DEF Typed
    <3> QED BY <2>0, <3>1, AgentTypedKept
  <2> QED BY <2>1, <2>2
<1>5. ASSUME NEW e \in Ends PROVE EndTyped(e)'
  BY <1>1, EndTypedKept DEF Typed, taskVars
<1> QED BY <1>1, <1>2, <1>3, <1>4, <1>5 DEF Typed, taskVars, history

-----------------------------------------------------------------------------
(* The inductive invariant, second part: what an agent sent is what its    *)
(* counterpart received, then what is on the way (Pipe), then what was     *)
(* lost when a task or an agent ended.  Nothing is lost before that, so    *)
(* that no gap is ever followed by later bytes.                            *)

InHand(e) == IF demuxing[e] = <<>> THEN <<>> ELSE demuxing[e][2]
Queued(a) ==
  OfSender(a, muxing[a.end])
    \o (OfSender(a, Payloads(ingress[a.end])) \o FlattenSeq(chunks[a]))
ToWrite(a) == IF "mux" \in running[a.end] THEN Queued(a) ELSE <<>>
OnBearer(a) ==
  OfSender(a, InHand(Other(a.end))) \o (OfSender(a, wire[a.end]) \o ToWrite(a))
ToRead(a) == IF Closed(Other(a.end)) THEN <<>> ELSE OnBearer(a)
Held(b) == temp[b] \o FlattenSeq(egress[b])

Heard(a) == Counterpart(a) \in Subscribed /\ turn[Counterpart(a)] # "dropped"
Pipe(a) == IF Heard(a) THEN Held(Counterpart(a)) \o ToRead(a) ELSE <<>>
Intact(a) ==
  /\ Heard(a) /\ ~Closed(Other(a.end))
  /\ "mux" \in running[a.end] /\ turn[a] # "dropped"

Stream(a) ==
  \E lost \in Seq(Bytes) :
    /\ BytesOf(sent[a]) = BytesOf(got[Counterpart(a)]) \o (Pipe(a) \o lost)
    /\ Intact(a) => lost = <<>>

PipeTyped(a) ==
  /\ OfSender(a, muxing[a.end]) \in Seq(Bytes)
  /\ Payloads(ingress[a.end]) \in Seq(Items)
  /\ OfSender(a, Payloads(ingress[a.end])) \in Seq(Bytes)
  /\ FlattenSeq(chunks[a]) \in Seq(OwnBytes(a)) /\ FlattenSeq(chunks[a]) \in Seq(Bytes)
  /\ Queued(a) \in Seq(Bytes) /\ ToWrite(a) \in Seq(Bytes)
  /\ InHand(Other(a.end)) \in Seq(Items) /\ OfSender(a, InHand(Other(a.end))) \in Seq(Bytes)
  /\ wire[a.end] \in Seq(Items) /\ muxing[a.end] \in Seq(Items)
  /\ OfSender(a, wire[a.end]) \in Seq(Bytes)
  /\ OnBearer(a) \in Seq(Bytes) /\ ToRead(a) \in Seq(Bytes)
  /\ temp[a] \in Seq(Bytes) /\ FlattenSeq(egress[a]) \in Seq(Bytes)
  /\ Held(a) \in Seq(Bytes) /\ Held(Counterpart(a)) \in Seq(Bytes) /\ Pipe(a) \in Seq(Bytes)
  /\ BytesOf(sent[a]) \in Seq(Bytes) /\ BytesOf(got[Counterpart(a)]) \in Seq(Bytes)

LEMMA PipesTyped == Typed => \A a \in Agents : PipeTyped(a)
<1> SUFFICES ASSUME Typed, NEW a \in Agents PROVE PipeTyped(a)
  OBVIOUS
<1> DEFINE b == Counterpart(a)
<1> DEFINE e == a.end
<1> DEFINE f == Other(e)
<1>1. b \in Agents /\ e \in Ends /\ f \in Ends
  BY CounterpartFacts, EndFacts
<1>2. muxing[e] \in Seq(Items) /\ wire[e] \in Seq(Items)
  BY <1>1 DEF Typed
<1>3. Payloads(ingress[e]) \in Seq(Items)
  <2>1. ingress[e] \in Seq(Segments(e))
    BY <1>1 DEF Typed, EndTyped
  <2> QED BY <1>1, <2>1, PayloadsFacts, BytesAreItems
<1>4. InHand(f) \in Seq(Items)
  <2>1. CASE demuxing[f] = <<>>
    BY <2>1 DEF InHand
  <2>2. CASE demuxing[f] # <<>>
    <3>1. demuxing[f] \in Payload
      BY <1>1, <2>2 DEF Typed
    <3>2. demuxing[f][2] \in Seq(Bytes)
      BY <3>1 DEF Payload
    <3> QED BY <2>2, <3>2, BytesAreItems DEF InHand
  <2> QED BY <2>1, <2>2
<1>5. /\ OfSender(a, muxing[e]) \in Seq(Bytes) /\ OfSender(a, wire[e]) \in Seq(Bytes)
      /\ OfSender(a, Payloads(ingress[e])) \in Seq(Bytes) /\ OfSender(a, InHand(f)) \in Seq(Bytes)
  BY <1>2, <1>3, <1>4, OfType
<1>6. FlattenSeq(chunks[a]) \in Seq(OwnBytes(a)) /\ FlattenSeq(chunks[a]) \in Seq(Bytes)
  <2>1. chunks[a] \in Seq(Chunk(a))
    BY DEF Typed, AgentTyped
  <2> QED BY <2>1, ChunkFacts
<1>7. ASSUME NEW c \in Agents
      PROVE  temp[c] \in Seq(Bytes) /\ FlattenSeq(egress[c]) \in Seq(Bytes) /\ Held(c) \in Seq(Bytes)
  <2>1. egress[c] \in Seq(Chunk(Counterpart(c))) /\ temp[c] \in Seq(Bytes)
    BY DEF Typed, AgentTyped
  <2>2. FlattenSeq(egress[c]) \in Seq(Bytes)
    BY <2>1, ChunkFacts
  <2> QED BY <2>1, <2>2, BytesConcat DEF Held
<1>8. <<>> \in Seq(Bytes)
  OBVIOUS
<1>9. Queued(a) \in Seq(Bytes)
  BY <1>5, <1>6, BytesConcat DEF Queued
<1>10. ToWrite(a) \in Seq(Bytes)
  BY <1>8, <1>9 DEF ToWrite
<1>11. OnBearer(a) \in Seq(Bytes)
  BY <1>5, <1>10, BytesConcat DEF OnBearer
<1>12. ToRead(a) \in Seq(Bytes)
  BY <1>8, <1>11 DEF ToRead
<1>13. Held(b) \in Seq(Bytes) /\ Held(a) \in Seq(Bytes)
  BY <1>1, <1>7
<1>14. Pipe(a) \in Seq(Bytes)
  BY <1>8, <1>12, <1>13, BytesConcat DEF Pipe
<1>15. BytesOf(sent[a]) \in Seq(Bytes) /\ BytesOf(got[b]) \in Seq(Bytes)
  <2>1. sent[a] \in Seq(AllMessages) /\ got[b] \in Seq(AllMessages)
    BY <1>1 DEF Typed
  <2> QED BY <2>1, BytesOfFacts
<1>16. temp[a] \in Seq(Bytes) /\ FlattenSeq(egress[a]) \in Seq(Bytes)
  BY <1>7
<1> HIDE DEF b, e, f
<1> QED
  BY <1>2, <1>3, <1>4, <1>5, <1>6, <1>9, <1>10, <1>11, <1>12, <1>13, <1>14, <1>15, <1>16
     DEF PipeTyped, b, e, f

LEMMA PipesTypedNext == Typed' => \A a \in Agents : PipeTyped(a)'
<1>1. Typed => \A a \in Agents : PipeTyped(a)
  BY PipesTyped
<1>2. Typed' => (\A a \in Agents : PipeTyped(a))'
  BY <1>1, PTL
<1> QED BY <1>2

(* What a step does to a pipe: it may cut off its far end, and nothing     *)
(* while the way is intact.                                                *)
Begins(s, t) == \E cut \in Seq(Bytes) : t = s \o cut
Carries(a) ==
  /\ Begins(Pipe(a)', Pipe(a))
  /\ Intact(a)' => Intact(a) /\ Pipe(a)' = Pipe(a)

LEMMA BeginsFacts ==
  ASSUME NEW s \in Seq(Bytes)
  PROVE  /\ Begins(s, s) /\ Begins(<<>>, s)
         /\ \A t, p \in Seq(Bytes) : Begins(s, t) => Begins(p \o s, p \o t)
<1>1. s \o <<>> = s /\ <<>> \o s = s /\ <<>> \in Seq(Bytes)
  BY ConcatEmptySeq
<1>2. Begins(s, s) /\ Begins(<<>>, s)
  BY <1>1 DEF Begins
<1>3. ASSUME NEW t \in Seq(Bytes), NEW p \in Seq(Bytes), Begins(s, t)
      PROVE  Begins(p \o s, p \o t)
  <2>1. PICK cut \in Seq(Bytes) : t = s \o cut
    BY <1>3 DEF Begins
  <2>2. (p \o s) \o cut = p \o (s \o cut)
    BY BytesConcat
  <2> QED BY <2>1, <2>2 DEF Begins
<1> QED BY <1>2, <1>3

LEMMA StreamCarried ==
  ASSUME Typed, Typed', NEW a \in Agents, Stream(a), Carries(a), sent'[a] = sent[a],
         got'[Counterpart(a)] = got[Counterpart(a)]
  PROVE  Stream(a)'
<1>1. PipeTyped(a) /\ PipeTyped(a)'
  BY PipesTyped, PipesTypedNext
<1>2. PICK lost \in Seq(Bytes) :
        /\ BytesOf(sent[a]) = BytesOf(got[Counterpart(a)]) \o (Pipe(a) \o lost)
        /\ Intact(a) => lost = <<>>
  BY DEF Stream
<1>3. CASE Intact(a)'
  <2>1. Pipe(a)' = Pipe(a) /\ Intact(a)
    BY <1>3 DEF Carries
  <2> QED BY <1>2, <2>1 DEF Stream
<1>4. CASE ~Intact(a)'
  <2>1. PICK cut \in Seq(Bytes) : Pipe(a) = Pipe(a)' \o cut
    BY DEF Carries, Begins
  <2> DEFINE p == Pipe(a)'
  <2>2. p \in Seq(Bytes)
    BY <1>1 DEF PipeTyped
  <2>3. Pipe(a) = p \o cut
    BY <2>1
  <2> HIDE DEF p
  <2>4. (p \o cut) \o lost = p \o (cut \o lost) /\ cut \o lost \in Seq(Bytes)
    BY <2>2, BytesConcat
  <2>5. BytesOf(sent[a]) = BytesOf(got[Counterpart(a)]) \o (p \o (cut \o lost))
    BY <1>2, <2>3, <2>4
  <2> QED BY <1>4, <2>4, <2>5 DEF Stream, p
<1> QED BY <1>3, <1>4

LEMMA CarriedWhole ==
  ASSUME Typed, NEW a \in Agents, Heard(a)' = Heard(a), Intact(a)' => Intact(a),
         Heard(a) => Held(Counterpart(a))' = Held(Counterpart(a)) /\ ToRead(a)' = ToRead(a)
  PROVE  Carries(a)
<1>1. Pipe(a)' = Pipe(a)
  BY DEF Pipe
<1>2. Pipe(a) \in Seq(Bytes)
  BY PipesTyped DEF PipeTyped
<1>3. Begins(Pipe(a), Pipe(a))
  BY <1>2, BeginsFacts
<1> QED BY <1>1, <1>3 DEF Carries

LEMMA CarriedPart ==
  ASSUME Typed, Typed', NEW a \in Agents, ~Intact(a)',
         \/ ~Heard(a)'
         \/ /\ Heard(a) /\ Held(Counterpart(a))' = Held(Counterpart(a))
            /\ Begins(ToRead(a)', ToRead(a))
  PROVE  Carries(a)
<1>1. PipeTyped(a) /\ PipeTyped(a)'
  BY PipesTyped, PipesTypedNext
<1>2. CASE ~Heard(a)'
  <2>1. Pipe(a)' = <<>> /\ Pipe(a) \in Seq(Bytes)
    BY <1>1, <1>2 DEF Pipe, PipeTyped
  <2> QED BY <2>1, BeginsFacts DEF Carries
<1>3. CASE /\ Heard(a)' /\ Heard(a) /\ Held(Counterpart(a))' = Held(Counterpart(a))
           /\ Begins(ToRead(a)', ToRead(a))
  <2> DEFINE h == Held(Counterpart(a))
  <2> DEFINE s == ToRead(a)'
  <2>1. s \in Seq(Bytes) /\ h \in Seq(Bytes) /\ ToRead(a) \in Seq(Bytes) /\ Begins(s, ToRead(a))
    BY <1>1, <1>3 DEF PipeTyped
  <2>2. Pipe(a)' = h \o s /\ Pipe(a) = h \o ToRead(a)
    BY <1>3 DEF Pipe
  <2> HIDE DEF s, h
  <2>3. Begins(h \o s, h \o ToRead(a))
    BY <2>1, BeginsFacts
  <2> QED BY <2>2, <2>3 DEF Carries
<1> QED BY <1>2, <1>3

-----------------------------------------------------------------------------
(* Each action carries every stream on.                                    *)

(* The bytes of a chunk belong to its sender only.                         *)
LEMMA OfChunk ==
  ASSUME NEW a, NEW c, NEW p \in Chunk(a)
  PROVE  /\ p \in Seq(Items) /\ p \in Seq(Bytes)
         /\ c = a => OfSender(c, p) = p
         /\ c # a => OfSender(c, p) = <<>>
<1>1. p \in Seq(OwnBytes(a))
  BY ChunkFacts
<1> QED BY <1>1, BytesAreItems, OfOwn, OfForeign

(* The way to the reader changes only where its parts do.                  *)
LEMMA BearerKept ==
  ASSUME NEW c \in Agents, wire'[c.end] = wire[c.end], muxing'[c.end] = muxing[c.end],
         ingress'[c.end] = ingress[c.end], chunks'[c] = chunks[c],
         "mux" \in running'[c.end] <=> "mux" \in running[c.end],
         demuxing'[Other(c.end)] = demuxing[Other(c.end)]
  PROVE  OnBearer(c)' = OnBearer(c)
<1>1. Queued(c)' = Queued(c)
  BY DEF Queued
<1>2. ToWrite(c)' = ToWrite(c)
  BY <1>1 DEF ToWrite
<1>3. InHand(Other(c.end))' = InHand(Other(c.end))
  BY DEF InHand
<1> QED BY <1>2, <1>3 DEF OnBearer

LEMMA EnqueueCarries ==
  ASSUME Typed, NEW a \in Subscribed, enqueue_chunk(a), NEW c \in Agents
  PROVE  Carries(c)
<1>1. /\ a \in Agents /\ chunks[a] # <<>> /\ turn[a] = "send"
      /\ UNCHANGED <<scene, history, temp, egress, taskVars>>
  BY SubscribedFacts DEF Typed, enqueue_chunk
<1>2. c.end \in Ends /\ Counterpart(c) \in Agents /\ PipeTyped(c)
  BY CounterpartFacts, PipesTyped
<1>3. \A b \in Agents : turn'[b] = "dropped" <=> turn[b] = "dropped"
  <2>1. \/ turn' = [turn EXCEPT ![a] = "failed"]
        \/ turn' = [turn EXCEPT ![a] = "send"]
        \/ turn' = [turn EXCEPT ![a] = "recv"]
    BY DEF enqueue_chunk, AfterChunk
  <2> QED BY <1>1, <2>1 DEF Typed
<1>4. Queued(c)' = Queued(c)
  <2>1. CASE "mux" \notin running[a.end]
    BY <1>1, <2>1 DEF enqueue_chunk, Queued, taskVars
  <2>2. CASE "mux" \in running[a.end]
    <3> DEFINE h == Head(chunks[a])
    <3> DEFINE q == ingress[c.end]
    <3>1. /\ ingress' = [ingress EXCEPT ![a.end] = Append(@, <<to_plexer(a), h>>)]
          /\ chunks' = [chunks EXCEPT ![a] = Tail(@)] /\ muxing' = muxing
      BY <1>1, <2>2 DEF enqueue_chunk, taskVars
    <3>2. chunks[a] \in Seq(Chunk(a)) /\ h \in Chunk(a)
      BY <1>1 DEF Typed, AgentTyped
    <3>3. h \in Seq(Items) /\ h \in Seq(Bytes)
          /\ (c = a => OfSender(c, h) = h) /\ (c # a => OfSender(c, h) = <<>>)
      BY <3>2, OfChunk
    <3>4. FlattenSeq(chunks[a]) = h \o FlattenSeq(Tail(chunks[a]))
      <4>1. chunks[a] \in Seq(Seq(Bytes))
        BY <3>2, ChunkFacts
      <4> QED BY <1>1, <4>1, FlattenHead
    <3>5. FlattenSeq(Tail(chunks[a])) \in Seq(Bytes)
      <4>1. Tail(chunks[a]) \in Seq(Chunk(a))
        BY <1>1, <3>2
      <4> QED BY <4>1, ChunkFacts
    <3>6. CASE c.end # a.end
      <4>1. ingress'[c.end] = ingress[c.end] /\ chunks'[c] = chunks[c]
        BY <1>1, <1>2, <3>1, <3>6 DEF Typed
      <4> QED BY <3>1, <4>1 DEF Queued
    <3>7. CASE c.end = a.end
      <4>1. OfSender(c, Payloads(ingress'[c.end])) = OfSender(c, Payloads(q)) \o OfSender(c, h)
        <5> DEFINE x == <<to_plexer(a), h>>
        <5>1. ingress'[c.end] = Append(q, x)
          BY <1>2, <3>1, <3>7 DEF Typed
        <5>2. q \in Seq(Segments(c.end))
          BY <1>2 DEF Typed, EndTyped
        <5>3. x \in Segments(c.end) /\ x[2] = h
          <6>1. a \in AgentsAt(c.end) /\ x \in {to_plexer(a)} \X Chunk(a) /\ x[2] = h
            BY <1>1, <3>2, <3>7 DEF AgentsAt
          <6> HIDE DEF x
          <6> QED BY <6>1 DEF Segments
        <5> HIDE DEF x
        <5>4. Payloads(Append(q, x)) = Payloads(q) \o h
          BY <1>2, <5>2, <5>3, PayloadsFacts
        <5>5. Payloads(q) \in Seq(Items)
          BY <1>2 DEF PipeTyped
        <5>6. OfSender(c, Payloads(q) \o h) = OfSender(c, Payloads(q)) \o OfSender(c, h)
          <6>1. h \in Seq(Items)
            BY <3>3
          <6> HIDE DEF h, q
          <6> QED BY <5>5, <6>1, OfConcat
        <5> QED BY <5>1, <5>4, <5>6
      <4> DEFINE m == OfSender(c, muxing[c.end])
      <4> DEFINE y == OfSender(c, Payloads(q))
      <4> DEFINE z == OfSender(c, h)
      <4>2. Queued(c)' = m \o ((y \o z) \o FlattenSeq(chunks'[c]))
        BY <3>1, <4>1 DEF Queued
      <4>3. Queued(c) = m \o (y \o FlattenSeq(chunks[c])) /\ y \in Seq(Bytes)
        BY <1>2 DEF Queued, PipeTyped
      <4> HIDE DEF m, y
      <4>4. (y \o z) \o FlattenSeq(chunks'[c]) = y \o FlattenSeq(chunks[c])
        <5>1. CASE c = a
          <6>1. chunks'[c] = Tail(chunks[a]) /\ z = h
            BY <1>1, <3>1, <3>3, <5>1 DEF Typed
          <6> DEFINE t == FlattenSeq(Tail(chunks[a]))
          <6>2. (y \o h) \o t = y \o (h \o t)
            BY <3>3, <3>5, <4>3, BytesConcat
          <6> HIDE DEF t, z
          <6> QED BY <3>4, <5>1, <6>1, <6>2 DEF t
        <5>2. CASE c # a
          <6>1. chunks'[c] = chunks[c] /\ z = <<>>
            BY <1>1, <3>1, <3>3, <5>2 DEF Typed
          <6>2. y \o <<>> = y
            BY <4>3, ConcatEmptySeq
          <6> QED BY <6>1, <6>2
        <5> QED BY <5>1, <5>2
      <4> QED BY <4>2, <4>3, <4>4
    <3> QED BY <3>6, <3>7
  <2> QED BY <2>1, <2>2
<1>5. ToRead(c)' = ToRead(c)
  BY <1>1, <1>4 DEF ToRead, OnBearer, ToWrite, InHand, Closed, taskVars
<1>6. Held(Counterpart(c))' = Held(Counterpart(c))
  BY <1>1 DEF Held
<1>7. Heard(c)' = Heard(c) /\ (Intact(c)' => Intact(c))
  BY <1>1, <1>2, <1>3 DEF Heard, Intact, Closed, Subscribed, taskVars
<1> QED BY <1>5, <1>6, <1>7, CarriedWhole

LEMMA MuxCarries ==
  ASSUME Typed, NEW e \in Ends, mux(e), NEW c \in Agents
  PROVE  Carries(c)
<1> DEFINE x == Head(ingress[e])
<1>1. /\ muxing[e] = <<>> /\ ingress[e] # <<>>
      /\ muxing' = [muxing EXCEPT ![e] = Frame(x)]
      /\ ingress' = [ingress EXCEPT ![e] = Tail(@)]
      /\ UNCHANGED <<scene, history, agentVars, egress, wire, demuxing, running>>
  BY DEF mux, Frame
<1>2. c.end \in Ends /\ PipeTyped(c)
  BY CounterpartFacts, PipesTyped
<1>3. Queued(c)' = Queued(c)
  <2>1. CASE c.end # e
    <3>1. muxing'[c.end] = muxing[c.end] /\ ingress'[c.end] = ingress[c.end] /\ chunks' = chunks
      BY <1>1, <1>2, <2>1 DEF Typed, agentVars
    <3> QED BY <3>1 DEF Queued
  <2>2. CASE c.end = e
    <3> DEFINE q == ingress[e]
    <3>1. q \in Seq(Segments(e)) /\ x \in Segments(e) /\ Tail(q) \in Seq(Segments(e))
      BY <1>1 DEF Typed, EndTyped
    <3>2. Payloads(q) = x[2] \o Payloads(Tail(q)) /\ Payloads(Tail(q)) \in Seq(Bytes)
      BY <1>1, <3>1, PayloadsFacts
    <3>3. x[2] \in Seq(Items) /\ Payloads(Tail(q)) \in Seq(Items) /\ OfSender(c, Frame(x)) = OfSender(c, x[2])
      BY <3>1, <3>2, SegmentFacts, FrameFacts, BytesAreItems
    <3> DEFINE s == OfSender(c, x[2])
    <3> DEFINE t == OfSender(c, Payloads(Tail(q)))
    <3>4. OfSender(c, Payloads(q)) = s \o t /\ s \in Seq(Bytes) /\ t \in Seq(Bytes)
      BY <3>2, <3>3, OfConcat, OfType
    <3>5. muxing'[c.end] = Frame(x) /\ ingress'[c.end] = Tail(q) /\ chunks' = chunks
      BY <1>1, <1>2, <2>2 DEF Typed, agentVars
    <3> DEFINE k == FlattenSeq(chunks[c])
    <3>6. k \in Seq(Bytes)
      BY <1>2 DEF PipeTyped
    <3>7. Queued(c)' = s \o (t \o k)
      BY <3>3, <3>5 DEF Queued
    <3>8. Queued(c) = <<>> \o ((s \o t) \o k)
      BY <1>1, <2>2, <3>4, OfEmpty DEF Queued
    <3> HIDE DEF s, t, k
    <3>9. (s \o t) \o k = s \o (t \o k) /\ (s \o t) \o k \in Seq(Bytes)
      BY <3>4, <3>6, BytesConcat
    <3>10. <<>> \o ((s \o t) \o k) = (s \o t) \o k
      BY <3>9, ConcatEmptySeq
    <3> QED BY <3>7, <3>8, <3>9, <3>10
  <2> QED BY <2>1, <2>2
<1>4. ToRead(c)' = ToRead(c)
  BY <1>1, <1>3 DEF ToRead, OnBearer, ToWrite, InHand, Closed
<1>5. Held(Counterpart(c))' = Held(Counterpart(c))
  BY <1>1 DEF Held, agentVars
<1>6. Heard(c)' = Heard(c) /\ (Intact(c)' => Intact(c))
  BY <1>1 DEF Heard, Intact, Closed, Subscribed, agentVars
<1> QED BY <1>4, <1>5, <1>6, CarriedWhole

LEMMA WriteCarries ==
  ASSUME Typed, Typed', NEW e \in Ends, write_segment(e), NEW c \in Agents
  PROVE  Carries(c)
<1>1. /\ muxing[e] # <<>> /\ muxing' = [muxing EXCEPT ![e] = <<>>]
      /\ UNCHANGED <<scene, history, agentVars, egress, demuxing>>
  BY DEF write_segment
<1>2. c.end \in Ends /\ Other(c.end) \in Ends /\ PipeTyped(c) /\ PipeTyped(c)'
  BY CounterpartFacts, EndFacts, PipesTyped, PipesTypedNext
<1>3. Held(Counterpart(c))' = Held(Counterpart(c)) /\ Heard(c)' = Heard(c)
  BY <1>1 DEF Held, Heard, Subscribed, agentVars
<1>4. CASE /\ wire' = [wire EXCEPT ![e] = @ \o muxing[e]]
           /\ UNCHANGED <<running, ingress>>
  <2>1. Intact(c)' => Intact(c)
    BY <1>1, <1>3, <1>4 DEF Intact, Closed, agentVars
  <2>2. OnBearer(c)' = OnBearer(c)
    <3>1. CASE c.end # e
      <4>1. wire'[c.end] = wire[c.end] /\ muxing'[c.end] = muxing[c.end]
        BY <1>1, <1>2, <1>4, <3>1 DEF Typed
      <4> QED BY <1>1, <1>4, <4>1, BearerKept DEF agentVars
    <3>2. CASE c.end = e
      <4> DEFINE w == OfSender(c, wire[e])
      <4> DEFINE m == OfSender(c, muxing[e])
      <4> DEFINE k == OfSender(c, Payloads(ingress[e])) \o FlattenSeq(chunks[c])
      <4>1. wire'[e] = wire[e] \o muxing[e] /\ muxing'[e] = <<>> /\ "mux" \in running[e]
        BY <1>1, <1>2, <1>4, <3>2 DEF Typed, EndTyped
      <4>2. OfSender(c, wire'[e]) = w \o m /\ w \in Seq(Bytes) /\ m \in Seq(Bytes)
        <5>1. wire[e] \in Seq(Items) /\ muxing[e] \in Seq(Items) /\ w \in Seq(Bytes) /\ m \in Seq(Bytes)
          BY <1>2, <3>2 DEF PipeTyped
        <5>2. OfSender(c, wire[e] \o muxing[e]) = w \o m
          BY <5>1, OfConcat
        <5> QED BY <4>1, <5>1, <5>2
      <4>3. k \in Seq(Bytes)
        BY <1>2, <3>2, BytesConcat DEF PipeTyped
      <4>4. Queued(c) = m \o k
        BY <3>2 DEF Queued
      <4>5. Queued(c)' = <<>> \o k
        BY <1>1, <1>4, <3>2, <4>1, OfEmpty DEF Queued, agentVars
      <4>6. ToWrite(c)' = <<>> \o k /\ ToWrite(c) = m \o k
        BY <1>4, <3>2, <4>1, <4>4, <4>5 DEF ToWrite
      <4>7. /\ OnBearer(c)' = OfSender(c, InHand(Other(e))) \o ((w \o m) \o (<<>> \o k))
            /\ OnBearer(c) = OfSender(c, InHand(Other(e))) \o (w \o (m \o k))
        BY <1>1, <3>2, <4>2, <4>6 DEF OnBearer, InHand
      <4> HIDE DEF w, m, k
      <4>8. <<>> \o k = k
        BY <4>3, ConcatEmptySeq
      <4>9. (w \o m) \o k = w \o (m \o k)
        BY <4>2, <4>3, BytesConcat
      <4> QED BY <4>7, <4>8, <4>9
    <3> QED BY <3>1, <3>2
  <2>3. ToRead(c)' = ToRead(c)
    BY <1>4, <2>2 DEF ToRead, Closed
  <2> QED BY <1>3, <2>1, <2>3, CarriedWhole
<1>5. CASE Closed(Other(e)) /\ UNCHANGED <<wire, running, ingress>>
  <2>1. Intact(c)' => Intact(c)
    BY <1>1, <1>3, <1>5 DEF Intact, Closed, agentVars
  <2>2. ToRead(c)' = ToRead(c)
    <3>1. CASE c.end = e
      BY <1>5, <3>1 DEF ToRead, Closed
    <3>2. CASE c.end # e
      <4>1. muxing'[c.end] = muxing[c.end]
        BY <1>1, <1>2, <3>2 DEF Typed
      <4> QED BY <1>1, <1>5, <4>1 DEF ToRead, OnBearer, ToWrite, Queued, InHand, Closed, agentVars
    <3> QED BY <3>1, <3>2
  <2> QED BY <1>3, <2>1, <2>2, CarriedWhole
<1>6. CASE /\ Closed(Other(e)) /\ running' = [running EXCEPT ![e] = @ \ {"mux"}]
           /\ ingress' = [ingress EXCEPT ![e] = <<>>]
           /\ UNCHANGED wire
  <2>1. CASE c.end = e
    <3>1. Closed(Other(c.end)) /\ Closed(Other(c.end))'
      BY <1>2, <1>6, <2>1, EndFacts DEF Closed, Typed
    <3>2. ToRead(c)' = ToRead(c) /\ ~Intact(c)'
      BY <3>1 DEF ToRead, Intact
    <3> QED BY <1>3, <3>2, CarriedWhole
  <2>2. CASE c.end # e /\ ~Closed(Other(c.end))'
    <3>1. /\ muxing'[c.end] = muxing[c.end] /\ ingress'[c.end] = ingress[c.end]
          /\ running'[c.end] = running[c.end] /\ running'[Other(c.end)] \subseteq running[Other(c.end)]
      BY <1>1, <1>2, <1>6, <2>2 DEF Typed
    <3>2. ~Closed(Other(c.end))
      BY <2>2, <3>1 DEF Closed
    <3>3. OnBearer(c)' = OnBearer(c)
      BY <1>1, <1>6, <3>1, BearerKept DEF agentVars
    <3>4. ToRead(c)' = ToRead(c)
      BY <2>2, <3>2, <3>3 DEF ToRead
    <3>5. Intact(c)' => Intact(c)
      BY <1>1, <1>3, <3>1, <3>2 DEF Intact, agentVars
    <3> QED BY <1>3, <3>4, <3>5, CarriedWhole
  <2>3. CASE Closed(Other(c.end))'
    <3>1. ToRead(c)' = <<>> /\ ~Intact(c)' /\ ToRead(c) \in Seq(Bytes)
      BY <1>2, <2>3 DEF ToRead, Intact, PipeTyped
    <3>2. Begins(ToRead(c)', ToRead(c))
      BY <3>1, BeginsFacts
    <3> QED BY <1>3, <3>1, <3>2, CarriedPart
  <2> QED BY <2>1, <2>2, <2>3
<1> QED BY <1>4, <1>5, <1>6 DEF write_segment

(* A reader that may have closed its end, all else unchanged.              *)
LEMMA ClosingCarries ==
  ASSUME Typed, Typed', NEW c \in Agents,
         Held(Counterpart(c))' = Held(Counterpart(c)), Heard(c)' = Heard(c),
         turn'[c] = turn[c], OnBearer(c)' = OnBearer(c),
         "mux" \in running'[c.end] <=> "mux" \in running[c.end],
         running'[Other(c.end)] \subseteq running[Other(c.end)]
  PROVE  Carries(c)
<1>1. PipeTyped(c)
  BY PipesTyped
<1>2. CASE ~Closed(Other(c.end))'
  <2>1. ~Closed(Other(c.end))
    BY <1>2 DEF Closed
  <2>2. ToRead(c)' = ToRead(c)
    BY <1>2, <2>1 DEF ToRead
  <2>3. Intact(c)' => Intact(c)
    BY <2>1 DEF Intact
  <2> QED BY <2>2, <2>3, CarriedWhole
<1>3. CASE Closed(Other(c.end))'
  <2>1. ToRead(c)' = <<>> /\ ~Intact(c)' /\ ToRead(c) \in Seq(Bytes)
    BY <1>1, <1>3 DEF ToRead, Intact, PipeTyped
  <2>2. Begins(ToRead(c)', ToRead(c))
    BY <2>1, BeginsFacts
  <2> QED BY <2>1, <2>2, CarriedPart
<1> QED BY <1>2, <1>3

LEMMA ReadCarries ==
  ASSUME Typed, Typed', NEW e \in Ends, read_segment(e), NEW c \in Agents
  PROVE  Carries(c)
<1> DEFINE o == Other(e)
<1>0. demuxing[e] = <<>>
  BY ReadFacts
<1>1. PICK x \in Segments(o), r \in Seq(Items) :
              /\ wire[o] = Frame(x) \o r
              /\ demuxing' = [demuxing EXCEPT ![e] = x]
              /\ wire' = [wire EXCEPT ![o] = r]
  BY ReadFacts
<1>2. UNCHANGED <<scene, history, agentVars, ingress, egress, muxing, running>>
  BY ReadFacts
<1>3. /\ o \in Ends /\ o # e /\ Other(o) = e /\ c.end \in Ends
      /\ Other(c.end) \in Ends /\ PipeTyped(c) /\ (c.end = e \/ c.end = o)
  BY EndFacts, CounterpartFacts, PipesTyped DEF Ends, Other
<1>4. OnBearer(c)' = OnBearer(c)
  <2>1. CASE c.end = e
    <3>1. wire'[c.end] = wire[c.end] /\ demuxing'[Other(c.end)] = demuxing[Other(c.end)]
      BY <1>1, <1>3, <2>1 DEF Typed
    <3> QED BY <1>2, <3>1, BearerKept DEF agentVars
  <2>2. CASE c.end = o
    <3> HIDE DEF o
    <3> DEFINE p == OfSender(c, x[2])
    <3> DEFINE s == OfSender(c, r)
    <3> DEFINE t == ToWrite(c)
    <3>1. wire'[o] = r /\ demuxing'[e] = x /\ x # <<>>
      BY <1>1, <1>3, SegmentFacts DEF Typed
    <3>2. Frame(x) \in Seq(Items) /\ OfSender(c, Frame(x)) = p /\ p \in Seq(Bytes)
      <4>1. x[2] \in Seq(Items)
        BY <1>3, SegmentFacts, BytesAreItems
      <4> QED BY <1>3, <4>1, FrameFacts, OfType
    <3>3. s \in Seq(Bytes) /\ t \in Seq(Bytes)
      BY <1>3, OfType DEF PipeTyped
    <3>4. OfSender(c, wire[o]) = p \o s
      <4>1. OfSender(c, Frame(x) \o r) = OfSender(c, Frame(x)) \o OfSender(c, r)
        BY <3>2, OfConcat
      <4> QED BY <1>1, <3>2, <4>1
    <3>5. InHand(e) = <<>> /\ InHand(e)' = x[2]
      BY <1>0, <3>1 DEF InHand
    <3>6. ToWrite(c)' = t
      BY <1>2 DEF ToWrite, Queued, agentVars
    <3>7. OnBearer(c)' = p \o (s \o t)
      BY <1>3, <2>2, <3>1, <3>5, <3>6 DEF OnBearer
    <3>8. OnBearer(c) = <<>> \o ((p \o s) \o t)
      BY <1>3, <2>2, <3>4, <3>5, OfEmpty DEF OnBearer
    <3> HIDE DEF p, s, t
    <3>9. (p \o s) \o t = p \o (s \o t) /\ (p \o s) \o t \in Seq(Bytes)
      BY <3>2, <3>3, BytesConcat
    <3>10. <<>> \o ((p \o s) \o t) = (p \o s) \o t
      BY <3>9, ConcatEmptySeq
    <3> QED BY <3>7, <3>8, <3>9, <3>10
  <2> QED BY <1>3, <2>1, <2>2
<1>5. Held(Counterpart(c))' = Held(Counterpart(c)) /\ Heard(c)' = Heard(c) /\ turn'[c] = turn[c]
  BY <1>2 DEF Held, Heard, Subscribed, agentVars
<1> QED BY <1>2, <1>4, <1>5, ClosingCarries

LEMMA ReadFailsCarries ==
  ASSUME Typed, Typed', NEW e \in Ends, ReadFails(e), NEW c \in Agents
  PROVE  Carries(c)
<1>1. /\ running' = [running EXCEPT ![e] = @ \ {"demux"}]
      /\ UNCHANGED <<scene, history, agentVars, ingress, egress, muxing, wire, demuxing>>
  BY DEF ReadFails
<1>2. c.end \in Ends /\ Other(c.end) \in Ends
  BY CounterpartFacts, EndFacts
<1>3. /\ "mux" \in running'[c.end] <=> "mux" \in running[c.end]
      /\ running'[Other(c.end)] \subseteq running[Other(c.end)]
  BY <1>1, <1>2 DEF Typed
<1>4. OnBearer(c)' = OnBearer(c)
  BY <1>1, <1>3, BearerKept DEF agentVars
<1>5. Held(Counterpart(c))' = Held(Counterpart(c)) /\ Heard(c)' = Heard(c) /\ turn'[c] = turn[c]
  BY <1>1 DEF Held, Heard, Subscribed, agentVars
<1> QED BY <1>3, <1>4, <1>5, ClosingCarries

LEMMA DemuxCarries ==
  ASSUME Typed, Typed', NEW e \in Ends, demux(e), NEW c \in Agents
  PROVE  Carries(c)
<1> DEFINE p == demuxing[e][2]
<1> DEFINE b == Counterpart(c)
<1>1. /\ "demux" \in running[e] /\ demuxing[e] # <<>>
      /\ demuxing' = [demuxing EXCEPT ![e] = <<>>]
      /\ UNCHANGED <<scene, history, agentVars, ingress, muxing, wire>>
  BY DEF demux
<1>2. PICK a \in Agents :
           /\ a.end = Other(e) /\ Counterpart(a).end = e /\ p \in Chunk(a)
           /\ \A d \in Subscribers(e, demuxing[e][1]) : d = Counterpart(a) /\ d \in Agents
           /\ Counterpart(a) \in Subscribed => Counterpart(a) \in Subscribers(e, demuxing[e][1])
  BY <1>1, InHandFacts
<1>3. /\ c.end \in Ends /\ Other(c.end) \in Ends /\ Other(e) \in Ends /\ Other(e) # e
      /\ Other(Other(e)) = e /\ PipeTyped(c) /\ PipeTyped(c)' /\ b \in Agents
      /\ (c # a => b # Counterpart(a))
  BY CounterpartFacts, EndFacts, PipesTyped, PipesTypedNext
<1>4. demuxing'[e] = <<>> /\ \A f \in Ends : f # e => demuxing'[f] = demuxing[f]
  BY <1>1 DEF Typed
<1>5. /\ p \in Seq(Items) /\ p \in Seq(Bytes)
      /\ c = a => OfSender(c, p) = p
      /\ c # a => OfSender(c, p) = <<>>
  BY <1>2, OfChunk
<1>6. \/ UNCHANGED running
      \/ running' = [running EXCEPT ![e] = @ \ {"demux"}]
  BY DEF demux
<1>7. /\ "mux" \in running'[c.end] <=> "mux" \in running[c.end]
      /\ running'[Other(c.end)] \subseteq running[Other(c.end)]
  <2>1. CASE UNCHANGED running
    BY <2>1
  <2>2. CASE running' = [running EXCEPT ![e] = @ \ {"demux"}]
    <3>1. running'[e] = running[e] \ {"demux"} /\ \A f \in Ends : f # e => running'[f] = running[f]
      BY <2>2 DEF Typed
    <3> QED BY <1>3, <3>1
  <2> QED BY <1>6, <2>1, <2>2
<1>8. ToWrite(c)' = ToWrite(c) /\ Heard(c)' = Heard(c) /\ turn' = turn
  BY <1>1, <1>7 DEF ToWrite, Queued, Heard, Subscribed, agentVars
<1> HIDE DEF p
<1> DEFINE rest == OfSender(c, wire[c.end]) \o ToWrite(c)
<1>9. rest \in Seq(Bytes)
  BY <1>3, BytesConcat DEF PipeTyped
<1>10. ASSUME c # a PROVE OnBearer(c)' = OnBearer(c)
  <2>1. OfSender(c, InHand(Other(c.end)))' = OfSender(c, InHand(Other(c.end)))
    <3>1. CASE Other(c.end) = e
      <4>1. InHand(Other(c.end)) = p /\ InHand(Other(c.end))' = <<>>
        BY <1>1, <1>4, <3>1 DEF InHand, p
      <4> QED BY <1>5, <1>10, <4>1, OfEmpty
    <3>2. CASE Other(c.end) # e
      BY <1>3, <1>4, <3>2 DEF InHand
    <3> QED BY <3>1, <3>2
  <2> QED BY <1>1, <1>8, <2>1 DEF OnBearer
<1>11. CASE UNCHANGED egress
  <2>1. Held(b)' = Held(b)
    BY <1>1, <1>11 DEF Held, agentVars
  <2>2. CASE c # a
    BY <1>7, <1>8, <1>10, <2>1, <2>2, ClosingCarries
  <2>3. CASE c = a /\ ~Heard(c)
    <3>1. ~Heard(c)' /\ ~Intact(c)'
      BY <1>8, <2>3 DEF Intact
    <3> QED BY <3>1, CarriedPart
  <2>4. CASE c = a /\ Heard(c)
    <3>1. b \in Subscribers(e, demuxing[e][1]) /\ turn[b] # "dropped"
      BY <1>2, <2>4 DEF Heard
    <3>2. PICK d \in Subscribers(e, demuxing[e][1]) :
            \/ turn[d] # "dropped" /\ egress' = [egress EXCEPT ![d] = Append(@, p)]
            \/ turn[d] = "dropped"
      BY <3>1 DEF demux, p
    <3>3. d = b
      BY <1>2, <2>4
    <3>4. egress'[b] = Append(egress[b], p) /\ egress[b] \in Seq(Seq(Bytes))
      BY <1>3, <3>1, <3>2, <3>3 DEF Typed
    <3>5. Len(egress'[b]) = Len(egress[b]) + 1 /\ Len(egress[b]) \in Nat
      BY <1>5, <3>4
    <3> QED BY <1>11, <3>5
  <2> QED BY <2>2, <2>3, <2>4
<1>12. CASE /\ UNCHANGED running
            /\ \E d \in Subscribers(e, demuxing[e][1]) :
                 egress' = [egress EXCEPT ![d] = Append(@, p)]
  <2>1. egress' = [egress EXCEPT ![Counterpart(a)] = Append(@, p)] /\ Counterpart(a) \in Agents
    BY <1>2, <1>12
  <2>2. CASE c # a
    <3>1. egress'[b] = egress[b]
      BY <1>3, <2>1, <2>2 DEF Typed
    <3>2. Held(b)' = Held(b)
      BY <1>1, <3>1 DEF Held, agentVars
    <3> QED BY <1>7, <1>8, <1>10, <2>2, <3>2, ClosingCarries
  <2>3. CASE c = a
    <3> DEFINE h == Held(b)
    <3>1. egress'[b] = Append(egress[b], p) /\ egress[b] \in Seq(Seq(Bytes))
      BY <1>3, <2>1, <2>3 DEF Typed
    <3>2. FlattenSeq(Append(egress[b], p)) = FlattenSeq(egress[b]) \o p
      BY <1>5, <3>1, FlattenAppend
    <3>3. temp[b] \in Seq(Bytes) /\ FlattenSeq(egress[b]) \in Seq(Bytes) /\ h \in Seq(Bytes)
      <4>1. PipeTyped(b)
        BY <1>3, PipesTyped
      <4> QED BY <4>1 DEF PipeTyped
    <3>4. Held(b)' = h \o p
      <4>1. Held(b)' = temp[b] \o (FlattenSeq(egress[b]) \o p)
        BY <1>1, <3>1, <3>2 DEF Held, agentVars
      <4>2. (temp[b] \o FlattenSeq(egress[b])) \o p = temp[b] \o (FlattenSeq(egress[b]) \o p)
        BY <1>5, <3>3, BytesConcat, ZenonT(30)
      <4> QED BY <4>1, <4>2 DEF Held
    <3>5. ~Closed(Other(c.end)) /\ ~Closed(Other(c.end))' /\ Other(c.end) = e
      BY <1>1, <1>2, <1>3, <1>12, <2>3 DEF Closed
    <3>6. InHand(e) = p /\ InHand(e)' = <<>>
      BY <1>1, <1>4 DEF InHand, p
    <3>7. ToRead(c) = p \o rest
      BY <1>5, <2>3, <3>5, <3>6 DEF ToRead, OnBearer
    <3>8. ToRead(c)' = <<>> \o rest
      BY <1>1, <1>8, <3>5, <3>6, OfEmpty DEF ToRead, OnBearer
    <3>9. Pipe(c)' = Pipe(c)
      <4>1. <<>> \o rest = rest
        BY <1>9, ConcatEmptySeq
      <4> HIDE DEF rest, h, b
      <4>2. (h \o p) \o rest = h \o (p \o rest)
        BY <1>5, <1>9, <3>3, BytesConcat, SMTT(30)
      <4>3. Held(b)' \o ToRead(c)' = h \o ToRead(c)
        BY <3>4, <3>7, <3>8, <4>1, <4>2
      <4> QED BY <1>8, <4>3 DEF Pipe, h, b
    <3>10. Begins(Pipe(c), Pipe(c))
      BY <1>3, BeginsFacts DEF PipeTyped
    <3>11. Intact(c)' => Intact(c)
      BY <1>8, <1>12, <3>5 DEF Intact
    <3> QED BY <3>9, <3>10, <3>11 DEF Carries
  <2> QED BY <2>2, <2>3
<1> QED BY <1>11, <1>12 DEF demux, p

LEMMA AbortCarries ==
  ASSUME Typed, Typed', NEW e \in Ends, abort(e), NEW c \in Agents
  PROVE  Carries(c)
<1>1. /\ running' = [running EXCEPT ![e] = {}]
      /\ muxing' = [muxing EXCEPT ![e] = <<>>]
      /\ demuxing' = [demuxing EXCEPT ![e] = <<>>]
      /\ ingress' = [ingress EXCEPT ![e] = <<>>]
      /\ wire'[Other(e)] = <<>>
      /\ UNCHANGED <<scene, history, agentVars, egress>>
  BY AbortFacts
<1>2. PICK lost \in Seq(Items) : wire[e] \o muxing[e] = wire'[e] \o lost
  BY AbortFacts
<1>3. /\ c.end \in Ends /\ Other(c.end) \in Ends /\ Other(c.end) # c.end
      /\ (c.end = e \/ Other(c.end) = e) /\ PipeTyped(c) /\ PipeTyped(c)'
  BY EndFacts, CounterpartFacts, PipesTyped, PipesTypedNext DEF Ends, Other
<1>4. Held(Counterpart(c))' = Held(Counterpart(c)) /\ Heard(c)' = Heard(c)
  BY <1>1 DEF Held, Heard, Subscribed, agentVars
<1>5. ~Intact(c)'
  <2>1. running'[e] = {}
    BY <1>1 DEF Typed
  <2> QED BY <1>3, <2>1 DEF Intact, Closed
<1>6. Begins(ToRead(c)', ToRead(c))
  <2>1. CASE Other(c.end) = e
    <3>1. ToRead(c)' = <<>> /\ ToRead(c) \in Seq(Bytes)
      BY <1>1, <1>3, <2>1 DEF ToRead, Closed, Typed, PipeTyped
    <3> QED BY <3>1, BeginsFacts
  <2>2. CASE c.end = e /\ Other(c.end) # e
    <3> DEFINE hand == OfSender(c, InHand(Other(e)))
    <3> DEFINE w == OfSender(c, wire[e])
    <3> DEFINE v == OfSender(c, wire'[e])
    <3> DEFINE m == OfSender(c, muxing[e])
    <3> DEFINE cut == OfSender(c, lost)
    <3>1. hand \in Seq(Bytes) /\ w \in Seq(Bytes) /\ v \in Seq(Bytes) /\ m \in Seq(Bytes)
          /\ cut \in Seq(Bytes) /\ wire[e] \in Seq(Items) /\ muxing[e] \in Seq(Items)
          /\ wire'[e] \in Seq(Items)
      BY <1>3, <2>2, OfType DEF PipeTyped
    <3>2. w \o m = v \o cut
      <4>0. /\ wire[e] \in Seq(Items) /\ muxing[e] \in Seq(Items)
            /\ wire'[e] \in Seq(Items) /\ lost \in Seq(Items)
        BY <3>1
      <4>1. OfSender(c, wire[e] \o muxing[e]) = OfSender(c, wire[e]) \o OfSender(c, muxing[e])
        BY <4>0, OfConcat
      <4>2. OfSender(c, wire'[e] \o lost) = OfSender(c, wire'[e]) \o OfSender(c, lost)
        BY <4>0, OfConcat
      <4> QED BY <1>2, <4>1, <4>2
    <3>3. ToWrite(c)' = <<>>
      BY <1>1, <2>2 DEF ToWrite, Typed
    <3>4. InHand(Other(e))' = InHand(Other(e)) /\ Closed(Other(e))' = Closed(Other(e))
      <4>1. demuxing'[Other(e)] = demuxing[Other(e)] /\ running'[Other(e)] = running[Other(e)]
        BY <1>1, <1>3, <2>2 DEF Typed
      <4> QED BY <4>1 DEF InHand, Closed
    <3>5. OnBearer(c)' = hand \o (v \o <<>>) /\ OnBearer(c) = hand \o (w \o ToWrite(c))
      BY <2>2, <3>3, <3>4 DEF OnBearer
    <3>6. v \o <<>> = v
      BY <3>1, ConcatEmptySeq
    <3>7. ToWrite(c) \in Seq(Bytes)
      BY <1>3 DEF PipeTyped
    <3>8. Begins(v, w \o ToWrite(c))
      <4>1. CASE "mux" \in running[e]
        <5> DEFINE k == OfSender(c, Payloads(ingress[e])) \o FlattenSeq(chunks[c])
        <5>1. ToWrite(c) = m \o k /\ k \in Seq(Bytes)
          BY <1>3, <2>2, <4>1, BytesConcat DEF ToWrite, Queued, PipeTyped
        <5>0. w \in Seq(Bytes) /\ v \in Seq(Bytes) /\ m \in Seq(Bytes) /\ cut \in Seq(Bytes)
              /\ k \in Seq(Bytes)
          BY <3>1, <5>1
        <5> HIDE DEF k, w, m, v, cut
        <5>2. (w \o m) \o k = w \o (m \o k)
          <6>1. w \in Seq(Bytes) /\ m \in Seq(Bytes) /\ k \in Seq(Bytes)
            BY <5>0
          <6> QED BY <6>1, BytesConcat
        <5>3. (v \o cut) \o k = v \o (cut \o k) /\ cut \o k \in Seq(Bytes)
          BY <5>0, BytesConcat, SMTT(30)
        <5>4. w \o ToWrite(c) = v \o (cut \o k)
          BY <3>2, <5>1, <5>2, <5>3
        <5> QED BY <5>3, <5>4 DEF Begins
      <4>2. CASE "mux" \notin running[e]
        <5>1. muxing[e] = <<>> /\ ToWrite(c) = <<>>
          BY <2>2, <4>2 DEF Typed, EndTyped, ToWrite
        <5>2. m = <<>>
          BY <5>1, OfEmpty
        <5> HIDE DEF w, m, v, cut
        <5>3. w \o ToWrite(c) = v \o cut
          BY <3>2, <5>1, <5>2
        <5> QED BY <3>1, <5>3 DEF Begins
      <4> QED BY <4>1, <4>2
    <3>9. w \o ToWrite(c) \in Seq(Bytes)
      BY <3>1, <3>7, BytesConcat
    <3> HIDE DEF hand, w, v
    <3>10. Begins(hand \o v, hand \o (w \o ToWrite(c)))
      BY <3>1, <3>8, <3>9, BeginsFacts
    <3>11. Begins(OnBearer(c)', OnBearer(c))
      BY <3>5, <3>6, <3>10
    <3>12. Begins(<<>>, <<>>)
      <4>1. <<>> \in Seq(Bytes)
        OBVIOUS
      <4> QED BY <4>1, BeginsFacts
    <3> QED BY <2>2, <3>4, <3>11, <3>12 DEF ToRead
  <2> QED BY <1>3, <2>1, <2>2
<1>7. CASE Heard(c)
  BY <1>4, <1>5, <1>6, <1>7, CarriedPart
<1>8. CASE ~Heard(c)
  BY <1>4, <1>5, <1>8, CarriedPart
<1> QED BY <1>7, <1>8

LEMMA DropCarries ==
  ASSUME Typed, Typed', NEW a \in Subscribed, DropAgent(a), NEW c \in Agents
  PROVE  Carries(c)
<1>1. /\ a \in Agents
      /\ turn' = [turn EXCEPT ![a] = "dropped"] /\ egress' = [egress EXCEPT ![a] = <<>>]
      /\ temp' = [temp EXCEPT ![a] = <<>>] /\ chunks' = [chunks EXCEPT ![a] = <<>>]
      /\ UNCHANGED <<scene, history, ingress, taskVars>>
  BY SubscribedFacts DEF Typed, DropAgent
<1>2. /\ Counterpart(c) \in Agents /\ c # Counterpart(c) /\ PipeTyped(c) /\ PipeTyped(c)'
  BY CounterpartFacts, EndFacts, PipesTyped, PipesTypedNext
<1>3. CASE Counterpart(c) = a
  <2>1. ~Heard(c)' /\ ~Intact(c)'
    BY <1>1, <1>2, <1>3 DEF Heard, Intact, Typed
  <2> QED BY <2>1, CarriedPart
<1>4. CASE Counterpart(c) # a
  <2>1. /\ turn'[Counterpart(c)] = turn[Counterpart(c)] /\ egress'[Counterpart(c)] = egress[Counterpart(c)]
        /\ temp'[Counterpart(c)] = temp[Counterpart(c)]
    BY <1>1, <1>2, <1>4 DEF Typed
  <2>2. Held(Counterpart(c))' = Held(Counterpart(c)) /\ Heard(c)' = Heard(c)
    BY <1>1, <2>1 DEF Held, Heard, Subscribed
  <2>3. CASE c # a
    <3>1. chunks'[c] = chunks[c] /\ turn'[c] = turn[c]
      BY <1>1, <2>3 DEF Typed
    <3>2. OnBearer(c)' = OnBearer(c)
      BY <1>1, <3>1, BearerKept DEF taskVars
    <3> QED BY <1>1, <2>2, <3>1, <3>2, ClosingCarries DEF taskVars
  <2>4. CASE c = a
    <3> DEFINE hand == OfSender(c, InHand(Other(c.end)))
    <3> DEFINE w == OfSender(c, wire[c.end])
    <3> DEFINE m == OfSender(c, muxing[c.end])
    <3> DEFINE y == OfSender(c, Payloads(ingress[c.end]))
    <3> DEFINE k == FlattenSeq(chunks[c])
    <3>1. hand \in Seq(Bytes) /\ w \in Seq(Bytes) /\ m \in Seq(Bytes) /\ y \in Seq(Bytes)
          /\ k \in Seq(Bytes) /\ y \o k \in Seq(Bytes) /\ ToWrite(c) \in Seq(Bytes)
          /\ ToWrite(c)' \in Seq(Bytes) /\ w \o ToWrite(c) \in Seq(Bytes)
      BY <1>2, BytesConcat DEF PipeTyped
    <3>2. ~Intact(c)' /\ chunks'[c] = <<>>
      BY <1>1, <2>4 DEF Intact, Typed
    <3>3. Queued(c)' = m \o (y \o <<>>) /\ Queued(c) = m \o (y \o k)
      BY <1>1, <3>2, FlattenEmpty DEF Queued, taskVars
    <3>4. y \o <<>> = y
      BY <3>1, ConcatEmptySeq
    <3>5. Begins(y, y \o k)
      BY <3>1 DEF Begins
    <3>6. OnBearer(c)' = hand \o (w \o ToWrite(c)') /\ OnBearer(c) = hand \o (w \o ToWrite(c))
      BY <1>1 DEF OnBearer, InHand, taskVars
    <3> HIDE DEF hand, w, m, y, k
    <3>7. Begins(m \o y, m \o (y \o k))
      BY <3>1, <3>5, BeginsFacts
    <3>8. Begins(Queued(c)', Queued(c))
      BY <3>3, <3>4, <3>7
    <3>9. Begins(<<>>, <<>>)
      <4>1. <<>> \in Seq(Bytes)
        OBVIOUS
      <4> QED BY <4>1, BeginsFacts
    <3>10. Begins(ToWrite(c)', ToWrite(c))
      BY <1>1, <3>8, <3>9 DEF ToWrite, taskVars
    <3> DEFINE n == ToWrite(c)'
    <3>11. n \in Seq(Bytes) /\ Begins(n, ToWrite(c)) /\ OnBearer(c)' = hand \o (w \o n)
      BY <3>1, <3>6, <3>10
    <3> HIDE DEF n
    <3>12. Begins(w \o n, w \o ToWrite(c)) /\ w \o n \in Seq(Bytes)
      BY <3>1, <3>11, BeginsFacts, BytesConcat
    <3>13. Begins(hand \o (w \o n), hand \o (w \o ToWrite(c)))
      BY <3>1, <3>12, BeginsFacts
    <3>14. Begins(OnBearer(c)', OnBearer(c))
      BY <3>6, <3>11, <3>13
    <3>15. Begins(ToRead(c)', ToRead(c))
      BY <1>1, <3>9, <3>14 DEF ToRead, Closed, taskVars
    <3>16. CASE Heard(c)
      BY <2>2, <3>2, <3>15, <3>16, CarriedPart
    <3>17. CASE ~Heard(c)
      BY <2>2, <3>2, <3>17, CarriedPart
    <3> QED BY <3>16, <3>17
  <2> QED BY <2>3, <2>4
<1> QED BY <1>3, <1>4

-----------------------------------------------------------------------------
(* The two actions that extend the history.                                *)

LEMMA BytesOfConcat ==
  ASSUME NEW s \in Seq(AllMessages), NEW t \in Seq(AllMessages)
  PROVE  BytesOf(s \o t) = BytesOf(s) \o BytesOf(t)
<1> DEFINE S == AllMessages
<1> DEFINE g == [x \in S |-> Encoded(x)]
<1>1. MapsTo(g, S, Seq(Bytes))
  BY EncodedFacts DEF MapsTo
<1>2. \A x \in S : g[x] = Encoded(x)
  OBVIOUS
<1>3. ASSUME NEW r \in Seq(S) PROVE BytesOf(r) = FlatMap(g, r)
  <2>1. \A i \in DOMAIN r : g[r[i]] = Encoded(r[i])
    BY <1>2
  <2> HIDE DEF g, S
  <2>2. [i \in DOMAIN r |-> g[r[i]]] = [i \in DOMAIN r |-> Encoded(r[i])]
    BY <2>1
  <2> QED BY <2>2 DEF BytesOf, FlatMap
<1> HIDE DEF g
<1>4. FlatMap(g, s \o t) = FlatMap(g, s) \o FlatMap(g, t)
  BY <1>1, FlatMapFacts
<1>5. s \o t \in Seq(S)
  BY ConcatProperties
<1> QED BY <1>3, <1>4, <1>5

(* Where the way to the counterpart is open, the bytes of a new message    *)
(* join its end; elsewhere they are lost.                                  *)
LEMMA SentPipe ==
  ASSUME Typed, Typed', NEW a \in Agents, NEW p \in Seq(OwnBytes(a)),
         turn[a] = "send", chunks[a] = <<>>, FlattenSeq(chunks'[a]) = p,
         UNCHANGED <<scene, got, turn, temp, ingress, egress, taskVars>>
  PROVE  /\ Intact(a)' = Intact(a)
         /\ Intact(a) => Pipe(a)' = Pipe(a) \o p
         /\ ~Intact(a) => Pipe(a)' = Pipe(a)
<1>1. PipeTyped(a) /\ PipeTyped(a)' /\ p \in Seq(Bytes)
  BY PipesTyped, PipesTypedNext, BytesAreItems
<1>2. /\ Intact(a)' = Intact(a) /\ Heard(a)' = Heard(a)
      /\ Closed(Other(a.end))' = Closed(Other(a.end))
      /\ Held(Counterpart(a))' = Held(Counterpart(a))
      /\ InHand(Other(a.end))' = InHand(Other(a.end))
  BY DEF Intact, Heard, Closed, Held, InHand, Subscribed, taskVars
<1> DEFINE hand == OfSender(a, InHand(Other(a.end)))
<1> DEFINE w == OfSender(a, wire[a.end])
<1> DEFINE m == OfSender(a, muxing[a.end])
<1> DEFINE y == OfSender(a, Payloads(ingress[a.end]))
<1> DEFINE h == Held(Counterpart(a))
<1>3. /\ hand \in Seq(Bytes) /\ w \in Seq(Bytes) /\ m \in Seq(Bytes) /\ y \in Seq(Bytes)
      /\ h \in Seq(Bytes)
  BY <1>1 DEF PipeTyped
<1>4. CASE "mux" \notin running[a.end]
  <2>1. ToWrite(a)' = ToWrite(a)
    BY <1>4 DEF ToWrite, taskVars
  <2>2. OnBearer(a)' = OnBearer(a)
    BY <1>2, <2>1 DEF OnBearer, taskVars
  <2>3. Pipe(a)' = Pipe(a)
    BY <1>2, <2>2 DEF Pipe, ToRead
  <2> QED BY <1>2, <1>4, <2>3 DEF Intact
<1>5. CASE ~Heard(a) \/ Closed(Other(a.end))
  <2>1. Pipe(a)' = Pipe(a)
    BY <1>2, <1>5 DEF Pipe, ToRead
  <2> QED BY <1>2, <1>5, <2>1 DEF Intact
<1>6. CASE "mux" \in running[a.end] /\ Heard(a) /\ ~Closed(Other(a.end))
  <2>1. Intact(a)
    BY <1>6 DEF Intact
  <2>2. FlattenSeq(chunks[a]) = <<>>
    BY FlattenEmpty
  <2>3. y \o <<>> = y
    BY <1>3, ConcatEmptySeq
  <2>4. ToWrite(a) = m \o y
    BY <1>6, <2>2, <2>3 DEF ToWrite, Queued
  <2>5. ToWrite(a)' = m \o (y \o p)
    BY <1>6 DEF ToWrite, Queued, taskVars
  <2>6. Pipe(a) = h \o (hand \o (w \o (m \o y)))
    BY <1>6, <2>4 DEF Pipe, ToRead, OnBearer
  <2>7. Pipe(a)' = h \o (hand \o (w \o (m \o (y \o p))))
    BY <1>2, <1>6, <2>5 DEF Pipe, ToRead, OnBearer, taskVars
  <2> HIDE DEF h, hand, w, m, y
  <2>8. (m \o y) \o p = m \o (y \o p) /\ m \o y \in Seq(Bytes)
    BY <1>1, <1>3, BytesConcat, SMTT(30)
  <2> DEFINE x == m \o y
  <2>9. x \in Seq(Bytes) /\ x \o p = m \o (y \o p)
    BY <2>8
  <2> HIDE DEF x
  <2>10. (w \o x) \o p = w \o (x \o p) /\ w \o x \in Seq(Bytes)
    <3>1. w \in Seq(Bytes) /\ x \in Seq(Bytes) /\ p \in Seq(Bytes)
      BY <1>1, <1>3, <2>9
    <3> QED BY <3>1, BytesConcat
  <2> DEFINE z == w \o x
  <2>11. z \in Seq(Bytes) /\ z \o p = w \o (m \o (y \o p))
    BY <2>9, <2>10
  <2> HIDE DEF z
  <2>12. (hand \o z) \o p = hand \o (z \o p) /\ hand \o z \in Seq(Bytes)
    <3>1. hand \in Seq(Bytes) /\ z \in Seq(Bytes) /\ p \in Seq(Bytes)
      BY <1>1, <1>3, <2>11
    <3> QED BY <3>1, BytesConcat
  <2> DEFINE v == hand \o z
  <2>13. v \in Seq(Bytes) /\ v \o p = hand \o (w \o (m \o (y \o p)))
    BY <2>11, <2>12
  <2> HIDE DEF v
  <2>14. (h \o v) \o p = h \o (v \o p)
    <3>1. h \in Seq(Bytes) /\ v \in Seq(Bytes) /\ p \in Seq(Bytes)
      BY <1>1, <1>3, <2>13
    <3> QED BY <3>1, BytesConcat
  <2>15. Pipe(a) = h \o v
    BY <2>6 DEF v, z, x
  <2>16. Pipe(a)' = Pipe(a) \o p
    BY <2>7, <2>13, <2>14, <2>15
  <2> QED BY <2>1, <2>16, <1>2
<1> QED BY <1>4, <1>5, <1>6

LEMMA SendStream ==
  ASSUME Typed, Typed', NEW a \in Subscribed, send_msg_chunks(a) \/ SendPacked(a),
         NEW c \in Agents, Stream(c)
  PROVE  Stream(c)'
<1>1. /\ a \in Agents /\ turn[a] = "send" /\ chunks[a] = <<>>
      /\ UNCHANGED <<scene, got, turn, temp, ingress, egress, taskVars>>
  BY SendFacts
<1>2. PICK more \in Seq(AllMessages) :
         /\ sent' = [sent EXCEPT ![a] = @ \o more]
         /\ BytesOf(more) \in Seq(OwnBytes(a))
         /\ chunks' = [chunks EXCEPT ![a] = Chunked(BytesOf(more))]
  BY SendFacts
<1>3. CASE c # a
  <2>1. sent'[c] = sent[c] /\ chunks'[c] = chunks[c]
    BY <1>1, <1>2, <1>3 DEF Typed
  <2>2. OnBearer(c)' = OnBearer(c)
    BY <1>1, <2>1, BearerKept DEF taskVars
  <2>3. /\ Held(Counterpart(c))' = Held(Counterpart(c)) /\ Heard(c)' = Heard(c)
        /\ Intact(c)' = Intact(c) /\ Closed(Other(c.end))' = Closed(Other(c.end))
    BY <1>1 DEF Held, Heard, Intact, Closed, Subscribed, taskVars
  <2>4. ToRead(c)' = ToRead(c)
    BY <2>2, <2>3 DEF ToRead
  <2>5. Carries(c)
    BY <2>3, <2>4, CarriedWhole
  <2> QED BY <1>1, <2>1, <2>5, StreamCarried
<1>4. CASE c = a
  <2> DEFINE p == BytesOf(more)
  <2> DEFINE g == BytesOf(got[Counterpart(a)])
  <2> DEFINE s == BytesOf(sent[a])
  <2>1. sent'[a] = sent[a] \o more /\ chunks'[a] = Chunked(p) /\ sent[a] \in Seq(AllMessages)
    BY <1>1, <1>2 DEF Typed
  <2>2. FlattenSeq(chunks'[a]) = p
    BY <1>2, <2>1, ChunkedFacts
  <2>3. /\ Intact(a)' = Intact(a)
        /\ Intact(a) => Pipe(a)' = Pipe(a) \o p
        /\ ~Intact(a) => Pipe(a)' = Pipe(a)
    BY <1>1, <1>2, <2>2, SentPipe
  <2>4. PICK lost \in Seq(Bytes) : s = g \o (Pipe(a) \o lost) /\ (Intact(a) => lost = <<>>)
    BY <1>4 DEF Stream
  <2>5. BytesOf(sent'[a]) = s \o p
    BY <2>1, BytesOfConcat
  <2>6. p \in Seq(Bytes) /\ Pipe(a) \in Seq(Bytes) /\ g \in Seq(Bytes)
    BY <1>1, <1>2, PipesTyped, BytesAreItems DEF PipeTyped
  <2>7. BytesOf(got[Counterpart(a)])' = g
    BY <1>1
  <2> DEFINE o == Pipe(a)
  <2> HIDE DEF p, s, g, o
  <2>8. o \in Seq(Bytes) /\ o \o lost \in Seq(Bytes)
    BY <2>6, BytesConcat DEF o
  <2> DEFINE n == o \o lost
  <2>0. o \in Seq(Bytes) /\ lost \in Seq(Bytes) /\ p \in Seq(Bytes)
    BY <2>6, <2>8
  <2>16. (o \o lost) \o p = o \o (lost \o p) /\ lost \o p \in Seq(Bytes)
    BY <2>0, BytesConcat
  <2>9. n \in Seq(Bytes) /\ s = g \o n /\ (o \o lost) \o p = o \o (lost \o p) /\ lost \o p \in Seq(Bytes)
    BY <2>4, <2>8, <2>16 DEF o
  <2>10. n \in Seq(Bytes) /\ n \o p = o \o (lost \o p)
    BY <2>9
  <2> HIDE DEF n
  <2>11. (g \o n) \o p = g \o (n \o p)
    <3>1. g \in Seq(Bytes) /\ n \in Seq(Bytes) /\ p \in Seq(Bytes)
      BY <2>6, <2>10
    <3> QED BY <3>1, BytesConcat, SMTT(30)
  <2>12. s \o p = g \o (o \o (lost \o p))
    BY <2>9, <2>10, <2>11
  <2>13. CASE ~Intact(a)
    <3>1. BytesOf(sent[a])' = BytesOf(got[Counterpart(a)])' \o (Pipe(a)' \o (lost \o p))
      BY <2>3, <2>5, <2>7, <2>12, <2>13 DEF o
    <3> QED BY <1>4, <2>3, <2>9, <2>13, <3>1 DEF Stream
  <2>14. CASE Intact(a)
    <3>1. lost = <<>> /\ lost \o p = p
      BY <2>4, <2>6, <2>14, ConcatEmptySeq
    <3>2. (o \o p) \o <<>> = o \o p
      <4>1. o \o p \in Seq(Bytes)
        BY <2>6, <2>8, BytesConcat
      <4> QED BY <4>1, ConcatEmptySeq
    <3>3. Pipe(a)' = o \o p
      BY <2>3, <2>14 DEF o
    <3>4. BytesOf(sent[a])' = BytesOf(got[Counterpart(a)])' \o (Pipe(a)' \o <<>>)
      BY <2>5, <2>7, <2>12, <3>1, <3>2, <3>3
    <3>5. <<>> \in Seq(Bytes)
      OBVIOUS
    <3> QED BY <1>4, <3>4, <3>5 DEF Stream
  <2> QED BY <2>13, <2>14
<1> QED BY <1>3, <1>4

(* A message taken from the front of what is held passes to the history.   *)
Shifts(g, m, r, q, t, lost) ==
  g \o ((((m \o r) \o q) \o t) \o lost) = (g \o m) \o (((r \o q) \o t) \o lost)

LEMMA FrontTaken == \A g, m, r, q, t, lost \in Seq(Bytes) : Shifts(g, m, r, q, t, lost)
<1>1. SUFFICES ASSUME NEW g, NEW m, NEW r, NEW q, NEW t, NEW lost,
                      g \in Seq(Bytes) /\ m \in Seq(Bytes) /\ r \in Seq(Bytes),
                      q \in Seq(Bytes) /\ t \in Seq(Bytes) /\ lost \in Seq(Bytes)
               PROVE  Shifts(g, m, r, q, t, lost)
  OBVIOUS
<1>g. g \in Seq(Bytes) BY <1>1
<1>m. m \in Seq(Bytes) BY <1>1
<1>r. r \in Seq(Bytes) BY <1>1
<1>q. q \in Seq(Bytes) BY <1>1
<1>t. t \in Seq(Bytes) BY <1>1
<1>l. lost \in Seq(Bytes) BY <1>1
<1> DEFINE x == r \o q
<1> DEFINE y == x \o t
<1> DEFINE z == y \o lost
<1>x. x \in Seq(Bytes)
  BY <1>r, <1>q, ConcatProperties
<1>2. (m \o r) \o q = m \o x
  BY <1>m, <1>r, <1>q, ConcatAssociative
<1> HIDE DEF x
<1>y. y \in Seq(Bytes)
  BY <1>x, <1>t, ConcatProperties
<1>3. (m \o x) \o t = m \o y
  BY <1>m, <1>x, <1>t, ConcatAssociative
<1> HIDE DEF y
<1>z. z \in Seq(Bytes)
  BY <1>y, <1>l, ConcatProperties
<1>4. (m \o y) \o lost = m \o z
  BY <1>m, <1>y, <1>l, ConcatAssociative
<1> HIDE DEF z
<1>5. (g \o m) \o z = g \o (m \o z)
  BY <1>g, <1>m, <1>z, ConcatAssociative
<1>6. (((m \o r) \o q) \o t) \o lost = m \o z
  BY <1>2, <1>3, <1>4
<1>7. ((r \o q) \o t) \o lost = z
  BY DEF x, y, z
<1> QED BY <1>5, <1>6, <1>7 DEF Shifts

LEMMA RecvStream ==
  ASSUME Typed, Typed', NEW b \in Subscribed, recv_full_msg(b), NEW c \in Agents, Stream(c)
  PROVE  Stream(c)'
<1> DEFINE S == OwnBytes(Counterpart(b))
<1>1. b \in Agents /\ turn[b] = "recv" /\ UNCHANGED <<scene, sent, chunks, ingress, taskVars>>
  BY RecvFacts
<1>2. PICK buffer \in Seq(S), q \in Seq(Chunk(Counterpart(b))) :
         /\ buffer \o FlattenSeq(q) = temp[b] \o FlattenSeq(egress[b])
         /\ egress' = [egress EXCEPT ![b] = q]
         /\ RecvOutcome(b, buffer)
  BY RecvFacts
<1>3. /\ Counterpart(c) \in Agents /\ c # Counterpart(c) /\ PipeTyped(c) /\ PipeTyped(c)'
  BY CounterpartFacts, EndFacts, PipesTyped, PipesTypedNext
<1>4. PICK r \in Seq(S), s \in AgentStates \ {"dropped"} :
        temp' = [temp EXCEPT ![b] = r] /\ turn' = [turn EXCEPT ![b] = s]
  <2>1. CASE \E m \in AllMessages, r \in Seq(S) :
               /\ temp' = [temp EXCEPT ![b] = r]
               /\ turn' = [turn EXCEPT ![b] = IF m.last THEN "send" ELSE "recv"]
    BY <2>1 DEF AgentStates
  <2>2. CASE temp' = [temp EXCEPT ![b] = buffer] /\ turn' = [turn EXCEPT ![b] = "failed"]
    BY <2>2 DEF AgentStates
  <2>3. CASE temp' = [temp EXCEPT ![b] = buffer] /\ UNCHANGED turn
    <3>1. turn' = [turn EXCEPT ![b] = "recv"]
      BY <1>1, <2>3 DEF Typed
    <3> QED BY <2>3, <3>1 DEF AgentStates
  <2> QED BY <1>2, <2>1, <2>2, <2>3 DEF RecvOutcome
<1>5. /\ turn'[b] # "dropped" /\ turn[b] # "dropped"
      /\ \A d \in Agents : d # b => turn'[d] = turn[d] /\ temp'[d] = temp[d] /\ egress'[d] = egress[d]
  BY <1>1, <1>2, <1>4 DEF Typed, AgentStates
<1>6. OnBearer(c)' = OnBearer(c)
  BY <1>1, BearerKept DEF taskVars
<1>7. /\ Heard(c)' = Heard(c) /\ Intact(c)' = Intact(c) /\ ToRead(c)' = ToRead(c)
  <2>1. /\ turn'[c] # "dropped" <=> turn[c] # "dropped"
        /\ turn'[Counterpart(c)] # "dropped" <=> turn[Counterpart(c)] # "dropped"
    BY <1>3, <1>5
  <2>2. Heard(c)' = Heard(c)
    BY <1>1, <2>1 DEF Heard, Subscribed
  <2>3. Closed(Other(c.end))' = Closed(Other(c.end)) /\ running' = running
    BY <1>1 DEF Closed, taskVars
  <2> QED BY <1>6, <2>1, <2>2, <2>3 DEF Intact, ToRead
<1>8. got' = got \/ \E m \in AllMessages :
        got' = [got EXCEPT ![b] = Append(@, m)] /\ buffer = Encoded(m) \o r
  <2>1. CASE UNCHANGED got
    BY <2>1
  <2>2. CASE \E m \in AllMessages, x \in Seq(S) :
               /\ buffer = Encoded(m) \o x
               /\ got' = [got EXCEPT ![b] = Append(@, m)]
               /\ temp' = [temp EXCEPT ![b] = x]
    <3>1. PICK m \in AllMessages, x \in Seq(S) :
               /\ buffer = Encoded(m) \o x
               /\ got' = [got EXCEPT ![b] = Append(@, m)]
               /\ temp' = [temp EXCEPT ![b] = x]
      BY <2>2
    <3>2. r = x
      <4>1. temp'[b] = x /\ temp'[b] = r
        BY <1>1, <1>4, <3>1 DEF Typed
      <4> QED BY <4>1
    <3> QED BY <3>1, <3>2
  <2> QED BY <1>2, <2>1, <2>2 DEF RecvOutcome
<1>9. CASE Counterpart(c) # b
  <2>1. Held(Counterpart(c))' = Held(Counterpart(c))
    BY <1>3, <1>5, <1>9 DEF Held
  <2>2. got'[Counterpart(c)] = got[Counterpart(c)]
    BY <1>1, <1>3, <1>8, <1>9 DEF Typed
  <2>3. Carries(c)
    BY <1>7, <2>1, CarriedWhole
  <2> QED BY <1>1, <2>2, <2>3, StreamCarried
<1>10. CASE Counterpart(c) = b /\ got' = got
  <2>1. temp'[b] = buffer /\ egress'[b] = q
    <3>1. temp' = [temp EXCEPT ![b] = buffer]
      <4>1. CASE \E m \in AllMessages : got' = [got EXCEPT ![b] = Append(@, m)]
        <5>1. PICK m \in AllMessages : got' = [got EXCEPT ![b] = Append(@, m)]
          BY <4>1
        <5>2. got[b] = Append(got[b], m) /\ got[b] \in Seq(AllMessages)
          BY <1>1, <1>10, <5>1 DEF Typed
        <5>3. Len(Append(got[b], m)) = Len(got[b]) + 1 /\ Len(got[b]) \in Nat
          BY <5>2
        <5>4. Len(got[b]) = Len(got[b]) + 1
          BY <5>2, <5>3
        <5> QED BY <5>3, <5>4
      <4> QED BY <1>2, <4>1 DEF RecvOutcome
    <3> QED BY <1>1, <1>2, <3>1 DEF Typed
  <2>2. Held(Counterpart(c))' = Held(Counterpart(c))
    BY <1>2, <1>10, <2>1 DEF Held
  <2>3. Carries(c)
    BY <1>7, <2>2, CarriedWhole
  <2> QED BY <1>1, <1>10, <2>3, StreamCarried
<1>11. CASE Counterpart(c) = b /\ got' # got
  <2>1. PICK m \in AllMessages : got' = [got EXCEPT ![b] = Append(@, m)] /\ buffer = Encoded(m) \o r
    BY <1>8, <1>11
  <2>2. got'[b] = Append(got[b], m) /\ temp'[b] = r /\ egress'[b] = q /\ got[b] \in Seq(AllMessages)
    BY <1>1, <1>2, <1>4, <2>1 DEF Typed
  <2>3. Heard(c) /\ Heard(c)'
    BY <1>5, <1>7, <1>11 DEF Heard
  <2> DEFINE t == ToRead(c)
  <2> DEFINE fq == FlattenSeq(q)
  <2> DEFINE k == Encoded(m)
  <2> DEFINE g == BytesOf(got[b])
  <2>4. PICK lost \in Seq(Bytes) :
          /\ BytesOf(sent[c]) = g \o (Pipe(c) \o lost)
          /\ Intact(c) => lost = <<>>
    BY <1>11 DEF Stream
  <2>5. g \in Seq(Bytes) /\ k \in Seq(Bytes) /\ r \in Seq(Bytes) /\ fq \in Seq(Bytes)
        /\ t \in Seq(Bytes)
    <3>1. g \in Seq(Bytes) /\ t \in Seq(Bytes)
      BY <1>3, <1>11 DEF PipeTyped
    <3>2. k \in Seq(Bytes)
      BY EncodedFacts
    <3>3. r \in Seq(Bytes) /\ fq \in Seq(Bytes)
      BY BytesAreItems, ChunkFacts
    <3> QED BY <3>1, <3>2, <3>3
  <2>6. Pipe(c) = ((k \o r) \o fq) \o t
    BY <1>2, <1>11, <2>1, <2>3 DEF Pipe, Held
  <2>7. Pipe(c)' = (r \o fq) \o t
    BY <1>7, <1>11, <2>2, <2>3 DEF Pipe, Held
  <2>8. BytesOf(got'[b]) = g \o k
    BY <2>2, BytesOfFacts
  <2> HIDE DEF t, fq, k, g
  <2>9. Shifts(g, k, r, fq, t, lost)
    BY <2>5, FrontTaken
  <2>10. BytesOf(sent[c])' = BytesOf(got[Counterpart(c)])' \o (Pipe(c)' \o lost)
    BY <1>1, <1>11, <2>4, <2>6, <2>7, <2>8, <2>9 DEF Shifts
  <2>11. Intact(c)' => lost = <<>>
    BY <1>7, <2>4
  <2> QED BY <2>10, <2>11 DEF Stream
<1> QED BY <1>9, <1>10, <1>11

-----------------------------------------------------------------------------
(* The invariant, and that every step keeps it.                            *)

Streams == \A a \in Agents : Stream(a)
PlexerInv == Typed /\ Streams

LEMMA PlexerInvInit == Init => PlexerInv
<1> SUFFICES ASSUME Init PROVE PlexerInv
  OBVIOUS
<1>1. Typed
  BY TypedInit
<1>2. ASSUME NEW a \in Agents PROVE Stream(a)
  <2>1. Counterpart(a) \in Agents /\ a.end \in Ends /\ Other(a.end) \in Ends
    BY CounterpartFacts, EndFacts
  <2>2. /\ sent[a] = <<>> /\ got[Counterpart(a)] = <<>> /\ temp[Counterpart(a)] = <<>>
        /\ egress[Counterpart(a)] = <<>> /\ demuxing[Other(a.end)] = <<>>
        /\ wire[a.end] = <<>> /\ muxing[a.end] = <<>> /\ ingress[a.end] = <<>> /\ chunks[a] = <<>>
    BY <2>1 DEF Init
  <2>3. BytesOf(<<>>) = <<>> /\ <<>> \in Seq(Bytes)
    <3>1. <<>> \in Seq(AllMessages)
      OBVIOUS
    <3> QED BY <3>1, BytesOfFacts
  <2>4. Payloads(ingress[a.end]) = <<>>
    <3>1. [i \in DOMAIN <<>> |-> <<>>[i][2]] = <<>>
      OBVIOUS
    <3> QED BY <2>2, <3>1, FlattenEmpty DEF Payloads
  <2>5. <<>> \o <<>> = <<>>
    BY <2>3, ConcatEmptySeq
  <2>6. Held(Counterpart(a)) = <<>>
    BY <2>2, <2>5, FlattenEmpty DEF Held
  <2>7. ToWrite(a) = <<>>
    BY <2>2, <2>4, <2>5, FlattenEmpty, OfEmpty DEF ToWrite, Queued
  <2>8. ToRead(a) = <<>>
    BY <2>2, <2>5, <2>7, OfEmpty DEF ToRead, OnBearer, InHand
  <2>9. Pipe(a) = <<>>
    BY <2>5, <2>6, <2>8 DEF Pipe
  <2>10. BytesOf(sent[a]) = BytesOf(got[Counterpart(a)]) \o (Pipe(a) \o <<>>)
    BY <2>2, <2>3, <2>5, <2>9
  <2> QED BY <2>3, <2>10 DEF Stream
<1> QED BY <1>1, <1>2 DEF PlexerInv, Streams

LEMMA CarriedOn ==
  ASSUME Typed, Typed', Streams, UNCHANGED history, \A c \in Agents : Carries(c)
  PROVE  Streams'
<1>1. ASSUME NEW a \in Agents PROVE Stream(a)'
  <2>1. Stream(a) /\ Carries(a) /\ sent'[a] = sent[a] /\ got'[Counterpart(a)] = got[Counterpart(a)]
    BY DEF Streams, history
  <2> QED BY <2>1, StreamCarried
<1> QED BY <1>1 DEF Streams

LEMMA TaskStep ==
  ASSUME PlexerInv, NEW e \in Ends, Task(e) \/ abort(e)
  PROVE  PlexerInv' /\ UNCHANGED history
<1>0. Typed /\ Streams
  BY DEF PlexerInv
<1>1. CASE mux(e)
  <2>1. UNCHANGED history
    BY <1>1 DEF mux
  <2>2. Typed'
    BY <1>0, <1>1, MuxTyped
  <2>3. \A c \in Agents : Carries(c)
    BY <1>0, <1>1, <2>2, MuxCarries
  <2> QED BY <1>0, <2>1, <2>2, <2>3, CarriedOn DEF PlexerInv
<1>2. CASE write_segment(e)
  <2>1. UNCHANGED history
    BY <1>2 DEF write_segment
  <2>2. Typed'
    BY <1>0, <1>2, WriteTyped
  <2>3. \A c \in Agents : Carries(c)
    BY <1>0, <1>2, <2>2, WriteCarries
  <2> QED BY <1>0, <2>1, <2>2, <2>3, CarriedOn DEF PlexerInv
<1>3. CASE read_segment(e)
  <2>1. UNCHANGED history
    BY <1>3 DEF read_segment
  <2>2. Typed'
    BY <1>0, <1>3, ReadTyped
  <2>3. \A c \in Agents : Carries(c)
    BY <1>0, <1>3, <2>2, ReadCarries
  <2> QED BY <1>0, <2>1, <2>2, <2>3, CarriedOn DEF PlexerInv
<1>4. CASE ReadFails(e)
  <2>1. UNCHANGED history
    BY <1>4 DEF ReadFails
  <2>2. Typed'
    BY <1>0, <1>4, ReadFailsTyped
  <2>3. \A c \in Agents : Carries(c)
    BY <1>0, <1>4, <2>2, ReadFailsCarries
  <2> QED BY <1>0, <2>1, <2>2, <2>3, CarriedOn DEF PlexerInv
<1>5. CASE demux(e)
  <2>1. UNCHANGED history
    BY <1>5 DEF demux
  <2>2. Typed'
    BY <1>0, <1>5, DemuxTyped
  <2>3. \A c \in Agents : Carries(c)
    BY <1>0, <1>5, <2>2, DemuxCarries
  <2> QED BY <1>0, <2>1, <2>2, <2>3, CarriedOn DEF PlexerInv
<1>6. CASE abort(e)
  <2>1. UNCHANGED history
    BY <1>6 DEF abort
  <2>2. Typed'
    BY <1>0, <1>6, AbortTyped
  <2>3. \A c \in Agents : Carries(c)
    BY <1>0, <1>6, <2>2, AbortCarries
  <2> QED BY <1>0, <2>1, <2>2, <2>3, CarriedOn DEF PlexerInv
<1> QED BY <1>1, <1>2, <1>3, <1>4, <1>5, <1>6 DEF Task

LEMMA AgentStep ==
  ASSUME PlexerInv, NEW a \in Subscribed, Agent(a) \/ DropAgent(a)
  PROVE  PlexerInv'
<1>0. Typed /\ Streams
  BY DEF PlexerInv
<1>1. CASE send_msg_chunks(a) \/ SendPacked(a)
  <2>1. Typed'
    BY <1>0, <1>1, SendTyped
  <2>2. ASSUME NEW c \in Agents PROVE Stream(c)'
    BY <1>0, <1>1, <2>1, SendStream DEF Streams
  <2> QED BY <2>1, <2>2 DEF PlexerInv, Streams
<1>2. CASE recv_full_msg(a)
  <2>1. Typed'
    BY <1>0, <1>2, RecvTyped
  <2>2. ASSUME NEW c \in Agents PROVE Stream(c)'
    BY <1>0, <1>2, <2>1, RecvStream DEF Streams
  <2> QED BY <2>1, <2>2 DEF PlexerInv, Streams
<1>3. CASE enqueue_chunk(a)
  <2>1. UNCHANGED history
    BY <1>3 DEF enqueue_chunk
  <2>2. Typed'
    BY <1>0, <1>3, EnqueueTyped
  <2>3. \A c \in Agents : Carries(c)
    BY <1>0, <1>3, <2>2, EnqueueCarries
  <2> QED BY <1>0, <2>1, <2>2, <2>3, CarriedOn DEF PlexerInv
<1>4. CASE DropAgent(a)
  <2>1. UNCHANGED history
    BY <1>4 DEF DropAgent
  <2>2. Typed'
    BY <1>0, <1>4, DropTyped
  <2>3. \A c \in Agents : Carries(c)
    BY <1>0, <1>4, <2>2, DropCarries
  <2> QED BY <1>0, <2>1, <2>2, <2>3, CarriedOn DEF PlexerInv
<1> QED BY <1>1, <1>2, <1>3, <1>4 DEF Agent

LEMMA PlexerInvStep == PlexerInv /\ [Next]_vars => PlexerInv'
<1> SUFFICES ASSUME PlexerInv, [Next]_vars PROVE PlexerInv'
  OBVIOUS
<1>1. CASE \E e \in Ends : Task(e) \/ abort(e)
  BY <1>1, TaskStep
<1>2. CASE \E a \in Subscribed : Agent(a) \/ DropAgent(a)
  BY <1>2, AgentStep
<1>3. CASE UNCHANGED vars
  <2>0. /\ UNCHANGED <<scene, sent, got, turn, chunks, temp, ingress, muxing, wire, demuxing>>
        /\ UNCHANGED <<running, egress>> /\ Typed /\ Streams
    BY <1>3 DEF vars, history, agentVars, taskVars, PlexerInv
  <2>1. ASSUME NEW a \in Agents PROVE AgentTyped(a)'
    BY <2>0, AgentTypedKept DEF Typed
  <2>2. ASSUME NEW e \in Ends PROVE EndTyped(e)'
    BY <2>0, EndTypedKept DEF Typed
  <2>3. Typed'
    BY <2>0, <2>1, <2>2 DEF Typed
  <2>4. ASSUME NEW c \in Agents PROVE Carries(c)
    <3>1. /\ Held(Counterpart(c))' = Held(Counterpart(c)) /\ Heard(c)' = Heard(c)
      BY <2>0 DEF Held, Heard, Subscribed
    <3>2. OnBearer(c)' = OnBearer(c)
      BY <2>0, BearerKept
    <3> QED BY <2>0, <2>3, <3>1, <3>2, ClosingCarries
  <2> QED BY <2>0, <2>3, <2>4, CarriedOn DEF PlexerInv, history
<1> QED BY <1>1, <1>2, <1>3 DEF Next

LEMMA PlexerInvAlways == Spec => []PlexerInv
BY PlexerInvInit, PlexerInvStep, PTL DEF Spec

(* The queues of the multiplexer hold what their readers expect, and never *)
(* more than their capacity: the ingress queue and the egress queues are   *)
(* bounded channels, and a segment in the demuxer's hand has the id of a   *)
(* protocol.                                                               *)
THEOREM PlexerTypeSafe == Spec => []TypeOK
<1>1. PlexerInv => TypeOK
  <2> SUFFICES ASSUME Typed PROVE TypeOK
    BY DEF PlexerInv
  <2>1. ASSUME NEW e \in Ends
        PROVE  /\ Len(ingress[e]) <= QueueSize /\ running[e] \subseteq {"mux", "demux"}
               /\ demuxing[e] # <<>> => demuxing[e][1] \in Ids
    <3>1. demuxing[e] # <<>> => demuxing[e] \in Payload
      BY DEF Typed
    <3>2. Len(ingress[e]) <= QueueSize
      BY DEF Typed, EndTyped
    <3>3. running[e] \subseteq {"mux", "demux"}
      BY DEF Typed, Tasks
    <3> QED BY <3>1, <3>2, <3>3 DEF Payload
  <2>2. ASSUME NEW a \in Agents PROVE Len(egress[a]) <= QueueSize
    BY DEF Typed, AgentTyped
  <2> QED BY <2>1, <2>2 DEF Typed, TypeOK, AgentStates
<1> QED BY <1>1, PlexerInvAlways, PTL

-----------------------------------------------------------------------------
(* Between, which lines up what is on the way, is the invariant's Pipe.    *)

Regroups(h, i, w, m, y, k) ==
  ((((h \o i) \o w) \o m) \o y) \o k = h \o (i \o (w \o (m \o (y \o k))))

LEMMA Regrouped == \A h, i, w, m, y, k \in Seq(Bytes) : Regroups(h, i, w, m, y, k)
<1>1. SUFFICES ASSUME NEW h, NEW i, NEW w, NEW m, NEW y, NEW k,
                      h \in Seq(Bytes) /\ i \in Seq(Bytes) /\ w \in Seq(Bytes),
                      m \in Seq(Bytes) /\ y \in Seq(Bytes) /\ k \in Seq(Bytes)
               PROVE  Regroups(h, i, w, m, y, k)
  OBVIOUS
<1>h. h \in Seq(Bytes) BY <1>1
<1>i. i \in Seq(Bytes) BY <1>1
<1>w. w \in Seq(Bytes) BY <1>1
<1>m. m \in Seq(Bytes) BY <1>1
<1>y. y \in Seq(Bytes) BY <1>1
<1>k. k \in Seq(Bytes) BY <1>1
<1> DEFINE a == h \o i
<1> DEFINE b == a \o w
<1> DEFINE c == b \o m
<1> DEFINE yk == y \o k
<1> DEFINE mk == m \o yk
<1> DEFINE wk == w \o mk
<1>2. a \in Seq(Bytes)
  BY <1>h, <1>i, ConcatProperties
<1>3. yk \in Seq(Bytes)
  BY <1>y, <1>k, ConcatProperties
<1> HIDE DEF a, yk
<1>4. b \in Seq(Bytes)
  BY <1>2, <1>w, ConcatProperties
<1>5. mk \in Seq(Bytes)
  BY <1>3, <1>m, ConcatProperties
<1> HIDE DEF b, mk
<1>6. c \in Seq(Bytes)
  BY <1>4, <1>m, ConcatProperties
<1>7. wk \in Seq(Bytes)
  BY <1>5, <1>w, ConcatProperties
<1> HIDE DEF c, wk
<1>8. (c \o y) \o k = c \o (y \o k)
  BY <1>6, <1>y, <1>k, ConcatAssociative
<1>9. (b \o m) \o yk = b \o (m \o yk)
  BY <1>4, <1>m, <1>3, ConcatAssociative
<1>10. (a \o w) \o mk = a \o (w \o mk)
  BY <1>2, <1>w, <1>5, ConcatAssociative
<1>11. (h \o i) \o wk = h \o (i \o wk)
  BY <1>h, <1>i, <1>7, ConcatAssociative
<1>12. (c \o y) \o k = b \o mk
  BY <1>8, <1>9 DEF c, yk, mk
<1>13. (c \o y) \o k = a \o wk
  BY <1>10, <1>12 DEF b, wk
<1>14. (c \o y) \o k = h \o (i \o wk)
  BY <1>11, <1>13 DEF a
<1> QED BY <1>14 DEF Regroups, a, b, c, wk, mk, yk

Separates(a, h, i, w, m, y, k) ==
  OfSender(a, ((((h \o i) \o w) \o m) \o y) \o k)
    = ((((OfSender(a, h) \o OfSender(a, i)) \o OfSender(a, w)) \o OfSender(a, m))
         \o OfSender(a, y)) \o OfSender(a, k)

LEMMA Separated ==
  ASSUME NEW a, NEW h \in Seq(Items), NEW i \in Seq(Items), NEW w \in Seq(Items),
         NEW m \in Seq(Items), NEW y \in Seq(Items), NEW k \in Seq(Items)
  PROVE  Separates(a, h, i, w, m, y, k)
<1> DEFINE p == h \o i
<1> DEFINE q == p \o w
<1> DEFINE r == q \o m
<1> DEFINE s == r \o y
<1>1. p \in Seq(Items) /\ OfSender(a, p) = OfSender(a, h) \o OfSender(a, i)
  BY ConcatProperties, OfConcat
<1> HIDE DEF p
<1>2. q \in Seq(Items) /\ OfSender(a, q) = OfSender(a, p) \o OfSender(a, w)
  <2>1. p \in Seq(Items)
    BY <1>1
  <2> QED BY <2>1, ConcatProperties, OfConcat
<1> HIDE DEF q
<1>3. r \in Seq(Items) /\ OfSender(a, r) = OfSender(a, q) \o OfSender(a, m)
  <2>1. q \in Seq(Items)
    BY <1>2
  <2> QED BY <2>1, ConcatProperties, OfConcat
<1> HIDE DEF r
<1>4. s \in Seq(Items) /\ OfSender(a, s) = OfSender(a, r) \o OfSender(a, y)
  <2>1. r \in Seq(Items)
    BY <1>3
  <2> QED BY <2>1, ConcatProperties, OfConcat
<1> HIDE DEF s
<1>5. OfSender(a, s \o k) = OfSender(a, s) \o OfSender(a, k)
  <2>1. s \in Seq(Items)
    BY <1>4
  <2> QED BY <2>1, OfConcat
<1>6. s \o k = ((((h \o i) \o w) \o m) \o y) \o k
  BY DEF s, r, q, p
<1> QED BY <1>1, <1>2, <1>3, <1>4, <1>5, <1>6 DEF Separates

LEMMA BetweenIsPipe ==
  ASSUME Typed, NEW a \in Agents, Intact(a)
  PROVE  Between(a, Counterpart(a)) = Pipe(a)
<1> DEFINE b == Counterpart(a)
<1>1. b \in Agents /\ Counterpart(b) = a /\ b.end = Other(a.end) /\ PipeTyped(a) /\ PipeTyped(b)
  BY CounterpartFacts, PipesTyped
<1> DEFINE h == Held(b)
<1> DEFINE i == InHand(Other(a.end))
<1> DEFINE w == wire[a.end]
<1> DEFINE m == muxing[a.end]
<1> DEFINE y == Payloads(ingress[a.end])
<1> DEFINE k == FlattenSeq(chunks[a])
<1>2. /\ i \in Seq(Items) /\ w \in Seq(Items) /\ m \in Seq(Items) /\ y \in Seq(Items)
      /\ h \in Seq(Bytes) /\ k \in Seq(Bytes) /\ k \in Seq(OwnBytes(a))
  BY <1>1 DEF PipeTyped
<1>3. h \in Seq(OwnBytes(a))
  <2>1. temp[b] \in Seq(OwnBytes(a)) /\ egress[b] \in Seq(Chunk(a))
    BY <1>1 DEF Typed, AgentTyped
  <2>2. FlattenSeq(egress[b]) \in Seq(OwnBytes(a))
    BY <2>1, ChunkFacts
  <2> QED BY <2>1, <2>2, ConcatProperties DEF Held
<1>4. Between(a, b) = OfSender(a, ((((h \o i) \o w) \o m) \o y) \o k)
  BY <1>1 DEF Between, Held, InHand
<1>5. Pipe(a) = h \o (OfSender(a, i) \o (OfSender(a, w) \o (OfSender(a, m) \o (OfSender(a, y) \o k))))
  BY DEF Intact, Pipe, ToRead, OnBearer, ToWrite, Queued
<1>6. OfSender(a, h) = h /\ OfSender(a, k) = k
  BY <1>2, <1>3, OfOwn
<1>7. /\ OfSender(a, i) \in Seq(Bytes) /\ OfSender(a, w) \in Seq(Bytes)
      /\ OfSender(a, m) \in Seq(Bytes) /\ OfSender(a, y) \in Seq(Bytes)
  BY <1>2, OfType
<1>8. h \in Seq(Items) /\ k \in Seq(Items)
  BY <1>2, BytesAreItems
<1> HIDE DEF h, i, w, m, y, k
<1>9. Separates(a, h, i, w, m, y, k)
  BY <1>2, <1>8, Separated
<1>10. Regroups(h, OfSender(a, i), OfSender(a, w), OfSender(a, m), OfSender(a, y), k)
  <2>1. h \in Seq(Bytes) /\ k \in Seq(Bytes)
    BY <1>2
  <2> QED BY <1>7, <2>1, Regrouped
<1> QED BY <1>4, <1>5, <1>6, <1>9, <1>10 DEF Regroups, Separates

(* As long as no task or agent ended, every byte an agent gave to          *)
(* send_msg_chunks was received by its counterpart or is on the way to it, *)
(* in the order of the sending: in the agent's chunks, the ingress queue   *)
(* shared by all agents of its end, the muxer's hand, the bearer, the      *)
(* demuxer's hand, the egress queue or the ChannelBuffer.  Whatever the    *)
(* number of protocols, the sizes and the capacities are.                  *)
THEOREM PlexerLosesNothing == Spec => []NothingLost
<1>1. PlexerInv => NothingLost
  <2> SUFFICES ASSUME PlexerInv, Undisturbed, NEW a \in Subscribed, Counterpart(a) \in Subscribed
               PROVE  BytesOf(sent[a])
                        = BytesOf(got[Counterpart(a)]) \o Between(a, Counterpart(a))
    BY DEF NothingLost
  <2>1. Typed /\ a \in Agents /\ Stream(a)
    BY SubscribedFacts DEF PlexerInv, Streams, Typed
  <2>2. a.end \in Ends /\ Other(a.end) \in Ends
    BY <2>1, CounterpartFacts, EndFacts
  <2>3. Intact(a)
    <3>1. turn[Counterpart(a)] # "dropped" /\ turn[a] # "dropped"
      BY DEF Undisturbed
    <3>2. running[a.end] = {"mux", "demux"} /\ running[Other(a.end)] = {"mux", "demux"}
      BY <2>2 DEF Undisturbed
    <3> QED BY <3>1, <3>2 DEF Intact, Heard, Closed
  <2>4. BytesOf(sent[a]) = BytesOf(got[Counterpart(a)]) \o (Pipe(a) \o <<>>)
    BY <2>1, <2>3 DEF Stream
  <2>5. Pipe(a) \in Seq(Bytes)
    BY <2>1, PipesTyped DEF PipeTyped
  <2>6. Pipe(a) \o <<>> = Pipe(a)
    BY <2>5, ConcatEmptySeq
  <2> QED BY <2>1, <2>3, <2>4, <2>6, BetweenIsPipe
<1> QED BY <1>1, PlexerInvAlways, PTL

-----------------------------------------------------------------------------
(* The refinement: what a step does to the history is a step of the        *)
(* abstract channels, or none.                                             *)

LEMMA SendAccepts ==
  ASSUME Typed, NEW a \in Subscribed, send_msg_chunks(a) \/ SendPacked(a)
  PROVE  a \in Agents /\ Channels!Accept(a)
<1>1. a \in Agents /\ UNCHANGED got
  BY SendFacts
<1>2. PICK more \in Seq(AllMessages) : more # <<>> /\ sent' = [sent EXCEPT ![a] = @ \o more]
  BY SendFacts
<1>3. sent[a] \in Seq(AllMessages) /\ sent'[a] = sent[a] \o more
  BY <1>1, <1>2 DEF Typed
<1>4. IsPrefix(sent[a], sent[a] \o more)
  BY <1>3, ConcatIsPrefix
<1>5. sent[a] # sent[a] \o more
  <2>1. Len(sent[a] \o more) = Len(sent[a]) + Len(more) /\ Len(sent[a]) \in Nat
    BY <1>3, ConcatProperties
  <2>2. Len(more) \in Nat \ {0}
    BY <1>2
  <2> QED BY <2>1, <2>2
<1>6. sent' = [sent EXCEPT ![a] = sent'[a]]
  BY <1>1, <1>2, <1>3 DEF Typed
<1> QED BY <1>1, <1>3, <1>4, <1>5, <1>6
        DEF Channels!Accept, Channels!IsStrictPrefix, Channels!IsPrefix, IsPrefix

(* What was received is a beginning of what the counterpart sent.          *)
LEMMA ReceivedWasSent ==
  PlexerInv => \A b \in Agents : IsPrefix(got[b], sent[Counterpart(b)])
<1> SUFFICES ASSUME PlexerInv, NEW b \in Agents PROVE IsPrefix(got[b], sent[Counterpart(b)])
  OBVIOUS
<1> DEFINE a == Counterpart(b)
<1>1. a \in Agents /\ Counterpart(a) = b
  BY CounterpartFacts
<1>2. sent[a] \in Seq(AllMessages) /\ got[b] \in Seq(AllMessages) /\ PipeTyped(a)
  BY <1>1, PipesTyped DEF PlexerInv, Typed
<1>3. PICK lost \in Seq(Bytes) : BytesOf(sent[a]) = BytesOf(got[b]) \o (Pipe(a) \o lost)
  BY <1>1 DEF PlexerInv, Streams, Stream
<1>4. Pipe(a) \o lost \in Seq(Bytes)
  BY <1>2, BytesConcat DEF PipeTyped
<1>5. PICK t \in Seq(AllMessages) : sent[a] = got[b] \o t
  BY <1>2, <1>3, <1>4, DecodedOnce
<1> QED BY <1>2, <1>5, ConcatIsPrefix

LEMMA ReceivedWasSentNext ==
  PlexerInv' => \A b \in Agents : IsPrefix(got'[b], sent'[Counterpart(b)])
<1>1. (PlexerInv => \A b \in Agents : IsPrefix(got[b], sent[Counterpart(b)]))'
  BY ReceivedWasSent, PTL
<1> QED BY <1>1 DEF IsPrefix

LEMMA RecvDelivers ==
  ASSUME PlexerInv, PlexerInv', NEW b \in Subscribed, recv_full_msg(b)
  PROVE  b \in Agents /\ (Channels!Deliver(b) \/ UNCHANGED <<sent, got>>)
<1>0. Typed
  BY DEF PlexerInv
<1>1. b \in Agents /\ UNCHANGED sent
  BY <1>0, RecvFacts
<1>2. UNCHANGED got \/ \E m \in AllMessages : got' = [got EXCEPT ![b] = Append(@, m)]
  <2>1. PICK buffer : RecvOutcome(b, buffer)
    BY <1>0, RecvFacts
  <2> QED BY <2>1 DEF RecvOutcome
<1>3. CASE \E m \in AllMessages : got' = [got EXCEPT ![b] = Append(@, m)]
  <2>1. PICK m \in AllMessages : got' = [got EXCEPT ![b] = Append(@, m)]
    BY <1>3
  <2>2. got[b] \in Seq(AllMessages) /\ got'[b] = Append(got[b], m)
    BY <1>0, <1>1, <2>1 DEF Typed
  <2>3. got'[b] = got[b] \o <<m>> /\ <<m>> \in Seq(AllMessages)
    BY <2>2, AppendIsConcat
  <2>4. IsPrefix(got[b], got'[b])
    BY <2>2, <2>3, ConcatIsPrefix
  <2>5. got[b] # got'[b]
    <3>1. Len(got'[b]) = Len(got[b]) + 1 /\ Len(got[b]) \in Nat
      BY <2>2
    <3> QED BY <3>1
  <2>6. IsPrefix(got'[b], sent[Counterpart(b)])
    BY <1>1, ReceivedWasSentNext
  <2>7. got' = [got EXCEPT ![b] = got'[b]]
    BY <1>0, <1>1, <2>1, <2>2 DEF Typed
  <2> QED BY <1>1, <2>4, <2>5, <2>6, <2>7
          DEF Channels!Deliver, Channels!IsStrictPrefix, Channels!IsPrefix, IsPrefix
<1> QED BY <1>1, <1>2, <1>3

(* The multiplexer implements the channels of MessageChannels: each agent  *)
(* receives exactly the messages its counterpart sent, whole, once and in  *)
(* order, for any number of protocols sharing the bearer, any message and  *)
(* segment sizes, any bounds of the queues, and whenever a plexer is       *)
(* aborted or an agent dropped.                                            *)
THEOREM PlexerDelivers == Spec => Delivery
<1>1. Init => Channels!ChannelInit
  BY DEF Init, Channels!ChannelInit
<1>2. PlexerInv /\ PlexerInv' /\ [Next]_vars => [Channels!ChannelNext]_(Channels!channelVars)
  <2> SUFFICES ASSUME PlexerInv, PlexerInv', [Next]_vars
               PROVE  Channels!ChannelNext \/ UNCHANGED <<sent, got>>
    BY DEF Channels!channelVars
  <2>1. CASE \E e \in Ends : Task(e) \/ abort(e)
    <3>1. UNCHANGED history
      BY <2>1, TaskStep
    <3> QED BY <3>1 DEF history
  <2>2. CASE \E a \in Subscribed : send_msg_chunks(a) \/ SendPacked(a)
    <3>1. Typed
      BY DEF PlexerInv
    <3> QED BY <2>2, <3>1, SendAccepts DEF Channels!ChannelNext
  <2>3. CASE \E a \in Subscribed : recv_full_msg(a)
    BY <2>3, RecvDelivers DEF Channels!ChannelNext
  <2>4. CASE \E a \in Subscribed : enqueue_chunk(a) \/ DropAgent(a)
    BY <2>4 DEF enqueue_chunk, DropAgent, history
  <2>5. CASE UNCHANGED vars
    BY <2>5 DEF vars, history
  <2> QED BY <2>1, <2>2, <2>3, <2>4, <2>5 DEF Next, Agent
<1> QED BY <1>1, <1>2, PlexerInvAlways, PTL DEF Spec, Delivery, Channels!ChannelSpec
=============================================================================
