-------------------------------- MODULE Cbor --------------------------------
(***************************************************************************)
(* CBOR as the crates of pallas write it and read it.                      *)
(*                                                                         *)
(* A byte string on the wire is a sequence of tokens, one per CBOR head    *)
(* with its argument; a token <<"raw", n>> inside a byte string stands for *)
(* up to ChunkSize bytes of opaque content.  A codec (a pair of Encode and *)
(* Decode implementations) is a record whose field "is" says which         *)
(* combinator built it; the modules named ...Codecs hold one codec per     *)
(* type of the repository, and Write, Read and Samples below give them     *)
(* their meaning.                                                          *)
(*                                                                         *)
(* Every value is a pair whose first component is a string: the token of a *)
(* scalar, <<name, fields>> of a variant, <<"list", elements>> of a        *)
(* sequence.  A reader answers Good, Short (the input ended first,         *)
(* minicbor's is_end_of_input) or Bad (any other error).                   *)
(***************************************************************************)
EXTENDS Integers, Sequences, FiniteSets, SequencesExt

\* The largest value of each width; the two wide ones are scaled to TLC's
\* integers, which keeps their order.
MaxU8  == 255
MaxU16 == 65535
MaxU32 == 2^24 - 1
MaxU64 == 2^30 - 1

\* The function as a tuple, each of its values computed once.
Tupled(f) == f \o <<>>

Num(n) == IF n < 0 THEN <<"nint", n>> ELSE <<"uint", n>>
Header(n) == <<"array", n>>
Break == <<"break", 0>>
Null == <<"null", 0>>
Undefined == <<"undefined", 0>>
Absent == <<"absent", 0>>

-----------------------------------------------------------------------------
(* The codecs of minicbor itself. *)

UInt(max) == [is |-> "uint", max |-> max]
U8  == UInt(MaxU8)
U16 == UInt(MaxU16)
U32 == UInt(MaxU32)
U64 == UInt(MaxU64)
SInt == [is |-> "sint"]
Bool == [is |-> "token", kinds |-> {"bool"},
         some |-> <<<<"bool", 0>>, <<"bool", 1>>>>]
Text == [is |-> "token", kinds |-> {"text"}, some |-> <<<<"text", 1>>>>]
\* d.bytes(): a byte string of definite length, as the hashes are.
Blob == [is |-> "token", kinds |-> {"bytes"},
         some |-> <<<<"bytes", <<<<"raw", 1>>>>>>>>]
Unit == [is |-> "token", kinds |-> {"null"}, some |-> <<Null>>]

\* Vec<T>: a definite array is written, either form is read.
List(of) == [is |-> "list", of |-> of, open |-> FALSE, kept |-> FALSE]
\* begin_array .. end: the same type written with an open header.
OpenList(of) == [List(of) EXCEPT !.open = TRUE]
\* BTreeMap and HashMap: of two entries with one key the later is kept.  The
\* order of the keys is not modelled.
Map(key, val) == [is |-> "map", key |-> key, val |-> val,
                  open |-> FALSE, kept |-> FALSE, dups |-> FALSE,
                  heads |-> {"map", "map*"}]
OpenMap(key, val) == [Map(key, val) EXCEPT !.open = TRUE]
\* A map whose reader wants the number of its entries.
DefMap(key, val) == [Map(key, val) EXCEPT !.heads = {"map"}]
\* Vec<(K, V)> read from a map: duplicates are kept.
PairMap(key, val) == [Map(key, val) EXCEPT !.dups = TRUE]
\* Option<T>: null stands for None.
Option(of) == [is |-> "option", of |-> of, nulls |-> {Null}]

\* A struct with derived codecs: an array whose length the reader honours,
\* with absent trailing options and unknown trailing items skipped.
Record(fields) == [is |-> "record", fields |-> fields]
\* A struct derived with cbor(map); `fields` is a sequence of Key's.
Keyed(fields) == [is |-> "keyed", fields |-> fields]
Key(n, of) == [n |-> n, of |-> of]
\* A hand-written tuple: array(n), then the fields; the reader takes any
\* header, ignores its length and never looks for a closing break.
TupleN(n, fields) == [is |-> "tuple", n |-> n, fields |-> fields]
Tuple(fields) == TupleN(Len(fields), fields)

\* A sum type: a label after the header selects the fields.  The header
\* written counts the fields that write something.
Case(label, name, fields) ==
    [n |-> label, name |-> name, fields |-> fields, size |-> Len(fields) + 1,
     exact |-> FALSE, peek |-> FALSE]
\* A case that shares its label with another and is told by its length.
CaseExact(label, name, fields) ==
    [Case(label, name, fields) EXCEPT !.exact = TRUE]
\* A case taken when an array follows its label in the input.
CasePeek(label, name, fields) ==
    [Case(label, name, fields) EXCEPT !.peek = TRUE]
\* A case written under a header of another size.
CaseSized(size, label, name, fields) ==
    [Case(label, name, fields) EXCEPT !.size = size]
\* Hand-written: the header is read and ignored.
Variant(cases) == [is |-> "variant", cases |-> cases, derived |-> FALSE]
\* Derived with cbor(flat): the header's length is honoured.
Flat(cases) == [Variant(cases) EXCEPT !.derived = TRUE]
\* Derived with cbor(index_only): a bare label.
Index(cases) == [is |-> "index", cases |-> cases]
\* A label and its fields in a row, without a header.
Labelled(cases) == [is |-> "labelled", cases |-> cases]
\* Told apart by the length of a definite array.
ByLength(cases) == [is |-> "length", cases |-> cases]
OfLength(n, name, fields) ==
    [n |-> n, name |-> name, fields |-> fields, else |-> FALSE]
\* Written with n items, read under any header no earlier case claims.
OtherLength(n, name, fields) == [OfLength(n, name, fields) EXCEPT !.else = TRUE]
\* A tuple of minicbor: an array of exactly that length.
Exactly(fields) == ByLength(<<OfLength(Len(fields), "tuple", fields)>>)
\* Told apart by the type of the next item (d.datatype()).
ByType(cases) == [is |-> "type", cases |-> cases]
OfType(kinds, name, of) ==
    [kinds |-> kinds, tags |-> Int, name |-> name, of |-> of]
OfTag(tags, name, of) == [OfType({"tag"}, name, of) EXCEPT !.tags = tags]

Arrays == {"array", "array*"}
Maps   == {"map", "map*"}
UInts  == {"uint", "wide"}
Ints   == UInts \cup {"nint"}

\* e.tag(n): the reader takes any tag (d.tag()?), or checks it.
Tagged(n, of) == [is |-> "tagged", n |-> n, of |-> of, only |-> FALSE]
TaggedOnly(n, of) == [Tagged(n, of) EXCEPT !.only = TRUE]
\* Two layouts, one written and the other read; `some` has the values.
Sided(enc, dec) == [is |-> "sided", enc |-> enc, dec |-> dec, some |-> enc]
\* An array of one around a value.
Boxed(of) == [is |-> "boxed", of |-> of, only |-> FALSE]
\* The entries of a map as an array of pairs, under the header of a map.
PairList(key, val) == [is |-> "pairs", key |-> key, val |-> val]
\* Items in a row, arranged by the reader: one pair of their indices for each
\* pair of the value.
Arranged(fields, pairs) == [is |-> "arranged", fields |-> fields, pairs |-> pairs]
\* A map read whole into a field for each of the keys below n and one for the
\* other entries, <<"models", <<known, unknown>>>>; the derived encoder skips
\* the latter.
KnownKeys(n, val) == [is |-> "known", n |-> n, of |-> Map(U64, val)]
\* An array is decoded; any other input is taken whole as plain text, of
\* which only the byte the failed attempt looked at is consumed.
OrText(of) == [is |-> "text", of |-> of]
\* A reader that refuses some of the values it could read.
Unless(of, refused) == [is |-> "unless", of |-> of, refused |-> refused]
\* A sequence, tagged or not, told by the type of its first element.
ByElement(cases) == [is |-> "element", cases |-> cases]
\* Fields in a row with no header of their own.
Inline(fields) == [is |-> "inline", fields |-> fields]

-----------------------------------------------------------------------------
(* The wrappers of pallas-codec. *)

\* utils.rs, MaybeIndefArray: the form read is the form written.
MaybeIndefArray(of) == [List(of) EXCEPT !.kept = TRUE]
\* KeyValuePairs (and NonEmptyKeyValuePairs, whose check is commented out):
\* order, duplicates and the form of the header are kept.
KeyValuePairs(key, val) == [Map(key, val) EXCEPT !.kept = TRUE, !.dups = TRUE]
\* OrderPreservingProperties: an open map is read as an empty one.
OrderPreservingProperties(of) == [is |-> "properties", of |-> of]
\* Set and NonEmptySet: tag 258 is optional for the reader, never for the
\* writer.
TAG_SET == 258
Set(of) == [is |-> "set", of |-> List(of)]
Nullable(of) == [is |-> "option", of |-> of, nulls |-> {Null, Undefined}]
\* ZeroOrOneArray, and SMaybe of localtxsubmission.
ZeroOrOneArray(of) ==
    ByLength(<<OfLength(0, "None", <<>>), OfLength(1, "Some", <<of>>)>>)
\* AnyUInt: the width read is the width written.
AnyUInt == [is |-> "token", kinds |-> UInts,
            some |-> <<Num(1), <<"wide", 1>>>>]
NonZeroInt == Unless(SInt, {Num(0)})
\* decode_bytes_def_or_indef: chunks are joined; Bytes are written whole.
Bytes == [is |-> "bytes", chunked |-> FALSE]
\* BoundedBytes: a content of more than one chunk is written in chunks.
BoundedBytes == [is |-> "bytes", chunked |-> TRUE]
\* EmptyMap: an empty map is written, any item is read.
EmptyMap == [is |-> "skip"]
\* AnyCbor: one item, kept as it is.
AnyCbor == [is |-> "item"]
\* AnyCbor::into_decode: one item, decoded later on.
AnyCborOf(of) == [is |-> "typed", of |-> of]
\* CborWrap: tag 24 and the encoding of the value as a byte string.
CborWrap(of) == [is |-> "wrap", of |-> of]
TagWrap(n, of) == Tagged(n, of)
\* KeepRaw: the value with the bytes it was read from.
KeepRaw(of) == [is |-> "keep", of |-> of]

-----------------------------------------------------------------------------
(* Writing.  A style is what a writer may choose: `raw` whether a KeepRaw   *)
(* writes the bytes it holds, `open` whether sequences without a form of    *)
(* their own are written with open headers, `tags` whether sets are tagged, *)
(* `own` whether a type that is not written as it is read is written by the *)
(* crate's encoder or, by another program, as the crate's decoder reads it. *)

Own == [raw |-> TRUE, open |-> FALSE, tags |-> TRUE, own |-> TRUE]
Fresh == [Own EXCEPT !.raw = FALSE]

CaseNamed(cases, name) == SelectSeq(cases, LAMBDA c : c.name = name)[1]

RECURSIVE Write(_, _, _)
WriteEach(codecs, vs, style) ==
    FlattenSeq(Tupled([i \in 1..Len(vs) |-> Write(codecs[i], vs[i], style)]))
WriteAll(of, vs, style) ==
    FlattenSeq(Tupled([i \in 1..Len(vs) |-> Write(of, vs[i], style)]))

\* The last field of a derived struct that is there; later ones are elided.
LastPresent(vs) ==
    CHOOSE i \in 0..Len(vs) : /\ i > 0 => vs[i] # Absent
                              /\ \A j \in i+1..Len(vs) : vs[j] = Absent

WriteFields(codecs, vs, style) ==
    FlattenSeq([i \in 1..LastPresent(vs) |->
        IF vs[i] = Absent THEN <<Null>> ELSE Write(codecs[i], vs[i], style)])

Entries(s, vs, style) ==
    FlattenSeq([i \in 1..Len(vs) |-> Write(s.key, vs[i][1], style)
                                       \o Write(s.val, vs[i][2], style)])

\* Elements under a header of the form the value or the style asks for.
Enclosed(kind, open, n, toks) ==
    IF open THEN <<<<kind \o "*", 0>>>> \o toks \o <<Break>>
            ELSE <<<<kind, n>>>> \o toks

\* The items of an inline value, and of an arranged one.
InRow(s, v) ==
    LET at(k) == CHOOSE ij \in (1..Len(s.pairs)) \X (1..2) : s.pairs[ij[1]][ij[2]] = k
        item(k) == v[2][at(k)[1]][2][at(k)[2]]
    IN  IF s.is = "inline" THEN v[2] ELSE Tupled([k \in 1..Len(s.fields) |-> item(k)])

\* What is written of a value: of a map with known keys, those.
Written(s, v, style) ==
    IF s.is = "unless" THEN v
    ELSE <<"map", v[2][1][2] \o (IF style.own THEN <<>> ELSE v[2][2][2])>>

Write(s, v, style) ==
  CASE s.is \in {"uint", "sint", "token"} -> <<v>>
    [] s.is = "item" -> v[2]
    [] s.is = "skip" -> <<<<"map", 0>>>>
    [] s.is = "bytes" ->
         IF s.chunked /\ Len(v[2]) > 1
         THEN <<<<"bytes*", 0>>>>
                \o [i \in 1..Len(v[2]) |-> <<"bytes", <<v[2][i]>>>>] \o <<Break>>
         ELSE <<v>>
    [] s.is = "option" ->
         IF v = Absent THEN <<Null>>
         ELSE IF v \in s.nulls THEN <<v>> ELSE Write(s.of, v, style)
    [] s.is \in {"inline", "arranged"} -> WriteEach(s.fields, InRow(s, v), style)
    [] s.is = "tuple" -> <<Header(s.n)>> \o WriteEach(s.fields, v[2], style)
    [] s.is = "record" ->
         <<Header(LastPresent(v[2]))>> \o WriteFields(s.fields, v[2], style)
    [] s.is = "keyed" ->
         LET there == {i \in 1..Len(v[2]) : v[2][i] # Absent}
             entry(i) == IF i \in there
                         THEN <<Num(s.fields[i].n)>>
                                \o Write(s.fields[i].of, v[2][i], style)
                         ELSE <<>>
         IN  <<<<"map", Cardinality(there)>>>>
               \o FlattenSeq([i \in 1..Len(v[2]) |-> entry(i)])
    [] s.is = "variant" ->
         LET c == CaseNamed(s.cases, v[1])
         IN  IF s.derived
             THEN <<Header(LastPresent(v[2]) + 1), Num(c.n)>>
                    \o WriteFields(c.fields, v[2], style)
             ELSE LET parts == Tupled([i \in 1..Len(v[2]) |->
                                          Write(c.fields[i], v[2][i], style)])
                      none == Cardinality({i \in 1..Len(parts) : parts[i] = <<>>})
                  IN  <<Header(c.size - none), Num(c.n)>> \o FlattenSeq(parts)
    [] s.is = "index" -> <<Num(CaseNamed(s.cases, v[1]).n)>>
    [] s.is = "labelled" ->
         LET c == CaseNamed(s.cases, v[1])
         IN  <<Num(c.n)>> \o WriteEach(c.fields, v[2], style)
    [] s.is = "length" ->
         LET c == CaseNamed(s.cases, v[1])
         IN  <<Header(c.n)>> \o WriteEach(c.fields, v[2], style)
    [] s.is \in {"type", "element"} ->
         Write(CaseNamed(s.cases, v[1]).of, v[2][1], style)
    [] s.is \in {"unless", "known"} -> Write(s.of, Written(s, v, style), style)
    [] s.is = "list" ->
         Enclosed("array",
                  IF s.kept THEN v[1] = "list*" ELSE s.open \/ style.open,
                  Len(v[2]), WriteAll(s.of, v[2], style))
    [] s.is = "map" ->
         Enclosed("map",
                  IF s.kept THEN v[1] = "map*" ELSE s.open \/ style.open,
                  Len(v[2]), Entries(s, v[2], style))
    [] s.is = "properties" ->
         <<<<"map", Len(v[2])>>>> \o WriteAll(s.of, v[2], style)
    [] s.is = "set" ->
         (IF style.tags THEN <<<<"tag", TAG_SET>>>> ELSE <<>>)
           \o Write(s.of, v, style)
    [] s.is = "typed" -> Write(s.of, v, style)
    [] s.is = "text" -> IF v[1] = "Text" THEN v[2] ELSE Write(s.of, v, style)
    [] s.is \in {"tagged", "boxed"} ->
         <<IF s.is = "tagged" THEN <<"tag", s.n>> ELSE Header(1)>> \o Write(s.of, v, style)
    [] s.is = "wrap" -> <<<<"tag", 24>>, <<"bytes", Write(s.of, v, style)>>>>
    [] s.is = "keep" ->
         IF style.raw /\ v[2][2] # <<>> THEN v[2][2]
                                        ELSE Write(s.of, v[2][1], style)
    [] s.is = "sided" -> Write(IF style.own THEN s.enc ELSE s.dec, v, style)
    [] s.is = "pairs" ->
         <<<<"map", Len(v[2])>>, Header(Len(v[2]))>>
           \o FlattenSeq(Tupled([i \in 1..Len(v[2]) |->
                <<Header(2)>> \o WriteEach(<<s.key, s.val>>, v[2][i], style)]))

-----------------------------------------------------------------------------
(* Reading. *)

Good(v, rest) == [ok |-> "good", v |-> v, rest |-> rest]
Short == [ok |-> "short"]
Bad == [ok |-> "bad"]
Then(r, F(_)) == IF r.ok = "good" THEN F(r) ELSE r

Take(toks, kinds) ==
    IF toks = <<>> THEN Short
    ELSE IF Head(toks)[1] \in kinds THEN Good(Head(toks), Tail(toks)) ELSE Bad

\* d.skip(): one item, whatever it is; the value is what was skipped.
RECURSIVE Skip(_), SkipMany(_, _)
SkipMany(toks, n) ==
    IF n = 0 THEN Good(<<>>, toks)
    ELSE Then(Skip(toks), LAMBDA a :
           Then(SkipMany(a.rest, n - 1), LAMBDA b : Good(a.v \o b.v, b.rest)))
RECURSIVE SkipOpen(_)
SkipOpen(toks) ==
    IF toks = <<>> THEN Short
    ELSE IF Head(toks) = Break THEN Good(<<Break>>, Tail(toks))
    ELSE Then(Skip(toks), LAMBDA a :
           Then(SkipOpen(a.rest), LAMBDA b : Good(a.v \o b.v, b.rest)))
Skip(toks) ==
    IF toks = <<>> THEN Short
    ELSE LET t == Head(toks)
             after(r) == Then(r, LAMBDA x : Good(<<t>> \o x.v, x.rest))
         IN  CASE t[1] = "array" -> after(SkipMany(Tail(toks), t[2]))
               [] t[1] = "map" -> after(SkipMany(Tail(toks), 2 * t[2]))
               [] t[1] = "tag" -> after(SkipMany(Tail(toks), 1))
               [] t[1] \in {"array*", "map*", "bytes*"} -> after(SkipOpen(Tail(toks)))
               [] t[1] = "break" -> Bad
               [] OTHER -> Good(<<t>>, Tail(toks))

Open == -1
RECURSIVE Read(_, _)

\* The codecs one after the other.
RECURSIVE ReadEach(_, _)
ReadEach(codecs, toks) ==
    IF codecs = <<>> THEN Good(<<>>, toks)
    ELSE Then(Read(Head(codecs), toks), LAMBDA a :
           Then(ReadEach(Tail(codecs), a.rest), LAMBDA b :
             Good(<<a.v>> \o b.v, b.rest)))

\* Another element follows (n of them, or up to the break).
AnotherItem(toks, n) == IF n = Open THEN toks # <<>> /\ Head(toks) # Break ELSE n > 0

\* n elements, or elements up to the break.
RECURSIVE ReadItems(_, _, _)
ReadItems(of, toks, n) ==
    IF n = Open /\ toks = <<>> THEN Short
    ELSE IF ~AnotherItem(toks, n)
         THEN Good(<<>>, IF n = Open THEN Tail(toks) ELSE toks)
    ELSE Then(Read(of, toks), LAMBDA a :
           Then(ReadItems(of, a.rest, IF n = Open THEN n ELSE n - 1), LAMBDA b :
             Good(<<a.v>> \o b.v, b.rest)))

\* The fields of a derived struct under a header of n items: the missing
\* ones must be options, the surplus is skipped.
IsOption(s) == s.is = "option" /\ s.nulls = {Null}
RECURSIVE ReadFields(_, _, _)
ReadFields(codecs, toks, n) ==
    IF n = Open /\ toks = <<>> THEN Short
    ELSE IF codecs = <<>> THEN
         Then(IF n = Open THEN SkipOpen(toks) ELSE SkipMany(toks, n),
              LAMBDA a : Good(<<>>, a.rest))
    ELSE IF ~AnotherItem(toks, n) THEN
         IF \A i \in 1..Len(codecs) : IsOption(codecs[i])
         THEN Good(Tupled([i \in 1..Len(codecs) |-> Absent]),
                   IF n = Open THEN Tail(toks) ELSE toks)
         ELSE Bad
    ELSE Then(Read(Head(codecs), toks), LAMBDA a :
           Then(ReadFields(Tail(codecs), a.rest, IF n = Open THEN n ELSE n - 1),
                LAMBDA b : Good(<<a.v>> \o b.v, b.rest)))

\* The entries of a derived map, in any order; `got` holds what was read.
RECURSIVE ReadKeys(_, _, _, _)
ReadKeys(fields, toks, n, got) ==
    IF n = Open /\ toks = <<>> THEN Short
    ELSE IF ~AnotherItem(toks, n) THEN
         IF \A i \in 1..Len(fields) : got[i] = Absent => IsOption(fields[i].of)
         THEN Good(got, IF n = Open THEN Tail(toks) ELSE toks) ELSE Bad
    ELSE Then(Read(SInt, toks), LAMBDA k :
           LET at == {i \in 1..Len(fields) : k.v = Num(fields[i].n)}
               i == CHOOSE j \in at : TRUE
               more(r, vs) == ReadKeys(fields, r.rest,
                                       IF n = Open THEN n ELSE n - 1, vs)
           IN  IF at = {} THEN Then(Skip(k.rest), LAMBDA a : more(a, got))
               ELSE Then(Read(fields[i].of, k.rest), LAMBDA a :
                      more(a, SubSeq(got, 1, i - 1) \o <<a.v>>
                                \o SubSeq(got, i + 1, Len(got)))))

LatestEntries(pairs) ==
    LET latest == {i \in 1..Len(pairs) :
                     \A j \in i+1..Len(pairs) : pairs[j][1] # pairs[i][1]}
    IN  IF Len(pairs) = Cardinality(latest) THEN pairs
        ELSE FlattenSeq(Tupled([i \in 1..Len(pairs) |->
               IF i \in latest THEN <<pairs[i]>> ELSE <<>>]))

\* The pairs of an arranged value, from the items read.
Arrange(s, items) ==
    LET pair(p) == <<"tuple", <<items[p[1]], items[p[2]]>>>>
    IN  <<"tuple", Tupled([i \in 1..Len(s.pairs) |-> pair(s.pairs[i])])>>

\* The entries of a map with a key below n, and the others.
SplitKeys(n, map) ==
    <<"models", <<<<"map", SelectSeq(map[2], LAMBDA e : e[1][2] < n)>>,
                  <<"map", SelectSeq(map[2], LAMBDA e : e[1][2] >= n)>>>>>>

CountOf(t) == IF t[1] \in {"array*", "map*", "bytes*"} THEN Open ELSE t[2]

\* A null read into an option is the same value as a missing one.
ReadOption(s, toks) ==
    IF toks = <<>> THEN Short
    ELSE IF Head(toks) \in s.nulls
         THEN Good(IF s.nulls = {Null} THEN Absent ELSE Head(toks), Tail(toks))
         ELSE Read(s.of, toks)

ReadBytes(toks) ==
    IF toks # <<>> /\ Head(toks)[1] = "bytes*"
    THEN Then(ReadItems(Blob, Tail(toks), Open), LAMBDA a :
           Good(<<"bytes", FlattenSeq([i \in 1..Len(a.v) |-> a.v[i][2]])>>, a.rest))
    ELSE Take(toks, {"bytes"})

ReadVariant(s, toks) ==
    Then(Take(toks, IF s.derived THEN {"array"} ELSE Arrays), LAMBDA h :
      Then(Read(U32, h.rest), LAMBDA k :
        LET found == SelectSeq(s.cases, LAMBDA c :
                        /\ Num(c.n) = k.v
                        /\ c.exact => Header(c.size) = h.v
                        /\ c.peek => k.rest # <<>> /\ Head(k.rest)[1] \in Arrays)
            n == CountOf(h.v)
        IN  IF found = <<>> THEN Bad
            ELSE Then(IF s.derived
                      THEN ReadFields(found[1].fields, k.rest,
                                      IF n = Open THEN n ELSE n - 1)
                      ELSE ReadEach(found[1].fields, k.rest),
                      LAMBDA a : Good(<<found[1].name, a.v>>, a.rest))))

Read(s, toks) ==
  CASE s.is = "uint" ->
         Then(Take(toks, UInts), LAMBDA a :
           IF a.v[2] <= s.max THEN Good(Num(a.v[2]), a.rest) ELSE Bad)
    [] s.is = "sint" -> Then(Take(toks, Ints), LAMBDA a : Good(Num(a.v[2]), a.rest))
    [] s.is \in {"unless", "known"} ->
         Then(Read(s.of, toks), LAMBDA a :
           IF s.is = "known" THEN Good(SplitKeys(s.n, a.v), a.rest)
           ELSE IF a.v \in s.refused THEN Bad ELSE a)
    [] s.is = "token" -> Take(toks, s.kinds)
    [] s.is = "bytes" -> ReadBytes(toks)
    [] s.is = "item" -> Then(Skip(toks), LAMBDA a : Good(<<"item", a.v>>, a.rest))
    [] s.is = "skip" -> Then(Skip(toks), LAMBDA a : Good(<<"map", <<>>>>, a.rest))
    [] s.is = "typed" ->
         Then(Skip(toks), LAMBDA i :
           LET a == Read(s.of, i.v)
           IN  IF a.ok = "good" THEN Good(a.v, i.rest) ELSE Bad)
    [] s.is = "text" ->
         IF toks # <<>> /\ Head(toks)[1] \in Arrays THEN Read(s.of, toks)
         ELSE IF \E i \in 1..Len(toks) : toks[i][1] # "char" THEN Bad
         ELSE Good(<<"Text", toks>>, IF toks = <<>> THEN toks ELSE Tail(toks))
    [] s.is = "option" -> ReadOption(s, toks)
    [] s.is \in {"inline", "arranged"} ->
         Then(ReadEach(s.fields, toks), LAMBDA a :
           Good(IF s.is = "inline" THEN <<"tuple", a.v>> ELSE Arrange(s, a.v), a.rest))
    [] s.is = "tuple" ->
         Then(Take(toks, Arrays), LAMBDA h :
           Then(ReadEach(s.fields, h.rest), LAMBDA a :
             Good(<<"tuple", a.v>>, a.rest)))
    [] s.is = "record" ->
         Then(Take(toks, Arrays), LAMBDA h :
           Then(ReadFields(s.fields, h.rest, CountOf(h.v)), LAMBDA a :
             Good(<<"record", a.v>>, a.rest)))
    [] s.is = "keyed" ->
         Then(Take(toks, Maps), LAMBDA h :
           Then(ReadKeys(s.fields, h.rest, CountOf(h.v),
                         Tupled([i \in 1..Len(s.fields) |-> Absent])),
                LAMBDA a : Good(<<"record", a.v>>, a.rest)))
    [] s.is = "variant" -> ReadVariant(s, toks)
    [] s.is = "index" ->
         Then(Read(U32, toks), LAMBDA k :
           LET found == SelectSeq(s.cases, LAMBDA c : Num(c.n) = k.v)
           IN  IF found = <<>> THEN Bad ELSE Good(<<found[1].name, <<>>>>, k.rest))
    [] s.is = "labelled" ->
         Then(Read(U8, toks), LAMBDA k :
           LET found == SelectSeq(s.cases, LAMBDA c : Num(c.n) = k.v)
           IN  IF found = <<>> THEN Bad
               ELSE Then(ReadEach(found[1].fields, k.rest), LAMBDA a :
                      Good(<<found[1].name, a.v>>, a.rest)))
    [] s.is = "length" ->
         Then(Take(toks, Arrays), LAMBDA h :
           LET found == SelectSeq(s.cases, LAMBDA c : c.else \/ Header(c.n) = h.v)
           IN  IF found = <<>> THEN Bad
               ELSE Then(ReadEach(found[1].fields, h.rest), LAMBDA a :
                      Good(<<found[1].name, a.v>>, a.rest)))
    [] s.is = "type" ->
         IF toks = <<>> THEN Short
         ELSE LET found == SelectSeq(s.cases, LAMBDA c :
                               /\ Head(toks)[1] \in c.kinds
                               /\ Head(toks)[1] = "tag" => Head(toks)[2] \in c.tags)
              IN  IF found = <<>> THEN Bad
                  ELSE Then(Read(found[1].of, toks), LAMBDA a :
                         Good(<<found[1].name, <<a.v>>>>, a.rest))
    [] s.is = "element" ->
         LET bare == IF toks # <<>> /\ Head(toks)[1] = "tag" THEN Tail(toks) ELSE toks
         IN  Then(Take(bare, Arrays), LAMBDA h :
               IF h.v = Header(0) THEN Bad
               ELSE IF h.rest = <<>> THEN Short
               ELSE LET found == SelectSeq(s.cases, LAMBDA c :
                                              Head(h.rest)[1] \in c.kinds)
                    IN  IF found = <<>> THEN Bad
                        ELSE Then(Read(found[1].of, toks), LAMBDA a :
                               Good(<<found[1].name, <<a.v>>>>, a.rest)))
    [] s.is = "list" ->
         Then(Take(toks, Arrays), LAMBDA h :
           Then(ReadItems(s.of, h.rest, CountOf(h.v)), LAMBDA a :
             Good(<<IF s.kept /\ CountOf(h.v) = Open THEN "list*" ELSE "list",
                    a.v>>, a.rest)))
    [] s.is = "map" ->
         Then(Take(toks, s.heads), LAMBDA h :
           Then(ReadItems(Inline(<<s.key, s.val>>), h.rest, CountOf(h.v)), LAMBDA a :
             LET pairs == Tupled([i \in 1..Len(a.v) |-> a.v[i][2]])
             IN  Good(<<IF s.kept /\ CountOf(h.v) = Open THEN "map*" ELSE "map",
                        IF s.dups THEN pairs ELSE LatestEntries(pairs)>>, a.rest)))
    [] s.is = "properties" ->
         Then(Take(toks, Maps), LAMBDA h :
           Then(ReadItems(s.of, h.rest, IF CountOf(h.v) = Open THEN 0 ELSE h.v[2]),
                LAMBDA a : Good(<<"list", a.v>>, a.rest)))
    [] s.is = "set" ->
         IF toks # <<>> /\ Head(toks)[1] = "tag"
         THEN IF Head(toks)[2] = TAG_SET THEN Read(s.of, Tail(toks)) ELSE Bad
         ELSE Read(s.of, toks)
    [] s.is \in {"tagged", "boxed"} ->
         Then(Take(toks, IF s.is = "tagged" THEN {"tag"} ELSE Arrays), LAMBDA t :
           IF s.only /\ t.v[2] # s.n THEN Bad ELSE Read(s.of, t.rest))
    [] s.is = "wrap" ->
         Then(Take(toks, {"tag"}), LAMBDA t :
           Then(Take(t.rest, {"bytes"}), LAMBDA b :
             Then(Read(s.of, b.v[2]), LAMBDA a : Good(a.v, b.rest))))
    [] s.is = "keep" ->
         Then(Read(s.of, toks), LAMBDA a :
           Good(<<"keep", <<a.v, SubSeq(toks, 1, Len(toks) - Len(a.rest))>>>>,
                a.rest))
    [] s.is = "sided" -> Read(s.dec, toks)

-----------------------------------------------------------------------------
(* Values to try: the first is the default, and each other one differs from *)
(* it in one place, so that every case of every type nested in the codec is *)
(* taken once.                                                              *)

RECURSIVE Samples(_)
OneOff(codecs) ==
    LET all == Tupled([i \in 1..Len(codecs) |-> Samples(codecs[i])])
        base == Tupled([i \in 1..Len(codecs) |-> all[i][1]])
        with(i, v) == SubSeq(base, 1, i - 1) \o <<v>> \o SubSeq(base, i + 1, Len(base))
    IN  <<base>> \o FlattenSeq(Tupled([i \in 1..Len(codecs) |->
            Tupled([j \in 1..Len(all[i]) - 1 |-> with(i, all[i][j + 1])])]))
Named(name, tuples) == Tupled([i \in 1..Len(tuples) |-> <<name, tuples[i]>>])
Singles(name, items) ==
    Tupled([i \in 1..Len(items) |-> <<name, <<items[i]>>>>]) \o <<<<name, <<>>>>>>
Collections(name, items) ==
    Singles(name, items) \o <<<<name, <<items[1], items[Len(items)]>>>>>>
Pairs(s) == OneOff(<<s.key, s.val>>)
\* Two entries with keys of their own, where the type has two keys to offer.
TwoKeys(s) ==
    LET pairs == Pairs(s)
        others == SelectSeq(pairs, LAMBDA p : p[1] # pairs[1][1])
    IN  IF others = <<>> THEN <<>> ELSE <<<<"map", <<pairs[1], others[1]>>>>>>

Samples(s) ==
  CASE s.is = "uint" -> <<Num(1), Num(s.max)>>
    [] s.is = "sint" -> <<Num(1), Num(-1)>>
    [] s.is = "unless" -> SelectSeq(Samples(s.of), LAMBDA v : v \notin s.refused)
    [] s.is = "token" -> s.some
    [] s.is = "item" -> <<<<"item", <<Num(0)>>>>, <<"item", <<Header(1), Num(0)>>>>>>
    [] s.is = "skip" -> <<<<"map", <<>>>>>>
    [] s.is = "bytes" -> <<<<"bytes", <<<<"raw", 1>>>>>>,
                           <<"bytes", <<<<"raw", 1>>, <<"raw", 2>>>>>>>>
    [] s.is = "option" ->
         (IF s.nulls = {Null} THEN <<Absent>> ELSE <<Null, Undefined>>)
           \o SelectSeq(Samples(s.of), LAMBDA v : v \notin s.nulls)
    [] s.is \in {"inline", "tuple"} -> Named("tuple", OneOff(s.fields))
    [] s.is = "record" -> Named("record", OneOff(s.fields))
    [] s.is = "keyed" ->
         Named("record", OneOff(Tupled([i \in 1..Len(s.fields) |-> s.fields[i].of])))
    [] s.is \in {"variant", "length", "labelled"} ->
         FlattenSeq(Tupled([i \in 1..Len(s.cases) |->
                        Named(s.cases[i].name, OneOff(s.cases[i].fields))]))
    [] s.is = "index" ->
         Tupled([i \in 1..Len(s.cases) |-> <<s.cases[i].name, <<>>>>])
    [] s.is \in {"type", "element"} ->
         FlattenSeq(Tupled([i \in 1..Len(s.cases) |->
                        Named(s.cases[i].name, OneOff(<<s.cases[i].of>>))]))
    [] s.is = "list" ->
         Collections("list", Samples(s.of))
           \o (IF s.kept THEN Collections("list*", <<Samples(s.of)[1]>>) ELSE <<>>)
    [] s.is = "map" ->
         IF s.dups
         THEN Collections("map", Pairs(s))
                \o (IF s.kept THEN Collections("map*", <<Pairs(s)[1]>>) ELSE <<>>)
         ELSE Singles("map", Pairs(s)) \o TwoKeys(s)
    [] s.is = "properties" -> Collections("list", Samples(s.of))
    [] s.is \in {"set", "tagged", "boxed", "typed", "text", "wrap"} -> Samples(s.of)
    [] s.is = "keep" ->
         LET all == Samples(s.of)
         IN  Tupled([i \in 1..Len(all) |-> <<"keep", <<all[i], <<>>>>>>])
    [] s.is = "sided" -> Samples(s.some)
    [] s.is = "pairs" -> Samples(PairMap(s.key, s.val))
    [] s.is = "arranged" ->
         LET all == OneOff(s.fields)
         IN  Tupled([i \in 1..Len(all) |-> Arrange(s, all[i])])
    [] s.is = "known" ->
         LET vals == Samples(s.of.val)
             one(k, v) == SplitKeys(s.n, <<"map", <<<<Num(k), v>>>>>>)
         IN  Tupled([k \in 1..s.n + 1 |-> one(k - 1, vals[1])])
               \o Tupled([i \in 1..Len(vals) - 1 |-> one(0, vals[i + 1])])
               \o <<SplitKeys(s.n, <<"map", <<>>>>),
                    SplitKeys(s.n, <<"map", <<<<Num(0), vals[1]>>,
                                              <<Num(s.n), vals[1]>>>>>>)>>
=============================================================================
