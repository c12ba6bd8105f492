-------------------------------- MODULE Relay -------------------------------
(***************************************************************************)
(* The life of a block or transaction inside a program that uses pallas:   *)
(* an author wrote its bytes and signed the hash of parts of them, pallas  *)
(* decodes them, the program may change fields in place, and the value is  *)
(* encoded again for the next reader.                                      *)
(*                                                                         *)
(* A part whose bytes were hashed is held in a KeepRaw                     *)
(* (pallas-codec/src/utils.rs): the value with the bytes it came from.     *)
(* Whoever mutates it goes through DerefMut, once for each KeepRaw around   *)
(* the field.                                                              *)
(***************************************************************************)
EXTENDS Cbor

CONSTANTS Kinds,        \* the blocks and transactions of the eras
          Layout(_),    \* the codec of each
          Values(_),    \* the values an author may write in each of them
          AuthorStyles, \* the choices CBOR leaves to the author
          MaxEdits      \* how many fields the program changes

VARIABLES kind,    \* one of Kinds
          meant,   \* the author's value with the program's changes
          signed,  \* the bytes the author wrote
          held,    \* the decoded value, or Absent
          touched, \* the positions changed
          out,     \* the bytes sent on, or <<>>
          seen     \* what the next reader decodes, or Absent

vars == <<kind, meant, signed, held, touched, out, seen>>

-----------------------------------------------------------------------------
(* Positions in a value.  The children of a map are its keys and values    *)
(* alternately, as IndexedNode (pallas-codec/src/tree.rs) has them.        *)

Scalars == {"uint", "nint", "wide", "bool", "text", "bytes", "null", "undefined",
            "absent", "item"}
IsMap(v) == v[1] \in {"map", "map*"}
IsKept(v) == v[1] = "keep"

Children(v) ==
    IF v[1] \in Scalars THEN <<>>
    ELSE IF IsKept(v) THEN <<v[2][1]>>
    ELSE IF IsMap(v) THEN FlattenSeq(v[2])
    ELSE v[2]

\* A bug: the bytes are kept when the value is mutated.
KeepsBytes(kept, inner) == <<"keep", <<inner, kept[2][2]>>>>
\* deref_mut: whoever gets hold of the inside of a KeepRaw loses the bytes.
deref_mut(kept, inner) == <<"keep", <<inner, <<>>>>>>

WithChild(v, i, child) ==
    IF IsKept(v) THEN deref_mut(v, child)
    ELSE IF IsMap(v)
         THEN <<v[1], [v[2] EXCEPT ![(i + 1) \div 2] =
                         IF i % 2 = 1 THEN <<child, @[2]>> ELSE <<@[1], child>>]>>
    ELSE <<v[1], [v[2] EXCEPT ![i] = child]>>

\* A number or a byte string that is not the key of a map.
RECURSIVE Fields(_)
Fields(v) ==
    IF v[1] \in {"uint", "bytes"} THEN {<<>>}
    ELSE UNION {{<<i>> \o p : p \in Fields(Children(v)[i])} :
                  i \in {j \in 1..Len(Children(v)) : IsMap(v) => j % 2 = 0}}

RECURSIVE KeptAt(_)
\* The positions of the KeepRaw's in a value, with their bytes.
KeptAt(v) ==
    (IF IsKept(v) THEN {<<<<>>, v[2][2]>>} ELSE {})
      \cup UNION {{<<<<i>> \o k[1], k[2]>> : k \in KeptAt(Children(v)[i])} :
                    i \in 1..Len(Children(v))}

Changed(scalar) == IF scalar[1] = "uint" THEN Num(2) ELSE <<"bytes", <<<<"raw", 3>>>>>>

RECURSIVE Edited(_, _)
Edited(v, p) ==
    IF p = <<>> THEN Changed(v)
    ELSE WithChild(v, Head(p), Edited(Children(v)[Head(p)], Tail(p)))

\* The value itself, without the bytes it was read from and without the cost
\* models of languages its era does not know.
RECURSIVE Known(_)
Known(v) ==
    IF v[1] \in Scalars THEN v
    ELSE IF v[1] = "models" THEN <<v[1], <<v[2][1]>>>>
    ELSE IF IsKept(v) THEN <<"keep", <<Known(v[2][1]), <<>>>>>>
    ELSE IF IsMap(v)
         THEN <<v[1], Tupled([i \in 1..Len(v[2]) |->
                        <<Known(v[2][i][1]), Known(v[2][i][2])>>])>>
    ELSE <<v[1], Tupled([i \in 1..Len(v[2]) |-> Known(v[2][i])])>>

\* One field for each innermost KeepRaw, and one outside of them all.
Editable(v) ==
    LET kept == {k[1] : k \in KeptAt(v)}
        around(p) == {q \in kept : IsPrefix(q, p)}
        fields == Fields(v)
    IN  {CHOOSE p \in fields : around(p) = e : e \in {around(p) : p \in fields}}

\* A bug: every value is encoded anew.
EncodedAnew(layout, v) == Write(layout, v, Fresh)
\* KeepRaw::encode: the bytes held are written when there are any.
to_vec(layout, v) == Write(layout, v, Own)

-----------------------------------------------------------------------------

\* The author encodes a value of its own.
Init ==
    /\ kind \in Kinds
    /\ \E i \in 1..Len(Values(kind)), style \in AuthorStyles :
         /\ meant = Values(kind)[i]
         /\ signed = Write(Layout(kind), meant, style)
    /\ held = Absent
    /\ touched = {}
    /\ out = <<>>
    /\ seen = Absent

\* minicbor::decode
Decode ==
    /\ held = Absent
    /\ LET r == Read(Layout(kind), signed)
       IN  /\ r.ok = "good"
           /\ held' = r.v
    /\ UNCHANGED <<kind, meant, signed, touched, out, seen>>

\* A field is assigned through the mutable references that lead to it.
Edit ==
    /\ held # Absent
    /\ out = <<>>
    /\ Cardinality(touched) < MaxEdits
    /\ \E p \in Editable(held) :
         /\ held' = Edited(held, p)
         /\ meant' = Edited(meant, p)
         /\ touched' = touched \cup {p}
    /\ UNCHANGED <<kind, signed, out, seen>>

\* minicbor::to_vec
Encode ==
    /\ held # Absent
    /\ out = <<>>
    /\ out' = to_vec(Layout(kind), held)
    /\ UNCHANGED <<kind, meant, signed, held, touched, seen>>

\* The next program decodes what it is sent.
Receive ==
    /\ out # <<>>
    /\ seen = Absent
    /\ LET r == Read(Layout(kind), out)
       IN  /\ r.ok = "good"
           /\ seen' = r.v
    /\ UNCHANGED <<kind, meant, signed, held, touched, out>>

\* The value has arrived and is read no further.
Arrived == seen # Absent /\ UNCHANGED vars

Next == Decode \/ Edit \/ Encode \/ Receive \/ Arrived

Spec == Init /\ [][Next]_vars

-----------------------------------------------------------------------------
(* original_hash (pallas-traverse/src/hashes.rs) is the hash of the bytes a *)
(* KeepRaw holds; a transaction id, a block hash, a script hash and a datum *)
(* hash are such.  Hashes are not modelled: equal bytes, equal hash.        *)

\* The next reader finds, in every part the program did not reach into, the
\* very bytes its author hashed, however the author chose to encode them and
\* whatever was changed in the parts around or beside it.
HashedBytesKept ==
    seen # Absent =>
      LET now == KeptAt(seen)
          untouched(q) == \A p \in touched : ~IsPrefix(q, p)
      IN  \A k \in KeptAt(Read(Layout(kind), signed).v) :
            untouched(k[1]) => k \in now

\* The next reader decodes the author's value with exactly the changes the
\* program made: no bytes of before a change are sent in their place, and
\* nothing else is lost between one encoder and the next decoder, with one
\* exception.  The cost models of languages Conway does not know are lost when
\* the part around them is encoded anew, by pallas as their author or after a
\* change (conway/model.rs, CostModels skips `unknown`).  Unless the program
\* reached into a part, what is decoded is what was decoded before.
NothingStale ==
    seen # Absent =>
      /\ Known(seen) = Known(meant)
      /\ touched = {} => seen = Read(Layout(kind), signed).v

=============================================================================
