------------------------------- MODULE AsnCodec -------------------------------
(***************************************************************************)
(* The codec that derive(AsnCodec) writes for a wire type: from the type as  *)
(* declared to the kinds of its fields, and from a kind to the functions     *)
(* that read a JavaScript value, project one, and name its TypeScript type.  *)
(* The three are generated separately, once for a value and once for a       *)
(* field, and must agree.  JavaScript and Rust values are trees of one shape:*)
(* a type, a number standing for the content, the parts and their names.     *)
(* The der crate is external: which contents a string type admits, and that  *)
(* a SET OF is sorted and has no duplicate.                                  *)
(***************************************************************************)
EXTENDS Integers, Sequences, FiniteSets, SequencesExt

CONSTANTS Bits     \* the width of each INTEGER type, scaled down

VARIABLE codec     \* stage of one endpoint, its kind, and the values that went through it

Tree(t, n, items, keys) == [t |-> t, n |-> n, items |-> items, keys |-> keys]
Atom(t, n) == Tree(t, n, <<>>, <<>>)
Undefined == Atom("undefined", 0)
JsNull == Atom("null", 0)
Fail == Atom("fail", 0)
JsObject(keys, items) == Tree("object", 0, items, keys)
JsArray(items) == Tree("array", 0, items, <<>>)

\* A number that is no integer, NaN or with a fraction.
Inexact(n) == Tree("number", n, <<>>, <<"inexact">>)

Small == {"u8", "u16", "u32", "i8", "i16", "i32"}
Big == {"u64", "i64"}
Texts == {"String", "Ia5String", "PrintableString", "TeletexString", "BmpString",
          "ObjectIdentifier", "UtcTime", "GeneralizedTime"}
Leaves == Small \cup Big \cup Texts \cup {"bool", "Null", "OctetString", "Any", "BitString"}
Lists == {"Vec", "SetOfVec", "SequenceOf", "SetOf"}

\* Contents of bytes: 0 empty, 1 a DER value.  Of a string: 1 printable, 2 ASCII only, 3 not ASCII, 4 outside the basic plane,
\* 5 a dotted identifier, 6 a date of UTCTime's years, 7 another date.  External.
Admitted(k) ==
    CASE k = "String" -> 1..7 [] k = "BmpString" -> {1, 2, 3, 5, 6, 7}
      [] k \in {"Ia5String", "TeletexString"} -> {1, 2, 5, 6, 7}
      [] k = "PrintableString" -> {1, 5, 6, 7} [] k = "ObjectIdentifier" -> {5}
      [] k = "UtcTime" -> {6} [] k = "GeneralizedTime" -> {6, 7}

Lo(k) == IF k \in {"u8", "u16", "u32", "u64"} THEN 0 ELSE -(2 ^ (Bits[k] - 1))
Hi(k) == Lo(k) + 2 ^ Bits[k] - 1
-----------------------------------------------------------------------------
(* From a declaration to a kind.                                            *)

Kind(k, of, len, keys) == [k |-> k, of |-> of, len |-> len, keys |-> keys]
Refused == Kind("refused", <<>>, 0, <<>>)

\* Types as written, and declarations: a name, type arguments, a length; a form and fields.
Ty(name, args, len) == [name |-> name, args |-> args, len |-> len]
Plain(name) == Ty(name, <<>>, 0)
Decl(form, keys, tys, len) == [form |-> form, keys |-> keys, tys |-> tys, len |-> len]

\* The fixture types that nest others or are nested.
Named == [Doc |-> Decl("struct", <<"title">>, <<Plain("String")>>, 0),
          Envelope |-> Decl("struct", <<"doc", "payload">>, <<Plain("Doc"), Plain("OctetString")>>, 0),
          Status |-> Decl("reprEnum", <<>>, <<>>, 3),
          StatusReport |-> Decl("struct", <<"title", "status">>, <<Plain("String"), Plain("Status")>>, 0),
          ListPad |-> Decl("struct", <<"pad">>, <<Plain("u8")>>, 0),
          RegisterBody |-> Decl("struct", <<"doc">>, <<Plain("Doc")>>, 0),
          Request |-> Decl("newtypeEnum", <<"Register", "List">>,
                           <<Plain("RegisterBody"), Plain("ListPad")>>, 0),
          Record |-> Decl("struct", <<"subject">>, <<Plain("String")>>, 0),
          Ack |-> Decl("struct", <<"error">>, <<Ty("Option", <<Plain("Status")>>, 0)>>, 0),
          ListResult |-> Decl("struct", <<"records">>, <<Ty("Vec", <<Plain("Record")>>, 0)>>, 0)]

Holding(k, of, len, keys) ==
    IF Refused \in ToSet(of) THEN Refused ELSE Kind(k, of, len, keys)

RECURSIVE Derived(_)

\* field_kind and leaf_field_kind.
RECURSIVE FieldKind(_)
FieldKind(ty) ==
    CASE ty.name \in {"Option", "Vec", "SetOfVec"} /\ Len(ty.args) = 1 /\ ty.len = 0 ->
           Holding(ty.name, <<FieldKind(ty.args[1])>>, 0, <<>>)
      [] ty.name \in {"SequenceOf", "SetOf"} /\ Len(ty.args) = 1 /\ ty.len # 0 ->
           Holding(ty.name, <<FieldKind(ty.args[1])>>, ty.len, <<>>)
      [] OTHER -> IF ty.args # <<>> \/ ty.len # 0 THEN Refused
                  ELSE IF ty.name = "Utf8String" THEN Kind("String", <<>>, 0, <<>>)
                  ELSE IF ty.name \in Leaves THEN Kind(ty.name, <<>>, 0, <<>>)
                  ELSE IF ty.name \in DOMAIN Named THEN Derived(Named[ty.name]) ELSE Refused

\* expand: a struct with named fields, a #[repr(u8)] enum of units, an enum of newtypes,
\* whose payloads are AsnCodec types themselves and go through no field kind.
Derived(decl) ==
    CASE decl.form = "struct" -> Holding("sequence", [i \in DOMAIN decl.tys |-> FieldKind(decl.tys[i])],
                                         0, decl.keys)
      [] decl.form = "reprEnum" /\ decl.len > 0 -> Kind("enumerated", <<>>, decl.len, <<>>)
      [] decl.form = "newtypeEnum" /\ decl.tys # <<>> ->
           Holding("choice", [i \in DOMAIN decl.tys |-> IF decl.tys[i].name \in DOMAIN Named
                                                        THEN Derived(Named[decl.tys[i].name]) ELSE Refused],
                   0, decl.keys)
      [] OTHER -> Refused
-----------------------------------------------------------------------------
(* Reading a JavaScript value.                                              *)

Nullish(v) == v.t \in {"undefined", "null"}
HasProperties(v) == v.t \in {"object", "array", "bytes"}

\* Reflect::get: undefined when there is none.
Get(v, key) == IF key \in ToSet(v.keys) THEN v.items[CHOOSE i \in DOMAIN v.keys : v.keys[i] = key]
               ELSE Undefined

\* f64_as_unsigned and f64_as_signed over as_number.
Exact(k, v) == v.t = "number" /\ v.keys = <<>> /\ v.n \in Lo(k)..Hi(k)

\* The as_* functions.
AsLeaf(k, v) ==
    LET unused == Get(v, "unusedBits")
        bytes == Get(v, "bytes") IN
    CASE k = "bool" -> IF v.t = "boolean" THEN Atom(k, v.n) ELSE Fail
      [] k = "Null" -> IF v.t = "null" THEN Atom(k, 0) ELSE Fail
      [] k \in Small -> IF Exact(k, v) THEN Atom(k, v.n) ELSE Fail
      [] k \in Big -> IF v.t = "bigint" /\ v.n \in Lo(k)..Hi(k) THEN Atom(k, v.n) ELSE Fail
      [] k \in Texts -> IF v.t = "string" /\ v.n \in Admitted(k) THEN Atom(k, v.n) ELSE Fail
      [] k = "OctetString" -> IF v.t = "bytes" THEN Atom(k, v.n) ELSE Fail
      [] k = "Any" -> IF v.t = "bytes" /\ v.n = 1 THEN Atom(k, v.n) ELSE Fail
      [] k = "BitString" ->
           IF Exact("u8", unused) /\ bytes.t = "bytes" /\ unused.n < 8 /\ (bytes.n = 0 => unused.n = 0)
           THEN Tree(k, unused.n, <<Atom("OctetString", bytes.n)>>, <<>>) ELSE Fail

Collected(t, items) == IF Fail \in ToSet(items) THEN Fail ELSE Tree(t, 0, items, <<>>)

\* A SET OF keeps its elements sorted, and has each once.
Ordered(items) == SortSeq(items, LAMBDA a, b : a.n < b.n)

FitsLength(kind, items) == kind.k \in {"SequenceOf", "SetOf"} => Len(items) = kind.len

RECURSIVE FromValue(_, _)

\* Mutant: an absent OPTIONAL or NULL field is refused.
FromFieldStrict(kind, v) == IF Nullish(v) THEN Fail ELSE FromValue(kind, v)

\* quote_from with the *_field readers: a value must be there, but for Null and Option.
FromField(kind, v) ==
    IF Nullish(v) /\ kind.k \notin {"Null", "Option"} THEN Fail ELSE FromValue(kind, v)

\* quote_from_value, and from_js of the three declared forms.
FromValue(kind, v) ==
    LET Each == [i \in DOMAIN v.items |-> FromValue(kind.of[1], v.items[i])]
        AsList == IF v.t # "array" \/ ~FitsLength(kind, v.items) THEN Fail ELSE Collected(kind.k, Each)
        Variant == {i \in DOMAIN kind.keys : v.keys = <<kind.keys[i]>>} IN
    CASE kind.k = "Option" ->
           IF Nullish(v) THEN Tree("none", 0, <<>>, <<>>)
           ELSE Collected("some", <<FromValue(kind.of[1], v)>>)
      [] kind.k \in {"Vec", "SequenceOf"} -> AsList
      [] kind.k \in {"SetOfVec", "SetOf"} ->
           IF AsList # Fail /\ IsInjective(AsList.items)
           THEN Tree(kind.k, 0, Ordered(AsList.items), <<>>) ELSE Fail
      [] kind.k = "sequence" ->
           IF HasProperties(v)
           THEN Collected(kind.k, [i \in DOMAIN kind.keys |-> FromField(kind.of[i], Get(v, kind.keys[i]))])
           ELSE Fail
      [] kind.k = "enumerated" ->
           IF Exact("u8", v) /\ v.n < kind.len THEN Atom(kind.k, v.n) ELSE Fail
      [] kind.k = "choice" ->
           IF v.t # "object" \/ Variant = {} \/ Nullish(v.items[1]) THEN Fail
           ELSE LET i == CHOOSE i \in Variant : TRUE
                    payload == FromValue(kind.of[i], v.items[1]) IN
                IF payload = Fail THEN Fail ELSE Tree(kind.k, i, <<payload>>, <<>>)
      [] OTHER -> AsLeaf(kind.k, v)
-----------------------------------------------------------------------------
(* Projecting one, and its TypeScript type.                                 *)

JsType(k) == CASE k = "bool" -> "boolean" [] k = "Null" -> "null" [] k \in Small -> "number"
               [] k \in Big -> "bigint" [] k \in Texts -> "string" [] OTHER -> "bytes"

\* The from_* functions.
FromLeaf(r) ==
    IF r.t = "BitString" THEN JsObject(<<"unusedBits", "bytes">>,
                                       <<Atom("number", r.n), Atom("bytes", r.items[1].n)>>)
    ELSE Atom(JsType(r.t), r.n)

\* quote_to_value, quote_to with the set_* functions, and to_js: None leaves its field out.
RECURSIVE ToValue(_, _)
ToValue(kind, r) ==
    CASE kind.k = "Option" -> IF r.t = "none" THEN JsNull ELSE ToValue(kind.of[1], r.items[1])
      [] kind.k \in Lists -> JsArray([i \in DOMAIN r.items |-> ToValue(kind.of[1], r.items[i])])
      [] kind.k = "sequence" ->
           LET Present == SelectSeq([i \in DOMAIN kind.keys |-> i], LAMBDA i : r.items[i].t # "none") IN
           JsObject([j \in DOMAIN Present |-> kind.keys[Present[j]]],
                    [j \in DOMAIN Present |-> ToValue(kind.of[Present[j]], r.items[Present[j]])])
      [] kind.k = "enumerated" -> Atom("number", r.n)
      [] kind.k = "choice" -> JsObject(<<kind.keys[r.n]>>, <<ToValue(kind.of[r.n], r.items[1])>>)
      [] OTHER -> FromLeaf(r)

\* ts_type and quote_ts_property, by the values that have the type.
RECURSIVE HasTsType(_, _)
HasTsType(kind, v) ==
    LET Property(i) == IF kind.k = "sequence" /\ kind.of[i].k = "Option" /\ Get(v, kind.keys[i]) = Undefined
                       THEN TRUE ELSE HasTsType(kind.of[i], Get(v, kind.keys[i])) IN
    CASE kind.k = "Option" -> v.t = "null" \/ HasTsType(kind.of[1], v)
      [] kind.k \in Lists -> v.t = "array" /\ \A i \in DOMAIN v.items : HasTsType(kind.of[1], v.items[i])
      [] kind.k = "sequence" -> \A i \in DOMAIN kind.keys : Property(i)
      [] kind.k = "enumerated" -> v.t = "number"
      [] kind.k = "choice" -> \E i \in DOMAIN kind.keys : v.keys = <<kind.keys[i]>> /\ HasTsType(kind.of[i], v.items[1])
      [] kind.k = "BitString" -> Get(v, "unusedBits").t = "number" /\ Get(v, "bytes").t = "bytes"
      [] OTHER -> v.t = JsType(kind.k)
-----------------------------------------------------------------------------
(* What is tried.  Types: every leaf, the fixtures, and lists and options   *)
(* over them.  Values: those a kind holds, and others that nearly fit.       *)

U8 == Plain("u8")
Tys == {Plain(k) : k \in Leaves \cup DOMAIN Named \cup {"Utf8String", "f32x"}}
       \cup {Ty("Option", <<t>>, 0) : t \in {Plain("Null"), Plain("bool"), Plain("Request"), Plain("BitString"),
                                             Ty("Vec", <<U8>>, 0), Ty("SetOf", <<U8>>, 2),
                                             Ty("Vec", <<Plain("Record")>>, 0)}}
       \cup {Ty(l, <<t>>, 0) : l \in {"Vec", "SetOfVec"}, t \in {U8, Plain("String"), Plain("Null")}}
       \cup {Ty("Vec", <<t>>, 0) : t \in {Plain("Doc"), Plain("Ack"), Ty("Vec", <<Plain("Status")>>, 0)}}
       \cup {Ty(l, <<U8>>, 2) : l \in {"SequenceOf", "SetOf", "Vec"}} \cup {Ty("SequenceOf", <<U8>>, 0)}
Two == {U8, Plain("bool"), Plain("Null"), Ty("Option", <<U8>>, 0), Ty("Vec", <<U8>>, 0)}
Decls == {Decl("struct", <<"f">>, <<t>>, 0) : t \in Tys} \cup {Named[d] : d \in DOMAIN Named}
         \cup {Decl("struct", <<"f", "g">>, <<t, u>>, 0) : t, u \in Two}
         \cup {Decl("newtypeEnum", <<"A", "B">>, <<Plain("Doc"), t>>, 0) : t \in {U8, Plain("Status"), Plain("Request")}}
         \cup {Decl(form, <<>>, <<>>, 0) : form \in {"tupleStruct", "union", "mixedEnum", "unitEnum", "reprEnum"}}

\* Rust values of a kind, of at most two elements a list.
RECURSIVE Values(_)
Values(kind) ==
    LET Inner == Values(kind.of[1])
        AnyField == UNION {Values(kind.of[i]) : i \in DOMAIN kind.of}
        Seqs == UNION {[1..n -> Inner] : n \in 0..2}
        Fitting == {s \in Seqs : FitsLength(kind, s)} IN
    CASE kind.k = "Option" -> {Tree("none", 0, <<>>, <<>>)} \cup {Tree("some", 0, <<r>>, <<>>) : r \in Inner}
      [] kind.k \in {"Vec", "SequenceOf"} -> {Tree(kind.k, 0, s, <<>>) : s \in Fitting}
      [] kind.k \in {"SetOfVec", "SetOf"} ->
           {Tree(kind.k, 0, s, <<>>) : s \in {q \in Fitting : \A i \in 1..(Len(q) - 1) : q[i].n < q[i + 1].n}}
      [] kind.k = "sequence" -> {Tree(kind.k, 0, s, <<>>) :
                                   s \in {q \in [DOMAIN kind.of -> AnyField] :
                                            \A i \in DOMAIN q : q[i] \in Values(kind.of[i])}}
      [] kind.k = "enumerated" -> {Atom(kind.k, n) : n \in 0..(kind.len - 1)}
      [] kind.k = "choice" -> UNION {{Tree(kind.k, i, <<r>>, <<>>) : r \in Values(kind.of[i])} : i \in DOMAIN kind.of}
      [] kind.k \in Small \cup Big -> {Atom(kind.k, n) : n \in {Lo(kind.k), 1, Hi(kind.k)}}
      [] kind.k \in Texts -> {Atom(kind.k, n) : n \in Admitted(kind.k)}
      [] kind.k = "bool" -> {Atom(kind.k, n) : n \in 0..1}
      [] kind.k = "Null" -> {Atom(kind.k, 0)}
      [] kind.k = "BitString" -> {Tree(kind.k, n, <<Atom("OctetString", 1)>>, <<>>) : n \in {0, 3}}
      [] OTHER -> {Atom(kind.k, 1)}

Edges == UNION {{Lo(k) - 1, Lo(k), Hi(k), Hi(k) + 1} : k \in DOMAIN Bits}
Oddities == {Undefined, JsNull, Inexact(1), Atom("boolean", 1), Atom("bytes", 0), Atom("string", 3),
             JsObject(<<>>, <<>>), JsArray(<<>>)}
            \cup {Atom(t, n) : t \in {"number", "bigint"}, n \in Edges}
            \cup {JsObject(<<"unusedBits", "bytes">>, <<u, Atom("bytes", b)>>) :
                    u \in {Atom("number", 1), Atom("number", 9), Inexact(1)}, b \in 0..1}
Elements == {Undefined, JsNull, Inexact(1), Atom("number", 1), Atom("number", 2), Atom("string", 1)}

\* Values for each field of a struct beside held ones, and for the declared type itself.
Tried(kind) ==
    LET Held == {ToValue(kind, r) : r \in Values(kind)}
        Near == Oddities \cup {JsArray(s) : s \in UNION {[1..n -> Elements] : n \in 1..3}}
        Some(i) == ToValue(kind.of[i], CHOOSE r \in Values(kind.of[i]) : TRUE) IN
    IF kind.k = "sequence"
    THEN Held \cup Oddities
         \cup {JsObject(kind.keys, [i \in DOMAIN kind.of |-> IF i = j THEN v ELSE Some(i)]) :
                 j \in DOMAIN kind.of, v \in Near}
    ELSE Held \cup Oddities \cup {JsObject(<<key>>, <<v>>) : key \in ToSet(kind.keys) \cup {"Other"}, v \in Oddities}

CodecInit == codec = [stage |-> "written", kind |-> Refused, js |-> Undefined, rust |-> Fail, out |-> Undefined]

\* cargo build of one declared type.
DeriveAsnCodec(decl) ==
    /\ codec.stage = "written"
    /\ LET kind == Derived(decl) IN
       codec' = IF kind = Refused THEN [codec EXCEPT !.stage = "refused"]
                ELSE [codec EXCEPT !.stage = "ready", !.kind = kind]

\* encode{Name}, up to the bytes.
EncodeExport(js) ==
    /\ codec.stage = "ready"
    /\ LET rust == FromValue(codec.kind, js) IN
       codec' = [codec EXCEPT !.stage = IF rust = Fail THEN "threw" ELSE "encoded", !.js = js, !.rust = rust]

\* Bytes of another implementation arrive.
PeerEncodes(rust) ==
    /\ codec.stage = "ready"
    /\ codec' = [codec EXCEPT !.stage = "received", !.rust = rust]

\* decode{Name}.
DecodeExport ==
    /\ codec.stage \in {"encoded", "received"}
    /\ codec' = [codec EXCEPT !.stage = "decoded from " \o codec.stage, !.out = ToValue(codec.kind, codec.rust)]

CodecNext == \/ \E decl \in Decls : DeriveAsnCodec(decl)
             \/ codec.stage = "ready" /\ \E js \in Tried(codec.kind) : EncodeExport(js)
             \/ codec.stage = "ready" /\ \E r \in Values(codec.kind) : PeerEncodes(r)
             \/ DecodeExport

CodecSpec == CodecInit /\ [][CodecNext]_codec
-----------------------------------------------------------------------------
Projected == codec.stage \in {"decoded from encoded", "decoded from received"}

\* An OPTIONAL NULL that is present, somewhere in a value: its projection is null, as that
\* of an absent one.
RECURSIVE HidesNull(_)
HidesNull(r) == (r.t = "some" /\ r.items[1].t = "Null") \/ \E i \in DOMAIN r.items : HidesNull(r.items[i])

\* What decode hands out, encode takes back to the same wire value, for every type derive
\* accepts and every value of it, with one exception: an OPTIONAL NULL that is present is
\* read as absent (quote_from, quote_to and their value forms are inverse).
ProjectionIsReadBack ==
    Projected => LET again == FromValue(codec.kind, codec.out) IN
                 IF HidesNull(codec.rust) THEN again # codec.rust ELSE again = codec.rust

\* The TypeScript type says what encode reads and what decode hands out: whatever encode
\* accepts has the type (or leaves an optional property undefined), and so has whatever decode
\* returns (ts_type, quote_ts_property).
TypeIsWhatIsRead ==
    /\ codec.stage = "encoded" => HasTsType(codec.kind, codec.js)
    /\ Projected => HasTsType(codec.kind, codec.out)

\* The scalars of a JavaScript value that a kind's parts name, each with its place, and the
\* lengths of its lists.  A SET OF has no order, so its elements share one place.
RECURSIVE Scalars(_, _, _)
Scalars(kind, v, place) ==
    CASE Nullish(v) -> {}
      [] ~Nullish(v) /\ kind.k = "sequence" ->
           UNION {Scalars(kind.of[i], Get(v, kind.keys[i]), Append(place, kind.keys[i])) : i \in DOMAIN kind.keys}
      [] ~Nullish(v) /\ kind.k = "choice" ->
           UNION {Scalars(kind.of[i], v.items[1], Append(place, kind.keys[i])) :
                    i \in {j \in DOMAIN kind.keys : v.keys = <<kind.keys[j]>>}}
      [] ~Nullish(v) /\ kind.k = "Option" -> Scalars(kind.of[1], v, place)
      [] ~Nullish(v) /\ kind.k \in Lists ->
           {<<place, Atom("length", Len(v.items))>>}
           \cup UNION {Scalars(kind.of[1], v.items[i],
                               Append(place, IF kind.k \in {"Vec", "SequenceOf"} THEN ToString(i) ELSE "any")) :
                         i \in DOMAIN v.items}
      [] OTHER -> {<<place, v>>}

\* Nothing is rounded, wrapped, moved or cut short on the way in: the scalars decode hands
\* out are those that encode was given, in the same fields and list places, of every list
\* as many, and of a fixed-length one as many as its type says (f64_as_unsigned,
\* f64_as_signed, as_array_len).
NothingCoerced ==
    codec.stage = "decoded from encoded" =>
      /\ Scalars(codec.kind, codec.out, <<>>) = Scalars(codec.kind, codec.js, <<>>)
      /\ codec.kind.k = "sequence" =>
           \A i \in {j \in DOMAIN codec.kind.of : codec.kind.of[j].k \in {"SequenceOf", "SetOf"}} :
             Len(codec.rust.items[i].items) = codec.kind.of[i].len

\* The derived codec is exact in both directions, and typed as what it does.
CodecIsExact == ProjectionIsReadBack /\ TypeIsWhatIsRead /\ NothingCoerced
===============================================================================
