------------------------------- MODULE Schema -------------------------------
(* The codecs xtask generates for odradek-protocol's messages, as a table    *)
(* and two interpreters. A generated struct is the sequence of its fields in *)
(* wire order; each field says which versions carry it, from which version   *)
(* it may be null, and its tag if it travels in the tagged-field section.    *)
(* PutStruct and GetStruct do what the encode and decode functions generated *)
(* from that table do.                                                       *)
(*                                                                           *)
(* A value of a struct is a function from its field names, and from          *)
(* "unknown" for the raw tagged fields the crate does not know. A field that *)
(* is an Option in the source is a sequence of at most one element.          *)
EXTENDS Wire

----------------------------------------------------------------------------
(* Types and fields.                                                         *)

I8 == [kind |-> "int", width |-> 1]
I16 == [kind |-> "int", width |-> 2]
I32 == [kind |-> "int", width |-> 4]
I64 == [kind |-> "int", width |-> 8]
Bool == [kind |-> "bool"]
Uuid == [kind |-> "uuid"]
String == [kind |-> "string"]
\* A string that stays classic in flexible versions: the header's client id.
ClassicString == [kind |-> "classic_string"]
Blob == [kind |-> "bytes"]
Vec(type) == [kind |-> "array", of |-> type]
Struct(fields) == [kind |-> "struct", fields |-> fields]

Forever == 99
Never == 100

ZeroUuid == [i \in 1 .. 16 |-> 0]

DefaultOf(type) ==
    CASE type.kind = "int" -> 0
      [] type.kind = "bool" -> FALSE
      [] type.kind = "uuid" -> ZeroUuid
      [] OTHER -> <<>>

\* A field the versions from .. upto carry.
During(from, upto, name, type) ==
    [name |-> name, type |-> type, from |-> from, upto |-> upto,
     nullFrom |-> Never, tag |-> -1, default |-> DefaultOf(type)]
Since(from, name, type) == During(from, Forever, name, type)
Until(upto, name, type) == During(0, upto, name, type)
Always(name, type) == During(0, Forever, name, type)
Defaulting(default, field) == [field EXCEPT !.default = default]
\* An Option that may be None from the given version on.
NullableFrom(version, field) ==
    [field EXCEPT !.nullFrom = version, !.default = <<>>]
\* An Option carried in the tagged-field section when it is Some.
Tagged(tag, field) == [field EXCEPT !.tag = tag, !.default = <<>>]

IsNullable(field) == field.nullFrom # Never
Carries(field, version) == field.from <= version /\ version <= field.upto
Names(struct) == {struct.fields[i].name : i \in DOMAIN struct.fields}
FieldNamed(struct, name) ==
    LET i == CHOOSE j \in DOMAIN struct.fields : struct.fields[j].name = name
    IN struct.fields[i]

\* The Default impl of a generated struct.
DefaultStruct(struct) ==
    [name \in Names(struct) \union {"unknown"} |->
        IF name = "unknown" THEN <<>> ELSE FieldNamed(struct, name).default]

----------------------------------------------------------------------------
(* Messages: a struct with the versions it has, the version from which its  *)
(* encoding is flexible, and its api key (-1 for what has none).            *)

Message(key, min, max, flexFrom, struct) ==
    [key |-> key, min |-> min, max |-> max, flexFrom |-> flexFrom,
     struct |-> struct]

IsFlexible(message, version) == version >= message.flexFrom

----------------------------------------------------------------------------
(* Encoding. Values arrive as Options; a None is refused below the version  *)
(* that allows it, and is -1 in a nullable struct's marker byte.            *)

RECURSIVE PutValue(_, _, _, _), PutStruct(_, _, _, _)

PutValue(type, opt, version, flexible) ==
    CASE type.kind = "int" -> PutInt(opt[1], type.width)
      [] type.kind = "bool" -> PutBool(opt[1])
      [] type.kind = "uuid" -> PutUuid(opt[1])
      [] type.kind = "string" -> PutNullableString(opt, flexible)
      [] type.kind = "classic_string" -> PutNullableString(opt, FALSE)
      [] type.kind = "bytes" -> PutNullableBytes(opt, flexible)
      [] type.kind = "array" ->
            IF opt = <<>> THEN PutArrayLen(<<>>, flexible)
            ELSE PutArrayLen(<<Len(opt[1])>>, flexible) \o
                 FlattenSeq([i \in DOMAIN opt[1] |->
                     PutValue(type.of, <<opt[1][i]>>, version, flexible)])
      [] type.kind = "struct" -> PutStruct(type, opt[1], version, flexible)

PutField(field, value, version, flexible) ==
    CASE ~Carries(field, version) -> <<>>
      [] field.nullFrom = Never ->
            PutValue(field.type, <<value>>, version, flexible)
      [] value = <<>> /\ version < field.nullFrom -> Unencodable
      [] field.type.kind # "struct" ->
            PutValue(field.type, value, version, flexible)
      [] value = <<>> -> PutInt(-1, 1)
      [] OTHER -> PutInt(1, 1) \o
                  PutValue(field.type, value, version, flexible)

\* What a tag's bytes hold, given the field's value: a nullable one is an
\* Option of an Option, and Some(None) is a tag whose value is null.
TagOption(field, value) == IF IsNullable(field) THEN value[1] ELSE value

PutStruct(struct, value, version, flexible) ==
    LET plain == SelectSeq(struct.fields, LAMBDA f : f.tag < 0)
        present == SelectSeq(struct.fields,
            LAMBDA f : /\ f.tag >= 0
                       /\ Carries(f, version)
                       /\ value[f.name] # <<>>)
        known == [i \in DOMAIN present |->
            [tag |-> present[i].tag,
             data |-> PutValue(present[i].type,
                               TagOption(present[i], value[present[i].name]),
                               version, flexible)]]
        tagged == SortSeq(value["unknown"] \o known,
                          LAMBDA a, b : a.tag < b.tag)
    IN FlattenSeq([i \in DOMAIN plain |->
                      PutField(plain[i], value[plain[i].name], version, flexible)])
       \o (IF flexible THEN PutTaggedFields(tagged) ELSE <<>>)

Encode(message, value, version) ==
    PutStruct(message.struct, value, version, IsFlexible(message, version))

----------------------------------------------------------------------------
(* Decoding, onto the defaults. GetValue yields an Option.                   *)

RECURSIVE GetValue(_, _, _, _, _), GetItems(_, _, _, _, _, _, _),
          GetFields(_, _, _, _, _, _, _), GetTagged(_, _, _, _, _, _)

Some(r) == Then(r, LAMBDA got : Read(got.at, <<got.val>>))

\* The elements of an array; one that consumed nothing is refused.
GetItems(type, count, buf, at, version, flexible, got) ==
    IF count = 0 THEN Read(at, <<got>>)
    ELSE Then(NotNull(GetValue(type, buf, at, version, flexible)), LAMBDA r :
            IF r.at = at THEN Bad
            ELSE GetItems(type, count - 1, buf, r.at, version, flexible,
                          Append(got, r.val)))

\* The field that a tag names at a version, as a sequence of at most one.
Known(struct, tag, version) ==
    SelectSeq(struct.fields, LAMBDA f : f.tag = tag /\ Carries(f, version))

\* A known tag's value, decoded wholly from its own bytes, an Option; of an
\* Option again where the tag's value may be null.
TagValue(field, data, version, flexible) ==
    LET got == GetValue(field.type, data, 1, version, flexible)
    IN Then(IF IsNullable(field) THEN got ELSE NotNull(got), LAMBDA r :
           IF r.at = Len(data) + 1 THEN Read(1, <<r.val>>) ELSE Bad)

\* Mutant: the tags this crate does not know are left out.
ForgetUnknown(got, raw) == got

\* A tag this crate does not know is kept as it came.
KeepUnknown(got, raw) == [got EXCEPT !["unknown"] = Append(@, raw)]

\* The tagged section, onto the fields got.
GetTagged(struct, raws, i, version, flexible, got) ==
    IF i > Len(raws) THEN Read(1, got)
    ELSE LET known == Known(struct, raws[i].tag, version) IN
         IF known = <<>>
         THEN GetTagged(struct, raws, i + 1, version, flexible, KeepUnknown(got, raws[i]))
         ELSE Then(TagValue(known[1], raws[i].data, version, flexible), LAMBDA r :
                 GetTagged(struct, raws, i + 1, version, flexible,
                           [got EXCEPT ![known[1].name] = r.val]))

\* A nullable struct's marker: any negative byte is None.
GetNullable(field, buf, at, version, flexible) ==
    IF field.type.kind = "struct"
    THEN Then(GetInt(buf, at, 1), LAMBDA marker :
            IF marker.val < 0 THEN Read(marker.at, <<>>)
            ELSE GetValue(field.type, buf, marker.at, version, flexible))
    ELSE GetValue(field.type, buf, at, version, flexible)

GetField(field, buf, at, version, flexible) ==
    IF IsNullable(field)
    THEN Then(GetNullable(field, buf, at, version, flexible), LAMBDA r :
            IF r.val = <<>> /\ version < field.nullFrom THEN Bad ELSE r)
    ELSE NotNull(GetValue(field.type, buf, at, version, flexible))

GetFields(struct, i, buf, at, version, flexible, got) ==
    IF i > Len(struct.fields)
    THEN Then(IF flexible THEN GetTaggedFields(buf, at) ELSE Read(at, <<>>), LAMBDA raws :
            Then(GetTagged(struct, raws.val, 1, version, flexible, got), LAMBDA all :
                    Read(raws.at, <<all.val>>)))
    ELSE IF struct.fields[i].tag >= 0 \/ ~Carries(struct.fields[i], version)
    THEN GetFields(struct, i + 1, buf, at, version, flexible, got)
    ELSE Then(GetField(struct.fields[i], buf, at, version, flexible), LAMBDA r :
            GetFields(struct, i + 1, buf, r.at, version, flexible,
                      [got EXCEPT ![struct.fields[i].name] = r.val]))

GetValue(type, buf, at, version, flexible) ==
    CASE type.kind = "int" -> Some(GetInt(buf, at, type.width))
      [] type.kind = "bool" -> Some(GetBool(buf, at))
      [] type.kind = "uuid" -> Some(GetUuid(buf, at))
      [] type.kind = "string" -> GetNullableString(buf, at, flexible)
      [] type.kind = "classic_string" -> GetNullableString(buf, at, FALSE)
      [] type.kind = "bytes" -> GetNullableBytes(buf, at, flexible)
      [] type.kind = "array" ->
            Then(GetArrayLen(buf, at, flexible), LAMBDA len :
                IF len.val = <<>> THEN len
                ELSE GetItems(type.of, len.val[1], buf, len.at, version,
                              flexible, <<>>))
      [] type.kind = "struct" ->
            GetFields(type, 1, buf, at, version, flexible, DefaultStruct(type))

\* [at, val] with the decoded struct itself as the value.
Decode(message, buf, at, version) ==
    NotNull(GetValue(message.struct, buf, at, version,
                     IsFlexible(message, version)))

\* Decoding that must leave nothing of the buffer.
DecodeWhole(message, buf, at, version) ==
    Then(Decode(message, buf, at, version), LAMBDA r :
        IF r.at = Len(buf) + 1 THEN r ELSE Bad)
=============================================================================
