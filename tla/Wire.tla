-------------------------------- MODULE Wire --------------------------------
(* The primitive codecs of odradek-protocol (wire.rs) and the frame envelope *)
(* (frame.rs), over sequences of bytes 0 .. 255.                             *)
(*                                                                           *)
(* An encoder maps a value to a sequence of bytes. An encoder that returns   *)
(* EncodeError yields Unencodable, and since encodings are concatenated, one *)
(* that holds its marker anywhere has failed as a whole.                     *)
(*                                                                           *)
(* A decoder takes a buffer and the index of the next unread byte and yields *)
(* [at, val]: the index after what it read and the value. Every DecodeError  *)
(* is Bad, whose index is 0.                                                 *)
(*                                                                           *)
(* An Option is a sequence of at most one element: <<>> is None.             *)
EXTENDS Integers, Sequences, SequencesExt

Bytes == 0 .. 255
Unencodable == <<-1>>
Encodes(bytes) == -1 \notin {bytes[i] : i \in DOMAIN bytes}

Bad == [at |-> 0, val |-> <<>>]
Read(at, val) == [at |-> at, val |-> val]
IsBad(r) == r.at = 0
\* What the question mark does: go on with what was read, or fail with it.
Then(r, Next(_)) == IF IsBad(r) THEN Bad ELSE Next(r)

\* ensure: the buffer holds n more bytes from index at.
Has(buf, at, n) == n <= Len(buf) - at + 1
Slice(buf, at, n) == SubSeq(buf, at, at + n - 1)

----------------------------------------------------------------------------
(* Fixed-width integers, big-endian two's complement. The model's integers  *)
(* are those of 31 bits and a sign; one beyond them is read as Huge.        *)

Huge == 2 ^ 30

NatByte(n, place) == IF place > 3 THEN 0 ELSE (n \div 256 ^ place) % 256

PutInt(n, width) ==
    [i \in 1 .. width |-> IF n >= 0 THEN NatByte(n, width - i)
                                    ELSE 255 - NatByte(-(n + 1), width - i)]

\* The number in a run of bytes, most significant first.
Number(bytes) == FoldLeft(LAMBDA n, b : 256 * n + b, 0, bytes)
\* The same of a run of width bytes, of which only the last four count.
Magnitude(bytes, width) ==
    IF width > 4 /\ (bytes[width - 3] >= 128 \/ \E i \in 1 .. width - 4 : bytes[i] # 0)
    THEN Huge ELSE Number(SubSeq(bytes, Max({1, width - 3}), width))
Signed(bytes, width) ==
    IF bytes[1] < 128 THEN Magnitude(bytes, width)
    ELSE -Magnitude([i \in DOMAIN bytes |-> 255 - bytes[i]], width) - 1

GetInt(buf, at, width) ==
    IF Has(buf, at, width) THEN Read(at + width, Signed(Slice(buf, at, width), width))
    ELSE Bad

PutBool(b) == IF b THEN <<1>> ELSE <<0>>
GetBool(buf, at) ==
    IF Has(buf, at, 1) THEN Read(at + 1, buf[at] # 0) ELSE Bad

----------------------------------------------------------------------------
(* Varints: seven bits to a byte, low bits first. A value of 2^28 or more   *)
(* is read as Huge: no length or tag in the model is that large, so what    *)
(* follows fails either way.                                                *)

RECURSIVE PutUnsignedVarint(_)
PutUnsignedVarint(n) ==
    IF n < 128 THEN <<n>>
    ELSE <<(n % 128) + 128>> \o PutUnsignedVarint(n \div 128)

\* The number in the groups of seven bits from index at to index end.
Groups(buf, at, end) ==
    IF \E i \in at + 4 .. end : buf[i] % 128 # 0 THEN Huge
    ELSE FoldLeft(LAMBDA n, i : 128 * n + (buf[at + end - i] % 128), 0,
                  [i \in 1 .. end - at + 1 |-> at + i - 1])
VarintTo(buf, at, end) ==
    IF end = at + 9 /\ buf[end] > 1 THEN Bad ELSE Read(end + 1, Groups(buf, at, end))
\* The groups end with the first byte below 128, the tenth at the latest.
GetUnsignedVarint(buf, at) ==
    LET end == SelectInSubSeq(buf, at, Min({at + 9, Len(buf)}), LAMBDA b : b < 128)
    IN IF end = 0 THEN Bad ELSE VarintTo(buf, at, end)

Zigzag(n) == IF n >= 0 THEN 2 * n ELSE -2 * n - 1
Unzigzag(u) == IF u % 2 = 0 THEN u \div 2 ELSE -((u + 1) \div 2)

PutVarint(n) == PutUnsignedVarint(Zigzag(n))
GetVarint(buf, at) ==
    Then(GetUnsignedVarint(buf, at), LAMBDA r : Read(r.at, Unzigzag(r.val)))

----------------------------------------------------------------------------
(* Length prefixes. A classic length is an integer of the given width, -1   *)
(* for null; a compact one is an unsigned varint of the length plus one, 0  *)
(* for null. The length is an Option.                                       *)

MaxOfWidth(width) == IF width = 2 THEN 32767 ELSE 2147483647

\* Mutant: a compact length without the one that makes room for null.
PlainPutLen(len, width, flexible) ==
    CASE flexible -> PutUnsignedVarint(IF len = <<>> THEN 0 ELSE len[1])
      [] len = <<>> -> PutInt(-1, width)
      [] len[1] > MaxOfWidth(width) -> Unencodable
      [] OTHER -> PutInt(len[1], width)

PutLen(len, width, flexible) ==
    CASE flexible -> PutUnsignedVarint(IF len = <<>> THEN 0 ELSE len[1] + 1)
      [] len = <<>> -> PutInt(-1, width)
      [] len[1] > MaxOfWidth(width) -> Unencodable
      [] OTHER -> PutInt(len[1], width)

\* len_from and compact_len: a length as an Option.
LenOf(at, len) ==
    IF len < -1 THEN Bad ELSE Read(at, IF len = -1 THEN <<>> ELSE <<len>>)
GetLen(buf, at, width, flexible) ==
    IF flexible
    THEN Then(GetUnsignedVarint(buf, at), LAMBDA r : LenOf(r.at, r.val - 1))
    ELSE Then(GetInt(buf, at, width), LAMBDA r : LenOf(r.at, r.val))

\* A length-prefixed run of bytes: STRING and BYTES, classic and compact.
PutRun(opt, width, flexible) ==
    IF opt = <<>> THEN PutLen(<<>>, width, flexible)
    ELSE PutLen(<<Len(opt[1])>>, width, flexible) \o opt[1]

\* The bytes of a run whose length has been read.
RunOf(buf, r, n) ==
    IF Has(buf, r.at, n) THEN Read(r.at + n, <<Slice(buf, r.at, n)>>) ELSE Bad

\* Mutant: a run cut short is read as far as it goes.
ClampedGetRun(buf, at, width, flexible) ==
    Then(GetLen(buf, at, width, flexible),
         LAMBDA r : IF r.val = <<>> THEN r
                    ELSE RunOf(buf, r, Min({r.val[1], Len(buf) - r.at + 1})))

GetRun(buf, at, width, flexible) ==
    Then(GetLen(buf, at, width, flexible),
         LAMBDA r : IF r.val = <<>> THEN r ELSE RunOf(buf, r, r.val[1]))

\* Every string of the model is ASCII; from_utf8 refuses the other bytes.
IsUtf8(bytes) == \A i \in DOMAIN bytes : bytes[i] < 128

PutNullableString(opt, flexible) == PutRun(opt, 2, flexible)
GetNullableString(buf, at, flexible) ==
    Then(GetRun(buf, at, 2, flexible),
         LAMBDA r : IF r.val # <<>> /\ ~IsUtf8(r.val[1]) THEN Bad ELSE r)

PutNullableBytes(opt, flexible) == PutRun(opt, 4, flexible)
GetNullableBytes(buf, at, flexible) == GetRun(buf, at, 4, flexible)

\* The forms that do not admit null.
NotNull(r) == IF IsBad(r) \/ r.val = <<>> THEN Bad ELSE Read(r.at, r.val[1])

PutArrayLen(len, flexible) == PutLen(len, 4, flexible)
GetArrayLen(buf, at, flexible) == GetLen(buf, at, 4, flexible)

PutUuid(id) == id
GetUuid(buf, at) ==
    IF Has(buf, at, 16) THEN Read(at + 16, Slice(buf, at, 16)) ELSE Bad

----------------------------------------------------------------------------
(* Tagged fields: [tag, data] with the data kept raw, tags strictly         *)
(* ascending on the wire.                                                   *)

PutTaggedFields(fields) ==
    PutUnsignedVarint(Len(fields)) \o
    FlattenSeq([i \in DOMAIN fields |->
                   PutUnsignedVarint(fields[i].tag) \o
                   PutUnsignedVarint(Len(fields[i].data)) \o fields[i].data])

RECURSIVE GetTags(_, _, _, _)
\* One raw field with the given tag, behind the ones got, and those after it.
GetTagData(buf, tag, len, count, got) ==
    IF \/ got # <<>> /\ tag <= Last(got).tag
       \/ ~Has(buf, len.at, len.val)
    THEN Bad
    ELSE GetTags(buf, len.at + len.val, count - 1,
                 Append(got, [tag |-> tag, data |-> Slice(buf, len.at, len.val)]))
GetTags(buf, at, count, got) ==
    IF count = 0 THEN Read(at, got)
    ELSE Then(GetUnsignedVarint(buf, at), LAMBDA tag :
            Then(GetUnsignedVarint(buf, tag.at), LAMBDA len :
                    GetTagData(buf, tag.val, len, count, got)))

GetTaggedFields(buf, at) ==
    Then(GetUnsignedVarint(buf, at),
         LAMBDA count : GetTags(buf, count.at, count.val, <<>>))

----------------------------------------------------------------------------
(* The frame envelope: a 32-bit length, then the payload.                   *)

DEFAULT_MAX_FRAME == 64 * 2 ^ 20

\* A payload that fails to encode leaves the send buffer as it was.
Frame(buf, payload) ==
    IF Encodes(payload) THEN buf \o PutInt(Len(payload), 4) \o payload ELSE buf

CheckLen(len) == len >= 0 /\ len <= DEFAULT_MAX_FRAME

\* [at, val]: the payload as an Option, None while the frame is incomplete.
SplitAt(buf, len) ==
    CASE IsBad(len) -> Read(1, <<>>)
      [] ~CheckLen(len.val) -> Bad
      [] ~Has(buf, len.at, len.val) -> Read(1, <<>>)
      [] OTHER -> Read(len.at + len.val, <<Slice(buf, len.at, len.val)>>)
TrySplit(buf) == SplitAt(buf, GetInt(buf, 1, 4))

PeekCorrelationId(payload) == GetInt(payload, 1, 4)
=============================================================================
