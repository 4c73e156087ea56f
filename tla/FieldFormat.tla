------------------------------ MODULE FieldFormat ------------------------------
(***************************************************************************)
(* How the values of a message that are not messages travel: the size the  *)
(* value classes predict (message_value.h, lv_message_value.cc), the bytes *)
(* they write, and what the parser reads back (lv_message.cc).             *)
(*                                                                         *)
(* A value is [type, rep, v, cache].  v is an integer for a numeric type   *)
(* (a bool is 0 or 1, a float or double its bit pattern), a sequence of    *)
(* bytes for a string or bytes, and a sequence of these if the field is    *)
(* repeated.                                                               *)
(***************************************************************************)
EXTENDS WireFormat

\* How a numeric type travels: what Read reads, what Transform makes of it.
Traits == [
    Int32Value    |-> [read |-> "varint", w |-> W32, as |-> "signed"],
    Int64Value    |-> [read |-> "varint", w |-> W64, as |-> "signed"],
    UInt32Value   |-> [read |-> "varint", w |-> W32, as |-> "unsigned"],
    UInt64Value   |-> [read |-> "varint", w |-> W64, as |-> "unsigned"],
    FloatValue    |-> [read |-> "fixed",  w |-> W32, as |-> "unsigned"],
    DoubleValue   |-> [read |-> "fixed",  w |-> W64, as |-> "unsigned"],
    BoolValue     |-> [read |-> "varint", w |-> W32, as |-> "bool"],
    EnumValue     |-> [read |-> "varint", w |-> W32, as |-> "signed"],
    SInt32Value   |-> [read |-> "varint", w |-> W32, as |-> "zigzag"],
    SInt64Value   |-> [read |-> "varint", w |-> W64, as |-> "zigzag"],
    Fixed32Value  |-> [read |-> "fixed",  w |-> W32, as |-> "unsigned"],
    Fixed64Value  |-> [read |-> "fixed",  w |-> W64, as |-> "unsigned"],
    SFixed32Value |-> [read |-> "fixed",  w |-> W32, as |-> "signed"],
    SFixed64Value |-> [read |-> "fixed",  w |-> W64, as |-> "signed"]]

NumericTypes == DOMAIN Traits
FixedTypes == {t \in NumericTypes : Traits[t].read = "fixed"}
MessageType == "MessageValue"
StringTypes == {"StringValue", "BytesValue"}
Types == NumericTypes \cup StringTypes \cup {MessageType}

Wide(t) == Traits[t].w = W64

\* The numbers a numeric type holds.
Holds(t, v) ==
    CASE Traits[t].as = "bool" -> v \in {0, 1}
      [] Traits[t].as \in {"signed", "zigzag"} -> v \in Int
            /\ -Power(2)[Traits[t].w - 1] <= v /\ v < Power(2)[Traits[t].w - 1]
      [] OTHER -> v \in Nat /\ v < Power(2)[Traits[t].w]

\* The sentinel of _cachedDataSize and _cachedNestedByteSize.
NotCached == -1

\* A new value object: nothing is cached yet.
Scalar(t, v) == [type |-> t, rep |-> FALSE, v |-> v, cache |-> NotCached]
Repeated(t, vs) == [type |-> t, rep |-> TRUE, v |-> vs,
                    cache |-> IF t = MessageType THEN <<>> ELSE NotCached]

MapSeq(Op(_), s) == [i \in DOMAIN s |-> Op(s[i])]

\* The wire type of a scalar of type t.
WireTypeOf(t) ==
    CASE t \in FixedTypes -> IF Wide(t) THEN WireFixed64 ELSE WireFixed32
      [] t \in NumericTypes \ FixedTypes -> WireVarint
      [] OTHER -> WireLengthDelimited

\* WireFormatLite::Int32Size, UInt32Size, SInt32Size, ... and kFixed32Size, ...:
\* a negative int32 or enum is sign-extended and takes the longest varint.
SizeNoTag(t, v) ==
    CASE t \in FixedTypes -> Traits[t].w \div 8
      [] t = "BoolValue" -> 1
      [] Traits[t].as = "zigzag" -> VarintSize(ZigZagEncode(v))
      [] t \notin FixedTypes /\ Traits[t].as = "signed" ->
            IF v < 0 THEN MaxVarintBytes ELSE VarintSize(v)
      [] OTHER -> VarintSize(v)

\* WireFormatLite::WriteInt32NoTag, WriteBoolNoTag, WriteFixed64NoTag, ...
WriteNoTag(t, v) ==
    CASE t \in FixedTypes -> WriteLittleEndian(Unsigned(v, Traits[t].w), Traits[t].w)
      [] Traits[t].as = "zigzag" -> WriteVarint(ZigZagEncode(v))
      [] OTHER -> WriteVarint(Unsigned(v, W64))

\* LenDelimSize: tag, length and payload.
LenDelimSize(num, n) == TagSize(num) + VarintSize(n) + n

PackedSize(t, vs) == SumOf(MapSeq(LAMBDA v : SizeNoTag(t, v), vs))
PackedBytes(t, vs) == Concat(MapSeq(LAMBDA v : WriteNoTag(t, v), vs))
------------------------------------------------------------------------------
(* Sizes.                                                                  *)

\* LVStringMessageValue, LVBytesMessageValue and the repeated forms.
StringSize(num, f) ==
    IF f.rep THEN SumOf(MapSeq(LAMBDA s : LenDelimSize(num, Len(s)), f.v))
    ELSE LenDelimSize(num, Len(f.v))

\* Mutant: the 32-bit size for every 32-bit type, a negative int32 included.
ScalarVarintSize_As32Bits(num, f) == TagSize(num) + VarintSize(Unsigned(f.v, Traits[f.type].w))

\* LVVariableMessageValue<bool, int, uint32_t, int64_t, uint64_t>.
ScalarVarintSize(num, f) == TagSize(num) + SizeNoTag(f.type, f.v)

\* LVRepeatedMessageValue<int, uint32_t, int64_t, uint64_t>: packed, nothing
\* at all when empty.
RepeatedVarintSize(num, f) == LET n == PackedSize(f.type, f.v) IN
    IF n = 0 THEN 0 ELSE LenDelimSize(num, n)

\* LVSInt32MessageValue, LVSInt64MessageValue and the repeated forms.
ZigZagSize(num, f) == IF f.rep THEN RepeatedVarintSize(num, f) ELSE ScalarVarintSize(num, f)

\* float, double, fixed and sfixed: the element size times the count.
FixedSize(num, f) == LET k == Traits[f.type].w \div 8 IN
    CASE ~f.rep -> TagSize(num) + k
      [] f.rep /\ f.v = <<>> -> 0
      [] OTHER -> LenDelimSize(num, k * Len(f.v))

------------------------------------------------------------------------------
(* Serialization.                                                          *)

\* Strings and bytes; VerifyUtf8String only logs here.
SerializeString(num, f) ==
    IF f.rep THEN Concat(MapSeq(LAMBDA s : WriteLengthDelimited(num, s), f.v))
    ELSE WriteLengthDelimited(num, f.v)

SerializeScalar(num, f) == WriteTag(num, WireTypeOf(f.type)) \o WriteNoTag(f.type, f.v)

\* The packed form with the cached payload size, recomputed if there is none.
SerializeRepeatedVarint(num, f) ==
    LET n == IF f.cache = NotCached THEN PackedSize(f.type, f.v) ELSE f.cache IN
    IF f.v = <<>> THEN <<>>
    ELSE WriteTag(num, WireLengthDelimited) \o WriteVarint(n) \o PackedBytes(f.type, f.v)

\* The packed form of bool, float, double, fixed and sfixed.
SerializeRepeatedFixed(num, f) ==
    LET n == Len(f.v) * (IF f.type = "BoolValue" THEN 1 ELSE Traits[f.type].w \div 8) IN
    IF f.v = <<>> THEN <<>>
    ELSE WriteTag(num, WireLengthDelimited) \o WriteVarint(n) \o PackedBytes(f.type, f.v)

------------------------------------------------------------------------------
(* Parsing.                                                                *)

Read(t, in, p, lim) ==
    IF Traits[t].read = "fixed" THEN ReadLittleEndian(in, p, lim, Traits[t].w)
    ELSE ReadVarint(in, p, lim, Traits[t].w)

Transform(t, raw) ==
    CASE Traits[t].as = "bool" -> IF raw # 0 THEN 1 ELSE 0
      [] Traits[t].as = "zigzag" -> ZigZagDecode(raw)
      [] Traits[t].as = "signed" -> Signed(raw, Traits[t].w)
      [] OTHER -> raw

\* One number: Traits::Read, then Traits::Transform.
ReadNumber(t, in, p, lim) == [Read(t, in, p, lim) EXCEPT !.v = Transform(t, @)]

\* A round of the loop that reads a packed field up to the limit.
ReadElement(t, in, lim, r) ==
    LET n == ReadNumber(t, in, r.p, lim) IN
    CASE ~r.ok \/ r.p > lim -> r
      [] r.ok /\ r.p <= lim /\ n.ok -> Got(Append(r.v, n.v), n.p)
      [] OTHER -> Failed(n.p)

\* The elements between p and the limit: every round passes a byte or is the last.
ReadPacked(t, in, p, lim) ==
    LET R[i \in Nat] == IF i = 0 THEN Got(<<>>, p)
                                 ELSE ReadElement(t, in, lim, R[i - 1])
    IN R[Len(in) + 1]
=============================================================================
