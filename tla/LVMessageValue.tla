---------------------------- MODULE LVMessageValue ----------------------------
(***************************************************************************)
(* The values of a message (message_value.h, lv_message_value.cc): for     *)
(* every protobuf type the size ByteSizeLong predicts and the bytes        *)
(* Serialize writes, with the sizes the objects cache in between.          *)
(*                                                                         *)
(* A value is [type, rep, v, cache].  v is an integer for a numeric type   *)
(* (a bool is 0 or 1, a float or double its bit pattern), a sequence of    *)
(* bytes for a string or bytes, a message for a message, and a sequence of *)
(* these if the field is repeated.  A message is [md, vals, oneof,         *)
(* unknown]: its metadata's name, _values by field number,                 *)
(* _oneofContainerToSelectedIndexMap and the unknown fields in order.      *)
(***************************************************************************)
EXTENDS FieldFormat, Functions

CONSTANT
    MaxNesting  \* bound: how deep messages nest

ASSUME MaxNestingAssumption == MaxNesting \in Nat

NoMetadata == "no metadata"
EmptyMessage(md) == [md |-> md, vals |-> <<>>, oneof |-> <<>>, unknown |-> <<>>]

\* The messages that are values of m.
MessagesOf(f) == IF f.rep THEN Range(f.v) ELSE {f.v}
Nested(m) == LET nested == {n \in DOMAIN m.vals : m.vals[n].type = MessageType}
             IN UNION {MessagesOf(m.vals[n]) : n \in nested}

\* The numbers of the fields in the order of std::map.
FieldNumbers(m) == LET nums == DOMAIN m.vals IN
    [i \in 1..Cardinality(nums) |->
        CHOOSE n \in nums : Cardinality({k \in nums : k < n}) = i - 1]
------------------------------------------------------------------------------
(* Three methods of LVMessage go down into the messages of its values: for *)
(* each of these, of[m] is what ByteSizeLong returns (size), the message   *)
(* with what that leaves in its caches (sized), and what                   *)
(* SerializeToCodedStream writes (bytes).                                  *)

\* LVNestedMessageMessageValue and LVRepeatedNestedMessageMessageValue.
NestedByteSizes(f, of) ==
    IF f.rep THEN MapSeq(LAMBDA m : of[m].size, f.v) ELSE of[f.v].size
NestedSize(num, f, of) == LET sizes == NestedByteSizes(f, of) IN
    IF f.rep THEN SumOf(MapSeq(LAMBDA n : LenDelimSize(num, n), sizes))
    ELSE LenDelimSize(num, sizes)

FieldSize(num, f, of) ==
    CASE f.type = MessageType -> NestedSize(num, f, of)
      [] f.type \in StringTypes -> StringSize(num, f)
      [] f.type \in FixedTypes -> FixedSize(num, f)
      [] f.type \in {"SInt32Value", "SInt64Value"} -> ZigZagSize(num, f)
      [] OTHER -> IF f.rep THEN RepeatedVarintSize(num, f) ELSE ScalarVarintSize(num, f)

\* What is left in _cachedDataSize and _cachedNestedByteSize(s).  The values of
\* fixed size and the repeated bool have no use for a cache.
SizedField(f, of) ==
    CASE f.type = MessageType ->
            [f EXCEPT !.cache = NestedByteSizes(f, of),
                      !.v = IF f.rep THEN MapSeq(LAMBDA m : of[m].sized, @) ELSE of[@].sized]
      [] f.rep /\ f.type \in NumericTypes \ (FixedTypes \cup {"BoolValue"}) ->
            [f EXCEPT !.cache = PackedSize(f.type, f.v)]
      [] OTHER -> f

\* LVNestedMessageMessageValue::Serialize uses the cached sizes; the repeated form
\* does only if it has one per element.
SerializeNested(num, f, of) ==
    LET one(size, m) == WriteTag(num, WireLengthDelimited) \o WriteVarint(size) \o of[m].bytes
        haveCached == IF f.rep THEN Len(f.cache) = Len(f.v) ELSE f.cache # NotCached
        sizes == IF haveCached THEN f.cache ELSE NestedByteSizes(f, of)
    IN IF f.rep THEN Concat([i \in DOMAIN f.v |-> one(sizes[i], f.v[i])])
       ELSE one(sizes, f.v)

SerializeField(num, f, of) ==
    CASE f.type = MessageType -> SerializeNested(num, f, of)
      [] f.type \in StringTypes -> SerializeString(num, f)
      [] ~f.rep /\ f.type \in NumericTypes -> SerializeScalar(num, f)
      [] f.rep /\ f.type \in FixedTypes \cup {"BoolValue"} -> SerializeRepeatedFixed(num, f)
      [] OTHER -> SerializeRepeatedVarint(num, f)

\* The fields in the order of their numbers; unknown fields are not written.
Methods(m, of) == LET inOrder == FieldNumbers(m) IN
    [size  |-> SumOf(MapSeq(LAMBDA n : FieldSize(n, m.vals[n], of), inOrder)),
     sized |-> [m EXCEPT !.vals = [n \in DOMAIN @ |-> SizedField(@[n], of)]],
     bytes |-> Concat(MapSeq(LAMBDA n : SerializeField(n, m.vals[n], of), inOrder))]
Messages == INSTANCE Nesting WITH Parts <- Nested, Do <- Methods

ByteSizeLong(m) == Messages!Descend(m).size
Sized(m) == Messages!Descend(m).sized
SerializeToCodedStream(m) == Messages!Descend(m).bytes
=============================================================================
