----------------------------- MODULE ClusterCopier -----------------------------
(***************************************************************************)
(* ClusterDataCopier (cluster_copier.cc), the enum maps (enum_metadata.h), *)
(* the 2D arrays (well_known_messages) and the string conversions          *)
(* (lv_interop.cc): between a LabVIEW cluster and an LVMessage.            *)
(*                                                                         *)
(* A cluster is a sequence with one value per element of its metadata (the *)
(* position stands for the offset): an integer, a LabVIEW string, a        *)
(* cluster, [rows, cols, data], or a sequence of such values for a 1D      *)
(* array.  A null array or string handle is the empty sequence.            *)
(***************************************************************************)
EXTENDS LVMessage

CONSTANTS
    Enums,              \* enum name -> the proto values in the order of the LabVIEW ring
    Double2DArray,      \* names of the well-known messages
    String2DArray

\* The proto values of an enum are 32-bit integers; the enum of a field is registered.
ASSUME EnumsAssumption ==
    /\ \A name \in DOMAIN Enums : \A i \in DOMAIN Enums[name] : Holds("EnumValue", Enums[name][i])
    /\ \A name \in DOMAIN Metadata : \A i \in DOMAIN Metadata[name] :
            LET el == Metadata[name][i] IN el.type = "EnumValue" => el.nested \in DOMAIN Enums

\* MessageElementMetadata::wellKnownType: only an element that is not repeated.
Is2DArray(el) == ~el.rep /\ el.nested \in {Double2DArray, String2DArray}
RowsIndex == 1
ColumnsIndex == 2
DataIndex == 3

\* Base2DArray::GetMetadata.
GetMetadata(type) ==
    LET element(num, t, rep) == [num |-> num, type |-> t, rep |-> rep, oneof |-> NoOneof, nested |-> ""]
    IN <<element(RowsIndex, "Int32Value", FALSE), element(ColumnsIndex, "Int32Value", FALSE),
         element(DataIndex, type, TRUE)>>
\* What the type of an element lets LabVIEW put there: an array is a sequence, an
\* enum any position in a ring, a character a byte.  A cluster is looked at by itself.
IsSequence(v) == v \in Seq(Range(v))
IsString(v) == IsSequence(v) /\ Range(v) \subseteq 0..255
Fits(el, v) ==
    CASE el.type = "EnumValue" -> v \in Int
      [] el.type \in NumericTypes \ {"EnumValue"} -> Holds(el.type, v)
      [] el.type \in StringTypes -> IsString(v)
      [] OTHER -> Is2DArray(el) =>
            /\ Holds("Int32Value", v.rows) /\ Holds("Int32Value", v.cols) /\ IsSequence(v.data)
            /\ \A x \in Range(v.data) :
                    IF el.nested = Double2DArray THEN Holds("DoubleValue", x) ELSE IsString(x)
IsCluster(md, c) == md \in DOMAIN Metadata /\ DOMAIN c = DOMAIN Metadata[md] /\ \A i \in DOMAIN c :
    LET el == Metadata[md][i] IN
    IF el.rep THEN IsSequence(c[i]) /\ \A x \in Range(c[i]) : Fits(el, x) ELSE Fits(el, c[i])
------------------------------------------------------------------------------
(* Conversions.                                                            *)

\* LVEnumToProtoEnum: LabVIEW counts from 0.  ProtoEnumToLVEnum: of several
\* names for one proto value the first.
IsLVEnumValue(name, lv) == lv + 1 \in DOMAIN Enums[name]
GetProtoValueFromLVEnumValue(name, lv) == Enums[name][lv + 1]
IsProtoValue(name, v) == \E i \in DOMAIN Enums[name] : Enums[name][i] = v
GetLVEnumValueFromProtoValue(name, v) == (CHOOSE i \in DOMAIN Enums[name] :
    Enums[name][i] = v /\ \A j \in 1..(i - 1) : Enums[name][j] # v) - 1

\* LabVIEW's ConvertSystemStringToUTF8 and back, for a Latin-1 system.
ConvertSystemStringToUTF8(s) ==
    Concat(MapSeq(LAMBDA c : IF c < 128 THEN <<c>> ELSE <<192 + c \div 64, 128 + (c % 64)>>, s))
CanConvertUTF8StringToSystem(s) ==
    IsStructurallyValid(s) /\ \A i \in DOMAIN s : s[i] < 196
ConvertUTF8StringToSystem(s) ==
    LET starts == SelectSeq([i \in DOMAIN s |-> i], LAMBDA i : s[i] \notin 128..191) IN
    MapSeq(LAMBDA i : IF s[i] < 128 THEN s[i] ELSE ((s[i] - 192) * 64) + s[i + 1] - 128, starts)

\* Mutant: the bytes of the LabVIEW string as they are.
GetLVString_Raw(s, toggles) == s

\* GetLVString and SetLVString convert unless the toggle is off; GetLVBytes and
\* SetLVBytes never do, and in legacy mode a bytes element is a string element.
GetLVString(s, toggles) == IF toggles.utf8Strings THEN ConvertSystemStringToUTF8(s) ELSE s
SetLVStringThrows(s, toggles) == toggles.utf8Strings /\ ~CanConvertUTF8StringToSystem(s)
SetLVString(s, toggles) == IF toggles.utf8Strings THEN ConvertUTF8StringToSystem(s) ELSE s
------------------------------------------------------------------------------
(* From a cluster to a message.                                            *)

\* The selected_index elements fill the map, whatever number LabVIEW put there.
SelectedIndices(md, c) ==
    LET els == Metadata[md]
        sel == {i \in DOMAIN els : els[i].oneof # NoOneof /\ els[i].num < 0}
    IN [o \in {els[i].oneof : i \in sel} |-> c[CHOOSE i \in sel : els[i].oneof = o]]

\* The elements that go into the message: no selected_index, and of a oneof
\* only the selected member.
CopiedElements(md, c) == LET els == Metadata[md] IN
    {i \in DOMAIN els : /\ els[i].num >= 0 /\ i \in Mapped(md, els[i].num)
                        /\ els[i].oneof # NoOneof =>
                                SelectedIndices(md, c)[els[i].oneof] = els[i].num}

\* The value class each copy makes: CopyBoolFromCluster, CopyInt32FromCluster and
\* CopyUInt32FromCluster; the other varints and floats; zigzag and fixed.
VariableFromCluster == [BoolValue |-> "BoolValue", Int32Value |-> "Int32Value",
                        UInt32Value |-> "UInt32Value"]
WideFromCluster == [Int64Value |-> "Int64Value", UInt64Value |-> "UInt64Value",
                    DoubleValue |-> "DoubleValue", FloatValue |-> "FloatValue"]
FixedFromCluster == [SInt32Value |-> "SInt32Value", SInt64Value |-> "SInt64Value",
                     Fixed32Value |-> "Fixed32Value", Fixed64Value |-> "Fixed64Value",
                     SFixed32Value |-> "SFixed32Value", SFixed64Value |-> "SFixed64Value"]
FromCluster(t) ==
    CASE t \in DOMAIN VariableFromCluster -> VariableFromCluster[t]
      [] t \in DOMAIN WideFromCluster -> WideFromCluster[t]
      [] t \in DOMAIN FixedFromCluster -> FixedFromCluster[t]

\* A repeated value is made only for an array that is not empty.
AddFromCluster(t, rep, v) ==
    IF ~rep THEN {Scalar(t, v)} ELSE IF v = <<>> THEN {} ELSE {Repeated(t, v)}
NumericFromCluster(el, v) == AddFromCluster(FromCluster(el.type), el.rep, v)

\* CopyEnumFromCluster: through the enum's map.
EnumFromCluster(el, v) ==
    LET to(lv) == GetProtoValueFromLVEnumValue(el.nested, lv) IN
    AddFromCluster(el.type, el.rep, IF el.rep THEN MapSeq(to, v) ELSE to(v))

\* CopyStringFromCluster.
StringFromCluster(el, v, toggles) ==
    LET to(s) == GetLVString(s, toggles) IN
    AddFromCluster(el.type, el.rep, IF el.rep THEN MapSeq(to, v) ELSE to(v))

\* CopyBytesFromCluster.
BytesFromCluster(el, v, toggles) ==
    IF toggles.utf8Strings THEN AddFromCluster(el.type, el.rep, v)
    ELSE StringFromCluster(el, v, toggles)

\* Base2DArray::CopyFromClusterToMessage: nothing for an array without elements.
Array2DFromCluster(el, v, toggles) ==
    LET data == IF el.nested = Double2DArray THEN Repeated("DoubleValue", v.data)
                ELSE Repeated("StringValue", MapSeq(LAMBDA s : GetLVString(s, toggles), v.data))
        fields == [n \in {RowsIndex, ColumnsIndex, DataIndex} |->
                    CASE n = RowsIndex -> Scalar("Int32Value", v.rows)
                      [] n = ColumnsIndex -> Scalar("Int32Value", v.cols)
                      [] n = DataIndex -> data]
    IN IF v.rows = 0 \/ v.cols = 0 THEN {}
       ELSE {Scalar(MessageType, [EmptyMessage(el.nested) EXCEPT !.vals = fields])}

\* A cluster of a message, copied under toggles.
Source(md, c, toggles) == [md |-> md, c |-> c, toggles |-> toggles]

\* The clusters of the messages among the elements that are copied.
ClustersOf(el, v) == IF el.rep THEN Range(v) ELSE {v}
ClustersIn(s) ==
    LET els == Metadata[s.md]
        messages == {i \in CopiedElements(s.md, s.c) :
                        els[i].type = MessageType /\ ~Is2DArray(els[i])}
    IN UNION {{Source(els[i].nested, c, s.toggles) : c \in ClustersOf(els[i], s.c[i])} :
              i \in messages}

\* CopyMessageFromCluster, given the messages its clusters make.
MessageFromCluster(el, v, toggles, copies) ==
    LET to(c) == copies[Source(el.nested, c, toggles)] IN
    IF Is2DArray(el) THEN Array2DFromCluster(el, v, toggles)
    ELSE AddFromCluster(el.type, el.rep, IF el.rep THEN MapSeq(to, v) ELSE to(v))

ElementFromCluster(el, v, toggles, copies) ==
    CASE el.type = "EnumValue" -> EnumFromCluster(el, v)
      [] el.type \in NumericTypes \ {"EnumValue"} -> NumericFromCluster(el, v)
      [] el.type = "StringValue" -> StringFromCluster(el, v, toggles)
      [] el.type = "BytesValue" -> BytesFromCluster(el, v, toggles)
      [] OTHER -> MessageFromCluster(el, v, toggles, copies)

\* CopyFromCluster into the cleared message m: the oneof map, the values.
CopyInto(m, s, copies) ==
    LET els == Metadata[s.md]
        from(i) == ElementFromCluster(els[i], s.c[i], s.toggles, copies)
        present == {i \in CopiedElements(s.md, s.c) : from(i) # {}}
        value(n) == CHOOSE f \in from(CHOOSE i \in Mapped(s.md, n) : TRUE) : TRUE
    IN [m EXCEPT !.oneof = SelectedIndices(s.md, s.c),
                 !.vals = [n \in {els[i].num : i \in present} |-> value(n)]]

\* The message made of the cluster of an element.
MessageOf(s, copies) == CopyInto(EmptyMessage(s.md), s, copies)
Copying == INSTANCE Nesting WITH Parts <- ClustersIn, Do <- MessageOf

\* CopyFromCluster: Clear, then the copy.
CopyFromCluster(m, c, toggles) == LET s == Source(m.md, c, toggles) IN
    CopyInto(Clear(m), s, [part \in ClustersIn(s) |-> Copying!Descend(part)])

\* CopyFromCluster throws for an enum value LabVIEW's ring does not have.
CopyFromClusterThrows(md, c, toggles) ==
    \E s \in Copying!Within(Source(md, c, toggles)) : \E i \in CopiedElements(s.md, s.c) :
        LET el == Metadata[s.md][i] IN
        /\ el.type = "EnumValue"
        /\ \E lv \in (IF el.rep THEN Range(s.c[i]) ELSE {s.c[i]}) : ~IsLVEnumValue(el.nested, lv)

\* AnyBuilderAddValue: an element without metadata; an enum is an int32 and a
\* message is refused.
AnyBuilderAddValue(m, type, rep, num, v, toggles) ==
    LET t == IF type = "EnumValue" THEN "Int32Value" ELSE type
        el == [num |-> num, type |-> t, rep |-> rep, oneof |-> NoOneof, nested |-> ""]
        made == ElementFromCluster(el, v, toggles, <<>>)
    IN IF type = MessageType \/ made = {} THEN m
       ELSE Emplace(m, num, CHOOSE f \in made : TRUE)
------------------------------------------------------------------------------
(* From a message to a cluster: [ok, v] with the new contents, ok = FALSE  *)
(* for an exception, which leaves what was written before it.              *)

Put(v) == [ok |-> TRUE, v |-> v]
Threw(v) == [ok |-> FALSE, v |-> v]

IsMessage(el) == el.type = MessageType /\ ~Is2DArray(el)
IsEmbedded(el) == IsMessage(el) /\ ~el.rep

\* The contents of an element nothing was written to, given those of the messages.
DefaultValue(el, defaults) ==
    CASE el.rep \/ el.type \in StringTypes -> <<>>
      [] ~el.rep /\ Is2DArray(el) -> [rows |-> 0, cols |-> 0, data |-> <<>>]
      [] IsEmbedded(el) -> defaults[el.nested]
      [] OTHER -> 0

DefaultOf(md, defaults) == MapSeq(LAMBDA el : DefaultValue(el, defaults), Metadata[md])
EmbeddedIn(md) == LET els == Metadata[md] IN
    {els[i].nested : i \in {k \in DOMAIN els : IsEmbedded(els[k])}}
Defaults == INSTANCE Nesting WITH Parts <- EmbeddedIn, Do <- DefaultOf
DefaultCluster(md) == Defaults!Descend(md)

\* The type code each copy gives NumericArrayResize and the width in bytes of
\* the elements it then copies: CopyInt32ToCluster and CopyUInt32ToCluster; the
\* other varints and floats; zigzag and fixed.
Word == [code |-> 3, width |-> 4]
DoubleWord == [code |-> 4, width |-> 8]
VariableToCluster == [Int32Value |-> Word, UInt32Value |-> Word]
WideToCluster == [Int64Value |-> DoubleWord, UInt64Value |-> [code |-> 8, width |-> 8],
                  BoolValue |-> [code |-> 1, width |-> 1],
                  DoubleValue |-> [code |-> 10, width |-> 8], FloatValue |-> Word]
FixedToCluster == [SInt32Value |-> Word, SInt64Value |-> DoubleWord,
                   Fixed32Value |-> Word, SFixed32Value |-> Word,
                   Fixed64Value |-> DoubleWord, SFixed64Value |-> DoubleWord]
ToCluster == VariableToCluster @@ WideToCluster @@ FixedToCluster

\* Bytes of an element of a LabVIEW array of the type code.
SizeOfTypeCode(code) == CASE code \in {1, 5} -> 1 [] code \in {2, 6} -> 2
                          [] code \in {3, 7, 9} -> 4 [] OTHER -> 8

\* What a copy past the end of the array would leave behind.
Overrun == "overrun"

\* An array of n elements of the type code with vs copied into it; no elements
\* leave the array as it was.
ArrayWith(as, vs, old) ==
    LET capacity == Len(vs) * SizeOfTypeCode(as.code) IN
    IF vs = <<>> THEN old
    ELSE [i \in DOMAIN vs |-> IF i * as.width <= capacity THEN vs[i] ELSE Overrun]

NumericToCluster(el, v, old) ==
    Put(IF el.rep THEN ArrayWith(ToCluster[el.type], v, old) ELSE v)

\* CopyEnumToCluster.
EnumToCluster(el, v, old) ==
    LET to(p) == GetLVEnumValueFromProtoValue(el.nested, p)
        all == IF el.rep THEN Range(v) ELSE {v}
    IN IF \E p \in all : ~IsProtoValue(el.nested, p) THEN Threw(old)
       ELSE Put(IF el.rep THEN ArrayWith(Word, MapSeq(to, v), old) ELSE to(v))

\* NumericArrayResize keeps the elements there were; LabVIEW pads with nulls.
NumericArrayResize(old, n, null) ==
    [i \in 1..n |-> IF i <= Len(old) THEN old[i] ELSE null]
Overwritten(old, vs) == [i \in DOMAIN old |-> IF i <= Len(vs) THEN vs[i] ELSE old[i]]

\* SetLVString into the handles of an array one after the other, each set to null
\* before; a string that cannot be converted leaves its handle null and the rest alone.
SetLVStrings(old, vs, toggles) ==
    LET to(s) == SetLVString(s, toggles)
        throwing == {i \in DOMAIN vs : SetLVStringThrows(vs[i], toggles)}
    IN IF throwing = {} THEN Put(Overwritten(old, MapSeq(to, vs)))
       ELSE Threw(Overwritten(old, MapSeq(to, SubSeq(vs, 1, Min(throwing) - 1)) \o << <<>> >>))

\* CopyStringToCluster.
StringToCluster(el, v, old, toggles) ==
    CASE el.rep /\ v = <<>> -> Put(old)
      [] el.rep /\ v # <<>> -> SetLVStrings(NumericArrayResize(old, Len(v), <<>>), v, toggles)
      [] OTHER -> IF SetLVStringThrows(v, toggles) THEN Threw(old) ELSE Put(SetLVString(v, toggles))

\* CopyBytesToCluster.
BytesToCluster(el, v, old, toggles) ==
    IF toggles.utf8Strings THEN Put(IF el.rep /\ v = <<>> THEN old ELSE v)
    ELSE StringToCluster(el, v, old, toggles)

\* Base2DArray::CopyFromMessageToCluster and the CopyArrayFromMessageToCluster of
\* the two arrays: resized to rows * cols elements, and never more copied than that.
Array2DToCluster(el, m, old, toggles) ==
    LET int(n) == IF n \in DOMAIN m.vals THEN m.vals[n].v ELSE 0
        count == Signed(Unsigned(int(RowsIndex) * int(ColumnsIndex), W32), W32)
        copied == SubSeq(m.vals[DataIndex].v, 1, Min({count, Len(m.vals[DataIndex].v)}))
        data == IF el.nested = String2DArray
                THEN SetLVStrings(NumericArrayResize(old.data, count, <<>>), copied, toggles)
                ELSE Put(Overwritten(NumericArrayResize(old.data, count, 0), copied))
    IN IF count <= 0 \/ DataIndex \notin DOMAIN m.vals THEN Put(old)
       ELSE [ok |-> data.ok,
             v |-> [rows |-> int(RowsIndex), cols |-> int(ColumnsIndex), data |-> data.v]]

\* A message, to be copied to a cluster under toggles.
Target(m, c, toggles) == [md |-> m.md, m |-> m, c |-> c, toggles |-> toggles]

\* The layout of a cluster in the 64-bit build: where each element starts, the size
\* and the alignment of the whole.
PointerBytes == 8
Bytes(n) == [size |-> n, alignment |-> n]
ElementLayout(el, layouts) ==
    CASE IsEmbedded(el) -> layouts[el.nested]
      [] el.rep \/ Is2DArray(el) \/ el.type \in StringTypes -> Bytes(PointerBytes)
      [] OTHER -> Bytes(IF el.type = "BoolValue" THEN 1 ELSE IF Wide(el.type) THEN 8 ELSE 4)
Aligned(n, alignment) == n + ((-n) % alignment)
PlacedAt(n, laidOut, bytes) ==
    [start |-> Append(laidOut.start, n), size |-> n + bytes.size,
     alignment |-> Max({laidOut.alignment, bytes.alignment})]
Placed(laidOut, bytes) == PlacedAt(Aligned(laidOut.size, bytes.alignment), laidOut, bytes)
Padded(layout) == [layout EXCEPT !.size = Aligned(@, layout.alignment)]
LayoutOf(md, layouts) ==
    LET upTo[i \in Nat] == IF i = 0 THEN [start |-> <<>>, size |-> 0, alignment |-> 1]
                           ELSE Placed(upTo[i - 1], ElementLayout(Metadata[md][i], layouts))
    IN Padded(upTo[Len(Metadata[md])])
Layouts == INSTANCE Nesting WITH Parts <- EmbeddedIn, Do <- LayoutOf
Layout(md) == Layouts!Descend(md)

\* The cluster c of md after its first n bytes were set to zero, n at most 8 (none if
\* it is not positive).  No element is cleared by half: one of 8 bytes starts at 0 or
\* behind them.
FirstBytes(md, c, n) == [md |-> md, c |-> c, n |-> n]
EmbeddedCleared(x) == LET els == Metadata[x.md] IN
    {FirstBytes(els[i].nested, x.c[i], x.n - Layout(x.md).start[i]) :
        i \in {k \in DOMAIN els : IsEmbedded(els[k])}}
ClearedElement(el, v, n, null, cleared) ==
    CASE IsEmbedded(el) -> cleared[FirstBytes(el.nested, v, n)]
      [] ~IsEmbedded(el) /\ n > 0 -> null
      [] OTHER -> v
AfterClear(x, cleared) ==
    [i \in DOMAIN x.c |-> ClearedElement(Metadata[x.md][i], x.c[i], x.n - Layout(x.md).start[i],
                                         DefaultCluster(x.md)[i], cleared)]
Clearing == INSTANCE Nesting WITH Parts <- EmbeddedCleared, Do <- AfterClear
ClearBytes(md, c, n) == Clearing!Descend(FirstBytes(md, c, n))

\* The i-th cluster of an array after NumericArrayResize, and the cluster its copy
\* starts from: as many bytes as a pointer has are cleared.
ResizedCluster(el, old, i) == IF i <= Len(old) THEN old[i] ELSE DefaultCluster(el.nested)
BaseCluster(el, old, i) == ClearBytes(el.nested, ResizedCluster(el, old, i), PointerBytes)

\* The i-th cluster if the copy of an earlier one, the j-th, throws: the pointer that
\* is cleared in a smaller cluster reaches into the ones behind it.  (It may reach
\* behind the last one, too, out of the array: these bytes are not modelled.)
SpilledCluster(el, old, i, j) == ClearBytes(el.nested, ResizedCluster(el, old, i),
                                            PointerBytes - ((i - j) * Layout(el.nested).size))

\* The messages of the value v of el, each with the cluster it is copied to.
TargetsOf(el, v, old, toggles) ==
    CASE ~IsMessage(el) -> <<>>
      [] IsMessage(el) /\ ~el.rep -> <<Target(v, old, toggles)>>
      [] OTHER -> [i \in DOMAIN v |-> Target(v[i], BaseCluster(el, old, i), toggles)]
TargetsIn(t) == UNION {UNION {Range(TargetsOf(Metadata[t.md][i], t.m.vals[num].v, t.c[i], t.toggles)) :
                              i \in Mapped(t.md, num)} : num \in DOMAIN t.m.vals}

\* CopyMessageToCluster, given what the copies give: an array up to a copy that throws.
Gathered(el, old, rs) ==
    LET threw == {i \in DOMAIN rs : ~rs[i].ok} IN
    CASE ~el.rep -> rs[1]
      [] el.rep /\ rs = <<>> -> Put(old)
      [] el.rep /\ rs # <<>> /\ threw = {} -> Put(MapSeq(LAMBDA r : r.v, rs))
      [] OTHER -> Threw([i \in DOMAIN rs |->
            IF i <= Min(threw) THEN rs[i].v ELSE SpilledCluster(el, old, i, Min(threw))])
MessageToCluster(el, v, old, toggles, copies) ==
    IF Is2DArray(el) THEN Array2DToCluster(el, v, old, toggles)
    ELSE Gathered(el, old, MapSeq(LAMBDA target : copies[target], TargetsOf(el, v, old, toggles)))

ElementToCluster(el, v, old, toggles, copies) ==
    CASE el.type = "EnumValue" -> EnumToCluster(el, v, old)
      [] el.type \in NumericTypes \ {"EnumValue"} -> NumericToCluster(el, v, old)
      [] el.type = "StringValue" -> StringToCluster(el, v, old, toggles)
      [] el.type = "BytesValue" -> BytesToCluster(el, v, old, toggles)
      [] OTHER -> MessageToCluster(el, v, old, toggles, copies)

\* CopyOneofIndicesToCluster: the i-th element of the cluster, which holds v.
CopyOneofIndicesToCluster(m, i, v) == LET el == Metadata[m.md][i] IN
    IF el.oneof \in DOMAIN m.oneof /\ el.num < 0 THEN m.oneof[el.oneof] ELSE v

\* CopyToCluster: the values in order of their numbers, up to one that throws; if
\* none does, the oneof indices.  copied is what the copy of each element gives.
Present(t) == LET els == Metadata[t.md] IN
    {i \in DOMAIN els : i \in Mapped(t.md, els[i].num) /\ els[i].num \in DOMAIN t.m.vals}
UpToThrow(t, copied) ==
    LET els == Metadata[t.md]
        threw == {els[i].num : i \in {k \in DOMAIN copied : ~copied[k].ok}}
    IN [ok |-> threw = {},
        v |-> [i \in DOMAIN t.c |->
            CASE i \in DOMAIN copied /\ (\A num \in threw : els[i].num <= num) -> copied[i].v
              [] i \notin DOMAIN copied /\ threw = {} -> CopyOneofIndicesToCluster(t.m, i, t.c[i])
              [] OTHER -> t.c[i]]]
ClusterOf(t, copies) == LET els == Metadata[t.md] IN
    UpToThrow(t, [i \in Present(t) |->
        ElementToCluster(els[i], t.m.vals[els[i].num].v, t.c[i], t.toggles, copies)])
Delivering == INSTANCE Nesting WITH Parts <- TargetsIn, Do <- ClusterOf
CopyToCluster(m, cluster, toggles) == Delivering!Descend(Target(m, cluster, toggles))
=============================================================================
