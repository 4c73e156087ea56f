---------------------------- MODULE MessageExchange ----------------------------
(***************************************************************************)
(* Messages between LabVIEW programs.  A cluster becomes bytes through     *)
(* ClientWriteToStream (the call's _request object is reused by every      *)
(* write), PackToAny or an AnyBuilder; bytes also come from a peer that    *)
(* encodes differently.  They become a cluster again through a read of a   *)
(* stream (the call's _response object is reused by every read),           *)
(* UnpackFromAny, or field by field through UnpackedFields.                *)
(* One exchange follows another; MaxExchanges bounds them.                 *)
(***************************************************************************)
EXTENDS ClusterCopier, SequencesExt

CONSTANTS
    Exchanged,      \* the messages (names of Metadata) that are exchanged
    Clusters,       \* message -> the clusters LabVIEW may send
    PeerMessages,   \* message -> sequences of fields another peer may send
    TogglesSet,     \* the toggles the configuration file may set
    MaxExchanges    \* bound: exchanges of one behaviour

\* LabVIEW sends clusters of the metadata's types.  They nest less than MaxNesting
\* deep: a 2D array in a cluster is no cluster, but becomes a message.
ASSUME ClustersAssumption ==
    \A name \in Exchanged : \A c \in Clusters[name], t \in TogglesSet :
        LET s == Source(name, c, t) IN
        /\ Copying!Levels(s)[MaxNesting] = {}
        /\ \A part \in Copying!Within(s) : IsCluster(part.md, part.c)

\* Nothing in flight, no builder, no unpacked fields.
Nothing == [via |-> "nothing"]

VARIABLES
    md,         \* the message exchanged in this behaviour
    toggles,    \* FeatureConfig: utf8Strings and verifyStringEncoding
    request,    \* ClientCall::_request
    response,   \* ClientCall::_response
    flight,     \* the bytes on their way: [via, bytes, meant]
    status,     \* where the exchange stands
    cluster,    \* the cluster LabVIEW passes for the result
    before,     \* what that cluster held before the copy
    builder,    \* the AnyBuilder: its message and the cluster it follows
    unpacked,   \* the message of UnpackedFields
    exchanges   \* exchanges begun

vars == <<md, toggles, request, response, flight, status, cluster, before,
          builder, unpacked, exchanges>>

Init ==
    /\ md \in Exchanged
    /\ toggles \in TogglesSet
    /\ request = EmptyMessage(md)
    /\ response = EmptyMessage(md)
    /\ flight = Nothing
    /\ status = "idle"
    /\ cluster = DefaultCluster(md)
    /\ before = DefaultCluster(md)
    /\ builder = Nothing
    /\ unpacked = Nothing
    /\ exchanges = 0

Idle == status = "idle" /\ builder = Nothing /\ exchanges < MaxExchanges
Send(via, bytes, meant) ==
    /\ flight' = [via |-> via, bytes |-> bytes, meant |-> meant]
    /\ status' = "sent"
    /\ exchanges' = exchanges + 1
------------------------------------------------------------------------------
(* Streams.                                                                *)

\* ClientWriteToStream, down to SerializationTraits::Serialize.
ClientWriteToStream(c) ==
    /\ Idle /\ ~CopyFromClusterThrows(md, c, toggles)
    /\ \E m \in {CopyFromCluster(request, c, toggles)} :
        /\ request' = Sized(m)
        /\ Send("stream", SerializeToByteBuffer(m), c)
    /\ UNCHANGED <<md, toggles, response, cluster, before, builder, unpacked>>

\* CopyFromCluster throws and nothing is sent; the object stays cleared.
ClientWriteThrows(c) ==
    /\ Idle /\ CopyFromClusterThrows(md, c, toggles)
    /\ request' = Clear(request)
    /\ exchanges' = exchanges + 1
    /\ UNCHANGED <<md, toggles, response, flight, status, cluster, before, builder, unpacked>>

\* One field as some other implementation may write it: a packed or unpacked
\* piece of a repeated field, a scalar, or a group of such fields.
EncodeField(f) ==
    CASE f.form = "packed" -> WriteLengthDelimited(f.num, PackedBytes(f.type, f.v))
      [] f.form = "group" -> WriteTag(f.num, WireStartGroup) \o
            SerializeScalar(f.num, Scalar(f.type, f.v)) \o WriteTag(f.num, WireEndGroup)
      [] f.form = "plain" -> SerializeField(f.num, Scalar(f.type, f.v),
                                         [m \in {f.v} |-> Messages!Descend(m)])

PeerWrites(fields) ==
    /\ Idle
    /\ Send("peer", Concat(MapSeq(EncodeField, fields)), fields)
    /\ UNCHANGED <<md, toggles, request, response, cluster, before, builder, unpacked>>

\* The task of ClientBeginReadFromStream: Clear, then Read, which ends in
\* SerializationTraits::Deserialize of the two slices the bytes arrive in.
ReadFromStream ==
    /\ status = "sent" /\ flight.via \in {"stream", "peer"}
    /\ LET half == Len(flight.bytes) \div 2
           slices == <<SubSeq(flight.bytes, 1, half),
                       SubSeq(flight.bytes, half + 1, Len(flight.bytes))>>
       IN \E r \in {ParseFromByteBuffer(Clear(response), slices, toggles)} :
            /\ response' = r.m
            /\ status' = IF r.st = "true" THEN "read" ELSE "rejected"
    /\ UNCHANGED <<md, toggles, request, flight, cluster, before, builder, unpacked, exchanges>>

\* CopyToCluster into c; an exception leaves what was written before it.
CopyResult(m, c) == \E r \in {CopyToCluster(m, c, toggles)} :
    /\ before' = c
    /\ cluster' = r.v
    /\ status' = IF r.ok THEN "delivered" ELSE "rejected"

\* ClientCompleteReadFromStream: CopyToCluster into the cluster LabVIEW
\* passes, a fresh one or the one it used before.
ClientCompleteReadFromStream ==
    /\ status = "read"
    /\ \E c \in {cluster, DefaultCluster(md)} : CopyResult(response, c)
    /\ UNCHANGED <<md, toggles, request, response, flight, builder, unpacked, exchanges>>

\* LabVIEW has looked at the result.
NextExchange ==
    /\ status \in {"delivered", "rejected", "unpacked"}
    /\ status' = "idle"
    /\ flight' = Nothing
    /\ unpacked' = Nothing
    /\ UNCHANGED <<md, toggles, request, response, cluster, before, builder, exchanges>>
------------------------------------------------------------------------------
(* Any.                                                                    *)

\* PackToBuffer and PackToAny: a new message, serialized without a size.
PackToAny(c) ==
    /\ Idle /\ ~CopyFromClusterThrows(md, c, toggles)
    /\ Send("any", SerializeToString(CopyFromCluster(EmptyMessage(md), c, toggles)), c)
    /\ UNCHANGED <<md, toggles, request, response, cluster, before, builder, unpacked>>

\* UnpackFromBuffer and UnpackFromAny: a new message, ParseFromString, CopyToCluster.
UnpackFromAny ==
    /\ status = "sent" /\ flight.via = "any"
    /\ \E c \in {cluster, DefaultCluster(md)},
          p \in {ParseFromString(EmptyMessage(md), flight.bytes, toggles)} :
        \/ p.st = "true" /\ CopyResult(p.m, c)
        \/ /\ p.st # "true"
           /\ status' = "rejected"
           /\ UNCHANGED <<before, cluster>>
    /\ UNCHANGED <<md, toggles, request, response, flight, builder, unpacked, exchanges>>

\* The elements an AnyBuilder can add: a message cannot be added, an enum
\* would be added as a plain int32.
Addable(i) == LET el == Metadata[md][i] IN
    el.num >= 0 /\ el.oneof = NoOneof /\ el.type \notin {MessageType, "EnumValue"}

\* AnyBuilderBegin; LabVIEW will add the elements of c one by one.
AnyBuilderBegin(c) ==
    /\ Idle
    /\ \A i \in DOMAIN c : Addable(i)
    /\ builder' = [via |-> "builder", m |-> EmptyMessage(NoMetadata), c |-> c, todo |-> DOMAIN c]
    /\ exchanges' = exchanges + 1
    /\ UNCHANGED <<md, toggles, request, response, flight, status, cluster, before, unpacked>>

\* AnyBuilderAddValue; a second value for an index is dropped by the map.
AnyBuilderAdd(i) ==
    /\ builder # Nothing /\ i \in builder.todo
    /\ LET el == Metadata[md][i] IN
        builder' = [builder EXCEPT !.todo = @ \ {i}, !.m =
            AnyBuilderAddValue(@, el.type, el.rep, el.num, builder.c[i], toggles)]
    /\ UNCHANGED <<md, toggles, request, response, flight, status, cluster, before,
                   unpacked, exchanges>>

\* AnyBuilderBuild and AnyBuilderBuildToBuffer.
AnyBuilderBuild ==
    /\ builder # Nothing /\ builder.todo = {}
    /\ flight' = [via |-> "any", bytes |-> SerializeToString(builder.m), meant |-> builder.c]
    /\ status' = "sent"
    /\ builder' = Nothing
    /\ UNCHANGED <<md, toggles, request, response, cluster, before, unpacked, exchanges>>

\* UnpackFieldsFromBuffer: without metadata every field is an unknown field.
UnpackFields ==
    /\ status = "sent" /\ flight.via = "any"
    /\ \E p \in {ParseFromString(EmptyMessage(NoMetadata), flight.bytes, toggles)} :
        /\ unpacked' = p.m
        /\ status' = IF p.st = "true" THEN "unpacked" ELSE "rejected"
    /\ UNCHANGED <<md, toggles, request, response, flight, cluster, before, builder, exchanges>>

\* Mutant: the zeros on top are trimmed from every byte of a varint, not only the last.
BitString_TrimsAll(byte) ==
    LET ones == {i \in 1..7 : Digit(byte, 2, i) = 1} IN
    [i \in 1..Max({1} \cup ones) |-> Digit(byte, 2, i)]

\* tempbin: the bits of a byte of a varint, the lowest first.  A byte that another one
\* follows gives all 7, the last one those up to its highest 1, but at least one.
BitString(byte) ==
    LET ones == {i \in 1..7 : Digit(byte, 2, i) = 1}
        length == IF byte >= 128 THEN 7 ELSE Max({1} \cup ones)
    IN [i \in 1..length |-> Digit(byte, 2, i)]

\* binarr: the bits of each varint in the bytes, cut at the width.  The last varint ends
\* where the bytes end.
BitStrings(bytes, width) ==
    LET ends == SelectSeq([i \in DOMAIN bytes |-> i],
                          LAMBDA i : bytes[i] < 128 \/ i = Len(bytes))
        begin(k) == IF k = 1 THEN 1 ELSE ends[k - 1] + 1
        bin(k) == Concat(MapSeq(BitString, SubSeq(bytes, begin(k), ends[k])))
    IN [k \in DOMAIN ends |-> SubSeq(bin(k), 1, Min({width, Len(bin(k))}))]

\* The argument bits of CopyVarintBitValueField: a bool goes to a byte.
BitsOf(type) == CASE type = "BoolValue" -> 8
                  [] type # "BoolValue" /\ Wide(type) -> W64
                  [] OTHER -> W32

\* CopyVarintBitValueField: the varints of a packed field are decoded by hand; of a
\* plain one the low bits are kept.
CopyVarintBitValueField(el, field) ==
    IF el.rep THEN MapSeq(LAMBDA bin : Positional(bin, 2), BitStrings(field.v, BitsOf(el.type)))
    ELSE Unsigned(field.v, BitsOf(el.type))

\* CopyFixed32BitValueField and Copy64BitField: the bytes as they are.
CopyFixedBitField(el, field) ==
    LET asUnsigned == IF Wide(el.type) THEN "Fixed64Value" ELSE "Fixed32Value" IN
    IF el.rep THEN ReadPacked(asUnsigned, field.v, 1, Len(field.v)).v ELSE field.v

\* UnpackedFields::GetField: the first field with the number; nothing for a
\* message, a missing field or a repeated string.
GetField(m, el) ==
    LET found == SelectSeq(m.unknown, LAMBDA f : f.num = el.num)
        field == found[1]
    IN CASE found = <<>> \/ el.type = MessageType \/ (el.rep /\ el.type \in StringTypes) -> {}
         [] found # <<>> /\ el.type \in FixedTypes -> {CopyFixedBitField(el, field)}
         [] found # <<>> /\ el.type \in NumericTypes \ FixedTypes ->
                {CopyVarintBitValueField(el, field)}
         [] OTHER -> IF el.type = "StringValue" THEN {SetLVString(field.v, toggles)} ELSE {field.v}
------------------------------------------------------------------------------
Next ==
    \/ \E c \in Clusters[md] :
        ClientWriteToStream(c) \/ ClientWriteThrows(c) \/ PackToAny(c) \/ AnyBuilderBegin(c)
    \/ \E fields \in PeerMessages[md] : PeerWrites(fields)
    \/ ReadFromStream
    \/ ClientCompleteReadFromStream
    \/ UnpackFromAny
    \/ \E i \in 1..Len(Metadata[md]) : AnyBuilderAdd(i)
    \/ AnyBuilderBuild
    \/ UnpackFields
    \/ NextExchange

Spec == Init /\ [][Next]_vars
------------------------------------------------------------------------------
(* Properties.                                                             *)

\* What the element should hold after v was sent: an enum value with several
\* names comes back as the first of them.
Normal(el, v) ==
    LET first(lv) == GetLVEnumValueFromProtoValue(el.nested, GetProtoValueFromLVEnumValue(el.nested, lv))
    IN CASE el.type # "EnumValue" -> v
         [] el.type = "EnumValue" /\ el.rep -> MapSeq(first, v)
         [] OTHER -> first(v)

\* A value that leaves no trace on the wire: an empty array.
LeavesNoTrace(el, v) ==
    \/ el.rep /\ v = <<>>
    \/ Is2DArray(el) /\ (v.rows = 0 \/ v.cols = 0)

\* Whether got is the cluster sent, element by element.  An empty array and the
\* members of a oneof that are not selected are not sent: these elements are as in
\* one of the clusters in bases.
Comparison(name, sent, bases, got) == [md |-> name, sent |-> sent, bases |-> bases, got |-> got]

\* The comparison of the cluster of the element i, and of the k-th of its array.
OfCluster(x, i) == Comparison(Metadata[x.md][i].nested, x.sent[i], {b[i] : b \in x.bases}, x.got[i])
OfArray(x, i, k) ==
    LET name == Metadata[x.md][i].nested
        old == {b[i][k] : b \in {b \in x.bases : k \in DOMAIN b[i]}}
    IN Comparison(name, x.sent[i][k], {DefaultCluster(name)} \cup old, x.got[i][k])

IsSent(x, i) == LET el == Metadata[x.md][i] IN
    IF el.num >= 0 THEN i \in CopiedElements(x.md, x.sent) /\ ~LeavesNoTrace(el, x.sent[i])
    ELSE \E k \in CopiedElements(x.md, x.sent) :
        Metadata[x.md][k].oneof = el.oneof /\ ~LeavesNoTrace(Metadata[x.md][k], x.sent[k])

ComparisonsIn(x) ==
    LET els == Metadata[x.md]
        messages == {i \in DOMAIN x.sent : IsSent(x, i) /\ IsMessage(els[i])}
    IN {OfCluster(x, i) : i \in {i \in messages : ~els[i].rep}} \cup
       UNION {{OfArray(x, i, k) : k \in DOMAIN x.sent[i] \cap DOMAIN x.got[i]} :
              i \in {i \in messages : els[i].rep}}
Same(x, same) == \A i \in DOMAIN x.sent :
    LET el == Metadata[x.md][i] IN
    CASE ~IsSent(x, i) -> \E b \in x.bases : x.got[i] = b[i]
      [] IsSent(x, i) /\ ~IsMessage(el) -> x.got[i] = Normal(el, x.sent[i])
      [] IsSent(x, i) /\ IsMessage(el) /\ ~el.rep -> same[OfCluster(x, i)]
      [] OTHER -> /\ Len(x.got[i]) = Len(x.sent[i])
                  /\ \A k \in DOMAIN x.sent[i] : same[OfArray(x, i, k)]
Comparing == INSTANCE Nesting WITH Parts <- ComparisonsIn, Do <- Same
Matches(name, sent, bases, got) == Comparing!Descend(Comparison(name, sent, bases, got))

\* What LabVIEW sends is what LabVIEW gets: through CopyFromCluster, the wire
\* (or an Any, or an AnyBuilder in any order of its calls) and CopyToCluster every
\* element arrives with the value it was sent with, whatever the message objects
\* and the receiving cluster were used for before.
ReceivedIsSent ==
    status = "delivered" /\ flight.via # "peer" => Matches(md, flight.meant, {before}, cluster)

\* A message that was sent is not lost: a reader of the same configuration
\* parses it and finds no field it does not know.  In legacy mode with the
\* verification on nothing is said of a message that is rejected: LabVIEW's strings
\* and bytes need not be UTF-8 there, and whether they are is not asked.
SentIsReadable ==
    /\ status = "rejected" /\ flight # Nothing /\ flight.via # "peer" =>
        toggles.verifyStringEncoding /\ ~toggles.utf8Strings
    /\ status = "read" /\ flight.via = "stream" => response.unknown = <<>>

\* ByteSizeLong of the request, which sized the slice, is the number of bytes
\* Serialize writes into it, with the sizes the values cached.
SliceIsFilled ==
    flight # Nothing /\ flight.via = "stream" =>
        /\ Len(SerializeToCodedStream(request)) = ByteSizeLong(request)
        /\ Len(flight.bytes) = ByteSizeLong(request)

\* The values the fields of a peer's message stand for: a repeated field is all
\* its pieces in order, a oneof the last member met, another scalar its first
\* value (lv_message_tests.cc:2738).
Occurrences(fields, num) == SelectSeq(fields, LAMBDA f : f.num = num /\ f.form # "group")
ValuesOf(f) == IF f.form = "packed" THEN f.v ELSE <<f.v>>
MembersMet(fields, oneof) == SelectSeq(fields, LAMBDA f :
    Mapped(md, f.num) # {} /\ ElementOf(md, f.num).oneof = oneof)
Meaning(fields) ==
    LET all(num) == Concat(MapSeq(ValuesOf, Occurrences(fields, num)))
        lost(el) == el.oneof # NoOneof /\ Last(MembersMet(fields, el.oneof)).num # el.num
        met == {n \in {fields[i].num : i \in DOMAIN fields} : Mapped(md, n) # {} /\ ~lost(ElementOf(md, n))}
    IN [n \in met |-> LET el == ElementOf(md, n) IN
            CASE el.rep -> all(n)
              [] ~el.rep /\ el.oneof # NoOneof -> Last(all(n))
              [] OTHER -> all(n)[1]]

\* The parser gives a peer's message its meaning: packed, unpacked and mixed
\* pieces of a repeated field, several members of a oneof, duplicates, unknown
\* fields and groups in any order.
PeerIsUnderstood ==
    status = "read" /\ flight.via = "peer" =>
        /\ [n \in DOMAIN response.vals |-> response.vals[n].v] = Meaning(flight.meant)
        /\ [i \in DOMAIN response.unknown |-> response.unknown[i].num] =
           LET unknown == SelectSeq(flight.meant, LAMBDA f : Mapped(md, f.num) = {}) IN
           [i \in DOMAIN unknown |-> unknown[i].num]

\* UnpackedFields::GetField returns the bits that were packed, for every type it
\* decodes: the bits of the integer, of the proto value of an enum, of the zigzag
\* form of a zigzag integer, which is not undone.  The varints of a repeated field
\* are put together bit by bit and cut where a negative int32, which takes ten bytes,
\* has more of them than fit.
UnpackedIsPacked ==
    status = "unpacked" => \A i \in CopiedElements(md, flight.meant) :
        LET el == Metadata[md][i]
            sent == flight.meant[i]
            wire(v) == CASE el.type = "EnumValue" -> GetProtoValueFromLVEnumValue(el.nested, v)
                         [] el.type \in {"SInt32Value", "SInt64Value"} -> ZigZagEncode(v)
                         [] OTHER -> v
            bits(v) == Unsigned(wire(v), Traits[el.type].w)
            decoded == el.type \in NumericTypes
        IN CASE decoded /\ ~el.rep -> GetField(unpacked, el) = {bits(sent)}
             [] decoded /\ el.rep /\ sent # <<>> -> GetField(unpacked, el) = {MapSeq(bits, sent)}
             [] el.type \in StringTypes /\ ~el.rep -> GetField(unpacked, el) = {sent}
             [] OTHER -> TRUE
=============================================================================
