------------------------------- MODULE LVMessage -------------------------------
(***************************************************************************)
(* LVMessage (lv_message.cc): parsing a message of registered metadata     *)
(* from the wire, and serializing it.  Metadata gives the elements of a    *)
(* message in cluster order: [num, type, rep, oneof, nested], where num is *)
(* protobufIndex, oneof the oneofContainerName or NoOneof, and nested the  *)
(* embeddedMessageName.  The selected_index of a oneof is an element with  *)
(* num = -1 that exists in the cluster only.                               *)
(***************************************************************************)
EXTENDS LVMessageValue, TLC

CONSTANTS
    Metadata,   \* message name -> sequence of elements
    NoOneof     \* oneofContainerName of an element outside a oneof

\* What the registration of metadata gives.
ASSUME MetadataAssumption == \A name \in DOMAIN Metadata : LET els == Metadata[name] IN
    /\ els \in Seq(Range(els))
    /\ \A i \in DOMAIN els : els[i].num \in Int /\ els[i].type \in Types /\ els[i].rep \in BOOLEAN

\* _mappedElements: the first element with the number wins.
Mapped(md, num) == LET els == Metadata[md] IN
    {i \in DOMAIN els : els[i].num = num /\ \A j \in 1..(i - 1) : els[j].num # num}
ElementOf(md, num) == Metadata[md][CHOOSE i \in Mapped(md, num) : TRUE]

\* UTF-8 of the one- and two-byte forms, the only ones of this model's strings.
IsStructurallyValid(s) ==
    LET lead(i) == s[i] \in 194..223
        tail(i) == s[i] \in 128..191
    IN \A i \in DOMAIN s :
        \/ s[i] < 128
        \/ lead(i) /\ i < Len(s) /\ tail(i + 1)
        \/ tail(i) /\ i > 1 /\ lead(i - 1)

\* VerifyUtf8String: everything passes with the toggle off.
VerifyUtf8String(s, toggles) == toggles.verifyStringEncoding => IsStructurallyValid(s)

\* Mutant: every piece of a repeated field replaces the pieces before it.
AddTo_Replaces(m, num, t, vs) == [m EXCEPT !.vals =
    [n \in DOMAIN @ \cup {num} |-> IF n = num THEN Repeated(t, vs) ELSE @[n]]]

\* std::map::emplace (the existing entry stays) and appending to a repeated
\* value, which is made on its first occurrence.
Emplace(m, num, val) == [m EXCEPT !.vals =
    [n \in DOMAIN @ \cup {num} |-> IF n \in DOMAIN @ THEN @[n] ELSE val]]
AddTo(m, num, t, vs) ==
    IF num \in DOMAIN m.vals THEN [m EXCEPT !.vals[num].v = @ \o vs]
    ELSE Emplace(m, num, Repeated(t, vs))
------------------------------------------------------------------------------
(* Results of a parse: "true" and "false" are the code's, "throw" is an    *)
(* exception that leaves the parser.  In between, the parser is before a   *)
(* "tag" or has read the tag of a "field".  atEnd says that the last tag   *)
(* was looked for at the end of the input.                                 *)

Parsed(m, p) == [st |-> "tag", m |-> m, p |-> p, tag |-> 0, atEnd |-> FALSE]
NotParsed(m, st) == [st |-> st, m |-> m, p |-> 0, tag |-> 0, atEnd |-> FALSE]

\* A value was read, or not: it is appended to a repeated field; a scalar is
\* kept only if it is the first.
AddValue(m, el, r) ==
    CASE ~r.ok -> NotParsed(m, "false")
      [] r.ok /\ el.rep -> Parsed(AddTo(m, el.num, el.type, <<r.v>>), r.p)
      [] OTHER -> Parsed(Emplace(m, el.num, Scalar(el.type, r.v)), r.p)

\* The packed branch, after its length n; the value is there even if empty.
AddPacked(m, el, vs) == IF vs.ok THEN Parsed(AddTo(m, el.num, el.type, vs.v), vs.p)
                        ELSE NotParsed(m, "false")
ParsePacked(m, el, in, n, lim) == IF ~n.ok THEN NotParsed(m, "false")
    ELSE AddPacked(m, el, ReadPacked(el.type, in, n.p, PushLimit(n.p, n.v, lim)))

\* ParseNumericField: packed and unpacked occurrences both append; a scalar
\* is read whatever its wire type and kept only if it is the first.
ParseNumericField(m, el, wt, in, p, lim) ==
    IF el.rep /\ wt = WireLengthDelimited
    THEN ParsePacked(m, el, in, ReadVarint(in, p, lim, W32), lim)
    ELSE AddValue(m, el, ReadNumber(el.type, in, p, lim))

\* ParseStringField throws for a string that is not UTF-8.
AddVerified(m, el, r, toggles) ==
    IF r.ok /\ ~VerifyUtf8String(r.v, toggles) THEN NotParsed(m, "throw")
    ELSE AddValue(m, el, r)
ParseStringField(m, el, in, p, lim, toggles) ==
    AddVerified(m, el, ReadLengthDelimited(in, p, lim), toggles)

\* ParseBytesField: in legacy mode a bytes field is a string field.
ParseBytesField(m, el, in, p, lim, toggles) ==
    IF ~toggles.utf8Strings THEN ParseStringField(m, el, in, p, lim, toggles)
    ELSE AddValue(m, el, ReadLengthDelimited(in, p, lim))

\* What was read, in front of what the rest of the input gives.
Before(vs, rest) == IF rest.ok THEN [rest EXCEPT !.v = vs \o @] ELSE rest

\* ParseMessageField.  The nested parse ends at the limit, at the end of the
\* input or at a zero tag; parse is its result for every metadata, first
\* position and limit.
AddNested(m, el, r) == IF r.st # "true" THEN NotParsed(m, r.st)
                       ELSE AddValue(m, el, Got(r.m, r.p))
ParseNested(m, el, n, lim, parse) == IF ~n.ok THEN NotParsed(m, "false")
    ELSE AddNested(m, el, parse[<<el.nested, n.p, PushLimit(n.p, n.v, lim)>>])
ParseMessageField(m, el, in, p, lim, parse) ==
    ParseNested(m, el, ReadVarint(in, p, lim, W32), lim, parse)

ParseFieldFromCodedStream(m, el, wt, in, p, lim, toggles, parse) ==
    CASE el.type \in NumericTypes -> ParseNumericField(m, el, wt, in, p, lim)
      [] el.type = "StringValue" -> ParseStringField(m, el, in, p, lim, toggles)
      [] el.type = "BytesValue" -> ParseBytesField(m, el, in, p, lim, toggles)
      [] OTHER -> ParseMessageField(m, el, in, p, lim, parse)

\* HandleUnknownField: [ok, v, p] with v the unknown fields it adds.  Those of
\* a group are added without the group; skip is what SkipGroup makes of every end
\* tag and position.
UnknownField(in, tag, p, lim, skip) ==
    LET num == tag \div 8
        wt == tag % 8
        add(kind, r) == [r EXCEPT !.v = <<[num |-> num, kind |-> kind, v |-> @]>>]
    IN CASE wt = WireVarint -> add("varint", ReadVarint(in, p, lim, W64))
         [] wt = WireFixed64 -> add("fixed64", ReadLittleEndian(in, p, lim, W64))
         [] wt = WireFixed32 -> add("fixed32", ReadLittleEndian(in, p, lim, W32))
         [] wt = WireLengthDelimited -> add("bytes", ReadLengthDelimited(in, p, lim))
         [] wt = WireStartGroup -> skip[<<MakeTag(num, WireEndGroup), p>>]
         [] OTHER -> Failed(p)

AfterInner(endTag, inner, skip) ==
    IF inner.ok THEN Before(inner.v, skip[<<endTag, inner.p>>]) ELSE inner
AfterTag(in, endTag, t, lim, skip) ==
    CASE t.v = 0 -> Failed(t.p)
      [] t.v = endTag -> Got(<<>>, t.p)
      [] OTHER -> AfterInner(endTag, UnknownField(in, t.v, t.p, lim, skip), skip)
SkipGroup(in, lim) ==
    LET skip[q \in Nat \X Nat] == AfterTag(in, q[1], ReadTag(in, q[2], lim), lim, skip)
    IN skip
HandleUnknownField(in, tag, p, lim) == UnknownField(in, tag, p, lim, SkipGroup(in, lim))

\* A member of a oneof was met: the previous member's value goes, also if it
\* is the same member, and this one is selected.
SelectOneof(m, el) ==
    LET prev == IF el.oneof \in DOMAIN m.oneof THEN {m.oneof[el.oneof]} ELSE {} IN
    IF el.oneof = NoOneof THEN m
    ELSE [m EXCEPT !.vals = [n \in DOMAIN @ \ prev |-> @[n]],
                   !.oneof = [o \in DOMAIN @ \cup {el.oneof} |->
                                IF o = el.oneof THEN el.num ELSE @[o]]]

\* A field without: it becomes an unknown field.
AddUnknown(m, u) == IF u.ok THEN Parsed([m EXCEPT !.unknown = @ \o u.v], u.p)
                    ELSE NotParsed(m, "false")

\* The loop of ParseFromCodedStream: ReadTag, which ends the loop when it returns 0,
\* and the field with that tag.  Only a tag that was looked for at the very end makes
\* ConsumedEntireMessage true: a zero byte ends the loop like any other bad tag.
ParseTag(r, in, t) ==
    IF t.v = 0 THEN [r EXCEPT !.st = "true", !.p = t.p, !.atEnd = (r.p = Len(in) + 1)]
    ELSE [r EXCEPT !.st = "field", !.p = t.p, !.tag = t.v]
ParseKnown(r, el, in, lim, toggles, parse) ==
    ParseFieldFromCodedStream(SelectOneof(r.m, el), el, r.tag % 8, in, r.p, lim, toggles, parse)
ParseField(r, in, lim, toggles, parse) ==
    LET num == r.tag \div 8 IN
    IF r.m.md # NoMetadata /\ Mapped(r.m.md, num) # {}
    THEN ParseKnown(r, ElementOf(r.m.md, num), in, lim, toggles, parse)
    ELSE AddUnknown(r.m, HandleUnknownField(in, r.tag, r.p, lim))
ParseRound(r, in, lim, toggles, parse) ==
    CASE r.st = "tag" -> ParseTag(r, in, ReadTag(in, r.p, lim))
      [] r.st = "field" -> ParseField(r, in, lim, toggles, parse)
      [] OTHER -> r

\* Every field takes two rounds and at least two bytes.
ParseFields(m, in, p, lim, toggles, parse) ==
    LET R[i \in Nat] == IF i = 0 THEN Parsed(m, p)
                        ELSE ParseRound(R[i - 1], in, lim, toggles, parse)
    IN R[Len(in) + 1]

\* ParseFromCodedStream; ParseMessageField calls it for an empty message.  Every
\* level of messages takes a byte, so that these levels are enough.
ParseFromCodedStream(m, in, p, lim, toggles) ==
    LET parse[k \in Nat] == [q \in (DOMAIN Metadata) \X Nat \X Nat |->
            IF k = 0 THEN NotParsed(EmptyMessage(q[1]), "false")
            ELSE ParseFields(EmptyMessage(q[1]), in, q[2], q[3], toggles, parse[k - 1])]
    IN ParseFields(m, in, p, lim, toggles, parse[Len(in)])

\* Mutant: the oneof map survives.
Clear_ValuesOnly(m) == [m EXCEPT !.vals = <<>>, !.unknown = <<>>]

\* LVMessage::Clear: the value objects go, and with them what they cached.
Clear(m) == EmptyMessage(m.md)

\* ParseFromString adds to the message, ParseFromByteBuffer clears it first; both
\* want the entire input consumed.
\* ByteStream shows that reading slices is reading their concatenation.
ParseFromString(m, in, toggles) ==
    LET entire(r) == [r EXCEPT !.st = IF @ = "true" /\ ~r.atEnd THEN "false" ELSE @] IN
    entire(ParseFromCodedStream(m, in, 1, NoLimit, toggles))

ParseFromByteBuffer(m, slices, toggles) == ParseFromString(Clear(m), Concat(slices), toggles)

\* SerializeToByteBuffer: a slice of exactly ByteSizeLong bytes is filled; the
\* stream into it drops what does not fit, and what is not filled stays as it is.
SerializeToByteBuffer(m) ==
    LET bytes == SerializeToCodedStream(Sized(m)) IN
    [i \in 1..ByteSizeLong(m) |-> IF i <= Len(bytes) THEN bytes[i] ELSE 0]

\* SerializeToString: the stream grows, and no size was computed before.
SerializeToString(m) == SerializeToCodedStream(m)
=============================================================================
