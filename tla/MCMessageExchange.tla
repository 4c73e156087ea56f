--------------------------- MODULE MCMessageExchange ---------------------------
(* Messages, clusters and peers for TLC.  The values sit at the boundaries of *)
(* the scaled integer widths and of the one- and two-byte varints.            *)
EXTENDS MessageExchange

Element(num, type, rep) ==
    [num |-> num, type |-> type, rep |-> rep, oneof |-> NoOneof, nested |-> ""]
Member(num, type, oneof) == [Element(num, type, FALSE) EXCEPT !.oneof = oneof]
Embedded(num, rep, name) == [Element(num, MessageType, rep) EXCEPT !.nested = name]
EnumElement(num, rep) == [Element(num, "EnumValue", rep) EXCEPT !.nested = "Color"]

\* Field 16 is the first whose tag takes two bytes.
MCMetadata ==
    [t \in NumericTypes \ {"EnumValue"} |-> <<Element(1, t, FALSE), Element(16, t, TRUE)>>] @@
    [EnumValue |-> <<EnumElement(1, FALSE), EnumElement(2, TRUE)>>,
     Text   |-> <<Element(1, "StringValue", FALSE), Element(2, "BytesValue", FALSE),
                  Element(3, "StringValue", TRUE), Element(4, "BytesValue", TRUE)>>,
     Inner  |-> <<Element(1, "Int32Value", FALSE), Element(2, "SInt32Value", TRUE)>>,
     Outer  |-> <<Embedded(1, FALSE, "Inner"), Embedded(2, TRUE, "Inner"), Element(3, "BoolValue", FALSE)>>,
     Choice |-> <<Member(-1, "Int32Value", "kind"), Member(1, "Int32Value", "kind"),
                  Member(2, "StringValue", "kind"), Element(3, "UInt32Value", FALSE),
                  Member(-1, "Int32Value", "unit"), Member(4, "DoubleValue", "unit"),
                  [Member(5, MessageType, "unit") EXCEPT !.nested = "Inner"]>>,
     Grids  |-> <<Embedded(1, FALSE, "Double2D"), Embedded(2, FALSE, "String2D")>>,
     Tag    |-> <<EnumElement(1, FALSE)>>,
     Name   |-> <<Embedded(1, FALSE, "Tag"), Element(2, "BoolValue", FALSE), Element(3, "StringValue", FALSE)>>,
     Names  |-> <<Embedded(1, TRUE, "Name"), Embedded(2, TRUE, "Tag")>>,
     Double2D |-> GetMetadata("DoubleValue"),
     String2D |-> GetMetadata("StringValue")]

\* Two names for the value 5.
MCEnums == [Color |-> <<0, 5, -1, 5>>]

MCExchanged == NumericTypes \cup {"Text", "Outer", "Choice", "Grids", "Names"}

\* Least and greatest value of a numeric type.
Lowest(t) == IF Traits[t].as \in {"signed", "zigzag"} THEN -Power(2)[Traits[t].w - 1] ELSE 0
Highest(t) == CASE Traits[t].as = "bool" -> 1
                [] Traits[t].as \in {"signed", "zigzag"} -> Power(2)[Traits[t].w - 1] - 1
                [] OTHER -> Power(2)[Traits[t].w] - 1
Middle(t) == IF Traits[t].as = "bool" THEN 1 ELSE 128

Grid(rows, cols, data) == [rows |-> rows, cols |-> cols, data |-> data]

\* 228 is a letter of Latin-1, two bytes in UTF-8; <<200, 128>> is UTF-8 of no such letter.
MCClusters ==
    [t \in NumericTypes \ {"EnumValue"} |->
        {<<Highest(t), <<>>>>, <<Lowest(t), <<Highest(t), Lowest(t)>>>>,
         <<0, <<Middle(t), 1, Middle(t) - 1>>>>}] @@
    [EnumValue |-> {<<0, <<>>>>, <<2, <<3, 1>>>>, <<4, <<0>>>>, <<0, <<1, 4>>>>},
     Text   |-> {<<<<>>, <<>>, <<>>, <<>>>>, <<<<97, 228>>, <<228>>, <<<<>>, <<228>>>>, <<>>>>,
                 <<<<97>>, <<0>>, <<>>, <<<<194, 128>>, <<7>>>>>>},
     Inner  |-> {},
     Outer  |-> {<<<<-1, <<>>>>, <<>>, 0>>, <<<<0, <<-64, 63>>>>, <<<<-1, <<5>>>>, <<2, <<>>>>>>, 1>>,
                 <<<<3, <<64>>>>, <<<<0, <<>>>>>>, 0>>},
     Choice |-> {<<1, 7, <<97>>, 2, 5, 9, <<4, <<1>>>>>>, <<2, 7, <<97>>, 0, 4, 9, <<4, <<1>>>>>>,
                 <<0, 7, <<97>>, 1, 0, 9, <<4, <<1>>>>>>},
     Grids  |-> {<<Grid(0, 2, <<>>), Grid(0, 0, <<>>)>>, <<Grid(1, 2, <<3, 4>>), Grid(2, 1, <<<<97>>, <<228>>>>)>>},
     Names  |-> {<<<<<<<<3>>, 1, <<97>>>>, <<<<1>>, 0, <<228>>>>, <<<<0>>, 1, <<98>>>>>>, <<<<1>>, <<2>>>>>>},
     Double2D |-> {}, String2D |-> {}, Tag |-> {}, Name |-> {}]

Plain(num, type, v) == [num |-> num, type |-> type, form |-> "plain", v |-> v]
Packed(num, type, v) == [Plain(num, type, v) EXCEPT !.form = "packed"]
Group(num, type, v) == [Plain(num, type, v) EXCEPT !.form = "group"]
InnerMessage(v) == [EmptyMessage("Inner") EXCEPT !.vals = (1 :> Scalar("Int32Value", v))]
TagMessage(v) == [EmptyMessage("Tag") EXCEPT !.vals = (1 :> Scalar("EnumValue", v))]
NameMessage(s) == [EmptyMessage("Name") EXCEPT !.vals = (3 :> Scalar("StringValue", s))]

MCPeerMessages ==
    [t \in NumericTypes \ {"EnumValue"} |->
        {<<Packed(16, t, <<Highest(t)>>), Plain(1, t, Lowest(t)), Plain(16, t, Middle(t)),
           Packed(16, t, <<>>), Packed(16, t, <<1, Highest(t)>>), Plain(1, t, 1)>>,
         <<Plain(7, t, Highest(t)), Plain(16, t, 1), Group(8, t, 1), Plain(1, t, 1), Plain(3, "StringValue", <<5>>)>>}] @@
    [EnumValue |-> {<<Plain(2, "EnumValue", 5), Packed(2, "EnumValue", <<-1, 0>>), Plain(1, "EnumValue", 9)>>},
     Text   |-> {<<Plain(3, "StringValue", <<97>>), Plain(1, "StringValue", <<>>), Plain(3, "StringValue", <<>>),
                   Plain(9, "BytesValue", <<1>>), Plain(2, "BytesValue", <<255>>)>>,
                 <<Plain(1, "StringValue", <<255>>)>>,
                 <<Plain(3, "StringValue", <<97>>), Plain(3, "StringValue", <<200, 128>>)>>},
     Inner  |-> {},
     Outer  |-> {<<Plain(2, MessageType, InnerMessage(4)), Plain(1, MessageType, InnerMessage(5)),
                   Plain(2, MessageType, EmptyMessage("Inner")), Plain(1, MessageType, InnerMessage(6))>>},
     Choice |-> {<<Plain(1, "Int32Value", 3), Plain(4, "DoubleValue", 8), Plain(2, "StringValue", <<97>>),
                   Plain(3, "UInt32Value", 1)>>,
                 <<Plain(2, "StringValue", <<97>>), Plain(2, "StringValue", <<98>>), Plain(4, "DoubleValue", 8),
                   Plain(5, MessageType, InnerMessage(6)), Plain(1, "Int32Value", 3)>>},
     Grids  |-> {<<Plain(1, MessageType, [EmptyMessage("Double2D") EXCEPT !.vals =
                    1 :> Scalar("Int32Value", 1) @@ 2 :> Scalar("Int32Value", 2) @@
                    3 :> Repeated("DoubleValue", <<1, 2, 3>>)])>>,
                 <<Plain(2, MessageType, [EmptyMessage("String2D") EXCEPT !.vals =
                    1 :> Scalar("Int32Value", 3) @@ 2 :> Scalar("Int32Value", 1) @@
                    3 :> Repeated("StringValue", <<<<98>>, <<200, 128>>>>)])>>},
     Names  |-> {<<Plain(1, MessageType, NameMessage(<<99>>)), Plain(1, MessageType, NameMessage(<<200, 128>>))>>,
                 <<Plain(2, MessageType, TagMessage(9)), Plain(2, MessageType, TagMessage(5))>>},
     Double2D |-> {}, String2D |-> {}, Tag |-> {}, Name |-> {}]

\* The defaults, verification without conversion, and everything off.
MCTogglesSet == {[utf8Strings |-> TRUE, verifyStringEncoding |-> TRUE],
                 [utf8Strings |-> FALSE, verifyStringEncoding |-> TRUE],
                 [utf8Strings |-> FALSE, verifyStringEncoding |-> FALSE]}
=============================================================================
