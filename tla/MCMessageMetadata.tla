-------------------------- MODULE MCMessageMetadata --------------------------
(* .proto files for TLC: nested and imported types, shared and empty        *)
(* messages, recursion, 2D arrays and names that collide.                   *)
EXTENDS MessageMetadata, TLC

Scalar(type) == [type |-> type, rep |-> FALSE, message |-> NoMessage]
Embeds(m) == [type |-> "MessageValue", rep |-> FALSE, message |-> m]
Repeated(f) == [f EXCEPT !.rep = TRUE]
Message(name, nested, fields) == [name |-> name, nested |-> nested, fields |-> fields]
OneFile(messages) ==
    [main |-> "main", messages |-> messages,
     files |-> [main |-> [imports |-> {}, messages |-> DOMAIN messages]]]

Bool == Scalar("BoolValue")
Word == Scalar("Int32Value")
Double == Scalar("DoubleValue")
Text == Scalar("StringValue")
Name2D == <<"ni", "_", "Double2DArray">>
Array2D == Message(<<"ni", ".", "Double2DArray">>, {}, <<Word, Word, Repeated(Double)>>)

MCWellKnown == {Name2D}
MCProtos == {
    \* A message nested twice, padding inside and at the end.
    OneFile([A |-> Message(<<"A">>, {}, <<Bool, Embeds("B"), Bool, Embeds("C")>>),
             B |-> Message(<<"B">>, {}, <<Bool, Embeds("C"), Bool>>),
             C |-> Message(<<"C">>, {}, <<Word, Double, Bool>>)]),
    \* Types nested in a message of an imported file, 2D arrays.
    [main |-> "main",
     messages |-> [Outer |-> Message(<<"Outer">>, {}, <<Bool, Embeds("Array"), Bool, Embeds("Inner")>>),
                   Lib   |-> Message(<<"Lib">>, {"Inner"}, <<Bool, Repeated(Embeds("Array"))>>),
                   Inner |-> Message(<<"Lib", ".", "Inner">>, {}, <<Bool, Word, Bool, Text>>),
                   Array |-> Array2D],
     files |-> [main |-> [imports |-> {"lib", "ni"}, messages |-> {"Outer"}],
                lib  |-> [imports |-> {"ni"}, messages |-> {"Lib"}],
                ni   |-> [imports |-> {}, messages |-> {"Array"}]]],
    \* A tree, and a message without fields.
    OneFile([Node |-> Message(<<"Node">>, {}, <<Word, Repeated(Embeds("Node"))>>),
             Other |-> Message(<<"Other">>, {}, <<Word>>)]),
    OneFile([Request |-> Message(<<"Request">>, {}, <<Repeated(Embeds("Empty")), Embeds("Empty")>>),
             Empty |-> Message(<<"Empty">>, {}, <<>>)]),
    \* A group in an imported file.
    [main |-> "main",
     messages |-> [User |-> Message(<<"User">>, {}, <<Word, Embeds("Old")>>),
                   Old  |-> Message(<<"Old">>, {}, <<Text, Repeated(Scalar("Group"))>>)],
     files |-> [main |-> [imports |-> {"old"}, messages |-> {"User"}],
                old  |-> [imports |-> {}, messages |-> {"Old"}]]],
    \* a.b_c and a_b.c: X in place of Y makes Z contain itself.
    OneFile([X |-> Message(<<"a", ".", "b", "_", "c">>, {}, <<Bool, Embeds("Z")>>),
             Y |-> Message(<<"a", "_", "b", ".", "c">>, {}, <<Double>>),
             Z |-> Message(<<"Z">>, {}, <<Word, Embeds("Y")>>)])}
=============================================================================
