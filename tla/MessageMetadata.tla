--------------------------- MODULE MessageMetadata ---------------------------
(***************************************************************************)
(* From a .proto file to the layout of LabVIEW clusters: LVProtoParser     *)
(* collects the messages of a file (proto_parser.cc), the code generated   *)
(* from them registers their metadata with a client or a server            *)
(* (grpc_interop.cc, message_metadata.cc), and FinalizeMetadata computes   *)
(* where each element lies in its cluster                                  *)
(* (message_element_metadata_owner.cc), the layout LabVIEW itself uses.    *)
(*                                                                         *)
(* FinalizeMetadata takes no lock: CompleteMetadataRegistration in a       *)
(* LabVIEW thread and the run thread of a server may compute the layout of *)
(* the same messages at the same time.                                     *)
(***************************************************************************)
EXTENDS Integers, Sequences, FiniteSets, SequencesExt

CONSTANTS
    Protos,       \* the .proto files to try: what the protobuf compiler parsed
    Finalizers,   \* threads that call FinalizeMetadata
    StackDepth,   \* bound: nested calls the stack has room for
    WellKnown,    \* names of Double2DArray and String2DArray
    NoMessage     \* the embedded message name of a scalar field

ASSUME StackAssumption == StackDepth \in Nat \ {0}

\* sizeof(void*) of the 64-bit build.  The 32-bit one (_PS_4) is not modelled: it lays
\* out a cluster without any padding, for AlignClusterOffset does nothing there.
PointerSize == 8

\* What is in from or follows from it by next, in any number of steps.
Reachable(from, next) ==
    {x \in DOMAIN next :
        \A S \in SUBSET DOMAIN next :
            from \subseteq S /\ (\A y \in S : next[y] \subseteq S) => x \in S}

\* A proto p has files, each with its imports and its top-level messages, and
\* messages, each with its full name, its nested types and its fields.
Imported(p, file) ==
    Reachable({file}, [f \in DOMAIN p.files |-> p.files[f].imports])
Nested(p) == [m \in DOMAIN p.messages |-> p.messages[m].nested]
Declared(p, file) == Reachable(p.files[file].messages, Nested(p))

FieldTypes == {"MessageValue", "StringValue", "BytesValue", "BoolValue",
               "Int32Value", "UInt32Value", "EnumValue", "FloatValue",
               "SFixed32Value", "SInt32Value", "Fixed32Value",
               "Int64Value", "UInt64Value", "DoubleValue",
               "SFixed64Value", "SInt64Value", "Fixed64Value"}

\* A field of a .proto file may also be a group (proto2).
ProtoTypes == FieldTypes \cup {"Group"}

\* The type of a field is declared in the same file or in one that it imports.
TypesResolved(p, file) ==
    \A m \in Declared(p, file) : \A i \in DOMAIN p.messages[m].fields :
        LET field == p.messages[m].fields[i] IN
        field.type = "MessageValue" =>
            \E f \in Imported(p, file) : field.message \in Declared(p, f)

\* What the protobuf compiler accepts.  The stack has room for every message
\* once: only a recursion without end overflows it.
WellFormed(p) ==
    /\ p.main \in DOMAIN p.files
    /\ \A f \in DOMAIN p.files : /\ p.files[f].imports \subseteq DOMAIN p.files
                                 /\ p.files[f].messages \subseteq DOMAIN p.messages
                                 /\ TypesResolved(p, f)
    /\ \A m \in DOMAIN p.messages :
          /\ p.messages[m].nested \subseteq DOMAIN p.messages
          /\ p.messages[m].fields \in
                Seq([type : ProtoTypes, rep : BOOLEAN,
                     message : DOMAIN p.messages \cup {NoMessage}])
          /\ \A i \in DOMAIN p.messages[m].fields :
                p.messages[m].fields[i].type = "MessageValue" =>
                    p.messages[m].fields[i].message \in DOMAIN p.messages
    /\ IsFiniteSet(DOMAIN p.messages)
    /\ Cardinality(DOMAIN p.messages) <= StackDepth

ASSUME ProtosAssumption == \A p \in Protos : WellFormed(p)

VARIABLES proto, parser, metadata, thread, crash

vars == <<proto, parser, metadata, thread, crash>>

Idle == [at |-> "idle", todo |-> {}, stack |-> <<>>]

----------------------------------------------------------------------------
(* proto_parser.cc *)

\* AddNestedMessages: the types nested in m, at any depth.
AddNestedMessages(m) == Reachable(proto.messages[m].nested, Nested(proto))

\* Mutant: only the messages at the top level of a file.
AddDependentMessages_TopLevel(file) ==
    UNION {proto.files[f].messages : f \in Imported(proto, file)}

\* AddDependentMessages: the messages of a file and of all it imports.
AddDependentMessages(file) ==
    LET top == UNION {proto.files[f].messages : f \in Imported(proto, file)}
    IN top \cup UNION {AddNestedMessages(m) : m \in top}

\* A name is a sequence of words and separators.
TransformMessageName(name) ==
    [i \in DOMAIN name |-> IF name[i] = "." THEN "_" ELSE name[i]]

LVMessageName(m) == TransformMessageName(proto.messages[m].name)

\* LVFieldInfo: the type and the name of the message of a field (the names of
\* enums, oneofs and fields have no part in the layout).  The type of a group stays
\* as LabVIEW passed it, which is 99: with this type the call returns -2.
TypePassed == "99"
LVFieldInfo(field) ==
    [type |-> IF field.type \in FieldTypes THEN field.type ELSE TypePassed,
     isRepeated |-> field.rep,
     embeddedMessageName |-> IF field.type = "MessageValue"
                             THEN LVMessageName(field.message) ELSE NoMessage]

\* LVImportProto: the file is parsed, or it has errors and there is no
\* FileDescriptor; every later call then returns -2.
LVImportProto ==
    /\ parser.at = "new"
    /\ \/ parser' = [parser EXCEPT !.at = "imported"]
       \/ parser' = [parser EXCEPT !.at = "failed"]
    /\ UNCHANGED <<proto, metadata, thread, crash>>

\* The fields of a message, as LVFieldInfo describes them, have types.
FieldsKnown(m) == \A i \in DOMAIN proto.messages[m].fields :
    LVFieldInfo(proto.messages[m].fields[i]).type # TypePassed

\* LVGetMessages and then LVFieldInfo of every field: what LabVIEW generates code
\* for, which is nothing after an error.
LVGetMessages ==
    /\ parser.at = "imported"
    /\ LET messages == AddDependentMessages(proto.main) IN
        parser' = IF \A m \in messages : FieldsKnown(m)
                  THEN [at |-> "generated", todo |-> messages]
                  ELSE [parser EXCEPT !.at = "failed"]
    /\ UNCHANGED <<proto, metadata, thread, crash>>

----------------------------------------------------------------------------
(* message_metadata.cc and the registration functions of grpc_interop.cc *)

\* MessageElementMetadata: a 2D array is well known unless it is repeated.
MessageElementMetadata(lv) ==
    [type |-> lv.type, isRepeated |-> lv.isRepeated,
     embeddedMessageName |-> lv.embeddedMessageName,
     isWellKnown |-> lv.embeddedMessageName \in WellKnown /\ ~lv.isRepeated,
     clusterOffset |-> 0]

\* InitializeElements.
NewMessageMetadata(m) ==
    [_elements |-> [i \in DOMAIN proto.messages[m].fields |->
                      MessageElementMetadata(LVFieldInfo(proto.messages[m].fields[i]))],
     clusterSize |-> 0, alignmentRequirement |-> 0]

\* RegisterMessageMetadata2 and RegisterMetadata: insert keeps what a name has.
\* LabVIEW registers before it starts a server or completes the registration.
RegisterMessageMetadata2(m) ==
    LET name == LVMessageName(m) IN
    /\ parser.at = "generated" /\ m \in parser.todo
    /\ metadata' = [n \in DOMAIN metadata \cup {name} |->
                      IF n \in DOMAIN metadata THEN metadata[n]
                      ELSE NewMessageMetadata(m)]
    /\ parser' = [parser EXCEPT !.todo = @ \ {m}]
    /\ UNCHANGED <<proto, thread, crash>>

----------------------------------------------------------------------------
(* message_element_metadata_owner.cc *)

\* ClusterElementSize of a type that is not a message; also its alignment.
ClusterElementSize(type, isRepeated) ==
    CASE isRepeated \/ type \in {"StringValue", "BytesValue"} -> PointerSize
      [] type = "BoolValue" /\ ~isRepeated -> 1
      [] type \in {"Int32Value", "UInt32Value", "EnumValue", "FloatValue",
                   "SFixed32Value", "SInt32Value", "Fixed32Value"}
             /\ ~isRepeated -> 4
      [] type \in {"Int64Value", "UInt64Value", "DoubleValue",
                   "SFixed64Value", "SInt64Value", "Fixed64Value"}
             /\ ~isRepeated -> 8

\* WellKnownTypeElementSize and WellKnownTypeAlignment: a handle.
WellKnownTypeElementSize == PointerSize

\* AlignClusterOffset without _PS_4; alignment 0 is a division by zero.
AlignClusterOffset(offset, alignment) ==
    IF offset % alignment = 0 THEN offset
    ELSE offset + alignment - (offset % alignment)

Fail(why) == crash' = why /\ UNCHANGED <<proto, parser, metadata, thread>>

\* FinalizeMetadata starts: CompleteMetadataRegistration or the run thread.
FinalizeMetadata(t) ==
    /\ parser.at = "generated" /\ parser.todo = {}
    /\ thread[t].at = "idle"
    /\ thread' = [thread EXCEPT ![t] =
                     [at |-> "loop", todo |-> DOMAIN metadata, stack |-> <<>>]]
    /\ UNCHANGED <<proto, parser, metadata, crash>>

\* UpdateMetadataClusterLayout returns at once for a message that is laid out
\* or has no elements.
NeedsLayout(name) ==
    metadata[name].clusterSize = 0 /\ metadata[name]._elements # <<>>

Frame(name) == [message |-> name, element |-> 1, offset |-> 0, max |-> 0]

\* The next message of the loop, in the order of the hash table.
NextMessage(t, name) ==
    /\ thread[t].at = "loop" /\ thread[t].stack = <<>> /\ name \in thread[t].todo
    /\ thread' = [thread EXCEPT
                    ![t].todo = @ \ {name},
                    ![t].stack = IF NeedsLayout(name) THEN <<Frame(name)>> ELSE <<>>]
    /\ UNCHANGED <<proto, parser, metadata, crash>>

EndLoop(t) ==
    /\ thread[t].at = "loop" /\ thread[t].stack = <<>> /\ thread[t].todo = {}
    /\ thread' = [thread EXCEPT ![t].at = "done"]
    /\ UNCHANGED <<proto, parser, metadata, crash>>

\* One iteration over _elements, whose size and alignment are known: the offset
\* is rounded up and stored, the size added.
Place(t, size, alignment) ==
    LET top == Last(thread[t].stack)
        offset == AlignClusterOffset(top.offset, alignment)
    IN
    /\ metadata' = [metadata EXCEPT
                      ![top.message]._elements[top.element].clusterOffset = offset]
    /\ thread' = [thread EXCEPT ![t].stack[Len(thread[t].stack)] =
                    [top EXCEPT !.element = @ + 1, !.offset = offset + size,
                                !.max = IF @ < alignment THEN alignment ELSE @]]
    /\ UNCHANGED <<proto, parser, crash>>

\* An element of type MessageValue that is not well known.  FindMetadata may
\* find nothing, also in the well-known owner, whose messages are laid out; the
\* nested message is laid out first, repeated or not; the alignment of a nested
\* message without elements is 0.
LayoutNested(t, element) ==
    LET name == element.embeddedMessageName
        local == name \in DOMAIN metadata
    IN
    CASE ~local /\ name \notin WellKnown -> Fail("null")
      [] local /\ NeedsLayout(name) ->
             IF Len(thread[t].stack) = StackDepth THEN Fail("stack")
             ELSE /\ thread' = [thread EXCEPT ![t].stack = Append(@, Frame(name))]
                  /\ UNCHANGED <<proto, parser, metadata, crash>>
      [] /\ local \/ name \in WellKnown
         /\ ~(local /\ NeedsLayout(name))
         /\ element.isRepeated -> Place(t, PointerSize, PointerSize)
      [] local /\ ~NeedsLayout(name) /\ ~element.isRepeated ->
             IF metadata[name].alignmentRequirement = 0 THEN Fail("zero")
             ELSE Place(t, metadata[name].clusterSize,
                        metadata[name].alignmentRequirement)

\* The body of the loop over the elements of a message.
LayoutElement(t) ==
    LET top == Last(thread[t].stack)
        element == metadata[top.message]._elements[top.element]
        scalar == ClusterElementSize(element.type, element.isRepeated)
    IN
    /\ thread[t].stack # <<>>
    /\ top.element <= Len(metadata[top.message]._elements)
    /\ IF element.type # "MessageValue" THEN Place(t, scalar, scalar)
       ELSE IF element.isWellKnown
            THEN Place(t, WellKnownTypeElementSize, WellKnownTypeElementSize)
            ELSE LayoutNested(t, element)

AllPlaced(t) ==
    /\ thread[t].stack # <<>>
    /\ LET top == Last(thread[t].stack)
       IN top.element > Len(metadata[top.message]._elements)

\* Mutant: the size is stored before the alignment.
SetAlignment_SizeFirst(t) ==
    LET top == Last(thread[t].stack) IN
    /\ AllPlaced(t) /\ thread[t].at = "loop"
    /\ metadata' = [metadata EXCEPT ![top.message].clusterSize =
                      AlignClusterOffset(top.offset, top.max)]
    /\ thread' = [thread EXCEPT ![t].at = "size"]
    /\ UNCHANGED <<proto, parser, crash>>

\* metadata->alignmentRequirement = maxAlignmentRequirement
SetAlignment(t) ==
    LET top == Last(thread[t].stack) IN
    /\ AllPlaced(t) /\ thread[t].at = "loop"
    /\ metadata' = [metadata EXCEPT ![top.message].alignmentRequirement = top.max]
    /\ thread' = [thread EXCEPT ![t].at = "size"]
    /\ UNCHANGED <<proto, parser, crash>>

\* ... and then metadata->clusterSize, which tells other threads that the
\* layout is there; return to the message that contains this one.
SetClusterSize(t) ==
    LET top == Last(thread[t].stack) IN
    /\ AllPlaced(t) /\ thread[t].at = "size"
    /\ metadata' = [metadata EXCEPT ![top.message].clusterSize =
                      AlignClusterOffset(top.offset, top.max)]
    /\ thread' = [thread EXCEPT ![t].at = "loop", ![t].stack = Front(@)]
    /\ UNCHANGED <<proto, parser, crash>>

----------------------------------------------------------------------------
Init ==
    /\ proto \in Protos
    /\ parser = [at |-> "new", todo |-> {}]
    /\ metadata = [n \in {} |-> 0]
    /\ thread = [t \in Finalizers |-> Idle]
    /\ crash = "no"

Update(t) == \/ \E name \in thread[t].todo : NextMessage(t, name)
             \/ EndLoop(t)
             \/ LayoutElement(t)
             \/ SetAlignment(t)
             \/ SetClusterSize(t)

Next ==
    /\ crash = "no"
    /\ \/ LVImportProto
       \/ LVGetMessages
       \/ \E m \in parser.todo : RegisterMessageMetadata2(m)
       \/ \E t \in Finalizers : FinalizeMetadata(t) \/ Update(t)

Spec == Init /\ [][Next]_vars

----------------------------------------------------------------------------
(* Properties *)

Messages == DOMAIN proto.messages
Fields(m) == proto.messages[m].fields
Registered(m) == LVMessageName(m) \in DOMAIN metadata
Of(m) == metadata[LVMessageName(m)]

\* Full names that differ only in "." and "_" share their metadata.
Collision == \E m, n \in Messages : m # n /\ LVMessageName(m) = LVMessageName(n)

\* What the LabVIEW cluster generated for m has in place of a field: a value, a
\* handle, or the cluster of a nested message.
FieldIsHandle(f) == \/ f.rep \/ f.type \in {"StringValue", "BytesValue"}
                    \/ f.type = "MessageValue" /\ LVMessageName(f.message) \in WellKnown
FieldSize(f) ==
    IF FieldIsHandle(f) THEN PointerSize
    ELSE IF f.type = "MessageValue" THEN Of(f.message).clusterSize
    ELSE ClusterElementSize(f.type, FALSE)
FieldAlignment(f) ==
    IF f.type = "MessageValue" /\ ~FieldIsHandle(f)
    THEN Of(f.message).alignmentRequirement ELSE FieldSize(f)

\* Every layout that a thread may use (clusterSize # 0) is LabVIEW's layout of
\* the cluster generated from the .proto file: the fields follow each other,
\* each aligned, with no more padding than that takes, nested clusters in full;
\* and when FinalizeMetadata has returned, every message with fields has its
\* layout, also when two threads computed it at the same time
\* (message_element_metadata_owner.cc:145).
LayoutIsSound ==
    ~Collision =>
        \A m \in {x \in Messages : Registered(x)} :
            LET offset(i) == Of(m)._elements[i].clusterOffset
                n == Len(Fields(m))
                after(i) == offset(i) + FieldSize(Fields(m)[i])
            IN
            /\ Of(m).clusterSize # 0 =>
                  /\ offset(1) = 0
                  /\ \A i \in 1..n : offset(i) % FieldAlignment(Fields(m)[i]) = 0
                  /\ \A i \in 2..n : offset(i) - after(i - 1)
                                        \in 0..(FieldAlignment(Fields(m)[i]) - 1)
                  /\ Of(m).clusterSize - after(n) \in 0..(Of(m).alignmentRequirement - 1)
                  /\ \A i \in 1..n : Of(m).clusterSize % FieldAlignment(Fields(m)[i]) = 0
            /\ n > 0 /\ (\E t \in Finalizers : thread[t].at = "done")
                  => Of(m).clusterSize # 0

\* The messages that m contains, at any depth, repeated or not.
Embedded(m) ==
    {Fields(m)[i].message : i \in {j \in DOMAIN Fields(m) :
        /\ Fields(m)[j].type = "MessageValue"
        /\ LVMessageName(Fields(m)[j].message) \in WellKnown => Fields(m)[j].rep}}
Contained(m) == Reachable(Embedded(m), [x \in Messages |-> Embedded(x)])

\* The layout of what the parser collected fails in no way but these: a message
\* contains itself, also through a repeated field, and the recursion does not
\* end (message_element_metadata_owner.cc:168); a field is a message without
\* fields and its alignment divides by zero (lv_interop.cc:260); or names
\* collide and one message is laid out with the elements of another.  In
\* particular no embedded message is missing: the parser collected nested and
\* imported types.
CrashOnlyIfMalformed ==
    /\ crash # "null"
    /\ crash = "stack" => Collision \/ \E m \in Messages : m \in Contained(m)
    /\ crash = "zero" =>
          \/ Collision
          \/ \E m \in Messages : \E i \in DOMAIN Fields(m) :
                /\ Fields(m)[i].type = "MessageValue" /\ ~Fields(m)[i].rep
                /\ Fields(Fields(m)[i].message) = <<>>
=============================================================================
