------------------------ MODULE MessageMetadataProofs ------------------------
(***************************************************************************)
(* The layout of clusters for every .proto file that the protobuf compiler *)
(* accepts and any number of threads that finalize it at the same time.    *)
(*                                                                         *)
(* The threads write the same offsets: an element that somebody has passed *)
(* lies where the one before it ends, rounded up to its alignment, and the *)
(* size and the alignment of a message do not change once clusterSize is   *)
(* set.  So a thread that is behind another one stores what is there.      *)
(***************************************************************************)
EXTENDS MessageMetadata, FiniteSetTheorems, TLAPS

Alignments == {1, 4, 8}

\* The elements of the message n.
Count(n) == Len(metadata[n]._elements)
El(n, i) == metadata[n]._elements[i]
Offset(n, i) == El(n, i).clusterOffset

\* An element that is a nested cluster has the size and the alignment of its
\* message, every other one those of its type.
IsCluster(el) ==
    el.type = "MessageValue" /\ ~el.isRepeated /\ ~el.isWellKnown
FixedSize(el) ==
    IF el.type = "MessageValue" THEN PointerSize
    ELSE ClusterElementSize(el.type, el.isRepeated)
ElementSize(n, i) ==
    IF IsCluster(El(n, i))
    THEN metadata[El(n, i).embeddedMessageName].clusterSize
    ELSE FixedSize(El(n, i))
ElementAlignment(n, i) ==
    IF IsCluster(El(n, i))
    THEN metadata[El(n, i).embeddedMessageName].alignmentRequirement
    ELSE FixedSize(El(n, i))
After(n, i) == IF i = 0 THEN 0 ELSE Offset(n, i) + ElementSize(n, i)

\* The element i of n follows the one before it; a nested cluster is laid out.
Placed(n, i) ==
    /\ IsCluster(El(n, i)) =>
          /\ El(n, i).embeddedMessageName \in DOMAIN metadata
          /\ metadata[El(n, i).embeddedMessageName].clusterSize # 0
    /\ Offset(n, i) = AlignClusterOffset(After(n, i - 1), ElementAlignment(n, i))

\* The first k elements of n are placed and a is their largest alignment.
PlacedUpTo(n, k) == \A i \in 1..k : Placed(n, i)
IsMaxAlignment(n, k, a) ==
    /\ \A i \in 1..k : ElementAlignment(n, i) <= a
    /\ IF k = 0 THEN a = 0
       ELSE a \in Alignments /\ \E i \in 1..k : ElementAlignment(n, i) = a

\* A message with a size has a complete layout.
LaidOut(n) ==
    /\ metadata[n].clusterSize # 0 =>
          /\ Count(n) # 0
          /\ PlacedUpTo(n, Count(n))
          /\ IsMaxAlignment(n, Count(n), metadata[n].alignmentRequirement)
          /\ metadata[n].clusterSize =
                AlignClusterOffset(After(n, Count(n)),
                                   metadata[n].alignmentRequirement)
    /\ Count(n) = 0 => metadata[n].alignmentRequirement = 0

\* The elements that a frame has passed are placed, whoever placed them, and
\* its offset and its maximum are theirs.
FrameInv(f) ==
    /\ f.message \in DOMAIN metadata
    /\ f.element \in 1..(Count(f.message) + 1)
    /\ Count(f.message) # 0
    /\ PlacedUpTo(f.message, f.element - 1)
    /\ f.offset = After(f.message, f.element - 1)
    /\ IsMaxAlignment(f.message, f.element - 1, f.max)

Frames(t) == ToSet(thread[t].stack)

StackInv(t) ==
    /\ \A f \in Frames(t) : FrameInv(f)
    /\ thread[t].at \in {"idle", "done"} => thread[t].stack = <<>>
    /\ thread[t].at = "size" =>
          /\ thread[t].stack # <<>>
          /\ \A f \in Frames(t) : f = Last(thread[t].stack) =>
                /\ f.element = Count(f.message) + 1
                /\ metadata[f.message].alignmentRequirement = f.max

\* A thread that finalizes finds everything registered, and what it has passed
\* is laid out or on its stack.
LoopInv(t) ==
    thread[t].at # "idle" =>
        /\ parser.at = "generated" /\ parser.todo = {}
        /\ thread[t].at = "done" => thread[t].todo = {}
        /\ \A n \in DOMAIN metadata :
              \/ n \in thread[t].todo
              \/ ~NeedsLayout(n)
              \/ \E f \in Frames(t) : f.message = n

Collected == AddDependentMessages(proto.main)
Supported(m) == \A i \in DOMAIN Fields(m) : Fields(m)[i].type \in FieldTypes

\* The elements of n are those of the message m.
ElementsOf(n, m) ==
    /\ LVMessageName(m) = n
    /\ Count(n) = Len(Fields(m))
    /\ \A i \in 1..Count(n) :
          LET el == MessageElementMetadata(LVFieldInfo(Fields(m)[i])) IN
          /\ El(n, i).type = el.type
          /\ El(n, i).isRepeated = el.isRepeated
          /\ El(n, i).embeddedMessageName = el.embeddedMessageName
          /\ El(n, i).isWellKnown = el.isWellKnown

\* Everything registered comes from a message that the parser collected, and
\* everything collected is registered or about to be.  No field of it is a group.
RegisteredInv ==
    /\ parser.at # "generated" => parser.todo = {} /\ DOMAIN metadata = {}
    /\ parser.at = "generated" =>
          \A m \in Collected : /\ m \in parser.todo \/ Registered(m)
                               /\ Supported(m)
    /\ \A n \in DOMAIN metadata : \E m \in Collected : ElementsOf(n, m)

Elements ==
    [type : FieldTypes, isRepeated : BOOLEAN, isWellKnown : BOOLEAN,
     embeddedMessageName : {LVMessageName(m) : m \in Messages} \cup {NoMessage},
     clusterOffset : Nat]
StackFrames ==
    [message : DOMAIN metadata, element : Nat, offset : Nat,
     max : {0} \cup Alignments]

TypeInv ==
    /\ proto \in Protos
    /\ parser \in [at : {"new", "imported", "failed", "generated"},
                   todo : SUBSET Collected]
    /\ metadata \in [DOMAIN metadata ->
                        [_elements : Seq(Elements), clusterSize : Nat,
                         alignmentRequirement : {0} \cup Alignments]]
    /\ thread \in [Finalizers -> [at : {"idle", "loop", "size", "done"},
                                  todo : SUBSET DOMAIN metadata,
                                  stack : Seq(StackFrames)]]
    /\ crash \in {"no", "null", "stack", "zero"}

\* The message that a name stands for, when names do not collide.
MessageOf(n) == CHOOSE m \in Messages : LVMessageName(m) = n

\* A message above another on a stack is contained in it.
Nesting(s) ==
    \A i, j \in 1..Len(s) :
        i < j => MessageOf(s[j].message) \in Contained(MessageOf(s[i].message))

NestingInv(t) == ~Collision => Nesting(thread[t].stack)

IInv ==
    /\ TypeInv
    /\ RegisteredInv
    /\ \A n \in DOMAIN metadata : LaidOut(n)
    /\ \A t \in Finalizers : StackInv(t) /\ LoopInv(t) /\ NestingInv(t)
    /\ CrashOnlyIfMalformed

----------------------------------------------------------------------------
(* Arithmetic *)

\* AlignClusterOffset rounds up to the next multiple.
LEMMA AlignRoundsUp ==
  ASSUME NEW offset \in Nat, NEW a \in Alignments
  PROVE  /\ AlignClusterOffset(offset, a) \in Nat
         /\ AlignClusterOffset(offset, a) % a = 0
         /\ AlignClusterOffset(offset, a) - offset \in 0..(a - 1)
<1>1. CASE a = 1
  BY <1>1 DEF AlignClusterOffset
<1>2. CASE a = 4
  BY <1>2 DEF AlignClusterOffset
<1>3. CASE a = 8
  BY <1>3 DEF AlignClusterOffset
<1> QED
  BY <1>1, <1>2, <1>3 DEF Alignments

\* Alignments divide the larger ones.
LEMMA AlignmentsDivide ==
  ASSUME NEW a \in Alignments, NEW b \in Alignments, a <= b,
         NEW s \in Nat, s % b = 0
  PROVE  s % a = 0
<1>1. CASE b = 8 /\ a = 4
  BY <1>1
<1>2. CASE a = b \/ a = 1
  BY <1>2 DEF Alignments
<1> QED
  BY <1>1, <1>2 DEF Alignments

\* The element sizes of types other than nested clusters.
LEMMA FixedSizes ==
  ASSUME NEW type \in FieldTypes \ {"MessageValue"}, NEW rep \in BOOLEAN
  PROVE  /\ ClusterElementSize(type, rep) \in Alignments
         /\ rep \/ type \in {"StringValue", "BytesValue"}
              => ClusterElementSize(type, rep) = PointerSize
  BY DEF PointerSize, ClusterElementSize, FieldTypes, Alignments

----------------------------------------------------------------------------
(* Closures *)

\* A closure contains what it starts from and is closed.
LEMMA ReachableClosed ==
  ASSUME NEW next, NEW from, from \subseteq DOMAIN next,
         \A x \in DOMAIN next : next[x] \subseteq DOMAIN next
  PROVE  /\ Reachable(from, next) \subseteq DOMAIN next
         /\ from \subseteq Reachable(from, next)
         /\ \A x \in Reachable(from, next) : next[x] \subseteq Reachable(from, next)
  BY DEF Reachable

\* It is the least such set.
LEMMA ReachableLeast ==
  ASSUME NEW next, NEW from, NEW S \in SUBSET DOMAIN next, from \subseteq S,
         \A x \in S : next[x] \subseteq S
  PROVE  Reachable(from, next) \subseteq S
  BY DEF Reachable

----------------------------------------------------------------------------
(* What the steps do to the metadata *)

\* The messages keep their elements, apart from where these lie.
ElementsKept ==
    /\ DOMAIN metadata \subseteq DOMAIN metadata'
    /\ \A n \in DOMAIN metadata :
          /\ Count(n)' = Count(n)
          /\ \A i \in 1..Count(n) :
                /\ El(n, i)'.type = El(n, i).type
                /\ El(n, i)'.isRepeated = El(n, i).isRepeated
                /\ El(n, i)'.embeddedMessageName = El(n, i).embeddedMessageName
                /\ El(n, i)'.isWellKnown = El(n, i).isWellKnown

\* A message that is laid out keeps its size and its alignment.
LayoutsKept ==
    \A n \in DOMAIN metadata :
        metadata[n].clusterSize # 0 =>
            /\ metadata'[n].clusterSize = metadata[n].clusterSize
            /\ metadata'[n].alignmentRequirement = metadata[n].alignmentRequirement

MetadataRecord ==
    [_elements : Seq(Elements), clusterSize : Nat,
     alignmentRequirement : {0} \cup Alignments]

StoresOffset(n, e, offset) ==
    metadata' = [metadata EXCEPT ![n]._elements[e].clusterOffset = offset]

\* Storing the offset of one element changes nothing else.
LEMMA StoreOffset ==
  ASSUME TypeInv, NEW n \in DOMAIN metadata, NEW e \in 1..Count(n),
         NEW offset \in Nat, StoresOffset(n, e, offset)
  PROVE  /\ metadata' \in [DOMAIN metadata -> MetadataRecord]
         /\ ElementsKept /\ LayoutsKept
         /\ \A m \in DOMAIN metadata :
               /\ metadata'[m].clusterSize = metadata[m].clusterSize
               /\ metadata'[m].alignmentRequirement =
                     metadata[m].alignmentRequirement
               /\ \A i \in 1..Count(m) : m # n \/ i # e =>
                     Offset(m, i)' = Offset(m, i)
         /\ Offset(n, e)' = offset
<1> DEFINE rec == metadata[n]
           el == rec._elements[e]
           elements == [rec._elements EXCEPT
                          ![e] = [el EXCEPT !.clusterOffset = offset]]
<1>1. /\ metadata \in [DOMAIN metadata -> MetadataRecord]
      /\ rec \in MetadataRecord /\ rec._elements \in Seq(Elements)
      /\ e \in DOMAIN rec._elements /\ el \in Elements
  BY DEF TypeInv, MetadataRecord, Count
<1>2. [el EXCEPT !.clusterOffset = offset] \in Elements
  BY <1>1 DEF Elements
<1>3. elements \in Seq(Elements) /\ Len(elements) = Len(rec._elements)
  BY <1>1, <1>2
<1>4. metadata' = [metadata EXCEPT ![n] = [rec EXCEPT !._elements = elements]]
  BY DEF StoresOffset
<1>5. [rec EXCEPT !._elements = elements] \in MetadataRecord
  BY <1>1, <1>3 DEF MetadataRecord
<1>6. metadata' \in [DOMAIN metadata -> MetadataRecord]
  BY <1>1, <1>4, <1>5
<1>7. \A m \in DOMAIN metadata :
         /\ metadata'[m].clusterSize = metadata[m].clusterSize
         /\ metadata'[m].alignmentRequirement = metadata[m].alignmentRequirement
         /\ m # n => metadata'[m] = metadata[m]
  BY <1>1, <1>4 DEF MetadataRecord
<1>8. metadata'[n]._elements = elements
  BY <1>1, <1>4 DEF MetadataRecord
<1>9. /\ elements[e] = [el EXCEPT !.clusterOffset = offset]
      /\ \A i \in 1..Count(n) : i # e => elements[i] = rec._elements[i]
  BY <1>1 DEF Count
<1>10. ElementsKept
  <2>1. Count(n)' = Count(n)
    BY <1>3, <1>8 DEF Count
  <2>2. \A i \in 1..Count(n) :
           /\ El(n, i)'.type = El(n, i).type
           /\ El(n, i)'.isRepeated = El(n, i).isRepeated
           /\ El(n, i)'.embeddedMessageName = El(n, i).embeddedMessageName
           /\ El(n, i)'.isWellKnown = El(n, i).isWellKnown
    <3>1. /\ elements[e].type = el.type
          /\ elements[e].isRepeated = el.isRepeated
          /\ elements[e].embeddedMessageName = el.embeddedMessageName
          /\ elements[e].isWellKnown = el.isWellKnown
      BY <1>1, <1>9 DEF Elements
    <3> HIDE DEF elements
    <3> QED
      BY <1>8, <1>9, <3>1 DEF El
  <2>3. \A m \in DOMAIN metadata : m # n =>
           Count(m)' = Count(m) /\ \A i : El(m, i)' = El(m, i)
    BY <1>7 DEF Count, El
  <2> QED
    BY <1>6, <2>1, <2>2, <2>3 DEF ElementsKept
<1>11. Offset(n, e)' = offset
  BY <1>1, <1>8, <1>9 DEF Offset, El, Elements
<1> HIDE DEF elements
<1>12. \A m \in DOMAIN metadata : \A i \in 1..Count(m) :
          m # n \/ i # e => Offset(m, i)' = Offset(m, i)
  BY <1>7, <1>8, <1>9 DEF Offset, El
<1> QED
  BY <1>6, <1>7, <1>10, <1>11, <1>12 DEF LayoutsKept

\* Storing the size or the alignment of a message.
LEMMA StoreLayout ==
  ASSUME TypeInv, NEW n \in DOMAIN metadata,
         NEW size \in Nat, NEW a \in {0} \cup Alignments,
         \/ /\ metadata' = [metadata EXCEPT ![n].clusterSize = size]
            /\ a = metadata[n].alignmentRequirement
         \/ /\ metadata' = [metadata EXCEPT ![n].alignmentRequirement = a]
            /\ size = metadata[n].clusterSize
  PROVE  /\ metadata' \in [DOMAIN metadata -> MetadataRecord]
         /\ ElementsKept
         /\ \A m \in DOMAIN metadata : m # n => metadata'[m] = metadata[m]
         /\ metadata'[n].clusterSize = size
         /\ metadata'[n].alignmentRequirement = a
         /\ \A m \in DOMAIN metadata : \A i \in 1..Count(m) :
               Offset(m, i)' = Offset(m, i)
<1>1. /\ metadata \in [DOMAIN metadata -> MetadataRecord]
      /\ metadata[n] \in MetadataRecord
  BY DEF TypeInv, MetadataRecord
<1>2. metadata' = [metadata EXCEPT ![n] =
                     [metadata[n] EXCEPT !.clusterSize = size,
                                         !.alignmentRequirement = a]]
  BY <1>1 DEF MetadataRecord
<1>3. metadata' \in [DOMAIN metadata -> MetadataRecord]
  BY <1>1, <1>2 DEF MetadataRecord
<1>4. /\ \A m \in DOMAIN metadata : m # n => metadata'[m] = metadata[m]
      /\ metadata'[n].clusterSize = size
      /\ metadata'[n].alignmentRequirement = a
      /\ metadata'[n]._elements = metadata[n]._elements
  BY <1>1, <1>2 DEF MetadataRecord
<1>5. \A m \in DOMAIN metadata :
         Count(m)' = Count(m) /\ \A i : El(m, i)' = El(m, i)
  BY <1>4 DEF Count, El
<1> QED
  BY <1>3, <1>4, <1>5 DEF ElementsKept, Offset

----------------------------------------------------------------------------
(* Elements that are placed stay placed *)

\* The size and the alignment of an element are known.
Known(n, i) ==
    IsCluster(El(n, i)) =>
        /\ El(n, i).embeddedMessageName \in DOMAIN metadata
        /\ metadata[El(n, i).embeddedMessageName].clusterSize # 0

\* Elements, sizes and offsets have the types that TypeInv says.
LEMMA ElementTypes ==
  ASSUME TypeInv, NEW n \in DOMAIN metadata
  PROVE  /\ Count(n) \in Nat
         /\ \A i \in 1..Count(n) : El(n, i) \in Elements /\ Offset(n, i) \in Nat
         /\ metadata[n].clusterSize \in Nat
         /\ metadata[n].alignmentRequirement \in {0} \cup Alignments
<1>1. metadata[n] \in MetadataRecord
  BY DEF TypeInv, MetadataRecord
<1>2. metadata[n]._elements \in Seq(Elements)
  BY <1>1 DEF MetadataRecord
<1>3. \A i \in 1..Count(n) : El(n, i) \in Elements
  BY <1>2 DEF El, Count
<1>4. \A i \in 1..Count(n) : Offset(n, i) \in Nat
  BY <1>3 DEF Offset, Elements
<1> QED
  BY <1>1, <1>2, <1>3, <1>4 DEF MetadataRecord, Count

\* Their values.
LEMMA KnownValues ==
  ASSUME TypeInv, \A n \in DOMAIN metadata : LaidOut(n),
         NEW n \in DOMAIN metadata, NEW i \in 1..Count(n), Known(n, i)
  PROVE  /\ ElementAlignment(n, i) \in Alignments
         /\ ElementSize(n, i) \in Nat \ {0}
<1>1. CASE IsCluster(El(n, i))
  <2> DEFINE m == El(n, i).embeddedMessageName
  <2>1. m \in DOMAIN metadata /\ metadata[m].clusterSize # 0
    BY <1>1 DEF Known
  <2>2. metadata[m].clusterSize \in Nat
    BY <2>1, ElementTypes
  <2>3. metadata[m].alignmentRequirement \in Alignments
    BY <2>1 DEF LaidOut, IsMaxAlignment
  <2> QED
    BY <1>1, <2>1, <2>2, <2>3 DEF ElementAlignment, ElementSize
<1>2. CASE ~IsCluster(El(n, i))
  <2>1. El(n, i).type \in FieldTypes /\ El(n, i).isRepeated \in BOOLEAN
    BY ElementTypes DEF Elements
  <2>2. FixedSize(El(n, i)) \in Alignments
    BY <2>1, FixedSizes DEF PointerSize, FixedSize, Alignments
  <2>3. FixedSize(El(n, i)) \in Nat \ {0}
    BY <2>2 DEF Alignments
  <2> QED
    BY <1>2, <2>2, <2>3 DEF ElementAlignment, ElementSize
<1> QED
  BY <1>1, <1>2

\* They do not change.
LEMMA KnownStays ==
  ASSUME ElementsKept, LayoutsKept, NEW n \in DOMAIN metadata,
         NEW i \in 1..Count(n), Known(n, i)
  PROVE  /\ Known(n, i)'
         /\ ElementSize(n, i)' = ElementSize(n, i)
         /\ ElementAlignment(n, i)' = ElementAlignment(n, i)
<1>1. /\ El(n, i)'.type = El(n, i).type
      /\ El(n, i)'.isRepeated = El(n, i).isRepeated
      /\ El(n, i)'.embeddedMessageName = El(n, i).embeddedMessageName
      /\ El(n, i)'.isWellKnown = El(n, i).isWellKnown
  BY DEF ElementsKept
<1>2. IsCluster(El(n, i))' <=> IsCluster(El(n, i))
  BY <1>1 DEF IsCluster
<1>3. FixedSize(El(n, i))' = FixedSize(El(n, i))
  BY <1>1 DEF FixedSize
<1>4. CASE IsCluster(El(n, i))
  <2> DEFINE m == El(n, i).embeddedMessageName
  <2>1. m \in DOMAIN metadata /\ metadata[m].clusterSize # 0
    BY <1>4 DEF Known
  <2>2. /\ metadata'[m].clusterSize = metadata[m].clusterSize
        /\ metadata'[m].alignmentRequirement = metadata[m].alignmentRequirement
    BY <2>1 DEF LayoutsKept
  <2>3. m' = m /\ DOMAIN metadata \subseteq DOMAIN metadata'
    BY <1>1 DEF ElementsKept
  <2> QED
    BY <1>2, <1>4, <2>1, <2>2, <2>3 DEF Known, ElementSize, ElementAlignment
<1>5. CASE ~IsCluster(El(n, i))
  BY <1>2, <1>3, <1>5 DEF Known, ElementSize, ElementAlignment
<1> QED
  BY <1>4, <1>5

\* The first k elements stay placed when their offsets stay.
LEMMA PlacedStays ==
  ASSUME TypeInv, ElementsKept, LayoutsKept, NEW n \in DOMAIN metadata,
         NEW k \in 0..Count(n), PlacedUpTo(n, k),
         \A i \in 1..k : Offset(n, i)' = Offset(n, i)
  PROVE  /\ PlacedUpTo(n, k)'
         /\ After(n, k)' = After(n, k)
         /\ \A i \in 1..k : ElementAlignment(n, i)' = ElementAlignment(n, i)
         /\ \A a : IsMaxAlignment(n, k, a) => IsMaxAlignment(n, k, a)'
<1>1. Count(n) \in Nat
  BY ElementTypes
<1>2. \A i \in 1..k : i \in 1..Count(n) /\ Known(n, i)
  BY <1>1 DEF PlacedUpTo, Placed, Known
<1>3. \A i \in 1..k : /\ Known(n, i)'
                      /\ ElementSize(n, i)' = ElementSize(n, i)
                      /\ ElementAlignment(n, i)' = ElementAlignment(n, i)
  BY <1>2, KnownStays
<1>4. \A i \in 0..k : After(n, i)' = After(n, i)
  BY <1>1, <1>3 DEF After
<1>5. ASSUME NEW i \in 1..k PROVE Placed(n, i)'
  <2>1. Placed(n, i) /\ i - 1 \in 0..k
    BY <1>1 DEF PlacedUpTo
  <2>2. After(n, i - 1)' = After(n, i - 1)
    BY <1>4, <2>1
  <2> QED
    BY <1>3, <2>1, <2>2 DEF Placed, Known
<1>6. ASSUME NEW a, IsMaxAlignment(n, k, a) PROVE IsMaxAlignment(n, k, a)'
  BY <1>3, <1>6 DEF IsMaxAlignment
<1> QED
  BY <1>1, <1>3, <1>4, <1>5, <1>6 DEF PlacedUpTo

\* So does a frame.
LEMMA FrameStays ==
  ASSUME TypeInv, ElementsKept, LayoutsKept, NEW f, FrameInv(f),
         \A i \in 1..(f.element - 1) :
            Offset(f.message, i)' = Offset(f.message, i)
  PROVE  FrameInv(f)'
<1> DEFINE k == f.element - 1
<1>1. Count(f.message) \in Nat /\ f.message \in DOMAIN metadata
  BY ElementTypes DEF FrameInv
<1>2. k \in 0..Count(f.message)
  BY <1>1 DEF FrameInv
<1>3. /\ PlacedUpTo(f.message, k)' /\ After(f.message, k)' = After(f.message, k)
      /\ IsMaxAlignment(f.message, k, f.max)'
  BY <1>1, <1>2, PlacedStays DEF FrameInv
<1> QED
  BY <1>1, <1>3 DEF FrameInv, ElementsKept

\* And a complete layout.
LEMMA LaidOutStays ==
  ASSUME TypeInv, ElementsKept, LayoutsKept, NEW n \in DOMAIN metadata,
         LaidOut(n), metadata[n].clusterSize # 0,
         \A i \in 1..Count(n) : Offset(n, i)' = Offset(n, i)
  PROVE  LaidOut(n)'
<1>1. Count(n) \in Nat /\ Count(n) \in 0..Count(n) /\ Count(n)' = Count(n)
  BY ElementTypes DEF ElementsKept
<1>2. ASSUME NEW k, k = Count(n)
      PROVE  /\ PlacedUpTo(n, k)' /\ After(n, k)' = After(n, k)
             /\ \A a : IsMaxAlignment(n, k, a) => IsMaxAlignment(n, k, a)'
  BY <1>1, <1>2, PlacedStays DEF LaidOut
<1>3. /\ metadata'[n].clusterSize = metadata[n].clusterSize
      /\ metadata'[n].alignmentRequirement = metadata[n].alignmentRequirement
  BY DEF LayoutsKept
<1> QED
  BY <1>1, <1>2, <1>3 DEF LaidOut

\* The largest alignment of some elements is one number.
LEMMA MaxIsUnique ==
  ASSUME TypeInv, \A n \in DOMAIN metadata : LaidOut(n),
         NEW n \in DOMAIN metadata, NEW k \in 1..Count(n), PlacedUpTo(n, k),
         NEW a, NEW b, IsMaxAlignment(n, k, a), IsMaxAlignment(n, k, b)
  PROVE  a = b
<1>1. Count(n) \in Nat
  BY ElementTypes
<1>2. \A i \in 1..k : ElementAlignment(n, i) \in Alignments
  BY <1>1, KnownValues DEF PlacedUpTo, Placed, Known
<1> QED
  BY <1>1, <1>2 DEF IsMaxAlignment, Alignments

----------------------------------------------------------------------------
(* One iteration over the elements *)

\* The .proto file does not change, so neither does what is derived from it.
LEMMA ProtoKept ==
  ASSUME proto' = proto
  PROVE  /\ Messages' = Messages /\ Elements' = Elements
         /\ Collected' = Collected
         /\ \A m : LVMessageName(m)' = LVMessageName(m) /\ Fields(m)' = Fields(m)
<1>1. Messages' = Messages /\ \A m : Fields(m)' = Fields(m)
  BY DEF Messages, Fields
<1>2. \A m : LVMessageName(m)' = LVMessageName(m)
  BY DEF LVMessageName
<1>3. Elements' = Elements
  BY <1>1, <1>2 DEF Elements
<1>4. \A m : AddNestedMessages(m)' = AddNestedMessages(m)
  BY DEF AddNestedMessages
<1>5. Collected' = Collected
  BY <1>4 DEF Collected, AddDependentMessages
<1> QED
  BY <1>1, <1>2, <1>3, <1>5

\* The layout part of the invariant.
LayoutInv ==
    /\ \A n \in DOMAIN metadata : LaidOut(n)
    /\ \A t \in Finalizers : StackInv(t) /\ LoopInv(t)

\* The frame on top of a stack.
LEMMA TopFrame ==
  ASSUME TypeInv, LayoutInv, NEW t \in Finalizers, thread[t].stack # <<>>,
         NEW f, f = Last(thread[t].stack)
  PROVE  /\ thread[t].stack \in Seq(StackFrames)
         /\ Len(thread[t].stack) \in Nat \ {0}
         /\ f \in Frames(t) /\ f \in StackFrames /\ FrameInv(f)
         /\ thread[t].at \in {"loop", "size"}
<1>1. thread[t].stack \in Seq(StackFrames)
  BY DEF TypeInv
<1>2. Len(thread[t].stack) \in Nat \ {0}
  BY <1>1
<1>3. f \in Frames(t) /\ f \in StackFrames
  BY <1>1, <1>2 DEF Frames, ToSet, Last
<1>4. thread[t].at \in {"idle", "loop", "size", "done"}
  BY DEF TypeInv
<1> QED
  BY <1>1, <1>2, <1>3, <1>4 DEF LayoutInv, StackInv

\* The frame f becomes g.
Advances(f, g, x, y, z) ==
    g = [f EXCEPT !.element = x, !.offset = y, !.max = z]

\* What a frame becomes.
LEMMA NextFrame ==
  ASSUME NEW f \in StackFrames, NEW x \in Nat, NEW y \in Nat,
         NEW z \in {0} \cup Alignments, NEW g, Advances(f, g, x, y, z)
  PROVE  /\ g \in StackFrames /\ g.message = f.message
         /\ g.element = x /\ g.offset = y /\ g.max = z
  BY DEF StackFrames, Advances

\* The frame g in the place of the top.
ReplacesTop(t, g) ==
    thread' = [thread EXCEPT ![t].stack[Len(thread[t].stack)] = g]

\* Place keeps the other frames.
LEMMA PlaceFrames ==
  ASSUME TypeInv, LayoutInv, NEW t \in Finalizers, thread[t].stack # <<>>,
         NEW f, f = Last(thread[t].stack), NEW g, g.message = f.message,
         ReplacesTop(t, g)
  PROVE  /\ \A u \in Finalizers \ {t} : thread'[u] = thread[u]
         /\ thread'[t].at = thread[t].at /\ thread'[t].todo = thread[t].todo
         /\ thread'[t].stack # <<>> /\ Last(thread'[t].stack) = g
         /\ Len(thread'[t].stack) = Len(thread[t].stack)
         /\ \A j \in 1..Len(thread[t].stack) :
               thread'[t].stack[j].message = thread[t].stack[j].message
         /\ Frames(t)' \subseteq Frames(t) \cup {g}
         /\ \A h \in Frames(t) : \E j \in Frames(t)' : j.message = h.message
         /\ g \in StackFrames =>
               thread' \in [Finalizers -> [at : {"idle", "loop", "size", "done"},
                                           todo : SUBSET DOMAIN metadata,
                                           stack : Seq(StackFrames)]]
<1> DEFINE s == thread[t].stack
           r == [s EXCEPT ![Len(s)] = g]
<1>1. s \in Seq(StackFrames) /\ Len(s) \in Nat \ {0}
  BY TopFrame
<1>2. thread' = [thread EXCEPT ![t] = [thread[t] EXCEPT !.stack = r]]
  BY DEF ReplacesTop
<1>3. /\ thread'[t].at = thread[t].at /\ thread'[t].todo = thread[t].todo
      /\ thread'[t].stack = r
      /\ \A u \in Finalizers \ {t} : thread'[u] = thread[u]
  BY <1>2 DEF TypeInv
<1>4. /\ Len(r) = Len(s) /\ r[Len(s)] = g
      /\ \A j \in 1..Len(s) : j # Len(s) => r[j] = s[j]
      /\ DOMAIN r = 1..Len(s)
  BY <1>1
<1>5. r # <<>> /\ Last(r) = g
  BY <1>1, <1>4 DEF Last
<1>6. \A j \in 1..Len(s) : r[j].message = s[j].message
  BY <1>1, <1>4 DEF Last
<1>7. Frames(t)' = {r[j] : j \in 1..Len(s)} /\ Frames(t) = {s[j] : j \in 1..Len(s)}
  <2>1. Frames(t)' = ToSet(r) /\ Frames(t) = ToSet(s)
    BY <1>3 DEF Frames
  <2>2. DOMAIN s = 1..Len(s)
    BY <1>1
  <2> HIDE DEF r, s
  <2> QED
    BY <1>4, <2>1, <2>2 DEF ToSet
<1>8. ASSUME g \in StackFrames
      PROVE  thread' \in [Finalizers -> [at : {"idle", "loop", "size", "done"},
                                         todo : SUBSET DOMAIN metadata,
                                         stack : Seq(StackFrames)]]
  <2>1. r \in Seq(StackFrames)
    BY <1>1, <1>8
  <2> HIDE DEF r
  <2> QED
    BY <1>2, <2>1 DEF TypeInv
<1> HIDE DEF r
<1>9. /\ Frames(t)' \subseteq Frames(t) \cup {g}
      /\ \A h \in Frames(t) : \E j \in Frames(t)' : j.message = h.message
  BY <1>1, <1>4, <1>6, <1>7
<1> QED
  BY <1>3, <1>4, <1>5, <1>6, <1>8, <1>9

\* A thread stores the offset of its element.  Whoever has passed the element
\* finds the offset that was there.
LEMMA PlaceKeepsLayout ==
  ASSUME TypeInv, LayoutInv, NEW t \in Finalizers, thread[t].stack # <<>>,
         NEW f, f = Last(thread[t].stack),
         NEW n, n = f.message, NEW e, e = f.element, e <= Count(n), Known(n, e),
         NEW size, size = ElementSize(n, e),
         NEW a, a = ElementAlignment(n, e),
         Place(t, size, a)
  PROVE  /\ TypeInv' /\ LayoutInv' /\ UNCHANGED <<proto, parser, crash>>
         /\ ElementsKept /\ DOMAIN metadata' = DOMAIN metadata
         /\ \A u \in Finalizers \ {t} : thread'[u] = thread[u]
         /\ Len(thread'[t].stack) = Len(thread[t].stack)
         /\ \A j \in 1..Len(thread[t].stack) :
               thread'[t].stack[j].message = thread[t].stack[j].message
<1> DEFINE offset == AlignClusterOffset(f.offset, a)
           max == IF f.max < a THEN a ELSE f.max
           g == [f EXCEPT !.element = e + 1, !.offset = offset + size,
                          !.max = max]
<1>1. /\ f \in Frames(t) /\ f \in StackFrames /\ FrameInv(f)
      /\ thread[t].at \in {"loop", "size"}
  BY TopFrame
<1>2. n \in DOMAIN metadata /\ e \in 1..Count(n) /\ Count(n) \in Nat
  BY <1>1, ElementTypes DEF FrameInv
<1>3. a \in Alignments /\ size \in Nat \ {0}
  BY <1>2, KnownValues DEF LayoutInv
<1>4. /\ f.offset = After(n, e - 1) /\ PlacedUpTo(n, e - 1)
      /\ IsMaxAlignment(n, e - 1, f.max)
      /\ f.offset \in Nat /\ f.max \in {0} \cup Alignments
  BY <1>1 DEF FrameInv, StackFrames
<1>5. offset \in Nat
  BY <1>3, <1>4, AlignRoundsUp
<1>6. /\ StoresOffset(n, e, offset) /\ ReplacesTop(t, g)
      /\ UNCHANGED <<proto, parser, crash>>
  <2>1. [f EXCEPT !.element = @ + 1, !.offset = offset + size,
                  !.max = IF @ < a THEN a ELSE @] = g
    OBVIOUS
  <2> HIDE DEF g
  <2> QED
    BY <2>1 DEF Place, StoresOffset, ReplacesTop
<1>7. /\ g.message = n /\ g.element = e + 1 /\ g.offset = offset + size
      /\ g.max = IF f.max < a THEN a ELSE f.max
      /\ g \in StackFrames
  <2>1. /\ e + 1 \in Nat /\ offset + size \in Nat
        /\ max \in {0} \cup Alignments
    BY <1>2, <1>3, <1>4, <1>5
  <2>2. Advances(f, g, e + 1, offset + size, max)
    BY DEF Advances
  <2>3. /\ g \in StackFrames /\ g.message = f.message
        /\ g.element = e + 1 /\ g.offset = offset + size /\ g.max = max
    <3>1. ASSUME NEW x \in Nat, NEW y \in Nat, NEW z \in {0} \cup Alignments,
                 NEW h, Advances(f, h, x, y, z)
          PROVE  /\ h \in StackFrames /\ h.message = f.message
                 /\ h.element = x /\ h.offset = y /\ h.max = z
      BY <1>1, <3>1, NextFrame
    <3> HIDE DEF offset, g, max
    <3> QED
      BY <2>1, <2>2, <3>1
  <2> HIDE DEF g, offset
  <2> QED
    BY <2>3
<1> HIDE DEF offset, g
<1>8. /\ metadata' \in [DOMAIN metadata -> MetadataRecord]
      /\ ElementsKept /\ LayoutsKept
      /\ \A m \in DOMAIN metadata :
            /\ metadata'[m].clusterSize = metadata[m].clusterSize
            /\ metadata'[m].alignmentRequirement =
                  metadata[m].alignmentRequirement
            /\ \A i \in 1..Count(m) : m # n \/ i # e =>
                  Offset(m, i)' = Offset(m, i)
      /\ Offset(n, e)' = offset
  BY <1>2, <1>5, <1>6, StoreOffset
<1>9. /\ \A u \in Finalizers \ {t} : thread'[u] = thread[u]
      /\ thread'[t].at = thread[t].at /\ thread'[t].todo = thread[t].todo
      /\ thread'[t].stack # <<>> /\ Last(thread'[t].stack) = g
      /\ Len(thread'[t].stack) = Len(thread[t].stack)
      /\ \A j \in 1..Len(thread[t].stack) :
            thread'[t].stack[j].message = thread[t].stack[j].message
      /\ Frames(t)' \subseteq Frames(t) \cup {g}
      /\ \A h \in Frames(t) : \E j \in Frames(t)' : j.message = h.message
      /\ thread' \in [Finalizers -> [at : {"idle", "loop", "size", "done"},
                                     todo : SUBSET DOMAIN metadata,
                                     stack : Seq(StackFrames)]]
  BY <1>6, <1>7, PlaceFrames
<1>10. Placed(n, e) => Offset(n, e) = offset
  BY <1>4 DEF Placed, offset
<1>11. ASSUME NEW h, FrameInv(h) PROVE FrameInv(h)'
  <2>1. Count(h.message) \in Nat /\ h.message \in DOMAIN metadata
        /\ h.element \in 1..(Count(h.message) + 1)
    BY <1>11, ElementTypes DEF FrameInv
  <2>2. ASSUME NEW i \in 1..(h.element - 1)
        PROVE  Offset(h.message, i)' = Offset(h.message, i)
    <3>1. i \in 1..Count(h.message) /\ Placed(h.message, i)
      BY <1>11, <2>1 DEF FrameInv, PlacedUpTo
    <3> QED
      BY <1>8, <1>10, <2>1, <3>1
  <2> QED
    BY <1>8, <1>11, <2>2, FrameStays
<1>12. ASSUME NEW m \in DOMAIN metadata PROVE LaidOut(m)'
  <2>1. LaidOut(m) /\ Count(m)' = Count(m)
    BY <1>8 DEF LayoutInv, ElementsKept
  <2>2. CASE metadata[m].clusterSize = 0
    BY <1>8, <2>1, <2>2 DEF LaidOut
  <2>3. CASE metadata[m].clusterSize # 0
    <3>1. \A i \in 1..Count(m) : Placed(m, i)
      BY <2>1, <2>3 DEF LaidOut, PlacedUpTo
    <3>2. \A i \in 1..Count(m) : Offset(m, i)' = Offset(m, i)
      BY <1>8, <1>10, <3>1
    <3> QED
      BY <1>8, <2>1, <2>3, <3>2, LaidOutStays
  <2> QED
    BY <2>2, <2>3
<1>13. FrameInv(g)'
  <2>1. e - 1 \in 0..Count(n)
    BY <1>2
  <2>2. \A i \in 1..(e - 1) : Offset(n, i)' = Offset(n, i)
    BY <1>2, <1>8
  <2>3. ASSUME NEW k, k = e - 1
        PROVE  /\ PlacedUpTo(n, k)' /\ After(n, k)' = After(n, k)
               /\ \A i \in 1..k : ElementAlignment(n, i)' = ElementAlignment(n, i)
    BY <1>2, <1>4, <1>8, <2>1, <2>2, <2>3, PlacedStays
  <2>4. /\ Known(n, e)' /\ ElementSize(n, e)' = size
        /\ ElementAlignment(n, e)' = a
    BY <1>2, <1>8, KnownStays
  <2>5. Placed(n, e)'
    BY <1>4, <1>8, <2>3, <2>4 DEF Placed, Known, offset
  <2>6. PlacedUpTo(n, e)'
    BY <1>2, <2>3, <2>5 DEF PlacedUpTo
  <2>7. After(n, e)' = offset + size
    BY <1>2, <1>8, <2>4 DEF After
  <2>8. \A i \in 1..(e - 1) : ElementAlignment(n, i) \in Alignments
    BY <1>2, <1>4, KnownValues DEF PlacedUpTo, Placed, Known, LayoutInv
  <2>9. IsMaxAlignment(n, e, g.max)'
    <3>1. \A i \in 1..e : i \in 1..(e - 1) \/ i = e
      BY <1>2
    <3>2. /\ \A i \in 1..(e - 1) : ElementAlignment(n, i)' \in Alignments
          /\ ElementAlignment(n, e)' = a
      BY <2>3, <2>4, <2>8
    <3>3. \A i \in 1..e : ElementAlignment(n, i)' <= g.max
      <4>1. \A i \in 1..(e - 1) : ElementAlignment(n, i)' <= f.max
        BY <1>4, <2>3 DEF IsMaxAlignment
      <4> QED
        BY <1>3, <1>4, <1>7, <3>1, <3>2, <4>1 DEF Alignments
    <3>4. \E i \in 1..e : ElementAlignment(n, i)' = g.max
      <4>1. CASE f.max < a
        BY <1>2, <1>7, <3>2, <4>1
      <4>2. CASE ~(f.max < a)
        <5>1. e # 1
          BY <1>3, <1>4, <4>2 DEF IsMaxAlignment, Alignments
        <5>2. \E i \in 1..(e - 1) : ElementAlignment(n, i) = f.max
          BY <1>2, <1>4, <5>1 DEF IsMaxAlignment
        <5> QED
          BY <1>2, <1>7, <2>3, <4>2, <5>2
      <4> QED
        BY <4>1, <4>2
    <3>5. g.max \in Alignments
      BY <1>3, <1>4, <1>7 DEF Alignments
    <3> QED
      BY <1>2, <3>3, <3>4, <3>5 DEF IsMaxAlignment
  <2>10. Count(n)' = Count(n) /\ n \in DOMAIN metadata'
    BY <1>2, <1>8 DEF ElementsKept
  <2> QED
    BY <1>2, <1>7, <2>6, <2>7, <2>9, <2>10 DEF FrameInv
<1>14. ASSUME NEW u \in Finalizers PROVE StackInv(u)' /\ LoopInv(u)'
  <2>1. StackInv(u) /\ LoopInv(u)
    BY DEF LayoutInv
  <2>2. \A h \in Frames(u)' : FrameInv(h)'
    BY <1>9, <1>11, <1>13, <2>1 DEF StackInv, Frames
  <2>3. \A m \in DOMAIN metadata : NeedsLayout(m)' <=> NeedsLayout(m)
    <3>1. \A m \in DOMAIN metadata :
             /\ Count(m)' = Count(m)
             /\ metadata'[m].clusterSize = metadata[m].clusterSize
      BY <1>8 DEF ElementsKept
    <3>2. \A m \in DOMAIN metadata :
             /\ metadata[m]._elements \in Seq(Elements)
             /\ metadata'[m]._elements \in Seq(Elements)
      BY <1>8 DEF TypeInv, MetadataRecord
    <3> QED
      BY <3>1, <3>2 DEF NeedsLayout, Count
  <2>4. thread[t].at = "loop"
    BY <1>1, <1>2, <2>1 DEF LayoutInv, StackInv
  <2>5. StackInv(u)'
    <3>1. CASE u = t
      BY <1>9, <2>2, <2>4, <3>1 DEF StackInv
    <3>2. CASE u # t
      BY <1>8, <1>9, <2>1, <2>2, <3>2 DEF StackInv, Frames, ElementsKept,
         FrameInv
    <3> QED
      BY <3>1, <3>2
  <2>6. LoopInv(u)'
    <3>1. thread'[u].at = thread[u].at /\ thread'[u].todo = thread[u].todo
      BY <1>9
    <3>2. \A h \in Frames(u) : \E j \in Frames(u)' : j.message = h.message
      BY <1>9 DEF Frames
    <3>3. DOMAIN metadata' = DOMAIN metadata /\ parser' = parser
      BY <1>6, <1>8 DEF ElementsKept
    <3> QED
      BY <2>1, <2>3, <3>1, <3>2, <3>3 DEF LoopInv
  <2> QED
    BY <2>5, <2>6
<1>15. TypeInv'
  <2>1. DOMAIN metadata' = DOMAIN metadata
    BY <1>8
  <2>2. Elements' = Elements /\ Collected' = Collected
    BY <1>6, ProtoKept
  <2>3. StackFrames' = StackFrames
    BY <2>1 DEF StackFrames
  <2> QED
    BY <1>6, <1>8, <1>9, <2>1, <2>2, <2>3 DEF TypeInv, MetadataRecord
<1>16. LayoutInv'
  BY <1>8, <1>12, <1>14 DEF LayoutInv
<1> QED
  BY <1>6, <1>8, <1>9, <1>15, <1>16

----------------------------------------------------------------------------
(* Steps that change the state of one thread only *)

ThreadStates ==
    [at : {"idle", "loop", "size", "done"}, todo : SUBSET DOMAIN metadata,
     stack : Seq(StackFrames)]

\* What the layout invariant asks of a thread that is not about to store a size.
ThreadFits(x) ==
    /\ \A f \in ToSet(x.stack) : FrameInv(f)
    /\ x.at \in {"idle", "done"} => x.stack = <<>>
    /\ x.at # "size"
    /\ x.at # "idle" =>
          /\ parser.at = "generated" /\ parser.todo = {}
          /\ x.at = "done" => x.todo = {}
          /\ \A n \in DOMAIN metadata :
                \/ n \in x.todo
                \/ ~NeedsLayout(n)
                \/ \E f \in ToSet(x.stack) : f.message = n

ThreadBecomes(t, x) ==
    /\ thread' = [thread EXCEPT ![t] = x]
    /\ UNCHANGED <<proto, parser, metadata, crash>>

\* What is said about the metadata stays true while it does not change.
LEMMA SameMetadata ==
  ASSUME metadata' = metadata
  PROVE  /\ \A n : Count(n)' = Count(n) /\ (NeedsLayout(n)' <=> NeedsLayout(n))
         /\ \A n : LaidOut(n)' <=> LaidOut(n)
         /\ \A f : FrameInv(f)' <=> FrameInv(f)
<1>1. /\ \A n, i : El(n, i)' = El(n, i) /\ Offset(n, i)' = Offset(n, i)
      /\ \A n : Count(n)' = Count(n) /\ (NeedsLayout(n)' <=> NeedsLayout(n))
  BY DEF El, Offset, Count, NeedsLayout
<1>2. /\ \A n, i : ElementSize(n, i)' = ElementSize(n, i)
      /\ \A n, i : ElementAlignment(n, i)' = ElementAlignment(n, i)
  BY <1>1 DEF ElementSize, ElementAlignment
<1>3. \A n, i : After(n, i)' = After(n, i)
  BY <1>1, <1>2 DEF After
<1>4. \A n, i : Placed(n, i)' <=> Placed(n, i)
  BY <1>1, <1>2, <1>3 DEF Placed
<1>5. /\ \A n, k : PlacedUpTo(n, k)' <=> PlacedUpTo(n, k)
      /\ \A n, k, a : IsMaxAlignment(n, k, a)' <=> IsMaxAlignment(n, k, a)
  BY <1>2, <1>4 DEF PlacedUpTo, IsMaxAlignment
<1>6. /\ \A n : LaidOut(n)' <=> LaidOut(n)
      /\ \A f : FrameInv(f)' <=> FrameInv(f)
  BY <1>1, <1>3, <1>5 DEF LaidOut, FrameInv
<1> QED
  BY <1>1, <1>6

\* A state that fits keeps the invariant.
LEMMA ThreadStep ==
  ASSUME TypeInv, LayoutInv, NEW t \in Finalizers,
         NEW x \in ThreadStates, ThreadFits(x), ThreadBecomes(t, x)
  PROVE  /\ TypeInv' /\ LayoutInv'
         /\ thread'[t] = x /\ \A u \in Finalizers \ {t} : thread'[u] = thread[u]
<1>1. thread \in [Finalizers -> ThreadStates]
  BY DEF TypeInv, ThreadStates
<1>2. /\ thread'[t] = x /\ \A u \in Finalizers \ {t} : thread'[u] = thread[u]
      /\ thread' \in [Finalizers -> ThreadStates]
  BY <1>1 DEF ThreadBecomes
<1>3. UNCHANGED <<proto, parser, metadata, crash>>
  BY DEF ThreadBecomes
<1>4. TypeInv'
  <2>1. Elements' = Elements /\ Collected' = Collected
    BY <1>3, ProtoKept
  <2>2. StackFrames' = StackFrames
    BY <1>3 DEF StackFrames
  <2> QED
    BY <1>2, <1>3, <2>1, <2>2 DEF TypeInv, ThreadStates
<1>5. /\ \A n : Count(n)' = Count(n) /\ (NeedsLayout(n)' <=> NeedsLayout(n))
      /\ \A n : LaidOut(n)' <=> LaidOut(n)
      /\ \A f : FrameInv(f)' <=> FrameInv(f)
  BY <1>3, SameMetadata
<1>6. StackInv(t)' /\ LoopInv(t)'
  <2>1. Frames(t)' = ToSet(x.stack)
    BY <1>2 DEF Frames
  <2>2. StackInv(t)'
    BY <1>2, <1>5, <2>1 DEF StackInv, ThreadFits
  <2>3. LoopInv(t)'
    BY <1>2, <1>3, <1>5, <2>1 DEF LoopInv, ThreadFits
  <2> QED
    BY <2>2, <2>3
<1>7. ASSUME NEW u \in Finalizers \ {t} PROVE StackInv(u)' /\ LoopInv(u)'
  <2>1. thread'[u] = thread[u] /\ Frames(u)' = Frames(u)
    BY <1>2 DEF Frames
  <2>2. StackInv(u)'
    BY <1>3, <1>5, <2>1 DEF StackInv, LayoutInv
  <2>3. LoopInv(u)'
    BY <1>3, <1>5, <2>1 DEF LoopInv, LayoutInv
  <2> QED
    BY <2>2, <2>3
<1> QED
  BY <1>2, <1>3, <1>4, <1>5, <1>6, <1>7 DEF LayoutInv

\* A frame that starts on a message that needs a layout.
LEMMA NewFrame ==
  ASSUME TypeInv, NEW n \in DOMAIN metadata, NeedsLayout(n)
  PROVE  /\ Frame(n) \in StackFrames /\ FrameInv(Frame(n))
         /\ Frame(n).message = n
<1>1. metadata[n]._elements \in Seq(Elements)
  BY DEF TypeInv
<1>2. Count(n) \in Nat /\ Count(n) # 0
  BY <1>1 DEF Count, NeedsLayout
<1>3. PlacedUpTo(n, 0) /\ After(n, 0) = 0 /\ IsMaxAlignment(n, 0, 0)
  BY DEF PlacedUpTo, After, IsMaxAlignment
<1> QED
  BY <1>2, <1>3 DEF Frame, FrameInv, StackFrames

\* FinalizeMetadata starts with everything to do.
LEMMA FinalizeMetadataStep ==
  ASSUME TypeInv, LayoutInv, NEW t \in Finalizers, FinalizeMetadata(t)
  PROVE  /\ TypeInv' /\ LayoutInv' /\ thread'[t].stack = <<>>
         /\ \A u \in Finalizers \ {t} : thread'[u] = thread[u]
<1> DEFINE x == [at |-> "loop", todo |-> DOMAIN metadata, stack |-> <<>>]
<1>1. x \in ThreadStates
  BY DEF ThreadStates
<1>2. ThreadFits(x)
  BY DEF ThreadFits, FinalizeMetadata, ToSet
<1>3. ThreadBecomes(t, x)
  BY DEF FinalizeMetadata, ThreadBecomes
<1>4. x.stack = <<>>
  OBVIOUS
<1> HIDE DEF x
<1> QED
  BY <1>1, <1>2, <1>3, <1>4, ThreadStep

\* The next message of the loop.
LEMMA NextMessageStep ==
  ASSUME TypeInv, LayoutInv, NEW t \in Finalizers, NEW n, NextMessage(t, n)
  PROVE  /\ TypeInv' /\ LayoutInv' /\ Len(thread'[t].stack) \in {0, 1}
         /\ \A u \in Finalizers \ {t} : thread'[u] = thread[u]
<1> DEFINE s == IF NeedsLayout(n) THEN <<Frame(n)>> ELSE <<>>
           todo == thread[t].todo \ {n}
           x == [thread[t] EXCEPT !.todo = todo, !.stack = s]
<1>1. /\ thread[t] \in ThreadStates /\ thread[t].at = "loop"
      /\ thread[t].stack = <<>> /\ n \in thread[t].todo
      /\ n \in DOMAIN metadata
  BY DEF TypeInv, ThreadStates, NextMessage
<1>2. NeedsLayout(n) => Frame(n) \in StackFrames /\ FrameInv(Frame(n))
                        /\ Frame(n).message = n
  BY <1>1, NewFrame
<1>3. s \in Seq(StackFrames) /\ Len(s) \in {0, 1}
  BY <1>2
<1>4. ToSet(s) = IF NeedsLayout(n) THEN {Frame(n)} ELSE {}
  <2>1. CASE NeedsLayout(n)
    BY <2>1 DEF ToSet
  <2>2. CASE ~NeedsLayout(n)
    BY <2>2 DEF ToSet
  <2> QED
    BY <2>1, <2>2
<1>5. /\ x.at = "loop" /\ x.todo = todo /\ x.stack = s
      /\ x \in ThreadStates
  <2>1. todo \in SUBSET DOMAIN metadata
    BY <1>1 DEF ThreadStates
  <2> HIDE DEF s, todo
  <2> QED
    BY <1>1, <1>3, <2>1 DEF ThreadStates
<1>6. ThreadBecomes(t, x)
  <2>1. thread' = [thread EXCEPT ![t].todo = todo, ![t].stack = s]
        /\ UNCHANGED <<proto, parser, metadata, crash>>
    BY DEF NextMessage
  <2> HIDE DEF s, todo
  <2> QED
    BY <2>1 DEF ThreadBecomes, TypeInv
<1> HIDE DEF s, x
<1>7. ThreadFits(x)
  <2>1. \A f \in ToSet(s) : FrameInv(f)
    BY <1>2, <1>4
  <2>2. /\ parser.at = "generated" /\ parser.todo = {}
        /\ \A m \in DOMAIN metadata : m \in thread[t].todo \/ ~NeedsLayout(m)
    BY <1>1 DEF LayoutInv, LoopInv, Frames, ToSet
  <2>3. ASSUME NEW m \in DOMAIN metadata
        PROVE  m \in todo \/ ~NeedsLayout(m) \/ \E f \in ToSet(s) : f.message = m
    BY <1>2, <1>4, <2>2
  <2> HIDE DEF todo
  <2> QED
    BY <1>5, <2>1, <2>2, <2>3 DEF ThreadFits
<1> QED
  BY <1>3, <1>5, <1>6, <1>7, ThreadStep

\* The end of the loop.
LEMMA EndLoopStep ==
  ASSUME TypeInv, LayoutInv, NEW t \in Finalizers, EndLoop(t)
  PROVE  /\ TypeInv' /\ LayoutInv' /\ thread'[t].stack = <<>>
         /\ \A u \in Finalizers \ {t} : thread'[u] = thread[u]
<1> DEFINE x == [thread[t] EXCEPT !.at = "done"]
<1>1. /\ thread[t] \in ThreadStates /\ thread[t].at = "loop"
      /\ thread[t].stack = <<>> /\ thread[t].todo = {}
  BY DEF TypeInv, ThreadStates, EndLoop
<1>2. x \in ThreadStates /\ x.at = "done" /\ x.stack = <<>> /\ x.todo = {}
  BY <1>1 DEF ThreadStates
<1>3. ThreadFits(x)
  BY <1>1, <1>2 DEF ThreadFits, LayoutInv, LoopInv, Frames, ToSet
<1>4. ThreadBecomes(t, x)
  BY DEF EndLoop, ThreadBecomes
<1> HIDE DEF x
<1> QED
  BY <1>2, <1>3, <1>4, ThreadStep

\* UpdateMetadataClusterLayout calls itself for a nested message.
Pushes(t, n) ==
    ThreadBecomes(t, [thread[t] EXCEPT !.stack = Append(@, Frame(n))])

\* A call puts a frame on the stack.
LEMMA PushStep ==
  ASSUME TypeInv, LayoutInv, NEW t \in Finalizers, thread[t].at = "loop",
         NEW n \in DOMAIN metadata, NeedsLayout(n), Pushes(t, n)
  PROVE  /\ TypeInv' /\ LayoutInv'
         /\ thread'[t].stack = Append(thread[t].stack, Frame(n))
         /\ \A u \in Finalizers \ {t} : thread'[u] = thread[u]
<1> DEFINE s == Append(thread[t].stack, Frame(n))
           x == [thread[t] EXCEPT !.stack = s]
<1>1. thread[t] \in ThreadStates /\ thread[t].stack \in Seq(StackFrames)
  BY DEF TypeInv, ThreadStates
<1>2. Frame(n) \in StackFrames /\ FrameInv(Frame(n)) /\ Frame(n).message = n
  BY NewFrame
<1>3. s \in Seq(StackFrames) /\ ToSet(s) = Frames(t) \cup {Frame(n)}
  <2>1. /\ s \in Seq(StackFrames) /\ Len(s) = Len(thread[t].stack) + 1
        /\ s[Len(s)] = Frame(n)
        /\ \A i \in 1..Len(thread[t].stack) : s[i] = thread[t].stack[i]
        /\ DOMAIN s = 1..Len(s)
        /\ DOMAIN thread[t].stack = 1..Len(thread[t].stack)
        /\ Len(thread[t].stack) \in Nat
    BY <1>1, <1>2
  <2> HIDE DEF s
  <2>2. ToSet(s) = {s[i] : i \in 1..Len(s)}
    BY <2>1 DEF ToSet
  <2>3. Frames(t) = {thread[t].stack[i] : i \in 1..Len(thread[t].stack)}
    BY <2>1 DEF Frames, ToSet
  <2>4. /\ \A i \in 1..Len(s) : i \in 1..Len(thread[t].stack) \/ i = Len(s)
        /\ \A i \in 1..Len(thread[t].stack) : i \in 1..Len(s)
        /\ Len(s) \in 1..Len(s)
    BY <2>1
  <2>5. ToSet(s) \subseteq Frames(t) \cup {Frame(n)}
    BY <2>1, <2>2, <2>3, <2>4
  <2>6. Frames(t) \cup {Frame(n)} \subseteq ToSet(s)
    BY <2>1, <2>2, <2>3, <2>4
  <2> QED
    BY <2>1, <2>5, <2>6
<1>4. x \in ThreadStates /\ x.at = "loop" /\ x.todo = thread[t].todo /\ x.stack = s
  <2> HIDE DEF s
  <2> QED
    BY <1>1, <1>3 DEF ThreadStates
<1>5. ThreadBecomes(t, x)
  BY DEF Pushes
<1> HIDE DEF s, x
<1>6. ThreadFits(x)
  BY <1>2, <1>3, <1>4 DEF ThreadFits, LayoutInv, StackInv, LoopInv
<1>7. TypeInv' /\ LayoutInv' /\ thread'[t].stack = s
      /\ \A u \in Finalizers \ {t} : thread'[u] = thread[u]
  BY <1>4, <1>5, <1>6, ThreadStep
<1> QED
  BY <1>7 DEF s

----------------------------------------------------------------------------
(* The end of a message: its alignment, then its size *)

Stores(n, size, a) ==
    \/ /\ metadata' = [metadata EXCEPT ![n].clusterSize = size]
       /\ a = metadata[n].alignmentRequirement
       /\ size = AlignClusterOffset(After(n, Count(n)), a)
    \/ /\ metadata' = [metadata EXCEPT ![n].alignmentRequirement = a]
       /\ size = metadata[n].clusterSize

\* Neither changes a layout that is there, since it is computed from the same
\* elements.
LEMMA StoreKeepsLayouts ==
  ASSUME TypeInv, \A m \in DOMAIN metadata : LaidOut(m),
         NEW n \in DOMAIN metadata, NEW k, k = Count(n), k # 0,
         NEW size \in Nat, NEW a \in Alignments,
         PlacedUpTo(n, k), IsMaxAlignment(n, k, a), Stores(n, size, a)
  PROVE  /\ metadata' \in [DOMAIN metadata -> MetadataRecord]
         /\ ElementsKept /\ LayoutsKept
         /\ \A m \in DOMAIN metadata : LaidOut(m)'
         /\ \A f : FrameInv(f) => FrameInv(f)'
         /\ \A m \in DOMAIN metadata : m # n => metadata'[m] = metadata[m]
         /\ metadata'[n].clusterSize = size
         /\ metadata'[n].alignmentRequirement = a
<1>1. k \in Nat /\ k \in 0..Count(n) /\ k \in 1..Count(n)
  BY ElementTypes
<1>2. /\ metadata' \in [DOMAIN metadata -> MetadataRecord]
      /\ ElementsKept
      /\ \A m \in DOMAIN metadata : m # n => metadata'[m] = metadata[m]
      /\ metadata'[n].clusterSize = size
      /\ metadata'[n].alignmentRequirement = a
      /\ \A m \in DOMAIN metadata : \A i \in 1..Count(m) :
            Offset(m, i)' = Offset(m, i)
  BY StoreLayout DEF Stores
<1>3. metadata[n].clusterSize # 0 =>
         metadata[n].clusterSize = size /\ metadata[n].alignmentRequirement = a
  <2> SUFFICES ASSUME metadata[n].clusterSize # 0
               PROVE  /\ metadata[n].clusterSize = size
                      /\ metadata[n].alignmentRequirement = a
    OBVIOUS
  <2>1. /\ IsMaxAlignment(n, k, metadata[n].alignmentRequirement)
        /\ metadata[n].clusterSize =
              AlignClusterOffset(After(n, k), metadata[n].alignmentRequirement)
    BY DEF LaidOut
  <2>2. metadata[n].alignmentRequirement = a
    BY <1>1, <2>1, MaxIsUnique
  <2> QED
    BY <2>1, <2>2 DEF Stores
<1>4. LayoutsKept
  BY <1>2, <1>3 DEF LayoutsKept
<1>5. ASSUME NEW f, FrameInv(f) PROVE FrameInv(f)'
  <2>1. /\ f.message \in DOMAIN metadata /\ Count(f.message) \in Nat
        /\ f.element \in 1..(Count(f.message) + 1)
    BY <1>5, ElementTypes DEF FrameInv
  <2>2. \A i \in 1..(f.element - 1) : Offset(f.message, i)' = Offset(f.message, i)
    BY <1>2, <2>1
  <2> QED
    BY <1>2, <1>4, <1>5, <2>2, FrameStays
<1>6. ASSUME NEW m \in DOMAIN metadata PROVE LaidOut(m)'
  <2>1. LaidOut(m) /\ Count(m)' = Count(m)
    BY <1>2 DEF ElementsKept
  <2>2. CASE metadata[m].clusterSize # 0
    BY <1>2, <1>4, <2>1, <2>2, LaidOutStays
  <2>3. CASE m # n /\ metadata[m].clusterSize = 0
    BY <1>2, <2>1, <2>3 DEF LaidOut
  <2>4. CASE m = n /\ metadata[m].clusterSize = 0
    <3>1. /\ PlacedUpTo(n, k)' /\ After(n, k)' = After(n, k)
          /\ IsMaxAlignment(n, k, a)'
      BY <1>1, <1>2, <1>4, PlacedStays
    <3>2. size # 0 => size = AlignClusterOffset(After(n, k), a)
      BY <2>4 DEF Stores
    <3> QED
      BY <1>2, <2>1, <2>4, <3>1, <3>2 DEF LaidOut
  <2> QED
    BY <2>2, <2>3, <2>4
<1> QED
  BY <1>2, <1>4, <1>5, <1>6

\* A message whose elements are all placed, on top of a stack.
LEMMA FinishedMessage ==
  ASSUME TypeInv, LayoutInv, NEW t \in Finalizers, AllPlaced(t),
         NEW f, f = Last(thread[t].stack), NEW n, n = f.message
  PROVE  /\ n \in DOMAIN metadata /\ Count(n) \in Nat \ {0}
         /\ f.element = Count(n) + 1 /\ f.max \in Alignments
         /\ PlacedUpTo(n, Count(n)) /\ IsMaxAlignment(n, Count(n), f.max)
         /\ f.offset = After(n, Count(n)) /\ f.offset \in Nat \ {0}
<1>1. FrameInv(f) /\ thread[t].stack # <<>> /\ f \in StackFrames
  BY TopFrame DEF AllPlaced
<1>2. n \in DOMAIN metadata /\ Count(n) \in Nat \ {0}
  BY <1>1, ElementTypes DEF FrameInv
<1>3. f.element = Count(n) + 1
  BY <1>1, <1>2 DEF AllPlaced, FrameInv, Count
<1>4. f.element - 1 = Count(n)
  BY <1>2, <1>3
<1>5. /\ PlacedUpTo(n, Count(n)) /\ IsMaxAlignment(n, Count(n), f.max)
      /\ f.offset = After(n, Count(n))
  BY <1>1, <1>4 DEF FrameInv
<1>6. f.max \in Alignments
  BY <1>2, <1>5 DEF IsMaxAlignment
<1>7. f.offset \in Nat \ {0}
  <2>1. Count(n) \in 1..Count(n) /\ Known(n, Count(n))
    BY <1>2, <1>5 DEF PlacedUpTo, Placed, Known
  <2>2. Offset(n, Count(n)) \in Nat /\ ElementSize(n, Count(n)) \in Nat \ {0}
    BY <1>2, <2>1, ElementTypes, KnownValues DEF LayoutInv
  <2> QED
    BY <1>2, <1>5, <2>2 DEF After
<1> QED
  BY <1>2, <1>3, <1>5, <1>6, <1>7

\* What both of them mean for the threads: thread u has the frames it had, or
\* fewer, and nothing on its stack or done needs a layout that did not.
LEMMA StoreKeepsThread ==
  ASSUME TypeInv, LayoutInv, ElementsKept, DOMAIN metadata' = DOMAIN metadata,
         parser' = parser, \A f : FrameInv(f) => FrameInv(f)',
         NEW n \in DOMAIN metadata,
         \A m \in DOMAIN metadata : m # n => metadata'[m] = metadata[m],
         metadata[n].clusterSize # 0 => metadata'[n].clusterSize # 0,
         metadata' \in [DOMAIN metadata -> MetadataRecord],
         NEW u \in Finalizers, thread'[u].todo = thread[u].todo,
         thread'[u].at = "idle" <=> thread[u].at = "idle",
         thread'[u].at = "done" <=> thread[u].at = "done",
         Frames(u)' \subseteq Frames(u),
         \A f \in Frames(u) : f \in Frames(u)' \/ ~NeedsLayout(f.message)'
  PROVE  LoopInv(u)' /\ \A f \in Frames(u)' : FrameInv(f)'
<1>1. LoopInv(u) /\ StackInv(u)
  BY DEF LayoutInv
<1>2. ASSUME NEW m \in DOMAIN metadata, ~NeedsLayout(m) PROVE ~NeedsLayout(m)'
  <2>1. /\ metadata[m]._elements \in Seq(Elements)
        /\ metadata'[m]._elements \in Seq(Elements)
        /\ Len(metadata'[m]._elements) = Len(metadata[m]._elements)
    BY DEF TypeInv, MetadataRecord, ElementsKept, Count
  <2>2. metadata[m].clusterSize # 0 => metadata'[m].clusterSize # 0
    OBVIOUS
  <2> QED
    BY <1>2, <2>1, <2>2 DEF NeedsLayout
<1>3. LoopInv(u)'
  BY <1>1, <1>2 DEF LoopInv
<1> QED
  BY <1>1, <1>3 DEF StackInv

\* TypeInv after such a step.
LEMMA StoreKeepsTypes ==
  ASSUME TypeInv, UNCHANGED <<proto, parser, crash>>,
         metadata' \in [DOMAIN metadata -> MetadataRecord],
         thread' \in [Finalizers -> ThreadStates]
  PROVE  TypeInv'
<1>1. DOMAIN metadata' = DOMAIN metadata
  OBVIOUS
<1>2. Elements' = Elements /\ Collected' = Collected
  BY ProtoKept
<1>3. StackFrames' = StackFrames
  BY <1>1 DEF StackFrames
<1> QED
  BY <1>1, <1>2, <1>3 DEF TypeInv, MetadataRecord, ThreadStates

\* The alignment is stored.
LEMMA SetAlignmentStep ==
  ASSUME TypeInv, LayoutInv, NEW t \in Finalizers, SetAlignment(t)
  PROVE  /\ TypeInv' /\ LayoutInv'
         /\ ElementsKept /\ DOMAIN metadata' = DOMAIN metadata
         /\ \A u \in Finalizers : thread'[u].stack = thread[u].stack
<1>1. PICK f : f = Last(thread[t].stack)
  OBVIOUS
<1>2. PICK n : n = f.message
  OBVIOUS
<1>3. /\ n \in DOMAIN metadata /\ Count(n) \in Nat \ {0}
      /\ f.element = Count(n) + 1 /\ f.max \in Alignments
      /\ PlacedUpTo(n, Count(n)) /\ IsMaxAlignment(n, Count(n), f.max)
      /\ thread[t].stack # <<>> /\ thread[t].at = "loop"
  BY <1>1, <1>2, FinishedMessage DEF SetAlignment, AllPlaced
<1>4. Stores(n, metadata[n].clusterSize, f.max)
  BY <1>1, <1>2 DEF Stores, SetAlignment
<1>5. metadata[n].clusterSize \in Nat
  BY <1>3, ElementTypes
<1>6. /\ metadata' \in [DOMAIN metadata -> MetadataRecord]
      /\ ElementsKept /\ LayoutsKept
      /\ \A m \in DOMAIN metadata : LaidOut(m)'
      /\ \A h : FrameInv(h) => FrameInv(h)'
      /\ \A m \in DOMAIN metadata : m # n => metadata'[m] = metadata[m]
      /\ metadata'[n].clusterSize = metadata[n].clusterSize
      /\ metadata'[n].alignmentRequirement = f.max
  BY <1>3, <1>4, <1>5, StoreKeepsLayouts DEF LayoutInv
<1>7. thread \in [Finalizers -> ThreadStates]
  BY DEF TypeInv, ThreadStates
<1>8. /\ thread' \in [Finalizers -> ThreadStates]
      /\ \A u \in Finalizers :
            /\ thread'[u].stack = thread[u].stack /\ thread'[u].todo = thread[u].todo
            /\ thread'[u].at = IF u = t THEN "size" ELSE thread[u].at
      /\ UNCHANGED <<proto, parser, crash>>
  BY <1>7 DEF SetAlignment, ThreadStates
<1>9. TypeInv'
  BY <1>6, <1>8, StoreKeepsTypes
<1>10. \A u \in Finalizers : Frames(u)' = Frames(u)
  BY <1>8 DEF Frames
<1>11. ASSUME NEW u \in Finalizers
       PROVE  LoopInv(u)' /\ \A h \in Frames(u)' : FrameInv(h)'
  BY <1>3, <1>6, <1>8, <1>10, StoreKeepsThread
<1>12. ASSUME NEW u \in Finalizers PROVE StackInv(u)'
  <2>1. StackInv(u)
    BY DEF LayoutInv
  <2>2. \A m \in DOMAIN metadata : Count(m)' = Count(m)
    BY <1>6 DEF ElementsKept
  <2>3. ASSUME thread'[u].at = "size", NEW h \in Frames(u),
               h = Last(thread[u].stack)
        PROVE  /\ h.element = Count(h.message)' + 1
               /\ metadata'[h.message].alignmentRequirement = h.max
    <3>1. CASE u = t
      BY <1>1, <1>2, <1>3, <1>6, <2>2, <2>3, <3>1
    <3>2. CASE u # t
      <4>1. /\ h.element = Count(h.message) + 1 /\ FrameInv(h)
            /\ metadata[h.message].alignmentRequirement = h.max
        BY <1>8, <2>1, <2>3, <3>2 DEF StackInv
      <4>2. CASE h.message = n
        <5>1. IsMaxAlignment(n, Count(n), h.max)
          <6>1. h.element - 1 = Count(n)
            BY <1>3, <4>1, <4>2
          <6> QED
            BY <4>1, <4>2, <6>1 DEF FrameInv
        <5>2. h.max = f.max
          BY <1>3, <5>1, MaxIsUnique DEF LayoutInv
        <5> QED
          BY <1>3, <1>6, <2>2, <4>1, <4>2, <5>2
      <4>3. CASE h.message # n
        BY <1>6, <2>2, <4>1, <4>3 DEF FrameInv
      <4> QED
        BY <4>2, <4>3
    <3> QED
      BY <3>1, <3>2
  <2>4. thread'[u].at \in {"idle", "done"} => thread'[u].stack = <<>>
    BY <1>8, <2>1 DEF StackInv
  <2>5. thread'[u].at = "size" => thread'[u].stack # <<>>
    BY <1>3, <1>8, <2>1 DEF StackInv
  <2> QED
    BY <1>8, <1>10, <1>11, <2>3, <2>4, <2>5 DEF StackInv
<1> QED
  BY <1>6, <1>8, <1>9, <1>11, <1>12 DEF LayoutInv

\* The stack without its top.
LEMMA PopFrames ==
  ASSUME NEW S, NEW s \in Seq(S), s # <<>>
  PROVE  /\ Front(s) \in Seq(S) /\ Len(Front(s)) = Len(s) - 1
         /\ \A i \in 1..(Len(s) - 1) : Front(s)[i] = s[i]
         /\ ToSet(Front(s)) \subseteq ToSet(s)
         /\ \A x \in ToSet(s) : x = Last(s) \/ x \in ToSet(Front(s))
<1>1. Len(s) \in Nat \ {0} /\ DOMAIN s = 1..Len(s) /\ Last(s) = s[Len(s)]
  BY DEF Last
<1>2. /\ Front(s) \in Seq(S) /\ Len(Front(s)) = Len(s) - 1
      /\ \A i \in 1..(Len(s) - 1) : Front(s)[i] = s[i]
  BY <1>1 DEF Front
<1>3. DOMAIN Front(s) = 1..(Len(s) - 1)
  BY <1>1, <1>2
<1>4. /\ ToSet(Front(s)) = {Front(s)[i] : i \in 1..(Len(s) - 1)}
      /\ ToSet(s) = {s[i] : i \in 1..Len(s)}
  BY <1>1, <1>3 DEF ToSet
<1>5. /\ \A i \in 1..Len(s) : i \in 1..(Len(s) - 1) \/ i = Len(s)
      /\ \A i \in 1..(Len(s) - 1) : i \in 1..Len(s)
  <2>1. \A k \in Nat : /\ \A i \in 1..k : i \in 1..(k - 1) \/ i = k
                       /\ \A i \in 1..(k - 1) : i \in 1..k
    OBVIOUS
  <2> QED
    BY <1>1, <2>1
<1>6. ToSet(Front(s)) \subseteq ToSet(s)
  BY <1>2, <1>4, <1>5
<1>7. \A x \in ToSet(s) : x = Last(s) \/ x \in ToSet(Front(s))
  BY <1>1, <1>2, <1>4, <1>5
<1> QED
  BY <1>2, <1>6, <1>7

\* The size is stored and the message leaves the stack.
LEMMA SetClusterSizeStep ==
  ASSUME TypeInv, LayoutInv, NEW t \in Finalizers, SetClusterSize(t)
  PROVE  /\ TypeInv' /\ LayoutInv'
         /\ ElementsKept /\ DOMAIN metadata' = DOMAIN metadata
         /\ thread[t].stack # <<>> /\ thread'[t].stack = Front(thread[t].stack)
         /\ \A u \in Finalizers \ {t} : thread'[u] = thread[u]
<1>1. PICK f : f = Last(thread[t].stack)
  OBVIOUS
<1>2. PICK n : n = f.message
  OBVIOUS
<1>3. /\ n \in DOMAIN metadata /\ Count(n) \in Nat \ {0}
      /\ f.max \in Alignments
      /\ PlacedUpTo(n, Count(n)) /\ IsMaxAlignment(n, Count(n), f.max)
      /\ f.offset = After(n, Count(n)) /\ f.offset \in Nat \ {0}
      /\ thread[t].stack # <<>> /\ thread[t].at = "size"
  BY <1>1, <1>2, FinishedMessage DEF SetClusterSize, AllPlaced
<1>4. PICK size : size = AlignClusterOffset(f.offset, f.max)
  OBVIOUS
<1>5. size \in Nat \ {0}
  <2>1. size \in Nat /\ size - f.offset \in 0..(f.max - 1)
    BY <1>3, <1>4, AlignRoundsUp
  <2> QED
    BY <1>3, <2>1
<1>6. Stores(n, size, f.max)
  <2>1. f \in Frames(t)
    BY <1>1, <1>3, TopFrame
  <2>2. f.max = metadata[n].alignmentRequirement
    BY <1>1, <1>2, <1>3, <2>1 DEF LayoutInv, StackInv
  <2>3. size = AlignClusterOffset(After(n, Count(n)), f.max)
    BY <1>3, <1>4
  <2>4. metadata' = [metadata EXCEPT ![n].clusterSize = size]
    BY <1>1, <1>2, <1>4 DEF SetClusterSize
  <2> QED
    BY <2>2, <2>3, <2>4 DEF Stores
<1>7. /\ metadata' \in [DOMAIN metadata -> MetadataRecord]
      /\ ElementsKept /\ LayoutsKept
      /\ \A m \in DOMAIN metadata : LaidOut(m)'
      /\ \A h : FrameInv(h) => FrameInv(h)'
      /\ \A m \in DOMAIN metadata : m # n => metadata'[m] = metadata[m]
      /\ metadata'[n].clusterSize = size
      /\ metadata'[n].alignmentRequirement = f.max
  BY <1>3, <1>5, <1>6, StoreKeepsLayouts DEF LayoutInv
<1>8. thread \in [Finalizers -> ThreadStates]
  BY DEF TypeInv, ThreadStates
<1>9. /\ Front(thread[t].stack) \in Seq(StackFrames)
      /\ ToSet(Front(thread[t].stack)) \subseteq Frames(t)
      /\ \A h \in Frames(t) : h = f \/ h \in ToSet(Front(thread[t].stack))
  BY <1>1, <1>3, <1>8, PopFrames DEF ThreadStates, Frames
<1>10. /\ thread' \in [Finalizers -> ThreadStates]
       /\ thread'[t].stack = Front(thread[t].stack)
       /\ thread'[t].at = "loop" /\ thread'[t].todo = thread[t].todo
       /\ \A u \in Finalizers \ {t} : thread'[u] = thread[u]
       /\ UNCHANGED <<proto, parser, crash>>
  BY <1>8, <1>9 DEF SetClusterSize, ThreadStates
<1>11. TypeInv'
  BY <1>7, <1>10, StoreKeepsTypes
<1>12. ASSUME NEW u \in Finalizers
       PROVE  LoopInv(u)' /\ \A h \in Frames(u)' : FrameInv(h)'
  <2>1. ~NeedsLayout(n)'
    BY <1>5, <1>7 DEF NeedsLayout
  <2>2. /\ Frames(u)' \subseteq Frames(u)
        /\ \A h \in Frames(u) : h \in Frames(u)' \/ ~NeedsLayout(h.message)'
    BY <1>2, <1>9, <1>10, <2>1 DEF Frames
  <2>3. /\ thread'[u].todo = thread[u].todo
        /\ thread'[u].at = "idle" <=> thread[u].at = "idle"
        /\ thread'[u].at = "done" <=> thread[u].at = "done"
    BY <1>3, <1>10
  <2> QED
    BY <1>3, <1>5, <1>7, <1>10, <2>2, <2>3, StoreKeepsThread
<1>13. ASSUME NEW u \in Finalizers PROVE StackInv(u)'
  <2>1. CASE u = t
    BY <1>10, <1>12, <2>1 DEF StackInv
  <2>2. CASE u # t
    <3>1. StackInv(u) /\ thread'[u] = thread[u] /\ Frames(u)' = Frames(u)
      BY <1>10, <2>2 DEF LayoutInv, Frames
    <3>2. \A m \in DOMAIN metadata : Count(m)' = Count(m)
      BY <1>7 DEF ElementsKept
    <3>3. ASSUME thread[u].at = "size", NEW h \in Frames(u),
                 h = Last(thread[u].stack)
          PROVE  /\ h.element = Count(h.message)' + 1
                 /\ metadata'[h.message].alignmentRequirement = h.max
      <4>1. /\ h.element = Count(h.message) + 1 /\ FrameInv(h)
            /\ metadata[h.message].alignmentRequirement = h.max
        BY <3>1, <3>3 DEF StackInv
      <4>2. f.max = metadata[n].alignmentRequirement
        BY <1>1, <1>2, <1>3, TopFrame DEF LayoutInv, StackInv
      <4> QED
        BY <1>7, <3>2, <4>1, <4>2 DEF FrameInv
    <3> QED
      BY <1>12, <3>1, <3>3 DEF StackInv
  <2> QED
    BY <2>1, <2>2
<1> QED
  BY <1>3, <1>7, <1>10, <1>11, <1>12, <1>13 DEF LayoutInv

----------------------------------------------------------------------------
(* An element: placed, a nested layout, or a failure *)

\* An element whose size and alignment are known is placed.
ElementPlaced(t, n, e) ==
    Known(n, e) /\ Place(t, ElementSize(n, e), ElementAlignment(n, e))

\* A nested message is laid out first.
ElementPushed(t, name) ==
    /\ name \in DOMAIN metadata /\ NeedsLayout(name)
    /\ Pushes(t, name) /\ Len(thread[t].stack) # StackDepth

\* Or something is wrong with it.
ElementFails(t, el) ==
    \/ el.embeddedMessageName \notin DOMAIN metadata /\ Fail("null")
    \/ /\ el.embeddedMessageName \in DOMAIN metadata
       /\ NeedsLayout(el.embeddedMessageName)
       /\ Len(thread[t].stack) = StackDepth /\ Fail("stack")
    \/ /\ el.embeddedMessageName \in DOMAIN metadata /\ ~el.isRepeated
       /\ ~NeedsLayout(el.embeddedMessageName)
       /\ metadata[el.embeddedMessageName].alignmentRequirement = 0
       /\ Fail("zero")

\* What LayoutElement does with the element e of the message n.
LEMMA LayoutElementCases ==
  ASSUME TypeInv, LayoutInv, RegisteredInv, NEW t \in Finalizers,
         LayoutElement(t), NEW f, f = Last(thread[t].stack),
         NEW n, n = f.message, NEW e, e = f.element
  PROVE  /\ n \in DOMAIN metadata /\ e \in 1..Count(n)
         /\ thread[t].stack # <<>> /\ thread[t].at = "loop"
         /\ \/ ElementPlaced(t, n, e)
            \/ /\ El(n, e).type = "MessageValue" /\ ~El(n, e).isWellKnown
               /\ \/ ElementPushed(t, El(n, e).embeddedMessageName)
                  \/ ElementFails(t, El(n, e))
<1>1. thread[t].stack # <<>> /\ FrameInv(f) /\ e <= Count(n)
  BY TopFrame DEF LayoutElement, Count
<1>2. n \in DOMAIN metadata /\ e \in 1..Count(n) /\ Count(n) \in Nat
  BY <1>1, ElementTypes DEF FrameInv
<1>3. thread[t].at = "loop"
  <2>1. thread[t].at \in {"loop", "size"} /\ f \in Frames(t)
    BY <1>1, TopFrame
  <2> QED
    BY <1>2, <2>1 DEF LayoutInv, StackInv
<1>4. PICK el : el = El(n, e)
  OBVIOUS
<1>5. el \in Elements
  BY <1>2, <1>4, ElementTypes
<1>6. PICK name : name = el.embeddedMessageName
  OBVIOUS
<1>7. el.isWellKnown <=> name \in WellKnown /\ ~el.isRepeated
  <2>1. PICK m \in Collected : ElementsOf(n, m)
    BY <1>2 DEF RegisteredInv
  <2>2. LET x == MessageElementMetadata(LVFieldInfo(Fields(m)[e])) IN
        /\ el.isRepeated = x.isRepeated /\ name = x.embeddedMessageName
        /\ el.isWellKnown = x.isWellKnown
    BY <1>2, <1>4, <1>6, <2>1 DEF ElementsOf
  <2> QED
    BY <2>2 DEF MessageElementMetadata
<1>8. \/ /\ el.type # "MessageValue"
         /\ Place(t, ClusterElementSize(el.type, el.isRepeated),
                  ClusterElementSize(el.type, el.isRepeated))
      \/ /\ el.type = "MessageValue" /\ el.isWellKnown
         /\ Place(t, PointerSize, PointerSize)
      \/ /\ el.type = "MessageValue" /\ ~el.isWellKnown
         /\ LayoutNested(t, el)
  BY <1>4 DEF LayoutElement, El, WellKnownTypeElementSize
<1>9. CASE ~(el.type = "MessageValue" /\ ~el.isWellKnown)
  <2>1. ~IsCluster(el) /\ Known(n, e)
    BY <1>4, <1>9 DEF IsCluster, Known
  <2>2. ElementSize(n, e) = FixedSize(el) /\ ElementAlignment(n, e) = FixedSize(el)
    BY <1>4, <2>1 DEF ElementSize, ElementAlignment
  <2>3. Place(t, FixedSize(el), FixedSize(el))
    BY <1>8, <1>9 DEF FixedSize
  <2> QED
    BY <1>1, <1>2, <1>3, <2>1, <2>2, <2>3 DEF ElementPlaced
<1>10. CASE el.type = "MessageValue" /\ ~el.isWellKnown
  <2>1. LayoutNested(t, el)
    BY <1>8, <1>10
  <2>2. CASE name \notin DOMAIN metadata /\ name \notin WellKnown
    <3>1. Fail("null")
      BY <1>6, <2>1, <2>2 DEF LayoutNested
    <3> QED
      BY <1>1, <1>2, <1>3, <1>4, <1>6, <1>10, <2>2, <3>1 DEF ElementFails
  <2>3. CASE name \in DOMAIN metadata /\ NeedsLayout(name)
    <3>1. IF Len(thread[t].stack) = StackDepth THEN Fail("stack")
          ELSE /\ thread' = [thread EXCEPT ![t].stack = Append(@, Frame(name))]
               /\ UNCHANGED <<proto, parser, metadata, crash>>
      BY <1>6, <2>1, <2>3 DEF LayoutNested
    <3>2. CASE Len(thread[t].stack) = StackDepth
      BY <1>1, <1>2, <1>3, <1>4, <1>6, <1>10, <2>3, <3>1, <3>2 DEF ElementFails
    <3>3. CASE Len(thread[t].stack) # StackDepth
      <4>1. Pushes(t, name)
        BY <3>1, <3>3 DEF Pushes, ThreadBecomes
      <4> QED
        BY <1>1, <1>2, <1>3, <1>4, <1>6, <1>10, <2>3, <3>3, <4>1
           DEF ElementPushed
    <3> QED
      BY <3>2, <3>3
  <2>4. CASE /\ name \in WellKnown \/ (name \in DOMAIN metadata /\ el.isRepeated)
             /\ ~(name \in DOMAIN metadata /\ NeedsLayout(name))
    <3>1. el.isRepeated
      BY <1>7, <1>10, <2>4
    <3>2. Place(t, PointerSize, PointerSize)
      BY <1>6, <2>1, <2>4, <3>1 DEF LayoutNested
    <3>3. ~IsCluster(el) /\ Known(n, e)
      BY <1>4, <3>1 DEF IsCluster, Known
    <3>4. /\ ElementSize(n, e) = PointerSize
          /\ ElementAlignment(n, e) = PointerSize
      BY <1>4, <1>10, <3>3 DEF ElementSize, ElementAlignment, FixedSize
    <3> QED
      BY <1>1, <1>2, <1>3, <3>2, <3>3, <3>4 DEF ElementPlaced
  <2>5. CASE name \in DOMAIN metadata /\ ~NeedsLayout(name) /\ ~el.isRepeated
    <3>1. IF metadata[name].alignmentRequirement = 0 THEN Fail("zero")
          ELSE Place(t, metadata[name].clusterSize,
                     metadata[name].alignmentRequirement)
      BY <1>6, <2>1, <2>5 DEF LayoutNested
    <3>2. CASE metadata[name].alignmentRequirement = 0
      BY <1>1, <1>2, <1>3, <1>4, <1>6, <1>10, <2>5, <3>1, <3>2 DEF ElementFails
    <3>3. CASE metadata[name].alignmentRequirement # 0
      <4>1. metadata[name].clusterSize # 0
        <5>1. metadata[name]._elements = <<>> => Count(name) = 0
          BY DEF Count
        <5> QED
          BY <2>5, <3>3, <5>1 DEF LayoutInv, LaidOut, NeedsLayout
      <4>2. IsCluster(el) /\ Known(n, e)
        BY <1>4, <1>6, <1>10, <2>5, <4>1 DEF IsCluster, Known
      <4>3. /\ ElementSize(n, e) = metadata[name].clusterSize
            /\ ElementAlignment(n, e) = metadata[name].alignmentRequirement
        BY <1>4, <1>6, <4>2 DEF ElementSize, ElementAlignment
      <4> QED
        BY <1>1, <1>2, <1>3, <3>1, <3>3, <4>2, <4>3 DEF ElementPlaced
    <3> QED
      BY <3>2, <3>3
  <2> QED
    BY <1>5, <1>7, <1>10, <2>2, <2>3, <2>4, <2>5 DEF Elements
<1> QED
  BY <1>9, <1>10

\* A failure leaves everything else as it is.
LEMMA FailStep ==
  ASSUME TypeInv, LayoutInv, UNCHANGED <<proto, parser, metadata, thread>>,
         crash' \in {"no", "null", "stack", "zero"}
  PROVE  TypeInv' /\ LayoutInv'
<1>1. UNCHANGED <<proto, parser, metadata, thread>>
  OBVIOUS
<1>2. TypeInv'
  <2>1. Elements' = Elements /\ Collected' = Collected
    BY <1>1, ProtoKept
  <2>2. StackFrames' = StackFrames
    BY <1>1 DEF StackFrames
  <2> QED
    BY <1>1, <2>1, <2>2 DEF TypeInv
<1>3. /\ \A n : Count(n)' = Count(n) /\ (NeedsLayout(n)' <=> NeedsLayout(n))
      /\ \A n : LaidOut(n)' <=> LaidOut(n)
      /\ \A f : FrameInv(f)' <=> FrameInv(f)
  BY <1>1, SameMetadata
<1>4. \A t \in Finalizers : Frames(t)' = Frames(t)
  BY <1>1 DEF Frames
<1>5. ASSUME NEW t \in Finalizers PROVE StackInv(t)' /\ LoopInv(t)'
  BY <1>1, <1>3, <1>4 DEF LayoutInv, StackInv, LoopInv
<1> QED
  BY <1>1, <1>2, <1>3, <1>5 DEF LayoutInv

----------------------------------------------------------------------------
(* What the parser collects *)

\* The .proto file is one that the protobuf compiler accepts.
LEMMA ProtoWellFormed ==
  ASSUME proto \in Protos
  PROVE  /\ WellFormed(proto)
         /\ proto.main \in DOMAIN proto.files
         /\ \A f \in DOMAIN proto.files :
               /\ proto.files[f].imports \subseteq DOMAIN proto.files
               /\ proto.files[f].messages \subseteq Messages
               /\ TypesResolved(proto, f)
         /\ DOMAIN Nested(proto) = Messages
         /\ \A m \in Messages :
               /\ Nested(proto)[m] = proto.messages[m].nested
               /\ Nested(proto)[m] \subseteq Messages
               /\ Fields(m) \in Seq([type : ProtoTypes, rep : BOOLEAN,
                                     message : Messages \cup {NoMessage}])
               /\ \A i \in DOMAIN Fields(m) :
                     Fields(m)[i].type = "MessageValue" =>
                         Fields(m)[i].message \in Messages
  BY ProtosAssumption DEF WellFormed, Messages, Fields, Nested

\* A file imports what its imports import.
LEMMA ImportsOfImports ==
  ASSUME proto \in Protos, NEW f \in DOMAIN proto.files,
         NEW g \in Imported(proto, f)
  PROVE  /\ g \in DOMAIN proto.files
         /\ Imported(proto, g) \subseteq Imported(proto, f)
<1> DEFINE next == [x \in DOMAIN proto.files |-> proto.files[x].imports]
<1>1. /\ DOMAIN next = DOMAIN proto.files
      /\ \A x \in DOMAIN next : next[x] \subseteq DOMAIN next
  BY ProtoWellFormed
<1>2. /\ Imported(proto, f) = Reachable({f}, next)
      /\ Imported(proto, g) = Reachable({g}, next)
  BY DEF Imported
<1> HIDE DEF next
<1>3. /\ Imported(proto, f) \subseteq DOMAIN next
      /\ \A x \in Imported(proto, f) : next[x] \subseteq Imported(proto, f)
  BY <1>1, <1>2, ReachableClosed
<1>4. Reachable({g}, next) \subseteq Imported(proto, f)
  BY <1>3, ReachableLeast
<1> QED
  BY <1>1, <1>2, <1>3, <1>4

\* The parser collects the messages that the file and its imports declare, at
\* any depth.
LEMMA CollectedAreDeclared ==
  ASSUME proto \in Protos
  PROVE  /\ Collected \subseteq Messages
         /\ \A m \in Collected :
               \E f \in Imported(proto, proto.main) : m \in Declared(proto, f)
         /\ \A f \in Imported(proto, proto.main) :
               Declared(proto, f) \subseteq Collected
<1> DEFINE top == UNION {proto.files[f].messages :
                            f \in Imported(proto, proto.main)}
<1>1. \A f \in Imported(proto, proto.main) :
         f \in DOMAIN proto.files /\ proto.files[f].messages \subseteq Messages
  BY ProtoWellFormed, ImportsOfImports
<1>2. /\ DOMAIN Nested(proto) = Messages
      /\ \A m \in Messages : /\ Nested(proto)[m] = proto.messages[m].nested
                             /\ Nested(proto)[m] \subseteq Messages
  BY ProtoWellFormed
<1>3. Collected = top \cup UNION {AddNestedMessages(m) : m \in top}
  BY DEF Collected, AddDependentMessages
<1>4. ASSUME NEW f \in Imported(proto, proto.main)
      PROVE  /\ Declared(proto, f) \subseteq Messages
             /\ proto.files[f].messages \subseteq Declared(proto, f)
             /\ \A m \in Declared(proto, f) :
                   Nested(proto)[m] \subseteq Declared(proto, f)
  BY <1>1, <1>2, ReachableClosed DEF Declared
<1>5. ASSUME NEW m \in Messages
      PROVE  /\ AddNestedMessages(m) \subseteq Messages
             /\ Nested(proto)[m] \subseteq AddNestedMessages(m)
             /\ \A x \in AddNestedMessages(m) :
                   Nested(proto)[x] \subseteq AddNestedMessages(m)
  BY <1>2, ReachableClosed DEF AddNestedMessages
<1>6. ASSUME NEW f \in Imported(proto, proto.main), NEW m \in Declared(proto, f)
      PROVE  AddNestedMessages(m) \subseteq Declared(proto, f)
  BY <1>2, <1>4, ReachableLeast DEF AddNestedMessages
<1>7. top \subseteq Messages
  BY <1>1
<1>8. ASSUME NEW m \in Collected
      PROVE  \E f \in Imported(proto, proto.main) : m \in Declared(proto, f)
  <2>1. CASE m \in top
    BY <1>4, <2>1
  <2>2. CASE m \notin top
    <3>1. PICK x \in top : m \in AddNestedMessages(x)
      BY <1>3, <2>2
    <3>2. PICK f \in Imported(proto, proto.main) : x \in proto.files[f].messages
      BY <3>1
    <3> QED
      BY <1>4, <1>6, <3>1, <3>2
  <2> QED
    BY <2>1, <2>2
<1>9. \A m \in Collected : Nested(proto)[m] \subseteq Collected
  <2> HIDE DEF top
  <2> QED
    BY <1>3, <1>5, <1>7
<1>10. Collected \subseteq Messages
  BY <1>4, <1>8
<1>11. ASSUME NEW f \in Imported(proto, proto.main)
       PROVE  Declared(proto, f) \subseteq Collected
  <2>1. proto.files[f].messages \subseteq Collected
    BY <1>3
  <2> QED
    BY <1>2, <1>9, <1>10, <2>1, ReachableLeast DEF Declared
<1> QED
  BY <1>8, <1>10, <1>11

\* So the type of every field of a collected message is collected too.
LEMMA FieldTypesAreCollected ==
  ASSUME proto \in Protos, NEW m \in Collected, NEW i \in DOMAIN Fields(m),
         Fields(m)[i].type = "MessageValue"
  PROVE  Fields(m)[i].message \in Collected
<1>1. PICK f \in Imported(proto, proto.main) : m \in Declared(proto, f)
  BY CollectedAreDeclared
<1>2. /\ f \in DOMAIN proto.files
      /\ Imported(proto, f) \subseteq Imported(proto, proto.main)
  BY <1>1, ProtoWellFormed, ImportsOfImports
<1>3. TypesResolved(proto, f)
  BY <1>2, ProtoWellFormed
<1>4. \E g \in Imported(proto, f) : Fields(m)[i].message \in Declared(proto, g)
  BY <1>1, <1>3 DEF TypesResolved, Fields
<1> QED
  BY <1>2, <1>4, CollectedAreDeclared

----------------------------------------------------------------------------
(* Registration *)

\* What InitializeElements makes of a field.
LEMMA NewElement ==
  ASSUME proto \in Protos, NEW m \in Messages, NEW i \in DOMAIN Fields(m),
         Fields(m)[i].type \in FieldTypes,
         NEW el, el = MessageElementMetadata(LVFieldInfo(Fields(m)[i]))
  PROVE  /\ el \in Elements
         /\ el.type = Fields(m)[i].type /\ el.isRepeated = Fields(m)[i].rep
         /\ el.type = "MessageValue" =>
               /\ Fields(m)[i].message \in Messages
               /\ el.embeddedMessageName = LVMessageName(Fields(m)[i].message)
         /\ el.isWellKnown <=>
               el.embeddedMessageName \in WellKnown /\ ~el.isRepeated
<1>1. PICK field : field = Fields(m)[i]
  OBVIOUS
<1>2. field.type \in FieldTypes /\ field.rep \in BOOLEAN
  <2> DEFINE F == [type : ProtoTypes, rep : BOOLEAN,
                   message : Messages \cup {NoMessage}]
  <2>1. Fields(m) \in Seq(F)
    BY ProtoWellFormed
  <2>2. field \in F
    <3> HIDE DEF F
    <3> QED
      BY <1>1, <2>1
  <2> QED
    BY <1>1, <2>2
<1>3. field.type = "MessageValue" => field.message \in Messages
  BY <1>1, ProtoWellFormed
<1>4. PICK name : name = IF field.type = "MessageValue"
                         THEN LVMessageName(field.message) ELSE NoMessage
  OBVIOUS
<1>5. name \in {LVMessageName(x) : x \in Messages} \cup {NoMessage}
  BY <1>3, <1>4
<1>6. el = [type |-> field.type, isRepeated |-> field.rep,
            embeddedMessageName |-> name,
            isWellKnown |-> name \in WellKnown /\ ~field.rep,
            clusterOffset |-> 0]
  BY <1>1, <1>2, <1>4 DEF MessageElementMetadata, LVFieldInfo
<1>7. /\ el.type = field.type /\ el.isRepeated = field.rep
      /\ el.embeddedMessageName = name
      /\ el.isWellKnown = (name \in WellKnown /\ ~field.rep)
  BY <1>6
<1>8. el \in Elements
  BY <1>2, <1>5, <1>6 DEF Elements
<1> QED
  BY <1>1, <1>3, <1>4, <1>7, <1>8

\* The metadata of a message when it is registered: nothing is laid out.
LEMMA NewMetadata ==
  ASSUME proto \in Protos, NEW m \in Messages, Supported(m),
         NEW r, r = NewMessageMetadata(m)
  PROVE  /\ r \in MetadataRecord
         /\ r.clusterSize = 0 /\ r.alignmentRequirement = 0
         /\ Len(r._elements) = Len(Fields(m))
         /\ \A i \in 1..Len(Fields(m)) : r._elements[i] =
               MessageElementMetadata(LVFieldInfo(Fields(m)[i]))
<1>1. DOMAIN Fields(m) = 1..Len(Fields(m)) /\ Len(Fields(m)) \in Nat
  BY ProtoWellFormed
<1>2. PICK s : s = [i \in 1..Len(Fields(m)) |->
                      MessageElementMetadata(LVFieldInfo(Fields(m)[i]))]
  OBVIOUS
<1>3. \A i \in 1..Len(Fields(m)) :
         MessageElementMetadata(LVFieldInfo(Fields(m)[i])) \in Elements
  BY <1>1, NewElement DEF Supported
<1>4. s \in Seq(Elements) /\ Len(s) = Len(Fields(m))
  BY <1>1, <1>2, <1>3
<1>5. r = [_elements |-> s, clusterSize |-> 0, alignmentRequirement |-> 0]
  BY <1>1, <1>2 DEF NewMessageMetadata, Fields
<1> QED
  BY <1>2, <1>4, <1>5 DEF MetadataRecord

\* RegisterMessageMetadata2: no thread has started, and what is registered
\* stays.
LEMMA RegisterStep ==
  ASSUME TypeInv, LayoutInv, RegisteredInv, NEW m \in parser.todo,
         RegisterMessageMetadata2(m)
  PROVE  /\ TypeInv' /\ LayoutInv' /\ RegisteredInv'
         /\ \A t \in Finalizers : thread'[t].stack = <<>>
<1>1. PICK name : name = LVMessageName(m)
  OBVIOUS
<1>2. PICK r : r = NewMessageMetadata(m)
  OBVIOUS
<1>3. /\ proto \in Protos /\ m \in Collected /\ m \in Messages
  BY CollectedAreDeclared DEF TypeInv
<1>4. /\ metadata' = [n \in DOMAIN metadata \cup {name} |->
                        IF n \in DOMAIN metadata THEN metadata[n] ELSE r]
      /\ parser' = [parser EXCEPT !.todo = @ \ {m}]
      /\ UNCHANGED <<proto, thread, crash>> /\ parser.at = "generated"
  BY <1>1, <1>2 DEF RegisterMessageMetadata2
<1>5. /\ r \in MetadataRecord /\ r.clusterSize = 0 /\ r.alignmentRequirement = 0
      /\ Len(r._elements) = Len(Fields(m))
      /\ \A i \in 1..Len(Fields(m)) : r._elements[i] =
            MessageElementMetadata(LVFieldInfo(Fields(m)[i]))
  <2>1. Supported(m)
    BY <1>3, <1>4 DEF RegisteredInv
  <2> QED
    BY <1>2, <1>3, <2>1, NewMetadata
<1>6. /\ DOMAIN metadata' = DOMAIN metadata \cup {name}
      /\ \A n \in DOMAIN metadata : metadata'[n] = metadata[n]
      /\ name \notin DOMAIN metadata => metadata'[name] = r
      /\ metadata' \in [DOMAIN metadata' -> MetadataRecord]
  BY <1>4, <1>5 DEF TypeInv, MetadataRecord
<1>7. /\ parser'.at = "generated" /\ parser'.todo = parser.todo \ {m}
      /\ parser' \in [at : {"new", "imported", "failed", "generated"},
                      todo : SUBSET Collected]
  BY <1>4 DEF TypeInv
<1>8. \A n \in DOMAIN metadata : Count(n)' = Count(n) /\ \A i : El(n, i)' = El(n, i)
  BY <1>6 DEF Count, El
<1>9. ElementsKept /\ LayoutsKept
  BY <1>6, <1>8 DEF ElementsKept, LayoutsKept
<1>10. \A t \in Finalizers : thread[t].at = "idle" /\ thread[t].stack = <<>>
  BY DEF LayoutInv, LoopInv, StackInv
<1>11. TypeInv'
  <2>1. Elements' = Elements /\ Collected' = Collected
    BY <1>4, ProtoKept
  <2>2. thread' \in [Finalizers -> [at : {"idle", "loop", "size", "done"},
                                    todo : SUBSET DOMAIN metadata',
                                    stack : Seq(StackFrames')]]
    <3>1. ASSUME NEW t \in Finalizers
          PROVE  thread[t] \in [at : {"idle", "loop", "size", "done"},
                                todo : SUBSET DOMAIN metadata',
                                stack : Seq(StackFrames')]
      <4>1. thread[t] \in ThreadStates /\ thread[t].stack = <<>>
        BY <1>10 DEF TypeInv, ThreadStates
      <4>2. <<>> \in Seq(StackFrames')
        OBVIOUS
      <4> QED
        BY <1>6, <4>1, <4>2 DEF ThreadStates
    <3>2. thread' = thread /\ thread \in [Finalizers -> ThreadStates]
      BY <1>4 DEF TypeInv, ThreadStates
    <3> QED
      BY <3>1, <3>2
  <2> QED
    BY <1>4, <1>6, <1>7, <2>1, <2>2 DEF TypeInv, MetadataRecord
<1>12. ASSUME NEW n \in DOMAIN metadata' PROVE LaidOut(n)'
  <2>1. CASE n \in DOMAIN metadata /\ metadata[n].clusterSize # 0
    <3>1. \A i \in 1..Count(n) : Offset(n, i)' = Offset(n, i)
      BY <1>8, <2>1 DEF Offset
    <3> QED
      BY <1>9, <2>1, <3>1, LaidOutStays DEF LayoutInv
  <2>2. CASE n \in DOMAIN metadata /\ metadata[n].clusterSize = 0
    BY <1>6, <1>8, <2>2 DEF LaidOut, LayoutInv
  <2>3. CASE n \notin DOMAIN metadata
    BY <1>5, <1>6, <2>3 DEF LaidOut
  <2> QED
    BY <2>1, <2>2, <2>3
<1>13. ASSUME NEW t \in Finalizers PROVE StackInv(t)' /\ LoopInv(t)'
  <2>1. thread'[t].at = "idle" /\ thread'[t].stack = <<>>
    BY <1>4, <1>10
  <2> QED
    BY <2>1 DEF StackInv, LoopInv, Frames, ToSet
<1>14. RegisteredInv'
  <2>1. /\ Collected' = Collected /\ Messages' = Messages
        /\ \A x : LVMessageName(x)' = LVMessageName(x) /\ Fields(x)' = Fields(x)
    BY <1>4, ProtoKept
  <2>2. ASSUME NEW x \in Collected
        PROVE  (x \in parser'.todo \/ Registered(x)') /\ Supported(x)'
    <3>1. /\ x \in parser.todo \/ LVMessageName(x) \in DOMAIN metadata
          /\ Supported(x)
      BY <1>4 DEF RegisteredInv, Registered
    <3>2. Supported(x)'
      BY <2>1, <3>1 DEF Supported
    <3> QED
      BY <1>1, <1>6, <1>7, <2>1, <3>1, <3>2 DEF Registered
  <2>3. \A field : LVFieldInfo(field)' = LVFieldInfo(field)
    BY <2>1 DEF LVFieldInfo
  <2>4. ASSUME NEW n \in DOMAIN metadata' PROVE \E x \in Collected : ElementsOf(n, x)'
    <3>1. CASE n \in DOMAIN metadata
      <4>1. PICK x \in Collected : ElementsOf(n, x)
        BY <3>1 DEF RegisteredInv
      <4>2. ElementsOf(n, x)'
        BY <1>8, <2>1, <2>3, <3>1, <4>1 DEF ElementsOf
      <4> QED
        BY <4>2
    <3>2. CASE n \notin DOMAIN metadata
      <4>1. n = name /\ metadata'[n] = r
        BY <1>6, <3>2
      <4>2. ElementsOf(n, m)'
        BY <1>1, <1>5, <2>1, <2>3, <4>1 DEF ElementsOf, Count, El
      <4> QED
        BY <1>3, <4>2
    <3> QED
      BY <3>1, <3>2
  <2> QED
    BY <1>7, <2>1, <2>2, <2>4 DEF RegisteredInv
<1> QED
  BY <1>4, <1>10, <1>11, <1>12, <1>13, <1>14 DEF LayoutInv

\* Steps that keep the elements and the parser keep what is registered.
LEMMA RegisteredStays ==
  ASSUME RegisteredInv, UNCHANGED <<proto, parser>>,
         DOMAIN metadata' = DOMAIN metadata, ElementsKept
  PROVE  RegisteredInv'
<1>1. /\ Collected' = Collected /\ Messages' = Messages
      /\ \A x : LVMessageName(x)' = LVMessageName(x) /\ Fields(x)' = Fields(x)
  BY ProtoKept
<1>2. \A field : LVFieldInfo(field)' = LVFieldInfo(field)
  BY <1>1 DEF LVFieldInfo
<1>3. \A x : (Registered(x)' <=> Registered(x)) /\ (Supported(x)' <=> Supported(x))
  BY <1>1 DEF Registered, Supported
<1>4. ASSUME NEW n \in DOMAIN metadata, NEW x, ElementsOf(n, x)
      PROVE  ElementsOf(n, x)'
  <2>1. Count(n)' = Count(n) /\ LVMessageName(x)' = n /\ Count(n)' = Len(Fields(x)')
    BY <1>1, <1>4 DEF ElementsKept, ElementsOf
  <2>2. ASSUME NEW i \in 1..Count(n), NEW el,
               el = MessageElementMetadata(LVFieldInfo(Fields(x)[i]))
        PROVE  /\ El(n, i)'.type = el.type
               /\ El(n, i)'.isRepeated = el.isRepeated
               /\ El(n, i)'.embeddedMessageName = el.embeddedMessageName
               /\ El(n, i)'.isWellKnown = el.isWellKnown
    BY <1>4, <2>2 DEF ElementsKept, ElementsOf
  <2> QED
    BY <1>1, <1>2, <2>1, <2>2 DEF ElementsOf
<1> QED
  BY <1>1, <1>3, <1>4 DEF RegisteredInv

\* LVImportProto and LVGetMessages: nothing is registered yet.
LEMMA ParserStep ==
  ASSUME TypeInv, LayoutInv, RegisteredInv, LVImportProto \/ LVGetMessages
  PROVE  /\ TypeInv' /\ LayoutInv' /\ RegisteredInv'
         /\ \A t \in Finalizers : thread'[t].stack = <<>>
<1>1. /\ UNCHANGED <<proto, metadata, thread, crash>> /\ parser.at # "generated"
      /\ parser'.at \in {"imported", "failed", "generated"}
      /\ parser'.at # "generated" => parser'.todo = parser.todo
      /\ parser'.at = "generated" =>
            parser'.todo = Collected /\ \A m \in Collected : FieldsKnown(m)
      /\ parser' \in [at : {"new", "imported", "failed", "generated"},
                      todo : SUBSET Collected]
  BY DEF LVImportProto, LVGetMessages, TypeInv, Collected
<1>2. parser.todo = {} /\ DOMAIN metadata = {}
  BY <1>1 DEF RegisteredInv
<1>3. \A t \in Finalizers : thread[t].at = "idle" /\ thread[t].stack = <<>>
  BY <1>1 DEF LayoutInv, LoopInv, StackInv
<1>4. Elements' = Elements /\ Collected' = Collected
  BY <1>1, ProtoKept
<1>5. TypeInv'
  <2>1. StackFrames' = StackFrames
    BY <1>1 DEF StackFrames
  <2> QED
    BY <1>1, <1>4, <2>1 DEF TypeInv
<1>6. \A t \in Finalizers : thread'[t].at = "idle" /\ thread'[t].stack = <<>>
  BY <1>1, <1>3
<1>7. LayoutInv'
  BY <1>1, <1>2, <1>6 DEF LayoutInv, StackInv, LoopInv, Frames, ToSet
<1>8. RegisteredInv'
  <2>1. \A m : FieldsKnown(m) => Supported(m)'
    <3>1. \A m : Fields(m)' = Fields(m)
      BY <1>1, ProtoKept
    <3> QED
      BY <3>1 DEF FieldsKnown, Supported, Fields, LVFieldInfo
  <2> QED
    BY <1>1, <1>2, <1>4, <2>1 DEF RegisteredInv
<1> QED
  BY <1>5, <1>6, <1>7, <1>8

----------------------------------------------------------------------------
(* Nested messages *)

\* The field that an element comes from.
LEMMA ElementIsField ==
  ASSUME TypeInv, NEW n \in DOMAIN metadata, NEW i \in 1..Count(n),
         NEW m \in Collected, ElementsOf(n, m),
         NEW field, field = Fields(m)[i], NEW el, el = El(n, i)
  PROVE  /\ m \in Messages /\ i \in DOMAIN Fields(m)
         /\ el.type = field.type /\ el.isRepeated = field.rep
         /\ el.type = "MessageValue" =>
               /\ field.message \in Collected
               /\ el.embeddedMessageName = LVMessageName(field.message)
         /\ el.isWellKnown <=>
               el.embeddedMessageName \in WellKnown /\ ~el.isRepeated
<1>1. proto \in Protos
  BY DEF TypeInv
<1>2. m \in Messages /\ Fields(m) \in Seq([type : ProtoTypes, rep : BOOLEAN,
                                           message : Messages \cup {NoMessage}])
  BY <1>1, CollectedAreDeclared, ProtoWellFormed
<1>3. i \in DOMAIN Fields(m)
  BY <1>2 DEF ElementsOf
<1>4. PICK x : x = MessageElementMetadata(LVFieldInfo(field))
  OBVIOUS
<1>4a. field.type \in FieldTypes
  <2>1. el.type \in FieldTypes
    BY ElementTypes DEF Elements
  <2>2. el.type = LVFieldInfo(field).type
    BY <1>4 DEF ElementsOf, MessageElementMetadata
  <2> QED
    BY <2>1, <2>2 DEF LVFieldInfo, FieldTypes, TypePassed
<1>5. /\ x.type = field.type /\ x.isRepeated = field.rep
      /\ x.type = "MessageValue" =>
            x.embeddedMessageName = LVMessageName(field.message)
      /\ x.isWellKnown <=> x.embeddedMessageName \in WellKnown /\ ~x.isRepeated
  BY <1>1, <1>2, <1>3, <1>4, <1>4a, NewElement
<1>6. /\ el.type = x.type /\ el.isRepeated = x.isRepeated
      /\ el.embeddedMessageName = x.embeddedMessageName
      /\ el.isWellKnown = x.isWellKnown
  BY <1>4 DEF ElementsOf
<1>7. field.type = "MessageValue" => field.message \in Collected
  BY <1>1, <1>3, FieldTypesAreCollected
<1> QED
  BY <1>2, <1>3, <1>5, <1>6, <1>7

\* Without collisions a name stands for one message.
LEMMA NameIsMessage ==
  ASSUME ~Collision, NEW m \in Messages
  PROVE  MessageOf(LVMessageName(m)) = m
<1>1. \A x \in Messages : LVMessageName(x) = LVMessageName(m) => x = m
  BY DEF Collision
<1> QED
  BY <1>1 DEF MessageOf

\* What a message contains is closed under embedding.
LEMMA ContainedClosed ==
  ASSUME proto \in Protos, NEW m \in Messages
  PROVE  /\ Embedded(m) \subseteq Contained(m) /\ Contained(m) \subseteq Messages
         /\ \A x \in Contained(m) : Embedded(x) \subseteq Contained(m)
<1> DEFINE next == [x \in Messages |-> Embedded(x)]
<1>1. \A x \in Messages : Embedded(x) \subseteq Messages
  BY ProtoWellFormed DEF Embedded
<1>2. /\ DOMAIN next = Messages /\ \A x \in Messages : next[x] = Embedded(x)
      /\ Contained(m) = Reachable(Embedded(m), next)
  BY DEF Contained
<1> HIDE DEF next
<1>3. /\ Contained(m) \subseteq DOMAIN next /\ Embedded(m) \subseteq Contained(m)
      /\ \A x \in Contained(m) : next[x] \subseteq Contained(m)
  BY <1>1, <1>2, ReachableClosed
<1> QED
  BY <1>2, <1>3

\* A nested message whose layout starts is embedded in the message on top.
LEMMA PushedIsEmbedded ==
  ASSUME TypeInv, RegisteredInv, ~Collision, NEW n \in DOMAIN metadata,
         NEW i \in 1..Count(n), NEW el, el = El(n, i),
         el.type = "MessageValue", ~el.isWellKnown
  PROVE  /\ MessageOf(n) \in Messages
         /\ MessageOf(el.embeddedMessageName) \in Embedded(MessageOf(n))
<1>1. PICK m \in Collected : ElementsOf(n, m)
  BY DEF RegisteredInv
<1>2. PICK field : field = Fields(m)[i]
  OBVIOUS
<1>3. /\ m \in Messages /\ i \in DOMAIN Fields(m)
      /\ el.type = field.type /\ el.isRepeated = field.rep
      /\ field.message \in Collected
      /\ el.embeddedMessageName = LVMessageName(field.message)
      /\ el.isWellKnown <=> el.embeddedMessageName \in WellKnown /\ ~el.isRepeated
  BY <1>1, <1>2, ElementIsField
<1>4. MessageOf(n) = m
  BY <1>1, <1>3, NameIsMessage DEF ElementsOf
<1>5. field.message \in Messages
  BY <1>3, CollectedAreDeclared DEF TypeInv
<1>6. MessageOf(el.embeddedMessageName) = field.message
  BY <1>3, <1>5, NameIsMessage
<1>7. field.message \in Embedded(m)
  BY <1>2, <1>3 DEF Embedded
<1> QED
  BY <1>3, <1>4, <1>6, <1>7

\* A registered name stands for a message.
LEMMA RegisteredNames ==
  ASSUME TypeInv, RegisteredInv, ~Collision, NEW n \in DOMAIN metadata
  PROVE  MessageOf(n) \in Messages
<1>1. PICK m \in Collected : ElementsOf(n, m)
  BY DEF RegisteredInv
<1>2. m \in Messages /\ LVMessageName(m) = n
  BY <1>1, CollectedAreDeclared DEF ElementsOf, TypeInv
<1> QED
  BY <1>2, NameIsMessage

\* One more call keeps the messages of a stack nested.
LEMMA PushKeepsNesting ==
  ASSUME TypeInv, RegisteredInv, ~Collision,
         NEW s \in Seq(StackFrames), s # <<>>, Nesting(s),
         NEW n, n = Last(s).message, n \in DOMAIN metadata,
         NEW i \in 1..Count(n), NEW el, el = El(n, i),
         el.type = "MessageValue", ~el.isWellKnown,
         NEW r, r = Append(s, Frame(el.embeddedMessageName))
  PROVE  Nesting(r)
<1>1. PICK c : c = MessageOf(el.embeddedMessageName)
  OBVIOUS
<1>2. MessageOf(n) \in Messages /\ c \in Embedded(MessageOf(n))
  BY <1>1, PushedIsEmbedded
<1>3. proto \in Protos
  BY DEF TypeInv
<1>4. /\ Len(s) \in Nat \ {0} /\ Len(r) = Len(s) + 1
      /\ r[Len(r)] = Frame(el.embeddedMessageName)
      /\ \A k \in 1..Len(s) : r[k] = s[k]
      /\ n = s[Len(s)].message
  BY DEF Last
<1>5. \A k \in 1..Len(s) : MessageOf(s[k].message) \in Messages
  <2> SUFFICES ASSUME NEW k \in 1..Len(s)
               PROVE  MessageOf(s[k].message) \in Messages
    OBVIOUS
  <2>1. s[k].message \in DOMAIN metadata
    <3>1. s[k] \in StackFrames
      OBVIOUS
    <3> QED
      BY <3>1 DEF StackFrames
  <2> QED
    BY <2>1, RegisteredNames
<1>6. ASSUME NEW k \in 1..Len(s) PROVE c \in Contained(MessageOf(s[k].message))
  <2>1. CASE k = Len(s)
    BY <1>2, <1>3, <1>4, <2>1, ContainedClosed
  <2>2. CASE k < Len(s)
    <3>1. MessageOf(n) \in Contained(MessageOf(s[k].message))
      BY <1>4, <2>2 DEF Nesting
    <3> QED
      BY <1>2, <1>3, <1>5, <3>1, ContainedClosed
  <2> QED
    BY <1>4, <2>1, <2>2
<1>7. Frame(el.embeddedMessageName).message = el.embeddedMessageName
  BY DEF Frame
<1>8. ASSUME NEW j \in 1..Len(r), NEW k \in 1..Len(r), j < k
      PROVE  MessageOf(r[k].message) \in Contained(MessageOf(r[j].message))
  <2>1. j \in 1..Len(s)
    BY <1>4, <1>8
  <2>2. CASE k \in 1..Len(s)
    BY <1>4, <1>8, <2>1, <2>2 DEF Nesting
  <2>3. CASE k = Len(r)
    BY <1>1, <1>4, <1>6, <1>7, <2>1, <2>3
  <2> QED
    BY <1>4, <2>2, <2>3
<1> QED
  BY <1>8 DEF Nesting

\* More calls than messages: a message is contained in itself.
LEMMA DeepMeansRecursive ==
  ASSUME TypeInv, NEW s, Len(s) \in Nat, Len(s) > Cardinality(Messages),
         \A i \in 1..Len(s) : MessageOf(s[i].message) \in Messages, Nesting(s)
  PROVE  \E m \in Messages : m \in Contained(m)
<1> DEFINE f == [i \in 1..Len(s) |-> MessageOf(s[i].message)]
<1>1. IsFiniteSet(Messages)
  BY ProtoWellFormed DEF TypeInv, WellFormed, Messages
<1>2. IsFiniteSet(1..Len(s)) /\ Cardinality(1..Len(s)) = Len(s)
  BY FS_Interval
<1>3. f \in [1..Len(s) -> Messages]
  OBVIOUS
<1>4. Cardinality(Messages) < Cardinality(1..Len(s))
  BY <1>1, <1>2, FS_CardinalityType
<1>5. PICK i, j \in 1..Len(s) : i # j /\ f[i] = f[j]
  <2> HIDE DEF f
  <2> QED
    BY <1>1, <1>2, <1>3, <1>4, FS_PigeonHole, Zenon
<1>6. CASE i < j
  BY <1>5, <1>6 DEF Nesting
<1>7. CASE j < i
  BY <1>5, <1>7 DEF Nesting
<1> QED
  BY <1>5, <1>6, <1>7

----------------------------------------------------------------------------
(* The inductive invariant *)

\* What depends on the .proto file only.
LEMMA MalformedKept ==
  ASSUME proto' = proto
  PROVE  /\ Collision' <=> Collision
         /\ \A s : Nesting(s)' <=> Nesting(s)
         /\ (\E m \in Messages : m \in Contained(m))' <=>
               (\E m \in Messages : m \in Contained(m))
<1>1. /\ Messages' = Messages
      /\ \A m : LVMessageName(m)' = LVMessageName(m) /\ Fields(m)' = Fields(m)
  BY ProtoKept
<1>2. Collision' <=> Collision
  BY <1>1 DEF Collision
<1>3. \A m : Embedded(m)' = Embedded(m)
  BY <1>1 DEF Embedded
<1>4. \A m : Contained(m)' = Contained(m)
  BY <1>1, <1>3 DEF Contained
<1>5. \A n : MessageOf(n)' = MessageOf(n)
  BY <1>1 DEF MessageOf
<1> QED
  BY <1>1, <1>2, <1>4, <1>5 DEF Nesting

\* A stack that only loses calls stays nested.
LEMMA NestingKept ==
  ASSUME proto' = proto, NEW t \in Finalizers, NestingInv(t),
         Len(thread[t].stack) \in Nat, Len(thread'[t].stack) \in Nat,
         Len(thread'[t].stack) <= Len(thread[t].stack),
         \A j \in 1..Len(thread'[t].stack) :
            thread'[t].stack[j].message = thread[t].stack[j].message
  PROVE  NestingInv(t)'
<1> SUFFICES ASSUME ~Collision PROVE Nesting(thread'[t].stack)
  BY MalformedKept DEF NestingInv
<1>1. Nesting(thread[t].stack)
  BY DEF NestingInv
<1>2. ASSUME NEW i \in 1..Len(thread'[t].stack), NEW j \in 1..Len(thread'[t].stack),
             i < j
      PROVE  MessageOf(thread'[t].stack[j].message)
                \in Contained(MessageOf(thread'[t].stack[i].message))
  <2>1. i \in 1..Len(thread[t].stack) /\ j \in 1..Len(thread[t].stack)
    OBVIOUS
  <2> QED
    BY <1>1, <1>2, <2>1 DEF Nesting
<1> QED
  BY <1>2 DEF Nesting

\* A stack of one call is nested.
LEMMA ShortNesting ==
  ASSUME NEW t \in Finalizers, Len(thread'[t].stack) \in {0, 1}
  PROVE  NestingInv(t)'
  BY DEF NestingInv, Nesting

\* Stacks have a length.
LEMMA StackLength ==
  ASSUME TypeInv, NEW t \in Finalizers
  PROVE  thread[t].stack \in Seq(StackFrames) /\ Len(thread[t].stack) \in Nat
<1>1. thread[t].stack \in Seq(StackFrames)
  BY DEF TypeInv
<1> QED
  BY <1>1

\* Nothing fails.
LEMMA NoCrash ==
  ASSUME crash' = "no"
  PROVE  CrashOnlyIfMalformed'
  BY DEF CrashOnlyIfMalformed

\* A failure has a cause.
LEMMA FailureHasCause ==
  ASSUME IInv, NEW t \in Finalizers, thread[t].at = "loop",
         thread[t].stack # <<>>, NEW n, n = Last(thread[t].stack).message,
         n \in DOMAIN metadata, NEW i \in 1..Count(n), NEW el, el = El(n, i),
         el.type = "MessageValue", ~el.isWellKnown, ElementFails(t, el)
  PROVE  IInv'
<1> DEFINE name == el.embeddedMessageName
<1>1. /\ TypeInv /\ RegisteredInv /\ LayoutInv /\ LoopInv(t) /\ NestingInv(t)
  BY DEF IInv, LayoutInv
<1>2. PICK why \in {"null", "stack", "zero"} : Fail(why)
  BY DEF ElementFails
<1>3. /\ TypeInv' /\ LayoutInv' /\ UNCHANGED <<proto, parser, metadata, thread>>
      /\ crash' = why
  <2>1. /\ UNCHANGED <<proto, parser, metadata, thread>> /\ crash' = why
        /\ crash' \in {"no", "null", "stack", "zero"}
    BY <1>2 DEF Fail
  <2> QED
    BY <1>1, <2>1, FailStep
<1>4. ElementsKept
  BY <1>3 DEF ElementsKept, Count, El
<1>5. RegisteredInv'
  BY <1>1, <1>3, <1>4, RegisteredStays
<1>6. \A u \in Finalizers : NestingInv(u)'
  <2>1. \A u \in Finalizers : NestingInv(u)
    BY DEF IInv
  <2> QED
    BY <1>3, <2>1, MalformedKept DEF NestingInv
<1>7. PICK m \in Collected : ElementsOf(n, m)
  BY <1>1 DEF RegisteredInv
<1>8. PICK field : field = Fields(m)[i]
  OBVIOUS
<1>9. /\ m \in Messages /\ i \in DOMAIN Fields(m)
      /\ field.type = "MessageValue" /\ el.isRepeated = field.rep
      /\ field.message \in Collected /\ name = LVMessageName(field.message)
  BY <1>1, <1>7, <1>8, ElementIsField
<1>10. name \in DOMAIN metadata
  BY <1>1, <1>9 DEF LoopInv, RegisteredInv, Registered
<1>11. crash' # "null"
  <2>1. Fail("stack") \/ Fail("zero")
    BY <1>10 DEF ElementFails
  <2> QED
    BY <2>1 DEF Fail
<1>12. ASSUME crash' = "stack", ~Collision
       PROVE  \E x \in Messages : x \in Contained(x)
  <2>1. Len(thread[t].stack) = StackDepth
    BY <1>10, <1>12 DEF ElementFails, Fail
  <2>2. PICK r : r = Append(thread[t].stack, Frame(name))
    OBVIOUS
  <2>3. Nesting(r)
    <3>1. thread[t].stack \in Seq(StackFrames) /\ Nesting(thread[t].stack)
      BY <1>1, <1>12, StackLength DEF NestingInv
    <3> QED
      BY <1>1, <1>12, <2>2, <3>1, PushKeepsNesting
  <2>4. /\ Len(r) = Len(thread[t].stack) + 1 /\ Len(thread[t].stack) \in Nat
        /\ \A j \in 1..Len(r) : r[j].message \in DOMAIN metadata
    <3>1. thread[t].stack \in Seq(StackFrames) /\ Len(thread[t].stack) \in Nat
      BY <1>1, StackLength
    <3>2. /\ Len(r) = Len(thread[t].stack) + 1 /\ r[Len(r)] = Frame(name)
          /\ \A j \in 1..Len(thread[t].stack) : r[j] = thread[t].stack[j]
      BY <2>2, <3>1
    <3>3. ASSUME NEW j \in 1..Len(thread[t].stack)
          PROVE  thread[t].stack[j].message \in DOMAIN metadata
      <4>1. thread[t].stack[j] \in StackFrames
        BY <3>1
      <4> QED
        BY <4>1 DEF StackFrames
    <3>4. Frame(name).message = name
      BY DEF Frame
    <3> QED
      BY <1>10, <3>1, <3>2, <3>3, <3>4
  <2>5. \A j \in 1..Len(r) : MessageOf(r[j].message) \in Messages
    BY <1>1, <1>12, <2>4, RegisteredNames
  <2>6. Cardinality(Messages) <= StackDepth /\ IsFiniteSet(Messages)
    BY <1>1, ProtoWellFormed DEF TypeInv, WellFormed, Messages
  <2>7. Cardinality(Messages) \in Nat
    BY <2>6, FS_CardinalityType
  <2>8. Len(r) \in Nat /\ Len(r) > Cardinality(Messages)
    BY <2>1, <2>4, <2>6, <2>7
  <2> QED
    BY <1>1, <2>3, <2>5, <2>8, DeepMeansRecursive
<1>13. ASSUME crash' = "zero", ~Collision
       PROVE  \E x \in Messages : \E j \in DOMAIN Fields(x) :
                 /\ Fields(x)[j].type = "MessageValue" /\ ~Fields(x)[j].rep
                 /\ Fields(Fields(x)[j].message) = <<>>
  <2>1. /\ ~el.isRepeated /\ ~NeedsLayout(name)
        /\ metadata[name].alignmentRequirement = 0
    BY <1>10, <1>13 DEF ElementFails, Fail
  <2>2. Count(name) = 0
    <3>1. metadata[name]._elements = <<>> => Count(name) = 0
      BY DEF Count
    <3>2. metadata[name].clusterSize # 0 =>
             metadata[name].alignmentRequirement \in Alignments
      BY <1>1, <1>10 DEF LayoutInv, LaidOut, IsMaxAlignment
    <3> QED
      BY <2>1, <3>1, <3>2 DEF NeedsLayout, Alignments
  <2>3. PICK x \in Collected : ElementsOf(name, x)
    BY <1>1, <1>10 DEF RegisteredInv
  <2>4. x \in Messages /\ field.message \in Messages
    BY <1>1, <1>9, CollectedAreDeclared DEF TypeInv
  <2>5. x = field.message
    BY <1>9, <1>13, <2>3, <2>4 DEF ElementsOf, Collision
  <2>6. Fields(x) = <<>>
    <3> DEFINE F == [type : ProtoTypes, rep : BOOLEAN,
                     message : Messages \cup {NoMessage}]
    <3>1. Fields(x) \in Seq(F)
      BY <1>1, <2>4, ProtoWellFormed DEF TypeInv
    <3>2. Len(Fields(x)) = 0
      BY <2>2, <2>3 DEF ElementsOf
    <3> HIDE DEF F
    <3> QED
      BY <3>1, <3>2
  <2> QED
    BY <1>8, <1>9, <2>1, <2>5, <2>6
<1>14. CrashOnlyIfMalformed'
  <2>1. Messages' = Messages /\ \A x : Fields(x)' = Fields(x)
    BY <1>3, ProtoKept
  <2> QED
    BY <1>3, <1>11, <1>12, <1>13, <2>1, MalformedKept DEF CrashOnlyIfMalformed
<1> QED
  BY <1>3, <1>5, <1>6, <1>14 DEF IInv, LayoutInv

\* The layout of one element.
LEMMA LayoutElementStep ==
  ASSUME IInv, crash = "no", NEW t \in Finalizers, LayoutElement(t)
  PROVE  IInv'
<1>1. PICK f : f = Last(thread[t].stack)
  OBVIOUS
<1>2. PICK n : n = f.message
  OBVIOUS
<1>3. PICK e : e = f.element
  OBVIOUS
<1>4. PICK el : el = El(n, e)
  OBVIOUS
<1>5. /\ TypeInv /\ RegisteredInv /\ LayoutInv
      /\ \A u \in Finalizers : NestingInv(u)
  BY DEF IInv, LayoutInv
<1>6. /\ n \in DOMAIN metadata /\ e \in 1..Count(n)
      /\ thread[t].stack # <<>> /\ thread[t].at = "loop"
      /\ \/ ElementPlaced(t, n, e)
         \/ /\ el.type = "MessageValue" /\ ~el.isWellKnown
            /\ \/ ElementPushed(t, el.embeddedMessageName)
               \/ ElementFails(t, el)
  BY <1>1, <1>2, <1>3, <1>4, <1>5, LayoutElementCases
<1>7. thread[t].stack \in Seq(StackFrames) /\ Len(thread[t].stack) \in Nat
  BY <1>5, StackLength
<1>8. CASE ElementPlaced(t, n, e)
  <2>1. e <= Count(n) /\ Count(n) \in Nat /\ Known(n, e)
    BY <1>5, <1>6, <1>8, ElementTypes DEF ElementPlaced
  <2>2. /\ TypeInv' /\ LayoutInv' /\ UNCHANGED <<proto, parser, crash>>
        /\ ElementsKept /\ DOMAIN metadata' = DOMAIN metadata
        /\ \A u \in Finalizers \ {t} : thread'[u] = thread[u]
        /\ Len(thread'[t].stack) = Len(thread[t].stack)
        /\ \A j \in 1..Len(thread[t].stack) :
              thread'[t].stack[j].message = thread[t].stack[j].message
    BY <1>1, <1>2, <1>3, <1>5, <1>6, <1>8, <2>1, PlaceKeepsLayout
       DEF ElementPlaced
  <2>3. RegisteredInv'
    BY <1>5, <2>2, RegisteredStays
  <2>4. ASSUME NEW u \in Finalizers PROVE NestingInv(u)'
    <3>1. Len(thread[u].stack) \in Nat
      BY <1>5, StackLength
    <3>2. /\ Len(thread'[u].stack) = Len(thread[u].stack)
          /\ \A j \in 1..Len(thread[u].stack) :
                thread'[u].stack[j].message = thread[u].stack[j].message
      BY <2>2
    <3> QED
      BY <1>5, <2>2, <3>1, <3>2, NestingKept
  <2> QED
    BY <2>2, <2>3, <2>4, NoCrash DEF IInv, LayoutInv
<1>9. CASE /\ el.type = "MessageValue" /\ ~el.isWellKnown
           /\ ElementPushed(t, el.embeddedMessageName)
  <2>1. PICK name : name = el.embeddedMessageName
    OBVIOUS
  <2>2. /\ TypeInv' /\ LayoutInv'
        /\ thread'[t].stack = Append(thread[t].stack, Frame(name))
        /\ \A u \in Finalizers \ {t} : thread'[u] = thread[u]
        /\ UNCHANGED <<proto, parser, metadata, crash>>
    <3>1. name \in DOMAIN metadata /\ NeedsLayout(name) /\ Pushes(t, name)
      BY <1>9, <2>1 DEF ElementPushed
    <3>2. UNCHANGED <<proto, parser, metadata, crash>>
      BY <3>1 DEF Pushes, ThreadBecomes
    <3> QED
      BY <1>5, <1>6, <3>1, <3>2, PushStep
  <2>3. ElementsKept
    BY <2>2 DEF ElementsKept, Count, El
  <2>4. RegisteredInv'
    BY <1>5, <2>2, <2>3, RegisteredStays
  <2>5. NestingInv(t)'
    <3> SUFFICES ASSUME ~Collision PROVE Nesting(thread'[t].stack)
      BY <2>2, MalformedKept DEF NestingInv
    <3>1. Nesting(thread[t].stack)
      BY <1>5 DEF NestingInv
    <3> QED
      BY <1>1, <1>2, <1>4, <1>5, <1>6, <1>7, <1>9, <2>1, <2>2, <3>1,
         PushKeepsNesting
  <2>6. \A u \in Finalizers \ {t} : NestingInv(u)'
    BY <1>5, <2>2, MalformedKept DEF NestingInv
  <2> QED
    BY <2>2, <2>4, <2>5, <2>6, NoCrash DEF IInv, LayoutInv
<1>10. CASE /\ el.type = "MessageValue" /\ ~el.isWellKnown
            /\ ElementFails(t, el)
  BY <1>1, <1>2, <1>4, <1>6, <1>10, FailureHasCause
<1> QED
  BY <1>6, <1>8, <1>9, <1>10

\* The invariant after a step that has kept the types, the layouts and what is
\* registered, and made no stack longer.
LEMMA OtherStep ==
  ASSUME IInv, TypeInv', LayoutInv', RegisteredInv', crash' = "no",
         \A u \in Finalizers : NestingInv(u)'
  PROVE  IInv'
  BY NoCrash DEF IInv, LayoutInv

\* Every step keeps the invariant.
LEMMA IInvStep ==
  ASSUME IInv, [Next]_vars
  PROVE  IInv'
<1>1. /\ TypeInv /\ RegisteredInv /\ LayoutInv
      /\ \A u \in Finalizers : NestingInv(u)
  BY DEF IInv, LayoutInv
<1>2. \A u \in Finalizers : Len(thread[u].stack) \in Nat
  BY <1>1, StackLength
<1>3. ASSUME crash = "no", LVImportProto \/ LVGetMessages PROVE IInv'
  <2>1. /\ TypeInv' /\ LayoutInv' /\ RegisteredInv'
        /\ \A t \in Finalizers : thread'[t].stack = <<>>
    BY <1>1, <1>3, ParserStep
  <2>2. crash' = "no"
    BY <1>3 DEF LVImportProto, LVGetMessages
  <2> QED
    BY <2>1, <2>2, ShortNesting, OtherStep
<1>4. ASSUME crash = "no", NEW m \in parser.todo, RegisterMessageMetadata2(m)
      PROVE  IInv'
  <2>1. /\ TypeInv' /\ LayoutInv' /\ RegisteredInv'
        /\ \A t \in Finalizers : thread'[t].stack = <<>>
    BY <1>1, <1>4, RegisterStep
  <2>2. crash' = "no"
    BY <1>4 DEF RegisterMessageMetadata2
  <2> QED
    BY <2>1, <2>2, ShortNesting, OtherStep
<1>5. ASSUME crash' = "no", UNCHANGED <<proto, parser, metadata>>,
             NEW t \in Finalizers, TypeInv', LayoutInv',
             Len(thread'[t].stack) \in {0, 1},
             \A u \in Finalizers \ {t} : thread'[u] = thread[u]
      PROVE  IInv'
  <2>1. ElementsKept
    BY <1>5 DEF ElementsKept, Count, El
  <2>2. RegisteredInv'
    BY <1>1, <1>5, <2>1, RegisteredStays
  <2>3. ASSUME NEW u \in Finalizers PROVE NestingInv(u)'
    BY <1>1, <1>5, ShortNesting, MalformedKept DEF NestingInv
  <2> QED
    BY <1>5, <2>2, <2>3, OtherStep
<1>6. ASSUME crash = "no", NEW t \in Finalizers, FinalizeMetadata(t) PROVE IInv'
  <2>1. Len(<<>>) = 0
    OBVIOUS
  <2> QED
    BY <1>1, <1>5, <1>6, <2>1, FinalizeMetadataStep DEF FinalizeMetadata
<1>7. ASSUME crash = "no", NEW t \in Finalizers, NEW n, NextMessage(t, n)
      PROVE  IInv'
  BY <1>1, <1>5, <1>7, NextMessageStep DEF NextMessage
<1>8. ASSUME crash = "no", NEW t \in Finalizers, EndLoop(t) PROVE IInv'
  <2>1. Len(<<>>) = 0
    OBVIOUS
  <2> QED
    BY <1>1, <1>5, <1>8, <2>1, EndLoopStep DEF EndLoop
<1>9. ASSUME crash = "no", NEW t \in Finalizers, SetAlignment(t) PROVE IInv'
  <2>1. /\ TypeInv' /\ LayoutInv'
        /\ ElementsKept /\ DOMAIN metadata' = DOMAIN metadata
        /\ \A u \in Finalizers : thread'[u].stack = thread[u].stack
    BY <1>1, <1>9, SetAlignmentStep
  <2>2. UNCHANGED <<proto, parser, crash>>
    BY <1>9 DEF SetAlignment
  <2>3. RegisteredInv'
    BY <1>1, <2>1, <2>2, RegisteredStays
  <2>4. \A u \in Finalizers : NestingInv(u)'
    BY <1>1, <2>1, <2>2, MalformedKept DEF NestingInv
  <2> QED
    BY <1>9, <2>1, <2>2, <2>3, <2>4, OtherStep
<1>10. ASSUME crash = "no", NEW t \in Finalizers, SetClusterSize(t) PROVE IInv'
  <2>1. /\ TypeInv' /\ LayoutInv'
        /\ ElementsKept /\ DOMAIN metadata' = DOMAIN metadata
        /\ thread[t].stack # <<>> /\ thread'[t].stack = Front(thread[t].stack)
        /\ \A u \in Finalizers \ {t} : thread'[u] = thread[u]
    BY <1>1, <1>10, SetClusterSizeStep
  <2>2. UNCHANGED <<proto, parser, crash>>
    BY <1>10 DEF SetClusterSize
  <2>3. RegisteredInv'
    BY <1>1, <2>1, <2>2, RegisteredStays
  <2>4. ASSUME NEW u \in Finalizers PROVE NestingInv(u)'
    <3>1. CASE u = t
      <4>1. thread[t].stack \in Seq(StackFrames)
        BY <1>1, StackLength
      <4>2. /\ Front(thread[t].stack) \in Seq(StackFrames)
            /\ Len(Front(thread[t].stack)) = Len(thread[t].stack) - 1
            /\ \A i \in 1..(Len(thread[t].stack) - 1) :
                  Front(thread[t].stack)[i] = thread[t].stack[i]
        BY <2>1, <4>1, PopFrames
      <4>3. /\ Len(thread'[t].stack) \in Nat
            /\ Len(thread'[t].stack) <= Len(thread[t].stack)
            /\ \A j \in 1..Len(thread'[t].stack) :
                  thread'[t].stack[j].message = thread[t].stack[j].message
        BY <1>2, <2>1, <4>2
      <4> QED
        BY <1>1, <1>2, <2>2, <3>1, <4>3, NestingKept
    <3>2. CASE u # t
      BY <1>1, <2>1, <2>2, <3>2, MalformedKept DEF NestingInv
    <3> QED
      BY <3>1, <3>2
  <2> QED
    BY <1>10, <2>1, <2>2, <2>3, <2>4, OtherStep
<1>11. ASSUME vars' = vars PROVE IInv'
  <2>1. UNCHANGED <<proto, parser, metadata, thread, crash>>
    BY <1>11 DEF vars
  <2>2. TypeInv' /\ LayoutInv'
    BY <1>1, <2>1, FailStep DEF TypeInv
  <2>3. ElementsKept
    BY <2>1 DEF ElementsKept, Count, El
  <2>4. RegisteredInv'
    BY <1>1, <2>1, <2>3, RegisteredStays
  <2>5. \A u \in Finalizers : NestingInv(u)'
    BY <1>1, <2>1, MalformedKept DEF NestingInv
  <2>6. CrashOnlyIfMalformed'
    <3>1. Messages' = Messages /\ \A x : Fields(x)' = Fields(x)
      BY <2>1, ProtoKept
    <3> QED
      BY <2>1, <3>1, MalformedKept DEF IInv, CrashOnlyIfMalformed
  <2> QED
    BY <2>2, <2>4, <2>5, <2>6 DEF IInv, LayoutInv
<1> QED
  BY <1>3, <1>4, <1>6, <1>7, <1>8, <1>9, <1>10, <1>11, LayoutElementStep
     DEF Next, Update

\* It holds in the initial states.
LEMMA IInvInit ==
  ASSUME Init
  PROVE  IInv
<1>1. /\ proto \in Protos /\ parser = [at |-> "new", todo |-> {}]
      /\ metadata = [n \in {} |-> 0] /\ crash = "no"
      /\ thread = [t \in Finalizers |-> Idle]
  BY DEF Init
<1>2. DOMAIN metadata = {}
  BY <1>1
<1>3. metadata \in [DOMAIN metadata ->
                       [_elements : Seq(Elements), clusterSize : Nat,
                        alignmentRequirement : {0} \cup Alignments]]
  BY <1>1
<1>4. Idle \in [at : {"idle", "loop", "size", "done"},
                todo : SUBSET DOMAIN metadata, stack : Seq(StackFrames)]
  BY DEF Idle
<1>5. TypeInv
  BY <1>1, <1>3, <1>4 DEF TypeInv
<1>6. \A t \in Finalizers : thread[t].at = "idle" /\ thread[t].stack = <<>>
  BY <1>1 DEF Idle
<1>7. \A t \in Finalizers : StackInv(t) /\ LoopInv(t) /\ NestingInv(t)
  BY <1>6 DEF StackInv, LoopInv, NestingInv, Nesting, Frames, ToSet
<1>8. RegisteredInv
  BY <1>1, <1>2 DEF RegisteredInv
<1> QED
  BY <1>1, <1>2, <1>5, <1>7, <1>8 DEF IInv, CrashOnlyIfMalformed

----------------------------------------------------------------------------
(* From the invariant to the layout that LabVIEW uses *)

\* The cluster that LabVIEW generates for a field is the element.
LEMMA FieldIsElement ==
  ASSUME TypeInv, NEW n \in DOMAIN metadata, NEW m \in Collected,
         ElementsOf(n, m), NEW i \in 1..Count(n)
  PROVE  /\ FieldSize(Fields(m)[i]) = ElementSize(n, i)
         /\ FieldAlignment(Fields(m)[i]) = ElementAlignment(n, i)
<1>1. PICK field : field = Fields(m)[i]
  OBVIOUS
<1>2. PICK el : el = El(n, i)
  OBVIOUS
<1>3. /\ el.type = field.type /\ el.isRepeated = field.rep
      /\ el.type = "MessageValue" =>
            el.embeddedMessageName = LVMessageName(field.message)
      /\ el.isWellKnown <=> el.embeddedMessageName \in WellKnown /\ ~el.isRepeated
  BY <1>1, <1>2, ElementIsField
<1>4. el.type \in FieldTypes /\ el.isRepeated \in BOOLEAN
  BY <1>2, ElementTypes DEF Elements
<1>5. CASE IsCluster(el)
  <2>1. /\ el.type = "MessageValue" /\ ~FieldIsHandle(field)
    BY <1>3, <1>5 DEF IsCluster, FieldIsHandle
  <2> QED
    BY <1>1, <1>2, <1>3, <1>5, <2>1
       DEF FieldSize, FieldAlignment, ElementSize, ElementAlignment, Of
<1>6. CASE ~IsCluster(el)
  <2>1. ElementSize(n, i) = FixedSize(el) /\ ElementAlignment(n, i) = FixedSize(el)
    BY <1>2, <1>6 DEF ElementSize, ElementAlignment
  <2>2. CASE el.type = "MessageValue"
    <3>1. FieldIsHandle(field)
      BY <1>3, <1>6, <2>2 DEF IsCluster, FieldIsHandle
    <3> QED
      BY <1>1, <2>1, <2>2, <3>1 DEF FieldSize, FieldAlignment, FixedSize
  <2>3. CASE el.type # "MessageValue"
    <3>1. FieldIsHandle(field) =>
             ClusterElementSize(el.type, el.isRepeated) = PointerSize
      BY <1>3, <1>4, <2>3, FixedSizes DEF FieldIsHandle
    <3>2. ~FieldIsHandle(field) => el.isRepeated = FALSE
      BY <1>3, <1>4 DEF FieldIsHandle
    <3> QED
      BY <1>1, <1>3, <2>1, <2>3, <3>1, <3>2
         DEF FieldSize, FieldAlignment, FixedSize
  <2> QED
    BY <2>2, <2>3
<1> QED
  BY <1>5, <1>6

\* A complete layout is LabVIEW's.
LEMMA LaidOutIsSound ==
  ASSUME TypeInv, \A x \in DOMAIN metadata : LaidOut(x),
         NEW n \in DOMAIN metadata, metadata[n].clusterSize # 0,
         NEW k, k = Count(n), NEW a, a = metadata[n].alignmentRequirement
  PROVE  /\ k \in Nat \ {0}
         /\ Offset(n, 1) = 0
         /\ \A i \in 1..k : Offset(n, i) % ElementAlignment(n, i) = 0
         /\ \A i \in 2..k : Offset(n, i) - (Offset(n, i - 1) + ElementSize(n, i - 1))
                              \in 0..(ElementAlignment(n, i) - 1)
         /\ metadata[n].clusterSize - (Offset(n, k) + ElementSize(n, k))
               \in 0..(a - 1)
         /\ \A i \in 1..k : metadata[n].clusterSize % ElementAlignment(n, i) = 0
<1>1. k \in Nat \ {0}
  BY ElementTypes DEF LaidOut
<1>2. \A i \in 1..k : Placed(n, i) /\ Known(n, i)
  BY DEF LaidOut, PlacedUpTo, Placed, Known
<1>3. \A i \in 1..k : /\ ElementAlignment(n, i) \in Alignments
                      /\ ElementSize(n, i) \in Nat /\ Offset(n, i) \in Nat
  BY <1>2, KnownValues, ElementTypes
<1>4. /\ \A i \in 0..k : After(n, i) \in Nat
      /\ \A i \in 1..k : After(n, i) = Offset(n, i) + ElementSize(n, i)
      /\ After(n, 0) = 0
  BY <1>1, <1>3 DEF After
<1>5. \A i \in 1..k :
         Offset(n, i) = AlignClusterOffset(After(n, i - 1), ElementAlignment(n, i))
  BY <1>2 DEF Placed
<1>6. \A i \in 1..k :
         /\ Offset(n, i) % ElementAlignment(n, i) = 0
         /\ Offset(n, i) - After(n, i - 1) \in 0..(ElementAlignment(n, i) - 1)
  <2> TAKE i \in 1..k
  <2>1. i - 1 \in 0..k
    BY <1>1
  <2> QED
    BY <1>3, <1>4, <1>5, <2>1, AlignRoundsUp
<1>7. Offset(n, 1) = 0
  <2>1. 1 \in 1..k
    BY <1>1
  <2>2. \A x \in Alignments : AlignClusterOffset(0, x) = 0
    BY DEF AlignClusterOffset, Alignments
  <2> QED
    BY <1>3, <1>4, <1>5, <2>1, <2>2
<1>8. /\ a \in Alignments /\ \A i \in 1..k : ElementAlignment(n, i) <= a
      /\ metadata[n].clusterSize = AlignClusterOffset(After(n, k), a)
  BY <1>1 DEF LaidOut, IsMaxAlignment
<1>9. /\ metadata[n].clusterSize \in Nat
      /\ metadata[n].clusterSize % a = 0
      /\ metadata[n].clusterSize - After(n, k) \in 0..(a - 1)
  <2>1. k \in 0..k
    BY <1>1
  <2> QED
    BY <1>4, <1>8, <2>1, AlignRoundsUp
<1>10. \A i \in 1..k : metadata[n].clusterSize % ElementAlignment(n, i) = 0
  BY <1>3, <1>8, <1>9, AlignmentsDivide
<1>11. \A i \in 2..k : Offset(n, i) - (Offset(n, i - 1) + ElementSize(n, i - 1))
                         \in 0..(ElementAlignment(n, i) - 1)
  <2> TAKE i \in 2..k
  <2>1. i \in 1..k /\ i - 1 \in 1..k
    BY <1>1
  <2> QED
    BY <1>4, <1>6, <2>1
<1>12. k \in 1..k
  BY <1>1
<1> QED
  BY <1>1, <1>4, <1>6, <1>7, <1>9, <1>10, <1>11, <1>12

\* The invariant implies the property.
LEMMA IInvIsSound ==
  ASSUME IInv
  PROVE  LayoutIsSound
<1> SUFFICES ASSUME ~Collision, NEW m \in Messages, Registered(m),
                    NEW n, n = LVMessageName(m), NEW k, k = Len(Fields(m))
             PROVE  LET offset(i) == metadata[n]._elements[i].clusterOffset
                        after(i) == offset(i) + FieldSize(Fields(m)[i])
                    IN
                    /\ metadata[n].clusterSize # 0 =>
                          /\ offset(1) = 0
                          /\ \A i \in 1..k :
                                offset(i) % FieldAlignment(Fields(m)[i]) = 0
                          /\ \A i \in 2..k : offset(i) - after(i - 1)
                                \in 0..(FieldAlignment(Fields(m)[i]) - 1)
                          /\ metadata[n].clusterSize - after(k)
                                \in 0..(metadata[n].alignmentRequirement - 1)
                          /\ \A i \in 1..k : metadata[n].clusterSize
                                % FieldAlignment(Fields(m)[i]) = 0
                    /\ k > 0 /\ (\E t \in Finalizers : thread[t].at = "done")
                          => metadata[n].clusterSize # 0
  BY DEF LayoutIsSound, Of
<1>1. /\ TypeInv /\ RegisteredInv /\ \A x \in DOMAIN metadata : LaidOut(x)
      /\ \A t \in Finalizers : StackInv(t) /\ LoopInv(t)
      /\ n \in DOMAIN metadata
  BY DEF IInv, Registered
<1>2. m \in Collected /\ ElementsOf(n, m)
  <2>1. PICK x \in Collected : ElementsOf(n, x)
    BY <1>1 DEF RegisteredInv
  <2>2. x \in Messages /\ LVMessageName(x) = n
    BY <1>1, <2>1, CollectedAreDeclared DEF ElementsOf, TypeInv
  <2> QED
    BY <2>1, <2>2 DEF Collision
<1>3. Count(n) = k
  BY <1>2 DEF ElementsOf
<1>4. \A i \in 1..k : /\ FieldSize(Fields(m)[i]) = ElementSize(n, i)
                      /\ FieldAlignment(Fields(m)[i]) = ElementAlignment(n, i)
  BY <1>1, <1>2, <1>3, FieldIsElement
<1>5. \A i : metadata[n]._elements[i].clusterOffset = Offset(n, i)
  BY DEF Offset, El
<1>6. ASSUME metadata[n].clusterSize # 0
      PROVE  /\ Offset(n, 1) = 0
             /\ \A i \in 1..k : Offset(n, i) % FieldAlignment(Fields(m)[i]) = 0
             /\ \A i \in 2..k :
                   Offset(n, i) - (Offset(n, i - 1) + FieldSize(Fields(m)[i - 1]))
                      \in 0..(FieldAlignment(Fields(m)[i]) - 1)
             /\ metadata[n].clusterSize - (Offset(n, k) + FieldSize(Fields(m)[k]))
                   \in 0..(metadata[n].alignmentRequirement - 1)
             /\ \A i \in 1..k :
                   metadata[n].clusterSize % FieldAlignment(Fields(m)[i]) = 0
  <2>1. k \in Nat \ {0}
    BY <1>1, <1>3, <1>6, LaidOutIsSound
  <2>2. /\ k \in 1..k /\ \A i \in 2..k : i \in 1..k /\ i - 1 \in 1..k
    BY <2>1
  <2> QED
    BY <1>1, <1>3, <1>4, <1>6, <2>2, LaidOutIsSound
<1>7. ASSUME k > 0, NEW t \in Finalizers, thread[t].at = "done"
      PROVE  metadata[n].clusterSize # 0
  <2>1. thread[t].todo = {} /\ Frames(t) = {}
    BY <1>1, <1>7 DEF StackInv, LoopInv, Frames, ToSet
  <2>2. ~NeedsLayout(n)
    BY <1>1, <1>7, <2>1 DEF LoopInv
  <2>3. metadata[n]._elements = <<>> => Count(n) = 0
    BY DEF Count
  <2> QED
    BY <1>3, <1>7, <2>2, <2>3 DEF NeedsLayout
<1> QED
  BY <1>5, <1>6, <1>7

----------------------------------------------------------------------------
(* The theorems *)

\* The invariant holds in every reachable state.
THEOREM IInvInvariant == Spec => []IInv
<1>1. Init => IInv
  BY IInvInit
<1>2. IInv /\ [Next]_vars => IInv'
  BY IInvStep
<1> QED
  BY <1>1, <1>2, PTL DEF Spec

\* Whatever .proto file is imported and however many threads finalize it at the
\* same time, a layout that a thread may use is LabVIEW's layout of the cluster,
\* and when FinalizeMetadata returns every message has one
\* (message_element_metadata_owner.cc:145).
THEOREM LayoutAlwaysSound == Spec => []LayoutIsSound
<1>1. IInv => LayoutIsSound
  BY IInvIsSound
<1> QED
  BY <1>1, IInvInvariant, PTL

\* The layout fails only on messages that contain themselves, on fields that are
\* messages without fields, or on names that collide, with as many messages as
\* the stack has room for (message_element_metadata_owner.cc:168).
THEOREM CrashOnlyOnMalformed == Spec => []CrashOnlyIfMalformed
<1>1. IInv => CrashOnlyIfMalformed
  BY DEF IInv
<1> QED
  BY <1>1, IInvInvariant, PTL
=============================================================================
