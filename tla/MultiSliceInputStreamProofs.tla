---------------------- MODULE MultiSliceInputStreamProofs ----------------------
(***************************************************************************)
(* The stream over slices implements the stream over the message, for any  *)
(* number of slices of any sizes.                                          *)
(***************************************************************************)
EXTENDS MultiSliceInputStream, TLAPS

\* The bounds of a buffer: natural numbers that do not descend.
LEMMA BoundsAscend ==
    ASSUME bounds \in Dumps, NEW i \in 0..NumSlices
    PROVE  /\ bounds[i] \in 0..MaxBytes
           /\ bounds[NumSlices] \in 0..MaxBytes
           /\ bounds[i] <= bounds[NumSlices]
           /\ bounds[0] = 0
           /\ i < NumSlices => /\ bounds[i + 1] \in 0..MaxBytes
                               /\ bounds[i] <= bounds[i + 1]
                               /\ bounds[i + 1] <= bounds[NumSlices]
BY SlicesAssumption DEF Dumps

\* The constructor of the stream establishes the invariant.
LEMMA InitStreamInv == Init => StreamInv
<1> SUFFICES ASSUME Init PROVE StreamInv OBVIOUS
<1>1. bounds \in Dumps BY DEF Init
<1>2. 0 \in 0..NumSlices BY SlicesAssumption
<1>3. /\ bounds[0] = 0
      /\ 0 < NumSlices => bounds[0 + 1] \in 0..MaxBytes
  BY <1>1, <1>2, BoundsAscend
<1>4. TypeOK BY <1>1, <1>2, SlicesAssumption DEF Init, TypeOK, NoData
<1>5. ByteCountIsPosition BY <1>3, SlicesAssumption DEF Init, ByteCountIsPosition, HasSlice, Size
<1>6. ChunkEndsHere /\ SkipIsExact BY DEF Init, ChunkEndsHere, SkipIsExact
<1> QED BY <1>4, <1>5, <1>6 DEF StreamInv

\* Every step of Next, BackUp and Skip keeps the invariant.
LEMMA NextStreamInv == StreamInv /\ [Next]_vars => StreamInv'
<1> SUFFICES ASSUME StreamInv, [Next]_vars PROVE StreamInv' OBVIOUS
<1> USE SlicesAssumption
<1>0. bounds \in Dumps /\ sliceIndex \in 0..NumSlices BY DEF StreamInv, TypeOK
<1>1. /\ bounds[sliceIndex] \in 0..MaxBytes
      /\ bounds[sliceIndex] <= bounds[NumSlices]
      /\ bounds[NumSlices] \in 0..MaxBytes
      /\ HasSlice => /\ bounds[sliceIndex + 1] \in 0..MaxBytes
                     /\ bounds[sliceIndex] <= bounds[sliceIndex + 1]
                     /\ bounds[sliceIndex + 1] <= bounds[NumSlices]
                     /\ sliceIndex + 1 \in 0..NumSlices
  BY <1>0, BoundsAscend DEF HasSlice
\* What the slice after the current one holds, for the steps that go there.
<1>2. HasSlice /\ sliceIndex + 1 < NumSlices =>
        bounds[sliceIndex + 2] \in 0..MaxBytes /\ bounds[sliceIndex + 1] <= bounds[sliceIndex + 2]
  <2> SUFFICES ASSUME HasSlice, sliceIndex + 1 < NumSlices
               PROVE  bounds[sliceIndex + 2] \in 0..MaxBytes
                      /\ bounds[sliceIndex + 1] <= bounds[sliceIndex + 2]
    OBVIOUS
  <2>1. sliceIndex + 1 \in 0..NumSlices /\ (sliceIndex + 1) + 1 = sliceIndex + 2 BY <1>0
  <2> QED BY <1>0, <2>1, BoundsAscend
<1>3. CASE CallNext
  BY <1>3 DEF StreamInv, TypeOK, ByteCountIsPosition, ChunkEndsHere, SkipIsExact, CallNext,
              HasSlice, Size
<1>4. CASE ReturnSlice
  <2>1. TypeOK'
    BY <1>0, <1>1, <1>4 DEF StreamInv, TypeOK, ReturnSlice, HasSlice, remaining, Size
  <2>2. ByteCountIsPosition'
    BY <1>0, <1>1, <1>2, <1>4
       DEF StreamInv, TypeOK, ByteCountIsPosition, ReturnSlice, HasSlice, remaining, Size
  <2>3. ChunkEndsHere' /\ SkipIsExact'
    BY <1>0, <1>1, <1>4
       DEF StreamInv, TypeOK, ChunkEndsHere, SkipIsExact, ReturnSlice, HasSlice, remaining, Size, NoData
  <2> QED BY <2>1, <2>2, <2>3 DEF StreamInv
<1>5. CASE SkipEmptySlice
  <2>1. TypeOK' /\ ChunkEndsHere' /\ SkipIsExact'
    BY <1>0, <1>1, <1>5
       DEF StreamInv, TypeOK, ChunkEndsHere, SkipIsExact, SkipEmptySlice, HasSlice
  <2>2. ByteCountIsPosition'
    BY <1>0, <1>1, <1>2, <1>5
       DEF StreamInv, TypeOK, ByteCountIsPosition, SkipEmptySlice, HasSlice, remaining, Size
  <2> QED BY <2>1, <2>2 DEF StreamInv
<1>6. CASE ReturnFalse
  BY <1>0, <1>6 DEF StreamInv, TypeOK, ByteCountIsPosition, ChunkEndsHere, SkipIsExact,
              ReturnFalse, HasSlice, Size, NoData
<1>7. CASE \E n \in 0..data.size : BackUp(n)
  <2> PICK n \in 0..data.size : BackUp(n) BY <1>7
  <2>1. /\ sliceIndex - 1 \in 0..NumSlices /\ sliceIndex - 1 < NumSlices
        /\ data.slice = sliceIndex - 1
        /\ data.offset + data.size = bounds[sliceIndex] - bounds[sliceIndex - 1]
        /\ byteCount = bounds[sliceIndex]
        /\ data.offset \in Nat /\ data.size \in Nat
        /\ (sliceIndex - 1) + 1 = sliceIndex
    BY <1>0, <1>1 DEF StreamInv, TypeOK, ChunkEndsHere, ByteCountIsPosition, BackUp, Size
  <2>2. bounds[sliceIndex - 1] \in 0..MaxBytes BY <1>0, <2>1, BoundsAscend
  <2>3. TypeOK'
    BY <1>0, <1>1, <2>1, <2>2 DEF StreamInv, TypeOK, BackUp, Size, NoData
  <2>4. ByteCountIsPosition'
    BY <1>0, <1>1, <2>1, <2>2 DEF StreamInv, TypeOK, ByteCountIsPosition, BackUp, HasSlice, Size
  <2>5. ChunkEndsHere' /\ SkipIsExact' BY DEF ChunkEndsHere, SkipIsExact, BackUp
  <2> QED BY <2>3, <2>4, <2>5 DEF StreamInv
<1>8. CASE \E n \in 0..(MaxBytes + 1) : CallSkip(n)
  BY <1>0, <1>8 DEF StreamInv, TypeOK, ByteCountIsPosition, ChunkEndsHere, SkipIsExact, CallSkip,
              HasSlice, Size
<1>9. CASE SkipWithinSlice
  BY <1>0, <1>1, <1>9 DEF StreamInv, TypeOK, ByteCountIsPosition, ChunkEndsHere, SkipIsExact,
              SkipWithinSlice, HasSlice, remaining, Size
<1>10. CASE SkipSlice
  <2>1. TypeOK' /\ ChunkEndsHere' /\ SkipIsExact'
    BY <1>0, <1>1, <1>10
       DEF StreamInv, TypeOK, ChunkEndsHere, SkipIsExact, ByteCountIsPosition, SkipSlice, HasSlice,
           remaining, Size
  <2>2. ByteCountIsPosition'
    BY <1>0, <1>1, <1>2, <1>10
       DEF StreamInv, TypeOK, ByteCountIsPosition, SkipSlice, HasSlice, remaining, Size
  <2> QED BY <2>1, <2>2 DEF StreamInv
<1>11. CASE ReturnSkipped
  BY <1>0, <1>11 DEF StreamInv, TypeOK, ByteCountIsPosition, ChunkEndsHere, SkipIsExact,
              ReturnSkipped, HasSlice, Size, NoData
<1>12. CASE UNCHANGED vars
  BY <1>12 DEF StreamInv, TypeOK, ByteCountIsPosition, ChunkEndsHere, SkipIsExact, vars,
              HasSlice, Size
<1> QED BY <1>3, <1>4, <1>5, <1>6, <1>7, <1>8, <1>9, <1>10, <1>11, <1>12 DEF Next

\* The stream never loses its place (Next, BackUp and Skip of
\* MultiSliceInputStream), for any number of slices.
THEOREM StreamInvHolds == Spec => []StreamInv
<1> QED BY InitStreamInv, NextStreamInv, PTL DEF Spec
------------------------------------------------------------------------------
\* A new stream over slices is a new stream over the message.
LEMMA InitRefines == Init => Stream!Init
<1> SUFFICES ASSUME Init PROVE Stream!Init OBVIOUS
<1>1. bounds \in Dumps /\ NumSlices \in 0..NumSlices BY SlicesAssumption DEF Init
<1>2. bounds[NumSlices] \in 0..MaxBytes BY <1>1, BoundsAscend
<1> QED BY <1>2 DEF Init, Stream!Init, Stream!NoChunk, NoData

\* A step of the slices is one operation of the message's stream or none.
LEMMA NextRefines == StreamInv /\ [Next]_vars => [Stream!Next]_(Stream!streamVars)
<1> SUFFICES ASSUME StreamInv, [Next]_vars PROVE [Stream!Next]_(Stream!streamVars) OBVIOUS
<1> USE SlicesAssumption
<1>0. bounds \in Dumps /\ sliceIndex \in 0..NumSlices BY DEF StreamInv, TypeOK
<1>1. /\ bounds[sliceIndex] \in 0..MaxBytes
      /\ bounds[sliceIndex] <= bounds[NumSlices]
      /\ bounds[NumSlices] \in 0..MaxBytes
      /\ HasSlice => /\ bounds[sliceIndex + 1] \in 0..MaxBytes
                     /\ bounds[sliceIndex + 1] <= bounds[NumSlices]
  BY <1>0, BoundsAscend DEF HasSlice
<1>2. CASE CallNext BY <1>2 DEF CallNext, Stream!streamVars
<1>3. CASE ReturnSlice
  <2>1. Stream!Deliver
    <3> DEFINE to == byteCount + remaining
    <3>1. to \in (byteCount + 1)..bounds[NumSlices]
      BY <1>0, <1>1, <1>3 DEF StreamInv, TypeOK, ByteCountIsPosition, ReturnSlice, HasSlice, remaining, Size
    <3>2. /\ data' # NoData
          /\ bounds[data.slice]' + data.offset' = byteCount
          /\ bounds[data.slice]' + data.offset' + data.size' = to
      BY <1>0, <1>1, <1>3 DEF StreamInv, TypeOK, ByteCountIsPosition, ReturnSlice, HasSlice, remaining, Size, NoData
    <3> QED BY <3>1, <3>2, <1>3 DEF Stream!Deliver, ReturnSlice, NoData
  <2> QED BY <2>1 DEF Stream!Next
<1>4. CASE SkipEmptySlice BY <1>4 DEF SkipEmptySlice, Stream!streamVars
<1>5. CASE ReturnFalse
  <2>1. byteCount = bounds[NumSlices]
    BY <1>0, <1>1, <1>5 DEF StreamInv, TypeOK, ByteCountIsPosition, ReturnFalse, HasSlice
  <2>2. Stream!EndOfStream BY <2>1, <1>5 DEF Stream!EndOfStream, Stream!NoChunk, ReturnFalse, NoData
  <2> QED BY <2>2 DEF Stream!Next
<1>6. CASE \E n \in 0..data.size : BackUp(n)
  <2> PICK n \in 0..data.size : BackUp(n) BY <1>6
  <2> DEFINE from == bounds[data.slice] + data.offset
  <2>1. /\ data # NoData /\ data.size > 0 /\ data.size \in Nat /\ data.offset \in Nat
        /\ data.slice = sliceIndex - 1 /\ sliceIndex - 1 \in 0..NumSlices
    BY <1>0 DEF StreamInv, TypeOK, ChunkEndsHere, BackUp
  <2>2. from \in Nat BY <1>0, <2>1, BoundsAscend
  <2>3. n \in 0..((from + data.size) - from) BY <2>1, <2>2
  <2>4. [from |-> from, to |-> from + data.size] # [from |-> 0, to |-> 0] BY <2>1, <2>2
  <2>5. Stream!GiveBack
    BY <2>1, <2>3, <2>4 DEF Stream!GiveBack, Stream!NoChunk, BackUp, NoData
  <2> QED BY <2>5 DEF Stream!Next
<1>7. CASE \E n \in 0..(MaxBytes + 1) : CallSkip(n)
  BY <1>7 DEF CallSkip, Stream!streamVars
<1>8. CASE SkipWithinSlice BY <1>8 DEF SkipWithinSlice, Stream!streamVars
<1>9. CASE SkipSlice BY <1>9 DEF SkipSlice, Stream!streamVars
<1>10. CASE ReturnSkipped
  <2> DEFINE n == byteCount - entry + count
  <2>1. n \in 0..(MaxBytes + 1)
    BY <1>10 DEF StreamInv, TypeOK, SkipIsExact, ReturnSkipped
  <2>2. /\ byteCount <= bounds[NumSlices]
        /\ ~HasSlice => byteCount = bounds[NumSlices]
    BY <1>0, <1>1 DEF StreamInv, TypeOK, ByteCountIsPosition, HasSlice, Size
  <2>3. /\ byteCount = IF entry + n <= bounds[NumSlices] THEN entry + n ELSE bounds[NumSlices]
        /\ (count = 0) = (entry + n <= bounds[NumSlices])
    BY <1>1, <1>10, <2>2 DEF StreamInv, TypeOK, ReturnSkipped
  <2>4. Stream!PassOver
    BY <1>10, <2>1, <2>3 DEF Stream!PassOver, Stream!NoChunk, ReturnSkipped, NoData
  <2> QED BY <2>4 DEF Stream!Next
<1>11. CASE UNCHANGED vars BY <1>11 DEF vars, Stream!streamVars
<1> QED BY <1>2, <1>3, <1>4, <1>5, <1>6, <1>7, <1>8, <1>9, <1>10, <1>11 DEF Next

\* MultiSliceInputStream implements ByteStream: parsing the slices of a buffer in
\* place is parsing the message they hold.
THEOREM MultiSliceImplementsByteStream == Spec => ImplementsByteStream
<1>1. Init => Stream!Init BY InitRefines
<1>2. StreamInv /\ [Next]_vars => [Stream!Next]_(Stream!streamVars) BY NextRefines
<1> QED BY <1>1, <1>2, StreamInvHolds, PTL DEF Spec, ImplementsByteStream, Stream!Spec
=============================================================================
