------------------------- MODULE MultiSliceInputStream -------------------------
(***************************************************************************)
(* MultiSliceInputStream (lv_message.cc): the parser's stream over the     *)
(* slices of a grpc::ByteBuffer.  Slice i holds the bytes bounds[i] + 1 .. *)
(* bounds[i + 1] of the message; slices may be empty.  The loops of Next   *)
(* and Skip take one step per slice.                                       *)
(***************************************************************************)
EXTENDS Integers

CONSTANTS
    NumSlices,  \* slices of the buffer
    MaxBytes    \* bound: bytes of the buffer

ASSUME SlicesAssumption == NumSlices \in Nat /\ MaxBytes \in Nat

VARIABLES
    bounds,         \* _slices, by where each begins; bounds[NumSlices] is the end
    sliceIndex,     \* _sliceIndex
    offsetInSlice,  \* _offsetInSlice
    byteCount,      \* _byteCount
    call,           \* "idle", or the operation whose loop is running
    count,          \* Skip's count
    entry,          \* history: _byteCount when the running Skip was called
    data,           \* *data and *size of the last Next: [slice, offset, size]
    ok              \* what the last operation returned

vars == <<bounds, sliceIndex, offsetInSlice, byteCount, call, count, entry, data, ok>>

\* What Dump may give: an ascending sequence of bounds.
Dumps == {b \in [0..NumSlices -> 0..MaxBytes] :
            b[0] = 0 /\ \A i, j \in 0..NumSlices : i <= j => b[i] <= b[j]}

Size(i) == bounds[i + 1] - bounds[i]
NoData == [slice |-> 0, offset |-> 0, size |-> 0]

Init ==
    /\ bounds \in Dumps
    /\ sliceIndex = 0
    /\ offsetInSlice = 0
    /\ byteCount = 0
    /\ call = "idle"
    /\ count = 0
    /\ entry = 0
    /\ data = NoData
    /\ ok = TRUE
------------------------------------------------------------------------------
HasSlice == sliceIndex < NumSlices
remaining == Size(sliceIndex) - offsetInSlice

CallNext ==
    /\ call = "idle"
    /\ call' = "next"
    /\ UNCHANGED <<bounds, sliceIndex, offsetInSlice, byteCount, count, entry, data, ok>>

\* Next: the rest of the slice, and on to the following one.
ReturnSlice ==
    /\ call = "next" /\ HasSlice /\ remaining > 0
    /\ data' = [slice |-> sliceIndex, offset |-> offsetInSlice, size |-> remaining]
    /\ byteCount' = byteCount + remaining
    /\ sliceIndex' = sliceIndex + 1
    /\ offsetInSlice' = 0
    /\ ok' = TRUE
    /\ call' = "idle"
    /\ UNCHANGED <<bounds, count, entry>>

\* Next: an empty slice or one that is used up.
SkipEmptySlice ==
    /\ call = "next" /\ HasSlice /\ remaining <= 0
    /\ sliceIndex' = sliceIndex + 1
    /\ offsetInSlice' = 0
    /\ UNCHANGED <<bounds, byteCount, call, count, entry, data, ok>>

\* Next: no slice is left.
ReturnFalse ==
    /\ call = "next" /\ ~HasSlice
    /\ ok' = FALSE
    /\ data' = NoData
    /\ call' = "idle"
    /\ UNCHANGED <<bounds, sliceIndex, offsetInSlice, byteCount, count, entry>>

\* Mutant: the slice is not taken back.
BackUp_KeepsSlice(n) ==
    /\ call = "idle" /\ data # NoData
    /\ byteCount' = byteCount - n
    /\ offsetInSlice' = IF HasSlice THEN Size(sliceIndex) - n ELSE 0
    /\ data' = NoData
    /\ ok' = TRUE
    /\ UNCHANGED <<bounds, sliceIndex, call, count, entry>>

\* BackUp, called as ZeroCopyInputStream demands: after a Next that succeeded,
\* with at most the size it returned.
BackUp(n) ==
    /\ call = "idle" /\ data # NoData
    /\ byteCount' = byteCount - n
    /\ sliceIndex' = sliceIndex - 1
    /\ offsetInSlice' = Size(sliceIndex - 1) - n
    /\ data' = NoData
    /\ ok' = TRUE
    /\ UNCHANGED <<bounds, call, count, entry>>

CallSkip(n) ==
    /\ call = "idle"
    /\ call' = "skip"
    /\ count' = n
    /\ entry' = byteCount
    /\ UNCHANGED <<bounds, sliceIndex, offsetInSlice, byteCount, data, ok>>

\* Skip: the bytes end within this slice.
SkipWithinSlice ==
    /\ call = "skip" /\ count > 0 /\ HasSlice /\ count < remaining
    /\ offsetInSlice' = offsetInSlice + count
    /\ byteCount' = byteCount + count
    /\ count' = 0
    /\ UNCHANGED <<bounds, sliceIndex, call, entry, data, ok>>

\* Mutant: the offset is not reset.
SkipSlice_KeepsOffset ==
    /\ call = "skip" /\ count > 0 /\ HasSlice /\ count >= remaining
    /\ byteCount' = byteCount + remaining
    /\ count' = count - remaining
    /\ sliceIndex' = sliceIndex + 1
    /\ UNCHANGED <<bounds, offsetInSlice, call, entry, data, ok>>

\* Skip: all that is left of this slice.
SkipSlice ==
    /\ call = "skip" /\ count > 0 /\ HasSlice /\ count >= remaining
    /\ byteCount' = byteCount + remaining
    /\ count' = count - remaining
    /\ sliceIndex' = sliceIndex + 1
    /\ offsetInSlice' = 0
    /\ UNCHANGED <<bounds, call, entry, data, ok>>

ReturnSkipped ==
    /\ call = "skip" /\ (count = 0 \/ ~HasSlice)
    /\ ok' = (count = 0)
    /\ data' = NoData
    /\ call' = "idle"
    /\ UNCHANGED <<bounds, sliceIndex, offsetInSlice, byteCount, count, entry>>

Next ==
    \/ CallNext \/ ReturnSlice \/ SkipEmptySlice \/ ReturnFalse
    \/ \E n \in 0..data.size : BackUp(n)
    \/ \E n \in 0..(MaxBytes + 1) : CallSkip(n)
    \/ SkipWithinSlice \/ SkipSlice \/ ReturnSkipped

Spec == Init /\ [][Next]_vars
------------------------------------------------------------------------------
(* Properties.                                                             *)

TypeOK ==
    /\ bounds \in Dumps
    /\ sliceIndex \in 0..NumSlices
    /\ offsetInSlice \in Nat
    /\ byteCount \in Nat
    /\ call \in {"idle", "next", "skip"}
    /\ count \in 0..(MaxBytes + 1)
    /\ entry \in Nat
    /\ data \in [slice : Nat, offset : Nat, size : Nat]
    /\ ok \in BOOLEAN

\* ByteCount is where the stream stands: the bound of the current slice plus the
\* offset into it, which lies within the slice.
ByteCountIsPosition ==
    /\ byteCount = bounds[sliceIndex] + offsetInSlice
    /\ IF HasSlice THEN offsetInSlice <= Size(sliceIndex) ELSE offsetInSlice = 0

\* A chunk that can be backed up into is the one Next returned last: it ends
\* where the stream stands, at the end of the slice before the current one.
ChunkEndsHere ==
    data # NoData /\ call # "skip" => data.size > 0 /\ (call = "idle" =>
        /\ sliceIndex = data.slice + 1
        /\ offsetInSlice = 0
        /\ data.offset + data.size = Size(data.slice))

\* A running Skip began behind the stream and was asked for what it has passed
\* over and what is left.
SkipIsExact ==
    call = "skip" => entry <= byteCount /\ byteCount - entry + count <= MaxBytes + 1

\* The stream never loses its place: in any order of Next, BackUp and Skip, in the
\* middle of their loops too, ByteCount, the slice index and the offset agree, and
\* what BackUp and Skip rely on is true when they run.
StreamInv == TypeOK /\ ByteCountIsPosition /\ ChunkEndsHere /\ SkipIsExact

\* The stream over the slices implements the stream over the message: Next,
\* BackUp and Skip deliver each byte once and in order, across empty slices and
\* slices that end in the middle of a field.
Stream == INSTANCE ByteStream WITH
    total <- bounds[NumSlices],
    pos <- IF call = "skip" THEN entry ELSE byteCount,
    chunk <- IF data = NoData THEN [from |-> 0, to |-> 0]
             ELSE [from |-> bounds[data.slice] + data.offset,
                   to |-> bounds[data.slice] + data.offset + data.size]

ImplementsByteStream == Stream!Spec
=============================================================================
