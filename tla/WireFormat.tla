------------------------------ MODULE WireFormat ------------------------------
(***************************************************************************)
(* The parts of protobuf's CodedInputStream, CodedOutputStream and         *)
(* WireFormatLite that src/src uses: varints, little-endian words, zigzag, *)
(* tags, and the sizes the library predicts for them.  Bytes are real      *)
(* bytes; the two integer widths are scaled down to W32 and W64 bits, so   *)
(* truncation, sign extension and the longest varint happen at the same    *)
(* places as with 32 and 64 bits.  A reader gets the bytes, the position   *)
(* of the next byte and the current limit (the last position it may        *)
(* touch), and returns whether it succeeded, the value and the position.   *)
(***************************************************************************)
EXTENDS Integers, Sequences, FiniteSets, FiniteSetsExt

CONSTANTS
    W32,    \* bits of a uint32_t, a multiple of 8
    W64     \* bits of a uint64_t, a larger one

ASSUME WidthsAssumption ==
    /\ W32 \in Nat /\ W64 \in Nat /\ 0 < W32 /\ W32 < W64
    /\ W32 % 8 = 0 /\ W64 % 8 = 0

\* Power(b)[n] is b to the power n: Power(2)[w] is 1 << w.
Power(b) == LET P[n \in Nat] == IF n = 0 THEN 1 ELSE b * P[n - 1] IN P

WireVarint == 0
WireFixed64 == 1
WireLengthDelimited == 2
WireStartGroup == 3
WireEndGroup == 4
WireFixed32 == 5

Unsigned(v, w) == v % Power(2)[w]
Signed(u, w) == IF u < Power(2)[w - 1] THEN u ELSE u - Power(2)[w]

ZigZagEncode(v) == IF v >= 0 THEN 2 * v ELSE -2 * v - 1
ZigZagDecode(u) == IF u % 2 = 0 THEN u \div 2 ELSE -((u + 1) \div 2)

\* The longest varint the library reads or writes (10 bytes for 64 bits).
MaxVarintBytes == (W64 + 6) \div 7

\* CodedOutputStream::VarintSize32/64: how many groups of 7 bits u takes.
VarintSize(u) == Min({MaxVarintBytes} \cup {n \in 1..MaxVarintBytes : u < Power(128)[n]})

\* The i-th digit of u in base b, from the lowest.
Digit(u, b, i) == (u \div Power(b)[i - 1]) % b

WriteVarint(u) == LET n == VarintSize(u) IN
    [i \in 1..n |-> Digit(u, 128, i) + (IF i < n THEN 128 ELSE 0)]

WriteLittleEndian(u, w) == [i \in 1..(w \div 8) |-> Digit(u, 256, i)]

MakeTag(num, wt) == num * 8 + wt
WriteTag(num, wt) == WriteVarint(MakeTag(num, wt))
TagSize(num) == VarintSize(MakeTag(num, WireVarint))
WriteLengthDelimited(num, bytes) ==
    WriteTag(num, WireLengthDelimited) \o WriteVarint(Len(bytes)) \o bytes

Failed(p) == [ok |-> FALSE, v |-> 0, p |-> p]
Got(v, p) == [ok |-> TRUE, v |-> v, p |-> p]

\* The sum of a sequence, and its elements one after the other.
SumOf(s) == LET S[i \in 0..Len(s)] == IF i = 0 THEN 0 ELSE S[i - 1] + s[i]
            IN S[Len(s)]
Concat(s) == LET C[i \in 0..Len(s)] == IF i = 0 THEN <<>> ELSE C[i - 1] \o s[i]
             IN C[Len(s)]

\* The number with the digits f.
Positional(f, base) == SumOf([i \in 1..Len(f) |-> f[i] * Power(base)[i - 1]])

\* n bytes can be read at p: neither the current limit nor the end is in between.
Readable(in, p, n, lim) == p + n - 1 <= lim /\ p + n - 1 <= Len(in)

\* PushLimit: an inner limit never reaches past the outer one.
PushLimit(p, n, lim) == IF p + n - 1 < lim THEN p + n - 1 ELSE lim

\* The limit of a stream on which PushLimit was not called.
NoLimit == 2^28

\* ReadVarint32 and ReadVarint64: at most MaxVarintBytes bytes, the bits that
\* do not fit into w are dropped.
GroupsAt(in, p, n) == [i \in 1..n |-> in[p + i - 1] % 128]
VarintAt(in, p, ends, w) == IF ends = {} THEN Failed(p)
    ELSE Got(Unsigned(Positional(GroupsAt(in, p, Min(ends)), 128), w), p + Min(ends))
ReadVarint(in, p, lim, w) == VarintAt(in, p,
    {n \in 1..MaxVarintBytes : Readable(in, p, n, lim) /\ in[p + n - 1] < 128}, w)

\* ReadLittleEndian32 and ReadLittleEndian64.
ReadLittleEndian(in, p, lim, w) == LET n == w \div 8 IN
    IF ~Readable(in, p, n, lim) THEN Failed(p)
    ELSE Got(Positional(SubSeq(in, p, p + n - 1), 256), p + n)

\* ReadVarint32 for the length, then ReadString.
BytesAfter(in, n, lim) ==
    IF ~n.ok \/ ~Readable(in, n.p, n.v, lim) THEN Failed(n.p)
    ELSE Got(SubSeq(in, n.p, n.p + n.v - 1), n.p + n.v)
ReadLengthDelimited(in, p, lim) == BytesAfter(in, ReadVarint(in, p, lim, W32), lim)

\* ReadTag: 0 at a limit, at the end and for a tag that cannot be read.  A tag that
\* the limit or the end cuts off is consumed, one that is too long is not.
AfterBadTag(in, p, lim) ==
    IF Readable(in, p, MaxVarintBytes, lim) THEN p ELSE Min({lim, Len(in)}) + 1
OrZero(t, p) == IF t.ok THEN t ELSE Got(0, p)
ReadTag(in, p, lim) == OrZero(ReadVarint(in, p, lim, W32), AfterBadTag(in, p, lim))
=============================================================================
