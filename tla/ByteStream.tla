------------------------------ MODULE ByteStream ------------------------------
(***************************************************************************)
(* What a ZeroCopyInputStream promises the parser: the bytes of a message  *)
(* one after the other, none twice and none left out, whatever chunks they *)
(* come in.  Nothing is said about slices.                                 *)
(***************************************************************************)
EXTENDS Naturals

CONSTANT MaxBytes   \* bound: length of a message

VARIABLES
    total,  \* length of the message
    pos,    \* bytes delivered or skipped
    chunk,  \* the bytes the last operation delivered: from + 1 .. to
    ok      \* what the last operation returned

streamVars == <<total, pos, chunk, ok>>

NoChunk == [from |-> 0, to |-> 0]

Init ==
    /\ total \in 0..MaxBytes
    /\ pos = 0
    /\ chunk = NoChunk
    /\ ok = TRUE

\* Next delivers at least one byte, the first of them the next one.
Deliver ==
    \E to \in (pos + 1)..total :
        /\ chunk' = [from |-> pos, to |-> to]
        /\ pos' = to
        /\ ok' = TRUE
        /\ UNCHANGED total

\* Next fails at the end, and only there.
EndOfStream ==
    /\ pos = total
    /\ chunk' = NoChunk
    /\ ok' = FALSE
    /\ UNCHANGED <<total, pos>>

\* The last bytes of the chunk just delivered will be delivered again.
GiveBack ==
    \E count \in 0..(chunk.to - chunk.from) :
        /\ chunk # NoChunk
        /\ pos' = pos - count
        /\ chunk' = NoChunk
        /\ ok' = TRUE
        /\ UNCHANGED total

\* Skip moves over exactly count bytes or, if there are fewer, to the end.
PassOver ==
    \E count \in 0..(MaxBytes + 1) :
        /\ pos' = IF pos + count <= total THEN pos + count ELSE total
        /\ ok' = (pos + count <= total)
        /\ chunk' = NoChunk
        /\ UNCHANGED total

Next == Deliver \/ EndOfStream \/ GiveBack \/ PassOver

Spec == Init /\ [][Next]_streamVars
=============================================================================
