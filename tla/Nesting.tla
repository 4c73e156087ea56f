-------------------------------- MODULE Nesting --------------------------------
(***************************************************************************)
(* A computation over something that has parts of its own kind: a message  *)
(* with messages in it, a cluster with clusters in it.  The code recurs;   *)
(* here the result of x is what Do makes of x and of the results of the    *)
(* parts of x.  MaxNesting bounds how deep parts have parts.               *)
(***************************************************************************)
EXTENDS Naturals

CONSTANTS
    Parts(_),       \* the parts of x
    Do(_, _),       \* the result of x, given the results of its parts
    MaxNesting      \* bound: how deep parts have parts

\* x, its parts, their parts, and so on.
Levels(x) ==
    LET L[i \in Nat] == IF i = 0 THEN {x} ELSE UNION {Parts(y) : y \in L[i - 1]} IN L
Within(x) == UNION {Levels(x)[i] : i \in 0..MaxNesting}

\* No parts are deeper than the bound.
Bounded(x) == Levels(x)[MaxNesting + 1] = {}

Descend(x) ==
    LET result[y \in Within(x)] == Do(y, [z \in Parts(y) |-> result[z]])
    IN result[x]
=============================================================================
