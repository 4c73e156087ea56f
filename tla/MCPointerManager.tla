--------------------------- MODULE MCPointerManager ---------------------------
(* Instances of PointerManager for TLC. *)
EXTENDS PointerManager, TLC

CONSTANTS o1, o2, o3

\* o1 and o3 are of one class (a call, say), o2 of another (a session).
MCTypesOf == o1 :> {"Call"} @@ o2 :> {"Session"} @@ o3 :> {"Call"}

Symmetry == Permutations(Addrs) \cup Permutations(Threads)
=============================================================================
