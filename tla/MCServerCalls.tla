---------------------------- MODULE MCServerCalls ----------------------------
(* Instances of ServerCalls for TLC. *)
EXTENDS ServerCalls, TLC

\* CallData objects and LabVIEW threads are interchangeable.
Symmetry == Permutations(Calls) \cup Permutations(Threads)
=============================================================================
