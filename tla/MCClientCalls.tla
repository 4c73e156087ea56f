---------------------------- MODULE MCClientCalls ----------------------------
(* Instances of ClientCalls for TLC. *)
EXTENDS ClientCalls, TLC

\* ClientCall objects and LabVIEW threads are interchangeable.
Symmetry == Permutations(Calls) \cup Permutations(Threads)
=============================================================================
