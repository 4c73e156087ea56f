-------------------------- MODULE MCServerLifecycle --------------------------
(* Instances of ServerLifecycle for TLC. *)
EXTENDS ServerLifecycle, TLC

\* Servers and LabVIEW threads are interchangeable.
Symmetry == Permutations(Servers) \cup Permutations(Threads)
=============================================================================
