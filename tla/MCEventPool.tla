---------------------------- MODULE MCEventPool -----------------------------
(* The threads of EventPool differ by name only. *)
EXTENDS EventPool, TLC

Symmetry == Permutations(Threads)
=============================================================================
