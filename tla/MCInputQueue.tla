---------------------------- MODULE MCInputQueue ----------------------------
(* Small instances of InputQueue for TLC. *)
EXTENDS InputQueue, TLC

Symmetry == Permutations(Threads)
=============================================================================
