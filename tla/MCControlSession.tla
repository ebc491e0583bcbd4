-------------------------- MODULE MCControlSession --------------------------
(* Small instances of ControlSession for TLC. *)
EXTENDS ControlSession, TLC

\* Input is taken away and given back.
InputOrNot == {{"files"}, {"files", "input"}}

Symmetry == Permutations(Connections)
=============================================================================
