-------------------------- MODULE MCFileTransfers --------------------------
(* Small instances of FileTransfers for TLC. *)
EXTENDS FileTransfers, TLC

\* Neither files nor the clipboard.
InputOnly == {{"input"}}

Symmetry == Permutations(Handlers)
=============================================================================
