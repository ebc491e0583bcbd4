-------------------------- MODULE MCTextOperations --------------------------
(* Small instances of TextOperations for TLC. *)
EXTENDS TextOperations, TLC

AllScopes == {"input", "files", "clipboard"}
\* Without text input, and without pasting.
SomePolicies == {AllScopes \ {"input"}, AllScopes \ {"clipboard"}}

Symmetry == Permutations(Handlers)
=============================================================================
