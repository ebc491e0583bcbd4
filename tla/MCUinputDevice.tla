--------------------------- MODULE MCUinputDevice ---------------------------
(* Small instances of UinputDevice for TLC. *)
EXTENDS UinputDevice

Symmetry == Permutations(Contacts)
=============================================================================
