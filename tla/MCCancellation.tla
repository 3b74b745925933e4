--------------------------- MODULE MCCancellation ---------------------------
(* Instances of Cancellation for TLC. *)
EXTENDS Cancellation

CONSTANTS a, b

Alone == {a}
Both == {a, b}
Symmetry == Permutations(Both)
=============================================================================
