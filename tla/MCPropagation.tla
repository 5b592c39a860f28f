--------------------------- MODULE MCPropagation ---------------------------
(***************************************************************************)
(* Propagation for TLC: targets are interchangeable.                       *)
(***************************************************************************)
EXTENDS Propagation, TLC

Symmetry == Permutations(Target)
=============================================================================
