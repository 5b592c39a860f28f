------------------------------ MODULE MCPortal ------------------------------
(***************************************************************************)
(* Portal for TLC: persons are interchangeable, and no action reads what   *)
(* the last step was.                                                      *)
(***************************************************************************)
EXTENDS Portal, TLC

Symmetry == Permutations(Person)

Anonymous == <<state, portalVars>>
=============================================================================
