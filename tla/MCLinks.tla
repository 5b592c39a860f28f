------------------------------ MODULE MCLinks ------------------------------
(***************************************************************************)
(* Links for TLC: persons are interchangeable, and no action reads what    *)
(* the last step answered.                                                 *)
(***************************************************************************)
EXTENDS Links, TLC

Symmetry == Permutations(Person) \cup Permutations(Event)

Unanswered == <<state, mailed, dead, hadTelegram>>
=============================================================================
