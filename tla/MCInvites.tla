------------------------------ MODULE MCInvites ------------------------------
(***************************************************************************)
(* Invites for TLC: names, addresses and guest ids are interchangeable.    *)
(***************************************************************************)
EXTENDS Invites

Symmetry == Permutations(Name) \cup Permutations(Address) \cup Permutations(GuestId)
=============================================================================
