------------------------------ MODULE MCOutbox ------------------------------
(***************************************************************************)
(* Outbox for TLC.  Recipients are interchangeable as long as none of them *)
(* is the admin, and passes as long as nothing is said about the scheduler *)
(* in particular (no fairness).                                            *)
(***************************************************************************)
EXTENDS Outbox, TLC

RecipientSymmetry == Permutations(Recipient)
PassSymmetry == Permutations(Pass)
Symmetry == RecipientSymmetry \cup PassSymmetry
=============================================================================
