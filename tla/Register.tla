------------------------------ MODULE Register ------------------------------
(***************************************************************************)
(* What the service expects of its store: a register that holds the state  *)
(* of some mutation, whole.  A write that is under way or failed may or    *)
(* may not have taken effect; one that was acknowledged is what every      *)
(* restart finds.                                                          *)
(***************************************************************************)
EXTENDS Naturals

VARIABLES
  value,      \* the state in memory, by the number of its last mutation
  possible,   \* the states a restart may find
  saved       \* the state in memory was acknowledged

vars == <<value, possible, saved>>

Init == value = 0 /\ possible = {0} /\ saved = TRUE

\* An acknowledged state is the only one there is.
Durable == saved' => possible' = {value'}

Mutate ==
  /\ value' \in Nat /\ value' > value
  /\ possible' = possible /\ Durable

\* A write makes progress, is acknowledged or fails.
Write ==
  /\ value' = value
  /\ possible' \subseteq possible \cup {value} /\ possible' # {}
  /\ Durable

\* The process ends; the next one starts from what it finds.
Restart ==
  /\ value' \in possible'
  /\ possible' \subseteq possible
  /\ Durable

Next == Mutate \/ Write \/ Restart

Spec == Init /\ [][Next]_vars
=============================================================================
