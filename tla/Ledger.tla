------------------------------- MODULE Ledger -------------------------------
(***************************************************************************)
(* What the outbox of stattii promises about the messages the service owes *)
(* (ARCHITECTURE.md, "Delivery semantics"): a message is owed from the     *)
(* moment it is accepted until a channel proves delivery, then it is       *)
(* proven, and only a proven message is ever archived.  Ids are never      *)
(* reused and an archived message does not come back.  Only a crash while  *)
(* the last save failed may forget what happened since the last good one.  *)
(***************************************************************************)
EXTENDS Integers

VARIABLES
  owed,     \* accepted and not proven
  proven,   \* delivery proven, not yet archived
  known,    \* ids ever given out are 1..known
  durable   \* the disk holds all of this

vars == <<owed, proven, known, durable>>

Init == owed = {} /\ proven = {} /\ known = 0 /\ durable = TRUE

\* One mutation of the service: new messages are accepted, deliveries proven,
\* proven messages archived; afterwards the save may have failed.
Record ==
  /\ known' \in Nat /\ known' >= known
  /\ owed \subseteq owed' \cup proven'
  /\ owed' \cap proven' = {}
  /\ owed' \subseteq owed \cup ((known + 1)..known')
  /\ (known + 1)..known' \subseteq owed'
  /\ proven' \subseteq proven \cup owed
  /\ durable' \in BOOLEAN

\* The process dies with a failed save behind it.
Forget ==
  /\ ~durable /\ durable'
  /\ owed' \subseteq 1..known /\ proven' \subseteq 1..known
  /\ owed' \cap proven' = {}
  /\ UNCHANGED known

Next == Record \/ Forget

Spec == Init /\ [][Next]_vars
=============================================================================
