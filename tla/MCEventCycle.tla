---------------------------- MODULE MCEventCycle ----------------------------
(***************************************************************************)
(* EventCycle for TLC: persons are interchangeable.  No action reads what  *)
(* the last step queued, so states that differ only there have the same    *)
(* successors; TLC still looks at it in every step it takes.               *)
(***************************************************************************)
EXTENDS EventCycleTimely, TLC

Symmetry == Permutations(Person)

Unqueued == <<now, event, assigned, channel, answeredAt, history, ticked, timely>>
=============================================================================
