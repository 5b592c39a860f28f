-------------------------- MODULE OutboxAuditFault --------------------------
(***************************************************************************)
(* Outbox when audit.jsonl cannot be written at the moment a pass books    *)
(* its results.  recordDeliveries looks a row up, then writes the audit    *)
(* entry, then assigns through the pointer it looked up.  If that entry    *)
(* fails, auditLocked pages the admin, which appends to the outbox; when   *)
(* the append moves the slice, the assignments land in the old array.      *)
(* collectOutboxLocked avoids exactly this by paging after its loop.       *)
(***************************************************************************)
EXTENDS Outbox

VARIABLE auditFailed   \* Service.auditFailed; in the model it fails once

faultVars == <<vars, auditFailed>>

FaultInit == Init /\ auditFailed = FALSE

\* The first row pass w books, whose audit entry is the first to fail.
First(w) == CHOOSE i \in DOMAIN attempt[w] : \A j \in DOMAIN attempt[w] : i <= j

\* recordDeliveries with a failing audit log: the page is appended between the
\* lookup and the assignment of the first row, whose booking is lost if the
\* slice had no room left.  The rows after it are looked up afresh.
BookAuditFails(w) ==
  /\ ~Idle(w)
  /\ DOMAIN result[w] = DOMAIN attempt[w]
  /\ ~auditFailed /\ ~saveFailed /\ Admin # None
  /\ auditFailed' = TRUE
  /\ Arrive(w)
  /\ \E moved \in BOOLEAN :
       LET booked == [AllBooked(w) EXCEPT ![First(w)] =
                        IF moved THEN outbox[First(w)] ELSE @]
       IN SaveIf(Changed(w), Enqueued(booked, created, <<Fresh(Admin, "escalation")>>), created + 1)
  /\ UNCHANGED <<eventLive, acked, crashes>>

FaultNext == (Next /\ UNCHANGED auditFailed) \/ \E w \in Pass : BookAuditFails(w)

FaultSpec == FaultInit /\ [][FaultNext]_faultVars

\* "Mutations continue in memory" while the store fails
\* (noteStoreFailureLocked): a delivery a channel accepted is booked in memory
\* by the pass that made it.
MutationsContinueInMemory == AcknowledgedIsBooked
=============================================================================
