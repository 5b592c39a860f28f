---------------------------- MODULE Propagation ----------------------------
(***************************************************************************)
(* "Is the cancellation actually out?"  One event, its propagation         *)
(* transactions (cancel, move, reinstate), the outbox rows they fan out    *)
(* to, and what the panel says of the last one, while rows are sent,       *)
(* re-armed and pruned and the event may be deleted.  State written before *)
(* transactions had ids is part of the initial states.                     *)
(*                                                                         *)
(* Abstractions.  A transaction id is its number, 0 for none; a row's id   *)
(* is its place in the order of creation.  The clock is kept as the time   *)
(* from now to the event's end and the time since a row's delivery, each   *)
(* only as far as a comparison looks at it.  A target is whatever one      *)
(* message goes to: a broadcast, a channel of a responsible person, a      *)
(* guest.                                                                  *)
(***************************************************************************)
EXTENDS Integers, FiniteSets, Functions

CONSTANTS
  Target,
  MaxAttempts,   \* Config.MaxAttempts
  Retention      \* Config.OutboxRetention, in clock units

CONSTANTS        \* bounds of the model, not of the code
  MaxRows,       \* rows ever created
  MaxTxns        \* propagation transactions

ASSUME PropagationAssumption ==
  /\ IsFiniteSet(Target)
  /\ MaxAttempts \in Nat \ {0} /\ Retention \in Nat \ {0}
  /\ MaxRows \in Nat /\ MaxTxns \in Nat

VARIABLES
  status,        \* the event: scheduled, cancelled, or deleted
  until,         \* time to the event's end, negative once it is past
  fanOut,        \* FanOutTxnID, FanOutCount and whether FanOutAt is set
  outbox,        \* the event's rows of state.Outbox, by id
  created,       \* rows ever created
  owed,          \* history: the rows of the last transaction, as it wrote them
  arrived        \* history: the rows a channel ever accepted

vars == <<status, until, fanOut, outbox, created, owed, arrived>>

Notice  == {"cancellation", "moved", "reinstated"}
Purpose == Notice \cup {"reminder"}
Row     == [txn: 0..MaxTxns, purpose: Purpose, to: Target, attempts: 0..MaxAttempts,
            delivered: BOOLEAN, rest: 0..Retention]
NewRow(txn, purpose, to) ==
  [txn |-> txn, purpose |-> purpose, to |-> to, attempts |-> 0, delivered |-> FALSE, rest |-> 0]

TypeOK ==
  /\ status \in {"scheduled", "cancelled", "deleted"}
  /\ until \in (-Retention)..1
  /\ fanOut \in [txn: 0..MaxTxns, count: 0..Cardinality(Target), known: BOOLEAN]
  /\ created \in 0..MaxRows
  /\ DOMAIN outbox \subseteq 1..created /\ outbox \in [DOMAIN outbox -> Row]
  /\ owed \subseteq 1..created /\ arrived \subseteq 1..created

\* A new event, or one cancelled by an older version: its rows have no transaction
\* id, FanOutAt and FanOutCount may be missing, and where they are there the last
\* transaction may have addressed nobody, the rows being those of an earlier one.
Init ==
  \E Told \in SUBSET Target, known, anybody \in BOOLEAN :
    LET n == Cardinality(Told)
    IN /\ n <= MaxRows /\ created = n
       /\ anybody \/ known
       /\ status = IF n > 0 \/ known THEN "cancelled" ELSE "scheduled"
       /\ until = 1
       /\ fanOut = [txn |-> 0, count |-> IF known /\ anybody THEN n ELSE 0, known |-> known]
       /\ \E order \in Bijection(1..n, Told) :
            outbox = [i \in 1..n |-> NewRow(0, "cancellation", order[i])]
       /\ owed = IF anybody THEN 1..n ELSE {}
       /\ arrived = {}

-----------------------------------------------------------------------------
\* What the panel reads.

OutboxState(o) ==
  CASE o.delivered -> "delivered"
    [] ~o.delivered /\ o.attempts >= MaxAttempts -> "failed"
    [] ~o.delivered /\ o.attempts \in 1..(MaxAttempts - 1) -> "retrying"
    [] OTHER -> "queued"

\* inLastFanOut: the purpose decides only where no transaction id is known.
InLastFanOut(o) == IF fanOut.txn # 0 THEN o.txn = fanOut.txn ELSE o.purpose \in Notice

Items == {i \in DOMAIN outbox : InLastFanOut(outbox[i])}
In(states) == {i \in Items : OutboxState(outbox[i]) \in states}

Complete == Items # {} /\ In({"delivered"}) = Items

Empty == fanOut.known /\ fanOut.count = 0 /\ Items = {}

\* fanOutInFlightLocked.
InFlight == In({"queued", "retrying"})

-----------------------------------------------------------------------------
\* fanOutLocked: one row per target, in the order of the lists it walks, under a
\* fresh transaction id that the event remembers.
FanOut(purpose, tos, order) ==
  LET txn == fanOut.txn + 1
      n   == Cardinality(tos)
      ids == created + 1 .. created + n
  IN /\ txn <= MaxTxns /\ created + n <= MaxRows
     /\ fanOut' = [txn |-> txn, count |-> n, known |-> TRUE]
     /\ outbox' = [i \in DOMAIN outbox \cup ids |->
                     IF i \in ids THEN NewRow(txn, purpose, order[i - created]) ELSE outbox[i]]
     /\ created' = created + n
     /\ owed' = ids /\ UNCHANGED arrived

\* cancelLocked, moveLocked and ReinstateEvent, as far as status and fan-out go.
Cancel(tos, order) ==
  status = "scheduled" /\ status' = "cancelled" /\ UNCHANGED until /\ FanOut("cancellation", tos, order)
Reinstate(tos, order) ==
  status = "cancelled" /\ status' = "scheduled" /\ UNCHANGED until /\ FanOut("reinstated", tos, order)
Move(tos, order) ==
  status = "scheduled" /\ until' \in {-1, 1} /\ UNCHANGED status /\ FanOut("moved", tos, order)

\* enqueueAskLocked: a row about the event that belongs to no transaction.
Ask(to) ==
  /\ status = "scheduled" /\ created < MaxRows
  /\ created' = created + 1
  /\ outbox' = [i \in DOMAIN outbox \cup {created'} |->
                  IF i = created' THEN NewRow(0, "reminder", to) ELSE outbox[i]]
  /\ UNCHANGED <<status, until, fanOut, owed, arrived>>

\* deliver and recordDeliveries: accepted, refused, or accepted and reported as
\* a failure, so that it is sent again.
Send(i, accepted, booked) ==
  /\ OutboxState(outbox[i]) \in {"queued", "retrying"}
  /\ booked => accepted
  /\ arrived' = IF accepted THEN arrived \cup {i} ELSE arrived
  /\ outbox' = [outbox EXCEPT ![i].delivered = booked,
                              ![i].attempts = IF booked THEN @ ELSE @ + 1]
  /\ UNCHANGED <<status, until, fanOut, created, owed>>

RetryOutbox(i) ==
  /\ ~outbox[i].delivered /\ outbox[i].attempts > 0
  /\ outbox' = [outbox EXCEPT ![i].attempts = 0]
  /\ UNCHANGED <<status, until, fanOut, created, owed, arrived>>

\* Mutant of Prunable: whatever stopped moving.
PrunableSettled(o) ==
  /\ OutboxState(o) \in {"delivered", "failed"}
  /\ status # "deleted" => until <= -Retention

\* pruneOutboxLocked: delivered, and delivery and event long past.
Prunable(o) ==
  /\ o.delivered /\ o.rest >= Retention
  /\ status # "deleted" => until <= -Retention

Prune ==
  /\ \E i \in DOMAIN outbox : Prunable(outbox[i])
  /\ outbox' = Restrict(outbox, {i \in DOMAIN outbox : ~Prunable(outbox[i])})
  /\ UNCHANGED <<status, until, fanOut, created, owed, arrived>>

\* Mutant of Deletable: only rows that were tried hold the event back.
DeletableIfNotRetrying ==
  /\ status = "cancelled" \/ (status = "scheduled" /\ until < 0)
  /\ In({"retrying"}) = {}

\* DeleteEvent: over or cancelled, and nothing of the last transaction moving.
Deletable ==
  /\ status = "cancelled" \/ (status = "scheduled" /\ until < 0)
  /\ InFlight = {}

DeleteEvent ==
  /\ Deletable
  /\ status' = "deleted"
  /\ UNCHANGED <<until, fanOut, outbox, created, owed, arrived>>

AdvanceTime ==
  /\ until' = IF until > -Retention THEN until - 1 ELSE until
  /\ outbox' = [i \in DOMAIN outbox |->
       IF outbox[i].delivered /\ outbox[i].rest < Retention
       THEN [outbox[i] EXCEPT !.rest = @ + 1] ELSE outbox[i]]
  /\ <<until', outbox'>> # <<until, outbox>>
  /\ UNCHANGED <<status, fanOut, created, owed, arrived>>

-----------------------------------------------------------------------------
Delivering ==
  \/ \E i \in DOMAIN outbox, accepted, booked \in BOOLEAN : Send(i, accepted, booked)
  \/ \E i \in DOMAIN outbox : RetryOutbox(i)
  \/ Prune

Next ==
  \/ \E tos \in SUBSET Target : \E order \in Bijection(1..Cardinality(tos), tos) :
       Cancel(tos, order) \/ Reinstate(tos, order) \/ Move(tos, order)
  \/ \E to \in Target : Ask(to)
  \/ Delivering \/ DeleteEvent \/ AdvanceTime

Spec == Init /\ [][Next]_vars

-----------------------------------------------------------------------------
\* Properties.

\* A propagation reported complete is: a channel accepted every notice of the
\* last transaction, those pruned since included (Propagation, inLastFanOut,
\* pruneOutboxLocked).
CompleteIsTrue == status # "deleted" /\ Complete => owed \subseteq arrived

\* A notice of the last transaction that reached nobody is among the items the
\* panel shows, and not as delivered: neither pruning nor a row of another kind
\* or transaction hides it.
MissingIsShown == status # "deleted" => owed \ arrived \subseteq Items \ In({"delivered"})

\* The alarm "nobody was told" is raised for a transaction that addressed
\* nobody, and for no other (not before the first one, not for an event from
\* before the counts existed, not once its rows are pruned), and it never looks
\* like "done" (Propagation).
EmptyIsTrue ==
  status # "deleted" =>
    /\ Empty => fanOut.known /\ owed = {} /\ ~Complete
    /\ fanOut.txn # 0 /\ owed = {} => Empty

\* Deleting an event walks away from no notice that may still arrive: each one
\* of the last transaction arrived, or stays in the outbox as a failure.
DeletedOnlySettled ==
  [][status # "deleted" /\ status' = "deleted" =>
       \A i \in owed \ arrived : i \in DOMAIN outbox' /\ OutboxState(outbox'[i]) = "failed"]_vars
=============================================================================
