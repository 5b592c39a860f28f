------------------------------- MODULE Outbox -------------------------------
(***************************************************************************)
(* The outbox of core.Service: every message the service owes somebody is  *)
(* a row of state.Outbox.  A pass collects the due rows under the mutex,   *)
(* sends them with the mutex FREE and books the results under the mutex    *)
(* again.  Three callers run passes and may overlap: the scheduler, POST   *)
(* /tick and SendTest.  Between the two halves of a pass the operator may  *)
(* re-arm a row, other handlers enqueue and prune rows, and the process    *)
(* may die.                                                                *)
(*                                                                         *)
(* Abstractions.  A row's id is its creation order (the code's ids are     *)
(* random and never reused; the outbox slice is in creation order).  A     *)
(* row's timestamps are kept as the time left until NextAttempt (wait) and *)
(* the time since CreatedAt (age) and DeliveredAt (rest), each only while  *)
(* and as far as a comparison of the code still looks at it.  Message      *)
(* bodies, LastError and the audit entries are left out.                   *)
(***************************************************************************)
EXTENDS Integers, FiniteSets, Sequences

CONSTANTS
  Recipient,        \* the (kind, to) pairs messages are addressed to
  None,             \* no recipient at all
  Admin,            \* Config.AdminNotify: a recipient, or None when unset
  Pass,             \* callers that can be inside a pass at the same time
  Scheduler,        \* the one of them that ticks by itself
  MaxAttempts,      \* Config.MaxAttempts
  RetryDelay,       \* Config.RetryDelay, in clock units
  EscalateAfter,    \* Config.EscalateAfter
  Retention         \* Config.OutboxRetention

CONSTANTS           \* bounds of the model, not of the code
  MaxMessages,      \* no new message once this many rows were created
  MaxRearms,        \* re-arms counted while one send is out
  MaxCrashes,       \* kills of the process
  MaxSaveFailures   \* failing writes of state.json

ASSUME OutboxAssumption ==
  /\ None \notin Recipient
  /\ Admin \in Recipient \cup {None}
  /\ Scheduler \in Pass
  /\ MaxAttempts \in Nat \ {0} /\ RetryDelay \in Nat \ {0}
  /\ EscalateAfter \in Nat \ {0} /\ Retention \in Nat \ {0}
  /\ MaxMessages \in Nat /\ MaxRearms \in Nat
  /\ MaxCrashes \in Nat /\ MaxSaveFailures \in Nat

VARIABLES
  outbox,      \* state.Outbox in memory: a function from ids to rows
  disk,        \* the rows of the last state.json that reached the disk
  created,     \* how many rows were ever created; their ids are 1..created
  eventLive,   \* the event the messages are about ended less than Retention ago
  attempt,     \* attempt[w]: what pass w copied out, by row id
  result,      \* result[w]: the outcomes pass w has so far, by row id
  sending,     \* Service.sending: re-arms counted per row that is out
  sendingTo,   \* Service.sendingTo: sends out per recipient
  saveFailed,  \* Service.saveFailed
  acked,       \* history: rows a channel accepted since the process started
  crashes,     \* kills so far
  failures     \* failed writes so far

rows   == <<outbox, disk, created, saveFailed, failures>>
flight == <<attempt, result, sending, sendingTo>>
vars   == <<rows, flight, eventLive, acked, crashes>>

Purpose == {"message", "test", "escalation"}

Row == [to: Recipient, purpose: Purpose, attempts: Nat, wait: Nat, age: Nat,
        delivered: BOOLEAN, rest: Nat, escalated: BOOLEAN]

\* What a pass copies out of a row; the message itself is left out.
Attempt == [to: Recipient, attempts: Nat]

Smaller(a, b) == IF a <= b THEN a ELSE b
Unfloored(n)  == n                          \* mutant of FloorZero
FloorZero(n)  == IF n > 0 THEN n ELSE 0

Nothing == [i \in {} |-> i]
RowsOver(f, S) == f = [i \in DOMAIN f |-> f[i]] /\ \A i \in DOMAIN f : f[i] \in S

TypeOK ==
  /\ created \in Nat
  /\ DOMAIN outbox \subseteq 1..created /\ RowsOver(outbox, Row)
  /\ DOMAIN disk \subseteq 1..created /\ RowsOver(disk, Row)
  /\ eventLive \in BOOLEAN /\ saveFailed \in BOOLEAN
  /\ DOMAIN attempt = Pass /\ DOMAIN result = Pass
  /\ \A w \in Pass : /\ DOMAIN attempt[w] \subseteq 1..created
                     /\ RowsOver(attempt[w], Attempt)
                     /\ DOMAIN result[w] \subseteq DOMAIN attempt[w]
                     /\ RowsOver(result[w], BOOLEAN)
  /\ DOMAIN sending \subseteq 1..created /\ RowsOver(sending, Nat)
  /\ sendingTo \in [Recipient -> Nat]
  /\ acked \subseteq 1..created
  /\ crashes \in Nat /\ failures \in Nat

Init ==
  /\ outbox = Nothing /\ disk = Nothing /\ created = 0
  /\ eventLive \in BOOLEAN
  /\ attempt = [w \in Pass |-> Nothing] /\ result = [w \in Pass |-> Nothing]
  /\ sending = Nothing /\ sendingTo = [r \in Recipient |-> 0]
  /\ saveFailed = FALSE
  /\ acked = {} /\ crashes = 0 /\ failures = 0

-----------------------------------------------------------------------------
\* Rows and what a pass does to them.

Fresh(r, p) == [to |-> r, purpose |-> p, attempts |-> 0, wait |-> 0, age |-> 0,
                delivered |-> FALSE, rest |-> 0, escalated |-> FALSE]

\* Messages go to anybody, pages (notifyAdminLocked) to the admin, if there is one.
NewRow == {Fresh(r, "message") : r \in Recipient}
            \cup {Fresh(r, "escalation") : r \in Recipient \cap {Admin}}

\* The non-empty batches one critical section queues: a fan-out has a row for
\* every recipient.
Batches(S) == UNION {[1..k -> S] : k \in 1..MaxMessages}

\* enqueueLocked, for each of a batch: rows at the end of the outbox, due at once.
Enqueued(q, n, batch) ==
  [i \in DOMAIN q \cup (n + 1)..(n + Len(batch)) |-> IF i > n THEN batch[i - n] ELSE q[i]]

\* Mutant of Stuck: gives up on a row before it reports it.
StuckWithAttemptsLeft(q) == {i \in DOMAIN q : /\ ~q[i].delivered /\ ~q[i].escalated
                                              /\ q[i].purpose # "escalation"
                                              /\ q[i].attempts < MaxAttempts
                                              /\ q[i].age >= EscalateAfter}

\* Rows that are undelivered for too long and were not reported yet.
Stuck(q) == {i \in DOMAIN q : /\ ~q[i].delivered /\ ~q[i].escalated
                              /\ q[i].purpose # "escalation"
                              /\ q[i].age >= EscalateAfter}

\* The pages notifyAdminLocked appends for the stuck rows, after the loop.
Pages(q, n) == IF Admin = None THEN {} ELSE (n + 1)..(n + Cardinality(Stuck(q)))

CreatedWithPages(q, n) == IF Admin = None THEN n ELSE n + Cardinality(Stuck(q))

Escalated(q, n) ==
  [i \in DOMAIN q \cup Pages(q, n) |->
     IF i \in Pages(q, n) THEN Fresh(Admin, "escalation")
     ELSE IF i \in Stuck(q) THEN [q[i] EXCEPT !.escalated = TRUE, !.age = 0]
     ELSE q[i]]

\* collectOutboxLocked: due rows of `only`, unless an earlier pass is still
\* sending to their recipient.  A recipient this pass itself has just taken
\* is no obstacle, so the test is on the counts the pass began with.
Due(q, i) == ~q[i].delivered /\ q[i].attempts < MaxAttempts /\ q[i].wait = 0

\* Mutants of Takes: no look at the other passes, or only at the row itself.
TakesAnyDue(q, only)  == {i \in DOMAIN q \cap only : Due(q, i)}
TakesPerItem(q, only) == {i \in DOMAIN q \cap only : Due(q, i) /\ i \notin DOMAIN sending}

Takes(q, only) == {i \in DOMAIN q \cap only : Due(q, i) /\ sendingTo[q[i].to] = 0}

\* Mutant of Prunable: an undelivered row has no DeliveredAt, which lies before
\* any cutoff.
PrunableUndelivered(q, i) == /\ ~q[i].delivered \/ q[i].rest >= Retention
                             /\ q[i].purpose = "message" => ~eventLive

\* pruneOutboxLocked: a delivered row goes once delivery and, for a row about
\* an event that still exists, that event lie Retention in the past.
Prunable(q, i) == /\ q[i].delivered /\ q[i].rest >= Retention
                  /\ q[i].purpose = "message" => ~eventLive

Pruned(q) == [i \in {j \in DOMAIN q : ~Prunable(q, j)} |-> q[i]]

\* RetryDelay doubled per failed attempt, at most four times.
Doubling(k) == CASE k = 1 -> 1 [] k = 2 -> 2 [] k = 3 -> 4 [] k = 4 -> 8 [] OTHER -> 16
Backoff(attempts) == RetryDelay * Doubling(attempts)

-----------------------------------------------------------------------------
\* saveLocked: state.json is written, or the write fails.  A failing write
\* leaves the old file or (directory sync) the new one, the memory stays ahead
\* of it, and the admin is paged once per healthy -> failed transition: a row
\* that itself exists in memory only.
Persist(q, n) ==
  \/ /\ outbox' = q /\ disk' = q /\ created' = n
     /\ saveFailed' = FALSE
     /\ UNCHANGED failures
  \/ /\ failures < MaxSaveFailures
     /\ failures' = failures + 1
     /\ saveFailed' = TRUE
     /\ disk' \in {disk, q}
     /\ IF saveFailed \/ Admin = None
        THEN outbox' = q /\ created' = n
        ELSE outbox' = Enqueued(q, n, <<Fresh(Admin, "escalation")>>) /\ created' = n + 1

Idle(w) == attempt[w] = Nothing

\* The markers collectOutboxLocked sets for the rows pass w takes.
Depart(w, q, taken) ==
  /\ attempt' = [attempt EXCEPT ![w] =
                   [i \in taken |-> [to |-> q[i].to, attempts |-> q[i].attempts]]]
  /\ sending' = [i \in DOMAIN sending \cup taken |->
                   IF i \in taken THEN 0 ELSE sending[i]]
  /\ sendingTo' = [r \in Recipient |->
                     sendingTo[r] + Cardinality({i \in taken : q[i].to = r})]
  /\ UNCHANGED result

\* The handler saves only if it set its changed flag.
SaveIf(changed, q, n) ==
  IF changed THEN Persist(q, n)
  ELSE outbox' = q /\ created' = n /\ UNCHANGED <<disk, saveFailed, failures>>

\* Any handler that queues messages and saves: fan-outs, verdicts, pages.  A
\* move is a fan-out, too, and its event may now end earlier or later.
Enqueue(batch) ==
  /\ created + Len(batch) <= MaxMessages
  /\ Persist(Enqueued(outbox, created, batch), created + Len(batch))
  /\ eventLive' \in BOOLEAN
  /\ UNCHANGED <<flight, acked, crashes>>

\* The changed flag of tickLocked: something was queued, reported or pruned.
TickChanged(q) == q # outbox \/ Stuck(q) # {} \/ \E i \in DOMAIN q : Prunable(q, i)

\* The outbox part of tickLocked, on what the reminder, nudge and deadline
\* passes left (q, n): escalate, collect, prune, and save if anything changed.
Deliver(w, q, n) ==
  /\ Idle(w)
  /\ Depart(w, q, Takes(q, DOMAIN q))
  /\ SaveIf(TickChanged(q), Pruned(Escalated(q, n)), CreatedWithPages(q, n))
  /\ UNCHANGED <<eventLive, acked, crashes>>

\* tickLocked; the earlier passes may have queued messages.
Tick(w) ==
  \/ Deliver(w, outbox, created)
  \/ \E batch \in Batches(NewRow) :
       /\ created + Len(batch) <= MaxMessages
       /\ Deliver(w, Enqueued(outbox, created, batch), created + Len(batch))

Tests(to) == [k \in 1..Len(to) |-> Fresh(to[k], "test")]

\* SendTest, locked half: a test message to each of a person's channels, and
\* only these are taken.
SendTest(w, to) ==
  LET asked == Enqueued(outbox, created, Tests(to))
      n     == created + Len(to)
  IN /\ Idle(w)
     /\ n <= MaxMessages
     /\ Depart(w, asked, Takes(asked, (created + 1)..n))
     /\ Persist(Escalated(asked, n), CreatedWithPages(asked, n))
     /\ UNCHANGED <<eventLive, acked, crashes>>

\* deliver / send: the next send of pass w comes back, with the mutex free.  A
\* panicking channel counts as a failure.
Send(w, i, ok) ==
  LET open == DOMAIN attempt[w] \ DOMAIN result[w]
  IN /\ i \in open /\ \A j \in open : i <= j
     /\ result' = [result EXCEPT ![w] =
                     [j \in DOMAIN result[w] \cup {i} |-> IF j = i THEN ok ELSE result[w][j]]]
     /\ acked' = IF ok THEN acked \cup {i} ELSE acked
     /\ UNCHANGED <<rows, attempt, sending, sendingTo, eventLive, crashes>>

SendNext(w) == \E i \in DOMAIN attempt[w], ok \in BOOLEAN : Send(w, i, ok)

Rearmed(i) == i \in DOMAIN sending /\ sending[i] > 0

\* Mutants of Booked: the re-arm inferred from the attempt count, or looked at
\* before the outcome.
BookedByAttempts(w, i) ==
  LET row == outbox[i]
      n   == attempt[w][i].attempts + 1
  IN IF row.delivered THEN row
     ELSE IF result[w][i] THEN [row EXCEPT !.attempts = n, !.delivered = TRUE, !.wait = 0, !.age = 0]
     ELSE IF row.attempts # attempt[w][i].attempts THEN row
     ELSE [row EXCEPT !.attempts = n, !.wait = Backoff(n)]

BookedUnlessRearmed(w, i) ==
  LET row == outbox[i]
      n   == attempt[w][i].attempts + 1
  IN IF row.delivered \/ Rearmed(i) THEN row
     ELSE IF result[w][i] THEN [row EXCEPT !.attempts = n, !.delivered = TRUE, !.wait = 0, !.age = 0]
     ELSE [row EXCEPT !.attempts = n, !.wait = Backoff(n)]

\* recordDeliveries, for one row: a success always counts, a failure only when
\* nothing newer happened to the row while the send was out.
Booked(w, i) ==
  LET row == outbox[i]
      n   == attempt[w][i].attempts + 1
  IN IF row.delivered THEN row
     ELSE IF result[w][i] THEN [row EXCEPT !.attempts = n, !.delivered = TRUE, !.wait = 0, !.age = 0]
     ELSE IF Rearmed(i) THEN row
     ELSE [row EXCEPT !.attempts = n, !.wait = Backoff(n)]

\* Mutant of Arrive: the recipient stays marked.
ArriveStillSending(w) ==
  /\ attempt' = [attempt EXCEPT ![w] = Nothing]
  /\ result' = [result EXCEPT ![w] = Nothing]
  /\ sending' = [i \in DOMAIN sending \ DOMAIN attempt[w] |-> sending[i]]
  /\ UNCHANGED sendingTo

\* The markers recordDeliveries clears for pass w.
Arrive(w) ==
  /\ attempt' = [attempt EXCEPT ![w] = Nothing]
  /\ result' = [result EXCEPT ![w] = Nothing]
  /\ sending' = [i \in DOMAIN sending \ DOMAIN attempt[w] |-> sending[i]]
  /\ sendingTo' = [r \in Recipient |-> FloorZero(sendingTo[r]
                     - Cardinality({i \in DOMAIN attempt[w] : attempt[w][i].to = r}))]

AllBooked(w) == [i \in DOMAIN outbox |->
                   IF i \in DOMAIN attempt[w] THEN Booked(w, i) ELSE outbox[i]]

\* Mutant of Changed: only a failure sets the flag.
ChangedByFailure(w) == \E i \in DOMAIN attempt[w] : ~outbox[i].delivered /\ ~result[w][i] /\ ~Rearmed(i)

\* The changed flag of recordDeliveries: some result was booked.
Changed(w) == \E i \in DOMAIN attempt[w] : ~outbox[i].delivered /\ (result[w][i] \/ ~Rearmed(i))

Book(w) ==
  /\ ~Idle(w)
  /\ DOMAIN result[w] = DOMAIN attempt[w]
  /\ Arrive(w)
  /\ SaveIf(Changed(w), AllBooked(w), created)
  /\ UNCHANGED <<eventLive, acked, crashes>>

\* The operator re-arms an undelivered row, in flight or not.
RetryOutbox(i) ==
  /\ i \in DOMAIN outbox
  /\ ~outbox[i].delivered
  /\ i \in DOMAIN sending => sending[i] < MaxRearms
  /\ sending' = IF i \in DOMAIN sending THEN [sending EXCEPT ![i] = @ + 1] ELSE sending
  /\ Persist([outbox EXCEPT ![i].attempts = 0, ![i].wait = 0], created)
  /\ UNCHANGED <<attempt, result, sendingTo, eventLive, acked, crashes>>

\* Deleting an event leaves its rows in the outbox; like any handler it saves.
DeleteEvent ==
  /\ eventLive /\ eventLive' = FALSE
  /\ Persist(outbox, created)
  /\ UNCHANGED <<flight, acked, crashes>>

\* Kill and restart: the markers and results are gone, the rows are those of
\* the disk.
Crash ==
  /\ crashes < MaxCrashes
  /\ crashes' = crashes + 1
  /\ outbox' = disk
  /\ attempt' = [w \in Pass |-> Nothing] /\ result' = [w \in Pass |-> Nothing]
  /\ sending' = Nothing /\ sendingTo' = [r \in Recipient |-> 0]
  /\ saveFailed' = FALSE
  /\ acked' = {}
  /\ UNCHANGED <<disk, created, failures, eventLive>>

\* One unit of time; timestamps are absolute, so the copies on disk age too.
AgedRow(row) ==
  IF row.delivered THEN [row EXCEPT !.rest = Smaller(@ + 1, Retention)]
  ELSE [row EXCEPT !.wait = FloorZero(@ - 1),
                   !.age = IF row.escalated \/ row.purpose = "escalation" THEN 0
                           ELSE Smaller(@ + 1, EscalateAfter)]

Aged(q) == [i \in DOMAIN q |-> AgedRow(q[i])]

AdvanceTime ==
  /\ outbox' = Aged(outbox) /\ disk' = Aged(disk)
  /\ eventLive' \in {eventLive, FALSE}
  /\ UNCHANGED <<created, saveFailed, failures, flight, acked, crashes>>

Next ==
  \/ \E batch \in Batches(NewRow) : Enqueue(batch)
  \/ \E w \in Pass : Tick(w)
  \/ \E w \in Pass, to \in Batches(Recipient) : SendTest(w, to)
  \/ \E w \in Pass : SendNext(w)
  \/ \E w \in Pass : Book(w)
  \/ \E i \in DOMAIN outbox : RetryOutbox(i)
  \/ DeleteEvent
  \/ Crash
  \/ AdvanceTime

Spec == Init /\ [][Next]_vars

\* The scheduler ticks once a minute for as long as the process runs, every
\* send ends (the channels have timeouts and panics are caught), the pass that
\* sent then books, and time passes.  Nothing is assumed of operators, of the
\* other callers or of the disk.
Fairness ==
  /\ WF_vars(Tick(Scheduler))
  /\ \A w \in Pass : WF_vars(SendNext(w)) /\ WF_vars(Book(w))
  /\ WF_vars(AdvanceTime)

FairSpec == Spec /\ Fairness

-----------------------------------------------------------------------------
\* Properties.

InFlight == UNION {DOMAIN attempt[w] : w \in Pass}
To(w) == {attempt[w][i].to : i \in DOMAIN attempt[w]}

\* While the process runs, no message a channel has accepted is sent again:
\* what keeps the three callers of a pass from delivering twice
\* (collectOutboxLocked, recordDeliveries, pruneOutboxLocked, RetryOutbox).
NoResend == \A w \in Pass : (DOMAIN attempt[w] \ DOMAIN result[w]) \cap acked = {}

\* No two passes are sending to the same recipient, so the messages to one
\* recipient are never out in two conversations at once (sendingTo).
OneSenderPerRecipient == \A v, w \in Pass : v # w => To(v) \cap To(w) = {}

\* A row whose send is out is still owed: nothing prunes or books it away under
\* the pass that carries it, and it is marked as out.
InFlightIsOwed ==
  \A i \in InFlight : i \in DOMAIN outbox /\ ~outbox[i].delivered /\ i \in DOMAIN sending

\* A row the operator re-armed while its send was out is due the moment that
\* send comes back, unless it was delivered: no late failure puts the old
\* backoff or attempt count over the newer decision (Service.sending).
RearmedStaysDue ==
  [][crashes' = crashes =>
       \A i \in DOMAIN sending \ DOMAIN sending' :
         sending[i] > 0 /\ ~outbox'[i].delivered => Due(outbox', i)]_vars

\* What a channel accepted is booked as delivered by the pass that sent it,
\* whatever was done to the row meanwhile (recordDeliveries).
AcknowledgedIsBooked ==
  [][crashes' = crashes =>
       \A w \in Pass : attempt'[w] = Nothing =>
         \A i \in DOMAIN result[w] : result[w][i] =>
           i \in DOMAIN outbox' /\ outbox'[i].delivered]_vars

\* "Selection is per RECIPIENT ... AND keeps the order per recipient"
\* (collectOutboxLocked): no message is delivered by a pass that left an older one to
\* the same recipient behind, to be retried later.
OrderPerRecipient ==
  [][\A w \in Pass : \A i \in DOMAIN attempt[w] \cap (acked' \ acked), j \in DOMAIN outbox \ DOMAIN attempt[w] :
       /\ outbox[i].to = outbox[j].to
       /\ outbox[i].purpose = "message" /\ outbox[j].purpose = "message"
       /\ ~outbox[j].delivered /\ outbox[j].attempts < MaxAttempts /\ outbox[j].wait > 0
       => i < j]_vars

\* As long as the last write of state.json succeeded, the disk holds exactly
\* the rows in memory: no handler changes a row without saving
\* (PersistHealthy, /healthz).
HealthyMeansDurable == ~saveFailed => disk = outbox

\* A message that is owed gets a send: a due row is taken by a pass unless the
\* process dies before the row, or the re-arm that made it due again, reached the
\* disk.  No marker left by an earlier pass blocks its recipient for good
\* (recordDeliveries, send).
QueuedIsAttempted ==
  \A i \in 1..MaxMessages :
    (i \in DOMAIN outbox /\ ~outbox[i].delivered /\ outbox[i].attempts < MaxAttempts)
      ~> (i \in InFlight \/ i \notin DOMAIN outbox \/ outbox[i].delivered
            \/ outbox[i].attempts >= MaxAttempts)

\* A message undelivered for EscalateAfter is reported to the admin or
\* delivered after all, also when its attempts are used up (collectOutboxLocked).
StuckIsReported ==
  \A i \in 1..MaxMessages :
    (i \in DOMAIN outbox /\ ~outbox[i].delivered /\ outbox[i].purpose # "escalation"
       /\ outbox[i].age = EscalateAfter) ~> (i \notin DOMAIN outbox \/ outbox[i].delivered \/ outbox[i].escalated)

\* What the outbox promises, as a ledger of owed and proven messages.
Promise == INSTANCE Ledger WITH
  owed    <- {i \in DOMAIN outbox : ~outbox[i].delivered},
  proven  <- {i \in DOMAIN outbox : outbox[i].delivered},
  known   <- created,
  durable <- ~saveFailed

\* The outbox implements the ledger: a message stays owed until a channel
\* accepted it, a proven one stays proven until it is archived for good, and a
\* crash changes neither while the disk is healthy.
KeepsItsPromise == Promise!Spec
=============================================================================
