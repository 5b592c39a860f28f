---------------------------- MODULE OutboxProofs ----------------------------
(***************************************************************************)
(* Proofs about Outbox, for every set of recipients and callers and every  *)
(* configuration: type correctness, durability while the disk is healthy,  *)
(* that no message a channel accepted is sent again, that a re-arm and an  *)
(* acceptance outlive the send they race with, and that the outbox         *)
(* implements Ledger.  Every step is of one of five kinds (StepKinds); the *)
(* proofs of the properties go through the kinds, not the actions.         *)
(***************************************************************************)
EXTENDS Outbox, FiniteSetTheorems, TLAPS

\* An outbox whose ids are among 1..n.
IsRows(q, n) == DOMAIN q \subseteq 1..n /\ RowsOver(q, Row)

\* Rows that are still owed.
Open == {row \in Row : ~row.delivered}

\* p, with ids up to n, is q, with ids up to m, after a step that books nothing:
\* no owed row is lost, no row changes sides, a due one stays due, and each new
\* id is that of a row that is owed.
Follows(q, m, p, n) ==
  /\ n \in Nat /\ m <= n
  /\ IsRows(p, n)
  /\ \A i \in DOMAIN q : ~q[i].delivered => i \in DOMAIN p
  /\ \A i \in DOMAIN p :
       IF i \in DOMAIN q
       THEN p[i].to = q[i].to /\ p[i].delivered = q[i].delivered /\ (Due(q, i) => Due(p, i))
       ELSE i > m
  /\ \A i \in (m + 1)..n : i \in DOMAIN p /\ ~p[i].delivered

-----------------------------------------------------------------------------
\* The operators on rows.

\* A fresh row is a row.
LEMMA FreshIsRow ==
  ASSUME NEW r \in Recipient, NEW p \in Purpose
  PROVE  Fresh(r, p) \in Open
BY DEF Fresh, Row, Open

\* What a handler or a pass queues is a row that is not delivered.
LEMMA NewRowIsRow ==
  ASSUME NEW row \in NewRow
  PROVE  row \in Open
BY FreshIsRow DEF NewRow, Purpose

\* A batch of what the handlers queue is a sequence of owed rows.
LEMMA BatchIsRows ==
  ASSUME NEW batch \in Batches(NewRow)
  PROVE  batch \in Seq(Open)
<1>1. PICK k \in 1..MaxMessages : batch \in [1..k -> NewRow]
  BY DEF Batches
<1>2. batch \in [1..k -> Open]
  BY <1>1, NewRowIsRow
<1>3. QED
  BY <1>2

\* The test messages to a person's channels are a sequence of owed rows.
LEMMA TestsAreRows ==
  ASSUME NEW to \in Batches(Recipient)
  PROVE  Tests(to) \in Seq(Open) /\ Len(Tests(to)) = Len(to) /\ Len(to) \in Nat
<1>1. PICK k \in 1..MaxMessages : to \in [1..k -> Recipient]
  BY DEF Batches
<1>2. k \in Nat /\ Len(to) = k
  BY <1>1, OutboxAssumption
<1>3. Tests(to) \in [1..k -> Open]
  BY <1>1, <1>2, FreshIsRow DEF Tests, Purpose
<1>4. QED
  BY <1>2, <1>3

\* A step that changes nothing follows.
LEMMA FollowsItself ==
  ASSUME NEW q, NEW n \in Nat, IsRows(q, n)
  PROVE  Follows(q, n, q, n)
BY DEF Follows

\* Two steps that book no delivery are one such step.
LEMMA FollowsTransitive ==
  ASSUME NEW a, NEW l \in Nat, NEW b, NEW m \in Nat, NEW c, NEW n \in Nat,
         IsRows(a, l), Follows(a, l, b, m), Follows(b, m, c, n)
  PROVE  Follows(a, l, c, n)
BY DEF Follows, IsRows

\* Queueing rows books nothing.
LEMMA EnqueuedFollows ==
  ASSUME NEW q, NEW n \in Nat, IsRows(q, n), NEW batch \in Seq(Open)
  PROVE  Follows(q, n, Enqueued(q, n, batch), n + Len(batch))
<1> DEFINE m == n + Len(batch)
           e == Enqueued(q, n, batch)
<1>1. m \in Nat /\ n <= m
  OBVIOUS
<1>2. DOMAIN e = DOMAIN q \cup (n + 1)..m /\ DOMAIN e \subseteq 1..m
  BY DEF Enqueued, IsRows
<1>3. \A i \in DOMAIN q : i <= n /\ i \in Int /\ e[i] = q[i]
  BY DEF Enqueued, IsRows
<1>4. ASSUME NEW i \in (n + 1)..m
      PROVE  e[i] \in Row /\ ~e[i].delivered /\ i \notin DOMAIN q /\ i > n
  <2>1. i - n \in 1..Len(batch) /\ i > n
    OBVIOUS
  <2>2. e[i] = batch[i - n]
    BY <1>4, <2>1 DEF Enqueued
  <2>3. QED
    BY <1>3, <2>1, <2>2 DEF Open
<1>5. e = [i \in DOMAIN e |-> e[i]]
  BY DEF Enqueued
<1> HIDE DEF e, m
<1>6. IsRows(e, m)
  BY <1>2, <1>3, <1>4, <1>5 DEF IsRows, RowsOver
<1>7. QED
  BY <1>1, <1>2, <1>3, <1>4, <1>6 DEF Follows, Due, e, m

\* The stuck rows can be counted.
LEMMA StuckIsFinite ==
  ASSUME NEW q, NEW n \in Nat, IsRows(q, n)
  PROVE  Cardinality(Stuck(q)) \in Nat
<1>1. IsFiniteSet(1..n)
  BY FS_Interval
<1>2. Stuck(q) \subseteq 1..n
  BY DEF Stuck, IsRows
<1>3. QED
  BY <1>1, <1>2, FS_Subset, FS_CardinalityType

\* Escalating the stuck rows books nothing.
LEMMA EscalatedFollows ==
  ASSUME NEW q, NEW n \in Nat, IsRows(q, n)
  PROVE  Follows(q, n, Escalated(q, n), CreatedWithPages(q, n))
<1> DEFINE k == Cardinality(Stuck(q))
<1>1. k \in Nat
  BY StuckIsFinite
<1> HIDE DEF k
<1>2. Pages(q, n) \cap DOMAIN q = {} /\ Pages(q, n) \subseteq 1..CreatedWithPages(q, n)
  BY <1>1 DEF Pages, CreatedWithPages, IsRows, k
<1>3. CreatedWithPages(q, n) \in Nat /\ n <= CreatedWithPages(q, n)
  BY <1>1 DEF CreatedWithPages, k
<1>4. ASSUME NEW i \in Pages(q, n)
      PROVE  Fresh(Admin, "escalation") \in Row /\ ~Fresh(Admin, "escalation").delivered /\ i > n
  <2>1. Admin \in Recipient /\ i > n
    BY <1>1, <1>4, OutboxAssumption DEF Pages, k
  <2>2. QED
    BY <2>1, FreshIsRow DEF Purpose, Open
<1>5. ASSUME NEW i \in DOMAIN q
      PROVE  /\ [q[i] EXCEPT !.escalated = TRUE, !.age = 0] \in Row
             /\ [q[i] EXCEPT !.escalated = TRUE, !.age = 0].to = q[i].to
             /\ [q[i] EXCEPT !.escalated = TRUE, !.age = 0].delivered = q[i].delivered
             /\ [q[i] EXCEPT !.escalated = TRUE, !.age = 0].attempts = q[i].attempts
             /\ [q[i] EXCEPT !.escalated = TRUE, !.age = 0].wait = q[i].wait
  <2>1. q[i] \in Row
    BY DEF IsRows, RowsOver
  <2>2. QED
    BY <2>1 DEF Row
<1>6. IsRows(Escalated(q, n), CreatedWithPages(q, n))
  <2>1. DOMAIN Escalated(q, n) = DOMAIN q \cup Pages(q, n)
    BY DEF Escalated
  <2>2. DOMAIN q \subseteq 1..CreatedWithPages(q, n)
    BY <1>3 DEF IsRows
  <2>3. ASSUME NEW i \in DOMAIN Escalated(q, n)
        PROVE  Escalated(q, n)[i] \in Row
    <3>1. CASE i \in Pages(q, n)
      BY <3>1, <1>4 DEF Escalated
    <3>2. CASE i \in DOMAIN q /\ i \notin Pages(q, n)
      BY <3>2, <1>5 DEF Escalated, IsRows, RowsOver
    <3>3. QED
      BY <2>1, <3>1, <3>2
  <2>4. Escalated(q, n) = [i \in DOMAIN Escalated(q, n) |-> Escalated(q, n)[i]]
    BY <2>1 DEF Escalated
  <2>5. QED
    BY <1>2, <2>1, <2>2, <2>3, <2>4 DEF IsRows, RowsOver
<1>7. \A i \in DOMAIN q : Due(q, i) => Due(Escalated(q, n), i)
  BY <1>2, <1>5 DEF Due, Escalated
<1>8. \A i \in (n + 1)..CreatedWithPages(q, n) : i \in Pages(q, n)
  BY <1>1 DEF Pages, CreatedWithPages, k
<1>9. QED
  BY <1>2, <1>3, <1>4, <1>5, <1>6, <1>7, <1>8 DEF Follows, Escalated

\* Pruning books nothing and drops no owed row.
LEMMA PrunedFollows ==
  ASSUME NEW q, NEW n \in Nat, IsRows(q, n)
  PROVE  Follows(q, n, Pruned(q), n)
BY DEF Follows, IsRows, RowsOver, Pruned, Prunable, Due

\* A row stays a row as it ages, on the side it was on.
LEMMA AgedRowIsRow ==
  ASSUME NEW row \in Row
  PROVE  /\ AgedRow(row) \in Row
         /\ AgedRow(row).to = row.to /\ AgedRow(row).delivered = row.delivered
         /\ AgedRow(row).attempts = row.attempts /\ (row.wait = 0 => AgedRow(row).wait = 0)
<1>1. CASE row.delivered
  <2> DEFINE r == Smaller(row.rest + 1, Retention)
  <2>1. r \in Nat
    BY OutboxAssumption DEF Row, Smaller
  <2> HIDE DEF r
  <2>2. AgedRow(row) = [row EXCEPT !.rest = r]
    BY <1>1 DEF AgedRow, r
  <2>3. QED
    BY <2>1, <2>2 DEF Row
<1>2. CASE ~row.delivered
  <2> DEFINE w == FloorZero(row.wait - 1)
             a == IF row.escalated \/ row.purpose = "escalation" THEN 0
                  ELSE Smaller(row.age + 1, EscalateAfter)
  <2>1. w \in Nat /\ a \in Nat /\ (row.wait = 0 => w = 0)
    <3>1. row.age + 1 \in Nat /\ row.wait - 1 \in Int
      BY DEF Row
    <3>2. QED
      BY <3>1, OutboxAssumption DEF Smaller, FloorZero
  <2> HIDE DEF w, a
  <2>2. AgedRow(row) = [row EXCEPT !.wait = w, !.age = a]
    BY <1>2 DEF AgedRow, w, a
  <2>3. QED
    BY <2>1, <2>2 DEF Row
<1>3. QED
  BY <1>1, <1>2

\* The passing of time books nothing.
LEMMA AgedFollows ==
  ASSUME NEW q, NEW n \in Nat, IsRows(q, n)
  PROVE  Follows(q, n, Aged(q), n)
<1>1. ASSUME NEW i \in DOMAIN q
      PROVE  /\ AgedRow(q[i]) \in Row
             /\ AgedRow(q[i]).to = q[i].to /\ AgedRow(q[i]).delivered = q[i].delivered
             /\ AgedRow(q[i]).attempts = q[i].attempts
             /\ q[i].wait = 0 => AgedRow(q[i]).wait = 0
  <2>1. q[i] \in Row
    BY DEF IsRows, RowsOver
  <2>2. QED
    BY <2>1, AgedRowIsRow
<1>2. DOMAIN Aged(q) = DOMAIN q /\ \A i \in DOMAIN q : Aged(q)[i] = AgedRow(q[i])
  BY DEF Aged
<1>3. Aged(q) = [i \in DOMAIN Aged(q) |-> Aged(q)[i]]
  BY DEF Aged
<1>4. QED
  BY <1>1, <1>2, <1>3 DEF Follows, IsRows, RowsOver, Due

-----------------------------------------------------------------------------
\* Saving.

\* The rows part of the type invariant.
RowsTyped ==
  /\ created \in Nat
  /\ IsRows(outbox, created) /\ IsRows(disk, created)
  /\ saveFailed \in BOOLEAN /\ failures \in Nat

\* Ids that fit below n fit below a larger one.
LEMMA IsRowsWeaken ==
  ASSUME NEW q, NEW m \in Nat, NEW n \in Nat, m <= n, IsRows(q, m)
  PROVE  IsRows(q, n)
BY DEF IsRows

\* Saving changes nothing about the rows but that a page may follow them.
LEMMA PersistFollows ==
  ASSUME RowsTyped, NEW q, NEW n \in Nat, created <= n, IsRows(q, n), Persist(q, n)
  PROVE  RowsTyped' /\ Follows(q, n, outbox', created') /\ (~saveFailed' => disk' = outbox')
<1>1. IsRows(disk, n)
  BY IsRowsWeaken DEF RowsTyped
<1>2. CASE outbox' = q /\ disk' = q /\ created' = n /\ saveFailed' = FALSE /\ UNCHANGED failures
  BY <1>2, FollowsItself DEF RowsTyped, IsRows
<1>3. CASE /\ failures' = failures + 1 /\ saveFailed' = TRUE /\ disk' \in {disk, q}
           /\ outbox' = q /\ created' = n
  BY <1>1, <1>3, FollowsItself DEF RowsTyped, IsRows
<1>4. CASE /\ failures' = failures + 1 /\ saveFailed' = TRUE /\ disk' \in {disk, q}
           /\ Admin # None
           /\ outbox' = Enqueued(q, n, <<Fresh(Admin, "escalation")>>) /\ created' = n + 1
  <2>1. Fresh(Admin, "escalation") \in Open
    BY <1>4, FreshIsRow, OutboxAssumption DEF Purpose
  <2>2. Follows(q, n, outbox', created')
    <3>1. /\ <<Fresh(Admin, "escalation")>> \in Seq(Open)
          /\ Len(<<Fresh(Admin, "escalation")>>) = 1
      BY <2>1
    <3>2. QED
      BY <1>4, <3>1, EnqueuedFollows
  <2>3. IsRows(disk', created')
    BY <1>1, <1>4 DEF IsRows
  <2>4. QED
    BY <1>4, <2>2, <2>3 DEF RowsTyped, Follows, IsRows
<1>5. QED
  BY <1>2, <1>3, <1>4 DEF Persist

\* The same for a handler that saves only when it changed something.
LEMMA SaveIfFollows ==
  ASSUME RowsTyped, NEW c, NEW q, NEW n \in Nat, created <= n, IsRows(q, n), SaveIf(c, q, n)
  PROVE  RowsTyped' /\ Follows(q, n, outbox', created')
<1>1. CASE c
  BY <1>1, PersistFollows DEF SaveIf
<1>2. CASE ~c
  BY <1>2, IsRowsWeaken, FollowsItself DEF SaveIf, RowsTyped, IsRows
<1>3. QED
  BY <1>1, <1>2

-----------------------------------------------------------------------------
\* The inductive invariant.

\* The rest of the type invariant.
FlightTyped ==
  /\ DOMAIN attempt = Pass /\ DOMAIN result = Pass
  /\ \A w \in Pass : /\ DOMAIN attempt[w] \subseteq 1..created
                     /\ RowsOver(attempt[w], Attempt)
                     /\ DOMAIN result[w] \subseteq DOMAIN attempt[w]
                     /\ RowsOver(result[w], BOOLEAN)
  /\ DOMAIN sending \subseteq 1..created /\ RowsOver(sending, Nat)
  /\ sendingTo \in [Recipient -> Nat]

HistoryTyped == eventLive \in BOOLEAN /\ acked \subseteq 1..created /\ crashes \in Nat

\* What a pass carries is owed, under the recipient it was copied with, and
\* marked.
Carried ==
  \A w \in Pass : \A i \in DOMAIN attempt[w] :
    /\ i \in DOMAIN outbox /\ ~outbox[i].delivered
    /\ outbox[i].to = attempt[w][i].to
    /\ i \in DOMAIN sending

\* The sends of pass w to recipient r.
SendsTo(w, r) == {i \in DOMAIN attempt[w] : attempt[w][i].to = r}

\* A recipient some pass is sending to is counted with exactly its sends.
Counted == \A w \in Pass : \A r \in To(w) : sendingTo[r] = Cardinality(SendsTo(w, r))

\* A row a channel accepted and that is still owed waits for its booking.
AcceptedIsCarried ==
  \A i \in acked : i \in DOMAIN outbox /\ ~outbox[i].delivered =>
    \E w \in Pass : i \in DOMAIN result[w] /\ result[w][i]

IInv == /\ RowsTyped /\ FlightTyped /\ HistoryTyped
        /\ Carried /\ OneSenderPerRecipient /\ Counted /\ AcceptedIsCarried

\* The parts of the type invariant are the type invariant.
LEMMA TypeOKParts == TypeOK <=> RowsTyped /\ FlightTyped /\ HistoryTyped
BY DEF TypeOK, RowsTyped, FlightTyped, HistoryTyped, IsRows

\* No row is both accepted and about to be sent.
LEMMA IInvNoResend == IInv => NoResend
<1> SUFFICES ASSUME IInv, NEW w \in Pass, NEW i \in DOMAIN attempt[w],
                    i \notin DOMAIN result[w], i \in acked
             PROVE  FALSE
  BY DEF NoResend
<1>1. i \in DOMAIN outbox /\ ~outbox[i].delivered /\ outbox[i].to = attempt[w][i].to
  BY DEF IInv, Carried
<1>2. PICK v \in Pass : i \in DOMAIN result[v]
  BY <1>1 DEF IInv, AcceptedIsCarried
<1>3. i \in DOMAIN attempt[v] /\ attempt[v][i].to = attempt[w][i].to
  BY <1>1, <1>2 DEF IInv, Carried, FlightTyped
<1>4. attempt[w][i].to \in To(v) \cap To(w)
  BY <1>3 DEF To
<1>5. QED
  BY <1>2, <1>4 DEF IInv, OneSenderPerRecipient

\* A recipient a pass is sending to is marked, so no other pass picks it up.
LEMMA BusyRecipientIsMarked ==
  ASSUME IInv, NEW w \in Pass, NEW r \in To(w)
  PROVE  sendingTo[r] # 0
<1>1. IsFiniteSet(1..created)
  BY FS_Interval DEF IInv, RowsTyped
<1>2. SendsTo(w, r) \subseteq 1..created /\ SendsTo(w, r) # {}
  BY DEF IInv, FlightTyped, SendsTo, To
<1>3. IsFiniteSet(SendsTo(w, r))
  BY <1>1, <1>2, FS_Subset
<1>4. Cardinality(SendsTo(w, r)) # 0
  BY <1>2, <1>3, FS_EmptySet
<1>5. QED
  BY <1>4 DEF IInv, Counted

\* Initially nothing is out.
LEMMA InitIInv == Init => IInv
<1> SUFFICES ASSUME Init PROVE IInv
  OBVIOUS
<1>1. RowsTyped /\ HistoryTyped
  BY DEF Init, RowsTyped, HistoryTyped, IsRows, RowsOver, Nothing
<1>2. \A w \in Pass : DOMAIN attempt[w] = {} /\ DOMAIN result[w] = {}
  BY DEF Init, Nothing
<1>3. FlightTyped
  BY <1>1, <1>2 DEF Init, FlightTyped, RowsOver, Nothing
<1>4. Carried /\ OneSenderPerRecipient /\ Counted
  BY <1>2 DEF Carried, OneSenderPerRecipient, Counted, To
<1>5. AcceptedIsCarried
  BY DEF Init, AcceptedIsCarried
<1>6. QED
  BY <1>1, <1>3, <1>4, <1>5 DEF IInv

-----------------------------------------------------------------------------
\* Each kind of step keeps the invariant.

\* A step that touches only rows, and re-arms at most, keeps the invariant.
LEMMA QuietStep ==
  ASSUME IInv, RowsTyped', Follows(outbox, created, outbox', created'),
         DOMAIN sending' = DOMAIN sending, RowsOver(sending', Nat),
         UNCHANGED <<attempt, result, sendingTo, acked>>,
         eventLive' \in BOOLEAN, crashes' \in Nat
  PROVE  IInv'
<1>1. created' \in Nat /\ created <= created' /\ created \in Nat
  BY DEF Follows, IInv, RowsTyped
<1>2. FlightTyped' /\ HistoryTyped'
  BY <1>1 DEF IInv, FlightTyped, HistoryTyped
<1>3. Carried'
  BY DEF IInv, Carried, Follows
<1>4. OneSenderPerRecipient' /\ Counted'
  <2>1. \A w \in Pass : To(w)' = To(w)
    BY DEF To
  <2>2. \A w \in Pass : \A r \in To(w) : SendsTo(w, r)' = SendsTo(w, r)
    BY DEF SendsTo
  <2>3. QED
    BY <2>1, <2>2 DEF IInv, OneSenderPerRecipient, Counted
<1>5. AcceptedIsCarried'
  <2> SUFFICES ASSUME NEW i \in acked', i \in DOMAIN outbox', ~outbox'[i].delivered
               PROVE  \E w \in Pass : i \in DOMAIN result'[w] /\ result'[w][i]
    BY DEF AcceptedIsCarried
  <2>1. i \in acked /\ i \in 1..created
    BY DEF IInv, HistoryTyped
  <2>2. i \in DOMAIN outbox /\ ~outbox[i].delivered
    BY <1>1, <2>1 DEF Follows
  <2>3. QED
    BY <2>1, <2>2 DEF IInv, AcceptedIsCarried
<1>6. QED
  BY <1>2, <1>3, <1>4, <1>5 DEF IInv

\* A pass that takes due rows of unmarked recipients keeps the invariant, given
\* the rows (q, n) it chose from and the rows it leaves behind.
LEMMA DepartStep ==
  ASSUME IInv, NEW w \in Pass, NEW q, NEW n \in Nat, NEW only, Idle(w),
         Follows(outbox, created, q, n), RowsTyped', Follows(q, n, outbox', created'),
         Depart(w, q, Takes(q, only)),
         UNCHANGED <<eventLive, acked, crashes>>
  PROVE  IInv'
<1> DEFINE taken == Takes(q, only)
<1>1. /\ created \in Nat /\ n \in Nat /\ created' \in Nat
      /\ created <= n /\ n <= created' /\ created <= created'
  BY DEF Follows, IInv, RowsTyped
<1>2. /\ taken \subseteq DOMAIN q /\ taken \subseteq 1..n /\ taken \subseteq DOMAIN outbox'
      /\ \A i \in taken : /\ q[i] \in Row /\ ~q[i].delivered
                          /\ sendingTo[q[i].to] = 0
                          /\ ~outbox'[i].delivered /\ outbox'[i].to = q[i].to
  BY DEF Takes, Due, Follows, IsRows, RowsOver
<1>3. /\ attempt' = [attempt EXCEPT ![w] =
                       [i \in taken |-> [to |-> q[i].to, attempts |-> q[i].attempts]]]
      /\ sending' = [i \in DOMAIN sending \cup taken |->
                       IF i \in taken THEN 0 ELSE sending[i]]
      /\ sendingTo' = [r \in Recipient |->
                         sendingTo[r] + Cardinality({i \in taken : q[i].to = r})]
      /\ result' = result
  BY DEF Depart
<1>4. DOMAIN attempt[w] = {} /\ DOMAIN result[w] = {}
  BY DEF Idle, Nothing, IInv, FlightTyped
<1> HIDE DEF taken
<1>5. /\ DOMAIN attempt' = Pass
      /\ attempt'[w] = [i \in taken |-> [to |-> q[i].to, attempts |-> q[i].attempts]]
      /\ \A v \in Pass \ {w} : attempt'[v] = attempt[v]
  BY <1>3 DEF IInv, FlightTyped
<1>6. \A r \in Recipient : /\ Cardinality({i \in taken : q[i].to = r}) \in Nat
                           /\ (\A i \in taken : q[i].to # r) =>
                                Cardinality({i \in taken : q[i].to = r}) = 0
  <2> SUFFICES ASSUME NEW r \in Recipient
               PROVE  /\ Cardinality({i \in taken : q[i].to = r}) \in Nat
                      /\ (\A i \in taken : q[i].to # r) =>
                           Cardinality({i \in taken : q[i].to = r}) = 0
    OBVIOUS
  <2>1. IsFiniteSet(1..n) /\ {i \in taken : q[i].to = r} \subseteq 1..n
    BY <1>1, <1>2, FS_Interval
  <2>2. IsFiniteSet({i \in taken : q[i].to = r})
    BY <2>1, FS_Subset
  <2>3. (\A i \in taken : q[i].to # r) => {i \in taken : q[i].to = r} = {}
    OBVIOUS
  <2>4. QED
    BY <2>2, <2>3, FS_CardinalityType, FS_EmptySet
<1>7. FlightTyped'
  <2>1. RowsOver(attempt'[w], Attempt)
    BY <1>2, <1>5 DEF RowsOver, Attempt, Row
  <2>2. \A v \in Pass : /\ DOMAIN attempt'[v] \subseteq 1..created'
                        /\ RowsOver(attempt'[v], Attempt)
                        /\ DOMAIN result'[v] \subseteq DOMAIN attempt'[v]
                        /\ RowsOver(result'[v], BOOLEAN)
    BY <1>1, <1>2, <1>3, <1>4, <1>5, <2>1 DEF IInv, FlightTyped
  <2>3. DOMAIN sending' \subseteq 1..created' /\ RowsOver(sending', Nat)
    BY <1>1, <1>2, <1>3 DEF IInv, FlightTyped, RowsOver
  <2>4. sendingTo' \in [Recipient -> Nat]
    BY <1>3, <1>6 DEF IInv, FlightTyped
  <2>5. QED
    BY <1>3, <1>5, <2>2, <2>3, <2>4 DEF IInv, FlightTyped
<1>8. HistoryTyped'
  BY <1>1 DEF IInv, HistoryTyped
<1>9. Carried'
  <2> SUFFICES ASSUME NEW v \in Pass, NEW i \in DOMAIN attempt'[v]
               PROVE  /\ i \in DOMAIN outbox' /\ ~outbox'[i].delivered
                      /\ outbox'[i].to = attempt'[v][i].to
                      /\ i \in DOMAIN sending'
    BY DEF Carried
  <2>1. CASE v = w
    BY <1>2, <1>3, <1>5, <2>1
  <2>2. CASE v # w
    <3>1. /\ i \in DOMAIN outbox /\ ~outbox[i].delivered
          /\ outbox[i].to = attempt'[v][i].to /\ i \in DOMAIN sending
      BY <1>5, <2>2 DEF IInv, Carried
    <3>2. i \in DOMAIN outbox' /\ ~outbox'[i].delivered /\ outbox'[i].to = outbox[i].to
      BY <3>1 DEF Follows
    <3>3. QED
      BY <1>3, <3>1, <3>2
  <2>3. QED
    BY <2>1, <2>2
<1>10. /\ To(w)' = {q[i].to : i \in taken}
       /\ \A v \in Pass \ {w} : To(v)' = To(v)
  BY <1>5 DEF To
<1>11. \A v \in Pass : \A r \in To(v) : r \notin To(w)'
  BY <1>2, <1>10, BusyRecipientIsMarked
<1>12. OneSenderPerRecipient'
  BY <1>10, <1>11 DEF IInv, OneSenderPerRecipient
<1>13. Counted'
  <2> SUFFICES ASSUME NEW v \in Pass, NEW r \in To(v)'
               PROVE  sendingTo'[r] = Cardinality(SendsTo(v, r)')
    BY DEF Counted
  <2>1. CASE v = w
    <3>1. SendsTo(v, r)' = {i \in taken : q[i].to = r}
      BY <1>5, <2>1 DEF SendsTo
    <3>2. sendingTo[r] = 0 /\ r \in Recipient
      BY <1>2, <1>10, <2>1 DEF Row
    <3>3. QED
      BY <1>3, <1>6, <3>1, <3>2
  <2>2. CASE v # w
    <3>1. SendsTo(v, r)' = SendsTo(v, r) /\ r \in To(v)
      BY <1>5, <1>10, <2>2 DEF SendsTo
    <3>2. r \in Recipient /\ \A i \in taken : q[i].to # r
      <4>1. r \in Recipient
        BY <3>1 DEF To, IInv, FlightTyped, RowsOver, Attempt
      <4>2. QED
        BY <1>10, <1>11, <3>1, <4>1
    <3>3. sendingTo'[r] = sendingTo[r] + 0 /\ sendingTo[r] \in Nat
      BY <1>3, <1>6, <3>2 DEF IInv, FlightTyped
    <3>4. QED
      BY <3>1, <3>3 DEF IInv, Counted
  <2>3. QED
    BY <2>1, <2>2
<1>14. AcceptedIsCarried'
  <2> SUFFICES ASSUME NEW i \in acked', i \in DOMAIN outbox', ~outbox'[i].delivered
               PROVE  \E v \in Pass : i \in DOMAIN result'[v] /\ result'[v][i]
    BY DEF AcceptedIsCarried
  <2>1. i \in acked /\ i \in 1..created
    BY DEF IInv, HistoryTyped
  <2>2. i \in DOMAIN q /\ ~q[i].delivered
    BY <1>1, <2>1 DEF Follows
  <2>3. i \in DOMAIN outbox /\ ~outbox[i].delivered
    BY <1>1, <2>1, <2>2 DEF Follows
  <2>4. QED
    BY <1>3, <2>1, <2>3 DEF IInv, AcceptedIsCarried
<1>15. QED
  BY <1>7, <1>8, <1>9, <1>12, <1>13, <1>14 DEF IInv

\* A send that comes back keeps the invariant.
LEMMA SendStep ==
  ASSUME IInv, NEW w \in Pass, NEW i \in DOMAIN attempt[w], NEW ok \in BOOLEAN, Send(w, i, ok)
  PROVE  IInv'
<1>1. /\ UNCHANGED <<rows, attempt, sending, sendingTo, eventLive, crashes>>
      /\ i \notin DOMAIN result[w]
      /\ result' = [result EXCEPT ![w] =
                      [j \in DOMAIN result[w] \cup {i} |-> IF j = i THEN ok ELSE result[w][j]]]
      /\ acked' = IF ok THEN acked \cup {i} ELSE acked
  BY DEF Send
<1>2. /\ DOMAIN result' = Pass
      /\ result'[w] = [j \in DOMAIN result[w] \cup {i} |-> IF j = i THEN ok ELSE result[w][j]]
      /\ \A v \in Pass \ {w} : result'[v] = result[v]
  BY <1>1 DEF IInv, FlightTyped
<1>3. RowsTyped'
  BY <1>1 DEF IInv, RowsTyped, rows
<1>4. FlightTyped'
  <2>1. RowsOver(result'[w], BOOLEAN)
    BY <1>2 DEF IInv, FlightTyped, RowsOver
  <2>2. QED
    BY <1>1, <1>2, <2>1 DEF IInv, FlightTyped, rows
<1>5. HistoryTyped'
  BY <1>1 DEF IInv, HistoryTyped, FlightTyped, rows
<1>6. Carried' /\ OneSenderPerRecipient' /\ Counted'
  <2>1. \A v \in Pass : To(v)' = To(v)
    BY <1>1 DEF To
  <2>2. \A v \in Pass : \A r \in To(v) : SendsTo(v, r)' = SendsTo(v, r)
    BY <1>1 DEF SendsTo
  <2>3. OneSenderPerRecipient' /\ Counted'
    BY <1>1, <2>1, <2>2 DEF IInv, OneSenderPerRecipient, Counted
  <2>4. QED
    BY <1>1, <2>3 DEF IInv, Carried, rows
<1>7. AcceptedIsCarried'
  <2> SUFFICES ASSUME NEW j \in acked', j \in DOMAIN outbox', ~outbox'[j].delivered
               PROVE  \E v \in Pass : j \in DOMAIN result'[v] /\ result'[v][j]
    BY DEF AcceptedIsCarried
  <2>1. CASE j = i /\ ok
    BY <1>2, <2>1
  <2>2. CASE j \in acked
    <3>1. PICK v \in Pass : j \in DOMAIN result[v] /\ result[v][j]
      BY <1>1, <2>2 DEF IInv, AcceptedIsCarried, rows
    <3>2. j \in DOMAIN result'[v] /\ result'[v][j]
      BY <1>1, <1>2, <3>1
    <3>3. QED
      BY <3>2
  <2>3. QED
    BY <1>1, <2>1, <2>2
<1>8. QED
  BY <1>3, <1>4, <1>5, <1>6, <1>7 DEF IInv

\* Booking a row keeps it a row of the same recipient; an accepted one is
\* delivered afterwards, and no other changes sides.
LEMMA BookedIsRow ==
  ASSUME IInv, NEW w \in Pass, NEW i \in DOMAIN attempt[w], i \in DOMAIN result[w]
  PROVE  /\ Booked(w, i) \in Row
         /\ Booked(w, i).to = outbox[i].to
         /\ Booked(w, i).delivered <=> result[w][i]
<1> DEFINE n == attempt[w][i].attempts + 1
           b == Backoff(n)
<1>1. outbox[i] \in Row /\ ~outbox[i].delivered
  BY DEF IInv, RowsTyped, IsRows, RowsOver, Carried
<1>2. n \in Nat
  BY DEF IInv, FlightTyped, RowsOver, Attempt
<1>3. b \in Nat
  <2>1. Doubling(n) \in Nat
    BY <1>2 DEF Doubling
  <2>2. QED
    BY <2>1, OutboxAssumption DEF Backoff
<1>4. result[w][i] \in BOOLEAN
  BY DEF IInv, FlightTyped, RowsOver
<1> HIDE DEF n, b
<1>5. CASE result[w][i]
  <2>1. Booked(w, i) = [outbox[i] EXCEPT !.attempts = n, !.delivered = TRUE, !.wait = 0, !.age = 0]
    BY <1>1, <1>5 DEF Booked, n
  <2>2. /\ [outbox[i] EXCEPT !.attempts = n, !.delivered = TRUE, !.wait = 0, !.age = 0] \in Row
        /\ [outbox[i] EXCEPT !.attempts = n, !.delivered = TRUE, !.wait = 0, !.age = 0].to
             = outbox[i].to
        /\ [outbox[i] EXCEPT !.attempts = n, !.delivered = TRUE, !.wait = 0, !.age = 0].delivered
    BY <1>1, <1>2 DEF Row
  <2>3. QED
    BY <1>5, <2>1, <2>2
<1>6. CASE ~result[w][i] /\ Rearmed(i)
  <2>1. Booked(w, i) = outbox[i]
    BY <1>1, <1>6 DEF Booked
  <2>2. QED
    BY <1>1, <1>4, <1>6, <2>1 DEF Row
<1>7. CASE ~result[w][i] /\ ~Rearmed(i)
  <2>1. Booked(w, i) = [outbox[i] EXCEPT !.attempts = n, !.wait = b]
    BY <1>1, <1>7 DEF Booked, n, b
  <2>2. QED
    BY <1>1, <1>2, <1>3, <1>4, <1>7, <2>1 DEF Row
<1>8. QED
  BY <1>4, <1>5, <1>6, <1>7

\* Booking a finished pass keeps the invariant.
LEMMA BookStep ==
  ASSUME IInv, NEW w \in Pass, Book(w)
  PROVE  IInv'
<1> DEFINE booked == AllBooked(w)
           mine   == DOMAIN attempt[w]
<1>1. /\ DOMAIN result[w] = mine
      /\ Arrive(w) /\ SaveIf(Changed(w), booked, created)
      /\ UNCHANGED <<eventLive, acked, crashes>>
  BY DEF Book
<1>2. created \in Nat /\ IsRows(outbox, created) /\ RowsTyped
  BY DEF IInv, RowsTyped
<1>3. /\ DOMAIN booked = DOMAIN outbox
      /\ \A i \in mine : i \in DOMAIN outbox /\ booked[i] = Booked(w, i)
      /\ \A i \in DOMAIN outbox \ mine : booked[i] = outbox[i]
      /\ booked = [i \in DOMAIN booked |-> booked[i]]
  BY DEF AllBooked, IInv, Carried
<1>4. \A i \in mine : /\ booked[i] \in Row /\ booked[i].to = outbox[i].to
                      /\ booked[i].delivered <=> result[w][i]
  BY <1>1, <1>3, BookedIsRow
<1> HIDE DEF booked, mine
<1>5. IsRows(booked, created)
  BY <1>2, <1>3, <1>4 DEF IsRows, RowsOver
<1>6. RowsTyped' /\ Follows(booked, created, outbox', created')
  BY <1>1, <1>2, <1>5, SaveIfFollows
<1>7. created' \in Nat /\ created <= created'
  BY <1>6 DEF Follows
<1>8. /\ DOMAIN attempt' = Pass /\ DOMAIN result' = Pass
      /\ DOMAIN attempt'[w] = {} /\ DOMAIN result'[w] = {}
      /\ \A v \in Pass \ {w} : attempt'[v] = attempt[v] /\ result'[v] = result[v]
      /\ sending' = [i \in DOMAIN sending \ mine |-> sending[i]]
      /\ sendingTo' = [r \in Recipient |->
                         FloorZero(sendingTo[r] - Cardinality(SendsTo(w, r)))]
  BY <1>1 DEF Arrive, Nothing, IInv, FlightTyped, SendsTo, mine
<1>9. \A r \in Recipient : /\ Cardinality(SendsTo(w, r)) \in Nat
                           /\ r \notin To(w) => Cardinality(SendsTo(w, r)) = 0
  <2> SUFFICES ASSUME NEW r \in Recipient
               PROVE  /\ Cardinality(SendsTo(w, r)) \in Nat
                      /\ r \notin To(w) => Cardinality(SendsTo(w, r)) = 0
    OBVIOUS
  <2>1. IsFiniteSet(1..created)
    BY <1>2, FS_Interval
  <2>2. SendsTo(w, r) \subseteq 1..created
    BY DEF SendsTo, IInv, FlightTyped
  <2>3. r \notin To(w) => SendsTo(w, r) = {}
    BY DEF SendsTo, To
  <2>4. QED
    BY <2>1, <2>2, <2>3, FS_Subset, FS_CardinalityType, FS_EmptySet
<1>10. FlightTyped'
  <2>1. sendingTo' \in [Recipient -> Nat]
    <3>1. \A r \in Recipient : sendingTo[r] \in Nat /\ Cardinality(SendsTo(w, r)) \in Nat
      BY <1>9 DEF IInv, FlightTyped
    <3>2. \A r \in Recipient : FloorZero(sendingTo[r] - Cardinality(SendsTo(w, r))) \in Nat
      BY <3>1 DEF FloorZero
    <3>3. QED
      BY <1>8, <3>2
  <2>2. DOMAIN sending' \subseteq 1..created' /\ RowsOver(sending', Nat)
    BY <1>2, <1>7, <1>8 DEF IInv, FlightTyped, RowsOver
  <2>3. attempt'[w] = Nothing /\ result'[w] = Nothing
    BY <1>1 DEF Arrive, IInv, FlightTyped
  <2>4. \A v \in Pass : /\ DOMAIN attempt'[v] \subseteq 1..created'
                        /\ RowsOver(attempt'[v], Attempt)
                        /\ DOMAIN result'[v] \subseteq DOMAIN attempt'[v]
                        /\ RowsOver(result'[v], BOOLEAN)
    <3> SUFFICES ASSUME NEW v \in Pass
                 PROVE  /\ DOMAIN attempt'[v] \subseteq 1..created'
                        /\ RowsOver(attempt'[v], Attempt)
                        /\ DOMAIN result'[v] \subseteq DOMAIN attempt'[v]
                        /\ RowsOver(result'[v], BOOLEAN)
      OBVIOUS
    <3>1. CASE v = w
      BY <1>8, <2>3, <3>1 DEF RowsOver, Nothing
    <3>2. CASE v # w
      BY <1>2, <1>7, <1>8, <3>2 DEF IInv, FlightTyped
    <3>3. QED
      BY <3>1, <3>2
  <2>5. QED
    BY <1>8, <2>1, <2>2, <2>4 DEF FlightTyped
<1>11. HistoryTyped'
  BY <1>1, <1>2, <1>7 DEF IInv, HistoryTyped
<1>12. To(w)' = {} /\ \A v \in Pass \ {w} : To(v)' = To(v) /\ To(v) \cap To(w) = {}
  BY <1>8 DEF To, IInv, OneSenderPerRecipient
<1>13. Carried'
  <2> SUFFICES ASSUME NEW v \in Pass, NEW i \in DOMAIN attempt'[v]
               PROVE  /\ i \in DOMAIN outbox' /\ ~outbox'[i].delivered
                      /\ outbox'[i].to = attempt'[v][i].to
                      /\ i \in DOMAIN sending'
    BY DEF Carried
  <2>1. v # w /\ i \in DOMAIN attempt[v] /\ attempt'[v] = attempt[v]
    BY <1>8
  <2>2. /\ i \in DOMAIN outbox /\ ~outbox[i].delivered
        /\ outbox[i].to = attempt[v][i].to /\ i \in DOMAIN sending
    BY <2>1 DEF IInv, Carried
  <2>3. i \notin mine
    <3>1. attempt[v][i].to \in To(v)
      BY <2>1 DEF To
    <3>2. attempt[v][i].to \notin To(w)
      BY <1>12, <2>1, <3>1
    <3>3. i \in mine => attempt[w][i].to = attempt[v][i].to
      BY <2>2 DEF IInv, Carried, mine
    <3>4. QED
      BY <3>2, <3>3 DEF To, mine
  <2>4. i \in DOMAIN booked /\ booked[i] = outbox[i]
    BY <1>3, <2>2, <2>3
  <2>5. /\ i \in DOMAIN outbox' /\ outbox'[i].to = outbox[i].to
        /\ outbox'[i].delivered = outbox[i].delivered
    BY <1>6, <2>2, <2>4 DEF Follows
  <2>6. QED
    BY <1>8, <2>1, <2>2, <2>3, <2>5
<1>14. OneSenderPerRecipient'
  BY <1>12 DEF IInv, OneSenderPerRecipient
<1>15. Counted'
  <2> SUFFICES ASSUME NEW v \in Pass, NEW r \in To(v)'
               PROVE  sendingTo'[r] = Cardinality(SendsTo(v, r)')
    BY DEF Counted
  <2>1. v # w /\ r \in To(v) /\ r \notin To(w) /\ SendsTo(v, r)' = SendsTo(v, r)
    BY <1>8, <1>12 DEF SendsTo
  <2>2. r \in Recipient
    BY <2>1 DEF To, IInv, FlightTyped, RowsOver, Attempt
  <2>3. sendingTo'[r] = FloorZero(sendingTo[r] - 0) /\ sendingTo[r] \in Nat
    BY <1>8, <1>9, <2>1, <2>2 DEF IInv, FlightTyped
  <2>4. sendingTo'[r] = sendingTo[r]
    BY <2>3 DEF FloorZero
  <2>5. QED
    BY <2>1, <2>4 DEF IInv, Counted
<1>16. AcceptedIsCarried'
  <2> SUFFICES ASSUME NEW i \in acked', i \in DOMAIN outbox', ~outbox'[i].delivered
               PROVE  \E v \in Pass : i \in DOMAIN result'[v] /\ result'[v][i]
    BY DEF AcceptedIsCarried
  <2>1. i \in acked /\ i \in 1..created
    BY <1>1 DEF IInv, HistoryTyped
  <2>2. i \in DOMAIN booked /\ ~booked[i].delivered /\ i \in DOMAIN outbox
    BY <1>2, <1>3, <1>6, <2>1 DEF Follows
  <2>3. ~outbox[i].delivered
    BY <1>3, <2>2 DEF IInv, Carried, mine
  <2>4. PICK v \in Pass : i \in DOMAIN result[v] /\ result[v][i]
    BY <2>1, <2>2, <2>3 DEF IInv, AcceptedIsCarried
  <2>5. v # w
    BY <1>1, <1>4, <2>2, <2>4
  <2>6. QED
    BY <1>8, <2>4, <2>5
<1>17. QED
  BY <1>6, <1>10, <1>11, <1>13, <1>14, <1>15, <1>16 DEF IInv

\* A kill and restart keeps the invariant.
LEMMA CrashStep ==
  ASSUME IInv, Crash
  PROVE  IInv'
<1>1. RowsTyped' /\ HistoryTyped'
  <2>1. RowsTyped'
    BY DEF Crash, IInv, RowsTyped, IsRows
  <2>2. HistoryTyped'
    BY DEF Crash, IInv, HistoryTyped
  <2>3. QED
    BY <2>1, <2>2
<1>2. \A w \in Pass : DOMAIN attempt'[w] = {} /\ DOMAIN result'[w] = {}
  BY DEF Crash, Nothing
<1>3. FlightTyped'
  BY <1>2 DEF Crash, FlightTyped, RowsOver, Nothing
<1>4. Carried' /\ OneSenderPerRecipient' /\ Counted'
  BY <1>2 DEF Carried, OneSenderPerRecipient, Counted, To
<1>5. AcceptedIsCarried'
  BY DEF Crash, AcceptedIsCarried
<1>6. QED
  BY <1>1, <1>3, <1>4, <1>5 DEF IInv

-----------------------------------------------------------------------------
\* The kinds of steps.

\* A step that touches only rows, books nothing and re-arms at most.
Quiet ==
  /\ RowsTyped' /\ Follows(outbox, created, outbox', created')
  /\ DOMAIN sending' = DOMAIN sending /\ RowsOver(sending', Nat)
  /\ \A i \in DOMAIN sending : sending'[i] = sending[i] \/ Due(outbox', i)
  /\ UNCHANGED <<attempt, result, sendingTo, acked, crashes>>
  /\ eventLive' \in BOOLEAN

\* Pass w takes rows of (q, n), the rows other parts of the step queued.
Departs(w, q, n, only) ==
  /\ Idle(w) /\ Depart(w, q, Takes(q, only))
  /\ RowsTyped' /\ Follows(outbox, created, q, n) /\ Follows(q, n, outbox', created')
  /\ UNCHANGED <<eventLive, acked, crashes>>

\* Whatever the service does to the outbox is one of these: nothing but rows
\* change, a pass departs, a send comes back, a pass books, or the process dies.
LEMMA StepKinds ==
  ASSUME IInv, [Next]_vars
  PROVE  \/ Quiet
         \/ \E w \in Pass, n \in Nat : \E q, only : Departs(w, q, n, only)
         \/ \E w \in Pass : SendNext(w) \/ Book(w)
         \/ Crash
<1> DEFINE Departure == \E w \in Pass, n \in Nat : \E q, only : Departs(w, q, n, only)
<1> USE DEF flight
<1>1. /\ created \in Nat /\ IsRows(outbox, created) /\ RowsTyped
      /\ eventLive \in BOOLEAN /\ crashes \in Nat /\ RowsOver(sending, Nat)
  BY DEF IInv, RowsTyped, HistoryTyped, FlightTyped
<1>2. ASSUME NEW batch \in Seq(Open)
      PROVE  /\ created + Len(batch) \in Nat /\ created <= created + Len(batch)
             /\ IsRows(Enqueued(outbox, created, batch), created + Len(batch))
             /\ Follows(outbox, created, Enqueued(outbox, created, batch), created + Len(batch))
  BY <1>1, EnqueuedFollows DEF Follows
<1>3. ASSUME NEW batch \in Batches(NewRow), Enqueue(batch)
      PROVE  Quiet
  <2> DEFINE q == Enqueued(outbox, created, batch)
             n == created + Len(batch)
  <2>1. n \in Nat /\ created <= n /\ IsRows(q, n) /\ Follows(outbox, created, q, n)
    BY <1>2, BatchIsRows
  <2>2. Persist(q, n)
    BY <1>3 DEF Enqueue
  <2> HIDE DEF q, n
  <2>3. RowsTyped' /\ Follows(q, n, outbox', created')
    BY <1>1, <2>1, <2>2, PersistFollows
  <2>4. Follows(outbox, created, outbox', created')
    BY <1>1, <2>1, <2>3, FollowsTransitive DEF RowsTyped
  <2>5. /\ UNCHANGED <<attempt, result, sending, sendingTo, acked, crashes>>
        /\ eventLive' \in BOOLEAN
    BY <1>3 DEF Enqueue
  <2>6. QED
    BY <1>1, <2>3, <2>4, <2>5 DEF Quiet
<1>4. ASSUME NEW w \in Pass, NEW q, NEW n \in Nat,
             IsRows(q, n), Follows(outbox, created, q, n), Deliver(w, q, n)
      PROVE  Departure
  <2> DEFINE kept == Pruned(Escalated(q, n))
             last == CreatedWithPages(q, n)
             changed == TickChanged(q)
  <2>1. Follows(q, n, Escalated(q, n), last)
    BY <1>4, EscalatedFollows
  <2>2. last \in Nat /\ n <= last /\ IsRows(Escalated(q, n), last)
    BY <2>1 DEF Follows
  <2>3. Follows(Escalated(q, n), last, kept, last)
    BY <2>2, PrunedFollows
  <2>4. Follows(q, n, kept, last) /\ IsRows(kept, last)
    BY <1>4, <2>1, <2>2, <2>3, FollowsTransitive DEF Follows
  <2>5. created <= last
    BY <1>1, <1>4, <2>2 DEF Follows
  <2>6. SaveIf(changed, kept, last)
    BY <1>4 DEF Deliver
  <2> HIDE DEF kept, last, changed
  <2>7. RowsTyped' /\ Follows(kept, last, outbox', created')
    BY <1>1, <2>2, <2>4, <2>5, <2>6, SaveIfFollows
  <2>8. Follows(q, n, outbox', created')
    BY <1>4, <2>2, <2>4, <2>7, FollowsTransitive DEF RowsTyped
  <2>9. /\ Idle(w) /\ Depart(w, q, Takes(q, DOMAIN q))
        /\ UNCHANGED <<eventLive, acked, crashes>>
    BY <1>4 DEF Deliver
  <2>10. QED
    BY <1>4, <2>7, <2>8, <2>9 DEF Departs
<1>5. ASSUME NEW w \in Pass, Tick(w)
      PROVE  Departure
  <2>1. CASE Deliver(w, outbox, created)
    BY <1>1, <1>4, <2>1, FollowsItself
  <2>2. ASSUME NEW batch \in Batches(NewRow),
               Deliver(w, Enqueued(outbox, created, batch), created + Len(batch))
        PROVE  Departure
    <3>1. batch \in Seq(Open)
      BY BatchIsRows
    <3>2. QED
      BY <1>2, <1>4, <2>2, <3>1
  <2>3. QED
    BY <1>5, <2>1, <2>2 DEF Tick
<1>6. ASSUME NEW w \in Pass, NEW to \in Batches(Recipient), SendTest(w, to)
      PROVE  Departure
  <2> DEFINE q == Enqueued(outbox, created, Tests(to))
             n == created + Len(to)
             last == CreatedWithPages(q, n)
  <2>1. n \in Nat /\ created <= n /\ IsRows(q, n) /\ Follows(outbox, created, q, n)
    BY <1>2, TestsAreRows
  <2>2. /\ Idle(w) /\ Depart(w, q, Takes(q, (created + 1)..n))
        /\ Persist(Escalated(q, n), last)
        /\ UNCHANGED <<eventLive, acked, crashes>>
    BY <1>6 DEF SendTest
  <2> HIDE DEF q
  <2>3. /\ Follows(q, n, Escalated(q, n), last)
        /\ last \in Nat /\ n <= last /\ IsRows(Escalated(q, n), last)
    BY <2>1, EscalatedFollows DEF Follows
  <2>4. created <= last
    BY <1>1, <2>1, <2>3
  <2> HIDE DEF n, last
  <2>5. RowsTyped' /\ Follows(Escalated(q, n), last, outbox', created')
    BY <1>1, <2>2, <2>3, <2>4, PersistFollows
  <2>6. Follows(q, n, outbox', created')
    BY <2>1, <2>3, <2>5, FollowsTransitive DEF RowsTyped
  <2>7. QED
    BY <2>1, <2>2, <2>5, <2>6 DEF Departs
<1>9. ASSUME NEW i \in DOMAIN outbox, RetryOutbox(i)
      PROVE  Quiet
  <2> DEFINE q == [outbox EXCEPT ![i].attempts = 0, ![i].wait = 0]
  <2>1. /\ Persist(q, created)
        /\ sending' = IF i \in DOMAIN sending THEN [sending EXCEPT ![i] = @ + 1] ELSE sending
        /\ UNCHANGED <<attempt, result, sendingTo, eventLive, acked, crashes>>
    BY <1>9 DEF RetryOutbox
  <2>2. DOMAIN sending' = DOMAIN sending /\ RowsOver(sending', Nat)
    BY <1>1, <2>1 DEF RowsOver
  <2>3. /\ DOMAIN q = DOMAIN outbox /\ q = [j \in DOMAIN q |-> q[j]]
        /\ q[i] = [outbox[i] EXCEPT !.attempts = 0, !.wait = 0]
        /\ \A j \in DOMAIN outbox \ {i} : q[j] = outbox[j]
    BY <1>1 DEF IsRows, RowsOver
  <2>4. /\ q[i] \in Row /\ q[i].to = outbox[i].to /\ q[i].delivered = outbox[i].delivered
        /\ q[i].attempts = 0 /\ q[i].wait = 0
    <3>1. outbox[i] \in Row
      BY <1>1 DEF IsRows, RowsOver
    <3>2. QED
      BY <2>3, <3>1 DEF Row
  <2> HIDE DEF q
  <2>5. IsRows(q, created) /\ Follows(outbox, created, q, created)
    <3>1. ASSUME NEW j \in DOMAIN q
          PROVE  /\ q[j] \in Row
                 /\ q[j].to = outbox[j].to /\ q[j].delivered = outbox[j].delivered
                 /\ Due(outbox, j) => Due(q, j)
      <4>1. CASE j = i
        BY <2>4, <4>1, OutboxAssumption DEF Due
      <4>2. CASE j # i
        BY <1>1, <2>3, <4>2 DEF IsRows, RowsOver, Due
      <4>3. QED
        BY <4>1, <4>2
    <3>2. IsRows(q, created)
      BY <1>1, <2>3, <3>1 DEF IsRows, RowsOver
    <3>3. QED
      BY <1>1, <2>3, <3>1, <3>2 DEF Follows
  <2>6. RowsTyped' /\ Follows(q, created, outbox', created')
    BY <1>1, <2>1, <2>5, PersistFollows
  <2>7. Follows(outbox, created, outbox', created')
    BY <1>1, <2>5, <2>6, FollowsTransitive DEF RowsTyped
  <2>8. \A j \in DOMAIN sending : sending'[j] = sending[j] \/ Due(outbox', j)
    <3>1. Due(q, i)
      BY <1>9, <2>3, <2>4, OutboxAssumption DEF Due, RetryOutbox
    <3>2. Due(outbox', i)
      BY <1>9, <2>3, <2>6, <3>1 DEF Follows, Due
    <3>3. QED
      BY <2>1, <3>2
  <2>9. QED
    BY <1>1, <2>1, <2>2, <2>6, <2>7, <2>8 DEF Quiet
<1>10. ASSUME DeleteEvent
       PROVE  Quiet
  <2>1. /\ Persist(outbox, created) /\ eventLive' \in BOOLEAN
        /\ UNCHANGED <<attempt, result, sending, sendingTo, acked, crashes>>
    BY <1>1, <1>10 DEF DeleteEvent
  <2>2. RowsTyped' /\ Follows(outbox, created, outbox', created')
    BY <1>1, <2>1, PersistFollows
  <2>3. QED
    BY <1>1, <2>1, <2>2 DEF Quiet
<1>11. ASSUME AdvanceTime
       PROVE  Quiet
  <2>1. /\ outbox' = Aged(outbox) /\ disk' = Aged(disk)
        /\ UNCHANGED <<created, saveFailed, failures, attempt, result, sending, sendingTo,
                       acked, crashes>>
        /\ eventLive' \in BOOLEAN
    BY <1>1, <1>11 DEF AdvanceTime
  <2>2. Follows(outbox, created, outbox', created')
    BY <1>1, <2>1, AgedFollows
  <2>3. IsRows(disk', created')
    BY <1>1, <2>1, AgedFollows DEF RowsTyped, Follows
  <2>4. RowsTyped'
    BY <1>1, <2>1, <2>2, <2>3 DEF RowsTyped, Follows
  <2>5. QED
    BY <1>1, <2>1, <2>2, <2>4 DEF Quiet
<1>12. ASSUME UNCHANGED vars
       PROVE  Quiet
  <2>1. UNCHANGED <<outbox, disk, created, saveFailed, failures, attempt, result, sending,
                    sendingTo, eventLive, acked, crashes>>
    BY <1>12 DEF vars, rows
  <2>2. RowsTyped' /\ Follows(outbox, created, outbox', created')
    BY <1>1, <2>1, FollowsItself DEF RowsTyped
  <2>3. QED
    BY <1>1, <2>1, <2>2 DEF Quiet
<1> HIDE DEF Departure
<1>13. Quiet \/ Departure \/ (\E w \in Pass : SendNext(w) \/ Book(w)) \/ Crash
  BY <1>3, <1>5, <1>6, <1>9, <1>10, <1>11, <1>12 DEF Next
<1>14. QED
  BY <1>13 DEF Departure

\* Every step of the outbox keeps the invariant.
LEMMA NextIInv == IInv /\ [Next]_vars => IInv'
<1> SUFFICES ASSUME IInv, [Next]_vars PROVE IInv'
  OBVIOUS
<1>1. CASE Quiet
  <2>1. crashes' \in Nat
    BY <1>1 DEF Quiet, IInv, HistoryTyped
  <2>2. QED
    BY <1>1, <2>1, QuietStep DEF Quiet
<1>2. ASSUME NEW w \in Pass, NEW n \in Nat, NEW q, NEW only, Departs(w, q, n, only)
      PROVE  IInv'
  BY <1>2, DepartStep DEF Departs
<1>3. ASSUME NEW w \in Pass, SendNext(w)
      PROVE  IInv'
  BY <1>3, SendStep DEF SendNext
<1>4. QED
  BY <1>1, <1>2, <1>3, BookStep, CrashStep, StepKinds

\* The invariant holds throughout.
LEMMA Invariance == Spec => []IInv
<1>1. QED
  BY InitIInv, NextIInv, PTL DEF Spec

\* Every reachable state of the outbox, its passes and its markers is well
\* formed.
THEOREM TypeCorrect == Spec => []TypeOK
<1>1. IInv => TypeOK
  BY TypeOKParts DEF IInv
<1>2. QED
  BY <1>1, Invariance, PTL

\* While the process runs, whatever passes overlap, rows are re-armed, events
\* change and writes fail, no message a channel accepted is sent again.
THEOREM NeverResent == Spec => []NoResend
<1>1. QED
  BY IInvNoResend, Invariance, PTL

\* No two passes are ever sending to the same recipient.
THEOREM RecipientsExclusive == Spec => []OneSenderPerRecipient
<1>1. IInv => OneSenderPerRecipient
  BY DEF IInv
<1>2. QED
  BY <1>1, Invariance, PTL

\* What a pass carries stays in the outbox, undelivered and marked, until that
\* pass books it.
THEOREM InFlightStaysOwed == Spec => []InFlightIsOwed
<1>1. IInv => InFlightIsOwed
  BY DEF IInv, Carried, InFlightIsOwed, InFlight
<1>2. QED
  BY <1>1, Invariance, PTL

-----------------------------------------------------------------------------
\* Durability.

\* Saving, or not having to, leaves disk and memory equal unless the write fails.
LEMMA SaveIfDurable ==
  ASSUME HealthyMeansDurable, NEW c, NEW q, NEW n, SaveIf(c, q, n), ~c => q = outbox
  PROVE  HealthyMeansDurable'
<1>1. CASE ~c
  BY <1>1 DEF SaveIf, HealthyMeansDurable
<1>2. CASE Persist(q, n)
  BY <1>2 DEF Persist, HealthyMeansDurable
<1>3. QED
  BY <1>1, <1>2 DEF SaveIf

\* A pass that sets no changed flag changed no row.
LEMMA QuietTick ==
  ASSUME RowsTyped, NEW q, NEW n \in Nat, ~TickChanged(q)
  PROVE  Pruned(Escalated(q, n)) = outbox
<1>1. q = outbox /\ Stuck(q) = {} /\ \A i \in DOMAIN q : ~Prunable(q, i)
  BY DEF TickChanged
<1>2. q = [i \in DOMAIN q |-> q[i]]
  BY <1>1 DEF RowsTyped, IsRows, RowsOver
<1>3. Pages(q, n) = {}
  <2>1. Cardinality(Stuck(q)) = 0
    BY <1>1, FS_EmptySet
  <2>2. QED
    BY <2>1 DEF Pages
<1>4. Escalated(q, n) = q
  <2>1. Escalated(q, n) = [i \in DOMAIN q |-> q[i]]
    BY <1>1, <1>3, Zenon DEF Escalated
  <2>2. QED
    BY <1>2, <2>1
<1>5. Pruned(q) = q
  <2>1. {j \in DOMAIN q : ~Prunable(q, j)} = DOMAIN q
    BY <1>1
  <2>2. QED
    BY <1>2, <2>1 DEF Pruned
<1>6. QED
  BY <1>1, <1>4, <1>5

\* A booking that sets no changed flag changed no row.
LEMMA QuietBooking ==
  ASSUME RowsTyped, NEW w \in Pass, ~Changed(w)
  PROVE  AllBooked(w) = outbox
<1>1. \A i \in DOMAIN attempt[w] : Booked(w, i) = outbox[i]
  BY DEF Changed, Booked
<1>2. outbox = [i \in DOMAIN outbox |-> outbox[i]]
  BY DEF RowsTyped, IsRows, RowsOver
<1>3. QED
  BY <1>1, <1>2 DEF AllBooked

\* As long as the last write of state.json succeeded, a crash loses no row and
\* no booking: every handler that changes a row saves.
THEOREM HealthyIsDurable == Spec => []HealthyMeansDurable
<1>1. Init => HealthyMeansDurable
  BY DEF Init, HealthyMeansDurable
<1>2. IInv /\ HealthyMeansDurable /\ [Next]_vars => HealthyMeansDurable'
  <2> SUFFICES ASSUME IInv, HealthyMeansDurable, [Next]_vars PROVE HealthyMeansDurable'
    OBVIOUS
  <2>1. ASSUME NEW q, NEW n, Persist(q, n)
        PROVE  HealthyMeansDurable'
    BY <2>1 DEF Persist, HealthyMeansDurable
  <2>2. ASSUME NEW batch \in Batches(NewRow), Enqueue(batch)
        PROVE  HealthyMeansDurable'
    BY <2>1, <2>2 DEF Enqueue
  <2>3. RowsTyped /\ created \in Nat
    BY DEF IInv, RowsTyped
  <2>4. ASSUME NEW w \in Pass, NEW q, NEW n \in Nat, Deliver(w, q, n)
        PROVE  HealthyMeansDurable'
    <3>1. ~TickChanged(q) => Pruned(Escalated(q, n)) = outbox
      BY <2>3, QuietTick
    <3>2. SaveIf(TickChanged(q), Pruned(Escalated(q, n)), CreatedWithPages(q, n))
      BY <2>4 DEF Deliver
    <3>3. QED
      BY <3>1, <3>2, SaveIfDurable
  <2>5. ASSUME NEW w \in Pass, Tick(w)
        PROVE  HealthyMeansDurable'
    <3>1. CASE Deliver(w, outbox, created)
      BY <2>3, <2>4, <3>1
    <3>2. ASSUME NEW batch \in Batches(NewRow),
                 Deliver(w, Enqueued(outbox, created, batch), created + Len(batch))
          PROVE  HealthyMeansDurable'
      <4>1. created + Len(batch) \in Nat
        BY <2>3, BatchIsRows, EnqueuedFollows DEF RowsTyped
      <4>2. QED
        BY <2>4, <3>2, <4>1
    <3>3. QED
      BY <2>5, <3>1, <3>2 DEF Tick
  <2>6. ASSUME NEW w \in Pass, NEW to \in Batches(Recipient), SendTest(w, to)
        PROVE  HealthyMeansDurable'
    BY <2>1, <2>6 DEF SendTest
  <2>7. ASSUME NEW w \in Pass, SendNext(w)
        PROVE  HealthyMeansDurable'
    BY <2>7 DEF SendNext, Send, rows, HealthyMeansDurable
  <2>8. ASSUME NEW w \in Pass, Book(w)
        PROVE  HealthyMeansDurable'
    <3>1. ~Changed(w) => AllBooked(w) = outbox
      BY <2>3, QuietBooking
    <3>2. SaveIf(Changed(w), AllBooked(w), created)
      BY <2>8 DEF Book
    <3>3. QED
      BY <3>1, <3>2, SaveIfDurable
  <2>9. ASSUME NEW i \in DOMAIN outbox, RetryOutbox(i)
        PROVE  HealthyMeansDurable'
    BY <2>1, <2>9 DEF RetryOutbox
  <2>10. CASE DeleteEvent
    BY <2>1, <2>10 DEF DeleteEvent
  <2>11. CASE Crash
    BY <2>11 DEF Crash, HealthyMeansDurable
  <2>12. CASE AdvanceTime
    BY <2>12 DEF AdvanceTime, HealthyMeansDurable
  <2>13. CASE UNCHANGED vars
    BY <2>13 DEF vars, rows, HealthyMeansDurable
  <2>14. QED
    BY <2>2, <2>5, <2>6, <2>7, <2>8, <2>9, <2>10, <2>11, <2>12, <2>13 DEF Next
<1>3. QED
  BY <1>1, <1>2, Invariance, PTL DEF Spec

-----------------------------------------------------------------------------
\* What happens to a row while its send is out.

\* Saving keeps every row as it was handed over.
LEMMA SaveIfKeeps ==
  ASSUME NEW c, NEW q, NEW n \in Nat, IsRows(q, n), SaveIf(c, q, n)
  PROVE  \A i \in DOMAIN q : i \in DOMAIN outbox' /\ outbox'[i] = q[i]
<1>1. CASE outbox' = q
  BY <1>1
<1>2. CASE outbox' = Enqueued(q, n, <<Fresh(Admin, "escalation")>>)
  BY <1>2 DEF Enqueued, IsRows
<1>3. QED
  BY <1>1, <1>2 DEF SaveIf, Persist

\* A booking changes the rows of its pass as Booked says and no other, and
\* clears the markers of its pass and no other.
LEMMA BookEffect ==
  ASSUME IInv, NEW w \in Pass, Book(w)
  PROVE  /\ Follows(AllBooked(w), created, outbox', created')
         /\ \A i \in DOMAIN outbox :
              /\ i \in DOMAIN AllBooked(w) /\ i \in DOMAIN outbox'
              /\ outbox'[i] = AllBooked(w)[i]
              /\ outbox'[i] = IF i \in DOMAIN attempt[w] THEN Booked(w, i) ELSE outbox[i]
         /\ DOMAIN AllBooked(w) = DOMAIN outbox
         /\ DOMAIN sending' = DOMAIN sending \ DOMAIN attempt[w]
         /\ \A i \in DOMAIN sending' : sending'[i] = sending[i]
         /\ \A v \in Pass \ {w} : attempt'[v] = attempt[v]
         /\ DOMAIN result[w] = DOMAIN attempt[w] /\ crashes' = crashes
<1>1. DOMAIN result[w] = DOMAIN attempt[w] /\ SaveIf(Changed(w), AllBooked(w), created) /\ crashes' = crashes
  BY DEF Book
<1>2. created \in Nat /\ IsRows(outbox, created) /\ RowsTyped
  BY DEF IInv, RowsTyped
<1>3. /\ DOMAIN AllBooked(w) = DOMAIN outbox
      /\ \A i \in DOMAIN outbox :
           AllBooked(w)[i] = IF i \in DOMAIN attempt[w] THEN Booked(w, i) ELSE outbox[i]
      /\ AllBooked(w) = [i \in DOMAIN AllBooked(w) |-> AllBooked(w)[i]]
  BY DEF AllBooked
<1>4. ASSUME NEW i \in DOMAIN outbox
      PROVE  AllBooked(w)[i] \in Row
  BY <1>1, <1>2, <1>3, BookedIsRow DEF IsRows, RowsOver
<1>5. IsRows(AllBooked(w), created)
  BY <1>2, <1>3, <1>4 DEF IsRows, RowsOver
<1>6. Follows(AllBooked(w), created, outbox', created')
  BY <1>1, <1>2, <1>5, SaveIfFollows
<1>7. \A i \in DOMAIN outbox : i \in DOMAIN outbox' /\ outbox'[i] = AllBooked(w)[i]
  BY <1>1, <1>2, <1>3, <1>5, SaveIfKeeps
<1>8. /\ sending' = [i \in DOMAIN sending \ DOMAIN attempt[w] |-> sending[i]]
      /\ \A v \in Pass \ {w} : attempt'[v] = attempt[v]
  BY DEF Book, Arrive, IInv, FlightTyped
<1>9. QED
  BY <1>1, <1>3, <1>6, <1>7, <1>8

\* A row that was re-armed while its send is out is due but for that send.
RearmedIsDue ==
  \A i \in DOMAIN sending :
    sending[i] > 0 /\ i \in DOMAIN outbox /\ ~outbox[i].delivered => Due(outbox, i)

LEMMA NextRearmedIsDue == IInv /\ RearmedIsDue /\ [Next]_vars => RearmedIsDue'
<1> SUFFICES ASSUME IInv, RearmedIsDue, [Next]_vars,
                    NEW i \in DOMAIN sending', sending'[i] > 0, i \in DOMAIN outbox', ~outbox'[i].delivered
             PROVE  Due(outbox', i)
  BY DEF RearmedIsDue
<1>1. /\ created \in Nat /\ IsRows(outbox, created)
      /\ DOMAIN sending \subseteq 1..created /\ \A j \in DOMAIN sending : sending[j] \in Nat
  BY DEF IInv, RowsTyped, FlightTyped, RowsOver
<1>2. ASSUME Follows(outbox, created, outbox', created'), i \in DOMAIN sending, sending[i] > 0
      PROVE  Due(outbox', i)
  BY <1>1, <1>2 DEF RearmedIsDue, Follows
<1>3. CASE Quiet
  BY <1>2, <1>3 DEF Quiet
<1>4. ASSUME NEW w \in Pass, NEW n \in Nat, NEW q, NEW only, Departs(w, q, n, only)
      PROVE  Due(outbox', i)
  <2>1. created' \in Nat /\ Follows(outbox, created, outbox', created')
    BY <1>1, <1>4, FollowsTransitive DEF Departs, RowsTyped
  <2>2. i \in DOMAIN sending /\ sending'[i] = sending[i]
    BY <1>4 DEF Departs, Depart
  <2>3. QED
    BY <1>2, <2>1, <2>2
<1>5. ASSUME NEW w \in Pass, SendNext(w)
      PROVE  Due(outbox', i)
  BY <1>5 DEF SendNext, Send, rows, RearmedIsDue
<1>6. ASSUME NEW w \in Pass, Book(w)
      PROVE  Due(outbox', i)
  <2>1. /\ i \in DOMAIN sending /\ i \notin DOMAIN attempt[w] /\ sending'[i] = sending[i]
        /\ i \in DOMAIN outbox => outbox'[i] = outbox[i]
        /\ Follows(AllBooked(w), created, outbox', created')
        /\ DOMAIN AllBooked(w) = DOMAIN outbox
    BY <1>6, BookEffect
  <2>2. i \in DOMAIN outbox
    BY <1>1, <2>1 DEF Follows
  <2>3. QED
    BY <2>1, <2>2 DEF RearmedIsDue, Due
<1>7. CASE Crash
  BY <1>7 DEF Crash, Nothing
<1>8. QED
  BY <1>3, <1>4, <1>5, <1>6, <1>7, StepKinds

\* Only a booking of its pass or a kill takes a row off the markers or ends what
\* a pass carries.
LEMMA OnlyBookingEnds ==
  ASSUME IInv, [Next]_vars, crashes' = crashes, \A w \in Pass : ~Book(w)
  PROVE  /\ DOMAIN sending \subseteq DOMAIN sending'
         /\ \A w \in Pass : DOMAIN result[w] # {} => attempt'[w] # Nothing
<1>0. \A w \in Pass : DOMAIN result[w] # {} => attempt[w] # Nothing
  BY DEF IInv, FlightTyped, Nothing
<1>1. CASE Quiet
  BY <1>0, <1>1 DEF Quiet
<1>2. ASSUME NEW w \in Pass, NEW n \in Nat, NEW q, NEW only, Departs(w, q, n, only)
      PROVE  /\ DOMAIN sending \subseteq DOMAIN sending'
             /\ \A v \in Pass : DOMAIN result[v] # {} => attempt'[v] # Nothing
  BY <1>0, <1>2 DEF Departs, Depart, Idle, IInv, FlightTyped
<1>3. ASSUME NEW w \in Pass, SendNext(w)
      PROVE  /\ DOMAIN sending \subseteq DOMAIN sending'
             /\ \A v \in Pass : DOMAIN result[v] # {} => attempt'[v] # Nothing
  BY <1>0, <1>3 DEF SendNext, Send
<1>4. ~Crash
  BY DEF Crash, IInv, HistoryTyped
<1>5. QED
  BY <1>1, <1>2, <1>3, <1>4, StepKinds

\* A re-arm is never undone by the failure of the send it overtook: whatever
\* passes overlap, the row is due when that send comes back (Service.sending).
THEOREM RearmsStand == Spec => RearmedStaysDue
<1> DEFINE Stands == crashes' = crashes =>
             \A i \in DOMAIN sending \ DOMAIN sending' :
               sending[i] > 0 /\ ~outbox'[i].delivered => Due(outbox', i)
<1>1. Init => RearmedIsDue
  BY DEF Init, Nothing, RearmedIsDue
<1>2. IInv /\ RearmedIsDue /\ [Next]_vars => [Stands]_vars
  <2> SUFFICES ASSUME IInv, RearmedIsDue, [Next]_vars, crashes' = crashes,
                      NEW i \in DOMAIN sending \ DOMAIN sending',
                      sending[i] > 0, ~outbox'[i].delivered
               PROVE  Due(outbox', i)
    OBVIOUS
  <2>1. PICK w \in Pass : Book(w)
    BY OnlyBookingEnds
  <2>2. /\ i \in DOMAIN attempt[w] /\ i \in DOMAIN result[w]
        /\ i \in DOMAIN outbox /\ ~outbox[i].delivered
        /\ outbox'[i] = Booked(w, i)
    BY <2>1, BookEffect DEF IInv, Carried
  <2>3. ~result[w][i]
    BY <2>2, BookedIsRow
  <2>4. outbox'[i] = outbox[i]
    BY <2>2, <2>3 DEF Booked, Rearmed
  <2>5. QED
    BY <2>2, <2>4 DEF RearmedIsDue, Due
<1>3. QED
  BY <1>1, <1>2, NextRearmedIsDue, Invariance, PTL DEF Spec, RearmedStaysDue

\* What a channel accepted is delivered in the outbox when its pass has booked,
\* whatever re-arms, handlers and failing writes came between (recordDeliveries).
THEOREM AcceptanceIsBooked == Spec => AcknowledgedIsBooked
<1> DEFINE Booking == crashes' = crashes =>
             \A w \in Pass : attempt'[w] = Nothing =>
               \A i \in DOMAIN result[w] : result[w][i] =>
                 i \in DOMAIN outbox' /\ outbox'[i].delivered
<1>1. IInv /\ [Next]_vars => [Booking]_vars
  <2> SUFFICES ASSUME IInv, [Next]_vars, crashes' = crashes, NEW w \in Pass, attempt'[w] = Nothing,
                      NEW i \in DOMAIN result[w], result[w][i]
               PROVE  i \in DOMAIN outbox' /\ outbox'[i].delivered
    OBVIOUS
  <2>1. PICK v \in Pass : Book(v)
    BY OnlyBookingEnds
  <2>2. i \in DOMAIN attempt[w] /\ attempt[w] # Nothing
    BY DEF IInv, FlightTyped, Nothing
  <2>3. v = w
    BY <2>1, <2>2, BookEffect
  <2>4. i \in DOMAIN outbox /\ i \in DOMAIN outbox' /\ outbox'[i] = Booked(w, i)
    BY <2>1, <2>2, <2>3, BookEffect DEF IInv, Carried
  <2>5. QED
    BY <2>2, <2>4, BookedIsRow
<1>2. QED
  BY <1>1, Invariance, PTL DEF Spec, AcknowledgedIsBooked

-----------------------------------------------------------------------------
\* The outbox implements Ledger.

\* Initially nothing is owed.
LEMMA PromiseInit == Init => Promise!Init
BY DEF Init, Nothing, Promise!Init

\* A step that books nothing is a mutation the ledger allows.
LEMMA FollowsIsRecord ==
  ASSUME RowsTyped, RowsTyped', Follows(outbox, created, outbox', created')
  PROVE  Promise!Record
BY DEF Promise!Record, Follows, RowsTyped, IsRows

\* So is a booking.
LEMMA BookIsRecord ==
  ASSUME IInv, RowsTyped', NEW w \in Pass, Book(w)
  PROVE  Promise!Record
<1>1. RowsTyped /\ IsRows(outbox, created)
  BY DEF IInv, RowsTyped
<1>2. /\ Follows(AllBooked(w), created, outbox', created')
      /\ DOMAIN AllBooked(w) = DOMAIN outbox
      /\ \A i \in DOMAIN outbox : i \in DOMAIN outbox' /\ outbox'[i] = AllBooked(w)[i]
  BY BookEffect
<1>3. \A i \in DOMAIN outbox : outbox[i].delivered => outbox'[i].delivered
  <2> SUFFICES ASSUME NEW i \in DOMAIN outbox, outbox[i].delivered
               PROVE  outbox'[i] = outbox[i]
    OBVIOUS
  <2>1. i \notin DOMAIN attempt[w]
    BY DEF IInv, Carried
  <2>2. QED
    BY <2>1, BookEffect
<1>4. QED
  BY <1>1, <1>2, <1>3 DEF Promise!Record, Follows, RowsTyped, IsRows

\* A kill goes unnoticed while the last save succeeded; otherwise it is the one
\* step that may forget.
LEMMA CrashIsForget ==
  ASSUME RowsTyped, HealthyMeansDurable, Crash
  PROVE  [Promise!Next]_(Promise!vars)
<1>1. outbox' = disk /\ created' = created /\ saveFailed' = FALSE
  BY DEF Crash
<1>2. CASE ~saveFailed
  <2>1. outbox' = outbox /\ ~saveFailed'
    BY <1>1, <1>2 DEF HealthyMeansDurable
  <2>2. (~saveFailed') = (~saveFailed)
    BY <1>2, <2>1
  <2>3. QED
    BY <1>1, <2>1, <2>2 DEF Promise!vars
<1>3. CASE saveFailed
  <2>1. Promise!Forget
    BY <1>1, <1>3 DEF Promise!Forget, RowsTyped, IsRows
  <2>2. QED
    BY <2>1 DEF Promise!Next
<1>4. QED
  BY <1>2, <1>3

\* The outbox keeps the ledger's promise in every configuration: a message stays
\* owed until a channel accepted it, only a proven one is ever archived, no id
\* comes back, and only a kill after a failed save may forget.
THEOREM OutboxIsLedger == Spec => KeepsItsPromise
<1>1. IInv /\ IInv' /\ HealthyMeansDurable /\ [Next]_vars => [Promise!Next]_(Promise!vars)
  <2> SUFFICES ASSUME IInv, IInv', HealthyMeansDurable, [Next]_vars
               PROVE  Promise!Record \/ [Promise!Next]_(Promise!vars)
    BY DEF Promise!Next
  <2>1. RowsTyped /\ RowsTyped'
    BY DEF IInv
  <2>2. CASE Quiet
    BY <2>1, <2>2, FollowsIsRecord DEF Quiet
  <2>3. ASSUME NEW w \in Pass, NEW n \in Nat, NEW q, NEW only, Departs(w, q, n, only)
        PROVE  Promise!Record
    <3>1. Follows(outbox, created, outbox', created')
      BY <2>1, <2>3, FollowsTransitive DEF Departs, RowsTyped
    <3>2. QED
      BY <2>1, <3>1, FollowsIsRecord
  <2>4. ASSUME NEW w \in Pass, SendNext(w)
        PROVE  Promise!Record
    <3>1. UNCHANGED rows
      BY <2>4 DEF SendNext, Send
    <3>2. Follows(outbox, created, outbox', created')
      BY <2>1, <3>1, FollowsItself DEF rows, RowsTyped
    <3>3. QED
      BY <2>1, <3>2, FollowsIsRecord
  <2>5. ASSUME NEW w \in Pass, Book(w)
        PROVE  Promise!Record
    BY <2>1, <2>5, BookIsRecord
  <2>6. CASE Crash
    BY <2>1, <2>6, CrashIsForget
  <2>7. QED
    BY <2>2, <2>3, <2>4, <2>5, <2>6, StepKinds
<1>2. QED
  BY <1>1, PromiseInit, Invariance, HealthyIsDurable, PTL DEF Spec, KeepsItsPromise, Promise!Spec
=============================================================================
