--------------------------- MODULE InvitesProofs ----------------------------
(***************************************************************************)
(* Proofs about Propagation and Invites, for every finite set of targets,  *)
(* any number of rows, transactions and guests, attempts and retention:    *)
(* what the panel says of the last transaction is true, and a deletion     *)
(* walks away from nothing that may still arrive; the invitations are a    *)
(* propagation, their list is sound, and a fan-out writes to every address *)
(* on it exactly once.                                                     *)
(***************************************************************************)
EXTENDS Invites, FiniteSetTheorems, FunctionTheorems, SequenceTheorems, TLAPS

\* As much of the types as the argument needs.
Rows == DOMAIN outbox \subseteq 1..created

RowsInv ==
  /\ created \in Nat /\ Rows
  /\ fanOut.txn \in Nat
  /\ \A i \in DOMAIN outbox :
       /\ outbox[i] \in [txn: Nat, purpose: Purpose, to: Target, attempts: Nat,
                         delivered: BOOLEAN, rest: Nat]
       /\ outbox[i].delivered => i \in arrived

\* Pruning and sending leave a notice of the last transaction where the panel looks
\* for it, until a channel accepted it.
OwedInv ==
  /\ owed \subseteq 1..created
  /\ \A i \in owed \ arrived : i \in DOMAIN outbox /\ InLastFanOut(outbox[i])

Inv == RowsInv /\ OwedInv

-----------------------------------------------------------------------------
\* The number of targets of a transaction.
LEMMA TargetsCounted ==
  ASSUME NEW tos \in SUBSET Target
  PROVE  Cardinality(tos) \in Nat
BY PropagationAssumption, FS_Subset, FS_CardinalityType

LEMMA NewRowIsRow ==
  ASSUME NEW txn \in Nat, NEW purpose \in Purpose, NEW to \in Target
  PROVE  /\ NewRow(txn, purpose, to) \in [txn: Nat, purpose: Purpose, to: Target, attempts: Nat,
                                          delivered: BOOLEAN, rest: Nat]
         /\ NewRow(txn, purpose, to).txn = txn /\ NewRow(txn, purpose, to).purpose = purpose
         /\ ~NewRow(txn, purpose, to).delivered
BY DEF NewRow

LEMMA InvInit == Init => Inv
<1> SUFFICES ASSUME Init PROVE Inv
  OBVIOUS
<1>1. PICK informed \in SUBSET Target, known \in BOOLEAN, anybody \in BOOLEAN :
        LET n == Cardinality(informed)
        IN /\ created = n
           /\ fanOut = [txn |-> 0, count |-> IF known /\ anybody THEN n ELSE 0, known |-> known]
           /\ \E order \in Bijection(1..n, informed) :
                outbox = [i \in 1..n |-> NewRow(0, "cancellation", order[i])]
           /\ owed = IF anybody THEN 1..n ELSE {}
  BY DEF Init
<1> DEFINE n == Cardinality(informed)
<1>2. n \in Nat
  BY TargetsCounted
<1>3. PICK order \in Bijection(1..n, informed) : outbox = [i \in 1..n |-> NewRow(0, "cancellation", order[i])]
  BY <1>1
<1>4. \A i \in 1..n : order[i] \in Target
  BY <1>3 DEF Bijection, Injection
<1>5. created = n /\ fanOut.txn = 0 /\ owed \subseteq 1..n
  BY <1>1
<1>6. "cancellation" \in Notice /\ "cancellation" \in Purpose
  BY DEF Notice, Purpose
<1>7. RowsInv
  <2>1. DOMAIN outbox = 1..n /\ created = n /\ fanOut.txn = 0
    BY <1>3, <1>5, <1>1
  <2>2. \A i \in 1..n : outbox[i] = NewRow(0, "cancellation", order[i])
    BY <1>3
  <2>3. ASSUME NEW i \in 1..n
        PROVE  /\ outbox[i] \in [txn: Nat, purpose: Purpose, to: Target, attempts: Nat,
                                 delivered: BOOLEAN, rest: Nat]
               /\ ~outbox[i].delivered
    BY <1>4, <1>6, <2>2, NewRowIsRow
  <2>4. QED
    BY <1>2, <2>1, <2>3 DEF RowsInv, Rows
<1>8. OwedInv
  BY <1>3, <1>4, <1>5, <1>6, NewRowIsRow DEF OwedInv, InLastFanOut
<1>9. QED
  BY <1>7, <1>8 DEF Inv

-----------------------------------------------------------------------------
\* A propagation owes the rows it writes, under a transaction of their own.
LEMMA FanOutKeeps ==
  ASSUME Inv, NEW purpose \in Purpose, NEW tos \in SUBSET Target,
         NEW order \in Bijection(1..Cardinality(tos), tos), FanOut(purpose, tos, order)
  PROVE  Inv'
<1> DEFINE n   == Cardinality(tos)
           ids == created + 1 .. created + n
           txn == fanOut.txn + 1
<1>1. n \in Nat /\ created \in Nat /\ fanOut.txn \in Nat
  BY TargetsCounted DEF Inv, RowsInv
<1>2. \A i \in ids : order[i - created] \in Target
  BY <1>1 DEF Bijection, Injection
<1>3. /\ fanOut'.txn = txn /\ created' = created + n /\ owed' = ids /\ arrived' = arrived
      /\ DOMAIN outbox' = DOMAIN outbox \cup ids
      /\ \A i \in ids : outbox'[i] = NewRow(txn, purpose, order[i - created])
      /\ \A i \in DOMAIN outbox \ ids : outbox'[i] = outbox[i]
  BY DEF FanOut
<1>4. RowsInv'
  <2>1. created' \in Nat /\ DOMAIN outbox' \subseteq 1..created' /\ fanOut'.txn \in Nat
    BY <1>1, <1>3 DEF Inv, RowsInv, Rows
  <2>2. ASSUME NEW i \in DOMAIN outbox'
        PROVE  /\ outbox'[i] \in [txn: Nat, purpose: Purpose, to: Target, attempts: Nat,
                                  delivered: BOOLEAN, rest: Nat]
               /\ outbox'[i].delivered => i \in arrived'
    <3>1. CASE i \in ids
      <4>1. txn \in Nat /\ order[i - created] \in Target /\ outbox'[i] = NewRow(txn, purpose, order[i - created])
        BY <1>1, <1>2, <1>3, <3>1
      <4>2. QED
        BY <4>1, NewRowIsRow
    <3>2. CASE i \notin ids
      BY <1>3, <2>2, <3>2 DEF Inv, RowsInv
    <3>3. QED
      BY <3>1, <3>2
  <2>3. QED
    BY <2>1, <2>2 DEF RowsInv, Rows
<1>5. OwedInv'
  <2>1. owed' \subseteq 1..created'
    BY <1>1, <1>3
  <2>2. \A i \in owed' : i \in DOMAIN outbox' /\ outbox'[i].txn = txn
    BY <1>1, <1>2, <1>3, NewRowIsRow
  <2>3. fanOut'.txn # 0
    BY <1>1, <1>3
  <2>4. QED
    BY <1>3, <2>1, <2>2, <2>3 DEF OwedInv, InLastFanOut
<1>6. QED
  BY <1>4, <1>5 DEF Inv

\* A step that touches no notice's transaction and purpose, forgets no delivery and
\* drops delivered rows only.
LEMMA TouchKeeps ==
  ASSUME Inv, fanOut' = fanOut, created' = created, owed' = owed, arrived \subseteq arrived',
         DOMAIN outbox' \subseteq DOMAIN outbox,
         \A i \in DOMAIN outbox \ DOMAIN outbox' : outbox[i].delivered,
         \A i \in DOMAIN outbox' :
           /\ outbox'[i] \in [txn: Nat, purpose: Purpose, to: Target, attempts: Nat,
                              delivered: BOOLEAN, rest: Nat]
           /\ outbox'[i].txn = outbox[i].txn /\ outbox'[i].purpose = outbox[i].purpose
           /\ outbox'[i].delivered => i \in arrived'
  PROVE  Inv'
<1>1. RowsInv'
  BY DEF Inv, RowsInv, Rows
<1>2. \A i \in owed' \ arrived' : i \in DOMAIN outbox'
  BY DEF Inv, RowsInv, OwedInv
<1>3. \A i \in owed' \ arrived' : InLastFanOut(outbox[i])
  BY DEF Inv, OwedInv
<1>4. \A i \in owed' \ arrived' : InLastFanOut(outbox[i])'
  BY <1>2, <1>3 DEF InLastFanOut
<1>5. QED
  BY <1>1, <1>2, <1>4 DEF Inv, OwedInv

LEMMA InvStep == Inv /\ [Next]_vars => Inv'
<1> SUFFICES ASSUME Inv, [Next]_vars PROVE Inv'
  OBVIOUS
<1>a. {"cancellation", "moved", "reinstated", "reminder"} \subseteq Purpose
  BY DEF Purpose, Notice
<1>1. ASSUME NEW tos \in SUBSET Target, NEW order \in Bijection(1..Cardinality(tos), tos),
             Cancel(tos, order) \/ Reinstate(tos, order) \/ Move(tos, order)
      PROVE  Inv'
  BY <1>1, <1>a, FanOutKeeps DEF Cancel, Reinstate, Move
<1>2. ASSUME NEW to \in Target, Ask(to) PROVE Inv'
  <2>1. /\ created \in Nat /\ created' = created + 1 /\ fanOut' = fanOut /\ owed' = owed /\ arrived' = arrived
        /\ DOMAIN outbox' = DOMAIN outbox \cup {created + 1}
        /\ outbox'[created + 1] = NewRow(0, "reminder", to)
        /\ \A i \in DOMAIN outbox : i # created + 1 => outbox'[i] = outbox[i]
    BY <1>2 DEF Ask, Inv, RowsInv
  <2>2. created + 1 \notin DOMAIN outbox
    BY <2>1 DEF Inv, RowsInv, Rows
  <2>3. RowsInv'
    BY <1>a, <2>1, <2>2, NewRowIsRow DEF Inv, RowsInv, Rows
  <2>4. OwedInv'
    BY <2>1, <2>2 DEF Inv, OwedInv, InLastFanOut
  <2>5. QED
    BY <2>3, <2>4 DEF Inv
<1>3. ASSUME NEW i \in DOMAIN outbox, NEW accepted \in BOOLEAN, NEW booked \in BOOLEAN,
             Send(i, accepted, booked)
      PROVE  Inv'
  <2>1. /\ fanOut' = fanOut /\ created' = created /\ owed' = owed
        /\ arrived' = (IF accepted THEN arrived \cup {i} ELSE arrived)
        /\ booked => accepted
    BY <1>3 DEF Send
  <2>2. outbox' = [outbox EXCEPT ![i].delivered = booked,
                                 ![i].attempts = IF booked THEN @ ELSE @ + 1]
    BY <1>3 DEF Send
  <2>3. ASSUME NEW j \in DOMAIN outbox
        PROVE  /\ outbox'[j] \in [txn: Nat, purpose: Purpose, to: Target, attempts: Nat,
                                  delivered: BOOLEAN, rest: Nat]
               /\ outbox'[j].txn = outbox[j].txn /\ outbox'[j].purpose = outbox[j].purpose
               /\ outbox'[j].delivered => j \in arrived'
    <3>1. /\ outbox[j] \in [txn: Nat, purpose: Purpose, to: Target, attempts: Nat,
                            delivered: BOOLEAN, rest: Nat]
          /\ outbox[j].delivered => j \in arrived
      BY DEF Inv, RowsInv
    <3>2. CASE j = i
      BY <2>1, <2>2, <3>1, <3>2
    <3>3. CASE j # i
      BY <2>1, <2>2, <3>1, <3>3
    <3>4. QED
      BY <3>2, <3>3
  <2>4. DOMAIN outbox' = DOMAIN outbox
    BY <2>2
  <2>5. QED
    BY <2>1, <2>3, <2>4, TouchKeeps
<1>4. ASSUME NEW i \in DOMAIN outbox, RetryOutbox(i) PROVE Inv'
  <2>1. /\ fanOut' = fanOut /\ created' = created /\ owed' = owed /\ arrived' = arrived
        /\ DOMAIN outbox' = DOMAIN outbox
        /\ outbox'[i] = [outbox[i] EXCEPT !.attempts = 0]
        /\ \A j \in DOMAIN outbox : j # i => outbox'[j] = outbox[j]
    BY <1>4 DEF RetryOutbox
  <2>2. QED
    BY <2>1, TouchKeeps DEF Inv, RowsInv
<1>5. CASE Prune
  <2>1. /\ fanOut' = fanOut /\ created' = created /\ owed' = owed /\ arrived' = arrived
        /\ DOMAIN outbox' = {i \in DOMAIN outbox : ~Prunable(outbox[i])}
        /\ \A j \in DOMAIN outbox' : outbox'[j] = outbox[j]
    BY <1>5 DEF Prune, Restrict
  <2>2. \A i \in DOMAIN outbox \ DOMAIN outbox' : outbox[i].delivered
    BY <2>1 DEF Prunable
  <2>3. QED
    BY <2>1, <2>2, TouchKeeps DEF Inv, RowsInv
<1>6. CASE DeleteEvent
  BY <1>6, TouchKeeps DEF DeleteEvent, Inv, RowsInv
<1>7. CASE AdvanceTime
  <2>1. fanOut' = fanOut /\ created' = created /\ owed' = owed /\ arrived' = arrived
    BY <1>7 DEF AdvanceTime
  <2>2. outbox' = [i \in DOMAIN outbox |->
                     IF outbox[i].delivered /\ outbox[i].rest < Retention
                     THEN [outbox[i] EXCEPT !.rest = @ + 1] ELSE outbox[i]]
    BY <1>7 DEF AdvanceTime
  <2>3. ASSUME NEW j \in DOMAIN outbox
        PROVE  /\ outbox'[j] \in [txn: Nat, purpose: Purpose, to: Target, attempts: Nat,
                                  delivered: BOOLEAN, rest: Nat]
               /\ outbox'[j].txn = outbox[j].txn /\ outbox'[j].purpose = outbox[j].purpose
               /\ outbox'[j].delivered = outbox[j].delivered
    <3>1. outbox[j] \in [txn: Nat, purpose: Purpose, to: Target, attempts: Nat,
                         delivered: BOOLEAN, rest: Nat]
      BY DEF Inv, RowsInv
    <3>2. outbox'[j] = outbox[j] \/ outbox'[j] = [outbox[j] EXCEPT !.rest = outbox[j].rest + 1]
      BY <2>2
    <3>3. QED
      BY <3>1, <3>2
  <2>4. DOMAIN outbox' = DOMAIN outbox
    BY <2>2
  <2>5. QED
    BY <2>1, <2>3, <2>4, TouchKeeps DEF Inv, RowsInv
<1>8. CASE UNCHANGED vars
  BY <1>8 DEF vars, Inv, RowsInv, Rows, OwedInv, InLastFanOut
<1>9. QED
  BY <1>1, <1>2, <1>3, <1>4, <1>5, <1>6, <1>7, <1>8 DEF Next, Delivering

LEMMA InvHolds == Spec => []Inv
BY InvInit, InvStep, PTL DEF Spec

-----------------------------------------------------------------------------
\* What the four states of a row say.
LEMMA StatesOfARow ==
  ASSUME NEW o
  PROVE  /\ OutboxState(o) = "delivered" => o.delivered
         /\ ~o.delivered /\ OutboxState(o) \notin {"queued", "retrying"} => OutboxState(o) = "failed"
BY DEF OutboxState

\* A row the panel counts as delivered was accepted by a channel.
LEMMA DeliveredArrived == Inv => In({"delivered"}) \subseteq arrived
BY StatesOfARow DEF Inv, RowsInv, In, Items

\* "Done" is not said before a channel accepted every notice of the last
\* transaction (Propagation, pruneOutboxLocked).
THEOREM CompleteMeansTold == Spec => []CompleteIsTrue
<1>1. Inv => CompleteIsTrue
  BY DeliveredArrived DEF CompleteIsTrue, Complete, Inv, OwedInv, Items
<1>2. QED
  BY <1>1, InvHolds, PTL

\* Who was not reached is on the panel (Propagation, inLastFanOut).
THEOREM MissingAreShown == Spec => []MissingIsShown
<1>1. Inv => MissingIsShown
  BY DeliveredArrived DEF MissingIsShown, Inv, OwedInv, Items
<1>2. QED
  BY <1>1, InvHolds, PTL

\* DeleteEvent refuses while a notice of the last transaction may still arrive
\* (fanOutInFlightLocked).
THEOREM DeletionLeavesNothingMoving == Spec => DeletedOnlySettled
<1> DEFINE Settled == status # "deleted" /\ status' = "deleted" =>
             \A i \in owed \ arrived : i \in DOMAIN outbox' /\ OutboxState(outbox'[i]) = "failed"
<1>1. Inv /\ [Next]_vars => [Settled]_vars
  <2> SUFFICES ASSUME Inv, [Next]_vars, status # "deleted", status' = "deleted"
               PROVE  \A i \in owed \ arrived : i \in DOMAIN outbox' /\ OutboxState(outbox'[i]) = "failed"
    OBVIOUS
  <2>1. DeleteEvent
    BY DEF Next, Delivering, Cancel, Reinstate, Move, Ask, Send, RetryOutbox, Prune, AdvanceTime, vars
  <2>2. InFlight = {} /\ outbox' = outbox
    BY <2>1 DEF DeleteEvent, Deletable
  <2>3. ASSUME NEW i \in owed \ arrived
        PROVE  i \in DOMAIN outbox' /\ OutboxState(outbox'[i]) = "failed"
    <3>1. i \in Items /\ i \in DOMAIN outbox /\ ~outbox[i].delivered
      BY DEF Inv, RowsInv, OwedInv, Items
    <3>2. OutboxState(outbox[i]) \notin {"queued", "retrying"}
      BY <2>2, <3>1 DEF InFlight, In
    <3>3. QED
      BY <2>2, <3>1, <3>2, StatesOfARow
  <2>4. QED
    BY <2>3
<1>2. QED
  BY <1>1, InvHolds, PTL DEF Spec, DeletedOnlySettled

-----------------------------------------------------------------------------
\* Sequences made of sets.

\* The elements of a finite set of numbers are counted through by how many of them
\* are not above.
LEMMA CountedThrough ==
  ASSUME NEW S \in SUBSET Nat, IsFiniteSet(S)
  PROVE  [i \in S |-> Cardinality({j \in S : j <= i})] \in Bijection(S, 1..Cardinality(S))
<1> DEFINE UpTo(i) == {j \in S : j <= i}
           n       == Cardinality(S)
           f       == [i \in S |-> Cardinality(UpTo(i))]
<1>1. n \in Nat
  BY FS_CardinalityType
<1>2. ASSUME NEW i \in S PROVE f[i] \in 1..n
  <2>1. IsFiniteSet(UpTo(i)) /\ Cardinality(UpTo(i)) <= n /\ Cardinality(UpTo(i)) \in Nat
    BY FS_Subset, FS_CardinalityType
  <2>2. UpTo(i) # {}
    OBVIOUS
  <2>3. Cardinality(UpTo(i)) # 0
    BY <2>1, <2>2, FS_EmptySet
  <2>4. QED
    BY <1>1, <2>1, <2>3
<1>3. ASSUME NEW i \in S, NEW j \in S, i < j PROVE f[i] # f[j]
  <2>1. UpTo(i) \in SUBSET UpTo(j) /\ UpTo(i) # UpTo(j)
    <3>1. \A k \in S : k <= i => k <= j
      BY <1>3
    <3>2. j \in UpTo(j) /\ j \notin UpTo(i)
      BY <1>3
    <3>3. QED
      BY <3>1, <3>2
  <2>2. IsFiniteSet(UpTo(j))
    BY FS_Subset
  <2>3. QED
    BY <2>1, <2>2, FS_Subset
<1>4. f \in Injection(S, 1..n)
  <2>1. f \in [S -> 1..n]
    BY <1>2
  <2>2. \A i, j \in S : i < j \/ j < i \/ i = j
    OBVIOUS
  <2>3. \A i, j \in S : f[i] = f[j] => i = j
    BY <1>3, <2>2
  <2>4. QED
    BY <2>1, <2>3, Fun_IsInj
<1>5. Cardinality(1..n) = n /\ IsFiniteSet(1..n)
  BY <1>1, FS_Interval
<1>6. f \in Surjection(S, 1..n)
  BY <1>4, <1>5, FS_Injection
<1>7. QED
  BY <1>4, <1>6 DEF Bijection

\* A finite set of numbers has a first element.
LEMMA FirstOfASet ==
  ASSUME NEW S \in SUBSET Nat, IsFiniteSet(S), S # {}
  PROVE  \E i \in S : \A j \in S : i <= j
<1> DEFINE UpTo(i) == {j \in S : j <= i}
<1>1. Cardinality(S) \in Nat \ {0}
  BY FS_CardinalityType, FS_EmptySet
<1>2. PICK i \in S : Cardinality(UpTo(i)) = 1
  <2>1. [i \in S |-> Cardinality(UpTo(i))] \in Surjection(S, 1..Cardinality(S))
    BY CountedThrough DEF Bijection
  <2> HIDE DEF UpTo
  <2>2. 1 \in 1..Cardinality(S)
    BY <1>1
  <2>3. QED
    BY <2>1, <2>2 DEF Surjection
<1>3. IsFiniteSet(UpTo(i))
  BY FS_Subset
<1>4. PICK x : UpTo(i) = {x}
  BY <1>2, <1>3, FS_Singleton
<1>5. \A j \in UpTo(i) : j = i
  BY <1>4
<1>6. \A j \in S : j <= i => j = i
  BY <1>5
<1>7. QED
  BY <1>6

\* A finite set is listed once through by SetToSeq.
LEMMA ListedOnce ==
  ASSUME NEW S, IsFiniteSet(S)
  PROVE  /\ Cardinality(S) \in Nat
         /\ SetToSeq(S) \in [1..Cardinality(S) -> S]
         /\ \A i, j \in 1..Cardinality(S) : SetToSeq(S)[i] = SetToSeq(S)[j] => i = j
<1> DEFINE n == Cardinality(S)
<1>1. PICK f : f \in Bijection(1..n, S)
  BY FS_CardinalityType DEF ExistsBijection
<1>2. f \in [1..n -> S] /\ IsInjective(f)
  BY <1>1 DEF Bijection, Injection, IsInjective
<1>3. SetToSeq(S) \in [1..n -> S] /\ IsInjective(SetToSeq(S))
  BY <1>2 DEF SetToSeq
<1>4. QED
  BY <1>3, FS_CardinalityType DEF IsInjective

-----------------------------------------------------------------------------
\* The list of guests.

\* A guest's id was drawn for this guest, a name is entered once, and the cap holds.
GuestsInv ==
  /\ guests \in Seq(Guest)
  /\ \A i \in DOMAIN guests : guests[i].id \in entered
  /\ ListIsSound

\* What a step may make of the list: entries dropped, others changed in their answer
\* and in an address that was missing, or one new entry under a name and an id of
\* its own.
Edited ==
  /\ DOMAIN guests' = DOMAIN guests
  /\ \A i \in DOMAIN guests :
       /\ guests'[i] \in Guest
       /\ guests'[i].id = guests[i].id /\ guests'[i].name = guests[i].name
       /\ guests[i].email # None => guests'[i].email = guests[i].email

Entered ==
  \E g \in Guest :
    /\ guests' = Append(guests, g) /\ Len(guests) < MaxGuests
    /\ g.id \notin entered /\ entered' = entered \cup {g.id}
    /\ \A i \in DOMAIN guests : guests[i].name # g.name

Removed == \E i \in DOMAIN guests : guests' = RemoveAt(guests, i)

ListStep ==
  \/ Edited /\ guests' \in Seq(Guest) /\ entered' = entered
  \/ Entered
  \/ Removed /\ entered' = entered
  \/ guests' = <<>> /\ entered' = entered

\* An answer goes to the entry of its name, or to a new one.
LEMMA AnswerIsListStep ==
  ASSUME GuestsInv, NEW k, NEW name \in Name, NEW email \in Address \cup {None},
         NEW answer \in {"yes", "no"}, RSVP(k, name, email, answer)
  PROVE  ListStep
<1>0. DOMAIN guests = 1..Len(guests) /\ Len(guests) \in Nat /\ \A i \in DOMAIN guests : guests[i] \in Guest
  BY DEF GuestsInv
<1>1. CASE Found(name) # {}
  <2>1. PICK i \in Found(name) :
          guests' = [guests EXCEPT ![i].status = answer, ![i].email = Kept(@, email)]
    BY <1>1 DEF RSVP
  <2>2. entered' = entered
    BY <1>1 DEF RSVP
  <2>3. i \in DOMAIN guests
    BY DEF Found
  <2>4. /\ DOMAIN guests' = DOMAIN guests
        /\ guests'[i] = [guests[i] EXCEPT !.status = answer, !.email = Kept(guests[i].email, email)]
        /\ \A j \in DOMAIN guests : j # i => guests'[j] = guests[j]
    BY <2>1, <2>3
  <2>5. /\ guests'[i] \in Guest
        /\ guests'[i].id = guests[i].id /\ guests'[i].name = guests[i].name
        /\ guests[i].email # None => guests'[i].email = guests[i].email
    <3> DEFINE old == guests[i]
               new == [old EXCEPT !.status = answer, !.email = Kept(old.email, email)]
    <3>1. old \in Guest
      BY <1>0, <2>3
    <3>2. Kept(old.email, email) \in Address \cup {None}
      BY <3>1 DEF Kept, Guest
    <3>3. old.email # None => Kept(old.email, email) = old.email
      BY DEF Kept
    <3>4. new \in Guest /\ new.id = old.id /\ new.name = old.name /\ new.email = Kept(old.email, email)
      <4> HIDE DEF old
      <4>1. QED
        BY <3>1, <3>2 DEF Guest
    <3>5. QED
      BY <2>4, <3>3, <3>4
  <2>6. Edited
    BY <1>0, <2>4, <2>5 DEF Edited
  <2>7. guests' \in Seq(Guest)
    <3>1. \A j \in 1..Len(guests) : guests'[j] \in Guest
      BY <1>0, <2>4, <2>5
    <3>2. guests' = [j \in 1..Len(guests) |-> guests'[j]]
      BY <1>0, <2>1
    <3>3. QED
      BY <1>0, <3>1, <3>2, IsASeq
  <2>8. QED
    BY <2>2, <2>6, <2>7 DEF ListStep
<1>2. CASE Found(name) = {}
  <2>1. PICK id \in GuestId \ entered :
          /\ entered' = entered \cup {id}
          /\ guests' = Append(guests, [id |-> id, name |-> name, email |-> email, status |-> answer])
    BY <1>2 DEF RSVP
  <2>2. [id |-> id, name |-> name, email |-> email, status |-> answer] \in Guest
    BY DEF Guest
  <2>3. Len(guests) < MaxGuests
    BY <1>2 DEF RSVP, Admits
  <2>4. \A i \in DOMAIN guests : guests[i].name # name
    BY <1>2 DEF Found
  <2>5. Entered
    BY <2>1, <2>2, <2>3, <2>4 DEF Entered
  <2>6. QED
    BY <2>5 DEF ListStep
<1>3. QED
  BY <1>1, <1>2

\* Every step leaves the list alone or is one of the four.
LEMMA ListSteps ==
  ASSUME GuestsInv, [InvitesNext]_<<vars, guestVars>>
  PROVE  ListStep \/ (guests' = guests /\ entered' = entered)
<1>1. CASE CreateInvite
  BY <1>1 DEF CreateInvite
<1>2. CASE RevokeInvite
  BY <1>2 DEF RevokeInvite
<1>3. ASSUME NEW k \in 1..MaxInvites, NEW name \in Name, NEW email \in Address \cup {None},
             NEW answer \in {"yes", "no"}, RSVP(k, name, email, answer)
      PROVE  ListStep
  BY <1>3, AnswerIsListStep
<1>4. ASSUME NEW i \in 1..Cardinality(GuestId), RemoveGuest(i) PROVE ListStep
  BY <1>4 DEF RemoveGuest, ListStep, Removed
<1>5. CASE Propagate
  BY <1>5 DEF Propagate
<1>6. CASE DeleteEventAndGuests
  BY <1>6 DEF DeleteEventAndGuests, ListStep
<1>7. CASE (Delivering \/ AdvanceTime) /\ UNCHANGED guestVars
  BY <1>7 DEF guestVars
<1>8. CASE UNCHANGED <<vars, guestVars>>
  BY <1>8 DEF guestVars
<1>9. QED
  BY <1>1, <1>2, <1>3, <1>4, <1>5, <1>6, <1>7, <1>8 DEF InvitesNext

\* The list without its i-th entry: the others, moved up.
LEMMA WithoutOne ==
  ASSUME GuestsInv, NEW i \in DOMAIN guests
  PROVE  /\ RemoveAt(guests, i) \in Seq(Guest)
         /\ Len(RemoveAt(guests, i)) = Len(guests) - 1
         /\ \A j \in 1..(Len(guests) - 1) :
              RemoveAt(guests, i)[j] = guests[IF j < i THEN j ELSE j + 1]
<1> DEFINE front == SubSeq(guests, 1, i - 1)
           back  == SubSeq(guests, i + 1, Len(guests))
<1>1. Len(guests) \in Nat /\ i \in 1..Len(guests) /\ \A j \in 1..Len(guests) : guests[j] \in Guest
  BY DEF GuestsInv
<1>2. /\ front \in Seq(Guest) /\ Len(front) = i - 1
      /\ \A j \in 1..(i - 1) : front[j] = guests[j]
  <2>1. \A j \in 1..(i - 1) : guests[j] \in Guest
    BY <1>1
  <2>2. /\ front \in Seq(Guest)
        /\ Len(front) = IF 1 <= i - 1 THEN (i - 1) - 1 + 1 ELSE 0
        /\ \A j \in 1..((i - 1) - 1 + 1) : front[j] = guests[1 + j - 1]
    BY <1>1, <2>1, SubSeqProperties
  <2>3. QED
    BY <1>1, <2>2
<1>3. /\ back \in Seq(Guest) /\ Len(back) = Len(guests) - i
      /\ \A j \in 1..(Len(guests) - i) : back[j] = guests[i + j]
  <2>1. \A j \in (i + 1)..Len(guests) : guests[j] \in Guest
    BY <1>1
  <2>2. /\ back \in Seq(Guest)
        /\ Len(back) = IF i + 1 <= Len(guests) THEN Len(guests) - (i + 1) + 1 ELSE 0
        /\ \A j \in 1..(Len(guests) - (i + 1) + 1) : back[j] = guests[(i + 1) + j - 1]
    BY <1>1, <2>1, SubSeqProperties
  <2>3. QED
    BY <1>1, <2>2
<1>4. /\ front \o back \in Seq(Guest)
      /\ Len(front \o back) = Len(front) + Len(back)
      /\ \A j \in 1..(Len(front) + Len(back)) :
           (front \o back)[j] = IF j <= Len(front) THEN front[j] ELSE back[j - Len(front)]
  BY <1>2, <1>3, ConcatProperties
<1>5. RemoveAt(guests, i) = front \o back
  BY DEF RemoveAt
<1>6. Len(front) + Len(back) = Len(guests) - 1
  <2> HIDE DEF front, back
  <2>1. QED
    BY <1>1, <1>2, <1>3
<1>7. \A j \in 1..(Len(guests) - 1) :
        (front \o back)[j] = guests[IF j < i THEN j ELSE j + 1]
  <2> SUFFICES ASSUME NEW j \in 1..(Len(guests) - 1)
               PROVE  (front \o back)[j] = guests[IF j < i THEN j ELSE j + 1]
    OBVIOUS
  <2> HIDE DEF front, back
  <2>1. (front \o back)[j] = IF j <= i - 1 THEN front[j] ELSE back[j - (i - 1)]
    BY <1>2, <1>4, <1>6
  <2>2. CASE j < i
    BY <1>1, <1>2, <2>1, <2>2
  <2>3. CASE ~(j < i)
    <3>1. j - (i - 1) \in 1..(Len(guests) - i) /\ i + (j - (i - 1)) = j + 1
      BY <1>1, <2>3
    <3>2. back[j - (i - 1)] = guests[j + 1]
      BY <1>3, <3>1
    <3>3. QED
      BY <1>1, <2>1, <2>3, <3>2
  <2>4. QED
    BY <2>2, <2>3
<1>8. QED
  BY <1>4, <1>5, <1>6, <1>7

LEMMA GuestsInvInit == InvitesInit => GuestsInv
<1>1. \A i \in DOMAIN <<>> : FALSE
  OBVIOUS
<1>2. QED
  BY <1>1, InvitesAssumption DEF InvitesInit, GuestsInv, ListIsSound

LEMMA GuestsInvStep == GuestsInv /\ [InvitesNext]_<<vars, guestVars>> => GuestsInv'
<1> SUFFICES ASSUME GuestsInv, [InvitesNext]_<<vars, guestVars>> PROVE GuestsInv'
  OBVIOUS
<1>0. DOMAIN guests = 1..Len(guests) /\ Len(guests) \in Nat /\ \A i \in DOMAIN guests : guests[i] \in Guest
  BY DEF GuestsInv
<1>1. CASE Edited /\ guests' \in Seq(Guest) /\ entered' = entered
  <2>1. Len(guests') = Len(guests)
    BY <1>0, <1>1 DEF Edited
  <2>2. QED
    BY <1>1, <2>1 DEF GuestsInv, ListIsSound, Edited
<1>2. CASE Entered
  <2>1. PICK g \in Guest :
          /\ guests' = Append(guests, g) /\ Len(guests) < MaxGuests
          /\ g.id \notin entered /\ entered' = entered \cup {g.id}
          /\ \A i \in DOMAIN guests : guests[i].name # g.name
    BY <1>2 DEF Entered
  <2>2. /\ guests' \in Seq(Guest) /\ Len(guests') = Len(guests) + 1
        /\ DOMAIN guests' = 1..(Len(guests) + 1)
        /\ guests'[Len(guests) + 1] = g
        /\ \A i \in 1..Len(guests) : guests'[i] = guests[i]
    BY <1>0, <2>1 DEF GuestsInv
  <2>3. \A i \in 1..Len(guests) : guests[i].id \in entered /\ guests[i].id # g.id /\ guests[i].name # g.name
    BY <1>0, <2>1 DEF GuestsInv
  <2>4. Len(guests') <= MaxGuests
    BY <1>0, <2>1, <2>2, InvitesAssumption
  <2>5. \A i \in DOMAIN guests' : i \in 1..Len(guests) \/ i = Len(guests) + 1
    BY <1>0, <2>2
  <2>6. \A i, j \in DOMAIN guests' :
          guests'[i].name = guests'[j].name \/ guests'[i].id = guests'[j].id => i = j
    BY <1>0, <2>2, <2>3, <2>5 DEF GuestsInv, ListIsSound
  <2>7. \A i \in DOMAIN guests' : guests'[i].id \in entered'
    BY <2>1, <2>2, <2>3, <2>5
  <2>8. QED
    BY <2>2, <2>4, <2>6, <2>7 DEF GuestsInv, ListIsSound
<1>3. CASE Removed /\ entered' = entered
  <2>1. PICK i \in DOMAIN guests : guests' = RemoveAt(guests, i)
    BY <1>3 DEF Removed
  <2> DEFINE was(j) == IF j < i THEN j ELSE j + 1
  <2>2. /\ guests' \in Seq(Guest) /\ Len(guests') = Len(guests) - 1
        /\ \A j \in 1..(Len(guests) - 1) : guests'[j] = guests[was(j)]
    BY <2>1, WithoutOne
  <2>3. DOMAIN guests' = 1..(Len(guests) - 1)
    BY <1>0, <2>2
  <2>4. \A j \in DOMAIN guests' : was(j) \in DOMAIN guests
    BY <1>0, <2>1, <2>3
  <2>5. \A j, k \in DOMAIN guests' : was(j) = was(k) => j = k
    BY <1>0, <2>1, <2>3
  <2> HIDE DEF was
  <2>6. Len(guests') <= MaxGuests
    BY <1>0, <2>2, InvitesAssumption DEF GuestsInv, ListIsSound
  <2>7. \A j \in DOMAIN guests' : was(j) \in DOMAIN guests /\ guests'[j] = guests[was(j)]
    BY <2>2, <2>3, <2>4
  <2>8. \A j \in DOMAIN guests' : guests'[j].id \in entered'
    BY <1>3, <2>7 DEF GuestsInv
  <2>9. ASSUME NEW j \in DOMAIN guests', NEW k \in DOMAIN guests',
               guests'[j].name = guests'[k].name \/ guests'[j].id = guests'[k].id
        PROVE  j = k
    <3>1. was(j) = was(k)
      BY <2>7, <2>9 DEF GuestsInv, ListIsSound
    <3>2. QED
      BY <2>5, <3>1
  <2>10. QED
    BY <2>2, <2>6, <2>8, <2>9 DEF GuestsInv, ListIsSound
<1>4. CASE guests' = <<>> /\ entered' = entered
  BY <1>4, InvitesAssumption DEF GuestsInv, ListIsSound
<1>5. CASE guests' = guests /\ entered' = entered
  BY <1>5 DEF GuestsInv, ListIsSound
<1>6. QED
  BY <1>1, <1>2, <1>3, <1>4, <1>5, ListSteps DEF ListStep

LEMMA GuestsInvHolds == InvitesSpec => []GuestsInv
BY GuestsInvInit, GuestsInvStep, PTL DEF InvitesSpec

\* A name has one entry, an id one guest, and the public list stays within its cap,
\* whatever order of answers, removals and links (RSVP).
THEOREM OneEntryPerName == InvitesSpec => []ListIsSound
<1>1. GuestsInv => ListIsSound
  BY DEF GuestsInv
<1>2. QED
  BY <1>1, GuestsInvHolds, PTL

\* No answer under a guest's name, by whoever holds the link, takes or redirects the
\* address the guest's notices go to (RSVP).
THEOREM AddressesStand == InvitesSpec => AddressStays
<1> DEFINE Stays == \A g \in Guests, h \in ToSet(guests') :
                      g.id = h.id /\ g.email # None => h.email = g.email
<1>1. GuestsInv /\ [InvitesNext]_<<vars, guestVars>> => [Stays]_<<vars, guestVars>>
  <2> SUFFICES ASSUME GuestsInv, [InvitesNext]_<<vars, guestVars>>,
                      NEW i \in DOMAIN guests, NEW j \in DOMAIN guests',
                      guests[i].id = guests'[j].id, guests[i].email # None
               PROVE  guests'[j].email = guests[i].email
    BY DEF Guests, ToSet
  <2>0. DOMAIN guests = 1..Len(guests) /\ Len(guests) \in Nat
    BY DEF GuestsInv
  <2>1. CASE Edited
    BY <2>1 DEF Edited, GuestsInv, ListIsSound
  <2>2. CASE Entered
    <3>1. PICK g \in Guest : guests' = Append(guests, g) /\ g.id \notin entered
      BY <2>2 DEF Entered
    <3>2. DOMAIN guests' = 1..(Len(guests) + 1) /\ guests'[Len(guests) + 1] = g
          /\ \A k \in 1..Len(guests) : guests'[k] = guests[k]
      BY <2>0, <3>1 DEF GuestsInv
    <3>3. guests[i].id \in entered
      BY DEF GuestsInv
    <3>4. j # Len(guests) + 1
      BY <3>1, <3>2, <3>3
    <3>5. j \in DOMAIN guests /\ guests'[j] = guests[j]
      BY <2>0, <3>2, <3>4
    <3>6. QED
      BY <3>5 DEF GuestsInv, ListIsSound
  <2>3. CASE Removed
    <3>1. PICK k \in DOMAIN guests : guests' = RemoveAt(guests, k)
      BY <2>3 DEF Removed
    <3> DEFINE was == IF j < k THEN j ELSE j + 1
    <3>2. guests' \in Seq(Guest) /\ Len(guests') = Len(guests) - 1
          /\ \A m \in 1..(Len(guests) - 1) : guests'[m] = guests[IF m < k THEN m ELSE m + 1]
      BY <3>1, WithoutOne
    <3>3. DOMAIN guests' = 1..(Len(guests) - 1)
      BY <2>0, <3>2
    <3>4. was \in DOMAIN guests /\ guests'[j] = guests[was]
      BY <2>0, <3>1, <3>2, <3>3
    <3>5. QED
      BY <3>4 DEF GuestsInv, ListIsSound
  <2>4. CASE guests' = <<>>
    BY <2>4
  <2>5. CASE guests' = guests
    BY <2>5 DEF GuestsInv, ListIsSound
  <2>6. QED
    BY <2>1, <2>2, <2>3, <2>4, <2>5, ListSteps DEF ListStep
<1>2. QED
  BY <1>1, GuestsInvHolds, PTL DEF InvitesSpec, AddressStays

\* The event's life, as far as the link looks at it.
Life == status \in {"scheduled", "cancelled", "deleted"} /\ until \in Int

LEMMA LifeHolds == InvitesSpec => []Life
<1>1. InvitesInit => Life
  BY DEF InvitesInit, Life
<1>2. Life /\ [InvitesNext]_<<vars, guestVars>> => Life'
  <2> SUFFICES ASSUME Life, [InvitesNext]_<<vars, guestVars>> PROVE Life'
    OBVIOUS
  <2> USE DEF Life
  <2>1. UNCHANGED vars => Life'
    BY DEF vars
  <2>2. CASE Propagate
    BY <2>2 DEF Propagate, Cancel, Reinstate, Move
  <2>3. CASE DeleteEventAndGuests
    BY <2>3 DEF DeleteEventAndGuests, DeleteEvent
  <2>4. CASE Delivering
    BY <2>4 DEF Delivering, Send, RetryOutbox, Prune
  <2>5. CASE AdvanceTime
    <3>1. status' = status /\ until' = IF until > -Retention THEN until - 1 ELSE until
      BY <2>5 DEF AdvanceTime
    <3>2. QED
      BY <3>1
  <2>6. QED
    BY <2>1, <2>2, <2>3, <2>4, <2>5 DEF InvitesNext, CreateInvite, RevokeInvite, RSVP, RemoveGuest
<1>3. QED
  BY <1>1, <1>2, PTL DEF InvitesSpec

\* A list that is revoked, expired or of a party called off gains nobody and no
\* answer, whatever links are about (RSVP, lookupInviteLocked).
THEOREM ClosedListsStand == InvitesSpec => ClosedListStays
<1> DEFINE Closed == invite = 0 \/ status # "scheduled" \/ until < -Slack
<1>1. GuestsInv /\ Life /\ [InvitesNext]_<<vars, guestVars>> =>
        [Closed => ToSet(guests') \subseteq Guests]_<<vars, guestVars>>
  <2> SUFFICES ASSUME GuestsInv, Life, [InvitesNext]_<<vars, guestVars>>, Closed
               PROVE  ToSet(guests') \subseteq Guests
    OBVIOUS
  <2>1. guests' = guests => ToSet(guests') \subseteq Guests
    BY DEF Guests, ToSet
  <2>2. ASSUME NEW k \in 1..MaxInvites, NEW name \in Name, NEW email \in Address \cup {None},
               NEW answer \in {"yes", "no"}, RSVP(k, name, email, answer)
        PROVE  FALSE
    <3>1. k = invite /\ k # 0 /\ status = "scheduled" /\ until >= -Slack
      BY <2>2 DEF RSVP, Resolves, Life
    <3>2. Slack \in Int /\ until \in Int
      BY InvitesAssumption, PropagationAssumption DEF Life
    <3>3. QED
      BY <3>1, <3>2
  <2>3. ASSUME NEW i \in 1..Cardinality(GuestId), RemoveGuest(i) PROVE ToSet(guests') \subseteq Guests
    <3>1. i \in DOMAIN guests /\ guests' = RemoveAt(guests, i)
      BY <2>3 DEF RemoveGuest
    <3>2. guests' \in Seq(Guest) /\ Len(guests') = Len(guests) - 1 /\ Len(guests) \in Nat
          /\ DOMAIN guests = 1..Len(guests)
          /\ \A j \in 1..(Len(guests) - 1) : guests'[j] = guests[IF j < i THEN j ELSE j + 1]
      BY <3>1, WithoutOne DEF GuestsInv
    <3>3. DOMAIN guests' = 1..(Len(guests) - 1)
      BY <3>2
    <3>4. \A j \in DOMAIN guests' : (IF j < i THEN j ELSE j + 1) \in DOMAIN guests
      BY <3>1, <3>2, <3>3
    <3>5. \A j \in DOMAIN guests' : \E m \in DOMAIN guests : guests'[j] = guests[m]
      BY <3>2, <3>3, <3>4
    <3>6. QED
      BY <3>5 DEF Guests, ToSet
  <2>4. CASE DeleteEventAndGuests
    BY <2>4 DEF DeleteEventAndGuests, ToSet
  <2>5. QED
    BY <2>1, <2>2, <2>3, <2>4 DEF InvitesNext, CreateInvite, RevokeInvite, Propagate, guestVars
<1>2. QED
  BY <1>1, GuestsInvHolds, LifeHolds, PTL DEF InvitesSpec, ClosedListStays

-----------------------------------------------------------------------------
\* Whom a fan-out writes to.

\* The order a fan-out walks the targets in, and where the guests begin.
Order == SetToSeq(Audience) \o ToldIds
Others == Cardinality(Audience)

\* The guests written to are numbered through, in the order of the list.
LEMMA ToldNumbered ==
  ASSUME GuestsInv
  PROVE  /\ Cardinality(Told) \in Nat
         /\ \A k \in 1..Cardinality(Told) : Nth(k) \in Told
         /\ \A k, m \in 1..Cardinality(Told) : Nth(k) = Nth(m) => k = m
         /\ \A i \in Told : \E k \in 1..Cardinality(Told) : Nth(k) = i
<1> DEFINE n       == Cardinality(Told)
           rank(i) == Cardinality({j \in Told : j <= i})
<1>1. DOMAIN guests = 1..Len(guests) /\ Len(guests) \in Nat
  BY DEF GuestsInv
<1>2. Told \in SUBSET Nat /\ Told \in SUBSET (1..Len(guests))
  BY <1>1 DEF Told
<1>3. IsFiniteSet(Told)
  <2>1. IsFiniteSet(1..Len(guests))
    BY <1>1, FS_Interval
  <2>2. QED
    BY <1>2, <2>1, FS_Subset
<1>4. [i \in Told |-> rank(i)] \in Bijection(Told, 1..n)
  BY <1>2, <1>3, CountedThrough
<1> HIDE DEF rank
<1>5. /\ \A i \in Told : rank(i) \in 1..n
      /\ \A i, j \in Told : rank(i) = rank(j) => i = j
      /\ \A k \in 1..n : \E i \in Told : rank(i) = k
  BY <1>4 DEF Bijection, Injection, Surjection, IsInjective
<1>6. \A k : Nth(k) = CHOOSE i \in Told : rank(i) = k
  BY DEF Nth, rank
<1>7. \A k \in 1..n : Nth(k) \in Told /\ rank(Nth(k)) = k
  BY <1>5, <1>6
<1>8. \A i \in Told : Nth(rank(i)) = i
  BY <1>5, <1>7
<1>9. QED
  BY <1>3, <1>5, <1>7, <1>8, FS_CardinalityType

\* The order names every one of its targets once: a broadcast or a channel of a
\* responsible person, then the guests written to.
LEMMA OrderListed ==
  ASSUME GuestsInv
  PROVE  LET n == Others + Cardinality(Told)
         IN  /\ Others \in Nat /\ Cardinality(Told) \in Nat
             /\ DOMAIN Order = 1..n /\ Order \in Seq(Target)
             /\ \A p \in 1..Others : Order[p] \in Audience
             /\ \A p \in 1..n : p > Others =>
                  p - Others \in 1..Cardinality(Told) /\ Order[p] = guests[Nth(p - Others)].id
             /\ \A p, q \in 1..n : Order[p] = Order[q] => p = q
<1> DEFINE front == SetToSeq(Audience)
           t     == Cardinality(Told)
           n     == Others + t
<1>1. IsFiniteSet(Audience) /\ Audience \subseteq Target /\ GuestId \subseteq Target /\ GuestId \cap Audience = {}
  BY InvitesAssumption, PropagationAssumption, FS_Subset
<1>2. /\ Others \in Nat /\ front \in [1..Others -> Audience]
      /\ \A i, j \in 1..Others : front[i] = front[j] => i = j
  BY <1>1, ListedOnce DEF Others
<1>3. /\ t \in Nat
      /\ \A k \in 1..t : Nth(k) \in Told
      /\ \A k, m \in 1..t : Nth(k) = Nth(m) => k = m
  BY ToldNumbered
<1>4. \A i \in Told : i \in DOMAIN guests /\ guests[i].id \in GuestId
  <2>1. \A i \in DOMAIN guests : guests[i] \in Guest
    BY DEF GuestsInv
  <2>2. \A g \in Guest : g.id \in GuestId
    BY DEF Guest
  <2>3. QED
    BY <2>1, <2>2 DEF Told
<1>5. ToldIds = [k \in 1..t |-> guests[Nth(k)].id]
  BY DEF ToldIds
<1>6. \A k \in 1..t : ToldIds[k] = guests[Nth(k)].id /\ ToldIds[k] \in GuestId
  BY <1>3, <1>4, <1>5
<1>7. \A k, m \in 1..t : ToldIds[k] = ToldIds[m] => k = m
  <2> SUFFICES ASSUME NEW k \in 1..t, NEW m \in 1..t, ToldIds[k] = ToldIds[m] PROVE k = m
    OBVIOUS
  <2>1. guests[Nth(k)].id = guests[Nth(m)].id /\ Nth(k) \in DOMAIN guests /\ Nth(m) \in DOMAIN guests
    BY <1>3, <1>4, <1>6
  <2>2. Nth(k) = Nth(m)
    BY <2>1 DEF GuestsInv, ListIsSound
  <2>3. QED
    BY <1>3, <2>2
<1>8. front \in Seq(Target) /\ Len(front) = Others
  <2>1. \A i \in 1..Others : front[i] \in Target
    BY <1>1, <1>2
  <2>2. front = [i \in 1..Others |-> front[i]]
    BY <1>2
  <2> HIDE DEF front
  <2>3. [i \in 1..Others |-> front[i]] \in Seq(Target)
    BY <1>2, <2>1, IsASeq
  <2>4. DOMAIN front = 1..Others
    BY <2>2
  <2>5. QED
    BY <1>2, <2>2, <2>3, <2>4, LenProperties
<1>9. ToldIds \in Seq(Target) /\ Len(ToldIds) = t
  <2>1. \A k \in 1..t : guests[Nth(k)].id \in Target
    BY <1>1, <1>6
  <2>2. ToldIds \in Seq(Target)
    BY <1>3, <1>5, <2>1, IsASeq
  <2>3. DOMAIN ToldIds = 1..t
    BY <1>5
  <2>4. QED
    BY <1>3, <2>2, <2>3, LenProperties
<1> HIDE DEF front, t
<1>10. /\ Order \in Seq(Target) /\ Len(Order) = n
       /\ \A p \in 1..n : Order[p] = IF p <= Others THEN front[p] ELSE ToldIds[p - Others]
  BY <1>8, <1>9, ConcatProperties DEF Order, front
<1>11. DOMAIN Order = 1..n
  BY <1>10, LenProperties
<1>12. \A p \in 1..Others : Order[p] = front[p] /\ Order[p] \in Audience
  <2>1. \A p \in 1..Others : p \in 1..n /\ p <= Others
    BY <1>2, <1>3
  <2>2. QED
    BY <1>2, <1>10, <2>1
<1>13. \A p \in 1..n : p > Others =>
         p - Others \in 1..t /\ Order[p] = ToldIds[p - Others]
  BY <1>2, <1>3, <1>10
<1>14. \A p, q \in 1..n : Order[p] = Order[q] => p = q
  <2> SUFFICES ASSUME NEW p \in 1..n, NEW q \in 1..n, Order[p] = Order[q] PROVE p = q
    OBVIOUS
  <2>0. (p \in 1..Others \/ p > Others) /\ (q \in 1..Others \/ q > Others)
    BY <1>2, <1>3
  <2>1. CASE p \in 1..Others /\ q \in 1..Others
    BY <1>2, <1>12, <2>1
  <2>2. CASE p > Others /\ q > Others
    <3>1. p - Others = q - Others
      BY <1>7, <1>13, <2>2
    <3>2. QED
      BY <1>2, <1>3, <3>1
  <2>3. CASE p \in 1..Others /\ q > Others
    BY <1>1, <1>6, <1>12, <1>13, <2>3
  <2>4. CASE p > Others /\ q \in 1..Others
    BY <1>1, <1>6, <1>12, <1>13, <2>4
  <2>5. QED
    BY <2>0, <2>1, <2>2, <2>3, <2>4
<1>15. QED
  BY <1>2, <1>3, <1>6, <1>10, <1>11, <1>12, <1>13, <1>14 DEF t

\* So a propagation of the invitations is one of Propagation.
LEMMA OrderIsBijection ==
  ASSUME GuestsInv
  PROVE  /\ ToSet(Order) \in SUBSET Target
         /\ Cardinality(ToSet(Order)) = Others + Cardinality(Told)
         /\ Order \in Bijection(1..Cardinality(ToSet(Order)), ToSet(Order))
<1> DEFINE n == Others + Cardinality(Told)
<1>1. /\ n \in Nat /\ DOMAIN Order = 1..n /\ Order \in Seq(Target)
      /\ \A p, q \in 1..n : Order[p] = Order[q] => p = q
  BY OrderListed
<1>2. ToSet(Order) = {Order[p] : p \in 1..n}
  BY <1>1 DEF ToSet
<1>3. \A p \in 1..n : Order[p] \in Target
  BY <1>1
<1>4. Order \in [1..n -> ToSet(Order)]
  <2>1. Order = [p \in 1..n |-> Order[p]]
    BY <1>1, LenProperties
  <2>2. QED
    BY <1>2, <2>1
<1>5. Order \in Bijection(1..n, ToSet(Order))
  BY <1>1, <1>2, <1>4 DEF Bijection, Injection, Surjection, IsInjective
<1>6. Cardinality(1..n) = n /\ IsFiniteSet(1..n)
  BY <1>1, FS_Interval
<1>7. Cardinality(ToSet(Order)) = n
  BY <1>5, <1>6, FS_Bijection DEF ExistsBijection
<1>8. QED
  BY <1>2, <1>3, <1>5, <1>7

\* The invitations are a propagation: what is proved of every propagation holds of
\* the events with guests.
THEOREM InvitesArePropagation == InvitesSpec => Spec
<1>1. InvitesInit => Init
  <2> SUFFICES ASSUME InvitesInit PROVE Init
    OBVIOUS
  <2> DEFINE n == Cardinality({})
  <2>1. n = 0 /\ 1..n = {}
    BY FS_EmptySet
  <2>2. MaxRows \in Nat
    BY PropagationAssumption
  <2>3. <<>> \in Bijection(1..n, {}) /\ <<>> = [i \in 1..n |-> NewRow(0, "cancellation", <<>>[i])]
    <3>1. DOMAIN <<>> = {}
      OBVIOUS
    <3>2. <<>> = [i \in {} |-> i]
      OBVIOUS
    <3>3. <<>> \in [{} -> {}]
      BY <3>2
    <3>4. QED
      BY <2>1, <3>1, <3>2, <3>3 DEF Bijection, Injection, Surjection, IsInjective
  <2>4. outbox = <<>>
    BY DEF InvitesInit
  <2>5. /\ n <= MaxRows /\ created = n
        /\ status = IF n > 0 \/ FALSE THEN "cancelled" ELSE "scheduled"
        /\ until = 1
        /\ fanOut = [txn |-> 0, count |-> IF FALSE /\ TRUE THEN n ELSE 0, known |-> FALSE]
        /\ owed = IF TRUE THEN 1..n ELSE {}
        /\ arrived = {}
    BY <2>1, <2>2 DEF InvitesInit
  <2>6. \E order \in Bijection(1..n, {}) : outbox = [i \in 1..n |-> NewRow(0, "cancellation", order[i])]
    BY <2>3, <2>4
  <2> HIDE DEF n
  <2>7. {} \in SUBSET Target /\ FALSE \in BOOLEAN /\ TRUE \in BOOLEAN
    OBVIOUS
  <2>8. QED
    BY <2>5, <2>6, <2>7 DEF Init, n
<1>2. GuestsInv /\ [InvitesNext]_<<vars, guestVars>> => [Next]_vars
  <2> SUFFICES ASSUME GuestsInv, [InvitesNext]_<<vars, guestVars>> PROVE [Next]_vars
    OBVIOUS
  <2>1. CASE Propagate
    <3> DEFINE tos == ToSet(Order)
    <3>1. Cancel(tos, Order) \/ Reinstate(tos, Order) \/ Move(tos, Order)
      BY <2>1 DEF Propagate, Order
    <3>2. tos \in SUBSET Target /\ Order \in Bijection(1..Cardinality(tos), tos)
      BY OrderIsBijection
    <3> HIDE DEF tos
    <3>3. QED
      BY <3>1, <3>2 DEF Next
  <2>2. CASE DeleteEventAndGuests
    BY <2>2 DEF DeleteEventAndGuests, Next
  <2>3. CASE Delivering \/ AdvanceTime
    BY <2>3 DEF Next
  <2>4. UNCHANGED vars \/ Propagate \/ DeleteEventAndGuests \/ Delivering \/ AdvanceTime
    BY DEF InvitesNext, CreateInvite, RevokeInvite, RSVP, RemoveGuest
  <2>5. QED
    BY <2>1, <2>2, <2>3, <2>4
<1>3. QED
  BY <1>1, <1>2, GuestsInvHolds, PTL DEF InvitesSpec, Spec

\* What the panel says of an event with guests is true, and no deletion walks away
\* from a notice to one that may still arrive (Propagation, DeleteEvent).
THEOREM GuestsAreNotForgotten ==
  InvitesSpec => []CompleteIsTrue /\ []MissingIsShown /\ DeletedOnlySettled
BY InvitesArePropagation, CompleteMeansTold, MissingAreShown, DeletionLeavesNothingMoving

\* A fan-out owes one row for every place in the order.
LEMMA RowsOfAFanOut ==
  ASSUME GuestsInv, Inv, Propagate
  PROVE  LET n == Others + Cardinality(Told)
         IN  /\ created \in Nat
             /\ owed' = created + 1 .. created + n
             /\ \A i \in owed' : i - created \in 1..n /\ outbox'[i].to = Order[i - created]
<1> DEFINE n   == Others + Cardinality(Told)
           tos == ToSet(Order)
<1>1. Cardinality(tos) = n /\ n \in Nat /\ created \in Nat
  BY OrderIsBijection, OrderListed DEF Inv, RowsInv
<1>2. PICK purpose \in Purpose : FanOut(purpose, tos, Order)
  BY DEF Propagate, Order, Cancel, Reinstate, Move, Purpose, Notice
<1> HIDE DEF tos
<1>3. /\ owed' = created + 1 .. created + n
      /\ \A i \in owed' : outbox'[i] = NewRow(fanOut.txn + 1, purpose, Order[i - created])
  BY <1>1, <1>2 DEF FanOut
<1>4. \A i \in owed' : i - created \in 1..n
  BY <1>1, <1>3
<1>5. \A t, p, o : NewRow(t, p, o).to = o
  BY DEF NewRow
<1>6. QED
  BY <1>1, <1>3, <1>4, <1>5

\* The address of a guest is at one place of the order, the one of its first entry.
LEMMA AddressHasOnePlace ==
  ASSUME GuestsInv, NEW a \in {g.email : g \in Guests} \ {None}
  PROVE  LET n == Others + Cardinality(Told)
         IN  \E p \in 1..n :
               /\ \E g \in Guests : g.id = Order[p] /\ g.email = a
               /\ \A q \in 1..n :
                    (\E g \in Guests : g.id = Order[q] /\ g.email = a) => q = p
<1> DEFINE n     == Others + Cardinality(Told)
           At    == {i \in DOMAIN guests : guests[i].email = a}
<1>0. GuestId \cap Audience = {}
  BY InvitesAssumption
<1>1. DOMAIN guests = 1..Len(guests) /\ Len(guests) \in Nat /\ \A i \in DOMAIN guests : guests[i].id \in GuestId
  <2>1. \A i \in DOMAIN guests : guests[i] \in Guest
    BY DEF GuestsInv
  <2>2. \A g \in Guest : g.id \in GuestId
    BY DEF Guest
  <2>3. QED
    BY <2>1, <2>2 DEF GuestsInv
<1>2. PICK i \in At : \A j \in At : i <= j
  <2>1. At \in SUBSET Nat /\ At \in SUBSET (1..Len(guests))
    BY <1>1
  <2>2. IsFiniteSet(1..Len(guests))
    BY <1>1, FS_Interval
  <2>3. IsFiniteSet(At)
    BY <2>1, <2>2, FS_Subset
  <2>4. At # {}
    BY DEF Guests, ToSet
  <2> HIDE DEF At
  <2>5. QED
    BY <2>1, <2>3, <2>4, FirstOfASet
<1>3. i \in Told
  BY <1>1, <1>2 DEF Told
<1>4. \A j \in Told : guests[j].email = a => j = i
  BY <1>1, <1>2, <1>3 DEF Told
<1>5. PICK k \in 1..Cardinality(Told) : Nth(k) = i
  BY <1>3, ToldNumbered
<1> DEFINE p == Others + k
<1>6. /\ Others \in Nat /\ Cardinality(Told) \in Nat
      /\ \A q \in 1..Others : Order[q] \in Audience
      /\ \A q \in 1..n : q > Others =>
           q - Others \in 1..Cardinality(Told) /\ Order[q] = guests[Nth(q - Others)].id
  BY OrderListed
<1>7. p \in 1..n /\ p > Others /\ p - Others = k
  BY <1>5, <1>6
<1>8. Order[p] = guests[i].id
  BY <1>5, <1>6, <1>7
<1>9. \E g \in Guests : g.id = Order[p] /\ g.email = a
  BY <1>2, <1>8 DEF Guests, ToSet
<1>10. ASSUME NEW q \in 1..n, NEW j \in DOMAIN guests, guests[j].id = Order[q], guests[j].email = a
       PROVE  q = p
  <2>1. q > Others
    <3>1. q \in 1..Others \/ q > Others
      BY <1>6
    <3>2. q \notin 1..Others
      BY <1>0, <1>1, <1>6, <1>10
    <3>3. QED
      BY <3>1, <3>2
  <2>2. q - Others \in 1..Cardinality(Told) /\ guests[j].id = guests[Nth(q - Others)].id
    BY <1>6, <1>10, <2>1
  <2>3. Nth(q - Others) \in Told
    BY <2>2, ToldNumbered
  <2>4. Nth(q - Others) = j
    BY <1>10, <2>2, <2>3 DEF Told, GuestsInv, ListIsSound
  <2>5. Nth(q - Others) = Nth(k)
    BY <1>4, <1>5, <1>10, <2>3, <2>4
  <2>6. q - Others = k
    BY <1>5, <2>2, <2>5, ToldNumbered
  <2>7. QED
    BY <1>6, <2>6
<1> HIDE DEF p, n
<1>11. \A q \in 1..n : (\E g \in Guests : g.id = Order[q] /\ g.email = a) => q = p
  BY <1>10 DEF Guests, ToSet
<1>12. QED
  BY <1>7, <1>9, <1>11 DEF n

\* A propagation writes to every address on the list once: decliners, guests of a
\* revoked link and people who share an address included (fanOutLocked).
THEOREM EveryAddressOnce == InvitesSpec => OneNoticePerAddress
<1> DEFINE rows(a) == {i \in owed' : \E g \in Guests : g.id = outbox'[i].to /\ g.email = a}
           Once    == fanOut'.txn # fanOut.txn =>
                        \A a \in {g.email : g \in Guests} \ {None} : Cardinality(rows(a)) = 1
<1>1. GuestsInv /\ Inv /\ [InvitesNext]_<<vars, guestVars>> => [Once]_<<vars, guestVars>>
  <2> SUFFICES ASSUME GuestsInv, Inv, [InvitesNext]_<<vars, guestVars>>, fanOut'.txn # fanOut.txn,
                      NEW a \in {g.email : g \in Guests} \ {None}
               PROVE  Cardinality(rows(a)) = 1
    OBVIOUS
  <2> DEFINE n == Others + Cardinality(Told)
  <2>1. Propagate
    BY DEF InvitesNext, CreateInvite, RevokeInvite, RSVP, RemoveGuest, DeleteEventAndGuests, DeleteEvent,
           Delivering, Send, RetryOutbox, Prune, AdvanceTime, vars
  <2>2. /\ created \in Nat /\ owed' = created + 1 .. created + n
        /\ \A i \in owed' : i - created \in 1..n /\ outbox'[i].to = Order[i - created]
    BY <2>1, RowsOfAFanOut
  <2>3. PICK p \in 1..n :
          /\ \E g \in Guests : g.id = Order[p] /\ g.email = a
          /\ \A q \in 1..n : (\E g \in Guests : g.id = Order[q] /\ g.email = a) => q = p
    BY AddressHasOnePlace
  <2>4. n \in Nat
    BY OrderListed
  <2> HIDE DEF n
  <2>5. created + p \in owed' /\ created + p - created = p
    BY <2>2, <2>3, <2>4
  <2>6. created + p \in rows(a)
    BY <2>2, <2>3, <2>5
  <2>7. ASSUME NEW i \in rows(a) PROVE i = created + p
    <3>1. i - created = p
      BY <2>2, <2>3, <2>7
    <3>2. QED
      BY <2>2, <2>4, <3>1
  <2>8. rows(a) = {created + p}
    BY <2>6, <2>7
  <2>9. QED
    BY <2>8, FS_Singleton
<1>2. InvitesSpec => []Inv
  BY InvitesArePropagation, InvHolds
<1>3. QED
  BY <1>1, <1>2, GuestsInvHolds, PTL DEF InvitesSpec, OneNoticePerAddress
=============================================================================
