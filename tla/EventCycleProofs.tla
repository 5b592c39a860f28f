-------------------------- MODULE EventCycleProofs --------------------------
(***************************************************************************)
(* What EventCycle guarantees for every set of persons, every lead time    *)
(* the configuration accepts and every delay of a tick.  The inductive     *)
(* invariant adds to the types how the marks of the event record the asks  *)
(* of the current cycle (AsksAreMarked, MarkIsAnAsk) and that an answer    *)
(* ends the scheduled state (AnswerEndsSilence).  For ticks that keep the  *)
(* scheduler's pace (EventCycleTimely) it adds by when a cycle is asked    *)
(* about and by when it is reported (PaceInv).                             *)
(***************************************************************************)
EXTENDS EventCycleTimely, FiniteSetTheorems, TLAPS

\* Whoever was asked in this cycle was asked at a time the event remembers.
AsksAreMarked ==
  \A p \in Person : asked[p] \subseteq {event.reminderSentAt, event.nudgeSentAt} \ {0}

\* A remembered ask went to somebody.
MarkIsAnAsk ==
  event.reminderSentAt # 0 => \E p \in Person : event.reminderSentAt \in asked[p]

\* Confirming and cancelling end the scheduled state.
AnswerEndsSilence == spoke # {} => event.status # "scheduled"

\* There is no second ask without a lead for it.
NudgeOnlyIfConfigured == NudgeLead = 0 => event.nudgeSentAt = 0

CycleInv == TypeOK /\ AsksAreMarked /\ MarkIsAnAsk /\ AnswerEndsSilence /\ NudgeOnlyIfConfigured

-----------------------------------------------------------------------------
\* Lemmas about the three passes.

\* The reminder pass: the row stays typed; it sets at most one mark, to at.
LEMMA RemindedType ==
  ASSUME NEW e \in Event, NEW at \in Time
  PROVE  /\ Reminded(e, at) \in Event
         /\ Reminded(e, at).startsAt = e.startsAt
         /\ Reminded(e, at).status = e.status
         /\ Reminded(e, at).ifUnconfirmed = e.ifUnconfirmed
         /\ Reminded(e, at).nudgeSentAt = e.nudgeSentAt
         /\ Reminded(e, at).deadlineFiredAt = e.deadlineFiredAt
         /\ Reminded(e, at).reminderSentAt = IF Asks(e, at) THEN at ELSE e.reminderSentAt
         /\ Reminded(e, at).unreachableNotifiedAt = IF Warns(e, at) THEN at ELSE e.unreachableNotifiedAt
<1>1. at \in Nat
  BY CycleAssumption DEF Time
<1>2. ~(Asks(e, at) /\ Warns(e, at))
  BY DEF Asks, Warns
<1>3. CASE Asks(e, at)
  BY <1>1, <1>2, <1>3 DEF Reminded, Event, Stamp
<1>4. CASE Warns(e, at)
  BY <1>1, <1>2, <1>4 DEF Reminded, Event, Stamp
<1>5. CASE ~Asks(e, at) /\ ~Warns(e, at)
  BY <1>5 DEF Reminded
<1>. QED
  BY <1>3, <1>4, <1>5

\* The nudge pass sets its own mark and nothing else.
LEMMA NudgedType ==
  ASSUME NEW e \in Event, NEW at \in Time
  PROVE  /\ Nudged(e, at) \in Event
         /\ Nudged(e, at).startsAt = e.startsAt
         /\ Nudged(e, at).status = e.status
         /\ Nudged(e, at).ifUnconfirmed = e.ifUnconfirmed
         /\ Nudged(e, at).reminderSentAt = e.reminderSentAt
         /\ Nudged(e, at).deadlineFiredAt = e.deadlineFiredAt
         /\ Nudged(e, at).unreachableNotifiedAt = e.unreachableNotifiedAt
         /\ Nudged(e, at).nudgeSentAt = IF Nudges(e, at) THEN at ELSE e.nudgeSentAt
<1>1. at \in Nat
  BY CycleAssumption DEF Time
<1>2. CASE Nudges(e, at)
  BY <1>1, <1>2 DEF Nudged, Event, Stamp
<1>3. CASE ~Nudges(e, at)
  BY <1>3 DEF Nudged
<1>. QED
  BY <1>2, <1>3

\* The deadline pass sets its own mark and may cancel a scheduled event.
LEMMA DeadlinedType ==
  ASSUME NEW e \in Event, NEW at \in Time
  PROVE  /\ Deadlined(e, at) \in Event
         /\ Deadlined(e, at).startsAt = e.startsAt
         /\ Deadlined(e, at).reminderSentAt = e.reminderSentAt
         /\ Deadlined(e, at).nudgeSentAt = e.nudgeSentAt
         /\ Deadlined(e, at).unreachableNotifiedAt = e.unreachableNotifiedAt
         /\ Deadlined(e, at).deadlineFiredAt = IF Fires(e, at) THEN at ELSE e.deadlineFiredAt
         /\ Deadlined(e, at).status = IF Kills(e, at) THEN "cancelled" ELSE e.status
<1>1. at \in Nat
  BY CycleAssumption DEF Time
<1>2. Kills(e, at) => Fires(e, at)
  BY DEF Kills
<1>3. CASE Kills(e, at)
  BY <1>1, <1>2, <1>3 DEF Deadlined, Event, Stamp
<1>4. CASE Fires(e, at) /\ ~Kills(e, at)
  BY <1>1, <1>4 DEF Deadlined, Event, Stamp
<1>5. CASE ~Fires(e, at)
  BY <1>2, <1>5 DEF Deadlined
<1>. QED
  BY <1>3, <1>4, <1>5

\* A nudge needs an ask that is at least ConfirmGrace old, so it never follows
\* a reminder of the same tick; what the deadline pass needs excludes all three.
LEMMA PassesExclude ==
  ASSUME NEW e \in Event, NEW at \in Time
  PROVE  LET e1 == Reminded(e, at)
             e2 == Nudged(e1, at)
         IN /\ Nudges(e1, at) => ~Asks(e, at) /\ ~Warns(e, at)
            /\ Fires(e2, at) => ~Asks(e, at) /\ ~Warns(e, at) /\ ~Nudges(e1, at)
<1>. DEFINE e1 == Reminded(e, at)
            e2 == Nudged(e1, at)
<1>1. at \in Nat \ {0}
  BY CycleAssumption DEF Time
<1>2. /\ e1 \in Event /\ e1.startsAt = e.startsAt /\ e1.nudgeSentAt = e.nudgeSentAt
      /\ e1.reminderSentAt = IF Asks(e, at) THEN at ELSE e.reminderSentAt
  BY RemindedType
<1>3. /\ e2 \in Event /\ e2.startsAt = e.startsAt
      /\ e2.reminderSentAt = e1.reminderSentAt
  BY <1>2, NudgedType
<1>4. e.startsAt \in Nat /\ e.reminderSentAt \in Nat
  BY CycleAssumption DEF Event, Time, Stamp
<1>5. Warns(e, at) => e.reminderSentAt = 0 /\ ~Asks(e, at) /\ at < e.startsAt - DeadlineLead
  BY DEF Warns, Asks, ReminderDue
<1>6. Nudges(e1, at) => ~Asks(e, at) /\ ~Warns(e, at)
  <2>. SUFFICES ASSUME Nudges(e1, at) PROVE ~Asks(e, at) /\ ~Warns(e, at)
    OBVIOUS
  <2>1. e1.reminderSentAt # 0 /\ at - e1.reminderSentAt >= ConfirmGrace
    BY DEF Nudges
  <2>2. ~Asks(e, at)
    BY <1>1, <1>2, <2>1, CycleAssumption
  <2>3. ~Warns(e, at)
    BY <1>2, <1>5, <2>1
  <2>. QED
    BY <2>2, <2>3
<1>7. Fires(e2, at) => ~Asks(e, at) /\ ~Warns(e, at) /\ ~Nudges(e1, at)
  <2>. SUFFICES ASSUME Fires(e2, at) PROVE ~Asks(e, at) /\ ~Warns(e, at) /\ ~Nudges(e1, at)
    OBVIOUS
  <2>1. /\ e1.reminderSentAt # 0 => at - e1.reminderSentAt >= ConfirmGrace
        /\ e.startsAt - DeadlineLead <= at
    BY <1>3 DEF Fires
  <2>2. ~Asks(e, at)
    BY <1>1, <1>2, <2>1, CycleAssumption
  <2>3. ~Warns(e, at)
    BY <1>1, <1>4, <1>5, <2>1, CycleAssumption
  <2>4. ~Nudges(e1, at)
    BY <1>1, <1>2, <1>4, <2>1, CycleAssumption DEF Nudges
  <2>. QED
    BY <2>2, <2>3, <2>4
<1>. QED
  BY <1>6, <1>7

-----------------------------------------------------------------------------
\* The inductive invariant.

LEMMA InitCycleInv == Init => CycleInv
<1>. SUFFICES ASSUME Init PROVE CycleInv
  OBVIOUS
<1>. USE CycleAssumption DEF Init
<1>1. TypeOK
  <2>1. event \in Event
    BY DEF Event, Stamp
  <2>2. now \in Time /\ cycleSince \in Time /\ cycles \in 0..MaxCycles
    BY DEF Time
  <2>3. channel \in [Person -> {"none", "broken", "valid"}]
    OBVIOUS
  <2>4. /\ answeredAt \in [Person -> 0..Horizon] /\ queued \in Queued
        /\ asked \in [Person -> SUBSET Time] /\ assigned \subseteq Person
        /\ spoke \subseteq Person \cup {None}
    BY DEF Queued, Silence
  <2>. QED
    BY <2>1, <2>2, <2>3, <2>4 DEF TypeOK
<1>2. AsksAreMarked
  BY DEF AsksAreMarked
<1>3. MarkIsAnAsk /\ AnswerEndsSilence /\ NudgeOnlyIfConfigured
  BY DEF MarkIsAnAsk, AnswerEndsSilence, NudgeOnlyIfConfigured
<1>. QED
  BY <1>1, <1>2, <1>3 DEF CycleInv

\* Fan-outs and their page are well typed.
LEMMA FanOutType ==
  ASSUME TypeOK, NEW audience \in BOOLEAN, NEW page \in BOOLEAN
  PROVE  /\ FanOut(audience) \subseteq Person \cup {None}
         /\ NobodyTold(audience, page) \subseteq Page
BY DEF TypeOK, FanOut, NobodyTold, Reachable, Page

LEMMA HandlerCycleInv == CycleInv /\ Handler => CycleInv'
<1>. SUFFICES ASSUME CycleInv, Handler PROVE CycleInv'
  OBVIOUS
<1>. USE DEF CycleInv
<1>1. ASSUME NEW p \in Person \cup {None}, Confirm(p) PROVE CycleInv'
  <2>1. event' \in Event /\ event'.status # "scheduled"
    BY <1>1 DEF Confirm, TypeOK, Event
  <2>2. /\ event'.reminderSentAt = event.reminderSentAt /\ event'.nudgeSentAt = event.nudgeSentAt
    BY <1>1 DEF Confirm, TypeOK, Event
  <2>3. TypeOK'
    BY <1>1, <2>1 DEF Confirm, Spoken, TypeOK, Queued, Silence, Time
  <2>. QED
    BY <1>1, <2>1, <2>2, <2>3
       DEF Confirm, AsksAreMarked, MarkIsAnAsk, AnswerEndsSilence, NudgeOnlyIfConfigured
<1>2. ASSUME NEW p \in Person \cup {None}, NEW audience \in BOOLEAN, Cancel(p, audience)
      PROVE  CycleInv'
  <2>1. event' \in Event /\ event'.status # "scheduled"
    BY <1>2 DEF Cancel, TypeOK, Event
  <2>2. /\ event'.reminderSentAt = event.reminderSentAt /\ event'.nudgeSentAt = event.nudgeSentAt
    BY <1>2 DEF Cancel, TypeOK, Event
  <2>3. TypeOK'
    <3>1. queued' \in Queued
      BY <1>2, FanOutType DEF Cancel, Queued, Silence
    <3>. QED
      BY <1>2, <2>1, <3>1 DEF Cancel, Spoken, TypeOK, Time
  <2>. QED
    BY <1>2, <2>1, <2>2, <2>3
       DEF Cancel, AsksAreMarked, MarkIsAnAsk, AnswerEndsSilence, NudgeOnlyIfConfigured
<1>3. ASSUME NEW start \in Time, NEW audience \in BOOLEAN, NEW page \in BOOLEAN,
             Restart(start, audience, page)
      PROVE  CycleInv'
  <2>1. event' \in Event /\ event'.reminderSentAt = 0 /\ event'.nudgeSentAt = 0
    BY <1>3 DEF Restart, NewCycle, TypeOK, Event, Stamp
  <2>2. TypeOK'
    <3>1. cycles' \in 0..MaxCycles
      BY <1>3, CycleAssumption DEF Restart, TypeOK
    <3>2. queued' \in Queued
      BY <1>3, FanOutType DEF Restart, Queued, Silence
    <3>3. asked' \in [Person -> SUBSET Time] /\ cycleSince' \in Time /\ spoke' \subseteq Person \cup {None}
      BY <1>3 DEF Restart, TypeOK
    <3>. QED
      BY <1>3, <2>1, <3>1, <3>2, <3>3 DEF Restart, TypeOK, Time
  <2>3. \A p \in Person : asked'[p] = {}
    BY <1>3 DEF Restart
  <2>. QED
    BY <1>3, <2>1, <2>2, <2>3
       DEF Restart, AsksAreMarked, MarkIsAnAsk, AnswerEndsSilence, NudgeOnlyIfConfigured
<1>4. ASSUME NEW start \in Time, NEW actor \in {"admin", "import"}, NEW audience \in BOOLEAN,
             Move(start, actor, audience)
      PROVE  CycleInv'
  BY <1>3, <1>4 DEF Move
<1>5. ASSUME NEW audience \in BOOLEAN, ReinstateEvent(audience) PROVE CycleInv'
  <2>1. event.startsAt \in Time
    BY DEF TypeOK, Event
  <2>. QED
    BY <1>3, <1>5, <2>1 DEF ReinstateEvent
<1>6. ASSUME NEW p \in Person, Assign(p) \/ Unassign(p) PROVE CycleInv'
  BY <1>6 DEF Assign, Unassign, history, TypeOK, Queued, Silence, Time,
              AsksAreMarked, MarkIsAnAsk, AnswerEndsSilence, NudgeOnlyIfConfigured
<1>7. ASSUME NEW p \in Person, NEW c \in {"none", "valid"}, UpdateChannels(p, c) PROVE CycleInv'
  <2>1. queued' \in Queued
    BY <1>7 DEF UpdateChannels, Queued, Silence, Page
  <2>. QED
    BY <1>7, <2>1 DEF UpdateChannels, history, TypeOK, Time,
              AsksAreMarked, MarkIsAnAsk, AnswerEndsSilence, NudgeOnlyIfConfigured
<1>8. CASE AskVanished
  <2>1. Reachable \subseteq Person
    BY DEF TypeOK, Reachable
  <2>2. queued' \in Queued
    BY <1>8, <2>1 DEF AskVanished, Queued, Silence
  <2>. QED
    BY <1>8, <2>2 DEF AskVanished, history, TypeOK, Time,
              AsksAreMarked, MarkIsAnAsk, AnswerEndsSilence, NudgeOnlyIfConfigured
<1>. QED
  BY <1>1, <1>2, <1>4, <1>5, <1>6, <1>7, <1>8 DEF Handler

\* What a tick does to the marks and to the asks, in terms of the row before it.
LEMMA TickEffect ==
  ASSUME TypeOK, NEW at \in Time, NEW audience \in BOOLEAN, Tick(at, audience)
  PROVE  LET e1 == Reminded(event, at)
             e2 == Nudged(e1, at)
         IN /\ event' \in Event
            /\ event'.startsAt = event.startsAt
            /\ event'.reminderSentAt = IF Asks(event, at) THEN at ELSE event.reminderSentAt
            /\ event'.unreachableNotifiedAt =
                 IF Warns(event, at) THEN at ELSE event.unreachableNotifiedAt
            /\ event'.nudgeSentAt = IF Nudges(e1, at) THEN at ELSE event.nudgeSentAt
            /\ event'.deadlineFiredAt = IF Fires(e2, at) THEN at ELSE event.deadlineFiredAt
            /\ event'.status = IF Kills(e2, at) THEN "cancelled" ELSE event.status
            /\ e2.status = event.status
            /\ e2.reminderSentAt = event'.reminderSentAt
            /\ e1.status = event.status
            /\ e1.nudgeSentAt = event.nudgeSentAt
<1>. DEFINE e1 == Reminded(event, at)
            e2 == Nudged(e1, at)
<1>1. event \in Event
  BY DEF TypeOK
<1>2. event' = Deadlined(e2, at)
  BY DEF Tick
<1>3. /\ e1 \in Event
      /\ e1.startsAt = event.startsAt /\ e1.status = event.status
      /\ e1.nudgeSentAt = event.nudgeSentAt /\ e1.deadlineFiredAt = event.deadlineFiredAt
      /\ e1.reminderSentAt = IF Asks(event, at) THEN at ELSE event.reminderSentAt
      /\ e1.unreachableNotifiedAt = IF Warns(event, at) THEN at ELSE event.unreachableNotifiedAt
  BY <1>1, RemindedType
<1>4. /\ e2 \in Event
      /\ e2.startsAt = e1.startsAt /\ e2.status = e1.status
      /\ e2.reminderSentAt = e1.reminderSentAt /\ e2.deadlineFiredAt = e1.deadlineFiredAt
      /\ e2.unreachableNotifiedAt = e1.unreachableNotifiedAt
      /\ e2.nudgeSentAt = IF Nudges(e1, at) THEN at ELSE e1.nudgeSentAt
  BY <1>3, NudgedType
<1>. HIDE DEF e1, e2
<1>5. /\ event' \in Event
      /\ event'.startsAt = e2.startsAt /\ event'.reminderSentAt = e2.reminderSentAt
      /\ event'.nudgeSentAt = e2.nudgeSentAt
      /\ event'.unreachableNotifiedAt = e2.unreachableNotifiedAt
      /\ event'.deadlineFiredAt = IF Fires(e2, at) THEN at ELSE e2.deadlineFiredAt
      /\ event'.status = IF Kills(e2, at) THEN "cancelled" ELSE e2.status
  BY <1>2, <1>4, DeadlinedType
<1>6. /\ event' \in Event
      /\ event'.startsAt = event.startsAt
      /\ event'.reminderSentAt = IF Asks(event, at) THEN at ELSE event.reminderSentAt
      /\ event'.unreachableNotifiedAt = IF Warns(event, at) THEN at ELSE event.unreachableNotifiedAt
      /\ event'.nudgeSentAt = IF Nudges(e1, at) THEN at ELSE event.nudgeSentAt
      /\ event'.deadlineFiredAt = IF Fires(e2, at) THEN at ELSE event.deadlineFiredAt
      /\ event'.status = IF Kills(e2, at) THEN "cancelled" ELSE event.status
      /\ e2.status = event.status
      /\ e2.reminderSentAt = event'.reminderSentAt
      /\ e1.status = event.status
      /\ e1.nudgeSentAt = event.nudgeSentAt
  BY <1>3, <1>4, <1>5
<1>. QED
  BY <1>6 DEF e1, e2

LEMMA TickCycleInv ==
  ASSUME CycleInv, NEW at \in Time, NEW audience \in BOOLEAN, Tick(at, audience)
  PROVE  CycleInv'
<1>. DEFINE e1 == Reminded(event, at)
            e2 == Nudged(e1, at)
            asks == (IF Asks(event, at) THEN Reachable ELSE {})
                      \cup (IF Nudges(e1, at) THEN Silent(e1) ELSE {})
<1>1. TypeOK /\ AsksAreMarked /\ MarkIsAnAsk /\ AnswerEndsSilence /\ NudgeOnlyIfConfigured
  BY DEF CycleInv
<1>2. at \in Nat \ {0}
  BY CycleAssumption DEF Time
<1>3. /\ event' \in Event
      /\ event'.reminderSentAt = IF Asks(event, at) THEN at ELSE event.reminderSentAt
      /\ event'.nudgeSentAt = IF Nudges(e1, at) THEN at ELSE event.nudgeSentAt
      /\ event'.status = IF Kills(e2, at) THEN "cancelled" ELSE event.status
      /\ e1.nudgeSentAt = event.nudgeSentAt
  BY <1>1, TickEffect
<1>4. /\ asked' = [p \in Person |-> IF p \in asks THEN asked[p] \cup {at} ELSE asked[p]]
      /\ queued' = [asks |-> asks, vanished |-> {},
                    notices |-> IF Kills(e2, at) THEN FanOut(audience) ELSE {},
                    pages |-> ReminderPages(event, at) \cup DeadlinePages(e2, at, audience)]
      /\ UNCHANGED <<now, assigned, channel, answeredAt, cycleSince, spoke, cycles>>
  BY DEF Tick
<1>5. Reachable \subseteq Person /\ asks \subseteq Person
  BY <1>1 DEF TypeOK, Reachable, Silent
<1>6. Asks(event, at) => event.reminderSentAt = 0 /\ Reachable # {} /\ Reachable \subseteq asks
  BY DEF Asks, ReminderDue
<1>7. Nudges(e1, at) => e1.nudgeSentAt = 0 /\ NudgeLead # 0
  BY DEF Nudges
<1>. HIDE DEF e1, e2, asks
<1>8. TypeOK'
  <2>1. queued' \in Queued
    <3>1. ReminderPages(event, at) \subseteq Page
      BY DEF ReminderPages, Page
    <3>2. DeadlinePages(e2, at, audience) \subseteq Page
      BY <1>1, FanOutType DEF DeadlinePages, Page
    <3>3. FanOut(audience) \subseteq Person \cup {None}
      BY <1>1, FanOutType
    <3>. QED
      BY <1>4, <1>5, <3>1, <3>2, <3>3 DEF Queued
  <2>2. asked' \in [Person -> SUBSET Time]
    BY <1>1, <1>4 DEF TypeOK
  <2>. QED
    BY <1>1, <1>3, <1>4, <2>1, <2>2 DEF TypeOK, Time
<1>9. AsksAreMarked'
  <2>. SUFFICES ASSUME NEW p \in Person, NEW t \in asked'[p]
                PROVE  t \in {event'.reminderSentAt, event'.nudgeSentAt} \ {0}
    BY DEF AsksAreMarked
  <2>1. CASE t \in asked[p]
    <3>1. t # 0 /\ (t = event.reminderSentAt \/ t = event.nudgeSentAt)
      BY <1>1, <2>1 DEF AsksAreMarked
    <3>. QED
      BY <1>3, <1>6, <1>7, <3>1
  <2>2. CASE t \notin asked[p]
    <3>1. p \in asks /\ t = at
      BY <1>4, <2>2
    <3>2. Asks(event, at) \/ Nudges(e1, at)
      BY <3>1 DEF asks
    <3>. QED
      BY <1>2, <1>3, <3>1, <3>2
  <2>. QED
    BY <2>1, <2>2
<1>10. MarkIsAnAsk'
  <2>. SUFFICES ASSUME event'.reminderSentAt # 0
                PROVE  \E p \in Person : event'.reminderSentAt \in asked'[p]
    BY DEF MarkIsAnAsk
  <2>1. CASE Asks(event, at)
    <3>1. PICK p \in Reachable : p \in asks
      BY <1>6, <2>1
    <3>. QED
      BY <1>3, <1>4, <1>5, <2>1, <3>1
  <2>2. CASE ~Asks(event, at)
    <3>1. PICK p \in Person : event.reminderSentAt \in asked[p]
      BY <1>1, <1>3, <2>2 DEF MarkIsAnAsk
    <3>. QED
      BY <1>3, <1>4, <2>2, <3>1
  <2>. QED
    BY <2>1, <2>2
<1>11. AnswerEndsSilence' /\ NudgeOnlyIfConfigured'
  BY <1>1, <1>3, <1>4, <1>7 DEF AnswerEndsSilence, NudgeOnlyIfConfigured
<1>. QED
  BY <1>8, <1>9, <1>10, <1>11 DEF CycleInv

\* A tick uses a clock reading that is not ahead of the clock.
LEMMA TickTime ==
  ASSUME TypeOK, NEW at \in (now - MaxWait)..now, at > 0
  PROVE  at \in Time /\ at <= now
BY CycleAssumption DEF TypeOK, Time

LEMMA NextCycleInv == CycleInv /\ [Next]_vars => CycleInv'
<1>. SUFFICES ASSUME CycleInv, [Next]_vars PROVE CycleInv'
  OBVIOUS
<1>1. CASE Handler
  BY <1>1, HandlerCycleInv
<1>2. ASSUME NEW at \in (now - MaxWait)..now, NEW audience \in BOOLEAN, at > 0, Tick(at, audience)
      PROVE  CycleInv'
  <2>1. at \in Time
    BY <1>2, TickTime DEF CycleInv
  <2>. QED
    BY <1>2, <2>1, TickCycleInv
<1>3. CASE AdvanceTime
  BY <1>3, CycleAssumption
     DEF AdvanceTime, CycleInv, TypeOK, Queued, Silence, Time,
         AsksAreMarked, MarkIsAnAsk, AnswerEndsSilence, NudgeOnlyIfConfigured
<1>4. CASE UNCHANGED vars
  BY <1>4 DEF vars, history, CycleInv, TypeOK, Time,
              AsksAreMarked, MarkIsAnAsk, AnswerEndsSilence, NudgeOnlyIfConfigured
<1>. QED
  BY <1>1, <1>2, <1>3, <1>4 DEF Next

LEMMA CycleInvariant == Spec => []CycleInv
BY InitCycleInv, NextCycleInv, PTL DEF Spec

-----------------------------------------------------------------------------
\* What follows.

\* Type correctness (state.Events, Assignments, Responses).
THEOREM CycleTypeCorrect == Spec => []TypeOK
<1>1. CycleInv => TypeOK
  BY DEF CycleInv
<1>. QED
  BY <1>1, CycleInvariant, PTL

\* The ticks ask nobody more than twice in a cycle, whatever moves, assignments,
\* asks about a disappearance and late ticks happen in between
\* (tickRemindersLocked, tickNudgesLocked).
THEOREM NoThirdReminder == Spec => []RemindedAtMostTwice
<1>1. CycleInv => RemindedAtMostTwice
  <2>. SUFFICES ASSUME CycleInv, NEW p \in Person
                PROVE  Cardinality(asked[p]) <= IF NudgeLead = 0 THEN 1 ELSE 2
    BY DEF RemindedAtMostTwice
  <2>. DEFINE r == event.reminderSentAt
              n == event.nudgeSentAt
  <2>1. asked[p] \subseteq {r, n} /\ (NudgeLead = 0 => asked[p] \subseteq {r})
    BY DEF CycleInv, AsksAreMarked, NudgeOnlyIfConfigured
  <2>2. /\ IsFiniteSet({r}) /\ Cardinality({r}) = 1
        /\ IsFiniteSet({n}) /\ Cardinality({n}) = 1
    BY FS_Singleton
  <2>3. IsFiniteSet({r} \cup {n}) /\ Cardinality({r} \cup {n}) <= 2
    BY <2>2, FS_AddElement
  <2>4. {r} \cup {n} = {r, n}
    OBVIOUS
  <2>5. IsFiniteSet(asked[p]) /\ Cardinality(asked[p]) \in Nat /\ Cardinality(asked[p]) <= 2
    BY <2>1, <2>3, <2>4, FS_Subset, FS_CardinalityType
  <2>6. NudgeLead = 0 => Cardinality(asked[p]) <= 1
    BY <2>1, <2>2, FS_Subset
  <2>. QED
    BY <2>5, <2>6
<1>. QED
  BY <1>1, CycleInvariant, PTL

\* Once somebody answered, no tick asks, reports or cancels (AnswerEndsSilence).
THEOREM AnswersStand == Spec => AnsweredIsLeftAlone
<1>1. CycleInv /\ [Next]_vars => [spoke # {} => queued'.asks = {} /\ ~Fired]_vars
  <2>. SUFFICES ASSUME CycleInv, Next, spoke # {} PROVE queued'.asks = {} /\ ~Fired
    OBVIOUS
  <2>0. TypeOK /\ event.status # "scheduled"
    BY DEF CycleInv, AnswerEndsSilence
  <2>1. CASE Handler
    <3>1. queued'.asks = {}
      <4>1. ASSUME NEW p, Confirm(p) \/ Assign(p) \/ Unassign(p) PROVE queued'.asks = {}
        BY <4>1 DEF Confirm, Assign, Unassign, Silence
      <4>2. ASSUME NEW p, NEW audience, Cancel(p, audience) PROVE queued'.asks = {}
        BY <4>2 DEF Cancel, Silence
      <4>3. ASSUME NEW start, NEW audience, NEW page, Restart(start, audience, page)
            PROVE  queued'.asks = {}
        BY <4>3 DEF Restart, Silence
      <4>4. ASSUME NEW p, NEW c, UpdateChannels(p, c) PROVE queued'.asks = {}
        BY <4>4 DEF UpdateChannels, Silence
      <4>5. AskVanished => queued'.asks = {}
        BY DEF AskVanished, Silence
      <4>. QED
        BY <2>1, <4>1, <4>2, <4>3, <4>4, <4>5 DEF Handler, Move, ReinstateEvent
    <3>2. event \in Event
      BY <2>0 DEF TypeOK
    <3>3. event.deadlineFiredAt = 0 => event'.deadlineFiredAt = 0
      BY <2>1, <3>2 DEF Handler, Confirm, Cancel, Move, ReinstateEvent, Restart, NewCycle, Assign,
                        Unassign, UpdateChannels, AskVanished, Event
    <3>. QED
      BY <3>1, <3>3 DEF Fired
  <2>2. ASSUME NEW at \in (now - MaxWait)..now, NEW audience \in BOOLEAN, at > 0, Tick(at, audience)
        PROVE  queued'.asks = {} /\ ~Fired
    <3>. DEFINE e1 == Reminded(event, at)
                e2 == Nudged(e1, at)
    <3>1. at \in Time
      BY <2>0, <2>2, TickTime
    <3>2. /\ e1.status # "scheduled" /\ e2.status # "scheduled"
          /\ event'.deadlineFiredAt = IF Fires(e2, at) THEN at ELSE event.deadlineFiredAt
      BY <2>0, <2>2, <3>1, TickEffect
    <3>3. ~Asks(event, at)
      BY <2>0 DEF Asks, ReminderDue
    <3>4. queued'.asks = (IF Asks(event, at) THEN Reachable ELSE {})
                           \cup (IF Nudges(e1, at) THEN Silent(e1) ELSE {})
      BY <2>2 DEF Tick
    <3>. HIDE DEF e1, e2
    <3>5. ~Nudges(e1, at) /\ ~Fires(e2, at)
      BY <3>2 DEF Nudges, Fires
    <3>. QED
      BY <3>2, <3>3, <3>4, <3>5 DEF Fired
  <2>3. CASE AdvanceTime
    BY <2>3 DEF AdvanceTime, Silence, Fired
  <2>. QED
    BY <2>1, <2>2, <2>3 DEF Next
<1>. QED
  BY <1>1, CycleInvariant, PTL DEF Spec, AnsweredIsLeftAlone

\* The passes of a tick never share an event, for every lead time the
\* configuration accepts (Tick, Config.validate).
THEOREM OnePassPerEvent == Spec => PassesAreDisjoint
<1>. DEFINE Mark == {"reminderSentAt", "nudgeSentAt", "deadlineFiredAt", "unreachableNotifiedAt"}
            Apart == \A a, b \in Mark :
                       a # b /\ event[a] = 0 /\ event[b] = 0 => event'[a] = 0 \/ event'[b] = 0
<1>1. CycleInv /\ [Next]_vars => [Apart]_vars
  <2>. SUFFICES ASSUME CycleInv, Next PROVE Apart
    OBVIOUS
  <2>0. TypeOK /\ event \in Event
    BY DEF CycleInv, TypeOK
  <2>1. CASE Handler
    <3>1. \A a \in Mark : event[a] = 0 => event'[a] = 0
      BY <2>0, <2>1 DEF Handler, Confirm, Cancel, Move, ReinstateEvent, Restart, NewCycle, Assign,
                        Unassign, UpdateChannels, AskVanished, Event, Stamp
    <3>. QED
      BY <3>1
  <2>2. ASSUME NEW at \in (now - MaxWait)..now, NEW audience \in BOOLEAN, at > 0, Tick(at, audience)
        PROVE  Apart
    <3>. DEFINE e1 == Reminded(event, at)
                e2 == Nudged(e1, at)
    <3>1. at \in Time
      BY <2>0, <2>2, TickTime
    <3>2. /\ event'.reminderSentAt = IF Asks(event, at) THEN at ELSE event.reminderSentAt
          /\ event'.unreachableNotifiedAt =
               IF Warns(event, at) THEN at ELSE event.unreachableNotifiedAt
          /\ event'.nudgeSentAt = IF Nudges(e1, at) THEN at ELSE event.nudgeSentAt
          /\ event'.deadlineFiredAt = IF Fires(e2, at) THEN at ELSE event.deadlineFiredAt
      BY <2>0, <2>2, <3>1, TickEffect
    <3>3. /\ Nudges(e1, at) => ~Asks(event, at) /\ ~Warns(event, at)
          /\ Fires(e2, at) => ~Asks(event, at) /\ ~Warns(event, at) /\ ~Nudges(e1, at)
      BY <2>0, <3>1, PassesExclude
    <3>4. ~(Asks(event, at) /\ Warns(event, at))
      BY DEF Asks, Warns
    <3>. HIDE DEF e1, e2
    <3>. QED
      BY <3>2, <3>3, <3>4
  <2>3. CASE AdvanceTime
    BY <2>3 DEF AdvanceTime
  <2>. QED
    BY <2>1, <2>2, <2>3 DEF Next
<1>. QED
  BY <1>1, CycleInvariant, PTL DEF Spec, PassesAreDisjoint

\* Silence never cancels an event on the strength of an ask that is fresh or
\* belongs to an earlier cycle (MarkIsAnAsk).
THEOREM SilenceIsFair == Spec => SilenceHadItsChance
<1>. DEFINE Fair == KilledBySilence =>
              \/ \E p \in Person : \E t \in asked[p] : now - t >= ConfirmGrace
              \/ Reachable = {}
<1>1. CycleInv /\ [Next]_vars => [Fair]_vars
  <2>. SUFFICES ASSUME CycleInv, Next, KilledBySilence
                PROVE  \/ \E p \in Person : \E t \in asked[p] : now - t >= ConfirmGrace
                       \/ Reachable = {}
    OBVIOUS
  <2>0. TypeOK /\ event \in Event /\ MarkIsAnAsk
    BY DEF CycleInv, TypeOK
  <2>1. ~Handler
    BY <2>0 DEF Handler, Confirm, Cancel, Move, ReinstateEvent, Restart, NewCycle, Assign,
                Unassign, UpdateChannels, AskVanished, KilledBySilence, Fired, Event, Stamp
  <2>2. ~AdvanceTime
    BY DEF AdvanceTime, KilledBySilence, Fired
  <2>3. PICK at \in (now - MaxWait)..now, audience \in BOOLEAN : at > 0 /\ Tick(at, audience)
    BY <2>1, <2>2 DEF Next
  <2>. DEFINE e1 == Reminded(event, at)
              e2 == Nudged(e1, at)
  <2>4. at \in Time /\ at <= now
    BY <2>0, <2>3, TickTime
  <2>5. /\ event'.reminderSentAt = IF Asks(event, at) THEN at ELSE event.reminderSentAt
        /\ event'.deadlineFiredAt = IF Fires(e2, at) THEN at ELSE event.deadlineFiredAt
        /\ e2.reminderSentAt = event'.reminderSentAt
    BY <2>0, <2>3, <2>4, TickEffect
  <2>6. Fires(e2, at) => ~Asks(event, at)
    BY <2>0, <2>4, PassesExclude
  <2>. HIDE DEF e1, e2
  <2>7. Fires(e2, at) /\ e2.reminderSentAt = event.reminderSentAt
    BY <2>5, <2>6 DEF KilledBySilence, Fired
  <2>8. CASE event.reminderSentAt = 0
    BY <2>7, <2>8 DEF Fires
  <2>9. CASE event.reminderSentAt # 0
    <3>1. PICK p \in Person : event.reminderSentAt \in asked[p]
      BY <2>0, <2>9 DEF MarkIsAnAsk
    <3>2. at - event.reminderSentAt >= ConfirmGrace
      BY <2>7, <2>9 DEF Fires
    <3>3. now - event.reminderSentAt >= ConfirmGrace
      BY <2>0, <2>4, <3>2, CycleAssumption DEF TypeOK, Event, Stamp, Time
    <3>. QED
      BY <3>1, <3>3
  <2>. QED
    BY <2>8, <2>9
<1>. QED
  BY <1>1, CycleInvariant, PTL DEF Spec, SilenceHadItsChance

\* Whatever turns an event off or on again leaves a notice or exactly one page:
\* the deadline pass folds its own page and never shares an event with the
\* reminder pass, whose pages would be a second one (nobodyToldLocked).
THEOREM FlipsAreTold == Spec => FlipIsToldOrPaged
<1>. DEFINE Flip == \/ event'.status = "cancelled" /\ event.status # "cancelled"
                    \/ event'.status = "scheduled" /\ event.status = "cancelled"
            Told == queued'.notices # {} \/ Cardinality(queued'.pages) = 1
<1>1. CycleInv /\ [Next]_vars => [Flip => Told]_vars
  <2>. SUFFICES ASSUME CycleInv, Next, Flip PROVE Told
    OBVIOUS
  <2>0. TypeOK /\ event \in Event
    BY DEF CycleInv, TypeOK
  <2>1. ASSUME NEW audience \in BOOLEAN,
               queued'.notices = FanOut(audience), queued'.pages = NobodyTold(audience, TRUE)
        PROVE  Told
    <3>1. FanOut(audience) = {} => queued'.pages = {"nobody told"}
      BY <2>1 DEF NobodyTold
    <3>2. Cardinality({"nobody told"}) = 1
      BY FS_Singleton
    <3>. QED
      BY <2>1, <3>1, <3>2
  <2>2. ASSUME NEW p \in Person \cup {None}, Confirm(p) PROVE ~Flip
    BY <2>0, <2>2 DEF Confirm, Event
  <2>3. ASSUME NEW p \in Person \cup {None}, NEW audience \in BOOLEAN, Cancel(p, audience) PROVE Told
    BY <2>1, <2>3 DEF Cancel, Silence
  <2>4. ASSUME NEW start \in Time, NEW actor \in {"admin", "import"}, NEW audience \in BOOLEAN,
               Move(start, actor, audience)
        PROVE  ~Flip
    BY <2>0, <2>4 DEF Move, Restart, NewCycle, Event
  <2>5. ASSUME NEW audience \in BOOLEAN, ReinstateEvent(audience) PROVE Told
    BY <2>1, <2>5 DEF ReinstateEvent, Restart, Silence
  <2>6. ASSUME UNCHANGED event PROVE ~Flip
    BY <2>6
  <2>7. ASSUME NEW at \in (now - MaxWait)..now, NEW audience \in BOOLEAN, at > 0, Tick(at, audience)
        PROVE  Told
    <3>. DEFINE e1 == Reminded(event, at)
                e2 == Nudged(e1, at)
    <3>1. at \in Time
      BY <2>0, <2>7, TickTime
    <3>2. event'.status = IF Kills(e2, at) THEN "cancelled" ELSE event.status
      BY <2>0, <2>7, <3>1, TickEffect
    <3>3. Fires(e2, at) => ~Asks(event, at) /\ ~Warns(event, at)
      BY <2>0, <3>1, PassesExclude
    <3>4. /\ queued'.notices = IF Kills(e2, at) THEN FanOut(audience) ELSE {}
          /\ queued'.pages = ReminderPages(event, at) \cup DeadlinePages(e2, at, audience)
      BY <2>7 DEF Tick
    <3>. HIDE DEF e1, e2
    <3>5. Kills(e2, at) /\ ~Asks(event, at) /\ ~Warns(event, at)
      BY <3>2, <3>3 DEF Kills
    <3>6. queued'.pages = {"auto-cancelled"}
      BY <3>4, <3>5 DEF ReminderPages, DeadlinePages, NobodyTold
    <3>. QED
      BY <3>6, FS_Singleton
  <2>8. CASE Handler
    BY <2>2, <2>3, <2>4, <2>5, <2>6, <2>8
       DEF Handler, Assign, Unassign, UpdateChannels, AskVanished
  <2>9. CASE AdvanceTime
    BY <2>6, <2>9 DEF AdvanceTime
  <2>. QED
    BY <2>7, <2>8, <2>9 DEF Next
<1>. QED
  BY <1>1, CycleInvariant, PTL DEF Spec, FlipIsToldOrPaged

-----------------------------------------------------------------------------
\* The dead-man switch, for ticks that keep the scheduler's pace.

\* By the end of this clock unit the cycle has been asked about, if it can be:
\* the unit in which the deadline window opens, or the first one after the
\* cycle began, whichever is later.
AskBy == IF cycleSince + 1 >= event.startsAt - DeadlineLead
         THEN cycleSince + 1 ELSE event.startsAt - DeadlineLead

\* The clock is past t, or at t and this unit's tick has run.
TickedThrough(t) == now > t \/ (now = t /\ ticked)

\* What DeadManSwitch demands of the event, its start being ahead.
InTime ==
  /\ timely /\ event.status = "scheduled"
  /\ ConfirmGrace <= DeadlineLead /\ DeadlineLead <= ReminderLead
  /\ cycleSince + 1 + ConfirmGrace <= event.startsAt

AskedOrFired ==
  InTime /\ TickedThrough(AskBy) =>
    \/ event.deadlineFiredAt # 0
    \/ event.reminderSentAt # 0 /\ event.reminderSentAt <= AskBy

FiredAfterGrace == InTime /\ TickedThrough(AskBy + ConfirmGrace) => event.deadlineFiredAt # 0

PaceInv ==
  /\ cycleSince <= now /\ event.reminderSentAt <= now
  /\ ticked \in BOOLEAN /\ timely \in BOOLEAN
  /\ AskedOrFired /\ FiredAfterGrace

LEMMA InitPaceInv == TimelyInit => PaceInv
<1>. SUFFICES ASSUME TimelyInit PROVE PaceInv
  OBVIOUS
<1>. USE CycleAssumption
<1>1. /\ now = 1 /\ cycleSince = 1 /\ event.reminderSentAt = 0 /\ event.startsAt \in Nat
      /\ ticked = FALSE /\ timely = TRUE
  BY DEF TimelyInit, Init, Time
<1>2. AskBy \in Int /\ AskBy >= 2
  BY <1>1 DEF AskBy
<1>3. ~TickedThrough(AskBy) /\ ~TickedThrough(AskBy + ConfirmGrace)
  BY <1>1, <1>2 DEF TickedThrough
<1>4. cycleSince <= now /\ event.reminderSentAt <= now
  BY <1>1
<1>5. ticked \in BOOLEAN /\ timely \in BOOLEAN
  BY <1>1
<1>. QED
  BY <1>3, <1>4, <1>5 DEF PaceInv, AskedOrFired, FiredAfterGrace

\* A handler restarts the cycle at the present time, or leaves its marks, its
\* start and its beginning alone and never brings back the scheduled state.
LEMMA HandlerKeepsPace ==
  ASSUME CycleInv, PaceInv, Handler, UNCHANGED <<ticked, timely>>
  PROVE  PaceInv'
<1>. USE CycleAssumption
<1>1. event \in Event /\ now \in Nat /\ cycleSince \in Nat
  BY DEF CycleInv, TypeOK, Time
<1>2. now' = now
  BY DEF Handler, Confirm, Cancel, Move, ReinstateEvent, Restart, Assign, Unassign, UpdateChannels, AskVanished
<1>3. CASE cycleSince' = now /\ event'.reminderSentAt = 0 /\ event'.startsAt \in Int
  <2>1. AskBy' \in Int /\ AskBy' > now'
    BY <1>1, <1>2, <1>3 DEF AskBy
  <2>2. ~TickedThrough(AskBy)' /\ ~TickedThrough(AskBy + ConfirmGrace)'
    <3>1. ASSUME NEW n \in Int, NEW t \in Int, t > n
          PROVE  ~(n > t) /\ n # t /\ ~(n > t + ConfirmGrace) /\ n # t + ConfirmGrace
      BY <3>1
    <3>2. now' \in Int
      BY <1>1, <1>2
    <3>. QED
      BY <2>1, <3>1, <3>2 DEF TickedThrough
  <2>3. cycleSince' <= now' /\ event'.reminderSentAt <= now'
    BY <1>1, <1>2, <1>3
  <2>. QED
    BY <2>2, <2>3 DEF PaceInv, AskedOrFired, FiredAfterGrace
<1>4. CASE /\ cycleSince' = cycleSince
           /\ event'.startsAt = event.startsAt
           /\ event'.reminderSentAt = event.reminderSentAt
           /\ event'.deadlineFiredAt = event.deadlineFiredAt
           /\ event'.status = "scheduled" => event.status = "scheduled"
  BY <1>1, <1>2, <1>4
     DEF PaceInv, AskedOrFired, FiredAfterGrace, InTime, TickedThrough, AskBy
<1>5. ASSUME NEW p \in Person \cup {None}, Confirm(p) PROVE PaceInv'
  BY <1>1, <1>4, <1>5 DEF Confirm, Event
<1>6. ASSUME NEW p \in Person \cup {None}, NEW audience \in BOOLEAN, Cancel(p, audience)
      PROVE  PaceInv'
  BY <1>1, <1>4, <1>6 DEF Cancel, Event
<1>7. ASSUME NEW start \in Time, NEW audience, NEW page, Restart(start, audience, page)
      PROVE  PaceInv'
  BY <1>1, <1>3, <1>7 DEF Restart, NewCycle, Event, Time
<1>8. CASE UNCHANGED <<event, cycleSince>>
  BY <1>4, <1>8
<1>. QED
  BY <1>1, <1>5, <1>6, <1>7, <1>8
     DEF Event, Handler, Move, ReinstateEvent, Assign, Unassign, UpdateChannels, AskVanished, history

\* A tick that did not wait leaves, in the unit AskBy, an ask or a report, and
\* in the unit AskBy + ConfirmGrace a report.
LEMMA TickKeepsPace ==
  ASSUME CycleInv, PaceInv, NEW at \in Time, at <= now, NEW audience \in BOOLEAN, Tick(at, audience),
         ticked' = (timely /\ (ticked \/ at = now)), UNCHANGED timely
  PROVE  PaceInv'
<1>. DEFINE e1 == Reminded(event, at)
            e2 == Nudged(e1, at)
<1>. USE CycleAssumption
<1>1. TypeOK /\ event \in Event /\ now \in Nat /\ cycleSince \in Nat /\ at \in Nat \ {0}
  BY DEF CycleInv, TypeOK, Time
<1>2. /\ event.startsAt \in Nat /\ event.reminderSentAt \in Nat
      /\ AskBy \in Int /\ AskBy > cycleSince /\ event.startsAt - DeadlineLead <= AskBy
      /\ InTime => AskBy + ConfirmGrace <= event.startsAt
  BY <1>1 DEF Event, Time, Stamp, AskBy, InTime
<1>3. /\ now' = now /\ cycleSince' = cycleSince
      /\ event'.startsAt = event.startsAt
      /\ event'.reminderSentAt = IF Asks(event, at) THEN at ELSE event.reminderSentAt
      /\ event'.deadlineFiredAt = IF Fires(e2, at) THEN at ELSE event.deadlineFiredAt
      /\ event'.status = IF Kills(e2, at) THEN "cancelled" ELSE event.status
      /\ e2.reminderSentAt = event'.reminderSentAt /\ e2.status = event.status
  BY <1>1, TickEffect DEF Tick
<1>4. e2.startsAt = event.startsAt /\ e2.deadlineFiredAt = event.deadlineFiredAt
  <2>1. /\ e1 \in Event /\ e1.startsAt = event.startsAt
        /\ e1.deadlineFiredAt = event.deadlineFiredAt
    BY <1>1, RemindedType
  <2>. QED
    BY <2>1, NudgedType
<1>5. Asks(event, at) <=> ReminderDue(event, at) /\ Reachable # {}
  BY DEF Asks
<1>6. Asks(event, at) => event.reminderSentAt = 0
  BY <1>5 DEF ReminderDue
<1>. HIDE DEF e1, e2
<1>7. AskBy' = AskBy /\ (InTime' => InTime)
  BY <1>3 DEF AskBy, InTime, Kills, Fires
<1>8. /\ cycleSince' <= now' /\ event'.reminderSentAt <= now'
      /\ ticked' \in BOOLEAN /\ timely' \in BOOLEAN
  BY <1>3 DEF PaceInv
<1>9. ASSUME NEW t, TickedThrough(t)', t = AskBy \/ t = AskBy + ConfirmGrace, ~TickedThrough(t)
      PROVE  now = t /\ at = t
  BY <1>1, <1>2, <1>3, <1>9 DEF TickedThrough
<1>10. AskedOrFired'
  <2>. SUFFICES ASSUME InTime', TickedThrough(AskBy)', event'.deadlineFiredAt = 0
                PROVE  event'.reminderSentAt # 0 /\ event'.reminderSentAt <= AskBy
    BY <1>7 DEF AskedOrFired, TickedThrough
  <2>1. InTime /\ event.deadlineFiredAt = 0 /\ ~Fires(e2, at)
    BY <1>1, <1>3, <1>7
  <2>2. CASE TickedThrough(AskBy)
    <3>1. event.reminderSentAt # 0 /\ event.reminderSentAt <= AskBy
      BY <2>1, <2>2 DEF PaceInv, AskedOrFired
    <3>. QED
      BY <1>3, <1>6, <3>1
  <2>3. CASE ~TickedThrough(AskBy)
    <3>1. now = AskBy /\ at = AskBy
      BY <1>7, <1>9, <2>3
    <3>2. event.status = "scheduled" /\ AskBy <= event.startsAt /\ event.startsAt - ReminderLead <= AskBy
      BY <1>1, <1>2, <2>1 DEF InTime
    <3>3. event'.reminderSentAt # 0
      <4>. SUFFICES ASSUME event'.reminderSentAt = 0 PROVE FALSE
        OBVIOUS
      <4>1. event.reminderSentAt = 0 /\ ~Asks(event, at)
        BY <1>1, <1>3
      <4>2. Reachable = {}
        BY <1>5, <3>1, <3>2, <4>1 DEF ReminderDue
      <4>3. Fires(e2, at)
        BY <1>2, <1>3, <1>4, <2>1, <3>1, <3>2, <4>2 DEF Fires
      <4>. QED
        BY <2>1, <4>3
    <3>. QED
      BY <1>3, <1>8, <3>1, <3>3
  <2>. QED
    BY <2>2, <2>3
<1>11. FiredAfterGrace'
  <2>. SUFFICES ASSUME InTime', TickedThrough(AskBy + ConfirmGrace)', event'.deadlineFiredAt = 0
                PROVE  FALSE
    BY <1>7 DEF FiredAfterGrace, TickedThrough
  <2>1. InTime /\ event.deadlineFiredAt = 0 /\ ~Fires(e2, at)
    BY <1>1, <1>3, <1>7
  <2>2. ~TickedThrough(AskBy + ConfirmGrace)
    BY <2>1 DEF PaceInv, FiredAfterGrace
  <2>3. now = AskBy + ConfirmGrace /\ at = AskBy + ConfirmGrace
    BY <1>7, <1>9, <2>2
  <2>4. TickedThrough(AskBy)
    BY <1>1, <1>2, <2>3 DEF TickedThrough
  <2>5. event.reminderSentAt # 0 /\ event.reminderSentAt <= AskBy
    BY <2>1, <2>4 DEF PaceInv, AskedOrFired
  <2>6. e2.reminderSentAt = event.reminderSentAt
    BY <1>3, <1>6, <2>5
  <2>7. Fires(e2, at)
    BY <1>1, <1>2, <1>3, <1>4, <2>1, <2>3, <2>5, <2>6 DEF Fires, InTime
  <2>. QED
    BY <2>1, <2>7
<1>. QED
  BY <1>8, <1>10, <1>11 DEF PaceInv

\* The clock moves on: while timely, this unit's tick has run.
LEMMA ClockKeepsPace ==
  ASSUME CycleInv, PaceInv, AdvanceTime, ticked' = FALSE, timely' = (timely /\ ticked)
  PROVE  PaceInv'
<1>. USE CycleAssumption
<1>1. /\ now \in Nat /\ now' = now + 1 /\ cycleSince \in Nat /\ event \in Event
      /\ UNCHANGED <<event, cycleSince>>
  BY DEF CycleInv, TypeOK, Time, AdvanceTime
<1>2. event.startsAt \in Nat /\ event.reminderSentAt \in Nat /\ AskBy \in Int /\ AskBy' = AskBy
  BY <1>1 DEF Event, Time, Stamp, AskBy
<1>3. InTime' => InTime /\ ticked
  BY <1>1 DEF InTime
<1>4. ASSUME NEW t \in Int, ticked, now' > t PROVE TickedThrough(t)
  BY <1>1, <1>4 DEF TickedThrough
<1>5. AskedOrFired'
  BY <1>1, <1>2, <1>3, <1>4 DEF PaceInv, AskedOrFired, TickedThrough
<1>6. FiredAfterGrace'
  BY <1>1, <1>2, <1>3, <1>4 DEF PaceInv, FiredAfterGrace, TickedThrough
<1>7. cycleSince' <= now' /\ event'.reminderSentAt <= now'
  BY <1>1, <1>2 DEF PaceInv
<1>8. ticked' \in BOOLEAN /\ timely' \in BOOLEAN
  OBVIOUS
<1>. QED
  BY <1>5, <1>6, <1>7, <1>8 DEF PaceInv

LEMMA NextPaceInv == CycleInv /\ PaceInv /\ [TimelyNext]_<<vars, ticked, timely>> => PaceInv'
<1>. SUFFICES ASSUME CycleInv, PaceInv, [TimelyNext]_<<vars, ticked, timely>> PROVE PaceInv'
  OBVIOUS
<1>1. CASE Handler /\ UNCHANGED <<ticked, timely>>
  BY <1>1, HandlerKeepsPace
<1>2. ASSUME NEW at \in (now - MaxWait)..now, NEW audience \in BOOLEAN, at > 0, Tick(at, audience),
             ticked' = (timely /\ (ticked \/ at = now)), UNCHANGED timely
      PROVE  PaceInv'
  <2>1. at \in Time /\ at <= now
    BY <1>2, TickTime DEF CycleInv
  <2>. QED
    BY <1>2, <2>1, TickKeepsPace
<1>3. CASE AdvanceTime /\ ticked' = FALSE /\ timely' = (timely /\ ticked)
  BY <1>3, ClockKeepsPace
<1>4. CASE UNCHANGED <<vars, ticked, timely>>
  BY <1>4 DEF vars, history, PaceInv, AskedOrFired, FiredAfterGrace, InTime, TickedThrough, AskBy
<1>. QED
  BY <1>1, <1>2, <1>3, <1>4 DEF TimelyNext

\* The dead-man switch works for every set of persons, all leads the
\* configuration accepts and whatever happens to the staffing and the channels:
\* with a tick a clock unit, no event that had time for an ask and its grace
\* stays scheduled past its start unreported (tickDeadlinesLocked).
THEOREM SilenceIsReported == TimelySpec => []DeadManSwitch
<1>1. TimelyInit => CycleInv /\ PaceInv
  BY InitCycleInv, InitPaceInv DEF TimelyInit
<1>2. CycleInv /\ [TimelyNext]_<<vars, ticked, timely>> => CycleInv'
  <2>1. [TimelyNext]_<<vars, ticked, timely>> => [Next]_vars
    BY DEF TimelyNext, Next
  <2>. QED
    BY <2>1, NextCycleInv
<1>3. CycleInv /\ PaceInv => DeadManSwitch
  <2>. SUFFICES ASSUME CycleInv, PaceInv, InTime, now > event.startsAt
                PROVE  event.deadlineFiredAt # 0
    BY DEF DeadManSwitch, InTime
  <2>1. now \in Nat /\ cycleSince \in Nat /\ event.startsAt \in Nat
    BY CycleAssumption DEF CycleInv, TypeOK, Time, Event
  <2>2. AskBy \in Int /\ AskBy + ConfirmGrace <= event.startsAt
    BY <2>1, CycleAssumption DEF AskBy, InTime
  <2>3. TickedThrough(AskBy + ConfirmGrace)
    BY <2>1, <2>2, CycleAssumption DEF TickedThrough
  <2>. QED
    BY <2>3 DEF PaceInv, FiredAfterGrace
<1>. QED
  BY <1>1, <1>2, <1>3, NextPaceInv, PTL DEF TimelySpec
=============================================================================
