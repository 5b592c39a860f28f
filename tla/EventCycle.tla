----------------------------- MODULE EventCycle -----------------------------
(***************************************************************************)
(* The confirmation cycle of one event of core.Service: it is scheduled,   *)
(* its assignees are asked (reminder), asked again (nudge), and silence    *)
(* until the deadline fires the dead-man switch, which cancels the event   *)
(* or pages the admin.  Confirm, cancel, move, reinstate, the assignments  *)
(* and the channels change it in between, each in one critical section of  *)
(* Service.mu; so does the locked half of Tick, all of whose passes use    *)
(* the one clock reading the caller took BEFORE it got the mutex.          *)
(*                                                                         *)
(* Abstractions.  The passes treat the events one by one, so one event is  *)
(* enough.  A time is a number of clock units, 0 the zero time.  A person  *)
(* has no usable channel, only usable ones that fail their format check,   *)
(* or a valid one.  Broadcast targets and guests with an address are one   *)
(* audience that exists at a fan-out or does not.  Texts, links, webhooks, *)
(* the sequence number and the once-per-process page about malformed       *)
(* addresses are left out, an admin to page is configured; delivery of     *)
(* what is queued is module Outbox.  Of the import, the move and the ask   *)
(* about an event gone from the feed are here; when it is gone is module   *)
(* CalendarSync.                                                           *)
(***************************************************************************)
EXTENDS Integers, FiniteSets

CONSTANTS
  Person,
  None,             \* no person: the admin acts (the empty person id)
  ReminderLead,     \* Config.ReminderLead: the ask goes out this long before
  NudgeLead,        \* Config.NudgeLead, 0 when there is no second ask
  DeadlineLead,     \* Config.DeadlineLead
  ConfirmGrace      \* confirmGrace

CONSTANTS           \* bounds of the model, not of the code
  StoredChannels,   \* what the channels of the first state may be good for
  Horizon,          \* the last clock reading
  MaxCycles,        \* moves and reinstatements
  MaxWait           \* clock units a tick may wait for the mutex

ASSUME CycleAssumption ==
  /\ None \notin Person
  /\ ReminderLead \in Nat \ {0} /\ DeadlineLead \in Nat \ {0}
  /\ ConfirmGrace \in Nat \ {0}
  /\ NudgeLead \in Nat
  /\ NudgeLead # 0 => NudgeLead > DeadlineLead + ConfirmGrace /\ NudgeLead < ReminderLead
  /\ StoredChannels \subseteq {"none", "broken", "valid"}
  /\ Horizon \in Nat \ {0} /\ MaxCycles \in Nat /\ MaxWait \in Nat

VARIABLES
  now,         \* the clock
  event,       \* the event's row in state.Events
  assigned,    \* who is responsible for it (state.Assignments)
  channel,     \* what each person's channels are good for
  answeredAt,  \* each person's latest response to the event
  queued,      \* what the last step put into the outbox
  cycleSince,  \* history: when the current cycle began
  asked,       \* history: when ticks asked each person in the current cycle
  spoke,       \* history: who confirmed or cancelled in the current cycle
  cycles       \* moves and reinstatements so far

history == <<cycleSince, asked, spoke, cycles>>
vars    == <<now, event, assigned, channel, answeredAt, queued, history>>

Time   == 1..Horizon
Stamp  == Nat                               \* 0: not yet

Event == [status: {"scheduled", "confirmed", "cancelled"}, startsAt: Time,
          ifUnconfirmed: {"notify", "cancel"},
          reminderSentAt: Stamp, nudgeSentAt: Stamp, deadlineFiredAt: Stamp,
          unreachableNotifiedAt: Stamp]

Page == {"nobody told", "unreachable", "broken channel", "auto-cancelled", "no response",
         "now unreachable"}

\* Asks to persons by a tick and about an event gone from the feed, notices of a
\* fan-out, pages to the admin.
Queued == [asks: SUBSET Person, vanished: SUBSET Person,
           notices: SUBSET (Person \cup {None}), pages: SUBSET Page]

TypeOK ==
  /\ now \in Time
  /\ event \in Event
  /\ assigned \subseteq Person
  /\ channel \in [Person -> {"none", "broken", "valid"}]
  /\ answeredAt \in [Person -> 0..Horizon]
  /\ queued \in Queued
  /\ cycleSince \in Time
  /\ asked \in [Person -> SUBSET Time]
  /\ spoke \subseteq Person \cup {None}
  /\ cycles \in 0..MaxCycles

Silence == [asks |-> {}, vanished |-> {}, notices |-> {}, pages |-> {}]

\* An event as createLocked leaves it.  Addresses stored before the format
\* check existed may be broken.
Init ==
  /\ now = 1
  /\ event \in [status: {"scheduled"}, startsAt: Time, ifUnconfirmed: {"notify", "cancel"},
                reminderSentAt: {0}, nudgeSentAt: {0}, deadlineFiredAt: {0},
                unreachableNotifiedAt: {0}]
  /\ assigned = {}
  /\ channel \in [Person -> StoredChannels]
  /\ answeredAt = [p \in Person |-> 0]
  /\ queued = Silence
  /\ cycleSince = 1
  /\ asked = [p \in Person |-> {}] /\ spoke = {} /\ cycles = 0

-----------------------------------------------------------------------------
\* What the handlers and the passes compute.

\* reachableLocked: the assignees with at least one usable channel.
Reachable == {p \in assigned : channel[p] # "none"}

\* fanOutLocked: one notice to the audience, if there is one, and to each
\* reachable assignee.
FanOut(audience) == Reachable \cup (IF audience THEN {None} ELSE {})

\* nobodyToldLocked: a fan-out that reached nobody pages the admin, if the
\* caller does not do it itself.
NobodyTold(audience, page) == IF FanOut(audience) = {} /\ page THEN {"nobody told"} ELSE {}

\* moveLocked and ReinstateEvent restart the confirmation cycle.
\* Mutant of NewCycle: the ask of the old cycle still counts.
NewCycleStillAsked(e, start) ==
  [e EXCEPT !.status = "scheduled", !.startsAt = start, !.nudgeSentAt = 0,
            !.deadlineFiredAt = 0, !.unreachableNotifiedAt = 0]

NewCycle(e, start) ==
  [e EXCEPT !.status = "scheduled", !.startsAt = start, !.reminderSentAt = 0,
            !.nudgeSentAt = 0, !.deadlineFiredAt = 0, !.unreachableNotifiedAt = 0]

\* Mutant of ReminderDue: the mark is not looked at.
ReminderDueAgain(e, at) ==
  /\ e.status = "scheduled"
  /\ e.startsAt - ReminderLead <= at /\ at <= e.startsAt

\* tickRemindersLocked: inside [start - ReminderLead, start], once a cycle.
ReminderDue(e, at) ==
  /\ e.status = "scheduled" /\ e.reminderSentAt = 0
  /\ e.startsAt - ReminderLead <= at /\ at <= e.startsAt

Asks(e, at) == ReminderDue(e, at) /\ Reachable # {}

\* Mutant of Warns: no look at the deadline window.
WarnsTooLate(e, at) ==
  /\ ReminderDue(e, at) /\ Reachable = {} /\ assigned # {}
  /\ e.unreachableNotifiedAt = 0

\* Somebody is assigned, but the ask cannot go out: an early, single warning.
Warns(e, at) ==
  /\ ReminderDue(e, at) /\ Reachable = {} /\ assigned # {}
  /\ e.unreachableNotifiedAt = 0
  /\ at < e.startsAt - DeadlineLead

Reminded(e, at) ==
  CASE Asks(e, at)  -> [e EXCEPT !.reminderSentAt = at]
    [] Warns(e, at) -> [e EXCEPT !.unreachableNotifiedAt = at]
    [] OTHER        -> e

\* answeredSinceLocked, for the cycle's ask.
Silent(e) == {p \in Reachable : answeredAt[p] < e.reminderSentAt}

\* tickNudgesLocked: once a cycle, not near the ask and not near the deadline.
Nudges(e, at) ==
  /\ NudgeLead # 0
  /\ e.status = "scheduled" /\ e.reminderSentAt # 0 /\ e.nudgeSentAt = 0
  /\ e.startsAt - NudgeLead <= at /\ e.reminderSentAt < e.startsAt - NudgeLead
  /\ at - e.reminderSentAt >= ConfirmGrace
  /\ at < e.startsAt - DeadlineLead - ConfirmGrace
  /\ Silent(e) # {}

Nudged(e, at) == IF Nudges(e, at) THEN [e EXCEPT !.nudgeSentAt = at] ELSE e

\* tickDeadlinesLocked: the dead-man switch fires once a cycle, in
\* [start - DeadlineLead, start], and waits for an ask that can still go out
\* and ConfirmGrace after the one that did.
\* Mutants of Fires: an ask is always waited for; a confirmed event counts too.
FiresAfterAskOnly(e, at) ==
  /\ e.status = "scheduled" /\ e.deadlineFiredAt = 0
  /\ e.reminderSentAt # 0 /\ at - e.reminderSentAt >= ConfirmGrace
  /\ e.startsAt - DeadlineLead <= at /\ at <= e.startsAt

FiresOnConfirmed(e, at) ==
  /\ e.status # "cancelled" /\ e.deadlineFiredAt = 0
  /\ e.reminderSentAt = 0 => Reachable = {}
  /\ e.reminderSentAt # 0 => at - e.reminderSentAt >= ConfirmGrace
  /\ e.startsAt - DeadlineLead <= at /\ at <= e.startsAt

Fires(e, at) ==
  /\ e.status = "scheduled" /\ e.deadlineFiredAt = 0
  /\ e.reminderSentAt = 0 => Reachable = {}
  /\ e.reminderSentAt # 0 => at - e.reminderSentAt >= ConfirmGrace
  /\ e.startsAt - DeadlineLead <= at /\ at <= e.startsAt

Kills(e, at) == Fires(e, at) /\ e.ifUnconfirmed = "cancel"

Deadlined(e, at) ==
  IF Kills(e, at) THEN [e EXCEPT !.deadlineFiredAt = at, !.status = "cancelled"]
  ELSE IF Fires(e, at) THEN [e EXCEPT !.deadlineFiredAt = at]
  ELSE e

\* Mutant of DeadlinePages: the empty fan-out is a page of its own.
DeadlinePagesTwice(e, at, audience) ==
  IF Kills(e, at) THEN {"auto-cancelled"} \cup NobodyTold(audience, TRUE)
  ELSE IF Fires(e, at) THEN {"no response"} ELSE {}

\* One page either way: cancelLocked is called with via = "deadline", and an
\* empty fan-out is folded into the page.
DeadlinePages(e, at, audience) ==
  IF Kills(e, at) THEN {"auto-cancelled"} \cup NobodyTold(audience, FALSE)
  ELSE IF Fires(e, at) THEN {"no response"} ELSE {}

ReminderPages(e, at) ==
  (IF Warns(e, at) THEN {"unreachable"} ELSE {})
    \cup (IF Asks(e, at) /\ \A p \in assigned : channel[p] # "valid"
          THEN {"broken channel"} ELSE {})

-----------------------------------------------------------------------------
\* The handlers.

Spoken(p) == /\ spoke' = spoke \cup {p}
             /\ answeredAt' = IF p = None THEN answeredAt ELSE [answeredAt EXCEPT ![p] = now]

\* confirmLocked: by a link, the portal, the panel or the API.
Confirm(p) ==
  /\ event.status # "cancelled"
  /\ event' = IF event.status = "scheduled" THEN [event EXCEPT !.status = "confirmed"] ELSE event
  /\ Spoken(p)
  /\ queued' = Silence
  /\ UNCHANGED <<now, assigned, channel, cycleSince, asked, cycles>>

\* cancelLocked by anybody but the dead-man switch.
Cancel(p, audience) ==
  /\ event.status # "cancelled"
  /\ event' = [event EXCEPT !.status = "cancelled"]
  /\ Spoken(p)
  /\ queued' = [Silence EXCEPT !.notices = FanOut(audience), !.pages = NobodyTold(audience, TRUE)]
  /\ UNCHANGED <<now, assigned, channel, cycleSince, asked, cycles>>

\* The event's cycle begins anew, with start as its start and page saying
\* whether an empty fan-out pages the admin.
Restart(start, audience, page) ==
  /\ cycles < MaxCycles
  /\ cycles' = cycles + 1
  /\ event' = NewCycle(event, start)
  /\ cycleSince' = now /\ asked' = [p \in Person |-> {}] /\ spoke' = {}
  /\ queued' = [Silence EXCEPT !.notices = FanOut(audience), !.pages = NobodyTold(audience, page)]
  /\ UNCHANGED <<now, assigned, channel, answeredAt>>

\* moveLocked; the importer pages once per sync instead.
Move(start, actor, audience) ==
  event.status # "cancelled" /\ Restart(start, audience, actor # "import")

ReinstateEvent(audience) ==
  event.status = "cancelled" /\ Restart(event.startsAt, audience, TRUE)

\* assignLocked, unassignLocked: no notice, no effect on status or responses.
Assign(p) ==
  /\ p \notin assigned /\ assigned' = assigned \cup {p}
  /\ queued' = Silence
  /\ UNCHANGED <<now, event, channel, answeredAt, history>>

Unassign(p) ==
  /\ p \in assigned /\ assigned' = assigned \ {p}
  /\ queued' = Silence
  /\ UNCHANGED <<now, event, channel, answeredAt, history>>

\* UpdatePerson, BindTelegram: new channels pass the format check.  A person who
\* loses the last one while responsible for an upcoming event pages the admin.
UpdateChannels(p, c) ==
  /\ c \in {"none", "valid"} /\ channel[p] # c
  /\ channel' = [channel EXCEPT ![p] = c]
  /\ queued' = [Silence EXCEPT !.pages =
                  IF c = "none" /\ p \in assigned /\ event.status # "cancelled" /\ event.startsAt > now
                  THEN {"now unreachable"} ELSE {}]
  /\ UNCHANGED <<now, event, assigned, answeredAt, history>>

\* askVanishedLocked: the same question by the same links, once in a disappearance,
\* to whoever is reachable, answered or not.  It marks nothing of the cycle: the
\* reminder, the nudge and the deadline go on as if it had not been put.
AskVanished ==
  /\ event.status # "cancelled" /\ now <= event.startsAt /\ Reachable # {}
  /\ queued' = [Silence EXCEPT !.vanished = Reachable]
  /\ UNCHANGED <<now, event, assigned, channel, answeredAt, history>>

\* tickLocked at the clock reading `at`: reminder, nudge, deadline, in this order.
Tick(at, audience) ==
  LET e1 == Reminded(event, at)
      e2 == Nudged(e1, at)
      asks == (IF Asks(event, at) THEN Reachable ELSE {})
                \cup (IF Nudges(e1, at) THEN Silent(e1) ELSE {})
  IN /\ event' = Deadlined(e2, at)
     /\ queued' = [asks |-> asks, vanished |-> {},
                   notices |-> IF Kills(e2, at) THEN FanOut(audience) ELSE {},
                   pages |-> ReminderPages(event, at) \cup DeadlinePages(e2, at, audience)]
     /\ asked' = [p \in Person |-> IF p \in asks THEN asked[p] \cup {at} ELSE asked[p]]
     /\ UNCHANGED <<now, assigned, channel, answeredAt, cycleSince, spoke, cycles>>

AdvanceTime ==
  /\ now < Horizon
  /\ now' = now + 1
  /\ queued' = Silence
  /\ UNCHANGED <<event, assigned, channel, answeredAt, cycleSince, asked, spoke, cycles>>

Handler ==
  \/ \E p \in Person \cup {None} : Confirm(p)
  \/ \E p \in Person \cup {None}, audience \in BOOLEAN : Cancel(p, audience)
  \/ \E start \in Time, actor \in {"admin", "import"}, audience \in BOOLEAN :
       Move(start, actor, audience)
  \/ \E audience \in BOOLEAN : ReinstateEvent(audience)
  \/ \E p \in Person : Assign(p) \/ Unassign(p)
  \/ \E p \in Person, c \in {"none", "valid"} : UpdateChannels(p, c)
  \/ AskVanished

Next ==
  \/ Handler
  \/ \E at \in (now - MaxWait)..now, audience \in BOOLEAN : at > 0 /\ Tick(at, audience)
  \/ AdvanceTime

Spec == Init /\ [][Next]_vars

-----------------------------------------------------------------------------
\* Properties.

Fired == event.deadlineFiredAt = 0 /\ event'.deadlineFiredAt # 0

KilledBySilence == Fired /\ event'.status = "cancelled"

\* Silence cancels only a cycle in which somebody was asked at least
\* ConfirmGrace ago, or in which nobody can be asked: an ask of an earlier cycle
\* or a fresh one is no chance to answer (tickDeadlinesLocked).
SilenceHadItsChance ==
  [][KilledBySilence =>
       \/ \E p \in Person : \E t \in asked[p] : now - t >= ConfirmGrace
       \/ Reachable = {}]_vars

\* "recipients must get a real chance to answer before silence is allowed to
\* cancel anything" (confirmGrace): of the people responsible when silence
\* cancels, if any can be asked, at least one was, ConfirmGrace ago or earlier.
ResponsibleHadAChance ==
  [][KilledBySilence /\ Reachable # {} =>
       \E p \in Reachable : \E t \in asked[p] : now - t >= ConfirmGrace]_vars

\* Once somebody has confirmed or cancelled in this cycle, no tick asks anybody
\* again, reports silence or cancels for it, whatever clock reading it uses
\* (confirmLocked, cancelLocked against the three passes).  Only a disappearance
\* from the feed is put to them still (askVanishedLocked).
AnsweredIsLeftAlone == [][spoke # {} => queued'.asks = {} /\ ~Fired]_vars

\* The passes of one tick never act on the same event (Tick): at most one of
\* the four marks of the cycle is set in a step.
PassesAreDisjoint ==
  [][\A a, b \in {"reminderSentAt", "nudgeSentAt", "deadlineFiredAt", "unreachableNotifiedAt"} :
       a # b /\ event[a] = 0 /\ event[b] = 0 => event'[a] = 0 \/ event'[b] = 0]_vars

\* The ticks ask nobody more than twice in a cycle, and only once without a nudge
\* (tickRemindersLocked, tickNudgesLocked).  The ask about a disappearance comes on
\* top, once in each (CalendarSync: AskedOnce).
RemindedAtMostTwice ==
  \A p \in Person : Cardinality(asked[p]) <= IF NudgeLead = 0 THEN 1 ELSE 2

\* A cancellation or reinstatement that reached nobody pages the admin, and with
\* one page, not two: also when the dead-man switch cancelled, which folds
\* "nobody was told" into its own page (nobodyToldLocked, tickDeadlinesLocked).
FlipIsToldOrPaged ==
  [][\/ event'.status = "cancelled" /\ event.status # "cancelled"
     \/ event'.status = "scheduled" /\ event.status = "cancelled"
     => queued'.notices # {} \/ Cardinality(queued'.pages) = 1]_vars

\* The second ask goes to every reachable assignee who has not answered in this
\* cycle: "an answer from an earlier cycle (before a move or reinstate) does not
\* count for this one" (answeredSinceLocked).
NudgeReachesTheSilent ==
  [][event.nudgeSentAt = 0 /\ event'.nudgeSentAt # 0 =>
       \A p \in Reachable : answeredAt[p] # event.reminderSentAt => p \in queued'.asks \cup spoke]_vars
=============================================================================
