-------------------------- MODULE EventCycleTimely --------------------------
(***************************************************************************)
(* EventCycle and the pace of its ticks: while the process runs,           *)
(* RunScheduler ticks at least once in every clock unit (once a minute by  *)
(* default, against leads of hours).  The pace belongs here and not in     *)
(* EventCycle, whose safety properties hold for ticks that come late,      *)
(* twice or not at all.                                                    *)
(***************************************************************************)
EXTENDS EventCycle

VARIABLES
  ticked,      \* a tick that did not wait has run since the clock last moved
  timely       \* the clock never moved without one

TimelyInit == Init /\ ticked = FALSE /\ timely = TRUE

\* Once late, the pace is not looked at any more.
TimelyNext ==
  \/ Handler /\ UNCHANGED <<ticked, timely>>
  \/ \E at \in (now - MaxWait)..now, audience \in BOOLEAN :
       /\ at > 0 /\ Tick(at, audience)
       /\ ticked' = (timely /\ (ticked \/ at = now))
       /\ UNCHANGED timely
  \/ AdvanceTime /\ ticked' = FALSE /\ timely' = (timely /\ ticked)

TimelySpec == TimelyInit /\ [][TimelyNext]_<<vars, ticked, timely>>

\* With the scheduler running, an event that stays scheduled past its start has
\* been reported or cancelled: the dead-man switch fires in every cycle that
\* began early enough for an ask and its grace, however the staffing and the
\* channels change meanwhile (tickDeadlinesLocked).
DeadManSwitch ==
  /\ timely
  /\ ConfirmGrace <= DeadlineLead /\ DeadlineLead <= ReminderLead
  /\ event.status = "scheduled" /\ now > event.startsAt
  /\ cycleSince + 1 + ConfirmGrace <= event.startsAt
  => event.deadlineFiredAt # 0
=============================================================================
