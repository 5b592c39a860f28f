---------------------------- MODULE CalendarSync ----------------------------
(***************************************************************************)
(* The calendar import.  A fetch reads the source feed with no lock held   *)
(* and what it read is applied later, under the mutex: meanwhile the       *)
(* source changes, people cancel, reinstate, move and delete, and another  *)
(* fetch (the panel's or the API's, next to the automatic one) may read    *)
(* and apply first.  A feed may be broken: unreachable, empty, or short of *)
(* entries.                                                                *)
(*                                                                         *)
(* Abstractions.  One imported series, whose occurrences are their source  *)
(* keys; a row has a start and no end, title or location, so the quiet     *)
(* updates are left out and eventExpiry is Slack after the start.          *)
(* "confirmed" counts as scheduled.  The notices of a move are those of    *)
(* module Propagation, and their delivery holds no deletion back here.     *)
(***************************************************************************)
EXTENDS Integers, FiniteSets, Functions

CONSTANTS
  Key,           \* source keys of the occurrences
  Person, Reachable,
  Fetcher, Scheduled, \* callers that may be inside a fetch, and the scheduled one
  None,
  Window, Back,  \* CalendarWindow, and the 24 hours a fetch looks back
  Slack          \* the six hours of eventExpiry

CONSTANTS        \* bounds of the model, not of the code
  Horizon,       \* the clock stops here; starts lie within Time
  MaxEdits,      \* changes of a start: in the source, or moves by people
  MaxRestarts    \* restarts of the service

ASSUME CalendarAssumption ==
  /\ Reachable \subseteq Person /\ Scheduled \in Fetcher
  /\ Window \in Nat /\ Back \in Nat /\ Slack \in Nat /\ Horizon \in Nat
  /\ MaxEdits \in Nat /\ MaxRestarts \in Nat

VARIABLES
  now,
  source,        \* the feed: the start of each occurrence, or None
  edits,         \* changes of a start so far
  events,        \* the imported rows of state.Events, by source key
  assigned,      \* state.Assignments of those events
  series,        \* the persons in state.SeriesAssignments
  fetch,         \* what each fetcher has at hand
  failing,       \* Service.importFailed
  importing,     \* what the configuration says of the import, read at the start
  restarts

\* History: occurrences people cancelled and did not reinstate, asks of the
\* running disappearance, the outcome booked last by this process, and the pages
\* about the failure episode that began last.
VARIABLES calledOff, asks, last, paged

rows    == <<events, assigned>>
process == <<importing, restarts>>
history == <<calledOff, asks>>
paging  == <<failing, last, paged>>
vars    == <<now, source, edits, rows, series, fetch, process, history, paging>>

Time  == -1..(Horizon + Window + 1)
Start == Time \cup {None}
Event == [status: {"scheduled", "cancelled"}, startsAt: Time, vanished: BOOLEAN]

\* A fetch: not running, with the occurrences it read up to until, or with an
\* outcome the scheduler has not booked.
Copy  == [at: {"copy"}, occs: [Key -> Start], until: 0..(Horizon + Window)]
Fetch == Copy \cup [at: {"idle", "ok", "error"}]
Idle  == [at |-> "idle"]

\* No calendar_source; fetches by hand alone (CalendarFetchEvery is 0, the
\* default); RunCalendarFetcher beside them.
Importing == {"off", "manual", "automatic"}

Outcome == {"none", "ok", "error"}
NoPages == [failing |-> 0, recovered |-> 0]

TypeOK ==
  /\ now \in 0..Horizon
  /\ source \in [Key -> Start] /\ edits \in 0..MaxEdits
  /\ DOMAIN events \subseteq Key /\ events \in [DOMAIN events -> Event]
  /\ assigned \subseteq (DOMAIN events) \X Person
  /\ series \subseteq Person
  /\ fetch \in [Fetcher -> Fetch]
  /\ importing \in Importing /\ restarts \in 0..MaxRestarts
  /\ calledOff \subseteq Key
  /\ asks \in [Key \X Person -> 0..2]
  /\ failing \in BOOLEAN /\ last \in Outcome
  /\ paged \in [failing: 0..2, recovered: 0..2]

Init ==
  /\ now = 0
  /\ source \in [Key -> {None, 1}] /\ edits = 0
  /\ events = [k \in {} |-> k] /\ assigned = {} /\ series = {}
  /\ fetch = [f \in Fetcher |-> Idle]
  /\ importing = "automatic" /\ restarts = 0
  /\ calledOff = {} /\ asks = [x \in Key \X Person |-> 0]
  /\ failing = FALSE /\ last = "none" /\ paged = NoPages

-----------------------------------------------------------------------------
\* Fetching: FetchCalendar up to the sync.

\* The occurrences icsimport.Expand returns for the window.
Within(k) == source[k] # None /\ source[k] >= now - Back /\ source[k] <= now + Window

\* Whether f may fetch: RunCalendarFetcher only with an interval.
Fetches(f) == importing = "automatic" \/ (importing = "manual" /\ f # Scheduled)

\* The feed as it is, or broken: only the occurrences of S come out.
Read(f, S) ==
  /\ Fetches(f) /\ fetch[f] = Idle
  /\ fetch' = [fetch EXCEPT ![f] =
       [at |-> "copy", until |-> now + Window,
        occs |-> [k \in Key |-> IF k \in S THEN source[k] ELSE None]]]
  /\ UNCHANGED <<now, source, edits, rows, series, process, history, paging>>

FetchCalendar(f) == Read(f, {k \in Key : Within(k)})

FetchBroken(f) == \E S \in SUBSET {k \in Key : Within(k)} : Read(f, S)

\* No answer, an error status, an oversized feed.  The manual callers show it.
FetchFails(f) ==
  /\ Fetches(f) /\ fetch[f] = Idle /\ f = Scheduled
  /\ fetch' = [fetch EXCEPT ![f] = [at |-> "error"]]
  /\ UNCHANGED <<now, source, edits, rows, series, process, history, paging>>

-----------------------------------------------------------------------------
\* Applying: SyncCalendar, one key at a time.

Seen(c)    == {k \in Key : c.occs[k] # None}
Created(c) == Seen(c) \ DOMAIN events

\* Mutant of Synced: an occurrence that did not move keeps its marker.
SyncedIfMoved(c, k) ==
  IF events[k].status = "cancelled" \/ events[k].startsAt = c.occs[k] THEN events[k]
  ELSE [events[k] EXCEPT !.startsAt = c.occs[k], !.vanished = FALSE]

\* A row whose occurrence the fetch brought: cancelled rows stay as they are,
\* a new start is a move.
Synced(c, k) ==
  IF events[k].status = "cancelled" THEN events[k]
  ELSE [events[k] EXCEPT !.startsAt = c.occs[k], !.vanished = FALSE]

\* The rows the fetch makes no statement about are cancelled or out of its window;
\* a fetch without any occurrence makes none at all.
Missing(c) ==
  {k \in DOMAIN events \ Seen(c) :
     /\ Seen(c) # {}
     /\ events[k].status # "cancelled"
     /\ events[k].startsAt >= now /\ events[k].startsAt <= c.until}

\* Mutant of Gone: a missing occurrence is news every time.
GoneAgain(c) == Missing(c)

\* Missing for the first time: the admin is paged, the responsible asked.
Gone(c) == {k \in Missing(c) : ~events[k].vanished}

\* askVanishedLocked.
Asked(c) == {x \in assigned : x[1] \in Gone(c) /\ x[2] \in Reachable}

Marked(k) == [events[k] EXCEPT !.vanished = TRUE]

SyncCalendar(f) ==
  LET c == fetch[f]
  IN /\ c.at = "copy"
     /\ events' = [k \in DOMAIN events \cup Seen(c) |->
          IF k \in Created(c)
          THEN [status |-> "scheduled", startsAt |-> c.occs[k], vanished |-> FALSE]
          ELSE IF k \in Seen(c) THEN Synced(c, k)
          ELSE IF k \in Missing(c) THEN Marked(k)
          ELSE events[k]]
     /\ assigned' = assigned \cup Created(c) \X series
     /\ asks' = [x \in Key \X Person |->
          IF x[1] \in Created(c) \/ (x[1] \in Seen(c) /\ events[x[1]].status # "cancelled") THEN 0
          ELSE IF x \in Asked(c) /\ asks[x] < 2 THEN asks[x] + 1
          ELSE asks[x]]
     /\ fetch' = [fetch EXCEPT ![f] = IF f = Scheduled THEN [at |-> "ok"] ELSE Idle]
     /\ UNCHANGED <<now, source, edits, series, process, calledOff, paging>>

\* Mutant of Queued: a page per failing fetch.
QueuedEveryTime(outcome) ==
  IF outcome = "error" THEN "failing" ELSE IF failing THEN "recovered" ELSE "none"

\* The page noteImportResultLocked queues: one per turn for the worse, one for the
\* better.
Queued(outcome) ==
  CASE outcome = "error" /\ ~failing -> "failing"
    [] outcome = "ok" /\ failing     -> "recovered"
    [] OTHER                         -> "none"

\* noteImportResultLocked.  An episode begins with an error that follows none.
NoteImportResult ==
  LET outcome == fetch[Scheduled].at
      before  == IF outcome = "error" /\ last # "error" THEN NoPages ELSE paged
  IN /\ outcome \in {"ok", "error"}
     /\ failing' = (outcome = "error")
     /\ last' = outcome
     /\ paged' = [kind \in DOMAIN before |->
          IF kind = Queued(outcome) /\ before[kind] < 2 THEN before[kind] + 1 ELSE before[kind]]
     /\ fetch' = [fetch EXCEPT ![Scheduled] = Idle]
     /\ UNCHANGED <<now, source, edits, rows, series, process, history>>

\* A restart, perhaps with another configuration, loses the fetches and importFailed,
\* which is kept in memory.
Restart ==
  /\ restarts < MaxRestarts /\ restarts' = restarts + 1
  /\ importing' \in Importing
  /\ fetch' = [f \in Fetcher |-> Idle]
  /\ failing' = FALSE /\ last' = "none" /\ paged' = NoPages
  /\ UNCHANGED <<now, source, edits, rows, series, history>>

-----------------------------------------------------------------------------
\* People: none of it waits for the import.

Unfetched == UNCHANGED <<now, source, edits, fetch, process, paging>>

CancelEvent(k) ==
  /\ k \in DOMAIN events /\ events[k].status # "cancelled"
  /\ events' = [events EXCEPT ![k].status = "cancelled"]
  /\ calledOff' = calledOff \cup {k}
  /\ Unfetched /\ UNCHANGED <<assigned, series, asks>>

ReinstateEvent(k) ==
  /\ k \in DOMAIN events /\ events[k].status = "cancelled"
  /\ events' = [events EXCEPT ![k].status = "scheduled"]
  /\ calledOff' = calledOff \ {k}
  /\ Unfetched /\ UNCHANGED <<assigned, series, asks>>

MoveEvent(k, start) ==
  /\ k \in DOMAIN events /\ events[k].status # "cancelled" /\ start # events[k].startsAt
  /\ edits < MaxEdits /\ edits' = edits + 1
  /\ events' = [events EXCEPT ![k].startsAt = start]
  /\ UNCHANGED <<now, source, assigned, series, fetch, process, history, paging>>

\* Mutant of Deletable: cancelled rows can go.
DeletableIfCancelled(k) ==
  events[k].status = "cancelled" \/ (events[k].startsAt < now /\ events[k].vanished)

\* DeleteEvent, for an imported event: over, gone from the feed, not cancelled.
Deletable(k) == events[k].status # "cancelled" /\ events[k].startsAt < now /\ events[k].vanished

DeleteEvent(k) ==
  /\ k \in DOMAIN events /\ Deletable(k)
  /\ events' = Restrict(events, DOMAIN events \ {k})
  /\ assigned' = {x \in assigned : x[1] # k}
  /\ Unfetched /\ UNCHANGED <<series, history>>

\* AssignSeries: now and for every occurrence to come.
AssignSeries(p) ==
  /\ series' = series \cup {p}
  /\ assigned' = assigned \cup {k \in DOMAIN events : events[k].status # "cancelled"} \X {p}
  /\ <<series', assigned'>> # <<series, assigned>>
  /\ Unfetched /\ UNCHANGED <<events, calledOff, asks>>

\* UnassignSeries: from the future occurrences.
UnassignSeries(p) ==
  LET future == {k \in DOMAIN events : events[k].status # "cancelled" /\ events[k].startsAt > now}
  IN /\ p \in series \/ \E k \in future : <<k, p>> \in assigned
     /\ series' = series \ {p}
     /\ assigned' = assigned \ (future \X {p})
     /\ Unfetched /\ UNCHANGED <<events, history>>

\* Unassign, for one occurrence.
Unassign(k, p) ==
  /\ <<k, p>> \in assigned
  /\ assigned' = assigned \ {<<k, p>>}
  /\ Unfetched /\ UNCHANGED <<events, series, calledOff, asks>>

\* The source calendar is edited.
EditSource(k, start) ==
  /\ edits < MaxEdits /\ edits' = edits + 1
  /\ source[k] # start
  /\ source' = [source EXCEPT ![k] = start]
  /\ UNCHANGED <<now, rows, series, fetch, process, history, paging>>

AdvanceTime ==
  /\ now < Horizon /\ now' = now + 1
  /\ UNCHANGED <<source, edits, rows, series, fetch, process, history, paging>>

-----------------------------------------------------------------------------
Import ==
  \/ \E f \in Fetcher : FetchCalendar(f) \/ FetchBroken(f) \/ FetchFails(f) \/ SyncCalendar(f)
  \/ NoteImportResult \/ Restart

People ==
  \/ \E k \in Key : CancelEvent(k) \/ ReinstateEvent(k) \/ DeleteEvent(k)
  \/ \E k \in Key, start \in Time : MoveEvent(k, start)
  \/ \E p \in Person : AssignSeries(p) \/ UnassignSeries(p)
  \/ \E k \in Key, p \in Person : Unassign(k, p)

Next ==
  \/ Import \/ People \/ AdvanceTime
  \/ \E k \in Key, start \in Start : EditSource(k, start)

Spec == Init /\ [][Next]_vars

\* Where the configuration starts it, RunCalendarFetcher fetches again and again,
\* each fetch bounded by its timeout, and what it read is applied and booked; the
\* feed is not broken for ever.  Nothing is assumed of fetches by hand.
Fairness ==
  /\ SF_vars(FetchCalendar(Scheduled))
  /\ WF_vars(SyncCalendar(Scheduled)) /\ WF_vars(NoteImportResult)

FairSpec == Spec /\ Fairness

-----------------------------------------------------------------------------
\* Properties.

\* "The import itself never revives one, and a deletion must not become the
\* loophole that does": what people called off stays off, as the row that keeps
\* it so, until people reinstate it; and nothing else is off (SyncCalendar: a
\* feed glitch must never send cancellation mail).
CalledOffStaysOff ==
  {k \in DOMAIN events : events[k].status = "cancelled"} = calledOff

\* Nobody is asked twice about one disappearance, however many fetches report it
\* and whatever people do to the event in between (askVanishedLocked).
AskedOnce == \A x \in Key \X Person : asks[x] <= 1

\* An episode of a failing feed is one page, not one for every failing fetch, and
\* its end is one more, which no episode gets twice or before it is over
\* (noteImportResultLocked), as long as the process lives.
PagedOncePerEpisode ==
  /\ last = "error" => paged = [failing |-> 1, recovered |-> 0]
  /\ last = "ok" => paged.recovered = paged.failing /\ paged.failing <= 1
  /\ last = "none" => paged = NoPages

\* VanishedEvents, the operator's open decisions.
VanishedEvents ==
  {k \in DOMAIN events :
     events[k].vanished /\ events[k].status # "cancelled" /\ events[k].startsAt + Slack >= now}

\* What a good fetch makes of the feed.
Agreement ==
  /\ \A k \in {k \in Key : Within(k)} :
       k \in DOMAIN events /\ (events[k].status # "cancelled" =>
                                 events[k].startsAt = source[k] /\ ~events[k].vanished)
  /\ (\E k \in Key : Within(k)) =>
       \A k \in {k \in DOMAIN events \ calledOff : source[k] = None} :
         events[k].startsAt \in now..(now + Window) => k \in VanishedEvents

\* "The source calendar is the truth for times": the store agrees with it again
\* and again while the import is automatic, through stale and broken fetches,
\* fetches by hand, restarts and edits on either side.
AgreesAgain == []<>(importing = "automatic" => Agreement)

\* "Or anything at all once the import is switched off" can be deleted
\* (DeleteEvent): an event that is over or cancelled.
SwitchedOffFrees ==
  importing = "off" => \A k \in DOMAIN events :
    events[k].status = "cancelled" \/ events[k].startsAt < now => ENABLED DeleteEvent(k)
=============================================================================
