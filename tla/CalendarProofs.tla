--------------------------- MODULE CalendarProofs ---------------------------
(***************************************************************************)
(* What holds of the imported events whatever the fetches bring, for any   *)
(* series, people, callers and clocks: no fetch calls an event off or back *)
(* on, nobody is asked twice about one disappearance, and an episode of a  *)
(* failing feed is one page, its end one more.                             *)
(***************************************************************************)
EXTENDS CalendarSync, TLAPS

TypesInv ==
  /\ DOMAIN events \subseteq Key
  /\ \A k \in DOMAIN events :
       events[k] = [status |-> events[k].status, startsAt |-> events[k].startsAt, vanished |-> events[k].vanished]
  /\ asks \in [Key \X Person -> {0, 1}]

\* Whoever was asked was asked about the disappearance the row still records.
AskedIsMarked ==
  \A k \in DOMAIN events, p \in Person : asks[<<k, p>>] = 1 => events[k].vanished

\* importFailed is what was booked last, and the pages are those of its episode.
PagesInv ==
  /\ (failing <=> last = "error") /\ last \in Outcome
  /\ paged = [failing |-> paged.failing, recovered |-> paged.recovered]
  /\ PagedOncePerEpisode

Inv == TypesInv /\ CalledOffStaysOff /\ AskedIsMarked /\ PagesInv

-----------------------------------------------------------------------------
LEMMA InitInv == Init => Inv
BY DEF Init, Inv, TypesInv, CalledOffStaysOff, AskedIsMarked, PagesInv, PagedOncePerEpisode, Outcome, NoPages

\* Steps that leave the rows and their history alone.
LEMMA RowsStand ==
  ASSUME TypesInv, CalledOffStaysOff, AskedIsMarked, UNCHANGED <<events, calledOff, asks>>
  PROVE  TypesInv' /\ CalledOffStaysOff' /\ AskedIsMarked'
BY DEF TypesInv, CalledOffStaysOff, AskedIsMarked

\* Applying a fetch, however old it is and whatever it misses.
LEMMA SyncKeeps ==
  ASSUME Inv, NEW f \in Fetcher, SyncCalendar(f)
  PROVE  Inv'
<1>. DEFINE c == fetch[f]
<1>1. /\ events' = [k \in DOMAIN events \cup Seen(c) |->
            IF k \in Created(c)
            THEN [status |-> "scheduled", startsAt |-> c.occs[k], vanished |-> FALSE]
            ELSE IF k \in Seen(c) THEN Synced(c, k)
            ELSE IF k \in Missing(c) THEN Marked(k)
            ELSE events[k]]
      /\ asks' = [x \in Key \X Person |->
            IF x[1] \in Created(c) \/ (x[1] \in Seen(c) /\ events[x[1]].status # "cancelled") THEN 0
            ELSE IF x \in Asked(c) /\ asks[x] < 2 THEN asks[x] + 1
            ELSE asks[x]]
      /\ UNCHANGED <<calledOff, failing, last, paged>>
  BY DEF SyncCalendar, paging
<1>2. Created(c) = Seen(c) \ DOMAIN events /\ Seen(c) \subseteq Key
  BY DEF Created, Seen
<1>3. DOMAIN events' = DOMAIN events \cup Seen(c)
  BY <1>1
<1>4. Missing(c) \subseteq DOMAIN events \ Seen(c) /\ \A k \in Missing(c) : events[k].status # "cancelled"
  BY DEF Missing
<1>5. \A k \in Created(c) :
        events'[k] = [status |-> "scheduled", startsAt |-> c.occs[k], vanished |-> FALSE]
  BY <1>1, <1>2
<1>6. \A k \in DOMAIN events : events'[k] \in {events[k], Synced(c, k), Marked(k)}
  BY <1>1, <1>2
<1>7. ASSUME NEW k \in DOMAIN events
      PROVE  /\ events'[k] = [status |-> events[k].status, startsAt |-> events'[k].startsAt,
                              vanished |-> events'[k].vanished]
             /\ events'[k].status = events[k].status
  BY <1>6 DEF Synced, Marked, Inv, TypesInv
<1>8. CalledOffStaysOff'
  BY <1>1, <1>2, <1>3, <1>5, <1>7 DEF Inv, CalledOffStaysOff
<1>9. ASSUME NEW k \in Key, NEW p \in Person
      PROVE  /\ asks'[<<k, p>>] \in {0, 1}
             /\ k \in DOMAIN events' /\ asks'[<<k, p>>] = 1 => events'[k].vanished
  <2>. DEFINE x == <<k, p>>
  <2>1. x \in Key \X Person /\ x[1] = k /\ asks[x] \in {0, 1}
    BY DEF Inv, TypesInv
  <2>2. CASE k \in Created(c) \/ (k \in Seen(c) /\ events[k].status # "cancelled")
    BY <1>1, <2>1, <2>2
  <2>3. CASE k \in Seen(c) /\ k \notin Created(c) /\ events[k].status = "cancelled"
    <3>1. k \in DOMAIN events /\ x \notin Asked(c)
      BY <1>2, <1>4, <2>1, <2>3 DEF Asked, Gone
    <3>2. asks'[x] = asks[x]
      BY <1>1, <2>1, <2>3, <3>1
    <3>3. events'[k] = events[k]
      BY <1>1, <2>3, <3>1 DEF Synced
    <3>. QED
      BY <2>1, <3>1, <3>2, <3>3 DEF Inv, AskedIsMarked
  <2>4. CASE k \notin Seen(c) /\ x \in Asked(c)
    <3>1. k \in Gone(c) /\ k \in Missing(c) /\ k \in DOMAIN events /\ ~events[k].vanished
      BY <2>1, <2>4, <1>4 DEF Asked, Gone
    <3>2. asks[x] = 0
      BY <2>1, <3>1 DEF Inv, AskedIsMarked
    <3>3. asks'[x] = 1
      BY <1>1, <1>2, <2>1, <2>4, <3>2
    <3>4. events'[k] = Marked(k)
      BY <1>1, <1>2, <2>4, <3>1
    <3>5. events'[k].vanished
      BY <3>1, <3>4 DEF Marked, Inv, TypesInv
    <3>. QED
      BY <3>3, <3>5
  <2>5. CASE k \notin Seen(c) /\ x \notin Asked(c)
    <3>1. asks'[x] = asks[x]
      BY <1>1, <1>2, <2>1, <2>5
    <3>2. k \in DOMAIN events' => k \in DOMAIN events /\ events'[k] \in {events[k], Marked(k)}
      BY <1>1, <1>2, <1>3, <2>5
    <3>3. k \in DOMAIN events /\ events[k].vanished => events'[k].vanished
      BY <1>3, <3>2 DEF Marked, Inv, TypesInv
    <3>. QED
      BY <2>1, <3>1, <3>2, <3>3 DEF Inv, AskedIsMarked
  <2>. QED
    BY <2>2, <2>3, <2>4, <2>5, <1>2
<1>10. TypesInv'
  <2>1. DOMAIN events' \subseteq Key
    BY <1>2, <1>3 DEF Inv, TypesInv
  <2>2. \A k \in DOMAIN events' :
          events'[k] = [status |-> events'[k].status, startsAt |-> events'[k].startsAt, vanished |-> events'[k].vanished]
    <3>1. ASSUME NEW k \in Created(c)
          PROVE  events'[k] = [status |-> events'[k].status, startsAt |-> events'[k].startsAt,
                               vanished |-> events'[k].vanished]
      <4>. DEFINE row == [status |-> "scheduled", startsAt |-> c.occs[k], vanished |-> FALSE]
      <4>1. row = [status |-> row.status, startsAt |-> row.startsAt, vanished |-> row.vanished]
        OBVIOUS
      <4>2. events'[k] = row
        BY <1>5
      <4>. HIDE DEF row
      <4>. QED
        BY <4>1, <4>2
    <3>. QED
      BY <1>2, <1>3, <1>7, <3>1
  <2>3. asks' \in [Key \X Person -> {0, 1}]
    <3>1. \A x \in Key \X Person : asks'[x] \in {0, 1}
      BY <1>9
    <3>. QED
      BY <1>1, <3>1
  <2>. QED
    BY <2>1, <2>2, <2>3 DEF TypesInv
<1>11. AskedIsMarked'
  BY <1>9, <1>10 DEF AskedIsMarked, TypesInv
<1>. QED
  BY <1>1, <1>8, <1>10, <1>11 DEF Inv, PagesInv, PagedOncePerEpisode

\* People: a row is called off, reinstated, moved or deleted, and stays marked.
LEMMA CancelKeeps ==
  ASSUME Inv, NEW k \in Key, CancelEvent(k) \/ ReinstateEvent(k)
  PROVE  Inv'
<1>1. PICK s \in {"scheduled", "cancelled"} :
        /\ k \in DOMAIN events /\ events' = [events EXCEPT ![k].status = s]
        /\ calledOff' = IF s = "cancelled" THEN calledOff \cup {k} ELSE calledOff \ {k}
  BY DEF CancelEvent, ReinstateEvent
<1>2. UNCHANGED <<asks, failing, last, paged>>
  BY DEF CancelEvent, ReinstateEvent, Unfetched, paging
<1>3. /\ DOMAIN events' = DOMAIN events
      /\ \A l \in DOMAIN events \ {k} : events'[l] = events[l]
      /\ events'[k] = [status |-> s, startsAt |-> events[k].startsAt, vanished |-> events[k].vanished]
  <2>1. events[k] = [status |-> events[k].status, startsAt |-> events[k].startsAt, vanished |-> events[k].vanished]
    BY <1>1 DEF Inv, TypesInv
  <2>. QED
    BY <1>1, <2>1
<1>4. TypesInv'
  <2>1. ASSUME NEW l \in DOMAIN events
        PROVE  events'[l] = [status |-> events'[l].status, startsAt |-> events'[l].startsAt,
                             vanished |-> events'[l].vanished]
    BY <1>3 DEF Inv, TypesInv
  <2>. QED
    BY <1>2, <1>3, <2>1 DEF Inv, TypesInv
<1>5. CalledOffStaysOff'
  BY <1>1, <1>3 DEF Inv, CalledOffStaysOff
<1>6. AskedIsMarked'
  BY <1>2, <1>3 DEF Inv, AskedIsMarked
<1>. QED
  BY <1>2, <1>4, <1>5, <1>6 DEF Inv, PagesInv, PagedOncePerEpisode

LEMMA MoveKeeps ==
  ASSUME Inv, NEW k \in Key, NEW start \in Time, MoveEvent(k, start)
  PROVE  Inv'
<1>1. /\ k \in DOMAIN events /\ events' = [events EXCEPT ![k].startsAt = start]
      /\ UNCHANGED <<calledOff, asks, failing, last, paged>>
  BY DEF MoveEvent, history, paging
<1>2. /\ DOMAIN events' = DOMAIN events
      /\ \A l \in DOMAIN events \ {k} : events'[l] = events[l]
      /\ events'[k] = [status |-> events[k].status, startsAt |-> start, vanished |-> events[k].vanished]
  <2>1. events[k] = [status |-> events[k].status, startsAt |-> events[k].startsAt, vanished |-> events[k].vanished]
    BY <1>1 DEF Inv, TypesInv
  <2>. QED
    BY <1>1, <2>1
<1>3. TypesInv'
  <2>1. ASSUME NEW l \in DOMAIN events
        PROVE  events'[l] = [status |-> events'[l].status, startsAt |-> events'[l].startsAt,
                             vanished |-> events'[l].vanished]
    BY <1>2 DEF Inv, TypesInv
  <2>. QED
    BY <1>1, <1>2, <2>1 DEF Inv, TypesInv
<1>4. CalledOffStaysOff'
  <2>1. ASSUME NEW l \in DOMAIN events
        PROVE  events'[l].status = events[l].status
    BY <1>2
  <2>2. {l \in DOMAIN events' : events'[l].status = "cancelled"}
          = {l \in DOMAIN events : events[l].status = "cancelled"}
    BY <1>2, <2>1
  <2>. QED
    BY <1>1, <2>2 DEF Inv, CalledOffStaysOff
<1>5. AskedIsMarked'
  BY <1>1, <1>2 DEF Inv, AskedIsMarked
<1>. QED
  BY <1>1, <1>3, <1>4, <1>5 DEF Inv, PagesInv, PagedOncePerEpisode

\* What is called off cannot be deleted, and so the row that keeps it off stays.
LEMMA DeleteKeeps ==
  ASSUME Inv, NEW k \in Key, DeleteEvent(k)
  PROVE  Inv'
<1>1. /\ k \in DOMAIN events /\ events[k].status # "cancelled"
      /\ events' = [l \in DOMAIN events \ {k} |-> events[l]]
      /\ UNCHANGED <<calledOff, asks, failing, last, paged>>
  <2>1. events' = Restrict(events, DOMAIN events \ {k})
    BY DEF DeleteEvent
  <2>. QED
    BY <2>1 DEF DeleteEvent, Deletable, Restrict, Unfetched, history, paging
<1>2. DOMAIN events' = DOMAIN events \ {k} /\ \A l \in DOMAIN events' : events'[l] = events[l]
  BY <1>1
<1>3. TypesInv'
  BY <1>1, <1>2 DEF Inv, TypesInv
<1>4. CalledOffStaysOff'
  BY <1>1, <1>2 DEF Inv, CalledOffStaysOff
<1>5. AskedIsMarked'
  BY <1>1, <1>2 DEF Inv, AskedIsMarked
<1>. QED
  BY <1>1, <1>3, <1>4, <1>5 DEF Inv, PagesInv, PagedOncePerEpisode

\* Booking an outcome queues the page of the turn, if it is one: a first error opens
\* an episode with its page, a further one adds none, a success closes it with its.
LEMMA PagingKeeps ==
  ASSUME Inv, NoteImportResult \/ Restart
  PROVE  Inv'
<1>1. PagesInv'
  <2>1. CASE Restart
    BY <2>1 DEF Restart, PagesInv, PagedOncePerEpisode, Outcome, NoPages
  <2>2. CASE NoteImportResult
    <3>. DEFINE outcome == fetch[Scheduled].at
                before  == IF outcome = "error" /\ last # "error" THEN NoPages ELSE paged
    <3>1. /\ outcome \in {"ok", "error"}
          /\ failing' = (outcome = "error") /\ last' = outcome
          /\ paged' = [kind \in DOMAIN before |->
               IF kind = Queued(outcome) /\ before[kind] < 2 THEN before[kind] + 1 ELSE before[kind]]
      BY <2>2 DEF NoteImportResult
    <3>2. PagesInv
      BY DEF Inv
    <3>3. CASE outcome = "error" /\ last # "error"
      <4>1. before = [failing |-> 0, recovered |-> 0] /\ Queued(outcome) = "failing"
        BY <3>2, <3>3 DEF PagesInv, Queued, NoPages
      <4>2. paged' = [failing |-> 1, recovered |-> 0]
        BY <3>1, <4>1
      <4>. QED
        BY <3>1, <3>3, <4>2 DEF PagesInv, PagedOncePerEpisode, Outcome
    <3>4. CASE outcome = "ok" /\ last = "error"
      <4>1. before = [failing |-> 1, recovered |-> 0] /\ Queued(outcome) = "recovered"
        BY <3>2, <3>4 DEF PagesInv, PagedOncePerEpisode, Queued
      <4>2. paged' = [failing |-> 1, recovered |-> 1]
        BY <3>1, <4>1
      <4>3. paged'.failing = 1 /\ paged'.recovered = 1 /\ last' = "ok" /\ 1 <= 1
        BY <3>1, <3>4, <4>2
      <4>4. PagedOncePerEpisode'
        BY <4>3 DEF PagedOncePerEpisode
      <4>. QED
        BY <3>1, <3>4, <4>2, <4>3, <4>4 DEF PagesInv, Outcome
    <3>5. CASE outcome = last \/ (outcome = "ok" /\ last = "none")
      <4>1. before = paged /\ Queued(outcome) = "none"
        BY <3>1, <3>2, <3>5 DEF PagesInv, Queued
      <4>2. paged' = paged
        <5>1. DOMAIN paged = {"failing", "recovered"}
          BY <3>2 DEF PagesInv
        <5>2. paged' = [failing |-> paged.failing, recovered |-> paged.recovered]
          BY <3>1, <4>1, <5>1
        <5>. QED
          BY <3>2, <5>2 DEF PagesInv
      <4>3. PagedOncePerEpisode'
        <5>1. CASE outcome = last
          BY <3>1, <3>2, <4>2, <5>1 DEF PagesInv, PagedOncePerEpisode
        <5>2. CASE outcome = "ok" /\ last = "none"
          <6>1. paged' = [failing |-> 0, recovered |-> 0] /\ last' = "ok"
            BY <3>1, <3>2, <4>2, <5>2 DEF PagesInv, PagedOncePerEpisode, NoPages
          <6>2. paged'.failing = 0 /\ paged'.recovered = 0 /\ 0 <= 1
            BY <6>1
          <6>. QED
            BY <6>1, <6>2 DEF PagedOncePerEpisode
        <5>. QED
          BY <3>5, <5>1, <5>2
      <4>4. failing' <=> last' = "error"
        BY <3>1
      <4>. QED
        BY <3>1, <3>2, <4>2, <4>3, <4>4 DEF PagesInv, Outcome
    <3>. QED
      BY <3>1, <3>2, <3>3, <3>4, <3>5 DEF PagesInv, Outcome
  <2>. QED
    BY <2>1, <2>2
<1>2. UNCHANGED <<events, calledOff, asks>>
  BY DEF NoteImportResult, Restart, rows, history
<1>. QED
  BY <1>1, <1>2, RowsStand DEF Inv

\* The rest: reading the feed, assigning, editing the source, time.
LEMMA AsideKeeps ==
  ASSUME Inv, UNCHANGED <<events, calledOff, asks, failing, last, paged>>
  PROVE  Inv'
BY RowsStand DEF Inv, PagesInv, PagedOncePerEpisode

LEMMA StepInv == Inv /\ [Next]_vars => Inv'
<1>. SUFFICES ASSUME Inv, [Next]_vars
              PROVE  Inv'
  OBVIOUS
<1>1. CASE Import
  <2>1. ASSUME NEW f \in Fetcher, FetchCalendar(f) \/ FetchBroken(f) \/ FetchFails(f)
        PROVE  Inv'
    BY <2>1, AsideKeeps DEF FetchCalendar, FetchBroken, FetchFails, Read, rows, history, paging
  <2>. QED
    BY <1>1, <2>1, SyncKeeps, PagingKeeps DEF Import
<1>2. CASE People
  <2>1. ASSUME NEW p \in Person, AssignSeries(p) \/ UnassignSeries(p)
        PROVE  Inv'
    BY <2>1, AsideKeeps DEF AssignSeries, UnassignSeries, Unfetched, history, paging
  <2>2. ASSUME NEW k \in Key, NEW p \in Person, Unassign(k, p)
        PROVE  Inv'
    BY <2>2, AsideKeeps DEF Unassign, Unfetched, paging
  <2>. QED
    BY <1>2, <2>1, <2>2, CancelKeeps, MoveKeeps, DeleteKeeps DEF People
<1>3. CASE AdvanceTime \/ \E k \in Key, start \in Start : EditSource(k, start)
  BY <1>3, AsideKeeps DEF AdvanceTime, EditSource, rows, history, paging
<1>4. CASE UNCHANGED vars
  BY <1>4, AsideKeeps DEF vars, rows, history, paging
<1>. QED
  BY <1>1, <1>2, <1>3, <1>4 DEF Next

-----------------------------------------------------------------------------
\* The theorems.

\* No fetch, however stale, broken or early, calls an event off or back on.
THEOREM ImportCallsNothingOff == Spec => []CalledOffStaysOff
<1>1. Inv => CalledOffStaysOff
  BY DEF Inv
<1>. QED
  BY <1>1, InitInv, StepInv, PTL DEF Spec

\* A disappearance asks each of its people once.
THEOREM DisappearanceAsksOnce == Spec => []AskedOnce
<1>1. Inv => AskedOnce
  <2>. SUFFICES ASSUME Inv, NEW x \in Key \X Person
                PROVE  asks[x] <= 1
    BY DEF AskedOnce
  <2>1. asks[x] \in {0, 1}
    BY DEF Inv, TypesInv
  <2>. QED
    BY <2>1
<1>. QED
  BY <1>1, InitInv, StepInv, PTL DEF Spec

\* An episode of a failing feed is one page and its end one more, whatever the
\* fetches' outcomes and the restarts are.
THEOREM EpisodesArePagedOnce == Spec => []PagedOncePerEpisode
<1>1. Inv => PagedOncePerEpisode
  BY DEF Inv, PagesInv
<1>. QED
  BY <1>1, InitInv, StepInv, PTL DEF Spec
=============================================================================
