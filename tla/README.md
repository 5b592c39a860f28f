# stattii, specified

TLA+ specifications of [stattii](../src/README.md), the service that asks the people
responsible for an event to confirm it and makes sure a cancellation reaches everybody.
The service is one Go process: `core.Service` holds the whole `State` in memory behind one
mutex, and every mutation saves itself, most of them after an audit entry (finding 13). Sends to
people run with the mutex free. What makes it hard is what happens between two critical sections, and the sequences of
legal calls no test writes down.

Paths below are relative to `src/` unless they begin with `src/`.

## 1. Inventory

| Component | State | Operations | Interacts with | Hard behaviour | Correct when |
|---|---|---|---|---|---|
| Outbox, delivery passes (`internal/core/outbox.go`, `views.go`) | `State.Outbox`, the in-memory markers `sending`, `sendingTo` | enqueue, collect, send, book, escalate, prune, retry, test | called by the scheduler, `POST /tick`, `SendTest`; fed by every fan-out and page | three overlapping passes, rows changed while a send is out, kills, failing saves | nothing sent twice, nothing lost, nothing stuck in silence |
| Confirmation cycle, dead-man switch (`outbox.go`, `service.go`) | status, start and four marks of an event; responses; assignments | ask, nudge, deadline, confirm, cancel, move, reinstate, assign, unassign | queues into the outbox; reads people's channels | a tick's clock is read before the mutex, cycles restart, staffing changes between ask and deadline | silence cancels only after a real ask; answers are respected; the switch always fires |
| Fan-out, propagation status (`service.go`, `outbox.go`) | `FanOutAt`, `FanOutCount`, `FanOutTxnID`, rows by `TxnID` | fan out, report | called by cancel, move, reinstate | status read from rows that are pruned or superseded | a flip is told to somebody or paged |
| Scheduler (`scheduler.go`) | none | tick each minute, fetch the calendar | calls `Tick` and the import | clock reading before the lock | it keeps ticking |
| Persistence, audit (`store.go`, `service.go`) | `state.json`, `audit.jsonl`, two failure bits | load, save, audit, read | called by every mutation | failing or torn writes, a page queued by a failing write | healthy means durable |
| People, channels (`people.go`, `channels.go`, `delete.go`) | people, addresses, assignments | add, update, unassign, delete, scan | changes whom a cycle can ask | last channel lost while responsible | nobody becomes unreachable unnoticed |
| Action links (`links.go`, `cmd_serve.go`) | links with expiry, revocation | issue, resolve, apply, revoke, verify | confirm and cancel by link or Telegram | verify and apply are two sections; queued asks carry links | a link dies with its assignment |
| Portal, proposals (`portal.go`) | portal tokens, proposals | respond, submit, decide | move, cancel, create by trust level | decided after the event changed | only open proposals on live events take effect |
| Party invitations (`invite.go`) | invite per event, guests | create, revoke, RSVP, remove | guests are fan-out recipients | cap, write-once address | no guest's address is replaced or lost |
| Calendar import (`import.go`) | series, `VanishedAt`, failure episode | fetch, sync, ask about vanished | creates and moves events | fetch without the mutex, applied later | imports move, never cancel |
| Telegram poller, onboarding (`telegram_poller.go`, `telegram_onboard.go`) | update offset, tokens | poll, tap, start | apply an action, bind a chat | backlog after downtime, crashes | a tap is applied at most once |
| Recurrence expansion (`internal/icsimport`) | none | expand a rule | called by the import | COUNT, exclusions, budget | equals the rule's meaning |
| Limiter, admin sessions (`internal/httpapi`) | windows, sessions | allow, take, create, look up, drop | guards both listeners | sweeps and expiry at the boundary | limits are kept, dead sessions stay dead |
| HTTP, channel adapters, ICS feed, command line | none that lasts | translate, send, render | call the service | shutdown drain | stateless |

`PROJECT.json` repeats this list with the state of each part, and lists under `hazards`
what a test would hardly reach, at its line, with the property that would catch it.

## 2. Modules

| Module | What it is | Builds on |
|---|---|---|
| `Outbox` | rows, markers, overlapping passes, retry, escalation, prune, failing saves, kills | |
| `Ledger` | the abstract promise of the outbox: owed until proven, proven until archived | implemented by `Outbox` |
| `OutboxAuditFault` | one failing audit write while results are booked | `Outbox` |
| `EventCycle` | the confirmation cycle of one event, its three passes and every handler that touches it | |
| `EventCycleTimely` | whether the ticks came at the scheduler's pace | `EventCycle` |
| `Propagation` | the transactions of one event, their rows, what the panel says of them | |
| `Invites` | the guest list, whose guests are targets of the transactions | `Propagation` |
| `Links` | action links, taps in two critical sections, revocation in every scope | |
| `Portal` | portal tokens, trust, proposals decided later | `Links` |
| `CalendarSync` | fetch and sync as two steps, people in between, failure episodes | |
| `TelegramPoller` | Telegram's queue, the offset, batches, kills | |
| `Onboarding` | onboarding tokens brought by the poller, and the edits of a person's channels | `TelegramPoller`, which it implements |
| `IcsExpand` | the recurrence expansion and RFC 5545's own definition of a series | |
| `Store` | `Save` and `Audit` system call by system call | |
| `Register` | a durable register, in two actions | implemented by `Store` |
| `MC...` | symmetry, views and inputs for TLC | the module they are named for |
| `...Proofs` | the theorems, section 5 | the module they are named for; `InvitesProofs` also has those of `Propagation`, `PortalProofs` those of `Links`, `EventCycleProofs` that of `EventCycleTimely`, `OutboxProofs` the refinement of `Ledger` |

### Outbox and Ledger

One action per critical section or unlocked step of the code:

| Action | Code |
|---|---|
| `Enqueue(batch)` | any handler that queues rows and saves (`enqueueLocked`, fan-outs, `notifyAdminLocked`) |
| `Tick(w)` | `tickLocked`: what the earlier passes queue, `collectOutboxLocked`, `pruneOutboxLocked`, the save if a `changed` flag was set |
| `SendTest(w, to)` | `enqueueTest`: queue to all channels of a person, take only these rows |
| `SendNext(w)` | one iteration of `deliver`, mutex free; a panic is a failure |
| `Book(w)` | `recordDeliveries` |
| `RetryOutbox(i)` | `RetryOutbox`, which counts the re-arm in `sending` |
| `DeleteEvent` | `DeleteEvent` as far as the outbox sees it (prune keeps rows of a live event) |
| `Crash` | kill and restart from the last file on disk |
| `AdvanceTime` | the clock |

A pass that is between `Tick`/`SendTest` and `Book` holds its copies in `attempt[w]` and
outcomes in `result[w]`. The code identifies rows by random ids and keeps them in creation
order; the model uses the creation number for both. Timestamps are kept as time left or
elapsed and only while some comparison still reads them, which keeps the state space finite
without a clock variable. Each recipient is a (kind, address) pair, as in `recipientKey`.
All messages are about one event, so `eventLive` is a single flag.

`Persist` is `saveLocked`: the write succeeds, or it fails with the old or (directory sync)
the new file in place, and the first failure of an episode pages the admin through the very
outbox that was not saved. That these are the outcomes a save can have is what `Store` shows.
`Tick` and `Book` save under the code's own `changed` flags (`TickChanged`, `Changed`), not
under a comparison of before and after: that the flags are set often enough is what
`HealthyMeansDurable` states and what is proved.

### EventCycle and EventCycleTimely

A single event is enough because the passes treat events one by one. A person has no usable
channel, only malformed ones (still `Reachable` in the code), or a valid one. `Tick(at,
audience)` is the locked half of `Tick` with `at` the clock reading the caller took *before*
it got the mutex (`scheduler.go:24`), so `at` may lag `now` by `MaxWait`; the three passes
run in the code's order on the results of the ones before. `queued` holds what the last step
put into the outbox (asks, notices, admin pages); no action reads it. `AskVanished` is
`askVanishedLocked`: the same question, put to whoever is reachable when the event disappears from
the feed, at any time in a cycle and without a trace in it. It is `queued.vanished`, not
`queued.asks`: `CalendarSync` counts it, once for each disappearance. `cycleSince`, `asked` (the
asks by ticks) and `spoke` are history variables for the properties.

`EventCycleTimely` adds two more, `ticked` and `timely`: whether the clock ever moved without
a tick that did not wait. They restrict nothing, so the other properties are checked over all
behaviours, and `DeadManSwitch`, which needs the pace, over those that keep it. It is a safety
property: no fairness is involved.

The assumption `CycleAssumption` on the leads is `Config.validate` (`service.go:71`). It does
not order `DeadlineLead`, `ReminderLead` and the grace, and neither does the code, so every
theorem holds for odd configurations too; `DeadManSwitch` states the order it needs.

### Propagation and Invites

`Propagation` is one event with the rows of its transactions. `FanOut` writes them and the
event's `FanOutTxnID` and `FanOutCount`; `Send` is a delivery and its booking, which may book
a failure for what the channel accepted; `RetryOutbox`, `Prune` and `DeleteEvent` are the
handlers. `Init` has events of older versions too, whose rows carry no transaction id.
`Items`, `Complete` and `Empty` are what `Propagation` (`outbox.go`) answers. `owed` (the last
transaction's rows as written) and `arrived` (what a channel ever accepted) are history.

`Invites` puts the guest list on top: `CreateInvite`, `RevokeInvite`, `RSVP` with its cap and
write-once address, `RemoveGuest`, and `Propagate`, where the targets of a transaction are the
event's own audience followed by the first guest of every address. Deleting the event takes
the list along.

### Links and Portal

`Links` holds the rows of events, people, assignments and links. Expiry is computed from the
event when a link is looked up (`Usable`), never stored, as in `lookupLinkLocked`. A link page
answers in one step (`ApplyAction`), a Telegram tap in two: `Verify`, which leaves `pressed`,
and `ApplyPress`, with any handler in between. `Ask` is every message that carries a pair of
links. `RevokeLinks`, `Unassign`, `DeletePerson` and `DeleteEvent` withdraw; the history
variable `dead` collects what they withdrew, `mailed` what an ask carried, `hadTelegram` every
chat a person ever had.

`Portal` extends it with trust levels, portal tokens and proposals. `PortalSubmit` applies or
files by trust; `ProposeMoveViaLink` files on any trust level; `DecideProposal` applies a
proposal to whatever its event is by then. `applyChangeLocked` is `Change`. `operator` records
whether the last step was the operator's.

### CalendarSync

A fetch is `FetchCalendar(f)`, which copies the feed as it is then, and `SyncCalendar(f)`,
which applies that copy under the mutex; people, edits of the source, other fetches and a
restart come between. `FetchBroken` returns any part of the feed, `FetchFails` none.
`importing` is what the configuration says, and a restart may change it: no `calendar_source`,
fetches by hand only (`CalendarFetchEvery` is 0, the default) or the automatic fetcher beside
them; `Fetches` says who may then fetch. `NoteImportResult` books the automatic fetch; `last` is
the outcome it booked last, `paged` the pages about the episode that began last, both history. `SyncCalendar` is the whole handler: it creates
with the series' responsible, moves, clears the marker of what is back, marks and asks about
what is missing. `asks` counts the asks of the running disappearance, `calledOff` what people
cancelled and did not reinstate.

### TelegramPoller and Onboarding

`pending` is what Telegram still holds; an update is confirmed, and dropped there, only by a
poll with a higher offset. `SeedOffset` is the start after downtime, `Poll` one long poll whose
answer may be lost on the way back, `Handle(u)` one round over the batch (`batch` is the set of
what is not handled yet, taken least first), `Crash` a kill between any two updates.
`Onboarding` gives the updates a meaning: `HandleStart` is `Handle` and `BindTelegram` in one
step. The panel's form (`OpenForm`, `SubmitForm`) and `person set` (`PersonSet`) read the
channel list in one request and `UpdatePerson` writes it in another.

### IcsExpand

The state is that of `Expand`'s loop: the VEVENT it is at, the two budgets, the results.
`Skip` and `Enumerate` are one turn of the loop. What a rule yields is an operator:
`DailySteps` to `YearlySteps` are the sequence of candidates in the order the code visits
them, with a `None` wherever it only asks the budget, so that cost, COUNT and result are all
read off one sequence (`Counted`). The reference is `Series`: the days that belong to the
recurrence set, by membership, without any enumeration. `InScope` says which events the
comparison is about: rules whose parts the code follows (`Plain`) and that select no day twice
(`Unambiguous`), without an occurrence brought forward from after the window; the others are
findings 9 to 11. Week, months (`FirstOf`, the first day of each) and years have the lengths of
a small calendar in the runs and any length in the proofs.

### Store and Register

`Prepare`, `Rename` and `SyncDir` are the system calls of `Save`; each may fail (`SaveFails`).
`Kill` loses the process, `PowerLoss` also what was not synced, in every combination.
`Mutate` is a handler that audits its change and saves it, `MutateQuietly` one that only saves it.
`made` is history: the audited changes that are in the state in memory and in each state of
`entries`, the states `state.json` may name after the power went. `AuditWrite` and
`AuditSync` are `Audit`, with its rotation. `Register` says: a restart finds the last
acknowledged value or a later one.

## 3. What the runs show

Bounds are those of the cfg of the same name; every passing run ends within three minutes on
two workers. The counts are of distinct states.

| Run | Question | Bounds | Result |
|---|---|---|---|
| `outbox_overlap` | two callers in overlapping passes, re-arms, retries | 2 recipients, 2 passes, 3 rows, 2 attempts | 1.9 M states, all hold |
| `outbox_durable` | failing saves and kills against `Ledger`; is every owed row attempted, every stuck one reported | 1 recipient who is the admin, 2 passes, 1 row plus pages, 1 re-arm, 1 kill, 1 failed save | 52 k states, all hold |
| `outbox_order` | is the order per recipient kept | 1 recipient, 1 pass, 2 rows, 2 attempts | violated, finding 1 |
| `outbox_audit_fault` | is a booking kept in memory when the audit log fails | 1 row plus page | violated, finding 2 |
| `cycle_passes` | asks, answers, silence, flips and the dead-man switch | 1 person with all channel kinds, ticks up to 1 unit late or missing, horizon 6, 1 restart of the cycle | 1.7 M states, all hold |
| `links` | what a link may do, and until when | 1 event, 2 persons, 1 chat, 2 mints, horizon 2 | 447 k states, all hold |
| `portal` | proposals against a changing event | 2 events (1 to be created), 1 person of any trust, 1 proposal, 1 rotation | 1.0 M states, all hold |
| `invites` | what the panel says of two transactions to a changing guest list | 3 guests over time, 3 names, 2 addresses, a cap of 2, 3 rows, 1 attempt, 2 transactions | 535 k states, all hold |
| `calendar` | a feed against the people's decisions | 2 occurrences, 1 person, the automatic fetcher, 1 edit, 1 restart, window 1, horizon 1 | 947 k states, all hold |
| `onboard` | tokens through a poller that is killed and loses answers | 1 person, 2 users, 1 group, 2 tokens, 2 updates, 2 starts | 712 k states, all hold |
| `ics` | is every series the one RFC 5545 defines | 7,000 feeds, week of 3 days, year of 3 months, 3 windows | 46 k states, all hold |
| `store` | is the store a durable register with a true trail | 4 mutations, audited or not, audit files of 2 lines | 2.8 M states, all hold |

**Why the bounds are enough.** Two passes are the smallest number that overlap; a third adds no
new pair, and the theorems cover any number. Three rows let one pass hold two rows of a recipient
while the other competes for a third. Two attempts distinguish a first failure, a retry and
exhaustion; one attempt is enough where only exhaustion matters. In the cycle the leads 4 > 3 > 1
with grace 1 are the smallest that give reminder, nudge and deadline windows a reading each
(`NudgeLead > DeadlineLead + ConfirmGrace`), and the horizon lets a cycle restart in every one of
them. One restart of a cycle is enough for an old and a new one. Two persons on one event are
what a revocation of too wide a scope needs; two mints of a pair give a revoked and a living
token. One proposal and a budget of one meet every state its event can reach; the proof of
`BudgetHolds` covers larger ones. Three guests and two addresses make two share one, two
transactions supersede, and with a third name a list of two is full, so that its cap refuses
somebody; an audience beside the guests is in `MCInvites_list.cfg` and in the proofs. Two
occurrences are needed because a fetch without any occurrence makes no statement: one is missing
only beside one that is there. Two overlapping fetches, the second of which reads a newer feed
and applies it first, are in `MCCalendarSync_two.cfg` (1.8 M states, four minutes) and in the
proofs; the run has one. In `outbox_durable` the one attempt means that no row waits in its
backoff; retries are in `outbox_overlap`. Two updates, two starts and a batch of two put a kill
between two updates of a batch. The small calendar has weeks of three days and months of
different lengths, so that an ordinal, a negative day and a month too short for a day all occur;
the rules of the feeds go through every frequency with each part. Four mutations over files of
two lines rotate twice.

`MaxRearms`, `MaxCrashes`, `MaxSaveFailures`, `MaxMessages`, `MaxCycles`, `MaxWait`, `Horizon`,
`MaxMints`, `MaxProposals`, `MaxRotations`, `MaxRows`, `MaxTxns`, `MaxInvites`, `MaxEdits`,
`MaxRestarts`, `MaxUpdates`, `MaxRuns` and `MaxMutations` are bounds of the models only; each
guards the one action it is named for.

**Deadlock** is checked where something can always happen (the outbox, the cycle, links,
portal, store: a tick, a decision, a kill). The other models do end: a deleted event with a
full clock (`invites`), the last update of the last run (`onboard`), the last VEVENT (`ics`),
the used-up edits with the import off (`calendar`).

**Fairness.** `Outbox` (`FairSpec`): the scheduler's tick is weakly fair because `RunScheduler`
loops on a ticker for as long as the process runs; sends are because each channel has a timeout
and `send` catches panics; booking follows the send in the same goroutine; and time passes.
Nothing is assumed of the operator, of the other callers of a pass or of the disk. Weak fairness
of a tick is enough only because the scheduler's own pass always ends. `CalendarSync`: where the
configuration starts it, which is with a `calendar_source` and a `CalendarFetchEvery` above its
default of 0, `RunCalendarFetcher` fetches again and again, and a feed is not broken for ever,
which is strong fairness of a whole fetch, because broken ones may come in between; applying and
booking it follow in the same goroutine. Nobody is assumed to fetch by hand, so `AgreesAgain`
promises nothing while the import is manual. `TelegramPoller`: `Run` retries after every failure
and the network is not down for ever (strong fairness of an answered call); handling the batch is
local.

**Properties and the defects they exclude.** For each property of a passing run there is in
`PROJECT.json` a changed form of one mapped definition, written beside the original as "Mutant
of", with which TLC reports the property violated.

`QueuedIsAttempted` promises an attempt *or* a row that is out of attempts: an operator's
re-arm whose save failed is forgotten by a kill, and the row is then exhausted, escalated and
not attempted, which is what a restart from the last file means.

**Further instances**, run by hand with `tlc -config <cfg> <module>`, and with `-continue` for the
two that show two violations (both of `MCEventCycle_late.cfg` appear within a minute, after
which it can be stopped):

| Instance | Module | Question | Outcome |
|---|---|---|---|
| `MCEventCycle_late.cfg` | `MCEventCycle` | had the responsible a chance (`ResponsibleHadAChance`); does the nudge reach everyone silent (`NudgeReachesTheSilent`) | violated, 3 and 4 below |
| `MCLinks_responsible.cfg` | `MCLinks` | do only the responsible answer (`OnlyTheResponsibleAnswer`) | violated, 5 |
| `MCInvites_newest.cfg` | `MCInvites` | is the notice shown the newest (`NoticeIsNewest`) | violated, 6 |
| `MCCalendarSync_off.cfg` | `MCCalendarSync` | can everything go once the import is off (`SwitchedOffFrees`) | violated, 7 |
| `MCCalendarSync_two.cfg` | `MCCalendarSync` | the properties of `calendar` with a fetch by hand beside the automatic one | hold |
| `MCOnboarding_edit.cfg` | `MCOnboarding` | does an edit change its slot only (`EditsItsOneSlot`) | violated, 8 |
| `MCIcsExpand_count.cfg` | `MCIcsExpand` | is COUNT met when parts of a rule overlap (`CountIsMet`) | violated, 9 |
| `MCIcsExpand_unfollowed.cfg` | `MCIcsExpand` | is a rule followed or skipped (`FollowedOrSkipped`) | violated, 10 |
| `MCIcsExpand_forward.cfg` | `MCIcsExpand` | is an occurrence brought forward given (`BroughtForwardIsGiven`) | violated, 11 |
| `Store_torn.cfg` | `Store` | is only the torn line skipped (`OnlyTornIsSkipped`); has every state on the disk its entry (`EveryChangeIsJournalled`) | violated, 12 and 13 |
| `MCPropagation_proof.cfg` | `MCPropagation` | types, `EmptyIsTrue` and `CompleteIsTrue`, with rows of older versions | holds |
| `MCInvites_list.cfg` | `MCInvites` | three guests, a full list, a revoked link (`KnownGuestMayAnswer`, `ClosedListStays`) | holds |
| `TelegramPoller.cfg` | `TelegramPoller` | is what arrives while the poller is up applied (`AppliedWhileUp`, liveness) | holds |
| `MCOnboarding_once.cfg` | `MCOnboarding` | is no token wasted (`NeverWasted`), is the old chat gone (`OneChatAfterBinding`) | holds |

## 4. Findings

Two are runs of their own and listed in `PROJECT.json`:

1. **Order per recipient** (`outbox_order`). `collectOutboxLocked` skips a row in its retry
   backoff (`outbox.go:598`) and looks otherwise only at sends that are out at this moment. In
   the run a pass takes the first message alone and its send fails; the next pass skips it,
   takes the second message to the same recipient and delivers it, which is the "it is back on",
   then "it is off" that `outbox.go:563` and `ARCHITECTURE.md:139` say cannot happen. A pass that
   has taken both rows goes on to the second after the first failed (`outbox.go:645`), with the
   same effect; the property leaves that case out, so that it speaks of the selection only.
2. **A failing audit write loses a booking** (`outbox_audit_fault`). `recordDeliveries` holds
   a pointer into the outbox across an `auditLocked` that, on failure, appends a page. If the
   slice moves, the row's booking is lost: a delivered message is sent again.
   `collectOutboxLocked` avoids the same hazard deliberately.

The others are smaller gaps between a comment and the code, each with an instance above:

3. **A replaced responsible is never asked.** The deadline pass looks at when the ask went
   out, not to whom. Hand the event over after the ask and it is cancelled for the silence of
   somebody nobody asked, against the comment on `confirmGrace` (`outbox.go:215`).
4. **An answer of the old cycle counts for the new one.** The scheduler reads its clock before
   it takes the mutex. A confirm and a move that get in between leave an ask stamped no later
   than the old answer, and the nudge skips that person, against `outbox.go:459`. The window
   is the time a tick waits for the mutex.
5. **Links for anybody.** `GenerateLinks` checks only that event and person exist, and
   `ApplyAction` takes the answer of somebody who is not assigned, while `people.go:177` calls
   a link "a capability of the assignment, not of the person".
6. **An old failed notice comes back.** Pruning drops delivered rows and keeps failed ones, so
   the guest list may show the older, failed notice; `invite.go:329` says the last match wins.
7. **Switching the import off frees nothing.** `DeleteEvent` refuses a cancelled or unmarked
   imported event whether or not `calendar_source` is set, against `delete.go:57`.
8. **An edit drops a chat bound meanwhile.** `person set` writes back the list it read one
   request before; `cmd_client.go:590` says it "edits its one slot". The panel's form has the
   same gap.
9. **COUNT and days selected twice.** A day that two parts of a rule select counts twice
   (BYDAY=MO,1MO), and BYMONTH is not sorted: the series ends early or elsewhere.
10. **Rule parts that are ignored.** The DAILY loop looks at no BY part, WEEKLY only at BYDAY,
    MONTHLY not at BYMONTH; such rules expand as if they said less instead of being skipped.
11. **Brought forward from after the window.** Overrides are met only where their original
    start lies in the window; lines 98-102 of `expand.go` provide for the other direction.
12. **An entry on a torn line.** `Audit` appends after a torn line, so the next entry is
    acknowledged and then skipped with it.
13. **Changes without an entry.** `ARCHITECTURE.md:35` has "every mutation: audit + persist" and
    `:65` a journal of every mutation. `GenerateLinks` saves the links it mints without one
    (`links.go:29`), `BindTelegram` does so for a token that has expired or brings the chat that
    is there already (`telegram_onboard.go:121` and `147`), and the escalation of a pass for the
    rows it marks and the page it queues (`outbox.go:585`). What is audited is audited first:
    that is `StateIsExplained`.

Noted while reading, without an instance: an occurrence the source moved out of the fetch
window is reported as missing (`import.go:253`); an occurrence cancelled while its series gets
a responsible comes back unstaffed (`import.go:447`); a restart inside a failure episode pages
again without a recovery (`import.go:129`).

## 5. What is proved

Eight modules of proofs, checked by TLAPS for every value of the constants that satisfies the
named assumption of the model they are about (`OutboxAssumption`, `CycleAssumption`,
`StoreAssumption`, `PropagationAssumption`, `InvitesAssumption`, `LinksAssumption`, `NoTokenAssumption`,
`PortalAssumption`, `PollerAssumption`, `OnboardingAssumption`, `CalendarAssumption`,
`IcsAssumption`, `WholeYears`). They say that bounds and leads are natural numbers, that the null
values are none of the values, what `Config.validate` enforces, and of the calendar that months
follow one another without a gap and make whole years.

**Outbox.** `NoResend` is not inductive: that a pass about to send a row finds it not yet
accepted depends on who else may be carrying it. The invariant `IInv` has the type invariant
and four facts:

- `Carried`: a row a pass carries is in the outbox, owed, marked in `sending`, and addressed
  as it was copied;
- `OneSenderPerRecipient`: no two passes send to one recipient;
- `Counted`: `sendingTo` of a recipient equals the number of sends the one pass has for it,
  so the count is zero only when nobody sends, and clearing a pass's markers clears exactly
  its own;
- `AcceptedIsCarried`: a row a channel accepted and that is still owed sits as a success in
  some pass's results.

Rows are handled by one relation, `Follows`: rows keep their recipient, never become
undelivered again, and an owed row stays. Enqueue, escalation, prune, ageing and a failing
save each follow, and following composes; `QuietStep` then keeps `IInv` for every action that
leaves the passes alone, and `DepartStep`, `SendStep`, `BookStep` and `CrashStep` do the rest.
From `IInv`: `TypeCorrect`, `NeverResent`, `RecipientsExclusive`, `InFlightStaysOwed`.
`HealthyIsDurable` shows in addition that a pass or a booking whose `changed` flag stayed
unset changed no row.

Three more theorems are about single steps and rest on one description of them, `StepKinds`: for
rows in flight and for what has been accepted, every step is quiet (the passes stay as they are
and rows follow), a departing pass, a send, a booking or a kill. `RearmsStand` needs one fact
that `IInv` does not have, `RearmedIsDue`: a row that was re-armed while its send is out is owed
and due, or delivered, for as long as the send is out. `AcceptanceIsBooked` follows from
`Carried`. In `OutboxIsLedger`, a quiet step is `Record` because rows follow (`Follows` says for
this that rows appear only with new ids, and undelivered), a booking because only owed rows are
proven, and a kill is `Record` or, with a failed save behind it, `Forget`; that a kill with a
healthy disk forgets nothing is `HealthyMeansDurable`.

**EventCycle.** `CycleInv` has the type invariant and `AsksAreMarked` (asks of this cycle
were made at the marks `reminderSentAt` and `nudgeSentAt`), `MarkIsAnAsk` (a mark means
somebody was asked then), `AnswerEndsSilence` (after an answer the event is no longer
scheduled) and `NudgeOnlyIfConfigured`. From it: `CycleTypeCorrect`, `NoThirdReminder`,
`AnswersStand`, `SilenceIsFair`. `OnePassPerEvent` is proved from the windows alone
(`PassesExclude`), using the constraint of `Config.validate` on the nudge.

`FlipsAreTold` goes through the passes in their order: a step that turns the event off by the
deadline pass had no reminder pass on the event, so the pages of the two never meet.
`SilenceIsReported` is an argument about time. Its invariant `PaceInv` says where a cycle is
that `DeadManSwitch` speaks of (`InTime`): once the clock and its tick are through `AskBy`, the
first moment at which both the deadline window is open and a tick has seen the cycle, the ask
was stamped by then or the deadline was reported (`AskedOrFired`); once they are through the grace
after that, it was reported (`FiredAfterGrace`). A restart of the cycle moves `AskBy` ahead of
the clock.

**Store.** `SaveInv` says what `Save` has done by each of its calls: the file is synced before
it is renamed, named before it is acknowledged, and nothing is acknowledged while a mutation is
under way. With it every step is a step of `Register` or a stutter (`StoreIsRegister`).
`AuditInv` adds that of the audited changes in the state in memory only the one under way may lack
its entry or its report, and that one not once its audit is over (`EveryStateExplained`). The
changes are followed through `made`, so that a state saved without an entry of its own carries
along what was audited before it.

`TrailStaysRecent` has two halves. That no recent entry is lost needs `TrailInv`: along the file
the ids rise at least as fast as the places (`Files`), so `MaxLines` places hold every
acknowledged entry of the last `MaxLines` mutations (`Recent`), and a rotation drops only older
ones. That the scan of `ReadAudit` returns the newest entries is shown for every limit, by
induction over the data: the scan is a recursive function on the lines, `ScanExists` shows that
the function its definition chooses exists, and `ScanKeepsTheEnd` takes a least line at which
the buffer would not hold the end of what was read (`FirstOfASet`, from the well-foundedness of
the naturals) and refutes it. The statement has the three limits the run has, `ReadsTheNewest`
has all.

**Propagation and Invites.** `OwedInv`: a row of the last transaction that did not arrive is in
the outbox and counted by `InLastFanOut`; `RowsInv`: a row booked as delivered did arrive.
Together they are what `Complete` and the list of items rely on (`CompleteMeansTold`,
`MissingAreShown`, `DeletionLeavesNothingMoving`).

The guest list has `GuestsInv`: the guests are typed, their ids were given out, an id or a name
has one entry and the list is within its cap. `ListSteps` says what a step may make of it:
entries dropped, changed in the answer and in an address that was missing, or one new entry
under a name and an id of its own. From these follow `OneEntryPerName`, `AddressesStand` and, with
the type of the event's life (`Life`), `ClosedListsStand`. Whom a fan-out writes to is a sequence: the
event's own audience, then the first guest of each address. `CountedThrough` shows that a
finite set of numbers is numbered by rank, one place to each, `ListedOnce` that the library's
`SetToSeq` lists a set once, and `OrderIsBijection` puts the two together: every target has
exactly one place and every place one row (`EveryAddressOnce`). With the same facts every step
of the guest list is a step of `Propagation` or leaves it alone (`InvitesArePropagation`), so
that what is proved of the panel holds for guests (`GuestsAreNotForgotten`).

**Links.** That a withdrawn token never acts needs that no later mint yields it again.
`RowsInv` has `Numbered` (the rows of a pair and answer are numbered within their count),
`DeadStay` (a withdrawn token is revoked, or its person or event is gone, and ids do not come
back), `MailedAreThere` and `OneLiveToken`; `TapInv` has whose chat a checked tap came from.
From them: `LinksTypeCorrect`, `LiveTokenIsOne`, `MailedLinksAnswer`, `WithdrawnIsDead`,
`TapsAreOwn`.

**Portal.** `EventsInv` ties assignments to events and people that are there, `ProposalsInv`
does so for proposals and holds the budget. `ProposalsAreDecidable`, `BudgetHolds`,
`AcceptedMeansDone`, `RevivalIsTheOperators`. They do not go by way of the invariant of
`Links`: `Portal` has events the model of the links alone never creates.

**Onboarding.** The poller's invariant is about what a poll can still return: `KeptIsNew` (all
of it came in this run and after everything applied) and `BatchIsKept`. `UpdatesInOrder` and
`BacklogIsDropped` follow. `OnboardingUsesThePoller` shows that every step of the composition
is a step of the poller or leaves it alone, so both carry over. `TokensInv` says that a token
with a row is its person's newest and one that bound a chat has no row: `TokensAreSingleUse`,
`ReplacedTokensAreDead`.

**Calendar.** The invariant is `CalledOffStaysOff` itself, `AskedIsMarked` (who was asked was
asked about the disappearance the row still records) and `PagesInv` (the flag is the outcome
booked last, and the pages are those of its episode). `ImportCallsNothingOff`, `DisappearanceAsksOnce`, `EpisodesArePagedOnce`
hold for any number of callers inside a fetch.

**IcsExpand.** The proofs are in three layers.

- *Walks.* A sequence of steps is looked at through two questions, which days are among them
  (`DaysIn`) and whether these rise (`Rising`). Both survive concatenation (`Joined`) and the
  library's `FlattenSeq`, which is an induction over data: `FlatExists` shows that the function
  in its definition exists, and `FlatCollects` takes a least place at which the claim fails and
  refutes it. `InOrderLists` and `OrderRearranges` say that a set is listed in its order and that
  sorting is a bijection of the places. For BYDAY, BYMONTHDAY and BYSETPOS `NthsPick` turns "the
  n-th of a list" into "the day with n up to it", the form in which RFC 5545 says it.
- *Walks and series.* `Follows(e, steps, lower, end)` says that the walk has only days of the
  series, and all of them from `lower` to `end`. `DailyFollows` and `WeeklyFollows` have the
  arithmetic of the fast-forward, `MonthlyFollows` and `YearlyFollows` that of months and years.
  `StartsOfTheSeries` adds UNTIL and COUNT: the first COUNT of a rising walk from the anchor are
  the first COUNT of the series, and the fast-forward is taken only without COUNT (`Lower`).
  `GivenIsPromised` adds EXDATE, RDATE and overrides; `WindowBegins` is why an override from
  before the window is not lost.
- *The loop.* `ExpandInv` (budgets, `skipped` and `OwnAllowance`) and `ResultInv`: the results are
  in order, each is of an event that is done, and those of a done event are the operator's
  `Occurrences`, however often the results were sorted since (`HasItsOwn`).

From them `NeighboursDoNotPay`, `OccurrencesAreInOrder` and `SeriesAreExpanded`, for any
calendar, feed, window and budget. The proof of `WeeklyFollows` found a condition that the rules
of the runs had not asked for: RFC 5545 forbids an ordinal in a weekly BYDAY, the code takes
one and ignores it, and `Plain` excludes it.

**Only model-checked.** Liveness (`QueuedIsAttempted`, `StuckIsReported`, `AgreesAgain`,
`AppliedWhileUp`) and `KnownGuestMayAnswer`: fairness and `ENABLED` are beyond TLAPS. Induction
over data with an operator in it is, too; where one is over a concrete function, as in the scan
of `Store` and in `FlattenSeq`, a least counterexample does it. Type correctness of some
components is a conjunct of the invariant rather than a theorem of its own. The two violated
runs and the instances run by hand in section 3 are about what does *not* hold and have nothing
to prove.

## 6. Not modelled

- **Rate limiter, admin sessions.** Two maps, each behind its own mutex, each operation one
  critical section: there is nothing to interleave, and a unit test reaches their boundaries.
- **HTTP routing and pages, ICS feed, command line.** Translation of requests into calls of the
  service, which are the handler actions, and rendering. The one place where a page and a
  command have state of their own, the edit of a person, is in `Onboarding`.
- **Channel protocols, webhooks, redaction.** A send succeeds or fails.
- **Shutdown.** `main` waits for the goroutines and both listeners. The listeners' drain has a
  deadline of five seconds, so a pass that `POST /tick` began may be killed after its sends and
  before its booking; that is the `Crash` of `Outbox`.
- **Reading iCalendar text, time zones, wall clock times.** `IcsExpand` starts from parsed
  rules and counts whole days.
- **Titles, notes, locations, sequence numbers.** No property tells them apart.
