------------------------------- MODULE Links -------------------------------
(***************************************************************************)
(* Action links: the confirm/cancel pair of one person for one event.      *)
(* Whoever holds a token may answer with it; a tap on a Telegram button is *)
(* checked against the person's chat first, in a critical section of its   *)
(* own (telegramApply), so the link, its person and its event may change   *)
(* between the check and the answer.  Expiry is computed from the event    *)
(* when a link is looked up, never stored.                                 *)
(*                                                                         *)
(* Abstractions.  A token is known by what it was minted for and how often *)
(* that was done before; the code's tokens are random and never reused.    *)
(* Every event has no end or one Length after its start, and a move keeps  *)
(* which.  Responses, fan-outs, propagation transactions and the audit     *)
(* trail are left out, series and imported events are module CalendarSync. *)
(***************************************************************************)
EXTENDS Integers, FiniteSets

CONSTANTS
  Event, Person,
  FirstEvents, \* the events there are to begin with
  User,        \* Telegram user ids; a private chat has the id of its user
  Group,       \* chats without a user's id: groups, channels, @names
  None,        \* no token, no user
  Length,      \* how long an event with an end lasts
  Slack        \* the six hours a link outlives the start of one without

CONSTANTS      \* bounds of the model, not of the code
  MaxMints,    \* tokens minted per event, person and action
  Horizon      \* the last clock reading

ASSUME LinksAssumption ==
  /\ FirstEvents \subseteq Event
  /\ Length \in Nat /\ Slack \in Nat /\ Horizon \in Nat \ {0} /\ MaxMints \in Nat \ {0}
  /\ None \notin User /\ User \cap Group = {}

VARIABLES
  now,         \* the clock
  events,      \* the rows of state.Events, by id
  people,      \* who has a row in state.People
  assigned,    \* state.Assignments
  links,       \* the tokens that have a row in state.Links
  revoked,     \* those with RevokedAt set
  telegram,    \* each person's Telegram addresses
  pressed,     \* a tap between VerifyTelegramActor and ApplyAction
  mailed,      \* history: the tokens some ask carried
  dead,        \* history: the tokens whose capability was withdrawn
  hadTelegram, \* history: every Telegram address a person ever had
  acted        \* history: the answer the last step applied

state   == <<now, events, people, assigned, links, revoked, telegram, pressed>>
history == <<mailed, dead, hadTelegram, acted>>
vars    == <<state, history>>

Action == {"confirm", "cancel"}
Time   == 1..Horizon
Token  == [event: Event, person: Person, action: Action, mint: 1..MaxMints]
Row    == [status: {"scheduled", "confirmed", "cancelled"}, startsAt: Time, hasEnd: BOOLEAN]
Chat   == User \cup Group

ASSUME NoTokenAssumption == None \notin Token

NoAnswer == [token |-> None, from |-> None]

\* From None: a link page, where the token is all there is.
Answer == [token: Token, from: User \cup {None}]

TypeOK ==
  /\ now \in Time
  /\ DOMAIN events \subseteq Event /\ events \in [DOMAIN events -> Row]
  /\ people \subseteq Person
  /\ assigned \subseteq Event \X Person
  /\ links \subseteq Token /\ revoked \subseteq links
  /\ telegram \in [Person -> SUBSET Chat]
  /\ pressed \in Answer \cup {NoAnswer}
  /\ mailed \subseteq Token /\ dead \subseteq Token
  /\ hadTelegram \in [Person -> SUBSET Chat]
  /\ acted \in Answer \cup {NoAnswer}

\* Everybody has at most one Telegram address here; several are several chats
\* whose taps are checked alike.
Init ==
  /\ now = 1
  /\ events \in [FirstEvents -> [status: {"scheduled"}, startsAt: Time, hasEnd: BOOLEAN]]
  /\ people = Person
  /\ assigned = {} /\ links = {} /\ revoked = {}
  /\ telegram \in [Person -> {{}} \cup {{c} : c \in Chat}]
  /\ pressed = NoAnswer
  /\ mailed = {} /\ dead = {} /\ hadTelegram = telegram /\ acted = NoAnswer

-----------------------------------------------------------------------------
\* Looking up, minting and revoking.

EventEnd(e)  == IF events[e].hasEnd THEN events[e].startsAt + Length ELSE events[e].startsAt

EventExpiry(e) == events[e].startsAt + IF events[e].hasEnd THEN Length ELSE Slack

\* lookupLinkLocked: the row exists, is not revoked, and its event is not over.
Usable(t) ==
  /\ t \in links \ revoked
  /\ t.event \in DOMAIN events /\ t.person \in people
  /\ now <= EventExpiry(t.event)

Pair(e, p)    == {t \in links : t.event = e /\ t.person = p}
Live(e, p, a) == {t \in Pair(e, p) \ revoked : t.action = a}

\* linksLocked mints for the actions without a live token and reuses the rest.
Missing(e, p) == {a \in Action : Live(e, p, a) = {}}

MintOf(e, p, a) == 1 + Cardinality({t \in Pair(e, p) : t.action = a})

Fresh(e, p) == {[event |-> e, person |-> p, action |-> a, mint |-> MintOf(e, p, a)] :
                  a \in Missing(e, p)}

CanMint(e, p) == \A a \in Missing(e, p) : MintOf(e, p, a) <= MaxMints

\* The pair linksLocked returns.
HandedOut(e, p) ==
  Fresh(e, p) \cup {t \in Pair(e, p) : t.action \notin Missing(e, p) /\ t \notin revoked}

Mint(e, p) == links' = links \cup Fresh(e, p)

\* What a revocation is about: a set of events and a set of persons.
Withdrawn(es, ps) == {t \in links : t.event \in es /\ t.person \in ps}

\* Mutants of Revoke: of a pair, only the event counts; nothing is revoked.
RevokeEvent(es, ps) == /\ revoked' = revoked \cup {t \in links : t.event \in es}
                       /\ dead' = dead \cup Withdrawn(es, ps)
RevokeNone(es, ps)  == revoked' = revoked /\ dead' = dead \cup Withdrawn(es, ps)

\* revokeLinksLocked.
Revoke(es, ps) == /\ revoked' = revoked \cup Withdrawn(es, ps)
                  /\ dead' = dead \cup Withdrawn(es, ps)

-----------------------------------------------------------------------------
\* Answering.

\* confirmLocked and cancelLocked by link: a cancelled event stays cancelled,
\* confirming it is refused and cancelling it again does nothing.
Answers(t) ==
  [events EXCEPT ![t.event].status =
     IF @ = "cancelled" \/ t.action = "cancel" THEN "cancelled" ELSE "confirmed"]

Accepts(t) == events[t.event].status # "cancelled"

\* What an answer with token t from u leads to; a refused one changes nothing.
Apply(t, u) ==
  IF Usable(t)
  THEN events' = Answers(t) /\ acted' = IF Accepts(t) THEN [token |-> t, from |-> u] ELSE NoAnswer
  ELSE events' = events /\ acted' = NoAnswer

\* ApplyAction: the POST of a link page, by whoever has the link.
ApplyAction(t) ==
  /\ Usable(t) /\ Apply(t, None)
  /\ UNCHANGED <<now, people, assigned, links, revoked, telegram, pressed, mailed, dead, hadTelegram>>

\* Mutant of Entitled: with no chat to compare it with, a tap is let through.
EntitledIfNone(p, u) == u \in telegram[p] \/ telegram[p] \cap User = {}

\* VerifyTelegramActor: the tap came from the person's own chat, or the person
\* has a chat in which that cannot be told.
Entitled(p, u) == u \in telegram[p] \/ telegram[p] \cap Group # {}

Verify(t, u) ==
  /\ pressed = NoAnswer
  /\ Usable(t) /\ Entitled(t.person, u)
  /\ pressed' = [token |-> t, from |-> u]
  /\ acted' = NoAnswer
  /\ UNCHANGED <<now, events, people, assigned, links, revoked, telegram, mailed, dead, hadTelegram>>

\* The second half of telegramApply.
ApplyPress ==
  /\ pressed # NoAnswer
  /\ Apply(pressed.token, pressed.from)
  /\ pressed' = NoAnswer
  /\ UNCHANGED <<now, people, assigned, links, revoked, telegram, mailed, dead, hadTelegram>>

-----------------------------------------------------------------------------
\* The other handlers.

Quietly == acted' = NoAnswer /\ UNCHANGED <<now, pressed>>

\* GenerateLinks: any event and any person.
GenerateLinks(e, p) ==
  /\ e \in DOMAIN events /\ p \in people /\ CanMint(e, p)
  /\ Mint(e, p)
  /\ Quietly
  /\ UNCHANGED <<events, people, assigned, revoked, telegram, mailed, dead, hadTelegram>>

\* enqueueAskLocked and askVanishedLocked: a message with the pair's tokens to a
\* person responsible for an event that is still on.
Ask(e, p) ==
  /\ e \in DOMAIN events /\ <<e, p>> \in assigned /\ CanMint(e, p)
  /\ events[e].status # "cancelled" /\ now <= events[e].startsAt
  /\ Mint(e, p)
  /\ mailed' = mailed \cup HandedOut(e, p)
  /\ Quietly
  /\ UNCHANGED <<events, people, assigned, revoked, telegram, dead, hadTelegram>>

\* RevokeLinks: one pair, one event or one person.
RevokeLinks(es, ps) ==
  /\ es \subseteq DOMAIN events \/ es = Event
  /\ ps \subseteq people \/ ps = Person
  /\ Revoke(es, ps)
  /\ Quietly
  /\ UNCHANGED <<events, people, assigned, links, telegram, mailed, hadTelegram>>

Assign(e, p) ==
  /\ e \in DOMAIN events /\ p \in people
  /\ assigned' = assigned \cup {<<e, p>>}
  /\ Quietly
  /\ UNCHANGED <<events, people, links, revoked, telegram, mailed, dead, hadTelegram>>

\* Unassign: the links go with the assignment.
Unassign(e, p) ==
  /\ <<e, p>> \in assigned
  /\ assigned' = assigned \ {<<e, p>>}
  /\ Revoke({e}, {p})
  /\ Quietly
  /\ UNCHANGED <<events, people, links, telegram, mailed, hadTelegram>>

\* DeletePerson: refused while responsible for something that is not over.
DeletePerson(p) ==
  /\ p \in people
  /\ \A e \in DOMAIN events : <<e, p>> \in assigned => EventEnd(e) < now
  /\ people' = people \ {p}
  /\ assigned' = {a \in assigned : a[2] # p}
  /\ links' = {t \in links : t.person # p} /\ revoked' = {t \in revoked : t.person # p}
  /\ telegram' = [telegram EXCEPT ![p] = {}]
  /\ dead' = dead \cup Withdrawn(Event, {p})
  /\ Quietly
  /\ UNCHANGED <<events, mailed, hadTelegram>>

\* DeleteEvent: refused while the event is still on.
DeleteEvent(e) ==
  /\ e \in DOMAIN events
  /\ events[e].status = "cancelled" \/ EventEnd(e) < now
  /\ events' = [f \in DOMAIN events \ {e} |-> events[f]]
  /\ assigned' = {a \in assigned : a[1] # e}
  /\ links' = {t \in links : t.event # e} /\ revoked' = {t \in revoked : t.event # e}
  /\ dead' = dead \cup Withdrawn({e}, Person)
  /\ Quietly
  /\ UNCHANGED <<people, telegram, mailed, hadTelegram>>

\* UpdatePerson, BindTelegram: other Telegram addresses.
UpdatePerson(p, chats) ==
  /\ p \in people /\ telegram[p] # chats
  /\ telegram' = [telegram EXCEPT ![p] = chats]
  /\ hadTelegram' = [hadTelegram EXCEPT ![p] = @ \cup chats]
  /\ Quietly
  /\ UNCHANGED <<events, people, assigned, links, revoked, mailed, dead>>

\* ConfirmEvent, CancelEvent, MoveEvent and ReinstateEvent by the operator, or by
\* a person through the portal.
Decide(e, status, start) ==
  /\ e \in DOMAIN events
  /\ \/ events[e].status # "cancelled" /\ status \in {"confirmed", "cancelled"} /\ start = events[e].startsAt
     \/ events[e].status # "cancelled" /\ status = "scheduled"
     \/ events[e].status = "cancelled" /\ status = "scheduled" /\ start = events[e].startsAt
  /\ events' = [events EXCEPT ![e].status = status, ![e].startsAt = start]
  /\ Quietly
  /\ UNCHANGED <<people, assigned, links, revoked, telegram, mailed, dead, hadTelegram>>

AdvanceTime ==
  /\ now < Horizon /\ now' = now + 1
  /\ acted' = NoAnswer
  /\ UNCHANGED <<events, people, assigned, links, revoked, telegram, pressed, mailed, dead, hadTelegram>>

Scopes == {<<{e}, {p}>> : e \in Event, p \in Person} \cup {<<{e}, Person>> : e \in Event}
            \cup {<<Event, {p}>> : p \in Person}

\* By whoever holds a link or taps a button.
Answering ==
  \/ \E t \in links : ApplyAction(t)
  \/ \E t \in links, u \in User : Verify(t, u)
  \/ ApplyPress

\* By the operator and by the ticks, but for the deletions.
Managing ==
  \/ \E e \in Event, p \in Person : GenerateLinks(e, p) \/ Ask(e, p)
  \/ \E s \in Scopes : RevokeLinks(s[1], s[2])
  \/ \E e \in Event, p \in Person : Assign(e, p) \/ Unassign(e, p)
  \/ \E p \in Person, chats \in {{}} \cup {{c} : c \in Chat} : UpdatePerson(p, chats)
  \/ \E e \in Event, s \in {"scheduled", "confirmed", "cancelled"}, start \in Time : Decide(e, s, start)

Next ==
  \/ Answering
  \/ Managing
  \/ \E p \in Person : DeletePerson(p)
  \/ \E e \in Event : DeleteEvent(e)
  \/ AdvanceTime

Spec == Init /\ [][Next]_vars

-----------------------------------------------------------------------------
\* Properties.

\* A person has one live token per event and answer: the reminder, the nudge and
\* the ask about a vanished entry carry the same pair, and revoking it revokes
\* all there is (linksLocked: "answering either message lands on the same
\* decision").
OneLiveToken ==
  \A s, t \in links \ revoked :
    s.event = t.event /\ s.person = t.person /\ s.action = t.action => s = t

\* A capability that was withdrawn - by a revocation of any scope, an
\* unassignment or a deletion - never answers again: not when its person is
\* assigned again and asked with new links, not by a tap that was checked
\* before the withdrawal (revokeLinksLocked, linksLocked, telegramApply).
WithdrawnNeverActs == [][acted'.token \notin dead]_vars

\* What was mailed and not withdrawn keeps answering until the event is over,
\* however the event was moved, reinstated or asked about in between: no
\* revocation takes more than its scope (eventExpiry, revokeLinksLocked).
MailedKeepsWorking ==
  \A t \in mailed \ dead :
    now <= events[t.event].startsAt + (IF events[t.event].hasEnd THEN Length ELSE Slack) => Usable(t)

\* A tap on a button is an answer only of a chat that was the person's own, or
\* of somebody in a chat the person shares (VerifyTelegramActor).
StrangerNeverActs ==
  [][acted'.from # None =>
       \/ acted'.from \in hadTelegram[acted'.token.person]
       \/ hadTelegram[acted'.token.person] \cap Group # {}]_vars

\* "a link is a capability of the assignment, not of the person" (Unassign):
\* whoever answers by link is responsible for the event.
OnlyTheResponsibleAnswer ==
  [][acted' # NoAnswer => <<acted'.token.event, acted'.token.person>> \in assigned]_vars
=============================================================================
