------------------------------- MODULE Portal -------------------------------
(***************************************************************************)
(* The portal and the proposals, on top of the action links: a person's    *)
(* own page answers, cancels, moves and creates as far as the trust level  *)
(* goes, what it may not do at once becomes a proposal, and so does a new  *)
(* time suggested on the page of an action link.  The operator decides a   *)
(* proposal later, whatever became of its event, its person and their      *)
(* assignment until then.                                                  *)
(*                                                                         *)
(* Abstractions.  A portal token is its number among the person's tokens.  *)
(* A created event gets an id of Event never used before.  Titles, notes,  *)
(* ends and their validation are left out.                                 *)
(***************************************************************************)
EXTENDS Links

CONSTANTS
  MaxOpen        \* MaxOpenProposalsPerPerson

CONSTANTS        \* bounds of the model, not of the code
  MaxProposals,  \* proposals ever filed
  MaxRotations   \* portal tokens replaced per person

ASSUME PortalAssumption ==
  MaxOpen \in Nat \ {0} /\ MaxProposals \in Nat /\ MaxRotations \in Nat

VARIABLES
  trust,         \* each person's trust level
  portal,        \* the number of each person's portal token
  proposals,     \* the rows of state.Proposals, by order of filing
  filed,         \* how many were ever filed
  born,          \* the event ids ever used
  operator       \* history: the last step was the operator's own, or time's

portalVars == <<trust, portal, proposals, filed, born>>
allVars    == <<vars, portalVars, operator>>

Trust    == {"respond", "propose", "direct"}
Kind     == {"cancel", "move", "create"}
Proposal == [person: Person, kind: Kind, event: Event \cup {None}, startsAt: Time,
             decided: {"open", "accepted", "declined"}]

PortalTypeOK ==
  /\ TypeOK
  /\ trust \in [Person -> Trust]
  /\ portal \in [Person -> 0..MaxRotations]
  /\ filed \in 0..MaxProposals
  /\ DOMAIN proposals \subseteq 1..filed /\ proposals \in [DOMAIN proposals -> Proposal]
  /\ DOMAIN events \subseteq born /\ born \subseteq Event
  /\ operator \in BOOLEAN

PortalInit ==
  /\ Init
  /\ trust \in [Person -> Trust]
  /\ portal = [p \in Person |-> 0]
  /\ proposals = [i \in {} |-> i] /\ filed = 0
  /\ born = FirstEvents
  /\ operator = TRUE

-----------------------------------------------------------------------------
\* Filing and applying.

\* A person's proposals that wait for a decision.
Open(p) == {i \in DOMAIN proposals : proposals[i].person = p /\ proposals[i].decided = "open"}

HasRoom(p) == Cardinality(Open(p)) < MaxOpen

\* fileProposalLocked: within the person's budget; a creation is about no event yet.
File(p, kind, e, start) ==
  /\ HasRoom(p)
  /\ filed < MaxProposals /\ filed' = filed + 1
  /\ proposals' = [i \in DOMAIN proposals \cup {filed + 1} |->
       IF i = filed + 1
       THEN [person |-> p, kind |-> kind, event |-> e, startsAt |-> start, decided |-> "open"]
       ELSE proposals[i]]

\* Mutant of Refused: a move of a cancelled event goes through.
RefusedIfGone(kind, e) == kind = "move" /\ e \notin DOMAIN events

\* What applyChangeLocked refuses: a move of a cancelled event.
Refused(kind, e) == kind = "move" /\ events[e].status = "cancelled"

\* moveLocked starts a new cycle.
Moved(e, start) == [events EXCEPT ![e].status = "scheduled", ![e].startsAt = start]

\* applyChangeLocked: cancelling again does nothing, a created event gets the
\* person as its responsible.
Change(kind, p, e, start) ==
  /\ ~Refused(kind, e)
  /\ \/ /\ kind = "cancel"
        /\ events' = [events EXCEPT ![e].status = "cancelled"]
        /\ UNCHANGED <<assigned, born>>
     \/ /\ kind = "move"
        /\ events' = Moved(e, start)
        /\ UNCHANGED <<assigned, born>>
     \/ /\ kind = "create"
        /\ \E new \in Event \ born :
             /\ born' = born \cup {new}
             /\ assigned' = assigned \cup {<<new, p>>}
             /\ events' = [f \in DOMAIN events \cup {new} |->
                  IF f = new THEN [status |-> "scheduled", startsAt |-> start, hasEnd |-> FALSE]
                  ELSE events[f]]

-----------------------------------------------------------------------------
\* The portal.

\* The links, the mail and the clock have no part in what the portal does.
LinksUntouched == UNCHANGED <<now, people, links, revoked, telegram, pressed, mailed, dead, hadTelegram>>
                  /\ acted' = NoAnswer

\* personByPortalLocked: only the newest token resolves.
Holds(p, k) == p \in people /\ k = portal[p]

\* PortalRespond: yes or no to an event one is responsible for.
PortalRespond(p, k, e, a) ==
  /\ Holds(p, k) /\ <<e, p>> \in assigned
  /\ events[e].status # "cancelled"
  /\ events' = [events EXCEPT ![e].status = IF a = "cancel" THEN "cancelled" ELSE "confirmed"]
  /\ operator' = FALSE
  /\ LinksUntouched /\ UNCHANGED <<assigned, portalVars>>

\* PortalSubmit: direct trust applies, propose files, respond may do neither.
PortalSubmit(p, k, kind, e, start) ==
  /\ Holds(p, k)
  /\ IF kind = "create" THEN e = None ELSE <<e, p>> \in assigned
  /\ \/ /\ trust[p] = "direct"
        /\ Change(kind, p, e, start)
        /\ UNCHANGED <<proposals, filed>>
     \/ /\ trust[p] = "propose"
        /\ File(p, kind, e, start)
        /\ UNCHANGED <<events, assigned, born>>
  /\ operator' = FALSE
  /\ LinksUntouched /\ UNCHANGED <<trust, portal>>

\* ProposeMoveViaLink: on every trust level, for whoever holds a usable link.
ProposeMoveViaLink(t, start) ==
  /\ Usable(t)
  /\ File(t.person, "move", t.event, start)
  /\ operator' = FALSE
  /\ LinksUntouched /\ UNCHANGED <<events, assigned, trust, portal, born>>

Decided(i, verdict) == proposals' = [proposals EXCEPT ![i].decided = verdict] /\ UNCHANGED filed

\* Mutant of DecideProposal: decided first, then applied if possible.
DecideFirst(i, accept) ==
  LET pr == proposals[i]
  IN /\ i \in DOMAIN proposals /\ pr.decided = "open"
     /\ Decided(i, IF accept THEN "accepted" ELSE "declined")
     /\ IF accept /\ ~Refused(pr.kind, pr.event)
        THEN Change(pr.kind, pr.person, pr.event, pr.startsAt)
        ELSE UNCHANGED <<events, assigned, born>>
     /\ operator' = FALSE
     /\ LinksUntouched /\ UNCHANGED <<trust, portal>>

\* DecideProposal: a change that is refused leaves the proposal open.
DecideProposal(i, accept) ==
  LET pr == proposals[i]
  IN /\ i \in DOMAIN proposals /\ pr.decided = "open"
     /\ IF accept
        THEN Change(pr.kind, pr.person, pr.event, pr.startsAt) /\ Decided(i, "accepted")
        ELSE Decided(i, "declined") /\ UNCHANGED <<events, assigned, born>>
     /\ operator' = FALSE
     /\ LinksUntouched /\ UNCHANGED <<trust, portal>>

RotatePortal(p) ==
  /\ p \in people /\ portal[p] < MaxRotations
  /\ portal' = [portal EXCEPT ![p] = @ + 1]
  /\ operator' = TRUE
  /\ LinksUntouched /\ UNCHANGED <<events, assigned, trust, proposals, filed, born>>

\* UpdatePerson: another trust level.
SetTrust(p, t) ==
  /\ p \in people /\ trust[p] # t
  /\ trust' = [trust EXCEPT ![p] = t]
  /\ operator' = TRUE
  /\ LinksUntouched /\ UNCHANGED <<events, assigned, portal, proposals, filed, born>>

\* The proposals of a deleted person or event go with it.
Kept(S) == proposals' = [i \in S |-> proposals[i]]

\* Mutant of WithoutEvent: the open ones stay.
WithoutDecided(e) == Kept({i \in DOMAIN proposals : proposals[i].event = e => proposals[i].decided = "open"})

WithoutEvent(e)  == Kept({i \in DOMAIN proposals : proposals[i].event # e})
WithoutPerson(p) == Kept({i \in DOMAIN proposals : proposals[i].person # p})

DeletePersonAndProposals(p) ==
  /\ DeletePerson(p) /\ WithoutPerson(p)
  /\ operator' = TRUE /\ UNCHANGED <<trust, portal, filed, born>>

DeleteEventAndProposals(e) ==
  /\ DeleteEvent(e) /\ WithoutEvent(e)
  /\ operator' = TRUE /\ UNCHANGED <<trust, portal, filed, born>>

-----------------------------------------------------------------------------
PortalNext ==
  \/ Answering /\ operator' = FALSE /\ UNCHANGED portalVars
  \/ (Managing \/ AdvanceTime) /\ operator' = TRUE /\ UNCHANGED portalVars
  \/ \E p \in Person, k \in 0..MaxRotations, e \in Event, a \in Action : PortalRespond(p, k, e, a)
  \/ \E p \in Person, k \in 0..MaxRotations, kind \in Kind, e \in Event \cup {None}, start \in Time :
       PortalSubmit(p, k, kind, e, start)
  \/ \E t \in links, start \in Time : ProposeMoveViaLink(t, start)
  \/ \E i \in DOMAIN proposals, accept \in BOOLEAN : DecideProposal(i, accept)
  \/ \E p \in Person : RotatePortal(p) \/ DeletePersonAndProposals(p)
  \/ \E p \in Person, t \in Trust : SetTrust(p, t)
  \/ \E e \in Event : DeleteEventAndProposals(e)

PortalSpec == PortalInit /\ [][PortalNext]_allVars

-----------------------------------------------------------------------------
\* Properties.

\* "a person holds at most 10 undecided proposals at a time, portal and action
\* links together": whoever files and whatever about (fileProposalLocked).
WithinBudget ==
  \A p \in Person :
    Cardinality({i \in DOMAIN proposals : proposals[i].person = p /\ proposals[i].decided = "open"}) <= MaxOpen

\* A proposal recorded and announced as accepted has happened: its event is
\* cancelled, or on at the proposed time, or there, with the proposer as its
\* responsible (DecideProposal: "a proposal whose change failed stays open").
AcceptedIsDone ==
  [][\A i \in DOMAIN proposals \cap DOMAIN proposals' :
       proposals[i].decided = "open" /\ proposals'[i].decided = "accepted" =>
         LET pr == proposals[i]
         IN CASE pr.kind = "cancel" -> events'[pr.event].status = "cancelled"
              [] pr.kind = "move"   -> events[pr.event].status # "cancelled"
                                       /\ events'[pr.event].startsAt = pr.startsAt
              [] pr.kind = "create" -> \E e \in DOMAIN events' \ DOMAIN events :
                                         <<e, pr.person>> \in assigned']_allVars

\* A cancelled event comes back by the operator's reinstatement only: no answer
\* by link, no portal of any trust and no proposal decided after the
\* cancellation revives it (confirmLocked, moveLocked, applyChangeLocked).
OnlyTheOperatorRevives ==
  [][~operator' => \A e \in DOMAIN events \cap DOMAIN events' :
       events[e].status = "cancelled" => events'[e].status = "cancelled"]_allVars

\* Every proposal can be decided: its person and its event are still there
\* (DeletePerson, DeleteEvent).
NoDanglingProposal ==
  \A i \in DOMAIN proposals :
    /\ proposals[i].person \in people
    /\ proposals[i].kind # "create" => proposals[i].event \in DOMAIN events
=============================================================================
