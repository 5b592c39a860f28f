------------------------------ MODULE Invites ------------------------------
(***************************************************************************)
(* Party invitations, on top of the propagation: one shared link per event *)
(* by which anybody enters a name, an answer and perhaps an address; the   *)
(* guests with an address hear of every cancellation, move and             *)
(* reinstatement, whatever became of the link.                             *)
(*                                                                         *)
(* Abstractions.  A name is a class of spellings that EqualFold takes for  *)
(* the same, an address one of spellings ToLower does; both parse.  The    *)
(* note to the host is left out.  An invite token is its number.           *)
(***************************************************************************)
EXTENDS Propagation, SequencesExt

CONSTANTS
  Name, Address, None,
  GuestId,       \* ids of guests, never reused; the targets of their notices
  Audience,      \* the other targets: broadcasts and channels of the responsible
  MaxGuests,     \* MaxGuestsPerEvent
  Slack          \* eventExpiry after the event's end, in clock units

CONSTANT         \* bound of the model, not of the code
  MaxInvites     \* invite links minted

ASSUME InvitesAssumption ==
  /\ GuestId \subseteq Target /\ Audience = Target \ GuestId
  /\ None \notin Address /\ MaxGuests \in Nat /\ MaxInvites \in Nat
  /\ Slack \in 0..Retention

VARIABLES
  guests,        \* the event's guests, in the order they registered
  invite,        \* the number of the link not revoked, 0 without one
  minted,        \* links ever minted
  entered,       \* guest ids ever used
  latest         \* history: the last transaction with a row for a guest

guestVars == <<guests, invite, minted, entered, latest>>

Guest == [id: GuestId, name: Name, email: Address \cup {None}, status: {"yes", "no"}]
Guests == ToSet(guests)

InvitesTypeOK ==
  /\ TypeOK
  /\ guests \in Seq(Guest) /\ Len(guests) <= Cardinality(GuestId)
  /\ minted \in 0..MaxInvites /\ invite \in {0, minted}
  /\ {g.id : g \in Guests} \subseteq entered /\ entered \subseteq GuestId
  /\ latest \in [GuestId -> 0..MaxTxns]

InvitesInit ==
  /\ status = "scheduled" /\ until = 1
  /\ fanOut = [txn |-> 0, count |-> 0, known |-> FALSE]
  /\ outbox = [i \in {} |-> i] /\ created = 0 /\ owed = {} /\ arrived = {}
  /\ guests = <<>> /\ invite = 0 /\ minted = 0 /\ entered = {}
  /\ latest = [g \in GuestId |-> 0]

-----------------------------------------------------------------------------
\* The link and the list.

\* CreateInvite gives out the link there is, or a new one.
CreateInvite ==
  /\ status # "deleted" /\ invite = 0
  /\ minted < MaxInvites /\ minted' = minted + 1 /\ invite' = minted'
  /\ UNCHANGED <<vars, guests, entered, latest>>

\* RevokeInvite leaves the guests alone.
RevokeInvite ==
  /\ invite # 0
  /\ invite' = 0
  /\ UNCHANGED <<vars, guests, minted, entered, latest>>

\* lookupInviteLocked: not revoked, not long over.
Resolves(k) == k = invite /\ k # 0 /\ status # "deleted" /\ until >= -Slack

\* Mutant of Found: only entries with an address are recognised.
FoundWithAddress(name) == {i \in DOMAIN guests : guests[i].name = name /\ guests[i].email # None}

\* The place of the name's entry.
Found(name) == {i \in DOMAIN guests : guests[i].name = name}

\* Mutant of Kept: the newest address counts.
KeptNewest(old, given) == IF given # None THEN given ELSE old

\* A stored address is neither cleared nor swapped.
Kept(old, given) == IF old = None THEN given ELSE old

\* Mutant of Admits: one more than the cap.
AdmitsOneMore(name) == Found(name) # {} \/ Len(guests) <= MaxGuests

\* The cap gates new guests only.
Admits(name) == Found(name) # {} \/ Len(guests) < MaxGuests

\* RSVP: an answer under a known name changes that entry.
RSVP(k, name, email, answer) ==
  /\ Resolves(k)
  /\ status # "cancelled"
  /\ Admits(name)
  /\ \/ /\ Found(name) # {}
        /\ \E i \in Found(name) :
             guests' = [guests EXCEPT ![i].status = answer, ![i].email = Kept(@, email)]
        /\ UNCHANGED entered
     \/ /\ Found(name) = {}
        /\ \E id \in GuestId \ entered :
             /\ entered' = entered \cup {id}
             /\ guests' = Append(guests, [id |-> id, name |-> name, email |-> email, status |-> answer])
  /\ UNCHANGED <<vars, invite, minted, latest>>

RemoveGuest(i) ==
  /\ i \in DOMAIN guests
  /\ guests' = RemoveAt(guests, i)
  /\ UNCHANGED <<vars, invite, minted, entered, latest>>

-----------------------------------------------------------------------------
\* The notices.

\* Mutant of Told: one notice per name.
ToldByName == {i \in DOMAIN guests : guests[i].email # None}

\* The entries a fan-out writes to: the first one of every address, whatever the
\* answer was.
Told == {i \in DOMAIN guests :
           /\ guests[i].email # None
           /\ \A j \in 1..(i - 1) : guests[j].email # guests[i].email}

\* The k-th of them, in the order of the list.
Nth(k) == CHOOSE i \in Told : Cardinality({j \in Told : j <= i}) = k

ToldIds == [k \in 1..Cardinality(Told) |-> guests[Nth(k)].id]

\* A propagation: broadcasts and responsible people first, then the guests.
Propagate ==
  LET order == SetToSeq(Audience) \o ToldIds
      told  == ToSet(order)
  IN /\ Cancel(told, order) \/ Reinstate(told, order) \/ Move(told, order)
     /\ latest' = [g \in GuestId |-> IF g \in ToSet(ToldIds) THEN fanOut'.txn ELSE latest[g]]
     /\ UNCHANGED <<guests, invite, minted, entered>>

\* The event takes its link and its guests along.
DeleteEventAndGuests ==
  /\ DeleteEvent
  /\ guests' = <<>> /\ invite' = 0
  /\ UNCHANGED <<minted, entered, latest>>

\* The row behind the notice the operator sees next to a guest: the last one
\* written, of those still there.
LastNotice(g) ==
  LET ids == {i \in DOMAIN outbox : outbox[i].to = g /\ outbox[i].purpose \in Notice}
  IN {i \in ids : \A j \in ids : j <= i}

InvitesNext ==
  \/ CreateInvite \/ RevokeInvite
  \/ \E k \in 1..MaxInvites, name \in Name, email \in Address \cup {None}, answer \in {"yes", "no"} :
       RSVP(k, name, email, answer)
  \/ \E i \in 1..Cardinality(GuestId) : RemoveGuest(i)
  \/ Propagate \/ DeleteEventAndGuests
  \/ (Delivering \/ AdvanceTime) /\ UNCHANGED guestVars

InvitesSpec == InvitesInit /\ [][InvitesNext]_<<vars, guestVars>>

-----------------------------------------------------------------------------
\* Properties.

\* A name has one entry, an id one guest, and the public list never outgrows its
\* cap (RSVP: "upsert by normalised name", MaxGuestsPerEvent).
ListIsSound ==
  /\ \A i, j \in DOMAIN guests :
       guests[i].name = guests[j].name \/ guests[i].id = guests[j].id => i = j
  /\ Len(guests) <= MaxGuests

\* "An existing guest must always be able to change their answer", the full list
\* included, as long as the link is open and the party on (RSVP).
KnownGuestMayAnswer ==
  invite # 0 /\ status = "scheduled" /\ until >= -Slack =>
    \A g \in Guests : \A answer \in {"yes", "no"} : ENABLED RSVP(invite, g.name, None, answer)

\* An address once stored stays with its guest, whoever types the guest's name:
\* the notice of a cancellation is neither lost nor redirected (RSVP).
AddressStays ==
  [][\A g \in Guests, h \in ToSet(guests') :
       g.id = h.id /\ g.email # None => h.email = g.email]_<<vars, guestVars>>

\* Once the list is closed (revoked, expired, cancelled), nobody gets on it and
\* nobody's answer changes, whatever links were given out before.
ClosedListStays ==
  [][invite = 0 \/ status # "scheduled" \/ until < -Slack => ToSet(guests') \subseteq Guests]_<<vars, guestVars>>

\* Every propagation writes to every address on the list exactly once: decliners,
\* guests of a revoked link and names sharing an address included (fanOutLocked).
OneNoticePerAddress ==
  [][fanOut'.txn # fanOut.txn =>
       \A a \in {g.email : g \in Guests} \ {None} :
         Cardinality({i \in owed' : \E g \in Guests : g.id = outbox'[i].to /\ g.email = a}) = 1]_<<vars, guestVars>>

\* "Newest propagation notice per guest; the outbox is append-only, so the last
\* match wins": the notice shown is of the last transaction that wrote to the
\* guest (Invite).  Pruning drops delivered rows and keeps older failed ones.
NoticeIsNewest ==
  \A g \in Guests : \A i \in LastNotice(g.id) : outbox[i].txn = latest[g.id]
=============================================================================
