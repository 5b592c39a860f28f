----------------------------- MODULE PortalProofs ----------------------------
(***************************************************************************)
(* What holds of every action link, and of proposals and what they change, *)
(* for any events, people, chats, trust levels, budgets and any number of  *)
(* tokens.  The invariant of the links says where a withdrawn token can    *)
(* be: it is revoked, or its person or event is gone for good; and that a  *)
(* new token is none of the old ones, since the rows of a pair are         *)
(* numbered.  That of the portal ties its tables together: who is          *)
(* assigned, and what a proposal is about, is there.                       *)
(***************************************************************************)
EXTENDS Portal, FiniteSetTheorems, TLAPS

-----------------------------------------------------------------------------
\* Links.

\* The tokens ever minted for one pair and answer that still have a row.
Minted(e, p, a) == {t \in Pair(e, p) : t.action = a}

Numbered == \A t \in links : t.mint <= Cardinality(Minted(t.event, t.person, t.action))

Gone(t) == t.person \notin people \/ t.event \notin DOMAIN events

DeadStay == \A t \in dead : (t \in revoked \/ t \notin links) /\ (t \in links \/ Gone(t))

MailedAreThere == \A t \in mailed \ dead : t \in links \ revoked /\ ~Gone(t)

OwnChats == \A p \in Person : telegram[p] \subseteq hadTelegram[p]

\* The chat of a checked tap was its person's, or shared with it.
PressedByOwn ==
  pressed.from # None =>
    \/ pressed.from \in hadTelegram[pressed.token.person]
    \/ hadTelegram[pressed.token.person] \cap Group # {}

\* What the rows of links say, whoever may tap.
RowsInv ==
  /\ IsFiniteSet(links)
  /\ assigned \subseteq (DOMAIN events) \X people
  /\ Numbered /\ OneLiveToken
  /\ DeadStay /\ MailedAreThere

TapInv == OwnChats /\ PressedByOwn

Inv == TypeOK /\ RowsInv /\ TapInv

-----------------------------------------------------------------------------
\* Minting.

LEMMA MintedFinite ==
  ASSUME IsFiniteSet(links), NEW e, NEW p, NEW a
  PROVE  IsFiniteSet(Minted(e, p, a)) /\ Cardinality(Minted(e, p, a)) \in Nat
<1>1. Minted(e, p, a) \subseteq links
  BY DEF Minted, Pair
<1>. QED
  BY <1>1, FS_Subset, FS_CardinalityType

\* The number of a new token is above all there are of its kind.
LEMMA FreshIsNew ==
  ASSUME TypeOK, IsFiniteSet(links), Numbered, NEW e \in Event, NEW p \in Person, CanMint(e, p)
  PROVE  /\ Fresh(e, p) \subseteq Token /\ IsFiniteSet(Fresh(e, p))
         /\ \A t \in Fresh(e, p) :
              /\ t.event = e /\ t.person = p /\ t.action \in Missing(e, p)
              /\ t.mint = 1 + Cardinality(Minted(e, p, t.action))
              /\ t \notin links
<1>1. \A a \in Action : MintOf(e, p, a) = 1 + Cardinality(Minted(e, p, a)) /\ MintOf(e, p, a) \in Nat \ {0}
  <2>1. ASSUME NEW a \in Action
        PROVE  MintOf(e, p, a) = 1 + Cardinality(Minted(e, p, a)) /\ Cardinality(Minted(e, p, a)) \in Nat
    <3>1. MintOf(e, p, a) = 1 + Cardinality(Minted(e, p, a))
      BY DEF MintOf, Minted
    <3>2. Cardinality(Minted(e, p, a)) \in Nat
      BY MintedFinite
    <3>. QED
      BY <3>1, <3>2
  <2>. QED
    BY <2>1
<1>2. Missing(e, p) \subseteq Action /\ IsFiniteSet(Missing(e, p))
  <2>1. IsFiniteSet(Action)
    <3>1. Action = {"confirm"} \cup {"cancel"}
      BY DEF Action
    <3>. QED
      BY <3>1, FS_Singleton, FS_Union
  <2>. QED
    BY <2>1, FS_Subset DEF Missing
<1>3. Fresh(e, p) \subseteq Token
  BY <1>1, <1>2, LinksAssumption DEF Fresh, Token, CanMint
<1>4. IsFiniteSet(Fresh(e, p))
  <2>. DEFINE f == [a \in Missing(e, p) |-> [event |-> e, person |-> p, action |-> a, mint |-> MintOf(e, p, a)]]
  <2>1. f \in Surjection(Missing(e, p), Fresh(e, p))
    BY DEF Surjection, Fresh
  <2>. QED
    BY <2>1, <1>2, FS_Surjection
<1>5. ASSUME NEW t \in Fresh(e, p)
      PROVE  /\ t.event = e /\ t.person = p /\ t.action \in Missing(e, p)
             /\ t.mint = 1 + Cardinality(Minted(e, p, t.action))
             /\ t \notin links
  <2>1. t.event = e /\ t.person = p /\ t.action \in Missing(e, p) /\ t.mint = MintOf(e, p, t.action)
    BY DEF Fresh
  <2>2. t.mint = 1 + Cardinality(Minted(e, p, t.action)) /\ Cardinality(Minted(e, p, t.action)) \in Nat
    BY <2>1, <1>1, <1>2, MintedFinite
  <2>3. t \notin links
    BY <2>1, <2>2 DEF Numbered
  <2>. QED
    BY <2>1, <2>2, <2>3
<1>. QED
  BY <1>3, <1>4, <1>5

\* linksLocked keeps all that is said of the rows.
LEMMA MintKeepsRows ==
  ASSUME TypeOK, RowsInv, NEW e \in DOMAIN events, NEW p \in people, CanMint(e, p), Mint(e, p),
         UNCHANGED <<events, people, assigned, revoked, dead>>
  PROVE  /\ links' \subseteq Token /\ revoked' \subseteq links'
         /\ IsFiniteSet(links)' /\ Numbered' /\ OneLiveToken' /\ DeadStay'
         /\ HandedOut(e, p) \subseteq Token
         /\ \A t \in HandedOut(e, p) : t \in links' \ revoked /\ t.event = e /\ t.person = p
<1>. e \in Event /\ p \in Person
  BY DEF TypeOK
<1>1. /\ Fresh(e, p) \subseteq Token /\ IsFiniteSet(Fresh(e, p))
      /\ \A t \in Fresh(e, p) :
           /\ t.event = e /\ t.person = p /\ t.action \in Missing(e, p)
           /\ t.mint = 1 + Cardinality(Minted(e, p, t.action))
           /\ t \notin links
  BY FreshIsNew DEF RowsInv
<1>2. links' = links \cup Fresh(e, p) /\ links \subseteq Token
  BY DEF Mint, TypeOK
<1>3. links' \subseteq Token /\ revoked' \subseteq links'
  BY <1>1, <1>2 DEF TypeOK
<1>4. IsFiniteSet(links)'
  BY <1>1, <1>2, FS_Union DEF RowsInv
<1>5. Numbered'
  <2>1. ASSUME NEW t \in links'
        PROVE  t.mint <= Cardinality(Minted(t.event, t.person, t.action)')
    <3>. DEFINE old == Minted(t.event, t.person, t.action)
                new == Minted(t.event, t.person, t.action)'
    <3>1. old \subseteq new /\ IsFiniteSet(old) /\ IsFiniteSet(new)
      BY <1>2, <1>4, MintedFinite, FS_Subset DEF Minted, Pair, RowsInv
    <3>2. Cardinality(old) \in Nat /\ Cardinality(new) \in Nat /\ Cardinality(old) <= Cardinality(new)
      BY <3>1, FS_Subset, FS_CardinalityType
    <3>3. t.mint \in Nat
      BY <1>3 DEF Token
    <3>4. CASE t \in links
      <4>1. t.mint <= Cardinality(old)
        BY <3>4 DEF RowsInv, Numbered
      <4>. QED
        BY <4>1, <3>2, <3>3
    <3>5. CASE t \in Fresh(e, p)
      <4>1. t.mint = 1 + Cardinality(old) /\ t \notin old
        BY <3>5, <1>1 DEF Minted, Pair
      <4>2. t \in new
        BY <1>2, <3>5 DEF Minted, Pair
      <4>3. IsFiniteSet(old \cup {t}) /\ Cardinality(old \cup {t}) = Cardinality(old) + 1
        BY <3>1, <4>1, FS_AddElement
      <4>4. Cardinality(old \cup {t}) <= Cardinality(new)
        BY <3>1, <4>2, FS_Subset
      <4>. QED
        BY <4>1, <4>3, <4>4, <3>2, <3>3
    <3>. QED
      BY <3>4, <3>5, <1>2
  <2>. QED
    BY <2>1 DEF Numbered
<1>6. OneLiveToken'
  <2>. SUFFICES ASSUME NEW s \in (links \ revoked)', NEW t \in (links \ revoked)',
                       s.event = t.event, s.person = t.person, s.action = t.action
                PROVE  s = t
    BY DEF OneLiveToken
  <2>1. CASE s \in links /\ t \in links
    BY <2>1 DEF OneLiveToken, RowsInv
  <2>2. CASE s \in Fresh(e, p) /\ t \in Fresh(e, p)
    <3>1. s \in Token /\ t \in Token /\ s.mint = t.mint
      BY <2>2, <1>1
    <3>. QED
      BY <3>1 DEF Token
  <2>3. ASSUME NEW r \in Fresh(e, p), NEW u \in links \ revoked,
               r.event = u.event, r.person = u.person, r.action = u.action
        PROVE  FALSE
    <3>1. u \in Live(e, p, r.action)
      BY <2>3, <1>1 DEF Live, Pair
    <3>2. Live(e, p, r.action) = {}
      BY <1>1 DEF Missing
    <3>. QED
      BY <3>1, <3>2
  <2>. QED
    BY <2>1, <2>2, <2>3, <1>2
<1>7. DeadStay'
  <2>1. ASSUME NEW t \in dead
        PROVE  (t \in revoked \/ t \notin links') /\ (t \in links' \/ Gone(t))
    BY <1>1, <1>2 DEF DeadStay, RowsInv, Gone
  <2>. QED
    BY <2>1 DEF DeadStay, Gone
<1>8. /\ HandedOut(e, p) \subseteq Token
      /\ \A t \in HandedOut(e, p) : t \in links' \ revoked /\ t.event = e /\ t.person = p
  BY <1>1, <1>2 DEF HandedOut, Pair, TypeOK
<1>. QED
  BY <1>3, <1>4, <1>5, <1>6, <1>7, <1>8

-----------------------------------------------------------------------------
\* Revoking.

LEMMA RevokeKeepsRows ==
  ASSUME TypeOK, RowsInv, NEW es, NEW ps, Revoke(es, ps),
         UNCHANGED <<events, people, links, mailed>>
  PROVE  /\ revoked' \subseteq links' /\ dead' \subseteq Token
         /\ IsFiniteSet(links)' /\ Numbered' /\ OneLiveToken' /\ DeadStay' /\ MailedAreThere'
<1>1. revoked' = revoked \cup Withdrawn(es, ps) /\ dead' = dead \cup Withdrawn(es, ps)
  BY DEF Revoke
<1>2. Withdrawn(es, ps) \subseteq links
  BY DEF Withdrawn
<1>3. revoked' \subseteq links' /\ dead' \subseteq Token /\ IsFiniteSet(links)'
  BY <1>1, <1>2 DEF TypeOK, RowsInv
<1>4. Numbered'
  BY DEF Numbered, RowsInv, Minted, Pair
<1>5. OneLiveToken'
  BY <1>1 DEF OneLiveToken, RowsInv
<1>6. DeadStay'
  BY <1>1, <1>2 DEF DeadStay, RowsInv, Gone
<1>7. MailedAreThere'
  BY <1>1 DEF MailedAreThere, RowsInv, Gone
<1>. QED
  BY <1>3, <1>4, <1>5, <1>6, <1>7

\* Deleting a person or an event takes whole pairs away: of those it leaves, none
\* loses a token.
LEMMA DeleteKeepsRows ==
  ASSUME TypeOK, RowsInv, NEW taken,
         \A s, t \in links : s.event = t.event /\ s.person = t.person => (s \in taken <=> t \in taken),
         links' = links \ taken, revoked' = revoked \ taken
  PROVE  revoked' \subseteq links' /\ IsFiniteSet(links)' /\ Numbered' /\ OneLiveToken'
<1>1. links' \subseteq links /\ revoked' \subseteq links'
  BY DEF TypeOK
<1>2. IsFiniteSet(links)'
  BY <1>1, FS_Subset DEF RowsInv
<1>3. Numbered'
  <2>1. ASSUME NEW t \in links'
        PROVE  Minted(t.event, t.person, t.action)' = Minted(t.event, t.person, t.action)
    BY DEF Minted, Pair
  <2>. QED
    BY <1>1, <2>1 DEF Numbered, RowsInv
<1>4. OneLiveToken'
  BY <1>1 DEF OneLiveToken, RowsInv
<1>. QED
  BY <1>1, <1>2, <1>3, <1>4

-----------------------------------------------------------------------------
\* The invariant.

LEMMA InitInv == Init => Inv
<1>. SUFFICES ASSUME Init PROVE Inv
  OBVIOUS
<1>1. TypeOK
  BY LinksAssumption DEF Init, TypeOK, Row, Time, Chat
<1>2. RowsInv
  BY FS_EmptySet DEF Init, RowsInv, Numbered, OneLiveToken, DeadStay, MailedAreThere
<1>3. TapInv
  BY DEF Init, TapInv, OwnChats, PressedByOwn, NoAnswer
<1>. QED
  BY <1>1, <1>2, <1>3 DEF Inv

\* An answer changes the status of an event that is there, and nothing else.
LEMMA ApplyKeeps ==
  ASSUME TypeOK, NEW t \in Token, NEW u \in User \cup {None}, Apply(t, u)
  PROVE  /\ DOMAIN events' = DOMAIN events /\ events' \in [DOMAIN events -> Row]
         /\ acted' \in Answer \cup {NoAnswer}
         /\ acted' # NoAnswer => acted' = [token |-> t, from |-> u] /\ Usable(t)
<1>1. CASE Usable(t)
  <2>1. t.event \in DOMAIN events
    BY <1>1 DEF Usable
  <2>2. events' = Answers(t) /\ acted' \in {NoAnswer, [token |-> t, from |-> u]}
    BY <1>1 DEF Apply
  <2>3. Answers(t) \in [DOMAIN events -> Row]
    BY <2>1 DEF Answers, TypeOK, Row
  <2>. QED
    BY <1>1, <2>2, <2>3 DEF Answer
<1>2. CASE ~Usable(t)
  BY <1>2 DEF Apply, TypeOK
<1>. QED
  BY <1>1, <1>2

\* What the rows say stays while no token, right, event or person goes or comes.
LEMMA RowsStand ==
  ASSUME RowsInv, UNCHANGED <<people, links, revoked, mailed, dead>>,
         DOMAIN events' = DOMAIN events, assigned' \subseteq (DOMAIN events) \X people
  PROVE  RowsInv'
BY DEF RowsInv, Numbered, Minted, Pair, OneLiveToken, DeadStay, MailedAreThere, Gone

LEMMA TapsStand ==
  ASSUME TapInv, UNCHANGED <<telegram, pressed, hadTelegram>>
  PROVE  TapInv'
BY DEF TapInv, OwnChats, PressedByOwn

LEMMA AnsweringKeeps ==
  ASSUME Inv, Answering
  PROVE  Inv'
<1>. USE DEF Inv
<1>1. ASSUME NEW t \in links, ApplyAction(t)
      PROVE  Inv'
  <2>1. t \in Token
    BY DEF TypeOK
  <2>2. DOMAIN events' = DOMAIN events /\ events' \in [DOMAIN events -> Row] /\ acted' \in Answer \cup {NoAnswer}
    BY <1>1, <2>1, ApplyKeeps DEF ApplyAction
  <2>3. UNCHANGED <<now, people, assigned, links, revoked, telegram, pressed, mailed, dead, hadTelegram>>
    BY <1>1 DEF ApplyAction
  <2>4. TypeOK'
    BY <2>2, <2>3 DEF TypeOK
  <2>5. RowsInv'
    BY <2>2, <2>3, RowsStand DEF RowsInv
  <2>6. TapInv'
    BY <2>3, TapsStand
  <2>. QED
    BY <2>4, <2>5, <2>6
<1>2. ASSUME NEW t \in links, NEW u \in User, Verify(t, u)
      PROVE  Inv'
  <2>1. t \in Token /\ t.person \in Person
    BY DEF TypeOK, Token
  <2>2. pressed' = [token |-> t, from |-> u] /\ acted' = NoAnswer /\ Entitled(t.person, u)
    BY <1>2 DEF Verify
  <2>3. UNCHANGED <<now, events, people, assigned, links, revoked, telegram, mailed, dead, hadTelegram>>
    BY <1>2 DEF Verify
  <2>4. TypeOK'
    BY <2>1, <2>2, <2>3 DEF TypeOK, Answer
  <2>5. RowsInv'
    BY <2>3, RowsStand DEF RowsInv
  <2>6. TapInv'
    BY <2>1, <2>2, <2>3 DEF TapInv, OwnChats, PressedByOwn, Entitled
  <2>. QED
    BY <2>4, <2>5, <2>6
<1>3. ASSUME ApplyPress
      PROVE  Inv'
  <2>1. pressed.token \in Token /\ pressed.from \in User \cup {None}
    BY <1>3 DEF ApplyPress, TypeOK, Answer
  <2>2. DOMAIN events' = DOMAIN events /\ events' \in [DOMAIN events -> Row] /\ acted' \in Answer \cup {NoAnswer}
    BY <1>3, <2>1, ApplyKeeps DEF ApplyPress
  <2>3. UNCHANGED <<now, people, assigned, links, revoked, telegram, mailed, dead, hadTelegram>> /\ pressed' = NoAnswer
    BY <1>3 DEF ApplyPress
  <2>4. TypeOK'
    BY <2>2, <2>3 DEF TypeOK
  <2>5. RowsInv'
    BY <2>2, <2>3, RowsStand DEF RowsInv
  <2>6. TapInv'
    BY <2>3 DEF TapInv, OwnChats, PressedByOwn, NoAnswer
  <2>. QED
    BY <2>4, <2>5, <2>6
<1>. QED
  BY <1>1, <1>2, <1>3 DEF Answering

\* Mailing a pair that was just handed out.
LEMMA AskKeeps ==
  ASSUME Inv, NEW e \in Event, NEW p \in Person, Ask(e, p)
  PROVE  Inv'
<1>. USE DEF Inv
<1>1. e \in DOMAIN events /\ p \in people /\ CanMint(e, p) /\ Mint(e, p)
  BY DEF Ask, RowsInv
<1>2. /\ UNCHANGED <<events, people, assigned, revoked, telegram, dead, hadTelegram, now, pressed>>
      /\ mailed' = mailed \cup HandedOut(e, p) /\ acted' = NoAnswer
  BY DEF Ask, Quietly
<1>3. /\ links' \subseteq Token /\ revoked' \subseteq links'
      /\ IsFiniteSet(links)' /\ Numbered' /\ OneLiveToken' /\ DeadStay'
      /\ HandedOut(e, p) \subseteq Token
      /\ \A t \in HandedOut(e, p) : t \in links' \ revoked /\ t.event = e /\ t.person = p
  BY <1>1, <1>2, MintKeepsRows
<1>4. links \subseteq links'
  BY <1>1 DEF Mint
<1>5. TypeOK'
  BY <1>2, <1>3 DEF TypeOK
<1>6. MailedAreThere'
  BY <1>1, <1>2, <1>3, <1>4 DEF MailedAreThere, RowsInv, Gone
<1>7. RowsInv'
  BY <1>2, <1>3, <1>6 DEF RowsInv
<1>8. TapInv'
  BY <1>2, TapsStand
<1>. QED
  BY <1>5, <1>7, <1>8

LEMMA GenerateLinksKeeps ==
  ASSUME Inv, NEW e \in Event, NEW p \in Person, GenerateLinks(e, p)
  PROVE  Inv'
<1>. USE DEF Inv
<1>1. e \in DOMAIN events /\ p \in people /\ CanMint(e, p) /\ Mint(e, p)
  BY DEF GenerateLinks
<1>2. /\ UNCHANGED <<events, people, assigned, revoked, telegram, dead, hadTelegram, now, pressed, mailed>>
      /\ acted' = NoAnswer
  BY DEF GenerateLinks, Quietly
<1>3. /\ links' \subseteq Token /\ revoked' \subseteq links'
      /\ IsFiniteSet(links)' /\ Numbered' /\ OneLiveToken' /\ DeadStay'
  BY <1>1, <1>2, MintKeepsRows
<1>4. links \subseteq links'
  BY <1>1 DEF Mint
<1>5. TypeOK'
  BY <1>2, <1>3 DEF TypeOK
<1>6. MailedAreThere'
  BY <1>2, <1>4 DEF MailedAreThere, RowsInv, Gone
<1>7. RowsInv'
  BY <1>2, <1>3, <1>6 DEF RowsInv
<1>8. TapInv'
  BY <1>2, TapsStand
<1>. QED
  BY <1>5, <1>7, <1>8

\* A revocation, whether the operator's or an unassignment's.
LEMMA WithdrawKeeps ==
  ASSUME Inv, NEW es, NEW ps, Revoke(es, ps), assigned' \subseteq assigned,
         UNCHANGED <<now, events, people, links, telegram, pressed, mailed, hadTelegram>>,
         acted' = NoAnswer
  PROVE  Inv'
<1>. USE DEF Inv
<1>1. /\ revoked' \subseteq links' /\ dead' \subseteq Token
      /\ IsFiniteSet(links)' /\ Numbered' /\ OneLiveToken' /\ DeadStay' /\ MailedAreThere'
  BY RevokeKeepsRows
<1>2. TypeOK'
  BY <1>1 DEF TypeOK
<1>3. RowsInv'
  BY <1>1 DEF RowsInv
<1>4. TapInv'
  BY TapsStand
<1>. QED
  BY <1>2, <1>3, <1>4

LEMMA ManagingKeeps ==
  ASSUME Inv, Managing
  PROVE  Inv'
<1>1. ASSUME NEW e \in Event, NEW p \in Person, GenerateLinks(e, p) \/ Ask(e, p)
      PROVE  Inv'
  BY <1>1, GenerateLinksKeeps, AskKeeps
<1>2. ASSUME NEW s \in Scopes, RevokeLinks(s[1], s[2])
      PROVE  Inv'
  BY <1>2, WithdrawKeeps DEF RevokeLinks, Quietly
<1>3. ASSUME NEW e \in Event, NEW p \in Person, Assign(e, p)
      PROVE  Inv'
  <2>1. TypeOK'
    BY <1>3 DEF Inv, TypeOK, Assign, Quietly
  <2>2. assigned' \subseteq (DOMAIN events) \X people
    BY <1>3 DEF Inv, RowsInv, Assign
  <2>3. RowsInv'
    BY <1>3, <2>2, RowsStand DEF Inv, Assign
  <2>4. TapInv'
    BY <1>3, TapsStand DEF Inv, Assign, Quietly
  <2>. QED
    BY <2>1, <2>3, <2>4 DEF Inv
<1>4. ASSUME NEW e \in Event, NEW p \in Person, Unassign(e, p)
      PROVE  Inv'
  <2>1. assigned' \subseteq assigned
    BY <1>4 DEF Unassign
  <2>. QED
    BY <1>4, <2>1, WithdrawKeeps DEF Unassign, Quietly
<1>5. ASSUME NEW p \in Person, NEW chats \in {{}} \cup {{c} : c \in Chat}, UpdatePerson(p, chats)
      PROVE  Inv'
  <2>1. /\ telegram' = [telegram EXCEPT ![p] = chats]
        /\ hadTelegram' = [hadTelegram EXCEPT ![p] = hadTelegram[p] \cup chats]
        /\ acted' = NoAnswer
        /\ UNCHANGED <<now, pressed, events, people, assigned, links, revoked, mailed, dead>>
    BY <1>5 DEF UpdatePerson, Quietly
  <2>2. TypeOK'
    BY <2>1 DEF Inv, TypeOK
  <2>3. RowsInv'
    BY <2>1, RowsStand DEF Inv, RowsInv
  <2>4. \A q \in Person : hadTelegram[q] \subseteq hadTelegram'[q]
    BY <2>1 DEF Inv, TypeOK
  <2>5. OwnChats'
    BY <2>1 DEF Inv, TypeOK, TapInv, OwnChats
  <2>6. PressedByOwn'
    <3>1. pressed.from # None => pressed.token.person \in Person
      BY DEF Inv, TypeOK, Answer, NoAnswer, Token
    <3>. QED
      BY <2>1, <2>4, <3>1 DEF Inv, TapInv, PressedByOwn
  <2>. QED
    BY <2>2, <2>3, <2>5, <2>6 DEF Inv, TapInv
<1>6. ASSUME NEW e \in Event, NEW s \in {"scheduled", "confirmed", "cancelled"}, NEW start \in Time,
             Decide(e, s, start)
      PROVE  Inv'
  <2>1. /\ e \in DOMAIN events /\ events' = [events EXCEPT ![e].status = s, ![e].startsAt = start]
        /\ acted' = NoAnswer
        /\ UNCHANGED <<now, pressed, people, assigned, links, revoked, telegram, mailed, dead, hadTelegram>>
    BY <1>6 DEF Decide, Quietly
  <2>2. DOMAIN events' = DOMAIN events /\ events' \in [DOMAIN events -> Row]
    BY <2>1 DEF Inv, TypeOK, Row
  <2>3. TypeOK'
    BY <2>1, <2>2 DEF Inv, TypeOK
  <2>4. RowsInv'
    BY <2>1, <2>2, RowsStand DEF Inv, RowsInv
  <2>5. TapInv'
    BY <2>1, TapsStand DEF Inv
  <2>. QED
    BY <2>3, <2>4, <2>5 DEF Inv
<1>. QED
  BY <1>1, <1>2, <1>3, <1>4, <1>5, <1>6 DEF Managing

LEMMA DeletePersonKeeps ==
  ASSUME Inv, NEW p \in Person, DeletePerson(p)
  PROVE  Inv'
<1>. USE DEF Inv
<1>. DEFINE taken == {t \in Token : t.person = p}
<1>1. /\ people' = people \ {p} /\ assigned' = {a \in assigned : a[2] # p}
      /\ links' = {t \in links : t.person # p} /\ revoked' = {t \in revoked : t.person # p}
      /\ telegram' = [telegram EXCEPT ![p] = {}] /\ dead' = dead \cup Withdrawn(Event, {p})
      /\ acted' = NoAnswer /\ UNCHANGED <<now, pressed, events, mailed, hadTelegram>>
  BY DEF DeletePerson, Quietly
<1>2. links' = links \ taken /\ revoked' = revoked \ taken
  BY <1>1 DEF TypeOK
<1>3. \A s, t \in links : s.event = t.event /\ s.person = t.person => (s \in taken <=> t \in taken)
  BY DEF TypeOK
<1>4. revoked' \subseteq links' /\ IsFiniteSet(links)' /\ Numbered' /\ OneLiveToken'
  <2>. HIDE DEF taken
  <2>. QED
    BY <1>2, <1>3, DeleteKeepsRows
<1>5. Withdrawn(Event, {p}) = {t \in links : t.person = p}
  BY DEF Withdrawn, TypeOK, Token
<1>6. TypeOK'
  BY <1>1, <1>4, <1>5 DEF TypeOK
<1>7. DeadStay'
  BY <1>1, <1>5 DEF RowsInv, DeadStay, Gone
<1>8. MailedAreThere'
  BY <1>1, <1>5 DEF RowsInv, MailedAreThere, Gone
<1>9. assigned' \subseteq (DOMAIN events') \X people'
  BY <1>1 DEF RowsInv
<1>10. RowsInv'
  BY <1>4, <1>7, <1>8, <1>9 DEF RowsInv
<1>11. TapInv'
  BY <1>1 DEF TapInv, TypeOK, OwnChats, PressedByOwn
<1>. QED
  BY <1>6, <1>10, <1>11

LEMMA DeleteEventKeeps ==
  ASSUME Inv, NEW e \in Event, DeleteEvent(e)
  PROVE  Inv'
<1>. USE DEF Inv
<1>. DEFINE taken == {t \in Token : t.event = e}
<1>1. /\ events' = [f \in DOMAIN events \ {e} |-> events[f]] /\ assigned' = {a \in assigned : a[1] # e}
      /\ links' = {t \in links : t.event # e} /\ revoked' = {t \in revoked : t.event # e}
      /\ dead' = dead \cup Withdrawn({e}, Person)
      /\ acted' = NoAnswer /\ UNCHANGED <<now, pressed, people, telegram, mailed, hadTelegram>>
  BY DEF DeleteEvent, Quietly
<1>2. links' = links \ taken /\ revoked' = revoked \ taken
  BY <1>1 DEF TypeOK
<1>3. \A s, t \in links : s.event = t.event /\ s.person = t.person => (s \in taken <=> t \in taken)
  BY DEF TypeOK
<1>4. revoked' \subseteq links' /\ IsFiniteSet(links)' /\ Numbered' /\ OneLiveToken'
  <2>. HIDE DEF taken
  <2>. QED
    BY <1>2, <1>3, DeleteKeepsRows
<1>5. Withdrawn({e}, Person) = {t \in links : t.event = e}
  BY DEF Withdrawn, TypeOK, Token
<1>6. DOMAIN events' = DOMAIN events \ {e} /\ events' \in [DOMAIN events' -> Row]
  BY <1>1 DEF TypeOK
<1>7. TypeOK'
  BY <1>1, <1>4, <1>5, <1>6 DEF TypeOK
<1>8. DeadStay'
  BY <1>1, <1>5, <1>6 DEF RowsInv, DeadStay, Gone
<1>9. MailedAreThere'
  BY <1>1, <1>5, <1>6 DEF RowsInv, MailedAreThere, Gone
<1>10. assigned' \subseteq (DOMAIN events') \X people'
  BY <1>1, <1>6 DEF RowsInv
<1>11. RowsInv'
  BY <1>4, <1>8, <1>9, <1>10 DEF RowsInv
<1>12. TapInv'
  BY <1>1, TapsStand
<1>. QED
  BY <1>7, <1>11, <1>12

LEMMA StepInv == Inv /\ [Next]_vars => Inv'
<1>. SUFFICES ASSUME Inv, [Next]_vars
              PROVE  Inv'
  OBVIOUS
<1>1. CASE AdvanceTime
  <2>1. now' \in Time
    BY <1>1, LinksAssumption DEF AdvanceTime, Time, Inv, TypeOK
  <2>2. UNCHANGED <<events, people, assigned, links, revoked, telegram, pressed, mailed, dead, hadTelegram>> /\ acted' = NoAnswer
    BY <1>1 DEF AdvanceTime
  <2>3. TypeOK'
    BY <2>1, <2>2 DEF Inv, TypeOK
  <2>4. RowsInv'
    BY <2>2, RowsStand DEF Inv, RowsInv
  <2>5. TapInv'
    BY <2>2, TapsStand DEF Inv
  <2>. QED
    BY <2>3, <2>4, <2>5 DEF Inv
<1>2. CASE UNCHANGED vars
  <2>1. TypeOK'
    BY <1>2 DEF Inv, TypeOK, vars, state, history
  <2>2. RowsInv'
    BY <1>2, RowsStand DEF Inv, RowsInv, vars, state, history
  <2>3. TapInv'
    BY <1>2, TapsStand DEF Inv, vars, state, history
  <2>. QED
    BY <2>1, <2>2, <2>3 DEF Inv
<1>. QED
  BY <1>1, <1>2, AnsweringKeeps, ManagingKeeps, DeletePersonKeeps, DeleteEventKeeps DEF Next

-----------------------------------------------------------------------------
\* The theorems.

\* The rows and the histories are what they are declared to be.
THEOREM LinksTypeCorrect == Spec => []TypeOK
<1>1. Inv => TypeOK
  BY DEF Inv
<1>. QED
  BY <1>1, InitInv, StepInv, PTL DEF Spec

\* linksLocked hands out what is there and mints only what is missing, so a person
\* has one live token per event and answer, however often it was asked, revoked,
\* unassigned and assigned again.
THEOREM LiveTokenIsOne == Spec => []OneLiveToken
<1>1. Inv => OneLiveToken
  BY DEF Inv, RowsInv
<1>. QED
  BY <1>1, InitInv, StepInv, PTL DEF Spec

\* A mailed link answers until its event is over unless it was withdrawn: nothing
\* but a revocation or a deletion of its own scope ends it.
THEOREM MailedLinksAnswer == Spec => []MailedKeepsWorking
<1>1. Inv => MailedKeepsWorking
  BY DEF Inv, RowsInv, MailedAreThere, Gone, MailedKeepsWorking, Usable, EventExpiry
<1>. QED
  BY <1>1, InitInv, StepInv, PTL DEF Spec

\* The answer of a step is that of a usable token, by whoever was checked for it.
LEMMA ActedByRight ==
  ASSUME Inv, Next
  PROVE  acted' # NoAnswer =>
           /\ acted'.token \in links \ revoked
           /\ acted'.from # None => pressed = acted'
<1>1. CASE Answering
  <2>1. ASSUME NEW t \in links, ApplyAction(t)
        PROVE  acted' # NoAnswer => acted' = [token |-> t, from |-> None] /\ Usable(t)
    BY <2>1, ApplyKeeps DEF ApplyAction, Inv, TypeOK
  <2>2. ASSUME NEW t \in links, NEW u \in User, Verify(t, u)
        PROVE  acted' = NoAnswer
    BY <2>2 DEF Verify
  <2>3. ASSUME ApplyPress
        PROVE  acted' # NoAnswer => acted' = pressed /\ Usable(pressed.token)
    <3>1. pressed \in Answer
      BY <2>3 DEF ApplyPress, Inv, TypeOK
    <3>2. pressed.token \in Token /\ pressed.from \in User \cup {None}
          /\ pressed = [token |-> pressed.token, from |-> pressed.from]
      BY <3>1 DEF Answer
    <3>. QED
      BY <2>3, <3>2, ApplyKeeps DEF ApplyPress, Inv
  <2>. QED
    BY <1>1, <2>1, <2>2, <2>3 DEF Answering, Usable
<1>2. CASE ~Answering
  <2>1. acted' = NoAnswer
    BY <1>2 DEF Next, Managing, GenerateLinks, Ask, RevokeLinks, Assign, Unassign, UpdatePerson, Decide,
                DeletePerson, DeleteEvent, AdvanceTime, Quietly
  <2>. QED
    BY <2>1
<1>. QED
  BY <1>1, <1>2

\* A withdrawn capability never answers again, through no interleaving of asks,
\* assignments, deletions and half-checked taps.
THEOREM WithdrawnIsDead == Spec => WithdrawnNeverActs
<1>1. Inv /\ [Next]_vars => [acted'.token \notin dead]_vars
  <2>. SUFFICES ASSUME Inv, Next
                PROVE  acted'.token \notin dead
    OBVIOUS
  <2>1. CASE acted' = NoAnswer
    BY <2>1, NoTokenAssumption DEF NoAnswer, Inv, TypeOK
  <2>2. CASE acted' # NoAnswer
    BY <2>2, ActedByRight DEF Inv, RowsInv, DeadStay
  <2>. QED
    BY <2>1, <2>2
<1>. QED
  BY <1>1, InitInv, StepInv, PTL DEF Spec, WithdrawnNeverActs

\* Whoever tapped an answer was in a chat of the person's when it was checked, even
\* when the addresses changed before it was applied.
THEOREM TapsAreOwn == Spec => StrangerNeverActs
<1>1. Inv /\ [Next]_vars =>
        [acted'.from # None =>
           \/ acted'.from \in hadTelegram[acted'.token.person]
           \/ hadTelegram[acted'.token.person] \cap Group # {}]_vars
  <2>. SUFFICES ASSUME Inv, Next, acted'.from # None
                PROVE  \/ acted'.from \in hadTelegram[acted'.token.person]
                       \/ hadTelegram[acted'.token.person] \cap Group # {}
    OBVIOUS
  <2>1. acted' # NoAnswer
    BY DEF NoAnswer
  <2>2. pressed = acted'
    BY <2>1, ActedByRight
  <2>. QED
    BY <2>2 DEF Inv, TapInv, PressedByOwn
<1>. QED
  BY <1>1, InitInv, StepInv, PTL DEF Spec, StrangerNeverActs

-----------------------------------------------------------------------------
\* Proposals.

EventsInv ==
  /\ events \in [DOMAIN events -> Row]
  /\ DOMAIN events \subseteq born /\ born \subseteq Event
  /\ people \subseteq Person
  /\ assigned \subseteq (DOMAIN events) \X people

ProposalsInv ==
  /\ filed \in Nat /\ DOMAIN proposals \subseteq 1..filed
  /\ proposals \in [DOMAIN proposals -> Proposal]
  /\ NoDanglingProposal
  /\ WithinBudget

PortalInv == EventsInv /\ ProposalsInv

-----------------------------------------------------------------------------
\* The table of proposals.

LEMMA OpenFinite ==
  ASSUME ProposalsInv, NEW p
  PROVE  IsFiniteSet(Open(p)) /\ Cardinality(Open(p)) \in Nat
<1>1. 0 \in Int /\ filed \in Int
  BY DEF ProposalsInv
<1>2. IsFiniteSet(1..filed)
  BY <1>1, FS_Interval
<1>3. Open(p) \subseteq 1..filed
  BY DEF ProposalsInv, Open
<1>. QED
  BY <1>2, <1>3, FS_Subset, FS_CardinalityType

\* Fewer rows, or fewer of them open, are within the budget.
LEMMA FewerOpen ==
  ASSUME ProposalsInv, \A p \in Person : Open(p)' \subseteq Open(p)
  PROVE  WithinBudget'
<1>1. ASSUME NEW p \in Person
      PROVE  Cardinality(Open(p)') <= MaxOpen
  <2>1. IsFiniteSet(Open(p)) /\ Cardinality(Open(p)) \in Nat
    BY OpenFinite
  <2>2. Cardinality(Open(p)') <= Cardinality(Open(p)) /\ Cardinality(Open(p)') \in Nat
    BY <2>1, FS_Subset, FS_CardinalityType
  <2>3. Cardinality(Open(p)) <= MaxOpen
    BY DEF ProposalsInv, WithinBudget, Open
  <2>. QED
    BY <2>1, <2>2, <2>3, PortalAssumption
<1>. QED
  BY <1>1 DEF WithinBudget, Open

\* Rows that go take nothing from the others.
LEMMA KeptProposals ==
  ASSUME ProposalsInv, NEW S, S \subseteq DOMAIN proposals, Kept(S), filed' = filed,
         \A i \in S : /\ proposals[i].person \in people'
                      /\ proposals[i].kind # "create" => proposals[i].event \in DOMAIN events'
  PROVE  ProposalsInv'
<1>1. DOMAIN proposals' = S /\ \A i \in S : proposals'[i] = proposals[i]
  BY DEF Kept
<1>2. filed' \in Nat /\ DOMAIN proposals' \subseteq 1..filed' /\ proposals' \in [DOMAIN proposals' -> Proposal]
  BY <1>1 DEF ProposalsInv, Kept
<1>3. NoDanglingProposal'
  BY <1>1 DEF NoDanglingProposal
<1>4. WithinBudget'
  BY <1>1, FewerOpen DEF Open
<1>. QED
  BY <1>2, <1>3, <1>4 DEF ProposalsInv

\* Untouched rows are sound while nothing they are about goes.
LEMMA ProposalsStand ==
  ASSUME ProposalsInv, UNCHANGED <<proposals, filed>>,
         people \subseteq people', DOMAIN events \subseteq DOMAIN events'
  PROVE  ProposalsInv'
BY DEF ProposalsInv, NoDanglingProposal, WithinBudget

\* fileProposalLocked.
LEMMA FileKeeps ==
  ASSUME ProposalsInv, NEW p \in Person, NEW kind \in Kind, NEW e, NEW start \in Time,
         p \in people, IF kind = "create" THEN e = None ELSE e \in DOMAIN events \cap Event,
         File(p, kind, e, start), UNCHANGED <<people, events>>
  PROVE  /\ ProposalsInv'
         /\ \A i \in DOMAIN proposals \cap DOMAIN proposals' : proposals'[i] = proposals[i]
<1>. DEFINE row == [person |-> p, kind |-> kind, event |-> e, startsAt |-> start, decided |-> "open"]
            n == filed + 1
<1>1. filed' = n /\ n \in Nat /\ n \notin DOMAIN proposals /\ HasRoom(p)
  BY DEF File, ProposalsInv
<1>2. row \in Proposal
  BY DEF Proposal, Kind
<1>3. /\ DOMAIN proposals' = DOMAIN proposals \cup {n} /\ proposals'[n] = row
      /\ \A i \in DOMAIN proposals : proposals'[i] = proposals[i]
      /\ proposals' = [i \in DOMAIN proposals' |-> proposals'[i]]
  BY <1>1 DEF File
<1>4. filed' \in Nat /\ DOMAIN proposals' \subseteq 1..filed'
  BY <1>1, <1>3 DEF ProposalsInv
<1>5. \A i \in DOMAIN proposals' : proposals'[i] \in Proposal
  BY <1>2, <1>3 DEF ProposalsInv
<1>6. proposals' \in [DOMAIN proposals' -> Proposal]
  BY <1>3, <1>5
<1>7. NoDanglingProposal'
  BY <1>3 DEF ProposalsInv, NoDanglingProposal
<1>8. WithinBudget'
  <2>1. ASSUME NEW q \in Person
        PROVE  Cardinality(Open(q)') <= MaxOpen
    <3>1. IsFiniteSet(Open(q)) /\ Cardinality(Open(q)) \in Nat /\ n \notin Open(q)
      BY <1>1, OpenFinite DEF Open
    <3>2. CASE q = p
      <4>1. Open(q)' = Open(q) \cup {n}
        BY <1>1, <1>3, <3>2 DEF Open
      <4>2. Cardinality(Open(q)') = Cardinality(Open(q)) + 1
        BY <4>1, <3>1, FS_AddElement
      <4>3. Cardinality(Open(q)) < MaxOpen
        BY <1>1, <3>2 DEF HasRoom
      <4>. QED
        BY <4>2, <4>3, <3>1, PortalAssumption
    <3>3. CASE q # p
      <4>1. Open(q)' = Open(q)
        BY <1>1, <1>3, <3>3 DEF Open
      <4>. QED
        BY <4>1 DEF ProposalsInv, WithinBudget, Open
    <3>. QED
      BY <3>2, <3>3
  <2>. QED
    BY <2>1 DEF WithinBudget, Open
<1>. QED
  BY <1>3, <1>4, <1>6, <1>7, <1>8 DEF ProposalsInv

\* A verdict, which takes a row off the budget.
LEMMA DecidedKeeps ==
  ASSUME ProposalsInv, NEW i \in DOMAIN proposals, NEW verdict \in {"accepted", "declined"},
         proposals[i].decided = "open",
         Decided(i, verdict), people' = people, DOMAIN events \subseteq DOMAIN events'
  PROVE  /\ ProposalsInv' /\ DOMAIN proposals' = DOMAIN proposals
         /\ \A j \in DOMAIN proposals \ {i} : proposals'[j] = proposals[j]
         /\ proposals'[i].decided = verdict
<1>1. /\ proposals' = [proposals EXCEPT ![i] = [proposals[i] EXCEPT !.decided = verdict]]
      /\ filed' = filed /\ proposals[i] \in Proposal
  BY DEF Decided, ProposalsInv
<1>2. /\ DOMAIN proposals' = DOMAIN proposals
      /\ \A j \in DOMAIN proposals \ {i} : proposals'[j] = proposals[j]
      /\ proposals'[i] = [proposals[i] EXCEPT !.decided = verdict]
  BY <1>1 DEF ProposalsInv
<1>3. /\ proposals'[i] \in Proposal /\ proposals'[i].decided = verdict
      /\ proposals'[i].person = proposals[i].person /\ proposals'[i].kind = proposals[i].kind
      /\ proposals'[i].event = proposals[i].event
  BY <1>1, <1>2 DEF Proposal
<1>4. proposals' \in [DOMAIN proposals' -> Proposal]
  BY <1>1, <1>2, <1>3 DEF ProposalsInv
<1>5. NoDanglingProposal'
  <2>1. ASSUME NEW j \in DOMAIN proposals
        PROVE  /\ proposals'[j].person = proposals[j].person /\ proposals'[j].kind = proposals[j].kind
               /\ proposals'[j].event = proposals[j].event
    BY <1>2, <1>3
  <2>. QED
    BY <1>2, <2>1 DEF ProposalsInv, NoDanglingProposal
<1>6. WithinBudget'
  BY <1>2, <1>3, FewerOpen DEF Open
<1>. QED
  BY <1>1, <1>2, <1>3, <1>4, <1>5, <1>6 DEF ProposalsInv

-----------------------------------------------------------------------------
\* The events.

LEMMA EventsStand ==
  ASSUME EventsInv, UNCHANGED <<people, born>>, assigned' \subseteq (DOMAIN events) \X people,
         events' \in [DOMAIN events -> Row]
  PROVE  EventsInv'
BY DEF EventsInv

\* applyChangeLocked takes the events from a sound state to a sound state, does
\* what it says, and never brings a cancelled event back.
LEMMA ChangeKeeps ==
  ASSUME EventsInv, NEW kind \in Kind, NEW p \in people, NEW e, NEW start \in Time,
         kind # "create" => e \in DOMAIN events,
         Change(kind, p, e, start), people' = people
  PROVE  /\ EventsInv' /\ DOMAIN events \subseteq DOMAIN events'
         /\ kind = "cancel" => events'[e].status = "cancelled"
         /\ kind = "move" => events[e].status # "cancelled" /\ events'[e].startsAt = start
         /\ kind = "create" => \E f \in DOMAIN events' \ DOMAIN events : <<f, p>> \in assigned'
         /\ \A f \in DOMAIN events : events[f].status = "cancelled" => events'[f].status = "cancelled"
<1>1. CASE kind = "cancel"
  <2>1. e \in DOMAIN events /\ events' = [events EXCEPT ![e].status = "cancelled"] /\ UNCHANGED <<assigned, born>>
    BY <1>1 DEF Change
  <2>2. events' \in [DOMAIN events -> Row] /\ events'[e].status = "cancelled"
    BY <2>1 DEF EventsInv, Row
  <2>3. \A f \in DOMAIN events \ {e} : events'[f] = events[f]
    BY <2>1 DEF EventsInv
  <2>. QED
    BY <1>1, <2>1, <2>2, <2>3, EventsStand DEF EventsInv
<1>2. CASE kind = "move"
  <2>1. /\ e \in DOMAIN events /\ events[e].status # "cancelled" /\ UNCHANGED <<assigned, born>>
        /\ events' = [events EXCEPT ![e].status = "scheduled", ![e].startsAt = start]
    BY <1>2 DEF Change, Refused, Moved
  <2>2. events' \in [DOMAIN events -> Row] /\ events'[e].startsAt = start
    BY <2>1 DEF EventsInv, Row
  <2>3. \A f \in DOMAIN events \ {e} : events'[f] = events[f]
    BY <2>1 DEF EventsInv
  <2>. QED
    BY <1>2, <2>1, <2>2, <2>3, EventsStand DEF EventsInv
<1>3. CASE kind = "create"
  <2>. DEFINE row == [status |-> "scheduled", startsAt |-> start, hasEnd |-> FALSE]
  <2>1. PICK new \in Event \ born :
          /\ born' = born \cup {new} /\ assigned' = assigned \cup {<<new, p>>}
          /\ events' = [f \in DOMAIN events \cup {new} |-> IF f = new THEN row ELSE events[f]]
    BY <1>3 DEF Change
  <2>2. new \notin DOMAIN events
    BY DEF EventsInv
  <2>3. /\ DOMAIN events' = DOMAIN events \cup {new}
        /\ \A f \in DOMAIN events : events'[f] = events[f]
    BY <2>1, <2>2
  <2>4. row \in Row
    BY DEF Row
  <2>5. events' \in [DOMAIN events' -> Row]
    BY <2>1, <2>2, <2>3, <2>4 DEF EventsInv
  <2>6. assigned' \subseteq (DOMAIN events') \X people'
    BY <2>1, <2>3 DEF EventsInv
  <2>7. DOMAIN events' \subseteq born' /\ born' \subseteq Event /\ people' \subseteq Person
    BY <2>1, <2>3 DEF EventsInv
  <2>8. EventsInv'
    BY <2>5, <2>6, <2>7 DEF EventsInv
  <2>. QED
    BY <1>3, <2>1, <2>2, <2>3, <2>8
<1>. QED
  BY <1>1, <1>2, <1>3 DEF Kind

LEMMA InitPortalInv == PortalInit => PortalInv
<1>. SUFFICES ASSUME PortalInit PROVE PortalInv
  OBVIOUS
<1>1. EventsInv
  BY LinksAssumption DEF PortalInit, Init, EventsInv, Row
<1>2. ProposalsInv
  <2>1. DOMAIN proposals = {} /\ filed = 0
    BY DEF PortalInit
  <2>2. proposals \in [DOMAIN proposals -> Proposal]
    BY <2>1 DEF PortalInit
  <2>3. \A p \in Person : Open(p) = {}
    BY <2>1 DEF Open
  <2>4. WithinBudget
    BY <2>3, FS_EmptySet, PortalAssumption DEF WithinBudget, Open
  <2>. QED
    BY <2>1, <2>2, <2>4 DEF ProposalsInv, NoDanglingProposal
<1>. QED
  BY <1>1, <1>2 DEF PortalInv

\* What a step may do to what is there: its proposals keep their answers but for
\* one that is decided, and its cancelled events come back by the operator only.
Done(pr) ==
  CASE pr.kind = "cancel" -> events'[pr.event].status = "cancelled"
    [] pr.kind = "move"   -> events[pr.event].status # "cancelled" /\ events'[pr.event].startsAt = pr.startsAt
    [] pr.kind = "create" -> \E e \in DOMAIN events' \ DOMAIN events : <<e, pr.person>> \in assigned'

Honest ==
  \A i \in DOMAIN proposals \cap DOMAIN proposals' :
    proposals[i].decided = "open" /\ proposals'[i].decided = "accepted" => Done(proposals[i])

Revives ==
  \E e \in DOMAIN events \cap DOMAIN events' :
    events[e].status = "cancelled" /\ events'[e].status # "cancelled"

Sound == PortalInv' /\ Honest /\ (operator' \/ ~Revives)

\* A step that leaves the proposals alone.
LEMMA NoVerdict ==
  ASSUME \A i \in DOMAIN proposals \cap DOMAIN proposals' : proposals'[i].decided = proposals[i].decided
  PROVE  Honest
BY DEF Honest

\* An answer by link never touches a cancelled event.
LEMMA AnswerKeepsEvents ==
  ASSUME EventsInv, NEW t, NEW u, Apply(t, u)
  PROVE  /\ events' \in [DOMAIN events -> Row]
         /\ \A e \in DOMAIN events : events[e].status = "cancelled" => events'[e].status = "cancelled"
<1>1. CASE Usable(t)
  <2>1. t.event \in DOMAIN events /\ events' = Answers(t)
    BY <1>1 DEF Usable, Apply
  <2>2. PICK s \in {"confirmed", "cancelled"} :
          /\ events' = [events EXCEPT ![t.event].status = s]
          /\ events[t.event].status = "cancelled" => s = "cancelled"
    BY <2>1 DEF Answers
  <2>3. events' \in [DOMAIN events -> Row] /\ events'[t.event].status = s
    BY <2>1, <2>2 DEF EventsInv, Row
  <2>4. \A e \in DOMAIN events \ {t.event} : events'[e] = events[e]
    BY <2>1, <2>2 DEF EventsInv
  <2>. QED
    BY <2>2, <2>3, <2>4
<1>2. CASE ~Usable(t)
  BY <1>2 DEF Apply, EventsInv
<1>. QED
  BY <1>1, <1>2

LEMMA AnsweringSound ==
  ASSUME PortalInv, Answering, UNCHANGED portalVars
  PROVE  Sound
<1>1. UNCHANGED <<people, assigned>>
  BY DEF Answering, ApplyAction, Verify, ApplyPress
<1>2. /\ events' \in [DOMAIN events -> Row]
      /\ \A e \in DOMAIN events : events[e].status = "cancelled" => events'[e].status = "cancelled"
  BY AnswerKeepsEvents DEF Answering, ApplyAction, Verify, ApplyPress, PortalInv, EventsInv
<1>3. EventsInv'
  BY <1>1, <1>2, EventsStand DEF PortalInv, EventsInv, portalVars
<1>4. ProposalsInv'
  BY <1>1, <1>2, ProposalsStand DEF PortalInv, portalVars
<1>5. Honest
  BY NoVerdict DEF portalVars
<1>. QED
  BY <1>2, <1>3, <1>4, <1>5 DEF PortalInv, Sound, Revives

LEMMA ManagingSound ==
  ASSUME PortalInv, Managing \/ AdvanceTime, UNCHANGED portalVars, operator'
  PROVE  Sound
<1>1. people' = people
  BY DEF Managing, GenerateLinks, Ask, RevokeLinks, Assign, Unassign, UpdatePerson, Decide, AdvanceTime
<1>2. events' \in [DOMAIN events -> Row] /\ assigned' \subseteq (DOMAIN events) \X people
  <2>1. ASSUME NEW e \in Event, NEW s \in {"scheduled", "confirmed", "cancelled"}, NEW start \in Time, Decide(e, s, start)
        PROVE  events' \in [DOMAIN events -> Row] /\ assigned' = assigned
    BY <2>1 DEF Decide, PortalInv, EventsInv, Row
  <2>2. ASSUME NEW e \in Event, NEW p \in Person, Assign(e, p) \/ Unassign(e, p)
        PROVE  events' = events /\ assigned' \subseteq (DOMAIN events) \X people
    BY <2>2 DEF Assign, Unassign, PortalInv, EventsInv
  <2>3. ASSUME NEW e \in Event, NEW p \in Person, GenerateLinks(e, p) \/ Ask(e, p)
        PROVE  UNCHANGED <<events, assigned>>
    BY <2>3 DEF GenerateLinks, Ask
  <2>4. ASSUME NEW s \in Scopes, RevokeLinks(s[1], s[2])
        PROVE  UNCHANGED <<events, assigned>>
    BY <2>4 DEF RevokeLinks
  <2>5. ASSUME NEW p \in Person, NEW chats, UpdatePerson(p, chats)
        PROVE  UNCHANGED <<events, assigned>>
    BY <2>5 DEF UpdatePerson
  <2>6. ASSUME AdvanceTime
        PROVE  UNCHANGED <<events, assigned>>
    BY <2>6 DEF AdvanceTime
  <2>. QED
    BY <2>1, <2>2, <2>3, <2>4, <2>5, <2>6 DEF Managing, PortalInv, EventsInv
<1>3. EventsInv'
  BY <1>1, <1>2, EventsStand DEF PortalInv, portalVars
<1>4. ProposalsInv'
  BY <1>1, <1>2, ProposalsStand DEF PortalInv, portalVars
<1>5. Honest
  BY NoVerdict DEF portalVars
<1>. QED
  BY <1>3, <1>4, <1>5 DEF PortalInv, Sound

LEMMA PortalRespondSound ==
  ASSUME PortalInv, NEW p \in Person, NEW k, NEW e \in Event, NEW a \in Action, PortalRespond(p, k, e, a)
  PROVE  Sound
<1>1. UNCHANGED <<people, assigned, portalVars>>
  BY DEF PortalRespond, LinksUntouched
<1>2. e \in DOMAIN events /\ events[e].status # "cancelled"
  BY DEF PortalRespond, PortalInv, EventsInv
<1>3. PICK s \in {"confirmed", "cancelled"} : events' = [events EXCEPT ![e].status = s]
  BY DEF PortalRespond
<1>4. events' \in [DOMAIN events -> Row]
  BY <1>2, <1>3 DEF PortalInv, EventsInv, Row
<1>5. \A f \in DOMAIN events \ {e} : events'[f] = events[f]
  BY <1>2, <1>3 DEF PortalInv, EventsInv
<1>6. EventsInv'
  BY <1>1, <1>4, EventsStand DEF PortalInv, EventsInv, portalVars
<1>7. ProposalsInv'
  BY <1>1, <1>4, ProposalsStand DEF PortalInv, portalVars
<1>8. Honest
  BY <1>1, NoVerdict DEF portalVars
<1>. QED
  BY <1>2, <1>5, <1>6, <1>7, <1>8 DEF PortalInv, Sound, Revives

LEMMA PortalSubmitSound ==
  ASSUME PortalInv, NEW p \in Person, NEW k, NEW kind \in Kind, NEW e \in Event \cup {None}, NEW start \in Time,
         PortalSubmit(p, k, kind, e, start)
  PROVE  Sound
<1>1. p \in people /\ people' = people
  BY DEF PortalSubmit, Holds, LinksUntouched
<1>2. IF kind = "create" THEN e = None ELSE e \in DOMAIN events
  BY DEF PortalSubmit, PortalInv, EventsInv
<1>3. CASE Change(kind, p, e, start) /\ UNCHANGED <<proposals, filed>>
  <2>1. /\ EventsInv' /\ DOMAIN events \subseteq DOMAIN events'
        /\ \A f \in DOMAIN events : events[f].status = "cancelled" => events'[f].status = "cancelled"
    BY <1>1, <1>2, <1>3, ChangeKeeps DEF PortalInv
  <2>2. ProposalsInv'
    BY <1>1, <1>3, <2>1, ProposalsStand DEF PortalInv
  <2>3. Honest
    BY <1>3, NoVerdict
  <2>. QED
    BY <2>1, <2>2, <2>3 DEF PortalInv, Sound, Revives
<1>4. CASE File(p, kind, e, start) /\ UNCHANGED <<events, assigned, born>>
  <2>1. IF kind = "create" THEN e = None ELSE e \in DOMAIN events \cap Event
    BY <1>2 DEF PortalInv, EventsInv
  <2>2. /\ ProposalsInv'
        /\ \A i \in DOMAIN proposals \cap DOMAIN proposals' : proposals'[i] = proposals[i]
    BY <1>1, <1>4, <2>1, FileKeeps DEF PortalInv
  <2>3. EventsInv'
    BY <1>1, <1>4, EventsStand DEF PortalInv, EventsInv
  <2>4. Honest
    BY <2>2, NoVerdict
  <2>. QED
    BY <1>4, <2>2, <2>3, <2>4 DEF PortalInv, Sound, Revives
<1>. QED
  BY <1>3, <1>4 DEF PortalSubmit

LEMMA ProposeMoveSound ==
  ASSUME PortalInv, NEW t \in links, NEW start \in Time, ProposeMoveViaLink(t, start)
  PROVE  Sound
<1>1. /\ t.person \in people /\ t.event \in DOMAIN events /\ File(t.person, "move", t.event, start)
      /\ UNCHANGED <<events, assigned, born, people>>
  BY DEF ProposeMoveViaLink, Usable, LinksUntouched
<1>2. t.person \in Person /\ t.event \in DOMAIN events \cap Event /\ "move" \in Kind
  BY <1>1 DEF PortalInv, EventsInv, Kind
<1>3. /\ ProposalsInv'
      /\ \A i \in DOMAIN proposals \cap DOMAIN proposals' : proposals'[i] = proposals[i]
  BY <1>1, <1>2, FileKeeps DEF PortalInv
<1>4. EventsInv'
  BY <1>1, EventsStand DEF PortalInv, EventsInv
<1>5. Honest
  BY <1>3, NoVerdict
<1>. QED
  BY <1>1, <1>3, <1>4, <1>5 DEF PortalInv, Sound, Revives

LEMMA DecideProposalSound ==
  ASSUME PortalInv, NEW i \in DOMAIN proposals, NEW accept \in BOOLEAN, DecideProposal(i, accept)
  PROVE  Sound
<1>. DEFINE pr == proposals[i]
<1>1. pr \in Proposal /\ pr.decided = "open" /\ people' = people
  BY DEF DecideProposal, PortalInv, ProposalsInv, LinksUntouched
<1>2. pr.kind \in Kind /\ pr.startsAt \in Time /\ pr.person \in people
      /\ (pr.kind # "create" => pr.event \in DOMAIN events)
  BY <1>1 DEF Proposal, PortalInv, ProposalsInv, NoDanglingProposal
<1>3. CASE accept
  <2>1. Change(pr.kind, pr.person, pr.event, pr.startsAt) /\ Decided(i, "accepted")
    BY <1>3 DEF DecideProposal
  <2>2. /\ EventsInv' /\ DOMAIN events \subseteq DOMAIN events'
        /\ pr.kind = "cancel" => events'[pr.event].status = "cancelled"
        /\ pr.kind = "move" => events[pr.event].status # "cancelled" /\ events'[pr.event].startsAt = pr.startsAt
        /\ pr.kind = "create" => \E f \in DOMAIN events' \ DOMAIN events : <<f, pr.person>> \in assigned'
        /\ \A f \in DOMAIN events : events[f].status = "cancelled" => events'[f].status = "cancelled"
    BY <1>1, <1>2, <2>1, ChangeKeeps DEF PortalInv
  <2>3. /\ ProposalsInv' /\ DOMAIN proposals' = DOMAIN proposals
        /\ \A j \in DOMAIN proposals \ {i} : proposals'[j] = proposals[j]
    BY <1>1, <2>1, <2>2, DecidedKeeps DEF PortalInv
  <2>4. Done(pr)
    BY <1>2, <2>2 DEF Done, Kind
  <2>5. Honest
    BY <2>3, <2>4 DEF Honest
  <2>. QED
    BY <2>2, <2>3, <2>5 DEF PortalInv, Sound, Revives
<1>4. CASE ~accept
  <2>1. Decided(i, "declined") /\ UNCHANGED <<events, assigned, born>>
    BY <1>4 DEF DecideProposal
  <2>2. /\ ProposalsInv' /\ DOMAIN proposals' = DOMAIN proposals
        /\ \A j \in DOMAIN proposals \ {i} : proposals'[j] = proposals[j]
        /\ proposals'[i].decided = "declined"
    BY <1>1, <2>1, DecidedKeeps DEF PortalInv
  <2>3. EventsInv'
    BY <1>1, <2>1, EventsStand DEF PortalInv, EventsInv
  <2>4. Honest
    BY <2>2 DEF Honest
  <2>. QED
    BY <2>1, <2>2, <2>3, <2>4 DEF PortalInv, Sound, Revives
<1>. QED
  BY <1>3, <1>4

LEMMA DeletionsSound ==
  ASSUME PortalInv,
         \/ \E p \in Person : DeletePersonAndProposals(p)
         \/ \E e \in Event : DeleteEventAndProposals(e)
  PROVE  Sound
<1>1. ASSUME NEW p \in Person, DeletePersonAndProposals(p)
      PROVE  Sound
  <2>. DEFINE S == {i \in DOMAIN proposals : proposals[i].person # p}
  <2>1. /\ people' = people \ {p} /\ assigned' = {a \in assigned : a[2] # p}
        /\ UNCHANGED <<events, born, filed>> /\ Kept(S) /\ operator'
    BY <1>1 DEF DeletePersonAndProposals, DeletePerson, WithoutPerson
  <2>2. EventsInv'
    BY <2>1 DEF PortalInv, EventsInv
  <2>3. \A i \in S : /\ proposals[i].person \in people'
                     /\ proposals[i].kind # "create" => proposals[i].event \in DOMAIN events'
    BY <2>1 DEF PortalInv, ProposalsInv, NoDanglingProposal
  <2>4. ProposalsInv'
    BY <2>1, <2>3, KeptProposals DEF PortalInv
  <2>5. Honest
    BY <2>1, NoVerdict DEF Kept
  <2>. QED
    BY <2>1, <2>2, <2>4, <2>5 DEF PortalInv, Sound
<1>2. ASSUME NEW e \in Event, DeleteEventAndProposals(e)
      PROVE  Sound
  <2>. DEFINE S == {i \in DOMAIN proposals : proposals[i].event # e}
  <2>1. /\ events' = [f \in DOMAIN events \ {e} |-> events[f]] /\ assigned' = {a \in assigned : a[1] # e}
        /\ UNCHANGED <<people, born, filed>> /\ Kept(S) /\ operator'
    BY <1>2 DEF DeleteEventAndProposals, DeleteEvent, WithoutEvent
  <2>2. EventsInv'
    BY <2>1 DEF PortalInv, EventsInv
  <2>3. \A i \in S : /\ proposals[i].person \in people'
                     /\ proposals[i].kind # "create" => proposals[i].event \in DOMAIN events'
    BY <2>1 DEF PortalInv, ProposalsInv, NoDanglingProposal
  <2>4. ProposalsInv'
    BY <2>1, <2>3, KeptProposals DEF PortalInv
  <2>5. Honest
    BY <2>1, NoVerdict DEF Kept
  <2>. QED
    BY <2>1, <2>2, <2>4, <2>5 DEF PortalInv, Sound
<1>. QED
  BY <1>1, <1>2

\* RotatePortal and SetTrust.
LEMMA RightsSound ==
  ASSUME PortalInv,
         \/ \E p \in Person : RotatePortal(p)
         \/ \E p \in Person, t \in Trust : SetTrust(p, t)
  PROVE  Sound
<1>1. UNCHANGED <<events, assigned, people, born, proposals, filed>> /\ operator'
  BY DEF RotatePortal, SetTrust, LinksUntouched
<1>2. EventsInv'
  BY <1>1, EventsStand DEF PortalInv, EventsInv
<1>3. ProposalsInv'
  BY <1>1, ProposalsStand DEF PortalInv
<1>4. Honest
  BY <1>1, NoVerdict
<1>. QED
  BY <1>1, <1>2, <1>3, <1>4 DEF PortalInv, Sound

LEMMA StepSound ==
  ASSUME PortalInv, PortalNext
  PROVE  Sound
BY AnsweringSound, ManagingSound, PortalRespondSound, PortalSubmitSound, ProposeMoveSound,
   DecideProposalSound, DeletionsSound, RightsSound DEF PortalNext

LEMMA StepPortalInv == PortalInv /\ [PortalNext]_allVars => PortalInv'
<1>. SUFFICES ASSUME PortalInv, [PortalNext]_allVars
              PROVE  PortalInv'
  OBVIOUS
<1>1. CASE PortalNext
  BY <1>1, StepSound DEF Sound
<1>2. CASE UNCHANGED allVars
  BY <1>2 DEF PortalInv, EventsInv, ProposalsInv, NoDanglingProposal, WithinBudget, allVars, vars, state, portalVars
<1>. QED
  BY <1>1, <1>2

-----------------------------------------------------------------------------
\* The theorems.

\* A proposal's person and event outlive it: the operator can decide every one.
THEOREM ProposalsAreDecidable == PortalSpec => []NoDanglingProposal
<1>1. PortalInv => NoDanglingProposal
  BY DEF PortalInv, ProposalsInv
<1>. QED
  BY <1>1, InitPortalInv, StepPortalInv, PTL DEF PortalSpec

\* The budget of open proposals holds however portal, links, verdicts and deletions
\* take turns.
THEOREM BudgetHolds == PortalSpec => []WithinBudget
<1>1. PortalInv => WithinBudget
  BY DEF PortalInv, ProposalsInv
<1>. QED
  BY <1>1, InitPortalInv, StepPortalInv, PTL DEF PortalSpec

\* What is announced as accepted was done in the same step, whatever happened to its
\* event between the proposal and the verdict.
THEOREM AcceptedMeansDone == PortalSpec => AcceptedIsDone
<1>1. PortalInv /\ [PortalNext]_allVars => [Honest]_allVars
  BY StepSound DEF Sound
<1>2. Honest => \A i \in DOMAIN proposals \cap DOMAIN proposals' :
       proposals[i].decided = "open" /\ proposals'[i].decided = "accepted" =>
         LET pr == proposals[i]
         IN CASE pr.kind = "cancel" -> events'[pr.event].status = "cancelled"
              [] pr.kind = "move"   -> events[pr.event].status # "cancelled"
                                       /\ events'[pr.event].startsAt = pr.startsAt
              [] pr.kind = "create" -> \E e \in DOMAIN events' \ DOMAIN events :
                                         <<e, pr.person>> \in assigned'
  BY DEF Honest, Done
<1>. QED
  BY <1>1, <1>2, InitPortalInv, StepPortalInv, PTL DEF PortalSpec, AcceptedIsDone

\* Nobody but the operator brings a cancelled event back.
THEOREM RevivalIsTheOperators == PortalSpec => OnlyTheOperatorRevives
<1>1. PortalInv /\ [PortalNext]_allVars =>
        [~operator' => \A e \in DOMAIN events \cap DOMAIN events' :
           events[e].status = "cancelled" => events'[e].status = "cancelled"]_allVars
  BY StepSound DEF Sound, Revives
<1>. QED
  BY <1>1, InitPortalInv, StepPortalInv, PTL DEF PortalSpec, OnlyTheOperatorRevives
=============================================================================
