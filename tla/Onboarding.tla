----------------------------- MODULE Onboarding -----------------------------
(***************************************************************************)
(* Telegram onboarding, on top of the poller: the operator hands over a    *)
(* token, "/start token" from a private chat binds that chat, and          *)
(* meanwhile people edit the same channel list, in the panel's form or by  *)
(* the command line, which read it in one request and write it in another. *)
(*                                                                         *)
(* Abstractions.  An update here is a /start; presses are module Links'.   *)
(* A token is known by its person and how many it had before.  Channels    *)
(* are mail addresses and chats, of which nobody starts with two chats;    *)
(* validation and the redaction of webhook addresses are left out.  A      *)
(* person who may be deleted is responsible for nothing that is still to   *)
(* come.                                                                   *)
(***************************************************************************)
EXTENDS TelegramPoller

CONSTANTS
  Person, User, Group, Mail,
  None,          \* no address, no form, no request
  TTL            \* TelegramOnboardTTL

CONSTANTS        \* bounds of the model, not of the code
  MaxMints,      \* tokens minted per person
  Horizon        \* the last clock reading

Chat    == User \cup Group
Token   == [person: Person, mint: 1..MaxMints]
Address == [kind: {"email"}, to: Mail] \cup [kind: {"telegram"}, to: Chat]
Link    == [token: Token, expiresAt: Nat]

ASSUME OnboardingAssumption ==
  /\ Payload \subseteq [token: Token, chat: Chat, from: User]
  /\ None \notin Mail \cup Chat /\ User \cap Group = {}
  /\ TTL \in Nat /\ MaxMints \in Nat /\ Horizon \in Nat

VARIABLES
  now,
  people,        \* who has a row in state.People
  channels,      \* each person's Channels
  onboardings,   \* state.TelegramOnboardings
  form,          \* a people page in somebody's browser: what its two fields show
  request,       \* an edit between reading the person and UpdatePerson
  minted,        \* history: tokens minted per person
  bound          \* history: the chats bound, each with its token

onboardVars == <<now, people, channels, onboardings, form, request, minted, bound>>

\* The outstanding tokens of a person: never more than one.
Of(p) == {o \in onboardings : o.token.person = p}

OnboardTypeOK ==
  /\ now \in 0..Horizon
  /\ people \subseteq Person
  /\ channels \in [Person -> Seq(Address)]
  /\ onboardings \subseteq Link
  /\ \A o \in onboardings : o.token.person \in people /\ Of(o.token.person) = {o}
  /\ form = None \/ form \in [person: Person, telegram: Chat \cup {None}]
  /\ request = None \/ request \in [person: Person, channels: Seq(Address), keeps: BOOLEAN]
  /\ minted \in [Person -> 0..MaxMints]
  /\ bound \in Seq([token: Token, chat: User])

\* Everybody starts with a mail address, some also with a chat typed in by hand.
OnboardInit ==
  /\ PollerInit
  /\ now = 0 /\ people = Person
  /\ channels \in [Person -> {<<[kind |-> "email", to |-> m]>> : m \in Mail}
        \cup {<<[kind |-> "email", to |-> m], [kind |-> "telegram", to |-> g]>> : m \in Mail, g \in Group}]
  /\ onboardings = {} /\ form = None /\ request = None
  /\ minted = [p \in Person |-> 0] /\ bound = <<>>

-----------------------------------------------------------------------------
\* Channel lists.

Slots(list, kind) == {i \in DOMAIN list : list[i].kind = kind}

\* The first of a kind is the slot the form and the command line edit.
Slot(list, kind) == CHOOSE i \in Slots(list, kind) : \A j \in Slots(list, kind) : i <= j
Shown(list, kind) == IF Slots(list, kind) = {} THEN None ELSE list[Slot(list, kind)].to

\* A slot as a list: empty when it is dropped.
AsList(kind, to) == IF to = None THEN <<>> ELSE <<[kind |-> kind, to |-> to]>>

\* The rest of a list, its slots taken out.
Others(list) ==
  LET IsSlot(i) == \E kind \in {"email", "telegram"} : Slots(list, kind) # {} /\ i = Slot(list, kind)
  IN [k \in 1..Cardinality({i \in DOMAIN list : ~IsSlot(i)}) |->
        list[SetToSortSeq({i \in DOMAIN list : ~IsSlot(i)}, <)[k]]]

PatchChannels(list, email, telegram) ==
  AsList("email", email) \o AsList("telegram", telegram) \o Others(list)

\* The list with a proven chat in its Telegram slot.
WithChat(list, chat) ==
  IF Slots(list, "telegram") = {}
  THEN Append(list, [kind |-> "telegram", to |-> chat])
  ELSE [list EXCEPT ![Slot(list, "telegram")].to = chat]

-----------------------------------------------------------------------------
\* Tokens.

\* Mutant of CreateTelegramOnboarding: the earlier token stays.
CreateBeside(p) ==
  /\ p \in people /\ minted[p] < MaxMints
  /\ minted' = [minted EXCEPT ![p] = @ + 1]
  /\ onboardings' = onboardings \cup {[token |-> [person |-> p, mint |-> minted'[p]], expiresAt |-> now + TTL]}
  /\ UNCHANGED <<pollerVars, now, people, channels, form, request, bound>>

CreateTelegramOnboarding(p) ==
  /\ p \in people /\ minted[p] < MaxMints
  /\ minted' = [minted EXCEPT ![p] = @ + 1]
  /\ onboardings' = (onboardings \ Of(p))
        \cup {[token |-> [person |-> p, mint |-> minted'[p]], expiresAt |-> now + TTL]}
  /\ UNCHANGED <<pollerVars, now, people, channels, form, request, bound>>

\* What BindTelegram turns away before it looks at anything else.
Refused(m) == m.chat # m.from \/ \A o \in onboardings : o.token # m.token

\* Mutant of Spent: the token stays until it expires.
SpentWhenOld(m) == {o \in onboardings : o.token = m.token /\ o.expiresAt <= now}

Spent(m) == {o \in onboardings : o.token = m.token}

\* BindTelegram: the token is spent, also by a /start that comes too late.
BindTelegram(m) ==
  IF Refused(m)
  THEN UNCHANGED <<channels, onboardings, bound>>
  ELSE /\ onboardings' = onboardings \ Spent(m)
       /\ IF m.token.person \in people /\ \E o \in onboardings : o.token = m.token /\ now < o.expiresAt
          THEN /\ channels' = [channels EXCEPT ![m.token.person] = WithChat(@, m.chat)]
               /\ bound' = Append(bound, [token |-> m.token, chat |-> m.chat])
          ELSE UNCHANGED <<channels, bound>>

\* handleMessage: the poller's next update is a /start.
HandleStart ==
  /\ \E u \in batch : Handle(u) /\ BindTelegram(sent[u].says)
  /\ UNCHANGED <<now, people, form, request, minted>>

-----------------------------------------------------------------------------
\* Editing a person.

Aside == UNCHANGED <<pollerVars, now, people, onboardings, minted, bound>>

\* GET /admin/people.
OpenForm(p) ==
  /\ p \in people /\ form = None
  /\ form' = [person |-> p, telegram |-> Shown(channels[p], "telegram")]
  /\ UNCHANGED <<channels, request>> /\ Aside

\* What is written back: the list as read, one slot or two replaced.
Edited(p, email, telegram) == PatchChannels(channels[p], email, telegram)

\* POST /admin/people/{id}/edit, up to its read of the person: both fields count.
SubmitForm(email) ==
  /\ form # None /\ request = None /\ form.person \in people
  /\ request' = [person |-> form.person, keeps |-> FALSE,
                 channels |-> Edited(form.person, email, form.telegram)]
  /\ form' = None
  /\ UNCHANGED channels /\ Aside

\* person set --email, up to its PATCH: the Telegram slot is kept as read.
PersonSet(p, email) ==
  /\ p \in people /\ request = None
  /\ request' = [person |-> p, keeps |-> TRUE,
                 channels |-> Edited(p, email, Shown(channels[p], "telegram"))]
  /\ UNCHANGED <<channels, form>> /\ Aside

\* The write of either.
UpdatePerson ==
  /\ request # None /\ request' = None
  /\ channels' = IF request.person \in people
                 THEN [channels EXCEPT ![request.person] = request.channels] ELSE channels
  /\ UNCHANGED form /\ Aside

-----------------------------------------------------------------------------
DeletePerson(p) ==
  /\ p \in people /\ people' = people \ {p}
  /\ channels' = [channels EXCEPT ![p] = <<>>]
  /\ onboardings' = onboardings \ Of(p)
  /\ UNCHANGED <<pollerVars, now, form, request, minted, bound>>

AdvanceTime ==
  /\ now < Horizon /\ now' = now + 1
  /\ UNCHANGED <<pollerVars, people, channels, onboardings, form, request, minted, bound>>

\* What the poller and Telegram do besides.
Polling ==
  /\ \/ \E says \in Payload : says.token.mint <= minted[says.token.person] /\ Arrive(says)
     \/ Start \/ Crash
     \/ \E answered \in BOOLEAN : SeedOffset(answered) \/ Poll(answered)
  /\ UNCHANGED onboardVars

Editing ==
  \/ \E p \in Person : OpenForm(p)
  \/ \E email \in Mail \cup {None} : SubmitForm(email) \/ \E p \in Person : PersonSet(p, email)
  \/ UpdatePerson

OnboardNext ==
  \/ Polling
  \/ HandleStart
  \/ Editing
  \/ \E p \in Person : CreateTelegramOnboarding(p) \/ DeletePerson(p)
  \/ AdvanceTime

OnboardSpec == OnboardInit /\ [][OnboardNext]_<<pollerVars, onboardVars>>

-----------------------------------------------------------------------------
\* Properties.

\* A token binds one chat, once, whatever is sent again, replayed by a restart or
\* tapped by somebody it leaked to ("single use: gone whatever happens next").
BindsOnce == \A i, j \in DOMAIN bound : bound[i].token = bound[j].token => i = j

\* Only the newest token of a person binds: handing out another revokes the one
\* that may be under way in Telegram's queue (CreateTelegramOnboarding).
NewestBinds ==
  [][bound' # bound => Last(bound').token.mint = minted[Last(bound').token.person]]_<<pollerVars, onboardVars>>

\* A token is not wasted: it is there until it bound a chat, ran out, was replaced
\* or lost its person - no group and no stranger's message spends it, and no crash
\* between two updates (BindTelegram: "refused without spending the token").
NeverWasted ==
  \A p \in people :
    minted[p] > 0 =>
      \/ \E o \in onboardings : o.token = [person |-> p, mint |-> minted[p]]
      \/ \E i \in DOMAIN bound : bound[i].token = [person |-> p, mint |-> minted[p]]
      \/ now >= TTL

\* Who just bound a chat is reached there and nowhere else by Telegram, and may press
\* its buttons: no chat from before stays next to it (BindTelegram, VerifyTelegramActor).
OneChatAfterBinding ==
  [][bound' # bound =>
       LET list == channels'[Last(bound').token.person]
       IN {list[i].to : i \in Slots(list, "telegram")} = {Last(bound').chat}]_<<pollerVars, onboardVars>>

\* "--email edits its one slot ... nothing else" (cmdPersonSet): a change of the
\* mail address leaves the chat alone.
EditsItsOneSlot ==
  [][request # None /\ request' = None /\ request.keeps =>
       Shown(channels'[request.person], "telegram") = Shown(channels[request.person], "telegram")]_<<pollerVars, onboardVars>>
=============================================================================
