-------------------------- MODULE OnboardingProofs --------------------------
(***************************************************************************)
(* What holds of the poller and of the tokens it brings, for any number of *)
(* updates, restarts, people and clocks.  The poller's invariant is about  *)
(* what a poll at the current offset can still return: nothing from before *)
(* this start, and nothing up to the last update applied.                  *)
(***************************************************************************)
EXTENDS Onboarding, SequenceTheorems, TLAPS

PollerTypes ==
  /\ sent \in Seq(Update) /\ run \in Nat /\ offset \in Nat
  /\ pending \subseteq 1..Len(sent)
  /\ handled \in Seq((1..Len(sent)) \X Nat)

\* What a poll may return from here on.
KeptIsNew ==
  phase \in {"polling", "handling"} =>
    \A u \in Kept(offset) :
      sent[u].run = run /\ \A i \in DOMAIN handled : handled[i][1] < u

BatchIsKept == phase = "handling" => batch \subseteq Kept(offset)

PollerInv == PollerTypes /\ KeptIsNew /\ BatchIsKept /\ HandledInOrder

\* Every token given out is numbered; one that has a row is its person's newest, and
\* one that bound a chat has none.
TokensInv ==
  /\ minted \in [Person -> 0..MaxMints]
  /\ bound \in Seq([token: Token, chat: Chat])
  /\ \A o \in onboardings : o.token \in Token /\ o.token.mint = minted[o.token.person]
  /\ \A i \in DOMAIN bound :
       /\ bound[i].token.mint <= minted[bound[i].token.person]
       /\ \A o \in onboardings : o.token # bound[i].token
  /\ BindsOnce

-----------------------------------------------------------------------------
\* The poller.

LEMMA PollerNumbers ==
  ASSUME PollerTypes
  PROVE  /\ Len(sent) \in Nat /\ \A u \in pending : u \in Nat
         /\ DOMAIN handled = 1..Len(handled) /\ Len(handled) \in Nat
         /\ \A i \in DOMAIN handled : handled[i][1] \in 1..Len(sent) /\ handled[i][1] \in Nat
<1>1. Len(sent) \in Nat /\ \A u \in pending : u \in Nat
  BY DEF PollerTypes
<1>2. DOMAIN handled = 1..Len(handled) /\ Len(handled) \in Nat
  BY DEF PollerTypes
<1>3. \A i \in DOMAIN handled : handled[i] \in (1..Len(sent)) \X Nat
  BY DEF PollerTypes
<1>4. \A i \in DOMAIN handled : handled[i][1] \in 1..Len(sent)
  BY <1>3
<1>5. \A u \in 1..Len(sent) : u \in Nat
  BY <1>1
<1>. QED
  BY <1>1, <1>2, <1>4, <1>5

LEMMA PollerInitInv == PollerInit => PollerInv
BY PollerAssumption DEF PollerInit, PollerInv, PollerTypes, KeptIsNew, BatchIsKept, HandledInOrder

\* An update that arrives is newer than everything that was applied.
LEMMA ArriveKeeps ==
  ASSUME PollerInv, NEW says \in Payload, run \in 0..MaxRuns, Arrive(says)
  PROVE  PollerInv'
<1>. DEFINE new == [says |-> says, run |-> run, seeded |-> phase \in {"polling", "handling"}]
            n == Len(sent) + 1
<1>1. /\ sent' = Append(sent, new) /\ UNCHANGED <<phase, offset, batch, run, handled>>
      /\ pending' = pending \cup {Len(sent')}
  BY DEF Arrive
<1>2. new \in Update
  BY DEF Update
<1>3. /\ sent' \in Seq(Update) /\ Len(sent') = n /\ n \in Nat /\ sent'[n].run = run
      /\ \A u \in 1..Len(sent) : sent'[u] = sent[u]
  BY <1>1, <1>2 DEF PollerInv, PollerTypes
<1>4. PollerTypes'
  <2>1. handled \in Seq((1..n) \X Nat)
    <3>1. (1..Len(sent)) \X Nat \subseteq (1..n) \X Nat
      BY DEF PollerInv, PollerTypes
    <3>. QED
      BY <3>1 DEF PollerInv, PollerTypes
  <2>2. pending' \subseteq 1..Len(sent')
    <3>1. pending \subseteq 1..Len(sent) /\ Len(sent) \in Nat
      BY PollerNumbers DEF PollerInv, PollerTypes
    <3>2. pending' = pending \cup {n} /\ 1..Len(sent) \subseteq 1..n /\ n \in 1..n
      BY <1>1, <1>3, <3>1
    <3>. QED
      BY <1>3, <3>1, <3>2
  <2>. QED
    BY <1>1, <1>3, <2>1, <2>2 DEF PollerInv, PollerTypes
<1>5. KeptIsNew'
  <2>. SUFFICES ASSUME phase \in {"polling", "handling"}, NEW u \in Kept(offset)'
                PROVE  sent'[u].run = run /\ \A i \in DOMAIN handled : handled[i][1] < u
    BY <1>1 DEF KeptIsNew
  <2>1. u \in Kept(offset) \/ u = n
    BY <1>1, <1>3 DEF Kept
  <2>2. CASE u \in Kept(offset)
    BY <2>2, <1>3 DEF PollerInv, PollerTypes, KeptIsNew, Kept
  <2>3. CASE u = n
    <3>1. \A i \in DOMAIN handled : handled[i][1] \in 1..Len(sent)
      BY DEF PollerInv, PollerTypes
    <3>. QED
      BY <2>3, <3>1, <1>3 DEF PollerInv, PollerTypes
  <2>. QED
    BY <2>1, <2>2, <2>3
<1>6. BatchIsKept' /\ HandledInOrder'
  BY <1>1 DEF PollerInv, BatchIsKept, HandledInOrder, Kept
<1>. QED
  BY <1>4, <1>5, <1>6 DEF PollerInv

\* Nothing that is there survives a seeded offset.
LEMMA SeedKeeps ==
  ASSUME PollerInv, NEW answered \in BOOLEAN, SeedOffset(answered)
  PROVE  PollerInv'
<1>1. /\ phase = "seeding" /\ pending' = Newest /\ UNCHANGED <<sent, batch, run, handled>>
      /\ \/ offset' = (IF Newest = {} THEN 0 ELSE (CHOOSE u \in Newest : TRUE) + 1) /\ phase' = "polling"
         \/ UNCHANGED <<offset, phase>>
  BY DEF SeedOffset
<1>2. pending' \subseteq 1..Len(sent)
  BY <1>1 DEF PollerInv, PollerTypes, Newest
<1>3. ASSUME offset' = (IF Newest = {} THEN 0 ELSE (CHOOSE u \in Newest : TRUE) + 1)
      PROVE  offset' \in Nat /\ Kept(offset)' = {}
  <2>1. CASE Newest = {}
    <3>1. offset' = 0 /\ pending' = {}
      BY <1>1, <1>3, <2>1
    <3>. QED
      BY <3>1 DEF Kept
  <2>2. CASE Newest # {}
    <3>1. PICK w \in Newest : offset' = w + 1
      BY <1>3, <2>2
    <3>2. Newest \subseteq pending /\ \A v \in Newest : v <= w
      BY DEF Newest
    <3>3. w \in Nat /\ \A v \in Newest : v \in Nat /\ ~(v >= w + 1)
      BY <3>2, PollerNumbers DEF PollerInv
    <3>4. Kept(offset)' = {v \in Newest : v >= w + 1}
      BY <1>1, <3>1 DEF Kept
    <3>5. offset' \in Nat
      BY <3>1, <3>3
    <3>. QED
      BY <3>3, <3>4, <3>5
  <2>. QED
    BY <2>1, <2>2
<1>4. PollerTypes'
  BY <1>1, <1>2, <1>3 DEF PollerInv, PollerTypes
<1>5. KeptIsNew' /\ BatchIsKept'
  BY <1>1, <1>3 DEF KeptIsNew, BatchIsKept
<1>. QED
  BY <1>1, <1>4, <1>5 DEF PollerInv, HandledInOrder

LEMMA PollKeeps ==
  ASSUME PollerInv, NEW answered \in BOOLEAN, Poll(answered)
  PROVE  PollerInv'
<1>1. /\ phase = "polling" /\ pending' = Kept(offset) /\ UNCHANGED <<sent, offset, run, handled>>
      /\ \/ batch' = Returned(offset) /\ phase' = "handling"
         \/ UNCHANGED <<batch, phase>>
  BY DEF Poll
<1>2. Kept(offset)' = Kept(offset) /\ Returned(offset) \subseteq Kept(offset)
  BY <1>1 DEF Kept, Returned
<1>3. PollerTypes'
  BY <1>1 DEF PollerInv, PollerTypes, Kept
<1>4. KeptIsNew' /\ BatchIsKept'
  BY <1>1, <1>2 DEF PollerInv, KeptIsNew, BatchIsKept
<1>. QED
  BY <1>1, <1>3, <1>4 DEF PollerInv, HandledInOrder

\* The update that is applied is new, came in this run, and closes the door behind it.
LEMMA HandleKeeps ==
  ASSUME PollerInv, NEW u \in batch, Handle(u)
  PROVE  PollerInv' /\ sent[u].run = run /\ handled' = Append(handled, <<u, run>>)
<1>1. /\ phase = "handling" /\ u \in Kept(offset) /\ batch \subseteq Kept(offset)
      /\ u \in 1..Len(sent) /\ u \in Nat /\ offset <= u /\ offset \in Nat
  <2>1. phase = "handling" /\ batch \subseteq Kept(offset)
    BY DEF Handle, PollerInv, BatchIsKept
  <2>2. u \in pending /\ u >= offset
    BY <2>1 DEF Kept
  <2>3. u \in Nat /\ offset \in Nat /\ u \in 1..Len(sent)
    BY <2>2, PollerNumbers DEF PollerInv, PollerTypes
  <2>. QED
    BY <2>1, <2>2, <2>3
<1>2. /\ \A v \in batch : u <= v
      /\ offset' = u + 1 /\ handled' = Append(handled, <<u, run>>) /\ batch' = batch \ {u}
      /\ phase' \in {"polling", "handling"} /\ UNCHANGED <<sent, pending, run>>
  BY <1>1 DEF Handle, Advanced, PollerInv, PollerTypes
<1>3. sent[u].run = run /\ \A i \in DOMAIN handled : handled[i][1] < u
  BY <1>1 DEF PollerInv, KeptIsNew
<1>4. /\ handled' \in Seq((1..Len(sent)) \X Nat) /\ DOMAIN handled' = 1..(Len(handled) + 1)
      /\ \A i \in DOMAIN handled : handled'[i] = handled[i]
      /\ handled'[Len(handled) + 1] = <<u, run>>
      /\ DOMAIN handled = 1..Len(handled) /\ Len(handled) \in Nat
  BY <1>1, <1>2 DEF PollerInv, PollerTypes
<1>5. PollerTypes'
  BY <1>1, <1>2, <1>4 DEF PollerInv, PollerTypes
<1>6. Kept(offset)' = {v \in pending : v >= u + 1} /\ Kept(offset)' \subseteq Kept(offset)
  <2>1. \A v \in pending : v \in Nat
    BY PollerNumbers DEF PollerInv
  <2>2. Kept(offset)' = {v \in pending : v >= u + 1}
    BY <1>2 DEF Kept
  <2>3. \A v \in pending : v >= u + 1 => v >= offset
    BY <1>1, <2>1
  <2>. QED
    BY <2>2, <2>3 DEF Kept
<1>7. KeptIsNew'
  <2>. SUFFICES ASSUME NEW v \in Kept(offset)'
                PROVE  sent[v].run = run /\ \A i \in DOMAIN handled' : handled'[i][1] < v
    BY <1>2 DEF KeptIsNew
  <2>1. sent[v].run = run
    BY <1>1, <1>6 DEF PollerInv, KeptIsNew
  <2>2. v \in Nat /\ u < v
    BY <1>1, <1>6, PollerNumbers DEF PollerInv
  <2>3. ASSUME NEW i \in DOMAIN handled'
        PROVE  handled'[i][1] < v
    <3>1. CASE i \in DOMAIN handled
      BY <3>1, <1>1, <1>4, <1>6 DEF PollerInv, KeptIsNew
    <3>2. CASE i = Len(handled) + 1
      BY <3>2, <1>4, <2>2
    <3>. QED
      BY <3>1, <3>2, <1>4
  <2>. QED
    BY <2>1, <2>3
<1>8. BatchIsKept'
  <2>. SUFFICES ASSUME NEW v \in batch \ {u}
                PROVE  v \in pending /\ v >= u + 1
    BY <1>2, <1>6 DEF BatchIsKept
  <2>1. v \in pending /\ u <= v /\ u # v
    BY <1>1, <1>2 DEF Kept
  <2>. QED
    BY <1>1, <2>1, PollerNumbers DEF PollerInv
<1>9. HandledInOrder'
  <2>. SUFFICES ASSUME NEW i \in DOMAIN handled', NEW j \in DOMAIN handled', i < j
                PROVE  handled'[i][1] < handled'[j][1]
    BY DEF HandledInOrder
  <2>1. CASE j \in DOMAIN handled
    <3>1. i \in DOMAIN handled
      BY <2>1, <1>4
    <3>2. handled[i][1] < handled[j][1]
      BY <2>1, <3>1 DEF PollerInv, HandledInOrder
    <3>. QED
      BY <2>1, <3>1, <3>2, <1>4
  <2>2. CASE j = Len(handled) + 1
    <3>1. i \in DOMAIN handled
      BY <2>2, <1>4
    <3>. QED
      BY <2>2, <3>1, <1>3, <1>4
  <2>. QED
    BY <2>1, <2>2, <1>4
<1>. QED
  BY <1>2, <1>3, <1>5, <1>7, <1>8, <1>9 DEF PollerInv

\* A start forgets the offset, and a crash leaves nothing that may be applied.
LEMMA RestartKeeps ==
  ASSUME PollerInv, Start \/ Crash
  PROVE  PollerInv'
<1>1. phase' \in {"down", "seeding"} /\ UNCHANGED <<sent, pending, handled>> /\ run' \in Nat /\ offset' \in Nat
  BY DEF Start, Crash, PollerInv, PollerTypes
<1>. QED
  BY <1>1 DEF PollerInv, PollerTypes, KeptIsNew, BatchIsKept, HandledInOrder

\* The number of starts is bounded in the model, and in the type of an update.
RunIsSmall == run \in 0..MaxRuns

LEMMA PollerStepInv == PollerInv /\ RunIsSmall /\ [PollerNext]_pollerVars => PollerInv' /\ RunIsSmall'
<1>. SUFFICES ASSUME PollerInv, RunIsSmall, [PollerNext]_pollerVars
              PROVE  PollerInv' /\ RunIsSmall'
  OBVIOUS
<1>1. ASSUME NEW says \in Payload, Arrive(says)
      PROVE  PollerInv' /\ RunIsSmall'
  BY <1>1, ArriveKeeps DEF RunIsSmall, Arrive
<1>2. ASSUME NEW answered \in BOOLEAN, SeedOffset(answered)
      PROVE  PollerInv' /\ RunIsSmall'
  BY <1>2, SeedKeeps DEF RunIsSmall, SeedOffset
<1>3. ASSUME NEW answered \in BOOLEAN, Poll(answered)
      PROVE  PollerInv' /\ RunIsSmall'
  BY <1>3, PollKeeps DEF RunIsSmall, Poll
<1>4. ASSUME NEW u \in batch, Handle(u)
      PROVE  PollerInv' /\ RunIsSmall'
  BY <1>4, HandleKeeps DEF RunIsSmall, Handle
<1>5. ASSUME Start
      PROVE  PollerInv' /\ RunIsSmall'
  <2>1. run' \in 0..MaxRuns
    BY <1>5, PollerAssumption DEF Start, RunIsSmall
  <2>. QED
    BY <1>5, <2>1, RestartKeeps DEF RunIsSmall
<1>6. ASSUME Crash
      PROVE  PollerInv' /\ RunIsSmall'
  BY <1>6, RestartKeeps DEF RunIsSmall, Crash
<1>7. CASE UNCHANGED pollerVars
  <2>1. Kept(offset)' = Kept(offset)
    BY <1>7 DEF pollerVars, Kept
  <2>. QED
    BY <1>7, <2>1 DEF pollerVars, PollerInv, PollerTypes, KeptIsNew, BatchIsKept, HandledInOrder, RunIsSmall
<1>. QED
  BY <1>1, <1>2, <1>3, <1>4, <1>5, <1>6, <1>7 DEF PollerNext

\* An update is applied in the run in which it arrived, and only by Handle.
LEMMA HandledFresh ==
  ASSUME PollerInv, PollerNext, handled' # handled
  PROVE  sent[Last(handled')[1]].run = Last(handled')[2]
<1>1. PICK u \in batch : Handle(u)
  BY DEF PollerNext, Arrive, Start, Crash, SeedOffset, Poll
<1>2. sent[u].run = run /\ handled' = Append(handled, <<u, run>>)
  BY <1>1, HandleKeeps
<1>3. Last(handled') = <<u, run>>
  BY <1>2 DEF Last, PollerInv, PollerTypes
<1>. QED
  BY <1>2, <1>3

-----------------------------------------------------------------------------
\* The tokens.

OnboardInv == PollerInv /\ RunIsSmall /\ TokensInv

LEMMA OnboardInitInv == OnboardInit => OnboardInv
<1>. SUFFICES ASSUME OnboardInit PROVE OnboardInv
  OBVIOUS
<1>1. PollerInv
  BY PollerInitInv DEF OnboardInit
<1>2. RunIsSmall
  BY PollerAssumption DEF OnboardInit, PollerInit, RunIsSmall
<1>3. TokensInv
  BY OnboardingAssumption DEF OnboardInit, TokensInv, BindsOnce
<1>. QED
  BY <1>1, <1>2, <1>3 DEF OnboardInv

\* With no token given out, none of what is said of them changes.
LEMMA TokensStand ==
  ASSUME TokensInv, UNCHANGED <<minted, bound>>, onboardings' \subseteq onboardings
  PROVE  TokensInv'
BY DEF TokensInv, BindsOnce

LEMMA CreateKeeps ==
  ASSUME TokensInv, NEW p \in Person, CreateTelegramOnboarding(p)
  PROVE  TokensInv'
<1>. DEFINE t == [person |-> p, mint |-> minted[p] + 1]
            o0 == [token |-> t, expiresAt |-> now + TTL]
<1>1. /\ minted[p] < MaxMints /\ minted' = [minted EXCEPT ![p] = minted[p] + 1] /\ bound' = bound
      /\ minted[p] \in 0..MaxMints
  BY DEF CreateTelegramOnboarding, TokensInv
<1>2. minted'[p] = minted[p] + 1 /\ \A q \in Person \ {p} : minted'[q] = minted[q]
  BY <1>1 DEF TokensInv
<1>3. onboardings' = (onboardings \ Of(p)) \cup {o0}
  BY <1>2 DEF CreateTelegramOnboarding
<1>4. t \in Token /\ minted' \in [Person -> 0..MaxMints]
  BY <1>1, OnboardingAssumption DEF Token, TokensInv
<1>5. \A i \in DOMAIN bound : bound[i].token \in Token
  <2>1. bound \in Seq([token: Token, chat: Chat])
    BY DEF TokensInv
  <2>2. \A i \in 1..Len(bound) : bound[i] \in [token: Token, chat: Chat]
    BY <2>1, ElementOfSeq
  <2>3. DOMAIN bound = 1..Len(bound)
    BY <2>1
  <2>. QED
    BY <2>2, <2>3
<1>6. ASSUME NEW o \in onboardings'
      PROVE  o.token \in Token /\ o.token.mint = minted'[o.token.person]
  <2>1. CASE o = o0
    BY <2>1, <1>2, <1>4
  <2>2. CASE o \in onboardings \ Of(p)
    <3>1. o.token \in Token /\ o.token.mint = minted[o.token.person] /\ o.token.person # p
      BY <2>2 DEF TokensInv, Of
    <3>. QED
      BY <3>1, <1>2 DEF Token
  <2>. QED
    BY <2>1, <2>2, <1>3
<1>7. ASSUME NEW i \in DOMAIN bound
      PROVE  /\ bound[i].token.mint <= minted'[bound[i].token.person]
             /\ \A o \in onboardings' : o.token # bound[i].token
  <2>. DEFINE b == bound[i].token
  <2>1. b \in Token /\ b.person \in Person /\ b.mint \in Nat /\ b.mint <= minted[b.person]
    BY <1>5 DEF TokensInv, Token
  <2>2. b.mint <= minted'[b.person]
    BY <2>1, <1>1, <1>2
  <2>3. b # t
    BY <2>1, <1>1
  <2>. QED
    BY <2>2, <2>3, <1>3 DEF TokensInv
<1>8. BindsOnce'
  BY <1>1 DEF TokensInv, BindsOnce
<1>. QED
  BY <1>1, <1>4, <1>6, <1>7, <1>8 DEF TokensInv

\* A /start that binds takes its token's row away and is the only one to bear it.
LEMMA BindKeeps ==
  ASSUME TokensInv, NEW m \in Payload, BindTelegram(m), minted' = minted
  PROVE  /\ TokensInv'
         /\ bound' # bound => Last(bound').token.mint = minted[Last(bound').token.person]
<1>1. m.token \in Token /\ m.chat \in Chat
  BY OnboardingAssumption
<1>2. onboardings' \subseteq onboardings
  BY DEF BindTelegram
<1>3. CASE bound' = bound
  BY <1>2, <1>3, TokensStand
<1>4. CASE bound' # bound
  <2>. DEFINE row == [token |-> m.token, chat |-> m.chat]
              n == Len(bound) + 1
  <2>1. /\ bound' = Append(bound, row) /\ onboardings' = onboardings \ Spent(m)
        /\ \E o \in onboardings : o.token = m.token
    BY <1>4 DEF BindTelegram
  <2>2. m.token.mint = minted[m.token.person] /\ \A o \in onboardings' : o.token # m.token
    BY <2>1 DEF TokensInv, Spent
  <2>3. row \in [token: Token, chat: Chat]
    BY <1>1
  <2>4. /\ bound' \in Seq([token: Token, chat: Chat]) /\ Len(bound') = n /\ Len(bound) \in Nat
        /\ DOMAIN bound' = 1..n /\ DOMAIN bound = 1..Len(bound)
        /\ bound'[n] = row /\ \A i \in DOMAIN bound : bound'[i] = bound[i]
    BY <2>1, <2>3 DEF TokensInv
  <2>5. Last(bound') = row
    BY <2>4 DEF Last
  <2>6. m.token.mint \in Nat /\ m.token.person \in Person
    BY <1>1 DEF Token
  <2>7. ASSUME NEW i \in DOMAIN bound'
        PROVE  /\ bound'[i].token.mint <= minted[bound'[i].token.person]
               /\ \A o \in onboardings' : o.token # bound'[i].token
    <3>1. CASE i \in DOMAIN bound
      BY <3>1, <2>4, <1>2 DEF TokensInv
    <3>2. CASE i = n
      BY <3>2, <2>2, <2>4, <2>6
    <3>. QED
      BY <3>1, <3>2, <2>4
  <2>8. \A i \in DOMAIN bound : bound[i].token # m.token
    BY <2>1 DEF TokensInv
  <2>9. BindsOnce'
    <3>. SUFFICES ASSUME NEW i \in DOMAIN bound', NEW j \in DOMAIN bound', bound'[i].token = bound'[j].token
                  PROVE  i = j
      BY DEF BindsOnce
    <3>1. CASE i \in DOMAIN bound /\ j \in DOMAIN bound
      BY <3>1, <2>4 DEF TokensInv, BindsOnce
    <3>2. ASSUME NEW k \in DOMAIN bound
          PROVE  bound'[k].token # bound'[n].token
      BY <2>4, <2>8
    <3>. QED
      BY <3>1, <3>2, <2>4
  <2>10. \A o \in onboardings' : o.token \in Token /\ o.token.mint = minted[o.token.person]
    BY <1>2 DEF TokensInv
  <2>. QED
    BY <2>2, <2>4, <2>5, <2>7, <2>9, <2>10 DEF TokensInv
<1>. QED
  BY <1>3, <1>4

LEMMA HandleStartKeeps ==
  ASSUME OnboardInv, HandleStart
  PROVE  /\ TokensInv' /\ PollerNext
         /\ bound' # bound => Last(bound').token.mint = minted[Last(bound').token.person]
<1>1. PICK u \in batch : Handle(u) /\ BindTelegram(sent[u].says)
  BY DEF HandleStart
<1>2. u \in 1..Len(sent)
  BY <1>1 DEF OnboardInv, PollerInv, PollerTypes, BatchIsKept, Kept, Handle
<1>3. sent[u].says \in Payload
  <2>1. sent[u] \in Update
    BY <1>2 DEF OnboardInv, PollerInv, PollerTypes
  <2>. QED
    BY <2>1 DEF Update
<1>4. minted' = minted
  BY DEF HandleStart
<1>. QED
  BY <1>1, <1>3, <1>4, BindKeeps DEF OnboardInv, PollerNext

\* The tokens have no part in what the poller does: every step is one of its own or
\* leaves it alone.
LEMMA OnboardStep ==
  ASSUME OnboardInv, [OnboardNext]_<<pollerVars, onboardVars>>
  PROVE  /\ OnboardInv' /\ [PollerNext]_pollerVars
         /\ bound' # bound => Last(bound').token.mint = minted[Last(bound').token.person]
<1>1. CASE HandleStart
  BY <1>1, HandleStartKeeps, PollerStepInv DEF OnboardInv
<1>2. CASE Polling
  <2>1. PollerNext
    BY <1>2 DEF Polling, PollerNext
  <2>2. UNCHANGED <<minted, bound, onboardings>>
    BY <1>2 DEF Polling, onboardVars
  <2>. QED
    BY <2>1, <2>2, PollerStepInv, TokensStand DEF OnboardInv
<1>3. ASSUME NEW p \in Person, CreateTelegramOnboarding(p)
      PROVE  OnboardInv' /\ UNCHANGED pollerVars /\ bound' = bound
  <2>1. UNCHANGED pollerVars /\ bound' = bound
    BY <1>3 DEF CreateTelegramOnboarding
  <2>. QED
    BY <1>3, <2>1, CreateKeeps, PollerStepInv DEF OnboardInv
<1>4. CASE UNCHANGED <<pollerVars, minted, bound>> /\ onboardings' \subseteq onboardings
  BY <1>4, PollerStepInv, TokensStand DEF OnboardInv
<1>5. CASE UNCHANGED <<pollerVars, onboardVars>>
  BY <1>4, <1>5 DEF onboardVars
<1>6. CASE \/ Editing
           \/ \E p \in Person : DeletePerson(p)
           \/ AdvanceTime
  BY <1>4, <1>6 DEF Editing, OpenForm, SubmitForm, PersonSet, UpdatePerson, Aside, DeletePerson, AdvanceTime
<1>. QED
  BY <1>1, <1>2, <1>3, <1>5, <1>6 DEF OnboardNext

-----------------------------------------------------------------------------
\* The theorems.

\* Whatever onboarding makes of the updates, the poller is the one of its own module.
THEOREM OnboardingUsesThePoller == OnboardSpec => PollerSpec
<1>1. OnboardInit => PollerInit
  BY DEF OnboardInit
<1>2. OnboardInv /\ [OnboardNext]_<<pollerVars, onboardVars>> => OnboardInv' /\ [PollerNext]_pollerVars
  BY OnboardStep
<1>. QED
  BY <1>1, <1>2, OnboardInitInv, PTL DEF OnboardSpec, PollerSpec

LEMMA PollerIsInv == PollerSpec => [](PollerInv /\ RunIsSmall)
<1>1. PollerInit => PollerInv /\ RunIsSmall
  BY PollerInitInv, PollerAssumption DEF PollerInit, RunIsSmall
<1>. QED
  BY <1>1, PollerStepInv, PTL DEF PollerSpec

\* No update is applied twice or out of order, over lost answers and restarts.
THEOREM UpdatesInOrder == PollerSpec => []HandledInOrder
<1>1. PollerInv => HandledInOrder
  BY DEF PollerInv
<1>. QED
  BY <1>1, PollerIsInv, PTL

\* What piled up while the process was down is never applied.
THEOREM BacklogIsDropped == PollerSpec => NeverLate
<1>1. PollerInv /\ RunIsSmall /\ [PollerNext]_pollerVars =>
        [handled' # handled => sent[Last(handled')[1]].run = Last(handled')[2]]_pollerVars
  BY HandledFresh
<1>. QED
  BY <1>1, PollerIsInv, PTL DEF PollerSpec, NeverLate

\* A token binds one chat: what is replayed, tapped twice or tapped by somebody else
\* later finds no row.
THEOREM TokensAreSingleUse == OnboardSpec => []BindsOnce
<1>1. OnboardInv /\ [OnboardNext]_<<pollerVars, onboardVars>> => OnboardInv'
  BY OnboardStep
<1>2. OnboardInv => BindsOnce
  BY DEF OnboardInv, TokensInv
<1>. QED
  BY <1>1, <1>2, OnboardInitInv, PTL DEF OnboardSpec

\* A replaced token never binds, though its /start may still wait at Telegram.
THEOREM ReplacedTokensAreDead == OnboardSpec => NewestBinds
<1>1. OnboardInv /\ [OnboardNext]_<<pollerVars, onboardVars>> =>
        /\ OnboardInv'
        /\ [bound' # bound => Last(bound').token.mint = minted[Last(bound').token.person]]_<<pollerVars, onboardVars>>
  BY OnboardStep
<1>. QED
  BY <1>1, OnboardInitInv, PTL DEF OnboardSpec, NewestBinds
=============================================================================
