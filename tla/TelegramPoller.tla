--------------------------- MODULE TelegramPoller ---------------------------
(***************************************************************************)
(* The getUpdates poller.  Telegram keeps every update (a button press, a  *)
(* message to the bot) until a poll with a higher offset confirms it; the  *)
(* poller keeps its offset in memory only, so that after a restart it      *)
(* drops what had queued up rather than apply it late.  Polls are lost on  *)
(* their way or on their way back, the process dies between two updates    *)
(* of a batch, updates arrive at any moment.                               *)
(*                                                                         *)
(* Abstractions.  An update's id is its place in the order of arrival.     *)
(* What applying one does is module Onboarding's (messages) and module     *)
(* Links' (presses).  Telegram's retention of 24 hours and the answer to   *)
(* the presser are left out.                                               *)
(***************************************************************************)
EXTENDS Integers, Sequences, FiniteSets, SequencesExt

CONSTANTS
  Payload,       \* what an update may say
  MaxBatch       \* updates Telegram returns at once

CONSTANTS        \* bounds of the model, not of the code
  MaxUpdates,    \* updates ever sent
  MaxRuns        \* starts of the process

ASSUME PollerAssumption ==
  MaxBatch \in Nat \ {0} /\ MaxUpdates \in Nat /\ MaxRuns \in Nat

VARIABLES
  sent,          \* the updates ever sent: what they say and in which run they came
  pending,       \* the ids Telegram still holds
  phase,         \* the poller: down, seeding, polling, handling
  offset,
  batch,         \* the ids of the last answer that are not handled yet
  run,           \* starts of the process so far
  handled        \* history: the updates applied, with the run that did

pollerVars == <<sent, pending, phase, offset, batch, run, handled>>

Update == [says: Payload, run: 0..MaxRuns, seeded: BOOLEAN]

PollerTypeOK ==
  /\ sent \in Seq(Update) /\ Len(sent) <= MaxUpdates
  /\ pending \subseteq 1..Len(sent)
  /\ phase \in {"down", "seeding", "polling", "handling"}
  /\ offset \in 0..(Len(sent) + 1)
  /\ batch \subseteq 1..Len(sent) /\ (batch # {} <=> phase = "handling")
  /\ run \in 0..MaxRuns
  /\ handled \in Seq((1..Len(sent)) \X (1..MaxRuns))

PollerInit ==
  /\ sent = <<>> /\ pending = {}
  /\ phase = "down" /\ offset = 0 /\ batch = {} /\ run = 0
  /\ handled = <<>>

-----------------------------------------------------------------------------
\* Telegram.

\* Somebody presses a button or writes to the bot.
Arrive(says) ==
  /\ Len(sent) < MaxUpdates
  /\ sent' = Append(sent, [says |-> says, run |-> run, seeded |-> phase \in {"polling", "handling"}])
  /\ pending' = pending \cup {Len(sent')}
  /\ UNCHANGED <<phase, offset, batch, run, handled>>

\* getUpdates with a positive offset: what is below it is confirmed for good.
Kept(from) == {u \in pending : u >= from}

\* The oldest MaxBatch of them.
Returned(from) == {u \in Kept(from) : Cardinality({v \in Kept(from) : v < u}) < MaxBatch}

\* The newest update, the only one an offset of -1 leaves.
Newest == {u \in pending : \A v \in pending : v <= u}

-----------------------------------------------------------------------------
\* The poller.

Start ==
  /\ phase = "down" /\ run < MaxRuns
  /\ run' = run + 1 /\ phase' = "seeding"
  /\ offset' = 0 /\ batch' = {}
  /\ UNCHANGED <<sent, pending, handled>>

\* Mutant of SeedOffset: a failing call is taken for an empty queue.
SeedOrZero(answered) ==
  /\ phase = "seeding"
  /\ pending' = Newest
  /\ offset' = IF answered /\ Newest # {} THEN (CHOOSE u \in Newest : TRUE) + 1 ELSE 0
  /\ phase' = "polling"
  /\ UNCHANGED <<sent, batch, run, handled>>

\* seedOffset: past the newest update; when the answer is lost it asks again.
SeedOffset(answered) ==
  /\ phase = "seeding"
  /\ pending' = Newest
  /\ \/ /\ answered
        /\ offset' = IF Newest = {} THEN 0 ELSE (CHOOSE u \in Newest : TRUE) + 1
        /\ phase' = "polling"
     \/ ~answered /\ UNCHANGED <<offset, phase>>
  /\ UNCHANGED <<sent, batch, run, handled>>

\* The long poll of Run, answered or failing after Telegram saw it.
Poll(answered) ==
  /\ phase = "polling"
  /\ pending' = Kept(offset)
  /\ IF answered /\ Returned(offset) # {}
     THEN batch' = Returned(offset) /\ phase' = "handling"
     ELSE UNCHANGED <<batch, phase>>
  /\ UNCHANGED <<sent, offset, run, handled>>

\* Mutants of Advanced: never confirmed; confirmed before the last one was looked at.
AdvancedNever(u) == offset
AdvancedTwice(u) == u + 2

\* The offset that confirms an update.
Advanced(u) == IF u >= offset THEN u + 1 ELSE offset

\* One round of the loop over a batch, in its order: the offset moves on, whatever
\* the update says.
Handle(u) ==
  /\ phase = "handling"
  /\ u \in batch /\ \A v \in batch : u <= v
  /\ offset' = Advanced(u)
  /\ handled' = Append(handled, <<u, run>>)
  /\ batch' = batch \ {u}
  /\ phase' = IF batch' = {} THEN "polling" ELSE "handling"
  /\ UNCHANGED <<sent, pending, run>>

\* The process ends, between any two updates.
Crash ==
  /\ phase # "down"
  /\ phase' = "down" /\ batch' = {}
  /\ UNCHANGED <<sent, pending, offset, run, handled>>

PollerNext ==
  \/ \E says \in Payload : Arrive(says)
  \/ Start \/ Crash
  \/ \E u \in batch : Handle(u)
  \/ \E answered \in BOOLEAN : SeedOffset(answered) \/ Poll(answered)

PollerSpec == PollerInit /\ [][PollerNext]_pollerVars

\* Run polls again after a failure, and the network is not down for ever.
PollerFairness ==
  /\ WF_pollerVars(\E u \in batch : Handle(u))
  /\ SF_pollerVars(SeedOffset(TRUE)) /\ SF_pollerVars(Poll(TRUE))

PollerFairSpec == PollerSpec /\ PollerFairness

-----------------------------------------------------------------------------
\* Properties.

\* No update is applied twice and none out of order, over lost answers, batches
\* and restarts ("a replayed cancel-click would re-run the cancel transaction").
HandledInOrder ==
  \A i, j \in DOMAIN handled : i < j => handled[i][1] < handled[j][1]

\* What queued up while the process was down is dropped, not applied late: an
\* update is applied in the run it arrived in or not at all (seedOffset).
NeverLate ==
  [][handled' # handled => sent[Last(handled')[1]].run = Last(handled')[2]]_pollerVars

\* Only a restart drops one: an update that comes while the poller polls is
\* applied, or the process ends first.
AppliedWhileUp ==
  \A u \in 1..MaxUpdates, r \in 1..MaxRuns :
    (u \in DOMAIN sent /\ sent[u].run = r /\ sent[u].seeded /\ phase # "down")
      ~> (<<u, r>> \in ToSet(handled) \/ phase = "down" \/ run # r)
=============================================================================
