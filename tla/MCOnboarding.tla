---------------------------- MODULE MCOnboarding ----------------------------
(***************************************************************************)
(* Onboarding for TLC.  A token that leaks is tapped by either user.       *)
(***************************************************************************)
EXTENDS Onboarding, TLC

MCPayload ==
  {m \in [token: Token, chat: Chat, from: User] : m.chat \in Group \cup {m.from}}

Symmetry == Permutations(User)

\* Of what was sent only what is still to be handled matters, and not when in its run
\* it came.
Unrecorded ==
  <<Len(sent), [i \in pending \cup batch |-> <<sent[i].says, sent[i].run>>], pending, phase, offset, batch, run,
    now, people, channels, onboardings, form, request, minted, bound>>
=============================================================================
