------------------------------- MODULE SenderKey -------------------------------
(***************************************************************************)
(* Sender chains of frontend/src/lib/crypto/senderKey.ts, as pure          *)
(* operators.                                                              *)
(*                                                                         *)
(* A chain is a number: it stands for the random chain key it began with   *)
(* and for the signing key pair made with it.  Hashing a chain key forward *)
(* cannot be undone, so a chain key is known by its chain and its          *)
(* iteration, and so is the message key derived from it.  A message        *)
(* verifies under the signing key of its own chain and no other.           *)
(* Skipped keys are kept as a set of iterations: a chain only moves        *)
(* forward, so the order of remembering is the order of the iterations.    *)
(***************************************************************************)
EXTENDS Integers, FiniteSets

CONSTANTS
  MaxSenderKeySkip,      \* MAX_SENDER_KEY_SKIP
  MaxSkippedSenderKeys   \* MAX_SKIPPED_SENDER_KEYS

ASSUME SenderKeyLimits ==
  MaxSenderKeySkip \in Nat /\ MaxSkippedSenderKeys \in Nat \ {0}

SenderKeyState ==
  [chain : Nat, iteration : Nat, signs : BOOLEAN, skipped : SUBSET Nat]

NoChain == 0
NoSenderKey == [chain |-> NoChain, iteration |-> 0, signs |-> FALSE, skipped |-> {}]

\* A chain of one's own, with the signing key that makes it one's own.
CreateSenderKey(chain) ==
  [chain |-> chain, iteration |-> 0, signs |-> TRUE, skipped |-> {}]

\* What the members are handed: the current chain key, and the public half of
\* the signing key.
BuildDistribution(s) == [chain |-> s.chain, iteration |-> s.iteration]

\* A received chain reads and cannot sign.
AcceptedKey(distribution) ==
  [chain |-> distribution.chain, iteration |-> distribution.iteration,
   signs |-> FALSE, skipped |-> {}]

-----------------------------------------------------------------------------
(* Sending                                                                 *)

CanSend(s) == s.signs

\* Faulty variant: the chain is not moved on.
AfterSendStill(s) == s

AfterSend(s) == [s EXCEPT !.iteration = @ + 1]

-----------------------------------------------------------------------------
(* Receiving                                                               *)

Verifies(s, m) == m.chain = s.chain

Remembers(s, m) == m.iteration \in s.skipped

\* Faulty variant: a gap of exactly the limit is refused.
CanAdvanceLess(s, m) ==
  m.iteration >= s.iteration /\ m.iteration - s.iteration < MaxSenderKeySkip

\* A replay lies behind the chain; a gap beyond the limit is refused.
CanAdvance(s, m) ==
  m.iteration >= s.iteration /\ m.iteration - s.iteration <= MaxSenderKeySkip

\* senderKeyDecrypt returns rather than throws.
CanOpen(s, m) == Verifies(s, m) /\ (Remembers(s, m) \/ CanAdvance(s, m))

\* Faulty variant: nothing is evicted.
RetainedAll(iterations) == iterations

\* rememberSkipped, applied to all the iterations passed: the oldest, which are
\* the smallest, are evicted.
Retained(iterations) ==
  {i \in iterations :
     Cardinality({j \in iterations : i < j}) < MaxSkippedSenderKeys}

\* The iterations between the chain and the message, whose keys are kept.
Passed(s, m) == s.iteration..(m.iteration - 1)

\* Faulty variant: a remembered key is used and kept.
AfterOpenKept(s, m) ==
  IF Remembers(s, m) THEN s
  ELSE [s EXCEPT !.iteration = m.iteration + 1,
                 !.skipped = Retained(@ \cup Passed(s, m))]

\* The state senderKeyDecrypt returns: the remembered key is consumed, or the
\* chain has caught up with the message and stands one past it.
AfterOpen(s, m) ==
  IF Remembers(s, m)
  THEN [s EXCEPT !.skipped = @ \ {m.iteration}]
  ELSE [s EXCEPT !.iteration = m.iteration + 1,
                 !.skipped = Retained(@ \cup Passed(s, m))]
=============================================================================
