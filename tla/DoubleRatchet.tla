---------------------------- MODULE DoubleRatchet ----------------------------
(***************************************************************************)
(* The Double Ratchet of frontend/src/lib/crypto/doubleRatchet.ts, as pure *)
(* operators on a ratchet state.                                           *)
(*                                                                         *)
(* Cryptography is symbolic.  A key pair is a number, the number standing  *)
(* for both halves, and numbers grow in the order key pairs are generated. *)
(* A Diffie-Hellman output is the unordered pair of the keys that went in. *)
(* A root key is the X3DH secret it started from and the DH outputs mixed  *)
(* in since; a chain key is the root-key derivation it came from and the   *)
(* number of HMAC steps taken.  The message key of a chain key is named by *)
(* that chain key.  A ciphertext is known by the message key and the       *)
(* associated data it is sealed under, and opens with exactly those.       *)
(***************************************************************************)
EXTENDS Integers, Sequences

CONSTANTS
  MaxSkip,         \* MAX_SKIP: how far one chain may be run ahead
  MaxSkippedKeys   \* MAX_SKIPPED_KEYS: how many skipped keys are retained

ASSUME RatchetLimits == MaxSkip \in Nat /\ MaxSkippedKeys \in Nat \ {0}

Key == Nat
NoKey == 0

Dh(own, theirs) == {own, theirs}
DhOutput == SUBSET Key

RootKey == [secret : SUBSET DhOutput, turns : Seq(DhOutput)]
FirstRoot(sharedSecret) == [secret |-> sharedSecret, turns |-> <<>>]
NoRoot == FirstRoot({})

\* KDF_RK.  Both halves of its output, the next root key and the fresh chain
\* key, are named by the inputs.
KdfRootKey(rk, dhOutput) == [rk EXCEPT !.turns = Append(@, dhOutput)]

ChainKey == [root : RootKey, step : Nat]
FreshChain(rk) == [root |-> rk, step |-> 0]
NoChain == FreshChain(NoRoot)
\* The last DH output mixed in before the chain started.
LastTurn(ck) == ck.root.turns[Len(ck.root.turns)]

KdfChainKey(ck, steps) == [ck EXCEPT !.step = @ + steps]

Header == [dh : Key, pn : Nat, n : Nat]
SkippedKey == [dh : Key, n : Nat, key : ChainKey]

\* The X3DH fields an initiator repeats until the peer replies.
PreKeyFields == [ek : Key, spk : Key, opk : Key]
NoPreKey == [ek |-> NoKey, spk |-> NoKey, opk |-> NoKey]

RatchetState ==
  [rk : RootKey, dhs : Key, dhr : Key, cks : ChainKey, ckr : ChainKey,
   ns : Nat, nr : Nat, pn : Nat, skipped : Seq(SkippedKey),
   associatedData : Key \X Key, pendingPreKey : PreKeyFields]

-----------------------------------------------------------------------------
(* Initial states                                                          *)

InitSender(secret, ad, responderSpk, pending, dhs) ==
  LET rk == KdfRootKey(FirstRoot(secret), Dh(dhs, responderSpk))
  IN  [rk |-> rk, dhs |-> dhs, dhr |-> responderSpk,
       cks |-> FreshChain(rk), ckr |-> NoChain,
       ns |-> 0, nr |-> 0, pn |-> 0, skipped |-> <<>>,
       associatedData |-> ad, pendingPreKey |-> pending]

InitReceiver(secret, ad, spk) ==
  [rk |-> FirstRoot(secret), dhs |-> spk, dhr |-> NoKey,
   cks |-> NoChain, ckr |-> NoChain,
   ns |-> 0, nr |-> 0, pn |-> 0, skipped |-> <<>>,
   associatedData |-> ad, pendingPreKey |-> NoPreKey]

-----------------------------------------------------------------------------
(* Sending                                                                 *)

CanEncrypt(s) == s.cks # NoChain

\* What goes on the wire: the header in the clear, and the key and associated
\* data that the body is sealed under.
Seal(s) == [header |-> [dh |-> s.dhs, pn |-> s.pn, n |-> s.ns],
            key |-> s.cks, associatedData |-> s.associatedData,
            prekey |-> s.pendingPreKey]

\* Faulty variants: the chain key is not advanced with the counter; the X3DH
\* fields are dropped after the first message.
AfterEncryptSameKey(s) == [s EXCEPT !.ns = @ + 1]
AfterEncryptFieldsOnce(s) ==
  [s EXCEPT !.cks = KdfChainKey(@, 1), !.ns = @ + 1, !.pendingPreKey = NoPreKey]

AfterEncrypt(s) == [s EXCEPT !.cks = KdfChainKey(@, 1), !.ns = @ + 1]

-----------------------------------------------------------------------------
(* Receiving                                                               *)

\* Faulty variant: nothing is evicted.
NewestUnbounded(entries) == entries

\* rememberSkipped, applied to a run of new entries: the oldest are evicted.
Newest(entries) ==
  IF Len(entries) > MaxSkippedKeys
  THEN SubSeq(entries, Len(entries) - MaxSkippedKeys + 1, Len(entries))
  ELSE entries

CanSkip(s, until) ==
  IF s.ckr = NoChain THEN until <= s.nr ELSE until - s.nr <= MaxSkip

\* When `until` lies behind, no key is derived but nr still moves back to it.
SkipMessageKeys(s, until) ==
  LET gap == IF until > s.nr THEN until - s.nr ELSE 0
      passed == [i \in 1..gap |->
                   [dh |-> s.dhr, n |-> s.nr + i - 1,
                    key |-> KdfChainKey(s.ckr, i - 1)]]
  IN  IF s.ckr = NoChain THEN s
      ELSE [s EXCEPT !.skipped = Newest(@ \o passed),
                     !.ckr = KdfChainKey(@, gap), !.nr = until]

\* `fresh` is the key pair generated for the new sending chain.
DhRatchet(s, header, fresh) ==
  LET caughtUp == SkipMessageKeys(s, header.pn)
      receiving == KdfRootKey(caughtUp.rk, Dh(caughtUp.dhs, header.dh))
      sending == KdfRootKey(receiving, Dh(fresh, header.dh))
  IN  [caughtUp EXCEPT !.rk = sending, !.dhs = fresh, !.dhr = header.dh,
                       !.cks = FreshChain(sending), !.ckr = FreshChain(receiving),
                       !.pn = caughtUp.ns, !.ns = 0, !.nr = 0]

\* AEAD authentication: the right key and the right associated data.
Opens(s, messageKey, m) ==
  messageKey = m.key /\ s.associatedData = m.associatedData

\* The positions in `skipped` of a key for this header.
SkippedAt(s, header) ==
  {i \in DOMAIN s.skipped : s.skipped[i].dh = header.dh /\ s.skipped[i].n = header.n}

FirstSkipped(s, header) ==
  CHOOSE i \in SkippedAt(s, header) : \A j \in SkippedAt(s, header) : i <= j

\* Faulty variant: the key stays.
WithoutKept(entries, i) == entries

Without(entries, i) ==
  SubSeq(entries, 1, i - 1) \o SubSeq(entries, i + 1, Len(entries))

\* The state once the conversation has turned, if it has, and the chain has
\* been run forward to the claimed index.
CaughtUp(s, header, fresh) ==
  SkipMessageKeys(IF s.dhr = header.dh THEN s ELSE DhRatchet(s, header, fresh),
                  header.n)

CanCatchUp(s, header, fresh) ==
  IF s.dhr = header.dh
  THEN CanSkip(s, header.n)
  ELSE CanSkip(s, header.pn) /\ CanSkip(DhRatchet(s, header, fresh), header.n)

\* ratchetDecrypt returns rather than throws.
CanDecrypt(s, m, fresh) ==
  IF SkippedAt(s, m.header) # {}
  THEN Opens(s, s.skipped[FirstSkipped(s, m.header)].key, m)
  ELSE /\ CanCatchUp(s, m.header, fresh)
       /\ CaughtUp(s, m.header, fresh).ckr # NoChain
       /\ Opens(s, CaughtUp(s, m.header, fresh).ckr, m)

\* The state ratchetDecrypt returns when it does.
AfterDecrypt(s, m, fresh) ==
  IF SkippedAt(s, m.header) # {}
  THEN [s EXCEPT !.skipped = Without(@, FirstSkipped(s, m.header))]
  ELSE [CaughtUp(s, m.header, fresh) EXCEPT
          !.ckr = KdfChainKey(@, 1), !.nr = @ + 1, !.pendingPreKey = NoPreKey]
-----------------------------------------------------------------------------
(* What a state has used up                                                *)

\* The chain, if it is there, has moved past this key, if the key is its own.
Behind(key, ck) == ck # NoChain /\ key.root = ck.root => key.step < ck.step

\* The state s produces no message key of `used` again, nor any key twice: every
\* chain it received on, or keeps a skipped key of, has a root in `roots`; its
\* skipped keys differ and lie behind its chain, as do the used keys; and the
\* roots derived from its secret so far are not longer than its own.
ExhaustsUpTo(s, used, roots) ==
  /\ s.ckr = NoChain => s.skipped = <<>>
  /\ s.ckr # NoChain => s.ckr.root \in roots
  /\ \A i \in DOMAIN s.skipped :
       /\ Behind(s.skipped[i].key, s.ckr)
       /\ s.skipped[i].key.root \in roots
       /\ \A j \in DOMAIN s.skipped : s.skipped[i].key = s.skipped[j].key => i = j
  /\ \A k \in used :
       /\ Behind(k, s.ckr)
       /\ \A i \in DOMAIN s.skipped : s.skipped[i].key # k
  /\ \A r \in roots : r.secret = s.rk.secret => Len(r.turns) <= Len(s.rk.turns)

Exhausts(s, used) == ExhaustsUpTo(s, used, {k.root : k \in used})

-----------------------------------------------------------------------------
(* What two ends agree on                                                  *)

\* What is kept of a message that was passed over.
EntryFor(m) == [dh |-> m.header.dh, n |-> m.header.n, key |-> m.key]

Stored(r, m) == \E i \in DOMAIN r.skipped : r.skipped[i] = EntryFor(m)

Awaited(r, m) == m.header.dh = r.dhr /\ r.nr <= m.header.n

\* The messages sealed on the chain of `root` under the ratchet key dh: the first
\* `length`, and no others.
SealedOn(messages, dh, root, length) ==
  /\ \A m \in messages : m.header.dh = dh => m.header.n < length /\ m.key.root = root
  /\ \A n \in 0..(length - 1) :
       \E m \in messages : m.header.dh = dh /\ m.header.n = n

\* The receiving side of r, to which `messages` were sent, `length` of them on the
\* chain it receives on: the unread ones are stored there or still ahead, nothing
\* else is stored, and what is stored and what is ahead are at most `budget`.
KeepsUp(r, messages, unread, length, budget) ==
  /\ SealedOn(messages, r.dhr, r.ckr.root, length)
  /\ r.ckr.step = r.nr /\ r.nr <= length
  /\ r.ckr = NoChain => length = 0
  /\ \A i \in DOMAIN r.skipped : \E m \in messages : r.skipped[i] = EntryFor(m)
  /\ \A m \in messages \cap unread : Stored(r, m) \/ Awaited(r, m)
  /\ Len(r.skipped) + (length - r.nr) <= budget

\* The two ends of a conversation that s was the last to turn: t has received
\* nothing yet on the chain s sends on, s all it will on the chain of t, or the
\* rest of it.  The chain of t that s receives on is the one t sends on.
Ahead(s, t, toT, toS, unread, sentByS, sentByT) ==
  LET new == {m \in toT : m.header.dh = s.dhs}
  IN  /\ s.rk = KdfRootKey(t.rk, Dh(t.dhs, s.dhs)) /\ s.cks.root = s.rk
      /\ s.dhr = t.dhs /\ t.dhr # s.dhs
      /\ s.ckr.root = t.cks.root /\ s.cks.step = s.ns /\ t.cks.step = t.ns
      /\ SealedOn(new, s.dhs, s.rk, s.ns) /\ \A m \in new : m.header.pn = s.pn
      /\ KeepsUp(t, toT \ new, unread, s.pn, sentByS - s.ns)
      /\ KeepsUp(s, toS, unread, t.ns, sentByT)

\* The two ends s and t of a conversation, whichever turned last.
InStep(s, t, toT, toS, unread, sentByS, sentByT) ==
  \/ Ahead(s, t, toT, toS, unread, sentByS, sentByT)
  \/ Ahead(t, s, toS, toT, unread, sentByT, sentByS)
=============================================================================
