---------------------------- MODULE SessionsProofs ----------------------------
(***************************************************************************)
(* What each operator of the ratchet returns, for every ratchet state.     *)
(* For any devices, keys and bounds: the types of Sessions hold and no     *)
(* message key ever seals two messages. While one-time prekeys last, no    *)
(* message is read twice, no vault can derive the key of a message read,   *)
(* and what the devices send and read is what SecureChannel allows.        *)
(***************************************************************************)
EXTENDS Sessions, SequenceTheorems, WellFoundedInduction, TLAPS

-----------------------------------------------------------------------------
(* The ratchet                                                             *)

\* A state as a vault holds it: typed, and with no more than the retained
\* number of skipped keys.
BoundedState == {s \in RatchetState : Len(s.skipped) <= MaxSkippedKeys}

-----------------------------------------------------------------------------

\* kdfRootKey yields a root key with one more turn, the DH output last.
LEMMA KdfRootKeyType ==
  ASSUME NEW rk \in RootKey, NEW out \in DhOutput
  PROVE  /\ KdfRootKey(rk, out) \in RootKey
         /\ Len(KdfRootKey(rk, out).turns) \in Nat \ {0}
         /\ KdfRootKey(rk, out).turns[Len(KdfRootKey(rk, out).turns)] = out
<1>1. rk.turns \in Seq(DhOutput)
  BY DEF RootKey
<1>2. /\ Append(rk.turns, out) \in Seq(DhOutput)
      /\ Len(Append(rk.turns, out)) = Len(rk.turns) + 1
      /\ Append(rk.turns, out)[Len(rk.turns) + 1] = out
  BY <1>1, AppendProperties
<1>3. Len(rk.turns) \in Nat
  BY <1>1
<1>4. KdfRootKey(rk, out).turns = Append(rk.turns, out)
  BY DEF KdfRootKey, RootKey
<1>5. KdfRootKey(rk, out) \in RootKey
  BY <1>2 DEF KdfRootKey, RootKey
<1> QED
  BY <1>2, <1>3, <1>4, <1>5

\* rememberSkipped keeps a sequence of entries within its bound.
LEMMA NewestType ==
  ASSUME NEW entries \in Seq(SkippedKey)
  PROVE  Newest(entries) \in Seq(SkippedKey) /\ Len(Newest(entries)) <= MaxSkippedKeys
<1> DEFINE first == Len(entries) - MaxSkippedKeys + 1
<1>1. Len(entries) \in Nat /\ MaxSkippedKeys \in Nat
  BY RatchetLimits
<1>2. CASE Len(entries) > MaxSkippedKeys
  <2>1. first \in 1..Len(entries)
    BY <1>1, <1>2, RatchetLimits
  <2>2. \A i \in first..Len(entries) : entries[i] \in SkippedKey
    BY <2>1, ElementOfSeq
  <2>3. /\ SubSeq(entries, first, Len(entries)) \in Seq(SkippedKey)
        /\ Len(SubSeq(entries, first, Len(entries))) = Len(entries) - first + 1
    BY <2>1, <2>2, <1>1, SubSeqProperties
  <2> QED
    BY <1>1, <1>2, <2>3 DEF Newest
<1>3. CASE ~(Len(entries) > MaxSkippedKeys)
  BY <1>1, <1>3 DEF Newest
<1> QED
  BY <1>2, <1>3

\* skipMessageKeys touches the receiving chain only.
LEMMA SkipMessageKeysType ==
  ASSUME NEW s \in BoundedState, NEW until \in Nat
  PROVE  LET t == SkipMessageKeys(s, until)
         IN  /\ t \in BoundedState
             /\ t.rk = s.rk /\ t.dhs = s.dhs /\ t.dhr = s.dhr
             /\ t.cks = s.cks /\ t.ns = s.ns
             /\ t.associatedData = s.associatedData
             /\ t.pendingPreKey = s.pendingPreKey
<1> DEFINE gap == IF until > s.nr THEN until - s.nr ELSE 0
           entry(i) == [dh |-> s.dhr, n |-> s.nr + i - 1, key |-> KdfChainKey(s.ckr, i - 1)]
           passed == [i \in 1..gap |-> entry(i)]
<1>1. /\ s.ckr \in ChainKey /\ s.nr \in Nat /\ s.dhr \in Key
      /\ s.skipped \in Seq(SkippedKey) /\ s \in RatchetState
      /\ Len(s.skipped) <= MaxSkippedKeys
  BY DEF BoundedState, RatchetState
<1>2. gap \in Nat
  BY <1>1
<1>3. \A k \in Nat : KdfChainKey(s.ckr, k) \in ChainKey
  BY <1>1 DEF KdfChainKey, ChainKey
<1>4. passed \in Seq(SkippedKey)
  <2>1. \A i \in 1..gap : entry(i) \in SkippedKey
    <3> SUFFICES ASSUME NEW i \in 1..gap PROVE entry(i) \in SkippedKey
      OBVIOUS
    <3>1. i - 1 \in Nat /\ s.nr + i - 1 \in Nat
      BY <1>1, <1>2
    <3> QED
      BY <1>1, <1>3, <3>1 DEF SkippedKey
  <2> HIDE DEF entry, gap
  <2> QED
    BY <1>2, <2>1, IsASeq
<1> HIDE DEF passed, gap, entry
<1>5. s.skipped \o passed \in Seq(SkippedKey)
  BY <1>1, <1>4, ConcatProperties
<1>6. CASE s.ckr = NoChain
  BY <1>1, <1>6 DEF SkipMessageKeys, BoundedState
<1>7. CASE s.ckr # NoChain
  <2> DEFINE t == [s EXCEPT !.skipped = Newest(s.skipped \o passed),
                            !.ckr = KdfChainKey(s.ckr, gap), !.nr = until]
  <2>1. SkipMessageKeys(s, until) = t
    BY <1>1, <1>7 DEF SkipMessageKeys, passed, gap, entry, RatchetState
  <2>2. /\ Newest(s.skipped \o passed) \in Seq(SkippedKey)
        /\ Len(Newest(s.skipped \o passed)) <= MaxSkippedKeys
    BY <1>5, NewestType
  <2>3. KdfChainKey(s.ckr, gap) \in ChainKey
    BY <1>2, <1>3
  <2>4. t \in RatchetState /\ t.skipped = Newest(s.skipped \o passed)
    BY <1>1, <2>2, <2>3 DEF RatchetState
  <2>5. /\ t.rk = s.rk /\ t.dhs = s.dhs /\ t.dhr = s.dhr
        /\ t.cks = s.cks /\ t.ns = s.ns
        /\ t.associatedData = s.associatedData
        /\ t.pendingPreKey = s.pendingPreKey
    BY <1>1 DEF RatchetState
  <2> QED
    BY <2>1, <2>2, <2>4, <2>5 DEF BoundedState
<1> QED
  BY <1>6, <1>7

\* A chain derived from a root key starts at step 0, and its last turn is the
\* DH output that the derivation mixed in.
LEMMA FreshChainType ==
  ASSUME NEW rk \in RootKey, NEW out \in DhOutput
  PROVE  LET ck == FreshChain(KdfRootKey(rk, out))
         IN  ck \in ChainKey /\ ck # NoChain /\ ck.step = 0 /\ LastTurn(ck) = out
<1> DEFINE next == KdfRootKey(rk, out)
<1>1. /\ next \in RootKey /\ Len(next.turns) \in Nat \ {0}
      /\ next.turns[Len(next.turns)] = out
  BY KdfRootKeyType
<1>2. Len(<<>>) = 0
  OBVIOUS
<1>3. next.turns # <<>>
  BY <1>1, <1>2
<1> HIDE DEF next
<1>4. next # NoRoot
  BY <1>3 DEF NoRoot, FirstRoot
<1> QED
  BY <1>1, <1>4 DEF FreshChain, ChainKey, NoChain, LastTurn, next

\* The turn of the conversation: the sending chain starts over under the fresh
\* key pair, and its derivation mixed that pair with the peer's.
LEMMA DhRatchetType ==
  ASSUME NEW s \in BoundedState, NEW header \in Header, NEW fresh \in Key
  PROVE  LET t == DhRatchet(s, header, fresh)
         IN  /\ t \in BoundedState
             /\ t.dhs = fresh /\ t.dhr = header.dh /\ t.ns = 0
             /\ t.cks # NoChain /\ t.cks.step = 0
             /\ LastTurn(t.cks) = Dh(fresh, header.dh)
             /\ t.associatedData = s.associatedData
             /\ t.pendingPreKey = s.pendingPreKey
<1> DEFINE caughtUp == SkipMessageKeys(s, header.pn)
           receiving == KdfRootKey(caughtUp.rk, Dh(caughtUp.dhs, header.dh))
           sending == KdfRootKey(receiving, Dh(fresh, header.dh))
<1>1. header.dh \in Key /\ header.pn \in Nat
  BY DEF Header
<1>2. /\ caughtUp \in BoundedState
      /\ caughtUp.associatedData = s.associatedData
      /\ caughtUp.pendingPreKey = s.pendingPreKey
  BY <1>1, SkipMessageKeysType
<1>3. /\ caughtUp \in RatchetState /\ caughtUp.rk \in RootKey
      /\ caughtUp.dhs \in Key /\ caughtUp.ns \in Nat
      /\ caughtUp.skipped \in Seq(SkippedKey)
      /\ Len(caughtUp.skipped) <= MaxSkippedKeys
  BY <1>2 DEF BoundedState, RatchetState
<1>4. Dh(caughtUp.dhs, header.dh) \in DhOutput /\ Dh(fresh, header.dh) \in DhOutput
  BY <1>1, <1>3 DEF Dh, DhOutput
<1>5. receiving \in RootKey /\ sending \in RootKey
  BY <1>3, <1>4, KdfRootKeyType
<1>6. FreshChain(receiving) \in ChainKey
  BY <1>3, <1>4, FreshChainType
<1>7. /\ FreshChain(sending) \in ChainKey /\ FreshChain(sending) # NoChain
      /\ FreshChain(sending).step = 0
      /\ LastTurn(FreshChain(sending)) = Dh(fresh, header.dh)
  BY <1>4, <1>5, FreshChainType
<1>8. DhRatchet(s, header, fresh) =
        [caughtUp EXCEPT !.rk = sending, !.dhs = fresh, !.dhr = header.dh,
                         !.cks = FreshChain(sending), !.ckr = FreshChain(receiving),
                         !.pn = caughtUp.ns, !.ns = 0, !.nr = 0]
  BY DEF DhRatchet
<1> HIDE DEF caughtUp, receiving, sending
<1> DEFINE t == [caughtUp EXCEPT !.rk = sending, !.dhs = fresh, !.dhr = header.dh,
                         !.cks = FreshChain(sending), !.ckr = FreshChain(receiving),
                         !.pn = caughtUp.ns, !.ns = 0, !.nr = 0]
<1>9. t \in RatchetState /\ t.skipped = caughtUp.skipped
  BY <1>1, <1>3, <1>5, <1>6, <1>7 DEF RatchetState
<1>10. /\ t.dhs = fresh /\ t.dhr = header.dh /\ t.ns = 0
       /\ t.cks = FreshChain(sending)
       /\ t.associatedData = caughtUp.associatedData
       /\ t.pendingPreKey = caughtUp.pendingPreKey
  BY <1>3 DEF RatchetState
<1> QED
  BY <1>2, <1>3, <1>7, <1>8, <1>9, <1>10 DEF BoundedState

-----------------------------------------------------------------------------

\* What initSender builds can send: its chain mixed the fresh ratchet key with
\* the responder's signed prekey.
LEMMA InitSenderType ==
  ASSUME NEW secret \in SUBSET DhOutput, NEW ad \in Key \X Key, NEW spk \in Key,
         NEW pending \in PreKeyFields, NEW dhs \in Key
  PROVE  LET s == InitSender(secret, ad, spk, pending, dhs)
         IN  /\ s \in BoundedState
             /\ s.dhs = dhs /\ s.dhr = spk /\ s.ns = 0
             /\ s.cks # NoChain /\ s.cks.step = 0
             /\ LastTurn(s.cks) = Dh(dhs, spk)
             /\ s.pendingPreKey = pending
<1> DEFINE rk == KdfRootKey(FirstRoot(secret), Dh(dhs, spk))
<1>1. FirstRoot(secret) \in RootKey
  BY DEF FirstRoot, RootKey
<1>2. Dh(dhs, spk) \in DhOutput
  BY DEF Dh, DhOutput
<1>3. rk \in RootKey
  BY <1>1, <1>2, KdfRootKeyType
<1>4. /\ FreshChain(rk) \in ChainKey /\ FreshChain(rk) # NoChain
      /\ FreshChain(rk).step = 0 /\ LastTurn(FreshChain(rk)) = Dh(dhs, spk)
  BY <1>1, <1>2, FreshChainType
<1>5. NoChain \in ChainKey
  BY DEF NoChain, FreshChain, NoRoot, FirstRoot, ChainKey, RootKey
<1>6. <<>> \in Seq(SkippedKey) /\ Len(<<>>) <= MaxSkippedKeys
  BY RatchetLimits
<1>7. InitSender(secret, ad, spk, pending, dhs) =
        [rk |-> rk, dhs |-> dhs, dhr |-> spk,
         cks |-> FreshChain(rk), ckr |-> NoChain,
         ns |-> 0, nr |-> 0, pn |-> 0, skipped |-> <<>>,
         associatedData |-> ad, pendingPreKey |-> pending]
  BY DEF InitSender
<1> HIDE DEF rk
<1> QED
  BY <1>3, <1>4, <1>5, <1>6, <1>7 DEF BoundedState, RatchetState

\* What initReceiver builds cannot send yet.
LEMMA InitReceiverType ==
  ASSUME NEW secret \in SUBSET DhOutput, NEW ad \in Key \X Key, NEW spk \in Key
  PROVE  LET s == InitReceiver(secret, ad, spk)
         IN  s \in BoundedState /\ s.cks = NoChain
<1>1. FirstRoot(secret) \in RootKey
  BY DEF FirstRoot, RootKey
<1>2. NoChain \in ChainKey
  BY DEF NoChain, FreshChain, NoRoot, FirstRoot, ChainKey, RootKey
<1>3. <<>> \in Seq(SkippedKey) /\ Len(<<>>) <= MaxSkippedKeys
  BY RatchetLimits
<1>4. NoKey \in Key /\ NoPreKey \in PreKeyFields
  BY DEF NoKey, Key, NoPreKey, PreKeyFields
<1> QED
  BY <1>1, <1>2, <1>3, <1>4 DEF InitReceiver, BoundedState, RatchetState, Key

\* Encrypting moves the sending chain and its counter by one, nothing else.
LEMMA AfterEncryptType ==
  ASSUME NEW s \in BoundedState
  PROVE  LET t == AfterEncrypt(s)
         IN  /\ t \in BoundedState
             /\ t.dhs = s.dhs /\ t.dhr = s.dhr /\ t.ns = s.ns + 1
             /\ t.cks.root = s.cks.root /\ t.cks.step = s.cks.step + 1
             /\ t.pendingPreKey = s.pendingPreKey
<1>1. s \in RatchetState /\ Len(s.skipped) <= MaxSkippedKeys
  BY DEF BoundedState
<1>2. s.cks \in ChainKey /\ s.ns \in Nat
  BY <1>1 DEF RatchetState
<1>3. /\ KdfChainKey(s.cks, 1) \in ChainKey
      /\ KdfChainKey(s.cks, 1).root = s.cks.root
      /\ KdfChainKey(s.cks, 1).step = s.cks.step + 1
  BY <1>2 DEF KdfChainKey, ChainKey
<1> DEFINE next == KdfChainKey(s.cks, 1)
           n == s.ns + 1
           t == [s EXCEPT !.cks = next, !.ns = n]
<1>4. AfterEncrypt(s) = t
  BY DEF AfterEncrypt
<1>5. n \in Nat /\ next \in ChainKey
  BY <1>2, <1>3
<1> HIDE DEF next, n
<1>6. t \in RatchetState /\ t.skipped = s.skipped
  BY <1>1, <1>5 DEF RatchetState
<1>7. /\ t.dhs = s.dhs /\ t.dhr = s.dhr /\ t.ns = n /\ t.cks = next
      /\ t.pendingPreKey = s.pendingPreKey
  BY <1>1 DEF RatchetState
<1> QED
  BY <1>1, <1>3, <1>4, <1>6, <1>7 DEF BoundedState, next, n

-----------------------------------------------------------------------------

\* A set of numbers that is not empty has a least element.
LEMMA LeastExists ==
  ASSUME NEW S \in SUBSET Nat, S # {}
  PROVE  \E i \in S : \A j \in S : i <= j
<1>1. PICK i \in S : \A j \in S : ~(<<j, i>> \in OpToRel(<, Nat))
  BY NatLessThanWellFounded, WFMin
<1>2. ASSUME NEW j \in S PROVE i <= j
  <2>1. i \in Nat /\ j \in Nat
    OBVIOUS
  <2>2. j < i => <<j, i>> \in OpToRel(<, Nat)
    BY <2>1, Zenon DEF OpToRel
  <2>3. ~(j < i)
    BY <1>1, <2>2
  <2> QED
    BY <2>1, <2>3
<1> QED
  BY <1>2

\* findIndex: where an entry matches, the first match is a position.
LEMMA FirstSkippedExists ==
  ASSUME NEW s \in RatchetState, NEW header, SkippedAt(s, header) # {}
  PROVE  FirstSkipped(s, header) \in 1..Len(s.skipped)
<1>1. s.skipped \in Seq(SkippedKey)
  BY DEF RatchetState
<1>2. SkippedAt(s, header) \subseteq 1..Len(s.skipped)
  BY <1>1 DEF SkippedAt
<1>3. SkippedAt(s, header) \subseteq Nat
  BY <1>1, <1>2
<1>4. \E i \in SkippedAt(s, header) : \A j \in SkippedAt(s, header) : i <= j
  BY <1>3, LeastExists
<1> QED
  BY <1>2, <1>4 DEF FirstSkipped

\* Consuming an entry leaves the others.
LEMMA WithoutType ==
  ASSUME NEW entries \in Seq(SkippedKey), NEW i \in 1..Len(entries)
  PROVE  /\ Without(entries, i) \in Seq(SkippedKey)
         /\ Len(Without(entries, i)) = Len(entries) - 1
<1>1. Len(entries) \in Nat
  OBVIOUS
<1>2. \A j \in 1..Len(entries) : entries[j] \in SkippedKey
  BY ElementOfSeq
<1> DEFINE front == SubSeq(entries, 1, i - 1)
          back == SubSeq(entries, i + 1, Len(entries))
<1>3. front \in Seq(SkippedKey) /\ Len(front) = i - 1
  <2>1. \A j \in 1..(i - 1) : entries[j] \in SkippedKey
    BY <1>1, <1>2
  <2> QED
    BY <1>1, <2>1, SubSeqProperties
<1>4. back \in Seq(SkippedKey) /\ Len(back) = Len(entries) - i
  <2>1. \A j \in (i + 1)..Len(entries) : entries[j] \in SkippedKey
    BY <1>1, <1>2
  <2> QED
    BY <1>1, <2>1, SubSeqProperties
<1>5. Without(entries, i) = front \o back
  BY DEF Without
<1> HIDE DEF front, back
<1>6. /\ front \o back \in Seq(SkippedKey)
      /\ Len(front \o back) = Len(front) + Len(back)
  BY <1>3, <1>4, ConcatProperties
<1> QED
  BY <1>1, <1>3, <1>4, <1>5, <1>6

\* Decrypting either leaves the sending side as it was, or has turned it: a
\* fresh ratchet key, mixed with the one the message came under.
LEMMA AfterDecryptType ==
  ASSUME NEW s \in BoundedState, NEW m, m.header \in Header, NEW fresh \in Key
  PROVE  LET t == AfterDecrypt(s, m, fresh)
         IN  /\ t \in BoundedState
             /\ t.pendingPreKey \in {s.pendingPreKey, NoPreKey}
             /\ \/ t.dhs = s.dhs /\ t.dhr = s.dhr /\ t.ns = s.ns /\ t.cks = s.cks
                \/ /\ t.dhs = fresh /\ t.dhr = m.header.dh /\ t.ns = 0
                   /\ t.cks # NoChain /\ t.cks.step = 0
                   /\ LastTurn(t.cks) = Dh(fresh, m.header.dh)
<1>1. s \in RatchetState /\ Len(s.skipped) <= MaxSkippedKeys /\ s.skipped \in Seq(SkippedKey)
  BY DEF BoundedState, RatchetState
<1>2. CASE SkippedAt(s, m.header) # {}
  <2> DEFINE i == FirstSkipped(s, m.header)
             t == [s EXCEPT !.skipped = Without(s.skipped, i)]
  <2>1. AfterDecrypt(s, m, fresh) = t
    BY <1>2 DEF AfterDecrypt
  <2>2. i \in 1..Len(s.skipped)
    BY <1>1, <1>2, FirstSkippedExists
  <2>3. /\ Without(s.skipped, i) \in Seq(SkippedKey)
        /\ Len(Without(s.skipped, i)) = Len(s.skipped) - 1
    BY <1>1, <2>2, WithoutType
  <2> HIDE DEF i
  <2>4. t \in RatchetState /\ t.skipped = Without(s.skipped, i)
    BY <1>1, <2>3 DEF RatchetState
  <2>5. Len(s.skipped) - 1 <= MaxSkippedKeys
    BY <1>1, RatchetLimits, LenProperties
  <2>6. t.dhs = s.dhs /\ t.dhr = s.dhr /\ t.ns = s.ns /\ t.cks = s.cks
        /\ t.pendingPreKey = s.pendingPreKey
    BY <1>1 DEF RatchetState
  <2> QED
    BY <2>1, <2>3, <2>4, <2>5, <2>6 DEF BoundedState
<1>3. CASE SkippedAt(s, m.header) = {}
  <2> DEFINE turned == IF s.dhr = m.header.dh THEN s ELSE DhRatchet(s, m.header, fresh)
             u == CaughtUp(s, m.header, fresh)
             next == KdfChainKey(u.ckr, 1)
             n == u.nr + 1
             t == [u EXCEPT !.ckr = next, !.nr = n, !.pendingPreKey = NoPreKey]
  <2>1. AfterDecrypt(s, m, fresh) = t
    BY <1>3 DEF AfterDecrypt
  <2>2. /\ turned \in BoundedState
        /\ \/ turned.dhs = s.dhs /\ turned.dhr = s.dhr /\ turned.ns = s.ns /\ turned.cks = s.cks
           \/ /\ turned.dhs = fresh /\ turned.dhr = m.header.dh /\ turned.ns = 0
              /\ turned.cks # NoChain /\ turned.cks.step = 0
              /\ LastTurn(turned.cks) = Dh(fresh, m.header.dh)
    BY DhRatchetType
  <2>3. m.header.n \in Nat
    BY DEF Header
  <2>4. u = SkipMessageKeys(turned, m.header.n)
    BY DEF CaughtUp
  <2> HIDE DEF turned, u
  <2>5. /\ u \in BoundedState /\ u.dhs = turned.dhs /\ u.dhr = turned.dhr
        /\ u.cks = turned.cks /\ u.ns = turned.ns
    BY <2>2, <2>3, <2>4, SkipMessageKeysType
  <2>6. /\ u \in RatchetState /\ u.ckr \in ChainKey /\ u.nr \in Nat
        /\ Len(u.skipped) <= MaxSkippedKeys
    BY <2>5 DEF BoundedState, RatchetState
  <2>7. next \in ChainKey /\ n \in Nat /\ NoPreKey \in PreKeyFields
    BY <2>6 DEF KdfChainKey, ChainKey, NoPreKey, PreKeyFields, NoKey, Key
  <2> HIDE DEF next, n
  <2>8. t \in RatchetState /\ t.skipped = u.skipped
    BY <2>6, <2>7 DEF RatchetState
  <2>9. t.dhs = u.dhs /\ t.dhr = u.dhr /\ t.ns = u.ns /\ t.cks = u.cks
        /\ t.pendingPreKey = NoPreKey
    BY <2>6 DEF RatchetState
  <2> QED
    BY <2>1, <2>2, <2>5, <2>6, <2>8, <2>9 DEF BoundedState
<1> QED
  BY <1>2, <1>3

-----------------------------------------------------------------------------
(* No key is produced twice                                                *)

\* A root key grows by one turn and keeps the secret it started from.
LEMMA KdfRootKeyGrows ==
  ASSUME NEW rk \in RootKey, NEW out \in DhOutput
  PROVE  /\ KdfRootKey(rk, out).secret = rk.secret
         /\ Len(KdfRootKey(rk, out).turns) = Len(rk.turns) + 1
         /\ Len(rk.turns) \in Nat
<1>1. rk.turns \in Seq(DhOutput)
  BY DEF RootKey
<1>2. Len(Append(rk.turns, out)) = Len(rk.turns) + 1 /\ Len(rk.turns) \in Nat
  BY <1>1, AppendProperties, LenProperties
<1>3. /\ KdfRootKey(rk, out).turns = Append(rk.turns, out)
      /\ KdfRootKey(rk, out).secret = rk.secret
  BY DEF KdfRootKey, RootKey
<1> QED
  BY <1>2, <1>3

\* What rememberSkipped keeps is the end of what it was given.
LEMMA NewestEntries ==
  ASSUME NEW entries \in Seq(SkippedKey)
  PROVE  \E dropped \in Nat :
           /\ Len(Newest(entries)) + dropped = Len(entries)
           /\ \A i \in 1..Len(Newest(entries)) :
                /\ i + dropped \in 1..Len(entries)
                /\ Newest(entries)[i] = entries[i + dropped]
<1> DEFINE first == Len(entries) - MaxSkippedKeys + 1
<1>1. Len(entries) \in Nat /\ MaxSkippedKeys \in Nat \ {0}
  BY RatchetLimits
<1>2. CASE Len(entries) > MaxSkippedKeys
  <2>1. first \in 1..Len(entries) /\ first - 1 \in Nat
    BY <1>1, <1>2
  <2>2. \A i \in first..Len(entries) : entries[i] \in SkippedKey
    BY <2>1, ElementOfSeq
  <2>3. /\ Len(SubSeq(entries, first, Len(entries))) = Len(entries) - first + 1
        /\ \A i \in 1..(Len(entries) - first + 1) :
             SubSeq(entries, first, Len(entries))[i] = entries[first + i - 1]
    BY <2>1, <2>2, <1>1, SubSeqProperties
  <2>4. Newest(entries) = SubSeq(entries, first, Len(entries))
    BY <1>2 DEF Newest
  <2>5. ASSUME NEW i \in 1..Len(Newest(entries))
        PROVE  /\ i + (first - 1) \in 1..Len(entries)
               /\ Newest(entries)[i] = entries[i + (first - 1)]
    <3>1. first + i - 1 = i + (first - 1)
      BY <1>1, <2>3, <2>4
    <3> QED
      BY <1>1, <2>1, <2>3, <2>4, <3>1
  <2>6. Len(Newest(entries)) + (first - 1) = Len(entries)
    BY <1>1, <2>3, <2>4
  <2> HIDE DEF first
  <2> QED
    BY <2>1, <2>5, <2>6
<1>3. CASE ~(Len(entries) > MaxSkippedKeys)
  <2>1. Newest(entries) = entries
    BY <1>3 DEF Newest
  <2> WITNESS 0 \in Nat
  <2> QED
    BY <1>1, <2>1
<1> QED
  BY <1>2, <1>3

\* Consuming entry i shifts the ones behind it.
LEMMA WithoutEntries ==
  ASSUME NEW entries \in Seq(SkippedKey), NEW i \in 1..Len(entries)
  PROVE  \A j \in 1..(Len(entries) - 1) :
           Without(entries, i)[j] = IF j < i THEN entries[j] ELSE entries[j + 1]
<1>1. Len(entries) \in Nat
  OBVIOUS
<1>2. \A j \in 1..Len(entries) : entries[j] \in SkippedKey
  BY ElementOfSeq
<1> DEFINE front == SubSeq(entries, 1, i - 1)
          back == SubSeq(entries, i + 1, Len(entries))
<1>3. /\ front \in Seq(SkippedKey) /\ Len(front) = i - 1
      /\ \A j \in 1..(i - 1) : front[j] = entries[j]
  <2>1. \A j \in 1..(i - 1) : entries[j] \in SkippedKey
    BY <1>1, <1>2
  <2>2. /\ front \in Seq(SkippedKey) /\ Len(front) = (i - 1) - 1 + 1
        /\ \A j \in 1..((i - 1) - 1 + 1) : front[j] = entries[1 + j - 1]
    BY <1>1, <2>1, SubSeqProperties
  <2> QED
    BY <1>1, <2>2
<1>4. /\ back \in Seq(SkippedKey) /\ Len(back) = Len(entries) - i
      /\ \A j \in 1..(Len(entries) - i) : back[j] = entries[i + j]
  <2>1. \A j \in (i + 1)..Len(entries) : entries[j] \in SkippedKey
    BY <1>1, <1>2
  <2>2. /\ back \in Seq(SkippedKey) /\ Len(back) = Len(entries) - (i + 1) + 1
        /\ \A j \in 1..(Len(entries) - (i + 1) + 1) : back[j] = entries[(i + 1) + j - 1]
    BY <1>1, <2>1, SubSeqProperties
  <2> QED
    BY <1>1, <2>2
<1>5. Without(entries, i) = front \o back
  BY DEF Without
<1> HIDE DEF front, back
<1>6. \A j \in 1..(Len(front) + Len(back)) :
        (front \o back)[j] = IF j <= Len(front) THEN front[j] ELSE back[j - Len(front)]
  BY <1>3, <1>4, ConcatProperties
<1> SUFFICES ASSUME NEW j \in 1..(Len(entries) - 1)
             PROVE  (front \o back)[j] = IF j < i THEN entries[j] ELSE entries[j + 1]
  BY <1>5
<1>7. CASE j < i
  <2>1. j \in 1..(i - 1) /\ j \in 1..(Len(front) + Len(back)) /\ j <= Len(front)
    BY <1>1, <1>3, <1>4, <1>7
  <2> QED
    BY <1>3, <1>6, <1>7, <2>1
<1>8. CASE ~(j < i)
  <2>1. /\ j \in 1..(Len(front) + Len(back)) /\ ~(j <= Len(front))
        /\ j - Len(front) \in 1..(Len(entries) - i) /\ i + (j - Len(front)) = j + 1
    BY <1>1, <1>3, <1>4, <1>8
  <2> QED
    BY <1>4, <1>6, <1>8, <2>1
<1> QED
  BY <1>7, <1>8

\* The keys passed are named by their distance from where the chain stood.
LEMMA ChainKeysDiffer ==
  ASSUME NEW ck \in ChainKey, NEW i \in Nat
  PROVE  /\ KdfChainKey(ck, i).root = ck.root
         /\ KdfChainKey(ck, i).step = ck.step + i
         /\ KdfChainKey(ck, i) \in ChainKey
BY DEF KdfChainKey, ChainKey

\* An entry skipMessageKeys leaves is one it found, or one it passed: of the
\* chain, and between where the chain was and where it is now.
LEMMA SkippedEntries ==
  ASSUME NEW s \in BoundedState, NEW until \in Nat, s.ckr # NoChain
  PROVE  LET t == SkipMessageKeys(s, until)
             old == Len(s.skipped)
         IN  \E gap \in Nat :
               /\ t.ckr.root = s.ckr.root /\ t.ckr.step = s.ckr.step + gap
               /\ \E offset \in Nat : \A i \in DOMAIN t.skipped :
                    /\ i + offset \in Nat
                    /\ \/ i + offset \in 1..old /\ t.skipped[i] = s.skipped[i + offset]
                       \/ /\ i + offset > old /\ i + offset - old <= gap
                          /\ t.skipped[i].key.root = s.ckr.root
                          /\ t.skipped[i].key.step = s.ckr.step + (i + offset - old - 1)
<1> DEFINE gap == IF until > s.nr THEN until - s.nr ELSE 0
           entry(i) == [dh |-> s.dhr, n |-> s.nr + i - 1, key |-> KdfChainKey(s.ckr, i - 1)]
           passed == [i \in 1..gap |-> entry(i)]
           all == s.skipped \o passed
           t == SkipMessageKeys(s, until)
           old == Len(s.skipped)
<1>1. /\ s.ckr \in ChainKey /\ s.nr \in Nat /\ s.dhr \in Key
      /\ s.skipped \in Seq(SkippedKey) /\ s \in RatchetState
  BY DEF BoundedState, RatchetState
<1>2. gap \in Nat /\ old \in Nat
  BY <1>1, LenProperties
<1>3. \A k \in Nat : KdfChainKey(s.ckr, k) \in ChainKey
  BY <1>1 DEF KdfChainKey, ChainKey
<1>4. passed \in Seq(SkippedKey) /\ Len(passed) = gap
  <2>1. \A i \in 1..gap : entry(i) \in SkippedKey
    <3> SUFFICES ASSUME NEW i \in 1..gap PROVE entry(i) \in SkippedKey
      OBVIOUS
    <3>1. i - 1 \in Nat /\ s.nr + i - 1 \in Nat
      BY <1>1, <1>2
    <3> QED
      BY <1>1, <1>3, <3>1 DEF SkippedKey
  <2>2. DOMAIN passed = 1..gap
    OBVIOUS
  <2> HIDE DEF entry, gap
  <2>3. passed \in Seq(SkippedKey)
    BY <1>2, <2>1, IsASeq
  <2> QED
    BY <1>2, <2>2, <2>3, LenProperties
<1>5. \A i \in 1..gap : passed[i].key = KdfChainKey(s.ckr, i - 1)
  OBVIOUS
<1>6. t = [s EXCEPT !.skipped = Newest(all), !.ckr = KdfChainKey(s.ckr, gap), !.nr = until]
  BY <1>1 DEF SkipMessageKeys, RatchetState
<1> HIDE DEF passed, gap, entry
<1>7. /\ all \in Seq(SkippedKey) /\ Len(all) = old + gap
      /\ \A i \in 1..(old + gap) : all[i] = IF i <= old THEN s.skipped[i] ELSE passed[i - old]
  BY <1>1, <1>4, ConcatProperties
<1> HIDE DEF all, t, old
<1>8. t.skipped = Newest(all) /\ t.ckr = KdfChainKey(s.ckr, gap)
  BY <1>1, <1>6 DEF RatchetState
<1>9. t.ckr.root = s.ckr.root /\ t.ckr.step = s.ckr.step + gap
  BY <1>1, <1>8 DEF KdfChainKey, ChainKey
<1>10. PICK offset \in Nat :
         /\ Len(Newest(all)) + offset = Len(all)
         /\ \A i \in 1..Len(Newest(all)) :
              /\ i + offset \in 1..Len(all)
              /\ Newest(all)[i] = all[i + offset]
  BY <1>7, NewestEntries
<1>11. DOMAIN t.skipped = 1..Len(Newest(all))
  BY <1>7, <1>8, NewestType, LenProperties
<1>12. ASSUME NEW i \in DOMAIN t.skipped
       PROVE  /\ i + offset \in Nat
              /\ \/ i + offset \in 1..old /\ t.skipped[i] = s.skipped[i + offset]
                 \/ /\ i + offset > old /\ i + offset - old <= gap
                    /\ t.skipped[i].key.root = s.ckr.root
                    /\ t.skipped[i].key.step = s.ckr.step + (i + offset - old - 1)
  <2>0. i \in Nat
    <3>1. Len(Newest(all)) \in Nat
      BY <1>7, NewestType, LenProperties
    <3> QED
      BY <1>11, <3>1
  <2>1. i + offset \in 1..(old + gap) /\ t.skipped[i] = all[i + offset]
    BY <1>7, <1>8, <1>10, <1>11
  <2>2. CASE i + offset <= old
    <3>1. i + offset \in 1..old
      BY <1>2, <2>1, <2>2
    <3>2. t.skipped[i] = s.skipped[i + offset]
      BY <1>7, <2>1, <2>2
    <3> QED
      BY <2>1, <3>1, <3>2
  <2>3. CASE ~(i + offset <= old)
    <3> DEFINE k == i + offset - old
    <3>1. k \in 1..gap /\ k - 1 \in Nat /\ k = i + offset - old /\ i + offset > old
      BY <1>2, <2>0, <2>1, <2>3
    <3>2. t.skipped[i] = passed[k]
      BY <1>2, <1>7, <2>0, <2>1, <2>3
    <3> HIDE DEF k
    <3>3. t.skipped[i].key = KdfChainKey(s.ckr, k - 1)
      BY <1>5, <3>1, <3>2
    <3>4. t.skipped[i].key.root = s.ckr.root /\ t.skipped[i].key.step = s.ckr.step + (k - 1)
      <4>1. s.ckr \in ChainKey
        BY <1>1
      <4> DEFINE j == k - 1
      <4>2. j \in Nat /\ t.skipped[i].key = KdfChainKey(s.ckr, j)
        BY <3>1, <3>3
      <4> HIDE DEF j
      <4>3. t.skipped[i].key.root = s.ckr.root /\ t.skipped[i].key.step = s.ckr.step + j
        BY <4>1, <4>2, ChainKeysDiffer
      <4> QED
        BY <4>3 DEF j
    <3> QED
      <4>1. i + offset \in Nat /\ i + offset > old /\ i + offset - old <= gap
        BY <1>2, <2>0, <2>1, <2>3
      <4>2. s.ckr.step + (k - 1) = s.ckr.step + (i + offset - old - 1)
        <5>1. k - 1 = i + offset - old - 1
          BY <1>2, <2>0, <3>1
        <5> QED
          BY <5>1
      <4> QED
        BY <3>4, <4>1, <4>2
  <2> QED
    BY <2>2, <2>3
<1> QED
  BY <1>2, <1>9, <1>12 DEF t, old

\* Running a chain forward produces no used key: what it passes it has not used,
\* and it stores none of it twice.
LEMMA SkipExhausts ==
  ASSUME NEW s \in BoundedState, NEW until \in Nat, NEW used \in SUBSET ChainKey,
         NEW roots, ExhaustsUpTo(s, used, roots)
  PROVE  ExhaustsUpTo(SkipMessageKeys(s, until), used, roots)
<1>1. CASE s.ckr = NoChain
  <2>1. SkipMessageKeys(s, until) = s
    BY <1>1 DEF SkipMessageKeys
  <2> QED
    BY <2>1
<1>2. CASE s.ckr # NoChain
  <2> DEFINE t == SkipMessageKeys(s, until)
             old == Len(s.skipped)
  <2>1. PICK gap \in Nat :
          /\ t.ckr.root = s.ckr.root /\ t.ckr.step = s.ckr.step + gap
          /\ \E offset \in Nat : \A i \in DOMAIN t.skipped :
               /\ i + offset \in Nat
               /\ \/ i + offset \in 1..old /\ t.skipped[i] = s.skipped[i + offset]
                  \/ /\ i + offset > old /\ i + offset - old <= gap
                     /\ t.skipped[i].key.root = s.ckr.root
                     /\ t.skipped[i].key.step = s.ckr.step + (i + offset - old - 1)
    BY <1>2, SkippedEntries
  <2>2. PICK offset \in Nat : \A i \in DOMAIN t.skipped :
               /\ i + offset \in Nat
               /\ \/ i + offset \in 1..old /\ t.skipped[i] = s.skipped[i + offset]
                  \/ /\ i + offset > old /\ i + offset - old <= gap
                     /\ t.skipped[i].key.root = s.ckr.root
                     /\ t.skipped[i].key.step = s.ckr.step + (i + offset - old - 1)
    BY <2>1
  <2>3. t \in BoundedState /\ t.rk = s.rk
    BY SkipMessageKeysType
  <2>4. /\ s.ckr \in ChainKey /\ s.skipped \in Seq(SkippedKey) /\ old \in Nat
        /\ s.ckr.step \in Nat /\ t.ckr \in ChainKey /\ t.ckr.step \in Nat
        /\ DOMAIN s.skipped = 1..old /\ DOMAIN t.skipped \subseteq Nat
    <3>1. s \in RatchetState /\ t \in RatchetState
      BY <2>3 DEF BoundedState
    <3>2. /\ s.ckr \in ChainKey /\ s.skipped \in Seq(SkippedKey)
          /\ t.ckr \in ChainKey /\ t.skipped \in Seq(SkippedKey)
      BY <3>1 DEF RatchetState
    <3> QED
      BY <3>2, LenProperties DEF ChainKey
  <2> HIDE DEF t, old
  <2>5. \A i \in DOMAIN s.skipped :
          s.skipped[i].key \in ChainKey /\ s.skipped[i].key.step \in Nat
    <3>1. \A i \in DOMAIN s.skipped : s.skipped[i] \in SkippedKey
      BY <2>4, ElementOfSeq DEF old
    <3> QED
      BY <3>1 DEF SkippedKey, ChainKey
  <2>6. \* The step of a key that was passed, and that it is not a key of old.
        ASSUME NEW i \in DOMAIN t.skipped, i + offset > old
        PROVE  /\ t.skipped[i].key.root = s.ckr.root
               /\ t.skipped[i].key.step = s.ckr.step + (i + offset - old - 1)
               /\ s.ckr.step <= t.skipped[i].key.step
               /\ t.skipped[i].key.step < t.ckr.step
    <3>1. /\ t.skipped[i].key.root = s.ckr.root
          /\ t.skipped[i].key.step = s.ckr.step + (i + offset - old - 1)
          /\ i + offset \in Nat /\ i + offset - old <= gap
      BY <2>2, <2>4, <2>6
    <3>2. i + offset - old - 1 \in Nat /\ i + offset - old - 1 < gap
      BY <2>4, <2>6, <3>1
    <3>3. s.ckr.step \in Nat /\ t.ckr.step = s.ckr.step + gap
      BY <2>1, <2>4
    <3> QED
      BY <3>1, <3>2, <3>3
  <2>7. ASSUME NEW i \in DOMAIN t.skipped, ~(i + offset > old)
        PROVE  i + offset \in DOMAIN s.skipped /\ t.skipped[i] = s.skipped[i + offset]
    BY <2>2, <2>4, <2>7
  <2>8. s.ckr.root \in roots
    BY <1>2 DEF ExhaustsUpTo
  <2>9. \A k \in ChainKey : Behind(k, s.ckr) => Behind(k, t.ckr)
    BY <1>2, <2>1, <2>4 DEF Behind, ChainKey
  <2>10. ASSUME NEW i \in DOMAIN t.skipped, i + offset > old,
                NEW k \in ChainKey, Behind(k, s.ckr)
         PROVE  t.skipped[i].key # k
    <3>1. CASE k.root = s.ckr.root
      <4>1. k.step < s.ckr.step /\ k.step \in Nat
        BY <1>2, <2>10, <3>1 DEF Behind, ChainKey
      <4>2. s.ckr.step <= t.skipped[i].key.step
        BY <2>6, <2>10
      <4>3. CASE t.skipped[i].key = k
        BY <2>4, <4>1, <4>2, <4>3
      <4> QED
        BY <4>3
    <3>2. CASE k.root # s.ckr.root
      BY <2>6, <2>10, <3>2
    <3> QED
      BY <3>1, <3>2
  <2>11. ASSUME NEW i \in DOMAIN t.skipped
         PROVE  /\ Behind(t.skipped[i].key, t.ckr)
                /\ t.skipped[i].key.root \in roots
                /\ \A j \in DOMAIN t.skipped : t.skipped[i].key = t.skipped[j].key => i = j
                /\ \A k \in used : t.skipped[i].key # k
    <3>1. CASE i + offset > old
      <4>1. Behind(t.skipped[i].key, t.ckr) /\ t.skipped[i].key.root \in roots
        BY <2>6, <2>8, <3>1 DEF Behind
      <4>2. ASSUME NEW j \in DOMAIN t.skipped, t.skipped[i].key = t.skipped[j].key
            PROVE  i = j
        <5>1. CASE j + offset > old
          <6>1. s.ckr.step + (i + offset - old - 1) = s.ckr.step + (j + offset - old - 1)
            BY <2>6, <3>1, <4>2, <5>1
          <6>2. i \in Nat /\ j \in Nat
            BY <2>4
          <6> QED
            BY <2>4, <6>1, <6>2
        <5>2. CASE ~(j + offset > old)
          <6>1. /\ j + offset \in DOMAIN s.skipped
                /\ t.skipped[i].key = s.skipped[j + offset].key
            BY <2>7, <4>2, <5>2
          <6>2. Behind(s.skipped[j + offset].key, s.ckr)
            BY <6>1 DEF ExhaustsUpTo
          <6>3. s.skipped[j + offset].key \in ChainKey
            BY <2>5, <6>1
          <6> QED
            BY <2>10, <3>1, <4>2, <6>1, <6>2, <6>3
        <5> QED
          BY <5>1, <5>2
      <4>3. ASSUME NEW k \in used, t.skipped[i].key = k
            PROVE  FALSE
        <5>1. k \in ChainKey /\ Behind(k, s.ckr)
          BY DEF ExhaustsUpTo
        <5> QED
          BY <2>10, <3>1, <4>3, <5>1
      <4> QED
        BY <4>1, <4>2, <4>3
    <3>2. CASE ~(i + offset > old)
      <4>1. i + offset \in DOMAIN s.skipped /\ t.skipped[i] = s.skipped[i + offset]
        BY <2>7, <3>2
      <4>2. /\ Behind(s.skipped[i + offset].key, s.ckr)
            /\ s.skipped[i + offset].key.root \in roots
            /\ \A k \in used : s.skipped[i + offset].key # k
        BY <4>1 DEF ExhaustsUpTo
      <4>3. Behind(t.skipped[i].key, t.ckr)
        BY <2>5, <2>9, <4>1, <4>2
      <4>4. ASSUME NEW j \in DOMAIN t.skipped, t.skipped[i].key = t.skipped[j].key
            PROVE  i = j
        <5>1. CASE j + offset > old
          <6>1. s.skipped[i + offset].key \in ChainKey
            BY <2>5, <4>1
          <6>2. t.skipped[j].key # s.skipped[i + offset].key
            BY <2>10, <4>2, <5>1, <6>1
          <6> QED
            BY <4>1, <4>4, <6>2
        <5>2. CASE ~(j + offset > old)
          <6>1. j + offset \in DOMAIN s.skipped /\ t.skipped[j] = s.skipped[j + offset]
            BY <2>7, <5>2
          <6>2. i + offset = j + offset
            BY <4>1, <4>4, <6>1 DEF ExhaustsUpTo
          <6> QED
            BY <2>4, <6>2
        <5> QED
          BY <5>1, <5>2
      <4> QED
        BY <4>1, <4>2, <4>3, <4>4
    <3> QED
      BY <3>1, <3>2
  <2>12. t.ckr # NoChain
    <3>1. NoChain.step = 0 /\ s.ckr = [root |-> s.ckr.root, step |-> s.ckr.step]
      BY <2>4 DEF NoChain, FreshChain, ChainKey
    <3>2. CASE gap = 0
      BY <1>2, <2>1, <2>4, <3>2 DEF ChainKey
    <3>3. CASE gap # 0
      BY <2>1, <2>4, <3>1, <3>3
    <3> QED
      BY <3>2, <3>3
  <2>13. \A k \in used : Behind(k, t.ckr)
    BY <2>9 DEF ExhaustsUpTo
  <2>14. \A r \in roots : r.secret = t.rk.secret => Len(r.turns) <= Len(t.rk.turns)
    BY <2>3 DEF ExhaustsUpTo
  <2>15. ExhaustsUpTo(t, used, roots)
    BY <2>1, <2>8, <2>11, <2>12, <2>13, <2>14 DEF ExhaustsUpTo
  <2> QED
    BY <2>15 DEF t
<1> QED
  BY <1>1, <1>2

\* The turn of the conversation derives a receiving root that is longer than any
\* received on before, so its chain holds no used key.
LEMMA TurnExhausts ==
  ASSUME NEW s \in BoundedState, NEW header \in Header, NEW fresh \in Key,
         NEW used \in SUBSET ChainKey, NEW roots \in SUBSET RootKey,
         \A k \in used : k.root \in roots,
         ExhaustsUpTo(s, used, roots)
  PROVE  LET t == DhRatchet(s, header, fresh)
         IN  /\ t.ckr # NoChain
             /\ t.rk.secret = s.rk.secret /\ t.ckr.root.secret = s.rk.secret
             /\ t.cks.root = t.rk /\ t.rk.turns # <<>>
             /\ t.ckr.root \in RootKey
             /\ ExhaustsUpTo(t, used, roots \cup {t.ckr.root})
<1> DEFINE c == SkipMessageKeys(s, header.pn)
           first == Dh(c.dhs, header.dh)
           second == Dh(fresh, header.dh)
           receiving == KdfRootKey(c.rk, first)
           sending == KdfRootKey(receiving, second)
           t == DhRatchet(s, header, fresh)
<1>1. header.dh \in Key /\ header.pn \in Nat
  BY DEF Header
<1>2. c \in BoundedState /\ c.rk = s.rk
  BY <1>1, SkipMessageKeysType
<1>3. ExhaustsUpTo(c, used, roots)
  BY <1>1, SkipExhausts
<1>4. t = [c EXCEPT !.rk = sending, !.dhs = fresh, !.dhr = header.dh,
                    !.cks = FreshChain(sending), !.ckr = FreshChain(receiving),
                    !.pn = c.ns, !.ns = 0, !.nr = 0]
  BY DEF DhRatchet
<1>5. c \in RatchetState /\ c.rk \in RootKey /\ c.dhs \in Key /\ c.skipped \in Seq(SkippedKey)
  BY <1>2 DEF BoundedState, RatchetState
<1>6. first \in DhOutput /\ second \in DhOutput
  BY <1>1, <1>5 DEF Dh, DhOutput
<1> HIDE DEF c, first, second
<1>7. /\ receiving \in RootKey /\ receiving.secret = c.rk.secret
      /\ Len(receiving.turns) = Len(c.rk.turns) + 1 /\ Len(c.rk.turns) \in Nat
      /\ FreshChain(receiving) # NoChain
  BY <1>5, <1>6, KdfRootKeyType, KdfRootKeyGrows, FreshChainType
<1>8. /\ sending \in RootKey /\ sending.secret = receiving.secret
      /\ Len(sending.turns) = Len(receiving.turns) + 1
  BY <1>6, <1>7, KdfRootKeyType, KdfRootKeyGrows
<1> HIDE DEF receiving, sending, t
<1>9. /\ t.rk = sending /\ t.cks = FreshChain(sending) /\ t.ckr = FreshChain(receiving)
      /\ t.skipped = c.skipped
  BY <1>4, <1>5 DEF RatchetState
<1>10. t.ckr.root = receiving /\ t.cks.root = sending
  BY <1>9 DEF FreshChain
<1>11. receiving \notin roots
  <2> SUFFICES ASSUME receiving \in roots PROVE FALSE
    OBVIOUS
  <2>1. Len(receiving.turns) <= Len(c.rk.turns)
    BY <1>3, <1>7 DEF ExhaustsUpTo
  <2> QED
    BY <1>7, <2>1
<1>12. \A key : key.root \in roots => Behind(key, t.ckr)
  BY <1>10, <1>11 DEF Behind
<1>13. \A r \in roots \cup {receiving} :
         r.secret = t.rk.secret => Len(r.turns) <= Len(t.rk.turns)
  <2> SUFFICES ASSUME NEW r \in roots \cup {receiving}, r.secret = sending.secret
               PROVE  Len(r.turns) <= Len(sending.turns)
    BY <1>9
  <2>1. CASE r = receiving
    BY <1>7, <1>8, <2>1
  <2>2. CASE r \in roots
    <3>1. Len(r.turns) <= Len(c.rk.turns)
      BY <1>3, <1>7, <1>8, <2>2 DEF ExhaustsUpTo
    <3>2. r.turns \in Seq(DhOutput)
      BY <2>2 DEF RootKey
    <3>3. Len(r.turns) \in Nat
      BY <3>2, LenProperties
    <3> QED
      BY <1>7, <1>8, <3>1, <3>3
  <2> QED
    BY <2>1, <2>2
<1>14. t.ckr # NoChain
  BY <1>7, <1>9
<1>15. \A i \in DOMAIN t.skipped :
         /\ Behind(t.skipped[i].key, t.ckr)
         /\ t.skipped[i].key.root \in roots
         /\ \A j \in DOMAIN t.skipped : t.skipped[i].key = t.skipped[j].key => i = j
  BY <1>3, <1>9, <1>12 DEF ExhaustsUpTo
<1>16. \A k \in used :
         Behind(k, t.ckr) /\ \A i \in DOMAIN t.skipped : t.skipped[i].key # k
  BY <1>3, <1>9, <1>12 DEF ExhaustsUpTo
<1>17. ExhaustsUpTo(t, used, roots \cup {t.ckr.root})
  BY <1>10, <1>13, <1>14, <1>15, <1>16 DEF ExhaustsUpTo
<1>18. sending.turns # <<>>
  <2>1. Len(<<>>) = 0
    OBVIOUS
  <2> QED
    BY <1>7, <1>8, <2>1
<1> QED
  BY <1>2, <1>7, <1>8, <1>9, <1>10, <1>14, <1>17, <1>18 DEF t

\* Reading under the chain key uses it up.
LEMMA ConsumeExhausts ==
  ASSUME NEW u \in BoundedState, NEW used \in SUBSET ChainKey, NEW roots,
         ExhaustsUpTo(u, used, roots), u.ckr # NoChain
  PROVE  LET t == [u EXCEPT !.ckr = KdfChainKey(@, 1), !.nr = @ + 1,
                            !.pendingPreKey = NoPreKey]
         IN  /\ u.ckr \notin used /\ u.ckr.root \in roots
             /\ t.ckr # NoChain
             /\ t.rk = u.rk /\ t.cks = u.cks
             /\ ExhaustsUpTo(t, used \cup {u.ckr}, roots)
<1> DEFINE next == KdfChainKey(u.ckr, 1)
           n == u.nr + 1
           t == [u EXCEPT !.ckr = next, !.nr = n, !.pendingPreKey = NoPreKey]
<1>1. u \in RatchetState /\ u.ckr \in ChainKey /\ u.skipped \in Seq(SkippedKey)
  BY DEF BoundedState, RatchetState
<1>2. next.root = u.ckr.root /\ next.step = u.ckr.step + 1 /\ u.ckr.step \in Nat
  BY <1>1, ChainKeysDiffer DEF ChainKey
<1> HIDE DEF next, n
<1>3. t.ckr = next /\ t.rk = u.rk /\ t.cks = u.cks /\ t.skipped = u.skipped
  BY <1>1 DEF RatchetState
<1>4. t.ckr # NoChain
  <2>1. NoChain.step = 0
    BY DEF NoChain, FreshChain
  <2> QED
    BY <1>2, <1>3, <2>1
<1> HIDE DEF t
<1>5. u.ckr.root \in roots
  BY DEF ExhaustsUpTo
<1>6. ~Behind(u.ckr, u.ckr)
  BY <1>2 DEF Behind
<1>7. u.ckr \notin used
  BY <1>6 DEF ExhaustsUpTo
<1>8. \A key \in ChainKey : Behind(key, u.ckr) => Behind(key, t.ckr)
  BY <1>2, <1>3 DEF Behind, ChainKey
<1>9. Behind(u.ckr, t.ckr)
  BY <1>2, <1>3 DEF Behind
<1>10. \A i \in DOMAIN u.skipped : u.skipped[i].key \in ChainKey
  <2>1. \A i \in DOMAIN u.skipped : u.skipped[i] \in SkippedKey
    BY <1>1, ElementOfSeq, LenProperties
  <2> QED
    BY <2>1 DEF SkippedKey
<1>11. \A i \in DOMAIN t.skipped :
         /\ Behind(t.skipped[i].key, t.ckr)
         /\ t.skipped[i].key.root \in roots
         /\ \A j \in DOMAIN t.skipped : t.skipped[i].key = t.skipped[j].key => i = j
  BY <1>3, <1>8, <1>10 DEF ExhaustsUpTo
<1>12. ASSUME NEW k \in used \cup {u.ckr}
       PROVE  Behind(k, t.ckr) /\ \A i \in DOMAIN t.skipped : t.skipped[i].key # k
  <2>1. CASE k \in used
    BY <1>3, <1>8, <2>1 DEF ExhaustsUpTo
  <2>2. CASE k = u.ckr
    BY <1>3, <1>6, <1>9, <2>2 DEF ExhaustsUpTo
  <2> QED
    BY <2>1, <2>2
<1>13. \A r \in roots : r.secret = t.rk.secret => Len(r.turns) <= Len(t.rk.turns)
  BY <1>3 DEF ExhaustsUpTo
<1>14. ExhaustsUpTo(t, used \cup {u.ckr}, roots)
  BY <1>2, <1>3, <1>4, <1>5, <1>11, <1>12, <1>13 DEF ExhaustsUpTo
<1> QED
  BY <1>3, <1>4, <1>5, <1>7, <1>14 DEF t, next, n

\* The state once its skipped key i is consumed.
Taken(s, i) == [s EXCEPT !.skipped = Without(@, i)]

\* From s to t a new key of one of the roots is used up, and no root changes.
Spends(s, t, key, used, roots) ==
  /\ key \notin used /\ key.root \in roots
  /\ t.ckr # NoChain /\ t.rk = s.rk /\ t.cks = s.cks
  /\ ExhaustsUpTo(t, used \cup {key}, roots)

\* Reading under a skipped key uses it up.
LEMMA TakeSkippedExhausts ==
  ASSUME NEW s \in BoundedState, NEW used \in SUBSET ChainKey, NEW roots,
         ExhaustsUpTo(s, used, roots), NEW i \in 1..Len(s.skipped)
  PROVE  Spends(s, Taken(s, i), s.skipped[i].key, used, roots)
<1> DEFINE t == Taken(s, i)
           len == Len(s.skipped)
           Old(j) == IF j < i THEN j ELSE j + 1
<1>1. s \in RatchetState /\ s.skipped \in Seq(SkippedKey) /\ len \in Nat
  BY DEF BoundedState, RatchetState
<1>2. DOMAIN s.skipped = 1..len /\ i \in Nat
  BY <1>1, LenProperties
<1>3. /\ t.ckr = s.ckr /\ t.rk = s.rk /\ t.cks = s.cks
      /\ t.skipped = Without(s.skipped, i)
  BY <1>1 DEF RatchetState, Taken
<1>4. /\ DOMAIN t.skipped = 1..(len - 1)
      /\ \A j \in 1..(len - 1) :
           t.skipped[j] = IF j < i THEN s.skipped[j] ELSE s.skipped[j + 1]
  BY <1>1, <1>3, WithoutType, WithoutEntries, LenProperties
<1> HIDE DEF len, t
<1>5. \A j \in DOMAIN t.skipped :
        /\ j \in Nat /\ Old(j) \in DOMAIN s.skipped /\ Old(j) # i
        /\ t.skipped[j] = s.skipped[Old(j)]
  BY <1>1, <1>2, <1>4
<1>6. \A j, k \in DOMAIN t.skipped : Old(j) = Old(k) => j = k
  BY <1>1, <1>2, <1>4
<1> HIDE DEF Old
<1>7. i \in DOMAIN s.skipped
  BY <1>2 DEF len
<1>8. s.skipped[i].key \notin used /\ s.skipped[i].key.root \in roots
  BY <1>7 DEF ExhaustsUpTo
<1>9. s.ckr # NoChain
  <2>1. CASE s.ckr = NoChain
    <3>1. s.skipped = <<>>
      BY <2>1 DEF ExhaustsUpTo
    <3> QED
      BY <1>7, <3>1
  <2> QED
    BY <2>1
<1>10. \A j \in DOMAIN t.skipped :
         /\ Behind(t.skipped[j].key, t.ckr)
         /\ t.skipped[j].key.root \in roots
         /\ \A k \in DOMAIN t.skipped : t.skipped[j].key = t.skipped[k].key => j = k
  BY <1>3, <1>5, <1>6 DEF ExhaustsUpTo
<1>11. ASSUME NEW k \in used \cup {s.skipped[i].key}
       PROVE  Behind(k, t.ckr) /\ \A j \in DOMAIN t.skipped : t.skipped[j].key # k
  <2>1. CASE k \in used
    BY <1>3, <1>5, <2>1 DEF ExhaustsUpTo
  <2>2. CASE k = s.skipped[i].key
    BY <1>3, <1>5, <1>7, <2>2 DEF ExhaustsUpTo
  <2> QED
    BY <2>1, <2>2
<1>12. \A r \in roots : r.secret = t.rk.secret => Len(r.turns) <= Len(t.rk.turns)
  BY <1>3 DEF ExhaustsUpTo
<1>13. s.ckr.root \in roots
  BY <1>9 DEF ExhaustsUpTo
<1>14. ExhaustsUpTo(t, used \cup {s.skipped[i].key}, roots)
  BY <1>3, <1>9, <1>10, <1>11, <1>12, <1>13 DEF ExhaustsUpTo
<1> QED
  BY <1>3, <1>8, <1>9, <1>14 DEF t, Spends

\* Whatever a session reads, it reads under a key it has not read under before,
\* and it has used that key up; the root is one it received on or derives from
\* its own secret.
LEMMA DecryptExhausts ==
  ASSUME NEW s \in BoundedState, NEW m, m.header \in Header, m.key \in ChainKey,
         NEW fresh \in Key, NEW used \in SUBSET ChainKey,
         Exhausts(s, used), CanDecrypt(s, m, fresh)
  PROVE  LET t == AfterDecrypt(s, m, fresh)
         IN  /\ m.key \notin used
             /\ Exhausts(t, used \cup {m.key})
             /\ t.ckr # NoChain
             /\ t.rk.secret = s.rk.secret
             /\ m.key.root.secret = s.rk.secret \/ \E k \in used : k.root = m.key.root
             /\ \/ t.cks = s.cks
                \/ t.cks.root = t.rk /\ t.rk.turns # <<>>
<1> DEFINE roots == {k.root : k \in used}
           t == AfterDecrypt(s, m, fresh)
           all == used \cup {m.key}
<1>1. ExhaustsUpTo(s, used, roots)
  BY DEF Exhausts
<1>2. roots \in SUBSET RootKey
  BY DEF ChainKey
<1>3. \A k \in used : k.root \in roots
  OBVIOUS
<1>4. all \in SUBSET ChainKey
  OBVIOUS
<1>5. \A r : r \in roots => \E k \in used : k.root = r
  OBVIOUS
<1>6. m.key.root \in roots => {k.root : k \in all} = roots
  OBVIOUS
<1>7. {k.root : k \in all} = roots \cup {m.key.root}
  OBVIOUS
<1> HIDE DEF roots, t, all
<1>8. CASE SkippedAt(s, m.header) # {}
  <2> DEFINE i == FirstSkipped(s, m.header)
  <2>1. i \in 1..Len(s.skipped)
    BY <1>8, FirstSkippedExists DEF BoundedState
  <2>2. s.skipped[i].key = m.key
    BY <1>8 DEF CanDecrypt, Opens
  <2>3. t = Taken(s, i)
    BY <1>8 DEF AfterDecrypt, Taken, t
  <2> HIDE DEF i
  <2>4. /\ m.key \notin used /\ m.key.root \in roots
        /\ t.ckr # NoChain /\ t.rk = s.rk /\ t.cks = s.cks
        /\ ExhaustsUpTo(t, used \cup {m.key}, roots)
    <3>1. Spends(s, Taken(s, i), s.skipped[i].key, used, roots)
      BY <1>1, <2>1, TakeSkippedExhausts
    <3> QED
      BY <2>2, <2>3, <3>1 DEF Spends
  <2>5. Exhausts(t, all)
    BY <1>6, <2>4 DEF Exhausts, all
  <2> QED
    BY <1>5, <2>4, <2>5 DEF t, all
<1>9. CASE SkippedAt(s, m.header) = {} /\ s.dhr = m.header.dh
  <2> DEFINE u == SkipMessageKeys(s, m.header.n)
  <2>1. m.header.n \in Nat
    BY DEF Header
  <2>2. u \in BoundedState /\ u.rk = s.rk /\ u.cks = s.cks
    BY <2>1, SkipMessageKeysType
  <2>3. ExhaustsUpTo(u, used, roots)
    BY <1>1, <2>1, SkipExhausts
  <2>4. CaughtUp(s, m.header, fresh) = u
    BY <1>9 DEF CaughtUp
  <2>5. u.ckr # NoChain /\ u.ckr = m.key
    BY <1>9, <2>4 DEF CanDecrypt, Opens
  <2>6. t = [u EXCEPT !.ckr = KdfChainKey(@, 1), !.nr = @ + 1, !.pendingPreKey = NoPreKey]
    BY <1>9, <2>4 DEF AfterDecrypt, t
  <2> HIDE DEF u
  <2>7. /\ m.key \notin used /\ m.key.root \in roots
        /\ t.ckr # NoChain /\ t.rk = u.rk /\ t.cks = u.cks
        /\ ExhaustsUpTo(t, used \cup {m.key}, roots)
    BY <2>2, <2>3, <2>5, <2>6, ConsumeExhausts
  <2>8. Exhausts(t, all)
    BY <1>6, <2>7 DEF Exhausts, all
  <2> QED
    BY <1>5, <2>2, <2>7, <2>8 DEF t, all
<1>10. CASE SkippedAt(s, m.header) = {} /\ s.dhr # m.header.dh
  <2> DEFINE r == DhRatchet(s, m.header, fresh)
             u == SkipMessageKeys(r, m.header.n)
             wider == roots \cup {r.ckr.root}
  <2>1. m.header.n \in Nat
    BY DEF Header
  <2>2. r \in BoundedState
    BY DhRatchetType
  <2>3. /\ r.ckr # NoChain
        /\ r.rk.secret = s.rk.secret /\ r.ckr.root.secret = s.rk.secret
        /\ r.cks.root = r.rk /\ r.rk.turns # <<>>
        /\ r.ckr.root \in RootKey
        /\ ExhaustsUpTo(r, used, wider)
    BY <1>1, <1>2, <1>3, TurnExhausts
  <2> HIDE DEF r, wider
  <2>4. u \in BoundedState /\ u.rk = r.rk /\ u.cks = r.cks
    BY <2>1, <2>2, SkipMessageKeysType
  <2>5. ExhaustsUpTo(u, used, wider)
    BY <2>1, <2>2, <2>3, SkipExhausts
  <2>6. u.ckr.root = r.ckr.root
    BY <2>1, <2>2, <2>3, SkippedEntries
  <2>7. CaughtUp(s, m.header, fresh) = u
    BY <1>10 DEF CaughtUp, r
  <2>8. u.ckr # NoChain /\ u.ckr = m.key
    BY <1>10, <2>7 DEF CanDecrypt, Opens
  <2>9. t = [u EXCEPT !.ckr = KdfChainKey(@, 1), !.nr = @ + 1, !.pendingPreKey = NoPreKey]
    BY <1>10, <2>7 DEF AfterDecrypt, t
  <2> HIDE DEF u
  <2>10. /\ m.key \notin used
         /\ t.ckr # NoChain /\ t.rk = u.rk /\ t.cks = u.cks
         /\ ExhaustsUpTo(t, used \cup {m.key}, wider)
    BY <2>4, <2>5, <2>8, <2>9, ConsumeExhausts
  <2>11. {k.root : k \in all} = wider
    BY <1>7, <2>6, <2>8 DEF wider
  <2>12. Exhausts(t, all)
    BY <2>10, <2>11 DEF Exhausts, all
  <2> QED
    BY <2>3, <2>4, <2>6, <2>8, <2>10, <2>12 DEF t, all
<1> QED
  BY <1>8, <1>9, <1>10

-----------------------------------------------------------------------------
(* Types                                                                   *)

\* What an operation reads from the vault or writes to it, and the bundle it
\* claims, are seen through in every proof below.
USE DEF HasSession, Saved, BundleOf, Outbound

\* The typed part of the key material a device starts with.
LEMMA InitialKeys ==
  ASSUME NEW d \in Device
  PROVE  /\ IdentityKey[d] \in Key /\ FirstSignedPreKey[d] \in Key
         /\ OneTimePreKeys[d] \in SUBSET Key
         /\ FirstSignedPreKey[d] < FirstFreshKey
BY KeysNumbered

\* The vault without a session for a peer is a state that cannot send.
LEMMA NoSessionType == NoSession \in BoundedState /\ NoSession.cks = NoChain
<1>1. <<NoKey, NoKey>> \in Key \X Key /\ NoKey \in Key
  BY DEF NoKey, Key
<1> QED
  BY <1>1, InitReceiverType DEF NoSession

\* The claimed one-time prekey is one of the pool, or none.
LEMMA ClaimedType ==
  ASSUME NEW pool \in SUBSET Key
  PROVE  /\ Claimed(pool) \in Key
         /\ pool # {} => Claimed(pool) \in pool
         /\ pool = {} => Claimed(pool) = NoKey
<1>1. CASE pool = {}
  BY <1>1 DEF Claimed, NoKey, Key
<1>2. CASE pool # {}
  <2>1. \E k \in pool : \A j \in pool : k <= j
    BY <1>2, LeastExists DEF Key
  <2> QED
    BY <1>2, <2>1 DEF Claimed
<1> QED
  BY <1>1, <1>2

\* The secret of a handshake, on either side.
LEMMA SharedSecretType ==
  ASSUME NEW iik \in Key, NEW ek \in Key, NEW rik \in Key, NEW spk \in Key, NEW opk \in Key
  PROVE  SharedSecret(iik, ek, rik, spk, opk) \in SUBSET DhOutput
BY DEF SharedSecret, Dh, DhOutput

\* The session an initiator starts.
LEMMA InitiateType ==
  ASSUME NEW d \in Device, NEW b \in Bundle, NEW ek \in Key, NEW dhs \in Key,
         NEW s, s = Initiate(d, b, ek, dhs)
  PROVE  /\ s \in BoundedState
         /\ s.dhs = dhs /\ s.dhr = b.spk /\ s.ns = 0
         /\ s.cks # NoChain /\ s.cks.step = 0
         /\ LastTurn(s.cks) = Dh(dhs, b.spk)
<1>1. b.owner \in Device /\ b.spk \in Key /\ b.opk \in Key
  BY DEF Bundle
<1>2. IdentityKey[d] \in Key /\ IdentityKey[b.owner] \in Key
  BY <1>1, InitialKeys
<1>3. SharedSecret(IdentityKey[d], ek, IdentityKey[b.owner], b.spk, b.opk) \in SUBSET DhOutput
  BY <1>1, <1>2, SharedSecretType
<1>4. [ek |-> ek, spk |-> b.spk, opk |-> b.opk] \in PreKeyFields
  BY <1>1 DEF PreKeyFields
<1>5. <<IdentityKey[d], IdentityKey[b.owner]>> \in Key \X Key
  BY <1>2
<1> QED
  BY <1>1, <1>3, <1>4, <1>5, InitSenderType DEF Initiate

\* The session a responder starts, which cannot send before it has received.
LEMMA RespondType ==
  ASSUME NEW d \in Device, NEW m \in Message, NEW opk \in Key
  PROVE  Respond(d, m, opk) \in BoundedState /\ Respond(d, m, opk).cks = NoChain
<1>1. m.from \in Device /\ m.prekey.ek \in Key /\ m.prekey.spk \in Key
  BY DEF Message, PreKeyFields
<1>2. IdentityKey[d] \in Key /\ IdentityKey[m.from] \in Key
  BY <1>1, InitialKeys
<1>3. SharedSecret(IdentityKey[m.from], m.prekey.ek, IdentityKey[d], m.prekey.spk, opk)
        \in SUBSET DhOutput
  BY <1>1, <1>2, SharedSecretType
<1>4. <<IdentityKey[m.from], IdentityKey[d]>> \in Key \X Key
  BY <1>2
<1> QED
  BY <1>1, <1>3, <1>4, InitReceiverType DEF Respond

\* What a session puts on the wire is a message.
LEMMA SealType ==
  ASSUME NEW s \in BoundedState, NEW d \in Device, NEW e \in Device, NEW k \in Nat
  PROVE  [from |-> d, to |-> e, body |-> k, header |-> Seal(s).header,
          key |-> Seal(s).key, associatedData |-> Seal(s).associatedData,
          prekey |-> Seal(s).prekey] \in Message
<1>1. s \in RatchetState
  BY DEF BoundedState
<1>2. /\ s.dhs \in Key /\ s.pn \in Nat /\ s.ns \in Nat /\ s.cks \in ChainKey
      /\ s.associatedData \in Key \X Key /\ s.pendingPreKey \in PreKeyFields
  BY <1>1 DEF RatchetState
<1>3. [dh |-> s.dhs, pn |-> s.pn, n |-> s.ns] \in Header
  BY <1>2 DEF Header
<1> QED
  BY <1>2, <1>3 DEF Seal, Message

-----------------------------------------------------------------------------
(* TypeOK is inductive                                                     *)

\* The vaults, the directory and the network start typed.
LEMMA InitTypeOK == Init => TypeOK
<1> SUFFICES ASSUME Init PROVE TypeOK
  OBVIOUS
<1>1. nextKey \in Key
  BY KeysNumbered DEF Init
<1>2. /\ sessions \in [Device -> [Device -> RatchetState]]
      /\ \A d, e \in Device : Len(sessions[d][e].skipped) <= MaxSkippedKeys
  BY NoSessionType DEF Init, BoundedState
<1>3. signedPreKeys \in [Device -> Seq(Key) \ {<<>>}]
  BY InitialKeys DEF Init
<1>4. oneTimePreKeys \in [Device -> SUBSET Key]
  BY KeysNumbered DEF Init
<1>5. /\ rotations \in [Device -> 0..MaxRotations] /\ sent \in [Device -> Nat]
      /\ \A d \in Device : sent[d] <= MaxSent[d]
  BY SessionBounds DEF Init
<1>6. directory \in [Device -> [spk : Key, opks : SUBSET Key]]
  BY InitialKeys DEF Init
<1> QED
  BY <1>1, <1>2, <1>3, <1>4, <1>5, <1>6 DEF Init, TypeOK

\* A session read from the vault.
LEMMA StoredType ==
  ASSUME TypeOK, NEW d \in Device, NEW e \in Device
  PROVE  sessions[d][e] \in BoundedState
BY DEF TypeOK, BoundedState

\* Saving a session keeps the vault typed.
LEMMA SaveType ==
  ASSUME TypeOK, NEW d \in Device, NEW e \in Device, NEW t \in BoundedState,
         sessions' = [sessions EXCEPT ![d][e] = t]
  PROVE  /\ sessions' \in [Device -> [Device -> RatchetState]]
         /\ \A f, g \in Device : Len(sessions'[f][g].skipped) <= MaxSkippedKeys
         /\ \A f, g \in Device :
              sessions'[f][g] = IF f = d /\ g = e THEN t ELSE sessions[f][g]
<1>1. t \in RatchetState /\ Len(t.skipped) <= MaxSkippedKeys
  BY DEF BoundedState
<1>2. sessions \in [Device -> [Device -> RatchetState]]
  BY DEF TypeOK
<1>3. sessions' \in [Device -> [Device -> RatchetState]]
  BY <1>1, <1>2
<1>4. \A f, g \in Device :
        sessions'[f][g] = IF f = d /\ g = e THEN t ELSE sessions[f][g]
  BY <1>2
<1> QED
  BY <1>1, <1>3, <1>4 DEF TypeOK

\* advance keeps the vault, the key counter and the reading history typed.
LEMMA AdvanceType ==
  ASSUME TypeOK, NEW d \in Device, NEW m \in net, NEW s \in BoundedState,
         Advance(d, m, s)
  PROVE  /\ sessions' \in [Device -> [Device -> RatchetState]]
         /\ \A f, g \in Device : Len(sessions'[f][g].skipped) <= MaxSkippedKeys
         /\ nextKey' \in Key
         /\ opened' \subseteq net /\ reopened' \subseteq opened' /\ refused' \subseteq net
<1>1. m \in Message /\ m.from \in Device /\ m.header \in Header
  BY DEF TypeOK, Message
<1>2. nextKey \in Key
  BY DEF TypeOK
<1>3. AfterDecrypt(s, m, nextKey) \in BoundedState
  BY <1>1, <1>2, AfterDecryptType
<1>4. sessions' = [sessions EXCEPT ![d][m.from] = AfterDecrypt(s, m, nextKey)]
  BY DEF Advance
<1>5. /\ sessions' \in [Device -> [Device -> RatchetState]]
      /\ \A f, g \in Device : Len(sessions'[f][g].skipped) <= MaxSkippedKeys
  BY <1>1, <1>3, <1>4, SaveType
<1>6. nextKey' \in Key
  BY <1>2 DEF Advance, Key
<1>7. opened' \subseteq net /\ reopened' \subseteq opened' /\ refused' \subseteq net
  BY DEF Advance, TypeOK
<1> QED
  BY <1>5, <1>6, <1>7

\* Every step keeps every variable within its type.
LEMMA NextTypeOK == TypeOK /\ [Next]_vars => TypeOK'
<1> SUFFICES ASSUME TypeOK, [Next]_vars PROVE TypeOK'
  OBVIOUS
<1> USE SessionBounds
<1>1. ASSUME NEW d \in Device, RotateSignedPreKey(d) PROVE TypeOK'
  <2> DEFINE held == Append(signedPreKeys[d], nextKey)
             kept == IF Len(held) > History THEN Tail(held) ELSE held
  <2>1. nextKey \in Key /\ signedPreKeys[d] \in Seq(Key)
    BY DEF TypeOK
  <2>2. held \in Seq(Key) /\ held # <<>> /\ Len(held) \in Nat
    BY <2>1, AppendProperties
  <2>3. kept \in Seq(Key) /\ kept # <<>>
    <3>1. CASE Len(held) > History
      <4>1. Tail(held) \in Seq(Key) /\ Len(Tail(held)) = Len(held) - 1
        BY <2>2, HeadTailProperties
      <4>2. Len(Tail(held)) > 0
        BY <2>2, <3>1, <4>1
      <4>3. Len(<<>>) = 0
        OBVIOUS
      <4> QED
        BY <3>1, <4>1, <4>2, <4>3
    <3> QED
      BY <2>2, <3>1
  <2> HIDE DEF held
  <2>4. signedPreKeys' = [signedPreKeys EXCEPT ![d] = kept]
    BY <1>1 DEF RotateSignedPreKey, held
  <2> HIDE DEF kept
  <2>5. signedPreKeys' \in [Device -> Seq(Key) \ {<<>>}]
    BY <2>3, <2>4 DEF TypeOK
  <2>6. rotations' \in [Device -> 0..MaxRotations]
    BY <1>1 DEF RotateSignedPreKey, TypeOK
  <2>7. nextKey' \in Key
    BY <1>1, <2>1 DEF RotateSignedPreKey, Key
  <2> QED
    BY <1>1, <2>5, <2>6, <2>7 DEF RotateSignedPreKey, TypeOK, history
<1>2. ASSUME NEW d \in Device, PublishSignedPreKey(d) PROVE TypeOK'
  <2>1. signedPreKeys[d] \in Seq(Key) /\ signedPreKeys[d] # <<>>
    BY DEF TypeOK
  <2>2. signedPreKeys[d][Len(signedPreKeys[d])] \in Key
    BY <2>1, EmptySeq, ElementOfSeq, LenProperties
  <2>3. directory' \in [Device -> [spk : Key, opks : SUBSET Key]]
    BY <1>2, <2>2 DEF PublishSignedPreKey, TypeOK
  <2> QED
    BY <1>2, <2>3 DEF PublishSignedPreKey, TypeOK, vault, history
<1>3. ASSUME NEW d \in Device, NEW e \in Device, FetchBundle(d, e) PROVE TypeOK'
  <2> DEFINE opk == Claimed(directory[e].opks)
             b == [owner |-> e, spk |-> directory[e].spk, opk |-> opk]
  <2>1. directory[e].spk \in Key /\ directory[e].opks \in SUBSET Key
    BY DEF TypeOK
  <2>2. opk \in Key
    BY <2>1, ClaimedType
  <2>3. b \in Bundle
    BY <2>1, <2>2 DEF Bundle
  <2> HIDE DEF opk
  <2>4. directory' \in [Device -> [spk : Key, opks : SUBSET Key]]
    <3>1. directory' = [directory EXCEPT ![e].opks = @ \ {opk}]
      BY <1>3 DEF FetchBundle, opk
    <3>2. directory \in [Device -> [spk : Key, opks : SUBSET Key]]
      BY DEF TypeOK
    <3> QED
      BY <3>1, <3>2
  <2>5. fetched' = [fetched EXCEPT ![d] = fetched[d] \cup {b}]
    BY <1>3 DEF FetchBundle, opk
  <2> HIDE DEF b
  <2>6. fetched' \in [Device -> SUBSET Bundle]
    BY <2>3, <2>5 DEF TypeOK
  <2> QED
    BY <1>3, <2>4, <2>6 DEF FetchBundle, TypeOK, vault, history
<1>4. ASSUME NEW d \in Device, NEW b \in fetched[d], EncryptTo(d, b) PROVE TypeOK'
  <2> DEFINE e == b.owner
             known == sessions[d][e] # NoSession
             s == IF known THEN sessions[d][e] ELSE Initiate(d, b, nextKey, nextKey + 1)
             m == [from |-> d, to |-> e, body |-> sent[d], header |-> Seal(s).header,
                   key |-> Seal(s).key, associatedData |-> Seal(s).associatedData,
                   prekey |-> Seal(s).prekey]
  <2>1. b \in Bundle /\ e \in Device /\ nextKey \in Key /\ nextKey + 1 \in Key /\ sent[d] \in Nat
    BY DEF TypeOK, Bundle, Key
  <2>2. s \in BoundedState
    BY <2>1, StoredType, InitiateType
  <2>3. m \in Message
    BY <2>1, <2>2, SealType
  <2>4. /\ sessions' = [sessions EXCEPT ![d][e] = AfterEncrypt(s)]
        /\ net' = net \cup {m}
    BY <1>4 DEF EncryptTo
  <2>5. AfterEncrypt(s) \in BoundedState
    BY <2>2, AfterEncryptType
  <2>6. nextKey' \in Key
    BY <1>4, <2>1 DEF EncryptTo, Key
  <2>7. /\ sent' \in [Device -> Nat] /\ \A f \in Device : sent'[f] <= MaxSent[f]
        /\ fetched' \in [Device -> SUBSET Bundle]
    <3>1. sent[d] \in Nat /\ MaxSent[d] \in Nat /\ sent[d] < MaxSent[d]
      BY <1>4, SessionBounds DEF EncryptTo, TypeOK
    <3>2. sent[d] + 1 \in Nat /\ sent[d] + 1 <= MaxSent[d]
      BY <3>1
    <3>3. sent' = [sent EXCEPT ![d] = sent[d] + 1]
      BY <1>4 DEF EncryptTo
    <3>4. sent' \in [Device -> Nat] /\ \A f \in Device : sent'[f] <= MaxSent[f]
      BY <3>2, <3>3 DEF TypeOK
    <3>5. fetched' \in [Device -> SUBSET Bundle]
      BY <1>4 DEF EncryptTo, TypeOK
    <3> QED
      BY <3>4, <3>5
  <2> HIDE DEF s, m
  <2>8. /\ sessions' \in [Device -> [Device -> RatchetState]]
        /\ \A f, g \in Device : Len(sessions'[f][g].skipped) <= MaxSkippedKeys
    BY <2>1, <2>4, <2>5, SaveType
  <2>9. net' \subseteq Message
    BY <2>3, <2>4 DEF TypeOK
  <2> QED
    BY <1>4, <2>4, <2>6, <2>7, <2>8, <2>9 DEF EncryptTo, TypeOK, history
<1>5. ASSUME NEW m \in net, Receive(m.to, m) PROVE TypeOK'
  <2>1. m \in Message /\ m.from \in Device /\ m.to \in Device
    BY DEF TypeOK, Message
  <2>2. CASE ReceiveOnSession(m.to, m)
    <3>1. sessions[m.to][m.from] \in BoundedState
      BY <2>1, StoredType
    <3>2. Advance(m.to, m, sessions[m.to][m.from])
      BY <2>2 DEF ReceiveOnSession
    <3> QED
      BY <2>1, <2>2, <3>1, <3>2, AdvanceType DEF ReceiveOnSession, TypeOK
  <2>3. CASE RefuseMessage(m.to, m)
    BY <2>3 DEF RefuseMessage, Fail, TypeOK
  <2>4. CASE BeginHandshake(m.to, m)
    <3>1. m.prekey.opk \in Key /\ NoKey \in Key
      BY <2>1 DEF Message, PreKeyFields, NoKey, Key
    <3>2. [msg |-> m, opk |-> TakenPreKey(m.to, m.prekey.opk)] \in Handshake
      BY <2>1, <3>1 DEF Handshake, TakenPreKey
    <3>3. handshakes' \subseteq Handshake /\ \A h \in handshakes' : h.msg \in net
      BY <2>4, <3>2 DEF BeginHandshake, TypeOK
    <3>4. oneTimePreKeys' \in [Device -> SUBSET Key]
      BY <2>4 DEF BeginHandshake, TypeOK
    <3> QED
      BY <2>4, <3>3, <3>4 DEF BeginHandshake, TypeOK, history
  <2>5. CASE RefuseHandshake(m.to, m)
    BY <2>5 DEF RefuseHandshake, Fail, TypeOK
  <2> QED
    BY <1>5, <2>2, <2>3, <2>4, <2>5 DEF Receive
<1>6. ASSUME NEW h \in handshakes, FinishHandshake(h) PROVE TypeOK'
  <2>1. /\ h.msg \in net /\ h.msg \in Message /\ h.opk \in Key
        /\ h.msg.to \in Device
    BY DEF TypeOK, Handshake, Message
  <2>2. Respond(h.msg.to, h.msg, h.opk) \in BoundedState
    BY <2>1, RespondType
  <2>3. CASE Advance(h.msg.to, h.msg, Respond(h.msg.to, h.msg, h.opk))
    BY <1>6, <2>1, <2>2, <2>3, AdvanceType DEF FinishHandshake, TypeOK
  <2>4. CASE Fail(h.msg)
    BY <1>6, <2>1, <2>4 DEF FinishHandshake, Fail, TypeOK
  <2> QED
    BY <1>6, <2>3, <2>4 DEF FinishHandshake
<1>7. ASSUME NEW d \in Device, Crash(d) PROVE TypeOK'
  BY <1>7 DEF Crash, TypeOK, vault, history
<1>8. CASE UNCHANGED vars
  BY <1>8 DEF vars, vault, history, TypeOK
<1> QED
  BY <1>1, <1>2, <1>3, <1>4, <1>5, <1>6, <1>7, <1>8 DEF Next

\* Whatever the devices, the keys and the bounds, every variable stays within
\* its type and no vault retains more skipped keys than MAX_SKIPPED_KEYS.
THEOREM TypeCorrect == Spec => []TypeOK
<1>1. Init => TypeOK
  BY InitTypeOK
<1>2. TypeOK /\ [Next]_vars => TypeOK'
  BY NextTypeOK
<1> QED
  BY <1>1, <1>2, PTL DEF Spec

-----------------------------------------------------------------------------
(* KeyInv is inductive                                                     *)

\* At first nothing is sent and every prekey is older than the next key pair.
LEMMA InitKeyInv == Init => KeyInv
<1> SUFFICES ASSUME Init PROVE KeyInv
  OBVIOUS
<1>1. PreKeysExist
  BY InitialKeys DEF Init, PreKeysExist
<1>2. \A d, e \in Device : sessions[d][e].cks = NoChain
  BY NoSessionType DEF Init
<1>3. net = {}
  BY DEF Init
<1> QED
  BY <1>1, <1>2, <1>3 DEF KeyInv, SendingChains, SendingChain, SendersDiffer, Sending,
     MessageChains, CountersAhead, HeadersUnique

\* What KeyInv says of a session that can send.
LEMMA SendingFacts ==
  ASSUME TypeOK, KeyInv, NEW d \in Device, NEW e \in Device, Sending(d, e)
  PROVE  LET s == sessions[d][e]
         IN  /\ s.dhs \in Nat /\ s.dhr \in Nat /\ s.ns \in Nat
             /\ s.cks.step = s.ns /\ LastTurn(s.cks) = Dh(s.dhs, s.dhr)
             /\ s.dhr < s.dhs /\ s.dhs < nextKey
<1>1. sessions[d][e] \in RatchetState
  BY DEF TypeOK
<1>2. SendingChain(sessions[d][e], nextKey)
  BY DEF KeyInv, SendingChains
<1> QED
  BY <1>1, <1>2 DEF RatchetState, Key, SendingChain, Sending

\* The public halves a device publishes and fetches are numbers.
LEMMA PreKeysAreNumbers ==
  ASSUME TypeOK, NEW d \in Device
  PROVE  /\ \A i \in DOMAIN signedPreKeys[d] : signedPreKeys[d][i] \in Nat
         /\ directory[d].spk \in Nat
         /\ \A b \in fetched[d] : b.spk \in Nat
<1>1. signedPreKeys[d] \in Seq(Key)
  BY DEF TypeOK
<1>2. \A i \in DOMAIN signedPreKeys[d] : signedPreKeys[d][i] \in Nat
  BY <1>1, ElementOfSeq, LenProperties DEF Key
<1>3. directory[d] \in [spk : Key, opks : SUBSET Key] /\ fetched[d] \subseteq Bundle
  BY DEF TypeOK
<1>4. directory[d].spk \in Nat
  BY <1>3 DEF Key
<1>5. ASSUME NEW b \in fetched[d] PROVE b.spk \in Nat
  BY <1>3, <1>5 DEF Bundle, Key
<1> QED
  BY <1>2, <1>4, <1>5

\* A session saved without anything being sent keeps KeyInv, if its sending
\* side is what it was or was started under a key pair generated just now.
LEMMA SaveKeyInv ==
  ASSUME TypeOK, KeyInv, NEW d \in Device, NEW e \in Device, NEW t \in BoundedState,
         sessions' = [sessions EXCEPT ![d][e] = t],
         nextKey' \in Nat, nextKey <= nextKey', net' = net,
         signedPreKeys' = signedPreKeys, directory' = directory, fetched' = fetched,
         \/ t.cks = NoChain
         \/ /\ t.cks = sessions[d][e].cks /\ t.dhs = sessions[d][e].dhs
            /\ t.dhr = sessions[d][e].dhr /\ t.ns = sessions[d][e].ns
         \/ /\ t.dhs = nextKey /\ nextKey < nextKey' /\ t.dhr < nextKey
            /\ t.cks.step = t.ns
            /\ LastTurn(t.cks) = Dh(t.dhs, t.dhr)
  PROVE  KeyInv'
<1>1. \A f, g \in Device :
        sessions'[f][g] = IF f = d /\ g = e THEN t ELSE sessions[f][g]
  BY SaveType
<1>2. /\ nextKey \in Nat /\ t.dhs \in Nat /\ t.dhr \in Nat /\ t.ns \in Nat
      /\ \A f \in Device : signedPreKeys[f] \in Seq(Key)
      /\ \A f \in Device : directory[f].spk \in Nat /\ \A b \in fetched[f] : b.spk \in Nat
  <2>1. nextKey \in Nat /\ t.dhs \in Nat /\ t.dhr \in Nat /\ t.ns \in Nat
    BY DEF TypeOK, BoundedState, RatchetState, Key
  <2>2. \A f \in Device : signedPreKeys[f] \in Seq(Key)
    BY DEF TypeOK
  <2>3. \A f \in Device : directory[f].spk \in Nat /\ \A b \in fetched[f] : b.spk \in Nat
    BY PreKeysAreNumbers
  <2> QED
    BY <2>1, <2>2, <2>3
<1>3. \A m \in net : m.header.dh \in Nat /\ m.header.n \in Nat
  BY DEF TypeOK, Message, Header, Key
<1>4. \A m \in net : m.header.dh < nextKey
  BY DEF KeyInv, MessageChains, MessageChain
<1>5. PreKeysExist'
  <2>1. \A f \in Device : \A i \in DOMAIN signedPreKeys[f] : signedPreKeys[f][i] \in Nat
    BY <1>2, ElementOfSeq, LenProperties DEF Key
  <2> QED
    BY <1>2, <2>1 DEF KeyInv, PreKeysExist
<1>6. SendingChains'
  <2> SUFFICES ASSUME NEW f \in Device, NEW g \in Device, sessions'[f][g].cks # NoChain
               PROVE  SendingChain(sessions'[f][g], nextKey')
    BY DEF SendingChains, SendingChain
  <2>1. CASE sessions'[f][g].cks = sessions[f][g].cks /\ sessions'[f][g].dhs = sessions[f][g].dhs
             /\ sessions'[f][g].dhr = sessions[f][g].dhr /\ sessions'[f][g].ns = sessions[f][g].ns
    <3>1. Sending(f, g)
      BY <2>1 DEF Sending
    <3> QED
      BY <1>2, <2>1, <3>1, SendingFacts DEF SendingChain
  <2>2. CASE f = d /\ g = e /\ t.dhs = nextKey /\ nextKey < nextKey' /\ t.dhr < nextKey
             /\ t.cks.step = t.ns /\ LastTurn(t.cks) = Dh(t.dhs, t.dhr)
    BY <1>1, <1>2, <2>2 DEF SendingChain
  <2> QED
    BY <1>1, <2>1, <2>2
<1>7. SendersDiffer'
  <2> SUFFICES ASSUME NEW f \in Device, NEW g \in Device, NEW h \in Device, NEW i \in Device,
                      sessions'[f][g].cks # NoChain, sessions'[h][i].cks # NoChain,
                      sessions'[f][g].dhs = sessions'[h][i].dhs
               PROVE  f = h /\ g = i
    BY DEF SendersDiffer, Sending
  <2>1. CASE t.dhs = nextKey
    <3>1. \A j, k \in Device : sessions[j][k].cks # NoChain => sessions[j][k].dhs < nextKey
      BY DEF KeyInv, SendingChains, SendingChain
    <3>2. \A j, k \in Device : sessions[j][k].dhs \in Nat
      BY DEF TypeOK, RatchetState, Key
    <3> QED
      BY <1>1, <1>2, <2>1, <3>1, <3>2 DEF KeyInv, SendersDiffer, Sending
  <2>2. CASE t.cks = NoChain \/ (t.cks = sessions[d][e].cks /\ t.dhs = sessions[d][e].dhs)
    BY <1>1, <2>2 DEF KeyInv, SendersDiffer, Sending
  <2> QED
    BY <2>1, <2>2
<1>8. MessageChains'
  BY <1>2, <1>3 DEF KeyInv, MessageChains, MessageChain
<1>9. CountersAhead'
  <2> SUFFICES ASSUME NEW f \in Device, NEW g \in Device, NEW m \in net,
                      sessions'[f][g].cks # NoChain, sessions'[f][g].dhs = m.header.dh
               PROVE  m.header.n < sessions'[f][g].ns
    BY DEF CountersAhead, Sending
  <2>1. CASE f = d /\ g = e /\ t.dhs = nextKey
    BY <1>1, <1>2, <1>3, <1>4, <2>1
  <2>2. CASE sessions'[f][g].cks = sessions[f][g].cks /\ sessions'[f][g].dhs = sessions[f][g].dhs
             /\ sessions'[f][g].ns = sessions[f][g].ns
    BY <2>2 DEF KeyInv, CountersAhead, Sending
  <2> QED
    BY <1>1, <2>1, <2>2
<1>10. HeadersUnique'
  BY DEF KeyInv, HeadersUnique
<1> QED
  BY <1>5, <1>6, <1>7, <1>8, <1>9, <1>10 DEF KeyInv

\* Reading a message keeps KeyInv, on the stored session or on a new one.
LEMMA AdvanceKeyInv ==
  ASSUME TypeOK, KeyInv, NEW m \in net, NEW s \in BoundedState,
         s = sessions[m.to][m.from] \/ s.cks = NoChain,
         Advance(m.to, m, s),
         signedPreKeys' = signedPreKeys, directory' = directory, fetched' = fetched,
         net' = net
  PROVE  KeyInv'
<1> DEFINE d == m.to
           e == m.from
           t == AfterDecrypt(s, m, nextKey)
<1>1. /\ m \in Message /\ d \in Device /\ e \in Device /\ m.header \in Header
      /\ m.header.dh \in Nat /\ nextKey \in Nat
  BY DEF TypeOK, Message, Header, Key
<1>2. /\ t \in BoundedState
      /\ \/ t.dhs = s.dhs /\ t.dhr = s.dhr /\ t.ns = s.ns /\ t.cks = s.cks
         \/ /\ t.dhs = nextKey /\ t.dhr = m.header.dh /\ t.ns = 0
            /\ t.cks # NoChain /\ t.cks.step = 0
            /\ LastTurn(t.cks) = Dh(nextKey, m.header.dh)
  BY <1>1, AfterDecryptType DEF Key
<1>3. /\ sessions' = [sessions EXCEPT ![d][e] = t]
      /\ nextKey' = IF t.dhs = nextKey THEN nextKey + 1 ELSE nextKey
  BY DEF Advance
<1>4. m.header.dh < nextKey
  BY DEF KeyInv, MessageChains, MessageChain
<1> HIDE DEF d, e, t
<1>5. nextKey' \in Nat /\ nextKey <= nextKey'
  BY <1>1, <1>3
<1>6. \/ t.cks = NoChain
      \/ /\ t.cks = sessions[d][e].cks /\ t.dhs = sessions[d][e].dhs
         /\ t.dhr = sessions[d][e].dhr /\ t.ns = sessions[d][e].ns
      \/ /\ t.dhs = nextKey /\ nextKey < nextKey' /\ t.dhr < nextKey
         /\ t.cks.step = t.ns /\ LastTurn(t.cks) = Dh(t.dhs, t.dhr)
  BY <1>1, <1>2, <1>3, <1>4 DEF d, e
<1> QED
  BY <1>1, <1>2, <1>3, <1>5, <1>6, SaveKeyInv

\* Sending keeps KeyInv: the header of the new ciphertext has never been used.
LEMMA EncryptKeyInv ==
  ASSUME TypeOK, KeyInv, NEW d \in Device, NEW b \in fetched[d], EncryptTo(d, b)
  PROVE  KeyInv'
<1> DEFINE e == b.owner
           known == sessions[d][e] # NoSession
           s == IF known THEN sessions[d][e] ELSE Initiate(d, b, nextKey, nextKey + 1)
           t == AfterEncrypt(s)
           m == [from |-> d, to |-> e, body |-> sent[d], header |-> Seal(s).header,
                 key |-> Seal(s).key, associatedData |-> Seal(s).associatedData,
                 prekey |-> Seal(s).prekey]
<1>1. /\ b \in Bundle /\ e \in Device /\ b.spk \in Nat /\ nextKey \in Nat
      /\ nextKey \in Key /\ nextKey + 1 \in Key
  BY DEF TypeOK, Bundle, Key
<1>2. s \in BoundedState
  BY <1>1, StoredType, InitiateType
<1>3. /\ t \in BoundedState
      /\ t.dhs = s.dhs /\ t.dhr = s.dhr /\ t.ns = s.ns + 1
      /\ t.cks.root = s.cks.root /\ t.cks.step = s.cks.step + 1
  BY <1>2, AfterEncryptType
<1>4. /\ sessions' = [sessions EXCEPT ![d][e] = t]
      /\ net' = net \cup {m}
      /\ nextKey' = IF known THEN nextKey ELSE nextKey + 2
      /\ s.cks # NoChain
      /\ signedPreKeys' = signedPreKeys /\ directory' = directory
      /\ fetched' = [fetched EXCEPT ![d] = fetched[d] \ {b}]
  BY DEF EncryptTo, CanEncrypt
<1>5. /\ s.dhs \in Nat /\ s.dhr \in Nat /\ s.ns \in Nat
      /\ s.cks.step = s.ns /\ LastTurn(s.cks) = Dh(s.dhs, s.dhr)
      /\ s.dhr < s.dhs /\ s.dhs < nextKey'
  <2>1. CASE known
    <3>1. Sending(d, e)
      BY <1>4, <2>1 DEF Sending
    <3> QED
      BY <1>1, <1>4, <2>1, <3>1, SendingFacts
  <2>2. CASE ~known
    <3>1. s = Initiate(d, b, nextKey, nextKey + 1)
      BY <2>2
    <3>2. /\ s.dhs = nextKey + 1 /\ s.dhr = b.spk /\ s.ns = 0 /\ s.cks.step = 0
          /\ LastTurn(s.cks) = Dh(nextKey + 1, b.spk)
      <4> HIDE DEF s
      <4> QED
        BY <1>1, <3>1, InitiateType
    <3>3. b.spk < nextKey
      BY DEF KeyInv, PreKeysExist
    <3> HIDE DEF s
    <3> QED
      BY <1>1, <1>4, <2>2, <3>2, <3>3
  <2> QED
    BY <2>1, <2>2
<1>6. \* No other session sends under this key, and no message carries the header.
      /\ \A f, g \in Device : (f # d \/ g # e) /\ Sending(f, g) => sessions[f][g].dhs # s.dhs
      /\ \A n \in net : n.header.dh = s.dhs => n.header.n < s.ns
  <2>1. CASE known
    <3>1. Sending(d, e)
      BY <1>4, <2>1 DEF Sending
    <3> QED
      BY <1>1, <2>1, <3>1 DEF KeyInv, SendersDiffer, CountersAhead
  <2>2. CASE ~known
    <3>0. s = Initiate(d, b, nextKey, nextKey + 1)
      BY <2>2
    <3>1. s.dhs = nextKey + 1
      <4> HIDE DEF s
      <4> QED
        BY <1>1, <3>0, InitiateType
    <3>2. \A f, g \in Device :
            Sending(f, g) => sessions[f][g].dhs < nextKey /\ sessions[f][g].dhs \in Nat
      BY SendingFacts
    <3>3. \A n \in net : n.header.dh < nextKey /\ n.header.dh \in Nat
      BY DEF KeyInv, MessageChains, MessageChain, TypeOK, Message, Header, Key
    <3> QED
      BY <1>1, <3>1, <3>2, <3>3
  <2> QED
    BY <2>1, <2>2
<1>7. /\ m.header.dh = s.dhs /\ m.header.n = s.ns /\ m.key = s.cks
  BY DEF Seal
<1>8. nextKey' \in Nat /\ nextKey <= nextKey'
  BY <1>1, <1>4
<1>9. \A n \in net : n.header.dh \in Nat /\ n.header.n \in Nat
  BY DEF TypeOK, Message, Header, Key
<1> HIDE DEF e, known, s, t, m
<1>10. \A f, g \in Device :
         sessions'[f][g] = IF f = d /\ g = e THEN t ELSE sessions[f][g]
  BY <1>1, <1>3, <1>4, SaveType
<1>11. LastTurn(t.cks) = LastTurn(s.cks)
  BY <1>3 DEF LastTurn
<1>12. PreKeysExist'
  <2>1. \A f \in Device : \A i \in DOMAIN signedPreKeys[f] : signedPreKeys[f][i] \in Nat
    BY PreKeysAreNumbers
  <2>2. \A f \in Device : fetched'[f] \subseteq fetched[f]
    BY <1>4 DEF TypeOK
  <2>3. \A f \in Device : directory[f].spk \in Nat /\ \A c \in fetched[f] : c.spk \in Nat
    BY PreKeysAreNumbers
  <2> QED
    BY <1>1, <1>4, <1>8, <2>1, <2>2, <2>3 DEF KeyInv, PreKeysExist
<1>13. SendingChains'
  <2> SUFFICES ASSUME NEW f \in Device, NEW g \in Device, sessions'[f][g].cks # NoChain
               PROVE  SendingChain(sessions'[f][g], nextKey')
    BY DEF SendingChains, SendingChain
  <2>1. CASE f = d /\ g = e
    BY <1>3, <1>5, <1>10, <1>11, <2>1 DEF SendingChain
  <2>2. CASE ~(f = d /\ g = e)
    <3>1. Sending(f, g) /\ sessions'[f][g] = sessions[f][g]
      BY <1>10, <2>2 DEF Sending
    <3> QED
      BY <1>1, <1>8, <3>1, SendingFacts DEF SendingChain
  <2> QED
    BY <2>1, <2>2
<1>14. SendersDiffer'
  <2> SUFFICES ASSUME NEW f \in Device, NEW g \in Device, NEW h \in Device, NEW i \in Device,
                      sessions'[f][g].cks # NoChain, sessions'[h][i].cks # NoChain,
                      sessions'[f][g].dhs = sessions'[h][i].dhs
               PROVE  f = h /\ g = i
    BY DEF SendersDiffer, Sending
  <2> QED
    BY <1>3, <1>6, <1>10 DEF KeyInv, SendersDiffer, Sending
<1>15. MessageChains'
  <2>1. MessageChain(m, nextKey')
    <3>1. s.dhr \in 0..(s.dhs - 1)
      BY <1>5
    <3> QED
      BY <1>5, <1>7, <3>1 DEF MessageChain
  <2>2. ASSUME NEW n \in net PROVE MessageChain(n, nextKey')
    BY <1>1, <1>8, <1>9 DEF KeyInv, MessageChains, MessageChain
  <2> QED
    BY <1>4, <2>1, <2>2 DEF MessageChains
<1>16. CountersAhead'
  <2> SUFFICES ASSUME NEW f \in Device, NEW g \in Device, NEW n \in net \cup {m},
                      sessions'[f][g].cks # NoChain, sessions'[f][g].dhs = n.header.dh
               PROVE  n.header.n < sessions'[f][g].ns
    BY <1>4 DEF CountersAhead, Sending
  <2>1. CASE f = d /\ g = e /\ n = m
    BY <1>3, <1>5, <1>7, <1>10, <2>1
  <2>2. CASE f = d /\ g = e /\ n \in net
    BY <1>3, <1>5, <1>6, <1>9, <1>10, <2>2
  <2>3. CASE ~(f = d /\ g = e) /\ n = m
    BY <1>6, <1>7, <1>10, <2>3 DEF Sending
  <2>4. CASE ~(f = d /\ g = e) /\ n \in net
    BY <1>10, <2>4 DEF KeyInv, CountersAhead, Sending
  <2> QED
    BY <2>1, <2>2, <2>3, <2>4
<1>17. HeadersUnique'
  <2> SUFFICES ASSUME NEW m1 \in net \cup {m}, NEW m2 \in net \cup {m},
                      m1.header.dh = m2.header.dh, m1.header.n = m2.header.n
               PROVE  m1 = m2
    BY <1>4 DEF HeadersUnique
  <2>1. \A n \in net : ~(n.header.dh = m.header.dh /\ n.header.n = m.header.n)
    BY <1>5, <1>6, <1>7, <1>9
  <2> QED
    BY <2>1 DEF KeyInv, HeadersUnique
<1> QED
  BY <1>12, <1>13, <1>14, <1>15, <1>16, <1>17 DEF KeyInv

\* A step that writes no session and sends nothing keeps KeyInv, if the prekeys
\* it leaves were generated by then.
LEMMA QuietKeyInv ==
  ASSUME TypeOK, KeyInv, sessions' = sessions, net' = net,
         nextKey' \in Nat, nextKey <= nextKey', PreKeysExist'
  PROVE  KeyInv'
<1>1. nextKey \in Nat /\ \A d, e \in Device : sessions[d][e].dhs \in Nat
  BY DEF TypeOK, RatchetState, Key
<1>2. \A m \in net : m.header.dh \in Nat
  BY DEF TypeOK, Message, Header, Key
<1>3. SendingChains'
  BY <1>1 DEF KeyInv, SendingChains, SendingChain
<1>4. MessageChains'
  BY <1>1, <1>2 DEF KeyInv, MessageChains, MessageChain
<1>5. SendersDiffer' /\ CountersAhead' /\ HeadersUnique'
  BY DEF KeyInv, SendersDiffer, CountersAhead, HeadersUnique, Sending
<1> QED
  BY <1>3, <1>4, <1>5 DEF KeyInv

\* Every step keeps KeyInv.
LEMMA NextKeyInv == TypeOK /\ KeyInv /\ [Next]_vars => KeyInv'
<1> SUFFICES ASSUME TypeOK, KeyInv, [Next]_vars PROVE KeyInv'
  OBVIOUS
<1>0. /\ nextKey \in Nat
      /\ \A d \in Device : \A i \in DOMAIN signedPreKeys[d] : signedPreKeys[d][i] \in Nat
      /\ \A d \in Device : directory[d].spk \in Nat /\ \A b \in fetched[d] : b.spk \in Nat
  BY PreKeysAreNumbers DEF TypeOK, Key
<1>1. ASSUME NEW d \in Device, RotateSignedPreKey(d) PROVE KeyInv'
  <2> DEFINE held == Append(signedPreKeys[d], nextKey)
             kept == IF Len(held) > History THEN Tail(held) ELSE held
  <2>1. nextKey \in Key /\ signedPreKeys[d] \in Seq(Key)
    BY DEF TypeOK
  <2>2. held \in Seq(Key) /\ held # <<>> /\ Len(held) \in Nat
    BY <2>1, AppendProperties
  <2>3. \A i \in 1..Len(held) : held[i] < nextKey + 1
    <3>1. \A i \in DOMAIN signedPreKeys[d] : signedPreKeys[d][i] < nextKey + 1
      BY <1>0, <2>1, ElementOfSeq, LenProperties DEF KeyInv, PreKeysExist
    <3>2. /\ Len(signedPreKeys[d]) \in Nat /\ Len(held) = Len(signedPreKeys[d]) + 1
          /\ DOMAIN signedPreKeys[d] = 1..Len(signedPreKeys[d])
          /\ \A i \in 1..Len(signedPreKeys[d]) : held[i] = signedPreKeys[d][i]
          /\ held[Len(signedPreKeys[d]) + 1] = nextKey
      BY <2>1, AppendProperties, LenProperties
    <3> HIDE DEF held
    <3>3. nextKey < nextKey + 1
      BY <1>0
    <3>4. ASSUME NEW i \in 1..Len(held) PROVE held[i] < nextKey + 1
      <4>1. i \in 1..Len(signedPreKeys[d]) \/ i = Len(signedPreKeys[d]) + 1
        BY <3>2
      <4>2. CASE i \in 1..Len(signedPreKeys[d])
        BY <3>1, <3>2, <4>2
      <4>3. CASE i = Len(signedPreKeys[d]) + 1
        BY <3>2, <3>3, <4>3
      <4> QED
        BY <4>1, <4>2, <4>3
    <3> QED
      BY <3>4
  <2> HIDE DEF held
  <2>4. \A i \in DOMAIN kept : kept[i] < nextKey + 1
    <3>1. /\ Tail(held) \in Seq(Key) /\ Len(Tail(held)) = Len(held) - 1
          /\ \A i \in 1..Len(Tail(held)) : Tail(held)[i] = held[i + 1]
      BY <2>2, HeadTailProperties
    <3>2. /\ DOMAIN held = 1..Len(held) /\ DOMAIN Tail(held) = 1..(Len(held) - 1)
      BY <2>2, <3>1, LenProperties
    <3>3. \A i \in 1..(Len(held) - 1) : i + 1 \in 1..Len(held)
      BY <2>2
    <3>4. \A i \in 1..(Len(held) - 1) : Tail(held)[i] < nextKey + 1
      BY <2>3, <3>1, <3>3
    <3> QED
      BY <2>3, <3>2, <3>4
  <2> HIDE DEF held
  <2>5. signedPreKeys' = [signedPreKeys EXCEPT ![d] = kept] /\ nextKey' = nextKey + 1
    BY <1>1 DEF RotateSignedPreKey, held
  <2> HIDE DEF kept
  <2>6. \A f \in Device : signedPreKeys'[f] = IF f = d THEN kept ELSE signedPreKeys[f]
    BY <2>5 DEF TypeOK
  <2>7. directory' = directory /\ fetched' = fetched
    BY <1>1 DEF RotateSignedPreKey
  <2>8. ASSUME NEW f \in Device
        PROVE  /\ \A i \in DOMAIN signedPreKeys'[f] : signedPreKeys'[f][i] < nextKey'
               /\ directory'[f].spk < nextKey'
               /\ \A b \in fetched'[f] : b.spk < nextKey'
    <3>1. \A i \in DOMAIN signedPreKeys'[f] : signedPreKeys'[f][i] < nextKey'
      <4>1. CASE f = d
        BY <2>4, <2>5, <2>6, <4>1
      <4>2. CASE f # d
        BY <1>0, <2>5, <2>6, <4>2 DEF KeyInv, PreKeysExist
      <4> QED
        BY <4>1, <4>2
    <3> QED
      BY <1>0, <2>5, <2>7, <3>1 DEF KeyInv, PreKeysExist
  <2>9. PreKeysExist'
    BY <2>8 DEF PreKeysExist
  <2> QED
    BY <1>0, <1>1, <2>5, <2>9, QuietKeyInv DEF RotateSignedPreKey
<1>2. ASSUME NEW d \in Device, PublishSignedPreKey(d) PROVE KeyInv'
  <2>1. signedPreKeys[d] \in Seq(Key) /\ signedPreKeys[d] # <<>>
    BY DEF TypeOK
  <2>2. Len(signedPreKeys[d]) \in DOMAIN signedPreKeys[d]
    BY <2>1, EmptySeq, LenProperties
  <2>3. signedPreKeys[d][Len(signedPreKeys[d])] < nextKey
    BY <2>2 DEF KeyInv, PreKeysExist
  <2>4. PreKeysExist'
    BY <1>2, <2>3 DEF PublishSignedPreKey, KeyInv, PreKeysExist, TypeOK, vault
  <2> QED
    BY <1>0, <1>2, <2>4, QuietKeyInv DEF PublishSignedPreKey, vault
<1>3. ASSUME NEW d \in Device, NEW e \in Device, FetchBundle(d, e) PROVE KeyInv'
  <2>1. PreKeysExist'
    BY <1>3 DEF FetchBundle, KeyInv, PreKeysExist, TypeOK, vault
  <2> QED
    BY <1>0, <1>3, <2>1, QuietKeyInv DEF FetchBundle, vault
<1>4. ASSUME NEW d \in Device, NEW b \in fetched[d], EncryptTo(d, b) PROVE KeyInv'
  BY <1>4, EncryptKeyInv
<1>5. ASSUME NEW m \in net, Receive(m.to, m) PROVE KeyInv'
  <2>1. m \in Message /\ m.from \in Device /\ m.to \in Device
    BY DEF TypeOK, Message
  <2>2. CASE ReceiveOnSession(m.to, m)
    <3>1. sessions[m.to][m.from] \in BoundedState
      BY <2>1, StoredType
    <3> QED
      BY <2>2, <3>1, AdvanceKeyInv DEF ReceiveOnSession
  <2>3. CASE ~ReceiveOnSession(m.to, m)
    <3>1. /\ sessions' = sessions /\ nextKey' = nextKey /\ net' = net
          /\ signedPreKeys' = signedPreKeys /\ directory' = directory /\ fetched' = fetched
      BY <1>5, <2>3 DEF Receive, RefuseMessage, BeginHandshake, RefuseHandshake, Fail
    <3>2. PreKeysExist'
      BY <3>1 DEF KeyInv, PreKeysExist
    <3> QED
      BY <1>0, <3>1, <3>2, QuietKeyInv
  <2> QED
    BY <2>2, <2>3
<1>6. ASSUME NEW h \in handshakes, FinishHandshake(h) PROVE KeyInv'
  <2>1. h.msg \in net /\ h.msg \in Message /\ h.opk \in Key /\ h.msg.to \in Device
    BY DEF TypeOK, Handshake, Message
  <2>2. /\ Respond(h.msg.to, h.msg, h.opk) \in BoundedState
        /\ Respond(h.msg.to, h.msg, h.opk).cks = NoChain
    BY <2>1, RespondType
  <2>3. /\ signedPreKeys' = signedPreKeys /\ directory' = directory
        /\ fetched' = fetched /\ net' = net
    BY <1>6 DEF FinishHandshake
  <2>4. CASE Advance(h.msg.to, h.msg, Respond(h.msg.to, h.msg, h.opk))
    BY <2>1, <2>2, <2>3, <2>4, AdvanceKeyInv
  <2>5. CASE Fail(h.msg)
    <3>1. sessions' = sessions /\ nextKey' = nextKey
      BY <2>5 DEF Fail
    <3>2. PreKeysExist'
      BY <2>3, <3>1 DEF KeyInv, PreKeysExist
    <3> QED
      BY <1>0, <2>3, <3>1, <3>2, QuietKeyInv
  <2> QED
    BY <1>6, <2>4, <2>5 DEF FinishHandshake
<1>7. ASSUME NEW d \in Device, Crash(d) PROVE KeyInv'
  <2>1. \A f \in Device : fetched'[f] \subseteq fetched[f]
    BY <1>7 DEF Crash, TypeOK
  <2>2. PreKeysExist'
    BY <1>7, <2>1 DEF Crash, KeyInv, PreKeysExist, vault
  <2> QED
    BY <1>0, <1>7, <2>2, QuietKeyInv DEF Crash, vault
<1>8. CASE UNCHANGED vars
  <2>1. PreKeysExist'
    BY <1>8 DEF vars, vault, KeyInv, PreKeysExist
  <2> QED
    BY <1>0, <1>8, <2>1, QuietKeyInv DEF vars, vault
<1> QED
  BY <1>1, <1>2, <1>3, <1>4, <1>5, <1>6, <1>7, <1>8 DEF Next

-----------------------------------------------------------------------------

\* The chain a message key belongs to names the ratchet key it was sealed under:
\* the larger key of the last turn.  So one key means one header.
LEMMA KeyNamesHeader ==
  ASSUME TypeOK, KeyInv, NEW m1 \in net, NEW m2 \in net, m1.key = m2.key
  PROVE  m1 = m2
<1>1. PICK p1 \in 0..(m1.header.dh - 1) : LastTurn(m1.key) = Dh(m1.header.dh, p1)
  BY DEF KeyInv, MessageChains, MessageChain
<1>2. PICK p2 \in 0..(m2.header.dh - 1) : LastTurn(m2.key) = Dh(m2.header.dh, p2)
  BY DEF KeyInv, MessageChains, MessageChain
<1>3. m1.header.dh \in Nat /\ m2.header.dh \in Nat
  BY DEF TypeOK, Message, Header, Key
<1>4. {m1.header.dh, p1} = {m2.header.dh, p2}
  BY <1>1, <1>2 DEF Dh
<1>5. m1.header.dh = m2.header.dh
  BY <1>1, <1>2, <1>3, <1>4
<1>6. m1.header.n = m2.header.n
  BY DEF KeyInv, MessageChains, MessageChain
<1> QED
  BY <1>5, <1>6 DEF KeyInv, HeadersUnique

\* For any devices and bounds, with prekeys running out, messages replayed and
\* reordered, sessions replaced and tabs dying: the inductive invariant holds.
THEOREM KeysOrdered == Spec => []KeyInv
<1>1. Init => TypeOK /\ KeyInv
  BY InitTypeOK, InitKeyInv
<1>2. TypeOK /\ KeyInv /\ [Next]_vars => TypeOK' /\ KeyInv'
  BY NextTypeOK, NextKeyInv
<1> QED
  BY <1>1, <1>2, PTL DEF Spec

\* "Each message key is used for exactly one message" (docs/CRYPTO.md), so the
\* nonce derived from it never repeats.
THEOREM KeysNeverReused == Spec => []MessageKeysUnique
<1>1. TypeOK /\ KeyInv => MessageKeysUnique
  BY KeyNamesHeader DEF MessageKeysUnique
<1> QED
  BY <1>1, TypeCorrect, KeysOrdered, PTL

-----------------------------------------------------------------------------
(* ReadInv is inductive while the prekey pools last                        *)

\* What initSender builds derives everything from its secret.
StartsFrom(s, secret, pending) ==
  /\ s.rk.secret = secret /\ s.cks.root = s.rk /\ s.rk.turns # <<>>
  /\ s.ckr = NoChain /\ s.skipped = <<>> /\ s.pendingPreKey = pending

\* initSender builds such a state.
LEMMA InitSenderRoot ==
  ASSUME NEW secret \in SUBSET DhOutput, NEW ad, NEW spk \in Key, NEW pending, NEW dhs \in Key
  PROVE  StartsFrom(InitSender(secret, ad, spk, pending, dhs), secret, pending)
<1> DEFINE out == Dh(dhs, spk)
           rk == KdfRootKey(FirstRoot(secret), out)
<1>1. FirstRoot(secret) \in RootKey /\ FirstRoot(secret).secret = secret
  BY DEF FirstRoot, RootKey
<1>2. out \in DhOutput
  BY DEF Dh, DhOutput
<1>3. InitSender(secret, ad, spk, pending, dhs) =
        [rk |-> rk, dhs |-> dhs, dhr |-> spk,
         cks |-> FreshChain(rk), ckr |-> NoChain,
         ns |-> 0, nr |-> 0, pn |-> 0, skipped |-> <<>>,
         associatedData |-> ad, pendingPreKey |-> pending]
  BY DEF InitSender
<1> HIDE DEF out
<1>4. rk.secret = secret /\ Len(rk.turns) \in Nat \ {0}
  BY <1>1, <1>2, KdfRootKeyType, KdfRootKeyGrows
<1> HIDE DEF rk
<1>5. rk.turns # <<>>
  <2>1. Len(<<>>) = 0
    OBVIOUS
  <2> QED
    BY <1>4, <2>1
<1> QED
  BY <1>3, <1>4, <1>5 DEF FreshChain, StartsFrom

\* Encrypting leaves what is received with alone.
LEMMA AfterEncryptKeeps ==
  ASSUME NEW s \in BoundedState
  PROVE  LET t == AfterEncrypt(s)
         IN  /\ t.rk = s.rk /\ t.ckr = s.ckr /\ t.skipped = s.skipped
             /\ t.pendingPreKey = s.pendingPreKey /\ t.cks.root = s.cks.root
<1>1. s \in RatchetState
  BY DEF BoundedState
<1>2. s.cks \in ChainKey
  BY <1>1 DEF RatchetState
<1>3. KdfChainKey(s.cks, 1).root = s.cks.root
  BY <1>2, ChainKeysDiffer
<1> DEFINE next == KdfChainKey(s.cks, 1)
<1> HIDE DEF next
<1>4. AfterEncrypt(s) = [s EXCEPT !.cks = next, !.ns = s.ns + 1]
  BY DEF AfterEncrypt, next
<1> QED
  BY <1>1, <1>3, <1>4 DEF RatchetState, next

\* A state that has received nothing has used up every key of other secrets.
LEMMA FreshExhausts ==
  ASSUME NEW s, NEW used, s.ckr = NoChain, s.skipped = <<>>,
         \A k \in used : k.root.secret # s.rk.secret
  PROVE  Exhausts(s, used)
<1>1. DOMAIN s.skipped = {}
  OBVIOUS
<1>2. \A k : Behind(k, s.ckr)
  BY DEF Behind
<1> QED
  BY <1>1, <1>2 DEF Exhausts, ExhaustsUpTo

-----------------------------------------------------------------------------

\* Key pairs generated later are no one-time prekeys, nor are the identities and
\* the first signed prekeys.
LEMMA NotInPools ==
  /\ \A k \in Nat : FirstFreshKey <= k => k \notin PoolKeys
  /\ \A d \in Device : IdentityKey[d] \notin PoolKeys /\ FirstSignedPreKey[d] \notin PoolKeys
  /\ \A d \in Device : OneTimePreKeys[d] \subseteq PoolKeys
  /\ NoKey \notin PoolKeys
<1>1. \A d \in Device : \A k \in OneTimePreKeys[d] : k \in Nat /\ k # NoKey /\ k < FirstFreshKey
  BY KeysNumbered DEF Key
<1>2. FirstFreshKey \in Nat
  BY KeysNumbered DEF Key
<1>3. \A k : k \in PoolKeys <=> \E d \in Device : k \in OneTimePreKeys[d]
  BY DEF PoolKeys
<1>4. \A k \in Nat : FirstFreshKey <= k => k \notin PoolKeys
  BY <1>1, <1>2, <1>3
<1>5. \A d \in Device : IdentityKey[d] \notin PoolKeys /\ FirstSignedPreKey[d] \notin PoolKeys
  BY <1>3, KeysDistinct
<1> QED
  BY <1>1, <1>3, <1>4, <1>5

\* The one-time prekey of a secret can be told from it.
LEMMA SecretMentions ==
  ASSUME NEW iik, NEW ek, NEW rik, NEW spk, NEW opk, NEW k \in PoolKeys,
         iik \notin PoolKeys, ek \notin PoolKeys, rik \notin PoolKeys, spk \notin PoolKeys
  PROVE  Mentions(SharedSecret(iik, ek, rik, spk, opk), k) <=> k = opk
<1>1. k # iik /\ k # ek /\ k # rik /\ k # spk /\ k # NoKey
  BY NotInPools
<1>2. \A out : out \in SharedSecret(iik, ek, rik, spk, opk) <=>
        \/ out \in {Dh(iik, spk), Dh(ek, rik), Dh(ek, spk)}
        \/ opk # NoKey /\ out = Dh(ek, opk)
  BY DEF SharedSecret
<1>3. /\ k \notin Dh(iik, spk) /\ k \notin Dh(ek, rik) /\ k \notin Dh(ek, spk)
      /\ k \in Dh(ek, opk) <=> k = opk
  BY <1>1 DEF Dh
<1> QED
  BY <1>1, <1>2, <1>3 DEF Mentions

\* A step that takes one-time prekeys away, and starts handshakes only with
\* those, leaves the used ones used.
PoolsShrink ==
  /\ \A d \in Device : oneTimePreKeys'[d] \subseteq oneTimePreKeys[d]
  /\ \A h \in handshakes' : h \in handshakes \/ h.opk \in oneTimePreKeys[h.msg.to] \cup {NoKey}

\* A one-time prekey that is used up stays so.
LEMMA UsedUpStays ==
  ASSUME PoolsShrink, NEW d \in Device, NEW k \in OneTimePreKeys[d], UsedUp(d, k)
  PROVE  UsedUp(d, k)'
<1>1. k # NoKey
  BY KeysNumbered
<1>2. k \notin oneTimePreKeys'[d]
  BY DEF PoolsShrink, UsedUp
<1>3. ASSUME NEW h \in handshakes', h.msg.to = d PROVE h.opk # k
  BY <1>1, <1>3 DEF PoolsShrink, UsedUp
<1> QED
  BY <1>2, <1>3 DEF UsedUp

\* At first nothing is sent, read or claimed.
LEMMA InitReadInv == Init => ReadInv
<1> SUFFICES ASSUME Init PROVE ReadInv
  OBVIOUS
<1>1. KeysApart
  <2>1. ASSUME NEW d \in Device
        PROVE  /\ \A i \in DOMAIN signedPreKeys[d] : signedPreKeys[d][i] \notin PoolKeys
               /\ directory[d].spk \notin PoolKeys
               /\ directory[d].opks \subseteq OneTimePreKeys[d]
               /\ oneTimePreKeys[d] \subseteq OneTimePreKeys[d]
               /\ fetched[d] = {}
    BY NotInPools DEF Init
  <2>2. FirstFreshKey <= nextKey
    BY KeysNumbered DEF Init, Key
  <2> QED
    BY <2>1, <2>2 DEF KeysApart
<1>2. net = {} /\ opened = {} /\ reopened = {} /\ handshakes = {}
  BY DEF Init
<1>3. /\ NoSession.cks = NoChain /\ NoSession.ckr = NoChain /\ NoSession.skipped = <<>>
      /\ NoSession.pendingPreKey = NoPreKey /\ NoSession.rk.secret = {}
  BY DEF NoSession, InitReceiver, FirstRoot
<1>4. \A d, e \in Device : sessions[d][e] = NoSession
  BY DEF Init
<1>5. \A d, e \in Device : ReadKeys(d, e) = {}
  BY <1>2 DEF ReadKeys, ReadFrom
<1>6. SecretsNamed
  BY <1>2, <1>3, <1>4 DEF SecretsNamed, SessionSecret, Introduces
<1>7. HandshakesApart /\ SendersNamed /\ OpenedOnce
  BY <1>2, <1>3, <1>4 DEF HandshakesApart, SendersNamed, Sending, OpenedOnce
<1>8. PreKeysUsedUp
  BY <1>2, <1>3, <1>4 DEF PreKeysUsedUp, Mentions
<1>9. Exhausts(NoSession, {})
  BY <1>3, FreshExhausts
<1>10. ReadKeysUsedUp
  BY <1>4, <1>5, <1>9 DEF ReadKeysUsedUp
<1> QED
  BY <1>1, <1>6, <1>7, <1>8, <1>10 DEF ReadInv

\* A step that neither saves a session, nor sends, nor reads.
LEMMA QuietReadInv ==
  ASSUME TypeOK, ReadInv, PoolsShrink, KeysApart', HandshakesApart',
         sessions' = sessions, net' = net, opened' = opened, reopened' = reopened
  PROVE  ReadInv'
<1>1. SecretsNamed' /\ SendersNamed' /\ OpenedOnce'
  BY DEF ReadInv, SecretsNamed, SendersNamed, Sending, OpenedOnce
<1>2. ReadKeysUsedUp'
  BY DEF ReadInv, ReadKeysUsedUp, ReadKeys, ReadFrom
<1>3. PreKeysUsedUp'
  <2>1. ASSUME NEW d \in Device, NEW e \in Device, NEW k \in OneTimePreKeys[d],
               Mentions(sessions'[d][e].rk.secret, k)
        PROVE  UsedUp(d, k)'
    BY <2>1, UsedUpStays DEF ReadInv, PreKeysUsedUp
  <2>2. ASSUME NEW m \in opened', NEW k \in OneTimePreKeys[m.to],
               Mentions(m.key.root.secret, k)
        PROVE  UsedUp(m.to, k)'
    <3>1. m \in opened /\ m.to \in Device
      BY DEF TypeOK, Message
    <3> QED
      BY <2>2, <3>1, UsedUpStays DEF ReadInv, PreKeysUsedUp
  <2> QED
    BY <2>1, <2>2 DEF PreKeysUsedUp
<1> QED
  BY <1>1, <1>2, <1>3 DEF ReadInv

\* Reading a message, on the stored session or on a new one, keeps ReadInv: the
\* session must have used up what was read from that peer, and the one-time
\* prekey of its secret must be gone.
LEMMA AdvanceReadInv ==
  ASSUME TypeOK, KeyInv, ReadInv, NEW m \in net, NEW s \in BoundedState,
         Advance(m.to, m, s), CanDecrypt(s, m, nextKey),
         Exhausts(s, ReadKeys(m.to, m.from)),
         SessionSecret(m.to, m.from, s),
         \A k \in OneTimePreKeys[m.to] : Mentions(s.rk.secret, k) => UsedUp(m.to, k)',
         s = sessions[m.to][m.from] \/ s.cks = NoChain,
         PoolsShrink, HandshakesApart',
         oneTimePreKeys' = oneTimePreKeys, signedPreKeys' = signedPreKeys,
         directory' = directory, fetched' = fetched, net' = net
  PROVE  ReadInv' /\ m \notin opened
<1> DEFINE d == m.to
           e == m.from
           t == AfterDecrypt(s, m, nextKey)
           used == ReadKeys(d, e)
<1>1. /\ m \in Message /\ d \in Device /\ e \in Device /\ m.header \in Header
      /\ m.key \in ChainKey /\ m.header.dh \in Nat /\ nextKey \in Nat /\ nextKey \in Key
  BY DEF TypeOK, Message, Header, Key
<1>2. used \in SUBSET ChainKey
  BY DEF TypeOK, Message, ReadKeys, ReadFrom
<1>3. /\ t \in BoundedState /\ t.pendingPreKey \in {s.pendingPreKey, NoPreKey}
      /\ \/ t.dhs = s.dhs /\ t.cks = s.cks
         \/ t.dhs = nextKey
  BY <1>1, AfterDecryptType DEF Key
<1>4. /\ m.key \notin used
      /\ Exhausts(t, used \cup {m.key})
      /\ t.ckr # NoChain
      /\ t.rk.secret = s.rk.secret
      /\ m.key.root.secret = s.rk.secret \/ \E k \in used : k.root = m.key.root
      /\ \/ t.cks = s.cks
         \/ t.cks.root = t.rk /\ t.rk.turns # <<>>
  BY <1>1, <1>2, DecryptExhausts
<1>5. /\ sessions' = [sessions EXCEPT ![d][e] = t]
      /\ nextKey' = IF t.dhs = nextKey THEN nextKey + 1 ELSE nextKey
      /\ opened' = opened \cup {m}
      /\ reopened' = IF m \in opened THEN reopened \cup {m} ELSE reopened
  BY DEF Advance
<1> HIDE DEF t
<1>6. \A f, g \in Device :
        sessions'[f][g] = IF f = d /\ g = e THEN t ELSE sessions[f][g]
  <2>1. /\ d \in Device /\ e \in Device /\ t \in BoundedState
        /\ sessions' = [sessions EXCEPT ![d][e] = t]
    BY <1>1, <1>3, <1>5
  <2>2. sessions \in [Device -> [Device -> RatchetState]]
    BY DEF TypeOK
  <2> HIDE DEF d, e
  <2> QED
    BY <2>1, <2>2
<1>7. m \notin opened
  BY <1>4 DEF ReadKeys, ReadFrom
<1>8. \A f, g \in Device :
        ReadKeys(f, g)' = IF f = d /\ g = e THEN used \cup {m.key} ELSE ReadKeys(f, g)
  BY <1>5 DEF ReadKeys, ReadFrom
<1>9. \A n \in opened : n \in net /\ n.to \in Device /\ n.from \in Device
  BY DEF TypeOK, Message
<1>10. m.to = d /\ m.from = e
  OBVIOUS
<1>11. KeysApart'
  <2>1. FirstFreshKey <= nextKey'
    BY <1>1, <1>5, KeysNumbered DEF ReadInv, KeysApart, Key
  <2> QED
    BY <2>1 DEF ReadInv, KeysApart
<1>12. OpenedOnce'
  BY <1>5, <1>7 DEF ReadInv, OpenedOnce
<1>13. ReadKeysUsedUp'
  <2> SUFFICES ASSUME NEW f \in Device, NEW g \in Device
               PROVE  /\ Exhausts(sessions'[f][g], ReadKeys(f, g)')
                      /\ ReadKeys(f, g)' # {} => sessions'[f][g].ckr # NoChain
    BY DEF ReadKeysUsedUp
  <2> HIDE DEF used
  <2>1. CASE f = d /\ g = e
    BY <1>4, <1>6, <1>8, <2>1
  <2>2. CASE ~(f = d /\ g = e)
    BY <1>6, <1>8, <2>2 DEF ReadInv, ReadKeysUsedUp
  <2> QED
    BY <2>1, <2>2
<1>14. PreKeysUsedUp'
  <2>1. ASSUME NEW f \in Device, NEW g \in Device, NEW k \in OneTimePreKeys[f],
               Mentions(sessions'[f][g].rk.secret, k)
        PROVE  UsedUp(f, k)'
    <3>1. CASE f = d /\ g = e
      BY <1>4, <1>6, <2>1, <3>1
    <3>2. CASE ~(f = d /\ g = e)
      BY <1>6, <2>1, <3>2, UsedUpStays DEF ReadInv, PreKeysUsedUp
    <3> QED
      BY <3>1, <3>2
  <2>2. ASSUME NEW n \in opened, NEW k \in OneTimePreKeys[n.to],
               Mentions(n.key.root.secret, k)
        PROVE  UsedUp(n.to, k)'
    BY <1>9, <2>2, UsedUpStays DEF ReadInv, PreKeysUsedUp
  <2>3. ASSUME NEW k \in OneTimePreKeys[d], Mentions(m.key.root.secret, k)
        PROVE  UsedUp(d, k)'
    <3>1. CASE m.key.root.secret = s.rk.secret
      BY <2>3, <3>1
    <3>2. CASE \E j \in used : j.root = m.key.root
      <4>1. PICK n \in opened : n.to = d /\ n.key.root = m.key.root
        BY <3>2 DEF ReadKeys, ReadFrom
      <4> QED
        BY <2>2, <2>3, <4>1
    <3> QED
      BY <1>4, <3>1, <3>2
  <2> QED
    BY <1>5, <2>1, <2>2, <2>3 DEF PreKeysUsedUp
<1>15. SecretsNamed'
  <2>1. SessionSecret(d, e, t)
    <3>1. Introduces(d, e, t.pendingPreKey, t.rk.secret)
      BY <1>3, <1>4 DEF SessionSecret, Introduces
    <3>2. t.cks # NoChain => t.cks.root.secret = t.rk.secret /\ t.cks.root.turns # <<>>
      BY <1>4 DEF SessionSecret
    <3> QED
      BY <3>1, <3>2 DEF SessionSecret
  <2>2. \A f, g \in Device : SessionSecret(f, g, sessions'[f][g])
    BY <1>6, <2>1 DEF ReadInv, SecretsNamed
  <2> QED
    BY <2>2 DEF ReadInv, SecretsNamed
<1>16. SendersNamed'
  <2>1. ASSUME NEW f \in Device, NEW g \in Device, NEW n \in net,
               sessions'[f][g].cks # NoChain, sessions'[f][g].dhs = n.header.dh
        PROVE  n.from = f
    <3>1. CASE ~(f = d /\ g = e)
      BY <1>6, <2>1, <3>1 DEF ReadInv, SendersNamed, Sending
    <3>2. CASE f = d /\ g = e /\ t.dhs = nextKey
      <4>1. n.header.dh < nextKey /\ n.header.dh \in Nat
        BY DEF KeyInv, MessageChains, MessageChain, TypeOK, Message, Header, Key
      <4> QED
        BY <1>1, <1>6, <2>1, <3>2, <4>1
    <3>3. CASE f = d /\ g = e /\ t.dhs = s.dhs /\ t.cks = s.cks
      BY <1>6, <2>1, <3>3 DEF ReadInv, SendersNamed, Sending
    <3> QED
      BY <1>3, <3>1, <3>2, <3>3
  <2> QED
    BY <2>1 DEF ReadInv, SendersNamed, Sending
<1> QED
  BY <1>7, <1>11, <1>12, <1>13, <1>14, <1>15, <1>16 DEF ReadInv

\* Sending keeps ReadInv: a new session is started with a peer nothing has been
\* read from, under a one-time prekey of that peer.
LEMMA EncryptReadInv ==
  ASSUME TypeOK, KeyInv, ReadInv, PoolLasts,
         NEW d \in Device, NEW b \in fetched[d], EncryptTo(d, b)
  PROVE  ReadInv'
<1> DEFINE e == b.owner
           known == sessions[d][e] # NoSession
           s == IF known THEN sessions[d][e] ELSE Initiate(d, b, nextKey, nextKey + 1)
           t == AfterEncrypt(s)
           m == [from |-> d, to |-> e, body |-> sent[d], header |-> Seal(s).header,
                 key |-> Seal(s).key, associatedData |-> Seal(s).associatedData,
                 prekey |-> Seal(s).prekey]
           secret == SharedSecret(IdentityKey[d], nextKey, IdentityKey[e], b.spk, b.opk)
           fields == [ek |-> nextKey, spk |-> b.spk, opk |-> b.opk]
<1>1. /\ b \in Bundle /\ e \in Device /\ nextKey \in Nat
      /\ nextKey \in Key /\ nextKey + 1 \in Key /\ b.spk \in Key /\ b.opk \in Key
      /\ IdentityKey[d] \in Key /\ IdentityKey[e] \in Key
  BY InitialKeys DEF TypeOK, Bundle, Key
<1>2. s \in BoundedState
  BY <1>1, StoredType, InitiateType
<1>3. /\ t \in BoundedState /\ t.dhs = s.dhs
      /\ t.rk = s.rk /\ t.ckr = s.ckr /\ t.skipped = s.skipped
      /\ t.pendingPreKey = s.pendingPreKey /\ t.cks.root = s.cks.root
  BY <1>2, AfterEncryptType, AfterEncryptKeeps
<1>4. /\ sessions' = [sessions EXCEPT ![d][e] = t]
      /\ net' = net \cup {m}
      /\ nextKey' = IF known THEN nextKey ELSE nextKey + 2
      /\ s.cks # NoChain
      /\ fetched' = [fetched EXCEPT ![d] = fetched[d] \ {b}]
      /\ signedPreKeys' = signedPreKeys /\ directory' = directory
      /\ oneTimePreKeys' = oneTimePreKeys /\ handshakes' = handshakes
      /\ opened' = opened /\ reopened' = reopened
  BY DEF EncryptTo, CanEncrypt, history
<1>5. /\ m.header.dh = s.dhs /\ m.key = s.cks /\ m.prekey = s.pendingPreKey
      /\ m.from = d /\ m.to = e
  BY DEF Seal
<1>6. /\ d # e /\ b.spk \notin PoolKeys /\ b.opk \in OneTimePreKeys[e]
      /\ FirstFreshKey <= nextKey
  BY DEF ReadInv, KeysApart, PoolLasts
<1>7. nextKey \notin PoolKeys
  BY <1>1, <1>6, NotInPools
<1>8. \* The new session derives everything from a secret of its own.
      ~known => /\ s.rk.secret = secret /\ s.cks.root = s.rk /\ s.rk.turns # <<>>
                /\ s.ckr = NoChain /\ s.skipped = <<>> /\ s.pendingPreKey = fields
                /\ s.dhs = nextKey + 1
  <2> SUFFICES ASSUME ~known
               PROVE  /\ s.rk.secret = secret /\ s.cks.root = s.rk /\ s.rk.turns # <<>>
                      /\ s.ckr = NoChain /\ s.skipped = <<>> /\ s.pendingPreKey = fields
                      /\ s.dhs = nextKey + 1
    OBVIOUS
  <2> DEFINE ad == <<IdentityKey[d], IdentityKey[e]>>
             ratchet == nextKey + 1
  <2>1. s = InitSender(secret, ad, b.spk, fields, ratchet) /\ ratchet \in Key
    BY <1>1 DEF Initiate
  <2>2. s = Initiate(d, b, nextKey, nextKey + 1)
    OBVIOUS
  <2>3. secret \in SUBSET DhOutput
    BY <1>1, SharedSecretType
  <2> HIDE DEF s, secret, fields, known, ad
  <2>4. s.dhs = nextKey + 1
    BY <1>1, <2>2, InitiateType
  <2> HIDE DEF ratchet
  <2>5. StartsFrom(InitSender(secret, ad, b.spk, fields, ratchet), secret, fields)
    BY <1>1, <2>1, <2>3, InitSenderRoot
  <2> QED
    BY <2>1, <2>4, <2>5 DEF StartsFrom
<1>9. sessions[d][e] = NoSession <=> ~known
  OBVIOUS
<1>10. known => s = sessions[d][e]
  OBVIOUS
<1> HIDE DEF known, s, t, m, secret
<1>11. \A f, g \in Device :
         sessions'[f][g] = IF f = d /\ g = e THEN t ELSE sessions[f][g]
  BY <1>1, <1>3, <1>4, SaveType
<1>12. KeyInv'
  BY EncryptKeyInv
<1>13. PoolsShrink
  BY <1>4 DEF PoolsShrink
<1>14. KeysApart'
  <2>1. FirstFreshKey <= nextKey'
    BY <1>1, <1>4, <1>6, KeysNumbered DEF Key
  <2>2. \A f \in Device : fetched'[f] \subseteq fetched[f]
    BY <1>4 DEF TypeOK
  <2> QED
    BY <1>4, <2>1, <2>2 DEF ReadInv, KeysApart
<1>15. HandshakesApart' /\ OpenedOnce'
  BY <1>4 DEF ReadInv, HandshakesApart, OpenedOnce
<1>16. \* Nothing was read from a peer there is no session with.
       ~known => ReadKeys(d, e) = {}
  <2>1. NoSession.ckr = NoChain
    BY DEF NoSession, InitReceiver
  <2> QED
    BY <1>1, <1>9, <2>1 DEF ReadInv, ReadKeysUsedUp
<1>17. ReadKeysUsedUp'
  <2>1. \A f, g \in Device : ReadKeys(f, g)' = ReadKeys(f, g)
    BY <1>4 DEF ReadKeys, ReadFrom
  <2>2. /\ Exhausts(s, ReadKeys(d, e))
        /\ ReadKeys(d, e) # {} => s.ckr # NoChain
    <3>1. CASE known
      BY <1>1, <1>10, <3>1 DEF ReadInv, ReadKeysUsedUp
    <3>2. CASE ~known
      BY <1>8, <1>16, <3>2, FreshExhausts
    <3> QED
      BY <3>1, <3>2
  <2>3. Exhausts(t, ReadKeys(d, e))
    BY <1>3, <2>2 DEF Exhausts, ExhaustsUpTo
  <2> QED
    BY <1>3, <1>11, <2>1, <2>2, <2>3 DEF ReadInv, ReadKeysUsedUp
<1>18. SessionSecret(d, e, s)
  <2>1. CASE known
    BY <1>1, <1>10, <2>1 DEF ReadInv, SecretsNamed
  <2>2. CASE ~known
    BY <1>6, <1>7, <1>8, <2>2 DEF SessionSecret, Introduces, secret
  <2> QED
    BY <2>1, <2>2
<1>19. SecretsNamed'
  <2>1. SessionSecret(d, e, t)
    <3>1. t.cks # NoChain => t.cks.root.secret = t.rk.secret /\ t.cks.root.turns # <<>>
      BY <1>3, <1>4, <1>18 DEF SessionSecret
    <3> QED
      BY <1>3, <1>18, <3>1 DEF SessionSecret
  <2>2. MessageSecret(m)
    BY <1>4, <1>5, <1>6, <1>18 DEF SessionSecret, MessageSecret
  <2> QED
    BY <1>4, <1>11, <2>1, <2>2 DEF ReadInv, SecretsNamed
<1>20. PreKeysUsedUp'
  <2>1. ASSUME NEW f \in Device, NEW g \in Device, NEW k \in OneTimePreKeys[f],
               Mentions(sessions'[f][g].rk.secret, k)
        PROVE  UsedUp(f, k)'
    <3>1. CASE f = d /\ g = e /\ ~known
      <4>1. k \in PoolKeys /\ IdentityKey[d] \notin PoolKeys /\ IdentityKey[e] \notin PoolKeys
        BY <1>1, NotInPools
      <4>2. Mentions(secret, k)
        BY <1>3, <1>8, <1>11, <2>1, <3>1
      <4>3. k = b.opk
        BY <1>6, <1>7, <4>1, <4>2, SecretMentions DEF secret
      <4> QED
        BY <1>1, <1>6, <3>1, <4>3, OwnOneTimePreKeys
    <3>2. CASE ~(f = d /\ g = e /\ ~known)
      <4>1. sessions'[f][g].rk = sessions[f][g].rk
        BY <1>3, <1>10, <1>11, <3>2
      <4> QED
        BY <1>13, <2>1, <4>1, UsedUpStays DEF ReadInv, PreKeysUsedUp
    <3> QED
      BY <3>1, <3>2
  <2>2. ASSUME NEW n \in opened, NEW k \in OneTimePreKeys[n.to],
               Mentions(n.key.root.secret, k)
        PROVE  UsedUp(n.to, k)'
    <3>1. n.to \in Device
      BY DEF TypeOK, Message
    <3> QED
      BY <1>13, <2>2, <3>1, UsedUpStays DEF ReadInv, PreKeysUsedUp
  <2> QED
    BY <1>4, <2>1, <2>2 DEF PreKeysUsedUp
<1>21. SendersNamed'
  <2>1. \A n \in net : n.header.dh = s.dhs => n.from = d
    <3>1. CASE known
      BY <1>1, <1>4, <1>10, <3>1 DEF ReadInv, SendersNamed, Sending
    <3>2. CASE ~known
      <4>1. \A n \in net : n.header.dh < nextKey /\ n.header.dh \in Nat
        BY DEF KeyInv, MessageChains, MessageChain, TypeOK, Message, Header, Key
      <4> QED
        BY <1>1, <1>8, <3>2, <4>1
    <3> QED
      BY <3>1, <3>2
  <2>2. sessions'[d][e].cks # NoChain /\ sessions'[d][e].dhs = s.dhs
    <3>1. t.cks # NoChain
      BY <1>3, <1>4, <1>18 DEF SessionSecret, NoChain, FreshChain, NoRoot, FirstRoot
    <3> QED
      BY <1>1, <1>3, <1>11, <3>1
  <2>3. ASSUME NEW f \in Device, NEW g \in Device, NEW n \in net \cup {m},
               sessions'[f][g].cks # NoChain, sessions'[f][g].dhs = n.header.dh
        PROVE  n.from = f
    <3>1. CASE n = m
      <4>1. sessions'[f][g].dhs = sessions'[d][e].dhs
        BY <1>5, <2>2, <2>3, <3>1
      <4>2. f = d
        BY <1>1, <1>12, <2>2, <2>3, <4>1 DEF KeyInv, SendersDiffer, Sending
      <4> QED
        BY <1>5, <3>1, <4>2
    <3>2. CASE n \in net /\ f = d /\ g = e
      BY <2>1, <2>2, <2>3, <3>2
    <3>3. CASE n \in net /\ ~(f = d /\ g = e)
      BY <1>11, <2>3, <3>3 DEF ReadInv, SendersNamed, Sending
    <3> QED
      BY <3>1, <3>2, <3>3
  <2>4. \A m1, m2 \in net \cup {m} : m1.header.dh = m2.header.dh => m1.from = m2.from
    BY <1>5, <2>1 DEF ReadInv, SendersNamed
  <2> QED
    BY <1>4, <2>3, <2>4 DEF SendersNamed, Sending
<1> QED
  BY <1>14, <1>15, <1>17, <1>19, <1>20, <1>21 DEF ReadInv

\* A handshake that opens its message used the one-time prekey the message names,
\* and no message was read under that secret.
LEMMA FinishReadInv ==
  ASSUME TypeOK, KeyInv, ReadInv, NEW h \in handshakes, FinishHandshake(h),
         CanDecrypt(Respond(h.msg.to, h.msg, h.opk), h.msg, nextKey),
         Advance(h.msg.to, h.msg, Respond(h.msg.to, h.msg, h.opk))
  PROVE  ReadInv' /\ h.msg \notin opened
<1> DEFINE m == h.msg
           d == h.msg.to
           e == h.msg.from
           s == Respond(d, m, h.opk)
           secret == SharedSecret(IdentityKey[e], m.prekey.ek, IdentityKey[d],
                                  m.prekey.spk, h.opk)
           named == SharedSecret(IdentityKey[e], m.prekey.ek, IdentityKey[d],
                                 m.prekey.spk, m.prekey.opk)
<1>1. /\ m \in net /\ m \in Message /\ h.opk \in Key /\ d \in Device /\ e \in Device
      /\ m.header \in Header /\ m.key \in ChainKey /\ nextKey \in Key
  BY DEF TypeOK, Handshake, Message
<1>2. s \in BoundedState /\ s.cks = NoChain
  BY <1>1, RespondType
<1>3. /\ s.rk.secret = secret /\ s.ckr = NoChain /\ s.skipped = <<>>
      /\ s.pendingPreKey = NoPreKey
  BY DEF Respond, InitReceiver, FirstRoot
<1>4. CanDecrypt(s, m, nextKey) /\ Advance(d, m, s)
  OBVIOUS
<1>5. /\ m.prekey # NoPreKey /\ m.key.root.secret = named
      /\ m.prekey.ek \notin PoolKeys /\ m.prekey.spk \notin PoolKeys
      /\ m.prekey.opk \in OneTimePreKeys[d] /\ m.prekey.opk \in PoolKeys
      /\ IdentityKey[d] \notin PoolKeys /\ IdentityKey[e] \notin PoolKeys
  <2>1. MessageSecret(m) /\ m.prekey # NoPreKey
    BY <1>1 DEF ReadInv, SecretsNamed, HandshakesApart
  <2> QED
    BY <1>1, <2>1, NotInPools DEF MessageSecret, Introduces
<1> HIDE DEF s, secret, named
<1>6. m.key.root.secret = secret
  <2>1. Exhausts(s, {})
    BY <1>3, FreshExhausts
  <2> DEFINE none == {}
  <2>2. none \in SUBSET ChainKey /\ Exhausts(s, none)
    BY <2>1
  <2> HIDE DEF none
  <2>3. s \in BoundedState /\ m.header \in Header /\ m.key \in ChainKey
        /\ nextKey \in Key /\ CanDecrypt(s, m, nextKey)
    BY <1>1, <1>2, <1>4
  <2>4. m.key.root.secret = s.rk.secret \/ \E k \in none : k.root = m.key.root
    BY <2>2, <2>3, DecryptExhausts
  <2> QED
    BY <1>3, <2>4 DEF none
<1>7. \A k \in PoolKeys : Mentions(secret, k) <=> k = h.opk
  BY <1>5, SecretMentions DEF secret
<1>8. h.opk = m.prekey.opk
  <2>1. Mentions(named, m.prekey.opk)
    BY <1>5, SecretMentions DEF named
  <2> QED
    BY <1>5, <1>6, <1>7, <2>1
<1>9. /\ h.opk # NoKey /\ h.opk \in OneTimePreKeys[d] /\ h.opk \notin oneTimePreKeys[d]
      /\ \A g \in handshakes : g.opk = h.opk => g = h
  BY <1>5, <1>8, NotInPools DEF ReadInv, HandshakesApart
<1>10. /\ handshakes' = handshakes \ {h} /\ oneTimePreKeys' = oneTimePreKeys
       /\ signedPreKeys' = signedPreKeys /\ directory' = directory
       /\ fetched' = fetched /\ net' = net
  BY DEF FinishHandshake
<1>11. Exhausts(s, ReadKeys(d, e))
  <2>1. ASSUME NEW n \in ReadFrom(d, e), n.key.root.secret = secret
        PROVE  FALSE
    <3>1. n \in opened /\ n.to = d /\ Mentions(n.key.root.secret, h.opk)
      BY <1>5, <1>7, <1>8, <2>1 DEF ReadFrom
    <3>2. UsedUp(d, h.opk)
      BY <1>9, <3>1 DEF ReadInv, PreKeysUsedUp
    <3> QED
      BY <3>2 DEF UsedUp
  <2>2. \A k \in ReadKeys(d, e) : k.root.secret # s.rk.secret
    BY <1>3, <2>1 DEF ReadKeys
  <2> QED
    BY <1>3, <2>2, FreshExhausts
<1>12. SessionSecret(d, e, s)
  BY <1>2, <1>3 DEF SessionSecret, Introduces
<1>13. \A k \in OneTimePreKeys[d] : Mentions(s.rk.secret, k) => UsedUp(d, k)'
  <2> SUFFICES ASSUME NEW k \in OneTimePreKeys[d], Mentions(secret, k)
               PROVE  UsedUp(d, k)'
    BY <1>3
  <2>1. k = h.opk
    BY <1>1, <1>7, NotInPools
  <2> QED
    BY <1>9, <1>10, <2>1 DEF UsedUp
<1>14. PoolsShrink /\ HandshakesApart'
  BY <1>10 DEF PoolsShrink, ReadInv, HandshakesApart
<1>15. s = sessions[d][e] \/ s.cks = NoChain
  BY <1>2
<1> QED
  BY <1>1, <1>2, <1>4, <1>10, <1>11, <1>12, <1>13, <1>14, <1>15, AdvanceReadInv

\* Reading on the stored session.
LEMMA ReceiveReadInv ==
  ASSUME TypeOK, KeyInv, ReadInv, NEW m \in net, ReceiveOnSession(m.to, m)
  PROVE  ReadInv' /\ m \notin opened
<1> DEFINE s == sessions[m.to][m.from]
<1>1. m \in Message /\ m.from \in Device /\ m.to \in Device
  BY DEF TypeOK, Message
<1>2. s \in BoundedState
  BY <1>1, StoredType
<1>3. Advance(m.to, m, s) /\ CanDecrypt(s, m, nextKey)
  BY DEF ReceiveOnSession, Readable
<1>4. /\ oneTimePreKeys' = oneTimePreKeys /\ signedPreKeys' = signedPreKeys
      /\ directory' = directory /\ fetched' = fetched /\ net' = net
      /\ handshakes' = handshakes
  BY DEF ReceiveOnSession
<1>5. PoolsShrink /\ HandshakesApart'
  BY <1>4 DEF PoolsShrink, ReadInv, HandshakesApart
<1>6. Exhausts(s, ReadKeys(m.to, m.from)) /\ SessionSecret(m.to, m.from, s)
  BY <1>1 DEF ReadInv, ReadKeysUsedUp, SecretsNamed
<1>7. \A k \in OneTimePreKeys[m.to] : Mentions(s.rk.secret, k) => UsedUp(m.to, k)'
  BY <1>1, <1>5, UsedUpStays DEF ReadInv, PreKeysUsedUp
<1>8. s = sessions[m.to][m.from] \/ s.cks = NoChain
  OBVIOUS
<1> HIDE DEF s
<1> QED
  BY <1>2, <1>3, <1>4, <1>5, <1>6, <1>7, <1>8, AdvanceReadInv

\* Starting a handshake takes its one-time prekey off the pool, so no other
\* handshake has it.
LEMMA BeginReadInv ==
  ASSUME TypeOK, ReadInv, NEW m \in net, BeginHandshake(m.to, m)
  PROVE  ReadInv'
<1> DEFINE d == m.to
           opk == TakenPreKey(d, m.prekey.opk)
           h == [msg |-> m, opk |-> opk]
<1>1. m \in Message /\ d \in Device
  BY DEF TypeOK, Message
<1>2. /\ handshakes' = handshakes \cup {h}
      /\ oneTimePreKeys' = [oneTimePreKeys EXCEPT ![d] = oneTimePreKeys[d] \ {m.prekey.opk}]
      /\ m.prekey # NoPreKey
      /\ nextKey' = nextKey /\ sessions' = sessions /\ signedPreKeys' = signedPreKeys
      /\ directory' = directory /\ fetched' = fetched /\ net' = net
      /\ opened' = opened /\ reopened' = reopened
  BY DEF BeginHandshake, history
<1>3. /\ \A f \in Device : oneTimePreKeys'[f] \subseteq oneTimePreKeys[f]
      /\ opk # NoKey => opk \in oneTimePreKeys[d] /\ opk \notin oneTimePreKeys'[d]
  BY <1>1, <1>2 DEF TypeOK, TakenPreKey
<1>4. h.msg = m /\ h.opk = opk
  OBVIOUS
<1> HIDE DEF opk, h
<1>5. PoolsShrink
  <2>1. opk \in oneTimePreKeys[d] \cup {NoKey}
    BY <1>3
  <2> QED
    BY <1>2, <1>3, <1>4, <2>1 DEF PoolsShrink
<1>6. KeysApart'
  BY <1>2, <1>3 DEF ReadInv, KeysApart
<1>7. \A f \in Device : oneTimePreKeys[f] \subseteq OneTimePreKeys[f]
  BY DEF ReadInv, KeysApart
<1>8. \A g \in handshakes : g.msg.to \in Device
  BY DEF TypeOK, Handshake, Message
<1>9. ASSUME NEW g \in handshakes, g.opk # NoKey, g.opk = opk
      PROVE  FALSE
  <2>1. g.opk \in OneTimePreKeys[g.msg.to] /\ g.opk \notin oneTimePreKeys[g.msg.to]
    BY <1>9 DEF ReadInv, HandshakesApart
  <2>2. opk \in oneTimePreKeys[d] /\ opk \in OneTimePreKeys[d]
    BY <1>1, <1>3, <1>7, <1>9
  <2>3. g.msg.to # d
    BY <1>9, <2>1, <2>2
  <2> QED
    BY <1>1, <1>8, <1>9, <2>1, <2>2, <2>3, OwnOneTimePreKeys
<1>10. HandshakesApart'
  <2>1. ASSUME NEW g \in handshakes, g.opk # NoKey
        PROVE  g.opk \in OneTimePreKeys[g.msg.to] \ oneTimePreKeys'[g.msg.to]
    BY <1>3, <1>8, <2>1 DEF ReadInv, HandshakesApart
  <2>2. opk # NoKey => opk \in OneTimePreKeys[d] \ oneTimePreKeys'[d]
    BY <1>1, <1>3, <1>7
  <2>3. \A g \in handshakes : g.msg.prekey # NoPreKey
    BY DEF ReadInv, HandshakesApart
  <2>4. \A g, f \in handshakes : g.opk # NoKey /\ f.opk = g.opk => f = g
    BY DEF ReadInv, HandshakesApart
  <2> QED
    BY <1>2, <1>4, <1>9, <2>1, <2>2, <2>3, <2>4 DEF HandshakesApart
<1> QED
  BY <1>2, <1>5, <1>6, <1>10, QuietReadInv

\* Every step keeps ReadInv, if no bundle that is still to be used came without
\* a one-time prekey.
LEMMA NextReadInv == TypeOK /\ KeyInv /\ ReadInv /\ PoolLasts /\ [Next]_vars => ReadInv'
<1> SUFFICES ASSUME TypeOK, KeyInv, ReadInv, PoolLasts, [Next]_vars PROVE ReadInv'
  OBVIOUS
<1>0. /\ nextKey \in Nat /\ FirstFreshKey <= nextKey /\ FirstFreshKey \in Nat
      /\ nextKey \notin PoolKeys
  BY NotInPools, KeysNumbered DEF TypeOK, Key, ReadInv, KeysApart
<1>1. ASSUME NEW d \in Device, RotateSignedPreKey(d) PROVE ReadInv'
  <2> DEFINE held == Append(signedPreKeys[d], nextKey)
             kept == IF Len(held) > History THEN Tail(held) ELSE held
  <2>1. nextKey \in Key /\ signedPreKeys[d] \in Seq(Key)
    BY DEF TypeOK
  <2>2. held \in Seq(Key) /\ held # <<>> /\ Len(held) \in Nat
    BY <2>1, AppendProperties
  <2>3. \A i \in 1..Len(held) : held[i] \notin PoolKeys
    <3>1. \A i \in DOMAIN signedPreKeys[d] : signedPreKeys[d][i] \notin PoolKeys
      BY DEF ReadInv, KeysApart
    <3>2. /\ Len(signedPreKeys[d]) \in Nat /\ Len(held) = Len(signedPreKeys[d]) + 1
          /\ DOMAIN signedPreKeys[d] = 1..Len(signedPreKeys[d])
          /\ \A i \in 1..Len(signedPreKeys[d]) : held[i] = signedPreKeys[d][i]
          /\ held[Len(signedPreKeys[d]) + 1] = nextKey
      BY <2>1, AppendProperties, LenProperties
    <3> HIDE DEF held
    <3>3. \A i \in 1..Len(held) :
            i \in 1..Len(signedPreKeys[d]) \/ i = Len(signedPreKeys[d]) + 1
      BY <3>2
    <3> QED
      BY <1>0, <3>1, <3>2, <3>3
  <2>4. \A i \in DOMAIN kept : kept[i] \notin PoolKeys
    BY <2>2, <2>3, HeadTailProperties, LenProperties
  <2> HIDE DEF held
  <2>5. /\ signedPreKeys' = [signedPreKeys EXCEPT ![d] = kept] /\ nextKey' = nextKey + 1
        /\ sessions' = sessions /\ oneTimePreKeys' = oneTimePreKeys
        /\ directory' = directory /\ fetched' = fetched /\ handshakes' = handshakes
        /\ net' = net /\ opened' = opened /\ reopened' = reopened
    BY <1>1 DEF RotateSignedPreKey, held, history
  <2> HIDE DEF kept
  <2>6. \A f \in Device : signedPreKeys'[f] = IF f = d THEN kept ELSE signedPreKeys[f]
    BY <2>5 DEF TypeOK
  <2>7. KeysApart'
    <3>1. \A f \in Device : \A i \in DOMAIN signedPreKeys'[f] : signedPreKeys'[f][i] \notin PoolKeys
      BY <2>4, <2>6 DEF ReadInv, KeysApart
    <3>2. FirstFreshKey <= nextKey'
      BY <1>0, <2>5
    <3> QED
      BY <2>5, <3>1, <3>2 DEF ReadInv, KeysApart
  <2>8. PoolsShrink /\ HandshakesApart'
    BY <2>5 DEF PoolsShrink, ReadInv, HandshakesApart
  <2> QED
    BY <2>5, <2>7, <2>8, QuietReadInv
<1>2. ASSUME NEW d \in Device, PublishSignedPreKey(d) PROVE ReadInv'
  <2>1. signedPreKeys[d] \in Seq(Key) /\ signedPreKeys[d] # <<>>
    BY DEF TypeOK
  <2>2. Len(signedPreKeys[d]) \in DOMAIN signedPreKeys[d]
    BY <2>1, EmptySeq, LenProperties
  <2>3. signedPreKeys[d][Len(signedPreKeys[d])] \notin PoolKeys
    BY <2>2 DEF ReadInv, KeysApart
  <2>4. /\ directory' = [directory EXCEPT ![d].spk = signedPreKeys[d][Len(signedPreKeys[d])]]
        /\ sessions' = sessions /\ oneTimePreKeys' = oneTimePreKeys
        /\ signedPreKeys' = signedPreKeys /\ nextKey' = nextKey
        /\ fetched' = fetched /\ handshakes' = handshakes
        /\ net' = net /\ opened' = opened /\ reopened' = reopened
    BY <1>2 DEF PublishSignedPreKey, vault, history
  <2>5. \A f \in Device : /\ directory'[f].opks = directory[f].opks
                          /\ directory'[f].spk \notin PoolKeys
    BY <2>3, <2>4 DEF ReadInv, KeysApart, TypeOK
  <2>6. KeysApart'
    BY <2>4, <2>5 DEF ReadInv, KeysApart
  <2>7. PoolsShrink /\ HandshakesApart'
    BY <2>4 DEF PoolsShrink, ReadInv, HandshakesApart
  <2> QED
    BY <2>4, <2>6, <2>7, QuietReadInv
<1>3. ASSUME NEW d \in Device, NEW e \in Device, FetchBundle(d, e) PROVE ReadInv'
  <2> DEFINE opk == Claimed(directory[e].opks)
             b == [owner |-> e, spk |-> directory[e].spk, opk |-> opk]
  <2>1. directory[e].opks \in SUBSET Key /\ directory[e].opks \subseteq OneTimePreKeys[e]
    BY DEF TypeOK, ReadInv, KeysApart
  <2>2. opk \in OneTimePreKeys[e] \cup {NoKey}
    BY <2>1, ClaimedType
  <2> HIDE DEF opk
  <2>3. /\ directory' = [directory EXCEPT ![e].opks = directory[e].opks \ {opk}]
        /\ fetched' = [fetched EXCEPT ![d] = fetched[d] \cup {b}]
        /\ d # e
        /\ sessions' = sessions /\ oneTimePreKeys' = oneTimePreKeys
        /\ signedPreKeys' = signedPreKeys /\ nextKey' = nextKey /\ handshakes' = handshakes
        /\ net' = net /\ opened' = opened /\ reopened' = reopened
    BY <1>3 DEF FetchBundle, vault, history, opk
  <2>4. \A f \in Device : /\ directory'[f].opks \subseteq directory[f].opks
                          /\ directory'[f].spk = directory[f].spk
    BY <2>3 DEF TypeOK
  <2>5. b.owner = e /\ b.spk \notin PoolKeys /\ b.opk = opk
    BY DEF ReadInv, KeysApart
  <2> HIDE DEF b
  <2>6. \A f \in Device : fetched'[f] = IF f = d THEN fetched[f] \cup {b} ELSE fetched[f]
    BY <2>3 DEF TypeOK
  <2>7. \A f \in Device : \A c \in fetched'[f] :
          /\ c.owner # f /\ c.spk \notin PoolKeys
          /\ c.opk \in OneTimePreKeys[c.owner] \cup {NoKey}
    BY <2>2, <2>3, <2>5, <2>6 DEF ReadInv, KeysApart
  <2>8. KeysApart'
    BY <2>3, <2>4, <2>7 DEF ReadInv, KeysApart
  <2>9. PoolsShrink /\ HandshakesApart'
    BY <2>3 DEF PoolsShrink, ReadInv, HandshakesApart
  <2> QED
    BY <2>3, <2>8, <2>9, QuietReadInv
<1>4. ASSUME NEW d \in Device, NEW b \in fetched[d], EncryptTo(d, b) PROVE ReadInv'
  BY <1>4, EncryptReadInv
<1>5. ASSUME NEW m \in net, Receive(m.to, m) PROVE ReadInv'
  <2>1. CASE ReceiveOnSession(m.to, m)
    BY <2>1, ReceiveReadInv
  <2>2. CASE BeginHandshake(m.to, m)
    BY <2>2, BeginReadInv
  <2>3. CASE RefuseMessage(m.to, m) \/ RefuseHandshake(m.to, m)
    <3>1. /\ sessions' = sessions /\ nextKey' = nextKey /\ net' = net
          /\ opened' = opened /\ reopened' = reopened /\ handshakes' = handshakes
          /\ oneTimePreKeys' = oneTimePreKeys /\ signedPreKeys' = signedPreKeys
          /\ directory' = directory /\ fetched' = fetched
      BY <2>3 DEF RefuseMessage, RefuseHandshake, Fail
    <3>2. KeysApart' /\ HandshakesApart' /\ PoolsShrink
      BY <3>1 DEF ReadInv, KeysApart, HandshakesApart, PoolsShrink
    <3> QED
      BY <3>1, <3>2, QuietReadInv
  <2> QED
    BY <1>5, <2>1, <2>2, <2>3 DEF Receive
<1>6. ASSUME NEW h \in handshakes, FinishHandshake(h) PROVE ReadInv'
  <2>1. CASE /\ CanDecrypt(Respond(h.msg.to, h.msg, h.opk), h.msg, nextKey)
             /\ Advance(h.msg.to, h.msg, Respond(h.msg.to, h.msg, h.opk))
    BY <1>6, <2>1, FinishReadInv
  <2>2. CASE Fail(h.msg)
    <3>1. /\ sessions' = sessions /\ nextKey' = nextKey /\ net' = net
          /\ opened' = opened /\ reopened' = reopened /\ handshakes' = handshakes \ {h}
          /\ oneTimePreKeys' = oneTimePreKeys /\ signedPreKeys' = signedPreKeys
          /\ directory' = directory /\ fetched' = fetched
      BY <1>6, <2>2 DEF FinishHandshake, Fail
    <3>2. KeysApart' /\ HandshakesApart' /\ PoolsShrink
      BY <3>1 DEF ReadInv, KeysApart, HandshakesApart, PoolsShrink
    <3> QED
      BY <3>1, <3>2, QuietReadInv
  <2> QED
    BY <1>6, <2>1, <2>2 DEF FinishHandshake
<1>7. ASSUME NEW d \in Device, Crash(d) PROVE ReadInv'
  <2>1. /\ sessions' = sessions /\ nextKey' = nextKey /\ net' = net
        /\ opened' = opened /\ reopened' = reopened /\ handshakes' \subseteq handshakes
        /\ oneTimePreKeys' = oneTimePreKeys /\ signedPreKeys' = signedPreKeys
        /\ directory' = directory /\ fetched' = fetched
    BY <1>7 DEF Crash, vault, history
  <2>2. KeysApart' /\ HandshakesApart' /\ PoolsShrink
    BY <2>1 DEF ReadInv, KeysApart, HandshakesApart, PoolsShrink
  <2> QED
    BY <2>1, <2>2, QuietReadInv
<1>8. CASE UNCHANGED vars
  <2>1. /\ sessions' = sessions /\ nextKey' = nextKey /\ net' = net
        /\ opened' = opened /\ reopened' = reopened /\ handshakes' = handshakes
        /\ oneTimePreKeys' = oneTimePreKeys /\ signedPreKeys' = signedPreKeys
        /\ directory' = directory /\ fetched' = fetched
    BY <1>8 DEF vars, vault, history
  <2>2. KeysApart' /\ HandshakesApart' /\ PoolsShrink
    BY <2>1 DEF ReadInv, KeysApart, HandshakesApart, PoolsShrink
  <2> QED
    BY <2>1, <2>2, QuietReadInv
<1> QED
  BY <1>1, <1>2, <1>3, <1>4, <1>5, <1>6, <1>7, <1>8 DEF Next

-----------------------------------------------------------------------------
(* What ReadInv gives                                                      *)

\* Messages of one root come from one device, for the root names the ratchet key.
LEMMA RootNamesSender ==
  ASSUME TypeOK, KeyInv, ReadInv, NEW m1 \in net, NEW m2 \in net,
         m1.key.root = m2.key.root
  PROVE  m1.header.dh = m2.header.dh /\ m1.from = m2.from
<1>1. PICK p1 \in 0..(m1.header.dh - 1) : LastTurn(m1.key) = Dh(m1.header.dh, p1)
  BY DEF KeyInv, MessageChains, MessageChain
<1>2. PICK p2 \in 0..(m2.header.dh - 1) : LastTurn(m2.key) = Dh(m2.header.dh, p2)
  BY DEF KeyInv, MessageChains, MessageChain
<1>3. m1.header.dh \in Nat /\ m2.header.dh \in Nat
  BY DEF TypeOK, Message, Header, Key
<1>4. {m1.header.dh, p1} = {m2.header.dh, p2}
  BY <1>1, <1>2 DEF Dh, LastTurn
<1>5. m1.header.dh = m2.header.dh
  BY <1>1, <1>2, <1>3, <1>4
<1> QED
  BY <1>5 DEF ReadInv, SendersNamed

\* A session that sends under the root of a message sends under its ratchet key,
\* and is ahead of it.
LEMMA SendingAhead ==
  ASSUME TypeOK, KeyInv, ReadInv, NEW d \in Device, NEW e \in Device, NEW m \in net,
         sessions[d][e].cks.root = m.key.root
  PROVE  m.from = d /\ m.key.step < sessions[d][e].cks.step
<1> DEFINE s == sessions[d][e]
<1>1. m.key.root.turns # <<>>
  BY DEF ReadInv, SecretsNamed, MessageSecret
<1>2. Sending(d, e)
  BY <1>1 DEF Sending, NoChain, FreshChain, NoRoot, FirstRoot
<1>3. /\ s.dhs \in Nat /\ s.dhr \in Nat
      /\ s.cks.step = s.ns /\ LastTurn(s.cks) = Dh(s.dhs, s.dhr) /\ s.dhr < s.dhs
  BY <1>2, SendingFacts
<1>4. PICK p \in 0..(m.header.dh - 1) : LastTurn(m.key) = Dh(m.header.dh, p)
  BY DEF KeyInv, MessageChains, MessageChain
<1>5. m.header.dh \in Nat
  BY DEF TypeOK, Message, Header, Key
<1>6. {s.dhs, s.dhr} = {m.header.dh, p}
  BY <1>3, <1>4 DEF Dh, LastTurn
<1> HIDE DEF s
<1>7. s.dhs = m.header.dh
  BY <1>3, <1>4, <1>5, <1>6
<1>8. m.header.n < s.ns /\ m.from = d
  BY <1>2, <1>7 DEF s, KeyInv, CountersAhead, ReadInv, SendersNamed
<1>9. m.key.step = m.header.n
  BY DEF KeyInv, MessageChains, MessageChain
<1> QED
  BY <1>3, <1>8, <1>9 DEF s

\* The session s receives, or has skipped keys, on a chain of root r.
ReceivesOn(s, r) ==
  \/ s.ckr # NoChain /\ r = s.ckr.root
  \/ \E i \in DOMAIN s.skipped : r = s.skipped[i].key.root

\* What a session received on has the root of a message that was read.
LEMMA ReceivedRoot ==
  ASSUME TypeOK, ReadInv, NEW d \in Device, NEW e \in Device, NEW r,
         ReceivesOn(sessions[d][e], r)
  PROVE  \E n \in net : n.to = d /\ n.from = e /\ n.key.root = r
<1>1. Exhausts(sessions[d][e], ReadKeys(d, e))
  BY DEF ReadInv, ReadKeysUsedUp
<1>2. r \in {k.root : k \in ReadKeys(d, e)}
  BY <1>1 DEF Exhausts, ExhaustsUpTo, ReceivesOn
<1>3. PICK n \in ReadFrom(d, e) : r = n.key.root
  BY <1>2 DEF ReadKeys
<1> QED
  BY <1>3 DEF ReadFrom, TypeOK

\* The chains and the skipped keys of a vault lead to no key of a message read,
\* nor of one sent.
LEMMA NothingDerivable == TypeOK /\ KeyInv /\ ReadInv => ForwardSecrecy
<1> SUFFICES ASSUME TypeOK, KeyInv, ReadInv PROVE ForwardSecrecy
  OBVIOUS
<1>1. \A m \in net : /\ m.from \in Device /\ m.to \in Device /\ m.from # m.to
                     /\ m.key \in ChainKey /\ m.key.step \in Nat
                     /\ m.key.root # NoRoot
  <2>1. \A m \in net : /\ m.from \in Device /\ m.to \in Device
                       /\ m.key \in ChainKey /\ m.key.step \in Nat
    BY DEF TypeOK, Message, ChainKey
  <2>2. \A m \in net : m.from # m.to /\ m.key.root # NoRoot
    BY DEF ReadInv, SecretsNamed, MessageSecret, NoRoot, FirstRoot
  <2> QED
    BY <2>1, <2>2
<1>2. NoChain.root = NoRoot
  BY DEF NoChain, FreshChain
<1>3. ASSUME NEW d \in Device, NEW e \in Device
      PROVE  sessions[d][e].ckr.step \in Nat /\ sessions[d][e].cks.step \in Nat
  <2>1. sessions[d][e] \in RatchetState
    BY DEF TypeOK
  <2> QED
    BY <2>1 DEF RatchetState, ChainKey
<1>4. ASSUME NEW m \in opened, Derivable(sessions[m.to][m.from], m.key) PROVE FALSE
  <2> DEFINE s == sessions[m.to][m.from]
  <2>1. m \in net /\ m.key \in ReadKeys(m.to, m.from)
    BY DEF TypeOK, ReadKeys, ReadFrom
  <2>2. Exhausts(s, ReadKeys(m.to, m.from))
    BY <1>1, <2>1 DEF ReadInv, ReadKeysUsedUp
  <2>3. Behind(m.key, s.ckr) /\ \A i \in DOMAIN s.skipped : s.skipped[i].key # m.key
    BY <2>1, <2>2 DEF Exhausts, ExhaustsUpTo
  <2>4. CASE s.ckr.root = m.key.root /\ s.ckr.step <= m.key.step
    <3>1. m.key.step < s.ckr.step
      BY <1>1, <1>2, <2>1, <2>3, <2>4 DEF Behind
    <3> QED
      BY <1>1, <1>3, <2>1, <2>4, <3>1
  <2>5. CASE s.cks.root = m.key.root
    BY <1>1, <2>1, <2>5, SendingAhead
  <2> QED
    BY <1>4, <2>3, <2>4, <2>5 DEF Derivable
<1>5. ASSUME NEW m \in net, Derivable(sessions[m.from][m.to], m.key) PROVE FALSE
  <2> DEFINE s == sessions[m.from][m.to]
  <2>0. m.from \in Device /\ m.to \in Device
    BY <1>1
  <2>1. ~ \E n \in net : n.to = m.from /\ n.from = m.to /\ n.key.root = m.key.root
    BY <1>1, RootNamesSender
  <2>2. CASE \E i \in DOMAIN s.skipped : s.skipped[i].key = m.key
    <3> DEFINE r == m.key.root
    <3>1. ReceivesOn(s, r)
      BY <2>2 DEF ReceivesOn
    <3> HIDE DEF r
    <3>2. \E n \in net : n.to = m.from /\ n.from = m.to /\ n.key.root = r
      BY <2>0, <3>1, ReceivedRoot
    <3> QED
      BY <2>1, <3>2 DEF r
  <2>3. CASE s.ckr.root = m.key.root
    <3> DEFINE r == m.key.root
    <3>1. ReceivesOn(s, r)
      BY <1>1, <1>2, <2>3 DEF ReceivesOn
    <3> HIDE DEF r
    <3>2. \E n \in net : n.to = m.from /\ n.from = m.to /\ n.key.root = r
      BY <2>0, <3>1, ReceivedRoot
    <3> QED
      BY <2>1, <3>2 DEF r
  <2>4. CASE s.cks.root = m.key.root /\ s.cks.step <= m.key.step
    <3>1. m.key.step < s.cks.step
      BY <1>1, <2>4, SendingAhead
    <3> QED
      BY <1>1, <1>3, <2>4, <3>1
  <2> QED
    BY <1>5, <2>2, <2>3, <2>4 DEF Derivable
<1> QED
  BY <1>4, <1>5 DEF ForwardSecrecy

\* While the server hands out one-time prekeys, ReadInv is an invariant.
THEOREM ReadKeysGone == Spec /\ []PoolLasts => []ReadInv
<1>1. Init => TypeOK /\ KeyInv /\ ReadInv
  BY InitTypeOK, InitKeyInv, InitReadInv
<1>2. TypeOK /\ KeyInv /\ ReadInv /\ PoolLasts /\ [Next]_vars => ReadInv'
  BY NextReadInv
<1> QED
  BY <1>1, <1>2, TypeCorrect, KeysOrdered, PTL DEF Spec

\* "Consume the key so the same message cannot be replayed": while the server
\* hands out one-time prekeys, however often it also hands over a message, its
\* plaintext is returned once.
THEOREM NothingReadTwice == Spec /\ []PoolLasts => []OpenedOnce
<1>1. ReadInv => OpenedOnce
  BY DEF ReadInv
<1> QED
  BY <1>1, ReadKeysGone, PTL

\* While the server hands out one-time prekeys, no vault yields the key of a
\* message its device has read or sent.
THEOREM PastKeysGone == Spec /\ []PoolLasts => []ForwardSecrecy
<1> QED
  BY NothingDerivable, TypeCorrect, KeysOrdered, ReadKeysGone, PTL

\* Every step of the sessions is one of the channel, or none: a ciphertext that
\* leaves writes a message, a plaintext handed back reads one that was written
\* and had not been read.
LEMMA StepOfChannel ==
  ASSUME TypeOK, KeyInv, ReadInv, ReadInv', [Next]_vars
  PROVE  [Channel!Next]_(Channel!vars)
<1>1. reopened = {} /\ reopened' = {}
  BY DEF ReadInv, OpenedOnce
<1> DEFINE read == (opened \X {1}) \cup (reopened \X {2})
<1>2. read = opened \X {1} /\ read' = opened' \X {1}
  BY <1>1
<1> HIDE DEF read
<1>3. CASE opened' = opened /\ net \subseteq net'
  <2>1. read' = read
    BY <1>2, <1>3
  <2> QED
    BY <1>3, <2>1 DEF read, Channel!Next, Channel!Write, Channel!vars
<1>4. ASSUME NEW m \in net, m \notin opened, opened' = opened \cup {m}, net' = net
      PROVE  [Channel!Next]_(Channel!vars)
  <2>1. read' = read \cup {<<m, 1>>} /\ <<m, 1>> \notin read
    BY <1>2, <1>4
  <2>2. Channel!Read
    BY <1>4, <2>1 DEF Channel!Read, Channel!Unread, read
  <2> QED
    BY <2>2 DEF Channel!Next
<1>5. ASSUME NEW m \in net, Receive(m.to, m) PROVE [Channel!Next]_(Channel!vars)
  <2>1. CASE ReceiveOnSession(m.to, m)
    <3>1. m \notin opened
      BY <2>1, ReceiveReadInv
    <3> QED
      BY <1>4, <2>1, <3>1 DEF ReceiveOnSession, Advance
  <2>2. CASE ~ReceiveOnSession(m.to, m)
    BY <1>3, <1>5, <2>2 DEF Receive, RefuseMessage, BeginHandshake, RefuseHandshake, Fail, history
  <2> QED
    BY <2>1, <2>2
<1>6. ASSUME NEW h \in handshakes, FinishHandshake(h) PROVE [Channel!Next]_(Channel!vars)
  <2>1. h.msg \in net
    BY DEF TypeOK
  <2>2. CASE /\ CanDecrypt(Respond(h.msg.to, h.msg, h.opk), h.msg, nextKey)
             /\ Advance(h.msg.to, h.msg, Respond(h.msg.to, h.msg, h.opk))
    <3>1. h.msg \notin opened
      BY <1>6, <2>2, FinishReadInv
    <3>2. opened' = opened \cup {h.msg} /\ net' = net
      BY <1>6, <2>2 DEF FinishHandshake, Advance
    <3> QED
      BY <1>4, <2>1, <3>1, <3>2
  <2>3. CASE Fail(h.msg)
    BY <1>3, <1>6, <2>3 DEF FinishHandshake, Fail
  <2> QED
    BY <1>6, <2>2, <2>3 DEF FinishHandshake
<1>7. ASSUME NEW d \in Device, NEW b \in fetched[d], EncryptTo(d, b)
      PROVE  opened' = opened /\ net \subseteq net'
  BY <1>7 DEF EncryptTo, history
<1>8. ASSUME NEW d \in Device,
             \/ RotateSignedPreKey(d) \/ PublishSignedPreKey(d) \/ Crash(d)
             \/ \E e \in Device : FetchBundle(d, e)
      PROVE  opened' = opened /\ net \subseteq net'
  BY <1>8 DEF RotateSignedPreKey, PublishSignedPreKey, Crash, FetchBundle, history
<1>9. CASE UNCHANGED vars
  BY <1>3, <1>9 DEF vars, history
<1> QED
  BY <1>3, <1>5, <1>6, <1>7, <1>8, <1>9 DEF Next

\* The safety of SecureChannel, step by step: while the server hands out one-time
\* prekeys, only what was written is read, and nothing twice.
THEOREM ChannelSafe ==
  Spec /\ []PoolLasts => Channel!Init /\ [][Channel!Next]_(Channel!vars)
<1>1. Init => Channel!Init
  BY DEF Init, Channel!Init
<1>2. TypeOK /\ KeyInv /\ ReadInv /\ ReadInv' /\ [Next]_vars
        => [Channel!Next]_(Channel!vars)
  BY StepOfChannel
<1> QED
  BY <1>1, <1>2, TypeCorrect, KeysOrdered, ReadKeysGone, PTL DEF Spec

-----------------------------------------------------------------------------
(* The X3DH fields stay until the answer                                   *)

\* A step that saves no session and reads nothing keeps FieldsInv, if it answers
\* prekey messages only and claims no bundle of one's own.
LEMMA QuietFieldsInv ==
  ASSUME FieldsInv, sessions' = sessions, net' = net, opened' = opened,
         nextKey' # NoKey,
         \A d \in Device : \A b \in fetched'[d] : b.owner # d,
         \A h \in handshakes' : h.msg.prekey # NoPreKey
  PROVE  FieldsInv'
<1>1. FieldsShown'
  BY DEF FieldsInv, FieldsShown
<1>2. FieldsKept'
  BY DEF FieldsInv, FieldsKept, Answered, HasSession
<1> QED
  BY <1>1, <1>2 DEF FieldsInv

\* Reading with the stored session, or with the one that answers a handshake.
LEMMA AdvanceFieldsInv ==
  ASSUME TypeOK, FieldsInv, NEW m \in net, NEW s \in BoundedState,
         Advance(m.to, m, s), net' = net, fetched' = fetched, handshakes' \subseteq handshakes,
         s.pendingPreKey \in {sessions[m.to][m.from].pendingPreKey, NoPreKey},
         \/ s = sessions[m.to][m.from] /\ HasSession(m.to, m.from)
         \/ m.prekey # NoPreKey
  PROVE  FieldsInv'
<1> DEFINE d == m.to
           e == m.from
           t == AfterDecrypt(s, m, nextKey)
<1>1. /\ m \in Message /\ d \in Device /\ e \in Device /\ m.header \in Header
      /\ nextKey \in Nat /\ nextKey \in Key
  BY DEF TypeOK, Message, Key
<1>2. t \in BoundedState /\ t.pendingPreKey \in {s.pendingPreKey, NoPreKey}
  BY <1>1, AfterDecryptType
<1>3. /\ sessions' = [sessions EXCEPT ![d][e] = t]
      /\ nextKey' \in {nextKey, nextKey + 1}
      /\ opened' = opened \cup {m}
  BY DEF Advance, Saved
<1> HIDE DEF t
<1>4. \A f, g \in Device :
        sessions'[f][g] = IF f = d /\ g = e THEN t ELSE sessions[f][g]
  <2>1. /\ d \in Device /\ e \in Device /\ t \in BoundedState
        /\ sessions' = [sessions EXCEPT ![d][e] = t]
    BY <1>1, <1>2, <1>3
  <2>2. sessions \in [Device -> [Device -> RatchetState]]
    BY DEF TypeOK
  <2> HIDE DEF d, e
  <2> QED
    BY <2>1, <2>2
<1>5. FieldsShown'
  <2>1. nextKey' # NoKey
    BY <1>1, <1>3 DEF FieldsInv, FieldsShown, NoKey
  <2>2. ASSUME NEW f \in Device \ Initiators, NEW g \in Device
        PROVE  sessions'[f][g].pendingPreKey = NoPreKey
    <3>1. sessions[f][g].pendingPreKey = NoPreKey
      BY DEF FieldsInv, FieldsShown
    <3>2. CASE f = d /\ g = e
      BY <1>2, <1>4, <3>1, <3>2
    <3>3. CASE ~(f = d /\ g = e)
      BY <1>4, <3>1, <3>3
    <3> QED
      BY <3>2, <3>3
  <2> QED
    BY <2>1, <2>2 DEF FieldsInv, FieldsShown
<1>6. FieldsKept'
  <2> SUFFICES ASSUME NEW f \in Device, NEW g \in Device \ Initiators, ~Answered(f, g)'
               PROVE  /\ sessions'[g][f] = NoSession
                      /\ sessions'[f][g] # NoSession => sessions'[f][g].pendingPreKey # NoPreKey
                      /\ \A n \in net : /\ n.from = f /\ n.to = g => n.prekey # NoPreKey
                                        /\ ~(n.from = g /\ n.to = f)
    BY DEF FieldsKept, HasSession
  <2>1. ~Answered(f, g)
    BY <1>3 DEF Answered
  <2>2. /\ sessions[g][f] = NoSession
        /\ sessions[f][g] # NoSession => sessions[f][g].pendingPreKey # NoPreKey
        /\ \A n \in net : /\ n.from = f /\ n.to = g => n.prekey # NoPreKey
                          /\ ~(n.from = g /\ n.to = f)
    BY <2>1 DEF FieldsInv, FieldsKept, HasSession
  <2>3. ~(f = e /\ g = d)
    \* It would have read f's prekey message, or have had a session before.
    <3>1. ASSUME f = e, g = d PROVE FALSE
      <4>1. CASE m.prekey # NoPreKey
        BY <1>3, <3>1, <4>1 DEF Answered
      <4>2. CASE HasSession(d, e)
        BY <2>2, <3>1, <4>2 DEF HasSession
      <4> QED
        BY <4>1, <4>2
    <3> QED
      BY <3>1
  <2>4. ~(f = d /\ g = e)
    \* f has been sent nothing by g.
    BY <2>2
  <2> QED
    BY <1>4, <2>2, <2>3, <2>4
<1> QED
  BY <1>5, <1>6 DEF FieldsInv

\* Sending, with the stored session or with one that shows its fields.
LEMMA EncryptFieldsInv ==
  ASSUME TypeOK, FieldsInv, NEW d \in Device, NEW b \in fetched[d], EncryptTo(d, b)
  PROVE  FieldsInv'
<1> DEFINE e == b.owner
           s == Outbound(d, b)
           t == AfterEncrypt(s)
           m == [from |-> d, to |-> e, body |-> sent[d], header |-> Seal(s).header,
                 key |-> Seal(s).key, associatedData |-> Seal(s).associatedData,
                 prekey |-> Seal(s).prekey]
<1>1. /\ b \in Bundle /\ e \in Device /\ e # d
      /\ nextKey \in Nat /\ nextKey \in Key /\ nextKey + 1 \in Key
  <2>1. b \in Bundle /\ nextKey \in Key /\ b.owner # d
    BY DEF TypeOK, FieldsInv, FieldsShown
  <2> QED
    BY <2>1 DEF Bundle, Key
<1>2. /\ HasSession(d, e) \/ d \in Initiators
      /\ sessions' = [sessions EXCEPT ![d][e] = t]
      /\ net' = net \cup {m}
      /\ nextKey' \in {nextKey, nextKey + 2}
      /\ fetched' = [fetched EXCEPT ![d] = fetched[d] \ {b}]
      /\ handshakes' = handshakes /\ opened' = opened
  BY DEF EncryptTo, Saved, history
<1>3. HasSession(d, e) => s = sessions[d][e]
  BY DEF Outbound
<1>4. ~HasSession(d, e) => s.pendingPreKey # NoPreKey
  <2> SUFFICES ASSUME ~HasSession(d, e) PROVE s.pendingPreKey # NoPreKey
    OBVIOUS
  <2>1. s = Initiate(d, b, nextKey, nextKey + 1)
    BY DEF Outbound
  <2>2. s.pendingPreKey = [ek |-> nextKey, spk |-> b.spk, opk |-> b.opk]
    BY <2>1 DEF Initiate, InitSender
  <2>3. nextKey # NoKey
    BY DEF FieldsInv, FieldsShown
  <2> HIDE DEF s
  <2> QED
    BY <2>2, <2>3 DEF NoPreKey
<1>5. s \in BoundedState
  BY <1>1, StoredType, InitiateType DEF Outbound
<1>6. t \in BoundedState /\ t.pendingPreKey = s.pendingPreKey
  <2>1. AfterEncrypt(s) \in BoundedState
    BY <1>5, AfterEncryptType
  <2>2. AfterEncrypt(s).pendingPreKey = s.pendingPreKey
    BY <1>5, AfterEncryptKeeps
  <2> QED
    BY <2>1, <2>2
<1>7. m.from = d /\ m.to = e /\ m.prekey = s.pendingPreKey
  BY DEF Seal
<1> HIDE DEF s, t, m
<1>8. \A f, g \in Device :
        sessions'[f][g] = IF f = d /\ g = e THEN t ELSE sessions[f][g]
  <2>1. sessions \in [Device -> [Device -> RatchetState]]
    BY DEF TypeOK
  <2> HIDE DEF e
  <2> QED
    BY <1>1, <1>2, <2>1
<1>9. d \notin Initiators => s.pendingPreKey = NoPreKey
  BY <1>1, <1>2, <1>3 DEF FieldsInv, FieldsShown
<1>10. FieldsShown'
  <2>1. nextKey' # NoKey
    BY <1>1, <1>2 DEF FieldsInv, FieldsShown, NoKey
  <2>2. ASSUME NEW f \in Device, NEW c \in fetched'[f] PROVE c.owner # f
    <3>1. c \in fetched[f]
      BY <1>2, <2>2 DEF TypeOK
    <3> QED
      BY <3>1 DEF FieldsInv, FieldsShown
  <2>3. ASSUME NEW n \in net' PROVE n.from # n.to /\ (n.prekey # NoPreKey => n.from \in Initiators)
    <3>1. CASE n = m
      BY <1>1, <1>7, <1>9, <3>1
    <3>2. CASE n \in net
      BY <3>2 DEF FieldsInv, FieldsShown
    <3> QED
      BY <1>2, <3>1, <3>2
  <2>4. ASSUME NEW f \in Device \ Initiators, NEW g \in Device
        PROVE  sessions'[f][g].pendingPreKey = NoPreKey
    <3>1. CASE f = d /\ g = e
      BY <1>6, <1>8, <1>9, <3>1
    <3>2. CASE ~(f = d /\ g = e)
      BY <1>8, <3>2 DEF FieldsInv, FieldsShown
    <3> QED
      BY <3>1, <3>2
  <2>5. \A h \in handshakes' : h.msg.prekey # NoPreKey
    BY <1>2 DEF FieldsInv, FieldsShown
  <2> QED
    BY <2>1, <2>2, <2>3, <2>4, <2>5 DEF FieldsShown
<1>11. FieldsKept'
  <2> SUFFICES ASSUME NEW f \in Device, NEW g \in Device \ Initiators, ~Answered(f, g)'
               PROVE  /\ sessions'[g][f] = NoSession
                      /\ sessions'[f][g] # NoSession => sessions'[f][g].pendingPreKey # NoPreKey
                      /\ \A n \in net' : /\ n.from = f /\ n.to = g => n.prekey # NoPreKey
                                         /\ ~(n.from = g /\ n.to = f)
    BY DEF FieldsKept, HasSession
  <2>1. ~Answered(f, g)
    BY <1>2 DEF Answered
  <2>2. /\ sessions[g][f] = NoSession
        /\ sessions[f][g] # NoSession => sessions[f][g].pendingPreKey # NoPreKey
        /\ \A n \in net : /\ n.from = f /\ n.to = g => n.prekey # NoPreKey
                          /\ ~(n.from = g /\ n.to = f)
    BY <2>1 DEF FieldsInv, FieldsKept, HasSession
  <2>3. ~(f = e /\ g = d)
    \* g has no session to answer with.
    BY <1>2, <2>2 DEF HasSession
  <2>4. f = d /\ g = e => s.pendingPreKey # NoPreKey
    BY <1>3, <1>4, <2>2 DEF HasSession
  <2>5. sessions'[f][g] # NoSession => sessions'[f][g].pendingPreKey # NoPreKey
    BY <1>6, <1>8, <2>2, <2>4
  <2>6. sessions'[g][f] = NoSession
    BY <1>8, <2>2, <2>3
  <2>7. ASSUME NEW n \in net'
        PROVE  /\ n.from = f /\ n.to = g => n.prekey # NoPreKey
               /\ ~(n.from = g /\ n.to = f)
    <3>1. CASE n = m
      BY <1>7, <2>3, <2>4, <3>1
    <3>2. CASE n \in net
      BY <2>2, <3>2
    <3> QED
      BY <1>2, <3>1, <3>2
  <2> QED
    BY <2>5, <2>6, <2>7
<1> QED
  BY <1>10, <1>11 DEF FieldsInv

\* Every step keeps FieldsInv.
LEMMA NextFieldsInv == TypeOK /\ FieldsInv /\ [Next]_vars => FieldsInv'
<1> SUFFICES ASSUME TypeOK, FieldsInv, [Next]_vars PROVE FieldsInv'
  OBVIOUS
<1>0. /\ nextKey \in Nat /\ nextKey # NoKey
      /\ \A d \in Device : \A b \in fetched[d] : b.owner # d
      /\ \A h \in handshakes : h.msg.prekey # NoPreKey
  BY DEF TypeOK, Key, FieldsInv, FieldsShown
<1>1. ASSUME NEW d \in Device, RotateSignedPreKey(d) PROVE FieldsInv'
  <2>1. nextKey' # NoKey
    BY <1>0, <1>1 DEF RotateSignedPreKey, NoKey
  <2> QED
    BY <1>0, <1>1, <2>1, QuietFieldsInv DEF RotateSignedPreKey, history
<1>2. ASSUME NEW d \in Device, PublishSignedPreKey(d) PROVE FieldsInv'
  BY <1>0, <1>2, QuietFieldsInv DEF PublishSignedPreKey, vault, history
<1>3. ASSUME NEW d \in Device, NEW e \in Device, FetchBundle(d, e) PROVE FieldsInv'
  <2>1. d # e /\ fetched' = [fetched EXCEPT ![d] = fetched[d] \cup {BundleOf(e)}]
    BY <1>3 DEF FetchBundle
  <2>2. BundleOf(e).owner = e
    BY DEF BundleOf
  <2>3. ASSUME NEW f \in Device, NEW b \in fetched'[f] PROVE b.owner # f
    <3>1. b \in fetched[f] \/ (f = d /\ b = BundleOf(e))
      BY <2>1, <2>3 DEF TypeOK
    <3> QED
      BY <1>0, <2>1, <2>2, <3>1
  <2> QED
    BY <1>0, <1>3, <2>3, QuietFieldsInv DEF FetchBundle, vault, history
<1>4. ASSUME NEW d \in Device, NEW b \in fetched[d], EncryptTo(d, b) PROVE FieldsInv'
  BY <1>4, EncryptFieldsInv
<1>5. ASSUME NEW m \in net, Receive(m.to, m) PROVE FieldsInv'
  <2>1. m \in Message /\ m.from \in Device /\ m.to \in Device
    BY DEF TypeOK, Message
  <2>2. CASE ReceiveOnSession(m.to, m)
    <3>1. sessions[m.to][m.from] \in BoundedState
      BY <2>1, StoredType
    <3> QED
      BY <2>2, <3>1, AdvanceFieldsInv DEF ReceiveOnSession, Readable
  <2>3. CASE RefuseMessage(m.to, m) \/ RefuseHandshake(m.to, m)
    BY <1>0, <2>3, QuietFieldsInv DEF RefuseMessage, RefuseHandshake, Fail
  <2>4. CASE BeginHandshake(m.to, m)
    <3>1. \A h \in handshakes' : h.msg.prekey # NoPreKey
      BY <1>0, <2>4 DEF BeginHandshake
    <3> QED
      BY <1>0, <2>4, <3>1, QuietFieldsInv DEF BeginHandshake, history
  <2> QED
    BY <1>5, <2>2, <2>3, <2>4 DEF Receive
<1>6. ASSUME NEW h \in handshakes, FinishHandshake(h) PROVE FieldsInv'
  <2> DEFINE s == Respond(h.msg.to, h.msg, h.opk)
  <2>1. h.msg \in net /\ h.msg \in Message /\ h.msg.to \in Device /\ h.opk \in Key
    BY DEF TypeOK, Handshake, Message
  <2>2. s \in BoundedState /\ s.pendingPreKey = NoPreKey
    BY <2>1, RespondType DEF Respond, InitReceiver
  <2>3. handshakes' \subseteq handshakes /\ net' = net /\ fetched' = fetched
    BY <1>6 DEF FinishHandshake
  <2>4. CASE Advance(h.msg.to, h.msg, s)
    <3> HIDE DEF s
    <3> QED
      BY <1>0, <2>1, <2>2, <2>3, <2>4, AdvanceFieldsInv
  <2>5. CASE Fail(h.msg)
    BY <1>0, <2>3, <2>5, QuietFieldsInv DEF Fail
  <2> QED
    BY <1>6, <2>4, <2>5 DEF FinishHandshake
<1>7. ASSUME NEW d \in Device, Crash(d) PROVE FieldsInv'
  BY <1>0, <1>7, QuietFieldsInv DEF Crash, vault, history
<1>8. CASE UNCHANGED vars
  BY <1>0, <1>8, QuietFieldsInv DEF vars, vault, history
<1> QED
  BY <1>1, <1>2, <1>3, <1>4, <1>5, <1>6, <1>7, <1>8 DEF Next

\* At first nothing is shown.
LEMMA InitFieldsInv == Init => FieldsInv
<1>1. NoSession.pendingPreKey = NoPreKey
  BY DEF NoSession, InitReceiver
<1>2. ASSUME Init PROVE FieldsInv
  <2>1. \A d, e \in Device : sessions[d][e] = NoSession
    BY <1>2 DEF Init
  <2>2. net = {} /\ handshakes = {} /\ \A d \in Device : fetched[d] = {}
    BY <1>2 DEF Init
  <2>3. nextKey # NoKey
    BY <1>2, KeysNumbered DEF Init
  <2> QED
    BY <1>1, <2>1, <2>2, <2>3 DEF FieldsInv, FieldsShown, FieldsKept, HasSession
<1> QED
  BY <1>2

\* X3DH fields are shown by the devices that start conversations, and by those until
\* the other has read them, through replays and crashes.
THEOREM FieldsAccounted == Spec => []FieldsInv
  BY InitFieldsInv, NextFieldsInv, TypeCorrect, PTL DEF Spec

\* docs/CRYPTO.md: "A prekey message repeats the X3DH fields on every send until
\* the peer replies" holds for any number of devices of which one writes to the
\* others first, through replays and crashes.
THEOREM FieldsStay == ASSUME OneStarts PROVE Spec => []FieldsUntilReply
<1>1. FieldsInv /\ TypeOK => FieldsUntilReply
  <2> SUFFICES ASSUME FieldsInv, TypeOK, NEW m \in net, m.prekey = NoPreKey,
                      NEW p \in net, p.from = m.from, p.to = m.to, p.prekey # NoPreKey
               PROVE  Answered(m.from, m.to)
    BY DEF FieldsUntilReply, Answered
  <2>1. m.from \in Device /\ m.to \in Device
    BY DEF TypeOK, Message
  <2>2. m.from \in Initiators /\ m.from # m.to
    BY DEF FieldsInv, FieldsShown
  <2>3. m.to \notin Initiators
    BY <2>2 DEF OneStarts
  <2> QED
    BY <2>1, <2>3 DEF FieldsInv, FieldsKept
<1> QED
  BY <1>1, FieldsAccounted, TypeCorrect, PTL

-----------------------------------------------------------------------------
(* Everything unread stays readable                                        *)

\* Messages whose keys and headers name one another.
WellNamed(messages) ==
  /\ \A m \in messages : m \in Message /\ m.key.step = m.header.n
  /\ \A m1, m2 \in messages :
       m1.header.dh = m2.header.dh /\ m1.header.n = m2.header.n => m1 = m2

\* What the messages and the entries for them are made of.
LEMMA MessageFacts ==
  ASSUME NEW m \in Message
  PROVE  /\ m.header \in Header /\ m.key \in ChainKey
         /\ m.header.dh \in Key /\ m.header.n \in Nat /\ m.header.pn \in Nat
         /\ m.key.root \in RootKey /\ m.key.step \in Nat
         /\ EntryFor(m).dh = m.header.dh /\ EntryFor(m).n = m.header.n
         /\ EntryFor(m).key = m.key
BY DEF Message, Header, ChainKey, EntryFor

\* A state's fields, each in its type.
LEMMA StateFields ==
  ASSUME NEW s \in BoundedState
  PROVE  /\ s \in RatchetState /\ s.rk \in RootKey /\ s.dhs \in Key /\ s.dhr \in Key
         /\ s.cks \in ChainKey /\ s.ckr \in ChainKey
         /\ s.ns \in Nat /\ s.nr \in Nat /\ s.pn \in Nat
         /\ s.skipped \in Seq(SkippedKey) /\ Len(s.skipped) \in Nat
         /\ DOMAIN s.skipped = 1..Len(s.skipped)
         /\ Len(s.skipped) <= MaxSkippedKeys
         /\ s.ckr.step \in Nat /\ s.cks.step \in Nat
         /\ s.ckr.root \in RootKey /\ s.cks.root \in RootKey
<1>1. s \in RatchetState /\ Len(s.skipped) <= MaxSkippedKeys
  BY DEF BoundedState
<1>2. s.skipped \in Seq(SkippedKey) /\ s.ckr \in ChainKey /\ s.cks \in ChainKey
  BY <1>1 DEF RatchetState
<1>3. Len(s.skipped) \in Nat /\ DOMAIN s.skipped = 1..Len(s.skipped)
  BY <1>2, LenProperties
<1>4. /\ s.ckr.step \in Nat /\ s.cks.step \in Nat
      /\ s.ckr.root \in RootKey /\ s.cks.root \in RootKey
  BY <1>2 DEF ChainKey
<1> QED
  BY <1>1, <1>2, <1>3, <1>4 DEF RatchetState

\* Two keys of one chain at one step are the same.
LEMMA ChainKeyEqual ==
  ASSUME NEW c \in ChainKey, NEW k \in ChainKey, c.root = k.root, c.step = k.step
  PROVE  c = k
BY DEF ChainKey

\* While there is room, skipMessageKeys adds the keys it passes to those it has.
LEMMA SkipStores ==
  ASSUME NEW s \in BoundedState, NEW until \in Nat, s.ckr # NoChain, s.nr <= until,
         Len(s.skipped) + (until - s.nr) <= MaxSkippedKeys
  PROVE  LET t == SkipMessageKeys(s, until)
             gap == until - s.nr
         IN  /\ t.nr = until /\ t.ckr = KdfChainKey(s.ckr, gap) /\ t.pn = s.pn
             /\ Len(t.skipped) = Len(s.skipped) + gap
             /\ \A i \in 1..Len(s.skipped) : t.skipped[i] = s.skipped[i]
             /\ \A k \in 1..gap :
                  t.skipped[Len(s.skipped) + k] =
                    [dh |-> s.dhr, n |-> s.nr + k - 1, key |-> KdfChainKey(s.ckr, k - 1)]
<1> DEFINE gap == until - s.nr
           wide == IF until > s.nr THEN until - s.nr ELSE 0
           entry(i) == [dh |-> s.dhr, n |-> s.nr + i - 1, key |-> KdfChainKey(s.ckr, i - 1)]
           passed == [i \in 1..gap |-> entry(i)]
           all == s.skipped \o passed
           t == SkipMessageKeys(s, until)
           old == Len(s.skipped)
<1>1. /\ s.ckr \in ChainKey /\ s.nr \in Nat /\ s.dhr \in Key
      /\ s.skipped \in Seq(SkippedKey) /\ s \in RatchetState /\ old \in Nat
  BY StateFields
<1>2. gap \in Nat /\ wide = gap
  BY <1>1
<1>3. \A k \in Nat : KdfChainKey(s.ckr, k) \in ChainKey
  BY <1>1, ChainKeysDiffer
<1>4. passed \in Seq(SkippedKey) /\ Len(passed) = gap
  <2>1. \A i \in 1..gap : entry(i) \in SkippedKey
    <3> SUFFICES ASSUME NEW i \in 1..gap PROVE entry(i) \in SkippedKey
      OBVIOUS
    <3>1. i - 1 \in Nat /\ s.nr + i - 1 \in Nat
      BY <1>1, <1>2
    <3> QED
      BY <1>1, <1>3, <3>1 DEF SkippedKey
  <2>2. DOMAIN passed = 1..gap
    OBVIOUS
  <2> HIDE DEF entry, gap
  <2>3. passed \in Seq(SkippedKey)
    BY <1>2, <2>1, IsASeq
  <2> QED
    BY <1>2, <2>2, <2>3, LenProperties
<1>5. \A i \in 1..gap : passed[i] = entry(i)
  OBVIOUS
<1>6. t = [s EXCEPT !.skipped = Newest(all), !.ckr = KdfChainKey(s.ckr, wide), !.nr = until]
  <2>1. passed = [i \in 1..wide |-> entry(i)]
    BY <1>2
  <2> QED
    BY <1>1, <2>1 DEF SkipMessageKeys, RatchetState
<1> HIDE DEF passed, gap, entry, wide
<1>7. /\ all \in Seq(SkippedKey) /\ Len(all) = old + gap
      /\ \A i \in 1..(old + gap) : all[i] = IF i <= old THEN s.skipped[i] ELSE passed[i - old]
  BY <1>1, <1>4, ConcatProperties
<1>8. ~(Len(all) > MaxSkippedKeys)
  BY <1>1, <1>2, <1>7, RatchetLimits DEF gap
<1> HIDE DEF all, t, old
<1>9. Newest(all) = all
  BY <1>8 DEF Newest
<1>10. /\ t.skipped = all /\ t.ckr = KdfChainKey(s.ckr, gap) /\ t.nr = until /\ t.pn = s.pn
  BY <1>1, <1>2, <1>6, <1>9 DEF RatchetState
<1>11. \A i \in 1..old : t.skipped[i] = s.skipped[i]
  <2>1. \A i \in 1..old : i \in 1..(old + gap) /\ i <= old
    BY <1>1, <1>2 DEF old
  <2> QED
    BY <1>7, <1>10, <2>1
<1>12. \A k \in 1..gap : t.skipped[old + k] = entry(k)
  <2>1. \A k \in 1..gap : old + k \in 1..(old + gap) /\ ~(old + k <= old) /\ (old + k) - old = k
    BY <1>1, <1>2 DEF old
  <2> QED
    BY <1>5, <1>7, <1>10, <2>1
<1> QED
  BY <1>7, <1>10, <1>11, <1>12 DEF t, gap, old, entry

\* The chain of r has been run forward to `until`, and v keeps up as r does.
RunsTo(r, v, until, messages, unread, length, budget) ==
  /\ v.nr = until /\ v.ckr.root = r.ckr.root /\ v.pn = r.pn
  /\ KeepsUp(v, messages, unread, length, budget)

\* Running the chain forward, no further than it was sent, stores what it passes.
LEMMA SkipKeepsUp ==
  ASSUME NEW r \in BoundedState, NEW messages, WellNamed(messages), NEW unread,
         NEW length \in Nat, NEW budget \in Int, KeepsUp(r, messages, unread, length, budget),
         NEW until \in Nat, r.nr <= until, until <= length,
         Len(r.skipped) + (until - r.nr) <= MaxSkippedKeys,
         NEW v, v = SkipMessageKeys(r, until)
  PROVE  RunsTo(r, v, until, messages, unread, length, budget)
<1>1. CASE r.ckr = NoChain
  <2>1. v = r
    BY <1>1 DEF SkipMessageKeys
  <2>2. length = 0
    BY <1>1 DEF KeepsUp
  <2>3. r.nr \in Nat
    BY StateFields
  <2>4. r.nr = until
    BY <2>2, <2>3
  <2> QED
    BY <2>1, <2>4 DEF RunsTo
<1>2. CASE r.ckr # NoChain
  <2> DEFINE gap == until - r.nr
             old == Len(r.skipped)
  <2>1. /\ r.nr \in Nat /\ old \in Nat /\ gap \in Nat /\ r.ckr \in ChainKey
        /\ r.ckr.step \in Nat /\ DOMAIN r.skipped = 1..old
    BY StateFields
  <2>2. /\ v.nr = until /\ v.ckr = KdfChainKey(r.ckr, gap) /\ v.pn = r.pn
        /\ Len(v.skipped) = old + gap
        /\ \A i \in 1..old : v.skipped[i] = r.skipped[i]
        /\ \A k \in 1..gap :
             v.skipped[old + k] =
               [dh |-> r.dhr, n |-> r.nr + k - 1, key |-> KdfChainKey(r.ckr, k - 1)]
    BY <1>2, SkipStores
  <2>3. v \in BoundedState /\ v.dhr = r.dhr
    BY SkipMessageKeysType
  <2>4. DOMAIN v.skipped = 1..(old + gap)
    BY <2>2, <2>3, StateFields
  <2>5. /\ SealedOn(messages, r.dhr, r.ckr.root, length)
        /\ r.ckr.step = r.nr
        /\ \A i \in DOMAIN r.skipped : \E m \in messages : r.skipped[i] = EntryFor(m)
        /\ \A m \in messages \cap unread : Stored(r, m) \/ Awaited(r, m)
        /\ old + (length - r.nr) <= budget
    BY DEF KeepsUp
  <2> HIDE DEF gap, old
  <2>6. v.ckr.root = r.ckr.root /\ v.ckr.step = until
    <3>1. v.ckr = KdfChainKey(r.ckr, gap) /\ gap \in Nat /\ r.ckr \in ChainKey
      BY <2>1, <2>2
    <3>2. v.ckr.root = r.ckr.root /\ v.ckr.step = r.ckr.step + gap
      BY <3>1, ChainKeysDiffer
    <3>3. r.ckr.step = r.nr /\ r.nr \in Nat /\ r.nr + gap = until
      BY <2>1, <2>5 DEF gap
    <3> QED
      BY <3>2, <3>3
  <2>7. v.ckr # NoChain
    <3> SUFFICES ASSUME v.ckr = NoChain PROVE FALSE
      OBVIOUS
    <3>1. r.ckr.root = NoChain.root /\ until = NoChain.step
      BY <2>6
    <3>2. NoChain.step = 0 /\ NoChain \in ChainKey
      BY DEF NoChain, FreshChain, NoRoot, FirstRoot, ChainKey, RootKey
    <3>3. r.ckr.step = NoChain.step
      BY <2>1, <2>5, <3>1, <3>2
    <3> QED
      BY <1>2, <2>1, <3>1, <3>2, <3>3, ChainKeyEqual
  <2>8. \* What is passed was sent.
        ASSUME NEW k \in 1..gap, NEW i, i = old + k, NEW m \in messages,
               m.header.dh = r.dhr, m.header.n = r.nr + k - 1
        PROVE  v.skipped[i] = EntryFor(m)
    <3>1. m \in Message /\ m.key.step = m.header.n
      BY DEF WellNamed
    <3>2. m.key.root = r.ckr.root /\ m.key \in ChainKey
      BY <2>5, <2>8, <3>1, MessageFacts DEF SealedOn
    <3>3. k - 1 \in Nat
      BY <2>1
    <3>4. /\ KdfChainKey(r.ckr, k - 1) \in ChainKey
          /\ KdfChainKey(r.ckr, k - 1).root = r.ckr.root
          /\ KdfChainKey(r.ckr, k - 1).step = r.ckr.step + (k - 1)
      BY <2>1, <3>3, ChainKeysDiffer
    <3>5. r.ckr.step + (k - 1) = r.nr + k - 1
      BY <2>1, <2>5
    <3>6. KdfChainKey(r.ckr, k - 1) = m.key
      BY <2>8, <3>1, <3>2, <3>4, <3>5, ChainKeyEqual
    <3> QED
      BY <2>2, <2>8, <3>6 DEF EntryFor
  <2>9. ASSUME NEW i \in DOMAIN v.skipped PROVE \E m \in messages : v.skipped[i] = EntryFor(m)
    <3>1. CASE i \in 1..old
      BY <2>1, <2>2, <2>5, <3>1
    <3>2. CASE i \notin 1..old
      <4> DEFINE k == i - old
                 nr == r.nr
      <4>1. i \in 1..(old + gap) /\ gap = until - nr /\ old \in Nat /\ gap \in Nat /\ nr \in Nat
        BY <2>1, <2>4 DEF gap
      <4> HIDE DEF nr
      <4>2. k \in 1..gap /\ i = old + k
        BY <3>2, <4>1
      <4> HIDE DEF k
      <4>5. nr + k - 1 \in 0..(length - 1)
        BY <4>1, <4>2
      <4> DEFINE n == r.nr + k - 1
      <4>3. n \in 0..(length - 1)
        BY <4>5 DEF nr
      <4> HIDE DEF n
      <4>4. PICK m \in messages : m.header.dh = r.dhr /\ m.header.n = n
        BY <2>5, <4>3 DEF SealedOn
      <4> QED
        BY <2>8, <4>2, <4>4 DEF n
    <3> QED
      BY <3>1, <3>2
  <2>10. ASSUME NEW m \in messages \cap unread PROVE Stored(v, m) \/ Awaited(v, m)
    <3>1. CASE Stored(r, m)
      <4>1. PICK i \in 1..old : r.skipped[i] = EntryFor(m)
        BY <2>1, <3>1 DEF Stored
      <4>2. i \in 1..(old + gap)
        BY <2>1
      <4> QED
        BY <2>2, <2>4, <4>1, <4>2 DEF Stored
    <3>2. CASE Awaited(r, m)
      <4>1. m.header.dh = r.dhr /\ r.nr <= m.header.n /\ m.header.n \in Nat
        BY <3>2, MessageFacts DEF Awaited, WellNamed
      <4>2. CASE until <= m.header.n
        BY <2>2, <2>3, <4>1, <4>2 DEF Awaited
      <4>3. CASE ~(until <= m.header.n)
        <5> DEFINE n == m.header.n
                   nr == r.nr
                   k == n - nr + 1
        <5>1. /\ gap = until - nr /\ nr <= n /\ n \in Nat /\ nr \in Nat /\ old \in Nat
              /\ ~(until <= n) /\ gap \in Nat
          BY <2>1, <4>1, <4>3 DEF gap
        <5> HIDE DEF n, nr
        <5>2. k \in 1..gap /\ n = nr + k - 1
          BY <5>1
        <5> HIDE DEF k
        <5>5. old + k \in 1..(old + gap)
          BY <5>1, <5>2
        <5> DEFINE i == old + k
        <5>3. i = old + k /\ i \in DOMAIN v.skipped
          BY <2>4, <5>5
        <5> HIDE DEF i
        <5>4. v.skipped[i] = EntryFor(m)
          BY <2>8, <4>1, <5>2, <5>3 DEF n, nr
        <5> QED
          BY <5>3, <5>4 DEF Stored
      <4> QED
        BY <4>2, <4>3
    <3> QED
      BY <2>5, <3>1, <3>2
  <2>11. Len(v.skipped) + (length - until) <= budget
    BY <2>1, <2>2, <2>5 DEF gap
  <2>12. SealedOn(messages, v.dhr, v.ckr.root, length)
    BY <2>3, <2>5, <2>6
  <2>13. KeepsUp(v, messages, unread, length, budget)
    BY <2>2, <2>6, <2>7, <2>9, <2>10, <2>11, <2>12 DEF KeepsUp
  <2> QED
    BY <2>2, <2>6, <2>13 DEF RunsTo
<1> QED
  BY <1>1, <1>2

\* What reading on the chain it receives on leaves of a state.
Alike(r, t) ==
  /\ t.rk = r.rk /\ t.dhs = r.dhs /\ t.dhr = r.dhr /\ t.cks = r.cks
  /\ t.ns = r.ns /\ t.pn = r.pn /\ t.ckr.root = r.ckr.root
  /\ t.associatedData = r.associatedData

\* A message is stored under its own key, and where its header leads.
LEMMA StoredKey ==
  ASSUME NEW r \in BoundedState, NEW messages, WellNamed(messages), NEW m \in messages,
         \A i \in DOMAIN r.skipped : \E p \in messages : r.skipped[i] = EntryFor(p)
  PROVE  /\ \A i \in SkippedAt(r, m.header) : i \in DOMAIN r.skipped /\ r.skipped[i] = EntryFor(m)
         /\ Stored(r, m) <=> SkippedAt(r, m.header) # {}
<1>1. ASSUME NEW i \in SkippedAt(r, m.header)
      PROVE  i \in DOMAIN r.skipped /\ r.skipped[i] = EntryFor(m)
  <2>1. /\ i \in DOMAIN r.skipped
        /\ r.skipped[i].dh = m.header.dh /\ r.skipped[i].n = m.header.n
    BY DEF SkippedAt
  <2>2. PICK p \in messages : r.skipped[i] = EntryFor(p)
    BY <2>1
  <2>3. p.header.dh = m.header.dh /\ p.header.n = m.header.n
    BY <2>1, <2>2 DEF EntryFor
  <2>4. p = m
    BY <2>3 DEF WellNamed
  <2> QED
    BY <2>1, <2>2, <2>4
<1>2. ASSUME Stored(r, m) PROVE SkippedAt(r, m.header) # {}
  <2>1. PICK i \in DOMAIN r.skipped : r.skipped[i] = EntryFor(m)
    BY <1>2 DEF Stored
  <2>2. i \in SkippedAt(r, m.header)
    BY <2>1 DEF SkippedAt, EntryFor
  <2> QED
    BY <2>2
<1>3. ASSUME SkippedAt(r, m.header) # {} PROVE Stored(r, m)
  BY <1>1, <1>3 DEF Stored
<1> QED
  BY <1>1, <1>2, <1>3

\* Reading a stored message consumes its entry and no other.
LEMMA TakeKeepsUp ==
  ASSUME NEW r \in BoundedState, NEW messages, WellNamed(messages), NEW unread,
         NEW length \in Nat, NEW budget \in Int, KeepsUp(r, messages, unread, length, budget),
         NEW m \in messages, NEW i \in 1..Len(r.skipped), r.skipped[i] = EntryFor(m)
  PROVE  /\ Alike(r, Taken(r, i))
         /\ KeepsUp(Taken(r, i), messages, unread \ {m}, length, budget)
<1> DEFINE t == Taken(r, i)
           len == Len(r.skipped)
<1>1. r \in RatchetState /\ r.skipped \in Seq(SkippedKey) /\ len \in Nat /\ r.nr \in Nat
  BY StateFields
<1>2. DOMAIN r.skipped = 1..len /\ i \in Nat
  BY <1>1, LenProperties
<1>3. /\ t.ckr = r.ckr /\ t.nr = r.nr /\ t.dhr = r.dhr
      /\ t.skipped = Without(r.skipped, i) /\ Alike(r, t)
  <2>1. /\ t.rk = r.rk /\ t.dhs = r.dhs /\ t.dhr = r.dhr /\ t.cks = r.cks
        /\ t.ns = r.ns /\ t.pn = r.pn /\ t.ckr = r.ckr /\ t.nr = r.nr
        /\ t.associatedData = r.associatedData
    BY <1>1 DEF RatchetState, Taken
  <2>2. t.skipped = Without(r.skipped, i)
    BY <1>1 DEF RatchetState, Taken
  <2> QED
    BY <2>1, <2>2 DEF Alike
<1>4. /\ Len(t.skipped) = len - 1 /\ DOMAIN t.skipped = 1..(len - 1)
      /\ \A j \in 1..(len - 1) :
           t.skipped[j] = IF j < i THEN r.skipped[j] ELSE r.skipped[j + 1]
  <2> DEFINE rest == Without(r.skipped, i)
  <2>1. rest \in Seq(SkippedKey) /\ Len(rest) = len - 1
    BY <1>1, WithoutType
  <2>2. \A j \in 1..(len - 1) :
          rest[j] = IF j < i THEN r.skipped[j] ELSE r.skipped[j + 1]
    BY <1>1, WithoutEntries
  <2> HIDE DEF rest
  <2>3. DOMAIN rest = 1..(len - 1)
    BY <2>1, LenProperties
  <2> QED
    BY <1>3, <2>1, <2>2, <2>3 DEF rest
<1> HIDE DEF len, t
<1>5. ASSUME NEW j \in DOMAIN t.skipped
      PROVE  \E k \in DOMAIN r.skipped : t.skipped[j] = r.skipped[k]
  <2>1. j \in DOMAIN r.skipped /\ j + 1 \in DOMAIN r.skipped
    BY <1>1, <1>2, <1>4
  <2> QED
    BY <1>4, <2>1
<1>6. ASSUME NEW k \in DOMAIN r.skipped, k # i
      PROVE  \E j \in DOMAIN t.skipped : t.skipped[j] = r.skipped[k]
  <2>1. CASE k < i
    <3>1. k \in 1..(len - 1)
      BY <1>1, <1>2, <2>1 DEF len
    <3> QED
      BY <1>4, <2>1, <3>1
  <2>2. CASE ~(k < i)
    <3>1. k - 1 \in 1..(len - 1) /\ ~(k - 1 < i) /\ (k - 1) + 1 = k
      BY <1>1, <1>2, <1>6, <2>2
    <3> QED
      BY <1>4, <3>1
  <2> QED
    BY <2>1, <2>2
<1>7. /\ \A k \in DOMAIN r.skipped : \E p \in messages : r.skipped[k] = EntryFor(p)
      /\ \A p \in messages \cap unread : Stored(r, p) \/ Awaited(r, p)
      /\ len + (length - r.nr) <= budget
  BY DEF KeepsUp, len
<1>8. \A j \in DOMAIN t.skipped : \E p \in messages : t.skipped[j] = EntryFor(p)
  BY <1>5, <1>7
<1>9. ASSUME NEW p \in messages \cap (unread \ {m}) PROVE Stored(t, p) \/ Awaited(t, p)
  <2>1. CASE Awaited(r, p)
    BY <1>3, <2>1 DEF Awaited
  <2>2. CASE Stored(r, p)
    <3>1. PICK k \in DOMAIN r.skipped : r.skipped[k] = EntryFor(p)
      BY <2>2 DEF Stored
    <3>2. EntryFor(p) # EntryFor(m)
      <4> SUFFICES ASSUME EntryFor(p) = EntryFor(m) PROVE FALSE
        OBVIOUS
      <4>1. p.header.dh = m.header.dh /\ p.header.n = m.header.n
        BY DEF EntryFor
      <4> QED
        BY <4>1 DEF WellNamed
    <3>3. k # i
      BY <3>1, <3>2
    <3> QED
      BY <1>6, <3>1, <3>3 DEF Stored
  <2> QED
    BY <1>7, <2>1, <2>2
<1>10. Len(t.skipped) + (length - t.nr) <= budget
  BY <1>1, <1>3, <1>4, <1>7
<1> QED
  BY <1>3, <1>8, <1>9, <1>10 DEF KeepsUp, t

\* Reading the next message of the chain moves past it.
LEMMA ConsumeKeepsUp ==
  ASSUME NEW u \in BoundedState, NEW messages, WellNamed(messages), NEW unread,
         NEW length \in Nat, NEW budget \in Int, KeepsUp(u, messages, unread, length, budget),
         NEW m \in messages, m.header.dh = u.dhr, m.header.n = u.nr
  PROVE  LET t == [u EXCEPT !.ckr = KdfChainKey(@, 1), !.nr = @ + 1,
                            !.pendingPreKey = NoPreKey]
         IN  /\ u.ckr = m.key /\ u.ckr # NoChain /\ Alike(u, t)
             /\ KeepsUp(t, messages, unread \ {m}, length, budget)
<1> DEFINE next == KdfChainKey(u.ckr, 1)
           n == u.nr + 1
           t == [u EXCEPT !.ckr = next, !.nr = n, !.pendingPreKey = NoPreKey]
<1>1. /\ u \in RatchetState /\ u.ckr \in ChainKey /\ u.nr \in Nat /\ u.ckr.step \in Nat
      /\ Len(u.skipped) \in Nat
  BY StateFields
<1>2. next.root = u.ckr.root /\ next.step = u.ckr.step + 1
  BY <1>1, ChainKeysDiffer
<1>3. n = u.nr + 1
  OBVIOUS
<1> HIDE DEF next, n
<1>4. /\ t.ckr = next /\ t.nr = n /\ t.dhr = u.dhr /\ t.skipped = u.skipped
      /\ Alike(u, t)
  BY <1>1, <1>2 DEF RatchetState, Alike
<1> HIDE DEF t
<1>5. /\ SealedOn(messages, u.dhr, u.ckr.root, length)
      /\ u.ckr.step = u.nr /\ (u.ckr = NoChain => length = 0)
      /\ \A i \in DOMAIN u.skipped : \E p \in messages : u.skipped[i] = EntryFor(p)
      /\ \A p \in messages \cap unread : Stored(u, p) \/ Awaited(u, p)
      /\ Len(u.skipped) + (length - u.nr) <= budget
  BY DEF KeepsUp
<1>6. m \in Message /\ m.key.step = m.header.n /\ m.key \in ChainKey
  BY MessageFacts DEF WellNamed
<1>7. u.nr < length /\ m.key.root = u.ckr.root
  BY <1>5 DEF SealedOn
<1>8. u.ckr = m.key
  BY <1>1, <1>5, <1>6, <1>7, ChainKeyEqual
<1>9. u.ckr # NoChain
  BY <1>1, <1>5, <1>7
<1>10. t.ckr.step = t.nr /\ t.nr <= length /\ t.ckr # NoChain
  <2>1. NoChain.step = 0
    BY DEF NoChain, FreshChain
  <2> QED
    BY <1>1, <1>2, <1>3, <1>4, <1>5, <1>7, <2>1
<1>11. ASSUME NEW p \in messages \cap (unread \ {m}) PROVE Stored(t, p) \/ Awaited(t, p)
  <2>1. CASE Stored(u, p)
    BY <1>4, <2>1 DEF Stored
  <2>2. CASE Awaited(u, p)
    <3>1. p.header.dh = u.dhr /\ u.nr <= p.header.n /\ p.header.n \in Nat
      BY <2>2, MessageFacts DEF Awaited, WellNamed
    <3>2. p.header.n # u.nr
      BY <3>1 DEF WellNamed
    <3>3. n <= p.header.n
      BY <1>1, <1>3, <3>1, <3>2
    <3> QED
      BY <1>4, <3>1, <3>3 DEF Awaited
  <2> QED
    BY <1>5, <2>1, <2>2
<1>12. Len(t.skipped) + (length - t.nr) <= budget
  BY <1>1, <1>3, <1>4, <1>5
<1>13. SealedOn(messages, t.dhr, t.ckr.root, length)
  BY <1>2, <1>4, <1>5
<1>14. \A i \in DOMAIN t.skipped : \E p \in messages : t.skipped[i] = EntryFor(p)
  BY <1>4, <1>5
<1>15. KeepsUp(t, messages, unread \ {m}, length, budget)
  BY <1>10, <1>11, <1>12, <1>13, <1>14 DEF KeepsUp
<1> QED
  BY <1>4, <1>8, <1>9, <1>15 DEF t, next, n

\* What the end r of a conversation gets out of m, which it has not read.
Reads(r, m, fresh, messages, unread, length, budget) ==
  /\ CanDecrypt(r, m, fresh)
  /\ Alike(r, AfterDecrypt(r, m, fresh))
  /\ KeepsUp(AfterDecrypt(r, m, fresh), messages, unread \ {m}, length, budget)

\* An end that keeps up reads every unread message of what it keeps up with, and
\* still keeps up.
LEMMA ReadKeepsUp ==
  ASSUME NEW r \in BoundedState, NEW messages, WellNamed(messages), NEW unread,
         NEW length \in Nat, NEW budget \in Int, KeepsUp(r, messages, unread, length, budget),
         budget <= MaxSkip + 1, budget <= MaxSkippedKeys + 1,
         NEW m \in messages \cap unread, m.associatedData = r.associatedData, NEW fresh
  PROVE  Reads(r, m, fresh, messages, unread, length, budget)
<1> DEFINE t == AfterDecrypt(r, m, fresh)
<1>1. /\ \A i \in DOMAIN r.skipped : \E p \in messages : r.skipped[i] = EntryFor(p)
      /\ Stored(r, m) \/ Awaited(r, m)
      /\ r.ckr = NoChain => length = 0
      /\ Len(r.skipped) + (length - r.nr) <= budget
      /\ SealedOn(messages, r.dhr, r.ckr.root, length)
  BY DEF KeepsUp
<1>2. CASE SkippedAt(r, m.header) # {}
  <2> DEFINE i == FirstSkipped(r, m.header)
  <2>1. i \in 1..Len(r.skipped)
    BY <1>2, FirstSkippedExists DEF BoundedState
  <2>2. i \in SkippedAt(r, m.header)
    <3>1. r.skipped \in Seq(SkippedKey) /\ DOMAIN r.skipped = 1..Len(r.skipped)
      BY StateFields
    <3>2. SkippedAt(r, m.header) \subseteq Nat
      BY <3>1 DEF SkippedAt
    <3>3. \E j \in SkippedAt(r, m.header) : \A k \in SkippedAt(r, m.header) : j <= k
      BY <1>2, <3>2, LeastExists
    <3> QED
      BY <3>3 DEF FirstSkipped
  <2>3. t = Taken(r, i)
    BY <1>2 DEF AfterDecrypt, Taken
  <2>4. CanDecrypt(r, m, fresh) <=> Opens(r, r.skipped[i].key, m)
    BY <1>2 DEF CanDecrypt
  <2> HIDE DEF i, t
  <2>5. r.skipped[i] = EntryFor(m)
    BY <1>1, <2>2, StoredKey
  <2>6. CanDecrypt(r, m, fresh)
    BY <2>4, <2>5 DEF Opens, EntryFor
  <2>7. Alike(r, t) /\ KeepsUp(t, messages, unread \ {m}, length, budget)
    BY <2>1, <2>3, <2>5, TakeKeepsUp
  <2> QED
    BY <2>6, <2>7 DEF Reads, t
<1>3. CASE SkippedAt(r, m.header) = {}
  <2> DEFINE n == m.header.n
             u == SkipMessageKeys(r, n)
             len == Len(r.skipped)
             nr == r.nr
  <2>1. ~Stored(r, m)
    BY <1>1, <1>3, StoredKey
  <2>2. m.header.dh = r.dhr /\ r.nr <= m.header.n
    BY <1>1, <2>1 DEF Awaited
  <2>3. n \in Nat
    BY MessageFacts DEF WellNamed
  <2>4. n < length
    BY <1>1, <2>2 DEF SealedOn
  <2>5. r.ckr # NoChain
    BY <1>1, <2>3, <2>4
  <2>6. len \in Nat /\ nr \in Nat /\ len + (length - nr) <= budget /\ nr <= n
    BY <1>1, <2>2, StateFields
  <2> HIDE DEF n, len, nr, u
  <2>7. n - nr <= MaxSkip /\ len + (n - nr) <= MaxSkippedKeys /\ n <= length
    BY <2>3, <2>4, <2>6, RatchetLimits
  <2>8. CanSkip(r, n)
    BY <2>5, <2>7 DEF CanSkip, nr
  <2>9. /\ u.nr = n /\ u.ckr.root = r.ckr.root /\ u.pn = r.pn
        /\ KeepsUp(u, messages, unread, length, budget)
    BY <2>3, <2>6, <2>7, SkipKeepsUp DEF u, nr, len, RunsTo
  <2>10. /\ u \in BoundedState /\ u.rk = r.rk /\ u.dhs = r.dhs /\ u.dhr = r.dhr
         /\ u.cks = r.cks /\ u.ns = r.ns /\ u.associatedData = r.associatedData
    BY <2>3, SkipMessageKeysType DEF u
  <2>11. CaughtUp(r, m.header, fresh) = u /\ (CanCatchUp(r, m.header, fresh) <=> CanSkip(r, n))
    BY <2>2 DEF CaughtUp, CanCatchUp, u, n
  <2>12. t = [u EXCEPT !.ckr = KdfChainKey(@, 1), !.nr = @ + 1, !.pendingPreKey = NoPreKey]
    BY <1>3, <2>11 DEF AfterDecrypt
  <2>13. m.header.dh = u.dhr /\ m.header.n = u.nr
    BY <2>2, <2>9, <2>10 DEF n
  <2> HIDE DEF t
  <2>14. /\ u.ckr = m.key /\ u.ckr # NoChain /\ Alike(u, t)
         /\ KeepsUp(t, messages, unread \ {m}, length, budget)
    BY <2>9, <2>10, <2>12, <2>13, ConsumeKeepsUp
  <2>15. CanDecrypt(r, m, fresh)
    BY <1>3, <2>8, <2>11, <2>14 DEF CanDecrypt, Opens
  <2>16. Alike(r, t)
    BY <2>9, <2>10, <2>14 DEF Alike
  <2> QED
    BY <2>14, <2>15, <2>16 DEF Reads, t
<1> QED
  BY <1>2, <1>3

\* The messages sealed under one ratchet key.
Under(dh, messages) == {m \in messages : m.header.dh = dh}

\* The state u that t turns into on a message under dh, root being the root key the
\* chain of that message was started with.
TurnsTo(t, u, dh, root, fresh) ==
  /\ u.rk = KdfRootKey(root, Dh(fresh, dh)) /\ u.cks = FreshChain(u.rk)
  /\ u.dhs = fresh /\ u.dhr = dh /\ u.ns = 0 /\ u.pn = t.ns /\ u.ckr.root = root
  /\ u.associatedData = t.associatedData
  /\ \A i \in DOMAIN u.skipped : u.skipped[i].dh # dh

\* t, to which toT was sent, has not followed its peer in turning to the ratchet key
\* dh, under which `length` messages were sealed.
MayTurn(t, toT, unread, dh, root, length, before, budget) ==
  /\ SealedOn(Under(dh, toT), dh, root, length)
  /\ KeepsUp(t, toT \ Under(dh, toT), unread, before, budget - length)
  /\ root = KdfRootKey(t.rk, Dh(t.dhs, dh))

\* The end t of a conversation that has turned to s: what it keeps up with, once it
\* has followed the turn, is all that was sent to it.
LEMMA TurnKeepsUp ==
  ASSUME NEW t \in BoundedState, NEW toT, WellNamed(toT), NEW unread,
         NEW dh \in Key, NEW root \in RootKey, NEW length \in Nat, NEW before \in Nat,
         NEW budget \in Nat, 0 < length,
         budget <= MaxSkip + 1, budget <= MaxSkippedKeys + 1,
         MayTurn(t, toT, unread, dh, root, length, before, budget),
         NEW header \in Header, header.dh = dh, header.pn = before, NEW fresh \in Key,
         NEW u, u = DhRatchet(t, header, fresh)
  PROVE  /\ CanSkip(t, before) /\ u \in BoundedState /\ TurnsTo(t, u, dh, root, fresh)
         /\ KeepsUp(u, toT, unread, length, budget)
<1> DEFINE new == Under(dh, toT)
           rest == budget - length
           old == toT \ new
           v == SkipMessageKeys(t, before)
           len == Len(t.skipped)
           nr == t.nr
<1>24. /\ SealedOn(new, dh, root, length) /\ KeepsUp(t, old, unread, before, rest)
       /\ root = KdfRootKey(t.rk, Dh(t.dhs, dh))
  BY DEF MayTurn
<1>1. /\ t.rk \in RootKey /\ t.dhs \in Key /\ t.ns \in Nat /\ nr \in Nat /\ len \in Nat
  BY StateFields
<1>2. WellNamed(old)
  BY DEF WellNamed
<1>3. /\ t.ckr = NoChain => before = 0
      /\ nr <= before /\ len + (before - nr) <= budget - length
  BY <1>24 DEF KeepsUp
<1>4. len + (before - nr) <= MaxSkippedKeys /\ before - nr <= MaxSkip
  <2> HIDE DEF len, nr
  <2> QED
    BY <1>1, <1>3, RatchetLimits
<1>5. CanSkip(t, before)
  BY <1>1, <1>3, <1>4 DEF CanSkip
<1>6. /\ v.nr = before /\ v.ckr.root = t.ckr.root /\ v.pn = t.pn
      /\ KeepsUp(v, old, unread, before, budget - length)
  <2>1. KeepsUp(t, old, unread, before, rest) /\ t.nr <= before /\ rest \in Int
    BY <1>3, <1>24
  <2>2. Len(t.skipped) + (before - t.nr) <= MaxSkippedKeys /\ before <= before
    BY <1>4
  <2>3. v = SkipMessageKeys(t, before)
    OBVIOUS
  <2> HIDE DEF old, v, len, nr, rest
  <2>4. /\ v.nr = before /\ v.ckr.root = t.ckr.root /\ v.pn = t.pn
        /\ KeepsUp(v, old, unread, before, rest)
    <3>1. RunsTo(t, v, before, old, unread, before, rest)
      BY <1>2, <2>1, <2>2, <2>3, SkipKeepsUp
    <3> QED
      BY <3>1 DEF RunsTo
  <2> QED
    BY <2>4 DEF rest
<1>7. /\ v \in BoundedState /\ v.rk = t.rk /\ v.dhs = t.dhs /\ v.ns = t.ns
      /\ v.associatedData = t.associatedData
  BY SkipMessageKeysType
<1>8. /\ v \in RatchetState /\ v.skipped \in Seq(SkippedKey) /\ Len(v.skipped) \in Nat
  BY <1>7, StateFields
<1> HIDE DEF v, len, nr, old, new, rest
<1>9. u = [v EXCEPT !.rk = KdfRootKey(root, Dh(fresh, dh)), !.dhs = fresh, !.dhr = dh,
                    !.cks = FreshChain(KdfRootKey(root, Dh(fresh, dh))),
                    !.ckr = FreshChain(root), !.pn = t.ns, !.ns = 0, !.nr = 0]
  BY <1>7, <1>24 DEF DhRatchet, v
<1>10. /\ u.rk = KdfRootKey(root, Dh(fresh, dh)) /\ u.cks = FreshChain(u.rk)
       /\ u.dhs = fresh /\ u.dhr = dh /\ u.ns = 0 /\ u.pn = t.ns
  BY <1>8, <1>9 DEF RatchetState
<1>11. /\ u.ckr = FreshChain(root) /\ u.nr = 0 /\ u.skipped = v.skipped
       /\ u.associatedData = v.associatedData
  BY <1>8, <1>9 DEF RatchetState
<1>12. u \in BoundedState
  BY DhRatchetType
<1>13. u.ckr.root = root /\ u.ckr.step = 0
  BY <1>11 DEF FreshChain
<1>14. u.ckr # NoChain
  <2>1. Dh(t.dhs, dh) \in DhOutput
    BY <1>1 DEF Dh, DhOutput
  <2> QED
    BY <1>1, <1>11, <1>24, <2>1, FreshChainType
<1>15. /\ \A i \in DOMAIN v.skipped : \E m \in old : v.skipped[i] = EntryFor(m)
       /\ \A m \in old \cap unread : Stored(v, m) \/ Awaited(v, m)
       /\ Len(v.skipped) + (before - v.nr) <= budget - length
       /\ SealedOn(old, v.dhr, v.ckr.root, before)
  BY <1>6 DEF KeepsUp
<1>16. Len(u.skipped) + (length - u.nr) <= budget
  <2> DEFINE held == Len(v.skipped)
  <2>1. held \in Nat /\ held + (before - v.nr) <= budget - length /\ v.nr = before
    BY <1>6, <1>8, <1>15
  <2> HIDE DEF held
  <2>2. held + (length - 0) <= budget
    BY <2>1
  <2> QED
    BY <1>11, <2>2 DEF held
<1>17. \A i \in DOMAIN u.skipped : \E m \in toT : u.skipped[i] = EntryFor(m) /\ m.header.dh # dh
  BY <1>11, <1>15 DEF old, new, Under
<1>18. ASSUME NEW m \in toT \cap unread PROVE Stored(u, m) \/ Awaited(u, m)
  <2>1. m.header.n \in Nat
    BY MessageFacts DEF WellNamed
  <2>2. CASE m \in new
    BY <1>10, <1>11, <2>1, <2>2 DEF Awaited, new, Under
  <2>3. CASE m \notin new
    <3>1. m \in old
      BY <2>3 DEF old
    <3>2. ~Awaited(v, m)
      BY <1>1, <1>6, <1>15, <2>1, <3>1 DEF Awaited, SealedOn
    <3>3. Stored(v, m)
      BY <1>15, <3>1, <3>2
    <3> QED
      BY <1>11, <3>3 DEF Stored
  <2> QED
    BY <2>2, <2>3
<1>19. SealedOn(toT, u.dhr, u.ckr.root, length)
  BY <1>10, <1>13, <1>24 DEF SealedOn, new, Under
<1>20. u.ckr.step = u.nr /\ u.nr <= length
  BY <1>11, <1>13
<1>21. KeepsUp(u, toT, unread, length, budget)
  <2>1. \A i \in DOMAIN u.skipped : \E m \in toT : u.skipped[i] = EntryFor(m)
    BY <1>17
  <2>2. u.ckr = NoChain => length = 0
    BY <1>14
  <2> QED
    BY <1>16, <1>18, <1>19, <1>20, <2>1, <2>2 DEF KeepsUp
<1>22. ASSUME NEW i \in DOMAIN u.skipped PROVE u.skipped[i].dh # dh
  <2>1. PICK m \in toT : u.skipped[i] = EntryFor(m) /\ m.header.dh # dh
    BY <1>17
  <2>2. EntryFor(m).dh = m.header.dh
    BY DEF EntryFor
  <2> QED
    BY <2>1, <2>2
<1>23. u.associatedData = t.associatedData /\ u.ckr.root = root
  BY <1>7, <1>11, <1>13
<1> QED
  BY <1>5, <1>10, <1>12, <1>21, <1>22, <1>23 DEF TurnsTo

\* Whoever keeps up also does so with less to read, or more room.
LEMMA KeepsUpGrows ==
  ASSUME NEW r \in BoundedState, NEW messages, NEW unread, NEW length \in Nat,
         NEW budget \in Int, KeepsUp(r, messages, unread, length, budget),
         NEW less, messages \cap less \subseteq unread, NEW more \in Int, budget <= more
  PROVE  KeepsUp(r, messages, less, length, more)
<1>1. Len(r.skipped) \in Nat /\ r.nr \in Nat
  BY StateFields
<1>2. Len(r.skipped) + (length - r.nr) <= more
  BY <1>1 DEF KeepsUp
<1>3. \A m \in messages \cap less : Stored(r, m) \/ Awaited(r, m)
  BY DEF KeepsUp
<1> QED
  BY <1>2, <1>3 DEF KeepsUp

\* The part of Ahead that is about keys and counters.
Turned(s, t) ==
  /\ s.rk = KdfRootKey(t.rk, Dh(t.dhs, s.dhs)) /\ s.cks.root = s.rk
  /\ s.dhr = t.dhs /\ t.dhr # s.dhs
  /\ s.ckr.root = t.cks.root /\ s.cks.step = s.ns /\ t.cks.step = t.ns

\* What it is to be ahead, in the parts the proofs use.
LEMMA AheadParts ==
  ASSUME NEW s, NEW t, NEW toT, NEW toS, NEW unread, NEW a, NEW b
  PROVE  Ahead(s, t, toT, toS, unread, a, b) <=>
           /\ Turned(s, t)
           /\ SealedOn(Under(s.dhs, toT), s.dhs, s.rk, s.ns)
           /\ \A m \in Under(s.dhs, toT) : m.header.pn = s.pn
           /\ KeepsUp(t, toT \ Under(s.dhs, toT), unread, s.pn, a - s.ns)
           /\ KeepsUp(s, toS, unread, t.ns, b)
BY DEF Ahead, Turned, Under

\* Being ahead survives counters that grow and messages that are read.
LEMMA AheadGrows ==
  ASSUME NEW s \in BoundedState, NEW t \in BoundedState, NEW toT, NEW toS, NEW unread,
         NEW a \in Nat, NEW b \in Nat, Ahead(s, t, toT, toS, unread, a, b),
         NEW less, (toT \cup toS) \cap less \subseteq unread,
         NEW a2 \in Nat, NEW b2 \in Nat, a <= a2, b <= b2
  PROVE  Ahead(s, t, toT, toS, less, a2, b2)
<1> DEFINE old == toT \ Under(s.dhs, toT)
           rest == a - s.ns
           more == a2 - s.ns
<1>1. /\ Turned(s, t)
      /\ SealedOn(Under(s.dhs, toT), s.dhs, s.rk, s.ns)
      /\ \A m \in Under(s.dhs, toT) : m.header.pn = s.pn
      /\ KeepsUp(t, old, unread, s.pn, rest)
      /\ KeepsUp(s, toS, unread, t.ns, b)
  BY AheadParts
<1>2. s.ns \in Nat /\ s.pn \in Nat /\ t.ns \in Nat
  BY StateFields
<1>3. rest \in Int /\ more \in Int /\ rest <= more
  BY <1>2
<1>4. old \cap less \subseteq unread /\ toS \cap less \subseteq unread
  OBVIOUS
<1> HIDE DEF old, rest, more
<1>5. KeepsUp(t, old, less, s.pn, more)
  BY <1>1, <1>2, <1>3, <1>4, KeepsUpGrows
<1>6. KeepsUp(s, toS, less, t.ns, b2)
  BY <1>1, <1>2, <1>4, KeepsUpGrows
<1> QED
  BY <1>1, <1>5, <1>6, AheadParts DEF old, more

\* The end that turned last reads.
LEMMA ReadAhead ==
  ASSUME NEW s \in BoundedState, NEW t \in BoundedState, NEW toT, NEW toS, WellNamed(toS),
         NEW unread, NEW a \in Nat, NEW b \in Nat, Ahead(s, t, toT, toS, unread, a, b),
         b <= MaxSkip + 1, b <= MaxSkippedKeys + 1,
         NEW m \in toS \cap unread, m \notin toT, m.associatedData = s.associatedData,
         NEW fresh
  PROVE  /\ CanDecrypt(s, m, fresh) /\ Alike(s, AfterDecrypt(s, m, fresh))
         /\ Ahead(AfterDecrypt(s, m, fresh), t, toT, toS, unread \ {m}, a, b)
<1> DEFINE u == AfterDecrypt(s, m, fresh)
           old == toT \ Under(s.dhs, toT)
           rest == a - s.ns
           less == unread \ {m}
<1>1. /\ Turned(s, t)
      /\ SealedOn(Under(s.dhs, toT), s.dhs, s.rk, s.ns)
      /\ \A p \in Under(s.dhs, toT) : p.header.pn = s.pn
      /\ KeepsUp(t, old, unread, s.pn, rest)
      /\ KeepsUp(s, toS, unread, t.ns, b)
  BY AheadParts
<1>2. s.ns \in Nat /\ s.pn \in Nat /\ t.ns \in Nat /\ rest \in Int
  BY StateFields
<1>3. Reads(s, m, fresh, toS, unread, t.ns, b)
  BY <1>1, <1>2, ReadKeepsUp
<1>4. CanDecrypt(s, m, fresh) /\ Alike(s, u) /\ KeepsUp(u, toS, less, t.ns, b)
  BY <1>3 DEF Reads
<1>5. old \cap less \subseteq unread /\ rest <= rest
  BY <1>2
<1> HIDE DEF u, old, rest, less
<1>6. KeepsUp(t, old, less, s.pn, rest)
  BY <1>1, <1>2, <1>5, KeepsUpGrows
<1>7. Turned(u, t) /\ Under(u.dhs, toT) = Under(s.dhs, toT)
  BY <1>1, <1>4 DEF Turned, Alike, Under
<1>8. u.dhs = s.dhs /\ u.rk = s.rk /\ u.ns = s.ns /\ u.pn = s.pn
  BY <1>4 DEF Alike
<1>9. Ahead(u, t, toT, toS, less, a, b)
  BY <1>1, <1>4, <1>6, <1>7, <1>8, AheadParts DEF old, rest
<1> QED
  BY <1>4, <1>9 DEF u, less

\* The other end reads what was sent before the turn.
LEMMA ReadBehind ==
  ASSUME NEW s \in BoundedState, NEW t \in BoundedState, NEW toT, NEW toS, WellNamed(toT),
         NEW unread, NEW a \in Nat, NEW b \in Nat, Ahead(s, t, toT, toS, unread, a, b),
         a <= MaxSkip + 1, a <= MaxSkippedKeys + 1,
         NEW m \in toT \cap unread, m.header.dh # s.dhs, m.associatedData = t.associatedData,
         NEW fresh
  PROVE  /\ CanDecrypt(t, m, fresh) /\ Alike(t, AfterDecrypt(t, m, fresh))
         /\ Ahead(s, AfterDecrypt(t, m, fresh), toT, toS, unread \ {m}, a, b)
<1> DEFINE u == AfterDecrypt(t, m, fresh)
           old == toT \ Under(s.dhs, toT)
           rest == a - s.ns
           less == unread \ {m}
<1>1. /\ Turned(s, t)
      /\ SealedOn(Under(s.dhs, toT), s.dhs, s.rk, s.ns)
      /\ \A p \in Under(s.dhs, toT) : p.header.pn = s.pn
      /\ KeepsUp(t, old, unread, s.pn, rest)
      /\ KeepsUp(s, toS, unread, t.ns, b)
  BY AheadParts
<1>2. s.ns \in Nat /\ s.pn \in Nat /\ t.ns \in Nat /\ rest \in Int /\ rest <= a
  BY StateFields
<1>3. WellNamed(old) /\ m \in old \cap unread
  BY DEF WellNamed, Under
<1>4. rest <= MaxSkip + 1 /\ rest <= MaxSkippedKeys + 1
  BY <1>2, RatchetLimits
<1>5. toS \cap less \subseteq unread /\ b <= b
  OBVIOUS
<1> HIDE DEF u, old, rest, less
<1>6. Reads(t, m, fresh, old, unread, s.pn, rest)
  BY <1>1, <1>2, <1>3, <1>4, ReadKeepsUp
<1>7. CanDecrypt(t, m, fresh) /\ Alike(t, u) /\ KeepsUp(u, old, less, s.pn, rest)
  BY <1>6 DEF Reads, u, less
<1>8. KeepsUp(s, toS, less, t.ns, b)
  BY <1>1, <1>2, <1>5, KeepsUpGrows
<1>9. Turned(s, u) /\ u.ns = t.ns
  BY <1>1, <1>7 DEF Turned, Alike
<1>10. Ahead(s, u, toT, toS, less, a, b)
  BY <1>1, <1>7, <1>8, <1>9, AheadParts DEF old, rest
<1> QED
  BY <1>7, <1>10 DEF u, less

\* The other end reads the first message since the turn, and turns in its turn.
LEMMA ReadTurn ==
  ASSUME NEW s \in BoundedState, NEW t \in BoundedState, NEW toT, NEW toS, WellNamed(toT),
         NEW unread, NEW a \in Nat, NEW b \in Nat, Ahead(s, t, toT, toS, unread, a, b),
         a <= MaxSkip + 1, a <= MaxSkippedKeys + 1,
         NEW m \in toT \cap unread, m.header.dh = s.dhs, m.associatedData = t.associatedData,
         NEW fresh \in Key, fresh # t.dhs, \A p \in toS : p.header.dh # fresh
  PROVE  /\ CanDecrypt(t, m, fresh)
         /\ AfterDecrypt(t, m, fresh).associatedData = t.associatedData
         /\ Ahead(AfterDecrypt(t, m, fresh), s, toS, toT, unread \ {m}, b, a)
<1> DEFINE w == AfterDecrypt(t, m, fresh)
           u == DhRatchet(t, m.header, fresh)
           old == toT \ Under(s.dhs, toT)
           rest == a - s.ns
           less == unread \ {m}
<1>1. /\ Turned(s, t)
      /\ SealedOn(Under(s.dhs, toT), s.dhs, s.rk, s.ns)
      /\ \A p \in Under(s.dhs, toT) : p.header.pn = s.pn
      /\ KeepsUp(t, old, unread, s.pn, rest)
      /\ KeepsUp(s, toS, unread, t.ns, b)
  BY AheadParts
<1>2. /\ s.ns \in Nat /\ s.pn \in Nat /\ t.ns \in Nat /\ s.dhs \in Key /\ s.rk \in RootKey
  BY StateFields
<1>3. m \in Under(s.dhs, toT) /\ m.header \in Header /\ m.header.n \in Nat
  BY MessageFacts DEF WellNamed, Under
<1>4. 0 < s.ns /\ m.header.pn = s.pn
  BY <1>1, <1>2, <1>3 DEF SealedOn
<1>5. s.rk = KdfRootKey(t.rk, Dh(t.dhs, s.dhs)) /\ t.dhr # s.dhs
  BY <1>1 DEF Turned
<1>6. /\ CanSkip(t, s.pn) /\ u \in BoundedState /\ TurnsTo(t, u, s.dhs, s.rk, fresh)
      /\ KeepsUp(u, toT, unread, s.ns, a)
  <2> DEFINE header == m.header
  <2>1. MayTurn(t, toT, unread, s.dhs, s.rk, s.ns, s.pn, a)
    BY <1>1, <1>5 DEF MayTurn
  <2>2. /\ header \in Header /\ header.dh = s.dhs /\ header.pn = s.pn
        /\ u = DhRatchet(t, header, fresh)
    BY <1>3, <1>4
  <2> HIDE DEF header, u
  <2> QED
    BY <1>2, <1>4, <2>1, <2>2, TurnKeepsUp, ZenonT(60)
<1>7. SkippedAt(t, m.header) = {}
  <2> SUFFICES ASSUME NEW i \in SkippedAt(t, m.header) PROVE FALSE
    OBVIOUS
  <2>1. i \in DOMAIN t.skipped /\ t.skipped[i].dh = s.dhs
    BY DEF SkippedAt
  <2>2. PICK p \in old : t.skipped[i] = EntryFor(p)
    BY <1>1, <2>1 DEF KeepsUp
  <2>3. EntryFor(p).dh = p.header.dh
    BY DEF EntryFor
  <2> QED
    BY <2>1, <2>2, <2>3 DEF Under
<1> HIDE DEF u, old, rest
<1>21. /\ u.rk = KdfRootKey(s.rk, Dh(fresh, s.dhs)) /\ u.cks = FreshChain(u.rk)
       /\ u.dhs = fresh /\ u.dhr = s.dhs /\ u.ns = 0 /\ u.pn = t.ns /\ u.ckr.root = s.rk
       /\ u.associatedData = t.associatedData
       /\ \A i \in DOMAIN u.skipped : u.skipped[i].dh # s.dhs
  BY <1>6 DEF TurnsTo
<1>8. SkippedAt(u, m.header) = {}
  BY <1>21 DEF SkippedAt
<1>9. /\ CaughtUp(t, m.header, fresh) = SkipMessageKeys(u, m.header.n)
      /\ CaughtUp(u, m.header, fresh) = SkipMessageKeys(u, m.header.n)
      /\ CanCatchUp(t, m.header, fresh) <=> CanSkip(t, s.pn) /\ CanSkip(u, m.header.n)
      /\ CanCatchUp(u, m.header, fresh) <=> CanSkip(u, m.header.n)
  BY <1>4, <1>5, <1>21 DEF CaughtUp, CanCatchUp, u
<1>10. w = AfterDecrypt(u, m, fresh)
  BY <1>7, <1>8, <1>9 DEF AfterDecrypt
<1>11. CanDecrypt(u, m, fresh) => CanDecrypt(t, m, fresh)
  BY <1>6, <1>7, <1>8, <1>9 DEF CanDecrypt, Opens
<1> HIDE DEF w, less
<1>12. Reads(u, m, fresh, toT, unread, s.ns, a)
  <2>1. m.associatedData = u.associatedData
    BY <1>21
  <2>2. KeepsUp(u, toT, unread, s.ns, a) /\ u \in BoundedState
    BY <1>6
  <2> QED
    BY <1>2, <2>1, <2>2, ReadKeepsUp
<1>13. CanDecrypt(t, m, fresh) /\ Alike(u, w) /\ KeepsUp(w, toT, less, s.ns, a)
  BY <1>10, <1>11, <1>12 DEF Reads, less
<1>14. /\ w.rk = u.rk /\ w.dhs = fresh /\ w.dhr = s.dhs /\ w.cks = FreshChain(u.rk)
       /\ w.ns = 0 /\ w.pn = t.ns /\ w.ckr.root = s.rk
       /\ w.associatedData = t.associatedData
  BY <1>13, <1>21 DEF Alike
<1>15. Turned(w, s)
  <2>1. w.rk = KdfRootKey(s.rk, Dh(s.dhs, w.dhs))
    BY <1>14, <1>21 DEF Dh
  <2>2. w.cks.root = w.rk /\ w.cks.step = w.ns
    BY <1>14 DEF FreshChain
  <2>3. s.cks.root = s.rk /\ s.cks.step = s.ns /\ s.dhr = t.dhs
    BY <1>1 DEF Turned
  <2> QED
    BY <1>14, <2>1, <2>2, <2>3 DEF Turned
<1>16. Under(w.dhs, toS) = {}
  BY <1>14 DEF Under
<1>17. KeepsUp(s, toS, less, t.ns, b)
  <2>1. toS \cap less \subseteq unread /\ b <= b
    BY DEF less
  <2> QED
    BY <1>1, <1>2, <2>1, KeepsUpGrows
<1>18. SealedOn({}, w.dhs, w.rk, w.ns)
  BY <1>14 DEF SealedOn
<1>19. toS \ {} = toS /\ b - w.ns = b
  BY <1>14
<1>20. Ahead(w, s, toS, toT, less, b, a)
  BY <1>13, <1>14, <1>15, <1>16, <1>17, <1>18, <1>19, AheadParts
<1> QED
  BY <1>13, <1>14, <1>20 DEF w, less

\* What encrypting leaves of a state.
LEMMA EncryptLeaves ==
  ASSUME NEW s \in BoundedState, NEW u, u = AfterEncrypt(s)
  PROVE  /\ u.rk = s.rk /\ u.dhs = s.dhs /\ u.dhr = s.dhr /\ u.ckr = s.ckr
         /\ u.nr = s.nr /\ u.pn = s.pn /\ u.skipped = s.skipped
         /\ u.associatedData = s.associatedData /\ u.pendingPreKey = s.pendingPreKey
         /\ u.ns = s.ns + 1 /\ u.cks.root = s.cks.root /\ u.cks.step = s.cks.step + 1
<1>1. s \in RatchetState
  BY StateFields
<1> DEFINE next == KdfChainKey(s.cks, 1)
<1> HIDE DEF next
<1>2. AfterEncrypt(s) = [s EXCEPT !.cks = next, !.ns = s.ns + 1]
  BY DEF AfterEncrypt, next
<1>3. u.nr = s.nr /\ u.pn = s.pn /\ u.associatedData = s.associatedData
  BY <1>1, <1>2 DEF RatchetState
<1> QED
  BY <1>3, AfterEncryptType, AfterEncryptKeeps

\* The chain that m is the next message of is one longer with it.
LEMMA SealNext ==
  ASSUME NEW messages, NEW dh, NEW root, NEW length \in Nat,
         SealedOn(messages, dh, root, length),
         NEW m, m.header.dh = dh, m.header.n = length, m.key.root = root,
         WellNamed(messages)
  PROVE  SealedOn(messages \cup {m}, dh, root, length + 1)
<1>1. ASSUME NEW p \in messages \cup {m}, p.header.dh = dh
      PROVE  p.header.n < length + 1 /\ p.key.root = root
  <2>1. CASE p \in messages
    <3>1. p.header.n < length /\ p.key.root = root /\ p.header.n \in Nat
      BY <1>1, <2>1, MessageFacts DEF SealedOn, WellNamed
    <3> QED
      BY <3>1
  <2>2. CASE p = m
    BY <2>2
  <2> QED
    BY <2>1, <2>2
<1>2. ASSUME NEW n \in 0..((length + 1) - 1)
      PROVE  \E p \in messages \cup {m} : p.header.dh = dh /\ p.header.n = n
  <2>1. n \in 0..(length - 1) \/ n = length
    OBVIOUS
  <2> QED
    BY <2>1 DEF SealedOn
<1> QED
  BY <1>1, <1>2 DEF SealedOn

\* The end that turned last sends.
LEMMA EncryptAhead ==
  ASSUME NEW s \in BoundedState, NEW t \in BoundedState, NEW toT, NEW toS, NEW unread,
         NEW a \in Nat, NEW b \in Nat, Ahead(s, t, toT, toS, unread, a, b),
         NEW m, m.header = Seal(s).header, m.key = s.cks, m \notin toS, WellNamed(toT)
  PROVE  Ahead(AfterEncrypt(s), t, toT \cup {m}, toS, unread \cup {m}, a + 1, b)
<1> DEFINE u == AfterEncrypt(s)
           old == toT \ Under(s.dhs, toT)
           rest == a - s.ns
           more == unread \cup {m}
<1>1. /\ Turned(s, t)
      /\ SealedOn(Under(s.dhs, toT), s.dhs, s.rk, s.ns)
      /\ \A p \in Under(s.dhs, toT) : p.header.pn = s.pn
      /\ KeepsUp(t, old, unread, s.pn, rest)
      /\ KeepsUp(s, toS, unread, t.ns, b)
  BY AheadParts
<1>2. /\ s.ns \in Nat /\ s.pn \in Nat /\ t.ns \in Nat /\ s.cks.step \in Nat
  BY StateFields
<1>3. m.header.dh = s.dhs /\ m.header.pn = s.pn /\ m.header.n = s.ns
  BY DEF Seal
<1>4. /\ u.rk = s.rk /\ u.dhs = s.dhs /\ u.dhr = s.dhr /\ u.ckr = s.ckr
      /\ u.nr = s.nr /\ u.pn = s.pn /\ u.skipped = s.skipped
      /\ u.ns = s.ns + 1 /\ u.cks.root = s.cks.root /\ u.cks.step = s.cks.step + 1
  BY EncryptLeaves
<1> HIDE DEF u
<1>5. Turned(u, t)
  BY <1>1, <1>2, <1>4 DEF Turned
<1>6. Under(u.dhs, toT \cup {m}) = Under(s.dhs, toT) \cup {m}
  BY <1>3, <1>4 DEF Under
<1>7. (toT \cup {m}) \ (Under(s.dhs, toT) \cup {m}) = old
  BY <1>3 DEF Under
<1>8. m.key.root = s.rk
  BY <1>1 DEF Turned
<1>9. SealedOn(Under(s.dhs, toT) \cup {m}, s.dhs, s.rk, s.ns + 1)
  <2>1. WellNamed(Under(s.dhs, toT))
    BY DEF WellNamed, Under
  <2> QED
    BY <1>1, <1>2, <1>3, <1>8, <2>1, SealNext
<1>10. (a + 1) - u.ns = rest /\ rest \in Int /\ rest <= rest
  BY <1>2, <1>4
<1>11. m \notin old
  BY <1>3 DEF Under
<1>12. old \cap more \subseteq unread /\ toS \cap more \subseteq unread /\ b <= b
  BY <1>11
<1> HIDE DEF old, more, rest
<1>13. KeepsUp(t, old, more, s.pn, rest)
  BY <1>1, <1>2, <1>10, <1>12, KeepsUpGrows
<1>14. KeepsUp(s, toS, more, t.ns, b)
  BY <1>1, <1>2, <1>12, KeepsUpGrows
<1>15. KeepsUp(u, toS, more, t.ns, b)
  BY <1>4, <1>14 DEF KeepsUp, Stored, Awaited
<1>16. \A p \in Under(s.dhs, toT) \cup {m} : p.header.pn = s.pn
  BY <1>1, <1>3
<1>17. Ahead(u, t, toT \cup {m}, toS, more, a + 1, b)
  <2> DEFINE all == toT \cup {m}
             more1 == a + 1
  <2>1. Under(u.dhs, all) = Under(s.dhs, toT) \cup {m}
    BY <1>6
  <2>6. all \ (Under(s.dhs, toT) \cup {m}) = old
    BY <1>7
  <2>2. more1 - u.ns = rest
    BY <1>10
  <2> HIDE DEF all, more1
  <2>7. all \ Under(u.dhs, all) = old
    BY <2>1, <2>6
  <2>3. /\ SealedOn(Under(u.dhs, all), u.dhs, u.rk, u.ns)
        /\ \A p \in Under(u.dhs, all) : p.header.pn = u.pn
    BY <1>4, <1>9, <1>16, <2>1
  <2>4. KeepsUp(t, all \ Under(u.dhs, all), more, u.pn, more1 - u.ns)
    BY <1>4, <1>13, <2>2, <2>7
  <2>5. Ahead(u, t, all, toS, more, more1, b)
    BY <1>5, <1>15, <2>3, <2>4, AheadParts
  <2> QED
    BY <2>5 DEF all, more1
<1> QED
  BY <1>17 DEF u, more

\* The other end sends.
LEMMA EncryptBehind ==
  ASSUME NEW s \in BoundedState, NEW t \in BoundedState, NEW toT, NEW toS, NEW unread,
         NEW a \in Nat, NEW b \in Nat, Ahead(s, t, toT, toS, unread, a, b), CanEncrypt(t),
         NEW m, m.header = Seal(t).header, m.key = t.cks, m \notin toT, WellNamed(toS)
  PROVE  Ahead(s, AfterEncrypt(t), toT, toS \cup {m}, unread \cup {m}, a, b + 1)
<1> DEFINE u == AfterEncrypt(t)
           old == toT \ Under(s.dhs, toT)
           rest == a - s.ns
           more == unread \cup {m}
           len == Len(s.skipped)
           all == toS \cup {m}
<1>1. /\ Turned(s, t)
      /\ SealedOn(Under(s.dhs, toT), s.dhs, s.rk, s.ns)
      /\ \A p \in Under(s.dhs, toT) : p.header.pn = s.pn
      /\ KeepsUp(t, old, unread, s.pn, rest)
      /\ KeepsUp(s, toS, unread, t.ns, b)
  BY AheadParts
<1>2. /\ s.ns \in Nat /\ s.pn \in Nat /\ t.ns \in Nat /\ t.cks.step \in Nat /\ len \in Nat
      /\ s.nr \in Nat /\ t.cks \in ChainKey /\ s.ckr \in ChainKey
  BY StateFields
<1>3. m.header.dh = t.dhs /\ m.header.n = t.ns
  BY DEF Seal
<1>4. /\ u.rk = t.rk /\ u.dhs = t.dhs /\ u.dhr = t.dhr /\ u.ckr = t.ckr
      /\ u.nr = t.nr /\ u.pn = t.pn /\ u.skipped = t.skipped
      /\ u.ns = t.ns + 1 /\ u.cks.root = t.cks.root /\ u.cks.step = t.cks.step + 1
  BY EncryptLeaves
<1> HIDE DEF u
<1>5. Turned(s, u)
  BY <1>1, <1>2, <1>4 DEF Turned
<1>6. s.dhr = t.dhs /\ s.ckr.root = t.cks.root /\ t.cks.step = t.ns
  BY <1>1 DEF Turned
<1>7. /\ SealedOn(toS, s.dhr, s.ckr.root, t.ns)
      /\ s.ckr.step = s.nr /\ s.nr <= t.ns /\ (s.ckr = NoChain => t.ns = 0)
      /\ \A i \in DOMAIN s.skipped : \E p \in toS : s.skipped[i] = EntryFor(p)
      /\ \A p \in toS \cap unread : Stored(s, p) \/ Awaited(s, p)
      /\ len + (t.ns - s.nr) <= b
  BY <1>1 DEF KeepsUp
<1>8. s.ckr # NoChain
  <2> SUFFICES ASSUME s.ckr = NoChain PROVE FALSE
    OBVIOUS
  <2>1. NoChain.step = 0
    BY DEF NoChain, FreshChain
  <2>2. t.cks.root = NoChain.root /\ t.cks.step = NoChain.step
    BY <1>6, <1>7, <2>1
  <2>3. t.cks = NoChain
    BY <1>2, <2>2, ChainKeyEqual
  <2> QED
    BY <2>3 DEF CanEncrypt
<1>9. SealedOn(all, s.dhr, s.ckr.root, t.ns + 1)
  BY <1>2, <1>3, <1>6, <1>7, SealNext
<1>10. len + ((t.ns + 1) - s.nr) <= b + 1 /\ s.nr <= t.ns + 1
  <2> DEFINE nr == s.nr
             ns == t.ns
  <2>1. nr \in Nat /\ ns \in Nat /\ nr <= ns /\ len + (ns - nr) <= b
    BY <1>2, <1>7
  <2> HIDE DEF nr, ns, len
  <2>2. len + ((ns + 1) - nr) <= b + 1 /\ nr <= ns + 1
    BY <1>2, <2>1
  <2> QED
    BY <2>2 DEF nr, ns
<1>11. ASSUME NEW p \in all \cap more PROVE Stored(s, p) \/ Awaited(s, p)
  <2>1. CASE p = m
    BY <1>3, <1>6, <1>7, <2>1 DEF Awaited
  <2>2. CASE p # m
    BY <1>7, <2>2
  <2> QED
    BY <2>1, <2>2
<1>12. \A i \in DOMAIN s.skipped : \E p \in all : s.skipped[i] = EntryFor(p)
  BY <1>7
<1>13. KeepsUp(s, all, more, t.ns + 1, b + 1)
  BY <1>7, <1>8, <1>9, <1>10, <1>11, <1>12 DEF KeepsUp
<1>14. old \cap more \subseteq unread /\ rest \in Int /\ rest <= rest
  BY <1>2
<1> HIDE DEF old, more, rest, all
<1>15. KeepsUp(t, old, more, s.pn, rest)
  BY <1>1, <1>2, <1>14, KeepsUpGrows
<1>16. KeepsUp(u, old, more, s.pn, rest)
  BY <1>4, <1>15 DEF KeepsUp, Stored, Awaited
<1>17. Ahead(s, u, toT, all, more, a, b + 1)
  BY <1>1, <1>4, <1>5, <1>13, <1>16, AheadParts DEF old, rest
<1> QED
  BY <1>17 DEF u, more, all

\* An end reads anything unread that was sent to it, and the two stay in step.
LEMMA ReadInStep ==
  ASSUME NEW s \in BoundedState, NEW t \in BoundedState, NEW toT, NEW toS, WellNamed(toT),
         NEW unread, NEW a \in Nat, NEW b \in Nat, InStep(s, t, toT, toS, unread, a, b),
         a <= MaxSkip + 1, a <= MaxSkippedKeys + 1,
         NEW m \in toT \cap unread, m \notin toS, m.associatedData = t.associatedData,
         NEW fresh \in Key, s.cks # NoChain => s.dhr # fresh,
         \A p \in toS : p.header.dh # fresh
  PROVE  /\ CanDecrypt(t, m, fresh)
         /\ AfterDecrypt(t, m, fresh).associatedData = t.associatedData
         /\ InStep(s, AfterDecrypt(t, m, fresh), toT, toS, unread \ {m}, a, b)
<1>1. CASE Ahead(s, t, toT, toS, unread, a, b)
  <2>1. CASE m.header.dh = s.dhs
    <3>1. s.rk = KdfRootKey(t.rk, Dh(t.dhs, s.dhs)) /\ s.cks.root = s.rk /\ s.dhr = t.dhs
      BY <1>1 DEF Ahead
    <3>2. t.rk \in RootKey /\ t.dhs \in Key /\ s.dhs \in Key
      BY StateFields
    <3>3. s.cks.root.turns # <<>>
      BY <3>1, <3>2, KdfRootKeyGrows DEF Dh, DhOutput
    <3>4. NoChain.root.turns = <<>>
      BY DEF NoChain, FreshChain, NoRoot, FirstRoot
    <3>5. fresh # t.dhs
      BY <3>1, <3>3, <3>4
    <3> QED
      BY <1>1, <2>1, <3>5, ReadTurn DEF InStep
  <2>2. CASE m.header.dh # s.dhs
    BY <1>1, <2>2, ReadBehind DEF InStep, Alike
  <2> QED
    BY <2>1, <2>2
<1>2. CASE Ahead(t, s, toS, toT, unread, b, a)
  BY <1>2, ReadAhead DEF InStep, Alike
<1> QED
  BY <1>1, <1>2 DEF InStep

\* An end that sends stays in step.
LEMMA SendInStep ==
  ASSUME NEW s \in BoundedState, NEW t \in BoundedState, NEW toT, NEW toS, WellNamed(toT),
         NEW unread, NEW a \in Nat, NEW b \in Nat, InStep(s, t, toT, toS, unread, a, b),
         CanEncrypt(s), NEW m, m.header = Seal(s).header, m.key = s.cks, m \notin toS
  PROVE  InStep(AfterEncrypt(s), t, toT \cup {m}, toS, unread \cup {m}, a + 1, b)
<1>1. CASE Ahead(s, t, toT, toS, unread, a, b)
  BY <1>1, EncryptAhead DEF InStep
<1>2. CASE Ahead(t, s, toS, toT, unread, b, a)
  BY <1>2, EncryptBehind DEF InStep
<1> QED
  BY <1>1, <1>2 DEF InStep

\* Two ends stay in step when less is unread, or more has been sent elsewhere.
LEMMA InStepGrows ==
  ASSUME NEW s \in BoundedState, NEW t \in BoundedState, NEW toT, NEW toS, NEW unread,
         NEW a \in Nat, NEW b \in Nat, InStep(s, t, toT, toS, unread, a, b),
         NEW less, (toT \cup toS) \cap less \subseteq unread,
         NEW a2 \in Nat, NEW b2 \in Nat, a <= a2, b <= b2
  PROVE  InStep(s, t, toT, toS, less, a2, b2)
<1>1. CASE Ahead(s, t, toT, toS, unread, a, b)
  BY <1>1, AheadGrows DEF InStep
<1>2. CASE Ahead(t, s, toS, toT, unread, b, a)
  BY <1>2, AheadGrows DEF InStep
<1> QED
  BY <1>1, <1>2 DEF InStep

\* A conversation starts in step.
LEMMA FirstInStep ==
  ASSUME NEW secret \in SUBSET DhOutput, NEW ad, NEW spk \in Key, NEW fields,
         NEW dhs \in Key \ {NoKey}, NEW unread, NEW a \in Nat, NEW b \in Nat
  PROVE  InStep(InitSender(secret, ad, spk, fields, dhs), InitReceiver(secret, ad, spk),
                {}, {}, unread, a, b)
<1> DEFINE s == InitSender(secret, ad, spk, fields, dhs)
           t == InitReceiver(secret, ad, spk)
<1>1. /\ s.rk = KdfRootKey(FirstRoot(secret), Dh(dhs, spk)) /\ s.dhs = dhs /\ s.dhr = spk
      /\ s.cks = FreshChain(s.rk) /\ s.ckr = NoChain /\ s.ns = 0 /\ s.nr = 0 /\ s.pn = 0
      /\ s.skipped = <<>>
  BY DEF InitSender
<1>2. /\ t.rk = FirstRoot(secret) /\ t.dhs = spk /\ t.dhr = NoKey
      /\ t.cks = NoChain /\ t.ckr = NoChain /\ t.ns = 0 /\ t.nr = 0
      /\ t.skipped = <<>>
  BY DEF InitReceiver
<1>3. NoChain.step = 0 /\ DOMAIN <<>> = {} /\ Len(<<>>) = 0
  BY DEF NoChain, FreshChain
<1> HIDE DEF s, t
<1>4. Turned(s, t)
  <2>1. Dh(dhs, spk) = Dh(spk, dhs)
    BY DEF Dh
  <2>2. s.rk = KdfRootKey(t.rk, Dh(t.dhs, s.dhs)) /\ t.dhr # s.dhs
    BY <1>1, <1>2, <2>1
  <2>3. s.cks.root = s.rk /\ s.cks.step = 0
    BY <1>1 DEF FreshChain
  <2> QED
    BY <1>1, <1>2, <1>3, <2>2, <2>3 DEF Turned
<1>5. \A dh, root : SealedOn({}, dh, root, 0)
  BY DEF SealedOn
<1>6. KeepsUp(t, {}, unread, 0, a) /\ KeepsUp(s, {}, unread, 0, b)
  <2>1. ASSUME NEW r, NEW budget \in Nat, r.ckr = NoChain, r.nr = 0, r.skipped = <<>>
        PROVE  KeepsUp(r, {}, unread, 0, budget)
    <3>1. r.ckr.step = r.nr /\ r.nr <= 0 /\ DOMAIN r.skipped = {}
      BY <1>3, <2>1
    <3>2. Len(r.skipped) + (0 - r.nr) <= budget
      BY <1>3, <2>1
    <3> QED
      BY <1>5, <3>1, <3>2 DEF KeepsUp
  <2> QED
    BY <1>1, <1>2, <2>1
<1>7. Under(s.dhs, {}) = {} /\ {} \ {} = {} /\ a - s.ns = a
  BY <1>1 DEF Under
<1>8. Ahead(s, t, {}, {}, unread, a, b)
  BY <1>1, <1>2, <1>4, <1>5, <1>6, <1>7, AheadParts
<1> QED
  BY <1>8 DEF InStep, s, t

-----------------------------------------------------------------------------
(* Every conversation stays in step                                        *)

\* No device sends more than one chain, or the skipped keys, have room for.
LEMMA SentBounds ==
  ASSUME Lossless, TypeOK, NEW d \in Device
  PROVE  sent[d] \in Nat /\ sent[d] <= MaxSkip + 1 /\ sent[d] <= MaxSkippedKeys + 1
<1>1. sent[d] \in Nat /\ sent[d] <= MaxSent[d] /\ MaxSent[d] \in Nat
  BY SessionBounds DEF TypeOK
<1>2. MaxSent[d] <= MaxSkip + 1 /\ MaxSent[d] <= MaxSkippedKeys + 1
  BY DEF Lossless
<1> QED
  BY <1>1, <1>2, RatchetLimits

\* A state that is bound to identity keys is a session.
LEMMA BoundIsSession ==
  ASSUME NEW d \in Device, NEW e \in Device, NEW s,
         s.associatedData = <<IdentityKey[d], IdentityKey[e]>>
  PROVE  s # NoSession
<1>1. IdentityKey[d] # NoKey
  BY KeysNumbered
<1>2. NoSession.associatedData = <<NoKey, NoKey>>
  BY DEF NoSession, InitReceiver
<1> QED
  BY <1>1, <1>2

\* The messages from one device to another.
LEMMA BetweenNamed ==
  ASSUME TypeOK, KeyInv, NEW d \in Device, NEW e \in Device
  PROVE  /\ WellNamed(Between(d, e))
         /\ \A m \in Between(d, e) :
              m \in net /\ m \in Message /\ m.from = d /\ m.to = e /\ m.header.dh # nextKey
<1>1. \A m \in Between(d, e) : m \in net /\ m \in Message /\ m.from = d /\ m.to = e
  BY DEF Between, TypeOK
<1>2. \A m \in net : MessageChain(m, nextKey)
  BY DEF KeyInv, MessageChains
<1>3. \A m \in Between(d, e) : m.key.step = m.header.n /\ m.header.dh < nextKey
  BY <1>1, <1>2 DEF MessageChain
<1>4. nextKey \in Nat
  BY DEF TypeOK, Key
<1>5. \A m \in Between(d, e) : m.header.dh # nextKey
  BY <1>3, <1>4
<1>6. \A m1, m2 \in Between(d, e) :
        m1.header.dh = m2.header.dh /\ m1.header.n = m2.header.n => m1 = m2
  BY <1>1 DEF KeyInv, HeadersUnique
<1> QED
  BY <1>1, <1>3, <1>5, <1>6 DEF WellNamed

\* A stored session that can send did so under older keys than the next.
LEMMA OlderKeys ==
  ASSUME TypeOK, KeyInv, NEW d \in Device, NEW e \in Device
  PROVE  /\ sessions[d][e] \in BoundedState
         /\ sessions[d][e].cks # NoChain => sessions[d][e].dhr # nextKey
<1>1. sessions[d][e] \in BoundedState
  BY StoredType
<1>2. ASSUME Sending(d, e) PROVE sessions[d][e].dhr # nextKey
  <2> DEFINE s == sessions[d][e]
  <2>1. s.dhs \in Nat /\ s.dhr \in Nat /\ s.dhr < s.dhs /\ s.dhs < nextKey
    BY <1>2, SendingFacts
  <2>2. nextKey \in Nat
    BY DEF TypeOK, Key
  <2> HIDE DEF s
  <2>3. s.dhr # nextKey
    BY <2>1, <2>2
  <2> QED
    BY <2>3 DEF s
<1> QED
  BY <1>1, <1>2 DEF Sending

\* So is the session that answers a conversation.
LEMMA OtherEnd ==
  ASSUME TypeOK, KeyInv, NEW d \in Device, NEW e \in Device
  PROVE  /\ Other(d, e) \in BoundedState
         /\ Other(d, e).cks # NoChain => Other(d, e).dhr # nextKey
<1>1. CASE sessions[e][d] # NoSession
  BY <1>1, OlderKeys DEF Other
<1>2. CASE sessions[e][d] = NoSession
  <2> DEFINE fields == sessions[d][e].pendingPreKey
             secret == SharedSecret(IdentityKey[d], fields.ek, IdentityKey[e], fields.spk,
                                    fields.opk)
             ad == <<IdentityKey[d], IdentityKey[e]>>
  <2>1. fields \in PreKeyFields
    BY DEF TypeOK, RatchetState
  <2>2. fields.ek \in Key /\ fields.spk \in Key /\ fields.opk \in Key
    BY <2>1 DEF PreKeyFields
  <2>3. IdentityKey[d] \in Key /\ IdentityKey[e] \in Key /\ ad \in Key \X Key
    BY InitialKeys
  <2>4. secret \in SUBSET DhOutput
    BY <2>2, <2>3, SharedSecretType
  <2>5. Other(d, e) = InitReceiver(secret, ad, fields.spk)
    BY <1>2 DEF Other, Responder
  <2> HIDE DEF secret, ad, fields
  <2> QED
    BY <2>2, <2>3, <2>4, <2>5, InitReceiverType
<1> QED
  BY <1>1, <1>2

\* In a conversation between d and e, e reads any message of d it has not read, with
\* its session or the one it will have.
LEMMA ResponderReads ==
  ASSUME Lossless, TypeOK, KeyInv, NEW d \in Device, NEW e \in Device, d # e,
         Conversation(d, e), NEW m \in Between(d, e), m \notin opened
  PROVE  LET w == AfterDecrypt(Other(d, e), m, nextKey)
         IN  /\ HasSession(d, e) /\ CanDecrypt(Other(d, e), m, nextKey)
             /\ w.associatedData = <<IdentityKey[d], IdentityKey[e]>>
             /\ InStep(sessions[d][e], w, Between(d, e), Between(e, d),
                       (net \ opened) \ {m}, sent[d], sent[e])
<1> DEFINE s == sessions[d][e]
           t == Other(d, e)
           a == sent[d]
           b == sent[e]
           toT == Between(d, e)
           toS == Between(e, d)
           unread == net \ opened
<1>1. HasSession(d, e)
  BY DEF Conversation
<1>2. Bound(d, e) /\ InStep(s, t, toT, toS, unread, a, b)
  BY <1>1 DEF Conversation
<1>3. s \in BoundedState /\ t \in BoundedState /\ (s.cks # NoChain => s.dhr # nextKey)
  BY OlderKeys, OtherEnd
<1>4. WellNamed(toT) /\ m \in toT \cap unread /\ m \notin toS
  BY BetweenNamed
<1>5. \A p \in toS : p.header.dh # nextKey
  BY BetweenNamed
<1>6. a \in Nat /\ b \in Nat /\ a <= MaxSkip + 1 /\ a <= MaxSkippedKeys + 1
  BY SentBounds
<1>7. m.associatedData = t.associatedData
      /\ t.associatedData = <<IdentityKey[d], IdentityKey[e]>>
  BY <1>2 DEF Bound
<1>8. nextKey \in Key
  BY DEF TypeOK
<1> HIDE DEF s, t, a, b, toT, toS, unread
<1>9. /\ CanDecrypt(t, m, nextKey)
      /\ AfterDecrypt(t, m, nextKey).associatedData = t.associatedData
      /\ InStep(s, AfterDecrypt(t, m, nextKey), toT, toS, unread \ {m}, a, b)
  BY <1>2, <1>3, <1>4, <1>5, <1>6, <1>7, <1>8, ReadInStep
<1> QED
  BY <1>1, <1>7, <1>9 DEF s, t, a, b, toT, toS, unread

\* So does d with what e has sent.
LEMMA InitiatorReads ==
  ASSUME Lossless, TypeOK, KeyInv, NEW d \in Device, NEW e \in Device, d # e,
         Conversation(d, e), NEW m \in Between(e, d), m \notin opened
  PROVE  LET w == AfterDecrypt(sessions[d][e], m, nextKey)
         IN  /\ HasSession(d, e) /\ HasSession(e, d)
             /\ CanDecrypt(sessions[d][e], m, nextKey)
             /\ w.associatedData = <<IdentityKey[d], IdentityKey[e]>>
             /\ InStep(w, sessions[e][d], Between(d, e), Between(e, d),
                       (net \ opened) \ {m}, sent[d], sent[e])
<1> DEFINE s == sessions[d][e]
           t == Other(d, e)
           a == sent[d]
           b == sent[e]
           toT == Between(d, e)
           toS == Between(e, d)
           unread == net \ opened
<1>1. HasSession(d, e)
  BY DEF Conversation
<1>2. Bound(d, e) /\ InStep(s, t, toT, toS, unread, a, b) /\ HasSession(e, d)
  BY <1>1 DEF Conversation, Unanswered
<1>3. t = sessions[e][d]
  BY <1>2 DEF Other
<1>4. s \in BoundedState /\ t \in BoundedState /\ (t.cks # NoChain => t.dhr # nextKey)
  BY OlderKeys, OtherEnd
<1>5. WellNamed(toS) /\ m \in toS \cap unread /\ m \notin toT
  BY BetweenNamed
<1>6. \A p \in toT : p.header.dh # nextKey
  BY BetweenNamed
<1>7. a \in Nat /\ b \in Nat /\ b <= MaxSkip + 1 /\ b <= MaxSkippedKeys + 1
  BY SentBounds
<1>8. m.associatedData = s.associatedData
      /\ s.associatedData = <<IdentityKey[d], IdentityKey[e]>>
  BY <1>2 DEF Bound
<1>9. nextKey \in Key
  BY DEF TypeOK
<1> HIDE DEF s, t, a, b, toT, toS, unread
<1>10. InStep(t, s, toS, toT, unread, b, a)
  BY <1>2 DEF InStep
<1>11. /\ CanDecrypt(s, m, nextKey)
       /\ AfterDecrypt(s, m, nextKey).associatedData = s.associatedData
       /\ InStep(t, AfterDecrypt(s, m, nextKey), toS, toT, unread \ {m}, b, a)
  BY <1>4, <1>5, <1>6, <1>7, <1>8, <1>9, <1>10, ReadInStep
<1>12. InStep(AfterDecrypt(s, m, nextKey), t, toT, toS, unread \ {m}, a, b)
  BY <1>11 DEF InStep
<1> QED
  BY <1>1, <1>2, <1>3, <1>8, <1>11, <1>12 DEF s, a, b, toT, toS, unread

\* Where one device starts every conversation, each message is of one of its own.
LEMMA Parties ==
  ASSUME OneStarts, TypeOK, FieldsInv, NEW m \in net
  PROVE  /\ m \in Message /\ m.from \in Device /\ m.to \in Device
         /\ m \in Between(m.from, m.to)
         /\ \/ m.from \in Initiators /\ m.to \in Device \ Initiators
            \/ m.to \in Initiators /\ m.from \in Device \ Initiators
         /\ m.prekey # NoPreKey => m.from \in Initiators
<1>1. m \in Message /\ m.from \in Device /\ m.to \in Device /\ m \in Between(m.from, m.to)
  BY DEF TypeOK, Message, Between
<1>2. m.from # m.to /\ (m.prekey # NoPreKey => m.from \in Initiators)
  BY DEF FieldsInv, FieldsShown
<1>3. CASE m.from \in Initiators
  BY <1>1, <1>2, <1>3 DEF OneStarts
<1>4. CASE m.from \notin Initiators
  <2>1. Answered(m.to, m.from)
    BY <1>1, <1>4 DEF FieldsInv, FieldsKept
  <2>2. PICK p \in opened : p.from = m.to /\ p.prekey # NoPreKey
    BY <2>1 DEF Answered
  <2>3. m.to \in Initiators
    BY <2>2 DEF TypeOK, FieldsInv, FieldsShown
  <2> QED
    BY <1>1, <1>2, <1>4, <2>3
<1> QED
  BY <1>1, <1>2, <1>3, <1>4

\* A conversation a step does not touch stays as it is.
LEMMA ConversationStays ==
  ASSUME TypeOK, TypeOK', KeyInv, NEW d \in Device, NEW e \in Device, Conversation(d, e),
         sessions'[d][e] = sessions[d][e], sessions'[e][d] = sessions[e][d],
         Between(d, e)' = Between(d, e), Between(e, d)' = Between(e, d),
         \A m \in Between(d, e) \cup Between(e, d) : m \in opened' <=> m \in opened,
         sent[d] <= sent'[d], sent[e] <= sent'[e],
         HasSession(d, e) /\ ~HasSession(e, d) /\ Answerable(d, e) => Answerable(d, e)',
         HasSession(d, e) /\ HasSession(e, d) => \A h \in Answers(d, e)' : h.msg \in opened'
  PROVE  Conversation(d, e)'
<1>1. Other(d, e)' = Other(d, e)
  BY DEF Other, Responder
<1>2. CASE ~HasSession(d, e)
  BY <1>2 DEF Conversation
<1>3. CASE HasSession(d, e)
  <2>1. Bound(d, e)'
    BY <1>1, <1>3 DEF Conversation, Bound
  <2>2. InStep(sessions'[d][e], Other(d, e)', Between(d, e)', Between(e, d)', net' \ opened',
               sent'[d], sent'[e])
    <3> DEFINE s == sessions[d][e]
               t == Other(d, e)
               toT == Between(d, e)
               toS == Between(e, d)
               unread == net \ opened
               less == net' \ opened'
               a == sent[d]
               b == sent[e]
               a2 == sent'[d]
               b2 == sent'[e]
    <3>1. InStep(s, t, toT, toS, unread, a, b)
      BY <1>3 DEF Conversation
    <3>2. (toT \cup toS) \cap less \subseteq unread
      BY BetweenNamed
    <3>3. s \in BoundedState /\ t \in BoundedState
      BY OlderKeys, OtherEnd
    <3>4. a \in Nat /\ b \in Nat /\ a2 \in Nat /\ b2 \in Nat /\ a <= a2 /\ b <= b2
      BY DEF TypeOK
    <3> HIDE DEF s, t, toT, toS, unread, less, a, b, a2, b2
    <3>5. InStep(s, t, toT, toS, less, a2, b2)
      BY <3>1, <3>2, <3>3, <3>4, InStepGrows
    <3> QED
      BY <1>1, <3>5 DEF s, t, toT, toS, less, a2, b2
  <2>3. CASE HasSession(e, d)
    BY <1>3, <2>1, <2>2, <2>3 DEF Conversation
  <2>4. CASE ~HasSession(e, d)
    <3>1. Unanswered(d, e)
      BY <1>3, <2>4 DEF Conversation
    <3>2. Unanswered(d, e)'
      <4>1. Between(e, d)' = {} /\ Between(d, e)' \cap opened' = {}
        BY <3>1 DEF Unanswered
      <4>2. \A m \in Between(d, e)' : m.prekey = sessions'[d][e].pendingPreKey
        BY <3>1 DEF Unanswered
      <4> QED
        BY <1>3, <2>4, <3>1, <4>1, <4>2 DEF Unanswered
    <3> QED
      BY <1>3, <2>1, <2>2, <2>4, <3>2 DEF Conversation
  <2> QED
    BY <2>3, <2>4
<1> QED
  BY <1>2, <1>3

\* No signed prekey a device holds is dropped.
HoldsOn == \A e \in Device : \A k : Holds(e, k) => Holds(e, k)'

\* A step that sends, reads and answers nothing leaves every conversation as it is.
LEMMA QuietConversations ==
  ASSUME TypeOK, TypeOK', KeyInv, Conversations, HoldsOn,
         sessions' = sessions, oneTimePreKeys' = oneTimePreKeys, handshakes' = handshakes,
         net' = net, sent' = sent, opened' = opened
  PROVE  Conversations'
<1> SUFFICES ASSUME NEW d \in Initiators, NEW e \in Device \ Initiators
             PROVE  Conversation(d, e)'
  BY DEF Conversations
<1>1. d \in Device /\ e \in Device /\ Conversation(d, e)
  BY SessionBounds DEF Conversations
<1>2. /\ Between(d, e)' = Between(d, e) /\ Between(e, d)' = Between(e, d)
      /\ Answers(d, e)' = Answers(d, e)
  BY DEF Between, Answers
<1>3. Answerable(d, e) => Answerable(d, e)'
  BY <1>1, <1>2 DEF Answerable, HoldsOn
<1>4. HasSession(d, e) /\ HasSession(e, d) => \A h \in Answers(d, e)' : h.msg \in opened'
  BY <1>1, <1>2 DEF Conversation
<1>5. sent[d] <= sent'[d] /\ sent[e] <= sent'[e]
  BY <1>1 DEF TypeOK
<1> QED
  BY <1>1, <1>2, <1>3, <1>4, <1>5, ConversationStays

\* A device starts to answer a prekey message: it has read it, or uses what it
\* names.
LEMMA BeginConversations ==
  ASSUME OneStarts, Lossless, TypeOK, TypeOK', KeyInv, FieldsInv, Conversations,
         NEW m \in net, BeginHandshake(m.to, m)
  PROVE  Conversations'
<1> DEFINE p == m.from
           q == m.to
           h == [msg |-> m, opk |-> TakenPreKey(q, m.prekey.opk)]
<1>1. /\ m \in Message /\ p \in Device /\ q \in Device /\ m \in Between(p, q)
      /\ p \in Initiators /\ q \in Device \ Initiators
  BY Parties DEF BeginHandshake
<1>2. /\ handshakes' = handshakes \cup {h}
      /\ oneTimePreKeys' = [oneTimePreKeys EXCEPT ![q] = oneTimePreKeys[q] \ {m.prekey.opk}]
      /\ sessions' = sessions /\ signedPreKeys' = signedPreKeys
      /\ net' = net /\ sent' = sent /\ opened' = opened
  BY DEF BeginHandshake, history
<1>3. ~Locked(q, p) /\ ~Readable(q, m)
  BY DEF BeginHandshake, Arrives
<1>4. h.msg = m /\ h.opk = TakenPreKey(q, m.prekey.opk)
  OBVIOUS
<1> HIDE DEF h
<1> SUFFICES ASSUME NEW d \in Initiators, NEW e \in Device \ Initiators
             PROVE  Conversation(d, e)'
  BY DEF Conversations
<1>5. d \in Device /\ e \in Device /\ Conversation(d, e) /\ d = p
  BY <1>1, SessionBounds DEF Conversations, OneStarts
<1>6. Between(d, e)' = Between(d, e) /\ Between(e, d)' = Between(e, d)
  BY <1>2 DEF Between
<1>7. sent[d] <= sent'[d] /\ sent[e] <= sent'[e]
  BY <1>2, <1>5 DEF TypeOK
<1>8. CASE e # q
  <2>1. Answers(d, e)' = Answers(d, e)
    BY <1>2, <1>4, <1>8 DEF Answers
  <2>2. oneTimePreKeys'[e] = oneTimePreKeys[e]
    BY <1>2, <1>8 DEF TypeOK
  <2>3. Answerable(d, e) => Answerable(d, e)'
    BY <1>2, <2>1, <2>2 DEF Answerable, Holds
  <2>4. HasSession(d, e) /\ HasSession(e, d) => \A g \in Answers(d, e)' : g.msg \in opened'
    BY <1>2, <1>5, <2>1 DEF Conversation
  <2> QED
    BY <1>2, <1>5, <1>6, <1>7, <2>3, <2>4, ConversationStays
<1>9. CASE e = q
  <2>1. Answers(d, e) = {} /\ Answers(d, e)' = {h}
    <3>1. \A g \in handshakes : ~(g.msg.to = q /\ g.msg.from = p)
      BY <1>3 DEF Locked
    <3> QED
      BY <1>2, <1>4, <1>5, <1>9, <3>1 DEF Answers
  <2>2. m \in Between(d, e) /\ HasSession(d, e)
    BY <1>1, <1>5, <1>9 DEF Conversation
  <2>3. HasSession(e, d) => m \in opened
    <3> SUFFICES ASSUME HasSession(e, d), m \notin opened PROVE FALSE
      OBVIOUS
    <3>1. CanDecrypt(Other(d, e), m, nextKey)
      BY <1>5, <2>2, ResponderReads
    <3> QED
      BY <1>3, <1>5, <1>9, <3>1 DEF Readable, Other
  <2>4. ~HasSession(e, d) => Answerable(d, e)'
    <3> SUFFICES ASSUME ~HasSession(e, d) PROVE Answerable(d, e)'
      OBVIOUS
    <3>1. Answerable(d, e) /\ m.prekey = sessions[d][e].pendingPreKey
      BY <1>5, <2>2 DEF Conversation, Unanswered
    <3>2. m.prekey.opk \in oneTimePreKeys[e]
      BY <2>1, <3>1 DEF Answerable
    <3>3. h.opk = sessions[d][e].pendingPreKey.opk
      BY <1>4, <1>9, <3>1, <3>2 DEF TakenPreKey
    <3> QED
      BY <1>2, <2>1, <3>1, <3>3 DEF Answerable, Holds
  <2>5. HasSession(d, e) /\ HasSession(e, d) => \A g \in Answers(d, e)' : g.msg \in opened'
    BY <1>2, <1>4, <2>1, <2>3
  <2> QED
    BY <1>2, <1>5, <1>6, <1>7, <2>4, <2>5, ConversationStays
<1> QED
  BY <1>8, <1>9

\* A conversation in which both ends have a session and are in step.
LEMMA ConversationGoesOn ==
  ASSUME NEW d \in Device, NEW e \in Device, Conversation(d, e), HasSession(d, e),
         sessions'[d][e].associatedData = <<IdentityKey[d], IdentityKey[e]>>,
         sessions'[e][d].associatedData = <<IdentityKey[d], IdentityKey[e]>>,
         Between(d, e)' = Between(d, e), Between(e, d)' = Between(e, d),
         InStep(sessions'[d][e], sessions'[e][d], Between(d, e), Between(e, d),
                net' \ opened', sent'[d], sent'[e]),
         \A h \in Answers(d, e)' : h.msg \in opened'
  PROVE  Conversation(d, e)'
<1>1. HasSession(d, e)' /\ HasSession(e, d)'
  BY BoundIsSession
<1>2. Other(d, e)' = sessions'[e][d]
  BY <1>1 DEF Other
<1>3. Bound(d, e)'
  BY <1>2 DEF Conversation, Bound
<1> QED
  BY <1>1, <1>2, <1>3 DEF Conversation

\* Reading with the stored session, or the one that answers.
LEMMA AdvanceConversations ==
  ASSUME OneStarts, Lossless, TypeOK, TypeOK', KeyInv, FieldsInv, Conversations,
         NEW m \in net, m \notin opened, NEW s \in BoundedState, Advance(m.to, m, s),
         net' = net, sent' = sent, signedPreKeys' = signedPreKeys,
         oneTimePreKeys' = oneTimePreKeys, handshakes' \subseteq handshakes,
         \A h \in handshakes \ handshakes' : h.msg = m,
         \/ HasSession(m.to, m.from) /\ s = sessions[m.to][m.from]
         \/ /\ ~HasSession(m.to, m.from) /\ s = Other(m.from, m.to)
            /\ m.from \in Initiators /\ Answers(m.from, m.to)' = {}
  PROVE  Conversations'
<1> DEFINE p == m.from
           q == m.to
           w == AfterDecrypt(s, m, nextKey)
<1>1. /\ m \in Message /\ p \in Device /\ q \in Device /\ m \in Between(p, q)
      /\ \/ p \in Initiators /\ q \in Device \ Initiators
         \/ q \in Initiators /\ p \in Device \ Initiators
  BY Parties
<1>2. sessions' = [sessions EXCEPT ![q][p] = w] /\ opened' = opened \cup {m}
  BY DEF Advance
<1>3. w \in BoundedState
  BY <1>1, AfterDecryptType DEF Message, TypeOK
<1> HIDE DEF w
<1>4. \A f, g \in Device :
        sessions'[f][g] = IF f = q /\ g = p THEN w ELSE sessions[f][g]
  <2>1. sessions \in [Device -> [Device -> RatchetState]]
    BY DEF TypeOK
  <2> HIDE DEF p, q
  <2> QED
    BY <1>1, <1>2, <2>1
<1>5. net' \ opened' = (net \ opened) \ {m}
  BY <1>2
<1> SUFFICES ASSUME NEW d \in Initiators, NEW e \in Device \ Initiators
             PROVE  Conversation(d, e)'
  BY DEF Conversations
<1>6. d \in Device /\ e \in Device /\ Conversation(d, e) /\ d # e
  BY SessionBounds DEF Conversations
<1>7. Between(d, e)' = Between(d, e) /\ Between(e, d)' = Between(e, d)
  BY DEF Between
<1>8. Answers(d, e)' \subseteq Answers(d, e)
  BY DEF Answers
<1>9. CASE d = p /\ e = q
  <2>1. m \in Between(d, e) /\ s = Other(d, e)
    BY <1>1, <1>9 DEF Other
  <2>2. /\ HasSession(d, e) /\ w.associatedData = <<IdentityKey[d], IdentityKey[e]>>
        /\ InStep(sessions[d][e], w, Between(d, e), Between(e, d),
                  (net \ opened) \ {m}, sent[d], sent[e])
    BY <1>6, <2>1, ResponderReads DEF w
  <2>3. sessions'[e][d] = w /\ sessions'[d][e] = sessions[d][e]
    BY <1>4, <1>6, <1>9
  <2>4. sessions[d][e].associatedData = <<IdentityKey[d], IdentityKey[e]>>
    BY <1>6, <2>2 DEF Conversation, Bound
  <2>5. \A h \in Answers(d, e)' : h.msg \in opened'
    <3>1. CASE HasSession(e, d)
      BY <1>2, <1>6, <1>8, <2>2, <3>1 DEF Conversation
    <3>2. CASE ~HasSession(e, d)
      BY <1>9, <3>2
    <3> QED
      BY <3>1, <3>2
  <2> QED
    BY <1>5, <1>6, <1>7, <2>2, <2>3, <2>4, <2>5, ConversationGoesOn
<1>10. CASE e = p /\ d = q
  <2>1. m \in Between(e, d) /\ s = sessions[d][e]
    BY <1>1, <1>10
  <2>2. /\ HasSession(d, e) /\ HasSession(e, d)
        /\ w.associatedData = <<IdentityKey[d], IdentityKey[e]>>
        /\ InStep(w, sessions[e][d], Between(d, e), Between(e, d),
                  (net \ opened) \ {m}, sent[d], sent[e])
    BY <1>6, <2>1, InitiatorReads DEF w
  <2>3. sessions'[d][e] = w /\ sessions'[e][d] = sessions[e][d]
    BY <1>4, <1>6, <1>10
  <2>4. sessions[e][d].associatedData = <<IdentityKey[d], IdentityKey[e]>>
    BY <1>6, <2>2 DEF Conversation, Bound, Other
  <2>5. \A h \in Answers(d, e)' : h.msg \in opened'
    BY <1>2, <1>6, <1>8, <2>2 DEF Conversation
  <2> QED
    BY <1>5, <1>6, <1>7, <2>2, <2>3, <2>4, <2>5, ConversationGoesOn
<1>11. CASE ~(d = p /\ e = q) /\ ~(e = p /\ d = q)
  <2>1. sessions'[d][e] = sessions[d][e] /\ sessions'[e][d] = sessions[e][d]
    BY <1>4, <1>6, <1>11
  <2>2. \A n \in Between(d, e) \cup Between(e, d) : n \in opened' <=> n \in opened
    BY <1>2, <1>11 DEF Between
  <2>3. Answers(d, e)' = Answers(d, e)
    BY <1>8, <1>11 DEF Answers
  <2>4. Answerable(d, e) => Answerable(d, e)'
    BY <2>1, <2>3 DEF Answerable, Holds
  <2>5. HasSession(d, e) /\ HasSession(e, d) => \A h \in Answers(d, e)' : h.msg \in opened'
    BY <1>2, <1>6, <2>3 DEF Conversation
  <2>6. sent[d] <= sent'[d] /\ sent[e] <= sent'[e]
    BY <1>6 DEF TypeOK
  <2> QED
    BY <1>6, <1>7, <2>1, <2>2, <2>4, <2>5, <2>6, ConversationStays
<1> QED
  BY <1>9, <1>10, <1>11

\* A message that the stored session reads.
LEMMA ReceiveConversations ==
  ASSUME OneStarts, Lossless, TypeOK, TypeOK', KeyInv, ReadInv, FieldsInv, Conversations,
         NEW m \in net, ReceiveOnSession(m.to, m)
  PROVE  Conversations'
<1>1. m \notin opened
  BY ReceiveReadInv
<1>2. m.to \in Device /\ m.from \in Device
  BY DEF TypeOK, Message
<1>3. sessions[m.to][m.from] \in BoundedState
  BY <1>2, StoredType
<1>4. /\ HasSession(m.to, m.from) /\ Advance(m.to, m, sessions[m.to][m.from])
      /\ net' = net /\ sent' = sent /\ signedPreKeys' = signedPreKeys
      /\ oneTimePreKeys' = oneTimePreKeys /\ handshakes' = handshakes
  BY DEF ReceiveOnSession, Readable
<1> QED
  BY <1>1, <1>3, <1>4, AdvanceConversations

\* Until e has a session, all it has from d names the handshake it is answering.
LEMMA UnansweredParts ==
  ASSUME NEW d \in Device, NEW e \in Device, Conversation(d, e), HasSession(d, e),
         ~HasSession(e, d)
  PROVE  /\ \A m \in Between(d, e) :
              m.prekey = sessions[d][e].pendingPreKey /\ m \notin opened
         /\ \A h \in Answers(d, e) : h.opk = sessions[d][e].pendingPreKey.opk
<1>1. Unanswered(d, e)
  BY DEF Conversation
<1>2. Answerable(d, e) /\ Between(d, e) \cap opened = {}
  BY <1>1 DEF Unanswered
<1>3. \A h \in Answers(d, e) : h.opk = sessions[d][e].pendingPreKey.opk
  BY <1>2 DEF Answerable
<1> QED
  BY <1>1, <1>2, <1>3 DEF Unanswered

\* A handshake that is answered: for the first time, or again in vain.
LEMMA FinishConversations ==
  ASSUME OneStarts, Lossless, TypeOK, TypeOK', KeyInv, ReadInv, FieldsInv, Conversations,
         NEW h \in handshakes, FinishHandshake(h)
  PROVE  Conversations'
<1> DEFINE m == h.msg
           p == h.msg.from
           q == h.msg.to
           s == Respond(q, m, h.opk)
<1>1. m \in net /\ h.opk \in Key /\ m.prekey # NoPreKey
  BY DEF TypeOK, Handshake, FieldsInv, FieldsShown
<1>2. /\ m \in Message /\ p \in Device /\ q \in Device /\ m \in Between(p, q)
      /\ p \in Initiators /\ q \in Device \ Initiators
  BY <1>1, Parties
<1>3. Conversation(p, q) /\ p # q
  BY <1>2 DEF Conversations
<1>4. HasSession(p, q)
  BY <1>2, <1>3 DEF Conversation
<1>5. /\ handshakes' = handshakes \ {h} /\ net' = net /\ sent' = sent
      /\ signedPreKeys' = signedPreKeys /\ oneTimePreKeys' = oneTimePreKeys
  BY DEF FinishHandshake
<1>6. \/ CanDecrypt(s, m, nextKey) /\ Advance(q, m, s)
      \/ ~CanDecrypt(s, m, nextKey) /\ Fail(m)
  BY DEF FinishHandshake
<1>7. h \in Answers(p, q)
  BY DEF Answers
<1> HIDE DEF s
<1>8. CASE ~HasSession(q, p)
  <2>1. /\ \A n \in Between(p, q) :
             n.prekey = sessions[p][q].pendingPreKey /\ n \notin opened
        /\ \A g \in Answers(p, q) : g.opk = sessions[p][q].pendingPreKey.opk
    BY <1>2, <1>3, <1>4, <1>8, UnansweredParts
  <2>2. m.prekey = sessions[p][q].pendingPreKey /\ m \notin opened
    BY <1>2, <2>1
  <2>3. \A g \in Answers(p, q) : g.opk = m.prekey.opk
    BY <2>1, <2>2
  <2>4. s = Other(p, q)
    BY <1>7, <1>8, <2>2, <2>3 DEF Other, Responder, Respond, s
  <2>5. CanDecrypt(s, m, nextKey) /\ s \in BoundedState
    BY <1>2, <1>3, <2>2, <2>4, ResponderReads, OtherEnd
  <2>6. Answers(p, q)' = {}
    <3>1. MessageSecret(m)
      BY <1>1 DEF ReadInv, SecretsNamed
    <3>2. m.prekey.opk \in OneTimePreKeys[q]
      BY <1>1, <3>1 DEF MessageSecret, Introduces
    <3>3. m.prekey.opk # NoKey
      BY <1>2, <3>2, NotInPools
    <3>4. \A g \in Answers(p, q) : g \in handshakes /\ g = h
      BY <1>7, <2>3, <3>3 DEF ReadInv, HandshakesApart, Answers
    <3> QED
      BY <1>5, <3>4 DEF Answers
  <2>7. Advance(m.to, m, s)
    BY <1>6, <2>5
  <2>8. handshakes' \subseteq handshakes /\ \A g \in handshakes \ handshakes' : g.msg = m
    BY <1>5
  <2> QED
    BY <1>1, <1>2, <1>5, <1>8, <2>2, <2>4, <2>5, <2>6, <2>7, <2>8, AdvanceConversations
<1>9. CASE HasSession(q, p)
  <2>1. m \in opened
    BY <1>3, <1>4, <1>7, <1>9 DEF Conversation
  <2>2. Fail(m)
    BY <1>6, <2>1, FinishReadInv DEF s
  <2>3. sessions' = sessions /\ opened' = opened
    BY <2>2 DEF Fail
  <2> SUFFICES ASSUME NEW d \in Initiators, NEW e \in Device \ Initiators
               PROVE  Conversation(d, e)'
    BY DEF Conversations
  <2>4. d \in Device /\ e \in Device /\ Conversation(d, e) /\ d = p
    BY <1>2, SessionBounds DEF Conversations, OneStarts
  <2>5. Between(d, e)' = Between(d, e) /\ Between(e, d)' = Between(e, d)
    BY <1>5 DEF Between
  <2>6. Answers(d, e)' \subseteq Answers(d, e) /\ (e # q => Answers(d, e)' = Answers(d, e))
    BY <1>5 DEF Answers
  <2>7. ~HasSession(e, d) /\ Answerable(d, e) => Answerable(d, e)'
    BY <1>5, <1>9, <2>3, <2>4, <2>6 DEF Answerable, Holds
  <2>8. HasSession(d, e) /\ HasSession(e, d) => \A g \in Answers(d, e)' : g.msg \in opened'
    BY <2>3, <2>4, <2>6 DEF Conversation
  <2>9. sent[d] <= sent'[d] /\ sent[e] <= sent'[e]
    BY <1>5, <2>4 DEF TypeOK
  <2> QED
    BY <2>3, <2>4, <2>5, <2>7, <2>8, <2>9, ConversationStays
<1> QED
  BY <1>8, <1>9

\* The device d sends m to e on the session s.
Sends(d, e, s, m) ==
  /\ sessions' = [sessions EXCEPT ![d][e] = AfterEncrypt(s)]
  /\ net' = net \cup {m} /\ m \notin net
  /\ sent' = [sent EXCEPT ![d] = sent[d] + 1]
  /\ signedPreKeys' = signedPreKeys /\ oneTimePreKeys' = oneTimePreKeys
  /\ handshakes' = handshakes /\ opened' = opened
  /\ m.from = d /\ m.to = e /\ m.header = Seal(s).header /\ m.key = s.cks
  /\ m.associatedData = s.associatedData /\ m.prekey = s.pendingPreKey

\* encryptTo sends one message, which the server has not seen yet.
LEMMA EncryptSends ==
  ASSUME TypeOK, KeyInv, FieldsInv, NEW d \in Device, NEW b \in fetched[d], EncryptTo(d, b)
  PROVE  /\ b \in Bundle /\ b.owner \in Device /\ b.owner # d
         /\ Outbound(d, b) \in BoundedState /\ CanEncrypt(Outbound(d, b))
         /\ \E m : Sends(d, b.owner, Outbound(d, b), m)
<1> DEFINE e == b.owner
           s == Outbound(d, b)
           m == [from |-> d, to |-> e, body |-> sent[d], header |-> Seal(s).header,
                 key |-> Seal(s).key, associatedData |-> Seal(s).associatedData,
                 prekey |-> Seal(s).prekey]
<1>1. /\ b \in Bundle /\ e \in Device /\ e # d
      /\ nextKey \in Nat /\ nextKey \in Key /\ nextKey + 1 \in Key
  <2>1. b \in Bundle /\ nextKey \in Key /\ b.owner # d
    BY DEF TypeOK, FieldsInv, FieldsShown
  <2> QED
    BY <2>1 DEF Bundle, Key
<1>2. s \in BoundedState
  BY <1>1, StoredType, InitiateType
<1>3. /\ sessions' = [sessions EXCEPT ![d][e] = AfterEncrypt(s)]
      /\ net' = net \cup {m} /\ sent' = [sent EXCEPT ![d] = sent[d] + 1]
      /\ signedPreKeys' = signedPreKeys /\ oneTimePreKeys' = oneTimePreKeys
      /\ handshakes' = handshakes /\ opened' = opened /\ CanEncrypt(s)
  <2>1. /\ sessions' = [sessions EXCEPT ![d][e] = AfterEncrypt(s)] /\ net' = net \cup {m}
    BY Zenon DEF EncryptTo
  <2>2. /\ sent' = [sent EXCEPT ![d] = sent[d] + 1] /\ CanEncrypt(s)
        /\ signedPreKeys' = signedPreKeys /\ oneTimePreKeys' = oneTimePreKeys
        /\ handshakes' = handshakes /\ opened' = opened
    BY Zenon DEF EncryptTo, history
  <2> QED
    BY <2>1, <2>2
<1>4. /\ m.from = d /\ m.to = e /\ m.header = Seal(s).header /\ m.key = s.cks
      /\ m.associatedData = s.associatedData /\ m.prekey = s.pendingPreKey
      /\ m.header.dh = s.dhs /\ m.header.n = s.ns
  BY DEF Seal
<1>5. \A n \in net : n.header.dh = s.dhs => n.header.n < s.ns
  <2>1. CASE sessions[d][e] # NoSession
    <3>1. s = sessions[d][e]
      BY <2>1
    <3>2. Sending(d, e)
      BY <1>3, <3>1 DEF Sending, CanEncrypt
    <3> QED
      BY <1>1, <3>1, <3>2 DEF KeyInv, CountersAhead
  <2>2. CASE sessions[d][e] = NoSession
    <3>1. s = Initiate(d, b, nextKey, nextKey + 1)
      BY <2>2
    <3>2. s.dhs = nextKey + 1
      <4> HIDE DEF s
      <4> QED
        BY <1>1, <3>1, InitiateType
    <3>3. \A n \in net : n.header.dh < nextKey /\ n.header.dh \in Nat
      BY DEF KeyInv, MessageChains, MessageChain, TypeOK, Message, Header, Key
    <3> HIDE DEF s
    <3> QED
      BY <1>1, <3>2, <3>3
  <2> QED
    BY <2>1, <2>2
<1>6. s.ns \in Nat
  BY <1>2, StateFields
<1> HIDE DEF s, m
<1>7. m \notin net
  BY <1>4, <1>5, <1>6
<1>8. Sends(d, e, s, m)
  BY <1>3, <1>4, <1>7 DEF Sends
<1> QED
  BY <1>1, <1>2, <1>3, <1>8 DEF s

\* What a step that sends does to the conversations it is not about.
LEMMA SendingElsewhere ==
  ASSUME TypeOK, TypeOK', KeyInv, Conversations, NEW f \in Device, NEW g \in Device, NEW s,
         NEW m, Sends(f, g, s, m), AfterEncrypt(s) \in BoundedState,
         NEW d \in Initiators, NEW e \in Device \ Initiators,
         ~(d = f /\ e = g), ~(d = g /\ e = f)
  PROVE  Conversation(d, e)'
<1>1. d \in Device /\ e \in Device /\ Conversation(d, e)
  BY SessionBounds DEF Conversations
<1>2. /\ sessions' = [sessions EXCEPT ![f][g] = AfterEncrypt(s)]
      /\ sent' = [sent EXCEPT ![f] = sent[f] + 1] /\ handshakes' = handshakes
      /\ signedPreKeys' = signedPreKeys /\ oneTimePreKeys' = oneTimePreKeys
      /\ opened' = opened
  BY DEF Sends
<1>3. \A x, y \in Device :
        sessions'[x][y] = IF x = f /\ y = g THEN AfterEncrypt(s) ELSE sessions[x][y]
  <2> DEFINE t == AfterEncrypt(s)
  <2>1. sessions' = [sessions EXCEPT ![f][g] = t]
    BY <1>2
  <2>2. sessions \in [Device -> [Device -> RatchetState]]
    BY DEF TypeOK
  <2> HIDE DEF t
  <2>3. \A x, y \in Device :
          sessions'[x][y] = IF x = f /\ y = g THEN t ELSE sessions[x][y]
    BY <2>1, <2>2
  <2> QED
    BY <2>3 DEF t
<1>4. sessions'[d][e] = sessions[d][e] /\ sessions'[e][d] = sessions[e][d]
  BY <1>1, <1>3
<1>5. Between(d, e)' = Between(d, e) /\ Between(e, d)' = Between(e, d)
  BY DEF Between, Sends
<1>6. sent[d] <= sent'[d] /\ sent[e] <= sent'[e]
  <2>1. sent \in [Device -> Nat]
    BY DEF TypeOK
  <2> QED
    BY <1>1, <1>2, <2>1
<1>7. Answers(d, e)' = Answers(d, e) /\ opened' = opened
  BY <1>2 DEF Answers
<1>8. Answerable(d, e) => Answerable(d, e)'
  BY <1>4, <1>7, <1>2 DEF Answerable, Holds
<1>9. HasSession(d, e) /\ HasSession(e, d) => \A h \in Answers(d, e)' : h.msg \in opened'
  BY <1>1, <1>7 DEF Conversation
<1> QED
  BY <1>1, <1>4, <1>5, <1>6, <1>7, <1>8, <1>9, ConversationStays

\* The device that starts conversations sends, on a session in step with the one
\* that answers, or will.
LEMMA InitiatorSends ==
  ASSUME TypeOK, TypeOK', KeyInv, NEW d \in Initiators, NEW e \in Device \ Initiators,
         NEW s \in BoundedState, CanEncrypt(s), NEW t \in BoundedState, NEW m,
         Sends(d, e, s, m),
         InStep(s, t, Between(d, e), Between(e, d), net \ opened, sent[d], sent[e]),
         s.associatedData = <<IdentityKey[d], IdentityKey[e]>>,
         t.associatedData = <<IdentityKey[d], IdentityKey[e]>>,
         \A n \in Between(d, e) \cup Between(e, d) :
           n.associatedData = <<IdentityKey[d], IdentityKey[e]>>,
         HasSession(e, d) => t = sessions[e][d] /\ \A h \in Answers(d, e) : h.msg \in opened,
         ~HasSession(e, d) =>
           /\ t = InitReceiver(SharedSecret(IdentityKey[d], s.pendingPreKey.ek,
                                            IdentityKey[e], s.pendingPreKey.spk,
                                            s.pendingPreKey.opk),
                               <<IdentityKey[d], IdentityKey[e]>>, s.pendingPreKey.spk)
           /\ Between(e, d) = {} /\ Between(d, e) \cap opened = {}
           /\ \A n \in Between(d, e) : n.prekey = s.pendingPreKey
           /\ Holds(e, s.pendingPreKey.spk)
           /\ \A h \in Answers(d, e) : h.opk = s.pendingPreKey.opk
           /\ Answers(d, e) # {} \/ s.pendingPreKey.opk \in oneTimePreKeys[e]
  PROVE  Conversation(d, e)'
<1> DEFINE u == AfterEncrypt(s)
           a == sent[d]
           b == sent[e]
           toT == Between(d, e)
           toS == Between(e, d)
           unread == net \ opened
           ad == <<IdentityKey[d], IdentityKey[e]>>
<1>1. d \in Device /\ e \in Device /\ d # e
  BY SessionBounds
<1>2. /\ sessions' = [sessions EXCEPT ![d][e] = u]
      /\ net' = net \cup {m} /\ m \notin net
      /\ sent' = [sent EXCEPT ![d] = sent[d] + 1]
      /\ signedPreKeys' = signedPreKeys /\ oneTimePreKeys' = oneTimePreKeys
      /\ handshakes' = handshakes /\ opened' = opened
  BY DEF Sends
<1>3. /\ m.from = d /\ m.to = e /\ m.header = Seal(s).header /\ m.key = s.cks
      /\ m.associatedData = s.associatedData /\ m.prekey = s.pendingPreKey
  BY DEF Sends
<1>4. u.associatedData = s.associatedData /\ u.pendingPreKey = s.pendingPreKey
  BY EncryptLeaves
<1> HIDE DEF u
<1>5. sessions'[d][e] = u /\ sessions'[e][d] = sessions[e][d]
  BY <1>1, <1>2 DEF TypeOK
<1>6. Between(d, e)' = toT \cup {m} /\ Between(e, d)' = toS /\ Answers(d, e)' = Answers(d, e)
  BY <1>1, <1>2, <1>3 DEF Between, Answers
<1>7. a \in Nat /\ b \in Nat /\ sent'[d] = a + 1 /\ sent'[e] = b
  BY <1>1, <1>2 DEF TypeOK
<1>8. net' \ opened' = unread \cup {m} /\ m \notin opened /\ m \notin toS
  BY <1>2 DEF TypeOK, Between
<1>9. WellNamed(toT)
  BY <1>1, BetweenNamed
<1>10. Other(d, e)' = t
  BY <1>4, <1>5 DEF Other, Responder
<1>11. InStep(sessions'[d][e], Other(d, e)', Between(d, e)', Between(e, d)', net' \ opened',
              sent'[d], sent'[e])
  <2> DEFINE more == unread \cup {m}
             all == toT \cup {m}
             a1 == a + 1
  <2>1. InStep(s, t, toT, toS, unread, a, b)
    OBVIOUS
  <2> HIDE DEF a, b, toT, toS, unread
  <2>2. InStep(u, t, all, toS, more, a1, b)
    BY <1>3, <1>7, <1>8, <1>9, <2>1, SendInStep DEF u
  <2> HIDE DEF more, all, a1
  <2>3. /\ sessions'[d][e] = u /\ Other(d, e)' = t /\ Between(d, e)' = all
        /\ Between(e, d)' = toS /\ net' \ opened' = more /\ sent'[d] = a1 /\ sent'[e] = b
    BY <1>5, <1>6, <1>7, <1>8, <1>10 DEF more, all, a1
  <2> QED
    BY <2>2, <2>3
<1>12. HasSession(d, e)'
  BY <1>1, <1>4, <1>5, BoundIsSession
<1>13. Bound(d, e)'
  BY <1>3, <1>4, <1>5, <1>6, <1>10 DEF Bound
<1>14. CASE HasSession(e, d)
  BY <1>2, <1>5, <1>6, <1>11, <1>12, <1>13, <1>14 DEF Conversation
<1>15. CASE ~HasSession(e, d)
  <2>1. Between(e, d)' = {} /\ Between(d, e)' \cap opened' = {}
    BY <1>2, <1>6, <1>8, <1>15
  <2>2. \A n \in Between(d, e)' : n.prekey = sessions'[d][e].pendingPreKey
    BY <1>3, <1>4, <1>5, <1>6, <1>15
  <2>3. Answerable(d, e)'
    BY <1>2, <1>4, <1>5, <1>6, <1>15 DEF Answerable, Holds
  <2>4. Unanswered(d, e)'
    BY <2>1, <2>2, <2>3 DEF Unanswered
  <2> QED
    BY <1>5, <1>11, <1>12, <1>13, <1>15, <2>4 DEF Conversation
<1> QED
  BY <1>14, <1>15

\* The other device sends, on the session it answers with.
LEMMA ResponderSends ==
  ASSUME TypeOK, TypeOK', KeyInv, NEW d \in Initiators, NEW e \in Device \ Initiators,
         Conversation(d, e), HasSession(e, d), CanEncrypt(sessions[e][d]),
         NEW m, Sends(e, d, sessions[e][d], m)
  PROVE  Conversation(d, e)'
<1> DEFINE s == sessions[d][e]
           t == sessions[e][d]
           u == AfterEncrypt(t)
           a == sent[d]
           b == sent[e]
           toT == Between(d, e)
           toS == Between(e, d)
           unread == net \ opened
<1>1. d \in Device /\ e \in Device /\ d # e
  BY SessionBounds
<1>2. /\ sessions' = [sessions EXCEPT ![e][d] = u]
      /\ net' = net \cup {m} /\ m \notin net
      /\ sent' = [sent EXCEPT ![e] = sent[e] + 1]
      /\ handshakes' = handshakes /\ opened' = opened
  BY DEF Sends
<1>3. /\ m.from = e /\ m.to = d /\ m.header = Seal(t).header /\ m.key = t.cks
      /\ m.associatedData = t.associatedData
  BY DEF Sends
<1>4. HasSession(d, e) /\ Other(d, e) = t
  BY DEF Conversation, Other
<1>5. Bound(d, e) /\ InStep(s, t, toT, toS, unread, a, b)
      /\ \A h \in Answers(d, e) : h.msg \in opened
  BY <1>4 DEF Conversation
<1>6. s \in BoundedState /\ t \in BoundedState
  BY <1>1, StoredType
<1>7. u.associatedData = t.associatedData
  BY <1>6, EncryptLeaves
<1>8. t.associatedData = <<IdentityKey[d], IdentityKey[e]>>
  BY <1>4, <1>5 DEF Bound
<1> HIDE DEF u
<1>9. sessions'[e][d] = u /\ sessions'[d][e] = s
  BY <1>1, <1>2 DEF TypeOK
<1>10. Between(d, e)' = toT /\ Between(e, d)' = toS \cup {m} /\ Answers(d, e)' = Answers(d, e)
  BY <1>1, <1>2, <1>3 DEF Between, Answers
<1>11. a \in Nat /\ b \in Nat /\ sent'[d] = a /\ sent'[e] = b + 1
  BY <1>1, <1>2 DEF TypeOK
<1>12. net' \ opened' = unread \cup {m} /\ m \notin toT
  BY <1>2 DEF TypeOK, Between
<1>13. WellNamed(toS)
  BY <1>1, BetweenNamed
<1>14. InStep(sessions'[d][e], sessions'[e][d], Between(d, e)', Between(e, d)', net' \ opened',
              sent'[d], sent'[e])
  <2> DEFINE more == unread \cup {m}
             all == toS \cup {m}
             b1 == b + 1
  <2>1. InStep(t, s, toS, toT, unread, b, a) /\ CanEncrypt(t)
    BY <1>5 DEF InStep
  <2> HIDE DEF s, t, a, b, toT, toS, unread
  <2>2. InStep(u, s, all, toT, more, b1, a)
    BY <1>3, <1>6, <1>11, <1>12, <1>13, <2>1, SendInStep DEF u
  <2> HIDE DEF more, all, b1
  <2>3. /\ sessions'[d][e] = s /\ sessions'[e][d] = u /\ Between(d, e)' = toT
        /\ Between(e, d)' = all /\ net' \ opened' = more /\ sent'[d] = a /\ sent'[e] = b1
    BY <1>9, <1>10, <1>11, <1>12 DEF more, all, b1
  <2>4. InStep(s, u, toT, all, more, a, b1)
    BY <2>2 DEF InStep
  <2> QED
    BY <2>3, <2>4
<1>15. HasSession(d, e)' /\ HasSession(e, d)'
  BY <1>1, <1>4, <1>7, <1>8, <1>9, BoundIsSession
<1>16. Other(d, e)' = u
  BY <1>9, <1>15 DEF Other
<1>17. Bound(d, e)'
  BY <1>3, <1>5, <1>7, <1>8, <1>9, <1>10, <1>16 DEF Bound
<1> QED
  BY <1>2, <1>5, <1>9, <1>10, <1>14, <1>15, <1>16, <1>17 DEF Conversation

\* Sending keeps every conversation in step.
LEMMA EncryptConversations ==
  ASSUME OneStarts, TypeOK, TypeOK', KeyInv, FieldsInv, Conversations, PreKeysReady,
         NEW f \in Device, NEW b \in fetched[f], EncryptTo(f, b)
  PROVE  Conversations'
<1> DEFINE g == b.owner
           s == Outbound(f, b)
<1>1. b \in Bundle /\ g \in Device /\ g # f /\ s \in BoundedState /\ CanEncrypt(s)
  BY EncryptSends
<1>2. PICK m : Sends(f, g, s, m)
  BY EncryptSends
<1>3. HasSession(f, g) \/ f \in Initiators
  BY DEF EncryptTo
<1>4. HasSession(f, g) => s = sessions[f][g]
  OBVIOUS
<1>5. ~HasSession(f, g) => s = Initiate(f, b, nextKey, nextKey + 1)
  OBVIOUS
<1> HIDE DEF s
<1> SUFFICES ASSUME NEW d \in Initiators, NEW e \in Device \ Initiators
             PROVE  Conversation(d, e)'
  BY DEF Conversations
<1>6. d \in Device /\ e \in Device /\ Conversation(d, e) /\ d # e
  BY SessionBounds DEF Conversations
<1>7. CASE ~(d = f /\ e = g) /\ ~(d = g /\ e = f)
  <2>1. AfterEncrypt(s) \in BoundedState
    BY <1>1, AfterEncryptType
  <2> QED
    BY <1>1, <1>2, <1>7, <2>1, SendingElsewhere
<1>8. CASE d = g /\ e = f
  BY <1>1, <1>2, <1>3, <1>4, <1>6, <1>8, ResponderSends
<1>9. CASE d = f /\ e = g /\ HasSession(d, e)
  <2> DEFINE t == Other(d, e)
  <2>1. s = sessions[d][e] /\ t \in BoundedState
    BY <1>4, <1>6, <1>9, OtherEnd
  <2>2. /\ Bound(d, e)
        /\ InStep(s, t, Between(d, e), Between(e, d), net \ opened, sent[d], sent[e])
    BY <1>6, <1>9, <2>1 DEF Conversation
  <2>3. /\ s.associatedData = <<IdentityKey[d], IdentityKey[e]>>
        /\ t.associatedData = <<IdentityKey[d], IdentityKey[e]>>
        /\ \A n \in Between(d, e) \cup Between(e, d) :
             n.associatedData = <<IdentityKey[d], IdentityKey[e]>>
    BY <2>1, <2>2 DEF Bound
  <2>4. HasSession(e, d) =>
          t = sessions[e][d] /\ \A h \in Answers(d, e) : h.msg \in opened
    BY <1>6, <1>9 DEF Conversation, Other
  <2>5. ~HasSession(e, d) => Unanswered(d, e) /\ t = Responder(d, e)
    BY <1>6, <1>9 DEF Conversation, Other
  <2> HIDE DEF t
  <2>6. ~HasSession(e, d) =>
          /\ t = InitReceiver(SharedSecret(IdentityKey[d], s.pendingPreKey.ek,
                                           IdentityKey[e], s.pendingPreKey.spk,
                                           s.pendingPreKey.opk),
                              <<IdentityKey[d], IdentityKey[e]>>, s.pendingPreKey.spk)
          /\ Between(e, d) = {} /\ Between(d, e) \cap opened = {}
          /\ \A n \in Between(d, e) : n.prekey = s.pendingPreKey
          /\ Holds(e, s.pendingPreKey.spk)
          /\ \A h \in Answers(d, e) : h.opk = s.pendingPreKey.opk
          /\ Answers(d, e) # {} \/ s.pendingPreKey.opk \in oneTimePreKeys[e]
    BY <2>1, <2>5 DEF Unanswered, Answerable, Responder
  <2>7. Sends(d, e, s, m)
    BY <1>2, <1>9
  <2> QED
    BY <1>1, <2>1, <2>2, <2>3, <2>4, <2>6, <2>7, InitiatorSends
<1>10. CASE d = f /\ e = g /\ ~HasSession(d, e)
  <2> DEFINE fields == [ek |-> nextKey, spk |-> b.spk, opk |-> b.opk]
             secret == SharedSecret(IdentityKey[d], nextKey, IdentityKey[e], b.spk, b.opk)
             ad == <<IdentityKey[d], IdentityKey[e]>>
             t == InitReceiver(secret, ad, b.spk)
             a1 == sent[d]
             b1 == sent[e]
             unread == net \ opened
  <2>1. Between(d, e) = {} /\ Between(e, d) = {} /\ ~HasSession(e, d)
    BY <1>6, <1>10 DEF Conversation
  <2>2. Answers(d, e) = {}
    BY <2>1 DEF TypeOK, Answers, Between
  <2>3. s = InitSender(secret, ad, b.spk, fields, nextKey + 1)
    BY <1>5, <1>10 DEF Initiate
  <2>4. /\ b.spk \in Key /\ b.opk \in Key /\ nextKey \in Key /\ nextKey + 1 \in Key \ {NoKey}
        /\ IdentityKey[d] \in Key /\ IdentityKey[e] \in Key
    BY <1>1, <1>6, InitialKeys DEF TypeOK, Bundle, Key, NoKey
  <2>5. secret \in SUBSET DhOutput /\ ad \in Key \X Key
    BY <2>4, SharedSecretType
  <2>6. /\ s.pendingPreKey = fields /\ s.associatedData = ad /\ t.associatedData = ad
        /\ fields.ek = nextKey /\ fields.spk = b.spk /\ fields.opk = b.opk
    BY <2>3 DEF InitSender, InitReceiver
  <2>7. t \in BoundedState
    BY <2>4, <2>5, InitReceiverType
  <2>8. a1 \in Nat /\ b1 \in Nat
    BY <1>6 DEF TypeOK
  <2>9. InStep(s, t, {}, {}, unread, a1, b1)
    <3> HIDE DEF secret, ad, fields, unread, a1, b1
    <3> QED
      BY <2>3, <2>4, <2>5, <2>8, FirstInStep
  <2>10. Holds(e, b.spk) /\ b.opk \in oneTimePreKeys[e]
    BY <1>6, <1>10 DEF PreKeysReady
  <2>11. t = InitReceiver(SharedSecret(IdentityKey[d], s.pendingPreKey.ek,
                                       IdentityKey[e], s.pendingPreKey.spk,
                                       s.pendingPreKey.opk),
                          <<IdentityKey[d], IdentityKey[e]>>, s.pendingPreKey.spk)
    BY <2>6
  <2> HIDE DEF t, fields, secret
  <2>12. /\ Holds(e, s.pendingPreKey.spk) /\ s.pendingPreKey.opk \in oneTimePreKeys[e]
    BY <2>6, <2>10
  <2>13. Sends(d, e, s, m)
    BY <1>2, <1>10
  <2> QED
    BY <1>1, <2>1, <2>2, <2>6, <2>7, <2>9, <2>11, <2>12, <2>13, InitiatorSends
<1> QED
  BY <1>7, <1>8, <1>9, <1>10

-----------------------------------------------------------------------------
(* The prekeys a handshake will name are kept, those it has named are not given again *)

\* A one-time prekey that is spent stays so.
SpentOn == \A e \in Device : \A k \in OneTimePreKeys[e] : Spent(e, k) => Spent(e, k)'

\* The one-time prekeys that are named are their owner's.
LEMMA NamedPreKeys ==
  ASSUME TypeOK, ReadInv
  PROVE  /\ \A m \in net : /\ m.to \in Device
                           /\ m.prekey # NoPreKey => m.prekey.opk \in OneTimePreKeys[m.to]
         /\ \A d, e \in Device : sessions[d][e].pendingPreKey # NoPreKey =>
              sessions[d][e].pendingPreKey.opk \in OneTimePreKeys[e]
<1>1. \A m \in net : m.to \in Device /\ MessageSecret(m)
  BY DEF TypeOK, Message, ReadInv, SecretsNamed
<1>2. \A d, e \in Device : SessionSecret(d, e, sessions[d][e])
  BY DEF ReadInv, SecretsNamed
<1> QED
  BY <1>1, <1>2 DEF MessageSecret, SessionSecret, Introduces

\* A step that sends nothing and shows no new fields.
LEMMA FieldsSpentOn ==
  ASSUME TypeOK, ReadInv, FieldsSpent, SpentOn, net' = net,
         \A d, e \in Device :
           sessions'[d][e].pendingPreKey \in {sessions[d][e].pendingPreKey, NoPreKey}
  PROVE  FieldsSpent'
<1>1. ASSUME NEW m \in net', m.prekey # NoPreKey PROVE Spent(m.to, m.prekey.opk)'
  <2>1. m.to \in Device /\ m.prekey.opk \in OneTimePreKeys[m.to] /\ Spent(m.to, m.prekey.opk)
    BY <1>1, NamedPreKeys DEF FieldsSpent
  <2> QED
    BY <2>1 DEF SpentOn
<1>2. ASSUME NEW d \in Device, NEW e \in Device, sessions'[d][e].pendingPreKey # NoPreKey,
             NEW k, k = sessions'[d][e].pendingPreKey.opk
      PROVE  Spent(e, k)'
  <2>1. /\ sessions[d][e].pendingPreKey # NoPreKey
        /\ k = sessions[d][e].pendingPreKey.opk
    BY <1>2
  <2>2. k \in OneTimePreKeys[e] /\ Spent(e, k)
    BY <2>1, NamedPreKeys DEF FieldsSpent
  <2> QED
    BY <2>2 DEF SpentOn
<1> QED
  BY <1>1, <1>2 DEF FieldsSpent, Spent

\* A step that hands out nothing and drops nothing.
LEMMA ReadyOn ==
  ASSUME TypeOK, PreKeysReady, HoldsOn, oneTimePreKeys' = oneTimePreKeys,
         directory' = directory, \A d \in Device : fetched'[d] \subseteq fetched[d],
         \A d \in Device : Len(signedPreKeys'[d]) <= rotations'[d] + 1
  PROVE  PreKeysReady' /\ SpentOn
<1>1. \A d \in Device : \A b \in fetched[d] : b.owner \in Device
  BY DEF TypeOK, Bundle
<1>2. ASSUME NEW d \in Device, NEW k, k = directory'[d].spk PROVE Holds(d, k)'
  BY <1>2 DEF PreKeysReady, HoldsOn
<1>3. \A d \in Device : \A b \in fetched'[d] :
        /\ Holds(b.owner, b.spk)'
        /\ b.opk \in oneTimePreKeys'[b.owner] \ directory'[b.owner].opks
  BY <1>1 DEF PreKeysReady, HoldsOn
<1>4. \A d, e \in Device : \A b \in fetched'[d], c \in fetched'[e] :
        b.opk = c.opk => d = e /\ b = c
  BY DEF PreKeysReady
<1>5. \A d \in Device : directory'[d].opks \subseteq oneTimePreKeys'[d]
  BY DEF PreKeysReady
<1>6. SpentOn
  BY DEF SpentOn, Spent
<1> QED
  BY <1>2, <1>3, <1>4, <1>5, <1>6 DEF PreKeysReady, Holds

\* Rotating, while no more signed prekeys are generated than are kept.
LEMMA RotateReady ==
  ASSUME Lossless, TypeOK, PreKeysReady, NEW d \in Device, RotateSignedPreKey(d)
  PROVE  HoldsOn /\ PreKeysReady' /\ SpentOn
<1> DEFINE held == Append(signedPreKeys[d], nextKey)
           len == Len(signedPreKeys[d])
           turns == rotations[d]
<1>1. nextKey \in Key /\ signedPreKeys[d] \in Seq(Key)
  BY DEF TypeOK
<1>2. /\ len \in Nat /\ Len(held) = len + 1 /\ DOMAIN signedPreKeys[d] = 1..len
      /\ DOMAIN held = 1..(len + 1) /\ \A i \in 1..len : held[i] = signedPreKeys[d][i]
  BY <1>1, AppendProperties, LenProperties
<1>3. turns \in Nat /\ turns < MaxRotations /\ len <= turns + 1
      /\ MaxRotations \in Nat /\ History \in Nat /\ MaxRotations < History
  BY SessionBounds DEF TypeOK, Lossless, RotateSignedPreKey, PreKeysReady
<1>4. ~(Len(held) > History)
  <2> HIDE DEF held, len, turns
  <2> QED
    BY <1>2, <1>3
<1>5. /\ signedPreKeys' = [signedPreKeys EXCEPT ![d] = held]
      /\ rotations' = [rotations EXCEPT ![d] = turns + 1]
      /\ oneTimePreKeys' = oneTimePreKeys /\ directory' = directory /\ fetched' = fetched
  BY <1>4 DEF RotateSignedPreKey
<1> HIDE DEF held
<1>6. \A e \in Device : signedPreKeys'[e] = IF e = d THEN held ELSE signedPreKeys[e]
  BY <1>5 DEF TypeOK
<1>7. \A e \in Device : rotations'[e] = IF e = d THEN turns + 1 ELSE rotations[e]
  BY <1>5 DEF TypeOK
<1>8. HoldsOn
  <2> SUFFICES ASSUME NEW e \in Device, NEW k, Holds(e, k) PROVE Holds(e, k)'
    BY DEF HoldsOn
  <2>1. PICK i \in DOMAIN signedPreKeys[e] : signedPreKeys[e][i] = k
    BY DEF Holds
  <2>2. CASE e = d
    <3>1. i \in 1..len /\ i \in 1..(len + 1)
      BY <1>2, <2>1, <2>2
    <3>2. held[i] = k /\ i \in DOMAIN held
      BY <1>2, <2>1, <2>2, <3>1
    <3> QED
      BY <1>6, <2>2, <3>2 DEF Holds
  <2>3. CASE e # d
    BY <1>6, <2>1, <2>3 DEF Holds
  <2> QED
    BY <2>2, <2>3
<1>9. \A e \in Device : Len(signedPreKeys'[e]) <= rotations'[e] + 1
  <2> SUFFICES ASSUME NEW e \in Device PROVE Len(signedPreKeys'[e]) <= rotations'[e] + 1
    OBVIOUS
  <2>1. CASE e = d
    <3>1. Len(signedPreKeys'[e]) = len + 1 /\ rotations'[e] = turns + 1
      BY <1>2, <1>6, <1>7, <2>1
    <3> HIDE DEF len, turns
    <3> QED
      BY <1>2, <1>3, <3>1
  <2>2. CASE e # d
    BY <1>6, <1>7, <2>2 DEF PreKeysReady
  <2> QED
    BY <2>1, <2>2
<1>10. PreKeysReady' /\ SpentOn
  BY <1>5, <1>8, <1>9, ReadyOn
<1> QED
  BY <1>8, <1>10

\* The newest signed prekey is held.
LEMMA PublishReady ==
  ASSUME TypeOK, PreKeysReady, NEW d \in Device, PublishSignedPreKey(d)
  PROVE  PreKeysReady' /\ SpentOn
<1> DEFINE newest == signedPreKeys[d][Len(signedPreKeys[d])]
<1>1. signedPreKeys[d] \in Seq(Key) /\ signedPreKeys[d] # <<>>
  BY DEF TypeOK
<1>2. Len(signedPreKeys[d]) \in DOMAIN signedPreKeys[d]
  BY <1>1, EmptySeq, LenProperties
<1>3. Holds(d, newest)
  BY <1>2 DEF Holds
<1>4. /\ directory' = [directory EXCEPT ![d].spk = newest]
      /\ signedPreKeys' = signedPreKeys /\ oneTimePreKeys' = oneTimePreKeys
      /\ rotations' = rotations /\ fetched' = fetched
  BY DEF PublishSignedPreKey, vault
<1> HIDE DEF newest
<1>5. \A e \in Device : /\ directory'[e].opks = directory[e].opks
                        /\ directory'[e].spk = IF e = d THEN newest ELSE directory[e].spk
  BY <1>4 DEF TypeOK
<1>6. \A b, e : e \in Device /\ b \in fetched[e] => b.owner \in Device
  BY DEF TypeOK, Bundle
<1>7. \A e \in Device : Holds(e, directory'[e].spk)
  BY <1>3, <1>5 DEF PreKeysReady
<1>8. PreKeysReady'
  <2>1. \A e \in Device : \E i \in DOMAIN signedPreKeys'[e] :
          signedPreKeys'[e][i] = directory'[e].spk
    BY <1>4, <1>7 DEF Holds
  <2> QED
    BY <1>4, <1>5, <1>6, <2>1 DEF PreKeysReady, Holds
<1>9. SpentOn
  BY <1>4, <1>5 DEF SpentOn, Spent
<1> QED
  BY <1>8, <1>9

\* A one-time prekey handed out is one the device holds, and goes to one bundle.
LEMMA FetchReady ==
  ASSUME TypeOK, ReadInv, PreKeysReady, PoolLasts', NEW d \in Device, NEW e \in Device,
         FetchBundle(d, e)
  PROVE  PreKeysReady' /\ SpentOn
<1> DEFINE pool == directory[e].opks
           k == Claimed(pool)
           spk == directory[e].spk
           bundle == [owner |-> e, spk |-> spk, opk |-> k]
<1>1. pool \in SUBSET Key
  BY DEF TypeOK
<1>2. /\ directory' = [directory EXCEPT ![e].opks = pool \ {k}]
      /\ fetched' = [fetched EXCEPT ![d] = fetched[d] \cup {bundle}]
      /\ signedPreKeys' = signedPreKeys /\ oneTimePreKeys' = oneTimePreKeys
      /\ rotations' = rotations
  BY DEF FetchBundle, vault
<1>3. bundle.owner = e /\ bundle.spk = spk /\ bundle.opk = k
  OBVIOUS
<1>4. Holds(e, spk)
  BY DEF PreKeysReady
<1> HIDE DEF bundle, k, spk
<1>5. \A f \in Device : \A b \in fetched'[f] : b \in fetched[f] \/ (f = d /\ b = bundle)
  BY <1>2 DEF TypeOK
<1>6. bundle \in fetched'[d]
  BY <1>2 DEF TypeOK
<1>7. k # NoKey
  BY <1>3, <1>6 DEF PoolLasts
<1>8. k \in pool
  BY <1>1, <1>7, ClaimedType DEF k
<1>9. k \in OneTimePreKeys[e] /\ k \in oneTimePreKeys[e]
  BY <1>8 DEF ReadInv, KeysApart, PreKeysReady
<1>10. \A f \in Device : /\ directory'[f].spk = directory[f].spk
                         /\ directory'[f].opks = IF f = e THEN pool \ {k} ELSE directory[f].opks
  BY <1>2 DEF TypeOK
<1>11. \A f \in Device : \A b \in fetched[f] :
         b.owner \in Device /\ b.opk \in OneTimePreKeys[b.owner] /\ b.opk # k
  <2> SUFFICES ASSUME NEW f \in Device, NEW b \in fetched[f]
               PROVE  b.owner \in Device /\ b.opk \in OneTimePreKeys[b.owner] /\ b.opk # k
    OBVIOUS
  <2>1. b.owner \in Device
    BY DEF TypeOK, Bundle
  <2>2. b.opk \in oneTimePreKeys[b.owner] /\ b.opk \notin directory[b.owner].opks
    BY DEF PreKeysReady
  <2>3. b.opk \in OneTimePreKeys[b.owner]
    BY <2>1, <2>2 DEF ReadInv, KeysApart
  <2>4. b.owner # e => b.opk # k
    BY <1>9, <2>1, <2>3, OwnOneTimePreKeys
  <2>5. b.owner = e => b.opk # k
    BY <1>8, <2>2
  <2> QED
    BY <2>1, <2>3, <2>4, <2>5
<1>12. \A f \in Device : \A i : Holds(f, i)' <=> Holds(f, i)
  BY <1>2 DEF Holds
<1>13. ASSUME NEW f \in Device
       PROVE  /\ Len(signedPreKeys'[f]) <= rotations'[f] + 1
              /\ directory'[f].opks \subseteq oneTimePreKeys'[f]
  BY <1>2, <1>10 DEF PreKeysReady
<1>14. ASSUME NEW f \in Device, NEW i, i = directory'[f].spk PROVE Holds(f, i)'
  BY <1>10, <1>12, <1>14 DEF PreKeysReady
<1>15. ASSUME NEW f \in Device, NEW b \in fetched'[f]
       PROVE  /\ Holds(b.owner, b.spk)'
              /\ b.opk \in oneTimePreKeys'[b.owner] \ directory'[b.owner].opks
  <2>1. CASE b \in fetched[f]
    <3>1. /\ Holds(b.owner, b.spk) /\ b.owner \in Device
          /\ b.opk \in oneTimePreKeys[b.owner] \ directory[b.owner].opks
      BY <1>11, <2>1 DEF PreKeysReady
    <3>2. directory'[b.owner].opks \subseteq directory[b.owner].opks
      BY <1>10, <3>1
    <3> QED
      BY <1>2, <1>12, <3>1, <3>2
  <2>2. CASE b = bundle
    <3>1. b.owner = e /\ b.spk = spk /\ b.opk = k
      BY <1>3, <2>2
    <3> QED
      BY <1>2, <1>4, <1>9, <1>10, <1>12, <3>1
  <2> QED
    BY <1>5, <2>1, <2>2
<1>16. ASSUME NEW f \in Device, NEW g \in Device, NEW b \in fetched'[f], NEW c \in fetched'[g],
              b.opk = c.opk
       PROVE  f = g /\ b = c
  <2>1. CASE b \in fetched[f] /\ c \in fetched[g]
    BY <1>16, <2>1 DEF PreKeysReady
  <2>2. CASE f = d /\ b = bundle /\ c \in fetched[g]
    BY <1>3, <1>11, <1>16, <2>2
  <2>3. CASE b \in fetched[f] /\ g = d /\ c = bundle
    BY <1>3, <1>11, <1>16, <2>3
  <2>4. CASE f = d /\ b = bundle /\ g = d /\ c = bundle
    BY <2>4
  <2> QED
    BY <1>5, <2>1, <2>2, <2>3, <2>4
<1>17. PreKeysReady'
  BY <1>13, <1>14, <1>15, <1>16 DEF PreKeysReady, Holds
<1>18. SpentOn
  <2> SUFFICES ASSUME NEW f \in Device, NEW i \in OneTimePreKeys[f], Spent(f, i)
               PROVE  Spent(f, i)'
    BY DEF SpentOn
  <2>1. i # k
    <3>1. f = e => i # k
      BY <1>8 DEF Spent
    <3>2. f # e => i # k
      BY <1>9, OwnOneTimePreKeys
    <3> QED
      BY <3>1, <3>2
  <2>2. i \notin directory'[f].opks
    BY <1>10 DEF Spent
  <2>3. ASSUME NEW g \in Device, NEW b \in fetched'[g] PROVE b.opk # i
    BY <1>3, <1>5, <2>1, <2>3 DEF Spent
  <2> QED
    BY <2>2, <2>3 DEF Spent
<1> QED
  BY <1>17, <1>18

\* Answering uses up what was spent.
LEMMA BeginReady ==
  ASSUME TypeOK, PreKeysReady, FieldsSpent, NEW m \in net, BeginHandshake(m.to, m)
  PROVE  PreKeysReady' /\ SpentOn
<1> DEFINE e == m.to
           k == m.prekey.opk
<1>1. e \in Device /\ Spent(e, k)
  BY DEF TypeOK, Message, FieldsSpent, BeginHandshake
<1>2. /\ oneTimePreKeys' = [oneTimePreKeys EXCEPT ![e] = oneTimePreKeys[e] \ {k}]
      /\ directory' = directory /\ fetched' = fetched /\ signedPreKeys' = signedPreKeys
      /\ rotations' = rotations
  BY DEF BeginHandshake
<1> HIDE DEF e, k
<1>3. \A f \in Device :
        oneTimePreKeys'[f] = IF f = e THEN oneTimePreKeys[e] \ {k} ELSE oneTimePreKeys[f]
  BY <1>1, <1>2 DEF TypeOK
<1>4. k \notin directory[e].opks /\ \A f \in Device : \A b \in fetched[f] : b.opk # k
  BY <1>1 DEF Spent
<1>5. \A f \in Device : directory'[f].opks \subseteq oneTimePreKeys'[f]
  BY <1>2, <1>3, <1>4 DEF PreKeysReady
<1>6. ASSUME NEW f \in Device, NEW b \in fetched'[f]
      PROVE  /\ Holds(b.owner, b.spk)'
             /\ b.opk \in oneTimePreKeys'[b.owner] \ directory'[b.owner].opks
  <2>1. b.owner \in Device /\ b.opk # k /\ b \in fetched[f]
    BY <1>2, <1>4 DEF TypeOK, Bundle
  <2>2. /\ Holds(b.owner, b.spk)
        /\ b.opk \in oneTimePreKeys[b.owner] \ directory[b.owner].opks
    BY <2>1 DEF PreKeysReady
  <2> QED
    BY <1>2, <1>3, <2>1, <2>2 DEF Holds
<1>7. PreKeysReady'
  BY <1>2, <1>5, <1>6 DEF PreKeysReady, Holds
<1>8. SpentOn
  BY <1>2 DEF SpentOn, Spent
<1> QED
  BY <1>7, <1>8

\* Sending spends the one-time prekey of the bundle it uses.
LEMMA EncryptSpent ==
  ASSUME TypeOK, KeyInv, ReadInv, FieldsInv, PreKeysReady, FieldsSpent,
         NEW d \in Device, NEW b \in fetched[d], EncryptTo(d, b)
  PROVE  PreKeysReady' /\ FieldsSpent'
<1> DEFINE e == b.owner
           s == Outbound(d, b)
<1>1. e \in Device /\ s \in BoundedState
  BY EncryptSends
<1>2. PICK m : Sends(d, e, s, m)
  BY EncryptSends
<1>3. /\ sessions' = [sessions EXCEPT ![d][e] = AfterEncrypt(s)] /\ net' = net \cup {m}
      /\ m.to = e /\ m.prekey = s.pendingPreKey
  BY <1>2 DEF Sends
<1>4. /\ fetched' = [fetched EXCEPT ![d] = fetched[d] \ {b}] /\ directory' = directory
      /\ signedPreKeys' = signedPreKeys /\ rotations' = rotations
      /\ oneTimePreKeys' = oneTimePreKeys
  BY DEF EncryptTo
<1>5. /\ \A f \in Device : fetched'[f] \subseteq fetched[f]
      /\ b \notin fetched'[d]
  BY <1>4 DEF TypeOK
<1>6. PreKeysReady' /\ SpentOn
  <2>1. HoldsOn
    BY <1>4 DEF HoldsOn, Holds
  <2>2. \A f \in Device : Len(signedPreKeys'[f]) <= rotations'[f] + 1
    BY <1>4 DEF PreKeysReady
  <2> QED
    BY <1>4, <1>5, <2>1, <2>2, ReadyOn
<1>7. AfterEncrypt(s).pendingPreKey = s.pendingPreKey /\ AfterEncrypt(s) \in BoundedState
  BY <1>1, AfterEncryptKeeps, AfterEncryptType
<1>8. \A f, g \in Device :
        sessions'[f][g] = IF f = d /\ g = e THEN AfterEncrypt(s) ELSE sessions[f][g]
  <2> DEFINE t == AfterEncrypt(s)
  <2>1. sessions \in [Device -> [Device -> RatchetState]]
    BY DEF TypeOK
  <2>2. sessions' = [sessions EXCEPT ![d][e] = t]
    BY <1>3
  <2> HIDE DEF e, t
  <2>3. \A f, g \in Device :
          sessions'[f][g] = IF f = d /\ g = e THEN t ELSE sessions[f][g]
    BY <2>1, <2>2
  <2> QED
    BY <2>3 DEF t
<1>9. m.prekey # NoPreKey => Spent(e, m.prekey.opk)'
  <2> SUFFICES ASSUME NEW k, m.prekey # NoPreKey, k = m.prekey.opk
               PROVE  /\ k \notin directory[e].opks
                      /\ \A f \in Device : \A c \in fetched'[f] : c.opk # k
    BY <1>4 DEF Spent
  <2>1. CASE HasSession(d, e)
    <3>1. m.prekey = sessions[d][e].pendingPreKey
      BY <1>3, <2>1
    <3>2. Spent(e, k)
      BY <1>1, <3>1 DEF FieldsSpent
    <3> QED
      BY <1>5, <3>2 DEF Spent
  <2>2. CASE ~HasSession(d, e)
    <3>1. m.prekey = [ek |-> nextKey, spk |-> b.spk, opk |-> b.opk]
      BY <1>3, <2>2 DEF Initiate, InitSender
    <3>2. k = b.opk
      BY <3>1
    <3>3. k \notin directory[e].opks
      BY <3>2 DEF PreKeysReady
    <3>4. ASSUME NEW f \in Device, NEW c \in fetched'[f] PROVE c.opk # k
      BY <1>5, <3>2 DEF PreKeysReady
    <3> QED
      BY <3>3, <3>4
  <2> QED
    BY <2>1, <2>2
<1> HIDE DEF s
<1>10. ASSUME NEW n \in net', n.prekey # NoPreKey PROVE Spent(n.to, n.prekey.opk)'
  <2>1. CASE n = m
    BY <1>3, <1>9, <1>10, <2>1
  <2>2. CASE n \in net
    <3>1. /\ n.to \in Device /\ n.prekey.opk \in OneTimePreKeys[n.to]
          /\ Spent(n.to, n.prekey.opk)
      BY <1>10, <2>2, NamedPreKeys DEF FieldsSpent
    <3> QED
      BY <1>6, <3>1 DEF SpentOn
  <2> QED
    BY <1>3, <2>1, <2>2
<1>11. ASSUME NEW f \in Device, NEW g \in Device, sessions'[f][g].pendingPreKey # NoPreKey,
              NEW k, k = sessions'[f][g].pendingPreKey.opk
       PROVE  Spent(g, k)'
  <2>1. CASE f = d /\ g = e
    <3>1. sessions'[f][g].pendingPreKey = m.prekey
      BY <1>3, <1>7, <1>8, <2>1
    <3> QED
      BY <1>9, <1>11, <2>1, <3>1
  <2>2. CASE ~(f = d /\ g = e)
    <3>1. sessions'[f][g] = sessions[f][g]
      BY <1>8, <2>2
    <3>2. k \in OneTimePreKeys[g] /\ Spent(g, k)
      BY <1>11, <3>1, NamedPreKeys DEF FieldsSpent
    <3> QED
      BY <1>6, <3>2 DEF SpentOn
  <2> QED
    BY <2>1, <2>2
<1> QED
  BY <1>6, <1>10, <1>11 DEF FieldsSpent, Spent

-----------------------------------------------------------------------------
(* ReadableInv is inductive                                                *)

\* Reading shows no new fields.
LEMMA AdvancePending ==
  ASSUME TypeOK, NEW m \in net, NEW s \in BoundedState, Advance(m.to, m, s),
         s.pendingPreKey \in {sessions[m.to][m.from].pendingPreKey, NoPreKey}
  PROVE  \A d, e \in Device :
           sessions'[d][e].pendingPreKey \in {sessions[d][e].pendingPreKey, NoPreKey}
<1> DEFINE p == m.from
           q == m.to
           w == AfterDecrypt(s, m, nextKey)
<1>1. p \in Device /\ q \in Device /\ m.header \in Header /\ nextKey \in Key
  BY DEF TypeOK, Message
<1>2. w \in BoundedState /\ w.pendingPreKey \in {s.pendingPreKey, NoPreKey}
  BY <1>1, AfterDecryptType
<1>3. sessions' = [sessions EXCEPT ![q][p] = w]
  BY DEF Advance
<1>4. s.pendingPreKey \in {sessions[q][p].pendingPreKey, NoPreKey}
  OBVIOUS
<1> HIDE DEF p, q, w
<1>5. \A d, e \in Device : sessions'[d][e] = IF d = q /\ e = p THEN w ELSE sessions[d][e]
  BY <1>1, <1>3 DEF TypeOK
<1> QED
  BY <1>2, <1>4, <1>5

\* At first nobody has a session, and every prekey published is held.
LEMMA InitReadableInv == Init => ReadableInv
<1> SUFFICES ASSUME Init PROVE ReadableInv
  OBVIOUS
<1>1. /\ \A d, e \in Device : sessions[d][e] = NoSession
      /\ net = {} /\ oneTimePreKeys = OneTimePreKeys
      /\ \A d \in Device : /\ signedPreKeys[d] = <<FirstSignedPreKey[d]>>
                           /\ rotations[d] = 0 /\ fetched[d] = {}
                           /\ directory[d].spk = FirstSignedPreKey[d]
                           /\ directory[d].opks = OneTimePreKeys[d]
  BY DEF Init
<1>2. Conversations
  BY <1>1, SessionBounds DEF Conversations, Conversation, Between
<1>3. ASSUME NEW d \in Device
      PROVE  Len(signedPreKeys[d]) <= rotations[d] + 1 /\ Holds(d, directory[d].spk)
  <2> DEFINE k == FirstSignedPreKey[d]
  <2>1. Len(<<k>>) = 1 /\ 1 \in DOMAIN <<k>> /\ <<k>>[1] = k
    OBVIOUS
  <2>2. Len(signedPreKeys[d]) = 1 /\ rotations[d] = 0
    BY <1>1, <2>1
  <2>3. 1 \in DOMAIN signedPreKeys[d] /\ signedPreKeys[d][1] = directory[d].spk
    BY <1>1, <2>1
  <2> QED
    BY <2>2, <2>3 DEF Holds
<1>4. PreKeysReady
  <2>1. \A d \in Device : directory[d].opks \subseteq oneTimePreKeys[d] /\ fetched[d] = {}
    BY <1>1
  <2> QED
    BY <1>3, <2>1 DEF PreKeysReady
<1>5. NoSession.pendingPreKey = NoPreKey
  BY DEF NoSession, InitReceiver
<1>6. FieldsSpent
  BY <1>1, <1>5 DEF FieldsSpent
<1> QED
  BY <1>2, <1>4, <1>6 DEF ReadableInv

\* A step that only generates, publishes or hands out prekeys, or only notes that a
\* message did not open.
LEMMA QuietReadable ==
  ASSUME TypeOK, TypeOK', KeyInv, ReadInv, ReadableInv, HoldsOn, PreKeysReady', SpentOn,
         sessions' = sessions, oneTimePreKeys' = oneTimePreKeys, handshakes' = handshakes,
         net' = net, sent' = sent, opened' = opened
  PROVE  ReadableInv'
<1>1. Conversations'
  BY QuietConversations DEF ReadableInv
<1>2. FieldsSpent'
  BY FieldsSpentOn DEF ReadableInv
<1> QED
  BY <1>1, <1>2 DEF ReadableInv

\* A step that leaves the prekeys alone.
LEMMA PreKeysAlone ==
  ASSUME TypeOK, PreKeysReady, signedPreKeys' = signedPreKeys, rotations' = rotations,
         oneTimePreKeys' = oneTimePreKeys, directory' = directory, fetched' = fetched
  PROVE  HoldsOn /\ PreKeysReady' /\ SpentOn
<1>1. HoldsOn
  BY DEF HoldsOn, Holds
<1>2. \A d \in Device : fetched'[d] \subseteq fetched[d]
  OBVIOUS
<1>3. \A d \in Device : Len(signedPreKeys'[d]) <= rotations'[d] + 1
  BY DEF PreKeysReady
<1> QED
  BY <1>1, <1>2, <1>3, ReadyOn

\* Every step keeps ReadableInv.
LEMMA NextReadableInv ==
  ASSUME OneStarts, Lossless
  PROVE  TypeOK /\ TypeOK' /\ KeyInv /\ ReadInv /\ FieldsInv /\ ReadableInv /\ PoolLasts'
           /\ [Next]_vars => ReadableInv'
<1> SUFFICES ASSUME TypeOK, TypeOK', KeyInv, ReadInv, FieldsInv, ReadableInv, PoolLasts',
                    [Next]_vars
             PROVE  ReadableInv'
  OBVIOUS
<1>0. Conversations /\ PreKeysReady /\ FieldsSpent
  BY DEF ReadableInv
<1>1. ASSUME NEW d \in Device, RotateSignedPreKey(d) PROVE ReadableInv'
  <2>1. HoldsOn /\ PreKeysReady' /\ SpentOn
    BY <1>0, <1>1, RotateReady
  <2> QED
    BY <1>1, <2>1, QuietReadable DEF RotateSignedPreKey, history
<1>2. ASSUME NEW d \in Device, PublishSignedPreKey(d) PROVE ReadableInv'
  <2>1. PreKeysReady' /\ SpentOn
    BY <1>0, <1>2, PublishReady
  <2>2. HoldsOn
    BY <1>2 DEF PublishSignedPreKey, vault, HoldsOn, Holds
  <2> QED
    BY <1>2, <2>1, <2>2, QuietReadable DEF PublishSignedPreKey, vault, history
<1>3. ASSUME NEW d \in Device, NEW e \in Device, FetchBundle(d, e) PROVE ReadableInv'
  <2>1. PreKeysReady' /\ SpentOn
    BY <1>0, <1>3, FetchReady
  <2>2. HoldsOn
    BY <1>3 DEF FetchBundle, vault, HoldsOn, Holds
  <2> QED
    BY <1>3, <2>1, <2>2, QuietReadable DEF FetchBundle, vault, history
<1>4. ASSUME NEW d \in Device, NEW b \in fetched[d], EncryptTo(d, b) PROVE ReadableInv'
  BY <1>0, <1>4, EncryptConversations, EncryptSpent DEF ReadableInv
<1>5. ASSUME NEW m \in net, Receive(m.to, m) PROVE ReadableInv'
  <2>1. CASE ReceiveOnSession(m.to, m)
    <3>1. /\ signedPreKeys' = signedPreKeys /\ rotations' = rotations
          /\ oneTimePreKeys' = oneTimePreKeys /\ directory' = directory
          /\ fetched' = fetched /\ net' = net
          /\ Advance(m.to, m, sessions[m.to][m.from])
      BY <2>1 DEF ReceiveOnSession
    <3>2. PreKeysReady' /\ SpentOn
      BY <1>0, <3>1, PreKeysAlone
    <3>3. Conversations'
      BY <1>0, <2>1, ReceiveConversations
    <3>4. FieldsSpent'
      <4>1. sessions[m.to][m.from] \in BoundedState
        BY StoredType DEF TypeOK, Message
      <4>2. \A d, e \in Device :
              sessions'[d][e].pendingPreKey \in {sessions[d][e].pendingPreKey, NoPreKey}
        BY <3>1, <4>1, AdvancePending
      <4> QED
        BY <1>0, <3>1, <3>2, <4>2, FieldsSpentOn
    <3> QED
      BY <3>2, <3>3, <3>4 DEF ReadableInv
  <2>2. CASE RefuseMessage(m.to, m) \/ RefuseHandshake(m.to, m)
    <3>1. /\ signedPreKeys' = signedPreKeys /\ rotations' = rotations
          /\ oneTimePreKeys' = oneTimePreKeys /\ directory' = directory
          /\ fetched' = fetched /\ net' = net /\ sessions' = sessions
          /\ handshakes' = handshakes /\ sent' = sent /\ opened' = opened
      BY <2>2 DEF RefuseMessage, RefuseHandshake, Fail
    <3> QED
      BY <1>0, <3>1, PreKeysAlone, QuietReadable
  <2>3. CASE BeginHandshake(m.to, m)
    <3>1. Conversations' /\ PreKeysReady' /\ SpentOn
      BY <1>0, <2>3, BeginConversations, BeginReady
    <3>2. FieldsSpent'
      BY <1>0, <2>3, <3>1, FieldsSpentOn DEF BeginHandshake
    <3> QED
      BY <3>1, <3>2 DEF ReadableInv
  <2> QED
    BY <1>5, <2>1, <2>2, <2>3 DEF Receive
<1>6. ASSUME NEW h \in handshakes, FinishHandshake(h) PROVE ReadableInv'
  <2> DEFINE s == Respond(h.msg.to, h.msg, h.opk)
  <2>1. h.msg \in net /\ h.msg \in Message /\ h.msg.to \in Device /\ h.opk \in Key
    BY DEF TypeOK, Handshake, Message
  <2>2. s \in BoundedState /\ s.pendingPreKey = NoPreKey
    BY <2>1, RespondType DEF Respond, InitReceiver
  <2>3. /\ signedPreKeys' = signedPreKeys /\ rotations' = rotations
        /\ oneTimePreKeys' = oneTimePreKeys /\ directory' = directory
        /\ fetched' = fetched /\ net' = net
        /\ Advance(h.msg.to, h.msg, s) \/ Fail(h.msg)
    BY <1>6 DEF FinishHandshake
  <2> HIDE DEF s
  <2>4. PreKeysReady' /\ SpentOn
    BY <1>0, <2>3, PreKeysAlone
  <2>5. Conversations'
    BY <1>0, <1>6, FinishConversations
  <2>6. \A d, e \in Device :
          sessions'[d][e].pendingPreKey \in {sessions[d][e].pendingPreKey, NoPreKey}
    <3>1. CASE Advance(h.msg.to, h.msg, s)
      BY <2>1, <2>2, <3>1, AdvancePending
    <3>2. CASE Fail(h.msg)
      BY <3>2 DEF Fail
    <3> QED
      BY <2>3, <3>1, <3>2
  <2>7. FieldsSpent'
    BY <1>0, <2>3, <2>4, <2>6, FieldsSpentOn
  <2> QED
    BY <2>4, <2>5, <2>7 DEF ReadableInv
<1>7. ASSUME NEW d \in Device, Crash(d) PROVE ReadableInv'
  BY <1>7 DEF Crash, Lossless
<1>8. CASE UNCHANGED vars
  <2>1. /\ signedPreKeys' = signedPreKeys /\ rotations' = rotations
        /\ oneTimePreKeys' = oneTimePreKeys /\ directory' = directory
        /\ fetched' = fetched /\ net' = net /\ sessions' = sessions
        /\ handshakes' = handshakes /\ sent' = sent /\ opened' = opened
    BY <1>8 DEF vars, vault, history
  <2> QED
    BY <1>0, <2>1, PreKeysAlone, QuietReadable
<1> QED
  BY <1>1, <1>2, <1>3, <1>4, <1>5, <1>6, <1>7, <1>8 DEF Next

\* What a vault that keeps up can read.
LEMMA ReadableFromInv ==
  ASSUME OneStarts, Lossless, TypeOK, KeyInv, FieldsInv, ReadableInv
  PROVE  UnreadReadable
<1> SUFFICES ASSUME NEW m \in net, m \notin opened, ~Locked(m.to, m.from)
             PROVE  ReadableFromVault(m.to, m)
  BY DEF UnreadReadable
<1> DEFINE p == m.from
           q == m.to
<1>1. /\ p \in Device /\ q \in Device /\ m \in Between(p, q)
      /\ \/ p \in Initiators /\ q \in Device \ Initiators
         \/ q \in Initiators /\ p \in Device \ Initiators
  BY Parties
<1>2. CASE p \in Initiators /\ q \in Device \ Initiators
  <2>1. Conversation(p, q) /\ p # q
    BY <1>2 DEF ReadableInv, Conversations
  <2>2. HasSession(p, q) /\ CanDecrypt(Other(p, q), m, nextKey)
    BY <1>1, <2>1, ResponderReads
  <2>3. CASE HasSession(q, p)
    BY <2>2, <2>3 DEF Other, ReadableFromVault, Readable
  <2>4. CASE ~HasSession(q, p)
    <3>1. Unanswered(p, q) /\ Other(p, q) = Responder(p, q)
      BY <2>1, <2>2, <2>4 DEF Conversation, Other
    <3>2. m.prekey = sessions[p][q].pendingPreKey /\ Answerable(p, q)
      BY <1>1, <3>1 DEF Unanswered
    <3>3. m.prekey # NoPreKey
      <4>1. Between(p, q) \cap opened = {} /\ opened \subseteq net
        BY <3>1 DEF Unanswered, TypeOK
      <4>2. ~Answered(p, q)
        BY <4>1 DEF Answered, Between
      <4> QED
        BY <1>1, <1>2, <4>2 DEF FieldsInv, FieldsKept
    <3>4. Answers(p, q) = {}
      BY DEF Locked, Answers
    <3>5. Holds(q, m.prekey.spk) /\ TakenPreKey(q, m.prekey.opk) = m.prekey.opk
      BY <3>2, <3>4 DEF Answerable, TakenPreKey
    <3>6. Respond(q, m, m.prekey.opk) = Responder(p, q)
      BY <3>2 DEF Respond, Responder
    <3> QED
      BY <2>2, <3>1, <3>3, <3>5, <3>6 DEF ReadableFromVault
  <2> QED
    BY <2>3, <2>4
<1>3. CASE q \in Initiators /\ p \in Device \ Initiators
  <2>1. Conversation(q, p) /\ p # q
    BY <1>3 DEF ReadableInv, Conversations
  <2>2. HasSession(q, p) /\ CanDecrypt(sessions[q][p], m, nextKey)
    BY <1>1, <2>1, InitiatorReads
  <2> QED
    BY <2>2 DEF ReadableFromVault, Readable
<1> QED
  BY <1>1, <1>2, <1>3

\* ratchetDecrypt: "replaying the message against the *old* state still works".
\* Where one device writes to the others first and every claim finds a one-time
\* prekey, and nothing is lost to a crash or to a limit, each message that has not
\* been read, in whatever order and however often it arrives, can be read.
THEOREM NothingLeftUnread ==
  ASSUME OneStarts, Lossless PROVE Spec /\ []PoolLasts => []UnreadReadable
<1>1. TypeOK /\ TypeOK' /\ KeyInv /\ ReadInv /\ FieldsInv /\ ReadableInv /\ PoolLasts'
        /\ [Next]_vars => ReadableInv'
  BY NextReadableInv
<1>2. TypeOK /\ KeyInv /\ FieldsInv /\ ReadableInv => UnreadReadable
  BY ReadableFromInv
<1> QED
  BY <1>1, <1>2, InitReadableInv, TypeCorrect, KeysOrdered, ReadKeysGone, FieldsAccounted, PTL
     DEF Spec
=============================================================================
