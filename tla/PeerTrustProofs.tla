--------------------------- MODULE PeerTrustProofs ---------------------------
(***************************************************************************)
(* Proofs about PeerTrust, for any devices, keys and number of sightings   *)
(* under way: trust never comes to a key that was not on file while the    *)
(* user was confirming, however the transactions interleave, and a number  *)
(* shown as verified is made of such keys only.                            *)
(***************************************************************************)
EXTENDS PeerTrust, TLAPS, WellFoundedInduction, FiniteSetTheorems

Asked(records) == \A d \in Devices : records[d].trusted => <<d, records[d].key>> \in accepted

(***************************************************************************)
(* The devices a click has left to write have a record, and so has the one *)
(* it holds; no copy of a record, read earlier, trusts a key that was not  *)
(* accepted.                                                               *)
(***************************************************************************)
ClickInv ==
  /\ click.left \subseteq Known(peers)
  /\ click.held # Unknown => click.held.key # NoKey
  /\ click.left # {} => click.on

CopiesInv ==
  /\ Asked(peers) /\ Asked(shown)
  /\ \A records \in read : Asked(records)
  /\ \A s \in seeing : s.previous.trusted =>
        s.previous.key # NoKey /\ <<s.device, s.previous.key>> \in accepted

IInv == TypeOK /\ ClickInv /\ CopiesInv

-----------------------------------------------------------------------------

\* A nonempty set of numbers has a least one.
LEMMA LeastNumber ==
  ASSUME NEW S, S \subseteq Nat, S # {}
  PROVE  \E n \in S : \A m \in S : n <= m
<1>1. \E n \in S : \A m \in S : ~ (<<m, n>> \in OpToRel(<, Nat))
  BY NatLessThanWellFounded, WFMin, Zenon
<1>2. PICK n \in S : \A m \in S : ~ (<<m, n>> \in OpToRel(<, Nat))
  BY <1>1
<1>3. \A m \in S : ~ (m < n)
  BY <1>2 DEF OpToRel
<1>4. n \in Nat /\ \A m \in S : m \in Nat
  BY <1>2
<1>5. \A m \in S : n <= m
  BY <1>3, <1>4
<1> QED
  BY <1>2, <1>5

\* setTrust's loop finds its next device.
LEMMA FirstIsLeft ==
  ASSUME NEW left, left \subseteq Devices, left # {}
  PROVE  First(left) \in left
<1>1. \E d \in left : \A e \in left : d <= e
  BY LeastNumber, TrustAssumption
<1> QED
  BY <1>1 DEF First

\* The record of an unknown device is a record.
LEMMA UnknownIsRecord == Unknown \in PeerRecord
  BY DEF Unknown, PeerRecord

\* What is on file is a set of pairs of a device and a key.
LEMMA PairsTyped ==
  ASSUME NEW records \in [Devices -> PeerRecord]
  PROVE  /\ Pairs(records) \in SUBSET (Devices \X Keys)
         /\ \A d \in Devices : records[d].key # NoKey => <<d, records[d].key>> \in Pairs(records)
  BY DEF Pairs, Known, PeerRecord

\* Acceptance grows, and while the user confirms it takes in all that is on file.
LEMMA AcceptGrows ==
  ASSUME NEW on \in BOOLEAN, NEW records \in [Devices -> PeerRecord], Accept(on, records),
         accepted \in SUBSET (Devices \X Keys)
  PROVE  /\ accepted \subseteq accepted' /\ accepted' \in SUBSET (Devices \X Keys)
         /\ on => Pairs(records) \subseteq accepted'
  BY PairsTyped DEF Accept

\* Copies nobody touches stay sound as acceptance grows.
LEMMA QuietStep ==
  ASSUME CopiesInv, accepted \subseteq accepted',
         UNCHANGED <<peers, shown>>, read' \subseteq read, seeing' \subseteq seeing
  PROVE  CopiesInv'
  BY DEF CopiesInv, Asked

\* The invariant holds at the start.
LEMMA InitInv == Init => IInv
<1> SUFFICES ASSUME Init PROVE IInv
  OBVIOUS
<1>1. peers = [d \in Devices |-> Unknown] /\ shown = [d \in Devices |-> Unknown]
  BY DEF Init
<1>2. /\ peers \in [Devices -> PeerRecord] /\ shown \in [Devices -> PeerRecord]
      /\ \A d \in Devices : ~peers[d].trusted /\ ~shown[d].trusted
  BY <1>1, UnknownIsRecord DEF Unknown
<1>3. Idle \in [on : BOOLEAN, trust : BOOLEAN, left : SUBSET Devices, held : PeerRecord]
  BY UnknownIsRecord DEF Idle
<1>4. IsFiniteSet({})
  BY FS_EmptySet
<1>5. TypeOK
  <2>1. \A d \in Devices : peers[d].trusted => peers[d].key # NoKey
    BY <1>2
  <2>2. seeing \subseteq Sighting /\ IsFiniteSet(seeing) /\ read \subseteq [Devices -> PeerRecord]
    BY <1>4 DEF Init
  <2>3. /\ click \in [on : BOOLEAN, trust : BOOLEAN, left : SUBSET Devices, held : PeerRecord]
        /\ click.left = {} => click.held = Unknown
    BY <1>3 DEF Init, Idle
  <2>4. seen \in 0 .. MaxSeen /\ clicks \in 0 .. MaxClicks
    BY TrustAssumption DEF Init
  <2>5. /\ changed \in BOOLEAN /\ due \in BOOLEAN
        /\ {accepted, compared, reported} \subseteq SUBSET (Devices \X Keys)
    BY DEF Init
  <2> QED
    BY <1>2, <2>1, <2>2, <2>3, <2>4, <2>5 DEF TypeOK
<1>6. ClickInv
  BY DEF Init, ClickInv, Idle
<1>7. CopiesInv
  BY <1>2 DEF Init, CopiesInv, Asked
<1> QED
  BY <1>5, <1>6, <1>7 DEF IInv

-----------------------------------------------------------------------------

\* SeeKey keeps the invariant.
LEMMA SeeKeyStep ==
  ASSUME IInv, NEW d \in Devices, NEW k \in Keys, SeeKey(d, k)
  PROVE  IInv'
<1> DEFINE s == [device |-> d, key |-> k, previous |-> peers[d]]
<1>1. s \in Sighting
  BY DEF IInv, TypeOK, Sighting
<1>2. seeing' = seeing \cup {s}
  BY DEF SeeKey
<1>3. IsFiniteSet(seeing')
  BY <1>2, FS_AddElement DEF IInv, TypeOK
<1>4. seen' \in 0 .. MaxSeen
  BY TrustAssumption DEF IInv, TypeOK, SeeKey
<1>5. TypeOK'
  BY <1>1, <1>2, <1>3, <1>4 DEF IInv, TypeOK, SeeKey
<1>6. ClickInv'
  BY DEF IInv, ClickInv, SeeKey
<1>7. s.previous.trusted => s.previous.key # NoKey /\ <<s.device, s.previous.key>> \in accepted
  BY DEF IInv, TypeOK, CopiesInv, Asked
<1>8. CopiesInv'
  BY <1>2, <1>7 DEF IInv, CopiesInv, Asked, SeeKey
<1> QED
  BY <1>5, <1>6, <1>8 DEF IInv

\* A key is trusted after a sighting only if it was trusted, and the same,
\* when the sighting began.
LEMMA RememberedSound ==
  ASSUME NEW s \in Sighting,
         s.previous.trusted => s.previous.key # NoKey /\ <<s.device, s.previous.key>> \in accepted
  PROVE  /\ Remembered(s) \in PeerRecord /\ Remembered(s).key = s.key /\ s.key \in Keys
         /\ s.key # NoKey
         /\ Remembered(s).trusted => <<s.device, s.key>> \in accepted
<1>1. /\ s.key \in Keys /\ s.key # NoKey /\ s.previous \in PeerRecord
  BY TrustAssumption DEF Sighting
<1>2. Remembered(s).key = s.key /\ Remembered(s).trusted = (~Changed(s) /\ s.previous.trusted)
  BY DEF Remembered
<1>3. Remembered(s) \in PeerRecord
  BY <1>1, Zenon DEF Remembered, PeerRecord
<1>4. ASSUME ~Changed(s), s.previous.trusted PROVE <<s.device, s.key>> \in accepted
  BY <1>4 DEF Changed
<1> QED
  BY <1>1, <1>2, <1>3, <1>4

\* WriteKey keeps the invariant.
LEMMA WriteKeyStep ==
  ASSUME IInv, NEW s \in seeing, WriteKey(s)
  PROVE  IInv'
<1>1. /\ s \in Sighting /\ s.device \in Devices
      /\ s.previous.trusted => s.previous.key # NoKey /\ <<s.device, s.previous.key>> \in accepted
  BY DEF IInv, TypeOK, CopiesInv, Sighting
<1>2. /\ Remembered(s) \in PeerRecord /\ Remembered(s).key = s.key /\ s.key \in Keys
      /\ s.key # NoKey
      /\ Remembered(s).trusted => <<s.device, s.key>> \in accepted
  BY <1>1, RememberedSound
<1>3. /\ peers' \in [Devices -> PeerRecord] /\ peers'[s.device] = Remembered(s)
      /\ \A d \in Devices : d # s.device => peers'[d] = peers[d]
  BY <1>1, <1>2 DEF WriteKey, IInv, TypeOK
<1>4. Confirming \in BOOLEAN
  BY DEF IInv, TypeOK, Confirming
<1>5. accepted \subseteq accepted' /\ accepted' \in SUBSET (Devices \X Keys)
  BY <1>3, <1>4, AcceptGrows DEF WriteKey, IInv, TypeOK
<1>6. \A d \in Devices : peers'[d].trusted => peers'[d].key # NoKey
  BY <1>2, <1>3 DEF IInv, TypeOK
<1>7. seeing' \subseteq seeing /\ IsFiniteSet(seeing')
  BY FS_Subset DEF WriteKey, IInv, TypeOK
<1>8. reported' \in SUBSET (Devices \X Keys)
  BY <1>1, <1>2 DEF WriteKey, Others, IInv, TypeOK
<1>9. /\ changed' \in BOOLEAN /\ due' \in BOOLEAN /\ read' \subseteq read
  BY DEF WriteKey, Redraw, Changed, IInv, TypeOK
<1>10. UNCHANGED <<click, shown, compared, seen, clicks>>
  BY DEF WriteKey
<1>11. TypeOK'
  BY <1>3, <1>5, <1>6, <1>7, <1>8, <1>9, <1>10 DEF IInv, TypeOK
<1>12. Known(peers) \subseteq Known(peers')
  BY <1>2, <1>3 DEF Known
<1>13. ClickInv'
  BY <1>10, <1>12 DEF IInv, ClickInv
<1>14. Asked(peers)'
  BY <1>2, <1>3, <1>5 DEF IInv, CopiesInv, Asked
<1>15. CopiesInv'
  BY <1>5, <1>7, <1>9, <1>10, <1>14 DEF IInv, CopiesInv, Asked
<1> QED
  BY <1>11, <1>13, <1>15 DEF IInv

\* Press keeps the invariant.
LEMMA PressStep ==
  ASSUME IInv, NEW trust \in BOOLEAN, Press(trust)
  PROVE  IInv'
<1>1. accepted \subseteq accepted' /\ accepted' \in SUBSET (Devices \X Keys)
  BY AcceptGrows DEF Press, IInv, TypeOK
<1>2. compared' \in SUBSET (Devices \X Keys)
  BY PairsTyped DEF Press, IInv, TypeOK
<1>3. clicks' \in 0 .. MaxClicks
  BY TrustAssumption DEF Press, IInv, TypeOK
<1>4. click' = [on |-> TRUE, trust |-> trust, left |-> Known(peers), held |-> Unknown]
  BY DEF Press, Idle
<1>5. /\ click' \in [on : BOOLEAN, trust : BOOLEAN, left : SUBSET Devices, held : PeerRecord]
      /\ click'.left = {} => click'.held = Unknown
  BY <1>4, UnknownIsRecord DEF Known
<1>6. UNCHANGED <<peers, seeing, changed, due, read, shown, reported, seen>>
  BY DEF Press
<1>7. TypeOK'
  BY <1>1, <1>2, <1>3, <1>5, <1>6 DEF IInv, TypeOK
<1>8. ClickInv'
  BY <1>4, <1>6 DEF ClickInv, Known
<1>9. CopiesInv'
  BY <1>1, <1>6, QuietStep DEF IInv
<1> QED
  BY <1>7, <1>8, <1>9 DEF IInv

\* ReadRecord keeps the invariant.
LEMMA ReadRecordStep ==
  ASSUME IInv, ReadRecord
  PROVE  IInv'
<1> DEFINE d == First(click.left)
<1>1. click.left \subseteq Devices /\ click.left # {}
  BY DEF ReadRecord, IInv, TypeOK
<1>2. d \in click.left /\ d \in Devices
  BY <1>1, FirstIsLeft
<1>3. peers[d] \in PeerRecord /\ peers[d].key # NoKey
  BY <1>2 DEF IInv, TypeOK, ClickInv, Known
<1>4. click' = [click EXCEPT !.held = peers[d]]
  BY DEF ReadRecord
<1> HIDE DEF d
<1>5. /\ click' \in [on : BOOLEAN, trust : BOOLEAN, left : SUBSET Devices, held : PeerRecord]
      /\ click'.left = click.left /\ click'.held = peers[d]
  BY <1>3, <1>4 DEF IInv, TypeOK
<1>6. TypeOK'
  BY <1>1, <1>5 DEF ReadRecord, IInv, TypeOK
<1>7. ClickInv'
  BY <1>3, <1>5 DEF ReadRecord, IInv, ClickInv, Known
<1>8. CopiesInv'
  BY QuietStep DEF ReadRecord, IInv
<1> QED
  BY <1>6, <1>7, <1>8 DEF IInv

\* The flag written is that of a key on file while the user confirms, or FALSE.
LEMMA WriteTrustStep ==
  ASSUME IInv, WriteTrust
  PROVE  IInv'
<1> DEFINE d == First(click.left)
           new == [click.held EXCEPT !.trusted = click.trust]
<1>1. /\ click.held \in PeerRecord /\ click.held.key # NoKey
      /\ click.left # {} /\ click.left \subseteq Devices
      /\ click.trust \in BOOLEAN /\ click.on \in BOOLEAN
  BY DEF WriteTrust, IInv, TypeOK, ClickInv
<1>2. d \in click.left /\ d \in Devices
  BY <1>1, FirstIsLeft
<1>3. new = [key |-> click.held.key, trusted |-> click.trust]
  BY <1>1 DEF PeerRecord
<1>4. /\ peers' = [peers EXCEPT ![d] = new] /\ click' = AfterWrite(click, d)
      /\ reported' = Others(d) /\ Accept(Confirming, peers')
      /\ UNCHANGED <<seeing, changed, due, read, shown, compared, seen, clicks>>
  BY DEF WriteTrust
<1> HIDE DEF d, new
<1>5. new \in PeerRecord /\ new.key # NoKey /\ new.trusted = click.trust
  BY <1>1, <1>3, Zenon DEF PeerRecord
<1>6. /\ peers' \in [Devices -> PeerRecord] /\ peers'[d] = new
      /\ \A e \in Devices : e # d => peers'[e] = peers[e]
  BY <1>2, <1>4, <1>5 DEF IInv, TypeOK
<1>7. Confirming \in BOOLEAN
  BY <1>1 DEF Confirming
<1>8. /\ accepted \subseteq accepted' /\ accepted' \in SUBSET (Devices \X Keys)
      /\ Confirming => Pairs(peers') \subseteq accepted'
  BY <1>4, <1>6, <1>7, AcceptGrows DEF IInv, TypeOK
<1>9. <<d, new.key>> \in Pairs(peers')
  BY <1>2, <1>5, <1>6, PairsTyped
<1>10. click' = [on |-> click.on, trust |-> click.trust, left |-> click.left \ {d},
                 held |-> Unknown]
  BY <1>4 DEF AfterWrite, IInv, TypeOK
<1>11. /\ click' \in [on : BOOLEAN, trust : BOOLEAN, left : SUBSET Devices, held : PeerRecord]
       /\ click'.held = Unknown /\ click'.left \subseteq click.left
       /\ click'.on = click.on
  BY <1>1, <1>10, UnknownIsRecord
<1>12. \A e \in Devices : peers'[e].trusted => peers'[e].key # NoKey
  BY <1>5, <1>6 DEF IInv, TypeOK
<1>13. reported' \in SUBSET (Devices \X Keys)
  BY <1>4 DEF Others, IInv, TypeOK
<1>14. TypeOK'
  BY <1>4, <1>6, <1>8, <1>11, <1>12, <1>13 DEF IInv, TypeOK
<1>15. Known(peers) \subseteq Known(peers')
  BY <1>5, <1>6 DEF Known
<1>16. ClickInv'
  <2>1. click.on
    BY <1>1 DEF IInv, ClickInv
  <2> QED
    BY <1>11, <1>15, <2>1 DEF IInv, ClickInv
<1>17. new.trusted => <<d, new.key>> \in accepted'
  <2>1. CASE ~click.trust
    BY <2>1, <1>5
  <2>2. CASE click.trust
    <3>1. click.on
      BY <1>1 DEF IInv, ClickInv
    <3> QED
      BY <3>1, <2>2, <1>8, <1>9 DEF Confirming
  <2> QED
    BY <2>1, <2>2
<1>18. Asked(peers)'
  BY <1>6, <1>8, <1>17 DEF IInv, CopiesInv, Asked
<1>19. CopiesInv'
  BY <1>4, <1>8, <1>18 DEF IInv, CopiesInv, Asked
<1> QED
  BY <1>14, <1>16, <1>19 DEF IInv

-----------------------------------------------------------------------------

\* FinishClick keeps the invariant.
LEMMA FinishClickStep ==
  ASSUME IInv, FinishClick
  PROVE  IInv'
<1>1. /\ Idle \in [on : BOOLEAN, trust : BOOLEAN, left : SUBSET Devices, held : PeerRecord]
      /\ Idle.left = {} /\ Idle.held = Unknown
  BY UnknownIsRecord DEF Idle
<1>2. TypeOK'
  BY <1>1 DEF FinishClick, IInv, TypeOK
<1>3. ClickInv'
  BY <1>1 DEF FinishClick, ClickInv
<1>4. CopiesInv'
  BY QuietStep DEF FinishClick, IInv
<1> QED
  BY <1>2, <1>3, <1>4 DEF IInv

\* What is read, and then shown, is what is on file.
LEMMA EffectStep ==
  ASSUME IInv, OpenChat \/ ReadDevices \/ ShowNumber
  PROVE  IInv'
<1>1. CASE OpenChat
  <2>1. TypeOK' /\ ClickInv'
    BY <1>1 DEF OpenChat, IInv, TypeOK, ClickInv, Known
  <2>2. CopiesInv'
    BY <1>1, QuietStep DEF OpenChat, IInv
  <2> QED
    BY <2>1, <2>2 DEF IInv
<1>2. CASE ReadDevices
  <2>1. TypeOK' /\ ClickInv'
    BY <1>2 DEF ReadDevices, IInv, TypeOK, ClickInv, Known
  <2>2. CopiesInv'
    BY <1>2 DEF ReadDevices, IInv, CopiesInv, Asked
  <2> QED
    BY <2>1, <2>2 DEF IInv
<1>3. CASE ShowNumber
  <2>1. TypeOK' /\ ClickInv'
    BY <1>3 DEF ShowNumber, IInv, TypeOK, ClickInv, Known
  <2>2. CopiesInv'
    BY <1>3 DEF ShowNumber, IInv, CopiesInv, Asked
  <2> QED
    BY <2>1, <2>2 DEF IInv
<1> QED
  BY <1>1, <1>2, <1>3

\* Reload keeps the invariant.
LEMMA ReloadStep ==
  ASSUME IInv, Reload
  PROVE  IInv'
<1>1. /\ Idle \in [on : BOOLEAN, trust : BOOLEAN, left : SUBSET Devices, held : PeerRecord]
      /\ Idle.left = {} /\ Idle.held = Unknown
  BY UnknownIsRecord DEF Idle
<1>2. /\ shown' \in [Devices -> PeerRecord]
      /\ \A d \in Devices : ~shown'[d].trusted
  BY UnknownIsRecord DEF Reload, Unknown
<1>3. IsFiniteSet(seeing')
  BY FS_EmptySet DEF Reload
<1>4. TypeOK'
  BY <1>1, <1>2, <1>3 DEF Reload, IInv, TypeOK
<1>5. ClickInv'
  BY <1>1 DEF Reload, ClickInv
<1>6. CopiesInv'
  BY <1>2 DEF Reload, IInv, CopiesInv, Asked
<1> QED
  BY <1>4, <1>5, <1>6 DEF IInv

\* Every step keeps the invariant.
LEMMA StepInv == IInv /\ [Next]_vars => IInv'
<1> SUFFICES ASSUME IInv, [Next]_vars PROVE IInv'
  OBVIOUS
<1>1. ASSUME NEW d \in Devices, NEW k \in Keys, SeeKey(d, k) PROVE IInv'
  BY <1>1, SeeKeyStep
<1>2. ASSUME NEW s \in seeing, WriteKey(s) PROVE IInv'
  BY <1>2, WriteKeyStep
<1>3. ASSUME NEW trust \in BOOLEAN, Press(trust) PROVE IInv'
  BY <1>3, PressStep
<1>4. CASE ReadRecord
  BY <1>4, ReadRecordStep
<1>5. CASE WriteTrust
  BY <1>5, WriteTrustStep
<1>6. CASE FinishClick
  BY <1>6, FinishClickStep
<1>7. CASE OpenChat \/ ReadDevices \/ ShowNumber
  BY <1>7, EffectStep
<1>8. CASE Reload
  BY <1>8, ReloadStep
<1>9. CASE UNCHANGED vars
  BY <1>9 DEF vars, IInv, TypeOK, ClickInv, CopiesInv, Asked, Known
<1> QED
  BY <1>1, <1>2, <1>3, <1>4, <1>5, <1>6, <1>7, <1>8, <1>9 DEF Next

\* The invariant holds throughout.
LEMMA AlwaysIInv == Spec => []IInv
  BY InitInv, StepInv, PTL DEF Spec

-----------------------------------------------------------------------------

\* Records and their copies are peer records, and a record without a key is
\* not trusted (store.ts, useSafetyNumber.ts).
THEOREM Typing == Spec => []TypeOK
<1>1. IInv => TypeOK
  BY DEF IInv
<1> QED
  BY <1>1, AlwaysIInv, PTL

\* No interleaving of rememberPeerIdentity and setPeerTrusted trusts a key
\* that was not on file while the user was confirming.
THEOREM TrustAsked == Spec => []TrustWasAsked
<1>1. IInv => TrustWasAsked
  BY DEF IInv, CopiesInv, Asked, TrustWasAsked
<1> QED
  BY <1>1, AlwaysIInv, PTL

\* A peer is shown as verified only with keys that were on file while the
\* user was confirming, however old the records shown are.
THEOREM VerifiedAsked == Spec => []VerifiedWasAsked
<1>1. IInv => VerifiedWasAsked
  <2> SUFFICES ASSUME IInv, State = "verified", NEW r \in Pairs(shown) PROVE r \in accepted
    BY DEF VerifiedWasAsked
  <2>1. PICK d \in Known(shown) : r = <<d, shown[d].key>>
    BY DEF Pairs
  <2>2. AllTrusted(shown)
    BY DEF State
  <2> QED
    BY <2>1, <2>2 DEF IInv, CopiesInv, Asked, AllTrusted, Known
<1> QED
  BY <1>1, AlwaysIInv, PTL

=============================================================================
