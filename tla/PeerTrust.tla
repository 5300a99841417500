----------------------------- MODULE PeerTrust -----------------------------
(* What one installation believes of the devices of one peer account: the  *)
(* identity keys it has seen, whether the user has compared them, and the  *)
(* safety number it shows. Keys are seen by sends and by handshakes        *)
(* (session.ts), compared in the safety number dialog (useSafetyNumber.ts),*)
(* and both read a peer record in one transaction and write it in another  *)
(* (store.ts).                                                             *)
EXTENDS Naturals, FiniteSets

CONSTANTS Devices,      \* the peer's devices, numbered in the order they are listed
          Keys, NoKey,
          MaxSeen,      \* bound: keys seen
          MaxClicks,    \* bound: times the user confirms or clears
          MaxAtOnce     \* bound: sightings under way at once

ASSUME TrustAssumption ==
    /\ Devices \subseteq Nat /\ NoKey \notin Keys
    /\ MaxSeen \in Nat /\ MaxClicks \in Nat /\ MaxAtOnce \in Nat

VARIABLES peers,      \* the peer records of the vault
          seeing,     \* calls of rememberPeerIdentity between its two transactions
          click,      \* setTrust under way
          changed,    \* changedPeerIds has the account
          due,        \* the effect that resolves the safety number is to run
          read,       \* what it has read and not yet shown
          shown,      \* `resolved`: the records the number on the screen is made of
          accepted,   \* history: keys on file while the user was confirming
          compared,   \* history: keys in a number the user has confirmed
          reported,   \* history: the changes onIdentityChange has told of and nothing wrote over
          seen, clicks

vars == <<peers, seeing, click, changed, due, read, shown, accepted, compared, reported,
          seen, clicks>>

PeerRecord == [key : Keys \cup {NoKey}, trusted : BOOLEAN]
Unknown == [key |-> NoKey, trusted |-> FALSE]
Sighting == [device : Devices, key : Keys, previous : PeerRecord]

\* setTrust's loop: the devices left to write, and the record of the first of
\* them once it is read.
Idle == [on |-> FALSE, trust |-> FALSE, left |-> {}, held |-> Unknown]

Known(records) == {d \in Devices : records[d].key # NoKey}
Pairs(records) == {<<d, records[d].key>> : d \in Known(records)}

Init ==
    /\ peers = [d \in Devices |-> Unknown]
    /\ seeing = {} /\ click = Idle /\ changed = FALSE /\ due = FALSE
    /\ read = {} /\ shown = [d \in Devices |-> Unknown]
    /\ accepted = {} /\ compared = {} /\ reported = {}
    /\ seen = 0 /\ clicks = 0

\* Whatever is on file while a "They match" is under way counts as accepted.
Accept(on, records) == accepted' = IF on THEN accepted \cup Pairs(records) ELSE accepted

Confirming == click.on /\ click.trust

-----------------------------------------------------------------------------
(* rememberPeerIdentity: a send or a handshake shows a key of a device.    *)

SeeKey(d, k) ==
    /\ seen < MaxSeen /\ Cardinality(seeing) < MaxAtOnce
    /\ seeing' = seeing \cup {[device |-> d, key |-> k, previous |-> peers[d]]}
    /\ seen' = seen + 1
    /\ UNCHANGED <<peers, click, changed, due, read, shown, accepted, compared, reported, clicks>>

Changed(s) == s.previous.key # NoKey /\ s.previous.key # s.key

RememberedTrusting(s) == [key |-> s.key, trusted |-> s.previous.trusted]
\* A changed key resets trust.
Remembered(s) == [key |-> s.key, trusted |-> ~Changed(s) /\ s.previous.trusted]

RedrawLater(s) == UNCHANGED <<due, read>>
\* The effect depends on changedPeerIds, a new set after every change.
Redraw(s) == due' = (due \/ Changed(s)) /\ read' = IF Changed(s) THEN {} ELSE read

\* Reports of other devices: that of this one is over when its record is
\* written again.
Others(d) == {r \in reported : r[1] # d}

\* rememberPeer tells the app of a change as soon as the record is written.
WriteKey(s) ==
    /\ s \in seeing /\ seeing' = seeing \ {s}
    /\ peers' = [peers EXCEPT ![s.device] = Remembered(s)]
    /\ changed' = (changed \/ Changed(s))
    /\ reported' = Others(s.device) \cup (IF Changed(s) THEN {<<s.device, s.key>>} ELSE {})
    /\ Redraw(s) /\ Accept(Confirming, peers')
    /\ UNCHANGED <<click, shown, compared, seen, clicks>>

-----------------------------------------------------------------------------
(* useSafetyNumber                                                         *)

\* The chat is opened: the effect runs for its peer.
OpenChat ==
    /\ ~due /\ read = {} /\ due' = TRUE
    /\ UNCHANGED <<peers, seeing, click, changed, read, shown, accepted, compared, reported,
                   seen, clicks>>

\* resolve reads all of the account's records in one transaction; the answer
\* of a run that has been replaced since is dropped.
ReadDevices ==
    /\ due /\ due' = FALSE /\ read' = {peers}
    /\ UNCHANGED <<peers, seeing, click, changed, shown, accepted, compared, reported,
                   seen, clicks>>

ShowNumber ==
    /\ ~due /\ shown' \in read /\ read' = {}
    /\ UNCHANGED <<peers, seeing, click, changed, due, accepted, compared, reported, seen, clicks>>

AnyTrusted(records) == \E d \in Known(records) : records[d].trusted
\* Verified only when every device shown has been accepted.
AllTrusted(records) == \A d \in Known(records) : records[d].trusted

State ==
    IF Known(shown) = {} THEN "pending"
    ELSE IF changed THEN "changed"
    ELSE IF AllTrusted(shown) THEN "verified" ELSE "unverified"

\* "They match" and "Clear verification": the records are listed when the
\* button is pressed, whatever the number on the screen was made of.
Press(trust) ==
    /\ ~click.on /\ clicks < MaxClicks
    /\ IF trust THEN State \in {"changed", "unverified"} ELSE State = "verified"
    /\ click' = [Idle EXCEPT !.on = TRUE, !.trust = trust, !.left = Known(peers)]
    /\ clicks' = clicks + 1
    /\ compared' = IF trust THEN compared \cup Pairs(shown) ELSE compared
    /\ Accept(trust, peers)
    /\ UNCHANGED <<peers, seeing, changed, due, read, shown, reported, seen>>

First(left) == CHOOSE d \in left : \A e \in left : d <= e

\* setPeerTrusted reads the record ...
ReadRecord ==
    /\ click.left # {} /\ click.held = Unknown
    /\ click' = [click EXCEPT !.held = peers[First(click.left)]]
    /\ UNCHANGED <<peers, seeing, changed, due, read, shown, accepted, compared, reported,
                   seen, clicks>>

AfterWrite(c, d) == [c EXCEPT !.left = @ \ {d}, !.held = Unknown]

\* ... and writes it back with the flag.
WriteTrust ==
    /\ click.held # Unknown
    /\ LET d == First(click.left)
       IN /\ peers' = [peers EXCEPT ![d] = [click.held EXCEPT !.trusted = click.trust]]
          /\ click' = AfterWrite(click, d)
          /\ reported' = Others(d)
    /\ Accept(Confirming, peers')
    /\ UNCHANGED <<seeing, changed, due, read, shown, compared, seen, clicks>>

\* setReloadToken runs the effect again.
FinishClick ==
    /\ click.on /\ click.left = {} /\ click' = Idle
    /\ due' = TRUE /\ read' = {}
    /\ UNCHANGED <<peers, seeing, changed, shown, accepted, compared, reported, seen, clicks>>

\* The page is loaded again: only the peer records are left.
Reload ==
    /\ click.on \/ seeing # {} \/ changed
    /\ seeing' = {} /\ click' = Idle /\ changed' = FALSE /\ due' = FALSE
    /\ read' = {} /\ shown' = [d \in Devices |-> Unknown] /\ reported' = {}
    /\ UNCHANGED <<peers, accepted, compared, seen, clicks>>

Next ==
    \/ \E d \in Devices, k \in Keys : SeeKey(d, k)
    \/ \E s \in seeing : WriteKey(s)
    \/ OpenChat \/ ReadDevices \/ ShowNumber
    \/ \E trust \in BOOLEAN : Press(trust)
    \/ ReadRecord \/ WriteTrust \/ FinishClick \/ Reload

Spec == Init /\ [][Next]_vars

\* Transactions end and effects run.
FairSpec == Spec /\ WF_vars(ReadDevices) /\ WF_vars(ShowNumber)

-----------------------------------------------------------------------------

\* Records, and what is read of them, are peer records; a record without a
\* key is not trusted; and setTrust holds a record only of a device it has left.
TypeOK ==
    /\ peers \in [Devices -> PeerRecord] /\ shown \in [Devices -> PeerRecord]
    /\ \A d \in Devices : peers[d].trusted => peers[d].key # NoKey
    /\ seeing \subseteq Sighting /\ IsFiniteSet(seeing)
    /\ click \in [on : BOOLEAN, trust : BOOLEAN, left : SUBSET Devices, held : PeerRecord]
    /\ click.left = {} => click.held = Unknown
    /\ changed \in BOOLEAN /\ due \in BOOLEAN
    /\ read \subseteq [Devices -> PeerRecord]
    /\ {accepted, compared, reported} \subseteq SUBSET (Devices \X Keys)
    /\ seen \in 0 .. MaxSeen /\ clicks \in 0 .. MaxClicks

\* A key is trusted only if it was on file while the user was confirming:
\* no interleaving of the two transactions carries trust over to another key.
TrustWasAsked == \A d \in Devices : peers[d].trusted => <<d, peers[d].key>> \in accepted

\* While the peer is shown as verified, every key its number was made of had
\* been on file while the user was confirming.
VerifiedWasAsked == State = "verified" => Pairs(shown) \subseteq accepted

\* A key reported as changed comes to be part of the number on the screen,
\* unless the record is written again or the page loaded again first.
ChangeShown ==
    \A d \in Devices, k \in Keys :
        (<<d, k>> \in reported) ~> (shown[d].key = k \/ <<d, k>> \notin reported)

(* Stated by the code and false: see the README.                           *)

\* "the safety number the user compared covers the whole set"
\* (useSafetyNumber.ts): only keys in a number the user confirmed are trusted.
TrustedWasCompared == \A d \in Devices : peers[d].trusted => <<d, peers[d].key>> \in compared

\* "Mark a peer verified after an out-of-band safety number comparison"
\* (store.ts:955): the key on file stays the one on file.
OnlyTheFlag == [][WriteTrust => Pairs(peers') = Pairs(peers)]_vars

=============================================================================
