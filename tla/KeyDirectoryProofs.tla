-------------------------- MODULE KeyDirectoryProofs --------------------------
(***************************************************************************)
(* Proofs about KeyDirectory, for any number of tabs and claimers and any  *)
(* limits and bounds: no one-time prekey is handed out twice, and the      *)
(* vault holds the private half of each one that is offered or handed out. *)
(* Both follow from StockInv, which with the types below is inductive.     *)
(***************************************************************************)
EXTENDS KeyDirectory, FiniteSetTheorems, TLAPS

\* What is written to the vault is seen through in every proof.
USE DEF WithSigned, WithBatch

Typed ==
  /\ nextKey \in Nat \ {0}
  /\ tabs \in [Tab -> TabState]
  /\ claims \in [Claimer -> ClaimState]
  /\ uploads \subseteq UploadState

IInv == Typed /\ StockInv

\* Keys made stay made.
LEMMA MadeGrows ==
  ASSUME NEW a \in Nat, NEW b \in Nat, a <= b
  PROVE  1..(a - 1) \subseteq 1..(b - 1)
  OBVIOUS

\* A new batch is not empty, and disjoint from every key made before it.
LEMMA BatchIsNew ==
  ASSUME nextKey \in Nat \ {0}, NEW next, next = nextKey + Batch
  PROVE  /\ NewBatch \in SUBSET Key
         /\ NewBatch \cap (1..(nextKey - 1)) = {}
         /\ NewBatch \subseteq 1..(next - 1)
         /\ 1..(nextKey - 1) \subseteq 1..(next - 1)
         /\ next \in Nat \ {0} /\ nextKey <= next
  BY DirectoryConstants DEF NewBatch, Key

\* What an upload or a publication inserts is among the keys it brings.
LEMMA InsertedAreSent ==
  ASSUME NEW keys, NEW seen
  PROVE  Inserted(keys, seen) \subseteq keys
  BY DEF Inserted

\* Init establishes the invariant: there are no keys yet.
LEMMA InitInv == Init => IInv
  BY DEF Init, IInv, Typed, StockInv, KeysMade, KeysWaiting, KeysSaved, KeysClaimed,
         Candidates, SignedOut, Idle, NoKey, TabState, ClaimState, UploadState, Key

\* A step that brings no key to the stock, to a tab or to a request, and takes
\* none from the stock, the vault or a claim, preserves StockInv.
LEMMA QuietStep ==
  ASSUME StockInv, claims \in [Claimer -> ClaimState],
         nextKey \in Nat, nextKey' \in Nat, nextKey <= nextKey',
         stock' = stock, claims' = claims, oneTime \subseteq oneTime',
         uploads' \subseteq uploads,
         \A t \in Tab : tabs'[t].oneTime \subseteq tabs[t].oneTime
  PROVE  StockInv'
<1>1. KeysMade'
  <2>1. 1..(nextKey - 1) \subseteq 1..(nextKey' - 1)
    BY MadeGrows
  <2>2. \A c \in Candidates : claims[c].key < nextKey => claims[c].key < nextKey'
    BY DEF Candidates, ClaimState, Key
  <2> QED
    BY <2>1, <2>2 DEF StockInv, KeysMade, Candidates
<1>2. KeysWaiting'
  BY DEF StockInv, KeysWaiting
<1>3. KeysSaved'
  BY DEF StockInv, KeysSaved, Candidates
<1>4. KeysClaimed'
  BY DEF StockInv, KeysClaimed, Candidates
<1> QED
  BY <1>1, <1>2, <1>3, <1>4 DEF StockInv

\* Publication moves keys from one tab to the stock.
LEMMA PublicationStep ==
  ASSUME Typed, StockInv, NEW t \in Tab, Publication(t),
         tabs' = [tabs EXCEPT ![t] = [SignedOut EXCEPT !.at = "in"]]
           \/ tabs' = [tabs EXCEPT ![t] = SignedOut],
         UNCHANGED <<oneTime, uploads, claims, nextKey>>
  PROVE  StockInv'
<1> DEFINE new == Inserted(tabs[t].oneTime, stock)
<1>1. stock' = stock \cup new /\ new \subseteq tabs[t].oneTime
  BY InsertedAreSent DEF Publication
<1>2. /\ tabs'[t].oneTime = {}
      /\ \A s \in Tab : s # t => tabs'[s].oneTime = tabs[s].oneTime
  BY DEF Typed, SignedOut
<1> HIDE DEF new
<1>3. KeysMade'
  BY <1>1, <1>2 DEF StockInv, KeysMade, Candidates
<1>4. KeysWaiting'
  BY <1>1, <1>2 DEF StockInv, KeysWaiting
<1>5. KeysSaved'
  BY <1>1, <1>2 DEF StockInv, KeysSaved, Candidates
<1>6. KeysClaimed'
  BY <1>1, <1>2 DEF StockInv, KeysClaimed, Candidates
<1> QED
  BY <1>3, <1>4, <1>5, <1>6 DEF StockInv

\* A batch is new to the tab that makes it and to everyone else.
LEMMA SaveOneTimePreKeysStep ==
  ASSUME Typed, StockInv, NEW t \in Tab, SaveOneTimePreKeys(t)
  PROVE  StockInv'
<1>1. /\ oneTime' = oneTime \cup NewBatch /\ nextKey' = nextKey + Batch
      /\ stock' = stock /\ uploads' = uploads /\ claims' = claims
  BY DEF SaveOneTimePreKeys, server
<1>2. /\ tabs'[t].oneTime = NewBatch
      /\ \A s \in Tab : s # t => tabs'[s].oneTime = tabs[s].oneTime
  BY DEF Typed, SaveOneTimePreKeys, TabState
<1>3. /\ NewBatch \cap (1..(nextKey - 1)) = {}
      /\ NewBatch \subseteq 1..(nextKey' - 1)
      /\ 1..(nextKey - 1) \subseteq 1..(nextKey' - 1)
      /\ nextKey \in Nat /\ nextKey' \in Nat /\ nextKey <= nextKey'
  BY <1>1, BatchIsNew DEF Typed
<1>4. \A c \in Candidates : claims[c].key \in 1..(nextKey - 1)
  BY DEF Typed, StockInv, KeysMade, Candidates, ClaimState, Key, NoKey
<1>5. KeysMade'
  <2>1. \A c \in Candidates : claims[c].key < nextKey'
    BY <1>3, <1>4
  <2> QED
    BY <1>1, <1>2, <1>3, <2>1 DEF StockInv, KeysMade, Candidates
<1>6. KeysWaiting'
  BY <1>1, <1>2, <1>3 DEF StockInv, KeysMade, KeysWaiting
<1>7. KeysSaved'
  BY <1>1, <1>2 DEF StockInv, KeysSaved, Candidates
<1>8. KeysClaimed'
  BY <1>1, <1>2, <1>3, <1>4 DEF StockInv, KeysMade, KeysClaimed, Candidates
<1> QED
  BY <1>5, <1>6, <1>7, <1>8 DEF StockInv

\* So it is to the request that a top-up makes.
LEMMA ReplenishStep ==
  ASSUME Typed, StockInv, NEW t \in Tab, Replenish(t)
  PROVE  StockInv'
<1>1. /\ oneTime' = oneTime \cup NewBatch /\ nextKey' = nextKey + Batch
      /\ stock' = stock /\ claims' = claims
      /\ uploads' = uploads \cup {Requested(NewBatch)}
      /\ Requested(NewBatch).keys = NewBatch
  BY DEF Replenish, Requested
<1>2. \A s \in Tab : tabs'[s].oneTime = tabs[s].oneTime
  BY DEF Typed, Replenish, TabState
<1>3. /\ NewBatch \cap (1..(nextKey - 1)) = {}
      /\ NewBatch \subseteq 1..(nextKey' - 1)
      /\ 1..(nextKey - 1) \subseteq 1..(nextKey' - 1)
      /\ nextKey \in Nat /\ nextKey' \in Nat /\ nextKey <= nextKey'
  BY <1>1, BatchIsNew DEF Typed
<1>4. \A c \in Candidates : claims[c].key \in 1..(nextKey - 1)
  BY DEF Typed, StockInv, KeysMade, Candidates, ClaimState, Key, NoKey
<1>5. KeysMade'
  <2>1. \A c \in Candidates : claims[c].key < nextKey'
    BY <1>3, <1>4
  <2> QED
    BY <1>1, <1>2, <1>3, <2>1 DEF StockInv, KeysMade, Candidates
<1>6. KeysWaiting'
  BY <1>1, <1>2, <1>3 DEF StockInv, KeysMade, KeysWaiting
<1>7. KeysSaved'
  BY <1>1, <1>2 DEF StockInv, KeysSaved, Candidates
<1>8. KeysClaimed'
  BY <1>1, <1>2, <1>3, <1>4 DEF StockInv, KeysMade, KeysClaimed, Candidates
<1> QED
  BY <1>5, <1>6, <1>7, <1>8 DEF StockInv

\* The ids a top-up has read are remembered; what it brings is the same.
LEMMA ReadStockStep ==
  ASSUME Typed, StockInv, NEW u \in uploads, ReadStock(u)
  PROVE  StockInv'
<1> DEFINE v == [u EXCEPT !.read = TRUE, !.seen = stock]
<1>1. /\ uploads' = (uploads \ {u}) \cup {v}
      /\ v.keys = u.keys
  BY DEF Typed, ReadStock, UploadState
<1>2. UNCHANGED <<oneTime, tabs, stock, claims, nextKey>>
  BY DEF ReadStock, vault
<1> HIDE DEF v
<1>3. KeysMade'
  BY <1>1, <1>2 DEF StockInv, KeysMade, Candidates
<1>4. KeysWaiting'
  BY <1>1, <1>2 DEF StockInv, KeysWaiting
<1>5. KeysSaved'
  BY <1>1, <1>2 DEF StockInv, KeysSaved, Candidates
<1>6. KeysClaimed'
  BY <1>1, <1>2 DEF StockInv, KeysClaimed, Candidates
<1> QED
  BY <1>3, <1>4, <1>5, <1>6 DEF StockInv

\* A top-up moves keys from one request to the stock, whatever it read before.
LEMMA CommitUploadStep ==
  ASSUME Typed, StockInv, NEW u \in uploads, CommitUpload(u)
  PROVE  StockInv'
<1> DEFINE new == Inserted(u.keys, u.seen)
<1>1. stock' = stock \cup new /\ new \subseteq u.keys /\ uploads' = uploads \ {u}
  BY InsertedAreSent DEF CommitUpload
<1>2. UNCHANGED <<oneTime, tabs, claims, nextKey>>
  BY DEF CommitUpload, vault
<1> HIDE DEF new
<1>3. KeysMade'
  BY <1>1, <1>2 DEF StockInv, KeysMade, Candidates
<1>4. KeysWaiting'
  BY <1>1, <1>2 DEF StockInv, KeysWaiting
<1>5. KeysSaved'
  BY <1>1, <1>2 DEF StockInv, KeysSaved, Candidates
<1>6. KeysClaimed'
  BY <1>1, <1>2 DEF StockInv, KeysClaimed, Candidates
<1> QED
  BY <1>3, <1>4, <1>5, <1>6 DEF StockInv

\* A claim locks a key of the stock that nobody has locked or claimed.
LEMMA LockOldestStep ==
  ASSUME Typed, StockInv, NEW c \in Claimer, LockOldest(c)
  PROVE  StockInv'
<1>1. PICK k \in (IF stock \ Locked = {} THEN {NoKey} ELSE Oldest(stock \ Locked)) :
        claims' = [claims EXCEPT ![c] = [at |-> "locked", key |-> k]]
  BY DEF LockOldest, LockOne
<1>2. k = NoKey \/ (k \in stock /\ k \notin Locked)
  BY <1>1 DEF Oldest
<1>3. /\ claims'[c].at = "locked" /\ claims'[c].key = k
      /\ \A d \in Claimer : d # c => claims'[d] = claims[d]
  BY <1>1 DEF Typed
<1>4. UNCHANGED <<oneTime, tabs, stock, uploads, nextKey>>
  BY DEF LockOldest, LockOne, vault
<1>5. KeysMade' /\ KeysSaved'
  <2>1. k \in stock => k < nextKey /\ k \in oneTime
    BY DEF Typed, StockInv, KeysMade, KeysSaved
  <2> QED
    BY <1>2, <1>3, <1>4, <2>1 DEF StockInv, KeysMade, KeysSaved, Candidates
<1>6. KeysWaiting'
  BY <1>4 DEF StockInv, KeysWaiting
<1>7. KeysClaimed'
  <2>1. \A d \in Candidates : d # c => claims[d].key # k
    BY <1>2, <1>3 DEF StockInv, KeysClaimed, Candidates, Locked
  <2> QED
    BY <1>2, <1>3, <1>4, <2>1 DEF StockInv, KeysClaimed, Candidates
<1> QED
  BY <1>5, <1>6, <1>7 DEF StockInv

\* The commit takes the locked key from the stock, where alone it was.
LEMMA CommitClaimStep ==
  ASSUME Typed, StockInv, NEW c \in Claimer, CommitClaim(c)
  PROVE  StockInv'
<1>1. /\ claims[c].at = "locked"
      /\ claims'[c].at = "claimed" /\ claims'[c].key = claims[c].key
      /\ \A d \in Claimer : d # c => claims'[d] = claims[d]
      /\ stock' = stock \ {claims[c].key}
  BY DEF Typed, CommitClaim, ClaimState
<1>2. UNCHANGED <<oneTime, tabs, uploads, nextKey>>
  BY DEF CommitClaim, vault
<1>3. Candidates' = Candidates /\ \A d \in Candidates : claims'[d].key = claims[d].key
  BY <1>1 DEF Candidates
<1>4. KeysMade' /\ KeysWaiting' /\ KeysSaved'
  BY <1>1, <1>2, <1>3 DEF StockInv, KeysMade, KeysWaiting, KeysSaved
<1>5. KeysClaimed'
  <2>1. c \in Candidates =>
          /\ claims[c].key \in stock
          /\ \A t \in Tab : claims[c].key \notin tabs[t].oneTime
          /\ \A u \in uploads : claims[c].key \notin u.keys
    BY <1>1 DEF StockInv, KeysClaimed, KeysWaiting
  <2>2. \A d \in Candidates : d # c => claims[d].key # claims[c].key
    BY <1>1 DEF StockInv, KeysClaimed, Candidates
  <2> QED
    BY <1>1, <1>2, <1>3, <2>1, <2>2 DEF StockInv, KeysClaimed, Candidates
<1> QED
  BY <1>4, <1>5 DEF StockInv

\* An abort gives the key back.
LEMMA AbortClaimStep ==
  ASSUME Typed, StockInv, NEW c \in Claimer, AbortClaim(c)
  PROVE  StockInv'
<1>1. /\ claims'[c].key = NoKey
      /\ \A d \in Claimer : d # c => claims'[d] = claims[d]
  BY DEF Typed, AbortClaim, Idle
<1>2. UNCHANGED <<oneTime, tabs, stock, uploads, nextKey>>
  BY DEF AbortClaim, vault
<1>3. Candidates' = Candidates \ {c}
      /\ \A d \in Candidates \ {c} : claims'[d] = claims[d]
  BY <1>1 DEF Candidates
<1> QED
  BY <1>2, <1>3 DEF StockInv, KeysMade, KeysWaiting, KeysSaved, KeysClaimed

\* Every step keeps the types.
LEMMA TypedStep ==
  ASSUME IInv, [Next]_vars
  PROVE  Typed'
<1>1. /\ nextKey \in Nat \ {0} /\ tabs \in [Tab -> TabState]
      /\ claims \in [Claimer -> ClaimState] /\ uploads \subseteq UploadState
  BY DEF IInv, Typed
<1>2. /\ NewBatch \in SUBSET Key
      /\ nextKey + Batch \in Nat \ {0} /\ nextKey + 1 \in Nat \ {0}
      /\ stock \in SUBSET Key /\ nextKey \in Key /\ NoKey \in Key
  <2>1. stock \in SUBSET Key
    BY <1>1 DEF IInv, StockInv, KeysMade, Key
  <2> QED
    BY <1>1, <2>1, BatchIsNew DEF Key, NoKey
<1>3. SignedOut \in TabState /\ [SignedOut EXCEPT !.at = "in"] \in TabState
  BY <1>2 DEF SignedOut, TabState
<1>4. Idle \in ClaimState /\ [Idle EXCEPT !.at = "failed"] \in ClaimState
  BY <1>2 DEF Idle, ClaimState
<1>5. ASSUME NEW t \in Tab, SignIn(t) \/ TopUp(t) \/ PublishFails(t) \/ Crash(t)
      PROVE  Typed'
  <2>1. CASE SaveIdentity(t)
    BY <1>1, <2>1 DEF SaveIdentity, Typed, TabState, server
  <2>2. CASE SaveSignedPreKey(t)
    BY <1>1, <1>2, <2>2 DEF SaveSignedPreKey, Typed, TabState, server
  <2>3. CASE SaveOneTimePreKeys(t)
    BY <1>1, <1>2, <2>3 DEF SaveOneTimePreKeys, Typed, TabState, server
  <2>4. CASE Rotate(t)
    BY <1>1, <1>2, <2>4 DEF Rotate, Typed, TabState, server
  <2>5. CASE Prune(t)
    BY <1>1, <2>5 DEF Prune, Typed, TabState, server
  <2>6. CASE Resume(t)
    BY <1>1, <2>6 DEF Resume, Typed, TabState, server
  <2>7. CASE Publish(t)
    BY <1>1, <1>3, <2>7 DEF Publish, Typed
  <2>8. CASE CountStock(t)
    BY <1>1, <2>8 DEF CountStock, Typed, TabState, server
  <2>9. CASE Replenish(t)
    <3>1. Requested(NewBatch) \in UploadState
      BY <1>2 DEF Requested, UploadState
    <3> QED
      BY <1>1, <1>2, <2>9, <3>1 DEF Replenish, Typed, TabState
  <2>10. CASE Reload(t)
    BY <1>1, <1>3, <2>10 DEF Reload, Typed, server
  <2>11. CASE PublishFails(t)
    BY <1>1, <1>3, <2>11 DEF PublishFails, Typed
  <2>12. CASE Crash(t)
    BY <1>1, <1>3, <2>12 DEF Crash, Typed, server
  <2> QED
    BY <1>5, <2>1, <2>2, <2>3, <2>4, <2>5, <2>6, <2>7, <2>8, <2>9, <2>10, <2>11, <2>12
    DEF SignIn, TopUp
<1>6. ASSUME NEW c \in Claimer, Claim(c) \/ AbortClaim(c) PROVE Typed'
  <2>1. CASE LockOldest(c)
    <3>1. PICK k \in (IF stock \ Locked = {} THEN {NoKey} ELSE Oldest(stock \ Locked)) :
            claims' = [claims EXCEPT ![c] = [at |-> "locked", key |-> k]]
      BY <2>1 DEF LockOldest, LockOne
    <3>2. k \in Key
      BY <1>2 DEF Oldest
    <3>3. [at |-> "locked", key |-> k] \in ClaimState
      BY <3>2 DEF ClaimState
    <3> QED
      BY <1>1, <2>1, <3>1, <3>3 DEF LockOldest, LockOne, Typed
  <2>2. CASE CommitClaim(c)
    BY <1>1, <2>2 DEF CommitClaim, Typed, ClaimState
  <2>3. CASE AbortClaim(c)
    BY <1>1, <1>4, <2>3 DEF AbortClaim, Typed
  <2> QED
    BY <1>6, <2>1, <2>2, <2>3 DEF Claim
<1>7. ASSUME NEW u \in uploads, ReadStock(u) \/ CommitUpload(u) \/ LoseUpload(u)
      PROVE  Typed'
  <2>1. [u EXCEPT !.read = TRUE, !.seen = stock] \in UploadState
    BY <1>1, <1>2 DEF UploadState
  <2> QED
    BY <1>1, <1>7, <2>1 DEF ReadStock, CommitUpload, LoseUpload, Typed
<1>8. CASE Age \/ UNCHANGED vars
  BY <1>1, <1>8 DEF Age, vars, server, Typed
<1> QED
  BY <1>5, <1>6, <1>7, <1>8 DEF Next, HandleUpload

\* Every step keeps StockInv: the actions that move keys by the lemmas above,
\* the others by QuietStep.
LEMMA StockStep ==
  ASSUME IInv, [Next]_vars
  PROVE  StockInv'
<1>1. Typed /\ StockInv /\ Typed'
  BY TypedStep DEF IInv
<1>2. /\ claims \in [Claimer -> ClaimState] /\ tabs \in [Tab -> TabState]
      /\ nextKey \in Nat /\ nextKey' \in Nat
      /\ nextKey <= nextKey /\ nextKey <= nextKey + 1
  BY <1>1 DEF Typed
<1>3. ASSUME NEW t \in Tab, SignIn(t) \/ TopUp(t) \/ PublishFails(t) \/ Crash(t)
      PROVE  StockInv'
  <2>1. CASE SaveIdentity(t) \/ Prune(t) \/ Resume(t) \/ CountStock(t)
    <3>1. UNCHANGED <<oneTime, stock, uploads, claims, nextKey>>
      BY <2>1 DEF SaveIdentity, Prune, Resume, CountStock, vault, server
    <3>2. \A s \in Tab : tabs'[s].oneTime = tabs[s].oneTime
      BY <1>2, <2>1 DEF SaveIdentity, Prune, Resume, CountStock, TabState
    <3> QED
      BY <1>1, <1>2, <3>1, <3>2, QuietStep
  <2>2. CASE SaveSignedPreKey(t) \/ Rotate(t)
    <3>1. UNCHANGED <<oneTime, stock, uploads, claims>> /\ nextKey' = nextKey + 1
      BY <2>2 DEF SaveSignedPreKey, Rotate, server
    <3>2. \A s \in Tab : tabs'[s].oneTime = tabs[s].oneTime
      BY <1>2, <2>2 DEF SaveSignedPreKey, Rotate, TabState
    <3> QED
      BY <1>1, <1>2, <3>1, <3>2, QuietStep
  <2>3. CASE Reload(t) \/ Crash(t)
    <3>1. UNCHANGED <<oneTime, stock, uploads, claims, nextKey>>
      BY <2>3 DEF Reload, Crash, vault, server
    <3>2. \A s \in Tab : tabs'[s].oneTime \subseteq tabs[s].oneTime
      BY <1>2, <2>3 DEF Reload, Crash, SignedOut
    <3> QED
      BY <1>1, <1>2, <3>1, <3>2, QuietStep
  <2>4. CASE Publish(t)
    BY <1>1, <2>4, PublicationStep DEF Publish, vault
  <2>5. CASE PublishFails(t)
    <3>1. UNCHANGED <<oneTime, uploads, claims, nextKey>>
      BY <2>5 DEF PublishFails, vault
    <3>2. tabs' = [tabs EXCEPT ![t] = SignedOut]
      BY <2>5 DEF PublishFails
    <3>3. CASE Publication(t)
      BY <1>1, <3>1, <3>2, <3>3, PublicationStep
    <3>4. CASE stock' = stock
      <4>1. \A s \in Tab : tabs'[s].oneTime \subseteq tabs[s].oneTime
        BY <1>2, <3>2 DEF SignedOut
      <4> QED
        BY <1>1, <1>2, <3>1, <3>4, <4>1, QuietStep
    <3> QED
      BY <2>5, <3>3, <3>4 DEF PublishFails
  <2> QED
    BY <1>1, <1>3, <2>1, <2>2, <2>3, <2>4, <2>5, SaveOneTimePreKeysStep, ReplenishStep
    DEF SignIn, TopUp
<1>4. ASSUME NEW c \in Claimer, Claim(c) \/ AbortClaim(c) PROVE StockInv'
  BY <1>1, <1>4, LockOldestStep, CommitClaimStep, AbortClaimStep DEF Claim
<1>5. ASSUME NEW u \in uploads, ReadStock(u) \/ CommitUpload(u) PROVE StockInv'
  BY <1>1, <1>5, ReadStockStep, CommitUploadStep
<1>6. CASE Age \/ UNCHANGED vars \/ \E u \in uploads : LoseUpload(u)
  <2>1. UNCHANGED <<oneTime, tabs, stock, claims, nextKey>> /\ uploads' \subseteq uploads
    BY <1>6 DEF Age, vars, LoseUpload, vault, server
  <2> QED
    BY <1>1, <1>2, <2>1, QuietStep
<1> QED
  BY <1>3, <1>4, <1>5, <1>6 DEF Next, HandleUpload

\* In every reachable state each one-time prekey is in one place, and in the vault.
THEOREM KeysAccounted == Spec => [](Typed /\ StockInv)
<1>1. IInv /\ [Next]_vars => IInv'
  BY TypedStep, StockStep DEF IInv
<1> QED
  BY InitInv, <1>1, PTL DEF Spec, IInv

\* However claims, top-ups, publications, aborts and losses interleave, two
\* requests for a bundle are never handed the same one-time prekey.
THEOREM OneTimePreKeysOnce == Spec => []OneTimePreKeysUsedOnce
<1>1. Typed /\ StockInv => OneTimePreKeysUsedOnce
  BY DEF StockInv, KeysClaimed, OneTimePreKeysUsedOnce, Handed, Candidates
<1> QED
  BY <1>1, KeysAccounted, PTL

\* Whatever the server offers, or has handed out, the vault holds.
THEOREM OneTimePreKeysAnswerable == Spec => []OneTimePreKeysHeld
<1>1. Typed /\ StockInv => OneTimePreKeysHeld
  BY DEF StockInv, KeysSaved, OneTimePreKeysHeld
<1> QED
  BY <1>1, KeysAccounted, PTL

-----------------------------------------------------------------------------
(* Types, and the bound on signed prekeys                                  *)

Vault ==
  /\ identity \in BOOLEAN /\ stale \in BOOLEAN
  /\ signed \in Seq(Key) /\ oneTime \subseteq Key /\ made \subseteq Key
  /\ row \in Nat /\ rotations \in 0..MaxRotations /\ lost \in 0..MaxLost

\* One tab bootstraps at a time.  It finds no signed prekey when it has just made
\* the identity; while it has yet to prune there may be one more than History, and
\* each tab that died then has left one.
Pruned ==
  /\ \A t, u \in Tab : tabs[t].at \in Bootstrapping /\ tabs[u].at \in Bootstrapping => t = u
  /\ ~identity => Len(signed) = 0
  /\ \A t \in Tab : tabs[t].at \in Bootstrapping => identity
  /\ \A t \in Tab : tabs[t].at = "identity" => Len(signed) = 0
  /\ Len(signed) <= History + lost + 1
  /\ (\A t \in Tab : tabs[t].at # "rotated") => Len(signed) <= History + lost

\* What pruning keeps is a sequence of signed prekeys no longer than asked.
LEMMA NewestIsShort ==
  ASSUME NEW s \in Seq(Key), NEW keep \in Nat
  PROVE  Newest(s, keep) \in Seq(Key) /\ Len(Newest(s, keep)) <= keep
<1>1. CASE Len(s) <= keep
  BY <1>1 DEF Newest
<1>2. CASE ~(Len(s) <= keep)
  <2>1. Newest(s, keep) = SubSeq(s, Len(s) - keep + 1, Len(s))
    BY <1>2 DEF Newest
  <2>2. Len(s) \in Nat /\ Len(s) - keep + 1 \in 1..(Len(s) + 1)
    BY <1>2
  <2>3. SubSeq(s, Len(s) - keep + 1, Len(s)) \in Seq(Key)
    BY <2>2
  <2>4. Len(SubSeq(s, Len(s) - keep + 1, Len(s))) = keep
    BY <1>2, <2>2
  <2> QED
    BY <2>1, <2>3, <2>4
<1> QED
  BY <1>1, <1>2

\* Every step keeps the types of the vault, the row and the counters.
LEMMA VaultStep ==
  ASSUME IInv, IInv', Vault, [Next]_vars
  PROVE  Vault'
<1>1. /\ nextKey \in Key /\ row \in Nat /\ \A t \in Tab : tabs[t].signed \in Nat
      /\ tabs \in [Tab -> TabState]
  BY DEF IInv, Typed, TabState, Key, Vault
<1>2. NewBatch \subseteq Key
  BY BatchIsNew DEF IInv, Typed
<1>3. /\ lost < MaxLost => lost + 1 \in 0..MaxLost
      /\ rotations < MaxRotations => rotations + 1 \in 0..MaxRotations
  BY DirectoryConstants DEF Vault
<1>4. Append(signed, nextKey) \in Seq(Key) /\ made \cup {nextKey} \subseteq Key
  BY <1>1 DEF Vault
<1>5. Newest(signed, History) \in Seq(Key)
  BY NewestIsShort, DirectoryConstants DEF Vault
<1>6. ASSUME NEW t \in Tab, SignIn(t) PROVE Vault'
  <2>1. CASE SaveIdentity(t) \/ Resume(t)
    BY <2>1 DEF SaveIdentity, Resume, Vault, vault, server, counters
  <2>2. CASE SaveSignedPreKey(t) \/ Rotate(t)
    BY <1>4, <2>2 DEF SaveSignedPreKey, Rotate, Vault, server, counters
  <2>3. CASE SaveOneTimePreKeys(t)
    BY <1>2, <2>3 DEF SaveOneTimePreKeys, Vault, server, counters
  <2>4. CASE Prune(t)
    BY <1>5, <2>4 DEF Prune, Vault, server, counters
  <2>5. CASE Publish(t)
    BY <1>1, <2>5 DEF Publish, Publication, Vault, vault, counters
  <2> QED
    BY <1>6, <2>1, <2>2, <2>3, <2>4, <2>5 DEF SignIn
<1>7. ASSUME NEW t \in Tab, TopUp(t) \/ PublishFails(t) \/ Crash(t) PROVE Vault'
  <2>1. CASE CountStock(t) \/ Reload(t)
    BY <2>1 DEF CountStock, Reload, Vault, vault, server, counters
  <2>2. CASE Replenish(t)
    BY <1>2, <2>2 DEF Replenish, Vault, counters
  <2>3. CASE PublishFails(t)
    BY <1>1, <1>3, <2>3 DEF PublishFails, Publication, Vault, vault
  <2>4. CASE Crash(t)
    BY <1>3, <2>4 DEF Crash, Vault, vault, server
  <2> QED
    BY <1>7, <2>1, <2>2, <2>3, <2>4 DEF TopUp
<1>8. ASSUME NEW c \in Claimer, Claim(c) \/ AbortClaim(c) PROVE Vault'
  BY <1>3, <1>8 DEF Claim, LockOldest, LockOne, CommitClaim, AbortClaim, Vault, vault,
                    counters
<1>9. ASSUME NEW u \in uploads, ReadStock(u) \/ CommitUpload(u) \/ LoseUpload(u)
      PROVE  Vault'
  BY <1>3, <1>9 DEF ReadStock, CommitUpload, LoseUpload, Vault, vault, counters
<1>10. CASE Age \/ UNCHANGED vars
  BY <1>3, <1>10 DEF Age, vars, vault, server, counters, Vault
<1> QED
  BY <1>6, <1>7, <1>8, <1>9, <1>10 DEF Next, HandleUpload

\* Every step keeps the bound on signed prekeys.
LEMMA PrunedStep ==
  ASSUME IInv, Vault, Pruned, [Next]_vars
  PROVE  Pruned'
<1>1. /\ tabs \in [Tab -> TabState] /\ signed \in Seq(Key) /\ nextKey \in Key
      /\ Len(signed) \in Nat /\ lost \in Nat /\ History \in Nat /\ History >= 1
  BY DirectoryConstants DEF IInv, Typed, Vault, Key
<1>2. Len(Append(signed, nextKey)) = Len(signed) + 1
  BY <1>1
<1>3. /\ Len(Newest(signed, History)) \in Nat
      /\ Len(Newest(signed, History)) <= History
  BY <1>1, NewestIsShort
<1>4. ASSUME NEW t \in Tab, SignIn(t) \/ TopUp(t) \/ PublishFails(t) \/ Crash(t)
      PROVE  Pruned'
  <2>1. CASE SaveIdentity(t)
    <3>1. /\ ~identity /\ identity' = TRUE /\ signed' = signed /\ lost' = lost
          /\ tabs'[t].at = "identity" /\ \A u \in Tab \ {t} : tabs'[u].at = tabs[u].at
          /\ \A u \in Tab : tabs[u].at \notin Bootstrapping
      BY <1>1, <2>1 DEF SaveIdentity, MayBootstrap, TabState, counters
    <3> QED
      BY <1>1, <3>1 DEF Pruned, Bootstrapping
  <2>2. CASE SaveSignedPreKey(t)
    <3>1. /\ Len(signed') = Len(signed) + 1 /\ identity' = identity /\ lost' = lost
          /\ tabs[t].at = "identity" /\ tabs'[t].at = "signed"
          /\ \A u \in Tab \ {t} : tabs'[u].at = tabs[u].at
      BY <1>1, <1>2, <2>2 DEF SaveSignedPreKey, TabState, counters
    <3>2. Len(signed) = 0 /\ identity
      BY <2>2, <3>1 DEF Pruned, Bootstrapping
    <3> QED
      BY <1>1, <3>1, <3>2 DEF Pruned, Bootstrapping
  <2>3. CASE Rotate(t)
    <3>1. /\ Len(signed') = Len(signed) + 1 /\ identity' = identity /\ lost' = lost
          /\ identity /\ tabs'[t].at = "rotated"
          /\ \A u \in Tab \ {t} : tabs'[u].at = tabs[u].at
          /\ \A u \in Tab : tabs[u].at \notin Bootstrapping
      BY <1>1, <1>2, <2>3 DEF Rotate, MayBootstrap, TabState, counters
    <3> QED
      BY <1>1, <3>1 DEF Pruned, Bootstrapping
  <2>4. CASE Prune(t)
    <3>1. /\ Len(signed') <= History /\ Len(signed') \in Nat
          /\ identity' = identity /\ lost' = lost
          /\ tabs[t].at = "rotated" /\ tabs'[t].at = "publish"
          /\ \A u \in Tab \ {t} : tabs'[u].at = tabs[u].at
      BY <1>1, <1>3, <2>4 DEF Prune, TabState, counters
    <3>2. ~identity => Len(signed') = 0
      BY <1>1, <2>4 DEF Prune, Pruned, Newest
    <3> QED
      BY <1>1, <3>1, <3>2 DEF Pruned, Bootstrapping
  <2>5. CASE SaveOneTimePreKeys(t) \/ Resume(t) \/ Publish(t) \/ TopUp(t)
    <3>1. /\ signed' = signed /\ identity' = identity /\ lost' = lost
          /\ tabs[t].at # "rotated" /\ tabs'[t].at \notin Bootstrapping
          /\ \A u \in Tab \ {t} : tabs'[u].at = tabs[u].at
      BY <1>1, <2>5
      DEF SaveOneTimePreKeys, Resume, MayBootstrap, Publish, TopUp, CountStock, Replenish,
          Reload, SignedOut, TabState, Bootstrapping, vault, counters
    <3> QED
      BY <1>1, <3>1 DEF Pruned, Bootstrapping
  <2>6. CASE PublishFails(t) \/ Crash(t)
    <3>1. /\ signed' = signed /\ identity' = identity /\ lost' = lost + 1
          /\ tabs'[t].at = "out" /\ \A u \in Tab \ {t} : tabs'[u].at = tabs[u].at
      BY <1>1, <2>6 DEF PublishFails, Crash, SignedOut, vault
    <3> QED
      BY <1>1, <3>1 DEF Pruned, Bootstrapping
  <2> QED
    BY <1>4, <2>1, <2>2, <2>3, <2>4, <2>5, <2>6 DEF SignIn
<1>5. CASE \/ \E c \in Claimer : Claim(c) \/ AbortClaim(c)
           \/ \E u \in uploads : ReadStock(u) \/ CommitUpload(u) \/ LoseUpload(u)
           \/ Age \/ UNCHANGED vars
  <2>1. signed' = signed /\ identity' = identity /\ tabs' = tabs
    BY <1>5 DEF Claim, LockOldest, LockOne, CommitClaim, AbortClaim, ReadStock, CommitUpload,
                LoseUpload, Age, vars, vault
  <2>2. lost' = lost \/ lost' = lost + 1
    BY <1>5 DEF Claim, LockOldest, LockOne, CommitClaim, AbortClaim, ReadStock, CommitUpload,
                LoseUpload, Age, vars, counters
  <2> QED
    BY <1>1, <2>1, <2>2 DEF Pruned
<1> QED
  BY <1>4, <1>5 DEF Next, HandleUpload

\* Every variable stays within its type: the vault keeps no more than History
\* signed prekeys, but for one a tab has yet to prune and one for each that died.
THEOREM DirectoryTypes == Spec => []TypeOK
<1>1. Init => IInv /\ Vault /\ Pruned
  <2>1. Init => Vault
    <3> SUFFICES ASSUME Init PROVE Vault
      OBVIOUS
    <3>1. identity \in BOOLEAN /\ stale \in BOOLEAN
      BY Zenon DEF Init
    <3>2. /\ signed = <<>> /\ oneTime = {} /\ made = {}
          /\ row = 0 /\ rotations = 0 /\ lost = 0
      BY DEF Init, NoRow
    <3>3. 0 \in 0..MaxRotations /\ 0 \in 0..MaxLost
      BY DirectoryConstants
    <3> QED
      BY <3>1, <3>2, <3>3 DEF Vault
  <2>2. Init => Pruned
    <3> SUFFICES ASSUME Init PROVE Pruned
      OBVIOUS
    <3>1. Len(signed) = 0 /\ lost = 0 /\ \A t \in Tab : tabs[t].at = "out"
      BY DEF Init, SignedOut
    <3> QED
      BY <3>1, DirectoryConstants DEF Pruned, Bootstrapping
  <2> QED
    BY <2>1, <2>2, InitInv
<1>2. IInv /\ Vault /\ Pruned /\ [Next]_vars => (IInv /\ Vault /\ Pruned)'
  <2>1. IInv /\ [Next]_vars => IInv'
    BY TypedStep, StockStep DEF IInv
  <2> QED
    BY <2>1, VaultStep, PrunedStep
<1>3. IInv /\ Vault /\ Pruned => TypeOK
  <2> SUFFICES ASSUME IInv, Vault, Pruned PROVE TypeOK
    OBVIOUS
  <2>1. stock \subseteq Key
    BY DEF IInv, Typed, StockInv, KeysMade, Key
  <2>2. Len(signed) <= History + 1 + lost
    BY DirectoryConstants DEF Pruned, Vault
  <2> QED
    BY <2>1, <2>2 DEF IInv, Typed, Vault, TypeOK
<1> QED
  BY <1>1, <1>2, <1>3, PTL DEF Spec

-----------------------------------------------------------------------------
(* The signed prekey on the row                                            *)

\* What pruning drops are the oldest, and only when enough newer ones stay.
LEMMA NewestIsSuffix ==
  ASSUME NEW s \in Seq(Key), NEW keep \in Nat \ {0}
  PROVE  \E n \in Nat :
           /\ Len(Newest(s, keep)) + n = Len(s)
           /\ \A i \in 1..Len(Newest(s, keep)) : Newest(s, keep)[i] = s[i + n]
           /\ n = 0 \/ Len(Newest(s, keep)) = keep
<1>1. CASE Len(s) <= keep
  <2>1. Newest(s, keep) = s
    BY <1>1 DEF Newest
  <2>2. \A i \in 1..Len(s) : s[i] = s[i + 0]
    OBVIOUS
  <2>3. 0 \in Nat /\ Len(s) + 0 = Len(s)
    OBVIOUS
  <2> QED
    BY <2>1, <2>2, <2>3
<1>2. CASE ~(Len(s) <= keep)
  <2> DEFINE n == Len(s) - keep
  <2>1. Newest(s, keep) = SubSeq(s, n + 1, Len(s))
    BY <1>2 DEF Newest
  <2>2. n \in Nat /\ Len(s) \in Nat /\ keep \in Nat
    BY <1>2
  <2>3. Len(SubSeq(s, n + 1, Len(s))) = keep
    BY <2>2
  <2>4. ASSUME NEW i \in 1..keep PROVE SubSeq(s, n + 1, Len(s))[i] = s[i + n]
    <3>1. i \in 1..(Len(s) - (n + 1) + 1) /\ n + 1 + i - 1 = i + n
      BY <2>2
    <3> QED
      BY <2>2, <3>1
  <2>5. keep + n = Len(s)
    BY <2>2
  <2> HIDE DEF n
  <2> QED
    BY <2>1, <2>2, <2>3, <2>4, <2>5
<1> QED
  BY <1>1, <1>2

\* A new signed prekey is newer than all before it.
LEMMA SignedGrows ==
  ASSUME Typed, signed \in Seq(Key), SignedInv, NEW t \in Tab,
         signed' = Append(signed, nextKey), made' = made \cup {nextKey},
         nextKey' = nextKey + 1, row' = row,
         tabs'[t].signed = nextKey, \A u \in Tab \ {t} : tabs'[u].signed = tabs[u].signed
  PROVE  SignedInv'
<1>1. /\ nextKey \in Nat \ {0} /\ Len(signed) \in Nat
      /\ Len(signed') = Len(signed) + 1
      /\ \A i \in 1..Len(signed) : signed'[i] = signed[i]
      /\ signed'[Len(signed) + 1] = nextKey
      /\ \A i \in 1..Len(signed) : signed[i] \in Nat
  BY DEF Typed, Key
<1>2. \A k \in made : k \in Nat /\ k < nextKey
  BY <1>1 DEF SignedInv, SignedMade
<1>3. SignedMade'
  <2>1. made' \subseteq 1..(nextKey' - 1)
    BY <1>1, <1>2 DEF SignedInv, SignedMade
  <2>2. \A i \in 1..Len(signed') : signed'[i] \in made'
    BY <1>1 DEF SignedInv, SignedMade
  <2>3. \A u \in Tab : tabs'[u].signed \in made' \cup {NoKey}
    BY DEF SignedInv, SignedMade
  <2> QED
    BY <2>1, <2>2, <2>3 DEF SignedInv, SignedMade
<1>4. SignedInOrder'
  <2>1. \A i \in 1..Len(signed) : signed[i] < nextKey
    BY <1>2 DEF SignedInv, SignedMade
  <2> SUFFICES ASSUME NEW i \in 1..Len(signed'), NEW j \in 1..Len(signed'), i < j
               PROVE  signed'[i] < signed'[j]
    BY DEF SignedInOrder
  <2>2. CASE j = Len(signed) + 1
    <3>1. i \in 1..Len(signed)
      BY <1>1, <2>2
    <3> QED
      BY <1>1, <2>1, <2>2, <3>1
  <2>3. CASE j # Len(signed) + 1
    <3> DEFINE n == Len(signed)
    <3>0. n \in Nat /\ i \in 1..(n + 1) /\ j \in 1..(n + 1) /\ j # n + 1
      BY <1>1, <2>3
    <3> HIDE DEF n
    <3>1. j \in 1..n /\ i \in 1..n
      BY <3>0
    <3>2. n = Len(signed)
      BY DEF n
    <3> QED
      BY <1>1, <3>1, <3>2 DEF SignedInv, SignedInOrder
  <2> QED
    BY <2>2, <2>3
<1>5. SignedDropped'
  <2> SUFFICES ASSUME NEW k \in made'
               PROVE  \/ \E i \in 1..Len(signed') : signed'[i] = k
                      \/ /\ Len(signed') >= History
                         /\ \A i \in 1..Len(signed') : k < signed'[i]
    BY DEF SignedDropped
  <2>1. CASE k = nextKey
    BY <1>1, <2>1
  <2>2. CASE k \in made /\ \E i \in 1..Len(signed) : signed[i] = k
    BY <1>1, <2>2
  <2>3. CASE /\ k \in made /\ Len(signed) >= History
             /\ \A i \in 1..Len(signed) : k < signed[i]
    <3>1. Len(signed') >= History
      BY <1>1, <2>3, DirectoryConstants
    <3>2. \A i \in 1..Len(signed') : k < signed'[i]
      BY <1>1, <1>2, <2>3
    <3> QED
      BY <3>1, <3>2
  <2> QED
    BY <2>1, <2>2, <2>3 DEF SignedInv, SignedDropped
<1> QED
  BY <1>3, <1>4, <1>5 DEF SignedInv

\* Pruning drops a signed prekey only when History newer ones stay.
LEMMA SignedShrinks ==
  ASSUME signed \in Seq(Key), SignedInv,
         signed' = Newest(signed, History), made' = made, nextKey' = nextKey, row' = row,
         \A u \in Tab : tabs'[u].signed = tabs[u].signed
  PROVE  SignedInv'
<1>1. PICK n \in Nat :
        /\ Len(signed') + n = Len(signed)
        /\ \A i \in 1..Len(signed') : signed'[i] = signed[i + n]
        /\ n = 0 \/ Len(signed') = History
  BY NewestIsSuffix, DirectoryConstants
<1>2. Len(signed') \in Nat /\ Len(signed) \in Nat /\ History \in Nat \ {0}
  <2>1. signed' \in Seq(Key)
    BY NewestIsShort, DirectoryConstants
  <2> QED
    BY <2>1, DirectoryConstants
<1>3. \A i \in 1..Len(signed') : i + n \in 1..Len(signed)
  BY <1>1, <1>2
<1>4. SignedMade'
  BY <1>1, <1>3 DEF SignedInv, SignedMade
<1>5. SignedInOrder'
  <2> SUFFICES ASSUME NEW i \in 1..Len(signed'), NEW j \in 1..Len(signed'), i < j
               PROVE  signed'[i] < signed'[j]
    BY DEF SignedInOrder
  <2>1. i + n \in 1..Len(signed) /\ j + n \in 1..Len(signed) /\ i + n < j + n
    BY <1>2, <1>3
  <2>2. signed[i + n] < signed[j + n]
    BY <2>1 DEF SignedInv, SignedInOrder
  <2> QED
    BY <1>1, <2>2
<1>6. SignedDropped'
  <2> SUFFICES ASSUME NEW k \in made
               PROVE  \/ \E i \in 1..Len(signed') : signed'[i] = k
                      \/ /\ Len(signed') >= History
                         /\ \A i \in 1..Len(signed') : k < signed'[i]
    BY DEF SignedDropped
  <2>1. ASSUME NEW i \in 1..Len(signed), signed[i] = k, i > n
        PROVE  \E j \in 1..Len(signed') : signed'[j] = k
    <3>1. i - n \in 1..Len(signed') /\ (i - n) + n = i
      BY <1>1, <1>2, <2>1
    <3> QED
      BY <1>1, <2>1, <3>1
  <2>2. ASSUME NEW i \in 1..Len(signed), signed[i] = k, i <= n
        PROVE  /\ Len(signed') >= History
               /\ \A j \in 1..Len(signed') : k < signed'[j]
    <3>1. Len(signed') >= History
      BY <1>1, <1>2, <2>2
    <3>2. \A j \in 1..Len(signed') : i < j + n
      BY <1>2, <2>2
    <3> QED
      BY <1>1, <1>3, <2>2, <3>1, <3>2 DEF SignedInv, SignedInOrder
  <2>3. ASSUME Len(signed) >= History, \A i \in 1..Len(signed) : k < signed[i]
        PROVE  /\ Len(signed') >= History
               /\ \A j \in 1..Len(signed') : k < signed'[j]
    BY <1>1, <1>2, <1>3, <2>3
  <2>4. \A i \in 1..Len(signed) : i > n \/ i <= n
    BY <1>2
  <2> QED
    BY <2>1, <2>2, <2>3, <2>4 DEF SignedInv, SignedDropped
<1> QED
  BY <1>4, <1>5, <1>6 DEF SignedInv

\* Every step keeps what is known of the signed prekeys.
LEMMA SignedStep ==
  ASSUME Typed, signed \in Seq(Key), SignedInv, [Next]_vars
  PROVE  SignedInv'
<1>1. tabs \in [Tab -> TabState] /\ nextKey \in Nat /\ Batch \in Nat
  BY DirectoryConstants DEF Typed
<1>2. ASSUME NEW t \in Tab, SaveSignedPreKey(t) \/ Rotate(t) PROVE SignedInv'
  <2>1. /\ signed' = Append(signed, nextKey) /\ made' = made \cup {nextKey}
        /\ nextKey' = nextKey + 1 /\ row' = row
        /\ tabs'[t].signed = nextKey
        /\ \A u \in Tab \ {t} : tabs'[u].signed = tabs[u].signed
    BY <1>1, <1>2 DEF SaveSignedPreKey, Rotate, server, TabState
  <2> QED
    BY <2>1, SignedGrows
<1>3. ASSUME NEW t \in Tab, Prune(t) PROVE SignedInv'
  <2>1. /\ signed' = Newest(signed, History) /\ made' = made /\ nextKey' = nextKey
        /\ row' = row /\ \A u \in Tab : tabs'[u].signed = tabs[u].signed
    BY <1>1, <1>3 DEF Prune, server, TabState
  <2> QED
    BY <2>1, SignedShrinks
<1>4. ASSUME signed' = signed, made' = made, nextKey <= nextKey', nextKey' \in Nat,
             row' = row \/ \E t \in Tab : row' = tabs[t].signed,
             \A u \in Tab : tabs'[u].signed \in {NoKey, tabs[u].signed}
      PROVE  SignedInv'
  <2>1. 1..(nextKey - 1) \subseteq 1..(nextKey' - 1)
    BY <1>1, <1>4, MadeGrows
  <2>2. SignedMade'
    <3>1. made' \subseteq 1..(nextKey' - 1)
      BY <1>4, <2>1 DEF SignedInv, SignedMade
    <3>2. \A i \in 1..Len(signed') : signed'[i] \in made'
      BY <1>4 DEF SignedInv, SignedMade
    <3>3. row' \in made' \cup {NoRow}
      BY <1>4 DEF SignedInv, SignedMade, NoKey, NoRow
    <3>4. \A u \in Tab : tabs'[u].signed \in made' \cup {NoKey}
      BY <1>4 DEF SignedInv, SignedMade
    <3> QED
      BY <3>1, <3>2, <3>3, <3>4 DEF SignedMade
  <2> QED
    BY <1>4, <2>2 DEF SignedInv, SignedInOrder, SignedDropped
<1>5. ASSUME NEW t \in Tab,
             \/ SaveIdentity(t) \/ SaveOneTimePreKeys(t) \/ Resume(t) \/ Publish(t)
             \/ TopUp(t) \/ PublishFails(t) \/ Crash(t)
      PROVE  SignedInv'
  <2>1. signed' = signed /\ made' = made /\ nextKey' \in {nextKey, nextKey + Batch}
    BY <1>5 DEF SaveIdentity, SaveOneTimePreKeys, Resume, Publish, TopUp, CountStock,
                Replenish, Reload, PublishFails, Crash, vault
  <2>2. row' = row \/ row' = tabs[t].signed
    BY <1>5 DEF SaveIdentity, SaveOneTimePreKeys, Resume, Publish, Publication, TopUp,
                CountStock, Replenish, Reload, PublishFails, Crash, server
  <2>3. \A u \in Tab : tabs'[u].signed \in {NoKey, tabs[u].signed}
    BY <1>1, <1>5 DEF SaveIdentity, SaveOneTimePreKeys, Resume, Publish, TopUp, CountStock,
                Replenish, Reload, PublishFails, Crash, SignedOut, TabState
  <2>4. nextKey <= nextKey' /\ nextKey' \in Nat
    BY <1>1, <2>1
  <2> QED
    BY <1>4, <2>1, <2>2, <2>3, <2>4
<1>6. CASE \/ \E c \in Claimer : Claim(c) \/ AbortClaim(c)
           \/ \E u \in uploads : ReadStock(u) \/ CommitUpload(u) \/ LoseUpload(u)
           \/ Age \/ UNCHANGED vars
  <2>1. /\ signed' = signed /\ made' = made /\ nextKey' = nextKey /\ row' = row
        /\ tabs' = tabs
    BY <1>6 DEF Claim, LockOldest, LockOne, CommitClaim, AbortClaim, ReadStock, CommitUpload,
                LoseUpload, Age, vars, vault, server
  <2> QED
    BY <1>1, <1>4, <2>1
<1> QED
  BY <1>2, <1>3, <1>5, <1>6 DEF Next, SignIn, HandleUpload

\* What is held and above k are as many keys as the vault holds.
LEMMA NewerCounted ==
  ASSUME Typed, SignedInv, signed \in Seq(Key), NEW k \in Nat,
         \A i \in 1..Len(signed) : k < signed[i]
  PROVE  Len(signed) <= Cardinality({m \in made : m > k})
<1> DEFINE newer == {m \in made : m > k}
<1>1. IsFiniteSet(newer)
  <2>1. IsFiniteSet(1..(nextKey - 1))
    BY FS_Interval DEF Typed
  <2>2. newer \in SUBSET (1..(nextKey - 1))
    BY DEF SignedInv, SignedMade
  <2> QED
    BY <2>1, <2>2, FS_Subset
<1>2. \A i \in 1..Len(signed) : signed[i] \in newer
  BY DEF SignedInv, SignedMade, Key
<1> HIDE DEF newer
<1> DEFINE place == [i \in 1..Len(signed) |-> signed[i]]
<1>3. place \in [1..Len(signed) -> newer]
  BY <1>2
<1>4. \A i, j \in 1..Len(signed) : place[i] = place[j] => i = j
  <2>1. \A i \in 1..Len(signed) : signed[i] \in Nat
    BY DEF Key
  <2> QED
    BY <2>1 DEF SignedInv, SignedInOrder
<1>5. place \in Injection(1..Len(signed), newer)
  BY <1>3, <1>4 DEF Injection, IsInjective
<1>6. Cardinality(1..Len(signed)) = Len(signed)
  <2>1. Len(signed) \in Nat
    OBVIOUS
  <2>2. Cardinality(1..Len(signed))
          = IF 1 > Len(signed) THEN 0 ELSE Len(signed) - 1 + 1
    BY <2>1, FS_Interval
  <2> QED
    BY <2>1, <2>2
<1>7. Cardinality(1..Len(signed)) <= Cardinality(newer)
  BY <1>1, <1>5, FS_Injection
<1> QED
  BY <1>6, <1>7 DEF newer

\* Whatever was lost, and however many tabs rotated it: the private half of the
\* signed prekey on the device's row is in the vault, until History newer ones
\* have been made.
THEOREM SignedPreKeyAnswerable == Spec => []SignedPreKeyHeld
<1>1. Init => SignedInv
  <2> SUFFICES ASSUME Init PROVE SignedInv
    OBVIOUS
  <2>1. Len(signed) = 0 /\ made = {} /\ row = 0 /\ \A t \in Tab : tabs[t].signed = 0
    BY DEF Init, SignedOut, NoRow, NoKey
  <2> QED
    BY <2>1 DEF SignedInv, SignedMade, SignedInOrder, SignedDropped, NoKey, NoRow
<1>2. (Typed /\ StockInv) /\ TypeOK /\ SignedInv /\ [Next]_vars => SignedInv'
  BY SignedStep DEF TypeOK
<1>3. (Typed /\ StockInv) /\ TypeOK /\ SignedInv => SignedPreKeyHeld
  <2> SUFFICES ASSUME Typed, TypeOK, SignedInv, row # NoRow,
                      Cardinality({k \in made : k > row}) < History,
                      ~\E i \in 1..Len(signed) : signed[i] = row
               PROVE  FALSE
    BY DEF SignedPreKeyHeld
  <2>1. row \in made /\ row \in Nat /\ signed \in Seq(Key)
    BY DEF SignedInv, SignedMade, TypeOK
  <2>2. Len(signed) >= History /\ \A i \in 1..Len(signed) : row < signed[i]
    BY <2>1 DEF SignedInv, SignedDropped
  <2>3. Len(signed) <= Cardinality({k \in made : k > row})
    BY <2>1, <2>2, NewerCounted
  <2>4. Cardinality({k \in made : k > row}) \in Nat
    <3>1. IsFiniteSet(1..(nextKey - 1))
      BY FS_Interval DEF Typed
    <3>2. {k \in made : k > row} \in SUBSET (1..(nextKey - 1))
      BY DEF SignedInv, SignedMade
    <3> QED
      BY <3>1, <3>2, FS_Subset, FS_CardinalityType
  <2> QED
    BY <2>1, <2>2, <2>3, <2>4, DirectoryConstants
<1> QED
  BY <1>1, <1>2, <1>3, KeysAccounted, DirectoryTypes, PTL DEF Spec
=============================================================================
