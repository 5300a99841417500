----------------------------- MODULE KeyDirectory -----------------------------
(***************************************************************************)
(* One device and its row in the prekey directory: the tabs that sign in   *)
(* over one vault (bootstrapIdentity in frontend/src/lib/crypto/session.ts *)
(* and the sign-in and top-up code of App.tsx), and the handlers of        *)
(* backend/app/api/keys.py, which interleave at their queries.             *)
(*                                                                         *)
(* Sessions takes the directory's claim as one step and knows no failing   *)
(* request; here the requests of several tabs and claimers overlap, fail   *)
(* and are lost.  A prekey is a number; numbers grow in the order prekeys  *)
(* are made, which is also the order of their rows.  The identity of a     *)
(* vault never changes and its device id lives and dies with it, so no row *)
(* changes identity here.  What a claim does to the vault once its message *)
(* arrives is in Sessions.                                                 *)
(***************************************************************************)
EXTENDS Integers, Sequences, FiniteSets

CONSTANTS
  Tab,           \* tabs open on the vault
  Claimer,       \* requests for a bundle, each made once
  Batch,         \* ONE_TIME_PREKEY_BATCH
  LowWater,      \* one_time_prekey_low_water
  MaxStored,     \* one_time_prekey_max_stored
  History,       \* SIGNED_PREKEY_HISTORY
  MaxRotations,  \* bound: times the signed prekey comes of age
  MaxUploads,    \* bound: top-ups under way at once
  MaxLost        \* bound: requests lost and tabs that die

ASSUME DirectoryConstants ==
  /\ Batch \in Nat \ {0} /\ LowWater \in Nat /\ MaxStored \in Nat
  /\ History \in Nat \ {0}
  /\ MaxRotations \in Nat /\ MaxUploads \in Nat /\ MaxLost \in Nat

VARIABLES
  identity,   \* vault: whether it holds an identity
  signed,     \* vault: the signed prekeys, the newest last
  stale,      \* vault: whether the newest has come of age
  oneTime,    \* vault: the one-time prekeys whose private half it holds
  tabs,       \* memory: where each tab is in signing in, and what it has made
  row,        \* server: the signed prekey on the device's row, or NoRow
  stock,      \* server: the one-time prekeys of the device
  uploads,    \* server: top-ups under way, with the ids each has seen
  claims,     \* server: requests for a bundle
  nextKey,    \* the next prekey to be made
  rotations,  \* how often the signed prekey has come of age
  lost,       \* how many requests and tabs have been lost
  made        \* history: the signed prekeys made

vault == <<identity, signed, stale, oneTime>>
server == <<row, stock, uploads, claims>>
counters == <<rotations, lost>>
vars == <<vault, tabs, server, nextKey, counters, made>>

NoRow == 0
NoKey == 0
SignedOut == [at |-> "out", signed |-> NoKey, oneTime |-> {}]
Idle == [at |-> "idle", key |-> NoKey]

\* createOneTimePreKeys: a batch of new prekeys.
NewBatch == nextKey..(nextKey + Batch - 1)

Init ==
  /\ identity = FALSE /\ signed = <<>> /\ stale = FALSE /\ oneTime = {}
  /\ tabs = [t \in Tab |-> SignedOut]
  /\ row = NoRow /\ stock = {} /\ uploads = {}
  /\ claims = [c \in Claimer |-> Idle]
  /\ nextKey = 1 /\ rotations = 0 /\ lost = 0 /\ made = {}

\* saveSignedPreKey and saveOneTimePreKeys: the vault with a new signed prekey,
\* and with a new batch of one-time prekeys, written in one transaction.
WithSigned == Append(signed, nextKey)
WithBatch == oneTime \cup NewBatch

-----------------------------------------------------------------------------
(* Signing in                                                              *)

\* withExclusiveLock('identity-bootstrap'): held while the vault is written.
Bootstrapping == {"identity", "signed", "rotated"}
MayBootstrap(t) ==
  tabs[t].at = "out" /\ \A u \in Tab : tabs[u].at \notin Bootstrapping

\* The first run saves the identity, ...
SaveIdentity(t) ==
  /\ MayBootstrap(t)
  /\ ~identity
  /\ identity' = TRUE
  /\ tabs' = [tabs EXCEPT ![t].at = "identity"]
  /\ UNCHANGED <<signed, stale, oneTime, server, nextKey, counters, made>>

\* ... then a signed prekey, ...
SaveSignedPreKey(t) ==
  /\ tabs[t].at = "identity"
  /\ signed' = WithSigned /\ stale' = FALSE
  /\ tabs' = [tabs EXCEPT ![t].at = "signed", ![t].signed = nextKey]
  /\ nextKey' = nextKey + 1
  /\ made' = made \cup {nextKey}
  /\ UNCHANGED <<identity, oneTime, server, counters>>

\* ... then a batch of one-time prekeys, and hands all of it out for publication.
SaveOneTimePreKeys(t) ==
  /\ tabs[t].at = "signed"
  /\ oneTime' = WithBatch
  /\ tabs' = [tabs EXCEPT ![t].at = "publish", ![t].oneTime = NewBatch]
  /\ nextKey' = nextKey + Batch
  /\ UNCHANGED <<identity, signed, stale, server, counters, made>>

\* Later runs make a new signed prekey when there is none or the newest is of age.
Rotate(t) ==
  /\ MayBootstrap(t)
  /\ identity /\ (signed = <<>> \/ stale)
  /\ signed' = WithSigned /\ stale' = FALSE
  /\ tabs' = [tabs EXCEPT ![t].at = "rotated", ![t].signed = nextKey]
  /\ nextKey' = nextKey + 1
  /\ made' = made \cup {nextKey}
  /\ UNCHANGED <<identity, oneTime, server, counters>>

Newest(s, keep) ==
  IF Len(s) <= keep THEN s ELSE SubSeq(s, Len(s) - keep + 1, Len(s))

\* Faulty variant: only the new signed prekey is kept.
PruneAll(t) ==
  /\ tabs[t].at = "rotated"
  /\ signed' = Newest(signed, 1)
  /\ tabs' = [tabs EXCEPT ![t].at = "publish"]
  /\ UNCHANGED <<identity, stale, oneTime, server, nextKey, counters, made>>

\* pruneSignedPreKeys.  The new one is then to be published, with no one-time
\* prekeys.
Prune(t) ==
  /\ tabs[t].at = "rotated"
  /\ signed' = Newest(signed, History)
  /\ tabs' = [tabs EXCEPT ![t].at = "publish"]
  /\ UNCHANGED <<identity, stale, oneTime, server, nextKey, counters, made>>

\* Nothing to publish: the tab only asks which row is its own.
Resume(t) ==
  /\ MayBootstrap(t)
  /\ identity /\ signed # <<>> /\ ~stale
  /\ tabs' = [tabs EXCEPT ![t].at = "in"]
  /\ UNCHANGED <<vault, server, nextKey, counters, made>>

\* What _store_one_time_prekeys inserts beside the ids it has seen: the first of
\* those sent that are new, up to the limit.
Inserted(keys, seen) ==
  {k \in keys \ seen :
     Cardinality(seen) + Cardinality({j \in keys \ seen : j < k}) < MaxStored}

\* publish_keys, which creates the row if there is none; of two that race to
\* create it one fails (PublishFails).
Publication(t) ==
  /\ row' = tabs[t].signed
  /\ stock' = stock \cup Inserted(tabs[t].oneTime, stock)

\* Faulty variant: a rotated signed prekey only updates a row that exists.
PublishRotated(t) ==
  /\ tabs[t].at = "publish"
  /\ IF row = NoRow /\ tabs[t].oneTime = {} THEN UNCHANGED <<row, stock>>
                                            ELSE Publication(t)
  /\ tabs' = [tabs EXCEPT ![t] = [SignedOut EXCEPT !.at = "in"]]
  /\ UNCHANGED <<vault, uploads, claims, nextKey, counters, made>>

Publish(t) ==
  /\ tabs[t].at = "publish"
  /\ Publication(t)
  /\ tabs' = [tabs EXCEPT ![t] = [SignedOut EXCEPT !.at = "in"]]
  /\ UNCHANGED <<vault, uploads, claims, nextKey, counters, made>>

\* The request or its response is lost: signing in fails.
PublishFails(t) ==
  /\ tabs[t].at = "publish" /\ lost < MaxLost
  /\ lost' = lost + 1
  /\ Publication(t) \/ UNCHANGED <<row, stock>>
  /\ tabs' = [tabs EXCEPT ![t] = SignedOut]
  /\ UNCHANGED <<vault, uploads, claims, nextKey, rotations, made>>

\* A tab dies, whatever it was doing.
Crash(t) ==
  /\ tabs[t].at # "out" /\ lost < MaxLost
  /\ lost' = lost + 1
  /\ tabs' = [tabs EXCEPT ![t] = SignedOut]
  /\ UNCHANGED <<vault, server, nextKey, rotations, made>>

\* A week goes by.
Age ==
  /\ rotations < MaxRotations
  /\ signed # <<>> /\ ~stale
  /\ rotations' = rotations + 1
  /\ stale' = TRUE
  /\ UNCHANGED <<identity, signed, oneTime, tabs, server, nextKey, lost, made>>

-----------------------------------------------------------------------------
(* Topping up                                                              *)

\* count_opks.  A device without a row gets an error, and nothing more is tried.
CountStock(t) ==
  /\ tabs[t].at = "in"
  /\ tabs' = [tabs EXCEPT ![t].at =
       IF row # NoRow /\ Cardinality(stock) < LowWater THEN "low" ELSE "done"]
  /\ UNCHANGED <<vault, server, nextKey, counters, made>>

Requested(keys) == [keys |-> keys, read |-> FALSE, seen |-> {}]

\* Faulty variant: the batch is sent and not saved.
ReplenishUnsaved(t) ==
  /\ tabs[t].at = "low" /\ Cardinality(uploads) < MaxUploads
  /\ uploads' = uploads \cup {Requested(NewBatch)}
  /\ tabs' = [tabs EXCEPT ![t].at = "done"]
  /\ nextKey' = nextKey + Batch
  /\ UNCHANGED <<vault, row, stock, claims, counters, made>>

\* replenishOneTimePreKeys and uploadOneTimePreKeys: a batch is made and saved,
\* then sent; nobody waits for the outcome, and a tab that dies in between has
\* lost the request.
Replenish(t) ==
  /\ tabs[t].at = "low" /\ Cardinality(uploads) < MaxUploads
  /\ oneTime' = WithBatch
  /\ uploads' = uploads \cup {Requested(NewBatch)}
  /\ tabs' = [tabs EXCEPT ![t].at = "done"]
  /\ nextKey' = nextKey + Batch
  /\ UNCHANGED <<identity, signed, stale, row, stock, claims, counters, made>>

LoseUpload(u) ==
  /\ lost < MaxLost
  /\ lost' = lost + 1
  /\ uploads' = uploads \ {u}
  /\ UNCHANGED <<vault, tabs, row, stock, claims, nextKey, rotations, made>>

\* upload_opks reads the ids it has, ...
ReadStock(u) ==
  /\ ~u.read
  /\ uploads' = (uploads \ {u}) \cup {[u EXCEPT !.read = TRUE, !.seen = stock]}
  /\ UNCHANGED <<vault, tabs, row, stock, claims, nextKey, counters, made>>

\* ... and commits what it inserts beside them.
CommitUpload(u) ==
  /\ u.read
  /\ stock' = stock \cup Inserted(u.keys, u.seen)
  /\ uploads' = uploads \ {u}
  /\ UNCHANGED <<vault, tabs, row, claims, nextKey, counters, made>>

\* The page is loaded again.
Reload(t) ==
  /\ tabs[t].at = "done"
  /\ tabs' = [tabs EXCEPT ![t] = SignedOut]
  /\ UNCHANGED <<vault, server, nextKey, counters, made>>

-----------------------------------------------------------------------------
(* Claiming                                                                *)

Locked == {claims[c].key : c \in {d \in Claimer : claims[d].at = "locked"}}

\* The oldest, if there is any.
Oldest(keys) == {k \in keys : \A j \in keys : k <= j}

LockOne(c, keys) ==
  /\ claims[c].at = "idle" /\ row # NoRow
  /\ \E k \in (IF keys = {} THEN {NoKey} ELSE Oldest(keys)) :
       claims' = [claims EXCEPT ![c] = [at |-> "locked", key |-> k]]
  /\ UNCHANGED <<vault, tabs, row, stock, uploads, nextKey, counters, made>>

\* Faulty variant: rows that other claimers have locked are not skipped.
LockAny(c) == LockOne(c, stock)

\* claim_prekey_bundles finds the device's row, and _claim_one_time_prekey locks
\* and deletes the oldest prekey that no other claimer has locked, ...
LockOldest(c) == LockOne(c, stock \ Locked)

\* ... which the commit makes final: the bundle is handed out.
CommitClaim(c) ==
  /\ claims[c].at = "locked"
  /\ claims' = [claims EXCEPT ![c].at = "claimed"]
  /\ stock' = stock \ {claims[c].key}
  /\ UNCHANGED <<vault, tabs, row, uploads, nextKey, counters, made>>

\* The connection to the database fails, and the lock is released.
AbortClaim(c) ==
  /\ claims[c].at = "locked" /\ lost < MaxLost
  /\ lost' = lost + 1
  /\ claims' = [claims EXCEPT ![c] = [Idle EXCEPT !.at = "failed"]]
  /\ UNCHANGED <<vault, tabs, row, stock, uploads, nextKey, rotations, made>>

SignIn(t) ==
  \/ SaveIdentity(t) \/ SaveSignedPreKey(t) \/ SaveOneTimePreKeys(t)
  \/ Rotate(t) \/ Prune(t) \/ Resume(t) \/ Publish(t)

TopUp(t) == CountStock(t) \/ Replenish(t) \/ Reload(t)

Claim(c) == LockOldest(c) \/ CommitClaim(c)

HandleUpload == \E u \in uploads : ReadStock(u) \/ CommitUpload(u)

Next ==
  \/ \E t \in Tab : SignIn(t) \/ TopUp(t) \/ PublishFails(t) \/ Crash(t)
  \/ \E c \in Claimer : Claim(c) \/ AbortClaim(c)
  \/ HandleUpload
  \/ \E u \in uploads : LoseUpload(u)
  \/ Age

Spec == Init /\ [][Next]_vars

\* Requests that are made are handled, tabs go on with what they do, time goes
\* by, and the user comes back.
FairSpec ==
  /\ Spec
  /\ \A t \in Tab : WF_vars(SignIn(t) \/ TopUp(t))
  /\ \A c \in Claimer : WF_vars(CommitClaim(c))
  /\ WF_vars(HandleUpload)
  /\ WF_vars(Age)

-----------------------------------------------------------------------------
(* Properties                                                              *)

Key == Nat
TabState ==
  [at : {"out", "identity", "signed", "rotated", "publish", "in", "low", "done"},
   signed : Key, oneTime : SUBSET Key]
ClaimState == [at : {"idle", "locked", "claimed", "failed"}, key : Key]
UploadState == [keys : SUBSET Key, read : BOOLEAN, seen : SUBSET Key]

\* Every variable stays within its type, and the vault keeps no more signed
\* prekeys than it should, but for one a tab has yet to prune or died before it did.
TypeOK ==
  /\ identity \in BOOLEAN /\ stale \in BOOLEAN
  /\ signed \in Seq(Key) /\ Len(signed) <= History + 1 + lost
  /\ oneTime \subseteq Key /\ stock \subseteq Key
  /\ tabs \in [Tab -> TabState]
  /\ claims \in [Claimer -> ClaimState]
  /\ uploads \subseteq UploadState
  /\ row \in Nat /\ nextKey \in Nat \ {0} /\ made \subseteq Key
  /\ rotations \in 0..MaxRotations /\ lost \in 0..MaxLost

Handed == {c \in Claimer : claims[c].at = "claimed"}

\* The claims that have found a one-time prekey.
Candidates == {c \in Claimer : claims[c].key # NoKey}

\* docs/CRYPTO.md on the claim: two concurrent initiators must never be handed
\* the same one-time prekey, though claims, top-ups and aborts overlap.
OneTimePreKeysUsedOnce ==
  \A c, d \in Handed : claims[c].key = claims[d].key /\ claims[c].key # NoKey => c = d

\* Every one-time prekey the server offers or has handed out can be answered from
\* the vault, whatever was lost between making it and publishing it.
OneTimePreKeysHeld ==
  stock \cup {claims[c].key : c \in Candidates} \subseteq oneTime

\* So can the signed prekey on the row, while fewer than History have been made
\* after it, whatever became of their publication.
SignedPreKeyHeld ==
  row # NoRow /\ Cardinality({k \in made : k > row}) < History
    => \E i \in 1..Len(signed) : signed[i] = row

\* Why it can.  The vault holds its signed prekeys in the order they were made,
\* and one is dropped only when History newer ones are held.
SignedMade ==
  /\ made \subseteq 1..(nextKey - 1)
  /\ \A i \in 1..Len(signed) : signed[i] \in made
  /\ \A t \in Tab : tabs[t].signed \in made \cup {NoKey}
  /\ row \in made \cup {NoRow}

SignedInOrder == \A i, j \in 1..Len(signed) : i < j => signed[i] < signed[j]

SignedDropped ==
  \A k \in made :
    \/ \E i \in 1..Len(signed) : signed[i] = k
    \/ Len(signed) >= History /\ \A i \in 1..Len(signed) : k < signed[i]

SignedInv == SignedMade /\ SignedInOrder /\ SignedDropped

\* Why one-time prekeys are used once.  A batch is new when it is made, waits in
\* one tab or one request, is inserted once, and is locked by one claim at a time
\* before it is gone from the stock.
KeysMade ==
  /\ stock \subseteq 1..(nextKey - 1)
  /\ \A t \in Tab : tabs[t].oneTime \subseteq 1..(nextKey - 1)
  /\ \A u \in uploads : u.keys \subseteq 1..(nextKey - 1)
  /\ \A c \in Candidates : claims[c].key < nextKey

KeysWaiting ==
  /\ \A t \in Tab : tabs[t].oneTime \cap stock = {}
  /\ \A u \in uploads : u.keys \cap stock = {}
  /\ \A t \in Tab, u \in uploads : tabs[t].oneTime \cap u.keys = {}
  /\ \A t, s \in Tab : t # s => tabs[t].oneTime \cap tabs[s].oneTime = {}
  /\ \A u, v \in uploads : u = v \/ u.keys \cap v.keys = {}

KeysSaved ==
  /\ stock \subseteq oneTime
  /\ \A t \in Tab : tabs[t].oneTime \subseteq oneTime
  /\ \A u \in uploads : u.keys \subseteq oneTime
  /\ \A c \in Candidates : claims[c].key \in oneTime

KeysClaimed ==
  /\ \A c \in Candidates :
       IF claims[c].at = "locked" THEN claims[c].key \in stock
       ELSE /\ claims[c].key \notin stock
            /\ \A t \in Tab : claims[c].key \notin tabs[t].oneTime
            /\ \A u \in uploads : claims[c].key \notin u.keys
  /\ \A c, d \in Candidates : claims[c].key = claims[d].key => c = d

\* keys.py and session.ts keep one stock between them: a one-time prekey made is
\* in one place at a time, held by the vault, and claimed by one peer.
StockInv == KeysMade /\ KeysWaiting /\ KeysSaved /\ KeysClaimed

\* App.tsx: "Keep the published one-time prekey pool topped up."  However many
\* sign-ins fail, the device ends up registered and its pool above the low water.
PoolKeptUp == <>[](row # NoRow /\ Cardinality(stock) >= LowWater)
=============================================================================
