----------------------------- MODULE VaultProofs -----------------------------
(***************************************************************************)
(* Proofs about Vault, for any number of tabs, accounts, passphrases and   *)
(* failures, whatever tabs create, copy and open the vaults at once: tabs  *)
(* in use agree on the identity of the vault whose key they hold, the      *)
(* server lists no other for a device whose vault opens, and accounts      *)
(* share none.                                                             *)
(*                                                                         *)
(* A salt stands for a vault and for its key, and what is drawn is in use  *)
(* nowhere.  So a tab's key tells which vault the tab has opened: the      *)
(* account's vault may become another one below it, with another salt, and *)
(* becomes the old one's copy only with all the old one held.              *)
(***************************************************************************)
EXTENDS Vault, TLAPS

(* What the handler of a tab relies on                                     *)

\* The tab holds the key of a vault, and then the identity of its account.
Keyed(tab) ==
  \/ tab.step \in {"bootstrap", "device", "identity", "saving", "publish"}
  \/ tab.open # Nobody
Past(tab) == tab.step = "publish" \/ tab.open # Nobody
Of(tab) == IF tab.open # Nobody THEN tab.open ELSE tab.account

\* An old vault that may be copied.
Complete(old) ==
  old.salt # 0 /\ old.identity # 0 /\ old.device # 0 /\ old.under = old.salt

ShapeInv(tab) ==
  /\ tab.step # "idle" => tab.account \in Accounts /\ tab.open = Nobody
  /\ tab.open # Nobody => tab.pending = Nobody
  /\ tab.fresh => tab.step = "publish"

CopyInv(tab, old) == tab.step \in {"copying", "verifying"} =>
  Complete(old) /\ tab.key = old.salt /\ tab.account = Former

\* Whoever holds the old vault's key finds an identity.
KeyInv(tab, db, old) ==
  Keyed(tab) /\ Complete(old) /\ tab.key = old.salt => db.identity # 0

\* An identity is made for the old vault's device by nobody.
DeviceInv(tab, db, old) ==
  /\ tab.step \in {"identity", "saving", "publish"} => tab.device # 0
  /\ Complete(old) /\ tab.device = old.device =>
        /\ tab.step = "identity" => db.identity # 0
        /\ tab.step # "saving"
        /\ tab.step = "publish" => ~tab.fresh

SavingInv(tab, db, old) == tab.step = "saving" =>
  /\ Complete(old) => tab.key # old.salt
  /\ tab.key = db.salt => db.identity = 0

PastInv(tab, db, old) == Past(tab) =>
  /\ tab.identity # 0 /\ db.identity # 0
  /\ tab.key = db.salt => db.under = db.salt /\ tab.identity = db.identity
  /\ Complete(old) /\ tab.key = old.salt => tab.identity = old.identity
  /\ tab.step = "publish" /\ tab.fresh /\ db.device = tab.device => db.identity = tab.identity

TabInv(tab, db, old) ==
  /\ ShapeInv(tab) /\ CopyInv(tab, old) /\ KeyInv(tab, db, old)
  /\ DeviceInv(tab, db, old) /\ SavingInv(tab, db, old) /\ PastInv(tab, db, old)

-----------------------------------------------------------------------------
(* What the databases and the server's rows hold                           *)

\* A vault that has become the old one's copy holds what the old one held.
VaultInv(db, old) == Complete(old) =>
  /\ db.salt = old.salt => db.identity # 0
  /\ db.under = old.salt => db.identity = old.identity
  /\ db.device = old.device => db.identity # 0

RowInv(r, db, old) ==
  /\ r.device # 0 /\ r.identity # 0
  /\ r.device = db.device => db.identity # 0 /\ (db.under = db.salt => db.identity = r.identity)
  /\ Complete(old) /\ r.device = old.device => r.identity = old.identity

\* The lock is held by one tab, and while its holder saves an identity no tab
\* of the account has one.
Locking == {"device", "identity", "saving"}
LockInv == \A t, u \in Tabs :
  /\ tabs[t].step \in Locking /\ tabs[u].step \in Locking /\ tabs[t].account = tabs[u].account
        => t = u
  /\ tabs[t].step = "saving" /\ Past(tabs[u]) => tabs[t].account # Of(tabs[u])

\* Who has an identity: the vault, a row of the server, a tab.
Owns(a, i) ==
  \/ disk[a].identity = i
  \/ \E r \in rows : r.account = a /\ r.identity = i
  \/ \E t \in Tabs : Past(tabs[t]) /\ Of(tabs[t]) = a /\ tabs[t].identity = i

OwnersInv == \A a \in Accounts, i \in Numbers : i # 0 /\ Owns(a, i) =>
  /\ \A b \in Accounts : Owns(b, i) => a = b
  /\ Complete(disk[Old]) /\ i = disk[Old].identity => a = Former

IInv ==
  /\ TypeOK
  /\ \A t \in Tabs : TabInv(tabs[t], disk[Of(tabs[t])], disk[Old])
  /\ \A a \in Accounts : VaultInv(disk[a], disk[Old])
  /\ \A r \in rows : RowInv(r, disk[r.account], disk[Old])
  /\ LockInv /\ OwnersInv

-----------------------------------------------------------------------------
(* Records                                                                 *)

\* An empty database satisfies the type.
LEMMA NoDatabaseIsDatabase ==
  /\ NoDatabase \in Database
  /\ NoDatabase.salt = 0 /\ NoDatabase.identity = 0 /\ NoDatabase.device = 0
  /\ NoDatabase.under = 0
<1>1. 0 \in Numbers
  BY VaultAssumption DEF Numbers
<1> QED
  BY <1>1 DEF NoDatabase, Database

\* So does an old vault.
LEMMA OldVaultIsDatabase ==
  ASSUME NEW i \in {0, 1}, NEW p \in Phrases
  PROVE  /\ OldVault(i, p) \in Database
         /\ OldVault(i, p).device = 1 /\ OldVault(i, p).identity = i
<1>0. OldVault(i, p) = [NoDatabase EXCEPT !.phrase = p, !.salt = 1, !.version = 1,
                          !.device = 1, !.identity = i, !.under = i]
  BY DEF OldVault
<1>1. OldVault(i, p) =
         [phrase |-> p, salt |-> 1, version |-> 1, owner |-> Nobody, moved |-> FALSE,
          device |-> 1, identity |-> i, under |-> i, whole |-> TRUE]
  BY <1>0 DEF NoDatabase
<1>2. 1 \in Numbers /\ 0 \in Numbers
  BY VaultAssumption DEF Numbers
<1> QED
  BY <1>1, <1>2 DEF Database

\* A closed tab is a state of a tab.
LEMMA ClosedIsTab ==
  /\ Closed \in Tab /\ Closed.step = "idle" /\ Closed.open = Nobody /\ Closed.key = 0
  /\ Closed.pending = Nobody /\ Closed.fresh = FALSE
<1>1. 0 \in Numbers
  BY VaultAssumption DEF Numbers
<1> QED
  BY <1>1 DEF Closed, Tab, Steps

\* A tab that has nothing under way and nothing open relies on nothing.
LEMMA IdleTab ==
  ASSUME NEW tab, NEW db, NEW old, tab.step = "idle", tab.open = Nobody, ~tab.fresh
  PROVE  TabInv(tab, db, old)
  BY DEF TabInv, ShapeInv, CopyInv, KeyInv, DeviceInv, SavingInv, PastInv, Keyed, Past

\* What is relied on does not depend on whether the sealed records open.
SameBut(db2, db) ==
  /\ db2.salt = db.salt /\ db2.identity = db.identity
  /\ db2.device = db.device /\ db2.under = db.under

LEMMA WholeTab ==
  ASSUME NEW tab, NEW db, NEW old, NEW db2, NEW old2, SameBut(db2, db), SameBut(old2, old),
         TabInv(tab, db, old)
  PROVE  TabInv(tab, db2, old2)
<1>1. Complete(old2) <=> Complete(old)
  BY DEF Complete, SameBut
<1> QED
  BY <1>1 DEF TabInv, CopyInv, KeyInv, DeviceInv, SavingInv, PastInv, SameBut

LEMMA WholeVault ==
  ASSUME NEW db, NEW old, NEW db2, NEW old2, SameBut(db2, db), SameBut(old2, old)
  PROVE  /\ VaultInv(db, old) => VaultInv(db2, old2)
         /\ \A r : RowInv(r, db, old) => RowInv(r, db2, old2)
<1>1. Complete(old2) <=> Complete(old)
  BY DEF Complete, SameBut
<1> QED
  BY <1>1 DEF VaultInv, RowInv, SameBut

\* A tab whose handler failed is a state of a tab, and relies on nothing.
LEMMA FailedIsTab ==
  ASSUME NEW tab \in Tab
  PROVE  /\ Failed(tab) \in Tab /\ Failed(tab).step = "idle" /\ Failed(tab).key = 0
         /\ Failed(tab).open = tab.open /\ ~Failed(tab).fresh
<1>1. 0 \in Numbers
  BY VaultAssumption DEF Numbers
<1> QED
  BY <1>1 DEF Failed, Tab, Steps

\* A failure stays within the budget.
LEMMA TroubleCounted == TypeOK /\ Troubled => trouble' \in 0 .. MaxTrouble
  BY VaultAssumption DEF TypeOK, Troubled

\* What is drawn is in use nowhere.
LEMMA DrawnIsUnused ==
  ASSUME NEW used, NEW n \in Drawn(used)
  PROVE  n \in Numbers /\ n # 0 /\ n \notin used
  BY DEF Drawn

\* The old name belongs to no account; every other name does.
LEMMA OldIsNoAccount ==
  /\ Old \in Names /\ Old \notin Accounts /\ Accounts \subseteq Names
  /\ Nobody \notin Accounts /\ Former \in Accounts
  /\ \A n \in Names : n # Old => n \in Accounts
  BY VaultAssumption DEF Names

-----------------------------------------------------------------------------

\* The invariant holds at the start.
LEMMA InitInv == Init => IInv
<1> SUFFICES ASSUME Init PROVE IInv
  OBVIOUS
<1>1. \A t \in Tabs : tabs[t] = Closed
  BY DEF Init
<1>2. PICK old \in Database, listed \in SUBSET {Former} :
         /\ Profile(old, listed)
         /\ listed # {} => old.device = 1 /\ old.identity = 1
  <2>1. CASE Profile(NoDatabase, {})
    BY <2>1, NoDatabaseIsDatabase
  <2>2. ASSUME NEW p \in Phrases, NEW i \in {0, 1}, NEW l \in SUBSET {Former},
               Profile(OldVault(i, p), l), i = 0 => l = {}
        PROVE  \E old \in Database, listed \in SUBSET {Former} :
                  /\ Profile(old, listed)
                  /\ listed # {} => old.device = 1 /\ old.identity = 1
    BY <2>2, OldVaultIsDatabase
  <2> QED
    BY <2>1, <2>2 DEF Init
<1>3. /\ disk = [n \in Names |-> IF n = Old THEN old ELSE NoDatabase]
      /\ rows = {[account |-> a, device |-> old.device, identity |-> old.identity] : a \in listed}
  BY <1>2 DEF Profile
<1>4. disk[Old] = old /\ \A a \in Accounts : disk[a] = NoDatabase
  BY <1>3, OldIsNoAccount
<1>5. \A r \in rows : r = [account |-> Former, device |-> 1, identity |-> 1]
                      /\ old.device = 1 /\ old.identity = 1
  BY <1>2, <1>3
<1>6. TypeOK
  <2>1. tabs \in [Tabs -> Tab]
    BY ClosedIsTab DEF Init
  <2>2. \A t \in Tabs : tabs[t].key = 0
    BY <1>1, ClosedIsTab
  <2>3. trouble \in 0 .. MaxTrouble /\ 1 \in Numbers
    BY VaultAssumption DEF Init, Numbers
  <2>4. disk \in [Names -> Database]
    BY <1>2, <1>3, NoDatabaseIsDatabase
  <2>5. rows \subseteq [account : Accounts, device : Numbers, identity : Numbers]
    BY <1>5, <2>3, OldIsNoAccount
  <2> QED
    BY <2>1, <2>2, <2>3, <2>4, <2>5 DEF TypeOK
<1>7. \A t \in Tabs : TabInv(tabs[t], disk[Of(tabs[t])], disk[Old])
  BY <1>1, ClosedIsTab, IdleTab
<1>8. \A a \in Accounts : VaultInv(disk[a], disk[Old])
  BY <1>4, NoDatabaseIsDatabase DEF VaultInv, Complete
<1>9. \A r \in rows : RowInv(r, disk[r.account], disk[Old])
  BY <1>4, <1>5, NoDatabaseIsDatabase, OldIsNoAccount DEF RowInv
<1>10. LockInv
  BY <1>1, ClosedIsTab DEF LockInv, Locking
<1>11. \A a \in Accounts, i \in Numbers : i # 0 /\ Owns(a, i) => a = Former
  BY <1>1, <1>4, <1>5, ClosedIsTab, NoDatabaseIsDatabase DEF Owns, Past
<1>12. OwnersInv
  BY <1>11 DEF OwnersInv
<1> QED
  BY <1>6, <1>7, <1>8, <1>9, <1>10, <1>12 DEF IInv

-----------------------------------------------------------------------------
(* One tab moves                                                           *)

\* What a tab's next state must respect of the others.
LockLeft(t, a) == \A u \in Tabs :
  u # t /\ tabs[u].step \in Locking => tabs[u].account # a
Respects(t, r) ==
  /\ r.step \in Locking => LockLeft(t, r.account)
  /\ r.step = "saving" => \A u \in Tabs : Past(tabs[u]) => Of(tabs[u]) # r.account
  /\ Past(r) => \A u \in Tabs : u # t /\ tabs[u].step = "saving" => tabs[u].account # Of(r)

\* The lock and its holder are as they should be after the move.
LEMMA LockMove ==
  ASSUME IInv, NEW t \in Tabs, NEW r \in Tab, tabs' = [tabs EXCEPT ![t] = r],
         ShapeInv(r), Respects(t, r)
  PROVE  LockInv'
<1>1. /\ tabs'[t] = r /\ \A u \in Tabs : u # t => tabs'[u] = tabs[u]
  BY DEF IInv, TypeOK
<1>2. ASSUME NEW u \in Tabs, NEW v \in Tabs,
             tabs'[u].step \in Locking, tabs'[v].step \in Locking,
             tabs'[u].account = tabs'[v].account
      PROVE  u = v
  BY <1>1, <1>2 DEF IInv, LockInv, Respects, LockLeft
<1>3. ASSUME NEW u \in Tabs, NEW v \in Tabs, tabs'[u].step = "saving", Past(tabs'[v])
      PROVE  tabs'[u].account # Of(tabs'[v])
  <2>1. CASE u = t /\ v = t
    BY <1>1, <1>3, <2>1 DEF ShapeInv, Past
  <2>2. CASE u = t /\ v # t
    BY <1>1, <1>3, <2>2 DEF Respects
  <2>3. CASE u # t /\ v = t
    BY <1>1, <1>3, <2>3 DEF Respects
  <2>4. CASE u # t /\ v # t
    BY <1>1, <1>3, <2>4 DEF IInv, LockInv
  <2> QED
    BY <2>1, <2>2, <2>3, <2>4
<1> QED
  BY <1>2, <1>3 DEF LockInv, Past, Of

\* A step that moves one tab and writes nothing keeps the invariant.
LEMMA TabMove ==
  ASSUME IInv, NEW t \in Tabs, NEW r \in Tab, tabs' = [tabs EXCEPT ![t] = r],
         UNCHANGED <<disk, rows>>, trouble' \in 0 .. MaxTrouble,
         TabInv(r, disk[Of(r)], disk[Old]),
         r.step = "idle" /\ r.open = Nobody => r.key = 0,
         Respects(t, r), Past(r) => Owns(Of(r), r.identity)
  PROVE  IInv'
<1>1. /\ tabs' \in [Tabs -> Tab] /\ tabs'[t] = r
      /\ \A u \in Tabs : u # t => tabs'[u] = tabs[u]
  BY DEF IInv, TypeOK
<1>2. TypeOK'
  BY <1>1 DEF IInv, TypeOK, Busy
<1>3. ASSUME NEW u \in Tabs PROVE TabInv(tabs'[u], disk'[Of(tabs'[u])], disk'[Old])
  BY <1>1 DEF IInv
<1>4. LockInv'
  BY LockMove DEF TabInv
<1>5. ASSUME NEW a, NEW i, Owns(a, i)' PROVE Owns(a, i)
  <2>1. CASE disk'[a].identity = i \/ \E q \in rows' : q.account = a /\ q.identity = i
    BY <2>1 DEF Owns
  <2>2. CASE \E u \in Tabs : Past(tabs'[u]) /\ Of(tabs'[u]) = a /\ tabs'[u].identity = i
    BY <1>1, <2>2 DEF Owns
  <2> QED
    BY <1>5, <2>1, <2>2 DEF Owns, Past, Of
<1>6. OwnersInv'
  BY <1>5 DEF IInv, OwnersInv
<1>7. \A a \in Accounts : VaultInv(disk'[a], disk'[Old])
  BY DEF IInv
<1>8. \A q \in rows' : RowInv(q, disk'[q.account], disk'[Old])
  BY DEF IInv
<1>9. \A u \in Tabs : TabInv(tabs[u], disk[Of(tabs[u])], disk[Old])'
  BY <1>3 DEF TabInv, ShapeInv, CopyInv, KeyInv, DeviceInv, SavingInv, PastInv, Keyed, Past, Of,
              Complete
<1>10. /\ \A a \in Accounts : VaultInv(disk[a], disk[Old])'
       /\ \A q \in rows' : RowInv(q, disk[q.account], disk[Old])'
  BY <1>7, <1>8 DEF VaultInv, RowInv, Complete
<1> QED
  BY <1>2, <1>4, <1>6, <1>9, <1>10 DEF IInv

\* A tab that gives up what it was doing, or closes, keeps the invariant.
LEMMA IdleMove ==
  ASSUME IInv, NEW t \in Tabs, NEW r \in Tab, tabs' = [tabs EXCEPT ![t] = r],
         UNCHANGED <<disk, rows>>, trouble' \in 0 .. MaxTrouble,
         r.step = "idle", r.open = Nobody, r.key = 0, ~r.fresh
  PROVE  IInv'
<1>1. TabInv(r, disk[Of(r)], disk[Old])
  BY IdleTab
<1>2. Respects(t, r) /\ ~Past(r)
  BY DEF Respects, Past, Locking
<1> QED
  BY <1>1, <1>2, TabMove

\* Whose identity this is, if anybody's.
Apart(a, i) == i # 0 =>
  /\ \A b \in Accounts : Owns(b, i) => b = a
  /\ Complete(disk[Old]) /\ i = disk[Old].identity => a = Former

\* A step in which a tab writes its account's database keeps the invariant.
LEMMA DiskMove ==
  ASSUME IInv, NEW t \in Tabs, NEW a \in Accounts, NEW d \in Database, NEW r \in Tab,
         disk' = [disk EXCEPT ![a] = d], tabs' = [tabs EXCEPT ![t] = r],
         UNCHANGED <<rows, trouble>>,
         r.step # "idle", r.account = a,
         TabInv(r, d, disk[Old]), VaultInv(d, disk[Old]),
         \A u \in Tabs : u # t /\ Of(tabs[u]) = a /\ TabInv(tabs[u], disk[a], disk[Old])
             => TabInv(tabs[u], d, disk[Old]),
         \A q \in rows : q.account = a => RowInv(q, d, disk[Old]),
         Respects(t, r), Past(r) => r.identity = d.identity,
         d.identity = disk[a].identity \/ Apart(a, d.identity)
  PROVE  IInv'
<1>1. /\ tabs' \in [Tabs -> Tab] /\ tabs'[t] = r
      /\ \A u \in Tabs : u # t => tabs'[u] = tabs[u]
  BY DEF IInv, TypeOK
<1>2. /\ a \in Names /\ disk' \in [Names -> Database] /\ disk'[a] = d /\ disk'[Old] = disk[Old]
      /\ \A n \in Names : n # a => disk'[n] = disk[n]
  BY OldIsNoAccount DEF IInv, TypeOK
<1>3. r.open = Nobody /\ Of(r) = a
  BY DEF TabInv, ShapeInv, Of
<1>4. TypeOK'
  BY <1>1, <1>2 DEF IInv, TypeOK, Busy
<1>5. ASSUME NEW u \in Tabs PROVE TabInv(tabs'[u], disk'[Of(tabs'[u])], disk'[Old])
  <2>1. CASE u = t
    BY <1>1, <1>2, <1>3, <2>1
  <2>2. CASE u # t /\ Of(tabs[u]) = a
    <3>1. TabInv(tabs[u], disk[a], disk[Old])
      BY <2>2 DEF IInv
    <3>2. TabInv(tabs[u], d, disk[Old])
      BY <2>2, <3>1
    <3> QED
      BY <1>1, <1>2, <2>2, <3>2
  <2>3. CASE u # t /\ Of(tabs[u]) \in Accounts /\ Of(tabs[u]) # a
    <3>1. TabInv(tabs[u], disk[Of(tabs[u])], disk[Old])
      BY DEF IInv
    <3>2. disk'[Of(tabs[u])] = disk[Of(tabs[u])]
      BY <1>2, <2>3, OldIsNoAccount
    <3> QED
      BY <1>1, <1>2, <2>3, <3>1, <3>2
  <2>4. CASE u # t /\ Of(tabs[u]) \notin Accounts
    <3>1. tabs[u] \in Tab /\ ShapeInv(tabs[u])
      BY DEF IInv, TypeOK, TabInv
    <3>2. tabs[u].step = "idle" /\ tabs[u].open = Nobody /\ ~tabs[u].fresh
      BY <2>4, <3>1 DEF ShapeInv, Of, Tab
    <3>3. TabInv(tabs[u], disk'[Of(tabs[u])], disk'[Old])
      BY <3>2, IdleTab
    <3> QED
      BY <1>1, <2>4, <3>3
  <2> QED
    BY <2>1, <2>2, <2>3, <2>4
<1>6. LockInv'
  BY LockMove DEF TabInv
<1>7. \A b \in Accounts : VaultInv(disk'[b], disk'[Old])
  BY <1>2, OldIsNoAccount DEF IInv
<1>8. \A q \in rows' : RowInv(q, disk'[q.account], disk'[Old])
  <2>1. ASSUME NEW q \in rows PROVE RowInv(q, disk'[q.account], disk'[Old])
    <3>1. q.account \in Accounts /\ RowInv(q, disk[q.account], disk[Old])
      BY DEF IInv, TypeOK
    <3>2. CASE q.account = a
      BY <1>2, <3>2
    <3>3. CASE q.account # a
      BY <1>2, <3>1, <3>3, OldIsNoAccount
    <3> QED
      BY <3>2, <3>3
  <2> QED
    BY <2>1
<1>9. ASSUME NEW b \in Accounts, NEW i, Owns(b, i)'
      PROVE  Owns(b, i) \/ (b = a /\ i = d.identity)
  <2>1. CASE disk'[b].identity = i
    BY <1>2, <2>1, OldIsNoAccount DEF Owns
  <2>2. CASE \E q \in rows' : q.account = b /\ q.identity = i
    BY <2>2 DEF Owns
  <2>3. CASE \E u \in Tabs : Past(tabs'[u]) /\ Of(tabs'[u]) = b /\ tabs'[u].identity = i
    BY <1>1, <1>3, <2>3 DEF Owns
  <2> QED
    BY <1>9, <2>1, <2>2, <2>3 DEF Owns, Past, Of
<1>10. Apart(a, d.identity)
  <2>1. CASE d.identity = disk[a].identity
    <3>1. d.identity \in Numbers /\ Owns(a, d.identity)
      BY <2>1 DEF Database, Owns
    <3> QED
      BY <3>1 DEF IInv, OwnersInv, Apart
  <2> QED
    BY <2>1
<1>11. OwnersInv'
  <2>1. ASSUME NEW b \in Accounts, NEW i \in Numbers, i # 0, Owns(b, i)',
               NEW c \in Accounts, Owns(c, i)'
        PROVE  b = c
    BY <1>9, <1>10, <2>1 DEF IInv, OwnersInv, Apart
  <2>2. ASSUME NEW b \in Accounts, NEW i \in Numbers, i # 0, Owns(b, i)',
               Complete(disk[Old]), i = disk[Old].identity
        PROVE  b = Former
    BY <1>9, <1>10, <2>2 DEF IInv, OwnersInv, Apart
  <2>3. Complete(disk[Old])' <=> Complete(disk[Old])
    BY <1>2 DEF Complete
  <2> QED
    BY <1>2, <2>1, <2>2, <2>3 DEF OwnersInv
<1>12. \A u \in Tabs : TabInv(tabs[u], disk[Of(tabs[u])], disk[Old])'
  BY <1>5 DEF TabInv, ShapeInv, CopyInv, KeyInv, DeviceInv, SavingInv, PastInv, Keyed, Past, Of,
              Complete
<1>13. /\ \A b \in Accounts : VaultInv(disk[b], disk[Old])'
       /\ \A q \in rows' : RowInv(q, disk[q.account], disk[Old])'
  BY <1>7, <1>8 DEF VaultInv, RowInv, Complete
<1> QED
  BY <1>4, <1>6, <1>11, <1>12, <1>13 DEF IInv

-----------------------------------------------------------------------------
(* Steps that write nothing                                                *)

\* A tab that has nothing under way, or has begun unlocking, is one of the
\* tabs the invariant speaks of.
LEMMA TabFacts ==
  ASSUME IInv, NEW t \in Tabs
  PROVE  /\ tabs[t] \in Tab /\ TabInv(tabs[t], disk[Of(tabs[t])], disk[Old])
         /\ tabs[t].step # "idle" => /\ tabs[t].account \in Accounts
                                     /\ Of(tabs[t]) = tabs[t].account
                                     /\ tabs[t].open = Nobody
         /\ tabs[t].pending # Nobody => tabs[t].open = Nobody /\ tabs[t].pending \in Accounts
         /\ tabs[t].fresh => tabs[t].step = "publish"
         /\ disk[Old] \in Database /\ trouble \in 0 .. MaxTrouble
         /\ \A a \in Accounts : disk[a] \in Database /\ VaultInv(disk[a], disk[Old])
<1>1. tabs[t] \in Tab /\ TabInv(tabs[t], disk[Of(tabs[t])], disk[Old])
  BY DEF IInv, TypeOK
<1>2. ShapeInv(tabs[t])
  BY <1>1 DEF TabInv
<1>3. tabs[t].pending # Nobody => tabs[t].pending \in Accounts
  BY <1>1 DEF Tab
<1>4. disk[Old] \in Database /\ \A a \in Accounts : disk[a] \in Database
  BY OldIsNoAccount DEF IInv, TypeOK
<1> QED
  BY <1>1, <1>2, <1>3, <1>4 DEF IInv, TypeOK, ShapeInv, Of

\* Signing in, or choosing to start fresh, keeps the invariant.
LEMMA SignInStep ==
  ASSUME IInv, NEW t \in Tabs, SignIn(t) \/ StartFresh(t)
  PROVE  IInv'
<1>1. /\ tabs[t] \in Tab /\ trouble \in 0 .. MaxTrouble
      /\ tabs[t].fresh => tabs[t].step = "publish"
      /\ tabs[t].pending # Nobody => tabs[t].open = Nobody
  BY TabFacts
<1>2. tabs[t].step = "idle" /\ tabs[t].open = Nobody
  BY <1>1 DEF SignIn, PrepareVault, StartFresh, Busy
<1>3. tabs[t].key = 0 /\ ~tabs[t].fresh
  BY <1>1, <1>2 DEF IInv, TypeOK, Busy
<1>4. CASE SignIn(t)
  <2>1. PICK a \in Accounts : PrepareVault(t, a)
    BY <1>4 DEF SignIn
  <2> DEFINE old == ~HasVault(disk[a]) /\ HasVault(disk[Old])
             r == [tabs[t] EXCEPT !.pending = a, !.legacy = old]
  <2>2. old \in BOOLEAN
    OBVIOUS
  <2>3. tabs' = [tabs EXCEPT ![t] = r] /\ UNCHANGED <<disk, rows, trouble>>
    BY <2>1 DEF PrepareVault
  <2> HIDE DEF old
  <2>4. r \in Tab /\ r.step = "idle" /\ r.open = Nobody /\ r.key = 0 /\ ~r.fresh
    BY <1>1, <1>2, <1>3, <2>2 DEF Tab
  <2> QED
    BY <1>1, <2>3, <2>4, IdleMove
<1>5. CASE StartFresh(t)
  <2> DEFINE r == [tabs[t] EXCEPT !.legacy = FALSE]
  <2>1. tabs' = [tabs EXCEPT ![t] = r] /\ UNCHANGED <<disk, rows, trouble>>
    BY <1>5 DEF StartFresh
  <2>2. r \in Tab /\ r.step = "idle" /\ r.open = Nobody /\ r.key = 0 /\ ~r.fresh
    BY <1>1, <1>2, <1>3 DEF Tab
  <2> QED
    BY <1>1, <2>1, <2>2, IdleMove
<1> QED
  BY <1>4, <1>5

\* A step at which the tab holds no key yet, or only the key, respects the others.
LEMMA EarlySteps ==
  ASSUME NEW t, NEW r, r.step \notin Locking, r.step # "publish", r.open = Nobody
  PROVE  Respects(t, r) /\ ~Past(r)
  BY DEF Respects, Past, Locking

\* A tab that may unlock is idle and has no account open.
LEMMA MayUnlockFacts ==
  ASSUME IInv, NEW t \in Tabs, MayUnlock(t)
  PROVE  /\ tabs[t] \in Tab /\ tabs[t].step = "idle" /\ tabs[t].open = Nobody
         /\ ~tabs[t].fresh /\ tabs[t].pending \in Accounts /\ trouble \in 0 .. MaxTrouble
<1>1. tabs[t].step = "idle" /\ tabs[t].pending # Nobody
  BY DEF MayUnlock, Busy
<1> QED
  BY <1>1, TabFacts

\* What a tab relies on that has the key of a vault, and nothing else yet.
LEMMA KeyedTab ==
  ASSUME NEW tab, NEW db, NEW old, tab.step \in {"bootstrap", "device"}, tab.open = Nobody,
         ~tab.fresh, tab.account \in Accounts,
         Complete(old) /\ tab.key = old.salt => db.identity # 0
  PROVE  TabInv(tab, db, old)
<1>1. ShapeInv(tab) /\ CopyInv(tab, old) /\ KeyInv(tab, db, old)
  BY DEF ShapeInv, CopyInv, KeyInv
<1>2. DeviceInv(tab, db, old) /\ SavingInv(tab, db, old) /\ PastInv(tab, db, old)
  BY DEF DeviceInv, SavingInv, PastInv, Past
<1> QED
  BY <1>1, <1>2 DEF TabInv

\* ... and of one that copies the old vault, or creates one.
LEMMA UnkeyedTab ==
  ASSUME NEW tab, NEW db, NEW old, tab.step \in {"copying", "verifying", "creating"},
         tab.open = Nobody, ~tab.fresh, tab.account \in Accounts, CopyInv(tab, old)
  PROVE  TabInv(tab, db, old)
<1>1. ShapeInv(tab) /\ KeyInv(tab, db, old)
  BY DEF ShapeInv, KeyInv, Keyed
<1>2. DeviceInv(tab, db, old) /\ SavingInv(tab, db, old) /\ PastInv(tab, db, old)
  BY DEF DeviceInv, SavingInv, PastInv, Past
<1> QED
  BY <1>1, <1>2 DEF TabInv

\* OpenOld keeps the invariant: the server lists the identity for Former alone.
LEMMA OpenOldStep ==
  ASSUME IInv, NEW t \in Tabs, NEW phrase \in Phrases, OpenOld(t, phrase)
  PROVE  IInv'
<1> DEFINE a == tabs[t].pending
           next == NextOf(disk[a], disk[Old].salt, a)
           r == [tabs[t] EXCEPT !.step = next, !.account = a, !.key = disk[Old].salt]
<1>1. /\ MayUnlock(t) /\ Complete(disk[Old]) /\ Matches(disk[Old], a)
      /\ tabs' = [tabs EXCEPT ![t] = r] /\ UNCHANGED <<disk, rows, trouble>>
  BY DEF OpenOld, Complete, HasVault, Verified
<1>2. /\ tabs[t] \in Tab /\ tabs[t].step = "idle" /\ tabs[t].open = Nobody
      /\ ~tabs[t].fresh /\ a \in Accounts /\ trouble \in 0 .. MaxTrouble
  BY <1>1, MayUnlockFacts
<1>3. disk[Old] \in Database /\ disk[a] \in Database /\ VaultInv(disk[a], disk[Old])
  BY <1>2, TabFacts
<1>4. /\ next \in {"bootstrap", "copying"}
      /\ next = "bootstrap" => disk[a].salt = disk[Old].salt
  BY DEF NextOf, VerifiedFor, Verified
<1>5. a = Former
  <2>1. Owns(a, disk[Old].identity)
    BY <1>1 DEF Matches, Owns
  <2>2. disk[Old].identity \in Numbers
    BY <1>3 DEF Database
  <2> QED
    BY <1>1, <1>2, <2>1, <2>2 DEF IInv, OwnersInv, Complete
<1> HIDE DEF a, next
<1>6. /\ r \in Tab /\ r.step = next /\ r.account = a /\ r.key = disk[Old].salt
      /\ r.open = Nobody /\ ~r.fresh
  <2>1. disk[Old].salt \in Numbers
    BY <1>3 DEF Database
  <2> QED
    BY <1>2, <1>4, <2>1 DEF Tab, Steps
<1> HIDE DEF r
<1>7. Of(r) = a
  BY <1>6 DEF Of
<1>8. TabInv(r, disk[a], disk[Old])
  <2>1. CASE next = "copying"
    <3>1. CopyInv(r, disk[Old])
      BY <1>1, <1>5, <1>6 DEF CopyInv
    <3> QED
      BY <1>2, <1>6, <2>1, <3>1, UnkeyedTab
  <2>2. CASE next = "bootstrap"
    <3>1. Complete(disk[Old]) => disk[a].identity # 0
      BY <1>3, <1>4, <2>2 DEF VaultInv
    <3> QED
      BY <1>2, <1>6, <2>2, <3>1, KeyedTab
  <2> QED
    BY <1>4, <2>1, <2>2
<1>9. Respects(t, r) /\ ~Past(r)
  BY <1>4, <1>6, EarlySteps DEF Locking
<1> QED
  BY <1>1, <1>2, <1>4, <1>6, <1>7, <1>8, <1>9, TabMove

\* OpenVault and BeginVault keep the invariant.
LEMMA OpenVaultStep ==
  ASSUME IInv, NEW t \in Tabs, NEW phrase \in Phrases,
         OpenVault(t, phrase) \/ BeginVault(t, phrase)
  PROVE  IInv'
<1> DEFINE a == tabs[t].pending
<1>1. MayUnlock(t)
  BY DEF OpenVault, BeginVault
<1>2. /\ tabs[t] \in Tab /\ tabs[t].step = "idle" /\ tabs[t].open = Nobody
      /\ ~tabs[t].fresh /\ a \in Accounts /\ trouble \in 0 .. MaxTrouble
  BY <1>1, MayUnlockFacts
<1>3. CASE OpenVault(t, phrase)
  <2> DEFINE r == [tabs[t] EXCEPT !.step = "bootstrap", !.account = a, !.key = disk[a].salt]
  <2>1. tabs' = [tabs EXCEPT ![t] = r] /\ UNCHANGED <<disk, rows, trouble>>
    BY <1>3 DEF OpenVault
  <2>2. disk[a].salt \in Numbers /\ VaultInv(disk[a], disk[Old])
    BY <1>2, TabFacts DEF Database
  <2> HIDE DEF a
  <2>3. /\ r \in Tab /\ r.step = "bootstrap" /\ r.account = a /\ r.key = disk[a].salt
        /\ r.open = Nobody /\ ~r.fresh
    BY <1>2, <2>2 DEF Tab, Steps
  <2> HIDE DEF r
  <2>4. Of(r) = a /\ Respects(t, r) /\ ~Past(r)
    BY <2>3, EarlySteps DEF Of, Locking
  <2>5. TabInv(r, disk[a], disk[Old])
    BY <1>2, <2>2, <2>3, KeyedTab DEF VaultInv
  <2> QED
    BY <1>2, <2>1, <2>3, <2>4, <2>5, TabMove
<1>4. CASE BeginVault(t, phrase)
  <2> DEFINE r == [tabs[t] EXCEPT !.step = "creating", !.account = a, !.phrase = phrase]
  <2>1. tabs' = [tabs EXCEPT ![t] = r] /\ UNCHANGED <<disk, rows, trouble>>
    BY <1>4 DEF BeginVault
  <2> HIDE DEF a
  <2>2. r \in Tab /\ r.step = "creating" /\ r.account = a /\ r.open = Nobody /\ ~r.fresh
    BY <1>2 DEF Tab, Steps
  <2> HIDE DEF r
  <2>3. Of(r) = a /\ Respects(t, r) /\ ~Past(r)
    BY <2>2, EarlySteps DEF Of, Locking
  <2>4. TabInv(r, disk[a], disk[Old])
    BY <1>2, <2>2, UnkeyedTab DEF CopyInv
  <2> QED
    BY <1>2, <2>1, <2>2, <2>3, <2>4, TabMove
<1> QED
  BY <1>3, <1>4

\* VerifyCopy keeps the invariant: a copy that verifies has the old identity.
LEMMA VerifyCopyStep ==
  ASSUME IInv, NEW t \in Tabs, VerifyCopy(t)
  PROVE  IInv'
<1> DEFINE a == tabs[t].account
           ok == VerifiedFor(disk[a], tabs[t].key, a)
<1>1. /\ tabs[t] \in Tab /\ TabInv(tabs[t], disk[a], disk[Old])
      /\ tabs[t].open = Nobody /\ a \in Accounts /\ ~tabs[t].fresh
      /\ trouble \in 0 .. MaxTrouble /\ VaultInv(disk[a], disk[Old])
  BY TabFacts DEF VerifyCopy
<1>2. CASE ok
  <2> DEFINE r == [tabs[t] EXCEPT !.step = "bootstrap"]
  <2>1. tabs' = [tabs EXCEPT ![t] = r] /\ UNCHANGED <<disk, rows, trouble>>
    BY <1>2 DEF VerifyCopy
  <2>2. disk[a].salt = tabs[t].key
    BY <1>2 DEF VerifiedFor, Verified
  <2> HIDE DEF ok
  <2>3. /\ r \in Tab /\ r.step = "bootstrap" /\ r.account = a /\ r.key = tabs[t].key
        /\ r.open = Nobody /\ ~r.fresh
    BY <1>1 DEF Tab, Steps
  <2> HIDE DEF r, a
  <2>4. Of(r) = a /\ Respects(t, r) /\ ~Past(r)
    BY <2>3, EarlySteps DEF Of, Locking
  <2>5. TabInv(r, disk[a], disk[Old])
    BY <1>1, <2>2, <2>3, KeyedTab DEF VaultInv
  <2> QED
    BY <1>1, <2>1, <2>3, <2>4, <2>5, TabMove
<1>3. CASE ~ok
  <2>1. /\ tabs' = [tabs EXCEPT ![t] = Failed(tabs[t])]
        /\ UNCHANGED <<disk, rows, trouble>>
    BY <1>3 DEF VerifyCopy
  <2> QED
    BY <1>1, <2>1, FailedIsTab, IdleMove
<1> QED
  BY <1>2, <1>3

-----------------------------------------------------------------------------
(* Steps that write the account's database                                 *)

\* What is drawn for a new record is in use nowhere it could be met.
LEMMA NewSaltFacts ==
  ASSUME NEW s \in NewSalt
  PROVE  /\ s \in Numbers /\ s # 0
         /\ \A n \in Names : s # disk[n].salt /\ s # disk[n].under
         /\ \A u \in Tabs : s # tabs[u].key
  BY DrawnIsUnused DEF NewSalt

LEMMA NewDeviceFacts ==
  ASSUME NEW d \in NewDevice
  PROVE  /\ d \in Numbers /\ d # 0
         /\ \A n \in Names : d # disk[n].device
         /\ \A q \in rows : d # q.device
         /\ \A u \in Tabs : d # tabs[u].device
  BY DrawnIsUnused DEF NewDevice

LEMMA NewIdentityFacts ==
  ASSUME NEW i \in NewIdentity
  PROVE  /\ i \in Numbers /\ i # 0
         /\ \A n \in Names : i # disk[n].identity
         /\ \A q \in rows : i # q.identity
         /\ \A u \in Tabs : i # tabs[u].identity
  BY DrawnIsUnused DEF NewIdentity

\* The two transactions that write an account's vault record.
LEMMA VaultWritten ==
  ASSUME NEW db \in Database, NEW a \in Accounts
  PROVE  /\ \A p \in Phrases \cup {Nobody}, s \in Numbers, v \in 1 .. 2 :
               [db EXCEPT !.phrase = p, !.salt = s, !.version = v, !.owner = a] \in Database
         /\ \A v \in 1 .. 2, b \in BOOLEAN, w \in BOOLEAN :
               [db EXCEPT !.version = v, !.owner = a, !.moved = b, !.whole = w] \in Database
<1>1. \A p \in Phrases \cup {Nobody}, s \in Numbers, v \in 1 .. 2 :
         [db EXCEPT !.phrase = p, !.salt = s, !.version = v, !.owner = a] \in Database
  BY DEF Database
<1>2. \A v \in 1 .. 2, b \in BOOLEAN, w \in BOOLEAN :
         [db EXCEPT !.version = v, !.owner = a, !.moved = b, !.whole = w] \in Database
  BY DEF Database
<1> QED
  BY <1>1, <1>2

\* CommitCopy keeps the invariant: the account's vault becomes the old one.
LEMMA CommitCopyStep ==
  ASSUME IInv, NEW t \in Tabs, CommitCopy(t)
  PROVE  IInv'
<1> DEFINE a == tabs[t].account
           old == disk[Old]
           d == CopyOf(old, a)
           r == [tabs[t] EXCEPT !.step = "verifying"]
<1>1. /\ tabs[t] \in Tab /\ TabInv(tabs[t], disk[a], old)
      /\ tabs[t].open = Nobody /\ a \in Accounts /\ ~tabs[t].fresh /\ old \in Database
  BY TabFacts DEF CommitCopy
<1>2. /\ disk' = [disk EXCEPT ![a] = d] /\ tabs' = [tabs EXCEPT ![t] = r]
      /\ UNCHANGED <<rows, trouble>> /\ tabs[t].step = "copying"
  BY DEF CommitCopy
<1>3. Complete(old) /\ tabs[t].key = old.salt /\ a = Former
  BY <1>1, <1>2 DEF TabInv, CopyInv
<1> HIDE DEF a, old
<1>4. /\ d \in Database /\ d.salt = old.salt /\ d.under = old.salt
      /\ d.identity = old.identity /\ d.device = old.device
  <2>1. d \in Database
    <3>1. 2 \in 1 .. 2 /\ TRUE \in BOOLEAN
      OBVIOUS
    <3> QED
      BY <1>1, <3>1, VaultWritten DEF CopyOf
  <2>2. /\ d.salt = old.salt /\ d.under = old.under
        /\ d.identity = old.identity /\ d.device = old.device
    <3>1. old \in Database
      BY <1>1
    <3>2. d = [old EXCEPT !.version = 2, !.owner = a, !.moved = TRUE, !.whole = TRUE]
      BY DEF CopyOf
    <3> HIDE DEF d
    <3> QED
      BY <3>1, <3>2 DEF Database
  <2> QED
    BY <1>3, <2>1, <2>2 DEF Complete
<1> HIDE DEF d
<1>5. /\ r \in Tab /\ r.step = "verifying" /\ r.account = a /\ r.key = old.salt
      /\ r.open = Nobody /\ ~r.fresh
  BY <1>1, <1>3 DEF Tab, Steps, a
<1> HIDE DEF r
<1>6. TabInv(r, d, old)
  BY <1>1, <1>3, <1>5, UnkeyedTab DEF CopyInv
<1>7. VaultInv(d, old)
  BY <1>3, <1>4 DEF VaultInv, Complete
<1>8. ASSUME NEW u \in Tabs, TabInv(tabs[u], disk[a], old) PROVE TabInv(tabs[u], d, old)
  <2>1. KeyInv(tabs[u], d, old) /\ DeviceInv(tabs[u], d, old)
    BY <1>3, <1>4, <1>8 DEF TabInv, KeyInv, DeviceInv, Complete
  <2>2. SavingInv(tabs[u], d, old)
    BY <1>3, <1>4, <1>8 DEF TabInv, SavingInv
  <2>3. PastInv(tabs[u], d, old)
    BY <1>3, <1>4, <1>8 DEF TabInv, PastInv, DeviceInv, Complete
  <2> QED
    BY <1>8, <2>1, <2>2, <2>3 DEF TabInv
<1>9. ASSUME NEW q \in rows PROVE RowInv(q, d, old)
  <2>1. RowInv(q, disk[q.account], old)
    BY DEF IInv, old
  <2> QED
    BY <1>3, <1>4, <2>1 DEF RowInv, Complete
<1>10. Respects(t, r) /\ ~Past(r)
  BY <1>5, EarlySteps DEF Locking
<1>11. Apart(a, d.identity)
  <2>1. d.identity \in Numbers
    BY <1>4 DEF Database
  <2>2. \A b \in Accounts : Owns(b, d.identity) /\ d.identity # 0 => b = Former
    BY <1>3, <1>4, <2>1 DEF IInv, OwnersInv, old
  <2> QED
    BY <1>3, <2>2 DEF Apart
<1> QED
  BY <1>1, <1>2, <1>4, <1>5, <1>6, <1>7, <1>8, <1>9, <1>10, <1>11, DiskMove DEF old

\* CreateVault keeps the invariant: whoever had the vault that was there holds
\* another key than the new one.
LEMMA CreateVaultStep ==
  ASSUME IInv, NEW t \in Tabs, CreateVault(t)
  PROVE  IInv'
<1> DEFINE a == tabs[t].account
           old == disk[Old]
<1>1. PICK s \in NewSalt :
         /\ tabs[t].step = "creating"
         /\ disk' = [disk EXCEPT ![a] = [@ EXCEPT !.phrase = tabs[t].phrase, !.salt = s,
                                                  !.version = 2, !.owner = a]]
         /\ tabs' = [tabs EXCEPT ![t] = [@ EXCEPT !.step = "bootstrap", !.key = s,
                                                  !.phrase = Nobody]]
         /\ UNCHANGED <<rows, trouble>>
  BY DEF CreateVault
<1> DEFINE d == [disk[a] EXCEPT !.phrase = tabs[t].phrase, !.salt = s, !.version = 2, !.owner = a]
           r == [tabs[t] EXCEPT !.step = "bootstrap", !.key = s, !.phrase = Nobody]
<1>2. /\ tabs[t] \in Tab /\ tabs[t].open = Nobody /\ a \in Accounts /\ ~tabs[t].fresh
      /\ disk[a] \in Database /\ VaultInv(disk[a], old)
  BY <1>1, TabFacts
<1>3. /\ disk' = [disk EXCEPT ![a] = d] /\ tabs' = [tabs EXCEPT ![t] = r]
  BY <1>1, <1>2, OldIsNoAccount DEF IInv, TypeOK
<1>4. /\ s \in Numbers /\ s # old.salt /\ s # disk[a].under
      /\ \A u \in Tabs : s # tabs[u].key
  BY <1>2, NewSaltFacts, OldIsNoAccount
<1> HIDE DEF a, old
<1>5. /\ d \in Database /\ d.salt = s /\ d.under = disk[a].under
      /\ d.identity = disk[a].identity /\ d.device = disk[a].device
  <2>1. tabs[t].phrase \in Phrases \cup {Nobody}
    BY <1>2 DEF Tab
  <2>2. d \in Database
    <3>1. 2 \in 1 .. 2
      OBVIOUS
    <3> QED
      BY <1>2, <1>4, <2>1, <3>1, VaultWritten
  <2>3. /\ d.salt = s /\ d.under = disk[a].under
        /\ d.identity = disk[a].identity /\ d.device = disk[a].device
    BY <1>2 DEF Database
  <2> QED
    BY <2>2, <2>3
<1>6. /\ r \in Tab /\ r.step = "bootstrap" /\ r.account = a /\ r.key = s
      /\ r.open = Nobody /\ ~r.fresh
  BY <1>2, <1>4 DEF Tab, Steps, a
<1> HIDE DEF d, r
<1>7. TabInv(r, d, old)
  BY <1>2, <1>4, <1>6, KeyedTab
<1>8. VaultInv(d, old)
  BY <1>2, <1>4, <1>5 DEF VaultInv
<1>9. ASSUME NEW u \in Tabs, TabInv(tabs[u], disk[a], old) PROVE TabInv(tabs[u], d, old)
  <2>1. tabs[u].key # d.salt
    BY <1>4, <1>5
  <2>2. KeyInv(tabs[u], d, old) /\ DeviceInv(tabs[u], d, old)
    BY <1>5, <1>9 DEF TabInv, KeyInv, DeviceInv
  <2>3. SavingInv(tabs[u], d, old) /\ PastInv(tabs[u], d, old)
    BY <1>5, <1>9, <2>1 DEF TabInv, SavingInv, PastInv
  <2> QED
    BY <1>9, <2>2, <2>3 DEF TabInv
<1>10. ASSUME NEW q \in rows, q.account = a PROVE RowInv(q, d, old)
  <2>1. RowInv(q, disk[a], old)
    BY <1>10 DEF IInv, old
  <2> QED
    BY <1>4, <1>5, <2>1 DEF RowInv
<1>11. Respects(t, r) /\ ~Past(r)
  BY <1>6, EarlySteps DEF Locking
<1> QED
  BY <1>1, <1>2, <1>3, <1>5, <1>6, <1>7, <1>8, <1>9, <1>10, <1>11, DiskMove DEF old

\* The device id of a vault that had none, which nobody else has.
LEMMA SaveDeviceStep ==
  ASSUME IInv, NEW t \in Tabs, SaveDeviceId(t)
  PROVE  IInv'
<1> DEFINE a == tabs[t].account
           old == disk[Old]
<1>1. PICK n \in NewDevice :
         /\ tabs[t].step = "device"
         /\ disk' = [disk EXCEPT ![a].device = n]
         /\ tabs' = [tabs EXCEPT ![t] = [@ EXCEPT !.step = "identity", !.device = n]]
         /\ UNCHANGED <<rows, trouble>>
  BY DEF SaveDeviceId
<1> DEFINE d == [disk[a] EXCEPT !.device = n]
           r == [tabs[t] EXCEPT !.step = "identity", !.device = n]
<1>2. /\ tabs[t] \in Tab /\ tabs[t].open = Nobody /\ a \in Accounts /\ ~tabs[t].fresh
      /\ TabInv(tabs[t], disk[a], old)
      /\ disk[a] \in Database /\ VaultInv(disk[a], old)
  BY <1>1, TabFacts
<1>3. /\ disk' = [disk EXCEPT ![a] = d] /\ tabs' = [tabs EXCEPT ![t] = r]
  BY <1>1, <1>2, OldIsNoAccount DEF IInv, TypeOK
<1>4. /\ n \in Numbers /\ n # 0 /\ n # old.device
      /\ \A u \in Tabs : n # tabs[u].device
      /\ \A q \in rows : n # q.device
  BY <1>2, NewDeviceFacts, OldIsNoAccount
<1>5. LockLeft(t, a)
  BY <1>1 DEF IInv, LockInv, LockLeft, Locking
<1> HIDE DEF a, old
<1>6. /\ d \in Database /\ d.salt = disk[a].salt /\ d.under = disk[a].under
      /\ d.identity = disk[a].identity /\ d.device = n
  BY <1>2, <1>4 DEF Database
<1>7. /\ r \in Tab /\ r.step = "identity" /\ r.account = a /\ r.key = tabs[t].key
      /\ r.open = Nobody /\ ~r.fresh /\ r.device = n
  BY <1>2, <1>4 DEF Tab, Steps, a
<1> HIDE DEF d, r
<1>8. TabInv(r, d, old)
  <2>1. ShapeInv(r) /\ CopyInv(r, old)
    BY <1>2, <1>7 DEF ShapeInv, CopyInv
  <2>2. KeyInv(r, d, old)
    BY <1>1, <1>2, <1>6, <1>7 DEF TabInv, KeyInv, Keyed
  <2>3. DeviceInv(r, d, old) /\ SavingInv(r, d, old) /\ PastInv(r, d, old)
    BY <1>4, <1>7 DEF DeviceInv, SavingInv, PastInv, Past
  <2> QED
    BY <2>1, <2>2, <2>3 DEF TabInv
<1>9. VaultInv(d, old)
  BY <1>2, <1>4, <1>6 DEF VaultInv
<1>10. ASSUME NEW u \in Tabs, TabInv(tabs[u], disk[a], old) PROVE TabInv(tabs[u], d, old)
  <2>1. tabs[u].device # d.device
    BY <1>4, <1>6
  <2>2. KeyInv(tabs[u], d, old) /\ DeviceInv(tabs[u], d, old)
    BY <1>6, <1>10 DEF TabInv, KeyInv, DeviceInv
  <2>3. SavingInv(tabs[u], d, old) /\ PastInv(tabs[u], d, old)
    BY <1>6, <1>10, <2>1 DEF TabInv, SavingInv, PastInv
  <2> QED
    BY <1>10, <2>2, <2>3 DEF TabInv
<1>11. ASSUME NEW q \in rows, q.account = a PROVE RowInv(q, d, old)
  <2>1. RowInv(q, disk[a], old)
    BY <1>11 DEF IInv, old
  <2> QED
    BY <1>4, <1>6, <2>1 DEF RowInv
<1>12. Respects(t, r) /\ ~Past(r)
  BY <1>5, <1>7 DEF Respects, Past
<1> QED
  BY <1>1, <1>2, <1>3, <1>6, <1>7, <1>8, <1>9, <1>10, <1>11, <1>12, DiskMove DEF old

\* The identity of a vault that had none: nobody holds the vault's lock, or an
\* identity of the account, but the tab that makes it.
LEMMA SaveIdentityStep ==
  ASSUME IInv, NEW t \in Tabs, SaveIdentity(t)
  PROVE  IInv'
<1> DEFINE a == tabs[t].account
           old == disk[Old]
<1>1. PICK i \in NewIdentity :
         /\ tabs[t].step = "saving"
         /\ disk' = [disk EXCEPT ![a] = [@ EXCEPT !.identity = i, !.under = tabs[t].key,
                                                  !.whole = TRUE]]
         /\ tabs' = [tabs EXCEPT ![t] = [@ EXCEPT !.step = "publish", !.identity = i,
                                                  !.fresh = TRUE]]
         /\ UNCHANGED <<rows, trouble>>
  BY DEF SaveIdentity
<1> DEFINE d == [disk[a] EXCEPT !.identity = i, !.under = tabs[t].key, !.whole = TRUE]
           r == [tabs[t] EXCEPT !.step = "publish", !.identity = i, !.fresh = TRUE]
<1>2. /\ tabs[t] \in Tab /\ tabs[t].open = Nobody /\ a \in Accounts
      /\ TabInv(tabs[t], disk[a], old)
      /\ disk[a] \in Database /\ VaultInv(disk[a], old)
  BY <1>1, TabFacts
<1>3. /\ disk' = [disk EXCEPT ![a] = d] /\ tabs' = [tabs EXCEPT ![t] = r]
  BY <1>1, <1>2, OldIsNoAccount DEF IInv, TypeOK
<1>4. i \in Numbers /\ i # 0 /\ i # old.identity /\ \A b \in Accounts : ~Owns(b, i)
  <2>1. /\ i \in Numbers /\ i # 0
        /\ \A n \in Names : i # disk[n].identity
        /\ \A q \in rows : i # q.identity
        /\ \A u \in Tabs : i # tabs[u].identity
    BY NewIdentityFacts
  <2> QED
    BY <2>1, OldIsNoAccount DEF Owns
<1>5. /\ LockLeft(t, a)
      /\ \A u \in Tabs : Past(tabs[u]) => Of(tabs[u]) # a
  BY <1>1 DEF IInv, LockInv, LockLeft, Locking
<1>6. /\ Complete(old) => tabs[t].key # old.salt
      /\ tabs[t].key = disk[a].salt => disk[a].identity = 0
      /\ tabs[t].device # 0
      /\ Complete(old) => tabs[t].device # old.device
  BY <1>1, <1>2 DEF TabInv, SavingInv, DeviceInv
<1> HIDE DEF a, old
<1>7. /\ d \in Database /\ d.salt = disk[a].salt /\ d.under = tabs[t].key
      /\ d.identity = i /\ d.device = disk[a].device
  <2>1. tabs[t].key \in Numbers
    BY <1>2 DEF Tab
  <2> QED
    BY <1>2, <1>4, <2>1 DEF Database
<1>8. /\ r \in Tab /\ r.step = "publish" /\ r.account = a /\ r.key = tabs[t].key
      /\ r.open = Nobody /\ r.fresh /\ r.device = tabs[t].device /\ r.identity = i
  BY <1>2, <1>4 DEF Tab, Steps, a
<1> HIDE DEF d, r
<1>9. Of(r) = a
  BY <1>8 DEF Of
<1>10. TabInv(r, d, old)
  <2>1. ShapeInv(r) /\ CopyInv(r, old)
    BY <1>2, <1>8 DEF ShapeInv, CopyInv
  <2>2. KeyInv(r, d, old) /\ DeviceInv(r, d, old)
    BY <1>4, <1>6, <1>7, <1>8 DEF KeyInv, DeviceInv
  <2>3. SavingInv(r, d, old) /\ PastInv(r, d, old)
    BY <1>4, <1>6, <1>7, <1>8 DEF SavingInv, PastInv
  <2> QED
    BY <2>1, <2>2, <2>3 DEF TabInv
<1>11. VaultInv(d, old)
  BY <1>4, <1>6, <1>7 DEF VaultInv
<1>12. ASSUME NEW u \in Tabs, u # t, Of(tabs[u]) = a, TabInv(tabs[u], disk[a], old)
       PROVE  TabInv(tabs[u], d, old)
  <2>1. ~Past(tabs[u])
    BY <1>5, <1>12
  <2>2. tabs[u].step # "saving"
    <3>1. tabs[u].step = "saving" => tabs[u].account = a
      BY <1>12, TabFacts
    <3> QED
      BY <1>5, <1>12, <3>1 DEF LockLeft, Locking
  <2>3. KeyInv(tabs[u], d, old) /\ DeviceInv(tabs[u], d, old)
    BY <1>4, <1>7, <1>12 DEF TabInv, KeyInv, DeviceInv
  <2>4. SavingInv(tabs[u], d, old) /\ PastInv(tabs[u], d, old)
    BY <2>1, <2>2 DEF SavingInv, PastInv
  <2> QED
    BY <1>12, <2>3, <2>4 DEF TabInv
<1>13. ASSUME NEW q \in rows, q.account = a PROVE RowInv(q, d, old)
  <2>1. RowInv(q, disk[a], old)
    BY <1>13 DEF IInv, old
  <2> QED
    BY <1>4, <1>6, <1>7, <2>1 DEF RowInv
<1>14. Respects(t, r)
  BY <1>5, <1>8, <1>9 DEF Respects, LockLeft, Locking
<1>15. Apart(a, d.identity)
  BY <1>4, <1>7 DEF Apart, old
<1>16. r.step # "idle" /\ r.identity = d.identity /\ UNCHANGED <<rows, trouble>>
  BY <1>1, <1>7, <1>8
<1>17. /\ TabInv(r, d, disk[Old]) /\ VaultInv(d, disk[Old])
       /\ \A q \in rows : q.account = a => RowInv(q, d, disk[Old])
       /\ \A u \in Tabs : u # t /\ Of(tabs[u]) = a /\ TabInv(tabs[u], disk[a], disk[Old])
             => TabInv(tabs[u], d, disk[Old])
  BY <1>10, <1>11, <1>12, <1>13 DEF old
<1>18. d \in Database /\ r \in Tab /\ r.account = a /\ a \in Accounts
  BY <1>2, <1>7, <1>8
<1> QED
  BY <1>3, <1>14, <1>15, <1>16, <1>17, <1>18, DiskMove

-----------------------------------------------------------------------------
(* The rest of the handler, and leaving                                    *)

\* ReadDeviceId keeps the invariant: the lock is free.
LEMMA ReadDeviceStep ==
  ASSUME IInv, NEW t \in Tabs, ReadDeviceId(t)
  PROVE  IInv'
<1> DEFINE a == tabs[t].account
           old == disk[Old]
           n == disk[a].device
           next == IF n = 0 THEN "device" ELSE "identity"
           r == [tabs[t] EXCEPT !.step = next, !.device = n]
<1>1. /\ tabs' = [tabs EXCEPT ![t] = r] /\ UNCHANGED <<disk, rows, trouble>>
      /\ tabs[t].step = "bootstrap" /\ BootstrapLockFree(a)
  BY DEF ReadDeviceId
<1>2. /\ tabs[t] \in Tab /\ tabs[t].open = Nobody /\ a \in Accounts /\ ~tabs[t].fresh
      /\ TabInv(tabs[t], disk[a], old) /\ trouble \in 0 .. MaxTrouble
      /\ disk[a] \in Database /\ VaultInv(disk[a], old)
  BY <1>1, TabFacts
<1>3. LockLeft(t, a)
  BY <1>1 DEF BootstrapLockFree, LockLeft, Locking
<1>4. n \in Numbers /\ next \in {"device", "identity"} /\ (next = "identity" <=> n # 0)
  BY <1>2 DEF Database
<1> HIDE DEF a, old, n, next
<1>5. /\ r \in Tab /\ r.step = next /\ r.account = a /\ r.key = tabs[t].key
      /\ r.open = Nobody /\ ~r.fresh /\ r.device = n
  BY <1>2, <1>4 DEF Tab, Steps, a
<1> HIDE DEF r
<1>6. Of(r) = a /\ ~Past(r)
  BY <1>4, <1>5 DEF Of, Past
<1>7. Respects(t, r)
  BY <1>3, <1>4, <1>5, <1>6 DEF Respects
<1>8. TabInv(r, disk[a], old)
  <2>1. ShapeInv(r) /\ CopyInv(r, old)
    BY <1>2, <1>4, <1>5 DEF ShapeInv, CopyInv
  <2>2. KeyInv(r, disk[a], old)
    BY <1>1, <1>2, <1>5 DEF TabInv, KeyInv, Keyed
  <2>3. DeviceInv(r, disk[a], old)
    <3>1. Complete(old) /\ n = old.device => disk[a].identity # 0
      BY <1>2 DEF VaultInv, n
    <3> QED
      BY <1>4, <1>5, <3>1 DEF DeviceInv
  <2>4. SavingInv(r, disk[a], old) /\ PastInv(r, disk[a], old)
    BY <1>4, <1>5, <1>6 DEF SavingInv, PastInv
  <2> QED
    BY <2>1, <2>2, <2>3, <2>4 DEF TabInv
<1> QED
  BY <1>1, <1>2, <1>4, <1>5, <1>6, <1>7, <1>8, TabMove DEF old

\* LoadIdentity keeps the invariant: nothing is there, and then nobody of the
\* account has an identity; or it opens with the tab's key; or the handler fails.
LEMMA LoadIdentityStep ==
  ASSUME IInv, NEW t \in Tabs, LoadIdentity(t)
  PROVE  IInv'
<1> DEFINE a == tabs[t].account
           old == disk[Old]
<1>1. /\ tabs' = [tabs EXCEPT ![t] = WithIdentity(tabs[t], disk[a], disk[a].identity = 0)]
      /\ UNCHANGED <<disk, rows, trouble>> /\ tabs[t].step = "identity"
  BY DEF LoadIdentity, LoadIdentityWhen
<1>2. /\ tabs[t] \in Tab /\ tabs[t].open = Nobody /\ a \in Accounts /\ ~tabs[t].fresh
      /\ TabInv(tabs[t], disk[a], old) /\ trouble \in 0 .. MaxTrouble
      /\ disk[a] \in Database /\ VaultInv(disk[a], old)
  BY <1>1, TabFacts
<1>3. LockLeft(t, a)
  BY <1>1 DEF IInv, LockInv, LockLeft, Locking
<1>4. /\ Complete(old) /\ tabs[t].key = old.salt => disk[a].identity # 0
      /\ Complete(old) /\ tabs[t].device = old.device => disk[a].identity # 0
      /\ tabs[t].device # 0
  BY <1>1, <1>2 DEF TabInv, KeyInv, DeviceInv, Keyed
<1>5. CASE disk[a].identity = 0
  <2> DEFINE r == [tabs[t] EXCEPT !.step = "saving"]
  <2>1. tabs' = [tabs EXCEPT ![t] = r]
    BY <1>1, <1>5 DEF WithIdentity
  <2> HIDE DEF a, old
  <2>2. /\ r \in Tab /\ r.step = "saving" /\ r.account = a /\ r.key = tabs[t].key
        /\ r.open = Nobody /\ ~r.fresh /\ r.device = tabs[t].device
    BY <1>2 DEF Tab, Steps, a
  <2> HIDE DEF r
  <2>3. Of(r) = a /\ ~Past(r)
    BY <2>2 DEF Of, Past
  <2>4. ASSUME NEW u \in Tabs, Past(tabs[u]) PROVE Of(tabs[u]) # a
    <3>1. PastInv(tabs[u], disk[Of(tabs[u])], old)
      BY TabFacts DEF TabInv, old
    <3> QED
      BY <1>5, <2>4, <3>1 DEF PastInv
  <2>5. Respects(t, r)
    BY <1>3, <2>2, <2>3, <2>4 DEF Respects
  <2>6. TabInv(r, disk[a], old)
    <3>1. ShapeInv(r) /\ CopyInv(r, old)
      BY <1>2, <2>2 DEF ShapeInv, CopyInv
    <3>2. KeyInv(r, disk[a], old) /\ DeviceInv(r, disk[a], old)
      BY <1>4, <1>5, <2>2 DEF KeyInv, DeviceInv
    <3>3. SavingInv(r, disk[a], old) /\ PastInv(r, disk[a], old)
      BY <1>4, <1>5, <2>2, <2>3 DEF SavingInv, PastInv
    <3> QED
      BY <3>1, <3>2, <3>3 DEF TabInv
  <2> QED
    BY <1>1, <1>2, <2>1, <2>2, <2>3, <2>5, <2>6, TabMove DEF old
<1>6. CASE disk[a].identity # 0 /\ Opens(disk[a], tabs[t].key)
  <2> DEFINE r == [tabs[t] EXCEPT !.step = "publish", !.identity = disk[a].identity]
  <2>1. tabs' = [tabs EXCEPT ![t] = r]
    BY <1>1, <1>6 DEF WithIdentity
  <2>2. disk[a].under = tabs[t].key
    BY <1>6 DEF Opens
  <2> HIDE DEF a, old
  <2>3. /\ r \in Tab /\ r.step = "publish" /\ r.account = a /\ r.key = tabs[t].key
        /\ r.open = Nobody /\ ~r.fresh /\ r.device = tabs[t].device
        /\ r.identity = disk[a].identity
    <3>1. disk[a].identity \in Numbers
      BY <1>2 DEF Database
    <3> QED
      BY <1>2, <3>1 DEF Tab, Steps, a
  <2> HIDE DEF r
  <2>4. Of(r) = a
    BY <2>3 DEF Of
  <2>5. Respects(t, r)
    BY <1>3, <2>3, <2>4 DEF Respects, LockLeft, Locking
  <2>6. TabInv(r, disk[a], old)
    <3>1. ShapeInv(r) /\ CopyInv(r, old)
      BY <1>2, <2>3 DEF ShapeInv, CopyInv
    <3>2. KeyInv(r, disk[a], old) /\ DeviceInv(r, disk[a], old)
      BY <1>4, <1>6, <2>3 DEF KeyInv, DeviceInv
    <3>3. SavingInv(r, disk[a], old)
      BY <2>3 DEF SavingInv
    <3>4. PastInv(r, disk[a], old)
      BY <1>2, <1>6, <2>2, <2>3 DEF PastInv, VaultInv
    <3> QED
      BY <3>1, <3>2, <3>3, <3>4 DEF TabInv
  <2>7. Owns(a, r.identity)
    BY <2>3 DEF Owns
  <2> QED
    BY <1>1, <1>2, <2>1, <2>3, <2>4, <2>5, <2>6, <2>7, TabMove DEF old
<1>7. CASE disk[a].identity # 0 /\ ~Opens(disk[a], tabs[t].key)
  <2>1. tabs' = [tabs EXCEPT ![t] = Failed(tabs[t])]
    BY <1>1, <1>7 DEF WithIdentity
  <2> QED
    BY <1>1, <1>2, <2>1, FailedIsTab, IdleMove
<1> QED
  BY <1>5, <1>6, <1>7

\* Publish keeps the invariant: the row put up is of the identity that was made,
\* under a device id that no copy of the old vault has.
LEMMA PublishStep ==
  ASSUME IInv, NEW t \in Tabs, Publish(t)
  PROVE  IInv'
<1> DEFINE a == tabs[t].account
           old == disk[Old]
           r == Entered(tabs[t])
           new == [account |-> a, device |-> tabs[t].device, identity |-> tabs[t].identity]
<1>1. /\ tabs' = [tabs EXCEPT ![t] = r] /\ UNCHANGED <<disk, trouble>>
      /\ tabs[t].step = "publish"
      /\ rows' \subseteq rows \cup {new}
      /\ ~tabs[t].fresh => rows' = rows
  BY DEF Publish
<1>2. /\ tabs[t] \in Tab /\ tabs[t].open = Nobody /\ a \in Accounts
      /\ TabInv(tabs[t], disk[a], old) /\ Of(tabs[t]) = a
  BY <1>1, TabFacts
<1>3. /\ r \in Tab /\ r.step = "idle" /\ r.open = a /\ r.pending = Nobody
      /\ ~r.fresh /\ r.key = tabs[t].key /\ r.identity = tabs[t].identity
  <2> DEFINE f == Failed(tabs[t])
  <2>1. f \in Tab /\ f.step = "idle" /\ ~f.fresh
    BY <1>2, FailedIsTab
  <2>2. r = [f EXCEPT !.open = a, !.pending = Nobody, !.legacy = FALSE,
                      !.identity = tabs[t].identity, !.key = tabs[t].key]
    BY DEF Entered
  <2>3. tabs[t].identity \in Numbers /\ tabs[t].key \in Numbers
    BY <1>2 DEF Tab
  <2>4. a \in Accounts \cup {Nobody} /\ Nobody \in Accounts \cup {Nobody}
    BY <1>2
  <2> HIDE DEF f, r, a
  <2>5. r \in Tab
    BY <2>1, <2>2, <2>3, <2>4 DEF Tab
  <2>6. /\ r.step = f.step /\ r.open = a /\ r.pending = Nobody /\ r.fresh = f.fresh
        /\ r.key = tabs[t].key /\ r.identity = tabs[t].identity
    BY <2>1, <2>2 DEF Tab
  <2> QED
    BY <2>1, <2>5, <2>6
<1>4. /\ new.account = a /\ new.device = tabs[t].device /\ new.identity = tabs[t].identity
      /\ new \in [account : Accounts, device : Numbers, identity : Numbers]
  BY <1>2 DEF Tab
<1> HIDE DEF a, old, r, new
<1>5. Of(r) = a /\ Past(r) /\ Past(tabs[t]) /\ r.open # Nobody
  BY <1>1, <1>2, <1>3, OldIsNoAccount DEF Of, Past
<1>6. /\ tabs' \in [Tabs -> Tab] /\ tabs'[t] = r
      /\ \A u \in Tabs : u # t => tabs'[u] = tabs[u]
  BY <1>1, <1>3 DEF IInv, TypeOK
<1>7. TypeOK'
  <2>1. rows' \subseteq [account : Accounts, device : Numbers, identity : Numbers]
    BY <1>1, <1>4 DEF IInv, TypeOK
  <2> QED
    BY <1>1, <1>5, <1>6, <2>1 DEF IInv, TypeOK, Busy
<1>8. PastInv(tabs[t], disk[a], old)
  BY <1>2 DEF TabInv
<1>9. TabInv(r, disk[a], old)
  <2>1. ShapeInv(r) /\ CopyInv(r, old)
    BY <1>3 DEF ShapeInv, CopyInv
  <2>2. KeyInv(r, disk[a], old) /\ DeviceInv(r, disk[a], old) /\ SavingInv(r, disk[a], old)
    BY <1>3, <1>5, <1>8 DEF PastInv, KeyInv, DeviceInv, SavingInv
  <2>3. PastInv(r, disk[a], old)
    BY <1>3, <1>5, <1>8 DEF PastInv
  <2> QED
    BY <2>1, <2>2, <2>3 DEF TabInv
<1>10. \A u \in Tabs : TabInv(tabs'[u], disk'[Of(tabs'[u])], disk'[Old])
  BY <1>1, <1>5, <1>6, <1>9 DEF IInv, old
<1>11. LockInv'
  <2>1. Respects(t, r)
    <3>1. \A u \in Tabs : tabs[u].step = "saving" => tabs[u].account # a
      BY <1>2, <1>5 DEF IInv, LockInv
    <3> QED
      BY <1>3, <1>5, <3>1 DEF Respects, Locking
  <2>2. ShapeInv(r)
    BY <1>9 DEF TabInv
  <2> QED
    BY <1>1, <1>3, <2>1, <2>2, LockMove
<1>12. \A q \in rows' : RowInv(q, disk'[q.account], disk'[Old])
  <2>1. ASSUME tabs[t].fresh PROVE RowInv(new, disk[a], old)
    <3>1. DeviceInv(tabs[t], disk[a], old)
      BY <1>2 DEF TabInv
    <3> QED
      BY <1>1, <1>4, <1>5, <1>8, <2>1, <3>1 DEF PastInv, DeviceInv, RowInv
  <2>2. \A q \in rows : RowInv(q, disk[q.account], old)
    BY DEF IInv, old
  <2> QED
    BY <1>1, <1>4, <2>1, <2>2 DEF old
<1>13. ASSUME NEW b \in Accounts, NEW i, Owns(b, i)' PROVE Owns(b, i)
  <2>1. Owns(a, tabs[t].identity)
    BY <1>2, <1>5 DEF Owns
  <2>2. CASE disk'[b].identity = i
    BY <1>1, <2>2 DEF Owns
  <2>3. CASE \E q \in rows' : q.account = b /\ q.identity = i
    BY <1>1, <1>4, <2>1, <2>3 DEF Owns
  <2>4. CASE \E u \in Tabs : Past(tabs'[u]) /\ Of(tabs'[u]) = b /\ tabs'[u].identity = i
    BY <1>3, <1>5, <1>6, <2>1, <2>4 DEF Owns
  <2> QED
    BY <1>13, <2>2, <2>3, <2>4 DEF Owns, Past, Of
<1>14. OwnersInv'
  BY <1>1, <1>13 DEF IInv, OwnersInv
<1>15. \A u \in Tabs : TabInv(tabs[u], disk[Of(tabs[u])], disk[Old])'
  BY <1>10 DEF TabInv, ShapeInv, CopyInv, KeyInv, DeviceInv, SavingInv, PastInv, Keyed, Past,
               Of, Complete
<1>16. /\ \A b \in Accounts : VaultInv(disk[b], disk[Old])'
       /\ \A q \in rows' : RowInv(q, disk[q.account], disk[Old])'
  BY <1>1, <1>12 DEF IInv, VaultInv, RowInv, Complete
<1> QED
  BY <1>7, <1>11, <1>14, <1>15, <1>16 DEF IInv

\* Failing, locking, signing out and dying keep the invariant.
LEMMA LeaveStep ==
  ASSUME IInv, NEW t \in Tabs, PublishFails(t) \/ LockVault(t) \/ SignOut(t) \/ Crash(t)
  PROVE  IInv'
<1>1. /\ tabs[t] \in Tab /\ TabInv(tabs[t], disk[Of(tabs[t])], disk[Old])
      /\ tabs[t].step # "idle" => tabs[t].open = Nobody /\ Of(tabs[t]) = tabs[t].account
  BY TabFacts
<1>2. trouble' \in 0 .. MaxTrouble
  BY TroubleCounted DEF IInv, TypeOK, PublishFails, LockVault, SignOut, Crash
<1>3. CASE PublishFails(t)
  <2>1. /\ tabs' = [tabs EXCEPT ![t] = Failed(tabs[t])] /\ UNCHANGED <<disk, rows>>
        /\ tabs[t].step = "publish"
    BY <1>3 DEF PublishFails
  <2> QED
    BY <1>1, <1>2, <2>1, FailedIsTab, IdleMove
<1>4. CASE LockVault(t)
  <2> DEFINE r == [Closed EXCEPT !.pending = tabs[t].open]
  <2>1. tabs' = [tabs EXCEPT ![t] = r] /\ UNCHANGED <<disk, rows>>
    BY <1>4 DEF LockVault
  <2>2. tabs[t].open \in Accounts \cup {Nobody}
    BY <1>1 DEF Tab
  <2>3. r \in Tab /\ r.step = "idle" /\ r.open = Nobody /\ r.key = 0 /\ ~r.fresh
    BY <2>2, ClosedIsTab DEF Tab
  <2> QED
    BY <1>2, <2>1, <2>3, IdleMove
<1>5. CASE tabs' = [tabs EXCEPT ![t] = Closed] /\ UNCHANGED <<disk, rows>>
  BY <1>2, <1>5, ClosedIsTab, IdleMove
<1>6. CASE SignOut(t) /\ Busy(t)
  <2> DEFINE r == [tabs[t] EXCEPT !.pending = Nobody, !.legacy = FALSE]
  <2>1. tabs' = [tabs EXCEPT ![t] = r] /\ UNCHANGED <<disk, rows>>
    BY <1>6 DEF SignOut
  <2>2. tabs[t].step # "idle"
    BY <1>6 DEF Busy
  <2>3. /\ r \in Tab /\ r.step = tabs[t].step /\ r.account = tabs[t].account
        /\ r.open = tabs[t].open /\ r.fresh = tabs[t].fresh /\ r.key = tabs[t].key
        /\ r.device = tabs[t].device /\ r.identity = tabs[t].identity
    BY <1>1 DEF Tab
  <2> HIDE DEF r
  <2>4. Of(r) = Of(tabs[t]) /\ (Past(r) <=> Past(tabs[t])) /\ (Keyed(r) <=> Keyed(tabs[t]))
    BY <2>3 DEF Of, Past, Keyed
  <2>5. TabInv(r, disk[Of(r)], disk[Old])
    <3>1. ShapeInv(r) /\ CopyInv(r, disk[Old]) /\ KeyInv(r, disk[Of(r)], disk[Old])
      BY <1>1, <2>2, <2>3, <2>4 DEF TabInv, ShapeInv, CopyInv, KeyInv
    <3>2. DeviceInv(r, disk[Of(r)], disk[Old]) /\ SavingInv(r, disk[Of(r)], disk[Old])
      BY <1>1, <2>3, <2>4 DEF TabInv, DeviceInv, SavingInv
    <3>3. PastInv(r, disk[Of(r)], disk[Old])
      BY <1>1, <2>3, <2>4 DEF TabInv, PastInv
    <3> QED
      BY <3>1, <3>2, <3>3 DEF TabInv
  <2>6. Respects(t, r)
    <3>1. r.step \in Locking => LockLeft(t, r.account)
      BY <2>3 DEF IInv, LockInv, LockLeft
    <3>2. r.step = "saving" => \A u \in Tabs : Past(tabs[u]) => Of(tabs[u]) # r.account
      BY <2>3 DEF IInv, LockInv
    <3>3. Past(r) => \A u \in Tabs : u # t /\ tabs[u].step = "saving" => tabs[u].account # Of(r)
      BY <2>4 DEF IInv, LockInv
    <3> QED
      BY <3>1, <3>2, <3>3 DEF Respects
  <2>7. Past(r) => Owns(Of(r), r.identity)
    BY <2>3, <2>4 DEF Owns
  <2> QED
    BY <1>2, <2>1, <2>2, <2>3, <2>5, <2>6, <2>7, TabMove
<1> QED
  BY <1>3, <1>4, <1>5, <1>6 DEF SignOut, Crash

\* Damage keeps the invariant.
LEMMA DamageStep ==
  ASSUME IInv, NEW n \in Names, Damage(n)
  PROVE  IInv'
<1>1. /\ disk' = [disk EXCEPT ![n] = [@ EXCEPT !.whole = FALSE]]
      /\ rows' = rows /\ tabs' = tabs /\ Troubled
  BY DEF Damage
<1>2. trouble' \in 0 .. MaxTrouble /\ disk \in [Names -> Database]
  BY <1>1, TroubleCounted DEF IInv, TypeOK
<1>3. disk' \in [Names -> Database] /\ \A m \in Names : SameBut(disk'[m], disk[m])
  <2> DEFINE d == [disk[n] EXCEPT !.whole = FALSE]
  <2>1. d \in Database /\ SameBut(d, disk[n])
    BY <1>2 DEF Database, SameBut
  <2>2. disk' = [disk EXCEPT ![n] = d]
    BY <1>1, <1>2
  <2> HIDE DEF d
  <2>3. \A m \in Names : SameBut(disk[m], disk[m])
    BY DEF SameBut
  <2> QED
    BY <1>2, <2>1, <2>2, <2>3
<1>4. TypeOK'
  BY <1>1, <1>2, <1>3 DEF IInv, TypeOK, Busy
<1>5. ASSUME NEW u \in Tabs PROVE TabInv(tabs[u], disk'[Of(tabs[u])], disk'[Old])
  <2>1. CASE Of(tabs[u]) \in Accounts
    <3>1. TabInv(tabs[u], disk[Of(tabs[u])], disk[Old])
      BY DEF IInv
    <3>2. SameBut(disk'[Of(tabs[u])], disk[Of(tabs[u])]) /\ SameBut(disk'[Old], disk[Old])
      BY <1>3, <2>1, OldIsNoAccount
    <3> QED
      BY <3>1, <3>2, WholeTab
  <2>2. CASE Of(tabs[u]) \notin Accounts
    <3>1. tabs[u] \in Tab /\ ShapeInv(tabs[u])
      BY DEF IInv, TypeOK, TabInv
    <3>2. tabs[u].step = "idle" /\ tabs[u].open = Nobody /\ ~tabs[u].fresh
      BY <2>2, <3>1 DEF ShapeInv, Of, Tab
    <3> QED
      BY <3>2, IdleTab
  <2> QED
    BY <2>1, <2>2
<1>6. ASSUME NEW a \in Accounts PROVE VaultInv(disk'[a], disk'[Old])
  <2>1. VaultInv(disk[a], disk[Old])
    BY DEF IInv
  <2>2. SameBut(disk'[a], disk[a]) /\ SameBut(disk'[Old], disk[Old])
    BY <1>3, OldIsNoAccount
  <2> QED
    BY <2>1, <2>2, WholeVault
<1>7. ASSUME NEW q \in rows PROVE RowInv(q, disk'[q.account], disk'[Old])
  <2>1. RowInv(q, disk[q.account], disk[Old]) /\ q.account \in Accounts
    BY DEF IInv, TypeOK
  <2>2. SameBut(disk'[q.account], disk[q.account]) /\ SameBut(disk'[Old], disk[Old])
    BY <1>3, <2>1, OldIsNoAccount
  <2> QED
    BY <2>1, <2>2, WholeVault
<1>8. LockInv'
  BY <1>1 DEF IInv, LockInv, Past, Of
<1>9. OwnersInv'
  <2>1. ASSUME NEW b \in Accounts, NEW i, Owns(b, i)' PROVE Owns(b, i)
    BY <1>1, <1>3, <2>1, OldIsNoAccount DEF Owns, Past, Of, SameBut
  <2>2. Complete(disk[Old])' => Complete(disk[Old])
    BY <1>3, OldIsNoAccount DEF Complete, SameBut
  <2> QED
    BY <1>3, <2>1, <2>2, OldIsNoAccount DEF IInv, OwnersInv, SameBut
<1>10. \A u \in Tabs : TabInv(tabs[u], disk[Of(tabs[u])], disk[Old])'
  BY <1>1, <1>5 DEF TabInv, ShapeInv, CopyInv, KeyInv, DeviceInv, SavingInv, PastInv, Keyed,
                    Past, Of, Complete
<1>11. /\ \A a \in Accounts : VaultInv(disk[a], disk[Old])'
       /\ \A q \in rows' : RowInv(q, disk[q.account], disk[Old])'
  BY <1>1, <1>6, <1>7 DEF VaultInv, RowInv, Complete
<1> QED
  BY <1>4, <1>8, <1>9, <1>10, <1>11 DEF IInv

-----------------------------------------------------------------------------

\* The invariant is inductive.
LEMMA NextInv == IInv /\ [Next]_vars => IInv'
<1> SUFFICES ASSUME IInv, [Next]_vars PROVE IInv'
  OBVIOUS
<1>1. ASSUME NEW t \in Tabs, SignIn(t) \/ StartFresh(t) PROVE IInv'
  BY <1>1, SignInStep
<1>2. ASSUME NEW t \in Tabs, Submit(t) PROVE IInv'
  BY <1>2, OpenOldStep, OpenVaultStep DEF Submit
<1>3. ASSUME NEW t \in Tabs, Continue(t) PROVE IInv'
  BY <1>3, CommitCopyStep, VerifyCopyStep, CreateVaultStep, ReadDeviceStep, SaveDeviceStep,
     LoadIdentityStep, SaveIdentityStep, PublishStep DEF Continue
<1>4. ASSUME NEW t \in Tabs, PublishFails(t) \/ LockVault(t) \/ SignOut(t) \/ Crash(t)
      PROVE  IInv'
  BY <1>4, LeaveStep
<1>5. ASSUME NEW n \in Names, Damage(n) PROVE IInv'
  BY <1>5, DamageStep
<1>6. CASE UNCHANGED vars
  BY <1>6 DEF vars, IInv, TypeOK, TabInv, ShapeInv, CopyInv, KeyInv, DeviceInv, SavingInv,
              PastInv, VaultInv, RowInv, LockInv, OwnersInv, Owns, Keyed, Past, Of, Complete, Busy
<1> QED
  BY <1>1, <1>2, <1>3, <1>4, <1>5, <1>6 DEF Next

\* ... and holds in every state of every behaviour.
LEMMA AlwaysIInv == Spec => []IInv
<1> QED
  BY InitInv, NextInv, PTL DEF Spec

-----------------------------------------------------------------------------
(* The theorems                                                            *)

\* Types, and no handler that ended leaves a key behind.
THEOREM VaultTypes == Spec => []TypeOK
<1>1. IInv => TypeOK
  BY DEF IInv
<1> QED
  BY <1>1, AlwaysIInv, PTL

\* Tabs in use that hold the key of their account's vault share the identity
\* stored there, whatever other tabs create, copy and open meanwhile.
THEOREM TabsShare == Spec => []OpenTabsShare
<1>1. IInv => OpenTabsShare
  <2> SUFFICES ASSUME IInv, NEW t \in Tabs, tabs[t].open # Nobody,
                      tabs[t].key = disk[tabs[t].open].salt
               PROVE  /\ disk[tabs[t].open].under = disk[tabs[t].open].salt
                      /\ tabs[t].identity = disk[tabs[t].open].identity
    BY DEF OpenTabsShare
  <2>1. PastInv(tabs[t], disk[tabs[t].open], disk[Old])
    BY DEF IInv, TabInv, Of
  <2> QED
    BY <2>1 DEF PastInv, Past
<1> QED
  BY <1>1, AlwaysIInv, PTL

\* Where an account's vault opens, the server lists no other identity than the
\* one it holds for the device it has.
THEOREM ListedIsHeld == Spec => []RegisteredIsHeld
<1>1. IInv => RegisteredIsHeld
  <2> SUFFICES ASSUME IInv, NEW r \in rows, NEW a \in Accounts, r.account = a,
                      disk[a].device = r.device, disk[a].identity # 0, OpensItself(disk[a])
               PROVE  disk[a].identity = r.identity
    BY DEF RegisteredIsHeld
  <2>1. RowInv(r, disk[a], disk[Old])
    BY DEF IInv
  <2> QED
    BY <2>1 DEF RowInv, OpensItself
<1> QED
  BY <1>1, AlwaysIInv, PTL

\* The old vault goes to the account whose device the server lists with its
\* identity, and new identities are drawn: accounts of one profile share none.
THEOREM AccountsApart == Spec => []OneAccountPerIdentity
<1>1. IInv => OneAccountPerIdentity
  <2> SUFFICES ASSUME IInv, NEW a \in Accounts, NEW b \in Accounts, a # b
               PROVE  /\ disk[a].identity # 0 => disk[a].identity # disk[b].identity
                      /\ \A r \in rows : r.account = b => r.identity # disk[a].identity
    BY DEF OneAccountPerIdentity
  <2>1. disk[a].identity \in Numbers /\ Owns(a, disk[a].identity)
    BY OldIsNoAccount DEF IInv, TypeOK, Database, Owns
  <2>2. disk[a].identity # 0 => ~Owns(b, disk[a].identity)
    BY <2>1 DEF IInv, OwnersInv
  <2>3. \A r \in rows : r.identity # 0
    BY DEF IInv, RowInv
  <2> QED
    BY <2>2, <2>3 DEF Owns
<1> QED
  BY <1>1, AlwaysIInv, PTL
=============================================================================
