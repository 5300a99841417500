------------------------------- MODULE Vault -------------------------------
(* The local vault of a browser profile: signing in, unlocking or creating *)
(* the vault of an account, copying an older vault into the account's      *)
(* namespace, and making the device's identity. Tabs share the databases;  *)
(* each runs handleVaultUnlock (App.tsx) over CryptoStore (store.ts) and   *)
(* may die between any two writes. Web Locks keep tabs apart while they    *)
(* copy (migration:...) and while they make the identity                   *)
(* (identity-bootstrap); nothing keeps apart those that create a vault.    *)
EXTENDS Naturals, FiniteSets

CONSTANTS Tabs, Accounts, Phrases,
          Old,          \* the database named after a username, of earlier builds
          Former,       \* the account the device of that database may be listed for
          Nobody,       \* no account, no passphrase
          MaxMade,      \* bound: salts, device ids or identities in use at once
          MaxTrouble    \* bound: records damaged, requests lost, tabs dying, sign-outs

ASSUME VaultAssumption ==
    /\ Former \in Accounts /\ Old \notin Accounts /\ Nobody \notin Accounts \cup Phrases
    /\ MaxMade \in Nat \ {0} /\ MaxTrouble \in Nat

VARIABLES disk,     \* the databases of the profile
          rows,     \* the devices the server lists
          tabs,
          trouble

vars == <<disk, rows, tabs, trouble>>

Names == Accounts \cup {Old}
Numbers == 0 .. MaxMade     \* 0 stands for a record that is not there

\* A vault record is its passphrase and salt. A salt belongs to one vault, so
\* it also names the key derived from both. `under` is the key the sealed
\* records are sealed with; `whole` says they still authenticate.
Database == [phrase : Phrases \cup {Nobody}, salt : Numbers, version : 1 .. 2,
             owner : Accounts \cup {Nobody}, moved : BOOLEAN,
             device : Numbers, identity : Numbers, under : Numbers, whole : BOOLEAN]

NoDatabase == [phrase |-> Nobody, salt |-> 0, version |-> 2, owner |-> Nobody,
               moved |-> FALSE, device |-> 0, identity |-> 0, under |-> 0, whole |-> TRUE]

Steps == {"idle", "copying", "verifying", "creating", "bootstrap", "device", "identity",
          "saving", "publish"}

\* `pending` has signed in and not unlocked; `open` is the account in use.
\* The other fields are handleVaultUnlock's own: the account it was called
\* for, the key of the store it holds, the device and identity it publishes.
Tab == [pending : Accounts \cup {Nobody}, legacy : BOOLEAN, open : Accounts \cup {Nobody},
        step : Steps, account : Accounts \cup {Nobody}, phrase : Phrases \cup {Nobody},
        key : Numbers, device : Numbers, identity : Numbers, fresh : BOOLEAN]

Closed == [pending |-> Nobody, legacy |-> FALSE, open |-> Nobody, step |-> "idle",
           account |-> Nobody, phrase |-> Nobody, key |-> 0, device |-> 0, identity |-> 0,
           fresh |-> FALSE]

HasVault(db) == db.salt # 0

\* verifyAllRecords, with the master key of the store.
Verified(db, key) == HasVault(db) /\ db.salt = key
                     /\ (db.identity # 0 => db.under = key /\ db.whole)
VerifiedFor(db, key, a) == Verified(db, key) /\ db.owner = a

-----------------------------------------------------------------------------
(* An older vault may be there, unfinished (without an identity) or whole, *)
(* and the server may list the device of a whole one for an account.       *)

OldVault(identity, phrase) ==
    [NoDatabase EXCEPT !.phrase = phrase, !.salt = 1, !.version = 1, !.device = 1,
                       !.identity = identity, !.under = identity]

Profile(old, listed) ==
    /\ disk = [n \in Names |-> IF n = Old THEN old ELSE NoDatabase]
    /\ rows = {[account |-> a, device |-> old.device, identity |-> old.identity] : a \in listed}

Init ==
    /\ \/ Profile(NoDatabase, {})
       \/ \E p \in Phrases : Profile(OldVault(0, p), {})
       \/ \E p \in Phrases : Profile(OldVault(1, p), {}) \/ Profile(OldVault(1, p), {Former})
    /\ tabs = [t \in Tabs |-> Closed]
    /\ trouble = 0

Troubled == trouble < MaxTrouble /\ trouble' = trouble + 1

\* What randomBytes, randomUUID and createIdentityKeyPair draw is in use
\* nowhere: the least such number will do.
Drawn(used) == {n \in Numbers \ used : n # 0 /\ \A k \in 1 .. n - 1 : k \in used}
NewSalt == Drawn({disk[n].salt : n \in Names} \cup {disk[n].under : n \in Names}
                 \cup {tabs[t].key : t \in Tabs})
NewDevice == Drawn({disk[n].device : n \in Names} \cup {r.device : r \in rows}
                   \cup {tabs[t].device : t \in Tabs})
NewIdentity == Drawn({disk[n].identity : n \in Names} \cup {r.identity : r \in rows}
                     \cup {tabs[t].identity : t \in Tabs})

Busy(t) == tabs[t].step # "idle"

\* handleVaultUnlock is called. Nothing serialises the tabs that call it.
MayUnlock(t) == ~Busy(t) /\ tabs[t].pending # Nobody

\* The handler has ended with an error; the store it had opened is closed.
Failed(tab) == [tab EXCEPT !.step = "idle", !.account = Nobody, !.phrase = Nobody,
                           !.key = 0, !.device = 0, !.identity = 0, !.fresh = FALSE]

-----------------------------------------------------------------------------
(* Signing in                                                              *)

\* prepareVault: the account's own database is looked at first.
PrepareVault(t, a) ==
    /\ ~Busy(t) /\ tabs[t].pending = Nobody /\ tabs[t].open = Nobody
    /\ tabs' = [tabs EXCEPT ![t] = [@ EXCEPT !.pending = a,
                                             !.legacy = ~HasVault(disk[a]) /\ HasVault(disk[Old])]]
    /\ UNCHANGED <<disk, rows, trouble>>

\* handleStartFreshVault
StartFresh(t) ==
    /\ tabs[t].pending # Nobody /\ tabs[t].legacy /\ ~Busy(t)
    /\ ~HasVault(disk[tabs[t].pending])
    /\ tabs' = [tabs EXCEPT ![t] = [@ EXCEPT !.legacy = FALSE]]
    /\ UNCHANGED <<disk, rows, trouble>>

-----------------------------------------------------------------------------
(* The older vault                                                         *)

MatchesAnyone(old, a) == \E r \in rows : r.device = old.device /\ r.identity = old.identity

\* The server lists the old vault's device, with its identity, for the account.
Matches(old, a) == [account |-> a, device |-> old.device, identity |-> old.identity] \in rows

\* withExclusiveLock(migration:...)
MigrationLockFree(a) ==
    \A u \in Tabs : ~(tabs[u].step \in {"copying", "verifying"} /\ tabs[u].account = a)

\* An earlier copy is used if it verifies and copied over if it does not; a
\* database that holds anything else is left alone.
NextOf(target, key, a) ==
    IF target.moved /\ VerifiedFor(target, key, a) THEN "bootstrap" ELSE "copying"
Usable(target) == target.moved \/ target = NoDatabase

\* Unlocking the old vault, up to the first write, which is to the new one.
OpenOld(t, phrase) ==
    LET a == tabs[t].pending
        source == disk[Old]
    IN /\ MayUnlock(t) /\ tabs[t].legacy
       /\ HasVault(source) /\ phrase = source.phrase
       /\ source.identity # 0 /\ source.device # 0 /\ Verified(source, source.salt)
       /\ Matches(source, a) /\ MigrationLockFree(a) /\ Usable(disk[a])
       /\ tabs' = [tabs EXCEPT ![t] = [@ EXCEPT !.step = NextOf(disk[a], source.salt, a),
                                                !.account = a, !.key = source.salt]]
       /\ UNCHANGED <<disk, rows, trouble>>

\* One transaction clears the account's stores and writes every record of the
\* old vault (as read, hence whole), the owner and the mark of the copy.
CopyUnowned(old, a) == [old EXCEPT !.version = 2, !.moved = TRUE, !.whole = TRUE]
CopyOf(old, a) == [old EXCEPT !.version = 2, !.owner = a, !.moved = TRUE, !.whole = TRUE]

CommitCopy(t) ==
    LET a == tabs[t].account
    IN /\ tabs[t].step = "copying"
       /\ disk' = [disk EXCEPT ![a] = CopyOf(disk[Old], a)]
       /\ tabs' = [tabs EXCEPT ![t] = [@ EXCEPT !.step = "verifying"]]
       /\ UNCHANGED <<rows, trouble>>

VerifyCopy(t) ==
    /\ tabs[t].step = "verifying"
    /\ tabs' = [tabs EXCEPT ![t] =
           IF VerifiedFor(disk[@.account], @.key, @.account)
           THEN [@ EXCEPT !.step = "bootstrap"] ELSE Failed(@)]
    /\ UNCHANGED <<disk, rows, trouble>>

-----------------------------------------------------------------------------
(* The account's own vault                                                 *)

\* CryptoStore.unlock of a vault that exists. It is of the present version:
\* an older one is in the old database only.
OpenVault(t, phrase) ==
    LET a == tabs[t].pending
    IN /\ MayUnlock(t) /\ ~tabs[t].legacy
       /\ HasVault(disk[a]) /\ disk[a].owner = a /\ disk[a].phrase = phrase
       /\ tabs' = [tabs EXCEPT ![t] = [@ EXCEPT !.step = "bootstrap", !.account = a,
                                                !.key = disk[a].salt]]
       /\ UNCHANGED <<disk, rows, trouble>>

\* ... and of one that does not: the database is found empty, and the
\* passphrase is stretched.
BeginVault(t, phrase) ==
    LET a == tabs[t].pending
    IN /\ MayUnlock(t) /\ ~tabs[t].legacy
       /\ disk[a] = NoDatabase
       /\ tabs' = [tabs EXCEPT ![t] = [@ EXCEPT !.step = "creating", !.account = a,
                                                !.phrase = phrase]]
       /\ UNCHANGED <<disk, rows, trouble>>

\* The vault record and its owner are written in one transaction.
CreateVault(t) ==
    LET a == tabs[t].account
    IN \E salt \in NewSalt :
       /\ tabs[t].step = "creating"
       /\ disk' = [disk EXCEPT ![a] = [@ EXCEPT !.phrase = tabs[t].phrase, !.salt = salt,
                                                !.version = 2, !.owner = a]]
       /\ tabs' = [tabs EXCEPT ![t] = [@ EXCEPT !.step = "bootstrap", !.key = salt,
                                                !.phrase = Nobody]]
       /\ UNCHANGED <<rows, trouble>>

-----------------------------------------------------------------------------
(* bootstrapIdentity, under the Web Lock identity-bootstrap: the device id *)
(* and then the identity, each read in one transaction and, if it is not   *)
(* there, written in another. A tab that creates or copies the vault does  *)
(* not hold this lock. Prekeys and their rotation are in KeyDirectory.     *)

BootstrapUnlocked(a) == TRUE
BootstrapLockFree(a) ==
    \A u \in Tabs : ~(tabs[u].step \in {"device", "identity", "saving"} /\ tabs[u].account = a)

ReadDeviceId(t) ==
    LET device == disk[tabs[t].account].device
    IN /\ tabs[t].step = "bootstrap" /\ BootstrapLockFree(tabs[t].account)
       /\ tabs' = [tabs EXCEPT ![t] = [@ EXCEPT !.device = device,
                                                !.step = IF device = 0 THEN "device"
                                                         ELSE "identity"]]
       /\ UNCHANGED <<disk, rows, trouble>>

SaveDeviceId(t) ==
    \E d \in NewDevice :
       /\ tabs[t].step = "device"
       /\ disk' = [disk EXCEPT ![tabs[t].account].device = d]
       /\ tabs' = [tabs EXCEPT ![t] = [@ EXCEPT !.step = "identity", !.device = d]]
       /\ UNCHANGED <<rows, trouble>>

\* loadIdentity finds nothing, opens the sealed key, or throws.
Opens(db, key) == db.under = key /\ db.whole

WithIdentity(tab, db, missing) ==
    IF missing THEN [tab EXCEPT !.step = "saving"]
    ELSE IF Opens(db, tab.key) THEN [tab EXCEPT !.step = "publish", !.identity = db.identity]
    ELSE Failed(tab)

LoadIdentityWhen(t, missing) ==
    /\ tabs[t].step = "identity"
    /\ tabs' = [tabs EXCEPT ![t] = WithIdentity(@, disk[@.account], missing)]
    /\ UNCHANGED <<disk, rows, trouble>>

LoadIdentityOrNone(t) ==
    LET db == disk[tabs[t].account]
    IN LoadIdentityWhen(t, db.identity = 0 \/ ~Opens(db, tabs[t].key))

LoadIdentity(t) == LoadIdentityWhen(t, disk[tabs[t].account].identity = 0)

\* The identity made for a vault that had none, sealed with the tab's key.
SaveIdentity(t) ==
    \E i \in NewIdentity :
       /\ tabs[t].step = "saving"
       /\ disk' = [disk EXCEPT ![tabs[t].account] =
                     [@ EXCEPT !.identity = i, !.under = tabs[t].key, !.whole = TRUE]]
       /\ tabs' = [tabs EXCEPT ![t] = [@ EXCEPT !.step = "publish", !.identity = i,
                                                !.fresh = TRUE]]
       /\ UNCHANGED <<rows, trouble>>

\* What the tab shows once handleVaultUnlock has ended well: the account the
\* handler was called for, whatever has happened to the tab meanwhile.
Entered(tab) == [Failed(tab) EXCEPT !.open = tab.account, !.pending = Nobody, !.legacy = FALSE,
                                    !.identity = tab.identity, !.key = tab.key]

\* publish_keys puts the identity under the device the handler read or made;
\* with nothing to publish the device's row is only looked up.
Publish(t) ==
    LET a == tabs[t].account
        device == tabs[t].device
    IN /\ tabs[t].step = "publish"
       /\ rows' = IF tabs[t].fresh
                  THEN {r \in rows : <<r.account, r.device>> # <<a, device>>}
                       \cup {[account |-> a, device |-> device, identity |-> tabs[t].identity]}
                  ELSE rows
       /\ tabs' = [tabs EXCEPT ![t] = Entered(@)]
       /\ UNCHANGED <<disk, trouble>>

PublishFails(t) ==
    /\ tabs[t].step = "publish" /\ Troubled
    /\ tabs' = [tabs EXCEPT ![t] = Failed(@)]
    /\ UNCHANGED <<disk, rows>>

-----------------------------------------------------------------------------
(* Leaving                                                                 *)

\* handleVaultLock
LockVault(t) ==
    /\ tabs[t].open # Nobody
    /\ tabs' = [tabs EXCEPT ![t] = [Closed EXCEPT !.pending = tabs[t].open]]
    /\ UNCHANGED <<disk, rows, trouble>>

\* handleSignOut clears what the tab shows. The button stays there while the
\* vault is being unlocked, and the handler that unlocks it goes on.
SignOut(t) ==
    /\ tabs[t].pending # Nobody \/ tabs[t].open # Nobody
    /\ Busy(t) => Troubled
    /\ ~Busy(t) => UNCHANGED trouble
    /\ tabs' = [tabs EXCEPT ![t] =
           IF Busy(t) THEN [@ EXCEPT !.pending = Nobody, !.legacy = FALSE] ELSE Closed]
    /\ UNCHANGED <<disk, rows>>

\* The tab dies or is reloaded.
Crash(t) ==
    /\ Busy(t) /\ Troubled
    /\ tabs' = [tabs EXCEPT ![t] = Closed]
    /\ UNCHANGED <<disk, rows>>

\* A sealed record no longer authenticates.
Damage(n) ==
    /\ disk[n].identity # 0 /\ disk[n].whole /\ Troubled
    /\ disk' = [disk EXCEPT ![n].whole = FALSE]
    /\ UNCHANGED <<rows, tabs>>

-----------------------------------------------------------------------------

\* Every step of the handler, whatever it waits for.
Continue(t) ==
    \/ CommitCopy(t) \/ VerifyCopy(t) \/ CreateVault(t) \/ ReadDeviceId(t) \/ SaveDeviceId(t)
    \/ LoadIdentity(t) \/ SaveIdentity(t) \/ Publish(t)

\* The user gives a passphrase.
Submit(t) == \E p \in Phrases : OpenOld(t, p) \/ OpenVault(t, p) \/ BeginVault(t, p)

SignIn(t) == \E a \in Accounts : PrepareVault(t, a)

Next ==
    \/ \E t \in Tabs : \/ SignIn(t) \/ StartFresh(t) \/ Submit(t) \/ Continue(t)
                       \/ PublishFails(t) \/ LockVault(t) \/ SignOut(t) \/ Crash(t)
    \/ \E n \in Names : Damage(n)

Spec == Init /\ [][Next]_vars

\* The handler goes on by itself, and Web Locks are granted in the order they
\* are asked for. The user keeps signing in and giving the
\* passphrase, starts a new vault when the old one is refused again and again,
\* and signs out of a screen on which neither is possible.
Stuck(t) == tabs[t].pending # Nobody /\ ~Busy(t) /\ ~ENABLED StartFresh(t) /\ ~ENABLED Submit(t)
LeaveStuck(t) == Stuck(t) /\ SignOut(t)

FairSpec ==
    /\ Spec
    /\ \A t \in Tabs : /\ SF_vars(Continue(t)) /\ WF_vars(SignIn(t)) /\ SF_vars(Submit(t))
                       /\ SF_vars(StartFresh(t)) /\ WF_vars(LeaveStuck(t))

-----------------------------------------------------------------------------

\* The databases, the server's rows and the tabs hold what they are meant to,
\* and a tab that neither shows an account nor is opening one holds no key.
TypeOK ==
    /\ disk \in [Names -> Database]
    /\ rows \subseteq [account : Accounts, device : Numbers, identity : Numbers]
    /\ tabs \in [Tabs -> Tab]
    /\ \A t \in Tabs : ~Busy(t) /\ tabs[t].open = Nobody => tabs[t].key = 0
    /\ trouble \in 0 .. MaxTrouble

\* What the passphrase of a vault accepts, its sealed records open with. Two tabs
\* that create one vault break this (store.ts:512-548): the later write replaces
\* the salt that the records of the other are sealed under.
OpensItself(db) == db.identity # 0 => db.under = db.salt
StillOpens == \A n \in Names : OpensItself(disk[n])

\* Tabs in use that hold the key of their account's vault share its identity, and
\* it is stored there, sealed with that key: however many tabs found the vault
\* without an identity, one was made. (A tab below which the vault was replaced
\* holds another key.)
OpenTabsShare ==
    \A t \in Tabs : tabs[t].open # Nobody =>
        LET db == disk[tabs[t].open]
        IN tabs[t].key = db.salt => db.under = db.salt /\ tabs[t].identity = db.identity

\* What the server lists for a device of this profile is the identity its vault
\* holds, as long as the vault opens: nobody encrypts to a key that is gone.
RegisteredIsHeld ==
    \A r \in rows : \A a \in Accounts :
        r.account = a /\ disk[a].device = r.device /\ disk[a].identity # 0 /\ OpensItself(disk[a])
            => disk[a].identity = r.identity

\* Accounts do not share an identity, in their vaults or on the server.
OneAccountPerIdentity ==
    \A a, b \in Accounts : a # b =>
        /\ disk[a].identity # 0 => disk[a].identity # disk[b].identity
        /\ \A r \in rows : r.account = b => r.identity # disk[a].identity

\* Every tab gets into an account again and again, whatever dies or fails on the
\* way, unless the sealed records of a vault are damaged or do not open with the
\* key of the vault record put beside them (the lock-out of two tabs that create).
Unreadable(db) == ~db.whole \/ ~OpensItself(db)
GetsIn == (\A t \in Tabs : []<>(tabs[t].open # Nobody)) \/ <>(\E n \in Names : Unreadable(disk[n]))

\* A tab opens an account only while it is signed in to it.
SignedOutStaysOut ==
    [][\A t \in Tabs : tabs[t].open = Nobody /\ tabs'[t].open # Nobody
           => tabs[t].pending = tabs'[t].open]_vars

=============================================================================
