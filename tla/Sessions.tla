------------------------------- MODULE Sessions -------------------------------
(***************************************************************************)
(* Pairwise sessions: SessionManager (frontend/src/lib/crypto/session.ts)  *)
(* over the ratchet, X3DH, the IndexedDB vault and the server's prekey     *)
(* directory.                                                              *)
(*                                                                         *)
(* Each device keeps one session per peer device.  Everything one device   *)
(* does with one peer is serialised by the vault's Web Lock, so an         *)
(* operation that persists once is one action; receiving a handshake       *)
(* persists twice (the one-time prekey is deleted, then the session is     *)
(* written) and is two, between which the tab may die.  The network keeps  *)
(* every ciphertext: any message may arrive at any time, in any order, or  *)
(* never, and again after it has been read when Redelivery holds (the live *)
(* socket and the history fetch both hand a message to decrypt).           *)
(***************************************************************************)
EXTENDS DoubleRatchet, FiniteSets

CONSTANTS
  Device,            \* the installations that talk to each other
  IdentityKey,       \* the identity key of each device
  FirstSignedPreKey, \* the signed prekey each device published first
  OneTimePreKeys,    \* the one-time prekeys each device published
  FirstFreshKey,     \* key pairs generated from here on
  Initiators,        \* the devices whose user writes without being written to
  History,           \* SIGNED_PREKEY_HISTORY
  Redelivery,        \* whether a message already handled may arrive again
  MayCrash,          \* whether a tab may die
  MaxSent,           \* bound: messages each device encrypts
  MaxRotations,      \* bound: signed prekey rotations of each device
  MaxKey             \* bound: key pairs generated in all

ASSUME KeysNumbered ==
  /\ FirstFreshKey \in Key \ {NoKey}
  /\ IdentityKey \in [Device -> Key]
  /\ FirstSignedPreKey \in [Device -> Key]
  /\ OneTimePreKeys \in [Device -> SUBSET Key]
  /\ \A d \in Device :
       \A k \in {IdentityKey[d], FirstSignedPreKey[d]} \cup OneTimePreKeys[d] :
         k # NoKey /\ k < FirstFreshKey

ASSUME OwnOneTimePreKeys ==
  \A d, e \in Device : d # e => OneTimePreKeys[d] \cap OneTimePreKeys[e] = {}

ASSUME KeysDistinct ==
  \A d, e \in Device : {IdentityKey[d], FirstSignedPreKey[d]} \cap OneTimePreKeys[e] = {}

ASSUME SessionBounds ==
  /\ Initiators \subseteq Device
  /\ History \in Nat \ {0} /\ MaxSent \in [Device -> Nat] /\ MaxRotations \in Nat
  /\ Redelivery \in BOOLEAN /\ MayCrash \in BOOLEAN
  /\ MaxKey \in Key

VARIABLES
  nextKey,        \* the next key pair to be generated
  sessions,       \* vault: ratchet state per device and peer
  signedPreKeys,  \* vault: the signed prekeys each device holds, newest last
  oneTimePreKeys, \* vault: the one-time prekeys each device holds
  rotations,      \* how often each device has rotated its signed prekey
  unpublished,    \* devices whose newest signed prekey the server lacks
  directory,      \* server: the bundle material of each device
  fetched,        \* memory: bundles claimed for sends not yet encrypted
  handshakes,     \* memory: prekey messages being answered
  net,            \* every ciphertext handed to the server
  sent,           \* how many messages each device has encrypted
  opened,         \* messages whose plaintext was returned
  reopened,       \* messages whose plaintext was returned more than once
  refused         \* messages that failed to decrypt without ever being read

vault == <<sessions, signedPreKeys, oneTimePreKeys>>
history == <<opened, reopened, refused>>
vars == <<nextKey, vault, rotations, unpublished, directory, fetched,
          handshakes, net, sent, history>>

Bundle == [owner : Device, spk : Key, opk : Key]
Message == [from : Device, to : Device, body : Nat, header : Header,
            key : ChainKey, associatedData : Key \X Key, prekey : PreKeyFields]
Handshake == [msg : Message, opk : Key]

NoSession == InitReceiver({}, <<NoKey, NoKey>>, NoKey)

Init ==
  /\ nextKey = FirstFreshKey
  /\ sessions = [d \in Device |-> [e \in Device |-> NoSession]]
  /\ signedPreKeys = [d \in Device |-> <<FirstSignedPreKey[d]>>]
  /\ oneTimePreKeys = OneTimePreKeys
  /\ rotations = [d \in Device |-> 0]
  /\ unpublished = {}
  /\ directory = [d \in Device |-> [spk |-> FirstSignedPreKey[d],
                                    opks |-> OneTimePreKeys[d]]]
  /\ fetched = [d \in Device |-> {}]
  /\ handshakes = {}
  /\ net = {}
  /\ sent = [d \in Device |-> 0]
  /\ opened = {} /\ reopened = {} /\ refused = {}

-----------------------------------------------------------------------------
(* X3DH                                                                    *)

\* The secret both sides derive; without a one-time prekey DH4 is left out.
SharedSecret(initiatorIk, ek, responderIk, spk, opk) ==
  {Dh(initiatorIk, spk), Dh(ek, responderIk), Dh(ek, spk)}
    \cup (IF opk = NoKey THEN {} ELSE {Dh(ek, opk)})

\* initiateX3DH and initSender: the session d starts with the owner of b.
Initiate(d, b, ek, dhs) ==
  InitSender(SharedSecret(IdentityKey[d], ek, IdentityKey[b.owner], b.spk, b.opk),
             <<IdentityKey[d], IdentityKey[b.owner]>>, b.spk,
             [ek |-> ek, spk |-> b.spk, opk |-> b.opk], dhs)

\* respondX3DH and initReceiver: the session d answers m with, using the
\* one-time prekey it took from its vault (NoKey when there was none).
Respond(d, m, opk) ==
  InitReceiver(SharedSecret(IdentityKey[m.from], m.prekey.ek, IdentityKey[d],
                            m.prekey.spk, opk),
               <<IdentityKey[m.from], IdentityKey[d]>>, m.prekey.spk)

-----------------------------------------------------------------------------
(* Keys of one device                                                      *)

\* Faulty variant: only the newest signed prekey is kept.
RotateKeepingNewest(d) ==
  /\ rotations[d] < MaxRotations /\ nextKey < MaxKey
  /\ rotations' = [rotations EXCEPT ![d] = @ + 1]
  /\ signedPreKeys' = [signedPreKeys EXCEPT ![d] = <<nextKey>>]
  /\ nextKey' = nextKey + 1
  /\ unpublished' = unpublished \cup {d}
  /\ UNCHANGED <<sessions, oneTimePreKeys, directory, fetched, handshakes,
                 net, sent, history>>

\* bootstrapIdentity finding the newest signed prekey stale: a new one is
\* saved and all but the newest History are dropped.
RotateSignedPreKey(d) ==
  LET held == Append(signedPreKeys[d], nextKey)
  IN  /\ rotations[d] < MaxRotations /\ nextKey < MaxKey
      /\ rotations' = [rotations EXCEPT ![d] = @ + 1]
      /\ signedPreKeys' = [signedPreKeys EXCEPT ![d] =
           IF Len(held) > History THEN Tail(held) ELSE held]
      /\ nextKey' = nextKey + 1
      /\ unpublished' = unpublished \cup {d}
      /\ UNCHANGED <<sessions, oneTimePreKeys, directory, fetched, handshakes,
                     net, sent, history>>

\* The publish request that carries the rotated prekey reaches the server.
PublishSignedPreKey(d) ==
  /\ d \in unpublished
  /\ unpublished' = unpublished \ {d}
  /\ directory' = [directory EXCEPT ![d].spk = signedPreKeys[d][Len(signedPreKeys[d])]]
  /\ UNCHANGED <<nextKey, vault, rotations, fetched, handshakes, net, sent, history>>

-----------------------------------------------------------------------------
(* The vault, as sessions use it                                           *)

\* loadSession returns one rather than null.
HasSession(d, e) == sessions[d][e] # NoSession

\* saveSession: s replaces what d has stored for its session with e.
Saved(d, e, s) == [sessions EXCEPT ![d][e] = s]

\* takeOneTimePreKey: the one-time prekey named k, unless it is gone.
TakenPreKey(d, k) == IF k \in oneTimePreKeys[d] THEN k ELSE NoKey

-----------------------------------------------------------------------------
(* Sending                                                                 *)

\* The one-time prekey the server takes from a pool: the oldest, if any.
Claimed(pool) ==
  IF pool = {} THEN NoKey ELSE CHOOSE k \in pool : \A j \in pool : k <= j

\* claim_prekey_bundles: what the server answers with for the device e.
BundleOf(e) ==
  [owner |-> e, spk |-> directory[e].spk, opk |-> Claimed(directory[e].opks)]

\* encryptForUser asks the server for the bundle of e, which takes a one-time
\* prekey off the pool whether or not it will be used.
FetchBundle(d, e) ==
  LET bundle == BundleOf(e)
  IN  /\ d # e
      /\ Cardinality(fetched[d]) + sent[d] < MaxSent[d]
      /\ directory' = [directory EXCEPT ![e].opks = @ \ {bundle.opk}]
      /\ fetched' = [fetched EXCEPT ![d] = @ \cup {bundle}]
      /\ UNCHANGED <<nextKey, vault, rotations, unpublished, handshakes, net,
                     sent, history>>

\* Another task holds the lock on the ratchet of d with e.
Locked(d, e) == \E h \in handshakes : h.msg.to = d /\ h.msg.from = e

\* loadOrCreateOutbound: the session stored for the owner of b, or one built
\* from b with two fresh key pairs.
Outbound(d, b) ==
  IF HasSession(d, b.owner) THEN sessions[d][b.owner]
                            ELSE Initiate(d, b, nextKey, nextKey + 1)

\* encryptTo: the advanced state is saved before the ciphertext leaves.
EncryptTo(d, b) ==
  LET e == b.owner
      known == HasSession(d, e)
      s == Outbound(d, b)
      wire == Seal(s)
      m == [from |-> d, to |-> e, body |-> sent[d], header |-> wire.header,
            key |-> wire.key, associatedData |-> wire.associatedData,
            prekey |-> wire.prekey]
  IN  /\ sent[d] < MaxSent[d] /\ nextKey < MaxKey
      /\ ~Locked(d, e)
      /\ known \/ d \in Initiators
      /\ CanEncrypt(s)
      /\ fetched' = [fetched EXCEPT ![d] = @ \ {b}]
      /\ sessions' = Saved(d, e, AfterEncrypt(s))
      /\ nextKey' = IF known THEN nextKey ELSE nextKey + 2
      /\ net' = net \cup {m}
      /\ sent' = [sent EXCEPT ![d] = @ + 1]
      /\ UNCHANGED <<signedPreKeys, oneTimePreKeys, rotations, unpublished,
                     directory, handshakes, history>>

-----------------------------------------------------------------------------
(* Receiving                                                               *)

Arrives(d, m) ==
  /\ m.to = d
  /\ ~Locked(d, m.from)
  /\ Redelivery \/ m \notin opened \cup refused

\* advance: the state is saved, then the plaintext is handed back.
Advance(d, m, s) ==
  /\ nextKey < MaxKey
  /\ sessions' = Saved(d, m.from, AfterDecrypt(s, m, nextKey))
  /\ nextKey' = IF AfterDecrypt(s, m, nextKey).dhs = nextKey THEN nextKey + 1
                                                              ELSE nextKey
  /\ opened' = opened \cup {m}
  /\ reopened' = IF m \in opened THEN reopened \cup {m} ELSE reopened
  /\ UNCHANGED refused

\* DecryptionFailure: no session is written.
Fail(m) ==
  /\ refused' = IF m \in opened THEN refused ELSE refused \cup {m}
  /\ UNCHANGED <<sessions, nextKey, opened, reopened>>

Readable(d, m) ==
  /\ HasSession(d, m.from)
  /\ CanDecrypt(sessions[d][m.from], m, nextKey)

\* decrypt, for a message the stored session authenticates.
ReceiveOnSession(d, m) ==
  /\ Arrives(d, m)
  /\ Readable(d, m)
  /\ Advance(d, m, sessions[d][m.from])
  /\ UNCHANGED <<signedPreKeys, oneTimePreKeys, rotations, unpublished,
                 directory, fetched, handshakes, net, sent>>

\* A message without X3DH fields has only the stored session to go by.
RefuseMessage(d, m) ==
  /\ Arrives(d, m)
  /\ m.prekey = NoPreKey
  /\ ~Readable(d, m)
  /\ Fail(m)
  /\ UNCHANGED <<signedPreKeys, oneTimePreKeys, rotations, unpublished,
                 directory, fetched, handshakes, net, sent>>

Holds(d, spk) == \E i \in DOMAIN signedPreKeys[d] : signedPreKeys[d][i] = spk

\* Faulty variant: the one-time prekey is read but not deleted.
BeginHandshakeKeepingPreKey(d, m) ==
  /\ Arrives(d, m)
  /\ m.prekey # NoPreKey
  /\ ~Readable(d, m)
  /\ Holds(d, m.prekey.spk)
  /\ handshakes' = handshakes \cup {[msg |-> m, opk |-> TakenPreKey(d, m.prekey.opk)]}
  /\ UNCHANGED <<nextKey, vault, rotations, unpublished, directory, fetched,
                 net, sent, history>>

\* decryptPreKeyMessage when the session does not help, or there is none:
\* takeOneTimePreKey deletes the prekey the handshake names, if still held.
BeginHandshake(d, m) ==
  /\ Arrives(d, m)
  /\ m.prekey # NoPreKey
  /\ ~Readable(d, m)
  /\ Holds(d, m.prekey.spk)
  /\ handshakes' = handshakes \cup {[msg |-> m, opk |-> TakenPreKey(d, m.prekey.opk)]}
  /\ oneTimePreKeys' = [oneTimePreKeys EXCEPT ![d] = @ \ {m.prekey.opk}]
  /\ UNCHANGED <<nextKey, sessions, signedPreKeys, rotations, unpublished,
                 directory, fetched, net, sent, history>>

\* The handshake names a signed prekey this device no longer holds.
RefuseHandshake(d, m) ==
  /\ Arrives(d, m)
  /\ m.prekey # NoPreKey
  /\ ~Readable(d, m)
  /\ ~Holds(d, m.prekey.spk)
  /\ Fail(m)
  /\ UNCHANGED <<signedPreKeys, oneTimePreKeys, rotations, unpublished,
                 directory, fetched, handshakes, net, sent>>

\* The rest of decryptPreKeyMessage: a fresh responder session replaces
\* whatever was stored, provided it opens the message.
FinishHandshake(h) ==
  LET d == h.msg.to
      s == Respond(d, h.msg, h.opk)
  IN  /\ handshakes' = handshakes \ {h}
      /\ \/ CanDecrypt(s, h.msg, nextKey) /\ Advance(d, h.msg, s)
         \/ ~CanDecrypt(s, h.msg, nextKey) /\ Fail(h.msg)
      /\ UNCHANGED <<signedPreKeys, oneTimePreKeys, rotations, unpublished,
                     directory, fetched, net, sent>>

\* The tab of d that is answering a handshake, or about to publish, dies. A
\* bundle that is lost with a tab is one that is never used.
Crash(d) ==
  /\ MayCrash
  /\ handshakes' = {h \in handshakes : h.msg.to # d}
  /\ unpublished' = unpublished \ {d}
  /\ UNCHANGED <<nextKey, vault, rotations, directory, fetched, net, sent, history>>

Receive(d, m) ==
  \/ ReceiveOnSession(d, m)
  \/ RefuseMessage(d, m)
  \/ BeginHandshake(d, m)
  \/ RefuseHandshake(d, m)

Next ==
  \/ \E d \in Device : RotateSignedPreKey(d) \/ PublishSignedPreKey(d) \/ Crash(d)
  \/ \E d, e \in Device : FetchBundle(d, e)
  \/ \E d \in Device : \E b \in fetched[d] : EncryptTo(d, b)
  \/ \E m \in net : Receive(m.to, m)
  \/ \E h \in handshakes : FinishHandshake(h)

Spec == Init /\ [][Next]_vars

\* Delivery goes on: a stored message the device has not handled yet reaches it,
\* by the live socket or by the next history fetch, and the handler it starts
\* runs to its end.
Deliver(d) == \E m \in net \ (opened \cup refused) : Receive(d, m)
Answer(d) == \E h \in handshakes : h.msg.to = d /\ FinishHandshake(h)

FairSpec ==
  Spec /\ \A d \in Device : WF_vars(Deliver(d)) /\ WF_vars(Answer(d))

-----------------------------------------------------------------------------
(* Properties                                                              *)

\* Every variable stays within its type, and no vault retains more skipped
\* message keys than it may.
TypeOK ==
  /\ nextKey \in Key
  /\ sessions \in [Device -> [Device -> RatchetState]]
  /\ \A d, e \in Device : Len(sessions[d][e].skipped) <= MaxSkippedKeys
  /\ signedPreKeys \in [Device -> Seq(Key) \ {<<>>}]
  /\ oneTimePreKeys \in [Device -> SUBSET Key]
  /\ rotations \in [Device -> 0..MaxRotations]
  /\ unpublished \subseteq Device
  /\ directory \in [Device -> [spk : Key, opks : SUBSET Key]]
  /\ fetched \in [Device -> SUBSET Bundle]
  /\ handshakes \subseteq Handshake
  /\ net \subseteq Message
  /\ sent \in [Device -> Nat] /\ \A d \in Device : sent[d] <= MaxSent[d]
  /\ opened \subseteq net /\ reopened \subseteq opened /\ refused \subseteq net
  /\ \A h \in handshakes : h.msg \in net

\* docs/CRYPTO.md: "each message key is used for exactly one message".  The IV
\* is derived from the key, so a second use would repeat a nonce.  No two
\* ciphertexts, of either device, are sealed under one key, whatever is
\* replayed, replaced or lost in between.
MessageKeysUnique ==
  \A m1, m2 \in net : m1.key = m2.key => m1 = m2

\* "Consume the key so the same message cannot be replayed" (tryDecryptSkipped):
\* however often the server hands a message over, its plaintext is returned at
\* most once.
OpenedOnce == reopened = {}

\* Why keys do not repeat.  Every sending chain was started under a ratchet key
\* generated after the key it was mixed with, so the larger key of its last turn
\* is its own (SendingChains, MessageChains); no two sessions send under one
\* ratchet key (SendersDiffer); under one ratchet key the counter only grows
\* (CountersAhead), so a header never comes twice (HeadersUnique).
Sending(d, e) == sessions[d][e].cks # NoChain

PreKeysExist ==
  \A d \in Device :
    /\ \A i \in DOMAIN signedPreKeys[d] : signedPreKeys[d][i] < nextKey
    /\ directory[d].spk < nextKey
    /\ \A b \in fetched[d] : b.spk < nextKey

SendingChain(s, limit) ==
  s.cks # NoChain =>
    /\ s.cks.step = s.ns
    /\ LastTurn(s.cks) = Dh(s.dhs, s.dhr)
    /\ s.dhr < s.dhs /\ s.dhs < limit

SendingChains == \A d, e \in Device : SendingChain(sessions[d][e], nextKey)

SendersDiffer ==
  \A d, e, f, g \in Device :
    Sending(d, e) /\ Sending(f, g) /\ sessions[d][e].dhs = sessions[f][g].dhs
      => d = f /\ e = g

MessageChain(m, limit) ==
  /\ m.key.step = m.header.n
  /\ m.header.dh < limit
  /\ \E peer \in 0..(m.header.dh - 1) : LastTurn(m.key) = Dh(m.header.dh, peer)

MessageChains == \A m \in net : MessageChain(m, nextKey)

CountersAhead ==
  \A d, e \in Device : \A m \in net :
    Sending(d, e) /\ sessions[d][e].dhs = m.header.dh
      => m.header.n < sessions[d][e].ns

HeadersUnique ==
  \A m1, m2 \in net :
    m1.header.dh = m2.header.dh /\ m1.header.n = m2.header.n => m1 = m2

\* The accounting of ratchet keys: each sending chain belongs to one session of
\* one device and runs ahead of every message sealed under it.
KeyInv ==
  /\ PreKeysExist /\ SendingChains /\ SendersDiffer
  /\ MessageChains /\ CountersAhead /\ HeadersUnique

Derivable(s, messageKey) ==
  \/ \E i \in DOMAIN s.skipped : s.skipped[i].key = messageKey
  \/ \E ck \in {s.ckr, s.cks} :
       ck.root = messageKey.root /\ ck.step <= messageKey.step

\* Forward secrecy: what a vault holds no longer yields the key of a message
\* its device has read, nor of one it has sent.
ForwardSecrecy ==
  /\ \A m \in opened : ~Derivable(sessions[m.to][m.from], m.key)
  /\ \A m \in net : ~Derivable(sessions[m.from][m.to], m.key)

\* Why nothing is read twice.  The server hands out every one-time prekey once
\* while its pools last (PoolLasts), so two handshakes never agree on one secret:
\* the one-time prekey in the secret of a session, or of a message read, is no
\* longer held (PreKeysUsedUp).  Within one secret a session reads no key twice,
\* because it has used up the keys of all it has read (ReadKeysUsedUp).
PoolLasts == \A d \in Device : \A b \in fetched[d] : b.opk # NoKey

PoolKeys == UNION {OneTimePreKeys[d] : d \in Device}

KeysApart ==
  /\ FirstFreshKey <= nextKey
  /\ \A d \in Device :
       /\ \A i \in DOMAIN signedPreKeys[d] : signedPreKeys[d][i] \notin PoolKeys
       /\ directory[d].spk \notin PoolKeys
       /\ directory[d].opks \subseteq OneTimePreKeys[d]
       /\ oneTimePreKeys[d] \subseteq OneTimePreKeys[d]
       /\ \A b \in fetched[d] :
            /\ b.owner # d /\ b.spk \notin PoolKeys
            /\ b.opk \in OneTimePreKeys[b.owner] \cup {NoKey}

\* The X3DH fields d shows e are those the secret was derived from.
Introduces(d, e, fields, secret) ==
  fields # NoPreKey =>
    /\ fields.ek \notin PoolKeys /\ fields.spk \notin PoolKeys
    /\ fields.opk \in OneTimePreKeys[e]
    /\ secret = SharedSecret(IdentityKey[d], fields.ek, IdentityKey[e], fields.spk,
                             fields.opk)

SessionSecret(d, e, s) ==
  /\ Introduces(d, e, s.pendingPreKey, s.rk.secret)
  /\ s.cks # NoChain => s.cks.root.secret = s.rk.secret /\ s.cks.root.turns # <<>>

MessageSecret(m) ==
  /\ m.from # m.to /\ m.key.root.turns # <<>>
  /\ Introduces(m.from, m.to, m.prekey, m.key.root.secret)

SecretsNamed ==
  /\ \A d, e \in Device : SessionSecret(d, e, sessions[d][e])
  /\ \A m \in net : MessageSecret(m)

HandshakesApart ==
  \A h \in handshakes :
    /\ h.msg.prekey # NoPreKey
    /\ h.opk # NoKey =>
         /\ h.opk \in OneTimePreKeys[h.msg.to] \ oneTimePreKeys[h.msg.to]
         /\ \A g \in handshakes : g.opk = h.opk => g = h

Mentions(secret, k) == \E out \in secret : k \in out

\* Nothing d does from now on derives a secret from its one-time prekey k.
UsedUp(d, k) ==
  k \notin oneTimePreKeys[d] /\ \A h \in handshakes : h.msg.to = d => h.opk # k

PreKeysUsedUp ==
  /\ \A d, e \in Device : \A k \in OneTimePreKeys[d] :
       Mentions(sessions[d][e].rk.secret, k) => UsedUp(d, k)
  /\ \A m \in opened : \A k \in OneTimePreKeys[m.to] :
       Mentions(m.key.root.secret, k) => UsedUp(m.to, k)

\* A ratchet key belongs to one sender.
SendersNamed ==
  /\ \A m1, m2 \in net : m1.header.dh = m2.header.dh => m1.from = m2.from
  /\ \A d, e \in Device : \A m \in net :
       Sending(d, e) /\ sessions[d][e].dhs = m.header.dh => m.from = d

ReadFrom(d, e) == {m \in opened : m.to = d /\ m.from = e}
ReadKeys(d, e) == {m.key : m \in ReadFrom(d, e)}

ReadKeysUsedUp ==
  \A d, e \in Device :
    /\ Exhausts(sessions[d][e], ReadKeys(d, e))
    /\ ReadKeys(d, e) # {} => sessions[d][e].ckr # NoChain

ReadInv ==
  /\ KeysApart /\ SecretsNamed /\ HandshakesApart /\ PreKeysUsedUp
  /\ SendersNamed /\ ReadKeysUsedUp /\ OpenedOnce

\* What the vault of a device holds opens the message, by the session it has or
\* by a handshake it can still answer.
ReadableFromVault(d, m) ==
  \/ Readable(d, m)
  \/ /\ m.prekey # NoPreKey
     /\ Holds(d, m.prekey.spk)
     /\ CanDecrypt(Respond(d, m, TakenPreKey(d, m.prekey.opk)), m, nextKey)

\* "replaying the message against the *old* state still works" (ratchetDecrypt):
\* whatever a device has not read, and is not busy reading, its vault can read.
UnreadReadable ==
  \A m \in net \ opened : Locked(m.to, m.from) \/ ReadableFromVault(m.to, m)

\* docs/CRYPTO.md: "A prekey message repeats the X3DH fields on every send until
\* the peer replies."  A device none of whose prekey messages the peer has read
\* sends that peer no message without the fields.
FieldsUntilReply ==
  \A m \in net :
    (m.prekey = NoPreKey
       /\ \E p \in net : p.from = m.from /\ p.to = m.to /\ p.prekey # NoPreKey)
      => \E p \in opened : p.from = m.from /\ p.to = m.to /\ p.prekey # NoPreKey

\* Why the fields stay, where only one device writes to the others first: a device
\* that does not has nothing to answer with, and sends nothing, until it has read
\* a prekey message; so nothing clears the fields of the other before.
OneStarts == \A d, e \in Initiators : d = e

Answered(d, e) == \E p \in opened : p.from = d /\ p.to = e /\ p.prekey # NoPreKey

FieldsShown ==
  /\ nextKey # NoKey
  /\ \A d \in Device : \A b \in fetched[d] : b.owner # d
  /\ \A m \in net : m.from # m.to /\ (m.prekey # NoPreKey => m.from \in Initiators)
  /\ \A h \in handshakes : h.msg.prekey # NoPreKey
  /\ \A d \in Device \ Initiators, e \in Device :
       sessions[d][e].pendingPreKey = NoPreKey

FieldsKept ==
  \A d \in Device, e \in Device \ Initiators :
    ~Answered(d, e) =>
      /\ sessions[e][d] = NoSession
      /\ HasSession(d, e) => sessions[d][e].pendingPreKey # NoPreKey
      /\ \A m \in net : /\ m.from = d /\ m.to = e => m.prekey # NoPreKey
                        /\ ~(m.from = e /\ m.to = d)

FieldsInv == FieldsShown /\ FieldsKept

\* Why what is unread stays readable, where no tab dies, no chain is run ahead
\* further than it may, no skipped key evicted and no signed prekey dropped.
Lossless ==
  /\ ~MayCrash /\ MaxRotations < History
  /\ \A d \in Device : MaxSent[d] <= MaxSkip + 1 /\ MaxSent[d] <= MaxSkippedKeys + 1

Between(d, e) == {m \in net : m.from = d /\ m.to = e}

\* What e answers the prekey messages of d with.
Responder(d, e) ==
  LET fields == sessions[d][e].pendingPreKey
  IN  InitReceiver(SharedSecret(IdentityKey[d], fields.ek, IdentityKey[e], fields.spk,
                                fields.opk),
                   <<IdentityKey[d], IdentityKey[e]>>, fields.spk)

\* The session e has with d, or the one it will have.
Other(d, e) == IF HasSession(e, d) THEN sessions[e][d] ELSE Responder(d, e)

\* The handshakes in which e is answering d.
Answers(d, e) == {h \in handshakes : h.msg.from = d /\ h.msg.to = e}

\* Until e has answered, all d sends shows the fields of one handshake, and e
\* holds the prekeys it names, or is using the one-time prekey.
Answerable(d, e) ==
  LET fields == sessions[d][e].pendingPreKey
  IN  /\ Holds(e, fields.spk)
      /\ \A h \in Answers(d, e) : h.opk = fields.opk
      /\ Answers(d, e) # {} \/ fields.opk \in oneTimePreKeys[e]

Unanswered(d, e) ==
  /\ Between(e, d) = {} /\ Between(d, e) \cap opened = {}
  /\ \A m \in Between(d, e) : m.prekey = sessions[d][e].pendingPreKey
  /\ Answerable(d, e)

\* Everything about d, which wrote first, and e is bound to their identity keys.
Bound(d, e) ==
  LET ad == <<IdentityKey[d], IdentityKey[e]>>
  IN  /\ sessions[d][e].associatedData = ad /\ Other(d, e).associatedData = ad
      /\ \A m \in Between(d, e) \cup Between(e, d) : m.associatedData = ad

Conversation(d, e) ==
  /\ ~HasSession(d, e) => Between(d, e) = {} /\ Between(e, d) = {} /\ ~HasSession(e, d)
  /\ HasSession(d, e) =>
       /\ Bound(d, e)
       /\ InStep(sessions[d][e], Other(d, e), Between(d, e), Between(e, d), net \ opened,
                 sent[d], sent[e])
       /\ IF HasSession(e, d) THEN \A h \in Answers(d, e) : h.msg \in opened
                              ELSE Unanswered(d, e)

Conversations == \A d \in Initiators, e \in Device \ Initiators : Conversation(d, e)

\* A one-time prekey the server still hands out, or has handed out in a bundle not
\* used yet, is in the vault and in no handshake; so is the signed prekey.
PreKeysReady ==
  /\ \A d \in Device :
       /\ Len(signedPreKeys[d]) <= rotations[d] + 1
       /\ Holds(d, directory[d].spk)
       /\ directory[d].opks \subseteq oneTimePreKeys[d]
       /\ \A b \in fetched[d] :
            /\ Holds(b.owner, b.spk)
            /\ b.opk \in oneTimePreKeys[b.owner] \ directory[b.owner].opks
  /\ \A d, e \in Device : \A b \in fetched[d], c \in fetched[e] :
       b.opk = c.opk => d = e /\ b = c

Spent(e, k) == k \notin directory[e].opks /\ \A d \in Device : \A b \in fetched[d] : b.opk # k

FieldsSpent ==
  /\ \A m \in net : m.prekey # NoPreKey => Spent(m.to, m.prekey.opk)
  /\ \A d, e \in Device :
       sessions[d][e].pendingPreKey # NoPreKey => Spent(e, sessions[d][e].pendingPreKey.opk)

ReadableInv == Conversations /\ PreKeysReady /\ FieldsSpent

\* A message is written when its ciphertext leaves, and read when decrypt returns
\* its plaintext.
Channel == INSTANCE SecureChannel WITH
  written <- net,
  read <- (opened \X {1}) \cup (reopened \X {2})

\* session.ts: the sessions implement the channel.  Nothing is read that was not
\* written, nothing is read twice, and in the end everything written is read.
ChannelImplemented == Channel!Spec
=============================================================================
