-------------------------------- MODULE Groups --------------------------------
(***************************************************************************)
(* One group: GroupSessionManager (frontend/src/lib/crypto/groups.ts) with *)
(* the sending and receiving ends of App.tsx, the relay of sender keys     *)
(* (backend/app/api/ws.py) and the membership kept by the server           *)
(* (backend/app/services/chat_admin.py).                                   *)
(*                                                                         *)
(* A device encrypts under a chain of its own and hands that chain, once,  *)
(* to every device of every member, over the pairwise sessions.  Those are *)
(* taken at what Sessions shows of them: a distribution is read at most    *)
(* once, in any order, or never.  The group message itself is stored by    *)
(* the server and may be handed to a device any number of times.  What a   *)
(* device does with the group is serialised by the vault's Web Lock and    *)
(* persists once, so each operation is one action; what encrypt returns is *)
(* in the tab's memory until it has been sent.                             *)
(***************************************************************************)
EXTENDS SenderKey

CONSTANTS
  Device,       \* the installations
  Account,      \* the users
  AccountOf,    \* the user each device belongs to
  Founders,     \* the accounts the group was created with
  Membership,   \* whether accounts are added and removed
  MayRotate,    \* whether devices rotate and forget chains
  MayLose,      \* whether tabs die and distributions are lost
  MaxChains,    \* bound: chains created in all
  MaxMade       \* bound: messages each device encrypts, a function

ASSUME GroupConstants ==
  /\ AccountOf \in [Device -> Account]
  /\ Founders \subseteq Account
  /\ Membership \in BOOLEAN /\ MayRotate \in BOOLEAN /\ MayLose \in BOOLEAN
  /\ MaxChains \in Nat /\ MaxMade \in [Device -> Nat]

VARIABLES
  chains,       \* vault: the sender key each device holds of each account
  keysOut,      \* memory: distributions encrypted and not yet sent
  messagesOut,  \* memory: messages encrypted and not yet sent
  roster,       \* memory: the members each device believes the group has
  members,      \* server: the members of the group
  stored,       \* server: the messages of the group
  relayed,      \* distributions on their way to a device
  made,         \* how many messages each device has encrypted
  nextChain,    \* the next chain to be created
  audience,     \* history: the members a chain was created for
  given,        \* history: <<d, c>>, device d was handed chain c
  read,         \* history: <<m, d>>, device d has read m
  reread        \* history: <<m, d>>, device d has read m more than once

sending == <<keysOut, messagesOut>>
server == <<members, stored>>
naming == <<nextChain, audience, made>>
vars == <<chains, sending, roster, server, relayed, naming, given, read, reread>>

Distribution == [from : Device, to : Device, chain : Nat, iteration : Nat]
GroupMessage == [from : Device, chain : Nat, iteration : Nat, body : Nat]

Own(d) == chains[d][AccountOf[d]]

\* saveSenderKey: s replaces the chain d holds of the account a.
Saved(d, a, s) == [chains EXCEPT ![d][a] = s]

Others(d, accounts) == {e \in Device : AccountOf[e] \in accounts \ {AccountOf[d]}}

Init ==
  /\ chains = [d \in Device |-> [a \in Account |-> NoSenderKey]]
  /\ keysOut = {} /\ messagesOut = {}
  /\ roster = [d \in Device |-> Founders]
  /\ members = Founders
  /\ stored = {} /\ relayed = {}
  /\ made = [d \in Device |-> 0]
  /\ nextChain = 1
  /\ audience = [c \in 1..MaxChains |-> {}]
  /\ given = {} /\ read = {} /\ reread = {}

-----------------------------------------------------------------------------
(* Sending                                                                 *)

\* buildDistributions: one for each device of every member but oneself.
Distributions(d, s) ==
  {[from |-> d, to |-> e, chain |-> BuildDistribution(s).chain,
    iteration |-> BuildDistribution(s).iteration] : e \in Others(d, roster[d])}

\* A chain is created for the members the device believes there are.
Hand(d, s) ==
  /\ nextChain <= MaxChains
  /\ nextChain' = nextChain + 1
  /\ audience' = [audience EXCEPT ![s.chain] = roster[d]]
  /\ keysOut' = keysOut \cup Distributions(d, s)

\* encrypt: the first message creates the chain; the advanced chain is saved
\* before the message and the distributions are handed to the caller.
Encrypt(d) ==
  LET held == Own(d)
      s == IF held = NoSenderKey THEN CreateSenderKey(nextChain) ELSE held
  IN  /\ made[d] < MaxMade[d]
      /\ AccountOf[d] \in roster[d]
      /\ CanSend(s)
      /\ IF held = NoSenderKey THEN Hand(d, s)
                               ELSE UNCHANGED <<nextChain, audience, keysOut>>
      /\ chains' = Saved(d, AccountOf[d], AfterSend(s))
      /\ messagesOut' = messagesOut \cup
           {[from |-> d, chain |-> s.chain, iteration |-> s.iteration, body |-> made[d]]}
      /\ made' = [made EXCEPT ![d] = @ + 1]
      /\ UNCHANGED <<roster, server, relayed, given, read, reread>>

\* Faulty variant: the chain in use is handed out again instead of a new one.
RotateSameChain(d) ==
  /\ MayRotate
  /\ nextChain <= MaxChains
  /\ AccountOf[d] \in roster[d]
  /\ Own(d) # NoSenderKey
  /\ nextChain' = nextChain + 1
  /\ audience' = [audience EXCEPT ![Own(d).chain] = roster[d]]
  /\ keysOut' = keysOut \cup Distributions(d, Own(d))
  /\ UNCHANGED <<chains, messagesOut, roster, server, relayed, made, given, read, reread>>

\* rotate: a new chain replaces one's own, and is handed out.
Rotate(d) ==
  LET s == CreateSenderKey(nextChain)
  IN  /\ MayRotate
      /\ AccountOf[d] \in roster[d]
      /\ Hand(d, s)
      /\ chains' = Saved(d, AccountOf[d], s)
      /\ UNCHANGED <<messagesOut, roster, server, relayed, made, given, read, reread>>

\* clearSenderKeys drops every chain d has of the group, its own included.
NoChains(d) == [chains EXCEPT ![d] = [a \in Account |-> NoSenderKey]]

\* forget.
Forget(d) ==
  /\ MayRotate
  /\ chains' = NoChains(d)
  /\ UNCHANGED <<sending, roster, server, relayed, naming, given, read, reread>>

\* The app sends one distribution and the server relays it, provided both ends
\* are members.
Relay(x) ==
  /\ x \in keysOut
  /\ keysOut' = keysOut \ {x}
  /\ relayed' = IF {AccountOf[x.from], AccountOf[x.to]} \subseteq members
                THEN relayed \cup {x} ELSE relayed
  /\ UNCHANGED <<chains, messagesOut, roster, server, naming, given, read, reread>>

\* The app sends the message after the distributions that came with it, on one
\* socket; the server stores it for the group if the sender is a member.
Post(m) ==
  /\ m \in messagesOut
  /\ ~ \E x \in keysOut : x.from = m.from /\ x.chain = m.chain
  /\ messagesOut' = messagesOut \ {m}
  /\ stored' = IF AccountOf[m.from] \in members THEN stored \cup {m} ELSE stored
  /\ UNCHANGED <<chains, keysOut, roster, members, relayed, naming, given, read, reread>>

\* A distribution goes to a closed socket, on either side of the server, or is
\* one the pairwise session could not encrypt or cannot read.
Lose(x) ==
  /\ MayLose
  /\ keysOut' = keysOut \ {x}
  /\ relayed' = relayed \ {x}
  /\ UNCHANGED <<chains, messagesOut, roster, server, naming, given, read, reread>>

\* A tab dies, or its socket is closed when it sends: what was only in its
\* memory is gone, and a new tab fetches the chats.
Crash(d) ==
  /\ MayLose
  /\ keysOut' = {x \in keysOut : x.from # d}
  /\ messagesOut' = {m \in messagesOut : m.from # d}
  /\ roster' = [roster EXCEPT ![d] = members]
  /\ UNCHANGED <<chains, server, relayed, naming, given, read, reread>>

-----------------------------------------------------------------------------
(* Receiving                                                               *)

\* acceptDistribution: the chain is stored under the account it belongs to,
\* whatever was stored there.  One's own account is never replaced.
Accepted(x) ==
  IF AccountOf[x.from] = AccountOf[x.to] THEN chains
  ELSE Saved(x.to, AccountOf[x.from], AcceptedKey(x))

\* acceptSenderKey: a distribution that opens reaches the group manager.
Accept(x) ==
  /\ x \in relayed
  /\ relayed' = relayed \ {x}
  /\ chains' = Accepted(x)
  /\ given' = given \cup {<<x.to, x.chain>>}
  /\ UNCHANGED <<sending, roster, server, naming, read, reread>>

\* decrypt, for a message the chain held of its sender opens.  Otherwise it
\* throws and nothing changes.
Read(d, m) ==
  LET sender == AccountOf[m.from]
  IN  /\ AccountOf[d] \in members \ {sender}
      /\ CanOpen(chains[d][sender], m)
      /\ chains' = Saved(d, sender, AfterOpen(chains[d][sender], m))
      /\ read' = read \cup {<<m, d>>}
      /\ reread' = IF <<m, d>> \in read THEN reread \cup {<<m, d>>} ELSE reread
      /\ UNCHANGED <<sending, roster, server, relayed, naming, given>>

-----------------------------------------------------------------------------
(* Membership                                                              *)

AddMember(a) ==
  /\ Membership
  /\ a \notin members
  /\ members' = members \cup {a}
  /\ UNCHANGED <<chains, sending, roster, stored, relayed, naming, given, read, reread>>

RemoveMember(a) ==
  /\ Membership
  /\ members' = members \ {a}
  /\ UNCHANGED <<chains, sending, roster, stored, relayed, naming, given, read, reread>>

\* The chats are fetched again.
Refresh(d) ==
  /\ roster' = [roster EXCEPT ![d] = members]
  /\ UNCHANGED <<chains, sending, server, relayed, naming, given, read, reread>>

Next ==
  \/ \E d \in Device : Encrypt(d) \/ Rotate(d) \/ Forget(d) \/ Crash(d) \/ Refresh(d)
  \/ \E x \in keysOut : Relay(x)
  \/ \E m \in messagesOut : Post(m)
  \/ \E x \in keysOut \cup relayed : Lose(x)
  \/ \E x \in relayed : Accept(x)
  \/ \E m \in stored, d \in Device : Read(d, m)
  \/ \E a \in Account : AddMember(a) \/ RemoveMember(a)

Spec == Init /\ [][Next]_vars

\* What has been encrypted is sent, what has been relayed is handled, and a
\* message a device has not read is handed to it again.
FairSpec ==
  /\ Spec
  /\ WF_vars(\E x \in keysOut : Relay(x))
  /\ WF_vars(\E m \in messagesOut : Post(m))
  /\ WF_vars(\E x \in relayed : Accept(x))
  /\ WF_vars(\E m \in stored, d \in Device : <<m, d>> \notin read /\ Read(d, m))

-----------------------------------------------------------------------------
(* Properties                                                              *)

\* Every variable stays within its type.
Typed ==
  /\ chains \in [Device -> [Account -> SenderKeyState]]
  /\ keysOut \subseteq Distribution /\ relayed \subseteq Distribution
  /\ messagesOut \subseteq GroupMessage /\ stored \subseteq GroupMessage
  /\ roster \in [Device -> SUBSET Account]
  /\ members \subseteq Account
  /\ made \in [Device -> Nat] /\ \A d \in Device : made[d] <= MaxMade[d]
  /\ nextChain \in 1..(MaxChains + 1)
  /\ audience \in [1..MaxChains -> SUBSET Account]
  /\ given \subseteq Device \X (1..MaxChains)
  /\ read \subseteq stored \X Device /\ reread \subseteq read

\* senderKey.ts, trimSkipped: the types hold, and no chain retains more skipped
\* message keys than it may, whatever gaps its sender leaves.
TypeOK ==
  /\ Typed
  /\ \A d \in Device, a \in Account :
       Cardinality(chains[d][a].skipped) <= MaxSkippedSenderKeys

Pending == keysOut \cup relayed
Messages == stored \cup messagesOut

\* senderKey.ts: "each message key is used once, so the nonce cannot repeat".
\* No two messages of the group are sealed under one iteration of one chain,
\* though chains are created, rotated, forgotten and lost by many devices.
GroupKeysUnique ==
  \A m1, m2 \in Messages :
    m1.chain = m2.chain /\ m1.iteration = m2.iteration => m1 = m2

\* The chain state yields the key of the message.
Derivable(s, m) ==
  s.chain = m.chain /\ (s.iteration <= m.iteration \/ m.iteration \in s.skipped)

\* docs/CRYPTO.md: "The chain only moves forward": what a vault holds yields
\* neither the key of a message its device has read nor of one it has sent,
\* although distributions overwrite what the vault held before.
GroupForwardSecrecy ==
  /\ \A r \in read : ~Derivable(chains[r[2]][AccountOf[r[1].from]], r[1])
  /\ \A m \in Messages : ~Derivable(Own(m.from), m)

\* groups.ts: rotation is "required whenever someone leaves".  A device can open
\* a message only if its account was among the members its sender knew of when
\* the chain of the message was created: not one removed by then, and not one
\* added since.
OnlyTheAudienceReads ==
  \A m \in Messages, d \in Device :
    CanOpen(chains[d][AccountOf[m.from]], m) => AccountOf[d] \in audience[m.chain]

\* Why these hold.  Every chain in use was created before nextChain, for an
\* audience fixed then (ChainsNamed, AudienceKnown).  A chain that signs belongs
\* to one device, has not been read with, and is ahead of every message sealed
\* under it (OwnChains).  Each device is handed a chain at most once, and holds
\* or has read only what it was handed (HandedOnce), so no distribution sets a
\* chain back behind a message that was read (ReadBehind).
ChainsNamed ==
  /\ \A d \in Device, a \in Account : chains[d][a].chain < nextChain
  /\ \A m \in Messages : m.chain \in 1..(nextChain - 1)
  /\ \A x \in Pending : x.chain \in 1..(nextChain - 1)
  /\ \A d \in Device, c \in 1..MaxChains : <<d, c>> \in given => c < nextChain

OwnChains ==
  /\ \A d \in Device : Own(d) # NoSenderKey => Own(d).signs /\ Own(d).chain # NoChain
  /\ \A d \in Device : Own(d).skipped = {}
  /\ \A d, e \in Device : Own(d).chain = Own(e).chain => d = e \/ Own(d).chain = NoChain
  /\ \A d \in Device, m \in Messages :
       Own(d).chain = m.chain => m.from = d /\ m.iteration < Own(d).iteration

HandedOnce ==
  /\ keysOut \cap relayed = {}
  /\ \A x, y \in Pending : x.to = y.to /\ x.chain = y.chain => x = y
  /\ \A x \in Pending : <<x.to, x.chain>> \notin given
  /\ \A x \in Pending : AccountOf[x.to] # AccountOf[x.from]
  /\ \A d \in Device, a \in Account :
       a # AccountOf[d] /\ chains[d][a].chain # NoChain => <<d, chains[d][a].chain>> \in given
  /\ \A r \in read : /\ <<r[2], r[1].chain>> \in given
                     /\ AccountOf[r[2]] # AccountOf[r[1].from]

ReadBehind ==
  /\ \A d \in Device, a \in Account :
       \A i \in chains[d][a].skipped : i < chains[d][a].iteration
  /\ \A r \in read : ~Derivable(chains[r[2]][AccountOf[r[1].from]], r[1])

AudienceKnown ==
  /\ \A d \in Device, a \in Account :
       chains[d][a].chain # NoChain => AccountOf[d] \in audience[chains[d][a].chain]
  /\ \A x \in Pending : AccountOf[x.to] \in audience[x.chain]

\* The five together: the accounting of chains that keeps used keys underivable.
ChainInv ==
  ChainsNamed /\ OwnChains /\ HandedOnce /\ ReadBehind /\ AudienceKnown

\* groups.ts: "Their next distribution will arrive over the pairwise session and
\* later messages will decrypt."  A device that has been handed the chain of a
\* message can open it until it has read it.
LaterMessagesDecrypt ==
  \A m \in stored, d \in Device :
    <<d, m.chain>> \in given /\ <<m, d>> \notin read
      => CanOpen(chains[d][AccountOf[m.from]], m)

\* A copy of each message for every device of every member its chain was made for.
Channel == INSTANCE SecureChannel WITH
  written <- {c \in stored \X Device : c[2] \in Others(c[1].from, audience[c[1].chain])},
  read <- (read \X {1}) \cup (reread \X {2})

\* groups.ts: the group implements the channel.  Each device of the audience opens
\* its copy of a message once, whatever overtook it, and in the end every copy is.
GroupChannel == Channel!Spec
=============================================================================
