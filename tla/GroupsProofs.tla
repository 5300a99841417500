----------------------------- MODULE GroupsProofs -----------------------------
(* What Groups promises for every set of devices, accounts and bounds. *)
EXTENDS Groups, FiniteSetTheorems, TLAPS

-----------------------------------------------------------------------------
(* Sender chains                                                           *)

\* What opening a message does to a chain: it stays the same chain, its types
\* and the order of its skipped keys are kept, the key used can no longer be
\* derived, and no key becomes derivable that was not.
LEMMA AfterOpenFacts ==
  ASSUME NEW s \in SenderKeyState, NEW m \in GroupMessage, CanOpen(s, m),
         \A i \in s.skipped : i < s.iteration,
         NEW t, t = AfterOpen(s, m)
  PROVE  /\ t \in SenderKeyState
         /\ t.chain = s.chain /\ t.signs = s.signs
         /\ \A i \in t.skipped : i < t.iteration
         /\ ~Derivable(t, m)
         /\ \A k \in GroupMessage : ~Derivable(s, k) => ~Derivable(t, k)
<1>1. m.iteration \in Nat
  BY DEF GroupMessage
<1>2. s.iteration \in Nat /\ s.skipped \in SUBSET Nat
  BY DEF SenderKeyState
<1>3. CASE Remembers(s, m)
  <2>1. t = [s EXCEPT !.skipped = @ \ {m.iteration}]
    BY <1>3 DEF AfterOpen
  <2> QED
    BY <1>1, <1>2, <1>3, <2>1 DEF SenderKeyState, GroupMessage, Remembers, Derivable
<1>4. CASE ~Remembers(s, m)
  <2>1. t = [s EXCEPT !.iteration = m.iteration + 1,
                      !.skipped = Retained(@ \cup Passed(s, m))]
    BY <1>4 DEF AfterOpen
  <2>2. m.iteration >= s.iteration
    BY <1>4 DEF CanOpen, CanAdvance
  <2>3. Retained(s.skipped \cup Passed(s, m)) \subseteq s.skipped \cup Passed(s, m)
    BY DEF Retained
  <2>4. \A i \in Passed(s, m) : i \in Nat /\ s.iteration <= i /\ i < m.iteration
    BY <1>1, <1>2 DEF Passed
  <2> DEFINE kept == Retained(s.skipped \cup Passed(s, m))
  <2>5. kept \in SUBSET Nat /\ kept \subseteq s.skipped \cup Passed(s, m)
    BY <1>2, <2>3, <2>4
  <2>6. t = [s EXCEPT !.iteration = m.iteration + 1, !.skipped = kept]
    BY <2>1
  <2> HIDE DEF kept
  <2>7. /\ t = [chain |-> s.chain, iteration |-> m.iteration + 1,
                signs |-> s.signs, skipped |-> kept]
        /\ s.chain \in Nat /\ s.signs \in BOOLEAN
    BY <2>6 DEF SenderKeyState
  <2>8. t \in SenderKeyState
    BY <1>1, <2>5, <2>7 DEF SenderKeyState
  <2>9. \A i \in kept : i < m.iteration + 1 /\ i # m.iteration
    BY <1>1, <1>2, <1>4, <2>2, <2>4, <2>5 DEF Remembers
  <2>10. \A k \in GroupMessage : ~Derivable(s, k) => ~Derivable(t, k)
    BY <1>1, <1>2, <2>2, <2>4, <2>5, <2>7 DEF GroupMessage, Derivable
  <2> QED
    BY <1>1, <2>7, <2>8, <2>9, <2>10 DEF Derivable
<1> QED
  BY <1>3, <1>4

-----------------------------------------------------------------------------
(* Types                                                                   *)

\* What an operation writes to the vault is seen through in every proof below.
USE DEF Saved, NoChains, Accepted

\* The kinds of chain state the operators produce.
LEMMA StateTypes ==
  /\ NoSenderKey \in SenderKeyState
  /\ \A c \in Nat : CreateSenderKey(c) \in SenderKeyState
  /\ \A x \in Distribution : AcceptedKey(x) \in SenderKeyState
  /\ \A s \in SenderKeyState : AfterSend(s) \in SenderKeyState
BY DEF NoSenderKey, NoChain, CreateSenderKey, AcceptedKey, AfterSend, SenderKeyState,
       Distribution

\* What is sent out for a chain are distributions.
LEMMA DistributionTypes ==
  ASSUME NEW d \in Device, NEW s \in SenderKeyState
  PROVE  Distributions(d, s) \subseteq Distribution
BY DEF Distributions, Distribution, BuildDistribution, SenderKeyState, Others

\* The chain a device encrypts under, and the one it moves on to.
LEMMA EncryptingChain ==
  ASSUME Typed, NEW d \in Device, NEW s,
         s = IF Own(d) = NoSenderKey THEN CreateSenderKey(nextChain) ELSE Own(d)
  PROVE  s \in SenderKeyState
BY StateTypes, GroupConstants DEF Typed, Own

\* Handing a chain out keeps the types.
LEMMA HandTypes ==
  ASSUME Typed, NEW d \in Device, NEW s, Hand(d, s)
  PROVE  /\ nextChain' \in 1..(MaxChains + 1)
         /\ audience' \in [1..MaxChains -> SUBSET Account]
<1>1. nextChain' \in 1..(MaxChains + 1)
  BY GroupConstants DEF Typed, Hand
<1>2. roster[d] \in SUBSET Account
  BY DEF Typed
<1>3. audience' \in [1..MaxChains -> SUBSET Account]
  BY <1>2 DEF Typed, Hand
<1> QED
  BY <1>1, <1>3

\* What reading a message makes of the chain it is read with.
LEMMA ReadingChain ==
  ASSUME Typed, ReadBehind, NEW m \in stored, NEW d \in Device, Read(d, m),
         NEW a, a = AccountOf[m.from], NEW t, t = AfterOpen(chains[d][a], m)
  PROVE  /\ m \in GroupMessage /\ a \in Account /\ a # AccountOf[d]
         /\ chains' = [chains EXCEPT ![d][a] = t]
         /\ t \in SenderKeyState
         /\ t.chain = chains[d][a].chain /\ t.signs = chains[d][a].signs
         /\ m.chain = t.chain
         /\ \A i \in t.skipped : i < t.iteration
         /\ ~Derivable(t, m)
         /\ \A k \in GroupMessage : ~Derivable(chains[d][a], k) => ~Derivable(t, k)
<1>1. m \in GroupMessage /\ a \in Account /\ a # AccountOf[d]
  BY GroupConstants DEF Typed, GroupMessage, Read
<1>2. chains[d][a] \in SenderKeyState
  BY <1>1 DEF Typed
<1>3. CanOpen(chains[d][a], m) /\ chains' = [chains EXCEPT ![d][a] = t]
  BY DEF Read
<1>4. \A i \in chains[d][a].skipped : i < chains[d][a].iteration
  BY <1>1 DEF ReadBehind
<1>5. m.chain = chains[d][a].chain
  BY <1>3 DEF CanOpen, Verifies
<1> DEFINE s == chains[d][a]
<1> HIDE DEF s
<1>6. /\ s \in SenderKeyState /\ CanOpen(s, m) /\ t = AfterOpen(s, m)
      /\ \A i \in s.skipped : i < s.iteration
  BY <1>2, <1>3, <1>4 DEF s
<1>7. /\ t \in SenderKeyState /\ t.chain = s.chain /\ t.signs = s.signs
      /\ \A i \in t.skipped : i < t.iteration
      /\ ~Derivable(t, m)
      /\ \A k \in GroupMessage : ~Derivable(s, k) => ~Derivable(t, k)
  BY <1>1, <1>6, AfterOpenFacts
<1> QED
  BY <1>1, <1>3, <1>5, <1>7 DEF s

\* Every step keeps the types.
LEMMA TypedStep ==
  ASSUME Typed, ChainInv, [Next]_vars
  PROVE  Typed'
<1> USE GroupConstants
<1>1. ASSUME NEW d \in Device, Encrypt(d) PROVE Typed'
  <2> DEFINE s == IF Own(d) = NoSenderKey THEN CreateSenderKey(nextChain) ELSE Own(d)
  <2>1. s \in SenderKeyState
    BY EncryptingChain
  <2>2. AfterSend(s) \in SenderKeyState /\ Distributions(d, s) \subseteq Distribution
    BY <2>1, StateTypes, DistributionTypes
  <2>3. nextChain' \in 1..(MaxChains + 1) /\ audience' \in [1..MaxChains -> SUBSET Account]
    <3>1. CASE Own(d) = NoSenderKey
      BY <1>1, <3>1, HandTypes DEF Encrypt
    <3>2. CASE Own(d) # NoSenderKey
      BY <1>1, <3>2 DEF Typed, Encrypt
    <3> QED
      BY <3>1, <3>2
  <2>4. keysOut' \subseteq Distribution
    BY <1>1, <2>2 DEF Typed, Encrypt, Hand
  <2>5. chains' \in [Device -> [Account -> SenderKeyState]]
    BY <1>1, <2>2 DEF Typed, Encrypt
  <2>6. messagesOut' \subseteq GroupMessage
    BY <1>1, <2>1 DEF Typed, Encrypt, GroupMessage, SenderKeyState
  <2>7. made' \in [Device -> Nat] /\ \A e \in Device : made'[e] <= MaxMade[e]
    BY <1>1 DEF Typed, Encrypt
  <2> QED
    BY <1>1, <2>3, <2>4, <2>5, <2>6, <2>7 DEF Typed, Encrypt, server
<1>2. ASSUME NEW d \in Device, Rotate(d) PROVE Typed'
  <2> DEFINE s == CreateSenderKey(nextChain)
  <2>1. s \in SenderKeyState /\ Distributions(d, s) \subseteq Distribution
    BY StateTypes, DistributionTypes DEF Typed
  <2>2. chains' \in [Device -> [Account -> SenderKeyState]]
    BY <1>2, <2>1 DEF Typed, Rotate
  <2>3. nextChain' \in 1..(MaxChains + 1) /\ audience' \in [1..MaxChains -> SUBSET Account]
    BY <1>2, HandTypes DEF Rotate
  <2> QED
    BY <1>2, <2>1, <2>2, <2>3 DEF Typed, Rotate, Hand, server
<1>3. ASSUME NEW d \in Device, Forget(d) PROVE Typed'
  BY <1>3, StateTypes DEF Typed, Forget, sending, server, naming
<1>4. ASSUME NEW d \in Device, Crash(d) PROVE Typed'
  BY <1>4 DEF Typed, Crash, server, naming
<1>5. ASSUME NEW d \in Device, Refresh(d) PROVE Typed'
  BY <1>5 DEF Typed, Refresh, sending, server, naming
<1>6. ASSUME NEW x \in keysOut, Relay(x) PROVE Typed'
  BY <1>6 DEF Typed, Relay, server, naming
<1>7. ASSUME NEW m \in messagesOut, Post(m) PROVE Typed'
  BY <1>7 DEF Typed, Post, naming
<1>8. ASSUME NEW x \in keysOut \cup relayed, Lose(x) PROVE Typed'
  BY <1>8 DEF Typed, Lose, server, naming
<1>9. ASSUME NEW x \in relayed, Accept(x) PROVE Typed'
  <2>1. x \in Distribution /\ AcceptedKey(x) \in SenderKeyState
    BY StateTypes DEF Typed
  <2>2. chains' \in [Device -> [Account -> SenderKeyState]]
    BY <1>9, <2>1 DEF Typed, Accept, Distribution
  <2>3. x.to \in Device /\ x.chain \in 1..MaxChains
    BY <2>1 DEF Typed, ChainInv, ChainsNamed, Pending, Distribution
  <2> QED
    BY <1>9, <2>2, <2>3 DEF Typed, Accept, sending, server, naming
<1>10. ASSUME NEW m \in stored, NEW d \in Device, Read(d, m) PROVE Typed'
  <2> DEFINE a == AccountOf[m.from]
             t == AfterOpen(chains[d][a], m)
  <2>1. a \in Account /\ t \in SenderKeyState /\ chains' = [chains EXCEPT ![d][a] = t]
    BY <1>10, ReadingChain DEF ChainInv
  <2>2. chains' \in [Device -> [Account -> SenderKeyState]]
    BY <2>1 DEF Typed
  <2> QED
    BY <1>10, <2>2 DEF Typed, Read, sending, server, naming
<1>11. ASSUME NEW a \in Account, AddMember(a) PROVE Typed'
  BY <1>11 DEF Typed, AddMember, sending, naming
<1>12. ASSUME NEW a \in Account, RemoveMember(a) PROVE Typed'
  BY <1>12 DEF Typed, RemoveMember, sending, naming
<1>13. CASE UNCHANGED vars
  BY <1>13 DEF Typed, vars, sending, server, naming
<1> QED
  BY <1>1, <1>2, <1>3, <1>4, <1>5, <1>6, <1>7, <1>8, <1>9, <1>10, <1>11, <1>12, <1>13 DEF Next

-----------------------------------------------------------------------------
(* The invariant on chains                                                 *)

\* Steps that create no chain, seal nothing and open nothing.
LEMMA QuietStep ==
  ASSUME Typed, ChainInv,
         chains' = chains, nextChain' = nextChain, audience' = audience,
         given' = given, read' = read,
         Messages' \subseteq Messages, Pending' \subseteq Pending,
         keysOut' \cap relayed' = {}
  PROVE  ChainInv'
<1>1. ChainsNamed'
  BY DEF ChainInv, ChainsNamed
<1>2. OwnChains'
  BY DEF ChainInv, OwnChains, Own
<1>3. HandedOnce'
  BY DEF ChainInv, HandedOnce
<1>4. ReadBehind'
  BY DEF ChainInv, ReadBehind
<1>5. AudienceKnown'
  BY DEF ChainInv, AudienceKnown
<1> QED
  BY <1>1, <1>2, <1>3, <1>4, <1>5 DEF ChainInv

\* Who has read what.
LEMMA ReadFacts ==
  ASSUME Typed, ChainInv, NEW r \in read
  PROVE  /\ r[1] \in GroupMessage /\ r[1] \in Messages /\ r[1].chain # NoChain
         /\ r[2] \in Device /\ AccountOf[r[1].from] \in Account
         /\ AccountOf[r[2]] # AccountOf[r[1].from]
<1>1. r[1] \in stored /\ r[2] \in Device
  BY DEF Typed
<1>2. r[1] \in GroupMessage /\ r[1] \in Messages
  BY <1>1 DEF Typed, Messages
<1>3. AccountOf[r[1].from] \in Account
  BY <1>2, GroupConstants DEF GroupMessage
<1>4. AccountOf[r[2]] # AccountOf[r[1].from]
  BY DEF ChainInv, HandedOnce
<1>5. r[1].chain # NoChain
  BY <1>2 DEF ChainInv, ChainsNamed, NoChain, Typed
<1> QED
  BY <1>1, <1>2, <1>3, <1>4, <1>5

\* Handing out a new chain leaves every earlier hand-over and audience alone.
LEMMA HandFacts ==
  ASSUME Typed, ChainInv, NEW d \in Device, AccountOf[d] \in roster[d],
         NEW s, s = CreateSenderKey(nextChain), Hand(d, s), relayed' = relayed
  PROVE  /\ s.chain = nextChain /\ nextChain \in Nat /\ nextChain > 0 /\ nextChain <= MaxChains
         /\ nextChain' = nextChain + 1
         /\ s.signs /\ s.skipped = {} /\ s.iteration = 0
         /\ audience'[nextChain] = roster[d]
         /\ \A c \in 1..(nextChain - 1) : audience'[c] = audience[c]
         /\ \A x \in Pending' :
              \/ x \in Pending
              \/ /\ x.from = d /\ x.to \in Device /\ x.chain = nextChain /\ x.iteration = 0
                 /\ AccountOf[x.to] \in roster[d] /\ AccountOf[x.to] # AccountOf[d]
         /\ \A x, y \in Pending' \ Pending : x.to = y.to => x = y
         /\ keysOut' \cap relayed' = {}
<1>1. /\ s.chain = nextChain /\ nextChain \in Nat /\ nextChain > 0 /\ nextChain <= MaxChains
         /\ nextChain' = nextChain + 1
      /\ s.signs /\ s.skipped = {} /\ s.iteration = 0
  BY GroupConstants DEF Typed, Hand, CreateSenderKey
<1>2. /\ audience'[nextChain] = roster[d]
      /\ \A c \in 1..(nextChain - 1) : audience'[c] = audience[c]
  BY <1>1 DEF Typed, Hand
<1>3. \A x \in Distributions(d, s) :
        /\ x.from = d /\ x.to \in Device /\ x.chain = nextChain /\ x.iteration = 0
        /\ AccountOf[x.to] \in roster[d] /\ AccountOf[x.to] # AccountOf[d]
  BY <1>1 DEF Distributions, BuildDistribution, Others
<1>4. \A x, y \in Distributions(d, s) : x.to = y.to => x = y
  BY DEF Distributions
<1>5. keysOut' = keysOut \cup Distributions(d, s) /\ relayed' = relayed
  BY DEF Hand
<1>6. \A x \in Pending : x.chain # nextChain
  BY <1>1 DEF ChainInv, ChainsNamed
<1>7. keysOut' \cap relayed' = {}
  BY <1>3, <1>5, <1>6 DEF ChainInv, HandedOnce, Pending
<1> QED
  BY <1>1, <1>2, <1>3, <1>4, <1>5, <1>7 DEF Pending

\* One's own chain is replaced by a chain just created, or by that chain moved
\* on past the first message sealed under it.
LEMMA NewChainStep ==
  ASSUME Typed, ChainInv, NEW d \in Device, AccountOf[d] \in roster[d],
         Hand(d, CreateSenderKey(nextChain)), NEW n \in Nat,
         \A e \in Device, a \in Account :
           chains'[e][a] = IF e = d /\ a = AccountOf[d]
                           THEN [chain |-> nextChain, iteration |-> n,
                                 signs |-> TRUE, skipped |-> {}]
                           ELSE chains[e][a],
         \A m \in Messages' : \/ m \in Messages
                              \/ (m.from = d /\ m.chain = nextChain /\ m.iteration < n),
         given' = given, read' = read, relayed' = relayed
  PROVE  ChainInv'
<1> DEFINE t == [chain |-> nextChain, iteration |-> n, signs |-> TRUE, skipped |-> {}]
<1>1. /\ nextChain \in Nat /\ nextChain > 0 /\ nextChain <= MaxChains
      /\ nextChain' = nextChain + 1
      /\ audience'[nextChain] = roster[d]
      /\ \A c \in 1..(nextChain - 1) : audience'[c] = audience[c]
      /\ \A x \in Pending' :
           \/ x \in Pending
           \/ /\ x.from = d /\ x.to \in Device /\ x.chain = nextChain /\ x.iteration = 0
              /\ AccountOf[x.to] \in roster[d] /\ AccountOf[x.to] # AccountOf[d]
      /\ \A x, y \in Pending' \ Pending : x.to = y.to => x = y
      /\ keysOut' \cap relayed' = {}
  BY HandFacts
<1>2. /\ t.chain = nextChain /\ t.iteration = n /\ t.signs /\ t.skipped = {}
      /\ t \in SenderKeyState
  BY <1>1 DEF SenderKeyState
<1>3. \A e \in Device, a \in Account :
        chains'[e][a] = IF e = d /\ a = AccountOf[d] THEN t ELSE chains[e][a]
  OBVIOUS
<1> HIDE DEF t
<1>4. \A e \in Device : AccountOf[e] \in Account
  BY GroupConstants
<1>5. \A e \in Device : Own(e)' = IF e = d THEN t ELSE Own(e)
  BY <1>3, <1>4 DEF Own
<1>6. \A e \in Device, a \in Account : chains[e][a] \in SenderKeyState
  BY DEF Typed
<1>7. ChainsNamed'
  <2>1. \A e \in Device, a \in Account : chains'[e][a].chain < nextChain'
    BY <1>1, <1>2, <1>3, <1>6 DEF ChainInv, ChainsNamed, SenderKeyState
  <2>2. \A m \in Messages' : m.chain \in 1..(nextChain' - 1)
    BY <1>1 DEF ChainInv, ChainsNamed
  <2>3. \A y \in Pending' : y.chain \in 1..(nextChain' - 1)
    BY <1>1 DEF ChainInv, ChainsNamed
  <2>4. \A e \in Device, c \in 1..MaxChains : <<e, c>> \in given' => c < nextChain'
    BY <1>1 DEF ChainInv, ChainsNamed
  <2> QED
    BY <2>1, <2>2, <2>3, <2>4 DEF ChainsNamed
<1>8. OwnChains'
  <2>1. \A e \in Device : Own(e).chain < nextChain
    BY <1>4 DEF ChainInv, ChainsNamed, Own
  <2>2. \A m \in Messages : m.chain < nextChain
    BY <1>1 DEF ChainInv, ChainsNamed
  <2>3. \A e \in Device : Own(e)' # NoSenderKey => Own(e)'.signs /\ Own(e)'.chain # NoChain
    BY <1>1, <1>2, <1>5 DEF ChainInv, OwnChains, NoChain
  <2>4. \A e \in Device : Own(e)'.skipped = {}
    BY <1>2, <1>5 DEF ChainInv, OwnChains
  <2>5. \A e, f \in Device :
          Own(e)'.chain = Own(f)'.chain => e = f \/ Own(e)'.chain = NoChain
    BY <1>1, <1>2, <1>5, <2>1 DEF ChainInv, OwnChains
  <2>6. \A e \in Device, m \in Messages' :
          Own(e)'.chain = m.chain => m.from = e /\ m.iteration < Own(e)'.iteration
    BY <1>1, <1>2, <1>5, <2>1, <2>2 DEF ChainInv, OwnChains
  <2> QED
    BY <2>3, <2>4, <2>5, <2>6 DEF OwnChains
<1>9. HandedOnce'
  <2>1. \A x \in Pending : x.chain < nextChain
    BY <1>1 DEF ChainInv, ChainsNamed
  <2>2. \A e \in Device : <<e, nextChain>> \notin given
    BY <1>1 DEF ChainInv, ChainsNamed
  <2>3. \A x, y \in Pending' : x.to = y.to /\ x.chain = y.chain => x = y
    BY <1>1, <2>1 DEF ChainInv, HandedOnce
  <2>4. \A x \in Pending' : <<x.to, x.chain>> \notin given'
    BY <1>1, <2>2 DEF ChainInv, HandedOnce
  <2>5. \A x \in Pending' : AccountOf[x.to] # AccountOf[x.from]
    BY <1>1 DEF ChainInv, HandedOnce
  <2>6. \A e \in Device, a \in Account :
          a # AccountOf[e] /\ chains'[e][a].chain # NoChain
            => <<e, chains'[e][a].chain>> \in given'
    BY <1>2, <1>3 DEF ChainInv, HandedOnce
  <2> QED
    BY <1>1, <2>3, <2>4, <2>5, <2>6 DEF ChainInv, HandedOnce
<1>10. ReadBehind'
  <2>1. \A e \in Device, a \in Account :
          \A i \in chains'[e][a].skipped : i < chains'[e][a].iteration
    BY <1>2, <1>3 DEF ChainInv, ReadBehind
  <2>2. \A r \in read' : ~Derivable(chains'[r[2]][AccountOf[r[1].from]], r[1])
    BY <1>2, <1>3, ReadFacts DEF ChainInv, ReadBehind
  <2> QED
    BY <2>1, <2>2 DEF ReadBehind
<1>11. AudienceKnown'
  <2>1. \A e \in Device, a \in Account :
          chains'[e][a].chain # NoChain => AccountOf[e] \in audience'[chains'[e][a].chain]
    BY <1>1, <1>2, <1>3, <1>6 DEF ChainInv, AudienceKnown, ChainsNamed, SenderKeyState, NoChain
  <2>2. \A x \in Pending' : AccountOf[x.to] \in audience'[x.chain]
    BY <1>1 DEF ChainInv, AudienceKnown, ChainsNamed
  <2> QED
    BY <2>1, <2>2 DEF AudienceKnown
<1> QED
  BY <1>7, <1>8, <1>9, <1>10, <1>11 DEF ChainInv

\* Encrypt keeps the invariant.
LEMMA EncryptStep ==
  ASSUME Typed, ChainInv, NEW d \in Device, Encrypt(d)
  PROVE  ChainInv'
<1> DEFINE own == AccountOf[d]
           s == IF Own(d) = NoSenderKey THEN CreateSenderKey(nextChain) ELSE Own(d)
           t == AfterSend(s)
           m0 == [from |-> d, chain |-> s.chain, iteration |-> s.iteration, body |-> made[d]]
<1>1. /\ chains' = [chains EXCEPT ![d][own] = t]
      /\ Messages' = Messages \cup {m0}
      /\ given' = given /\ read' = read /\ relayed' = relayed
      /\ AccountOf[d] \in roster[d] /\ own \in Account
  BY GroupConstants DEF Encrypt, Messages, Typed, server
<1>2. s \in SenderKeyState /\ t \in SenderKeyState
  BY EncryptingChain, StateTypes
<1>3. /\ t.chain = s.chain /\ t.signs = s.signs /\ t.skipped = s.skipped
      /\ t.iteration = s.iteration + 1 /\ s.iteration \in Nat
  BY <1>2 DEF AfterSend, SenderKeyState
<1> HIDE DEF s, t
<1>4. CASE Own(d) = NoSenderKey
  <2>1. s = CreateSenderKey(nextChain) /\ Hand(d, CreateSenderKey(nextChain))
    BY <1>4 DEF Encrypt, s
  <2>2. /\ t = [chain |-> nextChain, iteration |-> 1, signs |-> TRUE, skipped |-> {}]
        /\ s.chain = nextChain /\ s.iteration = 0
    <3>1. s = [chain |-> nextChain, iteration |-> 0, signs |-> TRUE, skipped |-> {}]
      BY <2>1 DEF CreateSenderKey
    <3>2. t = [s EXCEPT !.iteration = 1]
      BY <1>2, <3>1 DEF AfterSend, SenderKeyState, t
    <3> QED
      BY <3>1, <3>2
  <2>3. \A m \in Messages' :
          m \in Messages \/ (m.from = d /\ m.chain = nextChain /\ m.iteration < 1)
    BY <1>1, <2>2
  <2>4. \A e \in Device, a \in Account :
          chains'[e][a] = IF e = d /\ a = AccountOf[d]
                          THEN [chain |-> nextChain, iteration |-> 1,
                                signs |-> TRUE, skipped |-> {}]
                          ELSE chains[e][a]
    BY <1>1, <2>2 DEF Typed
  <2> QED
    BY <1>1, <2>1, <2>3, <2>4, NewChainStep
<1>5. CASE Own(d) # NoSenderKey
  <2>1. /\ s = Own(d)
        /\ nextChain' = nextChain /\ audience' = audience /\ keysOut' = keysOut
    BY <1>5 DEF Encrypt, s
  <2>2. \A e \in Device : AccountOf[e] \in Account
    BY GroupConstants
  <2>3. \A e \in Device, a \in Account :
          chains'[e][a] = IF e = d /\ a = own THEN t ELSE chains[e][a]
    BY <1>1 DEF Typed
  <2>4. \A e \in Device : Own(e)' = IF e = d THEN t ELSE Own(e)
    BY <2>2, <2>3 DEF Own
  <2>5. Pending' = Pending
    BY <1>1, <2>1 DEF Pending
  <2>6. s.signs /\ s.chain # NoChain /\ s.skipped = {} /\ s.chain \in 1..(nextChain - 1)
    BY <1>2, <1>5, <2>1, <2>2
       DEF ChainInv, OwnChains, ChainsNamed, Own, SenderKeyState, NoChain, Typed
  <2>7. s = chains[d][own]
    BY <2>1 DEF Own
  <2>8. ChainsNamed'
    <3>1. \A e \in Device, a \in Account : chains'[e][a].chain < nextChain'
      BY <1>1, <1>3, <2>1, <2>3, <2>7 DEF ChainInv, ChainsNamed
    <3>2. \A m \in Messages' : m.chain \in 1..(nextChain' - 1)
      BY <1>1, <2>1, <2>6 DEF ChainInv, ChainsNamed
    <3> QED
      BY <1>1, <2>1, <2>5, <3>1, <3>2 DEF ChainInv, ChainsNamed
  <2>9. OwnChains'
    <3>1. \A e \in Device : Own(e)'.chain = Own(e).chain /\ Own(e)'.skipped = {}
      BY <1>3, <2>1, <2>4, <2>6 DEF ChainInv, OwnChains
    <3>2. \A e \in Device : Own(e)' # NoSenderKey => Own(e)'.signs /\ Own(e)'.chain # NoChain
      BY <1>3, <2>4, <2>6 DEF ChainInv, OwnChains
    <3>3. \A e \in Device, m \in Messages' :
            Own(e)'.chain = m.chain => m.from = e /\ m.iteration < Own(e)'.iteration
      <4>1. ASSUME NEW e \in Device, NEW m \in Messages, Own(e)'.chain = m.chain
            PROVE  m.from = e /\ m.iteration < Own(e)'.iteration
        <5>1. m.from = e /\ m.iteration < Own(e).iteration
          BY <3>1, <4>1 DEF ChainInv, OwnChains
        <5>2. m.iteration \in Nat
          BY DEF Messages, Typed, GroupMessage
        <5> QED
          BY <1>3, <2>1, <2>4, <5>1, <5>2
      <4>2. ASSUME NEW e \in Device, Own(e)'.chain = m0.chain
            PROVE  m0.from = e /\ m0.iteration < Own(e)'.iteration
        <5>1. e = d
          BY <2>1, <2>6, <3>1, <4>2 DEF ChainInv, OwnChains
        <5> QED
          BY <1>3, <2>4, <5>1
      <4> QED
        BY <1>1, <4>1, <4>2
    <3> QED
      BY <3>1, <3>2, <3>3 DEF ChainInv, OwnChains
  <2>10. HandedOnce'
    BY <1>1, <1>3, <2>1, <2>3, <2>5, <2>7 DEF ChainInv, HandedOnce
  <2>11. ReadBehind'
    <3>1. \A e \in Device, a \in Account :
            \A i \in chains'[e][a].skipped : i < chains'[e][a].iteration
      BY <1>3, <2>3, <2>6 DEF ChainInv, ReadBehind
    <3>2. \A r \in read' : ~Derivable(chains'[r[2]][AccountOf[r[1].from]], r[1])
      BY <1>1, <2>3, ReadFacts DEF ChainInv, ReadBehind
    <3> QED
      BY <3>1, <3>2 DEF ReadBehind
  <2>12. AudienceKnown'
    BY <1>3, <2>1, <2>3, <2>5, <2>7 DEF ChainInv, AudienceKnown
  <2> QED
    BY <2>8, <2>9, <2>10, <2>11, <2>12 DEF ChainInv
<1> QED
  BY <1>4, <1>5

\* Rotate keeps the invariant.
LEMMA RotateStep ==
  ASSUME Typed, ChainInv, NEW d \in Device, Rotate(d)
  PROVE  ChainInv'
<1>1. /\ AccountOf[d] \in roster[d] /\ Hand(d, CreateSenderKey(nextChain))
      /\ chains' = [chains EXCEPT ![d][AccountOf[d]] = CreateSenderKey(nextChain)]
      /\ Messages' = Messages /\ given' = given /\ read' = read /\ relayed' = relayed
  BY DEF Rotate, Messages, server
<1>2. \A m \in Messages' :
        m \in Messages \/ (m.from = d /\ m.chain = nextChain /\ m.iteration < 0)
  BY <1>1
<1>3. \A e \in Device, a \in Account :
        chains'[e][a] = IF e = d /\ a = AccountOf[d]
                        THEN [chain |-> nextChain, iteration |-> 0,
                              signs |-> TRUE, skipped |-> {}]
                        ELSE chains[e][a]
  BY <1>1 DEF Typed, CreateSenderKey
<1> QED
  BY <1>1, <1>2, <1>3, NewChainStep

\* Forget keeps the invariant.
LEMMA ForgetStep ==
  ASSUME Typed, ChainInv, NEW d \in Device, Forget(d)
  PROVE  ChainInv'
<1>1. \A e \in Device : AccountOf[e] \in Account
  BY GroupConstants
<1>2. /\ nextChain' = nextChain /\ audience' = audience /\ given' = given /\ read' = read
      /\ Messages' = Messages /\ Pending' = Pending
      /\ keysOut' = keysOut /\ relayed' = relayed
  BY DEF Forget, sending, server, naming, Messages, Pending
<1>3. \A e \in Device, a \in Account :
        chains'[e][a] = IF e = d THEN NoSenderKey ELSE chains[e][a]
  BY DEF Forget, Typed
<1>4. \A e \in Device : Own(e)' = IF e = d THEN NoSenderKey ELSE Own(e)
  BY <1>1, <1>3 DEF Own
<1>5. NoSenderKey.chain = NoChain /\ NoSenderKey.skipped = {} /\ NoChain = 0
  BY DEF NoSenderKey, NoChain
<1>6. \A m \in Messages : m.chain # NoChain
  BY <1>5 DEF ChainInv, ChainsNamed, Typed
<1>7. ChainsNamed'
  <2>1. nextChain \in Nat /\ nextChain > 0
    BY GroupConstants DEF Typed
  <2>2. \A e \in Device, a \in Account : chains'[e][a].chain < nextChain'
    BY <1>2, <1>3, <1>5, <2>1 DEF ChainInv, ChainsNamed
  <2> QED
    BY <1>2, <2>2 DEF ChainInv, ChainsNamed
<1>8. OwnChains'
  BY <1>2, <1>4, <1>5, <1>6 DEF ChainInv, OwnChains
<1>9. HandedOnce'
  BY <1>2, <1>3, <1>5 DEF ChainInv, HandedOnce
<1>10. ReadBehind'
  <2>1. \A e \in Device, a \in Account :
          \A i \in chains'[e][a].skipped : i < chains'[e][a].iteration
    BY <1>3, <1>5 DEF ChainInv, ReadBehind
  <2>2. \A r \in read' : ~Derivable(chains'[r[2]][AccountOf[r[1].from]], r[1])
    BY <1>2, <1>3, <1>5, ReadFacts DEF ChainInv, ReadBehind, Derivable
  <2> QED
    BY <2>1, <2>2 DEF ReadBehind
<1>11. AudienceKnown'
  BY <1>2, <1>3, <1>5 DEF ChainInv, AudienceKnown
<1> QED
  BY <1>7, <1>8, <1>9, <1>10, <1>11 DEF ChainInv

\* A distribution that is accepted replaces another account's chain by one the
\* device was never handed before.
LEMMA AcceptStep ==
  ASSUME Typed, ChainInv, NEW x \in relayed, Accept(x)
  PROVE  ChainInv'
<1> DEFINE d == x.to
           sender == AccountOf[x.from]
           k == AcceptedKey(x)
<1>1. /\ x \in Distribution /\ x \in Pending /\ d \in Device
      /\ sender \in Account /\ sender # AccountOf[d]
  BY GroupConstants DEF Typed, Pending, Distribution, ChainInv, HandedOnce
<1>2. /\ k.chain = x.chain /\ k.iteration = x.iteration /\ k.skipped = {}
      /\ x.chain \in 1..(nextChain - 1)
  BY <1>1 DEF AcceptedKey, ChainInv, ChainsNamed
<1>3. /\ chains' = [chains EXCEPT ![d][sender] = k]
      /\ given' = given \cup {<<d, x.chain>>}
      /\ read' = read /\ Messages' = Messages /\ nextChain' = nextChain
      /\ audience' = audience /\ keysOut' = keysOut /\ relayed' = relayed \ {x}
  BY <1>1 DEF Accept, sending, server, naming, Messages
<1> HIDE DEF k
<1>4. \A e \in Device, a \in Account :
        chains'[e][a] = IF e = d /\ a = sender THEN k ELSE chains[e][a]
  BY <1>1, <1>3 DEF Typed
<1>5. \A e \in Device : AccountOf[e] \in Account
  BY GroupConstants
<1>6. \A e \in Device : Own(e)' = Own(e)
  BY <1>1, <1>4, <1>5 DEF Own
<1>7. Pending' = Pending \ {x}
  BY <1>3 DEF Pending, ChainInv, HandedOnce
<1>8. ChainsNamed'
  <2>1. \A e \in Device, a \in Account : chains'[e][a].chain < nextChain'
    <3>1. k.chain < nextChain
      BY <1>2, GroupConstants DEF Typed
    <3> QED
      BY <1>3, <1>4, <3>1 DEF ChainInv, ChainsNamed
  <2>2. \A e \in Device, c \in 1..MaxChains : <<e, c>> \in given' => c < nextChain'
    <3>1. ASSUME NEW e \in Device, NEW c \in 1..MaxChains, <<e, c>> \in given'
          PROVE  c < nextChain'
      <4>1. nextChain \in Nat
        BY GroupConstants DEF Typed
      <4>2. CASE <<e, c>> \in given
        BY <1>3, <4>2 DEF ChainInv, ChainsNamed
      <4>3. CASE <<e, c>> = <<d, x.chain>>
        BY <1>2, <1>3, <4>1, <4>3
      <4> QED
        BY <1>3, <3>1, <4>2, <4>3
    <3> QED
      BY <3>1
  <2> QED
    BY <1>3, <1>7, <2>1, <2>2 DEF ChainInv, ChainsNamed
<1>9. OwnChains'
  BY <1>3, <1>6 DEF ChainInv, OwnChains
<1>10. HandedOnce'
  <2>1. \A y \in Pending' : <<y.to, y.chain>> \notin given'
    BY <1>1, <1>3, <1>7 DEF ChainInv, HandedOnce
  <2>2. \A e \in Device, a \in Account :
          a # AccountOf[e] /\ chains'[e][a].chain # NoChain
            => <<e, chains'[e][a].chain>> \in given'
    BY <1>2, <1>3, <1>4 DEF ChainInv, HandedOnce
  <2>3. keysOut' \cap relayed' = {}
    BY <1>3 DEF ChainInv, HandedOnce
  <2> QED
    BY <1>3, <1>7, <2>1, <2>2, <2>3 DEF ChainInv, HandedOnce
<1>11. ReadBehind'
  <2>1. \A e \in Device, a \in Account :
          \A i \in chains'[e][a].skipped : i < chains'[e][a].iteration
    BY <1>2, <1>4 DEF ChainInv, ReadBehind
  <2>2. ASSUME NEW r \in read
        PROVE  ~Derivable(chains'[r[2]][AccountOf[r[1].from]], r[1])
    <3>1. /\ r[2] \in Device /\ AccountOf[r[1].from] \in Account
          /\ <<r[2], r[1].chain>> \in given
      BY ReadFacts DEF ChainInv, HandedOnce
    <3>2. CASE r[2] = d /\ AccountOf[r[1].from] = sender
      <4>1. <<d, x.chain>> \notin given
        BY <1>1 DEF ChainInv, HandedOnce
      <4> QED
        BY <1>2, <1>4, <3>1, <3>2, <4>1 DEF Derivable
    <3>3. CASE ~(r[2] = d /\ AccountOf[r[1].from] = sender)
      BY <1>4, <3>1, <3>3 DEF ChainInv, ReadBehind
    <3> QED
      BY <3>2, <3>3
  <2> QED
    BY <1>3, <2>1, <2>2 DEF ReadBehind
<1>12. AudienceKnown'
  <2>1. AccountOf[d] \in audience[x.chain]
    BY <1>1 DEF ChainInv, AudienceKnown
  <2> QED
    BY <1>2, <1>3, <1>4, <1>7, <2>1 DEF ChainInv, AudienceKnown
<1> QED
  BY <1>8, <1>9, <1>10, <1>11, <1>12 DEF ChainInv

\* Reading moves a chain of another account on; it stays the same chain.
LEMMA ReadStep ==
  ASSUME Typed, ChainInv, NEW m \in stored, NEW d \in Device, Read(d, m)
  PROVE  ChainInv'
<1> DEFINE sender == AccountOf[m.from]
           t == AfterOpen(chains[d][sender], m)
<1>1. /\ m \in GroupMessage /\ sender \in Account /\ sender # AccountOf[d]
      /\ chains' = [chains EXCEPT ![d][sender] = t]
      /\ t.chain = chains[d][sender].chain /\ m.chain = t.chain
      /\ \A i \in t.skipped : i < t.iteration
      /\ ~Derivable(t, m)
      /\ \A k \in GroupMessage : ~Derivable(chains[d][sender], k) => ~Derivable(t, k)
  BY ReadingChain DEF ChainInv
<1>2. /\ read' = read \cup {<<m, d>>}
      /\ given' = given /\ nextChain' = nextChain /\ audience' = audience
      /\ Messages' = Messages /\ Pending' = Pending
      /\ keysOut' = keysOut /\ relayed' = relayed
  BY DEF Read, sending, server, naming, Messages, Pending
<1> HIDE DEF t
<1>3. \A e \in Device, a \in Account :
        chains'[e][a] = IF e = d /\ a = sender THEN t ELSE chains[e][a]
  BY <1>1 DEF Typed
<1>4. \A e \in Device, a \in Account : chains'[e][a].chain = chains[e][a].chain
  BY <1>1, <1>3
<1>5. \A e \in Device : AccountOf[e] \in Account
  BY GroupConstants
<1>6. \A e \in Device : Own(e)' = Own(e)
  BY <1>1, <1>3, <1>5 DEF Own
<1>7. ChainsNamed'
  BY <1>2, <1>4 DEF ChainInv, ChainsNamed
<1>8. OwnChains'
  BY <1>2, <1>6 DEF ChainInv, OwnChains
<1>9. HandedOnce'
  <2>1. m.chain # NoChain
    BY DEF ChainInv, ChainsNamed, Messages, NoChain, Typed
  <2>2. <<d, m.chain>> \in given
    BY <1>1, <2>1 DEF ChainInv, HandedOnce
  <2>3. \A r \in read' : /\ <<r[2], r[1].chain>> \in given'
                         /\ AccountOf[r[2]] # AccountOf[r[1].from]
    <3>1. ASSUME NEW r \in read
          PROVE  <<r[2], r[1].chain>> \in given' /\ AccountOf[r[2]] # AccountOf[r[1].from]
      BY <1>2 DEF ChainInv, HandedOnce
    <3>2. ASSUME NEW r, r = <<m, d>>
          PROVE  <<r[2], r[1].chain>> \in given' /\ AccountOf[r[2]] # AccountOf[r[1].from]
      BY <1>1, <1>2, <2>2, <3>2
    <3> QED
      BY <1>2, <3>1, <3>2
  <2> QED
    BY <1>2, <1>4, <2>3 DEF ChainInv, HandedOnce
<1>10. ReadBehind'
  <2>1. \A e \in Device, a \in Account :
          \A i \in chains'[e][a].skipped : i < chains'[e][a].iteration
    BY <1>1, <1>3 DEF ChainInv, ReadBehind
  <2>2. ASSUME NEW r \in read
        PROVE  ~Derivable(chains'[r[2]][AccountOf[r[1].from]], r[1])
    BY <1>1, <1>3, ReadFacts DEF ChainInv, ReadBehind
  <2>3. ~Derivable(chains'[d][sender], m)
    BY <1>1, <1>3
  <2> QED
    BY <1>2, <2>1, <2>2, <2>3 DEF ReadBehind
<1>11. AudienceKnown'
  BY <1>2, <1>4 DEF ChainInv, AudienceKnown
<1> QED
  BY <1>7, <1>8, <1>9, <1>10, <1>11 DEF ChainInv

\* Every step keeps the invariant.
LEMMA ChainInvStep ==
  ASSUME Typed, ChainInv, [Next]_vars
  PROVE  ChainInv'
<1>1. ASSUME NEW d \in Device, Crash(d) PROVE ChainInv'
  BY <1>1, QuietStep DEF Crash, server, naming, Messages, Pending, ChainInv, HandedOnce
<1>2. ASSUME NEW d \in Device, Refresh(d) PROVE ChainInv'
  BY <1>2, QuietStep DEF Refresh, sending, server, naming, Messages, Pending, ChainInv, HandedOnce
<1>3. ASSUME NEW x \in keysOut, Relay(x) PROVE ChainInv'
  BY <1>3, QuietStep DEF Relay, server, naming, Messages, Pending, ChainInv, HandedOnce
<1>4. ASSUME NEW m \in messagesOut, Post(m) PROVE ChainInv'
  BY <1>4, QuietStep DEF Post, naming, Messages, Pending, ChainInv, HandedOnce
<1>5. ASSUME NEW x \in keysOut \cup relayed, Lose(x) PROVE ChainInv'
  BY <1>5, QuietStep DEF Lose, server, naming, Messages, Pending, ChainInv, HandedOnce
<1>6. ASSUME NEW a \in Account, AddMember(a) PROVE ChainInv'
  BY <1>6, QuietStep DEF AddMember, sending, naming, Messages, Pending, ChainInv, HandedOnce
<1>7. ASSUME NEW a \in Account, RemoveMember(a) PROVE ChainInv'
  BY <1>7, QuietStep DEF RemoveMember, sending, naming, Messages, Pending, ChainInv, HandedOnce
<1>8. CASE UNCHANGED vars
  BY <1>8, QuietStep DEF vars, sending, server, naming, Messages, Pending, ChainInv, HandedOnce
<1> QED
  BY <1>1, <1>2, <1>3, <1>4, <1>5, <1>6, <1>7, <1>8,
     EncryptStep, RotateStep, ForgetStep, AcceptStep, ReadStep DEF Next

-----------------------------------------------------------------------------
(* The theorems                                                            *)

\* Types and invariant hold at the start.
LEMMA InitHolds == Init => Typed /\ ChainInv
<1> SUFFICES ASSUME Init PROVE Typed /\ ChainInv
  OBVIOUS
<1> USE GroupConstants DEF Init
<1>1. Typed
  BY StateTypes DEF Typed
<1>2. \A d \in Device, a \in Account : chains[d][a] = NoSenderKey
  OBVIOUS
<1>3. \A d \in Device : Own(d) = NoSenderKey
  BY <1>2 DEF Own
<1>4. ChainInv
  BY <1>2, <1>3 DEF ChainInv, ChainsNamed, OwnChains, HandedOnce, ReadBehind, AudienceKnown,
                    Messages, Pending, NoSenderKey, NoChain
<1> QED
  BY <1>1, <1>4

\* The inductive invariant: who owns, holds, was handed and has read with which
\* chain, through every crash, loss, rotation and change of membership.
THEOREM ChainsAccounted == Spec => [](Typed /\ ChainInv)
<1>1. Typed /\ ChainInv /\ [Next]_vars => (Typed /\ ChainInv)'
  BY TypedStep, ChainInvStep
<1> QED
  BY InitHolds, <1>1, PTL DEF Spec

\* A message is sealed past every other of its chain, or is the chain's first.
LEMMA UniqueStep ==
  ASSUME Typed, ChainInv, GroupKeysUnique, [Next]_vars
  PROVE  GroupKeysUnique'
<1>1. ASSUME NEW d \in Device, Encrypt(d) PROVE GroupKeysUnique'
  <2> DEFINE s == IF Own(d) = NoSenderKey THEN CreateSenderKey(nextChain) ELSE Own(d)
             m0 == [from |-> d, chain |-> s.chain, iteration |-> s.iteration, body |-> made[d]]
  <2>1. Messages' = Messages \cup {m0}
    BY <1>1 DEF Encrypt, Messages, server
  <2>2. ASSUME NEW m \in Messages, m.chain = s.chain PROVE m.iteration # s.iteration
    <3>1. CASE Own(d) = NoSenderKey
      BY <2>2, <3>1, GroupConstants DEF CreateSenderKey, ChainInv, ChainsNamed, Typed
    <3>2. CASE Own(d) # NoSenderKey
      <4>1. m.iteration < Own(d).iteration
        BY <2>2, <3>2 DEF ChainInv, OwnChains
      <4>2. m.iteration \in Nat
        BY DEF Messages, Typed, GroupMessage
      <4> QED
        BY <3>2, <4>1, <4>2
    <3> QED
      BY <3>1, <3>2
  <2>3. m0.chain = s.chain /\ m0.iteration = s.iteration
    OBVIOUS
  <2> HIDE DEF m0, s
  <2> QED
    BY <2>1, <2>2, <2>3 DEF GroupKeysUnique
<1>2. CASE Messages' \subseteq Messages
  BY <1>2 DEF GroupKeysUnique
<1>3. ASSUME NEW d \in Device, Rotate(d) \/ Forget(d) \/ Crash(d) \/ Refresh(d)
      PROVE  Messages' \subseteq Messages
  BY <1>3 DEF Rotate, Forget, Crash, Refresh, Messages, sending, server
<1>4. ASSUME NEW x, Relay(x) \/ Lose(x) \/ Accept(x) PROVE Messages' \subseteq Messages
  BY <1>4 DEF Relay, Lose, Accept, Messages, sending, server
<1>5. ASSUME NEW m, Post(m) PROVE Messages' \subseteq Messages
  BY <1>5 DEF Post, Messages
<1>6. ASSUME NEW m, NEW d, Read(d, m) PROVE Messages' \subseteq Messages
  BY <1>6 DEF Read, Messages, sending, server
<1>7. ASSUME NEW a, AddMember(a) \/ RemoveMember(a) PROVE Messages' \subseteq Messages
  BY <1>7 DEF AddMember, RemoveMember, Messages, sending
<1>8. CASE UNCHANGED vars
  BY <1>8, <1>2 DEF vars, Messages, sending, server
<1> QED
  BY <1>1, <1>2, <1>3, <1>4, <1>5, <1>6, <1>7, <1>8 DEF Next

\* No two group messages are sealed under one message key.
THEOREM GroupKeysNeverReused == Spec => []GroupKeysUnique
<1>1. Init => GroupKeysUnique
  BY DEF Init, GroupKeysUnique, Messages
<1>2. Typed /\ ChainInv /\ GroupKeysUnique /\ [Next]_vars => GroupKeysUnique'
  BY UniqueStep
<1> QED
  BY ChainsAccounted, <1>1, <1>2, PTL DEF Spec

\* The invariant keeps past keys underivable.
LEMMA PastIsUnderivable ==
  ASSUME Typed, ChainInv
  PROVE  GroupForwardSecrecy
<1>1. ASSUME NEW m \in Messages PROVE ~Derivable(Own(m.from), m)
  <2>1. m.from \in Device /\ AccountOf[m.from] \in Account /\ m.iteration \in Nat
    BY GroupConstants DEF Messages, Typed, GroupMessage
  <2>2. Own(m.from).iteration \in Nat
    BY <2>1 DEF Own, Typed, SenderKeyState
  <2>3. /\ Own(m.from).skipped = {}
        /\ Own(m.from).chain = m.chain => m.iteration < Own(m.from).iteration
    BY <2>1 DEF ChainInv, OwnChains
  <2> QED
    BY <2>1, <2>2, <2>3 DEF Derivable
<1> QED
  BY <1>1 DEF GroupForwardSecrecy, ChainInv, ReadBehind

\* A vault never holds what yields the key of a message read or sent.
THEOREM PastStaysClosed == Spec => []GroupForwardSecrecy
<1>1. Typed /\ ChainInv => GroupForwardSecrecy
  BY PastIsUnderivable
<1> QED
  BY ChainsAccounted, <1>1, PTL

\* Who can open a message was in its audience.
LEMMA ReadersWereHanded ==
  ASSUME Typed, ChainInv
  PROVE  OnlyTheAudienceReads
<1> SUFFICES ASSUME NEW m \in Messages, NEW d \in Device,
                    CanOpen(chains[d][AccountOf[m.from]], m)
             PROVE  AccountOf[d] \in audience[m.chain]
  BY DEF OnlyTheAudienceReads
<1>1. AccountOf[m.from] \in Account
  BY GroupConstants DEF Messages, Typed, GroupMessage
<1>2. chains[d][AccountOf[m.from]].chain = m.chain
  BY DEF CanOpen, Verifies
<1>3. m.chain # NoChain
  BY DEF ChainInv, ChainsNamed, NoChain, Typed
<1> QED
  BY <1>1, <1>2, <1>3 DEF ChainInv, AudienceKnown

\* Nobody opens a message but the members its chain was created for.
THEOREM AudienceReads == Spec => []OnlyTheAudienceReads
<1>1. Typed /\ ChainInv => OnlyTheAudienceReads
  BY ReadersWereHanded
<1> QED
  BY ChainsAccounted, <1>1, PTL

-----------------------------------------------------------------------------
(* The bound on skipped keys                                               *)

\* rememberSkipped keeps no more than MAX_SKIPPED_SENDER_KEYS: two keys that are
\* kept differ in how many newer ones there are, and those are fewer than that.
LEMMA RetainedIsBounded ==
  ASSUME NEW S \in SUBSET Nat, IsFiniteSet(S)
  PROVE  IsFiniteSet(Retained(S)) /\ Cardinality(Retained(S)) <= MaxSkippedSenderKeys
<1> DEFINE newer(i) == {j \in S : i < j}
           K == MaxSkippedSenderKeys
           count == [i \in Retained(S) |-> Cardinality(newer(i))]
<1>1. \A i \in S : IsFiniteSet(newer(i)) /\ Cardinality(newer(i)) \in Nat
  BY FS_Subset, FS_CardinalityType
<1>2. K \in Nat \ {0}
  BY SenderKeyLimits
<1>3. IsFiniteSet(0..(K - 1)) /\ Cardinality(0..(K - 1)) = K
  <2>1. 0 \in Int /\ K - 1 \in Int /\ ~(0 > K - 1) /\ (K - 1) - 0 + 1 = K
    BY <1>2
  <2> HIDE DEF K
  <2> QED
    BY <2>1, FS_Interval
<1>4. \A i \in Retained(S) : i \in S /\ Cardinality(newer(i)) < K
  BY DEF Retained
<1>5. ASSUME NEW i \in S, NEW j \in S, i < j
      PROVE  Cardinality(newer(i)) # Cardinality(newer(j))
  <2>0. i \in Nat /\ j \in Nat /\ \A k \in S : k \in Nat
    OBVIOUS
  <2>1. \A k \in S : j < k => i < k
    BY <1>5, <2>0
  <2>2. newer(j) \in SUBSET newer(i)
    BY <2>1
  <2>3. ~(j < j)
    BY <2>0
  <2>4. j \in newer(i) /\ j \notin newer(j)
    BY <1>5, <2>3
  <2> HIDE DEF newer
  <2> QED
    BY <1>1, <2>2, <2>4, FS_Subset
<1>6. ASSUME NEW i \in Retained(S), NEW j \in Retained(S), i # j
      PROVE  Cardinality(newer(i)) # Cardinality(newer(j))
  <2>0. i \in S /\ j \in S
    BY <1>4
  <2>1. i \in S /\ j \in S /\ i \in Nat /\ j \in Nat /\ (i < j \/ j < i)
    BY <1>6, <2>0
  <2> HIDE DEF newer
  <2> QED
    BY <1>5, <2>1
<1>7. \A i \in Retained(S) : Cardinality(newer(i)) \in 0..(K - 1)
  <2> SUFFICES ASSUME NEW i \in Retained(S) PROVE Cardinality(newer(i)) \in 0..(K - 1)
    OBVIOUS
  <2>1. Cardinality(newer(i)) \in Nat /\ Cardinality(newer(i)) < K
    BY <1>1, <1>4
  <2> HIDE DEF newer, K
  <2> QED
    BY <1>2, <2>1
<1> HIDE DEF newer, K
<1>8. count \in [Retained(S) -> 0..(K - 1)]
  BY <1>7
<1>9. \A i, j \in Retained(S) : count[i] = count[j] => i = j
  BY <1>6
<1>10. count \in Injection(Retained(S), 0..(K - 1))
  BY <1>8, <1>9 DEF Injection, IsInjective
<1> QED
  BY <1>3, <1>10, FS_Injection DEF K

\* Every chain retains few skipped keys.
Bounded(s) == IsFiniteSet(s.skipped) /\ Cardinality(s.skipped) <= MaxSkippedSenderKeys
SkippedBounded == \A d \in Device, a \in Account : Bounded(chains[d][a])

\* A new chain, received or of one's own, has none, and sending adds none.
LEMMA FreshIsBounded ==
  /\ Bounded(NoSenderKey)
  /\ \A c : Bounded(CreateSenderKey(c)) /\ Bounded(AcceptedKey(c))
  /\ \A s \in SenderKeyState : Bounded(s) => Bounded(AfterSend(s))
<1>1. IsFiniteSet({}) /\ Cardinality({}) = 0 /\ 0 <= MaxSkippedSenderKeys
  BY FS_EmptySet, SenderKeyLimits
<1>2. \A s \in SenderKeyState : AfterSend(s).skipped = s.skipped
  BY DEF SenderKeyState, AfterSend
<1> QED
  BY <1>1, <1>2 DEF Bounded, NoSenderKey, CreateSenderKey, AcceptedKey

\* Opening a message uses up a skipped key or retains the newest.
LEMMA OpeningIsBounded ==
  ASSUME NEW s \in SenderKeyState, NEW m \in GroupMessage, Bounded(s), CanOpen(s, m)
  PROVE  Bounded(AfterOpen(s, m))
<1>1. /\ m.iteration \in Nat /\ s.iteration \in Nat /\ s.skipped \in SUBSET Nat
      /\ IsFiniteSet(s.skipped)
  BY DEF GroupMessage, SenderKeyState, Bounded
<1>2. CASE Remembers(s, m)
  <2>1. AfterOpen(s, m).skipped = s.skipped \ {m.iteration}
    BY <1>2 DEF AfterOpen, SenderKeyState
  <2>2. s.skipped \ {m.iteration} \in SUBSET s.skipped
    OBVIOUS
  <2>3. /\ IsFiniteSet(s.skipped \ {m.iteration})
        /\ Cardinality(s.skipped \ {m.iteration}) <= Cardinality(s.skipped)
    BY <1>1, <2>2, FS_Subset
  <2>4. /\ Cardinality(s.skipped \ {m.iteration}) \in Nat /\ Cardinality(s.skipped) \in Nat
        /\ MaxSkippedSenderKeys \in Nat
    BY <1>1, <2>3, FS_CardinalityType, SenderKeyLimits
  <2> QED
    BY <2>1, <2>3, <2>4 DEF Bounded
<1>3. CASE ~Remembers(s, m)
  <2> DEFINE kept == s.skipped \cup Passed(s, m)
  <2>1. AfterOpen(s, m).skipped = Retained(kept)
    BY <1>3 DEF AfterOpen, SenderKeyState
  <2>2. IsFiniteSet(Passed(s, m)) /\ Passed(s, m) \in SUBSET Nat
    <3>1. s.iteration \in Int /\ m.iteration - 1 \in Int
      BY <1>1
    <3>2. IsFiniteSet(s.iteration..(m.iteration - 1))
      BY <3>1, FS_Interval
    <3>3. s.iteration..(m.iteration - 1) \in SUBSET Nat
      BY <1>1
    <3> QED
      BY <3>2, <3>3 DEF Passed
  <2>3. IsFiniteSet(kept) /\ kept \in SUBSET Nat
    BY <1>1, <2>2, FS_Union
  <2> HIDE DEF kept
  <2> QED
    BY <2>1, <2>3, RetainedIsBounded DEF Bounded
<1> QED
  BY <1>2, <1>3

\* Every step keeps the bound.
LEMMA BoundStep ==
  ASSUME Typed, SkippedBounded, [Next]_vars
  PROVE  SkippedBounded'
<1>1. \A d \in Device : AccountOf[d] \in Account
  BY GroupConstants
<1>2. CASE UNCHANGED chains
  BY <1>2 DEF SkippedBounded
<1>3. ASSUME NEW d \in Device, NEW a \in Account, NEW s, Bounded(s),
             chains' = [chains EXCEPT ![d][a] = s]
      PROVE  SkippedBounded'
  BY <1>3 DEF Typed, SkippedBounded
<1>4. ASSUME NEW d \in Device, Encrypt(d) PROVE SkippedBounded'
  <2> DEFINE s == IF Own(d) = NoSenderKey THEN CreateSenderKey(nextChain) ELSE Own(d)
  <2>1. s \in SenderKeyState
    BY EncryptingChain
  <2>2. Bounded(Own(d))
    BY <1>1 DEF SkippedBounded, Own
  <2>3. Bounded(s)
    BY <2>2, FreshIsBounded
  <2>4. chains' = [chains EXCEPT ![d][AccountOf[d]] = AfterSend(s)]
    BY <1>4 DEF Encrypt
  <2> HIDE DEF s
  <2> QED
    BY <1>1, <1>3, <2>1, <2>3, <2>4, FreshIsBounded
<1>5. ASSUME NEW d \in Device, Rotate(d) PROVE SkippedBounded'
  <2>1. chains' = [chains EXCEPT ![d][AccountOf[d]] = CreateSenderKey(nextChain)]
    BY <1>5 DEF Rotate
  <2> QED
    BY <1>1, <1>3, <2>1, FreshIsBounded
<1>6. ASSUME NEW d \in Device, Forget(d) PROVE SkippedBounded'
  BY <1>6, FreshIsBounded DEF Forget, Typed, SkippedBounded
<1>7. ASSUME NEW x \in relayed, Accept(x) PROVE SkippedBounded'
  <2>1. x \in Distribution /\ x.to \in Device /\ x.from \in Device
    BY DEF Typed, Distribution
  <2>2. CASE AccountOf[x.from] = AccountOf[x.to]
    BY <1>2, <1>7, <2>2 DEF Accept
  <2>3. CASE AccountOf[x.from] # AccountOf[x.to]
    <3>1. chains' = [chains EXCEPT ![x.to][AccountOf[x.from]] = AcceptedKey(x)]
      BY <1>7, <2>3 DEF Accept
    <3> QED
      BY <1>1, <1>3, <2>1, <3>1, FreshIsBounded
  <2> QED
    BY <2>2, <2>3
<1>8. ASSUME NEW m \in stored, NEW d \in Device, Read(d, m) PROVE SkippedBounded'
  <2> DEFINE a == AccountOf[m.from]
  <2>1. m \in GroupMessage /\ a \in Account
    BY <1>1 DEF Typed, GroupMessage
  <2>2. /\ chains' = [chains EXCEPT ![d][a] = AfterOpen(chains[d][a], m)]
        /\ CanOpen(chains[d][a], m)
    BY <1>8 DEF Read
  <2>3. chains[d][a] \in SenderKeyState /\ Bounded(chains[d][a])
    BY <2>1 DEF Typed, SkippedBounded
  <2>4. Bounded(AfterOpen(chains[d][a], m))
    BY <2>1, <2>2, <2>3, OpeningIsBounded
  <2> HIDE DEF a
  <2> QED
    BY <1>3, <2>1, <2>2, <2>4
<1>9. CASE \/ \E d \in Device : Crash(d) \/ Refresh(d)
           \/ \E x \in keysOut : Relay(x)
           \/ \E m \in messagesOut : Post(m)
           \/ \E x \in keysOut \cup relayed : Lose(x)
           \/ \E a \in Account : AddMember(a) \/ RemoveMember(a)
           \/ UNCHANGED vars
  <2>1. UNCHANGED chains
    BY <1>9 DEF Crash, Refresh, Relay, Post, Lose, AddMember, RemoveMember, vars
  <2> QED
    BY <1>2, <2>1
<1> QED
  BY <1>4, <1>5, <1>6, <1>7, <1>8, <1>9 DEF Next

\* trimSkipped: whatever gaps a sender leaves, no chain retains more skipped keys
\* than it may; and every variable keeps its type.
THEOREM GroupTypes == Spec => []TypeOK
<1>1. Init => SkippedBounded
  BY FreshIsBounded DEF Init, SkippedBounded
<1>2. (Typed /\ ChainInv) /\ SkippedBounded /\ [Next]_vars => SkippedBounded'
  BY BoundStep
<1>3. (Typed /\ ChainInv) /\ SkippedBounded => TypeOK
  BY DEF SkippedBounded, Bounded, TypeOK
<1> QED
  BY ChainsAccounted, <1>1, <1>2, <1>3, PTL DEF Spec

-----------------------------------------------------------------------------
(* The channel                                                             *)

\* No copy is read a second time.
Once == reread = {}

\* Every step of the group is one of the channel, or none: storing a message
\* writes a copy for every device of its audience, and a device reads a copy
\* that is its own and that it has not read.
LEMMA StepOfChannel ==
  ASSUME Typed, ChainInv, Once, [Next]_vars
  PROVE  Once' /\ [Channel!Next]_(Channel!vars)
<1> DEFINE written == {c \in stored \X Device :
                         c[2] \in Others(c[1].from, audience[c[1].chain])}
           opened == (read \X {1}) \cup (reread \X {2})
<1>1. CASE reread' = reread /\ read' = read /\ written \subseteq written'
  BY <1>1 DEF Once, Channel!Next, Channel!Write, Channel!vars
<1>2. ASSUME stored \subseteq stored',
             \A c \in 1..(nextChain - 1) : audience'[c] = audience[c]
      PROVE  written \subseteq written'
  <2>1. \A m \in stored : m.chain \in 1..(nextChain - 1)
    BY DEF ChainInv, ChainsNamed, Messages
  <2> QED
    BY <1>2, <2>1
<1>3. ASSUME NEW m \in stored, NEW d \in Device, Read(d, m)
      PROVE  Once' /\ [Channel!Next]_(Channel!vars)
  <2> DEFINE a == AccountOf[m.from]
  <2>1. /\ CanOpen(chains[d][a], m) /\ AccountOf[d] # a
        /\ read' = read \cup {<<m, d>>} /\ stored' = stored /\ audience' = audience
        /\ reread' = IF <<m, d>> \in read THEN reread \cup {<<m, d>>} ELSE reread
    BY <1>3 DEF Read, server, naming
  <2>2. m \in GroupMessage /\ a \in Account /\ m.from \in Device
    BY GroupConstants DEF Typed, GroupMessage
  <2>3. chains[d][a] \in SenderKeyState
    BY <2>2 DEF Typed
  <2>4. Derivable(chains[d][a], m)
    BY <2>1, <2>2, <2>3 DEF CanOpen, Verifies, Remembers, CanAdvance, Derivable, GroupMessage,
                            SenderKeyState
  <2>5. <<m, d>> \notin read
    <3>1. \A r \in read : ~Derivable(chains[r[2]][AccountOf[r[1].from]], r[1])
      BY DEF ChainInv, ReadBehind
    <3> QED
      BY <2>4, <3>1
  <2>6. AccountOf[d] \in audience[m.chain]
    BY <2>1, ReadersWereHanded DEF OnlyTheAudienceReads, Messages
  <2>7. <<m, d>> \in written
    BY <2>1, <2>6 DEF Others
  <2>8. reread' = reread /\ reread = {}
    BY <2>1, <2>5 DEF Once
  <2>9. opened' = opened \cup {<<<<m, d>>, 1>>} /\ <<<<m, d>>, 1>> \notin opened
    BY <2>1, <2>5, <2>8
  <2>10. written' = written
    BY <2>1
  <2>11. Channel!Read
    BY <2>7, <2>9, <2>10 DEF Channel!Read, Channel!Unread
  <2> QED
    BY <2>8, <2>11 DEF Once, Channel!Next
<1>4. ASSUME NEW d \in Device, Encrypt(d) \/ Rotate(d)
      PROVE  /\ stored' = stored /\ reread' = reread /\ read' = read
             /\ \A c \in 1..(nextChain - 1) : audience'[c] = audience[c]
  <2>1. stored' = stored /\ reread' = reread /\ read' = read
    BY <1>4 DEF Encrypt, Rotate, server
  <2>2. audience' = audience \/ audience' = [audience EXCEPT ![nextChain] = roster[d]]
    BY <1>4 DEF Encrypt, Rotate, Hand, CreateSenderKey
  <2>3. \A c \in 1..(nextChain - 1) : c \in 1..MaxChains /\ c # nextChain
    BY GroupConstants DEF Typed
  <2>4. \A c \in 1..(nextChain - 1) : audience'[c] = audience[c]
    BY <2>2, <2>3 DEF Typed
  <2> QED
    BY <2>1, <2>4
<1>5. CASE \/ \E d \in Device : Forget(d) \/ Crash(d) \/ Refresh(d)
           \/ \E x \in keysOut : Relay(x)
           \/ \E m \in messagesOut : Post(m)
           \/ \E x \in keysOut \cup relayed : Lose(x)
           \/ \E x \in relayed : Accept(x)
           \/ \E a \in Account : AddMember(a) \/ RemoveMember(a)
           \/ UNCHANGED vars
  <2>1. stored \subseteq stored' /\ audience' = audience /\ reread' = reread /\ read' = read
    BY <1>5 DEF Forget, Crash, Refresh, Relay, Post, Lose, Accept, AddMember, RemoveMember,
                vars, server, naming
  <2> QED
    BY <1>1, <1>2, <2>1
<1> QED
  BY <1>1, <1>2, <1>3, <1>4, <1>5 DEF Next

\* The safety of GroupChannel, step by step, through crashes, losses, rotations
\* and changes of membership: only what was stored is read, by devices of its
\* audience, and by none of them twice.
THEOREM GroupChannelSafe == Spec => Channel!Init /\ [][Channel!Next]_(Channel!vars)
<1>1. Init => Once /\ Channel!Init
  BY DEF Init, Once, Channel!Init
<1>2. (Typed /\ ChainInv) /\ Once /\ [Next]_vars => Once' /\ [Channel!Next]_(Channel!vars)
  BY StepOfChannel
<1> QED
  BY ChainsAccounted, <1>1, <1>2, PTL DEF Spec
=============================================================================
