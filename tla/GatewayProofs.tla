---------------------------- MODULE GatewayProofs ----------------------------
(***************************************************************************)
(* Proofs about Gateway, for any number of pages, sockets, tickets and     *)
(* failures: without a token a page is offline, no socket outlives the     *)
(* page's interest in it, a socket being served is registered, and for     *)
(* connections that come and go one at a time presence is right.           *)
(***************************************************************************)
EXTENDS Gateway, TLAPS, WellFoundedInduction, FiniteSetTheorems

PageState == [flow : BOOLEAN, leaving : BOOLEAN, token : {"none", "good", "revoked"},
              renewing : BOOLEAN, load : {"no", "asked", "answered"},
              answer : Tickets \cup {None}, ticket : Tickets \cup {None},
              sock : Sockets \cup {None}, retry : BOOLEAN]

SocketState == [ticket : Tickets \cup {None}, open : BOOLEAN, server : Phases, first : BOOLEAN]

\* A page with a socket has the ticket it was opened with; pages do not share
\* sockets; and an open connection belongs to a page.
LinkInv ==
  /\ TokenlessIsOffline
  /\ \A p \in Pages : page[p].load = "answered" => page[p].answer # None
  /\ \A p \in Pages : page[p].sock # None => page[p].ticket # None
  /\ \A p, q \in Pages : page[p].sock # None /\ page[p].sock = page[q].sock => p = q
  /\ \A i \in Sockets : socket[i].open => \E p \in Pages : page[p].sock = i

\* A socket is registered from its acceptance until its client is gone.
ServerInv ==
  /\ \A i \in Sockets :
        socket[i].open /\ socket[i].server \in {"writing", "telling", "serving"}
          => i \in registered
  /\ \A i \in Sockets : socket[i].server \in {"leaving", "untelling"} => ~socket[i].open

Right == IF registered = {} THEN "offline" ELSE "online"

\* How far the one handler under way has come, and what it has left to say.
Progress(i) ==
  /\ socket[i].server = "accepting" =>
        /\ socket[i].first <=> registered = {}
        /\ presence = Right /\ told = Right
  /\ socket[i].server = "writing" => registered = {i} /\ presence = "offline" /\ told = "offline"
  /\ socket[i].server = "telling" => registered = {i} /\ presence = "online" /\ told = "offline"
  /\ socket[i].server = "leaving" => registered = {} /\ presence = "online" /\ told = "online"
  /\ socket[i].server = "untelling" => registered = {} /\ presence = "offline" /\ told = "online"

ApartInv ==
  smooth =>
    /\ \A i, j \in Busy : i = j
    /\ Busy = {} => presence = Right /\ told = Right
    /\ \A i \in Busy : Progress(i)

IInv == TypeOK /\ LinkInv /\ ServerInv /\ ApartInv

-----------------------------------------------------------------------------
(* Numbers and records                                                     *)

\* A nonempty set of numbers has a least one.
LEMMA LeastNumber ==
  ASSUME NEW S, S \subseteq Nat, S # {}
  PROVE  \E n \in S : \A m \in S : n <= m
<1>1. \E n \in S : \A m \in S : ~ (<<m, n>> \in OpToRel(<, Nat))
  BY NatLessThanWellFounded, WFMin, Zenon
<1>2. PICK n \in S : \A m \in S : ~ (<<m, n>> \in OpToRel(<, Nat))
  BY <1>1
<1>3. \A m \in S : ~ (m < n)
  BY <1>2 DEF OpToRel
<1>4. n \in Nat /\ \A m \in S : m \in Nat
  BY <1>2
<1>5. \A m \in S : n <= m
  BY <1>3, <1>4
<1> QED
  BY <1>2, <1>5

\* A connection gets a number nobody uses.
LEMMA NextIsFree ==
  ASSUME \E i \in Sockets : Free(i)
  PROVE  NextSocket \in Sockets /\ Free(NextSocket)
<1> DEFINE F == {i \in Sockets : Free(i)}
<1>1. F \subseteq Nat /\ F # {}
  BY GatewayAssumption
<1>2. \E n \in F : \A m \in F : n <= m
  BY <1>1, LeastNumber
<1>3. \E n \in Sockets : Free(n) /\ \A m \in Sockets : Free(m) => n <= m
  BY <1>2
<1> QED
  BY <1>3 DEF NextSocket

\* None stands for no socket and no ticket.
LEMMA NoneIsNoNumber == None \notin Sockets /\ None \notin Tickets
  BY GatewayAssumption DEF None

\* A socket not in use is a state of a socket.
LEMMA IdleIsState ==
  /\ Idle \in SocketState /\ ~Idle.open /\ Idle.server = "idle"
  BY DEF Idle, SocketState, Phases

\* A signed-out page is a state of a page.
LEMMA SignedOutIsState ==
  /\ SignedOut \in PageState
  /\ SignedOut.token = "none" /\ SignedOut.load = "no" /\ SignedOut.ticket = None
  /\ SignedOut.sock = None /\ SignedOut.retry = FALSE
  BY DEF SignedOut, PageState

\* The types, taken apart.
LEMMA Types ==
  TypeOK <=>
    /\ page \in [Pages -> PageState] /\ socket \in [Sockets -> SocketState]
    /\ tickets \subseteq Tickets /\ registered \subseteq Sockets
    /\ {presence, told} \subseteq {"online", "offline"} /\ smooth \in BOOLEAN
    /\ trouble \in 0 .. MaxTrouble
    /\ \A p \in Pages : page[p].retry => page[p].ticket # None /\ page[p].sock = None
    /\ \A p \in Pages : page[p].sock # None => socket[page[p].sock].open
  BY DEF TypeOK, PageState, SocketState

\* What no page and no socket holds.
Rest == tickets \subseteq Tickets /\ smooth \in BOOLEAN /\ trouble \in 0 .. MaxTrouble

\* A failure stays within the budget.
LEMMA TroubleCounted == TypeOK /\ Trouble => trouble' \in 0 .. MaxTrouble
  BY GatewayAssumption DEF TypeOK, Trouble

\* The invariant holds at the start.
LEMMA InitInv == Init => IInv
<1> SUFFICES ASSUME Init PROVE IInv
  OBVIOUS
<1>1. \A p \in Pages : page[p] = SignedOut
  BY DEF Init
<1>2. \A i \in Sockets : socket[i] = Idle
  BY DEF Init
<1>3. page \in [Pages -> PageState] /\ socket \in [Sockets -> SocketState]
  BY SignedOutIsState, IdleIsState DEF Init
<1>4. TypeOK
  <2>1. trouble \in 0 .. MaxTrouble
    BY GatewayAssumption DEF Init
  <2>2. /\ tickets \subseteq Tickets /\ registered \subseteq Sockets
        /\ {presence, told} \subseteq {"online", "offline"} /\ smooth \in BOOLEAN
    BY DEF Init
  <2> QED
    BY <1>1, <1>3, <2>1, <2>2, SignedOutIsState, Types
<1>5. LinkInv
  BY <1>1, <1>2, SignedOutIsState, IdleIsState DEF LinkInv, TokenlessIsOffline
<1>6. ServerInv
  BY <1>2, IdleIsState DEF ServerInv
<1>7. Busy = {}
  BY <1>2, IdleIsState DEF Busy
<1>8. ApartInv
  BY <1>7 DEF Init, ApartInv, Right
<1> QED
  BY <1>4, <1>5, <1>6, <1>8 DEF IInv

-----------------------------------------------------------------------------
(* Frames: what steps of one kind have in common                           *)

\* Nothing the presence depends on changes but what is neither before nor
\* after the step a handler's business.
LEMMA ApartStep ==
  ASSUME ApartInv, UNCHANGED <<registered, presence, told>>, smooth' => smooth,
         \A i \in Sockets :
            \/ socket'[i].server = socket[i].server /\ socket'[i].first = socket[i].first
            \/ {socket[i].server, socket'[i].server} \subseteq {"idle", "new", "serving"}
  PROVE  ApartInv'
<1> SUFFICES ASSUME smooth' PROVE
      /\ \A i, j \in Busy' : i = j
      /\ Busy' = {} => presence' = Right' /\ told' = Right'
      /\ \A i \in Busy' : Progress(i)'
  BY DEF ApartInv
<1>1. Right' = Right
  BY DEF Right
<1>2. Busy' = Busy
  BY DEF Busy
<1>3. /\ \A i, j \in Busy : i = j
      /\ Busy = {} => presence = Right /\ told = Right
      /\ \A i \in Busy : Progress(i)
  BY DEF ApartInv
<1>4. ASSUME NEW i \in Busy PROVE Progress(i)'
  <2>1. i \in Sockets /\ socket'[i].server = socket[i].server /\ socket'[i].first = socket[i].first
    BY DEF Busy
  <2> QED
    BY <1>1, <1>3, <1>4, <2>1 DEF Progress
<1> QED
  BY <1>1, <1>2, <1>3, <1>4

\* Steps without smooth' leave nothing to show.
LEMMA RoughStep == ~smooth' => ApartInv'
  BY DEF ApartInv

\* A page learns or asks something; its socket stays as it is.
LEMMA PageStep ==
  ASSUME IInv, NEW p \in Pages, NEW r \in PageState, page' = [page EXCEPT ![p] = r],
         r.sock = page[p].sock, r.ticket = page[p].ticket, r.retry = page[p].retry,
         r.token = "none" => page[p].token = "none" /\ r.load = "no",
         r.load = "answered" => r.answer # None,
         UNCHANGED <<socket, registered, presence, told, smooth>>,
         tickets' \subseteq Tickets, trouble' \in 0 .. MaxTrouble
  PROVE  IInv'
<1>1. /\ page' \in [Pages -> PageState] /\ page'[p] = r
      /\ \A q \in Pages : q # p => page'[q] = page[q]
  BY Types DEF IInv
<1>2. \A q \in Pages : /\ page'[q].sock = page[q].sock /\ page'[q].ticket = page[q].ticket
                       /\ page'[q].retry = page[q].retry
  BY <1>1
<1>3. TypeOK'
  <2>1. \A q \in Pages : page'[q].retry => page'[q].ticket # None /\ page'[q].sock = None
    BY <1>2 DEF IInv, TypeOK
  <2>2. \A q \in Pages : page'[q].sock # None => socket'[page'[q].sock].open
    BY <1>2 DEF IInv, TypeOK
  <2> QED
    BY <1>1, <2>1, <2>2 DEF IInv, TypeOK, PageState
<1>4. LinkInv'
  <2>1. TokenlessIsOffline'
    BY <1>1 DEF IInv, LinkInv, TokenlessIsOffline
  <2>2. \A q \in Pages : page'[q].load = "answered" => page'[q].answer # None
    BY <1>1 DEF IInv, LinkInv
  <2>3. \A q \in Pages : page'[q].sock # None => page'[q].ticket # None
    BY <1>2 DEF IInv, LinkInv
  <2>4. \A q, o \in Pages : page'[q].sock # None /\ page'[q].sock = page'[o].sock => q = o
    BY <1>2 DEF IInv, LinkInv
  <2>5. \A i \in Sockets : socket'[i].open => \E q \in Pages : page'[q].sock = i
    BY <1>2 DEF IInv, LinkInv
  <2> QED
    BY <2>1, <2>2, <2>3, <2>4, <2>5 DEF LinkInv
<1>5. ServerInv'
  BY DEF IInv, ServerInv
<1>6. ApartInv'
  BY ApartStep DEF IInv
<1> QED
  BY <1>3, <1>4, <1>5, <1>6 DEF IInv

\* The server handles a socket; the page sees nothing of it.
LEMMA HandlerStep ==
  ASSUME IInv, NEW i \in Sockets, NEW s \in SocketState, socket' = [socket EXCEPT ![i] = s],
         s.open <=> socket[i].open,
         s.open /\ s.server \in {"writing", "telling", "serving"} => i \in registered',
         s.server \in {"leaving", "untelling"} => ~s.open,
         \A j \in Sockets : j # i /\ j \in registered => j \in registered',
         UNCHANGED <<page, trouble>>, tickets' \subseteq Tickets, registered' \subseteq Sockets,
         {presence', told'} \subseteq {"online", "offline"}, smooth' \in BOOLEAN
  PROVE  TypeOK' /\ LinkInv' /\ ServerInv'
<1>1. /\ socket' \in [Sockets -> SocketState] /\ socket'[i] = s
      /\ \A j \in Sockets : j # i => socket'[j] = socket[j]
  BY Types DEF IInv
<1>2. \A j \in Sockets : socket'[j].open <=> socket[j].open
  BY <1>1
<1>3. \A p \in Pages : page[p].sock \in Sockets \cup {None}
  BY DEF IInv, TypeOK
<1>4. \A p \in Pages : page[p].sock # None => socket'[page[p].sock].open
  BY <1>2, <1>3 DEF IInv, TypeOK
<1>5. TypeOK'
  BY <1>1, <1>4 DEF IInv, TypeOK, SocketState
<1>6. LinkInv'
  BY <1>2 DEF IInv, LinkInv, TokenlessIsOffline
<1>7. ServerInv'
  BY <1>1 DEF IInv, ServerInv
<1> QED
  BY <1>5, <1>6, <1>7

-----------------------------------------------------------------------------
(* Connections end                                                         *)

\* The client end of a connection closes, and leaves s of it.
Closes(i, s, code) ==
  /\ socket' = [socket EXCEPT ![i] = s] /\ ClosedOn(i, code)
  /\ UNCHANGED <<registered, presence, told>>

\* A connection's client end closes: the page it was of, if any, has no socket.
LEMMA ClosedStep ==
  ASSUME IInv, NEW i \in Sockets, NEW s \in SocketState, ~s.open, NEW code,
         Closes(i, s, code), Rest'
  PROVE  TypeOK' /\ LinkInv' /\ ServerInv'
<1>0. /\ socket' = [socket EXCEPT ![i] = s] /\ ClosedOn(i, code)
      /\ UNCHANGED <<registered, presence, told>>
      /\ tickets' \subseteq Tickets /\ smooth' \in BOOLEAN /\ trouble' \in 0 .. MaxTrouble
  BY DEF Closes, Rest
<1>1. /\ socket' \in [Sockets -> SocketState] /\ socket'[i] = s
      /\ \A j \in Sockets : j # i => socket'[j] = socket[j]
  BY <1>0, Types DEF IInv
<1>2. i # None
  BY NoneIsNoNumber
<1>3. \A p \in Pages : page[p] \in PageState
  BY Types DEF IInv
<1>4. /\ page' \in [Pages -> PageState]
      /\ \A p \in Pages : page[p].sock # i => page'[p] = page[p]
      /\ \A p \in Pages : page[p].sock = i =>
            /\ page'[p].sock = None
            /\ page'[p].ticket \in {page[p].ticket, None}
            /\ page'[p].retry => page'[p].ticket = page[p].ticket
            /\ page'[p].token = page[p].token /\ page'[p].load = page[p].load
            /\ page'[p].answer = page[p].answer
  <2>1. CASE ~ \E p \in Pages : page[p].sock = i
    <3>1. page' = page
      BY <1>0, <2>1 DEF ClosedOn
    <3> QED
      BY <2>1, <3>1, Types DEF IInv
  <2>2. CASE \E p \in Pages : page[p].sock = i
    <3> DEFINE o == CHOOSE p \in Pages : page[p].sock = i
    <3>1. o \in Pages /\ page[o].sock = i
      BY <2>2
    <3>2. page' = AfterClose(o, code)
      BY <1>0, <2>2 DEF ClosedOn
    <3> HIDE DEF o
    <3>3. \A p \in Pages : page[p].sock = i => p = o
      BY <1>2, <3>1 DEF IInv, LinkInv
    <3>4. ~page[o].retry
      BY <1>2, <3>1 DEF IInv, TypeOK
    <3>5. CASE code = 4001
      <4> DEFINE r == [page[o] EXCEPT !.sock = None, !.ticket = None]
      <4>1. page' = [page EXCEPT ![o] = r]
        BY <3>2, <3>5 DEF AfterClose
      <4>2. /\ r \in PageState /\ r.sock = None /\ r.ticket = None /\ r.retry = page[o].retry
            /\ r.token = page[o].token /\ r.load = page[o].load /\ r.answer = page[o].answer
        BY <1>3, <3>1 DEF PageState
      <4> HIDE DEF r
      <4> QED
        BY <1>3, <3>1, <3>3, <3>4, <4>1, <4>2, Types DEF IInv
    <3>6. CASE code # 4001
      <4> DEFINE r == [page[o] EXCEPT !.sock = None, !.retry = TRUE]
      <4>1. page' = [page EXCEPT ![o] = r]
        BY <3>2, <3>6 DEF AfterClose
      <4>2. /\ r \in PageState /\ r.sock = None /\ r.ticket = page[o].ticket
            /\ r.token = page[o].token /\ r.load = page[o].load /\ r.answer = page[o].answer
        BY <1>3, <3>1 DEF PageState
      <4> HIDE DEF r
      <4> QED
        BY <1>3, <3>1, <3>3, <4>1, <4>2, Types DEF IInv
    <3> QED
      BY <3>5, <3>6
  <2> QED
    BY <2>1, <2>2
<1>5. TypeOK'
  <2>1. ASSUME NEW p \in Pages, page'[p].retry PROVE page'[p].ticket # None /\ page'[p].sock = None
    <3>1. CASE page[p].sock # i
      BY <1>4, <2>1, <3>1 DEF IInv, TypeOK
    <3>2. CASE page[p].sock = i
      BY <1>2, <1>4, <2>1, <3>2 DEF IInv, LinkInv
    <3> QED
      BY <3>1, <3>2
  <2>2. ASSUME NEW p \in Pages, page'[p].sock # None PROVE socket'[page'[p].sock].open
    <3>1. page[p].sock # i /\ page'[p] = page[p]
      BY <1>4, <2>2
    <3>2. page[p].sock \in Sockets
      BY <1>3, <2>2, <3>1 DEF PageState
    <3> QED
      BY <1>1, <2>2, <3>1, <3>2 DEF IInv, TypeOK
  <2>3. page' \in [Pages -> PageState] /\ socket' \in [Sockets -> SocketState]
    BY <1>1, <1>4
  <2> QED
    BY <1>0, <2>1, <2>2, <2>3 DEF IInv, TypeOK, PageState, SocketState
<1>6. LinkInv'
  <2>1. TokenlessIsOffline'
    <3> SUFFICES ASSUME NEW p \in Pages, page'[p].token = "none"
                 PROVE  /\ page'[p].load = "no" /\ page'[p].ticket = None
                        /\ page'[p].sock = None /\ ~page'[p].retry
      BY DEF TokenlessIsOffline
    <3>1. page[p].sock # i
      BY <1>2, <1>4 DEF IInv, LinkInv, TokenlessIsOffline
    <3> QED
      BY <1>4, <3>1 DEF IInv, LinkInv, TokenlessIsOffline
  <2>2. \A p \in Pages : page'[p].load = "answered" => page'[p].answer # None
    BY <1>4 DEF IInv, LinkInv
  <2>3. \A p \in Pages : page'[p].sock # None => page'[p].ticket # None
    BY <1>4 DEF IInv, LinkInv
  <2>4. \A p, q \in Pages : page'[p].sock # None /\ page'[p].sock = page'[q].sock => p = q
    BY <1>4 DEF IInv, LinkInv
  <2>5. ASSUME NEW j \in Sockets, socket'[j].open PROVE \E p \in Pages : page'[p].sock = j
    <3>1. j # i /\ socket[j].open
      BY <1>1, <2>5
    <3> QED
      BY <1>4, <3>1 DEF IInv, LinkInv
  <2> QED
    BY <2>1, <2>2, <2>3, <2>4, <2>5 DEF LinkInv
<1>7. ServerInv'
  BY <1>0, <1>1 DEF IInv, ServerInv
<1> QED
  BY <1>5, <1>6, <1>7

-----------------------------------------------------------------------------
(* Tokens and tickets                                                      *)

\* The actions on the token keep the invariant.
LEMMA TokenStep ==
  ASSUME IInv, NEW p \in Pages,
         SignIn(p) \/ RenewToken(p) \/ TokenRenewed(p) \/ RevokeToken(p)
  PROVE  IInv'
<1>1. page[p] \in PageState /\ tickets \subseteq Tickets /\ trouble \in 0 .. MaxTrouble
  BY Types DEF IInv
<1>2. page[p].load = "answered" => page[p].answer # None
  BY DEF IInv, LinkInv
<1>3. CASE SignIn(p)
  <2> DEFINE r == [page[p] EXCEPT !.flow = TRUE, !.token = "good", !.load = "asked",
                                  !.answer = None]
  <2>1. /\ r \in PageState /\ r.sock = page[p].sock /\ r.ticket = page[p].ticket
        /\ r.retry = page[p].retry /\ r.token = "good" /\ r.load = "asked"
    BY <1>1 DEF PageState
  <2>2. page' = [page EXCEPT ![p] = r]
    BY <1>3 DEF SignIn
  <2> HIDE DEF r
  <2> QED
    BY <1>1, <1>3, <2>1, <2>2, PageStep DEF SignIn
<1>4. CASE RenewToken(p)
  <2>1. PICK token \in {page[p].token, "revoked"} :
          /\ page' = [page EXCEPT ![p] = [@ EXCEPT !.renewing = TRUE, !.token = token]]
          /\ trouble' \in 0 .. MaxTrouble
    <3>1. [page[p] EXCEPT !.renewing = TRUE] =
             [page[p] EXCEPT !.renewing = TRUE, !.token = page[p].token]
      BY <1>1 DEF PageState
    <3> QED
      BY <1>1, <1>4, <3>1, TroubleCounted DEF RenewToken, IInv
  <2> DEFINE r == [page[p] EXCEPT !.renewing = TRUE, !.token = token]
  <2>2. /\ r \in PageState /\ r.sock = page[p].sock /\ r.ticket = page[p].ticket
        /\ r.retry = page[p].retry /\ r.token = token /\ r.load = page[p].load
        /\ r.answer = page[p].answer
    BY <1>1 DEF PageState
  <2>3. page' = [page EXCEPT ![p] = r]
    BY <2>1
  <2>4. token # "none"
    BY <1>4 DEF RenewToken
  <2> HIDE DEF r
  <2> QED
    BY <1>1, <1>2, <1>4, <2>1, <2>2, <2>3, <2>4, PageStep DEF RenewToken
<1>5. CASE TokenRenewed(p)
  <2> DEFINE r == [page[p] EXCEPT !.token = "good", !.renewing = FALSE, !.load = "asked",
                                  !.answer = None]
  <2>1. /\ r \in PageState /\ r.sock = page[p].sock /\ r.ticket = page[p].ticket
        /\ r.retry = page[p].retry /\ r.token = "good" /\ r.load = "asked"
    BY <1>1 DEF PageState
  <2>2. page' = [page EXCEPT ![p] = r]
    BY <1>5 DEF TokenRenewed, NewToken
  <2> HIDE DEF r
  <2> QED
    BY <1>1, <1>5, <2>1, <2>2, PageStep DEF TokenRenewed
<1>6. CASE RevokeToken(p)
  <2>1. PICK token \in {page[p].token, "revoked"} :
          page' = [page EXCEPT ![p] = [@ EXCEPT !.leaving = TRUE, !.token = token]]
    BY <1>6 DEF RevokeToken
  <2> DEFINE r == [page[p] EXCEPT !.leaving = TRUE, !.token = token]
  <2>2. /\ r \in PageState /\ r.sock = page[p].sock /\ r.ticket = page[p].ticket
        /\ r.retry = page[p].retry /\ r.token = token /\ r.load = page[p].load
        /\ r.answer = page[p].answer
    BY <1>1 DEF PageState
  <2>3. page' = [page EXCEPT ![p] = r]
    BY <2>1
  <2>4. token = "none" => page[p].token = "none" /\ page[p].load = "no"
    BY DEF IInv, LinkInv, TokenlessIsOffline
  <2> HIDE DEF r
  <2> QED
    BY <1>1, <1>2, <1>6, <2>2, <2>3, <2>4, PageStep DEF RevokeToken
<1> QED
  BY <1>3, <1>4, <1>5, <1>6

\* Getting a ticket, or failing to, keeps the invariant.
LEMMA LoadStep ==
  ASSUME IInv, NEW p \in Pages, IssueTicket(p) \/ LoadFails(p)
  PROVE  IInv'
<1>1. page[p] \in PageState /\ tickets \subseteq Tickets /\ trouble \in 0 .. MaxTrouble
  BY Types DEF IInv
<1>2. CASE IssueTicket(p)
  <2>1. PICK t \in Tickets :
          /\ tickets' = tickets \cup {t}
          /\ page' = [page EXCEPT ![p] = [@ EXCEPT !.load = "answered", !.answer = t]]
    BY <1>2 DEF IssueTicket
  <2> DEFINE r == [page[p] EXCEPT !.load = "answered", !.answer = t]
  <2>2. /\ r \in PageState /\ r.sock = page[p].sock /\ r.ticket = page[p].ticket
        /\ r.retry = page[p].retry /\ r.token = page[p].token /\ r.answer = t
    BY <1>1 DEF PageState
  <2>3. page' = [page EXCEPT ![p] = r]
    BY <2>1
  <2>4. page[p].token = "good" /\ t # None
    BY <1>2, NoneIsNoNumber DEF IssueTicket
  <2>5. UNCHANGED <<socket, registered, presence, told, smooth, trouble>>
    BY <1>2 DEF IssueTicket
  <2>6. tickets' \subseteq Tickets /\ trouble' \in 0 .. MaxTrouble
    BY <1>1, <2>1, <2>5
  <2> HIDE DEF r
  <2> QED
    BY <2>2, <2>3, <2>4, <2>5, <2>6, PageStep
<1>3. CASE LoadFails(p)
  <2> DEFINE r == [page[p] EXCEPT !.load = "no", !.answer = None]
  <2>0. tickets' \subseteq Tickets /\ UNCHANGED <<socket, registered, presence, told, smooth>>
    BY <1>1, <1>3 DEF LoadFails
  <2>1. /\ r \in PageState /\ r.sock = page[p].sock /\ r.ticket = page[p].ticket
        /\ r.retry = page[p].retry /\ r.token = page[p].token /\ r.load = "no"
    BY <1>1 DEF PageState
  <2>2. page' = [page EXCEPT ![p] = r]
    BY <1>3 DEF LoadFails
  <2>3. trouble' \in 0 .. MaxTrouble
    BY <1>1, <1>3, TroubleCounted DEF LoadFails, IInv
  <2> HIDE DEF r
  <2> QED
    BY <2>0, <2>1, <2>2, <2>3, PageStep
<1> QED
  BY <1>2, <1>3

\* Expire keeps the invariant.
LEMMA ExpireStep ==
  ASSUME IInv, NEW t \in Tickets, ExpireTicket(t)
  PROVE  IInv'
<1>1. trouble' \in 0 .. MaxTrouble /\ tickets' \subseteq Tickets
  BY TroubleCounted DEF ExpireTicket, IInv, TypeOK
<1>2. UNCHANGED <<page, socket, registered, presence, told, smooth>>
  BY DEF ExpireTicket
<1>3. TypeOK'
  BY <1>1, <1>2 DEF IInv, TypeOK
<1>4. LinkInv' /\ ServerInv'
  BY <1>2 DEF IInv, LinkInv, TokenlessIsOffline, ServerInv
<1>5. ApartInv'
  BY <1>2, ApartStep DEF IInv
<1> QED
  BY <1>3, <1>4, <1>5 DEF IInv

-----------------------------------------------------------------------------
(* The client's socket                                                     *)

\* A socket whose handler hears of its end is a state of a socket.
LEMMA HungIsState ==
  ASSUME NEW s \in SocketState
  PROVE  /\ Hung(s) \in SocketState /\ Hung(s).open = FALSE
         /\ Hung(s).server = s.server /\ Hung(s).first = s.first
  BY DEF Hung, SocketState

\* What the cleanup of the effect leaves of the connections.
LEMMA ClosedIsState ==
  ASSUME IInv, NEW p \in Pages
  PROVE  /\ Closed(p) \in [Sockets -> SocketState]
         /\ \A i \in Sockets : i # page[p].sock => Closed(p)[i] = socket[i]
         /\ \A i \in Sockets : Closed(p)[i].open => socket[i].open /\ i # page[p].sock
         /\ \A i \in Sockets : /\ Closed(p)[i].server = socket[i].server
                              /\ Closed(p)[i].first = socket[i].first
<1>1. page[p].sock \in Sockets \cup {None} /\ socket \in [Sockets -> SocketState]
  BY Types DEF IInv, PageState
<1>2. CASE page[p].sock = None
  BY <1>1, <1>2, NoneIsNoNumber DEF Closed
<1>3. CASE page[p].sock # None
  <2> DEFINE i == page[p].sock
             h == Hung(socket[i])
  <2>1. i \in Sockets
    BY <1>1, <1>3
  <2>2. Closed(p) = [socket EXCEPT ![i] = h]
    BY <1>3 DEF Closed
  <2>3. /\ h \in SocketState /\ h.open = FALSE
        /\ h.server = socket[i].server /\ h.first = socket[i].first
    BY <1>1, <2>1, HungIsState
  <2> HIDE DEF h, i
  <2>4. /\ Closed(p) \in [Sockets -> SocketState] /\ Closed(p)[i] = h
        /\ \A j \in Sockets : j # i => Closed(p)[j] = socket[j]
    BY <1>1, <2>1, <2>2, <2>3
  <2> QED
    BY <2>3, <2>4 DEF i
<1> QED
  BY <1>2, <1>3

\* Clearing a page, at a sign-out or at the end of its session, keeps the
\* invariant.
LEMMA SignOutStep ==
  ASSUME IInv, NEW p \in Pages, SignOut(p) \/ SessionEnds(p)
  PROVE  IInv'
<1> DEFINE r == Cleared(p)
<1>1. /\ r \in PageState /\ r.token = "none" /\ r.load = "no" /\ r.ticket = None
      /\ r.sock = None /\ r.retry = FALSE
  BY SignedOutIsState, Types DEF IInv, Cleared, PageState
<1>2. /\ page' = [page EXCEPT ![p] = r] /\ socket' = Closed(p)
      /\ UNCHANGED <<tickets, registered, presence, told, smooth, trouble>>
  BY DEF SignOut, SessionEnds, Clears
<1> HIDE DEF r
<1>3. /\ page' \in [Pages -> PageState] /\ page'[p] = r
      /\ \A q \in Pages : q # p => page'[q] = page[q]
  BY <1>1, <1>2, Types DEF IInv
<1>4. /\ socket' \in [Sockets -> SocketState]
      /\ \A i \in Sockets : i # page[p].sock => socket'[i] = socket[i]
      /\ \A i \in Sockets : socket'[i].open => socket[i].open /\ i # page[p].sock
      /\ \A i \in Sockets : /\ socket'[i].server = socket[i].server
                           /\ socket'[i].first = socket[i].first
  BY <1>2, ClosedIsState
<1>5. ASSUME NEW q \in Pages, page'[q].sock # None PROVE socket'[page'[q].sock].open
  <2>1. q # p /\ page'[q] = page[q]
    BY <1>1, <1>3, <1>5
  <2>2. page[q].sock \in Sockets /\ page[q].sock # page[p].sock
    BY <1>5, <2>1, Types DEF IInv, LinkInv, PageState
  <2> QED
    BY <1>4, <1>5, <2>1, <2>2 DEF IInv, TypeOK
<1>6. \A q \in Pages : page'[q].retry => page'[q].ticket # None /\ page'[q].sock = None
  BY <1>1, <1>3 DEF IInv, TypeOK
<1>7. TypeOK'
  BY <1>2, <1>3, <1>4, <1>5, <1>6 DEF IInv, TypeOK, PageState, SocketState
<1>8. LinkInv'
  <2>1. TokenlessIsOffline'
    BY <1>1, <1>3 DEF IInv, LinkInv, TokenlessIsOffline
  <2>2. \A q \in Pages : /\ page'[q].load = "answered" => page'[q].answer # None
                         /\ page'[q].sock # None => page'[q].ticket # None
    BY <1>1, <1>3 DEF IInv, LinkInv
  <2>3. \A q, o \in Pages : page'[q].sock # None /\ page'[q].sock = page'[o].sock => q = o
    BY <1>1, <1>3 DEF IInv, LinkInv
  <2>4. \A i \in Sockets : socket'[i].open => \E q \in Pages : page'[q].sock = i
    BY <1>3, <1>4 DEF IInv, LinkInv
  <2> QED
    BY <2>1, <2>2, <2>3, <2>4 DEF LinkInv
<1>9. ServerInv'
  BY <1>2, <1>4 DEF IInv, ServerInv
<1>10. ApartInv'
  BY <1>2, <1>4, ApartStep DEF IInv
<1> QED
  BY <1>7, <1>8, <1>9, <1>10 DEF IInv

\* A page opens a connection in place of the one it has, if any.
LEMMA OpenStep ==
  ASSUME IInv, NEW p \in Pages, NEW t \in Tickets, \E i \in Sockets : Free(i),
         NEW r \in PageState, r.sock = NextSocket, r.ticket = t, ~r.retry,
         r.token = page[p].token, page[p].token # "none",
         r.load = "answered" => r.answer # None,
         page' = [page EXCEPT ![p] = r], socket' = Opened(Closed(p), NextSocket, t),
         UNCHANGED <<tickets, registered, presence, told, smooth, trouble>>
  PROVE  IInv'
<1> DEFINE n == NextSocket
           new == [Idle EXCEPT !.ticket = t, !.open = TRUE, !.server = "new"]
<1>1. n \in Sockets /\ socket[n] = Idle
  BY NextIsFree DEF Free
<1>2. n # None /\ t # None
  BY <1>1, NoneIsNoNumber
<1>3. /\ new \in SocketState /\ new.open /\ new.server = "new"
  BY DEF Idle, SocketState, Phases
<1>4. socket' = [Closed(p) EXCEPT ![n] = new]
  BY DEF Opened
<1>5. ~socket[n].open /\ socket[n].server = "idle"
  BY <1>1, IdleIsState
<1> HIDE DEF n, new
<1>6. /\ page' \in [Pages -> PageState] /\ page'[p] = r /\ r.sock = n
      /\ \A q \in Pages : q # p => page'[q] = page[q]
  BY Types DEF IInv, n
<1>7. /\ Closed(p) \in [Sockets -> SocketState]
      /\ \A i \in Sockets : i # page[p].sock => Closed(p)[i] = socket[i]
      /\ \A i \in Sockets : Closed(p)[i].open => socket[i].open /\ i # page[p].sock
      /\ \A i \in Sockets : /\ Closed(p)[i].server = socket[i].server
                           /\ Closed(p)[i].first = socket[i].first
  BY ClosedIsState
<1>8. /\ socket' \in [Sockets -> SocketState] /\ socket'[n] = new
      /\ \A i \in Sockets : i # n => socket'[i] = Closed(p)[i]
  BY <1>1, <1>3, <1>4, <1>7
<1>9. \A q \in Pages : page[q].sock # n
  BY <1>2, <1>5 DEF IInv, TypeOK
<1>10. ASSUME NEW q \in Pages, page'[q].sock # None PROVE socket'[page'[q].sock].open
  <2>1. CASE q = p
    BY <1>3, <1>6, <1>8, <2>1
  <2>2. CASE q # p
    <3>1. page'[q] = page[q] /\ page[q].sock \in Sockets /\ page[q].sock # page[p].sock
      BY <1>6, <1>10, <2>2, Types DEF IInv, LinkInv, PageState
    <3> QED
      BY <1>7, <1>8, <1>9, <1>10, <3>1 DEF IInv, TypeOK
  <2> QED
    BY <2>1, <2>2
<1>11. \A q \in Pages : page'[q].retry => page'[q].ticket # None /\ page'[q].sock = None
  BY <1>6 DEF IInv, TypeOK
<1>12. TypeOK'
  BY <1>6, <1>8, <1>10, <1>11 DEF IInv, TypeOK, PageState, SocketState
<1>13. LinkInv'
  <2>1. TokenlessIsOffline'
    BY <1>6 DEF IInv, LinkInv, TokenlessIsOffline
  <2>2. \A q \in Pages : /\ page'[q].load = "answered" => page'[q].answer # None
                         /\ page'[q].sock # None => page'[q].ticket # None
    BY <1>2, <1>6 DEF IInv, LinkInv
  <2>3. \A q, o \in Pages : page'[q].sock # None /\ page'[q].sock = page'[o].sock => q = o
    BY <1>6, <1>9 DEF IInv, LinkInv
  <2>4. ASSUME NEW i \in Sockets, socket'[i].open PROVE \E q \in Pages : page'[q].sock = i
    <3>1. CASE i = n
      BY <1>6, <3>1
    <3>2. CASE i # n
      <4>1. socket[i].open /\ i # page[p].sock
        BY <1>7, <1>8, <2>4, <3>2
      <4> QED
        BY <1>6, <4>1 DEF IInv, LinkInv
    <3> QED
      BY <3>1, <3>2
  <2> QED
    BY <2>1, <2>2, <2>3, <2>4 DEF LinkInv
<1>14. ServerInv'
  <2> SUFFICES ASSUME NEW i \in Sockets
               PROVE  /\ socket'[i].open
                            /\ socket'[i].server \in {"writing", "telling", "serving"}
                              => i \in registered'
                      /\ socket'[i].server \in {"leaving", "untelling"} => ~socket'[i].open
    BY DEF ServerInv
  <2>1. CASE i = n
    BY <1>3, <1>8, <2>1
  <2>2. CASE i # n
    BY <1>7, <1>8, <2>2 DEF IInv, ServerInv
  <2> QED
    BY <2>1, <2>2
<1>15. ApartInv'
  <2>1. \A i \in Sockets :
           \/ socket'[i].server = socket[i].server /\ socket'[i].first = socket[i].first
           \/ {socket[i].server, socket'[i].server} \subseteq {"idle", "new", "serving"}
    BY <1>3, <1>5, <1>7, <1>8
  <2> QED
    BY <2>1, ApartStep DEF IInv
<1> QED
  BY <1>12, <1>13, <1>14, <1>15 DEF IInv

\* Opening a socket, at once or by a retry, keeps the invariant.
LEMMA ConnectStep ==
  ASSUME IInv, NEW p \in Pages, TicketArrives(p) \/ Retry(p)
  PROVE  IInv'
<1>1. page[p] \in PageState
  BY Types DEF IInv
<1>2. CASE TicketArrives(p)
  <2> DEFINE t == page[p].answer
             r == [page[p] EXCEPT !.load = "no", !.answer = None, !.ticket = t,
                                  !.sock = NextSocket, !.retry = FALSE]
  <2>1. t \in Tickets /\ page[p].token # "none"
    BY <1>1, <1>2 DEF TicketArrives, IInv, LinkInv, TokenlessIsOffline, PageState
  <2>2. /\ \E i \in Sockets : Free(i)
        /\ page' = [page EXCEPT ![p] = r] /\ socket' = Opened(Closed(p), NextSocket, t)
        /\ UNCHANGED <<tickets, registered, presence, told, smooth, trouble>>
    BY <1>2 DEF TicketArrives, Shown, Replaced
  <2>3. NextSocket \in Sockets
    BY <2>2, NextIsFree
  <2>4. /\ r \in PageState /\ r.sock = NextSocket /\ r.ticket = t /\ r.retry = FALSE
        /\ r.token = page[p].token /\ r.load = "no"
    BY <1>1, <2>1, <2>3 DEF PageState
  <2> HIDE DEF r, t
  <2> QED
    BY <2>1, <2>2, <2>4, OpenStep
<1>3. CASE Retry(p)
  <2> DEFINE t == page[p].ticket
             r == [page[p] EXCEPT !.sock = NextSocket, !.retry = FALSE]
  <2>1. t \in Tickets /\ page[p].token # "none" /\ page[p].sock = None
    BY <1>1, <1>3 DEF Retry, IInv, TypeOK, LinkInv, TokenlessIsOffline, PageState
  <2>2. /\ \E i \in Sockets : Free(i)
        /\ page' = [page EXCEPT ![p] = r] /\ socket' = Opened(Closed(p), NextSocket, t)
        /\ UNCHANGED <<tickets, registered, presence, told, smooth, trouble>>
    BY <1>3, <2>1 DEF Retry, Reopened, Closed
  <2>3. NextSocket \in Sockets
    BY <2>2, NextIsFree
  <2>4. /\ r \in PageState /\ r.sock = NextSocket /\ r.ticket = t /\ r.retry = FALSE
        /\ r.token = page[p].token /\ r.load = page[p].load /\ r.answer = page[p].answer
    BY <1>1, <2>3 DEF PageState
  <2>5. r.load = "answered" => r.answer # None
    BY <2>4 DEF IInv, LinkInv
  <2> HIDE DEF r, t
  <2> QED
    BY <2>1, <2>2, <2>4, <2>5, OpenStep
<1> QED
  BY <1>2, <1>3

\* Drop keeps the invariant.
LEMMA DropStep ==
  ASSUME IInv, NEW i \in Sockets, Drop(i)
  PROVE  IInv'
<1> DEFINE s == Hung(socket[i])
<1>1. socket[i] \in SocketState /\ tickets \subseteq Tickets /\ smooth \in BOOLEAN
  BY Types DEF IInv
<1>2. /\ s \in SocketState /\ s.open = FALSE
      /\ s.server = socket[i].server /\ s.first = socket[i].first
  BY <1>1, HungIsState
<1>3. /\ socket' = [socket EXCEPT ![i] = s] /\ ClosedOn(i, 1006)
      /\ UNCHANGED <<tickets, registered, presence, told, smooth>>
  BY DEF Drop
<1>4. trouble' \in 0 .. MaxTrouble
  BY TroubleCounted DEF Drop, IInv
<1> HIDE DEF s
<1>5. TypeOK' /\ LinkInv' /\ ServerInv'
  <2>1. Rest'
    BY <1>1, <1>3, <1>4 DEF Rest
  <2>2. Closes(i, s, 1006)
    BY <1>3 DEF Closes
  <2>3. s \in SocketState /\ ~s.open
    BY <1>2
  <2> QED
    BY <2>1, <2>2, <2>3, ClosedStep
<1>6. \A j \in Sockets : socket'[j].server = socket[j].server /\ socket'[j].first = socket[j].first
  BY <1>2, <1>3, Types DEF IInv
<1>7. ApartInv'
  BY <1>3, <1>6, ApartStep DEF IInv
<1> QED
  BY <1>5, <1>7 DEF IInv

\* Refuse keeps the invariant.
LEMMA RefuseStep ==
  ASSUME IInv, NEW i \in Sockets, Refuse(i)
  PROVE  IInv'
<1>1. PICK code : ClosedOn(i, code)
  BY DEF Refuse
<1>2. /\ socket' = [socket EXCEPT ![i] = Idle] /\ socket[i].server = "new"
      /\ UNCHANGED <<tickets, registered, presence, told, smooth, trouble>>
  BY DEF Refuse, Gone
<1>3. Rest'
  BY <1>2 DEF Rest, IInv, TypeOK
<1>4. TypeOK' /\ LinkInv' /\ ServerInv'
  <2>1. Closes(i, Idle, code)
    BY <1>1, <1>2 DEF Closes
  <2>2. Idle \in SocketState /\ ~Idle.open
    BY IdleIsState
  <2> QED
    BY <1>3, <2>1, <2>2, ClosedStep
<1>5. \A j \in Sockets :
         \/ socket'[j].server = socket[j].server /\ socket'[j].first = socket[j].first
         \/ {socket[j].server, socket'[j].server} \subseteq {"idle", "new", "serving"}
  BY <1>2, IdleIsState, Types DEF IInv
<1>6. ApartInv'
  BY <1>2, <1>5, ApartStep DEF IInv
<1> QED
  BY <1>4, <1>6 DEF IInv

\* HandlerFails keeps the invariant.
LEMMA HandlerFailsStep ==
  ASSUME IInv, NEW i \in Sockets, HandlerFails(i)
  PROVE  IInv'
<1>1. /\ socket' = [socket EXCEPT ![i] = Idle] /\ ClosedOn(i, 1006) /\ ~smooth'
      /\ UNCHANGED <<tickets, registered, presence, told>>
  BY DEF HandlerFails, Gone
<1>2. Rest'
  BY TroubleCounted DEF Rest, HandlerFails, IInv, TypeOK
<1>3. TypeOK' /\ LinkInv' /\ ServerInv'
  <2>1. Closes(i, Idle, 1006)
    BY <1>1 DEF Closes
  <2>2. Idle \in SocketState /\ ~Idle.open
    BY IdleIsState
  <2> QED
    BY <1>2, <2>1, <2>2, ClosedStep
<1> QED
  BY <1>1, <1>3, RoughStep DEF IInv

-----------------------------------------------------------------------------
(* The server's handlers                                                   *)

Working == {"accepting", "writing", "telling", "leaving", "untelling"}

\* One handler takes a step while no other is under way.
LEMMA AloneStep ==
  ASSUME NEW i \in Sockets, \A j \in Sockets : j # i => socket'[j].server = socket[j].server,
         Busy \subseteq {i},
         socket'[i].server \in Working => Progress(i)',
         socket'[i].server \notin Working => presence' = Right' /\ told' = Right'
  PROVE  ApartInv'
<1>1. Busy' \subseteq {i}
  BY DEF Busy
<1>2. CASE socket'[i].server \in Working
  <2>1. Busy' = {i}
    BY <1>1, <1>2 DEF Busy, Working
  <2> QED
    BY <1>2, <2>1 DEF ApartInv
<1>3. CASE socket'[i].server \notin Working
  <2>1. Busy' = {}
    BY <1>1, <1>3 DEF Busy, Working
  <2> QED
    BY <1>3, <2>1 DEF ApartInv
<1> QED
  BY <1>2, <1>3

\* While the history is smooth, a handler under way is the only one.
LEMMA OnlyOne ==
  ASSUME ApartInv, smooth, NEW i \in Sockets, socket[i].server \in Working
  PROVE  Busy \subseteq {i} /\ Progress(i)
  BY DEF ApartInv, Busy, Working

\* Authenticate keeps the invariant.
LEMMA AuthenticateStep ==
  ASSUME IInv, NEW i \in Sockets, Authenticate(i)
  PROVE  IInv'
<1> DEFINE s == [socket[i] EXCEPT !.server = "accepting", !.ticket = None,
                                  !.first = (registered = {})]
<1>1. socket[i] \in SocketState
  BY Types DEF IInv
<1>2. /\ s \in SocketState /\ s.open = socket[i].open /\ s.server = "accepting"
      /\ s.first <=> registered = {}
  BY <1>1 DEF SocketState, Phases
<1>3. /\ socket' = [socket EXCEPT ![i] = s] /\ smooth' = Apart(i)
      /\ UNCHANGED <<page, registered, presence, told, trouble>>
      /\ socket[i].server = "new"
  BY DEF Authenticate
<1>4. tickets' \subseteq Tickets /\ registered' \subseteq Sockets
      /\ {presence', told'} \subseteq {"online", "offline"}
  BY DEF Authenticate, IInv, TypeOK
<1>5. smooth' \in BOOLEAN
  BY <1>3, Zenon DEF Apart
<1> HIDE DEF s
<1>6. /\ socket'[i] = s
      /\ \A j \in Sockets : j # i => socket'[j] = socket[j]
  BY <1>3, Types DEF IInv
<1>7. TypeOK' /\ LinkInv' /\ ServerInv'
  <2>1. UNCHANGED <<page, trouble, registered>>
    BY <1>3
  <2>2. socket' = [socket EXCEPT ![i] = s]
    BY <1>3
  <2> QED
    BY <1>2, <1>4, <1>5, <2>1, <2>2, HandlerStep
<1>8. ApartInv'
  <2>1. CASE ~smooth'
    BY <2>1, RoughStep
  <2>2. CASE smooth'
    <3>1. smooth /\ Busy \subseteq {i}
      BY <1>3, <2>2 DEF Apart
    <3>2. Busy = {}
      BY <1>3, <3>1 DEF Busy
    <3>3. presence = Right /\ told = Right /\ Right' = Right
      BY <1>3, <3>1, <3>2 DEF IInv, ApartInv, Right
    <3>4. Progress(i)'
      BY <1>2, <1>3, <1>6, <3>3 DEF Progress
    <3> QED
      BY <1>2, <1>6, <3>1, <3>4, AloneStep DEF Working
  <2> QED
    BY <2>1, <2>2
<1> QED
  BY <1>7, <1>8 DEF IInv

\* Accept keeps the invariant.
LEMMA AcceptStep ==
  ASSUME IInv, NEW i \in Sockets, Accept(i)
  PROVE  IInv'
<1> DEFINE phase == IF socket[i].first THEN "writing" ELSE "serving"
           s == [socket[i] EXCEPT !.first = FALSE, !.server = phase]
<1>1. socket[i] \in SocketState
  BY Types DEF IInv
<1>2. /\ s \in SocketState /\ s.open = socket[i].open /\ s.server = phase
      /\ phase \in {"writing", "serving"}
  BY <1>1 DEF SocketState, Phases
<1>3. /\ socket' = [socket EXCEPT ![i] = s] /\ registered' = registered \cup {i}
      /\ UNCHANGED <<page, tickets, presence, told, trouble>>
      /\ socket[i].server = "accepting"
  BY DEF Accept
<1>4. smooth' = smooth
  BY DEF Accept
<1>5. /\ tickets' \subseteq Tickets /\ registered' \subseteq Sockets
      /\ {presence', told'} \subseteq {"online", "offline"} /\ smooth' \in BOOLEAN
  BY <1>3, <1>4 DEF IInv, TypeOK
<1>6. phase = "writing" <=> socket[i].first
  BY <1>1 DEF SocketState
<1> HIDE DEF s, phase
<1>7. /\ socket'[i] = s
      /\ \A j \in Sockets : j # i => socket'[j] = socket[j]
  BY <1>3, Types DEF IInv
<1>8. TypeOK' /\ LinkInv' /\ ServerInv'
  <2>1. /\ UNCHANGED <<page, trouble>> /\ socket' = [socket EXCEPT ![i] = s]
        /\ i \in registered' /\ registered \subseteq registered'
        /\ s.server \notin {"leaving", "untelling"}
    BY <1>2, <1>3
  <2> QED
    BY <1>2, <1>5, <2>1, HandlerStep
<1>9. ApartInv'
  <2>1. CASE ~smooth'
    BY <2>1, RoughStep
  <2>2. CASE smooth'
    <3>1. Busy \subseteq {i} /\ Progress(i)
      BY <1>3, <1>4, <2>2, OnlyOne DEF IInv, Working
    <3>2. /\ socket[i].first <=> registered = {}
          /\ presence = Right /\ told = Right
      BY <1>3, <3>1 DEF Progress
    <3>3. Right' = "online"
      BY <1>3 DEF Right
    <3>4. CASE registered = {}
      <4>1. phase = "writing" /\ registered' = {i} /\ Right = "offline"
        BY <1>3, <1>6, <3>2, <3>4 DEF Right
      <4>2. Progress(i)'
        BY <1>2, <1>3, <1>7, <3>2, <4>1 DEF Progress
      <4> QED
        BY <1>2, <1>7, <3>1, <4>1, <4>2, AloneStep DEF Working
    <3>5. CASE registered # {}
      <4>1. phase = "serving" /\ Right = "online"
        BY <1>2, <1>6, <3>2, <3>5 DEF Right
      <4>2. presence' = Right' /\ told' = Right'
        BY <1>3, <3>2, <3>3, <4>1
      <4> QED
        BY <1>2, <1>7, <3>1, <4>1, <4>2, AloneStep DEF Working
    <3> QED
      BY <3>4, <3>5
  <2> QED
    BY <2>1, <2>2
<1> QED
  BY <1>8, <1>9 DEF IInv

\* A handler that moves on leaves its socket a state of a socket.
LEMMA GoesIsState ==
  ASSUME IInv, NEW i \in Sockets, NEW phase \in Phases
  PROVE  \E s \in SocketState :
            /\ Goes(i, phase) = [socket EXCEPT ![i] = s]
            /\ s.server = phase /\ s.open = socket[i].open
<1> DEFINE s == [socket[i] EXCEPT !.server = phase]
<1>1. socket[i] \in SocketState
  BY Types DEF IInv
<1>2. s \in SocketState /\ s.server = phase /\ s.open = socket[i].open
  BY <1>1 DEF SocketState
<1>3. Goes(i, phase) = [socket EXCEPT ![i] = s]
  BY DEF Goes
<1> HIDE DEF s
<1> QED
  BY <1>2, <1>3

\* A step of a handler that changes one socket and, it may be, what is stored
\* or told of the user.
LEMMA PhaseStep ==
  ASSUME IInv, NEW i \in Sockets, NEW s \in SocketState, socket' = [socket EXCEPT ![i] = s],
         s.open <=> socket[i].open, socket[i].server \in Working,
         s.open /\ s.server \in {"writing", "telling", "serving"} => i \in registered,
         s.server \in {"leaving", "untelling"} => ~s.open,
         UNCHANGED <<page, tickets, registered, trouble>>, smooth' = smooth,
         {presence', told'} \subseteq {"online", "offline"},
         Progress(i) /\ s.server \in Working => Progress(i)',
         Progress(i) /\ s.server \notin Working => presence' = Right' /\ told' = Right'
  PROVE  IInv'
<1>1. /\ socket'[i] = s
      /\ \A j \in Sockets : j # i => socket'[j] = socket[j]
  BY Types DEF IInv
<1>2. TypeOK' /\ LinkInv' /\ ServerInv'
  <2>1. /\ tickets' \subseteq Tickets /\ registered' \subseteq Sockets
        /\ smooth' \in BOOLEAN
    BY DEF IInv, TypeOK
  <2>2. UNCHANGED <<page, registered, trouble>>
    OBVIOUS
  <2> QED
    BY <2>1, <2>2, HandlerStep
<1>3. ApartInv'
  <2>1. CASE ~smooth'
    BY <2>1, RoughStep
  <2>2. CASE smooth'
    <3>1. Busy \subseteq {i} /\ Progress(i)
      BY <2>2, OnlyOne DEF IInv
    <3> QED
      BY <1>1, <3>1, AloneStep
  <2> QED
    BY <2>1, <2>2
<1> QED
  BY <1>2, <1>3 DEF IInv

\* SetPresence keeps the invariant.
LEMMA SetPresenceStep ==
  ASSUME IInv, NEW i \in Sockets, SetPresence(i)
  PROVE  IInv'
<1>1. UNCHANGED <<page, tickets, registered, told, trouble>>
  BY DEF SetPresence
<1>2. smooth' = smooth
  BY DEF SetPresence
<1>3. CASE socket[i].server = "writing" /\ presence' = "online" /\ socket' = Goes(i, "telling")
  <2>1. PICK s \in SocketState : /\ socket' = [socket EXCEPT ![i] = s]
                                /\ s.server = "telling" /\ s.open = socket[i].open
    BY <1>3, GoesIsState DEF Phases
  <2>2. s.open => i \in registered
    BY <1>3, <2>1 DEF IInv, ServerInv
  <2>3. socket'[i].server = "telling"
    BY <2>1, Types DEF IInv
  <2>4. Progress(i) => Progress(i)'
    BY <1>1, <1>3, <2>3 DEF Progress
  <2>5. {presence', told'} \subseteq {"online", "offline"}
    BY <1>1, <1>3 DEF IInv, TypeOK
  <2> QED
    BY <1>1, <1>2, <1>3, <2>1, <2>2, <2>4, <2>5, PhaseStep DEF Working
<1>4. CASE socket[i].server = "leaving" /\ presence' = "offline" /\ socket' = Goes(i, "untelling")
  <2>1. PICK s \in SocketState : /\ socket' = [socket EXCEPT ![i] = s]
                                /\ s.server = "untelling" /\ s.open = socket[i].open
    BY <1>4, GoesIsState DEF Phases
  <2>2. ~s.open
    BY <1>4, <2>1 DEF IInv, ServerInv
  <2>3. socket'[i].server = "untelling"
    BY <2>1, Types DEF IInv
  <2>4. Progress(i) => Progress(i)'
    BY <1>1, <1>4, <2>3 DEF Progress
  <2>5. {presence', told'} \subseteq {"online", "offline"}
    BY <1>1, <1>4 DEF IInv, TypeOK
  <2> QED
    BY <1>1, <1>2, <1>4, <2>1, <2>2, <2>4, <2>5, PhaseStep DEF Working
<1> QED
  BY <1>3, <1>4 DEF SetPresence

\* TellPeers keeps the invariant.
LEMMA TellPeersStep ==
  ASSUME IInv, NEW i \in Sockets, TellPeers(i)
  PROVE  IInv'
<1>1. UNCHANGED <<page, tickets, registered, presence, trouble>>
  BY DEF TellPeers
<1>2. smooth' = smooth
  BY DEF TellPeers
<1>3. CASE socket[i].server = "telling" /\ told' = "online" /\ socket' = Goes(i, "serving")
  <2>1. PICK s \in SocketState : /\ socket' = [socket EXCEPT ![i] = s]
                                /\ s.server = "serving" /\ s.open = socket[i].open
    BY <1>3, GoesIsState DEF Phases
  <2>2. s.open => i \in registered
    BY <1>3, <2>1 DEF IInv, ServerInv
  <2>3. Progress(i) => presence' = Right' /\ told' = Right'
    BY <1>1, <1>3 DEF Progress, Right
  <2>4. {presence', told'} \subseteq {"online", "offline"}
    BY <1>1, <1>3 DEF IInv, TypeOK
  <2> QED
    BY <1>1, <1>2, <1>3, <2>1, <2>2, <2>3, <2>4, PhaseStep DEF Working
<1>4. CASE socket[i].server = "untelling" /\ told' = "offline" /\ socket' = Gone(i)
  <2>1. socket' = [socket EXCEPT ![i] = Idle]
    BY <1>4 DEF Gone
  <2>2. ~socket[i].open /\ socket[i].open \in BOOLEAN
    BY <1>4, Types DEF IInv, ServerInv, SocketState
  <2>3. /\ Idle \in SocketState /\ (Idle.open <=> socket[i].open) /\ Idle.server = "idle"
    BY <2>2, IdleIsState
  <2>4. Progress(i) => presence' = Right' /\ told' = Right'
    BY <1>1, <1>4 DEF Progress, Right
  <2>5. {presence', told'} \subseteq {"online", "offline"}
    BY <1>1, <1>4 DEF IInv, TypeOK
  <2> QED
    BY <1>1, <1>2, <1>4, <2>1, <2>3, <2>4, <2>5, PhaseStep DEF Working
<1> QED
  BY <1>3, <1>4 DEF TellPeers

\* Prune keeps the invariant.
LEMMA PruneStep ==
  ASSUME IInv, NEW i \in Sockets, Prune(i)
  PROVE  IInv'
<1>1. /\ ~socket[i].open /\ registered' = registered \ {i} /\ smooth' = FALSE
      /\ UNCHANGED <<page, socket, tickets, presence, told, trouble>>
  BY DEF Prune, Without
<1>2. TypeOK' /\ LinkInv'
  <2>1. TypeOK'
    BY <1>1 DEF IInv, TypeOK
  <2>2. LinkInv'
    BY <1>1 DEF IInv, LinkInv, TokenlessIsOffline
  <2> QED
    BY <2>1, <2>2
<1>3. ServerInv'
  BY <1>1 DEF IInv, ServerInv
<1> QED
  BY <1>1, <1>2, <1>3, RoughStep DEF IInv

\* Disconnect keeps the invariant.
LEMMA DisconnectStep ==
  ASSUME IInv, NEW i \in Sockets, Disconnect(i)
  PROVE  IInv'
<1>1. /\ ~socket[i].open /\ socket[i].server = "serving"
      /\ registered' = registered \ {i} /\ smooth' = Apart(i)
      /\ UNCHANGED <<page, tickets, presence, told, trouble>>
  BY DEF Disconnect, Without
<1>2. socket[i].open \in BOOLEAN /\ registered \subseteq Sockets
  BY Types DEF IInv, SocketState
<1>3. PICK s \in SocketState :
        /\ socket' = [socket EXCEPT ![i] = s] /\ (s.open <=> socket[i].open)
        /\ WasLast(i) => s.server = "leaving"
        /\ ~WasLast(i) => s.server = "idle"
  <2>1. CASE WasLast(i)
    BY <2>1, GoesIsState DEF Disconnect, Phases
  <2>2. CASE ~WasLast(i)
    BY <1>1, <1>2, <2>2, IdleIsState DEF Disconnect, Gone
  <2> QED
    BY <2>1, <2>2
<1>4. /\ socket'[i] = s
      /\ \A j \in Sockets : j # i => socket'[j] = socket[j]
  BY <1>3, Types DEF IInv
<1>5. s.server \in {"leaving", "idle"} /\ ~s.open
  BY <1>1, <1>3
<1>6. smooth' \in BOOLEAN
  BY <1>1, Zenon DEF Apart
<1>7. TypeOK' /\ LinkInv' /\ ServerInv'
  <2>1. /\ tickets' \subseteq Tickets /\ registered' \subseteq Sockets
        /\ {presence', told'} \subseteq {"online", "offline"}
        /\ \A j \in Sockets : j # i /\ j \in registered => j \in registered'
    BY <1>1 DEF IInv, TypeOK
  <2>2. UNCHANGED <<page, trouble>> /\ socket' = [socket EXCEPT ![i] = s]
    BY <1>1, <1>3
  <2> QED
    BY <1>3, <1>5, <1>6, <2>1, <2>2, HandlerStep
<1>8. ApartInv'
  <2>1. CASE ~smooth'
    BY <2>1, RoughStep
  <2>2. CASE smooth'
    <3>1. smooth /\ Busy \subseteq {i}
      BY <1>1, <2>2 DEF Apart
    <3>2. Busy = {}
      BY <1>1, <3>1 DEF Busy
    <3>3. presence = Right /\ told = Right
      BY <3>1, <3>2 DEF IInv, ApartInv
    <3>4. CASE WasLast(i)
      <4>1. registered # {} /\ registered' = {} /\ Right = "online"
        BY <1>1, <3>4 DEF WasLast, Without, Right
      <4>2. Progress(i)'
        BY <1>1, <1>3, <1>4, <3>3, <3>4, <4>1 DEF Progress
      <4> QED
        BY <1>3, <1>4, <3>1, <3>4, <4>2, AloneStep DEF Working
    <3>5. CASE ~WasLast(i)
      <4>1. Right' = Right
        BY <1>1, <3>5 DEF WasLast, Without, Right
      <4>2. presence' = Right' /\ told' = Right'
        BY <1>1, <3>3, <4>1
      <4> QED
        BY <1>3, <1>4, <3>1, <3>5, <4>2, AloneStep DEF Working
    <3> QED
      BY <3>4, <3>5
  <2> QED
    BY <2>1, <2>2
<1> QED
  BY <1>7, <1>8 DEF IInv

-----------------------------------------------------------------------------

\* Every step keeps the invariant.
LEMMA StepInv == IInv /\ [Next]_vars => IInv'
<1> SUFFICES ASSUME IInv, [Next]_vars PROVE IInv'
  OBVIOUS
<1>1. ASSUME NEW p \in Pages, SignIn(p) \/ RenewToken(p) \/ TokenRenewed(p) \/ RevokeToken(p)
      PROVE IInv'
  BY <1>1, TokenStep
<1>2. ASSUME NEW p \in Pages, SignOut(p) \/ SessionEnds(p) PROVE IInv'
  BY <1>2, SignOutStep
<1>3. ASSUME NEW p \in Pages, IssueTicket(p) \/ LoadFails(p) PROVE IInv'
  BY <1>3, LoadStep
<1>4. ASSUME NEW p \in Pages, TicketArrives(p) \/ Retry(p) PROVE IInv'
  BY <1>4, ConnectStep
<1>5. ASSUME NEW t \in Tickets, ExpireTicket(t) PROVE IInv'
  BY <1>5, ExpireStep
<1>6. ASSUME NEW i \in Sockets, Drop(i) \/ Refuse(i) \/ HandlerFails(i) PROVE IInv'
  BY <1>6, DropStep, RefuseStep, HandlerFailsStep
<1>7. ASSUME NEW i \in Sockets, Authenticate(i) \/ Accept(i) \/ SetPresence(i) PROVE IInv'
  BY <1>7, AuthenticateStep, AcceptStep, SetPresenceStep
<1>8. ASSUME NEW i \in Sockets, TellPeers(i) \/ Disconnect(i) \/ Prune(i) PROVE IInv'
  BY <1>8, TellPeersStep, DisconnectStep, PruneStep
<1>9. CASE UNCHANGED vars
  <2>1. UNCHANGED <<page, socket, tickets, registered, presence, told, smooth, trouble>>
    BY <1>9 DEF vars
  <2>2. TypeOK'
    BY <2>1 DEF IInv, TypeOK
  <2>3. LinkInv' /\ ServerInv'
    BY <2>1 DEF IInv, LinkInv, TokenlessIsOffline, ServerInv
  <2>4. ApartInv'
    BY <2>1, ApartStep DEF IInv
  <2> QED
    BY <2>2, <2>3, <2>4 DEF IInv
<1> QED
  BY <1>1, <1>2, <1>3, <1>4, <1>5, <1>6, <1>7, <1>8, <1>9 DEF Next

\* The invariant holds throughout.
LEMMA AlwaysIInv == Spec => []IInv
  BY InitInv, StepInv, PTL DEF Spec

-----------------------------------------------------------------------------

\* What the page, the server and the store know are of their types; a page
\* retries only with a ticket and no socket (useWebSocket.ts).
THEOREM GatewayTypes == Spec => []TypeOK
<1>1. IInv => TypeOK
  BY DEF IInv
<1> QED
  BY <1>1, AlwaysIInv, PTL

\* A page whose token is gone has no ticket, no socket and no retry, whatever
\* was in flight (App.tsx, handleSignOut and loadSessionState).
THEOREM TokenlessOffline == Spec => []TokenlessIsOffline
<1>1. IInv => TokenlessIsOffline
  BY DEF IInv, LinkInv
<1> QED
  BY <1>1, AlwaysIInv, PTL

\* No connection a page has replaced stays open, and no two pages share one
\* (useWebSocket.ts, the effect and its cleanup).
THEOREM OneSocket == Spec => []OneSocketPerPage
<1>1. ASSUME IInv PROVE OneSocketPerPage
  <2> SUFFICES ASSUME NEW i \in Sockets, socket[i].open
               PROVE  Cardinality({p \in Pages : page[p].sock = i}) = 1
    BY DEF OneSocketPerPage
  <2>1. PICK p \in Pages : page[p].sock = i
    BY <1>1 DEF IInv, LinkInv
  <2>2. {q \in Pages : page[q].sock = i} = {p}
    BY <1>1, <2>1, NoneIsNoNumber DEF IInv, LinkInv
  <2> QED
    BY <2>2, FS_Singleton
<1> QED
  BY <1>1, AlwaysIInv, PTL

\* What is routed to a user reaches every socket being served whose client is
\* still there (ws_manager.py, connect and disconnect).
THEOREM ServedRegistered == Spec => []ServedIsRegistered
<1>1. IInv => ServedIsRegistered
  BY DEF IInv, ServerInv, ServedIsRegistered
<1> QED
  BY <1>1, AlwaysIInv, PTL

\* As long as no two handlers overlap and none fails, the presence stored and
\* the presence told are right whenever no handler is under way (ws.py).
THEOREM PresenceRight == Spec => []PresenceWhenApart
<1>1. ASSUME IInv PROVE PresenceWhenApart
  <2> SUFFICES ASSUME smooth, Quiet PROVE presence = Right /\ told = Right
    BY DEF PresenceWhenApart, Right
  <2>1. Busy = {}
    BY DEF Quiet, Busy
  <2> QED
    BY <1>1, <2>1 DEF IInv, ApartInv
<1> QED
  BY <1>1, AlwaysIInv, PTL
=============================================================================
