------------------------------- MODULE Gateway -------------------------------
(* How the pages of one user come to hold a realtime socket and keep it:   *)
(* application tokens (App.tsx, auth.py), one-use tickets (security.py,    *)
(* runtime_state.py), the client's socket and its retries                  *)
(* (useWebSocket.ts), and on the server the registry of sockets            *)
(* (ws_manager.py) and the presence it announces (ws.py), on one server    *)
(* process. What the sockets carry is modelled in Timeline and Calls.      *)
EXTENDS Naturals, FiniteSets

CONSTANTS Pages,
          Sockets,      \* numbers for the connections there may be at once
          Tickets,      \* numbers for the tickets there may be at once
          MaxTrouble    \* bound: connections, requests and handlers that fail

ASSUME GatewayAssumption ==
    /\ Sockets \subseteq Nat \ {0} /\ Tickets \subseteq Nat \ {0}
    /\ MaxTrouble \in Nat

VARIABLES page,         \* what each page knows
          socket,       \* the connections, seen from both ends
          tickets,      \* the tickets the runtime store holds
          registered,   \* active_connections[user_id]
          presence,     \* the stored presence of the user
          told,         \* the state its peers were told last
          smooth,       \* history: handlers never overlapped and none failed
          trouble

vars == <<page, socket, tickets, registered, presence, told, smooth, trouble>>

\* No ticket, no socket.
None == 0

SignedOut == [flow |-> FALSE, leaving |-> FALSE, token |-> "none", renewing |-> FALSE,
              load |-> "no", answer |-> None, ticket |-> None, sock |-> None, retry |-> FALSE]

\* open: the client has not closed its end; first: connect() found no other.
Idle == [ticket |-> None, open |-> FALSE, server |-> "idle", first |-> FALSE]

Init ==
    /\ page = [p \in Pages |-> SignedOut]
    /\ socket = [i \in Sockets |-> Idle]
    /\ tickets = {} /\ registered = {}
    /\ presence = "offline" /\ told = "offline"
    /\ smooth = TRUE /\ trouble = 0

Trouble == trouble < MaxTrouble /\ trouble' = trouble + 1

\* A number is free once neither end nor the registry knows the connection.
Free(i) == socket[i] = Idle /\ i \notin registered
NextSocket == CHOOSE i \in Sockets : Free(i) /\ \A j \in Sockets : Free(j) => i <= j

Hung(s) == [s EXCEPT !.open = FALSE]

\* The cleanup of the socket effect: close it, and forget the timer.
Closed(p) == IF page[p].sock = None THEN socket
             ELSE [socket EXCEPT ![page[p].sock] = Hung(@)]

Opened(sockets, i, t) == [sockets EXCEPT ![i] = [Idle EXCEPT !.ticket = t, !.open = TRUE,
                                                             !.server = "new"]]

-----------------------------------------------------------------------------
(* Tokens                                                                  *)

\* The vault has been unlocked: setAuthToken starts loadSessionState.
SignIn(p) ==
    /\ ~page[p].flow
    /\ page' = [page EXCEPT ![p] = [@ EXCEPT !.flow = TRUE, !.token = "good", !.load = "asked",
                                             !.answer = None]]
    /\ UNCHANGED <<socket, tickets, registered, presence, told, smooth, trouble>>

\* No refresh overtakes the load of the one before: tokens live for an hour.
Settled(p) ==
    /\ page[p].load = "no"
    /\ page[p].sock # None => socket[page[p].sock].server \notin {"new", "accepting"}

\* acceptSession has a new token and revokes the old one, if it can ...
RenewToken(p) ==
    /\ page[p].flow /\ page[p].token # "none" /\ ~page[p].renewing /\ Settled(p)
    /\ \/ page' = [page EXCEPT ![p] = [@ EXCEPT !.renewing = TRUE, !.token = "revoked"]]
          /\ UNCHANGED trouble
       \/ page' = [page EXCEPT ![p] = [@ EXCEPT !.renewing = TRUE]] /\ Trouble
    /\ UNCHANGED <<socket, tickets, registered, presence, told, smooth>>

TokenWithoutLoad(p) == [page EXCEPT ![p] = [@ EXCEPT !.token = "good", !.renewing = FALSE]]
\* ... and sets the new one, whether or not the user has signed out meanwhile.
NewToken(p) == [page EXCEPT ![p] = [@ EXCEPT !.token = "good", !.renewing = FALSE,
                                             !.load = "asked", !.answer = None]]

TokenRenewed(p) ==
    /\ page[p].renewing /\ page' = NewToken(p)
    /\ UNCHANGED <<socket, tickets, registered, presence, told, smooth, trouble>>

\* handleSignOut revokes the token, if it can ...
RevokeToken(p) ==
    /\ page[p].flow /\ ~page[p].leaving
    /\ \E token \in {page[p].token, "revoked"} :
         page' = [page EXCEPT ![p] = [@ EXCEPT !.leaving = TRUE, !.token = token]]
    /\ UNCHANGED <<socket, tickets, registered, presence, told, smooth, trouble>>

\* A sign-out leaves nothing but a renewal under way: a load started with the
\* token that is gone drops its answer.
ClearedButLoad(p) == [SignedOut EXCEPT !.renewing = page[p].renewing, !.load = page[p].load,
                                       !.answer = page[p].answer]
Cleared(p) == [SignedOut EXCEPT !.renewing = page[p].renewing]

Clears(p) ==
    /\ page[p].flow
    /\ page' = [page EXCEPT ![p] = Cleared(p)] /\ socket' = Closed(p)
    /\ UNCHANGED <<tickets, registered, presence, told, smooth, trouble>>

\* ... and, with or without an answer, clears the page.
SignOut(p) == page[p].leaving /\ Clears(p)

\* acceptSession(null): the session ended elsewhere, in another tab or by
\* expiry. The page is cleared at once, as it is when the vault is locked; the
\* logout it sends is not waited for.
SessionEnds(p) == Clears(p)

-----------------------------------------------------------------------------
(* Tickets                                                                 *)

Held(t) == \/ \E p \in Pages : t \in {page[p].answer, page[p].ticket}
           \/ \E i \in Sockets : socket[i].ticket = t
FreshTicket(t) == t \in Tickets \ tickets /\ ~Held(t)

\* POST /ws-ticket of a token that is not revoked.
IssueTicket(p) ==
    /\ page[p].load = "asked" /\ page[p].token = "good"
    /\ \E t \in Tickets :
         /\ FreshTicket(t) /\ \A u \in Tickets : FreshTicket(u) => t <= u
         /\ tickets' = tickets \cup {t}
         /\ page' = [page EXCEPT ![p] = [@ EXCEPT !.load = "answered", !.answer = t]]
    /\ UNCHANGED <<socket, registered, presence, told, smooth, trouble>>

\* The bootstrap or the ticket request fails; the load is not tried again.
LoadFails(p) ==
    /\ page[p].load # "no"
    /\ IF page[p].token = "revoked" /\ page[p].load = "asked" THEN UNCHANGED trouble ELSE Trouble
    /\ page' = [page EXCEPT ![p] = [@ EXCEPT !.load = "no", !.answer = None]]
    /\ UNCHANGED <<socket, tickets, registered, presence, told, smooth>>

\* Thirty seconds pass; a ticket somebody is about to use seldom takes that long.
ExpireTicket(t) ==
    /\ t \in tickets /\ tickets' = tickets \ {t}
    /\ IF Held(t) THEN Trouble ELSE UNCHANGED trouble
    /\ UNCHANGED <<page, socket, registered, presence, told, smooth>>

-----------------------------------------------------------------------------
(* The client's socket                                                     *)

Reopened(p, t) == Opened(socket, NextSocket, t)
Replaced(p, t) == Opened(Closed(p), NextSocket, t)

Shown(p) == [page EXCEPT ![p] = [@ EXCEPT !.load = "no", !.answer = None,
                                          !.ticket = page[p].answer, !.sock = NextSocket,
                                          !.retry = FALSE]]

\* setWsTicket changes the URL: the old socket is closed and a new one opened.
TicketArrives(p) ==
    /\ page[p].load = "answered" /\ \E i \in Sockets : Free(i)
    /\ socket' = Replaced(p, page[p].answer)
    /\ page' = Shown(p)
    /\ UNCHANGED <<tickets, registered, presence, told, smooth, trouble>>

\* onclose of the page's own socket: 4001 ends the session's ticket, anything
\* else starts the retry timer. A socket the page has closed itself is ignored.
AfterClose(p, code) ==
    IF code = 4001
    THEN [page EXCEPT ![p] = [@ EXCEPT !.sock = None, !.ticket = None]]
    ELSE [page EXCEPT ![p] = [@ EXCEPT !.sock = None, !.retry = TRUE]]

ClosedOn(i, code) ==
    IF \E p \in Pages : page[p].sock = i
    THEN page' = AfterClose(CHOOSE p \in Pages : page[p].sock = i, code)
    ELSE UNCHANGED page

\* The timer opens the same URL again, with the same ticket.
Retry(p) ==
    /\ page[p].retry /\ \E i \in Sockets : Free(i)
    /\ socket' = Reopened(p, page[p].ticket)
    /\ page' = [page EXCEPT ![p] = [@ EXCEPT !.sock = NextSocket, !.retry = FALSE]]
    /\ UNCHANGED <<tickets, registered, presence, told, smooth, trouble>>

\* The connection breaks.
Drop(i) ==
    /\ socket[i].open /\ Trouble
    /\ socket' = [socket EXCEPT ![i] = Hung(@)] /\ ClosedOn(i, 1006)
    /\ UNCHANGED <<tickets, registered, presence, told, smooth>>

-----------------------------------------------------------------------------
(* The server's handler of one socket                                      *)

Busy == {i \in Sockets : socket[i].server \in {"accepting", "writing", "telling",
                                               "leaving", "untelling"}}
Apart(i) == smooth /\ Busy \subseteq {i}

Goes(i, phase) == [socket EXCEPT ![i] = [@ EXCEPT !.server = phase]]
Gone(i) == [socket EXCEPT ![i] = Idle]

\* get_ws_user consumes the ticket; connect() then looks for other sockets.
Authenticate(i) ==
    /\ socket[i].server = "new" /\ socket[i].ticket \in tickets
    /\ tickets' = tickets \ {socket[i].ticket}
    /\ socket' = [socket EXCEPT ![i] = [@ EXCEPT !.server = "accepting", !.ticket = None,
                                                !.first = (registered = {})]]
    /\ smooth' = Apart(i)
    /\ UNCHANGED <<page, registered, presence, told, trouble>>

\* Closed before it was accepted: a browser reports 4001 or, the handshake
\* having been refused, 1006.
Refuse(i) ==
    /\ socket[i].server = "new" /\ socket[i].ticket \notin tickets
    /\ socket' = Gone(i)
    /\ \E code \in {4001, 1006} : ClosedOn(i, code)
    /\ UNCHANGED <<tickets, registered, presence, told, smooth, trouble>>

Accept(i) ==
    /\ socket[i].server = "accepting" /\ registered' = registered \cup {i}
    /\ socket' = [socket EXCEPT ![i] = [@ EXCEPT !.first = FALSE,
                                     !.server = IF socket[i].first THEN "writing" ELSE "serving"]]
    /\ UNCHANGED <<page, tickets, presence, told, smooth, trouble>>

\* set_presence_state, and the events published to the peers after it.
SetPresence(i) ==
    /\ \/ socket[i].server = "writing" /\ presence' = "online" /\ socket' = Goes(i, "telling")
       \/ socket[i].server = "leaving" /\ presence' = "offline" /\ socket' = Goes(i, "untelling")
    /\ UNCHANGED <<page, tickets, registered, told, smooth, trouble>>

TellPeers(i) ==
    /\ \/ socket[i].server = "telling" /\ told' = "online" /\ socket' = Goes(i, "serving")
       \/ socket[i].server = "untelling" /\ told' = "offline" /\ socket' = Gone(i)
    /\ UNCHANGED <<page, tickets, registered, presence, smooth, trouble>>

Without(i) == registered \ {i}
WasLastBefore(i) == registered = {}
\* disconnect(): the user's last socket, if the registry still had any.
WasLast(i) == registered # {} /\ Without(i) = {}

\* receive_text finds the client gone.
Disconnect(i) ==
    /\ socket[i].server = "serving" /\ ~socket[i].open
    /\ registered' = Without(i)
    /\ socket' = IF WasLast(i) THEN Goes(i, "leaving") ELSE Gone(i)
    /\ smooth' = Apart(i)
    /\ UNCHANGED <<page, tickets, presence, told, trouble>>

\* A send to a connection that is down takes it out of the registry, and
\* nobody is told.
Prune(i) ==
    /\ i \in registered /\ ~socket[i].open /\ registered' = Without(i) /\ smooth' = FALSE
    /\ UNCHANGED <<page, socket, tickets, presence, told, trouble>>

\* The store or the database fails under a handler: it ends outside its
\* `except WebSocketDisconnect`, and the socket stays registered.
HandlerFails(i) ==
    /\ socket[i].server \in {"writing", "telling", "serving"} /\ Trouble
    /\ socket' = Gone(i) /\ ClosedOn(i, 1006) /\ smooth' = FALSE
    /\ UNCHANGED <<tickets, registered, presence, told>>

Handle(i) == Authenticate(i) \/ Refuse(i) \/ Accept(i) \/ SetPresence(i) \/ TellPeers(i)
             \/ Disconnect(i)

Next ==
    \/ \E p \in Pages :
         \/ SignIn(p) \/ RenewToken(p) \/ TokenRenewed(p) \/ RevokeToken(p)
         \/ SignOut(p) \/ SessionEnds(p)
         \/ IssueTicket(p) \/ LoadFails(p) \/ TicketArrives(p) \/ Retry(p)
    \/ \E t \in Tickets : ExpireTicket(t)
    \/ \E i \in Sockets :
         \/ Drop(i) \/ Authenticate(i) \/ Refuse(i) \/ Accept(i) \/ SetPresence(i)
         \/ TellPeers(i) \/ Disconnect(i) \/ Prune(i) \/ HandlerFails(i)

Spec == Init /\ [][Next]_vars

\* Requests are answered, timers fire and handlers run on; tokens are renewed
\* every hour; tickets expire.
FairSpec ==
    /\ Spec
    /\ \A p \in Pages :
         /\ WF_vars(IssueTicket(p)) /\ SF_vars(TicketArrives(p)) /\ SF_vars(Retry(p))
         /\ WF_vars(page[p].token = "revoked" /\ LoadFails(p))
         /\ SF_vars(RenewToken(p)) /\ WF_vars(TokenRenewed(p))
         /\ WF_vars(SignOut(p))
    /\ \A t \in Tickets : WF_vars(ExpireTicket(t))
    /\ \A i \in Sockets : WF_vars(Handle(i))

-----------------------------------------------------------------------------

Phases == {"idle", "new", "accepting", "writing", "telling", "serving", "leaving", "untelling"}

\* Types; a retry waits only for a page with a ticket and no socket; and a
\* page's socket is one it has not closed.
TypeOK ==
    /\ page \in [Pages -> [flow : BOOLEAN, leaving : BOOLEAN, token : {"none", "good", "revoked"},
                           renewing : BOOLEAN, load : {"no", "asked", "answered"},
                           answer : Tickets \cup {None}, ticket : Tickets \cup {None}, sock : Sockets \cup {None},
                           retry : BOOLEAN]]
    /\ socket \in [Sockets -> [ticket : Tickets \cup {None}, open : BOOLEAN, server : Phases,
                               first : BOOLEAN]]
    /\ tickets \subseteq Tickets /\ registered \subseteq Sockets
    /\ {presence, told} \subseteq {"online", "offline"} /\ smooth \in BOOLEAN
    /\ trouble \in 0 .. MaxTrouble
    /\ \A p \in Pages : page[p].retry => page[p].ticket # None /\ page[p].sock = None
    /\ \A p \in Pages : page[p].sock # None => socket[page[p].sock].open

\* Without a token a page has no ticket, no socket and no retry, whatever was
\* in flight when the token went.
TokenlessIsOffline ==
    \A p \in Pages : page[p].token = "none" =>
        /\ page[p].load = "no" /\ page[p].ticket = None
        /\ page[p].sock = None /\ ~page[p].retry

\* Every connection whose client end is open is the one socket of one page:
\* nothing a page has replaced goes on receiving.
OneSocketPerPage ==
    \A i \in Sockets : socket[i].open => Cardinality({p \in Pages : page[p].sock = i}) = 1

\* A socket that is being served, whose client is there, is registered: what
\* is routed to the user reaches it.
ServedIsRegistered ==
    \A i \in Sockets : socket[i].server = "serving" /\ socket[i].open => i \in registered

Quiet == \A i \in Sockets : socket[i].server \in {"idle", "new", "serving"}

\* "When the last socket disconnects, the backend publishes `offline`"
\* (INSTRUCTIONS.md), for connections that come and go one at a time.
PresenceWhenApart ==
    smooth /\ Quiet =>
        LET right == IF registered = {} THEN "offline" ELSE "online"
        IN presence = right /\ told = right

Connected(p) == page[p].sock \in registered

\* A page that stays signed in gets its socket back, at the next renewal of
\* its token if not before.
ComesBack == \A p \in Pages : []<>(~page[p].flow \/ Connected(p))

(* Stated by the documents and false: see the README.                      *)

\* "a Supabase sign-out clears and revokes the WalkerChat token"
\* (phase-02-auth.md): TokenRenewed does not look whether the user has left.
SignedOutIsOffline == \A p \in Pages : ~page[p].flow => page[p].sock = None

\* "Reconnecting WebSocket hook" (INSTRUCTIONS.md): the ticket that a retry
\* sends again has been used up by the connection it replaces.
RetriesCanSucceed == \A p \in Pages : page[p].retry => page[p].ticket \in tickets

=============================================================================
