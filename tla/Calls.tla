--------------------------------- MODULE Calls ---------------------------------
(***************************************************************************)
(* One-to-one calls: the hook useWebRTC (frontend/src/hooks/useWebRTC.ts)  *)
(* at every user, the way App.tsx gives it signals and sends its own, the  *)
(* buttons CallOverlay offers, and the relay of signals by the server      *)
(* (backend/app/api/ws.py, services/chat.py).                              *)
(*                                                                         *)
(* Every handler runs until it awaits.  What it does after an await is an  *)
(* action of its own, remembered in jobs: the browser asking for camera    *)
(* and microphone, the descriptions being made or applied, the queued      *)
(* candidates being drained.  An operation on a peer connection that is    *)
(* closed meanwhile never settles, so the job ends with the connection;    *)
(* the request for media does not.                                         *)
(*                                                                         *)
(* A call is known by who placed it.  A connection object is known by its  *)
(* owner and the call it was created for.                                  *)
(***************************************************************************)
EXTENDS Naturals, Sequences, FiniteSets

CONSTANTS
  User,           \* the users, each with one tab
  Talks,          \* whom the chat open at each user is with
  NoCall,         \* no call
  MaxCalls,       \* bound: calls each user places, a function
  MaxPlaced,      \* bound: calls placed by all of them
  MaxCandidates   \* bound: candidates a connection of each user gathers, a function

\* A call goes to the other member of the open chat.
ASSUME CallConstants ==
  /\ Talks \in [User -> User] /\ \A u \in User : Talks[u] # u
  /\ MaxCalls \in [User -> Nat] /\ MaxPlaced \in Nat /\ MaxCandidates \in [User -> Nat]

Call == UNION {[by : {u}, n : 1..MaxCalls[u]] : u \in User}
ASSUME NoCallIsNoCall == NoCall \notin Call

VARIABLES
  hook,        \* refs and state of useWebRTC at each user
  conns,       \* the connection each user created for each call
  tracks,      \* the stream each user was granted for each call
  jobs,        \* what handlers still have to do after an await
  placed,      \* how many calls each user has placed
  inbox,       \* signals on their way to each user
  crossed,     \* history: users for whom a call came or ended while the browser asked
  resumed      \* history: users granted a stream for a call that is theirs no longer

program == <<hook, conns, tracks, jobs, placed, inbox>>
vars == <<hook, conns, tracks, jobs, placed, inbox, crossed, resumed>>

MaybeCall == Call \cup {NoCall}
Candidate == [call : Call, n : Nat]
Signal == [type : {"offer", "answer", "reject", "hangup"}, call : Call, n : {0}]
            \cup [type : {"ice"}, call : Call, n : Nat]
Hook == [status : {"idle", "dialing", "ringing", "connecting", "active", "ended", "error"},
         callId : MaybeCall, incoming : MaybeCall, peer : MaybeCall,
         stream : MaybeCall, muted : BOOLEAN, pending : SUBSET Candidate]
Connection == [open : BOOLEAN, remote : MaybeCall, state : {"new", "connected", "failed"},
               gathered : Nat, applied : SUBSET Candidate]
Job == [does : {"dial", "accept", "offer", "answer", "apply", "drain"},
        call : Call, about : Call]
ToDo(does, c) == [does |-> does, call |-> c, about |-> c]

\* The hook with no call: what teardown leaves.
Cleared(s) == [status |-> s, callId |-> NoCall, incoming |-> NoCall, peer |-> NoCall,
               stream |-> NoCall, muted |-> FALSE, pending |-> {}]

NoConnection == [open |-> FALSE, remote |-> NoCall, state |-> "new",
                 gathered |-> 0, applied |-> {}]

Init ==
  /\ hook = [u \in User |-> Cleared("idle")]
  /\ conns = [u \in User |-> [c \in Call |-> NoConnection]]
  /\ tracks = [u \in User |-> [c \in Call |-> "off"]]
  /\ jobs = [u \in User |-> {}]
  /\ placed = [u \in User |-> 0]
  /\ inbox = [u \in User |-> <<>>]
  /\ crossed = {} /\ resumed = {}

-----------------------------------------------------------------------------
(* Signals                                                                 *)

\* sendCallSignal addresses whoever the open chat is with; the server relays
\* to that user, both being members of the chat.
Sent(box, u, type, c, n) ==
  [box EXCEPT ![Talks[u]] = Append(@, [type |-> type, call |-> c, n |-> n])]

\* The socket of u hands over its next signal, of this type.
Arrives(u, type) == inbox[u] # <<>> /\ Head(inbox[u]).type = type
Taken(u) == [inbox EXCEPT ![u] = Tail(@)]

-----------------------------------------------------------------------------
(* The end of a call                                                       *)

\* The hook of u becomes h; its current connection is closed and the jobs on
\* it end, and the tracks of the stream off stop.  todo are the jobs of u
\* other than the one that leaves.
Leave(u, h, off, todo, failed) ==
  LET p == hook[u].peer
  IN  /\ hook' = [hook EXCEPT ![u] = h]
      /\ conns' = [conns EXCEPT ![u] = [c \in Call |->
           IF c = p THEN NoConnection
           ELSE IF c = failed THEN [@[c] EXCEPT !.state = "failed"] ELSE @[c]]]
      /\ tracks' = [tracks EXCEPT ![u] = [c \in Call |->
           IF c = off THEN "off" ELSE @[c]]]
      /\ jobs' = [jobs EXCEPT ![u] =
           {j \in todo : j.does \in {"dial", "accept"} \/ j.call # p}]
      /\ UNCHANGED placed

\* Faulty variant: the tracks are not stopped.
TeardownKeepingMedia(u, next, todo) == Leave(u, Cleared(next), NoCall, todo, NoCall)

\* teardown: connection and stream are let go and the call forgotten.
Teardown(u, next, todo) == Leave(u, Cleared(next), hook[u].stream, todo, NoCall)

-----------------------------------------------------------------------------
(* Placing and answering                                                   *)

\* The header offers to call while no call is shown.
CanCall(u) == hook[u].status \in {"idle", "ended", "error"}

StartCall(u) ==
  LET c == [by |-> u, n |-> placed[u] + 1]
  IN  /\ placed[u] < MaxCalls[u]
      /\ Cardinality({d \in Call : d.n <= placed[d.by]}) < MaxPlaced
      /\ CanCall(u) /\ hook[u].peer = NoCall
      /\ placed' = [placed EXCEPT ![u] = @ + 1]
      /\ hook' = [hook EXCEPT ![u] = [@ EXCEPT !.callId = c, !.status = "dialing"]]
      /\ jobs' = [jobs EXCEPT ![u] = @ \cup {ToDo("dial", c)}]
      /\ UNCHANGED <<conns, tracks, inbox>>

\* The overlay offers to accept or decline while a call rings.
Ringing(u) == hook[u].status = "ringing" /\ hook[u].incoming # NoCall

AcceptCall(u) ==
  LET c == hook[u].incoming
  IN  /\ Ringing(u) /\ hook[u].peer = NoCall
      /\ hook' = [hook EXCEPT ![u] = [@ EXCEPT !.callId = c, !.status = "connecting"]]
      /\ jobs' = [jobs EXCEPT ![u] = @ \cup {ToDo("accept", c)}]
      /\ UNCHANGED <<conns, tracks, placed, inbox>>

CreatePeerConnection(u, c) ==
  conns' = [conns EXCEPT ![u][c].open = TRUE]

\* The browser grants camera and microphone: the stream is kept and a
\* connection created, whatever has happened since the request.
Granted(u, j) ==
  LET dialled == j.does = "dial"
  IN  /\ j \in jobs[u] /\ j.does \in {"dial", "accept"}
      /\ hook' = [hook EXCEPT ![u] =
           [@ EXCEPT !.stream = j.call, !.peer = j.call,
                     !.incoming = IF dialled THEN hook[u].incoming ELSE NoCall]]
      /\ CreatePeerConnection(u, j.call)
      /\ tracks' = [tracks EXCEPT ![u][j.call] = "on"]
      /\ jobs' = [jobs EXCEPT ![u] = (@ \ {j}) \cup
           {ToDo(IF dialled THEN "offer" ELSE "answer", j.call)}]
      /\ UNCHANGED <<placed, inbox>>

\* The browser refuses; the caller of a call being accepted is told.
Denied(u, j) ==
  /\ j \in jobs[u] /\ j.does \in {"dial", "accept"}
  /\ Teardown(u, "error", jobs[u] \ {j})
  /\ inbox' = IF j.does = "accept" THEN Sent(inbox, u, "reject", j.call, 0) ELSE inbox

\* The rest of startCall once the offer is set: it is sent, or the socket is
\* closed and the call fails.
SendOffer(u, j) ==
  /\ j \in jobs[u] /\ j.does = "offer"
  /\ inbox' = Sent(inbox, u, "offer", j.call, 0)
  /\ jobs' = [jobs EXCEPT ![u] = @ \ {j}]
  /\ UNCHANGED <<hook, conns, tracks, placed>>

OfferUndelivered(u, j) ==
  /\ j \in jobs[u] /\ j.does = "offer"
  /\ Teardown(u, "error", jobs[u] \ {j})
  /\ UNCHANGED inbox

\* The rest of acceptCall: the offer is applied, the queue drained into the
\* connection, and the answer sent.
SendAnswer(u, j) ==
  /\ j \in jobs[u] /\ j.does = "answer"
  /\ conns' = [conns EXCEPT ![u][j.call] =
       [@ EXCEPT !.remote = j.call,
                 !.applied = conns[u][j.call].applied \cup hook[u].pending]]
  /\ hook' = [hook EXCEPT ![u].pending = {}]
  /\ inbox' = Sent(inbox, u, "answer", j.call, 0)
  /\ jobs' = [jobs EXCEPT ![u] = @ \ {j}]
  /\ UNCHANGED <<tracks, placed>>

\* onicecandidate: a connection whose own description is set and sent
\* announces one more candidate.
Gather(u, c) ==
  LET n == conns[u][c].gathered + 1
  IN  /\ conns[u][c].open /\ n <= MaxCandidates[u]
      /\ \A j \in jobs[u] : j.call = c => j.does \notin {"offer", "answer"}
      /\ conns' = [conns EXCEPT ![u][c].gathered = n]
      /\ inbox' = Sent(inbox, u, "ice", c, n)
      /\ UNCHANGED <<hook, tracks, jobs, placed>>

-----------------------------------------------------------------------------
(* handleSignal                                                            *)

\* An offer: a busy user turns it down, any other user's tab rings.
OfferWhen(u, busy) ==
  LET c == Head(inbox[u]).call
  IN  /\ Arrives(u, "offer")
      /\ inbox' = IF busy THEN Sent(Taken(u), u, "reject", c, 0) ELSE Taken(u)
      /\ hook' = IF busy THEN hook
                 ELSE [hook EXCEPT ![u] = [@ EXCEPT !.pending = {}, !.incoming = c,
                                                 !.status = "ringing"]]
      /\ UNCHANGED <<conns, tracks, jobs, placed>>

\* Faulty variant: only a call that rings makes the user busy.
HandleOfferInCall(u) == OfferWhen(u, hook[u].incoming # NoCall)

HandleOffer(u) == OfferWhen(u, hook[u].peer # NoCall \/ hook[u].incoming # NoCall)

\* An answer starts to be applied to the current connection, or is ignored.
AnswerWhen(u, wanted) ==
  /\ Arrives(u, "answer")
  /\ inbox' = Taken(u)
  /\ jobs' = IF wanted
             THEN [jobs EXCEPT ![u] = @ \cup {[does |-> "apply", call |-> hook[u].peer,
                                               about |-> Head(inbox[u]).call]}]
             ELSE jobs
  /\ UNCHANGED <<hook, conns, tracks, placed>>

\* Faulty variant: whichever call it is about.
HandleAnyAnswer(u) == AnswerWhen(u, hook[u].peer # NoCall)

HandleAnswer(u) ==
  AnswerWhen(u, hook[u].peer # NoCall /\ Head(inbox[u]).call = hook[u].callId)

\* A connection takes an answer to the offer it has made; one that was made to
\* answer a call, or has an answer already, does not.
TakesAnswer(u, c) == c.by = u /\ conns[u][c].remote = NoCall

\* The answer is applied and the queue drained: the status waits for it.
ApplyAnswer(u, j) ==
  LET queued == hook[u].pending
  IN  /\ j \in jobs[u] /\ j.does = "apply" /\ TakesAnswer(u, j.call)
      /\ conns' = [conns EXCEPT ![u][j.call] =
           [@ EXCEPT !.remote = j.about,
                     !.applied = conns[u][j.call].applied \cup queued]]
      /\ hook' = [hook EXCEPT ![u].pending = {}]
      /\ jobs' = [jobs EXCEPT ![u] = (@ \ {j}) \cup {ToDo("drain", j.call)}]
      /\ UNCHANGED <<tracks, placed, inbox>>

\* setRemoteDescription rejects: the call in progress fails.
AnswerRejected(u, j) ==
  /\ j \in jobs[u] /\ j.does = "apply"
  /\ TakesAnswer(u, j.call) => ToDo("offer", j.call) \in jobs[u]
  /\ Teardown(u, "error", jobs[u] \ {j})
  /\ UNCHANGED inbox

FinishDrain(u, j) ==
  /\ j \in jobs[u] /\ j.does = "drain"
  /\ hook' = [hook EXCEPT ![u].status = "connecting"]
  /\ jobs' = [jobs EXCEPT ![u] = @ \ {j}]
  /\ UNCHANGED <<conns, tracks, placed, inbox>>

\* A candidate is added to a connection that has a description.
Early(u) == hook[u].peer = NoCall \/ conns[u][hook[u].peer].remote = NoCall

Arriving(u) == {[call |-> Head(inbox[u]).call, n |-> Head(inbox[u]).n]}

CandidateOr(u, queue) ==
  /\ Arrives(u, "ice")
  /\ inbox' = Taken(u)
  /\ hook' = IF Early(u) THEN [hook EXCEPT ![u].pending = queue] ELSE hook
  /\ conns' = IF Early(u) THEN conns
              ELSE [conns EXCEPT ![u][hook[u].peer].applied = @ \cup Arriving(u)]
  /\ UNCHANGED <<tracks, jobs, placed>>

\* Faulty variant: a candidate that comes too early is dropped.
HandleIceUnqueued(u) == CandidateOr(u, hook[u].pending)

\* Until there is one, candidates are queued.
HandleIce(u) == CandidateOr(u, hook[u].pending \cup Arriving(u))

\* The other side declined the call in progress.
RejectWhen(u, mine) ==
  /\ Arrives(u, "reject")
  /\ inbox' = Taken(u)
  /\ IF mine
     THEN Teardown(u, "idle", jobs[u])
     ELSE UNCHANGED <<hook, conns, tracks, jobs, placed>>

\* Faulty variant: whichever call it is about.
HandleAnyReject(u) == RejectWhen(u, hook[u].callId # NoCall)

HandleReject(u) == RejectWhen(u, Head(inbox[u]).call = hook[u].callId)

HangupOf(u, mine) ==
  /\ Arrives(u, "hangup")
  /\ inbox' = Taken(u)
  /\ IF Head(inbox[u]).call \in mine
     THEN Teardown(u, "ended", jobs[u])
     ELSE UNCHANGED <<hook, conns, tracks, jobs, placed>>


\* A hangup ends a call that still rings as well.
HandleHangup(u) == HangupOf(u, {hook[u].callId, hook[u].incoming})

-----------------------------------------------------------------------------
(* Buttons of the overlay, and the network                                 *)

RejectCall(u) ==
  /\ Ringing(u)
  /\ inbox' = Sent(inbox, u, "reject", hook[u].incoming, 0)
  /\ Teardown(u, "idle", jobs[u])

\* hangUp: shown by the overlay of any call that does not ring.
HangUp(u) ==
  /\ hook[u].status \notin {"idle", "ended"} /\ ~Ringing(u)
  /\ inbox' = IF hook[u].callId = NoCall THEN inbox
              ELSE Sent(inbox, u, "hangup", hook[u].callId, 0)
  /\ Teardown(u, "idle", jobs[u])

\* The microphone is switched off or on again.
ToggleMute(u) ==
  LET c == hook[u].stream
      off == tracks[u][c] = "on"
  IN  /\ hook[u].status \notin {"idle", "ended"} /\ ~Ringing(u)
      /\ c # NoCall
      /\ tracks' = [tracks EXCEPT ![u][c] = IF off THEN "silent" ELSE "on"]
      /\ hook' = [hook EXCEPT ![u].muted = off]
      /\ UNCHANGED <<conns, jobs, placed, inbox>>

\* The connection of v that u's connection for c is talking to is there.
Answered(u, c, v) ==
  LET d == conns[u][c].remote
  IN  d # NoCall /\ conns[v][d].open /\ conns[v][d].remote = c /\ conns[v][d].state # "failed"

ConnectionUp(u, c) ==
  /\ conns[u][c].open /\ conns[u][c].state = "new"
  /\ \E v \in User \ {u} : Answered(u, c, v)
  /\ conns' = [conns EXCEPT ![u][c].state = "connected"]
  /\ hook' = [hook EXCEPT ![u].status = "active"]
  /\ UNCHANGED <<tracks, jobs, placed, inbox>>

\* No connectivity, or the other end is gone: whatever call is in progress
\* fails, though it be another one.  A connection fails once.
ConnectionFails(u, c) ==
  /\ conns[u][c].open /\ conns[u][c].remote # NoCall /\ conns[u][c].state # "failed"
  /\ Leave(u, Cleared("error"), hook[u].stream, jobs[u], c)
  /\ UNCHANGED inbox

Button(u) ==
  StartCall(u) \/ AcceptCall(u) \/ RejectCall(u) \/ HangUp(u) \/ ToggleMute(u)
Deliver(u) ==
  HandleOffer(u) \/ HandleAnswer(u) \/ HandleIce(u) \/ HandleReject(u) \/ HandleHangup(u)
Settle(u) ==
  \E j \in jobs[u] : SendOffer(u, j) \/ OfferUndelivered(u, j) \/ SendAnswer(u, j)
                        \/ ApplyAnswer(u, j) \/ AnswerRejected(u, j)
                        \/ FinishDrain(u, j)
Media(u) == \E j \in jobs[u] : Granted(u, j) \/ Denied(u, j)
Network(u) ==
  \E c \in Call : Gather(u, c) \/ ConnectionUp(u, c) \/ ConnectionFails(u, c)

\* The call of a user has ended, or another one rings, while the browser still asks
\* for the camera and microphone of it.
Crossing(u) ==
  \E j \in jobs[u] : /\ j.does \in {"dial", "accept"}
                     /\ \/ hook[u].callId # j.call
                        \/ hook[u].incoming \notin {NoCall, j.call}

\* The browser grants a stream for a call its user is no longer in.
Resuming(u) == \E j \in jobs[u] \ jobs'[u] : hook[u].callId # j.call /\ Granted(u, j)

Next ==
  /\ \E u \in User : Media(u) \/ Button(u) \/ Deliver(u) \/ Settle(u) \/ Network(u)
  /\ crossed' = crossed \cup {u \in User : Crossing(u)'}
  /\ resumed' = resumed \cup {u \in User : Resuming(u)}

Spec == Init /\ [][Next]_vars

-----------------------------------------------------------------------------
(* Properties                                                              *)

\* Every variable stays within its type, however calls and signals cross.
Typed ==
  /\ hook \in [User -> Hook]
  /\ conns \in [User -> [Call -> Connection]]
  /\ tracks \in [User -> [Call -> {"off", "on", "silent"}]]
  /\ jobs \in [User -> SUBSET Job]
  /\ placed \in [User -> Nat] /\ \A u \in User : placed[u] <= MaxCalls[u]
  /\ inbox \in [User -> Seq(Signal)]

TypeOK == Typed /\ crossed \in SUBSET User /\ resumed \in SUBSET User

\* handleSignal compares call ids before setRemoteDescription, but the answer is
\* applied to whatever connection there is: calls given up, dialled again or
\* replaced while the browser asks for media leave connections and answers behind.
\* Still, the connection of the call a user is in is never given the answer of
\* another call.
SameCall ==
  \A u \in User : LET c == hook[u].callId IN
    c # NoCall => conns[u][c].remote \in {c, NoCall}

\* drainPendingCandidates: candidates may arrive while the user decides, while the
\* browser asks for media, or before the description they belong to is applied.
\* Once the connection of the call a user is in is answered, none that reached the
\* user is lost (with a second connection open, left behind by a call that was
\* given up while the browser asked, they may go to that one).
CandidatesComplete ==
  \A u, v \in User, c \in Call :
    (/\ u # v /\ hook[u].callId = c /\ Answered(u, c, v)
     /\ \A d \in Call \ {c} : ~conns[u][d].open
     /\ \A i \in DOMAIN inbox[u] : ~(inbox[u][i].type = "ice" /\ inbox[u][i].call = c))
      => \A n \in 1..conns[v][c].gathered : [call |-> c, n |-> n] \in conns[u][c].applied

\* teardown stops the tracks on every way out of a call.  Whatever else comes
\* while the browser asks for camera and microphone, they run only in the call
\* that is shown, and silent exactly when it shows them muted; unless the browser
\* granted them for a call its user had left, when startCall or acceptCall goes on
\* as if nothing had happened.
MediaReleased ==
  \A u \in User \ resumed, c \in Call :
    tracks[u][c] # "off" =>
      /\ hook[u].stream = c /\ hook[u].status \notin {"idle", "ended", "error"}
      /\ hook[u].muted <=> tracks[u][c] = "silent"

CallsOf(u) == {hook[u].callId, hook[u].incoming} \ {NoCall}
CallKept(u) ==
  LET c == hook[u].callId IN
  (/\ CallsOf(u) = {c} /\ hook'[u].callId = NoCall
   /\ inbox[u] # <<>> /\ inbox'[u] = Tail(inbox[u]))
    => c \notin CallsOf(Talks[u])

\* handleSignal compares call ids before it gives a call up, "so late signals from
\* an ended call are ignored": no rejection or hangup that comes late, crosses
\* another or belongs to a call placed before takes down a call the other user is
\* still in or still asked to take.  While dialling waits for the browser a second
\* call may ring, and its hangup takes both down: a user in two calls is left out.
LiveCallKept == [][\A u \in User : CallKept(u)]_vars

InCall(v, c) ==
  c \in {hook[v].callId, hook[v].incoming} \/ \E j \in jobs[v] : j.call = c

\* u is in call c, which v is not, and v will not be offered it any more.
Alone(u, v, c) ==
  /\ InCall(u, c) /\ ~InCall(v, c)
  /\ \A j \in jobs[u] : j.does \notin {"dial", "offer"}
  /\ \A i \in DOMAIN inbox[v] : inbox[v][i].type = "offer" => inbox[v][i].call # c


\* The socket delivers, the browser settles what it was asked, and a
\* connection whose other end is gone fails.
Fairness ==
  \A u \in User :
    /\ WF_program(Media(u))
    /\ WF_program(Deliver(u))
    /\ WF_program(Settle(u))
    /\ \A c \in Call :
         WF_program((\A v \in User \ {u} : ~Answered(u, c, v)) /\ ConnectionFails(u, c))

FairSpec == Spec /\ Fairness

(* Stated by the code and false: see the README.                           *)

\* "Already busy: turn down the new caller rather than clobbering the live call"
\* (useWebRTC.ts:366): nobody in a call is asked to take another.
TurnedDown ==
  \A u \in User : hook[u].callId # NoCall => hook[u].incoming \in {NoCall, hook[u].callId}

\* Every way out of a call goes through teardown, which stops the tracks: camera and
\* microphone never run for a call their user is not in.
MediaOnlyInCall == \A u \in User, c \in Call : tracks[u][c] # "off" => hook[u].callId = c

-----------------------------------------------------------------------------
(* What stays true whatever crosses, on which the properties rest          *)

Callee(c) == Talks[c.by]
Placed(c) == c.n <= placed[c.by]
Mail(u) == {inbox[u][i] : i \in DOMAIN inbox[u]}

\* A user is in calls it placed or was offered, and so are its handlers.
CallsAt(u) ==
  /\ \A c \in {hook[u].callId, hook[u].incoming, hook[u].peer} \ {NoCall} : Placed(c)
  /\ hook[u].incoming # NoCall => Callee(hook[u].incoming) = u
  /\ \A j \in jobs[u] :
       /\ Placed(j.call) /\ (j.does # "apply" => j.about = j.call)
       /\ j.does \in {"dial", "offer"} => j.call.by = u
       /\ j.does \in {"accept", "answer"} => Callee(j.call) = u

\* Signals are about calls that were placed, and a call is offered to its callee.
MailAt(u) ==
  \A m \in Mail(u) : /\ m.type # "ice" => Placed(m.call)
                     /\ m.type = "offer" => Callee(m.call) = u

\* A stream comes with the connection, in a call that is shown.
ShownAt(u) ==
  /\ hook[u].stream = hook[u].peer
  /\ hook[u].callId # NoCall => hook[u].status \notin {"idle", "ended", "error"}

\* Until a stream is granted too late it is that of the call the user is in, the
\* only one that runs, and not asked for again.
MediaAt(u) ==
  /\ hook[u].peer \in {hook[u].callId, NoCall}
  /\ \A j \in jobs[u] : j.does \in {"dial", "accept"} /\ j.call = hook[u].callId
                          => hook[u].peer = NoCall
  /\ \A c \in Call : tracks[u][c] # "off" =>
       hook[u].stream = c /\ (hook[u].muted <=> tracks[u][c] = "silent")
  /\ hook[u].stream = NoCall => ~hook[u].muted

\* The answer of another call may reach a connection its user has placed a call
\* with and left, no other.
AnswersAt(u) ==
  /\ \A c \in Call :
       /\ conns[u][c].remote # NoCall => Placed(c)
       /\ conns[u][c].remote \notin {c, NoCall} => c.by = u /\ hook[u].callId # c
  /\ \A j \in jobs[u] :
       j.does = "apply" /\ j.call.by = u /\ j.about # j.call => hook[u].callId # j.call

CallInv ==
  \A u \in User : /\ CallsAt(u) /\ MailAt(u) /\ ShownAt(u) /\ AnswersAt(u)
                  /\ u \notin resumed => MediaAt(u)

\* The chats of two users are open at each other.
Paired == \A u \in User : Talks[Talks[u]] = u

Live(u, c) == c \in CallsOf(u)
Known(u, c) == Live(u, c) \/ ToDo("accept", c) \in jobs[u]
Asks(c) == ToDo("dial", c) \in jobs[c.by]
Offers(c) == ToDo("offer", c) \in jobs[c.by]
OfferOf(c) == [type |-> "offer", call |-> c, n |-> 0]
Offered(c) == OfferOf(c) \in Mail(Callee(c))

\* A call is asked media for, offered, on its way or known to the callee: it is
\* offered once.
OfferedOnce(c) ==
  /\ LET box == inbox[Callee(c)]
     IN  \A i, k \in DOMAIN box : box[i] = OfferOf(c) /\ box[k] = OfferOf(c) => i = k
  /\ Asks(c) => ~Offers(c)
  /\ Asks(c) \/ Offers(c) => ~Offered(c)
  /\ Asks(c) \/ Offers(c) \/ Offered(c) => ~Known(Callee(c), c)

\* Whoever rejects a call or hangs up is out of it, and is not offered it again.
GoneAt(u) ==
  \A m \in Mail(u) : m.type \in {"reject", "hangup"} =>
    /\ ~Live(Talks[u], m.call)
    /\ m.call.by = u => ~Asks(m.call) /\ ~Offers(m.call) /\ ~Offered(m.call)

OverInv == (\A c \in Call : OfferedOnce(c)) /\ (\A u \in User : GoneAt(u))
=============================================================================
