------------------------------ MODULE CallsProofs ------------------------------
(***************************************************************************)
(* For any users, any number of calls and of candidates, and whatever      *)
(* comes while the browser asks for camera and microphone: types; that the *)
(* call a user is in is not given the answer of another; that camera and   *)
(* microphone run only in the call shown, until a stream is granted for a  *)
(* call its user has left; and that no signal takes down a call the other  *)
(* user is still in.                                                       *)
(***************************************************************************)
EXTENDS Calls, SequenceTheorems, TLAPS

-----------------------------------------------------------------------------
(* Types                                                                   *)

\* Whoever placed a call is a user, and the calls of a user are numbered.
LEMMA CallType ==
  ASSUME NEW c \in Call
  PROVE  c.by \in User /\ c.n \in Nat /\ c.n \in 1..MaxCalls[c.by] /\ c # NoCall
<1>1. PICK u \in User : c \in [by : {u}, n : 1..MaxCalls[u]]
  BY DEF Call
<1>2. MaxCalls[u] \in Nat
  BY CallConstants
<1> QED
  BY <1>1, <1>2, NoCallIsNoCall

\* A signal that is sent is the last in the mailbox of the other user.
LEMMA SentBox ==
  ASSUME NEW box \in [User -> Seq(Signal)], NEW u \in User, NEW type, NEW c, NEW n,
         [type |-> type, call |-> c, n |-> n] \in Signal
  PROVE  /\ Sent(box, u, type, c, n) \in [User -> Seq(Signal)]
         /\ \A x \in User :
              Sent(box, u, type, c, n)[x] =
                IF x = Talks[u] THEN Append(box[x], [type |-> type, call |-> c, n |-> n])
                ELSE box[x]
<1> DEFINE sig == [type |-> type, call |-> c, n |-> n]
<1>1. Talks[u] \in User
  BY CallConstants
<1>2. sig \in Signal
  OBVIOUS
<1> HIDE DEF sig
<1>3. \A x \in User : Append(box[x], sig) \in Seq(Signal)
  BY <1>2, AppendProperties
<1>4. Sent(box, u, type, c, n) = [box EXCEPT ![Talks[u]] = Append(@, sig)]
  BY DEF Sent, sig
<1>5. Sent(box, u, type, c, n) \in [User -> Seq(Signal)]
  BY <1>1, <1>3, <1>4
<1>6. \A x \in User :
        Sent(box, u, type, c, n)[x] = IF x = Talks[u] THEN Append(box[x], sig) ELSE box[x]
  BY <1>1, <1>4
<1> QED
  BY <1>5, <1>6 DEF sig

\* The signals about a call.
LEMMA SignalType ==
  ASSUME NEW c \in Call
  PROVE  /\ \A type \in {"offer", "answer", "reject", "hangup"} :
              [type |-> type, call |-> c, n |-> 0] \in Signal
         /\ \A n \in Nat : [type |-> "ice", call |-> c, n |-> n] \in Signal
BY DEF Signal

\* A signal that arrives, and what is left in the mailbox.
LEMMA TakenBox ==
  ASSUME Typed, NEW u \in User, NEW type, Arrives(u, type)
  PROVE  /\ Taken(u) \in [User -> Seq(Signal)]
         /\ \A x \in User : Taken(u)[x] = IF x = u THEN Tail(inbox[u]) ELSE inbox[x]
         /\ Head(inbox[u]) \in Signal /\ Head(inbox[u]).type = type
         /\ Head(inbox[u]).call \in Call
         /\ type = "ice" => Head(inbox[u]).n \in Nat
         /\ inbox[u] \in Seq(Signal) /\ inbox[u] # <<>>
<1>1. inbox \in [User -> Seq(Signal)] /\ inbox[u] \in Seq(Signal)
      /\ inbox[u] # <<>> /\ Head(inbox[u]).type = type
  BY DEF Typed, Arrives
<1>2. Head(inbox[u]) \in Signal /\ Tail(inbox[u]) \in Seq(Signal)
  BY <1>1, HeadTailProperties
<1>3. Taken(u) \in [User -> Seq(Signal)]
      /\ \A x \in User : Taken(u)[x] = IF x = u THEN Tail(inbox[u]) ELSE inbox[x]
  BY <1>1, <1>2 DEF Taken
<1>4. Head(inbox[u]).call \in Call
      /\ (type = "ice" => Head(inbox[u]).n \in Nat)
  BY <1>1, <1>2 DEF Signal
<1> QED
  BY <1>1, <1>2, <1>3, <1>4

\* A connection that is opened or moves on is one.
LEMMA SteppedType ==
  ASSUME NEW k \in Connection
  PROVE  /\ [k EXCEPT !.open = TRUE] \in Connection
         /\ \A s \in {"connected", "failed"} :
              /\ [k EXCEPT !.state = s] \in Connection
              /\ [k EXCEPT !.state = s].remote = k.remote
BY DEF Connection

\* The types that leaving a call can disturb, and what it leaves.
LEMMA LeaveType ==
  ASSUME Typed, NEW u \in User, NEW next \in {"idle", "ended", "error"}, NEW todo \in SUBSET Job,
         NEW failed, Leave(u, Cleared(next), hook[u].stream, todo, failed)
  PROVE  /\ Typed' \/ inbox' \notin [User -> Seq(Signal)]
         /\ hook' = [hook EXCEPT ![u] = Cleared(next)]
         /\ jobs' = [jobs EXCEPT ![u] =
              {j \in todo : j.does \in {"dial", "accept"} \/ j.call # hook[u].peer}]
         /\ placed' = placed
         /\ \A x \in User : x # u => conns'[x] = conns[x] /\ tracks'[x] = tracks[x]
         /\ \A c \in Call :
              conns'[u][c].remote = IF c = hook[u].peer THEN NoCall ELSE conns[u][c].remote
         /\ \A c \in Call :
              tracks'[u][c] = IF c = hook[u].stream THEN "off" ELSE tracks[u][c]
<1> DEFINE p == hook[u].peer
           off == hook[u].stream
           left == {j \in todo : j.does \in {"dial", "accept"} \/ j.call # p}
           ends == [c \in Call |->
             IF c = p THEN NoConnection
             ELSE IF c = failed THEN [conns[u][c] EXCEPT !.state = "failed"] ELSE conns[u][c]]
<1>1. /\ hook' = [hook EXCEPT ![u] = Cleared(next)]
      /\ conns' = [conns EXCEPT ![u] = ends]
      /\ tracks' = [tracks EXCEPT ![u] = [c \in Call |->
           IF c = off THEN "off" ELSE tracks[u][c]]]
      /\ jobs' = [jobs EXCEPT ![u] = left]
      /\ placed' = placed
  BY DEF Leave, Typed
<1>2. Cleared(next) \in Hook
  BY DEF Cleared, MaybeCall, Hook
<1>3. NoConnection \in Connection /\ NoConnection.remote = NoCall
  BY CallConstants DEF NoConnection, MaybeCall, Connection
<1>4. ASSUME NEW c \in Call
      PROVE  LET k == [conns[u][c] EXCEPT !.state = "failed"]
             IN  k \in Connection /\ k.remote = conns[u][c].remote
  <2>1. conns[u][c] \in Connection
    BY DEF Typed
  <2> QED
    BY <2>1, SteppedType
<1>5. ends \in [Call -> Connection]
  BY <1>3, <1>4 DEF Typed
<1>6. \A c \in Call : ends[c].remote = IF c = p THEN NoCall ELSE conns[u][c].remote
  BY <1>3, <1>4
<1> HIDE DEF ends
<1>7. /\ conns' \in [User -> [Call -> Connection]] /\ conns'[u] = ends
      /\ \A x \in User : x # u => conns'[x] = conns[x]
  BY <1>1, <1>5 DEF Typed
<1>8. /\ \A c \in Call : tracks'[u][c] = IF c = off THEN "off" ELSE tracks[u][c]
      /\ \A x \in User : x # u => tracks'[x] = tracks[x]
  BY <1>1 DEF Typed
<1>9. hook' \in [User -> Hook]
  BY <1>1, <1>2 DEF Typed
<1>10. tracks' \in [User -> [Call -> {"off", "on", "silent"}]]
  BY <1>1 DEF Typed
<1>11. jobs' \in [User -> SUBSET Job]
  BY <1>1 DEF Typed
<1>12. Typed' \/ inbox' \notin [User -> Seq(Signal)]
  BY <1>1, <1>7, <1>9, <1>10, <1>11 DEF Typed
<1> QED
  BY <1>1, <1>6, <1>7, <1>8, <1>12

\* So for leaving with no connection having failed.
LEMMA TeardownType ==
  ASSUME Typed, NEW u \in User, NEW next \in {"idle", "ended", "error"}, NEW todo \in SUBSET Job,
         Teardown(u, next, todo)
  PROVE  Typed' \/ inbox' \notin [User -> Seq(Signal)]
BY LeaveType DEF Teardown

\* A job is about calls.
LEMMA JobType ==
  ASSUME Typed, NEW u \in User, NEW j \in jobs[u]
  PROVE  /\ j \in Job /\ j.call \in Call /\ j.about \in Call /\ jobs[u] \in SUBSET Job
BY DEF Typed, Job

\* The hook at a user, and a connection.
LEMMA HookType ==
  ASSUME Typed, NEW u \in User
  PROVE  /\ hook \in [User -> Hook] /\ hook[u] \in Hook
         /\ hook[u].callId \in MaybeCall /\ hook[u].incoming \in MaybeCall
         /\ hook[u].peer \in MaybeCall /\ hook[u].stream \in MaybeCall
         /\ hook[u].pending \in SUBSET Candidate
BY DEF Typed, Hook

\* The types of one connection.
LEMMA ConnectionType ==
  ASSUME Typed, NEW u \in User, NEW c \in Call
  PROVE  /\ conns \in [User -> [Call -> Connection]] /\ conns[u][c] \in Connection
         /\ conns[u][c].gathered \in Nat
         /\ conns[u][c].applied \in SUBSET Candidate
BY DEF Typed, Connection

\* The hook at one user, or one connection, is replaced.
LEMMA SetHook ==
  ASSUME Typed, NEW u \in User, NEW h \in Hook, hook' = [hook EXCEPT ![u] = h]
  PROVE  /\ hook' \in [User -> Hook]
         /\ \A x \in User : hook'[x] = IF x = u THEN h ELSE hook[x]
BY DEF Typed

\* Setting one connection leaves the others as they are.
LEMMA SetConnection ==
  ASSUME Typed, NEW u \in User, NEW c \in Call, NEW k \in Connection,
         conns' = [conns EXCEPT ![u][c] = k]
  PROVE  /\ conns' \in [User -> [Call -> Connection]]
         /\ \A x \in User, d \in Call :
              conns'[x][d] = IF x = u /\ d = c THEN k ELSE conns[x][d]
<1>1. conns \in [User -> [Call -> Connection]]
  BY DEF Typed
<1>2. conns' = [conns EXCEPT ![u] = [conns[u] EXCEPT ![c] = k]]
  BY <1>1
<1>3. [conns[u] EXCEPT ![c] = k] \in [Call -> Connection]
  BY <1>1
<1>4. \A x \in User : conns'[x] = IF x = u THEN [conns[u] EXCEPT ![c] = k] ELSE conns[x]
  BY <1>1, <1>2
<1>5. \A d \in Call : [conns[u] EXCEPT ![c] = k][d] = IF d = c THEN k ELSE conns[u][d]
  BY <1>1
<1> QED
  BY <1>1, <1>2, <1>3, <1>4, <1>5

\* A connection that is given a description stays a connection.
LEMMA DescribedType ==
  ASSUME NEW k \in Connection, NEW remote \in MaybeCall, NEW more \in SUBSET Candidate
  PROVE  [k EXCEPT !.remote = remote, !.applied = k.applied \cup more] \in Connection
<1>1. k.applied \cup more \in SUBSET Candidate
  BY DEF Connection
<1> DEFINE a == k.applied \cup more
<1> HIDE DEF a
<1> QED
  BY <1>1 DEF Connection, a

\* Buttons keep the types.
LEMMA ButtonType ==
  ASSUME Typed, NEW u \in User, Button(u)
  PROVE  Typed'
<1> USE CallConstants
<1>1. CASE StartCall(u)
  <2> DEFINE c == [by |-> u, n |-> placed[u] + 1]
  <2>1. placed[u] \in Nat /\ MaxCalls[u] \in Nat /\ placed[u] < MaxCalls[u]
    BY <1>1 DEF StartCall, Typed
  <2>2. c \in Call
    BY <2>1 DEF Call
  <2> DEFINE h == [hook[u] EXCEPT !.callId = c, !.status = "dialing"]
  <2>3. /\ hook' = [hook EXCEPT ![u] = h]
        /\ jobs' = [jobs EXCEPT ![u] = @ \cup {ToDo("dial", c)}]
        /\ placed' = [placed EXCEPT ![u] = @ + 1]
        /\ UNCHANGED <<conns, tracks, inbox>>
    BY <1>1 DEF StartCall
  <2> HIDE DEF c
  <2>4. ToDo("dial", c) \in Job /\ c \in MaybeCall
    BY <2>2 DEF ToDo, Job, MaybeCall
  <2>5. hook' \in [User -> Hook]
    <3>1. h \in Hook
      BY <2>4, HookType DEF Hook
    <3> HIDE DEF h
    <3> QED
      BY <2>3, <3>1, SetHook
  <2>6. jobs' \in [User -> SUBSET Job]
    BY <2>3, <2>4 DEF Typed
  <2>7. placed' \in [User -> Nat] /\ \A x \in User : placed'[x] <= MaxCalls[x]
    <3> DEFINE n == placed[u] + 1
    <3>1. n \in Nat /\ n <= MaxCalls[u] /\ placed' = [placed EXCEPT ![u] = n]
      BY <2>1, <2>3
    <3> HIDE DEF n
    <3> QED
      BY <3>1 DEF Typed
  <2> QED
    BY <2>3, <2>5, <2>6, <2>7 DEF Typed
<1>2. CASE AcceptCall(u)
  <2> DEFINE c == hook[u].incoming
  <2>1. c \in Call /\ c \in MaybeCall
    BY <1>2, HookType DEF AcceptCall, Ringing, MaybeCall
  <2> DEFINE h == [hook[u] EXCEPT !.callId = c, !.status = "connecting"]
  <2>2. /\ hook' = [hook EXCEPT ![u] = h]
        /\ jobs' = [jobs EXCEPT ![u] = @ \cup {ToDo("accept", c)}]
        /\ UNCHANGED <<conns, tracks, placed, inbox>>
    BY <1>2 DEF AcceptCall
  <2> HIDE DEF c
  <2>3. ToDo("accept", c) \in Job
    BY <2>1 DEF ToDo, Job
  <2>4. hook' \in [User -> Hook]
    <3>1. h \in Hook
      BY <2>1, HookType DEF Hook
    <3> HIDE DEF h
    <3> QED
      BY <2>2, <3>1, SetHook
  <2>5. jobs' \in [User -> SUBSET Job]
    BY <2>2, <2>3 DEF Typed
  <2> QED
    BY <2>2, <2>4, <2>5 DEF Typed
<1>3. CASE RejectCall(u)
  <2>1. hook[u].incoming \in Call
    BY <1>3, HookType DEF RejectCall, Ringing, MaybeCall
  <2>2. [type |-> "reject", call |-> hook[u].incoming, n |-> 0] \in Signal
    BY <2>1, SignalType
  <2>3. Teardown(u, "idle", jobs[u]) /\ inbox' = Sent(inbox, u, "reject", hook[u].incoming, 0)
    BY <1>3 DEF RejectCall
  <2>4. inbox' \in [User -> Seq(Signal)]
    BY <2>2, <2>3, SentBox DEF Typed
  <2> QED
    BY <2>3, <2>4, TeardownType DEF Typed
<1>4. CASE HangUp(u)
  <2>1. Teardown(u, "idle", jobs[u])
    BY <1>4 DEF HangUp
  <2>2. inbox' \in [User -> Seq(Signal)]
    <3>1. CASE hook[u].callId = NoCall
      BY <1>4, <3>1 DEF HangUp, Typed
    <3>2. CASE hook[u].callId # NoCall
      <4>1. [type |-> "hangup", call |-> hook[u].callId, n |-> 0] \in Signal
        BY <3>2, HookType, SignalType DEF MaybeCall
      <4>2. inbox' = Sent(inbox, u, "hangup", hook[u].callId, 0)
        BY <1>4, <3>2 DEF HangUp
      <4> QED
        BY <4>1, <4>2, SentBox DEF Typed
    <3> QED
      BY <3>1, <3>2
  <2> QED
    BY <2>1, <2>2, TeardownType DEF Typed
<1>5. CASE ToggleMute(u)
  <2> DEFINE c == hook[u].stream
             off == tracks[u][c] = "on"
  <2>1. /\ c \in Call
        /\ tracks' = [tracks EXCEPT ![u][c] = IF off THEN "silent" ELSE "on"]
        /\ hook' = [hook EXCEPT ![u].muted = off]
        /\ UNCHANGED <<conns, jobs, placed, inbox>>
    BY <1>5, HookType DEF ToggleMute, MaybeCall
  <2> HIDE DEF c
  <2>2. off \in BOOLEAN
    OBVIOUS
  <2> HIDE DEF off
  <2>3. hook' \in [User -> Hook]
    <3> DEFINE h == [hook[u] EXCEPT !.muted = off]
    <3>1. h \in Hook /\ hook' = [hook EXCEPT ![u] = h]
      BY <2>1, <2>2, HookType DEF Hook
    <3> HIDE DEF h
    <3> QED
      BY <3>1, SetHook
  <2>4. tracks' \in [User -> [Call -> {"off", "on", "silent"}]]
    BY <2>1 DEF Typed
  <2> QED
    BY <2>1, <2>3, <2>4 DEF Typed
<1> QED
  BY <1>1, <1>2, <1>3, <1>4, <1>5 DEF Button

\* Signals that arrive keep the types.
LEMMA DeliverType ==
  ASSUME Typed, NEW u \in User, Deliver(u)
  PROVE  Typed'
<1>1. CASE HandleOffer(u)
  <2> DEFINE c == Head(inbox[u]).call
             busy == hook[u].peer # NoCall \/ hook[u].incoming # NoCall
             h == [hook[u] EXCEPT !.pending = {}, !.incoming = c, !.status = "ringing"]
  <2>1. /\ Arrives(u, "offer")
        /\ inbox' = IF busy THEN Sent(Taken(u), u, "reject", c, 0) ELSE Taken(u)
        /\ hook' = IF busy THEN hook ELSE [hook EXCEPT ![u] = h]
        /\ UNCHANGED <<conns, tracks, jobs, placed>>
    BY <1>1 DEF HandleOffer, OfferWhen
  <2>2. Taken(u) \in [User -> Seq(Signal)] /\ c \in Call
    BY <2>1, TakenBox
  <2> HIDE DEF c, busy
  <2>3. [type |-> "reject", call |-> c, n |-> 0] \in Signal
    BY <2>2, SignalType
  <2>4. inbox' \in [User -> Seq(Signal)]
    BY <2>1, <2>2, <2>3, SentBox
  <2>5. hook' \in [User -> Hook]
    <3>1. h \in Hook
      BY <2>2, HookType DEF Hook, MaybeCall
    <3> HIDE DEF h
    <3> QED
      BY <2>1, <3>1, SetHook DEF Typed
  <2> QED
    BY <2>1, <2>4, <2>5 DEF Typed
<1>2. CASE HandleAnswer(u)
  <2> DEFINE c == Head(inbox[u]).call
             wanted == hook[u].peer # NoCall /\ c = hook[u].callId
             job == [does |-> "apply", call |-> hook[u].peer, about |-> c]
  <2>1. /\ Arrives(u, "answer") /\ inbox' = Taken(u)
        /\ jobs' = IF wanted THEN [jobs EXCEPT ![u] = @ \cup {job}] ELSE jobs
        /\ UNCHANGED <<hook, conns, tracks, placed>>
    BY <1>2 DEF HandleAnswer, AnswerWhen
  <2>2. Taken(u) \in [User -> Seq(Signal)] /\ c \in Call
    BY <2>1, TakenBox
  <2>3. wanted => job \in Job
    BY <2>2, HookType DEF Job, MaybeCall
  <2> HIDE DEF job, wanted
  <2>4. jobs' \in [User -> SUBSET Job]
    BY <2>1, <2>3 DEF Typed
  <2> QED
    BY <2>1, <2>2, <2>4 DEF Typed
<1>3. CASE HandleIce(u)
  <2> DEFINE p == hook[u].peer
             queue == hook[u].pending \cup Arriving(u)
  <2>1. /\ Arrives(u, "ice") /\ inbox' = Taken(u)
        /\ hook' = IF Early(u) THEN [hook EXCEPT ![u].pending = queue] ELSE hook
        /\ conns' = IF Early(u) THEN conns
                    ELSE [conns EXCEPT ![u][p].applied = @ \cup Arriving(u)]
        /\ UNCHANGED <<tracks, jobs, placed>>
    BY <1>3 DEF HandleIce, CandidateOr
  <2>2. Taken(u) \in [User -> Seq(Signal)] /\ Arriving(u) \in SUBSET Candidate
    BY <2>1, TakenBox DEF Arriving, Candidate
  <2>3. queue \in SUBSET Candidate
    BY <2>2, HookType
  <2>4. ~Early(u) => p \in Call
    BY HookType DEF Early, MaybeCall
  <2> HIDE DEF p, queue
  <2>5. hook' \in [User -> Hook]
    <3> DEFINE h == [hook[u] EXCEPT !.pending = queue]
    <3>1. h \in Hook /\ hook' = IF Early(u) THEN [hook EXCEPT ![u] = h] ELSE hook
      BY <2>1, <2>3, HookType DEF Hook
    <3> HIDE DEF h
    <3> QED
      BY <3>1, SetHook DEF Typed
  <2>6. conns' \in [User -> [Call -> Connection]]
    <3>1. CASE Early(u)
      BY <2>1, <3>1 DEF Typed
    <3>2. CASE ~Early(u)
      <4> DEFINE k == [conns[u][p] EXCEPT !.applied = conns[u][p].applied \cup Arriving(u)]
      <4>1. conns' = [conns EXCEPT ![u][p] = k]
        BY <2>1, <3>2
      <4>2. k \in Connection
        BY <2>2, <2>4, <3>2, ConnectionType DEF Connection
      <4> HIDE DEF k
      <4> QED
        BY <2>4, <3>2, <4>1, <4>2, SetConnection
    <3> QED
      BY <3>1, <3>2
  <2> QED
    BY <2>1, <2>2, <2>5, <2>6 DEF Typed
<1>4. CASE HandleReject(u)
  <2>1. Arrives(u, "reject") /\ inbox' = Taken(u)
    BY <1>4 DEF HandleReject, RejectWhen
  <2>2. inbox' \in [User -> Seq(Signal)]
    BY <2>1, TakenBox
  <2>3. CASE Teardown(u, "idle", jobs[u])
    BY <2>2, <2>3, TeardownType DEF Typed
  <2>4. CASE UNCHANGED <<hook, conns, tracks, jobs, placed>>
    BY <2>2, <2>4 DEF Typed
  <2> QED
    BY <1>4, <2>3, <2>4 DEF HandleReject, RejectWhen
<1>5. CASE HandleHangup(u)
  <2>1. Arrives(u, "hangup") /\ inbox' = Taken(u)
    BY <1>5 DEF HandleHangup, HangupOf
  <2>2. inbox' \in [User -> Seq(Signal)]
    BY <2>1, TakenBox
  <2>3. CASE Teardown(u, "ended", jobs[u])
    BY <2>2, <2>3, TeardownType DEF Typed
  <2>4. CASE UNCHANGED <<hook, conns, tracks, jobs, placed>>
    BY <2>2, <2>4 DEF Typed
  <2> QED
    BY <1>5, <2>3, <2>4 DEF HandleHangup, HangupOf
<1> QED
  BY <1>1, <1>2, <1>3, <1>4, <1>5 DEF Deliver

\* So does the browser answering a request for media,
LEMMA MediaType ==
  ASSUME Typed, NEW u \in User, NEW j \in jobs[u], Granted(u, j) \/ Denied(u, j)
  PROVE  Typed'
<1>1. j.call \in Call /\ j.call \in MaybeCall
  BY JobType DEF MaybeCall
<1>2. CASE Granted(u, j)
  <2> DEFINE todo == ToDo(IF j.does = "dial" THEN "offer" ELSE "answer", j.call)
             incoming == IF j.does = "dial" THEN hook[u].incoming ELSE NoCall
             h == [hook[u] EXCEPT !.stream = j.call, !.peer = j.call,
                                  !.incoming = incoming]
             k == [conns[u][j.call] EXCEPT !.open = TRUE]
  <2>1. /\ hook' = [hook EXCEPT ![u] = h]
        /\ conns' = [conns EXCEPT ![u][j.call] = k]
        /\ tracks' = [tracks EXCEPT ![u][j.call] = "on"]
        /\ jobs' = [jobs EXCEPT ![u] = (@ \ {j}) \cup {todo}]
        /\ UNCHANGED <<placed, inbox>>
    BY <1>2, HookType DEF Granted, CreatePeerConnection
  <2>2. todo \in Job /\ incoming \in MaybeCall
    BY <1>1, HookType DEF ToDo, Job, MaybeCall
  <2> HIDE DEF todo, incoming
  <2>3. hook' \in [User -> Hook]
    <3>1. h \in Hook
      BY <1>1, <2>2, HookType DEF Hook
    <3> HIDE DEF h
    <3> QED
      BY <2>1, <3>1, SetHook
  <2>4. conns' \in [User -> [Call -> Connection]]
    <3>1. k \in Connection
      BY <1>1, ConnectionType, SteppedType
    <3> HIDE DEF k
    <3> QED
      BY <1>1, <2>1, <3>1, SetConnection
  <2>5. tracks' \in [User -> [Call -> {"off", "on", "silent"}]]
    BY <1>1, <2>1 DEF Typed
  <2>6. jobs' \in [User -> SUBSET Job]
    BY <2>1, <2>2 DEF Typed
  <2> QED
    BY <2>1, <2>3, <2>4, <2>5, <2>6 DEF Typed
<1>3. CASE Denied(u, j)
  <2>1. [type |-> "reject", call |-> j.call, n |-> 0] \in Signal
    BY <1>1, SignalType
  <2>2. inbox' \in [User -> Seq(Signal)]
    BY <1>3, <2>1, SentBox DEF Denied, Typed
  <2>3. jobs[u] \ {j} \in SUBSET Job /\ Teardown(u, "error", jobs[u] \ {j})
    BY <1>3, JobType DEF Denied
  <2> QED
    BY <2>2, <2>3, TeardownType
<1> QED
  BY <1>2, <1>3

\* the rest of a handler,
LEMMA SettleType ==
  ASSUME Typed, NEW u \in User, Settle(u)
  PROVE  Typed'
<1> SUFFICES ASSUME NEW j \in jobs[u],
                    SendOffer(u, j) \/ OfferUndelivered(u, j) \/ SendAnswer(u, j)
                      \/ ApplyAnswer(u, j) \/ AnswerRejected(u, j) \/ FinishDrain(u, j)
             PROVE  Typed'
  BY DEF Settle
<1>1. j \in Job /\ j.call \in Call /\ j.about \in Call /\ jobs[u] \in SUBSET Job
      /\ j.call \in MaybeCall /\ j.about \in MaybeCall
  BY JobType DEF MaybeCall
<1>2. \A type \in {"offer", "answer"} : [type |-> type, call |-> j.call, n |-> 0] \in Signal
  BY <1>1, SignalType
<1>3. CASE SendOffer(u, j)
  <2>1. inbox' \in [User -> Seq(Signal)]
    BY <1>2, <1>3, SentBox DEF SendOffer, Typed
  <2>2. jobs' \in [User -> SUBSET Job]
    BY <1>3 DEF SendOffer, Typed
  <2> QED
    BY <1>3, <2>1, <2>2 DEF SendOffer, Typed
<1>4. CASE OfferUndelivered(u, j)
  <2>1. jobs[u] \ {j} \in SUBSET Job /\ Teardown(u, "error", jobs[u] \ {j}) /\ inbox' = inbox
    BY <1>1, <1>4 DEF OfferUndelivered
  <2> QED
    BY <2>1, TeardownType DEF Typed
<1>5. CASE SendAnswer(u, j)
  <2>1. inbox' \in [User -> Seq(Signal)]
    BY <1>2, <1>5, SentBox DEF SendAnswer, Typed
  <2>2. jobs' \in [User -> SUBSET Job]
    BY <1>5 DEF SendAnswer, Typed
  <2>3. hook' \in [User -> Hook]
    <3> DEFINE h == [hook[u] EXCEPT !.pending = {}]
    <3>1. h \in Hook /\ hook' = [hook EXCEPT ![u] = h]
      BY <1>5, HookType DEF SendAnswer, Hook
    <3> HIDE DEF h
    <3> QED
      BY <3>1, SetHook
  <2>4. conns' \in [User -> [Call -> Connection]]
    <3> DEFINE k == [conns[u][j.call] EXCEPT !.remote = j.call,
                  !.applied = conns[u][j.call].applied \cup hook[u].pending]
    <3>1. conns' = [conns EXCEPT ![u][j.call] = k]
      BY <1>5 DEF SendAnswer
    <3>2. k \in Connection
      BY <1>1, HookType, ConnectionType, DescribedType DEF MaybeCall
    <3> HIDE DEF k
    <3> QED
      BY <1>1, <3>1, <3>2, SetConnection
  <2> QED
    BY <1>5, <2>1, <2>2, <2>3, <2>4 DEF SendAnswer, Typed
<1>6. CASE ApplyAnswer(u, j)
  <2>1. ToDo("drain", j.call) \in Job
    BY <1>1 DEF ToDo, Job
  <2>2. jobs' \in [User -> SUBSET Job]
    BY <1>6, <2>1 DEF ApplyAnswer, Typed
  <2>3. hook' \in [User -> Hook]
    <3> DEFINE h == [hook[u] EXCEPT !.pending = {}]
    <3>1. h \in Hook /\ hook' = [hook EXCEPT ![u] = h]
      BY <1>6, HookType DEF ApplyAnswer, Hook
    <3> HIDE DEF h
    <3> QED
      BY <3>1, SetHook
  <2>4. conns' \in [User -> [Call -> Connection]]
    <3> DEFINE k == [conns[u][j.call] EXCEPT !.remote = j.about,
                  !.applied = conns[u][j.call].applied \cup hook[u].pending]
    <3>1. conns' = [conns EXCEPT ![u][j.call] = k]
      BY <1>6 DEF ApplyAnswer
    <3>2. k \in Connection
      BY <1>1, HookType, ConnectionType, DescribedType DEF MaybeCall
    <3> HIDE DEF k
    <3> QED
      BY <1>1, <3>1, <3>2, SetConnection
  <2> QED
    BY <1>6, <2>2, <2>3, <2>4 DEF ApplyAnswer, Typed
<1>7. CASE FinishDrain(u, j)
  <2>1. jobs' \in [User -> SUBSET Job]
    BY <1>7 DEF FinishDrain, Typed
  <2>2. hook' \in [User -> Hook]
    <3> DEFINE h == [hook[u] EXCEPT !.status = "connecting"]
    <3>1. h \in Hook /\ hook' = [hook EXCEPT ![u] = h]
      BY <1>7, HookType DEF FinishDrain, Hook
    <3> HIDE DEF h
    <3> QED
      BY <3>1, SetHook
  <2> QED
    BY <1>7, <2>1, <2>2 DEF FinishDrain, Typed
<1>8. CASE AnswerRejected(u, j)
  <2>1. jobs[u] \ {j} \in SUBSET Job /\ Teardown(u, "error", jobs[u] \ {j}) /\ inbox' = inbox
    BY <1>1, <1>8 DEF AnswerRejected
  <2> QED
    BY <2>1, TeardownType DEF Typed
<1> QED
  BY <1>3, <1>4, <1>5, <1>6, <1>7, <1>8

\* and the network.
LEMMA NetworkType ==
  ASSUME Typed, NEW u \in User, NEW c \in Call,
         Gather(u, c) \/ ConnectionUp(u, c) \/ ConnectionFails(u, c)
  PROVE  Typed'
<1>1. CASE Gather(u, c)
  <2> DEFINE n == conns[u][c].gathered + 1
  <2>1. n \in Nat
    BY <1>1, ConnectionType, CallConstants DEF Gather
  <2> DEFINE k == [conns[u][c] EXCEPT !.gathered = n]
  <2>2. /\ conns' = [conns EXCEPT ![u][c] = k]
        /\ inbox' = Sent(inbox, u, "ice", c, n)
        /\ UNCHANGED <<hook, tracks, jobs, placed>>
    BY <1>1 DEF Gather
  <2> HIDE DEF n
  <2>3. [type |-> "ice", call |-> c, n |-> n] \in Signal
    BY <2>1, SignalType
  <2>4. inbox' \in [User -> Seq(Signal)]
    BY <2>2, <2>3, SentBox DEF Typed
  <2>6. conns' \in [User -> [Call -> Connection]]
    <3>1. k \in Connection
      BY <2>1, ConnectionType DEF Connection
    <3> HIDE DEF k
    <3> QED
      BY <2>2, <3>1, SetConnection
  <2> QED
    BY <2>2, <2>4, <2>6 DEF Typed
<1>2. CASE ConnectionUp(u, c)
  <2>1. conns' \in [User -> [Call -> Connection]]
    <3> DEFINE k == [conns[u][c] EXCEPT !.state = "connected"]
    <3>1. k \in Connection /\ conns' = [conns EXCEPT ![u][c] = k]
      BY <1>2, ConnectionType DEF ConnectionUp, Connection
    <3> HIDE DEF k
    <3> QED
      BY <3>1, SetConnection
  <2>2. hook' \in [User -> Hook]
    <3> DEFINE h == [hook[u] EXCEPT !.status = "active"]
    <3>1. h \in Hook /\ hook' = [hook EXCEPT ![u] = h]
      BY <1>2, HookType DEF ConnectionUp, Hook
    <3> HIDE DEF h
    <3> QED
      BY <3>1, SetHook
  <2> QED
    BY <1>2, <2>1, <2>2 DEF ConnectionUp, Typed
<1>3. CASE ConnectionFails(u, c)
  <2>1. /\ jobs[u] \in SUBSET Job /\ inbox' = inbox
        /\ Leave(u, Cleared("error"), hook[u].stream, jobs[u], c)
    BY <1>3 DEF ConnectionFails, Typed
  <2> QED
    BY <2>1, LeaveType DEF Typed
<1> QED
  BY <1>1, <1>2, <1>3

\* The types hold at first.
LEMMA InitType == Init => TypeOK
<1> SUFFICES ASSUME Init PROVE TypeOK
  OBVIOUS
<1>1. Cleared("idle") \in Hook
  BY DEF Cleared, Hook, MaybeCall
<1>2. NoConnection \in Connection
  BY CallConstants DEF NoConnection, MaybeCall, Connection
<1>3. \A u \in User : 0 <= MaxCalls[u]
  BY CallConstants
<1> QED
  BY <1>1, <1>2, <1>3 DEF Init, Typed, TypeOK

\* The steps of a user.
Step(u) == Media(u) \/ Button(u) \/ Deliver(u) \/ Settle(u) \/ Network(u)

\* A step keeps the types.
LEMMA StepType ==
  ASSUME Typed, NEW u \in User, Step(u)
  PROVE  Typed'
BY ButtonType, DeliverType, MediaType, SettleType, NetworkType DEF Step, Media, Network

\* And after every step.
LEMMA NextType == TypeOK /\ [Next]_vars => TypeOK'
<1> SUFFICES ASSUME TypeOK, Next PROVE TypeOK'
  BY DEF vars, Typed, TypeOK
<1>1. PICK u \in User : Step(u)
  BY DEF Next, Step
<1>2. Typed
  BY DEF TypeOK
<1>3. Typed'
  BY <1>1, <1>2, StepType
<1>4. (crossed \in SUBSET User /\ resumed \in SUBSET User)'
  BY DEF Next, TypeOK
<1> QED
  BY <1>3, <1>4 DEF TypeOK

\* However calls and signals cross, the variables keep their types.
THEOREM CallTypes == Spec => []TypeOK
<1> QED
  BY InitType, NextType, PTL DEF Spec

-----------------------------------------------------------------------------
(* What each operation changes                                             *)

\* Nothing at the other users but their mailboxes.
OnlyAt(u) ==
  \A x \in User : x # u => /\ hook'[x] = hook[x] /\ conns'[x] = conns[x]
                          /\ tracks'[x] = tracks[x] /\ jobs'[x] = jobs[x]

SameCalls(u) ==
  /\ hook'[u].callId = hook[u].callId /\ hook'[u].incoming = hook[u].incoming
  /\ hook'[u].peer = hook[u].peer /\ hook'[u].stream = hook[u].stream
SameElse(u) ==
  /\ hook'[u].incoming = hook[u].incoming /\ hook'[u].peer = hook[u].peer
  /\ hook'[u].stream = hook[u].stream /\ hook'[u].muted = hook[u].muted
SameAnswers(u) == \A c \in Call : conns'[u][c].remote = conns[u][c].remote

\* The user leaves whatever call it is in, and no handler is begun.
Leaves(u) ==
  /\ hook'[u].callId = NoCall /\ hook'[u].incoming = NoCall
  /\ hook'[u].peer = NoCall /\ hook'[u].stream = NoCall /\ ~hook'[u].muted
  /\ \A c \in Call : conns'[u][c].remote \in {conns[u][c].remote, NoCall}
  /\ \A c \in Call : tracks'[u][c] = IF c = hook[u].stream THEN "off" ELSE tracks[u][c]
  /\ jobs'[u] \in SUBSET jobs[u]

\* Nothing but the status, candidates and the handlers that are done.
Calm(u) ==
  /\ SameCalls(u) /\ SameAnswers(u) /\ hook'[u].muted = hook[u].muted
  /\ hook'[u].status \in {hook[u].status, "connecting", "active"}
  /\ tracks'[u] = tracks[u] /\ jobs'[u] \in SUBSET jobs[u]

\* The hook of u becomes h.
LEMMA HookBecomes ==
  ASSUME Typed, NEW u \in User, NEW h, hook' = [hook EXCEPT ![u] = h]
  PROVE  hook'[u] = h /\ \A x \in User : x # u => hook'[x] = hook[x]
BY DEF Typed

\* A call begins to be set up, and the rest of the hook stays.
LEMMA HookBegins ==
  ASSUME Typed, NEW u \in User, NEW c, NEW s,
         hook'[u] = [hook[u] EXCEPT !.callId = c, !.status = s]
  PROVE  hook'[u].callId = c /\ hook'[u].status = s /\ SameElse(u)
BY HookType DEF SameElse, Hook

\* The call placed is new, and the user asks for media to dial.
LEMMA StartCallDoes ==
  ASSUME Typed, NEW u \in User, StartCall(u)
  PROVE  LET c == [by |-> u, n |-> placed[u] + 1]
         IN  /\ c \in Call /\ c.by = u /\ c.n = placed[u] + 1
             /\ hook'[u].callId = c /\ hook'[u].status = "dialing" /\ SameElse(u)
             /\ hook[u].peer = NoCall
             /\ jobs'[u] = jobs[u] \cup {ToDo("dial", c)}
             /\ conns' = conns /\ tracks' = tracks /\ inbox' = inbox /\ OnlyAt(u)
             /\ placed'[u] = placed[u] + 1 /\ \A x \in User : x # u => placed'[x] = placed[x]
<1> DEFINE c == [by |-> u, n |-> placed[u] + 1]
           h == [hook[u] EXCEPT !.callId = c, !.status = "dialing"]
<1>1. placed[u] \in Nat /\ MaxCalls[u] \in Nat /\ placed[u] < MaxCalls[u]
  BY CallConstants DEF StartCall, Typed
<1>2. c \in Call /\ c.by = u /\ c.n = placed[u] + 1
  BY <1>1 DEF Call
<1>3. /\ hook' = [hook EXCEPT ![u] = h] /\ hook[u].peer = NoCall
      /\ jobs' = [jobs EXCEPT ![u] = @ \cup {ToDo("dial", c)}]
      /\ placed' = [placed EXCEPT ![u] = @ + 1]
      /\ conns' = conns /\ tracks' = tracks /\ inbox' = inbox
  BY DEF StartCall
<1> HIDE DEF c
<1>6. hook'[u] = h => hook'[u].callId = c /\ hook'[u].status = "dialing" /\ SameElse(u)
  BY HookBegins
<1> HIDE DEF h
<1>4. hook'[u] = h /\ \A x \in User : x # u => hook'[x] = hook[x]
  BY <1>3, HookBecomes
<1>5. /\ jobs'[u] = jobs[u] \cup {ToDo("dial", c)}
      /\ \A x \in User : x # u => jobs'[x] = jobs[x]
      /\ placed'[u] = placed[u] + 1 /\ \A x \in User : x # u => placed'[x] = placed[x]
  BY <1>3 DEF Typed
<1> QED
  BY <1>2, <1>3, <1>4, <1>5, <1>6 DEF OnlyAt, c

\* To accept asks for media too.
LEMMA AcceptCallDoes ==
  ASSUME Typed, NEW u \in User, AcceptCall(u)
  PROVE  LET c == hook[u].incoming
         IN  /\ c \in Call /\ hook[u].peer = NoCall
             /\ hook'[u].callId = c /\ hook'[u].status = "connecting" /\ SameElse(u)
             /\ jobs'[u] = jobs[u] \cup {ToDo("accept", c)}
             /\ conns' = conns /\ tracks' = tracks /\ inbox' = inbox /\ placed' = placed
             /\ OnlyAt(u)
<1> DEFINE c == hook[u].incoming
           h == [hook[u] EXCEPT !.callId = c, !.status = "connecting"]
<1>1. c \in Call
  BY HookType DEF AcceptCall, Ringing, MaybeCall
<1>2. /\ hook' = [hook EXCEPT ![u] = h] /\ hook[u].peer = NoCall
      /\ jobs' = [jobs EXCEPT ![u] = @ \cup {ToDo("accept", c)}]
      /\ conns' = conns /\ tracks' = tracks /\ inbox' = inbox /\ placed' = placed
  BY DEF AcceptCall
<1> HIDE DEF c
<1>5. hook'[u] = h => hook'[u].callId = c /\ hook'[u].status = "connecting" /\ SameElse(u)
  BY HookBegins
<1> HIDE DEF h
<1>3. hook'[u] = h /\ \A x \in User : x # u => hook'[x] = hook[x]
  BY <1>2, HookBecomes
<1>4. /\ jobs'[u] = jobs[u] \cup {ToDo("accept", c)}
      /\ \A x \in User : x # u => jobs'[x] = jobs[x]
  BY <1>2 DEF Typed
<1> QED
  BY <1>1, <1>2, <1>3, <1>4, <1>5 DEF OnlyAt, c

\* A granted stream comes with a connection.
LEMMA GrantedDoes ==
  ASSUME Typed, NEW u \in User, NEW j \in jobs[u], Granted(u, j)
  PROVE  LET c == j.call
             dialled == j.does = "dial"
         IN  /\ c \in Call /\ j.does \in {"dial", "accept"}
             /\ hook'[u].callId = hook[u].callId /\ hook'[u].peer = c /\ hook'[u].stream = c
             /\ hook'[u].incoming \in {hook[u].incoming, NoCall}
             /\ hook'[u].status = hook[u].status /\ hook'[u].muted = hook[u].muted
             /\ SameAnswers(u)
             /\ tracks'[u][c] = "on" /\ \A d \in Call : d # c => tracks'[u][d] = tracks[u][d]
             /\ jobs'[u] = (jobs[u] \ {j}) \cup {ToDo(IF dialled THEN "offer" ELSE "answer", c)}
             /\ inbox' = inbox /\ placed' = placed /\ OnlyAt(u)
<1> DEFINE c == j.call
           dialled == j.does = "dial"
           h == [hook[u] EXCEPT !.stream = c, !.peer = c,
                              !.incoming = IF dialled THEN hook[u].incoming ELSE NoCall]
           k == [conns[u][c] EXCEPT !.open = TRUE]
           todo == ToDo(IF dialled THEN "offer" ELSE "answer", c)
<1>1. c \in Call /\ j.does \in {"dial", "accept"}
  BY JobType DEF Granted
<1>2. /\ hook' = [hook EXCEPT ![u] = h]
      /\ conns' = [conns EXCEPT ![u][c] = k]
      /\ tracks' = [tracks EXCEPT ![u][c] = "on"]
      /\ jobs' = [jobs EXCEPT ![u] = (@ \ {j}) \cup {todo}]
      /\ inbox' = inbox /\ placed' = placed
  BY DEF Granted, CreatePeerConnection
<1>3. k.remote = conns[u][c].remote
  BY <1>1, ConnectionType DEF Connection
<1> HIDE DEF h, k, todo, c, dialled
<1>4. hook'[u] = h /\ \A x \in User : x # u => hook'[x] = hook[x]
  BY <1>2, HookBecomes
<1>5. /\ conns'[u][c] = k /\ \A d \in Call : d # c => conns'[u][d] = conns[u][d]
      /\ \A x \in User : x # u => conns'[x] = conns[x]
  BY <1>1, <1>2 DEF Typed
<1>6. /\ tracks'[u][c] = "on" /\ \A d \in Call : d # c => tracks'[u][d] = tracks[u][d]
      /\ \A x \in User : x # u => tracks'[x] = tracks[x]
  BY <1>1, <1>2 DEF Typed
<1>7. jobs'[u] = (jobs[u] \ {j}) \cup {todo} /\ \A x \in User : x # u => jobs'[x] = jobs[x]
  BY <1>2 DEF Typed
<1>8. SameAnswers(u)
  BY <1>3, <1>5 DEF SameAnswers
<1>9. /\ h.callId = hook[u].callId /\ h.peer = c /\ h.stream = c
      /\ h.incoming \in {hook[u].incoming, NoCall}
      /\ h.status = hook[u].status /\ h.muted = hook[u].muted
  BY HookType DEF Hook, h
<1> QED
  BY <1>1, <1>2, <1>4, <1>5, <1>6, <1>7, <1>8, <1>9 DEF OnlyAt, todo, c, dialled

\* Leaving a call.
LEMMA LeaveDoes ==
  ASSUME Typed, NEW u \in User, NEW next \in {"idle", "ended", "error"},
         NEW todo \in SUBSET jobs[u], NEW failed,
         Leave(u, Cleared(next), hook[u].stream, todo, failed)
  PROVE  Leaves(u) /\ OnlyAt(u) /\ placed' = placed
<1> DEFINE left == {j \in todo : j.does \in {"dial", "accept"} \/ j.call # hook[u].peer}
<1>1. todo \in SUBSET Job
  BY DEF Typed
<1>2. /\ hook' = [hook EXCEPT ![u] = Cleared(next)]
      /\ jobs' = [jobs EXCEPT ![u] = left]
      /\ placed' = placed
      /\ \A x \in User : x # u => conns'[x] = conns[x] /\ tracks'[x] = tracks[x]
      /\ \A c \in Call :
           conns'[u][c].remote = IF c = hook[u].peer THEN NoCall ELSE conns[u][c].remote
      /\ \A c \in Call :
           tracks'[u][c] = IF c = hook[u].stream THEN "off" ELSE tracks[u][c]
  <2>1. placed' = placed /\ hook' = [hook EXCEPT ![u] = Cleared(next)]
    BY <1>1, LeaveType
  <2>2. jobs' = [jobs EXCEPT ![u] = left]
    BY DEF Leave
  <2>3. /\ \A x \in User : x # u => conns'[x] = conns[x] /\ tracks'[x] = tracks[x]
        /\ \A c \in Call :
             conns'[u][c].remote = IF c = hook[u].peer THEN NoCall ELSE conns[u][c].remote
    BY <1>1, LeaveType
  <2>4. \A c \in Call : tracks'[u][c] = IF c = hook[u].stream THEN "off" ELSE tracks[u][c]
    BY <1>1, LeaveType
  <2> HIDE DEF left
  <2> QED
    BY <2>1, <2>2, <2>3, <2>4
<1>3. left \in SUBSET jobs[u]
  OBVIOUS
<1> HIDE DEF left
<1>4. jobs'[u] = left /\ \A x \in User : x # u => jobs'[x] = jobs[x]
  BY <1>2 DEF Typed
<1>5. hook'[u] = Cleared(next) /\ \A x \in User : x # u => hook'[x] = hook[x]
  BY <1>2, HookBecomes
<1> QED
  BY <1>2, <1>3, <1>4, <1>5 DEF Leaves, OnlyAt, Cleared

\* The ways to leave.
LEMMA LeavingDoes ==
  ASSUME Typed, NEW u \in User,
         \/ \E next \in {"idle", "ended", "error"}, todo \in SUBSET jobs[u] :
              Teardown(u, next, todo)
         \/ \E c \in Call : ConnectionFails(u, c)
  PROVE  Leaves(u) /\ OnlyAt(u) /\ placed' = placed
BY LeaveDoes DEF Teardown, ConnectionFails

\* An offer or an answer that is sent, and a job that ends.
LEMMA SendOfferDoes ==
  ASSUME Typed, NEW u \in User, NEW j \in jobs[u], SendOffer(u, j)
  PROVE  /\ j.does = "offer" /\ j.call \in Call /\ jobs'[u] = jobs[u] \ {j}
         /\ inbox' = Sent(inbox, u, "offer", j.call, 0)
         /\ hook' = hook /\ conns' = conns /\ tracks' = tracks /\ placed' = placed
         /\ OnlyAt(u)
BY JobType DEF SendOffer, Typed, OnlyAt

\* The description is applied, and the queue with it.
LEMMA DescribedDoes ==
  ASSUME Typed, NEW u \in User, NEW j \in jobs[u], SendAnswer(u, j) \/ ApplyAnswer(u, j)
  PROVE  LET c == j.call
         IN  /\ c \in Call
             /\ \/ j.does = "answer"
                \/ j.does = "apply" /\ c.by = u /\ conns[u][c].remote = NoCall
             /\ SameCalls(u) /\ hook'[u].muted = hook[u].muted
             /\ hook'[u].status = hook[u].status
             /\ conns'[u][c].remote = IF j.does = "answer" THEN c ELSE j.about
             /\ \A d \in Call : d # c => conns'[u][d] = conns[u][d]
             /\ jobs'[u] = (jobs[u] \ {j}) \cup
                  (IF j.does = "answer" THEN {} ELSE {ToDo("drain", c)})
             /\ inbox' = IF j.does = "answer" THEN Sent(inbox, u, "answer", c, 0) ELSE inbox
             /\ tracks' = tracks /\ placed' = placed /\ OnlyAt(u)
<1> DEFINE c == j.call
           remote == IF j.does = "answer" THEN c ELSE j.about
           more == IF j.does = "answer" THEN {} ELSE {ToDo("drain", c)}
           h == [hook[u] EXCEPT !.pending = {}]
           k == [conns[u][c] EXCEPT !.remote = remote,
                                    !.applied = conns[u][c].applied \cup hook[u].pending]
<1>1. c \in Call
  BY JobType
<1>2. \/ j.does = "answer"
      \/ j.does = "apply" /\ c.by = u /\ conns[u][c].remote = NoCall
  BY DEF SendAnswer, ApplyAnswer, TakesAnswer
<1>3. /\ hook' = [hook EXCEPT ![u] = h]
      /\ conns' = [conns EXCEPT ![u][c] = k]
      /\ jobs' = [jobs EXCEPT ![u] = (jobs[u] \ {j}) \cup more]
      /\ inbox' = IF j.does = "answer" THEN Sent(inbox, u, "answer", c, 0) ELSE inbox
      /\ tracks' = tracks /\ placed' = placed
  <2>1. CASE SendAnswer(u, j)
    BY <2>1 DEF SendAnswer
  <2>2. CASE ApplyAnswer(u, j)
    BY <2>2 DEF ApplyAnswer
  <2> QED
    BY <2>1, <2>2
<1>4. conns[u][c] \in Connection
  BY <1>1, ConnectionType
<1>5. k.remote = remote
  BY <1>4 DEF Connection
<1> HIDE DEF k, more, c, remote
<1>6. hook'[u] = h /\ \A x \in User : x # u => hook'[x] = hook[x]
  BY <1>3, HookBecomes
<1>7. SameCalls(u) /\ hook'[u].muted = hook[u].muted /\ hook'[u].status = hook[u].status
  BY <1>6, HookType DEF SameCalls, Hook
<1>8. /\ conns'[u][c] = k /\ \A d \in Call : d # c => conns'[u][d] = conns[u][d]
      /\ \A x \in User : x # u => conns'[x] = conns[x]
  BY <1>1, <1>3 DEF Typed
<1>9. /\ jobs'[u] = (jobs[u] \ {j}) \cup more
      /\ \A x \in User : x # u => jobs'[x] = jobs[x] /\ tracks'[x] = tracks[x]
  BY <1>3 DEF Typed
<1> QED
  BY <1>1, <1>2, <1>3, <1>5, <1>6, <1>7, <1>8, <1>9 DEF OnlyAt, more, c, remote

\* A status that changes and nothing else of the hook.
LEMMA StatusIs ==
  ASSUME Typed, NEW u \in User, NEW s \in {"connecting", "active"},
         hook' = [hook EXCEPT ![u].status = s]
  PROVE  /\ SameCalls(u) /\ hook'[u].muted = hook[u].muted /\ hook'[u].status = s
         /\ \A x \in User : x # u => hook'[x] = hook[x]
<1> DEFINE h == [hook[u] EXCEPT !.status = s]
<1>1. hook' = [hook EXCEPT ![u] = h]
  OBVIOUS
<1>2. hook'[u] = h /\ \A x \in User : x # u => hook'[x] = hook[x]
  BY <1>1, HookBecomes
<1> QED
  BY <1>2, HookType DEF SameCalls, Hook

\* What the end of a drained queue does.
LEMMA FinishDrainDoes ==
  ASSUME Typed, NEW u \in User, NEW j \in jobs[u], FinishDrain(u, j)
  PROVE  Calm(u) /\ inbox' = inbox /\ placed' = placed /\ OnlyAt(u)
<1>1. /\ hook' = [hook EXCEPT ![u].status = "connecting"]
      /\ jobs' = [jobs EXCEPT ![u] = jobs[u] \ {j}]
      /\ conns' = conns /\ tracks' = tracks /\ inbox' = inbox /\ placed' = placed
  BY DEF FinishDrain
<1>2. jobs'[u] = jobs[u] \ {j} /\ \A x \in User : x # u => jobs'[x] = jobs[x]
  BY <1>1 DEF Typed
<1>3. /\ SameCalls(u) /\ hook'[u].muted = hook[u].muted /\ hook'[u].status = "connecting"
      /\ \A x \in User : x # u => hook'[x] = hook[x]
  BY <1>1, StatusIs
<1> QED
  BY <1>1, <1>2, <1>3 DEF OnlyAt, Calm, SameAnswers

\* What a connection that comes up does.
LEMMA ConnectionUpDoes ==
  ASSUME Typed, NEW u \in User, NEW c \in Call, ConnectionUp(u, c)
  PROVE  Calm(u) /\ inbox' = inbox /\ placed' = placed /\ OnlyAt(u)
<1> DEFINE k == [conns[u][c] EXCEPT !.state = "connected"]
<1>1. /\ hook' = [hook EXCEPT ![u].status = "active"]
      /\ conns' = [conns EXCEPT ![u][c] = k]
      /\ tracks' = tracks /\ jobs' = jobs /\ placed' = placed /\ inbox' = inbox
  BY DEF ConnectionUp
<1>2. k.remote = conns[u][c].remote
  BY ConnectionType, SteppedType
<1> HIDE DEF k
<1>3. /\ conns'[u][c] = k /\ \A d \in Call : d # c => conns'[u][d] = conns[u][d]
      /\ \A x \in User : x # u => conns'[x] = conns[x]
  BY <1>1 DEF Typed
<1>4. /\ SameCalls(u) /\ hook'[u].muted = hook[u].muted /\ hook'[u].status = "active"
      /\ \A x \in User : x # u => hook'[x] = hook[x]
  BY <1>1, StatusIs
<1> QED
  BY <1>1, <1>2, <1>3, <1>4 DEF OnlyAt, Calm, SameAnswers

\* A candidate that is gathered.
LEMMA GatherDoes ==
  ASSUME Typed, NEW u \in User, NEW c \in Call, Gather(u, c)
  PROVE  /\ Calm(u) /\ placed' = placed /\ OnlyAt(u) /\ conns[u][c].open
         /\ \E n \in Nat : inbox' = Sent(inbox, u, "ice", c, n)
<1> DEFINE n == conns[u][c].gathered + 1
           k == [conns[u][c] EXCEPT !.gathered = n]
<1>1. n \in Nat /\ conns[u][c] \in Connection
  BY ConnectionType
<1>2. /\ conns[u][c].open /\ conns' = [conns EXCEPT ![u][c] = k]
      /\ inbox' = Sent(inbox, u, "ice", c, n)
      /\ hook' = hook /\ tracks' = tracks /\ jobs' = jobs /\ placed' = placed
  BY DEF Gather
<1>3. k.remote = conns[u][c].remote
  BY <1>1 DEF Connection
<1> HIDE DEF n, k
<1>4. /\ conns'[u][c] = k /\ \A d \in Call : d # c => conns'[u][d] = conns[u][d]
      /\ \A x \in User : x # u => conns'[x] = conns[x]
  BY <1>2 DEF Typed
<1> QED
  BY <1>1, <1>2, <1>3, <1>4 DEF OnlyAt, Calm, SameCalls, SameAnswers

\* The signals.
LEMMA HandleOfferDoes ==
  ASSUME Typed, NEW u \in User, HandleOffer(u)
  PROVE  LET c == Head(inbox[u]).call
             busy == hook[u].peer # NoCall \/ hook[u].incoming # NoCall
         IN  /\ c \in Call /\ Arrives(u, "offer")
             /\ hook'[u].incoming = IF busy THEN hook[u].incoming ELSE c
             /\ inbox' = IF busy THEN Sent(Taken(u), u, "reject", c, 0) ELSE Taken(u)
             /\ conns' = conns /\ tracks' = tracks /\ jobs' = jobs /\ placed' = placed
             /\ OnlyAt(u)
<1> DEFINE c == Head(inbox[u]).call
           busy == hook[u].peer # NoCall \/ hook[u].incoming # NoCall
           h == [hook[u] EXCEPT !.pending = {}, !.incoming = c, !.status = "ringing"]
<1>1. /\ Arrives(u, "offer")
      /\ inbox' = IF busy THEN Sent(Taken(u), u, "reject", c, 0) ELSE Taken(u)
      /\ hook' = IF busy THEN hook ELSE [hook EXCEPT ![u] = h]
      /\ conns' = conns /\ tracks' = tracks /\ jobs' = jobs /\ placed' = placed
  BY DEF HandleOffer, OfferWhen
<1>2. c \in Call
  BY <1>1, TakenBox
<1>3. h.incoming = c
  BY HookType DEF Hook
<1> HIDE DEF c, busy, h
<1>4. hook'[u] = (IF busy THEN hook[u] ELSE h) /\ \A x \in User : x # u => hook'[x] = hook[x]
  BY <1>1, HookBecomes
<1> QED
  BY <1>1, <1>2, <1>3, <1>4 DEF OnlyAt, c, busy

\* The call a user is in goes on while another rings.
LEMMA HandleOfferKeeps ==
  ASSUME Typed, NEW u \in User, HandleOffer(u)
  PROVE  /\ hook'[u].callId = hook[u].callId /\ hook'[u].peer = hook[u].peer
         /\ hook'[u].stream = hook[u].stream /\ hook'[u].muted = hook[u].muted
         /\ hook'[u].status \in {hook[u].status, "ringing"}
         /\ tracks' = tracks /\ conns' = conns /\ jobs' = jobs
<1> DEFINE h == [hook[u] EXCEPT !.pending = {}, !.incoming = Head(inbox[u]).call,
                                !.status = "ringing"]
<1>1. /\ hook' = hook \/ hook' = [hook EXCEPT ![u] = h]
      /\ tracks' = tracks /\ conns' = conns /\ jobs' = jobs
  BY DEF HandleOffer, OfferWhen
<1>2. /\ h.callId = hook[u].callId /\ h.peer = hook[u].peer
      /\ h.stream = hook[u].stream /\ h.muted = hook[u].muted /\ h.status = "ringing"
  BY HookType DEF Hook
<1> HIDE DEF h
<1>3. hook'[u] = hook[u] \/ hook'[u] = h
  BY <1>1, HookBecomes
<1> QED
  BY <1>1, <1>2, <1>3

\* What an answer does.
LEMMA HandleAnswerDoes ==
  ASSUME Typed, NEW u \in User, HandleAnswer(u)
  PROVE  /\ Arrives(u, "answer") /\ inbox' = Taken(u)
         /\ \/ jobs'[u] = jobs[u]
            \/ /\ hook[u].peer \in Call
               /\ jobs'[u] = jobs[u] \cup {[does |-> "apply", call |-> hook[u].peer,
                                            about |-> hook[u].callId]}
         /\ hook' = hook /\ conns' = conns /\ tracks' = tracks /\ placed' = placed
         /\ OnlyAt(u)
<1> DEFINE job == [does |-> "apply", call |-> hook[u].peer, about |-> hook[u].callId]
<1>1. /\ Arrives(u, "answer") /\ inbox' = Taken(u)
      /\ \/ jobs' = jobs
         \/ hook[u].peer # NoCall /\ jobs' = [jobs EXCEPT ![u] = jobs[u] \cup {job}]
      /\ hook' = hook /\ conns' = conns /\ tracks' = tracks /\ placed' = placed
  BY DEF HandleAnswer, AnswerWhen
<1> HIDE DEF job
<1>2. CASE jobs' = jobs
  BY <1>1, <1>2 DEF OnlyAt
<1>3. CASE hook[u].peer # NoCall /\ jobs' = [jobs EXCEPT ![u] = jobs[u] \cup {job}]
  <2>1. jobs'[u] = jobs[u] \cup {job} /\ \A x \in User : x # u => jobs'[x] = jobs[x]
    BY <1>3 DEF Typed
  <2>2. hook[u].peer \in Call
    BY <1>3, HookType DEF MaybeCall
  <2> QED
    BY <1>1, <1>3, <2>1, <2>2 DEF OnlyAt, job
<1> QED
  BY <1>1, <1>2, <1>3

\* What a candidate does: queued while it is early, and otherwise applied.
LEMMA HandleIceDoes ==
  ASSUME Typed, NEW u \in User, HandleIce(u)
  PROVE  /\ Arrives(u, "ice") /\ inbox' = Taken(u)
         /\ Calm(u) /\ placed' = placed /\ OnlyAt(u)
<1> DEFINE p == hook[u].peer
           h == [hook[u] EXCEPT !.pending = hook[u].pending \cup Arriving(u)]
           k == [conns[u][p] EXCEPT !.applied = conns[u][p].applied \cup Arriving(u)]
<1>1. /\ Arrives(u, "ice") /\ inbox' = Taken(u)
      /\ hook' = IF Early(u) THEN [hook EXCEPT ![u] = h] ELSE hook
      /\ conns' = IF Early(u) THEN conns ELSE [conns EXCEPT ![u][p] = k]
      /\ tracks' = tracks /\ jobs' = jobs /\ placed' = placed
  BY DEF HandleIce, CandidateOr
<1>2. CASE Early(u)
  <2>1. hook'[u] = h /\ \A x \in User : x # u => hook'[x] = hook[x]
    BY <1>1, <1>2, HookBecomes
  <2>2. SameCalls(u) /\ hook'[u].muted = hook[u].muted /\ hook'[u].status = hook[u].status
    BY <2>1, HookType DEF SameCalls, Hook
  <2> QED
    BY <1>1, <1>2, <2>1, <2>2 DEF OnlyAt, Calm, SameAnswers
<1>3. CASE ~Early(u)
  <2>1. p \in Call
    BY <1>3, HookType DEF Early, MaybeCall
  <2>2. conns[u][p] \in Connection
    BY <2>1, ConnectionType
  <2>3. k.remote = conns[u][p].remote
    BY <2>2 DEF Connection
  <2> HIDE DEF k, p
  <2>4. /\ conns'[u][p] = k /\ \A d \in Call : d # p => conns'[u][d] = conns[u][d]
        /\ \A x \in User : x # u => conns'[x] = conns[x]
    BY <1>1, <1>3, <2>1 DEF Typed
  <2> QED
    BY <1>1, <1>3, <2>3, <2>4 DEF OnlyAt, Calm, SameCalls, SameAnswers
<1> QED
  BY <1>2, <1>3

\* What muting does: to the tracks of the hook's own stream only.
LEMMA ToggleMuteDoes ==
  ASSUME Typed, NEW u \in User, ToggleMute(u)
  PROVE  /\ hook[u].stream \in Call /\ SameCalls(u) /\ hook'[u].status = hook[u].status
         /\ tracks'[u][hook[u].stream] \in {"on", "silent"}
         /\ hook'[u].muted <=> tracks'[u][hook[u].stream] = "silent"
         /\ \A c \in Call : c # hook[u].stream => tracks'[u][c] = tracks[u][c]
         /\ conns' = conns /\ jobs' = jobs /\ placed' = placed /\ inbox' = inbox
         /\ OnlyAt(u)
<1> DEFINE c == hook[u].stream
           off == tracks[u][c] = "on"
           h == [hook[u] EXCEPT !.muted = off]
<1>1. /\ c # NoCall /\ hook' = [hook EXCEPT ![u] = h]
      /\ tracks' = [tracks EXCEPT ![u][c] = IF off THEN "silent" ELSE "on"]
      /\ conns' = conns /\ jobs' = jobs /\ placed' = placed /\ inbox' = inbox
  BY DEF ToggleMute
<1>2. off \in BOOLEAN /\ c \in Call
  BY <1>1, HookType DEF MaybeCall
<1> HIDE DEF c, off
<1>3. hook'[u] = h /\ \A x \in User : x # u => hook'[x] = hook[x]
  BY <1>1, HookBecomes
<1>4. SameCalls(u) /\ hook'[u].status = hook[u].status /\ hook'[u].muted = off
  BY <1>3, HookType DEF SameCalls, Hook
<1>5. /\ tracks'[u][c] = IF off THEN "silent" ELSE "on"
      /\ \A d \in Call : d # c => tracks'[u][d] = tracks[u][d]
      /\ \A x \in User : x # u => tracks'[x] = tracks[x]
  BY <1>1, <1>2 DEF Typed
<1>6. tracks'[u][c] \in {"on", "silent"} /\ (hook'[u].muted <=> tracks'[u][c] = "silent")
  BY <1>2, <1>4, <1>5
<1> QED
  BY <1>1, <1>2, <1>3, <1>4, <1>5, <1>6 DEF OnlyAt, c

\* What the kinds of step are, as far as the calls are concerned.
LEMMA StepKinds ==
  ASSUME Typed, NEW u \in User, Step(u)
  PROVE  \/ StartCall(u) \/ AcceptCall(u) \/ ToggleMute(u) \/ HandleOffer(u) \/ HandleAnswer(u)
         \/ \E j \in jobs[u] : Granted(u, j) \/ SendAnswer(u, j) \/ ApplyAnswer(u, j)
         \/ Calm(u) /\ OnlyAt(u) /\ placed' = placed
         \/ Leaves(u) /\ OnlyAt(u) /\ placed' = placed
<1>1. CASE \E c \in Call : Gather(u, c) \/ ConnectionUp(u, c)
  BY <1>1, GatherDoes, ConnectionUpDoes
<1>2. CASE \E j \in jobs[u] : SendOffer(u, j) \/ FinishDrain(u, j)
  BY <1>2, SendOfferDoes, FinishDrainDoes DEF Calm, SameCalls, SameAnswers
<1>3. CASE HandleIce(u)
  BY <1>3, HandleIceDoes
<1>4. CASE UNCHANGED <<hook, conns, tracks, jobs, placed>>
  BY <1>4 DEF Calm, SameCalls, SameAnswers, OnlyAt
<1>5. CASE \E next \in {"idle", "ended", "error"}, todo \in SUBSET jobs[u] : Teardown(u, next, todo)
  BY <1>5, LeavingDoes
<1>6. CASE \E c \in Call : ConnectionFails(u, c)
  BY <1>6, LeavingDoes
<1>7. CASE RejectCall(u) \/ HangUp(u)
  <2>1. Teardown(u, "idle", jobs[u])
    BY <1>7 DEF RejectCall, HangUp
  <2> QED
    BY <1>5, <2>1
<1>8. CASE HandleReject(u) \/ HandleHangup(u)
  <2>1. \/ Teardown(u, "idle", jobs[u]) \/ Teardown(u, "ended", jobs[u])
        \/ UNCHANGED <<hook, conns, tracks, jobs, placed>>
    BY <1>8 DEF HandleReject, RejectWhen, HandleHangup, HangupOf
  <2> QED
    BY <1>4, <1>5, <2>1
<1>9. CASE \E j \in jobs[u] : Denied(u, j) \/ OfferUndelivered(u, j) \/ AnswerRejected(u, j)
  <2>1. PICK j \in jobs[u] : Teardown(u, "error", jobs[u] \ {j})
    BY <1>9 DEF Denied, OfferUndelivered, AnswerRejected
  <2>2. jobs[u] \ {j} \in SUBSET jobs[u]
    OBVIOUS
  <2> QED
    BY <1>5, <2>1, <2>2
<1> QED
  BY <1>1, <1>2, <1>3, <1>6, <1>7, <1>8, <1>9
     DEF Step, Media, Button, Deliver, Settle, Network

-----------------------------------------------------------------------------
(* Mailboxes                                                               *)

Mails(box) == {box[i] : i \in DOMAIN box}

\* A mailbox with one signal more,
LEMMA AppendMails ==
  ASSUME NEW box \in Seq(Signal), NEW m \in Signal
  PROVE  Mails(Append(box, m)) = Mails(box) \cup {m}
<1> DEFINE n == Len(box)
           more == Append(box, m)
<1>1. /\ n \in Nat /\ DOMAIN box = 1..n /\ DOMAIN more = 1..(n + 1)
      /\ \A i \in 1..n : more[i] = box[i]
      /\ more[n + 1] = m
  OBVIOUS
<1> HIDE DEF n, more
<1>2. 1..(n + 1) = (1..n) \cup {n + 1}
  BY <1>1
<1>3. Mails(more) \subseteq Mails(box) \cup {m}
  BY <1>1, <1>2 DEF Mails
<1>4. Mails(box) \subseteq Mails(more) /\ m \in Mails(more)
  BY <1>1, <1>2 DEF Mails
<1> QED
  BY <1>3, <1>4 DEF more

\* and one without its first.
LEMMA TailMails ==
  ASSUME NEW box \in Seq(Signal), box # <<>>
  PROVE  /\ Mails(Tail(box)) \subseteq Mails(box) /\ Head(box) \in Mails(box)
         /\ Mails(box) = Mails(Tail(box)) \cup {Head(box)}
<1> DEFINE n == Len(box)
           rest == Tail(box)
<1>1. /\ n \in Nat /\ n >= 1 /\ DOMAIN box = 1..n /\ DOMAIN rest = 1..(n - 1)
      /\ \A i \in 1..(n - 1) : rest[i] = box[i + 1]
      /\ Head(box) = box[1]
  OBVIOUS
<1> HIDE DEF n, rest
<1>2. Mails(rest) \subseteq Mails(box)
  <2> SUFFICES ASSUME NEW i \in 1..(n - 1) PROVE rest[i] \in Mails(box)
    BY <1>1 DEF Mails
  <2>1. i + 1 \in 1..n
    BY <1>1
  <2> QED
    BY <1>1, <2>1 DEF Mails
<1>3. Head(box) \in Mails(box)
  BY <1>1 DEF Mails
<1>4. Mails(box) \subseteq Mails(rest) \cup {Head(box)}
  <2> SUFFICES ASSUME NEW i \in 1..n, i # 1 PROVE box[i] \in Mails(rest)
    BY <1>1 DEF Mails
  <2>1. i - 1 \in 1..(n - 1) /\ (i - 1) + 1 = i
    BY <1>1
  <2> QED
    BY <1>1, <2>1 DEF Mails
<1> QED
  BY <1>2, <1>3, <1>4 DEF rest

\* A job is known by what it does and the call it is for.
LEMMA JobIs ==
  ASSUME Typed, NEW u \in User, CallsAt(u), NEW j \in jobs[u]
  PROVE  /\ j.does # "apply" => j = ToDo(j.does, j.call)
         /\ j.call \in Call /\ Placed(j.call)
         /\ j.does \in {"dial", "offer"} => j.call.by = u
<1>1. j \in Job
  BY JobType
<1>2. /\ j.does # "apply" => j.about = j.call
      /\ Placed(j.call) /\ (j.does \in {"dial", "offer"} => j.call.by = u)
  BY DEF CallsAt
<1> QED
  BY <1>1, <1>2 DEF Job, ToDo

\* What a user may send in a step: an offer it made before, once, and the end of
\* a call it knows and leaves, or of one it turns down.
Sendable(u, box, type, c) ==
  /\ type # "ice" => Placed(c)
  /\ type = "offer" => c.by = u /\ ToDo("offer", c) \in jobs[u] \ jobs'[u]
  /\ type \in {"reject", "hangup"} =>
       \/ Known(u, c) /\ hook'[u].callId = NoCall /\ hook'[u].incoming = NoCall
       \/ /\ inbox[u] # <<>> /\ box = Taken(u) /\ Head(inbox[u]) = OfferOf(c)
          /\ hook'[u] = hook[u]

\* In a step a user may take the first signal of its mailbox, and may send one.
LEMMA StepMails ==
  ASSUME Typed, NEW u \in User, CallsAt(u), MailAt(u), Step(u)
  PROVE  \E box \in [User -> Seq(Signal)] :
           /\ box = inbox \/ (inbox[u] # <<>> /\ box = Taken(u) /\ Deliver(u))
           /\ \/ inbox' = box
              \/ \E m \in Signal : /\ inbox' = Sent(box, u, m.type, m.call, m.n)
                                   /\ Sendable(u, box, m.type, m.call)
<1>0. inbox \in [User -> Seq(Signal)]
  BY DEF Typed
<1>2. CASE inbox' = inbox
  BY <1>0, <1>2
<1>3. CASE inbox[u] # <<>> /\ inbox' = Taken(u) /\ Deliver(u)
  <2>1. Taken(u) \in [User -> Seq(Signal)]
    BY <1>0, <1>3, HeadTailProperties DEF Taken
  <2> QED
    BY <1>3, <2>1
<1>4. ASSUME NEW type \in {"offer", "answer", "reject", "hangup"}, NEW c \in Call,
             Sendable(u, inbox, type, c), inbox' = Sent(inbox, u, type, c, 0)
      PROVE  \E m \in Signal : /\ inbox' = Sent(inbox, u, m.type, m.call, m.n)
                               /\ Sendable(u, inbox, m.type, m.call)
  <2> DEFINE m == [type |-> type, call |-> c, n |-> 0]
  <2>1. m \in Signal
    BY SignalType
  <2> QED
    BY <1>4, <2>1
<1>5. CASE \E type \in {"offer", "answer", "reject", "hangup"}, c \in Call :
             Sendable(u, inbox, type, c) /\ inbox' = Sent(inbox, u, type, c, 0)
  BY <1>0, <1>4, <1>5
<1>6. \A j \in jobs[u] : /\ j.call \in Call /\ Placed(j.call)
                         /\ j.does # "apply" => j = ToDo(j.does, j.call)
                         /\ j.does = "offer" => j.call.by = u
  BY JobIs
<1>7. \A c \in {hook[u].callId, hook[u].incoming} :
        c # NoCall => c \in Call /\ Placed(c) /\ Known(u, c)
  BY HookType DEF CallsAt, MaybeCall, Known, Live, CallsOf
<1>14. ASSUME NEW c \in Call, NEW type \in {"reject", "hangup"}, Placed(c), Known(u, c),
              Leaves(u), inbox' = Sent(inbox, u, type, c, 0)
       PROVE  Sendable(u, inbox, type, c)
  BY <1>14 DEF Sendable, Leaves
<1>8. CASE Media(u)
  <2>1. PICK j \in jobs[u] : Granted(u, j) \/ Denied(u, j)
    BY <1>8 DEF Media
  <2>2. \/ inbox' = inbox
        \/ /\ Teardown(u, "error", jobs[u] \ {j}) /\ j.does = "accept"
           /\ inbox' = Sent(inbox, u, "reject", j.call, 0)
    BY <2>1 DEF Granted, Denied
  <2>3. CASE /\ Teardown(u, "error", jobs[u] \ {j}) /\ j.does = "accept"
             /\ inbox' = Sent(inbox, u, "reject", j.call, 0)
    <3>1. jobs[u] \ {j} \in SUBSET jobs[u]
      OBVIOUS
    <3>2. Leaves(u)
      BY <2>3, <3>1, LeavingDoes
    <3>3. Known(u, j.call)
      BY <1>6, <2>3 DEF Known
    <3> QED
      BY <1>5, <1>6, <1>14, <2>3, <3>2, <3>3
  <2> QED
    BY <1>2, <2>2, <2>3
<1>9. CASE Button(u)
  <2>1. \/ inbox' = inbox
        \/ /\ hook[u].incoming # NoCall /\ Teardown(u, "idle", jobs[u])
           /\ inbox' = Sent(inbox, u, "reject", hook[u].incoming, 0)
        \/ /\ hook[u].callId # NoCall /\ Teardown(u, "idle", jobs[u])
           /\ inbox' = Sent(inbox, u, "hangup", hook[u].callId, 0)
    BY <1>9 DEF Button, StartCall, AcceptCall, RejectCall, Ringing, HangUp, ToggleMute
  <2>2. Teardown(u, "idle", jobs[u]) => Leaves(u)
    BY LeavingDoes
  <2> QED
    BY <1>2, <1>5, <1>7, <1>14, <2>1, <2>2
<1>10. CASE Settle(u)
  <2>1. PICK j \in jobs[u] :
          SendOffer(u, j) \/ OfferUndelivered(u, j) \/ SendAnswer(u, j)
            \/ ApplyAnswer(u, j) \/ AnswerRejected(u, j) \/ FinishDrain(u, j)
    BY <1>10 DEF Settle
  <2>2. \/ inbox' = inbox
        \/ SendOffer(u, j)
        \/ inbox' = Sent(inbox, u, "answer", j.call, 0)
    BY <2>1 DEF OfferUndelivered, SendAnswer, ApplyAnswer, AnswerRejected, FinishDrain
  <2>3. CASE SendOffer(u, j)
    <3>1. /\ j.does = "offer" /\ jobs'[u] = jobs[u] \ {j}
          /\ inbox' = Sent(inbox, u, "offer", j.call, 0)
      BY <2>3, SendOfferDoes
    <3>2. Sendable(u, inbox, "offer", j.call)
      BY <1>6, <3>1 DEF Sendable
    <3> QED
      BY <1>5, <1>6, <3>1, <3>2
  <2>4. CASE inbox' = Sent(inbox, u, "answer", j.call, 0)
    BY <1>5, <1>6, <2>4 DEF Sendable
  <2> QED
    BY <1>2, <2>2, <2>3, <2>4
<1>11. CASE Network(u)
  <2>1. PICK c \in Call : Gather(u, c) \/ ConnectionUp(u, c) \/ ConnectionFails(u, c)
    BY <1>11 DEF Network
  <2>2. CASE Gather(u, c)
    <3>1. PICK n \in Nat : inbox' = Sent(inbox, u, "ice", c, n)
      BY <2>2, GatherDoes
    <3> DEFINE m == [type |-> "ice", call |-> c, n |-> n]
    <3>2. m \in Signal /\ Sendable(u, inbox, m.type, m.call)
      BY SignalType DEF Sendable
    <3> QED
      BY <1>0, <3>1, <3>2
  <2>3. CASE ConnectionUp(u, c) \/ ConnectionFails(u, c)
    BY <1>2, <2>3 DEF ConnectionUp, ConnectionFails
  <2> QED
    BY <2>1, <2>2, <2>3
<1>12. CASE HandleOffer(u)
  <2> DEFINE c == Head(inbox[u]).call
             m == [type |-> "reject", call |-> c, n |-> 0]
  <2>1. /\ Arrives(u, "offer") /\ c \in Call
        /\ inbox' = Taken(u) \/ (inbox' = Sent(Taken(u), u, "reject", c, 0) /\ hook' = hook)
    BY <1>12, HandleOfferDoes DEF HandleOffer, OfferWhen
  <2>2. /\ inbox[u] # <<>> /\ inbox[u] \in Seq(Signal) /\ Head(inbox[u]).type = "offer"
        /\ Taken(u) \in [User -> Seq(Signal)] /\ Head(inbox[u]) \in Signal
    BY <2>1, TakenBox
  <2>3. Head(inbox[u]) \in Mail(u)
    BY <2>2, TailMails DEF Mail, Mails
  <2>4. Head(inbox[u]) = OfferOf(c)
    BY <2>2 DEF Signal, OfferOf
  <2>5. m \in Signal /\ Placed(c)
    BY <2>1, <2>2, <2>3, SignalType DEF MailAt
  <2>6. hook' = hook => Sendable(u, Taken(u), m.type, m.call)
    BY <2>2, <2>4, <2>5 DEF Sendable
  <2>7. Deliver(u)
    BY <1>12 DEF Deliver
  <2> HIDE DEF c
  <2> QED
    BY <2>1, <2>2, <2>5, <2>6, <2>7
<1>13. CASE HandleAnswer(u) \/ HandleIce(u) \/ HandleReject(u) \/ HandleHangup(u)
  <2>1. inbox[u] # <<>> /\ inbox' = Taken(u)
    BY <1>13 DEF HandleAnswer, AnswerWhen, HandleIce, CandidateOr, HandleReject, RejectWhen,
                 HandleHangup, HangupOf, Arrives
  <2> QED
    BY <1>3, <1>13, <2>1 DEF Deliver
<1> QED
  BY <1>8, <1>9, <1>10, <1>11, <1>12, <1>13 DEF Step, Deliver

-----------------------------------------------------------------------------
(* The call a user is in                                                   *)

\* Calls that were placed stay so.
LEMMA StepPlaced ==
  ASSUME Typed, NEW u \in User, Step(u)
  PROVE  /\ OnlyAt(u)
         /\ \A c \in Call : Placed(c) => Placed(c)'
         /\ placed' = placed \/ StartCall(u)
<1>1. OnlyAt(u)
  BY StepKinds, StartCallDoes, AcceptCallDoes, GrantedDoes, ToggleMuteDoes, HandleOfferDoes,
     HandleAnswerDoes, DescribedDoes
<1>2. placed' = placed \/ StartCall(u)
  BY StepKinds, AcceptCallDoes, GrantedDoes, ToggleMuteDoes, HandleOfferDoes,
     HandleAnswerDoes, DescribedDoes
<1>3. ASSUME NEW c \in Call, Placed(c) PROVE Placed(c)'
  <2>1. c.by \in User /\ c.n \in Nat /\ placed[c.by] \in Nat
    BY CallType DEF Typed
  <2>2. placed'[c.by] \in {placed[c.by], placed[c.by] + 1}
    BY <1>2, <2>1, StartCallDoes
  <2> QED
    BY <1>3, <2>1, <2>2 DEF Placed
<1> QED
  BY <1>1, <1>2, <1>3

\* Mail stays about calls that were placed.
LEMMA MailInv ==
  ASSUME Typed, CallInv, NEW u \in User, Step(u), NEW x \in User
  PROVE  MailAt(x)'
<1>1. CallsAt(u) /\ MailAt(u) /\ MailAt(x)
  BY DEF CallInv
<1>2. PICK box \in [User -> Seq(Signal)] :
        /\ box = inbox \/ (inbox[u] # <<>> /\ box = Taken(u) /\ Deliver(u))
        /\ \/ inbox' = box
           \/ \E m \in Signal : /\ inbox' = Sent(box, u, m.type, m.call, m.n)
                                /\ Sendable(u, box, m.type, m.call)
  BY <1>1, StepMails
<1>3. inbox \in [User -> Seq(Signal)] /\ inbox[u] \in Seq(Signal) /\ inbox[x] \in Seq(Signal)
      /\ box[x] \in Seq(Signal)
  BY DEF Typed
<1>4. Mails(box[x]) \subseteq Mail(x)
  <2>1. CASE box = inbox
    BY <2>1 DEF Mail, Mails
  <2>2. CASE inbox[u] # <<>> /\ box = Taken(u)
    <3>1. box[x] = IF x = u THEN Tail(inbox[u]) ELSE inbox[x]
      BY <1>3, <2>2 DEF Taken
    <3> QED
      BY <1>3, <2>2, <3>1, TailMails DEF Mail, Mails
  <2> QED
    BY <1>2, <2>1, <2>2
<1>5. Mails(inbox'[x]) = Mail(x)'
  BY DEF Mail, Mails
<1>6. \A m \in Mail(x) : m.call \in Call
  <2>1. \A i \in DOMAIN inbox[x] : inbox[x][i] \in Signal
    BY <1>3
  <2> QED
    BY <2>1 DEF Mail, Signal
<1>7. ASSUME NEW m \in Mail(x)
      PROVE  (m.type # "ice" => Placed(m.call)') /\ (m.type = "offer" => Callee(m.call)' = x)
  <2>1. (m.type # "ice" => Placed(m.call)) /\ (m.type = "offer" => Callee(m.call) = x)
    BY <1>1 DEF MailAt
  <2> QED
    BY <1>6, <2>1, StepPlaced DEF Callee
<1>8. CASE inbox' = box
  BY <1>4, <1>5, <1>7, <1>8 DEF MailAt, Callee
<1>9. ASSUME NEW m \in Signal, inbox' = Sent(box, u, m.type, m.call, m.n),
             Sendable(u, box, m.type, m.call)
      PROVE  MailAt(x)'
  <2> DEFINE s == [type |-> m.type, call |-> m.call, n |-> m.n]
  <2>1. s = m /\ m.call \in Call
    BY DEF Signal
  <2>2. \A y \in User :
          inbox'[y] = IF y = Talks[u] THEN Append(box[y], s) ELSE box[y]
    BY <1>9, <2>1, SentBox
  <2> HIDE DEF s
  <2>3. Mail(x)' \subseteq Mail(x) \cup (IF x = Talks[u] THEN {m} ELSE {})
    BY <1>3, <1>4, <1>5, <2>1, <2>2, AppendMails
  <2>4. (m.type # "ice" => Placed(m.call)') /\ (m.type = "offer" => Callee(m.call)' = Talks[u])
    BY <1>9, <2>1, StepPlaced DEF Sendable, Callee
  <2>5. ASSUME NEW k \in Mail(x)'
        PROVE  (k.type # "ice" => Placed(k.call)') /\ (k.type = "offer" => Callee(k.call)' = x)
    BY <1>7, <2>3, <2>4
  <2> QED
    BY <2>5 DEF MailAt
<1> QED
  BY <1>2, <1>8, <1>9

\* What a step of u leaves alone stays true of the others.
LEMMA OthersStay ==
  ASSUME Typed, CallInv, NEW u \in User, Step(u), NEW x \in User, x # u
  PROVE  CallsAt(x)' /\ ShownAt(x)' /\ AnswersAt(x)' /\ (x \notin resumed => MediaAt(x)')
<1>1. /\ hook'[x] = hook[x] /\ conns'[x] = conns[x]
      /\ tracks'[x] = tracks[x] /\ jobs'[x] = jobs[x]
  BY StepPlaced DEF OnlyAt
<1>2. CallsAt(x) /\ ShownAt(x) /\ AnswersAt(x) /\ (x \notin resumed => MediaAt(x))
  BY DEF CallInv
<1>3. CallsAt(x)'
  <2>1. \A c \in {hook[x].callId, hook[x].incoming, hook[x].peer} \ {NoCall} : Placed(c)'
    BY <1>2, HookType, StepPlaced DEF CallsAt, MaybeCall
  <2>2. \A j \in jobs[x] : Placed(j.call)'
    BY <1>2, JobType, StepPlaced DEF CallsAt
  <2> QED
    BY <1>1, <1>2, <2>1, <2>2 DEF CallsAt, Callee
<1>4. ShownAt(x)'
  BY <1>1, <1>2 DEF ShownAt
<1>5. AnswersAt(x)'
  BY <1>1, <1>2, StepPlaced DEF AnswersAt
<1>6. MediaAt(x) => MediaAt(x)'
  BY <1>1 DEF MediaAt
<1> QED
  BY <1>2, <1>3, <1>4, <1>5, <1>6

\* The calls of the user who takes a step.
LEMMA CallsInv ==
  ASSUME Typed, CallInv, NEW u \in User, Step(u)
  PROVE  CallsAt(u)'
<1> USE CallConstants
<1>0. CallsAt(u) /\ MailAt(u)
  BY DEF CallInv
<1> DEFINE CallOk(pl, c) == c # NoCall => c \in Call /\ c.n <= pl[c.by]
           OfferOk(c) == c # NoCall => Callee(c) = u
           JobOk(pl, j) == /\ j.call \in Call /\ j.call.n <= pl[j.call.by]
                           /\ (j.does # "apply" => j.about = j.call)
                           /\ j.does \in {"dial", "offer"} => j.call.by = u
                           /\ j.does \in {"accept", "answer"} => Callee(j.call) = u
<1>1. /\ CallOk(placed, hook[u].callId) /\ CallOk(placed, hook[u].incoming)
      /\ CallOk(placed, hook[u].peer) /\ OfferOk(hook[u].incoming)
      /\ \A j \in jobs[u] : JobOk(placed, j)
  BY <1>0, HookType, JobType DEF CallsAt, MaybeCall, Placed
<1>2. \A c : CallOk(placed, c) => CallOk(placed', c)
  BY StepPlaced DEF Placed
<1>3. \A j : JobOk(placed, j) => JobOk(placed', j)
  BY StepPlaced DEF Placed
<1> HIDE DEF CallOk, OfferOk, JobOk
<1> SUFFICES /\ CallOk(placed', hook'[u].callId) /\ CallOk(placed', hook'[u].incoming)
             /\ CallOk(placed', hook'[u].peer)
             /\ OfferOk(hook'[u].incoming) /\ \A j \in jobs'[u] : JobOk(placed', j)
  BY DEF CallsAt, CallOk, OfferOk, JobOk, Callee, Placed
<1>5. hook[u] \in Hook
  BY HookType
<1>6. CASE SameCalls(u) /\ \A j \in jobs'[u] : JobOk(placed', j)
  BY <1>1, <1>2, <1>6 DEF SameCalls
<1>7. CASE Calm(u) \/ ToggleMute(u)
  <2>1. SameCalls(u) /\ jobs'[u] \subseteq jobs[u]
    BY <1>7, ToggleMuteDoes DEF Calm
  <2> QED
    BY <1>1, <1>3, <1>6, <2>1
<1>8. CASE Leaves(u)
  <2>1. /\ hook'[u].callId = NoCall /\ hook'[u].incoming = NoCall /\ hook'[u].peer = NoCall
        /\ jobs'[u] \subseteq jobs[u]
    BY <1>8 DEF Leaves
  <2>2. CallOk(placed', NoCall) /\ OfferOk(NoCall)
    BY DEF CallOk, OfferOk
  <2> QED
    BY <1>1, <1>3, <2>1, <2>2
<1>9. CASE StartCall(u)
  <2>1. PICK c \in Call :
          /\ c.by = u /\ c.n = placed[u] + 1 /\ placed'[u] = placed[u] + 1
          /\ hook'[u].callId = c /\ SameElse(u)
          /\ jobs'[u] = jobs[u] \cup {ToDo("dial", c)}
    BY <1>9, StartCallDoes
  <2>2. /\ hook'[u].callId = c /\ hook'[u].incoming = hook[u].incoming
        /\ hook'[u].peer = hook[u].peer
    BY <2>1 DEF SameElse
  <2>3. placed[u] \in Nat /\ Placed(c)'
    BY <2>1, CallType DEF Typed, Placed
  <2>4. CallOk(placed', c)
    BY <2>3 DEF CallOk, Placed
  <2>5. JobOk(placed', ToDo("dial", c))
    BY <2>1, <2>3 DEF JobOk, ToDo, Placed
  <2> QED
    BY <1>1, <1>2, <1>3, <2>1, <2>2, <2>4, <2>5
<1>10. CASE AcceptCall(u)
  <2> DEFINE c == hook[u].incoming
  <2>1. /\ c \in Call
        /\ hook'[u].callId = c /\ SameElse(u)
        /\ jobs'[u] = jobs[u] \cup {ToDo("accept", c)}
    BY <1>10, AcceptCallDoes
  <2>2. hook'[u].callId = c /\ hook'[u].incoming = c /\ hook'[u].peer = hook[u].peer
    BY <2>1 DEF SameElse
  <2>3. c # NoCall
    BY <2>1, NoCallIsNoCall
  <2>4. JobOk(placed, ToDo("accept", c))
    BY <1>1, <2>1, <2>3 DEF JobOk, CallOk, OfferOk, ToDo
  <2>5. CallOk(placed', c) /\ OfferOk(c)
    BY <1>1, <1>2
  <2>6. CallOk(placed', hook[u].peer) /\ JobOk(placed', ToDo("accept", c))
    BY <1>1, <1>2, <1>3, <2>4
  <2> HIDE DEF c
  <2> QED
    BY <1>1, <1>3, <2>1, <2>2, <2>5, <2>6
<1>11. CASE \E j \in jobs[u] : Granted(u, j)
  <2>0. PICK j \in jobs[u] : Granted(u, j)
    BY <1>11
  <2> DEFINE c == j.call
             more == ToDo(IF j.does = "dial" THEN "offer" ELSE "answer", c)
  <2>1. c \in Call /\ j.does \in {"dial", "accept"}
    BY <2>0, GrantedDoes
  <2>2. /\ hook'[u].callId = hook[u].callId /\ hook'[u].peer = c
        /\ hook'[u].incoming \in {hook[u].incoming, NoCall}
    BY <2>0, GrantedDoes
  <2>8. jobs'[u] = (jobs[u] \ {j}) \cup {more}
    BY <2>0, GrantedDoes
  <2>3. JobOk(placed, more) /\ CallOk(placed, c)
    <3>1. JobOk(placed, j)
      BY <1>1
    <3> QED
      BY <2>1, <3>1 DEF JobOk, CallOk, ToDo
  <2>4. CallOk(placed', NoCall) /\ OfferOk(NoCall)
    BY DEF CallOk, OfferOk
  <2> HIDE DEF c, more
  <2>5. /\ CallOk(placed', hook'[u].callId)
        /\ CallOk(placed', hook'[u].peer) /\ CallOk(placed', hook'[u].incoming)
    BY <1>1, <1>2, <2>2, <2>3, <2>4
  <2>6. OfferOk(hook'[u].incoming)
    BY <1>1, <2>2, <2>4
  <2>7. \A k \in jobs'[u] : JobOk(placed', k)
    BY <1>1, <1>3, <2>3, <2>8
  <2> QED
    BY <2>5, <2>6, <2>7
<1>12. CASE HandleOffer(u)
  <2> DEFINE c == Head(inbox[u]).call
             busy == hook[u].peer # NoCall \/ hook[u].incoming # NoCall
  <2>1. /\ c \in Call /\ Arrives(u, "offer")
        /\ hook'[u].incoming = IF busy THEN hook[u].incoming ELSE c
    BY <1>12, HandleOfferDoes
  <2>2. /\ hook'[u].incoming \in {hook[u].incoming, c}
        /\ hook'[u].callId = hook[u].callId /\ hook'[u].peer = hook[u].peer /\ jobs' = jobs
    BY <1>12, <2>1, HandleOfferKeeps
  <2>3. /\ inbox[u] # <<>> /\ inbox[u] \in Seq(Signal) /\ Head(inbox[u]).type = "offer"
    BY <2>1, TakenBox
  <2>4. Head(inbox[u]) \in Mail(u)
    BY <2>3, TailMails DEF Mail, Mails
  <2>5. CallOk(placed, c) /\ OfferOk(c)
    BY <1>0, <2>1, <2>3, <2>4 DEF MailAt, CallOk, OfferOk, Placed
  <2> HIDE DEF c
  <2> QED
    BY <1>1, <1>2, <1>3, <2>1, <2>2, <2>5
<1>13. CASE HandleAnswer(u)
  <2> DEFINE job == [does |-> "apply", call |-> hook[u].peer, about |-> hook[u].callId]
  <2>1. /\ hook' = hook
        /\ \/ jobs'[u] = jobs[u]
           \/ hook[u].peer \in Call /\ jobs'[u] = jobs[u] \cup {job}
    BY <1>13, HandleAnswerDoes
  <2>2. hook[u].peer \in Call => JobOk(placed, job)
    BY <1>1, NoCallIsNoCall DEF JobOk, CallOk
  <2> HIDE DEF job
  <2>3. \A j \in jobs'[u] : JobOk(placed', j)
    BY <1>1, <1>3, <2>1, <2>2
  <2> QED
    BY <1>6, <2>1, <2>3 DEF SameCalls
<1>14. CASE \E j \in jobs[u] : SendAnswer(u, j) \/ ApplyAnswer(u, j)
  <2>0. PICK j \in jobs[u] : SendAnswer(u, j) \/ ApplyAnswer(u, j)
    BY <1>14
  <2>1. /\ SameCalls(u) /\ j.call \in Call
        /\ jobs'[u] = (jobs[u] \ {j}) \cup
             (IF j.does = "answer" THEN {} ELSE {ToDo("drain", j.call)})
    BY <2>0, DescribedDoes
  <2>2. JobOk(placed, ToDo("drain", j.call))
    <3>1. JobOk(placed, j)
      BY <1>1
    <3> QED
      BY <3>1 DEF JobOk, ToDo
  <2>3. \A k \in jobs'[u] : JobOk(placed', k)
    BY <1>1, <1>3, <2>1, <2>2
  <2>4. /\ CallOk(placed', hook'[u].callId) /\ CallOk(placed', hook'[u].incoming)
        /\ CallOk(placed', hook'[u].peer)
        /\ OfferOk(hook'[u].incoming)
    BY <1>1, <1>2, <2>1 DEF SameCalls
  <2> QED
    BY <2>3, <2>4
<1> QED
  BY <1>7, <1>8, <1>9, <1>10, <1>11, <1>12, <1>13, <1>14, StepKinds

\* A call shown has a status that shows it, and a stream comes with its connection.
LEMMA ShownInv ==
  ASSUME Typed, CallInv, NEW u \in User, Step(u)
  PROVE  ShownAt(u)'
<1>0. ShownAt(u) /\ hook[u] \in Hook
  BY HookType DEF CallInv
<1>1. CASE \/ SameCalls(u) /\ hook'[u].status \in {hook[u].status, "connecting", "active"}
           \/ Leaves(u)
  BY <1>0, <1>1 DEF ShownAt, SameCalls, Leaves
<1>2. CASE Calm(u) \/ ToggleMute(u) \/ HandleAnswer(u)
  BY <1>1, <1>2, ToggleMuteDoes, HandleAnswerDoes DEF Calm, SameCalls
<1>3. CASE \E j \in jobs[u] : SendAnswer(u, j) \/ ApplyAnswer(u, j)
  BY <1>1, <1>3, DescribedDoes
<1>4. CASE \E j \in jobs[u] : Granted(u, j)
  <2>1. PICK j \in jobs[u] : Granted(u, j)
    BY <1>4
  <2>2. /\ hook'[u].callId = hook[u].callId /\ hook'[u].status = hook[u].status
        /\ hook'[u].peer = j.call /\ hook'[u].stream = j.call
    BY <2>1, GrantedDoes
  <2> QED
    BY <1>0, <2>2 DEF ShownAt
<1>5. CASE StartCall(u) \/ AcceptCall(u)
  <2>1. hook'[u].status \in {"dialing", "connecting"} /\ SameElse(u)
    BY <1>5, StartCallDoes, AcceptCallDoes
  <2> QED
    BY <1>0, <2>1 DEF ShownAt, SameElse
<1>7. CASE HandleOffer(u)
  <2>1. /\ hook'[u].callId = hook[u].callId /\ hook'[u].peer = hook[u].peer
        /\ hook'[u].stream = hook[u].stream
        /\ hook'[u].status \in {hook[u].status, "ringing"}
    BY <1>7, HandleOfferKeeps
  <2> QED
    BY <1>0, <2>1 DEF ShownAt
<1> QED
  BY <1>1, <1>2, <1>3, <1>4, <1>5, <1>7, StepKinds

\* A stream granted in time is the only one, and it was not asked for twice.
LEMMA GrantedInTime ==
  ASSUME Typed, CallInv, NEW u \in User, MediaAt(u), NEW j \in jobs[u], Granted(u, j),
         ~Resuming(u)
  PROVE  MediaAt(u)'
<1> DEFINE c == j.call
           more == ToDo(IF j.does = "dial" THEN "offer" ELSE "answer", c)
<1>1. c \in Call /\ j.does \in {"dial", "accept"} /\ j \in Job
  BY GrantedDoes, JobType
<1>2. /\ hook'[u].callId = hook[u].callId /\ hook'[u].peer = c /\ hook'[u].stream = c
      /\ hook'[u].muted = hook[u].muted
  BY GrantedDoes
<1>3. tracks'[u][c] = "on" /\ \A d \in Call : d # c => tracks'[u][d] = tracks[u][d]
  BY GrantedDoes
<1>4. jobs'[u] = (jobs[u] \ {j}) \cup {more}
  BY GrantedDoes
<1>5. more.does \in {"offer", "answer"}
  BY DEF ToDo
<1> HIDE DEF more
<1>6. j \notin jobs'[u]
  BY <1>1, <1>4, <1>5
<1>7. hook[u].callId = c
  BY <1>6 DEF Resuming
<1>8. hook[u].peer = NoCall /\ hook[u].stream = NoCall /\ ~hook[u].muted
  BY <1>1, <1>7 DEF MediaAt, CallInv, ShownAt
<1>9. \A d \in Call : tracks[u][d] = "off"
  BY <1>8, NoCallIsNoCall DEF MediaAt
<1>10. ASSUME NEW k \in jobs'[u], k.does \in {"dial", "accept"}, k.call = c
       PROVE  FALSE
  <2>1. k \in jobs[u] /\ k # j /\ k \in Job
    BY <1>4, <1>5, <1>10, JobType
  <2>2. /\ k.about = c /\ j.about = c
        /\ \A i \in {j, k} : /\ i.does = "dial" => c.by = u
                             /\ i.does = "accept" => Talks[c.by] = u
    BY <1>1, <1>10, <2>1 DEF CallInv, CallsAt, Callee
  <2>3. k.does # j.does
    BY <1>1, <1>10, <2>1, <2>2 DEF Job
  <2>4. c.by = u /\ Talks[c.by] = u
    BY <1>1, <1>10, <2>2, <2>3
  <2> QED
    BY <2>4, CallConstants
<1> HIDE DEF c
<1>11. hook'[u].peer \in {hook'[u].callId, NoCall}
  BY <1>2, <1>7
<1>12. \A d \in Call : tracks'[u][d] # "off" =>
         hook'[u].stream = d /\ (hook'[u].muted <=> tracks'[u][d] = "silent")
  BY <1>2, <1>3, <1>8, <1>9
<1>13. hook'[u].stream # NoCall
  BY <1>1, <1>2, NoCallIsNoCall DEF c
<1> QED
  BY <1>2, <1>7, <1>10, <1>11, <1>12, <1>13 DEF MediaAt

\* The stream is that of the call shown until one is granted too late.
LEMMA MediaInv ==
  ASSUME Typed, CallInv, NEW u \in User, MediaAt(u), Step(u), ~Resuming(u)
  PROVE  MediaAt(u)'
<1>0. hook[u] \in Hook /\ hook[u].stream = hook[u].peer
  BY HookType DEF CallInv, ShownAt
<1>1. CASE /\ hook'[u].peer = hook[u].peer /\ hook'[u].stream = hook[u].stream
           /\ hook'[u].muted = hook[u].muted /\ tracks'[u] = tracks[u]
           /\ hook'[u].callId = hook[u].callId \/ hook'[u].peer = NoCall
           /\ \A j \in jobs'[u] :
                j.does \in {"dial", "accept"} => j \in jobs[u] \/ hook'[u].peer = NoCall
  BY <1>0, <1>1 DEF MediaAt
<1>2. CASE Calm(u)
  BY <1>1, <1>2 DEF Calm, SameCalls
<1>3. CASE Leaves(u)
  BY <1>0, <1>3 DEF MediaAt, Leaves
<1>4. CASE StartCall(u) \/ AcceptCall(u)
  <2>1. hook[u].peer = NoCall /\ tracks' = tracks /\ SameElse(u)
    BY <1>4, StartCallDoes, AcceptCallDoes
  <2> QED
    BY <1>0, <1>1, <2>1 DEF SameElse
<1>6. CASE ToggleMute(u)
  BY <1>6, ToggleMuteDoes, NoCallIsNoCall DEF MediaAt, SameCalls
<1>7. CASE HandleOffer(u)
  <2>1. /\ hook'[u].callId = hook[u].callId /\ hook'[u].peer = hook[u].peer
        /\ hook'[u].stream = hook[u].stream /\ hook'[u].muted = hook[u].muted
        /\ tracks' = tracks /\ jobs' = jobs
    BY <1>7, HandleOfferKeeps
  <2> QED
    BY <1>1, <2>1
<1>8. CASE HandleAnswer(u)
  <2>1. /\ hook' = hook /\ tracks' = tracks
        /\ \A j \in jobs'[u] : j \in jobs[u] \/ j.does = "apply"
    BY <1>8, HandleAnswerDoes
  <2> QED
    BY <1>1, <2>1
<1>9. CASE \E j \in jobs[u] : SendAnswer(u, j) \/ ApplyAnswer(u, j)
  <2>1. PICK j \in jobs[u] : SendAnswer(u, j) \/ ApplyAnswer(u, j)
    BY <1>9
  <2>2. /\ SameCalls(u) /\ hook'[u].muted = hook[u].muted /\ tracks' = tracks
        /\ jobs'[u] = (jobs[u] \ {j}) \cup
             (IF j.does = "answer" THEN {} ELSE {ToDo("drain", j.call)})
    BY <2>1, DescribedDoes
  <2>3. \A k \in jobs'[u] : k \in jobs[u] \/ k.does = "drain"
    BY <2>2 DEF ToDo
  <2> QED
    BY <1>1, <2>2, <2>3 DEF SameCalls
<1>10. CASE \E j \in jobs[u] : Granted(u, j)
  BY <1>10, GrantedInTime
<1> QED
  BY <1>2, <1>3, <1>4, <1>6, <1>7, <1>8, <1>9, <1>10, StepKinds

\* Answers go where they belong, and none is applied to the call its user is in
\* but its own.
LEMMA AnswersInv ==
  ASSUME Typed, CallInv, NEW u \in User, Step(u)
  PROVE  AnswersAt(u)'
<1> DEFINE Good(r, id) ==
             \A c \in Call : r[c] \notin {c, NoCall} => c.by = u /\ id # c
           JobsGood(todo, id) ==
             \A j \in todo :
               j.does = "apply" /\ j.call.by = u /\ j.about # j.call => id # j.call
           r0 == [c \in Call |-> conns[u][c].remote]
           r1 == [c \in Call |-> conns'[u][c].remote]
<1>1. CallsAt(u) /\ AnswersAt(u)
  BY DEF CallInv
<1>2. /\ \A c \in Call : r0[c] # NoCall => Placed(c)
      /\ Good(r0, hook[u].callId) /\ JobsGood(jobs[u], hook[u].callId)
      /\ \A j \in jobs[u] : j.call \in Call /\ Placed(j.call)
  BY <1>1, JobType DEF AnswersAt, CallsAt
<1>3. /\ \A c \in Call : r0[c] = conns[u][c].remote /\ r1[c] = conns'[u][c].remote
      /\ \A c \in Call : c # NoCall
  BY NoCallIsNoCall
<1> HIDE DEF r0, r1
<1>4. \A c \in Call : Placed(c) => Placed(c)'
  BY StepPlaced
<1> SUFFICES /\ \A c \in Call : r1[c] # NoCall => Placed(c) \/ Placed(c)'
             /\ Good(r1, hook'[u].callId) /\ JobsGood(jobs'[u], hook'[u].callId)
  BY <1>3, <1>4 DEF AnswersAt
<1>5. CASE /\ hook'[u].callId = hook[u].callId /\ SameAnswers(u)
           /\ \A j \in jobs'[u] : j \in jobs[u] \/ j.does # "apply"
  <2>1. \A c \in Call : r1[c] = r0[c]
    BY <1>3, <1>5 DEF SameAnswers
  <2> QED
    BY <1>2, <1>5, <2>1
<1>6. CASE Calm(u) \/ ToggleMute(u) \/ HandleOffer(u)
  <2>1. /\ hook'[u].callId = hook[u].callId /\ SameAnswers(u) /\ jobs'[u] \subseteq jobs[u]
    BY <1>6, ToggleMuteDoes, HandleOfferKeeps DEF Calm, SameCalls, SameAnswers
  <2> QED
    BY <1>5, <2>1
<1>7. CASE Leaves(u)
  <2>1. /\ hook'[u].callId = NoCall /\ jobs'[u] \subseteq jobs[u]
        /\ \A c \in Call : r1[c] \in {r0[c], NoCall}
    BY <1>3, <1>7 DEF Leaves
  <2> QED
    BY <1>2, <1>3, <2>1
<1>8. CASE StartCall(u)
  <2>1. PICK c \in Call :
          /\ c.by = u /\ c.n = placed[u] + 1 /\ hook'[u].callId = c
          /\ jobs'[u] = jobs[u] \cup {ToDo("dial", c)} /\ conns' = conns
    BY <1>8, StartCallDoes
  <2>2. ~Placed(c)
    BY <2>1 DEF Placed, Typed
  <2>3. \A d \in Call : r1[d] = r0[d] /\ (r0[d] # NoCall => d # c)
    BY <1>2, <1>3, <2>1, <2>2
  <2>4. \A j \in jobs'[u] : j \in jobs[u] \/ j.does # "apply"
    BY <2>1 DEF ToDo
  <2> QED
    BY <1>2, <2>1, <2>2, <2>3, <2>4
<1>9. CASE AcceptCall(u)
  <2> DEFINE c == hook[u].incoming
  <2>1. /\ c \in Call /\ hook'[u].callId = c
        /\ jobs'[u] = jobs[u] \cup {ToDo("accept", c)} /\ conns' = conns
    BY <1>9, AcceptCallDoes
  <2>2. Callee(c) = u
    BY <1>1, <1>3, <2>1 DEF CallsAt
  <2>3. c.by # u
    BY <2>2, CallConstants DEF Callee
  <2>4. \A j \in jobs'[u] : j \in jobs[u] \/ j.does # "apply"
    BY <2>1 DEF ToDo
  <2> HIDE DEF c
  <2>5. \A d \in Call : r1[d] = r0[d]
    BY <1>3, <2>1
  <2> QED
    BY <1>2, <2>1, <2>3, <2>4, <2>5
<1>10. CASE \E j \in jobs[u] : Granted(u, j)
  <2>1. PICK j \in jobs[u] : Granted(u, j)
    BY <1>10
  <2>2. /\ hook'[u].callId = hook[u].callId /\ SameAnswers(u)
        /\ jobs'[u] = (jobs[u] \ {j}) \cup
             {ToDo(IF j.does = "dial" THEN "offer" ELSE "answer", j.call)}
    BY <2>1, GrantedDoes
  <2>3. \A k \in jobs'[u] : k \in jobs[u] \/ k.does # "apply"
    BY <2>2 DEF ToDo
  <2> QED
    BY <1>5, <2>2, <2>3
<1>11. CASE HandleAnswer(u)
  <2> DEFINE job == [does |-> "apply", call |-> hook[u].peer, about |-> hook[u].callId]
  <2>1. /\ hook' = hook /\ conns' = conns
        /\ jobs'[u] = jobs[u] \/ jobs'[u] = jobs[u] \cup {job}
    BY <1>11, HandleAnswerDoes
  <2>2. job.call = hook[u].peer /\ job.about = hook[u].callId
    OBVIOUS
  <2> HIDE DEF job
  <2>3. \A c \in Call : r1[c] = r0[c]
    BY <1>3, <2>1
  <2> QED
    BY <1>2, <2>1, <2>2, <2>3
<1>12. CASE \E j \in jobs[u] : SendAnswer(u, j) \/ ApplyAnswer(u, j)
  <2>1. PICK j \in jobs[u] : SendAnswer(u, j) \/ ApplyAnswer(u, j)
    BY <1>12
  <2> DEFINE c == j.call
  <2>2. /\ c \in Call /\ hook'[u].callId = hook[u].callId
        /\ j.does = "answer" \/ (j.does = "apply" /\ c.by = u)
        /\ conns'[u][c].remote = IF j.does = "answer" THEN c ELSE j.about
        /\ \A d \in Call : d # c => conns'[u][d] = conns[u][d]
        /\ jobs'[u] = (jobs[u] \ {j}) \cup
             (IF j.does = "answer" THEN {} ELSE {ToDo("drain", c)})
    BY <2>1, DescribedDoes DEF SameCalls
  <2>3. \A k \in jobs'[u] : k \in jobs[u] \/ k.does # "apply"
    BY <2>2 DEF ToDo
  <2>4. Placed(c) /\ (j.does = "apply" /\ j.about # c => hook[u].callId # c)
    BY <1>2, <2>2
  <2> HIDE DEF c
  <2>5. /\ r1[c] = IF j.does = "answer" THEN c ELSE j.about
        /\ \A d \in Call : d # c => r1[d] = r0[d]
    BY <1>3, <2>2
  <2>6. \A d \in Call : r1[d] # NoCall => Placed(d)
    BY <1>2, <2>4, <2>5
  <2>7. Good(r1, hook[u].callId)
    BY <1>2, <2>2, <2>4, <2>5
  <2> QED
    BY <1>2, <2>2, <2>3, <2>6, <2>7
<1> QED
  BY <1>6, <1>7, <1>8, <1>9, <1>10, <1>11, <1>12, StepKinds

\* The invariant holds at first,
LEMMA InitInv == Init => CallInv
<1> SUFFICES ASSUME Init, NEW u \in User
             PROVE  CallsAt(u) /\ MailAt(u) /\ ShownAt(u) /\ AnswersAt(u) /\ MediaAt(u)
  BY DEF CallInv
<1>1. /\ hook[u] = Cleared("idle") /\ jobs[u] = {} /\ inbox[u] = <<>>
      /\ \A c \in Call : tracks[u][c] = "off" /\ conns[u][c].remote = NoCall
  BY DEF Init, NoConnection
<1>2. Mail(u) = {}
  BY <1>1 DEF Mail
<1> QED
  BY <1>1, <1>2 DEF CallsAt, MailAt, ShownAt, AnswersAt, MediaAt, Cleared

\* and after every step.
LEMMA NextInv == TypeOK /\ CallInv /\ [Next]_vars => CallInv'
<1> SUFFICES ASSUME TypeOK, CallInv, [Next]_vars PROVE CallInv'
  OBVIOUS
<1>1. CASE UNCHANGED vars
  BY <1>1 DEF vars, CallInv, CallsAt, MailAt, Mail, ShownAt, AnswersAt, MediaAt, Callee, Placed
<1>2. CASE Next
  <2>1. PICK u \in User : Step(u)
    BY <1>2 DEF Next, Step
  <2>2. Typed
    BY DEF TypeOK
  <2>3. \A x \in User : x \notin resumed' => x \notin resumed /\ ~Resuming(x)
    BY <1>2 DEF Next
  <2>4. ASSUME NEW x \in User
        PROVE  /\ CallsAt(x)' /\ MailAt(x)' /\ ShownAt(x)' /\ AnswersAt(x)'
               /\ x \notin resumed' => MediaAt(x)'
    <3>1. MailAt(x)'
      BY <2>1, <2>2, MailInv
    <3>2. CASE x # u
      BY <2>1, <2>2, <2>3, <3>1, <3>2, OthersStay
    <3>3. CASE x = u
      <4>1. CallsAt(u)' /\ ShownAt(u)' /\ AnswersAt(u)'
        BY <2>1, <2>2, CallsInv, ShownInv, AnswersInv
      <4>2. u \notin resumed' => MediaAt(u)'
        BY <2>1, <2>2, <2>3, MediaInv DEF CallInv
      <4> QED
        BY <3>1, <3>3, <4>1, <4>2
    <3> QED
      BY <3>2, <3>3
  <2> QED
    BY <2>4 DEF CallInv
<1> QED
  BY <1>1, <1>2

\* So it always holds.
LEMMA CallsStay == Spec => [](TypeOK /\ CallInv)
<1>1. Init => TypeOK /\ CallInv
  BY InitType, InitInv
<1>2. (TypeOK /\ CallInv) /\ [Next]_vars => (TypeOK /\ CallInv)'
  BY NextType, NextInv
<1> QED
  BY <1>1, <1>2, PTL DEF Spec

\* However calls cross the request for media, the connection of the call a user is
\* in is never given the answer of another call.
THEOREM DescriptionsMatch == Spec => []SameCall
<1>1. TypeOK /\ CallInv => SameCall
  <2> SUFFICES ASSUME TypeOK, CallInv, NEW u \in User, hook[u].callId # NoCall
               PROVE  conns[u][hook[u].callId].remote \in {hook[u].callId, NoCall}
    BY DEF SameCall
  <2>1. hook[u].callId \in Call
    BY HookType DEF TypeOK, MaybeCall
  <2> QED
    BY <2>1 DEF CallInv, AnswersAt
<1> QED
  BY <1>1, CallsStay, PTL

\* Whatever comes while the browser asks for camera and microphone, they run only in
\* the call shown, and silent exactly when it shows them muted, until a stream is
\* granted for a call its user has left.
THEOREM MediaStops == Spec => []MediaReleased
<1>1. TypeOK /\ CallInv => MediaReleased
  <2> SUFFICES ASSUME TypeOK, CallInv, NEW u \in User \ resumed, NEW c \in Call,
                      tracks[u][c] # "off"
               PROVE  /\ hook[u].stream = c
                      /\ hook[u].status \notin {"idle", "ended", "error"}
                      /\ hook[u].muted <=> tracks[u][c] = "silent"
    BY DEF MediaReleased
  <2>1. MediaAt(u) /\ ShownAt(u)
    BY DEF CallInv
  <2>2. hook[u].stream = c /\ (hook[u].muted <=> tracks[u][c] = "silent")
    BY <2>1 DEF MediaAt
  <2>3. hook[u].callId = c /\ c # NoCall
    BY <2>1, <2>2, NoCallIsNoCall DEF MediaAt, ShownAt
  <2> QED
    BY <2>1, <2>2, <2>3 DEF ShownAt
<1> QED
  BY <1>1, CallsStay, PTL

-----------------------------------------------------------------------------
(* A call is offered once, and who is out of it stays out                  *)

\* A signal that is at most once in a mailbox.
Single(box, m) == \A i, k \in DOMAIN box : box[i] = m /\ box[k] = m => i = k

\* A signal that was not there is there once.
LEMMA SingleAppend ==
  ASSUME NEW box \in Seq(Signal), NEW s \in Signal, NEW m, Single(box, m),
         s = m => m \notin Mails(box)
  PROVE  Single(Append(box, s), m)
<1> DEFINE n == Len(box)
           more == Append(box, s)
<1>1. /\ n \in Nat /\ DOMAIN box = 1..n /\ DOMAIN more = 1..(n + 1)
      /\ \A i \in 1..n : more[i] = box[i]
      /\ more[n + 1] = s
  OBVIOUS
<1> HIDE DEF n, more
<1>2. 1..(n + 1) = (1..n) \cup {n + 1}
  BY <1>1
<1>3. \A i \in 1..n : more[i] = m => m \in Mails(box)
  BY <1>1 DEF Mails
<1>4. \A i, k \in 1..(n + 1) : more[i] = m /\ more[k] = m => i = k
  BY <1>1, <1>2, <1>3 DEF Single
<1> QED
  BY <1>1, <1>4 DEF Single, more

\* One that is taken is there no more.
LEMMA SingleTail ==
  ASSUME NEW box \in Seq(Signal), box # <<>>, NEW m, Single(box, m)
  PROVE  Single(Tail(box), m) /\ (Head(box) = m => m \notin Mails(Tail(box)))
<1> DEFINE n == Len(box)
           rest == Tail(box)
<1>1. /\ n \in Nat /\ n >= 1 /\ DOMAIN box = 1..n /\ DOMAIN rest = 1..(n - 1)
      /\ \A i \in 1..(n - 1) : rest[i] = box[i + 1]
      /\ Head(box) = box[1]
  OBVIOUS
<1> HIDE DEF n, rest
<1>2. Single(rest, m)
  <2> SUFFICES ASSUME NEW i \in 1..(n - 1), NEW k \in 1..(n - 1), rest[i] = m, rest[k] = m
               PROVE  i = k
    BY <1>1 DEF Single
  <2>1. i + 1 \in 1..n /\ k + 1 \in 1..n
    BY <1>1
  <2>2. i + 1 = k + 1
    BY <1>1, <2>1 DEF Single
  <2> QED
    BY <1>1, <2>2
<1>3. ASSUME Head(box) = m, NEW i \in 1..(n - 1), rest[i] = m PROVE FALSE
  <2>1. i + 1 \in 1..n /\ 1 \in 1..n /\ i + 1 # 1
    BY <1>1
  <2> QED
    BY <1>1, <1>3, <2>1 DEF Single
<1> QED
  BY <1>1, <1>2, <1>3 DEF Mails, rest

\* Where a handler that waits comes from.
LEMMA JobsFrom ==
  ASSUME Typed, CallInv, NEW u \in User, Step(u), NEW j \in jobs'[u], j \notin jobs[u]
  PROVE  \/ j.does \in {"answer", "apply", "drain"}
         \/ j.does = "dial" /\ ~Placed(j.call)
         \/ j.does = "accept" /\ j.call = hook[u].incoming /\ j.call # NoCall
         \/ j.does = "offer" /\ ToDo("dial", j.call) \in jobs[u] \ jobs'[u]
<1>1. CASE Calm(u) \/ Leaves(u) \/ ToggleMute(u) \/ HandleOffer(u)
  <2>1. jobs'[u] \subseteq jobs[u]
    BY <1>1, ToggleMuteDoes, HandleOfferKeeps DEF Calm, Leaves
  <2> QED
    BY <2>1
<1>2. CASE StartCall(u)
  <2>1. PICK c \in Call :
          /\ c.by = u /\ c.n = placed[u] + 1 /\ jobs'[u] = jobs[u] \cup {ToDo("dial", c)}
    BY <1>2, StartCallDoes
  <2>2. ~Placed(c)
    BY <2>1 DEF Placed, Typed
  <2> QED
    BY <2>1, <2>2 DEF ToDo
<1>3. CASE AcceptCall(u)
  <2>1. /\ hook[u].incoming \in Call
        /\ jobs'[u] = jobs[u] \cup {ToDo("accept", hook[u].incoming)}
    BY <1>3, AcceptCallDoes
  <2> QED
    BY <2>1, NoCallIsNoCall DEF ToDo
<1>4. CASE \E k \in jobs[u] : Granted(u, k)
  <2>1. PICK k \in jobs[u] : Granted(u, k)
    BY <1>4
  <2> DEFINE more == ToDo(IF k.does = "dial" THEN "offer" ELSE "answer", k.call)
  <2>2. k.does \in {"dial", "accept"} /\ jobs'[u] = (jobs[u] \ {k}) \cup {more}
    BY <2>1, GrantedDoes
  <2>3. /\ more.call = k.call
        /\ more.does = IF k.does = "dial" THEN "offer" ELSE "answer"
    BY DEF ToDo
  <2>4. k = ToDo(k.does, k.call)
    BY <2>2, JobIs DEF CallInv
  <2> HIDE DEF more
  <2>5. j = more /\ k \notin jobs'[u]
    BY <2>2, <2>3
  <2> QED
    BY <2>2, <2>3, <2>4, <2>5
<1>5. CASE HandleAnswer(u)
  BY <1>5, HandleAnswerDoes
<1>6. CASE \E k \in jobs[u] : SendAnswer(u, k) \/ ApplyAnswer(u, k)
  <2>1. PICK k \in jobs[u] : SendAnswer(u, k) \/ ApplyAnswer(u, k)
    BY <1>6
  <2>2. jobs'[u] = (jobs[u] \ {k}) \cup
          (IF k.does = "answer" THEN {} ELSE {ToDo("drain", k.call)})
    BY <2>1, DescribedDoes
  <2> QED
    BY <2>2 DEF ToDo
<1> QED
  BY <1>1, <1>2, <1>3, <1>4, <1>5, <1>6, StepKinds

\* Where a call a user is in comes from.
LEMMA LiveFrom ==
  ASSUME Typed, CallInv, NEW u \in User, Step(u), NEW c \in Call,
         c \in {hook'[u].callId, hook'[u].incoming}
  PROVE  \/ c \in {hook[u].callId, hook[u].incoming}
         \/ ~Placed(c) /\ c.by = u
         \/ /\ Head(inbox[u]) = OfferOf(c) /\ OfferOf(c) \in Mail(u) /\ Callee(c) = u
            /\ inbox[u] # <<>> /\ inbox' = Taken(u)
<1>0. c # NoCall
  BY NoCallIsNoCall
<1>1. CASE Calm(u) \/ Leaves(u) \/ ToggleMute(u) \/ HandleAnswer(u)
  <2>1. /\ hook'[u].callId \in {hook[u].callId, NoCall}
        /\ hook'[u].incoming \in {hook[u].incoming, NoCall}
    BY <1>1, ToggleMuteDoes, HandleAnswerDoes DEF Calm, SameCalls, Leaves
  <2> QED
    BY <1>0, <2>1
<1>2. CASE StartCall(u)
  <2>1. PICK d \in Call :
          d.by = u /\ d.n = placed[u] + 1 /\ hook'[u].callId = d /\ SameElse(u)
    BY <1>2, StartCallDoes
  <2>2. ~Placed(d)
    BY <2>1 DEF Placed, Typed
  <2> QED
    BY <2>1, <2>2 DEF SameElse
<1>3. CASE AcceptCall(u)
  BY <1>3, AcceptCallDoes DEF SameElse
<1>4. CASE \E j \in jobs[u] : Granted(u, j)
  <2>1. /\ hook'[u].callId = hook[u].callId
        /\ hook'[u].incoming \in {hook[u].incoming, NoCall}
    BY <1>4, GrantedDoes
  <2> QED
    BY <1>0, <2>1
<1>5. CASE \E j \in jobs[u] : SendAnswer(u, j) \/ ApplyAnswer(u, j)
  BY <1>5, DescribedDoes DEF SameCalls
<1>6. CASE HandleOffer(u)
  <2> DEFINE d == Head(inbox[u]).call
             busy == hook[u].peer # NoCall \/ hook[u].incoming # NoCall
  <2>1. /\ Arrives(u, "offer")
        /\ hook'[u].incoming = IF busy THEN hook[u].incoming ELSE d
        /\ inbox' = IF busy THEN Sent(Taken(u), u, "reject", d, 0) ELSE Taken(u)
    BY <1>6, HandleOfferDoes
  <2>2. hook'[u].callId = hook[u].callId
    BY <1>6, HandleOfferKeeps
  <2>3. /\ Head(inbox[u]) \in Signal /\ Head(inbox[u]).type = "offer"
        /\ inbox[u] \in Seq(Signal) /\ inbox[u] # <<>>
    BY <2>1, TakenBox
  <2>4. Head(inbox[u]) = OfferOf(d) /\ Head(inbox[u]) \in Mail(u)
    BY <2>3, TailMails DEF Signal, OfferOf, Mail, Mails
  <2>5. Callee(d) = u
    BY <2>3, <2>4 DEF CallInv, MailAt
  <2> HIDE DEF d, busy
  <2>6. CASE c \in {hook[u].callId, hook[u].incoming}
    BY <2>6
  <2>7. CASE c \notin {hook[u].callId, hook[u].incoming}
    <3>1. ~busy /\ c = d
      BY <2>1, <2>2, <2>7
    <3> QED
      BY <2>1, <2>3, <2>4, <2>5, <3>1
  <2> QED
    BY <2>6, <2>7
<1> QED
  BY <1>1, <1>2, <1>3, <1>4, <1>5, <1>6, StepKinds

\* What becomes of a mailbox in a step of u.
LEMMA BoxFrom ==
  ASSUME Typed, CallInv, NEW u \in User, Step(u), NEW x \in User
  PROVE  \/ inbox'[x] = inbox[x]
         \/ x = u /\ inbox[u] # <<>> /\ Deliver(u) /\ inbox'[u] = Tail(inbox[u])
         \/ /\ x = Talks[u]
            /\ \E m \in Signal, box \in {inbox, Taken(u)} :
                 /\ inbox'[x] = Append(inbox[x], m) /\ inbox'[u] = box[u]
                 /\ Sendable(u, box, m.type, m.call)
<1>1. PICK box \in [User -> Seq(Signal)] :
        /\ box = inbox \/ (inbox[u] # <<>> /\ box = Taken(u) /\ Deliver(u))
        /\ \/ inbox' = box
           \/ \E m \in Signal : /\ inbox' = Sent(box, u, m.type, m.call, m.n)
                                /\ Sendable(u, box, m.type, m.call)
  BY StepMails DEF CallInv
<1>2. Talks[u] \in User /\ Talks[u] # u
  BY CallConstants
<1>3. \/ box[x] = inbox[x]
      \/ x = u /\ inbox[u] # <<>> /\ Deliver(u) /\ box[u] = Tail(inbox[u])
  BY <1>1 DEF Taken, Typed
<1>4. CASE inbox' = box
  BY <1>3, <1>4
<1>5. CASE \E m \in Signal : /\ inbox' = Sent(box, u, m.type, m.call, m.n)
                             /\ Sendable(u, box, m.type, m.call)
  <2>1. PICK m \in Signal : /\ inbox' = Sent(box, u, m.type, m.call, m.n)
                            /\ Sendable(u, box, m.type, m.call)
    BY <1>5
  <2> DEFINE s == [type |-> m.type, call |-> m.call, n |-> m.n]
  <2>2. s = m
    BY DEF Signal
  <2>3. \A y \in User : inbox'[y] = IF y = Talks[u] THEN Append(box[y], s) ELSE box[y]
    BY <2>1, <2>2, SentBox
  <2> HIDE DEF s
  <2>4. CASE x = Talks[u]
    BY <1>1, <1>2, <1>3, <2>1, <2>2, <2>3, <2>4
  <2>5. CASE x # Talks[u]
    BY <1>3, <2>3, <2>5
  <2> QED
    BY <2>4, <2>5
<1> QED
  BY <1>1, <1>4, <1>5

\* The ends of a call are two users.
LEMMA Ends ==
  ASSUME NEW c \in Call
  PROVE  /\ c.by \in User /\ Callee(c) \in User /\ Callee(c) # c.by /\ c # NoCall
         /\ OfferOf(c) \in Signal /\ OfferOf(c).type = "offer" /\ OfferOf(c).call = c
BY CallType, CallConstants, SignalType DEF Callee, OfferOf

\* A signal new in a mailbox was sent by the user who took the step.
LEMMA MailFrom ==
  ASSUME Typed, CallInv, NEW u \in User, Step(u), NEW x \in User, NEW m \in Mail(x)',
         m \notin Mail(x)
  PROVE  /\ x = Talks[u]
         /\ \E box \in {inbox, Taken(u)} :
              inbox'[u] = box[u] /\ Sendable(u, box, m.type, m.call)
<1>0. /\ inbox[x] \in Seq(Signal) /\ Mail(x) = Mails(inbox[x])
      /\ Mail(x)' = Mails(inbox'[x])
  BY DEF Typed, Mail, Mails
<1>1. CASE inbox'[x] = inbox[x]
  BY <1>0, <1>1
<1>2. CASE x = u /\ inbox[u] # <<>> /\ inbox'[u] = Tail(inbox[u])
  BY <1>0, <1>2, TailMails
<1>3. CASE /\ x = Talks[u]
           /\ \E s \in Signal, box \in {inbox, Taken(u)} :
                /\ inbox'[x] = Append(inbox[x], s) /\ inbox'[u] = box[u]
                /\ Sendable(u, box, s.type, s.call)
  <2>1. PICK s \in Signal, box \in {inbox, Taken(u)} :
          /\ inbox'[x] = Append(inbox[x], s) /\ inbox'[u] = box[u]
          /\ Sendable(u, box, s.type, s.call)
    BY <1>3
  <2>2. m = s
    BY <1>0, <2>1, AppendMails
  <2> QED
    BY <1>3, <2>1, <2>2
<1> QED
  BY <1>1, <1>2, <1>3, BoxFrom

\* A call not placed yet is nowhere.
LEMMA Fresh ==
  ASSUME Typed, CallInv, NEW c \in Call, ~Placed(c)
  PROVE  ~Asks(c) /\ ~Offers(c) /\ ~Offered(c) /\ ~Known(Callee(c), c)
<1>1. c.by \in User /\ Callee(c) \in User /\ c # NoCall
  BY Ends
<1>2. ~Asks(c) /\ ~Offers(c)
  BY <1>1 DEF CallInv, CallsAt, Asks, Offers, ToDo
<1>3. ~Offered(c)
  BY <1>1 DEF CallInv, MailAt, Offered, OfferOf
<1>4. ~Known(Callee(c), c)
  BY <1>1 DEF CallInv, CallsAt, Known, Live, CallsOf, ToDo
<1> QED
  BY <1>2, <1>3, <1>4

\* A call goes from being asked media for to being offered, to being on its way, to
\* being known to its callee, and in no other order.
LEMMA Stages ==
  ASSUME Typed, CallInv, NEW u \in User, Step(u), NEW c \in Call
  PROVE  /\ Asks(c)' => Asks(c) \/ ~Placed(c)
         /\ Offers(c)' => Offers(c) \/ (Asks(c) /\ ~Asks(c)')
         /\ Offered(c)' => Offered(c) \/ (Offers(c) /\ ~Offers(c)')
         /\ Known(Callee(c), c)' =>
              \/ Known(Callee(c), c)
              \/ /\ Callee(c) = u /\ Head(inbox[u]) = OfferOf(c) /\ Offered(c)
                 /\ inbox[u] # <<>> /\ inbox' = Taken(u)
<1>0. c.by \in User /\ Callee(c) \in User /\ c # NoCall
  BY Ends
<1>1. \A x \in User : x # u => jobs'[x] = jobs[x] /\ hook'[x] = hook[x]
  BY StepPlaced DEF OnlyAt
<1>2. \A does \in {"dial", "offer", "accept"} :
        ToDo(does, c).does = does /\ ToDo(does, c).call = c
  BY DEF ToDo
<1>3. Asks(c)' => Asks(c) \/ ~Placed(c)
  <2> SUFFICES ASSUME ToDo("dial", c) \in jobs'[c.by], ToDo("dial", c) \notin jobs[c.by]
               PROVE  ~Placed(c)
    BY DEF Asks
  <2>1. c.by = u
    BY <1>0, <1>1
  <2> QED
    BY <1>2, <2>1, JobsFrom
<1>4. Offers(c)' => Offers(c) \/ (Asks(c) /\ ~Asks(c)')
  <2> SUFFICES ASSUME ToDo("offer", c) \in jobs'[c.by], ToDo("offer", c) \notin jobs[c.by]
               PROVE  ToDo("dial", c) \in jobs[c.by] \ jobs'[c.by]
    BY DEF Asks, Offers
  <2>1. c.by = u
    BY <1>0, <1>1
  <2> QED
    BY <1>2, <2>1, JobsFrom
<1>5. Offered(c)' => Offered(c) \/ (Offers(c) /\ ~Offers(c)')
  <2> SUFFICES ASSUME OfferOf(c) \in Mail(Callee(c))', OfferOf(c) \notin Mail(Callee(c))
               PROVE  ToDo("offer", c) \in jobs[c.by] \ jobs'[c.by]
    BY DEF Offered, Offers, Callee
  <2>1. \E box \in {inbox, Taken(u)} : Sendable(u, box, OfferOf(c).type, OfferOf(c).call)
    BY <1>0, MailFrom
  <2> QED
    BY <2>1, Ends DEF Sendable
<1>6. ASSUME Known(Callee(c), c)', ~Known(Callee(c), c)
      PROVE  /\ Callee(c) = u /\ Head(inbox[u]) = OfferOf(c) /\ Offered(c)
             /\ inbox[u] # <<>> /\ inbox' = Taken(u)
  <2> DEFINE b == Callee(c)
  <2>1. /\ \/ c \in {hook'[b].callId, hook'[b].incoming}
           \/ ToDo("accept", c) \in jobs'[b]
        /\ c \notin {hook[b].callId, hook[b].incoming} /\ ToDo("accept", c) \notin jobs[b]
    BY <1>0, <1>6 DEF Known, Live, CallsOf, Callee
  <2>2. b = u
    BY <1>0, <1>1, <2>1
  <2>3. ToDo("accept", c) \notin jobs'[b]
    BY <1>2, <2>1, <2>2, JobsFrom
  <2>4. c \in {hook'[u].callId, hook'[u].incoming}
    BY <2>1, <2>2, <2>3
  <2>5. /\ Head(inbox[u]) = OfferOf(c) /\ OfferOf(c) \in Mail(u)
        /\ inbox[u] # <<>> /\ inbox' = Taken(u)
    BY <2>1, <2>2, <2>4, LiveFrom, Ends
  <2> QED
    BY <2>2, <2>5 DEF Offered
<1> QED
  BY <1>3, <1>4, <1>5, <1>6

\* The offer of a call is at most once on its way, and taken it is not.
LEMMA OfferBox ==
  ASSUME Typed, CallInv, NEW u \in User, Step(u), NEW c \in Call, OfferedOnce(c)
  PROVE  /\ Single(inbox'[Callee(c)], OfferOf(c))
         /\ (/\ Callee(c) = u /\ inbox[u] # <<>> /\ Head(inbox[u]) = OfferOf(c)
             /\ inbox'[u] = Tail(inbox[u])) => ~Offered(c)'
<1> DEFINE b == Callee(c)
<1>1. /\ b \in User /\ b # c.by /\ inbox[b] \in Seq(Signal)
      /\ OfferOf(c).type = "offer" /\ OfferOf(c).call = c
  BY Ends DEF Typed
<1>2. Single(inbox[b], OfferOf(c))
  BY DEF OfferedOnce, Single
<1>3. Offered(c) <=> OfferOf(c) \in Mails(inbox[b])
  BY DEF Offered, Mail, Mails
<1>4. Offered(c)' <=> OfferOf(c) \in Mails(inbox'[b])
  BY DEF Offered, Mail, Mails, Callee
<1>5. Offers(c) <=> ToDo("offer", c) \in jobs[c.by]
  BY DEF Offers
<1>6. Offers(c) => ~Offered(c)
  BY DEF OfferedOnce
<1> HIDE DEF b
<1> SUFFICES /\ Single(inbox'[b], OfferOf(c))
             /\ (/\ b = u /\ inbox[u] # <<>> /\ Head(inbox[u]) = OfferOf(c)
                 /\ inbox'[u] = Tail(inbox[u])) => ~Offered(c)'
  BY DEF b
<1>7. CASE inbox[u] # <<>> /\ b = u /\ inbox'[u] = Tail(inbox[u])
  <2>1. /\ Single(Tail(inbox[b]), OfferOf(c))
        /\ Head(inbox[b]) = OfferOf(c) => OfferOf(c) \notin Mails(Tail(inbox[b]))
    BY <1>1, <1>2, <1>7, SingleTail
  <2> QED
    BY <1>4, <1>7, <2>1
<1>8. CASE ~(inbox[u] # <<>> /\ b = u /\ inbox'[u] = Tail(inbox[u]))
  <2>1. Single(inbox'[b], OfferOf(c))
    <3>1. CASE inbox'[b] = inbox[b]
      BY <1>2, <3>1
    <3>2. CASE \E m \in Signal, box \in {inbox, Taken(u)} :
                 /\ inbox'[b] = Append(inbox[b], m) /\ inbox'[u] = box[u]
                 /\ Sendable(u, box, m.type, m.call)
      <4>1. PICK m \in Signal, box \in {inbox, Taken(u)} :
              inbox'[b] = Append(inbox[b], m) /\ Sendable(u, box, m.type, m.call)
        BY <3>2
      <4>2. m = OfferOf(c) => Offers(c)
        BY <1>1, <1>5, <4>1 DEF Sendable
      <4>3. m = OfferOf(c) => OfferOf(c) \notin Mails(inbox[b])
        BY <1>3, <1>6, <4>2
      <4> QED
        BY <1>1, <1>2, <4>1, <4>3, SingleAppend
    <3> QED
      BY <1>1, <1>8, <3>1, <3>2, BoxFrom
  <2> QED
    BY <1>8, <2>1
<1> QED
  BY <1>7, <1>8

\* A call is offered once, still.
LEMMA OfferedInv ==
  ASSUME Typed, CallInv, NEW u \in User, Step(u), NEW c \in Call, OfferedOnce(c)
  PROVE  OfferedOnce(c)'
<1> DEFINE taken == /\ Callee(c) = u /\ Head(inbox[u]) = OfferOf(c)
                    /\ inbox[u] # <<>> /\ inbox' = Taken(u)
<1>1. /\ Asks(c)' => Asks(c) \/ ~Placed(c)
      /\ Offers(c)' => Offers(c) \/ (Asks(c) /\ ~Asks(c)')
      /\ Offered(c)' => Offered(c) \/ (Offers(c) /\ ~Offers(c)')
      /\ Known(Callee(c), c)' =>
           Known(Callee(c), c) \/ (taken /\ Offered(c))
  BY Stages
<1>2. ~Placed(c) => ~Asks(c) /\ ~Offers(c) /\ ~Offered(c) /\ ~Known(Callee(c), c)
  BY Fresh
<1>3. taken => ~Offered(c)'
  <2>1. taken => inbox'[u] = Tail(inbox[u])
    BY DEF Taken, Typed
  <2> QED
    BY <2>1, OfferBox
<1>4. Single(inbox'[Callee(c)], OfferOf(c))
  BY OfferBox
<1>5. /\ Asks(c) => ~Offers(c)
      /\ Asks(c) \/ Offers(c) => ~Offered(c)
      /\ Asks(c) \/ Offers(c) \/ Offered(c) => ~Known(Callee(c), c)
  BY DEF OfferedOnce
<1> HIDE DEF taken
<1>6. /\ Asks(c)' => ~Offers(c)'
      /\ Asks(c)' \/ Offers(c)' => ~Offered(c)'
      /\ Asks(c)' \/ Offers(c)' \/ Offered(c)' => ~Known(Callee(c), c)'
  <2>1. Asks(c)' => ~Offers(c)'
    BY <1>1, <1>2, <1>5
  <2>2. Asks(c)' \/ Offers(c)' => ~Offered(c)'
    BY <1>1, <1>2, <1>5
  <2>3. CASE Known(Callee(c), c)
    BY <1>1, <1>2, <1>5, <2>1, <2>2, <2>3
  <2>4. CASE taken /\ Offered(c)
    BY <1>1, <1>2, <1>3, <1>5, <2>1, <2>2, <2>4
  <2> QED
    BY <1>1, <2>1, <2>2, <2>3, <2>4
<1>7. \A i, k \in DOMAIN inbox'[Callee(c)] :
        inbox'[Callee(c)][i] = OfferOf(c) /\ inbox'[Callee(c)][k] = OfferOf(c) => i = k
  BY <1>4 DEF Single
<1> QED
  BY <1>6, <1>7 DEF OfferedOnce, Callee, OfferOf

\* Whoever is out of a call stays out, and is not offered it again.
LEMMA GoneInv ==
  ASSUME Paired, Typed, CallInv, OverInv, NEW u \in User, Step(u), NEW x \in User
  PROVE  GoneAt(x)'
<1> DEFINE y == Talks[x]
           Unoffered(c) == ~Asks(c) /\ ~Offers(c) /\ ~Offered(c)
<1>0. y \in User /\ y # x /\ Talks[y] = x
  BY CallConstants DEF Paired
<1>1. ASSUME NEW c \in Call, Placed(c), Unoffered(c)
      PROVE  ~Asks(c)' /\ ~Offers(c)' /\ ~Offered(c)'
  BY <1>1, Stages
<1>2. \A c \in Call : Callee(c) = y <=> c.by = x
  BY <1>0, Ends DEF Callee, Paired
<1>3. \A c \in Call : OfferedOnce(c)
  BY DEF OverInv
<1>4. GoneAt(x)
  BY DEF OverInv
<1> HIDE DEF y
<1> SUFFICES ASSUME NEW m \in Mail(x)', m.type \in {"reject", "hangup"}
             PROVE  /\ m.call \notin {hook'[y].callId, hook'[y].incoming}
                    /\ m.call.by = x => ~Asks(m.call)' /\ ~Offers(m.call)' /\ ~Offered(m.call)'
  BY DEF GoneAt, Live, CallsOf, y
<1> DEFINE c == m.call
<1>5. c \in Call
  <2>1. inbox'[x] \in Seq(Signal)
    BY StepType DEF Typed
  <2>2. \A i \in DOMAIN inbox'[x] : inbox'[x][i] \in Signal
    BY <2>1
  <2> QED
    BY <2>2 DEF Mail, Signal
<1>6. c # NoCall
  BY <1>5, NoCallIsNoCall
<1>7. CASE m \in Mail(x)
  <2>1. c \notin {hook[y].callId, hook[y].incoming} /\ (c.by = x => Unoffered(c)) /\ Placed(c)
    BY <1>4, <1>6, <1>7 DEF GoneAt, CallInv, MailAt, Live, CallsOf, y
  <2>2. c \notin {hook'[y].callId, hook'[y].incoming}
    <3>1. CASE y # u
      <4>1. hook'[y] = hook[y]
        BY <1>0, <3>1, StepPlaced DEF OnlyAt
      <4> QED
        BY <2>1, <4>1
    <3>2. CASE y = u
      <4> SUFFICES ASSUME c \in {hook'[u].callId, hook'[u].incoming} PROVE FALSE
        BY <3>2
      <4> HIDE DEF c
      <4>1. OfferOf(c) \in Mail(u) /\ Callee(c) = u
        BY <1>5, <2>1, <3>2, LiveFrom
      <4>2. c.by = x /\ Offered(c)
        BY <1>2, <1>5, <3>2, <4>1 DEF Offered
      <4> QED
        BY <2>1, <4>2
    <3> QED
      BY <3>1, <3>2
  <2> HIDE DEF c
  <2>3. c.by = x => ~Asks(c)' /\ ~Offers(c)' /\ ~Offered(c)'
    BY <1>1, <1>5, <2>1
  <2> QED
    BY <2>2, <2>3 DEF c
<1>8. CASE m \notin Mail(x)
  <2>1. x = Talks[u] /\ \E box \in {inbox, Taken(u)} :
          inbox'[u] = box[u] /\ Sendable(u, box, m.type, m.call)
    BY <1>8, MailFrom
  <2>2. y = u
    BY <2>1 DEF y, Paired
  <2>3. Placed(c)
    BY <2>1 DEF Sendable
  <2>4. CASE Known(u, c) /\ hook'[u].callId = NoCall /\ hook'[u].incoming = NoCall
    <3>1. c.by = x => Unoffered(c)
      BY <1>2, <1>3, <1>5, <2>2, <2>4 DEF OfferedOnce
    <3>2. c.by = x => ~Asks(c)' /\ ~Offers(c)' /\ ~Offered(c)'
      BY <1>1, <1>5, <2>3, <3>1
    <3> QED
      BY <1>6, <2>2, <2>4, <3>2
  <2>5. CASE /\ inbox[u] # <<>> /\ Head(inbox[u]) = OfferOf(c) /\ hook'[u] = hook[u]
             /\ inbox'[u] = Tail(inbox[u])
    <3>1. inbox[u] \in Seq(Signal) /\ Mail(u) = Mails(inbox[u])
      BY DEF Typed, Mail, Mails
    <3>2. OfferOf(c) \in Mail(u)
      BY <2>5, <3>1, TailMails
    <3>3. Callee(c) = u
      BY <1>5, <3>2, Ends DEF CallInv, MailAt
    <3>4. Offered(c)
      BY <3>2, <3>3 DEF Offered
    <3>5. ~Asks(c) /\ ~Offers(c) /\ ~Known(u, c)
      BY <1>3, <1>5, <3>3, <3>4 DEF OfferedOnce
    <3>6. ~Asks(c)' /\ ~Offers(c)'
      BY <1>5, <2>3, <3>5, Stages
    <3>7. ~Offered(c)'
      BY <1>3, <1>5, <2>5, <3>3, OfferBox
    <3>8. c \notin {hook[u].callId, hook[u].incoming}
      BY <1>6, <3>5 DEF Known, Live, CallsOf
    <3> QED
      BY <2>2, <2>5, <3>6, <3>7, <3>8
  <2>6. \A box \in {inbox, Taken(u)} : box = Taken(u) => box[u] = Tail(inbox[u])
    BY DEF Taken, Typed
  <2> QED
    BY <2>1, <2>4, <2>5, <2>6 DEF Sendable
<1> QED
  BY <1>7, <1>8

\* Both hold at first and after every step, when chats are open at each other.
LEMMA OverStays == Paired /\ Spec => [](TypeOK /\ CallInv /\ OverInv)
<1> SUFFICES ASSUME Paired PROVE Spec => [](TypeOK /\ CallInv /\ OverInv)
  OBVIOUS
<1>1. Init => OverInv
  <2> SUFFICES ASSUME Init PROVE OverInv
    OBVIOUS
  <2>1. \A u \in User : /\ hook[u] = Cleared("idle") /\ jobs[u] = {}
                        /\ inbox[u] = <<>> /\ Mail(u) = {}
    BY DEF Init, Mail
  <2>2. \A u \in User : GoneAt(u)
    BY <2>1 DEF GoneAt
  <2>3. ASSUME NEW c \in Call PROVE OfferedOnce(c)
    BY <2>1, Ends DEF OfferedOnce, Asks, Offers, Offered
  <2> QED
    BY <2>2, <2>3 DEF OverInv
<1>2. TypeOK /\ CallInv /\ OverInv /\ [Next]_vars => OverInv'
  <2> SUFFICES ASSUME TypeOK, CallInv, OverInv, [Next]_vars PROVE OverInv'
    OBVIOUS
  <2>1. CASE UNCHANGED vars
    BY <2>1 DEF vars, OverInv, OfferedOnce, GoneAt, Mail, Asks, Offers, Offered, Known, Live,
                CallsOf, Callee
  <2>2. CASE Next
    <3>1. PICK u \in User : Step(u)
      BY <2>2 DEF Next, Step
    <3>2. \A x \in User : GoneAt(x)'
      BY <3>1, GoneInv DEF TypeOK
    <3>3. \A c \in Call : OfferedOnce(c)'
      BY <3>1, OfferedInv DEF TypeOK, OverInv
    <3> QED
      BY <3>2, <3>3 DEF OverInv
  <2> QED
    BY <2>1, <2>2
<1> QED
  BY <1>1, <1>2, InitType, InitInv, NextType, NextInv, PTL DEF Spec

\* A user who leaves its one call by a signal it takes has been told of that call.
LEMMA ToldOf ==
  ASSUME Typed, NEW u \in User, Step(u), NEW c \in Call, CallsOf(u) = {c},
         hook[u].callId = c, hook'[u].callId = NoCall,
         inbox[u] # <<>>, inbox'[u] = Tail(inbox[u]), Deliver(u)
  PROVE  /\ Head(inbox[u]) \in Mail(u) /\ Head(inbox[u]).call = c
         /\ Head(inbox[u]).type \in {"reject", "hangup"}
<1>1. c # NoCall
  BY NoCallIsNoCall
<1>2. ~HandleOffer(u) /\ ~HandleAnswer(u) /\ ~HandleIce(u)
  <2>1. HandleIce(u) => SameCalls(u)
    BY HandleIceDoes DEF Calm
  <2> QED
    BY <1>1, <2>1, HandleOfferKeeps, HandleAnswerDoes DEF SameCalls
<1>3. inbox[u] \in Seq(Signal) /\ Head(inbox[u]) \in Mail(u)
  BY TailMails DEF Typed, Mail, Mails
<1>4. CASE HandleReject(u)
  <2>1. Head(inbox[u]).type = "reject" /\ Head(inbox[u]).call = hook[u].callId
    BY <1>1, <1>4 DEF HandleReject, RejectWhen, Arrives
  <2> QED
    BY <1>3, <2>1
<1>5. CASE HandleHangup(u)
  <2>1. /\ Head(inbox[u]).type = "hangup"
        /\ Head(inbox[u]).call \in {hook[u].callId, hook[u].incoming}
    BY <1>1, <1>5 DEF HandleHangup, HangupOf, Arrives
  <2>2. Head(inbox[u]).call # NoCall
    BY <1>5, TakenBox, NoCallIsNoCall DEF HandleHangup, HangupOf
  <2> QED
    BY <1>3, <2>1, <2>2 DEF CallsOf
<1> QED
  BY <1>2, <1>4, <1>5 DEF Deliver

\* When chats are open at each other, no signal takes down a call the other user is
\* still in, or still asked to take: whatever rejections and hangups come late, cross
\* or belong to calls placed before.
THEOREM OtherSignalsHarmless == Paired /\ Spec => LiveCallKept
<1>1. ASSUME TypeOK, CallInv, OverInv, [Next]_vars, NEW u \in User
      PROVE  CallKept(u)
  <2> DEFINE c == hook[u].callId
  <2> SUFFICES ASSUME CallsOf(u) = {c}, hook'[u].callId = NoCall,
                      inbox[u] # <<>>, inbox'[u] = Tail(inbox[u])
               PROVE  c \notin CallsOf(Talks[u])
    BY DEF CallKept
  <2>1. Typed /\ inbox[u] \in Seq(Signal)
    BY <1>1 DEF TypeOK, Typed
  <2>2. c \in Call
    BY <2>1, HookType DEF CallsOf, MaybeCall
  <2>3. inbox'[u] # inbox[u] /\ c # NoCall
    <3>1. Len(Tail(inbox[u])) = Len(inbox[u]) - 1
      BY <2>1, HeadTailProperties
    <3>2. Len(inbox[u]) \in Nat
      BY <2>1, LenProperties
    <3>3. Len(Tail(inbox[u])) # Len(inbox[u])
      <4> DEFINE n == Len(inbox[u])
      <4>1. n \in Nat /\ Len(Tail(inbox[u])) = n - 1
        BY <3>1, <3>2
      <4> HIDE DEF n
      <4>2. n - 1 # n
        BY <4>1
      <4> QED
        BY <4>1, <4>2 DEF n
    <3> QED
      BY <2>2, <3>3, NoCallIsNoCall, Zenon
  <2>4. PICK x \in User : Step(x)
    BY <1>1, <2>3 DEF Next, Step, vars
  <2>5. x = u
    BY <1>1, <2>1, <2>3, <2>4, StepPlaced DEF OnlyAt
  <2>6. Deliver(u)
    BY <1>1, <2>1, <2>3, <2>4, <2>5, BoxFrom, CallConstants
  <2>7. /\ Head(inbox[u]) \in Mail(u) /\ Head(inbox[u]).call = c
        /\ Head(inbox[u]).type \in {"reject", "hangup"}
    BY <2>1, <2>2, <2>4, <2>5, <2>6, ToldOf
  <2> QED
    BY <1>1, <2>7 DEF OverInv, GoneAt, Live
<1>2. TypeOK /\ CallInv /\ OverInv /\ [Next]_vars => [\A u \in User : CallKept(u)]_vars
  BY <1>1
<1> QED
  BY <1>2, OverStays, PTL DEF Spec, LiveCallKept
=============================================================================
