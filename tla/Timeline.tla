------------------------------ MODULE Timeline ------------------------------
(***************************************************************************)
(* The client's side of one conversation: the thread App.tsx shows         *)
(* (messages, reactions, the history records and their decryption), kept   *)
(* with the pure functions of lib/chat.ts, over the socket of              *)
(* useWebSocket.ts and the server of MessageStore.                         *)
(*                                                                         *)
(* A device learns of a message three ways, in any order: its own bubble   *)
(* drawn before anything is stored, the live event, and the history it     *)
(* asked for.  Decryption is abstracted to what DoubleRatchet shows of it: *)
(* an envelope opens once on the device it was made for and never again.   *)
(* What a device composed it reads back from the outgoing log.             *)
(***************************************************************************)
EXTENDS MessageStore

CONSTANTS
    Skew            \* how far each device's own clock is ahead

ASSUME TimelineAssumption == Skew \in [Devices -> Nat]

Threads == {"none", "this", "other"}
States == {"sending", "sent", "failed"}

(* DisplayMessage: known to the server or not, shown with its text or not. *)
Bubble == [id: Ids, server: BOOLEAN, state: States, body: BOOLEAN, at: Nat]
(* ReactionEvent. *)
Reaction == [id: Ids, at: Nat]
(* What decryptEnvelope resolves to. *)
Result == [id: Ids, at: Nat, ok: BOOLEAN]

VARIABLES
    thread,     \* the thread this device has open
    messages,   \* its bubbles, in the order shown
    reactions,  \* its reaction log, in order of arrival
    fetch,      \* its history request: idle, asked or ready
    records,    \* the history records it holds, by client id
    todo,       \* those its decryption effect has still to open
    done,       \* what the effect has opened so far
    live,       \* live events opened and not yet merged
    outgoing,   \* the log of what it composed (persisted)
    spent,      \* the envelopes it has opened (persisted)
    base,       \* messages there were when it opened the thread
    intact,     \* thread and socket are those of the last load
    covered     \* the socket is open since before the history was read

client == <<thread, messages, reactions, fetch, records, todo, done, live,
            outgoing, spent, base, intact, covered>>
vars == <<store, client>>

(* Room, server and every device keep their types and their bounds.        *)
TypeOK ==
    /\ StoreTypeOK
    /\ thread \in [Devices -> Threads]
    /\ messages \in [Devices -> Seq(Bubble)]
    /\ reactions \in [Devices -> Seq(Reaction)]
    /\ fetch \in [Devices -> {"idle", "asked", "ready"}]
    /\ {records, todo} \subseteq [Devices -> Seq(Ids)]
    /\ {done, live} \subseteq [Devices -> Seq(Result)]
    /\ outgoing \in [Devices -> SUBSET Ids]
    /\ spent \in [Devices -> SUBSET Ids]
    /\ base \in [Devices -> 0..MaxMessages]
    /\ covered \in [Devices -> BOOLEAN]

Init ==
    /\ StoreInit
    /\ thread = [d \in Devices |-> "none"]
    /\ fetch = [d \in Devices |-> "idle"]
    /\ messages = [d \in Devices |-> <<>>]
    /\ reactions = [d \in Devices |-> <<>>]
    /\ records = [d \in Devices |-> <<>>]
    /\ todo = [d \in Devices |-> <<>>]
    /\ done = [d \in Devices |-> <<>>]
    /\ live = [d \in Devices |-> <<>>]
    /\ outgoing = [d \in Devices |-> {}]
    /\ spent = [d \in Devices |-> {}]
    /\ base = [d \in Devices |-> 0]
    /\ intact = [d \in Devices |-> FALSE]
    /\ covered = [d \in Devices |-> FALSE]

-----------------------------------------------------------------------------
(* lib/chat.ts.                                                            *)

(* Array.sort with compareSentAt, which keeps the order of equals.         *)
BySentAt(s) ==
    LET Upto(i, j) == s[i].at < s[j].at \/ (s[i].at = s[j].at /\ i <= j)
        Place(j) == Cardinality({i \in DOMAIN s : Upto(i, j)})
    IN [k \in DOMAIN s |-> s[CHOOSE j \in DOMAIN s : Place(j) = k]]

Find(s, Same(_)) ==
    LET hits == {i \in DOMAIN s : Same(s[i])}
    IN IF hits = {} THEN 0 ELSE CHOOSE i \in hits : \A j \in hits : i <= j

SameMessage(a, b) == a.id = b.id
SamePending(a, b) == a.server = b.server /\ (a.server => a.id = b.id)

MergeBy(Same(_, _), s, b) ==
    LET i == Find(s, LAMBDA a : Same(a, b))
    IN IF i = 0 THEN BySentAt(Append(s, b)) ELSE [s EXCEPT ![i] = b]
MergeUnmatched(s, b) == BySentAt(Append(s, b))
MergeCollapsing(s, b) == MergeBy(SamePending, s, b)
mergeMessages(s, b) == MergeBy(SameMessage, s, b)

AckInPlace(s, e) ==
    LET i == Find(s, LAMBDA a : a.id = e.id) IN
    IF i = 0 THEN s
    ELSE [s EXCEPT ![i] = [@ EXCEPT !.server = TRUE, !.state = "sent",
                                    !.at = e.at]]
acknowledgeMessage(s, e) ==
    IF \E i \in DOMAIN s : s[i].id = e.id
    THEN BySentAt(AckInPlace(s, e)) ELSE s

mergeReactions(s, r) ==
    IF \E i \in DOMAIN s : s[i].id = r.id THEN s ELSE Append(s, r)

(* buildReactionTallies, for one emoji: the users whose last word on the   *)
(* message, in send order, is to add it.                                   *)
TallyInOrder(s, target) ==
    LET Of(u) == {k \in DOMAIN s : sent[s[k].id].target = target
                                   /\ Sender(s[k].id) = u}
    IN {u \in Users : \E k \in Of(u) : /\ \A l \in Of(u) : l <= k
                                      /\ sent[s[k].id].kind = "add"}
Tally(s, target) == TallyInOrder(BySentAt(s), target)

(* createOptimisticDisplayMessage, resolveEnvelope for a stored message,   *)
(* and the bubble of one that did not open.                                *)
Optimistic(i, at) ==
    [id |-> i, server |-> FALSE, state |-> "sending", body |-> TRUE, at |-> at]
Drawn(r) ==
    [id |-> r.id, server |-> TRUE, state |-> IF r.ok THEN "sent" ELSE "failed",
     body |-> r.ok, at |-> r.at]

(* encodeMessagePayload and encodeReactionPayload, and what                *)
(* decodeMessagePayload makes of them: a text stays one.                   *)
TextPayload == [kind |-> "text", target |-> 0]
ReactionPayload(target, action) == [kind |-> action, target |-> target]
PayloadKind(i) == IF sent[i].kind = "text" THEN "message" ELSE "reaction"

LogEntry(r) == [id |-> r.id, at |-> r.at]
IsReaction(r) == r.ok /\ PayloadKind(r.id) = "reaction"
DrawOne(s, r) == IF IsReaction(r) THEN s ELSE mergeMessages(s, Drawn(r))
ReactOne(s, r) ==
    IF IsReaction(r) THEN mergeReactions(s, LogEntry(r)) ELSE s

DrawOnto(s, results) ==
    LET drawn[n \in 0..Len(results)] ==
            IF n = 0 THEN s ELSE DrawOne(drawn[n - 1], results[n])
    IN drawn[Len(results)]
DrawAfresh(s, results) == DrawOnto(<<>>, results)
DrawAll(s, results) == DrawOnto(s, results)
ReactAll(s, results) ==
    LET log[n \in 0..Len(results)] ==
            IF n = 0 THEN s ELSE ReactOne(log[n - 1], results[n])
    IN log[Len(results)]

-----------------------------------------------------------------------------
(* Signing in, reloading, losing the socket.                               *)

Here(d) == thread[d] = "this"
LocalTime(d) == clock + Skew[d]

(* The state React holds for the thread, emptied while it renders another. *)
ResetThread(d) ==
    /\ messages' = [messages EXCEPT ![d] = <<>>]
    /\ reactions' = [reactions EXCEPT ![d] = <<>>]
    /\ records' = [records EXCEPT ![d] = <<>>]
    /\ todo' = [todo EXCEPT ![d] = <<>>]
    /\ done' = [done EXCEPT ![d] = <<>>]
    /\ base' = [base EXCEPT ![d] = Len(sent)]

NextSocket(d) ==
    /\ socket' = [socket EXCEPT ![d] = [n |-> @.n + 1, state |-> "opening"]]
    /\ frames' = [frames EXCEPT ![d] = <<>>]
    /\ inbox' = [inbox EXCEPT ![d] = <<>>]

(* loadSessionState after a sign-in, or after the page was reloaded: the   *)
(* chats and the ticket arrive together, the socket starts to open and the *)
(* first chat's history is asked for.                                      *)
Load(d) ==
    /\ IF thread[d] = "none" THEN UNCHANGED troubles ELSE Trouble
    /\ intact' = [intact EXCEPT ![d] = TRUE]
    /\ thread' = [thread EXCEPT ![d] = "this"]
    /\ fetch' = [fetch EXCEPT ![d] = "asked"]
    /\ covered' = [covered EXCEPT ![d] = FALSE]
    /\ live' = [live EXCEPT ![d] = <<>>]
    /\ ResetThread(d)
    /\ NextSocket(d)
    /\ UNCHANGED <<outgoing, spent, sent, copies, room, members, left, clock,
                   rows, work>>

(* A refreshed sign-in replaces the token: new chats, a new ticket, a new  *)
(* socket, and, as activeChat is a new object, the records at hand are     *)
(* decrypted again while the history is asked for again.                   *)
Refresh(d) ==
    /\ thread[d] # "none" /\ Trouble
    /\ intact' = [intact EXCEPT ![d] = FALSE]
    /\ fetch' = [fetch EXCEPT ![d] = IF Here(d) THEN "asked" ELSE @]
    /\ todo' = [todo EXCEPT ![d] = records[d]]
    /\ done' = [done EXCEPT ![d] = <<>>]
    /\ covered' = [covered EXCEPT ![d] = FALSE]
    /\ NextSocket(d)
    /\ UNCHANGED <<thread, messages, reactions, records, live, outgoing, spent,
                   base, sent, copies, room, members, left, clock, rows, work>>

(* The server accepts the socket, and knows it from then on.               *)
SocketOpens(d) ==
    /\ socket[d].state = "opening"
    /\ socket' = [socket EXCEPT ![d].state = "open"]
    /\ UNCHANGED <<client, sent, copies, room, members, troubles, left, clock,
                   rows, frames, work, inbox>>

(* The connection is lost with all that was under way.  The ticket is used *)
(* up, so the socket stays closed until the next load or refresh.          *)
SocketLost(d) ==
    /\ Connected(d) /\ Trouble
    /\ socket' = [socket EXCEPT ![d].state = "closed"]
    /\ frames' = [frames EXCEPT ![d] = <<>>]
    /\ inbox' = [inbox EXCEPT ![d] = <<>>]
    /\ covered' = [covered EXCEPT ![d] = FALSE]
    /\ intact' = [intact EXCEPT ![d] = FALSE]
    /\ UNCHANGED <<thread, messages, reactions, fetch, records, todo, done,
                   live, outgoing, spent, base, sent, copies, room, members,
                   left, clock, rows, work>>

(* Choosing another thread, and coming back to this one.                   *)
Leave(d) ==
    /\ Here(d) /\ Trouble
    /\ thread' = [thread EXCEPT ![d] = "other"]
    /\ fetch' = [fetch EXCEPT ![d] = "idle"]
    /\ covered' = [covered EXCEPT ![d] = FALSE]
    /\ intact' = [intact EXCEPT ![d] = FALSE]
    /\ ResetThread(d)
    /\ UNCHANGED <<live, outgoing, spent, sent, copies, room, members, left,
                   clock, rows, socket, frames, work, inbox>>

Return(d) ==
    /\ thread[d] = "other"
    /\ thread' = [thread EXCEPT ![d] = "this"]
    /\ fetch' = [fetch EXCEPT ![d] = "asked"]
    /\ ResetThread(d)
    /\ UNCHANGED <<live, outgoing, spent, intact, covered, store>>

-----------------------------------------------------------------------------
(* Sending.                                                                *)

Transmit(d, e) ==
    frames' = [frames EXCEPT ![d] = IF Connected(d) THEN Append(@, e) ELSE @]

Compose(d, payload) ==
    /\ Effort + EffortOf(payload.kind) <= Budget
    /\ Len(sent) + 1 \in Ids
    /\ sent' = Append(sent, [from |-> d, kind |-> payload.kind, target |-> payload.target,
                             for |-> {e \in Devices \ {d} : Member(e)}])
    /\ copies' = [copies EXCEPT ![Len(sent) + 1] = 1]
    /\ Transmit(d, [id |-> Len(sent) + 1, copy |-> 1])

(* saveOutgoingMessage and loadOutgoingMessage.                            *)
Log(d, i) == outgoing' = [outgoing EXCEPT ![d] = @ \cup {i}]
Logged(d, i) == i \in outgoing[d]

(* handleSend: the text is kept in the log, drawn, and sent; on a closed   *)
(* socket the bubble stays behind.                                         *)
SendText(d) ==
    /\ Here(d)
    /\ LET i == Len(sent) + 1 IN
       /\ Compose(d, TextPayload)
       /\ Log(d, i)
       /\ messages' = [messages EXCEPT ![d] =
                           mergeMessages(@, Optimistic(i, LocalTime(d)))]
    /\ UNCHANGED <<thread, reactions, fetch, records, todo, done, live, spent,
                   base, intact, covered, room, members, troubles, left, clock,
                   rows, socket, work, inbox>>

(* handleToggleReaction, on a bubble that is sent: what it does depends on *)
(* the tally shown; it is not logged, and not drawn unless it was sent.    *)
ToggleReaction(d) ==
    /\ Here(d) /\ Connected(d)
    /\ \E k \in DOMAIN messages[d] :
        LET target == messages[d][k].id
            i == Len(sent) + 1
            mine == Owner[d] \in Tally(reactions[d], target)
        IN /\ messages[d][k].state = "sent"
           /\ Compose(d, ReactionPayload(target, IF mine THEN "remove" ELSE "add"))
           /\ reactions' = [reactions EXCEPT ![d] =
                  mergeReactions(@, [id |-> i, at |-> LocalTime(d)])]
    /\ UNCHANGED <<thread, messages, fetch, records, todo, done, live,
                   outgoing, spent, base, intact, covered, room, members,
                   troubles, left, clock, rows, socket, work, inbox>>

(* A client that sends a message again when its echo does not come, as the *)
(* server expects of one.                                                  *)
Resend(d) ==
    /\ Connected(d)
    /\ \E i \in Ids :
        /\ i <= Len(sent) /\ sent[i].from = d /\ Trouble
        /\ copies' = [copies EXCEPT ![i] = @ + 1]
        /\ Transmit(d, [id |-> i, copy |-> copies[i] + 1])
    /\ UNCHANGED <<client, sent, room, members, left, clock, rows, socket,
                   work, inbox>>

-----------------------------------------------------------------------------
(* decryptEnvelope: our own text comes from the log, anybody else's opens  *)
(* if an envelope was made for this device and was not opened before.      *)
Opens(d, i) ==
    IF Sender(i) = Owner[d] THEN Logged(d, i)
    ELSE d \in sent[i].for /\ i \notin spent[d]
Spend(d, i) ==
    spent' = [spent EXCEPT ![d] =
                  @ \cup {j \in {i} : Sender(j) # Owner[d] /\ Opens(d, j)}]
Resolved(d, i) == [id |-> i, at |-> rows[i].at, ok |-> Opens(d, i)]

NextEvent(d) ==
    /\ Connected(d) /\ inbox[d] # <<>>
    /\ inbox' = [inbox EXCEPT ![d] = Tail(@)]
    /\ UNCHANGED <<sent, copies, room, members, troubles, left, clock, rows,
                   socket, frames, work>>

(* onMessage: an event of a thread that is not open is dropped; our own    *)
(* echo confirms a bubble; anything else is decrypted.                     *)
ReceiveElsewhere(d) ==
    /\ NextEvent(d) /\ ~Here(d)
    /\ UNCHANGED client

ReceiveEcho(d) ==
    /\ NextEvent(d) /\ Here(d)
    /\ Sender(Head(inbox[d]).id) = Owner[d]
    /\ messages' = [messages EXCEPT ![d] =
                        acknowledgeMessage(@, Head(inbox[d]))]
    /\ UNCHANGED <<thread, reactions, fetch, records, todo, done, live,
                   outgoing, spent, base, intact, covered>>

ReceiveLive(d) ==
    /\ NextEvent(d) /\ Here(d)
    /\ LET i == Head(inbox[d]).id IN
       /\ Sender(i) # Owner[d]
       /\ live' = [live EXCEPT ![d] = Append(@, Resolved(d, i))]
       /\ Spend(d, i)
    /\ UNCHANGED <<thread, messages, reactions, fetch, records, todo, done,
                   outgoing, base, intact, covered>>

(* The promise resolves, and merges into the thread on the screen.         *)
MergeLive(d) ==
    /\ live[d] # <<>>
    /\ live' = [live EXCEPT ![d] = Tail(@)]
    /\ messages' = [messages EXCEPT ![d] = DrawAll(@, <<Head(live[d])>>)]
    /\ reactions' = [reactions EXCEPT ![d] = ReactAll(@, <<Head(live[d])>>)]
    /\ UNCHANGED <<thread, fetch, records, todo, done, outgoing, spent, base,
                   intact, covered, store>>

(* The history request is answered: the records replace those at hand and  *)
(* their decryption starts.  Somebody who is not a member gets an error.   *)
HistoryArrives(d) ==
    /\ fetch[d] = "asked"
    /\ fetch' = [fetch EXCEPT ![d] = "ready"]
    /\ IF Member(d)
       THEN /\ records' = [records EXCEPT ![d] = HistoryFor(d)]
            /\ todo' = [todo EXCEPT ![d] = HistoryFor(d)]
            /\ done' = [done EXCEPT ![d] = <<>>]
            /\ covered' = [covered EXCEPT ![d] = Connected(d)]
       ELSE UNCHANGED <<records, todo, done, covered>>
    /\ UNCHANGED <<thread, messages, reactions, live, outgoing, spent, base,
                   intact, store>>

DecryptRecord(d) ==
    /\ todo[d] # <<>>
    /\ LET i == Head(todo[d]) IN
       /\ done' = [done EXCEPT ![d] = Append(@, Resolved(d, i))]
       /\ Spend(d, i)
    /\ todo' = [todo EXCEPT ![d] = Tail(@)]
    /\ UNCHANGED <<thread, messages, reactions, fetch, records, live, outgoing,
                   base, intact, covered, store>>

(* All are opened: they are folded into whatever is shown by now.          *)
MergeHistory(d) ==
    /\ todo[d] = <<>> /\ done[d] # <<>>
    /\ done' = [done EXCEPT ![d] = <<>>]
    /\ messages' = [messages EXCEPT ![d] = DrawAll(@, done[d])]
    /\ reactions' = [reactions EXCEPT ![d] = ReactAll(@, done[d])]
    /\ UNCHANGED <<thread, fetch, records, todo, live, outgoing, spent, base,
                   intact, covered, store>>

-----------------------------------------------------------------------------
User(d) == SendText(d) \/ ToggleReaction(d) \/ Leave(d) \/ Return(d)
Session(d) == Load(d) \/ Refresh(d) \/ SocketOpens(d) \/ SocketLost(d)
Receive(d) == ReceiveElsewhere(d) \/ ReceiveEcho(d) \/ ReceiveLive(d)
History(d) == HistoryArrives(d) \/ DecryptRecord(d) \/ MergeHistory(d)
Device(d) == User(d) \/ Session(d) \/ Resend(d) \/ Receive(d) \/ MergeLive(d)
             \/ History(d)

Next == (ServerStep /\ UNCHANGED client) \/ \E d \in Devices : Device(d)
Spec == Init /\ [][Next]_vars

-----------------------------------------------------------------------------
(* A message has one bubble, however it became known.                      *)
OneBubble ==
    \A d \in Devices : \A k, l \in DOMAIN messages[d] :
        messages[d][k].id = messages[d][l].id => k = l

(* What was written here since the thread was opened is on the screen, and *)
(* what was written on this device is shown with its text, always.         *)
OwnTextsShown ==
    \A d \in Devices :
        /\ \A i \in (base[d] + 1)..Len(sent) :
            sent[i].from = d /\ sent[i].kind = "text" /\ Here(d)
                => \E k \in DOMAIN messages[d] : messages[d][k].id = i
        /\ \A k \in DOMAIN messages[d] :
            LET b == messages[d][k] IN
            sent[b.id].from = d /\ sent[b.id].kind = "text" => b.body

(* Nothing is under way to this device.                                    *)
Quiet(d) ==
    /\ Here(d) /\ fetch[d] = "ready" /\ todo[d] = <<>> /\ done[d] = <<>>
    /\ live[d] = <<>> /\ inbox[d] = <<>> /\ work = {}
Following(d) == covered[d] /\ left[Owner[d]] = 0

(* When nothing is under way, and no echo was lost with a socket, what is  *)
(* shown and stored is in the server's order, however far the device's own *)
(* clock was off when it drew its bubbles.                                 *)
ServerOrder ==
    \A d \in Devices : Quiet(d) /\ intact[d] /\ left[Owner[d]] = 0 =>
        \A k, l \in DOMAIN messages[d] :
            /\ k < l
            /\ {messages[d][k].id, messages[d][l].id} \subseteq Stored
            => messages[d][k].at <= messages[d][l].at

Shown(d, i) ==
    \/ \E k \in DOMAIN messages[d] : messages[d][k].id = i
    \/ \E k \in DOMAIN reactions[d] : reactions[d][k].id = i
Wanted(d) ==
    {i \in Recent : Sender(i) # Owner[d] /\ d \in sent[i].for}

(* A thread that has been followed on an open socket since its history was *)
(* read has all of the recent messages, wherever each one met the request. *)
NothingMissed ==
    \A d \in Devices : Quiet(d) /\ Following(d) =>
        \A i \in Wanted(d) : Shown(d, i)

(* A device that still has its first load and socket, and all it asked for, *)
(* with nothing older than the history it read: it shows all there is.      *)
Fresh(d) == intact[d] /\ socket[d].n = 1 /\ Quiet(d) /\ Following(d)
Arrived(d) == Fresh(d) /\ \A i \in Stored : Sender(i) # Owner[d] => Shown(d, i)
Alone(d) == \A e \in Devices : Owner[e] = Owner[d] => e = d

(* lib/chat.ts toggles a reaction locally and replays those of others: once *)
(* everything has arrived everywhere, sent once, two fresh devices, each    *)
(* its user's only one, count the same, whatever the orders in which        *)
(* echoes, live events and history were met.                                *)
ReactionsAgree ==
    \A d, e \in Devices :
        /\ Arrived(d) /\ Alone(d) /\ Arrived(e) /\ Alone(e)
        /\ Stored = 1..Len(sent) /\ \A i \in Stored : copies[i] = 1
        => \A i \in Stored : Tally(reactions[d], i) = Tally(reactions[e], i)

(* What App.tsx:690-691 says of the merge of history and live messages.    *)
LivePreserved ==
    [][\A d \in Devices :
        thread'[d] = thread[d] /\ socket'[d].n = socket[d].n =>
            {b.id : b \in {c \in ToSet(messages[d]) : c.body}} \subseteq
            {b.id : b \in {c \in ToSet(messages'[d]) : c.body}}]_vars

(* What App.tsx:1166-1167 says of the sender's own messages: that the log  *)
(* of what was sent covers them, once the history has been read.           *)
OwnHistoryCovered ==
    \A d \in Devices : Quiet(d) /\ Following(d) =>
        \A i \in Recent :
            sent[i].from = d /\ sent[i].kind = "text" => Shown(d, i)

(* What App.tsx:495-496 says of the thread that was left.                  *)
OnlyThisThread ==
    \A d \in Devices : thread[d] = "other" => messages[d] = <<>>
=============================================================================
