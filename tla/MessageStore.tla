---------------------------- MODULE MessageStore ----------------------------
(***************************************************************************)
(* The server's side of a conversation: the messages table with its        *)
(* envelopes, the membership of the chat, and the WebSocket handlers that  *)
(* store a message and fan it out (backend/app/services/chat.py,           *)
(* services/chat_admin.py, api/ws.py, api/chats.py).                       *)
(*                                                                         *)
(* A handler is a loop that awaits: the members are read, the row is       *)
(* stamped, inserted and committed, and the recipients are read again, in  *)
(* separate steps that the handlers of other sockets, and of an earlier    *)
(* socket of the same device, interleave with.  One chat is modelled.  A   *)
(* client message id is a number; its server id is the same number, known  *)
(* to those who saw the row.                                               *)
(***************************************************************************)
EXTENDS Integers, Sequences, FiniteSets, SequencesExt

CONSTANTS
    Users, Devices,
    Owner,          \* the user each device belongs to
    Limit,          \* rows one history request returns
    RoomBudget, DirectBudget,   \* bound: the effort of all that happens
    TextEffort, ReactionEffort,
    RoomTrouble, DirectTrouble  \* of a resend, a reload, a membership change

ASSUME StoreAssumption ==
    /\ Owner \in [Devices -> Users]
    /\ {Limit, RoomBudget, DirectBudget} \subseteq Nat
    /\ {TextEffort, ReactionEffort, RoomTrouble, DirectTrouble}
        \subseteq Nat \ {0}

MaxMessages == RoomBudget + DirectBudget
Ids == 1..MaxMessages
Kinds == {"text", "add", "remove"}

(* What a client put into a message: from where, what, about which message *)
(* and for which devices it holds an envelope.  An event is one copy of    *)
(* it, a resend being another encryption under the same client id.         *)
Message == [from: Devices, kind: Kinds, target: 0..MaxMessages,
            for: SUBSET Devices]
Event == [id: Ids, copy: 1..(MaxMessages + 1)]

(* A stored row keeps the copy that was stored and the server's stamp.     *)
NoRow == [copy |-> 0, at |-> 0]

VARIABLES
    room,       \* a group: one shared envelope, changing membership
    sent,       \* the messages the clients composed, by client id
    copies,     \* how many copies of each were sent
    members,    \* the users in chat_members
    troubles,   \* resends, membership changes and so on, for the bound
    left,       \* the first stamp after a user was last removed, or 0
    clock,      \* the server's clock, ticking with every stamp
    rows,       \* the messages table, by client id
    socket,     \* per device: the number of its socket, and its state
    frames,     \* per device: events on their way to the server
    work,       \* handlers between two awaits
    inbox       \* per device: events on their way from the server

store == <<room, sent, copies, members, troubles, left, clock, rows, socket,
           frames, work, inbox>>

Work == [dev: Devices, socket: Nat, event: Event, at: Nat,
         step: {"insert", "publish"}]
Echo == [id: Ids, copy: 1..(MaxMessages + 1), at: Nat]

(* The room, the rows and the work of the server keep their types.         *)
StoreTypeOK ==
    /\ room \in BOOLEAN
    /\ sent \in Seq(Message) /\ Len(sent) <= MaxMessages
    /\ copies \in [Ids -> 0..(MaxMessages + 1)]
    /\ members \subseteq Users
    /\ troubles \in 0..MaxMessages
    /\ left \in [Users -> Nat]
    /\ clock \in Nat
    /\ rows \in [Ids -> [copy: 0..(MaxMessages + 1), at: 0..clock]]
    /\ socket \in [Devices -> [n: Nat, state: {"closed", "opening", "open"}]]
    /\ frames \in [Devices -> Seq(Event)]
    /\ work \subseteq Work
    /\ inbox \in [Devices -> Seq(Echo)]

StoreInit ==
    /\ room \in BOOLEAN
    /\ sent = <<>>
    /\ copies = [i \in Ids |-> 0]
    /\ members = Users
    /\ troubles = 0
    /\ left = [u \in Users |-> 0]
    /\ clock = 0
    /\ rows = [i \in Ids |-> NoRow]
    /\ socket = [d \in Devices |-> [n |-> 0, state |-> "closed"]]
    /\ frames = [d \in Devices |-> <<>>]
    /\ work = {}
    /\ inbox = [d \in Devices |-> <<>>]

(* Whatever is not plain sending and receiving counts as trouble.          *)
TroubleEffort == IF room THEN RoomTrouble ELSE DirectTrouble
Budget == IF room THEN RoomBudget ELSE DirectBudget
EffortOf(kind) == IF kind = "text" THEN TextEffort ELSE ReactionEffort
Effort ==
    FoldLeft(LAMBDA n, m : n + EffortOf(m.kind), TroubleEffort * troubles,
             sent)
Trouble == Effort + TroubleEffort <= Budget /\ troubles' = troubles + 1

Sender(i) == Owner[sent[i].from]
Stored == {i \in Ids : rows[i] # NoRow}
Member(d) == Owner[d] \in members
Connected(d) == socket[d].state = "open"

-----------------------------------------------------------------------------
(* The handler of a socket: websocket_endpoint and persist_chat_message.   *)

(* A socket's loop takes its next frame when it is done with the last one. *)
Idle(d) == \A w \in work : <<w.dev, w.socket>> # <<d, socket[d].n>>
Takes(d) ==
    /\ Connected(d) /\ Idle(d) /\ frames[d] # <<>>
    /\ frames' = [frames EXCEPT ![d] = Tail(@)]

(* The sender is a member: the row is made, stamped by the server.         *)
Begin(d) ==
    /\ Takes(d)
    /\ Member(d)
    /\ clock' = clock + 1
    /\ work' = work \cup {[dev |-> d, socket |-> socket[d].n,
                           event |-> Head(frames[d]), at |-> clock + 1,
                           step |-> "insert"]}
    /\ UNCHANGED <<room, sent, copies, members, troubles, left, rows, socket,
                   inbox>>

(* The membership check, or the rate limiter, answers with an error event. *)
Refuse(d) ==
    /\ Takes(d)
    /\ IF Member(d) THEN Trouble ELSE UNCHANGED troubles
    /\ UNCHANGED <<room, sent, copies, members, left, clock, rows, socket,
                   work, inbox>>

(* Flush and commit.  The unique constraint on the client id turns a       *)
(* second insert into a read of the row that is already there.             *)
Kept(w) ==
    IF rows[w.event.id] = NoRow
    THEN [copy |-> w.event.copy, at |-> w.at]
    ELSE rows[w.event.id]

Insert(w) ==
    /\ w.step = "insert"
    /\ rows' = [rows EXCEPT ![w.event.id] = Kept(w)]
    /\ work' = (work \ {w}) \cup {[w EXCEPT !.step = "publish"]}
    /\ UNCHANGED <<room, sent, copies, members, troubles, left, clock, socket,
                   frames, inbox>>

(* What goes out is read back from the tables: the envelopes that were     *)
(* stored and the members of now, the sender among them.                   *)
EchoOfAttempt(w) == [id |-> w.event.id, copy |-> w.event.copy,
                     at |-> rows[w.event.id].at]
EchoOf(w) == [id |-> w.event.id, copy |-> rows[w.event.id].copy,
              at |-> rows[w.event.id].at]

Addressed(w) == sent[w.event.id].for \cup {w.dev}
Recipients(w) == {d \in Devices : Member(d)}

Publish(w) ==
    /\ w.step = "publish"
    /\ inbox' = [d \in Devices |->
                    IF d \in Recipients(w) /\ Connected(d)
                    THEN Append(inbox[d], EchoOf(w))
                    ELSE inbox[d]]
    /\ work' = work \ {w}
    /\ UNCHANGED <<room, sent, copies, members, troubles, left, clock, rows,
                   socket, frames>>

-----------------------------------------------------------------------------
(* add_chat_member and remove_chat_member: any member of a group may.      *)
AddMember(u) ==
    /\ room /\ members # {} /\ u \notin members
    /\ members' = members \cup {u}
    /\ Trouble
    /\ UNCHANGED <<room, sent, copies, left, clock, rows, socket, frames, work,
                   inbox>>

RemoveMember(u) ==
    /\ room /\ u \in members
    /\ members' = members \ {u}
    /\ Trouble
    /\ left' = [left EXCEPT ![u] = clock + 1]
    /\ UNCHANGED <<room, sent, copies, clock, rows, socket, frames, work,
                   inbox>>

(* get_recent_messages: the newest rows, oldest first, without those that  *)
(* hold no envelope this device could open.                                *)
Newer(i) == {j \in Stored : rows[i].at < rows[j].at}
Recent == {i \in Stored : Cardinality(Newer(i)) < Limit}
HistoryFor(d) ==
    LET page == {i \in Recent : room \/ d \in sent[i].for}
        Place(i) == Cardinality({j \in page : rows[j].at <= rows[i].at})
    IN [k \in 1..Cardinality(page) |-> CHOOSE i \in page : Place(i) = k]

-----------------------------------------------------------------------------
ServerStep ==
    \/ \E d \in Devices : Begin(d) \/ Refuse(d)
    \/ \E w \in work : Insert(w) \/ Publish(w)
    \/ \E u \in Users : AddMember(u) \/ RemoveMember(u)

(* A message sent again after its acknowledgement was lost troubles         *)
(* nothing: every copy the server hands out, now and later, is the one it  *)
(* stored first, with the stamp it stored (chat.py:266-281, ws.py:118-120).*)
FirstCopyKept ==
    \A d \in Devices : \A k \in DOMAIN inbox[d] :
        LET e == inbox[d][k] IN rows[e.id] = [copy |-> e.copy, at |-> e.at]

(* Somebody removed from the chat is sent nothing that the server took     *)
(* after the removal: the recipients are read when a message goes out.     *)
RemovedHearNothing ==
    \A d \in Devices : ~Member(d) =>
        \A k \in DOMAIN inbox[d] : inbox[d][k].at < left[Owner[d]]
=============================================================================
