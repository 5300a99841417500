--------------------------- MODULE TimelineProofs ---------------------------
(***************************************************************************)
(* Proofs about MessageStore under the clients of Timeline, for any users, *)
(* devices, bounds and clocks.  Of the server: the copy of a message that  *)
(* was stored first is the only one it hands out, and who was removed from *)
(* a chat is sent nothing the server took afterwards.  Of the clients: a   *)
(* message has one bubble; own texts are on the screen; what is shown ends *)
(* in the server's order; a followed thread misses nothing; and devices at *)
(* which everything has arrived count the same reactions.                  *)
(*                                                                         *)
(* The invariants, each over those before it: IInv (types, stamps and rows *)
(* of the server), BaseInv (types of the clients, one bubble per message,  *)
(* stamps in the order of sending), Known and Joined (what the devices     *)
(* hold is of what was composed and stored), ThreadInv (the bubbles),      *)
(* CoverInv (the history), LogInv (the reaction log).                      *)
(***************************************************************************)
EXTENDS Timeline, WellFoundedInduction, FiniteSetTheorems, TLAPS

Copy == [id : Ids, copy : Nat \ {0}]
Copied == [id : Ids, copy : Nat \ {0}, at : Nat]
Job == [dev : Devices, socket : Nat, event : Copy, at : Nat, step : {"insert", "publish"}]

\* The server's tables, and what is on its way to and from it.
StoreTypes ==
  /\ copies \in [Ids -> Nat]
  /\ members \subseteq Users
  /\ left \in [Users -> Nat]
  /\ clock \in Nat
  /\ rows \in [Ids -> [copy : Nat, at : Nat]]
  /\ socket \in [Devices -> [n : Nat, state : {"closed", "opening", "open"}]]
  /\ frames \in [Devices -> Seq(Copy)]
  /\ work \subseteq Job
  /\ inbox \in [Devices -> Seq(Copied)]

\* No stamp is later than the clock.
StampsInv ==
  /\ \A i \in Ids : rows[i].at <= clock
  /\ \A w \in work : w.at <= clock
  /\ \A d \in Devices : \A k \in DOMAIN inbox[d] : inbox[d][k].at <= clock

\* A row is there before it is sent out, and holds a copy that was sent.
StoredInv ==
  /\ \A w \in work : w.step = "publish" => rows[w.event.id] # NoRow
  /\ \A i \in Ids : rows[i] # NoRow => rows[i].copy # 0

IInv == StoreTypes /\ StampsInv /\ StoredInv /\ FirstCopyKept /\ RemovedHearNothing

-----------------------------------------------------------------------------

\* The invariant holds at the start.
LEMMA InitInv == Init => IInv
<1> SUFFICES ASSUME Init PROVE IInv
  OBVIOUS
<1>1. /\ copies = [i \in Ids |-> 0] /\ members = Users /\ left = [u \in Users |-> 0]
      /\ clock = 0 /\ rows = [i \in Ids |-> NoRow] /\ frames = [d \in Devices |-> <<>>]
      /\ socket = [d \in Devices |-> [n |-> 0, state |-> "closed"]]
      /\ work = {} /\ inbox = [d \in Devices |-> <<>>]
  BY DEF Init, StoreInit
<1>2. NoRow \in [copy : Nat, at : Nat] /\ NoRow.at = 0
  BY DEF NoRow
<1>3. StoreTypes
  BY <1>1, <1>2 DEF StoreTypes
<1>4. StampsInv /\ StoredInv
  BY <1>1, <1>2 DEF StampsInv, StoredInv
<1>5. FirstCopyKept /\ RemovedHearNothing
  BY <1>1 DEF FirstCopyKept, RemovedHearNothing
<1> QED
  BY <1>3, <1>4, <1>5 DEF IInv

-----------------------------------------------------------------------------
(* The server                                                              *)

\* What waits for a device is a copy with a time.
LEMMA InboxTyped ==
  ASSUME StoreTypes, NEW d \in Devices, NEW k \in DOMAIN inbox[d]
  PROVE  inbox[d][k] \in Copied /\ inbox[d][k].at \in Nat
<1>1. inbox[d] \in Seq(Copied)
  BY DEF StoreTypes
<1>2. inbox[d][k] \in Copied
  BY <1>1
<1> QED
  BY <1>2 DEF Copied

\* The frame the server takes is a copy, and the rest stay frames.
LEMMA FrameTaken ==
  ASSUME StoreTypes, NEW d \in Devices, Takes(d)
  PROVE  Head(frames[d]) \in Copy /\ frames' \in [Devices -> Seq(Copy)]
<1>1. frames[d] \in Seq(Copy) /\ frames[d] # <<>>
  BY DEF StoreTypes, Takes
<1>2. Head(frames[d]) \in Copy /\ Tail(frames[d]) \in Seq(Copy)
  BY <1>1
<1> QED
  BY <1>2 DEF StoreTypes, Takes

\* Begin keeps the invariant.
LEMMA BeginStep ==
  ASSUME IInv, NEW d \in Devices, Begin(d)
  PROVE  IInv'
<1> DEFINE w == [dev |-> d, socket |-> socket[d].n, event |-> Head(frames[d]),
                 at |-> clock + 1, step |-> "insert"]
<1>1. /\ Takes(d) /\ clock' = clock + 1 /\ work' = work \cup {w}
      /\ UNCHANGED <<copies, members, left, rows, socket, inbox>>
  BY DEF Begin
<1>2. /\ StoreTypes /\ clock \in Nat /\ socket[d].n \in Nat
  BY DEF IInv, StoreTypes
<1>3. Head(frames[d]) \in Copy /\ frames' \in [Devices -> Seq(Copy)]
  BY <1>1, <1>2, FrameTaken
<1>4. w \in Job /\ w.at = clock + 1 /\ w.step = "insert"
  BY <1>2, <1>3 DEF Job
<1> HIDE DEF w
<1>5. StoreTypes'
  BY <1>1, <1>2, <1>3, <1>4 DEF StoreTypes
<1>6. StampsInv'
  <2>1. \A i \in Ids : rows[i].at \in Nat
    BY <1>2 DEF StoreTypes
  <2>2. \A v \in work : v.at \in Nat
    BY <1>2 DEF StoreTypes, Job
  <2>3. \A e \in Devices : \A k \in DOMAIN inbox[e] : inbox[e][k].at \in Nat
    BY <1>2, InboxTyped
  <2> QED
    BY <1>1, <1>2, <1>4, <2>1, <2>2, <2>3 DEF IInv, StampsInv
<1>7. StoredInv'
  BY <1>1, <1>4 DEF IInv, StoredInv
<1>8. FirstCopyKept' /\ RemovedHearNothing'
  BY <1>1 DEF IInv, FirstCopyKept, RemovedHearNothing, Member
<1> QED
  BY <1>5, <1>6, <1>7, <1>8 DEF IInv

\* Refuse keeps the invariant.
LEMMA RefuseStep ==
  ASSUME IInv, NEW d \in Devices, Refuse(d)
  PROVE  IInv'
<1>1. /\ Takes(d) /\ UNCHANGED <<copies, members, left, clock, rows, socket, work, inbox>>
  BY DEF Refuse
<1>2. frames' \in [Devices -> Seq(Copy)]
  BY <1>1, FrameTaken DEF IInv
<1> QED
  BY <1>1, <1>2
  DEF IInv, StoreTypes, StampsInv, StoredInv, FirstCopyKept, RemovedHearNothing, Member

\* The unique constraint: a row that is there stays as it is.
LEMMA InsertStep ==
  ASSUME IInv, NEW w \in work, Insert(w)
  PROVE  IInv'
<1> DEFINE i == w.event.id
           v == [w EXCEPT !.step = "publish"]
<1>1. /\ rows' = [rows EXCEPT ![i] = Kept(w)] /\ work' = (work \ {w}) \cup {v}
      /\ UNCHANGED <<copies, members, left, clock, socket, frames, inbox>>
  BY DEF Insert
<1>2. w \in Job /\ StoreTypes
  BY DEF IInv, StoreTypes
<1>3. /\ i \in Ids /\ w.event.copy \in Nat \ {0} /\ w.at \in Nat /\ w.at <= clock
  BY <1>2 DEF IInv, StampsInv, Job, Copy
<1>4. v \in Job /\ v.event = w.event /\ v.at = w.at
  BY <1>2 DEF Job
<1>5. /\ Kept(w) \in [copy : Nat, at : Nat] /\ Kept(w).at <= clock /\ Kept(w).copy # 0
      /\ rows[i] # NoRow => Kept(w) = rows[i]
  <2>1. CASE rows[i] = NoRow
    BY <1>3, <2>1 DEF Kept
  <2>2. CASE rows[i] # NoRow
    BY <1>2, <1>3, <2>2 DEF Kept, IInv, StoreTypes, StampsInv, StoredInv
  <2> QED
    BY <2>1, <2>2
<1>6. Kept(w) # NoRow
  BY <1>5 DEF NoRow
<1> HIDE DEF i, v
<1>7. /\ rows' \in [Ids -> [copy : Nat, at : Nat]] /\ rows'[i] = Kept(w)
      /\ \A j \in Ids : j # i => rows'[j] = rows[j]
  BY <1>1, <1>2, <1>3, <1>5 DEF StoreTypes
<1>8. StoreTypes'
  BY <1>1, <1>2, <1>4, <1>7 DEF StoreTypes
<1>9. StampsInv'
  BY <1>1, <1>3, <1>4, <1>5, <1>7 DEF IInv, StampsInv
<1>10. StoredInv'
  <2>1. \A j \in Ids : rows[j] # NoRow => rows'[j] # NoRow
    BY <1>6, <1>7
  <2>2. \A u \in work : u.event.id \in Ids
    BY <1>2 DEF StoreTypes, Job, Copy
  <2>3. ASSUME NEW u \in work', u.step = "publish" PROVE rows'[u.event.id] # NoRow
    <3>1. CASE u = v
      BY <1>4, <1>6, <1>7, <3>1 DEF i
    <3>2. CASE u \in work
      BY <2>1, <2>2, <2>3, <3>2 DEF IInv, StoredInv
    <3> QED
      BY <1>1, <3>1, <3>2
  <2>4. \A j \in Ids : rows'[j] # NoRow => rows'[j].copy # 0
    BY <1>5, <1>7 DEF IInv, StoredInv
  <2> QED
    BY <2>3, <2>4 DEF StoredInv
<1>11. FirstCopyKept'
  <2> SUFFICES ASSUME NEW d \in Devices, NEW k \in DOMAIN inbox[d]
               PROVE  rows'[inbox[d][k].id] = [copy |-> inbox[d][k].copy, at |-> inbox[d][k].at]
    BY <1>1 DEF FirstCopyKept
  <2> DEFINE e == inbox[d][k]
  <2>1. e \in Copied
    BY <1>2, InboxTyped
  <2>2. rows[e.id] = [copy |-> e.copy, at |-> e.at]
    BY DEF IInv, FirstCopyKept
  <2>3. e.id \in Ids /\ e.copy # 0
    BY <2>1 DEF Copied
  <2> HIDE DEF e
  <2>4. rows[e.id] # NoRow
    BY <2>2, <2>3 DEF NoRow
  <2>5. rows'[e.id] = rows[e.id]
    BY <1>5, <1>7, <2>3, <2>4
  <2> QED
    BY <2>2, <2>5 DEF e
<1>12. RemovedHearNothing'
  BY <1>1 DEF IInv, RemovedHearNothing, Member
<1> QED
  BY <1>8, <1>9, <1>10, <1>11, <1>12 DEF IInv

\* The echo is the row, and goes to the members of now.
LEMMA PublishStep ==
  ASSUME IInv, NEW w \in work, Publish(w)
  PROVE  IInv'
<1> DEFINE e == EchoOf(w)
<1>1. /\ w.step = "publish" /\ work' = work \ {w}
      /\ inbox' = [d \in Devices |-> IF d \in Recipients(w) /\ Connected(d)
                                     THEN Append(inbox[d], e) ELSE inbox[d]]
      /\ UNCHANGED <<copies, members, left, clock, rows, socket, frames>>
  BY DEF Publish
<1>2. /\ StoreTypes /\ clock \in Nat /\ w.event.id \in Ids /\ rows[w.event.id] # NoRow
  BY <1>1 DEF IInv, StoreTypes, StoredInv, Job, Copy
<1>3. /\ rows[w.event.id] \in [copy : Nat, at : Nat] /\ rows[w.event.id].copy # 0
      /\ rows[w.event.id].at <= clock
  BY <1>2 DEF IInv, StoreTypes, StoredInv, StampsInv
<1>4. /\ e \in Copied /\ e.at <= clock /\ e.id = w.event.id
      /\ rows[e.id] = [copy |-> e.copy, at |-> e.at]
  BY <1>2, <1>3 DEF EchoOf, Copied
<1> HIDE DEF e
<1>5. ASSUME NEW d \in Devices
      PROVE  /\ inbox'[d] \in Seq(Copied)
             /\ \A k \in DOMAIN inbox'[d] :
                   \/ k \in DOMAIN inbox[d] /\ inbox'[d][k] = inbox[d][k]
                   \/ inbox'[d][k] = e /\ Member(d)
  <2>1. inbox[d] \in Seq(Copied)
    BY <1>2 DEF StoreTypes
  <2>2. CASE d \in Recipients(w) /\ Connected(d)
    <3>1. inbox'[d] = Append(inbox[d], e) /\ Member(d)
      BY <1>1, <2>2 DEF Recipients
    <3> QED
      BY <1>4, <2>1, <3>1
  <2>3. CASE ~(d \in Recipients(w) /\ Connected(d))
    BY <1>1, <2>1, <2>3
  <2> QED
    BY <2>2, <2>3
<1>6. StoreTypes'
  <2>1. inbox' \in [Devices -> Seq(Copied)]
    BY <1>1, <1>5
  <2> QED
    BY <1>1, <1>2, <2>1 DEF StoreTypes
<1>7. StampsInv'
  BY <1>1, <1>4, <1>5 DEF IInv, StampsInv
<1>8. StoredInv'
  BY <1>1 DEF IInv, StoredInv
<1>9. FirstCopyKept'
  BY <1>1, <1>4, <1>5 DEF IInv, FirstCopyKept
<1>10. RemovedHearNothing'
  BY <1>1, <1>5 DEF IInv, RemovedHearNothing, Member
<1> QED
  BY <1>6, <1>7, <1>8, <1>9, <1>10 DEF IInv

\* Whoever is removed has been sent nothing stamped after the clock of now.
LEMMA MembersStep ==
  ASSUME IInv, StoreAssumption, NEW u \in Users, AddMember(u) \/ RemoveMember(u)
  PROVE  IInv'
<1>1. /\ UNCHANGED <<copies, clock, rows, socket, frames, work, inbox>>
      /\ members' \subseteq Users
  BY DEF AddMember, RemoveMember, IInv, StoreTypes
<1>2. left' = left \/ left' = [left EXCEPT ![u] = clock + 1]
  BY DEF AddMember, RemoveMember
<1>3. StoreTypes'
  <2>1. left \in [Users -> Nat] /\ clock + 1 \in Nat
    BY DEF IInv, StoreTypes
  <2>2. left' \in [Users -> Nat]
    BY <1>2, <2>1
  <2> QED
    BY <1>1, <2>2 DEF IInv, StoreTypes
<1>4. StampsInv' /\ StoredInv' /\ FirstCopyKept'
  BY <1>1 DEF IInv, StampsInv, StoredInv, FirstCopyKept
<1>5. RemovedHearNothing'
  <2> SUFFICES ASSUME NEW d \in Devices, ~Member(d)', NEW k \in DOMAIN inbox[d]
               PROVE  inbox[d][k].at < left'[Owner[d]]
    BY <1>1 DEF RemovedHearNothing
  <2>1. Owner[d] \in Users /\ clock \in Nat /\ left \in [Users -> Nat]
    BY DEF StoreAssumption, IInv, StoreTypes
  <2>2. inbox[d][k].at \in Nat /\ inbox[d][k].at <= clock
    BY InboxTyped DEF IInv, StampsInv
  <2>3. CASE AddMember(u)
    BY <2>3 DEF AddMember, IInv, RemovedHearNothing, Member
  <2>4. CASE RemoveMember(u) /\ Owner[d] = u
    BY <2>1, <2>2, <2>4 DEF RemoveMember
  <2>5. CASE RemoveMember(u) /\ Owner[d] # u
    <3>1. ~Member(d) /\ left'[Owner[d]] = left[Owner[d]]
      BY <2>1, <2>5 DEF RemoveMember, Member
    <3> QED
      BY <3>1 DEF IInv, RemovedHearNothing
  <2> QED
    BY <2>3, <2>4, <2>5
<1> QED
  BY <1>3, <1>4, <1>5 DEF IInv

\* Every step of the server keeps the invariant.
LEMMA ServerInv == ASSUME IInv, ServerStep PROVE IInv'
<1>1. ASSUME NEW d \in Devices, Begin(d) \/ Refuse(d) PROVE IInv'
  BY <1>1, BeginStep, RefuseStep
<1>2. ASSUME NEW w \in work, Insert(w) \/ Publish(w) PROVE IInv'
  BY <1>2, InsertStep, PublishStep
<1>3. ASSUME NEW u \in Users, AddMember(u) \/ RemoveMember(u) PROVE IInv'
  BY <1>3, StoreAssumption, MembersStep
<1> QED
  BY <1>1, <1>2, <1>3 DEF ServerStep

-----------------------------------------------------------------------------
(* The clients                                                             *)

\* A client leaves the tables alone, and takes from what was sent to it.
LEMMA ClientStep ==
  ASSUME IInv, UNCHANGED <<members, left, clock, rows, work>>,
         copies' \in [Ids -> Nat], frames' \in [Devices -> Seq(Copy)],
         socket' \in [Devices -> [n : Nat, state : {"closed", "opening", "open"}]],
         NEW d \in Devices,
         \/ inbox' = inbox
         \/ inbox' = [inbox EXCEPT ![d] = <<>>]
         \/ inbox[d] # <<>> /\ inbox' = [inbox EXCEPT ![d] = Tail(inbox[d])]
  PROVE  IInv'
<1>1. inbox \in [Devices -> Seq(Copied)]
  BY DEF IInv, StoreTypes
<1>2. ASSUME NEW e \in Devices
      PROVE  /\ inbox'[e] \in Seq(Copied)
             /\ \A k \in DOMAIN inbox'[e] :
                   \E j \in DOMAIN inbox[e] : inbox'[e][k] = inbox[e][j]
  <2>1. inbox[e] \in Seq(Copied)
    BY <1>1
  <2>2. CASE inbox'[e] = inbox[e]
    BY <2>1, <2>2
  <2>3. CASE inbox'[e] = <<>>
    <3>1. DOMAIN inbox'[e] = {}
      BY <2>3
    <3>2. inbox'[e] \in Seq(Copied)
      BY <2>3
    <3> QED
      BY <3>1, <3>2
  <2>4. CASE inbox[e] # <<>> /\ inbox'[e] = Tail(inbox[e])
    <3>1. Tail(inbox[e]) \in Seq(Copied)
      BY <2>1, <2>4
    <3>2. ASSUME NEW k \in DOMAIN Tail(inbox[e])
          PROVE  k + 1 \in DOMAIN inbox[e] /\ Tail(inbox[e])[k] = inbox[e][k + 1]
      BY <2>1, <2>4, <3>2
    <3> QED
      BY <2>4, <3>1, <3>2
  <2>5. \/ inbox'[e] = inbox[e] \/ inbox'[e] = <<>>
        \/ inbox[e] # <<>> /\ inbox'[e] = Tail(inbox[e])
    BY <1>1
  <2> QED
    BY <2>2, <2>3, <2>4, <2>5
<1>3. inbox' \in [Devices -> Seq(Copied)]
  <2>1. \/ inbox' = inbox
        \/ \E s \in Seq(Copied) : inbox' = [inbox EXCEPT ![d] = s]
    <3>1. inbox[d] \in Seq(Copied) /\ <<>> \in Seq(Copied)
      BY <1>1
    <3>2. inbox[d] # <<>> => Tail(inbox[d]) \in Seq(Copied)
      BY <3>1
    <3> QED
      BY <3>1, <3>2
  <2> QED
    BY <1>1, <2>1
<1>4. StoreTypes'
  BY <1>3 DEF IInv, StoreTypes
<1>5. StampsInv'
  BY <1>2 DEF IInv, StampsInv
<1>6. StoredInv'
  BY DEF IInv, StoredInv
<1>7. FirstCopyKept'
  <2> SUFFICES ASSUME NEW e \in Devices, NEW k \in DOMAIN inbox'[e]
               PROVE  rows[inbox'[e][k].id]
                         = [copy |-> inbox'[e][k].copy, at |-> inbox'[e][k].at]
    BY DEF FirstCopyKept
  <2>1. PICK j \in DOMAIN inbox[e] : inbox'[e][k] = inbox[e][j]
    BY <1>2
  <2>2. rows[inbox[e][j].id] = [copy |-> inbox[e][j].copy, at |-> inbox[e][j].at]
    BY DEF IInv, FirstCopyKept
  <2> QED
    BY <2>1, <2>2
<1>8. RemovedHearNothing'
  BY <1>2 DEF IInv, RemovedHearNothing, Member
<1> QED
  BY <1>4, <1>5, <1>6, <1>7, <1>8 DEF IInv

\* What a client sends is a copy of one of its messages.
LEMMA TransmitTyped ==
  ASSUME StoreTypes, NEW d \in Devices, NEW i \in Ids, NEW c \in Nat \ {0},
         Transmit(d, [id |-> i, copy |-> c])
  PROVE  frames' \in [Devices -> Seq(Copy)]
<1> DEFINE e == [id |-> i, copy |-> c]
<1>1. e \in Copy /\ frames[d] \in Seq(Copy)
  BY DEF Copy, StoreTypes
<1> HIDE DEF e
<1>2. Append(frames[d], e) \in Seq(Copy)
  BY <1>1
<1>3. frames' = [frames EXCEPT ![d] = IF Connected(d) THEN Append(frames[d], e)
                                      ELSE frames[d]]
  BY DEF Transmit, e
<1> QED
  BY <1>1, <1>2, <1>3 DEF StoreTypes

\* A composed frame is a frame.
LEMMA ComposeTyped ==
  ASSUME StoreTypes, NEW d \in Devices, NEW payload, Compose(d, payload)
  PROVE  copies' \in [Ids -> Nat] /\ frames' \in [Devices -> Seq(Copy)]
<1>1. Len(sent) + 1 \in Ids /\ copies' = [copies EXCEPT ![Len(sent) + 1] = 1]
  BY DEF Compose
<1>2. Transmit(d, [id |-> Len(sent) + 1, copy |-> 1])
  BY DEF Compose
<1>3. copies' \in [Ids -> Nat]
  BY <1>1 DEF StoreTypes
<1>4. 1 \in Nat \ {0}
  OBVIOUS
<1>5. frames' \in [Devices -> Seq(Copy)]
  BY <1>1, <1>2, <1>4, TransmitTyped
<1> QED
  BY <1>3, <1>5

\* Dropping the frames of a device keeps the type.
LEMMA ResetTyped ==
  ASSUME StoreTypes, NEW d \in Devices, frames' = [frames EXCEPT ![d] = <<>>]
  PROVE  frames' \in [Devices -> Seq(Copy)]
  BY DEF StoreTypes

\* The next socket of a device is a socket.
LEMMA NextSocketTyped ==
  ASSUME StoreTypes, NEW d \in Devices, NextSocket(d)
  PROVE  /\ socket' \in [Devices -> [n : Nat, state : {"closed", "opening", "open"}]]
         /\ frames' \in [Devices -> Seq(Copy)]
<1>1. socket[d] \in [n : Nat, state : {"closed", "opening", "open"}]
  BY DEF StoreTypes
<1>2. [n |-> socket[d].n + 1, state |-> "opening"]
         \in [n : Nat, state : {"closed", "opening", "open"}]
  BY <1>1
<1>3. socket' \in [Devices -> [n : Nat, state : {"closed", "opening", "open"}]]
  BY <1>2 DEF StoreTypes, NextSocket
<1> QED
  BY <1>3, ResetTyped DEF NextSocket

\* Every step of a device keeps the invariant.
LEMMA DeviceInv == ASSUME IInv, NEW d \in Devices, Device(d) PROVE IInv'
<1>1. /\ StoreTypes /\ copies \in [Ids -> Nat] /\ frames \in [Devices -> Seq(Copy)]
      /\ socket \in [Devices -> [n : Nat, state : {"closed", "opening", "open"}]]
  BY DEF IInv, StoreTypes
<1>2. CASE Return(d) \/ MergeLive(d) \/ History(d)
  <2>1. UNCHANGED store
    BY <1>2 DEF Return, MergeLive, History, HistoryArrives, DecryptRecord, MergeHistory
  <2> QED
    BY <1>1, <2>1, ClientStep DEF store
<1>3. CASE Leave(d)
  BY <1>1, <1>3, ClientStep DEF Leave
<1>4. CASE SendText(d) \/ ToggleReaction(d)
  <2>1. /\ \E payload : Compose(d, payload)
        /\ UNCHANGED <<members, left, clock, rows, socket, work, inbox>>
    BY <1>4 DEF SendText, ToggleReaction
  <2>2. copies' \in [Ids -> Nat] /\ frames' \in [Devices -> Seq(Copy)]
    BY <1>1, <2>1, ComposeTyped
  <2> QED
    BY <1>1, <2>1, <2>2, ClientStep
<1>5. CASE Resend(d)
  <2>1. PICK i \in Ids : /\ copies' = [copies EXCEPT ![i] = @ + 1]
                         /\ Transmit(d, [id |-> i, copy |-> copies[i] + 1])
    BY <1>5 DEF Resend
  <2>2. copies[i] + 1 \in Nat \ {0}
    BY <1>1
  <2>3. copies' \in [Ids -> Nat] /\ frames' \in [Devices -> Seq(Copy)]
    BY <1>1, <2>1, <2>2, TransmitTyped
  <2>4. UNCHANGED <<members, left, clock, rows, socket, work, inbox>>
    BY <1>5 DEF Resend
  <2> QED
    BY <1>1, <2>3, <2>4, ClientStep
<1>6. CASE Load(d) \/ Refresh(d)
  <2>1. NextSocket(d) /\ UNCHANGED <<copies, members, left, clock, rows, work>>
    BY <1>6 DEF Load, Refresh
  <2>2. /\ socket' \in [Devices -> [n : Nat, state : {"closed", "opening", "open"}]]
        /\ frames' \in [Devices -> Seq(Copy)] /\ inbox' = [inbox EXCEPT ![d] = <<>>]
    BY <1>1, <2>1, NextSocketTyped DEF NextSocket
  <2> QED
    BY <1>1, <2>1, <2>2, ClientStep
<1>7. CASE SocketOpens(d)
  <2>1. /\ socket' \in [Devices -> [n : Nat, state : {"closed", "opening", "open"}]]
        /\ UNCHANGED <<copies, members, left, clock, rows, work, frames, inbox>>
    BY <1>1, <1>7 DEF SocketOpens
  <2> QED
    BY <1>1, <2>1, ClientStep
<1>8. CASE SocketLost(d)
  <2>1. /\ socket' \in [Devices -> [n : Nat, state : {"closed", "opening", "open"}]]
        /\ UNCHANGED <<copies, members, left, clock, rows, work>>
        /\ frames' = [frames EXCEPT ![d] = <<>>] /\ inbox' = [inbox EXCEPT ![d] = <<>>]
    BY <1>1, <1>8 DEF SocketLost
  <2> QED
    BY <1>1, <2>1, ResetTyped, ClientStep
<1>9. CASE Receive(d)
  <2>1. NextEvent(d) /\ UNCHANGED <<copies, members, left, clock, rows, socket, frames, work>>
    BY <1>9 DEF Receive, ReceiveElsewhere, ReceiveEcho, ReceiveLive, NextEvent
  <2>2. inbox[d] # <<>> /\ inbox' = [inbox EXCEPT ![d] = Tail(inbox[d])]
    BY <2>1 DEF NextEvent
  <2> QED
    BY <1>1, <2>1, <2>2, ClientStep
<1> QED
  BY <1>2, <1>3, <1>4, <1>5, <1>6, <1>7, <1>8, <1>9 DEF Device, User, Session

-----------------------------------------------------------------------------

\* The invariant holds throughout.
LEMMA AlwaysIInv == Spec => []IInv
<1>1. IInv /\ [Next]_vars => IInv'
  <2> SUFFICES ASSUME IInv, [Next]_vars PROVE IInv'
    OBVIOUS
  <2>1. CASE UNCHANGED vars
    BY <2>1
    DEF vars, store, IInv, StoreTypes, StampsInv, StoredInv, FirstCopyKept,
        RemovedHearNothing, Member
  <2> QED
    BY <2>1, ServerInv, DeviceInv DEF Next
<1> QED
  BY <1>1, InitInv, PTL DEF Spec

\* However often a message is sent again, and however the handlers of its
\* copies overlap, the server hands out the copy and the stamp it stored
\* first (chat.py:266-281, ws.py:118-120).
THEOREM OneCopyHandedOut == Spec => []FirstCopyKept
<1>1. IInv => FirstCopyKept
  BY DEF IInv
<1> QED
  BY <1>1, AlwaysIInv, PTL

\* Nothing the server takes after a removal reaches who was removed, though
\* the sender encrypted for them and the handler began before it: the members
\* are read when a message goes out (chat.py:148-153, ws.py:115-140).
THEOREM NothingAfterRemoval == Spec => []RemovedHearNothing
<1>1. IInv => RemovedHearNothing
  BY DEF IInv
<1> QED
  BY <1>1, AlwaysIInv, PTL

-----------------------------------------------------------------------------
(* Induction and folds                                                     *)

\* A nonempty set of numbers has a least one.
LEMMA LeastNumber ==
  ASSUME NEW S, S \subseteq Nat, S # {}
  PROVE  \E n \in S : \A m \in S : n <= m
<1> DEFINE R == OpToRel(<, Nat)
<1>1. IsWellFoundedOn(R, Nat)
  BY NatLessThanWellFounded
<1>2. \A x, y \in Nat : x < y => <<x, y>> \in R
  BY DEF OpToRel
<1> HIDE DEF R
<1>3. PICK n \in S : \A m \in S : ~(<<m, n>> \in R)
  BY <1>1, WFMin
<1>4. \A m \in S : ~(m < n) /\ m \in Nat /\ n \in Nat
  BY <1>2, <1>3
<1> QED
  BY <1>3, <1>4

\* Induction up to N, for the numbers of a set.
LEMMA CountUp ==
  ASSUME NEW N \in Nat, NEW G, 0 \in G, \A n \in 1..N : n - 1 \in G => n \in G
  PROVE  N \in G
<1> SUFFICES ASSUME N \notin G PROVE FALSE
  OBVIOUS
<1> DEFINE S == {n \in 0..N : n \notin G}
<1>0. S \subseteq Nat /\ N \in S
  OBVIOUS
<1> HIDE DEF S
<1>1. PICK n \in S : \A m \in S : n <= m
  BY <1>0, LeastNumber
<1> USE DEF S
<1>2. n \in 1..N /\ n - 1 \in 0..N /\ n - 1 \notin S /\ n \notin G
  BY <1>1
<1>3. n - 1 \in G
  BY <1>2
<1> QED
  BY <1>2, <1>3

\* drawn[n] is s with the first n results drawn onto it.
IsDrawing(drawn, s, results, N) ==
  drawn = [n \in 0..N |-> IF n = 0 THEN s ELSE DrawOne(drawn[n - 1], results[n])]

\* What the recursive definition in DrawOnto says of it.
LEMMA DrawOntoSteps ==
  ASSUME NEW s, NEW results, Len(results) \in Nat
  PROVE  \E drawn : /\ drawn[0] = s /\ drawn[Len(results)] = DrawOnto(s, results)
                    /\ \A n \in 1..Len(results) : drawn[n] = DrawOne(drawn[n - 1], results[n])
<1> DEFINE Len0 == Len(results)
           G == {N \in Nat : \E drawn : IsDrawing(drawn, s, results, N)}
<1>1. 0 \in G
  <2>1. IsDrawing([n \in 0..0 |-> s], s, results, 0)
    BY DEF IsDrawing
  <2> QED
    BY <2>1
<1>2. ASSUME NEW N \in 1..Len0, N - 1 \in G PROVE N \in G
  <2>1. PICK f : IsDrawing(f, s, results, N - 1)
    BY <1>2
  <2> DEFINE g == [n \in 0..N |-> IF n = N THEN DrawOne(f[N - 1], results[N]) ELSE f[n]]
  <2>2. \A n \in 0..(N - 1) : f[n] = IF n = 0 THEN s ELSE DrawOne(f[n - 1], results[n])
    BY <2>1 DEF IsDrawing
  <2>3. ASSUME NEW n \in 0..N
        PROVE  g[n] = IF n = 0 THEN s ELSE DrawOne(g[n - 1], results[n])
    <3>1. CASE n = N
      BY <3>1
    <3>2. CASE n # N
      BY <3>2, <2>2
    <3> QED
      BY <3>1, <3>2
  <2> HIDE DEF g
  <2>4. g = [n \in 0..N |-> g[n]]
    BY DEF g
  <2>5. IsDrawing(g, s, results, N)
    BY <2>3, <2>4 DEF IsDrawing
  <2> QED
    BY <2>5
<1> HIDE DEF G
<1>3. Len0 \in G
  BY <1>1, <1>2, CountUp
<1>4. PICK drawn : drawn = CHOOSE f : IsDrawing(f, s, results, Len0)
  OBVIOUS
<1>5. IsDrawing(drawn, s, results, Len0)
  BY <1>3, <1>4 DEF G
<1>6. DrawOnto(s, results) = drawn[Len0]
  BY <1>4 DEF DrawOnto, IsDrawing
<1>7. drawn[0] = s
  BY <1>5 DEF IsDrawing
<1>8. \A n \in 1..Len0 : drawn[n] = DrawOne(drawn[n - 1], results[n])
  BY <1>5 DEF IsDrawing
<1> QED
  BY <1>6, <1>7, <1>8

\* log[n] is s with the reactions among the first n results.
IsReplay(log, s, results, N) ==
  log = [n \in 0..N |-> IF n = 0 THEN s ELSE ReactOne(log[n - 1], results[n])]

\* What the recursive definition in ReactAll says of it.
LEMMA ReactAllSteps ==
  ASSUME NEW s, NEW results, Len(results) \in Nat
  PROVE  \E log : /\ log[0] = s /\ log[Len(results)] = ReactAll(s, results)
                  /\ \A n \in 1..Len(results) : log[n] = ReactOne(log[n - 1], results[n])
<1> DEFINE Len0 == Len(results)
           G == {N \in Nat : \E log : IsReplay(log, s, results, N)}
<1>1. 0 \in G
  <2>1. IsReplay([n \in 0..0 |-> s], s, results, 0)
    BY DEF IsReplay
  <2> QED
    BY <2>1
<1>2. ASSUME NEW N \in 1..Len0, N - 1 \in G PROVE N \in G
  <2>1. PICK f : IsReplay(f, s, results, N - 1)
    BY <1>2
  <2> DEFINE g == [n \in 0..N |-> IF n = N THEN ReactOne(f[N - 1], results[N]) ELSE f[n]]
  <2>2. \A n \in 0..(N - 1) : f[n] = IF n = 0 THEN s ELSE ReactOne(f[n - 1], results[n])
    BY <2>1 DEF IsReplay
  <2>3. ASSUME NEW n \in 0..N
        PROVE  g[n] = IF n = 0 THEN s ELSE ReactOne(g[n - 1], results[n])
    <3>1. CASE n = N
      BY <3>1
    <3>2. CASE n # N
      BY <3>2, <2>2
    <3> QED
      BY <3>1, <3>2
  <2> HIDE DEF g
  <2>4. g = [n \in 0..N |-> g[n]]
    BY DEF g
  <2>5. IsReplay(g, s, results, N)
    BY <2>3, <2>4 DEF IsReplay
  <2> QED
    BY <2>5
<1> HIDE DEF G
<1>3. Len0 \in G
  BY <1>1, <1>2, CountUp
<1>4. PICK log : log = CHOOSE f : IsReplay(f, s, results, Len0)
  OBVIOUS
<1>5. IsReplay(log, s, results, Len0)
  BY <1>3, <1>4 DEF G
<1>6. ReactAll(s, results) = log[Len0]
  BY <1>4 DEF ReactAll, IsReplay
<1>7. log[0] = s
  BY <1>5 DEF IsReplay
<1>8. \A n \in 1..Len0 : log[n] = ReactOne(log[n - 1], results[n])
  BY <1>5 DEF IsReplay
<1> QED
  BY <1>6, <1>7, <1>8

-----------------------------------------------------------------------------
(* Sorting                                                                 *)

IsTotalOrder(S, R) ==
  /\ \A x, y \in S : <<x, y>> \in R \/ <<y, x>> \in R
  /\ \A x, y \in S : <<x, y>> \in R /\ <<y, x>> \in R => x = y
  /\ \A x, y, z \in S : <<x, y>> \in R /\ <<y, z>> \in R => <<x, z>> \in R

PlacesIn(S, R) == [x \in S |-> Cardinality({y \in S : <<y, x>> \in R})]

\* In a finite total order the places of the elements are 1, 2, 3 and so on.
LEMMA Places ==
  ASSUME NEW S, IsFiniteSet(S), NEW R, IsTotalOrder(S, R),
         NEW Place, Place = PlacesIn(S, R)
  PROVE  /\ Place \in [S -> 1..Cardinality(S)]
         /\ \A x, y \in S : Place[x] <= Place[y] <=> <<x, y>> \in R
         /\ \A x, y \in S : Place[x] = Place[y] => x = y
         /\ \A k \in 1..Cardinality(S) : \E x \in S : Place[x] = k
<1>0. /\ Place = [x \in S |-> Cardinality({y \in S : <<y, x>> \in R})]
      /\ \A x, y \in S : <<x, y>> \in R \/ <<y, x>> \in R
      /\ \A x, y \in S : <<x, y>> \in R /\ <<y, x>> \in R => x = y
      /\ \A x, y, z \in S : <<x, y>> \in R /\ <<y, z>> \in R => <<x, z>> \in R
  BY DEF PlacesIn, IsTotalOrder
<1> DEFINE Down(x) == {y \in S : <<y, x>> \in R}
<1>1. Cardinality(S) \in Nat
  BY FS_CardinalityType
<1>2. ASSUME NEW x \in S
      PROVE  /\ IsFiniteSet(Down(x)) /\ Place[x] = Cardinality(Down(x))
             /\ Place[x] \in 1..Cardinality(S)
  <2>1. x \in Down(x) /\ Down(x) \subseteq S
    BY <1>0
  <2>2. IsFiniteSet(Down(x)) /\ Cardinality(Down(x)) <= Cardinality(S)
    BY <2>1, FS_Subset
  <2>3. Cardinality(Down(x)) \in Nat /\ Cardinality(Down(x)) # 0
    BY <2>1, <2>2, FS_CardinalityType, FS_EmptySet
  <2>4. Place[x] = Cardinality(Down(x))
    BY <1>0
  <2> HIDE DEF Down
  <2> QED
    BY <1>1, <2>2, <2>3, <2>4
<1>3. ASSUME NEW x \in S, NEW y \in S, <<x, y>> \in R, x # y PROVE Place[x] < Place[y]
  <2>1. Down(x) \subseteq Down(y) /\ y \in Down(y) /\ y \notin Down(x)
    BY <1>0, <1>3
  <2> HIDE DEF Down
  <2>2. Cardinality(Down(x)) <= Cardinality(Down(y))
        /\ Cardinality(Down(x)) # Cardinality(Down(y))
    BY <1>2, <2>1, FS_Subset
  <2> QED
    BY <1>1, <1>2, <2>2
<1> HIDE DEF Down
<1>4. \A x, y \in S : Place[x] <= Place[y] <=> <<x, y>> \in R
  <2> SUFFICES ASSUME NEW x \in S, NEW y \in S
               PROVE  Place[x] <= Place[y] <=> <<x, y>> \in R
    OBVIOUS
  <2>1. Place[x] \in Nat /\ Place[y] \in Nat
    BY <1>1, <1>2
  <2>2. CASE x = y
    BY <1>0, <2>1, <2>2
  <2>3. CASE x # y
    <3>1. CASE <<x, y>> \in R
      BY <1>3, <2>1, <2>3, <3>1
    <3>2. CASE <<x, y>> \notin R
      <4>1. <<y, x>> \in R
        BY <1>0, <3>2
      <4>2. Place[y] < Place[x]
        BY <1>3, <2>3, <4>1
      <4> QED
        BY <2>1, <3>2, <4>2
    <3> QED
      BY <3>1, <3>2
  <2> QED
    BY <2>2, <2>3
<1>5. \A x, y \in S : Place[x] = Place[y] => x = y
  <2> SUFFICES ASSUME NEW x \in S, NEW y \in S, Place[x] = Place[y]
               PROVE  x = y
    OBVIOUS
  <2>1. Place[x] <= Place[y] /\ Place[y] <= Place[x]
    BY <1>1, <1>2
  <2>2. <<x, y>> \in R /\ <<y, x>> \in R
    BY <1>4, <2>1
  <2> QED
    BY <1>0, <2>2
<1>6. Place \in [S -> 1..Cardinality(S)]
  BY <1>0, <1>2
<1>7. Place \in Injection(S, 1..Cardinality(S))
  BY <1>5, <1>6 DEF Injection, IsInjective
<1>8. IsFiniteSet(1..Cardinality(S)) /\ Cardinality(1..Cardinality(S)) = Cardinality(S)
  BY <1>1, FS_Interval
<1>9. Place \in Surjection(S, 1..Cardinality(S))
  BY <1>7, <1>8, FS_Injection
<1>10. \A k \in 1..Cardinality(S) : \E x \in S : Place[x] = k
  BY <1>9 DEF Surjection
<1> QED
  BY <1>4, <1>5, <1>6, <1>10

\* Array.sort: the same elements, by their time, equals in the order they were in.
LEMMA BySentAtSorts ==
  ASSUME NEW A, NEW s \in Seq(A), \A k \in DOMAIN s : s[k].at \in Nat
  PROVE  /\ BySentAt(s) \in Seq(A) /\ DOMAIN BySentAt(s) = DOMAIN s
         /\ \E p \in [DOMAIN s -> DOMAIN s] :
              /\ \A k \in DOMAIN s : BySentAt(s)[k] = s[p[k]]
              /\ \A j \in DOMAIN s : \E k \in DOMAIN s : p[k] = j
              /\ \A k, l \in DOMAIN s : p[k] = p[l] => k = l
              /\ \A k, l \in DOMAIN s : k < l =>
                   \/ s[p[k]].at < s[p[l]].at
                   \/ s[p[k]].at = s[p[l]].at /\ p[k] < p[l]
<1> DEFINE D == DOMAIN s
           Upto(i, j) == s[i].at < s[j].at \/ (s[i].at = s[j].at /\ i <= j)
           R == {q \in D \X D : Upto(q[1], q[2])}
           Place == PlacesIn(D, R)
           p == [k \in D |-> CHOOSE j \in D : Place[j] = k]
<1>1. Len(s) \in Nat /\ D = 1..Len(s)
  OBVIOUS
<1>2. IsFiniteSet(D) /\ Cardinality(D) = Len(s)
  BY <1>1, FS_Interval
<1>3. \A i, j \in D : <<i, j>> \in R <=> Upto(i, j)
  OBVIOUS
<1>4. \A j \in D : j \in Nat /\ s[j].at \in Nat
  BY <1>1
<1>5. IsTotalOrder(D, R)
  <2> HIDE DEF R
  <2> QED
    BY <1>3, <1>4 DEF IsTotalOrder
<1>6. BySentAt(s) = [k \in D |-> s[p[k]]]
  <2>1. ASSUME NEW j \in D
        PROVE  Place[j] = Cardinality({i \in D : Upto(i, j)})
    <3>1. {i \in D : <<i, j>> \in R} = {i \in D : Upto(i, j)}
      BY <1>3
    <3>2. Place[j] = Cardinality({i \in D : <<i, j>> \in R})
      BY DEF PlacesIn
    <3> QED
      BY <3>1, <3>2
  <2> DEFINE P(j) == Cardinality({i \in D : Upto(i, j)})
  <2>2. \A j \in D : Place[j] = P(j)
    BY <2>1
  <2>3. BySentAt(s) = [k \in D |-> s[CHOOSE j \in D : P(j) = k]]
    BY DEF BySentAt
  <2> HIDE DEF P, Place
  <2>4. \A k \in D : (CHOOSE j \in D : P(j) = k) = (CHOOSE j \in D : Place[j] = k)
    BY <2>2
  <2> QED
    BY <2>3, <2>4
<1>7. /\ Place \in [D -> 1..Cardinality(D)]
      /\ \A i, j \in D : Place[i] <= Place[j] <=> <<i, j>> \in R
      /\ \A i, j \in D : Place[i] = Place[j] => i = j
      /\ \A k \in 1..Cardinality(D) : \E j \in D : Place[j] = k
  <2>1. Place = PlacesIn(D, R)
    OBVIOUS
  <2> HIDE DEF R, Place, D
  <2> QED
    BY <1>2, <1>5, <2>1, Places
<1> HIDE DEF Place
<1>8. \A k \in D : p[k] \in D /\ Place[p[k]] = k
  <2> SUFFICES ASSUME NEW k \in D PROVE p[k] \in D /\ Place[p[k]] = k
    OBVIOUS
  <2>0. k \in 1..Cardinality(D)
    BY <1>1, <1>2
  <2>1. \E j \in D : Place[j] = k
    BY <1>7, <2>0
  <2>2. p[k] = CHOOSE j \in D : Place[j] = k
    OBVIOUS
  <2> HIDE DEF p
  <2> QED
    BY <2>1, <2>2
<1>9. p \in [D -> D]
  BY <1>8
<1> HIDE DEF p
<1>10. \A j \in D : \E k \in D : p[k] = j
  <2> SUFFICES ASSUME NEW j \in D PROVE \E k \in D : p[k] = j
    OBVIOUS
  <2>1. Place[j] \in D
    BY <1>1, <1>2, <1>7
  <2>2. p[Place[j]] = j
    BY <1>7, <1>8, <2>1
  <2> QED
    BY <2>1, <2>2
<1>11. \A k, l \in D : p[k] = p[l] => k = l
  BY <1>8
<1>12. ASSUME NEW k \in D, NEW l \in D, k < l
       PROVE  s[p[k]].at < s[p[l]].at \/ (s[p[k]].at = s[p[l]].at /\ p[k] < p[l])
  <2>1. <<p[k], p[l]>> \in R /\ p[k] # p[l]
    BY <1>1, <1>7, <1>8, <1>12
  <2>2. Upto(p[k], p[l])
    BY <1>3, <1>8, <2>1
  <2> QED
    BY <1>4, <1>8, <2>1, <2>2
<1>13. BySentAt(s) \in Seq(A) /\ DOMAIN BySentAt(s) = D
  <2>1. \A k \in D : s[p[k]] \in A
    BY <1>8
  <2> QED
    BY <1>1, <1>6, <2>1
<1>14. \A k \in D : BySentAt(s)[k] = s[p[k]]
  BY <1>6
<1> QED
  BY <1>9, <1>10, <1>11, <1>12, <1>13, <1>14

-----------------------------------------------------------------------------
(* Lists of bubbles                                                        *)

Lists(s, i) == \E k \in DOMAIN s : s[k].id = i
Distinct(s) == \A k, l \in DOMAIN s : s[k].id = s[l].id => k = l
InOrder(s) == \A k, l \in DOMAIN s : k < l => s[k].at <= s[l].at

\* The bubbles of t are those of s.
SameBubbles(s, t) ==
  /\ \A k \in DOMAIN t : \E j \in DOMAIN s : t[k] = s[j]
  /\ \A j \in DOMAIN s : \E k \in DOMAIN t : t[k] = s[j]

\* Sorting a thread puts its bubbles in order and changes none.
LEMMA SortedThread ==
  ASSUME NEW s \in Seq(Bubble)
  PROVE  /\ BySentAt(s) \in Seq(Bubble) /\ SameBubbles(s, BySentAt(s))
         /\ InOrder(BySentAt(s))
         /\ Distinct(s) => Distinct(BySentAt(s))
<1>1. \A k \in DOMAIN s : s[k] \in Bubble
  OBVIOUS
<1>2. \A k \in DOMAIN s : s[k].at \in Nat
  BY <1>1 DEF Bubble
<1> DEFINE t == BySentAt(s)
<1>3. PICK p \in [DOMAIN s -> DOMAIN s] :
        /\ t \in Seq(Bubble) /\ DOMAIN t = DOMAIN s
        /\ \A k \in DOMAIN s : t[k] = s[p[k]]
        /\ \A j \in DOMAIN s : \E k \in DOMAIN s : p[k] = j
        /\ \A k, l \in DOMAIN s : p[k] = p[l] => k = l
        /\ \A k, l \in DOMAIN s : k < l =>
             \/ s[p[k]].at < s[p[l]].at
             \/ s[p[k]].at = s[p[l]].at /\ p[k] < p[l]
  BY <1>2, BySentAtSorts
<1> HIDE DEF t
<1>4. SameBubbles(s, t)
  BY <1>3 DEF SameBubbles
<1>5. InOrder(t)
  <2> SUFFICES ASSUME NEW k \in DOMAIN t, NEW l \in DOMAIN t, k < l PROVE t[k].at <= t[l].at
    BY DEF InOrder
  <2>1. k \in DOMAIN s /\ l \in DOMAIN s
    BY <1>3
  <2>2. s[p[k]].at < s[p[l]].at \/ s[p[k]].at = s[p[l]].at
    BY <1>3, <2>1
  <2>3. s[p[k]].at \in Nat /\ s[p[l]].at \in Nat
    BY <1>2, <1>3, <2>1
  <2>4. t[k] = s[p[k]] /\ t[l] = s[p[l]]
    BY <1>3, <2>1
  <2> QED
    BY <2>2, <2>3, <2>4
<1>6. ASSUME Distinct(s) PROVE Distinct(t)
  <2> SUFFICES ASSUME NEW k \in DOMAIN t, NEW l \in DOMAIN t, t[k].id = t[l].id PROVE k = l
    BY DEF Distinct
  <2>1. k \in DOMAIN s /\ l \in DOMAIN s
    BY <1>3
  <2>2. p[k] \in DOMAIN s /\ p[l] \in DOMAIN s /\ s[p[k]].id = s[p[l]].id
    BY <1>3, <2>1
  <2>3. p[k] = p[l]
    BY <1>6, <2>2 DEF Distinct
  <2> QED
    BY <1>3, <2>1, <2>3
<1> QED
  BY <1>3, <1>4, <1>5, <1>6 DEF t

\* What Find returns when it looks for the bubble of message n.
PlaceOf(s, n) ==
  LET hits == {k \in DOMAIN s : s[k].id = n}
  IN  IF hits = {} THEN 0 ELSE CHOOSE k \in hits : \A j \in hits : k <= j

\* Find returns 0 when nothing matches, and otherwise the place of a match.
LEMMA FoundAt ==
  ASSUME NEW s, DOMAIN s \subseteq Nat \ {0}, NEW n, NEW i, i = PlaceOf(s, n)
  PROVE  /\ i = 0 <=> ~Lists(s, n)
         /\ i # 0 => i \in DOMAIN s /\ s[i].id = n
<1> DEFINE hits == {k \in DOMAIN s : s[k].id = n}
<1>1. i = IF hits = {} THEN 0 ELSE CHOOSE k \in hits : \A j \in hits : k <= j
  BY DEF PlaceOf
<1>2. hits = {} <=> ~Lists(s, n)
  BY DEF Lists
<1>3. CASE hits = {}
  BY <1>1, <1>2, <1>3
<1>4. CASE hits # {}
  <2>1. hits \subseteq Nat
    OBVIOUS
  <2> HIDE DEF hits
  <2>2. \E k \in hits : \A j \in hits : k <= j
    BY <1>4, <2>1, LeastNumber
  <2>3. i \in hits
    BY <1>1, <1>4, <2>2
  <2> QED
    BY <1>2, <1>4, <2>3 DEF hits
<1> QED
  BY <1>3, <1>4

\* mergeMessages: b takes the place of the bubble of its message, or is new and
\* everything is put in order.
LEMMA Merged ==
  ASSUME NEW s \in Seq(Bubble), Distinct(s), NEW b \in Bubble, NEW t, t = mergeMessages(s, b)
  PROVE  /\ t \in Seq(Bubble) /\ Distinct(t)
         /\ \A k \in DOMAIN t : t[k] = b \/ \E j \in DOMAIN s : t[k] = s[j] /\ s[j].id # b.id
         /\ \E k \in DOMAIN t : t[k] = b
         /\ \A j \in DOMAIN s : s[j].id # b.id => \E k \in DOMAIN t : t[k] = s[j]
         /\ ~Lists(s, b.id) => InOrder(t)
         /\ \A j \in DOMAIN s : s[j].id = b.id /\ s[j].at = b.at /\ InOrder(s) => InOrder(t)
<1> DEFINE i == Find(s, LAMBDA a : SameMessage(a, b))
<1>1. t = IF i = 0 THEN BySentAt(Append(s, b)) ELSE [s EXCEPT ![i] = b]
  BY DEF mergeMessages, MergeBy
<1>2. /\ i = 0 <=> ~Lists(s, b.id)
      /\ i # 0 => i \in DOMAIN s /\ s[i].id = b.id
  <2>1. DOMAIN s \subseteq Nat \ {0}
    OBVIOUS
  <2>2. i = PlaceOf(s, b.id)
    BY DEF Find, SameMessage, PlaceOf
  <2> HIDE DEF i
  <2> QED
    BY <2>1, <2>2, FoundAt
<1> HIDE DEF i
<1>3. CASE i = 0
  <2> DEFINE u == Append(s, b)
  <2>1. /\ u \in Seq(Bubble) /\ DOMAIN u = 1..(Len(s) + 1) /\ DOMAIN s = 1..Len(s)
        /\ Len(s) \in Nat /\ u[Len(s) + 1] = b /\ \A k \in DOMAIN s : u[k] = s[k]
    OBVIOUS
  <2> HIDE DEF u
  <2>2. \A k \in DOMAIN s : s[k].id # b.id
    BY <1>2, <1>3 DEF Lists
  <2>3. Distinct(u)
    <3> SUFFICES ASSUME NEW k \in DOMAIN u, NEW l \in DOMAIN u, u[k].id = u[l].id PROVE k = l
      BY DEF Distinct
    <3>1. k \in DOMAIN s \/ k = Len(s) + 1
      BY <2>1
    <3>2. l \in DOMAIN s \/ l = Len(s) + 1
      BY <2>1
    <3> QED
      BY <2>1, <2>2, <3>1, <3>2 DEF Distinct
  <2>4. t = BySentAt(u)
    BY <1>1, <1>3 DEF u
  <2>5. t \in Seq(Bubble) /\ SameBubbles(u, t) /\ InOrder(t) /\ Distinct(t)
    BY <2>1, <2>3, <2>4, SortedThread
  <2>6. \A k \in DOMAIN t : t[k] = b \/ \E j \in DOMAIN s : t[k] = s[j] /\ s[j].id # b.id
    <3> SUFFICES ASSUME NEW k \in DOMAIN t
                 PROVE  t[k] = b \/ \E j \in DOMAIN s : t[k] = s[j] /\ s[j].id # b.id
      OBVIOUS
    <3>1. PICK j \in DOMAIN u : t[k] = u[j]
      BY <2>5 DEF SameBubbles
    <3>2. j \in DOMAIN s \/ j = Len(s) + 1
      BY <2>1
    <3> QED
      BY <2>1, <2>2, <3>1, <3>2
  <2>7. \E k \in DOMAIN t : t[k] = b
    <3>1. Len(s) + 1 \in DOMAIN u
      BY <2>1
    <3> QED
      BY <2>1, <2>5, <3>1 DEF SameBubbles
  <2>8. \A j \in DOMAIN s : \E k \in DOMAIN t : t[k] = s[j]
    <3>1. \A j \in DOMAIN s : j \in DOMAIN u
      BY <2>1
    <3> QED
      BY <2>1, <2>5, <3>1 DEF SameBubbles
  <2> QED
    BY <2>2, <2>5, <2>6, <2>7, <2>8
<1>4. CASE i # 0
  <2>1. /\ i \in DOMAIN s /\ s[i].id = b.id /\ t \in Seq(Bubble) /\ DOMAIN t = DOMAIN s
        /\ t[i] = b /\ \A k \in DOMAIN s : k # i => t[k] = s[k]
    BY <1>1, <1>2, <1>4
  <2>2. Lists(s, b.id)
    BY <2>1 DEF Lists
  <2>3. \A k \in DOMAIN s : s[k].id = b.id => k = i
    BY <2>1 DEF Distinct
  <2>4. \A k \in DOMAIN s : t[k].id = s[k].id
    BY <2>1
  <2>5. Distinct(t)
    BY <2>1, <2>4 DEF Distinct
  <2>6. ASSUME NEW j \in DOMAIN s, s[j].id = b.id, s[j].at = b.at, InOrder(s)
        PROVE  InOrder(t)
    <3>1. \A k \in DOMAIN s : t[k].at = s[k].at
      BY <2>1, <2>3, <2>6
    <3> QED
      BY <2>1, <2>6, <3>1 DEF InOrder
  <2> QED
    BY <2>1, <2>2, <2>3, <2>5, <2>6
<1> QED
  BY <1>3, <1>4

\* acknowledgeMessage: the bubble of the message is confirmed and takes the server's
\* time, and everything is put in order.
Confirmed(a, e) == [a EXCEPT !.server = TRUE, !.state = "sent", !.at = e.at]

\* What acknowledgeMessage makes of a thread: no bubble is added or lost, only the one
\* acknowledged is changed, and the thread is put in order.
LEMMA Acknowledged ==
  ASSUME NEW s \in Seq(Bubble), Distinct(s), NEW e, e.id \in Ids, e.at \in Nat,
         NEW t, t = acknowledgeMessage(s, e)
  PROVE  /\ t \in Seq(Bubble) /\ Distinct(t)
         /\ ~Lists(s, e.id) => t = s
         /\ Lists(s, e.id) => InOrder(t)
         /\ \A k \in DOMAIN t : \E j \in DOMAIN s :
              \/ t[k] = s[j] /\ s[j].id # e.id
              \/ t[k] = Confirmed(s[j], e) /\ s[j].id = e.id
         /\ \A i : Lists(s, i) => Lists(t, i)
<1> DEFINE i == Find(s, LAMBDA a : a.id = e.id)
           u == AckInPlace(s, e)
<1>1. u = IF i = 0 THEN s ELSE [s EXCEPT ![i] = Confirmed(s[i], e)]
  BY DEF AckInPlace, Confirmed
<1>2. /\ i = 0 <=> ~Lists(s, e.id)
      /\ i # 0 => i \in DOMAIN s /\ s[i].id = e.id
  <2>1. DOMAIN s \subseteq Nat \ {0}
    OBVIOUS
  <2>2. i = PlaceOf(s, e.id)
    BY DEF Find, PlaceOf
  <2> HIDE DEF i
  <2> QED
    BY <2>1, <2>2, FoundAt
<1>3. t = IF Lists(s, e.id) THEN BySentAt(u) ELSE s
  BY DEF acknowledgeMessage, Lists
<1> HIDE DEF i, u
<1>4. CASE ~Lists(s, e.id)
  <2>1. \A k \in DOMAIN s : s[k].id # e.id
    BY <1>4 DEF Lists
  <2> QED
    BY <1>3, <1>4, <2>1
<1>5. CASE Lists(s, e.id)
  <2>1. i \in DOMAIN s /\ s[i].id = e.id /\ u = [s EXCEPT ![i] = Confirmed(s[i], e)]
    BY <1>1, <1>2, <1>5
  <2>2. s[i] \in Bubble
    BY <2>1
  <2>3. Confirmed(s[i], e) \in Bubble /\ Confirmed(s[i], e).id = e.id
    BY <2>1, <2>2 DEF Confirmed, Bubble, States
  <2>4. /\ u \in Seq(Bubble) /\ DOMAIN u = DOMAIN s /\ u[i] = Confirmed(s[i], e)
        /\ \A k \in DOMAIN s : k # i => u[k] = s[k]
    BY <2>1, <2>3
  <2>5. \A k \in DOMAIN s : u[k].id = s[k].id
    BY <2>1, <2>3, <2>4
  <2>6. Distinct(u)
    BY <2>4, <2>5 DEF Distinct
  <2>7. t \in Seq(Bubble) /\ SameBubbles(u, t) /\ InOrder(t) /\ Distinct(t)
    BY <1>3, <1>5, <2>4, <2>6, SortedThread
  <2>8. \A k \in DOMAIN s : k # i => s[k].id # e.id
    BY <2>1 DEF Distinct
  <2>9. \A k \in DOMAIN t : \E j \in DOMAIN s :
          \/ t[k] = s[j] /\ s[j].id # e.id
          \/ t[k] = Confirmed(s[j], e) /\ s[j].id = e.id
    <3> SUFFICES ASSUME NEW k \in DOMAIN t
                 PROVE  \E j \in DOMAIN s :
                          \/ t[k] = s[j] /\ s[j].id # e.id
                          \/ t[k] = Confirmed(s[j], e) /\ s[j].id = e.id
      OBVIOUS
    <3>1. PICK j \in DOMAIN s : t[k] = u[j]
      BY <2>4, <2>7 DEF SameBubbles
    <3> QED
      BY <2>1, <2>4, <2>8, <3>1
  <2>10. ASSUME NEW n, Lists(s, n) PROVE Lists(t, n)
    <3>1. PICK j \in DOMAIN s : s[j].id = n
      BY <2>10 DEF Lists
    <3>2. PICK k \in DOMAIN t : t[k] = u[j]
      BY <2>4, <2>7, <3>1 DEF SameBubbles
    <3>3. u[j].id = n
      BY <2>5, <3>1
    <3> QED
      BY <3>2, <3>3 DEF Lists
  <2> QED
    BY <1>5, <2>7, <2>9, <2>10
<1> QED
  BY <1>4, <1>5

-----------------------------------------------------------------------------
(* What the devices show                                                   *)

Sent == 1..Len(sent)
Own(d, i) == sent[i].from = d
IsText(i) == sent[i].kind = "text"
Theirs(d, i) == Sender(i) # Owner[d]
NeverLeft(d) == left[Owner[d]] = 0
Steady(d) == intact[d] /\ NeverLeft(d)

\* What is stored was composed.
Composed ==
  /\ sent \in Seq(Message) /\ Len(sent) <= MaxMessages
  /\ \A i \in Stored : i \in Sent
  /\ \A i \in Sent : copies[i] >= 1

\* The clients keep their types, for any budget, and a message has one bubble.
ClientTypes ==
  /\ thread \in [Devices -> Threads]
  /\ messages \in [Devices -> Seq(Bubble)] /\ \A d \in Devices : Distinct(messages[d])
  /\ reactions \in [Devices -> Seq(Reaction)]
  /\ fetch \in [Devices -> {"idle", "asked", "ready"}]
  /\ records \in [Devices -> Seq(Ids)] /\ todo \in [Devices -> Seq(Ids)]
  /\ done \in [Devices -> Seq(Result)] /\ live \in [Devices -> Seq(Result)]
  /\ outgoing \in [Devices -> SUBSET Ids] /\ spent \in [Devices -> SUBSET Ids]
  /\ base \in [Devices -> Nat]
  /\ intact \in [Devices -> BOOLEAN] /\ covered \in [Devices -> BOOLEAN]

\* Frames and handlers carry messages of the device they come from; a handler is
\* of a socket that has been open.
OnTheWay ==
  /\ \A d \in Devices : \A k \in DOMAIN frames[d] :
       frames[d][k].id \in Sent /\ Own(d, frames[d][k].id)
  /\ \A w \in work :
       /\ w.event.id \in Sent /\ Own(w.dev, w.event.id)
       /\ w.socket <= socket[w.dev].n
       /\ w.socket = socket[w.dev].n => socket[w.dev].state # "opening"

\* A stamp given to a message, and the order of the stamps of what was sent once.
Stamped(i, t) ==
  \/ i \in Stored /\ t = rows[i].at
  \/ \E w \in work : w.step = "insert" /\ w.event.id = i /\ w.at = t

NoResend == \A i \in Sent : copies[i] = 1

StampOrder ==
  \A i, j \in Sent : \A t, u \in Nat :
    Stamped(i, t) /\ Stamped(j, u) =>
      /\ t = u => i = j
      /\ NoResend /\ sent[i].from = sent[j].from /\ i < j => t < u

FrameOrder ==
  NoResend =>
    \A d \in Devices : \A k \in DOMAIN frames[d] :
      /\ \A l \in DOMAIN frames[d] : k < l => frames[d][k].id < frames[d][l].id
      /\ \A i \in Sent : \A t \in Nat :
           Own(d, i) /\ Stamped(i, t) => i < frames[d][k].id

OrderInv == StampOrder /\ FrameOrder

\* What the rest stands on: types, what was composed, and the order of the stamps.
BaseInv == IInv /\ Composed /\ OnTheWay /\ OrderInv /\ ClientTypes

\* Nobody has left without it being remembered, so who never left has an envelope of
\* every message of others; the log of a device is what was written on it; what the
\* devices hold was composed, and what they were sent was stored.
MembersKnown == \A u \in Users : left[u] = 0 => u \in members
EnvelopesKnown ==
  \A i \in Sent : \A d \in Devices : Theirs(d, i) /\ NeverLeft(d) => d \in sent[i].for
LogKnown == \A d \in Devices : outgoing[d] = {i \in Sent : Own(d, i) /\ IsText(i)}
HeldKnown(d) ==
  /\ \A k \in DOMAIN inbox[d] : inbox[d][k].id \in Stored
  /\ \A k \in DOMAIN records[d] : records[d][k] \in Stored
  /\ \A k \in DOMAIN todo[d] : todo[d][k] \in Stored
  /\ \A i \in spent[d] : i \in Sent /\ Theirs(d, i)
  /\ base[d] <= Len(sent)

Known ==
  MembersKnown /\ EnvelopesKnown /\ LogKnown /\ \A d \in Devices : HeldKnown(d)

\* What was decrypted: of a row, with its stamp; own texts always open, other
\* messages of one's own user never, and those of others once.
GoodResult(d, r) ==
  /\ r.id \in Stored /\ r.at = rows[r.id].at
  /\ Own(d, r.id) /\ IsText(r.id) => r.ok
  /\ r.ok /\ ~Theirs(d, r.id) => Own(d, r.id) /\ IsText(r.id)
  /\ ~r.ok /\ Theirs(d, r.id) /\ NeverLeft(d) => r.id \in spent[d]

In(r, s) == \E k \in DOMAIN s : s[k] = r

DecryptedAt(d) == \A r \in Result : In(r, live[d]) \/ In(r, done[d]) => GoodResult(d, r)

\* A device that has not been away is there, and the handlers of what it wrote since
\* are of its socket of now.
JoinedAt(d) ==
  /\ intact[d] => Here(d) /\ socket[d].state # "closed"
  /\ \A w \in work :
       w.dev = d /\ intact[d] /\ base[d] < w.event.id => w.socket = socket[d].n

Joined == \A d \in Devices : DecryptedAt(d) /\ JoinedAt(d)

\* The echo of a message of one's own is still to come.
Due(d, i) ==
  /\ Own(d, i)
  /\ \/ \E w \in work : /\ w.dev = d /\ w.socket = socket[d].n
                        /\ w.step = "publish" /\ w.event.id = i
     \/ \E k \in DOMAIN inbox[d] : inbox[d][k].id = i

\* A bubble device d may show: of what was composed, an own text with its body; what
\* is not stored was written there since the thread was opened.
BubbleOK(d, b) ==
  /\ b.id \in Sent
  /\ Own(d, b.id) /\ IsText(b.id) => b.body
  /\ b.id \notin Stored => Own(d, b.id) /\ IsText(b.id) /\ base[d] < b.id
  /\ Theirs(d, b.id) /\ ~IsText(b.id) /\ NeverLeft(d) => b.id \in spent[d]
Bubbles(d, s) == \A k \in DOMAIN s : BubbleOK(d, s[k])

\* On a device that has not been away, what does not have the server's stamp, or is not
\* in its order, has an echo coming.
InTime(d, b) == b.id \in Stored => b.at = rows[b.id].at \/ Due(d, b.id)
Settled(d, s) ==
  /\ \A k \in DOMAIN s : InTime(d, s[k])
  /\ InOrder(s) \/ \E k \in DOMAIN s : Due(d, s[k].id)

Threaded(d) == Bubbles(d, messages[d]) /\ (Steady(d) => Settled(d, messages[d]))

WrittenShown(d) ==
  \A i \in (base[d] + 1)..Len(sent) :
    Own(d, i) /\ IsText(i) /\ Here(d) => Lists(messages[d], i)

ThreadInv == \A d \in Devices : Threaded(d) /\ WrittenShown(d)

\* Where a message that was stored is on its way to the screen of d.
Coming(d, i) ==
  \/ In(i, todo[d])
  \/ Lists(done[d], i) \/ Lists(live[d], i) \/ Lists(inbox[d], i)
  \/ \E w \in work : w.step = "publish" /\ w.event.id = i

Reached(d, i) == Shown(d, i) \/ Coming(d, i) \/ i \notin Recent

\* A device whose history is covered has everything, but what is too old for a history.
CoveredAt(d) ==
  /\ fetch[d] = "asked" => Here(d)
  /\ covered[d] =>
      /\ Here(d) /\ Connected(d)
      /\ NeverLeft(d) => \A i \in Stored : Theirs(d, i) => Reached(d, i)

CoverInv == \A d \in Devices : CoveredAt(d)

\* The reaction log of d: each reaction once, one's own in the order they were made,
\* those of others with the server's stamps.
Reacted(d, s) ==
  /\ \A k \in DOMAIN s :
       /\ s[k].id \in Sent /\ ~IsText(s[k].id)
       /\ ~Own(d, s[k].id) => Theirs(d, s[k].id) /\ s[k].id \in Stored
                              /\ s[k].at = rows[s[k].id].at
       /\ Own(d, s[k].id) => s[k].at <= LocalTime(d)
  /\ Distinct(s)
  /\ \A k, l \in DOMAIN s :
       k < l /\ Own(d, s[k].id) /\ Own(d, s[l].id) => s[k].id < s[l].id /\ s[k].at <= s[l].at

\* A device that was never loaded has nothing; on its first load it has logged what
\* it sent and what it opened, or is about to.
Unused(d) ==
  /\ thread[d] = "none" /\ todo[d] = <<>> /\ live[d] = <<>> /\ spent[d] = {}
  /\ socket[d].state = "closed" /\ \A i \in Sent : ~Own(d, i)

OpenedAs(s, i) == \E k \in DOMAIN s : s[k].id = i /\ s[k].ok

FirstLoad(d) ==
  /\ fetch[d] = "asked" => todo[d] = <<>> /\ done[d] = <<>>
  /\ \A i \in Sent : ~IsText(i) =>
       /\ Own(d, i) => Lists(reactions[d], i)
       /\ i \in spent[d] =>
            Lists(reactions[d], i) \/ OpenedAs(live[d], i) \/ OpenedAs(done[d], i)

UsedAt(d) ==
  /\ socket[d].n = 0 <=> thread[d] = "none"
  /\ socket[d].n = 0 => Unused(d)

LogAt(d) ==
  /\ Reacted(d, reactions[d])
  /\ UsedAt(d)
  /\ socket[d].n = 1 /\ intact[d] => FirstLoad(d)

LogInv == \A d \in Devices : LogAt(d)

-----------------------------------------------------------------------------
(* One step as one device sees it                                          *)

\* Every variable of a device has an entry for it.
Shapes ==
  /\ DOMAIN thread = Devices /\ DOMAIN messages = Devices /\ DOMAIN reactions = Devices
  /\ DOMAIN fetch = Devices /\ DOMAIN records = Devices /\ DOMAIN todo = Devices
  /\ DOMAIN done = Devices /\ DOMAIN live = Devices /\ DOMAIN outgoing = Devices
  /\ DOMAIN spent = Devices /\ DOMAIN base = Devices /\ DOMAIN intact = Devices
  /\ DOMAIN covered = Devices /\ DOMAIN socket = Devices /\ DOMAIN frames = Devices
  /\ DOMAIN inbox = Devices

\* The types give every variable its shape.
LEMMA Shaped == ASSUME StoreTypes, ClientTypes PROVE Shapes
<1>1. /\ DOMAIN thread = Devices /\ DOMAIN messages = Devices /\ DOMAIN reactions = Devices
      /\ DOMAIN fetch = Devices /\ DOMAIN records = Devices /\ DOMAIN todo = Devices
      /\ DOMAIN done = Devices /\ DOMAIN live = Devices
  BY DEF ClientTypes
<1>2. /\ DOMAIN outgoing = Devices /\ DOMAIN spent = Devices /\ DOMAIN base = Devices
      /\ DOMAIN intact = Devices /\ DOMAIN covered = Devices
  BY DEF ClientTypes
<1>3. /\ DOMAIN socket = Devices /\ DOMAIN frames = Devices /\ DOMAIN inbox = Devices
  BY DEF StoreTypes
<1> QED
  BY <1>1, <1>2, <1>3 DEF Shapes

\* What a step may leave alone of a device.
SameScreen(d) ==
  /\ thread'[d] = thread[d] /\ messages'[d] = messages[d] /\ reactions'[d] = reactions[d]
  /\ base'[d] = base[d]
SameHistory(d) ==
  fetch'[d] = fetch[d] /\ records'[d] = records[d] /\ todo'[d] = todo[d] /\ done'[d] = done[d]
SameLogs(d) == outgoing'[d] = outgoing[d] /\ spent'[d] = spent[d]
SameMarks(d) == intact'[d] = intact[d] /\ covered'[d] = covered[d]
SameLink(d) == socket'[d] = socket[d] /\ frames'[d] = frames[d] /\ inbox'[d] = inbox[d]
Untouched(d) ==
  /\ SameScreen(d) /\ SameHistory(d) /\ live'[d] = live[d] /\ SameLogs(d) /\ SameMarks(d)
  /\ SameLink(d)

Emptied(d) ==
  /\ messages'[d] = <<>> /\ reactions'[d] = <<>> /\ records'[d] = <<>> /\ todo'[d] = <<>>
  /\ done'[d] = <<>> /\ base'[d] = Len(sent)
NewLink(d) ==
  /\ socket'[d] = [n |-> socket[d].n + 1, state |-> "opening"]
  /\ frames'[d] = <<>> /\ inbox'[d] = <<>>

\* A load, as its device sees it.
LEMMA LoadView ==
  ASSUME Shapes, NEW d \in Devices, Load(d)
  PROVE  /\ thread'[d] = "this" /\ Emptied(d) /\ fetch'[d] = "asked" /\ live'[d] = <<>>
         /\ SameLogs(d) /\ intact'[d] = TRUE /\ covered'[d] = FALSE /\ NewLink(d)
<1>1. thread'[d] = "this" /\ fetch'[d] = "asked" /\ live'[d] = <<>> /\ SameLogs(d)
      /\ intact'[d] = TRUE /\ covered'[d] = FALSE
  BY DEF Load, Shapes, SameLogs
<1>2. Emptied(d)
  BY DEF Load, ResetThread, Shapes, Emptied
<1>3. NewLink(d)
  BY DEF Load, NextSocket, Shapes, NewLink
<1> QED
  BY <1>1, <1>2, <1>3

\* A refreshed sign-in, as its device sees it.
LEMMA RefreshView ==
  ASSUME Shapes, NEW d \in Devices, Refresh(d)
  PROVE  /\ thread[d] # "none" /\ SameScreen(d) /\ live'[d] = live[d] /\ SameLogs(d)
         /\ fetch'[d] = (IF Here(d) THEN "asked" ELSE fetch[d])
         /\ records'[d] = records[d] /\ todo'[d] = records[d] /\ done'[d] = <<>>
         /\ intact'[d] = FALSE /\ covered'[d] = FALSE /\ NewLink(d)
<1>1. /\ thread[d] # "none" /\ SameScreen(d) /\ live'[d] = live[d] /\ SameLogs(d)
      /\ records'[d] = records[d] /\ todo'[d] = records[d] /\ done'[d] = <<>>
      /\ intact'[d] = FALSE /\ covered'[d] = FALSE
  BY DEF Refresh, Shapes, SameScreen, SameLogs
<1>2. fetch'[d] = (IF Here(d) THEN "asked" ELSE fetch[d])
  BY DEF Refresh, Shapes
<1>3. NewLink(d)
  BY DEF Refresh, NextSocket, Shapes, NewLink
<1> QED
  BY <1>1, <1>2, <1>3

\* A socket that opens, as its device sees it.
LEMMA SocketOpensView ==
  ASSUME Shapes, StoreTypes, NEW d \in Devices, SocketOpens(d)
  PROVE  /\ UNCHANGED client /\ socket[d].state = "opening"
         /\ socket'[d] = [n |-> socket[d].n, state |-> "open"]
         /\ frames'[d] = frames[d] /\ inbox'[d] = inbox[d]
<1>1. socket[d] \in [n : Nat, state : {"closed", "opening", "open"}]
  BY DEF StoreTypes
<1> QED
  BY <1>1 DEF SocketOpens, Shapes

\* A socket that is lost, as its device sees it.
LEMMA SocketLostView ==
  ASSUME Shapes, StoreTypes, NEW d \in Devices, SocketLost(d)
  PROVE  /\ SameScreen(d) /\ SameHistory(d) /\ live'[d] = live[d] /\ SameLogs(d)
         /\ intact'[d] = FALSE /\ covered'[d] = FALSE
         /\ Connected(d) /\ socket'[d] = [n |-> socket[d].n, state |-> "closed"]
         /\ frames'[d] = <<>> /\ inbox'[d] = <<>>
<1>1. socket[d] \in [n : Nat, state : {"closed", "opening", "open"}]
  BY DEF StoreTypes
<1>2. /\ SameScreen(d) /\ SameHistory(d) /\ live'[d] = live[d] /\ SameLogs(d)
      /\ intact'[d] = FALSE /\ covered'[d] = FALSE
  BY DEF SocketLost, Shapes, SameScreen, SameHistory, SameLogs
<1>3. /\ Connected(d) /\ socket'[d] = [n |-> socket[d].n, state |-> "closed"]
      /\ frames'[d] = <<>> /\ inbox'[d] = <<>>
  BY <1>1 DEF SocketLost, Shapes
<1> QED
  BY <1>2, <1>3

\* Choosing another thread, as its device sees it.
LEMMA LeaveView ==
  ASSUME Shapes, NEW d \in Devices, Leave(d)
  PROVE  /\ thread[d] = "this" /\ thread'[d] = "other" /\ Emptied(d) /\ fetch'[d] = "idle"
         /\ live'[d] = live[d] /\ SameLogs(d) /\ SameLink(d)
         /\ intact'[d] = FALSE /\ covered'[d] = FALSE
<1>1. /\ thread[d] = "this" /\ thread'[d] = "other" /\ fetch'[d] = "idle"
      /\ live'[d] = live[d] /\ SameLogs(d) /\ SameLink(d)
      /\ intact'[d] = FALSE /\ covered'[d] = FALSE
  BY DEF Leave, Here, Shapes, SameLogs, SameLink
<1>2. Emptied(d)
  BY DEF Leave, ResetThread, Shapes, Emptied
<1> QED
  BY <1>1, <1>2

\* Coming back to the thread, as its device sees it.
LEMMA ReturnView ==
  ASSUME Shapes, NEW d \in Devices, Return(d)
  PROVE  /\ thread[d] = "other" /\ thread'[d] = "this" /\ Emptied(d) /\ fetch'[d] = "asked"
         /\ live'[d] = live[d] /\ SameLogs(d) /\ SameMarks(d) /\ UNCHANGED store
<1>1. /\ thread[d] = "other" /\ thread'[d] = "this" /\ fetch'[d] = "asked"
      /\ live'[d] = live[d] /\ SameLogs(d) /\ SameMarks(d) /\ UNCHANGED store
  BY DEF Return, Shapes, SameLogs, SameMarks
<1>2. Emptied(d)
  BY DEF Return, ResetThread, Shapes, Emptied
<1> QED
  BY <1>1, <1>2

\* The message a composing device adds.
Composes(d, m) ==
  /\ Len(sent) + 1 \in Ids /\ m.from = d /\ m.for = {e \in Devices \ {d} : Member(e)}
  /\ sent' = Append(sent, m)
  /\ copies' = [copies EXCEPT ![Len(sent) + 1] = 1]
  /\ frames'[d] = IF Connected(d)
                  THEN Append(frames[d], [id |-> Len(sent) + 1, copy |-> 1]) ELSE frames[d]
  /\ socket'[d] = socket[d] /\ inbox'[d] = inbox[d]

\* A text that is sent, as its device sees it.
LEMMA SendTextView ==
  ASSUME Shapes, NEW d \in Devices, SendText(d)
  PROVE  /\ Here(d) /\ thread'[d] = thread[d] /\ reactions'[d] = reactions[d]
         /\ base'[d] = base[d] /\ SameHistory(d) /\ live'[d] = live[d] /\ SameMarks(d)
         /\ spent'[d] = spent[d] /\ outgoing'[d] = outgoing[d] \cup {Len(sent) + 1}
         /\ messages'[d] =
              mergeMessages(messages[d], Optimistic(Len(sent) + 1, LocalTime(d)))
         /\ \E m \in Message : Composes(d, m) /\ m.kind = "text"
<1>1. /\ Here(d) /\ thread'[d] = thread[d] /\ reactions'[d] = reactions[d]
      /\ base'[d] = base[d] /\ SameHistory(d) /\ live'[d] = live[d] /\ SameMarks(d)
      /\ spent'[d] = spent[d]
  BY DEF SendText, SameHistory, SameMarks
<1>2. outgoing'[d] = outgoing[d] \cup {Len(sent) + 1}
  BY DEF SendText, Log, Shapes
<1>3. messages'[d] = mergeMessages(messages[d], Optimistic(Len(sent) + 1, LocalTime(d)))
  BY DEF SendText, Shapes
<1> DEFINE m == [from |-> d, kind |-> "text", target |-> 0,
                 for |-> {e \in Devices \ {d} : Member(e)}]
<1>4. m \in Message
  <2>1. MaxMessages \in Nat
    BY StoreAssumption DEF StoreAssumption, MaxMessages
  <2> QED
    BY <2>1 DEF Message, Kinds
<1>5. Compose(d, TextPayload) /\ UNCHANGED <<socket, inbox>>
  BY DEF SendText
<1>6. Composes(d, m)
  BY <1>5 DEF Compose, Composes, TextPayload, Transmit, Shapes
<1> QED
  BY <1>1, <1>2, <1>3, <1>4, <1>6

\* A reaction that is sent, as its device sees it.
LEMMA ToggleReactionView ==
  ASSUME Shapes, ClientTypes, NEW d \in Devices, ToggleReaction(d)
  PROVE  /\ Here(d) /\ Connected(d) /\ thread'[d] = thread[d] /\ messages'[d] = messages[d]
         /\ base'[d] = base[d] /\ SameHistory(d) /\ live'[d] = live[d] /\ SameMarks(d)
         /\ SameLogs(d)
         /\ reactions'[d] = mergeReactions(reactions[d],
                                           [id |-> Len(sent) + 1, at |-> LocalTime(d)])
         /\ \E m \in Message : Composes(d, m) /\ m.kind # "text"
<1>1. /\ Here(d) /\ Connected(d) /\ thread'[d] = thread[d] /\ messages'[d] = messages[d]
      /\ base'[d] = base[d] /\ SameHistory(d) /\ live'[d] = live[d] /\ SameMarks(d)
      /\ SameLogs(d) /\ UNCHANGED <<socket, inbox>>
  BY DEF ToggleReaction, SameHistory, SameMarks, SameLogs
<1>2. PICK k \in DOMAIN messages[d], kind \in {"add", "remove"} :
         /\ Compose(d, ReactionPayload(messages[d][k].id, kind))
         /\ reactions' = [reactions EXCEPT ![d] =
                mergeReactions(@, [id |-> Len(sent) + 1, at |-> LocalTime(d)])]
  <2>1. PICK k \in DOMAIN messages[d] :
           /\ Compose(d, ReactionPayload(messages[d][k].id,
                  IF Owner[d] \in Tally(reactions[d], messages[d][k].id)
                  THEN "remove" ELSE "add"))
           /\ reactions' = [reactions EXCEPT ![d] =
                  mergeReactions(@, [id |-> Len(sent) + 1, at |-> LocalTime(d)])]
    BY DEF ToggleReaction
  <2> QED
    BY <2>1
<1>3. reactions'[d] = mergeReactions(reactions[d],
                                     [id |-> Len(sent) + 1, at |-> LocalTime(d)])
  BY <1>2 DEF Shapes
<1> DEFINE m == [from |-> d, kind |-> kind, target |-> messages[d][k].id,
                 for |-> {e \in Devices \ {d} : Member(e)}]
<1>4. m \in Message
  <2>1. messages[d] \in Seq(Bubble) /\ MaxMessages \in Nat
    BY StoreAssumption DEF ClientTypes, StoreAssumption, MaxMessages
  <2>2. messages[d][k] \in Bubble
    BY <1>2, <2>1
  <2>3. messages[d][k].id \in 0..MaxMessages
    BY <2>1, <2>2 DEF Bubble, Ids
  <2> QED
    BY <1>2, <2>3 DEF Message, Kinds
<1>5. Composes(d, m)
  BY <1>1, <1>2 DEF Compose, Composes, ReactionPayload, Transmit, Shapes
<1>6. m.kind # "text"
  BY <1>2
<1> QED
  BY <1>1, <1>3, <1>4, <1>5, <1>6

\* A message sent again, as its device sees it.
LEMMA ResendView ==
  ASSUME Shapes, NEW d \in Devices, Resend(d)
  PROVE  /\ UNCHANGED <<client, sent, socket, inbox>> /\ Connected(d)
         /\ \E i \in Sent :
              /\ Own(d, i) /\ i \in Ids /\ copies' = [copies EXCEPT ![i] = @ + 1]
              /\ frames'[d] = Append(frames[d], [id |-> i, copy |-> copies[i] + 1])
<1>1. UNCHANGED <<client, sent, socket, inbox>> /\ Connected(d)
  BY DEF Resend
<1>2. PICK i \in Ids : /\ i <= Len(sent) /\ sent[i].from = d
                       /\ copies' = [copies EXCEPT ![i] = @ + 1]
                       /\ Transmit(d, [id |-> i, copy |-> copies[i] + 1])
  BY DEF Resend
<1>3. frames'[d] = Append(frames[d], [id |-> i, copy |-> copies[i] + 1])
  BY <1>1, <1>2 DEF Transmit, Shapes
<1>4. i \in Sent /\ Own(d, i)
  BY <1>2 DEF Sent, Own, Ids
<1> QED
  BY <1>1, <1>2, <1>3, <1>4

\* The next event of the socket is taken.
TakesEvent(d) ==
  /\ Connected(d) /\ inbox[d] # <<>> /\ inbox'[d] = Tail(inbox[d])
  /\ socket'[d] = socket[d] /\ frames'[d] = frames[d]

\* An event that is taken from the socket, as its device sees it.
LEMMA NextEventView ==
  ASSUME Shapes, NEW d \in Devices, NextEvent(d)
  PROVE  TakesEvent(d)
  BY DEF NextEvent, TakesEvent, Shapes

\* An event of a thread that is not open, as its device sees it.
LEMMA ReceiveElsewhereView ==
  ASSUME Shapes, NEW d \in Devices, ReceiveElsewhere(d)
  PROVE  TakesEvent(d) /\ ~Here(d) /\ UNCHANGED client
  BY NextEventView DEF ReceiveElsewhere

\* An echo, as its device sees it.
LEMMA ReceiveEchoView ==
  ASSUME Shapes, NEW d \in Devices, ReceiveEcho(d)
  PROVE  /\ TakesEvent(d) /\ Here(d) /\ ~Theirs(d, Head(inbox[d]).id)
         /\ thread'[d] = thread[d] /\ reactions'[d] = reactions[d] /\ base'[d] = base[d]
         /\ SameHistory(d) /\ live'[d] = live[d] /\ SameLogs(d) /\ SameMarks(d)
         /\ messages'[d] = acknowledgeMessage(messages[d], Head(inbox[d]))
<1>1. TakesEvent(d)
  BY NextEventView DEF ReceiveEcho
<1>2. /\ Here(d) /\ ~Theirs(d, Head(inbox[d]).id)
      /\ thread'[d] = thread[d] /\ reactions'[d] = reactions[d] /\ base'[d] = base[d]
      /\ SameHistory(d) /\ live'[d] = live[d] /\ SameLogs(d) /\ SameMarks(d)
  BY DEF ReceiveEcho, Theirs, SameHistory, SameLogs, SameMarks
<1>3. messages'[d] = acknowledgeMessage(messages[d], Head(inbox[d]))
  BY DEF ReceiveEcho, Shapes
<1> QED
  BY <1>1, <1>2, <1>3

\* An envelope of somebody else that opens is spent.
Spends(d, i) ==
  spent'[d] = spent[d] \cup (IF Theirs(d, i) /\ Opens(d, i) THEN {i} ELSE {})

\* Opening an envelope spends it, if it is of somebody else and opens.
LEMMA SpendView ==
  ASSUME Shapes, NEW d \in Devices, NEW i, Spend(d, i)
  PROVE  Spends(d, i)
<1>1. {j \in {i} : Sender(j) # Owner[d] /\ Opens(d, j)}
         = IF Theirs(d, i) /\ Opens(d, i) THEN {i} ELSE {}
  BY DEF Theirs
<1> QED
  BY <1>1 DEF Spend, Spends, Shapes

\* A live event, as its device sees it.
LEMMA ReceiveLiveView ==
  ASSUME Shapes, NEW d \in Devices, ReceiveLive(d)
  PROVE  /\ TakesEvent(d) /\ Here(d) /\ Theirs(d, Head(inbox[d]).id)
         /\ SameScreen(d) /\ SameHistory(d) /\ outgoing'[d] = outgoing[d] /\ SameMarks(d)
         /\ live'[d] = Append(live[d], Resolved(d, Head(inbox[d]).id))
         /\ Spends(d, Head(inbox[d]).id)
<1>1. TakesEvent(d)
  BY NextEventView DEF ReceiveLive
<1>2. /\ Here(d) /\ Theirs(d, Head(inbox[d]).id)
      /\ SameScreen(d) /\ SameHistory(d) /\ outgoing'[d] = outgoing[d] /\ SameMarks(d)
  BY DEF ReceiveLive, Theirs, SameScreen, SameHistory, SameMarks
<1>3. live'[d] = Append(live[d], Resolved(d, Head(inbox[d]).id))
  BY DEF ReceiveLive, Shapes
<1>4. Spends(d, Head(inbox[d]).id)
  BY SpendView DEF ReceiveLive
<1> QED
  BY <1>1, <1>2, <1>3, <1>4

\* A thread with results drawn onto it, and its log.
Draws(d, results) ==
  /\ messages'[d] = DrawAll(messages[d], results)
  /\ reactions'[d] = ReactAll(reactions[d], results)

\* The merge of a live event, as its device sees it.
LEMMA MergeLiveView ==
  ASSUME Shapes, NEW d \in Devices, MergeLive(d)
  PROVE  /\ UNCHANGED store /\ live[d] # <<>> /\ live'[d] = Tail(live[d])
         /\ thread'[d] = thread[d] /\ base'[d] = base[d]
         /\ SameHistory(d) /\ SameLogs(d) /\ SameMarks(d)
         /\ Draws(d, <<Head(live[d])>>)
<1>1. /\ UNCHANGED store /\ live[d] # <<>> /\ live'[d] = Tail(live[d])
      /\ thread'[d] = thread[d] /\ base'[d] = base[d]
      /\ SameHistory(d) /\ SameLogs(d) /\ SameMarks(d)
  BY DEF MergeLive, SameHistory, SameLogs, SameMarks, Shapes
<1>2. Draws(d, <<Head(live[d])>>)
  BY DEF MergeLive, Draws, Shapes
<1> QED
  BY <1>1, <1>2

\* A history that arrives, as its device sees it.
LEMMA HistoryArrivesView ==
  ASSUME Shapes, NEW d \in Devices, HistoryArrives(d)
  PROVE  /\ UNCHANGED store /\ SameScreen(d) /\ live'[d] = live[d] /\ SameLogs(d)
         /\ fetch[d] = "asked" /\ fetch'[d] = "ready" /\ intact'[d] = intact[d]
         /\ Member(d) => /\ records'[d] = HistoryFor(d) /\ todo'[d] = HistoryFor(d)
                         /\ done'[d] = <<>> /\ covered'[d] = Connected(d)
         /\ ~Member(d) => /\ records'[d] = records[d] /\ todo'[d] = todo[d]
                          /\ done'[d] = done[d] /\ covered'[d] = covered[d]
<1>1. /\ UNCHANGED store /\ SameScreen(d) /\ live'[d] = live[d] /\ SameLogs(d)
      /\ fetch[d] = "asked" /\ fetch'[d] = "ready" /\ intact'[d] = intact[d]
  BY DEF HistoryArrives, SameScreen, SameLogs, Shapes
<1>2. Member(d) => /\ records'[d] = HistoryFor(d) /\ todo'[d] = HistoryFor(d)
                   /\ done'[d] = <<>> /\ covered'[d] = Connected(d)
  BY DEF HistoryArrives, Shapes
<1>3. ~Member(d) => /\ records'[d] = records[d] /\ todo'[d] = todo[d]
                    /\ done'[d] = done[d] /\ covered'[d] = covered[d]
  BY DEF HistoryArrives
<1> QED
  BY <1>1, <1>2, <1>3

\* A record that is decrypted, as its device sees it.
LEMMA DecryptRecordView ==
  ASSUME Shapes, NEW d \in Devices, DecryptRecord(d)
  PROVE  /\ UNCHANGED store /\ SameScreen(d) /\ live'[d] = live[d]
         /\ outgoing'[d] = outgoing[d] /\ SameMarks(d)
         /\ fetch'[d] = fetch[d] /\ records'[d] = records[d]
         /\ todo[d] # <<>> /\ todo'[d] = Tail(todo[d])
         /\ done'[d] = Append(done[d], Resolved(d, Head(todo[d])))
         /\ Spends(d, Head(todo[d]))
<1>1. /\ UNCHANGED store /\ SameScreen(d) /\ live'[d] = live[d]
      /\ outgoing'[d] = outgoing[d] /\ SameMarks(d)
      /\ fetch'[d] = fetch[d] /\ records'[d] = records[d]
  BY DEF DecryptRecord, SameScreen, SameMarks
<1>2. /\ todo[d] # <<>> /\ todo'[d] = Tail(todo[d])
      /\ done'[d] = Append(done[d], Resolved(d, Head(todo[d])))
  BY DEF DecryptRecord, Shapes
<1>3. Spends(d, Head(todo[d]))
  BY SpendView DEF DecryptRecord
<1> QED
  BY <1>1, <1>2, <1>3

\* The merge of a history, as its device sees it.
LEMMA MergeHistoryView ==
  ASSUME Shapes, NEW d \in Devices, MergeHistory(d)
  PROVE  /\ UNCHANGED store /\ thread'[d] = thread[d] /\ base'[d] = base[d]
         /\ live'[d] = live[d] /\ SameLogs(d) /\ SameMarks(d)
         /\ fetch'[d] = fetch[d] /\ records'[d] = records[d] /\ todo'[d] = todo[d]
         /\ todo[d] = <<>> /\ done[d] # <<>> /\ done'[d] = <<>>
         /\ Draws(d, done[d])
<1>1. /\ UNCHANGED store /\ thread'[d] = thread[d] /\ base'[d] = base[d]
      /\ live'[d] = live[d] /\ SameLogs(d) /\ SameMarks(d)
      /\ fetch'[d] = fetch[d] /\ records'[d] = records[d] /\ todo'[d] = todo[d]
      /\ todo[d] = <<>> /\ done[d] # <<>> /\ done'[d] = <<>>
  BY DEF MergeHistory, SameLogs, SameMarks, Shapes
<1>2. Draws(d, done[d])
  BY DEF MergeHistory, Draws, Shapes
<1> QED
  BY <1>1, <1>2

\* A step of one device touches no other, and none of the server's tables.
LEMMA OthersUntouched ==
  ASSUME Shapes, NEW d \in Devices, Device(d), NEW e \in Devices, e # d
  PROVE  Untouched(e)
<1>1. CASE Load(d)
  <2>1. SameScreen(e) /\ live'[e] = live[e] /\ SameLogs(e) /\ SameMarks(e)
    BY <1>1 DEF Load, ResetThread, SameScreen, SameLogs, SameMarks, Shapes
  <2>2. SameHistory(e) /\ SameLink(e)
    BY <1>1 DEF Load, ResetThread, NextSocket, SameHistory, SameLink, Shapes
  <2> QED
    BY <2>1, <2>2 DEF Untouched
<1>2. CASE Refresh(d)
  <2>1. SameScreen(e) /\ live'[e] = live[e] /\ SameLogs(e) /\ SameMarks(e)
    BY <1>2 DEF Refresh, SameScreen, SameLogs, SameMarks, Shapes
  <2>2. SameHistory(e) /\ SameLink(e)
    BY <1>2 DEF Refresh, NextSocket, SameHistory, SameLink, Shapes
  <2> QED
    BY <2>1, <2>2 DEF Untouched
<1>3. CASE SocketOpens(d)
  BY <1>3 DEF SocketOpens, client, Untouched, SameScreen, SameHistory, SameLogs, SameMarks,
              SameLink, Shapes
<1>4. CASE SocketLost(d)
  <2>1. SameScreen(e) /\ SameHistory(e) /\ live'[e] = live[e] /\ SameLogs(e)
    BY <1>4 DEF SocketLost, SameScreen, SameHistory, SameLogs, Shapes
  <2>2. SameMarks(e) /\ SameLink(e)
    BY <1>4 DEF SocketLost, SameMarks, SameLink, Shapes
  <2> QED
    BY <2>1, <2>2 DEF Untouched
<1>5. CASE Leave(d) \/ Return(d)
  <2>1. SameScreen(e) /\ live'[e] = live[e] /\ SameLogs(e) /\ SameMarks(e)
    BY <1>5 DEF Leave, Return, ResetThread, SameScreen, SameLogs, SameMarks, Shapes
  <2>2. SameHistory(e) /\ SameLink(e)
    BY <1>5 DEF Leave, Return, ResetThread, store, SameHistory, SameLink, Shapes
  <2> QED
    BY <2>1, <2>2 DEF Untouched
<1>6. CASE SendText(d)
  <2>1. SameScreen(e) /\ SameHistory(e) /\ live'[e] = live[e] /\ SameMarks(e)
    BY <1>6 DEF SendText, SameScreen, SameHistory, SameMarks, Shapes
  <2>2. SameLogs(e)
    BY <1>6 DEF SendText, Log, SameLogs, Shapes
  <2>3. SameLink(e)
    BY <1>6 DEF SendText, Compose, Transmit, SameLink, Shapes
  <2> QED
    BY <2>1, <2>2, <2>3 DEF Untouched
<1>7. CASE ToggleReaction(d)
  <2>1. SameScreen(e) /\ SameHistory(e) /\ live'[e] = live[e] /\ SameLogs(e) /\ SameMarks(e)
    BY <1>7 DEF ToggleReaction, SameScreen, SameHistory, SameLogs, SameMarks, Shapes
  <2>2. SameLink(e)
    <3>1. UNCHANGED <<socket, inbox>> /\ \E payload : Compose(d, payload)
      BY <1>7 DEF ToggleReaction
    <3> QED
      BY <3>1 DEF Compose, Transmit, SameLink, Shapes
  <2> QED
    BY <2>1, <2>2 DEF Untouched
<1>8. CASE Resend(d)
  <2>1. UNCHANGED <<client, socket, inbox>> /\ \E event : Transmit(d, event)
    BY <1>8 DEF Resend
  <2> QED
    BY <2>1 DEF Transmit, client, Untouched, SameScreen, SameHistory, SameLogs, SameMarks,
                SameLink, Shapes
<1>9. CASE Receive(d)
  <2>1. SameLink(e)
    BY <1>9 DEF Receive, ReceiveElsewhere, ReceiveEcho, ReceiveLive, NextEvent, SameLink, Shapes
  <2>2. CASE ReceiveElsewhere(d)
    BY <2>1, <2>2 DEF ReceiveElsewhere, client, Untouched, SameScreen, SameHistory, SameLogs,
                      SameMarks
  <2>3. CASE ReceiveEcho(d)
    BY <2>1, <2>3 DEF ReceiveEcho, Untouched, SameScreen, SameHistory, SameLogs, SameMarks, Shapes
  <2>4. CASE ReceiveLive(d)
    BY <2>1, <2>4 DEF ReceiveLive, Spend, Untouched, SameScreen, SameHistory, SameLogs,
                      SameMarks, Shapes
  <2> QED
    BY <1>9, <2>2, <2>3, <2>4 DEF Receive
<1>10. CASE MergeLive(d)
  BY <1>10 DEF MergeLive, store, Untouched, SameScreen, SameHistory, SameLogs, SameMarks,
               SameLink, Shapes
<1>11. CASE HistoryArrives(d)
  <2>1. SameScreen(e) /\ live'[e] = live[e] /\ SameLogs(e) /\ SameLink(e)
    BY <1>11 DEF HistoryArrives, store, SameScreen, SameLogs, SameLink
  <2>2. SameHistory(e) /\ SameMarks(e)
    BY <1>11 DEF HistoryArrives, SameHistory, SameMarks, Shapes
  <2> QED
    BY <2>1, <2>2 DEF Untouched
<1>12. CASE DecryptRecord(d)
  BY <1>12 DEF DecryptRecord, Spend, store, Untouched, SameScreen, SameHistory, SameLogs,
               SameMarks, SameLink, Shapes
<1>13. CASE MergeHistory(d)
  BY <1>13 DEF MergeHistory, store, Untouched, SameScreen, SameHistory, SameLogs,
               SameMarks, SameLink, Shapes
<1> QED
  BY <1>1, <1>2, <1>3, <1>4, <1>5, <1>6, <1>7, <1>8, <1>9, <1>10, <1>11, <1>12, <1>13
  DEF Device, User, Session, History

\* No step of a device touches the tables of the server.
LEMMA DeviceTables ==
  ASSUME NEW d \in Devices, Device(d)
  PROVE  UNCHANGED <<room, members, left, clock, rows, work>>
<1>1. CASE SendText(d) \/ ToggleReaction(d) \/ Resend(d)
  BY <1>1 DEF SendText, ToggleReaction, Resend
<1>2. CASE Load(d) \/ Refresh(d) \/ SocketOpens(d) \/ SocketLost(d) \/ Leave(d)
  BY <1>2 DEF Load, Refresh, SocketOpens, SocketLost, Leave
<1>3. CASE Receive(d)
  BY <1>3 DEF Receive, ReceiveElsewhere, ReceiveEcho, ReceiveLive, NextEvent
<1>4. CASE Return(d) \/ MergeLive(d) \/ History(d)
  BY <1>4 DEF Return, MergeLive, History, HistoryArrives, DecryptRecord, MergeHistory, store
<1> QED
  BY <1>1, <1>2, <1>3, <1>4 DEF Device, User, Session

\* What a step of a device sends: nothing, a new message, or a copy of an old one.
Quieter(d) ==
  UNCHANGED <<sent, copies>> /\ (frames'[d] = frames[d] \/ frames'[d] = <<>>)
SendsNew(d) == socket'[d] = socket[d] /\ \E m \in Message : Composes(d, m)
SendsAgain(d) ==
  /\ UNCHANGED sent /\ socket'[d] = socket[d]
  /\ \E i \in Sent :
       /\ Own(d, i) /\ i \in Ids /\ copies' = [copies EXCEPT ![i] = @ + 1]
       /\ frames'[d] = Append(frames[d], [id |-> i, copy |-> copies[i] + 1])

\* A step of a device sends nothing, or a new message, or one of its own again.
LEMMA DeviceSends ==
  ASSUME Shapes, ClientTypes, StoreTypes, NEW d \in Devices, Device(d)
  PROVE  \/ Quieter(d) /\ ~SendText(d) /\ ~ToggleReaction(d)
         \/ SendsNew(d) /\ (SendText(d) \/ ToggleReaction(d))
         \/ SendsAgain(d) /\ Resend(d)
<1>1. CASE SendText(d)
  BY <1>1, SendTextView DEF SendsNew, Composes
<1>2. CASE ToggleReaction(d)
  BY <1>2, ToggleReactionView DEF SendsNew, Composes
<1>3. CASE Resend(d)
  BY <1>3, ResendView DEF SendsAgain
<1>4. ASSUME ~SendText(d), ~ToggleReaction(d), ~Resend(d) PROVE Quieter(d)
  <2>1. CASE Load(d) \/ Refresh(d)
    <3>1. UNCHANGED <<sent, copies>>
      BY <2>1 DEF Load, Refresh
    <3> QED
      BY <2>1, <3>1, LoadView, RefreshView DEF Quieter, NewLink
  <2>2. CASE SocketOpens(d) \/ SocketLost(d)
    <3>1. UNCHANGED <<sent, copies>>
      BY <2>2 DEF SocketOpens, SocketLost
    <3> QED
      BY <2>2, <3>1, SocketOpensView, SocketLostView DEF Quieter
  <2>3. CASE Leave(d)
    BY <2>3 DEF Leave, Quieter
  <2>4. CASE Receive(d)
    BY <2>4 DEF Receive, ReceiveElsewhere, ReceiveEcho, ReceiveLive, NextEvent, Quieter
  <2>5. CASE Return(d) \/ MergeLive(d) \/ History(d)
    BY <2>5 DEF Return, MergeLive, History, HistoryArrives, DecryptRecord, MergeHistory, store,
                Quieter
  <2> QED
    BY <1>4, <2>1, <2>2, <2>3, <2>4, <2>5 DEF Device, User, Session
<1> QED
  BY <1>1, <1>2, <1>3, <1>4

\* How the socket of a device moves.
LEMMA DeviceLink ==
  ASSUME Shapes, StoreTypes, ClientTypes, NEW d \in Devices, Device(d)
  PROVE  \/ socket'[d] = socket[d]
         \/ socket'[d] = [n |-> socket[d].n + 1, state |-> "opening"]
         \/ socket'[d] = [n |-> socket[d].n, state |-> "open"] /\ inbox'[d] = inbox[d]
         \/ socket'[d] = [n |-> socket[d].n, state |-> "closed"] /\ inbox'[d] = <<>>
<1>1. CASE Load(d) \/ Refresh(d)
  BY <1>1, LoadView, RefreshView DEF NewLink
<1>2. CASE SocketOpens(d) \/ SocketLost(d)
  BY <1>2, SocketOpensView, SocketLostView
<1>3. ASSUME ~(Load(d) \/ Refresh(d) \/ SocketOpens(d) \/ SocketLost(d))
      PROVE  socket'[d] = socket[d]
  <2>1. CASE Leave(d) \/ SendText(d) \/ ToggleReaction(d) \/ Resend(d)
    BY <2>1 DEF Leave, SendText, ToggleReaction, Resend
  <2>2. CASE Receive(d)
    BY <2>2 DEF Receive, ReceiveElsewhere, ReceiveEcho, ReceiveLive, NextEvent
  <2>3. CASE Return(d) \/ MergeLive(d) \/ History(d)
    BY <2>3 DEF Return, MergeLive, History, HistoryArrives, DecryptRecord, MergeHistory, store
  <2> QED
    BY <1>3, <2>1, <2>2, <2>3 DEF Device, User, Session
<1> QED
  BY <1>1, <1>2, <1>3

-----------------------------------------------------------------------------
(* What was composed, what is on its way, and the order of the stamps      *)

\* The stamps that are given are of the past.
LEMMA StampsPast ==
  ASSUME IInv, NEW i \in Ids, NEW t, Stamped(i, t)
  PROVE  t \in Nat /\ t <= clock
<1>1. CASE i \in Stored /\ t = rows[i].at
  BY <1>1 DEF IInv, StoreTypes, StampsInv
<1>2. CASE \E w \in work : w.step = "insert" /\ w.event.id = i /\ w.at = t
  BY <1>2 DEF IInv, StoreTypes, StampsInv, Job
<1> QED
  BY <1>1, <1>2 DEF Stamped

\* What was composed has ids within the bound.
LEMMA SentIds == ASSUME Composed PROVE Sent \subseteq Ids /\ Len(sent) \in Nat
<1>1. Len(sent) \in Nat /\ Len(sent) <= MaxMessages /\ MaxMessages \in Nat
  BY StoreAssumption DEF Composed, StoreAssumption, MaxMessages
<1> QED
  BY <1>1 DEF Sent, Ids

\* Insert: the row of the handler's message is there, those there before as they were.
Inserts(w) ==
  /\ w.event.id \in Ids /\ Stored' = Stored \cup {w.event.id}
  /\ \A j \in Stored : rows'[j] = rows[j]
  /\ w.event.id \notin Stored => rows'[w.event.id].at = w.at
  /\ \E v : /\ v.event = w.event /\ v.dev = w.dev /\ v.socket = w.socket
            /\ v.step = "publish" /\ work' = (work \ {w}) \cup {v}

\* An insert stores the row of its event, if there is none, and goes on to publish it.
LEMMA InsertView ==
  ASSUME IInv, NEW w \in work, Insert(w)
  PROVE  Inserts(w) /\ w.step = "insert"
<1> DEFINE i == w.event.id
           v == [w EXCEPT !.step = "publish"]
<1>1. rows' = [rows EXCEPT ![i] = Kept(w)] /\ work' = (work \ {w}) \cup {v} /\ w.step = "insert"
  BY DEF Insert
<1>2. w \in Job /\ rows \in [Ids -> [copy : Nat, at : Nat]]
  BY DEF IInv, StoreTypes
<1>3. /\ i \in Ids /\ w.event.copy \in Nat \ {0}
      /\ v.event = w.event /\ v.dev = w.dev /\ v.socket = w.socket /\ v.step = "publish"
  BY <1>2 DEF Job, Copy
<1>4. Kept(w) # NoRow /\ (rows[i] # NoRow => Kept(w) = rows[i])
      /\ (rows[i] = NoRow => Kept(w).at = w.at)
  <2>1. [copy |-> w.event.copy, at |-> w.at] # NoRow
    BY <1>3 DEF NoRow
  <2> QED
    BY <2>1 DEF Kept
<1> HIDE DEF i, v
<1>5. rows'[i] = Kept(w) /\ \A j \in Ids : j # i => rows'[j] = rows[j]
  BY <1>1, <1>2, <1>3
<1>6. Stored' = Stored \cup {i}
  BY <1>3, <1>4, <1>5 DEF Stored
<1>7. \A j \in Stored : rows'[j] = rows[j]
  BY <1>4, <1>5 DEF Stored
<1>8. i \notin Stored => rows'[i].at = w.at
  BY <1>3, <1>4, <1>5 DEF Stored
<1> QED
  BY <1>1, <1>3, <1>6, <1>7, <1>8 DEF Inserts, i

\* No stamp is given anew; the frames are those there were, without the first ones.
StampsKept == \A i, t : Stamped(i, t)' => Stamped(i, t)
Dequeues ==
  \A d \in Devices : \E o \in Nat : \A k \in DOMAIN frames'[d] :
    k + o \in DOMAIN frames[d] /\ frames'[d][k] = frames[d][k + o]

\* The order of the stamps stays when none is given and frames are only taken or dropped.
LEMMA OrderKept ==
  ASSUME OrderInv, UNCHANGED <<sent, copies>>, StampsKept, Dequeues,
         \A d \in Devices : DOMAIN frames'[d] \subseteq Nat
  PROVE  OrderInv'
<1>1. Sent' = Sent /\ NoResend' = NoResend
  BY DEF Sent, NoResend
<1>2. StampOrder'
  BY <1>1 DEF OrderInv, StampOrder, StampsKept
<1>3. FrameOrder'
  <2> SUFFICES ASSUME NoResend, NEW d \in Devices, NEW k \in DOMAIN frames'[d]
               PROVE  /\ \A l \in DOMAIN frames'[d] : k < l => frames'[d][k].id < frames'[d][l].id
                      /\ \A i \in Sent : \A t \in Nat :
                           Own(d, i) /\ Stamped(i, t)' => i < frames'[d][k].id
    BY <1>1 DEF FrameOrder, Own
  <2>1. PICK o \in Nat : \A l \in DOMAIN frames'[d] :
          l + o \in DOMAIN frames[d] /\ frames'[d][l] = frames[d][l + o]
    BY DEF Dequeues
  <2>2. /\ \A l \in DOMAIN frames[d] :
             k + o < l => frames[d][k + o].id < frames[d][l].id
        /\ \A i \in Sent : \A t \in Nat :
             Own(d, i) /\ Stamped(i, t) => i < frames[d][k + o].id
    BY <2>1 DEF OrderInv, FrameOrder
  <2>3. ASSUME NEW l \in DOMAIN frames'[d], k < l
        PROVE  frames'[d][k].id < frames'[d][l].id
    <3>1. k + o < l + o /\ l + o \in DOMAIN frames[d]
      BY <2>1, <2>3
    <3> QED
      BY <2>1, <2>2, <3>1
  <2> QED
    BY <2>1, <2>2, <2>3 DEF StampsKept
<1> QED
  BY <1>2, <1>3 DEF OrderInv

\* The frame that is taken is the first, and the others move up.
LEMMA TakenFrame ==
  ASSUME StoreTypes, NEW d \in Devices, Takes(d)
  PROVE  /\ Head(frames[d]) = frames[d][1] /\ 1 \in DOMAIN frames[d] /\ Dequeues
         /\ \A k \in DOMAIN frames'[d] :
              k \in Nat /\ k + 1 \in DOMAIN frames[d] /\ frames'[d][k] = frames[d][k + 1]
         /\ \A e \in Devices : e # d => frames'[e] = frames[e]
         /\ \A e \in Devices : DOMAIN frames'[e] \subseteq Nat
<1>1. frames[d] \in Seq(Copy) /\ frames[d] # <<>> /\ DOMAIN frames = Devices
  BY DEF StoreTypes, Takes
<1>2. Head(frames[d]) = frames[d][1] /\ 1 \in DOMAIN frames[d]
  BY <1>1
<1>3. frames'[d] = Tail(frames[d]) /\ \A e \in Devices : e # d => frames'[e] = frames[e]
  BY <1>1 DEF Takes
<1>4. \A k \in DOMAIN frames'[d] :
        k \in Nat /\ k + 1 \in DOMAIN frames[d] /\ frames'[d][k] = frames[d][k + 1]
  BY <1>1, <1>3
<1>5. \A e \in Devices : DOMAIN frames[e] \subseteq Nat
  BY DEF StoreTypes
<1>6. Dequeues
  <2> SUFFICES ASSUME NEW e \in Devices
               PROVE  \E o \in Nat : \A k \in DOMAIN frames'[e] :
                        k + o \in DOMAIN frames[e] /\ frames'[e][k] = frames[e][k + o]
    BY DEF Dequeues
  <2>1. CASE e = d
    BY <1>4, <2>1
  <2>2. CASE e # d
    <3>1. \A k \in DOMAIN frames'[e] :
            k + 0 \in DOMAIN frames[e] /\ frames'[e][k] = frames[e][k + 0]
      BY <1>3, <1>5, <2>2
    <3> QED
      BY <3>1
  <2> QED
    BY <2>1, <2>2
<1> QED
  BY <1>2, <1>3, <1>4, <1>5, <1>6

\* A message that is taken gets a stamp later than all, and its device sent it after
\* all of its messages that have one.
LEMMA BeginBase ==
  ASSUME BaseInv, NEW d \in Devices, Begin(d)
  PROVE  Composed' /\ OnTheWay' /\ OrderInv'
<1> DEFINE h == frames[d][1].id
           w == [dev |-> d, socket |-> socket[d].n, event |-> frames[d][1],
                 at |-> clock + 1, step |-> "insert"]
<1>1. IInv /\ StoreTypes /\ Composed /\ OnTheWay /\ OrderInv
  BY DEF BaseInv, IInv
<1>2. /\ Head(frames[d]) = frames[d][1] /\ 1 \in DOMAIN frames[d]
      /\ \A k \in DOMAIN frames'[d] :
           k \in Nat /\ k + 1 \in DOMAIN frames[d] /\ frames'[d][k] = frames[d][k + 1]
      /\ \A e \in Devices : e # d => frames'[e] = frames[e]
  BY <1>1, TakenFrame DEF Begin
<1>3. /\ work' = work \cup {w} /\ Connected(d)
      /\ UNCHANGED <<sent, copies, rows, socket>>
  BY <1>2 DEF Begin, Takes
<1>4. h \in Sent /\ Own(d, h)
  BY <1>1, <1>2 DEF OnTheWay
<1>5. clock \in Nat /\ socket[d].n \in Nat
  BY <1>1 DEF StoreTypes
<1>6. w.dev = d /\ w.socket = socket[d].n /\ w.event.id = h /\ w.at = clock + 1
      /\ w.step = "insert"
  OBVIOUS
<1>7. Stored' = Stored /\ Sent' = Sent /\ NoResend' = NoResend /\ \A e, i : Own(e, i)' = Own(e, i)
  BY <1>3 DEF Stored, Sent, NoResend, Own
<1> HIDE DEF w, h
<1>8. Composed'
  BY <1>1, <1>3, <1>7 DEF Composed
<1>9. OnTheWay'
  <2>1. \A e \in Devices : \A k \in DOMAIN frames'[e] :
          frames'[e][k].id \in Sent /\ Own(e, frames'[e][k].id)
    BY <1>1, <1>2 DEF OnTheWay
  <2>2. ASSUME NEW v \in work'
        PROVE  /\ v.event.id \in Sent /\ Own(v.dev, v.event.id)
               /\ v.socket <= socket[v.dev].n
               /\ v.socket = socket[v.dev].n => socket[v.dev].state # "opening"
    <3>1. CASE v \in work
      BY <1>1, <3>1 DEF OnTheWay
    <3>2. CASE v = w
      BY <1>3, <1>4, <1>5, <1>6, <3>2 DEF Connected
    <3> QED
      BY <1>3, <3>1, <3>2
  <2> QED
    BY <1>3, <1>7, <2>1, <2>2 DEF OnTheWay
<1>10. ASSUME NEW i, NEW t, Stamped(i, t)'
       PROVE  Stamped(i, t) \/ (i = h /\ t = clock + 1)
  BY <1>3, <1>6, <1>7, <1>10 DEF Stamped
<1>11. \A i \in Sent : \A t : Stamped(i, t) => t \in Nat /\ t <= clock
  BY <1>1, SentIds, StampsPast
<1>12. ASSUME NoResend, NEW i \in Sent, NEW t \in Nat, Own(d, i), Stamped(i, t) PROVE i < h
  BY <1>1, <1>2, <1>12 DEF OrderInv, FrameOrder, h
<1>13. Sent \subseteq Nat
  BY DEF Sent
<1>14. StampOrder'
  <2> SUFFICES ASSUME NEW i \in Sent, NEW j \in Sent, NEW t \in Nat, NEW u \in Nat,
                      Stamped(i, t)', Stamped(j, u)'
               PROVE  /\ t = u => i = j
                      /\ NoResend /\ sent[i].from = sent[j].from /\ i < j => t < u
    BY <1>3, <1>7 DEF StampOrder
  <2>1. CASE Stamped(i, t) /\ Stamped(j, u)
    BY <1>1, <2>1 DEF OrderInv, StampOrder
  <2>2. CASE i = h /\ t = clock + 1 /\ Stamped(j, u)
    <3>1. u <= clock
      BY <1>11, <2>2
    <3>2. NoResend /\ sent[i].from = sent[j].from => j < h
      BY <1>4, <1>12, <2>2 DEF Own
    <3> QED
      BY <1>5, <1>13, <2>2, <3>1, <3>2
  <2>3. CASE Stamped(i, t) /\ j = h /\ u = clock + 1
    BY <1>5, <1>11, <2>3
  <2>4. CASE i = h /\ j = h
    BY <1>13, <2>4
  <2> QED
    BY <1>10, <2>1, <2>2, <2>3, <2>4
<1>15. FrameOrder'
  <2> SUFFICES ASSUME NoResend, NEW e \in Devices, NEW k \in DOMAIN frames'[e]
               PROVE  /\ \A l \in DOMAIN frames'[e] :
                           k < l => frames'[e][k].id < frames'[e][l].id
                      /\ \A i \in Sent : \A t \in Nat :
                           Own(e, i) /\ Stamped(i, t)' => i < frames'[e][k].id
    BY <1>7 DEF FrameOrder
  <2>1. CASE e = d
    <3>1. k \in Nat /\ k + 1 \in DOMAIN frames[d] /\ frames'[d][k] = frames[d][k + 1]
      BY <1>2, <2>1
    <3>2. \A l \in DOMAIN frames[d] : k + 1 < l => frames[d][k + 1].id < frames[d][l].id
      BY <1>1, <3>1 DEF OrderInv, FrameOrder
    <3>3. \A i \in Sent : \A t \in Nat : Own(d, i) /\ Stamped(i, t) => i < frames[d][k + 1].id
      BY <1>1, <3>1 DEF OrderInv, FrameOrder
    <3>4. h < frames[d][k + 1].id
      <4>1. \A l \in DOMAIN frames[d] : 1 < l => h < frames[d][l].id
        BY <1>1, <1>2 DEF OrderInv, FrameOrder, h
      <4>2. k # 0
        <5>1. frames' \in [Devices -> Seq(Copy)]
          BY <1>1, FrameTaken DEF Begin
        <5> QED
          BY <2>1, <5>1
      <4> QED
        BY <3>1, <4>1, <4>2
    <3>5. ASSUME NEW l \in DOMAIN frames'[d], k < l PROVE frames'[d][k].id < frames'[d][l].id
      <4>1. l \in Nat /\ l + 1 \in DOMAIN frames[d] /\ frames'[d][l] = frames[d][l + 1]
        BY <1>2
      <4> QED
        BY <3>1, <3>2, <3>5, <4>1
    <3> QED
      BY <1>10, <2>1, <3>1, <3>3, <3>4, <3>5
  <2>2. CASE e # d
    <3>1. /\ \A l \in DOMAIN frames[e] : k < l => frames[e][k].id < frames[e][l].id
          /\ \A i \in Sent : \A t \in Nat :
               Own(e, i) /\ Stamped(i, t) => i < frames[e][k].id
      BY <1>1, <1>2, <2>2 DEF OrderInv, FrameOrder
    <3>2. ~Own(e, h)
      BY <1>4, <2>2 DEF Own
    <3> QED
      BY <1>2, <1>10, <2>2, <3>1, <3>2
  <2> QED
    BY <2>1, <2>2
<1> QED
  BY <1>8, <1>9, <1>14, <1>15 DEF OrderInv

\* A refused frame: nothing is stamped.
LEMMA RefuseBase ==
  ASSUME BaseInv, NEW d \in Devices, Refuse(d)
  PROVE  Composed' /\ OnTheWay' /\ OrderInv'
<1>1. IInv /\ StoreTypes /\ Composed /\ OnTheWay /\ OrderInv
  BY DEF BaseInv, IInv
<1>2. Takes(d) /\ UNCHANGED <<sent, copies, rows, socket, work>>
  BY DEF Refuse
<1>3. /\ Dequeues /\ \A e \in Devices : DOMAIN frames'[e] \subseteq Nat
      /\ \A k \in DOMAIN frames'[d] :
           k + 1 \in DOMAIN frames[d] /\ frames'[d][k] = frames[d][k + 1]
      /\ \A e \in Devices : e # d => frames'[e] = frames[e]
  BY <1>1, <1>2, TakenFrame
<1>4. Stored' = Stored /\ Sent' = Sent /\ \A e, i : Own(e, i)' = Own(e, i)
  BY <1>2 DEF Stored, Sent, Own
<1>5. StampsKept
  BY <1>2, <1>4 DEF StampsKept, Stamped
<1>6. OrderInv'
  BY <1>1, <1>2, <1>3, <1>5, OrderKept
<1>7. \A e \in Devices : \A k \in DOMAIN frames'[e] :
        frames'[e][k].id \in Sent /\ Own(e, frames'[e][k].id)
  BY <1>1, <1>3 DEF OnTheWay
<1>8. OnTheWay'
  BY <1>1, <1>2, <1>4, <1>7 DEF OnTheWay
<1>9. Composed'
  BY <1>1, <1>2, <1>4 DEF Composed
<1> QED
  BY <1>6, <1>8, <1>9

\* An insert gives a row the stamp its handler had, or leaves the row that is there.
LEMMA InsertBase ==
  ASSUME BaseInv, NEW w \in work, Insert(w)
  PROVE  Composed' /\ OnTheWay' /\ OrderInv'
<1>1. IInv /\ StoreTypes /\ Composed /\ OnTheWay /\ OrderInv
  BY DEF BaseInv, IInv
<1>2. Inserts(w) /\ w.step = "insert" /\ UNCHANGED <<sent, copies, socket, frames>>
  BY <1>1, InsertView DEF Insert
<1>3. Sent' = Sent /\ \A e, i : Own(e, i)' = Own(e, i)
  BY <1>2 DEF Sent, Own
<1>4. PICK v : /\ v.event = w.event /\ v.dev = w.dev /\ v.socket = w.socket
               /\ v.step = "publish" /\ work' = (work \ {w}) \cup {v}
  BY <1>2 DEF Inserts
<1>5. StampsKept
  <2> SUFFICES ASSUME NEW i, NEW t, Stamped(i, t)' PROVE Stamped(i, t)
    BY DEF StampsKept
  <2>1. CASE i \in Stored' /\ t = rows'[i].at
    <3>1. CASE i \in Stored
      BY <1>2, <2>1, <3>1 DEF Stamped, Inserts
    <3>2. CASE i \notin Stored
      <4>1. i = w.event.id /\ t = w.at
        BY <1>2, <2>1, <3>2 DEF Inserts
      <4> QED
        BY <1>2, <4>1 DEF Stamped
    <3> QED
      BY <3>1, <3>2
  <2>2. CASE \E u \in work' : u.step = "insert" /\ u.event.id = i /\ u.at = t
    BY <1>4, <2>2 DEF Stamped
  <2> QED
    BY <2>1, <2>2 DEF Stamped
<1>6. Dequeues /\ \A d \in Devices : DOMAIN frames'[d] \subseteq Nat
  <2>1. \A d \in Devices : DOMAIN frames[d] \subseteq Nat
    BY <1>1 DEF StoreTypes
  <2>2. \A d \in Devices : \A k \in DOMAIN frames'[d] :
          k + 0 \in DOMAIN frames[d] /\ frames'[d][k] = frames[d][k + 0]
    BY <1>2, <2>1
  <2> QED
    BY <1>2, <2>1, <2>2 DEF Dequeues
<1>7. OrderInv'
  BY <1>1, <1>2, <1>5, <1>6, OrderKept
<1>8. w.event.id \in Sent
  BY <1>1 DEF OnTheWay
<1>9. Composed'
  BY <1>1, <1>2, <1>3, <1>8 DEF Composed, Inserts
<1>10. OnTheWay'
  <2>1. ASSUME NEW u \in work'
        PROVE  /\ u.event.id \in Sent /\ Own(u.dev, u.event.id)
               /\ u.socket <= socket[u.dev].n
               /\ u.socket = socket[u.dev].n => socket[u.dev].state # "opening"
    <3>1. CASE u \in work
      BY <1>1, <3>1 DEF OnTheWay
    <3>2. CASE u = v
      BY <1>1, <1>4, <3>2 DEF OnTheWay
    <3> QED
      BY <1>4, <3>1, <3>2
  <2> QED
    BY <1>1, <1>2, <1>3, <2>1 DEF OnTheWay
<1> QED
  BY <1>7, <1>9, <1>10

\* Steps of the server that stamp and store nothing.
LEMMA TablesBase ==
  ASSUME BaseInv, UNCHANGED <<sent, copies, rows, socket, frames>>, work' \subseteq work
  PROVE  Composed' /\ OnTheWay' /\ OrderInv'
<1>1. IInv /\ StoreTypes /\ Composed /\ OnTheWay /\ OrderInv
  BY DEF BaseInv, IInv
<1>2. Stored' = Stored /\ Sent' = Sent /\ \A e, i : Own(e, i)' = Own(e, i)
  BY DEF Stored, Sent, Own
<1>3. StampsKept
  BY <1>2 DEF StampsKept, Stamped
<1>4. Dequeues /\ \A d \in Devices : DOMAIN frames'[d] \subseteq Nat
  <2>1. \A d \in Devices : DOMAIN frames[d] \subseteq Nat
    BY <1>1 DEF StoreTypes
  <2>2. \A d \in Devices : \A k \in DOMAIN frames'[d] :
          k + 0 \in DOMAIN frames[d] /\ frames'[d][k] = frames[d][k + 0]
    BY <2>1
  <2> QED
    BY <2>1, <2>2 DEF Dequeues
<1>5. OrderInv'
  BY <1>1, <1>3, <1>4, OrderKept
<1>6. Composed'
  BY <1>1, <1>2 DEF Composed
<1>7. OnTheWay'
  BY <1>1, <1>2 DEF OnTheWay
<1> QED
  BY <1>5, <1>6, <1>7

\* Every step of the server keeps the base.
LEMMA ServerBase ==
  ASSUME BaseInv, ServerStep, UNCHANGED client
  PROVE  BaseInv'
<1>1. ASSUME NEW d \in Devices, Begin(d) \/ Refuse(d) PROVE Composed' /\ OnTheWay' /\ OrderInv'
  BY <1>1, BeginBase, RefuseBase
<1>2. ASSUME NEW w \in work, Insert(w) PROVE Composed' /\ OnTheWay' /\ OrderInv'
  BY <1>2, InsertBase
<1>3. ASSUME NEW w \in work, Publish(w) PROVE Composed' /\ OnTheWay' /\ OrderInv'
  <2>1. UNCHANGED <<sent, copies, rows, socket, frames>> /\ work' \subseteq work
    BY <1>3 DEF Publish
  <2> QED
    BY <2>1, TablesBase
<1>4. ASSUME NEW u \in Users, AddMember(u) \/ RemoveMember(u)
      PROVE  Composed' /\ OnTheWay' /\ OrderInv'
  <2>1. UNCHANGED <<sent, copies, rows, socket, frames>> /\ work' \subseteq work
    BY <1>4 DEF AddMember, RemoveMember
  <2> QED
    BY <2>1, TablesBase
<1>5. Composed' /\ OnTheWay' /\ OrderInv'
  BY <1>1, <1>2, <1>3, <1>4 DEF ServerStep
<1>6. IInv'
  BY ServerInv DEF BaseInv
<1>7. ClientTypes'
  BY DEF BaseInv, ClientTypes, client
<1> QED
  BY <1>5, <1>6, <1>7 DEF BaseInv

\* A device sends nothing new.
LEMMA QuieterBase ==
  ASSUME BaseInv, NEW d \in Devices, Device(d), Quieter(d)
  PROVE  Composed' /\ OnTheWay' /\ OrderInv'
<1>1. IInv /\ StoreTypes /\ ClientTypes /\ Composed /\ OnTheWay /\ OrderInv /\ Shapes
  BY Shaped DEF BaseInv, IInv
<1>2. UNCHANGED <<rows, work>>
  BY DeviceTables
<1>3. \A e \in Devices : e # d => frames'[e] = frames[e] /\ socket'[e] = socket[e]
  BY <1>1, OthersUntouched DEF Untouched, SameLink
<1>4. \A e \in Devices : DOMAIN frames'[e] \subseteq Nat
  <2>1. \A e \in Devices : DOMAIN frames[e] \subseteq Nat
    BY <1>1 DEF StoreTypes
  <2> QED
    BY <1>3, <2>1 DEF Quieter
<1>5. \A e \in Devices : \A k \in DOMAIN frames'[e] :
        k + 0 \in DOMAIN frames[e] /\ frames'[e][k] = frames[e][k + 0]
  <2>1. \A e \in Devices : frames'[e] = frames[e] \/ frames'[e] = <<>>
    BY <1>3 DEF Quieter
  <2>2. DOMAIN <<>> = {}
    OBVIOUS
  <2> QED
    BY <1>4, <2>1, <2>2
<1>6. Dequeues
  BY <1>5 DEF Dequeues
<1>7. Stored' = Stored /\ Sent' = Sent /\ \A e, i : Own(e, i)' = Own(e, i)
  BY <1>2 DEF Quieter, Stored, Sent, Own
<1>8. StampsKept
  BY <1>2, <1>7 DEF StampsKept, Stamped
<1>9. OrderInv'
  BY <1>1, <1>4, <1>6, <1>8, OrderKept DEF Quieter
<1>10. Composed'
  BY <1>1, <1>2, <1>7 DEF Composed, Quieter
<1>11. OnTheWay'
  <2>1. \A e \in Devices : \A k \in DOMAIN frames'[e] :
          frames'[e][k].id \in Sent /\ Own(e, frames'[e][k].id)
    <3>1. \A e \in Devices : \A k \in DOMAIN frames'[e] :
            k \in DOMAIN frames[e] /\ frames'[e][k] = frames[e][k]
      BY <1>4, <1>5
    <3> QED
      BY <1>1, <3>1 DEF OnTheWay
  <2>2. ASSUME NEW w \in work
        PROVE  /\ w.socket <= socket'[w.dev].n
               /\ w.socket = socket'[w.dev].n => socket'[w.dev].state # "opening"
    <3>1. w \in Job /\ w.dev \in Devices /\ w.socket \in Nat
      BY <1>1 DEF StoreTypes, Job
    <3>2. /\ socket[w.dev].n \in Nat /\ w.socket <= socket[w.dev].n
          /\ w.socket = socket[w.dev].n => socket[w.dev].state # "opening"
      BY <1>1, <3>1 DEF OnTheWay, StoreTypes
    <3>3. CASE w.dev # d
      BY <1>3, <3>1, <3>2, <3>3
    <3>4. CASE w.dev = d
      <4>1. \/ socket'[d] = socket[d]
            \/ socket'[d] = [n |-> socket[d].n + 1, state |-> "opening"]
            \/ socket'[d] = [n |-> socket[d].n, state |-> "open"]
            \/ socket'[d] = [n |-> socket[d].n, state |-> "closed"]
        BY <1>1, DeviceLink
      <4> QED
        BY <3>1, <3>2, <3>4, <4>1
    <3> QED
      BY <3>3, <3>4
  <2>3. \A w \in work : w.event.id \in Sent /\ Own(w.dev, w.event.id)
    BY <1>1 DEF OnTheWay
  <2> QED
    BY <1>2, <1>7, <2>1, <2>2, <2>3 DEF OnTheWay
<1> QED
  BY <1>9, <1>10, <1>11

\* A device sends a new message: it is later than all that came before.
LEMMA SendsNewBase ==
  ASSUME BaseInv, NEW d \in Devices, Device(d), SendsNew(d)
  PROVE  Composed' /\ OnTheWay' /\ OrderInv'
<1>0. PICK n : n = Len(sent) + 1
  OBVIOUS
<1>1. IInv /\ StoreTypes /\ ClientTypes /\ Composed /\ OnTheWay /\ OrderInv /\ Shapes
  BY Shaped DEF BaseInv, IInv
<1>2. UNCHANGED <<rows, work>>
  BY DeviceTables
<1>3. \A e \in Devices : e # d => frames'[e] = frames[e] /\ socket'[e] = socket[e]
  BY <1>1, OthersUntouched DEF Untouched, SameLink
<1>4. PICK m \in Message : Composes(d, m) /\ socket'[d] = socket[d]
  BY DEF SendsNew
<1>5. /\ n \in Ids /\ m.from = d /\ sent' = Append(sent, m) /\ sent \in Seq(Message)
      /\ Len(sent) \in Nat
  BY <1>0, <1>1, <1>4 DEF Composes, Composed
<1>6. /\ sent' \in Seq(Message) /\ Len(sent') = n /\ Sent' = Sent \cup {n} /\ sent'[n] = m
      /\ \A i \in Sent : sent'[i] = sent[i] /\ i < n
  BY <1>0, <1>5 DEF Sent
<1>7. copies' = [copies EXCEPT ![n] = 1] /\ copies \in [Ids -> Nat]
  BY <1>0, <1>1, <1>4 DEF Composes, StoreTypes
<1>8. Sent \subseteq Ids
  BY <1>1, SentIds
<1>9. copies'[n] = 1 /\ \A i \in Sent : copies'[i] = copies[i]
  BY <1>5, <1>6, <1>7, <1>8
<1>10. Stored' = Stored
  BY <1>2 DEF Stored
<1>11. Composed'
  BY <1>1, <1>5, <1>6, <1>9, <1>10 DEF Composed, Ids
<1>12. NoResend' => NoResend
  BY <1>6, <1>9 DEF NoResend
<1>13. /\ \A e : \A i \in Sent : Own(e, i)' = Own(e, i)
       /\ \A e : (sent'[n].from = e) <=> e = d
  BY <1>5, <1>6 DEF Own
<1>14. ASSUME NEW e \in Devices, NEW k \in DOMAIN frames'[e]
       PROVE  \/ k \in DOMAIN frames[e] /\ frames'[e][k] = frames[e][k]
              \/ e = d /\ k = Len(frames[d]) + 1 /\ frames'[d][k].id = n
  <2>1. CASE e = d
    <3>1. frames[d] \in Seq(Copy)
      BY <1>1 DEF StoreTypes
    <3>2. frames'[d] = frames[d] \/ frames'[d] = Append(frames[d], [id |-> n, copy |-> 1])
      BY <1>0, <1>4 DEF Composes
    <3> QED
      BY <1>14, <2>1, <3>1, <3>2
  <2>2. CASE e # d
    BY <1>3, <1>14, <2>2
  <2> QED
    BY <2>1, <2>2
<1>15. OnTheWay'
  <2>1. ASSUME NEW e \in Devices, NEW k \in DOMAIN frames'[e]
        PROVE  frames'[e][k].id \in Sent' /\ sent'[frames'[e][k].id].from = e
    <3>1. CASE k \in DOMAIN frames[e] /\ frames'[e][k] = frames[e][k]
      BY <1>1, <1>6, <3>1 DEF OnTheWay, Own
    <3>2. CASE e = d /\ frames'[d][k].id = n
      BY <1>6, <1>13, <3>2
    <3> QED
      BY <1>14, <3>1, <3>2
  <2>2. ASSUME NEW w \in work
        PROVE  /\ w.event.id \in Sent' /\ Own(w.dev, w.event.id)'
               /\ w.socket <= socket'[w.dev].n
               /\ w.socket = socket'[w.dev].n => socket'[w.dev].state # "opening"
    <3>1. w.dev \in Devices /\ socket'[w.dev] = socket[w.dev]
      BY <1>1, <1>3, <1>4 DEF StoreTypes, Job
    <3> QED
      BY <1>1, <1>6, <1>13, <3>1 DEF OnTheWay
  <2> QED
    BY <1>2, <2>1, <2>2 DEF OnTheWay, Own
<1>16. ASSUME NEW i, NEW t, Stamped(i, t)' PROVE Stamped(i, t) /\ i \in Sent
  <2>1. Stamped(i, t)
    BY <1>2, <1>10, <1>16 DEF Stamped
  <2> QED
    BY <1>1, <2>1 DEF Stamped, Composed, OnTheWay
<1>17. StampOrder'
  <2> SUFFICES ASSUME NEW i \in Sent', NEW j \in Sent', NEW t \in Nat, NEW u \in Nat,
                      Stamped(i, t)', Stamped(j, u)'
               PROVE  /\ t = u => i = j
                      /\ NoResend' /\ sent'[i].from = sent'[j].from /\ i < j => t < u
    BY DEF StampOrder
  <2>1. i \in Sent /\ j \in Sent /\ Stamped(i, t) /\ Stamped(j, u)
    BY <1>16
  <2> QED
    BY <1>1, <1>6, <1>12, <2>1 DEF OrderInv, StampOrder
<1>18. FrameOrder'
  <2> SUFFICES ASSUME NoResend', NEW e \in Devices, NEW k \in DOMAIN frames'[e]
               PROVE  /\ \A l \in DOMAIN frames'[e] :
                           k < l => frames'[e][k].id < frames'[e][l].id
                      /\ \A i \in Sent' : \A t \in Nat :
                           Own(e, i)' /\ Stamped(i, t)' => i < frames'[e][k].id
    BY DEF FrameOrder
  <2>1. \A l \in DOMAIN frames[e] : l \in 1..Len(frames[e]) /\ frames[e][l].id \in Sent
    BY <1>1 DEF OnTheWay, StoreTypes
  <2>2. CASE k \in DOMAIN frames[e] /\ frames'[e][k] = frames[e][k]
    <3>1. /\ \A l \in DOMAIN frames[e] : k < l => frames[e][k].id < frames[e][l].id
          /\ \A i \in Sent : \A t \in Nat :
               Own(e, i) /\ Stamped(i, t) => i < frames[e][k].id
      BY <1>1, <1>12, <2>2 DEF OrderInv, FrameOrder
    <3>2. \A l \in DOMAIN frames'[e] : k < l => frames'[e][k].id < frames'[e][l].id
      BY <1>6, <1>14, <2>1, <2>2, <3>1
    <3> QED
      BY <1>13, <1>16, <2>2, <3>1, <3>2
  <2>3. CASE e = d /\ k = Len(frames[d]) + 1 /\ frames'[d][k].id = n
    <3>1. ASSUME NEW l \in DOMAIN frames'[e], k < l PROVE FALSE
      <4>1. Len(frames[d]) \in Nat
        BY <1>1 DEF StoreTypes
      <4> QED
        BY <1>14, <2>1, <2>3, <3>1, <4>1
    <3>2. \A i \in Sent' : \A t \in Nat : Stamped(i, t)' => i < frames'[e][k].id
      BY <1>6, <1>16, <2>3
    <3> QED
      BY <3>1, <3>2
  <2> QED
    BY <1>14, <2>2, <2>3
<1> QED
  BY <1>11, <1>15, <1>17, <1>18 DEF OrderInv

\* A device sends one of its messages again: it is a message that was sent twice.
LEMMA SendsAgainBase ==
  ASSUME BaseInv, NEW d \in Devices, Device(d), SendsAgain(d)
  PROVE  Composed' /\ OnTheWay' /\ OrderInv'
<1>1. IInv /\ StoreTypes /\ ClientTypes /\ Composed /\ OnTheWay /\ OrderInv /\ Shapes
  BY Shaped DEF BaseInv, IInv
<1>2. UNCHANGED <<rows, work>>
  BY DeviceTables
<1>3. \A e \in Devices : socket'[e] = socket[e] /\ (e # d => frames'[e] = frames[e])
  BY <1>1, OthersUntouched DEF Untouched, SameLink, SendsAgain
<1>4. PICK n \in Sent :
        /\ Own(d, n) /\ n \in Ids /\ copies' = [copies EXCEPT ![n] = @ + 1]
        /\ frames'[d] = Append(frames[d], [id |-> n, copy |-> copies[n] + 1])
  BY DEF SendsAgain
<1>5. Stored' = Stored /\ Sent' = Sent /\ \A e, i : Own(e, i)' = Own(e, i)
  BY <1>2 DEF SendsAgain, Stored, Sent, Own
<1>6. copies \in [Ids -> Nat] /\ Sent \subseteq Ids /\ \A i \in Sent : copies[i] >= 1
  BY <1>1, SentIds DEF StoreTypes, Composed
<1>7. copies'[n] = copies[n] + 1 /\ \A i \in Sent : copies'[i] >= 1
  BY <1>4, <1>6
<1>8. Composed'
  BY <1>1, <1>5, <1>7 DEF Composed, SendsAgain
<1>9. ~NoResend'
  BY <1>4, <1>5, <1>6, <1>7 DEF NoResend
<1>10. StampsKept
  BY <1>2, <1>5 DEF StampsKept, Stamped
<1>11. StampOrder'
  BY <1>1, <1>5, <1>9, <1>10 DEF OrderInv, StampOrder, StampsKept
<1>12. FrameOrder'
  BY <1>9 DEF FrameOrder
<1>13. OnTheWay'
  <2>1. ASSUME NEW e \in Devices, NEW k \in DOMAIN frames'[e]
        PROVE  frames'[e][k].id \in Sent /\ Own(e, frames'[e][k].id)
    <3>1. CASE e = d
      <4>1. frames[d] \in Seq(Copy)
        BY <1>1 DEF StoreTypes
      <4>2. \/ k \in DOMAIN frames[d] /\ frames'[d][k] = frames[d][k]
            \/ frames'[d][k] = [id |-> n, copy |-> copies[n] + 1]
        BY <1>4, <2>1, <3>1, <4>1
      <4> QED
        BY <1>1, <1>4, <3>1, <4>2 DEF OnTheWay
    <3>2. CASE e # d
      BY <1>1, <1>3, <3>2 DEF OnTheWay
    <3> QED
      BY <3>1, <3>2
  <2>2. ASSUME NEW w \in work PROVE socket'[w.dev] = socket[w.dev]
    BY <1>1, <1>3 DEF StoreTypes, Job
  <2> QED
    BY <1>1, <1>2, <1>5, <2>1, <2>2 DEF OnTheWay
<1> QED
  BY <1>8, <1>11, <1>12, <1>13 DEF OrderInv

-----------------------------------------------------------------------------
(* The types of what the devices hold                                      *)

\* No two rows have the same stamp.
LEMMA RowsApart ==
  ASSUME IInv, Composed, OrderInv, NEW i \in Stored, NEW j \in Stored,
         rows[i].at = rows[j].at
  PROVE  i = j
<1>1. i \in Sent /\ j \in Sent /\ rows[i].at \in Nat
  BY DEF Composed, IInv, StoreTypes, Stored
<1>2. Stamped(i, rows[i].at) /\ Stamped(j, rows[j].at)
  BY DEF Stamped
<1> QED
  BY <1>1, <1>2 DEF OrderInv, StampOrder

\* The page of a history request: the recent rows with an envelope for the device,
\* each of them once.
Page(d) == {i \in Recent : room \/ d \in sent[i].for}

\* A history holds each row of its page, and nothing else.
LEMMA HistoryPage ==
  ASSUME IInv, Composed, OrderInv, NEW d
  PROVE  /\ HistoryFor(d) \in Seq(Ids)
         /\ \A k \in DOMAIN HistoryFor(d) : HistoryFor(d)[k] \in Page(d)
         /\ \A i \in Page(d) : \E k \in DOMAIN HistoryFor(d) : HistoryFor(d)[k] = i
<1> DEFINE page == Page(d)
           N == Cardinality(page)
           R == {q \in page \X page : rows[q[1]].at <= rows[q[2]].at}
           Place == PlacesIn(page, R)
           h == HistoryFor(d)
<1>1. page \subseteq Stored /\ page \subseteq Ids
  BY DEF Page, Recent, Stored
<1>2. IsFiniteSet(page) /\ N \in Nat
  <2>1. IsFiniteSet(Ids)
    BY FS_Interval, StoreAssumption DEF Ids, MaxMessages, StoreAssumption
  <2> QED
    BY <1>1, <2>1, FS_Subset, FS_CardinalityType
<1>3. \A i \in page : rows[i].at \in Nat
  BY <1>1 DEF IInv, StoreTypes
<1>4. \A i, j \in page : <<i, j>> \in R <=> rows[i].at <= rows[j].at
  OBVIOUS
<1>5. \A i, j \in page : rows[i].at = rows[j].at => i = j
  BY <1>1, RowsApart
<1>6. \A i \in page : Place[i] = Cardinality({j \in page : rows[j].at <= rows[i].at})
  <2> SUFFICES ASSUME NEW i \in page
               PROVE  Place[i] = Cardinality({j \in page : rows[j].at <= rows[i].at})
    OBVIOUS
  <2>1. {j \in page : <<j, i>> \in R} = {j \in page : rows[j].at <= rows[i].at}
    BY <1>4
  <2>2. Place[i] = Cardinality({j \in page : <<j, i>> \in R})
    BY DEF PlacesIn
  <2> QED
    BY <2>1, <2>2
<1> DEFINE P(i) == Cardinality({j \in page : rows[j].at <= rows[i].at})
<1>7. h = [k \in 1..N |-> CHOOSE i \in page : P(i) = k]
  BY DEF HistoryFor, Page
<1>8. \A i \in page : Place[i] = P(i)
  BY <1>6
<1> HIDE DEF P, h
<1>9. IsTotalOrder(page, R)
  <2> HIDE DEF R, page
  <2> QED
    BY <1>3, <1>4, <1>5 DEF IsTotalOrder
<1>10. /\ Place \in [page -> 1..N]
       /\ \A i, j \in page : Place[i] = Place[j] => i = j
       /\ \A k \in 1..N : \E i \in page : Place[i] = k
  <2>1. Place = PlacesIn(page, R)
    OBVIOUS
  <2> HIDE DEF R, page, Place
  <2> QED
    BY <1>2, <1>9, <2>1, Places
<1> HIDE DEF Place, R, page, N
<1>11. \A k \in 1..N : h[k] \in page /\ P(h[k]) = k
  <2> SUFFICES ASSUME NEW k \in 1..N PROVE h[k] \in page /\ P(h[k]) = k
    OBVIOUS
  <2>1. \E i \in page : P(i) = k
    BY <1>8, <1>10
  <2>2. h[k] = CHOOSE i \in page : P(i) = k
    BY <1>7
  <2> QED
    BY <2>1, <2>2
<1>12. \A i \in page : \E k \in 1..N : h[k] = i
  <2> SUFFICES ASSUME NEW i \in page PROVE \E k \in 1..N : h[k] = i
    OBVIOUS
  <2>1. Place[i] \in 1..N
    BY <1>10
  <2>2. h[Place[i]] \in page /\ Place[h[Place[i]]] = Place[i]
    BY <1>8, <1>11, <2>1
  <2> QED
    BY <1>10, <2>1, <2>2
<1>13. DOMAIN h = 1..N /\ h \in Seq(Ids)
  <2>1. \A k \in 1..N : h[k] \in Ids
    BY <1>1, <1>11
  <2>2. h = [k \in 1..N |-> h[k]]
    BY <1>7
  <2> QED
    BY <1>2, <2>1, <2>2
<1> QED
  BY <1>11, <1>12, <1>13 DEF h, page

\* The bubbles that are drawn, and what is decrypted.
LEMMA BubbleTyped ==
  /\ \A i \in Ids, t \in Nat : Optimistic(i, t) \in Bubble
  /\ \A r \in Result : Drawn(r) \in Bubble
BY DEF Optimistic, Drawn, Bubble, Result, States

\* A device's clock is at or ahead of the server's.
LEMMA LocalTimeTyped ==
  ASSUME IInv, NEW d \in Devices
  PROVE  LocalTime(d) \in Nat /\ LocalTime(d) >= clock /\ clock \in Nat
<1>1. clock \in Nat /\ Skew[d] \in Nat
  BY TimelineAssumption DEF IInv, StoreTypes, TimelineAssumption
<1> QED
  BY <1>1 DEF LocalTime

\* What decryptEnvelope resolves to has its type.
LEMMA ResolvedTyped ==
  ASSUME IInv, NEW d, NEW i \in Ids
  PROVE  Resolved(d, i) \in Result
<1>1. rows[i].at \in Nat
  BY DEF IInv, StoreTypes
<1>2. Opens(d, i) \in BOOLEAN
  <2>1. CASE Sender(i) = Owner[d]
    <3>1. Opens(d, i) = (i \in outgoing[d])
      BY <2>1 DEF Opens, Logged
    <3> QED
      BY <3>1
  <2>2. CASE Sender(i) # Owner[d]
    <3>1. Opens(d, i) = (d \in sent[i].for /\ i \notin spent[d])
      BY <2>2 DEF Opens
    <3> QED
      BY <3>1
  <2> QED
    BY <2>1, <2>2
<1> QED
  BY <1>1, <1>2 DEF Resolved, Result

\* The first of a sequence, and the rest of it.
LEMMA HeadTail ==
  ASSUME NEW A, NEW s \in Seq(A), s # <<>>
  PROVE  /\ Head(s) \in A /\ Head(s) = s[1] /\ 1 \in DOMAIN s /\ Tail(s) \in Seq(A)
         /\ \A k \in DOMAIN Tail(s) : k + 1 \in DOMAIN s /\ Tail(s)[k] = s[k + 1]
         /\ \A k \in DOMAIN s : k = 1 \/ (k - 1 \in DOMAIN Tail(s) /\ s[k] = Tail(s)[k - 1])
  OBVIOUS

\* A sequence with one more at its end.
LEMMA Appended ==
  ASSUME NEW A, NEW s \in Seq(A), NEW a \in A
  PROVE  /\ Append(s, a) \in Seq(A) /\ Len(s) \in Nat
         /\ DOMAIN Append(s, a) = DOMAIN s \cup {Len(s) + 1} /\ Len(s) + 1 \notin DOMAIN s
         /\ \A k \in DOMAIN s : Append(s, a)[k] = s[k] /\ k < Len(s) + 1
         /\ Append(s, a)[Len(s) + 1] = a
  OBVIOUS

\* Drawing results keeps a thread a list of bubbles, one for a message.
LEMMA DrawOneTyped ==
  ASSUME NEW s \in Seq(Bubble), Distinct(s), NEW r \in Result
  PROVE  DrawOne(s, r) \in Seq(Bubble) /\ Distinct(DrawOne(s, r))
<1>1. Drawn(r) \in Bubble
  BY BubbleTyped
<1>2. mergeMessages(s, Drawn(r)) \in Seq(Bubble) /\ Distinct(mergeMessages(s, Drawn(r)))
  BY <1>1, Merged
<1> QED
  BY <1>2 DEF DrawOne

\* What is drawn onto a thread leaves it typed, with one bubble of a message.
LEMMA DrawOntoTyped ==
  ASSUME NEW s \in Seq(Bubble), Distinct(s), NEW results \in Seq(Result)
  PROVE  DrawOnto(s, results) \in Seq(Bubble) /\ Distinct(DrawOnto(s, results))
<1> DEFINE N == Len(results)
<1>1. N \in Nat /\ \A n \in 1..N : results[n] \in Result
  OBVIOUS
<1>2. PICK drawn : /\ drawn[0] = s /\ drawn[N] = DrawOnto(s, results)
                   /\ \A n \in 1..N : drawn[n] = DrawOne(drawn[n - 1], results[n])
  BY <1>1, DrawOntoSteps
<1> DEFINE G == {n \in 0..N : drawn[n] \in Seq(Bubble) /\ Distinct(drawn[n])}
<1> HIDE DEF N
<1>3. 0 \in G
  BY <1>1, <1>2
<1>4. ASSUME NEW n \in 1..N, n - 1 \in G PROVE n \in G
  <2>1. drawn[n] = DrawOne(drawn[n - 1], results[n])
    BY <1>2
  <2>2. drawn[n] \in Seq(Bubble) /\ Distinct(drawn[n])
    BY <1>1, <1>4, <2>1, DrawOneTyped
  <2> QED
    BY <1>1, <2>2
<1> HIDE DEF G
<1>5. N \in G
  BY <1>1, <1>3, <1>4, CountUp
<1> QED
  BY <1>2, <1>5 DEF G

\* mergeReactions logs a reaction once.
LEMMA MergedReaction ==
  ASSUME NEW s \in Seq(Reaction), NEW r \in Reaction, NEW t, t = mergeReactions(s, r)
  PROVE  /\ t \in Seq(Reaction)
         /\ \/ Lists(s, r.id) /\ t = s
            \/ ~Lists(s, r.id) /\ t = Append(s, r)
         /\ Lists(t, r.id) /\ \A i : Lists(s, i) => Lists(t, i)
         /\ \A i : Lists(t, i) => Lists(s, i) \/ i = r.id
<1>1. CASE Lists(s, r.id)
  BY <1>1 DEF Lists, mergeReactions
<1>2. CASE ~Lists(s, r.id)
  <2>1. t = Append(s, r)
    BY <1>2 DEF Lists, mergeReactions
  <2>2. /\ t \in Seq(Reaction) /\ Len(s) \in Nat
        /\ DOMAIN t = DOMAIN s \cup {Len(s) + 1}
        /\ \A k \in DOMAIN s : t[k] = s[k]
        /\ t[Len(s) + 1] = r
    BY <2>1, Appended
  <2> QED
    BY <1>2, <2>1, <2>2 DEF Lists
<1> QED
  BY <1>1, <1>2

\* A log stays typed, and keeps what it lists.
LEMMA ReactOneTyped ==
  ASSUME NEW s \in Seq(Reaction), NEW r \in Result
  PROVE  ReactOne(s, r) \in Seq(Reaction) /\ \A i : Lists(s, i) => Lists(ReactOne(s, r), i)
<1>1. LogEntry(r) \in Reaction
  BY DEF LogEntry, Reaction, Result
<1>2. /\ mergeReactions(s, LogEntry(r)) \in Seq(Reaction)
      /\ \A i : Lists(s, i) => Lists(mergeReactions(s, LogEntry(r)), i)
  BY <1>1, MergedReaction
<1> QED
  BY <1>2 DEF ReactOne

\* The same for all that was opened.
LEMMA ReactAllTyped ==
  ASSUME NEW s \in Seq(Reaction), NEW results \in Seq(Result)
  PROVE  ReactAll(s, results) \in Seq(Reaction)
<1> DEFINE N == Len(results)
<1>1. N \in Nat /\ \A n \in 1..N : results[n] \in Result
  OBVIOUS
<1>2. PICK log : /\ log[0] = s /\ log[N] = ReactAll(s, results)
                 /\ \A n \in 1..N : log[n] = ReactOne(log[n - 1], results[n])
  BY <1>1, ReactAllSteps
<1> DEFINE G == {n \in 0..N : log[n] \in Seq(Reaction)}
<1> HIDE DEF N
<1>3. 0 \in G
  BY <1>1, <1>2
<1>4. ASSUME NEW n \in 1..N, n - 1 \in G PROVE n \in G
  <2>1. log[n] = ReactOne(log[n - 1], results[n])
    BY <1>2
  <2>2. log[n] \in Seq(Reaction)
    BY <1>1, <1>4, <2>1, ReactOneTyped
  <2> QED
    BY <1>1, <2>2
<1> HIDE DEF G
<1>5. N \in G
  BY <1>1, <1>3, <1>4, CountUp
<1> QED
  BY <1>2, <1>5 DEF G

\* Which threads a step may leave as bubbles of one message each.
LEMMA MessagesTyped ==
  ASSUME ClientTypes, NEW d \in Devices, NEW s \in Seq(Bubble), Distinct(s),
         messages' = messages \/ messages' = [messages EXCEPT ![d] = s]
  PROVE  messages' \in [Devices -> Seq(Bubble)] /\ \A e \in Devices : Distinct(messages'[e])
<1>1. messages \in [Devices -> Seq(Bubble)] /\ \A e \in Devices : Distinct(messages[e])
  BY DEF ClientTypes
<1> QED
  BY <1>1

\* The empty sequence is a thread, a log, a history and a queue.
LEMMA EmptyThread ==
  <<>> \in Seq(Bubble) /\ Distinct(<<>>) /\ <<>> \in Seq(Reaction) /\ <<>> \in Seq(Ids)
  /\ <<>> \in Seq(Result) /\ DOMAIN <<>> = {}
<1>1. DOMAIN <<>> = {}
  OBVIOUS
<1> QED
  BY <1>1 DEF Distinct

\* Types after a step of the session, or between threads.
LEMMA SessionTypes ==
  ASSUME BaseInv, NEW d \in Devices,
         Load(d) \/ Refresh(d) \/ SocketOpens(d) \/ SocketLost(d) \/ Leave(d) \/ Return(d)
  PROVE  ClientTypes'
<1>1. ClientTypes /\ Len(sent) \in Nat
  BY SentIds DEF BaseInv
<1>2. CASE Load(d)
  <2>1. messages' \in [Devices -> Seq(Bubble)] /\ \A e \in Devices : Distinct(messages'[e])
    BY <1>1, <1>2, EmptyThread, MessagesTyped DEF Load, ResetThread
  <2>2. /\ thread' \in [Devices -> Threads] /\ fetch' \in [Devices -> {"idle", "asked", "ready"}]
        /\ intact' \in [Devices -> BOOLEAN] /\ covered' \in [Devices -> BOOLEAN]
        /\ live' \in [Devices -> Seq(Result)] /\ UNCHANGED <<outgoing, spent>>
    BY <1>1, <1>2, EmptyThread DEF Load, ClientTypes, Threads
  <2>3. /\ reactions' \in [Devices -> Seq(Reaction)] /\ records' \in [Devices -> Seq(Ids)]
        /\ todo' \in [Devices -> Seq(Ids)] /\ done' \in [Devices -> Seq(Result)]
        /\ base' \in [Devices -> Nat]
    BY <1>1, <1>2, EmptyThread DEF Load, ResetThread, ClientTypes
  <2> QED
    BY <1>1, <2>1, <2>2, <2>3 DEF ClientTypes
<1>3. CASE Refresh(d)
  <2>1. /\ todo' \in [Devices -> Seq(Ids)] /\ done' \in [Devices -> Seq(Result)]
        /\ intact' \in [Devices -> BOOLEAN] /\ covered' \in [Devices -> BOOLEAN]
        /\ UNCHANGED <<thread, messages, reactions, records, live, outgoing, spent, base>>
    BY <1>1, <1>3, EmptyThread DEF Refresh, ClientTypes
  <2>2. fetch' \in [Devices -> {"idle", "asked", "ready"}]
    BY <1>1, <1>3 DEF Refresh, ClientTypes
  <2> QED
    BY <1>1, <2>1, <2>2 DEF ClientTypes
<1>4. CASE SocketOpens(d)
  BY <1>1, <1>4 DEF SocketOpens, client, ClientTypes
<1>5. CASE SocketLost(d)
  <2>1. /\ intact' \in [Devices -> BOOLEAN] /\ covered' \in [Devices -> BOOLEAN]
        /\ UNCHANGED <<thread, messages, reactions, fetch, records, todo, done, live, outgoing,
                       spent, base>>
    BY <1>1, <1>5 DEF SocketLost, ClientTypes
  <2> QED
    BY <1>1, <2>1 DEF ClientTypes
<1>6. CASE Leave(d) \/ Return(d)
  <2>1. messages' \in [Devices -> Seq(Bubble)] /\ \A e \in Devices : Distinct(messages'[e])
    BY <1>1, <1>6, EmptyThread, MessagesTyped DEF Leave, Return, ResetThread
  <2>2. /\ thread' \in [Devices -> Threads] /\ fetch' \in [Devices -> {"idle", "asked", "ready"}]
        /\ intact' \in [Devices -> BOOLEAN] /\ covered' \in [Devices -> BOOLEAN]
        /\ UNCHANGED <<live, outgoing, spent>>
    BY <1>1, <1>6 DEF Leave, Return, ClientTypes, Threads
  <2>3. /\ reactions' \in [Devices -> Seq(Reaction)] /\ records' \in [Devices -> Seq(Ids)]
        /\ todo' \in [Devices -> Seq(Ids)] /\ done' \in [Devices -> Seq(Result)]
        /\ base' \in [Devices -> Nat]
    <3>1. ResetThread(d)
      BY <1>6 DEF Leave, Return
    <3> QED
      BY <1>1, <3>1, EmptyThread DEF ResetThread, ClientTypes
  <2> QED
    BY <1>1, <2>1, <2>2, <2>3 DEF ClientTypes
<1> QED
  BY <1>2, <1>3, <1>4, <1>5, <1>6

\* Types after a message was sent.
LEMMA SendingTypes ==
  ASSUME BaseInv, NEW d \in Devices, SendText(d) \/ ToggleReaction(d) \/ Resend(d)
  PROVE  ClientTypes'
<1> DEFINE n == Len(sent) + 1
<1>1. ClientTypes /\ LocalTime(d) \in Nat
  BY LocalTimeTyped DEF BaseInv
<1>2. CASE SendText(d)
  <2>1. n \in Ids /\ outgoing' = [outgoing EXCEPT ![d] = @ \cup {n}]
        /\ messages' = [messages EXCEPT ![d] = mergeMessages(@, Optimistic(n, LocalTime(d)))]
        /\ UNCHANGED <<thread, reactions, fetch, records, todo, done, live, spent, base, intact,
                       covered>>
    BY <1>2 DEF SendText, Compose, Log
  <2> HIDE DEF n
  <2>2. Optimistic(n, LocalTime(d)) \in Bubble
    BY <1>1, <2>1, BubbleTyped
  <2>3. messages[d] \in Seq(Bubble) /\ Distinct(messages[d])
    BY <1>1 DEF ClientTypes
  <2>4. /\ mergeMessages(messages[d], Optimistic(n, LocalTime(d))) \in Seq(Bubble)
        /\ Distinct(mergeMessages(messages[d], Optimistic(n, LocalTime(d))))
    BY <2>2, <2>3, Merged
  <2>5. messages' \in [Devices -> Seq(Bubble)] /\ \A e \in Devices : Distinct(messages'[e])
    BY <1>1, <2>1, <2>4, MessagesTyped
  <2>6. outgoing' \in [Devices -> SUBSET Ids]
    BY <1>1, <2>1 DEF ClientTypes
  <2> QED
    BY <1>1, <2>1, <2>5, <2>6 DEF ClientTypes
<1>3. CASE ToggleReaction(d)
  <2>1. /\ n \in Ids
        /\ reactions' = [reactions EXCEPT ![d] =
              mergeReactions(@, [id |-> n, at |-> LocalTime(d)])]
        /\ UNCHANGED <<thread, messages, fetch, records, todo, done, live, outgoing, spent, base,
                       intact, covered>>
    BY <1>3 DEF ToggleReaction, Compose
  <2> HIDE DEF n
  <2>2. [id |-> n, at |-> LocalTime(d)] \in Reaction /\ reactions[d] \in Seq(Reaction)
    BY <1>1, <2>1 DEF Reaction, ClientTypes
  <2>3. mergeReactions(reactions[d], [id |-> n, at |-> LocalTime(d)]) \in Seq(Reaction)
    BY <2>2, MergedReaction
  <2>4. reactions' \in [Devices -> Seq(Reaction)]
    BY <1>1, <2>1, <2>3 DEF ClientTypes
  <2> QED
    BY <1>1, <2>1, <2>4 DEF ClientTypes
<1>4. CASE Resend(d)
  BY <1>1, <1>4 DEF Resend, client, ClientTypes
<1> QED
  BY <1>2, <1>3, <1>4

\* Types after an envelope was opened.
LEMMA SpendTyped ==
  ASSUME ClientTypes, NEW d \in Devices, NEW i \in Ids, Spend(d, i)
  PROVE  spent' \in [Devices -> SUBSET Ids]
  BY DEF Spend, ClientTypes

\* Types after an event was received.
LEMMA ReceiveTypes ==
  ASSUME BaseInv, NEW d \in Devices, Receive(d)
  PROVE  ClientTypes'
<1>1. ClientTypes /\ IInv
  BY DEF BaseInv
<1>2. CASE ReceiveElsewhere(d)
  BY <1>1, <1>2 DEF ReceiveElsewhere, client, ClientTypes
<1>3. Head(inbox[d]) \in Copied
  <2>1. inbox[d] # <<>> /\ inbox[d] \in Seq(Copied)
    BY <1>1 DEF Receive, ReceiveElsewhere, ReceiveEcho, ReceiveLive, NextEvent, IInv, StoreTypes
  <2> QED
    BY <2>1
<1>4. Head(inbox[d]).id \in Ids /\ Head(inbox[d]).at \in Nat
  BY <1>3 DEF Copied
<1>5. CASE ReceiveEcho(d)
  <2>1. messages[d] \in Seq(Bubble) /\ Distinct(messages[d])
    BY <1>1 DEF ClientTypes
  <2>2. /\ acknowledgeMessage(messages[d], Head(inbox[d])) \in Seq(Bubble)
        /\ Distinct(acknowledgeMessage(messages[d], Head(inbox[d])))
    BY <1>4, <2>1, Acknowledged
  <2>3. /\ messages' = [messages EXCEPT ![d] = acknowledgeMessage(@, Head(inbox[d]))]
        /\ UNCHANGED <<thread, reactions, fetch, records, todo, done, live, outgoing, spent, base,
                       intact, covered>>
    BY <1>5 DEF ReceiveEcho
  <2>4. messages' \in [Devices -> Seq(Bubble)] /\ \A e \in Devices : Distinct(messages'[e])
    BY <1>1, <2>2, <2>3, MessagesTyped
  <2> QED
    BY <1>1, <2>3, <2>4 DEF ClientTypes
<1>6. CASE ReceiveLive(d)
  <2> DEFINE i == Head(inbox[d]).id
  <2>1. /\ live' = [live EXCEPT ![d] = Append(@, Resolved(d, i))] /\ Spend(d, i)
        /\ UNCHANGED <<thread, messages, reactions, fetch, records, todo, done, outgoing, base,
                       intact, covered>>
    BY <1>6 DEF ReceiveLive
  <2> HIDE DEF i
  <2>2. Resolved(d, i) \in Result
    BY <1>1, <1>4, ResolvedTyped DEF i
  <2>3. live' \in [Devices -> Seq(Result)]
    BY <1>1, <2>1, <2>2 DEF ClientTypes
  <2>4. spent' \in [Devices -> SUBSET Ids]
    BY <1>1, <1>4, <2>1, SpendTyped DEF i
  <2> QED
    BY <1>1, <2>1, <2>3, <2>4 DEF ClientTypes
<1> QED
  BY <1>2, <1>5, <1>6 DEF Receive

\* Types after a merge.
LEMMA MergeTypes ==
  ASSUME BaseInv, NEW d \in Devices, MergeLive(d) \/ MergeHistory(d)
  PROVE  ClientTypes'
<1>1. ClientTypes
  BY DEF BaseInv
<1>2. PICK results \in Seq(Result) :
        /\ messages' = [messages EXCEPT ![d] = DrawAll(@, results)]
        /\ reactions' = [reactions EXCEPT ![d] = ReactAll(@, results)]
  <2>1. CASE MergeLive(d)
    <3>1. live[d] \in Seq(Result) /\ live[d] # <<>>
      BY <1>1, <2>1 DEF ClientTypes, MergeLive
    <3>2. <<Head(live[d])>> \in Seq(Result)
      BY <3>1
    <3> QED
      BY <2>1, <3>2 DEF MergeLive
  <2>2. CASE MergeHistory(d)
    BY <1>1, <2>2 DEF ClientTypes, MergeHistory
  <2> QED
    BY <2>1, <2>2
<1>3. live' \in [Devices -> Seq(Result)] /\ done' \in [Devices -> Seq(Result)]
  <2>1. CASE MergeLive(d)
    <3>1. Tail(live[d]) \in Seq(Result)
      BY <1>1, <2>1 DEF ClientTypes, MergeLive
    <3> QED
      BY <1>1, <2>1, <3>1 DEF ClientTypes, MergeLive
  <2>2. CASE MergeHistory(d)
    BY <1>1, <2>2, EmptyThread DEF ClientTypes, MergeHistory
  <2> QED
    BY <2>1, <2>2
<1>4. UNCHANGED <<thread, fetch, records, todo, outgoing, spent, base, intact, covered>>
  BY DEF MergeLive, MergeHistory
<1>5. /\ messages[d] \in Seq(Bubble) /\ Distinct(messages[d]) /\ reactions[d] \in Seq(Reaction)
      /\ reactions \in [Devices -> Seq(Reaction)]
  BY <1>1 DEF ClientTypes
<1>6. DrawAll(messages[d], results) \in Seq(Bubble) /\ Distinct(DrawAll(messages[d], results))
  BY <1>2, <1>5, DrawOntoTyped DEF DrawAll
<1>7. messages' \in [Devices -> Seq(Bubble)] /\ \A e \in Devices : Distinct(messages'[e])
  BY <1>1, <1>2, <1>6, MessagesTyped
<1>8. ReactAll(reactions[d], results) \in Seq(Reaction)
  BY <1>2, <1>5, ReactAllTyped
<1>9. reactions' \in [Devices -> Seq(Reaction)]
  BY <1>2, <1>5, <1>8
<1> QED
  BY <1>1, <1>3, <1>4, <1>7, <1>9 DEF ClientTypes

\* Types after a step of the history.
LEMMA HistoryTypes ==
  ASSUME BaseInv, NEW d \in Devices, HistoryArrives(d) \/ DecryptRecord(d)
  PROVE  ClientTypes'
<1>1. ClientTypes /\ IInv /\ Composed /\ OrderInv
  BY DEF BaseInv
<1>2. CASE HistoryArrives(d)
  <2>1. HistoryFor(d) \in Seq(Ids)
    BY <1>1, HistoryPage
  <2>2. UNCHANGED <<thread, messages, reactions, live, outgoing, spent, base, intact>>
    BY <1>2 DEF HistoryArrives
  <2>3. Connected(d) \in BOOLEAN
    BY DEF Connected
  <2>4. /\ records' \in [Devices -> Seq(Ids)] /\ todo' \in [Devices -> Seq(Ids)]
        /\ done' \in [Devices -> Seq(Result)] /\ covered' \in [Devices -> BOOLEAN]
    <3>1. CASE Member(d)
      <4>1. /\ records' = [records EXCEPT ![d] = HistoryFor(d)]
            /\ todo' = [todo EXCEPT ![d] = HistoryFor(d)]
            /\ done' = [done EXCEPT ![d] = <<>>]
            /\ covered' = [covered EXCEPT ![d] = Connected(d)]
        BY <1>2, <3>1 DEF HistoryArrives
      <4>2. /\ records' \in [Devices -> Seq(Ids)] /\ todo' \in [Devices -> Seq(Ids)]
            /\ done' \in [Devices -> Seq(Result)]
        BY <1>1, <2>1, <4>1, EmptyThread DEF ClientTypes
      <4>3. covered' \in [Devices -> BOOLEAN]
        BY <1>1, <2>3, <4>1 DEF ClientTypes
      <4> QED
        BY <4>2, <4>3
    <3>2. CASE ~Member(d)
      BY <1>1, <1>2, <3>2 DEF HistoryArrives, ClientTypes
    <3> QED
      BY <3>1, <3>2
  <2>5. fetch' \in [Devices -> {"idle", "asked", "ready"}]
    BY <1>1, <1>2 DEF HistoryArrives, ClientTypes
  <2> QED
    BY <1>1, <2>2, <2>4, <2>5 DEF ClientTypes
<1>3. CASE DecryptRecord(d)
  <2> DEFINE i == Head(todo[d])
  <2>1. /\ todo[d] # <<>> /\ done' = [done EXCEPT ![d] = Append(@, Resolved(d, i))]
        /\ Spend(d, i) /\ todo' = [todo EXCEPT ![d] = Tail(@)]
        /\ UNCHANGED <<thread, messages, reactions, fetch, records, live, outgoing, base, intact,
                       covered>>
    BY <1>3 DEF DecryptRecord
  <2>2. todo[d] \in Seq(Ids)
    BY <1>1 DEF ClientTypes
  <2>3. i \in Ids /\ Tail(todo[d]) \in Seq(Ids)
    BY <2>1, <2>2
  <2> HIDE DEF i
  <2>4. Resolved(d, i) \in Result
    BY <1>1, <2>3, ResolvedTyped
  <2>5. done' \in [Devices -> Seq(Result)] /\ todo' \in [Devices -> Seq(Ids)]
    BY <1>1, <2>1, <2>3, <2>4 DEF ClientTypes
  <2>6. spent' \in [Devices -> SUBSET Ids]
    BY <1>1, <2>1, <2>3, SpendTyped
  <2> QED
    BY <1>1, <2>1, <2>5, <2>6 DEF ClientTypes
<1> QED
  BY <1>2, <1>3

\* Every step of a device keeps the base, and so does every step.
LEMMA DeviceBase ==
  ASSUME BaseInv, NEW d \in Devices, Device(d)
  PROVE  BaseInv'
<1>1. IInv'
  BY DeviceInv DEF BaseInv
<1>2. Composed' /\ OnTheWay' /\ OrderInv'
  <2>1. Quieter(d) \/ SendsNew(d) \/ SendsAgain(d)
    BY DeviceSends, Shaped DEF BaseInv, IInv
  <2> QED
    BY <2>1, QuieterBase, SendsNewBase, SendsAgainBase
<1>3. ClientTypes'
  BY SessionTypes, SendingTypes, ReceiveTypes, MergeTypes, HistoryTypes
  DEF Device, User, Session, History
<1> QED
  BY <1>1, <1>2, <1>3 DEF BaseInv

\* At first.
LEMMA BaseStart == ASSUME Init PROVE BaseInv
<1>1. IInv
  BY InitInv
<1>2. /\ sent = <<>> /\ work = {} /\ frames = [d \in Devices |-> <<>>]
      /\ rows = [i \in Ids |-> NoRow]
  BY DEF Init, StoreInit
<1>3. Stored = {} /\ Sent = {} /\ Len(sent) = 0 /\ sent \in Seq(Message)
  BY <1>2 DEF Stored, Sent
<1>4. Composed
  BY <1>3, StoreAssumption DEF Composed, StoreAssumption, MaxMessages
<1>5. OnTheWay /\ OrderInv
  BY <1>2, <1>3, EmptyThread DEF OnTheWay, OrderInv, StampOrder, FrameOrder
<1>6. ClientTypes
  BY EmptyThread DEF Init, ClientTypes, Threads
<1> QED
  BY <1>1, <1>4, <1>5, <1>6 DEF BaseInv

\* When nothing happens.
LEMMA BaseSame == ASSUME BaseInv, UNCHANGED vars PROVE BaseInv'
<1>1. IInv'
  BY DEF vars, store, BaseInv, IInv, StoreTypes, StampsInv, StoredInv, FirstCopyKept,
         RemovedHearNothing, Member
<1>2. ClientTypes'
  BY DEF vars, client, BaseInv, ClientTypes
<1>3. Composed' /\ OnTheWay' /\ OrderInv'
  BY TablesBase DEF vars, store
<1> QED
  BY <1>1, <1>2, <1>3 DEF BaseInv

\* Types, what was composed and the order of the stamps hold throughout.
LEMMA AlwaysBase == Spec => []BaseInv
<1>1. BaseInv /\ [Next]_vars => BaseInv'
  BY ServerBase, DeviceBase, BaseSame DEF Next
<1>2. Init => BaseInv
  BY BaseStart
<1> QED
  BY <1>1, <1>2, PTL DEF Spec

\* However a message becomes known to a device, as its own bubble before anything was
\* stored, in a live event or in the history, and in whatever order: it has one bubble
\* (lib/chat.ts mergeMessages and acknowledgeMessage, App.tsx:684-704).
THEOREM OneBubbleEach == Spec => []OneBubble
<1>1. BaseInv => OneBubble
  BY DEF BaseInv, ClientTypes, Distinct, OneBubble
<1> QED
  BY <1>1, AlwaysBase, PTL

-----------------------------------------------------------------------------
(* What a step never takes back                                            *)

\* Messages and rows are added and never changed, and who left once stays marked.
Grows ==
  /\ Len(sent) <= Len(sent') /\ \A i \in Sent : i \in Sent' /\ sent'[i] = sent[i]
  /\ \A i \in Stored : i \in Stored' /\ rows'[i] = rows[i]
  /\ \A u \in Users : left'[u] = 0 => left[u] = 0
  /\ room' = room /\ clock <= clock'

\* The types of one device.
LEMMA Typed ==
  ASSUME BaseInv, NEW d \in Devices
  PROVE  /\ messages[d] \in Seq(Bubble) /\ Distinct(messages[d])
         /\ reactions[d] \in Seq(Reaction)
         /\ todo[d] \in Seq(Ids) /\ records[d] \in Seq(Ids)
         /\ done[d] \in Seq(Result) /\ live[d] \in Seq(Result)
         /\ spent[d] \subseteq Ids /\ base[d] \in Nat /\ inbox[d] \in Seq(Copied)
         /\ clock \in Nat /\ Len(sent) \in Nat
<1>1. clock \in Nat /\ inbox[d] \in Seq(Copied)
  BY DEF BaseInv, IInv, StoreTypes
<1>2. Len(sent) \in Nat
  BY SentIds DEF BaseInv
<1> QED
  BY <1>1, <1>2 DEF BaseInv, ClientTypes

\* The server only adds.
LEMMA ServerGrows ==
  ASSUME BaseInv, ServerStep
  PROVE  Grows /\ UNCHANGED <<sent, copies, socket>>
<1>1. IInv /\ clock \in Nat /\ left \in [Users -> Nat] /\ Composed
  BY DEF BaseInv, IInv, StoreTypes
<1>2. Len(sent) \in Nat
  BY <1>1, SentIds
<1>3. ASSUME NEW d \in Devices, Begin(d) \/ Refuse(d)
      PROVE  /\ UNCHANGED <<sent, copies, socket, rows, left, room>>
             /\ clock' = clock \/ clock' = clock + 1
  BY <1>3 DEF Begin, Refuse
<1>4. ASSUME NEW w \in work, Publish(w)
      PROVE  UNCHANGED <<sent, copies, socket, rows, left, room, clock>>
  BY <1>4 DEF Publish
<1>5. ASSUME NEW w \in work, Insert(w)
      PROVE  /\ UNCHANGED <<sent, copies, socket, left, room, clock>>
             /\ \A i \in Stored : i \in Stored' /\ rows'[i] = rows[i]
  BY <1>1, <1>5, InsertView DEF Insert, Inserts
<1>6. ASSUME NEW u \in Users, AddMember(u) \/ RemoveMember(u)
      PROVE  /\ UNCHANGED <<sent, copies, socket, rows, room, clock>>
             /\ \A v \in Users : left'[v] = 0 => left[v] = 0
  <2>1. UNCHANGED <<sent, copies, socket, rows, room, clock>>
    BY <1>6 DEF AddMember, RemoveMember
  <2>2. left' = left \/ left' = [left EXCEPT ![u] = clock + 1]
    BY <1>6 DEF AddMember, RemoveMember
  <2>3. clock + 1 # 0
    BY <1>1
  <2> QED
    BY <1>1, <2>1, <2>2, <2>3
<1>7. /\ UNCHANGED <<sent, copies, socket, room>> /\ (clock' = clock \/ clock' = clock + 1)
      /\ \A v \in Users : left'[v] = 0 => left[v] = 0
      /\ \A i \in Stored : i \in Stored' /\ rows'[i] = rows[i]
  BY <1>3, <1>4, <1>5, <1>6 DEF ServerStep, Stored
<1> QED
  BY <1>1, <1>2, <1>7 DEF Grows, Sent

\* So does a device.
LEMMA DeviceGrows ==
  ASSUME BaseInv, NEW d \in Devices, Device(d)
  PROVE  Grows
<1>1. UNCHANGED <<room, members, left, clock, rows, work>>
  BY DeviceTables
<1>2. Composed /\ clock \in Nat /\ Len(sent) \in Nat
  BY SentIds DEF BaseInv, IInv, StoreTypes
<1>3. sent' = sent \/ \E m \in Message : sent' = Append(sent, m)
  <2>1. Quieter(d) \/ SendsNew(d) \/ SendsAgain(d)
    BY DeviceSends, Shaped DEF BaseInv, IInv
  <2> QED
    BY <2>1 DEF Quieter, SendsNew, SendsAgain, Composes
<1>4. Len(sent) <= Len(sent') /\ \A i \in Sent : i \in Sent' /\ sent'[i] = sent[i]
  BY <1>2, <1>3 DEF Composed, Sent
<1> QED
  BY <1>1, <1>2, <1>4 DEF Grows, Stored

\* What a step says of the messages there were.
LEMMA Grown ==
  ASSUME Grows, NEW d \in Devices
  PROVE  /\ \A i \in Sent : /\ Own(d, i)' <=> Own(d, i)
                            /\ IsText(i)' <=> IsText(i)
                            /\ Theirs(d, i)' <=> Theirs(d, i)
         /\ NeverLeft(d)' => NeverLeft(d)
<1>1. Owner[d] \in Users
  BY StoreAssumption DEF StoreAssumption
<1> QED
  BY <1>1 DEF Grows, Own, IsText, Theirs, Sender, NeverLeft

\* What the server changes for a device: an echo of a row may be put into its inbox.
ServerFor(d) ==
  \/ inbox'[d] = inbox[d]
  \/ \E w \in work :
       /\ Publish(w) /\ w.event.id \in Stored /\ Member(d) /\ Connected(d)
       /\ inbox'[d] = Append(inbox[d], EchoOf(w)) /\ EchoOf(w) \in Copied

\* A step of the server, as a device sees it: an event more, or nothing.
LEMMA ServerView ==
  ASSUME IInv, ServerStep, NEW d \in Devices
  PROVE  ServerFor(d)
<1>1. CASE \E w \in work : Publish(w)
  <2>1. PICK w \in work : Publish(w)
    BY <1>1
  <2>2. w.step = "publish" /\ w \in Job /\ StoreTypes
    BY <2>1 DEF Publish, IInv, StoreTypes
  <2>3. w.event.id \in Ids /\ rows[w.event.id] # NoRow
    BY <2>2 DEF IInv, StoredInv, Job, Copy
  <2>4. rows[w.event.id] \in [copy : Nat, at : Nat] /\ rows[w.event.id].copy # 0
    BY <2>2, <2>3 DEF IInv, StoreTypes, StoredInv
  <2>5. EchoOf(w) \in Copied
    BY <2>3, <2>4 DEF EchoOf, Copied
  <2>6. \/ inbox'[d] = inbox[d]
        \/ Member(d) /\ Connected(d) /\ inbox'[d] = Append(inbox[d], EchoOf(w))
    BY <2>1 DEF Publish, Recipients
  <2> QED
    BY <2>1, <2>3, <2>5, <2>6 DEF ServerFor, Stored
<1>2. CASE ~ \E w \in work : Publish(w)
  BY <1>2 DEF ServerStep, Begin, Refuse, Insert, AddMember, RemoveMember, ServerFor
<1> QED
  BY <1>1, <1>2

-----------------------------------------------------------------------------
(* What the server knows of the members, and the devices of the messages   *)

\* Who has never left is a member.
LEMMA MembersKnownStep ==
  ASSUME BaseInv, MembersKnown, (ServerStep /\ UNCHANGED client) \/ \E d \in Devices : Device(d)
  PROVE  MembersKnown'
<1>1. clock \in Nat /\ left \in [Users -> Nat]
  BY DEF BaseInv, IInv, StoreTypes
<1>2. CASE \E d \in Devices : Device(d)
  BY <1>2, DeviceTables DEF MembersKnown
<1>3. ASSUME NEW u \in Users, RemoveMember(u) PROVE MembersKnown'
  <2>1. clock + 1 # 0
    BY <1>1
  <2> QED
    BY <1>1, <1>3, <2>1 DEF RemoveMember, MembersKnown
<1>4. ASSUME NEW u \in Users, AddMember(u) PROVE MembersKnown'
  BY <1>4 DEF AddMember, MembersKnown
<1>5. CASE ServerStep /\ ~ \E u \in Users : AddMember(u) \/ RemoveMember(u)
  <2>1. UNCHANGED <<members, left>>
    BY <1>5 DEF ServerStep, Begin, Refuse, Insert, Publish
  <2> QED
    BY <2>1 DEF MembersKnown
<1> QED
  BY <1>2, <1>3, <1>4, <1>5

\* The message a device composes is a new one.
LEMMA NewMessage ==
  ASSUME BaseInv, NEW d \in Devices, NEW m \in Message, Composes(d, m),
         NEW n, n = Len(sent) + 1
  PROVE  /\ n \in Ids /\ n \notin Sent /\ Sent' = Sent \cup {n} /\ sent'[n] = m
         /\ m.from = d /\ Owner[d] \in Users /\ Len(sent') = n /\ Len(sent) \in Nat
         /\ n \notin Stored /\ n \in Nat
<1>1. Composed /\ n \in Ids /\ sent' = Append(sent, m) /\ m.from = d
  BY DEF BaseInv, Composes
<1>2. Len(sent) \in Nat /\ sent \in Seq(Message)
  BY <1>1 DEF Composed
<1>3. Len(sent') = n /\ sent'[n] = m
  BY <1>1, <1>2
<1>4. Sent' = Sent \cup {n} /\ n \notin Sent /\ n \in Nat
  BY <1>2, <1>3 DEF Sent
<1>5. n \notin Stored
  BY <1>1, <1>4 DEF Composed
<1> QED
  BY <1>1, <1>2, <1>3, <1>4, <1>5, StoreAssumption DEF StoreAssumption

\* Who never left is a member, and gets an envelope.
LEMMA EnvelopesKnownStep ==
  ASSUME BaseInv, Known, Grows, sent' = sent \/ \E d \in Devices : Device(d) /\ SendsNew(d)
  PROVE  EnvelopesKnown'
<1> SUFFICES ASSUME NEW i \in Sent', NEW e \in Devices, Theirs(e, i)', NeverLeft(e)'
             PROVE  e \in sent'[i].for
  BY DEF EnvelopesKnown
<1>1. NeverLeft(e)
  BY Grown
<1>2. CASE i \in Sent
  <2>1. Theirs(e, i)
    BY <1>2, Grown
  <2> QED
    BY <1>1, <1>2, <2>1 DEF Known, EnvelopesKnown, Grows
<1>3. CASE i \notin Sent
  <2>1. PICK d \in Devices : Device(d) /\ SendsNew(d)
    BY <1>3 DEF Sent
  <2>2. PICK m \in Message : Composes(d, m)
    BY <2>1 DEF SendsNew
  <2>3. i = Len(sent) + 1 /\ sent'[i] = m /\ m.from = d
    BY <1>3, <2>2, NewMessage
  <2>4. e # d
    BY <2>3 DEF Theirs, Sender
  <2>5. Owner[e] \in members
    BY <1>1, StoreAssumption DEF Known, MembersKnown, NeverLeft, StoreAssumption
  <2> QED
    BY <2>2, <2>3, <2>4, <2>5 DEF Composes, Member
<1> QED
  BY <1>2, <1>3

\* The outgoing log gets each text when it is composed.
LEMMA LogKnownStep ==
  ASSUME BaseInv, Known, NEW d \in Devices, Device(d)
  PROVE  LogKnown'
<1>1. Shapes /\ ClientTypes /\ StoreTypes
  BY Shaped DEF BaseInv, IInv
<1>2. Grows
  BY DeviceGrows
<1>3. \A e \in Devices : e # d => outgoing'[e] = outgoing[e]
  BY <1>1, OthersUntouched DEF Untouched, SameLogs
<1>4. ASSUME SendsNew(d), SendText(d) \/ ToggleReaction(d) PROVE LogKnown'
  <2>1. PICK n : n = Len(sent) + 1
    OBVIOUS
  <2>2. PICK m \in Message :
          /\ Composes(d, m)
          /\ m.kind = "text" => outgoing'[d] = outgoing[d] \cup {n}
          /\ m.kind # "text" => outgoing'[d] = outgoing[d]
    BY <1>1, <1>4, <2>1, SendTextView, ToggleReactionView DEF SameLogs
  <2>3. n \notin Sent /\ Sent' = Sent \cup {n} /\ sent'[n] = m /\ m.from = d
    BY <2>1, <2>2, NewMessage
  <2> SUFFICES ASSUME NEW e \in Devices
               PROVE  outgoing'[e] = {i \in Sent' : Own(e, i)' /\ IsText(i)'}
    BY DEF LogKnown
  <2>4. outgoing[e] = {i \in Sent : Own(e, i) /\ IsText(i)}
    BY DEF Known, LogKnown
  <2>5. \A i \in Sent : (Own(e, i)' <=> Own(e, i)) /\ (IsText(i)' <=> IsText(i))
    BY <1>2, Grown
  <2>6. (Own(e, n)' <=> e = d) /\ (IsText(n)' <=> m.kind = "text")
    <3>1. sent'[n].from = d /\ sent'[n].kind = m.kind
      BY <2>3
    <3> QED
      BY <3>1 DEF Own, IsText
  <2>7. {i \in Sent' : Own(e, i)' /\ IsText(i)'}
          = {i \in Sent : Own(e, i) /\ IsText(i)} \cup
            (IF e = d /\ m.kind = "text" THEN {n} ELSE {})
    BY <2>3, <2>5, <2>6
  <2> QED
    BY <1>3, <2>2, <2>4, <2>7
<1>5. ASSUME sent' = sent, outgoing'[d] = outgoing[d] PROVE LogKnown'
  BY <1>3, <1>5 DEF Known, LogKnown, Sent, Own, IsText
<1>6. ASSUME ~SendText(d), ~ToggleReaction(d) PROVE outgoing'[d] = outgoing[d]
  <2>1. CASE Resend(d) \/ SocketOpens(d) \/ ReceiveElsewhere(d)
    BY <2>1 DEF Resend, SocketOpens, ReceiveElsewhere, client
  <2>2. CASE Load(d) \/ Refresh(d) \/ SocketLost(d) \/ Leave(d) \/ Return(d)
    BY <2>2 DEF Load, Refresh, SocketLost, Leave, Return
  <2>3. CASE ReceiveEcho(d) \/ ReceiveLive(d) \/ MergeLive(d) \/ History(d)
    BY <2>3 DEF ReceiveEcho, ReceiveLive, MergeLive, History, HistoryArrives, DecryptRecord,
                MergeHistory
  <2> QED
    BY <1>6, <2>1, <2>2, <2>3 DEF Device, User, Session, Receive
<1>7. \/ SendsNew(d) /\ (SendText(d) \/ ToggleReaction(d))
      \/ sent' = sent /\ ~SendText(d) /\ ~ToggleReaction(d)
      \/ sent' = sent /\ Resend(d)
  BY <1>1, DeviceSends DEF Quieter, SendsAgain
<1>8. Resend(d) => outgoing'[d] = outgoing[d]
  BY <1>1, ResendView DEF client
<1> QED
  BY <1>4, <1>5, <1>6, <1>7, <1>8

-----------------------------------------------------------------------------
(* What the devices hold was stored                                        *)

\* How the inbox of a device moves, and what its history effect has to open.
LEMMA InboxMoves ==
  ASSUME BaseInv, NEW d \in Devices, Device(d)
  PROVE  \/ inbox'[d] = inbox[d] /\ ~Receive(d)
         \/ inbox'[d] = <<>> /\ ~Receive(d)
         \/ inbox[d] # <<>> /\ inbox'[d] = Tail(inbox[d]) /\ Receive(d)
<1>1. Shapes /\ ClientTypes /\ StoreTypes
  BY Shaped DEF BaseInv, IInv
<1>2. CASE Receive(d)
  BY <1>1, <1>2, NextEventView
  DEF Receive, ReceiveElsewhere, ReceiveEcho, ReceiveLive, TakesEvent
<1>3. CASE ~Receive(d)
  <2>1. CASE Load(d) \/ Refresh(d)
    BY <1>1, <1>3, <2>1, LoadView, RefreshView DEF NewLink
  <2>2. CASE SocketOpens(d) \/ SocketLost(d)
    BY <1>1, <1>3, <2>2, SocketOpensView, SocketLostView
  <2>3. CASE Leave(d) \/ SendText(d) \/ ToggleReaction(d) \/ Resend(d)
    BY <1>3, <2>3 DEF Leave, SendText, ToggleReaction, Resend
  <2>4. CASE Return(d) \/ MergeLive(d) \/ History(d)
    BY <1>3, <2>4 DEF Return, MergeLive, History, HistoryArrives, DecryptRecord, MergeHistory,
                      store
  <2> QED
    BY <1>3, <2>1, <2>2, <2>3, <2>4 DEF Device, User, Session
<1> QED
  BY <1>2, <1>3

\* What a step makes of the records, of those to open and of those opened.
LEMMA RecordsMove ==
  ASSUME BaseInv, NEW d \in Devices, Device(d)
  PROVE  /\ records'[d] = records[d] \/ records'[d] = <<>> \/ records'[d] = HistoryFor(d)
         /\ \/ todo'[d] = todo[d] \/ todo'[d] = <<>> \/ todo'[d] = records[d]
            \/ todo'[d] = HistoryFor(d)
            \/ todo[d] # <<>> /\ todo'[d] = Tail(todo[d])
         /\ \/ spent'[d] = spent[d]
            \/ ReceiveLive(d) /\ Spends(d, Head(inbox[d]).id)
            \/ DecryptRecord(d) /\ Spends(d, Head(todo[d]))
         /\ base'[d] = base[d] \/ base'[d] = Len(sent)
<1>1. Shapes /\ ClientTypes /\ StoreTypes
  BY Shaped DEF BaseInv, IInv
<1>2. CASE Load(d)
  BY <1>1, <1>2, LoadView DEF Emptied, SameLogs
<1>3. CASE Refresh(d)
  BY <1>1, <1>3, RefreshView DEF SameScreen, SameLogs
<1>4. CASE SocketOpens(d) \/ Resend(d) \/ ReceiveElsewhere(d)
  BY <1>4 DEF SocketOpens, Resend, ReceiveElsewhere, client
<1>5. CASE SocketLost(d)
  BY <1>1, <1>5, SocketLostView DEF SameScreen, SameHistory, SameLogs
<1>6. CASE Leave(d) \/ Return(d)
  BY <1>1, <1>6, LeaveView, ReturnView DEF Emptied, SameLogs
<1>7. CASE SendText(d) \/ ToggleReaction(d)
  BY <1>1, <1>7, SendTextView, ToggleReactionView DEF SameHistory, SameLogs
<1>8. CASE ReceiveEcho(d)
  BY <1>1, <1>8, ReceiveEchoView DEF SameHistory, SameLogs
<1>9. CASE ReceiveLive(d)
  BY <1>1, <1>9, ReceiveLiveView DEF SameScreen, SameHistory
<1>10. CASE MergeLive(d)
  BY <1>1, <1>10, MergeLiveView DEF SameHistory, SameLogs
<1>11. CASE HistoryArrives(d)
  BY <1>1, <1>11, HistoryArrivesView DEF SameScreen, SameLogs
<1>12. CASE DecryptRecord(d)
  BY <1>1, <1>12, DecryptRecordView DEF SameScreen
<1>13. CASE MergeHistory(d)
  BY <1>1, <1>13, MergeHistoryView DEF SameLogs
<1> QED
  BY <1>2, <1>3, <1>4, <1>5, <1>6, <1>7, <1>8, <1>9, <1>10, <1>11, <1>12, <1>13
  DEF Device, User, Session, Receive, History

\* What a device holds was stored: after a step of the device,
LEMMA HeldKnownDevice ==
  ASSUME BaseInv, Known, NEW d \in Devices, Device(d)
  PROVE  HeldKnown(d)'
<1>1. /\ ClientTypes /\ StoreTypes /\ IInv /\ Composed /\ OrderInv /\ HeldKnown(d) /\ Shapes
  BY Shaped DEF BaseInv, IInv, Known
<1>2. Grows /\ Stored' = Stored
  BY DeviceGrows, DeviceTables DEF Stored
<1>3. /\ inbox[d] \in Seq(Copied) /\ todo[d] \in Seq(Ids) /\ records[d] \in Seq(Ids)
      /\ base[d] \in Nat /\ Len(sent) \in Nat /\ DOMAIN <<>> = {}
  BY <1>1, SentIds, EmptyThread DEF ClientTypes, StoreTypes
<1>4. \A k \in DOMAIN inbox'[d] : inbox'[d][k].id \in Stored
  <2>1. CASE inbox'[d] = inbox[d] \/ inbox'[d] = <<>>
    BY <1>1, <1>3, <2>1 DEF HeldKnown
  <2>2. CASE inbox[d] # <<>> /\ inbox'[d] = Tail(inbox[d])
    BY <1>1, <1>3, <2>2, HeadTail DEF HeldKnown
  <2> QED
    BY <2>1, <2>2, InboxMoves
<1>5. \A k \in DOMAIN HistoryFor(d) : HistoryFor(d)[k] \in Stored
  <2>1. \A k \in DOMAIN HistoryFor(d) : HistoryFor(d)[k] \in Page(d)
    BY <1>1, HistoryPage
  <2> QED
    BY <2>1 DEF Page, Recent
<1>6. \A k \in DOMAIN records'[d] : records'[d][k] \in Stored
  <2>1. records'[d] = records[d] \/ records'[d] = <<>> \/ records'[d] = HistoryFor(d)
    BY RecordsMove
  <2> QED
    BY <1>1, <1>3, <1>5, <2>1 DEF HeldKnown
<1>7. \A k \in DOMAIN todo'[d] : todo'[d][k] \in Stored
  <2>1. CASE todo[d] # <<>> /\ todo'[d] = Tail(todo[d])
    BY <1>1, <1>3, <2>1, HeadTail DEF HeldKnown
  <2>2. CASE \/ todo'[d] = todo[d] \/ todo'[d] = <<>> \/ todo'[d] = records[d]
             \/ todo'[d] = HistoryFor(d)
    BY <1>1, <1>3, <1>5, <2>2 DEF HeldKnown
  <2> QED
    BY <2>1, <2>2, RecordsMove
<1>8. \A i \in spent'[d] : i \in Sent /\ Theirs(d, i)
  <2>1. CASE spent'[d] = spent[d]
    BY <1>1, <2>1 DEF HeldKnown
  <2>2. CASE ReceiveLive(d) /\ Spends(d, Head(inbox[d]).id)
    <3>1. inbox[d] # <<>>
      BY <1>1, <2>2, ReceiveLiveView DEF TakesEvent
    <3>2. Head(inbox[d]).id \in Stored
      BY <1>1, <1>3, <3>1, HeadTail DEF HeldKnown
    <3>3. Head(inbox[d]).id \in Sent
      BY <1>1, <3>2 DEF Composed
    <3> QED
      BY <1>1, <2>2, <3>3 DEF Spends, HeldKnown
  <2>3. CASE DecryptRecord(d) /\ Spends(d, Head(todo[d]))
    <3>1. todo[d] # <<>>
      BY <2>3 DEF DecryptRecord
    <3>2. Head(todo[d]) \in Stored
      BY <1>1, <1>3, <3>1, HeadTail DEF HeldKnown
    <3>3. Head(todo[d]) \in Sent
      BY <1>1, <3>2 DEF Composed
    <3> QED
      BY <1>1, <2>3, <3>3 DEF Spends, HeldKnown
  <2> QED
    BY <2>1, <2>2, <2>3, RecordsMove
<1>9. \A i \in spent'[d] : i \in Sent' /\ Theirs(d, i)'
  BY <1>2, <1>8, Grown DEF Grows
<1>10. base'[d] <= Len(sent')
  <2>1. Len(sent') \in Nat
    <3>1. BaseInv'
      BY DeviceBase
    <3> QED
      BY <3>1 DEF BaseInv, Composed
  <2>2. base'[d] = base[d] \/ base'[d] = Len(sent)
    BY RecordsMove
  <2> QED
    BY <1>1, <1>2, <1>3, <2>1, <2>2 DEF HeldKnown, Grows
<1> QED
  BY <1>2, <1>4, <1>6, <1>7, <1>9, <1>10 DEF HeldKnown

\* after a step of another device,
LEMMA HeldKnownOther ==
  ASSUME BaseInv, BaseInv', Known, Grows, NEW e \in Devices, Untouched(e)
  PROVE  HeldKnown(e)'
<1>1. HeldKnown(e) /\ base[e] \in Nat /\ Len(sent) \in Nat /\ Len(sent') \in Nat
  BY DEF Known, BaseInv, ClientTypes, Composed
<1>2. \A i \in Sent : Theirs(e, i)' <=> Theirs(e, i)
  BY Grown
<1>3. /\ inbox'[e] = inbox[e] /\ records'[e] = records[e] /\ todo'[e] = todo[e]
      /\ spent'[e] = spent[e] /\ base'[e] = base[e]
  BY DEF Untouched, SameScreen, SameHistory, SameLogs, SameLink
<1>4. /\ \A k \in DOMAIN inbox'[e] : inbox'[e][k].id \in Stored'
      /\ \A k \in DOMAIN records'[e] : records'[e][k] \in Stored'
      /\ \A k \in DOMAIN todo'[e] : todo'[e][k] \in Stored'
  BY <1>1, <1>3 DEF HeldKnown, Grows
<1>5. \A i \in spent'[e] : i \in Sent' /\ Theirs(e, i)'
  BY <1>1, <1>2, <1>3 DEF HeldKnown, Grows
<1>6. base'[e] <= Len(sent')
  <2>1. base[e] <= Len(sent)
    BY <1>1 DEF HeldKnown
  <2>2. Len(sent) <= Len(sent')
    BY DEF Grows
  <2> QED
    BY <1>1, <1>3, <2>1, <2>2
<1> QED
  BY <1>4, <1>5, <1>6 DEF HeldKnown

\* and after a step of the server.
LEMMA HeldKnownServer ==
  ASSUME BaseInv, BaseInv', Known, ServerStep, UNCHANGED client, NEW e \in Devices
  PROVE  HeldKnown(e)'
<1>1. /\ HeldKnown(e) /\ base[e] \in Nat /\ Len(sent) \in Nat /\ Len(sent') \in Nat
      /\ inbox[e] \in Seq(Copied)
  <2>1. sent' = sent
    BY ServerGrows
  <2> QED
    BY <2>1, Typed DEF Known
<1>2. Grows /\ ServerFor(e)
  BY ServerGrows, ServerView DEF BaseInv
<1>3. \A i \in Sent : Theirs(e, i)' <=> Theirs(e, i)
  BY <1>2, Grown
<1>4. \A k \in DOMAIN inbox'[e] : inbox'[e][k].id \in Stored
  <2>1. CASE inbox'[e] = inbox[e]
    BY <1>1, <2>1 DEF HeldKnown
  <2>2. CASE inbox'[e] # inbox[e]
    <3>1. PICK w \in work : /\ w.event.id \in Stored /\ EchoOf(w) \in Copied
                            /\ inbox'[e] = Append(inbox[e], EchoOf(w))
      BY <1>2, <2>2 DEF ServerFor
    <3>2. EchoOf(w).id \in Stored
      BY <3>1 DEF EchoOf
    <3> QED
      BY <1>1, <3>1, <3>2, Appended DEF HeldKnown
  <2> QED
    BY <2>1, <2>2
<1>5. /\ records'[e] = records[e] /\ todo'[e] = todo[e] /\ spent'[e] = spent[e]
      /\ base'[e] = base[e]
  BY DEF client
<1>6. /\ \A k \in DOMAIN inbox'[e] : inbox'[e][k].id \in Stored'
      /\ \A k \in DOMAIN records'[e] : records'[e][k] \in Stored'
      /\ \A k \in DOMAIN todo'[e] : todo'[e][k] \in Stored'
  BY <1>1, <1>2, <1>4, <1>5 DEF HeldKnown, Grows
<1>7. \A i \in spent'[e] : i \in Sent' /\ Theirs(e, i)'
  BY <1>1, <1>2, <1>3, <1>5 DEF HeldKnown, Grows
<1>8. base'[e] <= Len(sent')
  BY <1>1, <1>2, <1>5 DEF HeldKnown, Grows
<1> QED
  BY <1>6, <1>7, <1>8 DEF HeldKnown

\* Known, after a step of the server
LEMMA KnownServer ==
  ASSUME BaseInv, Known, ServerStep, UNCHANGED client
  PROVE  Known'
<1>1. BaseInv' /\ Grows /\ UNCHANGED sent
  BY ServerBase, ServerGrows
<1>2. MembersKnown'
  BY MembersKnownStep DEF Known
<1>3. EnvelopesKnown'
  BY <1>1, EnvelopesKnownStep
<1>4. LogKnown'
  BY <1>1 DEF Known, LogKnown, client, Sent, Own, IsText
<1>5. \A e \in Devices : HeldKnown(e)'
  BY <1>1, HeldKnownServer
<1> QED
  BY <1>2, <1>3, <1>4, <1>5 DEF Known

\* and after a step of a device.
LEMMA KnownDevice ==
  ASSUME BaseInv, Known, NEW d \in Devices, Device(d)
  PROVE  Known'
<1>1. BaseInv' /\ Grows /\ Shapes
  BY DeviceBase, DeviceGrows, Shaped DEF BaseInv, IInv
<1>2. MembersKnown'
  BY MembersKnownStep DEF Known
<1>3. EnvelopesKnown'
  <2>1. sent' = sent \/ SendsNew(d)
    BY <1>1, DeviceSends DEF BaseInv, IInv, Quieter, SendsAgain
  <2> QED
    BY <1>1, <2>1, EnvelopesKnownStep
<1>4. LogKnown'
  BY LogKnownStep
<1>5. \A e \in Devices : HeldKnown(e)'
  BY <1>1, HeldKnownDevice, HeldKnownOther, OthersUntouched
<1> QED
  BY <1>2, <1>3, <1>4, <1>5 DEF Known

\* At first.
LEMMA KnownStart == ASSUME Init PROVE Known
<1>1. /\ sent = <<>> /\ members = Users /\ inbox = [d \in Devices |-> <<>>]
      /\ records = [d \in Devices |-> <<>>] /\ todo = [d \in Devices |-> <<>>]
      /\ spent = [d \in Devices |-> {}] /\ outgoing = [d \in Devices |-> {}]
      /\ base = [d \in Devices |-> 0] /\ DOMAIN <<>> = {}
  BY EmptyThread DEF Init, StoreInit
<1>2. Sent = {} /\ Len(sent) = 0
  BY <1>1 DEF Sent
<1> QED
  BY <1>1, <1>2 DEF Known, MembersKnown, EnvelopesKnown, LogKnown, HeldKnown

-----------------------------------------------------------------------------
(* What was decrypted                                                      *)

\* A result stays good while rows, messages and spent envelopes are only added.
LEMMA GoodKept ==
  ASSUME Composed, Grows, NEW d \in Devices, spent[d] \subseteq spent'[d],
         NEW r, GoodResult(d, r)
  PROVE  GoodResult(d, r)'
<1>1. r.id \in Stored /\ r.id \in Sent
  BY DEF GoodResult, Composed
<1>2. /\ Own(d, r.id)' <=> Own(d, r.id)
      /\ IsText(r.id)' <=> IsText(r.id)
      /\ Theirs(d, r.id)' <=> Theirs(d, r.id)
      /\ NeverLeft(d)' => NeverLeft(d)
  BY <1>1, Grown
<1>3. r.id \in Stored' /\ rows'[r.id] = rows[r.id]
  BY <1>1 DEF Grows
<1> QED
  BY <1>2, <1>3 DEF GoodResult

\* What decryptEnvelope makes of a row.
LEMMA GoodResolved ==
  ASSUME Known, Composed, NEW d \in Devices, NEW i \in Stored
  PROVE  /\ GoodResult(d, Resolved(d, i))
         /\ Resolved(d, i).id = i /\ Resolved(d, i).at = rows[i].at
         /\ Resolved(d, i).ok = Opens(d, i)
<1>1. i \in Sent
  BY DEF Composed
<1>2. /\ Resolved(d, i).id = i /\ Resolved(d, i).at = rows[i].at
      /\ Resolved(d, i).ok = Opens(d, i)
  BY DEF Resolved
<1>3. Theirs(d, i) => ~Own(d, i)
  BY DEF Theirs, Own, Sender
<1>4. CASE Theirs(d, i)
  <2>1. NeverLeft(d) => d \in sent[i].for
    BY <1>1, <1>4 DEF Known, EnvelopesKnown
  <2>2. Opens(d, i) <=> d \in sent[i].for /\ i \notin spent[d]
    BY <1>4 DEF Opens, Theirs
  <2> QED
    BY <1>2, <1>3, <1>4, <2>1, <2>2 DEF GoodResult
<1>5. CASE ~Theirs(d, i)
  <2>1. Opens(d, i) <=> i \in outgoing[d]
    BY <1>5 DEF Opens, Theirs, Logged
  <2>2. i \in outgoing[d] <=> Own(d, i) /\ IsText(i)
    BY <1>1 DEF Known, LogKnown
  <2> QED
    BY <1>2, <1>3, <1>5, <2>1, <2>2 DEF GoodResult
<1> QED
  BY <1>4, <1>5

\* An envelope that was opened stays so.
LEMMA SpentGrows ==
  ASSUME BaseInv, NEW d \in Devices, Device(d)
  PROVE  spent[d] \subseteq spent'[d]
  BY RecordsMove DEF Spends

\* How what was decrypted and not yet drawn moves.
LEMMA ResultsMove ==
  ASSUME BaseInv, NEW d \in Devices, Device(d)
  PROVE  /\ \/ live'[d] = live[d]
            \/ Load(d) /\ live'[d] = <<>>
            \/ MergeLive(d) /\ live[d] # <<>> /\ live'[d] = Tail(live[d])
            \/ ReceiveLive(d) /\ live'[d] = Append(live[d], Resolved(d, Head(inbox[d]).id))
         /\ \/ done'[d] = done[d] \/ done'[d] = <<>>
            \/ DecryptRecord(d) /\ done'[d] = Append(done[d], Resolved(d, Head(todo[d])))
<1>1. Shapes /\ ClientTypes /\ StoreTypes
  BY Shaped DEF BaseInv, IInv
<1>2. CASE Load(d)
  BY <1>1, <1>2, LoadView DEF Emptied
<1>3. CASE Refresh(d)
  BY <1>1, <1>3, RefreshView
<1>4. CASE SocketOpens(d) \/ Resend(d) \/ ReceiveElsewhere(d)
  BY <1>4 DEF SocketOpens, Resend, ReceiveElsewhere, client
<1>5. CASE SocketLost(d)
  BY <1>1, <1>5, SocketLostView DEF SameHistory
<1>6. CASE Leave(d) \/ Return(d)
  BY <1>1, <1>6, LeaveView, ReturnView DEF Emptied
<1>7. CASE SendText(d) \/ ToggleReaction(d)
  BY <1>1, <1>7, SendTextView, ToggleReactionView DEF SameHistory
<1>8. CASE ReceiveEcho(d)
  BY <1>1, <1>8, ReceiveEchoView DEF SameHistory
<1>9. CASE ReceiveLive(d)
  BY <1>1, <1>9, ReceiveLiveView DEF SameHistory
<1>10. CASE MergeLive(d)
  BY <1>1, <1>10, MergeLiveView DEF SameHistory
<1>11. CASE HistoryArrives(d)
  BY <1>1, <1>11, HistoryArrivesView
<1>12. CASE DecryptRecord(d)
  BY <1>1, <1>12, DecryptRecordView
<1>13. CASE MergeHistory(d)
  BY <1>1, <1>13, MergeHistoryView
<1> QED
  BY <1>2, <1>3, <1>4, <1>5, <1>6, <1>7, <1>8, <1>9, <1>10, <1>11, <1>12, <1>13
  DEF Device, User, Session, Receive, History

\* What is taken next, from the socket or the history, was stored.
LEMMA HeadsStored ==
  ASSUME BaseInv, Known, NEW d \in Devices
  PROVE  /\ inbox[d] # <<>> => Head(inbox[d]).id \in Stored
         /\ todo[d] # <<>> => Head(todo[d]) \in Stored
  BY Typed, HeadTail DEF Known, HeldKnown

\* Results are good after a step of the device
LEMMA DecryptedDevice ==
  ASSUME BaseInv, Known, NEW d \in Devices, DecryptedAt(d), Device(d)
  PROVE  DecryptedAt(d)'
<1>1. /\ Composed /\ Grows /\ spent[d] \subseteq spent'[d] /\ Shapes
      /\ live[d] \in Seq(Result) /\ done[d] \in Seq(Result) /\ DOMAIN <<>> = {}
  BY DeviceGrows, SpentGrows, Typed, Shaped, EmptyThread DEF BaseInv, IInv
<1> SUFFICES ASSUME NEW r \in Result, In(r, live'[d]) \/ In(r, done'[d])
             PROVE  GoodResult(d, r)'
  BY DEF DecryptedAt
<1>2. GoodResult(d, r) => GoodResult(d, r)'
  BY <1>1, GoodKept
<1>3. \A i \in Stored : GoodResult(d, Resolved(d, i)) /\ Resolved(d, i) \in Result
  BY <1>1, GoodResolved, ResolvedTyped DEF BaseInv, Stored
<1>4. In(r, live'[d]) => GoodResult(d, r)
  <2>1. CASE live'[d] = live[d] \/ live'[d] = <<>>
    BY <1>1, <2>1 DEF DecryptedAt, In
  <2>2. CASE live[d] # <<>> /\ live'[d] = Tail(live[d])
    <3>1. In(r, live'[d]) => In(r, live[d])
      BY <1>1, <2>2, HeadTail DEF In
    <3> QED
      BY <3>1 DEF DecryptedAt
  <2>3. CASE ReceiveLive(d) /\ live'[d] = Append(live[d], Resolved(d, Head(inbox[d]).id))
    <3>1. inbox[d] # <<>>
      BY <1>1, <2>3, ReceiveLiveView DEF TakesEvent
    <3>2. PICK a \in Result : a = Resolved(d, Head(inbox[d]).id) /\ GoodResult(d, a)
      BY <1>3, <3>1, HeadsStored
    <3>3. In(r, live'[d]) => In(r, live[d]) \/ r = a
      BY <1>1, <2>3, <3>2, Appended DEF In
    <3> QED
      BY <3>2, <3>3 DEF DecryptedAt
  <2> QED
    BY <2>1, <2>2, <2>3, ResultsMove
<1>5. In(r, done'[d]) => GoodResult(d, r)
  <2>1. CASE done'[d] = done[d] \/ done'[d] = <<>>
    BY <1>1, <2>1 DEF DecryptedAt, In
  <2>2. CASE DecryptRecord(d) /\ done'[d] = Append(done[d], Resolved(d, Head(todo[d])))
    <3>1. todo[d] # <<>>
      BY <2>2 DEF DecryptRecord
    <3>2. PICK a \in Result : a = Resolved(d, Head(todo[d])) /\ GoodResult(d, a)
      BY <1>3, <3>1, HeadsStored
    <3>3. In(r, done'[d]) => In(r, done[d]) \/ r = a
      BY <1>1, <2>2, <3>2, Appended DEF In
    <3> QED
      BY <3>2, <3>3 DEF DecryptedAt
  <2> QED
    BY <2>1, <2>2, ResultsMove
<1> QED
  BY <1>2, <1>4, <1>5

\* What neither the server nor another device changes.
SameResults(d) == live'[d] = live[d] /\ done'[d] = done[d] /\ spent'[d] = spent[d]

\* and after a step that leaves its results as they are.
LEMMA DecryptedOther ==
  ASSUME Composed, Grows, NEW d \in Devices, DecryptedAt(d), SameResults(d)
  PROVE  DecryptedAt(d)'
<1> SUFFICES ASSUME NEW r \in Result, In(r, live'[d]) \/ In(r, done'[d])
             PROVE  GoodResult(d, r)'
  BY DEF DecryptedAt
<1>1. GoodResult(d, r)
  BY DEF DecryptedAt, SameResults
<1>2. spent[d] \subseteq spent'[d]
  BY DEF SameResults
<1> QED
  BY <1>1, <1>2, GoodKept

\* A device that has not been away: after a step of its own
LEMMA JoinedAtDevice ==
  ASSUME BaseInv, NEW d \in Devices, JoinedAt(d), Device(d)
  PROVE  JoinedAt(d)'
<1>1. /\ Shapes /\ ClientTypes /\ StoreTypes /\ Len(sent) \in Nat
      /\ \A w \in work : w.event.id \in Sent
  BY Shaped, Typed DEF BaseInv, IInv, OnTheWay
<1>2. work' = work
  BY DeviceTables
<1>3. CASE Load(d)
  <2>1. /\ base'[d] = Len(sent) /\ thread'[d] = "this"
        /\ socket'[d] = [n |-> socket[d].n + 1, state |-> "opening"]
    BY <1>1, <1>3, LoadView DEF Emptied, NewLink
  <2>2. Here(d)' /\ socket'[d].state # "closed"
    BY <2>1 DEF Here
  <2> QED
    BY <1>1, <1>2, <2>1, <2>2 DEF JoinedAt, Sent
<1>4. CASE Refresh(d) \/ SocketLost(d) \/ Leave(d)
  <2>1. intact'[d] = FALSE
    BY <1>1, <1>4, RefreshView, SocketLostView, LeaveView
  <2> QED
    BY <2>1 DEF JoinedAt
<1>5. CASE Return(d)
  <2>1. thread[d] = "other" /\ intact'[d] = intact[d]
    BY <1>1, <1>5, ReturnView DEF SameMarks
  <2> QED
    BY <2>1 DEF JoinedAt, Here
<1>6. CASE SocketOpens(d)
  <2>1. /\ UNCHANGED client
        /\ socket'[d] = [n |-> socket[d].n, state |-> "open"]
    BY <1>1, <1>6, SocketOpensView
  <2>2. socket'[d].n = socket[d].n /\ socket'[d].state # "closed"
    BY <2>1
  <2> QED
    BY <1>2, <2>1, <2>2 DEF JoinedAt, client, Here
<1>7. ASSUME thread'[d] = thread[d], intact'[d] = intact[d], base'[d] = base[d],
             socket'[d] = socket[d]
      PROVE  JoinedAt(d)'
  BY <1>2, <1>7 DEF JoinedAt, Here
<1>8. CASE SendText(d) \/ ToggleReaction(d)
  <2>1. thread'[d] = thread[d] /\ intact'[d] = intact[d] /\ base'[d] = base[d]
        /\ socket'[d] = socket[d]
    BY <1>1, <1>8, SendTextView, ToggleReactionView DEF SameMarks, Composes
  <2> QED
    BY <1>7, <2>1
<1>9. CASE Resend(d) \/ ReceiveElsewhere(d)
  <2>1. UNCHANGED client /\ socket'[d] = socket[d]
    BY <1>1, <1>9, ResendView, ReceiveElsewhereView DEF TakesEvent
  <2> QED
    BY <1>7, <2>1 DEF client
<1>10. CASE ReceiveEcho(d)
  BY <1>1, <1>7, <1>10, ReceiveEchoView DEF SameMarks, TakesEvent
<1>11. CASE ReceiveLive(d)
  BY <1>1, <1>7, <1>11, ReceiveLiveView DEF SameScreen, SameMarks, TakesEvent
<1>12. CASE MergeLive(d) \/ MergeHistory(d)
  BY <1>1, <1>7, <1>12, MergeLiveView, MergeHistoryView DEF SameMarks, store
<1>13. CASE HistoryArrives(d)
  BY <1>1, <1>7, <1>13, HistoryArrivesView DEF SameScreen, store
<1>14. CASE DecryptRecord(d)
  BY <1>1, <1>7, <1>14, DecryptRecordView DEF SameScreen, SameMarks, store
<1> QED
  BY <1>3, <1>4, <1>5, <1>6, <1>8, <1>9, <1>10, <1>11, <1>12, <1>13, <1>14
  DEF Device, User, Session, Receive, History

\* and after a step of the server.
LEMMA JoinedAtServer ==
  ASSUME BaseInv, NEW d \in Devices, JoinedAt(d), ServerStep, UNCHANGED client
  PROVE  JoinedAt(d)'
<1>1. socket' = socket /\ IInv
  BY ServerGrows DEF BaseInv
<1>2. \A v \in work' : \/ v.dev = d => v.socket = socket[d].n
                       \/ \E w \in work : v.dev = w.dev /\ v.socket = w.socket
                                         /\ v.event = w.event
  <2>1. ASSUME NEW e \in Devices, Begin(e)
        PROVE  \A v \in work' : v \in work \/ (v.dev = e /\ v.socket = socket[e].n)
    BY <2>1 DEF Begin
  <2>2. ASSUME NEW w \in work, Insert(w)
        PROVE  \A v \in work' : \/ v \in work
                                \/ v.dev = w.dev /\ v.socket = w.socket /\ v.event = w.event
    BY <1>1, <2>2, InsertView DEF Inserts
  <2>3. CASE ~(\E e \in Devices : Begin(e)) /\ ~(\E w \in work : Insert(w))
    <3>1. work' \subseteq work
      BY <2>3 DEF ServerStep, Refuse, Publish, AddMember, RemoveMember
    <3> QED
      BY <3>1
  <2> QED
    BY <2>1, <2>2, <2>3
<1>3. thread' = thread /\ intact' = intact /\ base' = base
  BY DEF client
<1> QED
  BY <1>1, <1>2, <1>3 DEF JoinedAt, Here

\* Joined, after a step of the server
LEMMA JoinedServer ==
  ASSUME BaseInv, Joined, ServerStep, UNCHANGED client
  PROVE  Joined'
<1> SUFFICES ASSUME NEW d \in Devices PROVE DecryptedAt(d)' /\ JoinedAt(d)'
  BY DEF Joined
<1>1. SameResults(d) /\ Grows /\ Composed
  BY ServerGrows DEF SameResults, client, BaseInv
<1>2. DecryptedAt(d)'
  BY <1>1, DecryptedOther DEF Joined
<1> QED
  BY <1>2, JoinedAtServer DEF Joined

\* and after a step of a device.
LEMMA JoinedDevice ==
  ASSUME BaseInv, Known, Joined, NEW d \in Devices, Device(d)
  PROVE  Joined'
<1> SUFFICES ASSUME NEW e \in Devices PROVE DecryptedAt(e)' /\ JoinedAt(e)'
  BY DEF Joined
<1>1. CASE e = d
  BY <1>1, DecryptedDevice, JoinedAtDevice DEF Joined
<1>2. CASE e # d
  <2>1. Untouched(e) /\ Grows /\ Composed /\ work' = work
    BY <1>2, OthersUntouched, DeviceGrows, DeviceTables, Shaped DEF BaseInv, IInv
  <2>2. SameResults(e)
    BY <2>1 DEF SameResults, Untouched, SameHistory, SameLogs
  <2>3. DecryptedAt(e)'
    BY <2>1, <2>2, DecryptedOther DEF Joined
  <2>4. JoinedAt(e)'
    BY <2>1 DEF Joined, JoinedAt, Here, Untouched, SameScreen, SameMarks, SameLink
  <2> QED
    BY <2>3, <2>4
<1> QED
  BY <1>1, <1>2

\* At first.
LEMMA JoinedStart == ASSUME Init PROVE Joined
<1>1. /\ intact = [d \in Devices |-> FALSE] /\ live = [d \in Devices |-> <<>>]
      /\ done = [d \in Devices |-> <<>>] /\ DOMAIN <<>> = {}
  BY EmptyThread DEF Init
<1> QED
  BY <1>1 DEF Joined, DecryptedAt, JoinedAt, In

-----------------------------------------------------------------------------
(* The threads                                                             *)

\* What is drawn of a result is a bubble the device may show, with the server's stamp.
LEMMA DrawnOK ==
  ASSUME Composed, NEW d \in Devices, NEW r \in Result, GoodResult(d, r), ~IsReaction(r)
  PROVE  /\ Drawn(r) \in Bubble /\ BubbleOK(d, Drawn(r)) /\ Drawn(r).id = r.id
         /\ Drawn(r).at = rows[r.id].at /\ r.id \in Stored
<1>1. Drawn(r) \in Bubble /\ Drawn(r).id = r.id /\ Drawn(r).at = r.at /\ Drawn(r).body = r.ok
  BY BubbleTyped DEF Drawn
<1>2. r.id \in Stored /\ r.id \in Sent /\ r.at = rows[r.id].at
  BY DEF GoodResult, Composed
<1>3. ~r.ok \/ IsText(r.id)
  BY DEF IsReaction, PayloadKind, IsText
<1>4. BubbleOK(d, Drawn(r))
  BY <1>1, <1>2, <1>3 DEF BubbleOK, GoodResult
<1> QED
  BY <1>1, <1>2, <1>4

\* A result that is drawn keeps a thread as it should be.
LEMMA DrawOneOK ==
  ASSUME Composed, NEW d \in Devices, NEW s \in Seq(Bubble), Distinct(s), Bubbles(d, s),
         NEW r \in Result, GoodResult(d, r), NEW t, t = DrawOne(s, r)
  PROVE  /\ t \in Seq(Bubble) /\ Distinct(t) /\ Bubbles(d, t)
         /\ Settled(d, s) => Settled(d, t)
         /\ \A i : Lists(s, i) => Lists(t, i)
         /\ ~IsReaction(r) => Lists(t, r.id)
<1>1. CASE IsReaction(r)
  BY <1>1 DEF DrawOne
<1>2. CASE ~IsReaction(r)
  <2>1. PICK b : b = Drawn(r)
    OBVIOUS
  <2>2. /\ b \in Bubble /\ BubbleOK(d, b) /\ b.id = r.id /\ b.at = rows[b.id].at
        /\ b.id \in Stored
    BY <1>2, <2>1, DrawnOK
  <2>3. t = mergeMessages(s, b)
    BY <1>2, <2>1 DEF DrawOne
  <2>4. /\ t \in Seq(Bubble) /\ Distinct(t)
        /\ \A k \in DOMAIN t : t[k] = b \/ \E j \in DOMAIN s : t[k] = s[j] /\ s[j].id # b.id
        /\ \E k \in DOMAIN t : t[k] = b
        /\ \A j \in DOMAIN s : s[j].id # b.id => \E k \in DOMAIN t : t[k] = s[j]
        /\ ~Lists(s, b.id) => InOrder(t)
        /\ \A j \in DOMAIN s : s[j].id = b.id /\ s[j].at = b.at /\ InOrder(s) => InOrder(t)
    BY <2>2, <2>3, Merged
  <2>5. Bubbles(d, t)
    BY <2>2, <2>4 DEF Bubbles
  <2>6. \A i : Lists(s, i) => Lists(t, i)
    BY <2>4 DEF Lists
  <2>7. ASSUME Settled(d, s) PROVE Settled(d, t)
    <3>1. InTime(d, b)
      BY <2>2 DEF InTime
    <3>2. \A k \in DOMAIN t : InTime(d, t[k])
      BY <2>4, <2>7, <3>1 DEF Settled
    <3>3. CASE \E k \in DOMAIN s : Due(d, s[k].id)
      <4>1. PICK k \in DOMAIN s : Due(d, s[k].id)
        BY <3>3
      <4>2. \E l \in DOMAIN t : t[l].id = s[k].id
        BY <2>4
      <4> QED
        BY <3>2, <4>1, <4>2 DEF Settled
    <3>4. CASE InOrder(s) /\ ~(\E k \in DOMAIN s : Due(d, s[k].id))
      <4>1. CASE ~Lists(s, b.id)
        BY <2>4, <3>2, <4>1 DEF Settled
      <4>2. CASE Lists(s, b.id)
        <5>1. PICK j \in DOMAIN s : s[j].id = b.id
          BY <4>2 DEF Lists
        <5>2. s[j].at = b.at
          BY <2>2, <2>7, <3>4, <5>1 DEF Settled, InTime
        <5> QED
          BY <2>4, <3>2, <3>4, <5>1, <5>2 DEF Settled
      <4> QED
        BY <4>1, <4>2
    <3> QED
      BY <2>7, <3>3, <3>4 DEF Settled
  <2>8. Lists(t, r.id)
    BY <2>2, <2>4 DEF Lists
  <2> QED
    BY <2>4, <2>5, <2>6, <2>7, <2>8
<1> QED
  BY <1>1, <1>2

AllGood(d, results) == \A k \in DOMAIN results : GoodResult(d, results[k])

\* The same for all that was opened.
LEMMA DrawAllOK ==
  ASSUME Composed, NEW d \in Devices, NEW s \in Seq(Bubble), Distinct(s), Bubbles(d, s),
         NEW results \in Seq(Result), AllGood(d, results), NEW t, t = DrawAll(s, results)
  PROVE  /\ t \in Seq(Bubble) /\ Distinct(t) /\ Bubbles(d, t)
         /\ Settled(d, s) => Settled(d, t)
         /\ \A i : Lists(s, i) => Lists(t, i)
         /\ \A k \in DOMAIN results : ~IsReaction(results[k]) => Lists(t, results[k].id)
<1> DEFINE N == Len(results)
<1>1. /\ N \in Nat /\ \A n \in 1..N : results[n] \in Result /\ GoodResult(d, results[n])
      /\ DOMAIN results = 1..N
  BY DEF AllGood
<1>2. PICK drawn : /\ drawn[0] = s /\ drawn[N] = t
                   /\ \A n \in 1..N : drawn[n] = DrawOne(drawn[n - 1], results[n])
  BY <1>1, DrawOntoSteps DEF DrawAll
<1> DEFINE OK(u, n) == /\ u \in Seq(Bubble) /\ Distinct(u) /\ Bubbles(d, u)
                       /\ Settled(d, s) => Settled(d, u)
                       /\ \A i : Lists(s, i) => Lists(u, i)
                       /\ \A m \in 1..n : ~IsReaction(results[m]) => Lists(u, results[m].id)
           G == {n \in 0..N : OK(drawn[n], n)}
<1> HIDE DEF N
<1>3. 0 \in G
  BY <1>1, <1>2
<1>4. ASSUME NEW n \in 1..N, n - 1 \in G PROVE n \in G
  <2>1. PICK u : u = drawn[n - 1]
    OBVIOUS
  <2>2. PICK v : v = drawn[n]
    OBVIOUS
  <2>3. OK(u, n - 1)
    BY <1>4, <2>1
  <2>4. v = DrawOne(u, results[n])
    BY <1>2, <2>1, <2>2
  <2>5. /\ v \in Seq(Bubble) /\ Distinct(v) /\ Bubbles(d, v)
        /\ Settled(d, u) => Settled(d, v)
        /\ \A i : Lists(u, i) => Lists(v, i)
        /\ ~IsReaction(results[n]) => Lists(v, results[n].id)
    BY <1>1, <2>3, <2>4, DrawOneOK
  <2>6. \A m \in 1..n : m \in 1..(n - 1) \/ m = n
    BY <1>1
  <2>7. OK(v, n)
    BY <2>3, <2>5, <2>6
  <2> QED
    BY <1>1, <2>2, <2>7
<1> HIDE DEF G
<1>5. N \in G
  BY <1>1, <1>3, <1>4, CountUp
<1>6. OK(t, N)
  BY <1>2, <1>5 DEF G
<1> QED
  BY <1>1, <1>6

\* What is drawn when live events or the history are merged.
LEMMA MergesGood ==
  ASSUME BaseInv, Joined, NEW d \in Devices, MergeLive(d) \/ MergeHistory(d)
  PROVE  \E results \in Seq(Result) :
           /\ AllGood(d, results) /\ Draws(d, results)
           /\ MergeLive(d) => results = <<Head(live[d])>>
           /\ MergeHistory(d) => results = done[d]
<1>1. Shapes /\ live[d] \in Seq(Result) /\ done[d] \in Seq(Result) /\ DecryptedAt(d)
  BY Shaped, Typed DEF BaseInv, IInv, Joined
<1>2. CASE MergeLive(d)
  <2>1. live[d] # <<>> /\ live'[d] = Tail(live[d]) /\ Draws(d, <<Head(live[d])>>)
    BY <1>1, <1>2, MergeLiveView
  <2>2. Head(live[d]) \in Result /\ Head(live[d]) = live[d][1] /\ 1 \in DOMAIN live[d]
    BY <1>1, <2>1
  <2>3. GoodResult(d, Head(live[d]))
    BY <1>1, <2>2 DEF DecryptedAt, In
  <2>4. <<Head(live[d])>> \in Seq(Result) /\ AllGood(d, <<Head(live[d])>>)
    BY <2>2, <2>3 DEF AllGood
  <2>5. ~MergeHistory(d)
    <3>1. Len(Tail(live[d])) # Len(live[d])
      BY <1>1, <2>1
    <3>2. MergeHistory(d) => live'[d] = live[d]
      BY DEF MergeHistory
    <3> QED
      BY <2>1, <3>1, <3>2
  <2> QED
    BY <2>1, <2>4, <2>5
<1>3. CASE MergeHistory(d) /\ ~MergeLive(d)
  <2>1. Draws(d, done[d])
    BY <1>1, <1>3, MergeHistoryView
  <2>2. AllGood(d, done[d])
    BY <1>1 DEF AllGood, DecryptedAt, In
  <2> QED
    BY <1>1, <1>3, <2>1, <2>2
<1> QED
  BY <1>2, <1>3

-----------------------------------------------------------------------------
(* What the threads, the covered histories and the logs stand on           *)

Ground == BaseInv /\ Known /\ Joined

\* What a step that touches no variable of a part leaves of it.
LEMMA KnownSame == ASSUME Known, UNCHANGED vars PROVE Known'
<1>1. UNCHANGED <<sent, members, left, rows, outgoing, inbox, records, todo, spent, base>>
  BY DEF vars, store, client
<1>2. MembersKnown' /\ EnvelopesKnown' /\ LogKnown'
  BY <1>1 DEF Known, MembersKnown, EnvelopesKnown, LogKnown, Sent, Theirs, Sender, NeverLeft,
              Own, IsText
<1>3. \A d \in Devices : HeldKnown(d)'
  BY <1>1 DEF Known, HeldKnown, Stored, Sent, Theirs, Sender
<1> QED
  BY <1>2, <1>3 DEF Known

\* The same for what was decrypted and for the handlers of a device.
LEMMA JoinedSame == ASSUME Joined, UNCHANGED vars PROVE Joined'
<1>1. UNCHANGED <<sent, left, rows, spent, live, done, intact, thread, socket, work, base>>
  BY DEF vars, store, client
<1> SUFFICES ASSUME NEW d \in Devices PROVE DecryptedAt(d)' /\ JoinedAt(d)'
  BY DEF Joined
<1>2. \A r : GoodResult(d, r)' <=> GoodResult(d, r)
  BY <1>1 DEF GoodResult, Stored, Own, IsText, Theirs, Sender, NeverLeft
<1>3. DecryptedAt(d)'
  BY <1>1, <1>2 DEF Joined, DecryptedAt
<1>4. JoinedAt(d)'
  BY <1>1 DEF Joined, JoinedAt, Here
<1> QED
  BY <1>3, <1>4

\* One step.
LEMMA GroundStep == ASSUME Ground, [Next]_vars PROVE Ground'
<1>1. CASE ServerStep /\ UNCHANGED client
  BY <1>1, ServerBase, KnownServer, JoinedServer DEF Ground
<1>2. CASE \E d \in Devices : Device(d)
  BY <1>2, DeviceBase, KnownDevice, JoinedDevice DEF Ground
<1>3. CASE UNCHANGED vars
  BY <1>3, BaseSame, KnownSame, JoinedSame DEF Ground
<1> QED
  BY <1>1, <1>2, <1>3 DEF Next

\* What the devices hold is of what was composed and stored, throughout.
LEMMA AlwaysGround == Spec => []Ground
<1>1. Init => Ground
  BY BaseStart, KnownStart, JoinedStart DEF Ground
<1>2. Ground /\ [Next]_vars => Ground'
  BY GroundStep
<1> QED
  BY <1>1, <1>2, PTL DEF Spec

\* A bubble a device may show stays one.
LEMMA BubbleKept ==
  ASSUME Composed, Grows, NEW d \in Devices, spent[d] \subseteq spent'[d], base'[d] = base[d],
         NEW b, BubbleOK(d, b)
  PROVE  BubbleOK(d, b)'
<1>1. b.id \in Sent /\ b.id \in Sent'
  BY DEF BubbleOK, Grows
<1>2. /\ Own(d, b.id)' <=> Own(d, b.id)
      /\ IsText(b.id)' <=> IsText(b.id)
      /\ Theirs(d, b.id)' <=> Theirs(d, b.id)
      /\ NeverLeft(d)' => NeverLeft(d)
  BY <1>1, Grown
<1>3. b.id \notin Stored' => b.id \notin Stored
  BY DEF Grows
<1> QED
  BY <1>1, <1>2, <1>3 DEF BubbleOK

\* No echo that is awaited for a bubble of s is lost, and what is stored now has one coming.
EchoesKept(d, s) ==
  \A k \in DOMAIN s :
    /\ Due(d, s[k].id) => Due(d, s[k].id)'
    /\ s[k].id \in Stored' => s[k].id \in Stored \/ Due(d, s[k].id)'

\* A thread stays settled when no echo is lost.
LEMMA SettledKept ==
  ASSUME Grows, NEW d \in Devices, NEW s, Settled(d, s), EchoesKept(d, s)
  PROVE  Settled(d, s)'
<1>1. ASSUME NEW k \in DOMAIN s PROVE InTime(d, s[k])'
  <2>1. InTime(d, s[k])
    BY DEF Settled
  <2>2. /\ Due(d, s[k].id) => Due(d, s[k].id)'
        /\ s[k].id \in Stored' => s[k].id \in Stored \/ Due(d, s[k].id)'
    BY DEF EchoesKept
  <2>3. s[k].id \in Stored => rows'[s[k].id] = rows[s[k].id]
    BY DEF Grows
  <2> QED
    BY <2>1, <2>2, <2>3 DEF InTime
<1>2. InOrder(s) \/ \E k \in DOMAIN s : Due(d, s[k].id)'
  BY DEF Settled, EchoesKept
<1> QED
  BY <1>1, <1>2 DEF Settled

\* The thread of a device after a step, when s is what it shows then.
LEMMA ThreadedBy ==
  ASSUME NEW d \in Devices, NEW s, s = messages'[d], Bubbles(d, s)',
         Steady(d)' => Settled(d, s)'
  PROVE  Threaded(d)'
  BY DEF Threaded

\* A thread that is not touched.
LEMMA ThreadedSame ==
  ASSUME Composed, Grows, NEW d \in Devices, Threaded(d), messages'[d] = messages[d],
         base'[d] = base[d], spent[d] \subseteq spent'[d],
         Steady(d)' => intact[d] /\ EchoesKept(d, messages[d])
  PROVE  Threaded(d)'
<1>1. PICK s : s = messages[d]
  OBVIOUS
<1>2. Bubbles(d, s)'
  BY <1>1, BubbleKept DEF Threaded, Bubbles
<1>3. ASSUME Steady(d)' PROVE Settled(d, s)'
  <2>1. Steady(d)
    BY <1>3, Grown DEF Steady
  <2>2. Settled(d, s) /\ EchoesKept(d, s)
    BY <1>1, <1>3, <2>1 DEF Threaded
  <2> QED
    BY <2>2, SettledKept
<1> QED
  BY <1>1, <1>2, <1>3, ThreadedBy

\* No echo is lost when neither the handlers nor the link of the device change.
LEMMA EchoesSame ==
  ASSUME Grows, NEW d \in Devices, NEW s, Bubbles(d, s), work' = work,
         socket'[d].n = socket[d].n, inbox'[d] = inbox[d], Stored' = Stored
  PROVE  EchoesKept(d, s)
<1>1. ASSUME NEW i \in Sent, Due(d, i) PROVE Due(d, i)'
  BY <1>1, Grown DEF Due
<1>2. \A k \in DOMAIN s : s[k].id \in Sent
  BY DEF Bubbles, BubbleOK
<1> QED
  BY <1>1, <1>2 DEF EchoesKept

\* No echo is lost by the server: what it has stored for a device that has not been away
\* it has yet to publish there.
LEMMA EchoesServer ==
  ASSUME Ground, NEW d \in Devices, NEW s, Bubbles(d, s), Steady(d), ServerStep
  PROVE  EchoesKept(d, s)
<1>1. /\ Grows /\ socket' = socket /\ sent' = sent /\ IInv /\ Owner[d] \in members
      /\ inbox[d] \in Seq(Copied) /\ JoinedAt(d) /\ OnTheWay /\ intact[d]
  <2>1. Owner[d] \in Users /\ left[Owner[d]] = 0 /\ intact[d]
    BY StoreAssumption DEF StoreAssumption, Steady, NeverLeft
  <2> QED
    BY <2>1, ServerGrows, Typed DEF Ground, BaseInv, Known, MembersKnown, Joined
<1>2. ASSUME NEW k \in DOMAIN s, NEW i, i = s[k].id
      PROVE  i \in Sent /\ (i \notin Stored => Own(d, i) /\ base[d] < i)
  BY <1>2 DEF Bubbles, BubbleOK
<1>3. \A i : Own(d, i)' <=> Own(d, i)
  BY <1>1 DEF Own
<1> SUFFICES ASSUME NEW k \in DOMAIN s, NEW i, i = s[k].id
             PROVE  /\ Due(d, i) => Due(d, i)'
                    /\ i \in Stored' => i \in Stored \/ Due(d, i)'
  BY DEF EchoesKept
<1>4. ASSUME NEW w \in work, Insert(w)
      PROVE  /\ Due(d, i) => Due(d, i)'
             /\ i \in Stored' => i \in Stored \/ Due(d, i)'
  <2>1. /\ Stored' = Stored \cup {w.event.id} /\ w.step = "insert" /\ inbox' = inbox
        /\ \A u \in work : u.step = "publish" => u \in work'
    BY <1>1, <1>4, InsertView DEF Inserts, Insert
  <2>2. Due(d, i) => Due(d, i)'
    BY <1>1, <1>3, <2>1 DEF Due
  <2>3. ASSUME i \in Stored', i \notin Stored PROVE Due(d, i)'
    <3>1. i = w.event.id /\ Own(d, i) /\ base[d] < w.event.id
      BY <1>2, <2>1, <2>3
    <3>2. w.dev = d
      BY <1>1, <3>1 DEF OnTheWay, Own
    <3>3. w.socket = socket[d].n
      BY <1>1, <3>1, <3>2 DEF JoinedAt
    <3>4. PICK v \in work' : /\ v.event = w.event /\ v.dev = w.dev /\ v.socket = w.socket
                             /\ v.step = "publish"
      BY <1>1, <1>4, InsertView DEF Inserts
    <3> QED
      BY <1>1, <1>3, <3>1, <3>2, <3>3, <3>4 DEF Due
  <2> QED
    BY <2>2, <2>3
<1>5. ASSUME NEW w \in work, Publish(w)
      PROVE  Due(d, i) => Due(d, i)'
  <2>1. /\ work' = work \ {w} /\ inbox'[d] = IF Member(d) /\ Connected(d)
                                            THEN Append(inbox[d], EchoOf(w)) ELSE inbox[d]
    BY <1>5 DEF Publish, Recipients
  <2>2. ASSUME NEW j \in DOMAIN inbox[d], inbox[d][j].id = i, Own(d, i) PROVE Due(d, i)'
    <3>1. j \in DOMAIN inbox'[d] /\ inbox'[d][j] = inbox[d][j]
      BY <1>1, <2>1
    <3> QED
      BY <1>3, <2>2, <3>1 DEF Due
  <2>3. ASSUME NEW u \in work, u.dev = d, u.socket = socket[d].n, u.step = "publish",
               u.event.id = i, Own(d, i)
        PROVE  Due(d, i)'
    <3>1. CASE u # w
      BY <1>1, <1>3, <2>1, <2>3, <3>1 DEF Due
    <3>2. CASE u = w
      <4>1. socket[d].state # "opening" /\ socket[d].state # "closed"
        BY <1>1, <2>3 DEF OnTheWay, JoinedAt
      <4>2. socket[d] \in [n : Nat, state : {"closed", "opening", "open"}]
        BY <1>1 DEF IInv, StoreTypes
      <4>3. Connected(d) /\ Member(d)
        BY <1>1, <4>1, <4>2 DEF Connected, Member
      <4>4. inbox'[d] = Append(inbox[d], EchoOf(w)) /\ EchoOf(w).id = i
        BY <2>1, <2>3, <3>2, <4>3 DEF EchoOf
      <4>5. Len(inbox[d]) + 1 \in DOMAIN inbox'[d] /\ inbox'[d][Len(inbox[d]) + 1].id = i
        BY <1>1, <4>4
      <4> QED
        BY <1>3, <2>3, <4>5 DEF Due
    <3> QED
      BY <3>1, <3>2
  <2> QED
    BY <2>2, <2>3 DEF Due
<1>6. ASSUME NEW w \in work, Publish(w) PROVE Stored' = Stored
  BY <1>6 DEF Publish, Stored
<1>7. ASSUME work \subseteq work', inbox' = inbox
      PROVE  Due(d, i) => Due(d, i)'
  BY <1>1, <1>3, <1>7 DEF Due
<1>8. ASSUME NEW e \in Devices, Begin(e) \/ Refuse(e)
      PROVE  Stored' = Stored /\ work \subseteq work' /\ inbox' = inbox
  BY <1>8 DEF Begin, Refuse, Stored
<1>9. ASSUME NEW u \in Users, AddMember(u) \/ RemoveMember(u)
      PROVE  Stored' = Stored /\ work \subseteq work' /\ inbox' = inbox
  BY <1>9 DEF AddMember, RemoveMember, Stored
<1> QED
  BY <1>4, <1>5, <1>6, <1>7, <1>8, <1>9 DEF ServerStep

\* Taking an event takes no other echo.
LEMMA EchoesTail ==
  ASSUME BaseInv, Grows, NEW d \in Devices, work' = work, TakesEvent(d),
         NEW i \in Sent, i # Head(inbox[d]).id \/ ~Own(d, i), Due(d, i)
  PROVE  Due(d, i)'
<1>1. /\ inbox[d] \in Seq(Copied) /\ inbox[d] # <<>> /\ inbox'[d] = Tail(inbox[d])
      /\ socket'[d] = socket[d]
  BY Typed DEF TakesEvent
<1>2. Own(d, i) /\ Own(d, i)'
  BY Grown DEF Due
<1>3. CASE \E w \in work : /\ w.dev = d /\ w.socket = socket[d].n
                           /\ w.step = "publish" /\ w.event.id = i
  BY <1>1, <1>2, <1>3 DEF Due
<1>4. ASSUME NEW k \in DOMAIN inbox[d], inbox[d][k].id = i PROVE Due(d, i)'
  <2>1. k - 1 \in DOMAIN inbox'[d] /\ inbox'[d][k - 1] = inbox[d][k]
    BY <1>1, <1>2, <1>4, HeadTail
  <2> QED
    BY <1>2, <1>4, <2>1 DEF Due
<1> QED
  BY <1>3, <1>4 DEF Due

\* A new bubble of one's own: the thread is in order again.
LEMMA ThreadedSend ==
  ASSUME Ground, NEW d \in Devices, Threaded(d), SendText(d)
  PROVE  Threaded(d)'
<1>1. /\ BaseInv /\ Composed /\ Shapes /\ Grows /\ IInv /\ work' = work /\ rows' = rows
      /\ messages[d] \in Seq(Bubble) /\ Distinct(messages[d]) /\ Len(sent) \in Nat
      /\ base[d] \in Nat /\ base[d] <= Len(sent)
  <2>1. Device(d)
    BY DEF Device, User
  <2> QED
    BY <2>1, Typed, Shaped, DeviceGrows, DeviceTables DEF Ground, BaseInv, IInv, Known, HeldKnown
<1>2. PICK s \in Seq(Bubble) : s = messages[d]
  BY <1>1
<1>3. PICK n : n = Len(sent) + 1
  OBVIOUS
<1>4. PICK m \in Message : Composes(d, m) /\ m.kind = "text"
  BY <1>1, SendTextView
<1>5. /\ n \in Ids /\ n \notin Sent /\ Sent' = Sent \cup {n} /\ sent'[n] = m /\ m.from = d
      /\ n \notin Stored /\ n \in Nat
  BY <1>1, <1>3, <1>4, NewMessage
<1>6. PICK b : b = Optimistic(n, LocalTime(d))
  OBVIOUS
<1>7. b \in Bubble /\ b.id = n /\ b.body = TRUE
  BY <1>1, <1>5, <1>6, BubbleTyped, LocalTimeTyped DEF Optimistic
<1>8. PICK t : t = mergeMessages(s, b)
  OBVIOUS
<1>9. /\ t = messages'[d] /\ base'[d] = base[d] /\ spent'[d] = spent[d]
      /\ intact'[d] = intact[d]
  BY <1>1, <1>2, <1>3, <1>6, <1>8, SendTextView DEF SameMarks
<1>10. /\ t \in Seq(Bubble)
       /\ ~Lists(s, b.id) => InOrder(t)
       /\ \A k \in DOMAIN t : t[k] = b \/ \E j \in DOMAIN s : t[k] = s[j] /\ s[j].id # b.id
  <2>1. s \in Seq(Bubble) /\ Distinct(s)
    BY <1>1, <1>2
  <2> QED
    <3>1. b \in Bubble /\ t = mergeMessages(s, b)
      BY <1>7, <1>8
    <3>2. t \in Seq(Bubble)
      BY <2>1, <3>1, Merged
    <3>3. ~Lists(s, b.id) => InOrder(t)
      BY <2>1, <3>1, Merged
    <3>4. \A k \in DOMAIN t : t[k] = b \/ \E j \in DOMAIN s : t[k] = s[j] /\ s[j].id # b.id
      BY <2>1, <3>1, Merged
    <3> QED
      BY <3>2, <3>3, <3>4
<1>11. Bubbles(d, s)
  BY <1>2 DEF Threaded
<1>12. ~Lists(s, b.id)
  BY <1>5, <1>7, <1>11 DEF Lists, Bubbles, BubbleOK
<1>13. Stored' = Stored
  BY <1>1 DEF Stored
<1>14. BubbleOK(d, b)'
  <2>1. Own(d, n)' /\ IsText(n)'
    BY <1>4, <1>5 DEF Own, IsText
  <2>2. base'[d] < n
    BY <1>1, <1>3, <1>9
  <2> QED
    BY <1>5, <1>7, <2>1, <2>2 DEF BubbleOK
<1>15. \A j \in DOMAIN s : BubbleOK(d, s[j])'
  BY <1>1, <1>9, <1>11, BubbleKept DEF Bubbles
<1>16. Bubbles(d, t)'
  BY <1>10, <1>14, <1>15 DEF Bubbles
<1>17. ASSUME Steady(d)' PROVE Settled(d, t)'
  <2>1. Settled(d, s)
    BY <1>1, <1>2, <1>9, <1>17, Grown DEF Threaded, Steady
  <2>2. socket'[d].n = socket[d].n /\ inbox'[d] = inbox[d]
    BY <1>4 DEF Composes
  <2>3. Settled(d, s)'
    BY <1>1, <1>11, <1>13, <2>1, <2>2, EchoesSame, SettledKept
  <2>4. InTime(d, b)'
    BY <1>5, <1>7, <1>13 DEF InTime
  <2>5. \A k \in DOMAIN t : InTime(d, t[k])'
    BY <1>10, <2>3, <2>4 DEF Settled
  <2> QED
    BY <1>10, <1>12, <2>5 DEF Settled
<1> QED
  BY <1>9, <1>16, <1>17, ThreadedBy

\* An echo: the bubble it confirms takes the server's stamp and its place.
LEMMA ThreadedEcho ==
  ASSUME Ground, NEW d \in Devices, Threaded(d), ReceiveEcho(d)
  PROVE  Threaded(d)'
<1>1. /\ BaseInv /\ Composed /\ Shapes /\ Grows /\ IInv /\ work' = work /\ rows' = rows
      /\ messages[d] \in Seq(Bubble) /\ Distinct(messages[d]) /\ inbox[d] \in Seq(Copied)
  <2>1. Device(d)
    BY DEF Device, Receive
  <2> QED
    BY <2>1, Typed, Shaped, DeviceGrows, DeviceTables DEF Ground, BaseInv, IInv
<1>2. PICK s : s = messages[d]
  OBVIOUS
<1>3. PICK e : e = Head(inbox[d])
  OBVIOUS
<1>4. TakesEvent(d) /\ inbox[d] # <<>>
  BY <1>1, ReceiveEchoView DEF TakesEvent
<1>5. /\ e.id \in Stored /\ e.id \in Ids /\ e.at \in Nat /\ e.at = rows[e.id].at
  <2>1. e \in Copied /\ e = inbox[d][1] /\ 1 \in DOMAIN inbox[d]
    BY <1>1, <1>3, <1>4, HeadTail
  <2>2. e.id \in Stored
    BY <1>1, <1>3, <1>4, HeadsStored DEF Ground
  <2>3. rows[e.id] = [copy |-> e.copy, at |-> e.at]
    BY <1>1, <2>1 DEF IInv, FirstCopyKept
  <2> QED
    BY <2>1, <2>2, <2>3 DEF Copied
<1>6. PICK t : t = acknowledgeMessage(s, e)
  OBVIOUS
<1>7. /\ t = messages'[d] /\ base'[d] = base[d] /\ spent'[d] = spent[d]
      /\ intact'[d] = intact[d]
  BY <1>1, <1>2, <1>3, <1>6, ReceiveEchoView DEF SameMarks, SameLogs
<1>8. /\ t \in Seq(Bubble) /\ (~Lists(s, e.id) => t = s) /\ (Lists(s, e.id) => InOrder(t))
      /\ \A k \in DOMAIN t : \E j \in DOMAIN s :
           \/ t[k] = s[j] /\ s[j].id # e.id
           \/ t[k] = Confirmed(s[j], e) /\ s[j].id = e.id
  <2>1. s \in Seq(Bubble) /\ Distinct(s)
    BY <1>1, <1>2
  <2> QED
    <3>1. t \in Seq(Bubble)
      BY <1>5, <1>6, <2>1, Acknowledged
    <3>2. ~Lists(s, e.id) => t = s
      BY <1>5, <1>6, <2>1, Acknowledged
    <3>3. Lists(s, e.id) => InOrder(t)
      BY <1>5, <1>6, <2>1, Acknowledged
    <3>4. \A k \in DOMAIN t : \E j \in DOMAIN s :
            \/ t[k] = s[j] /\ s[j].id # e.id
            \/ t[k] = Confirmed(s[j], e) /\ s[j].id = e.id
      BY <1>5, <1>6, <2>1, Acknowledged
    <3> QED
      BY <3>1, <3>2, <3>3, <3>4
<1>9. Bubbles(d, s)
  BY <1>2 DEF Threaded
<1>10. \A j \in DOMAIN s : BubbleOK(d, s[j])' /\ s[j].id \in Sent
  BY <1>1, <1>7, <1>9, BubbleKept DEF Bubbles, BubbleOK
<1>11. ASSUME NEW j \in DOMAIN s
       PROVE  /\ Confirmed(s[j], e).id = s[j].id /\ Confirmed(s[j], e).at = e.at
              /\ Confirmed(s[j], e).body = s[j].body
  <2>1. s[j] \in Bubble
    BY <1>1, <1>2
  <2> QED
    BY <2>1 DEF Confirmed, Bubble
<1>12. \A j \in DOMAIN s : BubbleOK(d, Confirmed(s[j], e))'
  BY <1>10, <1>11 DEF BubbleOK
<1>13. Bubbles(d, t)'
  BY <1>8, <1>10, <1>12 DEF Bubbles
<1>14. Stored' = Stored
  BY <1>1 DEF Stored
<1>15. ASSUME Steady(d)' PROVE Settled(d, t)'
  <2>1. Settled(d, s)
    BY <1>1, <1>2, <1>7, <1>15, Grown DEF Threaded, Steady
  <2>2. ASSUME NEW j \in DOMAIN s, s[j].id # e.id, Due(d, s[j].id) PROVE Due(d, s[j].id)'
    BY <1>1, <1>3, <1>4, <1>10, <2>2, EchoesTail
  <2>3. ASSUME NEW j \in DOMAIN s, s[j].id # e.id PROVE InTime(d, s[j])'
    BY <1>1, <1>14, <2>1, <2>2, <2>3 DEF InTime, Settled
  <2>4. CASE Lists(s, e.id)
    <3>1. \A j \in DOMAIN s : s[j].id = e.id => InTime(d, Confirmed(s[j], e))'
      BY <1>1, <1>5, <1>11 DEF InTime
    <3>2. \A k \in DOMAIN t : InTime(d, t[k])'
      BY <1>8, <2>3, <3>1
    <3> QED
      BY <1>8, <2>4, <3>2 DEF Settled
  <2>5. CASE ~Lists(s, e.id)
    <3>1. \A j \in DOMAIN s : s[j].id # e.id
      BY <2>5 DEF Lists
    <3>2. EchoesKept(d, s)
      BY <1>14, <2>2, <3>1 DEF EchoesKept
    <3> QED
      BY <1>1, <1>8, <2>1, <2>5, <3>2, SettledKept
  <2> QED
    BY <2>4, <2>5
<1> QED
  BY <1>7, <1>13, <1>15, ThreadedBy

\* What was decrypted is drawn.
LEMMA ThreadedMerge ==
  ASSUME Ground, NEW d \in Devices, Threaded(d), MergeLive(d) \/ MergeHistory(d)
  PROVE  Threaded(d)'
<1>1. /\ BaseInv /\ Composed /\ Shapes /\ Grows
      /\ messages[d] \in Seq(Bubble) /\ Distinct(messages[d])
  <2>1. Device(d)
    BY DEF Device, History
  <2> QED
    BY <2>1, Typed, Shaped, DeviceGrows DEF Ground, BaseInv, IInv
<1>2. UNCHANGED store /\ base'[d] = base[d] /\ spent'[d] = spent[d] /\ intact'[d] = intact[d]
  BY <1>1, MergeLiveView, MergeHistoryView DEF SameLogs, SameMarks
<1>3. PICK results \in Seq(Result) : AllGood(d, results) /\ Draws(d, results)
  BY <1>1, MergesGood DEF Ground
<1>4. PICK s : s = messages[d]
  OBVIOUS
<1>5. PICK t : t = DrawAll(s, results)
  OBVIOUS
<1>6. Bubbles(d, s) /\ (Steady(d) => Settled(d, s))
  BY <1>4 DEF Threaded
<1>7. Bubbles(d, t) /\ (Settled(d, s) => Settled(d, t))
  BY <1>1, <1>3, <1>4, <1>5, <1>6, DrawAllOK
<1>8. t = messages'[d]
  BY <1>3, <1>4, <1>5 DEF Draws
<1>9. Bubbles(d, t)'
  BY <1>1, <1>2, <1>7, BubbleKept DEF Bubbles
<1>10. ASSUME Steady(d)' PROVE Settled(d, t)'
  <2>1. Settled(d, t)
    BY <1>1, <1>2, <1>6, <1>7, <1>10, Grown DEF Steady
  <2>2. work' = work /\ socket' = socket /\ inbox' = inbox /\ Stored' = Stored
    BY <1>2 DEF store, Stored
  <2> QED
    BY <1>1, <1>7, <2>1, <2>2, EchoesSame, SettledKept
<1> QED
  BY <1>8, <1>9, <1>10, ThreadedBy

\* A thread that was emptied.
LEMMA ThreadedEmpty ==
  ASSUME NEW d \in Devices, messages'[d] = <<>>
  PROVE  Threaded(d)'
<1>1. PICK s : s = <<>> /\ DOMAIN s = {}
  BY EmptyThread
<1>2. Bubbles(d, s)' /\ Settled(d, s)'
  BY <1>1 DEF Bubbles, Settled, InOrder
<1> QED
  BY <1>1, <1>2, ThreadedBy

\* The thread of a device after a step of its own.
LEMMA ThreadedDevice ==
  ASSUME Ground, NEW d \in Devices, Threaded(d), Device(d)
  PROVE  Threaded(d)'
<1>1. /\ BaseInv /\ Composed /\ Shapes /\ StoreTypes /\ Grows /\ work' = work
      /\ Stored' = Stored /\ spent[d] \subseteq spent'[d] /\ JoinedAt(d)
  BY Shaped, DeviceGrows, DeviceTables, SpentGrows DEF Ground, BaseInv, IInv, Joined, Stored
<1>2. PICK s : s = messages[d] /\ Bubbles(d, s)
  BY DEF Threaded
<1>3. CASE Load(d) \/ Leave(d) \/ Return(d)
  BY <1>1, <1>3, LoadView, LeaveView, ReturnView, ThreadedEmpty DEF Emptied
<1>4. CASE Refresh(d) \/ SocketLost(d)
  <2>1. messages'[d] = messages[d] /\ base'[d] = base[d] /\ intact'[d] = FALSE
    BY <1>1, <1>4, RefreshView, SocketLostView DEF SameScreen
  <2> QED
    BY <1>1, <2>1, ThreadedSame DEF Steady
<1>5. ASSUME messages'[d] = messages[d], base'[d] = base[d], intact'[d] = intact[d],
             socket'[d].n = socket[d].n, inbox'[d] = inbox[d]
      PROVE  Threaded(d)'
  <2>1. EchoesKept(d, s)
    BY <1>1, <1>2, <1>5, EchoesSame
  <2> QED
    BY <1>1, <1>2, <1>5, <2>1, ThreadedSame DEF Steady
<1>6. CASE SocketOpens(d)
  <2>1. UNCHANGED client /\ socket'[d] = [n |-> socket[d].n, state |-> "open"]
        /\ inbox'[d] = inbox[d]
    BY <1>1, <1>6, SocketOpensView
  <2>2. socket'[d].n = socket[d].n
    BY <2>1
  <2> QED
    BY <1>5, <2>1, <2>2 DEF client
<1>7. CASE ToggleReaction(d)
  <2>1. /\ messages'[d] = messages[d] /\ base'[d] = base[d] /\ intact'[d] = intact[d]
        /\ socket'[d] = socket[d] /\ inbox'[d] = inbox[d]
    BY <1>1, <1>7, ToggleReactionView DEF SameMarks, Composes, BaseInv
  <2> QED
    BY <1>5, <2>1
<1>8. CASE Resend(d)
  <2>1. UNCHANGED client /\ socket' = socket /\ inbox' = inbox
    BY <1>1, <1>8, ResendView
  <2> QED
    BY <1>5, <2>1 DEF client
<1>9. CASE ReceiveElsewhere(d)
  <2>1. UNCHANGED client /\ ~Here(d)
    BY <1>9 DEF ReceiveElsewhere
  <2>2. ~intact[d]
    BY <1>1, <2>1 DEF JoinedAt
  <2> QED
    BY <1>1, <2>1, <2>2, ThreadedSame DEF client, Steady
<1>10. CASE ReceiveLive(d)
  <2>1. /\ messages'[d] = messages[d] /\ base'[d] = base[d] /\ intact'[d] = intact[d]
        /\ TakesEvent(d) /\ Theirs(d, Head(inbox[d]).id)
    BY <1>1, <1>10, ReceiveLiveView DEF SameScreen, SameMarks
  <2>2. ~Own(d, Head(inbox[d]).id)
    BY <2>1 DEF Theirs, Own, Sender
  <2>3. ASSUME NEW i \in Sent, Due(d, i) PROVE Due(d, i)'
    BY <1>1, <2>1, <2>2, <2>3, EchoesTail
  <2>4. EchoesKept(d, s)
    BY <1>1, <1>2, <2>3 DEF EchoesKept, Bubbles, BubbleOK
  <2> QED
    BY <1>1, <1>2, <2>1, <2>4, ThreadedSame DEF Steady
<1>11. CASE HistoryArrives(d)
  <2>1. UNCHANGED store /\ SameScreen(d) /\ intact'[d] = intact[d]
    BY <1>1, <1>11, HistoryArrivesView
  <2> QED
    BY <1>5, <2>1 DEF SameScreen, store
<1>12. CASE DecryptRecord(d)
  <2>1. UNCHANGED store /\ SameScreen(d) /\ intact'[d] = intact[d]
    BY <1>1, <1>12, DecryptRecordView DEF SameMarks
  <2> QED
    BY <1>5, <2>1 DEF SameScreen, store
<1> QED
  BY <1>3, <1>4, <1>6, <1>7, <1>8, <1>9, <1>10, <1>11, <1>12,
     ThreadedSend, ThreadedEcho, ThreadedMerge
  DEF Device, User, Session, Receive, History

\* A step of the server, or of another device.
LEMMA ThreadedElsewhere ==
  ASSUME Ground, NEW e \in Devices, Threaded(e), [Next]_vars,
         (ServerStep /\ UNCHANGED client) \/ (\E d \in Devices : d # e /\ Device(d))
  PROVE  Threaded(e)'
<1>1. BaseInv /\ Composed /\ Grows
  BY ServerGrows, DeviceGrows DEF Ground, BaseInv
<1>2. PICK s : s = messages[e] /\ Bubbles(e, s)
  BY DEF Threaded
<1>3. CASE ServerStep /\ UNCHANGED client
  <2>1. /\ messages'[e] = messages[e] /\ base'[e] = base[e] /\ spent'[e] = spent[e]
        /\ intact'[e] = intact[e]
    BY <1>3 DEF client
  <2>2. Steady(e)' => intact[e] /\ EchoesKept(e, s)
    BY <1>1, <1>2, <1>3, <2>1, Grown, EchoesServer DEF Steady
  <2> QED
    BY <1>1, <1>2, <2>1, <2>2, ThreadedSame
<1>4. ASSUME NEW d \in Devices, d # e, Device(d) PROVE Threaded(e)'
  <2>1. Untouched(e) /\ work' = work /\ Stored' = Stored
    BY <1>4, OthersUntouched, DeviceTables, Shaped DEF Ground, BaseInv, IInv, Stored
  <2>2. /\ messages'[e] = messages[e] /\ base'[e] = base[e] /\ spent'[e] = spent[e]
        /\ intact'[e] = intact[e] /\ socket'[e] = socket[e] /\ inbox'[e] = inbox[e]
    BY <2>1 DEF Untouched, SameScreen, SameLogs, SameMarks, SameLink
  <2>3. EchoesKept(e, s)
    BY <1>1, <1>2, <2>1, <2>2, EchoesSame
  <2> QED
    BY <1>1, <1>2, <2>2, <2>3, ThreadedSame DEF Steady
<1> QED
  BY <1>3, <1>4

-----------------------------------------------------------------------------
(* What was written is shown                                               *)

\* Nothing is written on d in this step.
WritesNothing(d) == \A i \in Sent' : i \in Sent \/ ~Own(d, i)' \/ ~IsText(i)'

\* What was written stays shown while nothing new is written.
LEMMA WrittenKept ==
  ASSUME Composed, Grows, NEW d \in Devices, WrittenShown(d), WritesNothing(d),
         base[d] \in Nat, base'[d] = base[d], Here(d)' => Here(d),
         \A i : Lists(messages[d], i) => Lists(messages'[d], i)
  PROVE  WrittenShown(d)'
<1>1. /\ Len(sent) \in Nat /\ Sent = 1..Len(sent) /\ Sent' = 1..Len(sent')
  BY DEF Composed, Sent
<1> SUFFICES ASSUME NEW i \in (base[d] + 1)..Len(sent'), Own(d, i)', IsText(i)', Here(d)'
             PROVE  Lists(messages'[d], i)
  BY DEF WrittenShown
<1>2. i \in Sent'
  BY <1>1
<1>3. i \in Sent
  BY <1>2 DEF WritesNothing
<1>4. Own(d, i) /\ IsText(i) /\ i \in (base[d] + 1)..Len(sent)
  BY <1>1, <1>3, Grown
<1> QED
  BY <1>4 DEF WrittenShown

\* What was written is shown after a step of the device
LEMMA WrittenDevice ==
  ASSUME Ground, NEW d \in Devices, Threaded(d), WrittenShown(d), Device(d)
  PROVE  WrittenShown(d)'
<1>1. /\ BaseInv /\ Composed /\ Shapes /\ StoreTypes /\ ClientTypes /\ Grows
      /\ base[d] \in Nat /\ base[d] <= Len(sent) /\ Len(sent) \in Nat
      /\ messages[d] \in Seq(Bubble) /\ Distinct(messages[d]) /\ inbox[d] \in Seq(Copied)
      /\ IInv /\ Sent = 1..Len(sent)
  BY Typed, Shaped, DeviceGrows DEF Ground, BaseInv, IInv, Known, HeldKnown, Sent
<1>2. sent' = sent => WritesNothing(d)
  BY DEF WritesNothing, Sent
<1>3. CASE Load(d) \/ Leave(d) \/ Return(d)
  <2>1. base'[d] = Len(sent)
    BY <1>1, <1>3, LoadView, LeaveView, ReturnView DEF Emptied
  <2>2. sent' = sent
    BY <1>3 DEF Load, Leave, Return, store
  <2> QED
    BY <1>1, <2>1, <2>2 DEF WrittenShown
<1>4. ASSUME thread'[d] = thread[d], base'[d] = base[d], WritesNothing(d),
             \A i : Lists(messages[d], i) => Lists(messages'[d], i)
      PROVE  WrittenShown(d)'
  BY <1>1, <1>4, WrittenKept DEF Here
<1>5. CASE Refresh(d) \/ SocketLost(d)
  <2>1. sent' = sent
    BY <1>5 DEF Refresh, SocketLost
  <2> QED
    BY <1>1, <1>2, <1>4, <1>5, <2>1, RefreshView, SocketLostView DEF SameScreen
<1>6. CASE SocketOpens(d) \/ Resend(d) \/ ReceiveElsewhere(d)
  <2>1. UNCHANGED <<client, sent>>
    BY <1>6 DEF SocketOpens, Resend, ReceiveElsewhere, NextEvent
  <2> QED
    BY <1>2, <1>4, <2>1 DEF client
<1>7. CASE ToggleReaction(d)
  <2>1. /\ messages'[d] = messages[d] /\ thread'[d] = thread[d] /\ base'[d] = base[d]
    BY <1>1, <1>7, ToggleReactionView
  <2>2. PICK m \in Message : Composes(d, m) /\ m.kind # "text"
    BY <1>1, <1>7, ToggleReactionView
  <2>3. PICK n : n = Len(sent) + 1
    OBVIOUS
  <2>4. Sent' = Sent \cup {n} /\ sent'[n] = m
    BY <1>1, <2>2, <2>3, NewMessage
  <2>5. WritesNothing(d)
    BY <2>2, <2>4 DEF WritesNothing, IsText
  <2> QED
    BY <1>4, <2>1, <2>5
<1>8. CASE SendText(d)
  <2>1. PICK n : n = Len(sent) + 1
    OBVIOUS
  <2>2. PICK m \in Message : Composes(d, m) /\ m.kind = "text"
    BY <1>1, <1>8, SendTextView
  <2>3. n \in Ids /\ Sent' = Sent \cup {n} /\ Len(sent') = n
    BY <1>1, <2>1, <2>2, NewMessage
  <2>4. PICK b : b = Optimistic(n, LocalTime(d))
    OBVIOUS
  <2>5. b \in Bubble /\ b.id = n
    BY <1>1, <2>3, <2>4, BubbleTyped, LocalTimeTyped DEF Optimistic
  <2>6. PICK t : t = mergeMessages(messages[d], b)
    OBVIOUS
  <2> DEFINE s == messages[d]
  <2>7. t = messages'[d] /\ base'[d] = base[d] /\ thread'[d] = thread[d]
    BY <1>1, <1>8, <2>1, <2>4, <2>6, SendTextView
  <2>8. \E k \in DOMAIN t : t[k] = b
    BY <1>1, <2>5, <2>6, Merged
  <2>9. \A j \in DOMAIN s : s[j].id # b.id => \E k \in DOMAIN t : t[k] = s[j]
    <3>1. s \in Seq(Bubble) /\ Distinct(s) /\ b \in Bubble /\ t = mergeMessages(s, b)
      BY <1>1, <2>5, <2>6
    <3> HIDE DEF s
    <3> QED
      BY <3>1, Merged
  <2>10. Lists(t, n) /\ \A i : Lists(messages[d], i) => Lists(t, i)
    BY <2>5, <2>8, <2>9 DEF Lists
  <2>11. ASSUME NEW i \in (base[d] + 1)..Len(sent'), Own(d, i)', IsText(i)', Here(d)'
         PROVE  Lists(t, i)
    <3>1. CASE i = n
      BY <2>10, <3>1
    <3>2. CASE i # n
      <4>1. i \in Sent /\ i \in (base[d] + 1)..Len(sent)
        BY <1>1, <2>1, <2>3, <2>11, <3>2
      <4>2. Own(d, i) /\ IsText(i) /\ Here(d)
        BY <1>1, <2>7, <2>11, <4>1, Grown DEF Here
      <4> QED
        BY <2>10, <4>1, <4>2 DEF WrittenShown
    <3> QED
      BY <3>1, <3>2
  <2> QED
    BY <2>7, <2>11 DEF WrittenShown
<1>9. CASE ReceiveEcho(d)
  <2>1. /\ TakesEvent(d) /\ thread'[d] = thread[d] /\ base'[d] = base[d]
        /\ messages'[d] = acknowledgeMessage(messages[d], Head(inbox[d]))
    BY <1>1, <1>9, ReceiveEchoView
  <2>2. sent' = sent
    BY <1>9 DEF ReceiveEcho, NextEvent
  <2>3. PICK e : e = Head(inbox[d])
    OBVIOUS
  <2>4. e \in Copied
    BY <1>1, <2>1, <2>3 DEF TakesEvent
  <2>5. e.id \in Ids /\ e.at \in Nat
    BY <2>4 DEF Copied
  <2>6. \A i : Lists(messages[d], i) => Lists(messages'[d], i)
    BY <1>1, <2>1, <2>3, <2>5, Acknowledged
  <2> QED
    BY <1>2, <1>4, <2>1, <2>2, <2>6
<1>10. CASE ReceiveLive(d)
  <2>1. sent' = sent
    BY <1>10 DEF ReceiveLive, NextEvent
  <2> QED
    BY <1>1, <1>2, <1>4, <1>10, <2>1, ReceiveLiveView DEF SameScreen
<1>11. CASE MergeLive(d) \/ MergeHistory(d)
  <2>1. /\ thread'[d] = thread[d] /\ base'[d] = base[d] /\ sent' = sent
    BY <1>1, <1>11, MergeLiveView, MergeHistoryView DEF store
  <2>2. PICK results \in Seq(Result) : AllGood(d, results) /\ Draws(d, results)
    BY <1>11, MergesGood DEF Ground
  <2>3. PICK t : t = DrawAll(messages[d], results)
    OBVIOUS
  <2>4. \A i : Lists(messages[d], i) => Lists(t, i)
    BY <1>1, <2>2, <2>3, DrawAllOK DEF Threaded
  <2>5. t = messages'[d]
    BY <2>2, <2>3 DEF Draws
  <2> QED
    BY <1>2, <1>4, <2>1, <2>4, <2>5
<1>12. CASE HistoryArrives(d)
  BY <1>1, <1>2, <1>4, <1>12, HistoryArrivesView DEF SameScreen, store
<1>13. CASE DecryptRecord(d)
  BY <1>1, <1>2, <1>4, <1>13, DecryptRecordView DEF SameScreen, store
<1> QED
  BY <1>3, <1>5, <1>6, <1>7, <1>8, <1>9, <1>10, <1>11, <1>12, <1>13
  DEF Device, User, Session, Receive, History

\* A step of the server, or of another device, writes nothing here.
LEMMA WrittenElsewhere ==
  ASSUME Ground, NEW e \in Devices, WrittenShown(e),
         (ServerStep /\ UNCHANGED client) \/ (\E d \in Devices : d # e /\ Device(d))
  PROVE  WrittenShown(e)'
<1>1. /\ BaseInv /\ Composed /\ Grows /\ base[e] \in Nat /\ Shapes /\ ClientTypes /\ StoreTypes
  BY ServerGrows, DeviceGrows, Typed, Shaped DEF Ground, BaseInv, IInv
<1>2. CASE ServerStep /\ UNCHANGED client
  <2>1. thread' = thread /\ messages' = messages /\ base' = base /\ sent' = sent
    BY <1>1, <1>2, ServerGrows DEF client
  <2> QED
    BY <1>1, <2>1, WrittenKept DEF Here, WritesNothing, Sent
<1>3. ASSUME NEW d \in Devices, d # e, Device(d) PROVE WrittenShown(e)'
  <2>1. thread'[e] = thread[e] /\ messages'[e] = messages[e] /\ base'[e] = base[e]
    BY <1>1, <1>3, OthersUntouched DEF Untouched, SameScreen
  <2>2. WritesNothing(e)
    <3>1. CASE sent' = sent
      BY <3>1 DEF WritesNothing, Sent
    <3>2. CASE SendsNew(d)
      <4>1. PICK m \in Message : Composes(d, m)
        BY <3>2 DEF SendsNew
      <4>2. PICK n : n = Len(sent) + 1
        OBVIOUS
      <4>3. Sent' = Sent \cup {n} /\ sent'[n] = m /\ m.from = d
        BY <1>1, <4>1, <4>2, NewMessage
      <4> QED
        BY <1>3, <4>3 DEF WritesNothing, Own
    <3> QED
      BY <1>1, <1>3, <3>1, <3>2, DeviceSends DEF Quieter, SendsAgain
  <2> QED
    BY <1>1, <2>1, <2>2, WrittenKept DEF Here
<1> QED
  BY <1>2, <1>3

\* The threads after one step.
LEMMA ThreadStep == ASSUME Ground, ThreadInv, [Next]_vars PROVE ThreadInv'
<1>1. CASE UNCHANGED vars
  <2>1. UNCHANGED <<sent, left, rows, work, inbox, socket, thread, messages, base, spent, intact>>
    BY <1>1 DEF vars, store, client
  <2>2. \A d \in Devices : \A i : Due(d, i)' <=> Due(d, i)
    BY <2>1 DEF Due, Own
  <2>3. \A d \in Devices : \A b : BubbleOK(d, b)' <=> BubbleOK(d, b)
    BY <2>1 DEF BubbleOK, Sent, Own, IsText, Stored, Theirs, Sender, NeverLeft
  <2>4. \A d \in Devices : \A b : InTime(d, b)' <=> InTime(d, b)
    BY <2>1, <2>2 DEF InTime, Stored
  <2>5. ASSUME NEW d \in Devices PROVE Threaded(d)' /\ WrittenShown(d)'
    <3>1. PICK s : s = messages[d] /\ s = messages'[d]
      BY <2>1
    <3>2. Bubbles(d, s) /\ (Steady(d) => Settled(d, s)) /\ WrittenShown(d)
      BY <3>1 DEF ThreadInv, Threaded
    <3>3. Bubbles(d, s)' /\ (Steady(d)' => Settled(d, s)')
      BY <2>1, <2>2, <2>3, <2>4, <3>2 DEF Bubbles, Settled, Steady, NeverLeft
    <3>4. WrittenShown(d)'
      BY <2>1, <3>2 DEF WrittenShown, Own, IsText, Here
    <3> QED
      BY <3>1, <3>3, <3>4, ThreadedBy
  <2> QED
    BY <2>5 DEF ThreadInv
<1>2. CASE ServerStep /\ UNCHANGED client
  BY <1>2, ThreadedElsewhere, WrittenElsewhere DEF ThreadInv
<1>3. ASSUME NEW d \in Devices, Device(d) PROVE ThreadInv'
  BY <1>3, ThreadedDevice, WrittenDevice, ThreadedElsewhere, WrittenElsewhere DEF ThreadInv
<1> QED
  BY <1>1, <1>2, <1>3 DEF Next

\* At first.
LEMMA ThreadStart == ASSUME Init PROVE ThreadInv
<1>1. /\ messages = [d \in Devices |-> <<>>] /\ thread = [d \in Devices |-> "none"]
      /\ DOMAIN <<>> = {}
  BY EmptyThread DEF Init
<1> QED
  BY <1>1 DEF ThreadInv, Threaded, WrittenShown, Bubbles, Settled, InOrder, Here

\* The threads are in their invariant throughout.
LEMMA AlwaysThreads == Spec => [](Ground /\ ThreadInv)
<1>1. Init => ThreadInv
  BY ThreadStart
<1>2. Ground /\ ThreadInv /\ [Next]_vars => ThreadInv'
  BY ThreadStep
<1> QED
  BY <1>1, <1>2, AlwaysGround, PTL DEF Spec

\* What was written on a device since its thread was opened is on its screen, and what it
\* wrote at any time is shown there with its text: no history, echo or failed decryption
\* replaces it by an empty bubble (App.tsx:684-704, :1166-1199).
THEOREM OwnTextsAlwaysShown == Spec => []OwnTextsShown
<1>1. Ground /\ ThreadInv => OwnTextsShown
  <2> SUFFICES ASSUME Ground, ThreadInv, NEW d \in Devices
               PROVE  /\ \A i \in (base[d] + 1)..Len(sent) :
                           sent[i].from = d /\ sent[i].kind = "text" /\ Here(d)
                             => \E k \in DOMAIN messages[d] : messages[d][k].id = i
                      /\ \A k \in DOMAIN messages[d] :
                           LET b == messages[d][k] IN
                           sent[b.id].from = d /\ sent[b.id].kind = "text" => b.body
    BY DEF OwnTextsShown
  <2>1. WrittenShown(d) /\ Bubbles(d, messages[d])
    BY DEF ThreadInv, Threaded
  <2> QED
    BY <2>1 DEF WrittenShown, Lists, Own, IsText, Bubbles, BubbleOK
<1> QED
  BY <1>1, AlwaysThreads, PTL

\* On a device that has not been away, once nothing is under way to it, what is shown and
\* stored is in the order of the server's stamps, however wrong the clock was that the
\* device drew its own bubbles with (lib/chat.ts compareSentAt, acknowledgeMessage).
THEOREM ServerOrderRestored == Spec => []ServerOrder
<1>1. Ground /\ ThreadInv => ServerOrder
  <2> SUFFICES ASSUME Ground, ThreadInv, NEW d \in Devices, Quiet(d), intact[d],
                      left[Owner[d]] = 0
               PROVE  \A k, l \in DOMAIN messages[d] :
                        /\ k < l
                        /\ {messages[d][k].id, messages[d][l].id} \subseteq Stored
                        => messages[d][k].at <= messages[d][l].at
    BY DEF ServerOrder
  <2>1. Settled(d, messages[d])
    BY DEF ThreadInv, Threaded, Steady, NeverLeft
  <2>2. \A i : ~Due(d, i)
    <3>1. work = {} /\ inbox[d] = <<>> /\ DOMAIN <<>> = {}
      BY EmptyThread DEF Quiet
    <3> QED
      BY <3>1 DEF Due
  <2>3. InOrder(messages[d])
    BY <2>1, <2>2 DEF Settled
  <2> QED
    BY <2>3 DEF InOrder
<1> QED
  BY <1>1, AlwaysThreads, PTL

-----------------------------------------------------------------------------
(* The reaction logs                                                       *)

\* What a result adds to a log: a reaction of somebody else, with the server's stamp.
LEMMA ReactOneOK ==
  ASSUME Composed, NEW d \in Devices, NEW s \in Seq(Reaction), NEW r \in Result,
         GoodResult(d, r), NEW t, t = ReactOne(s, r)
  PROVE  /\ t \in Seq(Reaction)
         /\ \A i : Lists(s, i) => Lists(t, i)
         /\ IsReaction(r) => Lists(t, r.id)
         /\ Reacted(d, s) => Reacted(d, t)
<1>1. CASE ~IsReaction(r)
  BY <1>1 DEF ReactOne
<1>2. CASE IsReaction(r)
  <2>1. PICK a : a = LogEntry(r)
    OBVIOUS
  <2>2. a \in Reaction /\ a.id = r.id /\ a.at = r.at
    BY <2>1 DEF LogEntry, Reaction, Result
  <2>3. t = mergeReactions(s, a)
    BY <1>2, <2>1 DEF ReactOne
  <2>4. /\ t \in Seq(Reaction)
        /\ \/ Lists(s, a.id) /\ t = s
           \/ ~Lists(s, a.id) /\ t = Append(s, a)
        /\ Lists(t, a.id) /\ \A i : Lists(s, i) => Lists(t, i)
    BY <2>2, <2>3, MergedReaction
  <2>5. /\ r.id \in Stored /\ r.id \in Sent /\ r.at = rows[r.id].at /\ r.ok /\ ~IsText(r.id)
    BY <1>2 DEF GoodResult, Composed, IsReaction, PayloadKind, IsText
  <2>6. Theirs(d, r.id) /\ ~Own(d, r.id)
    BY <2>5 DEF GoodResult, Theirs, Own, Sender
  <2>7. ASSUME Reacted(d, s), ~Lists(s, a.id), t = Append(s, a) PROVE Reacted(d, t)
    <3>1. /\ DOMAIN t = DOMAIN s \cup {Len(s) + 1} /\ Len(s) + 1 \notin DOMAIN s
          /\ \A k \in DOMAIN s : t[k] = s[k]
          /\ t[Len(s) + 1] = a
      BY <2>2, <2>7, Appended
    <3>2. \A k \in DOMAIN s : s[k].id # a.id
      BY <2>7 DEF Lists
    <3>3. /\ \A k \in DOMAIN t :
               /\ t[k].id \in Sent /\ ~IsText(t[k].id)
               /\ ~Own(d, t[k].id) => Theirs(d, t[k].id) /\ t[k].id \in Stored
                                      /\ t[k].at = rows[t[k].id].at
               /\ Own(d, t[k].id) => t[k].at <= LocalTime(d)
      BY <2>2, <2>5, <2>6, <2>7, <3>1 DEF Reacted
    <3>4. Distinct(t)
      BY <2>7, <3>1, <3>2 DEF Reacted, Distinct
    <3>5. ASSUME NEW k \in DOMAIN t, NEW l \in DOMAIN t, k < l, Own(d, t[k].id), Own(d, t[l].id)
          PROVE  t[k].id < t[l].id /\ t[k].at <= t[l].at
      <4>1. k \in DOMAIN s /\ l \in DOMAIN s
        BY <2>2, <2>6, <3>1, <3>5
      <4> QED
        BY <2>7, <3>1, <3>5, <4>1 DEF Reacted
    <3> QED
      BY <3>3, <3>4, <3>5 DEF Reacted
  <2> QED
    BY <2>2, <2>4, <2>7
<1> QED
  BY <1>1, <1>2

\* The same for all that was opened.
LEMMA ReactAllOK ==
  ASSUME Composed, NEW d \in Devices, NEW s \in Seq(Reaction),
         NEW results \in Seq(Result), AllGood(d, results), NEW t, t = ReactAll(s, results)
  PROVE  /\ t \in Seq(Reaction)
         /\ \A i : Lists(s, i) => Lists(t, i)
         /\ \A k \in DOMAIN results : IsReaction(results[k]) => Lists(t, results[k].id)
         /\ Reacted(d, s) => Reacted(d, t)
<1> DEFINE N == Len(results)
<1>1. /\ N \in Nat /\ \A n \in 1..N : results[n] \in Result /\ GoodResult(d, results[n])
      /\ DOMAIN results = 1..N
  BY DEF AllGood
<1>2. PICK log : /\ log[0] = s /\ log[N] = ReactAll(s, results)
                 /\ \A n \in 1..N : log[n] = ReactOne(log[n - 1], results[n])
  <2>1. Len(results) \in Nat
    BY <1>1
  <2> QED
    BY <2>1, ReactAllSteps
<1> DEFINE OK(u, n) == /\ u \in Seq(Reaction)
                       /\ \A i : Lists(s, i) => Lists(u, i)
                       /\ \A m \in 1..n : IsReaction(results[m]) => Lists(u, results[m].id)
                       /\ Reacted(d, s) => Reacted(d, u)
           G == {n \in 0..N : OK(log[n], n)}
<1> HIDE DEF N
<1>3. 0 \in G
  BY <1>1, <1>2
<1>4. ASSUME NEW n \in 1..N, n - 1 \in G PROVE n \in G
  <2>1. PICK u : u = log[n - 1]
    OBVIOUS
  <2>2. PICK v : v = log[n]
    OBVIOUS
  <2>3. OK(u, n - 1)
    BY <1>4, <2>1
  <2>4. v = ReactOne(u, results[n])
    BY <1>2, <2>1, <2>2
  <2>5. /\ v \in Seq(Reaction)
        /\ \A i : Lists(u, i) => Lists(v, i)
        /\ IsReaction(results[n]) => Lists(v, results[n].id)
        /\ Reacted(d, u) => Reacted(d, v)
    BY <1>1, <2>3, <2>4, ReactOneOK
  <2>6. \A m \in 1..n : m \in 1..(n - 1) \/ m = n
    BY <1>1
  <2>7. OK(v, n)
    BY <2>3, <2>5, <2>6
  <2> QED
    BY <1>1, <2>2, <2>7
<1> HIDE DEF G
<1>5. N \in G
  BY <1>1, <1>3, <1>4, CountUp
<1>6. OK(t, N)
  BY <1>2, <1>5 DEF G
<1> QED
  BY <1>1, <1>6

-----------------------------------------------------------------------------
(* Covered histories                                                       *)

\* A row that is too old for a history stays so.
LEMMA RecentShrinks ==
  ASSUME Grows, NEW i \in Stored, i \in Recent'
  PROVE  i \in Recent
<1>1. \A j \in Newer(i) : j \in Newer(i)'
  BY DEF Grows, Newer
<1>2. IsFiniteSet(Newer(i)')
  <2>1. IsFiniteSet(Ids) /\ Newer(i)' \subseteq Ids
    BY FS_Interval, StoreAssumption DEF Ids, MaxMessages, StoreAssumption, Newer, Stored
  <2> QED
    BY <2>1, FS_Subset
<1>3. PICK A : A = Newer(i)
  OBVIOUS
<1>4. PICK B : B = Newer(i)'
  OBVIOUS
<1>5. A \subseteq B /\ IsFiniteSet(B)
  BY <1>1, <1>2, <1>3, <1>4
<1>6. Cardinality(A) <= Cardinality(B) /\ Cardinality(A) \in Nat /\ Cardinality(B) \in Nat
  BY <1>5, FS_Subset, FS_CardinalityType
<1>7. Cardinality(B) < Limit /\ Limit \in Nat
  BY <1>4, StoreAssumption DEF Recent, StoreAssumption
<1> QED
  BY <1>3, <1>6, <1>7 DEF Recent

\* What d has reached, or what is on its way to it, stays so in this step.
StillReached(d) ==
  \A i \in Stored' :
    /\ covered[d] /\ NeverLeft(d) /\ Theirs(d, i)'
    /\ i \in Stored => Theirs(d, i) /\ Reached(d, i)
    => Reached(d, i)'

\* A history stays covered when the thread and the socket are left as they are.
LEMMA CoveredKept ==
  ASSUME Composed, Grows, NEW d \in Devices, CoveredAt(d), thread'[d] = thread[d],
         socket'[d].state = socket[d].state, covered'[d] => covered[d],
         fetch'[d] = "asked" => fetch[d] = "asked",
         covered[d] => StillReached(d)
  PROVE  CoveredAt(d)'
<1>1. fetch'[d] = "asked" => Here(d)'
  BY DEF CoveredAt, Here
<1>2. ASSUME covered'[d]
      PROVE  /\ Here(d)' /\ Connected(d)'
             /\ NeverLeft(d)' => \A i \in Stored' : Theirs(d, i)' => Reached(d, i)'
  <2>1. /\ covered[d] /\ Here(d) /\ Connected(d) /\ StillReached(d)
        /\ NeverLeft(d) => \A i \in Stored : Theirs(d, i) => Reached(d, i)
    BY <1>2 DEF CoveredAt
  <2>2. Here(d)' /\ Connected(d)'
    BY <2>1 DEF Here, Connected
  <2>3. ASSUME NeverLeft(d)', NEW i \in Stored', Theirs(d, i)' PROVE Reached(d, i)'
    <3>1. NeverLeft(d)
      BY <2>3, Grown
    <3>2. ASSUME i \in Stored PROVE Theirs(d, i) /\ Reached(d, i)
      <4>1. i \in Sent
        BY <3>2 DEF Composed
      <4>2. Theirs(d, i)
        BY <2>3, <4>1, Grown
      <4> QED
        BY <2>1, <3>1, <3>2, <4>2
    <3> QED
      BY <2>1, <2>3, <3>1, <3>2 DEF StillReached
  <2> QED
    BY <2>2, <2>3
<1> QED
  BY <1>1, <1>2 DEF CoveredAt

\* A device that is no longer covered has only its request to account for.
LEMMA Uncovered ==
  ASSUME NEW d \in Devices, covered'[d] = FALSE, fetch'[d] = "asked" => Here(d)'
  PROVE  CoveredAt(d)'
  BY DEF CoveredAt

\* The message is where it was, on the screen, or on its way.
LEMMA ReachedBy ==
  ASSUME NEW d \in Devices, NEW i, Reached(d, i), rows' = rows, work' = work,
         Lists(messages[d], i) => Lists(messages'[d], i),
         Lists(reactions[d], i) => Lists(reactions'[d], i),
         In(i, todo[d]) => In(i, todo'[d]) \/ Lists(done'[d], i),
         Lists(done[d], i) =>
           Lists(done'[d], i) \/ Lists(messages'[d], i) \/ Lists(reactions'[d], i),
         Lists(live[d], i) =>
           Lists(live'[d], i) \/ Lists(messages'[d], i) \/ Lists(reactions'[d], i),
         Lists(inbox[d], i) => Lists(inbox'[d], i) \/ Lists(live'[d], i)
  PROVE  Reached(d, i)'
<1>1. Recent' = Recent
  BY DEF Recent, Newer, Stored
<1>2. CASE i \notin Recent
  BY <1>1, <1>2 DEF Reached
<1>3. CASE Shown(d, i)
  BY <1>3 DEF Reached, Shown, Lists
<1>4. CASE In(i, todo[d])
  BY <1>4 DEF Reached, Coming, Lists, In
<1>5. CASE Lists(done[d], i)
  BY <1>5 DEF Reached, Shown, Coming, Lists
<1>6. CASE Lists(live[d], i)
  BY <1>6 DEF Reached, Shown, Coming, Lists
<1>7. CASE Lists(inbox[d], i)
  BY <1>7 DEF Reached, Coming, Lists
<1>8. CASE \E w \in work : w.step = "publish" /\ w.event.id = i
  BY <1>8 DEF Reached, Coming
<1> QED
  BY <1>2, <1>3, <1>4, <1>5, <1>6, <1>7, <1>8 DEF Reached, Coming

\* Taking the head of a sequence takes nothing else.
LEMMA TailLists ==
  ASSUME NEW A, NEW s \in Seq(A), s # <<>>, NEW i
  PROVE  /\ Lists(s, i) => Lists(Tail(s), i) \/ Head(s).id = i
         /\ In(i, s) => In(i, Tail(s)) \/ Head(s) = i
<1>1. /\ Head(s) = s[1]
      /\ \A k \in DOMAIN s : k = 1 \/ (k - 1 \in DOMAIN Tail(s) /\ s[k] = Tail(s)[k - 1])
  BY HeadTail
<1>2. ASSUME NEW k \in DOMAIN s, s[k].id = i PROVE Lists(Tail(s), i) \/ Head(s).id = i
  <2>1. k = 1 \/ (k - 1 \in DOMAIN Tail(s) /\ s[k] = Tail(s)[k - 1])
    BY <1>1
  <2> QED
    BY <1>1, <1>2, <2>1 DEF Lists
<1>3. ASSUME NEW k \in DOMAIN s, s[k] = i PROVE In(i, Tail(s)) \/ Head(s) = i
  <2>1. k = 1 \/ (k - 1 \in DOMAIN Tail(s) /\ s[k] = Tail(s)[k - 1])
    BY <1>1
  <2> QED
    BY <1>1, <1>3, <2>1 DEF In
<1> QED
  BY <1>2, <1>3 DEF Lists, In

\* What is drawn or logged of the results of a merge.
LEMMA MergeReaches ==
  ASSUME Ground, NEW d \in Devices, Threaded(d), MergeLive(d) \/ MergeHistory(d), NEW i
  PROVE  /\ Lists(messages[d], i) => Lists(messages'[d], i)
         /\ Lists(reactions[d], i) => Lists(reactions'[d], i)
         /\ Lists(live[d], i) =>
              Lists(live'[d], i) \/ Lists(messages'[d], i) \/ Lists(reactions'[d], i)
         /\ Lists(done[d], i) =>
              Lists(done'[d], i) \/ Lists(messages'[d], i) \/ Lists(reactions'[d], i)
         /\ todo'[d] = todo[d] /\ UNCHANGED store
<1>1. /\ BaseInv /\ Composed /\ Shapes /\ live[d] \in Seq(Result) /\ done[d] \in Seq(Result)
      /\ messages[d] \in Seq(Bubble) /\ Distinct(messages[d]) /\ Bubbles(d, messages[d])
      /\ reactions[d] \in Seq(Reaction)
  BY Typed, Shaped DEF Ground, BaseInv, IInv, Threaded
<1>2. PICK results \in Seq(Result) :
        /\ AllGood(d, results) /\ Draws(d, results)
        /\ MergeLive(d) => results = <<Head(live[d])>>
        /\ MergeHistory(d) => results = done[d]
  BY <1>1, MergesGood DEF Ground
<1>3. PICK t : t = DrawAll(messages[d], results)
  OBVIOUS
<1>4. PICK u : u = ReactAll(reactions[d], results)
  OBVIOUS
<1>5. t = messages'[d] /\ u = reactions'[d]
  BY <1>2, <1>3, <1>4 DEF Draws
<1>6. Lists(messages[d], i) => Lists(t, i)
  BY <1>1, <1>2, <1>3, DrawAllOK
<1>7. \A k \in DOMAIN results : ~IsReaction(results[k]) => Lists(t, results[k].id)
  BY <1>1, <1>2, <1>3, DrawAllOK
<1>8. Lists(reactions[d], i) => Lists(u, i)
  BY <1>1, <1>2, <1>4, ReactAllOK
<1>9. \A k \in DOMAIN results : IsReaction(results[k]) => Lists(u, results[k].id)
  BY <1>1, <1>2, <1>4, ReactAllOK
<1>10. Lists(results, i) => Lists(t, i) \/ Lists(u, i)
  <2> SUFFICES ASSUME NEW k \in DOMAIN results, results[k].id = i
               PROVE  Lists(t, i) \/ Lists(u, i)
    BY DEF Lists
  <2> QED
    BY <1>7, <1>9
<1>11. CASE MergeLive(d)
  <2>1. /\ live[d] # <<>> /\ live'[d] = Tail(live[d]) /\ done'[d] = done[d]
        /\ todo'[d] = todo[d] /\ UNCHANGED store
    BY <1>1, <1>11, MergeLiveView DEF SameHistory
  <2>2. Lists(live[d], i) => Lists(live'[d], i) \/ Head(live[d]).id = i
    BY <1>1, <2>1, TailLists
  <2>3. Head(live[d]).id = i => Lists(results, i)
    <3>1. results = <<Head(live[d])>>
      BY <1>2, <1>11
    <3>2. 1 \in DOMAIN results /\ results[1] = Head(live[d])
      BY <3>1
    <3> QED
      BY <3>2 DEF Lists
  <2> QED
    BY <1>5, <1>6, <1>8, <1>10, <2>1, <2>2, <2>3
<1>12. CASE MergeHistory(d)
  <2>1. live'[d] = live[d] /\ todo'[d] = todo[d] /\ UNCHANGED store /\ results = done[d]
    BY <1>1, <1>2, <1>12, MergeHistoryView
  <2> QED
    BY <1>5, <1>6, <1>8, <1>10, <2>1
<1> QED
  BY <1>11, <1>12

\* A covered history after a step of its device
LEMMA CoveredDevice ==
  ASSUME Ground, NEW d \in Devices, Threaded(d), CoveredAt(d), Device(d)
  PROVE  CoveredAt(d)'
<1>1. /\ BaseInv /\ Composed /\ Shapes /\ StoreTypes /\ ClientTypes /\ Grows /\ IInv /\ OrderInv
      /\ inbox[d] \in Seq(Copied) /\ todo[d] \in Seq(Ids) /\ done[d] \in Seq(Result)
      /\ live[d] \in Seq(Result) /\ messages[d] \in Seq(Bubble) /\ Distinct(messages[d])
      /\ reactions[d] \in Seq(Reaction) /\ Len(sent) \in Nat /\ Known
  BY Typed, Shaped, DeviceGrows DEF Ground, BaseInv, IInv
<1>2. work' = work /\ rows' = rows /\ Stored' = Stored
  BY DeviceTables DEF Stored
<1>3. ASSUME \A i \in Stored : covered[d] /\ NeverLeft(d) /\ Theirs(d, i) /\ Reached(d, i)
                                 => Reached(d, i)'
      PROVE  StillReached(d)
  BY <1>2, <1>3 DEF StillReached
<1>4. CASE Load(d) \/ Refresh(d) \/ SocketLost(d) \/ Leave(d)
  <2>1. covered'[d] = FALSE
    BY <1>1, <1>4, LoadView, RefreshView, SocketLostView, LeaveView
  <2>2. fetch'[d] = "asked" => Here(d)'
    <3>1. CASE Load(d)
      BY <1>1, <3>1, LoadView DEF Here
    <3>2. CASE Refresh(d)
      BY <1>1, <3>2, RefreshView DEF Here, SameScreen, CoveredAt
    <3>3. CASE SocketLost(d)
      BY <1>1, <3>3, SocketLostView DEF Here, SameScreen, SameHistory, CoveredAt
    <3>4. CASE Leave(d)
      BY <1>1, <3>4, LeaveView
    <3> QED
      BY <1>4, <3>1, <3>2, <3>3, <3>4
  <2> QED
    BY <2>1, <2>2, Uncovered
<1>5. CASE Return(d)
  <2>1. thread[d] = "other" /\ thread'[d] = "this" /\ covered'[d] = covered[d]
    BY <1>1, <1>5, ReturnView DEF SameMarks
  <2>2. covered[d] = FALSE
    BY <1>1, <2>1 DEF CoveredAt, Here, ClientTypes
  <2> QED
    BY <2>1, <2>2, Uncovered DEF Here
<1>6. CASE SocketOpens(d)
  <2>1. UNCHANGED client /\ socket[d].state = "opening"
    BY <1>1, <1>6, SocketOpensView
  <2>2. covered'[d] = FALSE
    BY <1>1, <2>1 DEF CoveredAt, Connected, client, ClientTypes
  <2> QED
    BY <2>1, <2>2, Uncovered DEF client, CoveredAt, Here
<1>7. ASSUME thread'[d] = thread[d], socket'[d] = socket[d], covered'[d] = covered[d],
             fetch'[d] = fetch[d],
             \A i \in Stored : covered[d] /\ NeverLeft(d) /\ Theirs(d, i) /\ Reached(d, i)
                                 => Reached(d, i)'
      PROVE  CoveredAt(d)'
  BY <1>1, <1>3, <1>7, CoveredKept
<1>8. CASE SendText(d)
  <2>1. /\ thread'[d] = thread[d] /\ reactions'[d] = reactions[d] /\ SameHistory(d)
        /\ live'[d] = live[d] /\ SameMarks(d)
        /\ messages'[d] = mergeMessages(messages[d], Optimistic(Len(sent) + 1, LocalTime(d)))
    BY <1>1, <1>8, SendTextView
  <2>2. PICK m \in Message : Composes(d, m) /\ m.kind = "text"
    BY <1>1, <1>8, SendTextView
  <2>3. PICK b : b = Optimistic(Len(sent) + 1, LocalTime(d))
    OBVIOUS
  <2>4. Len(sent) + 1 \in Ids
    BY <2>2 DEF Composes
  <2>5. b \in Bubble
    BY <1>1, <2>3, <2>4, BubbleTyped, LocalTimeTyped
  <2>6. PICK t : t = mergeMessages(messages[d], b)
    OBVIOUS
  <2>7. \E k \in DOMAIN t : t[k] = b
    BY <1>1, <2>5, <2>6, Merged
  <2>8. PICK s : s = messages[d]
    OBVIOUS
  <2>9. \A j \in DOMAIN s : s[j].id # b.id => \E k \in DOMAIN t : t[k] = s[j]
    <3>1. s \in Seq(Bubble) /\ Distinct(s) /\ b \in Bubble /\ t = mergeMessages(s, b)
      BY <1>1, <2>5, <2>6, <2>8
    <3> QED
      BY <3>1, Merged
  <2>10. \A i : Lists(s, i) => Lists(t, i)
    BY <2>7, <2>9 DEF Lists
  <2>11. \A i : Lists(messages[d], i) => Lists(messages'[d], i)
    BY <2>1, <2>3, <2>6, <2>8, <2>10
  <2>12. \A i \in Stored : Reached(d, i) => Reached(d, i)'
    BY <1>2, <2>1, <2>2, <2>11, ReachedBy DEF SameHistory, Composes
  <2> QED
    BY <1>7, <2>1, <2>2, <2>12 DEF SameHistory, SameMarks, Composes
<1>9. CASE ToggleReaction(d)
  <2>1. /\ thread'[d] = thread[d] /\ messages'[d] = messages[d] /\ SameHistory(d)
        /\ live'[d] = live[d] /\ SameMarks(d)
        /\ reactions'[d] = mergeReactions(reactions[d],
                                          [id |-> Len(sent) + 1, at |-> LocalTime(d)])
    BY <1>1, <1>9, ToggleReactionView
  <2>2. PICK m \in Message : Composes(d, m) /\ m.kind # "text"
    BY <1>1, <1>9, ToggleReactionView
  <2>3. PICK r : r = [id |-> Len(sent) + 1, at |-> LocalTime(d)]
    OBVIOUS
  <2>4. r \in Reaction
    BY <1>1, <2>2, <2>3, LocalTimeTyped DEF Composes, Reaction
  <2>5. \A i : Lists(reactions[d], i) => Lists(reactions'[d], i)
    BY <1>1, <2>1, <2>3, <2>4, MergedReaction
  <2>6. \A i \in Stored : Reached(d, i) => Reached(d, i)'
    BY <1>2, <2>1, <2>2, <2>5, ReachedBy DEF SameHistory, Composes
  <2> QED
    BY <1>7, <2>1, <2>2, <2>6 DEF SameHistory, SameMarks, Composes
<1>10. CASE Resend(d)
  <2>1. UNCHANGED client /\ socket' = socket /\ inbox' = inbox
    BY <1>1, <1>10, ResendView
  <2>2. \A i \in Stored : Reached(d, i) => Reached(d, i)'
    BY <1>2, <2>1, ReachedBy DEF client
  <2> QED
    BY <1>7, <2>1, <2>2 DEF client
<1>11. CASE ReceiveElsewhere(d)
  <2>1. UNCHANGED client /\ ~Here(d) /\ socket'[d] = socket[d]
    BY <1>1, <1>11, ReceiveElsewhereView DEF TakesEvent
  <2>2. ~covered[d]
    BY <2>1 DEF CoveredAt
  <2> QED
    BY <1>7, <2>1, <2>2 DEF client
<1>12. CASE ReceiveEcho(d)
  <2>1. /\ TakesEvent(d) /\ thread'[d] = thread[d] /\ reactions'[d] = reactions[d]
        /\ SameHistory(d) /\ live'[d] = live[d] /\ SameMarks(d)
        /\ ~Theirs(d, Head(inbox[d]).id)
        /\ messages'[d] = acknowledgeMessage(messages[d], Head(inbox[d]))
    BY <1>1, <1>12, ReceiveEchoView
  <2>2. PICK e : e = Head(inbox[d])
    OBVIOUS
  <2>3. inbox[d] # <<>> /\ inbox'[d] = Tail(inbox[d]) /\ socket'[d] = socket[d]
    BY <2>1 DEF TakesEvent
  <2>4. e \in Copied
    BY <1>1, <2>2, <2>3
  <2>5. e.id \in Ids /\ e.at \in Nat
    BY <2>4 DEF Copied
  <2>6. \A i : Lists(messages[d], i) => Lists(messages'[d], i)
    BY <1>1, <2>1, <2>2, <2>5, Acknowledged
  <2>7. ASSUME NEW i, Theirs(d, i), Lists(inbox[d], i) PROVE Lists(inbox'[d], i)
    BY <1>1, <2>1, <2>3, <2>7, TailLists
  <2>8. \A i \in Stored : Theirs(d, i) /\ Reached(d, i) => Reached(d, i)'
    BY <1>2, <2>1, <2>6, <2>7, ReachedBy DEF SameHistory
  <2> QED
    BY <1>7, <2>1, <2>3, <2>8 DEF SameHistory, SameMarks
<1>13. CASE ReceiveLive(d)
  <2>1. /\ TakesEvent(d) /\ SameScreen(d) /\ SameHistory(d) /\ SameMarks(d)
        /\ live'[d] = Append(live[d], Resolved(d, Head(inbox[d]).id))
    BY <1>1, <1>13, ReceiveLiveView
  <2>2. inbox[d] # <<>> /\ inbox'[d] = Tail(inbox[d]) /\ socket'[d] = socket[d]
    BY <2>1 DEF TakesEvent
  <2>3. Head(inbox[d]).id \in Stored
    BY <1>1, <2>2, HeadsStored
  <2>4. PICK r : r = Resolved(d, Head(inbox[d]).id)
    OBVIOUS
  <2>5. r \in Result /\ r.id = Head(inbox[d]).id
    BY <1>1, <2>3, <2>4, ResolvedTyped DEF Stored, Resolved
  <2>6. ASSUME NEW i, Lists(live[d], i) \/ r.id = i PROVE Lists(live'[d], i)
    BY <1>1, <2>1, <2>4, <2>5, <2>6, Appended DEF Lists
  <2>7. ASSUME NEW i, Lists(inbox[d], i) PROVE Lists(inbox'[d], i) \/ Lists(live'[d], i)
    <3>1. Lists(inbox'[d], i) \/ Head(inbox[d]).id = i
      BY <1>1, <2>2, <2>7, TailLists
    <3> QED
      BY <2>5, <2>6, <3>1
  <2>8. \A i \in Stored : Reached(d, i) => Reached(d, i)'
    BY <1>2, <2>1, <2>6, <2>7, ReachedBy DEF SameScreen, SameHistory
  <2> QED
    BY <1>7, <2>1, <2>2, <2>8 DEF SameScreen, SameHistory, SameMarks
<1>14. CASE MergeLive(d) \/ MergeHistory(d)
  <2>1. thread'[d] = thread[d] /\ SameMarks(d) /\ fetch'[d] = fetch[d] /\ UNCHANGED store
    BY <1>1, <1>14, MergeLiveView, MergeHistoryView DEF SameHistory
  <2>2. inbox' = inbox /\ socket' = socket
    BY <2>1 DEF store
  <2>3. \A i \in Stored : Reached(d, i) => Reached(d, i)'
    BY <1>2, <1>14, <2>2, MergeReaches, ReachedBy
  <2> QED
    BY <1>7, <2>1, <2>2, <2>3 DEF SameMarks
<1>15. CASE HistoryArrives(d)
  <2>1. /\ UNCHANGED store /\ SameScreen(d) /\ live'[d] = live[d]
        /\ fetch[d] = "asked" /\ fetch'[d] = "ready"
        /\ Member(d) => todo'[d] = HistoryFor(d) /\ covered'[d] = Connected(d)
        /\ ~Member(d) => covered'[d] = covered[d]
    BY <1>1, <1>15, HistoryArrivesView
  <2>2. Here(d)' /\ Connected(d)' = Connected(d) /\ fetch'[d] # "asked" /\ socket' = socket
    BY <2>1 DEF CoveredAt, Here, SameScreen, store, Connected
  <2>3. covered'[d] => Connected(d)'
    BY <2>1, <2>2 DEF CoveredAt
  <2>4. NeverLeft(d)' => NeverLeft(d) /\ Member(d)
    <3>1. Owner[d] \in Users
      BY StoreAssumption DEF StoreAssumption
    <3> QED
      BY <1>1, <3>1, Grown DEF Known, MembersKnown, NeverLeft, Member
  <2>5. ASSUME NeverLeft(d)', NEW i \in Stored', Theirs(d, i)' PROVE Reached(d, i)'
    <3>1. i \in Stored /\ i \in Sent
      BY <1>1, <1>2, <2>5 DEF Composed
    <3>2. d \in sent[i].for
      BY <1>1, <2>4, <2>5, <3>1, Grown DEF Known, EnvelopesKnown
    <3>3. Recent' = Recent
      BY <1>2 DEF Recent, Newer
    <3>4. CASE i \notin Recent
      BY <3>3, <3>4 DEF Reached
    <3>5. CASE i \in Recent
      <4>1. i \in Page(d)
        BY <3>2, <3>5 DEF Page
      <4>2. \E k \in DOMAIN HistoryFor(d) : HistoryFor(d)[k] = i
        BY <1>1, <4>1, HistoryPage
      <4>3. In(i, todo'[d])
        BY <2>1, <2>4, <2>5, <4>2 DEF In
      <4> QED
        BY <4>3 DEF Reached, Coming, In
    <3> QED
      BY <3>4, <3>5
  <2> QED
    BY <2>2, <2>3, <2>5 DEF CoveredAt
<1>16. CASE DecryptRecord(d)
  <2>1. /\ UNCHANGED store /\ SameScreen(d) /\ live'[d] = live[d] /\ SameMarks(d)
        /\ fetch'[d] = fetch[d] /\ todo[d] # <<>> /\ todo'[d] = Tail(todo[d])
        /\ done'[d] = Append(done[d], Resolved(d, Head(todo[d])))
    BY <1>1, <1>16, DecryptRecordView
  <2>2. Head(todo[d]) \in Stored
    BY <1>1, <2>1, HeadsStored
  <2>3. PICK r : r = Resolved(d, Head(todo[d]))
    OBVIOUS
  <2>4. r \in Result /\ r.id = Head(todo[d])
    BY <1>1, <2>2, <2>3, ResolvedTyped DEF Stored, Resolved
  <2>5. ASSUME NEW i, Lists(done[d], i) \/ r.id = i PROVE Lists(done'[d], i)
    BY <1>1, <2>1, <2>3, <2>4, <2>5, Appended DEF Lists
  <2>6. ASSUME NEW i, In(i, todo[d]) PROVE In(i, todo'[d]) \/ Lists(done'[d], i)
    <3>1. In(i, todo'[d]) \/ Head(todo[d]) = i
      BY <1>1, <2>1, <2>6, TailLists
    <3> QED
      BY <2>4, <2>5, <3>1
  <2>7. inbox' = inbox /\ socket' = socket
    BY <2>1 DEF store
  <2>8. \A i \in Stored : Reached(d, i) => Reached(d, i)'
    BY <1>2, <2>1, <2>5, <2>6, <2>7, ReachedBy DEF SameScreen
  <2> QED
    BY <1>7, <2>1, <2>7, <2>8 DEF SameScreen, SameMarks
<1> QED
  BY <1>4, <1>5, <1>6, <1>8, <1>9, <1>10, <1>11, <1>12, <1>13, <1>14, <1>15, <1>16
  DEF Device, User, Session, Receive, History

\* What the server stores it publishes, to those it has to.
LEMMA CoveredServer ==
  ASSUME Ground, NEW d \in Devices, CoveredAt(d), ServerStep, UNCHANGED client
  PROVE  CoveredAt(d)'
<1>1. /\ BaseInv /\ Composed /\ Grows /\ IInv /\ socket' = socket /\ inbox[d] \in Seq(Copied)
      /\ MembersKnown
  BY ServerGrows, Typed DEF Ground, BaseInv, Known
<1>2. UNCHANGED <<thread, messages, reactions, fetch, todo, done, live, covered>>
  BY DEF client
<1>3. ASSUME covered[d], NeverLeft(d), NEW i \in Stored', i \in Stored => Reached(d, i)
      PROVE  Reached(d, i)'
  <2>1. Connected(d) /\ Member(d)
    <3>1. Owner[d] \in Users
      BY StoreAssumption DEF StoreAssumption
    <3> QED
      BY <1>1, <1>3, <3>1 DEF CoveredAt, MembersKnown, NeverLeft, Member
  <2>2. CASE Shown(d, i) \/ In(i, todo[d]) \/ Lists(done[d], i) \/ Lists(live[d], i)
    BY <1>2, <2>2 DEF Reached, Shown, Coming, In, Lists
  <2>3. CASE i \in Stored /\ i \notin Recent
    BY <1>1, <2>3, RecentShrinks DEF Reached
  <2>4. ASSUME i \in Stored,
               Lists(inbox[d], i) \/ \E w \in work : w.step = "publish" /\ w.event.id = i
        PROVE  Reached(d, i)'
    <3>1. CASE Lists(inbox[d], i)
      <4>1. PICK k \in DOMAIN inbox[d] : inbox[d][k].id = i
        BY <3>1 DEF Lists
      <4>2. k \in DOMAIN inbox'[d] /\ inbox'[d][k] = inbox[d][k]
        <5>1. CASE inbox'[d] = inbox[d]
          BY <4>1, <5>1
        <5>2. CASE inbox'[d] # inbox[d]
          <6>1. PICK a \in Copied : inbox'[d] = Append(inbox[d], a)
            BY <1>1, <5>2, ServerView DEF ServerFor
          <6> QED
            BY <1>1, <4>1, <6>1, Appended
        <5> QED
          BY <5>1, <5>2
      <4> QED
        BY <4>1, <4>2 DEF Reached, Coming, Lists
    <3>2. ASSUME NEW w \in work, w.step = "publish", w.event.id = i PROVE Reached(d, i)'
      <4>1. CASE w \in work'
        BY <3>2, <4>1 DEF Reached, Coming
      <4>2. CASE Publish(w)
        <5>1. inbox'[d] = Append(inbox[d], EchoOf(w))
          BY <2>1, <4>2 DEF Publish, Recipients
        <5>2. EchoOf(w).id = i
          BY <3>2 DEF EchoOf
        <5>3. /\ Len(inbox[d]) + 1 \in DOMAIN inbox'[d]
              /\ inbox'[d][Len(inbox[d]) + 1] = EchoOf(w)
          BY <1>1, <5>1
        <5> QED
          BY <5>2, <5>3 DEF Reached, Coming, Lists
      <4>3. ASSUME ~Publish(w) PROVE w \in work'
        <5>1. ASSUME NEW u \in work, Insert(u) PROVE w \in work'
          BY <1>1, <3>2, <5>1, InsertView DEF Inserts
        <5>2. ASSUME NEW u \in work, Publish(u) PROVE w \in work'
          BY <4>3, <5>2 DEF Publish
        <5>3. CASE ~(\E u \in work : Insert(u) \/ Publish(u))
          BY <5>3 DEF ServerStep, Begin, Refuse, AddMember, RemoveMember
        <5> QED
          BY <5>1, <5>2, <5>3
      <4> QED
        BY <4>1, <4>2, <4>3
    <3> QED
      BY <2>4, <3>1, <3>2
  <2>5. CASE i \notin Stored
    <3>1. PICK w \in work : Insert(w)
      <4>1. CASE ~(\E w \in work : Insert(w))
        <5>1. rows' = rows
          BY <4>1 DEF ServerStep, Begin, Refuse, Publish, AddMember, RemoveMember
        <5> QED
          BY <2>5, <5>1 DEF Stored
      <4> QED
        BY <4>1
    <3>2. i = w.event.id
      BY <1>1, <2>5, <3>1, InsertView DEF Inserts
    <3>3. PICK v \in work' : v.event = w.event /\ v.step = "publish"
      BY <1>1, <3>1, InsertView DEF Inserts
    <3> QED
      BY <3>2, <3>3 DEF Reached, Coming
  <2> QED
    BY <1>3, <2>2, <2>3, <2>4, <2>5 DEF Reached, Coming
<1>4. covered[d] => StillReached(d)
  BY <1>3 DEF StillReached
<1> QED
  BY <1>1, <1>2, <1>4, CoveredKept

\* and after a step of another device.
LEMMA CoveredOther ==
  ASSUME Ground, NEW e \in Devices, CoveredAt(e), NEW d \in Devices, Device(d), d # e
  PROVE  CoveredAt(e)'
<1>1. /\ Untouched(e) /\ Grows /\ Composed /\ rows' = rows /\ work' = work /\ Stored' = Stored
  BY OthersUntouched, DeviceGrows, DeviceTables, Shaped DEF Ground, BaseInv, IInv, Stored
<1>2. /\ thread'[e] = thread[e] /\ messages'[e] = messages[e] /\ reactions'[e] = reactions[e]
      /\ fetch'[e] = fetch[e] /\ todo'[e] = todo[e] /\ done'[e] = done[e]
      /\ live'[e] = live[e] /\ covered'[e] = covered[e]
      /\ socket'[e] = socket[e] /\ inbox'[e] = inbox[e]
  BY <1>1 DEF Untouched, SameScreen, SameHistory, SameMarks, SameLink
<1>3. \A i \in Stored : Reached(e, i) => Reached(e, i)'
  BY <1>1, <1>2, ReachedBy
<1>4. StillReached(e)
  BY <1>1, <1>3 DEF StillReached
<1> QED
  BY <1>1, <1>2, <1>4, CoveredKept

\* One step.
LEMMA CoverStep == ASSUME Ground, ThreadInv, CoverInv, [Next]_vars PROVE CoverInv'
<1>1. CASE UNCHANGED vars
  <2>1. /\ UNCHANGED <<thread, messages, reactions, fetch, todo, done, live, covered>>
        /\ UNCHANGED <<sent, left, rows, socket, work, inbox>>
    BY <1>1 DEF vars, store, client
  <2>2. Stored' = Stored /\ \A d \in Devices : \A i : Theirs(d, i)' <=> Theirs(d, i)
    BY <2>1 DEF Stored, Theirs, Sender
  <2>3. \A d \in Devices : \A i : Reached(d, i) => Reached(d, i)'
    BY <2>1, ReachedBy
  <2> QED
    BY <2>1, <2>2, <2>3 DEF CoverInv, CoveredAt, Here, Connected, NeverLeft
<1>2. CASE ServerStep /\ UNCHANGED client
  BY <1>2, CoveredServer DEF CoverInv
<1>3. ASSUME NEW d \in Devices, Device(d) PROVE CoverInv'
  BY <1>3, CoveredDevice, CoveredOther DEF CoverInv, ThreadInv
<1> QED
  BY <1>1, <1>2, <1>3 DEF Next

\* At first.
LEMMA CoverStart == ASSUME Init PROVE CoverInv
  BY DEF Init, CoverInv, CoveredAt

\* A thread that was followed on an open socket since its history was read has all the recent
\* messages of others there are, wherever each of them met the request: in the history, in a
\* live event before or after it, or between the two (App.tsx:430-470, :1062-1213).
THEOREM NothingEverMissed == Spec => []NothingMissed
<1>1. ASSUME CoverInv, NEW d \in Devices, Quiet(d), Following(d), NEW i \in Wanted(d)
      PROVE  Shown(d, i)
  <2>1. NeverLeft(d) /\ i \in Stored /\ i \in Recent /\ Theirs(d, i)
    BY <1>1 DEF Following, NeverLeft, Wanted, Recent, Theirs
  <2>2. Reached(d, i)
    BY <1>1, <2>1 DEF CoverInv, CoveredAt, Following
  <2>3. ~Coming(d, i)
    <3>1. DOMAIN <<>> = {}
      BY EmptyThread
    <3> QED
      BY <1>1, <3>1 DEF Coming, Quiet, In, Lists
  <2> QED
    BY <2>1, <2>2, <2>3 DEF Reached
<1>2. CoverInv => NothingMissed
  BY <1>1 DEF NothingMissed
<1>3. Init => CoverInv
  BY CoverStart
<1>4. Ground /\ ThreadInv /\ CoverInv /\ [Next]_vars => CoverInv'
  BY CoverStep
<1> QED
  BY <1>2, <1>3, <1>4, AlwaysThreads, PTL DEF Spec

-----------------------------------------------------------------------------
(* The reaction log                                                        *)

\* The fields of a log.
LEMMA ReactionFields ==
  ASSUME NEW s \in Seq(Reaction)
  PROVE  \A k \in DOMAIN s : s[k].id \in Ids /\ s[k].at \in Nat
<1>1. ASSUME NEW k \in DOMAIN s PROVE s[k].id \in Ids /\ s[k].at \in Nat
  <2>1. s[k] \in Reaction
    BY <1>1
  <2> QED
    BY <2>1 DEF Reaction
<1> QED
  BY <1>1

\* A log stays in order while messages are added, rows are stored and the clock ticks.
LEMMA ReactedKept ==
  ASSUME BaseInv, BaseInv', Grows, NEW d \in Devices, NEW s \in Seq(Reaction), Reacted(d, s)
  PROVE  Reacted(d, s)'
<1>1. \A k \in DOMAIN s : s[k].id \in Ids /\ s[k].at \in Nat
  BY ReactionFields
<1>2. /\ clock \in Nat /\ clock' \in Nat /\ clock <= clock' /\ Skew[d] \in Nat
  <2>1. clock \in Nat /\ clock' \in Nat
    BY DEF BaseInv, IInv, StoreTypes
  <2> QED
    BY <2>1, TimelineAssumption DEF Grows, TimelineAssumption
<1>3. LocalTime(d) \in Nat /\ LocalTime(d)' \in Nat /\ LocalTime(d) <= LocalTime(d)'
  BY <1>2 DEF LocalTime
<1>4. \A i \in Sent : /\ i \in Sent' /\ (Own(d, i)' <=> Own(d, i))
                      /\ (IsText(i)' <=> IsText(i)) /\ (Theirs(d, i)' <=> Theirs(d, i))
  BY Grown DEF Grows
<1>5. \A i \in Stored : i \in Stored' /\ rows'[i] = rows[i]
  BY DEF Grows
<1>6. \A k \in DOMAIN s : s[k].id \in Sent
  BY DEF Reacted
<1>7. \A k \in DOMAIN s :
        /\ s[k].id \in Sent' /\ ~IsText(s[k].id)'
        /\ ~Own(d, s[k].id)' => Theirs(d, s[k].id)' /\ s[k].id \in Stored'
                                /\ s[k].at = rows'[s[k].id].at
  BY <1>4, <1>5, <1>6 DEF Reacted
<1>8. \A k \in DOMAIN s : Own(d, s[k].id)' => s[k].at <= LocalTime(d)'
  BY <1>1, <1>3, <1>4, <1>6 DEF Reacted
<1>9. \A k, l \in DOMAIN s :
        k < l /\ Own(d, s[k].id)' /\ Own(d, s[l].id)'
          => s[k].id < s[l].id /\ s[k].at <= s[l].at
  BY <1>4, <1>6 DEF Reacted
<1> QED
  BY <1>7, <1>8, <1>9 DEF Reacted

\* A reaction of one's own is the last of the log, by its number and by the device's clock.
LEMMA ReactedToggle ==
  ASSUME BaseInv, BaseInv', NEW d \in Devices, ToggleReaction(d), Reacted(d, reactions[d])
  PROVE  /\ Reacted(d, reactions[d])'
         /\ \A i : Lists(reactions[d], i) => Lists(reactions'[d], i)
         /\ Lists(reactions'[d], Len(sent) + 1)
<1>1. /\ Shapes /\ ClientTypes /\ IInv /\ Composed /\ Grows /\ reactions[d] \in Seq(Reaction)
      /\ Len(sent) \in Nat
  BY Typed, Shaped, DeviceGrows DEF BaseInv, IInv, Device, User
<1>2. PICK n : n = Len(sent) + 1
  OBVIOUS
<1>3. PICK m \in Message : Composes(d, m) /\ m.kind # "text"
  BY <1>1, ToggleReactionView
<1>4. n \in Ids /\ n \notin Sent /\ Sent' = Sent \cup {n} /\ sent'[n] = m /\ m.from = d /\ n \in Nat
  BY <1>2, <1>3, NewMessage
<1>5. Own(d, n)' /\ ~IsText(n)'
  BY <1>3, <1>4 DEF Own, IsText
<1>6. PICK s : s = reactions[d]
  OBVIOUS
<1>7. PICK t : t = reactions'[d]
  OBVIOUS
<1>8. s \in Seq(Reaction) /\ Reacted(d, s)
  BY <1>1, <1>6
<1>9. Reacted(d, s)'
  BY <1>1, <1>8, ReactedKept
<1>10. LocalTime(d) \in Nat /\ clock' = clock /\ LocalTime(d)' = LocalTime(d)
  BY <1>1, LocalTimeTyped DEF ToggleReaction, LocalTime
<1>11. PICK a : a = [id |-> n, at |-> LocalTime(d)]
  OBVIOUS
<1>12. a \in Reaction /\ a.id = n /\ a.at = LocalTime(d)
  BY <1>4, <1>10, <1>11 DEF Reaction
<1>13. t = mergeReactions(s, a)
  BY <1>1, <1>2, <1>6, <1>7, <1>11, ToggleReactionView
<1>14. \A k \in DOMAIN s : s[k].id \in Sent /\ s[k].id \in Nat /\ s[k].id < n /\ s[k].at \in Nat
  <2>1. \A k \in DOMAIN s : s[k].at \in Nat
    BY <1>8, ReactionFields
  <2>2. \A k \in DOMAIN s : s[k].id \in Sent
    BY <1>8 DEF Reacted
  <2> QED
    BY <1>1, <1>2, <2>1, <2>2 DEF Sent
<1>15. ~Lists(s, n)
  BY <1>4, <1>14 DEF Lists
<1>16. /\ t = Append(s, a) /\ Lists(t, n) /\ \A i : Lists(s, i) => Lists(t, i)
  BY <1>8, <1>12, <1>13, <1>15, MergedReaction
<1>17. /\ DOMAIN t = DOMAIN s \cup {Len(s) + 1} /\ Len(s) + 1 \notin DOMAIN s
       /\ \A k \in DOMAIN s : t[k] = s[k] /\ k < Len(s) + 1
       /\ t[Len(s) + 1] = a /\ Len(s) \in Nat
  BY <1>8, <1>12, <1>16, Appended
<1>18. \A k \in DOMAIN t :
         /\ t[k].id \in Sent' /\ ~IsText(t[k].id)'
         /\ ~Own(d, t[k].id)' => Theirs(d, t[k].id)' /\ t[k].id \in Stored'
                                 /\ t[k].at = rows'[t[k].id].at
         /\ Own(d, t[k].id)' => t[k].at <= LocalTime(d)'
  <2>1. \A k \in DOMAIN s :
         /\ t[k].id \in Sent' /\ ~IsText(t[k].id)'
         /\ ~Own(d, t[k].id)' => Theirs(d, t[k].id)' /\ t[k].id \in Stored'
                                 /\ t[k].at = rows'[t[k].id].at
         /\ Own(d, t[k].id)' => t[k].at <= LocalTime(d)'
    BY <1>9, <1>17 DEF Reacted
  <2>2. n \in Sent' /\ LocalTime(d) <= LocalTime(d)'
    BY <1>4, <1>10
  <2> QED
    BY <1>5, <1>12, <1>17, <2>1, <2>2
<1>19. Distinct(t)
  <2>1. Distinct(s)
    BY <1>8 DEF Reacted
  <2>2. \A k \in DOMAIN s : s[k].id # n
    BY <1>15 DEF Lists
  <2> QED
    BY <1>12, <1>17, <2>1, <2>2 DEF Distinct
<1>20. ASSUME NEW k \in DOMAIN t, NEW l \in DOMAIN t, k < l,
              Own(d, t[k].id)', Own(d, t[l].id)'
       PROVE  t[k].id < t[l].id /\ t[k].at <= t[l].at
  <2>1. CASE k \in DOMAIN s /\ l \in DOMAIN s
    BY <1>9, <1>17, <1>20, <2>1 DEF Reacted
  <2>2. CASE k \in DOMAIN s /\ l = Len(s) + 1
    <3>1. t[k] = s[k] /\ t[l] = a /\ s[k].id \in Sent
      BY <1>14, <1>17, <2>2
    <3>2. Own(d, s[k].id)
      BY <1>1, <1>20, <3>1, Grown
    <3>3. s[k].at <= LocalTime(d)
      BY <1>8, <2>2, <3>2 DEF Reacted
    <3> QED
      BY <1>12, <1>14, <2>2, <3>1, <3>3
  <2>3. CASE k = Len(s) + 1
    <3>1. l \in DOMAIN s \/ l = Len(s) + 1
      BY <1>17
    <3>2. \A j \in DOMAIN s : j \in Nat
      BY <1>8
    <3> QED
      BY <1>17, <1>20, <2>3, <3>1, <3>2
  <2> QED
    BY <1>17, <2>1, <2>2, <2>3
<1>21. Reacted(d, t)'
  BY <1>18, <1>19, <1>20 DEF Reacted
<1> QED
  BY <1>2, <1>6, <1>7, <1>16, <1>21

\* The log after a step of the device.
LEMMA ReactedDevice ==
  ASSUME Ground, BaseInv', NEW d \in Devices, Reacted(d, reactions[d]), Device(d)
  PROVE  Reacted(d, reactions[d])'
<1>1. /\ BaseInv /\ Composed /\ Shapes /\ StoreTypes /\ ClientTypes /\ Grows
      /\ reactions[d] \in Seq(Reaction)
  BY Typed, Shaped, DeviceGrows DEF Ground, BaseInv, IInv
<1>2. PICK s : s = reactions[d]
  OBVIOUS
<1>3. PICK t : t = reactions'[d]
  OBVIOUS
<1>4. s \in Seq(Reaction) /\ Reacted(d, s)
  BY <1>1, <1>2
<1>5. ASSUME t \in Seq(Reaction), Reacted(d, t) PROVE Reacted(d, reactions[d])'
  <2>1. Reacted(d, t)'
    BY <1>1, <1>5, ReactedKept
  <2> QED
    BY <1>3, <2>1
<1>6. CASE Load(d) \/ Leave(d) \/ Return(d)
  <2>1. t = <<>>
    BY <1>1, <1>3, <1>6, LoadView, LeaveView, ReturnView DEF Emptied
  <2>2. DOMAIN <<>> = {}
    BY EmptyThread
  <2>3. Reacted(d, t)'
    BY <2>1, <2>2 DEF Reacted, Distinct
  <2> QED
    BY <1>3, <2>3
<1>7. CASE ToggleReaction(d)
  BY <1>1, <1>7, ReactedToggle
<1>8. CASE MergeLive(d) \/ MergeHistory(d)
  <2>1. Joined
    BY DEF Ground
  <2>2. PICK results \in Seq(Result) : AllGood(d, results) /\ Draws(d, results)
    BY <1>1, <1>8, <2>1, MergesGood
  <2>3. t = ReactAll(s, results)
    BY <1>2, <1>3, <2>2 DEF Draws
  <2>4. t \in Seq(Reaction)
    BY <1>1, <1>4, <2>2, <2>3, ReactAllOK
  <2>5. Reacted(d, s) => Reacted(d, t)
    BY <1>1, <1>4, <2>2, <2>3, ReactAllOK
  <2> QED
    BY <1>4, <1>5, <2>4, <2>5
<1>9. ASSUME reactions'[d] = reactions[d] PROVE Reacted(d, reactions[d])'
  <2>1. t = s
    BY <1>2, <1>3, <1>9
  <2> QED
    BY <1>4, <1>5, <2>1
<1>10. CASE Refresh(d) \/ SocketOpens(d) \/ SocketLost(d)
  BY <1>1, <1>9, <1>10, RefreshView, SocketOpensView, SocketLostView DEF SameScreen, client
<1>11. CASE SendText(d) \/ Resend(d)
  BY <1>1, <1>9, <1>11, SendTextView, ResendView DEF client
<1>12. CASE Receive(d)
  BY <1>1, <1>9, <1>12, ReceiveElsewhereView, ReceiveEchoView, ReceiveLiveView
     DEF Receive, SameScreen, client
<1>13. CASE HistoryArrives(d) \/ DecryptRecord(d)
  BY <1>1, <1>9, <1>13, HistoryArrivesView, DecryptRecordView DEF SameScreen
<1> QED
  BY <1>6, <1>7, <1>8, <1>10, <1>11, <1>12, <1>13 DEF Device, User, Session, History

\* A device is in use from its first load on; until then nothing happens on it.
LEMMA UsedDevice ==
  ASSUME Ground, NEW d \in Devices, CoveredAt(d), UsedAt(d), Device(d)
  PROVE  UsedAt(d)'
<1>1. /\ BaseInv /\ Composed /\ Shapes /\ StoreTypes /\ ClientTypes /\ Grows
      /\ socket[d].n \in Nat
  BY Typed, Shaped, DeviceGrows DEF Ground, BaseInv, IInv, StoreTypes
<1>2. ASSUME thread[d] # "none", thread'[d] # "none", socket'[d].n = socket[d].n
      PROVE  UsedAt(d)'
  BY <1>2 DEF UsedAt
<1>3. CASE Load(d) \/ Refresh(d)
  <2>1. /\ socket'[d] = [n |-> socket[d].n + 1, state |-> "opening"] /\ thread'[d] # "none"
    BY <1>1, <1>3, LoadView, RefreshView DEF NewLink, SameScreen
  <2>2. socket'[d].n = socket[d].n + 1
    BY <2>1
  <2> QED
    BY <1>1, <2>1, <2>2 DEF UsedAt
<1>4. CASE SocketOpens(d) \/ SocketLost(d)
  <2>1. /\ thread'[d] = thread[d] /\ socket[d].state # "closed"
        /\ \E v : socket'[d] = [n |-> socket[d].n, state |-> v]
    BY <1>1, <1>4, SocketOpensView, SocketLostView DEF SameScreen, Connected, client
  <2>2. socket'[d].n = socket[d].n
    BY <2>1
  <2> QED
    BY <1>2, <2>1, <2>2 DEF UsedAt, Unused
<1>5. CASE Leave(d) \/ Return(d)
  BY <1>1, <1>2, <1>5, LeaveView, ReturnView DEF SameLink, store
<1>6. CASE SendText(d) \/ ToggleReaction(d)
  <2>1. Here(d) /\ thread'[d] = thread[d] /\ socket'[d] = socket[d]
    BY <1>1, <1>6, SendTextView, ToggleReactionView DEF Composes
  <2> QED
    BY <1>2, <2>1 DEF Here
<1>7. CASE Resend(d) \/ Receive(d)
  <2>1. thread'[d] = thread[d] /\ socket'[d] = socket[d] /\ Connected(d)
    BY <1>1, <1>7, ResendView, ReceiveElsewhereView, ReceiveEchoView, ReceiveLiveView
       DEF Receive, TakesEvent, SameScreen, client
  <2> QED
    BY <1>2, <2>1 DEF UsedAt, Unused, Connected
<1>8. CASE MergeLive(d) \/ HistoryArrives(d) \/ DecryptRecord(d)
  <2>1. thread'[d] = thread[d] /\ UNCHANGED store
    BY <1>1, <1>8, MergeLiveView, HistoryArrivesView, DecryptRecordView DEF SameScreen
  <2>2. live[d] # <<>> \/ todo[d] # <<>> \/ Here(d)
    BY <1>1, <1>8, MergeLiveView, HistoryArrivesView, DecryptRecordView DEF CoveredAt
  <2> QED
    BY <1>2, <2>1, <2>2 DEF UsedAt, Unused, Here, store
<1>9. CASE MergeHistory(d)
  <2>1. /\ thread'[d] = thread[d] /\ UNCHANGED store /\ todo'[d] = todo[d]
        /\ live'[d] = live[d] /\ spent'[d] = spent[d]
    BY <1>1, <1>9, MergeHistoryView DEF SameLogs
  <2> QED
    BY <2>1 DEF UsedAt, Unused, Own, Sent, store
<1> QED
  BY <1>3, <1>4, <1>5, <1>6, <1>7, <1>8, <1>9 DEF Device, User, Session, History

\* What keeps the log of a first load complete.
LEMMA FirstLoadKept ==
  ASSUME Composed, Grows, NEW d \in Devices, FirstLoad(d), Known,
         fetch'[d] = "asked" => todo'[d] = <<>> /\ done'[d] = <<>>,
         \A i \in Sent' : i \in Sent \/ IsText(i)' \/ Lists(reactions'[d], i)
                          \/ (~Own(d, i)' /\ i \notin spent'[d]),
         \A i : Lists(reactions[d], i) => Lists(reactions'[d], i),
         \A i \in spent'[d] : \/ i \in spent[d]
                              \/ OpenedAs(live'[d], i) \/ OpenedAs(done'[d], i),
         \A i \in Sent : OpenedAs(live[d], i) /\ ~IsText(i)
                           => OpenedAs(live'[d], i) \/ Lists(reactions'[d], i),
         \A i \in Sent : OpenedAs(done[d], i) /\ ~IsText(i)
                           => OpenedAs(done'[d], i) \/ Lists(reactions'[d], i)
  PROVE  FirstLoad(d)'
<1>1. ASSUME NEW i \in Sent', ~IsText(i)', Own(d, i)' PROVE Lists(reactions'[d], i)
  <2>1. CASE i \in Sent
    <3>1. Own(d, i) /\ ~IsText(i)
      BY <1>1, <2>1, Grown
    <3> QED
      BY <2>1, <3>1 DEF FirstLoad
  <2> QED
    BY <1>1, <2>1
<1>2. ASSUME NEW i \in Sent', ~IsText(i)', i \in spent'[d]
      PROVE  Lists(reactions'[d], i) \/ OpenedAs(live'[d], i) \/ OpenedAs(done'[d], i)
  <2>1. CASE i \in Sent /\ i \in spent[d]
    <3>1. ~IsText(i)
      BY <1>2, <2>1, Grown
    <3>2. Lists(reactions[d], i) \/ OpenedAs(live[d], i) \/ OpenedAs(done[d], i)
      BY <2>1, <3>1 DEF FirstLoad
    <3> QED
      BY <2>1, <3>1, <3>2
  <2>2. CASE i \notin spent[d]
    BY <1>2, <2>2
  <2>3. \A j \in spent[d] : j \in Sent
    BY DEF Known, HeldKnown
  <2> QED
    BY <2>1, <2>2, <2>3
<1> QED
  BY <1>1, <1>2 DEF FirstLoad

\* What has been opened, one more, and without the first.
LEMMA OpenedAppend ==
  ASSUME NEW s \in Seq(Result), NEW r \in Result
  PROVE  /\ \A i : OpenedAs(s, i) => OpenedAs(Append(s, r), i)
         /\ r.ok => OpenedAs(Append(s, r), r.id)
<1>1. /\ DOMAIN Append(s, r) = DOMAIN s \cup {Len(s) + 1}
      /\ \A k \in DOMAIN s : Append(s, r)[k] = s[k]
      /\ Append(s, r)[Len(s) + 1] = r
  BY Appended
<1>2. PICK t : t = Append(s, r)
  OBVIOUS
<1>3. /\ DOMAIN t = DOMAIN s \cup {Len(s) + 1} /\ \A k \in DOMAIN s : t[k] = s[k]
      /\ t[Len(s) + 1] = r
  BY <1>1, <1>2
<1>4. \A i : OpenedAs(s, i) => OpenedAs(t, i)
  BY <1>3 DEF OpenedAs
<1>5. r.ok => OpenedAs(t, r.id)
  BY <1>3 DEF OpenedAs
<1> QED
  BY <1>2, <1>4, <1>5

\* What was opened is the first, or among the rest.
LEMMA OpenedTail ==
  ASSUME NEW s \in Seq(Result), s # <<>>, NEW i, OpenedAs(s, i)
  PROVE  OpenedAs(Tail(s), i) \/ (Head(s).id = i /\ Head(s).ok)
<1>1. /\ Head(s) = s[1]
      /\ \A k \in DOMAIN s : k = 1 \/ (k - 1 \in DOMAIN Tail(s) /\ s[k] = Tail(s)[k - 1])
  BY HeadTail
<1>2. PICK k \in DOMAIN s : s[k].id = i /\ s[k].ok
  BY DEF OpenedAs
<1> QED
  BY <1>1, <1>2 DEF OpenedAs

\* A reaction that was opened is logged when it is merged.
LEMMA MergeLogs ==
  ASSUME Ground, NEW d \in Devices, MergeLive(d) \/ MergeHistory(d), NEW i \in Sent, ~IsText(i)
  PROVE  /\ Lists(reactions[d], i) => Lists(reactions'[d], i)
         /\ OpenedAs(live[d], i) => OpenedAs(live'[d], i) \/ Lists(reactions'[d], i)
         /\ OpenedAs(done[d], i) => OpenedAs(done'[d], i) \/ Lists(reactions'[d], i)
<1>1. /\ BaseInv /\ Composed /\ Shapes /\ Joined /\ reactions[d] \in Seq(Reaction)
      /\ live[d] \in Seq(Result) /\ done[d] \in Seq(Result)
  BY Typed, Shaped DEF Ground, BaseInv, IInv
<1>2. PICK results \in Seq(Result) :
        /\ AllGood(d, results) /\ Draws(d, results)
        /\ MergeLive(d) => results = <<Head(live[d])>>
        /\ MergeHistory(d) => results = done[d]
  BY <1>1, MergesGood
<1>3. PICK t : t = ReactAll(reactions[d], results)
  OBVIOUS
<1>4. t = reactions'[d]
  BY <1>2, <1>3 DEF Draws
<1>5. /\ \A j : Lists(reactions[d], j) => Lists(t, j)
  BY <1>1, <1>2, <1>3, ReactAllOK
<1>6. \A k \in DOMAIN results : IsReaction(results[k]) => Lists(t, results[k].id)
  BY <1>1, <1>2, <1>3, ReactAllOK
<1>7. OpenedAs(results, i) => Lists(t, i)
  <2>1. ASSUME NEW k \in DOMAIN results, results[k].id = i, results[k].ok
        PROVE  Lists(t, i)
    <3>1. IsReaction(results[k])
      BY <2>1 DEF IsReaction, PayloadKind, IsText
    <3> QED
      BY <1>6, <2>1, <3>1
  <2> QED
    BY <2>1 DEF OpenedAs
<1>8. CASE MergeLive(d)
  <2>1. live[d] # <<>> /\ live'[d] = Tail(live[d]) /\ done'[d] = done[d]
    BY <1>1, <1>8, MergeLiveView DEF SameHistory
  <2>2. PICK r : r = Head(live[d])
    OBVIOUS
  <2>3. results = <<r>> /\ DOMAIN results = {1} /\ results[1] = r
    BY <1>2, <1>8, <2>2
  <2>4. r.id = i /\ r.ok => OpenedAs(results, i)
    BY <2>3 DEF OpenedAs
  <2>5. OpenedAs(live[d], i) => OpenedAs(live'[d], i) \/ (r.id = i /\ r.ok)
    BY <1>1, <2>1, <2>2, OpenedTail
  <2> QED
    BY <1>4, <1>5, <1>7, <2>1, <2>4, <2>5
<1>9. CASE MergeHistory(d)
  <2>1. live'[d] = live[d] /\ results = done[d]
    BY <1>1, <1>2, <1>9, MergeHistoryView
  <2> QED
    BY <1>4, <1>5, <1>7, <2>1
<1> QED
  BY <1>8, <1>9

\* On its first load a device logs what it sends, and what it opens when it is merged.
LEMMA FirstLoadDevice ==
  ASSUME Ground, BaseInv', NEW d \in Devices, LogAt(d), Device(d),
         socket'[d].n = 1, intact'[d]
  PROVE  FirstLoad(d)'
<1>1. /\ BaseInv /\ Composed /\ Shapes /\ StoreTypes /\ ClientTypes /\ Grows /\ Known
      /\ socket[d].n \in Nat /\ live[d] \in Seq(Result) /\ done[d] \in Seq(Result)
      /\ JoinedAt(d)
  BY Typed, Shaped, DeviceGrows DEF Ground, BaseInv, IInv, StoreTypes, Joined
<1>2. CASE Load(d)
  <2>1. /\ Emptied(d) /\ spent'[d] = spent[d] /\ NewLink(d)
    BY <1>1, <1>2, LoadView DEF SameLogs
  <2>2. socket[d].n = 0
    BY <1>1, <2>1 DEF NewLink
  <2>3. Unused(d) /\ sent' = sent
    BY <1>2, <2>2 DEF LogAt, UsedAt, Load
  <2>4. \A i \in Sent' : ~Own(d, i)'
    BY <2>3 DEF Unused, Sent, Own
  <2> QED
    BY <2>1, <2>3, <2>4 DEF FirstLoad, Emptied, Unused
<1>3. ~Refresh(d) /\ ~SocketLost(d) /\ ~Leave(d)
  BY <1>1, RefreshView, SocketLostView, LeaveView
<1>4. ~Return(d)
  <2>1. Return(d) => thread[d] = "other" /\ intact[d]
    BY <1>1, ReturnView DEF SameMarks
  <2> QED
    BY <1>1, <2>1 DEF JoinedAt, Here
<1>5. ASSUME socket[d].n = 1, intact[d],
             fetch'[d] = "asked" => fetch[d] = "asked",
             todo'[d] = todo[d] \/ fetch'[d] # "asked",
             done'[d] = done[d] \/ done'[d] = <<>> \/ fetch'[d] # "asked"
      PROVE  FirstLoad(d) /\ (fetch'[d] = "asked" => todo'[d] = <<>> /\ done'[d] = <<>>)
  BY <1>5 DEF LogAt, FirstLoad
<1>6. ASSUME socket[d].n = 1, intact[d], SameHistory(d), live'[d] = live[d],
             spent'[d] = spent[d],
             \A i : Lists(reactions[d], i) => Lists(reactions'[d], i),
             \A i \in Sent' : i \in Sent \/ IsText(i)' \/ Lists(reactions'[d], i)
      PROVE  FirstLoad(d)'
  <2>1. FirstLoad(d) /\ (fetch'[d] = "asked" => todo'[d] = <<>> /\ done'[d] = <<>>)
    BY <1>5, <1>6 DEF SameHistory
  <2> QED
    BY <1>1, <1>6, <2>1, FirstLoadKept DEF SameHistory
<1>7. sent' = sent => \A i \in Sent' : i \in Sent
  BY DEF Sent
<1>8. CASE SocketOpens(d)
  <2>1. socket'[d] = [n |-> socket[d].n, state |-> "open"] /\ UNCHANGED client
    BY <1>1, <1>8, SocketOpensView
  <2>2. socket[d].n = 1 /\ sent' = sent
    BY <1>8, <2>1 DEF SocketOpens
  <2> QED
    BY <1>6, <1>7, <2>1, <2>2 DEF client, SameHistory
<1>9. CASE SendText(d)
  <2>1. PICK n : n = Len(sent) + 1
    OBVIOUS
  <2>2. PICK m \in Message : Composes(d, m) /\ m.kind = "text"
    BY <1>1, <1>9, SendTextView
  <2>3. Sent' = Sent \cup {n} /\ sent'[n] = m
    BY <1>1, <2>1, <2>2, NewMessage
  <2>4. \A i \in Sent' : i \in Sent \/ IsText(i)'
    BY <2>2, <2>3 DEF IsText
  <2>5. /\ SameHistory(d) /\ live'[d] = live[d] /\ spent'[d] = spent[d]
        /\ reactions'[d] = reactions[d] /\ intact'[d] = intact[d] /\ socket'[d] = socket[d]
    BY <1>1, <1>9, <2>2, SendTextView DEF SameMarks, Composes
  <2> QED
    BY <1>6, <2>4, <2>5
<1>10. CASE ToggleReaction(d)
  <2>1. PICK n : n = Len(sent) + 1
    OBVIOUS
  <2>2. PICK m \in Message : Composes(d, m)
    BY <1>1, <1>10, ToggleReactionView
  <2>3. Sent' = Sent \cup {n}
    BY <1>1, <2>1, <2>2, NewMessage
  <2>4. Reacted(d, reactions[d])
    BY DEF LogAt
  <2>5. /\ \A i : Lists(reactions[d], i) => Lists(reactions'[d], i)
        /\ Lists(reactions'[d], n)
    BY <1>1, <1>10, <2>1, <2>4, ReactedToggle
  <2>6. /\ SameHistory(d) /\ live'[d] = live[d] /\ spent'[d] = spent[d]
        /\ intact'[d] = intact[d] /\ socket'[d] = socket[d]
    BY <1>1, <1>10, <2>2, ToggleReactionView DEF SameMarks, SameLogs, Composes
  <2> QED
    BY <1>6, <2>3, <2>5, <2>6
<1>11. CASE Resend(d) \/ ReceiveElsewhere(d) \/ ReceiveEcho(d)
  <2>1. /\ SameHistory(d) /\ live'[d] = live[d] /\ spent'[d] = spent[d]
        /\ reactions'[d] = reactions[d] /\ intact'[d] = intact[d] /\ socket'[d] = socket[d]
    BY <1>1, <1>11, ResendView, ReceiveElsewhereView, ReceiveEchoView
       DEF SameMarks, SameLogs, SameHistory, TakesEvent, client
  <2>2. sent' = sent
    BY <1>11 DEF Resend, ReceiveElsewhere, ReceiveEcho, NextEvent
  <2> QED
    BY <1>6, <1>7, <2>1, <2>2
<1>12. CASE ReceiveLive(d)
  <2>1. /\ reactions'[d] = reactions[d] /\ SameHistory(d) /\ intact'[d] = intact[d]
        /\ socket'[d] = socket[d] /\ inbox[d] # <<>>
        /\ live'[d] = Append(live[d], Resolved(d, Head(inbox[d]).id))
        /\ Spends(d, Head(inbox[d]).id) /\ sent' = sent
    BY <1>1, <1>12, ReceiveLiveView
       DEF SameScreen, SameMarks, TakesEvent, ReceiveLive, NextEvent
  <2>2. PICK i : i = Head(inbox[d]).id
    OBVIOUS
  <2>3. i \in Stored /\ i \in Ids
    BY <1>1, <2>1, <2>2, HeadsStored DEF Stored
  <2>4. PICK r : r = Resolved(d, i)
    OBVIOUS
  <2>5. r \in Result /\ r.id = i /\ r.ok = Opens(d, i)
    BY <1>1, <2>3, <2>4, ResolvedTyped, GoodResolved DEF BaseInv
  <2>6. /\ \A j : OpenedAs(live[d], j) => OpenedAs(live'[d], j)
        /\ r.ok => OpenedAs(live'[d], i)
    BY <1>1, <2>1, <2>2, <2>4, <2>5, OpenedAppend
  <2>7. \A j \in spent'[d] : j \in spent[d] \/ OpenedAs(live'[d], j)
    BY <2>1, <2>2, <2>5, <2>6 DEF Spends
  <2>8. FirstLoad(d) /\ (fetch'[d] = "asked" => todo'[d] = <<>> /\ done'[d] = <<>>)
    BY <1>5, <2>1 DEF SameHistory
  <2> QED
    BY <1>1, <1>7, <2>1, <2>6, <2>7, <2>8, FirstLoadKept DEF SameHistory
<1>13. CASE MergeLive(d) \/ MergeHistory(d)
  <2>1. /\ UNCHANGED store /\ intact'[d] = intact[d] /\ spent'[d] = spent[d]
        /\ fetch'[d] = fetch[d] /\ todo'[d] = todo[d]
        /\ done'[d] = done[d] \/ done'[d] = <<>>
    BY <1>1, <1>13, MergeLiveView, MergeHistoryView DEF SameMarks, SameLogs, SameHistory
  <2>2. FirstLoad(d) /\ (fetch'[d] = "asked" => todo'[d] = <<>> /\ done'[d] = <<>>)
    BY <1>5, <2>1 DEF store
  <2>3. PICK results \in Seq(Result) : AllGood(d, results) /\ Draws(d, results)
    BY <1>1, <1>13, MergesGood DEF Ground
  <2>4. PICK t : t = ReactAll(reactions[d], results)
    OBVIOUS
  <2>5. reactions[d] \in Seq(Reaction) /\ t = reactions'[d]
    BY <1>1, <2>3, <2>4, Typed DEF Draws
  <2>6. \A i : Lists(reactions[d], i) => Lists(reactions'[d], i)
    BY <1>1, <2>3, <2>4, <2>5, ReactAllOK
  <2>7. \A i \in Sent : OpenedAs(live[d], i) /\ ~IsText(i)
                          => OpenedAs(live'[d], i) \/ Lists(reactions'[d], i)
    BY <1>13, MergeLogs
  <2>8. \A i \in Sent : OpenedAs(done[d], i) /\ ~IsText(i)
                          => OpenedAs(done'[d], i) \/ Lists(reactions'[d], i)
    BY <1>13, MergeLogs
  <2>9. \A i \in Sent' : i \in Sent
    BY <1>7, <2>1 DEF store
  <2> QED
    BY <1>1, <2>1, <2>2, <2>6, <2>7, <2>8, <2>9, FirstLoadKept
<1>14. CASE HistoryArrives(d)
  <2>1. /\ UNCHANGED store /\ reactions'[d] = reactions[d] /\ live'[d] = live[d]
        /\ spent'[d] = spent[d] /\ intact'[d] = intact[d]
        /\ fetch[d] = "asked" /\ fetch'[d] = "ready"
        /\ done'[d] = done[d] \/ done'[d] = <<>>
    BY <1>1, <1>14, HistoryArrivesView DEF SameScreen, SameLogs
  <2>2. FirstLoad(d) /\ (fetch'[d] = "asked" => todo'[d] = <<>> /\ done'[d] = <<>>)
    BY <1>5, <2>1 DEF store
  <2>3. \A i : ~OpenedAs(done[d], i)
    BY <2>1, <2>2, EmptyThread DEF FirstLoad, OpenedAs
  <2>4. \A i \in Sent' : i \in Sent
    BY <1>7, <2>1 DEF store
  <2> QED
    BY <1>1, <2>1, <2>2, <2>3, <2>4, FirstLoadKept
<1>15. CASE DecryptRecord(d)
  <2>1. /\ UNCHANGED store /\ reactions'[d] = reactions[d] /\ live'[d] = live[d]
        /\ intact'[d] = intact[d] /\ fetch'[d] = fetch[d]
        /\ todo[d] # <<>> /\ todo'[d] = Tail(todo[d])
        /\ done'[d] = Append(done[d], Resolved(d, Head(todo[d])))
        /\ Spends(d, Head(todo[d]))
    BY <1>1, <1>15, DecryptRecordView DEF SameScreen, SameMarks
  <2>2. FirstLoad(d)
    BY <2>1 DEF LogAt, store
  <2>3. fetch[d] # "asked"
    BY <2>1, <2>2 DEF FirstLoad
  <2>4. PICK i : i = Head(todo[d])
    OBVIOUS
  <2>5. i \in Stored /\ i \in Ids
    BY <1>1, <2>1, <2>4, HeadsStored DEF Stored
  <2>6. PICK r : r = Resolved(d, i)
    OBVIOUS
  <2>7. r \in Result /\ r.id = i /\ r.ok = Opens(d, i)
    BY <1>1, <2>5, <2>6, ResolvedTyped, GoodResolved DEF BaseInv
  <2>8. /\ \A j : OpenedAs(done[d], j) => OpenedAs(done'[d], j)
        /\ r.ok => OpenedAs(done'[d], i)
    BY <1>1, <2>1, <2>4, <2>6, <2>7, OpenedAppend
  <2>9. \A j \in spent'[d] : j \in spent[d] \/ OpenedAs(done'[d], j)
    BY <2>1, <2>4, <2>7, <2>8 DEF Spends
  <2>10. \A j \in Sent' : j \in Sent
    BY <1>7, <2>1 DEF store
  <2> QED
    BY <1>1, <2>1, <2>2, <2>3, <2>8, <2>9, <2>10, FirstLoadKept
<1> QED
  BY <1>2, <1>3, <1>4, <1>8, <1>9, <1>10, <1>11, <1>12, <1>13, <1>14, <1>15
     DEF Device, User, Session, Receive, History

\* The log of a device when a step leaves the device as it is and sends nothing from it.
LEMMA LogKept ==
  ASSUME Ground, BaseInv', Grows, NEW e \in Devices, LogAt(e),
         thread'[e] = thread[e], reactions'[e] = reactions[e], SameHistory(e),
         SameResults(e), intact'[e] = intact[e], socket'[e] = socket[e],
         \A i \in Sent' : i \in Sent \/ ~Own(e, i)'
  PROVE  LogAt(e)'
<1>1. /\ BaseInv /\ Composed /\ Known /\ reactions[e] \in Seq(Reaction)
  BY Typed DEF Ground, BaseInv
<1>2. PICK s : s = reactions[e]
  OBVIOUS
<1>3. Reacted(e, s) /\ s \in Seq(Reaction) /\ s = reactions'[e]
  BY <1>1, <1>2 DEF LogAt
<1>4. Reacted(e, s)'
  BY <1>1, <1>3, ReactedKept
<1>5. UsedAt(e)'
  <2>1. Unused(e) => Unused(e)'
    <3>1. ASSUME Unused(e), NEW i \in Sent' PROVE ~Own(e, i)'
      <4>1. CASE i \in Sent
        BY <3>1, <4>1, Grown DEF Unused
      <4> QED
        BY <4>1
    <3> QED
      BY <3>1 DEF Unused, SameHistory, SameResults
  <2> QED
    BY <2>1 DEF LogAt, UsedAt
<1>6. ASSUME FirstLoad(e) PROVE FirstLoad(e)'
  <2>1. \A i \in Sent' : i \in Sent \/ (~Own(e, i)' /\ i \notin spent'[e])
    BY <1>1 DEF Known, HeldKnown, SameResults
  <2>2. fetch'[e] = "asked" => todo'[e] = <<>> /\ done'[e] = <<>>
    BY <1>6 DEF FirstLoad, SameHistory
  <2> QED
    BY <1>1, <1>6, <2>1, <2>2, FirstLoadKept DEF SameResults
<1> QED
  BY <1>3, <1>4, <1>5, <1>6 DEF LogAt

\* The logs after a step of the server, of another device, and of the device itself.
LEMMA LogStep == ASSUME Ground, BaseInv', CoverInv, LogInv, [Next]_vars PROVE LogInv'
<1>1. BaseInv /\ Shapes /\ ClientTypes /\ StoreTypes /\ Composed
  BY Shaped DEF Ground, BaseInv, IInv
<1>2. CASE UNCHANGED vars
  <2>1. /\ UNCHANGED <<thread, reactions, fetch, records, todo, done, live, spent, intact>>
        /\ UNCHANGED <<sent, left, room, clock, rows, socket>>
    BY <1>2 DEF vars, store, client
  <2>2. Grows /\ Sent' = Sent
    BY <1>1, <2>1 DEF Grows, Sent, Stored, BaseInv, IInv, StoreTypes, Composed
  <2> QED
    BY <2>1, <2>2, LogKept DEF LogInv, SameHistory, SameResults
<1>3. CASE ServerStep /\ UNCHANGED client
  <2>1. /\ UNCHANGED <<thread, reactions, fetch, records, todo, done, live, spent, intact>>
        /\ UNCHANGED <<sent, socket>> /\ Grows
    BY <1>1, <1>3, ServerGrows DEF client
  <2>2. Sent' = Sent
    BY <2>1 DEF Sent
  <2> QED
    BY <2>1, <2>2, LogKept DEF LogInv, SameHistory, SameResults
<1>4. ASSUME NEW d \in Devices, Device(d), NEW e \in Devices PROVE LogAt(e)'
  <2>1. Grows /\ LogAt(e)
    BY <1>1, <1>4, DeviceGrows DEF LogInv
  <2>2. CASE e = d
    <3>1. Reacted(d, reactions[d]) /\ UsedAt(d) /\ CoveredAt(d) /\ LogAt(d)
      BY <2>1, <2>2 DEF LogAt, CoverInv
    <3>2. Reacted(d, reactions[d])'
      BY <1>4, <3>1, ReactedDevice
    <3>3. UsedAt(d)'
      BY <1>4, <3>1, UsedDevice
    <3>4. socket'[d].n = 1 /\ intact'[d] => FirstLoad(d)'
      BY <1>4, <3>1, FirstLoadDevice
    <3> QED
      BY <2>2, <3>2, <3>3, <3>4 DEF LogAt
  <2>3. CASE e # d
    <3>1. Untouched(e)
      BY <1>1, <1>4, <2>3, OthersUntouched
    <3>2. \A i \in Sent' : i \in Sent \/ ~Own(e, i)'
      <4>1. CASE sent' = sent
        BY <4>1 DEF Sent
      <4>2. CASE SendsNew(d)
        <5>1. PICK n : n = Len(sent) + 1
          OBVIOUS
        <5>2. PICK m \in Message : Composes(d, m)
          BY <4>2 DEF SendsNew
        <5>3. Sent' = Sent \cup {n} /\ sent'[n] = m /\ m.from = d
          BY <1>1, <5>1, <5>2, NewMessage
        <5> QED
          BY <2>3, <5>3 DEF Own
      <4> QED
        BY <1>1, <1>4, <4>1, <4>2, DeviceSends DEF Quieter, SendsAgain
    <3>3. /\ thread'[e] = thread[e] /\ reactions'[e] = reactions[e] /\ SameHistory(e)
          /\ SameResults(e) /\ intact'[e] = intact[e] /\ socket'[e] = socket[e]
      BY <3>1 DEF Untouched, SameScreen, SameHistory, SameLogs, SameMarks, SameLink, SameResults
    <3> QED
      BY <2>1, <3>2, <3>3, LogKept
  <2> QED
    BY <2>2, <2>3
<1> QED
  BY <1>2, <1>3, <1>4 DEF Next, LogInv

\* Nothing is logged at first, and no device is in use.
LEMMA LogStart == ASSUME Init PROVE LogInv
<1>1. sent = <<>> /\ Len(sent) = 0 /\ Sent = {}
  BY DEF Init, StoreInit, Sent
<1>2. ASSUME NEW d \in Devices PROVE LogAt(d)
  <2>1. /\ reactions[d] = <<>> /\ DOMAIN reactions[d] = {} /\ thread[d] = "none"
        /\ todo[d] = <<>> /\ live[d] = <<>> /\ spent[d] = {}
        /\ socket[d].n = 0 /\ socket[d].state = "closed"
    BY <1>2, EmptyThread DEF Init, StoreInit
  <2> QED
    BY <1>1, <2>1 DEF LogAt, UsedAt, Unused, Reacted, Distinct
<1> QED
  BY <1>2 DEF LogInv

\* All the invariants together.
Settling == ThreadInv /\ CoverInv /\ LogInv

\* They hold throughout.
LEMMA AlwaysSettling == Spec => [](Ground /\ Settling)
<1>1. Init => CoverInv /\ LogInv
  BY CoverStart, LogStart
<1>2. Ground /\ Ground' /\ ThreadInv /\ CoverInv /\ LogInv /\ [Next]_vars => CoverInv' /\ LogInv'
  BY CoverStep, LogStep DEF Ground
<1> QED
  BY <1>1, <1>2, AlwaysThreads, PTL DEF Spec, Settling

-----------------------------------------------------------------------------
(* The tallies                                                             *)

\* Everything has arrived at d, its user's only device, each message stored and sent once.
AllArrived(d) == Arrived(d) /\ Alone(d) /\ Stored = Sent /\ NoResend

\* The reactions of u to a message, and the users whose last one, by the server's stamps,
\* adds it.
Said(target, u) == {i \in Sent : ~IsText(i) /\ sent[i].target = target /\ Sender(i) = u}
Verdict(target) ==
  {u \in Users : \E i \in Said(target, u) :
                   /\ sent[i].kind = "add"
                   /\ \A j \in Said(target, u) : rows[j].at <= rows[i].at}

\* Where the user has one device, what is of the user is of the device.
LEMMA AloneOwns ==
  ASSUME BaseInv, NEW d \in Devices, Alone(d), NEW i \in Sent
  PROVE  Own(d, i) \/ Theirs(d, i)
<1>1. sent[i] \in Message
  BY DEF BaseInv, Composed, Sent
<1>2. sent[i].from \in Devices
  BY <1>1 DEF Message
<1> QED
  BY <1>2 DEF Alone, Own, Theirs, Sender

\* What has arrived is logged: one's own reactions since they were made, those of others
\* because what is not a bubble is in the log, and what is one was opened, and logged, before.
LEMMA ArrivedLogged ==
  ASSUME Ground, Settling, NEW d \in Devices, AllArrived(d), NEW i \in Sent, ~IsText(i)
  PROVE  Lists(reactions[d], i)
<1>1. /\ BaseInv /\ FirstLoad(d) /\ NeverLeft(d) /\ live[d] = <<>> /\ done[d] = <<>>
      /\ Bubbles(d, messages[d]) /\ Alone(d)
  BY DEF Ground, Settling, ThreadInv, Threaded, LogInv, LogAt, AllArrived, Arrived, Fresh, Quiet,
         Following, NeverLeft
<1>2. ~OpenedAs(live[d], i) /\ ~OpenedAs(done[d], i)
  BY <1>1, EmptyThread DEF OpenedAs
<1>3. CASE Own(d, i)
  BY <1>1, <1>3 DEF FirstLoad
<1>4. CASE Theirs(d, i)
  <2>1. Shown(d, i)
    BY <1>4 DEF AllArrived, Arrived, Theirs
  <2>2. Lists(messages[d], i) \/ Lists(reactions[d], i)
    BY <2>1 DEF Shown, Lists
  <2>3. ASSUME NEW k \in DOMAIN messages[d], messages[d][k].id = i PROVE i \in spent[d]
    BY <1>1, <1>4, <2>3 DEF Bubbles, BubbleOK
  <2>4. Lists(messages[d], i) => i \in spent[d]
    BY <2>3 DEF Lists
  <2> QED
    BY <1>1, <1>2, <2>2, <2>4 DEF FirstLoad
<1> QED
  BY <1>1, <1>3, <1>4, AloneOwns

\* The log of d in send order: each reaction once, and those of one user in the order of
\* the server's stamps, be they of d itself, in the order of d's clock, or of others.
LEMMA LogInOrder ==
  ASSUME Ground, Settling, NEW d \in Devices, AllArrived(d),
         NEW s, s = BySentAt(reactions[d])
  PROVE  /\ DOMAIN s \subseteq Nat
         /\ \A k \in DOMAIN s : s[k].id \in Sent /\ ~IsText(s[k].id)
         /\ \A i \in Sent : ~IsText(i) => \E k \in DOMAIN s : s[k].id = i
         /\ \A k, l \in DOMAIN s : s[k].id = s[l].id => k = l
         /\ \A k, l \in DOMAIN s : k < l /\ Sender(s[k].id) = Sender(s[l].id)
                                     => rows[s[k].id].at <= rows[s[l].id].at
<1>1. /\ BaseInv /\ IInv /\ Composed /\ OrderInv /\ Reacted(d, reactions[d]) /\ Alone(d)
      /\ reactions[d] \in Seq(Reaction) /\ Stored = Sent /\ NoResend
  BY Typed DEF Ground, BaseInv, Settling, LogInv, LogAt, AllArrived
<1>2. PICK r : r = reactions[d]
  OBVIOUS
<1>3. r \in Seq(Reaction) /\ Reacted(d, r) /\ Distinct(r)
  BY <1>1, <1>2 DEF Reacted
<1>4. \A k \in DOMAIN r : r[k].at \in Nat
  BY <1>3, ReactionFields
<1>5. PICK p \in [DOMAIN r -> DOMAIN r] :
        /\ \A k \in DOMAIN r : BySentAt(r)[k] = r[p[k]]
        /\ \A j \in DOMAIN r : \E k \in DOMAIN r : p[k] = j
        /\ \A k, l \in DOMAIN r : p[k] = p[l] => k = l
        /\ \A k, l \in DOMAIN r : k < l => \/ r[p[k]].at < r[p[l]].at
                                           \/ r[p[k]].at = r[p[l]].at /\ p[k] < p[l]
  BY <1>3, <1>4, BySentAtSorts
<1>6. DOMAIN s = DOMAIN r /\ DOMAIN r \subseteq Nat /\ \A k \in DOMAIN r : s[k] = r[p[k]]
  <2>1. DOMAIN BySentAt(r) = DOMAIN r
    BY <1>3, <1>4, BySentAtSorts
  <2>2. s = BySentAt(r)
    BY <1>2
  <2> QED
    BY <1>3, <1>5, <2>1, <2>2
<1>7. \A k \in DOMAIN r : p[k] \in DOMAIN r /\ p[k] \in Nat
  BY <1>5, <1>6
<1>8. \A k \in DOMAIN s : s[k].id \in Sent /\ ~IsText(s[k].id)
  BY <1>3, <1>5, <1>6, <1>7 DEF Reacted
<1>9. ASSUME NEW i \in Sent, ~IsText(i) PROVE \E k \in DOMAIN s : s[k].id = i
  <2>1. PICK j \in DOMAIN r : r[j].id = i
    BY <1>2, <1>9, ArrivedLogged DEF Lists
  <2>2. PICK k \in DOMAIN r : p[k] = j
    BY <1>5, <2>1
  <2> QED
    BY <1>6, <2>1, <2>2
<1>10. ASSUME NEW k \in DOMAIN s, NEW l \in DOMAIN s, s[k].id = s[l].id PROVE k = l
  <2>1. r[p[k]].id = r[p[l]].id /\ p[k] \in DOMAIN r /\ p[l] \in DOMAIN r
    BY <1>5, <1>6, <1>7, <1>10
  <2>2. p[k] = p[l]
    BY <1>3, <2>1 DEF Distinct
  <2> QED
    BY <1>5, <1>6, <1>10, <2>2
<1>11. ASSUME NEW k \in DOMAIN s, NEW l \in DOMAIN s, k < l, Sender(s[k].id) = Sender(s[l].id)
       PROVE  rows[s[k].id].at <= rows[s[l].id].at
  <2>1. PICK i : i = s[k].id
    OBVIOUS
  <2>2. PICK j : j = s[l].id
    OBVIOUS
  <2>3. /\ i \in Sent /\ j \in Sent /\ i \in Stored /\ j \in Stored /\ i \in Nat /\ j \in Nat
        /\ i = r[p[k]].id /\ j = r[p[l]].id /\ Sender(i) = Sender(j)
        /\ rows[i].at \in Nat /\ rows[j].at \in Nat
    <3>1. i \in Sent /\ j \in Sent
      BY <1>8, <2>1, <2>2
    <3>2. i \in Ids /\ j \in Ids /\ i \in Nat /\ j \in Nat
      BY <1>1, <3>1, SentIds DEF Sent
    <3>3. rows[i].at \in Nat /\ rows[j].at \in Nat
      BY <1>1, <3>2 DEF IInv, StoreTypes
    <3> QED
      BY <1>1, <1>5, <1>6, <1>11, <2>1, <2>2, <3>1, <3>2, <3>3
  <2>4. \/ r[p[k]].at < r[p[l]].at
        \/ r[p[k]].at = r[p[l]].at /\ p[k] < p[l]
    BY <1>5, <1>6, <1>11
  <2>5. /\ p[k] \in DOMAIN r /\ p[l] \in DOMAIN r /\ p[k] \in Nat /\ p[l] \in Nat
        /\ r[p[k]].at \in Nat /\ r[p[l]].at \in Nat
    BY <1>4, <1>6, <1>7
  <2>6. CASE Own(d, i)
    <3>1. Own(d, j)
      BY <1>1, <2>3, <2>6, AloneOwns DEF Own, Theirs, Sender
    <3>2. ~(p[l] < p[k])
      <4>1. p[l] < p[k] => r[p[l]].at <= r[p[k]].at
        BY <1>3, <2>3, <2>5, <2>6, <3>1 DEF Reacted
      <4> QED
        BY <2>4, <2>5, <4>1
    <3>3. p[k] # p[l]
      BY <1>5, <1>6, <1>11
    <3>4. p[k] < p[l]
      BY <2>5, <3>2, <3>3
    <3>5. i < j
      BY <1>3, <2>3, <2>5, <2>6, <3>1, <3>4 DEF Reacted
    <3>6. Stamped(i, rows[i].at) /\ Stamped(j, rows[j].at) /\ sent[i].from = sent[j].from
      BY <2>3, <2>6, <3>1 DEF Stamped, Own
    <3>7. rows[i].at < rows[j].at
      BY <1>1, <2>3, <3>5, <3>6 DEF OrderInv, StampOrder
    <3> QED
      BY <2>1, <2>2, <2>3, <3>7
  <2>7. CASE ~Own(d, i)
    <3>1. ~Own(d, j)
      BY <1>1, <2>3, <2>7, AloneOwns DEF Own, Theirs, Sender
    <3>2. r[p[k]].at = rows[i].at /\ r[p[l]].at = rows[j].at
      BY <1>3, <2>3, <2>5, <2>7, <3>1 DEF Reacted
    <3> QED
      BY <2>1, <2>2, <2>4, <2>5, <3>2
  <2> QED
    BY <2>6, <2>7
<1> QED
  BY <1>6, <1>8, <1>9, <1>10, <1>11

\* So the tally of d is the verdict of the server's order.
LEMMA TallyIsVerdict ==
  ASSUME Ground, Settling, NEW d \in Devices, AllArrived(d), NEW target
  PROVE  Tally(reactions[d], target) = Verdict(target)
<1>1. PICK s : s = BySentAt(reactions[d])
  OBVIOUS
<1>2. DOMAIN s \subseteq Nat /\ \A k \in DOMAIN s : s[k].id \in Sent /\ ~IsText(s[k].id)
  BY <1>1, LogInOrder
<1>3. \A i \in Sent : ~IsText(i) => \E k \in DOMAIN s : s[k].id = i
  BY <1>1, LogInOrder
<1>4. \A k, l \in DOMAIN s : s[k].id = s[l].id => k = l
  BY <1>1, LogInOrder
<1>5. \A k, l \in DOMAIN s : k < l /\ Sender(s[k].id) = Sender(s[l].id)
                               => rows[s[k].id].at <= rows[s[l].id].at
  BY <1>1, LogInOrder
<1>6. \A i \in Sent : i \in Stored /\ rows[i].at \in Nat
  <2>1. \A i \in Sent : i \in Stored /\ i \in Ids
    BY SentIds DEF AllArrived, Ground, BaseInv
  <2> QED
    BY <2>1 DEF Ground, BaseInv, IInv, StoreTypes
<1> DEFINE Of(u) == {k \in DOMAIN s : sent[s[k].id].target = target /\ Sender(s[k].id) = u}
<1>7. \A u : \A k \in DOMAIN s : k \in Of(u) <=> s[k].id \in Said(target, u)
  BY <1>2 DEF Said
<1>8. \A u : \A i \in Said(target, u) : \E k \in Of(u) : s[k].id = i
  BY <1>3, <1>7 DEF Said
<1>9. \A u : \A k, l \in Of(u) : Sender(s[k].id) = Sender(s[l].id)
  OBVIOUS
<1>10. Tally(reactions[d], target) =
         {u \in Users : \E k \in Of(u) : /\ \A l \in Of(u) : l <= k
                                         /\ sent[s[k].id].kind = "add"}
  BY <1>1 DEF Tally, TallyInOrder
<1>11. \A u : Of(u) \subseteq DOMAIN s
  OBVIOUS
<1> HIDE DEF Of
<1>12. ASSUME NEW u \in Users, NEW k \in Of(u), \A l \in Of(u) : l <= k,
              sent[s[k].id].kind = "add"
       PROVE  u \in Verdict(target)
  <2>1. PICK i : i = s[k].id
    OBVIOUS
  <2>2. i \in Said(target, u) /\ k \in DOMAIN s
    BY <1>7, <1>11, <2>1
  <2>3. ASSUME NEW j \in Said(target, u) PROVE rows[j].at <= rows[i].at
    <3>1. PICK l \in Of(u) : s[l].id = j
      BY <1>8
    <3>2. l \in DOMAIN s /\ l <= k /\ l \in Nat /\ k \in Nat
      BY <1>2, <1>11, <1>12, <2>2
    <3>3. CASE l = k
      <4>1. j = i /\ rows[i].at \in Nat
        BY <1>6, <2>1, <2>2, <3>1, <3>3 DEF Said
      <4> QED
        BY <4>1
    <3>4. CASE l < k
      BY <1>5, <1>9, <2>1, <2>2, <3>1, <3>2, <3>4
    <3> QED
      BY <3>2, <3>3, <3>4
  <2> QED
    BY <1>12, <2>1, <2>2, <2>3 DEF Verdict
<1>13. ASSUME NEW u \in Users, NEW i \in Said(target, u), sent[i].kind = "add",
              \A j \in Said(target, u) : rows[j].at <= rows[i].at
       PROVE  \E k \in Of(u) : (\A l \in Of(u) : l <= k) /\ sent[s[k].id].kind = "add"
  <2>1. PICK k \in Of(u) : s[k].id = i
    BY <1>8
  <2>2. ASSUME NEW l \in Of(u) PROVE l <= k
    <3>1. PICK j : j = s[l].id
      OBVIOUS
    <3>2. j \in Said(target, u) /\ k \in DOMAIN s /\ l \in DOMAIN s /\ k \in Nat /\ l \in Nat
      BY <1>2, <1>7, <1>11, <3>1
    <3>3. /\ i \in Stored /\ j \in Stored /\ rows[i].at \in Nat /\ rows[j].at \in Nat
          /\ rows[j].at <= rows[i].at
      BY <1>6, <1>13, <3>2 DEF Said
    <3>4. ASSUME k < l PROVE FALSE
      <4>1. rows[i].at <= rows[j].at
        BY <1>5, <1>9, <2>1, <3>1, <3>2, <3>4
      <4>2. rows[i].at = rows[j].at
        BY <3>3, <4>1
      <4>3. i = j
        BY <3>3, <4>2, RowsApart DEF Ground, BaseInv
      <4> QED
        BY <1>4, <2>1, <3>1, <3>2, <3>4, <4>3
    <3> QED
      BY <3>2, <3>4
  <2> QED
    BY <1>13, <2>1, <2>2
<1> QED
  BY <1>10, <1>12, <1>13 DEF Verdict

\* Two devices, each its user's only one and on its first load, at which everything sent
\* once and stored has arrived, show the same tallies, whatever the orders in which echoes,
\* live events and history were met, and however far their clocks are off (chat.ts:
\* buildReactionTallies; App.tsx:430-470, :698-704).
THEOREM ReactionsAlwaysAgree == Spec => []ReactionsAgree
<1>1. ASSUME Ground, Settling, NEW d \in Devices, NEW e \in Devices,
             Arrived(d), Alone(d), Arrived(e), Alone(e),
             Stored = 1..Len(sent), \A i \in Stored : copies[i] = 1, NEW i \in Stored
      PROVE  Tally(reactions[d], i) = Tally(reactions[e], i)
  <2>1. AllArrived(d) /\ AllArrived(e)
    BY <1>1 DEF AllArrived, Sent, NoResend
  <2> QED
    BY <1>1, <2>1, TallyIsVerdict
<1>2. Ground /\ Settling => ReactionsAgree
  BY <1>1 DEF ReactionsAgree
<1> QED
  BY <1>2, AlwaysSettling, PTL
=============================================================================
