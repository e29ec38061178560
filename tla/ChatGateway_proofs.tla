------------------------ MODULE ChatGateway_proofs ------------------------
(***************************************************************************)
(* What chat.gateway.ts keeps true: of the messages of the rooms, which    *)
(* ChatRooms models, and of who is online, which Presence models.          *)
(*                                                                         *)
(* ChatRooms is type correct, keeps deleted messages deleted and pins in   *)
(* their rooms, what was told to be read is read, and what clients show is *)
(* what is stored, for any users, rooms and messages and however many      *)
(* events are handled at once.                                             *)
(*                                                                         *)
(* A handler acts on what it has read some statements earlier.  What is    *)
(* still true of it then is Waits: a message about to be saved was not     *)
(* lost meanwhile, and a message about to be saved or pinned is in no      *)
(* other room than the handler holds for it, neither in the table nor in   *)
(* what another edit is about to save (Placed); a pin that was asked for   *)
(* when the message was not there is left out (unseen).  Ids are used      *)
(* once, so that a message that is inserted is none of those that were     *)
(* deleted, read or pinned.                                                *)
(*                                                                         *)
(* A table changes some statements before clients are told: until then a   *)
(* handler is on its way that will tell them, and what handlers have read  *)
(* to tell is what is stored, unless a write has crossed them (Announced). *)
(*                                                                         *)
(* Presence is type correct, counts the connections of the user, and once  *)
(* nothing is under way shows what is stored and nobody connected as       *)
(* OFFLINE, for any number of sockets and of requests.                     *)
(*                                                                         *)
EXTENDS ChatRooms, Presence, FiniteSetTheorems, TLAPS

NewRow == [room : Rooms, user : Users, text : Texts, reply : {None} \cup Ids, is_read : BOOLEAN]

\* What is asked of the database first, of a user who may enter the room.
Start ==
  [step : {"findRoom"}, row : NewRow]
    \cup [step : {"findToDelete"}, user : Users, id : Ids]
    \cup [step : {"findToEdit"}, user : Users, id : Ids, text : Texts]
    \cup [step : {"findUnread"}, user : Users, room : Rooms]
    \cup [step : {"findReaction"}, reaction : Reaction]
    \cup [step : {"findPin", "deletePin"}, pin : Rooms \X Ids]

Later ==
  [step : {"insertRoom", "insertMessage"}, row : NewRow]
    \cup [step : {"readSent", "delete", "tellDeleted", "readReactions"}, id : Ids]
    \cup [step : {"tellSent", "tellEdited"}, id : Ids, text : Texts]
    \cup [step : {"saveEdit", "readEdited"}, row : Message]
    \cup [step : {"saveRead", "tellRead"}, ids : SUBSET Ids]
    \cup [step : {"insertReaction", "removeReaction"}, reaction : Reaction]
    \cup [step : {"tellReactions"}, id : Ids, users : SUBSET Users]
    \cup [step : {"insertPin"}, pin : Rooms \X Ids]

Handler == [step : {"idle"}] \cup [step : {"access"}, next : Start] \cup Start \cup Later

HandlersOK == handlers \in [Slots -> Handler]

\* A message is stored in the room, or an edit is about to save it there.
IsRow(i, room) ==
  \/ \E m \in messages : m.id = i /\ m.room = room
  \/ \E g \in Slots : /\ handlers[g].step = "saveEdit"
                      /\ handlers[g].row.id = i /\ handlers[g].row.room = room

\* In no other room than this.
Placed(i, room) == \A r : IsRow(i, r) => r = room

Waits(s) ==
  /\ s.step = "saveEdit" => s.row.id \in Sent \ lost /\ Placed(s.row.id, s.row.room)
  /\ s.step = "readEdited" => s.row.id \in Sent
  /\ s.step \in {"delete", "tellDeleted", "readSent", "tellSent", "tellEdited", "readReactions",
                 "tellReactions"} => s.id \in Sent
  /\ s.step \in {"saveRead", "tellRead"} => s.ids \subseteq Sent
  /\ s.step = "tellRead" => \A m \in messages : m.id \in s.ids \ overwritten => m.is_read
  /\ s.step \in {"findReaction", "insertReaction", "removeReaction"} => s.reaction.message \in Sent
  /\ s.step \in {"findPin", "insertPin"} =>
       s.pin[2] \in unseen \/ (s.pin[2] \in Sent /\ Placed(s.pin[2], s.pin[1]))

HeldBy(s) ==
  Waits(s) /\ (s.step = "access" => Waits(s.next) /\ s.next.step # "saveEdit")

Held == \A h \in Slots : HeldBy(handlers[h])

Fresh == Stored \subseteq Sent /\ lost \subseteq Sent /\ shownRead \subseteq Sent

PinsPlaced == \A p \in pins : p[2] \in unseen \/ Placed(p[2], p[1])

IInv ==
  /\ TypeOK /\ HandlersOK /\ Fresh
  /\ Held /\ PinsPlaced /\ ToldIsRead /\ DeletedStaysDeleted
-----------------------------------------------------------------------------
(* Messages *)

LEMMA Numbers ==
  /\ 0 \in Nat /\ MaxMessages \in Nat /\ \A i \in Ids : i \in Nat /\ i # None
BY ChatAssumption DEF Ids, None

\* The row of an id that is stored.
LEMMA RowOf ==
  ASSUME TypeOK, NEW i \in Stored
  PROVE  /\ Row(i) \in messages /\ Row(i) \in Message /\ Row(i).id = i /\ i \in Ids
         /\ \A m \in messages : m.id = i => m = Row(i)
<1>1. PICK m \in messages : m.id = i
  BY DEF Stored
<1>2. Row(i) \in messages /\ Row(i).id = i
  BY <1>1 DEF Row
<1> QED BY <1>2 DEF TypeOK, Message

LEMMA SentIds ==
  ASSUME TypeOK
  PROVE  Sent \subseteq Ids /\ lastMessage \in Nat
BY Numbers DEF TypeOK, Sent, Ids, None

\* The messages that are left are where they were, or where an edit puts them, and as read
\* as they were.
KeepsMessages ==
  /\ Sent \subseteq Sent' /\ overwritten \subseteq overwritten' /\ unseen \subseteq unseen'
  /\ \A m \in messages' : m.id \in Sent => IsRow(m.id, m.room)
  /\ \A m \in messages' : m.id \in Sent \ overwritten' =>
       \E n \in messages : n.id = m.id /\ (n.is_read => m.is_read)

Kept == KeepsMessages /\ \A i \in Sent : \A room : IsRow(i, room)' => IsRow(i, room)

LEMMA PlacedStays ==
  ASSUME Kept
  PROVE  \A i \in Sent : \A room : Placed(i, room) => Placed(i, room)'
<1> SUFFICES ASSUME NEW i \in Sent, NEW room, Placed(i, room) PROVE Placed(i, room)'
  OBVIOUS
<1>1. ASSUME NEW r, IsRow(i, r)' PROVE r = room
  BY <1>1 DEF Kept, Placed
<1> QED BY <1>1 DEF Placed

\* What a handler holds stays true of it, if what it is about to save is not lost.
LEMMA HeldStays ==
  ASSUME Kept
  PROVE  \A s : HeldBy(s) /\ (s.step = "saveEdit" => s.row.id \notin lost') => HeldBy(s)'
<1> SUFFICES ASSUME NEW s, HeldBy(s), s.step = "saveEdit" => s.row.id \notin lost'
             PROVE  HeldBy(s)'
  OBVIOUS
<1>1. ASSUME NEW t, Waits(t), t.step = "saveEdit" => t.row.id \notin lost' PROVE Waits(t)'
  <2>1. t.step = "saveEdit" => t.row.id \in Sent' \ lost' /\ Placed(t.row.id, t.row.room)'
    BY <1>1, PlacedStays DEF Waits, Kept, KeepsMessages
  <2>2. t.step = "tellRead" => \A m \in messages' : m.id \in t.ids \ overwritten' => m.is_read
    <3>1. ASSUME t.step = "tellRead", NEW m \in messages', m.id \in t.ids \ overwritten' PROVE m.is_read
      <4>1. m.id \in Sent /\ m.id \notin overwritten
        BY <1>1, <3>1 DEF Waits, Kept, KeepsMessages
      <4>2. PICK n \in messages : n.id = m.id /\ (n.is_read => m.is_read)
        BY <3>1, <4>1 DEF Kept, KeepsMessages
      <4> QED BY <1>1, <3>1, <4>1, <4>2 DEF Waits
    <3> QED BY <3>1
  <2>3. t.step \in {"findPin", "insertPin"} =>
          t.pin[2] \in unseen' \/ (t.pin[2] \in Sent' /\ Placed(t.pin[2], t.pin[1])')
    BY <1>1, PlacedStays DEF Waits, Kept, KeepsMessages
  <2>4. Sent \subseteq Sent'
    BY DEF Kept, KeepsMessages
  <2> QED BY <1>1, <2>1, <2>2, <2>3, <2>4 DEF Waits
<1>2. Waits(s)'
  BY <1>1 DEF HeldBy
<1>3. s.step = "access" => Waits(s.next)' /\ s.next.step # "saveEdit"
  BY <1>1 DEF HeldBy
<1> QED BY <1>2, <1>3 DEF HeldBy

\* What was told to be read is, and pins are in their rooms.
LEMMA KeptProperties ==
  ASSUME IInv, Kept, pins' \subseteq pins
  PROVE  PinsPlaced' /\ (shownRead' = shownRead => ToldIsRead')
<1>1. \A p \in pins' : p[2] \in Sent /\ (p[2] \in unseen \/ Placed(p[2], p[1]))
  BY DEF IInv, PinsPlaced, TypeOK, Fresh
<1>2. \A p \in pins' : p[2] \in unseen' \/ Placed(p[2], p[1])'
  BY <1>1, PlacedStays DEF Kept, KeepsMessages
<1>3. ASSUME shownRead' = shownRead PROVE ToldIsRead'
  <2>1. ASSUME NEW m \in messages', m.id \in shownRead \ overwritten' PROVE m.is_read
    <3>1. m.id \in Sent /\ m.id \notin overwritten
      BY <2>1 DEF IInv, Fresh, Kept, KeepsMessages
    <3>2. PICK n \in messages : n.id = m.id /\ (n.is_read => m.is_read)
      BY <2>1, <3>1 DEF Kept, KeepsMessages
    <3> QED BY <2>1, <3>1, <3>2 DEF IInv, ToldIsRead
  <2> QED BY <1>3, <2>1 DEF ToldIsRead
<1> QED BY <1>2, <1>3 DEF PinsPlaced
-----------------------------------------------------------------------------
(* Handlers *)

\* No handler but h is about to save a message that gets lost.
SavesOfOthers(h) ==
  \A g \in Slots \ {h} : handlers[g].step = "saveEdit" => handlers[g].row.id \notin lost'

\* Handler h goes on with s; a row that it is then about to save is where it was.
Turns(h, s) ==
  /\ s \in Handler /\ handlers' = [handlers EXCEPT ![h] = s]
  /\ s.step = "saveEdit" => IsRow(s.row.id, s.row.room)

LEMMA Others ==
  ASSUME HandlersOK, NEW h \in Slots, NEW s, handlers' = [handlers EXCEPT ![h] = s]
  PROVE  handlers'[h] = s /\ \A g \in Slots \ {h} : handlers'[g] = handlers[g]
BY DEF HandlersOK

LEMMA TurnsKeep ==
  ASSUME HandlersOK, NEW h \in Slots, NEW s, Turns(h, s), KeepsMessages
  PROVE  Kept
<1>1. handlers'[h] = s /\ \A g \in Slots \ {h} : handlers'[g] = handlers[g]
  BY Others DEF Turns
<1>2. ASSUME NEW i \in Sent, NEW room, IsRow(i, room)' PROVE IsRow(i, room)
  <2>1. CASE \E m \in messages' : m.id = i /\ m.room = room
    BY <2>1 DEF KeepsMessages
  <2>2. ASSUME NEW g \in Slots, handlers'[g].step = "saveEdit",
               handlers'[g].row.id = i, handlers'[g].row.room = room
        PROVE  IsRow(i, room)
    <3>1. CASE g = h
      BY <1>1, <2>2, <3>1 DEF Turns
    <3>2. CASE g # h
      <4>1. handlers'[g] = handlers[g]
        BY <1>1, <3>2
      <4> QED BY <2>2, <4>1 DEF IsRow
    <3> QED BY <3>1, <3>2
  <2> QED BY <1>2, <2>1, <2>2 DEF IsRow
<1> QED BY <1>2 DEF Kept

\* One handler moves on, the others stay.
LEMMA OneMoves ==
  ASSUME HandlersOK, Held, NEW h \in Slots, NEW s, Turns(h, s), KeepsMessages, SavesOfOthers(h),
         Kept => HeldBy(s)'
  PROVE  Kept /\ HandlersOK' /\ Held'
<1>1. Kept
  BY TurnsKeep
<1>2. HandlersOK' /\ handlers'[h] = s /\ \A g \in Slots \ {h} : handlers'[g] = handlers[g]
  BY Others DEF HandlersOK, Turns
<1>3. ASSUME NEW g \in Slots PROVE HeldBy(handlers[g])'
  <2>1. PICK t : t = handlers'[g]
    OBVIOUS
  <2>2. HeldBy(t)'
    <3>1. CASE g = h
      BY <1>1, <1>2, <2>1, <3>1
    <3>2. CASE g # h
      <4>1. t = handlers[g]
        BY <1>2, <2>1, <3>2
      <4>2. HeldBy(t) /\ (t.step = "saveEdit" => t.row.id \notin lost')
        BY <3>2, <4>1 DEF Held, SavesOfOthers
      <4> QED BY <1>1, <4>2, HeldStays
    <3> QED BY <3>1, <3>2
  <2> QED BY <2>1, <2>2
<1> QED BY <1>1, <1>2, <1>3 DEF Held

LEMMA NoneMoves ==
  ASSUME HandlersOK, Held, KeepsMessages, UNCHANGED handlers,
         \A g \in Slots : handlers[g].step = "saveEdit" => handlers[g].row.id \notin lost'
  PROVE  Kept /\ HandlersOK' /\ Held'
<1>1. Kept
  BY DEF Kept, KeepsMessages, IsRow
<1>2. ASSUME NEW g \in Slots PROVE HeldBy(handlers[g])'
  <2>1. PICK t : t = handlers[g]
    OBVIOUS
  <2>2. HeldBy(t) /\ (t.step = "saveEdit" => t.row.id \notin lost')
    BY <2>1 DEF Held
  <2>3. HeldBy(t)'
    BY <1>1, <2>2, HeldStays
  <2> QED BY <2>1, <2>3
<1> QED BY <1>1, <1>2 DEF Held, HandlersOK

\* Nothing is lost that a handler is about to save.
LEMMA LosesNoSave ==
  ASSUME HandlersOK, Held, NEW S, Loses(S)
  PROVE  \A g \in Slots : handlers[g].step = "saveEdit" => handlers[g].row.id \notin lost'
BY DEF Held, HeldBy, Waits, Loses, AboutToSave, At

LEMMA LostStays ==
  ASSUME Held, lost' = lost
  PROVE  \A g \in Slots : handlers[g].step = "saveEdit" => handlers[g].row.id \notin lost'
BY DEF Held, HeldBy, Waits

\* A handler that is through holds nothing.
LEMMA IdleHandler == Idle \in Handler /\ Idle.step = "idle" /\ HeldBy(Idle) /\ HeldBy(Idle)'
BY DEF Idle, Handler, HeldBy, Waits

\* Where no message changes, only a new pin is to be shown in its room, and what is told.
LEMMA MessagesStay ==
  ASSUME IInv, UNCHANGED <<messages, lastMessage, lost, overwritten, shownRead>>,
         unseen \subseteq unseen'
  PROVE  /\ KeepsMessages /\ Fresh' /\ ToldIsRead' /\ DeletedStaysDeleted'
         /\ Stored' = Stored /\ Sent' = Sent
<1>1. KeepsMessages
  BY DEF KeepsMessages, IsRow, Sent
<1> QED BY <1>1 DEF Fresh, ToldIsRead, DeletedStaysDeleted, Stored, Sent, IInv

\* Handler h goes on, no message changes.
LEMMA HandlerTurns ==
  ASSUME IInv, NEW h \in Slots, NEW s, Turns(h, s), UNCHANGED <<messages, lastMessage, lost, overwritten>>,
         unseen \subseteq unseen', KeepsMessages, HeldBy(s) \/ HeldBy(s)'
  PROVE  Kept /\ HandlersOK' /\ Held'
<1>1. SavesOfOthers(h)
  BY LostStays DEF SavesOfOthers, IInv
<1>2. Kept => HeldBy(s)'
  <2>1. ASSUME Kept, HeldBy(s) PROVE HeldBy(s)'
    <3>1. s.step = "saveEdit" => s.row.id \notin lost'
      BY <2>1 DEF HeldBy, Waits
    <3> QED BY <2>1, <3>1, HeldStays
  <2> QED BY <2>1
<1> QED BY <1>1, <1>2, OneMoves DEF IInv

\* A step that writes no table, but for what is asked for unseen.
LEMMA Looking ==
  ASSUME IInv, NEW h \in Slots, NEW s, events' \in 0 .. MaxEvents, Turns(h, s),
         UNCHANGED <<tables, told, lost, cleared, overwritten, crossings>>,
         unseen \subseteq unseen', unseen' \subseteq Ids, HeldBy(s) \/ HeldBy(s)'
  PROVE  IInv'
<1> USE DEF IInv
<1>1. KeepsMessages /\ Fresh' /\ ToldIsRead' /\ DeletedStaysDeleted' /\ Stored' = Stored
  BY MessagesStay DEF tables, told
<1>2. Kept /\ HandlersOK' /\ Held'
  BY <1>1, HandlerTurns DEF tables
<1>3. TypeOK'
  BY <1>1 DEF TypeOK, tables, told, crossings
<1>4. PinsPlaced'
  BY <1>2, KeptProperties DEF tables
<1> QED BY <1>1, <1>2, <1>3, <1>4

LEMMA Reading ==
  ASSUME IInv, NEW h \in Slots, events' \in 0 .. MaxEvents, NEW s \in Handler, HeldBy(s), Reads(h, s),
         s.step = "saveEdit" => IsRow(s.row.id, s.row.room)
  PROVE  IInv'
<1>1. Turns(h, s)
  BY DEF Turns, Reads, Goes
<1> QED BY <1>1, Looking DEF Reads, history, IInv, TypeOK
-----------------------------------------------------------------------------
(* Events, and the statements that only read *)

LEMMA IdleReads ==
  ASSUME IInv, NEW h \in Slots, events' \in 0 .. MaxEvents, Reads(h, Idle)
  PROVE  IInv'
BY IdleHandler, Reading

LEMMA ArrivesCounts == ASSUME IInv, Arrives PROVE events' \in 0 .. MaxEvents
BY ChatAssumption DEF Arrives, IInv, TypeOK

\* What is asked for first waits, where a team's room is asked for, for access.
LEMMA Admitted ==
  ASSUME NEW u, NEW room, NEW next \in Start
  PROVE  /\ next \in Handler /\ next.step \notin {"access", "saveEdit"}
         /\ Entry(u, room, next) \in Handler /\ Entry(u, room, next).step # "saveEdit"
         /\ Waits(next) => HeldBy(next) /\ HeldBy(Entry(u, room, next))
         /\ Waits(next)' => HeldBy(Entry(u, room, next))'
<1>1. next \in Handler /\ next.step \notin {"access", "saveEdit"}
  BY DEF Start, Handler
<1> DEFINE waiting == [step |-> "access", next |-> next]
<1>2. waiting \in Handler /\ waiting.step = "access" /\ waiting.next = next
  <2>1. waiting \in [step : {"access"}, next : Start]
    OBVIOUS
  <2> QED BY <2>1 DEF Handler
<1>3. Entry(u, room, next) = waiting \/ Entry(u, room, next) = next
  BY DEF Entry
<1> HIDE DEF waiting
<1>4. Waits(next) => HeldBy(next) /\ HeldBy(waiting)
  BY <1>1, <1>2 DEF HeldBy, Waits
<1>5. Waits(next)' => HeldBy(next)' /\ HeldBy(waiting)'
  BY <1>1, <1>2 DEF HeldBy, Waits
<1>6. CASE Entry(u, room, next) = waiting
  BY <1>1, <1>2, <1>4, <1>5, <1>6
<1>7. CASE Entry(u, room, next) = next
  BY <1>1, <1>2, <1>4, <1>5, <1>7
<1> QED BY <1>3, <1>6, <1>7

LEMMA Entering ==
  ASSUME IInv, NEW h \in Slots, NEW u, NEW room, NEW next \in Start, Waits(next),
         events' \in 0 .. MaxEvents, Enters(h, u, room, next)
  PROVE  IInv'
<1>1. PICK s : s = Entry(u, room, next)
  OBVIOUS
<1>2. s \in Handler /\ s.step # "saveEdit" /\ HeldBy(s)
  BY <1>1, Admitted
<1>3. Reads(h, s)
  BY <1>1 DEF Enters
<1> QED BY <1>2, <1>3, Reading

LEMMA Asking ==
  ASSUME IInv, NEW h \in Slots, NEW u, NEW i, NEW next \in Start, i \in Stored => Waits(next),
         Asks(h, u, i, next)
  PROVE  IInv'
<1>1. events' \in 0 .. MaxEvents
  BY ArrivesCounts DEF Asks, Begins
<1>2. CASE i \in Stored
  <2>1. PICK room : room = Row(i).room
    OBVIOUS
  <2>2. Enters(h, u, room, next)
    BY <1>2, <2>1 DEF Asks
  <2> QED BY <1>1, <1>2, <2>2, Entering
<1>3. CASE i \notin Stored
  BY <1>1, <1>3, IdleReads DEF Asks
<1> QED BY <1>2, <1>3

LEMMA BeginSendInv ==
  ASSUME IInv, NEW h \in Slots, NEW u \in Users, NEW room \in Rooms, NEW text \in Texts,
         NEW reply \in {None} \cup Ids, BeginSend(h, u, room, text, reply)
  PROVE  IInv'
<1> DEFINE row == [room |-> room, user |-> u, text |-> text, reply |-> reply, is_read |-> FALSE]
           next == [step |-> "findRoom", row |-> row]
<1>1. next \in Start /\ Waits(next)
  BY DEF Start, NewRow, Waits
<1>2. events' \in 0 .. MaxEvents /\ Enters(h, u, room, next)
  BY ArrivesCounts DEF BeginSend, Begins
<1> HIDE DEF next
<1> QED BY <1>1, <1>2, Entering

LEMMA BeginMarkReadInv ==
  ASSUME IInv, NEW h \in Slots, NEW u \in Users, NEW room \in Rooms, BeginMarkRead(h, u, room)
  PROVE  IInv'
<1> DEFINE next == [step |-> "findUnread", user |-> u, room |-> room]
<1>1. next \in Start /\ Waits(next)
  BY DEF Start, Waits
<1>2. events' \in 0 .. MaxEvents /\ Enters(h, u, room, next)
  BY ArrivesCounts DEF BeginMarkRead, Begins
<1> HIDE DEF next
<1> QED BY <1>1, <1>2, Entering

LEMMA BeginOneInv ==
  ASSUME IInv, NEW h \in Slots, NEW u \in Users, NEW i \in Ids,
         \/ BeginDelete(h, u, i) \/ BeginReact(h, u, i)
         \/ \E text \in Texts : BeginEdit(h, u, i, text)
  PROVE  IInv'
<1>1. CASE BeginDelete(h, u, i)
  <2> DEFINE next == [step |-> "findToDelete", user |-> u, id |-> i]
  <2>1. next \in Start /\ Waits(next) /\ Asks(h, u, i, next)
    BY <1>1 DEF Start, Waits, BeginDelete
  <2> HIDE DEF next
  <2> QED BY <2>1, Asking
<1>2. CASE BeginReact(h, u, i)
  <2> DEFINE asked == [id |-> None, message |-> i, user |-> u]
             next  == [step |-> "findReaction", reaction |-> asked]
  <2>1. asked \in Reaction /\ asked.message = i
    BY DEF Reaction, None
  <2>2. Asks(h, u, i, next)
    BY <1>2 DEF BeginReact
  <2> HIDE DEF asked
  <2>3. next \in Start /\ next.step = "findReaction" /\ next.reaction = asked
    BY <2>1 DEF Start
  <2> HIDE DEF next
  <2>4. i \in Stored => Waits(next)
    BY <2>1, <2>3 DEF Waits, IInv, Fresh
  <2> QED BY <2>2, <2>3, <2>4, Asking
<1>3. ASSUME NEW text \in Texts, BeginEdit(h, u, i, text) PROVE IInv'
  <2> DEFINE next == [step |-> "findToEdit", user |-> u, id |-> i, text |-> text]
  <2>1. next \in Start /\ Waits(next) /\ Asks(h, u, i, next)
    BY <1>3 DEF Start, Waits, BeginEdit
  <2> HIDE DEF next
  <2> QED BY <2>1, Asking
<1> QED BY <1>1, <1>2, <1>3

\* A message that is stored has no other room that an edit could put it in.
LEMMA RowPlaced ==
  ASSUME IInv, NEW i \in Stored
  PROVE  Placed(i, Row(i).room) /\ Row(i).room \in Rooms
<1>1. /\ Row(i) \in messages /\ Row(i).id = i /\ Row(i).room \in Rooms
      /\ \A m \in messages : m.id = i => m = Row(i)
  BY RowOf DEF IInv, Message
<1>2. ASSUME NEW r, IsRow(i, r) PROVE r = Row(i).room
  <2>1. CASE \E m \in messages : m.id = i /\ m.room = r
    BY <1>1, <2>1
  <2>2. ASSUME NEW g \in Slots, handlers[g].step = "saveEdit", handlers[g].row.id = i,
               handlers[g].row.room = r
        PROVE  r = Row(i).room
    <3>1. Placed(i, r)
      BY <2>2 DEF IInv, Held, HeldBy, Waits
    <3>2. IsRow(i, Row(i).room)
      BY <1>1 DEF IsRow
    <3> QED BY <3>1, <3>2 DEF Placed
  <2> QED BY <1>2, <2>1, <2>2 DEF IsRow
<1> QED BY <1>1, <1>2 DEF Placed

\* A pin is asked for in the room of its message, or of a message that is not there.
LEMMA BeginPinInv ==
  ASSUME IInv, NEW h \in Slots, NEW u \in Users, NEW i \in Ids, NEW given \in {None} \cup Rooms,
         BeginPin(h, u, i, given) \/ BeginUnpin(h, u, i, given)
  PROVE  IInv'
<1>1. events' \in 0 .. MaxEvents
  BY ArrivesCounts DEF BeginPin, BeginUnpin, Begins
<1>2. PICK room : room = PinRoom(i, given)
  OBVIOUS
<1>3. room # None => room \in Rooms
  BY <1>2, RowPlaced DEF PinRoom
<1>4. CASE BeginPin(h, u, i, given)
  <2>1. unseen' = IF i \in Stored THEN unseen ELSE unseen \cup {i}
    BY <1>4 DEF BeginPin
  <2>2. UNCHANGED <<tables, told, lost, cleared, overwritten, crossings>>
    BY <1>4 DEF BeginPin
  <2>3. unseen \subseteq unseen' /\ unseen' \subseteq Ids
    BY <2>1 DEF IInv, TypeOK
  <2>4. CASE room = None
    <3>1. Turns(h, Idle)
      BY <1>2, <1>4, <2>4, IdleHandler DEF BeginPin, Goes, Turns
    <3> QED BY <1>1, <2>2, <2>3, <3>1, IdleHandler, Looking
  <2>5. CASE room # None
    <3> DEFINE next == [step |-> "findPin", pin |-> <<room, i>>]
    <3>1. next \in Start /\ next.step = "findPin" /\ next.pin = <<room, i>>
      BY <1>3, <2>5 DEF Start
    <3>2. Goes(h, Entry(u, room, next))
      BY <1>2, <1>4, <2>5 DEF BeginPin
    <3> HIDE DEF next
    <3>3. Waits(next)'
      <4>1. i \in unseen' \/ (i \in Sent' /\ Placed(i, room)')
        <5>1. CASE i \notin Stored
          BY <2>1, <5>1
        <5>2. CASE i \in Stored
          <6>1. Placed(i, room) /\ i \in Sent
            BY <1>2, <5>2, RowPlaced DEF PinRoom, IInv, Fresh
          <6>2. Turns(h, Entry(u, room, next))
            BY <3>1, <3>2, Admitted DEF Goes, Turns
          <6>3. KeepsMessages
            BY <2>2, <2>3, MessagesStay DEF tables, told
          <6>4. Kept
            BY <6>2, <6>3, TurnsKeep DEF IInv
          <6> QED BY <6>1, <6>4, PlacedStays DEF Kept, KeepsMessages
        <5> QED BY <5>1, <5>2
      <4> QED BY <3>1, <4>1 DEF Waits
    <3>4. PICK s : s = Entry(u, room, next)
      OBVIOUS
    <3>5. HeldBy(s)' /\ s \in Handler /\ s.step # "saveEdit"
      BY <3>1, <3>3, <3>4, Admitted
    <3>6. Turns(h, s)
      BY <3>2, <3>4, <3>5 DEF Goes, Turns
    <3> QED BY <1>1, <2>2, <2>3, <3>5, <3>6, Looking
  <2> QED BY <2>4, <2>5
<1>5. CASE BeginUnpin(h, u, i, given)
  <2>1. CASE room = None
    BY <1>1, <1>2, <1>5, <2>1, IdleReads DEF BeginUnpin
  <2>2. CASE room # None
    <3> DEFINE next == [step |-> "deletePin", pin |-> <<room, i>>]
    <3>1. next \in Start /\ Waits(next)
      BY <1>3, <2>2 DEF Start, Waits
    <3>2. Enters(h, u, room, next)
      BY <1>2, <1>5, <2>2 DEF BeginUnpin
    <3> HIDE DEF next
    <3> QED BY <1>1, <3>1, <3>2, Entering
  <2> QED BY <2>1, <2>2
<1> QED BY <1>4, <1>5

\* What a handler holds at a step has the fields of that step.
LEMMA Fields ==
  ASSUME NEW s \in Handler
  PROVE  /\ s.step = "access" => s.next \in Start
         /\ s.step \in {"findRoom", "insertRoom", "insertMessage"} =>
              /\ s.row.room \in Rooms /\ s.row.user \in Users
              /\ s.row.text \in Texts /\ s.row.reply \in {None} \cup Ids
         /\ s.step \in {"readSent", "delete", "tellDeleted", "readReactions", "findToDelete",
                        "tellReactions"} => s.id \in Ids
         /\ s.step \in {"findToEdit", "tellSent", "tellEdited"} => s.id \in Ids /\ s.text \in Texts
         /\ s.step = "tellReactions" => s.users \in SUBSET Users
         /\ s.step \in {"saveEdit", "readEdited"} => s.row \in Message
         /\ s.step \in {"saveRead", "tellRead"} => s.ids \in SUBSET Ids
         /\ s.step \in {"findReaction", "insertReaction", "removeReaction"} => s.reaction \in Reaction
         /\ s.step \in {"findPin", "insertPin", "deletePin"} => s.pin \in Rooms \X Ids
BY DEF Handler, Start, Later, NewRow

\* A handler that goes on with what it holds.
LEMMA GoesOn ==
  ASSUME NEW s \in Handler
  PROVE  /\ s.step = "findRoom" => \A step \in {"insertRoom", "insertMessage"} :
                                    /\ [s EXCEPT !.step = step] \in Handler
                                    /\ [s EXCEPT !.step = step].step = step
         /\ s.step = "insertRoom" => /\ [s EXCEPT !.step = "insertMessage"] \in Handler
                                     /\ [s EXCEPT !.step = "insertMessage"].step = "insertMessage"
         /\ s.step = "saveRead" => /\ [s EXCEPT !.step = "tellRead"] \in Handler
                                   /\ [s EXCEPT !.step = "tellRead"].step = "tellRead"
                                   /\ [s EXCEPT !.step = "tellRead"].ids = s.ids
         /\ s.step = "findPin" => /\ [s EXCEPT !.step = "insertPin"] \in Handler
                                  /\ [s EXCEPT !.step = "insertPin"].step = "insertPin"
                                  /\ [s EXCEPT !.step = "insertPin"].pin = s.pin
<1>1. /\ s.step = "findRoom" => s \in [step : {"findRoom"}, row : NewRow]
      /\ s.step = "insertRoom" => s \in [step : {"insertRoom", "insertMessage"}, row : NewRow]
      /\ s.step = "saveRead" => s \in [step : {"saveRead", "tellRead"}, ids : SUBSET Ids]
      /\ s.step = "findPin" => s \in [step : {"findPin", "deletePin"}, pin : Rooms \X Ids]
  BY DEF Handler, Start, Later
<1>2. /\ [step : {"insertRoom", "insertMessage"}, row : NewRow] \subseteq Handler
      /\ [step : {"saveRead", "tellRead"}, ids : SUBSET Ids] \subseteq Handler
      /\ [step : {"insertPin"}, pin : Rooms \X Ids] \subseteq Handler
  BY DEF Handler, Later
<1> QED BY <1>1, <1>2

LEMMA CheckAccessInv == ASSUME IInv, NEW h \in Slots, CheckAccess(h), UNCHANGED events PROVE IInv'
<1>1. events' \in 0 .. MaxEvents
  BY DEF IInv, TypeOK
<1>2. PICK s \in Handler : s = handlers[h]
  BY DEF IInv, HandlersOK
<1>3. s.step = "access" /\ (Reads(h, s.next) \/ Reads(h, Idle))
  BY <1>2 DEF CheckAccess, At
<1>4. s.next \in Handler /\ HeldBy(s.next) /\ s.next.step # "saveEdit"
  <2>1. s.next \in Start /\ Waits(s.next)
    BY <1>2, <1>3, Fields DEF IInv, Held, HeldBy
  <2> QED BY <2>1, Admitted
<1> QED BY <1>1, <1>3, <1>4, Reading, IdleReads

LEMMA FindRoomInv == ASSUME IInv, NEW h \in Slots, FindRoom(h), UNCHANGED events PROVE IInv'
<1>1. events' \in 0 .. MaxEvents
  BY DEF IInv, TypeOK
<1>2. PICK s \in Handler : s = handlers[h]
  BY DEF IInv, HandlersOK
<1>3. PICK step \in {"insertRoom", "insertMessage"} : Reads(h, [s EXCEPT !.step = step])
  BY <1>2 DEF FindRoom
<1>4. s.step = "findRoom"
  BY <1>2 DEF FindRoom, At
<1>5. PICK t \in Handler : t = [s EXCEPT !.step = step] /\ t.step = step
  BY <1>4, GoesOn
<1>6. HeldBy(t) /\ t.step # "saveEdit"
  BY <1>5 DEF HeldBy, Waits
<1> QED BY <1>1, <1>3, <1>5, <1>6, Reading

LEMMA FindToDeleteInv ==
  ASSUME IInv, NEW h \in Slots, FindToDelete(h), UNCHANGED events PROVE IInv'
<1>1. events' \in 0 .. MaxEvents
  BY DEF IInv, TypeOK
<1>2. PICK s \in Handler : s = handlers[h]
  BY DEF IInv, HandlersOK
<1>3. s.id \in Ids
  BY <1>2, Fields DEF FindToDelete, At
<1>4. CASE s.id \in Stored
  <2>1. s.id \in Sent
    BY <1>4 DEF IInv, Fresh
  <2>2. [step |-> "delete", id |-> s.id] \in Handler /\ HeldBy([step |-> "delete", id |-> s.id])
    BY <1>3, <2>1 DEF Handler, Later, HeldBy, Waits
  <2>3. Reads(h, [step |-> "delete", id |-> s.id]) \/ Reads(h, Idle)
    BY <1>2 DEF FindToDelete
  <2> QED BY <1>1, <2>2, <2>3, Reading, IdleReads
<1>5. CASE s.id \notin Stored
  BY <1>1, <1>2, <1>5, IdleReads DEF FindToDelete
<1> QED BY <1>4, <1>5

LEMMA FindToEditInv ==
  ASSUME IInv, NEW h \in Slots, FindToEdit(h), UNCHANGED events PROVE IInv'
<1>1. events' \in 0 .. MaxEvents
  BY DEF IInv, TypeOK
<1>2. PICK s \in Handler : s = handlers[h]
  BY DEF IInv, HandlersOK
<1>3. s.id \in Ids /\ s.text \in Texts
  BY <1>2, Fields DEF FindToEdit, At
<1>4. CASE s.id \in Stored
  <2>1. PICK row \in Message : row = Row(s.id)
    BY <1>4, RowOf DEF IInv
  <2>2. row \in messages /\ row.id = s.id
    BY <1>4, <2>1, RowOf DEF IInv
  <2>3. PICK edited : edited = [row EXCEPT !.text = s.text]
    OBVIOUS
  <2>4. edited \in Message /\ edited.id = s.id /\ edited.room = row.room
    BY <1>3, <2>2, <2>3 DEF Message
  <2>5. s.id \in Sent \ lost
    BY <1>4 DEF IInv, Fresh, DeletedStaysDeleted
  <2>6. Placed(s.id, row.room) /\ IsRow(s.id, row.room)
    BY <1>4, <2>1, <2>2, RowPlaced DEF IsRow
  <2>7. PICK t : t = [step |-> "saveEdit", row |-> edited]
    OBVIOUS
  <2>8. t \in Handler /\ t.step = "saveEdit" /\ t.row = edited
    BY <2>4, <2>7 DEF Handler, Later
  <2>9. HeldBy(t)
    BY <2>4, <2>5, <2>6, <2>8 DEF HeldBy, Waits
  <2>10. Reads(h, t) \/ Reads(h, Idle)
    BY <1>2, <2>1, <2>3, <2>7 DEF FindToEdit
  <2> QED BY <1>1, <2>4, <2>6, <2>8, <2>9, <2>10, Reading, IdleReads
<1>5. CASE s.id \notin Stored
  BY <1>1, <1>2, <1>5, IdleReads DEF FindToEdit
<1> QED BY <1>4, <1>5

LEMMA FindUnreadInv ==
  ASSUME IInv, NEW h \in Slots, FindUnread(h), UNCHANGED events PROVE IInv'
<1>1. events' \in 0 .. MaxEvents
  BY DEF IInv, TypeOK
<1>2. PICK found \in SUBSET Stored : Reads(h, [step |-> "saveRead", ids |-> found]) \/ Reads(h, Idle)
  <2> DEFINE found == {m.id : m \in {x \in messages : /\ x.room = handlers[h].room /\ ~x.is_read
                                                      /\ x.user # handlers[h].user}}
  <2>1. found \in SUBSET Stored
    BY DEF Stored
  <2>2. Reads(h, IF found = {} THEN Idle ELSE [step |-> "saveRead", ids |-> found])
    BY DEF FindUnread
  <2> QED BY <2>1, <2>2
<1>3. found \subseteq Sent /\ found \in SUBSET Ids
  BY <1>2, SentIds DEF IInv, Fresh
<1>4. PICK t : t = [step |-> "saveRead", ids |-> found]
  OBVIOUS
<1>5. t \in Handler /\ t.step = "saveRead" /\ t.ids = found
  BY <1>3, <1>4 DEF Handler, Later
<1>6. HeldBy(t)
  BY <1>3, <1>5 DEF HeldBy, Waits
<1> QED BY <1>1, <1>2, <1>4, <1>5, <1>6, Reading, IdleReads

\* What a handler asks and tells of one message.
LEMMA HoldsOne ==
  ASSUME IInv, NEW i \in Sent
  PROVE  /\ \A text \in Texts : \A step \in {"tellSent", "tellEdited"} :
              /\ [step |-> step, id |-> i, text |-> text] \in Handler
              /\ HeldBy([step |-> step, id |-> i, text |-> text])
         /\ \A step \in {"readSent", "tellDeleted", "readReactions"} :
              [step |-> step, id |-> i] \in Handler /\ HeldBy([step |-> step, id |-> i])
         /\ \A users \in SUBSET Users :
              /\ [step |-> "tellReactions", id |-> i, users |-> users] \in Handler
              /\ HeldBy([step |-> "tellReactions", id |-> i, users |-> users])
<1>1. i \in Ids
  BY SentIds DEF IInv
<1>2. ASSUME NEW text \in Texts, NEW step \in {"tellSent", "tellEdited"}
      PROVE  /\ [step |-> step, id |-> i, text |-> text] \in Handler
             /\ HeldBy([step |-> step, id |-> i, text |-> text])
  BY <1>1 DEF Handler, Later, HeldBy, Waits
<1>3. ASSUME NEW step \in {"readSent", "tellDeleted", "readReactions"}
      PROVE  [step |-> step, id |-> i] \in Handler /\ HeldBy([step |-> step, id |-> i])
  BY <1>1 DEF Handler, Later, HeldBy, Waits
<1>4. ASSUME NEW users \in SUBSET Users
      PROVE  /\ [step |-> "tellReactions", id |-> i, users |-> users] \in Handler
             /\ HeldBy([step |-> "tellReactions", id |-> i, users |-> users])
  BY <1>1 DEF Handler, Later, HeldBy, Waits
<1> QED BY <1>2, <1>3, <1>4

LEMMA ReadSentInv == ASSUME IInv, NEW h \in Slots, ReadSent(h), UNCHANGED events PROVE IInv'
<1>1. events' \in 0 .. MaxEvents
  BY DEF IInv, TypeOK
<1>2. PICK i : i = handlers[h].id
  OBVIOUS
<1>3. i \in Sent
  BY <1>2 DEF ReadSent, At, IInv, Held, HeldBy, Waits
<1>4. CASE i \in Stored
  <2>1. PICK t : t = [step |-> "tellSent", id |-> i, text |-> Row(i).text]
    OBVIOUS
  <2>2. Row(i).text \in Texts
    BY <1>4, RowOf DEF IInv, Message
  <2>3. t \in Handler /\ HeldBy(t) /\ t.step = "tellSent"
    BY <1>3, <2>1, <2>2, HoldsOne
  <2>4. Reads(h, t)
    BY <1>2, <1>4, <2>1 DEF ReadSent
  <2> QED BY <1>1, <2>3, <2>4, Reading
<1>5. CASE i \notin Stored
  BY <1>1, <1>2, <1>5, IdleReads DEF ReadSent
<1> QED BY <1>4, <1>5

LEMMA ReadEditedInv == ASSUME IInv, NEW h \in Slots, ReadEdited(h), UNCHANGED events PROVE IInv'
<1>1. events' \in 0 .. MaxEvents
  BY DEF IInv, TypeOK
<1>2. PICK i : i = handlers[h].row.id
  OBVIOUS
<1>3. i \in Sent
  BY <1>2 DEF ReadEdited, At, IInv, Held, HeldBy, Waits
<1>4. CASE i \in Stored
  <2>1. PICK t : t = [step |-> "tellEdited", id |-> i, text |-> Row(i).text]
    OBVIOUS
  <2>2. Row(i).text \in Texts
    BY <1>4, RowOf DEF IInv, Message
  <2>3. t \in Handler /\ HeldBy(t) /\ t.step = "tellEdited"
    BY <1>3, <2>1, <2>2, HoldsOne
  <2>4. Reads(h, t)
    BY <1>2, <1>4, <2>1 DEF ReadEdited
  <2> QED BY <1>1, <2>3, <2>4, Reading
<1>5. CASE i \notin Stored
  BY <1>1, <1>2, <1>5, IdleReads DEF ReadEdited
<1> QED BY <1>4, <1>5

LEMMA ReadReactionsInv ==
  ASSUME IInv, NEW h \in Slots, ReadReactions(h), UNCHANGED events
  PROVE  IInv'
<1>1. events' \in 0 .. MaxEvents
  BY DEF IInv, TypeOK
<1>2. PICK i : i = handlers[h].id
  OBVIOUS
<1>3. i \in Sent
  BY <1>2 DEF ReadReactions, At, IInv, Held, HeldBy, Waits
<1>4. PICK t : t = [step |-> "tellReactions", id |-> i, users |-> ReactionsOf(i)]
  OBVIOUS
<1>5. ReactionsOf(i) \in SUBSET Users
  BY DEF ReactionsOf, IInv, TypeOK, Reaction
<1>6. t \in Handler /\ HeldBy(t) /\ t.step = "tellReactions"
  BY <1>3, <1>4, <1>5, HoldsOne
<1>7. Reads(h, t)
  BY <1>2, <1>4 DEF ReadReactions
<1> QED BY <1>1, <1>6, <1>7, Reading

LEMMA FindReactionInv ==
  ASSUME IInv, NEW h \in Slots, FindReaction(h), UNCHANGED events PROVE IInv'
<1>1. events' \in 0 .. MaxEvents
  BY DEF IInv, TypeOK
<1>2. PICK s \in Handler : s = handlers[h]
  BY DEF IInv, HandlersOK
<1>3. s.reaction \in Reaction /\ s.reaction.message \in Sent
  BY <1>2, Fields DEF FindReaction, At, IInv, Held, HeldBy, Waits
<1>4. PICK step \in {"insertReaction", "removeReaction"}, r \in Reaction :
        Reads(h, [step |-> step, reaction |-> r]) /\ r.message = s.reaction.message
  BY <1>2, <1>3 DEF FindReaction, IInv, TypeOK
<1>5. PICK t : t = [step |-> step, reaction |-> r]
  OBVIOUS
<1>6. t \in Handler /\ t.step = step /\ t.reaction = r
  BY <1>5 DEF Handler, Later
<1>7. HeldBy(t)
  BY <1>3, <1>4, <1>6 DEF HeldBy, Waits
<1> QED BY <1>1, <1>4, <1>5, <1>6, <1>7, Reading

LEMMA FindPinInv == ASSUME IInv, NEW h \in Slots, FindPin(h), UNCHANGED events PROVE IInv'
<1>1. events' \in 0 .. MaxEvents
  BY DEF IInv, TypeOK
<1>2. PICK s \in Handler : s = handlers[h]
  BY DEF IInv, HandlersOK
<1>3. s.step = "findPin"
  BY <1>2 DEF FindPin, At
<1>4. PICK t \in Handler : t = [s EXCEPT !.step = "insertPin"] /\ t.step = "insertPin" /\ t.pin = s.pin
  BY <1>3, GoesOn
<1>5. HeldBy(t)
  BY <1>2, <1>3, <1>4 DEF IInv, Held, HeldBy, Waits
<1>6. Reads(h, t) \/ Reads(h, Idle)
  BY <1>2, <1>4 DEF FindPin
<1> QED BY <1>1, <1>4, <1>5, <1>6, Reading, IdleReads
-----------------------------------------------------------------------------
(* Steps that write *)

LEMMA InsertRoomInv == ASSUME IInv, NEW h \in Slots, InsertRoom(h), UNCHANGED events PROVE IInv'
<1> USE DEF IInv
<1>1. PICK s \in Handler : s = handlers[h]
  BY DEF HandlersOK
<1>2. s.step = "insertRoom" /\ s.row.room \in Rooms
  BY <1>1, Fields DEF InsertRoom, At
<1>3. /\ UNCHANGED <<messages, lastMessage, reactions, lastReaction, pins, told, history>>
      /\ rooms' = rooms \cup {s.row.room}
  BY <1>1 DEF InsertRoom
<1>4. PICK t : Turns(h, t) /\ HeldBy(t)
  <2>1. PICK next \in Handler : next = [s EXCEPT !.step = "insertMessage"] /\ next.step = "insertMessage"
    BY <1>2, GoesOn
  <2>2. HeldBy(next)
    BY <2>1 DEF HeldBy, Waits
  <2>3. handlers' = [handlers EXCEPT ![h] = next] \/ handlers' = [handlers EXCEPT ![h] = Idle]
    BY <1>1, <2>1 DEF InsertRoom, Goes
  <2>4. Turns(h, next) \/ Turns(h, Idle)
    BY <2>1, <2>3, IdleHandler DEF Turns
  <2> QED BY <2>2, <2>4, IdleHandler
<1>5. KeepsMessages /\ Fresh' /\ ToldIsRead' /\ DeletedStaysDeleted' /\ Stored' = Stored
  BY <1>3, MessagesStay DEF told, history
<1>6. Kept /\ HandlersOK' /\ Held'
  BY <1>3, <1>4, <1>5, HandlerTurns DEF history
<1>7. TypeOK'
  BY <1>2, <1>3, <1>5 DEF TypeOK, told, history, crossings
<1>8. PinsPlaced'
  BY <1>3, <1>6, KeptProperties
<1> QED BY <1>5, <1>6, <1>7, <1>8

LEMMA InsertMessageInv ==
  ASSUME IInv, NEW h \in Slots, InsertMessage(h), UNCHANGED events
  PROVE  IInv'
<1> USE DEF IInv
<1>1. PICK s \in Handler : s = handlers[h]
  BY DEF HandlersOK
<1> DEFINE id  == lastMessage + 1
           row == [id |-> id, room |-> s.row.room, user |-> s.row.user, text |-> s.row.text,
                   reply |-> s.row.reply, is_read |-> FALSE]
<1>2. CASE ~CanSave(s.row, id)
  <2>1. events' \in 0 .. MaxEvents
    BY DEF TypeOK
  <2> QED BY <1>1, <1>2, <2>1, IdleReads DEF InsertMessage
<1>3. CASE CanSave(s.row, id)
  <2>1. /\ messages' = messages \cup {row} /\ lastMessage' = id
        /\ handlers' = [handlers EXCEPT ![h] = [step |-> "readSent", id |-> id]]
        /\ UNCHANGED <<rooms, reactions, lastReaction, pins, told, history>>
    BY <1>1, <1>3 DEF InsertMessage, Goes
  <2>2. id \in Ids /\ id \notin Sent /\ Sent' = Sent \cup {id}
    <3>1. lastMessage \in Nat /\ lastMessage < MaxMessages /\ MaxMessages \in Nat
      BY SentIds, Numbers DEF InsertMessage
    <3> QED BY <2>1, <3>1 DEF Ids, Sent
  <2>3. row \in Message /\ row.id = id /\ row.room \in rooms /\ row.reply \in {None, id} \cup Stored
    <3>1. /\ s.row.room \in Rooms /\ s.row.user \in Users
          /\ s.row.text \in Texts /\ s.row.reply \in {None} \cup Ids
      BY <1>1, Fields DEF InsertMessage, At
    <3> QED BY <1>3, <2>2, <3>1 DEF Message, CanSave
  <2> HIDE DEF row
  <2>4. Stored' = Stored \cup {id}
    BY <2>1, <2>3 DEF Stored
  <2>5. KeepsMessages
    <3>1. ASSUME NEW m \in messages', m.id \in Sent PROVE m \in messages
      BY <2>1, <2>2, <2>3, <3>1
    <3>2. \A m \in messages : IsRow(m.id, m.room)
      BY DEF IsRow
    <3> QED BY <2>1, <2>2, <3>1, <3>2 DEF KeepsMessages, history
  <2>6. Kept /\ HandlersOK' /\ Held'
    <3>1. PICK t : t = [step |-> "readSent", id |-> id]
      OBVIOUS
    <3>2. t \in Handler /\ t.step = "readSent" /\ t.id = id
      BY <2>2, <3>1 DEF Handler, Later
    <3>3. HeldBy(t)'
      BY <2>2, <3>2 DEF HeldBy, Waits
    <3>4. Turns(h, t)
      BY <2>1, <3>1, <3>2 DEF Turns
    <3>5. SavesOfOthers(h)
      BY <2>1, LostStays DEF SavesOfOthers, history
    <3> QED BY <2>5, <3>3, <3>4, <3>5, OneMoves
  <2>7. id \notin Stored
    BY <2>2 DEF Fresh
  <2>8. \A m, n \in messages' : m.id = n.id => m = n
    BY <2>1, <2>3, <2>7 DEF TypeOK, Stored
  <2>9. \A m \in messages' : m.room \in rooms' /\ m.reply \in {None} \cup Stored'
    BY <2>1, <2>3, <2>4 DEF TypeOK
  <2>10. (\A r \in reactions' : r.message \in Stored') /\ pins' \subseteq rooms' \X Stored'
    BY <2>1, <2>4 DEF TypeOK
  <2>11. messages' \subseteq Message /\ lastMessage' \in {None} \cup Ids
    BY <2>1, <2>2, <2>3 DEF TypeOK
  <2>12. TypeOK'
    BY <2>1, <2>8, <2>9, <2>10, <2>11 DEF TypeOK, told, history, crossings
  <2>13. Fresh'
    BY <2>1, <2>2, <2>4 DEF Fresh, told, history
  <2>14. PinsPlaced' /\ ToldIsRead'
    BY <2>1, <2>6, KeptProperties DEF told
  <2>15. DeletedStaysDeleted'
    BY <2>1, <2>2, <2>4 DEF DeletedStaysDeleted, Fresh, history
  <2> QED BY <2>6, <2>12, <2>13, <2>14, <2>15
<1> QED BY <1>2, <1>3

\* A step that only tells what its handler holds.
LEMMA TellingInv ==
  ASSUME IInv, NEW h \in Slots, handlers' = [handlers EXCEPT ![h] = Idle],
         UNCHANGED <<tables, events, shownRead, history>>,
         DOMAIN shown' \subseteq Ids, \A i \in DOMAIN shown' : shown'[i] \in Texts,
         shownReactions' \in [Ids -> SUBSET Users]
  PROVE  IInv'
<1> USE DEF IInv
<1>1. KeepsMessages /\ Fresh' /\ ToldIsRead' /\ DeletedStaysDeleted' /\ Stored' = Stored
  BY MessagesStay DEF tables, history
<1>2. Turns(h, Idle)
  BY IdleHandler DEF Turns
<1>3. Kept /\ HandlersOK' /\ Held'
  BY <1>1, <1>2, IdleHandler, HandlerTurns DEF tables, history
<1>4. TypeOK'
  BY <1>1 DEF TypeOK, tables, history, crossings
<1>5. PinsPlaced'
  BY <1>3, KeptProperties DEF tables
<1> QED BY <1>1, <1>3, <1>4, <1>5

LEMMA TellTextInv ==
  ASSUME IInv, NEW h \in Slots, TellSent(h) \/ TellEdited(h) \/ TellDeleted(h), UNCHANGED events
  PROVE  IInv'
<1>1. /\ handlers' = [handlers EXCEPT ![h] = Idle]
      /\ UNCHANGED <<tables, shownReactions, shownRead, history>>
  BY DEF TellSent, TellEdited, TellDeleted, Goes
<1>2. PICK s \in Handler : s = handlers[h]
  BY DEF IInv, HandlersOK
<1>3. DOMAIN shown' \subseteq Ids /\ \A i \in DOMAIN shown' : shown'[i] \in Texts
  <2>1. CASE TellSent(h) \/ TellEdited(h)
    <3>1. s.id \in Ids /\ s.text \in Texts
      BY <1>2, <2>1, Fields DEF TellSent, TellEdited, At
    <3>2. shown' = shown \/ shown' = [j \in DOMAIN shown \cup {s.id} |-> IF j = s.id THEN s.text ELSE shown[j]]
      BY <1>2, <2>1 DEF TellSent, TellEdited, Shows
    <3> QED BY <3>1, <3>2 DEF IInv, TypeOK
  <2>2. CASE TellDeleted(h)
    <3>1. shown' = [j \in DOMAIN shown \ {s.id} |-> shown[j]]
      BY <1>2, <2>2 DEF TellDeleted
    <3> QED BY <3>1 DEF IInv, TypeOK
  <2> QED BY <2>1, <2>2
<1>4. shownReactions' \in [Ids -> SUBSET Users]
  BY <1>1 DEF IInv, TypeOK
<1> QED BY <1>1, <1>3, <1>4, TellingInv

LEMMA TellReactionsInv ==
  ASSUME IInv, NEW h \in Slots, TellReactions(h), UNCHANGED events
  PROVE  IInv'
<1>1. handlers' = [handlers EXCEPT ![h] = Idle] /\ UNCHANGED <<tables, shown, shownRead, history>>
  BY DEF TellReactions, Goes
<1>2. PICK s \in Handler : s = handlers[h]
  BY DEF IInv, HandlersOK
<1>3. s.id \in Ids /\ s.users \in SUBSET Users
  BY <1>2, Fields DEF TellReactions, At
<1>4. shownReactions' = [shownReactions EXCEPT ![s.id] = s.users]
  BY <1>2 DEF TellReactions
<1>5. shownReactions' \in [Ids -> SUBSET Users]
  BY <1>3, <1>4 DEF IInv, TypeOK
<1> QED BY <1>1, <1>5, TellingInv DEF IInv, TypeOK

\* Reactions and pins.
LEMMA ReactInv ==
  ASSUME IInv, NEW h \in Slots, InsertReaction(h) \/ RemoveReaction(h), UNCHANGED events
  PROVE  IInv'
<1> USE DEF IInv
<1>1. PICK s \in Handler : s = handlers[h]
  BY DEF HandlersOK
<1>2. s.reaction \in Reaction /\ s.reaction.message \in Sent
  BY <1>1, Fields DEF InsertReaction, RemoveReaction, At, Held, HeldBy, Waits
<1>3. CASE Reads(h, Idle)
  <2>1. events' \in 0 .. MaxEvents
    BY DEF TypeOK
  <2> QED BY <1>3, <2>1, IdleReads
<1>4. ASSUME handlers' = [handlers EXCEPT ![h] = [step |-> "readReactions", id |-> s.reaction.message]],
             UNCHANGED <<rooms, messages, lastMessage, pins, told, lost, cleared, overwritten,
                         unseen, crossedTexts>>,
             reactions' \subseteq Reaction, \A r \in reactions' : r.message \in Stored,
             lastReaction' \in Nat, CrossesReactions(s.reaction.message)
      PROVE  IInv'
  <2>1. PICK t : t = [step |-> "readReactions", id |-> s.reaction.message]
    OBVIOUS
  <2>2. t \in Handler /\ HeldBy(t) /\ t.step = "readReactions"
    BY <1>2, <2>1, HoldsOne
  <2>3. Turns(h, t)
    BY <1>4, <2>1, <2>2 DEF Turns
  <2>4. KeepsMessages /\ Fresh' /\ ToldIsRead' /\ DeletedStaysDeleted' /\ Stored' = Stored
    BY <1>4, MessagesStay DEF told
  <2>5. Kept /\ HandlersOK' /\ Held'
    BY <1>4, <2>2, <2>3, <2>4, HandlerTurns
  <2>6. crossedReactions' \subseteq Ids
    BY <1>2, <1>4, SentIds DEF CrossesReactions, TypeOK
  <2>7. TypeOK'
    BY <1>4, <2>4, <2>6 DEF TypeOK, told
  <2>8. PinsPlaced'
    BY <1>4, <2>5, KeptProperties
  <2> QED BY <2>4, <2>5, <2>7, <2>8
<1>5. CASE InsertReaction(h)
  <2>1. CASE Reads(h, Idle)
    BY <1>3, <2>1
  <2>2. CASE ~Reads(h, Idle)
    <3>1. PICK new : new = [s.reaction EXCEPT !.id = lastReaction + 1]
      OBVIOUS
    <3>2. /\ s.reaction.message \in Stored
          /\ reactions' = reactions \cup {new} /\ lastReaction' = lastReaction + 1
          /\ CrossesReactions(s.reaction.message)
          /\ handlers' = [handlers EXCEPT ![h] = [step |-> "readReactions", id |-> s.reaction.message]]
          /\ UNCHANGED <<rooms, messages, lastMessage, pins, told, lost, cleared, overwritten,
                         unseen, crossedTexts>>
      BY <1>1, <1>5, <2>2, <3>1 DEF InsertReaction, Goes
    <3>3. new \in Reaction /\ new.message = s.reaction.message /\ lastReaction' \in Nat
      BY <1>2, <3>1, <3>2 DEF Reaction, TypeOK
    <3>4. reactions' \subseteq Reaction /\ \A r \in reactions' : r.message \in Stored
      BY <3>2, <3>3 DEF TypeOK
    <3> QED BY <1>4, <3>2, <3>3, <3>4
  <2> QED BY <2>1, <2>2
<1>6. CASE RemoveReaction(h)
  <2>1. /\ reactions' \subseteq reactions /\ lastReaction' = lastReaction
        /\ CrossesReactions(s.reaction.message)
        /\ handlers' = [handlers EXCEPT ![h] = [step |-> "readReactions", id |-> s.reaction.message]]
        /\ UNCHANGED <<rooms, messages, lastMessage, pins, told, lost, cleared, overwritten,
                       unseen, crossedTexts>>
    BY <1>1, <1>6 DEF RemoveReaction, Goes
  <2>2. reactions' \subseteq Reaction /\ (\A r \in reactions' : r.message \in Stored) /\ lastReaction' \in Nat
    BY <2>1 DEF TypeOK
  <2> QED BY <1>4, <2>1, <2>2
<1> QED BY <1>5, <1>6

LEMMA InsertPinInv == ASSUME IInv, NEW h \in Slots, InsertPin(h), UNCHANGED events PROVE IInv'
<1> USE DEF IInv
<1>1. PICK s \in Handler : s = handlers[h]
  BY DEF HandlersOK
<1>2. s.pin \in Rooms \X Ids /\ (s.pin[2] \in unseen \/ Placed(s.pin[2], s.pin[1]))
  BY <1>1, Fields DEF InsertPin, At, Held, HeldBy, Waits
<1>3. /\ UNCHANGED <<rooms, messages, lastMessage, reactions, lastReaction, told, history>>
      /\ handlers' = [handlers EXCEPT ![h] = Idle]
      /\ pins' = pins \/ (CanPin(s.pin) /\ pins' = pins \cup {s.pin})
  BY <1>1 DEF InsertPin, Goes
<1>4. KeepsMessages /\ Fresh' /\ ToldIsRead' /\ DeletedStaysDeleted' /\ Stored' = Stored
  BY <1>3, MessagesStay DEF told, history
<1>5. Turns(h, Idle)
  BY <1>3, IdleHandler DEF Turns
<1>6. Kept /\ HandlersOK' /\ Held'
  BY <1>3, <1>4, <1>5, IdleHandler, HandlerTurns DEF history
<1>7. pins' \subseteq rooms \X Stored
  BY <1>2, <1>3 DEF TypeOK, CanPin
<1>8. TypeOK'
  BY <1>3, <1>4, <1>7 DEF TypeOK, told, history, crossings
<1>9. \A p \in pins' : p[2] \in Sent /\ (p[2] \in unseen \/ Placed(p[2], p[1]))
  BY <1>2, <1>3, <1>7 DEF PinsPlaced, Fresh
<1>10. \A p \in pins' : p[2] \in unseen' \/ Placed(p[2], p[1])'
  BY <1>6, <1>9, PlacedStays DEF Kept, KeepsMessages
<1>11. PinsPlaced'
  BY <1>10 DEF PinsPlaced
<1> QED BY <1>4, <1>6, <1>8, <1>11

LEMMA DeletePinInv == ASSUME IInv, NEW h \in Slots, DeletePin(h), UNCHANGED events PROVE IInv'
<1> USE DEF IInv
<1>1. /\ UNCHANGED <<rooms, messages, lastMessage, reactions, lastReaction, told, history>>
      /\ handlers' = [handlers EXCEPT ![h] = Idle] /\ pins' \subseteq pins
  BY DEF DeletePin, Goes
<1>2. KeepsMessages /\ Fresh' /\ ToldIsRead' /\ DeletedStaysDeleted' /\ Stored' = Stored
  BY <1>1, MessagesStay DEF told, history
<1>3. Turns(h, Idle)
  BY <1>1, IdleHandler DEF Turns
<1>4. Kept /\ HandlersOK' /\ Held'
  BY <1>1, <1>2, <1>3, IdleHandler, HandlerTurns DEF history
<1>5. TypeOK'
  BY <1>1, <1>2 DEF TypeOK, told, history, crossings
<1>6. PinsPlaced'
  BY <1>1, <1>4, KeptProperties
<1> QED BY <1>2, <1>4, <1>5, <1>6

\* Messages that are marked as read keep everything else.
LEMMA SaveReadInv == ASSUME IInv, NEW h \in Slots, SaveRead(h), UNCHANGED events PROVE IInv'
<1> USE DEF IInv
<1>1. PICK s \in Handler : s = handlers[h]
  BY DEF HandlersOK
<1>2. s.step = "saveRead" /\ s.ids \subseteq Sent
  BY <1>1 DEF SaveRead, At, Held, HeldBy, Waits
<1>3. PICK t \in Handler : t = [s EXCEPT !.step = "tellRead"] /\ t.step = "tellRead" /\ t.ids = s.ids
  BY <1>2, GoesOn
<1>4. /\ messages' = {[m EXCEPT !.is_read = @ \/ m.id \in s.ids] : m \in messages}
      /\ UNCHANGED <<rooms, lastMessage, reactions, lastReaction, pins, told, history>>
      /\ handlers' = [handlers EXCEPT ![h] = t]
  BY <1>1, <1>3 DEF SaveRead, Goes
<1> DEFINE Marked(m) == [m EXCEPT !.is_read = @ \/ m.id \in s.ids]
<1>5. ASSUME NEW m \in messages
      PROVE  /\ Marked(m) \in Message /\ Marked(m).id = m.id /\ Marked(m).room = m.room
             /\ Marked(m).reply = m.reply /\ Marked(m).is_read = (m.is_read \/ m.id \in s.ids)
  BY DEF TypeOK, Message
<1>6. messages' = {Marked(m) : m \in messages}
  BY <1>4
<1> HIDE DEF Marked
<1>7. Stored' = Stored
  <2>1. \A i : i \in Stored => i \in Stored'
    BY <1>5, <1>6 DEF Stored
  <2>2. \A i : i \in Stored' => i \in Stored
    BY <1>5, <1>6 DEF Stored
  <2> QED BY <2>1, <2>2
<1>8. KeepsMessages
  <2>1. ASSUME NEW m \in messages
        PROVE  /\ IsRow(Marked(m).id, Marked(m).room)
               /\ \E n \in messages : n.id = Marked(m).id /\ (n.is_read => Marked(m).is_read)
    BY <1>5 DEF IsRow
  <2> QED BY <1>4, <1>6, <2>1 DEF KeepsMessages, Sent, history
<1>9. Kept /\ HandlersOK' /\ Held'
  <2>1. \A m \in messages' : m.id \in s.ids => m.is_read
    <3>1. ASSUME NEW m \in messages, Marked(m).id \in s.ids PROVE Marked(m).is_read
      BY <1>5, <3>1
    <3> QED BY <1>6, <3>1
  <2>2. HeldBy(t)'
    BY <1>2, <1>3, <1>4, <2>1 DEF HeldBy, Waits, Sent
  <2>3. Turns(h, t)
    BY <1>3, <1>4 DEF Turns
  <2>4. SavesOfOthers(h)
    BY <1>4, LostStays DEF SavesOfOthers, history
  <2> QED BY <1>8, <2>2, <2>3, <2>4, OneMoves
<1>10. TypeOK'
  <2>1. messages' \subseteq Message
    BY <1>5, <1>6
  <2>2. \A r, q \in messages' : r.id = q.id => r = q
    BY <1>5, <1>6 DEF TypeOK
  <2>3. \A r \in messages' : r.room \in rooms' /\ r.reply \in {None} \cup Stored'
    BY <1>4, <1>5, <1>6, <1>7 DEF TypeOK
  <2> QED BY <2>1, <2>2, <2>3, <1>4, <1>7 DEF TypeOK, told, history, crossings
<1>11. Fresh'
  BY <1>4, <1>7 DEF Fresh, Sent, told, history
<1>12. PinsPlaced' /\ ToldIsRead'
  BY <1>4, <1>9, KeptProperties DEF told
<1>13. DeletedStaysDeleted'
  BY <1>4, <1>7 DEF DeletedStaysDeleted, history
<1> QED BY <1>9, <1>10, <1>11, <1>12, <1>13

LEMMA TellReadInv == ASSUME IInv, NEW h \in Slots, TellRead(h), UNCHANGED events PROVE IInv'
<1> USE DEF IInv
<1>1. PICK ids : ids = handlers[h].ids
  OBVIOUS
<1>2. ids \subseteq Sent /\ \A m \in messages : m.id \in ids \ overwritten => m.is_read
  BY <1>1 DEF TellRead, At, Held, HeldBy, Waits
<1>3. /\ shownRead' = shownRead \cup ids /\ handlers' = [handlers EXCEPT ![h] = Idle]
      /\ UNCHANGED <<tables, shown, shownReactions, history>>
  BY <1>1 DEF TellRead, Goes
<1>4. KeepsMessages
  BY <1>3 DEF KeepsMessages, IsRow, tables, history, Sent
<1>5. Turns(h, Idle)
  BY <1>3, IdleHandler DEF Turns
<1>6. Kept /\ HandlersOK' /\ Held'
  BY <1>3, <1>4, <1>5, IdleHandler, HandlerTurns DEF tables, history
<1>7. TypeOK'
  BY <1>2, <1>3, SentIds DEF TypeOK, Stored, tables, history, crossings
<1>8. Fresh' /\ ToldIsRead' /\ DeletedStaysDeleted'
  BY <1>2, <1>3 DEF Fresh, ToldIsRead, DeletedStaysDeleted, Stored, Sent, tables, history
<1>9. PinsPlaced'
  BY <1>3, <1>6, KeptProperties DEF tables
<1> QED BY <1>6, <1>7, <1>8, <1>9

\* A message that is saved again was not lost, and if it was there unchanged it is still
\* as it was read.
LEMMA SaveEditInv == ASSUME IInv, NEW h \in Slots, SaveEdit(h), UNCHANGED events PROVE IInv'
<1> USE DEF IInv
<1>1. PICK row \in Message : row = handlers[h].row
  BY Fields DEF SaveEdit, At, HandlersOK
<1>2. row.id \in Sent \ lost /\ IsRow(row.id, row.room)
  BY <1>1 DEF SaveEdit, At, Held, HeldBy, Waits, IsRow
<1>3. CASE ~CanSave(row, row.id)
  <2>1. events' \in 0 .. MaxEvents
    BY DEF TypeOK
  <2> QED BY <1>1, <1>3, <2>1, IdleReads DEF SaveEdit
<1>4. CASE CanSave(row, row.id)
  <2>1. /\ messages' = {m \in messages : m.id # row.id} \cup {row}
        /\ overwritten' = IF row.id \in Stored /\ Row(row.id).is_read = row.is_read
                          THEN overwritten ELSE overwritten \cup {row.id}
        /\ CrossesText(row.id, {"tellSent", "tellEdited"})
        /\ handlers' = [handlers EXCEPT ![h] = [step |-> "readEdited", row |-> row]]
        /\ UNCHANGED <<rooms, lastMessage, reactions, lastReaction, pins, told, lost, cleared,
                       unseen, crossedReactions>>
    BY <1>1, <1>4 DEF SaveEdit, Goes
  <2>2. Stored' = Stored \cup {row.id}
    <3>1. \A i : i \in Stored' <=> i \in Stored \cup {row.id}
      BY <2>1 DEF Stored
    <3> QED BY <3>1
  <2>3. /\ row.id \notin overwritten' => /\ row.id \in Stored /\ Row(row.id).is_read = row.is_read
                                         /\ row.id \notin overwritten
        /\ overwritten \subseteq overwritten' /\ overwritten' \subseteq overwritten \cup {row.id}
    BY <2>1
  <2>4. KeepsMessages
    <3>1. ASSUME NEW m \in messages' PROVE IsRow(m.id, m.room)
      BY <1>2, <2>1 DEF IsRow
    <3>2. ASSUME NEW m \in messages', m.id \notin overwritten'
          PROVE  \E n \in messages : n.id = m.id /\ (n.is_read => m.is_read)
      <4>1. CASE m = row
        <5>1. Row(row.id) \in messages /\ Row(row.id).id = row.id
          BY <2>3, <3>2, <4>1, RowOf
        <5>2. Row(row.id).is_read = row.is_read
          BY <2>3, <3>2, <4>1
        <5> QED BY <4>1, <5>1, <5>2
      <4>2. CASE m # row
        BY <2>1, <4>2
      <4> QED BY <4>1, <4>2
    <3> QED BY <2>1, <2>3, <3>1, <3>2 DEF KeepsMessages, Sent
  <2>5. Kept /\ HandlersOK' /\ Held'
    <3>1. PICK t : t = [step |-> "readEdited", row |-> row]
      OBVIOUS
    <3>2. t \in Handler /\ t.step = "readEdited" /\ t.row = row
      BY <3>1 DEF Handler, Later
    <3>3. HeldBy(t)'
      BY <1>2, <2>1, <3>2 DEF HeldBy, Waits, Sent
    <3>4. Turns(h, t)
      BY <2>1, <3>1, <3>2 DEF Turns
    <3>5. SavesOfOthers(h)
      BY <2>1, LostStays DEF SavesOfOthers
    <3> QED BY <2>4, <3>3, <3>4, <3>5, OneMoves
  <2>6. TypeOK'
    <3>1. messages' \subseteq Message
      BY <2>1 DEF TypeOK
    <3>2. \A m, n \in messages' : m.id = n.id => m = n
      BY <2>1 DEF TypeOK
    <3>3. \A m \in messages' : m.room \in rooms' /\ m.reply \in {None} \cup Stored'
      BY <1>4, <2>1, <2>2 DEF TypeOK, CanSave
    <3>4. (\A r \in reactions' : r.message \in Stored') /\ pins' \subseteq rooms' \X Stored'
      BY <2>1, <2>2 DEF TypeOK
    <3>5. overwritten' \subseteq Ids /\ crossedTexts' \subseteq Ids
      BY <1>2, <2>1, <2>3, SentIds DEF TypeOK, CrossesText
    <3> QED BY <2>1, <3>1, <3>2, <3>3, <3>4, <3>5 DEF TypeOK, told
  <2>7. Fresh'
    BY <1>2, <2>1, <2>2 DEF Fresh, Sent, told
  <2>8. PinsPlaced' /\ ToldIsRead'
    BY <2>1, <2>5, KeptProperties DEF told
  <2>9. DeletedStaysDeleted'
    BY <1>2, <2>1, <2>2 DEF DeletedStaysDeleted
  <2> QED BY <2>5, <2>6, <2>7, <2>8, <2>9
<1> QED BY <1>3, <1>4
-----------------------------------------------------------------------------
(* Deletions *)

\* What every deletion of messages does: those that stay are as they were, but for replies
\* to those that go; with these go their reactions and pins.
LEMMA Deleting ==
  ASSUME IInv, NEW S,
         messages' = {[m EXCEPT !.reply = IF @ \in S THEN None ELSE @]
                      : m \in {x \in messages : x.id \notin S}},
         reactions' = {r \in reactions : r.message \notin S},
         \A p \in pins' : p \in pins /\ p[2] \notin S /\ p[1] \in rooms',
         Loses(S), rooms' \subseteq Rooms,
         \A m \in messages : m.id \notin S => m.room \in rooms',
         cleared' \subseteq Ids, crossedTexts' \subseteq Ids, events' \in 0 .. MaxEvents,
         UNCHANGED <<lastMessage, lastReaction, told, overwritten, unseen, crossedReactions>>
  PROVE  KeepsMessages /\ TypeOK' /\ Fresh' /\ DeletedStaysDeleted' /\ pins' \subseteq pins
<1> USE DEF IInv
<1> DEFINE Cut(m) == [m EXCEPT !.reply = IF @ \in S THEN None ELSE @]
<1>1. ASSUME NEW m \in messages
      PROVE  /\ Cut(m) \in Message /\ Cut(m).id = m.id /\ Cut(m).room = m.room
             /\ Cut(m).reply = (IF m.reply \in S THEN None ELSE m.reply)
             /\ Cut(m).is_read = m.is_read
  BY DEF TypeOK, Message
<1>2. messages' = {Cut(m) : m \in {x \in messages : x.id \notin S}}
  OBVIOUS
<1> HIDE DEF Cut
<1>3. Stored' = Stored \ S
  <2>1. \A i : i \in Stored \ S => i \in Stored'
    BY <1>1, <1>2 DEF Stored
  <2>2. \A i : i \in Stored' => i \in Stored \ S
    BY <1>1, <1>2 DEF Stored
  <2> QED BY <2>1, <2>2
<1>4. KeepsMessages
  <2>1. ASSUME NEW m \in messages
        PROVE  /\ IsRow(Cut(m).id, Cut(m).room)
               /\ \E n \in messages : n.id = Cut(m).id /\ (n.is_read => Cut(m).is_read)
    BY <1>1 DEF IsRow
  <2> QED BY <1>2, <2>1 DEF KeepsMessages, Sent
<1>5. lost' \subseteq lost \cup (S \cap Stored)
  BY DEF Loses
<1>6. TypeOK'
  <2>1. messages' \subseteq Message
    BY <1>1, <1>2
  <2>2. \A m, n \in messages' : m.id = n.id => m = n
    BY <1>1, <1>2 DEF TypeOK
  <2>3. \A m \in messages' : m.room \in rooms' /\ m.reply \in {None} \cup Stored'
    <3>1. ASSUME NEW m \in messages, m.id \notin S
          PROVE  Cut(m).room \in rooms' /\ Cut(m).reply \in {None} \cup (Stored \ S)
      BY <1>1, <3>1 DEF TypeOK
    <3> QED BY <1>2, <1>3, <3>1
  <2>4. reactions' \subseteq Reaction /\ \A r \in reactions' : r.message \in Stored'
    BY <1>3 DEF TypeOK
  <2>5. pins' \subseteq rooms' \X Stored'
    BY <1>3 DEF TypeOK
  <2>6. lost' \subseteq Ids
    BY <1>5, SentIds DEF TypeOK, Fresh
  <2> QED BY <2>1, <2>2, <2>3, <2>4, <2>5, <2>6 DEF TypeOK, told
<1>7. Fresh'
  BY <1>3, <1>5 DEF Fresh, Sent, told
<1>8. DeletedStaysDeleted'
  BY <1>3, <1>5 DEF DeletedStaysDeleted
<1> QED BY <1>4, <1>6, <1>7, <1>8

LEMMA DeleteInv == ASSUME IInv, NEW h \in Slots, Delete(h), UNCHANGED events PROVE IInv'
<1> USE DEF IInv
<1>1. PICK i : i = handlers[h].id
  OBVIOUS
<1>2. i \in Sent
  BY <1>1 DEF Delete, At, Held, HeldBy, Waits
<1>3. /\ DeleteRows({i}) /\ Loses({i}) /\ CrossesText(i, {"tellSent"})
      /\ handlers' = [handlers EXCEPT ![h] = [step |-> "tellDeleted", id |-> i]]
      /\ UNCHANGED <<rooms, lastMessage, lastReaction, told, cleared, overwritten, unseen, crossedReactions>>
  BY <1>1 DEF Delete, Goes
<1>4. \A p \in pins' : p \in pins /\ p[2] \notin {i} /\ p[1] \in rooms'
  BY <1>3 DEF DeleteRows, TypeOK
<1>5. rooms' \subseteq Rooms /\ cleared' \subseteq Ids /\ events' \in 0 .. MaxEvents
      /\ \A m \in messages : m.room \in rooms'
  BY <1>3 DEF TypeOK
<1>6. crossedTexts' \subseteq Ids
  BY <1>2, <1>3, SentIds DEF CrossesText, TypeOK
<1>7. KeepsMessages /\ TypeOK' /\ Fresh' /\ DeletedStaysDeleted' /\ pins' \subseteq pins
  BY <1>3, <1>4, <1>5, <1>6, Deleting DEF DeleteRows
<1>8. Kept /\ HandlersOK' /\ Held'
  <2>1. PICK t : t = [step |-> "tellDeleted", id |-> i]
    OBVIOUS
  <2>2. t \in Handler /\ HeldBy(t) /\ t.step = "tellDeleted"
    BY <1>2, <2>1, HoldsOne
  <2>3. Turns(h, t)
    BY <1>3, <2>1, <2>2 DEF Turns
  <2>4. SavesOfOthers(h)
    BY <1>3, LosesNoSave DEF SavesOfOthers
  <2>5. Kept => HeldBy(t)'
    BY <2>2, HeldStays
  <2> QED BY <1>7, <2>3, <2>4, <2>5, OneMoves
<1>9. PinsPlaced' /\ ToldIsRead'
  BY <1>3, <1>7, <1>8, KeptProperties DEF told
<1> QED BY <1>7, <1>8, <1>9

LEMMA ClearRoomInv == ASSUME IInv, NEW room \in Rooms, ClearRoom(room) PROVE IInv'
<1> USE DEF IInv
<1>1. /\ DeleteRows(In(room)) /\ Loses(In(room)) /\ cleared' = cleared \cup In(room)
      /\ UNCHANGED <<rooms, lastMessage, lastReaction, handlers, told, overwritten, unseen, crossings>>
  BY DEF ClearRoom, Clears
<1>2. In(room) \subseteq Ids
  BY DEF In, TypeOK, Message
<1>3. \A p \in pins' : p \in pins /\ p[2] \notin In(room) /\ p[1] \in rooms'
  BY <1>1 DEF DeleteRows, TypeOK
<1>4. rooms' \subseteq Rooms /\ cleared' \subseteq Ids /\ \A m \in messages : m.room \in rooms'
  BY <1>1, <1>2 DEF TypeOK
<1>5. events' \in 0 .. MaxEvents
  BY ArrivesCounts DEF ClearRoom, Clears
<1>6. crossedTexts' \subseteq Ids
  BY <1>1 DEF TypeOK, crossings
<1>7. KeepsMessages /\ TypeOK' /\ Fresh' /\ DeletedStaysDeleted' /\ pins' \subseteq pins
  BY <1>1, <1>3, <1>4, <1>5, <1>6, Deleting DEF DeleteRows, crossings
<1>8. Kept /\ HandlersOK' /\ Held'
  BY <1>1, <1>7, LosesNoSave, NoneMoves
<1>9. PinsPlaced' /\ ToldIsRead'
  BY <1>1, <1>7, <1>8, KeptProperties DEF told
<1> QED BY <1>7, <1>8, <1>9

LEMMA DeleteRoomInv == ASSUME IInv, NEW room \in Rooms, DeleteRoom(room) PROVE IInv'
<1> USE DEF IInv
<1>1. /\ rooms' = rooms \ {room}
      /\ reactions' = {r \in reactions : r.message \notin In(room)}
      /\ pins' = {p \in pins : p[2] \notin In(room) /\ p[1] # room}
      /\ Loses(In(room)) /\ cleared' = cleared \cup In(room)
      /\ UNCHANGED <<lastMessage, lastReaction, handlers, told, overwritten, unseen, crossings>>
  BY DEF DeleteRoom
<1>2. \A m \in messages : m.id \in In(room) <=> m.room = room
  BY DEF In, TypeOK
<1>3. messages' = {[m EXCEPT !.reply = IF @ \in In(room) THEN None ELSE @]
                   : m \in {x \in messages : x.id \notin In(room)}}
  <2>1. {x \in messages : x.room # room} = {x \in messages : x.id \notin In(room)}
    BY <1>2
  <2> QED BY <2>1 DEF DeleteRoom
<1>4. \A p \in pins' : p \in pins /\ p[2] \notin In(room) /\ p[1] \in rooms'
  BY <1>1 DEF TypeOK
<1>5. rooms' \subseteq Rooms /\ \A m \in messages : m.id \notin In(room) => m.room \in rooms'
  BY <1>1, <1>2 DEF TypeOK
<1>6. cleared' \subseteq Ids /\ crossedTexts' \subseteq Ids
  BY <1>1 DEF In, TypeOK, Message, crossings
<1>7. events' \in 0 .. MaxEvents
  BY ArrivesCounts DEF DeleteRoom
<1>8. KeepsMessages /\ TypeOK' /\ Fresh' /\ DeletedStaysDeleted' /\ pins' \subseteq pins
  BY <1>1, <1>3, <1>4, <1>5, <1>6, <1>7, Deleting DEF crossings
<1>9. Kept /\ HandlersOK' /\ Held'
  BY <1>1, <1>8, LosesNoSave, NoneMoves
<1>10. PinsPlaced' /\ ToldIsRead'
  BY <1>1, <1>8, <1>9, KeptProperties DEF told
<1> QED BY <1>8, <1>9, <1>10

LEMMA CreateRoomInv == ASSUME IInv, NEW room \in Rooms, CreateRoom(room) PROVE IInv'
<1> USE DEF IInv
<1>1. /\ rooms' = rooms \cup {room}
      /\ UNCHANGED <<messages, lastMessage, reactions, lastReaction, pins, handlers, told, history>>
  BY DEF CreateRoom
<1>2. KeepsMessages /\ Fresh' /\ ToldIsRead' /\ DeletedStaysDeleted' /\ Stored' = Stored
  BY <1>1, MessagesStay DEF told, history
<1>3. Kept /\ HandlersOK' /\ Held'
  BY <1>1, <1>2, LostStays, NoneMoves DEF history
<1>4. events' \in 0 .. MaxEvents
  BY ArrivesCounts DEF CreateRoom
<1>5. TypeOK'
  BY <1>1, <1>2, <1>4 DEF TypeOK, told, history, crossings
<1>6. PinsPlaced'
  BY <1>1, <1>3, KeptProperties
<1> QED BY <1>2, <1>3, <1>5, <1>6
-----------------------------------------------------------------------------
(* The initial states, and every step *)

LEMMA InitInv == Init => IInv
<1> SUFFICES ASSUME Init PROVE IInv
  OBVIOUS
<1>1. Stored = {} /\ Sent \subseteq Ids
  <2>1. Sent = {}
    BY DEF Init, Sent, None
  <2> QED BY <2>1 DEF Init, Stored
<1>2. TypeOK
  BY <1>1, ChatAssumption DEF Init, TypeOK, None
<1>3. HandlersOK /\ Held
  BY DEF Init, HandlersOK, Held, HeldBy, Waits, Idle, Handler
<1>4. Fresh /\ PinsPlaced /\ ToldIsRead /\ DeletedStaysDeleted
  BY <1>1 DEF Init, Fresh, PinsPlaced, ToldIsRead, DeletedStaysDeleted
<1> QED BY <1>2, <1>3, <1>4 DEF IInv

LEMMA EventInv == ASSUME IInv, NEW h \in Slots, Event(h) PROVE IInv'
<1>1. PICK u \in Users :
        \/ \E room \in Rooms, text \in Texts, reply \in {None} \cup Ids :
             BeginSend(h, u, room, text, reply)
        \/ \E room \in Rooms : BeginMarkRead(h, u, room)
        \/ \E i \in Ids : BeginDelete(h, u, i) \/ BeginReact(h, u, i)
        \/ \E i \in Ids, text \in Texts : BeginEdit(h, u, i, text)
        \/ \E i \in Ids, given \in {None} \cup Rooms :
             BeginPin(h, u, i, given) \/ BeginUnpin(h, u, i, given)
  BY DEF Event
<1> QED BY <1>1, BeginSendInv, BeginMarkReadInv, BeginOneInv, BeginPinInv

LEMMA StatementInv ==
  ASSUME IInv, NEW h \in Slots, Statement(h), UNCHANGED events
  PROVE  IInv'
<1>1. CASE FindRoom(h) \/ InsertRoom(h) \/ InsertMessage(h) \/ ReadSent(h)
  BY <1>1, FindRoomInv, InsertRoomInv, InsertMessageInv, ReadSentInv
<1>2. CASE FindToDelete(h) \/ Delete(h) \/ FindToEdit(h) \/ SaveEdit(h) \/ ReadEdited(h)
  BY <1>2, FindToDeleteInv, DeleteInv, FindToEditInv, SaveEditInv, ReadEditedInv
<1>3. CASE FindUnread(h) \/ SaveRead(h) \/ TellRead(h)
  BY <1>3, FindUnreadInv, SaveReadInv, TellReadInv
<1>4. CASE FindReaction(h) \/ InsertReaction(h) \/ RemoveReaction(h) \/ ReadReactions(h) \/ TellReactions(h)
  BY <1>4, FindReactionInv, ReactInv, ReadReactionsInv, TellReactionsInv
<1>5. CASE FindPin(h) \/ InsertPin(h) \/ DeletePin(h)
  BY <1>5, FindPinInv, InsertPinInv, DeletePinInv
<1>6. CASE TellSent(h) \/ TellEdited(h) \/ TellDeleted(h)
  BY <1>6, TellTextInv
<1> QED BY <1>1, <1>2, <1>3, <1>4, <1>5, <1>6, CheckAccessInv DEF Statement

LEMMA NextInv == IInv /\ [Next]_vars => IInv'
<1> SUFFICES ASSUME IInv, [Next]_vars PROVE IInv'
  OBVIOUS
<1>1. CASE UNCHANGED vars
  <2>1. KeepsMessages /\ Fresh' /\ ToldIsRead' /\ DeletedStaysDeleted' /\ Stored' = Stored
    BY <1>1, MessagesStay DEF vars, tables, told, history
  <2>2. Kept /\ HandlersOK' /\ Held'
    BY <1>1, <2>1, LostStays, NoneMoves DEF IInv, vars, history
  <2>3. TypeOK'
    BY <1>1, <2>1 DEF IInv, TypeOK, vars, tables, told, history, crossings
  <2>4. PinsPlaced'
    BY <1>1, <2>2, KeptProperties DEF vars, tables
  <2> QED BY <2>1, <2>2, <2>3, <2>4 DEF IInv
<1>2. ASSUME NEW h \in Slots, Event(h) PROVE IInv'
  BY <1>2, EventInv
<1>3. ASSUME NEW h \in Slots, Statement(h), UNCHANGED events PROVE IInv'
  BY <1>3, StatementInv
<1>4. ASSUME NEW room \in Rooms, CreateRoom(room) \/ ClearRoom(room) \/ DeleteRoom(room)
      PROVE  IInv'
  BY <1>4, CreateRoomInv, ClearRoomInv, DeleteRoomInv
<1> QED BY <1>1, <1>2, <1>3, <1>4 DEF Next
-----------------------------------------------------------------------------
(* What clients are told *)

\* The message that a handler is about to tell of.
Of(s) == IF s.step = "readEdited" THEN s.row.id ELSE s.id

Under(i, steps) == \E g \in Slots : handlers[g].step \in steps /\ Of(handlers[g]) = i

Senders == {"readSent", "tellSent"}
Tellers == {"readSent", "tellSent", "readEdited", "tellEdited"}
Deleters == {"tellDeleted"}
Reacters == {"readReactions", "tellReactions"}

ShowsRow(m) == m.id \in DOMAIN shown /\ shown[m.id] = m.text

\* Clients show a message as it is stored, or are about to be told of it.
MessagesDue ==
  \A m \in messages :
    m.id \notin cleared \cup overwritten =>
      /\ m.id \in DOMAIN shown \/ Under(m.id, Senders)
      /\ m.id \in crossedTexts \/ ShowsRow(m) \/ Under(m.id, Tellers)

NothingElseShown ==
  \A i \in DOMAIN shown :
    i \in Stored \cup cleared \cup overwritten \cup crossedTexts \/ Under(i, Deleters)

ReactionsDue ==
  \A i \in Stored \ (overwritten \cup crossedReactions) :
    shownReactions[i] = ReactionsOf(i) \/ Under(i, Reacters)

NobodyReacted == \A i \in Ids \ Sent : shownReactions[i] = {}

\* What a handler is about to tell is so, unless it was crossed.
Says(s) ==
  /\ s.step \in {"tellSent", "tellEdited"} =>
       \A m \in messages : m.id = s.id => m.text = s.text \/ m.id \in cleared \cup overwritten \cup crossedTexts
  /\ s.step = "tellSent" => s.id \in Stored \cup cleared \cup overwritten \cup crossedTexts
  /\ s.step = "tellDeleted" => s.id \notin Stored \/ s.id \in cleared \cup overwritten
  /\ s.step = "tellReactions" /\ s.id \in Stored =>
       s.users = ReactionsOf(s.id) \/ s.id \in overwritten \cup crossedReactions

AllSay == \A g \in Slots : Says(handlers[g])

Announced == MessagesDue /\ NothingElseShown /\ ReactionsDue /\ NobodyReacted /\ AllSay

\* A step that changes no text, no reaction and nothing that is shown, of the messages that
\* are left.
TellsNothing ==
  /\ \A m \in messages' : \E n \in messages : n.id = m.id /\ n.text = m.text
  /\ Stored \ Stored' \subseteq cleared'
  /\ \A i \in Stored' : ReactionsOf(i)' = ReactionsOf(i)
  /\ UNCHANGED <<lastMessage, shown, shownReactions, overwritten, crossings>> /\ cleared \subseteq cleared'

TellersStay ==
  /\ \A i \in Stored' : \A steps \in {Senders, Tellers, Reacters} : Under(i, steps) => Under(i, steps)'
  /\ \A i : Under(i, Deleters) => Under(i, Deleters)'

LEMMA SaysOn == ASSUME TellsNothing PROVE \A s : Says(s) => Says(s)'
<1> SUFFICES ASSUME NEW s, Says(s) PROVE Says(s)'
  OBVIOUS
<1>1. Stored' \subseteq Stored
  BY DEF TellsNothing, Stored
<1>2. UNCHANGED <<crossedTexts, crossedReactions, overwritten>> /\ cleared \subseteq cleared'
  BY DEF TellsNothing, crossings
<1>3. ASSUME s.step \in {"tellSent", "tellEdited"}, NEW m \in messages', m.id = s.id
      PROVE  m.text = s.text \/ m.id \in cleared' \cup overwritten' \cup crossedTexts'
  <2>1. PICK n \in messages : n.id = m.id /\ n.text = m.text
    BY DEF TellsNothing
  <2> QED BY <1>2, <1>3, <2>1 DEF Says
<1>4. s.step = "tellSent" => s.id \in Stored' \cup cleared' \cup overwritten' \cup crossedTexts'
  BY <1>2 DEF Says, TellsNothing
<1>5. s.step = "tellDeleted" => s.id \notin Stored' \/ s.id \in cleared' \cup overwritten'
  BY <1>1, <1>2 DEF Says
<1>6. s.step = "tellReactions" /\ s.id \in Stored' =>
        s.users = ReactionsOf(s.id)' \/ s.id \in overwritten' \cup crossedReactions'
  <2>1. ASSUME s.id \in Stored' PROVE ReactionsOf(s.id)' = ReactionsOf(s.id)
    BY <2>1 DEF TellsNothing
  <2> QED BY <1>1, <1>2, <2>1 DEF Says
<1> QED BY <1>3, <1>4, <1>5, <1>6 DEF Says

\* Other handlers are still about to tell what they were about to tell.
LEMMA OthersTell ==
  ASSUME HandlersOK, NEW h \in Slots, NEW t, handlers' = [handlers EXCEPT ![h] = t]
  PROVE  /\ \A i, steps : \/ ~Under(i, steps) \/ Under(i, steps)'
                          \/ handlers[h].step \in steps /\ Of(handlers[h]) = i
         /\ \A steps : t.step \in steps => Under(Of(t), steps)'
<1>1. handlers'[h] = t /\ \A g \in Slots \ {h} : handlers'[g] = handlers[g]
  BY Others
<1>2. ASSUME NEW i, NEW steps, NEW g \in Slots, handlers[g].step \in steps, Of(handlers[g]) = i
      PROVE  Under(i, steps)' \/ (handlers[h].step \in steps /\ Of(handlers[h]) = i)
  <2>1. CASE g = h
    BY <1>2, <2>1
  <2>2. CASE g # h
    <3>1. handlers'[g] = handlers[g]
      BY <1>1, <2>2
    <3>2. Of(handlers[g])' = i /\ handlers'[g].step \in steps
      BY <1>2, <3>1 DEF Of
    <3> QED BY <3>2 DEF Under
  <2> QED BY <2>1, <2>2
<1>3. ASSUME NEW steps, t.step \in steps PROVE Under(Of(t), steps)'
  <2>1. handlers'[h].step \in steps /\ Of(handlers[h])' = Of(t)
    BY <1>1, <1>3 DEF Of
  <2> QED BY <2>1 DEF Under
<1> QED BY <1>2, <1>3 DEF Under

\* What the others say, and what the handler says now.
LEMMA EachSays ==
  ASSUME HandlersOK, NEW h \in Slots, NEW t, handlers' = [handlers EXCEPT ![h] = t], Says(t)',
         \A g \in Slots \ {h} : \A s : s = handlers[g] => Says(s)'
  PROVE  AllSay'
<1>1. handlers'[h] = t /\ \A g \in Slots \ {h} : handlers'[g] = handlers[g]
  BY Others
<1>2. ASSUME NEW g \in Slots PROVE Says(handlers[g])'
  <2>1. PICK s : s = handlers'[g]
    OBVIOUS
  <2>2. Says(s)'
    BY <1>1, <2>1
  <2> QED BY <2>1, <2>2
<1> QED BY <1>2 DEF AllSay

LEMMA NothingNewToTell ==
  ASSUME Announced, TellsNothing, TellersStay, AllSay'
  PROVE  Announced'
<1>1. Stored' \subseteq Stored
  BY DEF TellsNothing, Stored
<1>2. UNCHANGED <<crossedTexts, crossedReactions, overwritten, shown, shownReactions>> /\ cleared \subseteq cleared'
  BY DEF TellsNothing, crossings
<1>3. MessagesDue'
  <2>1. ASSUME NEW m \in messages', m.id \notin cleared' \cup overwritten'
        PROVE  /\ m.id \in DOMAIN shown' \/ Under(m.id, Senders)'
               /\ m.id \in crossedTexts' \/ ShowsRow(m)' \/ Under(m.id, Tellers)'
    <3>1. PICK n \in messages : n.id = m.id /\ n.text = m.text
      BY DEF TellsNothing
    <3>2. /\ n.id \in DOMAIN shown \/ Under(n.id, Senders)
          /\ n.id \in crossedTexts \/ ShowsRow(n) \/ Under(n.id, Tellers)
      BY <1>2, <2>1, <3>1 DEF Announced, MessagesDue
    <3>3. m.id \in Stored'
      BY DEF Stored
    <3>4. ShowsRow(n) => ShowsRow(m)'
      BY <1>2, <3>1 DEF ShowsRow
    <3>5. (Under(m.id, Senders) => Under(m.id, Senders)') /\ (Under(m.id, Tellers) => Under(m.id, Tellers)')
      BY <3>3 DEF TellersStay
    <3> QED BY <1>2, <3>1, <3>2, <3>4, <3>5
  <2>2. ASSUME NEW m \in messages' PROVE ShowsRow(m)' = (m.id \in DOMAIN shown' /\ shown'[m.id] = m.text)
    BY DEF ShowsRow
  <2> QED BY <2>1, <2>2 DEF MessagesDue, ShowsRow
<1>4. NothingElseShown'
  <2>1. ASSUME NEW i \in DOMAIN shown
        PROVE  i \in Stored' \cup cleared' \cup overwritten' \cup crossedTexts' \/ Under(i, Deleters)'
    <3>1. i \in Stored \cup cleared \cup overwritten \cup crossedTexts \/ Under(i, Deleters)
      BY DEF Announced, NothingElseShown
    <3>2. Under(i, Deleters) => Under(i, Deleters)'
      BY DEF TellersStay
    <3> QED BY <1>2, <3>1, <3>2 DEF TellsNothing
  <2> QED BY <1>2, <2>1 DEF NothingElseShown
<1>5. ReactionsDue'
  <2>1. ASSUME NEW i \in Stored', i \notin overwritten' \cup crossedReactions'
        PROVE  shownReactions'[i] = ReactionsOf(i)' \/ Under(i, Reacters)'
    <3>1. shownReactions[i] = ReactionsOf(i) \/ Under(i, Reacters)
      BY <1>1, <1>2, <2>1 DEF Announced, ReactionsDue
    <3>2. Under(i, Reacters) => Under(i, Reacters)'
      BY DEF TellersStay
    <3>3. ReactionsOf(i)' = ReactionsOf(i)
      BY DEF TellsNothing
    <3> QED BY <1>2, <3>1, <3>2, <3>3
  <2> QED BY <2>1 DEF ReactionsDue
<1>6. NobodyReacted'
  BY DEF Announced, NobodyReacted, TellsNothing, Sent
<1> QED BY <1>3, <1>4, <1>5, <1>6 DEF Announced

\* A handler moves on, and is still about to tell what it was, if the message is there.
LEMMA Untold ==
  ASSUME IInv, Announced, TellsNothing, NEW h \in Slots, NEW t,
         handlers' = [handlers EXCEPT ![h] = t], Says(t)', handlers[h].step \notin Deleters,
         \A steps \in {Senders, Tellers, Reacters} :
           handlers[h].step \in steps /\ Of(handlers[h]) \in Stored' =>
             t.step \in steps /\ Of(t) = Of(handlers[h])
  PROVE  Announced'
<1>1. TellersStay
  <2>1. ASSUME NEW i \in Stored', NEW steps \in {Senders, Tellers, Reacters}, Under(i, steps)
        PROVE  Under(i, steps)'
    <3>1. CASE handlers[h].step \in steps /\ Of(handlers[h]) = i
      <4>1. t.step \in steps /\ Of(t) = i
        BY <3>1
      <4> QED BY <4>1, OthersTell DEF IInv
    <3>2. CASE ~(handlers[h].step \in steps /\ Of(handlers[h]) = i)
      BY <2>1, <3>2, OthersTell DEF IInv
    <3> QED BY <3>1, <3>2
  <2>2. ASSUME NEW i, Under(i, Deleters) PROVE Under(i, Deleters)'
    BY <2>2, OthersTell DEF IInv
  <2> QED BY <2>1, <2>2 DEF TellersStay
<1>2. \A g \in Slots \ {h} : \A s : s = handlers[g] => Says(s)'
  BY SaysOn DEF Announced, AllSay
<1>3. AllSay'
  BY <1>2, EachSays DEF IInv
<1> QED BY <1>1, <1>3, NothingNewToTell

TellSteps == Tellers \cup Deleters \cup Reacters

LEMMA SaysNothing == ASSUME NEW t, t.step \notin TellSteps PROVE Says(t) /\ Says(t)'
BY DEF Says, TellSteps, Tellers, Deleters, Reacters

\* A handler that has nothing to tell goes on to another such step.
LEMMA SilentStep ==
  ASSUME IInv, Announced, TellsNothing, NEW h \in Slots, handlers[h].step \notin TellSteps,
         NEW t, t.step \notin TellSteps, handlers' = [handlers EXCEPT ![h] = t]
  PROVE  Announced'
<1>1. Says(t)'
  BY SaysNothing
<1>2. handlers[h].step \notin Deleters
      /\ \A steps \in {Senders, Tellers, Reacters} : handlers[h].step \notin steps
  BY DEF TellSteps, Senders, Tellers, Reacters
<1> QED BY <1>1, <1>2, Untold

LEMMA TablesTellNothing ==
  ASSUME UNCHANGED <<messages, reactions, lastMessage, shown, shownReactions, overwritten, crossings>>,
         cleared \subseteq cleared'
  PROVE  TellsNothing
BY DEF TellsNothing, Stored, ReactionsOf

LEMMA SilentRead ==
  ASSUME IInv, Announced, NEW h \in Slots, handlers[h].step \notin TellSteps, NEW t,
         t.step \notin TellSteps, Reads(h, t)
  PROVE  Announced'
<1>1. TellsNothing
  BY TablesTellNothing DEF Reads, tables, told, history
<1> QED BY <1>1, SilentStep DEF Reads, Goes

\* The first statement of what clients ask.
LEMMA EntrySilent ==
  ASSUME NEW u, NEW room, NEW next, next.step \notin TellSteps
  PROVE  Entry(u, room, next).step \notin TellSteps
BY DEF Entry, TellSteps, Tellers, Deleters, Reacters

LEMMA EventTells == ASSUME IInv, Announced, NEW h \in Slots, Event(h) PROVE Announced'
<1> DEFINE Begun == /\ handlers[h] = Idle
                    /\ \/ \E t : t.step \notin TellSteps /\ Reads(h, t)
                       \/ \E t : /\ t.step \notin TellSteps /\ Goes(h, t)
                                 /\ UNCHANGED <<tables, told, lost, cleared, overwritten, crossings>>
<1>1. Idle.step \notin TellSteps
  BY DEF Idle, TellSteps, Tellers, Deleters, Reacters
<1>2. ASSUME Begun PROVE Announced'
  <2>1. handlers[h].step \notin TellSteps
    BY <1>1, <1>2
  <2>2. CASE \E t : t.step \notin TellSteps /\ Reads(h, t)
    BY <2>1, <2>2, SilentRead
  <2>3. ASSUME NEW t, t.step \notin TellSteps, Goes(h, t),
               UNCHANGED <<tables, told, lost, cleared, overwritten, crossings>>
        PROVE  Announced'
    <3>1. TellsNothing
      BY <2>3, TablesTellNothing DEF tables, told
    <3> QED BY <2>1, <2>3, <3>1, SilentStep DEF Goes
  <2> QED BY <1>2, <2>2, <2>3
<1>3. ASSUME NEW u, NEW i, NEW next, next.step \notin TellSteps, Asks(h, u, i, next) PROVE Begun
  BY <1>1, <1>3, EntrySilent DEF Asks, Begins, Enters
<1>4. ASSUME NEW u, NEW room, NEW next, next.step \notin TellSteps, Begins(h), Enters(h, u, room, next)
      PROVE  Begun
  BY <1>4, EntrySilent DEF Begins, Enters
<1> HIDE DEF Begun
<1>5. ASSUME NEW u, NEW room, NEW text, NEW reply, BeginSend(h, u, room, text, reply) PROVE Begun
  BY <1>4, <1>5 DEF BeginSend, TellSteps, Tellers, Deleters, Reacters
<1>6. ASSUME NEW u, NEW room, BeginMarkRead(h, u, room) PROVE Begun
  BY <1>4, <1>6 DEF BeginMarkRead, TellSteps, Tellers, Deleters, Reacters
<1>7. ASSUME NEW u, NEW i, BeginDelete(h, u, i) \/ BeginReact(h, u, i) PROVE Begun
  BY <1>3, <1>7 DEF BeginDelete, BeginReact, TellSteps, Tellers, Deleters, Reacters
<1>8. ASSUME NEW u, NEW i, NEW text, BeginEdit(h, u, i, text) PROVE Begun
  BY <1>3, <1>8 DEF BeginEdit, TellSteps, Tellers, Deleters, Reacters
<1>9. ASSUME NEW u, NEW i, NEW given, BeginUnpin(h, u, i, given) PROVE Begun
  <2>1. PICK room : room = PinRoom(i, given)
    OBVIOUS
  <2>2. CASE room = None
    <3>1. handlers[h] = Idle /\ Reads(h, Idle)
      BY <1>9, <2>1, <2>2 DEF BeginUnpin, Begins
    <3> QED BY <1>1, <3>1 DEF Begun
  <2>3. CASE room # None
    BY <1>4, <1>9, <2>1, <2>3 DEF BeginUnpin, TellSteps, Tellers, Deleters, Reacters
  <2> QED BY <2>2, <2>3
<1>10. ASSUME NEW u, NEW i, NEW given, BeginPin(h, u, i, given) PROVE Begun
  <2>1. PICK room : room = PinRoom(i, given)
    OBVIOUS
  <2> DEFINE next == [step |-> "findPin", pin |-> <<room, i>>]
  <2>2. PICK t : t = IF room = None THEN Idle ELSE Entry(u, room, next)
    OBVIOUS
  <2>3. next.step \notin TellSteps
    BY DEF TellSteps, Tellers, Deleters, Reacters
  <2>4. t.step \notin TellSteps
    BY <1>1, <2>2, <2>3, EntrySilent
  <2>5. Goes(h, t) /\ handlers[h] = Idle /\ UNCHANGED <<tables, told, lost, cleared, overwritten, crossings>>
    BY <1>10, <2>1, <2>2 DEF BeginPin, Begins
  <2> QED BY <2>4, <2>5 DEF Begun
<1>11. PICK u \in Users :
        \/ \E room \in Rooms, text \in Texts, reply \in {None} \cup Ids :
             BeginSend(h, u, room, text, reply)
        \/ \E room \in Rooms : BeginMarkRead(h, u, room)
        \/ \E i \in Ids : BeginDelete(h, u, i) \/ BeginReact(h, u, i)
        \/ \E i \in Ids, text \in Texts : BeginEdit(h, u, i, text)
        \/ \E i \in Ids, given \in {None} \cup Rooms :
             BeginPin(h, u, i, given) \/ BeginUnpin(h, u, i, given)
  BY DEF Event
<1> QED BY <1>2, <1>5, <1>6, <1>7, <1>8, <1>9, <1>10, <1>11

\* Statements that look something up, and those that write rooms, pins or what is read.
LEMMA LooksTellNothing ==
  ASSUME IInv, Announced, NEW h \in Slots,
         \/ CheckAccess(h) \/ FindRoom(h) \/ FindToDelete(h) \/ FindToEdit(h)
         \/ FindUnread(h) \/ FindReaction(h) \/ FindPin(h)
  PROVE  Announced'
<1> USE DEF TellSteps, Tellers, Deleters, Reacters
<1>1. PICK s \in Handler : s = handlers[h]
  BY DEF IInv, HandlersOK
<1>2. Idle.step \notin TellSteps
  BY DEF Idle
<1>3. CASE CheckAccess(h)
  <2>1. s.step = "access" /\ (Reads(h, s.next) \/ Reads(h, Idle))
    BY <1>1, <1>3 DEF CheckAccess, At
  <2>2. s.next.step \notin TellSteps
    BY <2>1, Fields DEF Start
  <2> QED BY <1>1, <1>2, <2>1, <2>2, SilentRead
<1>4. CASE FindRoom(h) \/ FindPin(h)
  <2>1. PICK t : /\ t = Idle \/ \E step \in {"insertRoom", "insertMessage", "insertPin"} : t = [s EXCEPT !.step = step]
                 /\ Reads(h, t)
    BY <1>1, <1>4 DEF FindRoom, FindPin
  <2>2. s.step \in {"findRoom", "findPin"}
    BY <1>1, <1>4 DEF FindRoom, FindPin, At
  <2>3. \A step : [s EXCEPT !.step = step].step = step
    BY <2>2 DEF Handler, Start, Later
  <2>4. t.step \notin TellSteps
    BY <1>2, <2>1, <2>3
  <2> QED BY <1>1, <2>1, <2>2, <2>4, SilentRead
<1>5. CASE FindToDelete(h) \/ FindToEdit(h) \/ FindUnread(h)
  <2>1. s.step \notin TellSteps
    BY <1>1, <1>5 DEF FindToDelete, FindToEdit, FindUnread, At
  <2>2. \E t : t.step \notin TellSteps /\ Reads(h, t)
    <3>1. CASE FindToDelete(h)
      BY <1>2, <3>1 DEF FindToDelete
    <3>2. CASE FindToEdit(h)
      BY <1>2, <3>2 DEF FindToEdit
    <3>3. CASE FindUnread(h)
      BY <1>2, <3>3 DEF FindUnread
    <3> QED BY <1>5, <3>1, <3>2, <3>3
  <2> QED BY <1>1, <2>1, <2>2, SilentRead
<1>6. CASE FindReaction(h)
  <2>1. s.step \notin TellSteps
    BY <1>1, <1>6 DEF FindReaction, At
  <2>2. \E step \in {"insertReaction", "removeReaction"} : \E r : Reads(h, [step |-> step, reaction |-> r])
    BY <1>6 DEF FindReaction
  <2>3. PICK t : t.step \notin TellSteps /\ Reads(h, t)
    BY <2>2
  <2> QED BY <1>1, <2>1, <2>3, SilentRead
<1> QED BY <1>3, <1>4, <1>5, <1>6

LEMMA OthersWriteUntold ==
  ASSUME IInv, Announced, NEW h \in Slots, InsertRoom(h) \/ InsertPin(h) \/ DeletePin(h) \/ TellRead(h)
  PROVE  Announced'
<1>1. handlers[h].step \notin TellSteps
  BY DEF InsertRoom, InsertPin, DeletePin, TellRead, At, TellSteps, Tellers, Deleters, Reacters
<1>2. PICK t : t.step \notin TellSteps /\ handlers' = [handlers EXCEPT ![h] = t]
  <2>1. Idle.step \notin TellSteps
    BY DEF Idle, TellSteps, Tellers, Deleters, Reacters
  <2>2. CASE InsertRoom(h)
    <3>1. PICK s \in Handler : s = handlers[h] /\ s.step = "insertRoom"
      BY <2>2 DEF InsertRoom, At, IInv, HandlersOK
    <3>2. [s EXCEPT !.step = "insertMessage"].step \notin TellSteps
      BY <3>1, GoesOn DEF TellSteps, Tellers, Deleters, Reacters
    <3> QED BY <2>1, <2>2, <3>1, <3>2 DEF InsertRoom, Goes
  <2>3. CASE InsertPin(h) \/ DeletePin(h) \/ TellRead(h)
    BY <2>1, <2>3 DEF InsertPin, DeletePin, TellRead, Goes
  <2> QED BY <2>2, <2>3
<1>3. TellsNothing
  BY TablesTellNothing DEF InsertRoom, InsertPin, DeletePin, TellRead, tables, told, history
<1> QED BY <1>1, <1>2, <1>3, SilentStep

LEMMA SaveReadTells ==
  ASSUME IInv, Announced, NEW h \in Slots, SaveRead(h)
  PROVE  Announced'
<1>1. PICK s \in Handler : s = handlers[h] /\ s.step = "saveRead"
  BY DEF SaveRead, At, IInv, HandlersOK
<1>2. PICK t : t = [s EXCEPT !.step = "tellRead"] /\ t.step = "tellRead"
  BY <1>1, GoesOn
<1>3. /\ messages' = {[m EXCEPT !.is_read = @ \/ m.id \in s.ids] : m \in messages}
      /\ UNCHANGED <<rooms, lastMessage, reactions, lastReaction, pins, told, history>>
      /\ handlers' = [handlers EXCEPT ![h] = t]
  BY <1>1, <1>2 DEF SaveRead, Goes
<1>4. \A m \in messages : LET n == [m EXCEPT !.is_read = @ \/ m.id \in s.ids]
                         IN  n.id = m.id /\ n.text = m.text
  BY DEF IInv, TypeOK, Message
<1>5. \A m \in messages' : \E n \in messages : n.id = m.id /\ n.text = m.text
  BY <1>3, <1>4
<1>6. \A n \in messages : \E m \in messages' : m.id = n.id
  BY <1>3, <1>4
<1>7. Stored' = Stored
  BY <1>5, <1>6 DEF Stored
<1>8. TellsNothing
  BY <1>3, <1>5, <1>7 DEF TellsNothing, ReactionsOf, told, history
<1>9. handlers[h].step \notin TellSteps /\ t.step \notin TellSteps
  BY <1>1, <1>2 DEF TellSteps, Tellers, Deleters, Reacters
<1> QED BY <1>3, <1>8, <1>9, SilentStep
-----------------------------------------------------------------------------
\* Who has read a message again holds what is stored.
LEMMA ReadToTell ==
  ASSUME IInv, Announced, NEW h \in Slots, ReadSent(h) \/ ReadEdited(h) \/ ReadReactions(h)
  PROVE  Announced'
<1> USE DEF Senders, Tellers, Deleters, Reacters
<1>1. PICK s \in Handler : s = handlers[h]
  BY DEF IInv, HandlersOK
<1>2. PICK t : /\ Reads(h, t)
               /\ s.step = "readReactions" =>
                    t = [step |-> "tellReactions", id |-> Of(s), users |-> ReactionsOf(Of(s))]
               /\ s.step # "readReactions" /\ Of(s) \notin Stored => t = Idle
               /\ s.step = "readSent" /\ Of(s) \in Stored =>
                    t = [step |-> "tellSent", id |-> Of(s), text |-> Row(Of(s)).text]
               /\ s.step = "readEdited" /\ Of(s) \in Stored =>
                    t = [step |-> "tellEdited", id |-> Of(s), text |-> Row(Of(s)).text]
  <2>1. CASE ReadReactions(h)
    <3>1. s.step = "readReactions" /\ Of(s) = s.id
      BY <1>1, <2>1 DEF ReadReactions, At, Of
    <3>2. Reads(h, [step |-> "tellReactions", id |-> Of(s), users |-> ReactionsOf(Of(s))])
      BY <1>1, <2>1, <3>1 DEF ReadReactions
    <3> QED BY <3>1, <3>2
  <2>2. CASE ReadSent(h)
    <3>1. s.step = "readSent" /\ Of(s) = s.id
      BY <1>1, <2>2 DEF ReadSent, At, Of
    <3>2. Reads(h, IF Of(s) \in Stored
                   THEN [step |-> "tellSent", id |-> Of(s), text |-> Row(Of(s)).text] ELSE Idle)
      BY <1>1, <2>2, <3>1 DEF ReadSent
    <3> QED BY <3>1, <3>2
  <2>3. CASE ReadEdited(h)
    <3>1. s.step = "readEdited" /\ Of(s) = s.row.id
      BY <1>1, <2>3 DEF ReadEdited, At, Of
    <3>2. Reads(h, IF Of(s) \in Stored
                   THEN [step |-> "tellEdited", id |-> Of(s), text |-> Row(Of(s)).text] ELSE Idle)
      BY <1>1, <2>3, <3>1 DEF ReadEdited
    <3> QED BY <3>1, <3>2
  <2> QED BY <2>1, <2>2, <2>3
<1>3. s.step \in {"readSent", "readEdited", "readReactions"}
  BY <1>1 DEF ReadSent, ReadEdited, ReadReactions, At
<1>4. UNCHANGED <<tables, told, history>> /\ handlers' = [handlers EXCEPT ![h] = t]
  BY <1>2 DEF Reads, Goes
<1>5. TellsNothing
  BY <1>4, TablesTellNothing DEF tables, told, history
<1>6. CASE s.step = "readReactions"
  <2>1. t.step = "tellReactions" /\ t.id = Of(s) /\ t.users = ReactionsOf(Of(s))
    BY <1>2, <1>6
  <2>2. Says(t) /\ Of(t) = Of(s)
    BY <2>1 DEF Says, Of
  <2>3. Says(t)'
    BY <1>5, <2>2, SaysOn
  <2> QED BY <1>1, <1>4, <1>5, <1>6, <2>1, <2>2, <2>3, Untold
<1>7. CASE s.step # "readReactions" /\ Of(s) \notin Stored
  <2>1. t = Idle
    BY <1>2, <1>3, <1>7
  <2>2. Says(t)' /\ Stored' = Stored
    BY <1>4, <2>1 DEF Says, Idle, tables, Stored
  <2> QED BY <1>1, <1>3, <1>4, <1>5, <1>7, <2>2, Untold
<1>8. CASE s.step # "readReactions" /\ Of(s) \in Stored
  <2>1. /\ t.step = (IF s.step = "readSent" THEN "tellSent" ELSE "tellEdited")
        /\ t.id = Of(s) /\ t.text = Row(Of(s)).text
    BY <1>2, <1>3, <1>8
  <2>2. \A m \in messages : m.id = Of(s) => m = Row(Of(s))
    BY <1>8, RowOf DEF IInv
  <2>3. Says(t) /\ Of(t) = Of(s)
    BY <1>3, <1>8, <2>1, <2>2 DEF Says, Of
  <2>4. Says(t)'
    BY <1>5, <2>3, SaysOn
  <2> QED BY <1>1, <1>3, <1>4, <1>5, <1>8, <2>1, <2>3, <2>4, Untold
<1> QED BY <1>6, <1>7, <1>8

\* A new message waits to be told; nobody has reacted to it.
LEMMA InsertMessageTells ==
  ASSUME IInv, Announced, NEW h \in Slots, InsertMessage(h)
  PROVE  Announced'
<1> PICK id : id = lastMessage + 1
  OBVIOUS
<1> DEFINE row == handlers[h].row
           new == [id |-> id, room |-> row.room, user |-> row.user, text |-> row.text,
                   reply |-> row.reply, is_read |-> FALSE]
<1>1. handlers[h].step \notin TellSteps
  BY DEF InsertMessage, At, TellSteps, Tellers, Deleters, Reacters
<1>2. CASE ~CanSave(row, id)
  <2>1. Reads(h, Idle) /\ Idle.step \notin TellSteps
    BY <1>2 DEF InsertMessage, Idle, TellSteps, Tellers, Deleters, Reacters
  <2> QED BY <1>1, <2>1, SilentRead
<1>3. CASE CanSave(row, id)
  <2>1. /\ messages' = messages \cup {new} /\ lastMessage' = id
        /\ handlers' = [handlers EXCEPT ![h] = [step |-> "readSent", id |-> id]]
        /\ UNCHANGED <<rooms, reactions, lastReaction, pins, told, history>>
    BY <1>3 DEF InsertMessage, Goes
  <2>2. lastMessage \in Nat /\ id \notin Sent /\ Sent' = Sent \cup {id}
    BY <2>1, SentIds DEF Sent, IInv
  <2>3. id \in Ids /\ id \notin Stored
    <3>1. lastMessage < MaxMessages
      BY DEF InsertMessage
    <3> QED BY <2>2, <3>1, Numbers DEF Ids, IInv, Fresh
  <2>4. new.id = id
    OBVIOUS
  <2> HIDE DEF new
  <2>5. Stored' = Stored \cup {id}
    BY <2>1, <2>4 DEF Stored
  <2>6. UNCHANGED <<shown, shownReactions, cleared, overwritten, crossedTexts, crossedReactions>>
    BY <2>1 DEF told, history, crossings
  <2>7. PICK t : t = [step |-> "readSent", id |-> id]
    OBVIOUS
  <2>8. (\A i, steps : Under(i, steps) => Under(i, steps)' \/ handlers[h].step \in steps)
        /\ Under(id, Senders)' /\ Under(id, Tellers)'
    <3>1. t.step = "readSent" /\ Of(t) = id
      BY <2>7 DEF Of
    <3> QED BY <2>1, <2>7, <3>1, OthersTell DEF IInv, Senders, Tellers
  <2>9. MessagesDue'
    <3>1. \A m \in messages' : m \in messages \/ m.id = id
      BY <2>1, <2>4
    <3>2. ASSUME NEW m \in messages, m.id \notin cleared \cup overwritten
          PROVE  /\ m.id \in DOMAIN shown \/ Under(m.id, Senders)'
                 /\ m.id \in crossedTexts \/ ShowsRow(m)' \/ Under(m.id, Tellers)'
      <4>1. /\ m.id \in DOMAIN shown \/ Under(m.id, Senders)
            /\ m.id \in crossedTexts \/ ShowsRow(m) \/ Under(m.id, Tellers)
        BY <3>2 DEF Announced, MessagesDue
      <4>2. ShowsRow(m)' = ShowsRow(m)
        BY <2>6 DEF ShowsRow
      <4> QED BY <1>1, <2>8, <4>1, <4>2 DEF TellSteps, Senders, Tellers
    <3> QED BY <2>6, <2>8, <3>1, <3>2 DEF MessagesDue, ShowsRow
  <2>10. NothingElseShown'
    BY <1>1, <2>5, <2>6, <2>8 DEF Announced, NothingElseShown, TellSteps
  <2>11. ReactionsDue'
    <3>1. \A i : ReactionsOf(i)' = ReactionsOf(i)
      BY <2>1 DEF ReactionsOf
    <3>2. ReactionsOf(id) = {} /\ shownReactions[id] = {}
      BY <2>2, <2>3 DEF IInv, TypeOK, ReactionsOf, Announced, NobodyReacted
    <3> QED BY <1>1, <2>5, <2>6, <2>8, <3>1, <3>2 DEF Announced, ReactionsDue, TellSteps
  <2>12. NobodyReacted'
    BY <2>2, <2>6 DEF Announced, NobodyReacted
  <2>13. ASSUME NEW s, Says(s), Waits(s) PROVE Says(s)'
    <3>1. s.step \in {"tellSent", "tellEdited", "tellDeleted", "tellReactions"} => s.id # id
      BY <2>2, <2>13 DEF Waits
    <3>2. \A m \in messages' : m \in messages \/ m.id = id
      BY <2>1, <2>4
    <3>3. \A i : ReactionsOf(i)' = ReactionsOf(i)
      BY <2>1 DEF ReactionsOf
    <3>4. s.step \in {"tellSent", "tellEdited"} =>
            \A m \in messages' : m.id = s.id => m.text = s.text \/ m.id \in cleared' \cup overwritten' \cup crossedTexts'
      BY <2>6, <2>13, <3>1, <3>2 DEF Says
    <3> QED BY <2>5, <2>6, <2>13, <3>1, <3>3, <3>4 DEF Says
  <2>14. AllSay'
    <3>1. Says(t)'
      BY <2>7 DEF Says
    <3>2. \A g \in Slots \ {h} : \A s : s = handlers[g] => Says(s)'
      BY <2>13 DEF Announced, AllSay, IInv, Held, HeldBy
    <3> QED BY <2>1, <2>7, <3>1, <3>2, EachSays DEF IInv
  <2> QED BY <2>9, <2>10, <2>11, <2>12, <2>14 DEF Announced
<1> QED BY <1>2, <1>3

\* An edit that has saved a message is about to tell of it.
LEMMA SaveEditTells ==
  ASSUME IInv, Announced, NEW h \in Slots, SaveEdit(h)
  PROVE  Announced'
<1>1. PICK row \in Message : row = handlers[h].row
  BY Fields DEF SaveEdit, At, IInv, HandlersOK
<1>2. handlers[h].step \notin TellSteps
  BY DEF SaveEdit, At, TellSteps, Tellers, Deleters, Reacters
<1>3. CASE ~CanSave(row, row.id)
  <2>1. Reads(h, Idle) /\ Idle.step \notin TellSteps
    BY <1>1, <1>3 DEF SaveEdit, Idle, TellSteps, Tellers, Deleters, Reacters
  <2> QED BY <1>2, <2>1, SilentRead
<1>4. CASE CanSave(row, row.id)
  <2>1. /\ messages' = {m \in messages : m.id # row.id} \cup {row}
        /\ overwritten \subseteq overwritten' /\ (row.id \notin overwritten' => row.id \in Stored)
        /\ CrossesText(row.id, {"tellSent", "tellEdited"})
        /\ handlers' = [handlers EXCEPT ![h] = [step |-> "readEdited", row |-> row]]
        /\ UNCHANGED <<rooms, lastMessage, reactions, lastReaction, pins, told, lost, cleared,
                       unseen, crossedReactions>>
    BY <1>1, <1>4 DEF SaveEdit, Goes
  <2>2. Stored' = Stored \cup {row.id}
    <3>1. \A i : i \in Stored' <=> i \in Stored \cup {row.id}
      BY <2>1 DEF Stored
    <3> QED BY <3>1
  <2>3. UNCHANGED <<shown, shownReactions>>
    BY <2>1 DEF told
  <2>4. PICK t : t = [step |-> "readEdited", row |-> row]
    OBVIOUS
  <2>5. (\A i, steps : Under(i, steps) => Under(i, steps)' \/ handlers[h].step \in steps)
        /\ Under(row.id, Tellers)'
    <3>1. t.step = "readEdited" /\ Of(t) = row.id
      BY <2>4 DEF Of
    <3> QED BY <2>1, <2>4, <3>1, OthersTell DEF IInv, Tellers
  <2>6. crossedTexts' \ {row.id} = crossedTexts \ {row.id}
    BY <2>1 DEF CrossesText
  <2>7. MessagesDue'
    <3>1. ASSUME NEW m \in messages, m.id \notin cleared \cup overwritten
          PROVE  /\ m.id \in DOMAIN shown \/ Under(m.id, Senders)'
                 /\ m.id \in crossedTexts \/ ShowsRow(m)' \/ Under(m.id, Tellers)'
      <4>1. /\ m.id \in DOMAIN shown \/ Under(m.id, Senders)
            /\ m.id \in crossedTexts \/ ShowsRow(m) \/ Under(m.id, Tellers)
        BY <3>1 DEF Announced, MessagesDue
      <4>2. ShowsRow(m)' = ShowsRow(m)
        BY <2>3 DEF ShowsRow
      <4> QED BY <1>2, <2>5, <4>1, <4>2 DEF TellSteps, Senders, Tellers
    <3>2. ASSUME row.id \notin cleared \cup overwritten'
          PROVE  row.id \in DOMAIN shown \/ Under(row.id, Senders)'
      <4>1. PICK m \in messages : m.id = row.id
        BY <2>1, <3>2 DEF Stored
      <4> QED BY <2>1, <3>1, <3>2, <4>1
    <3>3. ASSUME NEW m \in messages', m.id \notin cleared' \cup overwritten'
          PROVE  /\ m.id \in DOMAIN shown' \/ Under(m.id, Senders)'
                 /\ m.id \in crossedTexts' \/ ShowsRow(m)' \/ Under(m.id, Tellers)'
      <4>1. CASE m.id = row.id
        BY <2>1, <2>3, <2>5, <3>2, <3>3, <4>1
      <4>2. CASE m.id # row.id
        BY <2>1, <2>3, <2>6, <3>1, <3>3, <4>2
      <4> QED BY <4>1, <4>2
    <3> QED BY <3>3 DEF MessagesDue, ShowsRow
  <2>8. NothingElseShown'
    <3>1. ASSUME NEW i \in DOMAIN shown
          PROVE  i \in Stored' \cup cleared' \cup overwritten' \cup crossedTexts' \/ Under(i, Deleters)'
      <4>1. i \in Stored \cup cleared \cup overwritten \cup crossedTexts \/ Under(i, Deleters)
        BY DEF Announced, NothingElseShown
      <4> QED BY <1>2, <2>1, <2>2, <2>5, <2>6, <4>1 DEF TellSteps
    <3> QED BY <2>3, <3>1 DEF NothingElseShown
  <2>9. \A i : ReactionsOf(i)' = ReactionsOf(i)
    BY <2>1 DEF ReactionsOf
  <2>10. ReactionsDue' /\ NobodyReacted'
    <3>1. ASSUME NEW i \in Stored', i \notin overwritten' \cup crossedReactions'
          PROVE  shownReactions'[i] = ReactionsOf(i)' \/ Under(i, Reacters)'
      <4>1. i \in Stored /\ i \notin overwritten \cup crossedReactions
        BY <2>1, <2>2, <3>1
      <4>2. shownReactions[i] = ReactionsOf(i) \/ Under(i, Reacters)
        BY <4>1 DEF Announced, ReactionsDue
      <4> QED BY <1>2, <2>3, <2>5, <2>9, <4>2 DEF TellSteps
    <3> QED BY <2>1, <2>3, <3>1 DEF Announced, ReactionsDue, NobodyReacted, Sent
  <2>11. ASSUME NEW g \in Slots, NEW s, s = handlers[g] PROVE Says(s)'
    <3>1. Says(s)
      BY <2>11 DEF Announced, AllSay
    <3>2. s.step \in {"tellSent", "tellEdited"} /\ s.id = row.id => s.id \in crossedTexts'
      BY <2>1, <2>11 DEF CrossesText, HasRead
    <3>3. s.step \in {"tellSent", "tellEdited"} =>
            \A m \in messages' : m.id = s.id => m.text = s.text \/ m.id \in cleared' \cup overwritten' \cup crossedTexts'
      BY <2>1, <2>6, <3>1, <3>2 DEF Says
    <3>4. s.step = "tellSent" => s.id \in Stored' \cup cleared' \cup overwritten' \cup crossedTexts'
      BY <2>1, <2>2, <2>6, <3>1 DEF Says
    <3>5. s.step = "tellDeleted" => s.id \notin Stored' \/ s.id \in cleared' \cup overwritten'
      BY <2>1, <2>2, <3>1 DEF Says
    <3>6. s.step = "tellReactions" /\ s.id \in Stored' =>
            s.users = ReactionsOf(s.id)' \/ s.id \in overwritten' \cup crossedReactions'
      BY <2>1, <2>2, <2>9, <3>1 DEF Says
    <3> QED BY <3>3, <3>4, <3>5, <3>6 DEF Says
  <2>12. AllSay'
    <3>1. Says(t)'
      BY <2>4 DEF Says
    <3> QED BY <2>1, <2>4, <2>11, <3>1, EachSays DEF IInv
  <2> QED BY <2>7, <2>8, <2>10, <2>12 DEF Announced
<1> QED BY <1>3, <1>4

\* A deleted message is shown until that is told, unless its sender is still to tell of it.
LEMMA DeleteTells ==
  ASSUME IInv, Announced, NEW h \in Slots, Delete(h)
  PROVE  Announced'
<1>1. PICK i : i = handlers[h].id
  OBVIOUS
<1>2. handlers[h].step \notin TellSteps
  BY DEF Delete, At, TellSteps, Tellers, Deleters, Reacters
<1>3. /\ DeleteRows({i}) /\ CrossesText(i, {"tellSent"})
      /\ handlers' = [handlers EXCEPT ![h] = [step |-> "tellDeleted", id |-> i]]
      /\ UNCHANGED <<lastMessage, shown, shownReactions, cleared, overwritten, crossedReactions>>
  BY <1>1 DEF Delete, Goes, told
<1> DEFINE Cut(m) == [m EXCEPT !.reply = IF @ \in {i} THEN None ELSE @]
<1>4. ASSUME NEW m \in messages PROVE Cut(m).id = m.id /\ Cut(m).text = m.text
  BY DEF IInv, TypeOK, Message
<1>5. messages' = {Cut(m) : m \in {x \in messages : x.id \notin {i}}}
  BY <1>3 DEF DeleteRows
<1> HIDE DEF Cut
<1>6. \A m \in messages' : m.id # i /\ \E n \in messages : n.id = m.id /\ n.text = m.text
  BY <1>4, <1>5
<1>7. Stored' = Stored \ {i}
  <2>1. \A j : j \in Stored \ {i} => j \in Stored'
    BY <1>4, <1>5 DEF Stored
  <2>2. \A j : j \in Stored' => j \in Stored \ {i}
    BY <1>4, <1>5 DEF Stored
  <2> QED BY <2>1, <2>2
<1>8. \A j : j # i => ReactionsOf(j)' = ReactionsOf(j)
  BY <1>3 DEF DeleteRows, ReactionsOf
<1>9. crossedTexts' \ {i} = crossedTexts \ {i}
  BY <1>3 DEF CrossesText
<1>10. PICK t : t = [step |-> "tellDeleted", id |-> i]
  OBVIOUS
<1>11. (\A j, steps : Under(j, steps) => Under(j, steps)' \/ handlers[h].step \in steps)
       /\ Under(i, Deleters)'
  <2>1. t.step = "tellDeleted" /\ Of(t) = i
    BY <1>10 DEF Of
  <2> QED BY <1>3, <1>10, <2>1, OthersTell DEF IInv, Deleters
<1>12. MessagesDue'
  <2>1. ASSUME NEW m \in messages', m.id \notin cleared' \cup overwritten'
        PROVE  /\ m.id \in DOMAIN shown' \/ Under(m.id, Senders)'
               /\ m.id \in crossedTexts' \/ ShowsRow(m)' \/ Under(m.id, Tellers)'
    <3>1. PICK n \in messages : n.id = m.id /\ n.text = m.text
      BY <1>6
    <3>2. /\ n.id \in DOMAIN shown \/ Under(n.id, Senders)
          /\ n.id \in crossedTexts \/ ShowsRow(n) \/ Under(n.id, Tellers)
      BY <1>3, <2>1, <3>1 DEF Announced, MessagesDue
    <3>3. ShowsRow(n) => ShowsRow(m)'
      BY <1>3, <3>1 DEF ShowsRow
    <3>4. n.id \in crossedTexts => m.id \in crossedTexts'
      BY <1>6, <1>9, <3>1
    <3> QED BY <1>2, <1>3, <1>11, <3>1, <3>2, <3>3, <3>4 DEF TellSteps, Senders, Tellers
  <2> QED BY <2>1 DEF MessagesDue, ShowsRow
<1>13. NothingElseShown'
  <2>1. ASSUME NEW j \in DOMAIN shown, j # i
        PROVE  j \in Stored' \cup cleared' \cup overwritten' \cup crossedTexts' \/ Under(j, Deleters)'
    <3>1. j \in Stored \cup cleared \cup overwritten \cup crossedTexts \/ Under(j, Deleters)
      BY DEF Announced, NothingElseShown
    <3> QED BY <1>2, <1>3, <1>7, <1>9, <1>11, <2>1, <3>1 DEF TellSteps
  <2> QED BY <1>3, <1>11, <2>1 DEF NothingElseShown
<1>14. ReactionsDue' /\ NobodyReacted'
  <2>1. ASSUME NEW j \in Stored', j \notin overwritten' \cup crossedReactions'
        PROVE  shownReactions'[j] = ReactionsOf(j)' \/ Under(j, Reacters)'
    <3>1. shownReactions[j] = ReactionsOf(j) \/ Under(j, Reacters)
      BY <1>3, <1>7, <2>1 DEF Announced, ReactionsDue
    <3> QED BY <1>2, <1>3, <1>7, <1>8, <1>11, <2>1, <3>1 DEF TellSteps
  <2> QED BY <1>3, <2>1 DEF Announced, ReactionsDue, NobodyReacted, Sent
<1>15. ASSUME NEW g \in Slots, NEW s, s = handlers[g] PROVE Says(s)'
  <2>1. Says(s)
    BY <1>15 DEF Announced, AllSay
  <2>2. s.step = "tellSent" /\ s.id = i => s.id \in crossedTexts'
    BY <1>3, <1>15 DEF CrossesText, HasRead
  <2>3. ASSUME s.step \in {"tellSent", "tellEdited"}, NEW m \in messages', m.id = s.id
        PROVE  m.text = s.text \/ m.id \in cleared' \cup overwritten' \cup crossedTexts'
    <3>1. PICK n \in messages : n.id = m.id /\ n.text = m.text
      BY <1>6
    <3>2. m.id # i
      BY <1>6
    <3>3. n.text = s.text \/ n.id \in cleared \cup overwritten \cup crossedTexts
      BY <2>1, <2>3, <3>1 DEF Says
    <3> QED BY <1>3, <1>9, <3>1, <3>2, <3>3
  <2>4. s.step = "tellSent" => s.id \in Stored' \cup cleared' \cup overwritten' \cup crossedTexts'
    BY <1>3, <1>7, <1>9, <2>1, <2>2 DEF Says
  <2>5. s.step = "tellDeleted" => s.id \notin Stored' \/ s.id \in cleared' \cup overwritten'
    BY <1>3, <1>7, <2>1 DEF Says
  <2>6. s.step = "tellReactions" /\ s.id \in Stored' =>
          s.users = ReactionsOf(s.id)' \/ s.id \in overwritten' \cup crossedReactions'
    BY <1>3, <1>7, <1>8, <2>1 DEF Says
  <2> QED BY <2>3, <2>4, <2>5, <2>6 DEF Says
<1>16. AllSay'
  <2>1. t.step = "tellDeleted" /\ t.id = i
    BY <1>10
  <2>2. Says(t)'
    BY <1>7, <2>1 DEF Says
  <2> QED BY <1>3, <1>10, <1>15, <2>2, EachSays DEF IInv
<1> QED BY <1>12, <1>13, <1>14, <1>16 DEF Announced

\* Reactions change for one message, of which somebody is then about to tell.
LEMMA ReactionsTell ==
  ASSUME IInv, Announced, NEW h \in Slots, InsertReaction(h) \/ RemoveReaction(h)
  PROVE  Announced'
<1>1. PICK s \in Handler : s = handlers[h]
  BY DEF IInv, HandlersOK
<1>2. s.step \in {"insertReaction", "removeReaction"} /\ s.reaction \in Reaction /\ s.reaction.message \in Sent
  BY <1>1, Fields DEF InsertReaction, RemoveReaction, At, IInv, Held, HeldBy, Waits
<1>3. handlers[h].step \notin TellSteps
  BY <1>1, <1>2 DEF TellSteps, Tellers, Deleters, Reacters
<1>4. CASE Reads(h, Idle)
  <2>1. Idle.step \notin TellSteps
    BY DEF Idle, TellSteps, Tellers, Deleters, Reacters
  <2> QED BY <1>3, <1>4, <2>1, SilentRead
<1>5. CASE ~Reads(h, Idle)
  <2>1. PICK i : i = s.reaction.message
    OBVIOUS
  <2>2. PICK new : new = [s.reaction EXCEPT !.id = lastReaction + 1]
    OBVIOUS
  <2>3. new.message = i
    BY <1>2, <2>1, <2>2 DEF Reaction
  <2>4. /\ CrossesReactions(i)
        /\ handlers' = [handlers EXCEPT ![h] = [step |-> "readReactions", id |-> i]]
        /\ UNCHANGED <<messages, lastMessage, told, cleared, overwritten, crossedTexts>>
        /\ reactions' \in {reactions \cup {new}, reactions \ {s.reaction}}
    BY <1>1, <1>5, <2>1, <2>2 DEF InsertReaction, RemoveReaction, Goes
  <2>5. UNCHANGED <<shown, shownReactions>> /\ Stored' = Stored /\ Sent' = Sent
    BY <2>4 DEF told, Stored, Sent
  <2>6. \A j : j # i => ReactionsOf(j)' = ReactionsOf(j)
    BY <2>1, <2>3, <2>4 DEF ReactionsOf
  <2>7. crossedReactions' \ {i} = crossedReactions \ {i}
    BY <2>4 DEF CrossesReactions
  <2>8. PICK t : t = [step |-> "readReactions", id |-> i]
    OBVIOUS
  <2>9. (\A j, steps : Under(j, steps) => Under(j, steps)' \/ handlers[h].step \in steps)
        /\ Under(i, Reacters)'
    <3>1. t.step = "readReactions" /\ Of(t) = i
      BY <2>8 DEF Of
    <3>2. handlers' = [handlers EXCEPT ![h] = t] /\ HandlersOK
      BY <2>4, <2>8 DEF IInv
    <3>3. \A j, steps : Under(j, steps) => Under(j, steps)' \/ handlers[h].step \in steps
      BY <3>2, OthersTell
    <3>4. \A steps : t.step \in steps => Under(Of(t), steps)'
      BY <3>2, OthersTell
    <3> QED BY <3>1, <3>3, <3>4 DEF Reacters
  <2>10. MessagesDue' /\ NothingElseShown' /\ NobodyReacted'
    <3>1. \A m : ShowsRow(m)' = ShowsRow(m)
      BY <2>5 DEF ShowsRow
    <3>2. \A j : /\ Under(j, Senders) => Under(j, Senders)'
                 /\ Under(j, Tellers) => Under(j, Tellers)'
                 /\ Under(j, Deleters) => Under(j, Deleters)'
      BY <1>3, <2>9 DEF TellSteps, Senders, Tellers
    <3> QED BY <2>4, <2>5, <3>1, <3>2 DEF Announced, MessagesDue, NothingElseShown, NobodyReacted, ShowsRow
  <2>11. ReactionsDue'
    <3>1. ASSUME NEW j \in Stored', j \notin overwritten' \cup crossedReactions', j # i
          PROVE  shownReactions'[j] = ReactionsOf(j)' \/ Under(j, Reacters)'
      <4>1. shownReactions[j] = ReactionsOf(j) \/ Under(j, Reacters)
        BY <2>4, <2>5, <2>7, <3>1 DEF Announced, ReactionsDue
      <4> QED BY <1>3, <2>5, <2>6, <2>9, <3>1, <4>1 DEF TellSteps
    <3> QED BY <2>9, <3>1 DEF ReactionsDue
  <2>12. ASSUME NEW g \in Slots, NEW r, r = handlers[g] PROVE Says(r)'
    <3>1. Says(r)
      BY <2>12 DEF Announced, AllSay
    <3>2. r.step = "tellReactions" /\ r.id = i => r.id \in crossedReactions'
      BY <2>4, <2>12 DEF CrossesReactions, HasRead
    <3>3. r.step = "tellReactions" /\ r.id \in Stored' =>
            r.users = ReactionsOf(r.id)' \/ r.id \in overwritten' \cup crossedReactions'
      BY <2>4, <2>5, <2>6, <2>7, <3>1, <3>2 DEF Says
    <3> QED BY <2>4, <2>5, <3>1, <3>3 DEF Says
  <2>13. AllSay'
    <3>1. Says(t)'
      BY <2>8 DEF Says
    <3> QED BY <2>4, <2>8, <2>12, <3>1, EachSays DEF IInv
  <2> QED BY <2>10, <2>11, <2>13 DEF Announced
<1> QED BY <1>4, <1>5
-----------------------------------------------------------------------------
\* Who tells of a message shows what is stored; of the others nothing changes.
LEMMA TellTextTells ==
  ASSUME IInv, Announced, NEW h \in Slots, TellSent(h) \/ TellEdited(h)
  PROVE  Announced'
<1>1. PICK s : s = handlers[h] /\ s.step \in {"tellSent", "tellEdited"} /\ Says(s) /\ Of(s) = s.id
  BY DEF TellSent, TellEdited, At, Announced, AllSay, Of
<1>2. /\ handlers' = [handlers EXCEPT ![h] = Idle]
      /\ UNCHANGED <<tables, shownReactions, shownRead, history>>
      /\ shown' = IF s.step = "tellSent" \/ s.id \in DOMAIN shown
                  THEN [j \in DOMAIN shown \cup {s.id} |-> IF j = s.id THEN s.text ELSE shown[j]]
                  ELSE shown
  BY <1>1 DEF TellSent, TellEdited, Shows, At, Goes
<1>3. UNCHANGED <<messages, reactions, lastMessage, cleared, overwritten, crossedTexts, crossedReactions>>
      /\ Stored' = Stored /\ Sent' = Sent
  BY <1>2 DEF tables, history, crossings, Stored, Sent
<1>4. \A j : /\ Under(j, Senders) => Under(j, Senders)' \/ (s.step = "tellSent" /\ j = s.id)
             /\ Under(j, Tellers) => Under(j, Tellers)' \/ j = s.id
             /\ Under(j, Deleters) => Under(j, Deleters)'
             /\ Under(j, Reacters) => Under(j, Reacters)'
  <2>1. HandlersOK
    BY DEF IInv
  <2>2. \A j, steps : Under(j, steps) => Under(j, steps)' \/ (s.step \in steps /\ s.id = j)
    BY <1>1, <1>2, <2>1, OthersTell
  <2> QED BY <1>1, <2>2 DEF Senders, Tellers, Deleters, Reacters
<1>5. \A j : Under(j, Senders)' => Under(j, Tellers)'
  BY DEF Under, Senders, Tellers
<1>6. MessagesDue'
  <2>1. ASSUME NEW m \in messages, m.id \notin cleared \cup overwritten
        PROVE  /\ m.id \in DOMAIN shown' \/ Under(m.id, Senders)'
               /\ m.id \in crossedTexts \/ ShowsRow(m)' \/ Under(m.id, Tellers)'
    <3>1. /\ m.id \in DOMAIN shown \/ Under(m.id, Senders)
          /\ m.id \in crossedTexts \/ ShowsRow(m) \/ Under(m.id, Tellers)
      BY <2>1 DEF Announced, MessagesDue
    <3>2. m.id \in DOMAIN shown' \/ Under(m.id, Senders)'
      BY <1>2, <1>4, <3>1
    <3>3. CASE m.id = s.id
      <4>1. m.text = s.text \/ m.id \in crossedTexts
        BY <1>1, <2>1, <3>3 DEF Says
      <4>2. m.id \in DOMAIN shown' => shown'[m.id] = s.text
        BY <1>2, <3>3
      <4> QED BY <1>5, <3>2, <4>1, <4>2 DEF ShowsRow
    <3>4. CASE m.id # s.id
      <4>1. ShowsRow(m) => ShowsRow(m)'
        BY <1>2, <3>4 DEF ShowsRow
      <4> QED BY <1>4, <3>1, <3>2, <3>4, <4>1
    <3> QED BY <3>3, <3>4
  <2> QED BY <1>3, <2>1 DEF MessagesDue, ShowsRow
<1>7. NothingElseShown'
  <2>1. ASSUME NEW j \in DOMAIN shown'
        PROVE  j \in Stored \cup cleared \cup overwritten \cup crossedTexts \/ Under(j, Deleters)'
    <3>1. CASE j \in DOMAIN shown
      BY <1>4, <3>1 DEF Announced, NothingElseShown
    <3>2. CASE j \notin DOMAIN shown
      BY <1>1, <1>2, <2>1, <3>2 DEF Says
    <3> QED BY <3>1, <3>2
  <2> QED BY <1>3, <2>1 DEF NothingElseShown
<1>8. ReactionsDue' /\ NobodyReacted'
  <2>1. \A j : ReactionsOf(j)' = ReactionsOf(j)
    BY <1>3 DEF ReactionsOf
  <2> QED BY <1>2, <1>3, <1>4, <2>1 DEF Announced, ReactionsDue, NobodyReacted
<1>9. AllSay'
  <2>2. \A r : Says(r) => Says(r)'
    BY <1>3 DEF Says, ReactionsOf
  <2>3. Says(Idle)'
    BY DEF Says, Idle
  <2>4. \A g \in Slots \ {h} : \A r : r = handlers[g] => Says(r)'
    BY <2>2 DEF Announced, AllSay
  <2> QED BY <1>2, <2>3, <2>4, EachSays DEF IInv
<1> QED BY <1>6, <1>7, <1>8, <1>9 DEF Announced

LEMMA TellDeletedTells ==
  ASSUME IInv, Announced, NEW h \in Slots, TellDeleted(h)
  PROVE  Announced'
<1>1. PICK s : s = handlers[h] /\ s.step = "tellDeleted" /\ Says(s) /\ Of(s) = s.id
  BY DEF TellDeleted, At, Announced, AllSay, Of
<1>2. /\ handlers' = [handlers EXCEPT ![h] = Idle]
      /\ UNCHANGED <<tables, shownReactions, shownRead, history>>
      /\ shown' = [j \in DOMAIN shown \ {s.id} |-> shown[j]]
  BY <1>1 DEF TellDeleted, Goes
<1>3. UNCHANGED <<messages, reactions, lastMessage, cleared, overwritten, crossedTexts, crossedReactions>>
      /\ Stored' = Stored /\ Sent' = Sent
  BY <1>2 DEF tables, history, crossings, Stored, Sent
<1>4. \A j : /\ Under(j, Senders) => Under(j, Senders)'
             /\ Under(j, Tellers) => Under(j, Tellers)'
             /\ Under(j, Deleters) => Under(j, Deleters)' \/ j = s.id
             /\ Under(j, Reacters) => Under(j, Reacters)'
  BY <1>1, <1>2, OthersTell DEF IInv, Senders, Tellers, Deleters, Reacters
<1>5. MessagesDue'
  <2>1. ASSUME NEW m \in messages, m.id \notin cleared \cup overwritten
        PROVE  /\ m.id \in DOMAIN shown' \/ Under(m.id, Senders)'
               /\ m.id \in crossedTexts \/ ShowsRow(m)' \/ Under(m.id, Tellers)'
    <3>1. /\ m.id \in DOMAIN shown \/ Under(m.id, Senders)
          /\ m.id \in crossedTexts \/ ShowsRow(m) \/ Under(m.id, Tellers)
      BY <2>1 DEF Announced, MessagesDue
    <3>2. m.id # s.id
      BY <1>1, <2>1 DEF Says, Stored
    <3>3. ShowsRow(m) => ShowsRow(m)'
      BY <1>2, <3>2 DEF ShowsRow
    <3> QED BY <1>2, <1>4, <3>1, <3>2, <3>3
  <2> QED BY <1>3, <2>1 DEF MessagesDue, ShowsRow
<1>6. NothingElseShown'
  BY <1>2, <1>3, <1>4 DEF Announced, NothingElseShown
<1>7. ReactionsDue' /\ NobodyReacted'
  <2>1. \A j : ReactionsOf(j)' = ReactionsOf(j)
    BY <1>3 DEF ReactionsOf
  <2> QED BY <1>2, <1>3, <1>4, <2>1 DEF Announced, ReactionsDue, NobodyReacted
<1>8. AllSay'
  <2>1. \A r : Says(r) => Says(r)'
    BY <1>3 DEF Says, ReactionsOf
  <2>2. Says(Idle)'
    BY DEF Says, Idle
  <2>3. \A g \in Slots \ {h} : \A r : r = handlers[g] => Says(r)'
    BY <2>1 DEF Announced, AllSay
  <2> QED BY <1>2, <2>2, <2>3, EachSays DEF IInv
<1> QED BY <1>5, <1>6, <1>7, <1>8 DEF Announced

LEMMA TellReactionsTells ==
  ASSUME IInv, Announced, NEW h \in Slots, TellReactions(h)
  PROVE  Announced'
<1>1. PICK s : s = handlers[h] /\ s.step = "tellReactions" /\ Says(s) /\ Of(s) = s.id
  BY DEF TellReactions, At, Announced, AllSay, Of
<1>2. s.id \in Ids /\ s.id \in Sent
  BY <1>1, SentIds DEF IInv, Held, HeldBy, Waits
<1>3. /\ handlers' = [handlers EXCEPT ![h] = Idle]
      /\ UNCHANGED <<tables, shown, shownRead, history>>
      /\ shownReactions' = [shownReactions EXCEPT ![s.id] = s.users]
  BY <1>1 DEF TellReactions, Goes
<1>4. UNCHANGED <<messages, reactions, lastMessage, cleared, overwritten, crossedTexts, crossedReactions>>
      /\ Stored' = Stored /\ Sent' = Sent
  BY <1>3 DEF tables, history, crossings, Stored, Sent
<1>5. \A j : /\ Under(j, Senders) => Under(j, Senders)'
             /\ Under(j, Tellers) => Under(j, Tellers)'
             /\ Under(j, Deleters) => Under(j, Deleters)'
             /\ Under(j, Reacters) => Under(j, Reacters)' \/ j = s.id
  BY <1>1, <1>3, OthersTell DEF IInv, Senders, Tellers, Deleters, Reacters
<1>6. MessagesDue' /\ NothingElseShown'
  <2>1. \A m : ShowsRow(m)' = ShowsRow(m)
    BY <1>3 DEF ShowsRow
  <2> QED BY <1>3, <1>4, <1>5, <2>1 DEF Announced, MessagesDue, NothingElseShown, ShowsRow
<1>7. shownReactions'[s.id] = s.users /\ \A j \in Ids \ {s.id} : shownReactions'[j] = shownReactions[j]
  BY <1>2, <1>3 DEF IInv, TypeOK
<1>8. \A j : ReactionsOf(j)' = ReactionsOf(j)
  BY <1>4 DEF ReactionsOf
<1>9. ReactionsDue'
  <2>1. ASSUME NEW j \in Stored, j \notin overwritten \cup crossedReactions
        PROVE  shownReactions'[j] = ReactionsOf(j) \/ Under(j, Reacters)'
    <3>1. CASE j = s.id
      BY <1>1, <1>7, <2>1, <3>1 DEF Says
    <3>2. CASE j # s.id
      <4>1. j \in Ids
        BY SentIds DEF IInv, Fresh
      <4>2. shownReactions[j] = ReactionsOf(j) \/ Under(j, Reacters)
        BY <2>1 DEF Announced, ReactionsDue
      <4> QED BY <1>5, <1>7, <3>2, <4>1, <4>2
    <3> QED BY <3>1, <3>2
  <2> QED BY <1>4, <1>8, <2>1 DEF ReactionsDue
<1>10. NobodyReacted'
  BY <1>2, <1>4, <1>7 DEF Announced, NobodyReacted
<1>11. AllSay'
  <2>1. \A r : Says(r) => Says(r)'
    BY <1>4 DEF Says, ReactionsOf
  <2>2. Says(Idle)'
    BY DEF Says, Idle
  <2>3. \A g \in Slots \ {h} : \A r : r = handlers[g] => Says(r)'
    BY <2>1 DEF Announced, AllSay
  <2> QED BY <1>3, <2>2, <2>3, EachSays DEF IInv
<1> QED BY <1>6, <1>9, <1>10, <1>11 DEF Announced
-----------------------------------------------------------------------------
\* Rooms come and go without telling anybody.
LEMMA RoomsTellNothing ==
  ASSUME IInv, Announced, NEW room, CreateRoom(room) \/ ClearRoom(room) \/ DeleteRoom(room)
  PROVE  Announced'
<1>1. UNCHANGED handlers
  BY DEF CreateRoom, ClearRoom, Clears, DeleteRoom
<1>2. TellsNothing
  <2>1. CASE CreateRoom(room)
    BY <2>1, TablesTellNothing DEF CreateRoom, told, history
  <2>2. CASE ClearRoom(room) \/ DeleteRoom(room)
    <3>1. {x \in messages : x.room # room} = {x \in messages : x.id \notin In(room)}
      BY DEF In, IInv, TypeOK
    <3>2. /\ messages' = {[m EXCEPT !.reply = IF @ \in In(room) THEN None ELSE @]
                          : m \in {x \in messages : x.id \notin In(room)}}
          /\ reactions' = {r \in reactions : r.message \notin In(room)}
          /\ cleared' = cleared \cup In(room)
          /\ UNCHANGED <<lastMessage, told, overwritten, crossings>>
      BY <2>2, <3>1 DEF ClearRoom, Clears, DeleteRows, DeleteRoom
    <3> DEFINE Cut(m) == [m EXCEPT !.reply = IF @ \in In(room) THEN None ELSE @]
    <3>3. ASSUME NEW m \in messages PROVE Cut(m).id = m.id /\ Cut(m).text = m.text
      BY DEF IInv, TypeOK, Message
    <3>4. messages' = {Cut(m) : m \in {x \in messages : x.id \notin In(room)}}
      BY <3>2
    <3> HIDE DEF Cut
    <3>5. \A m \in messages' : \E n \in messages : n.id = m.id /\ n.text = m.text
      BY <3>3, <3>4
    <3>6. Stored' = Stored \ In(room)
      <4>1. \A i : i \in Stored \ In(room) => i \in Stored'
        BY <3>3, <3>4 DEF Stored
      <4>2. \A i : i \in Stored' => i \in Stored \ In(room)
        BY <3>3, <3>4 DEF Stored
      <4> QED BY <4>1, <4>2
    <3>7. \A i \in Stored' : ReactionsOf(i)' = ReactionsOf(i)
      BY <3>2, <3>6 DEF ReactionsOf
    <3> QED BY <3>2, <3>5, <3>6, <3>7 DEF TellsNothing, told
  <2> QED BY <2>1, <2>2
<1>3. TellersStay
  BY <1>1 DEF TellersStay, Under, Of
<1>4. AllSay'
  <2>1. \A g \in Slots : \A s : s = handlers[g] => Says(s)'
    BY <1>2, SaysOn DEF Announced, AllSay
  <2> QED BY <1>1, <2>1 DEF AllSay
<1> QED BY <1>2, <1>3, <1>4, NothingNewToTell

LEMMA AnnouncedNext == IInv /\ Announced /\ [Next]_vars => Announced'
<1> SUFFICES ASSUME IInv, Announced, [Next]_vars PROVE Announced'
  OBVIOUS
<1>1. CASE UNCHANGED vars
  <2>1. TellersStay
    BY <1>1 DEF vars, TellersStay, Under, Of
  <2>2. TellsNothing
    BY <1>1, TablesTellNothing DEF vars, tables, told, history
  <2>3. \A g \in Slots : \A s : s = handlers[g] => Says(s)'
    BY <2>2, SaysOn DEF Announced, AllSay
  <2>4. AllSay'
    BY <1>1, <2>3 DEF AllSay, vars
  <2> QED BY <2>1, <2>2, <2>4, NothingNewToTell
<1>2. ASSUME NEW h \in Slots, Statement(h) PROVE Announced'
  <2>1. CASE \/ CheckAccess(h) \/ FindRoom(h) \/ FindToDelete(h) \/ FindToEdit(h)
             \/ FindUnread(h) \/ FindReaction(h) \/ FindPin(h)
    BY <2>1, LooksTellNothing
  <2>2. CASE InsertRoom(h) \/ InsertPin(h) \/ DeletePin(h) \/ TellRead(h)
    BY <2>2, OthersWriteUntold
  <2>3. CASE InsertMessage(h) \/ Delete(h) \/ SaveEdit(h) \/ SaveRead(h)
    BY <2>3, InsertMessageTells, DeleteTells, SaveEditTells, SaveReadTells
  <2>4. CASE InsertReaction(h) \/ RemoveReaction(h)
    BY <2>4, ReactionsTell
  <2>5. CASE ReadSent(h) \/ ReadEdited(h) \/ ReadReactions(h)
    BY <2>5, ReadToTell
  <2>6. CASE TellSent(h) \/ TellEdited(h) \/ TellDeleted(h) \/ TellReactions(h)
    BY <2>6, TellTextTells, TellDeletedTells, TellReactionsTells
  <2> QED BY <1>2, <2>1, <2>2, <2>3, <2>4, <2>5, <2>6 DEF Statement
<1> QED BY <1>1, <1>2, EventTells, RoomsTellNothing DEF Next

LEMMA AnnouncedAlways == Spec => [](IInv /\ Announced)
<1>1. Init => Announced
  BY DEF Init, Announced, MessagesDue, NothingElseShown, ReactionsDue, NobodyReacted, Stored,
         AllSay, Says, Idle
<1> QED BY <1>1, InitInv, NextInv, AnnouncedNext, PTL DEF Spec
-----------------------------------------------------------------------------
(* Theorems about the rooms *)

\* Rooms, messages, reactions and pins have their types and their parents.
THEOREM ChatTypes == Spec => []TypeOK
<1>1. IInv => TypeOK
  BY DEF IInv
<1> QED BY <1>1, InitInv, NextInv, PTL DEF Spec

\* A message that was told to be read is read (chat.gateway.ts:217), whatever is sent,
\* deleted or marked meanwhile, unless an edit has put the column back.
THEOREM ReadStaysRead == Spec => []ToldIsRead
<1>1. IInv => ToldIsRead
  BY DEF IInv
<1> QED BY <1>1, InitInv, NextInv, PTL DEF Spec

\* A pin is in the room of its message (chat.gateway.ts:347), although the room was looked
\* up some statements before and the message may have been deleted and put back meanwhile;
\* a message that was asked for when it was not there may be pinned anywhere.
THEOREM PinsAreHome == Spec => []PinnedInItsRoom
<1>1. IInv => PinnedInItsRoom
  <2>1. ASSUME IInv, NEW p \in pins, p[2] \notin unseen PROVE Row(p[2]).room = p[1]
    <3>1. p[2] \in Stored
      BY <2>1 DEF IInv, TypeOK
    <3>2. Row(p[2]) \in messages /\ Row(p[2]).id = p[2]
      BY <2>1, <3>1, RowOf DEF IInv
    <3>3. Placed(p[2], p[1])
      BY <2>1 DEF IInv, PinsPlaced
    <3>4. IsRow(p[2], Row(p[2]).room)
      BY <3>2 DEF IsRow
    <3> QED BY <3>3, <3>4 DEF Placed
  <2> QED BY <2>1 DEF PinnedInItsRoom
<1> QED BY <1>1, InitInv, NextInv, PTL DEF Spec

\* What was deleted does not come back but through an edit that held it then
\* (chat-messages.service.ts:73-78).
THEOREM NothingDeletedReturns == Spec => []DeletedStaysDeleted
<1>1. IInv => DeletedStaysDeleted
  BY DEF IInv
<1> QED BY <1>1, InitInv, NextInv, PTL DEF Spec

\* Once the handlers are through, clients show the messages that are stored, with the text
\* that is stored (chat.gateway.ts:204, 252, 272), but for those whose last edit or whose
\* deletion came between the reading and the telling of another handler, those that an edit
\* has put back, and those of rooms emptied over HTTP.
THEOREM ClientsShowTheTable == Spec => []ShownIsStored
<1>1. IInv /\ Announced => ShownIsStored
  <2> SUFFICES ASSUME IInv, Announced, Quiet,
                      NEW i \in Sent, i \notin cleared \cup overwritten \cup crossedTexts
               PROVE  IF i \in Stored THEN i \in DOMAIN shown /\ shown[i] = Row(i).text
                      ELSE i \notin DOMAIN shown
    BY DEF ShownIsStored
  <2>1. ~Under(i, Senders) /\ ~Under(i, Tellers) /\ ~Under(i, Deleters)
    BY DEF Quiet, Under, Idle, Senders, Tellers, Deleters
  <2>2. CASE i \in Stored
    <3>1. Row(i) \in messages /\ Row(i).id = i
      BY <2>2, RowOf DEF IInv
    <3> QED BY <2>1, <2>2, <3>1 DEF Announced, MessagesDue, ShowsRow
  <2>3. CASE i \notin Stored
    BY <2>1, <2>3 DEF Announced, NothingElseShown
  <2> QED BY <2>2, <2>3
<1> QED BY <1>1, AnnouncedAlways, PTL

\* The last that clients hear of a message's reactions is what is stored
\* (chat.gateway.ts:302), unless the last of them was stored between the reading and the
\* telling of another handler.
THEOREM ClientsSeeReactions == Spec => []ReactionsAreShown
<1>1. IInv /\ Announced => ReactionsAreShown
  <2>1. Quiet => \A i : ~Under(i, Reacters)
    BY DEF Quiet, Under, Idle, Reacters
  <2> QED BY <2>1 DEF ReactionsAreShown, Announced, ReactionsDue
<1> QED BY <1>1, AnnouncedAlways, PTL
-----------------------------------------------------------------------------
(* Who is online: the invariant *)

\* Nobody asks to be shown as offline while connected.
NobodyHides == "offline" \notin Asked

RequestsAsk ==
  \A r \in Requests : request[r].step \in {"write", "save"} => request[r].status \in Asked

\* A socket is greeted when it is open, and leaves a timer when it is closed.
InOrder ==
  \A s \in Sockets : /\ socket[s] = "new" => greeting[s].step = "none"
                     /\ socket[s] # "closed" => timer[s].step = "none"

TimerIsRight == (\E s \in Sockets : timer[s].step = "write") => raced \/ Open = {}

GreetingIsDue ==
  NobodyHides =>
    \/ Open = {} \/ raced \/ status # "offline"
    \/ \E s \in Sockets : greeting[s].step = "write"

\* Whoever is about to tell has read what is stored.
TellersAgree ==
  /\ \A s \in Sockets : greeting[s].step = "tell" => greeting[s].found = status
  /\ \A s \in Sockets : timer[s].step = "tell" => timer[s].found = status
  /\ \A r \in Requests : request[r].step = "tell" => request[r].found = status

Due ==
  \/ \E s \in Sockets : greeting[s].step \in {"read", "tell"} \/ timer[s].step \in {"read", "tell"}
  \/ \E r \in Requests : request[r].step \in {"read", "tell"}

TellIsDue ==
  \/ untold \/ crossed \/ status = "gone"
  \/ TellersAgree /\ (shownStatus = status \/ Due)

PresenceInv ==
  /\ PresenceTypeOK /\ ConnectionsAreCounted /\ InOrder
  /\ RequestsAsk /\ TimerIsRight /\ GreetingIsDue /\ TellIsDue
-----------------------------------------------------------------------------
(* What greetings, timers and requests hold *)

LEMMA Steps ==
  /\ \A x : To(x).step = x
  /\ \A f : [step |-> "tell", found |-> f].step = "tell" /\ [step |-> "tell", found |-> f].found = f
BY DEF To

LEMMA States ==
  /\ {To("none"), To("read"), To("write")} \subseteq Greeting
  /\ {To("none"), To("read"), To("write"), To("running"), To("due")} \subseteq Timeout
  /\ {To("none"), To("read")} \subseteq Request
  /\ \A f \in Status \cup {"gone"} :
       [step |-> "tell", found |-> f] \in Greeting \cap Timeout \cap Request
BY DEF To, Update, Greeting, Timeout, Request

LEMMA Found ==
  /\ \A u \in Greeting \cup Timeout \cup Request : u.step = "tell" => u.found \in Status \cup {"gone"}
  /\ \A u \in Request : u.step \in {"write", "save"} => u.status \in Status
  /\ \A u \in Request : u.step = "keep" => u.found \in Status
BY DEF Update, Greeting, Timeout, Request

\* What a write leaves in the columns.
LEMMA WriteTypes ==
  ASSUME PresenceTypeOK, NEW new \in Status, Write(new)
  PROVE  status' \in Status \cup {"gone"} /\ untold' \in BOOLEAN /\ crossed' \in BOOLEAN
<1>1. Telling \in BOOLEAN
  BY DEF Telling
<1> QED BY <1>1 DEF Write, PresenceTypeOK

-----------------------------------------------------------------------------
(* Sockets *)

LEMMA OpenIsFinite == IsFiniteSet(Open) /\ Cardinality(Open) \in 0 .. Cardinality(Sockets)
<1>1. Open \subseteq Sockets
  BY DEF Open
<1>2. IsFiniteSet(Sockets)
  BY PresenceAssumption
<1>3. IsFiniteSet(Open) /\ Cardinality(Open) <= Cardinality(Sockets)
  BY <1>1, <1>2, FS_Subset
<1>4. Cardinality(Open) \in Nat /\ Cardinality(Sockets) \in Nat
  BY <1>2, <1>3, FS_CardinalityType
<1> QED BY <1>3, <1>4

\* A socket that opens is counted.
LEMMA Opens ==
  ASSUME socket \in [Sockets -> {"new", "open", "closed"}], ConnectionsAreCounted,
         NEW s \in Sockets, socket[s] = "new",
         Moves(socket, s, "open"), connections' = connections + 1
  PROVE  /\ socket' \in [Sockets -> {"new", "open", "closed"}]
         /\ ConnectionsAreCounted'
         /\ connections' \in 0 .. Cardinality(Sockets)
<1>1. socket' \in [Sockets -> {"new", "open", "closed"}]
  BY DEF Moves
<1>2. Open' = Open \cup {s} /\ s \notin Open
  BY DEF Moves, Open
<1>3. Cardinality(Open \cup {s}) = Cardinality(Open) + 1
  BY <1>2, OpenIsFinite, FS_AddElement
<1>4. Open' \subseteq Sockets /\ IsFiniteSet(Sockets)
  BY PresenceAssumption DEF Open
<1>5. Cardinality(Open') \in Nat /\ Cardinality(Open') <= Cardinality(Sockets)
      /\ Cardinality(Sockets) \in Nat
  BY <1>4, FS_Subset, FS_CardinalityType
<1>6. connections' = Cardinality(Open')
  BY <1>2, <1>3 DEF ConnectionsAreCounted
<1>7. ConnectionsAreCounted'
  BY <1>6 DEF ConnectionsAreCounted
<1> QED BY <1>1, <1>5, <1>6, <1>7

\* A socket that was never open is no connection.
LEMMA Refuses ==
  ASSUME socket \in [Sockets -> {"new", "open", "closed"}], ConnectionsAreCounted,
         NEW s \in Sockets, socket[s] = "new",
         Moves(socket, s, "closed"), connections' = connections
  PROVE  /\ socket' \in [Sockets -> {"new", "open", "closed"}]
         /\ ConnectionsAreCounted' /\ Open' = Open
<1>1. socket' \in [Sockets -> {"new", "open", "closed"}]
  BY DEF Moves
<1>2. Open' = Open
  BY DEF Moves, Open
<1> QED BY <1>1, <1>2 DEF ConnectionsAreCounted

\* A socket that closes is counted no more; the timer starts with the last one.
LEMMA Disconnected ==
  ASSUME PresenceTypeOK, ConnectionsAreCounted,
         NEW s \in Sockets, socket[s] = "open", Disconnects(s)
  PROVE  /\ socket' \in [Sockets -> {"new", "open", "closed"}]
         /\ connections' \in 0 .. Cardinality(Sockets)
         /\ timer' \in [Sockets -> Timeout]
         /\ ConnectionsAreCounted'
         /\ Open' \subseteq Open
         /\ \A t \in Sockets : timer'[t] # timer[t] => timer'[t] = To("running") /\ t = s
         /\ timer' # timer => Open' = {}
<1>1. socket' \in [Sockets -> {"new", "open", "closed"}]
  BY DEF Disconnects, Moves, PresenceTypeOK
<1>2. Open' = Open \ {s} /\ s \in Open
  BY DEF Disconnects, Moves, Open, PresenceTypeOK
<1>3. Cardinality(Open \ {s}) = Cardinality(Open) - 1
  BY <1>2, OpenIsFinite, FS_RemoveElement
<1>4. Cardinality(Open) # 0
  BY <1>2, OpenIsFinite, FS_EmptySet
<1>5. connections' = Cardinality(Open') /\ connections' \in 0 .. Cardinality(Sockets)
  <2>1. connections' = connections - 1
    BY <1>4 DEF ConnectionsAreCounted, Disconnects
  <2>2. connections' = Cardinality(Open')
    BY <2>1, <1>2, <1>3 DEF ConnectionsAreCounted
  <2>3. connections \in Nat /\ connections # 0 /\ Cardinality(Sockets) \in Nat
        /\ connections <= Cardinality(Sockets)
    BY <1>4, OpenIsFinite, PresenceAssumption, FS_CardinalityType DEF ConnectionsAreCounted
  <2> QED BY <2>1, <2>2, <2>3
<1>6. ConnectionsAreCounted'
  BY <1>5 DEF ConnectionsAreCounted
<1>7. timer' \in [Sockets -> Timeout]
  BY States DEF Disconnects, Moves, PresenceTypeOK
<1>8. \A t \in Sockets : timer'[t] # timer[t] => timer'[t] = To("running") /\ t = s
  BY DEF Disconnects, Moves, PresenceTypeOK
<1>9. ASSUME timer' # timer PROVE Open' = {}
  <2>1. connections' = 0
    BY <1>9 DEF Disconnects
  <2>2. IsFiniteSet(Open \ {s})
    BY OpenIsFinite, FS_Subset
  <2> QED BY <2>1, <2>2, <1>2, <1>5, FS_EmptySet
<1> QED BY <1>1, <1>2, <1>5, <1>6, <1>7, <1>8, <1>9
-----------------------------------------------------------------------------
(* The initial states, and the steps *)

LEMMA PresenceInitInv == PresenceInit => PresenceInv
<1> SUFFICES ASSUME PresenceInit PROVE PresenceInv
  OBVIOUS
<1>1. Open = {}
  BY DEF PresenceInit, Open
<1>2. Cardinality({}) = 0 /\ Cardinality(Sockets) \in Nat
  BY FS_EmptySet, FS_CardinalityType, PresenceAssumption
<1>3. ConnectionsAreCounted
  BY <1>1, <1>2 DEF PresenceInit, ConnectionsAreCounted
<1>4. PresenceTypeOK
  <2>2. request \in [Requests -> Request] /\ greeting \in [Sockets -> Greeting]
        /\ timer \in [Sockets -> Timeout]
    BY States DEF PresenceInit
  <2>3. connections \in 0 .. Cardinality(Sockets)
    BY <1>2 DEF PresenceInit
  <2>4. status \in Status \cup {"gone"} /\ shownStatus \in Status
    BY DEF PresenceInit, Status
  <2>5. updates \in 0 .. MaxUpdates /\ crashes \in Nat
    BY PresenceAssumption DEF PresenceInit
  <2> QED BY <2>2, <2>3, <2>4, <2>5 DEF PresenceInit, PresenceTypeOK
<1>5. RequestsAsk
  BY Steps DEF PresenceInit, RequestsAsk
<1>6. InOrder /\ TimerIsRight /\ GreetingIsDue /\ TellIsDue
  BY <1>1, Steps DEF PresenceInit, InOrder, TimerIsRight, GreetingIsDue, TellIsDue, TellersAgree
<1> QED BY <1>3, <1>4, <1>5, <1>6 DEF PresenceInv

\* Whatever a timer, a greeting and a request do, nothing else of the sockets changes.
LEMMA SocketsStay ==
  ASSUME ConnectionsAreCounted, UNCHANGED <<socket, connections>>
  PROVE  ConnectionsAreCounted' /\ Open' = Open
BY DEF ConnectionsAreCounted, Open

LEMMA ConnectInv == ASSUME PresenceInv, NEW s \in Sockets, Connect(s) PROVE PresenceInv'
<1> USE DEF PresenceInv
<1>1. /\ socket' \in [Sockets -> {"new", "open", "closed"}]
      /\ ConnectionsAreCounted' /\ connections' \in 0 .. Cardinality(Sockets)
  BY Opens DEF Connect, PresenceTypeOK
<1>2. PresenceTypeOK'
  BY <1>1, Steps, States DEF Connect, Moves, PresenceTypeOK
<1>3. RequestsAsk' /\ InOrder'
  BY Steps DEF Connect, Moves, RequestsAsk, InOrder, PresenceTypeOK
<1>4. TimerIsRight'
  BY Steps DEF Connect, TimerIsRight
<1>5. GreetingIsDue'
  BY Steps DEF Connect, Moves, GreetingIsDue, PresenceTypeOK
<1>6. TellIsDue'
  <2>1. greeting' = [greeting EXCEPT ![s] = To("write")] /\ greeting[s].step = "none"
    BY DEF Connect, Moves, InOrder, PresenceTypeOK
  <2> QED BY <2>1, Steps DEF Connect, TellIsDue, TellersAgree, Due, PresenceTypeOK
<1> QED BY <1>1, <1>2, <1>3, <1>4, <1>5, <1>6

LEMMA RefuseInv == ASSUME PresenceInv, NEW s \in Sockets, Refuse(s) PROVE PresenceInv'
<1> USE DEF PresenceInv
<1>1. /\ socket' \in [Sockets -> {"new", "open", "closed"}]
      /\ ConnectionsAreCounted' /\ Open' = Open
  BY Refuses DEF Refuse, PresenceTypeOK
<1>2. PresenceTypeOK'
  BY <1>1, Steps, States DEF Refuse, PresenceTypeOK
<1>3. RequestsAsk' /\ InOrder' /\ TimerIsRight' /\ GreetingIsDue' /\ TellIsDue'
  BY <1>1, Steps DEF Refuse, Moves, InOrder, PresenceTypeOK, RequestsAsk, TimerIsRight, GreetingIsDue,
              TellIsDue, TellersAgree, Due
<1> QED BY <1>1, <1>2, <1>3

LEMMA CloseInv == ASSUME PresenceInv, NEW s \in Sockets, Close(s) PROVE PresenceInv'
<1> USE DEF PresenceInv
<1>1. /\ socket' \in [Sockets -> {"new", "open", "closed"}]
      /\ connections' \in 0 .. Cardinality(Sockets)
      /\ timer' \in [Sockets -> Timeout]
      /\ ConnectionsAreCounted'
      /\ Open' \subseteq Open
      /\ \A t \in Sockets : timer'[t] # timer[t] => timer'[t] = To("running") /\ t = s
  BY Disconnected DEF Close
<1>2. PresenceTypeOK'
  BY <1>1, Steps, States DEF Close, PresenceTypeOK
<1>3. RequestsAsk' /\ InOrder'
  BY <1>1, Steps DEF Close, Disconnects, Moves, RequestsAsk, InOrder, PresenceTypeOK
<1>4. TimerIsRight'
  BY <1>1, Steps DEF Close, TimerIsRight
<1>5. GreetingIsDue'
  BY <1>1, Steps DEF Close, GreetingIsDue
<1>6. TellIsDue'
  <2>1. timer[s].step = "none"
    BY DEF Close, InOrder
  <2>2. \A q \in Sockets : timer'[q] = timer[q] \/ (q = s /\ timer'[q] = To("running"))
    BY <1>1
  <2> QED BY <2>1, <2>2, Steps DEF Close, TellIsDue, TellersAgree, Due
<1> QED BY <1>1, <1>2, <1>3, <1>4, <1>5, <1>6

LEMMA WriteOnlineInv == ASSUME PresenceInv, NEW s \in Sockets, WriteOnline(s) PROVE PresenceInv'
<1> USE DEF PresenceInv
<1>1. ConnectionsAreCounted' /\ Open' = Open
  BY SocketsStay DEF WriteOnline
<1>2. PresenceTypeOK'
  <2>1. status' \in Status \cup {"gone"} /\ untold' \in BOOLEAN /\ crossed' \in BOOLEAN
    BY WriteTypes DEF WriteOnline, Status
  <2> QED BY <2>1, Steps, States DEF WriteOnline, Moves, PresenceTypeOK
<1>3. RequestsAsk' /\ InOrder'
  BY Steps DEF WriteOnline, Write, Moves, RequestsAsk, InOrder, PresenceTypeOK, Status
<1>4. TimerIsRight'
  BY <1>1, Steps DEF WriteOnline, Moves, TimerIsRight, PresenceTypeOK
<1>5. GreetingIsDue'
  BY <1>1, Steps DEF WriteOnline, Write, Moves, GreetingIsDue, TimerIsRight, RequestsAsk, NobodyHides,
              PresenceTypeOK
<1>6. TellIsDue'
  <2>1. CASE Telling
    BY <2>1 DEF WriteOnline, Write, TellIsDue
  <2>2. CASE ~Telling
    <3>1. TellersAgree'
      BY <2>2, Steps DEF WriteOnline, Telling, Moves, TellersAgree, PresenceTypeOK
    <3>2. Due'
      BY Steps DEF WriteOnline, Moves, Due, PresenceTypeOK
    <3> QED BY <3>1, <3>2 DEF TellIsDue
  <2> QED BY <2>1, <2>2
<1> QED BY <1>1, <1>2, <1>3, <1>4, <1>5, <1>6

LEMMA ReadOnlineInv == ASSUME PresenceInv, NEW s \in Sockets, ReadOnline(s) PROVE PresenceInv'
<1> USE DEF PresenceInv
<1>1. ConnectionsAreCounted' /\ Open' = Open
  BY SocketsStay DEF ReadOnline
<1>2. PresenceTypeOK'
  BY Steps, States DEF ReadOnline, Moves, PresenceTypeOK
<1>3. RequestsAsk' /\ InOrder'
  BY Steps DEF ReadOnline, Moves, RequestsAsk, InOrder, PresenceTypeOK
<1>4. TimerIsRight'
  BY <1>1, Steps DEF ReadOnline, Moves, TimerIsRight, PresenceTypeOK
<1>5. GreetingIsDue'
  BY <1>1, Steps DEF ReadOnline, Moves, GreetingIsDue, TimerIsRight, RequestsAsk, NobodyHides,
              PresenceTypeOK
<1>6. TellIsDue'
  BY Steps DEF ReadOnline, Moves, TellIsDue, TellersAgree, Due, PresenceTypeOK
<1> QED BY <1>1, <1>2, <1>3, <1>4, <1>5, <1>6

LEMMA TellOnlineInv == ASSUME PresenceInv, NEW s \in Sockets, TellOnline(s) PROVE PresenceInv'
<1> USE DEF PresenceInv
<1>1. ConnectionsAreCounted' /\ Open' = Open
  BY SocketsStay DEF TellOnline
<1>2. PresenceTypeOK'
  <2>1. shownStatus' \in Status
    BY Found DEF TellOnline, Tells, PresenceTypeOK
  <2> QED BY <2>1, Steps, States DEF TellOnline, Tells, Moves, PresenceTypeOK
<1>3. RequestsAsk' /\ InOrder'
  BY Steps DEF TellOnline, Tells, Moves, RequestsAsk, InOrder, PresenceTypeOK
<1>4. TimerIsRight'
  BY <1>1, Steps DEF TellOnline, Tells, Moves, TimerIsRight, PresenceTypeOK
<1>5. GreetingIsDue'
  BY <1>1, Steps DEF TellOnline, Tells, Moves, GreetingIsDue, TimerIsRight, RequestsAsk, NobodyHides,
              PresenceTypeOK
<1>6. TellIsDue'
  BY Steps DEF TellOnline, Tells, Moves, TellIsDue, TellersAgree, Due, PresenceTypeOK
<1> QED BY <1>1, <1>2, <1>3, <1>4, <1>5, <1>6

LEMMA RejectGoneInv == ASSUME PresenceInv, NEW s \in Sockets, RejectGone(s) PROVE PresenceInv'
<1> USE DEF PresenceInv
<1>1. /\ socket' \in [Sockets -> {"new", "open", "closed"}]
      /\ connections' \in 0 .. Cardinality(Sockets)
      /\ timer' \in [Sockets -> Timeout]
      /\ ConnectionsAreCounted'
      /\ Open' \subseteq Open
      /\ \A t \in Sockets : timer'[t] # timer[t] => timer'[t] = To("running") /\ t = s
  <2>1. CASE socket[s] = "open"
    BY <2>1, Disconnected DEF RejectGone
  <2>2. CASE socket[s] # "open"
    <3>1. UNCHANGED <<socket, connections, timer>>
      BY <2>2 DEF RejectGone
    <3> QED BY <3>1, SocketsStay DEF PresenceTypeOK
  <2> QED BY <2>1, <2>2
<1>2. PresenceTypeOK'
  BY <1>1, Steps, States DEF RejectGone, Moves, PresenceTypeOK
<1>3. RequestsAsk'
  BY Steps DEF RejectGone, RequestsAsk
<1>4. InOrder'
  <2>1. socket[s] # "new"
    BY DEF RejectGone, InOrder
  <2>2. socket' = socket \/ socket' = [socket EXCEPT ![s] = "closed"]
    BY DEF RejectGone, Disconnects, Moves
  <2>3. timer' = timer \/ (timer' = [timer EXCEPT ![s] = To("running")] /\ socket'[s] = "closed")
    BY DEF RejectGone, Disconnects, Moves, PresenceTypeOK
  <2> QED BY <2>1, <2>2, <2>3 DEF RejectGone, Moves, InOrder, PresenceTypeOK
<1>5. TimerIsRight'
  BY <1>1, Steps DEF RejectGone, TimerIsRight
<1>6. GreetingIsDue'
  <2>1. greeting' = [greeting EXCEPT ![s] = To("none")] /\ greeting[s].step = "tell"
    BY DEF RejectGone, Moves
  <2> QED BY <1>1, <2>1, Steps DEF RejectGone, GreetingIsDue, PresenceTypeOK
<1>7. TellIsDue'
  BY DEF RejectGone, TellIsDue, TellersAgree
<1> QED BY <1>1, <1>2, <1>3, <1>4, <1>5, <1>6, <1>7
-----------------------------------------------------------------------------
(* The timer *)

LEMMA FiveMinutesInv == ASSUME PresenceInv, FiveMinutesPass PROVE PresenceInv'
<1> USE DEF PresenceInv
<1>1. ConnectionsAreCounted' /\ Open' = Open
  BY SocketsStay DEF FiveMinutesPass
<1>2. PresenceTypeOK'
  BY Steps, States DEF FiveMinutesPass, Write, Moves, PresenceTypeOK
<1>3. RequestsAsk' /\ InOrder'
  BY Steps DEF FiveMinutesPass, Write, Moves, RequestsAsk, InOrder, PresenceTypeOK
<1>4. TimerIsRight'
  BY <1>1, Steps DEF FiveMinutesPass, Moves, TimerIsRight, PresenceTypeOK
<1>5. GreetingIsDue'
  BY <1>1, Steps DEF FiveMinutesPass, Write, Moves, GreetingIsDue, TimerIsRight, RequestsAsk,
              NobodyHides, PresenceTypeOK
<1>6. TellIsDue'
  BY Steps DEF FiveMinutesPass, Write, Moves, TellIsDue, TellersAgree, Due, PresenceTypeOK
<1> QED BY <1>1, <1>2, <1>3, <1>4, <1>5, <1>6

LEMMA ElapseInv == ASSUME PresenceInv, NEW s \in Sockets, Elapse(s) PROVE PresenceInv'
<1> USE DEF PresenceInv
<1>1. ConnectionsAreCounted' /\ Open' = Open
  BY SocketsStay DEF Elapse
<1>2. PresenceTypeOK'
  BY Steps, States DEF Elapse, Write, Moves, PresenceTypeOK
<1>3. RequestsAsk' /\ InOrder'
  BY Steps DEF Elapse, Write, Moves, RequestsAsk, InOrder, PresenceTypeOK
<1>4. TimerIsRight'
  <2>1. connections = 0 => Open = {}
    BY OpenIsFinite, FS_EmptySet DEF ConnectionsAreCounted
  <2> QED BY <1>1, <2>1, Steps DEF Elapse, Moves, TimerIsRight, PresenceTypeOK
<1>5. GreetingIsDue'
  BY <1>1, Steps DEF Elapse, Write, Moves, GreetingIsDue, TimerIsRight, RequestsAsk, NobodyHides,
              PresenceTypeOK
<1>6. TellIsDue'
  BY Steps DEF Elapse, Write, Moves, TellIsDue, TellersAgree, Due, PresenceTypeOK
<1> QED BY <1>1, <1>2, <1>3, <1>4, <1>5, <1>6

LEMMA WriteOfflineInv == ASSUME PresenceInv, NEW s \in Sockets, WriteOffline(s) PROVE PresenceInv'
<1> USE DEF PresenceInv
<1>1. ConnectionsAreCounted' /\ Open' = Open
  BY SocketsStay DEF WriteOffline
<1>2. PresenceTypeOK'
  <2>1. status' \in Status \cup {"gone"} /\ untold' \in BOOLEAN /\ crossed' \in BOOLEAN
    BY WriteTypes DEF WriteOffline, Status
  <2> QED BY <2>1, Steps, States DEF WriteOffline, Moves, PresenceTypeOK
<1>3. RequestsAsk' /\ InOrder'
  BY Steps DEF WriteOffline, Write, Moves, RequestsAsk, InOrder, PresenceTypeOK, Status
<1>4. TimerIsRight'
  BY <1>1, Steps DEF WriteOffline, Moves, TimerIsRight, PresenceTypeOK
<1>5. GreetingIsDue'
  BY <1>1, Steps DEF WriteOffline, Write, Moves, GreetingIsDue, TimerIsRight, RequestsAsk, NobodyHides,
              PresenceTypeOK
<1>6. TellIsDue'
  <2>1. CASE Telling
    BY <2>1 DEF WriteOffline, Write, TellIsDue
  <2>2. CASE ~Telling
    <3>1. TellersAgree'
      BY <2>2, Steps DEF WriteOffline, Telling, Moves, TellersAgree, PresenceTypeOK
    <3>2. Due'
      BY Steps DEF WriteOffline, Moves, Due, PresenceTypeOK
    <3> QED BY <3>1, <3>2 DEF TellIsDue
  <2> QED BY <2>1, <2>2
<1> QED BY <1>1, <1>2, <1>3, <1>4, <1>5, <1>6

LEMMA ReadOfflineInv == ASSUME PresenceInv, NEW s \in Sockets, ReadOffline(s) PROVE PresenceInv'
<1> USE DEF PresenceInv
<1>1. ConnectionsAreCounted' /\ Open' = Open
  BY SocketsStay DEF ReadOffline
<1>2. PresenceTypeOK'
  BY Steps, States DEF ReadOffline, Moves, PresenceTypeOK
<1>3. RequestsAsk' /\ InOrder'
  BY Steps DEF ReadOffline, Moves, RequestsAsk, InOrder, PresenceTypeOK
<1>4. TimerIsRight'
  BY <1>1, Steps DEF ReadOffline, Moves, TimerIsRight, PresenceTypeOK
<1>5. GreetingIsDue'
  BY <1>1, Steps DEF ReadOffline, Moves, GreetingIsDue, TimerIsRight, RequestsAsk, NobodyHides,
              PresenceTypeOK
<1>6. TellIsDue'
  BY Steps DEF ReadOffline, Moves, TellIsDue, TellersAgree, Due, PresenceTypeOK
<1> QED BY <1>1, <1>2, <1>3, <1>4, <1>5, <1>6

LEMMA TellOfflineInv == ASSUME PresenceInv, NEW s \in Sockets, TellOffline(s) PROVE PresenceInv'
<1> USE DEF PresenceInv
<1>1. ConnectionsAreCounted' /\ Open' = Open
  BY SocketsStay DEF TellOffline
<1>2. PresenceTypeOK'
  <2>1. shownStatus' \in Status
    BY Found DEF TellOffline, Tells, PresenceTypeOK
  <2> QED BY <2>1, Steps, States DEF TellOffline, Tells, Moves, PresenceTypeOK
<1>3. RequestsAsk' /\ InOrder'
  BY Steps DEF TellOffline, Tells, Moves, RequestsAsk, InOrder, PresenceTypeOK
<1>4. TimerIsRight'
  BY <1>1, Steps DEF TellOffline, Tells, Moves, TimerIsRight, PresenceTypeOK
<1>5. GreetingIsDue'
  BY <1>1, Steps DEF TellOffline, Tells, Moves, GreetingIsDue, TimerIsRight, RequestsAsk, NobodyHides,
              PresenceTypeOK
<1>6. TellIsDue'
  BY Steps DEF TellOffline, Tells, Moves, TellIsDue, TellersAgree, Due, PresenceTypeOK
<1> QED BY <1>1, <1>2, <1>3, <1>4, <1>5, <1>6
-----------------------------------------------------------------------------
(* Requests for a status *)

\* A request begins: it tells of nothing yet, nor is it about to repair anything.
LEMMA BeginsInv ==
  ASSUME PresenceInv, NEW r \in Requests, NEW s \in Request, BeginsRequest(r, s),
         s.step \in {"write", "save"} => s.status \in Asked, s.step \notin {"read", "tell"}
  PROVE  PresenceInv'
<1> USE DEF PresenceInv
<1>1. ConnectionsAreCounted' /\ Open' = Open
  BY SocketsStay DEF BeginsRequest
<1>2. request' \in [Requests -> Request]
  BY DEF BeginsRequest, Moves, PresenceTypeOK
<1>3. updates' \in 0 .. MaxUpdates
  BY PresenceAssumption DEF BeginsRequest, PresenceTypeOK
<1>4. PresenceTypeOK'
  BY <1>2, <1>3, Steps, States DEF BeginsRequest, PresenceTypeOK
<1>5. RequestsAsk' /\ InOrder'
  BY Steps DEF BeginsRequest, Moves, RequestsAsk, InOrder, PresenceTypeOK
<1>6. TimerIsRight' /\ GreetingIsDue'
  BY <1>1, Steps DEF BeginsRequest, TimerIsRight, GreetingIsDue
<1>7. TellIsDue'
  <2>1. request[r].step = "none"
    BY DEF BeginsRequest
  <2>2. request' = [request EXCEPT ![r] = s]
    BY DEF BeginsRequest, Moves
  <2> QED BY <2>1, <2>2 DEF BeginsRequest, TellIsDue, TellersAgree, Due, PresenceTypeOK
<1> QED BY <1>1, <1>4, <1>5, <1>6, <1>7

LEMMA BeginInv ==
  ASSUME PresenceInv, NEW r \in Requests,
         BeginStatusUpdate(r) \/ BeginSaveStatus(r) \/ BeginSaveRow(r)
  PROVE  PresenceInv'
<1>1. ASSUME NEW new \in Asked, NEW step \in {"write", "save"},
             BeginsRequest(r, [step |-> step, status |-> new])
      PROVE  PresenceInv'
  <2>1. [step |-> step, status |-> new] \in Request
    BY DEF Request, Status
  <2> QED BY <1>1, <2>1, BeginsInv
<1>2. ASSUME NEW found \in Status, BeginsRequest(r, [step |-> "keep", found |-> found])
      PROVE  PresenceInv'
  <2>1. [step |-> "keep", found |-> found] \in Request
    BY DEF Request
  <2> QED BY <1>2, <2>1, BeginsInv
<1>3. CASE BeginStatusUpdate(r)
  <2>1. PICK new \in Asked : BeginsRequest(r, [step |-> "write", status |-> new])
    BY <1>3 DEF BeginStatusUpdate
  <2> QED BY <1>1, <2>1
<1>4. CASE BeginSaveStatus(r)
  <2>1. PICK new \in Asked : BeginsRequest(r, [step |-> "save", status |-> new])
    BY <1>4 DEF BeginSaveStatus
  <2> QED BY <1>1, <2>1
<1>5. CASE BeginSaveRow(r)
  <2>1. PICK found \in Status : found = status
    BY <1>5 DEF BeginSaveRow, PresenceInv, PresenceTypeOK
  <2>2. BeginsRequest(r, [step |-> "keep", found |-> found])
    BY <1>5, <2>1 DEF BeginSaveRow, BeginsRequest, Moves
  <2> QED BY <1>2, <2>2
<1> QED BY <1>3, <1>4, <1>5

\* A request moves on or ends.
LEMMA RequestMoves ==
  ASSUME PresenceTypeOK, RequestsAsk, NEW r \in Requests,
         NEW s \in Request, s.step \notin {"write", "save"}, Moves(request, r, s)
  PROVE  request' \in [Requests -> Request] /\ RequestsAsk'
BY DEF Moves, RequestsAsk, PresenceTypeOK

LEMMA WriteStatusInv == ASSUME PresenceInv, NEW r \in Requests, WriteStatus(r) PROVE PresenceInv'
<1> USE DEF PresenceInv
<1>1. ConnectionsAreCounted' /\ Open' = Open
  BY SocketsStay DEF WriteStatus
<1>2. request' \in [Requests -> Request] /\ RequestsAsk'
  BY RequestMoves, States, Steps DEF WriteStatus, PresenceTypeOK
<1>3. PresenceTypeOK'
  <2>1. /\ request[r].step \in {"write", "save"} => request[r].status \in Status
        /\ request[r].step = "keep" => request[r].found \in Status
        /\ request[r].step = "tell" => request[r].found \in Status \cup {"gone"}
    BY Found DEF PresenceTypeOK
  <2>2. status' \in Status \cup {"gone"} /\ untold' \in BOOLEAN /\ crossed' \in BOOLEAN
    BY <2>1, WriteTypes DEF WriteStatus
  <2> QED BY <1>2, <2>2 DEF WriteStatus, PresenceTypeOK
<1>4. InOrder' /\ TimerIsRight'
  BY <1>1, Steps DEF WriteStatus, InOrder, TimerIsRight
<1>5. GreetingIsDue'
  BY <1>1, Steps DEF WriteStatus, Write, GreetingIsDue, RequestsAsk, NobodyHides
<1>6. TellIsDue'
  <2>1. CASE Telling
    BY <2>1 DEF WriteStatus, Write, TellIsDue
  <2>2. CASE ~Telling
    <3>1. TellersAgree'
      BY <2>2, Steps DEF WriteStatus, Telling, Moves, TellersAgree, PresenceTypeOK
    <3>2. Due'
      BY Steps DEF WriteStatus, Moves, Due, PresenceTypeOK
    <3> QED BY <3>1, <3>2 DEF TellIsDue
  <2> QED BY <2>1, <2>2
<1> QED BY <1>1, <1>2, <1>3, <1>4, <1>5, <1>6

LEMMA ReadStatusInv == ASSUME PresenceInv, NEW r \in Requests, ReadStatus(r) PROVE PresenceInv'
<1> USE DEF PresenceInv
<1>1. ConnectionsAreCounted' /\ Open' = Open
  BY SocketsStay DEF ReadStatus
<1>2. request' \in [Requests -> Request] /\ RequestsAsk'
  BY RequestMoves, States, Steps DEF ReadStatus, PresenceTypeOK
<1>3. PresenceTypeOK'
  <2>1. /\ request[r].step \in {"write", "save"} => request[r].status \in Status
        /\ request[r].step = "keep" => request[r].found \in Status
        /\ request[r].step = "tell" => request[r].found \in Status \cup {"gone"}
    BY Found DEF PresenceTypeOK
  <2> QED BY <1>2, <2>1 DEF ReadStatus, PresenceTypeOK
<1>4. InOrder' /\ TimerIsRight'
  BY <1>1, Steps DEF ReadStatus, InOrder, TimerIsRight
<1>5. GreetingIsDue'
  BY <1>1, Steps DEF ReadStatus, GreetingIsDue, RequestsAsk, NobodyHides
<1>6. TellIsDue'
  BY Steps DEF ReadStatus, Moves, TellIsDue, TellersAgree, Due, PresenceTypeOK
<1> QED BY <1>1, <1>2, <1>3, <1>4, <1>5, <1>6

LEMMA TellStatusInv == ASSUME PresenceInv, NEW r \in Requests, TellStatus(r) PROVE PresenceInv'
<1> USE DEF PresenceInv
<1>1. ConnectionsAreCounted' /\ Open' = Open
  BY SocketsStay DEF TellStatus
<1>2. request' \in [Requests -> Request] /\ RequestsAsk'
  BY RequestMoves, States, Steps DEF TellStatus, Tells, PresenceTypeOK
<1>3. PresenceTypeOK'
  <2>1. /\ request[r].step \in {"write", "save"} => request[r].status \in Status
        /\ request[r].step = "keep" => request[r].found \in Status
        /\ request[r].step = "tell" => request[r].found \in Status \cup {"gone"}
    BY Found DEF PresenceTypeOK
  <2> QED BY <1>2, <2>1 DEF TellStatus, Tells, PresenceTypeOK
<1>4. InOrder' /\ TimerIsRight'
  BY <1>1, Steps DEF TellStatus, Tells, InOrder, TimerIsRight
<1>5. GreetingIsDue'
  BY <1>1, Steps DEF TellStatus, Tells, GreetingIsDue, RequestsAsk, NobodyHides
<1>6. TellIsDue'
  BY Steps DEF TellStatus, Tells, Moves, TellIsDue, TellersAgree, Due, PresenceTypeOK
<1> QED BY <1>1, <1>2, <1>3, <1>4, <1>5, <1>6

LEMMA AnswerGoneInv == ASSUME PresenceInv, NEW r \in Requests, AnswerGone(r) PROVE PresenceInv'
<1> USE DEF PresenceInv
<1>1. ConnectionsAreCounted' /\ Open' = Open
  BY SocketsStay DEF AnswerGone
<1>2. request' \in [Requests -> Request] /\ RequestsAsk'
  BY RequestMoves, States, Steps DEF AnswerGone, PresenceTypeOK
<1>3. PresenceTypeOK'
  <2>1. /\ request[r].step \in {"write", "save"} => request[r].status \in Status
        /\ request[r].step = "keep" => request[r].found \in Status
        /\ request[r].step = "tell" => request[r].found \in Status \cup {"gone"}
    BY Found DEF PresenceTypeOK
  <2> QED BY <1>2, <2>1 DEF AnswerGone, PresenceTypeOK
<1>4. InOrder' /\ TimerIsRight'
  BY <1>1, Steps DEF AnswerGone, InOrder, TimerIsRight
<1>5. GreetingIsDue'
  BY <1>1, Steps DEF AnswerGone, GreetingIsDue, RequestsAsk, NobodyHides
<1>6. TellIsDue'
  BY Steps DEF AnswerGone, Moves, TellIsDue, TellersAgree, Due, PresenceTypeOK
<1> QED BY <1>1, <1>2, <1>3, <1>4, <1>5, <1>6

LEMMA SaveStatusInv == ASSUME PresenceInv, NEW r \in Requests, SaveStatus(r) PROVE PresenceInv'
<1> USE DEF PresenceInv
<1>1. ConnectionsAreCounted' /\ Open' = Open
  BY SocketsStay DEF SaveStatus
<1>2. request' \in [Requests -> Request] /\ RequestsAsk'
  BY RequestMoves, States, Steps DEF SaveStatus, PresenceTypeOK
<1>3. PresenceTypeOK'
  <2>1. /\ request[r].step \in {"write", "save"} => request[r].status \in Status
        /\ request[r].step = "keep" => request[r].found \in Status
        /\ request[r].step = "tell" => request[r].found \in Status \cup {"gone"}
    BY Found DEF PresenceTypeOK
  <2> QED BY <1>2, <2>1 DEF SaveStatus, Write, PresenceTypeOK
<1>4. InOrder' /\ TimerIsRight'
  BY <1>1, Steps DEF SaveStatus, InOrder, TimerIsRight
<1>5. GreetingIsDue'
  BY <1>1, Steps DEF SaveStatus, Write, GreetingIsDue, RequestsAsk, NobodyHides
<1>6. TellIsDue'
  BY Steps DEF SaveStatus, Write, Moves, TellIsDue, TellersAgree, Due, PresenceTypeOK
<1> QED BY <1>1, <1>2, <1>3, <1>4, <1>5, <1>6

LEMMA SaveRowInv == ASSUME PresenceInv, NEW r \in Requests, SaveRow(r) PROVE PresenceInv'
<1> USE DEF PresenceInv
<1>1. ConnectionsAreCounted' /\ Open' = Open
  BY SocketsStay DEF SaveRow
<1>2. request' \in [Requests -> Request] /\ RequestsAsk'
  BY RequestMoves, States, Steps DEF SaveRow, PresenceTypeOK
<1>3. PresenceTypeOK'
  <2>1. /\ request[r].step \in {"write", "save"} => request[r].status \in Status
        /\ request[r].step = "keep" => request[r].found \in Status
        /\ request[r].step = "tell" => request[r].found \in Status \cup {"gone"}
    BY Found DEF PresenceTypeOK
  <2> QED BY <1>2, <2>1 DEF SaveRow, Write, PresenceTypeOK
<1>4. InOrder' /\ TimerIsRight'
  BY <1>1, Steps DEF SaveRow, InOrder, TimerIsRight
<1>5. GreetingIsDue'
  BY <1>1, Steps DEF SaveRow, Write, GreetingIsDue, RequestsAsk, NobodyHides
<1>6. TellIsDue'
  BY Steps DEF SaveRow, Write, Moves, TellIsDue, TellersAgree, Due, PresenceTypeOK
<1> QED BY <1>1, <1>2, <1>3, <1>4, <1>5, <1>6
-----------------------------------------------------------------------------
(* The account goes, and the process dies *)

LEMMA DeleteUserInv == ASSUME PresenceInv, DeleteUser PROVE PresenceInv'
<1> USE DEF PresenceInv
<1>1. ConnectionsAreCounted' /\ Open' = Open
  BY SocketsStay DEF DeleteUser
<1>2. PresenceTypeOK' /\ RequestsAsk' /\ InOrder'
  BY Steps, States DEF DeleteUser, PresenceTypeOK, RequestsAsk, InOrder
<1>3. TimerIsRight' /\ GreetingIsDue' /\ TellIsDue'
  BY <1>1, Steps DEF DeleteUser, TimerIsRight, GreetingIsDue, TellIsDue, TellersAgree, Due
<1> QED BY <1>1, <1>2, <1>3

\* Nothing is under way afterwards, and nobody is connected.
LEMMA RestartsInv ==
  ASSUME PresenceInv, Restarts
  PROVE  PresenceInv'
<1> USE DEF PresenceInv
<1>1. Open' = {}
  BY DEF Restarts, Open, PresenceTypeOK
<1>2. ConnectionsAreCounted'
  <2>1. connections' = Cardinality(Open')
    BY <1>1, FS_EmptySet DEF Restarts
  <2> QED BY <2>1 DEF ConnectionsAreCounted
<1>3. connections' \in 0 .. Cardinality(Sockets)
  BY FS_CardinalityType, PresenceAssumption DEF Restarts
<1>4. request' \in [Requests -> Request] /\ RequestsAsk'
  BY Steps, States DEF Restarts, RequestsAsk
<1>5. PresenceTypeOK'
  BY <1>3, <1>4, Steps, States DEF Restarts, PresenceTypeOK
<1>6. InOrder'
  BY Steps DEF Restarts, InOrder
<1>7. TimerIsRight' /\ GreetingIsDue'
  BY <1>1, Steps DEF Restarts, TimerIsRight, GreetingIsDue
<1>8. TellIsDue'
  <2>1. TellersAgree'
    BY Steps DEF Restarts, TellersAgree
  <2> QED BY <2>1 DEF Restarts, TellIsDue
<1> QED BY <1>2, <1>4, <1>5, <1>6, <1>7, <1>8

LEMMA CrashInv == ASSUME PresenceInv, Crash PROVE PresenceInv'
BY RestartsInv DEF Crash

LEMMA TimerRejectsInv == ASSUME PresenceInv, NEW s \in Sockets, TimerRejects(s) PROVE PresenceInv'
BY RestartsInv DEF TimerRejects

LEMMA PresenceNextInv == PresenceInv /\ [PresenceNext]_presenceVars => PresenceInv'
<1> SUFFICES ASSUME PresenceInv, [PresenceNext]_presenceVars PROVE PresenceInv'
  OBVIOUS
<1>1. CASE UNCHANGED presenceVars
  BY <1>1 DEF presenceVars, PresenceInv, PresenceTypeOK, ConnectionsAreCounted, Open, InOrder,
              RequestsAsk,
              TimerIsRight, GreetingIsDue, TellIsDue, TellersAgree, Due
<1>2. ASSUME NEW s \in Sockets, Connect(s) \/ Refuse(s) \/ Close(s) PROVE PresenceInv'
  BY <1>2, ConnectInv, RefuseInv, CloseInv
<1>3. ASSUME NEW s \in Sockets, Greets(s) PROVE PresenceInv'
  BY <1>3, WriteOnlineInv, ReadOnlineInv, TellOnlineInv, RejectGoneInv DEF Greets
<1>4. ASSUME NEW s \in Sockets, Timer(s) PROVE PresenceInv'
  BY <1>4, ElapseInv, WriteOfflineInv, ReadOfflineInv, TellOfflineInv, TimerRejectsInv DEF Timer
<1>5. ASSUME NEW r \in Requests,
             BeginStatusUpdate(r) \/ BeginSaveStatus(r) \/ BeginSaveRow(r)
      PROVE  PresenceInv'
  BY <1>5, BeginInv
<1>6. ASSUME NEW r \in Requests, Serves(r) PROVE PresenceInv'
  BY <1>6, WriteStatusInv, ReadStatusInv, TellStatusInv, AnswerGoneInv, SaveStatusInv, SaveRowInv DEF Serves
<1>7. CASE FiveMinutesPass \/ DeleteUser \/ Crash
  BY <1>7, FiveMinutesInv, DeleteUserInv, CrashInv
<1> QED BY <1>1, <1>2, <1>3, <1>4, <1>5, <1>6, <1>7 DEF PresenceNext
-----------------------------------------------------------------------------
(* Theorems about the status *)

\* Sockets, timers, requests and the status have their types.
THEOREM PresenceTypes == PresenceSpec => []PresenceTypeOK
<1>1. PresenceInv => PresenceTypeOK
  BY DEF PresenceInv
<1> QED BY <1>1, PresenceInitInv, PresenceNextInv, PTL DEF PresenceSpec

\* userConnections counts the open sockets (chat.gateway.ts:43, 85, 105), however many
\* there are and in whatever order they are refused, closed or cut off.
THEOREM CountIsRight == PresenceSpec => []ConnectionsAreCounted
<1>1. PresenceInv => ConnectionsAreCounted
  BY DEF PresenceInv
<1> QED BY <1>1, PresenceInitInv, PresenceNextInv, PTL DEF PresenceSpec

\* No timer leaves a connected user OFFLINE (chat.gateway.ts:108-116), unless a connection
\* came while it was writing; users who ask to be offline are left aside.
THEOREM StaysOnline ==
  ASSUME NobodyHides
  PROVE  PresenceSpec => []ConnectedIsNotOffline
<1>1. PresenceInv => ConnectedIsNotOffline
  BY NobodyHides DEF PresenceInv, GreetingIsDue, ConnectedIsNotOffline, Working
<1> QED BY <1>1, PresenceInitInv, PresenceNextInv, PTL DEF PresenceSpec

\* However updates of the status overlap, for any number of sockets and of requests that
\* read and save the row meanwhile, everybody is left with the status that is stored
\* (users.service.ts:455, chat.gateway.ts:88, 111, 315); except after an update that was
\* written between another's reading and its telling, or a request that tells nobody.
THEOREM TellsWhatIsStored == PresenceSpec => []StatusIsShown
<1>1. PresenceInv => StatusIsShown
  <2>1. ~Working => ~Due
    BY DEF Working, Due
  <2> QED BY <2>1 DEF PresenceInv, TellIsDue, StatusIsShown
<1> QED BY <1>1, PresenceInitInv, PresenceNextInv, PTL DEF PresenceSpec
=============================================================================
