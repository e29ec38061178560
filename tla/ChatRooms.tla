------------------------------ MODULE ChatRooms ------------------------------
(***************************************************************************)
(* The messages of the chat: the rooms, messages, reactions and pins in the*)
(* database (chat-messages, chat-reactions and chat-pinned services), and  *)
(* what the gateway has told the clients that stay in the rooms.           *)
(*                                                                         *)
(* A step is one database statement, or what the handler does with its     *)
(* answer: the statements of two handlers go over connections of their     *)
(* own, so that a broadcast may come after another of what was read later. *)
(* An edit saves the row as it was read, so that a row that was deleted is *)
(* inserted again; the look for the row and the write of the save are one  *)
(* step.  A foreign key or a unique index refuses a statement, and the     *)
(* handler then ends with an error that only its client sees.              *)
(***************************************************************************)
EXTENDS Naturals

CONSTANTS
  Slots,        \* bound: the events the server may be working on at once
  Users,        \* the accounts
  Admins,       \* those with the role admin
  Rooms,        \* the names of rooms
  TeamRooms,    \* those that start with team_
  Texts,        \* bound: what is written in messages
  MaxMessages,  \* bound: how many messages are sent
  MaxEvents     \* bound: how many events and requests there are

ASSUME ChatAssumption ==
  /\ Admins \subseteq Users /\ TeamRooms \subseteq Rooms /\ MaxMessages \in Nat
  /\ MaxEvents \in Nat

VARIABLES
  rooms,           \* chat_rooms
  messages,        \* the table messages
  lastMessage,     \* its last id
  reactions,       \* chat_reactions, of one emoji
  lastReaction,    \* its last id
  pins,            \* chat_pinned: the room and the message
  events,          \* how many events and requests there were
  handlers,        \* what each handler will do next, and what it has read for it
  shown,           \* the messages that clients have been told of, and their text
  shownReactions,  \* the users that clients were last told to have reacted to a message
  shownRead,       \* the messages that clients were told to be read
  lost,            \* history: messages deleted while no edit was about to save them
  cleared,         \* history: messages deleted without telling anybody
  overwritten,     \* history: messages that an edit has saved though they had been deleted
                   \* or read meanwhile
  unseen,          \* history: messages that were asked to be pinned when they were not there
  crossedTexts,    \* history: messages last written when another handler had read, and not
                   \* yet told, what they were
  crossedReactions \* history: messages whose reactions were last written so

tables == <<rooms, messages, lastMessage, reactions, lastReaction, pins>>
told == <<shown, shownReactions, shownRead>>
crossings == <<crossedTexts, crossedReactions>>
history == <<lost, cleared, overwritten, unseen, crossings>>
vars == <<tables, events, handlers, told, history>>
-----------------------------------------------------------------------------
Ids == 1 .. MaxMessages
None == 0
Message == [id : Ids, room : Rooms, user : Users, text : Texts, reply : {None} \cup Ids,
            is_read : BOOLEAN]
Reaction == [id : Nat, message : Ids, user : Users]
Stored == {m.id : m \in messages}

TypeOK ==
  /\ rooms \subseteq Rooms
  /\ messages \subseteq Message /\ lastMessage \in {None} \cup Ids
  /\ \A m, n \in messages : m.id = n.id => m = n
  /\ \A m \in messages : m.room \in rooms /\ m.reply \in {None} \cup Stored
  /\ reactions \subseteq Reaction /\ \A r \in reactions : r.message \in Stored
  /\ lastReaction \in Nat
  /\ pins \subseteq rooms \X Stored
  /\ events \in 0 .. MaxEvents
  /\ DOMAIN shown \subseteq Ids /\ \A i \in DOMAIN shown : shown[i] \in Texts
  /\ shownReactions \in [Ids -> SUBSET Users]
  /\ shownRead \subseteq Ids /\ lost \subseteq Ids
  /\ cleared \subseteq Ids /\ overwritten \subseteq Ids /\ unseen \subseteq Ids
  /\ crossedTexts \subseteq Ids /\ crossedReactions \subseteq Ids

Idle == [step |-> "idle"]

Init ==
  /\ rooms = {} /\ messages = {} /\ lastMessage = None
  /\ reactions = {} /\ lastReaction = None /\ pins = {}
  /\ events = 0 /\ handlers = [h \in Slots |-> Idle]
  /\ shown = [i \in {} |-> None] /\ shownReactions = [i \in Ids |-> {}] /\ shownRead = {}
  /\ lost = {} /\ cleared = {} /\ overwritten = {} /\ unseen = {}
  /\ crossedTexts = {} /\ crossedReactions = {}

Row(i) == CHOOSE m \in messages : m.id = i

Goes(h, state) == handlers' = [handlers EXCEPT ![h] = state]

\* One more event may be handled.
Arrives == events < MaxEvents /\ events' = events + 1

Begins(h) == handlers[h] = Idle /\ Arrives

At(h, step) == handlers[h].step = step

Reads(h, state) == Goes(h, state) /\ UNCHANGED <<tables, told, history>>
-----------------------------------------------------------------------------
(* The database *)

\* The foreign keys of a message; it may be a reply to itself.
CanSave(row, id) == row.room \in rooms /\ row.reply \in {None, id} \cup Stored

\* Deletes messages, with their reactions and pins; replies to them are kept.
DeleteRows(S) ==
  /\ messages' = {[m EXCEPT !.reply = IF @ \in S THEN None ELSE @]
                  : m \in {x \in messages : x.id \notin S}}
  /\ pins' = {p \in pins : p[2] \notin S}
  /\ reactions' = {r \in reactions : r.message \notin S}

AboutToSave == {handlers[h].row.id : h \in {g \in Slots : At(g, "saveEdit")}}

Loses(S) == lost' = lost \cup ((S \cap Stored) \ AboutToSave)

\* Whether a handler has read, and not yet told, what message i was.
HasRead(i, steps) == \E g \in Slots : handlers[g].step \in steps /\ handlers[g].id = i

\* What is last written of message i crosses another handler, or all that is still told of
\* i will be read after it.
CrossesText(i, steps) ==
  crossedTexts' = IF HasRead(i, steps) THEN crossedTexts \cup {i} ELSE crossedTexts \ {i}

CrossesReactions(i) ==
  crossedReactions' = IF HasRead(i, {"tellReactions"}) THEN crossedReactions \cup {i}
                      ELSE crossedReactions \ {i}
-----------------------------------------------------------------------------
(* Access *)

\* canAccessRoom reads chat_room_members for the rooms of teams, which come and go
\* meanwhile: the answer may be either.
Entry(u, room, next) ==
  IF room \in TeamRooms /\ u \notin Admins THEN [step |-> "access", next |-> next] ELSE next

Enters(h, u, room, next) == Reads(h, Entry(u, room, next))

CheckAccess(h) ==
  /\ At(h, "access")
  /\ Reads(h, handlers[h].next) \/ Reads(h, Idle)

\* findRoomByMessageId is the first statement of what is asked of one message.
Asks(h, u, i, next) ==
  /\ Begins(h)
  /\ IF i \in Stored THEN Enters(h, u, Row(i).room, next) ELSE Reads(h, Idle)
-----------------------------------------------------------------------------
(* message:send *)

BeginSend(h, u, room, text, reply) ==
  /\ Begins(h)
  /\ Enters(h, u, room, [step |-> "findRoom", row |-> [room |-> room, user |-> u, text |-> text,
                                                      reply |-> reply, is_read |-> FALSE]])

FindRoom(h) ==
  /\ At(h, "findRoom")
  /\ Reads(h, [handlers[h] EXCEPT !.step = IF handlers[h].row.room \in rooms THEN "insertMessage" ELSE "insertRoom"])

\* The name is unique.
InsertRoom(h) ==
  /\ At(h, "insertRoom")
  /\ LET room == handlers[h].row.room IN
     /\ Goes(h, IF room \in rooms THEN Idle ELSE [handlers[h] EXCEPT !.step = "insertMessage"])
     /\ rooms' = rooms \cup {room}
  /\ UNCHANGED <<messages, lastMessage, reactions, lastReaction, pins, told, history>>

InsertMessage(h) ==
  /\ At(h, "insertMessage") /\ lastMessage < MaxMessages
  /\ LET id  == lastMessage + 1
         row == handlers[h].row
     IN  IF ~CanSave(row, id) THEN Reads(h, Idle)
         ELSE /\ messages' = messages \cup {[id |-> id, room |-> row.room, user |-> row.user,
                                             text |-> row.text, reply |-> row.reply, is_read |-> FALSE]}
              /\ lastMessage' = id
              /\ Goes(h, [step |-> "readSent", id |-> id])
              /\ UNCHANGED <<rooms, reactions, lastReaction, pins, told, history>>

\* formatMessage throws when the message is gone again.
ReadSent(h) ==
  /\ At(h, "readSent")
  /\ LET i == handlers[h].id IN
     Reads(h, IF i \in Stored THEN [step |-> "tellSent", id |-> i, text |-> Row(i).text] ELSE Idle)

Shows(i, text) == shown' = [j \in DOMAIN shown \cup {i} |-> IF j = i THEN text ELSE shown[j]]

TellSent(h) ==
  /\ At(h, "tellSent")
  /\ Shows(handlers[h].id, handlers[h].text)
  /\ Goes(h, Idle)
  /\ UNCHANGED <<tables, shownReactions, shownRead, history>>
-----------------------------------------------------------------------------
(* message:delete and message:edit *)

BeginDelete(h, u, i) == Asks(h, u, i, [step |-> "findToDelete", user |-> u, id |-> i])

FindToDelete(h) ==
  /\ At(h, "findToDelete")
  /\ LET i == handlers[h].id
         u == handlers[h].user
     IN  Reads(h, IF i \in Stored /\ (u \in Admins \/ Row(i).user = u)
                  THEN [step |-> "delete", id |-> i]
                  ELSE Idle)

\* The room is not told.
FaultyTellDeleted(h) ==
  /\ At(h, "tellDeleted")
  /\ Goes(h, Idle)
  /\ UNCHANGED <<tables, told, history>>

\* A client that is told of an edit after the deletion has nothing to change; one that is
\* told of the message itself shows it again.
Delete(h) ==
  /\ At(h, "delete")
  /\ LET i == handlers[h].id IN
     /\ DeleteRows({i}) /\ Loses({i})
     /\ CrossesText(i, {"tellSent"})
     /\ Goes(h, [step |-> "tellDeleted", id |-> i])
  /\ UNCHANGED <<rooms, lastMessage, lastReaction, told, cleared, overwritten, unseen, crossedReactions>>

TellDeleted(h) ==
  /\ At(h, "tellDeleted")
  /\ shown' = [j \in DOMAIN shown \ {handlers[h].id} |-> shown[j]]
  /\ Goes(h, Idle)
  /\ UNCHANGED <<tables, shownReactions, shownRead, history>>

BeginEdit(h, u, i, text) ==
  Asks(h, u, i, [step |-> "findToEdit", user |-> u, id |-> i, text |-> text])

FindToEdit(h) ==
  /\ At(h, "findToEdit")
  /\ LET i == handlers[h].id IN
     Reads(h, IF i \in Stored /\ Row(i).user = handlers[h].user
              THEN [step |-> "saveEdit", row |-> [Row(i) EXCEPT !.text = handlers[h].text]]
              ELSE Idle)

\* Every column that differs is written as it was read; a message that is gone is inserted.
SaveEdit(h) ==
  /\ At(h, "saveEdit")
  /\ LET row == handlers[h].row IN
     IF ~CanSave(row, row.id) THEN Reads(h, Idle)
     ELSE /\ messages' = {m \in messages : m.id # row.id} \cup {row}
          /\ overwritten' = IF row.id \in Stored /\ Row(row.id).is_read = row.is_read
                            THEN overwritten ELSE overwritten \cup {row.id}
          /\ CrossesText(row.id, {"tellSent", "tellEdited"})
          /\ Goes(h, [step |-> "readEdited", row |-> row])
          /\ UNCHANGED <<rooms, lastMessage, reactions, lastReaction, pins, told, lost, cleared,
                         unseen, crossedReactions>>

\* A message that is not found is saved once more.
FaultyReadEdited(h) ==
  /\ At(h, "readEdited")
  /\ Goes(h, IF handlers[h].row.id \in Stored THEN Idle ELSE [handlers[h] EXCEPT !.step = "saveEdit"])
  /\ UNCHANGED <<tables, told, history>>

ReadEdited(h) ==
  /\ At(h, "readEdited")
  /\ LET i == handlers[h].row.id IN
     Reads(h, IF i \in Stored THEN [step |-> "tellEdited", id |-> i, text |-> Row(i).text] ELSE Idle)

\* A client that does not show the message has nothing to change.
TellEdited(h) ==
  /\ At(h, "tellEdited")
  /\ IF handlers[h].id \in DOMAIN shown THEN Shows(handlers[h].id, handlers[h].text) ELSE UNCHANGED shown
  /\ Goes(h, Idle)
  /\ UNCHANGED <<tables, shownReactions, shownRead, history>>
-----------------------------------------------------------------------------
(* chat:markRead *)

BeginMarkRead(h, u, room) ==
  /\ Begins(h)
  /\ Enters(h, u, room, [step |-> "findUnread", user |-> u, room |-> room])

FindUnread(h) ==
  /\ At(h, "findUnread")
  /\ LET found == {m.id : m \in {x \in messages : /\ x.room = handlers[h].room /\ ~x.is_read
                                                  /\ x.user # handlers[h].user}}
     IN  Reads(h, IF found = {} THEN Idle ELSE [step |-> "saveRead", ids |-> found])

\* The messages are not marked.
FaultySaveRead(h) ==
  /\ At(h, "saveRead")
  /\ Goes(h, [handlers[h] EXCEPT !.step = "tellRead"])
  /\ UNCHANGED <<tables, told, history>>

SaveRead(h) ==
  /\ At(h, "saveRead")
  /\ messages' = {[m EXCEPT !.is_read = @ \/ m.id \in handlers[h].ids] : m \in messages}
  /\ Goes(h, [handlers[h] EXCEPT !.step = "tellRead"])
  /\ UNCHANGED <<rooms, lastMessage, reactions, lastReaction, pins, told, history>>

TellRead(h) ==
  /\ At(h, "tellRead")
  /\ shownRead' = shownRead \cup handlers[h].ids
  /\ Goes(h, Idle)
  /\ UNCHANGED <<tables, shown, shownReactions, history>>
-----------------------------------------------------------------------------
(* react *)

BeginReact(h, u, i) ==
  Asks(h, u, i, [step |-> "findReaction", reaction |-> [id |-> None, message |-> i, user |-> u]])

FindReaction(h) ==
  /\ At(h, "findReaction")
  /\ LET asked == handlers[h].reaction
         found == {r \in reactions : r.message = asked.message /\ r.user = asked.user}
     IN  IF found = {} THEN Reads(h, [step |-> "insertReaction", reaction |-> asked])
         ELSE \E r \in found : Reads(h, [step |-> "removeReaction", reaction |-> r])

\* The message must be there, and no reaction of the user's yet.
InsertReaction(h) ==
  /\ At(h, "insertReaction")
  /\ LET asked == handlers[h].reaction IN
     IF asked.message \in Stored
        /\ \A r \in reactions : r.message # asked.message \/ r.user # asked.user
     THEN /\ reactions' = reactions \cup {[asked EXCEPT !.id = lastReaction + 1]}
          /\ lastReaction' = lastReaction + 1
          /\ CrossesReactions(asked.message)
          /\ Goes(h, [step |-> "readReactions", id |-> asked.message])
          /\ UNCHANGED <<rooms, messages, lastMessage, pins, told, lost, cleared, overwritten,
                         unseen, crossedTexts>>
     ELSE Reads(h, Idle)

\* The row that was found goes, and no other that the user has put there since.
RemoveReaction(h) ==
  /\ At(h, "removeReaction")
  /\ LET found == handlers[h].reaction IN
     /\ reactions' = reactions \ {found}
     /\ CrossesReactions(found.message)
     /\ Goes(h, [step |-> "readReactions", id |-> found.message])
  /\ UNCHANGED <<rooms, messages, lastMessage, lastReaction, pins, told, lost, cleared,
                 overwritten, unseen, crossedTexts>>

ReactionsOf(i) == {r.user : r \in {x \in reactions : x.message = i}}

\* What clients show is read instead of the table.
FaultyReadReactions(h) ==
  /\ At(h, "readReactions")
  /\ LET i == handlers[h].id IN
     Reads(h, [step |-> "tellReactions", id |-> i, users |-> shownReactions[i]])

ReadReactions(h) ==
  /\ At(h, "readReactions")
  /\ LET i == handlers[h].id IN
     Reads(h, [step |-> "tellReactions", id |-> i, users |-> ReactionsOf(i)])

TellReactions(h) ==
  /\ At(h, "tellReactions")
  /\ shownReactions' = [shownReactions EXCEPT ![handlers[h].id] = handlers[h].users]
  /\ Goes(h, Idle)
  /\ UNCHANGED <<tables, shown, shownRead, history>>
-----------------------------------------------------------------------------
(* pin_message and unpin_message *)

\* The room that the client names is taken first.
FaultyPinRoom(i, given) == IF given # None THEN given ELSE IF i \in Stored THEN Row(i).room ELSE None

\* The room of the message or, when it is not found, the one the client names.
PinRoom(i, given) == IF i \in Stored THEN Row(i).room ELSE given

BeginPin(h, u, i, given) ==
  /\ Begins(h)
  /\ LET room == PinRoom(i, given) IN
     Goes(h, IF room = None THEN Idle ELSE Entry(u, room, [step |-> "findPin", pin |-> <<room, i>>]))
  /\ unseen' = IF i \in Stored THEN unseen ELSE unseen \cup {i}
  /\ UNCHANGED <<tables, told, lost, cleared, overwritten, crossings>>

FindPin(h) ==
  /\ At(h, "findPin")
  /\ Reads(h, IF handlers[h].pin \in pins THEN Idle ELSE [handlers[h] EXCEPT !.step = "insertPin"])

\* The foreign keys of a pin.
CanPin(pin) == pin[1] \in rooms /\ pin[2] \in Stored

\* The pin is unique.  That clients are told of the pins read again changes nothing of
\* theirs that is modelled.
InsertPin(h) ==
  /\ At(h, "insertPin")
  /\ LET pin == handlers[h].pin IN
     pins' = IF CanPin(pin) THEN pins \cup {pin} ELSE pins
  /\ Goes(h, Idle)
  /\ UNCHANGED <<rooms, messages, lastMessage, reactions, lastReaction, told, history>>

BeginUnpin(h, u, i, given) ==
  /\ Begins(h)
  /\ LET room == PinRoom(i, given) IN
     IF room = None THEN Reads(h, Idle)
     ELSE Enters(h, u, room, [step |-> "deletePin", pin |-> <<room, i>>])

DeletePin(h) ==
  /\ At(h, "deletePin")
  /\ pins' = pins \ {handlers[h].pin}
  /\ Goes(h, Idle)
  /\ UNCHANGED <<rooms, messages, lastMessage, reactions, lastReaction, told, history>>
-----------------------------------------------------------------------------
(* Rooms, over HTTP *)

\* createChatRoom: the unique name makes one step of the look and the insert.
CreateRoom(room) ==
  /\ Arrives
  /\ room \notin rooms /\ rooms' = rooms \cup {room}
  /\ UNCHANGED <<messages, lastMessage, reactions, lastReaction, pins, handlers, told, history>>

In(room) == {m.id : m \in {x \in messages : x.room = room}}

\* Nobody in the room is told.
Clears(room) ==
  /\ Arrives
  /\ DeleteRows(In(room)) /\ Loses(In(room))
  /\ cleared' = cleared \cup In(room)
  /\ UNCHANGED <<lastMessage, lastReaction, handlers, told, overwritten, unseen, crossings>>

ClearRoom(room) == Clears(room) /\ In(room) # {} /\ UNCHANGED rooms

\* deleteChatRoom; the pins go with their messages, and with the room.
DeleteRoom(room) ==
  /\ room \in rooms /\ rooms' = rooms \ {room}
  /\ Arrives
  /\ messages' = {[m EXCEPT !.reply = IF @ \in In(room) THEN None ELSE @]
                  : m \in {x \in messages : x.room # room}}
  /\ reactions' = {r \in reactions : r.message \notin In(room)}
  /\ pins' = {p \in pins : p[2] \notin In(room) /\ p[1] # room}
  /\ Loses(In(room))
  /\ cleared' = cleared \cup In(room)
  /\ UNCHANGED <<lastMessage, lastReaction, handlers, told, overwritten, unseen, crossings>>

Sent == 1 .. lastMessage

\* Clients name messages as they like, those that are still to be sent too.
Event(h) ==
  \E u \in Users :
    \/ \E room \in Rooms, text \in Texts, reply \in {None} \cup Ids : BeginSend(h, u, room, text, reply)
    \/ \E room \in Rooms : BeginMarkRead(h, u, room)
    \/ \E i \in Ids : BeginDelete(h, u, i) \/ BeginReact(h, u, i)
    \/ \E i \in Ids, text \in Texts : BeginEdit(h, u, i, text)
    \/ \E i \in Ids, given \in {None} \cup Rooms : BeginPin(h, u, i, given) \/ BeginUnpin(h, u, i, given)

Statement(h) ==
  \/ CheckAccess(h)
  \/ FindRoom(h) \/ InsertRoom(h) \/ InsertMessage(h) \/ ReadSent(h) \/ TellSent(h)
  \/ FindToDelete(h) \/ Delete(h) \/ TellDeleted(h)
  \/ FindToEdit(h) \/ SaveEdit(h) \/ ReadEdited(h) \/ TellEdited(h)
  \/ FindUnread(h) \/ SaveRead(h) \/ TellRead(h)
  \/ FindReaction(h) \/ InsertReaction(h) \/ RemoveReaction(h) \/ ReadReactions(h) \/ TellReactions(h)
  \/ FindPin(h) \/ InsertPin(h) \/ DeletePin(h)

Next ==
  \/ \E h \in Slots : Event(h) \/ (Statement(h) /\ UNCHANGED events)
  \/ \E room \in Rooms : CreateRoom(room) \/ ClearRoom(room) \/ DeleteRoom(room)

Spec == Init /\ [][Next]_vars
-----------------------------------------------------------------------------
(* Properties *)

Quiet == \A h \in Slots : handlers[h] = Idle

\* What message:new, message:edited and message:deleted (chat.gateway.ts:204, 252, 272)
\* have told a client that stays in the room is what the table holds, once the handlers are
\* through.  Handlers may overlap, except that a message was last edited between what
\* another handler read of it and told, or deleted between the reading and the telling of
\* its sender; an edit that does not cross anybody sets right what an earlier one left.
\* Rooms emptied over HTTP and messages that an edit has put back are left out.
ShownIsStored ==
  Quiet => \A i \in Sent \ (cleared \cup overwritten \cup crossedTexts) :
             IF i \in Stored THEN i \in DOMAIN shown /\ shown[i] = Row(i).text
             ELSE i \notin DOMAIN shown

\* "count: result.count, users: result.users" (chat.gateway.ts:302): clients are left with
\* the reactions that are stored, though double clicks may be refused by the unique index or
\* remove what is gone, unless the last of them was stored between the reading
\* (chat-reactions.service.ts:47) and the telling of another.
ReactionsAreShown ==
  Quiet => \A i \in Stored \ (overwritten \cup crossedReactions) : shownReactions[i] = ReactionsOf(i)

\* "which messages were read" (chat.gateway.ts:217): a message that its sender was told to
\* be read is stored so, unless an edit that had read it before put the column back.
ToldIsRead == \A m \in messages : m.id \in shownRead \ overwritten => m.is_read

\* handlePin takes the room of the message (chat.gateway.ts:347): a message is pinned where
\* it was written, also if it was deleted and put back by an edit while it was being pinned;
\* unless it was asked for when it was not there, and the room the client named was taken.
PinnedInItsRoom == \A p \in pins : p[2] \in unseen \/ Row(p[2]).room = p[1]

\* A message that was deleted, alone, with its room or by emptying it, does not come back
\* unless an edit that had found it was about to save it (chat-messages.service.ts:73-78).
DeletedStaysDeleted == lost \cap Stored = {}
=============================================================================
