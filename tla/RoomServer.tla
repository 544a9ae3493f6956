----------------------------- MODULE RoomServer -----------------------------
(***************************************************************************)
(* The room server of Network/: Server, Session, Room and RoomManager.     *)
(*                                                                         *)
(* main() runs io_context.run() on one thread, so a completion handler is  *)
(* one atomic step; what interleaves is the order in which the handlers of *)
(* the sessions' reads, writes and posted sends run, and what the network  *)
(* does between them.  An asynchronous operation is outstanding            *)
(* ("pending") until the network completes it ("ok" or "error"), and stays *)
(* so until its handler runs: a handler queued with "ok" runs with "ok"    *)
(* even if another handler closed the socket in the meantime.              *)
(***************************************************************************)
EXTENDS Naturals, Sequences, FiniteSets

CONSTANTS
  Sessions,   \* connections the acceptor may hand out
  NoSession,  \* the value of lostTo while the thread runs
  RoomIds,    \* what GetRandomNumber(1, 9999) can return
  NoRoom,     \* the room id 0 of a session that is in no room
  RoomListMax \* how many rooms' lines fit into the 512 bytes of a message

ASSUME RoomServerAssumption ==
  /\ NoRoom \notin RoomIds
  /\ NoSession \notin Sessions
  /\ RoomListMax \in Nat

VARIABLES
  sessionMap,   \* Server::_session_map
  socket,       \* socket[s]: "new" (being accepted), "open" or "closed"
  read,         \* read[s]: state of the one async_read, or "none"
  readMsg,      \* Session::_read_msg
  currentRoom,  \* Session::_current_room_id
  posted,       \* posted[s]: DoSendMsg calls on the strand, in order
  writeMsgs,    \* Session::_write_msgs
  writes,       \* writes[s]: the buffers of outstanding async_writes
  written,      \* written[s]: state of the first of them
  rooms,        \* keys of RoomManager::_rooms
  members,      \* members[r]: Room::_members
  lostTo,       \* the session whose request the thread was lost to, or NoSession
  replies,      \* history: replies[s], the replies SendMsg was given
  sent          \* history: sent[s], the buffers the network took

connVars == <<sessionMap, socket, read, readMsg>>
roomVars == <<currentRoom, rooms, members>>
writeVars == <<posted, writeMsgs, writes, written, replies, sent>>
vars == <<connVars, roomVars, writeVars, lostTo>>

\* A request: only joining needs the room id; chat, the user list and unknown
\* types read state and change none ("other").
Message ==
  [type : {"create", "leave", "list", "other"}, room : {NoRoom}]
    \union [type : {"join"}, room : RoomIds \union {NoRoom}]

NoMessage == [type |-> "other", room |-> NoRoom]

\* A serialized reply is a std::string, named here by the room id it reports.
\* What async_write can be given of it is the text it holds, or the bytes of
\* the string object itself: a pointer, a length and 16 bytes that hold the
\* text only when it is short.
TextOf(r) == [text |-> r]
ObjectOf(r) == [object |-> r]

Buffer == {ObjectOf(r) : r \in RoomIds}

TypeOK ==
  /\ sessionMap \subseteq Sessions
  /\ socket \in [Sessions -> {"new", "open", "closed"}]
  /\ read \in [Sessions -> {"none", "pending", "ok", "error"}]
  /\ readMsg \in [Sessions -> Message]
  /\ currentRoom \in [Sessions -> RoomIds \union {NoRoom}]
  /\ posted \in [Sessions -> Seq(RoomIds)]
  /\ writeMsgs \in [Sessions -> Seq(RoomIds)]
  /\ writes \in [Sessions -> Seq(Buffer)]
  /\ written \in [Sessions -> {"pending", "ok", "error"}]
  /\ rooms \subseteq RoomIds
  /\ members \in [RoomIds -> SUBSET Sessions]
  /\ lostTo \in Sessions \union {NoSession}
  /\ replies \in [Sessions -> Seq(RoomIds)]
  /\ sent \in [Sessions -> Seq(Buffer)]

Init ==
  /\ sessionMap = {}
  /\ socket = [s \in Sessions |-> "new"]
  /\ read = [s \in Sessions |-> "none"]
  /\ readMsg = [s \in Sessions |-> NoMessage]
  /\ currentRoom = [s \in Sessions |-> NoRoom]
  /\ posted = [s \in Sessions |-> <<>>]
  /\ writeMsgs = [s \in Sessions |-> <<>>]
  /\ writes = [s \in Sessions |-> <<>>]
  /\ written = [s \in Sessions |-> "pending"]
  /\ rooms = {}
  /\ members = [r \in RoomIds |-> {}]
  /\ lostTo = NoSession
  /\ replies = [s \in Sessions |-> <<>>]
  /\ sent = [s \in Sessions |-> <<>>]

-----------------------------------------------------------------------------
(* Room::Join and Room::Leave keep the two sides of the membership.        *)

Join(s, r) ==
  /\ members' = [members EXCEPT ![r] = @ \union {s}]
  /\ currentRoom' = [currentRoom EXCEPT ![s] = r]

\* Mutant: only the session forgets the room.
LeaveKeepsMember(s, r) ==
  /\ currentRoom' = [currentRoom EXCEPT ![s] = NoRoom]
  /\ UNCHANGED members

Leave(s, r) ==
  /\ members' = [members EXCEPT ![r] = @ \ {s}]
  /\ currentRoom' = [currentRoom EXCEPT ![s] = NoRoom]

\* RoomManager::GetRoom(_current_room_id) and Leave if there is such a room.
LeaveCurrentRoom(s) ==
  IF currentRoom[s] \in rooms
  THEN Leave(s, currentRoom[s])
  ELSE UNCHANGED <<members, currentRoom>>

HandleDisconnect(s) ==
  /\ LeaveCurrentRoom(s)
  /\ socket' = [socket EXCEPT ![s] = "closed"]

-----------------------------------------------------------------------------
(* The write side of a session.                                            *)

\* Mutant: a write is started for every message, whatever is outstanding.
DoSendMsgAlwaysWrites(s) ==
  /\ lostTo = NoSession
  /\ posted[s] # <<>>
  /\ posted' = [posted EXCEPT ![s] = Tail(@)]
  /\ writeMsgs' = [writeMsgs EXCEPT ![s] = Append(@, Head(posted[s]))]
  /\ writes' = [writes EXCEPT ![s] = Append(@, ObjectOf(Head(writeMsgs'[s])))]
  /\ written' = [written EXCEPT ![s] = IF writes[s] = <<>> THEN "pending" ELSE @]
  /\ UNCHANGED <<connVars, roomVars, lostTo, replies, sent>>

\* The front of _write_msgs is handed to async_write only when the queue was
\* empty; otherwise the handler of the outstanding write gets to it.  Write()
\* hands over &_write_msgs.front() and sizeof a string: the string object.
DoSendMsg(s) ==
  /\ lostTo = NoSession
  /\ posted[s] # <<>>
  /\ posted' = [posted EXCEPT ![s] = Tail(@)]
  /\ writeMsgs' = [writeMsgs EXCEPT ![s] = Append(@, Head(posted[s]))]
  /\ IF writeMsgs[s] = <<>>
     THEN /\ writes' = [writes EXCEPT ![s] = Append(@, ObjectOf(Head(posted[s])))]
          /\ written' = [written EXCEPT ![s] = "pending"]
     ELSE UNCHANGED <<writes, written>>
  /\ UNCHANGED <<connVars, roomVars, lostTo, replies, sent>>

\* Mutant: the message just written is not taken off the queue.
HandleWriteKeepsFront(s) ==
  /\ lostTo = NoSession
  /\ writes[s] # <<>>
  /\ written[s] = "ok"
  /\ writes' = [writes EXCEPT ![s] = Append(Tail(@), ObjectOf(Head(writeMsgs[s])))]
  /\ written' = [written EXCEPT ![s] = "pending"]
  /\ UNCHANGED <<connVars, roomVars, lostTo, posted, writeMsgs, replies, sent>>

HandleWriteOk(s) ==
  /\ lostTo = NoSession
  /\ writes[s] # <<>>
  /\ written[s] = "ok"
  /\ writeMsgs' = [writeMsgs EXCEPT ![s] = Tail(@)]
  /\ writes' = [writes EXCEPT ![s] =
                  IF Tail(writeMsgs[s]) = <<>>
                  THEN Tail(@)
                  ELSE Append(Tail(@), ObjectOf(Head(Tail(writeMsgs[s]))))]
  /\ written' = [written EXCEPT ![s] = "pending"]
  /\ UNCHANGED <<connVars, roomVars, lostTo, posted, replies, sent>>

\* The failed message stays at the front and no write follows it.
HandleWriteError(s) ==
  /\ lostTo = NoSession
  /\ writes[s] # <<>>
  /\ written[s] = "error"
  /\ writes' = [writes EXCEPT ![s] = Tail(@)]
  /\ written' = [written EXCEPT ![s] = "pending"]
  /\ HandleDisconnect(s)
  /\ UNCHANGED <<sessionMap, read, readMsg, rooms, posted, writeMsgs, lostTo,
                 replies, sent>>

-----------------------------------------------------------------------------
(* RoomManager's handlers, run inside HandleReadHeader.                    *)

\* Mutant: the reply carries the room id of the request, not the new room's.
CreateRepliesRequestedId(s) ==
  /\ readMsg[s].type = "create"
  /\ currentRoom[s] = NoRoom
  /\ \E r \in RoomIds \ rooms :
       /\ rooms' = rooms \union {r}
       /\ Join(s, r)
  /\ posted' = [posted EXCEPT ![s] = Append(@, readMsg[s].room)]
  /\ replies' = [replies EXCEPT ![s] = Append(@, readMsg[s].room)]
  /\ UNCHANGED <<writeMsgs, writes, written, sent, lostTo>>

\* Every rooms key is tried until a free one comes up; with none free the
\* loop never ends and, with it, nothing else runs on the only thread.
HandleCreateRoom(s) ==
  /\ readMsg[s].type = "create"
  /\ IF currentRoom[s] # NoRoom
     THEN UNCHANGED <<roomVars, writeVars, lostTo>>
     ELSE \/ \E r \in RoomIds \ rooms :
               /\ rooms' = rooms \union {r}
               /\ Join(s, r)
               /\ posted' = [posted EXCEPT ![s] = Append(@, r)]
               /\ replies' = [replies EXCEPT ![s] = Append(@, r)]
               /\ UNCHANGED <<writeMsgs, writes, written, sent, lostTo>>
          \/ /\ RoomIds \subseteq rooms
             /\ lostTo' = s
             /\ UNCHANGED <<roomVars, writeVars>>

\* Mutant: the check for a current room is gone.
JoinWithoutLeaving(s) ==
  /\ readMsg[s].type = "join"
  /\ IF readMsg[s].room \in rooms
     THEN Join(s, readMsg[s].room)
     ELSE UNCHANGED <<currentRoom, members>>
  /\ UNCHANGED <<rooms, writeVars, lostTo>>

HandleJoinRoom(s) ==
  /\ readMsg[s].type = "join"
  /\ IF currentRoom[s] = NoRoom /\ readMsg[s].room \in rooms
     THEN Join(s, readMsg[s].room)
     ELSE UNCHANGED <<currentRoom, members>>
  /\ UNCHANGED <<rooms, writeVars, lostTo>>

HandleLeaveRoom(s) ==
  /\ readMsg[s].type = "leave"
  /\ LeaveCurrentRoom(s)
  /\ UNCHANGED <<rooms, writeVars, lostTo>>

\* The list of all rooms is put together and copied into Message::data, which
\* takes the lines of RoomListMax rooms; the reply is not sent.  A longer list
\* is written over the stack, which the server may or may not survive.
HandleRoomListRequest(s) ==
  /\ readMsg[s].type = "list"
  /\ \/ UNCHANGED lostTo
     \/ /\ Cardinality(rooms) > RoomListMax
        /\ lostTo' = s
  /\ UNCHANGED <<roomVars, writeVars>>

\* HandleChatMessage, HandleUserListRequest, and the default branch.
HandleReadOnly(s) ==
  /\ readMsg[s].type = "other"
  /\ UNCHANGED <<roomVars, writeVars, lostTo>>

HandleMessage(s) ==
  \/ HandleCreateRoom(s)
  \/ HandleJoinRoom(s)
  \/ HandleLeaveRoom(s)
  \/ HandleRoomListRequest(s)
  \/ HandleReadOnly(s)

-----------------------------------------------------------------------------
(* Server::HandleAccept and the read side of a session.                    *)

HandleAccept(s) ==
  /\ lostTo = NoSession
  /\ socket[s] = "new"
  /\ socket' = [socket EXCEPT ![s] = "open"]
  /\ read' = [read EXCEPT ![s] = "pending"]
  /\ sessionMap' = sessionMap \union {s}
  /\ UNCHANGED <<readMsg, roomVars, writeVars, lostTo>>

\* The next read is started whatever the message did, on a socket that the
\* handler of a failed write may have closed; not when the handler is lost.
HandleReadOk(s) ==
  /\ lostTo = NoSession
  /\ read[s] = "ok"
  /\ HandleMessage(s)
  /\ read' = [read EXCEPT ![s] = IF lostTo' = s THEN "ok" ELSE "pending"]
  /\ UNCHANGED <<sessionMap, socket, readMsg>>

\* Mutant: the next read is started after a failed one too.
ReadErrorReadsAgain(s) ==
  /\ lostTo = NoSession
  /\ read[s] = "error"
  /\ read' = [read EXCEPT ![s] = "pending"]
  /\ HandleDisconnect(s)
  /\ UNCHANGED <<sessionMap, readMsg, rooms, writeVars, lostTo>>

\* Mutant: a failed read only ends the reading.
ReadErrorIgnored(s) ==
  /\ lostTo = NoSession
  /\ read[s] = "error"
  /\ read' = [read EXCEPT ![s] = "none"]
  /\ UNCHANGED <<sessionMap, socket, readMsg, roomVars, writeVars, lostTo>>

HandleReadError(s) ==
  /\ lostTo = NoSession
  /\ read[s] = "error"
  /\ read' = [read EXCEPT ![s] = "none"]
  /\ HandleDisconnect(s)
  /\ UNCHANGED <<sessionMap, readMsg, rooms, writeVars, lostTo>>

-----------------------------------------------------------------------------
(* The network.  It needs no thread of the server's.                       *)

ReceiveMessage(s, m) ==
  /\ read[s] = "pending"
  /\ socket[s] = "open"
  /\ read' = [read EXCEPT ![s] = "ok"]
  /\ readMsg' = [readMsg EXCEPT ![s] = m]
  /\ UNCHANGED <<sessionMap, socket, roomVars, writeVars, lostTo>>

\* The peer is gone, or the socket was closed under the operation.
ReadFails(s) ==
  /\ read[s] = "pending"
  /\ read' = [read EXCEPT ![s] = "error"]
  /\ UNCHANGED <<sessionMap, socket, readMsg, roomVars, writeVars, lostTo>>

WriteSucceeds(s) ==
  /\ writes[s] # <<>>
  /\ written[s] = "pending"
  /\ socket[s] = "open"
  /\ written' = [written EXCEPT ![s] = "ok"]
  /\ sent' = [sent EXCEPT ![s] = Append(@, Head(writes[s]))]
  /\ UNCHANGED <<connVars, roomVars, lostTo, posted, writeMsgs, writes, replies>>

WriteFails(s) ==
  /\ writes[s] # <<>>
  /\ written[s] = "pending"
  /\ written' = [written EXCEPT ![s] = "error"]
  /\ UNCHANGED <<connVars, roomVars, lostTo, posted, writeMsgs, writes, replies,
                 sent>>

Next ==
  \E s \in Sessions :
    \/ HandleAccept(s)
    \/ HandleReadOk(s)
    \/ HandleReadError(s)
    \/ DoSendMsg(s)
    \/ HandleWriteOk(s)
    \/ HandleWriteError(s)
    \/ \E m \in Message : ReceiveMessage(s, m)
    \/ ReadFails(s)
    \/ WriteSucceeds(s)
    \/ WriteFails(s)

Spec == Init /\ [][Next]_vars

\* The run loop executes every queued handler, and closing a socket aborts
\* what is outstanding on it.  Nothing is assumed of an open peer, which may
\* stay silent for ever.
Fairness ==
  \A s \in Sessions :
    /\ WF_vars(HandleReadOk(s))
    /\ WF_vars(HandleReadError(s))
    /\ WF_vars(DoSendMsg(s))
    /\ WF_vars(HandleWriteOk(s))
    /\ WF_vars(HandleWriteError(s))
    /\ WF_vars(socket[s] = "closed" /\ ReadFails(s))
    /\ WF_vars(socket[s] = "closed" /\ WriteFails(s))

FairSpec == Spec /\ Fairness

-----------------------------------------------------------------------------
(* Properties.                                                             *)

\* A room's member set and the members' own _current_room_id are two copies
\* of one relation, written by Room::Join and Room::Leave and by every way a
\* session can end: they agree, and only rooms that exist have members.
MembershipConsistent ==
  /\ \A s \in Sessions, r \in RoomIds : s \in members[r] <=> currentRoom[s] = r
  /\ \A r \in RoomIds : members[r] # {} => r \in rooms

\* At most one async_write is outstanding on a socket (two would interleave
\* their bytes), and a queued message on an open socket is never left with
\* no write that would get to it.
SingleWriter ==
  \A s \in Sessions :
    /\ Len(writes[s]) <= 1
    /\ writes[s] = <<>> /\ socket[s] = "open" => writeMsgs[s] = <<>>

\* The network takes one buffer for every reply SendMsg was given, in that
\* order, none of them twice or skipped: the object of the reply's string.
RepliesInOrder ==
  \A s \in Sessions :
    /\ Len(sent[s]) <= Len(replies[s])
    /\ \A i \in 1..Len(sent[s]) : sent[s][i] = ObjectOf(replies[s][i])

\* What the network takes of a reply is the text it was serialized to, the
\* last step of the flow the README describes ("... GameLoop -> Serialize").
RepliesAreSerialized ==
  \A s \in Sessions :
    \A i \in 1..Len(sent[s]) : sent[s][i] = TextOf(replies[s][i])

\* An accepted session that reads no more is closed and in no room, though
\* its write handler may have closed it while a request was still queued,
\* and that request may have put it into a room again.
NoZombie ==
  \A s \in Sessions :
    s \in sessionMap /\ read[s] = "none" =>
      socket[s] = "closed" /\ currentRoom[s] = NoRoom

\* Once a socket is closed its session stops reading and leaves its room,
\* unless the thread is lost to a request: to a create request that finds no
\* free id, or to a room list that overruns its buffer.
DisconnectLeavesRoom ==
  \A s \in Sessions :
    socket[s] = "closed" ~>
      \/ read[s] = "none" /\ currentRoom[s] = NoRoom
      \/ lostTo # NoSession

\* The room directory the server implements: a session is live while it
\* reads, and is in the room whose member set holds it.
connOf ==
  [s \in Sessions |->
     IF s \notin sessionMap THEN "new"
     ELSE IF read[s] = "none" THEN "gone" ELSE "live"]

roomOf ==
  [s \in Sessions |->
     IF \E r \in RoomIds : s \in members[r]
     THEN CHOOSE r \in RoomIds : s \in members[r]
     ELSE NoRoom]

Directory == INSTANCE RoomDirectory WITH conn <- connOf, room <- roomOf

\* The server implements the room directory.
ImplementsDirectory == Directory!Spec
=============================================================================
