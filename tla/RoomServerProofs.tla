-------------------------- MODULE RoomServerProofs --------------------------
(***************************************************************************)
(* TLAPS proofs about RoomServer, for any set of sessions and room ids:    *)
(* its type invariant, the safety invariants the model checker checks on a *)
(* small instance, and that it implements RoomDirectory.                   *)
(***************************************************************************)
EXTENDS RoomServer, SequenceTheorems, TLAPS

\* What the lemmas below need to know of the room variables' types.
RoomTypes ==
  /\ currentRoom \in [Sessions -> RoomIds \union {NoRoom}]
  /\ members \in [RoomIds -> SUBSET Sessions]
  /\ rooms \subseteq RoomIds

\* A session is accepted once, and is read from only when it was; a
\* connection that was not accepted is in no room.
Lifecycle ==
  \A s \in Sessions :
    /\ socket[s] = "new" => s \notin sessionMap
    /\ read[s] # "none" => s \in sessionMap
    /\ s \notin sessionMap => currentRoom[s] = NoRoom

\* The queue is non-empty while a write is outstanding, and one is as long
\* as the queue is non-empty and the socket was not closed.
WriteQueue ==
  \A s \in Sessions :
    /\ Len(writes[s]) <= 1
    /\ writeMsgs[s] = <<>> => writes[s] = <<>>
    /\ writes[s] = <<>> /\ socket[s] # "closed" => writeMsgs[s] = <<>>

\* The inductive invariant.
IInv ==
  /\ TypeOK
  /\ MembershipConsistent
  /\ NoZombie
  /\ Lifecycle
  /\ WriteQueue

-----------------------------------------------------------------------------
(* Lemmas about the operators the handlers are built from.                 *)

\* Taking the only write away leaves none.
LEMMA TailOfOne ==
  ASSUME NEW S, NEW q \in Seq(S), q # <<>>, Len(q) <= 1
  PROVE  Tail(q) = <<>>
<1>1. Len(q) \in Nat \ {0}
  BY EmptySeq, Zenon
<1>2. Tail(q) \in Seq(S) /\ Len(Tail(q)) = Len(q) - 1
  BY HeadTailProperties
<1>3. Len(Tail(q)) = 0
  BY <1>1, <1>2
<1>4. Tail(q) # <<>> => Len(Tail(q)) \in Nat \ {0}
  BY <1>2, EmptySeq, Zenon
<1>. QED  BY <1>3, <1>4

\* The first write is alone.
LEMMA AppendToNone ==
  ASSUME NEW S, NEW e \in S
  PROVE  /\ Append(<<>>, e) \in Seq(S)
         /\ Append(<<>>, e) # <<>>
         /\ Len(Append(<<>>, e)) = 1
<1>1. <<>> \in Seq(S) /\ Len(<<>>) = 0
  BY EmptySeq
<1>2. Append(<<>>, e) \in Seq(S) /\ Len(Append(<<>>, e)) = 1
  BY <1>1, AppendProperties
<1>. QED  BY <1>1, <1>2

\* Whatever branch it takes, leaving takes the session out of every room.
LEMMA LeaveEffect ==
  ASSUME RoomTypes, MembershipConsistent,
         NEW s \in Sessions, LeaveCurrentRoom(s)
  PROVE  /\ currentRoom' = [currentRoom EXCEPT ![s] = NoRoom]
         /\ members' = [r \in RoomIds |-> members[r] \ {s}]
<1> USE DEF RoomTypes, MembershipConsistent
<1>1. CASE currentRoom[s] \in rooms
  <2>0. \A r \in RoomIds : r # currentRoom[s] => s \notin members[r]
    OBVIOUS
  <2>1. \A r \in RoomIds : r # currentRoom[s] => members[r] = members[r] \ {s}
    BY <2>0
  <2>2. members' = [members EXCEPT ![currentRoom[s]] = @ \ {s}]
    BY <1>1 DEF LeaveCurrentRoom, Leave
  <2>3. members' = [r \in RoomIds |-> members[r] \ {s}]
    BY <1>1, <2>1, <2>2, Zenon
  <2>. QED  BY <1>1, <2>3 DEF LeaveCurrentRoom, Leave
<1>2. CASE currentRoom[s] \notin rooms
  <2>1. UNCHANGED <<members, currentRoom>>
    BY <1>2 DEF LeaveCurrentRoom
  <2>2. \A r \in RoomIds : s \notin members[r]
    BY <1>2
  <2>3. currentRoom[s] = NoRoom
    BY <2>2
  <2>. QED  BY <2>1, <2>2, <2>3
<1>. QED  BY <1>1, <1>2

\* Leaving keeps the two sides of the membership in agreement.
LEMMA LeavePreservesMembership ==
  ASSUME RoomTypes, MembershipConsistent,
         NEW s \in Sessions, LeaveCurrentRoom(s), UNCHANGED rooms
  PROVE  RoomTypes' /\ MembershipConsistent' /\ currentRoom'[s] = NoRoom
<1>1. /\ currentRoom' = [currentRoom EXCEPT ![s] = NoRoom]
      /\ members' = [r \in RoomIds |-> members[r] \ {s}]
  BY LeaveEffect
<1>. QED  BY <1>1, RoomServerAssumption DEF RoomTypes, MembershipConsistent

\* Joining does, when the session is in no room.
LEMMA JoinPreservesMembership ==
  ASSUME RoomTypes, MembershipConsistent,
         NEW s \in Sessions, NEW r \in RoomIds, currentRoom[s] = NoRoom,
         Join(s, r), rooms' \in {rooms, rooms \union {r}}, r \in rooms'
  PROVE  RoomTypes' /\ MembershipConsistent'
BY RoomServerAssumption DEF RoomTypes, MembershipConsistent, Join

\* No request disturbs the two sides of the membership.
LEMMA HandleMessageMembership ==
  ASSUME TypeOK, MembershipConsistent,
         NEW s \in Sessions, HandleMessage(s)
  PROVE  /\ RoomTypes' /\ MembershipConsistent'
         /\ \A t \in Sessions \ {s} : currentRoom'[t] = currentRoom[t]
<1>0. RoomTypes
  BY DEF TypeOK, RoomTypes
<1>1. CASE HandleCreateRoom(s)
  <2>1. CASE UNCHANGED roomVars
    BY <1>0, <2>1 DEF RoomTypes, MembershipConsistent, roomVars
  <2>2. CASE currentRoom[s] = NoRoom /\ ~UNCHANGED roomVars
    <3>1. PICK r \in RoomIds \ rooms : rooms' = rooms \union {r} /\ Join(s, r)
      BY <1>1, <2>2 DEF HandleCreateRoom
    <3>2. RoomTypes' /\ MembershipConsistent'
      BY <1>0, <2>2, <3>1, JoinPreservesMembership
    <3>. QED  BY <1>0, <3>1, <3>2 DEF Join, RoomTypes
  <2>. QED  BY <1>1, <2>1, <2>2 DEF HandleCreateRoom
<1>2. CASE HandleJoinRoom(s)
  <2>1. CASE currentRoom[s] = NoRoom /\ readMsg[s].room \in rooms
    <3>1. Join(s, readMsg[s].room) /\ rooms' = rooms /\ readMsg[s].room \in RoomIds
      BY <1>0, <1>2, <2>1 DEF HandleJoinRoom, RoomTypes
    <3>2. RoomTypes' /\ MembershipConsistent'
      BY <1>0, <2>1, <3>1, JoinPreservesMembership
    <3>. QED  BY <1>0, <3>1, <3>2 DEF Join, RoomTypes
  <2>2. CASE ~(currentRoom[s] = NoRoom /\ readMsg[s].room \in rooms)
    BY <1>0, <1>2, <2>2 DEF HandleJoinRoom, RoomTypes, MembershipConsistent
  <2>. QED  BY <2>1, <2>2
<1>3. CASE HandleLeaveRoom(s)
  <2>1. LeaveCurrentRoom(s) /\ UNCHANGED rooms
    BY <1>3 DEF HandleLeaveRoom
  <2>2. RoomTypes' /\ MembershipConsistent'
    BY <1>0, <2>1, LeavePreservesMembership
  <2>3. currentRoom' = [currentRoom EXCEPT ![s] = NoRoom]
    BY <1>0, <2>1, LeaveEffect
  <2>. QED  BY <1>0, <2>2, <2>3 DEF RoomTypes
<1>4. CASE HandleRoomListRequest(s) \/ HandleReadOnly(s)
  BY <1>0, <1>4 DEF HandleRoomListRequest, HandleReadOnly, roomVars, RoomTypes,
                    MembershipConsistent
<1>. QED  BY <1>1, <1>2, <1>3, <1>4 DEF HandleMessage

\* No request touches the write queue: a reply is posted to the strand.
LEMMA HandleMessageWrites ==
  ASSUME TypeOK, NEW s \in Sessions, HandleMessage(s)
  PROVE  /\ UNCHANGED <<writeMsgs, writes, written, sent>>
         /\ posted' \in [Sessions -> Seq(RoomIds)]
         /\ replies' \in [Sessions -> Seq(RoomIds)]
         /\ lostTo' \in Sessions \union {NoSession}
<1> USE DEF TypeOK, writeVars
<1>1. CASE HandleCreateRoom(s)
  <2>1. CASE UNCHANGED <<posted, replies>>
    BY <1>1, <2>1 DEF HandleCreateRoom
  <2>2. ASSUME NEW r \in RoomIds,
               posted' = [posted EXCEPT ![s] = Append(@, r)],
               replies' = [replies EXCEPT ![s] = Append(@, r)],
               UNCHANGED <<writeMsgs, writes, written, sent, lostTo>>
        PROVE  /\ UNCHANGED <<writeMsgs, writes, written, sent>>
               /\ posted' \in [Sessions -> Seq(RoomIds)]
               /\ replies' \in [Sessions -> Seq(RoomIds)]
               /\ lostTo' \in Sessions \union {NoSession}
    BY <2>2
  <2>. QED  BY <1>1, <2>1, <2>2 DEF HandleCreateRoom
<1>2. CASE HandleJoinRoom(s)
  BY <1>2 DEF HandleJoinRoom
<1>3. CASE HandleLeaveRoom(s)
  BY <1>3 DEF HandleLeaveRoom
<1>4. CASE HandleRoomListRequest(s) \/ HandleReadOnly(s)
  BY <1>4 DEF HandleRoomListRequest, HandleReadOnly
<1>. QED  BY <1>1, <1>2, <1>3, <1>4 DEF HandleMessage

-----------------------------------------------------------------------------
(* The inductive step, one lemma for each action that does more than mark  *)
(* an operation complete.                                                  *)

LEMMA HandleAcceptStep ==
  ASSUME IInv, NEW s \in Sessions, HandleAccept(s)
  PROVE  IInv'
<1> USE DEF IInv, HandleAccept, roomVars, writeVars
<1>1. TypeOK'
  BY DEF TypeOK
<1>2. MembershipConsistent'
  BY DEF MembershipConsistent
<1>3. NoZombie'
  BY DEF NoZombie, TypeOK
<1>4. Lifecycle'
  BY DEF Lifecycle, TypeOK
<1>5. WriteQueue'
  BY DEF WriteQueue, TypeOK
<1>. QED  BY <1>1, <1>2, <1>3, <1>4, <1>5

LEMMA HandleReadOkStep ==
  ASSUME IInv, NEW s \in Sessions, HandleReadOk(s)
  PROVE  IInv'
<1> USE DEF IInv
<1>1. HandleMessage(s) /\ UNCHANGED <<sessionMap, socket, readMsg>>
  BY DEF HandleReadOk
<1>2. /\ RoomTypes' /\ MembershipConsistent'
      /\ \A t \in Sessions \ {s} : currentRoom'[t] = currentRoom[t]
  BY <1>1, HandleMessageMembership
<1>3. /\ UNCHANGED <<writeMsgs, writes, written, sent>>
      /\ posted' \in [Sessions -> Seq(RoomIds)]
      /\ replies' \in [Sessions -> Seq(RoomIds)]
      /\ lostTo' \in Sessions \union {NoSession}
  BY <1>1, HandleMessageWrites
<1>4. /\ read' \in [Sessions -> {"none", "pending", "ok", "error"}]
      /\ read'[s] # "none"
      /\ \A t \in Sessions \ {s} : read'[t] = read[t]
  BY DEF HandleReadOk, TypeOK
<1>5. TypeOK'
  BY <1>1, <1>2, <1>3, <1>4 DEF TypeOK, RoomTypes
<1>6. s \in sessionMap
  BY DEF Lifecycle, HandleReadOk
<1>7. NoZombie'
  BY <1>1, <1>2, <1>4 DEF NoZombie
<1>8. Lifecycle'
  BY <1>1, <1>2, <1>4, <1>6 DEF Lifecycle
<1>9. WriteQueue'
  BY <1>1, <1>3 DEF WriteQueue
<1>. QED  BY <1>2, <1>5, <1>7, <1>8, <1>9

\* What both ways to lose a connection share.
LEMMA HandleDisconnectEffect ==
  ASSUME IInv, NEW s \in Sessions, HandleDisconnect(s), UNCHANGED rooms
  PROVE  /\ RoomTypes' /\ MembershipConsistent'
         /\ currentRoom' = [currentRoom EXCEPT ![s] = NoRoom]
         /\ socket' = [socket EXCEPT ![s] = "closed"]
<1>1. RoomTypes /\ MembershipConsistent
  BY DEF IInv, TypeOK, RoomTypes
<1>2. LeaveCurrentRoom(s)
  BY DEF HandleDisconnect
<1>. QED
  BY <1>1, <1>2, LeaveEffect, LeavePreservesMembership DEF HandleDisconnect

LEMMA HandleReadErrorStep ==
  ASSUME IInv, NEW s \in Sessions, HandleReadError(s)
  PROVE  IInv'
<1> USE DEF IInv
<1>1. /\ RoomTypes' /\ MembershipConsistent'
      /\ currentRoom' = [currentRoom EXCEPT ![s] = NoRoom]
      /\ socket' = [socket EXCEPT ![s] = "closed"]
  BY HandleDisconnectEffect DEF HandleReadError
<1>2. TypeOK'
  BY <1>1 DEF TypeOK, RoomTypes, HandleReadError, writeVars
<1>3. NoZombie'
  BY <1>1 DEF NoZombie, TypeOK, HandleReadError
<1>4. Lifecycle'
  BY <1>1 DEF Lifecycle, TypeOK, HandleReadError
<1>5. WriteQueue'
  BY <1>1 DEF WriteQueue, TypeOK, HandleReadError, writeVars
<1>. QED  BY <1>1, <1>2, <1>3, <1>4, <1>5

LEMMA HandleWriteErrorStep ==
  ASSUME IInv, NEW s \in Sessions, HandleWriteError(s)
  PROVE  IInv'
<1> USE DEF IInv
<1>1. /\ RoomTypes' /\ MembershipConsistent'
      /\ currentRoom' = [currentRoom EXCEPT ![s] = NoRoom]
      /\ socket' = [socket EXCEPT ![s] = "closed"]
  BY HandleDisconnectEffect DEF HandleWriteError
<1>2. /\ writes[s] \in Seq(Buffer) /\ writes[s] # <<>> /\ Len(writes[s]) <= 1
      /\ writes' = [writes EXCEPT ![s] = Tail(@)]
  BY DEF HandleWriteError, WriteQueue, TypeOK
<1>3. Tail(writes[s]) = <<>>
  BY <1>2, TailOfOne
<1>4. TypeOK'
  BY <1>1, <1>2, <1>3 DEF TypeOK, RoomTypes, HandleWriteError
<1>5. NoZombie'
  BY <1>1 DEF NoZombie, TypeOK, HandleWriteError
<1>6. Lifecycle'
  BY <1>1 DEF Lifecycle, TypeOK, HandleWriteError
<1>7. WriteQueue'
  BY <1>1, <1>2, <1>3 DEF WriteQueue, TypeOK, HandleWriteError
<1>. QED  BY <1>1, <1>4, <1>5, <1>6, <1>7

LEMMA DoSendMsgStep ==
  ASSUME IInv, NEW s \in Sessions, DoSendMsg(s)
  PROVE  IInv'
<1> USE DEF IInv, DoSendMsg, connVars, roomVars
<1>1. /\ Head(posted[s]) \in RoomIds
      /\ Tail(posted[s]) \in Seq(RoomIds)
      /\ Append(writeMsgs[s], Head(posted[s])) \in Seq(RoomIds)
      /\ Append(writeMsgs[s], Head(posted[s])) # <<>>
  BY DEF TypeOK
<1>2. TypeOK'
  <2>1. ObjectOf(Head(posted[s])) \in Buffer
    BY <1>1 DEF Buffer
  <2>2. Append(writes[s], ObjectOf(Head(posted[s]))) \in Seq(Buffer)
    BY <2>1 DEF TypeOK
  <2>. QED  BY <1>1, <2>2 DEF TypeOK
<1>3. MembershipConsistent'
  BY DEF MembershipConsistent
<1>4. NoZombie' /\ Lifecycle'
  BY DEF NoZombie, Lifecycle
<1>5. WriteQueue'
  <2>1. CASE writeMsgs[s] = <<>>
    <3>1. writes[s] = <<>>
      BY <2>1 DEF WriteQueue
    <3>2. writes' = [writes EXCEPT ![s] = Append(<<>>, ObjectOf(Head(posted[s])))]
      BY <2>1, <3>1
    <3>3. writeMsgs' = [writeMsgs EXCEPT ![s] = Append(@, Head(posted[s]))]
      OBVIOUS
    <3>4. /\ Append(<<>>, ObjectOf(Head(posted[s]))) # <<>>
          /\ Len(Append(<<>>, ObjectOf(Head(posted[s])))) = 1
      BY <1>1, AppendToNone DEF Buffer
    <3>. QED  BY <1>1, <3>2, <3>3, <3>4 DEF WriteQueue, TypeOK
  <2>2. CASE writeMsgs[s] # <<>>
    BY <1>1, <2>2 DEF WriteQueue, TypeOK
  <2>. QED  BY <2>1, <2>2
<1>. QED  BY <1>2, <1>3, <1>4, <1>5

LEMMA HandleWriteOkStep ==
  ASSUME IInv, NEW s \in Sessions, HandleWriteOk(s)
  PROVE  IInv'
<1> USE DEF IInv, HandleWriteOk, connVars, roomVars
<1>1. writes[s] # <<>> /\ writeMsgs[s] # <<>> /\ Len(writes[s]) <= 1
  BY DEF WriteQueue
<1>2. writes[s] \in Seq(Buffer) /\ writeMsgs[s] \in Seq(RoomIds)
  BY DEF TypeOK
<1>3. Tail(writes[s]) = <<>> /\ Tail(writeMsgs[s]) \in Seq(RoomIds)
  BY <1>1, <1>2, TailOfOne
<1>4. CASE Tail(writeMsgs[s]) = <<>>
  <2>1. writes' = [writes EXCEPT ![s] = <<>>]
    BY <1>3, <1>4
  <2>2. writeMsgs' = [writeMsgs EXCEPT ![s] = <<>>]
    BY <1>4
  <2>3. TypeOK'
    BY <1>3, <2>1, <2>2 DEF TypeOK
  <2>4. WriteQueue'
    BY <2>1, <2>2 DEF WriteQueue, TypeOK
  <2>. QED
    BY <2>3, <2>4 DEF MembershipConsistent, NoZombie, Lifecycle
<1>5. CASE Tail(writeMsgs[s]) # <<>>
  <2> DEFINE next == ObjectOf(Head(Tail(writeMsgs[s])))
  <2>1. next \in Buffer
    BY <1>3, <1>5 DEF Buffer
  <2>2. writes' = [writes EXCEPT ![s] = Append(<<>>, next)]
    BY <1>3, <1>5
  <2> HIDE DEF next
  <2>5. /\ Append(<<>>, next) \in Seq(Buffer)
        /\ Append(<<>>, next) # <<>>
        /\ Len(Append(<<>>, next)) = 1
    BY <2>1, AppendToNone
  <2>3. TypeOK'
    BY <1>3, <2>2, <2>5 DEF TypeOK
  <2>4. WriteQueue'
    BY <1>5, <2>2, <2>5 DEF WriteQueue, TypeOK
  <2>. QED
    BY <2>3, <2>4 DEF MembershipConsistent, NoZombie, Lifecycle
<1>. QED  BY <1>4, <1>5

\* The network completes an operation and no handler runs.
LEMMA NetworkStep ==
  ASSUME IInv, NEW s \in Sessions,
         \/ \E m \in Message : ReceiveMessage(s, m)
         \/ ReadFails(s) \/ WriteSucceeds(s) \/ WriteFails(s)
  PROVE  IInv'
<1> USE DEF IInv, connVars, roomVars, writeVars
<1>1. ASSUME NEW m \in Message, ReceiveMessage(s, m)
      PROVE  IInv'
  BY <1>1 DEF ReceiveMessage, TypeOK, MembershipConsistent, NoZombie,
              Lifecycle, WriteQueue
<1>2. CASE ReadFails(s)
  BY <1>2 DEF ReadFails, TypeOK, MembershipConsistent, NoZombie,
              Lifecycle, WriteQueue
<1>3. CASE WriteSucceeds(s)
  <2>1. Append(sent[s], Head(writes[s])) \in Seq(Buffer)
    BY <1>3 DEF WriteSucceeds, TypeOK
  <2>. QED
    BY <1>3, <2>1 DEF WriteSucceeds, TypeOK, MembershipConsistent, NoZombie,
                      Lifecycle, WriteQueue
<1>4. CASE WriteFails(s)
  BY <1>4 DEF WriteFails, TypeOK, MembershipConsistent, NoZombie,
              Lifecycle, WriteQueue
<1>. QED  BY <1>1, <1>2, <1>3, <1>4

LEMMA InitIInv == Init => IInv
<1> SUFFICES ASSUME Init PROVE IInv
  OBVIOUS
<1> USE RoomServerAssumption DEF Init
<1>1. TypeOK
  BY DEF TypeOK, NoMessage, Message
<1>2. MembershipConsistent /\ NoZombie /\ Lifecycle
  BY DEF MembershipConsistent, NoZombie, Lifecycle
<1>3. WriteQueue
  <2>1. Len(<<>>) = 0
    BY EmptySeq, Zenon
  <2>2. \A s \in Sessions : writes[s] = <<>> /\ writeMsgs[s] = <<>>
    OBVIOUS
  <2>3. 0 <= 1
    OBVIOUS
  <2>4. \A s \in Sessions : Len(writes[s]) <= 1
    BY <2>1, <2>2, <2>3, Zenon
  <2>. QED  BY <2>2, <2>4, Zenon DEF WriteQueue
<1>. QED  BY <1>1, <1>2, <1>3 DEF IInv

LEMMA NextIInv == IInv /\ [Next]_vars => IInv'
<1> SUFFICES ASSUME IInv, [Next]_vars PROVE IInv'
  OBVIOUS
<1>1. ASSUME NEW s \in Sessions, HandleAccept(s) PROVE IInv'
  BY <1>1, HandleAcceptStep
<1>2. ASSUME NEW s \in Sessions, HandleReadOk(s) PROVE IInv'
  BY <1>2, HandleReadOkStep
<1>3. ASSUME NEW s \in Sessions, HandleReadError(s) PROVE IInv'
  BY <1>3, HandleReadErrorStep
<1>4. ASSUME NEW s \in Sessions, DoSendMsg(s) PROVE IInv'
  BY <1>4, DoSendMsgStep
<1>5. ASSUME NEW s \in Sessions, HandleWriteOk(s) PROVE IInv'
  BY <1>5, HandleWriteOkStep
<1>6. ASSUME NEW s \in Sessions, HandleWriteError(s) PROVE IInv'
  BY <1>6, HandleWriteErrorStep
<1>7. ASSUME NEW s \in Sessions,
             \/ \E m \in Message : ReceiveMessage(s, m)
             \/ ReadFails(s) \/ WriteSucceeds(s) \/ WriteFails(s)
      PROVE  IInv'
  BY <1>7, NetworkStep
<1>8. CASE UNCHANGED vars
  BY <1>8 DEF IInv, vars, connVars, roomVars, writeVars, TypeOK,
              MembershipConsistent, NoZombie, Lifecycle, WriteQueue
<1>. QED
  BY <1>1, <1>2, <1>3, <1>4, <1>5, <1>6, <1>7, <1>8 DEF Next

LEMMA Invariance == Spec => []IInv
BY InitIInv, NextIInv, PTL DEF Spec

-----------------------------------------------------------------------------
(* The theorems.                                                           *)

\* Every variable of the server stays within its type.
THEOREM TypeCorrect == Spec => []TypeOK
BY Invariance, PTL DEF IInv

\* Room member sets and sessions' room ids agree, whatever order the reads,
\* writes and disconnects of the sessions are handled in.
THEOREM Membership == Spec => []MembershipConsistent
BY Invariance, PTL DEF IInv

\* A session the server has stopped reading is closed and in no room.
THEOREM NoZombies == Spec => []NoZombie
BY Invariance, PTL DEF IInv

\* No socket ever has two writes outstanding, and no message waits on an
\* open socket without one.
THEOREM OneWriter == Spec => []SingleWriter
<1>1. WriteQueue => SingleWriter
  BY DEF WriteQueue, SingleWriter
<1>. QED  BY <1>1, Invariance, PTL DEF IInv

-----------------------------------------------------------------------------
(* A reply keeps its place on its way from SendMsg to the network.         *)

\* What the network has still to take of a queue: not the message of a write
\* that is done and whose handler has not run.
Waiting(s) ==
  IF writes[s] # <<>> /\ written[s] = "ok" THEN Tail(writeMsgs[s]) ELSE writeMsgs[s]

\* The replies whose string objects the network took.
Taken(s) == [i \in 1..Len(sent[s]) |-> sent[s][i].object]

\* What was taken, what is queued and what is posted make up the replies, in
\* this order; and it is the front of the queue that is being written.
InPipeline(s) ==
  /\ replies[s] = (Taken(s) \o Waiting(s)) \o posted[s]
  /\ writes[s] # <<>> => Head(writes[s]) = ObjectOf(Head(writeMsgs[s]))

Pipeline == \A s \in Sessions : InPipeline(s)

\* Facts about three queues a, b, c in a row, one for each way to move on.
LEMMA Posted ==
  \A ab, c \in Seq(RoomIds), e \in RoomIds : Append(ab \o c, e) = ab \o Append(c, e)
<1>1. ASSUME NEW ab \in Seq(RoomIds), NEW c \in Seq(RoomIds), NEW e \in RoomIds
      PROVE  Append(ab \o c, e) = ab \o Append(c, e)
  <2>1. /\ Append(ab \o c, e) = (ab \o c) \o <<e>>
        /\ Append(c, e) = c \o <<e>>
    BY ConcatProperties, AppendIsConcat
  <2>. QED  BY <2>1, ConcatAssociative
<1>. QED  BY <1>1

LEMMA Shifted ==
  ASSUME NEW S, NEW b \in Seq(S), NEW c \in Seq(S), c # <<>>
  PROVE  b \o c = Append(b, Head(c)) \o Tail(c)
<1>1. Head(c) \in S /\ Tail(c) \in Seq(S) /\ c = <<Head(c)>> \o Tail(c)
  OBVIOUS
<1>2. Append(b, Head(c)) = b \o <<Head(c)>> /\ <<Head(c)>> \in Seq(S)
  BY <1>1, AppendIsConcat
<1>. QED  BY <1>1, <1>2, ConcatAssociative

LEMMA WaitingType ==
  ASSUME IInv, NEW s \in Sessions
  PROVE  /\ Waiting(s) \in Seq(RoomIds) /\ Taken(s) \in Seq(RoomIds) /\ posted[s] \in Seq(RoomIds)
         /\ writeMsgs[s] \in Seq(RoomIds) /\ writes[s] \in Seq(Buffer) /\ sent[s] \in Seq(Buffer)
         /\ Len(Taken(s)) = Len(sent[s])
         /\ Taken(s) \o Waiting(s) \in Seq(RoomIds)
<1>1. /\ writes[s] # <<>> => writeMsgs[s] # <<>>
      /\ sent[s] \in Seq(Buffer) /\ posted[s] \in Seq(RoomIds)
      /\ writeMsgs[s] \in Seq(RoomIds) /\ writes[s] \in Seq(Buffer)
  BY DEF IInv, TypeOK, WriteQueue
<1>2. Waiting(s) \in Seq(RoomIds)
  BY <1>1 DEF Waiting
<1>3. Taken(s) \in Seq(RoomIds) /\ Len(Taken(s)) = Len(sent[s])
  BY <1>1 DEF Taken, Buffer, ObjectOf
<1>. QED  BY <1>1, <1>2, <1>3, ConcatProperties

\* One more buffer taken is one more reply taken.
LEMMA TakenAppend ==
  ASSUME IInv, NEW s \in Sessions, NEW r \in RoomIds,
         sent'[s] = Append(sent[s], ObjectOf(r))
  PROVE  Taken(s)' = Append(Taken(s), r)
<1>1. sent[s] \in Seq(Buffer) /\ ObjectOf(r) \in Buffer
  BY WaitingType DEF Buffer
<1>2. /\ Len(sent'[s]) = Len(sent[s]) + 1
      /\ \A i \in 1..Len(sent[s]) : sent'[s][i] = sent[s][i]
      /\ sent'[s][Len(sent[s]) + 1] = ObjectOf(r)
  BY <1>1
<1>3. /\ Taken(s) \in Seq(RoomIds) /\ Len(Taken(s)) = Len(sent[s])
      /\ Len(sent[s]) \in Nat
  BY <1>1, WaitingType
<1>4. /\ Append(Taken(s), r) \in Seq(RoomIds)
      /\ Len(Append(Taken(s), r)) = Len(sent[s]) + 1
      /\ \A i \in 1..Len(sent[s]) : Append(Taken(s), r)[i] = Taken(s)[i]
      /\ Append(Taken(s), r)[Len(sent[s]) + 1] = r
  BY <1>3, AppendProperties
<1>5. Taken(s)' = [i \in 1..(Len(sent[s]) + 1) |-> sent'[s][i].object]
  BY <1>2 DEF Taken
<1>6. \A i \in 1..(Len(sent[s]) + 1) : sent'[s][i].object = Append(Taken(s), r)[i]
  <2>1. \A i \in 1..Len(sent[s]) : Taken(s)[i] = sent[s][i].object
    BY DEF Taken
  <2>2. ObjectOf(r).object = r
    BY DEF ObjectOf
  <2>. QED  BY <1>2, <1>3, <1>4, <2>1, <2>2
<1>7. Append(Taken(s), r) = [i \in 1..(Len(sent[s]) + 1) |-> Append(Taken(s), r)[i]]
  <2>. DEFINE new == Append(Taken(s), r)
  <2>1. new \in Seq(RoomIds) /\ Len(new) = Len(sent[s]) + 1
    BY <1>4
  <2>. HIDE DEF new
  <2>2. new = [i \in 1..(Len(sent[s]) + 1) |-> new[i]]
    BY <2>1
  <2>. QED  BY <2>2 DEF new
<1>. QED  BY <1>5, <1>6, <1>7

SameReplies(t) ==
  /\ replies'[t] = replies[t] /\ sent'[t] = sent[t] /\ posted'[t] = posted[t]
  /\ writeMsgs'[t] = writeMsgs[t] /\ writes'[t] = writes[t] /\ written'[t] = written[t]

\* A step of one session leaves the replies of the others where they are.
LEMMA PipelineStep ==
  ASSUME Pipeline, NEW s \in Sessions, InPipeline(s)', \A t \in Sessions \ {s} : SameReplies(t)
  PROVE  Pipeline'
<1>1. ASSUME NEW t \in Sessions \ {s}
      PROVE  InPipeline(t)'
  BY <1>1 DEF Pipeline, InPipeline, Waiting, Taken, SameReplies
<1>. QED  BY <1>1 DEF Pipeline

LEMMA PipelineUnchanged == Pipeline /\ UNCHANGED writeVars => Pipeline'
BY DEF Pipeline, InPipeline, Waiting, Taken, writeVars

\* A request is answered by SendMsg once, or not at all.
LEMMA HandleMessageReplies ==
  ASSUME NEW s \in Sessions, HandleMessage(s)
  PROVE  \/ UNCHANGED writeVars
         \/ \E r \in RoomIds :
              /\ posted' = [posted EXCEPT ![s] = Append(@, r)]
              /\ replies' = [replies EXCEPT ![s] = Append(@, r)]
              /\ UNCHANGED <<writeMsgs, writes, written, sent>>
BY DEF HandleMessage, HandleCreateRoom, HandleJoinRoom, HandleLeaveRoom,
       HandleRoomListRequest, HandleReadOnly, writeVars

LEMMA HandleReadOkReplies ==
  ASSUME IInv, Pipeline, NEW s \in Sessions, HandleReadOk(s)
  PROVE  Pipeline'
<1>1. HandleMessage(s)
  BY DEF HandleReadOk
<1>2. CASE UNCHANGED writeVars
  BY <1>2, PipelineUnchanged
<1>3. ASSUME NEW r \in RoomIds,
             posted' = [posted EXCEPT ![s] = Append(@, r)],
             replies' = [replies EXCEPT ![s] = Append(@, r)],
             UNCHANGED <<writeMsgs, writes, written, sent>>
      PROVE  Pipeline'
  <2>1. /\ posted'[s] = Append(posted[s], r) /\ replies'[s] = Append(replies[s], r)
        /\ Waiting(s)' = Waiting(s)
    BY <1>3 DEF IInv, TypeOK, Waiting
  <2>2. Append((Taken(s) \o Waiting(s)) \o posted[s], r)
          = (Taken(s) \o Waiting(s)) \o Append(posted[s], r)
    <3>1. Taken(s) \o Waiting(s) \in Seq(RoomIds) /\ posted[s] \in Seq(RoomIds)
      BY WaitingType
    <3>. QED  BY <1>3, <3>1, Posted, Zenon
  <2>3. InPipeline(s)'
    BY <1>3, <2>1, <2>2 DEF Pipeline, InPipeline, Taken
  <2>4. \A t \in Sessions \ {s} : SameReplies(t)
    BY <1>3 DEF IInv, TypeOK, SameReplies
  <2>. QED  BY <2>3, <2>4, PipelineStep
<1>. QED  BY <1>1, <1>2, <1>3, HandleMessageReplies

LEMMA DoSendMsgReplies ==
  ASSUME IInv, Pipeline, NEW s \in Sessions, DoSendMsg(s)
  PROVE  Pipeline'
<1>. DEFINE p == Head(posted[s])
<1>1. posted[s] # <<>> /\ p \in RoomIds /\ Tail(posted[s]) \in Seq(RoomIds)
  BY WaitingType, HeadTailProperties DEF DoSendMsg
<1>2. /\ posted'[s] = Tail(posted[s]) /\ writeMsgs'[s] = Append(writeMsgs[s], p)
      /\ replies' = replies /\ sent' = sent
  BY DEF DoSendMsg, IInv, TypeOK
<1>3. /\ Waiting(s)' = Append(Waiting(s), p)
      /\ writes'[s] # <<>> => Head(writes'[s]) = ObjectOf(Head(writeMsgs'[s]))
  <2>1. CASE writeMsgs[s] = <<>>
    <3>1. writes[s] = <<>> /\ writes'[s] = Append(<<>>, ObjectOf(p)) /\ written'[s] = "pending"
      BY <2>1 DEF DoSendMsg, IInv, TypeOK, WriteQueue
    <3>. QED  BY <1>2, <2>1, <3>1 DEF Waiting
  <2>2. CASE writeMsgs[s] # <<>>
    <3>1. writes'[s] = writes[s] /\ written'[s] = written[s]
      BY <2>2 DEF DoSendMsg
    <3>2. /\ Head(Append(writeMsgs[s], p)) = Head(writeMsgs[s])
          /\ Tail(Append(writeMsgs[s], p)) = Append(Tail(writeMsgs[s]), p)
      BY <2>2, <1>1, WaitingType, HeadTailAppend
    <3>. QED  BY <1>2, <3>1, <3>2 DEF Waiting, Pipeline, InPipeline
  <2>. QED  BY <2>1, <2>2
<1>. HIDE DEF p
<1>4. (Taken(s) \o Waiting(s)) \o posted[s] = (Taken(s) \o Append(Waiting(s), p)) \o Tail(posted[s])
  <2>1. (Taken(s) \o Waiting(s)) \o posted[s]
          = Append(Taken(s) \o Waiting(s), p) \o Tail(posted[s])
    BY <1>1, WaitingType, Shifted DEF p
  <2>2. Append(Taken(s) \o Waiting(s), p) = Taken(s) \o Append(Waiting(s), p)
    <3>1. Taken(s) \in Seq(RoomIds) /\ Waiting(s) \in Seq(RoomIds) /\ p \in RoomIds
      BY <1>1, WaitingType
    <3>. QED  BY <3>1, Posted, Zenon
  <2>. QED  BY <2>1, <2>2
<1>5. InPipeline(s)'
  BY <1>2, <1>3, <1>4 DEF Pipeline, InPipeline, Taken
<1>6. \A t \in Sessions \ {s} : SameReplies(t)
  BY DEF DoSendMsg, IInv, TypeOK, SameReplies
<1>. QED  BY <1>5, <1>6, PipelineStep

LEMMA HandleWriteOkReplies ==
  ASSUME IInv, Pipeline, NEW s \in Sessions, HandleWriteOk(s)
  PROVE  Pipeline'
<1>1. /\ writes[s] # <<>> /\ written[s] = "ok" /\ writeMsgs[s] # <<>>
      /\ Len(writes[s]) <= 1
  BY DEF HandleWriteOk, IInv, WriteQueue
<1>2. Tail(writes[s]) = <<>>
  BY <1>1, WaitingType, TailOfOne
<1>3. /\ writeMsgs'[s] = Tail(writeMsgs[s]) /\ written'[s] = "pending"
      /\ writes'[s] = IF Tail(writeMsgs[s]) = <<>>
                      THEN <<>> ELSE Append(<<>>, ObjectOf(Head(Tail(writeMsgs[s]))))
      /\ posted' = posted /\ replies' = replies /\ sent' = sent
  BY <1>2 DEF HandleWriteOk, IInv, TypeOK
<1>4. Waiting(s)' = Waiting(s)
  BY <1>1, <1>3 DEF Waiting
<1>5. writes'[s] # <<>> => Head(writes'[s]) = ObjectOf(Head(writeMsgs'[s]))
  BY <1>3
<1>6. InPipeline(s)'
  BY <1>3, <1>4, <1>5 DEF Pipeline, InPipeline, Taken
<1>7. \A t \in Sessions \ {s} : SameReplies(t)
  BY DEF HandleWriteOk, IInv, TypeOK, SameReplies
<1>. QED  BY <1>6, <1>7, PipelineStep

\* The message of a failed write was not taken, and waits for ever.
LEMMA HandleWriteErrorReplies ==
  ASSUME IInv, Pipeline, NEW s \in Sessions, HandleWriteError(s)
  PROVE  Pipeline'
<1>1. writes[s] # <<>> /\ written[s] = "error" /\ Len(writes[s]) <= 1
  BY DEF HandleWriteError, IInv, WriteQueue
<1>2. Tail(writes[s]) = <<>>
  BY <1>1, WaitingType, TailOfOne
<1>3. /\ writes'[s] = <<>> /\ writeMsgs' = writeMsgs
      /\ posted' = posted /\ replies' = replies /\ sent' = sent
  BY <1>2 DEF HandleWriteError, IInv, TypeOK
<1>4. InPipeline(s)'
  BY <1>1, <1>3 DEF Pipeline, InPipeline, Waiting, Taken
<1>5. \A t \in Sessions \ {s} : SameReplies(t)
  BY DEF HandleWriteError, IInv, TypeOK, SameReplies
<1>. QED  BY <1>4, <1>5, PipelineStep

LEMMA WriteSucceedsReplies ==
  ASSUME IInv, Pipeline, NEW s \in Sessions, WriteSucceeds(s)
  PROVE  Pipeline'
<1>. DEFINE front == Head(writeMsgs[s])
<1>1. writes[s] # <<>> /\ written[s] = "pending" /\ writeMsgs[s] # <<>>
  BY DEF WriteSucceeds, IInv, WriteQueue
<1>2. /\ written'[s] = "ok" /\ sent'[s] = Append(sent[s], ObjectOf(front))
      /\ posted' = posted /\ replies' = replies /\ writeMsgs' = writeMsgs /\ writes' = writes
  BY <1>1 DEF WriteSucceeds, IInv, TypeOK, Pipeline, InPipeline
<1>3. Waiting(s) = writeMsgs[s] /\ Waiting(s)' = Tail(writeMsgs[s])
  BY <1>1, <1>2 DEF Waiting
<1>4. Taken(s) \o writeMsgs[s] = Append(Taken(s), front) \o Tail(writeMsgs[s])
  BY <1>1, WaitingType, Shifted
<1>5. Taken(s)' = Append(Taken(s), front)
  <2>1. front \in RoomIds
    BY <1>1, WaitingType
  <2>. QED  BY <1>2, <2>1, TakenAppend
<1>6. InPipeline(s)'
  BY <1>2, <1>3, <1>4, <1>5 DEF Pipeline, InPipeline
<1>7. \A t \in Sessions \ {s} : SameReplies(t)
  BY DEF WriteSucceeds, IInv, TypeOK, SameReplies
<1>. QED  BY <1>6, <1>7, PipelineStep

LEMMA WriteFailsReplies ==
  ASSUME IInv, Pipeline, NEW s \in Sessions, WriteFails(s)
  PROVE  Pipeline'
<1>1. InPipeline(s)'
  BY DEF WriteFails, IInv, TypeOK, Pipeline, InPipeline, Waiting, Taken
<1>2. \A t \in Sessions \ {s} : SameReplies(t)
  BY DEF WriteFails, IInv, TypeOK, SameReplies
<1>. QED  BY <1>1, <1>2, PipelineStep

LEMMA NextPipeline == IInv /\ Pipeline /\ [Next]_vars => Pipeline'
<1> SUFFICES ASSUME IInv, Pipeline, [Next]_vars PROVE Pipeline'
  OBVIOUS
<1>1. ASSUME NEW s \in Sessions,
             \/ HandleAccept(s) \/ HandleReadError(s)
             \/ \E m \in Message : ReceiveMessage(s, m)
             \/ ReadFails(s)
      PROVE  Pipeline'
  BY <1>1, PipelineUnchanged DEF HandleAccept, HandleReadError, ReceiveMessage, ReadFails
<1>2. CASE UNCHANGED vars
  BY <1>2, PipelineUnchanged DEF vars
<1>. QED
  BY <1>1, <1>2, HandleReadOkReplies, DoSendMsgReplies, HandleWriteOkReplies,
     HandleWriteErrorReplies, WriteSucceedsReplies, WriteFailsReplies DEF Next

LEMMA InitPipeline == Init => Pipeline
<1>. SUFFICES ASSUME Init, NEW s \in Sessions
              PROVE  InPipeline(s)
  BY DEF Pipeline
<1>1. /\ replies[s] = <<>> /\ Taken(s) = <<>> /\ Waiting(s) = <<>> /\ posted[s] = <<>>
      /\ writes[s] = <<>>
  BY DEF Init, Waiting, Taken
<1>2. (<<>> \o <<>>) \o <<>> = <<>>
  OBVIOUS
<1>. QED  BY <1>1, <1>2, Zenon DEF InPipeline

\* The network takes a session's replies in the order SendMsg was given them,
\* none twice and none left out, whatever writes fail and whenever.
THEOREM InOrder == Spec => []RepliesInOrder
<1>1. IInv /\ Pipeline => RepliesInOrder
  <2> SUFFICES ASSUME IInv, Pipeline, NEW s \in Sessions
               PROVE  /\ Len(sent[s]) <= Len(replies[s])
                      /\ \A i \in 1..Len(sent[s]) : sent[s][i] = ObjectOf(replies[s][i])
    BY DEF RepliesInOrder
  <2> DEFINE rest == Waiting(s) \o posted[s]
             taken == Taken(s)
  <2>1. /\ taken \in Seq(RoomIds) /\ rest \in Seq(RoomIds)
        /\ Len(taken) = Len(sent[s]) /\ sent[s] \in Seq(Buffer)
    BY WaitingType, ConcatProperties
  <2>2. replies[s] = taken \o rest
    <3>1. /\ Taken(s) \in Seq(RoomIds) /\ Waiting(s) \in Seq(RoomIds)
          /\ posted[s] \in Seq(RoomIds)
      BY WaitingType
    <3>2. replies[s] = (Taken(s) \o Waiting(s)) \o posted[s]
      BY DEF Pipeline, InPipeline
    <3>3. \A a, b, c \in Seq(RoomIds) : (a \o b) \o c = a \o (b \o c)
      BY ConcatAssociative
    <3>. QED  BY <3>1, <3>2, <3>3, Zenon
  <2>3. \A i \in 1..Len(sent[s]) : sent[s][i] = ObjectOf(taken[i])
    BY <2>1 DEF Taken, Buffer, ObjectOf
  <2>. HIDE DEF rest, taken
  <2>4. /\ Len(replies[s]) = Len(taken) + Len(rest)
        /\ \A i \in 1..Len(taken) : replies[s][i] = taken[i]
    <3>1. \A a, b \in Seq(RoomIds) :
            /\ Len(a \o b) = Len(a) + Len(b)
            /\ \A i \in 1..Len(a) : (a \o b)[i] = a[i]
      OBVIOUS
    <3>. QED  BY <2>1, <2>2, <3>1
  <2>5. Len(taken) \in Nat /\ Len(rest) \in Nat
    BY <2>1
  <2>. QED  BY <2>1, <2>3, <2>4, <2>5
<1>. QED  BY <1>1, Invariance, InitPipeline, NextPipeline, PTL DEF Spec

-----------------------------------------------------------------------------
(* RoomServer implements RoomDirectory.                                    *)

\* The room whose members hold a session is the one the session knows of.
LEMMA RoomOfIsCurrentRoom == IInv => roomOf = currentRoom
<1> SUFFICES ASSUME IInv PROVE roomOf = currentRoom
  OBVIOUS
<1>0. RoomTypes /\ MembershipConsistent
  BY DEF IInv, TypeOK, RoomTypes
<1>1. ASSUME NEW s \in Sessions
      PROVE  (IF \E r \in RoomIds : s \in members[r]
              THEN CHOOSE r \in RoomIds : s \in members[r]
              ELSE NoRoom) = currentRoom[s]
  <2>1. CASE currentRoom[s] = NoRoom
    BY <1>0, <2>1, RoomServerAssumption DEF MembershipConsistent
  <2>2. CASE currentRoom[s] # NoRoom
    <3>1. currentRoom[s] \in RoomIds /\ s \in members[currentRoom[s]]
      BY <1>0, <2>2 DEF RoomTypes, MembershipConsistent
    <3>2. \A r \in RoomIds : s \in members[r] <=> r = currentRoom[s]
      BY <1>0 DEF MembershipConsistent
    <3>. QED  BY <3>1, <3>2
  <2>. QED  BY <2>1, <2>2
<1>. QED  BY <1>0, <1>1 DEF roomOf, RoomTypes

\* Reading goes on, or was over: whether a session is new, live or gone.
LEMMA ConnUnchanged ==
  ASSUME sessionMap' = sessionMap,
         \A t \in Sessions : (read'[t] = "none") <=> (read[t] = "none")
  PROVE  connOf' = connOf
BY DEF connOf

\* Every request of a live session is a Create, Join or Leave of the
\* directory, or changes nothing there.
LEMMA HandleReadOkRefines ==
  ASSUME IInv, IInv', roomOf = currentRoom, roomOf' = currentRoom',
         NEW s \in Sessions, HandleReadOk(s)
  PROVE  [Directory!Next]_(Directory!dirVars)
<1>0. RoomTypes /\ MembershipConsistent
  BY DEF IInv, TypeOK, RoomTypes
<1>1. connOf' = connOf
  <2>1. \A t \in Sessions : (read'[t] = "none") <=> (read[t] = "none")
    BY DEF HandleReadOk, IInv, TypeOK
  <2>. QED  BY <2>1, ConnUnchanged DEF HandleReadOk
<1>2. connOf[s] = "live"
  BY DEF connOf, IInv, Lifecycle, HandleReadOk
<1>3. CASE HandleCreateRoom(s)
  <2>1. CASE UNCHANGED roomVars
    BY <1>1, <2>1 DEF Directory!dirVars, roomVars
  <2>2. CASE currentRoom[s] = NoRoom /\ ~UNCHANGED roomVars
    <3>1. PICK r \in RoomIds \ rooms : rooms' = rooms \union {r} /\ Join(s, r)
      BY <1>3, <2>2 DEF HandleCreateRoom
    <3>2. Directory!Create(s, r)
      BY <1>1, <1>2, <2>2, <3>1 DEF Directory!Create, Join
    <3>. QED  BY <3>1, <3>2 DEF Directory!Next
  <2>. QED  BY <1>3, <2>1, <2>2 DEF HandleCreateRoom
<1>4. CASE HandleJoinRoom(s)
  <2>1. CASE currentRoom[s] = NoRoom /\ readMsg[s].room \in rooms
    <3>1. Join(s, readMsg[s].room) /\ rooms' = rooms /\ readMsg[s].room \in RoomIds
      BY <1>0, <1>4, <2>1 DEF HandleJoinRoom, RoomTypes
    <3>2. Directory!Join(s, readMsg[s].room)
      BY <1>1, <1>2, <2>1, <3>1 DEF Directory!Join, Join
    <3>. QED  BY <3>1, <3>2 DEF Directory!Next
  <2>2. CASE ~(currentRoom[s] = NoRoom /\ readMsg[s].room \in rooms)
    BY <1>1, <1>4, <2>2 DEF HandleJoinRoom, Directory!dirVars
  <2>. QED  BY <2>1, <2>2
<1>5. CASE HandleLeaveRoom(s)
  <2>1. currentRoom' = [currentRoom EXCEPT ![s] = NoRoom] /\ rooms' = rooms
    BY <1>0, <1>5, LeaveEffect DEF HandleLeaveRoom
  <2>2. CASE currentRoom[s] = NoRoom
    <3>1. currentRoom' = currentRoom
      BY <1>0, <2>1, <2>2 DEF RoomTypes
    <3>. QED  BY <1>1, <2>1, <3>1 DEF Directory!dirVars
  <2>3. CASE currentRoom[s] # NoRoom
    <3>1. Directory!Leave(s)
      BY <1>1, <1>2, <2>1, <2>3 DEF Directory!Leave
    <3>. QED  BY <3>1 DEF Directory!Next
  <2>. QED  BY <2>2, <2>3
<1>6. CASE HandleRoomListRequest(s) \/ HandleReadOnly(s)
  BY <1>1, <1>6 DEF HandleRoomListRequest, HandleReadOnly, roomVars, Directory!dirVars
<1>. QED  BY <1>3, <1>4, <1>5, <1>6 DEF HandleReadOk, HandleMessage

\* A failed read is the session's departure; a failed write takes it out of
\* its room, if it is in one, and leaves it live until its read fails too.
LEMMA DisconnectRefines ==
  ASSUME IInv, IInv', roomOf = currentRoom, roomOf' = currentRoom',
         NEW s \in Sessions, HandleReadError(s) \/ HandleWriteError(s)
  PROVE  [Directory!Next]_(Directory!dirVars)
<1>1. currentRoom' = [currentRoom EXCEPT ![s] = NoRoom] /\ rooms' = rooms
  BY HandleDisconnectEffect DEF HandleReadError, HandleWriteError
<1>2. CASE HandleReadError(s)
  <2>1. connOf[s] = "live"
    BY <1>2 DEF connOf, IInv, Lifecycle, HandleReadError
  <2>2. connOf' = [connOf EXCEPT ![s] = "gone"]
    <3>1. s \in sessionMap /\ sessionMap' = sessionMap
      BY <1>2 DEF IInv, Lifecycle, HandleReadError
    <3>2. read'[s] = "none" /\ \A t \in Sessions \ {s} : read'[t] = read[t]
      BY <1>2 DEF IInv, TypeOK, HandleReadError
    <3>. QED  BY <3>1, <3>2, Zenon DEF connOf
  <2>3. Directory!Depart(s)
    BY <1>1, <2>1, <2>2 DEF Directory!Depart
  <2>. QED  BY <2>3 DEF Directory!Next
<1>3. CASE HandleWriteError(s)
  <2>1. connOf' = connOf
    BY <1>3, ConnUnchanged DEF HandleWriteError
  <2>2. CASE currentRoom[s] = NoRoom
    <3>1. currentRoom' = currentRoom
      BY <1>1, <2>2 DEF IInv, TypeOK
    <3>. QED  BY <1>1, <2>1, <3>1 DEF Directory!dirVars
  <2>3. CASE currentRoom[s] # NoRoom
    <3>1. connOf[s] = "live"
      BY <2>3 DEF connOf, IInv, Lifecycle, NoZombie
    <3>2. Directory!Leave(s)
      BY <1>1, <2>1, <2>3, <3>1 DEF Directory!Leave
    <3>. QED  BY <3>2 DEF Directory!Next
  <2>. QED  BY <2>2, <2>3
<1>. QED  BY <1>2, <1>3

LEMMA NextRefines ==
  ASSUME IInv, IInv', roomOf = currentRoom, roomOf' = currentRoom', [Next]_vars
  PROVE  [Directory!Next]_(Directory!dirVars)
<1>1. ASSUME NEW s \in Sessions, HandleAccept(s)
      PROVE  [Directory!Next]_(Directory!dirVars)
  <2>1. connOf[s] = "new" /\ connOf' = [connOf EXCEPT ![s] = "live"]
    BY <1>1 DEF connOf, IInv, TypeOK, Lifecycle, HandleAccept
  <2>2. Directory!Connect(s)
    BY <1>1, <2>1 DEF Directory!Connect, HandleAccept, roomVars
  <2>. QED  BY <2>2 DEF Directory!Next
<1>2. ASSUME NEW s \in Sessions, HandleReadOk(s)
      PROVE  [Directory!Next]_(Directory!dirVars)
  BY <1>2, HandleReadOkRefines
<1>3. ASSUME NEW s \in Sessions, HandleReadError(s) \/ HandleWriteError(s)
      PROVE  [Directory!Next]_(Directory!dirVars)
  BY <1>3, DisconnectRefines
<1>4. ASSUME NEW s \in Sessions,
             \/ DoSendMsg(s) \/ HandleWriteOk(s)
             \/ WriteSucceeds(s) \/ WriteFails(s)
      PROVE  [Directory!Next]_(Directory!dirVars)
  <2>1. UNCHANGED <<connVars, roomVars>>
    BY <1>4 DEF DoSendMsg, HandleWriteOk, WriteSucceeds, WriteFails
  <2>. QED  BY <2>1, ConnUnchanged DEF Directory!dirVars, connVars, roomVars
<1>5. ASSUME NEW s \in Sessions,
             (\E m \in Message : ReceiveMessage(s, m)) \/ ReadFails(s)
      PROVE  [Directory!Next]_(Directory!dirVars)
  <2>1. /\ UNCHANGED <<sessionMap, roomVars>>
        /\ \A t \in Sessions : (read'[t] = "none") <=> (read[t] = "none")
    BY <1>5 DEF ReceiveMessage, ReadFails, IInv, TypeOK
  <2>. QED  BY <2>1, ConnUnchanged DEF Directory!dirVars, roomVars
<1>6. CASE UNCHANGED vars
  BY <1>6, ConnUnchanged DEF vars, connVars, roomVars, Directory!dirVars
<1>. QED  BY <1>1, <1>2, <1>3, <1>4, <1>5, <1>6 DEF Next

LEMMA InitRefines == Init => Directory!Init
BY RoomServerAssumption DEF Init, Directory!Init, connOf, roomOf

\* The server implements the room directory: whatever the order of reads,
\* writes and disconnects, a client sees a session that is live, then gone,
\* and in one room at a time.
THEOREM Refinement == Spec => ImplementsDirectory
<1>1. IInv /\ IInv' /\ [Next]_vars => [Directory!Next]_(Directory!dirVars)
  <2>1. (IInv => roomOf = currentRoom)'
    BY RoomOfIsCurrentRoom, PTL
  <2>. QED  BY <2>1, RoomOfIsCurrentRoom, NextRefines
<1>. QED
  BY <1>1, InitRefines, Invariance, PTL DEF Spec, ImplementsDirectory, Directory!Spec
=============================================================================
