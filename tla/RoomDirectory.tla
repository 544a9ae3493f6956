--------------------------- MODULE RoomDirectory ---------------------------
(***************************************************************************)
(* What the room server promises its clients, without sockets, queues or   *)
(* handlers: a session is created once, is live while the server still     *)
(* reads from it and is then gone for good; only a live session is in a    *)
(* room, it is in one room at a time, and it changes rooms by leaving      *)
(* before it enters.  RoomServer is shown to implement this specification. *)
(***************************************************************************)
CONSTANTS
  Sessions,  \* connections the acceptor may hand out
  RoomIds,   \* identifiers a room may get
  NoRoom     \* the room id of a session that is in no room; no room has it

VARIABLES
  conn,      \* conn[s]: whether s is new, live or gone
  room,      \* room[s]: the room s is in, or NoRoom
  rooms      \* the rooms that exist

dirVars == <<conn, room, rooms>>

Init ==
  /\ conn = [s \in Sessions |-> "new"]
  /\ room = [s \in Sessions |-> NoRoom]
  /\ rooms = {}

Connect(s) ==
  /\ conn[s] = "new"
  /\ conn' = [conn EXCEPT ![s] = "live"]
  /\ UNCHANGED <<room, rooms>>

\* A live session outside every room opens a room nobody else has.
Create(s, r) ==
  /\ conn[s] = "live"
  /\ room[s] = NoRoom
  /\ r \notin rooms
  /\ rooms' = rooms \union {r}
  /\ room' = [room EXCEPT ![s] = r]
  /\ UNCHANGED conn

Join(s, r) ==
  /\ conn[s] = "live"
  /\ room[s] = NoRoom
  /\ r \in rooms
  /\ room' = [room EXCEPT ![s] = r]
  /\ UNCHANGED <<conn, rooms>>

Leave(s) ==
  /\ conn[s] = "live"
  /\ room[s] # NoRoom
  /\ room' = [room EXCEPT ![s] = NoRoom]
  /\ UNCHANGED <<conn, rooms>>

\* The last thing a session does; it takes the session out of its room.
Depart(s) ==
  /\ conn[s] = "live"
  /\ conn' = [conn EXCEPT ![s] = "gone"]
  /\ room' = [room EXCEPT ![s] = NoRoom]
  /\ UNCHANGED rooms

Next ==
  \E s \in Sessions :
    \/ Connect(s)
    \/ Leave(s)
    \/ Depart(s)
    \/ \E r \in RoomIds : Create(s, r) \/ Join(s, r)

Spec == Init /\ [][Next]_dirVars
=============================================================================
