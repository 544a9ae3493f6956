CONSTANTS
  Sessions = {s1, s2}
  RoomIds = {r1, r2}
  NoSession = NoSession
  NoRoom = NoRoom
  RoomListMax = 1

SPECIFICATION Spec

INVARIANTS
  RepliesAreSerialized

\* Every client may be gone for good, or the thread lost to a request.
CHECK_DEADLOCK FALSE
