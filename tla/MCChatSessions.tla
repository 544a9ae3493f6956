--------------------------- MODULE MCChatSessions ---------------------------
(* ChatSessions with two sessions: u1 enters a shared channel and one of   *)
(* its own, u2 the shared one.                                             *)
EXTENDS ChatSessions

CONSTANTS u1, u2, normal, guild

MCUsers == {u1, u2}
MCChannels == {normal, guild}
MCGreetOrder == [u \in MCUsers |-> IF u = u1 THEN <<normal, guild>> ELSE <<normal>>]
=============================================================================
