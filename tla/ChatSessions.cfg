CONSTANTS
  u1 = u1
  u2 = u2
  normal = normal
  guild = guild
  Users <- MCUsers
  Channels <- MCChannels
  GreetOrder <- MCGreetOrder
  MaxErrors = 1

SPECIFICATION Spec

INVARIANTS
  TypeOK
  SessionsDoNotInterfere
  CleanLeaveIsComplete
  ChannelsAreFed

\* Sessions come once and go.
CHECK_DEADLOCK FALSE
