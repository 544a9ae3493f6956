CONSTANTS
  u1 = u1
  u2 = u2
  normal = normal
  guild = guild
  Users <- MCUsers
  Channels <- MCChannels
  GreetOrder <- MCGreetOrder
  MaxErrors = 1

SPECIFICATION Spec

INVARIANT OneSubscriptionPerChannel

CHECK_DEADLOCK FALSE
