CONSTANTS
  MaxMails = 3
  MaxReadCount = 2
  MaxRounds = 4

SPECIFICATION Spec

CHECK_DEADLOCK FALSE

INVARIANTS
  TypeOK
  EachMailIsInItsBoxOnce
  CachedBoxIsComplete
  ReadsFindTheirMail
  AcksMeetTheirTask

PROPERTY ScenarioEnds
