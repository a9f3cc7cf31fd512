SPECIFICATION FLive
CONSTANTS
  MaxInc = 2
  TimeOut = 2
  AcceptCount = 2
INVARIANTS
  ConnectionIsCurrent
  NotKilledInBoot
PROPERTIES
  Supervised
CHECK_DEADLOCK FALSE
