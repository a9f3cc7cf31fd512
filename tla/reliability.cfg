SPECIFICATION LSpec
CONSTANTS
  Unit = {a, b}
  Fd = {1}
  None = None
  MaxCrashes = 2
  MaxEvents = 2
  MaxDepth = 3
INVARIANTS
  CacheIsStored
  FdAccounted
  NoFalseTrigger
CHECK_DEADLOCK FALSE
SYMMETRY Units
