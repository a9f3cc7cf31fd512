SPECIFICATION CSpec
CONSTANTS
  Unit = {a, b}
  Pid = {p1, p2, p3}
  None = None
  MaxForks = 5
  MaxCrashes = 2
  MaxSent = 1
INVARIANTS
  MainIsOurs
  ReadySeen
  ZombieNoticed
PROPERTIES
  ExitTold
SYMMETRY Symmetry
CHECK_DEADLOCK FALSE
