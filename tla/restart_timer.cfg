SPECIFICATION SSpec
CONSTANTS
  Configs <- JustBare
  Faults = FALSE
  StartPaths <- AllStartPaths
INVARIANTS
  TimerExpected
CHECK_DEADLOCK FALSE
