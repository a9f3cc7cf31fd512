SPECIFICATION SSpec
CONSTANTS
  Configs <- JustOneshot
  Faults = TRUE
  StartPaths <- AllStartPaths
INVARIANTS
  RecordLoads
CHECK_DEADLOCK FALSE
