SPECIFICATION SSpec
CONSTANTS
  Configs <- JustWatched
  Faults = TRUE
  StartPaths <- AllStartPaths
PROPERTIES
  WatchdogRestarts
CHECK_DEADLOCK FALSE
