SPECIFICATION SSpec
CONSTANTS
  Configs <- AllServices
  Faults = FALSE
  StartPaths <- AllStartPaths
INVARIANTS
  ProcessesFollowState
  StopHonoured
PROPERTIES
  InEnvelope
  StopEnds
CHECK_DEADLOCK FALSE
