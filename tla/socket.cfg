SPECIFICATION KLive
CONSTANTS
  Port = {stream, dgram}
  Stream = {stream}
  Configs <- SomeConfigs
  Faults = TRUE
  MaxStarts = 2
  MaxReexecs = 1
INVARIANTS
  PortsFollowState
PROPERTIES
  ClientsActivate
  SocketStops
CHECK_DEADLOCK FALSE
