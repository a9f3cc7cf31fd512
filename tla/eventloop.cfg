SPECIFICATION ESpec
CONSTANTS
    io = io
    defer = defer
    t1 = t1
    t2 = t2
    Nobody = Nobody
    Source <- MCSource
    Type <- MCType
    Prio <- MCPrio
    Delay <- MCDelay
    Modes <- MCModes
    MaxPending = 2
    MaxEqual = 1
INVARIANTS
  SourcesKept
PROPERTIES
  Served
  IsScheduler
CHECK_DEADLOCK FALSE
