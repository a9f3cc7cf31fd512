CONSTANTS
  Name = {"basic", "shut", "multi", "svc", "help", "nick", "odd", "dev"}
  NoFile = NoFile
  None = None
  File <- MCFile
  Type <- MCType
  PresetFile <- MCPresets
  SYSINIT_TARGET = "basic"
  BASIC_TARGET = "basic"
  SHUTDOWN_TARGET = "shut"
  Point = {p1, p2}
  PointName <- MCPointName
  Asked = {"multi", "svc", "nick"}
  MaxCmds = 2
  MaxCrashes = 2
SPECIFICATION MSpec
INVARIANTS
  DisabledNotPulled
  NoUnitForgotten
  TargetOrdered
  MountInSync
CHECK_DEADLOCK FALSE
