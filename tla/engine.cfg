SPECIFICATION CountSpec
CONSTANTS
  a = a
  b = b
  c = c
  Unit = {a, b}
  Deps <- DepsFallback
  IgnoreOnIsolate = {}
  StartPaths <- OneReport
  CommandKinds = {"Start", "Stop", "Restart", "Reload"}
  Restarts = {a}
  Strays = {}
  OnFailureJobMode <- ModeFail
  OnSuccessJobMode <- ModeIrreversible
INVARIANTS
  TableInSync
  NoLostWakeup
  ReportMeetsItsJob
  CountsHeld
PROPERTIES
  InterruptedByStop
  IrreversibleKept
