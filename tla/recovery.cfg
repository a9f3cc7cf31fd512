SPECIFICATION RFairSpec
CONSTANTS
  a = a
  b = b
  Unit = {a, b}
  Deps <- DepsOrdered
  IgnoreOnIsolate = {}
  StartPaths <- OneReport
  CommandKinds = {"Start", "Stop"}
  Restarts = {}
  Strays = {b}
  OnFailureJobMode <- ModeFail
  OnSuccessJobMode <- ModeReplace
  NoUnit = NoUnit
  MaxCrashes = 1
INVARIANTS
  TableInSync
  RecoveredReady
PROPERTIES
  RecoveryEnds
