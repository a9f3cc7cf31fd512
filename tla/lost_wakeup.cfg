SPECIFICATION RSpec
CONSTANTS
  a = a
  b = b
  Unit = {a, b}
  Deps <- DepsOrdered
  IgnoreOnIsolate = {}
  StartPaths <- OneReport
  CommandKinds = {"Start"}
  Restarts = {}
  Strays = {}
  OnFailureJobMode <- ModeFail
  OnSuccessJobMode <- ModeReplace
  NoUnit = NoUnit
  MaxCrashes = 1
INVARIANTS
  NoLostWakeup
