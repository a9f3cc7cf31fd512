SPECIFICATION FairSpec
CONSTANTS
  a = a
  b = b
  c = c
  Unit = {a, b, c}
  Deps <- DepsBoot
  IgnoreOnIsolate = {}
  StartPaths <- OneReport
  CommandKinds = {"Start"}
  Restarts = {}
  Strays = {}
  OnFailureJobMode <- ModeFail
  OnSuccessJobMode <- ModeReplace
  MaxCommands = 2
INVARIANTS
  WaitsJustified
PROPERTIES
  JobsEnd
CHECK_DEADLOCK FALSE
