SPECIFICATION FairSpec
CONSTANTS
  a = a
  b = b
  c = c
  Unit = {a, b}
  Deps <- DepsOrdered
  IgnoreOnIsolate = {}
  StartPaths <- OneReport
  CommandKinds = {"Start", "Reload"}
  Restarts = {}
  Strays = {}
  OnFailureJobMode <- ModeFail
  OnSuccessJobMode <- ModeReplace
  MaxCommands = 3
INVARIANTS
  NoOverflow
CHECK_DEADLOCK FALSE
