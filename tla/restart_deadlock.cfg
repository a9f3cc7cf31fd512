SPECIFICATION FairSpec
CONSTANTS
  a = a
  b = b
  c = c
  Unit = {a, b}
  Deps <- DepsOrdered
  IgnoreOnIsolate = {}
  StartPaths <- OneReport
  CommandKinds = {"Restart"}
  Restarts = {}
  Strays = {}
  OnFailureJobMode <- ModeFail
  OnSuccessJobMode <- ModeReplace
  MaxCommands = 1
PROPERTIES
  JobsEnd
CHECK_DEADLOCK FALSE
