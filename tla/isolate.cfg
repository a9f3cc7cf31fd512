SPECIFICATION CountSpec
CONSTANTS
  a = a
  b = b
  c = c
  Unit = {a, b}
  Deps <- DepsOrdered
  IgnoreOnIsolate = {}
  StartPaths <- OneReport
  CommandKinds = {"Start"}
  Restarts = {}
  Strays = {}
  OnFailureJobMode <- ModeFail
  OnSuccessJobMode <- ModeReplace
INVARIANTS
  IsolateSparesAssigned
