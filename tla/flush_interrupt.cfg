SPECIFICATION CountSpec
CONSTANTS
  a = a
  b = b
  c = c
  Unit = {a, b}
  Deps <- DepsOnSuccess
  IgnoreOnIsolate = {}
  StartPaths <- OneReport
  CommandKinds = {"Start", "Stop"}
  Restarts = {}
  Strays = {}
  OnFailureJobMode <- ModeFail
  OnSuccessJobMode <- ModeFlush
INVARIANTS
  InterrupterExists
