SPECIFICATION Spec
CONSTANTS
  Files <- FilesMC
  Modules = {"A", "B"}
  Imports <- ImportsMC
  Uses <- UsesMC
  Sources <- SourcesMC
  Posts <- PostsMC
  Libraries = {"A"}
  Repl = TRUE
  MaxLen = 3
  MaxDepth = 9
  MaxEnvs = 8
INVARIANTS
  TypeOK
  LoadedOnce
  BoundIsComplete
PROPERTY LoadingEnds
