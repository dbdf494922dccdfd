SPECIFICATION Spec
CONSTANTS
  Names = {"f", "p"}
  Param = "p"
  Escapes = FALSE
  Throws = TRUE
  MaxCells = 4
  MaxEnvs = 3
  MaxMade = 4
INVARIANTS
  TypeOK
  ScopeIsStatic
  OnlyArgumentsShared
  ErrorStaysInside
