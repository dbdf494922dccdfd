SPECIFICATION Spec
CONSTANTS
  Names = {x, y}
  Keys = {"k"}
  Numbers = {n0, n1}
  Careless = FALSE
  Knots = FALSE
  MaxCells = 5
  MaxEnvs = 2
  MaxWaiting = 2
SYMMETRY Symmetry
INVARIANTS
  TypeOK
  CountsAgree
  NothingLeaks
PROPERTY ImplementsTables
