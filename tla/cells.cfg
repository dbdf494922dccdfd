SPECIFICATION Spec
CONSTANTS
  Names = {"a", "b"}
  MaxLen = 2
  MaxDepth = 3
  MaxCells = 6
  SelfSets = FALSE
INVARIANTS TypeOK HeldOnce
PROPERTY ImplementsValues
