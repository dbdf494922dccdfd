SPECIFICATION Spec
CONSTANTS
  Byte = 2
  Size <- SizeOf
  Nums = {"x"}
  Ptrs = {"p", "q"}
  Literals <- LiteralNumbers
  MaxBlocks = 2
  Aliases = FALSE
  Odd = {}
  Careless = FALSE
INVARIANTS TypeOK NothingDangles LoadsWhatWasStored
CHECK_DEADLOCK FALSE
