SPECIFICATION FairSpec
CONSTANTS
  Ops = {"prim", "lambda", "loop", "if", "try", "yield", "walk"}
  Throws = {}
  Repl = FALSE
  Habits = {}
  MaxCallDepth = 9
  MaxFrames = 4
  MaxCtxs = 5
  MaxDefers = 0
PROPERTIES
  YieldEndsItsCall
  YieldReturns
