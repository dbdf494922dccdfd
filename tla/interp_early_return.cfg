SPECIFICATION Spec
CONSTANTS
  Ops = {"prim", "lambda", "yield", "defer", "walk"}
  Throws = {}
  Repl = FALSE
  Habits = {}
  MaxCallDepth = 9
  MaxFrames = 4
  MaxCtxs = 4
  MaxDefers = 1
PROPERTY DeferredByContextEnd
