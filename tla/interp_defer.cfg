SPECIFICATION Spec
CONSTANTS
  Ops = {"prim", "lambda", "variadic", "try", "defer", "exit", "access", "walk", "head"}
  Throws = {}
  Repl = FALSE
  Habits = {}
  MaxCallDepth = 9
  MaxFrames = 4
  MaxCtxs = 4
  MaxDefers = 2
INVARIANTS
  DeferredAtMostOnce
  ContextsBalanced
PROPERTIES
  DeferredByContextEnd
  DeferredInScope
  ImplementsContract
