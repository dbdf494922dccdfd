SPECIFICATION Spec
CONSTANTS
  Ops = {"prim", "lambda", "variadic", "loop", "if", "try", "throw", "defer", "yield", "exit", "access", "walk", "head"}
  Throws = {"exception", "std_exception"}
  Repl = TRUE
  Habits = {"nested_defer", "yield_in_arg"}
  MaxCallDepth = 3
  MaxFrames = 3
  MaxCtxs = 3
  MaxDefers = 1
INVARIANTS
  TypeOK
  CallEntriesStay
  ContextsStay
  CallsBalanced
