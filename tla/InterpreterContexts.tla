------------------------ MODULE InterpreterContexts ------------------------
(***************************************************************************)
(* The interpreter's context stack implements DeferContract, for programs  *)
(* that stay away from what breaks it (exceptions, yields, loops run by    *)
(* deferred instructions): see the README for which of them do, and how.   *)
(***************************************************************************)
EXTENDS Interpreter

Ids(list) == [i \in DOMAIN list |-> list[i].id]

\* The pop_ctx frame that is ending the i-th context, if there is one.
Ending(i) == {j \in DOMAIN frames : frames[j].op = "deferred" /\ frames[j].ctx = i - 1}

ScopeOf(i) ==
  IF Ending(i) = {}
  THEN [pending |-> Ids(ctxs[i]), ending |-> FALSE]
  ELSE [pending |-> Ids(frames[CHOOSE j \in Ending(i) : TRUE].list), ending |-> TRUE]

Contract == INSTANCE DeferContract WITH
              scopes     <- IF status = "exit" THEN << >>
                            ELSE [i \in 1..Len(ctxs) |-> ScopeOf(i)],
              executed   <- {d \in DeferId : runs[d] > 0},
              registered <- deferCount

\* Every step of the interpreter is a step of DeferContract or leaves its
\* contexts alone: deferred instructions are executed once, in order, by the
\* context they were given to, and contexts end innermost first.
ImplementsContract == Contract!Spec
=============================================================================
