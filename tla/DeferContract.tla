--------------------------- MODULE DeferContract ---------------------------
(***************************************************************************)
(* What the language reference promises of `defer': instructions deferred  *)
(* in an execution context are executed, in order and once, when that      *)
(* context ends; contexts end in the reverse order of their beginning.     *)
(* Abstract: contexts are a stack of scopes, nothing is said of what the   *)
(* program computes in them.                                               *)
(***************************************************************************)
EXTENDS Integers, Sequences

VARIABLES
  scopes,     \* the open contexts: what is pending in each, is it ending
  executed,   \* the deferred instructions executed so far
  registered  \* how many instructions have been deferred

scopeVars == <<scopes, executed, registered>>

Scope(pending, ending) == [pending |-> pending, ending |-> ending]
Last    == scopes[Len(scopes)]
Outer   == SubSeq(scopes, 1, Len(scopes) - 1)

Init ==
  /\ scopes = << Scope(<< >>, FALSE) >>
  /\ executed = {} /\ registered = 0

\* A context begins, in the program or in a deferred instruction.
Open ==
  /\ scopes' = Append(scopes, Scope(<< >>, FALSE))
  /\ UNCHANGED <<executed, registered>>

\* An instruction is deferred in the innermost context.
Register ==
  /\ scopes # << >> /\ ~Last.ending
  /\ registered' = registered + 1
  /\ scopes' = Append(Outer, Scope(Append(Last.pending, registered'), FALSE))
  /\ UNCHANGED executed

\* The innermost context ends: first its deferred instructions are executed.
BeginEnd ==
  /\ scopes # << >> /\ ~Last.ending
  /\ scopes' = Append(Outer, Scope(Last.pending, TRUE))
  /\ UNCHANGED <<executed, registered>>

\* A deferred instruction starts; it may at once open a context of its own,
\* or end the process.
Execute ==
  /\ scopes # << >> /\ Last.ending /\ Last.pending # << >>
  /\ Head(Last.pending) \notin executed
  /\ executed' = executed \union {Head(Last.pending)}
  /\ LET rest == Append(Outer, Scope(Tail(Last.pending), TRUE))
     IN  scopes' \in {rest, Append(rest, Scope(<< >>, FALSE)), << >>}
  /\ UNCHANGED registered

End ==
  /\ scopes # << >> /\ Last.ending /\ Last.pending = << >>
  /\ scopes' = Outer
  /\ UNCHANGED <<executed, registered>>

\* The process exits, wherever it is: nothing more is executed.
Exit ==
  /\ scopes' = << >>
  /\ UNCHANGED <<executed, registered>>

Next == Open \/ Register \/ BeginEnd \/ Execute \/ End \/ Exit

Spec == Init /\ [][Next]_scopeVars
=============================================================================
