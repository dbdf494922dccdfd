---------------------------- MODULE Interpreter ----------------------------
(***************************************************************************)
(* The control of interpreter_c (interpreter/interpreter.cpp) and of the   *)
(* builtins that touch its four pieces of private state: the call stack,   *)
(* the stack of execution contexts with their deferred instructions, the   *)
(* yield value, and the C++ exception in flight.                           *)
(*                                                                         *)
(* The program being interpreted is not fixed: whenever the interpreter    *)
(* processes a cell, the model lets the cell be anything a program can put *)
(* there.  "frames" is the C++ stack: one record per active builtin call,  *)
(* data list being walked, operator being computed, or pop_ctx in progress. *)
(* A frame's pc is where it continues, so calling another function stores  *)
(* the caller's return address first.                                      *)
(*                                                                         *)
(* interpreter_c::terminate is left out: nothing in the repository calls   *)
(* it, so flags_.terminate is never set.                                   *)
(***************************************************************************)
EXTENDS Integers, Sequences, FiniteSets

CONSTANTS
  Ops,           \* the builtins the program uses, a subset of AllOps
  Throws,        \* the kinds of C++ exception its builtins raise
  Repl,          \* flags_.repl_mode
  Habits,        \* the unusual things the program does, see AllHabits
  MaxCallDepth,  \* interpreter_c::MAX_CALL_DEPTH
  MaxFrames,     \* bound: active C++ frames below which a new one may start
  MaxCtxs,       \* bound: contexts below which a new call may start
  MaxDefers      \* bound: instructions deferred in a whole run

(***************************************************************************)
(* "prim" stands for every builtin that evaluates some arguments and then  *)
(* returns or throws (arithmetic, lists, eval, iter, macros, ...);         *)
(* "variadic" is a lambda whose only parameter is :args.                   *)
(* "access" is an access list {a b}; "walk" a data list executed as code;  *)
(* "head" a list whose operator is itself a list, ((f) x).                 *)
(***************************************************************************)
Builtins == {"prim", "lambda", "variadic", "loop", "if", "try", "throw",
             "defer", "yield", "exit"}
AllOps   == Builtins \union {"access", "walk", "head"}

(***************************************************************************)
(* Programs that run `defer' inside a deferred instruction, and programs   *)
(* that run `<-' inside an argument of a call of a user's function, are    *)
(* legal; some properties hold only of programs that do neither.           *)
(***************************************************************************)
AllHabits == {"nested_defer", "yield_in_arg"}

\* Builtins that call push_ctx before they evaluate anything; a lambda does
\* so only after its arguments.
PushAtEntry == {"loop", "if", "try"}

\* interpreter_c::exception_c and cell_access_exception_c are what `try'
\* catches; any other std::exception passes it by.
Exceptions == {"exception", "std_exception"}

ASSUME OpsAssumption    == Ops \subseteq AllOps
ASSUME ThrowsAssumption == Throws \subseteq Exceptions
ASSUME FlagAssumption   == Repl \in BOOLEAN /\ Habits \subseteq AllHabits
ASSUME BoundAssumption  == /\ MaxCallDepth \in Nat /\ MaxFrames \in Nat
                           /\ MaxCtxs \in Nat /\ MaxDefers \in Nat

VARIABLES
  frames,     \* the C++ stack, innermost frame last
  callStack,  \* call_stack_.size()
  ctxs,       \* ctxs_: the deferred instructions of each context
  yield,      \* stored_cells_.yield_value: NoYield, or the frame of the
              \* function body whose execution it is to end (0: no function)
  status,     \* what the interpreter is doing, or the exception in flight
  deferCount, \* history: how many instructions were deferred
  runs,       \* history: how often each deferred instruction was executed
  threw       \* history: some exception has been raised

vars == <<frames, callStack, ctxs, yield, status, deferCount, runs, threw>>

DeferId  == 1..MaxDefers
Deferred == [id : DeferId, env : Nat]

\* Where each kind of frame starts, and where it continues after the cell it
\* is processing: a frame at any other pc is not processing a cell.
EntryPc == [prim |-> "args", lambda |-> "arg", variadic |-> "arg",
            loop |-> "pre", if |-> "cond", try |-> "attempt",
            throw |-> "eval", defer |-> "next", yield |-> "eval", exit |-> "eval"]

Resume == [prim     |-> [args |-> "args"],
           lambda   |-> [arg |-> "again", again |-> "arg", body |-> "pop"],
           variadic |-> [arg |-> "arg", body |-> "pop"],
           loop     |-> [pre |-> "cond", cond |-> "test", body |-> "bodied",
                         post |-> "cond"],
           if       |-> [cond |-> "test", branch |-> "ret"],
           try      |-> [attempt |-> "attempted", recover |-> "recovered"],
           throw    |-> [eval |-> "throw"],
           defer    |-> << >>,
           yield    |-> [eval |-> "set"],
           exit     |-> [eval |-> "exit"],
           walk     |-> [item |-> "check"],
           head     |-> [op |-> "call"],
           deferred |-> [next |-> "next"]]

\* Cells processed with process_data_list set, where a data list is code.
WalksData(f) == \/ f.op \in {"lambda", "variadic", "loop"} /\ f.pc = "body"
                \/ f.op = "if"     /\ f.pc = "branch"
                \/ f.op = "try"
                \/ f.op \in {"throw", "deferred", "head"}

\* Cells processed in the frame's own environment instead of its caller's.
OwnScope(f) == \/ f.op \in {"loop", "if"}
               \/ f.op \in {"lambda", "variadic"} /\ f.pc = "body"
               \/ f.op = "try" /\ f.pc = "recover"

(***************************************************************************)
(* Frames.  calls and ctx are history: the sizes of the call stack and of  *)
(* the context stack when the frame was entered.  owes is history too: the *)
(* instructions deferred directly in the execution context that this frame *)
(* is, in the sense of the language reference.                             *)
(***************************************************************************)
IsCall(f)   == f.op \in Builtins
IsLambda(f) == f.op \in {"lambda", "variadic"}

Frame(op, pc, env, list, calls, ctx) ==
  [op |-> op, pc |-> pc, env |-> env, list |-> list,
   calls |-> calls, ctx |-> ctx, owes |-> {}]

Depth   == Len(frames)
Top     == frames[Depth]
Below   == SubSeq(frames, 1, Depth - 1)
Running == status = "run" /\ Depth > 0
At(op, pc) == Running /\ Top.op = op /\ Top.pc = pc

NoYield == -1
Room    == Depth < MaxFrames /\ Len(ctxs) < MaxCtxs

Evaluating == /\ Running
              /\ Top.pc \in DOMAIN Resume[Top.op]
              /\ Top.op = "deferred" => Top.list # << >>

\* The environment the top frame's cell is processed in: an environment is
\* named by the frame that owns it, the interpreter's own is 0.
EvalEnv == IF OwnScope(Top) THEN Depth ELSE Top.env

\* The C++ stack once the top frame has stored where it continues.
Goto(pc) == [frames EXCEPT ![Depth].pc = pc]
Resumed  == IF Top.op = "deferred"
            THEN [frames EXCEPT ![Depth].list = Tail(@)]
            ELSE Goto(Resume[Top.op][Top.pc])

\* A deferred instruction has been executed once process_cell accepts it.
RunsNow == IF Top.op = "deferred"
           THEN [runs EXCEPT ![Head(Top.list).id] = IF @ < 2 THEN @ + 1 ELSE @]
           ELSE runs

(***************************************************************************)
(* Pieces of the actions.                                                  *)
(***************************************************************************)

\* throw: the frames above the handler are destroyed one by one by Unwind.
Raise(stack, e) ==
  /\ frames' = stack
  /\ status' = e
  /\ threw' = TRUE
  /\ UNCHANGED <<callStack, ctxs, yield, deferCount>>

\* Mutant of HaltWithError: the call trace is printed in the REPL as well.
HaltDrainsTrace(stack, next) ==
  /\ IF Repl THEN frames' = stack /\ status' = next
             ELSE frames' = << >> /\ status' = "exit"
  /\ callStack' = 0
  /\ UNCHANGED <<ctxs, yield, deferCount, threw>>

\* halt_with_error: only drawn in the REPL; otherwise the call trace is
\* printed, which empties the call stack, and the process exits.
HaltWithError(stack, next) ==
  /\ IF Repl THEN frames' = stack /\ status' = next /\ UNCHANGED callStack
             ELSE frames' = << >> /\ status' = "exit" /\ callStack' = 0
  /\ UNCHANGED <<ctxs, yield, deferCount, threw>>

\* The function call at the end of handle_list_cell, with what the builtin
\* does before it processes its first cell.
Enter(stack, env, op) ==
  /\ frames' = Append(stack, Frame(op, EntryPc[op], env, << >>, callStack, Len(ctxs)))
  /\ callStack' = callStack + 1
  /\ ctxs' = IF op \in PushAtEntry THEN Append(ctxs, << >>) ELSE ctxs
  /\ status' = "run"
  /\ UNCHANGED <<yield, deferCount, threw>>

\* The function body, or 0, whose execution a `<-' executed now is to end.
YieldTarget(stack) ==
  LET bodies == {i \in DOMAIN stack : /\ IsLambda(stack[i])
                                      /\ stack[i].pc \in {"pop", "reset"}}
  IN  IF bodies = {} THEN 0
      ELSE CHOOSE i \in bodies : \A j \in bodies : j <= i

InArgument(stack) ==
  \E i \in DOMAIN stack : IsLambda(stack[i]) /\ i > YieldTarget(stack)

CallFunction(stack, env) ==
  IF callStack >= MaxCallDepth
  THEN Raise(stack, "exception")
  ELSE \E op \in Ops \intersect Builtins :
         /\ op = "yield" /\ InArgument(stack) => "yield_in_arg" \in Habits
         /\ Enter(stack, env, op)

\* A frame that is not a function call: the call stack is left alone.
Nest(stack, op, pc, env) ==
  /\ frames' = Append(stack, Frame(op, pc, env, << >>, callStack, Len(ctxs)))
  /\ status' = "run"
  /\ UNCHANGED <<callStack, ctxs, yield, deferCount, threw>>

\* handle_list_cell: a data list walked as code, a wrong access list, an
\* instruction whose operator is a list, is unknown, or is a function.
HandleList(stack, env, walks) ==
  \/ /\ walks /\ "walk" \in Ops /\ Room
     /\ Nest(stack, "walk", "item", env)
  \/ "access" \in Ops /\ HaltWithError(stack, IF stack = << >> THEN "idle" ELSE "run")
  \/ "head" \in Ops /\ Depth + 1 < MaxFrames /\ Room /\ Nest(stack, "head", "op", env)
  \/ "exception" \in Throws /\ Raise(stack, "exception")
  \/ Room /\ CallFunction(stack, env)

\* pop_ctx up to its first deferred instruction; ctxs_.pop() comes last.
PopCtx(stack, env) ==
  /\ IF ctxs = << >>
     THEN frames' = stack
     ELSE frames' = Append(stack, Frame("deferred", "next", env, ctxs[Len(ctxs)],
                                        callStack, Len(ctxs) - 1))
  /\ status' = "run"
  /\ UNCHANGED <<callStack, ctxs, yield, deferCount, runs, threw>>

\* Mutant of Return: a builtin that returns a yield value leaves early.
ReturnEarlyOnYield ==
  /\ frames' = Below
  /\ callStack' = IF IsCall(Top) /\ yield = NoYield THEN callStack - 1 ELSE callStack
  /\ status' = IF Depth = 1 THEN "idle" ELSE "run"
  /\ UNCHANGED <<ctxs, deferCount, runs, threw>>

\* A builtin, or a walked list, returns to handle_list_cell and its caller.
Return ==
  /\ frames' = Below
  /\ callStack' = IF IsCall(Top) THEN callStack - 1 ELSE callStack
  /\ status' = IF Depth = 1 THEN "idle" ELSE "run"
  /\ UNCHANGED <<ctxs, deferCount, runs, threw>>

Step(pc) ==
  /\ frames' = Goto(pc)
  /\ UNCHANGED <<callStack, ctxs, yield, status, deferCount, runs, threw>>

(***************************************************************************)
(* process_cell.                                                           *)
(***************************************************************************)

\* While a yield value is set every cell evaluates to it at once, except the
\* computed operator of a list, which does not go through process_cell.
ProcessYielding ==
  /\ Evaluating /\ yield # NoYield /\ Top.op # "head"
  /\ frames' = Resumed
  /\ UNCHANGED <<callStack, ctxs, yield, status, deferCount, runs, threw>>

\* A literal, a bound symbol, an alias, an empty list, a list that is data.
ProcessAtom ==
  /\ Evaluating /\ yield = NoYield /\ Top.op # "head"
  /\ frames' = Resumed
  /\ runs' = RunsNow
  /\ UNCHANGED <<callStack, ctxs, yield, status, deferCount, threw>>

\* A list, or (the fourth disjunct of HandleList) an unknown symbol.
ProcessList ==
  /\ Evaluating /\ yield = NoYield /\ Top.op # "head"
  /\ HandleList(Resumed, EvalEnv, WalksData(Top))
  /\ runs' = RunsNow

ComputeOperator ==
  /\ At("head", "op")
  /\ HandleList(Resumed, EvalEnv, TRUE)
  /\ UNCHANGED runs

CallOperator ==
  /\ At("head", "call")
  /\ \/ CallFunction(Below, Top.env)
     \/ "exception" \in Throws /\ Raise(Below, "exception")
  /\ UNCHANGED runs

(***************************************************************************)
(* The builtins.                                                           *)
(***************************************************************************)

\* A builtin without control of its own returns, or throws, before or after
\* any of its arguments: wrong arity, wrong type, an error of its own.
PrimReturn == At("prim", "args") /\ Return /\ UNCHANGED yield

PrimThrow ==
  /\ At("prim", "args")
  /\ \E e \in Throws : Raise(frames, e)
  /\ UNCHANGED runs

\* execute_suspected_lambda: the arguments of a fixed-arity function are
\* processed twice each (frame pc "arg", then "again").
LambdaThrow ==
  /\ At("lambda", "arg") \/ At("variadic", "arg")
  /\ "exception" \in Throws
  /\ Raise(frames, "exception")
  /\ UNCHANGED runs

LambdaEnter ==
  /\ At("lambda", "arg") \/ At("variadic", "arg")
  /\ frames' = Goto("body")
  /\ ctxs' = Append(ctxs, << >>)
  /\ UNCHANGED <<callStack, yield, status, deferCount, runs, threw>>

\* Mutants of LambdaPop: the context is forgotten, or its instructions are run
\* in the environment of the call.
LambdaForgets ==
  /\ At("lambda", "pop") \/ At("variadic", "pop")
  /\ Step("reset")

LambdaPopOutside ==
  /\ At("lambda", "pop") \/ At("variadic", "pop")
  /\ PopCtx(Goto("reset"), Top.env)

\* pop_ctx runs before the yield value is reset.
LambdaPop ==
  /\ At("lambda", "pop") \/ At("variadic", "pop")
  /\ PopCtx(Goto("reset"), Depth)

LambdaReturn ==
  /\ At("lambda", "reset") \/ At("variadic", "reset")
  /\ yield' = NoYield
  /\ Return

\* loop: returns from inside its while loop, without pop_ctx.
LoopTest ==
  /\ At("loop", "test")
  /\ \/ Step("body")
     \/ Return /\ UNCHANGED yield
     \/ "exception" \in Throws /\ Raise(frames, "exception") /\ UNCHANGED runs

\* Mutants of LoopBodyDone: a yield is taken for a break, or not looked at.
LoopBodyBreaks ==
  /\ At("loop", "bodied")
  /\ IF yield # NoYield THEN Return /\ yield' = NoYield ELSE Step("post")

LoopBodyGoesOn == At("loop", "bodied") /\ Step("post")

LoopBodyDone ==
  /\ At("loop", "bodied")
  /\ IF yield # NoYield THEN Return /\ UNCHANGED yield ELSE Step("post")

\* if: pops its context before it processes the branch it has chosen.
IfTest ==
  /\ At("if", "test")
  /\ \/ PopCtx(Goto("branch"), Depth)
     \/ PopCtx(Goto("ret"), Depth)
     \/ "exception" \in Throws /\ Raise(frames, "exception") /\ UNCHANGED runs

\* Mutant of IfReturn: the context is popped once more after the branch.
IfReturnPops ==
  /\ At("if", "ret")
  /\ frames' = Below /\ callStack' = callStack - 1
  /\ ctxs' = SubSeq(ctxs, 1, Len(ctxs) - 1)
  /\ status' = IF Depth = 1 THEN "idle" ELSE "run"
  /\ UNCHANGED <<yield, deferCount, runs, threw>>

IfReturn == At("if", "ret") /\ Return /\ UNCHANGED yield

\* try: after the attempt, or after the recovery cell, the top context is
\* popped; Catch is the catch clause.
\* Mutant of TryPop: only the recovery path pops.
TryPopAfterRecovery ==
  \/ At("try", "recovered") /\ PopCtx(Goto("ret"), Depth)
  \/ At("try", "attempted") /\ Step("ret")

TryPop ==
  /\ At("try", "attempted") \/ At("try", "recovered")
  /\ PopCtx(Goto("ret"), Depth)

TryReturn == At("try", "ret") /\ Return /\ UNCHANGED yield

ThrowThrow == At("throw", "throw") /\ Raise(frames, "exception") /\ UNCHANGED runs

\* defer: each parameter goes to the context on top of ctxs_, whichever that
\* is; a parameter that is not a list throws, after the ones before it have
\* been deferred.
ContextOf ==
  LET bodies == {i \in DOMAIN frames : \/ IsLambda(frames[i]) /\ frames[i].pc = "pop"
                                       \/ frames[i].op \in PushAtEntry
                                       \/ frames[i].op = "deferred"}
  IN  IF bodies = {} THEN 0
      ELSE CHOOSE i \in bodies : \A j \in bodies : j <= i

\* pop_ctx is already running the instructions of the context on top.
ContextEnding ==
  \E i \in DOMAIN frames : frames[i].op = "deferred" /\ frames[i].ctx = Len(ctxs) - 1

DeferNext ==
  LET item  == [id |-> deferCount + 1, env |-> Top.env]
      owner == ContextOf
  IN
  /\ At("defer", "next")
  /\ deferCount < MaxDefers
  /\ ContextEnding => "nested_defer" \in Habits
  /\ deferCount' = deferCount + 1
  /\ ctxs' = IF ctxs = << >> THEN << <<item>> >>
                             ELSE [ctxs EXCEPT ![Len(ctxs)] = Append(@, item)]
  /\ frames' = [i \in DOMAIN frames |->
                  IF i = owner THEN [frames[i] EXCEPT !.owes = @ \union {item.id}]
                               ELSE frames[i]]
  /\ UNCHANGED <<callStack, yield, status, runs, threw>>

DeferThrow ==
  /\ At("defer", "next")
  /\ "exception" \in Throws
  /\ Raise(frames, "exception")
  /\ UNCHANGED runs

DeferReturn == At("defer", "next") /\ Return /\ UNCHANGED yield

\* `<-', with or without a value; the value is to end the innermost function
\* whose body, or whose deferred instructions, are being processed.
YieldReturn ==
  /\ At("yield", "eval") \/ At("yield", "set")
  /\ yield' = YieldTarget(frames)
  /\ Return

\* exit: std::exit with the evaluated code.
ExitNow ==
  /\ At("exit", "exit")
  /\ frames' = << >>
  /\ status' = "exit"
  /\ UNCHANGED <<callStack, ctxs, yield, deferCount, runs, threw>>

WalkNext ==
  /\ At("walk", "check")
  /\ IF yield # NoYield THEN Return /\ UNCHANGED yield ELSE Step("item")

WalkEnd == At("walk", "item") /\ Return /\ UNCHANGED yield

\* pop_ctx after its last deferred instruction: it removes whatever context
\* is on top by now.  In ~interpreter_c it is the last thing that happens.
\* Mutant of PopCtxEnd: the context is removed only if it deferred nothing.
PopCtxKeeps ==
  /\ At("deferred", "next") /\ Top.list = << >>
  /\ frames' = Below
  /\ ctxs' = IF ctxs[Len(ctxs)] = << >> THEN SubSeq(ctxs, 1, Len(ctxs) - 1) ELSE ctxs
  /\ status' = IF Depth = 1 THEN "done" ELSE "run"
  /\ UNCHANGED <<callStack, yield, deferCount, runs, threw>>

PopCtxEnd ==
  /\ At("deferred", "next") /\ Top.list = << >>
  /\ frames' = Below
  /\ ctxs' = SubSeq(ctxs, 1, Len(ctxs) - 1)
  /\ status' = IF Depth = 1 THEN "done" ELSE "run"
  /\ UNCHANGED <<callStack, yield, deferCount, runs, threw>>

(***************************************************************************)
(* Exceptions.                                                             *)
(***************************************************************************)

\* The catch clauses of try: the recovery cell is processed next.
Catch ==
  /\ status = "exception" /\ Depth > 0
  /\ Top.op = "try" /\ Top.pc = "attempted"
  /\ frames' = Goto("recover")
  /\ status' = "run"
  /\ UNCHANGED <<callStack, ctxs, yield, deferCount, runs, threw>>

\* EXECUTE_AND_CATCH around a deferred instruction, in pop_ctx.
DeferredFailed ==
  /\ status \in Exceptions /\ Depth > 0
  /\ Top.op = "deferred"
  /\ HaltWithError(frames, "run")
  /\ UNCHANGED runs

\* Any other frame is destroyed: its entry on the call stack and the context
\* it pushed stay where they are.
Unwind ==
  /\ status \in Exceptions /\ Depth > 0
  /\ Top.op # "deferred"
  /\ ~(Top.op = "try" /\ Top.pc = "attempted" /\ status = "exception")
  /\ frames' = Below
  /\ UNCHANGED <<callStack, ctxs, yield, status, deferCount, runs, threw>>

\* EXECUTE_AND_CATCH in instruction_ind.
InstructionFailed ==
  /\ status \in Exceptions /\ Depth = 0
  /\ HaltWithError(frames, "idle")
  /\ UNCHANGED runs

(***************************************************************************)
(* The program: instructions from the parser, then the destructor.         *)
(***************************************************************************)
Init ==
  /\ frames = << >> /\ callStack = 0
  /\ ctxs = << << >> >>
  /\ yield = NoYield
  /\ status = "idle"
  /\ deferCount = 0 /\ runs = [d \in DeferId |-> 0] /\ threw = FALSE

\* instruction_ind goes to handle_list_cell, not to process_cell: it does not
\* look at the yield value.
Instruction ==
  /\ status = "idle"
  /\ HandleList(<< >>, 0, FALSE)
  /\ UNCHANGED runs

\* ~interpreter_c pops one context.
Finish == status = "idle" /\ PopCtx(<< >>, 0)

Machine ==
  \/ ProcessYielding \/ ProcessAtom \/ ProcessList
  \/ ComputeOperator \/ CallOperator
  \/ PrimReturn \/ PrimThrow
  \/ LambdaThrow \/ LambdaEnter \/ LambdaPop \/ LambdaReturn
  \/ LoopTest \/ LoopBodyDone
  \/ IfTest \/ IfReturn
  \/ TryPop \/ TryReturn \/ ThrowThrow
  \/ DeferNext \/ DeferThrow \/ DeferReturn
  \/ YieldReturn \/ ExitNow
  \/ WalkNext \/ WalkEnd
  \/ PopCtxEnd
  \/ Catch \/ DeferredFailed \/ Unwind \/ InstructionFailed

\* The process has ended; without this a finished program is a deadlock.
Ended == status \in {"done", "exit"} /\ UNCHANGED vars

Next == Machine \/ Instruction \/ Finish \/ Ended

Spec == Init /\ [][Next]_vars

\* One thread runs the interpreter and never waits, and the argument list of
\* a call is finite: a call does not evaluate arguments for ever.
Fairness == WF_vars(Machine) /\ SF_vars(PrimReturn) /\ SF_vars(LambdaEnter)

FairSpec == Spec /\ Fairness

(***************************************************************************)
(* Properties.                                                             *)
(***************************************************************************)
PCs == {"args", "arg", "again", "body", "pop", "reset", "pre", "cond", "test",
        "bodied", "post", "branch", "ret", "attempt", "attempted", "recover",
        "recovered", "eval", "throw", "set", "exit", "next", "item", "check",
        "op", "call"}

FrameType == [op : Builtins \union {"walk", "head", "deferred"}, pc : PCs,
              env : Nat, list : Seq(Deferred), calls : Nat, ctx : Nat,
              owes : SUBSET DeferId]

\* Every variable has its type.
TypeOK ==
  /\ frames \in Seq(FrameType)
  /\ callStack \in Nat
  /\ ctxs \in Seq(Seq(Deferred))
  /\ yield \in Nat \union {NoYield}
  /\ status \in {"idle", "run", "done", "exit"} \union Exceptions
  /\ deferCount \in 0..MaxDefers
  /\ runs \in [DeferId -> 0..2]
  /\ threw \in BOOLEAN

\* What a frame has put on the call stack and on the context stack and still
\* expects to find there.
HoldsCall(f) == IF IsCall(f) THEN 1 ELSE 0
HoldsCtx(f)  ==
  IF \/ f.op \in {"loop", "deferred"}
     \/ IsLambda(f) /\ f.pc \in {"body", "pop"}
     \/ f.op = "if" /\ f.pc \in {"cond", "test"}
     \/ f.op = "try" /\ f.pc # "ret"
  THEN 1 ELSE 0

\* The sizes of the two stacks that a frame relies on.
CallNeed(f) == f.calls + HoldsCall(f)
CtxNeed(f)  == f.ctx + HoldsCtx(f)

\* However the program mixes calls, exceptions, yields and contexts that are
\* never popped, the entry of every active call is still on call_stack_: the
\* pop at the end of handle_list_cell never finds it empty, and the call
\* trace printed by halt_with_error never misses an active call.
CallEntriesStay ==
  \A i \in DOMAIN frames :
    /\ CallNeed(frames[i]) <= callStack
    /\ \A j \in DOMAIN frames : i < j => CallNeed(frames[i]) <= frames[j].calls

\* Likewise for ctxs_: the pops of `if', `try', lambdas and pop_ctx never take
\* a context from below the one their own frame pushed, so the interpreter's
\* own context outlives every instruction.
ContextsStay ==
  /\ status # "done" => ctxs # << >>
  /\ \A i \in DOMAIN frames :
       /\ CtxNeed(frames[i]) <= Len(ctxs)
       /\ \A j \in DOMAIN frames : i < j => CtxNeed(frames[i]) <= frames[j].ctx

\* As long as no exception has been thrown, the call stack is empty between
\* two instructions: every return path of every builtin, early ones included,
\* comes back through the pop in handle_list_cell.
CallsBalanced == status = "idle" /\ ~threw => callStack = 0

\* As long as no exception has been thrown and no loop is used, only the
\* interpreter's own context is left between two instructions.
ContextsBalanced ==
  status = "idle" /\ ~threw /\ "loop" \notin Ops => Len(ctxs) = 1

\* "Maximum recursion depth reached" is thrown only at that depth of calls.
DepthLimitMeansDepth ==
  callStack >= MaxCallDepth =>
    Cardinality({i \in DOMAIN frames : IsCall(frames[i])}) >= MaxCallDepth

\* A deferred instruction is executed at most once.
DeferredAtMostOnce == \A d \in DeferId : runs[d] <= 1

\* An execution context (of fn, if, try or loop) that ends normally has
\* executed every instruction deferred directly in it.
Leaves == Running /\ Len(frames') < Depth /\ status' # "exit"

DeferredByContextEnd == [][Leaves => \A d \in Top.owes : runs[d] >= 1]_vars

\* A deferred instruction is executed in the environment it was deferred in,
\* or in the try's own, empty but for $e, inside it: the variables it names
\* are still there.
DeferredInScope ==
  [][runs' # runs => LET env == Head(Top.list).env IN
                     \/ env = Top.env
                     \/ Depth > 1 /\ Below[Depth - 1].op = "try"
                                  /\ Below[Depth - 1].env = env]_vars

\* A yield ends the call of the function it was executed in, and only that
\* call's return resets it.
YieldEndsItsCall == [][yield > 0 /\ yield' = NoYield => yield = Depth]_vars

\* No yield is left over for the next instruction of the program.
YieldEndsWithInstruction == status = "idle" => yield = NoYield

\* Once an exception reached try, its recovery cell is executed: nothing is
\* executed while a yield value is set.
RecoveryExecutes == At("try", "recover") => yield = NoYield

\* A yield eventually takes effect: its function returns, or the program
\* ends first.
YieldReturns == yield > 0 ~> yield = NoYield \/ status \in {"done", "exit"}
=============================================================================
