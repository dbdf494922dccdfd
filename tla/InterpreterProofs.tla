------------------------- MODULE InterpreterProofs -------------------------
(***************************************************************************)
(* Theorems about Interpreter for all values of its constants.             *)
(*                                                                         *)
(*   1. For every program: types, and that no frame loses what it pushed   *)
(*      on the call stack or on the context stack.                         *)
(*   2. For programs in which no exception has been thrown: both stacks    *)
(*      hold exactly what the active frames put there, and a yield ends    *)
(*      the call it was executed in.                                       *)
(*   3. For programs that use no loop and in which nothing has been        *)
(*      thrown: no deferred instruction is executed twice, the context     *)
(*      stack implements DeferContract, and, without ifs, what is deferred *)
(*      is executed where it was deferred and before its context ends.     *)
(***************************************************************************)
EXTENDS InterpreterContexts, Foundations

(***************************************************************************)
(* 1. Every program.                                                       *)
(***************************************************************************)

FrameOps == Builtins \union {"walk", "head", "deferred"}

\* Storing a return address keeps a frame's pc among the program counters.
LEMMA ResumeType ==
  ASSUME NEW op \in FrameOps, NEW pc \in DOMAIN Resume[op]
  PROVE  Resume[op][pc] \in PCs
BY DEF FrameOps, Builtins, Resume, PCs

\* A builtin starts at a program counter, in a context of its own if it
\* pushes one.
LEMMA EntryType ==
  ASSUME NEW op \in Builtins
  PROVE  EntryPc[op] \in PCs
BY DEF Builtins, EntryPc, PCs

LEMMA ConstantTypes ==
  /\ Ops \intersect Builtins \subseteq Builtins
  /\ Throws \subseteq Exceptions
  /\ MaxDefers \in Nat
BY ThrowsAssumption, BoundAssumption

-----------------------------------------------------------------------------
(***************************************************************************)
(* The shape of a step.  Whatever an action does, it leaves a prefix of    *)
(* the frames with the operators and the recorded stack sizes they had,    *)
(* and at most one new frame on top of them.                               *)
(***************************************************************************)
Kept(f, g) == /\ f.op = g.op /\ f.calls = g.calls /\ f.ctx = g.ctx
              /\ HoldsCtx(f) <= HoldsCtx(g)

Keeps(stack) ==
  /\ stack \in Seq(FrameType)
  /\ Len(stack) <= Len(frames)
  /\ \A i \in 1..Len(stack) : Kept(stack[i], frames[i])

LEMMA FramesType ==
  ASSUME TypeOK
  PROVE  /\ Depth \in Nat /\ DOMAIN frames = 1..Depth
         /\ \A i \in 1..Depth : frames[i] \in FrameType
BY DEF TypeOK, Depth

LEMMA HoldsType ==
  ASSUME NEW f
  PROVE  /\ HoldsCtx(f) \in {0, 1} /\ HoldsCtx(f) \in Nat
         /\ HoldsCall(f) \in {0, 1} /\ HoldsCall(f) \in Nat
BY DEF HoldsCtx, HoldsCall

LEMMA NeedType ==
  ASSUME NEW f \in FrameType
  PROVE  /\ CallNeed(f) \in Nat /\ CtxNeed(f) \in Nat
         /\ f.calls \in Nat /\ f.ctx \in Nat
         /\ f.calls <= CallNeed(f) /\ f.ctx <= CtxNeed(f)
BY HoldsType DEF CallNeed, CtxNeed, FrameType

LEMMA KeepsFrames == ASSUME TypeOK PROVE Keeps(frames)
BY HoldsType DEF TypeOK, Keeps, Kept

LEMMA KeepsNone == ASSUME TypeOK PROVE Keeps(<< >>)
BY DEF TypeOK, Keeps

LEMMA KeepsBelow == ASSUME TypeOK, Depth > 0 PROVE Keeps(Below) /\ Len(Below) = Depth - 1
<1>2. /\ Below \in Seq(FrameType)
      /\ Len(Below) = Depth - 1
      /\ \A i \in 1..Depth - 1 : Below[i] = frames[i]
  <2> DEFINE n == Depth - 1
  <2>1. n \in Nat /\ \A i \in 1..n : frames[i] \in FrameType
    BY FramesType
  <2> HIDE DEF n
  <2>2. /\ SubSeq(frames, 1, n) \in Seq(FrameType)
        /\ Len(SubSeq(frames, 1, n)) = n
        /\ \A i \in 1..n : SubSeq(frames, 1, n)[i] = frames[i]
    BY <2>1, SubSeqProperties
  <2>3. QED BY <2>2 DEF Below, n
<1>3. QED BY <1>2, FramesType, HoldsType DEF Keeps, Kept, Depth

LEMMA KeepsGoto ==
  ASSUME TypeOK, Depth > 0, NEW pc \in PCs,
         HoldsCtx([Top EXCEPT !.pc = pc]) <= HoldsCtx(Top)
  PROVE  Keeps(Goto(pc)) /\ Len(Goto(pc)) = Depth
<1> DEFINE top == [frames[Depth] EXCEPT !.pc = pc]
<1>1. /\ frames \in Seq(FrameType) /\ Depth \in 1..Len(frames)
      /\ frames[Depth] \in FrameType
  BY FramesType DEF TypeOK, Depth
<1>2. top \in FrameType /\ Kept(top, frames[Depth])
  BY <1>1 DEF FrameType, Kept, Top
<1>3. Goto(pc) = [frames EXCEPT ![Depth] = top]
  BY <1>1 DEF Goto
<1> HIDE DEF top
<1>4. /\ Goto(pc) \in Seq(FrameType) /\ Len(Goto(pc)) = Len(frames)
      /\ \A i \in 1..Len(frames) : Goto(pc)[i] = IF i = Depth THEN top ELSE frames[i]
  BY <1>1, <1>2, <1>3, ExceptSeq
<1>5. QED BY <1>2, <1>4, FramesType, HoldsType DEF Keeps, Kept, Depth

LEMMA KeepsResumed ==
  ASSUME TypeOK, Evaluating
  PROVE  Keeps(Resumed) /\ Len(Resumed) = Depth
<1>1. Depth > 0 /\ Top \in FrameType
  BY FramesType DEF Evaluating, Running, Top
<1>2. CASE Top.op = "deferred"
  <2> DEFINE top == [frames[Depth] EXCEPT !.list = Tail(Top.list)]
  <2>1. /\ frames \in Seq(FrameType) /\ Depth \in 1..Len(frames)
        /\ frames[Depth] \in FrameType /\ Top = frames[Depth]
    BY <1>1, FramesType DEF TypeOK, Depth, Top
  <2>2. Tail(Top.list) \in Seq(Deferred)
    BY <1>1, <1>2, HeadTailProperties DEF FrameType, Evaluating
  <2>3. top \in FrameType
    BY <2>1, <2>2 DEF FrameType
  <2>7. Kept(top, frames[Depth])
    <3>1. /\ top.op = "deferred" /\ top.op = frames[Depth].op
          /\ top.calls = frames[Depth].calls /\ top.ctx = frames[Depth].ctx
      BY <2>1, <1>2 DEF FrameType
    <3>2. HoldsCtx(top) = 1 /\ HoldsCtx(frames[Depth]) = 1
      BY <3>1, <2>1, <1>2 DEF HoldsCtx
    <3>3. QED BY <3>1, <3>2 DEF Kept
  <2>4. Resumed = [frames EXCEPT ![Depth] = top]
    BY <1>2, <2>1 DEF Resumed
  <2> HIDE DEF top
  <2>5. /\ Resumed \in Seq(FrameType) /\ Len(Resumed) = Len(frames)
        /\ \A i \in 1..Len(frames) : Resumed[i] = IF i = Depth THEN top ELSE frames[i]
    BY <2>1, <2>3, <2>4, ExceptSeq
  <2>6. QED BY <2>7, <2>5, FramesType, HoldsType DEF Keeps, Kept, Depth
<1>3. CASE Top.op # "deferred"
  <2> DEFINE pc == Resume[Top.op][Top.pc]
  <2>1. Top.op \in FrameOps /\ Top.pc \in DOMAIN Resume[Top.op]
    BY <1>1 DEF FrameType, FrameOps, Evaluating
  <2>2. pc \in PCs
    BY <2>1, ResumeType
  <2>3. HoldsCtx([Top EXCEPT !.pc = pc]) <= HoldsCtx(Top)
    <3>1. /\ [Top EXCEPT !.pc = pc].op = Top.op
          /\ [Top EXCEPT !.pc = pc].pc = pc
      BY <1>1 DEF FrameType
    <3>2. IsLambda(Top) => /\ Top.pc = "body" => pc = "pop"
                           /\ Top.pc = "arg" => pc \in {"arg", "again"}
                           /\ Top.pc = "again" => pc = "arg"
                           /\ Top.pc \in {"arg", "again", "body"}
      BY <2>1 DEF Resume, IsLambda
    <3>3. Top.op = "if" => /\ Top.pc = "cond" => pc = "test"
                           /\ Top.pc = "branch" => pc = "ret"
                           /\ Top.pc \in {"cond", "branch"}
      BY <2>1 DEF Resume
    <3>4. Top.op = "try" => pc # "ret" /\ Top.pc # "ret"
      BY <2>1 DEF Resume
    <3> HIDE DEF pc
    <3>5. QED BY <3>1, <3>2, <3>3, <3>4 DEF HoldsCtx, IsLambda
  <2>4. Resumed = Goto(pc)
    BY <1>3 DEF Resumed
  <2> HIDE DEF pc
  <2>5. QED BY <1>1, <2>2, <2>3, <2>4, KeepsGoto
<1>4. QED BY <1>2, <1>3

-----------------------------------------------------------------------------
(***************************************************************************)
(* The inductive invariant.  CallEntriesStay and ContextsStay relate every *)
(* pair of frames, which makes them inductive but for one fact: only the   *)
(* pop_ctx of the destructor may take the interpreter's own context, so    *)
(* every other frame was entered above at least one context.               *)
(***************************************************************************)
Anchored == \A i \in DOMAIN frames :
              frames[i].ctx >= 1 \/ (i = 1 /\ frames[i].op = "deferred")

IInv == TypeOK /\ CallEntriesStay /\ ContextsStay /\ Anchored

Active == status # "done"

RunsType == [DeferId -> 0..2]

\* What the invariant says of the frames an action keeps.
KeptFacts(stack) ==
  /\ Len(stack) \in Nat /\ DOMAIN stack = 1..Len(stack)
  /\ \A i \in 1..Len(stack) :
       /\ i \in 1..Len(frames)
       /\ stack[i].op = frames[i].op
       /\ stack[i].calls \in Nat /\ stack[i].ctx \in Nat
       /\ CallNeed(stack[i]) \in Nat /\ CallNeed(stack[i]) <= callStack
       /\ CtxNeed(stack[i]) \in Nat /\ CtxNeed(stack[i]) <= Len(ctxs)
       /\ stack[i].ctx >= 1 \/ (i = 1 /\ stack[i].op = "deferred")
  /\ \A i \in 1..Len(stack) : \A j \in 1..Len(frames) :
       i < j => /\ CallNeed(stack[i]) <= frames[j].calls
                /\ CtxNeed(stack[i]) <= frames[j].ctx
  /\ \A i, j \in 1..Len(stack) :
       i < j => /\ CallNeed(stack[i]) <= stack[j].calls
                /\ CtxNeed(stack[i]) <= stack[j].ctx

LEMMA KeptStack ==
  ASSUME IInv, NEW stack, Keeps(stack)
  PROVE  KeptFacts(stack)
<1>1. Len(stack) \in Nat /\ DOMAIN stack = 1..Len(stack)
  BY DEF Keeps
<1>2. /\ Len(frames) \in Nat /\ DOMAIN frames = 1..Len(frames)
      /\ \A j \in 1..Len(frames) : frames[j] \in FrameType
  BY FramesType DEF IInv, Depth
<1>3. Len(ctxs) \in Nat /\ callStack \in Nat
  BY DEF IInv, TypeOK
<1>4. ASSUME NEW i \in 1..Len(stack)
      PROVE  /\ i \in 1..Len(frames) /\ stack[i] \in FrameType
             /\ stack[i].op = frames[i].op
             /\ stack[i].calls = frames[i].calls /\ stack[i].ctx = frames[i].ctx
             /\ CallNeed(stack[i]) = CallNeed(frames[i])
             /\ CtxNeed(stack[i]) <= CtxNeed(frames[i])
  <2>1. i \in 1..Len(frames) /\ Kept(stack[i], frames[i]) /\ stack[i] \in FrameType
    BY <1>1, <1>2 DEF Keeps
  <2>2. frames[i].calls \in Nat /\ frames[i].ctx \in Nat
    BY <2>1, <1>2 DEF FrameType
  <2>3. CallNeed(stack[i]) = CallNeed(frames[i])
    BY <2>1 DEF Kept, CallNeed, HoldsCall, IsCall
  <2>4. HoldsCtx(stack[i]) \in Nat /\ HoldsCtx(frames[i]) \in Nat
    BY HoldsType
  <2>5. CtxNeed(stack[i]) <= CtxNeed(frames[i])
    BY <2>1, <2>2, <2>4 DEF Kept, CtxNeed
  <2>6. QED BY <2>1, <2>3, <2>5 DEF Kept
<1>5. ASSUME NEW i \in 1..Len(stack)
      PROVE  /\ stack[i].calls \in Nat /\ stack[i].ctx \in Nat
             /\ CallNeed(stack[i]) \in Nat /\ CallNeed(stack[i]) <= callStack
             /\ CtxNeed(stack[i]) \in Nat /\ CtxNeed(stack[i]) <= Len(ctxs)
             /\ stack[i].ctx >= 1 \/ (i = 1 /\ stack[i].op = "deferred")
  <2>1. CtxNeed(frames[i]) \in Nat
    BY <1>2, <1>4, NeedType
  <2>2. /\ CallNeed(frames[i]) <= callStack /\ CtxNeed(frames[i]) <= Len(ctxs)
        /\ frames[i].ctx >= 1 \/ (i = 1 /\ frames[i].op = "deferred")
    BY <1>2, <1>4 DEF IInv, CallEntriesStay, ContextsStay, Anchored
  <2>3. /\ stack[i].calls \in Nat /\ stack[i].ctx \in Nat
        /\ CallNeed(stack[i]) \in Nat /\ CtxNeed(stack[i]) \in Nat
    BY <1>4, NeedType
  <2>4. QED BY <2>1, <2>2, <2>3, <1>3, <1>4
<1>6. ASSUME NEW i \in 1..Len(stack), NEW j \in 1..Len(frames), i < j
      PROVE  /\ CallNeed(stack[i]) <= frames[j].calls
             /\ CtxNeed(stack[i]) <= frames[j].ctx
  <2>1. /\ frames[j].calls \in Nat /\ frames[j].ctx \in Nat
        /\ CtxNeed(frames[i]) \in Nat /\ CtxNeed(stack[i]) \in Nat
    BY <1>2, <1>4, NeedType
  <2>2. /\ CallNeed(frames[i]) <= frames[j].calls
        /\ CtxNeed(frames[i]) <= frames[j].ctx
    BY <1>2, <1>4, <1>6 DEF IInv, CallEntriesStay, ContextsStay
  <2>3. QED BY <2>1, <2>2, <1>4
<1>7. ASSUME NEW i \in 1..Len(stack), NEW j \in 1..Len(stack), i < j
      PROVE  /\ CallNeed(stack[i]) <= stack[j].calls
             /\ CtxNeed(stack[i]) <= stack[j].ctx
  BY <1>4, <1>6, <1>7
<1>8. QED BY <1>1, <1>4, <1>5, <1>6, <1>7 DEF KeptFacts

\* Frames kept, or dropped from the top, with nothing taken off the stacks.
LEMMA KeepGrowInv ==
  ASSUME IInv, Active, NEW stack, Keeps(stack), frames' = stack,
         callStack' = callStack,
         ctxs' \in Seq(Seq(Deferred)), Len(ctxs') = Len(ctxs),
         yield' \in Nat \union {NoYield},
         status' \in {"idle", "run"} \union Exceptions,
         deferCount' \in 0..MaxDefers, runs' \in RunsType, threw' \in BOOLEAN
  PROVE  IInv'
<1>1. TypeOK'
  BY DEF IInv, TypeOK, Keeps, RunsType
<1>2. KeptFacts(stack)
  BY KeptStack
<1>3. CallEntriesStay'
  BY <1>2 DEF CallEntriesStay, KeptFacts
<1>4. ctxs' # << >>
  BY EmptySeq DEF IInv, TypeOK, ContextsStay, Active
<1>5. ContextsStay'
  BY <1>2, <1>4 DEF ContextsStay, KeptFacts
<1>6. Anchored'
  BY <1>2 DEF Anchored, KeptFacts
<1>7. QED BY <1>1, <1>3, <1>5, <1>6 DEF IInv

LEMMA KeepInv ==
  ASSUME IInv, Active, NEW stack, Keeps(stack), frames' = stack,
         callStack' = callStack, ctxs' = ctxs,
         yield' \in Nat \union {NoYield},
         status' \in {"idle", "run"} \union Exceptions,
         deferCount' = deferCount, runs' \in RunsType, threw' \in BOOLEAN
  PROVE  IInv'
<1>1. /\ ctxs' \in Seq(Seq(Deferred)) /\ Len(ctxs') = Len(ctxs)
      /\ deferCount' \in 0..MaxDefers
  BY DEF IInv, TypeOK
<1>2. QED BY <1>1, KeepGrowInv

LEMMA RaiseInv ==
  ASSUME IInv, Active, NEW stack, Keeps(stack), NEW e \in Exceptions,
         Raise(stack, e), runs' \in RunsType
  PROVE  IInv'
BY KeepInv DEF Raise, IInv, TypeOK

LEMMA EmptyInv ==
  ASSUME IInv, Active, frames' = << >>, callStack' \in Nat, ctxs' = ctxs,
         yield' = yield, status' = "exit", deferCount' = deferCount,
         runs' \in RunsType, threw' = threw
  PROVE  IInv'
BY DEF IInv, TypeOK, RunsType, CallEntriesStay, ContextsStay, Anchored, Active

LEMMA HaltInv ==
  ASSUME IInv, Active, NEW stack, Keeps(stack), NEW next \in {"idle", "run"},
         HaltWithError(stack, next), runs' \in RunsType
  PROVE  IInv'
<1>1. CASE Repl
  BY <1>1, KeepInv DEF HaltWithError, IInv, TypeOK
<1>2. CASE ~Repl
  BY <1>2, EmptyInv DEF HaltWithError, IInv, TypeOK
<1>3. QED BY <1>1, <1>2

\* A new frame on top of kept ones, entered with the present stack sizes.
LEMMA PushInv ==
  ASSUME IInv, Active, NEW stack, Keeps(stack), NEW f \in FrameType,
         frames' = Append(stack, f),
         f.calls = callStack, callStack' = CallNeed(f),
         ctxs' \in Seq(Seq(Deferred)), Len(ctxs') >= Len(ctxs),
         \A i \in 1..Len(stack) : CtxNeed(stack[i]) <= f.ctx,
         CtxNeed(f) <= Len(ctxs'),
         f.ctx >= 1 \/ (stack = << >> /\ f.op = "deferred"),
         yield' = yield, status' = "run", deferCount' = deferCount,
         runs' \in RunsType, threw' = threw
  PROVE  IInv'
<1>1. /\ Append(stack, f) \in Seq(FrameType)
      /\ Len(Append(stack, f)) = Len(stack) + 1
      /\ \A i \in 1..Len(stack) : Append(stack, f)[i] = stack[i]
      /\ Append(stack, f)[Len(stack) + 1] = f
      /\ Len(stack) \in Nat
  BY AppendProperties DEF Keeps
<1>2. DOMAIN frames' = 1..Len(stack) + 1
  BY <1>1
<1>3. /\ CallNeed(f) \in Nat /\ CtxNeed(f) \in Nat /\ callStack \in Nat
      /\ callStack <= callStack' /\ f.ctx \in Nat
      /\ Len(ctxs) \in Nat /\ Len(ctxs') \in Nat
  BY NeedType DEF IInv, TypeOK
<1>4. TypeOK'
  BY <1>1, <1>3 DEF IInv, TypeOK, RunsType
<1>5. KeptFacts(stack)
  BY KeptStack
<1>6. \A i \in 1..Len(stack) : /\ CallNeed(stack[i]) <= callStack'
                               /\ CtxNeed(stack[i]) <= Len(ctxs')
  BY <1>3, <1>5 DEF KeptFacts
<1>7. CallEntriesStay'
  <2>1. ASSUME NEW i \in 1..Len(stack) + 1
        PROVE  CallNeed(frames'[i]) <= callStack'
    BY <1>1, <1>3, <1>6
  <2>2. ASSUME NEW i \in 1..Len(stack) + 1, NEW j \in 1..Len(stack) + 1, i < j
        PROVE  CallNeed(frames'[i]) <= frames'[j].calls
    <3>1. i \in 1..Len(stack) /\ frames'[i] = stack[i]
      BY <1>1, <2>2
    <3>2. CASE j \in 1..Len(stack)
      BY <1>1, <1>5, <2>2, <3>1, <3>2 DEF KeptFacts
    <3>3. CASE j = Len(stack) + 1
      BY <1>1, <1>5, <3>1, <3>3 DEF KeptFacts
    <3>4. QED BY <1>1, <3>2, <3>3
  <2>3. QED BY <1>2, <2>1, <2>2 DEF CallEntriesStay
<1>8. ctxs' # << >>
  BY <1>3, EmptySeq DEF IInv, ContextsStay, Active, TypeOK
<1>9. ContextsStay'
  <2>1. ASSUME NEW i \in 1..Len(stack) + 1
        PROVE  CtxNeed(frames'[i]) <= Len(ctxs')
    BY <1>1, <1>3, <1>6
  <2>2. ASSUME NEW i \in 1..Len(stack) + 1, NEW j \in 1..Len(stack) + 1, i < j
        PROVE  CtxNeed(frames'[i]) <= frames'[j].ctx
    <3>1. i \in 1..Len(stack) /\ frames'[i] = stack[i]
      BY <1>1, <2>2
    <3>2. CASE j \in 1..Len(stack)
      BY <1>1, <1>5, <2>2, <3>1, <3>2 DEF KeptFacts
    <3>3. CASE j = Len(stack) + 1
      BY <1>1, <3>1, <3>3
    <3>4. QED BY <1>1, <3>2, <3>3
  <2>3. QED BY <1>2, <1>8, <2>1, <2>2 DEF ContextsStay
<1>10. Anchored'
  BY <1>1, <1>2, <1>5, EmptySeq DEF Anchored, KeptFacts
<1>11. QED BY <1>4, <1>7, <1>9, <1>10 DEF IInv

\* The top frame returns: its entry, if it is a call, leaves the call stack.
LEMMA ReturnInv ==
  ASSUME IInv, Running, Return, yield' \in Nat \union {NoYield}
  PROVE  IInv'
<1>1. /\ Depth \in 1..Len(frames) /\ Depth = Len(frames) /\ DOMAIN frames = 1..Depth
      /\ Top \in FrameType /\ Top = frames[Depth]
  BY FramesType DEF IInv, Running, Top, Depth
<1>2. Keeps(Below) /\ Len(Below) = Depth - 1 /\ KeptFacts(Below)
  BY KeepsBelow, KeptStack DEF IInv, Running
<1>3. callStack' = callStack - HoldsCall(Top) /\ callStack \in Nat
  BY DEF Return, HoldsCall, IInv, TypeOK
<1>4. CallNeed(Top) <= callStack
  BY <1>1 DEF IInv, CallEntriesStay
<1>5. callStack' \in Nat /\ Top.calls <= callStack'
  BY <1>1, <1>3, <1>4, HoldsType DEF CallNeed, FrameType
<1>6. TypeOK'
  BY <1>2, <1>5 DEF IInv, TypeOK, Return, Keeps
<1>7. DOMAIN frames' = 1..Len(Below) /\ frames' = Below /\ Depth - 1 < Depth
  BY <1>1, <1>2 DEF Return, Keeps
<1>8. \A i \in 1..Len(Below) : CallNeed(Below[i]) <= callStack'
  <2>1. ASSUME NEW i \in 1..Len(Below)
        PROVE  CallNeed(Below[i]) <= Top.calls /\ CallNeed(Below[i]) \in Nat
    BY <1>1, <1>2 DEF KeptFacts
  <2>2. QED BY <1>1, <1>5, <2>1, NeedType
<1>9. CallEntriesStay'
  BY <1>2, <1>7, <1>8 DEF CallEntriesStay, KeptFacts
<1>10. ctxs' = ctxs /\ ctxs # << >>
  BY DEF Return, IInv, ContextsStay, Running
<1>11. ContextsStay'
  BY <1>2, <1>7, <1>10 DEF ContextsStay, KeptFacts
<1>12. Anchored'
  BY <1>2, <1>7 DEF Anchored, KeptFacts
<1>13. QED BY <1>6, <1>9, <1>11, <1>12 DEF IInv

LEMMA CtxsType ==
  ASSUME IInv, Active
  PROVE  /\ ctxs \in Seq(Seq(Deferred)) /\ ctxs # << >>
         /\ Len(ctxs) \in Nat /\ Len(ctxs) >= 1
         /\ ctxs[Len(ctxs)] \in Seq(Deferred)
<1>1. ctxs \in Seq(Seq(Deferred)) /\ ctxs # << >>
  BY DEF IInv, TypeOK, ContextsStay, Active
<1>2. Len(ctxs) \in Nat \ {0}
  BY <1>1, EmptySeq
<1>3. QED BY <1>1, <1>2

LEMMA EnterInv ==
  ASSUME IInv, Active, NEW stack, Keeps(stack), NEW env \in Nat,
         NEW op \in Builtins, Enter(stack, env, op), runs' \in RunsType
  PROVE  IInv'
<1> DEFINE f == Frame(op, EntryPc[op], env, << >>, callStack, Len(ctxs))
<1>1. /\ callStack \in Nat /\ ctxs \in Seq(Seq(Deferred))
      /\ Len(ctxs) \in Nat /\ Len(ctxs) >= 1 /\ KeptFacts(stack)
  BY CtxsType, KeptStack DEF IInv, TypeOK
<1>2. f \in FrameType
  <2>1. << >> \in Seq(Deferred) /\ EntryPc[op] \in PCs
    BY EmptySeq, EntryType
  <2>2. QED BY <1>1, <2>1 DEF Frame, FrameType
<1>3. /\ f.op = op /\ f.pc = EntryPc[op] /\ f.calls = callStack /\ f.ctx = Len(ctxs)
  BY DEF Frame
<1>4. CallNeed(f) = callStack + 1
  BY <1>3 DEF CallNeed, HoldsCall, IsCall
<1>5. /\ ctxs' \in Seq(Seq(Deferred)) /\ Len(ctxs') >= Len(ctxs)
      /\ op \in PushAtEntry => Len(ctxs') = Len(ctxs) + 1
  <2>1. << >> \in Seq(Deferred)
    BY EmptySeq
  <2>2. /\ Append(ctxs, << >>) \in Seq(Seq(Deferred))
        /\ Len(Append(ctxs, << >>)) = Len(ctxs) + 1
    BY <1>1, <2>1, AppendProperties
  <2>3. QED BY <1>1, <2>2 DEF Enter
<1>6. CtxNeed(f) <= Len(ctxs')
  <2>1. op \notin PushAtEntry => HoldsCtx(f) = 0
    BY <1>3 DEF Builtins, PushAtEntry, EntryPc, HoldsCtx, IsLambda
  <2>2. HoldsCtx(f) = 0 \/ HoldsCtx(f) = 1
    BY HoldsType
  <2>3. Len(ctxs') \in Nat
    BY <1>5
  <2> HIDE DEF f
  <2>4. QED BY <1>1, <1>3, <1>5, <2>1, <2>2, <2>3 DEF CtxNeed
<1>7. \A i \in 1..Len(stack) : CtxNeed(stack[i]) <= f.ctx
  BY <1>1, <1>3 DEF KeptFacts
<1>8. /\ frames' = Append(stack, f) /\ callStack' = CallNeed(f)
      /\ yield' = yield /\ status' = "run" /\ deferCount' = deferCount /\ threw' = threw
  BY <1>4 DEF Enter
<1> HIDE DEF f
<1>9. f.ctx >= 1 \/ (stack = << >> /\ f.op = "deferred")
  BY <1>1, <1>3
<1>10. f.calls = callStack
  BY <1>3
<1>11. QED BY <1>2, <1>5, <1>6, <1>7, <1>8, <1>9, <1>10, PushInv

LEMMA NestInv ==
  ASSUME IInv, Active, NEW stack, Keeps(stack), NEW env \in Nat,
         NEW op \in {"walk", "head"}, NEW pc \in PCs, Nest(stack, op, pc, env),
         runs' \in RunsType
  PROVE  IInv'
<1> DEFINE f == Frame(op, pc, env, << >>, callStack, Len(ctxs))
<1>1. /\ callStack \in Nat /\ ctxs \in Seq(Seq(Deferred))
      /\ Len(ctxs) \in Nat /\ Len(ctxs) >= 1 /\ KeptFacts(stack)
  BY CtxsType, KeptStack DEF IInv, TypeOK
<1>2. f \in FrameType
  <2>1. << >> \in Seq(Deferred)
    BY EmptySeq
  <2>2. QED BY <1>1, <2>1 DEF Frame, FrameType
<1>3. f.op = op /\ f.calls = callStack /\ f.ctx = Len(ctxs)
  BY DEF Frame
<1>4. CallNeed(f) = callStack
  BY <1>1, <1>3 DEF CallNeed, HoldsCall, IsCall, Builtins
<1>5. CtxNeed(f) = Len(ctxs)
  BY <1>1, <1>3 DEF CtxNeed, HoldsCtx, IsLambda
<1>6. \A i \in 1..Len(stack) : CtxNeed(stack[i]) <= f.ctx
  BY <1>1, <1>3 DEF KeptFacts
<1>7. /\ frames' = Append(stack, f) /\ callStack' = CallNeed(f) /\ ctxs' = ctxs
      /\ yield' = yield /\ status' = "run" /\ deferCount' = deferCount /\ threw' = threw
  BY <1>4 DEF Nest
<1> HIDE DEF f
<1>8. f.ctx >= 1 \/ (stack = << >> /\ f.op = "deferred")
  BY <1>1, <1>3
<1>9. /\ f.calls = callStack /\ CtxNeed(f) <= Len(ctxs')
      /\ ctxs' \in Seq(Seq(Deferred)) /\ Len(ctxs') >= Len(ctxs)
  BY <1>1, <1>3, <1>5, <1>7
<1>10. QED BY <1>2, <1>6, <1>7, <1>8, <1>9, PushInv

LEMMA CallFunctionInv ==
  ASSUME IInv, Active, NEW stack, Keeps(stack), NEW env \in Nat,
         CallFunction(stack, env), runs' \in RunsType
  PROVE  IInv'
<1>1. CASE callStack >= MaxCallDepth
  BY <1>1, RaiseInv DEF CallFunction, Exceptions
<1>2. CASE ~(callStack >= MaxCallDepth)
  BY <1>2, EnterInv DEF CallFunction
<1>3. QED BY <1>1, <1>2

LEMMA HandleListInv ==
  ASSUME IInv, Active, NEW stack, Keeps(stack), NEW env \in Nat, NEW walks,
         HandleList(stack, env, walks), runs' \in RunsType
  PROVE  IInv'
<1>1. "item" \in PCs /\ "op" \in PCs
  BY DEF PCs
<1>2. CASE Nest(stack, "walk", "item", env)
  BY <1>1, <1>2, NestInv
<1>3. CASE Nest(stack, "head", "op", env)
  BY <1>1, <1>3, NestInv
<1>4. CASE HaltWithError(stack, IF stack = << >> THEN "idle" ELSE "run")
  <2>1. (IF stack = << >> THEN "idle" ELSE "run") \in {"idle", "run"}
    OBVIOUS
  <2>2. QED BY <1>4, <2>1, HaltInv
<1>5. CASE Raise(stack, "exception")
  BY <1>5, RaiseInv DEF Exceptions
<1>6. CASE CallFunction(stack, env)
  BY <1>6, CallFunctionInv
<1>7. QED BY <1>2, <1>3, <1>4, <1>5, <1>6 DEF HandleList

\* pop_ctx may start whenever the frames below need one context less than
\* there are; in the destructor there are no such frames.
LEMMA PopCtxInv ==
  ASSUME IInv, Active, NEW stack, Keeps(stack), NEW env \in Nat,
         \A i \in 1..Len(stack) : CtxNeed(stack[i]) + 1 <= Len(ctxs),
         PopCtx(stack, env)
  PROVE  IInv'
<1> DEFINE f == Frame("deferred", "next", env, ctxs[Len(ctxs)], callStack, Len(ctxs) - 1)
<1>1. /\ callStack \in Nat /\ ctxs \in Seq(Seq(Deferred)) /\ ctxs # << >>
      /\ Len(ctxs) \in Nat /\ Len(ctxs) >= 1 /\ KeptFacts(stack)
      /\ ctxs[Len(ctxs)] \in Seq(Deferred)
  BY CtxsType, KeptStack DEF IInv, TypeOK
<1>2. f \in FrameType
  BY <1>1 DEF Frame, FrameType, PCs
<1>3. f.op = "deferred" /\ f.calls = callStack /\ f.ctx = Len(ctxs) - 1
  BY DEF Frame
<1>4. CallNeed(f) = callStack
  BY <1>1, <1>3 DEF CallNeed, HoldsCall, IsCall, Builtins
<1>5. CtxNeed(f) = Len(ctxs)
  BY <1>1, <1>3 DEF CtxNeed, HoldsCtx
<1>6. \A i \in 1..Len(stack) : CtxNeed(stack[i]) <= f.ctx
  <2>1. ASSUME NEW i \in 1..Len(stack)
        PROVE  CtxNeed(stack[i]) <= f.ctx
    <3>1. CtxNeed(stack[i]) \in Nat /\ CtxNeed(stack[i]) + 1 <= Len(ctxs)
      BY <1>1 DEF KeptFacts
    <3> HIDE DEF f
    <3>2. QED BY <1>1, <1>3, <3>1
  <2>2. QED BY <2>1
<1>7. f.ctx >= 1 \/ stack = << >>
  <2>1. CASE Len(stack) = 0
    BY <2>1, EmptySeq DEF Keeps
  <2>2. CASE Len(stack) # 0
    <3>1. 1 \in 1..Len(stack)
      BY <1>1, <2>2 DEF KeptFacts
    <3>2. CtxNeed(stack[1]) >= 1
      <4>1. /\ stack[1] \in FrameType /\ stack[1].ctx \in Nat
            /\ stack[1].ctx >= 1 \/ stack[1].op = "deferred"
        BY <1>1, <3>1 DEF KeptFacts, Keeps
      <4>2. stack[1].op = "deferred" => HoldsCtx(stack[1]) = 1
        BY DEF HoldsCtx
      <4>3. QED BY <4>1, <4>2, HoldsType DEF CtxNeed
    <3>3. QED BY <1>1, <1>3, <1>6, <3>1, <3>2 DEF KeptFacts
  <2>3. QED BY <2>1, <2>2
<1>8. /\ frames' = Append(stack, f) /\ callStack' = CallNeed(f) /\ ctxs' = ctxs
      /\ yield' = yield /\ status' = "run" /\ deferCount' = deferCount /\ threw' = threw
      /\ runs' = runs
  BY <1>1, <1>4 DEF PopCtx
<1>9. runs' \in RunsType
  BY <1>8 DEF RunsType, IInv, TypeOK
<1> HIDE DEF f
<1>10. f.ctx >= 1 \/ (stack = << >> /\ f.op = "deferred")
  BY <1>3, <1>7
<1>11. /\ f.calls = callStack /\ CtxNeed(f) <= Len(ctxs')
       /\ ctxs' \in Seq(Seq(Deferred)) /\ Len(ctxs') >= Len(ctxs)
  BY <1>1, <1>3, <1>5, <1>8
<1>12. QED BY <1>2, <1>6, <1>8, <1>9, <1>10, <1>11, PushInv

-----------------------------------------------------------------------------
(***************************************************************************)
(* The actions, grouped by what they do to the stacks.                     *)
(***************************************************************************)
LEMMA RunningFacts ==
  ASSUME IInv, Depth > 0
  PROVE  /\ Depth \in 1..Len(frames) /\ Depth = Len(frames) /\ Depth \in Nat
         /\ Top \in FrameType /\ Top = frames[Depth]
         /\ Top.op \in FrameOps /\ Top.env \in Nat
         /\ Keeps(frames) /\ runs \in RunsType
<1>1. TypeOK
  BY DEF IInv
<1>2. QED BY <1>1, FramesType, KeepsFrames, SMTT(30)
          DEF TypeOK, RunsType, Depth, Top, FrameType, FrameOps

LEMMA RunningActive == ASSUME Running PROVE Active /\ Depth > 0
BY DEF Running, Active

LEMMA NewPc ==
  ASSUME IInv, Depth > 0, NEW pc
  PROVE  /\ [Top EXCEPT !.pc = pc].op = Top.op
         /\ [Top EXCEPT !.pc = pc].pc = pc
         /\ [Top EXCEPT !.pc = pc].ctx = Top.ctx
BY RunningFacts DEF FrameType

\* A set of frames that is not empty has an innermost one.
LEMMA InnermostExists ==
  ASSUME NEW n \in Nat, NEW S, S \subseteq 1..n, S # {}
  PROVE  \E i \in S : \A j \in S : j <= i
<1> DEFINE T == {n - i : i \in S}
<1>1. T \subseteq Nat /\ T # {}
  <2>1. \A i \in S : n - i \in Nat
    OBVIOUS
  <2>2. PICK i \in S : TRUE
    OBVIOUS
  <2>3. n - i \in T
    OBVIOUS
  <2>4. QED BY <2>1, <2>3
<1>2. PICK x \in T : \A y \in T : ~ (<<y, x>> \in OpToRel(<, Nat))
  <2> HIDE DEF T
  <2>1. QED BY <1>1, NatLessThanWellFounded, WFMin
<1>3. \A y \in T : ~ (y < x)
  BY <1>1, <1>2 DEF OpToRel
<1>4. PICK i \in S : x = n - i
  OBVIOUS
<1>5. ASSUME NEW j \in S
      PROVE  j <= i
  BY <1>3, <1>4
<1>6. QED BY <1>5

LEMMA YieldTargetType == ASSUME TypeOK PROVE YieldTarget(frames) \in Nat
<1> DEFINE bodies == {i \in DOMAIN frames : /\ IsLambda(frames[i])
                                            /\ frames[i].pc \in {"pop", "reset"}}
           inner == CHOOSE i \in bodies : \A j \in bodies : j <= i
<1>1. bodies \subseteq 1..Depth /\ Depth \in Nat
  BY FramesType
<1>2. YieldTarget(frames) = IF bodies = {} THEN 0 ELSE inner
  BY DEF YieldTarget
<1>3. ASSUME bodies # {} PROVE inner \in bodies
  <2> HIDE DEF bodies
  <2>1. \E i \in bodies : \A j \in bodies : j <= i
    BY <1>1, <1>3, InnermostExists
  <2>2. QED BY <2>1, Zenon
<1> HIDE DEF bodies, inner
<1>4. bodies # {} => inner \in 1..Depth
  BY <1>1, <1>3
<1> HIDE DEF Depth
<1>5. QED BY <1>1, <1>2, <1>4

LEMMA StepInv ==
  ASSUME IInv, Running, NEW pc \in PCs, Step(pc),
         HoldsCtx([Top EXCEPT !.pc = pc]) <= HoldsCtx(Top)
  PROVE  IInv'
<1>1. Keeps(Goto(pc)) /\ Active
  BY KeepsGoto, RunningActive DEF IInv
<1>2. QED BY <1>1, KeepInv DEF Step, IInv, TypeOK, RunsType, Running

\* process_cell returned without starting anything.
LEMMA AtomInv ==
  ASSUME IInv, Evaluating, frames' = Resumed,
         runs' \in RunsType,
         UNCHANGED <<callStack, ctxs, yield, status, deferCount, threw>>
  PROVE  IInv'
<1>1. Keeps(Resumed) /\ Active
  BY KeepsResumed, RunningActive DEF IInv, Evaluating
<1>2. QED BY <1>1, KeepInv DEF IInv, TypeOK, Evaluating, Running

LEMMA RunsNowType ==
  ASSUME IInv, Evaluating
  PROVE  RunsNow \in RunsType /\ EvalEnv \in Nat
<1>1. Top \in FrameType /\ runs \in RunsType /\ Depth \in Nat /\ Top.env \in Nat
  BY RunningFacts DEF Evaluating, Running
<1>2. CASE Top.op = "deferred"
  <2> DEFINE id == Head(Top.list).id
  <2>1. id \in DeferId
    <3>1. Top.list \in Seq(Deferred) /\ Top.list # << >>
      BY <1>1, <1>2 DEF FrameType, Evaluating
    <3>2. Head(Top.list) \in Deferred
      BY <3>1, HeadTailProperties
    <3>3. QED BY <3>2 DEF Deferred
  <2>2. RunsNow = [runs EXCEPT ![id] = IF @ < 2 THEN @ + 1 ELSE @]
    BY <1>2 DEF RunsNow
  <2> HIDE DEF id
  <2>3. RunsNow \in RunsType
    BY <1>1, <2>1, <2>2 DEF RunsType
  <2>4. QED BY <1>1, <2>3 DEF EvalEnv
<1>3. CASE Top.op # "deferred"
  BY <1>1, <1>3 DEF RunsNow, EvalEnv
<1>4. QED BY <1>2, <1>3

\* pop_ctx started by a frame that has a context of its own and then holds it
\* no more.
LEMMA PopOwnInv ==
  ASSUME IInv, Running, NEW pc \in PCs,
         HoldsCtx(Top) = 1, HoldsCtx([Top EXCEPT !.pc = pc]) = 0,
         NEW env \in Nat, PopCtx(Goto(pc), env)
  PROVE  IInv'
<1> DEFINE stack == Goto(pc)
<1>1. /\ Active /\ Depth > 0 /\ Depth \in 1..Len(frames) /\ Depth \in Nat
      /\ Depth = Len(frames) /\ Top = frames[Depth] /\ Top \in FrameType
  BY RunningActive, RunningFacts
<1>2. Keeps(stack) /\ Len(stack) = Depth
  BY <1>1, KeepsGoto DEF IInv
<1>3. KeptFacts(stack)
  BY <1>2, KeptStack
<1>4. Top.ctx \in Nat /\ Top.ctx + 1 <= Len(ctxs) /\ Len(ctxs) \in Nat
  <2>1. CtxNeed(Top) <= Len(ctxs)
    BY <1>1, FramesType DEF IInv, ContextsStay
  <2>2. QED BY <1>1, <2>1, NeedType, CtxsType DEF CtxNeed
<1>5. stack[Depth] = [Top EXCEPT !.pc = pc]
  BY <1>1 DEF Goto, IInv, TypeOK, Top
<1>6. CtxNeed(stack[Depth]) = Top.ctx
  BY <1>1, <1>4, <1>5, NewPc DEF CtxNeed
<1> HIDE DEF stack
<1>7. ASSUME NEW i \in 1..Len(stack)
      PROVE  CtxNeed(stack[i]) + 1 <= Len(ctxs)
  <2>1. CASE i = Depth
    BY <1>4, <1>6, <2>1
  <2>2. CASE i # Depth
    <3>1. i < Depth
      BY <1>1, <1>2, <2>2
    <3>2. CtxNeed(stack[i]) <= Top.ctx /\ CtxNeed(stack[i]) \in Nat
      BY <1>1, <1>3, <3>1 DEF KeptFacts
    <3>3. QED BY <1>4, <3>2
  <2>3. QED BY <2>1, <2>2
<1>8. PopCtx(stack, env)
  BY DEF stack
<1>9. QED BY <1>1, <1>2, <1>7, <1>8, PopCtxInv

\* A lambda's frame takes the context that is pushed for it.
LEMMA LambdaEnterInv == ASSUME IInv, LambdaEnter PROVE IInv'
<1>1. /\ Running /\ IsLambda(Top) /\ Top.pc = "arg" /\ frames' = Goto("body")
      /\ ctxs' = Append(ctxs, << >>)
      /\ UNCHANGED <<callStack, yield, status, deferCount, runs, threw>>
  BY DEF LambdaEnter, At, IsLambda
<1>2. /\ Active /\ Depth \in 1..Len(frames) /\ Depth = Len(frames)
      /\ Top = frames[Depth] /\ Top \in FrameType /\ DOMAIN frames = 1..Depth
      /\ Depth \in Nat /\ \A i \in 1..Depth : frames[i] \in FrameType
  BY <1>1, RunningActive, RunningFacts, FramesType DEF IInv
<1>3. /\ ctxs' \in Seq(Seq(Deferred)) /\ Len(ctxs') = Len(ctxs) + 1
      /\ Len(ctxs) \in Nat /\ Len(ctxs') \in Nat /\ ctxs' # << >>
  <2>1. << >> \in Seq(Deferred) /\ ctxs \in Seq(Seq(Deferred)) /\ Len(ctxs) \in Nat
    BY <1>2, EmptySeq, CtxsType
  <2>2. QED BY <1>1, <2>1, AppendProperties
<1> DEFINE top == [Top EXCEPT !.pc = "body"]
<1>4. top \in FrameType /\ "body" \in PCs
  BY <1>2 DEF FrameType, PCs
<1>5. /\ top.op = Top.op /\ top.calls = Top.calls /\ top.ctx = Top.ctx
      /\ CallNeed(top) = CallNeed(Top) /\ CtxNeed(top) <= CtxNeed(Top) + 1
  <2>1. top.op = Top.op /\ top.calls = Top.calls /\ top.ctx = Top.ctx
    BY <1>2 DEF FrameType
  <2>2. Top.ctx \in Nat
    BY <1>2, NeedType
  <2> HIDE DEF top
  <2>3. QED BY <2>1, <2>2, HoldsType DEF CallNeed, CtxNeed, HoldsCall, IsCall
<1>6. frames' = [frames EXCEPT ![Depth] = top]
  BY <1>1, <1>2 DEF Goto
<1> HIDE DEF top
<1>7. /\ frames' \in Seq(FrameType) /\ DOMAIN frames' = 1..Depth
      /\ \A i \in 1..Depth : frames'[i] = IF i = Depth THEN top ELSE frames[i]
  BY <1>2, <1>4, <1>6, ExceptSeq DEF IInv, TypeOK
<1>8. TypeOK'
  BY <1>1, <1>3, <1>7 DEF IInv, TypeOK
<1>9. ASSUME NEW i \in 1..Depth
      PROVE  /\ frames'[i].op = frames[i].op
             /\ frames'[i].calls = frames[i].calls /\ frames'[i].ctx = frames[i].ctx
             /\ CallNeed(frames'[i]) = CallNeed(frames[i])
             /\ CtxNeed(frames'[i]) <= CtxNeed(frames[i]) + 1
             /\ i < Depth => CtxNeed(frames'[i]) = CtxNeed(frames[i])
             /\ CtxNeed(frames[i]) \in Nat /\ CtxNeed(frames'[i]) \in Nat
  <2>1. CtxNeed(frames[i]) \in Nat /\ CtxNeed(top) \in Nat
    BY <1>2, <1>4, NeedType
  <2>2. CASE i = Depth
    BY <1>2, <1>5, <1>7, <2>1, <2>2
  <2>3. CASE i # Depth
    BY <1>7, <2>1, <2>3
  <2>4. QED BY <2>2, <2>3
<1>10. CallEntriesStay'
  <2>1. ASSUME NEW i \in 1..Depth
        PROVE  CallNeed(frames'[i]) <= callStack'
    BY <1>1, <1>2, <1>9 DEF IInv, CallEntriesStay
  <2>2. ASSUME NEW i \in 1..Depth, NEW j \in 1..Depth, i < j
        PROVE  CallNeed(frames'[i]) <= frames'[j].calls
    BY <1>2, <1>9, <2>2 DEF IInv, CallEntriesStay
  <2>3. QED BY <1>7, <2>1, <2>2 DEF CallEntriesStay
<1>11. ContextsStay'
  <2>1. ASSUME NEW i \in 1..Depth
        PROVE  CtxNeed(frames'[i]) <= Len(ctxs')
    <3>1. CtxNeed(frames[i]) <= Len(ctxs)
      BY <1>2 DEF IInv, ContextsStay
    <3>2. QED BY <1>3, <1>9, <3>1
  <2>2. ASSUME NEW i \in 1..Depth, NEW j \in 1..Depth, i < j
        PROVE  CtxNeed(frames'[i]) <= frames'[j].ctx
    <3>1. CtxNeed(frames[i]) <= frames[j].ctx
      BY <1>2, <2>2 DEF IInv, ContextsStay
    <3>2. i < Depth
      BY <1>2, <2>2
    <3>3. QED BY <1>9, <3>1, <3>2
  <2>3. QED BY <1>3, <1>7, <2>1, <2>2 DEF ContextsStay
<1>12. Anchored'
  BY <1>2, <1>7, <1>9 DEF IInv, Anchored
<1>13. QED BY <1>8, <1>10, <1>11, <1>12 DEF IInv

\* defer changes what the context on top holds, not how many there are.
LEMMA DeferNextInv == ASSUME IInv, DeferNext PROVE IInv'
<1>1. /\ Running /\ deferCount < MaxDefers /\ deferCount' = deferCount + 1
      /\ UNCHANGED <<callStack, yield, status, runs, threw>>
  BY DEF DeferNext, At
<1>2. /\ Active /\ Depth \in 1..Len(frames) /\ Depth = Len(frames) /\ Depth \in Nat
      /\ Top \in FrameType /\ DOMAIN frames = 1..Depth
      /\ \A i \in 1..Depth : frames[i] \in FrameType
      /\ runs \in RunsType /\ Top.env \in Nat
  BY <1>1, RunningActive, RunningFacts, FramesType DEF IInv
<1>3. deferCount' \in 0..MaxDefers /\ deferCount + 1 \in DeferId
  BY <1>1, ConstantTypes DEF IInv, TypeOK, DeferId
<1> DEFINE item == [id |-> deferCount + 1, env |-> Top.env]
           owner == ContextOf
<1>4. item \in Deferred
  BY <1>2, <1>3 DEF Deferred
<1>5. item.id = deferCount + 1
  OBVIOUS
<1>6. /\ ctxs' = IF ctxs = << >> THEN << <<item>> >>
                                ELSE [ctxs EXCEPT ![Len(ctxs)] = Append(@, item)]
      /\ frames' = [i \in DOMAIN frames |->
                      IF i = owner THEN [frames[i] EXCEPT !.owes = @ \union {item.id}]
                                   ELSE frames[i]]
  BY DEF DeferNext
<1> HIDE DEF item, owner
<1>7. ctxs' \in Seq(Seq(Deferred)) /\ Len(ctxs') = Len(ctxs)
  <2>1. /\ ctxs \in Seq(Seq(Deferred)) /\ ctxs # << >> /\ Len(ctxs) \in 1..Len(ctxs)
        /\ ctxs[Len(ctxs)] \in Seq(Deferred)
    BY <1>2, CtxsType
  <2>2. Append(ctxs[Len(ctxs)], item) \in Seq(Deferred)
    BY <1>4, <2>1, AppendProperties
  <2>3. ctxs' = [ctxs EXCEPT ![Len(ctxs)] = Append(ctxs[Len(ctxs)], item)]
    BY <1>6, <2>1
  <2>4. QED BY <2>1, <2>2, <2>3, ExceptSeq
<1>8. ASSUME NEW i \in 1..Depth
      PROVE  frames'[i] \in FrameType /\ Kept(frames'[i], frames[i])
  <2>1. CASE i = owner
    <3> DEFINE f == [frames[i] EXCEPT !.owes = frames[i].owes \union {item.id}]
    <3>1. frames'[i] = f
      BY <1>2, <1>6, <2>1
    <3>2. frames[i] \in FrameType /\ item.id \in DeferId
      BY <1>2, <1>3, <1>5
    <3>3. /\ f \in FrameType /\ f.op = frames[i].op /\ f.pc = frames[i].pc
          /\ f.calls = frames[i].calls /\ f.ctx = frames[i].ctx
      BY <3>2 DEF FrameType
    <3> HIDE DEF f
    <3>4. HoldsCtx(f) = HoldsCtx(frames[i])
      BY <3>3 DEF HoldsCtx, IsLambda
    <3>5. QED BY <3>1, <3>3, <3>4, HoldsType DEF Kept
  <2>2. CASE i # owner
    <3>1. frames'[i] = frames[i] /\ frames[i] \in FrameType
      BY <1>2, <1>6, <2>2
    <3>2. QED BY <3>1, HoldsType DEF Kept
  <2>3. QED BY <2>1, <2>2
<1>9. Keeps(frames')
  <2>1. frames' = [i \in 1..Depth |-> frames'[i]]
    BY <1>2, <1>6
  <2>2. frames' \in Seq(FrameType) /\ Len(frames') = Depth
    BY <1>2, <1>8, <2>1, SeqDef
  <2>3. QED BY <1>2, <1>8, <2>2 DEF Keeps
<1>10. QED BY <1>1, <1>2, <1>3, <1>7, <1>9, KeepGrowInv DEF IInv, TypeOK, Running

\* The pop_ctx frame takes its own context with it: only the one of the
\* destructor takes the interpreter's.
LEMMA PopCtxEndInv == ASSUME IInv, PopCtxEnd PROVE IInv'
<1>1. /\ Running /\ Top.op = "deferred" /\ frames' = Below
      /\ ctxs' = SubSeq(ctxs, 1, Len(ctxs) - 1)
      /\ status' = IF Depth = 1 THEN "done" ELSE "run"
      /\ UNCHANGED <<callStack, yield, deferCount, runs, threw>>
  BY DEF PopCtxEnd, At
<1>2. /\ Active /\ Depth \in 1..Len(frames) /\ Depth = Len(frames) /\ Depth \in Nat
      /\ Top = frames[Depth] /\ Top \in FrameType /\ Depth > 0
      /\ DOMAIN frames = 1..Depth
  BY <1>1, RunningActive, RunningFacts, FramesType DEF IInv
<1>3. Keeps(Below) /\ Len(Below) = Depth - 1 /\ KeptFacts(Below)
  BY <1>2, KeepsBelow, KeptStack DEF IInv
<1>4. Top.ctx \in Nat /\ Top.ctx + 1 <= Len(ctxs) /\ Len(ctxs) \in Nat
  <2>1. CtxNeed(Top) <= Len(ctxs) /\ HoldsCtx(Top) = 1
    BY <1>1, <1>2 DEF IInv, ContextsStay, HoldsCtx
  <2>2. QED BY <1>2, <2>1, NeedType, CtxsType DEF CtxNeed
<1>5. ctxs' \in Seq(Seq(Deferred)) /\ Len(ctxs') = Len(ctxs) - 1
  <2> DEFINE n == Len(ctxs) - 1
  <2>1. /\ n \in Nat /\ ctxs \in Seq(Seq(Deferred))
        /\ \A i \in 1..n : ctxs[i] \in Seq(Deferred)
    BY <1>2, <1>4, CtxsType
  <2>2. n \in Nat /\ n = Len(ctxs) - 1
    BY <2>1
  <2> HIDE DEF n
  <2>3. SubSeq(ctxs, 1, n) \in Seq(Seq(Deferred)) /\ Len(SubSeq(ctxs, 1, n)) = n
    BY <2>1, SubSeqProperties
  <2>4. QED BY <1>1, <2>2, <2>3
<1>6. Depth = 1 \/ Top.ctx >= 1
  BY <1>2 DEF IInv, Anchored
<1>7. TypeOK'
  BY <1>1, <1>3, <1>5 DEF IInv, TypeOK, Keeps
<1>8. DOMAIN frames' = 1..Depth - 1 /\ frames' = Below
  BY <1>1, <1>3 DEF KeptFacts
<1>9. CallEntriesStay'
  BY <1>1, <1>3, <1>8 DEF CallEntriesStay, KeptFacts
<1>10. ContextsStay'
  <2>1. status' # "done" => ctxs' # << >>
    BY <1>1, <1>4, <1>5, <1>6, EmptySeq
  <2>2. ASSUME NEW i \in 1..Depth - 1
        PROVE  CtxNeed(Below[i]) <= Len(ctxs')
    <3>1. CtxNeed(Below[i]) <= Top.ctx /\ CtxNeed(Below[i]) \in Nat
      BY <1>2, <1>3 DEF KeptFacts
    <3>2. QED BY <1>4, <1>5, <3>1
  <2>3. QED BY <1>3, <1>8, <2>1, <2>2 DEF ContextsStay, KeptFacts
<1>11. Anchored'
  BY <1>3, <1>8 DEF Anchored, KeptFacts
<1>12. QED BY <1>7, <1>9, <1>10, <1>11 DEF IInv

-----------------------------------------------------------------------------
(***************************************************************************)
(* The theorems.                                                           *)
(***************************************************************************)
LEMMA InitInv == ASSUME Init PROVE IInv
<1>1. << >> \in Seq(FrameType) /\ Len(<< >>) = 0
  BY EmptySeq
<1>2. ctxs \in Seq(Seq(Deferred)) /\ ctxs # << >>
  BY DEF Init
<1>3. runs \in [DeferId -> 0..2] /\ deferCount \in 0..MaxDefers
  BY ConstantTypes DEF Init
<1>4. TypeOK
  BY <1>1, <1>2, <1>3 DEF Init, TypeOK
<1>5. CallEntriesStay /\ ContextsStay /\ Anchored
  BY <1>1, <1>2 DEF Init, CallEntriesStay, ContextsStay, Anchored
<1>6. QED BY <1>4, <1>5 DEF IInv

\* Every action preserves the invariant.
LEMMA NextInv == ASSUME IInv, [Next]_vars PROVE IInv'
<1>1. runs \in RunsType /\ TypeOK /\ yield \in Nat \union {NoYield}
  BY DEF IInv, TypeOK, RunsType
<1>2. CASE ProcessYielding
  BY <1>1, <1>2, AtomInv DEF ProcessYielding
<1>3. CASE ProcessAtom
  BY <1>3, AtomInv, RunsNowType DEF ProcessAtom
<1>4. CASE ProcessList
  <2>1. /\ Evaluating /\ HandleList(Resumed, EvalEnv, WalksData(Top))
        /\ runs' = RunsNow
    BY <1>4 DEF ProcessList
  <2>2. Keeps(Resumed) /\ Active /\ EvalEnv \in Nat /\ runs' \in RunsType
    BY <1>1, <2>1, KeepsResumed, RunningActive, RunsNowType DEF Evaluating
  <2>3. QED BY <2>1, <2>2, HandleListInv
<1>5. CASE ComputeOperator
  <2>1. /\ Running /\ Top.op = "head" /\ Top.pc = "op"
        /\ HandleList(Resumed, EvalEnv, TRUE) /\ runs' = runs
    BY <1>5 DEF ComputeOperator, At
  <2>2. Evaluating
    BY <2>1 DEF Evaluating, Resume
  <2>3. Keeps(Resumed) /\ Active /\ EvalEnv \in Nat
    BY <1>1, <2>1, <2>2, KeepsResumed, RunningActive, RunsNowType
  <2>4. QED BY <1>1, <2>1, <2>3, HandleListInv
<1>6. CASE CallOperator
  <2>1. /\ Running
        /\ CallFunction(Below, Top.env) \/ Raise(Below, "exception")
        /\ runs' = runs
    BY <1>6 DEF CallOperator, At
  <2>2. Active /\ Keeps(Below) /\ Top.env \in Nat /\ "exception" \in Exceptions
    BY <1>1, <2>1, RunningActive, RunningFacts, KeepsBelow DEF Exceptions
  <2>3. QED BY <1>1, <2>1, <2>2, CallFunctionInv, RaiseInv
<1>7. ASSUME Running, Return, yield' = yield
      PROVE  IInv'
  BY <1>1, <1>7, ReturnInv
<1>8. ASSUME Running, NEW e \in Exceptions, Raise(frames, e), runs' = runs
      PROVE  IInv'
  <2>1. Active /\ Keeps(frames)
    BY <1>1, <1>8, RunningActive, KeepsFrames
  <2>2. QED BY <1>1, <1>8, <2>1, RaiseInv
<1>9. "exception" \in Exceptions /\ Throws \subseteq Exceptions
  BY ConstantTypes DEF Exceptions
<1>10. CASE PrimReturn
  BY <1>7, <1>10 DEF PrimReturn, At
<1>11. CASE PrimThrow
  BY <1>8, <1>9, <1>11 DEF PrimThrow, At
<1>12. CASE LambdaThrow
  BY <1>8, <1>9, <1>12 DEF LambdaThrow, At
<1>13. CASE LambdaEnter
  BY <1>13, LambdaEnterInv
<1>14. CASE LambdaPop
  <2>1. /\ Running /\ Top.op \in {"lambda", "variadic"} /\ Top.pc = "pop"
        /\ PopCtx(Goto("reset"), Depth)
    BY <1>14 DEF LambdaPop, At
  <2>2. "reset" \in PCs /\ Depth \in Nat /\ Depth > 0
    BY <2>1, RunningFacts, RunningActive DEF PCs
  <2>3. HoldsCtx(Top) = 1
    BY <2>1 DEF HoldsCtx, IsLambda
  <2>4. HoldsCtx([Top EXCEPT !.pc = "reset"]) = 0
    BY <2>1, <2>2, NewPc DEF HoldsCtx, IsLambda
  <2>5. QED BY <2>1, <2>2, <2>3, <2>4, PopOwnInv
<1>15. CASE LambdaReturn
  BY <1>15, ReturnInv DEF LambdaReturn, At, NoYield
<1>16. ASSUME Running, Top.op = "loop", NEW pc \in PCs, Step(pc)
       PROVE  IInv'
  <2>1. HoldsCtx([Top EXCEPT !.pc = pc]) <= HoldsCtx(Top)
    <3>1. [Top EXCEPT !.pc = pc].op = "loop"
      BY <1>16, RunningActive, NewPc
    <3>2. QED BY <1>16, <3>1 DEF HoldsCtx
  <2>2. QED BY <1>16, <2>1, StepInv
<1>17. "body" \in PCs /\ "post" \in PCs
  BY DEF PCs
<1>18. CASE LoopTest
  BY <1>7, <1>8, <1>9, <1>16, <1>17, <1>18 DEF LoopTest, At
<1>19. CASE LoopBodyDone
  BY <1>7, <1>16, <1>17, <1>19 DEF LoopBodyDone, At
<1>20. CASE IfTest
  <2>1. /\ Running /\ Top.op = "if" /\ Top.pc = "test"
        /\ \/ PopCtx(Goto("branch"), Depth)
           \/ PopCtx(Goto("ret"), Depth)
           \/ Raise(frames, "exception") /\ runs' = runs
    BY <1>20 DEF IfTest, At
  <2>2. ASSUME NEW pc \in {"branch", "ret"}, PopCtx(Goto(pc), Depth)
        PROVE  IInv'
    <3>1. pc \in PCs /\ Depth \in Nat /\ Depth > 0
      BY <2>1, RunningFacts, RunningActive DEF PCs
    <3>2. HoldsCtx(Top) = 1
      BY <2>1 DEF HoldsCtx
    <3>3. HoldsCtx([Top EXCEPT !.pc = pc]) = 0
      BY <2>1, <3>1, NewPc DEF HoldsCtx, IsLambda
    <3>4. QED BY <2>1, <2>2, <3>1, <3>2, <3>3, PopOwnInv
  <2>3. QED BY <1>8, <1>9, <2>1, <2>2
<1>21. CASE IfReturn
  BY <1>7, <1>21 DEF IfReturn, At
<1>22. CASE TryPop
  <2>1. /\ Running /\ Top.op = "try" /\ Top.pc \in {"attempted", "recovered"}
        /\ PopCtx(Goto("ret"), Depth)
    BY <1>22 DEF TryPop, At
  <2>2. "ret" \in PCs /\ Depth \in Nat /\ Depth > 0
    BY <2>1, RunningFacts, RunningActive DEF PCs
  <2>3. HoldsCtx(Top) = 1
    BY <2>1 DEF HoldsCtx
  <2>4. HoldsCtx([Top EXCEPT !.pc = "ret"]) = 0
    BY <2>1, <2>2, NewPc DEF HoldsCtx, IsLambda
  <2>5. QED BY <2>1, <2>2, <2>3, <2>4, PopOwnInv
<1>23. CASE TryReturn
  BY <1>7, <1>23 DEF TryReturn, At
<1>24. CASE ThrowThrow
  BY <1>8, <1>9, <1>24 DEF ThrowThrow, At
<1>25. CASE DeferNext
  BY <1>25, DeferNextInv
<1>26. CASE DeferThrow
  BY <1>8, <1>9, <1>26 DEF DeferThrow, At
<1>27. CASE DeferReturn
  BY <1>7, <1>27 DEF DeferReturn, At
<1>28. CASE YieldReturn
  <2>1. YieldTarget(frames) \in Nat
    BY <1>1, YieldTargetType
  <2>2. QED BY <1>28, <2>1, ReturnInv DEF YieldReturn, At
<1>29. CASE ExitNow
  BY <1>1, <1>29, EmptyInv, RunningActive DEF ExitNow, At, TypeOK
<1>30. CASE WalkNext
  <2>1. /\ Running /\ Top.op = "walk"
        /\ (Return /\ yield' = yield) \/ Step("item")
    BY <1>30 DEF WalkNext, At
  <2>2. HoldsCtx([Top EXCEPT !.pc = "item"]) <= HoldsCtx(Top) /\ "item" \in PCs
    BY <2>1, RunningActive, NewPc, HoldsType DEF HoldsCtx, IsLambda, PCs
  <2>3. QED BY <1>7, <2>1, <2>2, StepInv
<1>31. CASE WalkEnd
  BY <1>7, <1>31 DEF WalkEnd, At
<1>32. CASE PopCtxEnd
  BY <1>32, PopCtxEndInv
<1>33. CASE Catch
  <2>1. /\ Depth > 0 /\ Top.op = "try" /\ Top.pc = "attempted" /\ Active
        /\ frames' = Goto("recover") /\ "recover" \in PCs
    BY <1>33 DEF Catch, Active, PCs
  <2>2. HoldsCtx([Top EXCEPT !.pc = "recover"]) <= HoldsCtx(Top)
    BY <2>1, NewPc DEF HoldsCtx, IsLambda
  <2>3. Keeps(Goto("recover"))
    BY <1>1, <2>1, <2>2, KeepsGoto
  <2>4. QED BY <1>1, <1>33, <2>1, <2>3, KeepInv DEF Catch, TypeOK
<1>34. CASE DeferredFailed
  <2>1. Active /\ Keeps(frames) /\ HaltWithError(frames, "run") /\ runs' = runs
    BY <1>1, <1>34, KeepsFrames DEF DeferredFailed, Active, Exceptions
  <2>2. QED BY <1>1, <2>1, HaltInv
<1>35. CASE Unwind
  <2>1. Active /\ Keeps(Below) /\ frames' = Below
    BY <1>1, <1>35, KeepsBelow DEF Unwind, Active, Exceptions
  <2>2. QED BY <1>1, <1>35, <2>1, KeepInv DEF Unwind, TypeOK
<1>36. CASE InstructionFailed
  <2>1. Active /\ Keeps(frames) /\ HaltWithError(frames, "idle") /\ runs' = runs
    BY <1>1, <1>36, KeepsFrames DEF InstructionFailed, Active, Exceptions
  <2>2. QED BY <1>1, <2>1, HaltInv
<1>37. CASE Instruction
  <2>1. Active /\ Keeps(<< >>) /\ HandleList(<< >>, 0, FALSE) /\ runs' = runs
    BY <1>1, <1>37, KeepsNone DEF Instruction, Active
  <2>2. QED BY <1>1, <2>1, HandleListInv
<1>38. CASE Finish
  <2>1. Active /\ Keeps(<< >>) /\ PopCtx(<< >>, 0)
    BY <1>1, <1>38, KeepsNone DEF Finish, Active
  <2>2. \A i \in 1..Len(<< >>) : CtxNeed(<< >>[i]) + 1 <= Len(ctxs)
    OBVIOUS
  <2>3. QED BY <2>1, <2>2, PopCtxInv
<1>39. CASE UNCHANGED vars
  BY <1>39 DEF IInv, TypeOK, CallEntriesStay, ContextsStay, Anchored, vars
<1>40. QED
  BY <1>2, <1>3, <1>4, <1>5, <1>6, <1>10, <1>11, <1>12, <1>13, <1>14, <1>15,
     <1>18, <1>19, <1>20, <1>21, <1>22, <1>23, <1>24, <1>25, <1>26, <1>27,
     <1>28, <1>29, <1>30, <1>31, <1>32, <1>33, <1>34, <1>35, <1>36, <1>37,
     <1>38, <1>39 DEF Next, Machine, Ended

THEOREM InvariantHolds == Spec => []IInv
BY InitInv, NextInv, PTL DEF Spec

\* Type correctness, for every set of builtins, bound and call depth.
THEOREM TypeCorrect == Spec => []TypeOK
<1>1. IInv => TypeOK
  BY DEF IInv
<1>2. QED BY <1>1, InvariantHolds, PTL

\* No sequence of calls, exceptions, yields and abandoned contexts makes
\* handle_list_cell pop an empty call stack or the entry of another call.
THEOREM CallEntriesSafe == Spec => []CallEntriesStay
<1>1. IInv => CallEntriesStay
  BY DEF IInv
<1>2. QED BY <1>1, InvariantHolds, PTL

\* No pop_ctx takes a context from below its own frame's: ctxs_.top() in
\* defer_execution and in pop_ctx is never asked of an empty stack.
THEOREM ContextsSafe == Spec => []ContextsStay
<1>1. IInv => ContextsStay
  BY DEF IInv
<1>2. QED BY <1>1, InvariantHolds, PTL

(***************************************************************************)
(* 2. Programs in which nothing has been thrown.                           *)
(***************************************************************************)

\* The frame of a function whose body, or whose deferred instructions, are
\* being processed: what a `<-' ends.
Body(f) == IsLambda(f) /\ f.pc \in {"pop", "reset"}

\* The sizes the two stacks have once the i innermost-but-outer frames of
\* stack have been entered.  The interpreter's own context is below them all,
\* unless the first of them is the pop_ctx of the destructor.
CallsUpTo(stack, i) == IF i = 0 THEN 0 ELSE CallNeed(stack[i])
CtxsUpTo(stack, i)  ==
  IF i > 0 THEN CtxNeed(stack[i])
  ELSE IF Len(stack) > 0 /\ stack[1].op = "deferred" THEN 0 ELSE 1

CallsExact(stack, n) ==
  /\ \A i \in 1..Len(stack) : /\ stack[i].calls = CallsUpTo(stack, i - 1)
                              /\ stack[i].calls < i
  /\ n = CallsUpTo(stack, Len(stack))

CtxsExact(stack, n) ==
  /\ \A i \in 1..Len(stack) : stack[i].ctx = CtxsUpTo(stack, i - 1)
  /\ n = CtxsUpTo(stack, Len(stack))

\* The innermost function of the first n frames, if any, is in its body.
InBody(stack, n) ==
  \A j \in 1..n : IsLambda(stack[j]) => \E k \in j..n : Body(stack[k])

\* Every `<-' is executed in a body, and the function a yield is to end is
\* there, in its body, with no other function above it.
YieldsMeet(stack, y) ==
  /\ \A i \in 1..Len(stack) : stack[i].op = "yield" => InBody(stack, i - 1)
  /\ y > 0 => /\ y \in 1..Len(stack) /\ Body(stack[y])
              /\ \A j \in y + 1..Len(stack) : ~IsLambda(stack[j])

Permitted(stack) ==
  \A i \in 1..Len(stack) : /\ stack[i].op \in Ops \union {"deferred"}
                           /\ stack[i].op = "head" => i <= MaxFrames

\* Programs for which a yield is sure to end its own call.
Plainly == "head" \notin Ops /\ "yield_in_arg" \notin Habits

Exact(stack, c, n, y) ==
  /\ Permitted(stack)
  /\ CallsExact(stack, c)
  /\ "loop" \notin Ops => CtxsExact(stack, n)
  /\ Plainly => YieldsMeet(stack, y)

Alive == ~threw /\ status \notin {"done", "exit"}

(***************************************************************************)
(* The inductive invariant: CallEntriesStay and ContextsStay with          *)
(* equalities in the place of their inequalities.                          *)
(***************************************************************************)
Balanced ==
  Alive => /\ status = IF Depth = 0 THEN "idle" ELSE "run"
           /\ Exact(frames, callStack, Len(ctxs), yield)

-----------------------------------------------------------------------------
(***************************************************************************)
(* What moving, dropping and adding the top frame does to Exact.           *)
(***************************************************************************)
SameSpot(f, g) ==
  f.op = g.op /\ f.pc = g.pc /\ f.calls = g.calls /\ f.ctx = g.ctx

\* The frames, of which the top one may have moved on.
Moved(stack) ==
  /\ Depth > 0 /\ stack \in Seq(FrameType) /\ Len(stack) = Depth
  /\ \A i \in 1..Depth - 1 : SameSpot(stack[i], frames[i])
  /\ LET f == stack[Depth] IN
       /\ f.op = Top.op /\ f.calls = Top.calls /\ f.ctx = Top.ctx
       /\ Body(Top) => Body(f)

LEMMA SameSpotFacts ==
  ASSUME NEW f, NEW g, SameSpot(f, g)
  PROVE  /\ IsLambda(f) = IsLambda(g) /\ Body(f) = Body(g)
         /\ CallNeed(f) = CallNeed(g) /\ CtxNeed(f) = CtxNeed(g)
BY DEF SameSpot, IsLambda, Body, CallNeed, HoldsCall, IsCall, CtxNeed, HoldsCtx

LEMMA MovedFacts ==
  ASSUME IInv, NEW stack, Moved(stack)
  PROVE  /\ Len(stack) = Depth /\ Depth \in Nat /\ Depth > 0
         /\ \A i \in 1..Depth :
              /\ stack[i].op = frames[i].op /\ stack[i].calls = frames[i].calls
              /\ stack[i].ctx = frames[i].ctx
              /\ IsLambda(stack[i]) = IsLambda(frames[i])
              /\ CallNeed(stack[i]) = CallNeed(frames[i])
              /\ Body(frames[i]) => Body(stack[i])
         /\ \A i \in 1..Depth - 1 : /\ CtxNeed(stack[i]) = CtxNeed(frames[i])
                                    /\ Body(stack[i]) = Body(frames[i])
<1>1. Depth \in Nat /\ Depth > 0 /\ Len(stack) = Depth /\ Top = frames[Depth]
  BY FramesType DEF Moved, IInv, Top
<1>2. ASSUME NEW i \in 1..Depth - 1
      PROVE  /\ stack[i].op = frames[i].op /\ stack[i].calls = frames[i].calls
             /\ stack[i].ctx = frames[i].ctx
             /\ IsLambda(stack[i]) = IsLambda(frames[i])
             /\ CallNeed(stack[i]) = CallNeed(frames[i])
             /\ CtxNeed(stack[i]) = CtxNeed(frames[i])
             /\ Body(stack[i]) = Body(frames[i])
  <2>1. SameSpot(stack[i], frames[i])
    BY DEF Moved
  <2>2. QED BY <2>1, SameSpotFacts DEF SameSpot
<1>3. /\ stack[Depth].op = frames[Depth].op /\ stack[Depth].calls = frames[Depth].calls
      /\ stack[Depth].ctx = frames[Depth].ctx
      /\ Body(frames[Depth]) => Body(stack[Depth])
  BY <1>1 DEF Moved
<1>4. /\ IsLambda(stack[Depth]) = IsLambda(frames[Depth])
      /\ CallNeed(stack[Depth]) = CallNeed(frames[Depth])
  BY <1>3 DEF IsLambda, CallNeed, HoldsCall, IsCall
<1>5. \A i \in 1..Depth : i \in 1..Depth - 1 \/ i = Depth
  BY <1>1
<1>6. QED BY <1>1, <1>2, <1>3, <1>4, <1>5

LEMMA ExactMoved ==
  ASSUME IInv, NEW stack, Moved(stack), NEW c, NEW n, NEW y, NEW m,
         y \in Nat \union {NoYield}, n \in Nat,
         Exact(frames, c, n, y),
         m = n + HoldsCtx(stack[Depth]) - HoldsCtx(Top)
  PROVE  Exact(stack, c, m, y)
<1>1. /\ Len(stack) = Depth /\ Depth \in Nat /\ Depth > 0 /\ Depth = Len(frames)
      /\ Top = frames[Depth] /\ \A i \in 1..Depth : frames[i] \in FrameType
  BY MovedFacts, FramesType DEF IInv, Depth, Top
<1>2. Permitted(stack)
  BY <1>1, MovedFacts DEF Exact, Permitted
<1>3. CallsExact(stack, c)
  <2>1. ASSUME NEW i \in 1..Depth
        PROVE  stack[i].calls = CallsUpTo(stack, i - 1) /\ stack[i].calls < i
    <3>1. frames[i].calls = CallsUpTo(frames, i - 1) /\ frames[i].calls < i
      BY <1>1 DEF Exact, CallsExact
    <3>2. CallsUpTo(stack, i - 1) = CallsUpTo(frames, i - 1)
      BY <1>1, MovedFacts DEF CallsUpTo
    <3>3. QED BY <3>1, <3>2, MovedFacts
  <2>2. c = CallsUpTo(stack, Depth)
    BY <1>1, MovedFacts DEF Exact, CallsExact, CallsUpTo
  <2>3. QED BY <1>1, <2>1, <2>2 DEF CallsExact
<1>4. ASSUME CtxsExact(frames, n)
      PROVE  CtxsExact(stack, m)
  <2>1. ASSUME NEW i \in 1..Depth
        PROVE  stack[i].ctx = CtxsUpTo(stack, i - 1)
    <3>1. frames[i].ctx = CtxsUpTo(frames, i - 1)
      BY <1>1, <1>4 DEF CtxsExact
    <3>2. CtxsUpTo(stack, i - 1) = CtxsUpTo(frames, i - 1)
      <4>1. CASE i = 1
        BY <1>1, <4>1, MovedFacts DEF CtxsUpTo
      <4>2. CASE i # 1
        <5>1. i - 1 \in 1..Depth - 1
          BY <1>1, <4>2
        <5>2. QED BY <5>1, MovedFacts DEF CtxsUpTo
      <4>3. QED BY <4>1, <4>2
    <3>3. QED BY <3>1, <3>2, MovedFacts
  <2>2. m = CtxsUpTo(stack, Depth)
    <3>1. n = CtxNeed(Top)
      BY <1>1, <1>4 DEF CtxsExact, CtxsUpTo
    <3>2. stack[Depth].ctx = Top.ctx /\ Top.ctx \in Nat
      BY <1>1, NeedType, SMTT(30) DEF Moved
    <3>3. /\ HoldsCtx(stack[Depth]) \in Nat /\ HoldsCtx(Top) \in Nat
      BY HoldsType
    <3>4. m = CtxNeed(stack[Depth])
      BY <3>1, <3>2, <3>3 DEF CtxNeed
    <3>5. QED BY <1>1, <3>4 DEF CtxsUpTo
  <2>3. QED BY <1>1, <2>1, <2>2 DEF CtxsExact
<1>5. ASSUME YieldsMeet(frames, y)
      PROVE  YieldsMeet(stack, y)
  <2>1. ASSUME NEW i \in 1..Depth, stack[i].op = "yield"
        PROVE  InBody(stack, i - 1)
    <3>1. InBody(frames, i - 1)
      BY <1>1, <1>5, <2>1, MovedFacts DEF YieldsMeet
    <3>2. ASSUME NEW j \in 1..i - 1, IsLambda(stack[j])
          PROVE  \E k \in j..i - 1 : Body(stack[k])
      <4>1. j \in 1..Depth /\ IsLambda(frames[j])
        BY <1>1, <3>2, MovedFacts
      <4>2. PICK k \in j..i - 1 : Body(frames[k])
        BY <3>1, <4>1 DEF InBody
      <4>3. k \in 1..Depth /\ Body(stack[k])
        BY <1>1, <4>2, MovedFacts
      <4>4. QED BY <4>3
    <3>3. QED BY <3>2 DEF InBody
  <2>2. ASSUME y > 0
        PROVE  /\ y \in 1..Depth /\ Body(stack[y])
               /\ \A j \in y + 1..Depth : ~IsLambda(stack[j])
    <3>1. /\ y \in 1..Depth /\ Body(frames[y])
          /\ \A j \in y + 1..Depth : ~IsLambda(frames[j])
      BY <1>1, <1>5, <2>2 DEF YieldsMeet
    <3>2. \A j \in y + 1..Depth : j \in 1..Depth
      BY <1>1, <3>1
    <3>3. QED BY <3>1, <3>2, MovedFacts
  <2>3. QED BY <1>1, <2>1, <2>2 DEF YieldsMeet
<1>6. QED BY <1>2, <1>3, <1>4, <1>5 DEF Exact

\* A yield that is not for the top frame's call is not affected by its return.
LEMMA ExactBelow ==
  ASSUME IInv, Depth > 0, NEW c, NEW n, NEW y, NEW z, NEW m,
         Exact(frames, c, n, y), ~(Depth = 1 /\ Top.op = "deferred"),
         m = n - HoldsCtx(Top),
         z \in Nat \union {NoYield},
         Plainly /\ z > 0 => /\ z \in 1..Depth - 1 /\ Body(frames[z])
                             /\ \A j \in z + 1..Depth - 1 : ~IsLambda(frames[j])
  PROVE  Exact(Below, c - HoldsCall(Top), m, z)
<1>1. /\ Depth \in Nat /\ Depth = Len(frames) /\ Depth \in 1..Depth
      /\ Top = frames[Depth] /\ \A i \in 1..Depth : frames[i] \in FrameType
  BY FramesType DEF IInv, Depth, Top
<1>2. /\ Len(Below) = Depth - 1 /\ Below \in Seq(FrameType)
      /\ \A i \in 1..Depth - 1 : Below[i] = frames[i]
  <2> DEFINE d == Depth - 1
  <2>1. d \in Nat /\ \A i \in 1..d : frames[i] \in FrameType
    BY <1>1
  <2> HIDE DEF d
  <2>2. /\ SubSeq(frames, 1, d) \in Seq(FrameType)
        /\ Len(SubSeq(frames, 1, d)) = d
        /\ \A i \in 1..d : SubSeq(frames, 1, d)[i] = frames[i]
    BY <2>1, SubSeqProperties
  <2>3. QED BY <2>2 DEF Below, d
<1>3. Permitted(Below)
  BY <1>1, <1>2 DEF Exact, Permitted
<1>4. CallsExact(Below, c - HoldsCall(Top))
  <2>1. ASSUME NEW i \in 1..Depth - 1
        PROVE  Below[i].calls = CallsUpTo(Below, i - 1) /\ Below[i].calls < i
    BY <1>1, <1>2 DEF Exact, CallsExact, CallsUpTo
  <2>2. Top.calls = CallsUpTo(Below, Depth - 1)
    BY <1>1, <1>2 DEF Exact, CallsExact, CallsUpTo
  <2>3. c - HoldsCall(Top) = Top.calls
    <3>1. c = CallNeed(Top)
      BY <1>1 DEF Exact, CallsExact, CallsUpTo
    <3>2. Top.calls \in Nat /\ HoldsCall(Top) \in Nat
      BY <1>1, NeedType, HoldsType
    <3>3. QED BY <3>1, <3>2 DEF CallNeed
  <2>4. QED BY <1>2, <2>1, <2>2, <2>3 DEF CallsExact
<1>5. ASSUME CtxsExact(frames, n)
      PROVE  CtxsExact(Below, m)
  <2>1. ASSUME NEW i \in 1..Depth
        PROVE  frames[i].ctx = CtxsUpTo(Below, i - 1)
    <3>1. frames[i].ctx = CtxsUpTo(frames, i - 1)
      BY <1>1, <1>5 DEF CtxsExact
    <3>2. CASE i > 1
      BY <1>1, <1>2, <3>1, <3>2 DEF CtxsUpTo
    <3>3. CASE i = 1 /\ Depth > 1
      BY <1>1, <1>2, <3>1, <3>3 DEF CtxsUpTo
    <3>4. CASE i = 1 /\ Depth = 1
      BY <1>1, <1>2, <3>1, <3>4 DEF CtxsUpTo
    <3>5. QED BY <1>1, <3>2, <3>3, <3>4
  <2>2. m = Top.ctx
    <3>1. n = CtxNeed(Top)
      BY <1>1, <1>5 DEF CtxsExact, CtxsUpTo
    <3>2. Top.ctx \in Nat /\ HoldsCtx(Top) \in Nat
      BY <1>1, NeedType, HoldsType
    <3>3. QED BY <3>1, <3>2 DEF CtxNeed
  <2>3. QED BY <1>1, <1>2, <2>1, <2>2 DEF CtxsExact
<1>6. ASSUME Plainly, YieldsMeet(frames, y)
      PROVE  YieldsMeet(Below, z)
  <2>1. ASSUME NEW i \in 1..Depth - 1, Below[i].op = "yield"
        PROVE  InBody(Below, i - 1)
    <3>1. InBody(frames, i - 1)
      BY <1>1, <1>2, <1>6, <2>1 DEF YieldsMeet
    <3>2. \A j \in 1..i - 1 : Below[j] = frames[j]
      BY <1>1, <1>2
    <3>3. QED BY <1>1, <3>1, <3>2 DEF InBody
  <2>2. ASSUME z > 0
        PROVE  /\ z \in 1..Depth - 1 /\ Body(Below[z])
               /\ \A j \in z + 1..Depth - 1 : ~IsLambda(Below[j])
    <3>1. z \in 1..Depth - 1 /\ \A j \in z + 1..Depth - 1 : Below[j] = frames[j]
      BY <1>1, <1>2, <1>6, <2>2
    <3>2. QED BY <1>2, <1>6, <2>2, <3>1
  <2>3. QED BY <1>2, <2>1, <2>2 DEF YieldsMeet
<1>7. QED BY <1>3, <1>4, <1>5, <1>6 DEF Exact

LEMMA ExactPush ==
  ASSUME NEW stack \in Seq(FrameType), NEW f \in FrameType,
         NEW c \in Nat, NEW n \in Nat, NEW y \in Nat \union {NoYield},
         Exact(stack, c, n, y), f.calls = c,
         f.op \in Ops \union {"deferred"}, f.op = "head" => Len(stack) < MaxFrames,
         IF Len(stack) = 0 /\ f.op = "deferred" THEN f.ctx = n - 1 ELSE f.ctx = n,
         Plainly => /\ IsLambda(f) => ~(y > 0)
                    /\ f.op = "yield" => InBody(stack, Len(stack))
  PROVE  Exact(Append(stack, f), CallNeed(f), CtxNeed(f), y)
<1> DEFINE new == Append(stack, f)
           len == Len(stack)
<1>1. /\ new \in Seq(FrameType) /\ Len(new) = len + 1 /\ len \in Nat
      /\ \A i \in 1..len : new[i] = stack[i]
      /\ new[len + 1] = f
      /\ \A i \in 1..len : stack[i] \in FrameType
  BY AppendProperties
<1> HIDE DEF new, len
<1>2. MaxFrames \in Nat
  BY BoundAssumption
<1>3. Permitted(new)
  <2>1. ASSUME NEW i \in 1..len + 1
        PROVE  /\ new[i].op \in Ops \union {"deferred"}
               /\ new[i].op = "head" => i <= MaxFrames
    <3>1. CASE i = len + 1
      BY <1>1, <1>2, <3>1 DEF len
    <3>2. CASE i # len + 1
      <4>1. i \in 1..len
        BY <1>1, <3>2
      <4>2. QED BY <1>1, <4>1 DEF Exact, Permitted, len
    <3>3. QED BY <3>1, <3>2
  <2>2. QED BY <1>1, <2>1 DEF Permitted
<1>4. CallsExact(new, CallNeed(f))
  <2>1. c = CallsUpTo(stack, len) /\ c <= len
    <3>1. c = CallsUpTo(stack, len)
      BY DEF Exact, CallsExact, len
    <3>2. CASE len = 0
      BY <3>1, <3>2 DEF CallsUpTo
    <3>3. CASE len > 0
      <4>1. len \in 1..len /\ stack[len] \in FrameType
        BY <1>1, <3>3
      <4>2. stack[len].calls < len /\ stack[len].calls \in Nat
        BY <4>1, NeedType DEF Exact, CallsExact, len
      <4>3. c = CallNeed(stack[len]) /\ HoldsCall(stack[len]) \in {0, 1}
        BY <3>1, <3>3, HoldsType DEF CallsUpTo
      <4>4. QED BY <1>1, <3>1, <4>2, <4>3 DEF CallNeed
    <3>4. QED BY <1>1, <3>2, <3>3
  <2>2. ASSUME NEW i \in 1..len + 1
        PROVE  new[i].calls = CallsUpTo(new, i - 1) /\ new[i].calls < i
    <3>1. CallsUpTo(new, i - 1) = CallsUpTo(stack, i - 1)
      BY <1>1 DEF CallsUpTo
    <3>2. CASE i = len + 1
      BY <1>1, <2>1, <3>1, <3>2
    <3>3. CASE i # len + 1
      <4>1. i \in 1..len
        BY <1>1, <3>3
      <4>2. stack[i].calls = CallsUpTo(stack, i - 1) /\ stack[i].calls < i
        BY <4>1 DEF Exact, CallsExact, len
      <4>3. QED BY <1>1, <3>1, <4>1, <4>2
    <3>4. QED BY <3>2, <3>3
  <2>3. CallNeed(f) = CallsUpTo(new, len + 1)
    BY <1>1 DEF CallsUpTo
  <2>4. QED BY <1>1, <2>2, <2>3 DEF CallsExact
<1>5. ASSUME CtxsExact(stack, n)
      PROVE  CtxsExact(new, CtxNeed(f))
  <2>1. n = CtxsUpTo(stack, len)
    BY <1>5 DEF CtxsExact, len
  <2>2. ASSUME NEW i \in 1..len + 1
        PROVE  new[i].ctx = CtxsUpTo(new, i - 1)
    <3>1. CASE len = 0
      <4>1. i = 1 /\ new[i] = f
        BY <1>1, <3>1
      <4>2. n = 1
        BY <2>1, <3>1 DEF CtxsUpTo, len
      <4>3. CtxsUpTo(new, 0) = IF f.op = "deferred" THEN 0 ELSE 1
        BY <1>1, <3>1 DEF CtxsUpTo
      <4>4. QED BY <3>1, <4>1, <4>2, <4>3 DEF len
    <3>2. CASE len > 0 /\ i = len + 1
      <4>1. f.ctx = n /\ new[i] = f
        BY <1>1, <3>2 DEF len
      <4>2. n = CtxNeed(stack[len]) /\ new[len] = stack[len]
        BY <1>1, <2>1, <3>2 DEF CtxsUpTo
      <4>3. QED BY <1>1, <3>2, <4>1, <4>2 DEF CtxsUpTo
    <3>3. CASE len > 0 /\ i \in 1..len
      <4>1. stack[i].ctx = CtxsUpTo(stack, i - 1)
        BY <1>5, <3>3 DEF CtxsExact, len
      <4>2. CtxsUpTo(new, i - 1) = CtxsUpTo(stack, i - 1)
        <5>1. CASE i = 1
          BY <1>1, <3>3, <5>1 DEF CtxsUpTo, len
        <5>2. CASE i # 1
          BY <1>1, <3>3, <5>2 DEF CtxsUpTo
        <5>3. QED BY <5>1, <5>2
      <4>3. QED BY <1>1, <3>3, <4>1, <4>2
    <3>4. QED BY <1>1, <3>1, <3>2, <3>3
  <2>3. CtxNeed(f) = CtxsUpTo(new, len + 1)
    BY <1>1 DEF CtxsUpTo
  <2>4. QED BY <1>1, <2>2, <2>3 DEF CtxsExact
<1>6. ASSUME Plainly, YieldsMeet(stack, y)
      PROVE  YieldsMeet(new, y)
  <2>1. ASSUME NEW i \in 1..len + 1, new[i].op = "yield"
        PROVE  InBody(new, i - 1)
    <3>1. InBody(stack, i - 1)
      <4>1. CASE i = len + 1
        BY <1>1, <1>6, <2>1, <4>1 DEF len
      <4>2. CASE i # len + 1
        <5>1. i \in 1..len
          BY <1>1, <4>2
        <5>2. QED BY <1>1, <1>6, <2>1, <5>1 DEF YieldsMeet, len
      <4>3. QED BY <4>1, <4>2
    <3>2. \A j \in 1..i - 1 : new[j] = stack[j]
      BY <1>1
    <3>3. QED BY <1>1, <3>1, <3>2 DEF InBody
  <2>2. ASSUME y > 0
        PROVE  /\ y \in 1..len + 1 /\ Body(new[y])
               /\ \A j \in y + 1..len + 1 : ~IsLambda(new[j])
    <3>1. /\ y \in 1..len /\ Body(stack[y])
          /\ \A j \in y + 1..len : ~IsLambda(stack[j])
      BY <1>6, <2>2 DEF YieldsMeet, len
    <3>2. ~IsLambda(new[len + 1])
      BY <1>1, <1>6, <2>2
    <3>3. \A j \in y + 1..len + 1 : j = len + 1 \/ (j \in y + 1..len /\ new[j] = stack[j])
      BY <1>1, <3>1
    <3>4. QED BY <1>1, <3>1, <3>2, <3>3
  <2>3. QED BY <1>1, <2>1, <2>2 DEF YieldsMeet
<1>7. Exact(new, CallNeed(f), CtxNeed(f), y)
  BY <1>3, <1>4, <1>5, <1>6 DEF Exact
<1>8. QED BY <1>7 DEF new

LEMMA MovedGoto ==
  ASSUME IInv, Depth > 0, NEW pc \in PCs, Body(Top) => pc \in {"pop", "reset"}
  PROVE  Moved(Goto(pc)) /\ Goto(pc)[Depth] = [Top EXCEPT !.pc = pc]
<1> DEFINE top == [frames[Depth] EXCEPT !.pc = pc]
<1>1. /\ frames \in Seq(FrameType) /\ Depth \in 1..Len(frames) /\ Depth = Len(frames)
      /\ frames[Depth] \in FrameType /\ Top = frames[Depth]
  BY FramesType DEF IInv, TypeOK, Depth, Top
<1>2. /\ top \in FrameType /\ top.op = Top.op /\ top.pc = pc
      /\ top.calls = Top.calls /\ top.ctx = Top.ctx
  BY <1>1 DEF FrameType
<1>3. Body(Top) => Body(top)
  BY <1>2 DEF Body, IsLambda
<1>4. Goto(pc) = [frames EXCEPT ![Depth] = top]
  BY <1>1 DEF Goto
<1>5. top = [Top EXCEPT !.pc = pc]
  BY <1>1
<1> HIDE DEF top
<1>6. /\ Goto(pc) \in Seq(FrameType) /\ Len(Goto(pc)) = Len(frames)
      /\ \A i \in 1..Len(frames) : Goto(pc)[i] = IF i = Depth THEN top ELSE frames[i]
  BY <1>1, <1>2, <1>4, ExceptSeq
<1>7. Goto(pc)[Depth] = top
  BY <1>1, <1>6
<1>8. \A i \in 1..Depth - 1 : Goto(pc)[i] = frames[i]
  BY <1>1, <1>6
<1>9. QED BY <1>1, <1>2, <1>3, <1>5, <1>6, <1>7, <1>8 DEF Moved, SameSpot

\* process_cell returns, or calls, with the frame's context as it was.
LEMMA MovedResumed ==
  ASSUME IInv, Evaluating
  PROVE  Moved(Resumed) /\ HoldsCtx(Resumed[Depth]) = HoldsCtx(Top)
<1>1. /\ frames \in Seq(FrameType) /\ Depth \in 1..Len(frames) /\ Depth = Len(frames)
      /\ frames[Depth] \in FrameType /\ Top = frames[Depth] /\ Depth > 0
  BY FramesType DEF IInv, TypeOK, Depth, Top, Evaluating, Running
<1>2. CASE Top.op = "deferred"
  <2> DEFINE top == [frames[Depth] EXCEPT !.list = Tail(Top.list)]
  <2>1. Tail(Top.list) \in Seq(Deferred)
    BY <1>1, <1>2, HeadTailProperties DEF FrameType, Evaluating
  <2>2. /\ top \in FrameType /\ top.op = Top.op /\ top.pc = Top.pc
        /\ top.calls = Top.calls /\ top.ctx = Top.ctx
    BY <1>1, <2>1 DEF FrameType
  <2>3. ~Body(Top) /\ HoldsCtx(top) = 1 /\ HoldsCtx(Top) = 1
    BY <1>2, <2>2 DEF Body, IsLambda, HoldsCtx
  <2>4. Resumed = [frames EXCEPT ![Depth] = top]
    BY <1>1, <1>2 DEF Resumed
  <2> HIDE DEF top
  <2>5. /\ Resumed \in Seq(FrameType) /\ Len(Resumed) = Len(frames)
        /\ \A i \in 1..Len(frames) : Resumed[i] = IF i = Depth THEN top ELSE frames[i]
    BY <1>1, <2>2, <2>4, ExceptSeq
  <2>6. Resumed[Depth] = top
    BY <1>1, <2>5
  <2>7. \A i \in 1..Depth - 1 : Resumed[i] = frames[i]
    BY <1>1, <2>5
  <2>8. QED BY <1>1, <2>2, <2>3, <2>5, <2>6, <2>7 DEF Moved, SameSpot
<1>3. CASE Top.op # "deferred"
  <2> DEFINE pc == Resume[Top.op][Top.pc]
  <2>1. Top.op \in FrameOps /\ Top.pc \in DOMAIN Resume[Top.op]
    BY <1>1 DEF FrameType, FrameOps, Evaluating
  <2>2. pc \in PCs
    BY <2>1, ResumeType
  <2>3. IsLambda(Top) => /\ Top.pc = "body" => pc = "pop"
                         /\ Top.pc = "arg" => pc \in {"arg", "again"}
                         /\ Top.pc = "again" => pc = "arg"
                         /\ Top.pc \in {"arg", "again", "body"}
    BY <2>1 DEF Resume, IsLambda
  <2>4. Top.op = "if" => /\ Top.pc = "cond" => pc = "test"
                         /\ Top.pc = "branch" => pc = "ret"
                         /\ Top.pc \in {"cond", "branch"}
    BY <2>1 DEF Resume
  <2>5. Top.op = "try" => pc # "ret" /\ Top.pc # "ret"
    BY <2>1 DEF Resume
  <2>6. Resumed = Goto(pc)
    BY <1>3 DEF Resumed
  <2>7. ~Body(Top)
    BY <2>3 DEF Body
  <2> HIDE DEF pc
  <2>8. Moved(Goto(pc)) /\ Goto(pc)[Depth] = [Top EXCEPT !.pc = pc]
    BY <1>1, <2>2, <2>7, MovedGoto
  <2>9. [Top EXCEPT !.pc = pc].op = Top.op /\ [Top EXCEPT !.pc = pc].pc = pc
    BY <1>1 DEF FrameType
  <2>10. HoldsCtx([Top EXCEPT !.pc = pc]) = HoldsCtx(Top)
    BY <2>3, <2>4, <2>5, <2>9 DEF HoldsCtx, IsLambda
  <2>11. QED BY <2>6, <2>8, <2>10
<1>4. QED BY <1>2, <1>3

-----------------------------------------------------------------------------
(***************************************************************************)
(* The actions, grouped by what they do to the top frame.                  *)
(***************************************************************************)
LEMMA BalancedRunning ==
  ASSUME IInv, Balanced, ~threw, Running
  PROVE  /\ Exact(frames, callStack, Len(ctxs), yield)
         /\ callStack \in Nat /\ Len(ctxs) \in Nat /\ yield \in Nat \union {NoYield}
         /\ Depth \in Nat /\ Depth > 0 /\ Depth = Len(frames)
         /\ Top = frames[Depth] /\ Top \in FrameType
BY FramesType DEF Balanced, Alive, Running, IInv, TypeOK, Depth, Top

\* Exact is about its arguments alone.
LEMMA ExactPrime ==
  ASSUME Exact(frames', callStack', Len(ctxs'), yield')
  PROVE  Exact(frames, callStack, Len(ctxs), yield)'
BY DEF Exact, CallsExact, CtxsExact, CallsUpTo, CtxsUpTo, YieldsMeet, Permitted,
       InBody, Body, IsLambda, CallNeed, CtxNeed, HoldsCall, HoldsCtx, IsCall, Plainly

\* Only the top frame has moved.
LEMMA MoveBalanced ==
  ASSUME IInv, Balanced, ~threw, Running, Moved(frames'),
         callStack' = callStack, yield' = yield, status' = status,
         Len(ctxs') = Len(ctxs) + HoldsCtx(frames'[Depth]) - HoldsCtx(Top)
  PROVE  Balanced'
<1>1. Exact(frames', callStack, Len(ctxs'), yield)
  BY BalancedRunning, ExactMoved
<1>2. Depth' = Depth /\ Depth # 0
  BY BalancedRunning DEF Moved, Depth
<1>3. QED BY <1>1, <1>2, ExactPrime DEF Balanced, Running

\* A frame that is not a function keeps the yield for the function it is for.
LEMMA YieldPassesBy ==
  ASSUME IInv, Balanced, ~threw, Running, ~IsLambda(Top), Plainly, yield > 0
  PROVE  /\ yield \in 1..Depth - 1 /\ Body(frames[yield])
         /\ \A j \in yield + 1..Depth - 1 : ~IsLambda(frames[j])
<1>1. YieldsMeet(frames, yield) /\ Depth = Len(frames) /\ Depth \in Nat /\ Top = frames[Depth]
  BY BalancedRunning DEF Exact
<1>2. /\ yield \in 1..Depth /\ Body(frames[yield])
      /\ \A j \in yield + 1..Depth : ~IsLambda(frames[j])
  BY <1>1 DEF YieldsMeet
<1>3. yield # Depth
  BY <1>1, <1>2 DEF Body
<1>4. QED BY <1>1, <1>2, <1>3

\* The top frame returns; of those that do, only a loop leaves a context.
LEMMA ReturnBalanced ==
  ASSUME IInv, Balanced, ~threw, Running, Return,
         HoldsCtx(Top) = 0 \/ Top.op = "loop",
         yield' \in Nat \union {NoYield},
         Plainly /\ yield' > 0 =>
           /\ yield' \in 1..Depth - 1 /\ Body(frames[yield'])
           /\ \A j \in yield' + 1..Depth - 1 : ~IsLambda(frames[j])
  PROVE  Balanced'
<1>1. /\ Exact(frames, callStack, Len(ctxs), yield)
      /\ callStack \in Nat /\ Len(ctxs) \in Nat
      /\ Depth \in Nat /\ Depth > 0 /\ Depth = Len(frames) /\ Top = frames[Depth]
  BY BalancedRunning
<1>2. /\ frames' = Below /\ ctxs' = ctxs /\ threw' = threw
      /\ callStack' = callStack - HoldsCall(Top)
      /\ status' = IF Depth = 1 THEN "idle" ELSE "run"
  BY <1>1 DEF Return, HoldsCall
<1>3. Top.op # "deferred"
  BY DEF HoldsCtx
<1> DEFINE m == Len(ctxs) - HoldsCtx(Top)
<1>4. Exact(Below, callStack', m, yield')
  BY <1>1, <1>2, <1>3, ExactBelow
<1>5. Exact(Below, callStack', Len(ctxs), yield')
  <2>1. CASE HoldsCtx(Top) = 0
    BY <1>1, <1>4, <2>1
  <2>2. CASE Top.op = "loop"
    <3>1. "loop" \in Ops
      BY <1>1, <2>2 DEF Exact, Permitted
    <3>2. QED BY <1>4, <3>1 DEF Exact
  <2>3. QED BY <2>1, <2>2
<1>6. Len(Below) = Depth - 1
  BY <1>1, KeepsBelow DEF IInv
<1>7. Depth' = Depth - 1
  BY <1>2, <1>6 DEF Depth
<1>8. Exact(frames, callStack, Len(ctxs), yield)'
  BY <1>2, <1>5, ExactPrime
<1>9. QED BY <1>1, <1>2, <1>7, <1>8 DEF Balanced

LEMMA KeepYieldBalanced ==
  ASSUME IInv, Balanced, ~threw, Running, Return, UNCHANGED yield,
         ~IsLambda(Top), HoldsCtx(Top) = 0 \/ Top.op = "loop"
  PROVE  Balanced'
BY ReturnBalanced, YieldPassesBy, BalancedRunning

\* A new frame on top, entered with the present stack sizes.
LEMMA PushBalanced ==
  ASSUME NEW stack \in Seq(FrameType), NEW f \in FrameType, NEW n \in Nat,
         callStack \in Nat, yield \in Nat \union {NoYield},
         Exact(stack, callStack, n, yield), f.calls = callStack,
         f.op \in Ops \union {"deferred"}, f.op = "head" => Len(stack) < MaxFrames,
         IF Len(stack) = 0 /\ f.op = "deferred" THEN f.ctx = n - 1 ELSE f.ctx = n,
         Plainly => /\ IsLambda(f) => ~(yield > 0)
                    /\ f.op = "yield" => InBody(stack, Len(stack)),
         frames' = Append(stack, f), callStack' = CallNeed(f),
         Len(ctxs') = CtxNeed(f), yield' = yield, status' = "run"
  PROVE  Balanced'
<1>1. Exact(Append(stack, f), CallNeed(f), CtxNeed(f), yield)
  BY ExactPush
<1>2. Exact(frames, callStack, Len(ctxs), yield)'
  BY <1>1, ExactPrime
<1>3. Depth' # 0
  BY AppendProperties DEF Depth
<1>4. QED BY <1>2, <1>3 DEF Balanced

\* YieldTarget is the innermost body.
LEMMA TargetIsInnermost ==
  ASSUME NEW stack \in Seq(FrameType), NEW t, t = YieldTarget(stack)
  PROVE  /\ t \in 0..Len(stack)
         /\ t > 0 => Body(stack[t])
         /\ \A j \in 1..Len(stack) : Body(stack[j]) => j <= t
<1> DEFINE bodies == {i \in DOMAIN stack : /\ IsLambda(stack[i])
                                           /\ stack[i].pc \in {"pop", "reset"}}
           inner == CHOOSE i \in bodies : \A j \in bodies : j <= i
           len == Len(stack)
<1>1. len \in Nat /\ bodies \subseteq 1..len
  OBVIOUS
<1>2. t = IF bodies = {} THEN 0 ELSE inner
  BY DEF YieldTarget
<1>3. \A i \in 1..len : i \in bodies <=> Body(stack[i])
  BY DEF Body
<1> HIDE DEF bodies, len
<1>4. ASSUME bodies # {} PROVE inner \in bodies /\ \A j \in bodies : j <= inner
  <2>1. \E i \in bodies : \A j \in bodies : j <= i
    BY <1>1, <1>4, InnermostExists
  <2>2. QED BY <2>1, Zenon
<1> HIDE DEF inner
<1>5. CASE bodies = {}
  BY <1>1, <1>2, <1>3, <1>5 DEF len
<1>6. CASE bodies # {}
  <2>1. t \in bodies /\ \A j \in bodies : j <= t
    BY <1>2, <1>4, <1>6
  <2>2. t \in 1..len
    BY <1>1, <2>1
  <2>3. QED BY <1>1, <1>3, <2>1, <2>2 DEF len
<1>7. QED BY <1>5, <1>6

\* A `<-' that is not run in an argument is run in a body, if in any function.
LEMMA YieldInBody ==
  ASSUME NEW stack \in Seq(FrameType), ~InArgument(stack)
  PROVE  InBody(stack, Len(stack))
<1> DEFINE t == YieldTarget(stack)
<1>1. t \in 0..Len(stack) /\ (t > 0 => Body(stack[t])) /\ Len(stack) \in Nat
  BY TargetIsInnermost
<1>2. \A j \in 1..Len(stack) : IsLambda(stack[j]) => ~(j > t)
  BY DEF InArgument
<1> HIDE DEF t
<1>3. ASSUME NEW j \in 1..Len(stack), IsLambda(stack[j])
      PROVE  \E k \in j..Len(stack) : Body(stack[k])
  BY <1>1, <1>2, <1>3
<1>4. QED BY <1>3 DEF InBody

\* What a `<-' executed by the top frame is to end.
LEMMA TargetFacts ==
  ASSUME IInv, Balanced, ~threw, Running, Top.op = "yield"
  PROVE  /\ YieldTarget(frames) \in Nat
         /\ Plainly /\ YieldTarget(frames) > 0 =>
              /\ YieldTarget(frames) \in 1..Depth - 1 /\ Body(frames[YieldTarget(frames)])
              /\ \A j \in YieldTarget(frames) + 1..Depth - 1 : ~IsLambda(frames[j])
<1>1. /\ Depth \in Nat /\ Depth > 0 /\ Depth = Len(frames) /\ frames \in Seq(FrameType)
      /\ Top = frames[Depth] /\ Exact(frames, callStack, Len(ctxs), yield)
  BY BalancedRunning DEF IInv, TypeOK
<1> DEFINE t == YieldTarget(frames)
<1>2. /\ t \in 0..Depth
      /\ t > 0 => Body(frames[t])
      /\ \A j \in 1..Depth : Body(frames[j]) => j <= t
  BY <1>1, TargetIsInnermost
<1> HIDE DEF t
<1>3. t # Depth
  BY <1>1, <1>2 DEF Body, IsLambda
<1>4. ASSUME Plainly, NEW j \in t + 1..Depth - 1, IsLambda(frames[j])
      PROVE  FALSE
  <2>1. InBody(frames, Depth - 1)
    BY <1>1, <1>4 DEF Exact, YieldsMeet
  <2>2. j \in 1..Depth - 1
    BY <1>1, <1>2, <1>4
  <2>3. PICK k \in j..Depth - 1 : Body(frames[k])
    BY <1>4, <2>1, <2>2 DEF InBody
  <2>4. k <= t
    BY <1>1, <1>2, <2>2, <2>3
  <2>5. QED BY <1>1, <1>2, <1>4, <2>2, <2>3, <2>4
<1>5. t \in Nat /\ t <= Depth - 1 /\ (t > 0 => t \in 1..Depth - 1 /\ Body(frames[t]))
  BY <1>1, <1>2, <1>3
<1>6. QED BY <1>4, <1>5 DEF t

LEMMA EnterBalanced ==
  ASSUME IInv, Active, NEW stack \in Seq(FrameType), NEW env \in Nat,
         NEW op \in Ops \intersect Builtins,
         Exact(stack, callStack, Len(ctxs), yield),
         Plainly => ~(yield > 0),
         Plainly /\ op = "yield" => ~InArgument(stack),
         Enter(stack, env, op)
  PROVE  Balanced'
<1> DEFINE f == Frame(op, EntryPc[op], env, << >>, callStack, Len(ctxs))
<1>1. /\ callStack \in Nat /\ ctxs \in Seq(Seq(Deferred)) /\ Len(ctxs) \in Nat
      /\ yield \in Nat \union {NoYield} /\ op \in Builtins
  BY CtxsType DEF IInv, TypeOK
<1>2. f \in FrameType
  <2>1. << >> \in Seq(Deferred) /\ EntryPc[op] \in PCs
    BY <1>1, EmptySeq, EntryType
  <2>2. QED BY <1>1, <2>1 DEF Frame, FrameType
<1>3. /\ f.op = op /\ f.pc = EntryPc[op] /\ f.calls = callStack /\ f.ctx = Len(ctxs)
  BY DEF Frame
<1>4. CallNeed(f) = callStack + 1
  BY <1>1, <1>3 DEF CallNeed, HoldsCall, IsCall
<1>5. HoldsCtx(f) = IF op \in PushAtEntry THEN 1 ELSE 0
  BY <1>1, <1>3 DEF Builtins, PushAtEntry, EntryPc, HoldsCtx, IsLambda
<1>6. Len(ctxs') = Len(ctxs) + HoldsCtx(f)
  <2>1. << >> \in Seq(Deferred)
    BY EmptySeq
  <2>2. Len(Append(ctxs, << >>)) = Len(ctxs) + 1
    BY <1>1, <2>1, AppendProperties
  <2> HIDE DEF f
  <2>3. QED BY <1>1, <1>5, <2>2 DEF Enter
<1>7. /\ frames' = Append(stack, f) /\ callStack' = CallNeed(f)
      /\ yield' = yield /\ status' = "run"
  BY <1>4 DEF Enter
<1>8. op # "deferred" /\ op # "head"
  BY <1>1 DEF Builtins
<1>9. Plainly /\ f.op = "yield" => InBody(stack, Len(stack))
  BY <1>3, YieldInBody
<1> HIDE DEF f
<1>10. Len(ctxs') = CtxNeed(f)
  BY <1>3, <1>6 DEF CtxNeed
<1>11. QED BY <1>1, <1>2, <1>3, <1>7, <1>8, <1>9, <1>10, PushBalanced

LEMMA CallBalanced ==
  ASSUME IInv, Active, ~threw, NEW stack \in Seq(FrameType), NEW env \in Nat,
         Exact(stack, callStack, Len(ctxs), yield),
         Plainly => ~(yield > 0), CallFunction(stack, env)
  PROVE  Balanced'
<1>1. CASE callStack >= MaxCallDepth
  BY <1>1 DEF CallFunction, Raise, Balanced, Alive
<1>2. CASE ~(callStack >= MaxCallDepth)
  <2>1. PICK op \in Ops \intersect Builtins :
          /\ op = "yield" /\ InArgument(stack) => "yield_in_arg" \in Habits
          /\ Enter(stack, env, op)
    BY <1>2 DEF CallFunction
  <2>2. Plainly /\ op = "yield" => ~InArgument(stack)
    BY <2>1 DEF Plainly
  <2>3. QED BY <2>1, <2>2, EnterBalanced
<1>3. QED BY <1>1, <1>2

LEMMA NestBalanced ==
  ASSUME IInv, Active, NEW stack \in Seq(FrameType), NEW env \in Nat,
         NEW op \in {"walk", "head"}, op \in Ops, NEW pc \in PCs,
         op = "head" => Len(stack) < MaxFrames,
         Exact(stack, callStack, Len(ctxs), yield),
         Nest(stack, op, pc, env)
  PROVE  Balanced'
<1> DEFINE f == Frame(op, pc, env, << >>, callStack, Len(ctxs))
<1>1. /\ callStack \in Nat /\ ctxs \in Seq(Seq(Deferred)) /\ Len(ctxs) \in Nat
      /\ yield \in Nat \union {NoYield}
  BY CtxsType DEF IInv, TypeOK
<1>2. f \in FrameType
  <2>1. << >> \in Seq(Deferred)
    BY EmptySeq
  <2>2. QED BY <1>1, <2>1 DEF Frame, FrameType
<1>3. f.op = op /\ f.calls = callStack /\ f.ctx = Len(ctxs)
  BY DEF Frame
<1>4. CallNeed(f) = callStack
  BY <1>1, <1>3 DEF CallNeed, HoldsCall, IsCall, Builtins
<1>5. CtxNeed(f) = Len(ctxs)
  BY <1>1, <1>3 DEF CtxNeed, HoldsCtx, IsLambda
<1>6. ~IsLambda(f)
  BY <1>3 DEF IsLambda
<1>7. /\ frames' = Append(stack, f) /\ callStack' = CallNeed(f) /\ ctxs' = ctxs
      /\ yield' = yield /\ status' = "run"
  BY <1>4 DEF Nest
<1>8. /\ f.op # "yield" /\ f.op # "deferred"
      /\ f.op = "head" => Len(stack) < MaxFrames
  BY <1>3
<1> HIDE DEF f
<1>9. QED BY <1>1, <1>2, <1>3, <1>5, <1>6, <1>7, <1>8, PushBalanced

LEMMA HandleListBalanced ==
  ASSUME IInv, Active, ~threw, NEW stack \in Seq(FrameType), Len(stack) <= Depth,
         NEW env \in Nat, NEW walks,
         Exact(stack, callStack, Len(ctxs), yield),
         Plainly => ~(yield > 0), HandleList(stack, env, walks)
  PROVE  Balanced'
<1>1. "item" \in PCs /\ "op" \in PCs /\ Depth \in Nat /\ MaxFrames \in Nat
  BY FramesType, BoundAssumption DEF PCs, IInv
<1>2. CASE "walk" \in Ops /\ Nest(stack, "walk", "item", env)
  BY <1>1, <1>2, NestBalanced
<1>3. CASE "head" \in Ops /\ Depth + 1 < MaxFrames /\ Nest(stack, "head", "op", env)
  BY <1>1, <1>3, NestBalanced
<1>4. CASE HaltWithError(stack, IF stack = << >> THEN "idle" ELSE "run")
  <2>1. CASE ~Repl
    BY <1>4, <2>1 DEF HaltWithError, Balanced, Alive
  <2>2. CASE Repl
    <3>1. /\ frames' = stack /\ status' = (IF stack = << >> THEN "idle" ELSE "run")
          /\ UNCHANGED <<callStack, ctxs, yield>>
      BY <1>4, <2>2 DEF HaltWithError
    <3>2. Exact(frames, callStack, Len(ctxs), yield)'
      BY <3>1, ExactPrime
    <3>3. stack = << >> <=> Len(stack) = 0
      BY EmptySeq
    <3>4. QED BY <3>1, <3>2, <3>3 DEF Balanced, Depth
  <2>3. QED BY <2>1, <2>2
<1>5. CASE Raise(stack, "exception")
  BY <1>5 DEF Raise, Balanced, Alive
<1>6. CASE CallFunction(stack, env)
  BY <1>6, CallBalanced
<1>7. QED BY <1>2, <1>3, <1>4, <1>5, <1>6 DEF HandleList

\* pop_ctx starts above a frame that has just given its context up to it, or,
\* in the destructor, above none.
LEMMA PopCtxBalanced ==
  ASSUME IInv, Active, NEW stack \in Seq(FrameType), NEW env \in Nat, NEW n \in Nat,
         Exact(stack, callStack, n, yield),
         IF Len(stack) = 0 THEN n = Len(ctxs) ELSE n = Len(ctxs) - 1,
         PopCtx(stack, env)
  PROVE  Balanced'
<1> DEFINE f == Frame("deferred", "next", env, ctxs[Len(ctxs)], callStack, Len(ctxs) - 1)
<1>1. /\ callStack \in Nat /\ ctxs \in Seq(Seq(Deferred)) /\ ctxs # << >>
      /\ Len(ctxs) \in Nat /\ Len(ctxs) >= 1 /\ ctxs[Len(ctxs)] \in Seq(Deferred)
      /\ yield \in Nat \union {NoYield}
  BY CtxsType DEF IInv, TypeOK
<1>2. f \in FrameType
  BY <1>1 DEF Frame, FrameType, PCs
<1>3. f.op = "deferred" /\ f.calls = callStack /\ f.ctx = Len(ctxs) - 1
  BY DEF Frame
<1>4. CallNeed(f) = callStack
  BY <1>1, <1>3, SMTT(30) DEF CallNeed, HoldsCall, IsCall, Builtins
<1>5. CtxNeed(f) = Len(ctxs)
  BY <1>1, <1>3 DEF CtxNeed, HoldsCtx
<1>6. ~IsLambda(f)
  BY <1>3 DEF IsLambda
<1>7. /\ frames' = Append(stack, f) /\ callStack' = CallNeed(f) /\ ctxs' = ctxs
      /\ yield' = yield /\ status' = "run"
  BY <1>1, <1>4 DEF PopCtx
<1> HIDE DEF f
<1>8. IF Len(stack) = 0 /\ f.op = "deferred" THEN f.ctx = n - 1 ELSE f.ctx = n
  BY <1>1, <1>3
<1>9. QED BY <1>1, <1>2, <1>3, <1>5, <1>6, <1>7, <1>8, PushBalanced

LEMMA PopOwnBalanced ==
  ASSUME IInv, Balanced, ~threw, Running, NEW pc \in PCs, NEW env \in Nat,
         HoldsCtx(Top) = 1, HoldsCtx([Top EXCEPT !.pc = pc]) = 0,
         Body(Top) => pc \in {"pop", "reset"}, PopCtx(Goto(pc), env)
  PROVE  Balanced'
<1>1. /\ Exact(frames, callStack, Len(ctxs), yield) /\ Active
      /\ Len(ctxs) \in Nat /\ Len(ctxs) >= 1 /\ Depth \in Nat /\ Depth > 0
      /\ yield \in Nat \union {NoYield}
  BY BalancedRunning, RunningActive, CtxsType
<1> DEFINE stack == Goto(pc)
           n == Len(ctxs) - 1
<1>2. Moved(stack) /\ stack[Depth] = [Top EXCEPT !.pc = pc]
  BY <1>1, MovedGoto
<1>3. n = Len(ctxs) + HoldsCtx(stack[Depth]) - HoldsCtx(Top) /\ n \in Nat
  BY <1>1, <1>2
<1> HIDE DEF stack, n
<1>4. Exact(stack, callStack, n, yield)
  BY <1>1, <1>2, <1>3, ExactMoved
<1>5. stack \in Seq(FrameType) /\ Len(stack) # 0
  BY <1>2 DEF Moved
<1>6. PopCtx(stack, env) /\ n = Len(ctxs) - 1
  BY DEF stack, n
<1>7. QED BY <1>1, <1>3, <1>4, <1>5, <1>6, PopCtxBalanced

LEMMA PopCtxEndBalanced ==
  ASSUME IInv, Balanced, ~threw, PopCtxEnd
  PROVE  Balanced'
<1>1. /\ Running /\ Top.op = "deferred" /\ frames' = Below
      /\ ctxs' = SubSeq(ctxs, 1, Len(ctxs) - 1)
      /\ status' = IF Depth = 1 THEN "done" ELSE "run"
      /\ callStack' = callStack /\ yield' = yield
  BY DEF PopCtxEnd, At
<1>2. /\ Exact(frames, callStack, Len(ctxs), yield) /\ Active
      /\ callStack \in Nat /\ Len(ctxs) \in Nat /\ Len(ctxs) >= 1
      /\ Depth \in Nat /\ Depth > 0 /\ yield \in Nat \union {NoYield}
      /\ ctxs \in Seq(Seq(Deferred))
  BY <1>1, BalancedRunning, RunningActive, CtxsType
<1>3. CASE Depth = 1
  BY <1>1, <1>3 DEF Balanced, Alive
<1>4. CASE Depth # 1
  <2> DEFINE n == Len(ctxs) - 1
  <2>1. HoldsCtx(Top) = 1 /\ HoldsCall(Top) = 0 /\ ~IsLambda(Top)
    BY <1>1 DEF HoldsCtx, HoldsCall, IsCall, IsLambda, Builtins
  <2>2. n \in Nat /\ n = Len(ctxs) - HoldsCtx(Top)
    BY <1>2, <2>1
  <2>3. \A i \in 1..n : ctxs[i] \in Seq(Deferred)
    BY <1>2
  <2> HIDE DEF n
  <2>4. Len(SubSeq(ctxs, 1, n)) = n
    BY <2>2, <2>3, SubSeqProperties
  <2>5. Len(ctxs') = n
    BY <1>1, <2>4 DEF n
  <2>6. Plainly /\ yield > 0 => /\ yield \in 1..Depth - 1 /\ Body(frames[yield])
                                /\ \A j \in yield + 1..Depth - 1 : ~IsLambda(frames[j])
    BY <1>1, <2>1, YieldPassesBy
  <2>7. Exact(Below, callStack - HoldsCall(Top), n, yield)
    BY <1>2, <1>4, <2>2, <2>6, ExactBelow
  <2>8. callStack - HoldsCall(Top) = callStack'
    BY <1>1, <1>2, <2>1
  <2>9. Exact(frames, callStack, Len(ctxs), yield)'
    BY <1>1, <2>5, <2>7, <2>8, ExactPrime
  <2>10. Depth' # 0
    BY <1>1, <1>2, <1>4, KeepsBelow DEF IInv, Depth
  <2>11. QED BY <1>1, <1>4, <2>9, <2>10 DEF Balanced
<1>5. QED BY <1>3, <1>4

\* defer leaves every frame where it is.
LEMMA DeferNextBalanced ==
  ASSUME IInv, Balanced, ~threw, DeferNext
  PROVE  Balanced'
<1>1. /\ Running /\ Top.op = "defer"
      /\ UNCHANGED <<callStack, yield, status, threw>>
  BY DEF DeferNext, At
<1>2. /\ Active /\ Depth \in Nat /\ Depth > 0 /\ Depth = Len(frames)
      /\ Top = frames[Depth] /\ frames \in Seq(FrameType)
      /\ DOMAIN frames = 1..Depth /\ \A i \in 1..Depth : frames[i] \in FrameType
  BY <1>1, BalancedRunning, RunningActive, FramesType DEF IInv, TypeOK
<1>3. PICK owner, id : /\ id = deferCount + 1
                       /\ frames' = [i \in DOMAIN frames |->
                            IF i = owner THEN [frames[i] EXCEPT !.owes = @ \union {id}]
                                         ELSE frames[i]]
  BY DEF DeferNext
<1>4. id \in DeferId
  BY <1>3, ConstantTypes DEF DeferNext, IInv, TypeOK, DeferId
<1>5. ASSUME NEW i \in 1..Depth
      PROVE  frames'[i] \in FrameType /\ SameSpot(frames'[i], frames[i])
  <2>1. CASE i = owner
    <3> DEFINE f == [frames[i] EXCEPT !.owes = frames[i].owes \union {id}]
    <3>1. frames'[i] = f
      BY <1>2, <1>3, <2>1
    <3>2. frames[i] \in FrameType
      BY <1>2
    <3>3. /\ f \in FrameType /\ f.op = frames[i].op /\ f.pc = frames[i].pc
          /\ f.calls = frames[i].calls /\ f.ctx = frames[i].ctx
      BY <1>4, <3>2 DEF FrameType
    <3> HIDE DEF f
    <3>4. QED BY <3>1, <3>3 DEF SameSpot
  <2>2. CASE i # owner
    BY <1>2, <1>3, <2>2 DEF SameSpot
  <2>3. QED BY <2>1, <2>2
<1>6. frames' \in Seq(FrameType) /\ Len(frames') = Depth
  <2>1. frames' = [i \in 1..Depth |-> frames'[i]]
    BY <1>2, <1>3
  <2>2. QED BY <1>2, <1>5, <2>1, SeqDef
<1>7. SameSpot(frames'[Depth], Top) /\ HoldsCtx(frames'[Depth]) = HoldsCtx(Top)
  <2>1. SameSpot(frames'[Depth], Top)
    BY <1>2, <1>5
  <2>2. QED BY <2>1 DEF SameSpot, HoldsCtx, IsLambda
<1>8. Moved(frames')
  BY <1>2, <1>5, <1>6, <1>7 DEF Moved, SameSpot, Body, IsLambda
<1>9. Len(ctxs') = Len(ctxs) /\ Len(ctxs) \in Nat
  <2>1. /\ ctxs \in Seq(Seq(Deferred)) /\ ctxs # << >> /\ Len(ctxs) \in 1..Len(ctxs)
        /\ Len(ctxs) \in Nat
    BY <1>2, CtxsType
  <2>2. PICK item : ctxs' = [ctxs EXCEPT ![Len(ctxs)] = Append(@, item)]
    BY <2>1 DEF DeferNext
  <2>3. QED BY <2>1, <2>2
<1>10. QED BY <1>1, <1>7, <1>8, <1>9, HoldsType, MoveBalanced

\* Once an exception has been raised it stays on record.
LEMMA ThrewStays == ASSUME [Next]_vars, threw PROVE threw'
BY DEF Next, Machine, Ended, vars, ProcessYielding, ProcessAtom, ProcessList, ComputeOperator,
  CallOperator, PrimReturn, PrimThrow, LambdaThrow, LambdaEnter, LambdaPop, LambdaReturn,
  LoopTest, LoopBodyDone, IfTest, IfReturn, TryPop, TryReturn, ThrowThrow, DeferNext,
  DeferThrow, DeferReturn, YieldReturn, ExitNow, WalkNext, WalkEnd, PopCtxEnd, Catch,
  DeferredFailed, Unwind, InstructionFailed, Instruction, Finish, HandleList, CallFunction,
  Raise, HaltWithError, Enter, Nest, PopCtx, Return, Step

\* A frame's pc changes while it keeps its context as it is.
LEMMA StepBalanced ==
  ASSUME IInv, Balanced, ~threw, Running, NEW pc \in PCs, ~IsLambda(Top),
         HoldsCtx([Top EXCEPT !.pc = pc]) = HoldsCtx(Top), Step(pc)
  PROVE  Balanced'
<1>1. Depth > 0 /\ ~Body(Top)
  BY RunningActive DEF Body
<1>2. Moved(Goto(pc)) /\ Goto(pc)[Depth] = [Top EXCEPT !.pc = pc]
  BY <1>1, MovedGoto
<1>3. Len(ctxs) \in Nat
  BY BalancedRunning
<1>4. QED BY <1>2, <1>3, HoldsType, MoveBalanced DEF Step

\* What a step that is not one of those above may do.
LEMMA Gone ==
  ASSUME threw' \/ status' \in {"done", "exit"}
  PROVE  Balanced'
BY DEF Balanced, Alive

LEMMA InitBalanced == ASSUME Init PROVE Balanced
<1>1. Len(<< >>) = 0 /\ Len(<< << >> >>) = 1
  OBVIOUS
<1>2. QED BY <1>1 DEF Init, Balanced, Exact, Permitted, CallsExact, CtxsExact, CallsUpTo,
               CtxsUpTo, YieldsMeet, Depth, NoYield

LEMMA NextBalanced == ASSUME IInv, Balanced, [Next]_vars PROVE Balanced'
<1>1. CASE threw
  BY <1>1, ThrewStays, Gone
<1>2. CASE ~threw
  <2> USE <1>2
  <2>1. CASE ProcessYielding \/ ProcessAtom
    <3>1. /\ Evaluating /\ Running /\ frames' = Resumed
          /\ UNCHANGED <<callStack, ctxs, yield, status>>
      BY <2>1 DEF ProcessYielding, ProcessAtom, Evaluating
    <3>2. Moved(frames') /\ HoldsCtx(frames'[Depth]) = HoldsCtx(Top)
      BY <3>1, MovedResumed
    <3>3. Len(ctxs) \in Nat
      BY <3>1, BalancedRunning
    <3>4. QED BY <3>1, <3>2, <3>3, HoldsType, MoveBalanced
  <2>2. ASSUME Running, Evaluating, Plainly => ~(yield > 0),
               HandleList(Resumed, EvalEnv, WalksData(Top)) \/ HandleList(Resumed, EvalEnv, TRUE)
        PROVE  Balanced'
    <3>1. Moved(Resumed) /\ HoldsCtx(Resumed[Depth]) = HoldsCtx(Top)
      BY <2>2, MovedResumed
    <3>2. /\ Exact(frames, callStack, Len(ctxs), yield) /\ Len(ctxs) \in Nat
          /\ yield \in Nat \union {NoYield} /\ Active /\ Depth \in Nat
      BY <2>2, BalancedRunning, RunningActive
    <3>3. Len(ctxs) = Len(ctxs) + HoldsCtx(Resumed[Depth]) - HoldsCtx(Top)
      BY <3>1, <3>2, HoldsType
    <3>4. Exact(Resumed, callStack, Len(ctxs), yield)
      BY <3>1, <3>2, <3>3, ExactMoved
    <3>5. Resumed \in Seq(FrameType) /\ Len(Resumed) <= Depth
      BY <3>1, <3>2 DEF Moved
    <3>6. EvalEnv \in Nat
      BY <2>2, RunsNowType
    <3>7. QED BY <2>2, <3>2, <3>4, <3>5, <3>6, HandleListBalanced
  <2>3. CASE ProcessList
    BY <2>2, <2>3 DEF ProcessList, Evaluating, NoYield
  <2>4. CASE ComputeOperator
    <3>1. Running /\ Top.op = "head" /\ Top.pc = "op" /\ HandleList(Resumed, EvalEnv, TRUE)
      BY <2>4 DEF ComputeOperator, At
    <3>2. Evaluating
      BY <3>1 DEF Evaluating, Resume
    <3>3. "head" \in Ops
      BY <3>1, BalancedRunning DEF Exact, Permitted
    <3>4. QED BY <2>2, <3>1, <3>2, <3>3 DEF Plainly
  <2>5. CASE CallOperator
    <3>1. /\ Running /\ Top.op = "head"
          /\ CallFunction(Below, Top.env) \/ Raise(Below, "exception")
      BY <2>5 DEF CallOperator, At
    <3>2. /\ Exact(frames, callStack, Len(ctxs), yield) /\ Len(ctxs) \in Nat
          /\ callStack \in Nat /\ yield \in Nat \union {NoYield} /\ Depth \in Nat /\ Depth > 0
          /\ Depth = Len(frames) /\ Top = frames[Depth] /\ Top.env \in Nat /\ Active
      BY <3>1, BalancedRunning, RunningActive, RunningFacts
    <3>3. ~Plainly
      BY <3>1, <3>2 DEF Exact, Permitted, Plainly
    <3>4. HoldsCtx(Top) = 0 /\ HoldsCall(Top) = 0
      BY <3>1 DEF HoldsCtx, HoldsCall, IsCall, IsLambda, Builtins
    <3>5. Len(ctxs) = Len(ctxs) - HoldsCtx(Top) /\ callStack - HoldsCall(Top) = callStack
      BY <3>2, <3>4
    <3>6. Exact(Below, callStack - HoldsCall(Top), Len(ctxs), yield)
      BY <3>1, <3>2, <3>3, <3>5, ExactBelow
    <3>7. Below \in Seq(FrameType)
      BY <3>2, KeepsBelow DEF IInv, Keeps
    <3>8. CASE CallFunction(Below, Top.env)
      BY <3>2, <3>3, <3>5, <3>6, <3>7, <3>8, CallBalanced
    <3>9. CASE Raise(Below, "exception")
      BY <3>9, Gone DEF Raise
    <3>10. QED BY <3>1, <3>8, <3>9
  <2>6. ASSUME NEW stack, NEW e, Raise(stack, e)
        PROVE  Balanced'
    BY <2>6, Gone DEF Raise
  <2>7. CASE PrimThrow \/ LambdaThrow \/ ThrowThrow \/ DeferThrow
    BY <2>6, <2>7 DEF PrimThrow, LambdaThrow, ThrowThrow, DeferThrow
  <2>8. ASSUME Running, Return, UNCHANGED yield,
               Top.op \in {"prim", "loop", "if", "try", "defer", "walk"},
               Top.op \in {"if", "try"} => Top.pc = "ret"
        PROVE  Balanced'
    <3>1. ~IsLambda(Top) /\ (HoldsCtx(Top) = 0 \/ Top.op = "loop")
      BY <2>8 DEF IsLambda, HoldsCtx
    <3>2. QED BY <2>8, <3>1, KeepYieldBalanced
  <2>9. CASE PrimReturn \/ IfReturn \/ TryReturn \/ DeferReturn \/ WalkEnd
    BY <2>8, <2>9 DEF PrimReturn, IfReturn, TryReturn, DeferReturn, WalkEnd, At
  <2>10. ASSUME Running, Top.op \in {"loop", "walk"}, NEW pc \in PCs, Step(pc)
         PROVE  Balanced'
    <3>1. Depth > 0 /\ ~IsLambda(Top)
      BY <2>10, RunningActive DEF IsLambda
    <3>2. HoldsCtx([Top EXCEPT !.pc = pc]) = HoldsCtx(Top)
      BY <2>10, <3>1, NewPc DEF HoldsCtx, IsLambda
    <3>3. QED BY <2>10, <3>1, <3>2, StepBalanced
  <2>11. {"body", "post", "item", "ret", "reset", "branch", "recover"} \subseteq PCs
    BY DEF PCs
  <2>12. CASE LoopTest \/ LoopBodyDone \/ WalkNext
    BY <2>6, <2>8, <2>10, <2>11, <2>12 DEF LoopTest, LoopBodyDone, WalkNext, At
  <2>13. CASE LambdaEnter
    <3>1. /\ Running /\ IsLambda(Top) /\ Top.pc = "arg" /\ frames' = Goto("body")
          /\ ctxs' = Append(ctxs, << >>) /\ Depth > 0
          /\ UNCHANGED <<callStack, yield, status>>
      BY <2>13, RunningActive DEF LambdaEnter, At, IsLambda
    <3>2. Moved(frames') /\ frames'[Depth] = [Top EXCEPT !.pc = "body"]
      <4>1. ~Body(Top) /\ "body" \in PCs
        BY <3>1, <2>11 DEF Body
      <4>2. QED BY <3>1, <4>1, MovedGoto
    <3>3. HoldsCtx(Top) = 0 /\ HoldsCtx(frames'[Depth]) = 1
      <4>1. [Top EXCEPT !.pc = "body"].op = Top.op /\ [Top EXCEPT !.pc = "body"].pc = "body"
        BY <3>1, NewPc
      <4>2. QED BY <3>1, <3>2, <4>1 DEF HoldsCtx, IsLambda
    <3>4. Len(ctxs') = Len(ctxs) + 1 /\ Len(ctxs) \in Nat
      <4>1. << >> \in Seq(Deferred) /\ ctxs \in Seq(Seq(Deferred))
        BY EmptySeq DEF IInv, TypeOK
      <4>2. QED BY <3>1, <4>1, AppendProperties
    <3>5. QED BY <3>1, <3>2, <3>3, <3>4, MoveBalanced
  <2>14. CASE LambdaPop
    <3>1. /\ Running /\ IsLambda(Top) /\ Top.pc = "pop" /\ Depth \in Nat /\ Depth > 0
          /\ PopCtx(Goto("reset"), Depth)
      BY <2>14, BalancedRunning DEF LambdaPop, At, IsLambda
    <3>2. HoldsCtx(Top) = 1 /\ HoldsCtx([Top EXCEPT !.pc = "reset"]) = 0
      BY <3>1, NewPc DEF HoldsCtx, IsLambda
    <3>3. QED BY <2>11, <3>1, <3>2, PopOwnBalanced
  <2>15. CASE LambdaReturn
    <3>1. Running /\ Return /\ yield' = NoYield /\ HoldsCtx(Top) = 0
      BY <2>15 DEF LambdaReturn, At, HoldsCtx, IsLambda
    <3>2. QED BY <3>1, ReturnBalanced DEF NoYield
  <2>16. CASE IfTest
    <3>1. /\ Running /\ Top.op = "if" /\ Top.pc = "test" /\ Depth \in Nat /\ Depth > 0
          /\ \/ PopCtx(Goto("branch"), Depth)
             \/ PopCtx(Goto("ret"), Depth)
             \/ Raise(frames, "exception")
      BY <2>16, BalancedRunning DEF IfTest, At
    <3>2. ASSUME NEW pc \in {"branch", "ret"}, PopCtx(Goto(pc), Depth)
          PROVE  Balanced'
      <4>1. pc \in PCs /\ ~Body(Top)
        BY <2>11, <3>1 DEF Body, IsLambda
      <4>2. HoldsCtx(Top) = 1 /\ HoldsCtx([Top EXCEPT !.pc = pc]) = 0
        BY <3>1, <3>2, NewPc DEF HoldsCtx, IsLambda
      <4>3. QED BY <3>1, <3>2, <4>1, <4>2, PopOwnBalanced
    <3>3. QED BY <2>6, <3>1, <3>2
  <2>17. CASE TryPop
    <3>1. /\ Running /\ Top.op = "try" /\ Top.pc \in {"attempted", "recovered"}
          /\ Depth \in Nat /\ Depth > 0 /\ PopCtx(Goto("ret"), Depth)
      BY <2>17, BalancedRunning DEF TryPop, At
    <3>2. /\ HoldsCtx(Top) = 1 /\ HoldsCtx([Top EXCEPT !.pc = "ret"]) = 0 /\ ~Body(Top)
      BY <3>1, NewPc DEF HoldsCtx, IsLambda, Body
    <3>3. QED BY <2>11, <3>1, <3>2, PopOwnBalanced
  <2>18. CASE DeferNext
    BY <2>18, DeferNextBalanced
  <2>19. CASE YieldReturn
    <3>1. /\ Running /\ Top.op = "yield" /\ Return /\ yield' = YieldTarget(frames)
      BY <2>19 DEF YieldReturn, At
    <3>2. HoldsCtx(Top) = 0 /\ ~IsLambda(Top)
      BY <3>1 DEF HoldsCtx, IsLambda
    <3>3. /\ yield' \in Nat
          /\ Plainly /\ yield' > 0 =>
               /\ yield' \in 1..Depth - 1 /\ Body(frames[yield'])
               /\ \A j \in yield' + 1..Depth - 1 : ~IsLambda(frames[j])
      BY <3>1, TargetFacts
    <3>4. QED BY <3>1, <3>2, <3>3, ReturnBalanced
  <2>20. CASE ExitNow
    BY <2>20, Gone DEF ExitNow
  <2>21. CASE PopCtxEnd
    BY <2>21, PopCtxEndBalanced
  <2>22. CASE Catch \/ DeferredFailed \/ Unwind \/ InstructionFailed
    <3>1. Alive /\ status \in Exceptions
      BY <2>22 DEF Catch, DeferredFailed, Unwind, InstructionFailed, Alive, Exceptions
    <3>2. QED BY <3>1 DEF Balanced, Exceptions
  <2>23. CASE Instruction \/ Finish
    <3>1. /\ status = "idle" /\ Active /\ Depth = 0 /\ frames = << >>
          /\ Exact(<< >>, callStack, Len(ctxs), yield)
      <4>1. status = "idle" /\ Active
        BY <2>23 DEF Instruction, Finish, Active
      <4>2. Depth = 0 /\ Exact(frames, callStack, Len(ctxs), yield)
        BY <4>1 DEF Balanced, Alive
      <4>3. frames = << >>
        BY <4>2, EmptySeq DEF Depth, IInv, TypeOK
      <4>4. QED BY <4>1, <4>2, <4>3
    <3>2. << >> \in Seq(FrameType) /\ Len(<< >>) = 0 /\ Len(ctxs) \in Nat
      BY <3>1, EmptySeq, CtxsType
    <3>3. Plainly => ~(yield > 0)
      <4>1. Plainly /\ yield > 0 => yield \in 1..0
        BY <3>1, <3>2 DEF Exact, YieldsMeet
      <4>2. QED BY <4>1
    <3>4. CASE Instruction
      <4>1. HandleList(<< >>, 0, FALSE)
        BY <3>4 DEF Instruction
      <4>2. 0 \in Nat /\ Len(<< >>) <= Depth
        BY <3>1, <3>2
      <4>3. QED BY <3>1, <3>2, <3>3, <4>1, <4>2, HandleListBalanced
    <3>5. CASE Finish
      BY <3>1, <3>2, <3>5, PopCtxBalanced DEF Finish
    <3>6. QED BY <2>23, <3>4, <3>5
  <2>24. CASE UNCHANGED vars
    BY <2>24 DEF vars, Balanced, Alive, Depth, Exact, CallsExact, CtxsExact, CallsUpTo,
         CtxsUpTo, YieldsMeet, Permitted, InBody, Body, IsLambda, CallNeed, CtxNeed,
         HoldsCall, HoldsCtx, IsCall
  <2>25. QED
    BY <2>1, <2>3, <2>4, <2>5, <2>7, <2>9, <2>12, <2>13, <2>14, <2>15, <2>16, <2>17,
       <2>18, <2>19, <2>20, <2>21, <2>22, <2>23, <2>24 DEF Next, Machine, Ended
<1>3. QED BY <1>1, <1>2

-----------------------------------------------------------------------------
(***************************************************************************)
(* The theorems.                                                           *)
(***************************************************************************)
\* Until an exception leaves handle_list_cell (interpreter.cpp), the call stack and
\* the contexts are exactly those of the calls and lists that are being executed.
THEOREM BalanceHolds == Spec => [](IInv /\ Balanced)
<1>1. Init => IInv /\ Balanced
  BY InitInv, InitBalanced
<1>2. IInv /\ Balanced /\ [Next]_vars => IInv' /\ Balanced'
  BY NextInv, NextBalanced
<1>3. QED BY <1>1, <1>2, PTL DEF Spec

\* Whatever builtins a program uses, as long as nothing was thrown the call
\* stack is empty between two instructions: no early return of a builtin and
\* no yield leaves the entry of its call on call_stack_.
THEOREM CallStackEmpties == Spec => []CallsBalanced
<1>1. ASSUME IInv, Balanced, status = "idle", ~threw
      PROVE  callStack = 0
  <2>1. Alive
    BY <1>1 DEF Alive
  <2>2. Depth = 0 /\ CallsExact(frames, callStack)
    BY <1>1, <2>1 DEF Balanced, Exact
  <2>3. QED BY <2>2 DEF CallsExact, CallsUpTo, Depth
<1>2. IInv /\ Balanced => CallsBalanced
  BY <1>1 DEF CallsBalanced
<1>3. QED BY <1>2, BalanceHolds, PTL

\* Likewise, in programs without loops, only the interpreter's own context is
\* left on ctxs_ between two instructions.
THEOREM ContextStackEmpties == Spec => []ContextsBalanced
<1>1. ASSUME IInv, Balanced, status = "idle", ~threw, "loop" \notin Ops
      PROVE  Len(ctxs) = 1
  <2>1. Alive
    BY <1>1 DEF Alive
  <2>2. Depth = 0 /\ CtxsExact(frames, Len(ctxs))
    BY <1>1, <2>1 DEF Balanced, Exact
  <2>3. QED BY <2>2 DEF CtxsExact, CtxsUpTo, Depth
<1>2. IInv /\ Balanced => ContextsBalanced
  BY <1>1 DEF ContextsBalanced
<1>3. QED BY <1>2, BalanceHolds, PTL

\* Only `<-' and the return of a function change the yield value.
LEMMA YieldChanges ==
  ASSUME [Next]_vars
  PROVE  yield' = yield \/ LambdaReturn \/ YieldReturn
BY DEF Next, Machine, Ended, vars, ProcessYielding, ProcessAtom, ProcessList, ComputeOperator,
  CallOperator, PrimReturn, PrimThrow, LambdaThrow, LambdaEnter, LambdaPop,
  LoopTest, LoopBodyDone, IfTest, IfReturn, TryPop, TryReturn, ThrowThrow, DeferNext,
  DeferThrow, DeferReturn, ExitNow, WalkNext, WalkEnd, PopCtxEnd, Catch,
  DeferredFailed, Unwind, InstructionFailed, Instruction, Finish, HandleList, CallFunction,
  Raise, HaltWithError, Enter, Nest, PopCtx, Return, Step

LEMMA YieldStep ==
  ASSUME IInv, Balanced, Plainly, ~threw, [Next]_vars, yield > 0, yield' = NoYield
  PROVE  yield = Depth
<1>1. CASE yield' = yield
  BY <1>1 DEF NoYield
<1>2. CASE LambdaReturn
  <2>1. Running /\ IsLambda(Top)
    BY <1>2 DEF LambdaReturn, At, IsLambda
  <2>2. /\ YieldsMeet(frames, yield) /\ Depth \in Nat /\ Depth > 0 /\ Depth = Len(frames)
        /\ Top = frames[Depth]
    BY <2>1, BalancedRunning DEF Exact
  <2>3. yield \in 1..Depth /\ \A j \in yield + 1..Depth : ~IsLambda(frames[j])
    BY <2>2 DEF YieldsMeet
  <2>4. QED BY <2>1, <2>2, <2>3
<1>3. CASE YieldReturn
  <2>1. yield' = YieldTarget(frames) /\ Running /\ Top.op = "yield"
    BY <1>3 DEF YieldReturn, At
  <2>2. QED BY <2>1, TargetFacts DEF NoYield
<1>4. QED BY <1>1, <1>2, <1>3, YieldChanges

\* However deep the calls and whatever is thrown later: until something is,
\* the only return that resets a yield value is that of the function whose
\* body executed the `<-'.  Programs that run `<-' in an argument of a call,
\* or whose instructions compute their operator, are left out.
THEOREM YieldMeetsItsCall ==
  ASSUME "head" \notin Ops, "yield_in_arg" \notin Habits
  PROVE  Spec => [][~threw /\ yield > 0 /\ yield' = NoYield => yield = Depth]_vars
<1>1. IInv /\ Balanced /\ [Next]_vars =>
        [~threw /\ yield > 0 /\ yield' = NoYield => yield = Depth]_vars
  BY YieldStep DEF Plainly
<1>2. QED BY <1>1, BalanceHolds, PTL DEF Spec

\* Where an exception may come from.
LEMMA ThrowSources ==
  ASSUME [Next]_vars, Throws = {}, "throw" \notin Ops, ~threw, threw'
  PROVE  \/ ThrowThrow
         \/ callStack >= MaxCallDepth /\ Room /\ (Running \/ status = "idle")
         \/ callStack >= MaxCallDepth /\ At("head", "call")
BY DEF Next, Machine, Ended, vars, ProcessYielding, ProcessAtom, ProcessList, ComputeOperator,
  CallOperator, PrimReturn, PrimThrow, LambdaThrow, LambdaEnter, LambdaPop, LambdaReturn,
  LoopTest, LoopBodyDone, IfTest, IfReturn, TryPop, TryReturn, DeferNext,
  DeferThrow, DeferReturn, YieldReturn, ExitNow, WalkNext, WalkEnd, PopCtxEnd, Catch,
  DeferredFailed, Unwind, InstructionFailed, Instruction, Finish, HandleList, CallFunction,
  Raise, HaltWithError, Enter, Nest, PopCtx, Return, Step, Evaluating, At

LEMMA CallsWithinFrames ==
  ASSUME IInv, Balanced, ~threw, Running \/ status = "idle"
  PROVE  /\ callStack \in Nat /\ callStack <= Depth /\ Depth \in Nat
         /\ Running /\ Top.op = "head" => callStack < Depth /\ Depth <= MaxFrames
<1>1. CASE Running
  <2>1. /\ Exact(frames, callStack, Len(ctxs), yield) /\ callStack \in Nat
        /\ Depth \in Nat /\ Depth > 0 /\ Depth = Len(frames)
        /\ Top = frames[Depth] /\ Top \in FrameType
    BY <1>1, BalancedRunning
  <2>2. Depth \in 1..Depth /\ callStack = CallNeed(Top) /\ Top.calls < Depth
    BY <2>1 DEF Exact, CallsExact, CallsUpTo
  <2>3. Top.calls \in Nat /\ HoldsCall(Top) \in {0, 1}
    BY <2>1, NeedType, HoldsType
  <2>4. callStack <= Depth
    BY <2>1, <2>2, <2>3 DEF CallNeed
  <2>5. ASSUME Top.op = "head" PROVE callStack < Depth /\ Depth <= MaxFrames
    <3>1. HoldsCall(Top) = 0
      BY <2>5 DEF HoldsCall, IsCall, Builtins
    <3>2. callStack < Depth
      BY <2>1, <2>2, <2>3, <3>1 DEF CallNeed
    <3>3. Depth <= MaxFrames
      BY <2>1, <2>2, <2>5 DEF Exact, Permitted
    <3>4. QED BY <3>2, <3>3
  <2>6. QED BY <2>1, <2>4, <2>5
<1>2. CASE ~Running
  <2>1. status = "idle" /\ Alive
    BY <1>2 DEF Alive
  <2>2. Depth = 0 /\ CallsExact(frames, callStack)
    BY <2>1 DEF Balanced, Exact
  <2>3. callStack = 0
    BY <2>2 DEF CallsExact, CallsUpTo, Depth
  <2>4. QED BY <1>2, <2>2, <2>3
<1>3. QED BY <1>1, <1>2

\* A program whose builtins do not throw, and whose calls stay below the
\* interpreter's limit, ends without an exception.
THEOREM NothingIsThrown ==
  ASSUME Throws = {}, "throw" \notin Ops, MaxFrames <= MaxCallDepth
  PROVE  Spec => []~threw
<1>1. ASSUME IInv, Balanced, ~threw, [Next]_vars
      PROVE  ~threw'
  <2>1. MaxFrames \in Nat /\ MaxCallDepth \in Nat
    BY BoundAssumption
  <2>2. CASE ThrowThrow
    <3>1. Running /\ Top.op = "throw"
      BY <2>2 DEF ThrowThrow, At
    <3>2. Top.op \in Ops \union {"deferred"}
      BY <1>1, <3>1, BalancedRunning DEF Exact, Permitted
    <3>3. QED BY <3>1, <3>2
  <2>3. CASE callStack >= MaxCallDepth /\ Room /\ (Running \/ status = "idle")
    BY <1>1, <2>1, <2>3, CallsWithinFrames DEF Room
  <2>4. CASE callStack >= MaxCallDepth /\ At("head", "call")
    BY <1>1, <2>1, <2>4, CallsWithinFrames DEF At
  <2>5. QED BY <1>1, <2>2, <2>3, <2>4, ThrowSources
<1>2. Init => ~threw
  BY DEF Init
<1>3. IInv /\ Balanced /\ ~threw /\ [Next]_vars => ~threw'
  BY <1>1
<1>4. QED BY <1>2, <1>3, BalanceHolds, PTL DEF Spec

\* For such programs: a yield ends the call of the function it was executed
\* in, and only that call's return resets it.
THEOREM YieldEndsOnlyItsCall ==
  ASSUME Throws = {}, "throw" \notin Ops, MaxFrames <= MaxCallDepth,
         "head" \notin Ops, "yield_in_arg" \notin Habits
  PROVE  Spec => YieldEndsItsCall
<1>1. ~threw /\ [~threw /\ yield > 0 /\ yield' = NoYield => yield = Depth]_vars
        => [yield > 0 /\ yield' = NoYield => yield = Depth]_vars
  BY DEF vars
<1>2. QED BY <1>1, YieldMeetsItsCall, NothingIsThrown, PTL DEF YieldEndsItsCall

(***************************************************************************)
(* 3. Deferred instructions.                                               *)
(***************************************************************************)

IsPop(f) == f.op = "deferred"

\* pop_ctx is ending the k-th context.
Ends(stack, k) == \E j \in 1..Len(stack) : IsPop(stack[j]) /\ stack[j].ctx = k - 1

\* Identifiers are given out in order, each to one place of one context.
IdsDistinct(cx, dc) ==
  /\ \A k \in 1..Len(cx) : \A i \in 1..Len(cx[k]) :
       cx[k][i].id \in DeferId /\ cx[k][i].id <= dc
  /\ \A k, l \in 1..Len(cx) : \A i \in 1..Len(cx[k]), j \in 1..Len(cx[l]) :
       cx[k][i].id = cx[l][j].id => k = l /\ i = j

\* No instruction of a context has been executed before pop_ctx starts.
Waiting(stack, cx, rn) ==
  \A k \in 1..Len(cx) : ~Ends(stack, k) =>
    \A i \in 1..Len(cx[k]) : rn[cx[k][i].id] = 0

\* What is left of the list of a pop_ctx is of the context it ends, and has
\* not been executed.
Remaining(f, cx, rn) ==
  /\ f.ctx \in Nat /\ f.ctx + 1 \in 1..Len(cx) /\ Len(f.list) \in Nat
  /\ \A i \in 1..Len(f.list) :
       /\ \E j \in 1..Len(cx[f.ctx + 1]) : cx[f.ctx + 1][j].id = f.list[i].id
       /\ rn[f.list[i].id] = 0
  /\ \A i, j \in 1..Len(f.list) : f.list[i].id = f.list[j].id => i = j

PopsRemain(stack, cx, rn) ==
  \A j \in 1..Len(stack) : IsPop(stack[j]) => Remaining(stack[j], cx, rn)

\* An identifier not given out yet has not been executed.
Unused(rn, dc) == \A d \in DeferId : d > dc => rn[d] = 0

DeferOK(stack, cx, rn, dc) ==
  /\ IdsDistinct(cx, dc)
  /\ Waiting(stack, cx, rn)
  /\ PopsRemain(stack, cx, rn)
  /\ Unused(rn, dc)

(***************************************************************************)
(* The inductive invariant, beside those of InterpreterProofs and          *)
(* BalanceProofs.                                                          *)
(***************************************************************************)
OnceInv == "loop" \notin Ops /\ ~threw =>
             /\ DeferredAtMostOnce
             /\ Alive => DeferOK(frames, ctxs, runs, deferCount)

-----------------------------------------------------------------------------
(***************************************************************************)
(* What a change of the frames, or of the contexts, does to DeferOK.       *)
(***************************************************************************)

\* The same pop_ctx are active, with the same instructions left.
SamePops(stack, other) ==
  /\ \A j \in 1..Len(other) : IsPop(other[j]) =>
       /\ j \in 1..Len(stack) /\ IsPop(stack[j])
       /\ other[j].list = stack[j].list /\ other[j].ctx = stack[j].ctx
  /\ \A j \in 1..Len(stack) : IsPop(stack[j]) =>
       /\ j \in 1..Len(other) /\ IsPop(other[j])
       /\ other[j].list = stack[j].list /\ other[j].ctx = stack[j].ctx

LEMMA PopsSame ==
  ASSUME NEW stack, NEW other, SamePops(stack, other),
         NEW cx, NEW rn, NEW dc, DeferOK(stack, cx, rn, dc)
  PROVE  DeferOK(other, cx, rn, dc)
<1>1. \A k : Ends(stack, k) => Ends(other, k)
  BY DEF Ends, SamePops
<1>2. Waiting(other, cx, rn)
  BY <1>1 DEF DeferOK, Waiting
<1>3. PopsRemain(other, cx, rn)
  <2>1. ASSUME NEW j \in 1..Len(other), IsPop(other[j])
        PROVE  Remaining(other[j], cx, rn)
    <3>1. /\ j \in 1..Len(stack) /\ IsPop(stack[j])
          /\ other[j].list = stack[j].list /\ other[j].ctx = stack[j].ctx
      BY <2>1 DEF SamePops
    <3>2. Remaining(stack[j], cx, rn)
      BY <3>1 DEF DeferOK, PopsRemain
    <3>3. QED BY <3>1, <3>2 DEF Remaining
  <2>2. QED BY <2>1 DEF PopsRemain
<1>4. QED BY <1>2, <1>3 DEF DeferOK

\* A context is pushed.
LEMMA PopsPushCtx ==
  ASSUME NEW stack, NEW cx, NEW rn, NEW dc, DeferOK(stack, cx, rn, dc),
         NEW n \in Nat, n = Len(cx),
         NEW new, Len(new) = n + 1, Len(new[n + 1]) = 0,
         \A k \in 1..n : new[k] = cx[k]
  PROVE  DeferOK(stack, new, rn, dc)
<1>1. ASSUME NEW k \in 1..n + 1, NEW i \in 1..Len(new[k])
      PROVE  k \in 1..n /\ new[k] = cx[k] /\ i \in 1..Len(cx[k])
  <2>1. k # n + 1
    BY <1>1
  <2>2. k \in 1..n
    BY <2>1
  <2>3. new[k] = cx[k]
    BY <2>2
  <2>4. QED BY <2>2, <2>3
<1>2. IdsDistinct(new, dc)
  <2>1. ASSUME NEW k \in 1..n + 1, NEW i \in 1..Len(new[k])
        PROVE  new[k][i].id \in DeferId /\ new[k][i].id <= dc
    BY <1>1 DEF DeferOK, IdsDistinct
  <2>2. ASSUME NEW k \in 1..n + 1, NEW l \in 1..n + 1,
               NEW i \in 1..Len(new[k]), NEW j \in 1..Len(new[l]),
               new[k][i].id = new[l][j].id
        PROVE  k = l /\ i = j
    <3>1. /\ k \in 1..n /\ new[k] = cx[k] /\ i \in 1..Len(cx[k])
          /\ l \in 1..n /\ new[l] = cx[l] /\ j \in 1..Len(cx[l])
      BY <1>1
    <3>2. QED BY <2>2, <3>1 DEF DeferOK, IdsDistinct
  <2>3. QED BY <2>1, <2>2 DEF IdsDistinct
<1>3. Waiting(stack, new, rn)
  <2>1. ASSUME NEW k \in 1..n + 1, ~Ends(stack, k), NEW i \in 1..Len(new[k])
        PROVE  rn[new[k][i].id] = 0
    <3>1. k \in 1..n /\ new[k] = cx[k] /\ i \in 1..Len(cx[k])
      BY <1>1
    <3>2. QED BY <2>1, <3>1 DEF DeferOK, Waiting
  <2>2. QED BY <2>1 DEF Waiting
<1>4. PopsRemain(stack, new, rn)
  <2>1. ASSUME NEW j \in 1..Len(stack), IsPop(stack[j])
        PROVE  Remaining(stack[j], new, rn)
    <3>1. Remaining(stack[j], cx, rn)
      BY <2>1 DEF DeferOK, PopsRemain
    <3>2. stack[j].ctx + 1 \in 1..n
      BY <3>1 DEF Remaining
    <3>3. stack[j].ctx + 1 \in 1..n + 1 /\ new[stack[j].ctx + 1] = cx[stack[j].ctx + 1]
      BY <3>2
    <3>4. QED BY <3>1, <3>3 DEF Remaining
  <2>2. QED BY <2>1 DEF PopsRemain
<1>5. QED BY <1>2, <1>3, <1>4 DEF DeferOK

\* pop_ctx starts: it has the whole list of a context that no other pop_ctx
\* is ending.
LEMMA PopsStart ==
  ASSUME NEW stack, NEW cx, NEW rn, NEW dc, DeferOK(stack, cx, rn, dc),
         NEW n \in Nat, n = Len(stack), NEW f, IsPop(f),
         NEW c \in Nat, c = Len(cx), c >= 1, f.ctx = c - 1, f.list = cx[c],
         Len(cx[c]) \in Nat, ~Ends(stack, c),
         NEW new, Len(new) = n + 1, new[n + 1] = f,
         \A j \in 1..n : new[j] = stack[j]
  PROVE  DeferOK(new, cx, rn, dc)
<1>1. c \in 1..c /\ f.ctx \in Nat /\ f.ctx + 1 = c
  OBVIOUS
<1>2. Waiting(new, cx, rn)
  <2>1. ASSUME NEW k, Ends(stack, k) PROVE Ends(new, k)
    <3>1. PICK j \in 1..n : IsPop(stack[j]) /\ stack[j].ctx = k - 1
      BY <2>1 DEF Ends
    <3>2. j \in 1..Len(new) /\ new[j] = stack[j]
      OBVIOUS
    <3>3. QED BY <3>1, <3>2 DEF Ends
  <2>2. QED BY <2>1 DEF DeferOK, Waiting
<1>3. Remaining(f, cx, rn)
  <2>1. \A i \in 1..Len(f.list) : rn[f.list[i].id] = 0
    BY <1>1 DEF DeferOK, Waiting
  <2>2. \A i, j \in 1..Len(f.list) : f.list[i].id = f.list[j].id => i = j
    BY <1>1 DEF DeferOK, IdsDistinct
  <2>3. QED BY <1>1, <2>1, <2>2 DEF Remaining
<1>4. PopsRemain(new, cx, rn)
  <2>1. ASSUME NEW j \in 1..n + 1, IsPop(new[j])
        PROVE  Remaining(new[j], cx, rn)
    <3>1. CASE j = n + 1
      BY <1>3, <3>1
    <3>2. CASE j # n + 1
      <4>1. j \in 1..n
        BY <3>2
      <4>2. QED BY <2>1, <4>1 DEF DeferOK, PopsRemain
    <3>3. QED BY <3>1, <3>2
  <2>2. QED BY <2>1 DEF PopsRemain
<1>5. QED BY <1>2, <1>4 DEF DeferOK

\* pop_ctx ends: its frame goes, and so does the context on top, which is its
\* own when no other one has been left there.
Popped(stack, cx, below, outer, d, n) ==
  /\ d \in Nat /\ d = Len(stack) /\ d > 0 /\ n \in Nat /\ Len(cx) = n + 1
  /\ IsPop(stack[d]) /\ stack[d].ctx = n
  /\ \A j \in 1..d - 1 : IsPop(stack[j]) => stack[j].ctx < n
  /\ Len(below) = d - 1 /\ \A j \in 1..d - 1 : below[j] = stack[j]
  /\ Len(outer) = n /\ \A k \in 1..n : outer[k] = cx[k]

LEMMA PopsEnd ==
  ASSUME NEW stack, NEW cx, NEW rn, NEW dc, DeferOK(stack, cx, rn, dc),
         NEW below, NEW outer, NEW d, NEW n, Popped(stack, cx, below, outer, d, n)
  PROVE  DeferOK(below, outer, rn, dc)
<1> USE DEF Popped
<1>1. \A k \in 1..n : k \in 1..n + 1 /\ outer[k] = cx[k]
  OBVIOUS
<1>2. \A j \in 1..d - 1 : j \in 1..d /\ below[j] = stack[j]
  OBVIOUS
<1>3. IdsDistinct(outer, dc)
  <2>1. ASSUME NEW k \in 1..n, NEW i \in 1..Len(outer[k])
        PROVE  outer[k][i].id \in DeferId /\ outer[k][i].id <= dc
    BY <1>1 DEF DeferOK, IdsDistinct
  <2>2. ASSUME NEW k \in 1..n, NEW l \in 1..n,
               NEW i \in 1..Len(outer[k]), NEW j \in 1..Len(outer[l]),
               outer[k][i].id = outer[l][j].id
        PROVE  k = l /\ i = j
    <3>1. /\ k \in 1..n + 1 /\ outer[k] = cx[k]
          /\ l \in 1..n + 1 /\ outer[l] = cx[l]
      BY <1>1
    <3>2. QED BY <2>2, <3>1 DEF DeferOK, IdsDistinct
  <2>3. QED BY <2>1, <2>2 DEF IdsDistinct
<1>4. Waiting(below, outer, rn)
  <2>1. ASSUME NEW k \in 1..n, ~Ends(below, k)
        PROVE  \A i \in 1..Len(outer[k]) : rn[outer[k][i].id] = 0
    <3>1. ASSUME NEW j \in 1..d, IsPop(stack[j]), stack[j].ctx = k - 1
          PROVE  FALSE
      <4>1. j # d
        BY <3>1
      <4>2. j \in 1..d - 1
        BY <4>1
      <4>3. j \in 1..Len(below) /\ below[j] = stack[j]
        BY <1>2, <4>2
      <4>4. QED BY <2>1, <3>1, <4>3 DEF Ends
    <3>2. ~Ends(stack, k)
      BY <3>1 DEF Ends
    <3>3. k \in 1..n + 1 /\ outer[k] = cx[k]
      BY <1>1
    <3>4. QED BY <3>2, <3>3 DEF DeferOK, Waiting
  <2>2. QED BY <2>1 DEF Waiting
<1>5. PopsRemain(below, outer, rn)
  <2>1. ASSUME NEW j \in 1..d - 1, IsPop(below[j])
        PROVE  Remaining(below[j], outer, rn)
    <3>1. j \in 1..d /\ below[j] = stack[j]
      BY <1>2
    <3>2. Remaining(stack[j], cx, rn) /\ stack[j].ctx < n
      BY <2>1, <3>1 DEF DeferOK, PopsRemain
    <3>3. stack[j].ctx + 1 \in 1..n
      BY <3>2 DEF Remaining
    <3>4. outer[stack[j].ctx + 1] = cx[stack[j].ctx + 1]
      BY <3>3
    <3>5. QED BY <3>1, <3>2, <3>3, <3>4 DEF Remaining
  <2>2. QED BY <2>1 DEF PopsRemain
<1>6. QED BY <1>3, <1>4, <1>5 DEF DeferOK

\* pop_ctx goes on to its next instruction, having executed this one or not.
Advanced(stack, next, d, f, g, n) ==
  /\ d \in 1..Len(stack) /\ f = stack[d] /\ IsPop(f) /\ n \in Nat /\ n + 1 = Len(f.list)
  /\ \A j \in 1..Len(stack) : IsPop(stack[j]) /\ j # d => stack[j].ctx # f.ctx
  /\ Len(next) = Len(stack) /\ \A j \in 1..Len(stack) : j # d => next[j] = stack[j]
  /\ g = next[d] /\ IsPop(g) /\ g.ctx = f.ctx
  /\ Len(g.list) = n /\ \A i \in 1..n : g.list[i] = f.list[i + 1]

LEMMA PopsAdvance ==
  ASSUME NEW stack, NEW cx, NEW rn, NEW dc \in Nat, DeferOK(stack, cx, rn, dc),
         NEW next, NEW d, NEW f, NEW g, NEW n, Advanced(stack, next, d, f, g, n),
         NEW id, id = f.list[1].id,
         NEW ran, \A x \in DeferId : x # id => ran[x] = rn[x]
  PROVE  DeferOK(next, cx, ran, dc) /\ id \in DeferId /\ rn[id] = 0
<1> USE DEF Advanced
<1> DEFINE c == f.ctx + 1
<1>1. /\ Remaining(f, cx, rn) /\ f.ctx \in Nat /\ c \in 1..Len(cx)
  BY DEF DeferOK, PopsRemain, Remaining
<1>2. 1 \in 1..n + 1 /\ \A i \in 1..n : i + 1 \in 1..n + 1 /\ i + 1 # 1
  OBVIOUS
<1>3. /\ rn[id] = 0
      /\ \E p \in 1..Len(cx[c]) : cx[c][p].id = id
      /\ \A i \in 1..n : f.list[i + 1].id # id
  BY <1>1, <1>2 DEF Remaining
<1> HIDE DEF c
<1>4. PICK p \in 1..Len(cx[c]) : cx[c][p].id = id
  BY <1>3
<1>5. id \in DeferId /\ id <= dc
  BY <1>1, <1>4 DEF DeferOK, IdsDistinct
<1>6. c - 1 = f.ctx
  BY <1>1 DEF c
<1>7. ASSUME NEW k \in 1..Len(cx), NEW i \in 1..Len(cx[k]), cx[k][i].id = id
      PROVE  k = c
  BY <1>1, <1>4, <1>7 DEF DeferOK, IdsDistinct
<1>8. \A k \in 1..Len(cx) : \A i \in 1..Len(cx[k]) : cx[k][i].id \in DeferId
  BY DEF DeferOK, IdsDistinct
<1>9. Ends(next, c)
  BY <1>6 DEF Ends
<1>10. Waiting(next, cx, ran)
  <2>1. ASSUME NEW k \in 1..Len(cx), ~Ends(next, k), NEW i \in 1..Len(cx[k])
        PROVE  ran[cx[k][i].id] = 0
    <3>1. k # c
      BY <1>9, <2>1
    <3>2. ASSUME NEW j \in 1..Len(stack), IsPop(stack[j]), stack[j].ctx = k - 1
          PROVE  FALSE
      <4>1. j # d
        BY <1>1, <1>6, <3>1, <3>2
      <4>2. j \in 1..Len(next) /\ next[j] = stack[j]
        BY <4>1
      <4>3. QED BY <2>1, <3>2, <4>2 DEF Ends
    <3>3. ~Ends(stack, k)
      BY <3>2 DEF Ends
    <3>4. rn[cx[k][i].id] = 0
      BY <3>3 DEF DeferOK, Waiting
    <3>5. cx[k][i].id # id /\ cx[k][i].id \in DeferId
      BY <1>7, <1>8, <3>1
    <3>6. QED BY <3>4, <3>5
  <2>2. QED BY <2>1 DEF Waiting
<1>11. ASSUME NEW j \in 1..Len(stack), IsPop(stack[j]), j # d
       PROVE  Remaining(stack[j], cx, ran)
  <2>1. Remaining(stack[j], cx, rn) /\ stack[j].ctx # f.ctx
    BY <1>11 DEF DeferOK, PopsRemain
  <2> DEFINE l == stack[j].ctx + 1
  <2>2. l \in 1..Len(cx) /\ l # c
    BY <1>1, <2>1, SMTT(30) DEF Remaining, c
  <2>3. ASSUME NEW i \in 1..Len(stack[j].list)
        PROVE  ran[stack[j].list[i].id] = 0
    <3>1. PICK q \in 1..Len(cx[l]) : cx[l][q].id = stack[j].list[i].id
      BY <2>1 DEF Remaining
    <3> HIDE DEF l
    <3>2. cx[l][q].id # id /\ cx[l][q].id \in DeferId
      BY <1>7, <1>8, <2>2
    <3>3. rn[stack[j].list[i].id] = 0
      BY <2>1 DEF Remaining
    <3>4. QED BY <3>1, <3>2, <3>3
  <2>4. QED BY <2>1, <2>3 DEF Remaining
<1>12. Remaining(g, cx, ran)
  <2>1. ASSUME NEW i \in 1..n
        PROVE  /\ \E q \in 1..Len(cx[c]) : cx[c][q].id = g.list[i].id
               /\ ran[g.list[i].id] = 0
    <3>1. i + 1 \in 1..n + 1 /\ g.list[i] = f.list[i + 1] /\ f.list[i + 1].id # id
      BY <1>2, <1>3
    <3>2. PICK q \in 1..Len(cx[c]) : cx[c][q].id = f.list[i + 1].id
      BY <1>1, <3>1 DEF Remaining, c
    <3>3. f.list[i + 1].id \in DeferId
      BY <1>1, <1>8, <3>2
    <3>4. rn[f.list[i + 1].id] = 0
      BY <1>1, <3>1 DEF Remaining
    <3>5. QED BY <3>1, <3>2, <3>3, <3>4
  <2>2. ASSUME NEW i \in 1..n, NEW j \in 1..n, g.list[i].id = g.list[j].id
        PROVE  i = j
    <3>1. /\ i + 1 \in 1..n + 1 /\ j + 1 \in 1..n + 1
          /\ f.list[i + 1].id = f.list[j + 1].id
      BY <1>2, <2>2
    <3>2. i + 1 = j + 1
      BY <1>1, <3>1 DEF Remaining
    <3>3. QED BY <3>2
  <2>3. QED BY <1>1, <2>1, <2>2, SMTT(30) DEF Remaining, c
<1>13. PopsRemain(next, cx, ran)
  <2>1. ASSUME NEW j \in 1..Len(stack), IsPop(next[j])
        PROVE  Remaining(next[j], cx, ran)
    <3>1. CASE j = d
      BY <1>12, <3>1
    <3>2. CASE j # d
      <4>1. next[j] = stack[j]
        BY <3>2
      <4>2. QED BY <1>11, <2>1, <3>2, <4>1
    <3>3. QED BY <3>1, <3>2
  <2>2. QED BY <2>1 DEF PopsRemain
<1>14. Unused(ran, dc)
  <2>1. ASSUME NEW x \in DeferId, x > dc
        PROVE  ran[x] = 0
    <3>1. x # id
      BY <1>5, <2>1 DEF DeferId
    <3>2. QED BY <2>1, <3>1 DEF DeferOK, Unused
  <2>2. QED BY <2>1 DEF Unused
<1>15. QED BY <1>3, <1>5, <1>10, <1>13, <1>14 DEF DeferOK

\* An instruction is deferred, in the context on top.
Added(cx, new, list, n, m, id) ==
  /\ n \in Nat /\ n = Len(cx) /\ n >= 1 /\ m \in Nat /\ m = Len(cx[n])
  /\ Len(new) = n /\ \A k \in 1..n : k # n => new[k] = cx[k]
  /\ new[n] = list /\ Len(list) = m + 1 /\ list[m + 1].id = id
  /\ \A i \in 1..m : list[i] = cx[n][i]

LEMMA PopsDefer ==
  ASSUME NEW stack, NEW cx, NEW rn, NEW dc \in Nat, DeferOK(stack, cx, rn, dc),
         dc + 1 \in DeferId, NEW new, NEW list, NEW n, NEW m,
         Added(cx, new, list, n, m, dc + 1)
  PROVE  DeferOK(stack, new, rn, dc + 1)
<1> USE DEF Added
<1>1. ASSUME NEW k \in 1..n, NEW i \in 1..Len(new[k]), ~(k = n /\ i = m + 1)
      PROVE  i \in 1..Len(cx[k]) /\ new[k][i] = cx[k][i]
  BY <1>1
<1>2. \A k \in 1..n : \A i \in 1..Len(cx[k]) :
        /\ cx[k][i].id \in DeferId /\ cx[k][i].id <= dc
        /\ cx[k][i].id # dc + 1
  BY DEF DeferOK, IdsDistinct, DeferId
<1>3. n \in 1..n /\ m + 1 \in 1..Len(new[n]) /\ new[n][m + 1].id = dc + 1
  OBVIOUS
<1>4. IdsDistinct(new, dc + 1)
  <2>1. ASSUME NEW k \in 1..n, NEW i \in 1..Len(new[k])
        PROVE  new[k][i].id \in DeferId /\ new[k][i].id <= dc + 1
    <3>1. CASE k = n /\ i = m + 1
      BY <3>1
    <3>2. CASE ~(k = n /\ i = m + 1)
      <4>1. i \in 1..Len(cx[k]) /\ new[k][i] = cx[k][i]
        BY <1>1, <3>2
      <4>2. QED BY <1>2, <4>1 DEF DeferId
    <3>3. QED BY <3>1, <3>2
  <2>2. ASSUME NEW k \in 1..n, NEW l \in 1..n,
               NEW i \in 1..Len(new[k]), NEW j \in 1..Len(new[l]),
               new[k][i].id = new[l][j].id
        PROVE  k = l /\ i = j
    <3>1. CASE k = n /\ i = m + 1
      <4>1. CASE l = n /\ j = m + 1
        BY <3>1, <4>1
      <4>2. CASE ~(l = n /\ j = m + 1)
        <5>1. j \in 1..Len(cx[l]) /\ new[l][j] = cx[l][j]
          BY <1>1, <4>2
        <5>2. QED BY <1>2, <2>2, <3>1, <5>1
      <4>3. QED BY <4>1, <4>2
    <3>2. CASE ~(k = n /\ i = m + 1)
      <4>1. i \in 1..Len(cx[k]) /\ new[k][i] = cx[k][i]
        BY <1>1, <3>2
      <4>2. ~(l = n /\ j = m + 1)
        BY <1>2, <2>2, <4>1
      <4>3. j \in 1..Len(cx[l]) /\ new[l][j] = cx[l][j]
        BY <1>1, <4>2
      <4>4. QED BY <2>2, <4>1, <4>3 DEF DeferOK, IdsDistinct
    <3>3. QED BY <3>1, <3>2
  <2>3. QED BY <2>1, <2>2 DEF IdsDistinct
<1>5. Waiting(stack, new, rn)
  <2>1. ASSUME NEW k \in 1..n, ~Ends(stack, k), NEW i \in 1..Len(new[k])
        PROVE  rn[new[k][i].id] = 0
    <3>1. CASE k = n /\ i = m + 1
      BY <3>1 DEF DeferOK, Unused, DeferId
    <3>2. CASE ~(k = n /\ i = m + 1)
      <4>1. i \in 1..Len(cx[k]) /\ new[k][i] = cx[k][i]
        BY <1>1, <3>2
      <4>2. QED BY <2>1, <4>1 DEF DeferOK, Waiting
    <3>3. QED BY <3>1, <3>2
  <2>2. QED BY <2>1 DEF Waiting
<1>6. PopsRemain(stack, new, rn)
  <2>1. ASSUME NEW j \in 1..Len(stack), IsPop(stack[j])
        PROVE  Remaining(stack[j], new, rn)
    <3> DEFINE f == stack[j]
               k == f.ctx + 1
    <3>1. Remaining(f, cx, rn)
      BY <2>1 DEF DeferOK, PopsRemain
    <3>2. k \in 1..n
      BY <3>1 DEF Remaining
    <3> HIDE DEF f
    <3>3. ASSUME NEW i \in 1..Len(f.list)
          PROVE  \E q \in 1..Len(new[k]) : new[k][q].id = f.list[i].id
      <4>1. PICK q \in 1..Len(cx[k]) : cx[k][q].id = f.list[i].id
        BY <3>1 DEF Remaining
      <4> HIDE DEF k
      <4>2. CASE k = n
        <5>1. q \in 1..m /\ q \in 1..m + 1
          BY <4>1, <4>2
        <5>2. new[k][q] = cx[k][q]
          BY <4>2, <5>1
        <5>3. q \in 1..Len(new[k])
          BY <4>2, <5>1
        <5>4. QED BY <4>1, <5>2, <5>3
      <4>3. CASE k # n
        <5>1. new[k] = cx[k]
          BY <3>2, <4>3
        <5>2. QED BY <4>1, <5>1
      <4>4. QED BY <4>2, <4>3
    <3>4. Remaining(f, new, rn)
      BY <3>1, <3>2, <3>3 DEF Remaining
    <3>5. QED BY <3>4 DEF f
  <2>2. QED BY <2>1 DEF PopsRemain
<1>7. Unused(rn, dc + 1)
  BY DEF DeferOK, Unused, DeferId
<1>8. QED BY <1>4, <1>5, <1>6, <1>7 DEF DeferOK

-----------------------------------------------------------------------------
(***************************************************************************)
(* The same for the actions' frames.                                       *)
(***************************************************************************)
LEMMA AppendPops ==
  ASSUME NEW stack \in Seq(FrameType), NEW f \in FrameType, ~IsPop(f)
  PROVE  SamePops(stack, Append(stack, f))
<1> DEFINE new == Append(stack, f)
           n == Len(stack)
<1>1. /\ n \in Nat /\ Len(new) = n + 1 /\ new[n + 1] = f
      /\ \A i \in 1..n : new[i] = stack[i]
  BY AppendProperties
<1>2. n = Len(stack)
  OBVIOUS
<1> HIDE DEF new, n
<1>3. \A j \in 1..n + 1 : j = n + 1 \/ j \in 1..n
  BY <1>1
<1>4. \A j \in 1..n : j \in 1..n + 1
  BY <1>1
<1>5. SamePops(stack, new)
  BY <1>1, <1>2, <1>3, <1>4 DEF SamePops
<1>6. QED BY <1>5 DEF new

LEMMA GotoPops ==
  ASSUME IInv, Depth > 0, NEW pc \in PCs, ~IsPop(Top)
  PROVE  /\ SamePops(frames, Goto(pc))
         /\ Goto(pc) \in Seq(FrameType) /\ Len(Goto(pc)) = Depth
<1> DEFINE top == [frames[Depth] EXCEPT !.pc = pc]
<1>1. /\ frames \in Seq(FrameType) /\ Depth \in 1..Len(frames) /\ Depth = Len(frames)
      /\ frames[Depth] \in FrameType /\ Top = frames[Depth]
  BY FramesType DEF IInv, TypeOK, Depth, Top
<1>2. top \in FrameType /\ top.op = Top.op
  BY <1>1 DEF FrameType
<1>3. Goto(pc) = [frames EXCEPT ![Depth] = top]
  BY <1>1 DEF Goto
<1> HIDE DEF top
<1>4. /\ Goto(pc) \in Seq(FrameType) /\ Len(Goto(pc)) = Len(frames)
      /\ \A i \in 1..Len(frames) : Goto(pc)[i] = IF i = Depth THEN top ELSE frames[i]
  BY <1>1, <1>2, <1>3, ExceptSeq
<1>5. ~IsPop(top) /\ ~IsPop(frames[Depth])
  BY <1>1, <1>2 DEF IsPop
<1>6. SamePops(frames, Goto(pc))
  BY <1>4, <1>5 DEF SamePops
<1>7. QED BY <1>1, <1>4, <1>6

LEMMA BelowFrames ==
  ASSUME IInv, Depth > 0
  PROVE  /\ Below \in Seq(FrameType) /\ Len(Below) = Depth - 1
         /\ Depth \in Nat /\ Depth = Len(frames) /\ Top = frames[Depth]
         /\ \A i \in 1..Depth - 1 : Below[i] = frames[i]
<1>1. Depth \in Nat /\ Depth = Len(frames) /\ \A i \in 1..Depth : frames[i] \in FrameType
  BY FramesType DEF IInv, Depth
<1> DEFINE d == Depth - 1
<1>2. d \in Nat /\ \A i \in 1..d : frames[i] \in FrameType
  BY <1>1
<1> HIDE DEF d
<1>3. /\ SubSeq(frames, 1, d) \in Seq(FrameType)
      /\ Len(SubSeq(frames, 1, d)) = d
      /\ \A i \in 1..d : SubSeq(frames, 1, d)[i] = frames[i]
  BY <1>2, SubSeqProperties
<1>4. QED BY <1>1, <1>3 DEF Below, Top, d

LEMMA BelowPops ==
  ASSUME IInv, Depth > 0, ~IsPop(Top)
  PROVE  SamePops(frames, Below)
<1>1. /\ Len(Below) = Depth - 1 /\ Depth \in Nat /\ Depth = Len(frames) /\ Top = frames[Depth]
      /\ \A i \in 1..Depth - 1 : Below[i] = frames[i]
  BY BelowFrames
<1>2. \A j \in 1..Depth : j = Depth \/ j \in 1..Depth - 1
  BY <1>1
<1>3. \A j \in 1..Depth - 1 : j \in 1..Depth
  BY <1>1
<1>4. QED BY <1>1, <1>2, <1>3 DEF SamePops

\* Every pop_ctx ends a context of its own, below what the frames above it
\* rely on, and the top frame relies on all there are.
LEMMA PopLevels ==
  ASSUME IInv, Balanced, ~threw, Running, "loop" \notin Ops
  PROVE  /\ Len(ctxs) = CtxNeed(Top) /\ Top.ctx \in Nat /\ Len(ctxs) \in Nat
         /\ \A j \in 1..Depth - 1 : IsPop(frames[j]) =>
              frames[j].ctx \in Nat /\ frames[j].ctx < Top.ctx
<1>1. /\ Exact(frames, callStack, Len(ctxs), yield) /\ Depth = Len(frames)
      /\ Top = frames[Depth] /\ Top \in FrameType /\ Depth \in Nat /\ Depth > 0
      /\ Len(ctxs) \in Nat
  BY BalancedRunning
<1>2. Len(ctxs) = CtxNeed(Top)
  BY <1>1 DEF Exact, CtxsExact, CtxsUpTo
<1>3. ASSUME NEW j \in 1..Depth - 1, IsPop(frames[j])
      PROVE  frames[j].ctx \in Nat /\ frames[j].ctx < Top.ctx
  <2>1. j \in DOMAIN frames /\ Depth \in DOMAIN frames /\ j < Depth /\ frames[j] \in FrameType
    BY <1>1, FramesType DEF IInv
  <2>2. CtxNeed(frames[j]) <= Top.ctx
    BY <1>1, <2>1 DEF IInv, ContextsStay
  <2>3. HoldsCtx(frames[j]) = 1
    BY <1>3 DEF HoldsCtx, IsPop
  <2>4. QED BY <1>1, <2>1, <2>2, <2>3, NeedType DEF CtxNeed
<1>4. QED BY <1>1, <1>2, <1>3, NeedType

-----------------------------------------------------------------------------
(***************************************************************************)
(* The actions.                                                            *)
(***************************************************************************)

\* process_cell goes on to the next deferred instruction.
LEMMA TopAdvances ==
  ASSUME IInv, Balanced, ~threw, "loop" \notin Ops, Evaluating, IsPop(Top)
  PROVE  /\ Top.list \in Seq(Deferred) /\ Top.list # << >> /\ Head(Top.list) = Top.list[1]
         /\ Resumed \in Seq(FrameType)
         /\ \E g, n : /\ Advanced(frames, Resumed, Depth, Top, g, n)
                      /\ g.list = Tail(Top.list) /\ g.list \in Seq(Deferred)
<1>1. /\ frames \in Seq(FrameType) /\ Depth \in 1..Depth /\ Depth = Len(frames)
      /\ frames[Depth] \in FrameType /\ Top = frames[Depth] /\ Depth > 0 /\ Running
  BY FramesType DEF IInv, TypeOK, Depth, Top, Evaluating, Running
<1> DEFINE f == frames[Depth]
           g == [f EXCEPT !.list = Tail(f.list)]
           n == Len(f.list) - 1
<1>2. f.list \in Seq(Deferred) /\ f.list # << >> /\ f \in FrameType /\ Top = f
  BY <1>1 DEF FrameType, Evaluating, IsPop
<1>3. /\ Len(f.list) \in Nat /\ Len(f.list) >= 1
      /\ Head(f.list) = f.list[1]
      /\ Tail(f.list) \in Seq(Deferred) /\ Len(Tail(f.list)) = Len(f.list) - 1
      /\ \A i \in 1..Len(f.list) - 1 : Tail(f.list)[i] = f.list[i + 1]
  BY <1>2, EmptySeq, HeadTailProperties
<1>4. /\ g \in FrameType /\ g.op = f.op /\ g.ctx = f.ctx /\ g.list = Tail(f.list)
  BY <1>2, <1>3 DEF FrameType
<1>5. Resumed = [frames EXCEPT ![Depth] = g]
  BY <1>1 DEF Resumed, IsPop
<1>6. /\ n \in Nat /\ n + 1 = Len(f.list) /\ Len(g.list) = n
      /\ \A i \in 1..n : g.list[i] = f.list[i + 1]
  BY <1>3, <1>4
<1>7. IsPop(f) /\ IsPop(g)
  BY <1>2, <1>4 DEF IsPop
<1>8. g.list = Tail(f.list) /\ g.list \in Seq(Deferred)
  BY <1>3, <1>4
<1> HIDE DEF g, n
<1>9. /\ Resumed \in Seq(FrameType) /\ Len(Resumed) = Len(frames)
      /\ \A i \in 1..Len(frames) : Resumed[i] = IF i = Depth THEN g ELSE frames[i]
  BY <1>1, <1>4, <1>5, ExceptSeq
<1>10. ASSUME NEW j \in 1..Len(frames), IsPop(frames[j]), j # Depth
       PROVE  frames[j].ctx # f.ctx
  <2>1. j \in 1..Depth - 1
    BY <1>1, <1>10
  <2>2. frames[j].ctx < f.ctx /\ frames[j].ctx \in Nat /\ f.ctx \in Nat
    BY <1>1, <1>2, <1>10, <2>1, PopLevels
  <2>3. QED BY <2>2
<1>11. Resumed[Depth] = g /\ \A j \in 1..Len(frames) : j # Depth => Resumed[j] = frames[j]
  BY <1>1, <1>9
<1>12. Depth \in 1..Len(frames)
  BY <1>1
<1>13. f = frames[Depth]
  OBVIOUS
<1> HIDE DEF f
<1>14. \A j \in 1..Len(frames) : IsPop(frames[j]) /\ j # Depth => frames[j].ctx # f.ctx
  BY <1>10
<1>15. Advanced(frames, Resumed, Depth, f, g, n)
  BY <1>4, <1>6, <1>7, <1>9, <1>11, <1>12, <1>13, <1>14 DEF Advanced
<1>16. QED BY <1>2, <1>3, <1>8, <1>9, <1>15

\* Any other frame stores where it continues.
LEMMA TopResumes ==
  ASSUME IInv, Evaluating, ~IsPop(Top)
  PROVE  SamePops(frames, Resumed) /\ Resumed \in Seq(FrameType) /\ RunsNow = runs
<1>1. Depth > 0 /\ Top \in FrameType
  BY RunningFacts DEF Evaluating, Running
<1> DEFINE pc == Resume[Top.op][Top.pc]
<1>2. Top.op \in FrameOps /\ Top.pc \in DOMAIN Resume[Top.op]
  BY <1>1 DEF FrameType, FrameOps, Evaluating
<1>3. pc \in PCs
  BY <1>2, ResumeType
<1>4. Resumed = Goto(pc) /\ RunsNow = runs
  BY DEF Resumed, RunsNow, IsPop
<1> HIDE DEF pc
<1>5. QED BY <1>1, <1>3, <1>4, GotoPops

\* process_cell has accepted the top frame's cell, or a yield value has stood
\* in for it.
LEMMA CellDoneOnce ==
  ASSUME IInv, Balanced, ~threw, "loop" \notin Ops, Evaluating, DeferredAtMostOnce,
         DeferOK(frames, ctxs, runs, deferCount),
         NEW ran, ran = runs \/ ran = RunsNow
  PROVE  /\ DeferOK(Resumed, ctxs, ran, deferCount)
         /\ \A d \in DeferId : ran[d] <= 1
         /\ Resumed \in Seq(FrameType)
         /\ IsPop(Top) => Top.list[1].id \in DeferId /\ runs[Top.list[1].id] = 0
<1>1. CASE ~IsPop(Top)
  BY <1>1, TopResumes, PopsSame DEF DeferredAtMostOnce
<1>2. CASE IsPop(Top)
  <2> DEFINE id == Top.list[1].id
  <2>1. Head(Top.list) = Top.list[1] /\ Resumed \in Seq(FrameType)
    BY <1>2, TopAdvances
  <2>2. PICK g, n : Advanced(frames, Resumed, Depth, Top, g, n)
    BY <1>2, TopAdvances
  <2>3. ran = runs \/ ran = [runs EXCEPT ![id] = IF runs[id] < 2 THEN runs[id] + 1 ELSE runs[id]]
    BY <1>2, <2>1 DEF RunsNow, IsPop
  <2>4. runs \in [DeferId -> 0..2] /\ deferCount \in Nat
    BY ConstantTypes DEF IInv, TypeOK
  <2>5. id = Top.list[1].id
    OBVIOUS
  <2> HIDE DEF id
  <2>6. \A x \in DeferId : x # id => ran[x] = runs[x]
    BY <2>3, <2>4
  <2>7. DeferOK(Resumed, ctxs, ran, deferCount) /\ id \in DeferId /\ runs[id] = 0
    BY <2>2, <2>4, <2>5, <2>6, PopsAdvance
  <2>8. ran[id] <= 1
    BY <2>3, <2>4, <2>7
  <2>9. \A d \in DeferId : ran[d] <= 1
    BY <2>6, <2>8 DEF DeferredAtMostOnce
  <2>10. QED BY <2>1, <2>5, <2>7, <2>9
<1>3. QED BY <1>1, <1>2

LEMMA PushCtxOnce ==
  ASSUME IInv, Active, NEW stack, NEW rn, NEW dc, DeferOK(stack, ctxs, rn, dc),
         NEW new, new = Append(ctxs, << >>)
  PROVE  DeferOK(stack, new, rn, dc)
<1> DEFINE n == Len(ctxs)
<1>1. << >> \in Seq(Deferred) /\ ctxs \in Seq(Seq(Deferred))
  BY EmptySeq, CtxsType
<1>2. /\ n \in Nat /\ Len(new) = n + 1 /\ new[n + 1] = << >>
      /\ \A i \in 1..n : new[i] = ctxs[i]
  BY <1>1, AppendProperties
<1>3. Len(new[n + 1]) = 0
  BY <1>2
<1> HIDE DEF n
<1>4. n = Len(ctxs)
  BY DEF n
<1>5. QED BY <1>2, <1>3, <1>4, PopsPushCtx

\* A frame that is not a pop_ctx is pushed, with a context of its own or none.
LEMMA PushedOnce ==
  ASSUME NEW stack \in Seq(FrameType), NEW f \in FrameType, ~IsPop(f),
         IInv, Active, NEW rn, NEW dc, DeferOK(stack, ctxs, rn, dc),
         NEW new, new = ctxs \/ new = Append(ctxs, << >>)
  PROVE  DeferOK(Append(stack, f), new, rn, dc)
<1>1. SamePops(stack, Append(stack, f))
  BY AppendPops
<1>2. DeferOK(Append(stack, f), ctxs, rn, dc)
  BY <1>1, PopsSame
<1>3. QED BY <1>2, PushCtxOnce

LEMMA CallOnce ==
  ASSUME IInv, Active, NEW stack \in Seq(FrameType), NEW env \in Nat,
         NEW rn, DeferOK(stack, ctxs, rn, deferCount), CallFunction(stack, env), ~threw'
  PROVE  DeferOK(frames', ctxs', rn, deferCount')
<1>1. /\ callStack \in Nat /\ Len(ctxs) \in Nat /\ << >> \in Seq(Deferred)
  BY CtxsType, EmptySeq DEF IInv, TypeOK
<1>2. PICK op \in Ops \intersect Builtins : Enter(stack, env, op)
  BY DEF CallFunction, Raise
<1> DEFINE f == Frame(op, EntryPc[op], env, << >>, callStack, Len(ctxs))
<1>3. EntryPc[op] \in PCs
  BY EntryType
<1>4. f \in FrameType /\ ~IsPop(f)
  BY <1>1, <1>3 DEF Frame, FrameType, IsPop, Builtins
<1>5. ctxs' = ctxs \/ ctxs' = Append(ctxs, << >>)
  BY <1>2 DEF Enter
<1>6. frames' = Append(stack, f) /\ deferCount' = deferCount
  BY <1>2 DEF Enter
<1> HIDE DEF f
<1>7. QED BY <1>4, <1>5, <1>6, PushedOnce

LEMMA HandleListOnce ==
  ASSUME IInv, Active, NEW stack \in Seq(FrameType), NEW env \in Nat, NEW walks,
         NEW rn, DeferOK(stack, ctxs, rn, deferCount),
         HandleList(stack, env, walks), ~threw', status' # "exit"
  PROVE  DeferOK(frames', ctxs', rn, deferCount')
<1>1. /\ callStack \in Nat /\ Len(ctxs) \in Nat /\ << >> \in Seq(Deferred)
  BY CtxsType, EmptySeq DEF IInv, TypeOK
<1>2. ASSUME NEW op \in {"walk", "head"}, NEW pc \in {"item", "op"}, Nest(stack, op, pc, env)
      PROVE  DeferOK(frames', ctxs', rn, deferCount')
  <2> DEFINE f == Frame(op, pc, env, << >>, callStack, Len(ctxs))
  <2>1. f \in FrameType /\ ~IsPop(f)
    BY <1>1 DEF Frame, FrameType, PCs, IsPop
  <2>2. frames' = Append(stack, f) /\ ctxs' = ctxs /\ deferCount' = deferCount
    BY <1>2 DEF Nest
  <2> HIDE DEF f
  <2>3. QED BY <2>1, <2>2, PushedOnce
<1>4. CASE CallFunction(stack, env)
  BY <1>4, CallOnce
<1>5. CASE HaltWithError(stack, IF stack = << >> THEN "idle" ELSE "run")
  BY <1>5 DEF HaltWithError
<1>6. CASE Raise(stack, "exception")
  BY <1>6 DEF Raise
<1>7. QED BY <1>2, <1>4, <1>5, <1>6 DEF HandleList

\* pop_ctx is called for a context that no other one is ending.
LEMMA PopCtxOnce ==
  ASSUME IInv, Active, NEW stack \in Seq(FrameType), NEW env \in Nat,
         DeferOK(stack, ctxs, runs, deferCount), ~Ends(stack, Len(ctxs)),
         PopCtx(stack, env)
  PROVE  DeferOK(frames', ctxs', runs', deferCount')
<1> DEFINE f == Frame("deferred", "next", env, ctxs[Len(ctxs)], callStack, Len(ctxs) - 1)
           c == Len(ctxs)
           n == Len(stack)
<1>1. /\ callStack \in Nat /\ ctxs # << >> /\ c \in Nat /\ c >= 1
      /\ ctxs[c] \in Seq(Deferred)
  BY CtxsType DEF IInv, TypeOK
<1>2. f \in FrameType /\ IsPop(f) /\ f.ctx = c - 1 /\ f.list = ctxs[c]
  BY <1>1 DEF Frame, FrameType, PCs, IsPop
<1>3. /\ frames' = Append(stack, f) /\ ctxs' = ctxs /\ runs' = runs
      /\ deferCount' = deferCount
  BY <1>1 DEF PopCtx
<1>4. Len(ctxs[c]) \in Nat
  BY <1>1
<1> HIDE DEF f
<1>5. /\ Len(frames') = n + 1 /\ frames'[n + 1] = f /\ n \in Nat
      /\ \A j \in 1..n : frames'[j] = stack[j]
  BY <1>2, <1>3, AppendProperties
<1> HIDE DEF c, n
<1>6. c = Len(ctxs) /\ n = Len(stack)
  BY DEF c, n
<1>7. DeferOK(frames', ctxs, runs, deferCount)
  BY <1>1, <1>2, <1>4, <1>5, <1>6, PopsStart
<1>8. QED BY <1>3, <1>7

\* The context that a frame gives up is not being ended already.
LEMMA OwnNotEnding ==
  ASSUME IInv, Balanced, ~threw, "loop" \notin Ops, Running, ~IsPop(Top),
         HoldsCtx(Top) = 1, NEW stack, SamePops(frames, stack)
  PROVE  ~Ends(stack, Len(ctxs))
<1>1. Depth = Len(frames) /\ Depth \in Nat /\ Top = frames[Depth]
  BY RunningActive, BelowFrames
<1>2. ASSUME NEW j \in 1..Len(frames), IsPop(frames[j]), frames[j].ctx = Len(ctxs) - 1
      PROVE  FALSE
  <2>1. j \in 1..Depth - 1
    BY <1>1, <1>2
  <2>2. /\ frames[j].ctx \in Nat /\ frames[j].ctx < Top.ctx /\ Top.ctx \in Nat
        /\ Len(ctxs) = CtxNeed(Top)
    BY <1>2, <2>1, PopLevels
  <2>3. QED BY <1>2, <2>2 DEF CtxNeed
<1>3. QED BY <1>2 DEF Ends, SamePops

LEMMA PopOwnOnce ==
  ASSUME IInv, Balanced, ~threw, "loop" \notin Ops, Running, ~IsPop(Top),
         HoldsCtx(Top) = 1, NEW pc \in PCs, NEW env \in Nat,
         DeferOK(frames, ctxs, runs, deferCount), PopCtx(Goto(pc), env)
  PROVE  DeferOK(frames', ctxs', runs', deferCount')
<1>1. Depth > 0 /\ Active
  BY RunningActive
<1>2. SamePops(frames, Goto(pc)) /\ Goto(pc) \in Seq(FrameType)
  BY <1>1, GotoPops
<1>3. DeferOK(Goto(pc), ctxs, runs, deferCount)
  BY <1>2, PopsSame
<1>4. ~Ends(Goto(pc), Len(ctxs))
  BY <1>2, OwnNotEnding
<1>5. QED BY <1>1, <1>2, <1>3, <1>4, PopCtxOnce

LEMMA TopPopped ==
  ASSUME IInv, Balanced, ~threw, "loop" \notin Ops, PopCtxEnd
  PROVE  Popped(frames, ctxs, frames', ctxs', Depth, Top.ctx)
<1>1. /\ Running /\ Depth > 0 /\ Active /\ IsPop(Top) /\ frames' = Below
      /\ ctxs' = SubSeq(ctxs, 1, Len(ctxs) - 1)
      /\ runs' = runs /\ deferCount' = deferCount
  BY RunningActive DEF PopCtxEnd, At, Running, IsPop
<1>2. /\ Len(Below) = Depth - 1 /\ Depth \in Nat /\ Depth = Len(frames)
      /\ Top = frames[Depth] /\ \A i \in 1..Depth - 1 : Below[i] = frames[i]
  BY <1>1, BelowFrames
<1> DEFINE n == Len(ctxs) - 1
<1>3. n = Top.ctx /\ n \in Nat /\ Len(ctxs) = n + 1
  <2>1. Len(ctxs) = CtxNeed(Top) /\ Top.ctx \in Nat
    BY <1>1, PopLevels
  <2>2. HoldsCtx(Top) = 1
    BY <1>1 DEF HoldsCtx, IsPop
  <2>3. QED BY <2>1, <2>2 DEF CtxNeed
<1>4. \A j \in 1..Depth - 1 : IsPop(frames[j]) => frames[j].ctx < n
  BY <1>1, <1>3, PopLevels
<1>5. ctxs' = SubSeq(ctxs, 1, n)
  BY <1>1
<1> HIDE DEF n
<1>6. Len(ctxs') = n /\ \A k \in 1..n : ctxs'[k] = ctxs[k]
  <2>1. \A k \in 1..n : ctxs[k] \in Seq(Deferred)
    <3>1. ctxs \in Seq(Seq(Deferred))
      BY <1>1, CtxsType
    <3>2. ASSUME NEW k \in 1..n PROVE ctxs[k] \in Seq(Deferred)
      <4>1. k \in 1..Len(ctxs)
        BY <1>3
      <4>2. QED BY <3>1, <4>1
    <3>3. QED BY <3>2
  <2>2. /\ Len(SubSeq(ctxs, 1, n)) = n
        /\ \A k \in 1..n : SubSeq(ctxs, 1, n)[k] = ctxs[k]
    BY <1>3, <2>1, SubSeqProperties
  <2>3. QED BY <1>5, <2>2
<1>7. IsPop(frames[Depth]) /\ frames[Depth].ctx = n
  <2>1. Top = frames[Depth]
    BY <1>2
  <2>2. QED BY <1>1, <1>3, <2>1 DEF IsPop
<1>10. Len(frames') = Depth - 1 /\ \A j \in 1..Depth - 1 : frames'[j] = frames[j]
  BY <1>1, <1>2
<1>11. Depth \in Nat /\ Depth = Len(frames) /\ Depth > 0
  BY <1>1, <1>2
<1>8. Popped(frames, ctxs, frames', ctxs', Depth, n)
  BY <1>3, <1>4, <1>6, <1>7, <1>10, <1>11 DEF Popped
<1>9. QED BY <1>3, <1>8

LEMMA PopCtxEndOnce ==
  ASSUME IInv, Balanced, ~threw, "loop" \notin Ops,
         DeferOK(frames, ctxs, runs, deferCount), PopCtxEnd
  PROVE  DeferOK(frames', ctxs', runs', deferCount')
<1>1. DeferOK(frames', ctxs', runs, deferCount)
  BY TopPopped, PopsEnd
<1>2. QED BY <1>1 DEF PopCtxEnd

LEMMA TopAdds ==
  ASSUME IInv, DeferNext
  PROVE  /\ SamePops(frames, frames') /\ runs' = runs
         /\ deferCount \in Nat /\ deferCount + 1 \in DeferId /\ deferCount' = deferCount + 1
         /\ \E list, m, item :
              /\ Added(ctxs, ctxs', list, Len(ctxs), m, deferCount + 1)
              /\ ctxs[Len(ctxs)] \in Seq(Deferred) /\ item \in Deferred
              /\ item.id = deferCount + 1 /\ list = Append(ctxs[Len(ctxs)], item)
<1>1. /\ Active /\ Depth \in Nat /\ Depth = Len(frames) /\ DOMAIN frames = 1..Depth
      /\ \A i \in 1..Depth : frames[i] \in FrameType
  BY FramesType, RunningActive DEF IInv, DeferNext, At, Depth
<1>2. PICK owner, id, item :
        /\ id = deferCount + 1 /\ item = [id |-> id, env |-> Top.env]
        /\ frames' = [i \in DOMAIN frames |->
             IF i = owner THEN [frames[i] EXCEPT !.owes = @ \union {id}] ELSE frames[i]]
        /\ ctxs' = IF ctxs = << >> THEN << <<item>> >>
                                   ELSE [ctxs EXCEPT ![Len(ctxs)] = Append(@, item)]
  BY DEF DeferNext
<1>3. /\ deferCount \in Nat /\ deferCount + 1 \in DeferId /\ deferCount' = deferCount + 1
      /\ runs' = runs
  BY ConstantTypes DEF DeferNext, IInv, TypeOK, DeferId
<1>4. SamePops(frames, frames')
  <2>1. Len(frames') = Depth /\ \A i \in 1..Depth :
          frames'[i] = IF i = owner THEN [frames[i] EXCEPT !.owes = @ \union {id}] ELSE frames[i]
    BY <1>1, <1>2
  <2>2. ASSUME NEW i \in 1..Depth
        PROVE  /\ frames'[i].op = frames[i].op /\ frames'[i].list = frames[i].list
               /\ frames'[i].ctx = frames[i].ctx
    <3>1. frames[i] \in FrameType
      BY <1>1
    <3>2. QED BY <2>1, <3>1 DEF FrameType
  <2>3. QED BY <1>1, <2>1, <2>2 DEF SamePops, IsPop
<1> DEFINE n == Len(ctxs)
           m == Len(ctxs[n])
           list == Append(ctxs[n], item)
<1>6. /\ ctxs # << >> /\ n \in Nat /\ n >= 1 /\ ctxs[n] \in Seq(Deferred)
      /\ ctxs \in Seq(Seq(Deferred))
  BY <1>1, CtxsType
<1>7. m \in Nat /\ item.id = deferCount + 1
  BY <1>2, <1>6
<1>8. item \in Deferred
  <2>1. Top.env \in Nat
    BY RunningFacts DEF DeferNext, At, Running
  <2>2. QED BY <1>2, <1>3, <2>1 DEF Deferred
<1>9. Len(list) = m + 1 /\ list[m + 1] = item /\ \A i \in 1..m : list[i] = ctxs[n][i]
  BY <1>6, <1>8, AppendProperties
<1>10. Len(ctxs') = n /\ ctxs'[n] = list /\ \A k \in 1..n : k # n => ctxs'[k] = ctxs[k]
  <2>1. ctxs' = [ctxs EXCEPT ![n] = list]
    BY <1>2, <1>6
  <2> HIDE DEF list
  <2>2. QED BY <1>6, <2>1
<1>11. list[m + 1] = item /\ list = Append(ctxs[n], item)
  BY <1>9
<1> HIDE DEF list, m, n
<1>12. n = Len(ctxs) /\ m = Len(ctxs[n])
  BY DEF n, m
<1>13. list[m + 1].id = deferCount + 1
  BY <1>7, <1>11
<1>14. Added(ctxs, ctxs', list, n, m, deferCount + 1)
  BY <1>6, <1>7, <1>9, <1>10, <1>12, <1>13 DEF Added
<1>15. QED BY <1>3, <1>4, <1>6, <1>7, <1>8, <1>11, <1>12, <1>14

LEMMA DeferNextOnce ==
  ASSUME IInv, DeferOK(frames, ctxs, runs, deferCount), DeferNext
  PROVE  DeferOK(frames', ctxs', runs', deferCount')
<1>1. /\ SamePops(frames, frames') /\ runs' = runs
      /\ deferCount \in Nat /\ deferCount + 1 \in DeferId /\ deferCount' = deferCount + 1
  BY TopAdds
<1>2. PICK list, m : Added(ctxs, ctxs', list, Len(ctxs), m, deferCount + 1)
  BY TopAdds
<1>3. DeferOK(frames', ctxs, runs, deferCount)
  BY <1>1, PopsSame
<1>4. DeferOK(frames', ctxs', runs, deferCount + 1)
  BY <1>1, <1>2, <1>3, PopsDefer
<1>5. QED BY <1>1, <1>4

\* DeferOK is about its arguments alone.
LEMMA OnceEnd ==
  ASSUME DeferOK(frames', ctxs', runs', deferCount') \/ status' = "exit",
         \A d \in DeferId : runs'[d] <= 1
  PROVE  OnceInv'
BY DEF OnceInv, Alive, DeferredAtMostOnce, DeferOK, IdsDistinct, Waiting, PopsRemain, Unused, Remaining,
       Ends, IsPop

\* The step leaves what pop_ctx works on alone.
LEMMA SameOnce ==
  ASSUME DeferOK(frames, ctxs, runs, deferCount), DeferredAtMostOnce,
         SamePops(frames, frames'), UNCHANGED <<ctxs, runs, deferCount>>
  PROVE  OnceInv'
<1>1. DeferOK(frames', ctxs, runs, deferCount)
  BY PopsSame
<1>2. QED BY <1>1, OnceEnd DEF DeferredAtMostOnce

LEMMA ReturnOnce ==
  ASSUME IInv, DeferOK(frames, ctxs, runs, deferCount), DeferredAtMostOnce,
         Running, ~IsPop(Top), Return
  PROVE  OnceInv'
<1>1. SamePops(frames, frames') /\ UNCHANGED <<ctxs, runs, deferCount>>
  BY BelowPops, RunningActive DEF Return
<1>2. QED BY <1>1, SameOnce

LEMMA StepOnce ==
  ASSUME IInv, DeferOK(frames, ctxs, runs, deferCount), DeferredAtMostOnce,
         Running, ~IsPop(Top), NEW pc \in PCs, Step(pc)
  PROVE  OnceInv'
<1>1. SamePops(frames, frames') /\ UNCHANGED <<ctxs, runs, deferCount>>
  BY GotoPops, RunningActive DEF Step
<1>2. QED BY <1>1, SameOnce

LEMMA ListOnce ==
  ASSUME IInv, Balanced, ~threw, ~threw', "loop" \notin Ops, Evaluating, DeferredAtMostOnce,
         DeferOK(frames, ctxs, runs, deferCount), NEW walks,
         HandleList(Resumed, EvalEnv, walks), (runs' = runs \/ runs' = RunsNow)
  PROVE  OnceInv'
<1>1. /\ DeferOK(Resumed, ctxs, runs', deferCount) /\ \A d \in DeferId : runs'[d] <= 1
      /\ Resumed \in Seq(FrameType)
  BY CellDoneOnce
<1>2. Active /\ EvalEnv \in Nat
  BY RunsNowType, RunningActive DEF Evaluating
<1>3. DeferOK(frames', ctxs', runs', deferCount') \/ status' = "exit"
  BY <1>1, <1>2, HandleListOnce
<1>4. QED BY <1>1, <1>3, OnceEnd

LEMMA InitOnce == ASSUME Init PROVE OnceInv
<1>1. Len(<< >>) = 0 /\ Len(<< << >> >>) = 1 /\ << << >> >>[1] = << >>
  OBVIOUS
<1>2. frames = << >> /\ ctxs = << << >> >> /\ runs = [d \in DeferId |-> 0] /\ deferCount = 0
  BY DEF Init
<1>3. \A k \in 1..1 : Len(ctxs[k]) = 0
  BY <1>1, <1>2
<1>4. Len(ctxs) = 1 /\ Len(frames) = 0
  BY <1>1, <1>2
<1>5. DeferOK(frames, ctxs, runs, deferCount)
  BY <1>2, <1>3, <1>4 DEF DeferOK, IdsDistinct, Waiting, PopsRemain, Unused
<1>6. DeferredAtMostOnce
  BY <1>2 DEF DeferredAtMostOnce
<1>7. QED BY <1>5, <1>6 DEF OnceInv

LEMMA NextOnce == ASSUME IInv, Balanced, OnceInv, [Next]_vars PROVE OnceInv'
<1>1. CASE "loop" \in Ops \/ threw'
  BY <1>1 DEF OnceInv
<1>2. CASE UNCHANGED vars
  BY <1>2 DEF vars, OnceInv, Alive, DeferredAtMostOnce, DeferOK, IdsDistinct, Waiting,
              PopsRemain, Unused, Remaining, Ends, IsPop
<1>3. ASSUME "loop" \notin Ops, ~threw', Next, ~UNCHANGED vars
      PROVE  OnceInv'
  <2> USE <1>3
  <2>1. ~threw
    BY ThrewStays
  <2>2. DeferredAtMostOnce
    BY <2>1 DEF OnceInv
  <2>3. ASSUME Running \/ status = "idle"
        PROVE  DeferOK(frames, ctxs, runs, deferCount) /\ Active
    BY <2>1, <2>3 DEF OnceInv, Alive, Active, Running
  <2> USE <2>1, <2>2
  <2>4. CASE ProcessYielding \/ ProcessAtom
    <3>1. /\ Evaluating /\ Running /\ frames' = Resumed /\ (runs' = runs \/ runs' = RunsNow)
          /\ UNCHANGED <<ctxs, deferCount>>
      BY <2>4 DEF ProcessYielding, ProcessAtom, Evaluating
    <3>2. Evaluating /\ Running /\ frames' = Resumed
      BY <2>4 DEF ProcessYielding, ProcessAtom, Evaluating
    <3>3. DeferOK(Resumed, ctxs, runs', deferCount) /\ \A d \in DeferId : runs'[d] <= 1
      BY <2>3, <3>1, <3>2, CellDoneOnce
    <3>4. QED BY <3>1, <3>2, <3>3, OnceEnd
  <2>5. CASE ProcessList \/ ComputeOperator
    <3>1. Running /\ Evaluating
      <4>1. CASE ProcessList
        BY <4>1 DEF ProcessList, Evaluating
      <4>2. CASE ComputeOperator
        BY <4>2 DEF ComputeOperator, Evaluating, At, Resume
      <4>3. QED BY <2>5, <4>1, <4>2
    <3>5. HandleList(Resumed, EvalEnv, WalksData(Top)) \/ HandleList(Resumed, EvalEnv, TRUE)
      BY <2>5 DEF ProcessList, ComputeOperator
    <3>2. (runs' = runs \/ runs' = RunsNow)
      BY <2>5 DEF ProcessList, ComputeOperator
    <3>3. DeferOK(frames, ctxs, runs, deferCount)
      BY <2>3, <3>1
    <3>4. QED BY <3>1, <3>2, <3>3, <3>5, ListOnce
  <2>6. CASE CallOperator
    <3>1. /\ Running /\ Top.op = "head" /\ runs' = runs
          /\ CallFunction(Below, Top.env) \/ Raise(Below, "exception")
      BY <2>6 DEF CallOperator, At
    <3>2. /\ DeferOK(frames, ctxs, runs, deferCount) /\ Active /\ Depth > 0 /\ ~IsPop(Top)
          /\ Top.env \in Nat
      BY <2>3, <3>1, RunningActive, RunningFacts DEF IsPop
    <3>3. SamePops(frames, Below) /\ Below \in Seq(FrameType)
      BY <3>2, BelowPops, BelowFrames
    <3>4. DeferOK(Below, ctxs, runs, deferCount)
      BY <3>2, <3>3, PopsSame
    <3>5. CallFunction(Below, Top.env)
      BY <3>1 DEF Raise
    <3>7. DeferOK(frames', ctxs', runs, deferCount') \/ status' = "exit"
      BY <3>2, <3>3, <3>4, <3>5, CallOnce
    <3>8. QED BY <3>1, <3>7, OnceEnd DEF DeferredAtMostOnce
  <2>7. CASE PrimThrow \/ LambdaThrow \/ ThrowThrow \/ DeferThrow
    BY <2>7 DEF PrimThrow, LambdaThrow, ThrowThrow, DeferThrow, Raise
  <2>8. ASSUME Running, ~IsPop(Top), Return
        PROVE  OnceInv'
    BY <2>3, <2>8, ReturnOnce
  <2>9. CASE \/ PrimReturn \/ IfReturn \/ TryReturn \/ DeferReturn \/ WalkEnd
             \/ LambdaReturn \/ YieldReturn
    BY <2>8, <2>9 DEF PrimReturn, IfReturn, TryReturn, DeferReturn, WalkEnd, LambdaReturn,
                      YieldReturn, At, IsPop
  <2>10. ASSUME Running, ~IsPop(Top), NEW pc \in PCs, Step(pc)
         PROVE  OnceInv'
    BY <2>3, <2>10, StepOnce
  <2>11. {"body", "post", "item", "ret", "reset", "branch"} \subseteq PCs
    BY DEF PCs
  <2>12. CASE LoopTest \/ LoopBodyDone \/ WalkNext
    BY <2>8, <2>10, <2>11, <2>12 DEF LoopTest, LoopBodyDone, WalkNext, At, Raise, IsPop
  <2>13. CASE LambdaEnter
    <3>1. /\ Running /\ ~IsPop(Top) /\ frames' = Goto("body") /\ ctxs' = Append(ctxs, << >>)
          /\ runs' = runs /\ deferCount' = deferCount
      BY <2>13 DEF LambdaEnter, At, IsPop
    <3>2. DeferOK(frames, ctxs, runs, deferCount) /\ Active /\ Depth > 0
      BY <2>3, <3>1, RunningActive
    <3>3. SamePops(frames, frames')
      BY <2>11, <3>1, <3>2, GotoPops
    <3>4. DeferOK(frames', ctxs, runs, deferCount)
      BY <3>2, <3>3, PopsSame
    <3>5. DeferOK(frames', ctxs', runs, deferCount)
      BY <3>1, <3>2, <3>4, PushCtxOnce
    <3>6. QED BY <3>1, <3>5, OnceEnd DEF DeferredAtMostOnce
  <2>14. ASSUME Running, ~IsPop(Top), HoldsCtx(Top) = 1, NEW pc \in PCs, PopCtx(Goto(pc), Depth)
         PROVE  OnceInv'
    <3>1. DeferOK(frames, ctxs, runs, deferCount) /\ Depth \in Nat /\ runs' = runs
      BY <2>3, <2>14, BalancedRunning DEF PopCtx
    <3>2. DeferOK(frames', ctxs', runs', deferCount')
      BY <2>14, <3>1, PopOwnOnce
    <3>3. QED BY <3>1, <3>2, OnceEnd DEF DeferredAtMostOnce
  <2>15. CASE LambdaPop
    <3>1. Running /\ ~IsPop(Top) /\ HoldsCtx(Top) = 1 /\ PopCtx(Goto("reset"), Depth)
      BY <2>15 DEF LambdaPop, At, HoldsCtx, IsLambda, IsPop
    <3>2. QED BY <2>11, <2>14, <3>1
  <2>16. CASE IfTest
    <3>1. /\ Running /\ ~IsPop(Top) /\ HoldsCtx(Top) = 1
          /\ PopCtx(Goto("branch"), Depth) \/ PopCtx(Goto("ret"), Depth)
      BY <2>16 DEF IfTest, At, HoldsCtx, IsLambda, IsPop, Raise
    <3>2. QED BY <2>11, <2>14, <3>1
  <2>17. CASE TryPop
    <3>1. Running /\ ~IsPop(Top) /\ HoldsCtx(Top) = 1 /\ PopCtx(Goto("ret"), Depth)
      BY <2>17 DEF TryPop, At, HoldsCtx, IsLambda, IsPop
    <3>2. QED BY <2>11, <2>14, <3>1
  <2>18. CASE DeferNext
    <3>1. Running /\ runs' = runs
      BY <2>18 DEF DeferNext, At
    <3>2. DeferOK(frames', ctxs', runs', deferCount')
      BY <2>3, <2>18, <3>1, DeferNextOnce
    <3>3. QED BY <3>1, <3>2, OnceEnd DEF DeferredAtMostOnce
  <2>19. CASE ExitNow
    <3>1. status' = "exit" /\ runs' = runs
      BY <2>19 DEF ExitNow
    <3>2. QED BY <3>1, OnceEnd DEF DeferredAtMostOnce
  <2>20. CASE PopCtxEnd
    <3>1. Running /\ runs' = runs
      BY <2>20 DEF PopCtxEnd, At
    <3>2. DeferOK(frames', ctxs', runs', deferCount')
      BY <2>3, <2>20, <3>1, PopCtxEndOnce
    <3>3. QED BY <3>1, <3>2, OnceEnd DEF DeferredAtMostOnce
  <2>21. CASE Catch \/ DeferredFailed \/ Unwind \/ InstructionFailed
    <3>1. Alive /\ status \in Exceptions
      BY <2>21 DEF Catch, DeferredFailed, Unwind, InstructionFailed, Alive, Exceptions
    <3>2. QED BY <3>1 DEF Balanced, Exceptions
  <2>22. CASE Instruction \/ Finish
    <3>1. status = "idle"
      BY <2>22 DEF Instruction, Finish
    <3>2. DeferOK(frames, ctxs, runs, deferCount) /\ Active /\ Depth = 0
      BY <2>3, <3>1 DEF Balanced, Alive
    <3>3. frames = << >> /\ << >> \in Seq(FrameType) /\ 0 \in Nat
      BY <3>2, EmptySeq DEF IInv, TypeOK, Depth
    <3>4. DeferOK(<< >>, ctxs, runs, deferCount)
      BY <3>2, <3>3
    <3>5. CASE Instruction
      <4>1. HandleList(<< >>, 0, FALSE) /\ runs' = runs
        BY <3>5 DEF Instruction
      <4>2. DeferOK(frames', ctxs', runs, deferCount') \/ status' = "exit"
        BY <3>2, <3>3, <3>4, <4>1, HandleListOnce
      <4>3. QED BY <4>1, <4>2, OnceEnd DEF DeferredAtMostOnce
    <3>6. CASE Finish
      <4>1. PopCtx(<< >>, 0) /\ runs' = runs
        BY <3>6 DEF Finish, PopCtx
      <4>2. ~Ends(<< >>, Len(ctxs))
        <5>1. Len(<< >>) = 0
          OBVIOUS
        <5>2. QED BY <5>1 DEF Ends
      <4>3. DeferOK(frames', ctxs', runs', deferCount')
        BY <3>2, <3>3, <3>4, <4>1, <4>2, PopCtxOnce
      <4>4. QED BY <4>1, <4>3, OnceEnd DEF DeferredAtMostOnce
    <3>7. QED BY <2>22, <3>5, <3>6
  <2>23. QED
    BY <2>4, <2>5, <2>6, <2>7, <2>9, <2>12, <2>13, <2>15, <2>16, <2>17, <2>18, <2>19,
       <2>20, <2>21, <2>22 DEF Next, Machine, Ended
<1>4. QED BY <1>1, <1>2, <1>3

-----------------------------------------------------------------------------
(***************************************************************************)
(* The theorems.                                                           *)
(***************************************************************************)
\* In programs that neither loop nor throw, a deferred instruction is waiting in one
\* context or has been run by pop_ctx (interpreter.cpp), never both.
THEOREM OnceHolds == Spec => [](IInv /\ Balanced /\ OnceInv)
<1>1. Init => IInv /\ Balanced /\ OnceInv
  BY InitInv, InitBalanced, InitOnce
<1>2. IInv /\ Balanced /\ OnceInv /\ [Next]_vars => IInv' /\ Balanced' /\ OnceInv'
  BY NextInv, NextBalanced, NextOnce
<1>3. QED BY <1>1, <1>2, PTL DEF Spec

\* Whatever else a program does, with however many calls, contexts, deferred
\* instructions that call, defer or yield themselves, and early returns: until
\* an exception is thrown, a program without loops executes no deferred
\* instruction twice.
THEOREM NoDeferredTwice ==
  ASSUME "loop" \notin Ops
  PROVE  Spec => [](~threw => DeferredAtMostOnce)
<1>1. IInv /\ Balanced /\ OnceInv => (~threw => DeferredAtMostOnce)
  BY DEF OnceInv
<1>2. QED BY <1>1, OnceHolds, PTL

\* A program whose builtins do not throw, without loops, executes no deferred
\* instruction twice.
THEOREM DeferredOnce ==
  ASSUME "loop" \notin Ops, Throws = {}, "throw" \notin Ops, MaxFrames <= MaxCallDepth
  PROVE  Spec => []DeferredAtMostOnce
<1>1. ~threw /\ (~threw => DeferredAtMostOnce) => DeferredAtMostOnce
  OBVIOUS
<1>2. QED BY <1>1, NoDeferredTwice, NothingIsThrown, PTL

-----------------------------------------------------------------------------
(***************************************************************************)
(* The refinement of DeferContract.  Shows says what its scopes are for    *)
(* given frames and contexts, and each change of these has the scopes that *)
(* the contract's actions ask for.                                         *)
(***************************************************************************)
ScopeType == [pending : Seq(Nat), ending : BOOLEAN]
Open(list)    == [pending |-> Ids(list), ending |-> FALSE]
Closing(list) == [pending |-> Ids(list), ending |-> TRUE]

Shows(stack, cx, sc) ==
  /\ sc \in Seq(ScopeType) /\ Len(sc) = Len(cx)
  /\ \A i \in 1..Len(cx) : ~Ends(stack, i) => sc[i] = Open(cx[i])
  /\ \A j \in 1..Len(stack) : IsPop(stack[j]) =>
       /\ stack[j].ctx \in Nat /\ stack[j].ctx + 1 \in 1..Len(cx)
       /\ sc[stack[j].ctx + 1] = Closing(stack[j].list)

LEMMA ShowsOne ==
  ASSUME NEW stack, NEW cx, NEW sc, Shows(stack, cx, sc),
         NEW sd, Shows(stack, cx, sd), Len(cx) \in Nat
  PROVE  sc = sd
<1>1. ASSUME NEW i \in 1..Len(cx) PROVE sc[i] = sd[i]
  <2>1. CASE ~Ends(stack, i)
    BY <2>1 DEF Shows
  <2>2. CASE Ends(stack, i)
    <3>1. PICK j \in 1..Len(stack) : IsPop(stack[j]) /\ stack[j].ctx = i - 1
      BY <2>2 DEF Ends
    <3>2. stack[j].ctx + 1 = i
      BY <3>1
    <3>3. QED BY <3>1, <3>2 DEF Shows
  <2>3. QED BY <2>1, <2>2
<1>2. /\ sc \in Seq(ScopeType) /\ sd \in Seq(ScopeType) /\ Len(sc) = Len(sd)
      /\ \A i \in 1..Len(sc) : sc[i] = sd[i]
  BY <1>1 DEF Shows
<1>3. QED BY <1>2, SeqEqual

LEMMA ShowsSame ==
  ASSUME NEW stack, NEW other, SamePops(stack, other), NEW cx, NEW sc, Shows(stack, cx, sc)
  PROVE  Shows(other, cx, sc)
<1>1. \A k : Ends(stack, k) => Ends(other, k)
  BY DEF Ends, SamePops
<1>2. QED BY <1>1 DEF Shows, SamePops

\* The identifiers of a list, one by one.
LEMMA IdsFacts ==
  ASSUME NEW list \in Seq(Deferred)
  PROVE  /\ Ids(list) \in Seq(Nat) /\ Len(Ids(list)) = Len(list)
         /\ \A i \in 1..Len(list) : Ids(list)[i] = list[i].id
<1>1. Len(list) \in Nat /\ DOMAIN list = 1..Len(list)
  OBVIOUS
<1>2. ASSUME NEW i \in 1..Len(list) PROVE list[i].id \in Nat
  <2>1. list[i] \in Deferred
    OBVIOUS
  <2>2. QED BY <2>1, ConstantTypes DEF Deferred, DeferId
<1>3. Ids(list) = [i \in 1..Len(list) |-> list[i].id]
  BY <1>1 DEF Ids
<1>4. QED BY <1>1, <1>2, <1>3

LEMMA IdsTail ==
  ASSUME NEW list \in Seq(Deferred), list # << >>
  PROVE  /\ Ids(list) # << >> /\ Head(Ids(list)) = Head(list).id
         /\ Tail(list) \in Seq(Deferred) /\ Ids(Tail(list)) = Tail(Ids(list))
<1> DEFINE n == Len(list)
           t == Tail(list)
           u == Ids(list)
<1>1. /\ n \in Nat /\ n >= 1 /\ t \in Seq(Deferred) /\ Len(t) = n - 1
      /\ Head(list) = list[1] /\ \A i \in 1..n - 1 : t[i] = list[i + 1]
  BY EmptySeq, HeadTailProperties
<1>2. u \in Seq(Nat) /\ Len(u) = n /\ \A i \in 1..n : u[i] = list[i].id
  BY IdsFacts
<1>3. u # << >>
  BY <1>1, <1>2, EmptySeq
<1>4. /\ Head(u) = u[1] /\ Tail(u) \in Seq(Nat) /\ Len(Tail(u)) = n - 1
      /\ \A i \in 1..n - 1 : Tail(u)[i] = u[i + 1]
  BY <1>2, <1>3, HeadTailProperties
<1>5. /\ Ids(t) \in Seq(Nat) /\ Len(Ids(t)) = n - 1
      /\ \A i \in 1..n - 1 : Ids(t)[i] = t[i].id
  BY <1>1, IdsFacts
<1> HIDE DEF n, t, u
<1>6. \A i \in 1..n - 1 : i \in 1..n /\ i + 1 \in 1..n
  BY <1>1
<1>7. \A i \in 1..n - 1 : Ids(t)[i] = Tail(u)[i]
  BY <1>1, <1>2, <1>4, <1>5, <1>6
<1>8. Ids(t) = Tail(u)
  BY <1>4, <1>5, <1>7, SeqEqual
<1>9. Head(u) = Head(list).id
  BY <1>1, <1>2, <1>4
<1>10. QED BY <1>1, <1>3, <1>8, <1>9 DEF t, u

LEMMA IdsAppend ==
  ASSUME NEW list \in Seq(Deferred), NEW item \in Deferred
  PROVE  Ids(Append(list, item)) = Append(Ids(list), item.id)
<1> DEFINE n == Len(list)
           new == Append(list, item)
           u == Ids(list)
           v == Append(u, item.id)
<1>1. /\ n \in Nat /\ new \in Seq(Deferred) /\ Len(new) = n + 1 /\ new[n + 1] = item
      /\ \A i \in 1..n : new[i] = list[i]
  BY AppendProperties
<1>2. u \in Seq(Nat) /\ Len(u) = n /\ \A i \in 1..n : u[i] = list[i].id
  BY IdsFacts
<1>3. item.id \in Nat
  BY ConstantTypes DEF Deferred, DeferId
<1>4. /\ v \in Seq(Nat) /\ Len(v) = n + 1 /\ v[n + 1] = item.id
      /\ \A i \in 1..n : v[i] = u[i]
  BY <1>2, <1>3, AppendProperties
<1>5. /\ Ids(new) \in Seq(Nat) /\ Len(Ids(new)) = n + 1
      /\ \A i \in 1..n + 1 : Ids(new)[i] = new[i].id
  BY <1>1, IdsFacts
<1> HIDE DEF n, new, u, v
<1>6. ASSUME NEW i \in 1..n + 1 PROVE Ids(new)[i] = v[i]
  <2>1. CASE i = n + 1
    BY <1>1, <1>4, <1>5, <2>1
  <2>2. CASE i # n + 1
    <3>1. i \in 1..n
      BY <1>1, <2>2
    <3>2. QED BY <1>1, <1>2, <1>4, <1>5, <3>1
  <2>3. QED BY <2>1, <2>2
<1>7. Ids(new) = v
  BY <1>4, <1>5, <1>6, SeqEqual
<1>8. QED BY <1>7 DEF new, u, v

\* The last scope of a stack of scopes is exchanged for another.
LEMMA ReplaceLast ==
  ASSUME NEW sc \in Seq(ScopeType), NEW n \in Nat, Len(sc) = n + 1, NEW x \in ScopeType
  PROVE  /\ SubSeq(sc, 1, n) \in Seq(ScopeType) /\ Len(SubSeq(sc, 1, n)) = n
         /\ \A i \in 1..n : SubSeq(sc, 1, n)[i] = sc[i]
         /\ Append(SubSeq(sc, 1, n), x) \in Seq(ScopeType)
         /\ Len(Append(SubSeq(sc, 1, n), x)) = n + 1
         /\ Append(SubSeq(sc, 1, n), x)[n + 1] = x
         /\ \A i \in 1..n : Append(SubSeq(sc, 1, n), x)[i] = sc[i]
<1>1. \A i \in 1..n : sc[i] \in ScopeType
  OBVIOUS
<1>2. /\ SubSeq(sc, 1, n) \in Seq(ScopeType) /\ Len(SubSeq(sc, 1, n)) = n
      /\ \A i \in 1..n : SubSeq(sc, 1, n)[i] = sc[i]
  BY <1>1, SubSeqProperties
<1>3. QED BY <1>2, AppendProperties

LEMMA ScopeTypes ==
  ASSUME NEW list \in Seq(Deferred)
  PROVE  Open(list) \in ScopeType /\ Closing(list) \in ScopeType
BY IdsFacts DEF Open, Closing, ScopeType

LEMMA ShowsPush ==
  ASSUME NEW stack, NEW cx, NEW sc, Shows(stack, cx, sc),
         NEW n \in Nat, n = Len(cx), NEW new, Len(new) = n + 1, new[n + 1] = << >>,
         \A k \in 1..n : new[k] = cx[k]
  PROVE  Shows(stack, new, Append(sc, Open(<< >>)))
<1> DEFINE sd == Append(sc, Open(<< >>))
<1>1. Open(<< >>) \in ScopeType
  BY EmptySeq, ScopeTypes
<1>2. /\ sd \in Seq(ScopeType) /\ Len(sd) = n + 1 /\ sd[n + 1] = Open(<< >>)
      /\ \A i \in 1..n : sd[i] = sc[i]
  BY <1>1, AppendProperties DEF Shows
<1> HIDE DEF sd
<1>3. ASSUME NEW i \in 1..n + 1, ~Ends(stack, i) PROVE sd[i] = Open(new[i])
  <2>1. CASE i = n + 1
    BY <1>2, <2>1
  <2>2. CASE i # n + 1
    <3>1. i \in 1..n
      BY <2>2
    <3>2. QED BY <1>2, <1>3, <3>1 DEF Shows
  <2>3. QED BY <2>1, <2>2
<1>4. ASSUME NEW j \in 1..Len(stack), IsPop(stack[j])
      PROVE  /\ stack[j].ctx \in Nat /\ stack[j].ctx + 1 \in 1..n + 1
             /\ sd[stack[j].ctx + 1] = Closing(stack[j].list)
  <2>1. stack[j].ctx \in Nat /\ stack[j].ctx + 1 \in 1..n /\ sc[stack[j].ctx + 1] = Closing(stack[j].list)
    BY <1>4 DEF Shows
  <2>2. QED BY <1>2, <2>1
<1>5. Shows(stack, new, sd)
  BY <1>2, <1>3, <1>4 DEF Shows
<1>6. QED BY <1>5 DEF sd

\* The pop_ctx of the innermost context is pushed, with what the context defers.
Started(stack, cx, new, f, c, n) ==
  /\ n \in Nat /\ n = Len(stack) /\ Len(new) = n + 1 /\ new[n + 1] = f
  /\ \A j \in 1..n : new[j] = stack[j]
  /\ IsPop(f) /\ f.ctx = c /\ f.list = cx[c + 1] /\ c + 1 = Len(cx)

LEMMA ShowsStart ==
  ASSUME NEW stack, NEW cx, NEW sc, Shows(stack, cx, sc),
         NEW c \in Nat, cx[c + 1] \in Seq(Deferred), ~Ends(stack, c + 1),
         NEW new, NEW f, NEW n, Started(stack, cx, new, f, c, n)
  PROVE  /\ Shows(new, cx, Append(SubSeq(sc, 1, c), Closing(cx[c + 1])))
         /\ sc[c + 1] = Open(cx[c + 1])
<1> DEFINE sd == Append(SubSeq(sc, 1, c), Closing(cx[c + 1]))
<1> USE DEF Started
<1>1. /\ sd \in Seq(ScopeType) /\ Len(sd) = c + 1 /\ sd[c + 1] = Closing(cx[c + 1])
      /\ \A i \in 1..c : sd[i] = sc[i]
  BY ScopeTypes, ReplaceLast DEF Shows
<1> HIDE DEF sd
<1>2. ASSUME NEW i \in 1..c + 1, ~Ends(new, i) PROVE sd[i] = Open(cx[i])
  <2>1. i # c + 1
    <3>1. n + 1 \in 1..Len(new) /\ IsPop(new[n + 1]) /\ new[n + 1].ctx = (c + 1) - 1
      OBVIOUS
    <3>2. QED BY <1>2, <3>1 DEF Ends
  <2>2. ASSUME Ends(stack, i) PROVE FALSE
    <3>1. PICK j \in 1..n : IsPop(stack[j]) /\ stack[j].ctx = i - 1
      BY <2>2 DEF Ends
    <3>2. j \in 1..Len(new) /\ new[j] = stack[j]
      OBVIOUS
    <3>3. QED BY <1>2, <3>1, <3>2 DEF Ends
  <2>3. i \in 1..c
    BY <2>1
  <2>4. QED BY <1>1, <2>2, <2>3 DEF Shows
<1>3. ASSUME NEW j \in 1..n + 1, IsPop(new[j])
      PROVE  /\ new[j].ctx \in Nat /\ new[j].ctx + 1 \in 1..c + 1
             /\ sd[new[j].ctx + 1] = Closing(new[j].list)
  <2>1. CASE j = n + 1
    BY <1>1, <2>1
  <2>2. CASE j # n + 1
    <3>1. j \in 1..n /\ new[j] = stack[j]
      BY <2>2
    <3>2. stack[j].ctx \in Nat /\ stack[j].ctx + 1 \in 1..c + 1 /\ sc[stack[j].ctx + 1] = Closing(stack[j].list)
      BY <1>3, <3>1 DEF Shows
    <3>3. stack[j].ctx # (c + 1) - 1
      BY <1>3, <3>1 DEF Ends
    <3>4. stack[j].ctx # c
      BY <3>3
    <3>5. stack[j].ctx + 1 \in 1..c
      BY <3>2, <3>4
    <3>6. QED BY <1>1, <3>1, <3>2, <3>5
  <2>3. QED BY <2>1, <2>2
<1>4. Shows(new, cx, sd)
  BY <1>1, <1>2, <1>3 DEF Shows
<1>5. sc[c + 1] = Open(cx[c + 1])
  BY DEF Shows
<1>6. QED BY <1>4, <1>5 DEF sd

LEMMA ShowsAdvance ==
  ASSUME NEW stack, NEW cx, NEW sc, Shows(stack, cx, sc),
         NEW next, NEW d, NEW f, NEW g, NEW n, Advanced(stack, next, d, f, g, n),
         NEW c \in Nat, c + 1 = Len(cx), f.ctx = c, g.list \in Seq(Deferred)
  PROVE  /\ Shows(next, cx, Append(SubSeq(sc, 1, c), Closing(g.list)))
         /\ sc[c + 1] = Closing(f.list)
<1> DEFINE sd == Append(SubSeq(sc, 1, c), Closing(g.list))
<1> USE DEF Advanced
<1>1. /\ sd \in Seq(ScopeType) /\ Len(sd) = c + 1 /\ sd[c + 1] = Closing(g.list)
      /\ \A i \in 1..c : sd[i] = sc[i]
  BY ScopeTypes, ReplaceLast DEF Shows
<1> HIDE DEF sd
<1>2. ASSUME NEW i \in 1..c + 1, ~Ends(next, i) PROVE sd[i] = Open(cx[i])
  <2>1. i # c + 1
    <3>1. d \in 1..Len(next) /\ IsPop(next[d]) /\ next[d].ctx = (c + 1) - 1
      OBVIOUS
    <3>2. QED BY <1>2, <3>1 DEF Ends
  <2>2. ASSUME Ends(stack, i) PROVE FALSE
    <3>1. PICK j \in 1..Len(stack) : IsPop(stack[j]) /\ stack[j].ctx = i - 1
      BY <2>2 DEF Ends
    <3>2. j # d
      BY <2>1, <3>1
    <3>3. j \in 1..Len(next) /\ next[j] = stack[j]
      BY <3>2
    <3>4. QED BY <1>2, <3>1, <3>3 DEF Ends
  <2>3. i \in 1..c
    BY <2>1
  <2>4. QED BY <1>1, <2>2, <2>3 DEF Shows
<1>3. ASSUME NEW j \in 1..Len(next), IsPop(next[j])
      PROVE  /\ next[j].ctx \in Nat /\ next[j].ctx + 1 \in 1..c + 1
             /\ sd[next[j].ctx + 1] = Closing(next[j].list)
  <2>1. CASE j = d
    BY <1>1, <2>1
  <2>2. CASE j # d
    <3>1. j \in 1..Len(stack) /\ next[j] = stack[j] /\ stack[j].ctx # c
      BY <1>3, <2>2
    <3>2. stack[j].ctx \in Nat /\ stack[j].ctx + 1 \in 1..c + 1 /\ sc[stack[j].ctx + 1] = Closing(stack[j].list)
      BY <1>3, <3>1 DEF Shows
    <3>3. stack[j].ctx \in Nat /\ stack[j].ctx + 1 \in 1..c
      BY <3>1, <3>2
    <3>4. QED BY <1>1, <3>1, <3>2, <3>3
  <2>3. QED BY <2>1, <2>2
<1>4. Shows(next, cx, sd)
  BY <1>1, <1>2, <1>3 DEF Shows
<1>5. sc[c + 1] = Closing(f.list)
  BY DEF Shows
<1>6. QED BY <1>4, <1>5 DEF sd

LEMMA ShowsEnd ==
  ASSUME NEW stack, NEW cx, NEW sc, Shows(stack, cx, sc),
         NEW below, NEW outer, NEW d, NEW n, Popped(stack, cx, below, outer, d, n)
  PROVE  /\ Shows(below, outer, SubSeq(sc, 1, n))
         /\ sc[n + 1] = Closing(stack[d].list)
<1> DEFINE sd == SubSeq(sc, 1, n)
<1> USE DEF Popped
<1>1. \A i \in 1..n : sc[i] \in ScopeType
  BY DEF Shows
<1>2. sd \in Seq(ScopeType) /\ Len(sd) = n /\ \A i \in 1..n : sd[i] = sc[i]
  BY <1>1, SubSeqProperties
<1> HIDE DEF sd
<1>3. ASSUME NEW i \in 1..n, ~Ends(below, i) PROVE sd[i] = Open(outer[i])
  <2>1. ASSUME Ends(stack, i) PROVE FALSE
    <3>1. PICK j \in 1..d : IsPop(stack[j]) /\ stack[j].ctx = i - 1
      BY <2>1 DEF Ends
    <3>2. j # d
      BY <3>1
    <3>3. j \in 1..Len(below) /\ below[j] = stack[j]
      BY <3>2
    <3>4. QED BY <1>3, <3>1, <3>3 DEF Ends
  <2>2. i \in 1..n + 1 /\ outer[i] = cx[i]
    OBVIOUS
  <2>3. QED BY <1>2, <2>1, <2>2 DEF Shows
<1>4. ASSUME NEW j \in 1..d - 1, IsPop(below[j])
      PROVE  /\ below[j].ctx \in Nat /\ below[j].ctx + 1 \in 1..n
             /\ sd[below[j].ctx + 1] = Closing(below[j].list)
  <2>1. j \in 1..Len(stack) /\ below[j] = stack[j] /\ stack[j].ctx < n
    BY <1>4, SMTT(30)
  <2>2. stack[j].ctx \in Nat /\ stack[j].ctx + 1 \in 1..n + 1 /\ sc[stack[j].ctx + 1] = Closing(stack[j].list)
    BY <1>4, <2>1 DEF Shows
  <2>3. stack[j].ctx \in Nat /\ stack[j].ctx + 1 \in 1..n
    BY <2>1, <2>2
  <2>4. QED BY <1>2, <2>1, <2>2, <2>3
<1>5. Shows(below, outer, sd)
  BY <1>2, <1>3, <1>4 DEF Shows
<1>6. d \in 1..Len(stack)
  OBVIOUS
<1>7. sc[n + 1] = Closing(stack[d].list)
  BY <1>6 DEF Shows
<1>8. QED BY <1>5, <1>7 DEF sd

LEMMA ShowsDefer ==
  ASSUME NEW stack, NEW cx, NEW sc, Shows(stack, cx, sc),
         NEW new, NEW list, NEW n, NEW m, NEW id, Added(cx, new, list, n, m, id),
         list \in Seq(Deferred), ~Ends(stack, n)
  PROVE  /\ Shows(stack, new, Append(SubSeq(sc, 1, n - 1), Open(list)))
         /\ sc[n] = Open(cx[n])
<1> DEFINE c == n - 1
           sd == Append(SubSeq(sc, 1, c), Open(list))
<1> USE DEF Added
<1>1. c \in Nat /\ Len(sc) = c + 1 /\ sc \in Seq(ScopeType) /\ c + 1 = n
  BY DEF Shows
<1> HIDE DEF c
<1>2. /\ sd \in Seq(ScopeType) /\ Len(sd) = n /\ sd[n] = Open(list)
      /\ \A i \in 1..c : sd[i] = sc[i]
  BY <1>1, ScopeTypes, ReplaceLast
<1> HIDE DEF sd
<1>3. ASSUME NEW i \in 1..n, ~Ends(stack, i) PROVE sd[i] = Open(new[i])
  <2>1. CASE i = n
    BY <1>2, <2>1
  <2>2. CASE i # n
    <3>1. i \in 1..c /\ new[i] = cx[i]
      BY <1>1, <2>2
    <3>2. QED BY <1>2, <1>3, <3>1 DEF Shows
  <2>3. QED BY <2>1, <2>2
<1>4. ASSUME NEW j \in 1..Len(stack), IsPop(stack[j])
      PROVE  /\ stack[j].ctx \in Nat /\ stack[j].ctx + 1 \in 1..n
             /\ sd[stack[j].ctx + 1] = Closing(stack[j].list)
  <2>1. stack[j].ctx \in Nat /\ stack[j].ctx + 1 \in 1..n /\ sc[stack[j].ctx + 1] = Closing(stack[j].list)
    BY <1>4 DEF Shows
  <2>2. stack[j].ctx # n - 1
    BY <1>4 DEF Ends
  <2>3. stack[j].ctx \in Nat /\ stack[j].ctx + 1 \in 1..c
    BY <1>1, <2>1, <2>2, SMTT(30)
  <2>4. QED BY <1>2, <2>1, <2>3
<1>5. Shows(stack, new, sd)
  BY <1>2, <1>3, <1>4 DEF Shows
<1>6. sc[n] = Open(cx[n])
  BY DEF Shows
<1>7. QED BY <1>5, <1>6 DEF sd, c

-----------------------------------------------------------------------------
(***************************************************************************)
(* What InterpreterContexts maps the interpreter's state to.               *)
(***************************************************************************)
ScopesNow == [i \in 1..Len(ctxs) |-> ScopeOf(i)]
MapScopes == IF status = "exit" THEN << >> ELSE ScopesNow

ScopeIn(stack, cx, i) ==
  LET ending == {j \in DOMAIN stack : stack[j].op = "deferred" /\ stack[j].ctx = i - 1}
  IN  IF ending = {} THEN [pending |-> Ids(cx[i]), ending |-> FALSE]
      ELSE [pending |-> Ids(stack[CHOOSE j \in ending : TRUE].list), ending |-> TRUE]

\* Every pop_ctx ends a context of its own.
PopsApart(stack, n) ==
  /\ \A j \in 1..Len(stack) : IsPop(stack[j]) =>
       stack[j].ctx \in Nat /\ stack[j].ctx + 1 \in 1..n
  /\ \A j, k \in 1..Len(stack) :
       IsPop(stack[j]) /\ IsPop(stack[k]) /\ stack[j].ctx = stack[k].ctx => j = k

LEMMA ScopesShown ==
  ASSUME NEW stack \in Seq(FrameType), NEW cx, NEW n \in Nat, n = Len(cx),
         \A k \in 1..n : cx[k] \in Seq(Deferred), PopsApart(stack, n),
         NEW sc, sc = [i \in 1..n |-> ScopeIn(stack, cx, i)]
  PROVE  Shows(stack, cx, sc)
<1> DEFINE E(i) == {j \in DOMAIN stack : stack[j].op = "deferred" /\ stack[j].ctx = i - 1}
<1>1. DOMAIN stack = 1..Len(stack) /\ \A j \in 1..Len(stack) : stack[j].list \in Seq(Deferred)
  <2>1. ASSUME NEW j \in 1..Len(stack) PROVE stack[j].list \in Seq(Deferred)
    <3>1. stack[j] \in FrameType
      OBVIOUS
    <3>2. QED BY <3>1 DEF FrameType
  <2>2. DOMAIN stack = 1..Len(stack)
    OBVIOUS
  <2>3. QED BY <2>1, <2>2
<1>2. ASSUME NEW i \in 1..n, ~Ends(stack, i)
      PROVE  sc[i] = Open(cx[i])
  <2>1. E(i) = {}
    BY <1>1, <1>2 DEF Ends, IsPop
  <2>2. QED BY <2>1 DEF ScopeIn, Open
<1>3. ASSUME NEW j \in 1..Len(stack), IsPop(stack[j])
      PROVE  sc[stack[j].ctx + 1] = Closing(stack[j].list)
  <2> DEFINE i == stack[j].ctx + 1
  <2>1. i \in 1..n /\ i - 1 = stack[j].ctx
    BY <1>3 DEF PopsApart
  <2>2. j \in E(i) /\ \A k \in E(i) : k = j
    BY <1>1, <1>3, <2>1 DEF PopsApart, IsPop
  <2>3. sc[i] = ScopeIn(stack, cx, i)
    BY <2>1
  <2>4. ScopeIn(stack, cx, i) = IF E(i) = {} THEN [pending |-> Ids(cx[i]), ending |-> FALSE]
          ELSE [pending |-> Ids(stack[CHOOSE k \in E(i) : TRUE].list), ending |-> TRUE]
    BY DEF ScopeIn
  <2> HIDE DEF i, E
  <2>5. (CHOOSE k \in E(i) : TRUE) = j
    BY <2>2
  <2>6. ScopeIn(stack, cx, i) = Closing(stack[j].list)
    BY <2>2, <2>4, <2>5 DEF Closing
  <2>7. QED BY <2>3, <2>6 DEF i
<1>4. ASSUME NEW i \in 1..n PROVE sc[i] \in ScopeType
  <2>1. CASE ~Ends(stack, i)
    BY <1>2, <2>1, ScopeTypes
  <2>2. CASE Ends(stack, i)
    <3>1. PICK j \in 1..Len(stack) : IsPop(stack[j]) /\ stack[j].ctx = i - 1
      BY <2>2 DEF Ends
    <3>2. stack[j].ctx + 1 = i
      BY <3>1
    <3>3. sc[i] = Closing(stack[j].list) /\ stack[j].list \in Seq(Deferred)
      BY <1>1, <1>3, <3>1, <3>2
    <3>4. QED BY <3>3, ScopeTypes
  <2>3. QED BY <2>1, <2>2
<1>5. sc \in Seq(ScopeType) /\ Len(sc) = n
  <2>1. sc = [i \in 1..n |-> sc[i]]
    OBVIOUS
  <2>2. QED BY <1>4, <2>1, SeqDef
<1>6. QED BY <1>2, <1>3, <1>5 DEF Shows, PopsApart

LEMMA StaysApart ==
  ASSUME NEW stack \in Seq(FrameType), NEW n \in Nat,
         \A j \in 1..Len(stack) : CtxNeed(stack[j]) <= n,
         \A j, k \in 1..Len(stack) : j < k => CtxNeed(stack[j]) <= stack[k].ctx
  PROVE  PopsApart(stack, n)
<1>1. ASSUME NEW j \in 1..Len(stack), IsPop(stack[j])
      PROVE  stack[j].ctx \in Nat /\ CtxNeed(stack[j]) = stack[j].ctx + 1
  <2>1. stack[j] \in FrameType
    OBVIOUS
  <2>2. stack[j].ctx \in Nat /\ HoldsCtx(stack[j]) = 1
    BY <1>1, <2>1, NeedType DEF HoldsCtx, IsPop
  <2>3. QED BY <2>2 DEF CtxNeed
<1>2. \A j \in 1..Len(stack) : IsPop(stack[j]) => stack[j].ctx + 1 \in 1..n
  BY <1>1
<1>3. ASSUME NEW j \in 1..Len(stack), NEW k \in 1..Len(stack), j < k,
             IsPop(stack[j]), IsPop(stack[k]), stack[j].ctx = stack[k].ctx
      PROVE  FALSE
  <2>1. CtxNeed(stack[j]) <= stack[k].ctx
    BY <1>3
  <2>2. QED BY <1>1, <1>3, <2>1
<1>4. ASSUME NEW j \in 1..Len(stack), NEW k \in 1..Len(stack),
             IsPop(stack[j]), IsPop(stack[k]), stack[j].ctx = stack[k].ctx
      PROVE  j = k
  <2>1. j < k \/ k < j \/ j = k
    OBVIOUS
  <2>2. QED BY <1>3, <1>4, <2>1
<1>5. QED BY <1>1, <1>2, <1>4 DEF PopsApart

LEMMA ShownNow == ASSUME IInv PROVE Shows(frames, ctxs, ScopesNow)
<1>1. /\ frames \in Seq(FrameType) /\ ctxs \in Seq(Seq(Deferred)) /\ Len(ctxs) \in Nat
      /\ DOMAIN frames = 1..Len(frames)
  BY DEF IInv, TypeOK
<1>2. \A k \in 1..Len(ctxs) : ctxs[k] \in Seq(Deferred)
  BY <1>1
<1>3. PopsApart(frames, Len(ctxs))
  BY <1>1, StaysApart DEF IInv, ContextsStay
<1>4. ScopesNow = [i \in 1..Len(ctxs) |-> ScopeIn(frames, ctxs, i)]
  BY DEF ScopesNow, ScopeOf, Ending, ScopeIn
<1>5. QED BY <1>1, <1>2, <1>3, <1>4, ScopesShown

LEMMA ShownNext == ASSUME IInv' PROVE Shows(frames', ctxs', ScopesNow')
<1>1. /\ frames' \in Seq(FrameType) /\ ctxs' \in Seq(Seq(Deferred)) /\ Len(ctxs') \in Nat
      /\ DOMAIN frames' = 1..Len(frames')
  BY DEF IInv, TypeOK
<1>2. \A k \in 1..Len(ctxs') : ctxs'[k] \in Seq(Deferred)
  BY <1>1
<1>3. /\ \A j \in 1..Len(frames') : CtxNeed(frames'[j]) <= Len(ctxs')
      /\ \A j, k \in 1..Len(frames') : j < k => CtxNeed(frames'[j]) <= frames'[k].ctx
  BY <1>1 DEF IInv, ContextsStay, CtxNeed, HoldsCtx, IsLambda
<1>4. PopsApart(frames', Len(ctxs'))
  BY <1>1, <1>3, StaysApart
<1>5. ScopesNow' = [i \in 1..Len(ctxs') |-> ScopeIn(frames', ctxs', i)]
  BY DEF ScopesNow, ScopeOf, Ending, ScopeIn
<1>6. QED BY <1>1, <1>2, <1>4, <1>5, ScopesShown

\* The steps of the contract, in these terms.
LEMMA ContractOpen ==
  ASSUME MapScopes' = Append(MapScopes, Open(<< >>)), UNCHANGED <<runs, deferCount>>
  PROVE  Contract!Next
<1>1. Ids(<< >>) = << >>
  BY DEF Ids
<1>2. QED BY <1>1 DEF Contract!Next, Contract!Open, Contract!Scope, MapScopes, ScopesNow, Open

LEMMA ContractExit ==
  ASSUME MapScopes' = << >>, UNCHANGED <<runs, deferCount>>
  PROVE  Contract!Next
BY DEF Contract!Next, Contract!Exit, MapScopes, ScopesNow

\* The contract's actions, where there is an innermost scope.
LEMMA ContractInner ==
  ASSUME NEW sc, sc = MapScopes, NEW n \in Nat, Len(sc) = n + 1
  PROVE  /\ Contract!Last = sc[n + 1] /\ Contract!Outer = SubSeq(sc, 1, n)
         /\ sc # << >>
<1>1. (n + 1) - 1 = n /\ sc # << >>
  BY EmptySeq
<1>2. QED BY <1>1 DEF Contract!Last, Contract!Outer, MapScopes, ScopesNow

LEMMA ContractBeginEnd ==
  ASSUME NEW sc, sc = MapScopes, NEW n \in Nat, Len(sc) = n + 1,
         NEW list, sc[n + 1] = Open(list),
         MapScopes' = Append(SubSeq(sc, 1, n), Closing(list)), UNCHANGED <<runs, deferCount>>
  PROVE  Contract!Next
<1>1. /\ Contract!Last = Open(list) /\ Contract!Outer = SubSeq(sc, 1, n) /\ sc # << >>
  BY ContractInner
<1>2. ~Contract!Last.ending /\ Contract!Last.pending = Ids(list)
  BY <1>1 DEF Open
<1>3. Contract!BeginEnd
  <2>1. MapScopes' = Append(Contract!Outer, Contract!Scope(Contract!Last.pending, TRUE))
    BY <1>1, <1>2 DEF Contract!Scope, Closing
  <2>2. QED BY <1>1, <1>2, <2>1 DEF Contract!BeginEnd, MapScopes, ScopesNow
<1>4. QED BY <1>3 DEF Contract!Next

LEMMA ContractEnd ==
  ASSUME NEW sc, sc = MapScopes, NEW n \in Nat, Len(sc) = n + 1,
         sc[n + 1] = Closing(<< >>),
         MapScopes' = SubSeq(sc, 1, n), UNCHANGED <<runs, deferCount>>
  PROVE  Contract!Next
<1>1. /\ Contract!Last = Closing(<< >>) /\ Contract!Outer = SubSeq(sc, 1, n) /\ sc # << >>
  BY ContractInner
<1>2. Contract!Last.ending /\ Contract!Last.pending = << >>
  BY <1>1 DEF Closing, Ids
<1>3. Contract!End
  BY <1>1, <1>2 DEF Contract!End, MapScopes, ScopesNow
<1>4. QED BY <1>3 DEF Contract!Next

LEMMA ContractRegister ==
  ASSUME NEW sc, sc = MapScopes, NEW n \in Nat, Len(sc) = n + 1,
         NEW list \in Seq(Deferred), sc[n + 1] = Open(list),
         NEW item \in Deferred, item.id = deferCount + 1,
         MapScopes' = Append(SubSeq(sc, 1, n), Open(Append(list, item))),
         runs' = runs, deferCount' = deferCount + 1
  PROVE  Contract!Next
<1>1. /\ Contract!Last = Open(list) /\ Contract!Outer = SubSeq(sc, 1, n) /\ sc # << >>
  BY ContractInner
<1>2. ~Contract!Last.ending /\ Contract!Last.pending = Ids(list)
  BY <1>1 DEF Open
<1>3. Ids(Append(list, item)) = Append(Ids(list), deferCount')
  BY IdsAppend
<1>4. Contract!Register
  <2>1. MapScopes' = Append(Contract!Outer,
                            Contract!Scope(Append(Contract!Last.pending, deferCount'), FALSE))
    BY <1>1, <1>2, <1>3 DEF Contract!Scope, Open
  <2>2. QED BY <1>1, <1>2, <2>1 DEF Contract!Register, MapScopes, ScopesNow
<1>5. QED BY <1>4 DEF Contract!Next

LEMMA ContractExecute ==
  ASSUME IInv, NEW sc, sc = MapScopes, NEW n \in Nat, Len(sc) = n + 1,
         NEW list \in Seq(Deferred), list # << >>, sc[n + 1] = Closing(list),
         NEW id \in DeferId, id = Head(list).id, runs[id] = 0,
         runs' = [runs EXCEPT ![id] = 1], deferCount' = deferCount,
         NEW rest, rest = Append(SubSeq(sc, 1, n), Closing(Tail(list))),
         MapScopes' \in {rest, Append(rest, Open(<< >>)), << >>}
  PROVE  Contract!Next
<1>1. /\ Contract!Last = Closing(list) /\ Contract!Outer = SubSeq(sc, 1, n) /\ sc # << >>
  BY ContractInner
<1>2. /\ Ids(list) # << >> /\ Head(Ids(list)) = id /\ Ids(Tail(list)) = Tail(Ids(list))
  BY IdsTail
<1>3. Contract!Last.ending /\ Contract!Last.pending = Ids(list)
  BY <1>1 DEF Closing
<1> DEFINE now  == {d \in DeferId : runs[d] > 0}
           next == {d \in DeferId : runs'[d] > 0}
<1>4. id \notin now /\ next = now \union {id}
  <2>1. runs \in [DeferId -> 0..2]
    BY DEF IInv, TypeOK
  <2>2. runs'[id] = 1 /\ \A d \in DeferId : d # id => runs'[d] = runs[d]
    BY <2>1
  <2>3. QED BY <2>2
<1> HIDE DEF now, next
<1>5. Head(Contract!Last.pending) \notin now /\ next = now \union {Head(Contract!Last.pending)}
  BY <1>2, <1>3, <1>4
<1>6. MapScopes' \in
        {Append(Contract!Outer, Contract!Scope(Tail(Contract!Last.pending), TRUE)),
         Append(Append(Contract!Outer, Contract!Scope(Tail(Contract!Last.pending), TRUE)),
                Contract!Scope(<< >>, FALSE)), << >>}
  <2>1. Ids(<< >>) = << >>
    BY DEF Ids
  <2>2. rest = Append(Contract!Outer, Contract!Scope(Tail(Contract!Last.pending), TRUE))
    BY <1>1, <1>2, <1>3 DEF Contract!Scope, Closing
  <2>3. Open(<< >>) = Contract!Scope(<< >>, FALSE)
    BY <2>1 DEF Contract!Scope, Open
  <2>4. QED BY <2>2, <2>3
<1>7. Contract!Last.pending # << >>
  BY <1>2, <1>3
<1>8. Contract!Execute
  BY <1>1, <1>3, <1>5, <1>6, <1>7 DEF Contract!Execute, MapScopes, ScopesNow, now, next
<1>9. QED BY <1>8 DEF Contract!Next

-----------------------------------------------------------------------------
(***************************************************************************)
(* Each action is a step of the contract, or leaves its scopes alone.      *)
(***************************************************************************)

\* Programs that keep the contract: nothing is thrown, no yield, no loop, and
\* no deferred instruction defers in the context that is ending.
Orderly == /\ IInv /\ IInv' /\ Balanced /\ OnceInv /\ ~threw /\ ~threw'
           /\ yield = NoYield /\ status \notin {"done", "exit"}
           /\ {"loop", "yield"} \intersect Ops = {} /\ "nested_defer" \notin Habits

ContractStep == [Contract!Next]_(Contract!scopeVars)

LEMMA OrderlyFacts ==
  ASSUME Orderly
  PROVE  /\ IInv /\ Balanced /\ ~threw /\ ~threw' /\ "loop" \notin Ops /\ Active
         /\ DeferOK(frames, ctxs, runs, deferCount) /\ DeferredAtMostOnce
         /\ Shows(frames, ctxs, MapScopes) /\ MapScopes = ScopesNow
         /\ Len(ctxs) \in Nat /\ Len(ctxs) >= 1 /\ Len(MapScopes) = Len(ctxs)
         /\ status = IF Depth = 0 THEN "idle" ELSE "run"
         /\ \A k \in 1..Len(ctxs) : ctxs[k] \in Seq(Deferred)
<1>1. /\ IInv /\ Balanced /\ ~threw /\ ~threw' /\ "loop" \notin Ops /\ OnceInv
      /\ Active /\ Alive
  BY DEF Orderly, Active, Alive
<1>2. MapScopes = ScopesNow
  BY DEF Orderly, MapScopes
<1>3. Shows(frames, ctxs, MapScopes)
  BY <1>1, <1>2, ShownNow
<1>4. ctxs \in Seq(Seq(Deferred)) /\ Len(ctxs) \in Nat /\ Len(ctxs) >= 1
  BY <1>1, CtxsType
<1>5. \A k \in 1..Len(ctxs) : ctxs[k] \in Seq(Deferred)
  BY <1>4
<1>6. QED BY <1>1, <1>2, <1>3, <1>4, <1>5 DEF OnceInv, Shows, Balanced

\* What the scopes are after the step.
LEMMA NextScopes ==
  ASSUME Orderly, status' # "exit", NEW sc, Shows(frames', ctxs', sc)
  PROVE  MapScopes' = sc
<1>1. Shows(frames', ctxs', ScopesNow') /\ MapScopes' = ScopesNow'
  BY ShownNext DEF Orderly, MapScopes
<1>2. Len(ctxs') \in Nat
  BY DEF Orderly, IInv, TypeOK
<1>3. QED BY <1>1, <1>2, ShowsOne

LEMMA ContractStutter ==
  ASSUME MapScopes' = MapScopes, UNCHANGED <<runs, deferCount>>
  PROVE  ContractStep
BY DEF ContractStep, Contract!scopeVars, MapScopes, ScopesNow

LEMMA SameScopes ==
  ASSUME Orderly, SamePops(frames, frames'), UNCHANGED <<ctxs, runs, deferCount>>,
         status' # "exit"
  PROVE  ContractStep
<1>1. Shows(frames', ctxs', MapScopes)
  BY OrderlyFacts, ShowsSame
<1>2. QED BY <1>1, NextScopes, ContractStutter

LEMMA ReturnScopes ==
  ASSUME Orderly, Running, ~IsPop(Top), Return
  PROVE  ContractStep
<1>1. IInv /\ Depth > 0
  BY RunningActive DEF Orderly
<1>2. SamePops(frames, frames') /\ UNCHANGED <<ctxs, runs, deferCount>> /\ status' # "exit"
  BY <1>1, BelowPops DEF Return
<1>3. QED BY <1>2, SameScopes

LEMMA StepScopes ==
  ASSUME Orderly, Running, ~IsPop(Top), NEW pc \in PCs, Step(pc)
  PROVE  ContractStep
<1>1. IInv /\ Depth > 0
  BY RunningActive DEF Orderly
<1>2. SamePops(frames, frames') /\ UNCHANGED <<ctxs, runs, deferCount>> /\ status' # "exit"
  BY <1>1, GotoPops DEF Step, Orderly
<1>3. QED BY <1>2, SameScopes

LEMMA PushedShown ==
  ASSUME IInv, Active, NEW stack, NEW sc, Shows(stack, ctxs, sc),
         NEW new, new = Append(ctxs, << >>)
  PROVE  Shows(stack, new, Append(sc, Open(<< >>)))
<1> DEFINE n == Len(ctxs)
<1>1. << >> \in Seq(Deferred) /\ ctxs \in Seq(Seq(Deferred))
  BY EmptySeq, CtxsType
<1>2. /\ n \in Nat /\ Len(new) = n + 1 /\ new[n + 1] = << >>
      /\ \A i \in 1..n : new[i] = ctxs[i]
  BY <1>1, AppendProperties
<1> HIDE DEF n
<1>3. n = Len(ctxs)
  BY DEF n
<1>4. QED BY <1>2, <1>3, ShowsPush

\* A frame that is not a pop_ctx is pushed, with a context of its own or none.
LEMMA PushedScopes ==
  ASSUME Orderly, NEW stack \in Seq(FrameType), NEW f \in FrameType, ~IsPop(f),
         NEW sc, Shows(stack, ctxs, sc), frames' = Append(stack, f),
         ctxs' = ctxs \/ ctxs' = Append(ctxs, << >>), status' # "exit"
  PROVE  MapScopes' \in {sc, Append(sc, Open(<< >>))}
<1>1. Shows(frames', ctxs, sc)
  BY AppendPops, ShowsSame
<1>2. CASE ctxs' = ctxs
  <2>1. Shows(frames', ctxs', sc)
    BY <1>1, <1>2
  <2>2. QED BY <2>1, NextScopes
<1>3. CASE ctxs' = Append(ctxs, << >>)
  <2>1. Shows(frames', ctxs', Append(sc, Open(<< >>)))
    BY <1>1, <1>3, OrderlyFacts, PushedShown
  <2>2. QED BY <2>1, NextScopes
<1>4. QED BY <1>2, <1>3

LEMMA CallScopes ==
  ASSUME Orderly, NEW stack \in Seq(FrameType), NEW env \in Nat,
         NEW sc, Shows(stack, ctxs, sc), CallFunction(stack, env)
  PROVE  MapScopes' \in {sc, Append(sc, Open(<< >>))} /\ deferCount' = deferCount
<1>1. /\ callStack \in Nat /\ Len(ctxs) \in Nat /\ << >> \in Seq(Deferred) /\ ~threw'
  BY EmptySeq, OrderlyFacts DEF Orderly, IInv, TypeOK
<1>2. PICK op \in Ops \intersect Builtins : Enter(stack, env, op)
  BY <1>1 DEF CallFunction, Raise
<1> DEFINE f == Frame(op, EntryPc[op], env, << >>, callStack, Len(ctxs))
<1>3. EntryPc[op] \in PCs
  BY EntryType
<1>4. f \in FrameType /\ ~IsPop(f)
  BY <1>1, <1>3 DEF Frame, FrameType, IsPop, Builtins
<1>5. ctxs' = ctxs \/ ctxs' = Append(ctxs, << >>)
  BY <1>2 DEF Enter
<1>6. frames' = Append(stack, f) /\ deferCount' = deferCount /\ status' # "exit"
  BY <1>2 DEF Enter
<1> HIDE DEF f
<1>7. QED BY <1>4, <1>5, <1>6, PushedScopes

LEMMA ListScopes ==
  ASSUME Orderly, NEW stack \in Seq(FrameType), NEW env \in Nat, NEW walks,
         NEW sc, Shows(stack, ctxs, sc), HandleList(stack, env, walks)
  PROVE  MapScopes' \in {sc, Append(sc, Open(<< >>)), << >>} /\ deferCount' = deferCount
<1>1. /\ callStack \in Nat /\ Len(ctxs) \in Nat /\ << >> \in Seq(Deferred) /\ ~threw'
  BY EmptySeq, OrderlyFacts DEF Orderly, IInv, TypeOK
<1>2. ASSUME NEW op \in {"walk", "head"}, NEW pc \in {"item", "op"}, Nest(stack, op, pc, env)
      PROVE  MapScopes' \in {sc, Append(sc, Open(<< >>))} /\ deferCount' = deferCount
  <2> DEFINE f == Frame(op, pc, env, << >>, callStack, Len(ctxs))
  <2>1. f \in FrameType /\ ~IsPop(f)
    BY <1>1 DEF Frame, FrameType, PCs, IsPop
  <2>2. frames' = Append(stack, f) /\ ctxs' = ctxs /\ deferCount' = deferCount /\ status' # "exit"
    BY <1>2 DEF Nest
  <2> HIDE DEF f
  <2>3. QED BY <2>1, <2>2, PushedScopes
<1>3. CASE CallFunction(stack, env)
  BY <1>3, CallScopes
<1>4. CASE HaltWithError(stack, IF stack = << >> THEN "idle" ELSE "run")
  <2>1. CASE ~Repl
    BY <1>4, <2>1 DEF HaltWithError, MapScopes
  <2>2. CASE Repl
    <3>1. frames' = stack /\ ctxs' = ctxs /\ deferCount' = deferCount /\ status' # "exit"
      BY <1>4, <2>2 DEF HaltWithError
    <3>2. QED BY <3>1, NextScopes
  <2>3. QED BY <2>1, <2>2
<1>5. CASE Raise(stack, "exception")
  BY <1>1, <1>5 DEF Raise
<1>6. QED BY <1>2, <1>3, <1>4, <1>5 DEF HandleList

\* process_cell: a deferred instruction is executed, alone or with what it
\* opens, or the cell is of another frame.
LEMMA CellScopes ==
  ASSUME Orderly, Evaluating, runs' = RunsNow, deferCount' = deferCount,
         \A sc : Shows(Resumed, ctxs, sc) =>
                   MapScopes' \in {sc, Append(sc, Open(<< >>)), << >>}
  PROVE  ContractStep
<1>1. /\ IInv /\ Balanced /\ ~threw /\ "loop" \notin Ops /\ Running
      /\ DeferOK(frames, ctxs, runs, deferCount) /\ DeferredAtMostOnce
      /\ Shows(frames, ctxs, MapScopes) /\ Len(MapScopes) = Len(ctxs)
  BY OrderlyFacts DEF Evaluating
<1>2. CASE ~IsPop(Top)
  <2>1. SamePops(frames, Resumed) /\ runs' = runs
    BY <1>1, <1>2, TopResumes
  <2>2. MapScopes' \in {MapScopes, Append(MapScopes, Open(<< >>)), << >>}
    BY <1>1, <2>1, ShowsSame
  <2>3. QED BY <2>1, <2>2, ContractStutter, ContractOpen, ContractExit DEF ContractStep
<1>3. CASE IsPop(Top)
  <2> DEFINE c == Top.ctx
             list == Top.list
             id == list[1].id
             sc == MapScopes
             rest == Append(SubSeq(sc, 1, c), Closing(Tail(list)))
  <2>1. c \in Nat /\ Len(ctxs) = c + 1
    <3>1. Len(ctxs) = CtxNeed(Top) /\ Top.ctx \in Nat
      BY <1>1, PopLevels
    <3>2. HoldsCtx(Top) = 1
      BY <1>3 DEF HoldsCtx, IsPop
    <3>3. QED BY <3>1, <3>2 DEF CtxNeed
  <2>2. list \in Seq(Deferred) /\ list # << >> /\ Head(list) = list[1]
    BY <1>1, <1>3, TopAdvances
  <2>3. PICK g, n : /\ Advanced(frames, Resumed, Depth, Top, g, n)
                    /\ g.list = Tail(list) /\ g.list \in Seq(Deferred)
    BY <1>1, <1>3, TopAdvances
  <2>4. Shows(Resumed, ctxs, rest) /\ sc[c + 1] = Closing(list)
    <3> DEFINE d == Depth
               top == Top
               next == Resumed
    <3>1. /\ Advanced(frames, next, d, top, g, n) /\ Shows(frames, ctxs, sc)
          /\ c \in Nat /\ c + 1 = Len(ctxs) /\ top.ctx = c /\ g.list \in Seq(Deferred)
      BY <1>1, <2>1, <2>3
    <3>2. g.list = Tail(list) /\ top.list = list
      BY <2>3
    <3>3. rest = Append(SubSeq(sc, 1, c), Closing(Tail(list)))
      OBVIOUS
    <3> HIDE DEF c, list, sc, rest, d, top, next
    <3>4. /\ Shows(next, ctxs, Append(SubSeq(sc, 1, c), Closing(g.list)))
          /\ sc[c + 1] = Closing(top.list)
      BY <3>1, ShowsAdvance
    <3>5. Shows(next, ctxs, rest) /\ sc[c + 1] = Closing(list)
      BY <3>2, <3>3, <3>4
    <3>6. QED BY <3>5 DEF next
  <2>5. id \in DeferId /\ runs[id] = 0
    BY <1>1, <1>3, CellDoneOnce
  <2>6. runs' = [runs EXCEPT ![id] = 1]
    <3>1. runs \in [DeferId -> 0..2]
      BY <1>1 DEF IInv, TypeOK
    <3>2. runs' = [runs EXCEPT ![id] = IF runs[id] < 2 THEN runs[id] + 1 ELSE runs[id]]
      BY <1>3, <2>2 DEF RunsNow, IsPop
    <3>3. QED BY <2>5, <3>1, <3>2
  <2>7. MapScopes' \in {rest, Append(rest, Open(<< >>)), << >>}
    BY <2>4
  <2>8. Head(list).id = id /\ Len(sc) = c + 1
    BY <1>1, <2>1, <2>2
  <2> HIDE DEF c, list, id, rest
  <2>9. rest = Append(SubSeq(sc, 1, c), Closing(Tail(list)))
    BY DEF rest
  <2> HIDE DEF sc
  <2>10. sc = MapScopes
    BY DEF sc
  <2>11. Contract!Next
    BY <1>1, <2>1, <2>2, <2>4, <2>5, <2>6, <2>7, <2>8, <2>9, <2>10, ContractExecute
  <2>12. QED BY <2>11 DEF ContractStep
<1>4. QED BY <1>2, <1>3

\* pop_ctx: the innermost context begins to end.
LEMMA PopScopes ==
  ASSUME Orderly, NEW stack \in Seq(FrameType), NEW env \in Nat,
         Shows(stack, ctxs, MapScopes), ~Ends(stack, Len(ctxs)), PopCtx(stack, env)
  PROVE  ContractStep
<1> DEFINE c == Len(ctxs) - 1
           f == Frame("deferred", "next", env, ctxs[Len(ctxs)], callStack, c)
           n == Len(stack)
           sc == MapScopes
<1>1. /\ callStack \in Nat /\ ctxs # << >> /\ c \in Nat /\ c + 1 = Len(ctxs)
      /\ ctxs[c + 1] \in Seq(Deferred) /\ Len(sc) = c + 1
  <2>1. IInv /\ Active /\ Len(sc) = Len(ctxs)
    BY OrderlyFacts
  <2>2. QED BY <2>1, CtxsType DEF IInv, TypeOK
<1>2. f \in FrameType /\ IsPop(f) /\ f.ctx = c /\ f.list = ctxs[c + 1]
  BY <1>1 DEF Frame, FrameType, PCs, IsPop
<1>3. /\ frames' = Append(stack, f) /\ ctxs' = ctxs /\ runs' = runs
      /\ deferCount' = deferCount /\ status' # "exit"
  BY <1>1 DEF PopCtx
<1>4. ~Ends(stack, c + 1)
  BY <1>1
<1> HIDE DEF f, c, sc
<1>5. /\ Len(frames') = n + 1 /\ frames'[n + 1] = f /\ n \in Nat
      /\ \A j \in 1..n : frames'[j] = stack[j]
  BY <1>2, <1>3, AppendProperties
<1> HIDE DEF n
<1>6. n = Len(stack) /\ sc = MapScopes
  BY DEF n, sc
<1>7. /\ Shows(frames', ctxs, Append(SubSeq(sc, 1, c), Closing(ctxs[c + 1])))
      /\ sc[c + 1] = Open(ctxs[c + 1])
  <2> DEFINE new == frames'
  <2>1. /\ Shows(stack, ctxs, sc) /\ c \in Nat /\ ctxs[c + 1] \in Seq(Deferred)
        /\ ~Ends(stack, c + 1) /\ Started(stack, ctxs, new, f, c, n)
    BY <1>1, <1>2, <1>4, <1>5, <1>6 DEF Started
  <2> HIDE DEF new
  <2>2. /\ Shows(new, ctxs, Append(SubSeq(sc, 1, c), Closing(ctxs[c + 1])))
        /\ sc[c + 1] = Open(ctxs[c + 1])
    BY <2>1, ShowsStart
  <2>3. QED BY <2>2 DEF new
<1>8. MapScopes' = Append(SubSeq(sc, 1, c), Closing(ctxs[c + 1]))
  BY <1>3, <1>7, NextScopes
<1>9. Contract!Next
  BY <1>1, <1>3, <1>6, <1>7, <1>8, ContractBeginEnd
<1>10. QED BY <1>9 DEF ContractStep

LEMMA PopOwnScopes ==
  ASSUME Orderly, Running, ~IsPop(Top), HoldsCtx(Top) = 1, NEW pc \in PCs,
         PopCtx(Goto(pc), Depth)
  PROVE  ContractStep
<1>1. /\ IInv /\ Balanced /\ ~threw /\ "loop" \notin Ops /\ Depth > 0
      /\ Shows(frames, ctxs, MapScopes)
  BY RunningActive, OrderlyFacts
<1>2. /\ SamePops(frames, Goto(pc)) /\ Goto(pc) \in Seq(FrameType) /\ Depth \in Nat
  BY <1>1, GotoPops, BelowFrames
<1>3. ~Ends(Goto(pc), Len(ctxs))
  BY <1>1, <1>2, OwnNotEnding
<1>4. Shows(Goto(pc), ctxs, MapScopes)
  BY <1>1, <1>2, ShowsSame
<1>5. QED BY <1>2, <1>3, <1>4, PopScopes

\* pop_ctx ends: so does its context.
LEMMA PopEndScopes ==
  ASSUME Orderly, PopCtxEnd
  PROVE  ContractStep
<1> DEFINE n == Top.ctx
           sc == MapScopes
<1>1. /\ IInv /\ Balanced /\ ~threw /\ "loop" \notin Ops
      /\ Shows(frames, ctxs, sc) /\ Len(sc) = Len(ctxs) /\ Running /\ Depth > 0
  BY OrderlyFacts, RunningActive DEF PopCtxEnd, At
<1>2. Popped(frames, ctxs, frames', ctxs', Depth, n)
  BY <1>1, TopPopped
<1>3. Top = frames[Depth] /\ Top.list = << >>
  BY <1>1, BelowFrames DEF PopCtxEnd
<1> HIDE DEF n, sc
<1>4. Shows(frames', ctxs', SubSeq(sc, 1, n)) /\ sc[n + 1] = Closing(<< >>)
  BY <1>1, <1>2, <1>3, ShowsEnd
<1>5. runs' = runs /\ deferCount' = deferCount /\ status' # "exit"
  BY DEF PopCtxEnd
<1>6. MapScopes' = SubSeq(sc, 1, n)
  BY <1>4, <1>5, NextScopes
<1>7. n \in Nat /\ Len(sc) = n + 1
  BY <1>1, <1>2 DEF Popped
<1>8. sc = MapScopes
  BY DEF sc
<1>9. Contract!Next
  BY <1>4, <1>5, <1>6, <1>7, <1>8, ContractEnd
<1>10. QED BY <1>9 DEF ContractStep

\* defer: in the innermost context, which is not ending.
LEMMA DeferScopes ==
  ASSUME Orderly, DeferNext
  PROVE  ContractStep
<1> DEFINE n == Len(ctxs)
           c == n - 1
           sc == MapScopes
<1>1. /\ IInv /\ Shows(frames, ctxs, sc) /\ n \in Nat /\ n >= 1 /\ Len(sc) = n
      /\ DOMAIN frames = 1..Len(frames)
  BY OrderlyFacts, FramesType DEF IInv, Depth
<1>2. /\ SamePops(frames, frames') /\ runs' = runs
      /\ deferCount \in Nat /\ deferCount' = deferCount + 1
  BY <1>1, TopAdds
<1>3. PICK list, m, item, id :
        /\ Added(ctxs, ctxs', list, n, m, id)
        /\ ctxs[n] \in Seq(Deferred) /\ item \in Deferred
        /\ item.id = id /\ id = deferCount + 1 /\ list = Append(ctxs[n], item)
  BY <1>1, TopAdds
<1>4. ~Ends(frames, n)
  BY <1>1 DEF Ends, IsPop, DeferNext, ContextEnding, Orderly
<1>5. list \in Seq(Deferred)
  BY <1>3, AppendProperties
<1> HIDE DEF n, sc
<1>6. /\ Shows(frames, ctxs', Append(SubSeq(sc, 1, n - 1), Open(list)))
      /\ sc[n] = Open(ctxs[n])
  <2> DEFINE new == ctxs'
  <2>1. /\ Shows(frames, ctxs, sc) /\ Added(ctxs, new, list, n, m, id)
        /\ list \in Seq(Deferred) /\ ~Ends(frames, n)
    BY <1>1, <1>3, <1>4, <1>5
  <2> HIDE DEF new, c
  <2>2. /\ Shows(frames, new, Append(SubSeq(sc, 1, n - 1), Open(list)))
        /\ sc[n] = Open(ctxs[n])
    BY <2>1, ShowsDefer
  <2>3. QED BY <2>2 DEF new
<1>7. Shows(frames', ctxs', Append(SubSeq(sc, 1, c), Open(list))) /\ c \in Nat /\ Len(sc) = c + 1
  BY <1>1, <1>2, <1>6, ShowsSame
<1>8. status' # "exit"
  BY DEF DeferNext, Orderly
<1>9. MapScopes' = Append(SubSeq(sc, 1, c), Open(list))
  BY <1>7, <1>8, NextScopes
<1>10. sc = MapScopes /\ sc[c + 1] = Open(ctxs[n])
  BY <1>1, <1>6 DEF sc
<1> HIDE DEF c
<1>11. Contract!Next
  BY <1>2, <1>3, <1>7, <1>9, <1>10, ContractRegister
<1>12. QED BY <1>11 DEF ContractStep

\* Without `<-' no yield value is ever set.
Quiet == ~threw => yield = NoYield

LEMMA NextQuiet ==
  ASSUME IInv, Balanced, Quiet, "yield" \notin Ops, [Next]_vars
  PROVE  Quiet'
<1>1. CASE threw'
  BY <1>1 DEF Quiet
<1>2. CASE UNCHANGED vars
  BY <1>2 DEF vars, Quiet
<1>3. ASSUME ~threw', Next PROVE Quiet'
  <2>1. ~threw /\ yield = NoYield
    BY <1>3, ThrewStays DEF Quiet
  <2>2. ~YieldReturn
    <3>1. ASSUME YieldReturn PROVE FALSE
      <4>1. Running /\ Top.op = "yield"
        BY <3>1 DEF YieldReturn, At
      <4>2. Top.op \in Ops \union {"deferred"}
        BY <2>1, <4>1, BalancedRunning DEF Exact, Permitted
      <4>3. QED BY <4>1, <4>2
    <3>2. QED BY <3>1
  <2>3. \A stack, env : CallFunction(stack, env) => yield' = yield
    BY DEF CallFunction, Enter, Raise
  <2>4. \A stack, env, walks : HandleList(stack, env, walks) => yield' = yield
    BY <2>3 DEF HandleList, Nest, HaltWithError, Raise
  <2>5. \A stack, env : PopCtx(stack, env) => yield' = yield
    BY DEF PopCtx
  <2>6. \A pc : Step(pc) => yield' = yield
    BY DEF Step
  <2>7. \A stack, e : Raise(stack, e) => yield' = yield
    BY DEF Raise
  <2>8. \A stack, next : HaltWithError(stack, next) => yield' = yield
    BY DEF HaltWithError
  <2>9. yield' = yield \/ yield' = NoYield
    <3>1. CASE \/ ProcessYielding \/ ProcessAtom \/ ProcessList
               \/ ComputeOperator \/ CallOperator
      BY <2>3, <2>4, <2>7, <3>1
         DEF ProcessYielding, ProcessAtom, ProcessList, ComputeOperator, CallOperator
    <3>2. CASE \/ PrimReturn \/ IfReturn \/ TryReturn \/ DeferReturn \/ WalkEnd
               \/ LambdaReturn \/ LoopTest \/ LoopBodyDone \/ WalkNext
      BY <2>6, <2>7, <3>2
         DEF PrimReturn, IfReturn, TryReturn, DeferReturn, WalkEnd, LambdaReturn,
             LoopTest, LoopBodyDone, WalkNext
    <3>3. CASE \/ PrimThrow \/ LambdaThrow \/ ThrowThrow \/ DeferThrow
               \/ LambdaEnter \/ LambdaPop \/ IfTest \/ TryPop
      BY <2>5, <2>7, <3>3
         DEF PrimThrow, LambdaThrow, ThrowThrow, DeferThrow, LambdaEnter, LambdaPop,
             IfTest, TryPop
    <3>4. CASE DeferNext \/ ExitNow \/ PopCtxEnd
      BY <3>4 DEF DeferNext, ExitNow, PopCtxEnd
    <3>5. CASE Catch \/ DeferredFailed \/ Unwind \/ InstructionFailed
      BY <2>8, <3>5 DEF Catch, DeferredFailed, Unwind, InstructionFailed
    <3>6. CASE Instruction \/ Finish \/ Ended
      BY <2>4, <2>5, <3>6 DEF Instruction, Finish, Ended, vars
    <3>7. QED
      BY <1>3, <2>2, <3>1, <3>2, <3>3, <3>4, <3>5, <3>6 DEF Next, Machine
  <2>10. QED BY <2>1, <2>9 DEF Quiet
<1>4. QED BY <1>1, <1>2, <1>3

\* process_cell, for the cells that are lists.
LEMMA ListCellScopes ==
  ASSUME Orderly, Evaluating, NEW walks, HandleList(Resumed, EvalEnv, walks),
         runs' = RunsNow
  PROVE  ContractStep
<1>1. /\ IInv /\ Balanced /\ ~threw /\ "loop" \notin Ops /\ Running
      /\ DeferOK(frames, ctxs, runs, deferCount) /\ DeferredAtMostOnce
  BY OrderlyFacts DEF Evaluating
<1>2. Resumed \in Seq(FrameType) /\ EvalEnv \in Nat
  BY <1>1, CellDoneOnce, RunsNowType
<1>3. ASSUME NEW sc, Shows(Resumed, ctxs, sc)
      PROVE  MapScopes' \in {sc, Append(sc, Open(<< >>)), << >>} /\ deferCount' = deferCount
  BY <1>2, <1>3, ListScopes
<1>4. \A stack, env : CallFunction(stack, env) => deferCount' = deferCount
  BY DEF CallFunction, Enter, Raise
<1>5. deferCount' = deferCount
  BY <1>4 DEF HandleList, Nest, HaltWithError, Raise
<1>6. QED BY <1>3, <1>5, CellScopes

LEMMA OrderlyNext == ASSUME Orderly, [Next]_vars PROVE ContractStep
<1>1. CASE UNCHANGED vars
  <2>1. MapScopes' = MapScopes
    BY <1>1 DEF vars, MapScopes, ScopesNow, ScopeOf, Ending
  <2>2. QED BY <1>1, <2>1, ContractStutter DEF vars
<1>2. ASSUME Next, ~UNCHANGED vars PROVE ContractStep
  <2> USE <1>2
  <2>1. /\ IInv /\ Balanced /\ ~threw /\ ~threw' /\ "loop" \notin Ops /\ "yield" \notin Ops
        /\ DeferOK(frames, ctxs, runs, deferCount) /\ DeferredAtMostOnce
        /\ Shows(frames, ctxs, MapScopes) /\ Active
        /\ status = IF Depth = 0 THEN "idle" ELSE "run"
        /\ yield = NoYield /\ status \notin {"done", "exit"}
    BY OrderlyFacts DEF Orderly
  <2>2. {"body", "post", "item", "ret", "reset", "branch"} \subseteq PCs
    BY DEF PCs
  <2>3. CASE ProcessYielding
    BY <2>1, <2>3 DEF ProcessYielding
  <2>4. CASE ProcessAtom
    <3>1. /\ Evaluating /\ frames' = Resumed /\ runs' = RunsNow /\ deferCount' = deferCount
          /\ ctxs' = ctxs /\ status' = "run"
      BY <2>1, <2>4 DEF ProcessAtom, Evaluating, Running
    <3>2. ASSUME NEW sc, Shows(Resumed, ctxs, sc) PROVE MapScopes' = sc
      BY <3>1, <3>2, NextScopes
    <3>3. QED BY <3>1, <3>2, CellScopes
  <2>5. CASE ProcessList
    BY <2>5, ListCellScopes DEF ProcessList
  <2>6. CASE ComputeOperator
    <3>1. /\ Evaluating /\ ~IsPop(Top) /\ HandleList(Resumed, EvalEnv, TRUE) /\ runs' = runs
      <4>1. Evaluating
        BY <2>6 DEF ComputeOperator, Evaluating, At, Resume
      <4>2. QED BY <2>6, <4>1 DEF ComputeOperator, At, IsPop
    <3>2. runs' = RunsNow
      BY <2>1, <3>1, TopResumes
    <3>3. QED BY <3>1, <3>2, ListCellScopes
  <2>7. CASE CallOperator
    <3>1. /\ Running /\ Depth > 0 /\ ~IsPop(Top) /\ runs' = runs /\ CallFunction(Below, Top.env)
      BY <2>1, <2>7, RunningActive DEF CallOperator, At, IsPop, Raise
    <3>2. Top.env \in Nat /\ Below \in Seq(FrameType) /\ SamePops(frames, Below)
      BY <2>1, <3>1, RunningFacts, BelowFrames, BelowPops
    <3>3. Shows(Below, ctxs, MapScopes)
      BY <2>1, <3>2, ShowsSame
    <3>4. MapScopes' \in {MapScopes, Append(MapScopes, Open(<< >>))} /\ deferCount' = deferCount
      BY <3>1, <3>2, <3>3, CallScopes
    <3>5. QED BY <3>1, <3>4, ContractStutter, ContractOpen DEF ContractStep
  <2>8. CASE PrimThrow \/ LambdaThrow \/ ThrowThrow \/ DeferThrow
    BY <2>1, <2>8 DEF PrimThrow, LambdaThrow, ThrowThrow, DeferThrow, Raise
  <2>9. CASE \/ PrimReturn \/ IfReturn \/ TryReturn \/ DeferReturn \/ WalkEnd \/ LambdaReturn
    BY <2>9, ReturnScopes DEF PrimReturn, IfReturn, TryReturn, DeferReturn, WalkEnd,
                              LambdaReturn, At, IsPop
  <2>10. CASE YieldReturn
    <3>1. Running /\ Top.op = "yield"
      BY <2>10 DEF YieldReturn, At
    <3>2. Top.op \in Ops \union {"deferred"}
      BY <2>1, <3>1, BalancedRunning DEF Exact, Permitted
    <3>3. QED BY <2>1, <3>1, <3>2
  <2>11. CASE LoopTest \/ LoopBodyDone \/ WalkNext
    BY <2>1, <2>2, <2>11, ReturnScopes, StepScopes
       DEF LoopTest, LoopBodyDone, WalkNext, At, Raise, IsPop
  <2>12. CASE LambdaEnter
    <3>1. /\ Running /\ ~IsPop(Top) /\ frames' = Goto("body") /\ ctxs' = Append(ctxs, << >>)
          /\ runs' = runs /\ deferCount' = deferCount /\ status' # "exit"
      BY <2>1, <2>12 DEF LambdaEnter, At, IsPop
    <3>2. SamePops(frames, frames')
      BY <2>1, <2>2, <3>1, RunningActive, GotoPops
    <3>3. Shows(frames', ctxs, MapScopes)
      BY <2>1, <3>2, ShowsSame
    <3>4. Shows(frames', ctxs', Append(MapScopes, Open(<< >>)))
      BY <2>1, <3>1, <3>3, PushedShown
    <3>5. MapScopes' = Append(MapScopes, Open(<< >>))
      BY <3>1, <3>4, NextScopes
    <3>6. QED BY <3>1, <3>5, ContractOpen DEF ContractStep
  <2>13. CASE LambdaPop
    <3>1. Running /\ ~IsPop(Top) /\ HoldsCtx(Top) = 1 /\ PopCtx(Goto("reset"), Depth)
      BY <2>13 DEF LambdaPop, At, HoldsCtx, IsLambda, IsPop
    <3>2. QED BY <2>2, <3>1, PopOwnScopes
  <2>14. CASE IfTest
    <3>1. /\ Running /\ ~IsPop(Top) /\ HoldsCtx(Top) = 1
          /\ PopCtx(Goto("branch"), Depth) \/ PopCtx(Goto("ret"), Depth)
      BY <2>1, <2>14 DEF IfTest, At, HoldsCtx, IsLambda, IsPop, Raise
    <3>2. QED BY <2>2, <3>1, PopOwnScopes
  <2>15. CASE TryPop
    <3>1. Running /\ ~IsPop(Top) /\ HoldsCtx(Top) = 1 /\ PopCtx(Goto("ret"), Depth)
      BY <2>15 DEF TryPop, At, HoldsCtx, IsLambda, IsPop
    <3>2. QED BY <2>2, <3>1, PopOwnScopes
  <2>16. CASE DeferNext
    BY <2>16, DeferScopes
  <2>17. CASE ExitNow
    <3>1. MapScopes' = << >> /\ runs' = runs /\ deferCount' = deferCount
      BY <2>17 DEF ExitNow, MapScopes
    <3>2. QED BY <3>1, ContractExit DEF ContractStep
  <2>18. CASE PopCtxEnd
    BY <2>18, PopEndScopes
  <2>19. CASE Catch \/ DeferredFailed \/ Unwind \/ InstructionFailed
    BY <2>1, <2>19 DEF Catch, DeferredFailed, Unwind, InstructionFailed, Exceptions
  <2>20. CASE Instruction \/ Finish
    <3>1. status = "idle" /\ Depth = 0
      BY <2>1, <2>20 DEF Instruction, Finish
    <3>2. frames = << >> /\ << >> \in Seq(FrameType) /\ 0 \in Nat
      BY <2>1, <3>1, EmptySeq DEF IInv, TypeOK, Depth
    <3>3. Shows(<< >>, ctxs, MapScopes)
      BY <2>1, <3>2
    <3>4. CASE Instruction
      <4>1. HandleList(<< >>, 0, FALSE) /\ runs' = runs
        BY <3>4 DEF Instruction
      <4>2. /\ MapScopes' \in {MapScopes, Append(MapScopes, Open(<< >>)), << >>}
            /\ deferCount' = deferCount
        BY <3>2, <3>3, <4>1, ListScopes
      <4>3. QED BY <4>1, <4>2, ContractStutter, ContractOpen, ContractExit DEF ContractStep
    <3>5. CASE Finish
      <4>1. ~Ends(<< >>, Len(ctxs))
        <5>1. Len(<< >>) = 0
          OBVIOUS
        <5>2. QED BY <5>1 DEF Ends
      <4>2. PopCtx(<< >>, 0)
        BY <3>5 DEF Finish
      <4>3. QED BY <3>2, <3>3, <4>1, <4>2, PopScopes
    <3>6. QED BY <2>20, <3>4, <3>5
  <2>21. CASE Ended
    BY <2>1, <2>21 DEF Ended
  <2>22. QED
    BY <2>3, <2>4, <2>5, <2>6, <2>7, <2>8, <2>9, <2>10, <2>11, <2>12, <2>13, <2>14, <2>15,
       <2>16, <2>17, <2>18, <2>19, <2>20, <2>21 DEF Next, Machine
<1>3. QED BY <1>1, <1>2

\* A program that has ended stays as it is.
LEMMA EndedStays ==
  ASSUME status \in {"done", "exit"}, [Next]_vars
  PROVE  UNCHANGED vars
BY DEF Next, Machine, Ended, ProcessYielding, ProcessAtom, ProcessList, ComputeOperator,
       CallOperator, PrimReturn, PrimThrow, LambdaThrow, LambdaEnter, LambdaPop,
       LambdaReturn, LoopTest, LoopBodyDone, IfTest, IfReturn, TryPop, TryReturn,
       ThrowThrow, DeferNext, DeferThrow, DeferReturn, YieldReturn, ExitNow, WalkNext,
       WalkEnd, PopCtxEnd, Catch, DeferredFailed, Unwind, InstructionFailed, Instruction,
       Finish, At, Running, Evaluating, Exceptions

LEMMA InitContract == ASSUME Init PROVE Contract!Init
<1>1. /\ frames = << >> /\ ctxs = << << >> >> /\ status = "idle" /\ deferCount = 0
      /\ runs = [d \in DeferId |-> 0]
  BY DEF Init
<1>2. Len(ctxs) = 1 /\ ctxs[1] = << >> /\ DOMAIN frames = {}
  BY <1>1
<1>3. Ids(<< >>) = << >>
  BY DEF Ids
<1> DEFINE x == [pending |-> << >>, ending |-> FALSE]
           f == [i \in 1..1 |-> ScopeOf(i)]
<1>4. ScopeOf(1) = x
  <2>1. Ending(1) = {}
    BY <1>2 DEF Ending
  <2>2. QED BY <1>2, <1>3, <2>1 DEF ScopeOf
<1>5. f = << x >>
  <2>1. f[1] = x /\ DOMAIN f = 1..1
    BY <1>4
  <2>2. f = [i \in 1..1 |-> f[i]] /\ \A i \in 1..1 : f[i] \in {x}
    BY <2>1
  <2> HIDE DEF f, x
  <2>3. f \in Seq({x}) /\ Len(f) = 1
    BY <2>2, SeqDef
  <2>4. << x >> \in Seq({x}) /\ Len(<< x >>) = 1 /\ << x >>[1] = x
    OBVIOUS
  <2>5. \A i \in 1..1 : f[i] = << x >>[i]
    BY <2>1, <2>4
  <2>6. QED BY <2>3, <2>4, <2>5, SeqEqual
<1>6. {d \in DeferId : runs[d] > 0} = {}
  BY <1>1
<1>7. QED BY <1>1, <1>2, <1>5, <1>6 DEF Contract!Init, Contract!Scope

\* The context stack implements the contract of `defer': contexts end
\* innermost first, each executes what was deferred in it, in order and once,
\* before it goes; for every program whose builtins do not throw, without
\* loops and yields, in which a deferred instruction does not defer in the
\* context that is ending.
THEOREM ContextsImplementContract ==
  ASSUME {"loop", "yield", "throw"} \intersect Ops = {}, Throws = {},
         "nested_defer" \notin Habits, MaxFrames <= MaxCallDepth
  PROVE  Spec => ImplementsContract
<1> DEFINE Inv == IInv /\ Balanced /\ OnceInv /\ Quiet /\ ~threw
<1>1. Init => IInv /\ Balanced /\ OnceInv /\ Quiet
  BY InitInv, InitBalanced, InitOnce DEF Init, Quiet
<1>2. IInv /\ Balanced /\ OnceInv /\ Quiet /\ [Next]_vars
        => IInv' /\ Balanced' /\ OnceInv' /\ Quiet'
  BY NextInv, NextBalanced, NextOnce, NextQuiet
<1>3. Spec => [](IInv /\ Balanced /\ OnceInv /\ Quiet)
  BY <1>1, <1>2, PTL DEF Spec
<1>4. Spec => []~threw
  BY NothingIsThrown
<1>5. ASSUME Inv, Inv', [Next]_vars PROVE ContractStep
  <2>1. CASE status \notin {"done", "exit"}
    <3>1. Orderly
      BY <1>5, <2>1 DEF Orderly, Quiet
    <3>2. QED BY <1>5, <3>1, OrderlyNext
  <2>2. CASE status \in {"done", "exit"}
    <3>1. UNCHANGED vars
      BY <1>5, <2>2, EndedStays
    <3>2. MapScopes' = MapScopes
      BY <3>1 DEF vars, MapScopes, ScopesNow, ScopeOf, Ending
    <3>3. QED BY <3>1, <3>2, ContractStutter DEF vars
  <2>3. QED BY <2>1, <2>2
<1>6. Init => Contract!Init
  BY InitContract
<1>7. Spec => [][ContractStep]_vars
  BY <1>3, <1>4, <1>5, PTL DEF Spec
<1>8. QED BY <1>3, <1>4, <1>5, <1>6, PTL
         DEF Spec, ImplementsContract, Contract!Spec, ContractStep

-----------------------------------------------------------------------------
(***************************************************************************)
(* Where `defer' puts an instruction.  Without `if' and `loop', whose      *)
(* bodies' contexts are not their own, a frame's context has what was      *)
(* deferred in that frame's environment, and what a frame owes is there    *)
(* until pop_ctx has it.                                                   *)
(***************************************************************************)
Has(list, d) == \E k \in 1..Len(list) : list[k].id = d

\* The frame has a context that no pop_ctx is ending; it processes a cell of
\* the body that has it.
Owner(f)   == HoldsCtx(f) = 1 /\ ~IsPop(f)
Working(f) == \/ IsLambda(f) /\ f.pc = "pop"
              \/ f.op = "try" /\ f.pc \in {"attempted", "recovered"}

\* A frame that waits for the cell it processes, and where that cell is
\* processed.
Waits(f) == /\ HoldsCtx(f) = 1 => Working(f) \/ IsPop(f)
            /\ f.op = "try" => Working(f)
Inner(stack, i) ==
  IF \/ IsLambda(stack[i]) /\ stack[i].pc = "pop"
     \/ stack[i].op = "try" /\ stack[i].pc = "recovered"
  THEN i ELSE stack[i].env

Ready(stack, env) ==
  IF Len(stack) = 0 THEN env = 0
  ELSE env = Inner(stack, Len(stack)) /\ Waits(stack[Len(stack)])

\* Frames are entered in the environment of the cell below that entered them.
Chained(stack) ==
  \A i \in 1..Len(stack) : ~IsPop(stack[i]) =>
    IF i = 1 THEN stack[i].env = 0
    ELSE stack[i].env = Inner(stack, i - 1) /\ Waits(stack[i - 1])

\* What is deferred in a context was deferred in its owner's environment, or
\* in the one try was called in.
InPlace(stack, cx) ==
  /\ \A i \in 1..Len(stack) : Owner(stack[i]) =>
       \A k \in 1..Len(cx[stack[i].ctx + 1]) :
         \/ cx[stack[i].ctx + 1][k].env = i
         \/ stack[i].op = "try" /\ cx[stack[i].ctx + 1][k].env = stack[i].env
  /\ (Len(stack) = 0 \/ ~IsPop(stack[1])) => \A k \in 1..Len(cx[1]) : cx[1][k].env = 0

\* The same of what a pop_ctx has left to execute.
PopsFit(stack) ==
  \A i \in 1..Len(stack) : IsPop(stack[i]) =>
    \A k \in 1..Len(stack[i].list) :
      \/ stack[i].list[k].env = stack[i].env
      \/ i > 1 /\ stack[i - 1].op = "try" /\ stack[i].list[k].env = stack[i - 1].env

\* What a frame owes has been executed, or is in its context, or in the hands
\* of the pop_ctx it has called.
OwesKept(stack, cx, rn) ==
  \A i \in 1..Len(stack) : \A d \in stack[i].owes :
    \/ rn[d] >= 1
    \/ Owner(stack[i]) /\ Has(cx[stack[i].ctx + 1], d)
    \/ i < Len(stack) /\ IsPop(stack[i + 1]) /\ Has(stack[i + 1].list, d)

\* Programs in which nothing deferred is dropped.
Keeping == "yield" \notin Ops /\ "nested_defer" \notin Habits

Placed(stack, cx, rn) ==
  /\ Chained(stack) /\ InPlace(stack, cx) /\ PopsFit(stack)
  /\ Keeping => OwesKept(stack, cx, rn)

\* The inductive invariant, beside OnceInv.
PlacedInv == {"loop", "if"} \intersect Ops = {} /\ Alive => Placed(frames, ctxs, runs)

\* The top frame has moved on within its body, or among its arguments, or
\* into its body, with a context that is still empty.
SameFrame(f, g) ==
  f.op = g.op /\ f.env = g.env /\ f.list = g.list /\ f.ctx = g.ctx /\ f.owes = g.owes

LEMMA PlacedTop ==
  ASSUME NEW stack, NEW cx, NEW rn, Placed(stack, cx, rn),
         NEW d \in Nat, d > 0, d = Len(stack), NEW next, Len(next) = d,
         \A i \in 1..d - 1 : next[i] = stack[i], SameFrame(next[d], stack[d]),
         Owner(stack[d]) => Owner(next[d]),
         Owner(next[d]) => Owner(stack[d]) \/ Len(cx[next[d].ctx + 1]) = 0
  PROVE  Placed(next, cx, rn)
<1>1. ASSUME NEW i \in 1..d
      PROVE  /\ SameFrame(next[i], stack[i]) /\ IsPop(next[i]) = IsPop(stack[i])
             /\ Owner(stack[i]) => Owner(next[i])
             /\ Owner(next[i]) => Owner(stack[i]) \/ Len(cx[next[i].ctx + 1]) = 0
             /\ i > 1 => i - 1 \in 1..d - 1 /\ next[i - 1] = stack[i - 1]
             /\ i < d => i + 1 \in 1..d
  <2>1. i = d \/ i \in 1..d - 1
    OBVIOUS
  <2>2. CASE i = d
    BY <2>2 DEF SameFrame, IsPop
  <2>3. CASE i \in 1..d - 1
    BY <2>3 DEF SameFrame
  <2>4. QED BY <2>1, <2>2, <2>3
<1>2. Chained(next)
  BY <1>1 DEF Placed, Chained, Inner, SameFrame
<1>3. InPlace(next, cx)
  <2>1. IsPop(next[1]) = IsPop(stack[1])
    BY <1>1
  <2>2. ASSUME NEW i \in 1..d, Owner(next[i])
        PROVE  \A k \in 1..Len(cx[next[i].ctx + 1]) :
                 \/ cx[next[i].ctx + 1][k].env = i
                 \/ next[i].op = "try" /\ cx[next[i].ctx + 1][k].env = next[i].env
    <3>1. /\ next[i].op = stack[i].op /\ next[i].env = stack[i].env
          /\ next[i].ctx = stack[i].ctx
      BY <1>1 DEF SameFrame
    <3>2. CASE Owner(stack[i])
      BY <3>1, <3>2 DEF Placed, InPlace
    <3>3. CASE Len(cx[next[i].ctx + 1]) = 0
      BY <3>3
    <3>4. QED BY <1>1, <2>2, <3>2, <3>3
  <2>3. QED BY <2>1, <2>2 DEF Placed, InPlace
<1>4. PopsFit(next)
  BY <1>1, SMTT(30) DEF Placed, PopsFit, SameFrame
<1>5. ASSUME Keeping PROVE OwesKept(next, cx, rn)
  <2>1. OwesKept(stack, cx, rn)
    BY <1>5 DEF Placed
  <2>2. QED BY <1>1, <2>1 DEF OwesKept, SameFrame
<1>6. QED BY <1>2, <1>3, <1>4, <1>5 DEF Placed

\* The top frame goes; a pop_ctx only when nothing is left of its list.
LEMMA PlacedBelow ==
  ASSUME NEW stack, NEW cx, NEW rn, Placed(stack, cx, rn),
         NEW d \in Nat, d > 0, d = Len(stack), NEW below, Len(below) = d - 1,
         \A i \in 1..d - 1 : below[i] = stack[i],
         IsPop(stack[d]) => Len(stack[d].list) = 0 /\ d > 1
  PROVE  Placed(below, cx, rn)
<1>1. ASSUME NEW i \in 1..d - 1
      PROVE  /\ i \in 1..d /\ below[i] = stack[i]
             /\ i > 1 => i - 1 \in 1..d - 1 /\ below[i - 1] = stack[i - 1]
             /\ i < d - 1 => i + 1 \in 1..d - 1 /\ below[i + 1] = stack[i + 1]
             /\ i = d - 1 \/ i < d - 1
  OBVIOUS
<1>2. Chained(below)
  <2>1. ASSUME NEW i \in 1..d - 1, ~IsPop(below[i])
        PROVE  IF i = 1 THEN below[i].env = 0
               ELSE below[i].env = Inner(below, i - 1) /\ Waits(below[i - 1])
    <3>1. IF i = 1 THEN stack[i].env = 0
          ELSE stack[i].env = Inner(stack, i - 1) /\ Waits(stack[i - 1])
      BY <1>1, <2>1 DEF Placed, Chained
    <3>2. i > 1 => Inner(below, i - 1) = Inner(stack, i - 1)
      BY <1>1 DEF Inner
    <3>3. QED BY <1>1, <3>1, <3>2
  <2>2. QED BY <2>1 DEF Chained
<1>3. InPlace(below, cx)
  <2>1. d = 1 \/ 1 \in 1..d - 1
    OBVIOUS
  <2>2. \A i \in 1..d - 1 : i \in 1..d /\ below[i] = stack[i]
    BY <1>1
  <2>3. (d - 1 = 0 \/ ~IsPop(below[1])) => ~IsPop(stack[1])
    BY <2>1, <2>2
  <2>4. QED BY <2>2, <2>3, SMTT(30) DEF Placed, InPlace
<1>4. PopsFit(below)
  BY <1>1 DEF Placed, PopsFit
<1>5. ASSUME Keeping PROVE OwesKept(below, cx, rn)
  <2>1. OwesKept(stack, cx, rn)
    BY <1>5 DEF Placed
  <2>2. ASSUME NEW i \in 1..d - 1, NEW x \in below[i].owes
        PROVE  \/ rn[x] >= 1
               \/ Owner(below[i]) /\ Has(cx[below[i].ctx + 1], x)
               \/ i < d - 1 /\ IsPop(below[i + 1]) /\ Has(below[i + 1].list, x)
    <3>1. CASE i < d - 1
      BY <1>1, <2>1, <2>2, <3>1 DEF OwesKept
    <3>2. CASE i = d - 1
      <4>1. IsPop(stack[d]) => ~Has(stack[d].list, x)
        BY DEF Has
      <4>2. i + 1 = d /\ i \in 1..d /\ below[i] = stack[i]
        BY <3>2
      <4>3. QED BY <2>1, <2>2, <4>1, <4>2 DEF OwesKept
    <3>3. QED BY <1>1, <3>1, <3>2
  <2>3. QED BY <2>2 DEF OwesKept
<1>6. QED BY <1>2, <1>3, <1>4, <1>5 DEF Placed

\* Contexts come or go above those that frames own.
LEMMA PlacedCtxs ==
  ASSUME NEW stack, NEW cx, NEW rn, Placed(stack, cx, rn), NEW n \in Nat, n >= 1,
         NEW new, \A k \in 1..n : new[k] = cx[k],
         \A i \in 1..Len(stack) : Owner(stack[i]) => stack[i].ctx + 1 \in 1..n
  PROVE  Placed(stack, new, rn)
<1>1. \A i \in 1..Len(stack) : Owner(stack[i]) => new[stack[i].ctx + 1] = cx[stack[i].ctx + 1]
  OBVIOUS
<1>2. new[1] = cx[1]
  OBVIOUS
<1>3. InPlace(stack, new)
  BY <1>1, <1>2 DEF Placed, InPlace
<1>4. Keeping => OwesKept(stack, new, rn)
  BY <1>1 DEF Placed, OwesKept
<1>5. QED BY <1>3, <1>4 DEF Placed

\* A frame is entered that is no pop_ctx.
LEMMA PlacedPush ==
  ASSUME NEW stack, NEW cx, NEW rn, Placed(stack, cx, rn),
         NEW n \in Nat, n = Len(stack), NEW f, Ready(stack, f.env), ~IsPop(f), f.owes = {},
         Owner(f) => Len(cx[f.ctx + 1]) = 0,
         NEW new, Len(new) = n + 1, new[n + 1] = f, \A i \in 1..n : new[i] = stack[i]
  PROVE  Placed(new, cx, rn)
<1>1. ASSUME NEW i \in 1..n + 1, i # n + 1
      PROVE  /\ i \in 1..n /\ new[i] = stack[i]
             /\ i > 1 => i - 1 \in 1..n /\ new[i - 1] = stack[i - 1]
             /\ i < n => i + 1 \in 1..n /\ new[i + 1] = stack[i + 1]
             /\ i = n \/ i < n
  BY <1>1
<1>2. Chained(new)
  <2>1. ASSUME NEW i \in 1..n + 1, ~IsPop(new[i])
        PROVE  IF i = 1 THEN new[i].env = 0
               ELSE new[i].env = Inner(new, i - 1) /\ Waits(new[i - 1])
    <3>1. CASE i # n + 1
      BY <1>1, <2>1, <3>1 DEF Placed, Chained, Inner
    <3>2. CASE i = n + 1 /\ n = 0
      BY <3>2 DEF Ready
    <3>3. CASE i = n + 1 /\ n > 0
      <4>1. i # 1 /\ i - 1 = n /\ n \in 1..n /\ new[i] = f
        BY <3>3
      <4>2. QED BY <4>1 DEF Ready, Inner
    <3>4. QED BY <3>1, <3>2, <3>3
  <2>2. QED BY <2>1 DEF Chained
<1>3. InPlace(new, cx)
  <2>1. ASSUME NEW i \in 1..n + 1, Owner(new[i])
        PROVE  \A k \in 1..Len(cx[new[i].ctx + 1]) :
                 \/ cx[new[i].ctx + 1][k].env = i
                 \/ new[i].op = "try" /\ cx[new[i].ctx + 1][k].env = new[i].env
    <3>1. CASE i # n + 1
      BY <1>1, <2>1, <3>1, SMTT(30) DEF Placed, InPlace
    <3>2. CASE i = n + 1
      BY <2>1, <3>2
    <3>3. QED BY <3>1, <3>2
  <2>2. n = 0 \/ new[1] = stack[1]
    OBVIOUS
  <2>3. QED BY <2>1, <2>2 DEF Placed, InPlace
<1>4. PopsFit(new)
  <2>1. ASSUME NEW i \in 1..n + 1, IsPop(new[i]), NEW k \in 1..Len(new[i].list)
        PROVE  \/ new[i].list[k].env = new[i].env
               \/ i > 1 /\ new[i - 1].op = "try" /\ new[i].list[k].env = new[i - 1].env
    <3>1. i # n + 1
      BY <2>1
    <3>2. i \in 1..n /\ new[i] = stack[i] /\ (i > 1 => new[i - 1] = stack[i - 1])
      BY <1>1, <3>1
    <3>3. \/ stack[i].list[k].env = stack[i].env
          \/ i > 1 /\ stack[i - 1].op = "try" /\ stack[i].list[k].env = stack[i - 1].env
      BY <2>1, <3>2 DEF Placed, PopsFit
    <3>4. QED BY <3>2, <3>3
  <2>2. QED BY <2>1 DEF PopsFit
<1>5. ASSUME Keeping PROVE OwesKept(new, cx, rn)
  <2>1. OwesKept(stack, cx, rn)
    BY <1>5 DEF Placed
  <2>2. ASSUME NEW i \in 1..n + 1, NEW x \in new[i].owes
        PROVE  \/ rn[x] >= 1
               \/ Owner(new[i]) /\ Has(cx[new[i].ctx + 1], x)
               \/ i < n + 1 /\ IsPop(new[i + 1]) /\ Has(new[i + 1].list, x)
    <3>1. i # n + 1
      BY <2>2
    <3>2. QED BY <1>1, <2>1, <2>2, <3>1 DEF OwesKept
  <2>3. QED BY <2>2 DEF OwesKept
<1>6. QED BY <1>2, <1>3, <1>4, <1>5 DEF Placed

\* A frame has called pop_ctx for its own context.
LEMMA PlacedPop ==
  ASSUME NEW stack, NEW cx, NEW rn, Placed(stack, cx, rn),
         NEW d \in Nat, d > 0, d = Len(stack), Owner(stack[d]),
         NEW next, Len(next) = d + 1, \A i \in 1..d - 1 : next[i] = stack[i],
         NEW g, g = next[d], g.op = stack[d].op, g.env = stack[d].env, g.owes = stack[d].owes,
         HoldsCtx(g) = 0,
         NEW f, f = next[d + 1], IsPop(f), f.list = cx[stack[d].ctx + 1], f.env = d, f.owes = {}
  PROVE  Placed(next, cx, rn)
<1>1. ~IsPop(g) /\ ~IsPop(stack[d]) /\ ~Owner(g) /\ ~Owner(f)
  BY DEF Owner, IsPop
<1>2. ASSUME NEW i \in 1..d + 1
      PROVE  \/ i = d + 1 \/ i = d
             \/ /\ i \in 1..d - 1 /\ i \in 1..d /\ next[i] = stack[i]
                /\ i > 1 => i - 1 \in 1..d - 1 /\ next[i - 1] = stack[i - 1]
                /\ i + 1 \in 1..d - 1 \/ i + 1 = d
  OBVIOUS
<1>3. /\ d \in 1..d /\ d + 1 \in 1..d + 1 /\ d + 1 # 1 /\ d + 1 - 1 = d
      /\ d > 1 => d - 1 \in 1..d - 1 /\ next[d - 1] = stack[d - 1]
  OBVIOUS
<1>4. Chained(next)
  <2>1. ASSUME NEW i \in 1..d + 1, ~IsPop(next[i])
        PROVE  IF i = 1 THEN next[i].env = 0
               ELSE next[i].env = Inner(next, i - 1) /\ Waits(next[i - 1])
    <3>1. CASE i = d
      <4>1. IF d = 1 THEN stack[d].env = 0
            ELSE stack[d].env = Inner(stack, d - 1) /\ Waits(stack[d - 1])
        BY <1>1, <1>3 DEF Placed, Chained
      <4>2. QED BY <1>3, <3>1, <4>1 DEF Inner
    <3>2. CASE i # d
      <4>1. i \in 1..d /\ next[i] = stack[i] /\ (i > 1 => next[i - 1] = stack[i - 1])
        BY <1>2, <2>1, <3>2
      <4>2. IF i = 1 THEN stack[i].env = 0
            ELSE stack[i].env = Inner(stack, i - 1) /\ Waits(stack[i - 1])
        BY <2>1, <4>1 DEF Placed, Chained
      <4>3. QED BY <4>1, <4>2 DEF Inner
    <3>3. QED BY <3>1, <3>2
  <2>2. QED BY <2>1 DEF Chained
<1>5. InPlace(next, cx)
  <2>1. ASSUME NEW i \in 1..d + 1, Owner(next[i]) PROVE i \in 1..d /\ next[i] = stack[i]
    BY <1>1, <1>2, <2>1
  <2>2. IsPop(next[1]) <=> IsPop(stack[1])
    <3>1. d = 1 \/ 1 \in 1..d - 1
      OBVIOUS
    <3>2. CASE d = 1
      BY <1>1, <3>2
    <3>3. CASE 1 \in 1..d - 1
      BY <3>3
    <3>4. QED BY <3>1, <3>2, <3>3
  <2>3. QED BY <2>1, <2>2, SMTT(30) DEF Placed, InPlace
<1>6. PopsFit(next)
  <2>1. ASSUME NEW i \in 1..d + 1, IsPop(next[i]), NEW k \in 1..Len(next[i].list)
        PROVE  \/ next[i].list[k].env = next[i].env
               \/ i > 1 /\ next[i - 1].op = "try" /\ next[i].list[k].env = next[i - 1].env
    <3>1. CASE i = d + 1
      <4>1. \/ f.list[k].env = d
            \/ stack[d].op = "try" /\ f.list[k].env = stack[d].env
        BY <2>1, <3>1, <1>3 DEF Placed, InPlace
      <4>2. QED BY <1>3, <3>1, <4>1
    <3>2. CASE i # d + 1
      BY <1>1, <1>2, <2>1, <3>2 DEF Placed, PopsFit
    <3>3. QED BY <3>1, <3>2
  <2>2. QED BY <2>1 DEF PopsFit
<1>7. ASSUME Keeping PROVE OwesKept(next, cx, rn)
  <2>1. OwesKept(stack, cx, rn)
    BY <1>7 DEF Placed
  <2>2. ASSUME NEW i \in 1..d + 1, NEW x \in next[i].owes
        PROVE  \/ rn[x] >= 1
               \/ Owner(next[i]) /\ Has(cx[next[i].ctx + 1], x)
               \/ i < d + 1 /\ IsPop(next[i + 1]) /\ Has(next[i + 1].list, x)
    <3>1. CASE i = d
      BY <1>3, <2>1, <2>2, <3>1 DEF OwesKept
    <3>2. CASE i # d
      <4>1. /\ i \in 1..d - 1 /\ i \in 1..d /\ next[i] = stack[i]
            /\ i + 1 \in 1..d - 1 \/ i + 1 = d
        BY <1>2, <2>2, <3>2
      <4>2. i + 1 = d => ~IsPop(stack[i + 1])
        BY <1>1
      <4>3. QED BY <2>1, <2>2, <4>1, <4>2 DEF OwesKept
    <3>3. QED BY <3>1, <3>2
  <2>3. QED BY <2>2 DEF OwesKept
<1>8. QED BY <1>4, <1>5, <1>6, <1>7 DEF Placed

\* pop_ctx has executed its next instruction, or dropped it in a program that
\* may do so.
LEMMA PlacedAdvance ==
  ASSUME NEW stack, NEW cx, NEW rn, Placed(stack, cx, rn), NEW d \in Nat, d = Len(stack),
         NEW next, NEW f, NEW g, NEW n, Advanced(stack, next, d, f, g, n),
         g.env = f.env, g.owes = f.owes,
         NEW D, \A i \in 1..d : stack[i].owes \subseteq D,
         NEW ran, Keeping => /\ ran[f.list[1].id] >= 1
                             /\ \A x \in D : rn[x] >= 1 => ran[x] >= 1
  PROVE  Placed(next, cx, ran)
<1>0. /\ d > 0 /\ Len(next) = d /\ \A i \in 1..d - 1 : next[i] = stack[i]
      /\ f = stack[d] /\ IsPop(f) /\ g = next[d] /\ IsPop(g) /\ g.ctx = f.ctx
      /\ n \in Nat /\ Len(f.list) = n + 1 /\ Len(g.list) = n
      /\ \A k \in 1..n : g.list[k] = f.list[k + 1]
  BY DEF Advanced
<1> USE <1>0
<1>1. ~Owner(f) /\ ~Owner(g)
  BY DEF Owner
<1>2. ASSUME NEW i \in 1..d
      PROVE  /\ i = d \/ (i \in 1..d - 1 /\ next[i] = stack[i])
             /\ i > 1 => i - 1 \in 1..d - 1 /\ next[i - 1] = stack[i - 1]
             /\ i < d => i + 1 \in 1..d - 1 \/ i + 1 = d
  OBVIOUS
<1>3. \A k \in 1..n : k + 1 \in 1..n + 1
  OBVIOUS
<1>4. Chained(next)
  <2>1. ASSUME NEW i \in 1..d, ~IsPop(next[i])
        PROVE  IF i = 1 THEN next[i].env = 0
               ELSE next[i].env = Inner(next, i - 1) /\ Waits(next[i - 1])
    <3>1. next[i] = stack[i] /\ (i > 1 => next[i - 1] = stack[i - 1])
      BY <1>2, <2>1
    <3>2. IF i = 1 THEN stack[i].env = 0
          ELSE stack[i].env = Inner(stack, i - 1) /\ Waits(stack[i - 1])
      BY <2>1, <3>1 DEF Placed, Chained
    <3>3. QED BY <3>1, <3>2 DEF Inner
  <2>2. QED BY <2>1 DEF Chained
<1>5. InPlace(next, cx)
  <2>1. ASSUME NEW i \in 1..d, Owner(next[i]) PROVE next[i] = stack[i]
    BY <1>1, <1>2, <2>1
  <2>2. IsPop(next[1]) <=> IsPop(stack[1])
    <3>1. d = 1 \/ 1 \in 1..d - 1
      OBVIOUS
    <3>2. CASE d = 1
      BY <3>2
    <3>3. CASE 1 \in 1..d - 1
      BY <3>3
    <3>4. QED BY <3>1, <3>2, <3>3
  <2>3. Len(next) = Len(stack) /\ InPlace(stack, cx)
    BY DEF Placed
  <2>5. ASSUME NEW i \in 1..d, Owner(next[i])
        PROVE  \A k \in 1..Len(cx[next[i].ctx + 1]) :
                 \/ cx[next[i].ctx + 1][k].env = i
                 \/ next[i].op = "try" /\ cx[next[i].ctx + 1][k].env = next[i].env
    <3>1. next[i] = stack[i] /\ Owner(stack[i])
      BY <2>1, <2>5
    <3>2. QED BY <2>3, <3>1 DEF InPlace
  <2>6. ~IsPop(next[1]) => \A k \in 1..Len(cx[1]) : cx[1][k].env = 0
    BY <2>2, <2>3 DEF InPlace
  <2>7. Len(next) # 0
    OBVIOUS
  <2>8. QED BY <2>5, <2>6, <2>7 DEF InPlace
<1>6. PopsFit(next)
  <2>1. ASSUME NEW i \in 1..d, IsPop(next[i]), NEW k \in 1..Len(next[i].list)
        PROVE  \/ next[i].list[k].env = next[i].env
               \/ i > 1 /\ next[i - 1].op = "try" /\ next[i].list[k].env = next[i - 1].env
    <3>1. CASE i = d
      <4>1. k + 1 \in 1..n + 1 /\ g.list[k] = f.list[k + 1]
        BY <1>3, <2>1, <3>1
      <4>2. \/ f.list[k + 1].env = f.env
            \/ d > 1 /\ stack[d - 1].op = "try" /\ f.list[k + 1].env = stack[d - 1].env
        BY <3>1, <4>1 DEF Placed, PopsFit
      <4>3. next[d].list[k] = f.list[k + 1] /\ next[d].env = f.env
        BY <4>1
      <4>4. d > 1 => next[d - 1] = stack[d - 1]
        BY <1>2, <3>1
      <4>5. \/ next[d].list[k].env = next[d].env
            \/ d > 1 /\ next[d - 1].op = "try" /\ next[d].list[k].env = next[d - 1].env
        BY <4>2, <4>3, <4>4
      <4>6. QED BY <3>1, <4>5
    <3>2. CASE i # d
      <4>1. next[i] = stack[i] /\ (i > 1 => next[i - 1] = stack[i - 1])
        BY <1>2, <3>2
      <4>2. \/ stack[i].list[k].env = stack[i].env
            \/ i > 1 /\ stack[i - 1].op = "try" /\ stack[i].list[k].env = stack[i - 1].env
        BY <2>1, <4>1 DEF Placed, PopsFit
      <4>3. QED BY <4>1, <4>2
    <3>3. QED BY <3>1, <3>2
  <2>2. QED BY <2>1 DEF PopsFit
<1>7. ASSUME Keeping PROVE OwesKept(next, cx, ran)
  <2>1. OwesKept(stack, cx, rn)
    BY <1>7 DEF Placed
  <2>2. ASSUME NEW x, Has(f.list, x) PROVE ran[x] >= 1 \/ Has(g.list, x)
    <3>1. PICK k \in 1..n + 1 : f.list[k].id = x
      BY <2>2 DEF Has
    <3>2. CASE k = 1
      BY <1>7, <3>1, <3>2
    <3>3. CASE k # 1
      <4>1. k - 1 \in 1..n /\ g.list[k - 1] = f.list[k]
        BY <3>3
      <4>2. QED BY <3>1, <4>1 DEF Has
    <3>4. QED BY <3>2, <3>3
  <2>3. ASSUME NEW i \in 1..d, NEW x \in next[i].owes
        PROVE  \/ ran[x] >= 1
               \/ Owner(next[i]) /\ Has(cx[next[i].ctx + 1], x)
               \/ i < d /\ IsPop(next[i + 1]) /\ Has(next[i + 1].list, x)
    <3>1. x \in stack[i].owes /\ x \in D
      BY <1>2, <2>3
    <3>2. CASE rn[x] >= 1
      BY <1>7, <3>1, <3>2
    <3>3. CASE Owner(stack[i]) /\ Has(cx[stack[i].ctx + 1], x)
      BY <1>1, <1>2, <3>3
    <3>4. CASE i < d /\ IsPop(stack[i + 1]) /\ Has(stack[i + 1].list, x)
      BY <1>2, <2>2, <3>4
    <3>5. QED BY <2>1, <3>1, <3>2, <3>3, <3>4 DEF OwesKept
  <2>4. QED BY <2>3 DEF OwesKept
<1>8. QED BY <1>4, <1>5, <1>6, <1>7 DEF Placed

\* Frames without a context of their own are in the environment, and in the
\* context, of the frame below them.
LEMMA ChainUp ==
  ASSUME NEW stack, Chained(stack), NEW d \in Nat, d = Len(stack), NEW i \in 1..d,
         \A j \in i + 1..d : HoldsCtx(stack[j]) = 0
  PROVE  i < d => stack[d].env = Inner(stack, i) /\ Waits(stack[i])
<1>1. \A j \in i + 1..d : ~IsPop(stack[j]) /\ Inner(stack, j) = stack[j].env
  BY DEF HoldsCtx, IsPop, Inner, IsLambda
<1>2. ASSUME NEW j \in i + 1..d
      PROVE  stack[j].env = Inner(stack, j - 1) /\ Waits(stack[j - 1])
  <2>1. j \in 1..d /\ j # 1
    OBVIOUS
  <2>2. QED BY <1>1, <2>1 DEF Chained
<1> DEFINE S == {k \in Nat : i + 1 + k <= d => stack[i + 1 + k].env = Inner(stack, i)}
<1>3. 0 \in S
  <2>1. i + 1 <= d => i + 1 \in i + 1..d /\ i + 1 - 1 = i /\ i + 1 + 0 = i + 1
    OBVIOUS
  <2>2. QED BY <1>2, <2>1
<1>4. ASSUME NEW k \in Nat, k \in S PROVE k + 1 \in S
  <2>1. SUFFICES ASSUME i + 1 + (k + 1) <= d
                 PROVE  stack[i + 1 + (k + 1)].env = Inner(stack, i)
    OBVIOUS
  <2> DEFINE j == i + 1 + (k + 1)
  <2>2. j \in i + 1..d /\ j - 1 \in i + 1..d /\ j - 1 = i + 1 + k /\ i + 1 + k <= d
    BY <2>1
  <2> HIDE DEF j
  <2>3. stack[j].env = stack[j - 1].env
    BY <1>1, <1>2, <2>2
  <2>4. stack[j - 1].env = Inner(stack, i)
    BY <1>4, <2>2
  <2>5. QED BY <2>3, <2>4 DEF j
<1>5. \A k \in Nat : k \in S
  <2> HIDE DEF S
  <2>1. QED BY <1>3, <1>4, Induction
<1>6. ASSUME i < d PROVE stack[d].env = Inner(stack, i) /\ Waits(stack[i])
  <2>1. d - i - 1 \in Nat /\ i + 1 + (d - i - 1) = d /\ i + 1 \in i + 1..d /\ i + 1 - 1 = i
    BY <1>6
  <2>2. d - i - 1 \in S
    BY <1>5, <2>1
  <2>3. QED BY <1>2, <2>1, <2>2
<1>7. QED BY <1>6

LEMMA LevelUp ==
  ASSUME NEW stack, NEW n, CtxsExact(stack, n), NEW d \in Nat, d = Len(stack), NEW i \in 1..d,
         \A j \in 1..d : stack[j].ctx \in Nat,
         \A j \in i + 1..d : HoldsCtx(stack[j]) = 0
  PROVE  n = CtxNeed(stack[i])
<1>1. n = CtxNeed(stack[d])
  BY DEF CtxsExact, CtxsUpTo
<1>2. ASSUME NEW j \in i + 1..d PROVE CtxNeed(stack[j]) = CtxNeed(stack[j - 1])
  <2>1. j \in 1..d /\ j - 1 > 0 /\ stack[j].ctx \in Nat
    OBVIOUS
  <2>2. stack[j].ctx = CtxNeed(stack[j - 1])
    BY <2>1 DEF CtxsExact, CtxsUpTo
  <2>3. HoldsCtx(stack[j]) = 0
    OBVIOUS
  <2>4. CtxNeed(stack[j]) = stack[j].ctx
    BY <2>1, <2>3 DEF CtxNeed
  <2>5. QED BY <2>2, <2>4
<1> DEFINE S == {k \in Nat : i + k <= d => CtxNeed(stack[i + k]) = CtxNeed(stack[i])}
<1>3. 0 \in S
  OBVIOUS
<1>4. ASSUME NEW k \in Nat, k \in S PROVE k + 1 \in S
  <2>1. SUFFICES ASSUME i + (k + 1) <= d
                 PROVE  CtxNeed(stack[i + (k + 1)]) = CtxNeed(stack[i])
    OBVIOUS
  <2> DEFINE j == i + (k + 1)
  <2>2. j \in i + 1..d /\ j - 1 = i + k /\ i + k <= d
    BY <2>1
  <2> HIDE DEF j
  <2>3. CtxNeed(stack[j]) = CtxNeed(stack[j - 1])
    BY <1>2, <2>2
  <2>4. CtxNeed(stack[j - 1]) = CtxNeed(stack[i])
    BY <1>4, <2>2
  <2>5. QED BY <2>3, <2>4 DEF j
<1>5. \A k \in Nat : k \in S
  <2> HIDE DEF S
  <2>1. QED BY <1>3, <1>4, Induction
<1>6. d - i \in Nat /\ i + (d - i) = d
  OBVIOUS
<1>7. d - i \in S
  BY <1>5, <1>6
<1>8. QED BY <1>1, <1>6, <1>7

-----------------------------------------------------------------------------
(***************************************************************************)
(* The same for the actions.                                               *)
(***************************************************************************)
Placing == /\ IInv /\ Balanced /\ Placed(frames, ctxs, runs) /\ ~threw /\ ~threw'
           /\ {"loop", "if"} \intersect Ops = {}
           /\ Keeping => yield = NoYield

LEMMA GotoTop ==
  ASSUME IInv, Depth > 0, NEW pc \in PCs
  PROVE  /\ Goto(pc) \in Seq(FrameType) /\ Len(Goto(pc)) = Depth
         /\ \A i \in 1..Depth - 1 : Goto(pc)[i] = frames[i]
         /\ Goto(pc)[Depth] = [Top EXCEPT !.pc = pc]
<1> DEFINE top == [frames[Depth] EXCEPT !.pc = pc]
<1>1. /\ frames \in Seq(FrameType) /\ Depth \in 1..Len(frames) /\ Depth = Len(frames)
      /\ frames[Depth] \in FrameType /\ Top = frames[Depth]
  BY FramesType DEF IInv, TypeOK, Depth, Top
<1>2. top \in FrameType
  BY <1>1 DEF FrameType
<1>3. Goto(pc) = [frames EXCEPT ![Depth] = top]
  BY <1>1 DEF Goto
<1>4. top = [Top EXCEPT !.pc = pc]
  BY <1>1
<1> HIDE DEF top
<1>5. /\ Goto(pc) \in Seq(FrameType) /\ Len(Goto(pc)) = Len(frames)
      /\ \A i \in 1..Len(frames) : Goto(pc)[i] = IF i = Depth THEN top ELSE frames[i]
  BY <1>1, <1>2, <1>3, ExceptSeq
<1>6. \A i \in 1..Depth - 1 : i \in 1..Len(frames) /\ i # Depth
  BY <1>1
<1>7. QED BY <1>1, <1>4, <1>5, <1>6

\* Only the pc has changed.
LEMMA PcTop ==
  ASSUME NEW f \in FrameType, NEW pc
  PROVE  LET g == [f EXCEPT !.pc = pc]
         IN  /\ g.op = f.op /\ g.pc = pc /\ g.env = f.env /\ g.list = f.list
             /\ g.ctx = f.ctx /\ g.owes = f.owes
BY DEF FrameType

LEMMA PlacedGoto ==
  ASSUME IInv, Depth > 0, NEW pc \in PCs, NEW cx, NEW rn, Placed(frames, cx, rn),
         \/ HoldsCtx([Top EXCEPT !.pc = pc]) = HoldsCtx(Top)
         \/ HoldsCtx(Top) = 0 /\ Len(cx[Top.ctx + 1]) = 0
  PROVE  Placed(Goto(pc), cx, rn)
<1>1. Depth = Len(frames) /\ Depth \in Nat /\ Top = frames[Depth] /\ Top \in FrameType
  BY RunningFacts
<1> DEFINE g == [Top EXCEPT !.pc = pc]
<1>2. /\ Goto(pc)[Depth] = g /\ Len(Goto(pc)) = Depth
      /\ \A i \in 1..Depth - 1 : Goto(pc)[i] = frames[i]
  BY GotoTop
<1>3. /\ g.op = Top.op /\ g.env = Top.env /\ g.list = Top.list
      /\ g.ctx = Top.ctx /\ g.owes = Top.owes
  BY <1>1, PcTop
<1>4. /\ Owner(Top) => Owner(g)
      /\ Owner(g) => Owner(Top) \/ Len(cx[Top.ctx + 1]) = 0
  BY <1>3 DEF Owner, IsPop
<1> HIDE DEF g, Depth
<1>5. SameFrame(Goto(pc)[Depth], frames[Depth])
  BY <1>1, <1>2, <1>3 DEF SameFrame
<1>6. QED BY <1>1, <1>2, <1>3, <1>4, <1>5, PlacedTop

\* process_cell: the frame that processes a cell waits for it.
LEMMA WaitsPlaced ==
  ASSUME Placing, Evaluating, ~IsPop(Top)
  PROVE  Placed(Resumed, ctxs, runs) /\ Ready(Resumed, EvalEnv)
<1>1. /\ Depth > 0 /\ Depth = Len(frames) /\ Depth \in Nat /\ Top = frames[Depth]
      /\ Top \in FrameType /\ Top.op \in FrameOps /\ IInv /\ Running
  BY RunningFacts DEF Placing, Evaluating, Running
<1> DEFINE pc == Resume[Top.op][Top.pc]
           g  == [Top EXCEPT !.pc = pc]
<1>2. Top.pc \in DOMAIN Resume[Top.op] /\ pc \in PCs
  BY <1>1, ResumeType DEF Evaluating
<1>3. Resumed = Goto(pc)
  BY DEF Resumed, IsPop
<1>4. Top.op \notin {"loop", "if", "deferred"}
  <2>1. Top.op \in Ops \union {"deferred"}
    BY <1>1, BalancedRunning DEF Placing, Exact, Permitted
  <2>2. QED BY <2>1 DEF Placing, IsPop
<1>5. /\ IsLambda(Top) => \/ Top.pc = "body" /\ pc = "pop"
                          \/ Top.pc \in {"arg", "again"} /\ pc \in {"arg", "again"}
      /\ Top.op = "try" => \/ Top.pc = "attempt" /\ pc = "attempted"
                           \/ Top.pc = "recover" /\ pc = "recovered"
  BY <1>2 DEF Resume, IsLambda
<1>6. g.op = Top.op /\ g.pc = pc /\ g.env = Top.env
  BY <1>1, PcTop
<1>7. Goto(pc)[Depth] = g /\ Len(Goto(pc)) = Depth
  BY <1>1, <1>2, GotoTop
<1> HIDE DEF pc, g
<1>8. HoldsCtx(g) = HoldsCtx(Top) /\ Waits(g)
  BY <1>4, <1>5, <1>6 DEF HoldsCtx, IsLambda, IsPop, Waits, Working
<1>9. EvalEnv = Inner(Goto(pc), Depth)
  BY <1>4, <1>5, <1>6, <1>7 DEF EvalEnv, OwnScope, Inner, IsLambda
<1>10. Ready(Resumed, EvalEnv)
  BY <1>1, <1>3, <1>7, <1>8, <1>9 DEF Ready
<1>11. HoldsCtx([Top EXCEPT !.pc = pc]) = HoldsCtx(Top)
  BY <1>8 DEF g
<1>12. Placed(Resumed, ctxs, runs)
  BY <1>1, <1>2, <1>3, <1>11, PlacedGoto DEF Placing
<1>13. QED BY <1>10, <1>12

LEMMA CellPlaced ==
  ASSUME Placing, Evaluating,
         NEW ran, ran = RunsNow \/ (ran = runs /\ (IsPop(Top) => ~Keeping))
  PROVE  Placed(Resumed, ctxs, ran) /\ Ready(Resumed, EvalEnv)
<1>1. CASE ~IsPop(Top)
  BY <1>1, WaitsPlaced DEF RunsNow, IsPop
<1>2. CASE IsPop(Top)
  <2>1. /\ Depth > 0 /\ Depth = Len(frames) /\ Depth \in Nat /\ Top = frames[Depth]
        /\ Top \in FrameType /\ frames \in Seq(FrameType)
        /\ \A i \in 1..Depth : frames[i] \in FrameType
        /\ IInv /\ Balanced /\ ~threw /\ "loop" \notin Ops
    BY RunningFacts, FramesType DEF Placing, Evaluating, Running, IInv, TypeOK
  <2> DEFINE id == Top.list[1].id
  <2>2. /\ Top.list \in Seq(Deferred) /\ Top.list # << >> /\ Head(Top.list) = Top.list[1]
        /\ Resumed \in Seq(FrameType)
    BY <1>2, <2>1, TopAdvances
  <2>3. PICK g, n : Advanced(frames, Resumed, Depth, Top, g, n)
    BY <1>2, <2>1, TopAdvances
  <2>4. g.env = Top.env /\ g.owes = Top.owes /\ Resumed[Depth] = g
    <3>1. Resumed[Depth] = [Top EXCEPT !.list = Tail(Top.list)]
      <4>1. Resumed = [frames EXCEPT ![Depth] = [frames[Depth] EXCEPT !.list = Tail(frames[Depth].list)]]
        BY <1>2, <2>1 DEF Resumed, IsPop
      <4>2. Depth \in DOMAIN frames
        BY <2>1
      <4>3. QED BY <2>1, <4>1, <4>2
    <3>2. Resumed[Depth] = g
      BY <2>3 DEF Advanced
    <3>3. QED BY <2>1, <3>1, <3>2 DEF FrameType
  <2>5. id \in DeferId
    <3>1. Head(Top.list) \in Deferred
      BY <2>2, HeadTailProperties
    <3>2. QED BY <2>2, <3>1 DEF Deferred
  <2>6. Keeping => /\ ran[id] >= 1
                   /\ \A x \in DeferId : runs[x] >= 1 => ran[x] >= 1
    <3>1. ASSUME Keeping PROVE ran = [runs EXCEPT ![id] = IF @ < 2 THEN @ + 1 ELSE @]
      BY <1>2, <2>2, <3>1 DEF RunsNow, IsPop
    <3>2. runs \in [DeferId -> 0..2]
      BY <2>1 DEF IInv, TypeOK
    <3>3. QED BY <2>5, <3>1, <3>2
  <2>7. \A i \in 1..Depth : frames[i].owes \subseteq DeferId
    BY <2>1 DEF FrameType
  <2>8. Placed(Resumed, ctxs, ran)
    <3>1. Placed(frames, ctxs, runs)
      BY DEF Placing
    <3>2. QED BY <2>1, <2>3, <2>4, <2>6, <2>7, <3>1, PlacedAdvance
  <2>9. /\ EvalEnv = g.env /\ Inner(Resumed, Depth) = g.env /\ Waits(g)
        /\ Len(Resumed) = Depth
    BY <1>2, <2>1, <2>3, <2>4
       DEF EvalEnv, OwnScope, IsPop, Inner, Waits, IsLambda, Advanced
  <2>10. QED BY <2>1, <2>4, <2>8, <2>9 DEF Ready
<1>3. QED BY <1>1, <1>2

\* The context of a frame is there.
LEMMA OwnerLevels ==
  ASSUME IInv, NEW stack, Keeps(stack)
  PROVE  \A i \in 1..Len(stack) : Owner(stack[i]) =>
           stack[i].ctx \in Nat /\ stack[i].ctx + 1 \in 1..Len(ctxs)
<1>1. ASSUME NEW i \in 1..Len(stack), Owner(stack[i])
      PROVE  stack[i].ctx \in Nat /\ stack[i].ctx + 1 \in 1..Len(ctxs)
  <2>1. CtxNeed(stack[i]) <= Len(ctxs) /\ stack[i].ctx \in Nat /\ Len(ctxs) \in Nat
    BY KeptStack DEF KeptFacts, IInv, TypeOK
  <2>2. CtxNeed(stack[i]) = stack[i].ctx + 1
    BY <1>1 DEF CtxNeed, Owner
  <2>3. QED BY <2>1, <2>2
<1>2. QED BY <1>1

\* A frame that is no pop_ctx is entered, with a new context or none.
LEMMA EnteredPlaced ==
  ASSUME IInv, Active, NEW stack, Keeps(stack), NEW rn, Placed(stack, ctxs, rn),
         NEW f \in FrameType, ~IsPop(f), f.owes = {}, f.ctx = Len(ctxs), Ready(stack, f.env),
         NEW new, \/ new = ctxs /\ HoldsCtx(f) = 0
                  \/ new = Append(ctxs, << >>)
  PROVE  Placed(Append(stack, f), new, rn)
<1> DEFINE n == Len(ctxs)
           m == Len(stack)
<1>1. << >> \in Seq(Deferred) /\ ctxs \in Seq(Seq(Deferred)) /\ n \in Nat /\ n >= 1
  BY EmptySeq, CtxsType
<1>2. \A k \in 1..n : new[k] = ctxs[k]
  <2>1. CASE new = ctxs
    BY <2>1
  <2>2. CASE new = Append(ctxs, << >>)
    BY <1>1, <2>2, AppendProperties
  <2>3. QED BY <2>1, <2>2
<1>3. Owner(f) => Len(new[f.ctx + 1]) = 0
  <2>1. ASSUME new = Append(ctxs, << >>) PROVE new[n + 1] = << >>
    BY <1>1, <2>1, AppendProperties
  <2>2. QED BY <2>1 DEF Owner
<1>4. \A i \in 1..m : Owner(stack[i]) => stack[i].ctx + 1 \in 1..n
  BY OwnerLevels
<1>5. /\ m \in Nat /\ Len(Append(stack, f)) = m + 1 /\ Append(stack, f)[m + 1] = f
      /\ \A i \in 1..m : Append(stack, f)[i] = stack[i]
  BY AppendProperties DEF Keeps
<1> HIDE DEF n
<1>6. Placed(stack, new, rn)
  BY <1>1, <1>2, <1>4, PlacedCtxs
<1> HIDE DEF m
<1>7. m = Len(stack)
  BY DEF m
<1>8. QED BY <1>3, <1>5, <1>6, <1>7, PlacedPush

LEMMA CallPlaced ==
  ASSUME IInv, Active, NEW stack, Keeps(stack), NEW env \in Nat, Ready(stack, env),
         NEW rn, Placed(stack, ctxs, rn), {"loop", "if"} \intersect Ops = {},
         CallFunction(stack, env), ~threw'
  PROVE  Placed(frames', ctxs', rn)
<1>1. callStack \in Nat /\ Len(ctxs) \in Nat
  BY CtxsType DEF IInv, TypeOK
<1>2. PICK op \in Ops \intersect Builtins : Enter(stack, env, op)
  BY DEF CallFunction, Raise
<1> DEFINE f == Frame(op, EntryPc[op], env, << >>, callStack, Len(ctxs))
<1>3. EntryPc[op] \in PCs
  BY EntryType
<1>4. /\ f \in FrameType /\ ~IsPop(f) /\ f.owes = {} /\ f.ctx = Len(ctxs) /\ f.env = env
      /\ f.op = op /\ f.pc = EntryPc[op]
  BY <1>1, <1>3, EmptySeq DEF Frame, FrameType, IsPop, Builtins
<1>5. frames' = Append(stack, f)
  BY <1>2 DEF Enter
<1> HIDE DEF f
<1>6. \/ ctxs' = ctxs /\ HoldsCtx(f) = 0
      \/ ctxs' = Append(ctxs, << >>)
  BY <1>2, <1>4 DEF Enter, PushAtEntry, HoldsCtx, IsLambda, EntryPc, Builtins
<1>7. QED BY <1>4, <1>5, <1>6, EnteredPlaced

LEMMA ListPlaced ==
  ASSUME IInv, Active, NEW stack, Keeps(stack), NEW env \in Nat, Ready(stack, env),
         NEW rn, Placed(stack, ctxs, rn), {"loop", "if"} \intersect Ops = {},
         NEW walks, HandleList(stack, env, walks), ~threw', status' # "exit"
  PROVE  Placed(frames', ctxs', rn)
<1>1. callStack \in Nat /\ Len(ctxs) \in Nat
  BY CtxsType DEF IInv, TypeOK
<1>2. ASSUME NEW op \in {"walk", "head"}, NEW pc \in {"item", "op"}, Nest(stack, op, pc, env)
      PROVE  Placed(frames', ctxs', rn)
  <2> DEFINE f == Frame(op, pc, env, << >>, callStack, Len(ctxs))
  <2>1. /\ f \in FrameType /\ ~IsPop(f) /\ f.owes = {} /\ f.ctx = Len(ctxs) /\ f.env = env
        /\ HoldsCtx(f) = 0
    BY <1>1, EmptySeq DEF Frame, FrameType, PCs, IsPop, HoldsCtx, IsLambda
  <2>2. frames' = Append(stack, f) /\ ctxs' = ctxs
    BY <1>2 DEF Nest
  <2> HIDE DEF f
  <2>3. QED BY <2>1, <2>2, EnteredPlaced
<1>3. CASE CallFunction(stack, env)
  BY <1>3, CallPlaced
<1>4. CASE HaltWithError(stack, IF stack = << >> THEN "idle" ELSE "run")
  BY <1>4 DEF HaltWithError
<1>5. CASE Raise(stack, "exception")
  BY <1>5 DEF Raise
<1>6. QED BY <1>2, <1>3, <1>4, <1>5 DEF HandleList

\* A frame that returns has no more to process.
LEMMA ReturnPlaced ==
  ASSUME Placing, Running, ~IsPop(Top), frames' = Below
  PROVE  Placed(frames', ctxs, runs)
<1>1. IInv /\ Depth > 0 /\ Placed(frames, ctxs, runs)
  BY RunningActive DEF Placing
<1>2. /\ Len(Below) = Depth - 1 /\ Depth \in Nat /\ Depth = Len(frames) /\ Top = frames[Depth]
      /\ \A i \in 1..Depth - 1 : Below[i] = frames[i]
  BY <1>1, BelowFrames
<1> HIDE DEF Depth
<1>3. QED BY <1>1, <1>2, PlacedBelow

LEMMA WalkPlaced ==
  ASSUME Placing, At("walk", "check"), Step("item")
  PROVE  Placed(frames', ctxs', runs')
<1>1. IInv /\ Depth > 0 /\ Placed(frames, ctxs, runs) /\ Top \in FrameType /\ Top.op = "walk"
  BY RunningActive, RunningFacts DEF Placing, At
<1>2. HoldsCtx([Top EXCEPT !.pc = "item"]) = HoldsCtx(Top) /\ "item" \in PCs
  BY <1>1, PcTop DEF HoldsCtx, IsLambda, PCs
<1>3. QED BY <1>1, <1>2, PlacedGoto DEF Step

\* A function's arguments are done: its context is pushed.
LEMMA LambdaPlaced ==
  ASSUME Placing, LambdaEnter
  PROVE  Placed(frames', ctxs', runs')
<1>1. /\ IInv /\ Depth > 0 /\ Placed(frames, ctxs, runs) /\ Running /\ Active
      /\ IsLambda(Top) /\ Top.pc = "arg"
      /\ frames' = Goto("body") /\ ctxs' = Append(ctxs, << >>) /\ runs' = runs
  BY RunningActive DEF Placing, LambdaEnter, At, IsLambda
<1>2. /\ Depth = Len(frames) /\ Depth \in Nat /\ Top = frames[Depth] /\ Top \in FrameType
      /\ "body" \in PCs
  BY <1>1, RunningFacts DEF PCs
<1> DEFINE n == Len(ctxs)
<1>3. n \in Nat /\ n >= 1 /\ ctxs \in Seq(Seq(Deferred)) /\ << >> \in Seq(Deferred)
  BY <1>1, CtxsType, EmptySeq
<1>4. ctxs'[n + 1] = << >> /\ \A k \in 1..n : ctxs'[k] = ctxs[k]
  BY <1>1, <1>3, AppendProperties
<1>5. HoldsCtx(Top) = 0 /\ n = Top.ctx
  <2>1. HoldsCtx(Top) = 0
    BY <1>1 DEF HoldsCtx, IsLambda
  <2>2. n = CtxNeed(Top) /\ Top.ctx \in Nat
    BY <1>1, PopLevels DEF Placing
  <2>3. QED BY <2>1, <2>2 DEF CtxNeed
<1>6. \A i \in 1..Len(frames) : Owner(frames[i]) => frames[i].ctx + 1 \in 1..n
  BY <1>1, KeepsFrames, OwnerLevels DEF IInv
<1>7. Len(ctxs'[Top.ctx + 1]) = 0
  BY <1>4, <1>5
<1> HIDE DEF n
<1>8. Placed(frames, ctxs', runs)
  BY <1>1, <1>3, <1>4, <1>6, PlacedCtxs
<1>9. Placed(Goto("body"), ctxs', runs)
  BY <1>1, <1>2, <1>5, <1>7, <1>8, PlacedGoto
<1>10. QED BY <1>1, <1>9

\* A function or a try ends its own context: the one on top.
LEMMA PopOwnPlaced ==
  ASSUME Placing, Running, Owner(Top), NEW pc \in PCs,
         HoldsCtx([Top EXCEPT !.pc = pc]) = 0, PopCtx(Goto(pc), Depth)
  PROVE  Placed(frames', ctxs', runs')
<1>1. /\ IInv /\ Depth > 0 /\ Placed(frames, ctxs, runs) /\ Active
      /\ Depth = Len(frames) /\ Depth \in Nat /\ Top = frames[Depth] /\ Top \in FrameType
  BY RunningActive, RunningFacts DEF Placing
<1> DEFINE n == Len(ctxs)
           f == Frame("deferred", "next", Depth, ctxs[n], callStack, n - 1)
           g == [Top EXCEPT !.pc = pc]
           next == Append(Goto(pc), f)
<1>2. /\ ctxs # << >> /\ n \in Nat /\ n >= 1 /\ ctxs[n] \in Seq(Deferred) /\ callStack \in Nat
  BY <1>1, CtxsType DEF IInv, TypeOK
<1>3. Top.ctx + 1 = n
  <2>1. n = CtxNeed(Top) /\ Top.ctx \in Nat
    BY <1>1, PopLevels DEF Placing
  <2>2. QED BY <2>1 DEF CtxNeed, Owner
<1>4. frames' = next /\ ctxs' = ctxs /\ runs' = runs
  BY <1>2 DEF PopCtx
<1>5. /\ f \in FrameType /\ IsPop(f) /\ f.list = ctxs[Top.ctx + 1] /\ f.env = Depth
      /\ f.owes = {}
  BY <1>1, <1>2, <1>3 DEF Frame, FrameType, PCs, IsPop
<1>6. /\ Goto(pc) \in Seq(FrameType) /\ Len(Goto(pc)) = Depth /\ Goto(pc)[Depth] = g
      /\ \A i \in 1..Depth - 1 : Goto(pc)[i] = frames[i]
  BY <1>1, GotoTop
<1>7. g.op = Top.op /\ g.env = Top.env /\ g.owes = Top.owes /\ HoldsCtx(g) = 0
  BY <1>1, PcTop
<1> HIDE DEF f, g, n, Depth
<1>8. /\ Len(next) = Depth + 1 /\ next[Depth + 1] = f
      /\ \A i \in 1..Depth : next[i] = Goto(pc)[i]
  BY <1>5, <1>6, AppendProperties
<1> HIDE DEF next
<1>9. next[Depth] = g /\ \A i \in 1..Depth - 1 : next[i] = frames[i]
  BY <1>1, <1>6, <1>8
<1>10. Placed(next, ctxs, runs)
  BY <1>1, <1>5, <1>7, <1>8, <1>9, PlacedPop, SMTT(30)
<1>11. QED BY <1>4, <1>10

\* The context of a pop_ctx that has executed its list goes, and its frame.
LEMMA PopEndPlaced ==
  ASSUME Placing, PopCtxEnd, status' # "done"
  PROVE  Placed(frames', ctxs', runs')
<1>1. /\ IInv /\ Depth > 0 /\ Placed(frames, ctxs, runs) /\ Running /\ Active
      /\ IsPop(Top) /\ Top.list = << >> /\ frames' = Below /\ runs' = runs /\ Depth # 1
      /\ Depth = Len(frames) /\ Depth \in Nat /\ Top = frames[Depth]
  BY RunningActive, RunningFacts DEF Placing, PopCtxEnd, At, IsPop
<1> DEFINE n == Top.ctx
<1>2. Popped(frames, ctxs, frames', ctxs', Depth, n)
  BY TopPopped DEF Placing
<1>3. n \in Nat /\ \A k \in 1..n : ctxs'[k] = ctxs[k]
  BY <1>2 DEF Popped
<1>4. /\ Len(Below) = Depth - 1 /\ Keeps(Below)
      /\ \A i \in 1..Depth - 1 : Below[i] = frames[i]
  BY <1>1, BelowFrames, KeepsBelow DEF IInv
<1>5. \A i \in 1..Depth - 1 : Owner(frames[i]) => frames[i].ctx + 1 \in 1..n
  <2>1. ASSUME NEW i \in 1..Depth - 1, Owner(frames[i])
        PROVE  frames[i].ctx + 1 \in 1..n
    <3>1. i \in DOMAIN frames /\ Depth \in DOMAIN frames /\ i < Depth /\ frames[i] \in FrameType
      BY <1>1, FramesType DEF IInv
    <3>2. CtxNeed(frames[i]) <= n
      BY <1>1, <3>1 DEF IInv, ContextsStay
    <3>3. frames[i].ctx \in Nat /\ CtxNeed(frames[i]) = frames[i].ctx + 1
      BY <2>1, <3>1, NeedType DEF CtxNeed, Owner
    <3>4. QED BY <1>3, <3>2, <3>3
  <2>2. QED BY <2>1
<1>6. n >= 1
  <2>1. Depth \in DOMAIN frames
    BY <1>1, FramesType DEF IInv
  <2>2. QED BY <1>1, <2>1 DEF IInv, Anchored
<1> HIDE DEF n, Depth
<1>7. Len(Top.list) = 0
  BY <1>1
<1>8. Placed(Below, ctxs, runs)
  <2>1. Depth > 1
    BY <1>1
  <2>2. QED BY <1>1, <1>4, <1>7, <2>1, PlacedBelow
<1>9. \A i \in 1..Len(Below) : Owner(Below[i]) => Below[i].ctx + 1 \in 1..n
  BY <1>4, <1>5
<1>10. Placed(Below, ctxs', runs)
  BY <1>3, <1>6, <1>8, <1>9, PlacedCtxs
<1>11. QED BY <1>1, <1>10

\* The destructor ends the interpreter's own context.
LEMMA FinishPlaced ==
  ASSUME Placing, status = "idle", frames = << >>, PopCtx(<< >>, 0)
  PROVE  Placed(frames', ctxs', runs')
<1> DEFINE n == Len(ctxs)
           f == Frame("deferred", "next", 0, ctxs[n], callStack, n - 1)
<1>1. /\ ctxs # << >> /\ n \in Nat /\ n >= 1 /\ ctxs[n] \in Seq(Deferred) /\ IInv
  BY CtxsType DEF Placing, Active
<1>2. frames' = Append(<< >>, f) /\ ctxs' = ctxs /\ runs' = runs
  BY <1>1 DEF PopCtx
<1>3. IsPop(f) /\ f.list = ctxs[n] /\ f.env = 0 /\ f.owes = {} /\ ~Owner(f)
  BY DEF Frame, IsPop, Owner
<1>4. n = 1
  <2>1. Len(frames) = 0 /\ Depth = 0
    BY EmptySeq DEF Depth
  <2>2. Exact(frames, callStack, n, yield)
    BY <2>1 DEF Placing, Balanced, Alive
  <2>3. QED BY <2>1, <2>2 DEF Placing, Exact, CtxsExact, CtxsUpTo
<1>5. \A k \in 1..Len(ctxs[1]) : ctxs[1][k].env = 0
  BY DEF Placing, Placed, InPlace
<1> HIDE DEF f, n
<1>6. frames' = << f >> /\ Len(<< f >>) = 1 /\ << f >>[1] = f
  BY <1>2
<1>7. Chained(<< f >>)
  BY <1>3, <1>6 DEF Chained
<1>8. InPlace(<< f >>, ctxs)
  BY <1>3, <1>6 DEF InPlace
<1>9. PopsFit(<< f >>)
  BY <1>3, <1>4, <1>5, <1>6 DEF PopsFit
<1>10. OwesKept(<< f >>, ctxs, runs)
  BY <1>3, <1>6 DEF OwesKept
<1>11. QED BY <1>2, <1>6, <1>7, <1>8, <1>9, <1>10 DEF Placed

\* The same frame, except for what it owes.
SameButOwes(f, g) ==
  /\ f.op = g.op /\ f.pc = g.pc /\ f.env = g.env /\ f.list = g.list /\ f.ctx = g.ctx
  /\ Owner(f) <=> Owner(g)

\* An item deferred in env goes to a context that is its owner's.
Fits(stack, n, env) ==
  /\ \A i \in 1..Len(stack) : Owner(stack[i]) =>
       /\ stack[i].ctx \in Nat /\ stack[i].ctx + 1 \in 1..n
       /\ stack[i].ctx + 1 = n =>
            \/ env = i
            \/ stack[i].op = "try" /\ env = stack[i].env
  /\ n = 1 /\ (Len(stack) = 0 \/ ~IsPop(stack[1])) => env = 0

\* The frame o now owes the item id, which is in its own context, the n-th.
Indebted(stack, next, d, o, id, n) ==
  /\ d \in Nat /\ d = Len(stack) /\ Len(next) = d
  /\ \A i \in 1..d : /\ SameButOwes(next[i], stack[i])
                     /\ next[i].owes \subseteq stack[i].owes
                          \union (IF i = o THEN {id} ELSE {})
  /\ Keeping /\ o \in 1..d => Owner(stack[o]) /\ stack[o].ctx + 1 = n

LEMMA PlacedDefer ==
  ASSUME NEW stack, NEW cx, NEW rn, Placed(stack, cx, rn),
         NEW new, NEW list, NEW n, NEW m, NEW id, Added(cx, new, list, n, m, id),
         NEW env, env = list[m + 1].env, Fits(stack, n, env),
         NEW next, NEW d, NEW o, Indebted(stack, next, d, o, id, n)
  PROVE  Placed(next, new, rn)
<1>0. /\ d \in Nat /\ d = Len(stack) /\ Len(next) = d
      /\ \A i \in 1..d : /\ SameButOwes(next[i], stack[i])
                         /\ next[i].owes \subseteq stack[i].owes
                              \union (IF i = o THEN {id} ELSE {})
      /\ Keeping /\ o \in 1..d => Owner(stack[o]) /\ stack[o].ctx + 1 = n
  BY DEF Indebted
<1> USE <1>0 DEF Added
<1>1. ASSUME NEW k \in 1..n, NEW j \in 1..Len(new[k])
      PROVE  \/ j \in 1..Len(cx[k]) /\ new[k][j] = cx[k][j]
             \/ k = n /\ new[k][j] = list[m + 1]
  OBVIOUS
<1>2. ASSUME NEW k \in 1..n, NEW x, Has(cx[k], x) PROVE Has(new[k], x)
  <2>1. PICK j \in 1..Len(cx[k]) : cx[k][j].id = x
    BY <1>2 DEF Has
  <2>2. j \in 1..Len(new[k]) /\ new[k][j] = cx[k][j]
    OBVIOUS
  <2>3. QED BY <2>1, <2>2 DEF Has
<1>3. Has(new[n], id)
  BY DEF Has
<1>4. \A i \in 1..d : SameButOwes(next[i], stack[i]) /\ (IsPop(next[i]) <=> IsPop(stack[i]))
  BY DEF SameButOwes, IsPop
<1>5. \A i \in 1..d : Owner(stack[i]) => stack[i].ctx + 1 \in 1..n
  BY DEF Fits
<1>6. \A i \in 1..d : i > 1 => i - 1 \in 1..d
  OBVIOUS
<1>7. \A i \in 1..d : i < d => i + 1 \in 1..d
  OBVIOUS
<1>8. d > 0 => 1 \in 1..d
  OBVIOUS
<1> USE DEF SameButOwes
<1>9. Chained(next)
  <2>1. ASSUME NEW i \in 1..d, ~IsPop(next[i])
        PROVE  IF i = 1 THEN next[i].env = 0
               ELSE next[i].env = Inner(next, i - 1) /\ Waits(next[i - 1])
    <3>1. IF i = 1 THEN stack[i].env = 0
          ELSE stack[i].env = Inner(stack, i - 1) /\ Waits(stack[i - 1])
      BY <1>4, <2>1 DEF Placed, Chained
    <3>2. CASE i = 1
      BY <1>4, <3>1, <3>2
    <3>3. CASE i # 1
      <4>1. i - 1 \in 1..d
        BY <3>3
      <4>2. Inner(next, i - 1) = Inner(stack, i - 1)
        BY <1>4, <4>1 DEF Inner, IsLambda
      <4>3. Waits(stack[i - 1]) => Waits(next[i - 1])
        BY <1>4, <4>1 DEF Waits, Working, HoldsCtx, IsLambda, IsPop
      <4>4. QED BY <1>4, <3>1, <3>3, <4>2, <4>3
    <3>4. QED BY <3>2, <3>3
  <2>2. QED BY <2>1 DEF Chained
<1>10. InPlace(next, new)
  <2>1. ASSUME NEW i \in 1..d, Owner(next[i]), NEW k \in 1..Len(new[next[i].ctx + 1])
        PROVE  \/ new[next[i].ctx + 1][k].env = i
               \/ next[i].op = "try" /\ new[next[i].ctx + 1][k].env = next[i].env
    <3> DEFINE c == stack[i].ctx + 1
    <3>1. Owner(stack[i]) /\ next[i].ctx + 1 = c /\ c \in 1..n /\ k \in 1..Len(new[c])
      BY <1>4, <1>5, <2>1
    <3>2. c = n => \/ list[m + 1].env = i
                   \/ stack[i].op = "try" /\ list[m + 1].env = stack[i].env
      BY <3>1 DEF Fits
    <3>3. \A j \in 1..Len(cx[c]) : \/ cx[c][j].env = i
                                   \/ stack[i].op = "try" /\ cx[c][j].env = stack[i].env
      BY <3>1 DEF Placed, InPlace
    <3>4. next[i].op = stack[i].op /\ next[i].env = stack[i].env
      BY <1>4
    <3> HIDE DEF c
    <3>5. \/ k \in 1..Len(cx[c]) /\ new[c][k] = cx[c][k]
          \/ c = n /\ new[c][k] = list[m + 1]
      BY <1>1, <3>1
    <3>6. QED BY <3>1, <3>2, <3>3, <3>4, <3>5, SMTT(30)
  <2>2. ASSUME Len(next) = 0 \/ ~IsPop(next[1]), NEW k \in 1..Len(new[1])
        PROVE  new[1][k].env = 0
    <3>1. Len(stack) = 0 \/ ~IsPop(stack[1])
      BY <1>4, <1>8, <2>2
    <3>2. \A j \in 1..Len(cx[1]) : cx[1][j].env = 0
      BY <3>1 DEF Placed, InPlace
    <3>3. n = 1 => list[m + 1].env = 0
      BY <3>1 DEF Fits
    <3>4. 1 \in 1..n
      OBVIOUS
    <3>5. QED BY <1>1, <2>2, <3>2, <3>3, <3>4
  <2>3. \A i \in 1..Len(next) : Owner(next[i]) =>
          \A k \in 1..Len(new[next[i].ctx + 1]) :
            \/ new[next[i].ctx + 1][k].env = i
            \/ next[i].op = "try" /\ new[next[i].ctx + 1][k].env = next[i].env
    BY <2>1
  <2> HIDE DEF Added, SameButOwes
  <2>4. QED BY <2>2, <2>3, Zenon DEF InPlace
<1>11. PopsFit(next)
  <2>1. ASSUME NEW i \in 1..d, IsPop(next[i]), NEW k \in 1..Len(next[i].list)
        PROVE  \/ next[i].list[k].env = next[i].env
               \/ i > 1 /\ next[i - 1].op = "try" /\ next[i].list[k].env = next[i - 1].env
    <3>1. IsPop(stack[i]) /\ next[i].list = stack[i].list /\ next[i].env = stack[i].env
      BY <1>4, <2>1
    <3>2. i > 1 => next[i - 1].op = stack[i - 1].op /\ next[i - 1].env = stack[i - 1].env
      BY <1>4, <1>6
    <3>3. \/ stack[i].list[k].env = stack[i].env
          \/ i > 1 /\ stack[i - 1].op = "try" /\ stack[i].list[k].env = stack[i - 1].env
      BY <2>1, <3>1 DEF Placed, PopsFit
    <3>4. QED BY <3>1, <3>2, <3>3
  <2>2. QED BY <2>1 DEF PopsFit
<1>12. ASSUME Keeping PROVE OwesKept(next, new, rn)
  <2>1. OwesKept(stack, cx, rn)
    BY <1>12 DEF Placed
  <2>2. ASSUME NEW i \in 1..d, NEW x \in next[i].owes
        PROVE  \/ rn[x] >= 1
               \/ Owner(next[i]) /\ Has(new[next[i].ctx + 1], x)
               \/ i < d /\ IsPop(next[i + 1]) /\ Has(next[i + 1].list, x)
    <3>1. CASE x \in stack[i].owes
      <4>1. \/ rn[x] >= 1
            \/ Owner(stack[i]) /\ Has(cx[stack[i].ctx + 1], x)
            \/ i < d /\ IsPop(stack[i + 1]) /\ Has(stack[i + 1].list, x)
        BY <2>1, <3>1 DEF OwesKept
      <4>2. CASE Owner(stack[i]) /\ Has(cx[stack[i].ctx + 1], x)
        BY <1>2, <1>4, <1>5, <4>2
      <4>3. CASE i < d /\ IsPop(stack[i + 1]) /\ Has(stack[i + 1].list, x)
        BY <1>4, <1>7, <4>3
      <4>4. QED BY <4>1, <4>2, <4>3
    <3>2. CASE x \notin stack[i].owes
      <4>1. i = o /\ x = id
        BY <3>2
      <4>2. Owner(stack[i]) /\ stack[i].ctx + 1 = n
        BY <1>12, <4>1
      <4>3. QED BY <1>3, <1>4, <4>1, <4>2
    <3>3. QED BY <3>1, <3>2
  <2>3. QED BY <2>2 DEF OwesKept
<1>13. QED BY <1>9, <1>10, <1>11, <1>12 DEF Placed

\* The context of a frame is the one on top when no frame above has one.
LEMMA AboveHoldNone ==
  ASSUME IInv, NEW i \in 1..Depth, CtxNeed(frames[i]) >= Len(ctxs)
  PROVE  \A j \in i + 1..Depth : HoldsCtx(frames[j]) = 0
<1>1. /\ Depth \in Nat /\ DOMAIN frames = 1..Depth /\ Len(ctxs) \in Nat
      /\ \A j \in 1..Depth : frames[j] \in FrameType
  BY FramesType DEF IInv, TypeOK
<1>2. ASSUME NEW j \in i + 1..Depth PROVE HoldsCtx(frames[j]) = 0
  <2>1. j \in 1..Depth /\ i < j
    BY <1>1
  <2>2. CtxNeed(frames[i]) <= frames[j].ctx /\ CtxNeed(frames[j]) <= Len(ctxs)
    BY <1>1, <2>1 DEF IInv, ContextsStay
  <2>3. /\ CtxNeed(frames[i]) \in Nat /\ frames[j].ctx \in Nat
        /\ HoldsCtx(frames[j]) \in {0, 1}
    BY <1>1, <2>1, NeedType, HoldsType
  <2>4. CtxNeed(frames[j]) = frames[j].ctx + HoldsCtx(frames[j])
    BY DEF CtxNeed
  <2>5. QED BY <1>1, <2>2, <2>3, <2>4
<1>3. QED BY <1>2

\* Where an instruction is deferred.
LEMMA DeferFits ==
  ASSUME Placing, At("defer", "next")
  PROVE  Fits(frames, Len(ctxs), Top.env)
<1> DEFINE n == Len(ctxs)
<1>1. /\ IInv /\ Depth > 0 /\ Active /\ Chained(frames)
      /\ Depth = Len(frames) /\ Depth \in Nat /\ Top = frames[Depth] /\ Top.op = "defer"
      /\ DOMAIN frames = 1..Depth /\ \A j \in 1..Depth : frames[j] \in FrameType
  BY RunningActive, RunningFacts, FramesType DEF Placing, Placed, At, IInv
<1>2. n \in Nat /\ n >= 1 /\ HoldsCtx(Top) = 0 /\ ~IsPop(Top)
  BY <1>1, CtxsType DEF HoldsCtx, IsLambda, IsPop
<1>3. \A i \in 1..Depth : Owner(frames[i]) => frames[i].ctx \in Nat /\ frames[i].ctx + 1 \in 1..n
  BY <1>1, KeepsFrames, OwnerLevels DEF IInv
<1> HIDE DEF n, Depth
<1>4. ASSUME NEW i \in 1..Depth, Owner(frames[i]), frames[i].ctx + 1 = n
      PROVE  Top.env = i \/ (frames[i].op = "try" /\ Top.env = frames[i].env)
  <2>1. HoldsCtx(frames[i]) = 1 /\ ~IsPop(frames[i]) /\ CtxNeed(frames[i]) = n
    BY <1>4 DEF Owner, CtxNeed
  <2>2. i < Depth
    BY <1>1, <1>2, <2>1
  <2>3. \A j \in i + 1..Depth : HoldsCtx(frames[j]) = 0
    BY <1>1, <1>2, <2>1, AboveHoldNone DEF n
  <2>4. Top.env = Inner(frames, i) /\ Waits(frames[i])
    BY <1>1, <2>2, <2>3, ChainUp
  <2>5. Working(frames[i])
    BY <2>1, <2>4 DEF Waits
  <2>6. Inner(frames, i) = i \/ (frames[i].op = "try" /\ Inner(frames, i) = frames[i].env)
    BY <2>5 DEF Working, Inner
  <2>7. QED BY <2>4, <2>6
<1>5. ASSUME n = 1, ~IsPop(frames[1]) PROVE Top.env = 0
  <2>1. 1 \in 1..Depth
    BY <1>1
  <2>2. \A j \in 1..Depth : HoldsCtx(frames[j]) = 0
    <3>1. ASSUME NEW j \in 1..Depth PROVE HoldsCtx(frames[j]) = 0
      <4>1. frames[j].ctx >= 1
        BY <1>1, <1>5 DEF IInv, Anchored, IsPop
      <4>2. CtxNeed(frames[j]) <= 1
        BY <1>1, <1>5 DEF IInv, ContextsStay, n
      <4>3. HoldsCtx(frames[j]) \in {0, 1} /\ frames[j].ctx \in Nat
        BY <1>1, HoldsType, NeedType
      <4>4. CtxNeed(frames[j]) = frames[j].ctx + HoldsCtx(frames[j])
        BY DEF CtxNeed
      <4>5. QED BY <4>1, <4>2, <4>3, <4>4
    <3>2. QED BY <3>1
  <2>3. frames[1].env = 0
    BY <1>1, <1>5, <2>1 DEF Chained
  <2>4. Inner(frames, 1) = frames[1].env
    BY <2>1, <2>2 DEF Inner, HoldsCtx
  <2>5. 1 < Depth => Top.env = Inner(frames, 1)
    <3>1. \A j \in 1 + 1..Depth : j \in 1..Depth
      BY <1>1
    <3>2. \A j \in 1 + 1..Depth : HoldsCtx(frames[j]) = 0
      BY <2>2, <3>1
    <3>3. QED BY <1>1, <2>1, <3>2, ChainUp
  <2>6. QED BY <1>1, <2>3, <2>4, <2>5
<1>6. QED BY <1>1, <1>3, <1>4, <1>5 DEF Fits, n

\* What is owed is in the context of the frame that owes it.
LEMMA DeferOwner ==
  ASSUME Placing, Keeping, DeferNext, NEW o \in 1..Depth, o = ContextOf
  PROVE  Owner(frames[o]) /\ frames[o].ctx + 1 = Len(ctxs)
<1> DEFINE InContext(i) == \/ IsLambda(frames[i]) /\ frames[i].pc = "pop"
                           \/ frames[i].op \in PushAtEntry
                           \/ frames[i].op = "deferred"
           bodies == {i \in DOMAIN frames : InContext(i)}
           inner  == CHOOSE i \in bodies : \A j \in bodies : j <= i
<1>1. /\ IInv /\ Depth > 0 /\ Active /\ Chained(frames) /\ Running
      /\ Depth = Len(frames) /\ Depth \in Nat /\ Top = frames[Depth] /\ Top.op = "defer"
      /\ DOMAIN frames = 1..Depth /\ \A j \in 1..Depth : frames[j] \in FrameType
  BY RunningActive, RunningFacts, FramesType DEF Placing, Placed, DeferNext, At, IInv
<1>2. CtxsExact(frames, Len(ctxs)) /\ Permitted(frames)
  BY <1>1, BalancedRunning DEF Placing, Exact
<1>3. o \in bodies /\ \A j \in bodies : j <= o
  <2>1. o = IF bodies = {} THEN 0 ELSE inner
    BY DEF ContextOf
  <2>2. bodies \subseteq 1..Depth
    BY <1>1
  <2> HIDE DEF bodies
  <2>3. ASSUME bodies # {} PROVE inner \in bodies /\ \A j \in bodies : j <= inner
    <3>1. \E i \in bodies : \A j \in bodies : j <= i
      BY <1>1, <2>2, <2>3, InnermostExists
    <3>2. QED BY <3>1, Zenon
  <2>4. bodies # {}
    BY <1>1, <2>1
  <2>5. QED BY <2>1, <2>3, <2>4
<1>4. \A j \in 1..Depth : InContext(j) => j <= o
  BY <1>1, <1>3
<1>5. InContext(o)
  BY <1>3
<1>6. \A j \in 1..Depth : frames[j].op \notin {"loop", "if"}
  <2>1. \A j \in 1..Depth : frames[j].op \in Ops \union {"deferred"}
    BY <1>1, <1>2 DEF Permitted
  <2>2. QED BY <2>1 DEF Placing
<1> HIDE DEF bodies, inner, Depth
<1>7. o < Depth
  <2>1. ~InContext(Depth)
    BY <1>1 DEF IsLambda, PushAtEntry
  <2>2. QED BY <1>1, <1>5, <2>1
<1>8. \A j \in o + 1..Depth : j \in 1..Depth /\ ~InContext(j) /\ (j < Depth => j + 1 \in o + 1..Depth)
  <2>1. \A j \in o + 1..Depth : j \in 1..Depth /\ ~(j <= o) /\ (j < Depth => j + 1 \in o + 1..Depth)
    BY <1>1
  <2> HIDE DEF InContext
  <2>2. QED BY <1>4, <2>1
<1>9. ASSUME NEW j \in o..Depth, j < Depth
      PROVE  Waits(frames[j])
  <2>1. j + 1 \in o + 1..Depth /\ j + 1 \in 1..Depth /\ j + 1 # 1 /\ j + 1 - 1 = j
    BY <1>1, <1>9
  <2>2. ~IsPop(frames[j + 1])
    BY <1>8, <2>1 DEF IsPop
  <2>3. QED BY <1>1, <2>1, <2>2 DEF Chained
<1>10. \A j \in o + 1..Depth : HoldsCtx(frames[j]) = 0
  <2>1. ASSUME NEW j \in o + 1..Depth, HoldsCtx(frames[j]) = 1 PROVE FALSE
    <3>1. ~IsPop(frames[j]) /\ frames[j].op # "try" /\ j \in 1..Depth
      BY <1>8 DEF IsPop, PushAtEntry
    <3>2. IsLambda(frames[j]) /\ frames[j].pc # "pop"
      BY <1>6, <1>8, <2>1, <3>1 DEF HoldsCtx, IsPop
    <3>3. j # Depth
      BY <1>1, <3>2 DEF IsLambda
    <3>4. j < Depth /\ j \in o..Depth
      BY <1>1, <3>3
    <3>5. Working(frames[j])
      BY <1>9, <2>1, <3>1, <3>4 DEF Waits
    <3>6. QED BY <3>1, <3>2, <3>5 DEF Working
  <2>2. QED BY <2>1, HoldsType
<1>11. Len(ctxs) = CtxNeed(frames[o])
  BY <1>1, <1>2, <1>10, NeedType, LevelUp
<1>12. Waits(frames[o])
  BY <1>1, <1>7, <1>9
<1>13. ~IsPop(frames[o])
  <2>1. ASSUME IsPop(frames[o]) PROVE FALSE
    <3>1. CtxNeed(frames[o]) = frames[o].ctx + 1 /\ frames[o].ctx \in Nat
      BY <1>1, <2>1, NeedType DEF CtxNeed, HoldsCtx, IsPop
    <3>2. frames[o].ctx = Len(ctxs) - 1 /\ frames[o].op = "deferred" /\ o \in DOMAIN frames
      BY <1>1, <1>11, <2>1, <3>1 DEF IsPop
    <3>3. ContextEnding
      BY <3>2 DEF ContextEnding
    <3>4. QED BY <3>3 DEF DeferNext, Keeping
  <2>2. QED BY <2>1
<1>14. HoldsCtx(frames[o]) = 1
  <2>1. \/ IsLambda(frames[o]) /\ frames[o].pc = "pop"
        \/ frames[o].op = "try" /\ Working(frames[o])
    BY <1>5, <1>6, <1>12, <1>13 DEF PushAtEntry, IsPop, Waits
  <2>2. QED BY <2>1 DEF Working, HoldsCtx, IsLambda
<1>15. QED BY <1>1, <1>11, <1>13, <1>14, NeedType DEF Owner, CtxNeed

LEMMA DeferPlaced ==
  ASSUME Placing, DeferNext
  PROVE  Placed(frames', ctxs', runs')
<1>1. /\ IInv /\ Depth > 0 /\ Active /\ Placed(frames, ctxs, runs) /\ At("defer", "next")
      /\ Depth = Len(frames) /\ Depth \in Nat /\ DOMAIN frames = 1..Depth
      /\ \A j \in 1..Depth : frames[j] \in FrameType
  BY RunningActive, RunningFacts, FramesType DEF Placing, DeferNext, At, IInv
<1>2. runs' = runs /\ deferCount + 1 \in DeferId
  BY <1>1, TopAdds
<1> DEFINE n == Len(ctxs)
           item == [id |-> deferCount + 1, env |-> Top.env]
           list == Append(ctxs[n], item)
           m == Len(ctxs[n])
           o == ContextOf
<1>3. /\ frames' = [i \in DOMAIN frames |->
             IF i = o THEN [frames[i] EXCEPT !.owes = @ \union {item.id}] ELSE frames[i]]
      /\ ctxs' = [ctxs EXCEPT ![n] = list]
  <2>1. ctxs # << >>
    BY <1>1, CtxsType
  <2>2. QED BY <2>1 DEF DeferNext
<1>4. /\ n \in Nat /\ n >= 1 /\ ctxs[n] \in Seq(Deferred) /\ ctxs \in Seq(Seq(Deferred))
      /\ m \in Nat
  BY <1>1, CtxsType
<1>5. item \in Deferred
  BY <1>1, <1>2, RunningFacts DEF Deferred
<1>6. item.id = deferCount + 1 /\ item.env = Top.env
  OBVIOUS
<1> HIDE DEF item
<1>7. Len(list) = m + 1 /\ list[m + 1] = item /\ \A i \in 1..m : list[i] = ctxs[n][i]
  BY <1>4, <1>5, AppendProperties
<1> HIDE DEF list
<1>8. Len(ctxs') = n /\ ctxs'[n] = list /\ \A k \in 1..n : k # n => ctxs'[k] = ctxs[k]
  BY <1>3, <1>4
<1>9. n = Len(ctxs) /\ m = Len(ctxs[n])
  OBVIOUS
<1>10. Fits(frames, n, list[m + 1].env)
  BY <1>1, <1>6, <1>7, DeferFits
<1>11. Keeping /\ o \in 1..Depth => Owner(frames[o]) /\ frames[o].ctx + 1 = n
  BY DeferOwner
<1> HIDE DEF n, m, o, Depth
<1>12. Added(ctxs, ctxs', list, n, m, item.id)
  <2>1. list[m + 1].id = item.id
    BY <1>7
  <2>2. QED BY <1>4, <1>7, <1>8, <1>9, <2>1 DEF Added
<1>13. Len(frames') = Depth
  BY <1>1, <1>3
<1>14. ASSUME NEW i \in 1..Depth
       PROVE  /\ SameButOwes(frames'[i], frames[i])
              /\ frames'[i].owes \subseteq frames[i].owes
                   \union (IF i = o THEN {item.id} ELSE {})
  <2>1. CASE i # o
    BY <1>1, <1>3, <2>1 DEF SameButOwes
  <2>2. CASE i = o
    <3> DEFINE f == frames[i]
               g == [f EXCEPT !.owes = f.owes \union {item.id}]
    <3>1. frames'[i] = g /\ f \in FrameType
      BY <1>1, <1>3, <2>2
    <3>2. /\ f.op = g.op /\ f.pc = g.pc /\ f.env = g.env /\ f.list = g.list
          /\ f.ctx = g.ctx /\ g.owes = f.owes \union {item.id}
      BY <3>1 DEF FrameType
    <3> HIDE DEF f, g
    <3>3. Owner(g) <=> Owner(f)
      BY <3>2 DEF Owner, HoldsCtx, IsLambda, IsPop
    <3>4. SameButOwes(g, f)
      BY <3>2, <3>3 DEF SameButOwes
    <3>5. f = frames[i]
      BY DEF f
    <3>6. QED BY <2>2, <3>1, <3>2, <3>4, <3>5
  <2>3. QED BY <2>1, <2>2
<1>15. Indebted(frames, frames', Depth, o, item.id, n)
  BY <1>1, <1>11, <1>13, <1>14 DEF Indebted
<1>16. Placed(frames', ctxs', runs)
  BY <1>1, <1>10, <1>12, <1>15, PlacedDefer
<1>17. QED BY <1>2, <1>16

LEMMA PlacedPrime ==
  ASSUME Placed(frames', ctxs', runs')
  PROVE  Placed(frames, ctxs, runs)'
BY DEF Placed, Chained, InPlace, PopsFit, OwesKept, Owner, Working, Waits, Inner, Has,
       IsPop, HoldsCtx, IsLambda, Keeping

\* Without `<-' no yield value is ever set.
Calm == "yield" \notin Ops => Quiet

LEMMA MovePlaced ==
  ASSUME Placing, At("walk", "check"), WalkNext
  PROVE  Placed(frames', ctxs', runs')
<1>1. ~IsPop(Top) /\ Running
  BY DEF At, IsPop
<1>2. CASE Return
  BY <1>1, <1>2, ReturnPlaced DEF Return
<1>3. CASE Step("item")
  BY <1>3, WalkPlaced
<1>4. QED BY <1>2, <1>3 DEF WalkNext

LEMMA OpPlaced ==
  ASSUME Placing, CallOperator
  PROVE  Placed(frames', ctxs', runs')
<1>1. /\ Running /\ Depth > 0 /\ Top.op = "head" /\ runs' = runs /\ CallFunction(Below, Top.env)
      /\ IInv /\ Active /\ ~threw' /\ {"loop", "if"} \intersect Ops = {}
      /\ Placed(frames, ctxs, runs)
  BY RunningActive DEF CallOperator, At, Placing, Raise
<1>2. /\ Depth = Len(frames) /\ Depth \in Nat /\ Top = frames[Depth] /\ Top.env \in Nat
      /\ Len(Below) = Depth - 1 /\ \A i \in 1..Depth - 1 : Below[i] = frames[i]
      /\ Keeps(Below)
  BY <1>1, RunningFacts, BelowFrames, KeepsBelow DEF IInv
<1>3. ~IsPop(Top)
  BY <1>1 DEF IsPop
<1> HIDE DEF Depth, Below
<1>4. Placed(Below, ctxs, runs)
  BY <1>1, <1>2, <1>3, PlacedBelow
<1>5. Ready(Below, Top.env)
  <2>1. IF Depth = 1 THEN Top.env = 0
        ELSE Top.env = Inner(frames, Depth - 1) /\ Waits(frames[Depth - 1])
    BY <1>1, <1>2, <1>3 DEF Placed, Chained
  <2>2. CASE Depth = 1
    BY <1>2, <2>1, <2>2 DEF Ready
  <2>3. CASE Depth # 1
    <3>1. Depth - 1 \in 1..Depth - 1
      BY <1>1, <1>2, <2>3
    <3>2. Below[Depth - 1] = frames[Depth - 1]
      BY <1>2, <3>1
    <3>3. Inner(Below, Depth - 1) = Inner(frames, Depth - 1)
      BY <3>2 DEF Inner
    <3>4. QED BY <1>2, <2>1, <2>3, <3>1, <3>2, <3>3 DEF Ready
  <2>4. QED BY <2>2, <2>3
<1>6. QED BY <1>1, <1>2, <1>4, <1>5, CallPlaced

LEMMA ListCellPlaced ==
  ASSUME Placing, Evaluating, NEW walks, HandleList(Resumed, EvalEnv, walks),
         runs' = RunsNow, status' # "exit"
  PROVE  Placed(frames', ctxs', runs')
<1>1. IInv /\ Active /\ Keeps(Resumed) /\ EvalEnv \in Nat
  BY RunningActive, KeepsResumed, RunsNowType DEF Placing, Evaluating, IInv
<1>2. Placed(Resumed, ctxs, runs') /\ Ready(Resumed, EvalEnv)
  BY CellPlaced
<1>3. QED BY <1>1, <1>2, ListPlaced DEF Placing

LEMMA NextPlaced ==
  ASSUME Placing, Next, ~UNCHANGED vars, status' \notin {"done", "exit"},
         status \notin {"done", "exit"}
  PROVE  Placed(frames', ctxs', runs')
<1>1. /\ IInv /\ Balanced /\ ~threw /\ ~threw' /\ {"loop", "if"} \intersect Ops = {}
      /\ Placed(frames, ctxs, runs) /\ status = IF Depth = 0 THEN "idle" ELSE "run"
      /\ Exact(frames, callStack, Len(ctxs), yield)
      /\ Keeping => yield = NoYield
  BY DEF Placing, Balanced, Alive
<1>2. {"reset", "ret"} \subseteq PCs
  BY DEF PCs
<1>3. Depth > 0 => Top.op \notin {"loop", "if"}
  <2>1. Depth > 0 => Top.op \in Ops \union {"deferred"}
    BY <1>1, RunningFacts DEF Exact, Permitted
  <2>2. QED BY <1>1, <2>1
<1>4. CASE ProcessYielding \/ ProcessAtom
  <2>1. /\ Evaluating /\ frames' = Resumed /\ ctxs' = ctxs
        /\ runs' = RunsNow \/ (runs' = runs /\ yield # NoYield)
    BY <1>4 DEF ProcessYielding, ProcessAtom
  <2>2. QED BY <1>1, <2>1, CellPlaced
<1>5. CASE ProcessList
  BY <1>5, ListCellPlaced DEF ProcessList
<1>6. CASE ComputeOperator
  <2>1. Evaluating /\ HandleList(Resumed, EvalEnv, TRUE) /\ runs' = RunsNow
    <3>1. Evaluating
      BY <1>6 DEF ComputeOperator, Evaluating, At, Resume
    <3>2. QED BY <1>6, <3>1 DEF ComputeOperator, At, RunsNow
  <2>2. QED BY <2>1, ListCellPlaced
<1>7. CASE CallOperator
  BY <1>7, OpPlaced
<1>8. CASE PrimThrow \/ LambdaThrow \/ ThrowThrow \/ DeferThrow
  BY <1>1, <1>8 DEF PrimThrow, LambdaThrow, ThrowThrow, DeferThrow, Raise
<1>9. CASE PrimReturn \/ TryReturn \/ DeferReturn \/ WalkEnd \/ LambdaReturn \/ YieldReturn
  BY <1>9, ReturnPlaced DEF PrimReturn, TryReturn, DeferReturn, WalkEnd, LambdaReturn,
                            YieldReturn, Return, At, IsPop
<1>10. CASE IfTest \/ IfReturn \/ LoopTest \/ LoopBodyDone
  <2>1. Depth > 0 /\ Top.op \in {"loop", "if"}
    BY <1>10 DEF IfTest, IfReturn, LoopTest, LoopBodyDone, At, Running
  <2>2. QED BY <1>3, <2>1
<1>11. CASE WalkNext
  BY <1>11, MovePlaced DEF WalkNext
<1>12. CASE LambdaEnter
  BY <1>12, LambdaPlaced
<1>13. CASE LambdaPop
  <2>1. /\ Running /\ Depth > 0 /\ Top.op \in {"lambda", "variadic"} /\ Top.pc = "pop"
        /\ PopCtx(Goto("reset"), Depth)
    BY <1>13, RunningActive DEF LambdaPop, At
  <2>2. Owner(Top)
    BY <2>1 DEF Owner, HoldsCtx, IsLambda, IsPop
  <2>3. HoldsCtx([Top EXCEPT !.pc = "reset"]) = 0
    BY <1>1, <2>1, NewPc DEF HoldsCtx, IsLambda
  <2>4. QED BY <1>2, <2>1, <2>2, <2>3, PopOwnPlaced
<1>14. CASE TryPop
  <2>1. /\ Running /\ Depth > 0 /\ Top.op = "try" /\ Top.pc \in {"attempted", "recovered"}
        /\ PopCtx(Goto("ret"), Depth)
    BY <1>14, RunningActive DEF TryPop, At
  <2>2. Owner(Top)
    BY <2>1 DEF Owner, HoldsCtx, IsLambda, IsPop
  <2>3. HoldsCtx([Top EXCEPT !.pc = "ret"]) = 0
    BY <1>1, <2>1, NewPc DEF HoldsCtx, IsLambda
  <2>4. QED BY <1>2, <2>1, <2>2, <2>3, PopOwnPlaced
<1>15. CASE DeferNext
  BY <1>15, DeferPlaced
<1>16. CASE ExitNow
  BY <1>16 DEF ExitNow
<1>17. CASE PopCtxEnd
  BY <1>17, PopEndPlaced
<1>18. CASE Catch \/ DeferredFailed \/ Unwind \/ InstructionFailed
  BY <1>1, <1>18 DEF Catch, DeferredFailed, Unwind, InstructionFailed, Exceptions
<1>19. CASE Instruction \/ Finish
  <2>1. status = "idle" /\ Depth = 0 /\ Active
    BY <1>1, <1>19 DEF Instruction, Finish, Active
  <2>2. frames = << >> /\ Len(<< >>) = 0
    BY <1>1, <2>1, EmptySeq DEF IInv, TypeOK, Depth
  <2>3. CASE Instruction
    <3>1. HandleList(<< >>, 0, FALSE) /\ runs' = runs
      BY <2>3 DEF Instruction
    <3>2. Keeps(<< >>) /\ Ready(<< >>, 0)
      BY <1>1, <2>2, KeepsNone DEF IInv, Ready
    <3>3. QED BY <1>1, <2>1, <2>2, <3>1, <3>2, ListPlaced
  <2>4. CASE Finish
    BY <2>1, <2>2, <2>4, FinishPlaced DEF Finish
  <2>5. QED BY <1>19, <2>3, <2>4
<1>20. CASE Ended
  BY <1>20 DEF Ended
<1>21. QED
  BY <1>4, <1>5, <1>6, <1>7, <1>8, <1>9, <1>10, <1>11, <1>12, <1>13, <1>14, <1>15,
     <1>16, <1>17, <1>18, <1>19, <1>20 DEF Next, Machine

LEMMA PlacedStays ==
  ASSUME IInv, Balanced, PlacedInv, Calm, [Next]_vars
  PROVE  PlacedInv'
<1>1. ASSUME {"loop", "if"} \intersect Ops = {}, Alive', ~UNCHANGED vars, Next
      PROVE  Placed(frames', ctxs', runs')
  <2>1. ~threw /\ ~threw' /\ status' \notin {"done", "exit"}
    BY <1>1, ThrewStays DEF Alive
  <2>2. status \notin {"done", "exit"}
    BY <1>1, EndedStays
  <2>3. Keeping => yield = NoYield
    BY <2>1 DEF Keeping, Calm, Quiet
  <2>4. Placing
    BY <1>1, <2>1, <2>2, <2>3 DEF Placing, PlacedInv, Alive
  <2>5. QED BY <1>1, <2>1, <2>2, <2>4, NextPlaced
<1>2. ASSUME {"loop", "if"} \intersect Ops = {}, Alive', UNCHANGED vars
      PROVE  Placed(frames', ctxs', runs')
  <2>1. Placed(frames, ctxs, runs)
    BY <1>2 DEF PlacedInv, Alive, vars
  <2>2. frames' = frames /\ ctxs' = ctxs /\ runs' = runs
    BY <1>2 DEF vars
  <2>3. QED BY <2>1, <2>2
<1>3. ASSUME {"loop", "if"} \intersect Ops = {}, Alive' PROVE Placed(frames, ctxs, runs)'
  BY <1>1, <1>2, <1>3, PlacedPrime
<1>4. QED BY <1>3 DEF PlacedInv

LEMMA InitPlaced == ASSUME Init PROVE PlacedInv
<1>1. frames = << >> /\ ctxs = << << >> >>
  BY DEF Init
<1>2. Len(frames) = 0 /\ Len(ctxs[1]) = 0
  BY <1>1, EmptySeq
<1>3. QED BY <1>2 DEF PlacedInv, Placed, Chained, InPlace, PopsFit, OwesKept

-----------------------------------------------------------------------------
(***************************************************************************)
(* What follows for a step.                                                *)
(***************************************************************************)
\* Of a frame that is left: what it owes is done.
PaidOff == Leaves => \A d \in Top.owes : runs[d] >= 1

\* Of an instruction that is executed: it is in scope.
InScope ==
  runs' # runs =>
    LET env == Head(Top.list).env IN
    \/ env = Top.env
    \/ Depth > 1 /\ Below[Depth - 1].op = "try" /\ Below[Depth - 1].env = env

LEMMA ListGrows ==
  ASSUME NEW stack \in Seq(FrameType), NEW env, NEW walks, HandleList(stack, env, walks),
         status' # "exit", ~threw'
  PROVE  Len(frames') >= Len(stack)
<1>1. \A f : Len(Append(stack, f)) = Len(stack) + 1 /\ Len(stack) \in Nat
  OBVIOUS
<1>2. CallFunction(stack, env) => Len(frames') >= Len(stack)
  BY <1>1 DEF CallFunction, Enter, Raise
<1>3. \A op, pc : Nest(stack, op, pc, env) => Len(frames') >= Len(stack)
  BY <1>1 DEF Nest
<1>4. \A next : HaltWithError(stack, next) => Len(frames') >= Len(stack)
  BY <1>1 DEF HaltWithError
<1>5. ~Raise(stack, "exception")
  BY DEF Raise
<1>6. QED BY <1>2, <1>3, <1>4, <1>5 DEF HandleList

\* A frame that has a context of its own is not left.
LEMMA OwnersStay ==
  ASSUME Placing, Next, Running, Owner(Top), status' # "exit"
  PROVE  Len(frames') >= Depth
<1>1. /\ IInv /\ Depth > 0 /\ Depth \in Nat /\ Depth = Len(frames) /\ ~threw' /\ ~threw
      /\ Top \in FrameType /\ status = "run"
  BY RunningActive, RunningFacts DEF Placing, Running
<1>2. Top.op \notin {"loop", "if", "deferred"}
  <2>1. Top.op \in Ops \union {"deferred"}
    BY <1>1, BalancedRunning DEF Placing, Exact, Permitted
  <2>2. QED BY <2>1 DEF Placing, Owner, IsPop
<1>3. \/ Top.op \in {"lambda", "variadic"} /\ Top.pc \in {"body", "pop"}
      \/ Top.op = "try" /\ Top.pc # "ret"
  BY <1>2 DEF Owner, HoldsCtx, IsLambda
<1>4. Evaluating => Resumed \in Seq(FrameType) /\ Len(Resumed) = Depth
  BY <1>1, KeepsResumed DEF IInv, Keeps
<1>5. \A pc \in PCs : Goto(pc) \in Seq(FrameType) /\ Len(Goto(pc)) = Depth
  BY <1>1, GotoTop
<1>6. {"reset", "ret"} \subseteq PCs
  BY DEF PCs
<1> HIDE DEF Depth
<1>7. CASE ProcessYielding \/ ProcessAtom
  BY <1>1, <1>4, <1>7 DEF ProcessYielding, ProcessAtom
<1>8. CASE ProcessList
  BY <1>4, <1>8, ListGrows DEF ProcessList, Placing
<1>9. CASE LambdaPop \/ TryPop
  <2>1. PICK pc \in {"reset", "ret"} : PopCtx(Goto(pc), Depth)
    BY <1>9 DEF LambdaPop, TryPop
  <2>2. \A f : Len(Append(Goto(pc), f)) = Depth + 1
    BY <1>5, <1>6
  <2>3. Len(Goto(pc)) = Depth
    BY <1>5, <1>6
  <2>4. QED BY <1>1, <2>1, <2>2, <2>3 DEF PopCtx
<1>10. CASE DeferNext \/ ExitNow \/ Catch \/ Unwind \/ DeferredFailed \/ InstructionFailed
  BY <1>1, <1>3, <1>10 DEF DeferNext, ExitNow, Catch, Unwind, DeferredFailed,
     InstructionFailed, At, Exceptions
<1>11. CASE LambdaEnter \/ LambdaThrow \/ LambdaReturn \/ TryReturn
  BY <1>1, <1>3, <1>11 DEF LambdaEnter, LambdaThrow, LambdaReturn, TryReturn, At, Raise
<1>12. CASE \/ ComputeOperator \/ CallOperator \/ PrimReturn \/ PrimThrow
            \/ LoopTest \/ LoopBodyDone \/ IfTest \/ IfReturn \/ ThrowThrow
            \/ DeferThrow \/ DeferReturn \/ YieldReturn \/ WalkNext \/ WalkEnd \/ PopCtxEnd
  BY <1>3, <1>12 DEF ComputeOperator, CallOperator, PrimReturn, PrimThrow, LoopTest,
     LoopBodyDone, IfTest, IfReturn, ThrowThrow, DeferThrow, DeferReturn, YieldReturn,
     WalkNext, WalkEnd, PopCtxEnd, At
<1>13. CASE Instruction \/ Finish \/ Ended
  BY <1>1, <1>13 DEF Instruction, Finish, Ended
<1>14. QED
  BY <1>7, <1>8, <1>9, <1>10, <1>11, <1>12, <1>13 DEF Next, Machine

LEMMA PaidOffStep ==
  ASSUME Placing, Keeping, Next
  PROVE  PaidOff
<1>1. SUFFICES ASSUME Leaves, NEW x \in Top.owes PROVE runs[x] >= 1
  BY DEF PaidOff
<1>2. /\ Depth = Len(frames) /\ Depth \in Nat /\ Depth > 0 /\ Top = frames[Depth]
      /\ Running /\ OwesKept(frames, ctxs, runs) /\ Len(frames') < Depth /\ status' # "exit"
  BY <1>1, RunningActive, RunningFacts DEF Leaves, Placing, Placed
<1>3. ~Owner(Top)
  <2>1. ASSUME Owner(Top) PROVE FALSE
    <3>1. Len(frames') >= Depth
      BY <1>2, <2>1, OwnersStay
    <3>2. Len(frames') \in Nat
      <4>1. IInv'
        BY NextInv DEF Placing
      <4>2. QED BY <4>1 DEF IInv, TypeOK
    <3>3. QED BY <1>2, <3>1, <3>2
  <2>2. QED BY <2>1
<1> HIDE DEF Depth
<1>4. QED BY <1>1, <1>2, <1>3 DEF OwesKept

LEMMA RunsBySteps ==
  ASSUME Next
  PROVE  runs' = runs \/ (Evaluating /\ runs' = RunsNow)
BY DEF Next, Machine, Ended, vars, ProcessYielding, ProcessAtom, ProcessList, ComputeOperator,
  CallOperator, PrimReturn, PrimThrow, LambdaThrow, LambdaEnter, LambdaPop, LambdaReturn,
  LoopTest, LoopBodyDone, IfTest, IfReturn, TryPop, TryReturn, ThrowThrow, DeferNext,
  DeferThrow, DeferReturn, YieldReturn, ExitNow, WalkNext, WalkEnd, PopCtxEnd, Catch,
  DeferredFailed, Unwind, InstructionFailed, Instruction, Finish, Return, Step, PopCtx

LEMMA InScopeStep ==
  ASSUME Placing, Next
  PROVE  InScope
<1>1. CASE runs' = runs
  BY <1>1 DEF InScope
<1>2. ASSUME runs' # runs, Evaluating, runs' = RunsNow PROVE InScope
  <2>1. IsPop(Top) /\ IInv /\ Depth > 0 /\ PopsFit(frames)
    BY <1>2, RunningActive DEF RunsNow, IsPop, Placing, Placed, Evaluating
  <2>2. /\ Depth = Len(frames) /\ Depth \in Nat /\ Top = frames[Depth]
        /\ \A i \in 1..Depth - 1 : Below[i] = frames[i]
    BY <2>1, BelowFrames
  <2>3. Head(Top.list) = Top.list[1] /\ 1 \in 1..Len(Top.list)
    <3>1. /\ Top.list \in Seq(Deferred) /\ Top.list # << >> /\ Head(Top.list) = Top.list[1]
      BY <1>2, <2>1, TopAdvances DEF Placing
    <3>2. QED BY <3>1
  <2> HIDE DEF Depth
  <2>4. \/ Top.list[1].env = Top.env
        \/ Depth > 1 /\ frames[Depth - 1].op = "try" /\ Top.list[1].env = frames[Depth - 1].env
    BY <2>1, <2>2, <2>3 DEF PopsFit
  <2>5. Depth > 1 => Below[Depth - 1] = frames[Depth - 1]
    BY <2>2
  <2>6. QED BY <2>3, <2>4, <2>5 DEF InScope
<1>3. QED BY <1>1, <1>2, RunsBySteps

LEMMA PlacedHolds ==
  Spec => [](IInv /\ Balanced /\ PlacedInv /\ Calm)
<1>1. Init => IInv /\ Balanced /\ PlacedInv /\ Calm
  BY InitInv, InitBalanced, InitPlaced DEF Init, Calm, Quiet
<1>2. IInv /\ Balanced /\ PlacedInv /\ Calm /\ [Next]_vars
        => IInv' /\ Balanced' /\ PlacedInv' /\ Calm'
  BY NextInv, NextBalanced, PlacedStays, NextQuiet DEF Calm
<1>3. QED BY <1>1, <1>2, PTL DEF Spec

\* The facts of a step at which nothing is thrown.
LEMMA StepPlacing ==
  ASSUME IInv, Balanced, PlacedInv, Calm, {"loop", "if"} \intersect Ops = {},
         Next, ~UNCHANGED vars, ~threw'
  PROVE  Placing
<1>1. ~threw /\ status \notin {"done", "exit"}
  BY ThrewStays, EndedStays
<1>2. Keeping => yield = NoYield
  BY <1>1 DEF Keeping, Calm, Quiet
<1>3. QED BY <1>1, <1>2 DEF Placing, PlacedInv, Alive

\* Up to the first exception, a program without loops, ifs and yields, in
\* which a deferred instruction does not defer in the context that is ending,
\* leaves no function, and no try, before it has executed every instruction
\* deferred directly in it.
THEOREM OwedUntilThrown ==
  ASSUME {"loop", "if", "yield"} \intersect Ops = {}, "nested_defer" \notin Habits
  PROVE  Spec => [][~threw' => PaidOff]_vars
<1>1. ASSUME IInv, Balanced, PlacedInv, Calm, [Next]_vars PROVE [~threw' => PaidOff]_vars
  <2>1. ASSUME Next, ~UNCHANGED vars, ~threw' PROVE PaidOff
    <3>1. Placing
      BY <1>1, <2>1, StepPlacing
    <3>2. QED BY <2>1, <3>1, PaidOffStep DEF Keeping
  <2>2. QED BY <1>1, <2>1
<1>2. QED BY <1>1, PlacedHolds, PTL DEF Spec

\* Up to the first exception, a program without loops and ifs executes what it
\* defers where it deferred it, or in the try in it, whatever it yields and
\* however it defers.
THEOREM InScopeUntilThrown ==
  ASSUME {"loop", "if"} \intersect Ops = {}
  PROVE  Spec => [][~threw' => InScope]_vars
<1>1. ASSUME IInv, Balanced, PlacedInv, Calm, [Next]_vars PROVE [~threw' => InScope]_vars
  <2>1. ASSUME Next, ~UNCHANGED vars, ~threw' PROVE InScope
    <3>1. Placing
      BY <1>1, <2>1, StepPlacing
    <3>2. QED BY <2>1, <3>1, InScopeStep
  <2>2. QED BY <1>1, <2>1
<1>2. QED BY <1>1, PlacedHolds, PTL DEF Spec

\* For programs whose builtins do not throw: an execution context that ends
\* normally has executed every instruction deferred directly in it.
THEOREM OwedByContextEnd ==
  ASSUME {"loop", "if", "yield", "throw"} \intersect Ops = {}, Throws = {},
         "nested_defer" \notin Habits, MaxFrames <= MaxCallDepth
  PROVE  Spec => DeferredByContextEnd
<1>1. ~threw' /\ [~threw' => PaidOff]_vars
        => [Leaves => \A d \in Top.owes : runs[d] >= 1]_vars
  BY DEF PaidOff
<1>2. Spec => [][~threw' => PaidOff]_vars
  BY OwedUntilThrown
<1>3. Spec => []~threw
  BY NothingIsThrown
<1>4. QED BY <1>1, <1>2, <1>3, PTL DEF DeferredByContextEnd

\* For programs whose builtins do not throw: a deferred instruction is executed
\* in the environment it was deferred in, or in the try's own inside it.
THEOREM DeferredWhereItWas ==
  ASSUME {"loop", "if", "throw"} \intersect Ops = {}, Throws = {}, MaxFrames <= MaxCallDepth
  PROVE  Spec => DeferredInScope
<1>1. ~threw' /\ [~threw' => InScope]_vars
        => [runs' # runs => LET env == Head(Top.list).env IN
              \/ env = Top.env
              \/ Depth > 1 /\ Below[Depth - 1].op = "try"
                           /\ Below[Depth - 1].env = env]_vars
  BY DEF InScope
<1>2. Spec => [][~threw' => InScope]_vars
  BY InScopeUntilThrown
<1>3. Spec => []~threw
  BY NothingIsThrown
<1>4. QED BY <1>1, <1>2, <1>3, PTL DEF DeferredInScope
=============================================================================
