--------------------------- MODULE LoadingProofs ---------------------------
(***************************************************************************)
(* Theorems about Loading for all values of its constants: every program,  *)
(* whatever its files import and use, however deep, failing wherever it    *)
(* may.                                                                    *)
(***************************************************************************)
EXTENDS Loading, SequenceTheorems, TLAPS

LoadRecords == [kind : {"load"}, of : Modules, env : Env, own : Env, todo : Seq(Files),
                pc : {"locate", "library", "sources", "post"}]

Records == Readers \union LoadRecords

(***************************************************************************)
(* A stack of interpreters and loads: a load lies on the interpreter that  *)
(* executes the `use', and every interpreter but the innermost one is in   *)
(* the middle of an instruction.                                           *)
(***************************************************************************)
Well(s) ==
  /\ s \in Seq(Records)
  /\ \A i \in 1..Len(s) :
       s[i].kind = "load" => i > 1 /\ s[i - 1] \in Readers /\ s[i - 1].env = s[i].env
  /\ \A i \in 1..Len(s) : i < Len(s) /\ s[i].kind # "load" => s[i].left > 0

Typed ==
  /\ Well(stack)
  /\ status \in {"run", "done", "exit"} /\ (status = "run" => stack # << >>)
  /\ marks \in [Env -> SUBSET Modules] /\ bound \in [Env -> SUBSET Modules]
  /\ envs \in Env
  /\ gone \in [Env -> SUBSET Modules] /\ missed \subseteq {"dropped", "failed"}
  /\ loads \in [Env \X Modules -> 0..2] /\ reads \in [Env \X Files -> 0..2]

(***************************************************************************)
(* What a mark means.  Without it a module has neither been loaded nor     *)
(* bound and is not being loaded; with it at most one load is in progress, *)
(* which has not been counted before the module was located.               *)
(***************************************************************************)
IsLoad(r, m, e) == r.kind = "load" /\ r.of = m /\ r.env = e

Unmarked(m, e) ==
  loads[<<e, m>>] = 0 /\ m \notin bound[e] /\ \A i \in 1..Len(stack) : ~IsLoad(stack[i], m, e)

Single ==
  \A i, j \in 1..Len(stack) :
    stack[i].kind = "load" /\ stack[j].kind = "load"
      /\ stack[i].of = stack[j].of /\ stack[i].env = stack[j].env => i = j

Uncounted ==
  \A i \in 1..Len(stack) :
    stack[i].kind = "load" /\ stack[i].pc = "locate" => loads[<<stack[i].env, stack[i].of>>] = 0

Hidden ==
  \A i \in 1..Len(stack) :
    stack[i].kind = "load" /\ stack[i].pc # "post" => stack[i].of \notin bound[stack[i].env]

Marked ==
  /\ \A e \in Env, m \in Modules : m \notin marks[e] => Unmarked(m, e)
  /\ Single /\ Uncounted /\ Hidden
  /\ \A p \in Env \X Modules : loads[p] <= 1

LInv == Typed /\ Marked

-----------------------------------------------------------------------------
(***************************************************************************)
(* The shapes of stacks.                                                   *)
(***************************************************************************)
LEMMA Constants ==
  /\ MaxLen \in Nat /\ MaxEnvs \in Nat /\ 0 \in Env /\ "main" \in Files
  /\ Env \subseteq Nat /\ Files \subseteq Texts /\ Modules \subseteq Texts
  /\ \A m \in Modules : Sources[m] \in Seq(Files) /\ Posts[m] \in Seq(Files)
  /\ \A t \in Texts : Imports[t] \subseteq Files /\ Uses[t] \subseteq Modules
BY FilesAssumption, GraphAssumption, LoadingBounds DEF Env, Texts

LEMMA RecordKinds ==
  /\ \A r \in Records : r.kind # "load" => r \in Readers
  /\ \A r \in Records : r.kind = "load" => r \in LoadRecords
  /\ \A r \in Readers : r.kind # "load" /\ r.env \in Env /\ r.left \in 0..MaxLen /\ r.of \in Texts
BY DEF Records, Readers, LoadRecords

LEMMA ReaderType ==
  ASSUME NEW k \in {"main", "import", "module", "source", "post"}, NEW f \in Texts, NEW e \in Env
  PROVE  Reader(k, f, e) \in Readers
BY Constants DEF Reader, Readers

LEMMA LoadType ==
  ASSUME NEW m \in Modules, NEW e \in Env
  PROVE  Load(m, e) \in LoadRecords
BY Constants DEF Load, LoadRecords

LEMMA PastType ==
  ASSUME NEW r \in Readers, r.left > 0
  PROVE  Past(r) \in Readers /\ Past(r).kind = r.kind /\ Past(r).env = r.env
<1>1. r.left - 1 \in 0..MaxLen BY Constants DEF Readers
<1> DEFINE n == r.left - 1
<1>2. Past(r) = [r EXCEPT !.left = n, !.trying = FALSE]
  BY DEF Past
<1> HIDE DEF n
<1>3. QED BY <1>1, <1>2 DEF Readers, n

\* The innermost record.
LEMMA TopFacts ==
  ASSUME Typed, status = "run"
  PROVE  /\ Depth \in Nat /\ Depth >= 1 /\ Len(stack) = Depth
         /\ Top \in Records /\ Top = stack[Depth]
         /\ stack \in Seq(Records)
         /\ \A i \in 1..Depth : stack[i] \in Records
<1>1. stack \in Seq(Records) /\ stack # << >>
  BY DEF Typed, Well
<1>2. Len(stack) \in Nat /\ Len(stack) >= 1
  BY <1>1, EmptySeq
<1>3. QED BY <1>1, <1>2 DEF Depth, Top

\* A prefix of a stack is one.
LEMMA Prefix ==
  ASSUME NEW s, Well(s), NEW n \in 0..Len(s)
  PROVE  /\ Well(SubSeq(s, 1, n)) /\ Len(SubSeq(s, 1, n)) = n
         /\ \A i \in 1..n : SubSeq(s, 1, n)[i] = s[i]
<1>1. s \in Seq(Records) /\ Len(s) \in Nat BY DEF Well
<1>2. \A i \in 1..n : s[i] \in Records BY <1>1
<1>3. /\ SubSeq(s, 1, n) \in Seq(Records) /\ Len(SubSeq(s, 1, n)) = n
      /\ \A i \in 1..n : SubSeq(s, 1, n)[i] = s[i]
  BY <1>1, <1>2, SubSeqProperties
<1>4. QED BY <1>1, <1>3 DEF Well

\* So is a stack with a record of the same kind and environment on top.
LEMMA Replace ==
  ASSUME NEW s, Well(s), Len(s) >= 1, NEW t \in Seq(Records), Len(t) = Len(s),
         \A i \in 1..Len(s) : i # Len(s) => t[i] = s[i],
         t[Len(s)].kind = s[Len(s)].kind, t[Len(s)].env = s[Len(s)].env
  PROVE  Well(t)
<1>1. s \in Seq(Records) /\ Len(s) \in Nat /\ Len(s) \in 1..Len(s) BY DEF Well
<1>2. \A i \in 1..Len(s) : t[i].kind = s[i].kind /\ t[i].env = s[i].env
  BY <1>1
<1>3. \A i \in 1..Len(t) :
        t[i].kind = "load" => i > 1 /\ t[i - 1] \in Readers /\ t[i - 1].env = t[i].env
  <2>1. SUFFICES ASSUME NEW i \in 1..Len(s), t[i].kind = "load"
                 PROVE  i > 1 /\ t[i - 1] \in Readers /\ t[i - 1].env = t[i].env
    OBVIOUS
  <2>2. s[i].kind = "load" /\ s[i].env = t[i].env BY <1>2, <2>1
  <2>3. i > 1 /\ s[i - 1] \in Readers /\ s[i - 1].env = s[i].env BY <2>2 DEF Well
  <2>4. i - 1 \in 1..Len(s) /\ i - 1 # Len(s) BY <1>1, <2>3
  <2>5. QED BY <2>2, <2>3, <2>4
<1>4. \A i \in 1..Len(t) : i < Len(t) /\ t[i].kind # "load" => t[i].left > 0
  <2>1. SUFFICES ASSUME NEW i \in 1..Len(s), i < Len(s), t[i].kind # "load"
                 PROVE  t[i].left > 0
    OBVIOUS
  <2>2. t[i] = s[i] BY <2>1, <1>1
  <2>3. QED BY <2>1, <2>2 DEF Well
<1>5. QED BY <1>3, <1>4 DEF Well

\* And one with a reader on top, or a load on top of its reader, if what was
\* innermost is in the middle of an instruction.
LEMMA Push ==
  ASSUME NEW s, Well(s), NEW r \in Records,
         r.kind = "load" => /\ Len(s) >= 1 /\ s[Len(s)] \in Readers
                            /\ s[Len(s)].env = r.env,
         Len(s) >= 1 /\ s[Len(s)].kind # "load" => s[Len(s)].left > 0
  PROVE  /\ Well(Append(s, r)) /\ Append(s, r) # << >> /\ Len(Append(s, r)) = Len(s) + 1
         /\ \A i \in 1..Len(s) : Append(s, r)[i] = s[i]
         /\ Append(s, r)[Len(s) + 1] = r
<1>1. s \in Seq(Records) /\ Len(s) \in Nat BY DEF Well
<1>2. /\ Append(s, r) \in Seq(Records) /\ Len(Append(s, r)) = Len(s) + 1
      /\ \A i \in 1..Len(s) : Append(s, r)[i] = s[i]
      /\ Append(s, r)[Len(s) + 1] = r
  BY <1>1, AppendProperties
<1>3. Append(s, r) # << >>
  <2>1. Len(Append(s, r)) # 0 BY <1>1, <1>2
  <2>2. Len(<< >>) = 0 BY EmptySeq
  <2>3. QED BY <2>1, <2>2
<1> DEFINE t == Append(s, r)
<1>4. t \in Seq(Records) /\ Len(t) = Len(s) + 1 /\ t[Len(s) + 1] = r
      /\ \A i \in 1..Len(s) : t[i] = s[i]
  BY <1>2
<1> HIDE DEF t
<1>5. \A i \in 1..Len(t) :
        t[i].kind = "load" => i > 1 /\ t[i - 1] \in Readers /\ t[i - 1].env = t[i].env
  <2>1. SUFFICES ASSUME NEW i \in 1..Len(t), t[i].kind = "load"
                 PROVE  i > 1 /\ t[i - 1] \in Readers /\ t[i - 1].env = t[i].env
    OBVIOUS
  <2>2. CASE i = Len(s) + 1
    <3>1. Len(s) >= 1 /\ s[Len(s)] \in Readers /\ s[Len(s)].env = t[i].env
      BY <1>4, <2>1, <2>2
    <3>2. i - 1 = Len(s) /\ i > 1 /\ t[Len(s)] = s[Len(s)] BY <1>1, <1>4, <2>2, <3>1
    <3>3. QED BY <3>1, <3>2
  <2>3. CASE i # Len(s) + 1
    <3>1. i \in 1..Len(s) /\ s[i] = t[i] BY <1>1, <1>4, <2>3
    <3>2. i > 1 /\ s[i - 1] \in Readers /\ s[i - 1].env = s[i].env BY <2>1, <3>1 DEF Well
    <3>3. t[i - 1] = s[i - 1] BY <1>1, <1>4, <3>1, <3>2
    <3>4. QED BY <3>1, <3>2, <3>3
  <2>4. QED BY <2>2, <2>3
<1>6. \A i \in 1..Len(t) : i < Len(t) /\ t[i].kind # "load" => t[i].left > 0
  BY <1>1, <1>4 DEF Well
<1>7. Well(t) BY <1>4, <1>5, <1>6 DEF Well
<1>8. QED BY <1>2, <1>3, <1>7 DEF t

-----------------------------------------------------------------------------
(***************************************************************************)
(* Steps that start no load.                                               *)
(***************************************************************************)

\* The loads on t are loads in progress, where they are in progress.
SameLoads(t) ==
  \A i \in 1..Len(t) :
    t[i].kind = "load" => /\ i \in 1..Len(stack) /\ stack[i].kind = "load"
                          /\ stack[i].of = t[i].of /\ stack[i].env = t[i].env
                          /\ stack[i].pc = t[i].pc

\* A part of the stack with an interpreter on top that is executing an
\* instruction.
Continues(s) ==
  /\ Well(s) /\ Len(s) >= 1 /\ SameLoads(s)
  /\ s[Len(s)] \in Readers /\ s[Len(s)].left > 0

\* Nothing is loaded, bound or marked by a step that starts no load and goes on
\* with none.
LEMMA MarkedKept ==
  ASSUME LInv, Len(stack') \in Nat, SameLoads(stack'), marks' = marks, loads' = loads,
         \A e \in Env : bound'[e] \subseteq bound[e]
  PROVE  Marked'
<1>1. Marked /\ Typed BY DEF LInv
<1>2. \A i \in 1..Len(stack') :
        stack'[i].kind = "load" => /\ i \in 1..Len(stack) /\ stack[i].kind = "load"
                                   /\ stack[i].of = stack'[i].of /\ stack[i].env = stack'[i].env
                                   /\ stack[i].pc = stack'[i].pc
  BY DEF SameLoads
<1>3. \A e \in Env, m \in Modules : m \notin marks'[e] => Unmarked(m, e)'
  BY <1>1, <1>2 DEF Marked, Unmarked, IsLoad
<1>4. Single'
  BY <1>1, <1>2 DEF Marked, Single
<1>5. Uncounted'
  BY <1>1, <1>2 DEF Marked, Uncounted
<1>6. Hidden'
  <2>1. SUFFICES ASSUME NEW i \in 1..Len(stack'), stack'[i].kind = "load", stack'[i].pc # "post"
                 PROVE  stack'[i].of \notin bound'[stack'[i].env]
    BY DEF Hidden
  <2>2. /\ i \in 1..Len(stack) /\ stack[i].kind = "load" /\ stack[i].pc # "post"
        /\ stack[i].of = stack'[i].of /\ stack[i].env = stack'[i].env
    BY <1>2, <2>1
  <2>3. stack[i].env \in Env
    BY <1>1, <2>2, RecordKinds DEF Typed, Well, LoadRecords
  <2>4. QED BY <1>1, <2>2, <2>3 DEF Marked, Hidden
<1>7. QED BY <1>1, <1>3, <1>4, <1>5, <1>6 DEF Marked

LEMMA AdvanceContinues ==
  ASSUME NEW s, Continues(s)
  PROVE  Well(Advance(s)) /\ Len(Advance(s)) = Len(s) /\ Advance(s) # << >> /\ SameLoads(Advance(s))
<1> DEFINE r == Past(s[Len(s)])
<1>1. Well(s) /\ Len(s) \in Nat /\ Len(s) >= 1 /\ s[Len(s)] \in Readers /\ s[Len(s)].left > 0
  BY DEF Continues, Well
<1>2. r \in Readers /\ r.kind = s[Len(s)].kind /\ r.env = s[Len(s)].env /\ r.kind # "load"
  BY <1>1, PastType, RecordKinds
<1>3. Advance(s) = [s EXCEPT ![Len(s)] = r]
  BY DEF Advance
<1>4. r \in Records BY <1>2 DEF Records
<1> HIDE DEF r
<1>5. /\ Well(Advance(s)) /\ Len(Advance(s)) = Len(s)
      /\ \A i \in 1..Len(s) : Advance(s)[i] = IF i = Len(s) THEN r ELSE s[i]
  <2>1. s \in Seq(Records) /\ Len(s) \in 1..Len(s) BY <1>1 DEF Well
  <2>2. /\ Advance(s) \in Seq(Records) /\ Len(Advance(s)) = Len(s)
        /\ \A i \in 1..Len(s) : Advance(s)[i] = IF i = Len(s) THEN r ELSE s[i]
    BY <1>3, <1>4, <2>1, ExceptSeq
  <2>3. QED BY <1>1, <1>2, <2>1, <2>2, Replace
<1>6. Advance(s) # << >> BY <1>1, <1>5, EmptySeq
<1>7. SameLoads(Advance(s))
  BY <1>1, <1>2, <1>5 DEF SameLoads, Continues
<1>8. QED BY <1>5, <1>6, <1>7

LEMMA ContinuesStack ==
  ASSUME Typed, Reading, Top.left > 0
  PROVE  Continues(stack)
BY TopFacts, RecordKinds DEF Typed, Continues, SameLoads, Reading, Depth

\* A reader with its instruction inside a try or not.
LEMMA ContinuesHere ==
  ASSUME Typed, Reading, Top.left > 0, NEW try \in BOOLEAN
  PROVE  /\ Continues([stack EXCEPT ![Depth].trying = try])
         /\ Len([stack EXCEPT ![Depth].trying = try]) = Depth
         /\ [stack EXCEPT ![Depth].trying = try][Depth].env = Top.env
         /\ \A i \in 1..Depth : [stack EXCEPT ![Depth].trying = try][i].kind = stack[i].kind
<1> DEFINE r == [stack[Depth] EXCEPT !.trying = try]
           t == [stack EXCEPT ![Depth].trying = try]
<1>1. /\ Depth \in Nat /\ Depth >= 1 /\ Len(stack) = Depth /\ Top = stack[Depth]
      /\ stack[Depth] \in Readers /\ Top.left > 0
  BY TopFacts, RecordKinds DEF Reading
<1>2. /\ r \in Readers /\ r.kind = stack[Depth].kind /\ r.env = stack[Depth].env
      /\ r.kind # "load" /\ r.left > 0
  BY <1>1 DEF Readers
<1>3. r \in Records BY <1>2 DEF Records
<1>4. t = [stack EXCEPT ![Len(stack)] = r] BY <1>1
<1> HIDE DEF r, t
<1>5. /\ Well(t) /\ Len(t) = Depth
      /\ \A i \in 1..Depth : t[i] = IF i = Depth THEN r ELSE stack[i]
  <2>1. stack \in Seq(Records) /\ Depth \in 1..Len(stack) /\ Well(stack) BY <1>1 DEF Typed, Well
  <2>2. /\ t \in Seq(Records) /\ Len(t) = Len(stack)
        /\ \A i \in 1..Len(stack) : t[i] = IF i = Len(stack) THEN r ELSE stack[i]
    BY <1>1, <1>3, <1>4, <2>1, ExceptSeq
  <2>3. QED BY <1>1, <1>2, <2>1, <2>2, Replace
<1>6. SameLoads(t) BY <1>1, <1>2, <1>5 DEF SameLoads
<1>7. Continues(t) BY <1>1, <1>2, <1>5, <1>6 DEF Continues
<1>8. QED BY <1>1, <1>2, <1>5, <1>7 DEF t

\* The interpreter that executes the `use' of a load.
LEMMA ContinuesBelow ==
  ASSUME Typed, status = "run", Top.kind = "load"
  PROVE  Continues(Below) /\ Len(Below) = Depth - 1
<1>1. /\ Depth \in Nat /\ Depth >= 1 /\ Len(stack) = Depth /\ Top = stack[Depth] /\ Well(stack)
  BY TopFacts DEF Typed
<1>2. Depth > 1 /\ stack[Depth - 1] \in Readers
  BY <1>1 DEF Well
<1>3. stack[Depth - 1].left > 0
  BY <1>1, <1>2, RecordKinds DEF Well
<1>4. Depth - 1 \in 0..Len(stack) BY <1>1, <1>2
<1>5. /\ Well(Below) /\ Len(Below) = Depth - 1 /\ \A i \in 1..Depth - 1 : Below[i] = stack[i]
  BY <1>1, <1>4, Prefix DEF Below
<1>6. SameLoads(Below) BY <1>1, <1>5 DEF SameLoads
<1>7. QED BY <1>1, <1>2, <1>3, <1>5, <1>6 DEF Continues

\* The interpreter that reads a file for the innermost one.
LEMMA ContinuesReaderBelow ==
  ASSUME Typed, Reading, Depth > 1
  PROVE  Continues(ReaderBelow)
<1>1. /\ Depth \in Nat /\ Len(stack) = Depth /\ Well(stack)
      /\ \A i \in 1..Depth : stack[i] \in Records
  BY TopFacts DEF Typed, Reading
<1>2. CASE stack[Depth - 1].kind = "load"
  <2>1. Depth - 1 > 1 /\ stack[(Depth - 1) - 1] \in Readers
    BY <1>1, <1>2 DEF Well
  <2>2. (Depth - 1) - 1 = Depth - 2 /\ Depth - 2 \in 0..Len(stack) /\ Depth - 2 >= 1 BY <1>1, <2>1
  <2>3. stack[Depth - 2].left > 0 /\ stack[Depth - 2] \in Readers
    BY <1>1, <2>1, <2>2, RecordKinds DEF Well
  <2>4. /\ Well(ReaderBelow) /\ Len(ReaderBelow) = Depth - 2
        /\ \A i \in 1..Depth - 2 : ReaderBelow[i] = stack[i]
    BY <1>1, <1>2, <2>2, Prefix DEF ReaderBelow
  <2>5. SameLoads(ReaderBelow) BY <1>1, <2>4 DEF SameLoads
  <2>6. QED BY <1>1, <2>2, <2>3, <2>4, <2>5 DEF Continues
<1>3. CASE stack[Depth - 1].kind # "load"
  <2>1. Depth - 1 \in 0..Len(stack) /\ Depth - 1 \in 1..Depth /\ Depth - 1 >= 1 BY <1>1
  <2>2. stack[Depth - 1].left > 0 /\ stack[Depth - 1] \in Readers
    BY <1>1, <1>3, <2>1, RecordKinds DEF Well
  <2>3. /\ Well(ReaderBelow) /\ Len(ReaderBelow) = Depth - 1
        /\ \A i \in 1..Depth - 1 : ReaderBelow[i] = stack[i]
    BY <1>1, <1>3, <2>1, Prefix DEF ReaderBelow, Below
  <2>4. SameLoads(ReaderBelow) BY <1>1, <2>3 DEF SameLoads
  <2>5. QED BY <1>1, <2>1, <2>2, <2>3, <2>4 DEF Continues
<1>4. QED BY <1>2, <1>3

\* An instruction ends, or fails, on a part of the stack.
LEMMA AdvanceStep ==
  ASSUME LInv, NEW s, Continues(s), stack' = Advance(s), marks' = marks, loads' = loads,
         status' = status, envs' = envs,
         bound' \in [Env -> SUBSET Modules], \A e \in Env : bound'[e] \subseteq bound[e],
         gone' \in [Env -> SUBSET Modules], missed' \subseteq {"dropped", "failed"},
         reads' = reads
  PROVE  LInv'
<1>1. Well(stack') /\ stack' # << >> /\ SameLoads(stack')
  BY AdvanceContinues
<1>2. Len(stack') \in Nat BY <1>1 DEF Well
<1>3. Marked' BY <1>1, <1>2, MarkedKept
<1>4. Typed' BY <1>1 DEF LInv, Typed
<1>5. QED BY <1>3, <1>4 DEF LInv

LEMMA FailedStep ==
  ASSUME LInv, NEW s, Continues(s), Failed(s)
  PROVE  LInv'
<1>1. /\ marks' = marks /\ bound' = bound /\ envs' = envs /\ loads' = loads
      /\ reads' = reads /\ gone' = gone /\ missed' = missed
  BY DEF Failed
<1>2. Typed BY DEF LInv
<1>3. CASE stack' = Advance(s) /\ status' = status
  BY <1>1, <1>2, <1>3, AdvanceStep DEF Typed
<1>4. CASE stack' = << >> /\ status' = "exit"
  <2>1. Len(stack') = 0 /\ stack' \in Seq(Records) BY <1>4, EmptySeq
  <2>2. Well(stack') /\ SameLoads(stack') BY <2>1 DEF Well, SameLoads
  <2>3. Marked' BY <1>1, <2>1, <2>2, MarkedKept
  <2>4. Typed' BY <1>1, <1>2, <1>4, <2>2 DEF Typed
  <2>5. QED BY <2>3, <2>4 DEF LInv
<1>5. QED BY <1>3, <1>4 DEF Failed

LEMMA ExecuteStep == ASSUME LInv, Execute PROVE LInv'
<1>1. Continues(stack) BY ContinuesStack DEF Execute, LInv
<1>2. QED BY <1>1, AdvanceStep DEF Execute, LInv, Typed

LEMMA ThrowStep == ASSUME LInv, Throw PROVE LInv'
BY ContinuesStack, FailedStep DEF Throw, LInv

LEMMA DropStep == ASSUME LInv, Drop PROVE LInv'
<1>1. Continues(stack) BY ContinuesStack DEF Drop, LInv
<1>2. Typed /\ Reading BY DEF Drop, LInv
<1>3. Top.env \in Env /\ Top.of \in Texts BY <1>2, TopFacts, RecordKinds DEF Reading
<1>4. PICK m \in Uses[Top.of] \intersect bound[Top.env] :
        /\ bound' = [bound EXCEPT ![Top.env] = @ \ {m}]
        /\ gone' = [gone EXCEPT ![Top.env] = @ \union {m}]
  BY DEF Drop
<1>5. m \in Modules BY <1>2, <1>3, <1>4 DEF Typed
<1>6. bound' \in [Env -> SUBSET Modules] /\ \A e \in Env : bound'[e] \subseteq bound[e]
  BY <1>2, <1>3, <1>4 DEF Typed
<1>7. gone' \in [Env -> SUBSET Modules] BY <1>2, <1>3, <1>4, <1>5 DEF Typed
<1>8. QED BY <1>1, <1>2, <1>6, <1>7, AdvanceStep DEF Drop, Typed

\* A file begins to be read on top of s.
LEMMA ReadStep ==
  ASSUME LInv, status = "run", NEW s, Well(s), SameLoads(s),
         Len(s) >= 1 /\ s[Len(s)].kind # "load" => s[Len(s)].left > 0,
         NEW r \in Readers, stack' = Append(s, r),
         marks' = marks, loads' = loads, bound' = bound, status' = status, envs' = envs,
         gone' = gone, missed' = missed, reads' \in [Env \X Files -> 0..2]
  PROVE  LInv'
<1>1. Typed BY DEF LInv
<1>2. r \in Records /\ r.kind # "load" BY RecordKinds DEF Records
<1>3. /\ Well(stack') /\ stack' # << >> /\ Len(stack') = Len(s) + 1 /\ Len(s) \in Nat
      /\ \A i \in 1..Len(s) : stack'[i] = s[i]
      /\ stack'[Len(s) + 1] = r
  BY <1>2, Push DEF Well
<1>4. SameLoads(stack') BY <1>2, <1>3 DEF SameLoads
<1>5. Marked' BY <1>3, <1>4, MarkedKept
<1>6. Typed' BY <1>1, <1>3 DEF Typed
<1>7. QED BY <1>5, <1>6 DEF LInv

LEMMA OnceType == ASSUME NEW n \in 0..2 PROVE Once(n) \in 0..2
BY DEF Once

LEMMA ImportStep == ASSUME LInv, Import PROVE LInv'
<1>1. Typed /\ Reading /\ Top.left > 0 BY DEF Import, LInv
<1>2. Top.env \in Env /\ Top.of \in Texts BY <1>1, TopFacts, RecordKinds DEF Reading
<1>3. PICK f \in Imports[Top.of], try \in BOOLEAN :
        LET here == [stack EXCEPT ![Depth].trying = try] IN
        \/ Failed(here)
        \/ /\ f \in Registered
           /\ stack' = Advance(here)
           /\ UNCHANGED <<marks, bound, envs, status, loads, reads, gone, missed>>
        \/ /\ f \notin Registered /\ Room
           /\ stack' = Append(here, Reader("import", f, Top.env))
           /\ reads' = [reads EXCEPT ![<<Top.env, f>>] = Once(@)]
           /\ UNCHANGED <<marks, bound, envs, status, loads, gone, missed>>
  BY DEF Import
<1> DEFINE here == [stack EXCEPT ![Depth].trying = try]
<1>4. Continues(here) BY <1>1, ContinuesHere
<1> HIDE DEF here
<1>5. CASE Failed(here) BY <1>4, <1>5, FailedStep
<1>6. CASE stack' = Advance(here) /\ UNCHANGED <<marks, bound, envs, status, loads, reads, gone, missed>>
  BY <1>1, <1>4, <1>6, AdvanceStep DEF Typed
<1>7. CASE /\ stack' = Append(here, Reader("import", f, Top.env))
           /\ reads' = [reads EXCEPT ![<<Top.env, f>>] = Once(@)]
           /\ UNCHANGED <<marks, bound, envs, status, loads, gone, missed>>
  <2>1. f \in Files /\ f \in Texts BY <1>2, <1>3, Constants
  <2>2. Reader("import", f, Top.env) \in Readers BY <1>2, <2>1, ReaderType
  <2>3. reads' \in [Env \X Files -> 0..2] BY <1>1, <1>2, <1>7, <2>1, OnceType DEF Typed
  <2>4. QED BY <1>1, <1>4, <1>7, <2>2, <2>3, ReadStep DEF Continues, Reading
<1>8. QED BY <1>3, <1>5, <1>6, <1>7 DEF here

LEMMA ParseErrorStep == ASSUME LInv, ParseError PROVE LInv'
<1>1. Typed /\ Reading /\ Depth \in Nat BY TopFacts DEF ParseError, LInv, Reading
<1>2. CASE Depth > 1
  BY <1>1, <1>2, ContinuesReaderBelow, FailedStep DEF ParseError
<1>3. CASE ~(Depth > 1)
  BY <1>1, <1>3, ContinuesStack, FailedStep DEF ParseError
<1>4. QED BY <1>2, <1>3

LEMMA LoadedStep == ASSUME LInv, Loaded PROVE LInv'
<1>1. Typed /\ status = "run" /\ Top.kind = "load" BY DEF Loaded, Loads, LInv
<1>2. Continues(Below) BY <1>1, ContinuesBelow
<1>3. QED BY <1>1, <1>2, AdvanceStep DEF Loaded, Typed

LEMMA EndOfFileStep == ASSUME LInv, EndOfFile PROVE LInv'
<1>1. /\ Typed /\ Reading /\ status = "run" /\ Well(stack) /\ Depth \in Nat /\ Depth >= 1
      /\ Len(stack) = Depth
  BY TopFacts DEF EndOfFile, LInv, Reading, Typed
<1>2. UNCHANGED <<marks, bound, envs, loads, reads, gone, missed>> BY DEF EndOfFile
<1>3. CASE Depth = 1
  <2>1. stack' = << >> /\ status' = "done" BY <1>3 DEF EndOfFile
  <2>2. Len(stack') = 0 /\ stack' \in Seq(Records) BY <2>1, EmptySeq
  <2>3. Well(stack') /\ SameLoads(stack') BY <2>2 DEF Well, SameLoads
  <2>4. Marked' BY <1>2, <2>2, <2>3, MarkedKept
  <2>5. Typed' BY <1>1, <1>2, <2>1, <2>3 DEF Typed
  <2>6. QED BY <2>4, <2>5 DEF LInv
<1>4. CASE Depth # 1
  <2>1. Depth > 1 /\ Depth - 1 \in 0..Len(stack) /\ Depth - 1 \in 1..Depth - 1 BY <1>1, <1>4
  <2>2. /\ Well(Below) /\ Len(Below) = Depth - 1 /\ \A i \in 1..Depth - 1 : Below[i] = stack[i]
    BY <1>1, <2>1, Prefix DEF Below
  <2>3. CASE Below[Depth - 1].kind = "load"
    <3>1. stack' = Below /\ status' = status BY <1>4, <2>3 DEF EndOfFile
    <3>2. SameLoads(stack') BY <1>1, <2>2, <3>1 DEF SameLoads
    <3>3. Marked' BY <1>1, <1>2, <2>2, <3>1, <3>2, MarkedKept
    <3>4. stack' # << >> BY <2>1, <2>2, <3>1, EmptySeq
    <3>5. Typed' BY <1>1, <1>2, <2>2, <3>1, <3>4 DEF Typed
    <3>6. QED BY <3>3, <3>5 DEF LInv
  <2>4. CASE Below[Depth - 1].kind # "load"
    <3>1. stack' = Advance(Below) /\ status' = status BY <1>4, <2>4 DEF EndOfFile
    <3>2. ReaderBelow = Below BY <2>1, <2>2, <2>4 DEF ReaderBelow
    <3>3. Continues(Below) BY <1>1, <2>1, <3>2, ContinuesReaderBelow
    <3>4. QED BY <1>1, <1>2, <3>1, <3>3, AdvanceStep DEF Typed
  <2>5. QED BY <2>3, <2>4
<1>5. QED BY <1>3, <1>4

-----------------------------------------------------------------------------
(***************************************************************************)
(* The steps of load_module.                                               *)
(***************************************************************************)

\* A `use' begins a load: the module was not marked, so nothing of it is there.
LEMMA UseStep == ASSUME LInv, Use PROVE LInv'
<1>1. Typed /\ Marked /\ Reading /\ Top.left > 0 BY DEF Use, LInv
<1>2. Top.env \in Env /\ Top.of \in Texts BY <1>1, TopFacts, RecordKinds DEF Reading
<1>3. PICK m \in Uses[Top.of], try \in BOOLEAN :
        LET here == [stack EXCEPT ![Depth].trying = try] IN
        IF m \in marks[Top.env]
        THEN /\ stack' = Advance(here)
             /\ missed' = missed \union
                  {why \in {"dropped", "failed"} :
                     /\ m \notin bound[Top.env] /\ ~InProgress(m, Top.env)
                     /\ (why = "dropped") = (m \in gone[Top.env])}
             /\ UNCHANGED <<marks, bound, envs, status, loads, reads, gone>>
        ELSE /\ Room
             /\ marks' = [marks EXCEPT ![Top.env] = @ \union {m}]
             /\ stack' = Append(here, Load(m, Top.env))
             /\ UNCHANGED <<bound, envs, status, loads, reads, gone, missed>>
  BY DEF Use
<1> DEFINE here == [stack EXCEPT ![Depth].trying = try]
<1>4. Continues(here) /\ Len(here) = Depth /\ here[Depth].env = Top.env
  BY <1>1, ContinuesHere
<1>5. m \in Modules BY <1>2, <1>3, Constants
<1> HIDE DEF here
<1>6. CASE m \in marks[Top.env]
  <2>1. /\ stack' = Advance(here)
        /\ UNCHANGED <<marks, bound, envs, status, loads, reads, gone>>
    BY <1>3, <1>6 DEF here
  <2>2. missed' = missed \union
          {why \in {"dropped", "failed"} :
             /\ m \notin bound[Top.env] /\ ~InProgress(m, Top.env)
             /\ (why = "dropped") = (m \in gone[Top.env])}
    BY <1>3, <1>6
  <2>3. missed' \subseteq {"dropped", "failed"} BY <1>1, <2>2 DEF Typed
  <2>4. QED BY <1>1, <1>4, <2>1, <2>3, AdvanceStep DEF Typed
<1>7. CASE m \notin marks[Top.env]
  <2> DEFINE r == Load(m, Top.env)
  <2>1. /\ marks' = [marks EXCEPT ![Top.env] = @ \union {m}]
        /\ stack' = Append(here, r)
        /\ UNCHANGED <<bound, envs, status, loads, reads, gone, missed>>
    BY <1>3, <1>7 DEF here
  <2>2. r \in Records /\ r.kind = "load" /\ r.of = m /\ r.env = Top.env /\ r.pc = "locate"
    BY <1>2, <1>5, LoadType DEF Load, Records
  <2> HIDE DEF r
  <2>3. /\ Well(stack') /\ stack' # << >> /\ Len(stack') = Depth + 1
        /\ \A i \in 1..Depth : stack'[i] = here[i]
        /\ stack'[Depth + 1] = r
    BY <1>4, <2>1, <2>2, Push DEF Continues
  <2>4. Depth \in Nat /\ Len(stack) = Depth BY <1>1, TopFacts DEF Reading
  <2>5. \A i \in 1..Depth :
          stack'[i].kind = "load" =>
            /\ i \in 1..Len(stack) /\ stack[i].kind = "load" /\ stack[i].of = stack'[i].of
            /\ stack[i].env = stack'[i].env /\ stack[i].pc = stack'[i].pc
    BY <1>4, <2>3, <2>4 DEF Continues, SameLoads
  <2>6. Unmarked(m, Top.env) BY <1>1, <1>2, <1>5, <1>7 DEF Marked
  <2>7. \A i \in 1..Depth : stack'[i].kind = "load" => ~(stack'[i].of = m /\ stack'[i].env = Top.env)
    BY <2>5, <2>6 DEF Unmarked, IsLoad
  <2>8. \A i \in 1..Len(stack') : i \in 1..Depth \/ i = Depth + 1 BY <2>3, <2>4
  <2>9. \A e \in Env, n \in Modules : n \notin marks'[e] => Unmarked(n, e)'
    <3>1. SUFFICES ASSUME NEW e \in Env, NEW n \in Modules, n \notin marks'[e]
                   PROVE  Unmarked(n, e)'
      OBVIOUS
    <3>2. n \notin marks[e] /\ ~(n = m /\ e = Top.env)
      BY <1>1, <1>2, <2>1, <3>1 DEF Typed
    <3>3. Unmarked(n, e) BY <1>1, <3>2 DEF Marked
    <3>4. \A i \in 1..Len(stack') : ~IsLoad(stack'[i], n, e)
      BY <2>2, <2>3, <2>5, <2>8, <3>2, <3>3 DEF Unmarked, IsLoad
    <3>5. QED BY <2>1, <3>3, <3>4 DEF Unmarked
  <2>10. Single'
    <3>1. SUFFICES ASSUME NEW i \in 1..Len(stack'), NEW j \in 1..Len(stack'),
                          stack'[i].kind = "load", stack'[j].kind = "load",
                          stack'[i].of = stack'[j].of, stack'[i].env = stack'[j].env
                   PROVE  i = j
      BY DEF Single
    <3>2. CASE i \in 1..Depth /\ j \in 1..Depth
      BY <1>1, <2>5, <3>1, <3>2 DEF Marked, Single
    <3>3. CASE i = Depth + 1 \/ j = Depth + 1
      BY <2>2, <2>3, <2>7, <2>8, <3>1, <3>3
    <3>4. QED BY <2>8, <3>2, <3>3
  <2>11. Uncounted'
    BY <1>1, <2>1, <2>2, <2>3, <2>5, <2>6, <2>8, SMTT(30) DEF Marked, Uncounted, Unmarked
  <2>12. Hidden'
    BY <1>1, <2>1, <2>2, <2>3, <2>5, <2>6, <2>8 DEF Marked, Hidden, Unmarked
  <2>13. Marked' BY <1>1, <2>1, <2>9, <2>10, <2>11, <2>12 DEF Marked
  <2>14. marks' \in [Env -> SUBSET Modules] BY <1>1, <1>2, <1>5, <2>1 DEF Typed
  <2>15. Typed' BY <1>1, <2>1, <2>3, <2>14 DEF Typed
  <2>16. QED BY <2>13, <2>15 DEF LInv
<1>8. QED BY <1>6, <1>7

\* The innermost load with another pc, files to read or environment.
LEMMA ChangedLoad ==
  ASSUME Typed, status = "run", Top.kind = "load", NEW r \in LoadRecords,
         r.of = Top.of, r.env = Top.env
  PROVE  /\ Well([stack EXCEPT ![Depth] = r]) /\ Len([stack EXCEPT ![Depth] = r]) = Depth
         /\ [stack EXCEPT ![Depth] = r] # << >>
         /\ \A i \in 1..Depth : [stack EXCEPT ![Depth] = r][i] = IF i = Depth THEN r ELSE stack[i]
<1> DEFINE t == [stack EXCEPT ![Depth] = r]
<1>1. /\ Well(stack) /\ stack \in Seq(Records) /\ Depth \in 1..Len(stack) /\ Len(stack) = Depth
      /\ Len(stack) >= 1 /\ Top = stack[Len(stack)] /\ Depth \in Nat
  BY TopFacts DEF Typed
<1>2. r \in Records /\ r.kind = "load" BY DEF Records, LoadRecords
<1>3. /\ [stack EXCEPT ![Depth] = r] \in Seq(Records)
      /\ Len([stack EXCEPT ![Depth] = r]) = Len(stack)
      /\ \A i \in 1..Len(stack) : [stack EXCEPT ![Depth] = r][i] = IF i = Depth THEN r ELSE stack[i]
  BY <1>1, <1>2, ExceptSeq
<1>4. /\ t \in Seq(Records) /\ Len(t) = Len(stack)
      /\ \A i \in 1..Len(stack) : t[i] = IF i = Depth THEN r ELSE stack[i]
  BY <1>3
<1> HIDE DEF t
<1>5. Well(t) BY <1>1, <1>2, <1>4, Replace
<1>6. t # << >> BY <1>1, <1>4, EmptySeq
<1>7. QED BY <1>1, <1>4, <1>5, <1>6 DEF t

LEMMA TopLoad ==
  ASSUME Typed, status = "run", Top.kind = "load"
  PROVE  Top \in LoadRecords /\ Top.of \in Modules /\ Top.env \in Env /\ Top = stack[Depth]
BY TopFacts, RecordKinds DEF LoadRecords

\* The loads on s are loads in progress, and but for the innermost one they are
\* where they were.
Moved(s) ==
  \A i \in 1..Len(s) :
    s[i].kind = "load" => /\ i \in 1..Depth /\ stack[i].kind = "load"
                          /\ stack[i].of = s[i].of /\ stack[i].env = s[i].env
                          /\ IF i = Depth
                             THEN s[i].pc # "locate" /\ (Top.pc = "post" => s[i].pc = "post")
                             ELSE s[i].pc = stack[i].pc

\* The innermost load goes on: it is counted when it has been located, and its
\* module is bound when only post actions are left.
LEMMA MarkedMoved ==
  ASSUME LInv, status = "run", Top.kind = "load", Len(stack') \in Nat, Moved(stack'),
         marks' = marks,
         \/ loads' = loads
         \/ /\ Top.pc = "locate"
            /\ loads' = [loads EXCEPT ![<<Top.env, Top.of>>] = Once(@)],
         \/ bound' = bound
         \/ /\ bound' = [bound EXCEPT ![Top.env] = @ \union {Top.of}]
            /\ \A i \in 1..Len(stack') : i = Depth => stack'[i].pc = "post"
  PROVE  Marked'
<1>1. Typed /\ Marked BY DEF LInv
<1>2. /\ Top.of \in Modules /\ Top.env \in Env /\ Top = stack[Depth]
      /\ Depth \in 1..Len(stack) /\ Len(stack) = Depth /\ Depth \in Nat
  BY <1>1, TopLoad, TopFacts
<1>3. Top.of \in marks[Top.env]
  BY <1>1, <1>2 DEF Marked, Unmarked, IsLoad
<1>4. ASSUME NEW i \in 1..Len(stack'), stack'[i].kind = "load"
      PROVE  /\ i \in 1..Len(stack) /\ stack[i].kind = "load"
             /\ stack[i].of = stack'[i].of /\ stack[i].env = stack'[i].env
             /\ stack[i].of \in Modules /\ stack[i].env \in Env
             /\ i = Depth => /\ stack'[i].pc # "locate"
                             /\ stack'[i].pc # "post" => Top.pc # "post"
                             /\ stack[i].of = Top.of /\ stack[i].env = Top.env
             /\ i # Depth => /\ stack'[i].pc = stack[i].pc
                             /\ ~(stack[i].of = Top.of /\ stack[i].env = Top.env)
  <2>1. /\ i \in 1..Len(stack) /\ stack[i].kind = "load"
        /\ stack[i].of = stack'[i].of /\ stack[i].env = stack'[i].env
        /\ IF i = Depth
           THEN stack'[i].pc # "locate" /\ (Top.pc = "post" => stack'[i].pc = "post")
           ELSE stack'[i].pc = stack[i].pc
    BY <1>2, <1>4 DEF Moved
  <2>2. stack[i].of \in Modules /\ stack[i].env \in Env
    BY <1>1, <2>1, RecordKinds DEF Typed, Well, LoadRecords
  <2>3. i # Depth => ~(stack[i].of = Top.of /\ stack[i].env = Top.env)
    BY <1>1, <1>2, <2>1 DEF Marked, Single
  <2>4. QED BY <1>2, <2>1, <2>2, <2>3
<1>5. \A e \in Env, m \in Modules :
        ~(e = Top.env /\ m = Top.of) =>
          loads'[<<e, m>>] = loads[<<e, m>>] /\ (m \in bound'[e] <=> m \in bound[e])
  <2>1. SUFFICES ASSUME NEW e \in Env, NEW m \in Modules, ~(e = Top.env /\ m = Top.of)
                 PROVE  loads'[<<e, m>>] = loads[<<e, m>>] /\ (m \in bound'[e] <=> m \in bound[e])
    OBVIOUS
  <2>2. loads'[<<e, m>>] = loads[<<e, m>>] BY <1>1, <1>2, <2>1 DEF Typed
  <2>3. m \in bound'[e] <=> m \in bound[e] BY <1>1, <1>2, <2>1 DEF Typed
  <2>4. QED BY <2>2, <2>3
<1>6. loads'[<<Top.env, Top.of>>] <= 1
  <2>1. CASE loads' = loads BY <1>1, <1>2, <2>1 DEF Marked
  <2>2. CASE Top.pc = "locate" /\ loads' = [loads EXCEPT ![<<Top.env, Top.of>>] = Once(@)]
    <3>1. loads[<<Top.env, Top.of>>] = 0 BY <1>1, <1>2, <2>2 DEF Marked, Uncounted
    <3>2. QED BY <1>1, <1>2, <2>2, <3>1 DEF Typed, Once
  <2>3. QED BY <2>1, <2>2
<1>7. \A e \in Env, m \in Modules : m \notin marks'[e] => Unmarked(m, e)'
  <2>1. SUFFICES ASSUME NEW e \in Env, NEW m \in Modules, m \notin marks'[e]
                 PROVE  Unmarked(m, e)'
    OBVIOUS
  <2>2. ~(e = Top.env /\ m = Top.of) /\ Unmarked(m, e) BY <1>1, <1>3, <2>1 DEF Marked
  <2>3. \A i \in 1..Len(stack') : ~IsLoad(stack'[i], m, e)
    BY <1>4, <2>2 DEF Unmarked, IsLoad
  <2>4. QED BY <1>5, <2>2, <2>3 DEF Unmarked
<1>8. Single'
  BY <1>1, <1>4 DEF Marked, Single
<1>9. Uncounted'
  <2>1. SUFFICES ASSUME NEW i \in 1..Len(stack'), stack'[i].kind = "load", stack'[i].pc = "locate"
                 PROVE  loads'[<<stack'[i].env, stack'[i].of>>] = 0
    BY DEF Uncounted
  <2>2. i # Depth BY <1>4, <2>1
  <2>3. loads[<<stack[i].env, stack[i].of>>] = 0 BY <1>1, <1>4, <2>1, <2>2 DEF Marked, Uncounted
  <2>4. QED BY <1>4, <1>5, <2>1, <2>2, <2>3
<1>10. Hidden'
  <2>1. SUFFICES ASSUME NEW i \in 1..Len(stack'), stack'[i].kind = "load", stack'[i].pc # "post"
                 PROVE  stack'[i].of \notin bound'[stack'[i].env]
    BY DEF Hidden
  <2>2. CASE i = Depth
    <3>1. bound' = bound BY <2>1, <2>2
    <3>2. Top.pc # "post" BY <1>4, <2>1, <2>2
    <3>3. Top.of \notin bound[Top.env] BY <1>1, <1>2, <3>2 DEF Marked, Hidden
    <3>4. QED BY <1>4, <2>1, <2>2, <3>1, <3>3
  <2>3. CASE i # Depth
    <3>1. stack[i].of \notin bound[stack[i].env] BY <1>1, <1>4, <2>1, <2>3 DEF Marked, Hidden
    <3>2. QED BY <1>4, <1>5, <2>1, <2>3, <3>1
  <2>4. QED BY <2>2, <2>3
<1>11. \A p \in Env \X Modules : loads'[p] <= 1
  <2>1. SUFFICES ASSUME NEW e \in Env, NEW m \in Modules PROVE loads'[<<e, m>>] <= 1
    OBVIOUS
  <2>2. CASE e = Top.env /\ m = Top.of BY <1>6, <2>2
  <2>3. CASE ~(e = Top.env /\ m = Top.of)
    <3>1. loads[<<e, m>>] <= 1 BY <1>1 DEF Marked
    <3>2. QED BY <1>5, <2>3, <3>1
  <2>4. QED BY <2>2, <2>3
<1>12. QED BY <1>7, <1>8, <1>9, <1>10, <1>11 DEF Marked

LEMMA LocateStep == ASSUME LInv, Locate PROVE LInv'
<1>1. Typed /\ status = "run" /\ Top.kind = "load" /\ Top.pc = "locate" BY DEF Locate, Loads, LInv
<1>2. CASE Failed(Below) BY <1>1, <1>2, ContinuesBelow, FailedStep
<1>3. CASE /\ envs < MaxEnvs
           /\ envs' = envs + 1
           /\ stack' = Append([stack EXCEPT ![Depth].pc = "library"], Reader("module", Top.of, envs'))
           /\ loads' = [loads EXCEPT ![<<Top.env, Top.of>>] = Once(@)]
           /\ UNCHANGED <<marks, bound, status, reads, gone, missed>>
  <2> DEFINE r == [stack[Depth] EXCEPT !.pc = "library"]
             t == [stack EXCEPT ![Depth].pc = "library"]
             f == Reader("module", Top.of, envs')
  <2>1. Top \in LoadRecords /\ Top.of \in Modules /\ Top.env \in Env /\ Top = stack[Depth]
    BY <1>1, TopLoad
  <2>2. r \in LoadRecords /\ r.of = Top.of /\ r.env = Top.env /\ r.pc = "library"
    BY <2>1 DEF LoadRecords
  <2>3. t = [stack EXCEPT ![Depth] = r] OBVIOUS
  <2>4. envs' \in Env BY <1>1, <1>3, Constants DEF Typed, Env
  <2>5. f \in Readers /\ f \in Records /\ f.kind # "load"
    BY <2>1, <2>4, Constants, ReaderType, RecordKinds DEF Records
  <2>6. stack' = Append(t, f) BY <1>3
  <2> HIDE DEF r, t, f
  <2>7. /\ Well(t) /\ Len(t) = Depth /\ \A i \in 1..Depth : t[i] = IF i = Depth THEN r ELSE stack[i]
    <3>1. /\ Well([stack EXCEPT ![Depth] = r]) /\ Len([stack EXCEPT ![Depth] = r]) = Depth
          /\ [stack EXCEPT ![Depth] = r] # << >>
          /\ \A i \in 1..Depth : [stack EXCEPT ![Depth] = r][i] = IF i = Depth THEN r ELSE stack[i]
      BY <1>1, <2>2, ChangedLoad
    <3>2. QED BY <3>1, <2>3
  <2>8. r.kind = "load" /\ Depth \in Nat /\ Depth >= 1 /\ Len(stack) = Depth
    BY <1>1, <2>2, TopFacts DEF LoadRecords
  <2>9. /\ Well(stack') /\ stack' # << >> /\ Len(stack') = Depth + 1
        /\ \A i \in 1..Depth : stack'[i] = t[i]
        /\ stack'[Depth + 1] = f
    BY <2>5, <2>6, <2>7, <2>8, Push
  <2>10. Moved(stack')
    <3>1. SUFFICES ASSUME NEW i \in 1..Depth + 1, stack'[i].kind = "load"
                   PROVE  /\ i \in 1..Depth /\ stack[i].kind = "load"
                          /\ stack[i].of = stack'[i].of /\ stack[i].env = stack'[i].env
                          /\ IF i = Depth
                             THEN stack'[i].pc # "locate" /\ (Top.pc = "post" => stack'[i].pc = "post")
                             ELSE stack'[i].pc = stack[i].pc
      BY <2>9 DEF Moved
    <3>2. i \in 1..Depth BY <2>5, <2>8, <2>9, <3>1
    <3>3. stack'[i] = IF i = Depth THEN r ELSE stack[i] BY <2>7, <2>9, <3>2
    <3>4. QED BY <1>1, <2>1, <2>2, <3>1, <3>2, <3>3
  <2>11. Marked' BY <1>1, <1>3, <2>8, <2>9, <2>10, MarkedMoved
  <2>12. loads' \in [Env \X Modules -> 0..2] BY <1>1, <1>3, <2>1, OnceType DEF Typed
  <2>13. Typed' BY <1>1, <1>3, <2>4, <2>9, <2>12 DEF Typed
  <2>14. QED BY <2>11, <2>13 DEF LInv
<1>4. QED BY <1>2, <1>3 DEF Locate

\* The innermost load goes on without reading a file.
LEMMA OnwardStep ==
  ASSUME LInv, status = "run", Top.kind = "load", NEW r \in LoadRecords,
         r.of = Top.of, r.env = Top.env, r.pc # "locate", Top.pc = "post" => r.pc = "post",
         stack' = [stack EXCEPT ![Depth] = r], envs' \in Env,
         \/ bound' = bound
         \/ bound' = [bound EXCEPT ![Top.env] = @ \union {Top.of}] /\ r.pc = "post",
         UNCHANGED <<marks, status, loads, reads, gone, missed>>
  PROVE  LInv'
<1>1. Typed BY DEF LInv
<1>2. /\ Well(stack') /\ Len(stack') = Depth /\ stack' # << >>
      /\ \A i \in 1..Depth : stack'[i] = IF i = Depth THEN r ELSE stack[i]
  <2>1. /\ Well([stack EXCEPT ![Depth] = r]) /\ Len([stack EXCEPT ![Depth] = r]) = Depth
        /\ [stack EXCEPT ![Depth] = r] # << >>
        /\ \A i \in 1..Depth : [stack EXCEPT ![Depth] = r][i] = IF i = Depth THEN r ELSE stack[i]
    BY <1>1, ChangedLoad
  <2>2. QED BY <2>1
<1>3. Top.of \in Modules /\ Top.env \in Env /\ Top = stack[Depth] /\ Depth \in Nat
  BY <1>1, TopLoad, TopFacts
<1>4. Moved(stack') BY <1>2, <1>3 DEF Moved
<1>5. Marked' BY <1>2, <1>3, <1>4, MarkedMoved
<1>6. bound' \in [Env -> SUBSET Modules] BY <1>1, <1>3 DEF Typed
<1>7. Typed' BY <1>1, <1>2, <1>6 DEF Typed
<1>8. QED BY <1>5, <1>7 DEF LInv

LEMMA LoadLibraryStep == ASSUME LInv, LoadLibrary PROVE LInv'
<1>1. Typed /\ status = "run" /\ Top.kind = "load" /\ Top.pc = "library"
  BY DEF LoadLibrary, Loads, LInv
<1>2. CASE Failed(Below) BY <1>1, <1>2, ContinuesBelow, FailedStep
<1>3. CASE /\ envs < MaxEnvs
           /\ envs' = envs + 1
           /\ stack' = [stack EXCEPT ![Depth] = [@ EXCEPT !.pc = "sources", !.own = envs',
                                                         !.todo = Sources[Top.of]]]
           /\ UNCHANGED <<marks, bound, status, loads, reads, gone, missed>>
  <2> DEFINE r == [stack[Depth] EXCEPT !.pc = "sources", !.own = envs', !.todo = Sources[Top.of]]
  <2>1. Top \in LoadRecords /\ Top.of \in Modules /\ Top = stack[Depth] BY <1>1, TopLoad
  <2>2. envs' \in Env BY <1>1, <1>3, Constants DEF Typed, Env
  <2>3. Sources[Top.of] \in Seq(Files) BY <2>1, Constants
  <2>4. r \in LoadRecords /\ r.of = Top.of /\ r.env = Top.env /\ r.pc = "sources"
    BY <2>1, <2>2, <2>3 DEF LoadRecords
  <2>5. stack' = [stack EXCEPT ![Depth] = r] BY <1>3
  <2> HIDE DEF r
  <2>6. QED BY <1>1, <1>3, <2>2, <2>4, <2>5, OnwardStep
<1>4. QED BY <1>2, <1>3 DEF LoadLibrary

LEMMA BindStep == ASSUME LInv, Bind PROVE LInv'
<1>1. Typed /\ status = "run" /\ Top.kind = "load" /\ Top.pc = "sources" BY DEF Bind, Loads, LInv
<1> DEFINE r == [stack[Depth] EXCEPT !.pc = "post", !.todo = Posts[Top.of]]
<1>2. Top \in LoadRecords /\ Top.of \in Modules /\ Top = stack[Depth] BY <1>1, TopLoad
<1>3. Posts[Top.of] \in Seq(Files) BY <1>2, Constants
<1>4. r \in LoadRecords /\ r.of = Top.of /\ r.env = Top.env /\ r.pc = "post"
  BY <1>2, <1>3 DEF LoadRecords
<1>5. stack' = [stack EXCEPT ![Depth] = r] BY DEF Bind
<1>6. envs' \in Env BY <1>1 DEF Bind, Typed
<1>7. /\ bound' = [bound EXCEPT ![Top.env] = @ \union {Top.of}]
      /\ UNCHANGED <<marks, status, loads, reads, gone, missed>>
  BY DEF Bind
<1> HIDE DEF r
<1>8. QED BY <1>1, <1>4, <1>5, <1>6, <1>7, OnwardStep

\* A load takes the next file off its list and begins to read it.
LEMMA FileStep ==
  ASSUME LInv, status = "run", Top.kind = "load", Top.todo # << >>,
         NEW kind \in {"source", "post"}, NEW env \in Env,
         stack' = Append([stack EXCEPT ![Depth].todo = Tail(@)], Reader(kind, Head(Top.todo), env)),
         UNCHANGED <<marks, bound, envs, status, loads, reads, gone, missed>>
  PROVE  LInv'
<1>1. Typed BY DEF LInv
<1>2. Top \in LoadRecords /\ Top.of \in Modules /\ Top = stack[Depth] BY <1>1, TopLoad
<1>3. Top.todo \in Seq(Files) BY <1>2 DEF LoadRecords
<1>4. Head(Top.todo) \in Files /\ Tail(Top.todo) \in Seq(Files) BY <1>3, HeadTailProperties
<1> DEFINE r == [stack[Depth] EXCEPT !.todo = Tail(Top.todo)]
           t == [stack EXCEPT ![Depth].todo = Tail(@)]
           f == Reader(kind, Head(Top.todo), env)
<1>5. r \in LoadRecords /\ r.of = Top.of /\ r.env = Top.env /\ r.pc = Top.pc
  BY <1>2, <1>4 DEF LoadRecords
<1>6. t = [stack EXCEPT ![Depth] = r] BY <1>2
<1>7. f \in Readers BY <1>4, Constants, ReaderType
<1>8. stack' = Append(t, f) OBVIOUS
<1> HIDE DEF r, t, f
<1>9. /\ Well(t) /\ Len(t) = Depth /\ \A i \in 1..Depth : t[i] = IF i = Depth THEN r ELSE stack[i]
  <2>1. /\ Well([stack EXCEPT ![Depth] = r]) /\ Len([stack EXCEPT ![Depth] = r]) = Depth
        /\ [stack EXCEPT ![Depth] = r] # << >>
        /\ \A i \in 1..Depth : [stack EXCEPT ![Depth] = r][i] = IF i = Depth THEN r ELSE stack[i]
    BY <1>1, <1>5, ChangedLoad
  <2>2. QED BY <2>1, <1>6
<1>10. r.kind = "load" /\ Depth \in Nat /\ Depth >= 1 /\ Len(stack) = Depth
  BY <1>1, <1>5, TopFacts DEF LoadRecords
<1>11. SameLoads(t) BY <1>2, <1>5, <1>9, <1>10 DEF SameLoads
<1>12. reads' \in [Env \X Files -> 0..2] BY <1>1 DEF Typed
<1>13. t[Len(t)].kind = "load" BY <1>9, <1>10
<1>14. QED BY <1>7, <1>8, <1>9, <1>11, <1>12, <1>13, ReadStep

LEMMA NextSourceStep == ASSUME LInv, NextSource PROVE LInv'
<1>1. Typed /\ status = "run" /\ Top.kind = "load" BY DEF NextSource, Loads, LInv
<1>2. CASE Failed(Below) BY <1>1, <1>2, ContinuesBelow, FailedStep
<1>3. CASE ~Failed(Below)
  <2>1. Top.own \in Env BY <1>1, TopLoad DEF LoadRecords
  <2>2. QED BY <1>1, <1>3, <2>1, FileStep DEF NextSource
<1>4. QED BY <1>2, <1>3

LEMMA NextPostStep == ASSUME LInv, NextPost PROVE LInv'
<1>1. Typed /\ status = "run" /\ Top.kind = "load" BY DEF NextPost, Loads, LInv
<1>2. CASE Failed(Below) BY <1>1, <1>2, ContinuesBelow, FailedStep
<1>3. CASE ~Failed(Below)
  <2>1. Top.env \in Env BY <1>1, TopLoad
  <2>2. QED BY <1>1, <1>3, <2>1, FileStep DEF NextPost
<1>4. QED BY <1>2, <1>3

-----------------------------------------------------------------------------
(***************************************************************************)
(* The theorems.                                                           *)
(***************************************************************************)
LEMMA InitLInv == ASSUME Init PROVE LInv
<1> DEFINE r == Reader("main", "main", 0)
<1>1. stack = <<r>> BY DEF Init
<1>2. r \in Readers /\ r \in Records /\ r.kind # "load"
  BY Constants, ReaderType, RecordKinds DEF Records
<1> HIDE DEF r
<1>3. stack \in Seq(Records) /\ Len(stack) = 1 /\ stack[1] = r /\ stack # << >> BY <1>1, <1>2
<1>4. Well(stack) BY <1>2, <1>3 DEF Well
<1>5. Typed BY <1>3, <1>4, Constants DEF Init, Typed
<1>6. Marked BY <1>2, <1>3 DEF Init, Marked, Unmarked, IsLoad, Single, Uncounted, Hidden
<1>7. QED BY <1>5, <1>6 DEF LInv

LEMMA NextLInv == ASSUME LInv, [Next]_vars PROVE LInv'
<1>1. CASE UNCHANGED vars
  BY <1>1 DEF vars, LInv, Typed, Marked, Unmarked, IsLoad, Single, Uncounted, Hidden
<1>2. CASE Work
  BY <1>2, ExecuteStep, ThrowStep, DropStep, ImportStep, UseStep, ParseErrorStep, EndOfFileStep,
     LocateStep, LoadLibraryStep, NextSourceStep, BindStep, NextPostStep, LoadedStep DEF Work
<1>3. QED BY <1>1, <1>2 DEF Next, Ended

\* LInv holds in every state of every program.
THEOREM LoadingInvariant == Spec => []LInv
<1>1. Init => LInv BY InitLInv
<1>2. LInv /\ [Next]_vars => LInv' BY NextLInv
<1>3. QED BY <1>1, <1>2, PTL DEF Spec

\* Whatever a program's files import, use, drop and fail at, a module is loaded
\* into one environment at most once: the mark set at modules.cpp:193.
THEOREM LoadsOnce == Spec => []LoadedOnce
<1>1. LInv => LoadedOnce BY DEF LInv, Marked, LoadedOnce
<1>2. QED BY <1>1, LoadingInvariant, PTL

\* No instruction ever sees a module that is half loaded: until load_module has
\* read all its sources, its name is not bound where it is being loaded.
THEOREM BoundComplete == Spec => []BoundIsComplete
<1>1. LInv => BoundIsComplete
  <2>1. LInv => DOMAIN stack = 1..Len(stack) BY DEF LInv, Typed, Well
  <2>2. QED BY <2>1 DEF LInv, Marked, Hidden, BoundIsComplete
<1>2. QED BY <1>1, LoadingInvariant, PTL

\* Every variable of Loading keeps its type, and below every load lies the
\* interpreter that executes the `use'.
THEOREM LoadingTypes == Spec => []TypeOK
<1>1. LInv => TypeOK
  <2>1. LInv => DOMAIN stack = 1..Len(stack) /\ \A i \in 1..Len(stack) : stack[i] \in Records
    BY DEF LInv, Typed, Well
  <2>2. QED BY <2>1, RecordKinds DEF LInv, Typed, Well, TypeOK, LoadRecords
<1>2. QED BY <1>1, LoadingInvariant, PTL
=============================================================================
