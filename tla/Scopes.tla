------------------------------- MODULE Scopes -------------------------------
(***************************************************************************)
(* Environments and the cells bound in them (environment.cpp,              *)
(* environment_modifiers.cpp, and the environments that calls, loops, ifs  *)
(* and tries make: lambdas.cpp, common.cpp, excepts.cpp).                  *)
(*                                                                         *)
(* An environment lives on the C++ stack, so it is named by its position   *)
(* in "envs"; a function holds a pointer to the environment it was defined *)
(* in, so it names that position, whatever is there when it is called.     *)
(* A cell holds a plain value or a function.                               *)
(***************************************************************************)
EXTENDS Integers, Sequences, FiniteSets

CONSTANTS
  Names,      \* the names a program uses, one of which is the parameter
  Param,      \* the parameter of every function
  Escapes,    \* functions may outlive the environment they were defined in
  Throws,     \* programs throw and try
  MaxCells,   \* bound: cells at a time
  MaxEnvs,    \* bound: environments at a time
  MaxMade     \* bound: environments made in all

ASSUME ScopesAssumption ==
  /\ Param \in Names /\ "$e" \notin Names /\ {Escapes, Throws} \subseteq BOOLEAN
  /\ MaxCells \in Nat /\ MaxEnvs \in Nat /\ MaxMade \in Nat

VARIABLES
  frames,  \* the builtins being executed that have made an environment
  envs,    \* the environments, outermost first
  heap,    \* the cells
  made     \* history: how many environments were made

vars == <<frames, envs, heap, made>>

Vars   == Names \union {"$e"}
Cells  == 1..MaxCells
Unset  == 0
Kinds  == {"global", "call", "block", "try", "recover"}

\* chain (a history) is the environments that were visible at its definition.
Plain          == [fn |-> 0, chain |-> {}]
Function(e, c) == [fn |-> e, chain |-> c]

NewEnv(parent) == [parent |-> parent, map |-> [x \in Vars |-> Unset], serial |-> made + 1]

\* own is the environment the builtin has made, env the one in which it has
\* the interpreter process cells, and error the cell of the exception; chain (a
\* history) is that of the function called.
Frame(kind, own, env, error, chain) ==
  [kind |-> kind, own |-> own, env |-> env, error |-> error, chain |-> chain]

Top  == frames[Len(frames)]
Here == Top.env

\* The environments a look-up from e goes through, from parent_env_ to
\* parent_env_: e, and with each of them its parent, which is further out.
Closed(es, e) ==
  {S \in SUBSET (1..e) : e \in S /\ \A i \in S : es[i].parent \in 1..i - 1 => es[i].parent \in S}

Visible(es, e) == LET closed == Closed(es, e) IN {i \in 1..e : \A S \in closed : i \in S}

Serials(S) == {envs[i].serial : i \in S}

\* env_c::get_env: the innermost visible environment that has a name, or 0.
Holder(es, e, x) ==
  LET holding == {i \in Visible(es, e) : es[i].map[x] # Unset}
  IN IF holding = {} THEN 0 ELSE CHOOSE i \in holding : \A j \in holding : j <= i

Get(x) == LET h == Holder(envs, Here, x) IN IF h = 0 THEN Unset ELSE envs[h].map[x]

\* env_c::set: where the name is bound already, or else in e itself.
Target(es, e, x)    == LET h == Holder(es, e, x) IN IF h = 0 THEN e ELSE h
SetIn(es, e, x, c)  == [es EXCEPT ![Target(es, e, x)].map[x] = c]
DropIn(es, e, x)    == LET h == Holder(es, e, x)
                       IN IF h = 0 THEN es ELSE [es EXCEPT ![h].map[x] = Unset]

\* allocate_cell: a cell that nothing refers to.
Used == {envs[i].map[x] : i \in DOMAIN envs, x \in Vars} \union {frames[i].error : i \in DOMAIN frames}
Fresh(c) == LET free == Cells \ Used IN c \in free /\ \A d \in free : c <= d

\* The cells after a step that leaves the environments es: one without a name
\* is destroyed.
Swept(h, es) == [c \in Cells |-> IF \E i \in DOMAIN es, x \in Vars : es[i].map[x] = c
                                 THEN h[c] ELSE Plain]

\* With Escapes FALSE a value may be stored in the environment e only if the
\* environment of its function is still there when e is destroyed.
Storable(value, e) == Escapes \/ value.fn <= e

(***************************************************************************)
(* Assignments.                                                            *)
(***************************************************************************)

\* (:= x 1) and (:= x y), which clones the cell.
Values == {Plain} \union {heap[Get(y)] : y \in {n \in Names : Get(n) # Unset}}

\* Mutant of Assign: the cell is not cloned.
AssignShares ==
  \E x, y \in Names :
    /\ Get(y) # Unset /\ x # y /\ Storable(heap[Get(y)], Target(envs, Here, x))
    /\ envs' = SetIn(envs, Here, x, Get(y))
    /\ heap' = Swept(heap, envs')
    /\ UNCHANGED <<frames, made>>

Assign ==
  \E x \in Names, v \in Values, c \in Cells :
    /\ Fresh(c) /\ Storable(v, Target(envs, Here, x))
    /\ envs' = SetIn(envs, Here, x, c)
    /\ heap' = Swept([heap EXCEPT ![c] = v], envs')
    /\ UNCHANGED <<frames, made>>

\* (set x v): the cell itself is updated, under all its names.
Update ==
  \E x \in Names, v \in Values :
    LET c == Get(x) IN
    /\ c # Unset
    /\ \A i \in DOMAIN envs : c \in {envs[i].map[n] : n \in Names} => Storable(v, i)
    /\ heap' = [heap EXCEPT ![c] = v]
    /\ UNCHANGED <<envs, frames, made>>

Drop ==
  \E x \in Names :
    /\ Get(x) # Unset
    /\ envs' = DropIn(envs, Here, x)
    /\ heap' = Swept(heap, envs')
    /\ UNCHANGED <<frames, made>>

\* (fn x [p] ...)
Define ==
  \E x \in Names, c \in Cells :
    LET v == Function(Here, Serials(Visible(envs, Here))) IN
    /\ Fresh(c) /\ Storable(v, Target(envs, Here, x))
    /\ envs' = SetIn(envs, Here, x, c)
    /\ heap' = Swept([heap EXCEPT ![c] = v], envs')
    /\ UNCHANGED <<frames, made>>

(***************************************************************************)
(* Environments.                                                           *)
(***************************************************************************)
Room == Len(envs) < MaxEnvs /\ made < MaxMade

Enter(kind, env, parent, map, chain) ==
  /\ Room
  /\ envs' = Append(envs, [NewEnv(parent) EXCEPT !.map = map])
  /\ frames' = Append(frames, Frame(kind, Len(envs) + 1, env, Unset, chain))
  /\ made' = made + 1
  /\ UNCHANGED heap

NoMap == [x \in Vars |-> Unset]

\* Mutant of Call: the parent is the caller's environment.
CallDynamic ==
  \E f, y \in Names :
    /\ Get(f) # Unset /\ heap[Get(f)].fn # 0 /\ Get(y) # Unset
    /\ Enter("call", Len(envs) + 1, Here, [NoMap EXCEPT ![Param] = Get(y)], heap[Get(f)].chain)

\* (f y): the parameter is bound to the cell of the argument.
Call ==
  \E f, y \in Names :
    /\ Get(f) # Unset /\ heap[Get(f)].fn # 0 /\ Get(y) # Unset
    /\ Enter("call", Len(envs) + 1, heap[Get(f)].fn, [NoMap EXCEPT ![Param] = Get(y)], heap[Get(f)].chain)

\* loop and if
Block == Enter("block", Len(envs) + 1, Here, NoMap, {})

\* The attempt is processed in the environment of the try instruction.
Try == Throws /\ Enter("try", Here, Here, NoMap, {})

\* Mutant of Return: the environment is destroyed while it is still in use.
ReturnEarly ==
  /\ Top.kind # "global" /\ Len(envs) >= Top.own
  /\ envs' = SubSeq(envs, 1, Top.own - 1)
  /\ UNCHANGED <<frames, heap, made>>

\* A call, loop, if or try returns: its environment is destroyed; after a
\* recovery `$e' is dropped first.
Return ==
  /\ Top.kind # "global"
  /\ envs' = SubSeq(IF Top.kind = "recover" THEN DropIn(envs, Here, "$e") ELSE envs,
                    1, Top.own - 1)
  /\ frames' = SubSeq(frames, 1, Len(frames) - 1)
  /\ heap' = Swept(heap, envs')
  /\ UNCHANGED made

\* Mutant of RecoveryEnv: the recovery runs where the attempt did.
RecoveryEnvOuter(frame) == frame.env

RecoveryEnv(frame) == frame.own

\* An exception: the environments inside the nearest try are destroyed, and
\* handle_thrown_error_in_try binds `$e' and processes the recovery.  If
\* there is none it ends the instruction.
Throw ==
  /\ Throws /\ Top.kind # "global"
  /\ LET tries == {i \in DOMAIN frames : frames[i].kind = "try"}
         t     == CHOOSE i \in tries : \A j \in tries : j <= i
         left  == SubSeq(envs, 1, frames[t].own)
         env   == RecoveryEnv(frames[t])
     IN IF tries = {}
        THEN envs' = <<envs[1]>> /\ frames' = <<frames[1]>> /\ heap' = Swept(heap, envs')
        ELSE \E c \in Cells :
               /\ Fresh(c)
               /\ envs' = SetIn(left, env, "$e", c)
               /\ heap' = Swept(heap, envs')
               /\ frames' = Append(SubSeq(frames, 1, t - 1),
                                   Frame("recover", frames[t].own, env, c, {}))
  /\ UNCHANGED made

Init ==
  /\ frames = <<Frame("global", 1, 1, Unset, {})>>
  /\ envs = <<[parent |-> 0, map |-> NoMap, serial |-> 1]>>
  /\ heap = [c \in Cells |-> Plain]
  /\ made = 1

Next == Assign \/ Update \/ Drop \/ Define \/ Call \/ Block \/ Try \/ Return \/ Throw

Spec == Init /\ [][Next]_vars

(***************************************************************************)
(* Properties.                                                             *)
(***************************************************************************)

EnvType   == [parent : Nat, map : [Vars -> Cells \union {Unset}], serial : Nat]
FrameType == [kind : Kinds, own : Nat, env : Nat, error : Cells \union {Unset},
              chain : SUBSET Nat]

\* Every variable has its type; the environment in use is one that exists.
TypeOK ==
  /\ frames \in Seq(FrameType) /\ envs \in Seq(EnvType)
  /\ \A i \in DOMAIN frames :
       frames[i].own \in DOMAIN envs /\ frames[i].env \in 1..frames[i].own
  /\ heap \in [Cells -> [fn : Nat, chain : SUBSET Nat]]
  /\ made \in Nat /\ frames # << >>

\* Scoping is static: what a call sees beside its own environment is the
\* environments, and only those, that were visible where its function was
\* defined, from wherever and however late it is called (lambdas.cpp:
\* env_c(fn_info.operating_env)).
ScopeIsStatic ==
  \A i \in DOMAIN frames :
    frames[i].kind = "call" =>
      Serials(Visible(envs, frames[i].own) \ {frames[i].own}) = frames[i].chain

\* `:=' and `fn' make cells of their own and only calls share one: apart from
\* the parameters that were given it, no two names have the same cell, so that
\* `set' can be seen under the name of the argument and nowhere else.
OnlyArgumentsShared ==
  \A i, j \in DOMAIN envs : \A x, y \in Vars \ {Param} :
    envs[i].map[x] # Unset /\ envs[i].map[x] = envs[j].map[y] => i = j /\ x = y

\* An error does not outlive its recovery, even if the recovery is itself left
\* by an exception: `$e' is bound only in the environment of an active recovery.
ErrorStaysInside ==
  \A i \in DOMAIN envs :
    envs[i].map["$e"] # Unset => \E f \in DOMAIN frames : frames[f].kind = "recover" /\ frames[f].own = i

\* "The second list will be executed with a variable `$e' present in the
\* environment while the recovery list is being processed."
ErrorPresent == Top.kind = "recover" => Get("$e") = Top.error

\* "`:=': create or update a symbol in the immediate environment."
AssignsHere ==
  [][frames' = frames => \A i \in DOMAIN envs : i # Here => envs'[i] = envs[i]]_vars
=============================================================================
