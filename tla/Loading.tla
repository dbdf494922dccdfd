------------------------------ MODULE Loading ------------------------------
(***************************************************************************)
(* `import' and `use': nested interpreters, the modules marked as loaded   *)
(* and the ones bound in each environment (modules.cpp, environment.hpp,   *)
(* file_interpreter.hpp, the import and use builtins).                     *)
(*                                                                         *)
(* Every file that is imported or loaded is read by an interpreter of its  *)
(* own, on the C++ stack of the one that asked for it.  "stack" holds one  *)
(* record per interpreter, and one per modules_c::load_module in progress. *)
(* An interpreter's other instructions are not modelled, except that one   *)
(* may throw; its parser may find an error anywhere in its file.           *)
(***************************************************************************)
EXTENDS Integers, Sequences, FiniteSets

CONSTANTS
  Files,      \* source files; "main" is the one the process was started with
  Modules,    \* installed modules; each has a module file of the same name
  Imports,    \* Imports[f]: the files that f imports
  Uses,       \* Uses[f]: the modules that f uses, and may drop again
  Sources,    \* Sources[m]: the files listed as sources in m's module file
  Posts,      \* Posts[m]: the files listed as post actions
  Libraries,  \* the modules with a dylib
  Repl,       \* "main" is the input of the REPL
  MaxLen,     \* bound: the instructions executed of one file
  MaxDepth,   \* bound: records on the stack
  MaxEnvs     \* bound: environments created for modules

Texts == Files \union Modules

ASSUME FilesAssumption   == "main" \in Files
ASSUME GraphAssumption   == /\ Imports \in [Texts -> SUBSET Files]
                            /\ Uses \in [Texts -> SUBSET Modules]
                            /\ Sources \in [Modules -> Seq(Files)]
                            /\ Posts \in [Modules -> Seq(Files)]
                            /\ Libraries \subseteq Modules /\ Repl \in BOOLEAN
ASSUME LoadingBounds     == MaxLen \in Nat /\ MaxDepth \in Nat /\ MaxEnvs \in Nat

VARIABLES
  stack,    \* the interpreters and module loads in progress, innermost last
  marks,    \* env_c::loaded_modules_ of each environment
  bound,    \* the modules an environment has a cell for
  envs,     \* how many environments modules have been given so far
  status,   \* "run", "done", or "exit" after a halt
  loads,    \* history: how often each module was loaded into each environment
  reads,    \* history: how often each file was imported into each environment
  gone,     \* history: the modules dropped from each environment
  missed    \* history: why some `use' returned although its module is not there

vars == <<stack, marks, bound, envs, status, loads, reads, gone, missed>>

Env == 0..MaxEnvs   \* 0: the environment of the main interpreter

\* An interpreter reading a file: `of' is the file or the module whose module
\* file it is, `trying' whether its present instruction is inside a try.
Reader(kind, of, env) ==
  [kind |-> kind, of |-> of, env |-> env, left |-> MaxLen, trying |-> FALSE]

\* modules_c::load_module: env is target_env, own the module's environment.
Load(of, env) ==
  [kind |-> "load", of |-> of, env |-> env, own |-> 0, todo |-> << >>, pc |-> "locate"]

Depth  == Len(stack)
Top    == stack[Depth]
Below  == SubSeq(stack, 1, Depth - 1)
Reading == status = "run" /\ Top.kind # "load"
Loads(pc) == status = "run" /\ Top.kind = "load" /\ Top.pc = pc
Room   == Depth < MaxDepth

\* The sources known to the source manager all interpreters share: intake_ of
\* a nested interpreter registers its file in a manager of its own.
Registered == IF Repl THEN {} ELSE {"main"}

\* A reader, and the reader on top of s, goes on with its next instruction.
Past(reader) == [reader EXCEPT !.left = @ - 1, !.trying = FALSE]
Advance(s)   == [s EXCEPT ![Len(s)] = Past(@)]

InProgress(m, e) ==
  \E i \in DOMAIN stack : stack[i].kind = "load" /\ stack[i].of = m /\ stack[i].env = e

Once(n) == IF n < 2 THEN n + 1 ELSE n

\* The instruction of the reader on top of s throws: try catches it, or
\* instruction_ind halts; only the main interpreter is ever in REPL mode.
Failed(s) ==
  /\ IF s[Len(s)].trying \/ (Repl /\ Len(s) = 1)
     THEN stack' = Advance(s) /\ UNCHANGED status
     ELSE stack' = << >> /\ status' = "exit"
  /\ UNCHANGED <<marks, bound, envs, loads, reads, gone, missed>>

\* The part of the stack below the top that has the nearest reader on top.
ReaderBelow == IF stack[Depth - 1].kind = "load" THEN SubSeq(stack, 1, Depth - 2)
                                                 ELSE Below

(***************************************************************************)
(* Instructions.                                                           *)
(***************************************************************************)

\* Any instruction that is no import or use.
Execute ==
  /\ Reading /\ Top.left > 0
  /\ stack' = Advance(stack)
  /\ UNCHANGED <<marks, bound, envs, status, loads, reads, gone, missed>>

Throw == Reading /\ Top.left > 0 /\ Failed(stack)

Drop ==
  /\ Reading /\ Top.left > 0
  /\ \E m \in Uses[Top.of] \intersect bound[Top.env] :
       /\ bound' = [bound EXCEPT ![Top.env] = @ \ {m}]
       /\ gone' = [gone EXCEPT ![Top.env] = @ \union {m}]
  /\ stack' = Advance(stack)
  /\ UNCHANGED <<marks, envs, status, loads, reads, missed>>

\* import: one file; the environment is that of the interpreter.
Import ==
  /\ Reading /\ Top.left > 0
  /\ \E f \in Imports[Top.of], try \in BOOLEAN :
       LET here == [stack EXCEPT ![Depth].trying = try] IN
       \/ Failed(here)                        \* not located
       \/ /\ f \in Registered
          /\ stack' = Advance(here)
          /\ UNCHANGED <<marks, bound, envs, status, loads, reads, gone, missed>>
       \/ /\ f \notin Registered /\ Room
          /\ stack' = Append(here, Reader("import", f, Top.env))
          /\ reads' = [reads EXCEPT ![<<Top.env, f>>] = Once(@)]
          /\ UNCHANGED <<marks, bound, envs, status, loads, gone, missed>>

\* Mutant of Use: the module is always loaded into the main environment.
UseMainEnv ==
  /\ Reading /\ Top.left > 0
  /\ \E m \in Uses[Top.of] \ marks[Top.env] :
       /\ Room
       /\ marks' = [marks EXCEPT ![Top.env] = @ \union {m}]
       /\ stack' = Append(stack, Load(m, 0))
  /\ UNCHANGED <<bound, envs, status, loads, reads, gone, missed>>

\* Mutant of Use: the mark is left to be set when the module is bound.
UseMarksLate ==
  /\ Reading /\ Top.left > 0
  /\ \E m \in Uses[Top.of], try \in BOOLEAN :
       LET here == [stack EXCEPT ![Depth].trying = try] IN
       IF m \in bound[Top.env]
       THEN /\ stack' = Advance(here)
            /\ UNCHANGED <<marks, bound, envs, status, loads, reads, gone, missed>>
       ELSE /\ Room
            /\ stack' = Append(here, Load(m, Top.env))
            /\ UNCHANGED <<marks, bound, envs, status, loads, reads, gone, missed>>

\* use: load_module returns at once if the module is marked, and marks it
\* before anything can fail.
Use ==
  /\ Reading /\ Top.left > 0
  /\ \E m \in Uses[Top.of], try \in BOOLEAN :
       LET here == [stack EXCEPT ![Depth].trying = try] IN
       IF m \in marks[Top.env]
       THEN /\ stack' = Advance(here)
            /\ missed' = missed \union
                 {why \in {"dropped", "failed"} :
                    /\ m \notin bound[Top.env] /\ ~InProgress(m, Top.env)
                    /\ (why = "dropped") = (m \in gone[Top.env])}
            /\ UNCHANGED <<marks, bound, envs, status, loads, reads, gone>>
       ELSE /\ Room
            /\ marks' = [marks EXCEPT ![Top.env] = @ \union {m}]
            /\ stack' = Append(here, Load(m, Top.env))
            /\ UNCHANGED <<bound, envs, status, loads, reads, gone, missed>>

\* A syntax error, or an incomplete expression at the end of the file.  The
\* error callback of a nested interpreter throws into the builtin that is
\* reading the file; that of the program exits, that of the REPL draws.
ParseError ==
  /\ Reading
  /\ IF Depth > 1 THEN Failed(ReaderBelow)
     ELSE Top.left > 0 /\ Failed(stack)

EndOfFile ==
  /\ Reading
  /\ IF Depth = 1 THEN stack' = << >> /\ status' = "done"
     ELSE /\ stack' = IF Below[Depth - 1].kind = "load" THEN Below ELSE Advance(Below)
          /\ UNCHANGED status
  /\ UNCHANGED <<marks, bound, envs, loads, reads, gone, missed>>

(***************************************************************************)
(* modules_c::load_module, after the mark.                                 *)
(***************************************************************************)

\* get_module_path, then the module file is read into an environment of its
\* own, from which only the settings are taken.
Locate ==
  /\ Loads("locate")
  /\ \/ Failed(Below)
     \/ /\ Room /\ envs < MaxEnvs
        /\ envs' = envs + 1
        /\ stack' = Append([stack EXCEPT ![Depth].pc = "library"],
                           Reader("module", Top.of, envs'))
        /\ loads' = [loads EXCEPT ![<<Top.env, Top.of>>] = Once(@)]
        /\ UNCHANGED <<marks, bound, status, reads, gone, missed>>

\* load_dylib, and the check that there is anything to load.
LoadLibrary ==
  /\ Loads("library")
  /\ LET nothing == Top.of \notin Libraries /\ Sources[Top.of] = << >> IN
     \/ (Top.of \in Libraries \/ nothing) /\ Failed(Below)
     \/ /\ ~nothing /\ envs < MaxEnvs
        /\ envs' = envs + 1
        /\ stack' = [stack EXCEPT ![Depth] = [@ EXCEPT !.pc = "sources", !.own = envs',
                                                       !.todo = Sources[Top.of]]]
        /\ UNCHANGED <<marks, bound, status, loads, reads, gone, missed>>

\* Mutant of NextSource: the file read is not taken off the list.
NextSourceAgain ==
  /\ Loads("sources") /\ Top.todo # << >>
  /\ \/ Failed(Below)
     \/ /\ Room
        /\ stack' = Append(stack, Reader("source", Head(Top.todo), Top.own))
        /\ UNCHANGED <<marks, bound, envs, status, loads, reads, gone, missed>>

NextSource ==
  /\ Loads("sources") /\ Top.todo # << >>
  /\ \/ Failed(Below)
     \/ /\ Room
        /\ stack' = Append([stack EXCEPT ![Depth].todo = Tail(@)],
                           Reader("source", Head(Top.todo), Top.own))
        /\ UNCHANGED <<marks, bound, envs, status, loads, reads, gone, missed>>

\* Mutant of Bind: the module's cell is set before its sources are read.
BindFirst ==
  /\ Loads("sources")
  /\ \/ /\ Top.of \notin bound[Top.env]
        /\ bound' = [bound EXCEPT ![Top.env] = @ \union {Top.of}]
        /\ UNCHANGED stack
     \/ /\ Top.todo = << >> /\ UNCHANGED bound
        /\ stack' = [stack EXCEPT ![Depth] = [@ EXCEPT !.pc = "post", !.todo = Posts[Top.of]]]
  /\ UNCHANGED <<marks, envs, status, loads, reads, gone, missed>>

Bind ==
  /\ Loads("sources") /\ Top.todo = << >>
  /\ bound' = [bound EXCEPT ![Top.env] = @ \union {Top.of}]
  /\ stack' = [stack EXCEPT ![Depth] = [@ EXCEPT !.pc = "post", !.todo = Posts[Top.of]]]
  /\ UNCHANGED <<marks, envs, status, loads, reads, gone, missed>>

\* Post actions run in the environment of the interpreter.
NextPost ==
  /\ Loads("post") /\ Top.todo # << >>
  /\ \/ Failed(Below)
     \/ /\ Room
        /\ stack' = Append([stack EXCEPT ![Depth].todo = Tail(@)],
                           Reader("post", Head(Top.todo), Top.env))
        /\ UNCHANGED <<marks, bound, envs, status, loads, reads, gone, missed>>

Loaded ==
  /\ Loads("post") /\ Top.todo = << >>
  /\ stack' = Advance(Below)
  /\ UNCHANGED <<marks, bound, envs, status, loads, reads, gone, missed>>

Init ==
  /\ stack = << Reader("main", "main", 0) >>
  /\ marks = [e \in Env |-> {}] /\ bound = [e \in Env |-> {}]
  /\ envs = 0 /\ status = "run"
  /\ loads = [p \in Env \X Modules |-> 0]
  /\ reads = [p \in Env \X Files |-> 0]
  /\ gone = [e \in Env |-> {}] /\ missed = {}

Work == \/ Execute \/ Throw \/ Drop \/ Import \/ Use \/ ParseError \/ EndOfFile
        \/ Locate \/ LoadLibrary \/ NextSource \/ Bind \/ NextPost \/ Loaded

Ended == status \in {"done", "exit"} /\ UNCHANGED vars

Next == Work \/ Ended

\* One thread, and nothing it waits for.
Spec == Init /\ [][Next]_vars /\ WF_vars(Work)

(***************************************************************************)
(* Properties.                                                             *)
(***************************************************************************)
Readers == [kind : {"main", "import", "module", "source", "post"}, of : Texts,
            env : Env, left : 0..MaxLen, trying : BOOLEAN]

\* Every variable has its type, and the innermost record below a load is the
\* interpreter that executes the `use'.
TypeOK ==
  /\ \A i \in DOMAIN stack :
       IF stack[i].kind = "load"
       THEN /\ i > 1 /\ stack[i - 1] \in Readers /\ stack[i - 1].env = stack[i].env
            /\ stack[i].of \in Modules /\ stack[i].own \in Env
       ELSE stack[i] \in Readers
  /\ marks \in [Env -> SUBSET Modules] /\ bound \in [Env -> SUBSET Modules]
  /\ envs \in Env /\ status \in {"run", "done", "exit"} 
  /\ gone \in [Env -> SUBSET Modules] /\ missed \subseteq {"dropped", "failed"}
  /\ loads \in [Env \X Modules -> 0..2] /\ reads \in [Env \X Files -> 0..2]

\* "Mark as loaded immediately so that we don't try to load it again": however
\* imports, post actions and failures nest, a module is loaded into one
\* environment at most once.
LoadedOnce == \A p \in Env \X Modules : loads[p] <= 1

\* Nothing ever sees a half-loaded module: while its sources are being read,
\* or after they failed, its name is not bound.
BoundIsComplete ==
  \A i \in DOMAIN stack :
    stack[i].kind = "load" /\ stack[i].pc # "post" => stack[i].of \notin bound[stack[i].env]

\* Whatever files fail to parse, throw or are missing, reading a program whose
\* imports and modules are not circular comes to an end.
LoadingEnds == <>(status \in {"done", "exit"})

\* "... and cause a recursion issue": no module is loaded as part of its own
\* loading.
NoRecursion ==
  \A i, j \in DOMAIN stack :
    i < j /\ stack[i].kind = "load" /\ stack[j].kind = "load" => stack[i].of # stack[j].of

\* "Check that the item hasn't already been imported": into one environment
\* a file is imported once.
ImportedOnce == \A p \in Env \X Files : reads[p] <= 1

\* "A user can load and drop modules as they see fit": a module that was dropped
\* is there again after the next `use'.
UseAfterDrop == "dropped" \notin missed

\* The same of a module whose loading failed before.
UseAfterFailure == "failed" \notin missed
=============================================================================
