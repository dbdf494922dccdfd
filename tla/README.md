# Verification of the nibi interpreter

nibi is a small Lisp whose programs are trees of mutable cells. Its interpreter (C++, `src/nibi`) is a recursive
evaluator with no garbage collector, no tasks and no locks; what makes it hard is *nesting*: a builtin evaluates
a cell, which calls any other builtin, which may return early, throw, defer work, end a function from far inside
it, load a module through a nested interpreter, or change the very cell being evaluated. Four private stacks and
one "yield value" have to survive all of that. The modules here model that control, the environments, cells,
dictionaries and memory programs share, the way text becomes instructions and macros are expanded, and what the
`nibi` command does with its options, paths and tests; TLC checks them on small instances and TLAPS proves the
core properties for all of them.

All source paths below are relative to `src/nibi/lib/libnibi` unless they begin with `src/`.

## 1. The system

| component | state | operations | interacts with |
|---|---|---|---|
| intake and parser (`front/intake.*`, `src/nibi/app/repl/repl.cpp`) | the REPL's line buffer and bracket tracker; `tokens_`, three bracket stacks | `submit`, `read`, `read_line`, `process_line`, `process_token`, the functions of `parser_c` | hands each instruction to the interpreter; reports syntax errors to a callback that exits (program), returns (REPL) or throws (nested file) |
| interpreter core (`interpreter/interpreter.*`, control builtins in `common.cpp`, `excepts.cpp`, `lambdas.cpp`) | `call_stack_`, `ctxs_` with their deferred instructions, `yield_value`, the exception in flight | `instruction_ind`, `process_cell`, `handle_list_cell`, `push_ctx`/`pop_ctx`, `defer_execution`, `halt_with_error`, `fn` calls, `loop`, `if`, `try`, `throw`, `defer`, `<-`, `exit` | everything |
| environments (`environment.*`, `environment_modifiers.cpp`) | one map per environment, the parent pointer, `loaded_modules_` | `get`, `set`, `drop`, `get_env`; `:=`, `fn`, `drop`, calls, blocks, `$e` | functions keep a pointer to the environment they were defined in |
| cells and lists (`cell.*`, `list_commands.cpp`) | a heap of reference-counted cells; lists hold references | `clone`, `update_from`, `:=`, `set`, `exchange`, `drop`, push/pop/at/spawn/split, `iter` | shared by environments, lists, instructions |
| modules and imports (`modules.*`, `front/file_interpreter.hpp`, `import`/`use`) | `loaded_modules_` marks, bound modules, source managers | `import`, `use`, `load_module`, dropping a module | one nested interpreter per file, on the same C++ stack |
| memory builtins (`builtins/memory.cpp`) | addresses in pointer cells, the C heap | `mem-new`, `mem-del`, `mem-cpy`, `mem-load` | integer cells |
| integers (`cell.hpp`, `arithmetic.cpp`, `converters.cpp`) | type tag and a 64-bit union | constructors, `as_integer`, `to_string`, conversions, `+ - * / %`, comparisons | cells, memory |
| dictionaries and aliases (`environment_modifiers.cpp`, `cell.*`) | a FAUX function with an environment of its own that maps `$data` to a table; entries and aliases hold cells | `dict`, `:let`, `:get`, `:del`, `alias`, `:=`, `set`, `drop`; `~cell_c` | the reference counts of cells |
| macros and eval (`common.cpp`) | a macro's `$params` and `$body`; the text being assembled | `macro`, calls of macros, `assemble_macro`, `eval` | a parser and a catcher of its own; the interpreter executes what was caught |
| application and test runner (`src/nibi/app/app.cpp`) | options, include directories, target, the tests found and run | `main`, `run_from_file`, `run_each_test`, `run_tests`, `show_module_info` | makes the platform, the module factory and a file interpreter |
| platform and paths (`platform.*`) | the nibi path, the include directories | `locate_file`, `locate_directory`, the constructor | asked by `import`, `use` and the application |
| bit operations, strings, floating point | in cells | not modelled (section 8) | |
| external calls, dynamic libraries, terminal, native modules, standard library, build | I/O, vendored or generated code, or programs in the language itself | not modelled (section 8) | |

`PROJECT.json` lists every component with its files and its status, and every hazard we know of with the
line where it bites.

**What is hard.** There is one thread (a mutex guards one counter), nothing is persisted and no message is
sent, so no interleaving, crash recovery or delivery problem exists *between* actors. The hazards come from
re-entrancy, and from paths that leave a function in an unusual way:

* early returns and exceptions that skip the matching pop (`loop` never pops its context,
  `handle_list_cell` does not pop the call stack when a callee throws, `try` pops "the top" whatever it is);
* work that runs while a flag set for something else is up (deferred instructions run while the yield value
  is set; the recovery cell of a `try` too);
* marks set before the work they announce (`loaded_modules_`), and checks made against the wrong copy
  (the source manager that `import` asks);
* pointers whose target may be gone: a function's environment, a cell updated from its own content, an
  address cloned into a second cell;
* raw pointers kept while a value is computed: the table a `:let` will store into, the item `iter` is at,
  and second owners of an environment that the destructor of a dictionary deletes;
* a loop that ends only if what it inserts cannot match again (macro assembly);
* state carried from one attempt to the next: `locate_file` joins each directory to what the last one left;
* success that is the absence of an exit: a failing test never returns to `run_each_test`;
* an error callback that returns in the REPL into code written for one that does not.

**What makes each component correct.** Core: no pop takes what another active call needs; calls are
balanced; a deferred instruction runs once, in order, in its environment, by the end of its context; a yield
ends exactly its own call. Modules: loaded once per environment, never visible half-loaded, loading ends.
Intake: what is written is what is executed, and only non-programs are rejected. Environments: static scope,
cells shared only by arguments, `$e` confined to its recovery. Cells: programs cannot tell the graph of
references from plain values. Memory: no dangling address, and what is loaded is what was stored. Dictionaries:
a count is the number of holders, and what is there is what can be reached. Macros: replacing ends and
gives what the body stands for; a text is executed whole or not at all. Application: a program runs with the
directories it was given, an import finds no wrong file, a reported pass means that every test ran.

## 2. The modules

| module | what it is | code |
|---|---|---|
| `Interpreter` | the core: `frames` is the C++ stack, `callStack`, `ctxs`, `yield`, `status` the interpreter's private state | `interpreter.cpp`, control builtins |
| `DeferContract` | abstract: what the language reference promises of `defer` | `src/docs/LANGUAGE.md` section on `defer`, through the code's push/pop |
| `InterpreterContexts` | refinement mapping from `Interpreter` to `DeferContract` | |
| `InterpreterProofs`, `LoadingProofs`, `ScopesProofs`, `MemoryProofs`, `LaunchProofs`, `IntakeProofs`, `MacrosProofs` | TLAPS proofs about the module each is named after; the first also proves that `Interpreter` implements `DeferContract` | |
| `Foundations` | what several of them rest on: induction and recursion on numbers, counting, and the proofs about `Parser` | |
| `Loading`, `MCLoading` | nested interpreters, marks and bindings; the import graphs for TLC | `modules.cpp`, `file_interpreter.hpp`, `import`, `use`, `drop` |
| `Parser` | the functions of `parser_c` over tokens, by call depth, and the language on its own | `front/intake.cpp` |
| `Intake` | lines, REPL buffer, lexer and token buffer, over `Parser` | `front/intake.cpp`, `repl.cpp`, `app.cpp` |
| `Scopes` | environments, the cells bound in them, calls, blocks, tries | `environment.*`, `environment_modifiers.cpp`, `lambdas.cpp`, `excepts.cpp` |
| `Values` | abstract: variables hold nested lists *by value* | |
| `Cells` | the heap of references, implementing `Values` | `cell.*`, `list_commands.cpp`, assignments |
| `Numbers` | integer cells: type, bits, conversion, arithmetic at scaled-down widths | `cell.hpp`, `arithmetic*`, `converters.cpp` |
| `Memory`, `MCMemory` | the memory builtins, over `Numbers` | `memory.cpp` |
| `Tables` | abstract: variables, aliases and dictionaries that exist as long as something reaches them | |
| `Dicts` | reference counts, destructors, environments of dictionaries, implementing `Tables` | `environment_modifiers.cpp`, `cell.*`, `ref.hpp` |
| `Macros`, `MCMacros` | macro assembly character by character, `eval`, over `Parser`; the macros and texts for TLC | `common.cpp` |
| `Paths` | paths, directory trees, joining, canonical paths | `std::filesystem` as the code uses it |
| `Launch`, `MCLaunch` | options, platform, target, REPL, tests, module information, over `Paths`; trees and command lines for TLC | `app.cpp`, `platform.cpp`, `modules.cpp` |

How they compose: `Interpreter` leaves cells abstract (any cell a program can hold may be met whenever one is
processed); `Scopes` and `Cells` look at the data it leaves out, one instruction a step; `Loading` stacks
interpreters and leaves their ordinary instructions abstract; `Intake` feeds them, and `Launch` decides which
files they read with which directories. `Memory` EXTENDS `Numbers`, `Intake` and `Macros` EXTEND `Parser`,
`Launch` EXTENDS `Paths`; `InterpreterContexts`, `Cells` and `Dicts` instantiate the abstract module they
implement.

### From code to actions

*Interpreter.* A frame is a C++ activation: a builtin, a data list being walked, a list operator being
computed, or a `pop_ctx` in progress. Its `pc` is the place it continues at, so "process this cell" is: store
the return address, then `ProcessAtom`, `ProcessYielding` or `ProcessList` (`HandleList`, `CallFunction`).
Each builtin that touches the private state has its own actions (`LambdaEnter/Pop/Return`, `LoopTest`,
`LoopBodyDone`, `IfTest`, `TryPop`, `Catch`, `DeferNext`, `YieldReturn`, `ExitNow` ...); every other builtin
is `prim`, which evaluates some cells and returns or throws. C++ exceptions are raised by `Raise` and unwind
one frame at a time (`Unwind`) to the nearest `try` (`Catch`, which `std_exception` passes by), `pop_ctx`
(`DeferredFailed`) or `instruction_ind` (`InstructionFailed`). `HaltWithError` exits, or only draws in the
REPL, and execution goes on, as in the code. Environments are named by the frame that owns them.

*Loading.* One record per nested interpreter and one per `load_module` in progress, whose `pc` walks through
locate, library, sources, bind and post actions. Any instruction may throw, any file may fail to parse.

*Intake.* Text is a sequence of items (a token, the beginning of a malformed token, a comment mark). `Submit`
is the REPL's `input_buffer_c::submit`, `NextLine` the reader of a file, `Lex` one step of `process_line`,
`ProcessToken` hands complete token lists to `Parse`. After an error the parser goes on as the code does when
the callback returns, nullptr elements included. The functions of `parser_c` call one another; `Calls(t)[d]` is what
each gives from each position when calls nest at most `d` deep, so that `Calls` is a recursive function of a
number. `Parse` takes `MaxCalls(t)`, three times the number of tokens, for `d`; no program needs more
(`ParsesPrograms`, section 6).

*Scopes.* An environment is a position on the C++ stack, a function the position its pointer means. `Throw`
destroys the environments inside the nearest `try`, binds `$e` with `env.set` and processes the recovery.

*Cells.* Variables and list items refer to cells of a heap; each action is one instruction, with the clones
the builtin makes. `Values` has the same actions on plain nested sequences. `iter` binds a name to the items
themselves, one after another (`IterSet`: its body sets each; `IterPush`: it pushes onto another list).

*Dicts.* An expression yields a variable's cell or an entry, and each builtin is one action; `:let` is two, for
its value is computed in between by any instructions, other `:let`s included (`waiting`), or throws
(`AbortLet`). Everything a builtin lets go of goes to `released`, and `Destroy` is one decrement: a count
that reaches zero runs the destructor, which releases what the cell held and deletes a dictionary's environment.
No instruction begins until `released` is empty, as in the code. `broken` says that a freed cell was touched.

*Macros.* `Call` checks the number of arguments and turns to the first parameter; `SkipEscaped`, `Replace` and
`NextParam` are the turns of the inner and the outer loop of `assemble_macro`; `Evaluate` runs lexer and parser
over the text with a catcher; `Execute` and `Return` are the loop over what was caught. Texts are sequences over
the constant `Characters`, which has at least the characters the code looks at.

*Launch.* `Construct` is the platform's constructor; each `Option...` is one turn of the loop over the words; then
`RefuseTarget`, `RunTarget`, `StartRepl`, or the tests of an application, a local or an installed module. A file
being read imports (`Import`), ends, fails (`FileFails`, the error callback that exits) or exits; `Trial` is
the path that `locate_file` tries next, and `Locate` one attempt, with the `file_path` it leaves behind.

*Memory and Numbers.* A cell is a type tag and the bits of the union. `Cell` writes as many bits as the type
has and zeroes the rest, `AsInteger` reads them all, `Printed` reads the type's own: the three disagree for
negative numbers of narrow types, as in the code. Freed blocks are reused, unwritten bytes are any bytes.

## 3. The runs

There are twelve, one of which expects a violation. Deadlock is checked in all but `memory`, where a division
trapped by the processor really ends the process.

| run | question | bounds |
|---|---|---|
| `interp_repl` | Do the call stack and the context stack keep what every active call needs when *everything* is allowed? | all builtins, both kinds of exception, both unusual habits, REPL; call depth limit 3 (the limit is reached), 3 frames, 3 contexts, 1 deferred instruction |
| `interp_defer` | Are deferred instructions executed once, in order, in scope, by the end of their context (`DeferContract`)? | functions and tries, two deferred instructions, 4 frames, 4 contexts |
| `interp_yield` | Does `<-` end exactly its own call, and always? | functions, loops, ifs, tries; 4 frames, 5 contexts |
| `interp_early_return` | *violation:* an early return skips deferred instructions | 1 deferred instruction |
| `loading` | Is each module loaded once per environment, never visible half-loaded; does loading end? | 5 files, 2 modules, one with a library, sources that use modules, a post action; 3 instructions per file, every failure |
| `intake` | Is exactly what is written executed, and only non-programs rejected? | all texts of up to 5 items, split into lines in every way, file and REPL |
| `scopes` | Static scope; cells shared by arguments only; `$e` confined? | 2 names, 4 cells, 3 environments at a time, 4 in all |
| `cells` | Do programs see values, although lists hold references and `iter` binds the items themselves? | 2 variables, lists of up to 2 items nested 3 deep, 6 cells |
| `memory` | Do mem-del and mem-cpy leave nothing dangling; is what is loaded what was stored? | bytes of one bit, types of 2 and 3 bytes, 2 blocks, 2 pointers, literals -1, 0, 2 |
| `launch` | Does a program see the directories it was given, does an import find no wrong file, does a pass mean that all tests ran? | all command lines of up to 4 of 11 words, 3 directory trees, NIBI_PATH or ~/.nibi, 2 files importing one another, exit codes 0 and 3 |
| `dicts` | Is a dictionary there as long as it is reached and no longer, whatever happens while a `:let` computes its value? | 2 variables, 1 key, 2 numbers (both symmetric), 5 cells, 2 environments, 2 `:let`s in each other |
| `macros` | Does replacing end and give what the body stands for; is a text executed whole or not at all? | up to 2 parameters, bodies of up to 2 elements of up to 3 words, 3 arguments; all texts of up to 4 characters, many of 5 |

**Why the bounds are enough.** A frame relates to the two stacks only through the sizes it saw when it was
entered, and the hazards are about a frame, one it calls and one *that* calls: three frames. A call depth limit
of 3 lets leftover entries of caught exceptions fill the stack and the limit trip. `interp_defer` needs a
function in a try with a deferred instruction that itself calls a function: four. Two instructions tell order.
For `loading`, the interesting case is a file that uses what its importer uses, a source that uses a module in
an environment of its own, and a post action that uses what is being loaded; all are in `MCLoading`. Five items
are the shortest texts with a list inside a list, `((x))`, wrong nesting across kinds and a trailing token, in
every split. For `cells` a list in a list in a variable and a second variable is the smallest place where a
missing clone shows; lengths of two tell push-front from push-back. `memory` needs widths where narrow and wide
differ by one bit: every value of every type is reached. In `launch` the longest command line that matters gives
an option its value, a second option and a target; the trees differ in what is missing (a test directory, a
configuration, a `main.nibi`) and in where `lib.nibi` lies, so that every attempt of `locate_file` succeeds on
some tree and fails on another. In `dicts` two cells make a dictionary and a third an alias or an entry: five
cells hold two dictionaries that share an entry, or a dictionary with its copy and a value in between; two
nested `:let`s let the inner one drop, replace or delete what the outer has looked up. In `macros` every word
can be a marker, a marker that is escaped, two side by side, or one whose name is longer; texts of four
characters have every error of nesting, and instructions after and before it. All bounds are cuts on growth (no
new frame above the bound); nothing in the code is forced to return by them. Every property has a mutant of the
modelled code, listed in `PROJECT.json`, that TLC refutes at the same bounds, so that none is out of reach of
its bounds.

**Fairness.** Weak fairness of `Machine` (and of `Work` in `Loading`): there is one thread, it never waits,
and between two instructions the program, not the machine, decides. Strong fairness of `PrimReturn` and
`LambdaEnter` says that argument lists are finite: a call does not evaluate arguments for ever. It is strong
because evaluating an argument disables both until it returns. Loops are *not* assumed to end; `YieldReturns`
holds because a set yield value ends them. `LoadingEnds` needs only that files are finite
(`MaxLen`) and that the imports of `MCLoading` are not circular. `Macros` has weak fairness of `Assemble`: the one
thread does nothing else until the text is assembled. The other modules state no liveness and assume none.

## 4. What the passing runs show

* `CallEntriesStay`, `ContextsStay` (`interp_repl`; proved): whatever mixture of exceptions, yields, leaked
  contexts and errors drawn in the REPL, an active call's entry is never popped by another, the interpreter's
  own context outlives every instruction, and no pop meets an empty stack. Leaks only ever make the stacks
  *longer*. `CallsBalanced`, `ContextsBalanced`: without exceptions (and, for contexts, loops) nothing leaks at
  all.
* `ImplementsContract`, `DeferredAtMostOnce`, `DeferredByContextEnd`, `DeferredInScope` (`interp_defer`): for
  programs with functions and tries, `defer` does what the language reference says.
* `YieldEndsItsCall`, `YieldReturns` (`interp_yield`): the one global yield value behaves as if each call had
  its own, for yields outside function arguments.
* `LoadedOnce`, `BoundIsComplete` (proved), `LoadingEnds` (`loading`): however imports, uses, drops, post
  actions and failures nest, a module is loaded into an environment once and never visible half-loaded.
* `RunsWhatIsWritten`, `ErrorsDeserved` (`intake`; proved): until an error is reported, the lexer's and the parser's
  buffers hold what was typed, with nothing lost, repeated or reordered; and a report always has a reason.
* `ScopeIsStatic`, `OnlyArgumentsShared`, `ErrorStaysInside` (`scopes`), for functions that do not outlive the
  environment they were defined in.
* `HeldOnce`, `ImplementsValues` (`cells`): the heap refines plain values, also while `iter` changes the items
  of one list and grows another.
* `NothingDangles`, `LoadsWhatWasStored` (`memory`), for programs that do not copy a pointer into a second
  variable.
* `PassMeansAllRan` (`launch`; proved): "All tests passed!" is printed, and the exit code is 0, only after every
  test file found was read to its end, whatever the tests import, throw or exit with.
  `TargetSeesItsDirectories`: the nibi path, the directories of all `-i` in their order, the program's own, and
  all exist. `NeverTheWrongFile` (proved) is about the `file_path` that `locate_file` overwrites at every
  attempt: with absolute include directories, whatever it finds is the first that `SearchOrder` has, the *code's*
  places (beside the importing file, the path as it is, the include directories with the nibi path at their head,
  the nibi path), each joined to the wanted path itself. The documented order is another one and is not kept
  (`FoundWhereDocumented`, section 5).
* `CountsAgree`, `NothingLeaks`, `ImplementsTables` (`dicts`): counts are holders at every decrement, between
  instructions everything there can be reached, every dictionary's environment has one owner; and the heap
  refines `Tables`, where there are neither counts nor destructors. For programs that do not `set` a dictionary
  or an alias and do not put a dictionary into itself.
* `AllOrNothing` (proved), `AssembledAsMeant` (`macros`): no instruction of a text with an error is executed; assembly
  always ends, in what simultaneous replacement of the markers gives, for arguments that contain no marker and
  parameters of which none begins with an earlier one.

## 5. Where code and documentation disagree

The violation run `interp_early_return` has its quotation in `PROJECT.json`: an early return skips deferred
instructions (`src/docs/LANGUAGE.md:806`). The other disagreements are in the table.

Restrictions of the passing runs are there because the property fails without them. To reproduce, change the
cfg as said and check the property:

| property | change | what happens |
|---|---|---|
| `DepthLimitMeansDepth` | `interp_repl`, Ops prim, try, throw | caught exceptions leave entries on the call stack until the depth limit is "reached" |
| `DeferredByContextEnd` | `interp_defer` with `loop`, with `if`, or with `try` and `throw` | the context is never popped; popped before the branch runs; or another one is popped |
| `DeferredAtMostOnce` | `interp_defer` with `loop` in a deferred instruction | `pop_ctx` pops the loop's context and leaves its own, to be run again |
| `DeferredInScope` | `interp_defer` with `if` | deferred in a branch, run by an outer context |
| `ImplementsContract` | habit `nested_defer` | an instruction deferred by a deferred one is dropped with the context (`pop_ctx` walks a copy) |
| `YieldEndsItsCall` | habit `yield_in_arg` | the callee's return resets it |
| `YieldEndsWithInstruction` | `<-` outside functions | later cells evaluate to the old value |
| `RecoveryExecutes` | try, throw and yield | the recovery cell is skipped while a yield value is set |
| `UseAfterDrop`, `UseAfterFailure` | `loading` | `use` returns at once although the module is not there (compare `modules.cpp:16`) |
| `NoRecursion` | `loading`, two modules that use each other | they are loaded without end: the guard at `modules.cpp:191` looks at the marks of one environment, and each nested load has its own |
| `ImportedOnce` | `loading` | "Check that the item hasn't already been imported" (`common.cpp:195`) asks another source manager than the one that read the file |
| `RunsGrammatical`, `FreshBetweenEntries` | `intake`, Modes {"repl"} | after a reported error nullptr elements are executed; tokens of the bad entry stay |
| `RunsWhatIsWritten` | `intake`, Spaced FALSE | the REPL glues the end of a line to the next |
| `AssignsHere` | `scopes` | `:=` updates an outer variable (`src/docs/LANGUAGE.md:35` says immediate environment) |
| `ScopeIsStatic` | `scopes`, Escapes TRUE | a function returned out of its environment runs in whatever is there |
| `ErrorPresent` | `scopes` | a `try` inside a recovery takes the outer `$e` away (`src/docs/LANGUAGE.md:391`) |
| `NothingBroken` | `cells`, SelfSets TRUE | `update_from` frees the content before it reads it; `iter` walks a list that is pushed to by its body with iterators of before |
| `IncludeDirsSearched` | `launch` | a directory after an absolute one is never searched, and under it after a relative one (`platform.cpp:102`; `src/docs/LANGUAGE.md:371`) |
| `FoundWhereDocumented` | `launch` | `src/docs/LANGUAGE.md:368-372` searches the launch directory, the directories of `-i` in their order and the nibi path last; `reinit_platform` (`app.cpp:78`) puts the nibi path in front of all `-i` directories, also with `-n`: with NIBI_PATH `/n`, `nibi run.nibi -n -i app` imports `/n/lib.nibi` although there is `/w/app/lib.nibi`. On this instance the order differs only where there are both a nibi path and an `-i` |
| `TargetRuns` | `launch` | `-t` and `-m` after the target are obeyed (compare the comment at `src/nibi/app/app.cpp:348`) |
| `NoStdInTests` | `launch` | `-n` is forgotten when tests are run: the configuration is read |
| `ZeroMeansPassed` | `launch` | a module that is not found, and a test that calls `exit`, end with 0 without a pass |
| `HomeDirectoryUsed` | a tree with a directory `~/.nibi` | only a *regular file* of that name is taken as the nibi path (`platform.cpp:41`) |
| `CountsAgree`, `NothingLeaks` | `dicts`, Careless TRUE | `set` to a dictionary gives its environment two owners and leaks another; `set` to an alias counts nothing (`cell.hpp:437-477`) |
| `NothingLeaks` | `dicts`, Knots TRUE | a dictionary that contains itself is never freed |
| `AssembledAsMeant` | `macros`, an argument with the word `%a` | replaced without end, or replaced into, where the docs say "1-for-1" |
| `AssembledAsMeant` | `macros`, parameters `a`, `ab` | `%ab` becomes the argument of `a` and a `b` |
| `ComputedAsPrinted` | `memory` | `(lt (i8 -1) 0)` is 0 |
| `NothingDangles` | `memory`, Aliases TRUE, or Odd <- OddCells | the other variable keeps the address; `mem-cpy` of a char frees before it throws |

Three more observations. A copy of a dictionary shares its table with the original
(`cell.cpp:224`), although `cell.hpp:344` says "Deep copy the cell"; `Tables` says so too. `\%param` keeps its
backslash in the assembled text, which the example in the docs drops; `Meant`, and so `AssembledAsMeant`, follows
the code in this. Elements of a macro's body are joined
without a blank, so a word and a word next to each other become one; and strings are written back with quotes
but without escapes (`cell.cpp:314`).

## 6. What is proved

No theorem bounds the depth of a stack, the number of files, modules, names, cells, pointers or blocks, the
width of an integer, the length of a command line or of a text: they cover instances far beyond TLC's. The assumptions are
the named ASSUMEs of the modules (the constants have their types) and, where a theorem says so, the restriction
of the run that checks the same property.

| theorem | property | for programs, or constants, with |
|---|---|---|
| `TypeCorrect`, `CallEntriesSafe`, `ContextsSafe` (`InterpreterProofs`) | `TypeOK`, `CallEntriesStay`, `ContextsStay` | everything |
| `CallStackEmpties`, `ContextStackEmpties` | `CallsBalanced`, `ContextsBalanced` | everything (the properties are about runs without exceptions, the second about programs without loops) |
| `NothingIsThrown` | no exception is ever raised | builtins that do not throw, no `throw`, fewer frames than the depth limit |
| `YieldEndsOnlyItsCall` | `YieldEndsItsCall` | the same; no `<-` in an argument, no computed operator |
| `NoDeferredTwice` | nothing deferred runs twice until an exception is thrown | no loop |
| `DeferredOnce` | `DeferredAtMostOnce` | no loop, nothing that throws |
| `ContextsImplementContract` | `ImplementsContract` | no loop, no yield, nothing that throws, no deferred instruction that defers in the context that is ending |
| `OwedUntilThrown`, `InScopeUntilThrown` | the next two, up to the first exception | as the next two, but anything may throw |
| `OwedByContextEnd` | `DeferredByContextEnd` | no loop, no if, no yield, nothing that throws, no deferred instruction that defers in the context that is ending |
| `DeferredWhereItWas` | `DeferredInScope` | no loop, no if, nothing that throws |
| `LoadsOnce`, `BoundComplete`, `LoadingTypes` (`LoadingProofs`) | `LoadedOnce`, `BoundIsComplete`, `TypeOK` | every import graph, circular ones included |
| `ScopesTyped`, `CellsUnshared`, `ErrorsStayInside` (`ScopesProofs`) | `TypeOK`, `OnlyArgumentsShared`, `ErrorStaysInside` | everything, functions that outlive their environment included |
| `ScopingIsStatic` | `ScopeIsStatic` | `~Escapes` |
| `MemoryTyped`, `LoadsBack` (`MemoryProofs`) | `TypeOK`, `LoadsWhatWasStored` | everything, careless programs and shared pointers included |
| `NoDanglingPointers` | `NothingDangles` | `~Aliases`, `Odd = {}` |
| `PassedTestsRan`, `LaunchTyped`, `TargetSees` (`LaunchProofs`) | `PassMeansAllRan`, `TypeOK`, `TargetSeesItsDirectories` | every command line, directory tree and environment |
| `NoWrongFile` | `NeverTheWrongFile`, in the code's order of places | `AbsoluteGiven`: NIBI_PATH, HOME and `-i` give absolute paths |
| `ParseReads` (`Foundations`) | what `Parse` gives without an error is a program that begins the tokens | every sequence of tokens |
| `ParsesPrograms` | `Parse` reports no error for a program | every program, however deeply nested |
| `IntakeTyped` (`IntakeProofs`) | `TypeOK` | everything |
| `TextIsRun`, `ErrorsAreDeserved` | `RunsWhatIsWritten`, `ErrorsDeserved` | `Spaced`: the lines of an instruction end in a blank |
| `MacrosTyped`, `EvalAllOrNothing` (`MacrosProofs`) | `TypeOK`, `AllOrNothing` | every macro, argument and text |

**`InterpreterProofs`.** The inductive invariant is `IInv == TypeOK /\ CallEntriesStay /\ ContextsStay /\
Anchored`. The two `Stay` properties compare each frame's need with the size of the stack *and* with the sizes
every frame above it saw on entry. The second half makes the first inductive: when the top frame returns, the
one below gets back a stack at least as long as when it called. `Anchored` says that every frame found at least
one context when it was entered, except the destructor's own `pop_ctx`. Without it frames that need nothing of
their own (a primitive, a walked list) would allow the context stack to be empty below them, and `ContextsStay`
says that it never is before the program is done. There is one lemma per action; lemmas about the *shape* of a
step (`Keeps...`: a prefix of the frames is left as it was, at most one new frame lies on it) are proved once,
so that an action's lemma argues about its own frame only.

*Balance.* Emptiness between instructions is not inductive. `Balanced` has the inequalities of `IInv`
as *equalities*: as long as nothing was thrown, every frame found on the two stacks exactly what the frames
below it hold (`CallsExact`, and without loops `CtxsExact`), and a yield value that is set names the innermost
body (`YieldsMeet`). Between two instructions there is no frame, so nothing can be left. An exception needs one
of the sources in `ThrowSources`; the depth limit is one, and the equality bounds the call stack by the number
of frames.

*Deferred instructions.* `OnceInv` adds where every deferred instruction *is*: identifiers are distinct (`IdsDistinct`);
what waits in a context that is not ending has not run (`Waiting`); what is left of the list of a `pop_ctx`
belongs to the context it ends and has not run (`PopsRemain`). It needs `Balanced`, which says that the context
`pop_ctx` ends is its frame's own. The refinement is a step simulation: `Shows` relates the two stacks to the
abstract scopes, the lemmas `Shows...` say what pushing, deferring, beginning to end, executing and ending do
to it, and each action of the interpreter is an action of `DeferContract` or a stutter (`OrderlyNext`).
Where a deferred instruction goes is a matter of environments, which the contract has not: `Placed` says that each
frame was entered in the environment of the cell below it (`Chained`), that a context holds what was deferred in
the environment of the frame that owns it (`InPlace`), that a `pop_ctx` has got only such instructions
(`PopsFit`), and that what a frame owes has been executed, is in its context or is in the hands of its `pop_ctx`
(`OwesKept`). `defer` keeps it because the context on top is the one of the innermost frame that has any, with
nothing above that changes the environment (`ChainUp`, `LevelUp`, `DeferFits`, `DeferOwner`). An `if` pops its
context before it runs its branch, and a `loop` never does, so both are outside; section 5 shows what happens.

**`LoadingProofs`.** The invariant is `Typed /\ Marked`. `Typed` strengthens `TypeOK` by the shape of the stack
(`Well`): a load lies on the interpreter that executes its `use`, and every interpreter below the top still has
the instruction to finish it is in the middle of; this is what an exception unwinds to. `Marked` says what the
mark of `load_module` means: an unmarked module has neither been loaded nor bound and no load of it is in
progress, at most one load of a module into an environment is in progress, it has not been counted before it was
located, and its name is not bound before its sources were read. `LoadedOnce` alone is not inductive: a second
load in progress could count again. Steps fall into three shapes, each with its lemma: an instruction ends or
fails (`AdvanceStep`, `FailedStep`), a file is begun (`ReadStep`), the innermost load goes on (`MarkedMoved`);
only `UseStep` starts a load.

**`ScopesProofs`.** `IInv` says, beside types: two names that are not parameters have different cells, and `$e`
has one of its own (`Unshared`, `ErrorApart`); `$e` is bound only where the frame is a recovery
(`ErrorsInside`); a cell that nothing names holds nothing (`Unnamed`), so that one used again brings no old
function along. For static scope every environment that holds a function is the one it was defined in or lies inside
it (`Local`): then its position still means that environment when it is called, and a call in progress sees what
the function remembers (`Static`). Every action is one of three changes of the environments
(a name is bound, names and inner environments are dropped, one is entered), each with its lemma.

**`MemoryProofs`.** `LoadsBack` is arithmetic. `Stepped` cuts a number at a byte; from it the partial sums of
`Decoded` are remainders, by induction on the bytes (`RoundTrip`). `SameBytes` says that reading the union as an
int64_t, which for a negative number of a narrow type is another number, leaves the lower bytes alone, since
Bytes(8) is a multiple of Bytes(n) (`Wider`); so what mem-cpy writes is right although what it reads is not
(`StoredBack`). `MemoryTyped` needs that a remainder fits the type of its left operand: `NarrowRead` says that
what is read of a narrow type is not negative, `RemainderFacts` that a remainder of such a number is not
greater. The invariant `MInv` says of each block what was stored in it. For `NoDanglingPointers`: that no two
pointers share a block is needed to see that a free clears no other pointer's block, and that every set
pointer's block is in use is needed to see that malloc hands out none of them: the two conjuncts of the property
support each other (`FreedFacts`, `Allocated`).

**`LaunchProofs`.** A directory tree is finite, for `run_each_test` runs an *order* of the files it finds, and
only a finite set has one whose last element is reached (`FilesFinite`, `OrderLength`); it has the directory
that holds each thing it has, the root included (`InDirectories`); exit codes are numbers and the literals of
options strings (`LiteralsAreStrings`). `RInv` adds to `PassMeansAllRan` what happens before: nothing is
completed and nothing is said before files are read; while tests are read exactly those before `at` are
completed. `TInv` is `TypeOK` with the shape of a search. `FInv` says of a search in progress which places were
tried and that `file_path` is what they left behind (`Looking`): with absolute directories every attempt after
the first include directory asks for the same file again, which is not there. For `TargetSees`,
`GivenDirs` and `IsValue` read the command line *as a whole*, recursively; `DInv` says that at word `pos` the
include directories are what they give up to there, and that `pos` is never at an option's value.

**`Foundations`.** Induction, and that what is defined from the number before exists: the library states both with
an operator as a parameter, which the provers cannot instantiate; here they are about sets and functions
(`Induction`, `Recursion`), and follow from the well-foundedness of `<`. Then the parser. `ParseReads` is soundness,
by induction on the depth of calls: `Reads` says what a function that reports no error has done (from its position
on it has read a part of the tokens, its cell is that part, and if the innermost list open there admits it, the
lists open after it are those before it, or for `scan` all but the one it closes); `GivesReads` has one lemma per
function of `parser_c`. `ParsesPrograms` is the converse, and needs more than its own statement: inside a program
(`WithinProgram`) and called where its construct is due (`Starts`), with enough calls left for the tokens that
follow (`Enough`), a function gives a cell without an error (`Fine`). That is an induction over the depth again;
each call takes a token, or is one of at most three at the same position, so three calls a token suffice. The last
part is about tokens that wait until no parenthesis is open, shared by the next two modules: as long as one is, they
are no program (`UnclosedIsNoProgram`), so what is then parsed is *one* complete list (`ReadWhole`).

**`IntakeProofs`.** `RunsWhatIsWritten` is not inductive: it says nothing of the stacks that decide when to parse.
The invariant adds that a parenthesis is open after each of the tokens that wait (`TokensKept`, with `AlwaysOpen`),
that until an error the three stacks have as many brackets as those tokens leave open and what was executed is a
program (`Kept`), and how the parts of the REPL go together (`Flow`: while a line is lexed the buffer is empty and
the tracker zero, and the tracker counts the parentheses of all that was given). Every token is then one of three
cases: it waits; it is parsed, and `ReadWhole` makes all that waited one instruction, or by `ParsesPrograms` there
was no program; or it closes a bracket none of whose kind is open, and then what was given begins no program,
since in a program no bracket is closed more often than it is opened. A text ends too early only if a parenthesis is still
open. `Spaced` is needed because the REPL otherwise glues two lines into other tokens (section 5).

**`MacrosProofs`.** While a text runs, what was executed, what waits and some `rest` that was given up are together
what the catcher had of it, and the text had no error (`Running`); in every other state nothing has been executed. `Holds` is
the same induction over tokens as in `IntakeProofs`, for a text read at once: the instructions caught and the
tokens that wait are the tokens so far. So what was executed begins the text (`FlattenConcat`), and each
instruction is one of those caught. `TypeOK` needs that `found` is where `Find` has found the marker in the text as
it is *now*: `TurnIs` gives it for the text after each replacement, not for the one before.

## 7. Only model-checked

Liveness (`YieldReturns`, `LoadingEnds`, `AssembledAsMeant`), which the prover cannot do: that assembly ends and
gives `Meant` is checked for the macros of `MCMacros` only. The refinements `ImplementsValues` and
`ImplementsTables`, and the invariants of `Cells` and `Dicts` (`TypeOK`, `HeldOnce`, `CountsAgree`, `NothingLeaks`):
`Values`, `Cells`, `Tables` and `Dicts` walk nested data with RECURSIVE operators, which the provers cannot reason
about.

## 8. Not modelled

* `interpreter_c::terminate`: nothing in the repository calls it. `isolate` of a nested intake is never set.
* In `Interpreter`: what builtins without control of their own compute; rewriting of an instruction whose
  operator is an alias or a list; how often arguments are evaluated.
* In `Intake`: strings that contain brackets or `#`, positions for messages, what characters of a literal mean.
* In `Scopes`: variadic functions; `alias`, dictionaries and macros are in modules of their own. Access lists
  and visibility (`{a b}` paths into modules) are only the control they have in `Interpreter`.
* In `Cells`: strings, `:args`; a negative index; updating a cell from itself or its own content, and `iter`
  over the list its body pushes to, are only flagged (`SelfSets`). In `Dicts`: `:keys` and `:vals`, which make
  lists.
* In `Macros`: strings, numbers and line ends in texts; `quote`, which is `to_string`. A macro called by an
  instruction of another has a text of its own and is not nested here.
* In `Memory` and `Numbers`: strings, floating point, char, bit operations, powers.
* In `Launch`: what is printed, except that the tests passed; the REPL's history file; paths with `.`, `..` or
  links; rights. Nested interpreters share the platform but are in `Loading`.
* Vendored or generated code (linenoise, rang, RLL, completions), dynamic libraries and
  libffi, terminal input, the native modules, the library written in nibi itself, build scripts: I/O or
  constants of the models.

## 9. The plan

Done, in this order: `Interpreter` and its proofs; `DeferContract` and its refinement; `Loading`; `Parser`,
`Intake`; `Scopes`; `Values`, `Cells`; `Numbers`, `Memory`; the proofs about `Loading` and `Memory`; `Paths`,
`Launch`; `Tables`, `Dicts`; `Macros`; `iter` in `Cells`; the proofs about `Launch`; balance, yields and the refinement of
`DeferContract`; `Scopes`; the arithmetic of `Memory`; where and when `Interpreter` executes what is deferred; the
parser for texts of every length, and with it `Intake` and `Macros`.

Next, extending the model:
1. Rewriting of an instruction whose operator is an alias or a list, and arguments that are evaluated twice: both
   make the second execution of an instruction differ from the first.
2. Index arithmetic of `at` and `iter` (a negative index on an empty list never ends).
3. Access lists and visibility; variadic functions in `Scopes`.
4. Strings and floating point in `Memory`; bit operations in `Numbers`.

Next, proving more:
1. `Dicts`: `CountsAgree`. It needs `Tables` and `Dicts` without RECURSIVE operators, with what can be reached from a
   variable defined as a union over the lengths of paths.
2. `Cells`: `HeldOnce`, in the same way.
