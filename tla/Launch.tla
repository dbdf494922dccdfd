------------------------------- MODULE Launch -------------------------------
(***************************************************************************)
(* What `nibi' does with a command line: the options, the directories they *)
(* add, the platform (platform.cpp), the target or the REPL or the tests   *)
(* that are run (app.cpp), and how a running program finds what it imports *)
(* (platform_c::locate_file).                                              *)
(*                                                                         *)
(* A program is what it does to this machinery: it imports files, ends,    *)
(* fails or exits; what it computes is the subject of the other modules.   *)
(* Printed text is kept where an outcome can be told by nothing else.      *)
(***************************************************************************)
EXTENDS Paths, FiniteSets

CONSTANTS
  Words,      \* what a command line is made of
  PathOf,     \* the path a word names
  DirsOf,     \* the directories a word lists, separated by `:'
  Disks,      \* the directory trees nibi may find
  Homes,      \* the environments: [nibi |-> NIBI_PATH, home |-> HOME], or NoPath
  NibiFiles,  \* the file names that end in .nibi
  Wanted,     \* the paths programs import
  ExitCodes,  \* the exit statuses that come of what programs give to `exit'
  MaxWords,   \* bound: the words of a command line
  MaxOpen     \* bound: files importing one another

Help    == {"-h", "--help", "-v", "--version"}
NoStd   == {"-n", "--no-std"}
Test    == {"-t", "--test"}
Info    == {"-m", "--module"}
Include == {"-i", "--include"}
Options == Help \union NoStd \union Test \union Info \union Include

NoWord == ""

ASSUME LaunchAssumption ==
  /\ Words \subseteq STRING /\ NoWord \notin Words
  /\ PathOf \in [Words -> Path] /\ DirsOf \in [Words -> Seq(Path)]
  /\ \A d \in Disks : IsFiniteSet(DOMAIN d) /\ DOMAIN d \subseteq Seq(STRING) /\ InDirectories(d)
  /\ Homes \subseteq [nibi : Path, home : Path]
  /\ Wanted \subseteq Path \ {NoPath} /\ ExitCodes \subseteq Nat
  /\ NibiFiles \subseteq STRING /\ MaxWords \in Nat /\ MaxOpen \in Nat

\* The names in the code are strings (which the provers have to be told).
ASSUME LiteralsAreStrings ==
  {".nibi", "config.nibi", "main.nibi", "mod.nibi", "modules", "tests", "line_interpreter"}
    \subseteq STRING

VARIABLES
  disk, environ, args,   \* given
  pc,          \* "start", "options", "launch", "tests", "module", "read", "done"
  pos,         \* the word main looks at
  target,      \* launch_target, or the value of -t or -m
  wantStd,     \* main's use_std
  useStd,      \* program_data_controller_c::use_std_
  includes,    \* include_dirs
  mode,        \* what is run: "none", "target", "repl", "tests" or "info"
  found,       \* the directory of the module whose mod.nibi is being read
  tests, at,   \* run_each_test: the files, and the one being run
  todo,        \* what the file interpreter has been given and not begun to read
  open,        \* the files being read, each imported by the one before
  search,      \* locate_file: the path it has arrived at, or Idle
  passed,      \* "All tests passed!" was printed
  code,        \* the exit code, or Running
  completed,   \* history: the tests that were read to their end
  located      \* history: what was asked of locate_file last, and its answer

given == <<disk, environ, args>>
opts  == <<pos, wantStd, mode, target>>
data  == <<useStd, includes>>
tst   == <<found, tests, at>>
files == <<todo, open>>
past  == <<completed, located>>

vars == <<disk, environ, args, pc, pos, target, wantStd, useStd, includes, mode, found,
          tests, at, todo, open, search, passed, code, completed, located>>

Running == -1
Idle    == [k |-> -1, path |-> NoPath, wanted |-> NoPath, from |-> NoPath]
Asked(w, from) == [k |-> 0, path |-> w, wanted |-> w, from |-> from]
Terminal == [abs |-> FALSE, parts |-> <<"line_interpreter">>]

\* platform_c: NIBI_PATH, or the file .nibi in the home directory
NibiPath ==
  LET dot == Within(environ.home, ".nibi")
  IN IF environ.nibi # NoPath THEN environ.nibi
     ELSE IF Exists(disk, environ.home) /\ IsFile(disk, dot) THEN dot ELSE NoPath
Config == Within(NibiPath, "config.nibi")

Init ==
  /\ disk \in Disks /\ environ \in Homes
  /\ args \in UNION {[1 .. n -> Words] : n \in 0 .. MaxWords}
  /\ pc = "start" /\ pos = 1 /\ target = NoWord /\ wantStd = TRUE
  /\ useStd = TRUE /\ includes = << >> /\ mode = "none" /\ found = NoPath
  /\ tests = << >> /\ at = 0 /\ todo = << >> /\ open = << >> /\ search = Idle
  /\ passed = FALSE /\ code = Running
  /\ completed = {} /\ located = Idle

\* program_data_controller_c::reinit_platform, before and after a module's tests
Reinit(dirs) ==
  /\ useStd' = (useStd /\ NibiPath # NoPath)
  /\ includes' = IF useStd' THEN Append(dirs, NibiPath) ELSE dirs

Construct ==
  /\ pc = "start" /\ pc' = "options" /\ Reinit(includes)
  /\ UNCHANGED <<given, opts, tst, files, search, passed, code, past>>

\* Mutant of Exit: return without a value.
ExitUnset(n) == pc' = "done" /\ code' = code

Exit(n) == pc' = "done" /\ code' = n

------------------------------------------------------------------------------
(* main: one pass over the words                                            *)

Word   == args[pos]
AtWord == pc = "options" /\ pos <= Len(args)

ShowHelp ==
  /\ AtWord /\ Word \in Help /\ Exit(0)
  /\ UNCHANGED <<given, opts, data, tst, files, search, passed, past>>

OptionNoStd ==
  /\ AtWord /\ Word \in NoStd
  /\ wantStd' = FALSE /\ pos' = pos + 1
  /\ UNCHANGED <<given, pc, mode, target, data, tst, files, search, passed, code, past>>

MissingValue ==
  /\ AtWord /\ Word \in Test \union Info \union Include /\ pos = Len(args)
  /\ Exit(1)
  /\ UNCHANGED <<given, opts, data, tst, files, search, passed, past>>

\* Mutant of OptionInclude: getline is called once.
OptionIncludeOne ==
  /\ AtWord /\ Word \in Include /\ pos < Len(args)
  /\ includes' = Append(includes, Head(DirsOf[args[pos + 1]])) /\ pos' = pos + 2
  /\ UNCHANGED <<given, pc, mode, target, wantStd, useStd, tst, files, search, passed, code, past>>

OptionInclude ==
  /\ AtWord /\ Word \in Include /\ pos < Len(args)
  /\ includes' = includes \o DirsOf[args[pos + 1]] /\ pos' = pos + 2
  /\ UNCHANGED <<given, pc, mode, target, wantStd, useStd, tst, files, search, passed, code, past>>

\* the program returns when run_tests or show_module_info has
OptionTest ==
  /\ AtWord /\ Word \in Test /\ pos < Len(args)
  /\ includes' = Append(includes, Cwd)
  /\ mode' = "tests" /\ target' = args[pos + 1] /\ pc' = "tests"
  /\ UNCHANGED <<given, pos, wantStd, useStd, tst, files, search, passed, code, past>>

OptionInfo ==
  /\ AtWord /\ Word \in Info /\ pos < Len(args)
  /\ includes' = Append(includes, Cwd)
  /\ mode' = "info" /\ target' = args[pos + 1] /\ pc' = "module"
  /\ UNCHANGED <<given, pos, wantStd, useStd, tst, files, search, passed, code, past>>

OtherWord ==
  /\ AtWord /\ Word \notin Options
  /\ target' = IF target = NoWord THEN Word ELSE target
  /\ pos' = pos + 1
  /\ UNCHANGED <<given, pc, wantStd, mode, data, tst, files, search, passed, code, past>>

OptionsRead ==
  /\ pc = "options" /\ pos > Len(args)
  /\ useStd' = (useStd /\ wantStd) /\ pc' = "launch"
  /\ UNCHANGED <<given, opts, includes, tst, files, search, passed, code, past>>

\* start_repl: the prelude imports the configuration into the line interpreter
StartRepl ==
  /\ pc = "launch" /\ target = NoWord
  /\ pc' = "read" /\ mode' = "repl" /\ open' = <<Terminal>>
  /\ search' = IF useStd THEN Asked(Config, Terminal) ELSE Idle
  /\ UNCHANGED <<given, pos, wantStd, target, data, tst, todo, passed, code, past>>

\* run_from_file: a file interpreter reads the configuration, then the file
Begin(file) ==
  /\ pc' = "read" /\ open' = << >>
  /\ todo' = IF useStd THEN <<Config, file>> ELSE <<file>>

IncludesExist == \A i \in DOMAIN includes : IsDir(disk, includes[i])

RefuseTarget ==
  /\ pc = "launch" /\ target # NoWord
  /\ ~ Exists(disk, PathOf[target]) \/ ~ IncludesExist
  /\ Exit(1)
  /\ UNCHANGED <<given, opts, data, tst, files, search, passed, past>>

Entry ==
  LET whole == Canonical(PathOf[target])
  IN IF IsDir(disk, whole) \/ ~ HasParent(whole) THEN whole ELSE Parent(whole)

\* run_from_dir does nothing where there is no main.nibi
RunTarget ==
  /\ pc = "launch" /\ target # NoWord
  /\ Exists(disk, PathOf[target]) /\ IncludesExist
  /\ includes' = Append(includes, Entry) /\ mode' = "target"
  /\ LET main == Within(PathOf[target], "main.nibi")
     IN \/ IsFile(disk, PathOf[target]) /\ Begin(PathOf[target]) /\ UNCHANGED code
        \/ /\ IsDir(disk, PathOf[target]) /\ Exists(disk, main)
           /\ Begin(main) /\ UNCHANGED code
        \/ /\ IsDir(disk, PathOf[target]) /\ ~ Exists(disk, main)
           /\ Exit(0) /\ UNCHANGED files
  /\ UNCHANGED <<given, pos, wantStd, target, useStd, tst, search, passed, past>>

------------------------------------------------------------------------------
(* run_tests, show_module_info                                              *)

\* directory_iterator promises no order
Orders(S) == {s \in [1 .. Cardinality(S) -> S] : \A f \in S : \E i \in DOMAIN s : s[i] = f}

\* run_each_test
RunEach(S) ==
  \/ S = {} /\ Exit(0) /\ UNCHANGED <<tests, at, files>>
  \/ S # {} /\ tests' \in Orders(S) /\ at' = 1 /\ Begin(tests'[1]) /\ UNCHANGED code

\* run_local_tests_dir
RunLocal(dir) ==
  LET there == Within(dir, "tests")
  IN RunEach(IF IsDir(disk, there) THEN FilesIn(disk, there) ELSE {})

IsApp    == IsFile(disk, Within(PathOf[target], "main.nibi"))
Module   == LET p == PathOf[target] IN IF Exists(disk, p) THEN Canonical(p) ELSE p
IsModule == IsFile(disk, Within(Module, "mod.nibi"))

TestApp ==
  /\ pc = "tests" /\ IsApp
  /\ includes' = Append(includes, PathOf[target]) /\ RunLocal(PathOf[target])
  /\ UNCHANGED <<given, opts, useStd, found, search, passed, past>>

TestModule ==
  /\ pc = "tests" /\ ~ IsApp /\ IsModule
  /\ includes' = includes \o (IF HasParent(Module) THEN <<Parent(Module)>> ELSE << >>) \o <<Module>>
  /\ RunLocal(Module)
  /\ UNCHANGED <<given, opts, useStd, found, search, passed, past>>

TestInstalled ==
  /\ pc = "tests" /\ ~ IsApp /\ ~ IsModule /\ pc' = "module"
  /\ UNCHANGED <<given, opts, data, tst, files, search, passed, code, past>>

\* platform_c::locate_directory
Places == [i \in DOMAIN includes |-> Join(includes[i], PathOf[target])] \o
          (IF NibiPath = NoPath THEN << >>
           ELSE <<Join(Within(NibiPath, "modules"), PathOf[target])>>)
LocatedDir(dir) ==
  \E i \in DOMAIN Places :
    /\ dir = Places[i] /\ IsDir(disk, dir)
    /\ \A j \in 1 .. i - 1 : ~ IsDir(disk, Places[j])

\* get_module_path throws; run_tests and show_module_info print why and return
NoModule ==
  /\ pc = "module" /\ found = NoPath
  /\ ~ \E i \in DOMAIN Places : LocatedDir(Places[i]) /\ IsFile(disk, Within(Places[i], "mod.nibi"))
  /\ Exit(0)
  /\ UNCHANGED <<given, opts, data, tst, files, search, passed, past>>

FindModule ==
  /\ pc = "module" /\ found = NoPath
  /\ \E i \in DOMAIN Places :
       LocatedDir(Places[i]) /\ IsFile(disk, Within(Places[i], "mod.nibi")) /\ found' = Places[i]
  /\ UNCHANGED <<given, pc, opts, data, tests, at, files, search, passed, code, past>>

\* get_module_info: mod.nibi does not parse (caught), fails or exits, or has
\* an entry of another type than expected (caught by nobody)
BadModule ==
  /\ pc = "module" /\ found # NoPath
  /\ \E n \in {0, 1, 134} \union ExitCodes : Exit(n)
  /\ UNCHANGED <<given, opts, data, tst, files, search, passed, past>>

ShowInfo ==
  /\ pc = "module" /\ found # NoPath /\ mode = "info" /\ Exit(0)
  /\ UNCHANGED <<given, opts, data, tst, files, search, passed, past>>

\* the tests of an installed module are its .nibi files
ModuleTests ==
  LET there == Within(found, "tests")
  IN {f \in FilesIn(disk, there) : f.parts[Len(f.parts)] \in NibiFiles}
RunInstalled ==
  /\ pc = "module" /\ found # NoPath /\ mode = "tests"
  /\ \/ /\ IsDir(disk, Within(found, "tests"))
        /\ RunEach(ModuleTests) /\ UNCHANGED data
     \/ /\ ~ IsDir(disk, Within(found, "tests"))
        /\ Exit(0) /\ Reinit(includes) /\ UNCHANGED <<tests, at, files>>
  /\ UNCHANGED <<given, opts, found, search, passed, past>>

------------------------------------------------------------------------------
(* Programs                                                                 *)

Reading == pc = "read" /\ search = Idle
File    == open[Len(open)]
InRepl  == mode = "repl" /\ Len(open) = 1

\* interpret_file
OpenFile ==
  /\ Reading /\ todo # << >> /\ open = << >>
  /\ IF Exists(disk, Head(todo))
     THEN open' = <<Head(todo)>> /\ todo' = Tail(todo) /\ UNCHANGED <<pc, code>>
     ELSE Exit(1) /\ UNCHANGED files
  /\ UNCHANGED <<given, opts, data, tst, search, passed, past>>

\* import; Locate finds the file or not
Import(w) ==
  /\ Reading /\ open # << >> /\ Len(open) < MaxOpen
  /\ search' = Asked(w, File)
  /\ UNCHANGED <<given, pc, opts, data, tst, files, passed, code, past>>

Answer(p) ==
  /\ search' = Idle /\ located' = [search EXCEPT !.path = p]
  /\ open' = IF p = NoPath THEN open ELSE Append(open, p)

\* locate_file: beside the importing file
Beside == LET dir == Parent(search.from)
          IN IF HasParent(search.from) /\ IsDir(disk, dir)
             THEN Join(Canonical(dir), search.wanted) ELSE NoPath

\* Mutant of Trial: the include directories are searched from the last.
TrialBackwards ==
  CASE search.k = 0 -> search.path
    [] search.k \in 1 .. Len(includes) -> Join(includes[Len(includes) + 1 - search.k], search.path)
    [] search.k > Len(includes) -> Join(NibiPath, search.path)

\* the next place to look in, and what file_path becomes there
Trial ==
  CASE search.k = 0 -> search.path
    [] search.k \in 1 .. Len(includes) -> Join(includes[search.k], search.path)
    [] search.k > Len(includes) -> Join(NibiPath, search.path)
LastPlace == IF NibiPath = NoPath THEN Len(includes) ELSE Len(includes) + 1

LocateBeside ==
  /\ pc = "read" /\ search.k = 0 /\ IsFile(disk, Beside) /\ Answer(Beside)
  /\ UNCHANGED <<given, pc, opts, data, tst, todo, passed, code, completed>>

Locate ==
  /\ pc = "read" /\ search # Idle /\ (search.k = 0 => ~ IsFile(disk, Beside))
  /\ search.k <= LastPlace
  /\ IF IsFile(disk, Trial) THEN Answer(Trial)
     ELSE /\ search' = [search EXCEPT !.k = @ + 1, !.path = Trial]
          /\ UNCHANGED <<open, located>>
  /\ UNCHANGED <<given, pc, opts, data, tst, todo, passed, code, completed>>

\* import throws; the program may catch it, or fail (FileFails)
NotLocated ==
  /\ pc = "read" /\ search # Idle /\ search.k > LastPlace
  /\ Answer(NoPath)
  /\ UNCHANGED <<given, pc, opts, data, tst, todo, passed, code, completed>>

\* an imported file has been read, or does not parse and its importer catches that
ImportEnds ==
  /\ Reading /\ Len(open) > 1
  /\ open' = SubSeq(open, 1, Len(open) - 1)
  /\ UNCHANGED <<given, pc, opts, data, tst, todo, search, passed, code, past>>

\* the configuration, and indicate_complete
ConfigEnds ==
  /\ Reading /\ Len(open) = 1 /\ mode # "repl" /\ todo # << >>
  /\ open' = << >>
  /\ UNCHANGED <<given, pc, opts, data, tst, todo, search, passed, code, past>>

\* the program; then the next test, or the end
ProgramEnds ==
  /\ Reading /\ Len(open) = 1 /\ todo = << >>
  /\ IF mode = "tests"
     THEN /\ completed' = completed \union {at}
          /\ IF at < Len(tests) THEN at' = at + 1 /\ Begin(tests[at + 1]) /\ UNCHANGED <<passed, code>>
             ELSE Exit(0) /\ passed' = TRUE /\ UNCHANGED <<at, files>>
     ELSE Exit(0) /\ UNCHANGED <<completed, at, files, passed>>
  /\ UNCHANGED <<given, opts, data, found, tests, search, located>>

\* Mutant of FileFails: the error callback draws and returns: the next test is run.
FileFailsReturns ==
  /\ Reading /\ open # << >>
  /\ IF mode = "tests" /\ at < Len(tests)
     THEN at' = at + 1 /\ Begin(tests[at + 1]) /\ UNCHANGED <<passed, code>>
     ELSE Exit(0) /\ passed' = (mode = "tests") /\ UNCHANGED <<at, files>>
  /\ UNCHANGED <<given, opts, data, found, tests, search, past>>

\* error_callback_function exits; the REPL's draws, and what it has imported
\* is left, or the imported file's interpreter exits (halt_with_error)
FileFails ==
  /\ Reading /\ open # << >>
  /\ \/ Exit(1) /\ ~ InRepl /\ UNCHANGED open
     \/ mode = "repl" /\ open' = <<Terminal>> /\ UNCHANGED <<pc, code>>
  /\ UNCHANGED <<given, opts, data, tst, todo, search, passed, past>>

ProgramExits ==
  /\ Reading /\ open # << >> /\ \E n \in ExitCodes : Exit(n)
  /\ UNCHANGED <<given, opts, data, tst, files, search, passed, past>>

Done == pc = "done" /\ UNCHANGED vars

Next ==
  \/ Construct \/ ShowHelp \/ OptionNoStd \/ MissingValue \/ OptionInclude \/ OptionTest
  \/ OptionInfo \/ OtherWord \/ OptionsRead \/ StartRepl \/ RefuseTarget \/ RunTarget
  \/ TestApp \/ TestModule \/ TestInstalled \/ NoModule \/ FindModule \/ ShowInfo \/ BadModule
  \/ RunInstalled \/ OpenFile \/ (\E w \in Wanted : Import(w)) \/ LocateBeside \/ Locate
  \/ NotLocated \/ ImportEnds \/ ConfigEnds \/ ProgramEnds \/ FileFails \/ ProgramExits \/ Done

Spec == Init /\ [][Next]_vars

------------------------------------------------------------------------------
(* Properties                                                               *)

\* Every variable has its type; there is an exit code when nothing runs any more.
TypeOK ==
  /\ pc \in {"start", "options", "launch", "tests", "module", "read", "done"}
  /\ mode \in {"none", "target", "repl", "tests", "info"}
  /\ pos \in Nat \ {0} /\ target \in Words \union {NoWord}
  /\ wantStd \in BOOLEAN /\ useStd \in BOOLEAN /\ includes \in Seq(Path)
  /\ found \in Path /\ tests \in Seq(Path) /\ at \in Nat /\ completed \subseteq Nat
  /\ todo \in Seq(Path) /\ open \in Seq(Path) /\ passed \in BOOLEAN
  /\ search \in [k : Int, path : Path, wanted : Path, from : Path]
  /\ located \in [k : Int, path : Path, wanted : Path, from : Path]
  /\ code \in Int /\ (pc = "done" <=> code # Running)

\* "All tests passed!" is printed only when every test file that was found has
\* been read to its end, whatever failed, exited or was imported on the way.
PassMeansAllRan ==
  /\ passed => mode = "tests" /\ tests # << >> /\ completed = DOMAIN tests /\ code = 0
  /\ \A i \in completed : i \in DOMAIN tests

\* the words that are values of an option
IsValue[i \in Nat] ==
  i > 1 /\ args[i - 1] \in Include \union Test \union Info /\ ~ IsValue[i - 1]
Given(S)    == {i \in DOMAIN args : args[i] \in S /\ ~ IsValue[i]}
NoStdGiven  == Given(NoStd) # {}

GivenDirs[n \in Nat] ==
  IF n = 0 THEN << >>
  ELSE GivenDirs[n - 1]
       \o (IF n \in Given(Include) /\ n < Len(args) THEN DirsOf[args[n + 1]] ELSE << >>)

\* A program runs with the directories of the command line, in its order, between
\* the nibi path and its own, and all of them exist.
TargetSeesItsDirectories ==
  mode = "target" /\ pc = "read" =>
    /\ includes = (IF NibiPath = NoPath THEN << >> ELSE <<NibiPath>>)
                  \o GivenDirs[Len(args)] \o <<Entry>>
    /\ IncludesExist

\* The places locate_file goes through (platform.cpp:75-118), each joined to the
\* wanted path itself.  The order is the code's, not the documented one (below):
\* reinit_platform has put the nibi path at the head of the include directories.
SearchOrder(from, w) ==
  (IF HasParent(from) THEN <<Join(Canonical(Parent(from)), w)>> ELSE << >>)
  \o <<w>> \o [i \in DOMAIN includes |-> Join(includes[i], w)]
  \o (IF NibiPath = NoPath THEN << >> ELSE <<Join(NibiPath, w)>>)
FirstThat(S, s) == {s[i] : i \in {j \in DOMAIN s : s[j] \in S /\ \A l \in 1 .. j - 1 : s[l] \notin S}}
FilesOf(s)      == {p \in {s[i] : i \in DOMAIN s} : IsFile(disk, p)}

\* locate_file joins each place to what the attempts before left in file_path, not
\* to the wanted path (platform.cpp:102).  Where the include directories are
\* absolute, this may hide a file but never yields another one than the first in
\* the code's own order: no attempt finds a file under a place it has not been given.
NeverTheWrongFile ==
  located.path # NoPath =>
    LET c == SearchOrder(located.from, located.wanted)
    IN FirstThat(FilesOf(c), c) = {located.path}

\* The places of docs/LANGUAGE.md:370-372 (Import), in that order: the launch
\* directory, the directories of -i, the nibi path.
Documented(w) ==
  LET dirs == GivenDirs[Len(args)]
  IN <<Join(Cwd, w)>> \o [i \in DOMAIN dirs |-> Join(dirs[i], w)]
     \o (IF NibiPath = NoPath THEN << >> ELSE <<Join(NibiPath, w)>>)

\* Does not hold: an import that is not immediately present, beside the importing
\* file, and that the documented places have, is the first of theirs.  The code has
\* the nibi path in front of the directories of -i (app.cpp:78).
FoundWhereDocumented ==
  LET d == Documented(located.wanted)
      present == HasParent(located.from)
                 /\ IsFile(disk, Join(Canonical(Parent(located.from)), located.wanted))
  IN mode = "target" /\ located.path # NoPath /\ ~ present /\ FilesOf(d) # {} =>
       FirstThat(FilesOf(d), d) = {Canonical(located.path)}

\* Does not hold: file_path keeps what the last include directory made of it.
IncludeDirsSearched ==
  located # Idle /\ located.path = NoPath =>
    LET c == SearchOrder(located.from, located.wanted)
    IN \A i \in DOMAIN c : ~ IsFile(disk, c[i])

\* Does not hold: -t and -m after the target are obeyed (app.cpp, "now we assume
\* that the rest will be arguments to the program").
TargetRuns ==
  mode \in {"tests", "info"} =>
    \E i \in DOMAIN args : \A j \in 1 .. i : args[j] \in Options \/ IsValue[j]

\* Does not hold: tests are run with the configuration although -n was given.
NoStdInTests == NoStdGiven /\ pos > 1 /\ mode = "tests" => Config \notin {todo[i] : i \in DOMAIN todo}

\* Does not hold: ~/.nibi is used if it is a regular file, not if it is a directory.
HomeDirectoryUsed ==
  LET dot == Within(environ.home, ".nibi")
  IN environ.nibi = NoPath /\ IsDir(disk, dot) => NibiPath = dot

\* Does not hold: a module that is not found, or a test that exits, yields 0 too.
ZeroMeansPassed == mode = "tests" /\ code = 0 => passed
==============================================================================
