---------------------------- MODULE LaunchProofs ----------------------------
(***************************************************************************)
(* What nibi does with a command line, for every command line, directory   *)
(* tree, environment and program: "All tests passed!" is printed only      *)
(* after every test file has been read to its end; every variable has its  *)
(* type; a program runs with the directories the command line lists; and   *)
(* an import never yields another file than the first that is there.       *)
(***************************************************************************)
EXTENDS Launch, Foundations

\* The tests before the one being run are those that were read to their end.
Ordered == Len(tests) \in Nat \ {0} /\ DOMAIN tests = 1 .. Len(tests)

RInv ==
  /\ disk \in Disks
  /\ pc \in {"start", "options", "launch", "tests", "module"} => completed = {}
  /\ \/ pc \in {"start", "options", "launch", "tests", "module", "read"} /\ passed = FALSE
     \/ pc = "done" /\ PassMeansAllRan
  /\ pc = "tests" => mode = "tests"
  /\ pc = "read" /\ mode # "tests" => completed = {}
  /\ pc = "read" /\ mode = "tests" => Ordered /\ at \in 1 .. Len(tests) /\ completed = 1 .. at - 1

------------------------------------------------------------------------------
(* Files and their orders *)

\* What a directory holds is finite, for a disk is.
LEMMA FilesFinite == ASSUME disk \in Disks, NEW dir PROVE IsFiniteSet(FilesIn(disk, dir))
<1> DEFINE parts == Canonical(dir).parts
           R == {r \in DOMAIN disk :
                   Len(r) > 0 /\ SubSeq(r, 1, Len(r) - 1) = parts /\ disk[r] = "file"}
           T == {Within(dir, q[Len(q)]) : q \in R}
           f == [q \in R |-> Within(dir, q[Len(q)])]
<1>1. IsFiniteSet(R) BY FS_Subset, LaunchAssumption
<1>2. f \in Surjection(R, T) BY Zenon DEF Surjection
<1>3. IsFiniteSet(T) BY <1>1, <1>2, FS_Surjection
<1>4. FilesIn(disk, dir) = T BY DEF FilesIn
<1>5. QED BY <1>3, <1>4

\* An order of some files is a sequence with an end.
LEMMA OrderLength ==
  ASSUME NEW S, IsFiniteSet(S), S # {}, NEW s \in Orders(S)
  PROVE  Len(s) \in Nat \ {0} /\ DOMAIN s = 1 .. Len(s)
<1>1. Cardinality(S) \in Nat \ {0} BY FS_CardinalityType, FS_EmptySet
<1>2. s \in [1 .. Cardinality(S) -> S] BY DEF Orders
<1>3. s \in Seq(S) BY <1>1, <1>2, SeqDef
<1>4. Len(s) \in Nat /\ DOMAIN s = 1 .. Len(s) BY <1>3, LenProperties
<1>5. Len(s) # 0 BY <1>1, <1>2, <1>4
<1>6. QED BY <1>4, <1>5

------------------------------------------------------------------------------
(* Steps *)

LEMMA InitRInv == Init => RInv
BY DEF Init, RInv

\* A step that runs nothing, or leaves the program that is run where it was.
LEMMA Elsewhere ==
  ASSUME RInv, UNCHANGED <<disk, mode, tests, at, completed, passed>>,
         \/ pc' = pc
         \/ /\ pc \notin {"read", "done"} /\ pc' \in {"options", "launch", "module"},
         pc = "done" => code' = code
  PROVE  RInv'
BY DEF RInv, PassMeansAllRan, Ordered

\* The program ends without having passed.
LEMMA Ended ==
  ASSUME RInv, pc # "done", pc' = "done", UNCHANGED <<disk, mode, tests, at, completed, passed>>
  PROVE  RInv'
BY DEF RInv, PassMeansAllRan, Ordered

\* A program begins that is no test.
LEMMA Started ==
  ASSUME RInv, pc = "launch", pc' = "read", mode' \in {"repl", "target"},
         UNCHANGED <<disk, completed, passed>>
  PROVE  RInv'
BY DEF RInv

\* run_each_test
LEMMA RunEachStep ==
  ASSUME RInv, pc \in {"tests", "module"}, NEW S, IsFiniteSet(S), RunEach(S),
         mode = "tests", UNCHANGED <<disk, mode, completed, passed>>
  PROVE  RInv'
<1>1. CASE S = {}
  <2>1. pc' = "done" /\ UNCHANGED <<tests, at>> BY <1>1 DEF RunEach, Exit
  <2>2. QED BY <2>1, Ended
<1>2. CASE S # {}
  <2>1. pc' = "read" /\ at' = 1 /\ tests' \in Orders(S) BY <1>2 DEF RunEach, Begin
  <2>2. Ordered' BY <1>2, <2>1, OrderLength DEF Ordered
  <2>3. 1 \in 1 .. Len(tests') /\ 1 .. 1 - 1 = {} BY <2>2 DEF Ordered
  <2>4. completed = {} /\ passed = FALSE BY DEF RInv
  <2>5. QED BY <2>1, <2>2, <2>3, <2>4 DEF RInv
<1>3. QED BY <1>1, <1>2

LEMMA RunLocalStep ==
  ASSUME RInv, pc = "tests", NEW dir, RunLocal(dir), UNCHANGED <<disk, mode, completed, passed>>
  PROVE  RInv'
<1> DEFINE there == Within(dir, "tests")
           S == IF IsDir(disk, there) THEN FilesIn(disk, there) ELSE {}
<1>1. IsFiniteSet(S) BY FilesFinite, FS_EmptySet DEF RInv
<1>2. RunEach(S) BY DEF RunLocal
<1>3. mode = "tests" BY DEF RInv
<1>4. QED BY <1>1, <1>2, <1>3, RunEachStep

\* The tests of an installed module are some of its files.
LEMMA RunInstalledStep == ASSUME RInv, RunInstalled PROVE RInv'
<1>1. CASE RunEach(ModuleTests)
  <2>1. IsFiniteSet(FilesIn(disk, Within(found, "tests"))) BY FilesFinite DEF RInv
  <2>2. IsFiniteSet(ModuleTests) BY <2>1, FS_Subset DEF ModuleTests
  <2>3. pc = "module" /\ mode = "tests" /\ UNCHANGED <<disk, mode, completed, passed>>
    BY DEF RunInstalled, given, opts, past
  <2>4. QED BY <1>1, <2>2, <2>3, RunEachStep
<1>2. CASE Exit(0) /\ UNCHANGED <<tests, at, files>>
  <2>1. pc = "module" /\ pc' = "done" /\ UNCHANGED <<disk, mode, tests, at, completed, passed>>
    BY <1>2 DEF RunInstalled, Exit, given, opts, past
  <2>2. QED BY <2>1, Ended
<1>3. QED BY <1>1, <1>2 DEF RunInstalled

\* The test that ends is the next to have been read to its end.
LEMMA ProgramEndsStep == ASSUME RInv, ProgramEnds PROVE RInv'
<1>1. pc = "read" /\ UNCHANGED <<disk, mode, tests>>
  BY DEF ProgramEnds, Reading, given, opts
<1>2. CASE mode # "tests"
  <2>1. pc' = "done" /\ UNCHANGED <<completed, at, passed>> BY <1>2 DEF ProgramEnds, Exit
  <2>2. QED BY <1>1, <2>1, Ended
<1>3. CASE mode = "tests"
  <2>1. /\ Ordered /\ at \in 1 .. Len(tests) /\ completed = 1 .. at - 1
        /\ passed = FALSE /\ disk \in Disks
    BY <1>1, <1>3 DEF RInv
  <2>2. completed' = completed \union {at} BY <1>3 DEF ProgramEnds
  <2>3. completed' = 1 .. at BY <2>1, <2>2 DEF Ordered
  <2>4. CASE at < Len(tests)
    <3>1. pc' = "read" /\ at' = at + 1 /\ passed' = FALSE
      BY <1>3, <2>1, <2>4 DEF ProgramEnds, Begin
    <3>2. at' \in 1 .. Len(tests) /\ completed' = 1 .. at' - 1 BY <2>1, <2>3, <2>4, <3>1 DEF Ordered
    <3>3. QED BY <1>1, <1>3, <2>1, <3>1, <3>2 DEF RInv, Ordered
  <2>5. CASE ~ (at < Len(tests))
    <3>1. pc' = "done" /\ code' = 0 BY <1>3, <2>5 DEF ProgramEnds, Exit
    <3>2. at = Len(tests)
      <4>1. at \in Int /\ Len(tests) \in Int /\ at <= Len(tests) BY <2>1 DEF Ordered
      <4>2. QED BY <2>5, <4>1
    <3>3. completed' = DOMAIN tests BY <2>1, <2>3, <3>2 DEF Ordered
    <3>4. Len(tests) # 0 BY <2>1 DEF Ordered
    <3>5. tests # << >> BY <3>4, EmptySeq
    <3>6. QED BY <1>1, <1>3, <2>1, <3>1, <3>3, <3>5 DEF RInv, PassMeansAllRan
  <2>6. QED BY <2>4, <2>5
<1>4. QED BY <1>2, <1>3

\* The options
LEMMA OptionsStep ==
  ASSUME RInv,
         \/ Construct \/ ShowHelp \/ OptionNoStd \/ MissingValue \/ OptionInclude \/ OptionTest
         \/ OptionInfo \/ OtherWord \/ OptionsRead
  PROVE  RInv'
<1>1. CASE Construct
  BY <1>1, Elsewhere DEF Construct, given, opts, tst, past
<1>2. CASE ShowHelp
  BY <1>2, Ended DEF ShowHelp, AtWord, Exit, given, opts, tst, past
<1>3. CASE OptionNoStd
  BY <1>3, Elsewhere DEF OptionNoStd, AtWord, given, tst, past
<1>4. CASE MissingValue
  BY <1>4, Ended DEF MissingValue, AtWord, Exit, given, opts, tst, past
<1>5. CASE OptionInclude
  BY <1>5, Elsewhere DEF OptionInclude, AtWord, given, tst, past
<1>6. CASE OptionTest
  BY <1>6 DEF OptionTest, AtWord, given, tst, past, RInv
<1>7. CASE OptionInfo
  BY <1>7 DEF OptionInfo, AtWord, given, tst, past, RInv
<1>8. CASE OtherWord
  BY <1>8, Elsewhere DEF OtherWord, AtWord, given, tst, past
<1>9. CASE OptionsRead
  BY <1>9, Elsewhere DEF OptionsRead, given, opts, tst, past
<1>10. QED BY <1>1, <1>2, <1>3, <1>4, <1>5, <1>6, <1>7, <1>8, <1>9

\* What is launched: the REPL, a target, tests or a module's information
LEMMA LaunchStep ==
  ASSUME RInv,
         \/ StartRepl \/ RefuseTarget \/ RunTarget \/ TestApp \/ TestModule \/ TestInstalled
         \/ NoModule \/ FindModule \/ ShowInfo \/ BadModule \/ RunInstalled
  PROVE  RInv'
<1>1. CASE StartRepl
  BY <1>1, Started DEF StartRepl, given, tst, past
<1>2. CASE RefuseTarget
  BY <1>2, Ended DEF RefuseTarget, Exit, given, opts, tst, past
<1>3. CASE RunTarget
  <2>1. pc = "launch" /\ mode' = "target" /\ UNCHANGED <<disk, tests, at, completed, passed>>
    BY <1>3 DEF RunTarget, given, tst, past
  <2>2. pc' = "read" \/ pc' = "done" BY <1>3 DEF RunTarget, Begin, Exit
  <2>3. QED BY <2>1, <2>2, Started DEF RInv, PassMeansAllRan
<1>4. CASE TestApp
  BY <1>4, RunLocalStep DEF TestApp, given, opts, past
<1>5. CASE TestModule
  BY <1>5, RunLocalStep DEF TestModule, given, opts, past
<1>6. CASE TestInstalled
  BY <1>6, Elsewhere DEF TestInstalled, given, opts, tst, past
<1>7. CASE NoModule
  BY <1>7, Ended DEF NoModule, Exit, given, opts, tst, past
<1>8. CASE FindModule
  BY <1>8, Elsewhere DEF FindModule, given, opts, past
<1>9. CASE ShowInfo
  BY <1>9, Ended DEF ShowInfo, Exit, given, opts, tst, past
<1>10. CASE BadModule
  <2>1. pc = "module" /\ pc' = "done" BY <1>10 DEF BadModule, Exit
  <2>2. UNCHANGED <<disk, mode, tests, at, completed, passed>>
    BY <1>10 DEF BadModule, given, opts, tst, past
  <2>3. QED BY <2>1, <2>2, Ended
<1>11. CASE RunInstalled BY <1>11, RunInstalledStep
<1>12. QED BY <1>1, <1>2, <1>3, <1>4, <1>5, <1>6, <1>7, <1>8, <1>9, <1>10, <1>11

\* Programs that open, import, end, fail and exit
LEMMA ProgramStep ==
  ASSUME RInv,
         \/ OpenFile \/ (\E w \in Wanted : Import(w)) \/ LocateBeside \/ Locate \/ NotLocated
         \/ ImportEnds \/ ConfigEnds \/ ProgramEnds \/ FileFails \/ ProgramExits
  PROVE  RInv'
<1>1. CASE OpenFile
  <2>1. UNCHANGED <<disk, mode, tests, at, completed, passed>> BY <1>1 DEF OpenFile, given, opts, tst, past
  <2>2. pc = "read" /\ (pc' = pc \/ pc' = "done") BY <1>1 DEF OpenFile, Reading, Exit
  <2>3. QED BY <2>1, <2>2, Elsewhere, Ended
<1>2. CASE \E w \in Wanted : Import(w)
  BY <1>2, Elsewhere DEF Import, Reading, given, opts, tst, past
<1>3. CASE LocateBeside
  BY <1>3, Elsewhere DEF LocateBeside, given, opts, tst
<1>4. CASE Locate
  BY <1>4, Elsewhere DEF Locate, given, opts, tst
<1>5. CASE NotLocated
  BY <1>5, Elsewhere DEF NotLocated, given, opts, tst
<1>6. CASE ImportEnds
  BY <1>6, Elsewhere DEF ImportEnds, Reading, given, opts, tst, past
<1>7. CASE ConfigEnds
  BY <1>7, Elsewhere DEF ConfigEnds, Reading, given, opts, tst, past
<1>8. CASE ProgramEnds BY <1>8, ProgramEndsStep
<1>9. CASE FileFails
  <2>1. UNCHANGED <<disk, mode, tests, at, completed, passed>> BY <1>9 DEF FileFails, given, opts, tst, past
  <2>2. pc = "read" /\ (pc' = pc \/ pc' = "done") BY <1>9 DEF FileFails, Reading, Exit
  <2>3. QED BY <2>1, <2>2, Elsewhere, Ended
<1>10. CASE ProgramExits
  <2>1. UNCHANGED <<disk, mode, tests, at, completed, passed>> BY <1>10 DEF ProgramExits, given, opts, tst, past
  <2>2. pc = "read" /\ pc' = "done" BY <1>10 DEF ProgramExits, Reading, Exit
  <2>3. QED BY <2>1, <2>2, Ended
<1>11. QED BY <1>1, <1>2, <1>3, <1>4, <1>5, <1>6, <1>7, <1>8, <1>9, <1>10

LEMMA NextRInv == ASSUME RInv, [Next]_vars PROVE RInv'
<1>1. CASE UNCHANGED vars BY <1>1, Elsewhere DEF vars
<1>2. CASE Done BY <1>2, Elsewhere DEF Done, vars
<1>3. CASE Next /\ ~ Done BY <1>3, OptionsStep, LaunchStep, ProgramStep DEF Next
<1>4. QED BY <1>1, <1>2, <1>3

\* "All tests passed!" (app.cpp:211) is printed only if every test that was found
\* has been read to its end: for every command line, directory tree, environment
\* and program, in whatever order the directory lists its tests.
THEOREM PassedTestsRan == Spec => []PassMeansAllRan
<1>1. Init => RInv BY InitRInv
<1>2. RInv /\ [Next]_vars => RInv' BY NextRInv
<1>3. RInv => PassMeansAllRan
  BY DEF RInv, PassMeansAllRan, Ordered
<1>4. QED BY <1>1, <1>2, <1>3, PTL DEF Spec

------------------------------------------------------------------------------
(* Paths *)

LEMMA NoPathType == NoPath \in Path /\ ~ NoPath.abs
BY EmptySeq DEF Path, NoPath

LEMMA ParentType == ASSUME NEW p \in Path PROVE Parent(p) \in Path
<1> DEFINE q == SubSeq(p.parts, 1, Len(p.parts) - 1)
<1>1. p.parts \in Seq(STRING) /\ Len(p.parts) \in Nat /\ p.abs \in BOOLEAN
  BY DEF Path
<1>2. \A i \in 1 .. Len(p.parts) - 1 : p.parts[i] \in STRING
  BY <1>1
<1>3. Len(p.parts) - 1 \in Int /\ 1 \in Int
  BY <1>1
<1>4. q \in Seq(STRING)
  BY <1>2, <1>3, SubSeqProperties
<1>5. Parent(p) = [p EXCEPT !.parts = q]
  BY DEF Parent
<1> HIDE DEF q
<1>6. QED BY <1>4, <1>5 DEF Path

LEMMA ParentParts ==
  ASSUME NEW p \in Path
  PROVE  /\ Parent(p).abs = p.abs
         /\ Len(p.parts) > 1 => Parent(p) # NoPath
<1> DEFINE q == SubSeq(p.parts, 1, Len(p.parts) - 1)
<1>1. p.parts \in Seq(STRING) /\ Len(p.parts) \in Nat
  BY DEF Path
<1>2. \A i \in 1 .. Len(p.parts) - 1 : p.parts[i] \in STRING
  BY <1>1
<1>3. Len(p.parts) - 1 \in Int /\ 1 \in Int
  BY <1>1
<1>4. Len(q) = IF 1 <= Len(p.parts) - 1 THEN Len(p.parts) - 1 - 1 + 1 ELSE 0
  BY <1>2, <1>3, SubSeqProperties
<1>5. Parent(p) = [p EXCEPT !.parts = q]
  BY DEF Parent
<1> HIDE DEF q
<1>6. Parent(p).abs = p.abs /\ Parent(p).parts = q
  BY <1>5 DEF Path
<1>7. ASSUME Len(p.parts) > 1 PROVE q # << >>
  BY <1>1, <1>4, <1>7
<1>8. NoPath.parts = << >>
  BY DEF NoPath
<1>9. QED BY <1>6, <1>7, <1>8

LEMMA JoinType ==
  ASSUME NEW d \in Path, NEW p \in Path
  PROVE  /\ Join(d, p) \in Path
         /\ p.abs => Join(d, p) = p
         /\ ~ p.abs => Join(d, p).abs = d.abs /\ Join(d, p).parts = d.parts \o p.parts
         /\ d.abs => Join(d, p).abs
<1> DEFINE q == d.parts \o p.parts
<1>1. q \in Seq(STRING)
  BY DEF Path
<1>2. Join(d, p) = IF p.abs THEN p ELSE [d EXCEPT !.parts = q]
  BY DEF Join
<1>3. q = d.parts \o p.parts
  OBVIOUS
<1> HIDE DEF q
<1>4. /\ [d EXCEPT !.parts = q] \in Path
      /\ [d EXCEPT !.parts = q].abs = d.abs /\ [d EXCEPT !.parts = q].parts = q
  BY <1>1 DEF Path
<1>5. QED BY <1>2, <1>3, <1>4

LEMMA WithinType ==
  ASSUME NEW d \in Path, NEW name \in STRING
  PROVE  /\ Within(d, name) \in Path \ {NoPath} /\ Within(d, name).abs = d.abs
<1> DEFINE q == Append(d.parts, name)
<1>1. q \in Seq(STRING) /\ q # << >>
  BY AppendProperties DEF Path
<1>2. Within(d, name) = [d EXCEPT !.parts = q]
  BY DEF Within
<1> HIDE DEF q
<1>3. /\ Within(d, name) \in Path
      /\ Within(d, name).abs = d.abs /\ Within(d, name).parts = q
  BY <1>1, <1>2 DEF Path
<1>4. Within(d, name) # NoPath
  BY <1>1, <1>3 DEF NoPath
<1>5. QED BY <1>3, <1>4

LEMMA CanonicalType ==
  ASSUME NEW p \in Path
  PROVE  /\ Canonical(p) \in Path /\ Canonical(p).abs
         /\ p.abs => Canonical(p) = p
BY JoinType, PathsAssumption DEF Canonical

LEMMA NibiPathType ==
  ASSUME environ \in Homes
  PROVE  NibiPath \in Path /\ Config \in Path \ {NoPath}
<1>1. environ \in [nibi : Path, home : Path] /\ NoPath \in Path
  BY LaunchAssumption, NoPathType
<1>2. environ.nibi \in Path /\ environ.home \in Path
  BY <1>1
<1>3. Within(environ.home, ".nibi") \in Path
  BY <1>2, WithinType, LiteralsAreStrings
<1>4. NibiPath \in {environ.nibi, Within(environ.home, ".nibi"), NoPath}
  BY DEF NibiPath
<1>5. NibiPath \in Path
  BY <1>1, <1>2, <1>3, <1>4
<1>6. QED BY <1>5, WithinType, LiteralsAreStrings DEF Config

LEMMA FilesType == ASSUME disk \in Disks, NEW dir \in Path PROVE FilesIn(disk, dir) \subseteq Path
<1>1. ASSUME NEW q \in DOMAIN disk, Len(q) > 0
      PROVE  Within(dir, q[Len(q)]) \in Path
  <2>1. q \in Seq(STRING)
    BY LaunchAssumption
  <2>2. q[Len(q)] \in STRING
    BY <1>1, <2>1
  <2>3. QED BY <2>2, WithinType
<1>2. QED BY <1>1 DEF FilesIn

------------------------------------------------------------------------------
(* Types *)

SearchType == [k : Int, path : Path, wanted : Path, from : Path]

ControlTyped ==
  /\ pc \in {"start", "options", "launch", "tests", "module", "read", "done"}
  /\ mode \in {"none", "target", "repl", "tests", "info"}
  /\ pos \in Nat \ {0} /\ target \in Words \union {NoWord}
  /\ at \in Nat /\ completed \subseteq Nat
  /\ code \in Int /\ (pc = "done" <=> code # Running)
  /\ pc \in {"tests", "module"} => target \in Words

FlagsTyped == wantStd \in BOOLEAN /\ useStd \in BOOLEAN /\ passed \in BOOLEAN

PathsTyped ==
  /\ includes \in Seq(Path) /\ tests \in Seq(Path) /\ todo \in Seq(Path) /\ open \in Seq(Path)
  /\ found \in Path

SearchTyped == /\ search \in SearchType /\ located \in SearchType
               /\ search # Idle => search.k >= 0

TInv ==
  /\ ControlTyped /\ FlagsTyped /\ PathsTyped /\ SearchTyped /\ disk \in Disks /\ environ \in Homes
  /\ Len(args) \in Nat /\ \A i \in 1 .. Len(args) : args[i] \in Words

LEMMA InitTInv == Init => TInv
<1> SUFFICES ASSUME Init PROVE TInv
  OBVIOUS
<1>1. NoPath \in Path /\ Idle \in SearchType
  BY NoPathType DEF Idle, SearchType
<1>2. PICK n \in 0 .. MaxWords : args \in [1 .. n -> Words]
  BY DEF Init
<1>3. n \in Nat
  BY LaunchAssumption
<1>4. args \in Seq(Words)
  BY <1>2, <1>3, SeqDef
<1>5. Len(args) \in Nat /\ \A i \in 1 .. Len(args) : args[i] \in Words
  BY <1>4
<1>6. << >> \in Seq(Path)
  OBVIOUS
<1>7. /\ pc = "start" /\ mode = "none" /\ pos = 1 /\ target = NoWord
      /\ at = 0 /\ completed = {} /\ code = Running
  BY DEF Init
<1>8. code \in Int /\ (pc = "done" <=> code # Running)
  BY <1>7 DEF Running
<1>9. completed \subseteq Nat /\ pos \in Nat \ {0} /\ at \in Nat
  BY <1>7
<1>10. ControlTyped
  BY <1>7, <1>8, <1>9 DEF ControlTyped
<1>11. FlagsTyped
  BY Zenon DEF Init, FlagsTyped
<1>12. PathsTyped /\ SearchTyped
  BY <1>1, <1>6 DEF Init, PathsTyped, SearchTyped
<1>13. QED BY <1>5, <1>10, <1>11, <1>12 DEF Init, TInv

LEMMA WordType ==
  ASSUME TInv, NEW i \in 1 .. Len(args) PROVE args[i] \in Words /\ PathOf[args[i]] \in Path
                                             /\ DirsOf[args[i]] \in Seq(Path)
BY LaunchAssumption DEF TInv

LEMMA TargetType == ASSUME TInv, target # NoWord PROVE target \in Words /\ PathOf[target] \in Path
BY LaunchAssumption DEF TInv, ControlTyped

LEMMA FlagsStep == ASSUME TInv, [Next]_vars PROVE FlagsTyped'
<1>1. CASE Construct
  BY <1>1, Zenon DEF Construct, Reinit, given, opts, data, tst, files, past, TInv, FlagsTyped
<1>2. CASE ShowHelp
  BY <1>2, Zenon DEF ShowHelp, AtWord, Exit, given, opts, data, tst, files, past, TInv, FlagsTyped
<1>3. CASE OptionNoStd
  BY <1>3, Zenon DEF OptionNoStd, AtWord, given, opts, data, tst, files, past, TInv, FlagsTyped
<1>4. CASE MissingValue
  BY <1>4, Zenon DEF MissingValue, AtWord, Exit, given, opts, data, tst, files, past, TInv, FlagsTyped
<1>5. CASE OptionInclude
  BY <1>5, Zenon DEF OptionInclude, AtWord, given, opts, data, tst, files, past, TInv, FlagsTyped
<1>6. CASE OptionTest
  BY <1>6, Zenon DEF OptionTest, AtWord, given, opts, data, tst, files, past, TInv, FlagsTyped
<1>7. CASE OptionInfo
  BY <1>7, Zenon DEF OptionInfo, AtWord, given, opts, data, tst, files, past, TInv, FlagsTyped
<1>8. CASE OtherWord
  BY <1>8, Zenon DEF OtherWord, AtWord, Word, given, opts, data, tst, files, past, TInv, FlagsTyped
<1>9. CASE OptionsRead
  BY <1>9, Zenon DEF OptionsRead, given, opts, data, tst, files, past, TInv, FlagsTyped
<1>10. CASE StartRepl
  BY <1>10, Zenon DEF StartRepl, given, opts, data, tst, files, past, TInv, FlagsTyped
<1>11. CASE RefuseTarget
  BY <1>11, Zenon DEF RefuseTarget, Exit, given, opts, data, tst, files, past, TInv, FlagsTyped
<1>12. CASE RunTarget
  BY <1>12, Zenon DEF RunTarget, Begin, Exit, given, opts, data, tst, files, past, TInv, FlagsTyped
<1>13. CASE TestApp
  BY <1>13, Zenon DEF TestApp, RunLocal, RunEach, Begin, Exit, given, opts, data, tst, files, past, TInv, FlagsTyped
<1>14. CASE TestModule
  BY <1>14, Zenon DEF TestModule, RunLocal, RunEach, Begin, Exit, given, opts, data, tst, files, past, TInv, FlagsTyped
<1>15. CASE TestInstalled
  BY <1>15, Zenon DEF TestInstalled, given, opts, data, tst, files, past, TInv, FlagsTyped
<1>16. CASE NoModule
  BY <1>16, Zenon DEF NoModule, Exit, given, opts, data, tst, files, past, TInv, FlagsTyped
<1>17. CASE FindModule
  BY <1>17, Zenon DEF FindModule, given, opts, data, tst, files, past, TInv, FlagsTyped
<1>18. CASE ShowInfo
  BY <1>18, Zenon DEF ShowInfo, Exit, given, opts, data, tst, files, past, TInv, FlagsTyped
<1>19. CASE BadModule
  BY <1>19, Zenon DEF BadModule, Exit, given, opts, data, tst, files, past, TInv, FlagsTyped
<1>20. CASE RunInstalled
  BY <1>20, Zenon DEF RunInstalled, RunEach, Begin, Exit, Reinit, given, opts, data, tst, files, past, TInv, FlagsTyped
<1>21. CASE OpenFile
  BY <1>21, Zenon DEF OpenFile, Exit, Reading, given, opts, data, tst, files, past, TInv, FlagsTyped
<1>22. CASE \E w \in Wanted : Import(w)
  BY <1>22, Zenon DEF Import, Reading, given, opts, data, tst, files, past, TInv, FlagsTyped
<1>23. CASE LocateBeside
  BY <1>23, Zenon DEF LocateBeside, Answer, given, opts, data, tst, files, past, TInv, FlagsTyped
<1>24. CASE Locate
  BY <1>24, Zenon DEF Locate, Answer, given, opts, data, tst, files, past, TInv, FlagsTyped
<1>25. CASE NotLocated
  BY <1>25, Zenon DEF NotLocated, Answer, given, opts, data, tst, files, past, TInv, FlagsTyped
<1>26. CASE ImportEnds
  BY <1>26, Zenon DEF ImportEnds, Reading, given, opts, data, tst, files, past, TInv, FlagsTyped
<1>27. CASE ConfigEnds
  BY <1>27, Zenon DEF ConfigEnds, Reading, given, opts, data, tst, files, past, TInv, FlagsTyped
<1>28. CASE ProgramEnds
  BY <1>28, Zenon DEF ProgramEnds, Exit, Reading, Begin, given, opts, data, tst, files, past, TInv, FlagsTyped
<1>29. CASE FileFails
  BY <1>29, Zenon DEF FileFails, Exit, Reading, given, opts, data, tst, files, past, TInv, FlagsTyped
<1>30. CASE ProgramExits
  BY <1>30, Zenon DEF ProgramExits, Exit, Reading, given, opts, data, tst, files, past, TInv, FlagsTyped
<1>31. CASE Done \/ UNCHANGED vars
  BY <1>31, Zenon DEF Done, vars, given, opts, data, tst, files, past, TInv, FlagsTyped
<1>32. QED BY <1>1, <1>2, <1>3, <1>4, <1>5, <1>6, <1>7, <1>8, <1>9, <1>10, <1>11, <1>12, <1>13, <1>14, <1>15, <1>16, <1>17, <1>18, <1>19, <1>20, <1>21, <1>22, <1>23, <1>24, <1>25, <1>26, <1>27, <1>28, <1>29, <1>30, <1>31 DEF Next

LEMMA ControlKept == ASSUME ControlTyped, UNCHANGED <<pc, mode, pos, target, at, completed, code>>
                     PROVE  ControlTyped'
BY DEF ControlTyped

LEMMA ControlGoes ==
  ASSUME ControlTyped, pc # "done", UNCHANGED <<mode, pos, target, at, completed, code>>,
         pc' \in {"options", "launch", "read"}
  PROVE  ControlTyped'
BY DEF ControlTyped

LEMMA ControlEnds ==
  ASSUME ControlTyped, UNCHANGED <<pos, target, at, completed>>,
         mode' \in {mode, "target"}, pc' = "done", code' \in Nat
  PROVE  ControlTyped'
<1>1. code' \in Int /\ code' # Running
  BY DEF Running
<1>2. QED BY <1>1 DEF ControlTyped

\* run_each_test
LEMMA ControlRunEach ==
  ASSUME ControlTyped, pc \in {"tests", "module"}, NEW S, RunEach(S),
         UNCHANGED <<mode, pos, target, completed>>
  PROVE  ControlTyped'
<1>1. CASE S = {}
  <2>1. pc' = "done" /\ code' = 0 /\ at' = at
    BY <1>1 DEF RunEach, Exit
  <2>2. QED BY <2>1, ControlEnds
<1>2. CASE S # {}
  <2>1. pc' = "read" /\ at' = 1 /\ code' = code
    BY <1>2 DEF RunEach, Begin
  <2>2. QED BY <2>1 DEF ControlTyped
<1>3. QED BY <1>1, <1>2

LEMMA ControlOptions ==
  ASSUME TInv, \/ Construct \/ ShowHelp \/ OptionNoStd \/ MissingValue \/ OptionInclude \/ OptionTest
               \/ OptionInfo \/ OtherWord \/ OptionsRead
  PROVE  ControlTyped'
<1> USE DEF TInv, given, opts, tst, past
<1>1. CASE Construct
  BY <1>1, ControlGoes DEF Construct
<1>2. CASE ShowHelp
  BY <1>2, ControlEnds DEF ShowHelp, Exit
<1>3. CASE OptionNoStd
  <2>1. pos' = pos + 1 /\ UNCHANGED <<pc, mode, target, at, completed, code>>
    BY <1>3 DEF OptionNoStd
  <2>2. QED BY <2>1 DEF ControlTyped
<1>4. CASE MissingValue
  BY <1>4, ControlEnds DEF MissingValue, Exit
<1>5. CASE OptionInclude
  <2>1. pos' = pos + 2 /\ UNCHANGED <<pc, mode, target, at, completed, code>>
    BY <1>5 DEF OptionInclude
  <2>2. QED BY <2>1 DEF ControlTyped
<1>6. CASE OptionTest \/ OptionInfo
  <2>1. pos + 1 \in 1 .. Len(args)
    BY <1>6 DEF OptionTest, OptionInfo, ControlTyped
  <2>2. /\ target' = args[pos + 1] /\ mode' \in {"tests", "info"} /\ pc' \in {"tests", "module"}
        /\ pc = "options" /\ UNCHANGED <<pos, at, completed, code>>
    BY <1>6 DEF OptionTest, OptionInfo, AtWord
  <2>3. target' \in Words
    BY <2>1, <2>2, WordType
  <2>4. QED BY <2>2, <2>3 DEF ControlTyped
<1>7. CASE OtherWord
  <2>1. pos \in 1 .. Len(args)
    BY <1>7 DEF OtherWord, AtWord, ControlTyped
  <2>2. Word \in Words
    BY <2>1, WordType DEF Word
  <2>3. /\ target' \in {target, Word} /\ pos' = pos + 1 /\ pc = "options"
        /\ UNCHANGED <<pc, mode, at, completed, code>>
    BY <1>7 DEF OtherWord, AtWord
  <2>4. QED BY <2>2, <2>3 DEF ControlTyped
<1>8. CASE OptionsRead
  BY <1>8, ControlGoes DEF OptionsRead
<1>9. QED BY <1>1, <1>2, <1>3, <1>4, <1>5, <1>6, <1>7, <1>8

LEMMA ControlLaunch ==
  ASSUME TInv, \/ StartRepl \/ RefuseTarget \/ RunTarget \/ TestApp \/ TestModule \/ TestInstalled
               \/ NoModule \/ FindModule \/ ShowInfo \/ BadModule \/ RunInstalled
  PROVE  ControlTyped'
<1> USE DEF TInv, given, opts, tst, past
<1>1. CASE StartRepl
  <2>1. /\ pc = "launch" /\ pc' = "read" /\ mode' = "repl"
        /\ UNCHANGED <<pos, target, at, completed, code>>
    BY <1>1 DEF StartRepl
  <2>2. QED BY <2>1 DEF ControlTyped
<1>2. CASE RefuseTarget
  BY <1>2, ControlEnds DEF RefuseTarget, Exit
<1>3. CASE RunTarget
  <2>1. pc = "launch" /\ mode' = "target" /\ UNCHANGED <<pos, target, at, completed>>
    BY <1>3 DEF RunTarget
  <2>2. (pc' = "read" /\ code' = code) \/ (pc' = "done" /\ code' = 0)
    BY <1>3 DEF RunTarget, Begin, Exit
  <2>3. CASE pc' = "read" /\ code' = code
    BY <2>1, <2>3 DEF ControlTyped
  <2>4. CASE pc' = "done" /\ code' = 0
    BY <2>1, <2>4, ControlEnds
  <2>5. QED BY <2>2, <2>3, <2>4
<1>4. CASE TestApp
  BY <1>4, ControlRunEach DEF TestApp, RunLocal
<1>5. CASE TestModule
  BY <1>5, ControlRunEach DEF TestModule, RunLocal
<1>6. CASE TestInstalled
  <2>1. pc = "tests" /\ pc' = "module" /\ UNCHANGED <<mode, pos, target, at, completed, code>>
    BY <1>6 DEF TestInstalled
  <2>2. QED BY <2>1 DEF ControlTyped
<1>7. CASE NoModule
  BY <1>7, ControlEnds DEF NoModule, Exit
<1>8. CASE FindModule
  BY <1>8, ControlKept DEF FindModule
<1>9. CASE ShowInfo
  BY <1>9, ControlEnds DEF ShowInfo, Exit
<1>10. CASE BadModule
  <2>1. pc' = "done" /\ code' \in {0, 1, 134} \union ExitCodes
        /\ UNCHANGED <<mode, pos, target, at, completed>>
    BY <1>10 DEF BadModule, Exit
  <2>2. code' \in Nat
    BY <2>1, LaunchAssumption
  <2>3. QED BY <2>1, <2>2, ControlEnds
<1>11. CASE RunInstalled
  <2>1. pc = "module" /\ UNCHANGED <<mode, pos, target, completed>>
    BY <1>11 DEF RunInstalled
  <2>2. RunEach(ModuleTests) \/ (pc' = "done" /\ code' = 0 /\ at' = at)
    BY <1>11 DEF RunInstalled, Exit
  <2>3. QED BY <2>1, <2>2, ControlRunEach, ControlEnds
<1>12. QED BY <1>1, <1>2, <1>3, <1>4, <1>5, <1>6, <1>7, <1>8, <1>9, <1>10, <1>11

LEMMA ControlProgram ==
  ASSUME TInv, \/ OpenFile \/ (\E w \in Wanted : Import(w)) \/ LocateBeside \/ Locate \/ NotLocated
               \/ ImportEnds \/ ConfigEnds \/ ProgramEnds \/ FileFails \/ ProgramExits
  PROVE  ControlTyped'
<1> USE DEF TInv, given, opts, tst, past
<1>1. CASE OpenFile
  <2>1. UNCHANGED <<mode, pos, target, at, completed>>
    BY <1>1 DEF OpenFile
  <2>2. UNCHANGED <<pc, code>> \/ (pc' = "done" /\ code' = 1)
    BY <1>1 DEF OpenFile, Exit
  <2>3. QED BY <2>1, <2>2, ControlKept, ControlEnds
<1>2. CASE \E w \in Wanted : Import(w)
  BY <1>2, ControlKept DEF Import
<1>3. CASE LocateBeside \/ Locate \/ NotLocated
  BY <1>3, ControlKept DEF LocateBeside, Locate, NotLocated
<1>4. CASE ImportEnds \/ ConfigEnds
  BY <1>4, ControlKept DEF ImportEnds, ConfigEnds
<1>5. CASE ProgramEnds
  <2>1. pc = "read" /\ UNCHANGED <<mode, pos, target>>
    BY <1>5 DEF ProgramEnds, Reading
  <2>2. \/ completed' = completed \union {at} /\ at' = at + 1 /\ pc' = "read" /\ code' = code
        \/ completed' = completed \union {at} /\ at' = at /\ pc' = "done" /\ code' = 0
        \/ completed' = completed /\ at' = at /\ pc' = "done" /\ code' = 0
    BY <1>5 DEF ProgramEnds, Begin, Exit
  <2>3. completed' \subseteq Nat /\ at' \in Nat
    <3>1. completed \subseteq Nat /\ at \in Nat /\ at + 1 \in Nat
      BY DEF ControlTyped
    <3>2. QED BY <2>2, <3>1
  <2>4. code' \in Int /\ (pc' = "done" <=> code' # Running)
    BY <2>1, <2>2 DEF ControlTyped, Running
  <2>5. pc' \in {"read", "done"}
    BY <2>2
  <2>6. QED BY <2>1, <2>3, <2>4, <2>5 DEF ControlTyped
<1>6. CASE FileFails
  <2>1. UNCHANGED <<mode, pos, target, at, completed>>
    BY <1>6 DEF FileFails
  <2>2. UNCHANGED <<pc, code>> \/ (pc' = "done" /\ code' = 1)
    BY <1>6 DEF FileFails, Exit
  <2>3. QED BY <2>1, <2>2, ControlKept, ControlEnds
<1>7. CASE ProgramExits
  <2>1. pc' = "done" /\ code' \in ExitCodes /\ UNCHANGED <<mode, pos, target, at, completed>>
    BY <1>7 DEF ProgramExits, Exit
  <2>2. code' \in Nat
    BY <2>1, LaunchAssumption
  <2>3. QED BY <2>1, <2>2, ControlEnds
<1>8. QED BY <1>1, <1>2, <1>3, <1>4, <1>5, <1>6, <1>7

LEMMA IncludeAlso ==
  ASSUME PathsTyped, NEW p \in Path PROVE Append(includes, p) \in Seq(Path)
BY AppendProperties DEF PathsTyped

LEMMA Reinitialised == ASSUME TInv, Reinit(includes) PROVE includes' \in Seq(Path)
<1>1. includes' = includes \/ includes' = Append(includes, NibiPath)
  BY DEF Reinit
<1>2. QED BY <1>1, NibiPathType, IncludeAlso DEF TInv, PathsTyped

LEMMA Begun == ASSUME TInv, NEW f \in Path, Begin(f) PROVE todo' \in Seq(Path) /\ open' \in Seq(Path)
<1>1. todo' = <<Config, f>> \/ todo' = <<f>>
  BY DEF Begin
<1>2. Config \in Path
  BY NibiPathType DEF TInv
<1>3. <<Config, f>> \in Seq(Path) /\ <<f>> \in Seq(Path) /\ << >> \in Seq(Path)
  BY <1>2
<1>4. QED BY <1>1, <1>3 DEF Begin

LEMMA PathsRunEach ==
  ASSUME TInv, NEW S \in SUBSET Path, IsFiniteSet(S), RunEach(S), UNCHANGED found,
         includes' \in Seq(Path)
  PROVE  PathsTyped'
<1>1. CASE S = {}
  <2>1. UNCHANGED <<tests, todo, open>>
    BY <1>1 DEF RunEach, files
  <2>2. QED BY <2>1 DEF TInv, PathsTyped
<1>2. CASE S # {}
  <2>1. tests' \in Orders(S) /\ Begin(tests'[1])
    BY <1>2 DEF RunEach
  <2>2. tests' \in [1 .. Cardinality(S) -> S] /\ Cardinality(S) \in Nat
    BY <2>1, FS_CardinalityType DEF Orders
  <2>3. tests' \in Seq(S)
    BY <2>2, SeqDef
  <2>4. tests' \in Seq(Path)
    BY <2>3
  <2>5. tests'[1] \in S
    BY <1>2, <2>1, <2>3, OrderLength
  <2>6. todo' \in Seq(Path) /\ open' \in Seq(Path)
    BY <2>1, <2>5, Begun
  <2>7. QED BY <2>4, <2>6 DEF TInv, PathsTyped
<1>3. QED BY <1>1, <1>2

LEMMA PathsRunLocal ==
  ASSUME TInv, NEW dir \in Path, RunLocal(dir), UNCHANGED found, includes' \in Seq(Path)
  PROVE  PathsTyped'
<1> DEFINE there == Within(dir, "tests")
           S == IF IsDir(disk, there) THEN FilesIn(disk, there) ELSE {}
<1>1. there \in Path
  BY WithinType, LiteralsAreStrings
<1>2. S \in SUBSET Path /\ IsFiniteSet(S)
  BY <1>1, FilesType, FilesFinite, FS_EmptySet DEF TInv
<1>3. RunEach(S)
  BY DEF RunLocal
<1> HIDE DEF S
<1>4. QED BY <1>2, <1>3, PathsRunEach

LEMMA ModuleType == ASSUME TInv, target \in Words PROVE Module \in Path /\ PathOf[target] \in Path
<1>1. PathOf[target] \in Path
  BY LaunchAssumption
<1>2. Module \in {PathOf[target], Canonical(PathOf[target])}
  BY DEF Module
<1>3. QED BY <1>1, <1>2, CanonicalType

LEMMA PlacesType ==
  ASSUME TInv, target \in Words, NEW i \in DOMAIN Places PROVE Places[i] \in Path
<1> DEFINE p == PathOf[target]
           here == [j \in DOMAIN includes |-> Join(includes[j], p)]
           last == IF NibiPath = NoPath THEN << >>
                   ELSE <<Join(Within(NibiPath, "modules"), p)>>
<1>1. p \in Path /\ NibiPath \in Path
  BY LaunchAssumption, NibiPathType DEF TInv
<1>2. Within(NibiPath, "modules") \in Path
  BY <1>1, WithinType, LiteralsAreStrings
<1>3. last \in Seq(Path)
  <2>1. Join(Within(NibiPath, "modules"), p) \in Path
    BY <1>1, <1>2, JoinType
  <2>2. <<Join(Within(NibiPath, "modules"), p)>> \in Seq(Path) /\ << >> \in Seq(Path)
    BY <2>1
  <2>3. QED BY <2>2
<1>4. here \in Seq(Path)
  <2>1. includes \in Seq(Path)
    BY DEF TInv, PathsTyped
  <2>2. Len(includes) \in Nat /\ DOMAIN includes = 1 .. Len(includes)
    BY <2>1
  <2>3. ASSUME NEW j \in 1 .. Len(includes) PROVE Join(includes[j], p) \in Path
    <3>1. includes[j] \in Path
      BY <2>1
    <3>2. QED BY <1>1, <3>1, JoinType
  <2>4. here \in [1 .. Len(includes) -> Path]
    BY <2>2, <2>3
  <2> HIDE DEF here
  <2>5. QED BY <2>2, <2>4, SeqDef
<1>5. Places = here \o last
  BY DEF Places
<1> HIDE DEF here, last
<1>6. Places \in Seq(Path)
  BY <1>3, <1>4, <1>5, ConcatProperties
<1>7. QED BY <1>6

LEMMA PathsOptions ==
  ASSUME TInv, \/ Construct \/ ShowHelp \/ OptionNoStd \/ MissingValue \/ OptionInclude \/ OptionTest
               \/ OptionInfo \/ OtherWord \/ OptionsRead
  PROVE  PathsTyped'
<1>1. UNCHANGED <<tests, todo, open, found>>
  BY DEF Construct, ShowHelp, OptionNoStd, MissingValue, OptionInclude, OptionTest, OptionInfo,
         OtherWord, OptionsRead, tst, files
<1>2. CASE Construct
  <2>1. includes' \in Seq(Path)
    BY <1>2, Reinitialised DEF Construct
  <2>2. QED BY <1>1, <2>1 DEF TInv, PathsTyped
<1>3. CASE ShowHelp \/ OptionNoStd \/ MissingValue \/ OtherWord \/ OptionsRead
  <2>1. includes' = includes
    BY <1>3 DEF ShowHelp, OptionNoStd, MissingValue, OtherWord, OptionsRead, data
  <2>2. QED BY <1>1, <2>1 DEF TInv, PathsTyped
<1>4. CASE OptionInclude
  <2>1. pos + 1 \in 1 .. Len(args)
    BY <1>4 DEF OptionInclude, TInv, ControlTyped
  <2>2. includes' = includes \o DirsOf[args[pos + 1]] /\ DirsOf[args[pos + 1]] \in Seq(Path)
    BY <1>4, <2>1, WordType DEF OptionInclude
  <2>3. includes' \in Seq(Path)
    BY <2>2, ConcatProperties DEF TInv, PathsTyped
  <2>4. QED BY <1>1, <2>3 DEF TInv, PathsTyped
<1>5. CASE OptionTest \/ OptionInfo
  <2>1. includes' = Append(includes, Cwd)
    BY <1>5 DEF OptionTest, OptionInfo
  <2>2. includes' \in Seq(Path)
    BY <2>1, IncludeAlso, PathsAssumption DEF TInv
  <2>3. QED BY <1>1, <2>2 DEF TInv, PathsTyped
<1>6. QED BY <1>2, <1>3, <1>4, <1>5

LEMMA PathsLaunch ==
  ASSUME TInv, \/ StartRepl \/ RefuseTarget \/ RunTarget \/ TestApp \/ TestModule \/ TestInstalled
               \/ NoModule \/ FindModule \/ ShowInfo \/ BadModule \/ RunInstalled
  PROVE  PathsTyped'
<1>1. CASE StartRepl
  <2>1. open' = <<Terminal>> /\ UNCHANGED <<includes, tests, todo, found>>
    BY <1>1 DEF StartRepl, data, tst
  <2>2. Terminal \in Path
    BY LiteralsAreStrings DEF Terminal, Path
  <2>3. QED BY <2>1, <2>2 DEF TInv, PathsTyped
<1>2. CASE RefuseTarget \/ TestInstalled \/ NoModule \/ ShowInfo \/ BadModule
  <2>1. UNCHANGED <<includes, tests, todo, open, found>>
    BY <1>2 DEF RefuseTarget, TestInstalled, NoModule, ShowInfo, BadModule, data, tst, files
  <2>2. QED BY <2>1 DEF TInv, PathsTyped
<1>3. CASE RunTarget
  <2>1. target \in Words /\ PathOf[target] \in Path
    BY <1>3, TargetType DEF RunTarget
  <2>2. Entry \in Path
    <3>1. Canonical(PathOf[target]) \in Path
      BY <2>1, CanonicalType
    <3>2. Parent(Canonical(PathOf[target])) \in Path
      BY <3>1, ParentType
    <3>3. QED BY <3>1, <3>2 DEF Entry
  <2>3. includes' \in Seq(Path)
    BY <1>3, <2>2, IncludeAlso DEF RunTarget, TInv
  <2>4. Within(PathOf[target], "main.nibi") \in Path
    BY <2>1, WithinType, LiteralsAreStrings
  <2>5. \/ Begin(PathOf[target]) \/ Begin(Within(PathOf[target], "main.nibi"))
        \/ UNCHANGED <<todo, open>>
    BY <1>3 DEF RunTarget, files
  <2>6. todo' \in Seq(Path) /\ open' \in Seq(Path)
    BY <2>1, <2>4, <2>5, Begun DEF TInv, PathsTyped
  <2>7. UNCHANGED <<tests, found>>
    BY <1>3 DEF RunTarget, tst
  <2>8. QED BY <2>3, <2>6, <2>7 DEF TInv, PathsTyped
<1>4. CASE TestApp
  <2>1. target \in Words
    BY <1>4 DEF TestApp, TInv, ControlTyped
  <2>2. /\ includes' = Append(includes, PathOf[target]) /\ RunLocal(PathOf[target])
        /\ UNCHANGED found
    BY <1>4 DEF TestApp
  <2>3. PathOf[target] \in Path
    BY <2>1, ModuleType
  <2>4. includes' \in Seq(Path)
    BY <2>2, <2>3, IncludeAlso DEF TInv
  <2>5. QED BY <2>2, <2>3, <2>4, PathsRunLocal
<1>5. CASE TestModule
  <2>1. target \in Words
    BY <1>5 DEF TestModule, TInv, ControlTyped
  <2> DEFINE up == IF HasParent(Module) THEN <<Parent(Module)>> ELSE << >>
  <2>2. includes' = includes \o up \o <<Module>> /\ RunLocal(Module) /\ UNCHANGED found
    BY <1>5 DEF TestModule
  <2>3. Module \in Path /\ Parent(Module) \in Path
    BY <2>1, ModuleType, ParentType
  <2>4. up \in Seq(Path) /\ <<Module>> \in Seq(Path)
    <3>1. <<Parent(Module)>> \in Seq(Path) /\ << >> \in Seq(Path) /\ <<Module>> \in Seq(Path)
      BY <2>3
    <3>2. QED BY <3>1
  <2> HIDE DEF up
  <2>5. includes \in Seq(Path)
    BY DEF TInv, PathsTyped
  <2>6. includes \o up \in Seq(Path)
    BY <2>4, <2>5, ConcatProperties
  <2>7. includes' \in Seq(Path)
    BY <2>2, <2>4, <2>6, ConcatProperties
  <2>8. QED BY <2>2, <2>3, <2>7, PathsRunLocal
<1>6. CASE FindModule
  <2>1. target \in Words
    BY <1>6 DEF FindModule, TInv, ControlTyped
  <2>2. PICK i \in DOMAIN Places : found' = Places[i]
    BY <1>6 DEF FindModule
  <2>3. found' \in Path
    BY <2>1, <2>2, PlacesType
  <2>4. UNCHANGED <<includes, tests, todo, open>>
    BY <1>6 DEF FindModule, data, files
  <2>5. QED BY <2>3, <2>4 DEF TInv, PathsTyped
<1>7. CASE RunInstalled
  <2>1. UNCHANGED found
    BY <1>7 DEF RunInstalled
  <2>2. Within(found, "tests") \in Path
    BY WithinType, LiteralsAreStrings DEF TInv, PathsTyped
  <2>3. ModuleTests \in SUBSET Path /\ IsFiniteSet(ModuleTests)
    <3>1. FilesIn(disk, Within(found, "tests")) \subseteq Path
      BY <2>2, FilesType DEF TInv
    <3>2. IsFiniteSet(FilesIn(disk, Within(found, "tests")))
      BY FilesFinite DEF TInv
    <3>3. ModuleTests \subseteq FilesIn(disk, Within(found, "tests"))
      BY DEF ModuleTests
    <3>4. QED BY <3>1, <3>2, <3>3, FS_Subset
  <2>4. CASE RunEach(ModuleTests) /\ UNCHANGED data
    <3>1. includes' \in Seq(Path)
      BY <2>4 DEF data, TInv, PathsTyped
    <3>2. QED BY <2>1, <2>3, <2>4, <3>1, PathsRunEach
  <2>5. CASE Reinit(includes) /\ UNCHANGED <<tests, at, files>>
    <3>1. includes' \in Seq(Path)
      BY <2>5, Reinitialised
    <3>2. UNCHANGED <<tests, todo, open>>
      BY <2>5 DEF files
    <3>3. QED BY <2>1, <3>1, <3>2 DEF TInv, PathsTyped
  <2>6. QED BY <1>7, <2>4, <2>5 DEF RunInstalled
<1>8. QED BY <1>1, <1>2, <1>3, <1>4, <1>5, <1>6, <1>7

LEMMA TerminalType == Terminal \in Path
BY LiteralsAreStrings DEF Terminal, Path

\* A file is asked for by one that is being read.
LEMMA FileType == ASSUME TInv, open # << >> PROVE File \in Path
<1>1. open \in Seq(Path)
  BY DEF TInv, PathsTyped
<1>2. Len(open) \in 1 .. Len(open)
  BY <1>1, EmptySeq
<1>3. QED BY <1>1, <1>2 DEF File

LEMMA BesideType == ASSUME TInv PROVE Beside \in Path
<1>1. search.from \in Path /\ search.wanted \in Path
  BY DEF TInv, SearchTyped, SearchType
<1> DEFINE dir == Parent(search.from)
<1>2. dir \in Path
  BY <1>1, ParentType
<1>3. Canonical(dir) \in Path
  BY <1>2, CanonicalType
<1>4. Join(Canonical(dir), search.wanted) \in Path
  BY <1>1, <1>3, JoinType
<1>5. Beside \in {Join(Canonical(dir), search.wanted), NoPath}
  BY DEF Beside
<1>6. QED BY <1>4, <1>5, NoPathType

LEMMA TrialType == ASSUME TInv, search # Idle PROVE Trial \in Path
<1>1. search \in SearchType /\ search.k >= 0 /\ includes \in Seq(Path)
  BY DEF TInv, SearchTyped, PathsTyped
<1>2. search.k \in Nat /\ search.path \in Path /\ Len(includes) \in Nat
  BY <1>1 DEF SearchType
<1>3. NibiPath \in Path
  BY NibiPathType DEF TInv
<1>4. CASE search.k = 0
  BY <1>2, <1>4 DEF Trial
<1>5. CASE search.k \in 1 .. Len(includes)
  <2>1. includes[search.k] \in Path
    BY <1>1, <1>5
  <2>2. Join(includes[search.k], search.path) \in Path
    BY <1>2, <2>1, JoinType
  <2>3. search.k # 0 /\ ~ (search.k > Len(includes))
    BY <1>2, <1>5
  <2>4. Trial = Join(includes[search.k], search.path)
    BY <1>5, <2>3 DEF Trial
  <2>5. QED BY <2>2, <2>4
<1>6. CASE search.k > Len(includes)
  <2>1. search.k # 0 /\ ~ (search.k \in 1 .. Len(includes))
    BY <1>2, <1>6
  <2>2. Trial = Join(NibiPath, search.path)
    BY <1>6, <2>1 DEF Trial
  <2>3. QED BY <1>2, <1>3, <2>2, JoinType
<1>7. QED BY <1>2, <1>4, <1>5, <1>6

LEMMA AnswerTyped ==
  ASSUME TInv, NEW p \in Path, Answer(p), UNCHANGED <<includes, tests, todo, found>>
  PROVE  PathsTyped' /\ SearchTyped'
<1>1. open' \in {open, Append(open, p)} /\ open \in Seq(Path)
  BY DEF Answer, TInv, PathsTyped
<1>2. open' \in Seq(Path)
  BY <1>1, AppendProperties
<1>3. search' = Idle /\ located' = [search EXCEPT !.path = p] /\ search \in SearchType
  BY DEF Answer, TInv, SearchTyped
<1>4. Idle \in SearchType
  BY NoPathType DEF Idle, SearchType
<1>5. located' \in SearchType
  BY <1>3 DEF SearchType
<1>6. QED BY <1>2, <1>3, <1>4, <1>5 DEF TInv, PathsTyped, SearchTyped

\* locate_file
LEMMA LocateTyped ==
  ASSUME TInv, LocateBeside \/ Locate \/ NotLocated
  PROVE  PathsTyped' /\ SearchTyped'
<1>1. UNCHANGED <<includes, tests, todo, found>>
  BY DEF LocateBeside, Locate, NotLocated, data, tst
<1>2. CASE LocateBeside
  BY <1>1, <1>2, BesideType, AnswerTyped DEF LocateBeside
<1>3. CASE NotLocated
  BY <1>1, <1>3, NoPathType, AnswerTyped DEF NotLocated
<1>4. CASE Locate
  <2>1. search # Idle /\ Trial \in Path
    BY <1>4, TrialType DEF Locate
  <2>2. CASE Answer(Trial)
    BY <1>1, <2>1, <2>2, AnswerTyped
  <2>3. CASE /\ search' = [search EXCEPT !.k = @ + 1, !.path = Trial]
             /\ UNCHANGED <<open, located>>
    <3>1. search \in SearchType /\ search.k >= 0
      BY <2>1 DEF TInv, SearchTyped
    <3>2. search' = [k |-> search.k + 1, path |-> Trial,
                      wanted |-> search.wanted, from |-> search.from]
      BY <2>3, <3>1 DEF SearchType
    <3>3. search.k + 1 \in Int /\ search.k + 1 >= 0
      BY <3>1 DEF SearchType
    <3>4. search' \in SearchType /\ search'.k >= 0
      BY <2>1, <3>1, <3>2, <3>3 DEF SearchType
    <3>5. QED BY <1>1, <2>3, <3>4 DEF TInv, PathsTyped, SearchTyped
  <2>4. QED BY <1>4, <2>2, <2>3 DEF Locate
<1>5. QED BY <1>2, <1>3, <1>4

LEMMA PathsProgram ==
  ASSUME TInv, \/ OpenFile \/ (\E w \in Wanted : Import(w)) \/ ImportEnds \/ ConfigEnds
               \/ ProgramEnds \/ FileFails \/ ProgramExits
  PROVE  PathsTyped'
<1>1. UNCHANGED <<includes, tests, found>>
  BY DEF OpenFile, Import, ImportEnds, ConfigEnds, ProgramEnds, FileFails, ProgramExits, data, tst
<1>2. todo \in Seq(Path) /\ open \in Seq(Path) /\ tests \in Seq(Path) /\ << >> \in Seq(Path)
  BY DEF TInv, PathsTyped
<1>3. CASE OpenFile
  <2>1. \/ open' = <<Head(todo)>> /\ todo' = Tail(todo)
        \/ UNCHANGED <<todo, open>>
    BY <1>3 DEF OpenFile, files
  <2>2. todo # << >>
    BY <1>3 DEF OpenFile
  <2>3. Head(todo) \in Path /\ Tail(todo) \in Seq(Path)
    BY <1>2, <2>2, HeadTailProperties
  <2>4. <<Head(todo)>> \in Seq(Path)
    BY <2>3
  <2>5. QED BY <1>1, <2>1, <2>3, <2>4 DEF TInv, PathsTyped
<1>4. CASE (\E w \in Wanted : Import(w)) \/ ProgramExits
  <2>1. UNCHANGED <<todo, open>>
    BY <1>4 DEF Import, ProgramExits, files
  <2>2. QED BY <1>1, <2>1 DEF TInv, PathsTyped
<1>5. CASE ImportEnds
  <2>1. open' = SubSeq(open, 1, Len(open) - 1) /\ todo' = todo
    BY <1>5 DEF ImportEnds
  <2>2. \A i \in 1 .. Len(open) - 1 : open[i] \in Path
    BY <1>2
  <2>3. Len(open) - 1 \in Int
    BY <1>2
  <2>4. open' \in Seq(Path)
    BY <2>1, <2>2, <2>3, SubSeqProperties
  <2>5. QED BY <1>1, <2>1, <2>4 DEF TInv, PathsTyped
<1>6. CASE ConfigEnds
  BY <1>1, <1>2, <1>6 DEF ConfigEnds, TInv, PathsTyped
<1>7. CASE ProgramEnds
  <2>1. (at < Len(tests) /\ Begin(tests[at + 1])) \/ UNCHANGED <<todo, open>>
    BY <1>7 DEF ProgramEnds, files
  <2>2. CASE at < Len(tests) /\ Begin(tests[at + 1])
    <3>1. at + 1 \in 1 .. Len(tests)
      BY <1>2, <2>2 DEF TInv, ControlTyped
    <3>2. tests[at + 1] \in Path
      BY <1>2, <3>1
    <3>3. todo' \in Seq(Path) /\ open' \in Seq(Path)
      BY <2>2, <3>2, Begun
    <3>4. QED BY <1>1, <3>3 DEF TInv, PathsTyped
  <2>3. CASE UNCHANGED <<todo, open>>
    BY <1>1, <2>3 DEF TInv, PathsTyped
  <2>4. QED BY <2>1, <2>2, <2>3
<1>8. CASE FileFails
  <2>1. open' \in {open, <<Terminal>>} /\ todo' = todo
    BY <1>8 DEF FileFails
  <2>2. <<Terminal>> \in Seq(Path)
    BY TerminalType
  <2>3. QED BY <1>1, <1>2, <2>1, <2>2 DEF TInv, PathsTyped
<1>9. QED BY <1>3, <1>4, <1>5, <1>6, <1>7, <1>8

\* A file that has been asked for is searched; otherwise what was found stays.
LEMMA SearchBegins ==
  ASSUME TInv, [Next]_vars, ~ (LocateBeside \/ Locate \/ NotLocated)
  PROVE  /\ UNCHANGED located
         /\ \/ UNCHANGED search
            \/ StartRepl /\ pc = "launch" /\ pc' = "read" /\ UNCHANGED includes
               /\ search' \in {Idle, Asked(Config, Terminal)}
            \/ /\ pc = "read" /\ UNCHANGED <<pc, includes>> /\ open # << >>
               /\ \E w \in Wanted : search' = Asked(w, File)
<1>1. CASE StartRepl
  BY <1>1 DEF StartRepl, past, data
<1>2. CASE \E w \in Wanted : Import(w)
  BY <1>2 DEF Import, Reading, past, data
<1>3. CASE \/ Construct \/ ShowHelp \/ OptionNoStd \/ MissingValue \/ OptionInclude \/ OptionTest
           \/ OptionInfo \/ OtherWord \/ OptionsRead
  BY <1>3 DEF Construct, ShowHelp, OptionNoStd, MissingValue, OptionInclude, OptionTest, OptionInfo,
              OtherWord, OptionsRead, past
<1>4. CASE \/ RefuseTarget \/ RunTarget \/ TestApp \/ TestModule \/ TestInstalled
           \/ NoModule \/ FindModule \/ ShowInfo \/ BadModule \/ RunInstalled
  BY <1>4 DEF RefuseTarget, RunTarget, TestApp, TestModule, TestInstalled, NoModule, FindModule,
              ShowInfo, BadModule, RunInstalled, past
<1>5. CASE OpenFile \/ ImportEnds \/ ConfigEnds \/ ProgramEnds \/ FileFails \/ ProgramExits
  BY <1>5 DEF OpenFile, ImportEnds, ConfigEnds, ProgramEnds, FileFails, ProgramExits, past
<1>6. CASE Done \/ UNCHANGED vars
  BY <1>6 DEF Done, vars
<1>7. QED BY <1>1, <1>2, <1>3, <1>4, <1>5, <1>6 DEF Next

LEMMA AskedType ==
  ASSUME NEW w \in Path, NEW from \in Path
  PROVE  /\ Asked(w, from) \in SearchType /\ Asked(w, from) # Idle
         /\ Asked(w, from).k = 0 /\ Asked(w, from).path = w
         /\ Asked(w, from).wanted = w /\ Asked(w, from).from = from
<1>1. Asked(w, from) \in SearchType /\ Asked(w, from).k = 0
  BY DEF Asked, SearchType
<1>2. Idle.k = -1
  BY DEF Idle
<1>3. QED BY <1>1, <1>2 DEF Asked

LEMMA NextTInv == ASSUME TInv, [Next]_vars PROVE TInv'
<1>1. UNCHANGED <<disk, environ, args>>
  <2>1. CASE UNCHANGED vars
    BY <2>1 DEF vars
  <2>2. CASE Next
    BY <2>2 DEF Next, Construct, ShowHelp, OptionNoStd, MissingValue, OptionInclude, OptionTest, OptionInfo,
      OtherWord, OptionsRead, StartRepl, RefuseTarget, RunTarget, TestApp, TestModule, TestInstalled,
      NoModule, FindModule, ShowInfo, BadModule, RunInstalled, OpenFile, Import, LocateBeside, Locate,
      NotLocated, ImportEnds, ConfigEnds, ProgramEnds, FileFails, ProgramExits, Done, vars, given
  <2>3. QED BY <2>1, <2>2
<1>2. CASE UNCHANGED vars \/ Done
  <2>1. UNCHANGED vars
    BY <1>2 DEF Done
  <2>2. ControlTyped' /\ FlagsTyped'
    BY <2>1, ControlKept, FlagsStep DEF TInv, vars
  <2>3. PathsTyped' /\ SearchTyped'
    BY <2>1 DEF TInv, PathsTyped, SearchTyped, vars
  <2>4. QED BY <1>1, <2>2, <2>3 DEF TInv
<1>3. CASE Next /\ ~ Done
  <2>1. ControlTyped'
    BY <1>3, ControlOptions, ControlLaunch, ControlProgram DEF Next
  <2>2. PathsTyped'
    BY <1>3, PathsOptions, PathsLaunch, PathsProgram, LocateTyped DEF Next
  <2>3. SearchTyped'
    <3>1. CASE LocateBeside \/ Locate \/ NotLocated
      BY <3>1, LocateTyped
    <3>2. CASE ~ (LocateBeside \/ Locate \/ NotLocated)
      <4>1. search \in SearchType /\ located \in SearchType /\ (search # Idle => search.k >= 0)
        BY DEF TInv, SearchTyped
      <4>2. CASE search' = search
        BY <3>2, <4>1, <4>2, SearchBegins DEF SearchTyped
      <4>3. CASE search' \in {Idle, Asked(Config, Terminal)}
        <5>1. Idle \in SearchType /\ Config \in Path
          BY NoPathType, NibiPathType DEF Idle, SearchType, TInv
        <5>2. search' \in SearchType /\ (search' # Idle => search'.k >= 0)
          BY <4>3, <5>1, TerminalType, AskedType
        <5>3. QED BY <3>2, <4>1, <5>2, SearchBegins DEF SearchTyped
      <4>4. CASE open # << >> /\ \E w \in Wanted : search' = Asked(w, File)
        <5>1. PICK w \in Wanted : search' = Asked(w, File)
          BY <4>4
        <5>2. w \in Path /\ File \in Path
          BY <4>4, FileType, LaunchAssumption
        <5>3. search' \in SearchType /\ search'.k >= 0
          BY <5>1, <5>2, AskedType
        <5>4. QED BY <3>2, <4>1, <5>3, SearchBegins DEF SearchTyped
      <4>5. QED BY <3>2, <4>2, <4>3, <4>4, SearchBegins
    <3>3. QED BY <3>1, <3>2
  <2>4. QED BY <1>1, <2>1, <2>2, <2>3, FlagsStep DEF TInv
<1>4. QED BY <1>2, <1>3

\* Every variable has its type, and nibi has an exit code exactly when it has
\* ended, for every command line, directory tree, environment and program.
THEOREM LaunchTyped == Spec => []TypeOK
<1>1. TInv => TypeOK
  BY DEF TInv, TypeOK, ControlTyped, FlagsTyped, PathsTyped, SearchTyped, SearchType
<1>2. TInv /\ [Next]_vars => TInv'
  BY NextTInv
<1>3. QED BY InitTInv, <1>1, <1>2, PTL DEF Spec

------------------------------------------------------------------------------
(* What locate_file finds *)

LEMMA FirstIs ==
  ASSUME NEW S, NEW c \in Seq(Path), NEW i \in 1 .. Len(c), c[i] \in S,
         \A j \in 1 .. i - 1 : c[j] \in S => c[j] = c[i]
  PROVE  FirstThat(S, c) = {c[i]}
<1> DEFINE Hits == {j \in 1 .. Len(c) : c[j] \in S}
<1>1. Len(c) \in Nat /\ DOMAIN c = 1 .. Len(c)
  OBVIOUS
<1>2. i \in Hits /\ Hits \subseteq Nat
  BY <1>1
<1>3. PICK f \in Hits : \A j \in Hits : f <= j
  <2> HIDE DEF Hits
  <2>1. QED BY <1>2, LeastIn
<1>4. c[f] = c[i]
  <2>1. f \in Nat /\ f <= i /\ c[f] \in S
    BY <1>2, <1>3
  <2>2. CASE f = i
    BY <2>2
  <2>3. CASE f # i
    <3>1. f \in 1 .. i - 1
      BY <2>1, <2>3, <1>1, <1>3
    <3>2. QED BY <2>1, <3>1
  <2>4. QED BY <2>2, <2>3
<1>5. ASSUME NEW j \in DOMAIN c, c[j] \in S, \A l \in 1 .. j - 1 : c[l] \notin S
      PROVE  j = f
  <2>1. j \in Hits /\ j \in Nat /\ f \in Nat /\ f >= 1
    BY <1>1, <1>5
  <2>2. f <= j
    BY <1>3, <2>1
  <2>3. CASE f < j
    <3>1. f \in 1 .. j - 1
      BY <2>1, <2>3
    <3>2. QED BY <1>5, <3>1
  <2>4. QED BY <2>1, <2>2, <2>3
<1>6. f \in DOMAIN c /\ c[f] \in S /\ \A l \in 1 .. f - 1 : c[l] \notin S
  <2>1. f \in DOMAIN c /\ c[f] \in S /\ f \in 1 .. Len(c)
    BY <1>1
  <2>2. ASSUME NEW l \in 1 .. f - 1 PROVE c[l] \notin S
    <3>1. l \in 1 .. Len(c) /\ ~ (f <= l)
      BY <1>1, <2>1
    <3>2. l \notin Hits
      BY <1>3, <3>1
    <3>3. QED BY <3>1, <3>2
  <2>3. QED BY <2>1, <2>2
<1> HIDE DEF Hits
<1>7. {j \in DOMAIN c : c[j] \in S /\ \A l \in 1 .. j - 1 : c[l] \notin S} = {f}
  BY <1>5, <1>6
<1>8. FirstThat(S, c) = {c[j] : j \in {f}}
  BY <1>7 DEF FirstThat
<1>9. QED BY <1>4, <1>8

\* The importing file's directory.
BesideOf(from, w) == Join(Canonical(Parent(from)), w)

\* p is where the first of the places is that has the file.
Right(p, from, w) ==
  LET c == SearchOrder(from, w)
  IN FirstThat({q \in {c[i] : i \in DOMAIN c} : IsFile(disk, q)}, c) = {p}

\* p is the first of the places that has the file, or one before is p too.
LEMMA RightIf ==
  ASSUME NEW from, NEW w, SearchOrder(from, w) \in Seq(Path),
         NEW i \in 1 .. Len(SearchOrder(from, w)), NEW p, SearchOrder(from, w)[i] = p, IsFile(disk, p),
         \A j \in 1 .. i - 1 : IsFile(disk, SearchOrder(from, w)[j]) => SearchOrder(from, w)[j] = p
  PROVE  Right(p, from, w)
<1> DEFINE c == SearchOrder(from, w)
           S == {q \in {c[j] : j \in DOMAIN c} : IsFile(disk, q)}
<1>1. c \in Seq(Path) /\ c[i] = p /\ i \in 1 .. Len(c) /\ DOMAIN c = 1 .. Len(c)
  OBVIOUS
<1>2. \A j \in 1 .. i - 1 : IsFile(disk, c[j]) => c[j] = p
  OBVIOUS
<1>3. Right(p, from, w) <=> FirstThat(S, c) = {p}
  BY DEF Right
<1> HIDE DEF c
<1>4. c[i] \in S
  BY <1>1
<1>5. \A j \in 1 .. i - 1 : c[j] \in S => c[j] = c[i]
  BY <1>1, <1>2
<1> HIDE DEF S
<1>6. FirstThat(S, c) = {c[i]}
  BY <1>1, <1>4, <1>5, FirstIs
<1>7. QED BY <1>1, <1>3, <1>6

LEMMA SearchOrderIs ==
  ASSUME TInv, NEW from \in Path, NEW w \in Path
  PROVE  /\ SearchOrder(from, w) \in Seq(Path)
         /\ HasParent(from) =>
              /\ Len(SearchOrder(from, w)) >= 2
              /\ SearchOrder(from, w)[1] = BesideOf(from, w) /\ SearchOrder(from, w)[2] = w
              /\ includes # << >> => /\ Len(SearchOrder(from, w)) >= 3
                                     /\ SearchOrder(from, w)[3] = Join(includes[1], w)
         /\ ~ HasParent(from) =>
              /\ Len(SearchOrder(from, w)) >= 1
              /\ SearchOrder(from, w)[1] = w
              /\ includes # << >> => /\ Len(SearchOrder(from, w)) >= 2
                                     /\ SearchOrder(from, w)[2] = Join(includes[1], w)
<1> DEFINE first == IF HasParent(from) THEN <<Join(Canonical(Parent(from)), w)>> ELSE << >>
           mid == [i \in DOMAIN includes |-> Join(includes[i], w)]
           last == IF NibiPath = NoPath THEN << >> ELSE <<Join(NibiPath, w)>>
<1>1. includes \in Seq(Path) /\ NibiPath \in Path
  BY NibiPathType DEF TInv, PathsTyped
<1>2. Len(includes) \in Nat /\ DOMAIN includes = 1 .. Len(includes)
  BY <1>1
<1>3. BesideOf(from, w) \in Path /\ Join(NibiPath, w) \in Path
  BY <1>1, ParentType, CanonicalType, JoinType DEF BesideOf
<1>4. /\ first \in Seq(Path)
      /\ HasParent(from) => Len(first) = 1 /\ first[1] = BesideOf(from, w)
      /\ ~ HasParent(from) => Len(first) = 0
  <2>1. <<BesideOf(from, w)>> \in Seq(Path) /\ << >> \in Seq(Path)
    BY <1>3
  <2>2. first = IF HasParent(from) THEN <<BesideOf(from, w)>> ELSE << >>
    BY DEF BesideOf
  <2> HIDE DEF first
  <2>3. QED BY <2>1, <2>2
<1>5. last \in Seq(Path)
  <2>1. <<Join(NibiPath, w)>> \in Seq(Path) /\ << >> \in Seq(Path)
    BY <1>3
  <2>2. QED BY <2>1
<1>6. mid \in Seq(Path) /\ Len(mid) = Len(includes)
  <2>1. ASSUME NEW j \in 1 .. Len(includes) PROVE Join(includes[j], w) \in Path
    <3>1. includes[j] \in Path
      BY <1>1
    <3>2. QED BY <3>1, JoinType
  <2>2. mid \in [1 .. Len(includes) -> Path]
    BY <1>2, <2>1
  <2> HIDE DEF mid
  <2>3. QED BY <1>2, <2>2, SeqDef
<1>7. includes # << >> => 1 \in 1 .. Len(includes) /\ mid[1] = Join(includes[1], w)
  BY <1>1, <1>2, EmptySeq
<1>8. SearchOrder(from, w) = first \o <<w>> \o mid \o last
  BY DEF SearchOrder
<1> DEFINE c == SearchOrder(from, w)
           one == first \o <<w>>
           two == one \o mid
<1>9. c = two \o last
  BY <1>8
<1> HIDE DEF first, mid, last, c
<1>10. <<w>> \in Seq(Path) /\ Len(<<w>>) = 1 /\ <<w>>[1] = w
  OBVIOUS
<1>11. /\ one \in Seq(Path) /\ Len(one) = Len(first) + 1
       /\ \A i \in 1 .. Len(first) + 1 : one[i] = IF i <= Len(first) THEN first[i] ELSE <<w>>[i - Len(first)]
  BY <1>4, <1>10, ConcatProperties
<1> HIDE DEF one
<1>12. /\ two \in Seq(Path) /\ Len(two) = Len(one) + Len(mid)
       /\ \A i \in 1 .. Len(one) + Len(mid) : two[i] = IF i <= Len(one) THEN one[i] ELSE mid[i - Len(one)]
  <2>1. one \in Seq(Path) /\ mid \in Seq(Path)
    BY <1>6, <1>11
  <2>2. QED BY <2>1, ConcatProperties
<1> HIDE DEF two
<1>13. /\ c \in Seq(Path) /\ Len(c) = Len(two) + Len(last)
       /\ \A i \in 1 .. Len(two) + Len(last) : c[i] = IF i <= Len(two) THEN two[i] ELSE last[i - Len(two)]
  BY <1>5, <1>9, <1>12, ConcatProperties
<1>14. Len(last) \in Nat /\ Len(first) \in Nat /\ Len(mid) \in Nat
  BY <1>4, <1>5, <1>6
<1>15. \A i \in 1 .. Len(two) : c[i] = two[i] /\ i \in 1 .. Len(c)
  BY <1>13, <1>14, <1>12, <1>11
<1>16. \A i \in 1 .. Len(one) : c[i] = one[i] /\ i \in 1 .. Len(c)
  BY <1>11, <1>12, <1>14, <1>15
<1>17. c[Len(first) + 1] = w /\ Len(first) + 1 \in 1 .. Len(c)
  BY <1>10, <1>11, <1>14, <1>16
<1>18. includes # << >> => c[Len(first) + 2] = Join(includes[1], w) /\ Len(first) + 2 \in 1 .. Len(c)
  <2>1. SUFFICES ASSUME includes # << >>
                 PROVE  c[Len(first) + 2] = Join(includes[1], w) /\ Len(first) + 2 \in 1 .. Len(c)
    OBVIOUS
  <2>2. Len(mid) >= 1 /\ mid[1] = Join(includes[1], w)
    BY <1>6, <1>7, <1>2, <2>1
  <2>3. Len(first) + 2 \in 1 .. Len(two) /\ ~ (Len(first) + 2 <= Len(one)) /\ Len(first) + 2 - Len(one) = 1
    BY <1>11, <1>12, <1>14, <2>2
  <2>4. two[Len(first) + 2] = mid[1]
    BY <1>12, <2>3
  <2>5. QED BY <1>15, <2>2, <2>3, <2>4
<1>19. HasParent(from) => c[1] = BesideOf(from, w)
  BY <1>4, <1>11, <1>14, <1>16
<1>20. CASE HasParent(from)
  <2>1. Len(first) = 1
    BY <1>4, <1>20, Zenon
  <2>2. Len(first) + 1 = 2 /\ Len(first) + 2 = 3
    BY <2>1
  <2>3. QED BY <1>13, <1>14, <1>17, <1>18, <1>19, <1>20, <2>2 DEF c
<1>21. CASE ~ HasParent(from)
  <2>1. Len(first) = 0
    BY <1>4, <1>21, Zenon
  <2>2. Len(first) + 1 = 1 /\ Len(first) + 2 = 2
    BY <2>1
  <2>3. QED BY <1>13, <1>14, <1>17, <1>18, <1>21, <2>2 DEF c
<1>22. QED BY <1>20, <1>21

\* A file beside the importing one is in a directory.
LEMMA BesideIsThere ==
  ASSUME disk \in Disks, NEW from \in Path, HasParent(from), NEW w \in Path \ {NoPath},
         IsFile(disk, BesideOf(from, w))
  PROVE  BesideOf(from, w) = w \/ IsDir(disk, Parent(from))
<1> DEFINE dir == Parent(from)
           up == Canonical(dir)
           d == BesideOf(from, w)
<1>1. dir \in Path /\ up \in Path /\ up.abs /\ d = Join(up, w)
  BY ParentType, CanonicalType DEF BesideOf
<1>2. CASE w.abs
  BY <1>1, <1>2, JoinType
<1>3. CASE ~ w.abs
  <2> HIDE DEF d, up
  <2>1. d \in Path /\ d.abs /\ d.parts = up.parts \o w.parts /\ Canonical(d) = d
    <3>1. d \in Path /\ d.abs /\ d.parts = up.parts \o w.parts
      BY <1>1, <1>3, JoinType
    <3>2. QED BY <3>1, CanonicalType
  <2>2. d.parts \in DOMAIN disk
    <3>1. Canonical(d).parts \in DOMAIN disk
      <4>1. Kind(disk, d) = "file"
        BY DEF IsFile, d
      <4>2. QED BY <4>1 DEF Kind
    <3>2. QED BY <2>1, <3>1
  <2>3. w.parts \in Seq(STRING) /\ w.parts # << >>
    <3>1. w = [abs |-> w.abs, parts |-> w.parts] /\ w.parts \in Seq(STRING) /\ w.abs \in BOOLEAN
      BY DEF Path
    <3>2. ASSUME w.parts = << >> PROVE FALSE
      <4>1. w.abs = FALSE
        BY <1>3, <3>1, Zenon
      <4>2. QED BY <3>1, <3>2, <4>1 DEF NoPath
    <3>3. QED BY <3>1, <3>2
  <2>4. Len(w.parts) \in Nat /\ Len(w.parts) > 0
    BY <2>3, EmptySeq
  <2> DEFINE a == up.parts
             b == w.parts
             q == d.parts
             n == Len(a)
  <2>5. a \in Seq(STRING) /\ n \in Nat
    BY <1>1 DEF Path
  <2>6. q = a \o b /\ b \in Seq(STRING) /\ Len(b) > 0 /\ q \in DOMAIN disk /\ Len(b) \in Nat
    BY <2>1, <2>2, <2>3, <2>4
  <2>7. n = Len(a)
    OBVIOUS
  <2> HIDE DEF a, b, q, n
  <2>8. /\ q \in Seq(STRING) /\ Len(q) = n + Len(b)
        /\ \A i \in 1 .. n + Len(b) : q[i] = IF i <= n THEN a[i] ELSE b[i - n]
    BY <2>5, <2>6, <2>7, ConcatProperties
  <2>9. n \in 0 .. Len(q) - 1
    BY <2>5, <2>6, <2>8
  <2>10. SubSeq(q, 1, n) = a
    <3> DEFINE s == SubSeq(q, 1, n)
    <3>1. \A i \in 1 .. n : q[i] \in STRING /\ q[i] = a[i]
      BY <2>5, <2>6, <2>7, <2>8
    <3>2. s \in Seq(STRING) /\ Len(s) = n /\ \A i \in 1 .. n : s[i] = q[i]
      <4>1. /\ s \in Seq(STRING) /\ Len(s) = IF 1 <= n THEN n - 1 + 1 ELSE 0
            /\ \A i \in 1 .. n - 1 + 1 : s[i] = q[1 + i - 1]
        BY <2>5, <3>1, SubSeqProperties
      <4> HIDE DEF s
      <4>2. QED BY <2>5, <4>1
    <3> HIDE DEF s
    <3>3. s = a
      BY <2>5, <2>7, <3>1, <3>2, SeqEqual
    <3>4. QED BY <3>3 DEF s
  <2>11. a \in DOMAIN disk /\ disk[a] = "dir"
    <3>1. InDirectories(disk)
      BY LaunchAssumption
    <3>2. SubSeq(q, 1, n) \in DOMAIN disk /\ disk[SubSeq(q, 1, n)] = "dir"
      BY <2>6, <2>9, <3>1 DEF InDirectories
    <3>3. QED BY <2>10, <3>2
  <2>12. dir # NoPath
    <3>1. dir.abs = from.abs /\ (Len(from.parts) > 1 => dir # NoPath)
      BY ParentParts
    <3>2. QED BY <3>1, NoPathType DEF HasParent
  <2>13. Kind(disk, dir) = "dir"
    BY <2>11, <2>12 DEF Kind, a, up
  <2>14. QED BY <2>13 DEF IsDir
<1>4. QED BY <1>2, <1>3

LEMMA RightBeside ==
  ASSUME TInv, NEW from \in Path, NEW w \in Path, HasParent(from), IsFile(disk, BesideOf(from, w))
  PROVE  Right(BesideOf(from, w), from, w)
<1>1. /\ SearchOrder(from, w) \in Seq(Path) /\ 1 \in 1 .. Len(SearchOrder(from, w))
      /\ SearchOrder(from, w)[1] = BesideOf(from, w)
  BY SearchOrderIs
<1>2. 1 .. 1 - 1 = {}
  OBVIOUS
<1>3. QED BY <1>1, <1>2, RightIf

LEMMA RightWanted ==
  ASSUME TInv, NEW from \in Path, NEW w \in Path, IsFile(disk, w),
         HasParent(from) /\ IsFile(disk, BesideOf(from, w)) => BesideOf(from, w) = w
  PROVE  Right(w, from, w)
<1> DEFINE i == IF HasParent(from) THEN 2 ELSE 1
           c == SearchOrder(from, w)
<1>1. c \in Seq(Path) /\ i \in 1 .. Len(c) /\ c[i] = w
  <2>1. CASE HasParent(from)
    <3>1. c \in Seq(Path) /\ Len(c) >= 2 /\ c[2] = w
      BY <2>1, SearchOrderIs
    <3>2. Len(c) \in Nat
      BY <3>1
    <3> HIDE DEF c
    <3>3. QED BY <2>1, <3>1, <3>2
  <2>2. CASE ~ HasParent(from)
    <3>1. c \in Seq(Path) /\ Len(c) >= 1 /\ c[1] = w
      BY <2>2, SearchOrderIs
    <3>2. Len(c) \in Nat
      BY <3>1
    <3> HIDE DEF c
    <3>3. QED BY <2>2, <3>1, <3>2
  <2>3. QED BY <2>1, <2>2
<1>2. ASSUME NEW j \in 1 .. i - 1, IsFile(disk, SearchOrder(from, w)[j])
      PROVE  SearchOrder(from, w)[j] = w
  <2>1. HasParent(from) /\ j = 1
    OBVIOUS
  <2>2. SearchOrder(from, w)[j] = BesideOf(from, w)
    BY <2>1, SearchOrderIs
  <2>3. QED BY <1>2, <2>1, <2>2
<1> HIDE DEF i
<1>3. QED BY <1>1, <1>2, RightIf

LEMMA RightIncluded ==
  ASSUME TInv, NEW from \in Path, NEW w \in Path, includes # << >>,
         IsFile(disk, Join(includes[1], w)), ~ IsFile(disk, w),
         HasParent(from) /\ IsFile(disk, BesideOf(from, w)) => BesideOf(from, w) = w
  PROVE  Right(Join(includes[1], w), from, w)
<1> DEFINE i == IF HasParent(from) THEN 3 ELSE 2
           p == Join(includes[1], w)
           c == SearchOrder(from, w)
<1>1. c \in Seq(Path) /\ i \in 1 .. Len(c) /\ c[i] = p
  <2>1. CASE HasParent(from)
    <3>1. c \in Seq(Path) /\ Len(c) >= 3 /\ c[3] = p
      BY <2>1, SearchOrderIs
    <3>2. Len(c) \in Nat
      BY <3>1
    <3> HIDE DEF c, p
    <3>3. QED BY <2>1, <3>1, <3>2
  <2>2. CASE ~ HasParent(from)
    <3>1. c \in Seq(Path) /\ Len(c) >= 2 /\ c[2] = p
      BY <2>2, SearchOrderIs
    <3>2. Len(c) \in Nat
      BY <3>1
    <3> HIDE DEF c, p
    <3>3. QED BY <2>2, <3>1, <3>2
  <2>3. QED BY <2>1, <2>2
<1>2. ASSUME NEW j \in 1 .. i - 1, IsFile(disk, c[j])
      PROVE  c[j] = p
  <2>1. CASE HasParent(from)
    <3>1. c[1] = BesideOf(from, w) /\ c[2] = w /\ j \in {1, 2}
      BY <2>1, SearchOrderIs
    <3>2. QED BY <1>2, <2>1, <3>1
  <2>2. CASE ~ HasParent(from)
    <3>1. c[1] = w /\ j = 1
      BY <2>2, SearchOrderIs
    <3>2. QED BY <1>2, <3>1
  <2>3. QED BY <2>1, <2>2
<1>3. IsFile(disk, p)
  OBVIOUS
<1> HIDE DEF i, p
<1>4. Right(p, from, w)
  BY <1>1, <1>2, <1>3, RightIf
<1>5. QED BY <1>4 DEF p

------------------------------------------------------------------------------
(* The include directories: the first is absolute *)

\* What nibi is given is absolute.
AbsoluteGiven ==
  /\ \A h \in Homes : (h.nibi = NoPath \/ h.nibi.abs) /\ (h.home = NoPath \/ h.home.abs)
  /\ \A w \in Words : \A i \in 1 .. Len(DirsOf[w]) : DirsOf[w][i].abs

Included ==
  /\ includes # << >> => includes[1].abs
  /\ pc = "start" => includes = << >> /\ (useStd <=> TRUE)
  /\ pc # "start" /\ NibiPath # NoPath => includes # << >>
  /\ pc \in {"tests", "module"} => includes # << >>

LEMMA NibiPathAbs == ASSUME TInv, AbsoluteGiven PROVE NibiPath = NoPath \/ NibiPath.abs
<1>1. /\ environ \in [nibi : Path, home : Path]
      /\ environ.nibi = NoPath \/ environ.nibi.abs
      /\ environ.home = NoPath \/ environ.home.abs
  BY LaunchAssumption DEF TInv, AbsoluteGiven
<1>2. CASE environ.nibi # NoPath
  BY <1>1, <1>2 DEF NibiPath
<1>3. CASE environ.nibi = NoPath /\ environ.home = NoPath
  <2>1. ~ Exists(disk, environ.home)
    BY <1>3 DEF Exists, Kind
  <2>2. QED BY <1>3, <2>1 DEF NibiPath
<1>4. CASE environ.nibi = NoPath /\ environ.home # NoPath
  <2>1. environ.home.abs /\ environ.home \in Path
    BY <1>1, <1>4
  <2>2. Within(environ.home, ".nibi").abs
    BY <2>1, WithinType, LiteralsAreStrings
  <2>3. NibiPath \in {Within(environ.home, ".nibi"), NoPath}
    BY <1>4 DEF NibiPath
  <2>4. QED BY <2>2, <2>3
<1>5. QED BY <1>2, <1>3, <1>4

LEMMA NibiPathKept == ASSUME UNCHANGED <<disk, environ>> PROVE NibiPath' = NibiPath
BY DEF NibiPath

LEMMA IncludedKept ==
  ASSUME Included, UNCHANGED <<disk, environ, includes>>, pc # "start", pc' # "start",
         pc' \in {"tests", "module"} => pc \in {"tests", "module"}
  PROVE  Included'
BY NibiPathKept DEF Included

\* Directories are added after those there are.
LEMMA IncludedMore ==
  ASSUME TInv, Included, UNCHANGED <<disk, environ>>, pc # "start", pc' # "start",
         NEW more \in Seq(Path), includes' = includes \o more,
         includes = << >> /\ more # << >> => more[1].abs,
         pc' \in {"tests", "module"} => includes # << >> \/ more # << >>
  PROVE  Included'
<1>1. includes \in Seq(Path) /\ Len(includes) \in Nat /\ Len(more) \in Nat
  BY DEF TInv, PathsTyped
<1>2. /\ includes' \in Seq(Path) /\ Len(includes') = Len(includes) + Len(more)
      /\ \A i \in 1 .. Len(includes) + Len(more) :
           includes'[i] = IF i <= Len(includes) THEN includes[i] ELSE more[i - Len(includes)]
  BY <1>1, ConcatProperties
<1>3. /\ includes # << >> => Len(includes) >= 1
      /\ more # << >> => Len(more) >= 1
      /\ includes = << >> => Len(includes) = 0
      /\ more = << >> => Len(more) = 0
      /\ includes' = << >> => Len(includes') = 0
  BY <1>1, EmptySeq
<1>4. includes # << >> => includes' # << >> /\ includes'[1] = includes[1]
  BY <1>1, <1>2, <1>3
<1>5. includes = << >> /\ more # << >> => includes' # << >> /\ includes'[1] = more[1]
  BY <1>1, <1>2, <1>3
<1>6. includes = << >> /\ more = << >> => includes' = << >>
  BY <1>1, <1>2, <1>3, EmptySeq
<1>7. includes' # << >> => includes'[1].abs
  BY <1>4, <1>5, <1>6 DEF Included
<1>8. NibiPath' # NoPath => includes' # << >>
  BY <1>4, NibiPathKept DEF Included
<1>9. QED BY <1>4, <1>5, <1>7, <1>8 DEF Included

LEMMA IncludedOne ==
  ASSUME TInv, Included, UNCHANGED <<disk, environ>>, pc # "start", pc' # "start",
         NEW p \in Path, includes' = Append(includes, p), includes # << >> \/ p.abs
  PROVE  Included'
<1>1. <<p>> \in Seq(Path) /\ <<p>> # << >> /\ <<p>>[1] = p
  OBVIOUS
<1>2. includes \in Seq(Path)
  BY DEF TInv, PathsTyped
<1>3. includes' = includes \o <<p>>
  BY <1>2, AppendIsConcat
<1> DEFINE more == <<p>>
<1> HIDE DEF more
<1>4. more \in Seq(Path) /\ more # << >> /\ more[1] = p /\ includes' = includes \o more
  BY <1>1, <1>3 DEF more
<1>5. QED BY <1>4, IncludedMore

LEMMA IncludedOptions ==
  ASSUME TInv, AbsoluteGiven, Included, UNCHANGED <<disk, environ>>,
         \/ Construct \/ ShowHelp \/ OptionNoStd \/ MissingValue \/ OptionInclude \/ OptionTest
         \/ OptionInfo \/ OtherWord \/ OptionsRead
  PROVE  Included'
<1>1. CASE Construct
  <2>1. pc' = "options" /\ pc = "start" /\ includes = << >> /\ useStd
    BY <1>1 DEF Construct, Included
  <2>2. (NibiPath # NoPath /\ includes' = Append(includes, NibiPath)) \/ (NibiPath = NoPath /\ includes' = << >>)
    BY <1>1, <2>1 DEF Construct, Reinit
  <2>3. NibiPath \in Path /\ Append(<< >>, NibiPath) = <<NibiPath>>
    BY NibiPathType DEF TInv
  <2>4. <<NibiPath>> # << >> /\ <<NibiPath>>[1] = NibiPath
    OBVIOUS
  <2>5. CASE NibiPath # NoPath /\ includes' = Append(includes, NibiPath)
    <3>1. includes' = <<NibiPath>>
      BY <2>1, <2>3, <2>5
    <3>2. includes' # << >> /\ includes'[1] = NibiPath /\ NibiPath.abs
      BY <2>4, <2>5, <3>1, NibiPathAbs
    <3>3. QED BY <2>1, <3>2 DEF Included
  <2>6. CASE NibiPath = NoPath /\ includes' = << >>
    BY <2>1, <2>6, NibiPathKept DEF Included
  <2>7. QED BY <2>2, <2>5, <2>6
<1>2. CASE ShowHelp \/ OptionNoStd \/ MissingValue \/ OtherWord \/ OptionsRead
  BY <1>2, IncludedKept DEF ShowHelp, OptionNoStd, MissingValue, OtherWord, OptionsRead, AtWord, Exit, data
<1>3. CASE OptionInclude
  <2>1. pos + 1 \in 1 .. Len(args)
    BY <1>3 DEF OptionInclude, TInv, ControlTyped
  <2> DEFINE more == DirsOf[args[pos + 1]]
  <2>2. more \in Seq(Path) /\ args[pos + 1] \in Words
    BY <2>1, WordType
  <2>3. \A i \in 1 .. Len(more) : more[i].abs
    BY <2>2 DEF AbsoluteGiven
  <2>4. includes' = includes \o more /\ pc = "options" /\ pc' = pc
    BY <1>3 DEF OptionInclude, AtWord
  <2> HIDE DEF more
  <2>5. more # << >> => more[1].abs
    BY <2>2, <2>3, EmptySeq
  <2>6. QED BY <2>2, <2>4, <2>5, IncludedMore
<1>4. CASE OptionTest \/ OptionInfo
  <2>1. includes' = Append(includes, Cwd) /\ pc # "start" /\ pc' # "start"
    BY <1>4 DEF OptionTest, OptionInfo, AtWord
  <2>2. QED BY <2>1, IncludedOne, PathsAssumption
<1>5. QED BY <1>1, <1>2, <1>3, <1>4

LEMMA IncludedLaunch ==
  ASSUME TInv, AbsoluteGiven, Included, UNCHANGED <<disk, environ>>,
         \/ StartRepl \/ RefuseTarget \/ RunTarget \/ TestApp \/ TestModule \/ TestInstalled
         \/ NoModule \/ FindModule \/ ShowInfo \/ BadModule \/ RunInstalled
  PROVE  Included'
<1>1. CASE StartRepl \/ RefuseTarget \/ TestInstalled \/ NoModule \/ FindModule \/ ShowInfo \/ BadModule
  BY <1>1, IncludedKept DEF StartRepl, RefuseTarget, TestInstalled, NoModule, FindModule, ShowInfo,
     BadModule, Exit, data
<1>2. CASE RunTarget
  <2>1. pc = "launch" /\ includes' = Append(includes, Entry) /\ pc' \in {"read", "done"}
    BY <1>2 DEF RunTarget, Begin, Exit
  <2>2. PathOf[target] \in Path
    BY <1>2, TargetType DEF RunTarget
  <2>3. Canonical(PathOf[target]) \in Path /\ Canonical(PathOf[target]).abs
    BY <2>2, CanonicalType
  <2>4. /\ Parent(Canonical(PathOf[target])) \in Path
        /\ Parent(Canonical(PathOf[target])).abs
    BY <2>3, ParentType, ParentParts
  <2>5. Entry \in Path /\ Entry.abs
    BY <2>3, <2>4 DEF Entry
  <2>6. QED BY <2>1, <2>5, IncludedOne
<1>3. ASSUME pc \in {"tests", "module"}, NEW S, RunEach(S) PROVE pc' # "start" /\ pc' \notin {"tests", "module"}
  BY <1>3 DEF RunEach, Begin, Exit
<1>4. CASE TestApp
  <2>1. /\ pc = "tests" /\ includes' = Append(includes, PathOf[target])
        /\ RunLocal(PathOf[target])
    BY <1>4 DEF TestApp
  <2>2. target \in Words /\ includes # << >> /\ pc' # "start"
    BY <1>3, <2>1 DEF TInv, ControlTyped, Included, RunLocal
  <2>3. PathOf[target] \in Path
    BY <2>2, ModuleType
  <2>4. QED BY <2>1, <2>2, <2>3, IncludedOne
<1>5. CASE TestModule
  <2> DEFINE up == IF HasParent(Module) THEN <<Parent(Module)>> ELSE << >>
             more == up \o <<Module>>
  <2>1. pc = "tests" /\ includes' = includes \o up \o <<Module>> /\ RunLocal(Module)
    BY <1>5 DEF TestModule
  <2>2. target \in Words /\ includes # << >> /\ pc' # "start"
    BY <1>3, <2>1 DEF TInv, ControlTyped, Included, RunLocal
  <2>3. Module \in Path /\ Parent(Module) \in Path
    BY <2>2, ModuleType, ParentType
  <2>4. up \in Seq(Path) /\ <<Module>> \in Seq(Path)
    <3>1. <<Parent(Module)>> \in Seq(Path) /\ << >> \in Seq(Path) /\ <<Module>> \in Seq(Path)
      BY <2>3
    <3>2. QED BY <3>1
  <2> HIDE DEF up
  <2>5. includes \in Seq(Path)
    BY DEF TInv, PathsTyped
  <2>6. more \in Seq(Path) /\ includes' = includes \o more
    BY <2>1, <2>4, <2>5, ConcatProperties, ConcatAssociative
  <2> HIDE DEF more
  <2>7. QED BY <2>1, <2>2, <2>6, IncludedMore
<1>6. CASE RunInstalled
  <2>1. pc = "module" /\ includes # << >>
    BY <1>6 DEF RunInstalled, Included
  <2>2. CASE RunEach(ModuleTests) /\ UNCHANGED data
    BY <1>3, <2>1, <2>2, IncludedKept DEF data
  <2>3. CASE Exit(0) /\ Reinit(includes)
    <3>1. pc' = "done" /\ (includes' = includes \/ includes' = Append(includes, NibiPath))
      BY <2>3 DEF Exit, Reinit
    <3>2. NibiPath \in Path
      BY NibiPathType DEF TInv
    <3>3. QED BY <2>1, <3>1, <3>2, IncludedKept, IncludedOne
  <2>4. QED BY <1>6, <2>2, <2>3 DEF RunInstalled
<1>7. QED BY <1>1, <1>2, <1>4, <1>5, <1>6

\* While programs run, the directories stay.
LEMMA ReadingStays ==
  ASSUME [Next]_vars, pc \in {"read", "done"}
  PROVE  pc' \in {"read", "done"} /\ includes' = includes
<1>1. CASE OpenFile \/ (\E w \in Wanted : Import(w)) \/ LocateBeside \/ Locate \/ NotLocated
           \/ ImportEnds \/ ConfigEnds \/ FileFails \/ ProgramExits
  BY <1>1 DEF OpenFile, Import, LocateBeside, Locate, NotLocated, ImportEnds, ConfigEnds,
     FileFails, ProgramExits, Exit, data
<1>2. CASE ProgramEnds
  BY <1>2 DEF ProgramEnds, Begin, Exit, data
<1>3. CASE Done \/ UNCHANGED vars
  BY <1>3 DEF Done, vars
<1>4. CASE \/ Construct \/ ShowHelp \/ OptionNoStd \/ MissingValue \/ OptionInclude \/ OptionTest
           \/ OptionInfo \/ OtherWord \/ OptionsRead
  BY <1>4 DEF Construct, ShowHelp, OptionNoStd, MissingValue, OptionInclude, OptionTest,
     OptionInfo, OtherWord, OptionsRead, AtWord
<1>5. CASE \/ StartRepl \/ RefuseTarget \/ RunTarget \/ TestApp \/ TestModule \/ TestInstalled
           \/ NoModule \/ FindModule \/ ShowInfo \/ BadModule \/ RunInstalled
  BY <1>5 DEF StartRepl, RefuseTarget, RunTarget, TestApp, TestModule, TestInstalled, NoModule,
     FindModule, ShowInfo, BadModule, RunInstalled
<1>6. QED BY <1>1, <1>2, <1>3, <1>4, <1>5 DEF Next

LEMMA InitIncluded == Init => Included
<1>1. Init => pc = "start" /\ includes = << >> /\ (useStd <=> TRUE)
  BY Zenon DEF Init
<1>2. QED BY <1>1 DEF Included

LEMMA GivenKept == ASSUME [Next]_vars PROVE UNCHANGED <<disk, environ>>
<1>1. CASE UNCHANGED vars \/ Done
  BY <1>1 DEF Done, vars
<1>2. CASE Next /\ ~ Done
  BY <1>2 DEF Next, Construct, ShowHelp, OptionNoStd, MissingValue, OptionInclude, OptionTest, OptionInfo,
    OtherWord, OptionsRead, StartRepl, RefuseTarget, RunTarget, TestApp, TestModule, TestInstalled,
    NoModule, FindModule, ShowInfo, BadModule, RunInstalled, OpenFile, Import, LocateBeside, Locate,
    NotLocated, ImportEnds, ConfigEnds, ProgramEnds, FileFails, ProgramExits, given
<1>3. QED BY <1>1, <1>2

LEMMA NextIncluded == ASSUME TInv, AbsoluteGiven, Included, [Next]_vars PROVE Included'
<1>1. UNCHANGED <<disk, environ>>
  BY GivenKept
<1>2. CASE pc \in {"read", "done"}
  BY <1>1, <1>2, ReadingStays, IncludedKept
<1>3. CASE UNCHANGED vars
  <2>1. UNCHANGED <<disk, environ, includes, pc, useStd>> /\ NibiPath' = NibiPath
    BY <1>1, <1>3, NibiPathKept DEF vars
  <2>2. QED BY <2>1, Zenon DEF Included
<1>4. CASE pc \notin {"read", "done"} /\ Next
  <2>1. ~ Done /\ ~ OpenFile /\ ~ (\E w \in Wanted : Import(w)) /\ ~ LocateBeside /\ ~ Locate /\ ~ NotLocated
        /\ ~ ImportEnds /\ ~ ConfigEnds /\ ~ ProgramEnds /\ ~ FileFails /\ ~ ProgramExits
    BY <1>4 DEF Done, OpenFile, Import, LocateBeside, Locate, NotLocated, ImportEnds, ConfigEnds,
       ProgramEnds, FileFails, ProgramExits, Reading
  <2>2. QED BY <1>1, <1>4, <2>1, IncludedOptions, IncludedLaunch DEF Next
<1>5. QED BY <1>2, <1>3, <1>4

------------------------------------------------------------------------------
(* No wrong file *)

\* Where the search has been, the file is not; after the first include directory
\* file_path is absolute and stays.
Looking ==
  LET w == search.wanted
  IN /\ w # NoPath
     /\ search.k <= 1 => search.path = w
     /\ search.k >= 1 => ~ IsFile(disk, Beside) /\ ~ IsFile(disk, w)
     /\ search.k >= 2 => /\ includes # << >> /\ search.path = Join(includes[1], w)
                         /\ ~ IsFile(disk, search.path)

FInv ==
  /\ TInv /\ Included
  /\ pc \notin {"read", "done"} => search = Idle /\ located = Idle
  /\ search # Idle => Looking
  /\ NeverTheWrongFile

\* The places, of what they are made.
SearchOrderIn(incl, nibi, from, w) ==
  (IF HasParent(from) THEN <<Join(Canonical(Parent(from)), w)>> ELSE << >>)
  \o <<w>> \o [i \in DOMAIN incl |-> Join(incl[i], w)]
  \o (IF nibi = NoPath THEN << >> ELSE <<Join(nibi, w)>>)

RightIn(d, incl, nibi, p, from, w) ==
  LET c == SearchOrderIn(incl, nibi, from, w)
  IN FirstThat({q \in {c[i] : i \in DOMAIN c} : IsFile(d, q)}, c) = {p}

LEMMA RightIs ==
  ASSUME NEW p, NEW from, NEW w
  PROVE  Right(p, from, w) <=> RightIn(disk, includes, NibiPath, p, from, w)
<1>1. SearchOrder(from, w) = SearchOrderIn(includes, NibiPath, from, w)
  BY DEF SearchOrder, SearchOrderIn
<1>2. QED BY <1>1 DEF Right, RightIn

LEMMA NeverIs ==
  NeverTheWrongFile <=>
    (located.path # NoPath =>
       RightIn(disk, includes, NibiPath, located.path, located.from, located.wanted))
<1>1. SearchOrder(located.from, located.wanted)
      = SearchOrderIn(includes, NibiPath, located.from, located.wanted)
  BY DEF SearchOrder, SearchOrderIn
<1>2. QED BY <1>1 DEF NeverTheWrongFile, FilesOf, RightIn

LEMMA NeverIsNext ==
  NeverTheWrongFile' <=>
    (located'.path # NoPath =>
       RightIn(disk', includes', NibiPath', located'.path, located'.from, located'.wanted))
<1>1. SearchOrder(located.from, located.wanted)'
      = SearchOrderIn(includes', NibiPath', located'.from, located'.wanted)
  BY DEF SearchOrder, SearchOrderIn
<1>2. QED BY <1>1 DEF NeverTheWrongFile, FilesOf, RightIn

\* Nothing new has been found.
LEMMA NeverKept ==
  ASSUME NeverTheWrongFile, UNCHANGED <<disk, environ, includes, located>>
  PROVE  NeverTheWrongFile'
BY NeverIs, NeverIsNext, NibiPathKept

\* What has been found is right.
LEMMA NeverFound ==
  ASSUME UNCHANGED <<disk, environ, includes>>, NEW p, located'.path = p,
         p # NoPath => Right(p, search.from, search.wanted),
         located'.from = search.from, located'.wanted = search.wanted
  PROVE  NeverTheWrongFile'
<1>1. p # NoPath => RightIn(disk, includes, NibiPath, p, search.from, search.wanted)
  BY RightIs
<1>2. QED BY <1>1, NeverIsNext, NibiPathKept

LEMMA LookingKept ==
  ASSUME Looking, UNCHANGED <<disk, includes, search>>
  PROVE  Looking'
BY DEF Looking, Beside

\* An answer p is kept as it was asked for.
LEMMA AnswerKept ==
  ASSUME TInv, NEW p \in Path, Answer(p)
  PROVE  located'.path = p /\ located'.from = search.from /\ located'.wanted = search.wanted
         /\ search' = Idle
<1>1. search \in SearchType
  BY DEF TInv, SearchTyped
<1>2. QED BY <1>1 DEF Answer, SearchType

\* The file beside the importing one has been ruled out.
LEMMA NotBeside ==
  ASSUME TInv, search # Idle, search.wanted # NoPath, ~ IsFile(disk, Beside),
         HasParent(search.from), IsFile(disk, BesideOf(search.from, search.wanted))
  PROVE  BesideOf(search.from, search.wanted) = search.wanted
<1>1. disk \in Disks /\ search.from \in Path /\ search.wanted \in Path \ {NoPath}
  BY DEF TInv, SearchTyped, SearchType
<1>2. ~ IsDir(disk, Parent(search.from))
  <2>1. ASSUME IsDir(disk, Parent(search.from)) PROVE FALSE
    <3>1. Beside = BesideOf(search.from, search.wanted)
      BY <2>1 DEF Beside, BesideOf
    <3>2. QED BY <3>1
  <2>2. QED BY <2>1
<1>3. QED BY <1>1, <1>2, BesideIsThere

LEMMA BesideStep ==
  ASSUME FInv, LocateBeside, UNCHANGED <<disk, environ>>
  PROVE  NeverTheWrongFile' /\ search' = Idle
<1>1. TInv /\ IsFile(disk, Beside) /\ Answer(Beside) /\ includes' = includes
  BY DEF FInv, LocateBeside, data
<1>2. Beside \in Path
  BY <1>1, BesideType
<1>3. search.from \in Path /\ search.wanted \in Path
  BY <1>1 DEF TInv, SearchTyped, SearchType
<1>4. ~ IsFile(disk, NoPath)
  BY DEF IsFile, Kind
<1>5. HasParent(search.from) /\ Beside = BesideOf(search.from, search.wanted)
  <2>1. Beside # NoPath
    BY <1>1, <1>4
  <2>2. QED BY <2>1 DEF Beside, BesideOf
<1>6. Right(Beside, search.from, search.wanted)
  BY <1>1, <1>3, <1>5, RightBeside
<1>7. QED BY <1>1, <1>2, <1>6, AnswerKept, NeverFound

\* An absolute path stays what it is wherever it is looked for.
LEMMA TrialAbsolute ==
  ASSUME TInv, search # Idle, search.path.abs
  PROVE  Trial = search.path
<1>1. search.k \in Nat /\ search.path \in Path /\ includes \in Seq(Path) /\ Len(includes) \in Nat
  BY DEF TInv, SearchTyped, PathsTyped, SearchType
<1>2. NibiPath \in Path
  BY NibiPathType DEF TInv
<1>3. CASE search.k = 0
  BY <1>3 DEF Trial
<1>4. CASE search.k \in 1 .. Len(includes)
  <2>1. includes[search.k] \in Path
    BY <1>1, <1>4
  <2>2. Join(includes[search.k], search.path) = search.path
    BY <1>1, <2>1, JoinType
  <2>3. Trial = Join(includes[search.k], search.path)
    BY <1>1, <1>4 DEF Trial
  <2>4. QED BY <2>2, <2>3
<1>5. CASE search.k > Len(includes)
  <2>1. Trial = Join(NibiPath, search.path)
    BY <1>1, <1>5 DEF Trial
  <2>2. QED BY <1>1, <1>2, <2>1, JoinType
<1>6. QED BY <1>1, <1>3, <1>4, <1>5

\* Where an answer can come from: the path itself, or the first directory.
LEMMA TrialRight ==
  ASSUME FInv, Locate, IsFile(disk, Trial)
  PROVE  Right(Trial, search.from, search.wanted)
<1> DEFINE w == search.wanted
           from == search.from
<1>1. /\ TInv /\ Looking /\ pc = "read" /\ search # Idle
      /\ search.k = 0 => ~ IsFile(disk, Beside)
      /\ search.k <= LastPlace
  BY DEF FInv, Locate
<1>2. /\ search.k \in Nat /\ search.path \in Path /\ from \in Path /\ w \in Path \ {NoPath}
      /\ includes \in Seq(Path) /\ Len(includes) \in Nat
  BY <1>1 DEF Looking, TInv, SearchTyped, PathsTyped, SearchType
<1>3. ~ IsFile(disk, Beside)
  BY <1>1, <1>2 DEF Looking
<1>4. HasParent(from) /\ IsFile(disk, BesideOf(from, w)) => BesideOf(from, w) = w
  BY <1>1, <1>2, <1>3, NotBeside
<1>5. includes = << >> => NibiPath = NoPath /\ LastPlace = 0
  <2>1. includes = << >> => NibiPath = NoPath
    BY <1>1 DEF FInv, Included
  <2>2. QED BY <2>1, <1>2, EmptySeq DEF LastPlace
<1>6. CASE search.k = 0
  <2>1. Trial = w
    BY <1>1, <1>6 DEF Trial, Looking
  <2>2. QED BY <1>1, <1>2, <1>4, <2>1, RightWanted
<1>7. CASE search.k >= 1
  <2>1. includes # << >>
    BY <1>1, <1>2, <1>5, <1>7
  <2>2. Len(includes) >= 1
    BY <1>2, <2>1, EmptySeq
  <2>3. includes[1].abs /\ includes[1] \in Path
    BY <1>2, <2>1, <2>2 DEF FInv, Included
  <2>4. ~ IsFile(disk, w)
    BY <1>1, <1>7 DEF Looking
  <2>5. CASE search.k = 1
    <3>1. search.path = w
      BY <1>1, <2>5 DEF Looking
    <3>2. Trial = Join(includes[1], w)
      BY <1>2, <2>2, <2>5, <3>1 DEF Trial
    <3>3. QED BY <1>1, <1>2, <1>4, <2>1, <2>4, <3>2, RightIncluded
  <2>6. CASE search.k >= 2
    <3>1. search.path = Join(includes[1], w) /\ ~ IsFile(disk, search.path)
      BY <1>1, <2>6 DEF Looking
    <3>2. search.path.abs
      <4>1. w \in Path
        BY <1>2
      <4>2. Join(includes[1], w).abs
        BY <2>3, <4>1, JoinType, Zenon
      <4>3. QED BY <3>1, <4>2
    <3>3. Trial = search.path
      BY <1>1, <1>2, <2>6, <3>2, TrialAbsolute
    <3>4. QED BY <3>1, <3>3
  <2>7. QED BY <1>2, <1>7, <2>5, <2>6
<1>8. QED BY <1>2, <1>6, <1>7

\* locate_file goes on to the next place.
LEMMA OnwardLooking ==
  ASSUME FInv, Locate, ~ IsFile(disk, Trial), UNCHANGED <<disk, environ>>
  PROVE  Looking' /\ UNCHANGED <<located, includes>> /\ pc' = "read"
<1> DEFINE w == search.wanted
<1>1. /\ TInv /\ Looking /\ pc = "read" /\ search # Idle
      /\ search.k = 0 => ~ IsFile(disk, Beside)
      /\ search.k <= LastPlace
      /\ search' = [search EXCEPT !.k = @ + 1, !.path = Trial]
      /\ UNCHANGED <<located, includes>> /\ pc' = "read"
  BY DEF FInv, Locate, data
<1>2. /\ search.k \in Nat /\ search.path \in Path /\ w \in Path \ {NoPath} /\ search \in SearchType
      /\ includes \in Seq(Path) /\ Len(includes) \in Nat
  BY <1>1 DEF Looking, TInv, SearchTyped, PathsTyped, SearchType
<1>3. /\ search'.k = search.k + 1 /\ search'.path = Trial
      /\ search'.wanted = w /\ search'.from = search.from
  BY <1>1, <1>2 DEF SearchType
<1>4. ~ IsFile(disk, Beside)
  BY <1>1, <1>2 DEF Looking
<1>5. Beside' = Beside
  BY <1>3 DEF Beside
<1>6. includes = << >> => LastPlace = 0
  <2>1. includes = << >> => NibiPath = NoPath
    BY <1>1 DEF FInv, Included
  <2>2. QED BY <2>1, <1>2, EmptySeq DEF LastPlace
<1>7. ~ IsFile(disk, w)
  <2>1. CASE search.k = 0
    <3>1. Trial = w
      BY <1>1, <2>1 DEF Trial, Looking
    <3>2. QED BY <3>1
  <2>2. CASE search.k >= 1
    BY <1>1, <2>2 DEF Looking
  <2>3. QED BY <1>2, <2>1, <2>2
<1>8. search'.k <= 1 => search'.path = w
  <2>1. SUFFICES ASSUME search'.k <= 1 PROVE Trial = w
    BY <1>3
  <2>2. search.k = 0
    BY <1>2, <1>3, <2>1
  <2>3. QED BY <1>1, <2>2 DEF Trial, Looking
<1>9. search'.k >= 2 => includes # << >> /\ Trial = Join(includes[1], w)
  <2>1. SUFFICES ASSUME search'.k >= 2 PROVE includes # << >> /\ Trial = Join(includes[1], w)
    OBVIOUS
  <2>2. search.k >= 1
    BY <1>2, <1>3, <2>1
  <2>3. includes # << >>
    BY <1>1, <1>2, <1>6, <2>2
  <2>4. Len(includes) >= 1
    BY <1>2, <2>3, EmptySeq
  <2>5. CASE search.k = 1
    <3>1. search.path = w
      BY <1>1, <2>5 DEF Looking
    <3>2. QED BY <1>2, <2>3, <2>4, <2>5, <3>1 DEF Trial
  <2>6. CASE search.k >= 2
    <3>1. search.path = Join(includes[1], w)
      BY <1>1, <2>6 DEF Looking
    <3>2. includes[1].abs /\ includes[1] \in Path /\ w \in Path
      BY <1>2, <2>3, <2>4 DEF FInv, Included
    <3>3. Join(includes[1], w).abs
      BY <3>2, JoinType, Zenon
    <3>4. search.path.abs
      BY <3>1, <3>3
    <3>5. QED BY <1>1, <2>3, <3>1, <3>4, TrialAbsolute
  <2>7. QED BY <1>2, <2>2, <2>5, <2>6
<1>10. w # NoPath
  BY <1>2
<1>11. Looking'
  BY <1>3, <1>4, <1>5, <1>7, <1>8, <1>9, <1>10, <1>1 DEF Looking
<1>12. QED BY <1>1, <1>11

LEMMA LocateFound ==
  ASSUME FInv, LocateBeside \/ Locate \/ NotLocated, UNCHANGED <<disk, environ>>
  PROVE  /\ NeverTheWrongFile' /\ (search' # Idle => Looking') /\ pc' = "read"
<1>1. TInv /\ pc' = "read" /\ includes' = includes
  BY DEF FInv, LocateBeside, Locate, NotLocated, data
<1>2. CASE LocateBeside
  BY <1>1, <1>2, BesideStep
<1>3. CASE NotLocated
  <2>1. Answer(NoPath)
    BY <1>3 DEF NotLocated
  <2>2. QED BY <1>1, <2>1, NoPathType, AnswerKept, NeverFound
<1>4. CASE Locate /\ IsFile(disk, Trial)
  <2>1. Answer(Trial) /\ search # Idle
    BY <1>4 DEF Locate
  <2>2. Trial \in Path /\ Right(Trial, search.from, search.wanted)
    BY <1>1, <1>4, <2>1, TrialType, TrialRight
  <2>3. QED BY <1>1, <2>1, <2>2, AnswerKept, NeverFound
<1>5. CASE Locate /\ ~ IsFile(disk, Trial)
  <2>1. Looking' /\ UNCHANGED <<located, includes>>
    BY <1>5, OnwardLooking
  <2>2. NeverTheWrongFile
    BY DEF FInv
  <2>3. QED BY <1>1, <2>1, <2>2, NeverKept
<1>6. QED BY <1>2, <1>3, <1>4, <1>5

LEMMA AskedLooking ==
  ASSUME NEW w \in Path \ {NoPath}, NEW from \in Path, search' = Asked(w, from)
  PROVE  Looking'
<1>1. search'.k = 0 /\ search'.path = w /\ search'.wanted = w
  BY AskedType
<1>2. QED BY <1>1 DEF Looking

LEMMA OtherFound ==
  ASSUME FInv, [Next]_vars, ~ (LocateBeside \/ Locate \/ NotLocated), UNCHANGED <<disk, environ>>
  PROVE  /\ NeverTheWrongFile' /\ (search' # Idle => Looking')
         /\ pc' \notin {"read", "done"} => search' = Idle /\ located' = Idle
<1>1. TInv /\ NeverTheWrongFile /\ (search # Idle => Looking)
      /\ (pc \notin {"read", "done"} => search = Idle /\ located = Idle)
  BY DEF FInv
<1>2. located' = located
  BY <1>1, SearchBegins
<1>3. CASE pc \in {"read", "done"}
  <2>1. includes' = includes /\ pc' \in {"read", "done"}
    BY <1>3, ReadingStays
  <2>2. NeverTheWrongFile'
    BY <1>1, <1>2, <2>1, NeverKept
  <2>3. CASE UNCHANGED search
    <3>1. search' # Idle => Looking'
      BY <1>1, <2>1, <2>3, LookingKept
    <3>2. QED BY <2>1, <2>2, <3>1
  <2>4. CASE open # << >> /\ \E w \in Wanted : search' = Asked(w, File)
    <3>1. PICK w \in Wanted : search' = Asked(w, File)
      BY <2>4
    <3>2. w \in Path \ {NoPath} /\ File \in Path
      BY <1>1, <2>4, FileType, LaunchAssumption
    <3>3. Looking'
      BY <3>1, <3>2, AskedLooking
    <3>4. QED BY <2>1, <2>2, <3>3
  <2>5. QED BY <1>1, <1>3, <2>3, <2>4, SearchBegins
<1>4. CASE pc \notin {"read", "done"}
  <2>1. search = Idle /\ located = Idle /\ Idle.path = NoPath
    BY <1>1, <1>4 DEF Idle
  <2>2. NeverTheWrongFile'
    BY <1>2, <2>1, NeverIsNext
  <2>3. CASE UNCHANGED search
    BY <1>2, <2>1, <2>2, <2>3
  <2>4. CASE pc' = "read" /\ search' \in {Idle, Asked(Config, Terminal)}
    <3>1. Config \in Path \ {NoPath}
      BY <1>1, NibiPathType DEF TInv
    <3>2. search' # Idle => Looking'
      BY <2>4, <3>1, TerminalType, AskedLooking
    <3>3. QED BY <2>2, <2>4, <3>2
  <2>5. QED BY <1>1, <1>4, <2>3, <2>4, SearchBegins
<1>5. QED BY <1>3, <1>4

LEMMA NextFInv == ASSUME FInv, AbsoluteGiven, [Next]_vars PROVE FInv'
<1>1. TInv' /\ Included' /\ UNCHANGED <<disk, environ>>
  BY NextTInv, NextIncluded, GivenKept DEF FInv
<1>2. /\ NeverTheWrongFile' /\ (search' # Idle => Looking')
      /\ pc' \notin {"read", "done"} => search' = Idle /\ located' = Idle
  BY <1>1, LocateFound, OtherFound
<1>3. QED BY <1>1, <1>2 DEF FInv

LEMMA InitFInv == Init => FInv
<1> SUFFICES ASSUME Init PROVE FInv
  OBVIOUS
<1>1. search = Idle /\ located = Idle /\ Idle.path = NoPath
  BY DEF Init, Idle
<1>2. NeverTheWrongFile
  BY <1>1, NeverIs
<1>3. QED BY <1>1, <1>2, InitTInv, InitIncluded DEF FInv

\* locate_file joins each place to what the attempts before left in file_path
\* (platform.cpp:102).  When what NIBI_PATH, HOME and -i give is absolute, what an
\* import finds is nevertheless the first that the code's own order of places has,
\* as if each were joined to the wanted path; places after the first include
\* directory are not really looked at.  Nothing is said about the documented order,
\* which the code does not keep (FoundWhereDocumented).
THEOREM NoWrongFile == ASSUME AbsoluteGiven PROVE Spec => []NeverTheWrongFile
<1>1. FInv /\ [Next]_vars => FInv'
  BY NextFInv
<1>2. FInv => NeverTheWrongFile
  BY DEF FInv
<1>3. QED BY InitFInv, <1>1, <1>2, PTL DEF Spec

------------------------------------------------------------------------------
(* The directories of a command line *)

Valued == Include \union Test \union Info

\* IsValue and GivenDirs, of the words a.
ValueIn(a) ==
  LET V[n \in Nat] == n > 1 /\ a[n - 1] \in Include \union Test \union Info /\ ~ V[n - 1]
  IN V
DirsIn(a) ==
  LET D[n \in Nat] ==
        IF n = 0 THEN << >>
        ELSE D[n - 1] \o (IF n \in {m \in DOMAIN a : a[m] \in Include /\ ~ ValueIn(a)[m]} /\ n < Len(a)
                          THEN DirsOf[a[n + 1]] ELSE << >>)
  IN D

LEMMA ValueInIs == IsValue = ValueIn(args)
BY DEF IsValue, ValueIn

LEMMA ValueInNext == IsValue' = ValueIn(args')
BY DEF IsValue, ValueIn

LEMMA DirsInIs == GivenDirs = DirsIn(args)
BY ValueInIs DEF GivenDirs, DirsIn, Given

LEMMA DirsInNext == GivenDirs' = DirsIn(args')
BY ValueInNext DEF GivenDirs, DirsIn, Given

LEMMA ValueInFacts ==
  ASSUME NEW a
  PROVE  \A n \in Nat : ValueIn(a)[n] <=> n > 1 /\ a[n - 1] \in Valued /\ ~ ValueIn(a)[n - 1]
<1> DEFINE F == [q \in Nat \X BOOLEAN |-> q[1] > 1 /\ a[q[1] - 1] \in Valued /\ ~ q[2]]
           Body(f) == [n \in Nat |-> n > 1 /\ a[n - 1] \in Valued /\ ~ f[n - 1]]
<1>1. F \in [Nat \X BOOLEAN -> BOOLEAN]
  OBVIOUS
<1>2. PICK f \in [Nat -> BOOLEAN] : f[0] = FALSE /\ \A n \in Nat \ {0} : f[n] = F[<<n, f[n - 1]>>]
  <2> HIDE DEF F
  <2>1. FALSE \in BOOLEAN
    OBVIOUS
  <2>2. \E f \in [Nat -> BOOLEAN] : Follows(f, FALSE, F)
    BY <1>1, <2>1, Recursion
  <2>3. QED BY <2>2 DEF Follows
<1>3. ASSUME NEW n \in Nat PROVE f[n] = (n > 1 /\ a[n - 1] \in Valued /\ ~ f[n - 1])
  <2>1. CASE n = 0
    BY <1>2, <2>1
  <2>2. CASE n # 0
    <3>1. f[n - 1] \in BOOLEAN /\ f[n] = F[<<n, f[n - 1]>>]
      BY <1>2, <2>2, SMTT(30)
    <3>2. QED BY <3>1
  <2>3. QED BY <2>1, <2>2
<1>4. f = Body(f)
  BY <1>2, <1>3
<1>5. ValueIn(a) = CHOOSE g : g = Body(g)
  BY DEF ValueIn, Valued
<1> HIDE DEF Body
<1>6. ValueIn(a) = Body(ValueIn(a))
  BY <1>4, <1>5
<1>7. \A n \in Nat : Body(ValueIn(a))[n] <=> n > 1 /\ a[n - 1] \in Valued /\ ~ ValueIn(a)[n - 1]
  BY DEF Body
<1>8. QED BY <1>6, <1>7

LEMMA DirsInFacts ==
  ASSUME NEW a \in Seq(Words)
  PROVE  /\ DirsIn(a)[0] = << >>
         /\ \A n \in Nat \ {0} :
              DirsIn(a)[n] = DirsIn(a)[n - 1]
                             \o (IF n < Len(a) /\ a[n] \in Include /\ ~ ValueIn(a)[n]
                                 THEN DirsOf[a[n + 1]] ELSE << >>)
         /\ \A n \in Nat : DirsIn(a)[n] \in Seq(Path)
<1> DEFINE More(n) == IF n < Len(a) /\ a[n] \in Include /\ ~ ValueIn(a)[n]
                      THEN DirsOf[a[n + 1]] ELSE << >>
           F == [q \in Nat \X Seq(Path) |-> IF q[1] = 0 THEN << >> ELSE q[2] \o More(q[1])]
           Body(f) == [n \in Nat |-> IF n = 0 THEN << >> ELSE f[n - 1] \o More(n)]
<1>1. ASSUME NEW n \in Nat \ {0} PROVE More(n) \in Seq(Path)
  <2>1. CASE n < Len(a)
    <3>1. n + 1 \in 1 .. Len(a)
      BY <2>1
    <3>2. a[n + 1] \in Words
      BY <3>1
    <3>3. DirsOf[a[n + 1]] \in Seq(Path)
      BY <3>2, LaunchAssumption
    <3>4. QED BY <3>3
  <2>2. CASE ~ (n < Len(a))
    BY <2>2
  <2>3. QED BY <2>1, <2>2
<1>2. ASSUME NEW n \in Nat PROVE
        (n \in {m \in DOMAIN a : a[m] \in Include /\ ~ ValueIn(a)[m]} /\ n < Len(a)) <=>
        (n # 0 /\ n < Len(a) /\ a[n] \in Include /\ ~ ValueIn(a)[n])
  <2>1. DOMAIN a = 1 .. Len(a) /\ Len(a) \in Nat
    OBVIOUS
  <2>2. QED BY <2>1
<1>3. DirsIn(a) = CHOOSE g : g = Body(g)
  <2>1. DirsIn(a) = CHOOSE g : g = [n \in Nat |->
          IF n = 0 THEN << >>
          ELSE g[n - 1] \o (IF n \in {m \in DOMAIN a : a[m] \in Include /\ ~ ValueIn(a)[m]} /\ n < Len(a)
                            THEN DirsOf[a[n + 1]] ELSE << >>)]
    BY DEF DirsIn
  <2>2. ASSUME NEW g PROVE
          [n \in Nat |->
          IF n = 0 THEN << >>
          ELSE g[n - 1] \o (IF n \in {m \in DOMAIN a : a[m] \in Include /\ ~ ValueIn(a)[m]} /\ n < Len(a)
                            THEN DirsOf[a[n + 1]] ELSE << >>)]
          = Body(g)
    BY <1>2
  <2> HIDE DEF Body
  <2>3. QED BY <2>1, <2>2
<1> HIDE DEF More
<1>4. F \in [Nat \X Seq(Path) -> Seq(Path)]
  BY <1>1, ConcatProperties
<1>5. PICK f \in [Nat -> Seq(Path)] : f[0] = << >> /\ \A n \in Nat \ {0} : f[n] = F[<<n, f[n - 1]>>]
  <2> HIDE DEF F
  <2>1. << >> \in Seq(Path)
    OBVIOUS
  <2>2. \E f \in [Nat -> Seq(Path)] : Follows(f, << >>, F)
    BY <1>4, <2>1, Recursion
  <2>3. QED BY <2>2 DEF Follows
<1>6. ASSUME NEW n \in Nat \ {0} PROVE f[n] = f[n - 1] \o More(n)
  <2>1. f[n - 1] \in Seq(Path) /\ f[n] = F[<<n, f[n - 1]>>]
    <3> HIDE DEF F
    <3>1. QED BY <1>5
  <2>2. ASSUME NEW x \in Seq(Path) PROVE F[<<n, x>>] = x \o More(n)
    <3>1. <<n, x>> \in Nat \X Seq(Path) /\ <<n, x>>[1] = n /\ <<n, x>>[2] = x /\ n # 0
      OBVIOUS
    <3>2. QED BY <3>1
  <2> HIDE DEF F
  <2>3. QED BY <2>1, <2>2
<1>7. f = Body(f)
  BY <1>5, <1>6, ZenonT(60)
<1> HIDE DEF Body, F
<1>8. DirsIn(a) = Body(DirsIn(a))
  BY <1>3, <1>7
<1>9. \A n \in Nat : Body(DirsIn(a))[n] = IF n = 0 THEN << >> ELSE DirsIn(a)[n - 1] \o More(n)
  BY DEF Body
<1> DEFINE d == DirsIn(a)
<1>10. d[0] = << >> /\ \A n \in Nat \ {0} : d[n] = d[n - 1] \o More(n)
  BY <1>8, <1>9
<1> HIDE DEF d
<1>11. \A n \in Nat : d[n] \in Seq(Path)
  <2> DEFINE Bad == {n \in Nat : d[n] \notin Seq(Path)}
  <2>1. Bad \subseteq Nat
    OBVIOUS
  <2>2. ASSUME Bad # {} PROVE FALSE
    <3>1. PICK n \in Bad : \A j \in Bad : n <= j
      <4> HIDE DEF Bad
      <4>1. QED BY <2>1, <2>2, LeastIn
    <3>2. n \in Nat \ {0}
      <4>1. << >> \in Seq(Path)
        OBVIOUS
      <4>2. QED BY <1>10, <3>1, <4>1
    <3>3. n - 1 \in Nat /\ n - 1 \notin Bad
      BY <3>1, <3>2
    <3>4. d[n - 1] \in Seq(Path) /\ More(n) \in Seq(Path) /\ d[n] = d[n - 1] \o More(n)
      BY <1>1, <1>10, <3>2, <3>3
    <3>5. d[n] \in Seq(Path)
      BY <3>4, ConcatProperties
    <3>6. QED BY <3>1, <3>5
  <2>3. QED BY <2>2
<1>12. QED BY <1>10, <1>11 DEF d, More

Nib == IF NibiPath = NoPath THEN << >> ELSE <<NibiPath>>

Sees == includes = (Nib \o DirsIn(args)[Len(args)]) \o <<Entry>> /\ IncludesExist

DInv ==
  /\ args \in Seq(Words)
  /\ pc = "start" => pos = 1 /\ includes = << >> /\ (useStd <=> TRUE)
  /\ pc = "options" => /\ pos <= Len(args) + 1 /\ ~ ValueIn(args)[pos]
                       /\ includes = Nib \o DirsIn(args)[pos - 1]
  /\ pc = "launch" => includes = Nib \o DirsIn(args)[Len(args)]
  /\ mode = "target" => pc \in {"read", "done"}
  /\ mode = "target" /\ pc = "read" => Sees

LEMMA SeesIs == DInv => TargetSeesItsDirectories
<1> SUFFICES ASSUME DInv, mode = "target", pc = "read"
             PROVE  /\ includes = (IF NibiPath = NoPath THEN << >> ELSE <<NibiPath>>)
                                  \o GivenDirs[Len(args)] \o <<Entry>>
                    /\ IncludesExist
  BY DEF TargetSeesItsDirectories
<1>1. Sees
  BY DEF DInv
<1>2. QED BY <1>1, DirsInIs DEF Sees, Nib

LEMMA InitDInv == Init => DInv
<1> SUFFICES ASSUME Init PROVE DInv
  OBVIOUS
<1>1. PICK n \in 0 .. MaxWords : args \in [1 .. n -> Words]
  BY DEF Init
<1>2. n \in Nat
  BY <1>1, LaunchAssumption
<1>3. args \in Seq(Words)
  BY <1>1, <1>2, SeqDef
<1>4. pc = "start" /\ pos = 1 /\ includes = << >> /\ (useStd <=> TRUE) /\ mode = "none"
  BY Zenon DEF Init
<1>5. QED BY <1>3, <1>4 DEF DInv

LEMMA NibType == ASSUME TInv PROVE Nib \in Seq(Path)
<1>1. NibiPath \in Path
  BY NibiPathType DEF TInv
<1>2. <<NibiPath>> \in Seq(Path) /\ << >> \in Seq(Path)
  BY <1>1
<1>3. QED BY <1>2 DEF Nib

LEMMA NibKept == ASSUME UNCHANGED <<disk, environ>> PROVE Nib' = Nib
BY NibiPathKept DEF Nib

LEMMA SeesKept ==
  ASSUME Sees, UNCHANGED <<disk, environ, args, target, includes>>
  PROVE  Sees'
<1>1. Entry' = Entry
  BY DEF Entry
<1>2. IncludesExist'
  BY DEF Sees, IncludesExist
<1>3. QED BY <1>1, <1>2, NibKept DEF Sees

LEMMA ValueAfter ==
  ASSUME NEW a, NEW n \in Nat \ {0}
  PROVE  ValueIn(a)[n + 1] <=> a[n] \in Valued /\ ~ ValueIn(a)[n]
<1> DEFINE k == n + 1
<1>1. k \in Nat /\ k - 1 = n /\ k > 1
  OBVIOUS
<1> HIDE DEF k
<1>2. ValueIn(a)[k] <=> k > 1 /\ a[k - 1] \in Valued /\ ~ ValueIn(a)[k - 1]
  BY <1>1, ValueInFacts, Zenon
<1>3. ValueIn(a)[k] <=> a[n] \in Valued /\ ~ ValueIn(a)[n]
  BY <1>1, <1>2
<1>4. QED BY <1>3 DEF k

\* A word that gives no directories.
LEMMA DirsSame ==
  ASSUME NEW a \in Seq(Words), NEW n \in Nat \ {0},
         ~ (n < Len(a) /\ a[n] \in Include /\ ~ ValueIn(a)[n])
  PROVE  DirsIn(a)[n] = DirsIn(a)[n - 1]
<1>1. n - 1 \in Nat
  OBVIOUS
<1>2. DirsIn(a)[n - 1] \in Seq(Path)
  BY <1>1, DirsInFacts
<1>3. DirsIn(a)[n] = DirsIn(a)[n - 1] \o << >>
  BY DirsInFacts
<1>4. QED BY <1>2, <1>3, ConcatEmptySeq

LEMMA ConstructDirs == ASSUME TInv, DInv, Construct, UNCHANGED given PROVE DInv'
<1>1. /\ UNCHANGED <<disk, environ, args, pos, mode>> /\ pc = "start" /\ pc' = "options"
      /\ pos = 1 /\ includes = << >> /\ (useStd <=> TRUE) /\ mode # "target"
  BY DEF Construct, given, opts, DInv
<1>2. includes' = IF NibiPath # NoPath THEN Append(<< >>, NibiPath) ELSE << >>
  BY <1>1 DEF Construct, Reinit
<1>3. NibiPath \in Path
  BY NibiPathType DEF TInv
<1>4. Append(<< >>, NibiPath) = <<NibiPath>>
  BY <1>3
<1>5. includes' = Nib
  BY <1>2, <1>4 DEF Nib
<1>6. DirsIn(args)[0] = << >>
  BY DirsInFacts DEF DInv
<1>7. Nib \o << >> = Nib
  BY NibType, ConcatEmptySeq
<1>8. ~ ValueIn(args)[1]
  BY ValueInFacts
<1>9. args \in Seq(Words) /\ Len(args) \in Nat
  BY DEF DInv
<1>10. pos' - 1 = 0 /\ pos' <= Len(args) + 1
  BY <1>1, <1>9
<1>11. includes' = Nib' \o DirsIn(args')[pos' - 1] /\ ~ ValueIn(args')[pos']
  BY <1>1, <1>5, <1>6, <1>7, <1>8, <1>10, NibKept
<1>12. QED BY <1>1, <1>9, <1>10, <1>11 DEF DInv

\* A word that is neither -i nor ends the options.
LEMMA WordPassed ==
  ASSUME TInv, DInv, pc = "options", pos <= Len(args), Word \notin Valued,
         UNCHANGED <<disk, environ, args, pc, includes>>, pos' = pos + 1, mode' \in {mode, "none"}
  PROVE  DInv'
<1>1. /\ pos \in Nat \ {0} /\ args \in Seq(Words) /\ Len(args) \in Nat
      /\ ~ ValueIn(args)[pos] /\ includes = Nib \o DirsIn(args)[pos - 1] /\ mode # "target"
  BY DEF TInv, ControlTyped, DInv
<1>2. Word = args[pos]
  BY DEF Word
<1>3. ~ ValueIn(args)[pos + 1]
  <2>1. ValueIn(args)[pos + 1] <=> args[pos] \in Valued /\ ~ ValueIn(args)[pos]
    BY <1>1, ValueAfter
  <2>2. QED BY <1>2, <2>1
<1>4. DirsIn(args)[pos] = DirsIn(args)[pos - 1]
  <2>1. args[pos] \notin Include
    BY <1>2 DEF Valued
  <2>2. QED BY <1>1, <2>1, DirsSame
<1>5. pos' - 1 = pos /\ pos' <= Len(args) + 1
  BY <1>1
<1>6. includes' = Nib' \o DirsIn(args')[pos' - 1] /\ ~ ValueIn(args')[pos']
  BY <1>1, <1>3, <1>4, <1>5, NibKept
<1>7. QED BY <1>1, <1>5, <1>6 DEF DInv

\* -i and the directories of the next word.
LEMMA IncludePassed ==
  ASSUME TInv, DInv, OptionInclude, UNCHANGED given PROVE DInv'
<1>1. /\ pc = "options" /\ pc' = pc /\ pos < Len(args) /\ pos' = pos + 2 /\ args[pos] \in Include
      /\ includes' = includes \o DirsOf[args[pos + 1]] /\ UNCHANGED <<disk, environ, args, mode>>
  BY DEF OptionInclude, AtWord, Word, given
<1>2. /\ pos \in Nat \ {0} /\ args \in Seq(Words) /\ Len(args) \in Nat
      /\ ~ ValueIn(args)[pos] /\ includes = Nib \o DirsIn(args)[pos - 1] /\ mode # "target"
  BY <1>1 DEF TInv, ControlTyped, DInv
<1> DEFINE more == DirsOf[args[pos + 1]]
           d == DirsIn(args)
<1>3. more \in Seq(Path)
  <2>1. pos + 1 \in 1 .. Len(args)
    BY <1>1, <1>2
  <2>2. args[pos + 1] \in Words
    BY <1>2, <2>1
  <2>3. QED BY <2>2, LaunchAssumption
<1>4. d[pos] = d[pos - 1] \o more
  BY <1>1, <1>2, DirsInFacts
<1>5. ValueIn(args)[pos + 1] /\ ~ ValueIn(args)[pos + 2]
  <2>1. args[pos] \in Valued
    BY <1>1 DEF Valued
  <2>2. ValueIn(args)[pos + 1] <=> args[pos] \in Valued /\ ~ ValueIn(args)[pos]
    BY <1>2, ValueAfter
  <2> DEFINE n == pos + 1
  <2>3. n \in Nat \ {0} /\ n + 1 = pos + 2
    BY <1>2
  <2>4. ValueIn(args)[n]
    BY <1>2, <2>1, <2>2
  <2> HIDE DEF n
  <2>5. ValueIn(args)[n + 1] <=> args[n] \in Valued /\ ~ ValueIn(args)[n]
    BY <2>3, ValueAfter
  <2>6. ~ ValueIn(args)[n + 1]
    BY <2>4, <2>5
  <2>7. QED BY <2>3, <2>4, <2>6 DEF n
<1>6. d[pos + 1] = d[pos]
  <2>1. pos + 1 \in Nat \ {0} /\ pos + 1 - 1 = pos
    BY <1>2
  <2>2. d[pos + 1] = d[pos + 1 - 1]
    BY <1>2, <1>5, <2>1, DirsSame
  <2>3. QED BY <2>1, <2>2
<1>7. d[pos - 1] \in Seq(Path) /\ Nib \in Seq(Path)
  <2>1. pos - 1 \in Nat
    BY <1>2
  <2>2. QED BY <1>2, <2>1, DirsInFacts, NibType
<1>8. includes' = (Nib \o d[pos - 1]) \o more
  <2>1. includes' = includes \o more /\ includes = Nib \o d[pos - 1]
    BY <1>1, <1>2
  <2> HIDE DEF more, d
  <2>2. QED BY <2>1
<1> HIDE DEF more, d
<1>9. includes' = Nib \o d[pos + 1]
  <2>2. (Nib \o d[pos - 1]) \o more = Nib \o (d[pos - 1] \o more)
    <3> DEFINE old == d[pos - 1]
    <3>1. old \in Seq(Path) /\ Nib \in Seq(Path) /\ more \in Seq(Path)
      BY <1>3, <1>7
    <3> HIDE DEF old
    <3>2. (Nib \o old) \o more = Nib \o (old \o more)
      BY <3>1, ConcatAssociative
    <3>3. QED BY <3>2 DEF old
  <2>3. QED BY <1>4, <1>6, <1>8, <2>2
<1>10. pos' - 1 = pos + 1 /\ pos' <= Len(args) + 1 /\ pos' = pos + 2
  BY <1>1, <1>2
<1>11. includes' = Nib' \o DirsIn(args')[pos' - 1] /\ ~ ValueIn(args')[pos']
  BY <1>1, <1>5, <1>9, <1>10, NibKept DEF d
<1>12. QED BY <1>1, <1>2, <1>10, <1>11 DEF DInv

\* What is anywhere else, unless it has begun to run the target.
LEMMA NotTarget ==
  ASSUME DInv, args' = args, pc' \notin {"start", "options", "launch"}, mode' # "target" \/ pc' = "done"
  PROVE  DInv'
BY DEF DInv

LEMMA DirsOptions ==
  ASSUME TInv, DInv, UNCHANGED given,
         \/ Construct \/ ShowHelp \/ OptionNoStd \/ MissingValue \/ OptionInclude \/ OptionTest
         \/ OptionInfo \/ OtherWord \/ OptionsRead
  PROVE  DInv'
<1>1. UNCHANGED <<disk, environ, args>>
  BY DEF given
<1>2. CASE Construct
  BY <1>2, ConstructDirs
<1>3. CASE ShowHelp \/ MissingValue
  <2>1. pc' = "done"
    BY <1>3 DEF ShowHelp, MissingValue, Exit
  <2>2. QED BY <1>1, <2>1, NotTarget
<1>4. CASE OptionTest \/ OptionInfo
  <2>1. pc' \in {"tests", "module"} /\ mode' \in {"tests", "info"}
    BY <1>4 DEF OptionTest, OptionInfo
  <2>2. QED BY <1>1, <2>1, NotTarget
<1>5. CASE OptionNoStd \/ OtherWord
  <2>1. /\ pc = "options" /\ pos <= Len(args) /\ Word \notin Valued /\ pos' = pos + 1
        /\ UNCHANGED <<pc, includes, mode>>
    BY <1>5 DEF OptionNoStd, OtherWord, AtWord, data, Valued, Options, NoStd, Include, Test, Info
  <2>2. QED BY <1>1, <2>1, WordPassed
<1>6. CASE OptionInclude
  BY <1>6, IncludePassed
<1>7. CASE OptionsRead
  <2>1. pc = "options" /\ pos > Len(args) /\ pc' = "launch" /\ UNCHANGED <<includes, mode>>
    BY <1>7 DEF OptionsRead, opts
  <2>2. /\ pos \in Nat \ {0} /\ args \in Seq(Words) /\ Len(args) \in Nat /\ pos <= Len(args) + 1
        /\ includes = Nib \o DirsIn(args)[pos - 1] /\ mode # "target"
    BY <2>1 DEF TInv, ControlTyped, DInv
  <2>3. pos - 1 = Len(args)
    BY <2>1, <2>2
  <2>4. includes' = Nib' \o DirsIn(args')[Len(args')]
    BY <1>1, <2>1, <2>2, <2>3, NibKept
  <2>5. QED BY <1>1, <2>1, <2>2, <2>4 DEF DInv
<1>8. QED BY <1>2, <1>3, <1>4, <1>5, <1>6, <1>7

\* The file that is run is in a directory; a directory that is run is one.
LEMMA EntryIsThere ==
  ASSUME disk \in Disks, PathOf[target] \in Path,
         IsFile(disk, PathOf[target]) \/ IsDir(disk, PathOf[target])
  PROVE  IsDir(disk, Entry)
<1> DEFINE p == PathOf[target]
           whole == Canonical(p)
           q == whole.parts
<1>1. whole \in Path /\ whole.abs /\ Canonical(whole) = whole
  BY CanonicalType
<1>2. q \in Seq(STRING) /\ Len(q) \in Nat
  BY <1>1 DEF Path
<1>3. whole # NoPath
  BY <1>1, NoPathType
<1>4. Kind(disk, p) \in {"file", "dir"}
  BY DEF IsFile, IsDir
<1>5. q \in DOMAIN disk /\ Kind(disk, p) = disk[q]
  BY <1>4 DEF Kind
<1>6. Kind(disk, whole) = disk[q]
  BY <1>1, <1>3, <1>5 DEF Kind
<1>7. CASE disk[q] = "dir"
  <2>1. IsDir(disk, whole)
    BY <1>6, <1>7 DEF IsDir
  <2>2. QED BY <2>1 DEF Entry
<1>8. CASE disk[q] = "file"
  <2>1. ~ IsDir(disk, whole) /\ HasParent(whole)
    BY <1>1, <1>6, <1>8 DEF IsDir, HasParent
  <2>2. Entry = Parent(whole)
    BY <2>1 DEF Entry
  <2>3. InDirectories(disk)
    BY LaunchAssumption
  <2>4. q # << >>
    BY <1>8, <2>3 DEF InDirectories
  <2>5. Len(q) - 1 \in 0 .. Len(q) - 1
    BY <1>2, <2>4, EmptySeq
  <2> DEFINE up == SubSeq(q, 1, Len(q) - 1)
  <2>6. up \in DOMAIN disk /\ disk[up] = "dir"
    BY <1>5, <2>3, <2>5 DEF InDirectories
  <2>7. Parent(whole) \in Path /\ Parent(whole).abs
    BY <1>1, ParentType, ParentParts
  <2>8. Parent(whole).parts = up
    BY <1>1 DEF Parent, Path
  <2>9. Canonical(Parent(whole)) = Parent(whole) /\ Parent(whole) # NoPath
    BY <2>7, CanonicalType, NoPathType
  <2>10. Kind(disk, Parent(whole)) = "dir"
    BY <2>6, <2>8, <2>9 DEF Kind
  <2>11. QED BY <2>2, <2>10 DEF IsDir
<1>9. QED BY <1>4, <1>5, <1>7, <1>8

LEMMA RunTargetDirs == ASSUME TInv, DInv, RunTarget, UNCHANGED given PROVE DInv'
<1>1. /\ pc = "launch" /\ target # NoWord /\ IncludesExist /\ mode' = "target"
      /\ includes' = Append(includes, Entry) /\ UNCHANGED <<disk, environ, args, target>>
  BY DEF RunTarget, given
<1>2. pc' \in {"read", "done"}
  BY DEF RunTarget, Begin, Exit
<1>3. CASE pc' = "done"
  BY <1>1, <1>3, NotTarget
<1>4. CASE pc' = "read"
  <2>1. IsFile(disk, PathOf[target]) \/ IsDir(disk, PathOf[target])
    BY DEF RunTarget
  <2>2. PathOf[target] \in Path /\ disk \in Disks /\ includes \in Seq(Path)
    BY <1>1, TargetType DEF TInv, PathsTyped
  <2>3. IsDir(disk, Entry)
    BY <2>1, <2>2, EntryIsThere
  <2>4. Entry \in Path
    <3>1. Canonical(PathOf[target]) \in Path
      BY <2>2, CanonicalType
    <3>2. Parent(Canonical(PathOf[target])) \in Path
      BY <3>1, ParentType
    <3>3. QED BY <3>1, <3>2 DEF Entry
  <2>5. includes' = includes \o <<Entry>>
    BY <1>1, <2>2, <2>4, AppendIsConcat
  <2>6. includes = Nib \o DirsIn(args)[Len(args)]
    BY <1>1 DEF DInv
  <2>7. Entry' = Entry
    BY <1>1 DEF Entry
  <2>8. includes' = (Nib' \o DirsIn(args')[Len(args')]) \o <<Entry'>>
    BY <1>1, <2>5, <2>6, <2>7, NibKept
  <2>9. \A i \in DOMAIN includes' : IsDir(disk, includes'[i])
    <3>1. Len(includes) \in Nat /\ DOMAIN includes = 1 .. Len(includes)
      BY <2>2
    <3>2. /\ includes' \in Seq(Path) /\ Len(includes') = Len(includes) + 1
          /\ \A i \in 1 .. Len(includes) : includes'[i] = includes[i]
          /\ includes'[Len(includes) + 1] = Entry
      BY <1>1, <2>2, <2>4, AppendProperties
    <3>3. ASSUME NEW i \in DOMAIN includes' PROVE IsDir(disk, includes'[i])
      <4>1. i \in 1 .. Len(includes) + 1
        BY <3>2
      <4>2. CASE i = Len(includes) + 1
        BY <2>3, <3>2, <4>2
      <4>3. CASE i # Len(includes) + 1
        <5>1. i \in 1 .. Len(includes)
          BY <3>1, <4>1, <4>3
        <5>2. IsDir(disk, includes[i])
          BY <1>1, <3>1, <5>1 DEF IncludesExist
        <5>3. QED BY <3>2, <5>1, <5>2
      <4>4. QED BY <4>2, <4>3
    <3>4. QED BY <3>3
  <2>10. Sees'
    BY <1>1, <2>8, <2>9 DEF Sees, IncludesExist
  <2>11. QED BY <1>1, <1>4, <2>10 DEF DInv
<1>5. QED BY <1>2, <1>3, <1>4

LEMMA DirsLaunch ==
  ASSUME TInv, DInv, UNCHANGED given,
         \/ StartRepl \/ RefuseTarget \/ TestApp \/ TestModule \/ TestInstalled
         \/ NoModule \/ FindModule \/ ShowInfo \/ BadModule \/ RunInstalled
  PROVE  DInv'
<1>1. args' = args
  BY DEF given
<1>2. pc \in {"launch", "tests", "module"}
  BY DEF StartRepl, RefuseTarget, TestApp, TestModule, TestInstalled, NoModule, FindModule,
     ShowInfo, BadModule, RunInstalled
<1>3. mode # "target"
  BY <1>2 DEF DInv
<1>4. mode' # "target"
  BY <1>3 DEF StartRepl, RefuseTarget, TestApp, TestModule, TestInstalled, NoModule, FindModule,
     ShowInfo, BadModule, RunInstalled, opts
<1>5. ASSUME NEW S, RunEach(S) PROVE pc' \in {"read", "done"}
  BY <1>5 DEF RunEach, Begin, Exit
<1>6. pc' \in {"read", "done", "module"}
  <2>1. CASE TestApp \/ TestModule \/ RunInstalled
    BY <1>5, <2>1 DEF TestApp, TestModule, RunInstalled, RunLocal, Exit
  <2>2. CASE StartRepl \/ RefuseTarget \/ TestInstalled \/ NoModule \/ FindModule \/ ShowInfo \/ BadModule
    BY <2>2 DEF StartRepl, RefuseTarget, TestInstalled, NoModule, FindModule, ShowInfo, BadModule, Exit
  <2>3. QED BY <2>1, <2>2
<1>7. QED BY <1>1, <1>4, <1>6, NotTarget

\* A program changes nothing that it was started with.
LEMMA ProgramKeeps ==
  ASSUME \/ OpenFile \/ (\E w \in Wanted : Import(w)) \/ LocateBeside \/ Locate \/ NotLocated
         \/ ImportEnds \/ ConfigEnds \/ ProgramEnds \/ FileFails \/ ProgramExits
  PROVE  /\ UNCHANGED <<disk, environ, args, target, includes, mode>>
         /\ pc = "read" /\ pc' \in {"read", "done"}
<1>1. UNCHANGED <<disk, environ, args, target, includes, mode>>
  BY DEF OpenFile, Import, LocateBeside, Locate, NotLocated, ImportEnds, ConfigEnds, ProgramEnds,
     FileFails, ProgramExits, given, opts, data
<1>2. pc = "read"
  BY DEF OpenFile, Import, LocateBeside, Locate, NotLocated, ImportEnds, ConfigEnds, ProgramEnds,
     FileFails, ProgramExits, Reading
<1>3. pc' \in {"read", "done"}
  BY <1>2 DEF OpenFile, Import, LocateBeside, Locate, NotLocated, ImportEnds, ConfigEnds, ProgramEnds,
     FileFails, ProgramExits, Begin, Exit
<1>4. QED BY <1>1, <1>2, <1>3

LEMMA NextDInv == ASSUME TInv, DInv, [Next]_vars PROVE DInv'
<1>1. CASE UNCHANGED vars \/ Done
  <2>1. UNCHANGED <<disk, environ, args, target, includes, mode, pc, pos, useStd>>
    BY <1>1 DEF Done, vars
  <2>2. Sees => Sees'
    BY <2>1, SeesKept
  <2>3. Nib' = Nib
    BY <2>1, NibKept
  <2>4. QED BY <2>1, <2>2, <2>3, Zenon DEF DInv
<1>2. CASE \/ OpenFile \/ (\E w \in Wanted : Import(w)) \/ LocateBeside \/ Locate \/ NotLocated
           \/ ImportEnds \/ ConfigEnds \/ ProgramEnds \/ FileFails \/ ProgramExits
  <2>1. /\ UNCHANGED <<disk, environ, args, target, includes, mode>>
        /\ pc = "read" /\ pc' \in {"read", "done"}
    BY <1>2, ProgramKeeps
  <2>2. mode' = "target" => Sees'
    BY <2>1, SeesKept DEF DInv
  <2>3. QED BY <2>1, <2>2 DEF DInv
<1>3. CASE Next /\ ~ Done /\ ~ (\/ OpenFile \/ (\E w \in Wanted : Import(w)) \/ LocateBeside \/ Locate
           \/ NotLocated \/ ImportEnds \/ ConfigEnds \/ ProgramEnds \/ FileFails \/ ProgramExits)
  <2>1. UNCHANGED given
    BY <1>3 DEF Next, Construct, ShowHelp, OptionNoStd, MissingValue, OptionInclude, OptionTest,
       OptionInfo, OtherWord, OptionsRead, StartRepl, RefuseTarget, RunTarget, TestApp, TestModule,
       TestInstalled, NoModule, FindModule, ShowInfo, BadModule, RunInstalled
  <2>2. QED BY <1>3, <2>1, DirsOptions, RunTargetDirs, DirsLaunch DEF Next
<1>4. QED BY <1>1, <1>2, <1>3

\* A program runs with all the directories of the command line, in its order,
\* between the nibi path and its own, and all of them are directories: for every
\* command line (main looks at each word once, and skips the one it has taken as
\* an option's value), directory tree and environment.
THEOREM TargetSees == Spec => []TargetSeesItsDirectories
<1>1. Init => TInv /\ DInv
  BY InitTInv, InitDInv
<1>2. TInv /\ DInv /\ [Next]_vars => (TInv /\ DInv)'
  BY NextTInv, NextDInv
<1>3. QED BY <1>1, <1>2, SeesIs, PTL DEF Spec
==============================================================================
