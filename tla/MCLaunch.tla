------------------------------ MODULE MCLaunch ------------------------------
(* A working directory with a program, an application and a module, a nibi   *)
(* path with a configuration and an installed module, and command lines.     *)
EXTENDS Launch

Abs(q) == [abs |-> TRUE, parts |-> q]
Rel(q) == [abs |-> FALSE, parts |-> q]

WordsMC == {"-h", "-n", "-t", "-m", "-i", "app", "run.nibi", "mod", "m", "inc:app", "gone"}
PathOfMC == [w \in WordsMC |-> Rel(<<w>>)]
DirsOfMC == [w \in WordsMC |-> IF w = "inc:app" THEN <<Abs(<<"w", "inc">>), Abs(<<"w", "app">>)>>
                               ELSE <<Abs(<<"w", w>>)>>]

Dirs == {<< >>, <<"w">>, <<"w", "app">>, <<"w", "app", "tests">>, <<"w", "mod">>,
         <<"w", "mod", "tests">>, <<"w", "inc">>, <<"n">>, <<"n", "modules">>, <<"n", "modules", "m">>,
         <<"n", "modules", "m", "tests">>, <<"h">>}
Files == {<<"w", "run.nibi">>, <<"w", "app", "main.nibi">>, <<"w", "app", "tests", "t1.nibi">>,
          <<"w", "app", "tests", "t2.nibi">>, <<"w", "mod", "mod.nibi">>,
          <<"w", "mod", "tests", "t1.nibi">>, <<"n", "config.nibi">>,
          <<"n", "modules", "m", "mod.nibi">>, <<"n", "modules", "m", "tests", "t1.nibi">>,
          <<"n", "modules", "m", "tests", "notes">>}
Tree(D, F) == [q \in D \union F |-> IF q \in F THEN "file" ELSE "dir"]
Under(q)   == {f \in Dirs \union Files : Len(f) >= Len(q) /\ SubSeq(f, 1, Len(q)) = q}

ModTests == Under(<<"w", "mod", "tests">>)
MTests   == Under(<<"n", "modules", "m", "tests">>)
DisksMC ==
  {Tree(Dirs, Files \union {<<"w", "inc", "lib.nibi">>}),
   Tree(Dirs \ ModTests, (Files \union {<<"w", "app", "lib.nibi">>, <<"n", "lib.nibi">>})
        \ (ModTests \union {<<"n", "modules", "m", "tests", "t1.nibi">>})),
   Tree(Dirs \ (ModTests \union MTests), (Files \union {<<"h", ".nibi">>, <<"w", "mod", "main.nibi">>})
        \ (ModTests \union MTests \union {<<"w", "app", "main.nibi">>, <<"n", "config.nibi">>}))}
HomesMC == {[nibi |-> Abs(<<"n">>), home |-> NoPath], [nibi |-> NoPath, home |-> Abs(<<"h">>)]}

CwdMC    == Abs(<<"w">>)
WantedMC == {Rel(<<"lib.nibi">>), Abs(<<"w", "run.nibi">>)}
=============================================================================
