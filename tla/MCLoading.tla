----------------------------- MODULE MCLoading -----------------------------
(***************************************************************************)
(* Programs for Loading: which file asks for what.                         *)
(***************************************************************************)
EXTENDS Loading

FilesMC == {"main", "lib", "a_src", "b_src", "post"}
NoFile  == [t \in FilesMC \union {"A", "B"} |-> {}]

\* main imports lib; both use A; B's source uses A again, in an environment of
\* its own; A's post action runs in the user's environment and uses A there.
ImportsMC == [NoFile EXCEPT !["main"] = {"lib"}]
UsesMC    == [NoFile EXCEPT !["main"] = {"A", "B"}, !["lib"] = {"A"},
                            !["b_src"] = {"A"}, !["post"] = {"A"}]
SourcesMC == [m \in {"A", "B"} |-> IF m = "A" THEN <<"a_src">> ELSE <<"b_src">>]
PostsMC   == [m \in {"A", "B"} |-> IF m = "A" THEN <<"post">> ELSE << >>]

\* A's source uses B and B's source uses A.
UsesCycle == [NoFile EXCEPT !["main"] = {"A"}, !["a_src"] = {"B"}, !["b_src"] = {"A"}]
NoPosts   == [m \in {"A", "B"} |-> << >>]
=============================================================================
