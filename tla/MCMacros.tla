------------------------------ MODULE MCMacros ------------------------------
(* Macros of none to two parameters whose bodies are one or two elements of  *)
(* up to three words, with markers alone, side by side, escaped and made of  *)
(* a longer name; every text of up to four characters for eval, and many of  *)
(* five.                                                                     *)
EXTENDS Macros

CharactersMC == Brackets \union {" ", "#", "%", "\\", "a", "b", "x"}

WordsMC == {<<"x">>, <<"%", "a">>, <<"%", "b">>, <<"\\", "%", "a">>, <<"%", "%", "a">>,
            <<"%", "a", "%", "b">>, <<"%", "a", "b">>, <<"\\", "%", "a", "%", "a">>}
Open == <<"(">>
Shut == <<")">>

Elements == {<<w>> : w \in WordsMC} \union {<<Open, v, w, Shut>> : v, w \in WordsMC}
            \union {<<Open, v, Shut>> : v \in WordsMC}
Bodies == {<<e>> : e \in Elements}
          \union {<< <<v>>, <<Open, w, Shut>> >> : v, w \in WordsMC}
          \union {<< <<Open, v, Shut>>, <<w>> >> : v \in {<<"x">>, <<"%", "b">>}, w \in WordsMC}
ParamsMC == {<< >>, << <<"a">> >>, << <<"b">>, <<"a">> >>, << <<"a", "b">>, <<"a">> >>}
MacrosMC == [params : ParamsMC, body : Bodies]

ArgumentsMC == {<< <<"x">> >>, <<Open, <<"x">>, Shut>>, << <<"[">>, <<"x">>, <<"x">>, <<"]">> >>}

TextsMC == UNION {[1 .. n -> {"(", ")", "[", "]", "x", " ", "#"}] : n \in 0 .. 4}
           \union [1 .. 5 -> {"(", ")", "x", "#"}]
=============================================================================
