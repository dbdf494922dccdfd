------------------------------- MODULE Macros -------------------------------
(***************************************************************************)
(* `macro' and `eval' (builtins/common.cpp).  A call of a macro puts what   *)
(* was written for its parameters into the text of its body and evaluates  *)
(* the result: all of it is parsed before any of it is executed.           *)
(*                                                                         *)
(* A text is a sequence of characters: brackets, " ", "#" and those words  *)
(* are made of ("%", "\\" and the letters of parameters among them); it has *)
(* no strings, numbers or line ends.  A macro called or a text evaluated by *)
(* an instruction of another one works on a copy of its own, so there is   *)
(* one at a time here: a program defines one macro, or none and evaluates  *)
(* texts.                                                                  *)
(***************************************************************************)
EXTENDS Parser

CONSTANTS
  Characters,     \* what texts are made of
  MacrosDefined,  \* the macros programs define: [params |-> names, body |-> cells]
  Arguments,      \* the cells they give for parameters
  Texts           \* the strings they give to `eval'

Text == Seq(Characters)
Cell == Seq(Text)   \* brackets and words, as the lexer has told them apart
NoMacro == [params |-> << >>, body |-> << >>]

Brackets == {"(", ")", "[", "]", "{", "}"}

ASSUME MacrosAssumption ==
  /\ Brackets \union {" ", "#", "%", "\\"} \subseteq Characters
  /\ \A m \in MacrosDefined : m.params \in Seq(Text \ {<< >>}) /\ m.body \in Seq(Cell)
  /\ Arguments \subseteq Cell /\ Texts \subseteq Text

VARIABLES
  pc,        \* "idle", "assemble", "evaluate", "run"
  macro,     \* the macro: $params, $body
  args,      \* what the call gives it
  i,         \* the parameter being replaced
  found,     \* where its marker is in the text, or 0
  text,      \* macro_body of the call, or the string of `eval'
  waiting,   \* the instructions the catcher has
  ran,       \* history: the instructions executed of this text
  thrown     \* history: the call or the evaluation threw

vars == <<pc, macro, args, i, found, text, waiting, ran, thrown>>

Init ==
  /\ pc = "idle" /\ macro = NoMacro /\ args = << >>
  /\ i = 1 /\ found = 0 /\ text = << >> /\ waiting = << >> /\ ran = << >> /\ thrown = FALSE

\* cell_c::to_string
Written(cell) ==
  LET Blank(k) == k > 1 /\ cell[k - 1] \notin {<<"(">>, <<"[">>, <<"{">>}
                        /\ cell[k] \notin {<<")">>, <<"]">>, <<"}">>}
  IN SX!FlattenSeq([k \in DOMAIN cell |-> IF Blank(k) THEN <<" ">> \o cell[k] ELSE cell[k]])

\* builtin_fn_common_macro: the cells of the body are written one after the other
Define(m) ==
  /\ pc = "idle" /\ macro = NoMacro
  /\ macro' = [params |-> m.params,
              body |-> SX!FlattenSeq([k \in DOMAIN m.body |-> Written(m.body[k])])]
  /\ UNCHANGED <<pc, args, i, found, text, waiting, ran, thrown>>

------------------------------------------------------------------------------
(* assemble_macro                                                           *)

Marker(p) == <<"%">> \o p

IsAt(marker, t, k) == k + Len(marker) - 1 <= Len(t) /\ SubSeq(t, k, k + Len(marker) - 1) = marker

\* std::string::find, from a position
Find(marker, t, from) ==
  LET at == {k \in from .. Len(t) : IsAt(marker, t, k)}
  IN IF at = {} THEN 0 ELSE CHOOSE k \in at : \A j \in at : k <= j

Escaped(t, k) == k > 1 /\ t[k - 1] = "\\"

\* the next parameter, or the end of the loop
Turn(n, t) ==
  /\ i' = n
  /\ found' = IF n > Len(macro.params) THEN 0 ELSE Find(Marker(macro.params[n]), t, 1)

\* what the call had is gone
Leave(t) ==
  /\ pc' = "idle" /\ thrown' = t /\ args' = << >> /\ i' = 1 /\ found' = 0
  /\ text' = << >> /\ waiting' = << >> /\ ran' = << >>

\* Mutant of Call: a call with too few arguments is not refused.
CallUnchecked(as) ==
  /\ pc = "idle" /\ macro # NoMacro
  /\ pc' = "assemble" /\ args' = as /\ text' = macro.body /\ thrown' = FALSE
  /\ Turn(1, macro.body)
  /\ UNCHANGED <<macro, waiting, ran>>

Call(as) ==
  /\ pc = "idle" /\ macro # NoMacro
  /\ IF Len(as) # Len(macro.params) THEN Leave(TRUE)
     ELSE /\ pc' = "assemble" /\ args' = as /\ text' = macro.body /\ thrown' = FALSE
          /\ Turn(1, macro.body) /\ UNCHANGED <<waiting, ran>>
  /\ UNCHANGED macro

Here == pc = "assemble" /\ i <= Len(macro.params)

\* Mutant of SkipEscaped: an escaped marker is found again.
SkipEscapedStays ==
  /\ Here /\ found # 0 /\ Escaped(text, found)
  /\ found' = Find(Marker(macro.params[i]), text, 1)
  /\ UNCHANGED <<pc, macro, args, i, text, waiting, ran, thrown>>

SkipEscaped ==
  /\ Here /\ found # 0 /\ Escaped(text, found)
  /\ found' = Find(Marker(macro.params[i]), text, found + 1)
  /\ UNCHANGED <<pc, macro, args, i, text, waiting, ran, thrown>>

Replace ==
  /\ Here /\ found # 0 /\ ~ Escaped(text, found)
  /\ LET marker == Marker(macro.params[i])
     IN text' = SubSeq(text, 1, found - 1) \o Written(args[i]) \o SubSeq(text, found + Len(marker), Len(text))
  /\ Turn(i, text')
  /\ UNCHANGED <<pc, macro, args, waiting, ran, thrown>>

NextParam ==
  /\ Here /\ found = 0 /\ Turn(i + 1, text)
  /\ UNCHANGED <<pc, macro, args, text, waiting, ran, thrown>>

Assembled ==
  /\ pc = "assemble" /\ i > Len(macro.params) /\ pc' = "evaluate"
  /\ UNCHANGED <<macro, args, i, found, text, waiting, ran, thrown>>

------------------------------------------------------------------------------
(* builtin_fn_common_eval                                                   *)

Eval(t) ==
  /\ pc = "idle" /\ macro = NoMacro /\ pc' = "evaluate" /\ text' = t /\ thrown' = FALSE
  /\ UNCHANGED <<macro, args, i, found, waiting, ran>>

\* intake_c::process_line: the tokens of a text, which is one line
Begins(t, k) == t[k] # " " /\ (k = 1 \/ {t[k - 1], t[k]} \intersect (Brackets \union {" "}) # {})
Commented(t, k) == \E c \in 1 .. k : t[c] = "#" /\ Begins(t, c)
Lexed(t) ==
  LET upto[k \in 0 .. Len(t)] ==
        IF k = 0 THEN << >>
        ELSE IF ~ Begins(t, k) \/ Commented(t, k) THEN upto[k - 1]
        ELSE Append(upto[k - 1], IF t[k] \in Brackets THEN t[k] ELSE "x")
  IN upto[Len(t)]

\* process_token: what the catcher has after a token; nothing is done after an
\* error, for the callback throws
Depth(open, ts) == Count(open, ts) - Count(ClosingSym(open), ts)
Take(taken, token) ==
  LET all == Append(taken.tokens, token)
      r   == Parse(all)
  IN IF taken.bad \/ \E b \in {"(", "[", "{"} : token = ClosingSym(b) /\ Depth(b, taken.seen) = 0
     THEN [taken EXCEPT !.bad = TRUE]
     ELSE IF Depth("(", all) # 0
     THEN [taken EXCEPT !.tokens = all, !.seen = Append(@, token)]
     ELSE [tokens |-> << >>, seen |-> Append(taken.seen, token), bad |-> r.bad,
           caught |-> IF r.bad THEN taken.caught ELSE Append(taken.caught, r.cell)]

\* evaluate: process_line, check_for_complete_expression
Taken(ts) ==
  LET after[n \in 0 .. Len(ts)] ==
        IF n = 0 THEN [tokens |-> << >>, seen |-> << >>, bad |-> FALSE, caught |-> << >>]
        ELSE Take(after[n - 1], ts[n])
  IN after[Len(ts)]

Evaluated(t) ==
  LET r == Taken(Lexed(t)) IN [r EXCEPT !.bad = @ \/ r.tokens # << >>]

\* Mutant of Evaluate: the instructions before an error are executed.
EvaluateUntilError ==
  /\ pc = "evaluate" /\ pc' = "run" /\ waiting' = Evaluated(text).caught
  /\ UNCHANGED <<macro, args, i, found, text, ran, thrown>>

Evaluate ==
  /\ pc = "evaluate"
  /\ LET r == Evaluated(text)
     IN IF r.bad THEN Leave(TRUE)
        ELSE pc' = "run" /\ waiting' = r.caught /\ UNCHANGED <<args, i, found, text, ran, thrown>>
  /\ UNCHANGED macro

\* an instruction is executed; once it has set the yield value the others are
\* not, nor if it throws
Execute ==
  /\ pc = "run" /\ waiting # << >>
  /\ ran' = Append(ran, Head(waiting)) /\ waiting' \in {Tail(waiting), << >>}
  /\ UNCHANGED <<pc, macro, args, i, found, text, thrown>>

Return ==
  /\ pc = "run"
  /\ \/ waiting = << >> /\ Leave(FALSE)
     \/ ran # << >> /\ Leave(TRUE)
  /\ UNCHANGED macro

Assemble == SkipEscaped \/ Replace \/ NextParam \/ Assembled

Next ==
  \/ \E m \in MacrosDefined : Define(m)
  \/ \E n \in {Len(macro.params) - 1, Len(macro.params)} : \E as \in [1 .. n -> Arguments] : Call(as)
  \/ Assemble \/ (\E t \in Texts : Eval(t)) \/ Evaluate \/ Execute \/ Return

\* one thread, which does nothing else while it assembles
Spec == Init /\ [][Next]_vars /\ WF_vars(Assemble)

------------------------------------------------------------------------------
(* Properties                                                               *)

\* Every variable has its type; a call has an argument for each parameter, and
\* what is replaced is a marker.
TypeOK ==
  /\ pc \in {"idle", "assemble", "evaluate", "run"} /\ thrown \in BOOLEAN
  /\ macro \in [params : Seq(Text), body : Text] /\ text \in Text
  /\ i \in Nat \ {0} /\ args \in Seq(Arguments)
  /\ pc = "assemble" =>
       /\ Len(args) = Len(macro.params) /\ i <= Len(macro.params) + 1
       /\ found # 0 => IsAt(Marker(macro.params[i]), text, found)

\* Of a text with an error anywhere, an unknown bracket or an end that is missing,
\* no instruction is executed, and of any other the instructions are executed
\* whole and in the order they are written in.
AllOrNothing ==
  ran # << >> =>
    /\ Program(Lexed(text))
    /\ SX!IsPrefix(SX!FlattenSeq(ran), Lexed(text))
    /\ \A k \in DOMAIN ran :
         /\ Program(ran[k])
         /\ \A n \in 1 .. Len(ran[k]) - 1 : ~ Program(SubSeq(ran[k], 1, n))

\* What a body stands for (docs/LANGUAGE.md, Macro: "1-for-1"): each marker that
\* is not escaped, the longest name that fits, is what was written for it.
At(k) == {n \in DOMAIN macro.params : IsAt(Marker(macro.params[n]), macro.body, k)}
Meant ==
  LET b == macro.body
      Rest[k \in 1 .. Len(b) + 1] ==
        IF k > Len(b) THEN << >>
        ELSE IF At(k) = {} \/ Escaped(b, k) THEN <<b[k]>> \o Rest[k + 1]
        ELSE LET n == CHOOSE n \in At(k) : \A m \in At(k) : Len(macro.params[m]) <= Len(macro.params[n])
             IN Written(args[n]) \o Rest[k + Len(Marker(macro.params[n]))]
  IN Rest[1]

\* Replacing one parameter after the other, each from the start of the text again,
\* ends and gives what the body stands for (if what is written for a parameter is
\* no part of a marker, and no parameter begins with an earlier one).
AssembledAsMeant == pc = "assemble" ~> pc = "evaluate" /\ text = Meant
=============================================================================
