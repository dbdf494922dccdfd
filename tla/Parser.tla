------------------------------- MODULE Parser -------------------------------
(***************************************************************************)
(* The parser of intake_c (front/intake.cpp) as a function of the tokens it *)
(* is given, and the language it is written for.                           *)
(*                                                                         *)
(* A token is a bracket, "x" (a symbol), "1" (any other datum) or "!" (one  *)
(* whose conversion fails: an integer or character out of range).  A cell  *)
(* is the sequence of the tokens it would be written with; "null" stands   *)
(* in it for an element that is a nullptr.                                 *)
(***************************************************************************)
EXTENDS Integers, Sequences, FiniteSets

SX == INSTANCE SequencesExt

Tokens == {"(", ")", "[", "]", "{", "}", "x", "1", "!"}

ClosingSym(open) == CASE open = "(" -> ")" [] open = "[" -> "]" [] open = "{" -> "}"

\* How often a text has an item.
Count(item, text) == Cardinality({i \in DOMAIN text : text[i] = item})

NoCell == << >>   \* nullptr

\* What a function of parser_c gives from a position in the tokens: the cell
\* or NoCell, the position it leaves the parser at, and whether it has reported
\* an error.  In the REPL reporting an error returns, and the parser goes on.
Result(cell, at, bad) == [cell |-> cell, at |-> at, bad |-> bad]

Failing(at)       == Result(NoCell, at, TRUE)
NotHere(at)       == Result(NoCell, at, FALSE)
Before(ts, r)     == IF r.cell = NoCell THEN r ELSE [r EXCEPT !.cell = ts \o @]
After(earlier, r) == [r EXCEPT !.bad = @ \/ earlier.bad]

\* current_token: NIL, a datum, past the end
Current(t, i) == IF i <= Len(t) THEN t[i] ELSE "1"

Symbol(t, i) == IF Current(t, i) = "x" THEN Result(<<"x">>, i + 1, FALSE) ELSE NotHere(i)

\* In what follows calls[f][i] is what the function f gives from position i.

\* Mutant of Callables: only what the grammar in intake.hpp lists.
CallablesListed == {"x", "{"}

\* The tokens an instruction list may begin with.
Callables == {"x", "{", "("}

Callable(t, calls, i) ==
  LET r == IF Current(t, i) = "(" THEN calls["instruction"][i]
           ELSE IF Current(t, i) = "{" THEN calls["access"][i] ELSE Symbol(t, i)
  IN IF r.cell = NoCell THEN [r EXCEPT !.cell = <<"null">>] ELSE r

\* list(): each of the three from where the one before has stopped
AnyList(calls, i) ==
  LET a == calls["instruction"][i]
      b == After(a, calls["data"][a.at])
      c == After(b, calls["access"][b.at])
  IN IF a.cell # NoCell THEN a ELSE IF b.cell # NoCell THEN b ELSE c

\* NIBI_PARSER_SCAN_LIST and the next() that follows it
Scan(t, calls, scan, close, element, i) ==
  IF Current(t, i) = close THEN Result(<<close>>, i + 1, FALSE)
  ELSE IF element.cell = NoCell \/ element.at > Len(t) THEN Failing(element.at)
  ELSE Before(element.cell, After(element, calls[scan][element.at]))

Functions == {"element", "instruction", "data", "access", "scan )", "scan ]", "scan }"}

Gives(t, calls, f, i) ==
  CASE f = "element" -> IF Current(t, i) = "!" THEN Failing(i)
                        ELSE IF Current(t, i) \in {"x", "1"} THEN Result(<<Current(t, i)>>, i + 1, FALSE)
                        ELSE AnyList(calls, i)
    [] f = "instruction" ->
         IF Current(t, i) # "(" THEN NotHere(i)
         ELSE IF Current(t, i + 1) \notin Callables THEN Failing(i + 1)
         ELSE LET c == Callable(t, calls, i + 1)
              IN Before(<<"(">> \o c.cell, After(c, calls["scan )"][c.at]))
    [] f = "data" -> IF Current(t, i) = "[" THEN Before(<<"[">>, calls["scan ]"][i + 1]) ELSE NotHere(i)
    [] f = "access" -> IF Current(t, i) = "{" THEN Before(<<"{">>, calls["scan }"][i + 1]) ELSE NotHere(i)
    [] f = "scan )" -> Scan(t, calls, f, ")", calls["element"][i], i)
    [] f = "scan ]" -> Scan(t, calls, f, "]", calls["element"][i], i)
    [] f = "scan }" -> Scan(t, calls, f, "}", Symbol(t, i), i)

\* The functions of parser_c for the tokens t, when calls nest up to a depth.
Calls(t) ==
  LET Upto[depth \in Nat] ==
        [f \in Functions |-> [i \in Nat \ {0} |->
           IF depth = 0 THEN Failing(i) ELSE Gives(t, Upto[depth - 1], f, i)]]
  IN Upto

\* No calls nest deeper: a list takes a token and three calls.
MaxCalls(t) == 3 * Len(t)

\* parser_c::parse; an instruction that is no cell is reported too.
Parse(t) ==
  LET r == Calls(t)[MaxCalls(t)]["instruction"][1] IN [r EXCEPT !.bad = @ \/ r.cell = NoCell]

(***************************************************************************)
(* The language, independently of the parser: what is open after each token *)
(* of a program.  "(!" is an instruction list that still needs its callable. *)
(***************************************************************************)
Wrong == <<"wrong">>

Innermost(open) == IF open = << >> THEN "top" ELSE open[Len(open)]
Called(open)    == IF Innermost(open) = "(!" THEN [open EXCEPT ![Len(open)] = "("] ELSE open
Closed(open)    == SubSeq(open, 1, Len(open) - 1)

Opened(open, token) ==
  LET Within(lists, result) == IF Innermost(open) \in lists THEN result ELSE Wrong
  IN CASE token = "x" -> Within({"(!", "(", "[", "{"}, Called(open))
       [] token = "1" -> Within({"(", "["}, open)
       [] token = "(" -> Within({"top", "(!", "(", "["}, Append(Called(open), "(!"))
       [] token = "[" -> Within({"(", "["}, Append(open, "["))
       [] token = "{" -> Within({"(!", "(", "["}, Append(Called(open), "{"))
       [] token = ")" -> Within({"("}, Closed(open))
       [] token = "]" -> Within({"["}, Closed(open))
       [] token = "}" -> Within({"{"}, Closed(open))
       [] OTHER       -> Wrong

OpenAfter(tokens) ==
  LET open[n \in 0 .. Len(tokens)] == IF n = 0 THEN << >> ELSE Opened(open[n - 1], tokens[n])
  IN open

Nesting(tokens) == OpenAfter(tokens)[Len(tokens)]

Viable(tokens)  == Nesting(tokens) # Wrong    \* some program begins with them
Program(tokens) == Nesting(tokens) = << >>    \* they are a program
=============================================================================
