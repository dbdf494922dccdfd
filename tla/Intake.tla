------------------------------- MODULE Intake -------------------------------
(***************************************************************************)
(* How program text becomes instructions: the input buffer of the REPL     *)
(* (app/repl/repl.cpp), the lexer and token buffer of intake_c             *)
(* (front/intake.cpp), and the parser.                                     *)
(*                                                                         *)
(* Text is a sequence of items: tokens, "~" (an unterminated string or     *)
(* character, a malformed number) and "#" (the rest of the line is a       *)
(* comment).  Strings that contain brackets or a "#" are not modelled.     *)
(***************************************************************************)
EXTENDS Parser

CONSTANTS
  Modes,     \* of {"file", "repl"}: which programs read the text
  Items,     \* what the text may consist of
  Spaced,    \* the lines of an instruction end in a blank
  MaxItems   \* bound: the items of a text

ASSUME IntakeAssumption ==
  /\ Modes \subseteq {"file", "repl"} /\ Modes # {}
  /\ Items \subseteq Tokens \union {"~", "#"} /\ Spaced \in BOOLEAN /\ MaxItems \in Nat

VARIABLES
  mode,
  status,      \* "run", "done", or "exit" after the error callback of a file
  line,        \* the line being typed, or read
  rest,        \* what process_line has still to look at
  lexing,      \* process_line is being executed
  buffer,      \* input_buffer_c::_buffer
  tracker,     \* input_buffer_c::_tracker; as an integer, for the text is short
  tokens,      \* intake_c::tokens_
  depth,       \* the sizes of the tracker's stacks, by opening bracket
  instructions,\* history: the instructions given to the interpreter
  given,       \* history: the text submitted, without comments
  drawn        \* history: an error in the text was reported

vars == <<mode, status, line, rest, lexing, buffer, tracker, tokens, depth,
          instructions, given, drawn>>

repl   == <<buffer, tracker>>
intake == <<tokens, depth, instructions>>

WithoutComment(text) ==
  LET marks == {i \in DOMAIN text : text[i] = "#"}
  IN IF marks = {} THEN text
     ELSE SubSeq(text, 1, (CHOOSE i \in marks : \A j \in marks : i <= j) - 1)

Init ==
  /\ mode \in Modes /\ status = "run"
  /\ line = << >> /\ rest = << >> /\ lexing = FALSE
  /\ buffer = << >> /\ tracker = 0
  /\ tokens = << >> /\ depth = [b \in {"(", "[", "{"} |-> 0]
  /\ instructions = << >> /\ given = << >> /\ drawn = FALSE

Typing == status = "run" /\ ~lexing

Type ==
  /\ Typing /\ Len(given) + Len(line) < MaxItems
  /\ \E i \in Items : line' = Append(line, i)
  /\ UNCHANGED <<mode, status, rest, lexing, intake, given, drawn, repl>>

\* intake_c::read
NextLine ==
  /\ Typing /\ mode = "file" /\ line # << >>
  /\ rest' = line /\ lexing' = TRUE /\ line' = << >>
  /\ given' = given \o WithoutComment(line)
  /\ UNCHANGED <<mode, status, intake, drawn, repl>>

\* Mutant of Join: the last line replaces the ones before it.
JoinLast(text, next) == next

\* Lines are joined as they are: a word goes on with the next line's number or
\* word, and so does a number.
Join(text, next) ==
  IF ~Spaced /\ text # << >> /\ next # << >>
     /\ <<text[Len(text)], next[1]>> \in {"x"} \X {"x", "1", "~"} \union {<<"1", "1">>}
  THEN text \o Tail(next) ELSE text \o next

\* input_buffer_c::submit, and read_line when it returns a buffer.
Submit ==
  /\ Typing /\ mode = "repl" /\ line # << >>
  /\ line' = << >>
  /\ LET l     == WithoutComment(line)
         whole == IF buffer = << >> /\ l[1] # "(" THEN <<"(">> \o l \o <<")">> ELSE l
         text  == Join(buffer, whole)
         t     == tracker + Count("(", whole) - Count(")", whole)
     IN IF l = << >> THEN UNCHANGED <<rest, lexing, given, repl>>
        ELSE /\ tracker' = t
             /\ given' = given \o whole
             /\ IF t = 0 THEN buffer' = << >> /\ rest' = text /\ lexing' = TRUE
                         ELSE buffer' = text /\ UNCHANGED <<rest, lexing>>
  /\ UNCHANGED <<mode, status, intake, drawn>>

\* The error callback: that of a program exits, that of the REPL returns.
Report == drawn' = TRUE /\ status' = IF mode = "file" THEN "exit" ELSE status

\* process_token, with the stacks as they are after the token: the tokens are
\* parsed when no parenthesis is open.  An instruction may throw.
ProcessToken(token, depths) ==
  LET all == Append(tokens, token)
      r   == Parse(all)
  IN /\ depth' = depths
     /\ IF depths["("] # 0
        THEN tokens' = all /\ UNCHANGED <<instructions, status, drawn>>
        ELSE /\ tokens' = << >>
             /\ \/ r.bad /\ Report
                \/ /\ ~r.bad /\ UNCHANGED drawn
                   /\ status' \in IF mode = "file" THEN {"run", "exit"} ELSE {"run"}
             /\ instructions' = IF r.cell = NoCell \/ (r.bad /\ mode = "file") THEN instructions
                                ELSE Append(instructions, r.cell)

\* The sizes of the stacks after a token.
Counted(token) ==
  [b \in DOMAIN depth |-> IF token = b THEN depth[b] + 1
                          ELSE IF token = ClosingSym(b) THEN depth[b] - 1 ELSE depth[b]]

\* Mutant of Unmatched: only parentheses are checked.
UnmatchedParen(item) == item = ")" /\ depth["("] = 0

Unmatched(item) == \E b \in DOMAIN depth : item = ClosingSym(b) /\ depth[b] = 0

\* One step of process_line.
LexComment == rest[1] = "#" /\ rest' = << >> /\ UNCHANGED <<status, drawn, intake>>

LexError ==
  /\ rest[1] = "~" \/ Unmatched(rest[1])
  /\ rest' = << >> /\ Report /\ UNCHANGED intake

LexToken ==
  /\ rest[1] \in Tokens /\ ~Unmatched(rest[1])
  /\ rest' = Tail(rest) /\ ProcessToken(rest[1], Counted(rest[1]))

Lex ==
  /\ lexing /\ status = "run" /\ rest # << >>
  /\ LexComment \/ LexError \/ LexToken
  /\ UNCHANGED <<mode, line, lexing, given, repl>>

\* The end of the line; in the REPL also check_for_complete_expression.
LineDone ==
  /\ lexing /\ status = "run" /\ rest = << >>
  /\ lexing' = FALSE
  /\ drawn' = (drawn \/ (mode = "repl" /\ tokens # << >>))
  /\ UNCHANGED <<mode, status, line, rest, intake, given, repl>>

\* The end of the file, or of the input of the REPL.
EndOfText ==
  /\ Typing /\ line = << >>
  /\ IF mode = "file" /\ tokens # << >> THEN Report
     ELSE status' = "done" /\ UNCHANGED drawn
  /\ UNCHANGED <<mode, line, rest, lexing, intake, given, repl>>

Ended == status # "run" /\ UNCHANGED vars

Next == Type \/ NextLine \/ Submit \/ Lex \/ LineDone \/ EndOfText \/ Ended

Spec == Init /\ [][Next]_vars

(***************************************************************************)
(* Properties.                                                             *)
(***************************************************************************)

\* Every variable has its type; the stacks count the brackets of the tokens
\* that wait to be parsed.
TypeOK ==
  /\ mode \in Modes /\ status \in {"run", "done", "exit"}
  /\ {lexing, drawn} \subseteq BOOLEAN /\ tracker \in Int
  /\ \A text \in {line, rest, given, buffer} : \A i \in DOMAIN text : text[i] \in Tokens \union Items
  /\ \A i \in DOMAIN tokens : tokens[i] \in Tokens
  /\ depth["("] = Count("(", tokens) - Count(")", tokens)
  /\ depth["["] \in Nat /\ depth["{"] \in Nat

\* However a text is split into lines and whatever brackets it uses, until an
\* error is reported nothing of it is lost, repeated or reordered between the
\* input buffer, the tokens and the instructions, and each instruction is one
\* complete list.
RunsWhatIsWritten ==
  ~drawn =>
    /\ SX!FlattenSeq(instructions) \o tokens \o WithoutComment(rest) \o buffer = given
    /\ \A i \in DOMAIN instructions :
         /\ Program(instructions[i])
         /\ \A n \in 1..Len(instructions[i]) - 1 : ~Program(SubSeq(instructions[i], 1, n))

\* No program is rejected: an error is reported only if no program begins with
\* the text, or the file ends before the program does.
ErrorsDeserved ==
  drawn => ~Viable(given) \/ (mode = "file" /\ status = "exit" /\ ~Program(given))

\* What is executed is in the language, "instruction_list - '(' callable
\* <element>+ ')'", after an error was reported too.
RunsGrammatical == \A i \in DOMAIN instructions : Program(instructions[i])

\* "Just draw the error and keep truckin": between two entries the REPL holds
\* nothing of the earlier ones.
FreshBetweenEntries == mode = "repl" /\ Typing /\ buffer = << >> => tokens = << >>
=============================================================================
