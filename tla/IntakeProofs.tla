---------------------------- MODULE IntakeProofs ----------------------------
(***************************************************************************)
(* For texts of any length, in a file and in the REPL, and however they    *)
(* are split into lines: every variable keeps its type; what is written is *)
(* executed, nothing lost, repeated or reordered; and no program is        *)
(* rejected.                                                               *)
(***************************************************************************)
EXTENDS Intake, Foundations

(***************************************************************************)
(* Comments.                                                               *)
(***************************************************************************)
NoMark(text) == \A i \in DOMAIN text : text[i] # "#"

\* The first k items of a text are what comes before its comment.
Uncommented(text, k) ==
  /\ k \in 0 .. Len(text) /\ WithoutComment(text) = SubSeq(text, 1, k)
  /\ \A i \in 1 .. k : text[i] # "#"
  /\ k < Len(text) => text[k + 1] = "#"

LEMMA UncommentedIs == ASSUME NEW S, NEW text \in Seq(S) PROVE \E k \in Nat : Uncommented(text, k)
<1> DEFINE marks == {i \in DOMAIN text : text[i] = "#"}
<1>1. Len(text) \in Nat /\ DOMAIN text = 1 .. Len(text) /\ marks \subseteq Nat
  <2>1. Len(text) \in Nat /\ DOMAIN text = 1 .. Len(text)
    BY LenProperties
  <2>2. QED BY <2>1
<1>2. CASE marks = {}
  <2>1. WithoutComment(text) = text
    BY <1>2 DEF WithoutComment
  <2>2. text = SubSeq(text, 1, Len(text))
    BY SubSeqFull
  <2>3. Len(text) \in 0 .. Len(text) /\ ~ (Len(text) < Len(text))
    BY <1>1
  <2>4. \A i \in 1 .. Len(text) : text[i] # "#"
    BY <1>1, <1>2
  <2>5. Uncommented(text, Len(text))
    BY <2>1, <2>2, <2>3, <2>4 DEF Uncommented
  <2>6. QED BY <1>1, <2>5
<1>3. CASE marks # {}
  <2> DEFINE m == CHOOSE i \in marks : \A j \in marks : i <= j
  <2>1. m \in marks /\ \A j \in marks : m <= j
    <3> HIDE DEF marks
    <3>1. \E i \in marks : \A j \in marks : i <= j
      BY <1>1, <1>3, LeastIn
    <3>2. QED BY <3>1
  <2>2. WithoutComment(text) = SubSeq(text, 1, m - 1)
    BY <1>3 DEF WithoutComment
  <2> HIDE DEF m
  <2>3. m \in 1 .. Len(text) /\ text[m] = "#"
    BY <1>1, <2>1
  <2>4. m - 1 \in Nat /\ m - 1 \in 0 .. Len(text) /\ (m - 1) + 1 = m
    BY <1>1, <2>3
  <2>5. ASSUME NEW i \in 1 .. m - 1 PROVE text[i] # "#"
    <3>1. i \in 1 .. Len(text) /\ ~ (m <= i)
      BY <1>1, <2>3
    <3>2. QED BY <1>1, <2>1, <3>1
  <2>6. Uncommented(text, m - 1)
    BY <2>2, <2>3, <2>4, <2>5 DEF Uncommented
  <2>7. QED BY <2>4, <2>6
<1>4. QED BY <1>2, <1>3

\* There is one such number.
LEMMA UncommentedOnce ==
  ASSUME NEW S, NEW text \in Seq(S), NEW k \in Nat, Uncommented(text, k),
         NEW l \in 0 .. Len(text), \A i \in 1 .. l : text[i] # "#", l < Len(text) => text[l + 1] = "#"
  PROVE  k = l
<1>1. Len(text) \in Nat
  BY LenProperties
<1> DEFINE n == Len(text)
<1> HIDE DEF n
<1>2. /\ n \in Nat /\ k \in 0 .. n /\ l \in 0 .. n /\ \A i \in 1 .. k : text[i] # "#"
      /\ k < n => text[k + 1] = "#"
      /\ \A i \in 1 .. l : text[i] # "#"
      /\ l < n => text[l + 1] = "#"
  BY <1>1 DEF Uncommented, n
<1>3. ~ (k < l)
  <2>1. SUFFICES ASSUME k < l PROVE FALSE
    OBVIOUS
  <2>2. k < n /\ k + 1 \in 1 .. l
    BY <1>2, <2>1
  <2>3. QED BY <1>2, <2>2
<1>4. ~ (l < k)
  <2>1. SUFFICES ASSUME l < k PROVE FALSE
    OBVIOUS
  <2>2. l < n /\ l + 1 \in 1 .. k
    BY <1>2, <2>1
  <2>3. QED BY <1>2, <2>2
<1>5. QED BY <1>2, <1>3, <1>4

\* What WithoutComment leaves of a text, and of a text item by item.
LEMMA WithoutCommentIs ==
  ASSUME NEW S, NEW text \in Seq(S)
  PROVE  /\ WithoutComment(text) \in Seq(S) /\ NoMark(WithoutComment(text))
         /\ NoMark(text) => WithoutComment(text) = text
         /\ text # << >> /\ text[1] = "#" => WithoutComment(text) = << >>
         /\ text # << >> /\ text[1] # "#"
              => WithoutComment(text) = <<text[1]>> \o WithoutComment(Tail(text))
<1>1. PICK k \in Nat : Uncommented(text, k)
  BY UncommentedIs
<1>2. /\ Len(text) \in Nat /\ DOMAIN text = 1 .. Len(text) /\ \A i \in 1 .. Len(text) : text[i] \in S
      /\ text # << >> => 1 \in 1 .. Len(text)
  <2>1. Len(text) \in Nat /\ DOMAIN text = 1 .. Len(text) /\ \A i \in 1 .. Len(text) : text[i] \in S
    BY LenProperties, ElementOfSeq
  <2>2. text # << >> => Len(text) # 0
    BY EmptySeq
  <2>3. QED BY <2>1, <2>2
<1> DEFINE w == WithoutComment(text)
<1>3. /\ k \in 0 .. Len(text) /\ w = SubSeq(text, 1, k) /\ \A i \in 1 .. k : text[i] # "#"
      /\ k < Len(text) => text[k + 1] = "#"
  BY <1>1 DEF Uncommented
<1>4. w \in Seq(S) /\ Len(w) = k /\ \A i \in 1 .. k : w[i] = text[i]
  <2>1. \A i \in 1 .. k : text[i] \in S
    BY <1>2, <1>3
  <2>2. /\ SubSeq(text, 1, k) \in Seq(S)
        /\ Len(SubSeq(text, 1, k)) = IF 1 <= k THEN k - 1 + 1 ELSE 0
        /\ \A i \in 1 .. k - 1 + 1 : SubSeq(text, 1, k)[i] = text[1 + i - 1]
    BY <2>1, SubSeqProperties
  <2>3. k - 1 + 1 = k /\ (~ (1 <= k) => k = 0) /\ \A i \in 1 .. k : 1 + i - 1 = i
    OBVIOUS
  <2>4. QED BY <1>3, <2>2, <2>3
<1>5. NoMark(w)
  <2> HIDE DEF w
  <2>1. DOMAIN w = 1 .. k
    BY <1>4, LenProperties
  <2>2. QED BY <1>3, <1>4, <2>1 DEF NoMark
<1>6. ASSUME NoMark(text) PROVE w = text
  <2>1. \A i \in 1 .. Len(text) : text[i] # "#"
    BY <1>2, <1>6 DEF NoMark
  <2>2. Len(text) \in 0 .. Len(text) /\ ~ (Len(text) < Len(text))
    BY <1>2
  <2>3. k = Len(text)
    BY <1>1, <2>1, <2>2, UncommentedOnce
  <2>4. QED BY <1>3, <2>3, SubSeqFull
<1>7. ASSUME text # << >>, text[1] = "#" PROVE w = << >>
  <2>1. k = 0
    <3>1. ~ (1 \in 1 .. k)
      BY <1>3, <1>7
    <3>2. QED BY <3>1
  <2>2. SubSeq(text, 1, 0) = << >>
    BY SubSeqEmpty
  <2>3. QED BY <1>3, <2>1, <2>2
<1>8. ASSUME text # << >>, text[1] # "#" PROVE w = <<text[1]>> \o WithoutComment(Tail(text))
  <2>1. /\ Tail(text) \in Seq(S) /\ Len(Tail(text)) = Len(text) - 1
        /\ \A i \in 1 .. Len(Tail(text)) : Tail(text)[i] = text[i + 1]
    BY <1>8, HeadTailProperties
  <2>2. PICK l \in Nat : Uncommented(Tail(text), l)
    BY <2>1, UncommentedIs
  <2>3. k # 0
    <3>1. k = 0 => 0 < Len(text) /\ text[0 + 1] = "#"
      BY <1>2, <1>3, <1>8
    <3>2. QED BY <1>8, <3>1
  <2> DEFINE n == Len(text)
             u == Tail(text)
             j == k - 1
  <2>4. n \in Nat /\ k \in 1 .. n /\ j \in 0 .. n - 1 /\ j + 1 = k
    BY <1>2, <1>3, <2>3
  <2> HIDE DEF j, n, u
  <2>5. /\ u \in Seq(S) /\ Len(u) = n - 1 /\ \A i \in 1 .. n - 1 : u[i] = text[i + 1]
        /\ \A i \in 1 .. k : text[i] # "#"
        /\ k < n => text[k + 1] = "#"
    BY <1>3, <2>1 DEF n, u
  <2>6. \A i \in 1 .. j : u[i] # "#"
    <3>1. \A i \in 1 .. j : i + 1 \in 1 .. k /\ i \in 1 .. n - 1
      BY <2>4
    <3>2. QED BY <2>5, <3>1
  <2>7. j < Len(u) => u[j + 1] = "#"
    <3>1. SUFFICES ASSUME j < n - 1 PROVE u[j + 1] = "#"
      BY <2>5
    <3>2. k < n /\ j + 1 \in 1 .. n - 1 /\ (j + 1) + 1 = k + 1
      BY <2>4, <3>1
    <3>3. QED BY <2>5, <3>2
  <2>8. l = j
    <3>1. j \in 0 .. Len(u) /\ Uncommented(u, l)
      BY <2>2, <2>4, <2>5 DEF u
    <3>2. QED BY <2>5, <2>6, <2>7, <3>1, UncommentedOnce
  <2>9. WithoutComment(u) = SubSeq(u, 1, j)
    BY <2>2, <2>8 DEF Uncommented, u
  <2>10. SubSeq(u, 1, j) = SubSeq(text, 2, k)
    <3>1. u = SubSeq(text, 2, n)
      BY <1>8, TailIsSubSeq DEF u, n
    <3>2. CASE j = 0
      <4>1. k = 1
        BY <2>4, <3>2
      <4>2. SubSeq(u, 1, 0) = << >> /\ SubSeq(text, 2, 1) = << >>
        BY SubSeqEmpty
      <4>3. QED BY <3>2, <4>1, <4>2
    <3>3. CASE j # 0
      <4>1. /\ 2 \in 1 .. n /\ n \in 1 .. n /\ 1 \in 1 .. n - 2 + 1 /\ j \in 1 .. n - 2 + 1
            /\ 2 + 1 - 1 = 2 /\ 2 + j - 1 = k
        BY <2>4, <3>3
      <4>2. SubSeq(SubSeq(text, 2, n), 1, j) = SubSeq(text, 2 + 1 - 1, 2 + j - 1)
        <5>1. n = Len(text)
          BY DEF n
        <5>2. QED BY <4>1, <5>1, SubSeqOfSubSeq
      <4>3. QED BY <3>1, <4>1, <4>2
    <3>4. QED BY <3>2, <3>3
  <2>11. SubSeq(text, 1, k) = <<text[1]>> \o SubSeq(text, 2, k)
    <3>1. 1 \in 1 .. Len(text) /\ k \in 1 .. Len(text) /\ 1 + 1 = 2
      BY <2>4 DEF n
    <3>2. QED BY <3>1, SubSeqRecursiveFirst
  <2>12. QED BY <1>3, <2>9, <2>10, <2>11 DEF u
<1>9. QED BY <1>4, <1>5, <1>6, <1>7, <1>8

\* No text comes from its parts with a mark that neither of them has.
LEMMA NoMarkConcat ==
  ASSUME NEW S, NEW a \in Seq(S), NEW b \in Seq(S), NoMark(a), NoMark(b) PROVE NoMark(a \o b)
<1>1. /\ Len(a) \in Nat /\ Len(b) \in Nat /\ DOMAIN a = 1 .. Len(a) /\ DOMAIN b = 1 .. Len(b)
  BY LenProperties
<1>2. /\ a \o b \in Seq(S) /\ Len(a \o b) = Len(a) + Len(b)
      /\ \A i \in 1 .. Len(a) + Len(b) : (a \o b)[i] = IF i <= Len(a) THEN a[i] ELSE b[i - Len(a)]
  BY ConcatProperties
<1>3. DOMAIN (a \o b) = 1 .. Len(a) + Len(b)
  BY <1>2, LenProperties
<1>4. ASSUME NEW i \in 1 .. Len(a) + Len(b) PROVE (a \o b)[i] # "#"
  <2>1. CASE i <= Len(a)
    <3>1. i \in 1 .. Len(a)
      BY <1>1, <2>1
    <3>2. QED BY <1>1, <1>2, <2>1, <3>1 DEF NoMark
  <2>2. CASE ~ (i <= Len(a))
    <3>1. i - Len(a) \in 1 .. Len(b)
      BY <1>1, <2>2
    <3>2. QED BY <1>1, <1>2, <2>2, <3>1 DEF NoMark
  <2>3. QED BY <2>1, <2>2
<1>5. QED BY <1>3, <1>4 DEF NoMark

LEMMA NoMarkToken == NoMark(<< >>) /\ \A token \in Tokens : NoMark(<<token>>)
<1>1. NoMark(<< >>)
  BY DEF NoMark
<1>2. ASSUME NEW token \in Tokens PROVE NoMark(<<token>>)
  <2>1. token # "#"
    BY DEF Tokens
  <2>2. DOMAIN <<token>> = {1} /\ <<token>>[1] = token
    OBVIOUS
  <2>3. QED BY <2>1, <2>2 DEF NoMark
<1>3. QED BY <1>1, <1>2

(***************************************************************************)
(* Types.                                                                  *)
(***************************************************************************)
Written == Tokens \union Items
Texts   == Seq(Written)

Typed ==
  /\ mode \in Modes /\ status \in {"run", "done", "exit"}
  /\ lexing \in BOOLEAN /\ drawn \in BOOLEAN /\ tracker \in Int
  /\ line \in Texts /\ rest \in Texts /\ given \in Texts /\ buffer \in Texts

TokensKept ==
  /\ tokens \in Seq(Tokens) /\ instructions \in Seq(Cells)
  /\ depth \in [ListBrackets -> Nat]
  /\ depth["("] = Count("(", tokens) - Count(")", tokens)
  /\ AlwaysOpen(tokens)

\* Text has its type, whatever is done to it.
LEMMA TextsAre ==
  /\ << >> \in Texts /\ <<"(">> \in Texts /\ <<")">> \in Texts
  /\ \A a \in Texts, b \in Texts : a \o b \in Texts
  /\ \A a \in Texts : WithoutComment(a) \in Texts /\ (a # << >> => Tail(a) \in Texts)
<1>1. << >> \in Texts
  BY EmptySeq DEF Texts
<1>2. <<"(">> \in Texts /\ <<")">> \in Texts
  BY DEF Texts, Written, Tokens
<1>3. ASSUME NEW a \in Texts, NEW b \in Texts PROVE a \o b \in Texts
  BY ConcatProperties DEF Texts
<1>4. ASSUME NEW a \in Texts PROVE WithoutComment(a) \in Texts /\ (a # << >> => Tail(a) \in Texts)
  BY WithoutCommentIs, HeadTailProperties DEF Texts
<1>5. QED BY <1>1, <1>2, <1>3, <1>4

LEMMA JoinIs ==
  ASSUME NEW a \in Texts, NEW b \in Texts
  PROVE  Join(a, b) \in Texts /\ (Spaced => Join(a, b) = a \o b)
<1>1. a \o b \in Texts /\ (b # << >> => a \o Tail(b) \in Texts)
  BY TextsAre
<1>2. QED BY <1>1 DEF Join

\* What is submitted: a text, or the text as an instruction.
Whole(l) == IF buffer = << >> /\ l[1] # "(" THEN <<"(">> \o l \o <<")">> ELSE l

LEMMA WholeIs == ASSUME NEW l \in Texts PROVE Whole(l) \in Texts /\ (NoMark(l) => NoMark(Whole(l)))
<1>1. <<"(">> \in Texts /\ <<")">> \in Texts /\ NoMark(<<"(">>) /\ NoMark(<<")">>)
  BY TextsAre, NoMarkToken DEF Tokens
<1>2. <<"(">> \o l \in Texts /\ <<"(">> \o l \o <<")">> \in Texts
  BY <1>1, TextsAre
<1>3. ASSUME NoMark(l) PROVE NoMark(<<"(">> \o l) /\ NoMark(<<"(">> \o l \o <<")">>)
  <2>1. NoMark(<<"(">> \o l)
    BY <1>1, <1>3, NoMarkConcat DEF Texts
  <2>2. QED BY <1>1, <1>2, <2>1, NoMarkConcat DEF Texts
<1>4. QED BY <1>2, <1>3 DEF Whole

\* Submit, in terms of these.
LEMMA SubmitIs ==
  ASSUME Submit
  PROVE  \E l : /\ l = WithoutComment(line) /\ line' = << >>
                /\ l = << >> => UNCHANGED <<rest, lexing, given, buffer, tracker>>
                /\ l # << >> =>
                     /\ tracker' = tracker + Count("(", Whole(l)) - Count(")", Whole(l))
                     /\ given' = given \o Whole(l)
                     /\ \/ tracker' = 0 /\ buffer' = << >> /\ rest' = Join(buffer, Whole(l)) /\ lexing' = TRUE
                        \/ buffer' = Join(buffer, Whole(l)) /\ UNCHANGED <<rest, lexing>>
BY DEF Submit, Whole, repl

LEMMA TypedKept == ASSUME IntakeAssumption, Typed, Next PROVE Typed'
<1>1. CASE Type
  <2>1. PICK i \in Items : line' = Append(line, i)
    BY <1>1 DEF Type
  <2>2. line' \in Texts
    BY <2>1, AppendProperties DEF Typed, Texts, Written
  <2>3. QED BY <1>1, <2>2 DEF Type, Typed, repl
<1>2. CASE NextLine
  BY <1>2, TextsAre DEF NextLine, Typed, repl
<1>3. CASE Submit
  <2>1. PICK l : /\ l = WithoutComment(line) /\ line' = << >>
                 /\ l = << >> => UNCHANGED <<rest, lexing, given, buffer, tracker>>
                 /\ l # << >> =>
                      /\ tracker' = tracker + Count("(", Whole(l)) - Count(")", Whole(l))
                      /\ given' = given \o Whole(l)
                      /\ \/ tracker' = 0 /\ buffer' = << >> /\ rest' = Join(buffer, Whole(l)) /\ lexing' = TRUE
                         \/ buffer' = Join(buffer, Whole(l)) /\ UNCHANGED <<rest, lexing>>
    BY <1>3, SubmitIs
  <2>2. l \in Texts /\ << >> \in Texts
    BY <2>1, TextsAre DEF Typed
  <2>3. Whole(l) \in Texts
    BY <2>2, WholeIs
  <2>4. Join(buffer, Whole(l)) \in Texts /\ given \o Whole(l) \in Texts
    BY <2>3, TextsAre, JoinIs DEF Typed
  <2>5. Count("(", Whole(l)) \in Nat /\ Count(")", Whole(l)) \in Nat
    BY <2>3, CountNat DEF Texts
  <2>6. tracker + Count("(", Whole(l)) - Count(")", Whole(l)) \in Int
    BY <2>5 DEF Typed
  <2>7. UNCHANGED <<mode, status, drawn>>
    BY <1>3 DEF Submit
  <2>8. line' \in Texts /\ rest' \in Texts /\ given' \in Texts /\ buffer' \in Texts
        /\ lexing' \in BOOLEAN /\ tracker' \in Int
    <3>1. CASE l = << >>
      BY <2>1, <2>2, <3>1 DEF Typed
    <3>2. CASE l # << >>
      BY <2>1, <2>2, <2>4, <2>6, <3>2 DEF Typed
    <3>3. QED BY <3>1, <3>2
  <2>9. QED BY <2>7, <2>8 DEF Typed
<1>4. CASE Lex
  <2>1. UNCHANGED <<mode, line, lexing, given, repl>> /\ rest # << >>
    BY <1>4 DEF Lex
  <2>2. rest' \in Texts
    BY <1>4, <2>1, TextsAre DEF Lex, LexComment, LexError, LexToken, Typed
  <2>3. status' \in {"run", "done", "exit"} /\ drawn' \in BOOLEAN
    <3>1. CASE LexComment
      BY <3>1 DEF LexComment, Typed
    <3>2. CASE LexError
      BY <3>2 DEF LexError, Report, Typed
    <3>3. CASE LexToken
      BY <3>3 DEF LexToken, ProcessToken, Report, Typed
    <3>4. QED BY <1>4, <3>1, <3>2, <3>3 DEF Lex
  <2>4. QED BY <2>1, <2>2, <2>3 DEF Typed, repl
<1>5. CASE LineDone
  BY <1>5 DEF LineDone, Typed, repl
<1>6. CASE EndOfText
  BY <1>6 DEF EndOfText, Report, Typed, repl
<1>7. CASE Ended
  BY <1>7 DEF Ended, Typed, vars, repl
<1>8. QED BY <1>1, <1>2, <1>3, <1>4, <1>5, <1>6, <1>7 DEF Next

\* What is open after a token more.
LEMMA CountedIs ==
  ASSUME depth \in [ListBrackets -> Nat], NEW token, ~ Unmatched(token)
  PROVE  /\ Counted(token) \in [ListBrackets -> Nat]
         /\ \A b \in ListBrackets :
              Counted(token)[b] = (depth[b] + (IF token = b THEN 1 ELSE 0)) - (IF token = ClosingSym(b) THEN 1 ELSE 0)
<1>1. DOMAIN depth = ListBrackets
  OBVIOUS
<1>2. ASSUME NEW b \in ListBrackets
      PROVE  /\ Counted(token)[b] \in Nat
             /\ Counted(token)[b] = (depth[b] + (IF token = b THEN 1 ELSE 0)) - (IF token = ClosingSym(b) THEN 1 ELSE 0)
  <2> DEFINE n == depth[b]
             c == Counted(token)[b]
  <2>1. n \in Nat
    OBVIOUS
  <2>2. c = IF token = b THEN n + 1 ELSE IF token = ClosingSym(b) THEN n - 1 ELSE n
    BY <1>1 DEF Counted
  <2>3. token = ClosingSym(b) => n # 0
    BY <1>1 DEF Unmatched
  <2>4. b # ClosingSym(b)
    BY DEF ClosingSym, ListBrackets
  <2> HIDE DEF n, c
  <2>5. CASE token = b
    <3>1. c = n + 1 /\ token # ClosingSym(b)
      BY <2>2, <2>4, <2>5
    <3>2. c \in Nat /\ c = (n + 1) - 0
      BY <2>1, <3>1
    <3>3. QED BY <2>5, <3>1, <3>2 DEF n, c
  <2>6. CASE token = ClosingSym(b)
    <3>1. c = n - 1 /\ token # b
      BY <2>2, <2>4, <2>6
    <3>2. c \in Nat /\ c = (n + 0) - 1
      BY <2>1, <2>3, <2>6, <3>1
    <3>3. QED BY <2>6, <3>1, <3>2 DEF n, c
  <2>7. CASE token # b /\ token # ClosingSym(b)
    <3>1. c = n
      BY <2>2, <2>7
    <3>2. c \in Nat /\ c = (n + 0) - 0
      BY <2>1, <3>1
    <3>3. QED BY <2>7, <3>2 DEF n, c
  <2>8. QED BY <2>5, <2>6, <2>7
<1>3. Counted(token) = [b \in ListBrackets |-> Counted(token)[b]]
  BY <1>1 DEF Counted
<1>4. QED BY <1>2, <1>3

\* The brackets of the tokens with one more.
LEMMA CountsOfAll ==
  ASSUME TokensKept, NEW token \in Tokens, ~ Unmatched(token), NEW b \in ListBrackets,
         depth[b] = Count(b, tokens) - Count(ClosingSym(b), tokens)
  PROVE  Counted(token)[b] = Count(b, Append(tokens, token)) - Count(ClosingSym(b), Append(tokens, token))
<1> DEFINE o == Count(b, tokens)
           c == Count(ClosingSym(b), tokens)
           i == IF token = b THEN 1 ELSE 0
           j == IF token = ClosingSym(b) THEN 1 ELSE 0
           oo == Count(b, Append(tokens, token))
           cc == Count(ClosingSym(b), Append(tokens, token))
<1>1. tokens \in Seq(Tokens)
  BY DEF TokensKept
<1>2. o \in Nat /\ c \in Nat
  BY <1>1, CountNat
<1>3. oo = o + i
  BY <1>1, CountAppend
<1>4. cc = c + j
  BY <1>1, CountAppend
<1>5. depth \in [ListBrackets -> Nat]
  BY DEF TokensKept
<1>6. Counted(token)[b] = (depth[b] + i) - j
  BY <1>5, CountedIs
<1>7. i \in Nat /\ j \in Nat /\ depth[b] = o - c
  OBVIOUS
<1> HIDE DEF o, c, i, j, oo, cc
<1>8. Counted(token)[b] = oo - cc
  BY <1>2, <1>3, <1>4, <1>6, <1>7
<1>9. QED BY <1>8 DEF oo, cc

LEMMA TokensStay ==
  ASSUME IntakeAssumption, Typed, TokensKept, Next PROVE TokensKept'
<1>1. CASE LexToken
  <2> DEFINE token == rest[1]
             all == Append(tokens, token)
             r == Parse(all)
  <2>1. token \in Tokens /\ ~ Unmatched(token) /\ ProcessToken(token, Counted(token))
    BY <1>1 DEF LexToken
  <2> HIDE DEF token
  <2>2. tokens \in Seq(Tokens) /\ instructions \in Seq(Cells) /\ depth \in [ListBrackets -> Nat]
    BY DEF TokensKept
  <2>3. /\ all \in Seq(Tokens) /\ r \in Results
    <3>1. all \in Seq(Tokens)
      BY <2>1, <2>2, AppendProperties
    <3> HIDE DEF all
    <3>2. QED BY <3>1, ParseReads
  <2> HIDE DEF r
  <2>4. depth' = Counted(token) /\ depth' \in [ListBrackets -> Nat]
    BY <2>1, <2>2, CountedIs DEF ProcessToken
  <2>5. depth'["("] = Count("(", all) - Count(")", all)
    BY <2>1, <2>4, ParenthesesCounted, CountsOfAll DEF TokensKept
  <2>6. instructions' \in Seq(Cells)
    <3>1. r.cell \in Cells
      BY <2>3 DEF Results
    <3>2. Append(instructions, r.cell) \in Seq(Cells)
      BY <2>2, <3>1, AppendProperties
    <3>3. instructions' \in {instructions, Append(instructions, r.cell)}
      BY <2>1 DEF ProcessToken, r
    <3>4. QED BY <2>2, <3>2, <3>3
  <2>7. CASE Counted(token)["("] # 0
    <3>1. tokens' = all
      BY <2>1, <2>7 DEF ProcessToken
    <3>2. Count("(", all) > Count(")", all)
      <4> DEFINE o == Count("(", all)
                 c == Count(")", all)
                 d == depth'["("]
      <4>1. o \in Nat /\ c \in Nat /\ d \in Nat /\ d # 0 /\ d = o - c
        BY <2>3, <2>4, <2>5, <2>7, ParenthesesCounted, CountNat
      <4> HIDE DEF o, c, d
      <4>2. o > c
        BY <4>1
      <4>3. QED BY <4>2 DEF o, c
    <3>3. AlwaysOpen(all)
      BY <2>1, <2>2, <3>2, AlwaysOpenAppend DEF TokensKept
    <3> HIDE DEF all
    <3>4. QED BY <2>3, <2>4, <2>5, <2>6, <3>1, <3>3 DEF TokensKept
  <2>8. CASE Counted(token)["("] = 0
    <3>1. tokens' = << >>
      BY <2>1, <2>8 DEF ProcessToken
    <3>2. Count("(", << >>) = 0 /\ Count(")", << >>) = 0 /\ depth'["("] = 0
      BY <2>4, <2>8, CountEmpty
    <3>3. depth'["("] = Count("(", tokens') - Count(")", tokens')
      <4>1. 0 - 0 = 0
        OBVIOUS
      <4>2. QED BY <3>1, <3>2, <4>1
    <3>4. tokens' \in Seq(Tokens) /\ AlwaysOpen(tokens')
      <4>1. << >> \in Seq(Tokens) /\ Len(<< >>) = 0
        BY EmptySeq
      <4>2. AlwaysOpen(<< >>)
        BY DEF AlwaysOpen
      <4>3. QED BY <3>1, <4>1, <4>2
    <3>5. QED BY <2>4, <2>6, <3>3, <3>4 DEF TokensKept
  <2>9. QED BY <2>7, <2>8
<1>2. CASE UNCHANGED intake
  BY <1>2 DEF intake, TokensKept
<1>3. QED BY <1>1, <1>2 DEF Next, Type, NextLine, Submit, Lex, LexComment, LexError, LineDone, EndOfText, Ended, vars, intake

\* The tokens wait as they should from the start.
LEMMA InitKept == ASSUME Init, IntakeAssumption PROVE Typed /\ TokensKept
<1>1. << >> \in Texts
  BY TextsAre
<1>2. Typed
  <2>1. line = << >> /\ rest = << >> /\ given = << >> /\ buffer = << >>
    BY DEF Init
  <2>2. line \in Texts /\ rest \in Texts /\ given \in Texts /\ buffer \in Texts
    <3> DEFINE empty == << >>
    <3>1. empty \in Texts /\ line = empty /\ rest = empty /\ given = empty /\ buffer = empty
      BY <1>1, <2>1
    <3> HIDE DEF empty
    <3>2. QED BY <3>1
  <2>3. mode \in Modes /\ status \in {"run", "done", "exit"} /\ tracker \in Int
    <3>1. mode \in Modes /\ status = "run" /\ tracker = 0
      BY Zenon DEF Init
    <3>2. QED BY <3>1
  <2>4. lexing \in BOOLEAN /\ drawn \in BOOLEAN
    BY Zenon DEF Init
  <2>5. QED BY <2>2, <2>3, <2>4 DEF Typed
<1>3. depth \in [ListBrackets -> Nat] /\ depth["("] = 0 /\ tokens = << >> /\ instructions = << >>
  BY DEF Init, ListBrackets
<1>4. AlwaysOpen(<< >>) /\ Count("(", << >>) = 0 /\ Count(")", << >>) = 0 /\ 0 - 0 = 0
  BY CountEmpty DEF AlwaysOpen
<1>5. tokens \in Seq(Tokens)
  BY <1>3, EmptySeq
<1>6. instructions \in Seq(Cells)
  BY <1>3, EmptySeq
<1>7. TokensKept
  BY <1>3, <1>4, <1>5, <1>6 DEF TokensKept
<1>8. QED BY <1>2, <1>7

LEMMA StepKept == ASSUME IntakeAssumption, Typed, TokensKept, [Next]_vars PROVE Typed' /\ TokensKept'
<1>1. CASE Next
  BY <1>1, TypedKept, TokensStay
<1>2. CASE UNCHANGED vars
  BY <1>2 DEF vars, repl, intake, Typed, TokensKept
<1>3. QED BY <1>1, <1>2

LEMMA TypesImply == ASSUME Typed, TokensKept PROVE TypeOK
<1>1. ASSUME NEW text \in {line, rest, given, buffer} PROVE \A i \in DOMAIN text : text[i] \in Tokens \union Items
  <2>1. text \in Texts
    BY DEF Typed
  <2>2. DOMAIN text = 1 .. Len(text)
    BY <2>1, LenProperties DEF Texts
  <2>3. QED BY <2>1, <2>2, ElementOfSeq DEF Texts, Written
<1>2. \A i \in DOMAIN tokens : tokens[i] \in Tokens
  <2>1. tokens \in Seq(Tokens)
    BY DEF TokensKept
  <2>2. DOMAIN tokens = 1 .. Len(tokens)
    BY <2>1, LenProperties
  <2>3. QED BY <2>1, <2>2, ElementOfSeq
<1>3. depth["["] \in Nat /\ depth["{"] \in Nat
  BY DEF TokensKept, ListBrackets
<1>4. QED BY <1>1, <1>2, <1>3 DEF TypeOK, Typed, TokensKept

\* Every variable has its type, and the sizes of the tracker's stacks in
\* intake.cpp are those of the brackets of the tokens that wait.
THEOREM IntakeTyped == Spec => []TypeOK
<1>1. Init => Typed /\ TokensKept
  BY IntakeAssumption, InitKept
<1>2. Typed /\ TokensKept /\ [Next]_vars => (Typed /\ TokensKept)'
  BY IntakeAssumption, StepKept
<1>3. Typed /\ TokensKept => TypeOK
  BY TypesImply
<1>4. QED BY <1>1, <1>2, <1>3, PTL DEF Spec

(***************************************************************************)
(* What becomes of a text.                                                 *)
(***************************************************************************)
Executed == SX!FlattenSeq(instructions)

\* How text passes from the input buffer through a line to the tokens.
Flow ==
  /\ ~ lexing => rest = << >>
  /\ mode = "file" => buffer = << >>
  /\ mode = "repl" /\ lexing => buffer = << >> /\ tracker = 0
  /\ NoMark(buffer)
  /\ mode = "repl" => tracker = Count("(", given) - Count(")", given)
  /\ mode = "file" /\ drawn => status = "exit"

\* Until an error is reported nothing is lost, what is executed is a program,
\* and the stacks have the brackets of the tokens that wait and no others.
Kept ==
  /\ Executed \o tokens \o WithoutComment(rest) \o buffer = given
  /\ EachOne(instructions)
  /\ Executed \in Seq(Tokens) /\ Program(Executed)
  /\ \A b \in ListBrackets : depth[b] = Count(b, tokens) - Count(ClosingSym(b), tokens)

Inv == Typed /\ TokensKept /\ Flow /\ (~ drawn => Kept) /\ ErrorsDeserved

\* What was given, in parts.
LEMMA GivenIs ==
  ASSUME Inv, ~ drawn
  PROVE  /\ Kept /\ Executed \in Seq(Tokens) /\ tokens \in Seq(Tokens)
         /\ Executed \o tokens \in Texts /\ Executed \in Texts /\ tokens \in Texts
         /\ WithoutComment(rest) \in Texts /\ buffer \in Texts
         /\ rest = << >> => given = (Executed \o tokens) \o buffer
         /\ buffer = << >> => given = (Executed \o tokens) \o WithoutComment(rest)
         /\ Nesting(Executed \o tokens) = Nesting(tokens)
<1>1. Kept
  BY DEF Inv
<1>2. Executed \in Seq(Tokens) /\ tokens \in Seq(Tokens) /\ Nesting(Executed) = << >>
  BY <1>1 DEF Kept, Program, Inv, TokensKept
<1>3. Executed \in Texts /\ tokens \in Texts
  BY <1>2, SeqMonotonic DEF Texts, Written
<1>4. Executed \o tokens \in Texts /\ WithoutComment(rest) \in Texts /\ buffer \in Texts
  BY <1>3, TextsAre DEF Inv, Typed
<1>5. given = ((Executed \o tokens) \o WithoutComment(rest)) \o buffer
  BY <1>1 DEF Kept
<1>6. rest = << >> => given = (Executed \o tokens) \o buffer
  <2>1. WithoutComment(<< >>) = << >>
    <3>1. << >> \in Texts
      BY TextsAre
    <3>2. QED BY <3>1, NoMarkToken, WithoutCommentIs DEF Texts
  <2>2. (Executed \o tokens) \o << >> = Executed \o tokens
    BY <1>4, ConcatEmptySeq DEF Texts
  <2>3. QED BY <1>5, <2>1, <2>2
<1>7. buffer = << >> => given = (Executed \o tokens) \o WithoutComment(rest)
  <2>1. (Executed \o tokens) \o WithoutComment(rest) \in Texts
    BY <1>4, TextsAre
  <2>2. ((Executed \o tokens) \o WithoutComment(rest)) \o << >> = (Executed \o tokens) \o WithoutComment(rest)
    BY <2>1, ConcatEmptySeq DEF Texts
  <2>3. QED BY <1>5, <2>2
<1>8. Nesting(Executed \o tokens) = Nesting(tokens)
  BY <1>2, NestingConcat
<1>9. QED BY <1>1, <1>2, <1>3, <1>4, <1>6, <1>7, <1>8

\* What no program begins with stays so, whatever is given after it.
LEMMA NotViable ==
  ASSUME NEW a \in Texts, NEW b \in Texts, ~ Viable(a) PROVE ~ Viable(a \o b)
BY NestingConcat DEF Viable, Texts

\* Nothing that the properties are about changes.
LEMMA NothingElse ==
  ASSUME Inv, UNCHANGED <<mode, rest, lexing, buffer, tracker, tokens, depth, instructions, given, drawn>>,
         status' = status \/ ~ drawn \/ mode = "repl"
  PROVE  Flow' /\ (~ drawn => Kept)' /\ ErrorsDeserved'
<1>1. (~ drawn => Kept)'
  BY DEF Inv, Kept, EachOne, Executed
<1>2. Flow' /\ ErrorsDeserved'
  BY DEF Inv, Flow, ErrorsDeserved
<1>3. QED BY <1>1, <1>2

\* The tokens that wait have an open parenthesis.
LEMMA Waiting ==
  ASSUME TokensKept, tokens # << >>
  PROVE  Count("(", tokens) > Count(")", tokens) /\ depth["("] # 0 /\ ~ Program(tokens)
<1>1. tokens \in Seq(Tokens) /\ Len(tokens) \in Nat /\ Len(tokens) # 0 /\ SubSeq(tokens, 1, Len(tokens)) = tokens
  <2>1. tokens \in Seq(Tokens)
    BY DEF TokensKept
  <2>2. QED BY <2>1, EmptySeq, LenProperties, SubSeqFull
<1>2. Len(tokens) \in 1 .. Len(tokens)
  BY <1>1
<1> DEFINE o == Count("(", tokens)
           c == Count(")", tokens)
<1>3. o > c
  BY <1>1, <1>2 DEF TokensKept, AlwaysOpen
<1>4. o \in Nat /\ c \in Nat /\ depth["("] = o - c
  BY <1>1, CountNat DEF TokensKept
<1>5. ~ Program(tokens)
  BY <1>1, <1>3, UnclosedIsNoProgram
<1> HIDE DEF o, c
<1>6. o > c /\ depth["("] # 0
  BY <1>3, <1>4
<1>7. QED BY <1>5, <1>6 DEF o, c

\* While a line is not done the input buffer is empty, and a program that has
\* reported an error does nothing more.
LEMMA Running ==
  ASSUME IntakeAssumption, Inv, status = "run"
  PROVE  /\ mode \in {"file", "repl"} /\ (mode = "file" => ~ drawn /\ buffer = << >>)
         /\ lexing => buffer = << >>
         /\ ~ lexing => rest = << >>
         /\ drawn => mode = "repl" /\ ~ Viable(given)
<1>1. mode \in {"file", "repl"}
  BY DEF Inv, Typed, IntakeAssumption
<1>2. mode = "file" => ~ drawn /\ buffer = << >>
  BY DEF Inv, Flow
<1>3. QED BY <1>1, <1>2 DEF Inv, Flow, ErrorsDeserved

Goes == Flow' /\ (~ drawn => Kept)' /\ ErrorsDeserved'

LEMMA AfterEnd == ASSUME IntakeAssumption, Inv, EndOfText PROVE Goes
<1>1. status = "run" /\ rest = << >>
  BY Running DEF EndOfText, Typing
<1>2. CASE mode = "file" /\ tokens # << >>
  <2>1. ~ drawn /\ buffer = << >> /\ ~ Program(tokens)
    BY <1>1, <1>2, Running, Waiting DEF Inv
  <2>2. WithoutComment(<< >>) = << >> /\ Executed \o tokens \in Texts
    BY <2>1, GivenIs, NoMarkToken, TextsAre, WithoutCommentIs DEF Texts
  <2>3. given = Executed \o tokens
    BY <1>1, <2>1, <2>2, GivenIs, ConcatEmptySeq DEF Texts
  <2>4. ~ Program(given)
    BY <2>1, <2>3, GivenIs DEF Program
  <2>5. drawn' /\ status' = "exit" /\ UNCHANGED <<mode, rest, lexing, buffer, tracker, given>>
    BY <1>2 DEF EndOfText, Report, repl
  <2>6. Flow'
    BY <2>5 DEF Flow, Inv
  <2>7. ErrorsDeserved'
    BY <1>2, <2>4, <2>5 DEF ErrorsDeserved
  <2>8. QED BY <2>5, <2>6, <2>7 DEF Goes
<1>3. CASE ~ (mode = "file" /\ tokens # << >>)
  <2>1. UNCHANGED <<mode, rest, lexing, buffer, tracker, tokens, depth, instructions, given, drawn>>
    BY <1>3 DEF EndOfText, repl, intake
  <2>2. ~ drawn \/ mode = "repl"
    BY <1>1, Running
  <2>3. QED BY <2>1, <2>2, NothingElse DEF Goes
<1>4. QED BY <1>2, <1>3

LEMMA AfterLine == ASSUME IntakeAssumption, Inv, LineDone PROVE Goes
<1>1. /\ status = "run" /\ rest = << >> /\ lexing /\ buffer = << >> /\ lexing' = FALSE
      /\ UNCHANGED <<mode, status, rest, buffer, tracker, tokens, depth, instructions, given>>
      /\ drawn' = (drawn \/ (mode = "repl" /\ tokens # << >>))
  BY Running DEF LineDone, repl, intake
<1>2. ASSUME ~ drawn, mode = "repl", tokens # << >> PROVE FALSE
  <2>1. Count("(", tokens) > Count(")", tokens)
    BY <1>2, Waiting DEF Inv
  <2>2. WithoutComment(<< >>) = << >>
    BY NoMarkToken, TextsAre, WithoutCommentIs DEF Texts
  <2>3. given = Executed \o tokens
    BY <1>1, <1>2, <2>2, GivenIs, ConcatEmptySeq DEF Texts
  <2>4. tracker = 0 /\ tracker = Count("(", given) - Count(")", given)
    BY <1>1, <1>2 DEF Inv, Flow
  <2>5. Executed \in Seq(Tokens) /\ tokens \in Seq(Tokens) /\ Program(Executed)
    BY <1>2, GivenIs DEF Kept
  <2> DEFINE eo == Count("(", Executed)
             ec == Count(")", Executed)
             to == Count("(", tokens)
             tc == Count(")", tokens)
  <2>6. eo - ec = 0
    BY <2>5, ProgramCounts, ParenthesesCounted
  <2>7. (eo + to) - (ec + tc) = 0
    BY <2>3, <2>4, <2>5, CountConcat
  <2>8. eo \in Nat /\ ec \in Nat /\ to \in Nat /\ tc \in Nat /\ to > tc
    BY <2>1, <2>5, CountNat
  <2> HIDE DEF eo, ec, to, tc
  <2>9. QED BY <2>6, <2>7, <2>8
<1>3. drawn' = drawn
  BY <1>1, <1>2 DEF Inv, Typed
<1>4. Flow' /\ ErrorsDeserved'
  BY <1>1, <1>3 DEF Flow, ErrorsDeserved, Inv
<1>5. (~ drawn => Kept)'
  BY <1>1, <1>3 DEF Inv, Kept, EachOne, Executed
<1>6. QED BY <1>4, <1>5 DEF Goes

LEMMA AfterNextLine == ASSUME IntakeAssumption, Inv, NextLine PROVE Goes
<1> DEFINE l == WithoutComment(line)
<1>1. /\ status = "run" /\ rest = << >> /\ mode = "file" /\ ~ drawn /\ buffer = << >>
      /\ rest' = line /\ lexing' = TRUE /\ given' = given \o l
      /\ UNCHANGED <<mode, status, buffer, tracker, tokens, depth, instructions, drawn>>
  BY Running DEF NextLine, Typing, repl, intake
<1>2. l \in Texts
  BY TextsAre DEF Inv, Typed
<1>3. given = Executed \o tokens /\ Executed \o tokens \in Texts
  <2>1. WithoutComment(<< >>) = << >>
    BY NoMarkToken, TextsAre, WithoutCommentIs DEF Texts
  <2>2. QED BY <1>1, <2>1, GivenIs, ConcatEmptySeq DEF Texts
<1>4. Executed \o tokens \o l \o << >> = given \o l
  BY <1>2, <1>3, TextsAre, ConcatEmptySeq DEF Texts
<1>5. Flow' /\ ErrorsDeserved'
  BY <1>1 DEF Flow, Inv, ErrorsDeserved
<1>6. Kept'
  <2>1. Kept
    BY <1>1 DEF Inv
  <2>2. (Executed \o tokens \o WithoutComment(rest) \o buffer = given)'
    BY <1>1, <1>4 DEF Executed
  <2>3. QED BY <1>1, <2>1, <2>2 DEF Kept, EachOne, Executed
<1>7. QED BY <1>5, <1>6 DEF Goes

LEMMA AfterSubmit == ASSUME IntakeAssumption, Spaced, Inv, Submit PROVE Goes
<1>1. PICK l : /\ l = WithoutComment(line) /\ line' = << >>
               /\ l = << >> => UNCHANGED <<rest, lexing, given, buffer, tracker>>
               /\ l # << >> =>
                    /\ tracker' = tracker + Count("(", Whole(l)) - Count(")", Whole(l))
                    /\ given' = given \o Whole(l)
                    /\ \/ tracker' = 0 /\ buffer' = << >> /\ rest' = Join(buffer, Whole(l)) /\ lexing' = TRUE
                       \/ buffer' = Join(buffer, Whole(l)) /\ UNCHANGED <<rest, lexing>>
  BY SubmitIs
<1>2. /\ mode = "repl" /\ ~ lexing /\ status = "run" /\ rest = << >>
      /\ UNCHANGED <<mode, status, tokens, depth, instructions, drawn>>
  BY Running DEF Submit, Typing, intake
<1>3. CASE l = << >>
  BY <1>1, <1>2, <1>3, NothingElse DEF Goes
<1>4. CASE l # << >>
  <2> DEFINE w == Whole(l)
             text == buffer \o w
  <2>1. w \in Texts /\ NoMark(w)
    <3>1. line \in Texts
      BY DEF Inv, Typed
    <3>2. l \in Texts /\ NoMark(l)
      BY <1>1, <3>1, TextsAre, WithoutCommentIs DEF Texts
    <3>3. QED BY <3>2, WholeIs
  <2>2. buffer \in Texts /\ NoMark(buffer) /\ given \in Texts
    BY DEF Inv, Typed, Flow
  <2>3. text \in Texts /\ NoMark(text) /\ Join(buffer, w) = text
    BY <2>1, <2>2, TextsAre, NoMarkConcat, JoinIs DEF Texts
  <2>4. given' = given \o w /\ tracker' = tracker + Count("(", w) - Count(")", w)
    BY <1>1, <1>4
  <2> HIDE DEF w
  <2>5. tracker' = Count("(", given') - Count(")", given')
    <3> DEFINE eo == Count("(", given)
               ec == Count(")", given)
               to == Count("(", w)
               tc == Count(")", w)
    <3>1. tracker = eo - ec
      BY <1>2 DEF Inv, Flow
    <3>2. Count("(", given \o w) = eo + to /\ Count(")", given \o w) = ec + tc
      BY <2>1, <2>2, CountConcat DEF Texts
    <3>3. eo \in Nat /\ ec \in Nat /\ to \in Nat /\ tc \in Nat
      BY <2>1, <2>2, CountNat DEF Texts
    <3> HIDE DEF eo, ec, to, tc
    <3>4. (eo - ec) + to - tc = (eo + to) - (ec + tc)
      BY <3>3
    <3>5. QED BY <2>4, <3>1, <3>2, <3>4 DEF to, tc
  <2>6. ErrorsDeserved'
    <3>1. drawn => ~ Viable(given')
      <4>1. drawn => ~ Viable(given)
        BY <1>2, Running
      <4>2. QED BY <2>1, <2>2, <2>4, <4>1, NotViable
    <3>2. drawn' => ~ Viable(given')
      BY <1>2, <3>1
    <3>3. QED BY <3>2 DEF ErrorsDeserved
  <2>7. /\ \/ tracker' = 0 /\ buffer' = << >> /\ rest' = text /\ lexing' = TRUE
           \/ buffer' = text /\ UNCHANGED <<rest, lexing>>
    BY <1>1, <1>4, <2>3 DEF w
  <2> HIDE DEF text
  <2>8. NoMark(<< >>)
    BY NoMarkToken
  <2>9. Flow'
    BY <1>2, <2>3, <2>5, <2>7, <2>8 DEF Flow
  <2>10. ASSUME ~ drawn PROVE Kept'
    <3>1. /\ Kept /\ Executed \o tokens \in Texts /\ given = (Executed \o tokens) \o buffer
      BY <1>2, <2>10, GivenIs
    <3> DEFINE et == Executed \o tokens
    <3>2. given' = et \o text
      <4> HIDE DEF et
      <4>1. et \in Texts /\ given = et \o buffer
        BY <3>1 DEF et
      <4>2. (et \o buffer) \o w = et \o (buffer \o w)
        BY <2>1, <2>2, <4>1, ConcatAssociative DEF Texts
      <4>3. QED BY <2>4, <4>1, <4>2 DEF text
    <3>3. et \o text \in Texts /\ et \o << >> = et /\ (et \o text) \o << >> = et \o text
      <4> HIDE DEF et
      <4>1. et \in Texts
        BY <3>1 DEF et
      <4>2. et \o text \in Texts
        BY <2>3, <4>1, TextsAre
      <4>3. QED BY <4>1, <4>2, ConcatEmptySeq DEF Texts
    <3>4. WithoutComment(text) = text /\ WithoutComment(<< >>) = << >>
      BY <2>3, NoMarkToken, TextsAre, WithoutCommentIs DEF Texts
    <3>5. et \o WithoutComment(rest') \o buffer' = given'
      <4> HIDE DEF et
      <4>1. CASE rest' = text /\ buffer' = << >>
        BY <3>2, <3>3, <3>4, <4>1
      <4>2. CASE rest' = rest /\ buffer' = text
        BY <1>2, <3>2, <3>3, <3>4, <4>2
      <4>3. QED BY <2>7, <4>1, <4>2
    <3>6. (Executed \o tokens \o WithoutComment(rest) \o buffer = given)'
      BY <1>2, <3>5 DEF Executed
    <3>7. QED BY <1>2, <3>1, <3>6 DEF Kept, EachOne, Executed
  <2>11. (~ drawn => Kept)'
    BY <1>2, <2>10
  <2>12. QED BY <2>6, <2>9, <2>11 DEF Goes
<1>5. QED BY <1>3, <1>4

\* What a line has still to be looked at, if no error was reported.
LEMMA Lexing ==
  ASSUME IntakeAssumption, Inv, Lex
  PROVE  /\ status = "run" /\ lexing /\ rest # << >> /\ rest \in Texts /\ rest[1] \in Written
         /\ buffer = << >> /\ Tail(rest) \in Texts /\ WithoutComment(Tail(rest)) \in Texts
         /\ UNCHANGED <<mode, lexing, given, buffer, tracker>>
         /\ ~ drawn => given = (Executed \o tokens) \o WithoutComment(rest)
         /\ ~ drawn /\ rest[1] # "#" =>
              given = ((Executed \o tokens) \o <<rest[1]>>) \o WithoutComment(Tail(rest))
<1>1. /\ status = "run" /\ lexing /\ rest # << >> /\ rest \in Texts /\ buffer = << >>
      /\ UNCHANGED <<mode, lexing, given, buffer, tracker>>
  BY Running DEF Lex, Inv, Typed, repl
<1>2. Tail(rest) \in Texts /\ WithoutComment(Tail(rest)) \in Texts /\ rest[1] \in Written
  <2>1. Tail(rest) \in Texts /\ WithoutComment(Tail(rest)) \in Texts
    BY <1>1, TextsAre
  <2>2. Len(rest) \in Nat /\ Len(rest) # 0
    BY <1>1, EmptySeq, LenProperties DEF Texts
  <2>3. 1 \in 1 .. Len(rest)
    BY <2>2
  <2>4. rest[1] \in Written
    BY <1>1, <2>3, ElementOfSeq DEF Texts
  <2>5. QED BY <2>1, <2>4
<1>3. ASSUME ~ drawn PROVE given = (Executed \o tokens) \o WithoutComment(rest)
  BY <1>1, <1>3, GivenIs
<1>4. ASSUME ~ drawn, rest[1] # "#"
      PROVE given = ((Executed \o tokens) \o <<rest[1]>>) \o WithoutComment(Tail(rest))
  <2> DEFINE et == Executed \o tokens
             u == WithoutComment(Tail(rest))
             x == rest[1]
  <2>1. et \in Texts
    BY <1>4, GivenIs
  <2>2. <<x>> \in Texts
    BY <1>2 DEF Texts
  <2>3. given = et \o (<<x>> \o u)
    BY <1>1, <1>3, <1>4, WithoutCommentIs DEF Texts
  <2> HIDE DEF et, u, x
  <2>4. et \o (<<x>> \o u) = (et \o <<x>>) \o u
    <3>1. u \in Texts
      BY <1>2 DEF u
    <3>2. QED BY <2>1, <2>2, <3>1, ConcatAssociative DEF Texts
  <2>5. QED BY <2>3, <2>4 DEF et, u, x
<1>5. QED BY <1>1, <1>2, <1>3, <1>4

\* In what follows the line changes, and what waits in the input buffer does not.
LEMMA FlowOfLine == ASSUME IntakeAssumption, Inv, Lex, drawn' /\ mode = "file" => status' = "exit" PROVE Flow'
<1>1. lexing /\ UNCHANGED <<mode, lexing, given, buffer, tracker>>
  BY Lexing
<1>2. QED BY <1>1 DEF Flow, Inv

LEMMA AfterComment == ASSUME IntakeAssumption, Inv, Lex, LexComment PROVE Goes
<1>1. /\ rest # << >> /\ rest \in Texts /\ rest[1] = "#" /\ rest' = << >>
      /\ UNCHANGED <<mode, status, lexing, given, drawn, buffer, tracker, tokens, depth, instructions>>
  BY Lexing DEF LexComment, intake
<1>2. WithoutComment(rest) = << >> /\ WithoutComment(<< >>) = << >>
  BY <1>1, NoMarkToken, TextsAre, WithoutCommentIs DEF Texts
<1>3. Flow'
  BY <1>1, FlowOfLine DEF Inv, Flow
<1>4. ErrorsDeserved'
  BY <1>1 DEF Inv, ErrorsDeserved
<1>5. ASSUME ~ drawn PROVE Kept'
  <2>1. WithoutComment(rest') = WithoutComment(rest)
    BY <1>1, <1>2
  <2>2. Kept
    BY <1>5 DEF Inv
  <2>3. QED BY <1>1, <2>1, <2>2 DEF Kept, EachOne, Executed
<1>6. QED BY <1>1, <1>3, <1>4, <1>5 DEF Goes

\* No program begins with what was given if its tokens cannot be followed.
LEMMA Hopeless ==
  ASSUME IntakeAssumption, Inv, Lex, ~ drawn, rest[1] # "#", Opened(Nesting(tokens), rest[1]) = Wrong
  PROVE  ~ Viable(given)
<1> DEFINE et == Executed \o tokens
           u == WithoutComment(Tail(rest))
           x == rest[1]
<1>1. given = (et \o <<x>>) \o u /\ u \in Texts /\ x \in Written
  BY Lexing
<1>2. et \in Texts /\ Nesting(et) = Nesting(tokens)
  BY GivenIs
<1> HIDE DEF et, u
<1>3. Nesting(Append(et, x)) = Wrong
  <2>1. Nesting(Append(et, x)) = Opened(Nesting(et), x)
    BY <1>1, <1>2, NestingAppend DEF Texts
  <2>2. QED BY <1>2, <2>1
<1>4. et \o <<x>> = Append(et, x) /\ et \o <<x>> \in Texts
  <2>1. <<x>> \in Texts
    BY <1>1 DEF Texts
  <2>2. QED BY <1>1, <1>2, <2>1, AppendIsConcat, TextsAre DEF Texts
<1>5. ~ Viable(et \o <<x>>)
  BY <1>3, <1>4 DEF Viable
<1>6. QED BY <1>1, <1>4, <1>5, NotViable

LEMMA AfterError == ASSUME IntakeAssumption, Inv, Lex, LexError PROVE Goes
<1> DEFINE x == rest[1]
<1>1. /\ status = "run" /\ drawn' /\ (mode = "file" => status' = "exit")
      /\ UNCHANGED <<mode, given>> /\ (x = "~" \/ Unmatched(x))
  BY Lexing DEF LexError, Report
<1>2. Flow'
  BY <1>1, FlowOfLine
<1>3. ASSUME ~ drawn PROVE ~ Viable(given)
  <2>1. x # "#"
    <3>1. \A b \in ListBrackets : ClosingSym(b) # "#"
      BY DEF ListBrackets, ClosingSym
    <3>2. Unmatched(x) => \E b \in ListBrackets : x = ClosingSym(b)
      BY DEF Unmatched, Inv, TokensKept
    <3>3. QED BY <1>1, <3>1, <3>2
  <2>2. Nesting(tokens) \in Stacks /\ tokens \in Seq(Tokens)
    BY NestingIs DEF Inv, TokensKept
  <2>3. CASE x = "~"
    <3>1. Opened(Nesting(tokens), "~") = Wrong
      BY DEF Opened
    <3>2. QED BY <1>3, <2>1, <2>3, <3>1, Hopeless
  <2>4. CASE Unmatched(x)
    <3>1. PICK b \in ListBrackets : x = ClosingSym(b) /\ depth[b] = 0
      BY <2>4 DEF Unmatched, Inv, TokensKept
    <3>2. depth[b] = Count(b, tokens) - Count(ClosingSym(b), tokens)
      BY <1>3 DEF Inv, Kept
    <3>3. Nesting(tokens) = Wrong \/ InOpen(b, Nesting(tokens)) = 0
      BY <2>2, <3>1, <3>2, NestingCounts
    <3>4. Opened(Nesting(tokens), x) = Wrong
      BY <2>2, <3>1, <3>3, ClosesNothing
    <3>5. QED BY <1>3, <2>1, <3>4, Hopeless
  <2>5. QED BY <1>1, <2>3, <2>4
<1>4. drawn => ~ Viable(given)
  BY <1>1, Running
<1>5. ErrorsDeserved'
  BY <1>1, <1>3, <1>4 DEF ErrorsDeserved
<1>6. QED BY <1>1, <1>2, <1>5 DEF Goes

\* A token of a text in which an error was reported.
LEMMA AfterTokenDrawn == ASSUME IntakeAssumption, Inv, Lex, LexToken, drawn PROVE Goes
<1>1. drawn' /\ mode = "repl" /\ ~ Viable(given) /\ UNCHANGED <<mode, given>>
  BY Running, Lexing DEF LexToken, ProcessToken, Report
<1>2. Flow'
  BY <1>1, FlowOfLine
<1>3. QED BY <1>1, <1>2 DEF Goes, ErrorsDeserved

\* What is given, when a token joins those that wait.
LEMMA Joined ==
  ASSUME IntakeAssumption, Inv, Lex, LexToken, ~ drawn, NEW all, all = Append(tokens, rest[1])
  PROVE  /\ all \in Seq(Tokens) /\ Executed \o all \in Seq(Tokens) /\ Nesting(Executed \o all) = Nesting(all)
         /\ given = (Executed \o all) \o WithoutComment(Tail(rest))
         /\ rest' = Tail(rest) /\ buffer' = << >> /\ given' = given
<1> DEFINE x == rest[1]
           e == Executed
           u == WithoutComment(Tail(rest))
<1>1. x \in Tokens /\ rest' = Tail(rest) /\ UNCHANGED <<buffer, given>> /\ buffer = << >>
  BY Lexing DEF LexToken
<1>2. x # "#"
  BY <1>1 DEF Tokens
<1>3. given = ((e \o tokens) \o <<x>>) \o u
  BY <1>2, Lexing
<1>4. e \in Seq(Tokens) /\ tokens \in Seq(Tokens) /\ Nesting(e) = << >>
  BY GivenIs DEF Kept, Program
<1> HIDE DEF e, u, x
<1>5. all \in Seq(Tokens) /\ all = tokens \o <<x>> /\ <<x>> \in Seq(Tokens)
  BY <1>1, <1>4, AppendProperties, AppendIsConcat DEF x
<1>6. e \o all \in Seq(Tokens) /\ e \o all = (e \o tokens) \o <<x>>
  BY <1>4, <1>5, ConcatProperties, ConcatAssociative
<1>7. Nesting(e \o all) = Nesting(all)
  BY <1>4, <1>5, NestingConcat
<1>8. given = (e \o all) \o u
  BY <1>3, <1>6
<1>9. QED BY <1>1, <1>5, <1>6, <1>7, <1>8 DEF e, u

\* A token that leaves a parenthesis open, or one that is reported.
LEMMA AfterTokenWaits ==
  ASSUME IntakeAssumption, Inv, Lex, LexToken, ~ drawn, Counted(rest[1])["("] # 0 PROVE Goes
<1> DEFINE all == Append(tokens, rest[1])
<1>1. /\ tokens' = all /\ depth' = Counted(rest[1]) /\ UNCHANGED <<instructions, status, drawn>>
      /\ rest[1] \in Tokens /\ ~ Unmatched(rest[1])
  BY DEF LexToken, ProcessToken
<1> HIDE DEF all
<1>2. /\ all \in Seq(Tokens) /\ given = (Executed \o all) \o WithoutComment(Tail(rest))
      /\ rest' = Tail(rest) /\ buffer' = << >> /\ given' = given /\ Executed \o all \in Seq(Tokens)
  BY Joined DEF all
<1>3. Flow' /\ ErrorsDeserved'
  BY <1>1, FlowOfLine DEF ErrorsDeserved
<1>4. Kept
  BY DEF Inv
<1>5. \A b \in ListBrackets : depth'[b] = Count(b, all) - Count(ClosingSym(b), all)
  BY <1>1, <1>4, CountsOfAll DEF Kept, Inv, all
<1>6. ((Executed \o all) \o WithoutComment(Tail(rest))) \o << >> = given
  <2> DEFINE u == WithoutComment(Tail(rest))
             e == Executed \o all
  <2>1. u \in Texts
    BY Lexing
  <2>2. e \in Texts
    BY <1>2, SeqMonotonic DEF Texts, Written
  <2> HIDE DEF u, e
  <2>3. e \o u \in Texts
    BY <2>1, <2>2, TextsAre
  <2>4. (e \o u) \o << >> = e \o u
    BY <2>3, ConcatEmptySeq DEF Texts
  <2>5. QED BY <1>2, <2>4 DEF u, e
<1>7. (Executed \o tokens \o WithoutComment(rest) \o buffer = given)'
  BY <1>1, <1>2, <1>6 DEF Executed
<1>8. Kept'
  BY <1>1, <1>4, <1>5, <1>7 DEF Kept, EachOne, Executed
<1>9. QED BY <1>3, <1>8 DEF Goes

\* The last parenthesis is closed: all the tokens are one instruction, or no
\* program begins with them.
LEMMA AfterTokenParsed ==
  ASSUME IntakeAssumption, Inv, Lex, LexToken, ~ drawn, Counted(rest[1])["("] = 0 PROVE Goes
<1> DEFINE all == Append(tokens, rest[1])
           r == Parse(all)
           u == WithoutComment(Tail(rest))
           e == Executed
<1>1. /\ tokens' = << >> /\ depth' = Counted(rest[1]) /\ rest[1] \in Tokens /\ ~ Unmatched(rest[1])
      /\ \/ r.bad /\ drawn' /\ status' = IF mode = "file" THEN "exit" ELSE status
         \/ ~ r.bad /\ drawn' = drawn
      /\ instructions' = IF r.cell = NoCell \/ (r.bad /\ mode = "file") THEN instructions
                         ELSE Append(instructions, r.cell)
  BY DEF LexToken, ProcessToken, Report
<1> HIDE DEF all
<1>2. /\ all \in Seq(Tokens) /\ given = (e \o all) \o u
      /\ rest' = Tail(rest) /\ buffer' = << >> /\ given' = given
      /\ e \o all \in Seq(Tokens) /\ Nesting(e \o all) = Nesting(all)
  BY Joined DEF all
<1> HIDE DEF r, u, e
<1>3. \A b \in ListBrackets : Counted(rest[1])[b] = Count(b, all) - Count(ClosingSym(b), all)
  BY <1>1, CountsOfAll DEF Kept, Inv, all
<1>4. Count("(", all) - Count(")", all) = 0
  BY <1>3, ParenthesesCounted
<1>5. /\ ~ r.bad => /\ r.cell = all /\ Program(all) /\ all # NoCell
                    /\ \A n \in 1 .. Len(all) - 1 : ~ Program(SubSeq(all, 1, n))
      /\ r.bad => Nesting(all) = Wrong
  <2>1. tokens \in Seq(Tokens) /\ AlwaysOpen(tokens)
    BY DEF Inv, TokensKept
  <2>2. QED BY <1>1, <1>4, <2>1, ReadWhole DEF r, all
<1>6. u \in Texts /\ e \o all \in Texts
  <2>1. u \in Texts
    BY Lexing DEF u
  <2>2. QED BY <1>2, <2>1, SeqMonotonic DEF Texts, Written
<1>7. CASE r.bad
  <2>1. ~ Viable(given)
    <3>1. ~ Viable(e \o all)
      BY <1>2, <1>5, <1>7 DEF Viable
    <3>2. QED BY <1>2, <1>6, <3>1, NotViable
  <2>2. drawn' /\ mode' = mode /\ (mode = "file" => status' = "exit")
    BY <1>1, <1>7, Lexing
  <2>3. Flow'
    BY <2>2, FlowOfLine
  <2>4. ErrorsDeserved'
    BY <1>2, <2>1, <2>2 DEF ErrorsDeserved
  <2>5. QED BY <2>2, <2>3, <2>4 DEF Goes
<1>8. CASE ~ r.bad
  <2>1. drawn' = drawn /\ instructions' = Append(instructions, all)
    BY <1>1, <1>5, <1>8
  <2>2. Flow' /\ ErrorsDeserved'
    BY <2>1, FlowOfLine DEF ErrorsDeserved
  <2>3. instructions \in Seq(Cells) /\ all \in Cells
    BY <1>2, SeqMonotonic DEF Inv, TokensKept, Cells
  <2>4. Executed' = e \o all
    <3>1. SX!FlattenSeq(Append(instructions, all)) = SX!FlattenSeq(instructions) \o all
      BY <2>3, FlattenAppend DEF Cells
    <3>2. QED BY <2>1, <3>1 DEF Executed, e
  <2>5. EachOne(instructions')
    <3>1. EachOne(instructions)
      BY DEF Inv, Kept
    <3>2. QED BY <1>5, <1>8, <2>1, <2>3, <3>1, EachOneAppend
  <2>6. Program(e \o all)
    BY <1>2, <1>5, <1>8 DEF Program
  <2>7. \A b \in ListBrackets : depth'[b] = Count(b, tokens') - Count(ClosingSym(b), tokens')
    <3>1. ASSUME NEW b \in ListBrackets PROVE depth'[b] = Count(b, tokens') - Count(ClosingSym(b), tokens')
      <4>1. depth'[b] = 0
        BY <1>1, <1>2, <1>3, <1>5, <1>8, ProgramCounts
      <4>2. Count(b, << >>) = 0 /\ Count(ClosingSym(b), << >>) = 0 /\ 0 - 0 = 0
        BY CountEmpty
      <4>3. QED BY <1>1, <4>1, <4>2
    <3>2. QED BY <3>1
  <2>8. (Executed \o tokens \o WithoutComment(rest) \o buffer = given)'
    <3> DEFINE ea == e \o all
    <3>1. ea \in Texts /\ given = ea \o u
      BY <1>2, <1>6
    <3> HIDE DEF ea
    <3>2. ea \o << >> = ea /\ ea \o u \in Texts
      BY <1>6, <3>1, TextsAre, ConcatEmptySeq DEF Texts
    <3>3. ea \o << >> \o u \o << >> = given
      BY <3>1, <3>2, ConcatEmptySeq DEF Texts
    <3>4. Executed' = ea /\ tokens' = << >> /\ WithoutComment(rest') = u /\ buffer' = << >> /\ given' = given
      BY <1>1, <1>2, <2>4 DEF u, ea
    <3>5. QED BY <3>3, <3>4
  <2>9. Kept'
    BY <1>2, <2>4, <2>5, <2>6, <2>7, <2>8 DEF Kept
  <2>10. QED BY <2>2, <2>9 DEF Goes
<1>9. QED BY <1>7, <1>8

LEMMA InitInv == ASSUME IntakeAssumption, Init PROVE Inv
<1>1. Typed /\ TokensKept
  BY InitKept
<1>2. /\ mode \in Modes /\ ~ lexing /\ tracker = 0 /\ rest = << >> /\ buffer = << >> /\ tokens = << >>
      /\ given = << >> /\ instructions = << >> /\ ~ drawn
      /\ depth = [b \in {"(", "[", "{"} |-> 0]
  BY DEF Init
<1>3. NoMark(<< >>) /\ Count("(", << >>) = 0 /\ Count(")", << >>) = 0 /\ 0 - 0 = 0
  BY NoMarkToken, CountEmpty
<1>4. Flow
  BY <1>2, <1>3 DEF Flow
<1>5. WithoutComment(<< >>) = << >>
  <2>1. << >> \in Texts
    BY TextsAre
  <2>2. QED BY <1>3, <2>1, WithoutCommentIs DEF Texts
<1>6. Executed = << >>
  <2>1. << >> \in Seq(Seq(Tokens)) /\ Len(<< >>) = 0
    BY EmptySeq
  <2>2. SX!FlattenSeq(<< >>) = << >>
    BY <2>1, FlattenIs
  <2>3. QED BY <1>2, <2>2 DEF Executed
<1>7. Executed \o tokens \o WithoutComment(rest) \o buffer = given
  <2>1. << >> \in Texts
    BY TextsAre
  <2>2. << >> \o << >> = << >>
    BY <2>1, ConcatEmptySeq DEF Texts
  <2>3. << >> \o << >> \o << >> \o << >> = << >>
    BY <2>2
  <2>4. QED BY <1>2, <1>5, <1>6, <2>3
<1>8. EachOne(instructions)
  <2>1. instructions = << >>
    BY <1>2
  <2>2. DOMAIN instructions = {}
    BY <2>1
  <2>3. QED BY <2>2 DEF EachOne
<1>9. Executed \in Seq(Tokens) /\ Program(Executed)
  BY <1>6, EmptySeq, NestingEmpty DEF Program
<1>10. ASSUME NEW b \in ListBrackets PROVE depth[b] = Count(b, tokens) - Count(ClosingSym(b), tokens)
  <2>1. depth[b] = 0
    BY DEF Init, ListBrackets
  <2>2. Count(b, << >>) = 0 /\ Count(ClosingSym(b), << >>) = 0 /\ 0 - 0 = 0
    BY CountEmpty
  <2>3. tokens = << >>
    BY <1>2
  <2>4. QED BY <2>1, <2>2, <2>3
<1>11. Kept
  BY <1>7, <1>8, <1>9, <1>10 DEF Kept
<1>12. ErrorsDeserved
  BY <1>2 DEF ErrorsDeserved
<1>13. QED BY <1>1, <1>4, <1>11, <1>12 DEF Inv

LEMMA StepInv == ASSUME IntakeAssumption, Spaced, Inv, [Next]_vars PROVE Inv'
<1>1. Typed' /\ TokensKept'
  BY StepKept DEF Inv
<1>2. Goes
  <2>1. CASE Type
    <3>1. status' = status /\ UNCHANGED <<mode, rest, lexing, buffer, tracker, tokens, depth, instructions, given, drawn>>
      BY <2>1 DEF Type, repl, intake
    <3>2. QED BY <3>1, NothingElse DEF Goes
  <2>2. CASE NextLine
    BY <2>2, AfterNextLine
  <2>3. CASE Submit
    BY <2>3, AfterSubmit
  <2>4. CASE Lex
    <3>1. CASE LexComment
      BY <2>4, <3>1, AfterComment
    <3>2. CASE LexError
      BY <2>4, <3>2, AfterError
    <3>3. CASE LexToken
      BY <2>4, <3>3, AfterTokenDrawn, AfterTokenWaits, AfterTokenParsed
    <3>4. QED BY <2>4, <3>1, <3>2, <3>3 DEF Lex
  <2>5. CASE LineDone
    BY <2>5, AfterLine
  <2>6. CASE EndOfText
    BY <2>6, AfterEnd
  <2>7. CASE Ended \/ UNCHANGED vars
    <3>1. status' = status /\ UNCHANGED <<mode, rest, lexing, buffer, tracker, tokens, depth, instructions, given, drawn>>
      BY <2>7 DEF Ended, vars
    <3>2. QED BY <3>1, NothingElse DEF Goes
  <2>8. QED BY <2>1, <2>2, <2>3, <2>4, <2>5, <2>6, <2>7 DEF Next
<1>3. QED BY <1>1, <1>2 DEF Inv, Goes

LEMMA InvImplies == ASSUME Inv PROVE RunsWhatIsWritten /\ ErrorsDeserved
<1>1. RunsWhatIsWritten
  BY DEF Inv, Kept, EachOne, Executed, RunsWhatIsWritten
<1>2. QED BY <1>1 DEF Inv

\* When the lines of an instruction end in a blank, whatever is typed and
\* however it is split into lines: until an error is reported, what repl.cpp,
\* intake.cpp and the parser have executed, hold and have still to look at is
\* the text, and each instruction executed is one complete list.
THEOREM TextIsRun == Spaced => (Spec => []RunsWhatIsWritten)
<1>1. Spaced /\ Init => Inv
  BY IntakeAssumption, InitInv
<1>2. Spaced /\ Inv /\ [Next]_vars => Inv'
  BY IntakeAssumption, StepInv
<1>3. Inv => RunsWhatIsWritten
  BY InvImplies
<1>4. SUFFICES ASSUME Spaced PROVE Spec => []RunsWhatIsWritten
  OBVIOUS
<1>5. Init => Inv
  BY <1>1, <1>4
<1>6. Inv /\ [Next]_vars => Inv'
  BY <1>2, <1>4
<1>7. QED BY <1>3, <1>5, <1>6, PTL DEF Spec

\* ... and no error is reported for a text that begins a program: the lexer
\* and the parser of intake.cpp reject nothing the grammar allows.
THEOREM ErrorsAreDeserved == Spaced => (Spec => []ErrorsDeserved)
<1>1. Spaced /\ Init => Inv
  BY IntakeAssumption, InitInv
<1>2. Spaced /\ Inv /\ [Next]_vars => Inv'
  BY IntakeAssumption, StepInv
<1>3. Inv => ErrorsDeserved
  BY InvImplies
<1>4. SUFFICES ASSUME Spaced PROVE Spec => []ErrorsDeserved
  OBVIOUS
<1>5. Init => Inv
  BY <1>1, <1>4
<1>6. Inv /\ [Next]_vars => Inv'
  BY <1>2, <1>4
<1>7. QED BY <1>3, <1>5, <1>6, PTL DEF Spec
=============================================================================
