---------------------------- MODULE MacrosProofs ----------------------------
(***************************************************************************)
(* For every macro, argument and text: every variable keeps its type and   *)
(* what a call replaces is a marker; and of a text with an error anywhere  *)
(* no instruction is executed, of any other whole ones, in their order.    *)
(***************************************************************************)
EXTENDS Macros, Foundations

(***************************************************************************)
(* The tokens of a text.                                                   *)
(***************************************************************************)
TokenAt(t, k) == IF t[k] \in Brackets THEN t[k] ELSE "x"

LEMMA LexedAre == ASSUME NEW t \in Text PROVE Lexed(t) \in Seq(Tokens)
<1> DEFINE Longer(k, line) == IF ~ Begins(t, k) \/ Commented(t, k) THEN line ELSE Append(line, TokenAt(t, k))
           F == [p \in Nat \X Seq(Tokens) |-> Longer(p[1], p[2])]
           Is(g) == g = [k \in 0 .. Len(t) |-> IF k = 0 THEN << >>
                                               ELSE IF ~ Begins(t, k) \/ Commented(t, k) THEN g[k - 1]
                                               ELSE Append(g[k - 1], TokenAt(t, k))]
<1>1. \A k : TokenAt(t, k) \in Tokens
  BY DEF TokenAt, Brackets, Tokens
<1>2. \A k \in Nat : \A line \in Seq(Tokens) : Longer(k, line) \in Seq(Tokens)
  BY <1>1, AppendProperties
<1>3. << >> \in Seq(Tokens) /\ F \in [Nat \X Seq(Tokens) -> Seq(Tokens)] /\ Len(t) \in Nat
  <2>1. Len(t) \in Nat /\ << >> \in Seq(Tokens)
    BY EmptySeq, LenProperties DEF Text
  <2> HIDE DEF Longer
  <2>2. ASSUME NEW p \in Nat \X Seq(Tokens) PROVE Longer(p[1], p[2]) \in Seq(Tokens)
    <3>1. p[1] \in Nat /\ p[2] \in Seq(Tokens)
      OBVIOUS
    <3>2. QED BY <1>2, <3>1
  <2>3. F \in [Nat \X Seq(Tokens) -> Seq(Tokens)]
    BY <2>2
  <2>4. QED BY <2>1, <2>3
<1>4. PICK f \in [Nat -> Seq(Tokens)] : Follows(f, << >>, F)
  <2> HIDE DEF F
  <2>1. QED BY <1>3, Recursion
<1>5. /\ \A n \in Nat : f[n] \in Seq(Tokens)
      /\ f[0] = << >> /\ \A n \in Nat \ {0} : f[n] = Longer(n, f[n - 1])
  <2> HIDE DEF Longer
  <2>1. \A n \in Nat : f[n] \in Seq(Tokens)
    BY <1>4
  <2>2. f[0] = << >> /\ \A n \in Nat \ {0} : f[n] = F[<<n, f[n - 1]>>]
    BY <1>4 DEF Follows
  <2>3. ASSUME NEW n \in Nat \ {0} PROVE f[n] = Longer(n, f[n - 1])
    <3>1. n - 1 \in Nat
      OBVIOUS
    <3>2. <<n, f[n - 1]>> \in Nat \X Seq(Tokens)
      BY <2>1, <3>1
    <3>3. F[<<n, f[n - 1]>>] = Longer(n, f[n - 1])
      BY <3>2
    <3>4. QED BY <2>2, <3>3
  <2>4. QED BY <2>1, <2>2, <2>3
<1> DEFINE h == [n \in 0 .. Len(t) |-> f[n]]
<1>6. Is(h)
  <2>1. ASSUME NEW n \in 0 .. Len(t)
        PROVE  h[n] = IF n = 0 THEN << >> ELSE IF ~ Begins(t, n) \/ Commented(t, n) THEN h[n - 1]
                      ELSE Append(h[n - 1], TokenAt(t, n))
    <3>1. CASE n = 0
      BY <1>5, <3>1
    <3>2. CASE n # 0
      <4>1. n \in Nat \ {0} /\ n - 1 \in 0 .. Len(t)
        BY <1>3, <3>2
      <4>2. h[n] = f[n] /\ h[n - 1] = f[n - 1]
        BY <4>1
      <4>3. QED BY <1>5, <3>2, <4>1, <4>2
    <3>3. QED BY <3>1, <3>2
  <2>2. QED BY <2>1
<1> HIDE DEF h
<1>7. PICK u : u = CHOOSE g : Is(g)
  OBVIOUS
<1>8. Is(u)
  BY <1>6, <1>7
<1>9. Lexed(t) = u[Len(t)]
  BY <1>7 DEF Lexed, TokenAt
<1>10. u[0] = << >> /\ \A n \in 1 .. Len(t) : u[n] = Longer(n, u[n - 1])
  <2>1. ASSUME NEW n \in 0 .. Len(t)
        PROVE  u[n] = IF n = 0 THEN << >> ELSE IF ~ Begins(t, n) \/ Commented(t, n) THEN u[n - 1]
                      ELSE Append(u[n - 1], TokenAt(t, n))
    BY <1>8
  <2>2. 0 \in 0 .. Len(t) /\ \A n \in 1 .. Len(t) : n \in 0 .. Len(t) /\ n # 0
    BY <1>3
  <2>3. QED BY <2>1, <2>2
<1> DEFINE Good == {n \in Nat : n <= Len(t) => u[n] \in Seq(Tokens)}
<1> HIDE DEF Is, Longer
<1>11. 0 \in Good
  BY <1>3, <1>10
<1>12. ASSUME NEW n \in Nat, n \in Good PROVE n + 1 \in Good
  <2>1. SUFFICES ASSUME n + 1 <= Len(t) PROVE u[n + 1] \in Seq(Tokens)
    OBVIOUS
  <2>2. n + 1 \in 1 .. Len(t) /\ n <= Len(t) /\ (n + 1) - 1 = n
    BY <1>3, <2>1
  <2>3. u[n] \in Seq(Tokens)
    BY <1>12, <2>2
  <2>4. Longer(n + 1, u[n]) \in Seq(Tokens)
    BY <1>2, <2>3
  <2>5. u[n + 1] = Longer(n + 1, u[n])
    BY <1>10, <2>2
  <2>6. QED BY <2>4, <2>5
<1>13. \A n \in Nat : n \in Good
  <2> HIDE DEF Good
  <2>1. QED BY <1>11, <1>12, Induction
<1>14. u[Len(t)] \in Seq(Tokens)
  <2>1. Len(t) \in Good /\ Len(t) <= Len(t)
    BY <1>3, <1>13
  <2>2. QED BY <2>1
<1>15. QED BY <1>9, <1>14

(***************************************************************************)
(* What the catcher has of them.                                           *)
(***************************************************************************)
Takes == [tokens : Seq(Tokens), seen : Seq(Tokens), bad : BOOLEAN, caught : Seq(Cells)]

Flat(cells) == SX!FlattenSeq(cells)

\* After the tokens ts: the instructions and the tokens that wait are these, and
\* each instruction is one program.
Holds(a, ts) ==
  a.bad \/ /\ a.seen = ts /\ AlwaysOpen(a.tokens) /\ EachOne(a.caught)
           /\ Flat(a.caught) \in Seq(Tokens) /\ Program(Flat(a.caught))
           /\ Flat(a.caught) \o a.tokens = ts

Unopened(a, token) == \E b \in {"(", "[", "{"} : token = ClosingSym(b) /\ Depth(b, a.seen) = 0

\* Take, in its three cases.
LEMMA TakeCases ==
  ASSUME NEW a \in Takes, NEW token \in Tokens, NEW all, all = Append(a.tokens, token)
  PROVE  /\ a.bad \/ Unopened(a, token) => Take(a, token) = [a EXCEPT !.bad = TRUE]
         /\ ~ a.bad /\ ~ Unopened(a, token) /\ Depth("(", all) # 0
              => Take(a, token) = [tokens |-> all, seen |-> Append(a.seen, token), bad |-> FALSE, caught |-> a.caught]
         /\ ~ a.bad /\ ~ Unopened(a, token) /\ Depth("(", all) = 0
              => Take(a, token) = [tokens |-> << >>, seen |-> Append(a.seen, token), bad |-> Parse(all).bad,
                                   caught |-> IF Parse(all).bad THEN a.caught
                                              ELSE Append(a.caught, Parse(all).cell)]
<1>1. a = [tokens |-> a.tokens, seen |-> a.seen, bad |-> a.bad, caught |-> a.caught]
  BY DEF Takes
<1>2. ASSUME a.bad \/ Unopened(a, token) PROVE Take(a, token) = [a EXCEPT !.bad = TRUE]
  BY <1>2 DEF Take, Unopened
<1>3. ASSUME ~ a.bad, ~ Unopened(a, token), Depth("(", all) # 0
      PROVE  Take(a, token) = [tokens |-> all, seen |-> Append(a.seen, token), bad |-> FALSE, caught |-> a.caught]
  <2>1. Take(a, token) = [a EXCEPT !.tokens = all, !.seen = Append(a.seen, token)]
    BY <1>3 DEF Take, Unopened
  <2>2. a.bad = FALSE
    BY <1>3 DEF Takes
  <2> HIDE DEF Takes
  <2>3. QED BY <1>1, <2>1, <2>2
<1>4. ASSUME ~ a.bad, ~ Unopened(a, token), Depth("(", all) = 0
      PROVE  Take(a, token) = [tokens |-> << >>, seen |-> Append(a.seen, token), bad |-> Parse(all).bad,
                               caught |-> IF Parse(all).bad THEN a.caught ELSE Append(a.caught, Parse(all).cell)]
  BY <1>4 DEF Take, Unopened
<1>5. QED BY <1>2, <1>3, <1>4

LEMMA TakeIs == ASSUME NEW a \in Takes, NEW token \in Tokens PROVE Take(a, token) \in Takes
<1> DEFINE all == Append(a.tokens, token)
           r == Parse(all)
<1>1. a.tokens \in Seq(Tokens) /\ a.seen \in Seq(Tokens) /\ a.bad \in BOOLEAN /\ a.caught \in Seq(Cells)
  BY DEF Takes
<1>2. all \in Seq(Tokens) /\ Append(a.seen, token) \in Seq(Tokens)
  BY <1>1, AppendProperties
<1>3. r \in Results
  <2> HIDE DEF all
  <2>1. QED BY <1>2, ParseReads
<1> HIDE DEF r, all
<1>4. r.bad \in BOOLEAN /\ r.cell \in Cells
  BY <1>3 DEF Results
<1>5. Append(a.caught, r.cell) \in Seq(Cells)
  BY <1>1, <1>4, AppendProperties
<1>6. << >> \in Seq(Tokens)
  BY EmptySeq
<1>7. CASE a.bad \/ Unopened(a, token)
  <2>1. Take(a, token) = [a EXCEPT !.bad = TRUE]
    BY <1>7, TakeCases
  <2>2. QED BY <2>1 DEF Takes
<1>8. CASE ~ a.bad /\ ~ Unopened(a, token) /\ Depth("(", all) # 0
  <2>1. Take(a, token) = [tokens |-> all, seen |-> Append(a.seen, token), bad |-> FALSE, caught |-> a.caught]
    BY <1>8, TakeCases DEF all
  <2>2. QED BY <1>1, <1>2, <2>1 DEF Takes
<1>9. CASE ~ a.bad /\ ~ Unopened(a, token) /\ Depth("(", all) = 0
  <2>1. Take(a, token) = [tokens |-> << >>, seen |-> Append(a.seen, token), bad |-> r.bad,
                          caught |-> IF r.bad THEN a.caught ELSE Append(a.caught, r.cell)]
    BY <1>9, TakeCases DEF all, r
  <2> DEFINE c == IF r.bad THEN a.caught ELSE Append(a.caught, r.cell)
  <2>2. c \in Seq(Cells)
    BY <1>1, <1>5
  <2> HIDE DEF c
  <2>3. Take(a, token) = [tokens |-> << >>, seen |-> Append(a.seen, token), bad |-> r.bad, caught |-> c]
    BY <2>1 DEF c
  <2>4. QED BY <1>2, <1>4, <1>6, <2>2, <2>3 DEF Takes
<1>10. QED BY <1>7, <1>8, <1>9

\* A token that leaves a parenthesis open.
LEMMA StillOpen ==
  ASSUME NEW a \in Takes, NEW ts \in Seq(Tokens), Holds(a, ts), ~ a.bad, NEW token \in Tokens,
         ~ Unopened(a, token), NEW all, all = Append(a.tokens, token), Depth("(", all) # 0
  PROVE  AlwaysOpen(all)
<1>1. a.tokens \in Seq(Tokens) /\ a.seen \in Seq(Tokens)
  BY DEF Takes
<1>2. /\ a.seen = ts /\ AlwaysOpen(a.tokens) /\ Flat(a.caught) \in Seq(Tokens) /\ Program(Flat(a.caught))
      /\ Flat(a.caught) \o a.tokens = ts
  BY DEF Holds
<1> DEFINE fo == Count("(", Flat(a.caught))
           fc == Count(")", Flat(a.caught))
           o == Count("(", a.tokens)
           c == Count(")", a.tokens)
           io == IF token = "(" THEN 1 ELSE 0
           ic == IF token = ")" THEN 1 ELSE 0
           ao == Count("(", all)
           ac == Count(")", all)
<1>3. fo \in Nat /\ fc \in Nat /\ o \in Nat /\ c \in Nat /\ ao \in Nat /\ ac \in Nat
  <2>1. all \in Seq(Tokens)
    BY <1>1, AppendProperties
  <2>2. QED BY <1>1, <1>2, <2>1, CountNat
<1>4. fo - fc = 0
  <2>1. Count("(", Flat(a.caught)) - Count(ClosingSym("("), Flat(a.caught)) = 0
    BY <1>2, ProgramCounts, ParenthesesCounted
  <2>2. QED BY <2>1, ParenthesesCounted
<1>5. Count("(", a.seen) = fo + o /\ Count(")", a.seen) = fc + c
  <2>1. a.seen = Flat(a.caught) \o a.tokens
    BY <1>2
  <2>2. /\ Count("(", Flat(a.caught) \o a.tokens) = fo + o
        /\ Count(")", Flat(a.caught) \o a.tokens) = fc + c
    <3> DEFINE f == Flat(a.caught)
               u == a.tokens
    <3>1. f \in Seq(Tokens) /\ u \in Seq(Tokens)
      BY <1>1, <1>2
    <3> HIDE DEF f, u
    <3>2. \A x : Count(x, f \o u) = Count(x, f) + Count(x, u)
      BY <3>1, CountConcat
    <3>3. QED BY <3>2 DEF f, u
  <2>3. QED BY <2>1, <2>2
<1>6. ao = o + io /\ ac = c + ic
  BY <1>1, CountAppend
<1>7. token = ")" => (fo + o) - (fc + c) # 0
  <2>1. Depth("(", a.seen) = (fo + o) - (fc + c)
    BY <1>5, ParenthesesCounted DEF Depth
  <2>2. token = ")" => Depth("(", a.seen) # 0
    BY ParenthesesCounted DEF Unopened
  <2>3. QED BY <2>1, <2>2
<1>8. ao - ac # 0
  BY ParenthesesCounted DEF Depth
<1>9. o >= c
  <2>1. CASE a.tokens = << >>
    BY <2>1, CountEmpty
  <2>2. CASE a.tokens # << >>
    <3>1. Len(a.tokens) \in Nat /\ Len(a.tokens) # 0 /\ SubSeq(a.tokens, 1, Len(a.tokens)) = a.tokens
      BY <1>1, <2>2, EmptySeq, LenProperties, SubSeqFull
    <3>2. Len(a.tokens) \in 1 .. Len(a.tokens)
      BY <3>1
    <3>3. o > c
      BY <1>2, <3>1, <3>2 DEF AlwaysOpen
    <3> HIDE DEF o, c
    <3>4. QED BY <1>3, <3>3
  <2>3. QED BY <2>1, <2>2
<1>10. io \in {0, 1} /\ ic \in {0, 1} /\ (ic = 1 => token = ")")
  OBVIOUS
<1> HIDE DEF fo, fc, o, c, io, ic, ao, ac
<1>11. ao > ac
  BY <1>3, <1>4, <1>6, <1>7, <1>8, <1>9, <1>10
<1>12. QED BY <1>1, <1>2, <1>11, AlwaysOpenAppend DEF ao, ac

LEMMA TakeHolds ==
  ASSUME NEW a \in Takes, NEW ts \in Seq(Tokens), Holds(a, ts), NEW token \in Tokens
  PROVE  Holds(Take(a, token), Append(ts, token))
<1> DEFINE all == Append(a.tokens, token)
           r == Parse(all)
           f == Flat(a.caught)
           b == Take(a, token)
<1> HIDE DEF b
<1>1. CASE a.bad \/ Unopened(a, token)
  <2>1. b = [a EXCEPT !.bad = TRUE]
    BY <1>1, TakeCases DEF b
  <2>2. b.bad
    BY <2>1 DEF Takes
  <2>3. QED BY <2>2 DEF Holds, b
<1>2. CASE ~ a.bad /\ ~ Unopened(a, token)
  <2>1. /\ a.tokens \in Seq(Tokens) /\ a.caught \in Seq(Cells)
        /\ a.seen = ts /\ AlwaysOpen(a.tokens) /\ EachOne(a.caught) /\ f \in Seq(Tokens) /\ Program(f)
        /\ f \o a.tokens = ts
    BY <1>2 DEF Takes, Holds
  <2> HIDE DEF f, all
  <2>2. all \in Seq(Tokens) /\ f \o all = Append(ts, token)
    BY <2>1, ConcatAppend, AppendProperties, SMTT(30) DEF all
  <2>3. CASE Depth("(", all) # 0
    <3>1. b = [tokens |-> all, seen |-> Append(a.seen, token), bad |-> FALSE, caught |-> a.caught]
      BY <1>2, <2>3, TakeCases DEF b, all
    <3>2. AlwaysOpen(all)
      BY <1>2, <2>3, StillOpen DEF all
    <3>3. b.tokens = all /\ b.seen = Append(ts, token) /\ b.caught = a.caught
      BY <2>1, <3>1
    <3>4. QED BY <2>1, <2>2, <3>2, <3>3 DEF Holds, b, f
  <2>4. CASE Depth("(", all) = 0
    <3>1. b = [tokens |-> << >>, seen |-> Append(a.seen, token), bad |-> r.bad,
               caught |-> IF r.bad THEN a.caught ELSE Append(a.caught, r.cell)]
      BY <1>2, <2>4, TakeCases DEF b, all
    <3>2. CASE r.bad
      <4>1. b.bad
        BY <3>1, <3>2
      <4>2. QED BY <4>1 DEF Holds, b
    <3>3. CASE ~ r.bad
      <4>1. Count("(", all) - Count(")", all) = 0
        <5>1. Depth("(", all) = Count("(", all) - Count(ClosingSym("("), all)
          BY DEF Depth
        <5>2. QED BY <2>4, <5>1, ParenthesesCounted
      <4>2. /\ r.cell = all /\ Program(all) /\ \A n \in 1 .. Len(all) - 1 : ~ Program(SubSeq(all, 1, n))
        <5> DEFINE u == a.tokens
        <5>1. u \in Seq(Tokens) /\ AlwaysOpen(u) /\ all = Append(u, token)
          BY <2>1 DEF all
        <5> HIDE DEF u
        <5>2. /\ ~ Parse(all).bad => /\ Parse(all).cell = all /\ Program(all)
                                     /\ \A n \in 1 .. Len(all) - 1 : ~ Program(SubSeq(all, 1, n))
          <6>1. \A v \in Seq(Tokens) : \A x \in Tokens : \A w :
                  AlwaysOpen(v) /\ w = Append(v, x) /\ Count("(", w) - Count(")", w) = 0 /\ ~ Parse(w).bad
                    => /\ Parse(w).cell = w /\ Program(w)
                       /\ \A n \in 1 .. Len(w) - 1 : ~ Program(SubSeq(w, 1, n))
            BY ReadWhole
          <6>2. QED BY <4>1, <5>1, <6>1, ZenonT(60)
        <5>3. QED BY <3>3, <5>2
      <4>3. b.tokens = << >> /\ b.seen = Append(ts, token) /\ b.caught = Append(a.caught, all)
        BY <2>1, <3>1, <3>3, <4>2
      <4>4. all \in Cells
        BY <2>2, SeqMonotonic DEF Cells
      <4>5. EachOne(b.caught)
        BY <2>1, <4>2, <4>3, <4>4, EachOneAppend
      <4>6. Flat(b.caught) = f \o all
        BY <2>1, <4>3, <4>4, FlattenAppend DEF Cells, Flat, f
      <4>7. f \o all \in Seq(Tokens) /\ Program(f \o all)
        <5>1. f \o all \in Seq(Tokens)
          BY <2>1, <2>2, ConcatProperties
        <5>2. Nesting(f \o all) = << >>
          BY <2>1, <2>2, <4>2, NestingConcat DEF Program
        <5>3. QED BY <5>1, <5>2 DEF Program
      <4>8. Flat(b.caught) \o b.tokens = Append(ts, token)
        <5> DEFINE fa == f \o all
        <5>1. fa \in Seq(Tokens)
          BY <4>7
        <5> HIDE DEF fa
        <5>2. fa \o << >> = fa
          BY <5>1, ConcatEmptySeq
        <5>3. QED BY <2>2, <4>3, <4>6, <5>2 DEF fa
      <4>9. AlwaysOpen(b.tokens)
        <5>1. Len(<< >>) = 0
          BY EmptySeq
        <5>2. AlwaysOpen(<< >>)
          BY <5>1 DEF AlwaysOpen
        <5>3. QED BY <4>3, <5>2
      <4>10. QED BY <4>3, <4>5, <4>6, <4>7, <4>8, <4>9 DEF Holds, b
    <3>4. QED BY <3>2, <3>3
  <2>5. QED BY <2>3, <2>4
<1>3. QED BY <1>1, <1>2

\* All the tokens of a text.
LEMMA TakenIs == ASSUME NEW ts \in Seq(Tokens) PROVE Taken(ts) \in Takes /\ Holds(Taken(ts), ts)
<1> DEFINE first == [tokens |-> << >>, seen |-> << >>, bad |-> FALSE, caught |-> << >>]
           F == [p \in Nat \X Takes |-> IF p[1] \in 1 .. Len(ts) THEN Take(p[2], ts[p[1]]) ELSE p[2]]
           Is(g) == g = [n \in 0 .. Len(ts) |-> IF n = 0 THEN first ELSE Take(g[n - 1], ts[n])]
<1>1. Len(ts) \in Nat /\ \A k \in 1 .. Len(ts) : ts[k] \in Tokens
  BY LenProperties, ElementOfSeq
<1>2. first \in Takes
  <2>1. << >> \in Seq(Tokens) /\ << >> \in Seq(Cells)
    BY EmptySeq
  <2>2. QED BY <2>1 DEF Takes
<1>3. Holds(first, << >>)
  <2>1. Flat(<< >>) = << >>
    <3>1. << >> \in Seq(Seq(Tokens)) /\ Len(<< >>) = 0
      BY EmptySeq
    <3>2. QED BY <3>1, FlattenIs DEF Flat
  <2>2. AlwaysOpen(<< >>) /\ EachOne(<< >>)
    <3>1. Len(<< >>) = 0 /\ DOMAIN << >> = {}
      BY EmptySeq
    <3>2. QED BY <3>1 DEF AlwaysOpen, EachOne
  <2>3. << >> \in Seq(Tokens) /\ Program(<< >>) /\ << >> \o << >> = << >>
    <3>1. << >> \in Seq(Tokens)
      BY EmptySeq
    <3>2. << >> \o << >> = << >>
      BY <3>1, ConcatEmptySeq
    <3>3. QED BY <3>1, <3>2, NestingEmpty DEF Program
  <2>4. first.seen = << >> /\ first.tokens = << >> /\ first.caught = << >>
    OBVIOUS
  <2> HIDE DEF first
  <2>5. QED BY <2>1, <2>2, <2>3, <2>4 DEF Holds
<1> HIDE DEF first
<1>4. F \in [Nat \X Takes -> Takes]
  <2>1. ASSUME NEW p \in Nat \X Takes
        PROVE  (IF p[1] \in 1 .. Len(ts) THEN Take(p[2], ts[p[1]]) ELSE p[2]) \in Takes
    <3>1. p[2] \in Takes
      OBVIOUS
    <3>2. p[1] \in 1 .. Len(ts) => ts[p[1]] \in Tokens
      BY <1>1
    <3>3. QED BY <3>1, <3>2, TakeIs
  <2>2. QED BY <2>1
<1>5. PICK f \in [Nat -> Takes] : Follows(f, first, F)
  <2> HIDE DEF F
  <2>1. QED BY <1>2, <1>4, Recursion
<1>6. /\ \A n \in Nat : f[n] \in Takes
      /\ f[0] = first /\ \A n \in 1 .. Len(ts) : f[n] = Take(f[n - 1], ts[n])
  <2>1. \A n \in Nat : f[n] \in Takes
    BY <1>5
  <2>2. f[0] = first /\ \A n \in Nat \ {0} : f[n] = F[<<n, f[n - 1]>>]
    <3> HIDE DEF F
    <3>1. QED BY <1>5 DEF Follows
  <2>3. ASSUME NEW n \in 1 .. Len(ts) PROVE f[n] = Take(f[n - 1], ts[n])
    <3>1. n - 1 \in Nat /\ n \in Nat \ {0}
      BY <1>1
    <3>2. <<n, f[n - 1]>> \in Nat \X Takes
      BY <2>1, <3>1
    <3>3. F[<<n, f[n - 1]>>] = Take(f[n - 1], ts[n])
      BY <3>2
    <3>4. QED BY <2>2, <3>1, <3>3
  <2>4. QED BY <2>1, <2>2, <2>3
<1> DEFINE h == [n \in 0 .. Len(ts) |-> f[n]]
<1>7. Is(h)
  <2>1. ASSUME NEW n \in 0 .. Len(ts) PROVE h[n] = IF n = 0 THEN first ELSE Take(h[n - 1], ts[n])
    <3>1. CASE n = 0
      BY <1>6, <3>1
    <3>2. CASE n # 0
      <4>1. n \in 1 .. Len(ts) /\ n - 1 \in 0 .. Len(ts)
        BY <1>1, <3>2
      <4>2. h[n] = f[n] /\ h[n - 1] = f[n - 1]
        BY <4>1
      <4>3. QED BY <1>6, <3>2, <4>1, <4>2
    <3>3. QED BY <3>1, <3>2
  <2>2. QED BY <2>1
<1> HIDE DEF h
<1>8. PICK u : u = CHOOSE g : Is(g)
  OBVIOUS
<1>9. Is(u)
  BY <1>7, <1>8
<1>10. Taken(ts) = u[Len(ts)]
  BY <1>8 DEF Taken, first
<1>11. u[0] = first /\ \A n \in 1 .. Len(ts) : u[n] = Take(u[n - 1], ts[n])
  <2>1. ASSUME NEW n \in 0 .. Len(ts) PROVE u[n] = IF n = 0 THEN first ELSE Take(u[n - 1], ts[n])
    BY <1>9
  <2>2. 0 \in 0 .. Len(ts) /\ \A n \in 1 .. Len(ts) : n \in 0 .. Len(ts) /\ n # 0
    BY <1>1
  <2>3. QED BY <2>1, <2>2
<1> HIDE DEF Is, F
<1> DEFINE Good == {n \in Nat : n <= Len(ts) => u[n] \in Takes /\ Holds(u[n], SubSeq(ts, 1, n))}
<1>12. 0 \in Good
  <2>1. SubSeq(ts, 1, 0) = << >>
    BY SubSeqEmpty
  <2>2. QED BY <1>2, <1>3, <1>11, <2>1
<1>13. ASSUME NEW n \in Nat, n \in Good PROVE n + 1 \in Good
  <2>1. SUFFICES ASSUME n + 1 <= Len(ts) PROVE u[n + 1] \in Takes /\ Holds(u[n + 1], SubSeq(ts, 1, n + 1))
    OBVIOUS
  <2>2. n + 1 \in 1 .. Len(ts) /\ n <= Len(ts) /\ (n + 1) - 1 = n
    BY <1>1, <2>1
  <2>3. u[n] \in Takes /\ Holds(u[n], SubSeq(ts, 1, n))
    BY <1>13, <2>2
  <2>4. u[n + 1] = Take(u[n], ts[n + 1])
    BY <1>11, <2>2
  <2>5. SubSeq(ts, 1, n) \in Seq(Tokens) /\ ts[n + 1] \in Tokens
        /\ SubSeq(ts, 1, n + 1) = Append(SubSeq(ts, 1, n), ts[n + 1])
    BY <2>2, FrontAndLast
  <2>6. QED BY <2>3, <2>4, <2>5, TakeIs, TakeHolds
<1>14. \A n \in Nat : n \in Good
  <2> HIDE DEF Good
  <2>1. QED BY <1>12, <1>13, Induction
<1>15. u[Len(ts)] \in Takes /\ Holds(u[Len(ts)], SubSeq(ts, 1, Len(ts)))
  <2>1. Len(ts) \in Good /\ Len(ts) <= Len(ts)
    BY <1>1, <1>14
  <2>2. QED BY <2>1
<1>16. SubSeq(ts, 1, Len(ts)) = ts
  BY SubSeqFull
<1>17. QED BY <1>10, <1>15, <1>16

\* What eval collects of a text, when it reports no error.
LEMMA EvaluatedIs ==
  ASSUME NEW t \in Text
  PROVE  /\ Evaluated(t).caught \in Seq(Cells)
         /\ ~ Evaluated(t).bad => /\ EachOne(Evaluated(t).caught) /\ Program(Lexed(t))
                                  /\ Flat(Evaluated(t).caught) = Lexed(t)
<1> DEFINE ts == Lexed(t)
           r == Taken(ts)
<1>1. ts \in Seq(Tokens)
  BY LexedAre
<1> HIDE DEF ts
<1>2. r \in Takes /\ Holds(r, ts)
  BY <1>1, TakenIs
<1> HIDE DEF r
<1>3. Evaluated(t) = [r EXCEPT !.bad = r.bad \/ r.tokens # << >>]
  BY DEF Evaluated, r, ts
<1>4. Evaluated(t).caught = r.caught /\ (~ Evaluated(t).bad => ~ r.bad /\ r.tokens = << >>)
  BY <1>2, <1>3 DEF Takes
<1>5. r.caught \in Seq(Cells)
  BY <1>2 DEF Takes
<1>6. ASSUME ~ Evaluated(t).bad PROVE EachOne(r.caught) /\ Program(ts) /\ Flat(r.caught) = ts
  <2>1. /\ EachOne(r.caught) /\ Flat(r.caught) \in Seq(Tokens) /\ Program(Flat(r.caught))
        /\ Flat(r.caught) \o << >> = ts
    BY <1>2, <1>4, <1>6 DEF Holds
  <2>2. Flat(r.caught) \o << >> = Flat(r.caught)
    <3> DEFINE f == Flat(r.caught)
    <3>1. f \in Seq(Tokens)
      BY <2>1
    <3> HIDE DEF f
    <3>2. f \o << >> = f
      BY <3>1, ConcatEmptySeq
    <3>3. QED BY <3>2 DEF f
  <2>3. QED BY <2>1, <2>2
<1>7. QED BY <1>4, <1>5, <1>6 DEF ts

(***************************************************************************)
(* Texts.                                                                  *)
(***************************************************************************)

LEMMA Letter == \A c \in Characters : <<c>> \in Seq(Characters) /\ Len(<<c>>) = 1
OBVIOUS

\* What is written for a cell is a text.
LEMMA WrittenIs == ASSUME NEW cell \in Cell PROVE Written(cell) \in Text
<1> DEFINE W(k) == IF k > 1 /\ cell[k - 1] \notin {<<"(">>, <<"[">>, <<"{">>}
                      /\ cell[k] \notin {<<")">>, <<"]">>, <<"}">>}
                   THEN <<" ">> \o cell[k] ELSE cell[k]
           w == [k \in DOMAIN cell |-> W(k)]
<1>1. Len(cell) \in Nat /\ DOMAIN cell = 1 .. Len(cell) /\ \A k \in 1 .. Len(cell) : cell[k] \in Seq(Characters)
  BY LenProperties, ElementOfSeq DEF Cell, Text
<1>2. <<" ">> \in Seq(Characters)
  <2>1. " " \in Characters
    BY MacrosAssumption
  <2>2. QED BY <2>1, Letter
<1>3. ASSUME NEW k \in 1 .. Len(cell) PROVE W(k) \in Seq(Characters)
  <2>1. <<" ">> \o cell[k] \in Seq(Characters)
    BY <1>1, <1>2, ConcatProperties
  <2>2. QED BY <1>1, <2>1
<1>4. w \in Seq(Seq(Characters))
  <2> HIDE DEF W
  <2>1. w \in [1 .. Len(cell) -> Seq(Characters)]
    BY <1>1, <1>3
  <2> HIDE DEF w
  <2>2. QED BY <1>1, <2>1, SeqDef
<1>5. Written(cell) = SX!FlattenSeq(w)
  BY DEF Written
<1> HIDE DEF w
<1>6. SX!FlattenSeq(w) \in Seq(Characters)
  BY <1>2, <1>4, FlattenAppend
<1>7. QED BY <1>5, <1>6 DEF Text

\* What is found is there.
LEMMA FindIs ==
  ASSUME NEW t \in Text, NEW marker, NEW from \in Nat \ {0}
  PROVE  /\ Find(marker, t, from) \in 0 .. Len(t)
         /\ Find(marker, t, from) # 0 => IsAt(marker, t, Find(marker, t, from))
<1> DEFINE at == {k \in from .. Len(t) : IsAt(marker, t, k)}
<1>1. Len(t) \in Nat /\ 0 \in 0 .. Len(t)
  <2>1. Len(t) \in Nat
    BY LenProperties DEF Text
  <2>2. QED BY <2>1
<1>2. CASE at = {}
  <2>1. Find(marker, t, from) = 0
    BY <1>2 DEF Find
  <2>2. QED BY <1>1, <2>1
<1>3. CASE at # {}
  <2>1. at \subseteq Nat
    BY <1>1
  <2>2. PICK f : f = CHOOSE k \in at : \A j \in at : k <= j
    OBVIOUS
  <2>3. f \in at
    <3> HIDE DEF at
    <3>1. \E k \in at : \A j \in at : k <= j
      BY <1>3, <2>1, LeastIn
    <3>2. QED BY <2>2, <3>1
  <2>4. Find(marker, t, from) = f
    BY <1>3, <2>2 DEF Find
  <2>5. f \in 0 .. Len(t) /\ IsAt(marker, t, f)
    BY <1>1, <2>3
  <2>6. QED BY <2>4, <2>5
<1>4. QED BY <1>2, <1>3

\* A marker is not empty.
LEMMA MarkerIs == ASSUME NEW p \in Text PROVE Marker(p) \in Text /\ Len(Marker(p)) \in Nat \ {0}
<1>1. <<"%">> \in Seq(Characters) /\ Len(<<"%">>) = 1
  <2>1. "%" \in Characters
    BY MacrosAssumption
  <2>2. QED BY <2>1, Letter
<1>2. /\ Marker(p) \in Seq(Characters) /\ Len(Marker(p)) = 1 + Len(p) /\ Len(p) \in Nat
  BY <1>1, ConcatProperties, LenProperties DEF Marker, Text
<1>3. QED BY <1>2 DEF Text

(***************************************************************************)
(* The inductive invariant.                                                *)
(***************************************************************************)
Assembling ==
  /\ Len(args) = Len(macro.params) /\ i <= Len(macro.params) + 1
  /\ found # 0 => IsAt(Marker(macro.params[i]), text, found)

Typed ==
  /\ pc \in {"idle", "assemble", "evaluate", "run"} /\ thrown \in BOOLEAN
  /\ macro \in [params : Seq(Text), body : Text] /\ text \in Text
  /\ i \in Nat \ {0} /\ args \in Seq(Arguments) /\ found \in Nat
  /\ pc = "assemble" => Assembling

\* While a text runs, the instructions executed, those that wait and some that
\* were given up are those of the text.
Running ==
  \E rest \in Seq(Cells) :
    /\ ran \in Seq(Cells) /\ waiting \in Seq(Cells)
    /\ ran \o waiting \o rest = Evaluated(text).caught /\ ~ Evaluated(text).bad

Inv == Typed /\ (pc = "run" => Running) /\ (pc # "run" => ran = << >>)

\* The turn of a parameter, or the end of the loop.
LEMMA TurnIs ==
  ASSUME macro \in [params : Seq(Text), body : Text], NEW n \in Nat \ {0}, NEW t \in Text, Turn(n, t)
  PROVE  /\ i' = n /\ found' \in Nat
         /\ found' # 0 => IsAt(Marker(macro.params[n]), t, found')
<1>1. i' = n
  BY DEF Turn
<1>2. CASE n > Len(macro.params)
  BY <1>1, <1>2 DEF Turn
<1>3. CASE ~ (n > Len(macro.params))
  <2> DEFINE f == Find(Marker(macro.params[n]), t, 1)
  <2>1. found' = f
    BY <1>3 DEF Turn
  <2>2. f \in 0 .. Len(t) /\ (f # 0 => IsAt(Marker(macro.params[n]), t, f))
    <3>1. 1 \in Nat \ {0}
      OBVIOUS
    <3>2. QED BY <3>1, FindIs
  <2> HIDE DEF f
  <2>3. f \in Nat
    BY <2>2
  <2>4. QED BY <1>1, <2>1, <2>2, <2>3
<1>4. QED BY <1>2, <1>3

\* What is left at the end of a call, or of an evaluation.
LEMMA LeaveIs ==
  ASSUME NEW t \in BOOLEAN, Leave(t), macro' \in [params : Seq(Text), body : Text] PROVE Inv'
<1>1. /\ pc' = "idle" /\ thrown' = t /\ args' = << >> /\ i' = 1 /\ found' = 0 /\ text' = << >> /\ ran' = << >>
  BY DEF Leave
<1>2. << >> \in Text /\ << >> \in Seq(Arguments)
  BY EmptySeq DEF Text
<1>3. 1 \in Nat \ {0} /\ 0 \in Nat
  OBVIOUS
<1>4. args' \in Seq(Arguments) /\ text' \in Text /\ i' \in Nat \ {0} /\ found' \in Nat
  <2>1. args' \in Seq(Arguments)
    BY <1>1, <1>2
  <2>2. text' \in Text
    BY <1>1, <1>2
  <2>3. QED BY <1>1, <1>3, <2>1, <2>2
<1>5. Typed'
  BY <1>1, <1>4 DEF Typed
<1>6. QED BY <1>1, <1>5 DEF Inv

(***************************************************************************)
(* Each action keeps the invariant.                                        *)
(***************************************************************************)
LEMMA AfterDefine ==
  ASSUME Inv, NEW m \in MacrosDefined, Define(m) PROVE Inv'
<1> DEFINE w == [k \in DOMAIN m.body |-> Written(m.body[k])]
<1>1. /\ macro' = [params |-> m.params, body |-> SX!FlattenSeq(w)] /\ pc' = pc /\ pc = "idle"
      /\ UNCHANGED <<args, i, found, text, waiting, ran, thrown>>
  BY DEF Define
<1>2. m.params \in Seq(Text) /\ m.body \in Seq(Cell)
  <2>1. m.params \in Seq(Text \ {<< >>}) /\ m.body \in Seq(Cell)
    BY MacrosAssumption
  <2>2. Text \ {<< >>} \subseteq Text
    OBVIOUS
  <2>3. QED BY <2>1, <2>2, SeqMonotonic
<1>3. w \in Seq(Text)
  <2>1. Len(m.body) \in Nat /\ DOMAIN m.body = 1 .. Len(m.body) /\ \A k \in 1 .. Len(m.body) : m.body[k] \in Cell
    BY <1>2, LenProperties, ElementOfSeq
  <2>2. \A k \in 1 .. Len(m.body) : Written(m.body[k]) \in Text
    BY <2>1, WrittenIs
  <2>3. w \in [1 .. Len(m.body) -> Text]
    BY <2>1, <2>2
  <2> HIDE DEF w
  <2>4. QED BY <2>1, <2>3, SeqDef
<1> HIDE DEF w
<1>4. SX!FlattenSeq(w) \in Text
  <2>1. << >> \in Seq(Characters) /\ w \in Seq(Seq(Characters))
    BY <1>3, EmptySeq DEF Text
  <2>2. QED BY <2>1, FlattenAppend DEF Text
<1>5. macro' \in [params : Seq(Text), body : Text]
  BY <1>1, <1>2, <1>4
<1>6. Typed'
  BY <1>1, <1>5 DEF Typed, Inv
<1>7. QED BY <1>1, <1>6 DEF Inv

LEMMA SequencesOf == ASSUME NEW S, NEW n \in Nat, NEW s \in [1 .. n -> S] PROVE s \in Seq(S)
BY SeqDef

\* As many arguments as a call may be given.
LEMMA ArgumentsAre ==
  ASSUME NEW l \in Nat, NEW n \in {l - 1, l}, NEW as \in [1 .. n -> Arguments] PROVE as \in Seq(Arguments)
<1>1. CASE n \in Nat
  BY <1>1, SequencesOf
<1>2. CASE n \notin Nat
  <2>1. 1 .. n = 1 .. 0 /\ 0 \in Nat
    BY <1>2
  <2>2. as \in [1 .. 0 -> Arguments]
    BY <2>1
  <2>3. QED BY <2>1, <2>2, SequencesOf
<1>3. QED BY <1>1, <1>2

LEMMA AfterCall ==
  ASSUME Inv, NEW n \in {Len(macro.params) - 1, Len(macro.params)},
         NEW as \in [1 .. n -> Arguments], Call(as)
  PROVE  Inv'
<1>1. macro' = macro /\ macro \in [params : Seq(Text), body : Text] /\ pc = "idle"
  BY DEF Call, Inv, Typed
<1>2. CASE Len(as) # Len(macro.params)
  <2>1. Leave(TRUE)
    BY <1>2 DEF Call
  <2>2. QED BY <1>1, <2>1, LeaveIs
<1>3. CASE Len(as) = Len(macro.params)
  <2>1. /\ pc' = "assemble" /\ args' = as /\ text' = macro.body /\ thrown' = FALSE
        /\ Turn(1, macro.body) /\ UNCHANGED <<waiting, ran>>
    BY <1>3 DEF Call
  <2>2. macro.body \in Text /\ Len(macro.params) \in Nat
    BY <1>1, LenProperties
  <2>3. as \in Seq(Arguments)
    BY <2>2, ArgumentsAre
  <2>4. /\ i' = 1 /\ found' \in Nat
        /\ found' # 0 => IsAt(Marker(macro.params[1]), macro.body, found')
    <3>1. 1 \in Nat \ {0}
      OBVIOUS
    <3>2. QED BY <1>1, <2>1, <2>2, <3>1, TurnIs
  <2>5. Assembling'
    <3>1. 1 <= Len(macro.params) + 1
      BY <2>2
    <3>2. QED BY <1>1, <1>3, <2>1, <2>4, <3>1 DEF Assembling
  <2>6. i' \in Nat \ {0} /\ text' \in Text /\ args' \in Seq(Arguments)
    <3>1. 1 \in Nat \ {0}
      OBVIOUS
    <3>2. QED BY <2>1, <2>2, <2>3, <2>4, <3>1
  <2>7. Typed'
    BY <1>1, <2>1, <2>4, <2>5, <2>6 DEF Typed
  <2>8. ran' = << >>
    BY <1>1, <2>1 DEF Inv
  <2>9. QED BY <2>1, <2>7, <2>8 DEF Inv
<1>4. QED BY <1>2, <1>3

\* A parameter whose turn it is.
LEMMA HereIs ==
  ASSUME Inv, Here
  PROVE  /\ i \in 1 .. Len(macro.params) /\ Len(macro.params) \in Nat /\ Len(args) = Len(macro.params)
         /\ macro.params[i] \in Text /\ args[i] \in Cell /\ text \in Text /\ Len(text) \in Nat
         /\ Marker(macro.params[i]) \in Text /\ Len(Marker(macro.params[i])) \in Nat \ {0}
         /\ found # 0 => IsAt(Marker(macro.params[i]), text, found)
<1>1. /\ macro.params \in Seq(Text) /\ args \in Seq(Arguments) /\ text \in Text
      /\ pc = "assemble" /\ i <= Len(macro.params) /\ i \in Nat \ {0} /\ Assembling
  BY DEF Inv, Typed, Here
<1>2. /\ Len(macro.params) \in Nat /\ Len(text) \in Nat /\ Len(args) = Len(macro.params)
      /\ found # 0 => IsAt(Marker(macro.params[i]), text, found)
  BY <1>1, LenProperties DEF Assembling, Text
<1>3. i \in 1 .. Len(macro.params)
  BY <1>1, <1>2
<1>4. macro.params[i] \in Text /\ args[i] \in Arguments
  BY <1>1, <1>2, <1>3, ElementOfSeq
<1>5. args[i] \in Cell
  BY <1>4, MacrosAssumption
<1>6. QED BY <1>1, <1>2, <1>3, <1>4, <1>5, MarkerIs

LEMMA AfterSkip == ASSUME Inv, SkipEscaped PROVE Inv'
<1> DEFINE f == Find(Marker(macro.params[i]), text, found + 1)
<1>1. /\ Here /\ found' = f /\ found \in Nat /\ pc = "assemble"
      /\ UNCHANGED <<pc, macro, args, i, text, waiting, ran, thrown>>
  BY DEF SkipEscaped, Inv, Typed, Here
<1>2. text \in Text
  BY DEF Inv, Typed
<1>3. f \in 0 .. Len(text) /\ (f # 0 => IsAt(Marker(macro.params[i]), text, f))
  <2>1. found + 1 \in Nat \ {0}
    BY <1>1
  <2>2. QED BY <1>2, <2>1, FindIs
<1> HIDE DEF f
<1>4. f \in Nat
  BY <1>3
<1>5. Assembling'
  BY <1>1, <1>3 DEF Assembling, Inv, Typed
<1>6. Typed'
  BY <1>1, <1>4, <1>5 DEF Inv, Typed
<1>7. QED BY <1>1, <1>6 DEF Inv

LEMMA AfterReplace == ASSUME Inv, Replace PROVE Inv'
<1> DEFINE marker == Marker(macro.params[i])
           left == SubSeq(text, 1, found - 1)
           right == SubSeq(text, found + Len(marker), Len(text))
           mid == Written(args[i])
<1>1. /\ Here /\ found # 0 /\ found \in Nat /\ pc = "assemble"
      /\ text' = left \o mid \o right /\ Turn(i, text')
      /\ UNCHANGED <<pc, macro, args, waiting, ran, thrown>>
  BY DEF Replace, Inv, Typed, Here
<1>2. /\ text \in Seq(Characters) /\ Len(text) \in Nat /\ Len(marker) \in Nat \ {0}
      /\ found + Len(marker) - 1 <= Len(text) /\ mid \in Seq(Characters)
  <2>1. /\ text \in Text /\ Len(text) \in Nat /\ Len(marker) \in Nat \ {0} /\ args[i] \in Cell
        /\ IsAt(marker, text, found)
    BY <1>1, HereIs
  <2>2. mid \in Text
    BY <2>1, WrittenIs
  <2>3. QED BY <2>1, <2>2 DEF IsAt, Text
<1> HIDE DEF marker, mid
<1>3. \A k \in 1 .. Len(text) : text[k] \in Characters
  BY <1>2, ElementOfSeq
<1>4. left \in Seq(Characters)
  <2>1. \A k \in 1 .. found - 1 : text[k] \in Characters
    <3>1. \A k \in 1 .. found - 1 : k \in 1 .. Len(text)
      BY <1>1, <1>2
    <3>2. QED BY <1>3, <3>1
  <2>2. 1 \in Int /\ found - 1 \in Int
    BY <1>1
  <2>3. QED BY <2>1, <2>2, SubSeqProperties
<1>5. right \in Seq(Characters)
  <2>1. \A k \in found + Len(marker) .. Len(text) : text[k] \in Characters
    <3>1. \A k \in found + Len(marker) .. Len(text) : k \in 1 .. Len(text)
      BY <1>1, <1>2
    <3>2. QED BY <1>3, <3>1
  <2>2. found + Len(marker) \in Int /\ Len(text) \in Int
    BY <1>1, <1>2
  <2>3. QED BY <2>1, <2>2, SubSeqProperties
<1> HIDE DEF left, right
<1>6. text' \in Text
  <2>1. left \o mid \in Seq(Characters)
    BY <1>2, <1>4, ConcatProperties
  <2>2. (left \o mid) \o right \in Seq(Characters)
    BY <1>5, <2>1, ConcatProperties
  <2>3. QED BY <1>1, <2>2 DEF Text
<1>7. macro \in [params : Seq(Text), body : Text] /\ i \in Nat \ {0}
  BY DEF Inv, Typed
<1>8. i' = i /\ found' \in Nat /\ (found' # 0 => IsAt(Marker(macro.params[i]), text', found'))
  <2> DEFINE t == text'
  <2>1. t \in Text /\ Turn(i, t)
    BY <1>1, <1>6
  <2> HIDE DEF t
  <2>2. i' = i /\ found' \in Nat /\ (found' # 0 => IsAt(Marker(macro.params[i]), t, found'))
    BY <1>7, <2>1, TurnIs
  <2>3. QED BY <2>2 DEF t
<1>9. Assembling'
  BY <1>1, <1>8 DEF Assembling, Inv, Typed
<1>10. Typed'
  BY <1>1, <1>6, <1>8, <1>9 DEF Inv, Typed
<1>11. QED BY <1>1, <1>10 DEF Inv

LEMMA AfterParam == ASSUME Inv, NextParam PROVE Inv'
<1>1. /\ Here /\ pc = "assemble" /\ Turn(i + 1, text)
      /\ UNCHANGED <<pc, macro, args, text, waiting, ran, thrown>>
  BY DEF NextParam, Here
<1>2. macro \in [params : Seq(Text), body : Text] /\ i \in Nat \ {0} /\ text \in Text /\ Assembling
  BY <1>1 DEF Inv, Typed
<1>3. i + 1 \in Nat \ {0} /\ i + 1 <= Len(macro.params) + 1
  <2>1. i \in 1 .. Len(macro.params) /\ Len(macro.params) \in Nat
    BY <1>1, HereIs
  <2>2. QED BY <2>1
<1>4. i' = i + 1 /\ found' \in Nat /\ (found' # 0 => IsAt(Marker(macro.params[i + 1]), text, found'))
  BY <1>1, <1>2, <1>3, TurnIs
<1>5. Assembling'
  BY <1>1, <1>2, <1>3, <1>4 DEF Assembling
<1>6. i' \in Nat \ {0}
  BY <1>3, <1>4
<1>7. Typed'
  BY <1>1, <1>4, <1>5, <1>6 DEF Inv, Typed
<1>8. QED BY <1>1, <1>7 DEF Inv

LEMMA AfterAssembled == ASSUME Inv, Assembled PROVE Inv'
<1>1. /\ pc = "assemble" /\ pc' = "evaluate"
      /\ UNCHANGED <<macro, args, i, found, text, waiting, ran, thrown>>
  BY DEF Assembled
<1>2. Typed'
  BY <1>1 DEF Inv, Typed
<1>3. QED BY <1>1, <1>2 DEF Inv

LEMMA AfterEval == ASSUME Inv, NEW t \in Texts, Eval(t) PROVE Inv'
<1>1. /\ pc = "idle" /\ pc' = "evaluate" /\ text' = t /\ thrown' = FALSE
      /\ UNCHANGED <<macro, args, i, found, waiting, ran>>
  BY DEF Eval
<1>2. t \in Text
  BY MacrosAssumption
<1>3. Typed'
  BY <1>1, <1>2 DEF Inv, Typed
<1>4. QED BY <1>1, <1>3 DEF Inv

LEMMA AfterEvaluate == ASSUME Inv, Evaluate PROVE Inv'
<1>1. macro' = macro /\ macro \in [params : Seq(Text), body : Text] /\ pc = "evaluate" /\ text \in Text
  BY DEF Evaluate, Inv, Typed
<1>2. CASE Evaluated(text).bad
  <2>1. Leave(TRUE)
    BY <1>2 DEF Evaluate
  <2>2. QED BY <1>1, <2>1, LeaveIs
<1>3. CASE ~ Evaluated(text).bad
  <2> DEFINE c == Evaluated(text).caught
  <2>1. pc' = "run" /\ waiting' = c /\ UNCHANGED <<args, i, found, text, ran, thrown>>
    BY <1>3 DEF Evaluate
  <2>2. ran = << >> /\ ran' = << >>
    BY <1>1, <2>1 DEF Inv
  <2>3. c \in Seq(Cells)
    BY <1>1, EvaluatedIs
  <2>4. Evaluated(text)' = Evaluated(text)
    BY <2>1
  <2> HIDE DEF c
  <2>5. << >> \in Seq(Cells) /\ << >> \o c = c /\ c \o << >> = c
    BY <2>3, ConcatEmptySeq, EmptySeq
  <2> DEFINE none == << >>
  <2>6. none \in Seq(Cells) /\ none \o c = c /\ c \o none = c /\ ran' = none
    BY <2>2, <2>5
  <2> HIDE DEF none
  <2>7. ran' \in Seq(Cells) /\ waiting' \in Seq(Cells) /\ ran' \o waiting' \o none = c
    <3>1. ran' \o waiting' = c
      BY <2>1, <2>6
    <3>2. QED BY <2>1, <2>3, <2>6, <3>1
  <2>8. Evaluated(text').caught = c /\ ~ Evaluated(text').bad
    BY <1>3, <2>1 DEF c
  <2>9. Running'
    BY <2>6, <2>7, <2>8 DEF Running
  <2>10. Typed'
    BY <1>1, <2>1 DEF Inv, Typed
  <2>11. QED BY <2>1, <2>9, <2>10 DEF Inv
<1>4. QED BY <1>2, <1>3

\* Three sequences, one after the other.
LEMMA ThreeJoined ==
  ASSUME NEW S, NEW a \in Seq(S), NEW b \in Seq(S), NEW c \in Seq(S)
  PROVE  b \o c \in Seq(S) /\ a \o (b \o c) = a \o b \o c
<1>1. b \o c \in Seq(S)
  BY ConcatProperties
<1>2. (a \o b) \o c = a \o (b \o c)
  BY ConcatAssociative
<1>3. QED BY <1>1, <1>2

\* The first of what waits goes behind what was executed; the others wait, or
\* are given up.
WithFirst(r, w) == Append(r, Head(w))
Others(w) == Tail(w)
GivenUp == << >>

Moves(r, w, z) ==
  /\ WithFirst(r, w) \in Seq(Cells) /\ Others(w) \in Seq(Cells) /\ GivenUp \in Seq(Cells)
  /\ Others(w) \o z \in Seq(Cells)
  /\ WithFirst(r, w) \o Others(w) \o z = r \o w \o z
  /\ WithFirst(r, w) \o GivenUp \o (Others(w) \o z) = r \o w \o z

LEMMA FirstMoves ==
  ASSUME NEW r \in Seq(Cells), NEW w \in Seq(Cells), NEW z \in Seq(Cells), w # << >>
  PROVE  Moves(r, w, z)
<1> DEFINE h == Head(w)
           u == Others(w)
           a == WithFirst(r, w)
           none == GivenUp
<1>1. /\ h \in Cells /\ u \in Seq(Cells) /\ Len(u) = Len(w) - 1 /\ Len(w) \in Nat
      /\ \A k \in 1 .. Len(u) : u[k] = w[k + 1]
  BY HeadTailProperties, LenProperties DEF Others
<1>2. h = w[1]
  OBVIOUS
<1>3. Len(w) \in Nat \ {0}
  BY EmptySeq
<1> HIDE DEF h, u, a
<1>4. /\ a \in Seq(Cells) /\ Len(a) = Len(r) + 1 /\ Len(r) \in Nat
      /\ (\A k \in 1 .. Len(r) : a[k] = r[k]) /\ a[Len(r) + 1] = h
  <2>1. a = Append(r, h)
    BY DEF a, h, WithFirst
  <2>2. QED BY <1>1, <2>1, AppendProperties, LenProperties
<1>5. /\ a \o u \in Seq(Cells) /\ Len(a \o u) = Len(a) + Len(u)
      /\ \A k \in 1 .. Len(a) + Len(u) : (a \o u)[k] = IF k <= Len(a) THEN a[k] ELSE u[k - Len(a)]
  BY <1>1, <1>4, ConcatProperties
<1>6. /\ r \o w \in Seq(Cells) /\ Len(r \o w) = Len(r) + Len(w)
      /\ \A k \in 1 .. Len(r) + Len(w) : (r \o w)[k] = IF k <= Len(r) THEN r[k] ELSE w[k - Len(r)]
  BY ConcatProperties
<1>7. Len(a \o u) = Len(r \o w)
  BY <1>1, <1>3, <1>4, <1>5, <1>6
<1>8. ASSUME NEW k \in 1 .. Len(a \o u) PROVE (a \o u)[k] = (r \o w)[k]
  <2>1. k \in 1 .. Len(r) + Len(w) /\ k \in 1 .. Len(a) + Len(u) /\ k \in Int
    BY <1>1, <1>3, <1>4, <1>5, <1>6, <1>7
  <2>2. CASE k <= Len(r)
    <3>1. k \in 1 .. Len(r) /\ k <= Len(a)
      BY <1>4, <2>1, <2>2
    <3>2. QED BY <1>4, <1>5, <1>6, <2>1, <2>2, <3>1
  <2>3. CASE k = Len(r) + 1
    <3>1. k <= Len(a) /\ ~ (k <= Len(r)) /\ k - Len(r) = 1
      BY <1>4, <2>1, <2>3
    <3>2. (a \o u)[k] = a[k] /\ (r \o w)[k] = w[1]
      BY <1>5, <1>6, <2>1, <3>1
    <3>3. QED BY <1>2, <1>4, <2>3, <3>2
  <2>4. CASE k > Len(r) + 1
    <3>1. /\ ~ (k <= Len(a)) /\ ~ (k <= Len(r)) /\ k - Len(a) \in 1 .. Len(u)
          /\ (k - Len(a)) + 1 = k - Len(r)
      BY <1>1, <1>3, <1>4, <2>1, <2>4
    <3>2. (a \o u)[k] = u[k - Len(a)] /\ (r \o w)[k] = w[k - Len(r)]
      BY <1>5, <1>6, <2>1, <3>1
    <3>3. u[k - Len(a)] = w[(k - Len(a)) + 1]
      BY <1>1, <3>1
    <3>4. QED BY <3>1, <3>2, <3>3
  <2>5. QED BY <1>4, <2>1, <2>2, <2>3, <2>4
<1>9. a \o u = r \o w
  <2> DEFINE x == a \o u
             y == r \o w
  <2>1. x \in Seq(Cells) /\ y \in Seq(Cells) /\ Len(x) = Len(y) /\ \A k \in 1 .. Len(x) : x[k] = y[k]
    BY <1>5, <1>6, <1>7, <1>8
  <2> HIDE DEF x, y
  <2>2. x = y
    BY <2>1, SeqEqual
  <2>3. QED BY <2>2 DEF x, y
<1>10. u \o z \in Seq(Cells) /\ a \o (u \o z) = a \o u \o z
  <2>1. a \in Seq(Cells) /\ u \in Seq(Cells) /\ z \in Seq(Cells)
    BY <1>1, <1>4
  <2>2. u \o z \in Seq(Cells)
    BY <2>1, ConcatProperties
  <2>3. (a \o u) \o z = a \o (u \o z)
    BY <2>1, ConcatAssociative
  <2>4. QED BY <2>2, <2>3
<1>11. none \in Seq(Cells) /\ a \o none = a
  BY <1>4, ConcatEmptySeq, EmptySeq DEF GivenUp
<1> HIDE DEF none
<1>12. a \o none \o (u \o z) = r \o w \o z
  <2> DEFINE uz == u \o z
  <2>1. a \o uz = r \o w \o z
    BY <1>9, <1>10
  <2> HIDE DEF uz
  <2>2. a \o none \o uz = r \o w \o z
    BY <1>11, <2>1
  <2>3. QED BY <2>2 DEF uz
<1>13. a \o u \o z = r \o w \o z
  BY <1>9
<1>14. QED BY <1>1, <1>4, <1>10, <1>11, <1>12, <1>13 DEF a, u, none, Moves

LEMMA AfterExecute == ASSUME Inv, Execute PROVE Inv'
<1>1. /\ pc = "run" /\ waiting # << >>
      /\ ran' = Append(ran, Head(waiting)) /\ waiting' \in {Tail(waiting), << >>}
      /\ UNCHANGED <<pc, macro, args, i, found, text, thrown>>
  BY DEF Execute
<1>2. PICK rest \in Seq(Cells) :
        /\ ran \in Seq(Cells) /\ waiting \in Seq(Cells)
        /\ ran \o waiting \o rest = Evaluated(text).caught /\ ~ Evaluated(text).bad
  BY <1>1 DEF Inv, Running
<1> DEFINE left == Others(waiting)
           none == GivenUp
           now == WithFirst(ran, waiting)
           all == left \o rest
           c == Evaluated(text).caught
<1>4. ran' = now /\ waiting' \in {left, none}
  BY <1>1 DEF WithFirst, Others, GivenUp
<1>5. ran \o waiting \o rest = c
  BY <1>2
<1>6. /\ now \in Seq(Cells) /\ left \in Seq(Cells) /\ none \in Seq(Cells) /\ all \in Seq(Cells)
      /\ now \o left \o rest = c
      /\ now \o none \o all = c
  <2>1. ran \in Seq(Cells) /\ waiting \in Seq(Cells) /\ rest \in Seq(Cells) /\ waiting # << >>
    BY <1>1, <1>2
  <2> HIDE DEF c
  <2>2. Moves(ran, waiting, rest)
    BY <2>1, FirstMoves
  <2>3. QED BY <1>5, <2>2 DEF Moves
<1> HIDE DEF c, left, none, now, all
<1>7. Evaluated(text').caught = c /\ ~ Evaluated(text').bad /\ ran' = now
  BY <1>1, <1>2, <1>4 DEF c
<1>8. Running'
  <2>1. CASE waiting' = left
    <3>1. ran' \in Seq(Cells) /\ waiting' \in Seq(Cells) /\ ran' \o waiting' \o rest = c
      BY <1>5, <1>6, <1>7, <2>1
    <3>2. QED BY <1>2, <1>7, <3>1 DEF Running
  <2>2. CASE waiting' = none
    <3>1. ran' \in Seq(Cells) /\ waiting' \in Seq(Cells) /\ ran' \o waiting' \o all = c
      BY <1>5, <1>6, <1>7, <2>2
    <3>2. QED BY <1>6, <1>7, <3>1 DEF Running
  <2>3. QED BY <1>4, <2>1, <2>2
<1>9. Typed'
  BY <1>1 DEF Inv, Typed
<1>10. QED BY <1>1, <1>8, <1>9 DEF Inv

LEMMA AfterReturn == ASSUME Inv, Return PROVE Inv'
<1>1. macro' = macro /\ macro \in [params : Seq(Text), body : Text] /\ (Leave(FALSE) \/ Leave(TRUE))
  BY DEF Return, Inv, Typed
<1>2. macro' \in [params : Seq(Text), body : Text]
  BY <1>1
<1>3. CASE Leave(FALSE)
  BY <1>2, <1>3, LeaveIs
<1>4. CASE Leave(TRUE)
  BY <1>2, <1>4, LeaveIs
<1>5. QED BY <1>1, <1>3, <1>4

\* It holds at first, and every step keeps it.
LEMMA InitInv == ASSUME Init PROVE Inv
<1>1. /\ pc = "idle" /\ macro = NoMacro /\ args = << >> /\ i = 1 /\ found = 0
      /\ text = << >> /\ ran = << >> /\ thrown = FALSE
  BY DEF Init
<1>2. << >> \in Text /\ << >> \in Seq(Text) /\ << >> \in Seq(Arguments)
  BY EmptySeq DEF Text
<1>3. macro \in [params : Seq(Text), body : Text]
  BY <1>1, <1>2 DEF NoMacro
<1>4. args \in Seq(Arguments) /\ text \in Text
  <2>1. args \in Seq(Arguments)
    BY <1>1, <1>2
  <2>2. text \in Text
    BY <1>1, <1>2
  <2>3. QED BY <2>1, <2>2
<1>5. i \in Nat \ {0} /\ found \in Nat
  <2>1. 1 \in Nat \ {0} /\ 0 \in Nat
    OBVIOUS
  <2>2. QED BY <1>1, <2>1
<1>6. Typed
  BY <1>1, <1>3, <1>4, <1>5 DEF Typed
<1>7. QED BY <1>1, <1>6 DEF Inv

LEMMA StepInv == ASSUME Inv, [Next]_vars PROVE Inv'
<1>1. ASSUME NEW m \in MacrosDefined, Define(m) PROVE Inv'
  BY <1>1, AfterDefine
<1>2. ASSUME NEW n \in {Len(macro.params) - 1, Len(macro.params)}, NEW as \in [1 .. n -> Arguments], Call(as)
      PROVE  Inv'
  BY <1>2, AfterCall
<1>3. CASE Assemble
  BY <1>3, AfterSkip, AfterReplace, AfterParam, AfterAssembled DEF Assemble
<1>4. ASSUME NEW t \in Texts, Eval(t) PROVE Inv'
  BY <1>4, AfterEval
<1>5. CASE Evaluate
  BY <1>5, AfterEvaluate
<1>6. CASE Execute
  BY <1>6, AfterExecute
<1>7. CASE Return
  BY <1>7, AfterReturn
<1>8. CASE UNCHANGED vars
  BY <1>8 DEF vars, Inv, Typed, Assembling, Running
<1>9. QED BY <1>1, <1>2, <1>3, <1>4, <1>5, <1>6, <1>7, <1>8 DEF Next

\* What a sequence begins with.
LEMMA PrefixOfConcat ==
  ASSUME NEW S, NEW a \in Seq(S), NEW b \in Seq(S) PROVE SX!IsPrefix(a, a \o b)
<1> DEFINE all == a \o b
<1>1. all \in Seq(S) /\ Len(all) = Len(a) + Len(b) /\ Len(a) \in Nat /\ Len(b) \in Nat
  BY ConcatProperties, LenProperties
<1>2. SubSeq(a, 1, Len(a)) = a
  BY SubSeqFull
<1>3. SubSeq(all, 1, Len(a)) = a
  <2>1. CASE Len(a) = 0
    <3>1. a = << >>
      BY <2>1, EmptySeq
    <3>2. SubSeq(all, 1, 0) = << >>
      BY SubSeqEmpty
    <3>3. QED BY <2>1, <3>1, <3>2
  <2>2. CASE Len(a) # 0
    <3>1. Len(a) \in 1 .. Len(a) /\ 1 \in 1 .. Len(a)
      BY <1>1, <2>2
    <3>2. SubSeq(all, 1, Len(a)) = SubSeq(a, 1, Len(a))
      BY <3>1, SubSeqOfConcat1
    <3>3. QED BY <1>2, <3>2
  <2>3. QED BY <2>1, <2>2
<1> HIDE DEF all
<1>4. SX!IsPrefix(a, all)
  BY <1>1, <1>2, <1>3 DEF SX!IsPrefix
<1>5. QED BY <1>4 DEF all

\* What follows from it.
LEMMA InvTyped == ASSUME Inv PROVE TypeOK
BY DEF Inv, Typed, Assembling, TypeOK

\* What is executed of a text that is evaluated.
LEMMA InvWhole == ASSUME Inv PROVE AllOrNothing
<1>1. SUFFICES ASSUME ran # << >> PROVE AllOrNothing
  BY DEF AllOrNothing
<1>2. pc = "run" /\ text \in Text
  BY <1>1 DEF Inv, Typed
<1>3. PICK rest \in Seq(Cells) :
        /\ ran \in Seq(Cells) /\ waiting \in Seq(Cells)
        /\ ran \o waiting \o rest = Evaluated(text).caught /\ ~ Evaluated(text).bad
  BY <1>2 DEF Inv, Running
<1> DEFINE c == Evaluated(text).caught
           left == waiting \o rest
           T == Tokens \union {"null"}
<1>4. EachOne(c) /\ Program(Lexed(text)) /\ Flat(c) = Lexed(text)
  BY <1>2, <1>3, EvaluatedIs
<1>5. left \in Seq(Cells) /\ ran \o left = c
  <2>1. ran \in Seq(Cells) /\ waiting \in Seq(Cells) /\ rest \in Seq(Cells) /\ ran \o waiting \o rest = c
    BY <1>3
  <2> HIDE DEF c
  <2>2. \A x \in Seq(Cells) : \A y \in Seq(Cells) : \A z \in Seq(Cells) :
          y \o z \in Seq(Cells) /\ x \o (y \o z) = x \o y \o z
    BY ThreeJoined
  <2>3. QED BY <2>1, <2>2, Zenon
<1> HIDE DEF c, left
<1>6. /\ SX!FlattenSeq(ran) \in Seq(T) /\ SX!FlattenSeq(left) \in Seq(T)
      /\ SX!FlattenSeq(ran \o left) = SX!FlattenSeq(ran) \o SX!FlattenSeq(left)
  <2>1. ran \in Seq(Seq(T)) /\ left \in Seq(Seq(T))
    BY <1>3, <1>5 DEF Cells
  <2> HIDE DEF T
  <2>2. QED BY <2>1, FlattenConcat
<1>7. SX!IsPrefix(SX!FlattenSeq(ran), Lexed(text))
  <2> DEFINE a == SX!FlattenSeq(ran)
             b == SX!FlattenSeq(left)
  <2>1. a \in Seq(T) /\ b \in Seq(T) /\ a \o b = Lexed(text)
    BY <1>4, <1>5, <1>6 DEF Flat
  <2> HIDE DEF a, b, T
  <2>2. SX!IsPrefix(a, a \o b)
    BY <2>1, PrefixOfConcat
  <2>3. QED BY <2>1, <2>2 DEF a
<1>8. ASSUME NEW k \in DOMAIN ran PROVE k \in DOMAIN c /\ c[k] = ran[k]
  <2>1. /\ Len(ran) \in Nat /\ DOMAIN ran = 1 .. Len(ran) /\ Len(left) \in Nat
        /\ DOMAIN (ran \o left) = 1 .. Len(ran) + Len(left)
        /\ \A n \in 1 .. Len(ran) + Len(left) : (ran \o left)[n] = IF n <= Len(ran) THEN ran[n] ELSE left[n - Len(ran)]
    BY <1>3, <1>5, LenProperties, ConcatProperties
  <2>2. k \in 1 .. Len(ran) + Len(left) /\ k <= Len(ran)
    BY <2>1
  <2>3. QED BY <1>5, <2>1, <2>2
<1>9. \A k \in DOMAIN ran : Program(ran[k]) /\ \A n \in 1 .. Len(ran[k]) - 1 : ~ Program(SubSeq(ran[k], 1, n))
  BY <1>4, <1>8 DEF EachOne
<1>10. QED BY <1>4, <1>7, <1>9 DEF AllOrNothing

\* Whatever macros are defined and however they are called (common.cpp): every
\* variable keeps its type, a call that is assembled has an argument for each
\* parameter, and what is replaced is a marker of it.
THEOREM MacrosTyped == Spec => []TypeOK
<1>1. Init => Inv
  BY InitInv
<1>2. Inv /\ [Next]_vars => Inv'
  BY StepInv
<1>3. Inv => TypeOK
  BY InvTyped
<1>4. QED BY <1>1, <1>2, <1>3, PTL DEF Spec

\* Whatever text is given to `eval' or assembled by a macro (common.cpp, with the
\* lexer of intake.cpp and the parser): nothing of it is executed unless all of
\* it is a program, and then complete instructions are, in the order written.
THEOREM EvalAllOrNothing == Spec => []AllOrNothing
<1>1. Init => Inv
  BY InitInv
<1>2. Inv /\ [Next]_vars => Inv'
  BY StepInv
<1>3. Inv => AllOrNothing
  BY InvWhole
<1>4. QED BY <1>1, <1>2, <1>3, PTL DEF Spec
=============================================================================
