---------------------------- MODULE Foundations ----------------------------
(***************************************************************************)
(* What the proofs about more than one component rest on.                  *)
(*                                                                         *)
(*   1. Induction and recursion on the natural numbers, about sets and     *)
(*      functions in the place of predicates and operators: for what the   *)
(*      modules define by recursive functions.                             *)
(*   2. Counting in sequences.                                             *)
(*   3. The language of the parser: what is open after each token.         *)
(*   4. The parser: what it accepts are programs, and it accepts them all. *)
(*   5. What becomes of tokens that wait until no parenthesis is open, in  *)
(*      a line that is read as in a text that is evaluated.                *)
(***************************************************************************)
EXTENDS Parser, FiniteSetTheorems, SequenceTheorems, WellFoundedInduction, TLAPS

(***************************************************************************)
(* Induction and recursion.                                                *)
(***************************************************************************)

\* A set of numbers that has any has a least.
LEMMA LeastIn == ASSUME NEW S, S \subseteq Nat, S # {} PROVE \E i \in S : \A j \in S : i <= j
<1>1. PICK i \in S : \A j \in S : ~ (<<j, i>> \in OpToRel(<, Nat))
  BY NatLessThanWellFounded, WFMin
<1>2. \A j \in S : ~ (j < i)
  BY <1>1 DEF OpToRel
<1>3. QED BY <1>2

\* A set that has 0, and with each number the next, has all.
LEMMA Induction ==
  ASSUME NEW S, 0 \in S, \A n \in Nat : n \in S => n + 1 \in S
  PROVE  \A n \in Nat : n \in S
<1> DEFINE Bad == {n \in Nat : n \notin S}
<1>1. Bad \subseteq Nat
  OBVIOUS
<1>2. ASSUME Bad # {} PROVE FALSE
  <2>1. PICK m \in Bad : \A j \in Bad : m <= j
    <3> HIDE DEF Bad
    <3>1. QED BY <1>1, <1>2, LeastIn
  <2>2. m \in Nat \ {0}
    BY <2>1
  <2>3. m - 1 \in Nat /\ m - 1 \notin Bad
    BY <2>1, <2>2
  <2>4. m - 1 \in S /\ m - 1 + 1 = m
    BY <2>2, <2>3
  <2>5. m \in S
    BY <2>3, <2>4
  <2>6. QED BY <2>1, <2>5
<1>3. QED BY <1>2

\* f is what e and the steps F give up to n.
Approx(S, e, F, f, n) ==
  f \in [0 .. n -> S] /\ f[0] = e /\ \A k \in 1 .. n : f[k] = F[<<k, f[k - 1]>>]

LEMMA ApproxExists ==
  ASSUME NEW S, NEW e \in S, NEW F \in [Nat \X S -> S], NEW n \in Nat
  PROVE  \E f : Approx(S, e, F, f, n)
<1> DEFINE Bad == {m \in Nat : ~ \E f : Approx(S, e, F, f, m)}
<1>1. Bad \subseteq Nat /\ \A m \in Nat : m \notin Bad => \E f : Approx(S, e, F, f, m)
  OBVIOUS
<1>2. ASSUME Bad # {} PROVE FALSE
  <2>1. PICK m \in Bad : \A j \in Bad : m <= j
    <3> HIDE DEF Bad
    <3>1. QED BY <1>1, <1>2, LeastIn
  <2>2. m \in Nat
    BY <2>1
  <2>3. CASE m = 0
    <3> DEFINE f == [i \in 0 .. 0 |-> e]
    <3>1. f \in [0 .. 0 -> S] /\ f[0] = e /\ 1 .. 0 = {}
      OBVIOUS
    <3>2. Approx(S, e, F, f, 0)
      BY <3>1 DEF Approx
    <3>3. QED BY <2>1, <2>3, <3>2
  <2>4. CASE m # 0
    <3>1. m - 1 \in Nat /\ m - 1 \notin Bad
      BY <2>1, <2>2, <2>4
    <3>2. PICK g : Approx(S, e, F, g, m - 1)
      BY <1>1, <3>1
    <3>3. g \in [0 .. m - 1 -> S] /\ g[0] = e /\ \A k \in 1 .. m - 1 : g[k] = F[<<k, g[k - 1]>>]
      BY <3>2 DEF Approx
    <3> DEFINE f == [i \in 0 .. m |-> IF i = m THEN F[<<m, g[m - 1]>>] ELSE g[i]]
    <3>4. g[m - 1] \in S
      BY <2>2, <2>4, <3>3
    <3>5. F[<<m, g[m - 1]>>] \in S
      BY <2>2, <3>4
    <3>6. f \in [0 .. m -> S]
      BY <2>2, <3>3, <3>5
    <3>7. f[0] = e /\ f[m] = F[<<m, g[m - 1]>>] /\ \A i \in 0 .. m - 1 : f[i] = g[i]
      BY <2>2, <2>4, <3>3
    <3> HIDE DEF f
    <3>8. ASSUME NEW k \in 1 .. m PROVE f[k] = F[<<k, f[k - 1]>>]
      <4>1. f[k - 1] = g[k - 1]
        BY <2>2, <3>7
      <4>2. CASE k = m
        BY <3>7, <4>1, <4>2
      <4>3. CASE k # m
        <5>1. k \in 1 .. m - 1 /\ k \in 0 .. m - 1
          BY <2>2, <4>3
        <5>2. QED BY <3>3, <3>7, <4>1, <5>1
      <4>4. QED BY <4>2, <4>3
    <3>9. Approx(S, e, F, f, m)
      BY <3>6, <3>7, <3>8 DEF Approx
    <3>10. QED BY <2>1, <3>9
  <2>5. QED BY <2>3, <2>4
<1>3. QED BY <1>1, <1>2

LEMMA ApproxAgree ==
  ASSUME NEW S, NEW e, NEW F, NEW n \in Nat, NEW m \in Nat, NEW f, NEW g,
         Approx(S, e, F, f, n), Approx(S, e, F, g, m), NEW k \in Nat, k <= n, k <= m
  PROVE  f[k] = g[k]
<1> DEFINE Bad == {i \in Nat : i <= n /\ i <= m /\ f[i] # g[i]}
<1>1. /\ f[0] = e /\ \A i \in 1 .. n : f[i] = F[<<i, f[i - 1]>>]
      /\ g[0] = e /\ \A i \in 1 .. m : g[i] = F[<<i, g[i - 1]>>]
  BY DEF Approx
<1>2. ASSUME Bad # {} PROVE FALSE
  <2>1. Bad \subseteq Nat
    OBVIOUS
  <2>2. PICK i \in Bad : \A j \in Bad : i <= j
    <3> HIDE DEF Bad
    <3>1. QED BY <1>2, <2>1, LeastIn
  <2>3. i \in Nat /\ i # 0 /\ i <= n /\ i <= m /\ f[i] # g[i]
    BY <1>1, <2>2
  <2>4. i - 1 \in Nat /\ i - 1 \notin Bad /\ i - 1 <= n /\ i - 1 <= m
    BY <2>2, <2>3
  <2>5. f[i - 1] = g[i - 1]
    BY <2>4
  <2>6. i \in 1 .. n /\ i \in 1 .. m
    BY <2>3
  <2>7. QED BY <1>1, <2>3, <2>5, <2>6
<1>3. QED BY <1>2

\* f is what e and the steps F give.
Follows(f, e, F) == f[0] = e /\ \A n \in Nat \ {0} : f[n] = F[<<n, f[n - 1]>>]

\* What is defined at 0 and, at every other number, from the one before, exists.
LEMMA Recursion ==
  ASSUME NEW S, NEW e \in S, NEW F \in [Nat \X S -> S]
  PROVE  \E f \in [Nat -> S] : Follows(f, e, F)
<1> DEFINE A(n) == CHOOSE f : Approx(S, e, F, f, n)
           h == [n \in Nat |-> A(n)[n]]
<1>1. ASSUME NEW n \in Nat PROVE Approx(S, e, F, A(n), n)
  <2>1. \E f : Approx(S, e, F, f, n)
    BY ApproxExists
  <2>2. QED BY <2>1
<1> HIDE DEF A
<1>2. ASSUME NEW n \in Nat PROVE A(n)[n] \in S
  <2>1. A(n) \in [0 .. n -> S]
    BY <1>1 DEF Approx
  <2>2. QED BY <2>1
<1>3. h \in [Nat -> S]
  BY <1>2
<1>4. h[0] = e
  <2>1. A(0)[0] = e
    BY <1>1 DEF Approx
  <2>2. QED BY <2>1
<1>5. ASSUME NEW n \in Nat \ {0} PROVE h[n] = F[<<n, h[n - 1]>>]
  <2>1. n - 1 \in Nat /\ n \in 1 .. n /\ n - 1 <= n /\ n - 1 <= n - 1 /\ n \in Nat
    OBVIOUS
  <2>2. A(n)[n] = F[<<n, A(n)[n - 1]>>]
    BY <1>1, <2>1 DEF Approx
  <2>3. A(n)[n - 1] = A(n - 1)[n - 1]
    <3>1. Approx(S, e, F, A(n), n) /\ Approx(S, e, F, A(n - 1), n - 1)
      BY <1>1, <2>1
    <3>2. QED BY <2>1, <3>1, ApproxAgree
  <2>4. h[n] = A(n)[n] /\ h[n - 1] = A(n - 1)[n - 1]
    BY <2>1
  <2>5. QED BY <2>2, <2>3, <2>4
<1> HIDE DEF h
<1>6. QED BY <1>3, <1>4, <1>5 DEF Follows

(***************************************************************************)
(* Counting.                                                               *)
(***************************************************************************)

\* In an empty text an item is not found.
LEMMA CountEmpty == ASSUME NEW x PROVE Count(x, << >>) = 0
<1>1. {i \in DOMAIN << >> : << >>[i] = x} = {}
  OBVIOUS
<1>2. QED BY <1>1, FS_EmptySet DEF Count

\* How often an item is found is a number.
LEMMA CountNat == ASSUME NEW S, NEW s \in Seq(S), NEW x PROVE Count(x, s) \in Nat
<1>1. {i \in DOMAIN s : s[i] = x} \in SUBSET (1 .. Len(s)) /\ Len(s) \in Nat
  BY LenProperties
<1>2. IsFiniteSet({i \in DOMAIN s : s[i] = x})
  BY <1>1, FS_Interval, FS_Subset
<1>3. QED BY <1>2, FS_CardinalityType DEF Count

\* An item more is found once more if it is the one that is counted.
LEMMA CountAppend ==
  ASSUME NEW S, NEW s \in Seq(S), NEW e \in S, NEW x
  PROVE  Count(x, Append(s, e)) = Count(x, s) + (IF e = x THEN 1 ELSE 0)
<1> DEFINE A == {i \in DOMAIN s : s[i] = x}
           n == Len(s) + 1
           B == {i \in DOMAIN Append(s, e) : Append(s, e)[i] = x}
<1>1. A \in SUBSET (1 .. Len(s)) /\ Len(s) \in Nat /\ DOMAIN s = 1 .. Len(s)
  BY LenProperties
<1>2. IsFiniteSet(A) /\ n \notin A
  <2>1. IsFiniteSet(1 .. Len(s))
    BY <1>1, FS_Interval
  <2>2. n \notin 1 .. Len(s)
    BY <1>1
  <2> HIDE DEF A, n
  <2>3. QED BY <1>1, <2>1, <2>2, FS_Subset
<1>3. /\ DOMAIN Append(s, e) = (1 .. Len(s)) \union {n}
      /\ \A i \in 1 .. Len(s) : Append(s, e)[i] = s[i]
      /\ Append(s, e)[n] = e
  <2>1. Append(s, e) \in Seq(S) /\ Len(Append(s, e)) = Len(s) + 1
    BY AppendProperties
  <2>2. DOMAIN Append(s, e) = 1 .. Len(s) + 1
    BY <2>1, LenProperties
  <2>3. 1 .. Len(s) + 1 = (1 .. Len(s)) \union {n}
    BY <1>1
  <2>4. QED BY <2>2, <2>3, AppendProperties
<1>4. CASE e = x
  <2>1. B = A \union {n}
    BY <1>1, <1>3, <1>4
  <2>2. Cardinality(B) = Cardinality(A) + 1
    <3> HIDE DEF A, B, n
    <3>1. QED BY <1>2, <2>1, FS_AddElement
  <2>3. QED BY <1>4, <2>2 DEF Count
<1>5. CASE e # x
  <2>1. B = A
    BY <1>1, <1>3, <1>5
  <2>2. Cardinality(A) \in Nat
    BY <1>2, FS_CardinalityType
  <2>3. Cardinality(B) = Cardinality(A) + 0
    <3> HIDE DEF A, B, n
    <3>1. QED BY <2>1, <2>2
  <2>4. QED BY <1>5, <2>3 DEF Count
<1>6. QED BY <1>4, <1>5

\* A sequence that is not empty is its front and its last element.
LEMMA FrontAndLast ==
  ASSUME NEW S, NEW s \in Seq(S), NEW n \in 1 .. Len(s)
  PROVE  /\ SubSeq(s, 1, n - 1) \in Seq(S) /\ s[n] \in S
         /\ SubSeq(s, 1, n) = Append(SubSeq(s, 1, n - 1), s[n])
         /\ Len(SubSeq(s, 1, n - 1)) = n - 1
<1>1. Len(s) \in Nat /\ n \in Nat /\ \A i \in 1 .. Len(s) : s[i] \in S
  BY LenProperties, ElementOfSeq
<1>2. /\ SubSeq(s, 1, n - 1) \in Seq(S) /\ Len(SubSeq(s, 1, n - 1)) = n - 1
      /\ \A i \in 1 .. n - 1 : SubSeq(s, 1, n - 1)[i] = s[i]
  BY <1>1, SubSeqProperties
<1>3. /\ SubSeq(s, 1, n) \in Seq(S) /\ Len(SubSeq(s, 1, n)) = n
      /\ \A i \in 1 .. n : SubSeq(s, 1, n)[i] = s[i]
  BY <1>1, SubSeqProperties
<1> DEFINE u == SubSeq(s, 1, n - 1)
           v == SubSeq(s, 1, n)
<1>4. Append(u, s[n]) \in Seq(S) /\ Len(Append(u, s[n])) = n
      /\ \A i \in 1 .. n : Append(u, s[n])[i] = s[i]
  <2>1. /\ Append(u, s[n]) \in Seq(S) /\ Len(Append(u, s[n])) = Len(u) + 1
        /\ \A i \in 1 .. Len(u) : Append(u, s[n])[i] = u[i]
        /\ Append(u, s[n])[Len(u) + 1] = s[n]
    BY <1>1, <1>2, AppendProperties
  <2> HIDE DEF u
  <2>2. Len(u) = n - 1 /\ \A i \in 1 .. n - 1 : u[i] = s[i]
    BY <1>2 DEF u
  <2>3. ASSUME NEW i \in 1 .. n PROVE Append(u, s[n])[i] = s[i]
    <3>1. CASE i = n
      BY <1>1, <2>1, <2>2, <3>1
    <3>2. CASE i # n
      <4>1. i \in 1 .. n - 1
        BY <1>1, <3>2
      <4>2. QED BY <2>1, <2>2, <4>1
    <3>3. QED BY <3>1, <3>2
  <2>4. QED BY <1>1, <2>1, <2>2, <2>3
<1>5. v = Append(u, s[n])
  <2> HIDE DEF u, v
  <2>1. v \in Seq(S) /\ Len(v) = n /\ \A i \in 1 .. n : v[i] = s[i]
    BY <1>3 DEF v
  <2>2. QED BY <1>4, <2>1, SeqEqual
<1>6. QED BY <1>1, <1>2, <1>5

\* An element is appended to the end of what comes last.
LEMMA ConcatAppend ==
  ASSUME NEW S, NEW q \in Seq(S), NEW u \in Seq(S), NEW e \in S
  PROVE  q \o u \in Seq(S) /\ q \o Append(u, e) = Append(q \o u, e)
<1>1. <<e>> \in Seq(S) /\ q \o u \in Seq(S)
  BY ConcatProperties
<1>2. Append(u, e) = u \o <<e>>
  BY AppendIsConcat
<1>3. Append(q \o u, e) = (q \o u) \o <<e>>
  BY <1>1, AppendIsConcat
<1>4. (q \o u) \o <<e>> = q \o (u \o <<e>>)
  BY <1>1, ConcatAssociative
<1>5. QED BY <1>1, <1>2, <1>3, <1>4

\* In two texts one after the other an item is found as often as in both.
LEMMA CountConcat ==
  ASSUME NEW S, NEW s \in Seq(S), NEW t \in Seq(S), NEW x
  PROVE  Count(x, s \o t) = Count(x, s) + Count(x, t)
<1> DEFINE u(n) == SubSeq(t, 1, n)
           Good == {n \in Nat : n <= Len(t) => Count(x, s \o u(n)) = Count(x, s) + Count(x, u(n))}
<1>1. Len(t) \in Nat /\ Count(x, s) \in Nat
  BY LenProperties, CountNat
<1>2. 0 \in Good
  <2>1. u(0) = << >>
    BY SubSeqEmpty
  <2>2. s \o << >> = s
    BY ConcatEmptySeq
  <2>3. Count(x, s \o << >>) = Count(x, s) + Count(x, << >>)
    BY <1>1, <2>2, CountEmpty
  <2>4. QED BY <2>1, <2>3
<1>3. ASSUME NEW n \in Nat, n \in Good PROVE n + 1 \in Good
  <2>1. SUFFICES ASSUME n + 1 <= Len(t)
                 PROVE  Count(x, s \o u(n + 1)) = Count(x, s) + Count(x, u(n + 1))
    OBVIOUS
  <2>2. n + 1 \in 1 .. Len(t) /\ (n + 1) - 1 = n
    BY <1>1, <2>1
  <2>3. u(n) \in Seq(S) /\ t[n + 1] \in S /\ u(n + 1) = Append(u(n), t[n + 1])
    BY <2>2, FrontAndLast
  <2> DEFINE e == t[n + 1]
             un == u(n)
             un1 == u(n + 1)
  <2>4. Count(x, s \o un) = Count(x, s) + Count(x, un)
    BY <1>1, <1>3, <2>1
  <2> HIDE DEF e, un, un1
  <2>5. un \in Seq(S) /\ e \in S /\ un1 = Append(un, e)
    BY <2>3 DEF e, un, un1
  <2>6. s \o un1 = Append(s \o un, e)
    BY <2>5, ConcatAppend
  <2>7. Count(x, s \o un1) = Count(x, s \o un) + (IF e = x THEN 1 ELSE 0)
    <3>1. s \o un \in Seq(S)
      BY <2>5, ConcatProperties
    <3>2. Count(x, Append(s \o un, e)) = Count(x, s \o un) + (IF e = x THEN 1 ELSE 0)
      BY <2>5, <3>1, CountAppend
    <3>3. QED BY <2>6, <3>2
  <2>8. Count(x, un1) = Count(x, un) + (IF e = x THEN 1 ELSE 0)
    BY <2>5, CountAppend
  <2>9. Count(x, un) \in Nat
    BY <2>5, CountNat
  <2>10. Count(x, s \o un1) = Count(x, s) + Count(x, un1)
    BY <1>1, <2>4, <2>7, <2>8, <2>9
  <2>11. QED BY <2>10 DEF un1
<1>4. \A n \in Nat : n \in Good
  <2> HIDE DEF Good
  <2>1. QED BY <1>2, <1>3, Induction
<1>5. u(Len(t)) = t
  BY SubSeqFull
<1>6. Count(x, s \o u(Len(t))) = Count(x, s) + Count(x, u(Len(t)))
  BY <1>1, <1>4
<1>7. QED BY <1>5, <1>6

(***************************************************************************)
(* What is open after each token.                                          *)
(***************************************************************************)
Lists  == {"(!", "(", "[", "{"}
Stacks == Seq(Lists \union {"wrong"})

LEMMA WrongIsStack == Wrong \in Stacks /\ Wrong # << >> /\ Len(Wrong) = 1 /\ Innermost(Wrong) = "wrong"
BY DEF Wrong, Stacks, Innermost

\* The innermost list.
LEMMA InnermostIn ==
  ASSUME NEW s \in Stacks
  PROVE  /\ Len(s) \in Nat
         /\ s = << >> => Innermost(s) = "top"
         /\ s # << >> => /\ Len(s) # 0 /\ Innermost(s) = s[Len(s)]
                         /\ Innermost(s) \in Lists \union {"wrong"}
<1>1. Len(s) \in Nat /\ (s # << >> => Len(s) # 0)
  BY LenProperties, EmptySeq DEF Stacks
<1>2. ASSUME s # << >> PROVE s[Len(s)] \in Lists \union {"wrong"}
  <2>1. Len(s) \in 1 .. Len(s)
    BY <1>1, <1>2
  <2>2. QED BY <2>1, ElementOfSeq DEF Stacks
<1>3. QED BY <1>1, <1>2 DEF Innermost

\* A list that has its callable.
LEMMA CalledIs ==
  ASSUME NEW s \in Stacks
  PROVE  /\ Called(s) \in Stacks /\ Len(Called(s)) = Len(s)
         /\ Innermost(s) # "(!" => Called(s) = s
         /\ Innermost(s) = "(!" => Innermost(Called(s)) = "(" /\ Called(s) # << >>
         /\ Closed(Called(s)) = Closed(s)
<1>1. CASE Innermost(s) # "(!"
  BY <1>1 DEF Called
<1>2. CASE Innermost(s) = "(!"
  <2> DEFINE c == [s EXCEPT ![Len(s)] = "("]
  <2>1. Called(s) = c
    BY <1>2 DEF Called
  <2>2. s # << >> /\ Len(s) \in 1 .. Len(s)
    BY <1>2, InnermostIn DEF Innermost
  <2>3. "(" \in Lists \union {"wrong"}
    BY DEF Lists
  <2>4. /\ c \in Seq(Lists \union {"wrong"}) /\ Len(c) = Len(s)
        /\ \A j \in 1 .. Len(s) : c[j] = IF j = Len(s) THEN "(" ELSE s[j]
    <3> HIDE DEF c
    <3>1. QED BY <2>2, <2>3, ExceptSeq DEF c, Stacks
  <2> HIDE DEF c
  <2>5. c # << >> /\ Innermost(c) = "("
    BY <2>2, <2>4 DEF Innermost
  <2>6. Closed(c) = Closed(s)
    <3>1. Len(s) \in Nat /\ \A j \in 1 .. Len(s) - 1 : c[j] = s[j] /\ s[j] \in Lists \union {"wrong"}
      BY <2>2, <2>4, LenProperties, ElementOfSeq DEF Stacks
    <3>2. /\ SubSeq(c, 1, Len(s) - 1) \in Seq(Lists \union {"wrong"})
          /\ SubSeq(s, 1, Len(s) - 1) \in Seq(Lists \union {"wrong"})
          /\ Len(SubSeq(c, 1, Len(s) - 1)) = Len(s) - 1
          /\ Len(SubSeq(s, 1, Len(s) - 1)) = Len(s) - 1
          /\ \A j \in 1 .. Len(s) - 1 : SubSeq(c, 1, Len(s) - 1)[j] = c[j] /\ SubSeq(s, 1, Len(s) - 1)[j] = s[j]
      <4>1. ASSUME NEW q, \A j \in 1 .. Len(s) - 1 : q[j] \in Lists \union {"wrong"}
            PROVE  /\ SubSeq(q, 1, Len(s) - 1) \in Seq(Lists \union {"wrong"})
                   /\ Len(SubSeq(q, 1, Len(s) - 1)) = Len(s) - 1
                   /\ \A j \in 1 .. Len(s) - 1 : SubSeq(q, 1, Len(s) - 1)[j] = q[j]
        <5> DEFINE m == Len(s) - 1
                   F == Lists \union {"wrong"}
        <5>1. m \in Int /\ m >= 0 /\ \A j \in 1 .. m : q[j] \in F
          BY <2>2, <3>1, <4>1
        <5> HIDE DEF m, F
        <5>2. /\ SubSeq(q, 1, m) \in Seq(F) /\ Len(SubSeq(q, 1, m)) = m
              /\ \A j \in 1 .. m : SubSeq(q, 1, m)[j] = q[j]
          BY <5>1, SubSeqProperties
        <5>3. QED BY <5>2 DEF m, F
      <4>2. QED BY <3>1, <4>1
    <3>3. SubSeq(c, 1, Len(s) - 1) = SubSeq(s, 1, Len(s) - 1)
      BY <3>1, <3>2, SeqEqual
    <3>4. QED BY <2>4, <3>3 DEF Closed
  <2>7. QED BY <1>2, <2>1, <2>4, <2>5, <2>6 DEF Stacks
<1>3. QED BY <1>1, <1>2

\* A list more, and one less.
LEMMA PushAndPop ==
  ASSUME NEW s \in Stacks
  PROVE  /\ \A f \in Lists : /\ Append(s, f) \in Stacks /\ Len(Append(s, f)) = Len(s) + 1
                             /\ Innermost(Append(s, f)) = f /\ Closed(Append(s, f)) = s
                             /\ Append(s, f) # << >>
         /\ s # << >> => /\ Closed(s) \in Stacks /\ Len(Closed(s)) = Len(s) - 1
                         /\ s = Append(Closed(s), Innermost(s))
<1> DEFINE F == Lists \union {"wrong"}
<1>1. ASSUME NEW f \in Lists
      PROVE  /\ Append(s, f) \in Stacks /\ Len(Append(s, f)) = Len(s) + 1
             /\ Innermost(Append(s, f)) = f /\ Closed(Append(s, f)) = s
             /\ Append(s, f) # << >>
  <2>1. /\ Append(s, f) \in Seq(F) /\ Len(Append(s, f)) = Len(s) + 1 /\ Append(s, f) # << >>
        /\ \A i \in 1 .. Len(s) : Append(s, f)[i] = s[i]
        /\ Append(s, f)[Len(s) + 1] = f /\ Len(s) \in Nat
    BY AppendProperties, LenProperties DEF Stacks
  <2>2. Innermost(Append(s, f)) = f
    BY <2>1 DEF Innermost
  <2> DEFINE a == Append(s, f)
             n == Len(s) + 1
  <2>3. n \in 1 .. Len(a) /\ n - 1 = Len(s)
    BY <2>1
  <2>4. /\ SubSeq(a, 1, n - 1) \in Seq(F) /\ SubSeq(a, 1, n) = Append(SubSeq(a, 1, n - 1), a[n])
        /\ Len(SubSeq(a, 1, n - 1)) = n - 1
    <3> HIDE DEF a, n, F
    <3>1. a \in Seq(F)
      BY <2>1 DEF a
    <3>2. QED BY <2>3, <3>1, FrontAndLast
  <2>5. SubSeq(a, 1, n) = a
    BY <2>1, SubSeqFull
  <2>6. SubSeq(a, 1, n - 1) = s
    <3>1. f \in F /\ s \in Seq(F) /\ a[n] = f
      BY <2>1 DEF Stacks
    <3> HIDE DEF F
    <3>2. Append(SubSeq(a, 1, n - 1), f) = Append(s, f)
      BY <2>4, <2>5, <3>1
    <3>3. QED BY <2>4, <3>1, <3>2, AppendInjective
  <2>7. Closed(a) = s
    BY <2>1, <2>6 DEF Closed
  <2>8. QED BY <2>1, <2>2, <2>7 DEF Stacks
<1>2. ASSUME s # << >>
      PROVE  /\ Closed(s) \in Stacks /\ Len(Closed(s)) = Len(s) - 1
             /\ s = Append(Closed(s), Innermost(s))
  <2>1. s \in Seq(F) /\ Len(s) \in 1 .. Len(s)
    BY <1>2, InnermostIn DEF Stacks
  <2>2. /\ SubSeq(s, 1, Len(s) - 1) \in Seq(F) /\ s[Len(s)] \in F
        /\ SubSeq(s, 1, Len(s)) = Append(SubSeq(s, 1, Len(s) - 1), s[Len(s)])
        /\ Len(SubSeq(s, 1, Len(s) - 1)) = Len(s) - 1
    <3> HIDE DEF F
    <3>1. QED BY <2>1, FrontAndLast
  <2>3. SubSeq(s, 1, Len(s)) = s
    BY <2>1, SubSeqFull
  <2>4. QED BY <1>2, <2>2, <2>3 DEF Closed, Innermost, Stacks
<1>3. QED BY <1>1, <1>2

\* A token opens and closes lists.
LEMMA OpenedIsStack == ASSUME NEW s \in Stacks, NEW token PROVE Opened(s, token) \in Stacks
<1>1. Called(s) \in Stacks /\ Wrong \in Stacks
  BY CalledIs, WrongIsStack
<1>2. Append(Called(s), "(!") \in Stacks /\ Append(Called(s), "{") \in Stacks /\ Append(s, "[") \in Stacks
  BY <1>1, PushAndPop DEF Lists
<1>3. Innermost(s) \in Lists => Closed(s) \in Stacks
  BY PushAndPop DEF Innermost, Lists
<1>4. QED BY <1>1, <1>2, <1>3 DEF Opened, Lists

\* OpenAfter is the recursion it is written as.
LEMMA OpenAfterIs ==
  ASSUME NEW S, NEW t \in Seq(S)
  PROVE  /\ OpenAfter(t) \in [0 .. Len(t) -> Stacks]
         /\ OpenAfter(t)[0] = << >>
         /\ \A n \in 1 .. Len(t) : OpenAfter(t)[n] = Opened(OpenAfter(t)[n - 1], t[n])
<1> DEFINE F == [p \in Nat \X Stacks |-> Opened(p[2], t[p[1]])]
<1>1. << >> \in Stacks /\ F \in [Nat \X Stacks -> Stacks] /\ Len(t) \in Nat
  BY OpenedIsStack, EmptySeq, LenProperties DEF Stacks
<1>2. PICK f \in [Nat -> Stacks] : Follows(f, << >>, F)
  <2> HIDE DEF F
  <2>1. QED BY <1>1, Recursion
<1>3. /\ \A n \in Nat : f[n] \in Stacks
      /\ f[0] = << >> /\ \A n \in Nat \ {0} : f[n] = Opened(f[n - 1], t[n])
  <2>1. \A n \in Nat : f[n] \in Stacks
    BY <1>2
  <2>2. f[0] = << >> /\ \A n \in Nat \ {0} : f[n] = F[<<n, f[n - 1]>>]
    BY <1>2 DEF Follows
  <2>3. ASSUME NEW n \in Nat \ {0} PROVE f[n] = Opened(f[n - 1], t[n])
    <3>1. n - 1 \in Nat
      OBVIOUS
    <3>2. <<n, f[n - 1]>> \in Nat \X Stacks
      BY <2>1, <3>1
    <3>3. F[<<n, f[n - 1]>>] = Opened(f[n - 1], t[n])
      BY <3>2
    <3>4. QED BY <2>2, <3>3
  <2>4. QED BY <2>1, <2>2, <2>3
<1> DEFINE Is(g) == g = [n \in 0 .. Len(t) |-> IF n = 0 THEN << >> ELSE Opened(g[n - 1], t[n])]
           h == [n \in 0 .. Len(t) |-> f[n]]
<1>4. Is(h)
  <2>1. ASSUME NEW n \in 0 .. Len(t) PROVE h[n] = IF n = 0 THEN << >> ELSE Opened(h[n - 1], t[n])
    <3>1. CASE n = 0
      BY <1>3, <3>1
    <3>2. CASE n # 0
      <4>1. n \in Nat \ {0} /\ n - 1 \in 0 .. Len(t)
        BY <1>1, <3>2
      <4>2. QED BY <1>3, <3>2, <4>1
    <3>3. QED BY <3>1, <3>2
  <2>2. QED BY <2>1
<1>5. Is(OpenAfter(t))
  BY <1>4 DEF OpenAfter
<1> DEFINE U == OpenAfter(t)
<1>6. U[0] = << >> /\ \A n \in 1 .. Len(t) : U[n] = Opened(U[n - 1], t[n])
  <2>1. ASSUME NEW n \in 0 .. Len(t) PROVE U[n] = IF n = 0 THEN << >> ELSE Opened(U[n - 1], t[n])
    BY <1>5
  <2>2. 0 \in 0 .. Len(t) /\ \A n \in 1 .. Len(t) : n \in 0 .. Len(t) /\ n # 0
    BY <1>1
  <2>3. QED BY <2>1, <2>2
<1>7. \A n \in 0 .. Len(t) : U[n] \in Stacks
  <2> HIDE DEF U
  <2> DEFINE Good == {n \in Nat : n <= Len(t) => U[n] \in Stacks}
  <2>1. 0 \in Good
    BY <1>1, <1>6
  <2>2. ASSUME NEW n \in Nat, n \in Good PROVE n + 1 \in Good
    <3>1. n + 1 <= Len(t) => n + 1 \in 1 .. Len(t) /\ n <= Len(t) /\ (n + 1) - 1 = n
      BY <1>1
    <3>2. QED BY <1>6, <2>2, <3>1, OpenedIsStack
  <2>3. \A n \in Nat : n \in Good
    <3> HIDE DEF Good
    <3>1. QED BY <2>1, <2>2, Induction
  <2>4. QED BY <1>1, <2>3
<1>8. U \in [0 .. Len(t) -> Stacks]
  <2>1. U = [n \in 0 .. Len(t) |-> IF n = 0 THEN << >> ELSE Opened(U[n - 1], t[n])]
    BY <1>5
  <2>2. QED BY <1>7, <2>1
<1>9. QED BY <1>6, <1>8

\* What is open depends on what was read.
LEMMA OpenAfterSame ==
  ASSUME NEW S, NEW t \in Seq(S), NEW u \in Seq(S), NEW n \in Nat, n <= Len(t), n <= Len(u),
         \A i \in 1 .. n : t[i] = u[i]
  PROVE  \A k \in 0 .. n : OpenAfter(t)[k] = OpenAfter(u)[k]
<1> DEFINE T == OpenAfter(t)
           U == OpenAfter(u)
           Good == {k \in Nat : k <= n => T[k] = U[k]}
<1>1. /\ T[0] = << >> /\ \A k \in 1 .. Len(t) : T[k] = Opened(T[k - 1], t[k])
      /\ U[0] = << >> /\ \A k \in 1 .. Len(u) : U[k] = Opened(U[k - 1], u[k])
      /\ Len(t) \in Nat /\ Len(u) \in Nat
  BY OpenAfterIs, LenProperties
<1> HIDE DEF T, U
<1>2. 0 \in Good
  BY <1>1
<1>3. ASSUME NEW k \in Nat, k \in Good PROVE k + 1 \in Good
  <2>1. ASSUME k + 1 <= n PROVE T[k + 1] = U[k + 1]
    <3>1. k + 1 \in 1 .. Len(t) /\ k + 1 \in 1 .. Len(u) /\ k + 1 \in 1 .. n /\ (k + 1) - 1 = k /\ k <= n
      BY <1>1, <2>1
    <3>2. T[k] = U[k] /\ t[k + 1] = u[k + 1]
      BY <1>3, <3>1
    <3>3. QED BY <1>1, <3>1, <3>2
  <2>2. QED BY <2>1
<1>4. \A k \in Nat : k \in Good
  <2> HIDE DEF Good
  <2>1. QED BY <1>2, <1>3, Induction
<1>5. QED BY <1>4 DEF T, U

\* What is open after nothing.
LEMMA NestingEmpty == Nesting(<< >>) = << >>
<1>1. << >> \in Seq({}) /\ Len(<< >>) = 0
  BY EmptySeq
<1>2. QED BY <1>1, OpenAfterIs DEF Nesting

LEMMA NestingIs ==
  ASSUME NEW S, NEW t \in Seq(S)
  PROVE  Nesting(t) \in Stacks /\ OpenAfter(t)[0] = << >> /\ OpenAfter(t)[Len(t)] = Nesting(t)
<1>1. Len(t) \in Nat /\ OpenAfter(t) \in [0 .. Len(t) -> Stacks] /\ OpenAfter(t)[0] = << >>
  BY OpenAfterIs, LenProperties
<1>2. QED BY <1>1 DEF Nesting

\* What is open in the middle of a text is what is open after its beginning.
LEMMA NestingOfPrefix ==
  ASSUME NEW S, NEW t \in Seq(S), NEW n \in 0 .. Len(t)
  PROVE  Nesting(SubSeq(t, 1, n)) = OpenAfter(t)[n]
<1> DEFINE u == SubSeq(t, 1, n)
<1>1. Len(t) \in Nat /\ n \in Nat /\ \A i \in 1 .. n : t[i] \in S
  BY LenProperties, ElementOfSeq
<1>2. u \in Seq(S) /\ Len(u) = n /\ \A i \in 1 .. n : u[i] = t[i]
  BY <1>1, SubSeqProperties
<1> HIDE DEF u
<1>3. n \in 0 .. n /\ n <= Len(t) /\ n <= Len(u)
  BY <1>1, <1>2
<1>4. OpenAfter(u)[n] = OpenAfter(t)[n]
  BY <1>1, <1>2, <1>3, OpenAfterSame
<1>5. Nesting(u) = OpenAfter(t)[n]
  BY <1>2, <1>4 DEF Nesting
<1>6. QED BY <1>5 DEF u

\* A token more.
LEMMA NestingAppend ==
  ASSUME NEW S, NEW t \in Seq(S), NEW e \in S
  PROVE  Nesting(Append(t, e)) = Opened(Nesting(t), e)
<1> DEFINE u == Append(t, e)
           n == Len(t)
<1>1. u \in Seq(S) /\ Len(u) = n + 1 /\ n \in Nat /\ u[n + 1] = e /\ \A i \in 1 .. n : u[i] = t[i]
  BY AppendProperties, LenProperties
<1> HIDE DEF u
<1>2. n + 1 \in 1 .. Len(u) /\ (n + 1) - 1 = n /\ n \in 0 .. n /\ n <= n /\ n <= Len(u)
  BY <1>1
<1>3. OpenAfter(u)[n + 1] = Opened(OpenAfter(u)[n], e)
  BY <1>1, <1>2, OpenAfterIs
<1>4. OpenAfter(u)[n] = OpenAfter(t)[n]
  <2> HIDE DEF n
  <2>1. \A k \in 0 .. n : OpenAfter(u)[k] = OpenAfter(t)[k]
    BY <1>1, <1>2, OpenAfterSame DEF n
  <2>2. QED BY <1>2, <2>1
<1>5. QED BY <1>1, <1>3, <1>4 DEF u, Nesting

\* Nothing follows what is wrong.
LEMMA WrongStays == ASSUME NEW token PROVE Opened(Wrong, token) = Wrong
BY WrongIsStack DEF Opened

\* One text after the other.
LEMMA NestingConcat ==
  ASSUME NEW S, NEW s \in Seq(S), NEW r \in Seq(S), NEW t \in Seq(S)
  PROVE  /\ Nesting(s) = Nesting(r) => Nesting(s \o t) = Nesting(r \o t)
         /\ Nesting(s) = << >> => Nesting(s \o t) = Nesting(t)
         /\ Nesting(s) = Wrong => Nesting(s \o t) = Wrong
<1> DEFINE u(n) == SubSeq(t, 1, n)
<1>0. Len(t) \in Nat /\ u(Len(t)) = t /\ u(0) = << >>
  BY LenProperties, SubSeqFull, SubSeqEmpty
<1>1. ASSUME NEW q \in Seq(S), NEW n \in Nat, n + 1 <= Len(t)
      PROVE  Nesting(q \o u(n + 1)) = Opened(Nesting(q \o u(n)), t[n + 1])
  <2>1. n + 1 \in 1 .. Len(t) /\ (n + 1) - 1 = n
    BY <1>0, <1>1
  <2>2. u(n) \in Seq(S) /\ t[n + 1] \in S /\ u(n + 1) = Append(u(n), t[n + 1])
    BY <2>1, FrontAndLast
  <2> DEFINE e == t[n + 1]
             un == u(n)
             un1 == u(n + 1)
  <2> HIDE DEF e, un, un1
  <2>3. un \in Seq(S) /\ e \in S /\ un1 = Append(un, e)
    BY <2>2 DEF e, un, un1
  <2>4. q \o un \in Seq(S)
    BY <2>3, ConcatProperties
  <2>5. q \o un1 = Append(q \o un, e)
    BY <2>3, ConcatAppend
  <2>6. Nesting(Append(q \o un, e)) = Opened(Nesting(q \o un), e)
    BY <2>3, <2>4, NestingAppend
  <2>7. QED BY <2>5, <2>6 DEF e, un, un1
<1>2. ASSUME NEW p \in Seq(S), NEW q \in Seq(S), Nesting(p) = Nesting(q)
      PROVE  Nesting(p \o t) = Nesting(q \o t)
  <2> DEFINE Good == {n \in Nat : n <= Len(t) => Nesting(p \o u(n)) = Nesting(q \o u(n))}
  <2>1. 0 \in Good
    <3>1. p \o << >> = p /\ q \o << >> = q
      BY ConcatEmptySeq
    <3>2. Nesting(p \o u(0)) = Nesting(q \o u(0))
      BY <1>0, <1>2, <3>1
    <3>3. QED BY <3>2
  <2>2. ASSUME NEW n \in Nat, n \in Good PROVE n + 1 \in Good
    <3>1. n + 1 <= Len(t) => n <= Len(t)
      BY <1>0
    <3>2. n + 1 <= Len(t) => Nesting(p \o u(n + 1)) = Nesting(q \o u(n + 1))
      BY <1>1, <2>2, <3>1
    <3>3. QED BY <3>2
  <2>3. \A n \in Nat : n \in Good
    <3> HIDE DEF Good
    <3>1. QED BY <2>1, <2>2, Induction
  <2>4. Nesting(p \o u(Len(t))) = Nesting(q \o u(Len(t)))
    BY <1>0, <2>3
  <2>5. QED BY <1>0, <2>4
<1>3. Nesting(s) = Nesting(r) => Nesting(s \o t) = Nesting(r \o t)
  BY <1>2
<1>4. Nesting(s) = << >> => Nesting(s \o t) = Nesting(t)
  <2>1. << >> \in Seq(S) /\ << >> \o t = t
    BY EmptySeq, ConcatEmptySeq
  <2>2. Nesting(s) = Nesting(<< >>) => Nesting(s \o t) = Nesting(<< >> \o t)
    BY <1>2, <2>1
  <2>3. QED BY <2>1, <2>2, NestingEmpty
<1>5. ASSUME Nesting(s) = Wrong PROVE Nesting(s \o t) = Wrong
  <2> DEFINE Good == {n \in Nat : n <= Len(t) => Nesting(s \o u(n)) = Wrong}
  <2>1. 0 \in Good
    <3>1. s \o << >> = s
      BY ConcatEmptySeq
    <3>2. Nesting(s \o u(0)) = Wrong
      BY <1>0, <1>5, <3>1
    <3>3. QED BY <3>2
  <2>2. ASSUME NEW n \in Nat, n \in Good PROVE n + 1 \in Good
    <3>1. n + 1 <= Len(t) => n <= Len(t)
      BY <1>0
    <3>2. n + 1 <= Len(t) => Nesting(s \o u(n + 1)) = Wrong
      BY <1>1, <2>2, <3>1, WrongStays
    <3>3. QED BY <3>2
  <2>3. \A n \in Nat : n \in Good
    <3> HIDE DEF Good
    <3>1. QED BY <2>1, <2>2, Induction
  <2>4. Nesting(s \o u(Len(t))) = Wrong
    BY <1>0, <2>3
  <2>5. QED BY <1>0, <2>4
<1>6. QED BY <1>3, <1>4, <1>5

\* How many lists of a bracket are open.
InOpen(b, s) == IF b = "(" THEN Count("(", s) + Count("(!", s) ELSE Count(b, s)
Opening(b, f) == IF f = b \/ (b = "(" /\ f = "(!") THEN 1 ELSE 0

LEMMA InOpenAppend ==
  ASSUME NEW s \in Stacks, NEW f \in Lists \union {"wrong"}, NEW b
  PROVE  InOpen(b, s) \in Nat /\ InOpen(b, Append(s, f)) = InOpen(b, s) + Opening(b, f)
<1>1. /\ Count(b, s) \in Nat /\ Count("(!", s) \in Nat
      /\ Count(b, Append(s, f)) = Count(b, s) + (IF f = b THEN 1 ELSE 0)
      /\ Count("(!", Append(s, f)) = Count("(!", s) + (IF f = "(!" THEN 1 ELSE 0)
  BY CountNat, CountAppend DEF Stacks
<1>2. CASE b = "("
  BY <1>1, <1>2 DEF InOpen, Opening
<1>3. CASE b # "("
  BY <1>1, <1>3 DEF InOpen, Opening
<1>4. QED BY <1>2, <1>3

ListBrackets == {"(", "[", "{"}

LEMMA InOpenCalled == ASSUME NEW s \in Stacks, NEW b \in ListBrackets PROVE InOpen(b, Called(s)) = InOpen(b, s)
<1>1. CASE Innermost(s) # "(!"
  BY <1>1, CalledIs
<1>2. CASE Innermost(s) = "(!"
  <2>1. s # << >>
    BY <1>2 DEF Innermost
  <2>2. Closed(s) \in Stacks /\ s = Append(Closed(s), "(!")
    BY <1>2, <2>1, PushAndPop
  <2>3. Called(s) \in Stacks /\ Called(s) # << >> /\ Innermost(Called(s)) = "(" /\ Closed(Called(s)) = Closed(s)
    BY <1>2, CalledIs
  <2>4. Called(s) = Append(Closed(s), "(")
    BY <2>3, PushAndPop
  <2>5. Opening(b, "(") = Opening(b, "(!")
    BY DEF Opening, ListBrackets
  <2>6. "(" \in Lists /\ "(!" \in Lists
    BY DEF Lists
  <2> DEFINE c == Closed(s)
  <2>7. InOpen(b, Append(c, "(")) = InOpen(b, Append(c, "(!"))
    <3> HIDE DEF c
    <3>1. c \in Stacks
      BY <2>2 DEF c
    <3>2. /\ InOpen(b, Append(c, "(")) = InOpen(b, c) + Opening(b, "(")
          /\ InOpen(b, Append(c, "(!")) = InOpen(b, c) + Opening(b, "(!")
      BY <2>6, <3>1, InOpenAppend
    <3>3. QED BY <2>5, <3>2
  <2>8. QED BY <2>2, <2>4, <2>7
<1>3. QED BY <1>1, <1>2

\* A token changes how many lists of its bracket are open, and of no other.
LEMMA OpenedCounts ==
  ASSUME NEW s \in Stacks, NEW token, NEW b \in ListBrackets, Opened(s, token) # Wrong
  PROVE  InOpen(b, Opened(s, token))
           = (InOpen(b, s) + (IF token = b THEN 1 ELSE 0)) - (IF token = ClosingSym(b) THEN 1 ELSE 0)
<1> DEFINE r == Opened(s, token)
<1>1. /\ token \in Tokens \ {"!"}
      /\ token = "x" => r = Called(s)
      /\ token = "1" => r = s
      /\ token = "(" => r = Append(Called(s), "(!")
      /\ token = "[" => r = Append(s, "[")
      /\ token = "{" => r = Append(Called(s), "{")
      /\ token = ")" => r = Closed(s) /\ Innermost(s) = "("
      /\ token = "]" => r = Closed(s) /\ Innermost(s) = "["
      /\ token = "}" => r = Closed(s) /\ Innermost(s) = "{"
  BY DEF Opened, Tokens
<1>2. InOpen(b, s) \in Nat /\ InOpen(b, Called(s)) = InOpen(b, s) /\ Called(s) \in Stacks
  <2>1. "(" \in Lists \union {"wrong"}
    BY DEF Lists
  <2>2. QED BY <2>1, InOpenAppend, InOpenCalled, CalledIs
<1>3. ASSUME NEW c \in Stacks, NEW f \in Lists PROVE InOpen(b, Append(c, f)) = InOpen(b, c) + Opening(b, f)
  BY InOpenAppend
<1>4. ASSUME NEW f \in Lists, Innermost(s) = f
      PROVE  InOpen(b, Closed(s)) + Opening(b, f) = InOpen(b, s) /\ InOpen(b, Closed(s)) \in Nat
  <2>1. s # << >>
    BY <1>4 DEF Innermost, Lists
  <2>2. Closed(s) \in Stacks /\ s = Append(Closed(s), f)
    BY <1>4, <2>1, PushAndPop
  <2>3. InOpen(b, Append(Closed(s), f)) = InOpen(b, Closed(s)) + Opening(b, f) /\ InOpen(b, Closed(s)) \in Nat
    BY <2>2, InOpenAppend
  <2>4. QED BY <2>2, <2>3
<1>5. /\ ClosingSym(b) = IF b = "(" THEN ")" ELSE IF b = "[" THEN "]" ELSE "}"
  BY DEF ClosingSym, ListBrackets
<1>6. /\ "(!" \in Lists /\ "(" \in Lists /\ "[" \in Lists /\ "{" \in Lists
      /\ Opening(b, "(!") = (IF b = "(" THEN 1 ELSE 0)
      /\ Opening(b, "(") = (IF b = "(" THEN 1 ELSE 0)
      /\ Opening(b, "[") = (IF b = "[" THEN 1 ELSE 0)
      /\ Opening(b, "{") = (IF b = "{" THEN 1 ELSE 0)
  BY DEF Lists, Opening, ListBrackets
<1> HIDE DEF r
<1>7. CASE token \in {"x", "1"}
  <2>1. InOpen(b, r) = InOpen(b, s) /\ token # b /\ token # ClosingSym(b)
    BY <1>1, <1>2, <1>5, <1>7 DEF ListBrackets
  <2>2. QED BY <1>2, <2>1 DEF r
<1>8. CASE token \in {"(", "[", "{"}
  <2>1. token # ClosingSym(b)
    BY <1>5, <1>8
  <2>2. InOpen(b, r) = InOpen(b, s) + (IF token = b THEN 1 ELSE 0)
    <3>1. CASE token = "("
      <4>1. InOpen(b, r) = InOpen(b, s) + Opening(b, "(!")
        BY <1>1, <1>2, <1>3, <1>6, <3>1
      <4>2. QED BY <1>6, <3>1, <4>1
    <3>2. CASE token = "["
      <4>1. InOpen(b, r) = InOpen(b, s) + Opening(b, "[")
        BY <1>1, <1>2, <1>3, <1>6, <3>2
      <4>2. QED BY <1>6, <3>2, <4>1
    <3>3. CASE token = "{"
      <4>1. InOpen(b, r) = InOpen(b, s) + Opening(b, "{")
        BY <1>1, <1>2, <1>3, <1>6, <3>3
      <4>2. QED BY <1>6, <3>3, <4>1
    <3>4. QED BY <1>8, <3>1, <3>2, <3>3
  <2>3. QED BY <1>2, <2>1, <2>2 DEF r
<1>9. CASE token \in {")", "]", "}"}
  <2>1. token # b
    BY <1>9 DEF ListBrackets
  <2>2. InOpen(b, r) = InOpen(b, s) - (IF token = ClosingSym(b) THEN 1 ELSE 0)
    <3>1. CASE token = ")"
      <4>1. InOpen(b, r) + Opening(b, "(") = InOpen(b, s) /\ InOpen(b, r) \in Nat
        BY <1>1, <1>4, <1>6, <3>1
      <4>2. Opening(b, "(") = IF token = ClosingSym(b) THEN 1 ELSE 0
        BY <1>5, <1>6, <3>1 DEF ListBrackets
      <4>3. QED BY <1>2, <4>1, <4>2
    <3>2. CASE token = "]"
      <4>1. InOpen(b, r) + Opening(b, "[") = InOpen(b, s) /\ InOpen(b, r) \in Nat
        BY <1>1, <1>4, <1>6, <3>2
      <4>2. Opening(b, "[") = IF token = ClosingSym(b) THEN 1 ELSE 0
        BY <1>5, <1>6, <3>2 DEF ListBrackets
      <4>3. QED BY <1>2, <4>1, <4>2
    <3>3. CASE token = "}"
      <4>1. InOpen(b, r) + Opening(b, "{") = InOpen(b, s) /\ InOpen(b, r) \in Nat
        BY <1>1, <1>4, <1>6, <3>3
      <4>2. Opening(b, "{") = IF token = ClosingSym(b) THEN 1 ELSE 0
        <5>1. b = "(" \/ b = "[" \/ b = "{"
          BY DEF ListBrackets
        <5>2. b = "{" <=> ClosingSym(b) = "}"
          BY <1>5, <5>1
        <5>3. QED BY <1>6, <3>3, <5>2
      <4>3. InOpen(b, r) + (IF token = ClosingSym(b) THEN 1 ELSE 0) = InOpen(b, s)
        BY <4>1, <4>2
      <4>4. QED
        <5> DEFINE k == IF token = ClosingSym(b) THEN 1 ELSE 0
                   p == InOpen(b, r)
                   q == InOpen(b, s)
        <5>1. k \in Nat /\ p \in Nat /\ q \in Nat /\ p + k = q
          BY <1>2, <4>1, <4>3
        <5> HIDE DEF k, p, q
        <5>2. p = q - k
          BY <5>1
        <5>3. QED BY <5>2 DEF k, p, q
    <3>4. QED BY <1>9, <3>1, <3>2, <3>3
  <2>3. QED BY <1>2, <2>1, <2>2 DEF r
<1>10. QED BY <1>1, <1>7, <1>8, <1>9 DEF Tokens

\* What is open is what was opened and not closed.
LEMMA NestingCounts ==
  ASSUME NEW S, NEW t \in Seq(S), NEW b \in ListBrackets, Nesting(t) # Wrong
  PROVE  InOpen(b, Nesting(t)) = Count(b, t) - Count(ClosingSym(b), t)
<1> DEFINE u(n) == SubSeq(t, 1, n)
           Good == {n \in Nat : n <= Len(t) /\ Nesting(u(n)) # Wrong
                      => InOpen(b, Nesting(u(n))) = Count(b, u(n)) - Count(ClosingSym(b), u(n))}
<1>0. Len(t) \in Nat /\ u(Len(t)) = t /\ u(0) = << >>
  BY LenProperties, SubSeqFull, SubSeqEmpty
<1>1. 0 \in Good
  <2>1. InOpen(b, << >>) = 0 /\ Count(b, << >>) = 0 /\ Count(ClosingSym(b), << >>) = 0
    <3>1. \A x : Count(x, << >>) = 0
      BY CountEmpty
    <3>2. Count("(", << >>) + Count("(!", << >>) = 0
      BY <3>1
    <3>3. QED BY <3>1, <3>2 DEF InOpen
  <2>2. InOpen(b, Nesting(<< >>)) = Count(b, << >>) - Count(ClosingSym(b), << >>)
    BY <2>1, NestingEmpty
  <2>3. InOpen(b, Nesting(u(0))) = Count(b, u(0)) - Count(ClosingSym(b), u(0))
    BY <1>0, <2>2
  <2>4. QED BY <2>3
<1>2. ASSUME NEW n \in Nat, n \in Good PROVE n + 1 \in Good
  <2>1. SUFFICES ASSUME n + 1 <= Len(t), Nesting(u(n + 1)) # Wrong
                 PROVE  InOpen(b, Nesting(u(n + 1))) = Count(b, u(n + 1)) - Count(ClosingSym(b), u(n + 1))
    OBVIOUS
  <2>2. n + 1 \in 1 .. Len(t) /\ (n + 1) - 1 = n /\ n <= Len(t)
    BY <1>0, <2>1
  <2> DEFINE e == t[n + 1]
             un == u(n)
             un1 == u(n + 1)
             c == ClosingSym(b)
  <2>3. un \in Seq(S) /\ e \in S /\ un1 = Append(un, e)
    <3>1. u(n) \in Seq(S) /\ t[n + 1] \in S /\ u(n + 1) = Append(u(n), t[n + 1])
      BY <2>2, FrontAndLast
    <3>2. QED BY <3>1
  <2>4. Nesting(un) # Wrong => InOpen(b, Nesting(un)) = Count(b, un) - Count(c, un)
    BY <1>2, <2>2
  <2>5. Nesting(un1) # Wrong
    BY <2>1
  <2> HIDE DEF e, un, un1, c
  <2>6. Nesting(un1) = Opened(Nesting(un), e) /\ Nesting(un) \in Stacks
    BY <2>3, NestingAppend, NestingIs
  <2>7. Nesting(un) # Wrong
    BY <2>5, <2>6, WrongStays
  <2>8. InOpen(b, Nesting(un1)) = (InOpen(b, Nesting(un)) + (IF e = b THEN 1 ELSE 0)) - (IF e = c THEN 1 ELSE 0)
    BY <2>5, <2>6, OpenedCounts DEF c
  <2>9. /\ Count(b, un1) = Count(b, un) + (IF e = b THEN 1 ELSE 0)
        /\ Count(c, un1) = Count(c, un) + (IF e = c THEN 1 ELSE 0)
        /\ Count(b, un) \in Nat /\ Count(c, un) \in Nat
    BY <2>3, CountAppend, CountNat
  <2>10. InOpen(b, Nesting(un1)) = Count(b, un1) - Count(c, un1)
    BY <2>4, <2>7, <2>8, <2>9
  <2>11. QED BY <2>10 DEF un1, c
<1>3. \A n \in Nat : n \in Good
  <2> HIDE DEF Good
  <2>1. QED BY <1>1, <1>2, Induction
<1>4. Nesting(u(Len(t))) # Wrong
        => InOpen(b, Nesting(u(Len(t)))) = Count(b, u(Len(t))) - Count(ClosingSym(b), u(Len(t)))
  BY <1>0, <1>3
<1>5. QED BY <1>0, <1>4

(***************************************************************************)
(* The functions of the parser.                                            *)
(***************************************************************************)
Positions == Nat \ {0}
Cells     == Seq(Tokens \union {"null"})
Results   == [cell : Cells, at : Positions, bad : BOOLEAN]
Tables    == [Functions -> [Positions -> Results]]

\* A position that is not past the end is one of a token.
LEMMA PositionOfToken ==
  ASSUME NEW T, NEW t \in Seq(T), NEW i \in Positions, ~ (i > Len(t)) PROVE i \in 1 .. Len(t)
<1>1. Len(t) \in Nat
  BY LenProperties
<1>2. QED BY <1>1 DEF Positions

\* What comes before a position of a token is one too.
LEMMA EarlierPosition ==
  ASSUME NEW T, NEW t \in Seq(T), NEW i \in Positions, NEW j \in Positions, j >= i, ~ (j > Len(t))
  PROVE  ~ (i > Len(t))
<1>1. Len(t) \in Nat
  BY LenProperties
<1>2. QED BY <1>1 DEF Positions

LEMMA NextPosition ==
  ASSUME NEW i \in Positions
  PROVE  i + 1 \in Positions /\ (i + 1) - 1 = i /\ i + 1 >= i /\ i < i + 1 /\ i - 1 \in Nat /\ i >= i
BY DEF Positions

LEMMA LaterPosition ==
  ASSUME NEW i \in Positions, NEW j \in Positions, NEW k \in Positions, j >= i, k >= j PROVE k >= i
BY DEF Positions

LEMMA ResultIs ==
  ASSUME NEW c \in Cells, NEW i \in Positions, NEW b \in BOOLEAN
  PROVE  /\ Result(c, i, b) \in Results
         /\ Result(c, i, b).cell = c /\ Result(c, i, b).at = i /\ Result(c, i, b).bad = b
BY DEF Result, Results

LEMMA TokenCells ==
  /\ NoCell \in Cells
  /\ \A a \in Tokens \union {"null"} : <<a>> \in Cells /\ <<a>> # NoCell
<1>1. << >> \in Cells
  BY EmptySeq DEF Cells
<1>2. ASSUME NEW a \in Tokens \union {"null"} PROVE <<a>> \in Cells /\ <<a>> # << >>
  BY <1>2 DEF Cells
<1>3. QED BY <1>1, <1>2 DEF NoCell

\* What has not come about and what has failed.
LEMMA FailingIs ==
  ASSUME NEW i \in Positions
  PROVE  /\ Failing(i) \in Results /\ Failing(i).cell = NoCell /\ Failing(i).at = i /\ Failing(i).bad
         /\ NotHere(i) \in Results /\ NotHere(i).cell = NoCell /\ NotHere(i).at = i /\ ~ NotHere(i).bad
<1>1. NoCell \in Cells /\ TRUE \in BOOLEAN /\ FALSE \in BOOLEAN
  BY TokenCells
<1>2. /\ Result(NoCell, i, TRUE) \in Results /\ Result(NoCell, i, TRUE).cell = NoCell
      /\ Result(NoCell, i, TRUE).at = i /\ Result(NoCell, i, TRUE).bad = TRUE
  BY <1>1, ResultIs
<1>3. /\ Result(NoCell, i, FALSE) \in Results /\ Result(NoCell, i, FALSE).cell = NoCell
      /\ Result(NoCell, i, FALSE).at = i /\ Result(NoCell, i, FALSE).bad = FALSE
  BY <1>1, ResultIs
<1>4. QED BY <1>2, <1>3 DEF Failing, NotHere

LEMMA AfterIs ==
  ASSUME NEW e \in Results, NEW r \in Results
  PROVE  /\ After(e, r) \in Results /\ After(e, r).cell = r.cell /\ After(e, r).at = r.at
         /\ After(e, r).bad <=> r.bad \/ e.bad
BY DEF After, Results

LEMMA BeforeIs ==
  ASSUME NEW ts \in Cells, NEW r \in Results
  PROVE  /\ Before(ts, r) \in Results /\ Before(ts, r).at = r.at /\ (Before(ts, r).bad <=> r.bad)
         /\ r.cell = NoCell => Before(ts, r).cell = NoCell
         /\ r.cell # NoCell => Before(ts, r).cell = ts \o r.cell /\ Before(ts, r).cell # NoCell
<1>1. r.cell \in Cells /\ r = [cell |-> r.cell, at |-> r.at, bad |-> r.bad]
  BY DEF Results
<1>2. ts \o r.cell \in Cells /\ (r.cell # NoCell => ts \o r.cell # << >>)
  <2> DEFINE T == Tokens \union {"null"}
             c == r.cell
  <2>1. ts \in Seq(T) /\ c \in Seq(T)
    BY <1>1 DEF Cells
  <2> HIDE DEF T, c
  <2>2. ts \o c \in Seq(T) /\ (ts \o c = << >> => c = << >>)
    BY <2>1, ConcatProperties, ConcatEqualIffEmpty
  <2>3. QED BY <2>2 DEF T, c, Cells, NoCell
<1>3. CASE r.cell = NoCell
  BY <1>3 DEF Before
<1>4. CASE r.cell # NoCell
  <2>1. Before(ts, r) = [r EXCEPT !.cell = ts \o @]
    BY <1>4 DEF Before
  <2>2. /\ Before(ts, r).cell = ts \o r.cell /\ Before(ts, r).at = r.at /\ Before(ts, r).bad = r.bad
        /\ Before(ts, r) \in Results
    BY <1>2, <2>1 DEF Results
  <2>3. QED BY <1>2, <1>4, <2>2 DEF NoCell
<1>5. QED BY <1>3, <1>4

\* The token at a position, or NIL.
LEMMA CurrentIs ==
  ASSUME NEW t \in Seq(Tokens), NEW i \in Positions
  PROVE  /\ Current(t, i) \in Tokens
         /\ Current(t, i) # "1" => i \in 1 .. Len(t)
         /\ i \in 1 .. Len(t) => Current(t, i) = t[i]
<1>1. Len(t) \in Nat /\ "1" \in Tokens /\ (i <= Len(t) => i \in 1 .. Len(t))
  <2>1. Len(t) \in Nat
    BY LenProperties
  <2>2. i <= Len(t) => i \in 1 .. Len(t)
    BY <2>1 DEF Positions
  <2>3. "1" \in Tokens
    BY DEF Tokens
  <2>4. QED BY <2>1, <2>2, <2>3
<1>2. i \in 1 .. Len(t) => t[i] \in Tokens
  BY ElementOfSeq
<1>3. QED BY <1>1, <1>2 DEF Current

LEMMA SymbolIs ==
  ASSUME NEW t \in Seq(Tokens), NEW i \in Positions
  PROVE  /\ Symbol(t, i) \in Results
         /\ Current(t, i) = "x" => /\ Symbol(t, i).cell = <<"x">> /\ Symbol(t, i).cell # NoCell
                                   /\ Symbol(t, i).at = i + 1 /\ ~ Symbol(t, i).bad
         /\ Current(t, i) # "x" => Symbol(t, i).cell = NoCell /\ Symbol(t, i).at = i /\ ~ Symbol(t, i).bad
<1>1. i + 1 \in Positions /\ "x" \in Tokens
  <2>1. i + 1 \in Positions
    BY DEF Positions
  <2>2. QED BY <2>1 DEF Tokens
<1>2. <<"x">> \in Cells /\ <<"x">> # NoCell
  BY <1>1, TokenCells
<1>3. /\ Result(<<"x">>, i + 1, FALSE) \in Results /\ Result(<<"x">>, i + 1, FALSE).cell = <<"x">>
      /\ Result(<<"x">>, i + 1, FALSE).at = i + 1 /\ Result(<<"x">>, i + 1, FALSE).bad = FALSE
  BY <1>1, <1>2, ResultIs
<1>4. QED BY <1>2, <1>3, FailingIs DEF Symbol

\* A table gives results.
LEMMA TableGives ==
  ASSUME NEW calls \in Tables, NEW f \in Functions, NEW i \in Positions
  PROVE  calls[f][i] \in Results /\ calls[f][i].at \in Positions /\ calls[f][i].cell \in Cells
         /\ calls[f][i].bad \in BOOLEAN
<1>1. calls[f] \in [Positions -> Results]
  BY DEF Tables
<1>2. calls[f][i] \in Results
  BY <1>1
<1>3. QED BY <1>2 DEF Results

LEMMA FunctionsAre ==
  /\ "element" \in Functions /\ "instruction" \in Functions /\ "data" \in Functions /\ "access" \in Functions
  /\ "scan )" \in Functions /\ "scan ]" \in Functions /\ "scan }" \in Functions
BY DEF Functions

\* The callable of an instruction list.
LEMMA CallableIs ==
  ASSUME NEW t \in Seq(Tokens), NEW calls \in Tables, NEW i \in Positions, Current(t, i) \in Callables
  PROVE  \E r \in Results :
           /\ r = IF Current(t, i) = "(" THEN calls["instruction"][i]
                  ELSE IF Current(t, i) = "{" THEN calls["access"][i] ELSE Symbol(t, i)
           /\ Callable(t, calls, i) \in Results
           /\ Callable(t, calls, i).at = r.at /\ Callable(t, calls, i).bad = r.bad
           /\ r.cell # NoCell => Callable(t, calls, i).cell = r.cell
<1> DEFINE r == IF Current(t, i) = "(" THEN calls["instruction"][i]
                ELSE IF Current(t, i) = "{" THEN calls["access"][i] ELSE Symbol(t, i)
<1>1. r \in Results
  <2>1. calls["instruction"][i] \in Results /\ calls["access"][i] \in Results
    BY TableGives, FunctionsAre
  <2>2. QED BY <2>1, SymbolIs
<1>2. Callable(t, calls, i) = IF r.cell = NoCell THEN [r EXCEPT !.cell = <<"null">>] ELSE r
  BY DEF Callable
<1> HIDE DEF r
<1>3. <<"null">> \in Cells
  BY TokenCells
<1>4. r.cell = NoCell => /\ Callable(t, calls, i) \in Results
                         /\ Callable(t, calls, i).at = r.at /\ Callable(t, calls, i).bad = r.bad
  BY <1>1, <1>2, <1>3 DEF Results
<1>5. r.cell # NoCell => Callable(t, calls, i) = r
  BY <1>2
<1>6. QED BY <1>1, <1>4, <1>5 DEF r

\* list() gives a result, as each of the functions does.
LEMMA AnyListIs ==
  ASSUME NEW calls \in Tables, NEW i \in Positions
  PROVE  \E a \in Results, b \in Results, c \in Results :
           /\ a = calls["instruction"][i]
           /\ b = After(a, calls["data"][a.at])
           /\ c = After(b, calls["access"][b.at])
           /\ AnyList(calls, i) = IF a.cell # NoCell THEN a ELSE IF b.cell # NoCell THEN b ELSE c
<1> DEFINE a == calls["instruction"][i]
           b == After(a, calls["data"][a.at])
           c == After(b, calls["access"][b.at])
<1>1. a \in Results /\ a.at \in Positions
  BY TableGives, FunctionsAre
<1>2. b \in Results /\ b.at \in Positions
  <2> HIDE DEF a
  <2>1. calls["data"][a.at] \in Results /\ calls["data"][a.at].at \in Positions
    BY <1>1, TableGives, FunctionsAre
  <2>2. QED BY <1>1, <2>1, AfterIs
<1>3. c \in Results
  <2> HIDE DEF a, b
  <2>1. calls["access"][b.at] \in Results
    BY <1>2, TableGives, FunctionsAre
  <2>2. QED BY <1>2, <2>1, AfterIs
<1>4. AnyList(calls, i) = IF a.cell # NoCell THEN a ELSE IF b.cell # NoCell THEN b ELSE c
  BY DEF AnyList
<1>5. QED BY <1>1, <1>2, <1>3, <1>4

LEMMA ScanIs ==
  ASSUME NEW t \in Seq(Tokens), NEW calls \in Tables, NEW scan \in Functions,
         NEW close \in Tokens, NEW element \in Results, NEW i \in Positions
  PROVE  Scan(t, calls, scan, close, element, i) \in Results
<1>1. element.cell \in Cells /\ element.at \in Positions /\ i + 1 \in Positions
  BY DEF Results, Positions
<1>2. calls[scan][element.at] \in Results
  BY <1>1, TableGives
<1>3. After(element, calls[scan][element.at]) \in Results
  BY <1>2, AfterIs
<1>4. Before(element.cell, After(element, calls[scan][element.at])) \in Results
  BY <1>1, <1>3, BeforeIs
<1>5. <<close>> \in Cells
  BY TokenCells
<1>6. Result(<<close>>, i + 1, FALSE) \in Results /\ Failing(element.at) \in Results
  BY <1>1, <1>5, ResultIs, FailingIs
<1>7. QED BY <1>4, <1>6 DEF Scan

LEMMA GivesIs ==
  ASSUME NEW t \in Seq(Tokens), NEW calls \in Tables, NEW f \in Functions, NEW i \in Positions
  PROVE  Gives(t, calls, f, i) \in Results
<1>1. i + 1 \in Positions
  BY DEF Positions
<1>2. Failing(i) \in Results /\ NotHere(i) \in Results /\ Failing(i + 1) \in Results
  BY <1>1, FailingIs
<1>3. CASE f = "element"
  <2>1. AnyList(calls, i) \in Results
    BY AnyListIs
  <2>2. Current(t, i) \in {"x", "1"} => Result(<<Current(t, i)>>, i + 1, FALSE) \in Results
    <3>1. <<Current(t, i)>> \in Cells
      BY CurrentIs, TokenCells
    <3>2. QED BY <1>1, <3>1, ResultIs
  <2>3. QED BY <1>2, <1>3, <2>1, <2>2 DEF Gives
<1>4. CASE f = "instruction"
  <2> DEFINE c == Callable(t, calls, i + 1)
  <2>1. ASSUME Current(t, i + 1) \in Callables
        PROVE  Before(<<"(">> \o c.cell, After(c, calls["scan )"][c.at])) \in Results
    <3>1. c \in Results
      BY <1>1, <2>1, CallableIs
    <3> HIDE DEF c
    <3>2. c.cell \in Cells /\ c.at \in Positions
      BY <3>1 DEF Results
    <3>3. After(c, calls["scan )"][c.at]) \in Results
      BY <3>1, <3>2, TableGives, FunctionsAre, AfterIs
    <3>4. <<"(">> \o c.cell \in Cells
      <4>1. <<"(">> \in Cells
        BY TokenCells DEF Tokens
      <4>2. QED BY <3>2, <4>1, ConcatProperties DEF Cells
    <3>5. QED BY <3>3, <3>4, BeforeIs
  <2>2. QED BY <1>2, <1>4, <2>1 DEF Gives
<1>5. CASE f = "data"
  <2>1. <<"[">> \in Cells /\ calls["scan ]"][i + 1] \in Results
    BY <1>1, TokenCells, TableGives, FunctionsAre DEF Tokens
  <2>2. QED BY <1>2, <1>5, <2>1, BeforeIs DEF Gives
<1>6. CASE f = "access"
  <2>1. <<"{">> \in Cells /\ calls["scan }"][i + 1] \in Results
    BY <1>1, TokenCells, TableGives, FunctionsAre DEF Tokens
  <2>2. QED BY <1>2, <1>6, <2>1, BeforeIs DEF Gives
<1>7. /\ ")" \in Tokens /\ "]" \in Tokens /\ "}" \in Tokens
      /\ calls["element"][i] \in Results /\ Symbol(t, i) \in Results
  BY TableGives, FunctionsAre, SymbolIs DEF Tokens
<1>8. CASE f = "scan )"
  BY <1>7, <1>8, ScanIs DEF Gives
<1>9. CASE f = "scan ]"
  BY <1>7, <1>9, ScanIs DEF Gives
<1>10. CASE f = "scan }"
  BY <1>7, <1>10, ScanIs DEF Gives
<1>11. QED BY <1>3, <1>4, <1>5, <1>6, <1>8, <1>9, <1>10 DEF Functions

\* Calls is the recursion it is written as.
LEMMA CallsAre ==
  ASSUME NEW t \in Seq(Tokens)
  PROVE  /\ \A d \in Nat : Calls(t)[d] \in Tables
         /\ \A f \in Functions, i \in Positions : Calls(t)[0][f][i] = Failing(i)
         /\ \A d \in Nat \ {0}, f \in Functions, i \in Positions :
              Calls(t)[d][f][i] = Gives(t, Calls(t)[d - 1], f, i)
<1> DEFINE None == [f \in Functions |-> [i \in Positions |-> Failing(i)]]
           More(calls) == [f \in Functions |-> [i \in Positions |-> Gives(t, calls, f, i)]]
           F == [p \in Nat \X Tables |-> More(p[2])]
<1>1. None \in Tables
  BY FailingIs DEF Tables
<1>2. ASSUME NEW calls \in Tables PROVE More(calls) \in Tables
  BY GivesIs DEF Tables
<1>3. F \in [Nat \X Tables -> Tables]
  <2> HIDE DEF More
  <2>1. QED BY <1>2
<1>4. PICK g \in [Nat -> Tables] : Follows(g, None, F)
  <2> HIDE DEF F, None
  <2>1. QED BY <1>1, <1>3, Recursion
<1>5. /\ \A d \in Nat : g[d] \in Tables
      /\ g[0] = None /\ \A d \in Nat \ {0} : g[d] = More(g[d - 1])
  <2> HIDE DEF More, None
  <2>1. \A d \in Nat : g[d] \in Tables
    BY <1>4
  <2>2. g[0] = None /\ \A d \in Nat \ {0} : g[d] = F[<<d, g[d - 1]>>]
    <3> HIDE DEF F
    <3>1. QED BY <1>4 DEF Follows
  <2>3. ASSUME NEW d \in Nat \ {0} PROVE g[d] = More(g[d - 1])
    <3>1. d - 1 \in Nat
      OBVIOUS
    <3>2. <<d, g[d - 1]>> \in Nat \X Tables
      BY <2>1, <3>1
    <3>3. F[<<d, g[d - 1]>>] = More(g[d - 1])
      BY <3>2
    <3>4. QED BY <2>2, <3>3
  <2>4. QED BY <2>1, <2>2, <2>3
<1> DEFINE Is(h) == h = [d \in Nat |-> [f \in Functions |-> [i \in Positions |->
                           IF d = 0 THEN Failing(i) ELSE Gives(t, h[d - 1], f, i)]]]
<1>6. Is(g)
  <2>1. ASSUME NEW d \in Nat
        PROVE  g[d] = [f \in Functions |-> [i \in Positions |->
                         IF d = 0 THEN Failing(i) ELSE Gives(t, g[d - 1], f, i)]]
    <3>1. CASE d = 0
      BY <1>5, <3>1
    <3>2. CASE d # 0
      <4>1. d \in Nat \ {0}
        BY <3>2
      <4>2. QED BY <1>5, <3>2, <4>1
    <3>3. QED BY <3>1, <3>2
  <2>2. g = [d \in Nat |-> g[d]]
    BY <1>4
  <2>3. QED BY <2>1, <2>2
<1>7. Is(Calls(t))
  <2>1. Calls(t) = CHOOSE h : Is(h)
    BY DEF Calls, Positions
  <2> HIDE DEF Is
  <2>2. QED BY <1>6, <2>1
<1> DEFINE C == Calls(t)
<1>8. ASSUME NEW d \in Nat
      PROVE  C[d] = [f \in Functions |-> [i \in Positions |->
                         IF d = 0 THEN Failing(i) ELSE Gives(t, C[d - 1], f, i)]]
  BY <1>7
<1>9. ASSUME NEW d \in Nat, NEW f \in Functions, NEW i \in Positions
      PROVE  C[d][f][i] = IF d = 0 THEN Failing(i) ELSE Gives(t, C[d - 1], f, i)
  <2> HIDE DEF C, Is
  <2>1. C[d][f] = [j \in Positions |-> IF d = 0 THEN Failing(j) ELSE Gives(t, C[d - 1], f, j)]
    BY <1>8
  <2>2. QED BY <2>1
<1>10. \A d \in Nat : C[d] \in Tables
  <2> HIDE DEF C, Is
  <2> DEFINE Good == {d \in Nat : C[d] \in Tables}
  <2>1. 0 \in Good
    <3>1. C[0] = None
      <4>1. C[0] = [f \in Functions |-> [i \in Positions |->
                      IF 0 = 0 THEN Failing(i) ELSE Gives(t, C[0 - 1], f, i)]]
        BY <1>8
      <4>2. QED BY <4>1
    <3>2. QED BY <1>1, <3>1
  <2>2. ASSUME NEW d \in Nat, d \in Good PROVE d + 1 \in Good
    <3>1. d + 1 \in Nat /\ d + 1 # 0 /\ (d + 1) - 1 = d
      OBVIOUS
    <3>2. C[d + 1] = More(C[d])
      BY <1>8, <3>1
    <3>3. More(C[d]) \in Tables
      BY <1>2, <2>2
    <3>4. QED BY <3>1, <3>2, <3>3
  <2>3. \A d \in Nat : d \in Good
    <3> HIDE DEF Good
    <3>1. QED BY <2>1, <2>2, Induction
  <2>4. QED BY <2>3
<1>11. QED BY <1>9, <1>10

(***************************************************************************)
(* What the parser reads.                                                  *)
(***************************************************************************)

\* c is the tokens from i to before j.
Spans(t, i, j, c) == i < j /\ j <= Len(t) + 1 /\ c = SubSeq(t, i, j - 1)

LEMMA SpansOne ==
  ASSUME NEW t \in Seq(Tokens), NEW i \in 1 .. Len(t) PROVE Spans(t, i, i + 1, <<t[i]>>)
<1>1. Len(t) \in Nat /\ i \in Nat /\ i - 1 \in 0 .. Len(t) /\ t[i] \in Tokens
  BY LenProperties, ElementOfSeq
<1>2. SubSeq(t, i, i) = <<t[i]>> \o SubSeq(t, i + 1, i)
  <2>1. i \in i .. Len(t)
    BY <1>1
  <2>2. QED BY <2>1, SubSeqRecursiveFirst
<1>3. SubSeq(t, i + 1, i) = << >>
  BY <1>1, SubSeqEmpty
<1>4. <<t[i]>> \o << >> = <<t[i]>>
  <2>1. <<t[i]>> \in Seq(Tokens)
    BY <1>1
  <2>2. QED BY <2>1, ConcatEmptySeq
<1>5. (i + 1) - 1 = i /\ i < i + 1 /\ i + 1 <= Len(t) + 1
  BY <1>1
<1>6. QED BY <1>2, <1>3, <1>4, <1>5 DEF Spans

LEMMA SpansJoin ==
  ASSUME NEW t \in Seq(Tokens), NEW i \in Positions, NEW j \in Positions, NEW k \in Positions,
         NEW c, NEW d, Spans(t, i, j, c), Spans(t, j, k, d)
  PROVE  Spans(t, i, k, c \o d)
<1>1. Len(t) \in Nat
  BY LenProperties
<1>2. i < j /\ j < k /\ k <= Len(t) + 1 /\ c = SubSeq(t, i, j - 1) /\ d = SubSeq(t, j, k - 1)
  BY DEF Spans
<1>3. i \in 1 .. Len(t) + 1 /\ j - 1 \in i - 1 .. Len(t) /\ k - 1 \in j - 1 .. Len(t) /\ (j - 1) + 1 = j
  BY <1>1, <1>2 DEF Positions
<1>4. SubSeq(t, i, j - 1) \o SubSeq(t, (j - 1) + 1, k - 1) = SubSeq(t, i, k - 1)
  BY <1>3, ConcatAdjacentSubSeq
<1>5. i < k
  BY <1>2 DEF Positions
<1>6. QED BY <1>2, <1>3, <1>4, <1>5 DEF Spans

Scans == {"scan )", "scan ]", "scan }"}

\* In which lists a function of the parser is right, and what is open after it.
Admits(f) == CASE f = "instruction"        -> {"top", "(!", "(", "["}
               [] f = "access"             -> {"(!", "(", "["}
               [] f \in {"data", "element"} -> {"(", "["}
               [] f = "scan )" -> {"("} [] f = "scan ]" -> {"["} [] f = "scan }" -> {"{"}
LeftBy(f, s) == IF f \in Scans THEN Closed(s) ELSE Called(s)

Turns(t, f, i, j) ==
  Innermost(OpenAfter(t)[i - 1]) \in Admits(f) => OpenAfter(t)[j - 1] = LeftBy(f, OpenAfter(t)[i - 1])

\* The function has nothing to read there.
Absent(t, f, i) ==
  \/ f = "element" \/ (f = "instruction" /\ Current(t, i) # "(")
  \/ (f = "data" /\ Current(t, i) # "[") \/ (f = "access" /\ Current(t, i) # "{")

\* What a function reads, if it reports no error, is what is written.
Reads(t, f, i, r) ==
  /\ r.at >= i
  /\ \/ r.bad
     \/ r.cell = NoCell /\ r.at = i /\ Absent(t, f, i)
     \/ f = "element" /\ i > Len(t)
     \/ r.cell # NoCell /\ Spans(t, i, r.at, r.cell) /\ Turns(t, f, i, r.at)

AllRead(t, calls) == \A f \in Functions, i \in Positions : Reads(t, f, i, calls[f][i])

\* What is open before and after a token.
LEMMA OpenAt ==
  ASSUME NEW t \in Seq(Tokens), NEW i \in 1 .. Len(t)
  PROVE  /\ OpenAfter(t)[i - 1] \in Stacks /\ OpenAfter(t)[i] \in Stacks
         /\ OpenAfter(t)[i] = Opened(OpenAfter(t)[i - 1], t[i])
<1>1. Len(t) \in Nat /\ i - 1 \in 0 .. Len(t) /\ i \in 0 .. Len(t)
  BY LenProperties
<1>2. QED BY <1>1, OpenAfterIs

\* symbol() where only symbols are expected
LEMMA SymbolReads ==
  ASSUME NEW t \in Seq(Tokens), NEW i \in Positions, Current(t, i) = "x",
         NEW f, f \in {"element", "access"} \/ f = "symbol"
  PROVE  /\ Spans(t, i, i + 1, <<"x">>)
         /\ Innermost(OpenAfter(t)[i - 1]) \in {"(!", "(", "[", "{"}
              => OpenAfter(t)[i] = Called(OpenAfter(t)[i - 1])
<1>1. i \in 1 .. Len(t) /\ t[i] = "x"
  BY CurrentIs
<1>2. Spans(t, i, i + 1, <<"x">>)
  BY <1>1, SpansOne
<1>3. OpenAfter(t)[i] = Opened(OpenAfter(t)[i - 1], "x")
  BY <1>1, OpenAt
<1>4. QED BY <1>2, <1>3 DEF Opened

\* a scan of a list to its end
LEMMA ScanReads ==
  ASSUME NEW t \in Seq(Tokens), NEW calls \in Tables, AllRead(t, calls),
         NEW scan \in Scans, NEW close, NEW element \in Results, NEW i \in Positions,
         close = (CASE scan = "scan )" -> ")" [] scan = "scan ]" -> "]" [] scan = "scan }" -> "}"),
         element.at >= i,
         element.bad \/ element.cell = NoCell \/ element.at > Len(t)
           \/ /\ Spans(t, i, element.at, element.cell)
              /\ Innermost(OpenAfter(t)[i - 1]) \in Admits(scan)
                   => OpenAfter(t)[element.at - 1] = OpenAfter(t)[i - 1]
  PROVE  Reads(t, scan, i, Scan(t, calls, scan, close, element, i))
<1> DEFINE r == Scan(t, calls, scan, close, element, i)
           j == element.at
           q == calls[scan][j]
           U == OpenAfter(t)
<1>1. element.cell \in Cells /\ j \in Positions /\ i + 1 \in Positions /\ scan \in Functions
  <2>1. element.cell \in Cells /\ j \in Positions
    BY DEF Results
  <2>2. i + 1 \in Positions
    BY NextPosition
  <2>3. scan \in Functions
    BY DEF Scans, Functions
  <2>4. QED BY <2>1, <2>2, <2>3
<1>2. close \in {")", "]", "}"} /\ close \in Tokens
  <2>1. close \in {")", "]", "}"}
    BY DEF Scans
  <2>2. QED BY <2>1 DEF Tokens
<1>3. CASE Current(t, i) = close
  <2>1. i \in 1 .. Len(t) /\ t[i] = close
    BY <1>2, <1>3, CurrentIs
  <2>2. r = Result(<<close>>, i + 1, FALSE) /\ <<close>> \in Cells /\ <<close>> # NoCell
    BY <1>2, <1>3, TokenCells DEF Scan
  <2>3. r.cell = <<close>> /\ r.at = i + 1 /\ r.bad = FALSE
    <3> HIDE DEF r
    <3>1. QED BY <1>1, <2>2, ResultIs
  <2>4. Spans(t, i, i + 1, <<close>>)
    BY <2>1, SpansOne
  <2>5. U[i] = Opened(U[i - 1], close)
    BY <2>1, OpenAt
  <2>6. Innermost(U[i - 1]) \in Admits(scan) => U[i] = Closed(U[i - 1])
    <3>1. CASE scan = "scan )"
      <4>1. Innermost(U[i - 1]) \in Admits(scan) => Innermost(U[i - 1]) = "("
        BY <3>1 DEF Admits
      <4>2. close = ")"
        BY <3>1
      <4>3. QED BY <2>5, <4>1, <4>2 DEF Opened
    <3>2. CASE scan = "scan ]"
      <4>1. Innermost(U[i - 1]) \in Admits(scan) => Innermost(U[i - 1]) = "["
        BY <3>2 DEF Admits
      <4>2. close = "]"
        BY <3>2
      <4>3. QED BY <2>5, <4>1, <4>2 DEF Opened
    <3>3. CASE scan = "scan }"
      <4>1. Innermost(U[i - 1]) \in Admits(scan) => Innermost(U[i - 1]) = "{"
        BY <3>3 DEF Admits
      <4>2. close = "}"
        BY <3>3
      <4>3. QED BY <2>5, <4>1, <4>2 DEF Opened
    <3>4. QED BY <3>1, <3>2, <3>3 DEF Scans
  <2>7. (i + 1) - 1 = i /\ i + 1 >= i
    BY NextPosition
  <2>8. Turns(t, scan, i, i + 1)
    BY <2>6, <2>7 DEF Turns, LeftBy
  <2> HIDE DEF r
  <2>9. Reads(t, scan, i, r)
    BY <2>2, <2>3, <2>4, <2>7, <2>8 DEF Reads
  <2>10. QED BY <2>9 DEF r
<1>4. CASE Current(t, i) # close /\ (element.cell = NoCell \/ j > Len(t))
  <2>1. r = Failing(j)
    BY <1>4 DEF Scan
  <2>2. r.at = j /\ r.bad
    <3> HIDE DEF r, j
    <3>1. QED BY <1>1, <2>1, FailingIs
  <2>3. QED BY <2>2 DEF Reads
<1>5. CASE Current(t, i) # close /\ element.cell # NoCell /\ ~ (j > Len(t))
  <2>1. r = Before(element.cell, After(element, q))
    BY <1>5 DEF Scan
  <2>2. q \in Results /\ Reads(t, scan, j, q)
    <3> HIDE DEF j
    <3>1. QED BY <1>1, TableGives DEF AllRead
  <2> HIDE DEF r, q
  <2>3. /\ After(element, q) \in Results /\ After(element, q).cell = q.cell /\ After(element, q).at = q.at
        /\ After(element, q).bad <=> q.bad \/ element.bad
    BY <2>2, AfterIs
  <2>4. /\ r.at = q.at /\ (r.bad <=> q.bad \/ element.bad)
        /\ q.cell # NoCell => r.cell = element.cell \o q.cell /\ r.cell # NoCell
    BY <1>1, <2>1, <2>3, BeforeIs
  <2>5. q.at >= j /\ q.at \in Positions /\ r.at >= i
    <3>1. q.at >= j
      BY <2>2 DEF Reads
    <3>2. q.at \in Positions
      BY <2>2 DEF Results
    <3>3. q.at >= i
      <4> HIDE DEF j
      <4>1. j >= i
        BY DEF j
      <4>2. QED BY <1>1, <3>1, <3>2, <4>1, LaterPosition
    <3>4. QED BY <2>4, <3>1, <3>2, <3>3
  <2>6. ASSUME ~ r.bad PROVE r.cell # NoCell /\ Spans(t, i, r.at, r.cell) /\ Turns(t, scan, i, r.at)
    <3>1. ~ q.bad /\ ~ element.bad
      BY <2>4, <2>6
    <3>2. q.cell # NoCell /\ Spans(t, j, q.at, q.cell) /\ Turns(t, scan, j, q.at)
      <4>1. scan # "element" /\ ~ Absent(t, scan, j)
        BY DEF Absent, Scans
      <4>2. QED BY <2>2, <3>1, <4>1 DEF Reads
    <3>3. Spans(t, i, j, element.cell)
      BY <1>5, <3>1
    <3>4. Spans(t, i, q.at, element.cell \o q.cell)
      <4> HIDE DEF j
      <4>1. QED BY <1>1, <2>5, <3>2, <3>3, SpansJoin
    <3>5. Innermost(U[i - 1]) \in Admits(scan) => U[j - 1] = U[i - 1]
      BY <1>5, <3>1
    <3>6. Turns(t, scan, i, q.at)
      BY <3>2, <3>5 DEF Turns
    <3>7. QED BY <2>4, <3>2, <3>4, <3>6
  <2>7. Reads(t, scan, i, r)
    BY <2>5, <2>6 DEF Reads
  <2>8. QED BY <2>7 DEF r
<1>6. QED BY <1>3, <1>4, <1>5

\* a list function at the bracket its list begins with
LEMMA ListReads ==
  ASSUME NEW t \in Seq(Tokens), NEW calls \in Tables, AllRead(t, calls), NEW i \in Positions,
         NEW f, NEW scan, NEW b,
         \/ f = "data" /\ scan = "scan ]" /\ b = "["
         \/ f = "access" /\ scan = "scan }" /\ b = "{"
  PROVE  Reads(t, f, i, IF Current(t, i) = b THEN Before(<<b>>, calls[scan][i + 1]) ELSE NotHere(i))
<1> DEFINE q == calls[scan][i + 1]
           r == Before(<<b>>, q)
           U == OpenAfter(t)
<1>1. /\ i + 1 \in Positions /\ (i + 1) - 1 = i /\ i + 1 >= i /\ scan \in Functions /\ scan \in Scans
      /\ b \in Tokens /\ b # "1"
  <2>1. scan \in Functions /\ scan \in Scans
    BY DEF Functions, Scans
  <2>2. b \in Tokens /\ b # "1"
    BY DEF Tokens
  <2>3. QED BY <2>1, <2>2, NextPosition
<1>2. CASE Current(t, i) # b
  <2>1. NotHere(i).cell = NoCell /\ NotHere(i).at = i /\ i >= i
    BY FailingIs, NextPosition
  <2>2. Absent(t, f, i)
    BY <1>2 DEF Absent
  <2>3. Reads(t, f, i, NotHere(i))
    BY <2>1, <2>2 DEF Reads
  <2>4. QED BY <1>2, <2>3
<1>3. CASE Current(t, i) = b
  <2>1. i \in 1 .. Len(t) /\ t[i] = b
    BY <1>1, <1>3, CurrentIs
  <2>2. q \in Results /\ Reads(t, scan, i + 1, q) /\ q.at \in Positions
    <3>1. q \in Results /\ Reads(t, scan, i + 1, q)
      BY <1>1, TableGives DEF AllRead
    <3>2. QED BY <3>1 DEF Results
  <2>3. <<b>> \in Cells
    BY <1>1, TokenCells
  <2> HIDE DEF q, r
  <2>4. /\ r.at = q.at /\ (r.bad <=> q.bad)
        /\ q.cell # NoCell => r.cell = <<b>> \o q.cell /\ r.cell # NoCell
    BY <2>2, <2>3, BeforeIs DEF r
  <2>5. r.at >= i
    <3>1. q.at >= i + 1
      BY <2>2 DEF Reads
    <3>2. QED BY <1>1, <2>2, <2>4, <3>1, LaterPosition
  <2>6. ASSUME ~ r.bad PROVE r.cell # NoCell /\ Spans(t, i, r.at, r.cell) /\ Turns(t, f, i, r.at)
    <3>1. q.cell # NoCell /\ Spans(t, i + 1, q.at, q.cell) /\ Turns(t, scan, i + 1, q.at)
      <4>1. scan # "element" /\ ~ Absent(t, scan, i + 1)
        BY <1>1 DEF Absent, Scans
      <4>2. QED BY <2>2, <2>4, <2>6, <4>1 DEF Reads
    <3>2. Spans(t, i, q.at, <<b>> \o q.cell)
      <4>1. Spans(t, i, i + 1, <<b>>)
        BY <2>1, SpansOne
      <4>2. QED BY <1>1, <2>2, <3>1, <4>1, SpansJoin
    <3>3. U[i] = Opened(U[i - 1], b) /\ U[i - 1] \in Stacks
      BY <2>1, OpenAt
    <3>4. Innermost(U[i]) \in Admits(scan) => U[q.at - 1] = Closed(U[i])
      BY <1>1, <3>1 DEF Turns, LeftBy
    <3>5. ASSUME Innermost(U[i - 1]) \in Admits(f) PROVE U[q.at - 1] = Called(U[i - 1])
      <4>1. Called(U[i - 1]) \in Stacks
        BY <3>3, CalledIs
      <4>2. U[i] = Append(Called(U[i - 1]), b)
        <5>1. CASE f = "data"
          <6>1. Innermost(U[i - 1]) \in {"(", "["} /\ b = "["
            BY <3>5, <5>1 DEF Admits
          <6>2. Called(U[i - 1]) = U[i - 1]
            BY <3>3, <6>1, CalledIs
          <6>3. QED BY <3>3, <6>1, <6>2 DEF Opened
        <5>2. CASE f = "access"
          <6>1. Innermost(U[i - 1]) \in {"(!", "(", "["} /\ b = "{"
            BY <3>5, <5>2 DEF Admits
          <6>2. QED BY <3>3, <6>1 DEF Opened
        <5>3. QED BY <5>1, <5>2
      <4>3. b \in Lists
        BY DEF Lists
      <4>4. Innermost(U[i]) = b /\ Closed(U[i]) = Called(U[i - 1])
        BY <4>1, <4>2, <4>3, PushAndPop
      <4>5. b \in Admits(scan)
        BY DEF Admits
      <4>6. QED BY <3>4, <4>4, <4>5
    <3>6. Turns(t, f, i, q.at)
      <4>1. f \notin Scans
        BY DEF Scans
      <4>2. QED BY <3>5, <4>1 DEF Turns, LeftBy
    <3>7. QED BY <2>4, <3>1, <3>2, <3>6
  <2>7. Reads(t, f, i, r)
    BY <2>5, <2>6 DEF Reads
  <2>8. QED BY <1>3, <2>7 DEF r, q
<1>4. QED BY <1>2, <1>3

\* instruction_list()
LEMMA InstructionReads ==
  ASSUME NEW t \in Seq(Tokens), NEW calls \in Tables, AllRead(t, calls), NEW i \in Positions
  PROVE  Reads(t, "instruction", i, Gives(t, calls, "instruction", i))
<1> DEFINE g == Gives(t, calls, "instruction", i)
           c == Callable(t, calls, i + 1)
           q == calls["scan )"][c.at]
           r == Before(<<"(">> \o c.cell, After(c, q))
           U == OpenAfter(t)
<1>1. /\ i + 1 \in Positions /\ (i + 1) - 1 = i /\ i + 1 >= i /\ "scan )" \in Functions
  BY NextPosition, FunctionsAre
<1>2. CASE Current(t, i) # "("
  <2>1. g = NotHere(i)
    BY <1>2 DEF Gives
  <2>2. NotHere(i).cell = NoCell /\ NotHere(i).at = i /\ i >= i
    BY FailingIs, NextPosition
  <2>3. Absent(t, "instruction", i)
    BY <1>2 DEF Absent
  <2>4. QED BY <2>1, <2>2, <2>3 DEF Reads
<1>3. CASE Current(t, i) = "(" /\ Current(t, i + 1) \notin Callables
  <2>1. g = Failing(i + 1)
    BY <1>3 DEF Gives
  <2>2. Failing(i + 1).at = i + 1 /\ Failing(i + 1).bad
    BY <1>1, FailingIs
  <2>3. QED BY <1>1, <2>1, <2>2 DEF Reads
<1>4. CASE Current(t, i) = "(" /\ Current(t, i + 1) \in Callables
  <2>1. g = r
    BY <1>4 DEF Gives
  <2>2. PICK a \in Results :
           /\ a = IF Current(t, i + 1) = "(" THEN calls["instruction"][i + 1]
                  ELSE IF Current(t, i + 1) = "{" THEN calls["access"][i + 1] ELSE Symbol(t, i + 1)
           /\ c \in Results /\ c.at = a.at /\ c.bad = a.bad
           /\ a.cell # NoCell => c.cell = a.cell
    BY <1>1, <1>4, CallableIs
  <2>3. c.cell \in Cells /\ c.at \in Positions /\ a.at \in Positions
    <3> HIDE DEF c
    <3>1. QED BY <2>2 DEF Results
  <2>4. i \in 1 .. Len(t) /\ t[i] = "("
    BY <1>4, CurrentIs
  <2>5. q \in Results /\ Reads(t, "scan )", c.at, q) /\ q.at \in Positions
    <3> HIDE DEF c
    <3>1. q \in Results /\ Reads(t, "scan )", c.at, q)
      BY <1>1, <2>3, TableGives DEF AllRead
    <3>2. QED BY <3>1 DEF Results
  <2>6. /\ c.at >= i + 1
        /\ ~ c.bad => /\ Spans(t, i + 1, c.at, c.cell)
                      /\ Innermost(U[i]) = "(!" => U[c.at - 1] = Called(U[i])
    <3> HIDE DEF c
    <3>1. CASE Current(t, i + 1) = "("
      <4>1. Reads(t, "instruction", i + 1, a)
        BY <1>1, <2>2, <3>1, FunctionsAre DEF AllRead
      <4>2. ~ Absent(t, "instruction", i + 1) /\ "instruction" # "element"
        BY <3>1 DEF Absent
      <4>3. ~ a.bad => a.cell # NoCell /\ Spans(t, i + 1, a.at, a.cell) /\ Turns(t, "instruction", i + 1, a.at)
        BY <4>1, <4>2 DEF Reads
      <4>4. "(!" \in Admits("instruction") /\ "instruction" \notin Scans
        BY DEF Admits, Scans
      <4>5. Turns(t, "instruction", i + 1, a.at) => (Innermost(U[i]) = "(!" => U[a.at - 1] = Called(U[i]))
        BY <1>1, <4>4 DEF Turns, LeftBy
      <4>6. a.at >= i + 1
        BY <4>1 DEF Reads
      <4>7. QED BY <2>2, <4>3, <4>5, <4>6
    <3>2. CASE Current(t, i + 1) = "{"
      <4>1. Reads(t, "access", i + 1, a)
        BY <1>1, <2>2, <3>2, FunctionsAre DEF AllRead
      <4>2. ~ Absent(t, "access", i + 1) /\ "access" # "element"
        BY <3>2 DEF Absent
      <4>3. ~ a.bad => a.cell # NoCell /\ Spans(t, i + 1, a.at, a.cell) /\ Turns(t, "access", i + 1, a.at)
        BY <4>1, <4>2 DEF Reads
      <4>4. "(!" \in Admits("access") /\ "access" \notin Scans
        BY DEF Admits, Scans
      <4>5. Turns(t, "access", i + 1, a.at) => (Innermost(U[i]) = "(!" => U[a.at - 1] = Called(U[i]))
        BY <1>1, <4>4 DEF Turns, LeftBy
      <4>6. a.at >= i + 1
        BY <4>1 DEF Reads
      <4>7. QED BY <2>2, <4>3, <4>5, <4>6
    <3>3. CASE Current(t, i + 1) = "x"
      <4>1. a = Symbol(t, i + 1)
        BY <2>2, <3>3
      <4>2. a.cell = <<"x">> /\ a.cell # NoCell /\ a.at = (i + 1) + 1
        BY <1>1, <3>3, <4>1, SymbolIs
      <4>3. Spans(t, i + 1, (i + 1) + 1, <<"x">>)
            /\ (Innermost(U[(i + 1) - 1]) \in {"(!", "(", "[", "{"} => U[i + 1] = Called(U[(i + 1) - 1]))
        BY <1>1, <3>3, SymbolReads
      <4>4. ((i + 1) + 1) - 1 = i + 1 /\ (i + 1) + 1 >= i + 1
        BY <1>1, NextPosition
      <4>5. QED BY <1>1, <2>2, <4>2, <4>3, <4>4
    <3>4. QED BY <1>4, <3>1, <3>2, <3>3 DEF Callables
  <2> HIDE DEF c, q, r, g
  <2>7. /\ After(c, q) \in Results /\ After(c, q).cell = q.cell /\ After(c, q).at = q.at
        /\ After(c, q).bad <=> q.bad \/ c.bad
    BY <2>2, <2>5, AfterIs
  <2>8. <<"(">> \o c.cell \in Cells
    <3>1. <<"(">> \in Cells
      BY TokenCells DEF Tokens
    <3>2. QED BY <2>3, <3>1, ConcatProperties DEF Cells
  <2>9. /\ r.at = q.at /\ (r.bad <=> q.bad \/ c.bad)
        /\ q.cell # NoCell => r.cell = (<<"(">> \o c.cell) \o q.cell /\ r.cell # NoCell
    BY <2>7, <2>8, BeforeIs DEF r
  <2>10. r.at >= i
    <3>1. q.at >= c.at
      BY <2>5 DEF Reads
    <3>2. q.at >= i + 1
      BY <1>1, <2>3, <2>5, <2>6, <3>1, LaterPosition
    <3>3. QED BY <1>1, <2>5, <2>9, <3>2, LaterPosition
  <2>11. ASSUME ~ r.bad PROVE r.cell # NoCell /\ Spans(t, i, r.at, r.cell) /\ Turns(t, "instruction", i, r.at)
    <3>1. ~ q.bad /\ ~ c.bad
      BY <2>9, <2>11
    <3>2. q.cell # NoCell /\ Spans(t, c.at, q.at, q.cell) /\ Turns(t, "scan )", c.at, q.at)
      <4>1. "scan )" # "element" /\ ~ Absent(t, "scan )", c.at)
        BY DEF Absent
      <4>2. QED BY <2>5, <3>1, <4>1 DEF Reads
    <3>3. Spans(t, i, c.at, <<"(">> \o c.cell)
      <4>1. Spans(t, i, i + 1, <<"(">>)
        BY <2>4, SpansOne
      <4>2. Spans(t, i + 1, c.at, c.cell)
        BY <2>6, <3>1
      <4>3. QED BY <1>1, <2>3, <4>1, <4>2, SpansJoin
    <3>4. Spans(t, i, q.at, (<<"(">> \o c.cell) \o q.cell)
      BY <2>3, <2>5, <3>2, <3>3, SpansJoin
    <3>5. U[i] = Opened(U[i - 1], "(") /\ U[i - 1] \in Stacks /\ U[i] \in Stacks
      BY <2>4, OpenAt
    <3>6. ASSUME Innermost(U[i - 1]) \in Admits("instruction") PROVE U[q.at - 1] = Called(U[i - 1])
      <4>1. Called(U[i - 1]) \in Stacks
        BY <3>5, CalledIs
      <4>2. U[i] = Append(Called(U[i - 1]), "(!")
        <5>1. Innermost(U[i - 1]) \in {"top", "(!", "(", "["}
          BY <3>6 DEF Admits
        <5>2. QED BY <3>5, <5>1 DEF Opened
      <4>3. "(!" \in Lists
        BY DEF Lists
      <4>4. Innermost(U[i]) = "(!" /\ Closed(U[i]) = Called(U[i - 1])
        BY <4>1, <4>2, <4>3, PushAndPop
      <4>5. U[c.at - 1] = Called(U[i])
        BY <2>6, <3>1, <4>4
      <4>6. Innermost(U[c.at - 1]) = "(" /\ Closed(U[c.at - 1]) = Called(U[i - 1])
        BY <3>5, <4>4, <4>5, CalledIs
      <4>7. "(" \in Admits("scan )") /\ "scan )" \in Scans
        BY DEF Admits, Scans
      <4>8. QED BY <3>2, <4>6, <4>7 DEF Turns, LeftBy
    <3>7. Turns(t, "instruction", i, q.at)
      <4>1. "instruction" \notin Scans
        BY DEF Scans
      <4>2. QED BY <3>6, <4>1 DEF Turns, LeftBy
    <3>8. QED BY <2>9, <3>2, <3>4, <3>7
  <2>12. Reads(t, "instruction", i, r)
    BY <2>10, <2>11 DEF Reads
  <2>13. QED BY <2>1, <2>12 DEF g
<1>5. QED BY <1>2, <1>3, <1>4

\* list(), from a position where a list may be
LEMMA AnyListReads ==
  ASSUME NEW t \in Seq(Tokens), NEW calls \in Tables, AllRead(t, calls), NEW i \in Positions
  PROVE  Reads(t, "element", i, AnyList(calls, i))
<1>1. PICK a \in Results, b \in Results, c \in Results :
           /\ a = calls["instruction"][i]
           /\ b = After(a, calls["data"][a.at])
           /\ c = After(b, calls["access"][b.at])
           /\ AnyList(calls, i) = IF a.cell # NoCell THEN a ELSE IF b.cell # NoCell THEN b ELSE c
  BY AnyListIs
<1> DEFINE p == calls["data"][a.at]
           q == calls["access"][b.at]
           r == AnyList(calls, i)
<1>2. a.at \in Positions /\ b.at \in Positions /\ c.at \in Positions /\ i >= i
  <2>1. a.at \in Positions /\ b.at \in Positions /\ c.at \in Positions
    BY <1>1 DEF Results
  <2>2. QED BY <2>1, NextPosition
<1>3. /\ p \in Results /\ q \in Results
      /\ Reads(t, "instruction", i, a) /\ Reads(t, "data", a.at, p) /\ Reads(t, "access", b.at, q)
  BY <1>1, <1>2, TableGives, FunctionsAre DEF AllRead
<1> HIDE DEF p, q
<1>4. /\ b.cell = p.cell /\ b.at = p.at /\ (b.bad <=> p.bad \/ a.bad)
      /\ c.cell = q.cell /\ c.at = q.at /\ (c.bad <=> q.bad \/ b.bad)
  <2>1. b = After(a, p) /\ c = After(b, q)
    BY <1>1 DEF p, q
  <2>2. b.cell = p.cell /\ b.at = p.at /\ (b.bad <=> p.bad \/ a.bad)
    BY <1>3, <2>1, AfterIs
  <2>3. c.cell = q.cell /\ c.at = q.at /\ (c.bad <=> q.bad \/ b.bad)
    BY <1>3, <2>1, AfterIs
  <2>4. QED BY <2>2, <2>3
<1>5. a.at >= i /\ b.at >= i /\ c.at >= i
  <2>1. a.at >= i /\ b.at >= a.at /\ c.at >= b.at
    BY <1>3, <1>4 DEF Reads
  <2>2. b.at >= i
    BY <1>2, <2>1, LaterPosition
  <2>3. QED BY <1>2, <2>1, <2>2, LaterPosition
<1>6. ASSUME NEW f \in {"instruction", "data", "access"}, NEW j \in Positions, Turns(t, f, i, j)
      PROVE  Turns(t, "element", i, j)
  <2>1. Admits("element") \subseteq Admits(f) /\ f \notin Scans /\ "element" \notin Scans
    <3>1. f \notin Scans /\ "element" \notin Scans
      BY DEF Scans
    <3>2. Admits("element") = {"(", "["}
      BY DEF Admits
    <3>3. CASE f = "instruction"
      BY <3>1, <3>2, <3>3 DEF Admits
    <3>4. CASE f = "data"
      BY <3>1, <3>2, <3>4 DEF Admits
    <3>5. CASE f = "access"
      BY <3>1, <3>2, <3>5 DEF Admits
    <3>6. QED BY <3>3, <3>4, <3>5
  <2>2. QED BY <1>6, <2>1 DEF Turns, LeftBy
<1>7. CASE a.bad
  <2>1. r.bad /\ r.at >= i
    BY <1>1, <1>4, <1>5, <1>7
  <2>2. QED BY <2>1 DEF Reads
<1>8. CASE ~ a.bad /\ a.cell # NoCell
  <2>1. Spans(t, i, a.at, a.cell) /\ Turns(t, "instruction", i, a.at)
    BY <1>3, <1>8 DEF Reads
  <2>2. QED BY <1>1, <1>2, <1>5, <1>6, <1>8, <2>1 DEF Reads
<1>9. CASE ~ a.bad /\ a.cell = NoCell
  <2>1. a.at = i
    BY <1>3, <1>9 DEF Reads
  <2>2. r = IF b.cell # NoCell THEN b ELSE c
    BY <1>1, <1>9
  <2>3. CASE b.bad
    <3>1. r.bad /\ r.at >= i
      BY <1>4, <1>5, <2>2, <2>3
    <3>2. QED BY <3>1 DEF Reads
  <2>4. CASE ~ b.bad /\ b.cell # NoCell
    <3>1. Spans(t, i, b.at, b.cell) /\ Turns(t, "data", i, b.at)
      BY <1>3, <1>4, <2>1, <2>4 DEF Reads
    <3>2. QED BY <1>2, <1>5, <1>6, <2>2, <2>4, <3>1 DEF Reads
  <2>5. CASE ~ b.bad /\ b.cell = NoCell
    <3>1. b.at = i /\ r = c
      BY <1>3, <1>4, <2>1, <2>2, <2>5 DEF Reads
    <3>2. CASE c.bad
      BY <1>5, <3>1, <3>2 DEF Reads
    <3>3. CASE ~ c.bad /\ c.cell # NoCell
      <4>1. Spans(t, i, c.at, c.cell) /\ Turns(t, "access", i, c.at)
        BY <1>3, <1>4, <3>1, <3>3 DEF Reads
      <4>2. QED BY <1>2, <1>5, <1>6, <3>1, <3>3, <4>1 DEF Reads
    <3>4. CASE ~ c.bad /\ c.cell = NoCell
      <4>1. c.at = i
        BY <1>3, <1>4, <3>1, <3>4 DEF Reads
      <4>2. QED BY <1>5, <3>1, <3>4, <4>1 DEF Reads, Absent
    <3>5. QED BY <3>2, <3>3, <3>4
  <2>6. QED BY <2>3, <2>4, <2>5
<1>10. QED BY <1>7, <1>8, <1>9

\* element()
LEMMA ElementReads ==
  ASSUME NEW t \in Seq(Tokens), NEW calls \in Tables, AllRead(t, calls), NEW i \in Positions
  PROVE  Reads(t, "element", i, Gives(t, calls, "element", i))
<1> DEFINE g == Gives(t, calls, "element", i)
           U == OpenAfter(t)
<1>1. i + 1 \in Positions /\ (i + 1) - 1 = i /\ i + 1 >= i /\ i >= i
  BY NextPosition
<1>2. CASE Current(t, i) = "!"
  <2>1. g = Failing(i)
    BY <1>2 DEF Gives
  <2>2. Failing(i).at = i /\ Failing(i).bad
    BY FailingIs
  <2>3. QED BY <1>1, <2>1, <2>2 DEF Reads
<1>3. CASE Current(t, i) \in {"x", "1"}
  <2>1. g = Result(<<Current(t, i)>>, i + 1, FALSE)
    BY <1>3 DEF Gives
  <2>2. <<Current(t, i)>> \in Cells /\ <<Current(t, i)>> # NoCell
    BY CurrentIs, TokenCells
  <2>3. g.cell = <<Current(t, i)>> /\ g.at = i + 1 /\ g.bad = FALSE
    <3> HIDE DEF g
    <3>1. QED BY <1>1, <2>1, <2>2, ResultIs
  <2> HIDE DEF g
  <2> DEFINE c == <<Current(t, i)>>
             j == i + 1
  <2> HIDE DEF c, j
  <2>8. g.cell = c /\ g.at = j /\ j >= i /\ c # NoCell
    BY <1>1, <2>2, <2>3 DEF c, j
  <2>4. ASSUME i > Len(t) PROVE Reads(t, "element", i, g)
    BY <2>4, <2>8 DEF Reads
  <2>5. ASSUME ~ (i > Len(t)) PROVE Reads(t, "element", i, g)
    <3>1. i \in 1 .. Len(t)
      BY <2>5, PositionOfToken
    <3>2. Current(t, i) = t[i] /\ Spans(t, i, i + 1, <<t[i]>>)
      BY <3>1, CurrentIs, SpansOne
    <3>3. U[i] = Opened(U[i - 1], t[i]) /\ U[i - 1] \in Stacks
      BY <3>1, OpenAt
    <3>4. ASSUME Innermost(U[i - 1]) \in {"(", "["} PROVE U[i] = Called(U[i - 1])
      <4>1. Called(U[i - 1]) = U[i - 1]
        BY <3>3, <3>4, CalledIs
      <4>2. CASE t[i] = "x"
        BY <3>3, <3>4, <4>2 DEF Opened
      <4>3. CASE t[i] = "1"
        BY <3>3, <3>4, <4>1, <4>3 DEF Opened
      <4>4. QED BY <1>3, <3>2, <4>2, <4>3
    <3>5. Turns(t, "element", i, i + 1)
      <4>1. Admits("element") = {"(", "["} /\ "element" \notin Scans
        BY DEF Admits, Scans
      <4>2. Innermost(U[i - 1]) \in Admits("element") => U[(i + 1) - 1] = LeftBy("element", U[i - 1])
        BY <1>1, <3>4, <4>1 DEF LeftBy
      <4>3. QED BY <4>2 DEF Turns
    <3>6. Spans(t, i, j, c) /\ Turns(t, "element", i, j)
      BY <3>2, <3>5 DEF c, j
    <3>7. QED BY <2>8, <3>6 DEF Reads
  <2>6. Reads(t, "element", i, g)
    BY <2>4, <2>5
  <2>7. QED BY <2>6 DEF g
<1>4. CASE Current(t, i) \notin {"x", "1", "!"}
  <2>1. g = AnyList(calls, i)
    BY <1>4 DEF Gives
  <2>2. QED BY <2>1, AnyListReads
<1>5. QED BY <1>2, <1>3, <1>4

\* If what a function calls reads what is written, so does the function.
LEMMA GivesReads ==
  ASSUME NEW t \in Seq(Tokens), NEW calls \in Tables, AllRead(t, calls), NEW f \in Functions, NEW i \in Positions
  PROVE  Reads(t, f, i, Gives(t, calls, f, i))
<1>1. CASE f = "element"
  BY <1>1, ElementReads
<1>2. CASE f = "instruction"
  BY <1>2, InstructionReads
<1>3. CASE f = "data"
  <2>1. Gives(t, calls, f, i)
          = IF Current(t, i) = "[" THEN Before(<<"[">>, calls["scan ]"][i + 1]) ELSE NotHere(i)
    BY <1>3 DEF Gives
  <2>2. Reads(t, "data", i, IF Current(t, i) = "[" THEN Before(<<"[">>, calls["scan ]"][i + 1]) ELSE NotHere(i))
    BY ListReads
  <2>3. QED BY <1>3, <2>1, <2>2
<1>4. CASE f = "access"
  <2>1. Gives(t, calls, f, i)
          = IF Current(t, i) = "{" THEN Before(<<"{">>, calls["scan }"][i + 1]) ELSE NotHere(i)
    BY <1>4 DEF Gives
  <2>2. Reads(t, "access", i, IF Current(t, i) = "{" THEN Before(<<"{">>, calls["scan }"][i + 1]) ELSE NotHere(i))
    BY ListReads
  <2>3. QED BY <1>4, <2>1, <2>2
<1> DEFINE e == calls["element"][i]
           s == Symbol(t, i)
           U == OpenAfter(t)
<1>5. /\ e \in Results /\ Reads(t, "element", i, e)
  BY TableGives, FunctionsAre DEF AllRead
<1>6. ASSUME NEW scan \in {"scan )", "scan ]"}
      PROVE  /\ e.at >= i
             /\ e.bad \/ e.cell = NoCell \/ e.at > Len(t)
                  \/ /\ Spans(t, i, e.at, e.cell)
                     /\ Innermost(U[i - 1]) \in Admits(scan) => U[e.at - 1] = U[i - 1]
  <2> HIDE DEF e
  <2>1. e.at >= i
    BY <1>5 DEF Reads
  <2>2. ASSUME ~ e.bad, e.cell # NoCell, ~ (e.at > Len(t))
        PROVE  /\ Spans(t, i, e.at, e.cell)
               /\ Innermost(U[i - 1]) \in Admits(scan) => U[e.at - 1] = U[i - 1]
    <3>1. ~ (i > Len(t))
      <4>1. e.at \in Positions
        BY <1>5 DEF Results
      <4>2. QED BY <2>1, <2>2, <4>1, EarlierPosition
    <3>2. Spans(t, i, e.at, e.cell) /\ Turns(t, "element", i, e.at)
      BY <1>5, <2>2, <3>1 DEF Reads
    <3>3. Admits(scan) \subseteq {"(", "["} /\ Admits("element") = {"(", "["} /\ "element" \notin Scans
      BY DEF Admits, Scans
    <3>4. ASSUME Innermost(U[i - 1]) \in Admits(scan) PROVE U[e.at - 1] = U[i - 1]
      <4>1. i \in 1 .. Len(t)
        BY <3>1, PositionOfToken
      <4>2. U[i - 1] \in Stacks
        BY <4>1, OpenAt
      <4>3. Innermost(U[i - 1]) \in {"(", "["}
        BY <3>3, <3>4
      <4>4. U[e.at - 1] = Called(U[i - 1])
        BY <3>2, <3>3, <4>3 DEF Turns, LeftBy
      <4>5. QED BY <4>2, <4>3, <4>4, CalledIs
    <3>5. QED BY <3>2, <3>4
  <2>3. QED BY <2>1, <2>2
<1>7. /\ s \in Results /\ s.at >= i
      /\ s.bad \/ s.cell = NoCell \/ s.at > Len(t)
           \/ /\ Spans(t, i, s.at, s.cell)
              /\ Innermost(U[i - 1]) \in Admits("scan }") => U[s.at - 1] = U[i - 1]
  <2>1. CASE Current(t, i) # "x"
    <3>1. s \in Results /\ s.cell = NoCell /\ s.at = i /\ i >= i
      BY <2>1, SymbolIs, NextPosition
    <3>2. QED BY <3>1
  <2>2. CASE Current(t, i) = "x"
    <3>1. s \in Results /\ s.cell = <<"x">> /\ s.at = i + 1 /\ (i + 1) - 1 = i /\ i + 1 >= i
      BY <2>2, SymbolIs, NextPosition
    <3> HIDE DEF s
    <3>2. /\ Spans(t, i, i + 1, <<"x">>)
          /\ Innermost(U[i - 1]) \in {"(!", "(", "[", "{"} => U[i] = Called(U[i - 1])
      BY <2>2, SymbolReads
    <3>3. ASSUME Innermost(U[i - 1]) \in Admits("scan }") PROVE U[i] = U[i - 1]
      <4>1. Innermost(U[i - 1]) = "{"
        BY <3>3 DEF Admits
      <4>2. i \in 1 .. Len(t)
        BY <2>2, CurrentIs
      <4>3. U[i - 1] \in Stacks
        BY <4>2, OpenAt
      <4>4. QED BY <3>2, <4>1, <4>3, CalledIs
    <3>4. QED BY <3>1, <3>2, <3>3
  <2>3. QED BY <2>1, <2>2
<1> HIDE DEF e, s
<1>8. CASE f = "scan )"
  <2>1. Gives(t, calls, f, i) = Scan(t, calls, f, ")", e, i) /\ f \in Scans
    BY <1>8 DEF Gives, e, Scans
  <2>2. Reads(t, f, i, Scan(t, calls, f, ")", e, i))
    BY <1>5, <1>6, <1>8, <2>1, ScanReads
  <2>3. QED BY <2>1, <2>2
<1>9. CASE f = "scan ]"
  <2>1. Gives(t, calls, f, i) = Scan(t, calls, f, "]", e, i) /\ f \in Scans
    BY <1>9 DEF Gives, e, Scans
  <2>2. Reads(t, f, i, Scan(t, calls, f, "]", e, i))
    BY <1>5, <1>6, <1>9, <2>1, ScanReads
  <2>3. QED BY <2>1, <2>2
<1>10. CASE f = "scan }"
  <2>1. Gives(t, calls, f, i) = Scan(t, calls, f, "}", s, i) /\ f \in Scans
    BY <1>10 DEF Gives, s, Scans
  <2>2. Reads(t, f, i, Scan(t, calls, f, "}", s, i))
    BY <1>7, <1>10, <2>1, ScanReads
  <2>3. QED BY <2>1, <2>2
<1>11. QED BY <1>1, <1>2, <1>3, <1>4, <1>8, <1>9, <1>10 DEF Functions

\* However deep the calls nest, what the parser reads is what is written.
LEMMA CallsReads == ASSUME NEW t \in Seq(Tokens), NEW d \in Nat PROVE AllRead(t, Calls(t)[d])
<1> DEFINE C == Calls(t)
           Good == {n \in Nat : AllRead(t, C[n])}
<1>1. 0 \in Good
  <2>1. ASSUME NEW f \in Functions, NEW i \in Positions PROVE Reads(t, f, i, C[0][f][i])
    <3>1. C[0][f][i] = Failing(i)
      BY CallsAre
    <3>2. Failing(i).at = i /\ Failing(i).bad /\ i >= i
      BY FailingIs, NextPosition
    <3>3. QED BY <3>1, <3>2 DEF Reads
  <2>2. QED BY <2>1 DEF AllRead
<1>2. ASSUME NEW n \in Nat, n \in Good PROVE n + 1 \in Good
  <2>1. n + 1 \in Nat \ {0} /\ (n + 1) - 1 = n
    OBVIOUS
  <2>2. C[n] \in Tables /\ AllRead(t, C[n])
    BY <1>2, CallsAre
  <2>3. ASSUME NEW f \in Functions, NEW i \in Positions PROVE Reads(t, f, i, C[n + 1][f][i])
    <3>1. C[n + 1][f][i] = Gives(t, C[n], f, i)
      BY <2>1, CallsAre
    <3>2. QED BY <2>2, <3>1, GivesReads
  <2>4. QED BY <2>1, <2>3 DEF AllRead
<1>3. \A n \in Nat : n \in Good
  <2> HIDE DEF Good
  <2>1. QED BY <1>1, <1>2, Induction
<1>4. QED BY <1>3

\* What the parser takes for an instruction is a program the tokens begin with.
THEOREM ParseReads ==
  ASSUME NEW t \in Seq(Tokens)
  PROVE  /\ Parse(t) \in Results
         /\ ~ Parse(t).bad => \E n \in 1 .. Len(t) : Parse(t).cell = SubSeq(t, 1, n) /\ Program(SubSeq(t, 1, n))
<1> DEFINE d == MaxCalls(t)
           r == Calls(t)[d]["instruction"][1]
<1>1. Len(t) \in Nat /\ d \in Nat /\ 1 \in Positions
  <2>1. Len(t) \in Nat
    BY LenProperties
  <2>2. QED BY <2>1 DEF MaxCalls, Positions
<1>2. r \in Results /\ Reads(t, "instruction", 1, r)
  <2> HIDE DEF d
  <2>1. Calls(t)[d] \in Tables /\ AllRead(t, Calls(t)[d])
    BY <1>1, CallsAre, CallsReads
  <2>2. QED BY <1>1, <2>1, TableGives, FunctionsAre DEF AllRead
<1>3. Parse(t) = [r EXCEPT !.bad = @ \/ r.cell = NoCell]
  BY DEF Parse
<1> HIDE DEF r, d
<1>4. /\ Parse(t) \in Results /\ Parse(t).cell = r.cell
      /\ ~ Parse(t).bad => ~ r.bad /\ r.cell # NoCell
  BY <1>2, <1>3 DEF Results
<1>5. ASSUME ~ Parse(t).bad
      PROVE  \E n \in 1 .. Len(t) : Parse(t).cell = SubSeq(t, 1, n) /\ Program(SubSeq(t, 1, n))
  <2>1. Spans(t, 1, r.at, r.cell) /\ Turns(t, "instruction", 1, r.at)
    BY <1>2, <1>4, <1>5 DEF Reads
  <2> DEFINE n == r.at - 1
             U == OpenAfter(t)
  <2>2. r.at \in Nat /\ 1 < r.at /\ r.at <= Len(t) + 1 /\ r.cell = SubSeq(t, 1, n)
    BY <1>2, <2>1 DEF Spans, Results, Positions
  <2>3. n \in 1 .. Len(t) /\ n \in 0 .. Len(t)
    BY <1>1, <2>2
  <2>4. U[0] = << >> /\ 1 - 1 = 0 /\ << >> \in Stacks
    BY OpenAfterIs, EmptySeq DEF Stacks
  <2>5. Innermost(U[0]) \in Admits("instruction") /\ "instruction" \notin Scans
    BY <2>4 DEF Innermost, Admits, Scans
  <2>6. U[n] = Called(U[0])
    BY <2>1, <2>4, <2>5 DEF Turns, LeftBy
  <2>7. Called(U[0]) = << >>
    BY <2>4 DEF Called, Innermost
  <2>8. Nesting(SubSeq(t, 1, n)) = << >>
    <3> HIDE DEF n
    <3>1. QED BY <2>3, <2>6, <2>7, NestingOfPrefix
  <2>9. QED BY <1>4, <2>2, <2>3, <2>8 DEF Program
<1>6. QED BY <1>4, <1>5


(***************************************************************************)
(* Every program is parsed.                                                *)
(***************************************************************************)

\* The function can be called at the position: it has something to read there.
Present(t, f, i) ==
  /\ f = "instruction" => t[i] = "("
  /\ f = "data" => t[i] = "["
  /\ f = "access" => t[i] = "{"
  /\ f = "element" => t[i] \notin {")", "]", "}"}
Starts(t, f, i) == i \in 1 .. Len(t) /\ Innermost(OpenAfter(t)[i - 1]) \in Admits(f) /\ Present(t, f, i)

\* The calls it needs at the most.
Spare(f) == IF f \in Scans THEN 0 ELSE IF f = "element" THEN 1 ELSE 2
Enough(t, d, k, i) == d + k >= 3 * ((Len(t) + 1) - i)

Fine(r) == ~ r.bad /\ r.cell # NoCell

\* Whatever is ready to be read is, by calls that nest up to d.
AllFine(t, d) ==
  \A f \in Functions, i \in Positions :
    Starts(t, f, i) /\ Enough(t, d, Spare(f), i) => Fine(Calls(t)[d][f][i])

LEMMA PositionWithin == ASSUME NEW T, NEW t \in Seq(T), NEW i \in 1 .. Len(t) PROVE i \in 0 .. Len(t)
<1>1. Len(t) \in Nat
  BY LenProperties
<1>2. QED BY <1>1

LEMMA SpareCalls == 0 \in 0 .. 2 /\ 1 \in 0 .. 2 /\ 2 \in 0 .. 2 /\ 2 > 1 /\ 1 > 0 /\ 1 < 2 /\ 0 < 2
OBVIOUS

LEMMA EnoughInside ==
  ASSUME NEW T, NEW t \in Seq(T), NEW i \in 1 .. Len(t), NEW e \in Nat, NEW k \in 0 .. 2, Enough(t, e + 1, k, i)
  PROVE  /\ \A l \in 0 .. 2 : l > k => Enough(t, e, l, i)
         /\ \A l \in 0 .. 2, j \in Positions : j >= i + 1 => Enough(t, e, l, j)
         /\ k < 2 => e \in Nat \ {0}
<1>1. Len(t) \in Nat
  BY LenProperties
<1> DEFINE n == Len(t)
<1> HIDE DEF n
<1>2. n \in Nat /\ i \in 1 .. n /\ (e + 1) + k >= 3 * ((n + 1) - i)
  BY <1>1 DEF n, Enough
<1>3. \A l \in 0 .. 2 : l > k => e + l >= 3 * ((n + 1) - i)
  BY <1>2
<1>4. \A l \in 0 .. 2, j \in Positions : j >= i + 1 => e + l >= 3 * ((n + 1) - j)
  BY <1>2 DEF Positions
<1>5. k < 2 => e \in Nat \ {0}
  BY <1>2
<1>6. QED BY <1>3, <1>4, <1>5 DEF Enough, n

\* What is open within a program is no error, and something follows it.
LEMMA WithinProgram ==
  ASSUME NEW t \in Seq(Tokens), Program(t), NEW i \in 0 .. Len(t)
  PROVE  /\ OpenAfter(t)[i] \in Stacks /\ OpenAfter(t)[i] # Wrong
         /\ OpenAfter(t)[i] # << >> => i + 1 \in 1 .. Len(t)
<1>1. Len(t) \in Nat
  BY LenProperties
<1>2. OpenAfter(t)[i] \in Stacks
  BY OpenAfterIs
<1>3. OpenAfter(t)[i] # Wrong
  <2> DEFINE p == SubSeq(t, 1, i)
             q == SubSeq(t, i + 1, Len(t))
  <2>1. p \in Seq(Tokens) /\ q \in Seq(Tokens) /\ p \o q = t
    <3>1. /\ 1 \in 1 .. Len(t) + 1 /\ i \in 1 - 1 .. Len(t) /\ Len(t) \in i .. Len(t)
          /\ i + 1 \in Int /\ \A j \in i + 1 .. Len(t) : j \in 1 .. Len(t)
          /\ \A j \in 1 .. i : j \in 1 .. Len(t)
      BY <1>1
    <3>2. p \o q = SubSeq(t, 1, Len(t))
      BY <1>1, <3>1, ConcatAdjacentSubSeq
    <3>3. SubSeq(t, 1, Len(t)) = t
      BY SubSeqFull
    <3>4. \A j \in 1 .. Len(t) : t[j] \in Tokens
      BY ElementOfSeq
    <3>5. p \in Seq(Tokens) /\ q \in Seq(Tokens)
      BY <1>1, <3>1, <3>4, SubSeqProperties
    <3>6. QED BY <3>2, <3>3, <3>5
  <2>2. Nesting(p) = OpenAfter(t)[i]
    BY NestingOfPrefix
  <2> HIDE DEF p, q
  <2>3. Nesting(p) = Wrong => Nesting(p \o q) = Wrong
    BY <2>1, NestingConcat
  <2>4. QED BY <2>1, <2>2, <2>3, WrongIsStack DEF Program
<1>4. ASSUME OpenAfter(t)[i] # << >> PROVE i + 1 \in 1 .. Len(t)
  <2>1. i # Len(t)
    BY <1>4, NestingIs DEF Program
  <2>2. QED BY <1>1, <2>1
<1>5. QED BY <1>2, <1>3, <1>4

\* Where a function stops that has read what it had to.
LEMMA AfterFine ==
  ASSUME NEW t \in Seq(Tokens), Program(t), NEW f \in Functions, NEW i \in Positions, NEW r \in Results,
         Reads(t, f, i, r), Fine(r), Starts(t, f, i)
  PROVE  /\ r.at \in Positions /\ r.at >= i + 1 /\ i \in 1 .. Len(t)
         /\ OpenAfter(t)[r.at - 1] = LeftBy(f, OpenAfter(t)[i - 1])
         /\ OpenAfter(t)[r.at - 1] # << >> => r.at \in 1 .. Len(t)
<1>1. Len(t) \in Nat /\ i \in 1 .. Len(t) /\ r.at \in Positions
  BY LenProperties DEF Starts, Results
<1>2. ~ (i > Len(t))
  BY <1>1
<1>3. Spans(t, i, r.at, r.cell) /\ Turns(t, f, i, r.at)
  BY <1>2 DEF Reads, Fine
<1>4. OpenAfter(t)[r.at - 1] = LeftBy(f, OpenAfter(t)[i - 1])
  BY <1>3 DEF Turns, Starts
<1> DEFINE j == r.at
<1> HIDE DEF j
<1>5. j \in Positions /\ i < j /\ j <= Len(t) + 1
  BY <1>1, <1>3 DEF Spans, j
<1>6. j >= i + 1 /\ j - 1 \in 0 .. Len(t) /\ (j - 1) + 1 = j
  BY <1>1, <1>5 DEF Positions
<1>7. OpenAfter(t)[j - 1] # << >> => j \in 1 .. Len(t)
  <2>1. OpenAfter(t)[j - 1] # << >> => (j - 1) + 1 \in 1 .. Len(t)
    BY <1>6, WithinProgram
  <2>2. QED BY <1>6, <2>1
<1>8. QED BY <1>1, <1>4, <1>6, <1>7 DEF j

\* Where a list has nothing to read it is not looked for further.
LEMMA NothingThere ==
  ASSUME NEW t \in Seq(Tokens), NEW e \in Nat \ {0}, NEW f \in {"instruction", "data"}, NEW i \in Positions,
         Absent(t, f, i)
  PROVE  /\ Calls(t)[e][f][i].cell = NoCell /\ Calls(t)[e][f][i].at = i /\ ~ Calls(t)[e][f][i].bad
<1>1. Calls(t)[e][f][i] = Gives(t, Calls(t)[e - 1], f, i)
  <2>1. f \in Functions
    BY DEF Functions
  <2>2. QED BY <2>1, CallsAre
<1>2. Gives(t, Calls(t)[e - 1], f, i) = NotHere(i)
  <2>1. CASE f = "instruction"
    BY <2>1 DEF Absent, Gives
  <2>2. CASE f = "data"
    BY <2>2 DEF Absent, Gives
  <2>3. QED BY <2>1, <2>2
<1>3. QED BY <1>1, <1>2, FailingIs

\* An element is read.
LEMMA ElementFine ==
  ASSUME NEW t \in Seq(Tokens), Program(t), NEW e \in Nat, AllFine(t, e),
         NEW i \in Positions, Starts(t, "element", i), Enough(t, e + 1, 1, i)
  PROVE  Fine(Gives(t, Calls(t)[e], "element", i))
<1> DEFINE C == Calls(t)[e]
           U == OpenAfter(t)
           g == Gives(t, C, "element", i)
<1>1. /\ i \in 1 .. Len(t) /\ Current(t, i) = t[i] /\ t[i] \in Tokens
      /\ C \in Tables /\ i + 1 \in Positions
  <2>1. i \in 1 .. Len(t)
    BY DEF Starts
  <2>2. QED BY <2>1, CurrentIs, ElementOfSeq, CallsAre, NextPosition
<1>2. U[i] = Opened(U[i - 1], t[i]) /\ U[i] # Wrong
  <2>1. Len(t) \in Nat /\ i \in 0 .. Len(t)
    BY <1>1, LenProperties
  <2>2. QED BY <1>1, <2>1, OpenAt, WithinProgram
<1>3. t[i] \in {"x", "1", "(", "[", "{"}
  <2>1. t[i] # "!"
    BY <1>2 DEF Opened
  <2>2. t[i] \notin {")", "]", "}"}
    BY DEF Starts, Present
  <2>3. QED BY <1>1, <2>1, <2>2 DEF Tokens
<1>5. Enough(t, e, 2, i) /\ e \in Nat \ {0}
  BY <1>1, SpareCalls, EnoughInside
<1>6. /\ Spare("instruction") = 2 /\ Spare("data") = 2 /\ Spare("access") = 2
      /\ Innermost(U[i - 1]) \in Admits("instruction") /\ Innermost(U[i - 1]) \in Admits("data")
      /\ Innermost(U[i - 1]) \in Admits("access")
  <2>1. Spare("instruction") = 2 /\ Spare("data") = 2 /\ Spare("access") = 2
    BY DEF Spare, Scans
  <2>2. Innermost(U[i - 1]) \in {"(", "["}
    BY DEF Starts, Admits
  <2>3. QED BY <2>1, <2>2 DEF Admits
<1>7. PICK a \in Results, b \in Results, c \in Results :
           /\ a = C["instruction"][i]
           /\ b = After(a, C["data"][a.at])
           /\ c = After(b, C["access"][b.at])
           /\ AnyList(C, i) = IF a.cell # NoCell THEN a ELSE IF b.cell # NoCell THEN b ELSE c
  BY <1>1, AnyListIs
<1>8. CASE t[i] \in {"x", "1"}
  <2>1. g = Result(<<t[i]>>, i + 1, FALSE)
    BY <1>1, <1>8 DEF Gives
  <2>2. <<t[i]>> \in Cells /\ <<t[i]>> # NoCell
    BY <1>1, TokenCells
  <2> HIDE DEF g
  <2>3. g.cell = <<t[i]>> /\ g.bad = FALSE
    BY <1>1, <2>1, <2>2, ResultIs
  <2>4. Fine(g)
    BY <2>2, <2>3 DEF Fine
  <2>5. QED BY <2>4 DEF g
<1>9. CASE t[i] \notin {"x", "1"}
  <2>1. g = AnyList(C, i)
    BY <1>1, <1>3, <1>9 DEF Gives
  <2>2. CASE t[i] = "("
    <3>1. Starts(t, "instruction", i)
      BY <1>1, <1>6, <2>2 DEF Starts, Present
    <3>2. Fine(a)
      BY <1>5, <1>6, <1>7, <3>1, FunctionsAre DEF AllFine
    <3>3. AnyList(C, i) = a
      BY <1>7, <3>2 DEF Fine
    <3>4. QED BY <2>1, <3>2, <3>3
  <2>3. ASSUME t[i] # "(" PROVE a.cell = NoCell /\ a.at = i /\ ~ a.bad
    <3>1. Absent(t, "instruction", i)
      BY <1>1, <2>3 DEF Absent
    <3>2. QED BY <1>5, <1>7, <3>1, NothingThere
  <2>4. CASE t[i] = "["
    <3>1. a.cell = NoCell /\ a.at = i /\ ~ a.bad
      BY <2>3, <2>4
    <3>2. Starts(t, "data", i)
      BY <1>1, <1>6, <2>4 DEF Starts, Present
    <3>3. C["data"][i] \in Results /\ Fine(C["data"][i])
      BY <1>1, <1>5, <1>6, <3>2, FunctionsAre, TableGives DEF AllFine
    <3>4. b = After(a, C["data"][i])
      BY <1>7, <3>1
    <3>5. Fine(b)
      BY <3>1, <3>3, <3>4, AfterIs DEF Fine
    <3>6. AnyList(C, i) = b
      BY <1>7, <3>1, <3>5 DEF Fine
    <3>7. QED BY <2>1, <3>5, <3>6
  <2>5. CASE t[i] = "{"
    <3>1. a.cell = NoCell /\ a.at = i /\ ~ a.bad
      BY <2>3, <2>5
    <3>2. Absent(t, "data", i)
      BY <1>1, <2>5 DEF Absent
    <3>3. C["data"][i].cell = NoCell /\ C["data"][i].at = i /\ ~ C["data"][i].bad
      BY <1>5, <3>2, NothingThere
    <3>4. b = After(a, C["data"][i]) /\ C["data"][i] \in Results
      BY <1>1, <1>7, <3>1, FunctionsAre, TableGives
    <3>5. b.cell = NoCell /\ b.at = i /\ ~ b.bad
      BY <3>1, <3>3, <3>4, AfterIs
    <3>6. Starts(t, "access", i)
      BY <1>1, <1>6, <2>5 DEF Starts, Present
    <3>7. C["access"][i] \in Results /\ Fine(C["access"][i])
      BY <1>1, <1>5, <1>6, <3>6, FunctionsAre, TableGives DEF AllFine
    <3>8. c = After(b, C["access"][i])
      BY <1>7, <3>5
    <3>9. Fine(c)
      BY <3>5, <3>7, <3>8, AfterIs DEF Fine
    <3>10. AnyList(C, i) = c
      BY <1>7, <3>1, <3>5
    <3>11. QED BY <2>1, <3>9, <3>10
  <2>6. QED BY <1>3, <1>9, <2>2, <2>4, <2>5
<1>10. QED BY <1>8, <1>9

\* A data or access list is read.
LEMMA ListFine ==
  ASSUME NEW t \in Seq(Tokens), Program(t), NEW e \in Nat, AllFine(t, e),
         NEW f, NEW scan, NEW b, NEW i \in Positions, Starts(t, f, i), Enough(t, e + 1, 2, i),
         \/ f = "data" /\ scan = "scan ]" /\ b = "["
         \/ f = "access" /\ scan = "scan }" /\ b = "{"
  PROVE  Current(t, i) = b /\ Fine(Before(<<b>>, Calls(t)[e][scan][i + 1]))
<1> DEFINE C == Calls(t)[e]
           U == OpenAfter(t)
           q == C[scan][i + 1]
<1>1. /\ i \in 1 .. Len(t) /\ Current(t, i) = t[i] /\ t[i] = b
      /\ C \in Tables /\ i + 1 \in Positions /\ i + 1 >= i + 1
  <2>1. i \in 1 .. Len(t) /\ t[i] = b
    BY DEF Starts, Present
  <2>2. i + 1 \in Positions /\ i + 1 >= i + 1
    <3>1. i + 1 \in Positions
      BY NextPosition
    <3>2. QED BY <3>1, NextPosition
  <2>3. Current(t, i) = t[i]
    BY <2>1, CurrentIs
  <2>4. C \in Tables
    BY CallsAre
  <2> HIDE DEF C
  <2>5. QED BY <2>1, <2>2, <2>3, <2>4
<1>2. Len(t) \in Nat /\ i \in 0 .. Len(t) /\ (i + 1) - 1 = i
  BY <1>1, LenProperties, PositionWithin, NextPosition
<1>3. U[i] = Opened(U[i - 1], b) /\ U[i - 1] \in Stacks
  BY <1>1, OpenAt
<1>4. U[i] = Append(Called(U[i - 1]), b) /\ Called(U[i - 1]) \in Stacks
  <2>1. Called(U[i - 1]) \in Stacks
    BY <1>3, CalledIs
  <2>2. CASE f = "data"
    <3>1. Innermost(U[i - 1]) \in {"(", "["} /\ b = "["
      BY <2>2 DEF Starts, Admits
    <3>2. Called(U[i - 1]) = U[i - 1]
      BY <1>3, <3>1, CalledIs
    <3>3. QED BY <1>3, <2>1, <3>1, <3>2 DEF Opened
  <2>3. CASE f = "access"
    <3>1. Innermost(U[i - 1]) \in {"(!", "(", "["} /\ b = "{"
      BY <2>3 DEF Starts, Admits
    <3>2. QED BY <1>3, <2>1, <3>1 DEF Opened
  <2>4. QED BY <2>2, <2>3
<1>5. Innermost(U[i]) = b /\ U[i] # << >>
  <2>1. b \in Lists
    BY DEF Lists
  <2>2. QED BY <1>4, <2>1, PushAndPop
<1>6. i + 1 \in 1 .. Len(t)
  BY <1>2, <1>5, WithinProgram
<1>7. /\ scan \in Functions /\ Innermost(U[(i + 1) - 1]) \in Admits(scan) /\ Present(t, scan, i + 1)
      /\ Spare(scan) = 0
  <2>1. scan \in Functions /\ b \in Admits(scan) /\ Spare(scan) = 0
    BY DEF Functions, Admits, Spare, Scans
  <2>2. Present(t, scan, i + 1)
    BY DEF Present
  <2>3. QED BY <1>2, <1>5, <2>1, <2>2
<1>8. Enough(t, e, 0, i + 1)
  BY <1>1, SpareCalls, EnoughInside
<1>9. q \in Results /\ Fine(q)
  <2>1. Starts(t, scan, i + 1)
    BY <1>6, <1>7 DEF Starts
  <2>2. QED BY <1>1, <1>7, <1>8, <2>1, TableGives DEF AllFine
<1> HIDE DEF q
<1>10. Fine(Before(<<b>>, q))
  <2>1. <<b>> \in Cells
    <3>1. b \in Tokens
      BY DEF Tokens
    <3>2. QED BY <3>1, TokenCells
  <2>2. QED BY <1>9, <2>1, BeforeIs DEF Fine
<1>11. QED BY <1>1, <1>10 DEF q

\* An instruction is read.
LEMMA InstructionFine ==
  ASSUME NEW t \in Seq(Tokens), Program(t), NEW e \in Nat, AllFine(t, e),
         NEW i \in Positions, Starts(t, "instruction", i), Enough(t, e + 1, 2, i)
  PROVE  Fine(Gives(t, Calls(t)[e], "instruction", i))
<1> DEFINE C == Calls(t)[e]
           U == OpenAfter(t)
           c == Callable(t, C, i + 1)
           q == C["scan )"][c.at]
           r == Before(<<"(">> \o c.cell, After(c, q))
<1>1. /\ i \in 1 .. Len(t) /\ Current(t, i) = t[i] /\ t[i] = "("
      /\ C \in Tables /\ AllRead(t, C)
      /\ i + 1 \in Positions /\ i + 1 >= i + 1 /\ (i + 1) - 1 = i
  <2>1. i \in 1 .. Len(t) /\ t[i] = "("
    BY DEF Starts, Present
  <2>2. i + 1 \in Positions /\ (i + 1) - 1 = i
    BY NextPosition
  <2>3. i + 1 >= i + 1
    BY <2>2, NextPosition
  <2>4. Current(t, i) = t[i]
    BY <2>1, CurrentIs
  <2>5. C \in Tables /\ AllRead(t, C)
    BY CallsAre, CallsReads
  <2>6. QED BY <2>1, <2>2, <2>3, <2>4, <2>5
<1>2. Len(t) \in Nat /\ i \in 0 .. Len(t)
  BY <1>1, LenProperties
<1>3. U[i] = Opened(U[i - 1], "(") /\ U[i - 1] \in Stacks
  BY <1>1, OpenAt
<1>4. U[i] = Append(Called(U[i - 1]), "(!") /\ Called(U[i - 1]) \in Stacks
  <2>1. Innermost(U[i - 1]) \in {"top", "(!", "(", "["}
    BY DEF Starts, Admits
  <2>2. QED BY <1>3, <2>1, CalledIs DEF Opened
<1>5. Innermost(U[i]) = "(!" /\ U[i] # << >> /\ U[i] \in Stacks
  <2>1. "(!" \in Lists
    BY DEF Lists
  <2>2. QED BY <1>4, <2>1, PushAndPop
<1>6. i + 1 \in 1 .. Len(t)
  BY <1>2, <1>5, WithinProgram
<1>7. /\ U[i + 1] = Opened(U[i], t[i + 1]) /\ U[i + 1] # Wrong
      /\ Current(t, i + 1) = t[i + 1]
  <2>1. i + 1 \in 0 .. Len(t)
    BY <1>2, <1>6
  <2>2. U[i + 1] = Opened(U[(i + 1) - 1], t[i + 1])
    BY <1>6, OpenAt
  <2>3. U[i + 1] # Wrong
    BY <2>1, WithinProgram
  <2>4. QED BY <1>1, <1>6, <2>2, <2>3, CurrentIs
<1>8. t[i + 1] \in Callables
  <2>1. t[i + 1] \in Tokens
    BY <1>6, ElementOfSeq
  <2>2. QED BY <1>5, <1>7, <2>1 DEF Opened, Callables, Tokens
<1>9. PICK a \in Results :
           /\ a = IF Current(t, i + 1) = "(" THEN C["instruction"][i + 1]
                  ELSE IF Current(t, i + 1) = "{" THEN C["access"][i + 1] ELSE Symbol(t, i + 1)
           /\ c \in Results /\ c.at = a.at /\ c.bad = a.bad
           /\ a.cell # NoCell => c.cell = a.cell
  BY <1>1, <1>7, <1>8, CallableIs
<1>10. Enough(t, e, 2, i + 1) /\ \A j \in Positions : j >= i + 1 => Enough(t, e, 0, j)
  BY <1>1, SpareCalls, EnoughInside
<1>11. /\ Fine(a) /\ a.at \in Positions /\ a.at >= i + 1 /\ a.at \in 1 .. Len(t)
       /\ U[a.at - 1] = Called(U[i])
  <2>1. Called(U[i]) # << >>
    BY <1>5, CalledIs
  <2>2. ASSUME NEW f \in {"instruction", "access"}, a = C[f][i + 1], Present(t, f, i + 1)
        PROVE  /\ Fine(a) /\ a.at \in Positions /\ a.at >= i + 1 /\ a.at \in 1 .. Len(t)
               /\ U[a.at - 1] = Called(U[i])
    <3>1. f \in Functions /\ "(!" \in Admits(f) /\ Spare(f) = 2 /\ f \notin Scans
      BY DEF Functions, Admits, Spare, Scans
    <3>2. Starts(t, f, i + 1)
      BY <1>1, <1>5, <1>6, <2>2, <3>1 DEF Starts
    <3>3. Fine(a) /\ Reads(t, f, i + 1, a)
      BY <1>1, <1>10, <2>2, <3>1, <3>2 DEF AllFine, AllRead
    <3>4. a.at >= (i + 1) + 1 /\ a.at \in Positions
      BY <1>1, <3>1, <3>2, <3>3, AfterFine
    <3>5. U[a.at - 1] = LeftBy(f, U[(i + 1) - 1]) /\ (U[a.at - 1] # << >> => a.at \in 1 .. Len(t))
      BY <1>1, <3>1, <3>2, <3>3, AfterFine
    <3>6. U[a.at - 1] = Called(U[i])
      BY <1>1, <3>1, <3>5 DEF LeftBy
    <3>7. a.at >= i + 1
      <4>1. (i + 1) + 1 \in Positions /\ (i + 1) + 1 >= i + 1
        BY <1>1, NextPosition
      <4>2. QED BY <1>1, <3>4, <4>1, LaterPosition
    <3>8. QED BY <2>1, <3>3, <3>4, <3>5, <3>6, <3>7
  <2>3. CASE t[i + 1] = "("
    <3>1. Present(t, "instruction", i + 1)
      BY <2>3 DEF Present
    <3>2. a = C["instruction"][i + 1]
      BY <1>7, <1>9, <2>3
    <3>3. QED BY <2>2, <3>1, <3>2
  <2>4. CASE t[i + 1] = "{"
    <3>1. Present(t, "access", i + 1)
      BY <2>4 DEF Present
    <3>2. a = C["access"][i + 1]
      BY <1>7, <1>9, <2>4
    <3>3. QED BY <2>2, <3>1, <3>2
  <2>5. CASE t[i + 1] = "x"
    <3>1. a = Symbol(t, i + 1)
      BY <1>7, <1>9, <2>5
    <3>2. a.cell # NoCell /\ a.at = (i + 1) + 1 /\ ~ a.bad
      BY <1>1, <1>7, <2>5, <3>1, SymbolIs
    <3>3. U[i + 1] = Called(U[i])
      BY <1>5, <1>7, <2>5 DEF Opened
    <3>4. (i + 1) + 1 \in Positions /\ ((i + 1) + 1) - 1 = i + 1 /\ (i + 1) + 1 >= i + 1
      <4>1. (i + 1) + 1 \in Positions /\ ((i + 1) + 1) - 1 = i + 1 /\ (i + 1) + 1 >= i + 1
        BY <1>1, NextPosition
      <4>2. QED BY <4>1
    <3>5. i + 1 \in 0 .. Len(t)
      BY <1>2, <1>6
    <3>6. (i + 1) + 1 \in 1 .. Len(t)
      BY <2>1, <3>3, <3>5, WithinProgram
    <3>7. QED BY <3>2, <3>3, <3>4, <3>6 DEF Fine
  <2>6. QED BY <1>8, <2>3, <2>4, <2>5 DEF Callables
<1>12. /\ c \in Results /\ c.cell = a.cell /\ c.at = a.at /\ Fine(c)
  <2> HIDE DEF c
  <2>1. QED BY <1>9, <1>11 DEF Fine
<1>13. Innermost(Called(U[i])) = "("
  BY <1>5, CalledIs
<1>14. q \in Results /\ Fine(q)
  <2> HIDE DEF c
  <2>1. Innermost(U[c.at - 1]) = "(" /\ c.at \in 1 .. Len(t) /\ c.at \in Positions
    BY <1>11, <1>12, <1>13
  <2>2. "(" \in Admits("scan )") /\ Spare("scan )") = 0 /\ Present(t, "scan )", c.at) /\ "scan )" \in Functions
    BY DEF Admits, Spare, Scans, Present, Functions
  <2>3. Starts(t, "scan )", c.at)
    BY <2>1, <2>2 DEF Starts
  <2>4. Enough(t, e, 0, c.at)
    BY <1>10, <1>11, <1>12
  <2>5. QED BY <1>1, <2>1, <2>2, <2>3, <2>4, TableGives DEF AllFine
<1>15. Gives(t, C, "instruction", i) = r
  BY <1>1, <1>7, <1>8 DEF Gives
<1> HIDE DEF q, c
<1>16. Fine(r)
  <2>1. After(c, q) \in Results /\ Fine(After(c, q))
    BY <1>12, <1>14, AfterIs DEF Fine
  <2>2. <<"(">> \o c.cell \in Cells
    <3>1. <<"(">> \in Cells
      BY TokenCells DEF Tokens
    <3>2. c.cell \in Cells
      BY <1>12 DEF Results
    <3>3. QED BY <3>1, <3>2, ConcatProperties DEF Cells
  <2>3. QED BY <2>1, <2>2, BeforeIs DEF Fine
<1>17. QED BY <1>15, <1>16

ClosedBy(scan) == CASE scan = "scan )" -> ")" [] scan = "scan ]" -> "]" [] scan = "scan }" -> "}"

\* The rest of a list is read if its next element is.
LEMMA ScanFine ==
  ASSUME NEW t \in Seq(Tokens), Program(t), NEW e \in Nat, AllFine(t, e),
         NEW scan \in Scans, NEW i \in Positions, Starts(t, scan, i), Enough(t, e + 1, 0, i),
         NEW element \in Results,
         t[i] # ClosedBy(scan) =>
           /\ Fine(element) /\ element.at >= i + 1 /\ element.at \in 1 .. Len(t)
           /\ OpenAfter(t)[element.at - 1] = OpenAfter(t)[i - 1]
  PROVE  Fine(Scan(t, Calls(t)[e], scan, ClosedBy(scan), element, i))
<1> DEFINE C == Calls(t)[e]
           U == OpenAfter(t)
           close == ClosedBy(scan)
           q == C[scan][element.at]
           r == Scan(t, C, scan, close, element, i)
<1>1. /\ i \in 1 .. Len(t) /\ Current(t, i) = t[i] /\ C \in Tables /\ i + 1 \in Positions
      /\ scan \in Functions /\ Spare(scan) = 0 /\ close \in Tokens
  <2>1. i \in 1 .. Len(t)
    BY DEF Starts
  <2>2. i + 1 \in Positions
    BY NextPosition
  <2>3. Current(t, i) = t[i]
    BY <2>1, CurrentIs
  <2>4. scan \in Functions /\ Spare(scan) = 0
    BY DEF Functions, Scans, Spare
  <2>5. close \in Tokens
    BY DEF ClosedBy, Scans, Tokens
  <2>6. C \in Tables
    BY CallsAre
  <2> HIDE DEF C, close
  <2>7. QED BY <2>1, <2>2, <2>3, <2>4, <2>5, <2>6
<1>2. CASE t[i] = close
  <2>1. r = Result(<<close>>, i + 1, FALSE) /\ <<close>> \in Cells /\ <<close>> # NoCell
    BY <1>1, <1>2, TokenCells DEF Scan
  <2> HIDE DEF r, close
  <2>2. r.cell = <<close>> /\ r.bad = FALSE
    BY <1>1, <2>1, ResultIs
  <2>3. Fine(r)
    BY <2>1, <2>2 DEF Fine
  <2>4. QED BY <2>3 DEF r, close
<1>3. CASE t[i] # close
  <2>1. /\ Fine(element) /\ element.at >= i + 1 /\ element.at \in 1 .. Len(t)
        /\ U[element.at - 1] = U[i - 1] /\ element.at \in Positions
    BY <1>3 DEF Results
  <2>2. Starts(t, scan, element.at)
    <3>1. Innermost(U[i - 1]) \in Admits(scan)
      BY DEF Starts
    <3>2. Present(t, scan, element.at)
      BY DEF Present, Scans
    <3>3. QED BY <2>1, <3>1, <3>2 DEF Starts
  <2>3. Enough(t, e, 0, element.at)
    BY <1>1, <2>1, SpareCalls, EnoughInside
  <2>4. q \in Results /\ Fine(q)
    BY <1>1, <2>1, <2>2, <2>3, TableGives DEF AllFine
  <2>5. ~ (element.at > Len(t))
    <3> DEFINE j == element.at
    <3> HIDE DEF j
    <3>1. j \in 1 .. Len(t) /\ Len(t) \in Nat
      BY <2>1, LenProperties DEF j
    <3>2. ~ (j > Len(t))
      BY <3>1
    <3>3. QED BY <3>2 DEF j
  <2>6. r = Before(element.cell, After(element, q))
    BY <1>1, <1>3, <2>1, <2>5 DEF Scan, Fine
  <2> HIDE DEF r, q
  <2>7. After(element, q) \in Results /\ Fine(After(element, q))
    BY <2>1, <2>4, AfterIs DEF Fine
  <2>8. element.cell \in Cells
    BY DEF Results
  <2>9. Fine(r)
    BY <2>6, <2>7, <2>8, BeforeIs DEF Fine
  <2>10. QED BY <2>9 DEF r
<1>4. QED BY <1>2, <1>3

\* The rest of an instruction or data list is read.
LEMMA ElementsFine ==
  ASSUME NEW t \in Seq(Tokens), Program(t), NEW e \in Nat, AllFine(t, e),
         NEW scan \in {"scan )", "scan ]"}, NEW i \in Positions, Starts(t, scan, i), Enough(t, e + 1, 0, i)
  PROVE  Fine(Gives(t, Calls(t)[e], scan, i))
<1> DEFINE C == Calls(t)[e]
           U == OpenAfter(t)
           x == C["element"][i]
<1>1. i \in 1 .. Len(t) /\ Len(t) \in Nat /\ i \in 0 .. Len(t)
  <2>1. i \in 1 .. Len(t) /\ Len(t) \in Nat
    BY LenProperties DEF Starts
  <2>2. i \in 0 .. Len(t)
    BY <2>1, PositionWithin
  <2>3. QED BY <2>1, <2>2
<1>2. U[i] = Opened(U[i - 1], t[i]) /\ U[i] # Wrong /\ U[i - 1] \in Stacks /\ t[i] \in Tokens
  BY <1>1, OpenAt, WithinProgram, ElementOfSeq
<1>3. Innermost(U[i - 1]) = IF scan = "scan )" THEN "(" ELSE "["
  BY DEF Starts, Admits
<1>4. C \in Tables /\ AllRead(t, C) /\ x \in Results /\ Reads(t, "element", i, x)
  <2>1. C \in Tables /\ AllRead(t, C)
    BY CallsAre, CallsReads
  <2> HIDE DEF C
  <2>2. QED BY <2>1, TableGives, FunctionsAre DEF AllRead
<1>5. ASSUME t[i] # ClosedBy(scan)
      PROVE  /\ Fine(x) /\ x.at >= i + 1 /\ x.at \in 1 .. Len(t)
             /\ U[x.at - 1] = U[i - 1]
  <2>1. t[i] \notin {")", "]", "}"}
    <3>1. CASE scan = "scan )"
      BY <1>2, <1>3, <1>5, <3>1 DEF Opened, ClosedBy
    <3>2. CASE scan = "scan ]"
      BY <1>2, <1>3, <1>5, <3>2 DEF Opened, ClosedBy
    <3>3. QED BY <3>1, <3>2
  <2>2. Starts(t, "element", i)
    <3>1. Innermost(U[i - 1]) \in Admits("element")
      BY <1>3 DEF Admits
    <3>2. Present(t, "element", i)
      BY <2>1 DEF Present
    <3>3. QED BY <1>1, <3>1, <3>2 DEF Starts
  <2>3. Enough(t, e, 1, i) /\ Spare("element") = 1
    <3>1. Enough(t, e, 1, i)
      BY <1>1, SpareCalls, EnoughInside
    <3>2. QED BY <3>1 DEF Spare, Scans
  <2>4. Fine(x)
    BY <2>2, <2>3, FunctionsAre DEF AllFine
  <2> HIDE DEF x
  <2>5. /\ x.at >= i + 1 /\ U[x.at - 1] = LeftBy("element", U[i - 1])
        /\ U[x.at - 1] # << >> => x.at \in 1 .. Len(t)
    BY <1>4, <2>2, <2>4, FunctionsAre, AfterFine
  <2>6. LeftBy("element", U[i - 1]) = U[i - 1] /\ U[i - 1] # << >>
    <3>1. LeftBy("element", U[i - 1]) = Called(U[i - 1])
      BY DEF LeftBy, Scans
    <3>2. Innermost(U[i - 1]) # "(!" /\ Innermost(U[i - 1]) # "top"
      BY <1>3
    <3>3. QED BY <1>2, <3>1, <3>2, CalledIs DEF Innermost
  <2>7. QED BY <2>4, <2>5, <2>6
<1>6. Gives(t, C, scan, i) = Scan(t, C, scan, ClosedBy(scan), x, i)
  BY DEF Gives, ClosedBy
<1>7. Fine(Scan(t, C, scan, ClosedBy(scan), x, i))
  <2>1. scan \in Scans
    BY DEF Scans
  <2> HIDE DEF x
  <2>2. QED BY <1>4, <1>5, <2>1, ScanFine
<1>8. QED BY <1>6, <1>7

\* The rest of an access list is read.
LEMMA SymbolsFine ==
  ASSUME NEW t \in Seq(Tokens), Program(t), NEW e \in Nat, AllFine(t, e),
         NEW i \in Positions, Starts(t, "scan }", i), Enough(t, e + 1, 0, i)
  PROVE  Fine(Gives(t, Calls(t)[e], "scan }", i))
<1> DEFINE C == Calls(t)[e]
           U == OpenAfter(t)
           x == Symbol(t, i)
<1>1. i \in 1 .. Len(t) /\ Len(t) \in Nat /\ i \in 0 .. Len(t) /\ Current(t, i) = t[i]
  <2>1. i \in 1 .. Len(t) /\ Len(t) \in Nat /\ Current(t, i) = t[i]
    BY LenProperties, CurrentIs DEF Starts
  <2>2. i \in 0 .. Len(t)
    BY <2>1, PositionWithin
  <2>3. QED BY <2>1, <2>2
<1>2. U[i] = Opened(U[i - 1], t[i]) /\ U[i] # Wrong /\ U[i - 1] \in Stacks /\ t[i] \in Tokens
  BY <1>1, OpenAt, WithinProgram, ElementOfSeq
<1>3. Innermost(U[i - 1]) = "{"
  BY DEF Starts, Admits
<1>4. ASSUME t[i] # ClosedBy("scan }")
      PROVE  /\ Fine(x) /\ x.at >= i + 1 /\ x.at \in 1 .. Len(t)
             /\ U[x.at - 1] = U[i - 1]
  <2>1. t[i] = "x"
    <3>1. t[i] # "}"
      BY <1>4 DEF ClosedBy
    <3>2. QED BY <1>2, <1>3, <3>1 DEF Opened, Tokens
  <2>2. x.cell # NoCell /\ x.at = i + 1 /\ ~ x.bad
    BY <1>1, <2>1, SymbolIs
  <2>3. U[i] = U[i - 1] /\ U[i] # << >>
    <3>1. U[i] = Called(U[i - 1])
      BY <1>2, <1>3, <2>1 DEF Opened
    <3>2. U[i - 1] # << >> /\ Called(U[i - 1]) = U[i - 1]
      BY <1>2, <1>3, CalledIs DEF Innermost
    <3>3. QED BY <3>1, <3>2
  <2>4. i + 1 \in 1 .. Len(t)
    BY <1>1, <2>3, WithinProgram
  <2>5. (i + 1) - 1 = i /\ i + 1 \in Positions /\ i + 1 >= i + 1
    <3>1. (i + 1) - 1 = i /\ i + 1 \in Positions
      BY NextPosition
    <3>2. i + 1 >= i + 1
      BY <3>1, NextPosition
    <3>3. QED BY <3>1, <3>2
  <2> HIDE DEF x
  <2>6. QED BY <2>2, <2>3, <2>4, <2>5 DEF Fine
<1>5. Gives(t, C, "scan }", i) = Scan(t, C, "scan }", ClosedBy("scan }"), x, i)
  BY DEF Gives, ClosedBy
<1>6. x \in Results
  BY SymbolIs
<1>7. Fine(Scan(t, C, "scan }", ClosedBy("scan }"), x, i))
  <2>1. "scan }" \in Scans
    BY DEF Scans
  <2> HIDE DEF x
  <2>2. QED BY <1>4, <1>6, <2>1, ScanFine
<1>8. QED BY <1>5, <1>7

\* Calls that nest deep enough read whatever of a program is ready to be read.
LEMMA CallsFine == ASSUME NEW t \in Seq(Tokens), Program(t), NEW d \in Nat PROVE AllFine(t, d)
<1> DEFINE Good == {n \in Nat : AllFine(t, n)}
<1>1. 0 \in Good
  <2>1. ASSUME NEW f \in Functions, NEW i \in Positions, Starts(t, f, i), Enough(t, 0, Spare(f), i)
        PROVE  FALSE
    <3>1. Spare(f) \in 0 .. 2 /\ i \in 1 .. Len(t)
      <4>1. i \in 1 .. Len(t)
        BY <2>1 DEF Starts
      <4>2. CASE f \in Scans
        BY <4>1, <4>2, SpareCalls DEF Spare
      <4>3. CASE f \notin Scans /\ f = "element"
        BY <4>1, <4>3, SpareCalls DEF Spare
      <4>4. CASE f \notin Scans /\ f # "element"
        BY <4>1, <4>4, SpareCalls DEF Spare
      <4>5. QED BY <4>2, <4>3, <4>4
    <3> DEFINE k == Spare(f)
    <3> HIDE DEF k
    <3>2. k \in 0 .. 2 /\ i \in 1 .. Len(t) /\ Enough(t, 0, k, i)
      BY <2>1, <3>1 DEF k
    <3> HIDE DEF Starts
    <3>3. Len(t) \in Nat
      BY LenProperties
    <3>4. QED BY <3>2, <3>3 DEF Enough
  <2>2. QED BY <2>1 DEF AllFine
<1>2. ASSUME NEW n \in Nat, n \in Good PROVE n + 1 \in Good
  <2>1. n + 1 \in Nat \ {0} /\ (n + 1) - 1 = n
    OBVIOUS
  <2>2. AllFine(t, n)
    BY <1>2
  <2>3. ASSUME NEW f \in Functions, NEW i \in Positions, Starts(t, f, i), Enough(t, n + 1, Spare(f), i)
        PROVE  Fine(Calls(t)[n + 1][f][i])
    <3>1. Calls(t)[n + 1][f][i] = Gives(t, Calls(t)[n], f, i)
      BY <2>1, CallsAre
    <3>2. Spare(f) = IF f \in Scans THEN 0 ELSE IF f = "element" THEN 1 ELSE 2
      BY DEF Spare
    <3>3. CASE f = "element"
      <4>1. Enough(t, n + 1, 1, i) /\ Starts(t, "element", i)
        BY <2>3, <3>2, <3>3 DEF Scans
      <4>2. QED BY <2>2, <3>1, <3>3, <4>1, ElementFine
    <3>4. CASE f = "instruction"
      <4>1. Enough(t, n + 1, 2, i) /\ Starts(t, "instruction", i)
        BY <2>3, <3>2, <3>4 DEF Scans
      <4>2. QED BY <2>2, <3>1, <3>4, <4>1, InstructionFine
    <3>5. CASE f = "data"
      <4>1. Enough(t, n + 1, 2, i) /\ Starts(t, "data", i)
        BY <2>3, <3>2, <3>5 DEF Scans
      <4>2. Current(t, i) = "[" /\ Fine(Before(<<"[">>, Calls(t)[n]["scan ]"][i + 1]))
        BY <2>2, <4>1, ListFine
      <4>3. QED BY <3>1, <3>5, <4>2 DEF Gives
    <3>6. CASE f = "access"
      <4>1. Enough(t, n + 1, 2, i) /\ Starts(t, "access", i)
        BY <2>3, <3>2, <3>6 DEF Scans
      <4>2. Current(t, i) = "{" /\ Fine(Before(<<"{">>, Calls(t)[n]["scan }"][i + 1]))
        BY <2>2, <4>1, ListFine
      <4>3. QED BY <3>1, <3>6, <4>2 DEF Gives
    <3>7. CASE f \in {"scan )", "scan ]"}
      <4>1. Enough(t, n + 1, 0, i) /\ Starts(t, f, i)
        BY <2>3, <3>2, <3>7 DEF Scans
      <4>2. QED BY <2>2, <3>1, <3>7, <4>1, ElementsFine
    <3>8. CASE f = "scan }"
      <4>1. Enough(t, n + 1, 0, i) /\ Starts(t, "scan }", i)
        BY <2>3, <3>2, <3>8 DEF Scans
      <4>2. QED BY <2>2, <3>1, <3>8, <4>1, SymbolsFine
    <3>9. QED BY <3>3, <3>4, <3>5, <3>6, <3>7, <3>8 DEF Functions
  <2>4. QED BY <2>1, <2>3 DEF AllFine
<1>3. \A n \in Nat : n \in Good
  <2> HIDE DEF Good
  <2>1. QED BY <1>1, <1>2, Induction
<1>4. QED BY <1>3

\* No program is rejected: the parser takes an instruction from it and reports
\* no error.
THEOREM ParsesPrograms ==
  ASSUME NEW t \in Seq(Tokens), Program(t), t # << >>
  PROVE  ~ Parse(t).bad
<1> DEFINE d == MaxCalls(t)
           r == Calls(t)[d]["instruction"][1]
           U == OpenAfter(t)
<1>1. Len(t) \in Nat /\ d \in Nat /\ 1 \in Positions /\ 1 \in 1 .. Len(t) /\ 1 - 1 = 0
      /\ Enough(t, d, 2, 1)
  <2>1. Len(t) \in Nat /\ Len(t) # 0
    BY LenProperties, EmptySeq
  <2>2. 1 \in 1 .. Len(t)
    BY <2>1
  <2>3. QED BY <2>1, <2>2 DEF MaxCalls, Positions, Enough
<1>2. U[0] = << >> /\ U[1] = Opened(U[0], t[1]) /\ U[1] # Wrong
  <2>1. 1 \in 0 .. Len(t)
    BY <1>1
  <2>2. U[1] = Opened(U[1 - 1], t[1])
    BY <1>1, OpenAt
  <2>3. QED BY <1>1, <2>1, <2>2, OpenAfterIs, WithinProgram
<1>3. Innermost(U[0]) = "top" /\ t[1] \in Tokens
  BY <1>1, <1>2, ElementOfSeq DEF Innermost
<1>4. t[1] = "("
  BY <1>2, <1>3 DEF Opened, Tokens
<1>5. Starts(t, "instruction", 1) /\ Spare("instruction") = 2
  <2>1. "top" \in Admits("instruction") /\ Present(t, "instruction", 1) /\ Spare("instruction") = 2
    BY <1>4 DEF Admits, Present, Spare, Scans
  <2>2. QED BY <1>1, <1>3, <2>1 DEF Starts
<1>6. r \in Results /\ Fine(r)
  <2> HIDE DEF d
  <2>1. AllFine(t, d) /\ Calls(t)[d] \in Tables
    BY <1>1, CallsAre, CallsFine
  <2>2. QED BY <1>1, <1>5, <2>1, TableGives, FunctionsAre DEF AllFine
<1>7. Parse(t) = [r EXCEPT !.bad = @ \/ r.cell = NoCell]
  BY DEF Parse
<1> HIDE DEF r
<1>8. QED BY <1>6, <1>7 DEF Results, Fine

(***************************************************************************)
(* Sequences put one after the other.                                      *)
(***************************************************************************)

\* A function as FlattenSeq builds it.
Flattens(h, ss) == h = [i \in 1 .. Len(ss) |-> IF i = 1 THEN ss[i] ELSE h[i - 1] \o ss[i]]

LEMMA FlattenIs ==
  ASSUME NEW S, NEW ss \in Seq(Seq(S))
  PROVE  /\ Len(ss) = 0 => SX!FlattenSeq(ss) = << >>
         /\ Len(ss) # 0 => \E h : Flattens(h, ss) /\ SX!FlattenSeq(ss) = h[Len(ss)]
<1>1. Len(ss) \in Nat /\ \A i \in 1 .. Len(ss) : ss[i] \in Seq(S)
  BY LenProperties, ElementOfSeq
<1>2. CASE Len(ss) = 0
  <2>1. ss = << >>
    BY <1>2, EmptySeq
  <2>2. QED BY <1>2, <2>1 DEF SX!FlattenSeq
<1>3. CASE Len(ss) # 0
  <2> DEFINE F == [p \in Nat \X Seq(S) |-> IF p[1] \in 1 .. Len(ss) THEN p[2] \o ss[p[1]] ELSE p[2]]
  <2>1. << >> \in Seq(S) /\ F \in [Nat \X Seq(S) -> Seq(S)]
    BY <1>1, EmptySeq, ConcatProperties
  <2>2. PICK g \in [Nat -> Seq(S)] : Follows(g, << >>, F)
    <3> HIDE DEF F
    <3>1. QED BY <2>1, Recursion
  <2>3. /\ g[0] = << >> /\ \A n \in 1 .. Len(ss) : g[n] = g[n - 1] \o ss[n]
    <3>1. g[0] = << >> /\ \A n \in Nat \ {0} : g[n] = F[<<n, g[n - 1]>>]
      <4> HIDE DEF F
      <4>1. QED BY <2>2 DEF Follows
    <3>2. ASSUME NEW n \in 1 .. Len(ss) PROVE g[n] = g[n - 1] \o ss[n]
      <4>1. n \in Nat \ {0} /\ n - 1 \in Nat
        BY <1>1
      <4>2. <<n, g[n - 1]>> \in Nat \X Seq(S)
        BY <2>2, <4>1
      <4>3. QED BY <3>1, <4>1, <4>2
    <3>3. QED BY <3>1, <3>2
  <2> DEFINE h == [i \in 1 .. Len(ss) |-> g[i]]
  <2>4. Flattens(h, ss)
    <3>1. ASSUME NEW i \in 1 .. Len(ss)
          PROVE  g[i] = IF i = 1 THEN ss[i] ELSE h[i - 1] \o ss[i]
      <4>1. CASE i = 1
        <5>1. g[1] = g[0] \o ss[1] /\ ss[1] \in Seq(S)
          <6>1. 1 \in 1 .. Len(ss) /\ 1 - 1 = 0
            BY <4>1
          <6>2. g[1] = g[1 - 1] \o ss[1]
            BY <2>3, <6>1
          <6>3. QED BY <1>1, <6>1, <6>2
        <5>2. << >> \o ss[1] = ss[1]
          BY <5>1, ConcatEmptySeq
        <5>3. QED BY <2>3, <4>1, <5>1, <5>2
      <4>2. CASE i # 1
        <5>1. i - 1 \in 1 .. Len(ss)
          BY <1>1, <4>2
        <5>2. QED BY <2>3, <4>2, <5>1
      <4>3. QED BY <4>1, <4>2
    <3>2. QED BY <3>1 DEF Flattens
  <2> HIDE DEF h
  <2>5. PICK f : f = CHOOSE k : Flattens(k, ss)
    OBVIOUS
  <2>6. Flattens(f, ss)
    BY <2>4, <2>5
  <2>7. SX!FlattenSeq(ss) = f[Len(ss)]
    BY <1>3, <2>5 DEF SX!FlattenSeq, Flattens
  <2>8. QED BY <1>3, <2>6, <2>7
<1>4. QED BY <1>2, <1>3

\* To flatten is to put one after the other.
LEMMA FlattenAppend ==
  ASSUME NEW S, NEW ss \in Seq(Seq(S)), NEW s \in Seq(S)
  PROVE  /\ SX!FlattenSeq(ss) \in Seq(S) /\ SX!FlattenSeq(Append(ss, s)) = SX!FlattenSeq(ss) \o s
<1> DEFINE ts == Append(ss, s)
           n == Len(ss)
<1>1. /\ n \in Nat /\ \A i \in 1 .. n : ss[i] \in Seq(S)
      /\ ts \in Seq(Seq(S)) /\ Len(ts) = n + 1
      /\ \A i \in 1 .. n : ts[i] = ss[i]
      /\ ts[n + 1] = s
  BY LenProperties, ElementOfSeq, AppendProperties
<1> HIDE DEF ts
<1>2. PICK h : Flattens(h, ts) /\ SX!FlattenSeq(ts) = h[n + 1]
  <2>1. Len(ts) # 0
    BY <1>1
  <2>2. \E h : Flattens(h, ts) /\ SX!FlattenSeq(ts) = h[Len(ts)]
    BY <1>1, <2>1, FlattenIs
  <2>3. QED BY <1>1, <2>2
<1>3. \A i \in 1 .. n + 1 : h[i] = IF i = 1 THEN ts[i] ELSE h[i - 1] \o ts[i]
  <2> DEFINE H(i) == IF i = 1 THEN ts[i] ELSE h[i - 1] \o ts[i]
  <2>1. h = [i \in 1 .. n + 1 |-> H(i)]
    BY <1>1, <1>2 DEF Flattens
  <2> HIDE DEF H
  <2>2. \A i \in 1 .. n + 1 : h[i] = H(i)
    BY <2>1
  <2>3. QED BY <2>2 DEF H
<1>4. CASE n = 0
  <2>1. SX!FlattenSeq(ss) = << >>
    BY <1>4, FlattenIs
  <2>5. h[1] = s
    <3>1. 1 \in 1 .. n + 1 /\ n + 1 = 1
      BY <1>1, <1>4
    <3>2. h[1] = ts[1]
      BY <1>3, <3>1
    <3>3. QED BY <1>1, <3>1, <3>2
  <2>2. << >> \o s = s /\ << >> \in Seq(S)
    BY ConcatEmptySeq, EmptySeq
  <2>3. SX!FlattenSeq(ts) = s
    <3>1. n + 1 = 1
      BY <1>4
    <3>2. QED BY <1>2, <2>5, <3>1
  <2>4. QED BY <2>1, <2>2, <2>3 DEF ts
<1>5. CASE n # 0
  <2>1. PICK f : Flattens(f, ss) /\ SX!FlattenSeq(ss) = f[n]
    BY <1>5, FlattenIs
  <2>2. \A i \in 1 .. n : f[i] = IF i = 1 THEN ss[i] ELSE f[i - 1] \o ss[i]
    <3> DEFINE H(i) == IF i = 1 THEN ss[i] ELSE f[i - 1] \o ss[i]
    <3>1. f = [i \in 1 .. n |-> H(i)]
      BY <2>1 DEF Flattens
    <3> HIDE DEF H
    <3>2. \A i \in 1 .. n : f[i] = H(i)
      BY <3>1
    <3>3. QED BY <3>2 DEF H
  <2> DEFINE Good == {k \in Nat : k + 1 <= n => f[k + 1] = h[k + 1] /\ f[k + 1] \in Seq(S)}
  <2>3. 0 \in Good
    <3>1. 1 \in 1 .. n /\ 1 \in 1 .. n + 1
      BY <1>1, <1>5
    <3>2. f[1] = h[1] /\ f[1] \in Seq(S)
      BY <1>1, <1>3, <2>2, <3>1
    <3>3. QED BY <3>2
  <2>4. ASSUME NEW k \in Nat, k \in Good PROVE k + 1 \in Good
    <3>1. SUFFICES ASSUME (k + 1) + 1 <= n
                   PROVE  f[(k + 1) + 1] = h[(k + 1) + 1] /\ f[(k + 1) + 1] \in Seq(S)
      OBVIOUS
    <3>2. f[k + 1] = h[k + 1] /\ f[k + 1] \in Seq(S)
      BY <1>1, <2>4, <3>1
    <3> DEFINE m == (k + 1) + 1
    <3> HIDE DEF m
    <3>3. m \in 1 .. n /\ m \in 1 .. n + 1 /\ m # 1 /\ m - 1 = k + 1
      BY <1>1, <3>1 DEF m
    <3>4. f[m] = f[k + 1] \o ss[m] /\ h[m] = h[k + 1] \o ts[m] /\ ts[m] = ss[m] /\ ss[m] \in Seq(S)
      BY <1>1, <1>3, <2>2, <3>3
    <3>5. f[m] = h[m] /\ f[m] \in Seq(S)
      BY <3>2, <3>4, ConcatProperties
    <3>6. QED BY <3>5 DEF m
  <2>5. \A k \in Nat : k \in Good
    <3> HIDE DEF Good
    <3>1. QED BY <2>3, <2>4, Induction
  <2>6. f[n] = h[n] /\ f[n] \in Seq(S)
    <3> DEFINE k == n - 1
    <3>1. k \in Nat /\ k + 1 = n
      BY <1>1, <1>5
    <3> HIDE DEF k, n
    <3>2. k + 1 <= n
      BY <1>1, <3>1
    <3>3. f[k + 1] = h[k + 1] /\ f[k + 1] \in Seq(S)
      BY <2>5, <3>1, <3>2
    <3>4. QED BY <3>1, <3>3
  <2>7. h[n + 1] = h[n] \o s
    <3>1. n + 1 \in 1 .. n + 1 /\ n + 1 # 1 /\ (n + 1) - 1 = n
      BY <1>1, <1>5
    <3>2. QED BY <1>1, <1>3, <3>1
  <2>8. QED BY <1>2, <2>1, <2>6, <2>7 DEF ts
<1>6. QED BY <1>4, <1>5

\* To flatten two sequences, one after the other.
LEMMA FlattenConcat ==
  ASSUME NEW S, NEW a \in Seq(Seq(S)), NEW b \in Seq(Seq(S))
  PROVE  /\ SX!FlattenSeq(a) \in Seq(S) /\ SX!FlattenSeq(b) \in Seq(S)
         /\ SX!FlattenSeq(a \o b) = SX!FlattenSeq(a) \o SX!FlattenSeq(b)
<1> DEFINE Flat(c) == SX!FlattenSeq(c)
           u(n) == SubSeq(b, 1, n)
           Good == {n \in Nat : n <= Len(b) => Flat(a \o u(n)) = Flat(a) \o Flat(u(n))}
<1>1. Len(b) \in Nat /\ \A c \in Seq(Seq(S)) : Flat(c) \in Seq(S)
  <2>1. Len(b) \in Nat /\ << >> \in Seq(S)
    BY LenProperties, EmptySeq
  <2>2. \A c \in Seq(Seq(S)) : Flat(c) \in Seq(S)
    BY <2>1, FlattenAppend
  <2>3. QED BY <2>1, <2>2
<1>2. Flat(<< >>) = << >>
  <2>1. << >> \in Seq(Seq(S)) /\ Len(<< >>) = 0
    BY EmptySeq
  <2>2. QED BY <2>1, FlattenIs
<1>3. 0 \in Good
  <2>1. u(0) = << >>
    BY SubSeqEmpty
  <2>2. a \o << >> = a /\ Flat(a) \o << >> = Flat(a)
    <3> DEFINE f == Flat(a)
    <3>1. f \in Seq(S)
      BY <1>1
    <3> HIDE DEF f
    <3>2. a \o << >> = a /\ f \o << >> = f
      BY <3>1, ConcatEmptySeq
    <3>3. QED BY <3>2 DEF f
  <2>3. Flat(a \o u(0)) = Flat(a) \o Flat(u(0))
    BY <1>2, <2>1, <2>2
  <2>4. QED BY <2>3
<1>4. ASSUME NEW n \in Nat, n \in Good PROVE n + 1 \in Good
  <2>1. SUFFICES ASSUME n + 1 <= Len(b)
                 PROVE  Flat(a \o u(n + 1)) = Flat(a) \o Flat(u(n + 1))
    OBVIOUS
  <2>2. n + 1 \in 1 .. Len(b) /\ (n + 1) - 1 = n
    BY <1>1, <2>1
  <2>3. u(n) \in Seq(Seq(S)) /\ b[n + 1] \in Seq(S) /\ u(n + 1) = Append(u(n), b[n + 1])
    BY <2>2, FrontAndLast
  <2> DEFINE e == b[n + 1]
             un == u(n)
             un1 == u(n + 1)
  <2>4. Flat(a \o un) = Flat(a) \o Flat(un)
    BY <1>1, <1>4, <2>1
  <2> HIDE DEF e, un, un1
  <2>5. un \in Seq(Seq(S)) /\ e \in Seq(S) /\ un1 = Append(un, e)
    BY <2>3 DEF e, un, un1
  <2>6. a \o un \in Seq(Seq(S)) /\ a \o un1 = Append(a \o un, e)
    BY <2>5, ConcatAppend
  <2>7. Flat(a \o un1) = Flat(a \o un) \o e
    BY <2>5, <2>6, FlattenAppend
  <2>8. Flat(un1) = Flat(un) \o e /\ Flat(un) \in Seq(S) /\ Flat(a) \in Seq(S)
    BY <1>1, <2>5, FlattenAppend
  <2> HIDE DEF Flat
  <2>9. (Flat(a) \o Flat(un)) \o e = Flat(a) \o (Flat(un) \o e)
    <3> DEFINE fa == Flat(a)
               fu == Flat(un)
    <3>1. fa \in Seq(S) /\ fu \in Seq(S) /\ e \in Seq(S)
      BY <2>5, <2>8
    <3> HIDE DEF fa, fu
    <3>2. (fa \o fu) \o e = fa \o (fu \o e)
      BY <3>1, ConcatAssociative, SMTT(30)
    <3>3. QED BY <3>2 DEF fa, fu
  <2>10. Flat(a \o un1) = Flat(a) \o Flat(un1)
    BY <2>4, <2>7, <2>8, <2>9
  <2>11. QED BY <2>10 DEF un1
<1>5. \A n \in Nat : n \in Good
  <2> HIDE DEF Good
  <2>1. QED BY <1>3, <1>4, Induction
<1>6. u(Len(b)) = b
  BY SubSeqFull
<1>7. Flat(a \o u(Len(b))) = Flat(a) \o Flat(u(Len(b)))
  <2>1. Len(b) \in Good
    BY <1>1, <1>5
  <2>2. Len(b) <= Len(b)
    BY <1>1
  <2>3. QED BY <2>1, <2>2
<1>8. QED BY <1>1, <1>6, <1>7

(***************************************************************************)
(* What is open, and how often its brackets are found.                     *)
(***************************************************************************)

\* What is not found in a text is at no place of it.
LEMMA CountNone ==
  ASSUME NEW S, NEW s \in Seq(S), NEW x, Count(x, s) = 0 PROVE \A i \in 1 .. Len(s) : s[i] # x
<1> DEFINE A == {i \in DOMAIN s : s[i] = x}
<1>1. Len(s) \in Nat /\ DOMAIN s = 1 .. Len(s)
  BY LenProperties
<1>2. IsFiniteSet(A)
  <2>1. A \subseteq DOMAIN s
    OBVIOUS
  <2> HIDE DEF A
  <2>2. A \in SUBSET (1 .. Len(s))
    BY <1>1, <2>1
  <2>3. IsFiniteSet(1 .. Len(s))
    BY <1>1, FS_Interval
  <2>4. QED BY <2>2, <2>3, FS_Subset
<1>3. A = {}
  <2>1. Cardinality(A) = 0
    BY DEF Count
  <2> HIDE DEF A
  <2>2. QED BY <1>2, <2>1, FS_EmptySet
<1>4. QED BY <1>1, <1>3

\* If no list of a kind is open, none is at any place of what is open.
LEMMA InOpenNone ==
  ASSUME NEW s \in Stacks, NEW b, InOpen(b, s) = 0
  PROVE  \A i \in 1 .. Len(s) : s[i] # b /\ (b = "(" => s[i] # "(!")
<1>1. Count(b, s) \in Nat /\ Count("(!", s) \in Nat
  BY CountNat DEF Stacks
<1>2. CASE b = "("
  <2> DEFINE x == Count("(", s)
             y == Count("(!", s)
  <2>1. x \in Nat /\ y \in Nat /\ x + y = 0
    BY <1>1, <1>2 DEF InOpen
  <2> HIDE DEF x, y
  <2>2. x = 0 /\ y = 0
    BY <2>1
  <2>3. QED BY <1>2, <2>2, CountNone DEF x, y, Stacks
<1>3. CASE b # "("
  <2>1. Count(b, s) = 0
    BY <1>3 DEF InOpen
  <2>2. QED BY <1>3, <2>1, CountNone DEF Stacks
<1>4. QED BY <1>2, <1>3

\* A bracket cannot close what is not open.
LEMMA ClosesNothing ==
  ASSUME NEW s \in Stacks, NEW b \in ListBrackets, s = Wrong \/ InOpen(b, s) = 0
  PROVE  Opened(s, ClosingSym(b)) = Wrong
<1>1. CASE s = Wrong
  BY <1>1, WrongStays
<1>2. CASE InOpen(b, s) = 0
  <2>1. Innermost(s) # b
    <3>1. CASE s = << >>
      BY <3>1 DEF Innermost, ListBrackets
    <3>2. CASE s # << >>
      <4>1. Len(s) \in Nat /\ Len(s) # 0 /\ Innermost(s) = s[Len(s)]
        BY <3>2, InnermostIn
      <4>2. Len(s) \in 1 .. Len(s)
        BY <4>1
      <4>3. QED BY <1>2, <4>1, <4>2, InOpenNone
    <3>3. QED BY <3>1, <3>2
  <2>2. CASE b = "("
    BY <2>1, <2>2 DEF Opened, ClosingSym
  <2>3. CASE b = "["
    BY <2>1, <2>3 DEF Opened, ClosingSym
  <2>4. CASE b = "{"
    BY <2>1, <2>4 DEF Opened, ClosingSym
  <2>5. QED BY <2>2, <2>3, <2>4 DEF ListBrackets
<1>3. QED BY <1>1, <1>2

\* The outermost of the open lists is an instruction.
Rooted(s) == s = << >> \/ s[1] \in {"(!", "("}

LEMMA OpenedRooted ==
  ASSUME NEW s \in Stacks, Rooted(s), NEW token, Opened(s, token) # Wrong PROVE Rooted(Opened(s, token))
<1> DEFINE r == Opened(s, token)
<1>1. Len(s) \in Nat /\ DOMAIN s = 1 .. Len(s) /\ (s # << >> => 1 \in 1 .. Len(s) /\ Len(s) \in 1 .. Len(s))
  <2>1. Len(s) \in Nat /\ DOMAIN s = 1 .. Len(s) /\ (s # << >> => Len(s) # 0)
    BY LenProperties, EmptySeq DEF Stacks
  <2>2. QED BY <2>1
<1>2. Rooted(Called(s)) /\ Called(s) \in Stacks /\ Len(Called(s)) = Len(s) /\ (s # << >> => Called(s) # << >>)
  <2>1. Called(s) \in Stacks /\ Len(Called(s)) = Len(s)
    BY CalledIs
  <2>2. CASE Innermost(s) # "(!"
    BY <2>1, <2>2 DEF Called
  <2>3. CASE Innermost(s) = "(!"
    <3>1. s # << >>
      BY <2>3 DEF Innermost
    <3>2. Called(s) = [s EXCEPT ![Len(s)] = "("]
      BY <2>3 DEF Called
    <3>3. Called(s)[1] = "(" \/ Called(s)[1] = s[1]
      BY <1>1, <3>1, <3>2
    <3>4. Called(s) # << >>
      BY <2>3, CalledIs
    <3>5. QED BY <2>1, <3>1, <3>3, <3>4 DEF Rooted
  <2>4. QED BY <2>2, <2>3
<1>3. ASSUME NEW u \in Stacks, Rooted(u), u # << >>, NEW f \in Lists PROVE Rooted(Append(u, f))
  <2>1. Len(u) \in Nat /\ Len(u) # 0
    BY <1>3, LenProperties, EmptySeq DEF Stacks
  <2>2. 1 \in 1 .. Len(u)
    BY <2>1
  <2>3. Append(u, f)[1] = u[1]
    BY <2>2, AppendProperties DEF Stacks
  <2>4. QED BY <1>3, <2>3 DEF Rooted
<1>4. ASSUME s # << >> PROVE Rooted(Closed(s))
  <2> DEFINE n == Len(s) - 1
             F == Lists \union {"wrong"}
  <2>1. n \in Nat /\ n \in 0 .. Len(s) /\ \A i \in 1 .. n : s[i] \in F
    <3>1. n \in Nat /\ n \in 0 .. Len(s) /\ \A i \in 1 .. n : i \in 1 .. Len(s)
      BY <1>1, <1>4
    <3> HIDE DEF n
    <3>2. QED BY <3>1, ElementOfSeq DEF Stacks
  <2> HIDE DEF n, F
  <2>2. CASE n = 0
    <3>1. SubSeq(s, 1, 0) = << >>
      BY SubSeqEmpty
    <3>2. QED BY <2>2, <3>1 DEF Closed, Rooted, n
  <2>3. CASE n # 0
    <3>1. 1 \in 1 .. n - 1 + 1 /\ 1 + 1 - 1 = 1
      BY <2>1, <2>3
    <3>2. SubSeq(s, 1, n)[1] = s[1 + 1 - 1]
      BY <2>1, <3>1, SubSeqProperties
    <3>3. QED BY <1>4, <3>1, <3>2 DEF Closed, Rooted, n
  <2>4. QED BY <2>2, <2>3
<1>5. /\ "(!" \in Lists /\ "[" \in Lists /\ "{" \in Lists
  BY DEF Lists
<1>6. CASE s = << >>
  <2>1. Innermost(s) = "top" /\ Called(s) = << >>
    BY <1>6 DEF Innermost, Called
  <2>2. r = Append(<< >>, "(!")
    BY <1>6, <2>1 DEF Opened
  <2>3. r[1] = "(!"
    BY <2>2
  <2>4. QED BY <2>3 DEF Rooted
<1>7. CASE s # << >>
  <2>1. /\ Rooted(Append(Called(s), "(!")) /\ Rooted(Append(Called(s), "{")) /\ Rooted(Append(s, "["))
        /\ Rooted(Closed(s)) /\ Rooted(Called(s))
    BY <1>2, <1>3, <1>4, <1>5, <1>7
  <2>2. r \in {Called(s), s, Append(Called(s), "(!"), Append(Called(s), "{"), Append(s, "["), Closed(s)}
    BY DEF Opened
  <2> HIDE DEF r
  <2>3. Rooted(r)
    BY <2>1, <2>2
  <2>4. QED BY <2>3 DEF r
<1>8. QED BY <1>6, <1>7

LEMMA OutermostIsInstruction ==
  ASSUME NEW S, NEW t \in Seq(S), Nesting(t) # Wrong, InOpen("(", Nesting(t)) = 0
  PROVE  Nesting(t) = << >>
<1> DEFINE U == OpenAfter(t)
           Good == {n \in Nat : n <= Len(t) => U[n] = Wrong \/ Rooted(U[n])}
<1>1. Len(t) \in Nat
  BY LenProperties
<1>2. 0 \in Good
  BY OpenAfterIs DEF Rooted
<1>3. ASSUME NEW n \in Nat, n \in Good PROVE n + 1 \in Good
  <2>1. SUFFICES ASSUME n + 1 <= Len(t) PROVE U[n + 1] = Wrong \/ Rooted(U[n + 1])
    OBVIOUS
  <2>2. U[n] = Wrong \/ Rooted(U[n])
    BY <1>1, <1>3, <2>1
  <2>3. n + 1 \in 1 .. Len(t) /\ (n + 1) - 1 = n /\ n \in 0 .. Len(t)
    BY <1>1, <2>1
  <2>4. U[n + 1] = Opened(U[n], t[n + 1]) /\ U[n] \in Stacks
    BY <2>3, OpenAfterIs
  <2> HIDE DEF U
  <2>5. QED BY <2>2, <2>4, OpenedRooted, WrongStays
<1>4. \A n \in Nat : n \in Good
  <2> HIDE DEF Good
  <2>1. QED BY <1>2, <1>3, Induction
<1>5. Rooted(Nesting(t)) /\ Nesting(t) \in Stacks
  <2>1. U[Len(t)] = Wrong \/ Rooted(U[Len(t)])
    BY <1>1, <1>4
  <2>2. QED BY <2>1, NestingIs
<1>6. ASSUME Nesting(t) # << >> PROVE FALSE
  <2> DEFINE s == Nesting(t)
  <2> HIDE DEF s
  <2>1. s \in Stacks /\ s # << >> /\ s[1] \in {"(!", "("} /\ InOpen("(", s) = 0
    BY <1>5, <1>6 DEF Rooted, s
  <2>2. Len(s) \in Nat /\ Len(s) # 0
    BY <2>1, InnermostIn
  <2>3. 1 \in 1 .. Len(s)
    BY <2>2
  <2>4. QED BY <2>1, <2>3, InOpenNone
<1>7. QED BY <1>6

(***************************************************************************)
(* Tokens that wait until no parenthesis is open.                          *)
(***************************************************************************)

\* Parentheses are list brackets.
LEMMA ParenthesesCounted == "(" \in ListBrackets /\ ClosingSym("(") = ")"
BY DEF ListBrackets, ClosingSym

\* A parenthesis of the tokens that wait is never closed before their end.
AlwaysOpen(ts) == \A n \in 1 .. Len(ts) : Count("(", SubSeq(ts, 1, n)) > Count(")", SubSeq(ts, 1, n))

\* The tokens before the last one.
LEMMA PrefixOfAppend ==
  ASSUME NEW ts \in Seq(Tokens), NEW token \in Tokens
  PROVE  /\ \A n \in 1 .. Len(ts) : SubSeq(Append(ts, token), 1, n) = SubSeq(ts, 1, n)
         /\ SubSeq(Append(ts, token), 1, Len(ts) + 1) = Append(ts, token)
         /\ Append(ts, token) \in Seq(Tokens) /\ Len(Append(ts, token)) = Len(ts) + 1
         /\ Len(ts) \in Nat /\ Append(ts, token) # << >>
<1> DEFINE all == Append(ts, token)
<1>1. all \in Seq(Tokens) /\ Len(all) = Len(ts) + 1 /\ Len(ts) \in Nat /\ all = ts \o <<token>> /\ all # << >>
  BY AppendProperties, AppendIsConcat, LenProperties
<1> HIDE DEF all
<1>2. SubSeq(all, 1, Len(ts) + 1) = all
  BY <1>1, SubSeqFull
<1>3. ASSUME NEW n \in 1 .. Len(ts) PROVE SubSeq(all, 1, n) = SubSeq(ts, 1, n)
  <2>1. <<token>> \in Seq(Tokens) /\ 1 \in 1 .. Len(ts)
    <3>1. 1 \in 1 .. Len(ts)
      BY <1>1
    <3>2. QED BY <3>1
  <2>2. QED BY <1>1, <2>1, SubSeqOfConcat1
<1>4. QED BY <1>1, <1>2, <1>3 DEF all

LEMMA AlwaysOpenAppend ==
  ASSUME NEW ts \in Seq(Tokens), AlwaysOpen(ts), NEW token \in Tokens,
         Count("(", Append(ts, token)) > Count(")", Append(ts, token))
  PROVE  AlwaysOpen(Append(ts, token))
<1> DEFINE all == Append(ts, token)
<1>1. /\ \A n \in 1 .. Len(ts) : SubSeq(all, 1, n) = SubSeq(ts, 1, n)
      /\ SubSeq(all, 1, Len(ts) + 1) = all
      /\ Len(all) = Len(ts) + 1 /\ Len(ts) \in Nat
  BY PrefixOfAppend
<1> HIDE DEF all
<1>2. ASSUME NEW n \in 1 .. Len(all) PROVE Count("(", SubSeq(all, 1, n)) > Count(")", SubSeq(all, 1, n))
  <2>1. CASE n = Len(ts) + 1
    BY <1>1, <2>1 DEF all
  <2>2. CASE n # Len(ts) + 1
    <3>1. n \in 1 .. Len(ts)
      BY <1>1, <2>2
    <3>2. QED BY <1>1, <3>1 DEF AlwaysOpen
  <2>3. QED BY <2>1, <2>2
<1>3. QED BY <1>2 DEF AlwaysOpen, all

\* A text whose parentheses are not all closed is no program.
LEMMA UnclosedIsNoProgram ==
  ASSUME NEW S, NEW u \in Seq(S), Count("(", u) > Count(")", u) PROVE ~ Program(u)
<1>1. SUFFICES ASSUME Nesting(u) = << >> PROVE FALSE
  BY DEF Program
<1>2. InOpen("(", Nesting(u)) = Count("(", u) - Count(")", u)
  BY <1>1, WrongIsStack, NestingCounts, ParenthesesCounted
<1>3. InOpen("(", Nesting(u)) = 0
  <2>1. Count("(", << >>) = 0 /\ Count("(!", << >>) = 0 /\ 0 + 0 = 0
    BY CountEmpty
  <2>2. QED BY <1>1, <2>1 DEF InOpen
<1>4. Count("(", u) \in Nat /\ Count(")", u) \in Nat
  BY CountNat
<1> DEFINE o == Count("(", u)
           c == Count(")", u)
<1>5. o \in Nat /\ c \in Nat /\ o > c /\ o - c = 0
  BY <1>2, <1>3, <1>4
<1> HIDE DEF o, c
<1>6. QED BY <1>5

\* In a program each bracket that is opened is closed.
LEMMA ProgramCounts ==
  ASSUME NEW S, NEW u \in Seq(S), Program(u), NEW b \in ListBrackets
  PROVE  Count(b, u) - Count(ClosingSym(b), u) = 0
<1>1. InOpen(b, Nesting(u)) = Count(b, u) - Count(ClosingSym(b), u)
  BY WrongIsStack, NestingCounts DEF Program
<1>2. InOpen(b, Nesting(u)) = 0
  <2>1. Count(b, << >>) = 0 /\ Count("(!", << >>) = 0 /\ Count("(", << >>) = 0 /\ 0 + 0 = 0
    BY CountEmpty
  <2>2. QED BY <2>1 DEF InOpen, Program
<1>3. QED BY <1>1, <1>2

\* The tokens whose last one closes the first parenthesis: all of them are one
\* instruction, or they begin no program.
LEMMA ReadWhole ==
  ASSUME NEW ts \in Seq(Tokens), AlwaysOpen(ts), NEW token \in Tokens, NEW all, all = Append(ts, token),
         Count("(", all) - Count(")", all) = 0
  PROVE  /\ ~ Parse(all).bad => /\ Parse(all).cell = all /\ Program(all) /\ all # NoCell
                                /\ \A n \in 1 .. Len(all) - 1 : ~ Program(SubSeq(all, 1, n))
         /\ Parse(all).bad => Nesting(all) = Wrong
<1>1. /\ \A n \in 1 .. Len(ts) : SubSeq(all, 1, n) = SubSeq(ts, 1, n)
      /\ SubSeq(all, 1, Len(ts) + 1) = all
      /\ all \in Seq(Tokens) /\ Len(all) = Len(ts) + 1 /\ Len(ts) \in Nat /\ all # << >>
  BY PrefixOfAppend
<1>2. ASSUME NEW n \in 1 .. Len(ts) PROVE ~ Program(SubSeq(all, 1, n))
  <2>1. Count("(", SubSeq(ts, 1, n)) > Count(")", SubSeq(ts, 1, n))
    BY DEF AlwaysOpen
  <2>2. SubSeq(ts, 1, n) \in Seq(Tokens)
    <3>1. \A i \in 1 .. n : ts[i] \in Tokens
      <4>1. \A i \in 1 .. n : i \in 1 .. Len(ts)
        BY <1>1
      <4>2. QED BY <4>1, ElementOfSeq
    <3>2. QED BY <3>1, SubSeqProperties
  <2>3. QED BY <1>1, <2>1, <2>2, UnclosedIsNoProgram
<1>3. Len(all) - 1 = Len(ts)
  BY <1>1
<1>4. ASSUME ~ Parse(all).bad PROVE Parse(all).cell = all /\ Program(all)
  <2>1. PICK n \in 1 .. Len(all) : Parse(all).cell = SubSeq(all, 1, n) /\ Program(SubSeq(all, 1, n))
    BY <1>1, <1>4, ParseReads
  <2>2. n \notin 1 .. Len(ts)
    BY <1>2, <2>1
  <2>3. n = Len(ts) + 1
    BY <1>1, <2>2
  <2>4. QED BY <1>1, <2>1, <2>3
<1>5. ASSUME Parse(all).bad, Nesting(all) # Wrong PROVE FALSE
  <2>1. InOpen("(", Nesting(all)) = 0
    BY <1>1, <1>5, NestingCounts, ParenthesesCounted
  <2>2. Program(all)
    BY <1>1, <1>5, <2>1, OutermostIsInstruction DEF Program
  <2>3. QED BY <1>1, <1>5, <2>2, ParsesPrograms
<1>6. QED BY <1>1, <1>2, <1>3, <1>4, <1>5 DEF NoCell

\* Each of the instructions is one program and no shorter one.
EachOne(cells) ==
  \A i \in DOMAIN cells :
    /\ Program(cells[i])
    /\ \A n \in 1..Len(cells[i]) - 1 : ~Program(SubSeq(cells[i], 1, n))

LEMMA EachOneAppend ==
  ASSUME NEW S, NEW cells \in Seq(S), NEW all \in S, EachOne(cells), Program(all),
         \A n \in 1 .. Len(all) - 1 : ~ Program(SubSeq(all, 1, n))
  PROVE  EachOne(Append(cells, all))
<1>1. /\ Len(cells) \in Nat /\ DOMAIN cells = 1 .. Len(cells)
      /\ DOMAIN Append(cells, all) = 1 .. Len(cells) + 1
      /\ \A i \in 1 .. Len(cells) : Append(cells, all)[i] = cells[i]
      /\ Append(cells, all)[Len(cells) + 1] = all
  BY AppendProperties, LenProperties
<1>2. ASSUME NEW i \in 1 .. Len(cells) + 1
      PROVE  /\ Program(Append(cells, all)[i])
             /\ \A n \in 1 .. Len(Append(cells, all)[i]) - 1 :
                  ~ Program(SubSeq(Append(cells, all)[i], 1, n))
  <2>1. CASE i = Len(cells) + 1
    BY <1>1, <2>1
  <2>2. CASE i # Len(cells) + 1
    <3>1. i \in 1 .. Len(cells)
      BY <1>1, <2>2
    <3>2. Append(cells, all)[i] = cells[i] /\ i \in DOMAIN cells
      BY <1>1, <3>1
    <3>3. QED BY <3>2 DEF EachOne
  <2>3. QED BY <2>1, <2>2
<1>3. QED BY <1>1, <1>2 DEF EachOne
=============================================================================
