---------------------------- MODULE MemoryProofs ----------------------------
(***************************************************************************)
(* For any number of variables and blocks and integers of any width: every *)
(* variable keeps its type; what is copied into memory is loaded again as  *)
(* the number it was; and mem-new, mem-del, mem-cpy and mem-load leave no  *)
(* pointer dangling, in programs that neither assign a pointer to another  *)
(* variable nor copy a cell that copy_cell_into_memory has no case for.    *)
(***************************************************************************)
EXTENDS Memory, Foundations

(***************************************************************************)
(* Division.                                                               *)
(***************************************************************************)

LEMMA Divided ==
  ASSUME NEW a \in Int, NEW b \in Nat \ {0}
  PROVE  a \div b \in Int /\ a % b \in 0 .. b - 1 /\ a = (a \div b) * b + (a % b)
<1>1. a \div b \in Int
  OBVIOUS
<1>2. a % b \in 0 .. b - 1
  OBVIOUS
<1>3. a = (a \div b) * b + (a % b)
  OBVIOUS
<1>4. QED BY <1>1, <1>2, <1>3

LEMMA DividedOnce ==
  ASSUME NEW a \in Int, NEW b \in Nat \ {0}, NEW q \in Int, NEW r \in 0 .. b - 1, a = q * b + r
  PROVE  a \div b = q /\ a % b = r
OBVIOUS

LEMMA Shifted ==
  ASSUME NEW a \in Int, NEW b \in Nat \ {0}, NEW k \in Int
  PROVE  (a + k * b) % b = a % b
<1> DEFINE q == a \div b  r == a % b  c == a + k * b
<1>1. q \in Int /\ r \in 0 .. b - 1 /\ a = q * b + r
  BY Divided
<1> HIDE DEF q, r
<1>2. c \in Int /\ q + k \in Int /\ c = (q + k) * b + r
  <2>1. (q + k) * b = q * b + k * b
    BY <1>1
  <2>2. c \in Int
    OBVIOUS
  <2>3. QED BY <1>1, <2>1, <2>2
<1> HIDE DEF c
<1>3. c % b = r
  <2> DEFINE s == q + k
  <2>1. s \in Int /\ c = s * b + r
    BY <1>2
  <2> HIDE DEF s
  <2>2. QED BY <1>1, <1>2, <2>1, DividedOnce
<1>4. QED BY <1>3 DEF c, r

\* The lower part of a number, and what is above.
LEMMA Stepped ==
  ASSUME NEW v \in Int, NEW b \in Nat \ {0}, NEW d \in Nat \ {0}
  PROVE  v % (d * b) = (v % b) + ((v \div b) % d) * b
<1> DEFINE q == v \div b  r == v % b  s == q \div d  t == q % d  c == d * b
<1>1. q \in Int /\ r \in 0 .. b - 1 /\ v = q * b + r
  BY Divided
<1>2. s \in Int /\ t \in 0 .. d - 1 /\ q = s * d + t
  <2> HIDE DEF q
  <2>1. QED BY <1>1, Divided
<1> HIDE DEF q, r, s, t
<1>3. c \in Nat \ {0}
  OBVIOUS
<1>4. t * b + r \in 0 .. c - 1
  <2>1. t * b <= (d - 1) * b /\ t * b >= 0 /\ t * b \in Int
    BY <1>2
  <2>2. (d - 1) * b = c - b
    OBVIOUS
  <2> HIDE DEF c
  <2>3. QED BY <1>1, <1>3, <2>1, <2>2
<1>5. v = s * c + (t * b + r)
  <2>1. q * b = (s * d) * b + t * b
    BY <1>2
  <2>2. (s * d) * b = s * c
    BY <1>2
  <2>3. s * c \in Int /\ t * b \in Int /\ q * b \in Int
    BY <1>1, <1>2, <1>3
  <2> HIDE DEF c
  <2>4. QED BY <1>1, <2>1, <2>2, <2>3
<1> DEFINE w == t * b + r
<1>6. v % c = w
  <2>1. w \in 0 .. c - 1 /\ v = s * c + w
    BY <1>4, <1>5
  <2> HIDE DEF c, w
  <2>2. QED BY <1>2, <1>3, <2>1, DividedOnce
<1>7. QED BY <1>6 DEF c, w, q, r, t

LEMMA Twice ==
  ASSUME NEW v \in Int, NEW b \in Nat \ {0}, NEW d \in Nat \ {0}
  PROVE  (v % (d * b)) % b = v % b
<1> DEFINE c == d * b
<1>1. c \in Nat \ {0}
  OBVIOUS
<1> DEFINE q == v \div c  r == v % c
<1>2. q \in Int /\ r \in 0 .. c - 1 /\ v = q * c + r
  <2> HIDE DEF c
  <2>1. QED BY <1>1, Divided
<1> HIDE DEF q, r
<1> DEFINE k == q * d
<1>3. k \in Int /\ v = r + k * b /\ r \in Int
  <2>1. q * c = k * b
    BY <1>2
  <2>2. k \in Int /\ q * c \in Int /\ r \in Int
    BY <1>1, <1>2
  <2> HIDE DEF c, k
  <2>3. QED BY <1>2, <2>1, <2>2
<1>4. v % b = r % b
  <2> HIDE DEF k
  <2>1. QED BY <1>3, Shifted
<1>5. QED BY <1>4 DEF r, c

(***************************************************************************)
(* Bytes, and the numbers they stand for.                                  *)
(***************************************************************************)

\* How many values n bytes have.
LEMMA PowerFacts ==
  /\ Bytes(0) = 1
  /\ \A n \in Nat : Bytes(n) \in Nat \ {0} /\ Bytes(n + 1) = Byte * Bytes(n)
<1> DEFINE F == [q \in Nat \X Nat |-> IF q[1] = 0 THEN 1 ELSE Byte * q[2]]
           Body(f) == [n \in Nat |-> IF n = 0 THEN 1 ELSE Byte * f[n - 1]]
<1>1. Byte \in Nat /\ Byte >= 2
  BY NumbersAssumption
<1>2. F \in [Nat \X Nat -> Nat]
  <2>1. \A m \in Nat : Byte * m \in Nat
    BY <1>1
  <2>2. QED BY <2>1
<1>3. PICK f \in [Nat -> Nat] : f[0] = 1 /\ \A n \in Nat \ {0} : f[n] = F[<<n, f[n - 1]>>]
  <2> HIDE DEF F
  <2>1. \E f \in [Nat -> Nat] : Follows(f, 1, F)
    BY <1>2, Recursion
  <2>2. QED BY <2>1 DEF Follows
<1>4. ASSUME NEW n \in Nat PROVE f[n] = IF n = 0 THEN 1 ELSE Byte * f[n - 1]
  <2>1. CASE n = 0
    BY <1>3, <2>1
  <2>2. CASE n # 0
    <3>1. n - 1 \in Nat
      BY <2>2
    <3>2. f[n - 1] \in Nat /\ f[n] = F[<<n, f[n - 1]>>]
      BY <1>3, <2>2, <3>1
    <3>3. QED BY <2>2, <3>2
  <2>3. QED BY <2>1, <2>2
<1>5. f = Body(f)
  BY <1>3, <1>4
<1>6. Power = CHOOSE g : g = Body(g)
  BY DEF Power
<1> HIDE DEF Body
<1>7. Power = Body(Power)
  BY <1>5, <1>6
<1>8. \A n \in Nat : Bytes(n) = IF n = 0 THEN 1 ELSE Byte * Bytes(n - 1)
  <2>1. \A n \in Nat : Body(Power)[n] = IF n = 0 THEN 1 ELSE Byte * Power[n - 1]
    BY DEF Body
  <2>2. QED BY <1>7, <2>1 DEF Bytes
<1>9. Bytes(0) = 1
  BY <1>8
<1>10. \A n \in Nat : Bytes(n + 1) = Byte * Bytes(n)
  <2>1. ASSUME NEW n \in Nat PROVE Bytes(n + 1) = Byte * Bytes(n)
    <3>1. n + 1 \in Nat /\ n + 1 # 0 /\ n + 1 - 1 = n
      OBVIOUS
    <3>2. QED BY <1>8, <3>1
  <2>2. QED BY <2>1
<1>11. \A n \in Nat : Bytes(n) \in Nat \ {0}
  <2> DEFINE S == {n \in Nat : Bytes(n) \in Nat \ {0}}
  <2>1. 0 \in S
    BY <1>9
  <2>2. ASSUME NEW n \in Nat, n \in S PROVE n + 1 \in S
    <3> DEFINE m == Bytes(n)
    <3>1. m \in Nat \ {0} /\ Bytes(n + 1) = Byte * m
      BY <1>10, <2>2
    <3> HIDE DEF m
    <3>2. Byte * m \in Nat \ {0}
      BY <1>1, <3>1
    <3>3. QED BY <3>1, <3>2
  <2> HIDE DEF S
  <2>3. \A n \in Nat : n \in S
    BY <2>1, <2>2, Induction
  <2>4. QED BY <2>3 DEF S
<1>12. QED BY <1>9, <1>10, <1>11

\* More bytes have so many times the values that fewer have.
LEMMA MoreBytes ==
  ASSUME NEW n \in Nat
  PROVE  \A m \in Nat : \E k \in Nat \ {0} : (m # 0 => k >= 2) /\ Bytes(n + m) = k * Bytes(n)
<1> DEFINE P(m) == \E k \in Nat \ {0} : (m # 0 => k >= 2) /\ Bytes(n + m) = k * Bytes(n)
           S == {m \in Nat : P(m)}
<1>1. Byte \in Nat /\ Byte >= 2
  BY NumbersAssumption
<1>2. Bytes(n) \in Nat
  BY PowerFacts
<1>3. 0 \in S
  <2>1. n + 0 = n /\ Bytes(n) = 1 * Bytes(n)
    BY <1>2
  <2>2. QED BY <2>1
<1>4. ASSUME NEW m \in Nat, m \in S PROVE m + 1 \in S
  <2>1. PICK k \in Nat \ {0} : Bytes(n + m) = k * Bytes(n)
    BY <1>4
  <2> DEFINE l == Byte * k  b == Bytes(n)
  <2>2. l \in Nat \ {0} /\ l >= 2
    BY <1>1
  <2>3. Bytes(n + (m + 1)) = Byte * (k * b)
    <3>1. n + m \in Nat /\ n + (m + 1) = (n + m) + 1
      OBVIOUS
    <3>2. QED BY <2>1, <3>1, PowerFacts
  <2>4. Byte * (k * b) = l * b
    <3> HIDE DEF b
    <3>1. b \in Nat
      BY <1>2 DEF b
    <3>2. QED BY <1>1, <3>1
  <2> HIDE DEF l
  <2>5. P(m + 1)
    BY <2>2, <2>3, <2>4
  <2>6. QED BY <2>5
<1> HIDE DEF S
<1>5. \A m \in Nat : m \in S
  BY <1>3, <1>4, Induction
<1>6. QED BY <1>5 DEF S

LEMMA Wider ==
  ASSUME NEW n \in Nat, NEW m \in Nat, n <= m
  PROVE  \E k \in Nat \ {0} : (n # m => k >= 2) /\ Bytes(m) = k * Bytes(n)
<1> DEFINE d == m - n
<1>1. d \in Nat /\ n + d = m /\ (n # m => d # 0)
  OBVIOUS
<1> HIDE DEF d
<1>2. QED BY <1>1, MoreBytes

\* What Decoded adds up.
SumIn(s) ==
  LET Sum[i \in 0..Len(s)] == IF i = 0 THEN 0 ELSE Sum[i - 1] + s[i] * Bytes(i - 1)
  IN Sum

LEMMA DecodedIs == ASSUME NEW s PROVE Decoded(s) = SumIn(s)[Len(s)]
BY DEF Decoded, SumIn

LEMMA SumInFacts ==
  ASSUME NEW s \in Seq(Nat)
  PROVE  /\ SumIn(s)[0] = 0
         /\ \A n \in 1 .. Len(s) : SumIn(s)[n] = SumIn(s)[n - 1] + s[n] * Bytes(n - 1)
<1> DEFINE L == Len(s)
           Add(n) == IF n \in 1 .. L THEN s[n] * Bytes(n - 1) ELSE 0
           F == [q \in Nat \X Nat |-> q[2] + Add(q[1])]
           Body(f) == [i \in 0 .. Len(s) |-> IF i = 0 THEN 0 ELSE f[i - 1] + s[i] * Bytes(i - 1)]
<1>1. L \in Nat
  OBVIOUS
<1>2. \A n \in Nat : Add(n) \in Nat
  <2>1. ASSUME NEW n \in 1 .. L PROVE s[n] * Bytes(n - 1) \in Nat
    <3>1. s[n] \in Nat /\ n - 1 \in Nat
      BY <1>1
    <3>2. Bytes(n - 1) \in Nat
      BY <3>1, PowerFacts
    <3> DEFINE x == s[n]  y == Bytes(n - 1)
    <3>3. x \in Nat /\ y \in Nat
      BY <3>1, <3>2
    <3> HIDE DEF x, y
    <3>4. x * y \in Nat
      BY <3>3
    <3>5. QED BY <3>4 DEF x, y
  <2> HIDE DEF L
  <2>2. QED BY <2>1
<1>3. F \in [Nat \X Nat -> Nat]
  <2> HIDE DEF Add
  <2>1. ASSUME NEW q \in Nat \X Nat PROVE q[2] + Add(q[1]) \in Nat
    <3>1. q[1] \in Nat /\ q[2] \in Nat
      OBVIOUS
    <3> DEFINE x == Add(q[1])
    <3>2. x \in Nat
      BY <1>2, <3>1
    <3> HIDE DEF x
    <3>3. q[2] + x \in Nat
      BY <3>1, <3>2
    <3>4. QED BY <3>3 DEF x
  <2>2. QED BY <2>1
<1>4. PICK f : Approx(Nat, 0, F, f, L)
  <2> HIDE DEF F
  <2>1. 0 \in Nat
    OBVIOUS
  <2>2. QED BY <1>1, <1>3, <2>1, ApproxExists
<1>5. f \in [0 .. L -> Nat] /\ f[0] = 0 /\ \A k \in 1 .. L : f[k] = F[<<k, f[k - 1]>>]
  BY <1>4 DEF Approx
<1>6. ASSUME NEW n \in 0 .. L PROVE f[n] = IF n = 0 THEN 0 ELSE f[n - 1] + s[n] * Bytes(n - 1)
  <2>1. CASE n = 0
    BY <1>5, <2>1
  <2>2. CASE n # 0
    <3>1. n \in 1 .. L /\ n \in Nat /\ n - 1 \in 0 .. L
      BY <1>1, <2>2
    <3>2. f[n - 1] \in Nat /\ f[n] = F[<<n, f[n - 1]>>]
      BY <1>5, <3>1
    <3>3. F[<<n, f[n - 1]>>] = f[n - 1] + Add(n)
      <4> HIDE DEF Add
      <4>1. QED BY <3>1, <3>2
    <3>4. Add(n) = s[n] * Bytes(n - 1)
      BY <3>1
    <3>5. QED BY <2>2, <3>2, <3>3, <3>4
  <2>3. QED BY <2>1, <2>2
<1>7. f = Body(f)
  BY <1>5, <1>6
<1>8. SumIn(s) = CHOOSE g : g = Body(g)
  BY DEF SumIn
<1> HIDE DEF Body
<1>9. SumIn(s) = Body(SumIn(s))
  BY <1>7, <1>8
<1>10. \A n \in 0 .. Len(s) :
         Body(SumIn(s))[n] = IF n = 0 THEN 0 ELSE SumIn(s)[n - 1] + s[n] * Bytes(n - 1)
  BY DEF Body
<1>11. \A n \in 0 .. Len(s) :
         SumIn(s)[n] = IF n = 0 THEN 0 ELSE SumIn(s)[n - 1] + s[n] * Bytes(n - 1)
  BY <1>9, <1>10
<1>12. 0 \in 0 .. Len(s) /\ \A n \in 1 .. Len(s) : n \in 0 .. Len(s) /\ n # 0
  BY <1>1
<1>13. QED BY <1>11, <1>12

LEMMA DecodedNat == ASSUME NEW s \in Seq(Nat) PROVE Decoded(s) \in Nat
<1> DEFINE D(n) == SumIn(s)[n]
           S == {n \in Nat : n <= Len(s) => D(n) \in Nat}
<1>1. 0 \in S
  BY SumInFacts
<1>2. ASSUME NEW n \in Nat, n \in S PROVE n + 1 \in S
  <2>1. CASE n + 1 <= Len(s)
    <3> DEFINE m == n + 1
    <3>1. m \in 1 .. Len(s) /\ m - 1 = n /\ n <= Len(s)
      BY <2>1
    <3> HIDE DEF m
    <3>2. D(m) = D(n) + s[m] * Bytes(n)
      BY <3>1, SumInFacts
    <3>3. D(n) \in Nat /\ s[m] \in Nat /\ Bytes(n) \in Nat
      <4>1. D(n) \in Nat
        BY <1>2, <3>1
      <4>2. s[m] \in Nat
        BY <3>1
      <4>3. Bytes(n) \in Nat
        BY PowerFacts
      <4>4. QED BY <4>1, <4>2, <4>3
    <3> DEFINE x == s[m]  y == Bytes(n)  z == D(n)
    <3>4. x \in Nat /\ y \in Nat /\ z \in Nat
      BY <3>3
    <3> HIDE DEF x, y, z
    <3>5. z + x * y \in Nat
      BY <3>4
    <3>6. D(m) \in Nat
      BY <3>2, <3>5 DEF x, y, z
    <3>7. QED BY <3>6 DEF m
  <2>2. CASE ~ (n + 1 <= Len(s))
    BY <2>2
  <2>3. QED BY <2>1, <2>2
<1> HIDE DEF S
<1>3. \A n \in Nat : n \in S
  BY <1>1, <1>2, Induction
<1>4. Len(s) \in Nat /\ Len(s) <= Len(s)
  OBVIOUS
<1>5. D(Len(s)) \in Nat
  BY <1>3, <1>4 DEF S
<1>6. QED BY <1>5, DecodedIs

\* What mem-cpy writes is what mem-load reads, for every number of bytes.
LEMMA RoundTrip ==
  ASSUME NEW n \in Nat, NEW v \in 0 .. Bytes(n) - 1
  PROVE  /\ Encoded(v, n) \in Seq(0 .. Byte - 1) /\ Len(Encoded(v, n)) = n
         /\ Decoded(Encoded(v, n)) = v
<1> DEFINE E == Encoded(v, n)  D(m) == SumIn(E)[m]
           S == {m \in Nat : m <= n => D(m) = v % Bytes(m)}
<1>1. Byte \in Nat \ {0} /\ v \in Int
  <2>1. Bytes(n) \in Nat
    BY PowerFacts
  <2>2. QED BY <2>1, NumbersAssumption
<1>2. ASSUME NEW i \in 1 .. n PROVE (v \div Bytes(i - 1)) % Byte \in 0 .. Byte - 1
  <2>1. i - 1 \in Nat
    OBVIOUS
  <2>2. Bytes(i - 1) \in Nat \ {0}
    BY <2>1, PowerFacts
  <2> DEFINE b == Bytes(i - 1)  q == v \div b
  <2>3. q \in Int
    <3>1. b \in Nat \ {0}
      BY <2>2
    <3> HIDE DEF b
    <3>2. QED BY <1>1, <3>1, Divided
  <2> HIDE DEF q
  <2>4. q % Byte \in 0 .. Byte - 1
    BY <1>1, <2>3, Divided
  <2>5. QED BY <2>4 DEF q
<1>3. E \in [1 .. n -> 0 .. Byte - 1] /\ \A i \in 1 .. n : E[i] = (v \div Bytes(i - 1)) % Byte
  BY <1>2 DEF Encoded
<1> HIDE DEF E
<1>4. E \in Seq(0 .. Byte - 1) /\ Len(E) = n
  <2> DEFINE T == 0 .. Byte - 1
  <2> HIDE DEF T
  <2>1. E \in [1 .. n -> T]
    BY <1>3 DEF T
  <2>2. E \in Seq(T)
    BY <2>1
  <2>3. DOMAIN E = 1 .. n /\ DOMAIN E = 1 .. Len(E) /\ Len(E) \in Nat
    BY <2>1, <2>2
  <2>4. Len(E) = n
    BY <2>3
  <2>5. QED BY <2>2, <2>4 DEF T
<1>5. E \in Seq(Nat)
  <2>1. 0 .. Byte - 1 \subseteq Nat
    BY <1>1
  <2>2. E \in [1 .. n -> Nat]
    BY <1>3, <2>1
  <2>3. QED BY <2>2
<1>6. 0 \in S
  <2>1. v % 1 = 0
    BY <1>1
  <2>2. D(0) = 0 /\ Bytes(0) = 1
    BY <1>5, SumInFacts, PowerFacts
  <2>3. QED BY <2>1, <2>2
<1>7. ASSUME NEW m \in Nat, m \in S PROVE m + 1 \in S
  <2>1. CASE m + 1 <= n
    <3> DEFINE k == m + 1
    <3>1. k \in 1 .. n /\ k - 1 = m /\ m <= n /\ Bytes(k) = Byte * Bytes(m) /\ Bytes(m) \in Nat \ {0}
      BY <2>1, PowerFacts
    <3> HIDE DEF k
    <3>2. D(k) = D(m) + E[k] * Bytes(m)
      BY <1>4, <1>5, <3>1, SumInFacts
    <3>3. E[k] = (v \div Bytes(m)) % Byte
      BY <1>3, <3>1
    <3>4. D(m) = v % Bytes(m)
      BY <1>7, <3>1
    <3>5. v % Bytes(k) = (v % Bytes(m)) + ((v \div Bytes(m)) % Byte) * Bytes(m)
      <4> DEFINE b == Bytes(m)
      <4>1. b \in Nat \ {0} /\ Bytes(k) = Byte * b
        BY <3>1
      <4> HIDE DEF b
      <4>2. v % (Byte * b) = (v % b) + ((v \div b) % Byte) * b
        BY <1>1, <4>1, Stepped
      <4>3. v % Bytes(k) = (v % b) + ((v \div b) % Byte) * b
        BY <4>1, <4>2
      <4>4. QED BY <4>3 DEF b
    <3>6. D(k) = v % Bytes(k)
      BY <3>2, <3>3, <3>4, <3>5
    <3>7. QED BY <3>6 DEF k
  <2>2. CASE ~ (m + 1 <= n)
    BY <2>2
  <2>3. QED BY <2>1, <2>2
<1> HIDE DEF S
<1>8. \A m \in Nat : m \in S
  BY <1>6, <1>7, Induction
<1>9. D(n) = v % Bytes(n)
  BY <1>8 DEF S
<1>10. v % Bytes(n) = v
  <2> DEFINE b == Bytes(n)
  <2>1. b \in Nat \ {0} /\ v \in 0 .. b - 1
    BY PowerFacts
  <2> HIDE DEF b
  <2>2. v % b = v
    BY <2>1
  <2>3. QED BY <2>2 DEF b
<1>11. Decoded(E) = v
  BY <1>4, <1>9, <1>10, DecodedIs
<1>12. QED BY <1>4, <1>11 DEF E

\* A cell of an integer type: the bits the type does not have are 0.
IsInteger(c) == c.type \in Types /\ c.raw \in 0 .. (Bytes(Size[c.type]) - 1)

LEMMA Widths ==
  /\ "i64" \in Types /\ Size["i64"] \in Nat
  /\ \A t \in Types : Size[t] \in Nat \ {0} /\ Size[t] <= Size["i64"]
BY NumbersAssumption

LEMMA CellTyped ==
  ASSUME NEW t \in Types, NEW v \in Int
  PROVE  IsInteger(Cell(t, v)) /\ Cell(t, v).type = t /\ Cell(t, v).raw = v % Bytes(Size[t])
<1> DEFINE b == Bytes(Size[t])
<1>1. b \in Nat \ {0}
  BY Widths, PowerFacts
<1>2. v % b \in 0 .. b - 1
  <2> HIDE DEF b
  <2>1. QED BY <1>1, Divided
<1>3. QED BY <1>2 DEF Cell, IsInteger

LEMMA SignedOfFacts ==
  ASSUME NEW n \in Nat, NEW r \in Int
  PROVE  SignedOf(r, n) \in Int /\ SignedOf(r, n) \in {r, r - Bytes(n)}
<1> DEFINE b == Bytes(n)
<1>1. b \in Nat
  BY PowerFacts
<1>2. r - b \in Int
  <2> HIDE DEF b
  <2>1. QED BY <1>1
<1>3. QED BY <1>2 DEF SignedOf

\* A number and what it is as an int64_t have the same lower bytes.
LEMMA SameBytes ==
  ASSUME NEW n \in Nat, n <= Size["i64"], NEW r \in Int
  PROVE  SignedOf(r, Size["i64"]) % Bytes(n) = r % Bytes(n)
<1> DEFINE w == Bytes(Size["i64"])  b == Bytes(n)  s == SignedOf(r, Size["i64"])
<1>1. s \in {r, r - w}
  BY Widths, SignedOfFacts
<1>2. PICK k \in Nat : w = k * b
  BY Widths, Wider
<1>3. b \in Nat \ {0}
  BY PowerFacts
<1> HIDE DEF s, w, b
<1>4. CASE s = r
  BY <1>4 DEF s, b
<1>5. CASE s = r - w
  <2> DEFINE m == -k
  <2>1. m \in Int /\ m * b = -(k * b) /\ k * b \in Int /\ m * b \in Int
    BY <1>3
  <2> HIDE DEF m
  <2>2. s = r + m * b
    BY <1>2, <1>5, <2>1
  <2>3. s % b = r % b
    BY <1>3, <2>1, <2>2, Shifted
  <2>4. QED BY <2>3 DEF s, b
<1>6. QED BY <1>1, <1>4, <1>5

LEMMA ReadFacts ==
  ASSUME NEW c, IsInteger(c)
  PROVE  /\ AsInteger(c) \in Int /\ Printed(c) \in Int
         /\ AsInteger(c) % Bytes(Size[c.type]) = c.raw
         /\ AsInteger(c) \in {c.raw, c.raw - Bytes(Size["i64"])}
<1> DEFINE n == Size[c.type]  b == Bytes(n)
<1>1. c.type \in Types /\ n \in Nat /\ n <= Size["i64"] /\ b \in Nat \ {0} /\ c.raw \in 0 .. b - 1
  BY Widths, PowerFacts DEF IsInteger
<1>2. c.raw \in Int
  <2> HIDE DEF b
  <2>1. QED BY <1>1
<1>3. c.raw % b = c.raw
  <2> HIDE DEF b
  <2>1. QED BY <1>1
<1>4. /\ AsInteger(c) \in Int
      /\ AsInteger(c) \in {c.raw, c.raw - Bytes(Size["i64"])}
  BY <1>2, Widths, SignedOfFacts DEF AsInteger
<1>5. AsInteger(c) % b = c.raw
  <2>1. AsInteger(c) % Bytes(n) = c.raw % Bytes(n)
    BY <1>1, <1>2, SameBytes DEF AsInteger
  <2>2. QED BY <1>3, <2>1
<1>6. Printed(c) \in Int
  BY <1>1, <1>2, <1>3, SignedOfFacts DEF Printed
<1>7. QED BY <1>4, <1>5, <1>6

\* mem-load reads what mem-cpy wrote as the number it was.
LEMMA StoredBack ==
  ASSUME NEW c, IsInteger(c)
  PROVE  LET n == Size[c.type]  bytes == Encoded(AsInteger(c) % Bytes(n), n)
         IN  bytes \in Seq(0 .. Byte - 1) /\ Printed(Cell(c.type, Decoded(bytes))) = Printed(c)
<1> DEFINE n == Size[c.type]  v == AsInteger(c) % Bytes(n)
<1>1. n \in Nat /\ c.type \in Types
  BY Widths DEF IsInteger
<1>2. v = c.raw /\ v \in 0 .. Bytes(n) - 1
  BY ReadFacts DEF IsInteger
<1>3. v \in Int
  BY <1>1, <1>2, PowerFacts
<1> HIDE DEF v
<1>4. Encoded(v, n) \in Seq(0 .. Byte - 1) /\ Decoded(Encoded(v, n)) = v
  BY <1>1, <1>2, RoundTrip
<1>5. Cell(c.type, v).type = c.type /\ Cell(c.type, v).raw = v % Bytes(n)
  BY <1>1, <1>3, CellTyped
<1>6. v % Bytes(n) = v
  <2> DEFINE b == Bytes(n)
  <2>1. b \in Nat \ {0} /\ v \in 0 .. b - 1
    BY <1>1, <1>2, PowerFacts
  <2> HIDE DEF b
  <2>2. v % b = v
    BY <2>1
  <2>3. QED BY <2>2 DEF b
<1>7. Cell(c.type, v).raw = c.raw
  BY <1>2, <1>5, <1>6
<1>8. Printed(Cell(c.type, v)) = Printed(c)
  BY <1>5, <1>7 DEF Printed
<1>9. QED BY <1>4, <1>8 DEF v

(***************************************************************************)
(* Arithmetic on cells.                                                    *)
(***************************************************************************)

LEMMA MagnitudeFacts ==
  ASSUME NEW a \in Int
  PROVE  Magnitude(a) \in Nat /\ (a >= 0 => Magnitude(a) = a) /\ (a # 0 => Magnitude(a) # 0)
BY DEF Magnitude

LEMMA QuotientTyped ==
  ASSUME NEW a \in Int, NEW b \in Int, b # 0
  PROVE  Quotient(a, b) \in Int
<1> DEFINE x == Magnitude(a)  y == Magnitude(b)  q == x \div y
<1>1. x \in Int /\ y \in Nat \ {0}
  BY MagnitudeFacts
<1>2. q \in Int
  <2> HIDE DEF x, y
  <2>1. QED BY <1>1, Divided
<1>3. Quotient(a, b) \in {q, -q}
  BY DEF Quotient
<1> HIDE DEF q
<1>4. QED BY <1>2, <1>3

\* The remainder of a number that is not negative is not greater.
LEMMA RemainderFacts ==
  ASSUME NEW a \in Int, NEW b \in Int, b # 0
  PROVE  Remainder(a, b) \in Int /\ (a >= 0 => Remainder(a, b) \in 0 .. a)
<1> DEFINE m == b * Quotient(a, b)
<1>1. m \in Int /\ Remainder(a, b) = a - m
  <2> DEFINE q == Quotient(a, b)
  <2>1. q \in Int
    BY QuotientTyped
  <2> HIDE DEF q
  <2>2. b * q \in Int
    BY <2>1
  <2>3. QED BY <2>2 DEF Remainder, q
<1>2. ASSUME a >= 0 PROVE a - m \in 0 .. a
  <2> DEFINE y == Magnitude(b)  q == a \div y
  <2>1. y \in Nat \ {0} /\ (y = b \/ y = -b) /\ (y = b <=> b > 0)
    BY DEF Magnitude
  <2>2. q \in Int /\ a % y \in 0 .. y - 1 /\ a = q * y + (a % y)
    <3> HIDE DEF y
    <3>1. QED BY <2>1, Divided
  <2>3. q >= 0
    <3> HIDE DEF y
    <3>1. a \div y >= 0
      BY <1>2, <2>1
    <3>2. QED BY <3>1
  <2>4. Quotient(a, b) = IF b > 0 THEN q ELSE -q
    <3>1. Magnitude(a) = a
      BY <1>2, MagnitudeFacts
    <3>2. (a < 0) = FALSE
      BY <1>2
    <3>3. Quotient(a, b) = IF (a < 0) = (b < 0) THEN q ELSE -q
      BY <3>1 DEF Quotient
    <3> HIDE DEF q
    <3>4. b > 0 <=> ~ (b < 0)
      OBVIOUS
    <3>5. QED BY <3>2, <3>3, <3>4
  <2> HIDE DEF q
  <2>5. m = q * y
    <3> HIDE DEF m, y
    <3>1. CASE b > 0
      <4>1. y = b
        BY <2>1, <3>1
      <4>2. QED BY <2>2, <2>4, <3>1, <4>1 DEF m
    <3>2. CASE ~ (b > 0)
      <4>1. y = -b
        BY <2>1, <3>2
      <4>2. b * (-q) = q * (-b)
        BY <2>2
      <4>3. QED BY <2>4, <3>2, <4>1, <4>2 DEF m
    <3>3. QED BY <3>1, <3>2
  <2> DEFINE r == a % y
  <2>6. r \in Nat /\ a = m + r
    BY <2>1, <2>2, <2>5
  <2>7. m >= 0
    <3> HIDE DEF y, r, m
    <3>1. q * y >= 0
      BY <2>1, <2>2, <2>3
    <3>2. QED BY <2>5, <3>1
  <2> HIDE DEF r, m
  <2>8. QED BY <1>1, <2>6, <2>7
<1> HIDE DEF m
<1>3. QED BY <1>1, <1>2

\* What is read of a type narrower than int64_t is not negative.
LEMMA NarrowRead ==
  ASSUME NEW c, IsInteger(c), Size[c.type] # Size["i64"]
  PROVE  AsInteger(c) = c.raw /\ Bytes(Size[c.type]) <= Bytes(Size["i64"])
<1> DEFINE w == Bytes(Size["i64"])  b == Bytes(Size[c.type])
<1>1. w \in Nat /\ b \in Nat \ {0} /\ c.raw \in 0 .. b - 1
  BY Widths, PowerFacts DEF IsInteger
<1>2. PICK k \in Nat \ {0} : k >= 2 /\ w = k * b
  BY Widths, Wider DEF IsInteger
<1>3. AsInteger(c) = IF c.raw >= w \div 2 THEN c.raw - w ELSE c.raw
  BY DEF AsInteger, SignedOf
<1> HIDE DEF w, b
<1>4. w >= 2 * b
  <2>1. (k - 2) * b >= 0
    BY <1>1, <1>2
  <2>2. k * b = (k - 2) * b + 2 * b
    BY <1>1, <1>2
  <2> DEFINE z == (k - 2) * b
  <2>3. z \in Int /\ z >= 0 /\ w = z + 2 * b
    BY <1>1, <1>2, <2>1, <2>2
  <2> HIDE DEF z
  <2>4. QED BY <1>1, <2>3
<1>5. w \div 2 >= b
  BY <1>1, <1>4
<1>6. ~ (c.raw >= w \div 2)
  BY <1>1, <1>5
<1>7. AsInteger(c) = c.raw
  BY <1>3, <1>6
<1>8. b <= w
  BY <1>1, <1>4
<1>9. QED BY <1>7, <1>8 DEF w, b

LEMMA RemainderTyped ==
  ASSUME NEW c, IsInteger(c), NEW b \in Int, b # 0
  PROVE  Remainder(AsInteger(c), b) % Bytes(Size["i64"]) \in 0 .. (Bytes(Size[c.type]) - 1)
<1> DEFINE w == Bytes(Size["i64"])  v == Bytes(Size[c.type])  r == Remainder(AsInteger(c), b)
<1>1. w \in Nat \ {0} /\ v \in Nat /\ c.raw \in 0 .. v - 1
  BY Widths, PowerFacts DEF IsInteger
<1>2. r \in Int /\ (AsInteger(c) >= 0 => r \in 0 .. AsInteger(c))
  BY ReadFacts, RemainderFacts
<1> HIDE DEF r
<1>3. CASE Size[c.type] = Size["i64"]
  <2>1. v = w
    BY <1>3
  <2> HIDE DEF w, v
  <2>2. r % w \in 0 .. w - 1
    BY <1>1, <1>2, Divided
  <2>3. QED BY <2>1, <2>2 DEF w, v, r
<1>4. CASE Size[c.type] # Size["i64"]
  <2>1. AsInteger(c) = c.raw /\ v <= w
    BY <1>4, NarrowRead
  <2> HIDE DEF w, v
  <2>2. r \in 0 .. v - 1 /\ r \in 0 .. w - 1
    BY <1>1, <1>2, <2>1
  <2>3. r % w = r
    BY <1>1, <2>2
  <2>4. QED BY <2>2, <2>3 DEF w, v, r
<1>5. QED BY <1>3, <1>4

LEMMA ComputedTyped ==
  ASSUME NEW c, NEW d, IsInteger(c), IsInteger(d), NEW op \in Operations,
         ~ Throws(op, AsInteger(d)), ~ Traps(op, AsInteger(c), AsInteger(d))
  PROVE  IsInteger(Computed(op, c, d))
<1> DEFINE a == AsInteger(c)  b == AsInteger(d)
<1>1. a \in Int /\ b \in Int
  BY ReadFacts
<1>2. \A v \in Int : IsInteger(Int64(v))
  BY Widths, CellTyped DEF Int64
<1>3. IsInteger(Truth(TRUE)) /\ IsInteger(Truth(FALSE))
  BY <1>2 DEF Truth
<1>4. CASE op \in {"add", "sub", "mul"}
  <2> HIDE DEF a, b
  <2>1. a + b \in Int /\ a - b \in Int /\ a * b \in Int
    BY <1>1
  <2>2. Computed(op, c, d) \in {Int64(a + b), Int64(a - b), Int64(a * b)}
    BY <1>4 DEF Computed, a, b
  <2>3. QED BY <1>2, <2>1, <2>2
<1>5. CASE op = "div"
  <2>1. Quotient(a, b) \in Int
    BY <1>1, <1>5, QuotientTyped DEF Throws
  <2>2. Computed(op, c, d) = Int64(Quotient(a, b))
    BY <1>5 DEF Computed
  <2>3. QED BY <1>2, <2>1, <2>2
<1>6. CASE op = "mod"
  <2>1. b # 0
    BY <1>6 DEF Traps
  <2>2. Computed(op, c, d) = [type |-> c.type, raw |-> Remainder(a, b) % Bytes(Size["i64"])]
    BY <1>6 DEF Computed
  <2>3. Remainder(a, b) % Bytes(Size["i64"]) \in 0 .. (Bytes(Size[c.type]) - 1)
    BY <1>1, <2>1, RemainderTyped
  <2>4. c.type \in Types
    BY DEF IsInteger
  <2>5. QED BY <2>2, <2>3, <2>4 DEF IsInteger
<1>7. CASE op \in {"lt", "eq"}
  <2>1. Computed(op, c, d) = Truth(a < b) \/ Computed(op, c, d) = Truth(a = b)
    BY <1>7 DEF Computed
  <2>2. \A t \in BOOLEAN : IsInteger(Truth(t))
    BY <1>3
  <2>3. (a < b) \in BOOLEAN /\ (a = b) \in BOOLEAN
    OBVIOUS
  <2>4. QED BY <2>1, <2>2, <2>3
<1>8. QED BY <1>4, <1>5, <1>6, <1>7 DEF Operations

(***************************************************************************)
(* What variables and blocks hold.                                         *)
(***************************************************************************)

Function(f) == f = [b \in Blocks |-> f[b]]

\* The bytes of a block, and what was stored in it.
Contents == Seq(0..(Byte - 1) \union {Junk})

Holds(h) ==
  /\ h.bytes \in Contents
  /\ h.stored # Unsaid => Printed(Cell(h.stored.type, Decoded(h.bytes))) = h.stored.value

NumsTyped  == num = [x \in Nums |-> num[x]] /\ \A x \in Nums : IsInteger(num[x])
HeapHolds  == Function(block) /\ \A b \in Blocks : Holds(block[b])

MInv ==
  /\ NumsTyped /\ HeapHolds
  /\ ptr \in [Ptrs -> Blocks \union {Null}]
  /\ status \in {"run", "trapped", "invalid"}

LEMMA OperandsTyped == ASSUME NumsTyped, NEW c \in Operands PROVE IsInteger(c)
<1>1. CASE \E x \in Nums : c = num[x]
  BY <1>1 DEF NumsTyped
<1>2. CASE \E v \in Literals : c = Int64(v)
  BY <1>2, MemoryAssumption, Widths, CellTyped DEF Int64
<1>3. QED BY <1>1, <1>2 DEF Operands

LEMMA MStopped ==
  ASSUME MInv, NEW s \in {"trapped", "invalid"}, Fail(s) PROVE MInv'
BY DEF MInv, NumsTyped, HeapHolds, Function, Fail

\* An integer is assigned.
LEMMA Assigned ==
  ASSUME MInv, NEW x \in Nums, NEW c, IsInteger(c), num' = [num EXCEPT ![x] = c],
         UNCHANGED <<ptr, block, status>>
  PROVE  MInv'
<1>1. num' = [y \in Nums |-> num'[y]] /\ \A y \in Nums : num'[y] = IF y = x THEN c ELSE num[y]
  BY DEF MInv, NumsTyped
<1>2. NumsTyped'
  BY <1>1 DEF MInv, NumsTyped
<1>3. HeapHolds'
  BY DEF MInv, HeapHolds, Function
<1>4. QED BY <1>2, <1>3 DEF MInv

LEMMA FreeHolds == Holds(Free)
<1>1. Free.bytes = << >> /\ Free.stored = Unsaid
  BY DEF Free
<1>2. << >> \in Contents
  BY DEF Contents
<1>3. QED BY <1>1, <1>2 DEF Holds

LEMMA FreedHolds ==
  ASSUME MInv, NEW p \in Ptrs
  PROVE  Function(Freed(p)) /\ \A c \in Blocks : Holds(Freed(p)[c])
<1>1. CASE ptr[p] = Null
  BY <1>1 DEF MInv, HeapHolds, Freed
<1>2. CASE ptr[p] # Null
  <2>1. ptr[p] \in Blocks /\ Freed(p) = [block EXCEPT ![ptr[p]] = Free]
    BY <1>2 DEF MInv, Freed
  <2>2. Function(Freed(p)) /\ \A c \in Blocks : Freed(p)[c] = IF c = ptr[p] THEN Free ELSE block[c]
    BY <2>1 DEF MInv, HeapHolds, Function
  <2>3. QED BY <2>2, FreeHolds DEF MInv, HeapHolds
<1>3. QED BY <1>1, <1>2

\* A block is given to a pointer.  "heap" is the heap before.
LEMMA Given ==
  ASSUME MInv, NEW p \in Ptrs, NEW heap, Function(heap), \A c \in Blocks : Holds(heap[c]),
         NEW b \in Unused(heap), NEW bytes, NEW stored, Holds(Used(bytes, stored)),
         block' = [heap EXCEPT ![b] = Used(bytes, stored)], ptr' = [ptr EXCEPT ![p] = b],
         UNCHANGED <<num, status>>
  PROVE  MInv'
<1>1. b \in Blocks
  BY DEF Unused
<1>2. Function(block') /\ \A c \in Blocks : block'[c] = IF c = b THEN Used(bytes, stored) ELSE heap[c]
  BY <1>1 DEF Function
<1>3. HeapHolds'
  BY <1>2 DEF HeapHolds, Holds, Function
<1>4. NumsTyped'
  BY DEF MInv, NumsTyped
<1>5. ptr' \in [Ptrs -> Blocks \union {Null}]
  BY <1>1 DEF MInv
<1>6. QED BY <1>3, <1>4, <1>5 DEF MInv

LEMMA Filled ==
  ASSUME MInv, NEW p \in Ptrs, NEW bytes, NEW stored, Holds(Used(bytes, stored)), Refill(p, bytes, stored)
  PROVE  MInv'
<1>1. PICK b \in Unused(Freed(p)) :
        /\ block' = [Freed(p) EXCEPT ![b] = Used(bytes, stored)]
        /\ ptr' = [ptr EXCEPT ![p] = b]
        /\ UNCHANGED <<num, status>>
  BY DEF Refill
<1> DEFINE heap == Freed(p)
<1>2. Function(heap) /\ \A c \in Blocks : Holds(heap[c])
  BY FreedHolds
<1>3. b \in Unused(heap) /\ block' = [heap EXCEPT ![b] = Used(bytes, stored)]
  BY <1>1
<1> HIDE DEF heap
<1>4. QED BY <1>1, <1>2, <1>3, Given

LEMMA MNewStep == ASSUME MInv, NEW p \in Ptrs, NEW n \in Sizes, New(p, n) PROVE MInv'
<1> DEFINE bytes == [i \in 1..n |-> Junk]
<1>1. PICK b \in Unused(block) :
        /\ ptr' = [ptr EXCEPT ![p] = b]
        /\ block' = [block EXCEPT ![b] = Used(bytes, Unsaid)]
  BY DEF New
<1>2. n \in Nat
  BY Widths DEF Sizes
<1>3. bytes \in Contents
  BY <1>2 DEF Contents
<1> HIDE DEF bytes
<1>4. Holds(Used(bytes, Unsaid))
  BY <1>3 DEF Holds, Used
<1>5. Function(block) /\ \A c \in Blocks : Holds(block[c])
  BY DEF MInv, HeapHolds
<1>6. UNCHANGED <<num, status>>
  BY DEF New
<1>7. QED BY <1>1, <1>4, <1>5, <1>6, Given

LEMMA MPointStep == ASSUME MInv, NEW p \in Ptrs, Point(p) PROVE MInv'
<1>1. PICK b \in {Null} \union {ptr[q] : q \in Ptrs} : ptr' = [ptr EXCEPT ![p] = b]
  BY DEF Point
<1>2. b \in Blocks \union {Null}
  BY <1>1 DEF MInv
<1>3. ptr' \in [Ptrs -> Blocks \union {Null}]
  BY <1>1, <1>2 DEF MInv
<1>4. NumsTyped' /\ HeapHolds' /\ status' = status
  BY DEF Point, MInv, NumsTyped, HeapHolds, Function
<1>5. QED BY <1>3, <1>4 DEF MInv

\* A block is freed, and its pointer cleared or not.
LEMMA MFreed ==
  ASSUME MInv, NEW p \in Ptrs, block' = Freed(p), ptr' \in {ptr, [ptr EXCEPT ![p] = Null]},
         UNCHANGED <<num, status>>
  PROVE  MInv'
<1>1. HeapHolds'
  BY FreedHolds DEF HeapHolds, Function
<1>2. ptr' \in [Ptrs -> Blocks \union {Null}]
  BY DEF MInv
<1>3. NumsTyped'
  BY DEF MInv, NumsTyped
<1>4. QED BY <1>1, <1>2, <1>3 DEF MInv

LEMMA MDelStep == ASSUME MInv, NEW p \in Ptrs, Del(p) PROVE MInv'
<1>1. CASE ~ Valid(p)
  BY <1>1, MStopped DEF Del
<1>2. CASE Valid(p)
  BY <1>2, MFreed DEF Del
<1>3. QED BY <1>1, <1>2

LEMMA MCopyCellStep ==
  ASSUME MInv, NEW p \in Ptrs, NEW c \in Operands \union Odd, CopyCell(c, p) PROVE MInv'
<1>1. CASE ~ Valid(p)
  BY <1>1, MStopped DEF CopyCell
<1>2. CASE Valid(p) /\ c \in Odd
  BY <1>2, MFreed DEF CopyCell
<1>3. CASE Valid(p) /\ c \notin Odd
  <2> DEFINE n == Size[c.type]
             bytes == Encoded(AsInteger(c) % Bytes(n), n)
             stored == [type |-> c.type, value |-> Printed(c)]
  <2>1. IsInteger(c)
    BY <1>3, OperandsTyped DEF MInv
  <2>2. bytes \in Seq(0 .. Byte - 1) /\ Printed(Cell(c.type, Decoded(bytes))) = Printed(c)
    BY <2>1, StoredBack
  <2>3. Refill(p, bytes, stored)
    BY <1>3 DEF CopyCell
  <2> HIDE DEF bytes
  <2>4. bytes \in Contents
    <3> DEFINE T == 0 .. Byte - 1  U == T \union {Junk}
    <3>1. T \subseteq U /\ bytes \in Seq(T)
      BY <2>2
    <3> HIDE DEF T, U
    <3>2. bytes \in Seq(U)
      BY <3>1
    <3>3. QED BY <3>2 DEF T, U, Contents
  <2>5. Used(bytes, stored).bytes = bytes /\ Used(bytes, stored).stored = stored
    BY DEF Used
  <2>6. Holds(Used(bytes, stored))
    BY <2>2, <2>4, <2>5 DEF Holds
  <2> HIDE DEF stored
  <2>7. QED BY <2>3, <2>6, Filled
<1>4. QED BY <1>1, <1>2, <1>3

LEMMA MCopyMemoryStep ==
  ASSUME MInv, NEW p \in Ptrs, NEW q \in Ptrs, NEW n \in Sizes, CopyMemory(q, p, n) PROVE MInv'
<1>1. CASE ~ Valid(p)
  BY <1>1, MStopped DEF CopyMemory
<1>2. CASE Invalid
  BY <1>2, MStopped DEF Invalid
<1>3. CASE Valid(p) /\ ~ Invalid
  <2> DEFINE h == block[ptr[q]]
             bytes == SubSeq(h.bytes, 1, n)
             stored == IF n = Len(h.bytes) THEN h.stored ELSE Unsaid
  <2>1. ptr[q] # Null /\ n <= Len(h.bytes) /\ Refill(p, bytes, stored)
    <3>1. n \in Nat
      BY Widths DEF Sizes
    <3>2. ptr[q] # Null /\ ~ (n > Len(h.bytes)) /\ Refill(p, bytes, stored)
      BY <1>3 DEF CopyMemory
    <3>3. ptr[q] \in Blocks
      BY <3>2 DEF MInv
    <3>4. h.bytes \in Contents
      BY <3>3 DEF MInv, HeapHolds, Holds
    <3>5. Len(h.bytes) \in Nat
      BY <3>4 DEF Contents
    <3>6. QED BY <3>1, <3>2, <3>5
  <2>2. ptr[q] \in Blocks
    BY <2>1 DEF MInv
  <2>3. Holds(h)
    BY <2>2 DEF MInv, HeapHolds
  <2>4. n \in Nat
    BY Widths DEF Sizes
  <2> HIDE DEF h
  <2>5. bytes \in Contents /\ (n = Len(h.bytes) => bytes = h.bytes)
    BY <2>1, <2>3, <2>4 DEF Holds, Contents
  <2> HIDE DEF bytes
  <2>6. Used(bytes, stored).bytes = bytes /\ Used(bytes, stored).stored = stored
    BY DEF Used
  <2>7. Holds(Used(bytes, stored))
    BY <2>3, <2>5, <2>6 DEF Holds
  <2> HIDE DEF stored
  <2>8. QED BY <2>1, <2>7, Filled
<1>4. QED BY <1>1, <1>2, <1>3

LEMMA MLoadStep ==
  ASSUME MInv, NEW p \in Ptrs, NEW x \in Nums, NEW t \in Types, Load(x, t, p) PROVE MInv'
<1>1. CASE Invalid
  BY <1>1, MStopped DEF Invalid
<1>2. CASE ~ Invalid
  <2>1. PICK read \in [1..Size[t] -> 0..(Byte - 1)] :
          num' = [num EXCEPT ![x] = Cell(t, Decoded(read))] /\ UNCHANGED <<ptr, block, status>>
    BY <1>2 DEF Load
  <2>2. read \in Seq(Nat)
    <3>1. Size[t] \in Nat /\ 0 .. (Byte - 1) \subseteq Nat
      BY Widths, NumbersAssumption
    <3>2. read \in [1 .. Size[t] -> Nat]
      BY <3>1
    <3>3. QED BY <3>1, <3>2
  <2>3. IsInteger(Cell(t, Decoded(read)))
    <3>1. Decoded(read) \in Int
      BY <2>2, DecodedNat
    <3>2. QED BY <3>1, CellTyped
  <2>4. QED BY <2>1, <2>3, Assigned
<1>3. QED BY <1>1, <1>2

LEMMA MConvertStep ==
  ASSUME MInv, NEW x \in Nums, NEW t \in Types, NEW c \in Operands, Convert(x, t, c) PROVE MInv'
<1>1. IsInteger(c)
  BY OperandsTyped DEF MInv
<1>2. IsInteger(Converted(t, c))
  BY <1>1, ReadFacts, CellTyped DEF Converted
<1>3. num' = [num EXCEPT ![x] = Converted(t, c)] /\ UNCHANGED <<ptr, block, status>>
  BY DEF Convert
<1>4. QED BY <1>2, <1>3, Assigned

LEMMA MComputeStep ==
  ASSUME MInv, NEW x \in Nums, NEW op \in Operations, NEW c \in Operands, NEW d \in Operands,
         Compute(x, op, c, d)
  PROVE  MInv'
<1>1. IsInteger(c) /\ IsInteger(d)
  BY OperandsTyped DEF MInv
<1>2. CASE Traps(op, AsInteger(c), AsInteger(d))
  BY <1>2, MStopped DEF Compute
<1>3. CASE ~ Traps(op, AsInteger(c), AsInteger(d))
  <2>1. IsInteger(Computed(op, c, d))
    BY <1>1, <1>3, ComputedTyped DEF Compute
  <2>2. num' = [num EXCEPT ![x] = Computed(op, c, d)] /\ UNCHANGED <<ptr, block, status>>
    BY <1>3 DEF Compute
  <2>3. QED BY <2>1, <2>2, Assigned
<1>4. QED BY <1>2, <1>3

LEMMA InitMInv == ASSUME Init PROVE MInv
<1>1. IsInteger(Int64(0))
  BY Widths, CellTyped DEF Int64
<1>2. NumsTyped
  BY <1>1 DEF Init, NumsTyped
<1>3. HeapHolds
  BY FreeHolds DEF Init, HeapHolds, Function
<1>4. QED BY <1>2, <1>3 DEF Init, MInv

LEMMA NextMInv == ASSUME MInv, [Next]_vars PROVE MInv'
<1>1. CASE UNCHANGED vars
  BY <1>1 DEF vars, MInv, NumsTyped, HeapHolds, Function
<1>2. CASE Next
  <2>1. CASE \E x \in Nums, c \in Operands :
               \/ \E t \in Types : Convert(x, t, c)
               \/ \E d \in Operands, op \in Operations : Compute(x, op, c, d)
    BY <2>1, MConvertStep, MComputeStep
  <2>2. CASE \E p \in Ptrs :
               \/ \E n \in Sizes : New(p, n)
               \/ Point(p) \/ Del(p)
               \/ \E c \in Operands \union Odd : CopyCell(c, p)
               \/ \E q \in Ptrs, n \in Sizes : CopyMemory(q, p, n)
               \/ \E x \in Nums, t \in Types : Load(x, t, p)
    BY <2>2, MNewStep, MPointStep, MDelStep, MCopyCellStep, MCopyMemoryStep, MLoadStep
  <2>3. QED BY <1>2, <2>1, <2>2 DEF Next
<1>3. QED BY <1>1, <1>2

LEMMA MInvTypeOK == ASSUME MInv PROVE TypeOK
BY DEF MInv, NumsTyped, IsInteger, HeapHolds, Holds, Contents, TypeOK

\* Every variable has its type: in particular a remainder, which is computed as
\* an int64_t and kept in a cell of its left operand's type (arithmetic.cpp:91-99),
\* fits that type, and what mem-load reads fits the type it is read as.
THEOREM MemoryTyped == Spec => []TypeOK
<1>1. Init => MInv
  BY InitMInv
<1>2. MInv /\ [Next]_vars => MInv'
  BY NextMInv
<1>3. MInv => TypeOK
  BY MInvTypeOK
<1>4. QED BY <1>1, <1>2, <1>3, PTL DEF Spec

\* What is copied into memory is loaded from it again as the number that was
\* printed, whatever the width and the sign, and through any number of copies
\* from block to block (memory.cpp:75-122, 138-177, 199-226).
THEOREM LoadsBack == Spec => []LoadsWhatWasStored
<1>1. Init => MInv
  BY InitMInv
<1>2. MInv /\ [Next]_vars => MInv'
  BY NextMInv
<1>3. MInv => LoadsWhatWasStored
  BY DEF MInv, HeapHolds, Holds, LoadsWhatWasStored
<1>4. QED BY <1>1, <1>2, <1>3, PTL DEF Spec

(***************************************************************************)
(* Where pointers point.                                                   *)
(***************************************************************************)

PInv ==
  /\ ptr \in [Ptrs -> Blocks \union {Null}]
  /\ Function(block)
  /\ NothingDangles

LEMMA NullIsNoBlock == Null \notin Blocks
BY MemoryAssumption DEF Null, Blocks

\* A step that neither frees nor assigns.
LEMMA Kept == ASSUME PInv, Running, UNCHANGED <<ptr, block>> PROVE PInv'
BY DEF PInv, NothingDangles, Valid, Function

LEMMA Stopped == ASSUME PInv, NEW s, s # "run", Fail(s) PROVE PInv'
BY DEF PInv, NothingDangles, Running, Function, Fail

\* free: no other pointer points to the block.
LEMMA FreedFacts ==
  ASSUME PInv, Running, NEW p \in Ptrs
  PROVE  /\ Function(Freed(p))
         /\ \A q \in Ptrs : q # p /\ ptr[q] # Null => Freed(p)[ptr[q]].used /\ ptr[q] \in Blocks
<1>1. CASE ptr[p] = Null
  BY <1>1 DEF PInv, Freed, NothingDangles, Valid
<1>2. CASE ptr[p] # Null
  <2>1. ptr[p] \in Blocks /\ Freed(p) = [block EXCEPT ![ptr[p]] = Free]
    BY <1>2 DEF PInv, Freed
  <2>2. Function(Freed(p)) BY <2>1 DEF PInv, Function
  <2>3. \A q \in Ptrs : q # p /\ ptr[q] # Null => ptr[q] # ptr[p] /\ ptr[q] \in Blocks /\ block[ptr[q]].used
    BY <1>2 DEF PInv, NothingDangles, Valid
  <2>4. QED BY <2>1, <2>2, <2>3 DEF PInv, Function
<1>3. QED BY <1>1, <1>2

\* malloc: no other pointer points to a block that is not in use.  "heap" is the
\* heap at that time.
LEMMA Allocated ==
  ASSUME PInv, Running, NEW p \in Ptrs, NEW heap, Function(heap),
         \A q \in Ptrs : q # p /\ ptr[q] # Null => heap[ptr[q]].used /\ ptr[q] \in Blocks,
         NEW b \in Unused(heap), NEW bytes, NEW stored,
         block' = [heap EXCEPT ![b] = Used(bytes, stored)], ptr' = [ptr EXCEPT ![p] = b]
  PROVE  PInv'
<1>1. b \in Blocks /\ ~ heap[b].used BY DEF Unused
<1>2. ptr' \in [Ptrs -> Blocks \union {Null}] BY <1>1 DEF PInv
<1>3. Function(block') BY <1>1 DEF Function
<1>4. Used(bytes, stored).used BY DEF Used
<1>5. block'[b].used /\ \A c \in Blocks : c # b => block'[c] = heap[c]
  BY <1>1, <1>4 DEF Function
<1>6. ptr'[p] = b /\ \A q \in Ptrs : q # p => ptr'[q] = ptr[q] BY DEF PInv
<1>7. \A q \in Ptrs : q # p /\ ptr[q] # Null => ptr[q] # b BY <1>1
<1>8. NothingDangles'
  <2>1. \A q \in Ptrs : Valid(q)' BY <1>5, <1>6, <1>7 DEF Valid
  <2>2. \A q, r \in Ptrs : ptr'[q] = ptr'[r] /\ ptr'[q] # Null => q = r
    BY <1>1, <1>6, <1>7, NullIsNoBlock DEF PInv, NothingDangles
  <2>3. QED BY <2>1, <2>2 DEF NothingDangles
<1>9. QED BY <1>2, <1>3, <1>8 DEF PInv

\* A pointer is cleared; its block is freed or lost.
LEMMA Cleared ==
  ASSUME PInv, Running, NEW p \in Ptrs, ptr' = [ptr EXCEPT ![p] = Null],
         block' \in {block, Freed(p)}
  PROVE  PInv'
<1>1. /\ Function(block')
      /\ \A q \in Ptrs : q # p /\ ptr[q] # Null => block'[ptr[q]].used
  BY FreedFacts DEF PInv, NothingDangles, Valid
<1>2. ptr' \in [Ptrs -> Blocks \union {Null}] BY DEF PInv
<1>3. ptr'[p] = Null /\ \A q \in Ptrs : q # p => ptr'[q] = ptr[q] BY DEF PInv
<1>4. NothingDangles'
  <2>1. \A q \in Ptrs : Valid(q)' BY <1>1, <1>3 DEF Valid
  <2>2. \A q, r \in Ptrs : ptr'[q] = ptr'[r] /\ ptr'[q] # Null => q = r
    BY <1>3 DEF PInv, NothingDangles
  <2>3. QED BY <2>1, <2>2 DEF NothingDangles
<1>5. QED BY <1>1, <1>2, <1>4 DEF PInv

\* mem-cpy frees before it allocates.
LEMMA Refilled ==
  ASSUME PInv, Running, NEW p \in Ptrs, NEW bytes, NEW stored, Refill(p, bytes, stored)
  PROVE  PInv'
<1>1. PICK b \in Unused(Freed(p)) :
        /\ block' = [Freed(p) EXCEPT ![b] = Used(bytes, stored)]
        /\ ptr' = [ptr EXCEPT ![p] = b]
  BY DEF Refill
<1>2. QED BY <1>1, FreedFacts, Allocated

LEMMA NewStep == ASSUME PInv, NEW p \in Ptrs, NEW n, New(p, n) PROVE PInv'
<1>1. PICK b \in Unused(block) :
        /\ ptr' = [ptr EXCEPT ![p] = b]
        /\ block' = [block EXCEPT ![b] = Used([i \in 1..n |-> Junk], Unsaid)]
  BY DEF New
<1>2. \A q \in Ptrs : q # p /\ ptr[q] # Null => block[ptr[q]].used /\ ptr[q] \in Blocks
  BY DEF PInv, NothingDangles, Valid, New
<1>3. Function(block) /\ Running BY DEF PInv, New
<1>4. QED BY <1>1, <1>2, <1>3, Allocated

LEMMA PointStep == ASSUME PInv, ~ Aliases, NEW p \in Ptrs, Point(p) PROVE PInv'
<1>1. Running /\ ptr' = [ptr EXCEPT ![p] = Null] /\ block' = block BY DEF Point
<1>2. QED BY <1>1, Cleared

LEMMA DelStep == ASSUME PInv, NEW p \in Ptrs, Del(p) PROVE PInv'
<1>1. Running BY DEF Del
<1>2. CASE ~ Valid(p) BY <1>2, Stopped DEF Del
<1>3. CASE Valid(p) BY <1>1, <1>3, Cleared DEF Del
<1>4. QED BY <1>2, <1>3

LEMMA CopyCellStep == ASSUME PInv, NEW p \in Ptrs, NEW c, c \notin Odd, CopyCell(c, p) PROVE PInv'
<1>1. Running BY DEF CopyCell
<1>2. CASE ~ Valid(p) BY <1>2, Stopped DEF CopyCell
<1>3. CASE Valid(p) BY <1>1, <1>3, Refilled DEF CopyCell
<1>4. QED BY <1>2, <1>3

LEMMA CopyMemoryStep ==
  ASSUME PInv, NEW p \in Ptrs, NEW q \in Ptrs, NEW n, CopyMemory(q, p, n) PROVE PInv'
<1>1. Running BY DEF CopyMemory
<1>2. CASE ~ Valid(p) BY <1>2, Stopped DEF CopyMemory
<1>3. CASE Invalid BY <1>3, Stopped DEF Invalid
<1>4. CASE Valid(p) /\ ~ Invalid BY <1>1, <1>4, Refilled DEF CopyMemory
<1>5. QED BY <1>2, <1>3, <1>4

LEMMA LoadStep == ASSUME PInv, NEW p \in Ptrs, NEW x, NEW t, Load(x, t, p) PROVE PInv'
<1>1. Running BY DEF Load
<1>2. CASE Invalid BY <1>2, Stopped DEF Invalid
<1>3. CASE ~ Invalid BY <1>1, <1>3, Kept DEF Load
<1>4. QED BY <1>2, <1>3

LEMMA IntegerStep ==
  ASSUME PInv, NEW x, NEW t, NEW op, NEW c, NEW d, Convert(x, t, c) \/ Compute(x, op, c, d)
  PROVE  PInv'
<1>1. Running BY DEF Convert, Compute
<1>2. CASE Fail("trapped") BY <1>2, Stopped
<1>3. CASE UNCHANGED <<ptr, block>> BY <1>1, <1>3, Kept
<1>4. QED BY <1>2, <1>3 DEF Convert, Compute

LEMMA InitPInv == ASSUME Init PROVE PInv
BY DEF Init, PInv, Function, NothingDangles, Valid

LEMMA NextPInv == ASSUME ~ Aliases, Odd = {}, PInv, [Next]_vars PROVE PInv'
<1>1. CASE UNCHANGED vars
  BY <1>1 DEF vars, PInv, NothingDangles, Valid, Function, Running
<1>2. CASE Next
  <2>1. CASE \E x \in Nums, c \in Operands :
               \/ \E t \in Types : Convert(x, t, c)
               \/ \E d \in Operands, op \in Operations : Compute(x, op, c, d)
    BY <2>1, IntegerStep
  <2>2. CASE \E p \in Ptrs :
               \/ \E n \in Sizes : New(p, n)
               \/ Point(p) \/ Del(p)
               \/ \E c \in Operands \union Odd : CopyCell(c, p)
               \/ \E q \in Ptrs, n \in Sizes : CopyMemory(q, p, n)
               \/ \E x \in Nums, t \in Types : Load(x, t, p)
    BY <2>2, NewStep, PointStep, DelStep, CopyCellStep, CopyMemoryStep, LoadStep
  <2>3. QED BY <1>2, <2>1, <2>2 DEF Next
<1>3. QED BY <1>1, <1>2

\* The blocks that pointers point to are allocated, and no two pointers share
\* one, so that the free in mem-del and in mem-cpy (memory.cpp:37, 72) leaves none
\* dangling: for every width of integers, and also after a step that was careless
\* about sizes, up to the invalid access itself.
THEOREM NoDanglingPointers ==
  ASSUME ~ Aliases, Odd = {}
  PROVE  Spec => []NothingDangles
<1>1. Init => PInv BY InitPInv
<1>2. PInv /\ [Next]_vars => PInv' BY NextPInv
<1>3. PInv => NothingDangles BY DEF PInv
<1>4. QED BY <1>1, <1>2, <1>3, PTL DEF Spec
=============================================================================
