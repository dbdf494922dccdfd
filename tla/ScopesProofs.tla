---------------------------- MODULE ScopesProofs ----------------------------
(***************************************************************************)
(* Theorems about Scopes: for all values of its constants, what TypeOK,    *)
(* OnlyArgumentsShared and ErrorStaysInside say; and, where no function    *)
(* outlives the environment it was defined in, that scoping is static.     *)
(***************************************************************************)
EXTENDS Scopes, SequenceTheorems, WellFoundedInduction, TLAPS

CellOrUnset == Cells \union {Unset}
ValueType   == [fn : Nat, chain : SUBSET Nat]

LEMMA Constants ==
  /\ Cells \subseteq Nat /\ Unset \notin Cells
  /\ Names \subseteq Vars /\ Param \in Vars /\ "$e" \in Vars
  /\ Param # "$e" /\ "$e" \notin Names
BY ScopesAssumption DEF Cells, Unset, Vars

LEMMA ValueTypes ==
  /\ Plain \in ValueType /\ Plain.fn = 0
  /\ \A e \in Nat, c \in SUBSET Nat :
       /\ Function(e, c) \in ValueType
       /\ Function(e, c).fn = e /\ Function(e, c).chain = c
BY DEF ValueType, Plain, Function

-----------------------------------------------------------------------------
(***************************************************************************)
(* Changes of the environments.                                            *)
(***************************************************************************)

\* Of es only the outermost n environments are left, with names dropped from
\* them at most.
Thinned(es, new, n) ==
  /\ new \in Seq(EnvType) /\ n \in 0..Len(es) /\ Len(new) = n
  /\ \A i \in 1..n : /\ new[i].parent = es[i].parent /\ new[i].serial = es[i].serial
                     /\ \A x \in Vars : new[i].map[x] \in {es[i].map[x], Unset}

\* The t-th environment binds x to c; the others are as they were.
Bound(es, new, t, x, c) ==
  /\ new \in Seq(EnvType) /\ Len(new) = Len(es) /\ t \in 1..Len(es)
  /\ \A i \in 1..Len(es) :
       /\ new[i].parent = es[i].parent /\ new[i].serial = es[i].serial
       /\ \A y \in Vars : new[i].map[y] = IF i = t /\ y = x THEN c ELSE es[i].map[y]

\* The environment g is new, innermost.
Grown(es, new, g, n) ==
  /\ new \in Seq(EnvType) /\ n = Len(es) /\ Len(new) = n + 1 /\ new[n + 1] = g
  /\ \A i \in 1..n : new[i] = es[i]

\* A set of environments that is not empty has an innermost one.
LEMMA InnermostIn ==
  ASSUME NEW n \in Nat, NEW S, S \subseteq 1..n, S # {}
  PROVE  \E i \in S : \A j \in S : j <= i
<1> DEFINE T == {n - i : i \in S}
<1>1. T \subseteq Nat /\ T # {}
  <2>1. \A i \in S : n - i \in Nat
    OBVIOUS
  <2>2. PICK i \in S : TRUE
    OBVIOUS
  <2>3. n - i \in T
    OBVIOUS
  <2>4. QED BY <2>1, <2>3
<1>2. PICK k \in T : \A l \in T : ~ (<<l, k>> \in OpToRel(<, Nat))
  <2> HIDE DEF T
  <2>1. QED BY <1>1, NatLessThanWellFounded, WFMin
<1>3. \A l \in T : ~ (l < k)
  BY <1>1, <1>2 DEF OpToRel
<1>4. PICK i \in S : k = n - i
  OBVIOUS
<1>5. ASSUME NEW j \in S PROVE j <= i
  BY <1>3, <1>4
<1>6. QED BY <1>5

LEMMA HolderFacts ==
  ASSUME NEW es, NEW e \in Nat, NEW x
  PROVE  \/ Holder(es, e, x) = 0
         \/ Holder(es, e, x) \in 1..e /\ es[Holder(es, e, x)].map[x] # Unset
<1> DEFINE S == {i \in Visible(es, e) : es[i].map[x] # Unset}
           h == CHOOSE i \in S : \A j \in S : j <= i
<1>1. S \subseteq 1..e /\ \A i \in S : es[i].map[x] # Unset
  BY DEF Visible
<1>2. Holder(es, e, x) = IF S = {} THEN 0 ELSE h
  BY DEF Holder
<1>3. ASSUME S # {} PROVE h \in S
  <2> HIDE DEF S
  <2>1. \E i \in S : \A j \in S : j <= i
    BY <1>1, <1>3, InnermostIn
  <2>2. QED BY <2>1, Zenon
<1> HIDE DEF S, h
<1>4. QED BY <1>1, <1>2, <1>3

LEMMA RemapFacts ==
  ASSUME NEW es \in Seq(EnvType), NEW t \in 1..Len(es), NEW x \in Vars, NEW c \in CellOrUnset
  PROVE  Bound(es, [es EXCEPT ![t].map[x] = c], t, x, c)
<1> DEFINE m == [es[t].map EXCEPT ![x] = c]
           g == [es[t] EXCEPT !.map = m]
           new == [es EXCEPT ![t].map[x] = c]
<1>1. es[t] \in EnvType
  OBVIOUS
<1>2. es[t].map \in [Vars -> CellOrUnset]
  BY <1>1 DEF EnvType, CellOrUnset
<1>3. m \in [Vars -> CellOrUnset] /\ \A y \in Vars : m[y] = IF y = x THEN c ELSE es[t].map[y]
  BY <1>2
<1> HIDE DEF m
<1>4. g \in EnvType /\ g.parent = es[t].parent /\ g.serial = es[t].serial /\ g.map = m
  BY <1>1, <1>3 DEF EnvType, CellOrUnset
<1>5. new = [es EXCEPT ![t] = g]
  BY DEF m
<1> HIDE DEF g, new
<1>6. /\ new \in Seq(EnvType) /\ Len(new) = Len(es)
      /\ \A i \in 1..Len(es) : new[i] = IF i = t THEN g ELSE es[i]
  BY <1>4, <1>5, ExceptSeq
<1>7. ASSUME NEW i \in 1..Len(es)
      PROVE  /\ new[i].parent = es[i].parent /\ new[i].serial = es[i].serial
             /\ \A y \in Vars : new[i].map[y] = IF i = t /\ y = x THEN c ELSE es[i].map[y]
  <2>1. CASE i = t
    <3>1. new[i] = g
      BY <1>6, <2>1
    <3>2. QED BY <1>3, <1>4, <2>1, <3>1
  <2>2. CASE i # t
    <3>1. new[i] = es[i]
      BY <1>6, <2>2
    <3>2. QED BY <2>2, <3>1
  <2>3. QED BY <2>1, <2>2
<1>8. Bound(es, new, t, x, c)
  BY <1>6, <1>7 DEF Bound
<1>9. QED BY <1>8 DEF new

LEMMA SetFacts ==
  ASSUME NEW es \in Seq(EnvType), NEW e \in 1..Len(es), NEW x \in Vars, NEW c \in Cells
  PROVE  /\ Target(es, e, x) \in 1..e
         /\ Target(es, e, x) = e \/ es[Target(es, e, x)].map[x] # Unset
         /\ Bound(es, SetIn(es, e, x, c), Target(es, e, x), x, c)
<1>1. /\ Target(es, e, x) \in 1..e /\ Len(es) \in Nat
      /\ Target(es, e, x) = e \/ es[Target(es, e, x)].map[x] # Unset
  BY HolderFacts DEF Target
<1>2. Target(es, e, x) \in 1..Len(es) /\ c \in CellOrUnset
  BY <1>1 DEF CellOrUnset
<1> DEFINE t == Target(es, e, x)
           new == SetIn(es, e, x, c)
<1>3. new = [es EXCEPT ![t].map[x] = c]
  BY DEF SetIn
<1> HIDE DEF t, new
<1>4. t \in 1..Len(es)
  BY <1>2 DEF t
<1>5. Bound(es, new, t, x, c)
  BY <1>2, <1>3, <1>4, RemapFacts
<1>6. QED BY <1>1, <1>5 DEF t, new

LEMMA ThinnedSelf == ASSUME NEW es \in Seq(EnvType) PROVE Thinned(es, es, Len(es))
BY DEF Thinned

LEMMA DropFacts ==
  ASSUME NEW es \in Seq(EnvType), NEW e \in 1..Len(es), NEW x \in Vars
  PROVE  Thinned(es, DropIn(es, e, x), Len(es))
<1> DEFINE t == Holder(es, e, x)
           new == DropIn(es, e, x)
<1>1. t = 0 \/ t \in 1..e
  BY HolderFacts
<1>2. new = IF t = 0 THEN es ELSE [es EXCEPT ![t].map[x] = Unset]
  BY DEF DropIn
<1>3. Len(es) \in Nat
  OBVIOUS
<1> HIDE DEF t, new
<1>4. ASSUME t = 0 PROVE Thinned(es, new, Len(es))
  <2>1. new = es
    BY <1>2, <1>4
  <2>2. QED BY <2>1, ThinnedSelf
<1>5. ASSUME t # 0 PROVE Thinned(es, new, Len(es))
  <2>1. t \in 1..Len(es) /\ Unset \in CellOrUnset /\ new = [es EXCEPT ![t].map[x] = Unset]
    BY <1>1, <1>2, <1>3, <1>5 DEF CellOrUnset
  <2>2. Bound(es, new, t, x, Unset)
    BY <2>1, RemapFacts
  <2>3. Len(es) \in 0..Len(es)
    BY <1>3
  <2>4. QED BY <2>2, <2>3 DEF Bound, Thinned
<1>6. Thinned(es, new, Len(es))
  BY <1>4, <1>5
<1>7. QED BY <1>6 DEF new

LEMMA CutFacts ==
  ASSUME NEW es \in Seq(EnvType), NEW old, NEW n \in 0..Len(es), Thinned(old, es, Len(old))
  PROVE  Thinned(old, SubSeq(es, 1, n), n)
<1> DEFINE new == SubSeq(es, 1, n)
<1>1. n \in Nat /\ \A i \in 1..n : es[i] \in EnvType
  OBVIOUS
<1>2. new \in Seq(EnvType) /\ Len(new) = n /\ \A i \in 1..n : new[i] = es[i]
  BY <1>1, SubSeqProperties
<1> HIDE DEF new
<1>3. Thinned(old, new, n)
  BY <1>1, <1>2 DEF Thinned
<1>4. QED BY <1>3 DEF new

-----------------------------------------------------------------------------
(***************************************************************************)
(* What is visible from an environment depends on the parents of those     *)
(* that are further out, and on nothing else.                              *)
(***************************************************************************)
Alike(es, new, n) ==
  /\ n \in Nat
  /\ \A i \in 1..n : new[i].parent = es[i].parent /\ new[i].serial = es[i].serial

SerialsOf(es, S) == {es[i].serial : i \in S}

LEMMA VisibleAlike ==
  ASSUME NEW es, NEW new, NEW n, Alike(es, new, n), NEW e \in 0..n
  PROVE  /\ Visible(es, e) = Visible(new, e) /\ Visible(es, e) \subseteq 1..e
         /\ \A S \in SUBSET Visible(es, e) : SerialsOf(es, S) = SerialsOf(new, S)
<1>1. e \in Nat /\ \A i \in 1..e : new[i].parent = es[i].parent /\ new[i].serial = es[i].serial
  BY DEF Alike
<1>2. Closed(es, e) = Closed(new, e)
  BY <1>1 DEF Closed
<1>3. Visible(es, e) = Visible(new, e) /\ Visible(es, e) \subseteq 1..e
  BY <1>2 DEF Visible
<1>4. \A S \in SUBSET (1..e) : SerialsOf(es, S) = SerialsOf(new, S)
  BY <1>1 DEF SerialsOf
<1>5. QED BY <1>3, <1>4

\* From e are visible e and what is visible from its parent.
LEMMA VisibleOutside ==
  ASSUME NEW es, NEW e \in Nat, NEW p \in 1..e - 1, es[e].parent = p
  PROVE  Visible(es, e) \ {e} = Visible(es, p)
<1>1. ASSUME NEW i \in Visible(es, p)
      PROVE  i \in Visible(es, e) \ {e}
  <2>1. i \in 1..p /\ \A S \in Closed(es, p) : i \in S
    BY DEF Visible
  <2>2. ASSUME NEW S \in Closed(es, e) PROVE i \in S
    <3> DEFINE T == S \cap 1..p
    <3>1. /\ S \in SUBSET (1..e) /\ e \in S
          /\ \A j \in S : es[j].parent \in 1..j - 1 => es[j].parent \in S
      BY <2>2 DEF Closed
    <3>2. p \in T
      BY <3>1
    <3>3. ASSUME NEW j \in T, es[j].parent \in 1..j - 1 PROVE es[j].parent \in T
      <4>1. es[j].parent \in S /\ j \in 1..p
        BY <3>1, <3>3
      <4>2. QED BY <3>3, <4>1
    <3>4. T \in SUBSET (1..p)
      OBVIOUS
    <3> HIDE DEF T
    <3>5. T \in Closed(es, p)
      BY <3>2, <3>3, <3>4 DEF Closed
    <3>6. i \in T
      BY <2>1, <3>5
    <3>7. QED BY <3>6 DEF T
  <2>3. i \in 1..e /\ i # e
    BY <2>1
  <2>4. QED BY <2>2, <2>3 DEF Visible
<1>2. ASSUME NEW i \in Visible(es, e), i # e
      PROVE  i \in Visible(es, p)
  <2>1. \A S \in Closed(es, e) : i \in S
    BY DEF Visible
  <2>2. ASSUME NEW S \in Closed(es, p) PROVE i \in S
    <3> DEFINE T == S \union {e}
    <3>1. /\ S \in SUBSET (1..p) /\ p \in S
          /\ \A j \in S : es[j].parent \in 1..j - 1 => es[j].parent \in S
      BY <2>2 DEF Closed
    <3>2. T \in SUBSET (1..e) /\ e \in T /\ p \in T
      BY <3>1
    <3>3. ASSUME NEW j \in T, es[j].parent \in 1..j - 1 PROVE es[j].parent \in T
      BY <3>1, <3>3
    <3> HIDE DEF T
    <3>4. T \in Closed(es, e)
      BY <3>2, <3>3 DEF Closed
    <3>5. i \in T
      BY <2>1, <3>4
    <3>6. QED BY <1>2, <3>5 DEF T
  <2>3. 1..p \in Closed(es, p)
    <3>1. \A j \in 1..p : es[j].parent \in 1..j - 1 => es[j].parent \in 1..p
      OBVIOUS
    <3>2. QED BY <3>1 DEF Closed
  <2>4. i \in 1..p
    BY <2>2, <2>3
  <2>5. QED BY <2>2, <2>4 DEF Visible
<1>3. QED BY <1>1, <1>2

-----------------------------------------------------------------------------
(***************************************************************************)
(* What has to be kept, for given environments, cells and frames.          *)
(***************************************************************************)
Unshared(es) ==
  \A i, j \in 1..Len(es) : \A x, y \in Vars \ {Param} :
    es[i].map[x] # Unset /\ es[i].map[x] = es[j].map[y] => i = j /\ x = y

\* The cell of an error has no other name, not even as a parameter.
ErrorApart(es) ==
  \A i, j \in 1..Len(es) : \A y \in Vars :
    es[i].map["$e"] # Unset /\ es[i].map["$e"] = es[j].map[y] => i = j /\ y = "$e"

ErrorsInside(es, fs) ==
  \A i \in 1..Len(es) : es[i].map["$e"] # Unset => fs[i].kind = "recover"

Named(es, c) == \E i \in 1..Len(es), x \in Vars : es[i].map[x] = c

Unnamed(es, h) == \A c \in Cells : ~Named(es, c) => h[c] = Plain

\* The function of a value is still in scope in the i-th environment.
Apt(es, v, i) ==
  v.fn \in 0..i /\ (v.fn # 0 => v.chain = SerialsOf(es, Visible(es, v.fn)))

Local(es, h) ==
  \A i \in 1..Len(es), x \in Vars : es[i].map[x] # Unset => Apt(es, h[es[i].map[x]], i)

Static(es, fs) ==
  \A i \in 1..Len(fs) : fs[i].kind = "call" =>
    SerialsOf(es, Visible(es, i) \ {i}) = fs[i].chain

LEMMA AptKept ==
  ASSUME NEW es, NEW new, NEW n, Alike(es, new, n), NEW i \in 0..n, NEW v, Apt(es, v, i),
         NEW j \in Nat, i <= j
  PROVE  Apt(new, v, j)
<1>1. v.fn \in 0..n /\ v.fn \in 0..j
  BY DEF Apt, Alike
<1>2. /\ Visible(es, v.fn) = Visible(new, v.fn)
      /\ SerialsOf(es, Visible(es, v.fn)) = SerialsOf(new, Visible(es, v.fn))
  BY <1>1, VisibleAlike
<1>3. QED BY <1>1, <1>2 DEF Apt

\* Names are dropped, environments destroyed.
LEMMA ThinnedKeeps ==
  ASSUME NEW es \in Seq(EnvType), NEW new, NEW n, Thinned(es, new, n)
  PROVE  /\ Alike(es, new, n)
         /\ Unshared(es) => Unshared(new)
         /\ ErrorApart(es) => ErrorApart(new)
         /\ \A c \in Cells : Named(new, c) => Named(es, c)
         /\ \A h : Local(es, h) => Local(new, h)
<1>1. /\ Len(es) \in Nat /\ n \in Nat /\ n <= Len(es) /\ Len(new) = n
      /\ \A i \in 1..n : i \in 1..Len(es)
  BY DEF Thinned
<1>2. Alike(es, new, n)
  BY <1>1 DEF Thinned, Alike
<1>3. \A i \in 1..n : \A x \in Vars : new[i].map[x] # Unset => new[i].map[x] = es[i].map[x]
  BY DEF Thinned
<1>4. ASSUME Unshared(es) PROVE Unshared(new)
  BY <1>1, <1>3, <1>4 DEF Unshared
<1>5. ASSUME ErrorApart(es) PROVE ErrorApart(new)
  BY <1>1, <1>3, <1>5, Constants DEF ErrorApart
<1>6. \A c \in Cells : Named(new, c) => Named(es, c)
  BY <1>1, <1>3, Constants DEF Named
<1>7. ASSUME NEW h, Local(es, h) PROVE Local(new, h)
  <2>1. ASSUME NEW i \in 1..n, NEW x \in Vars, new[i].map[x] # Unset
        PROVE  Apt(new, h[new[i].map[x]], i)
    <3>1. Apt(es, h[new[i].map[x]], i)
      BY <1>1, <1>3, <1>7, <2>1 DEF Local
    <3>2. i \in 0..n /\ i \in Nat /\ i <= i
      BY <1>1
    <3>3. QED BY <1>2, <3>1, <3>2, AptKept
  <2>2. QED BY <1>1, <2>1 DEF Local
<1>8. QED BY <1>2, <1>4, <1>5, <1>6, <1>7

LEMMA MapType ==
  ASSUME NEW es \in Seq(EnvType), NEW i \in 1..Len(es), NEW x \in Vars, es[i].map[x] # Unset
  PROVE  es[i].map[x] \in Cells
<1>1. es[i] \in EnvType
  OBVIOUS
<1>2. QED BY <1>1 DEF EnvType

\* A name is bound to a cell that had none.
LEMMA BoundKeeps ==
  ASSUME NEW es \in Seq(EnvType), NEW new, NEW t, NEW x \in Vars, NEW c \in Cells,
         Bound(es, new, t, x, c), ~Named(es, c)
  PROVE  /\ Alike(es, new, Len(es))
         /\ Unshared(es) => Unshared(new)
         /\ ErrorApart(es) => ErrorApart(new)
         /\ \A h : Local(es, h) /\ Apt(es, h[c], t) => Local(new, h)
<1> DEFINE n == Len(es)
<1>1. /\ n \in Nat /\ Len(new) = n /\ t \in 1..n
      /\ \A i \in 1..n : \A y \in Vars : new[i].map[y] = IF i = t /\ y = x THEN c ELSE es[i].map[y]
  BY DEF Bound
<1>2. \A i \in 1..n : \A y \in Vars : es[i].map[y] # c
  BY DEF Named
<1>3. Alike(es, new, n)
  BY <1>1 DEF Bound, Alike
<1>4. \A y \in Vars \ {Param} : y \in Vars
  OBVIOUS
<1>5. n = Len(es)
  OBVIOUS
<1> HIDE DEF n
<1>6. ASSUME Unshared(es) PROVE Unshared(new)
  <2>1. ASSUME NEW i \in 1..n, NEW j \in 1..n, NEW y \in Vars \ {Param}, NEW z \in Vars \ {Param},
               new[i].map[y] # Unset, new[i].map[y] = new[j].map[z]
        PROVE  i = j /\ y = z
    BY <1>1, <1>2, <1>5, <1>6, <2>1 DEF Unshared
  <2>2. QED BY <1>1, <2>1 DEF Unshared
<1>7. ASSUME ErrorApart(es) PROVE ErrorApart(new)
  <2>1. ASSUME NEW i \in 1..n, NEW j \in 1..n, NEW y \in Vars,
               new[i].map["$e"] # Unset, new[i].map["$e"] = new[j].map[y]
        PROVE  i = j /\ y = "$e"
    BY <1>1, <1>2, <1>5, <1>7, <2>1, Constants DEF ErrorApart
  <2>2. QED BY <1>1, <2>1 DEF ErrorApart
<1>8. ASSUME NEW h, Local(es, h), Apt(es, h[c], t) PROVE Local(new, h)
  <2>1. ASSUME NEW i \in 1..n, NEW y \in Vars, new[i].map[y] # Unset
        PROVE  Apt(es, h[new[i].map[y]], i)
    BY <1>1, <1>5, <1>8, <2>1 DEF Local
  <2>2. ASSUME NEW i \in 1..n, NEW y \in Vars, new[i].map[y] # Unset
        PROVE  Apt(new, h[new[i].map[y]], i)
    <3>1. i \in 0..n /\ i \in Nat /\ i <= i
      BY <1>1
    <3>2. QED BY <1>3, <2>1, <2>2, <3>1, AptKept
  <2>3. QED BY <1>1, <2>2 DEF Local
<1>9. QED BY <1>3, <1>5, <1>6, <1>7, <1>8

\* A new environment, in which at most the parameter is bound, to the cell of
\* an argument.
LEMMA GrownKeeps ==
  ASSUME NEW es \in Seq(EnvType), NEW new, NEW g \in EnvType, NEW n, Grown(es, new, g, n),
         \A x \in Vars : g.map[x] # Unset =>
           x = Param /\ \E k \in 1..n, z \in Names : g.map[x] = es[k].map[z]
  PROVE  /\ Alike(es, new, n)
         /\ Unshared(es) => Unshared(new)
         /\ ErrorApart(es) => ErrorApart(new)
         /\ \A h : Unnamed(es, h) => Unnamed(new, h)
         /\ \A h : Local(es, h) => Local(new, h)
<1>1. /\ n \in Nat /\ Len(es) = n /\ Len(new) = n + 1 /\ new[n + 1] = g
      /\ \A i \in 1..n : new[i] = es[i] /\ i \in 1..n + 1
      /\ \A i \in 1..n + 1 : i = n + 1 \/ i \in 1..n
  BY DEF Grown
<1>2. Alike(es, new, n)
  BY <1>1 DEF Alike
<1>3. ASSUME Unshared(es) PROVE Unshared(new)
  <2>1. ASSUME NEW i \in 1..n + 1, NEW j \in 1..n + 1,
               NEW y \in Vars \ {Param}, NEW z \in Vars \ {Param},
               new[i].map[y] # Unset, new[i].map[y] = new[j].map[z]
        PROVE  i = j /\ y = z
    <3>1. i # n + 1 /\ j # n + 1
      BY <1>1, <2>1
    <3>2. i \in 1..n /\ j \in 1..n
      BY <1>1, <3>1
    <3>3. es[i].map[y] # Unset /\ es[i].map[y] = es[j].map[z]
      BY <1>1, <2>1, <3>2
    <3>4. QED BY <1>1, <1>3, <3>2, <3>3 DEF Unshared
  <2>2. QED BY <1>1, <2>1 DEF Unshared
<1>4. ASSUME ErrorApart(es) PROVE ErrorApart(new)
  <2>1. ASSUME NEW i \in 1..n + 1, NEW j \in 1..n + 1, NEW y \in Vars,
               new[i].map["$e"] # Unset, new[i].map["$e"] = new[j].map[y]
        PROVE  i = j /\ y = "$e"
    <3>1. i # n + 1
      BY <1>1, <2>1, Constants
    <3>2. i \in 1..n /\ es[i].map["$e"] # Unset /\ es[i].map["$e"] = new[j].map[y]
      BY <1>1, <2>1, <3>1
    <3>3. CASE j = n + 1
      <4>1. PICK k \in 1..n, z \in Names : g.map[y] = es[k].map[z]
        BY <1>1, <3>2, <3>3
      <4>2. es[i].map["$e"] = es[k].map[z] /\ z \in Vars /\ z # "$e"
        BY <1>1, <3>2, <3>3, <4>1, Constants
      <4>3. QED BY <1>1, <1>4, <3>2, <4>2 DEF ErrorApart
    <3>4. CASE j # n + 1
      <4>1. j \in 1..n /\ es[i].map["$e"] = es[j].map[y]
        BY <1>1, <3>2, <3>4
      <4>2. QED BY <1>1, <1>4, <3>2, <4>1 DEF ErrorApart
    <3>5. QED BY <3>3, <3>4
  <2>2. QED BY <1>1, <2>1 DEF ErrorApart
<1>5. ASSUME NEW h, Unnamed(es, h) PROVE Unnamed(new, h)
  <2>1. ASSUME NEW c \in Cells, Named(es, c) PROVE Named(new, c)
    <3>1. PICK i \in 1..n, x \in Vars : es[i].map[x] = c
      BY <1>1, <2>1 DEF Named
    <3>2. i \in 1..n + 1 /\ new[i].map[x] = c
      BY <1>1, <3>1
    <3>3. QED BY <1>1, <3>2 DEF Named
  <2>2. QED BY <1>5, <2>1 DEF Unnamed
<1>6. ASSUME NEW h, Local(es, h) PROVE Local(new, h)
  <2>1. ASSUME NEW i \in 1..n + 1, NEW x \in Vars, new[i].map[x] # Unset
        PROVE  Apt(new, h[new[i].map[x]], i)
    <3>1. PICK k \in 1..n, z \in Vars : new[i].map[x] = es[k].map[z] /\ k <= i
      <4>1. CASE i = n + 1
        <5>1. PICK k \in 1..n, z \in Names : g.map[x] = es[k].map[z]
          BY <1>1, <2>1, <4>1
        <5>2. z \in Vars /\ k <= i
          BY <1>1, <4>1, Constants
        <5>3. QED BY <1>1, <4>1, <5>1, <5>2
      <4>2. CASE i # n + 1
        <5>1. i \in 1..n /\ new[i] = es[i] /\ i <= i
          BY <1>1, <4>2
        <5>2. QED BY <5>1
      <4>3. QED BY <4>1, <4>2
    <3>2. Apt(es, h[es[k].map[z]], k)
      BY <1>1, <1>6, <2>1, <3>1 DEF Local
    <3>3. k \in 0..n /\ i \in Nat
      BY <1>1
    <3>4. QED BY <1>2, <3>1, <3>2, <3>3, AptKept
  <2>2. QED BY <1>1, <2>1 DEF Local
<1>7. QED BY <1>2, <1>3, <1>4, <1>5, <1>6

\* Cells without a name are destroyed.
LEMMA SweptFacts ==
  ASSUME NEW es \in Seq(EnvType), NEW h \in [Cells -> ValueType]
  PROVE  /\ Swept(h, es) \in [Cells -> ValueType]
         /\ Unnamed(es, Swept(h, es))
         /\ Local(es, h) => Local(es, Swept(h, es))
<1>1. DOMAIN es = 1..Len(es)
  OBVIOUS
<1>2. \A c \in Cells : Swept(h, es)[c] = IF Named(es, c) THEN h[c] ELSE Plain
  BY <1>1 DEF Swept, Named
<1>3. Swept(h, es) \in [Cells -> ValueType]
  BY ValueTypes DEF Swept
<1> DEFINE sw == Swept(h, es)
<1>4. ASSUME Local(es, h) PROVE Local(es, sw)
  <2> HIDE DEF sw
  <2>1. ASSUME NEW i \in 1..Len(es), NEW x \in Vars, es[i].map[x] # Unset
        PROVE  Apt(es, sw[es[i].map[x]], i)
    <3>1. es[i].map[x] \in Cells /\ Named(es, es[i].map[x])
      BY <2>1, MapType DEF Named
    <3>2. sw[es[i].map[x]] = h[es[i].map[x]]
      BY <1>2, <3>1 DEF sw
    <3>3. QED BY <1>4, <2>1, <3>2 DEF Local
  <2>2. QED BY <2>1 DEF Local
<1>5. QED BY <1>2, <1>3, <1>4 DEF Unnamed

\* A cell without a name is given a value.
LEMMA HeapFacts ==
  ASSUME NEW es \in Seq(EnvType), NEW h \in [Cells -> ValueType], NEW c \in Cells,
         NEW v \in ValueType, ~Named(es, c)
  PROVE  /\ [h EXCEPT ![c] = v] \in [Cells -> ValueType] /\ [h EXCEPT ![c] = v][c] = v
         /\ Local(es, h) => Local(es, [h EXCEPT ![c] = v])
<1> DEFINE new == [h EXCEPT ![c] = v]
<1>1. /\ new \in [Cells -> ValueType] /\ new[c] = v
      /\ \A d \in Cells : d # c => new[d] = h[d]
  OBVIOUS
<1> HIDE DEF new
<1>2. ASSUME Local(es, h) PROVE Local(es, new)
  <2>1. ASSUME NEW i \in 1..Len(es), NEW x \in Vars, es[i].map[x] # Unset
        PROVE  Apt(es, new[es[i].map[x]], i)
    <3>1. es[i].map[x] \in Cells /\ es[i].map[x] # c
      BY <2>1, MapType DEF Named
    <3>2. new[es[i].map[x]] = h[es[i].map[x]]
      BY <1>1, <3>1
    <3>3. QED BY <1>2, <2>1, <3>2 DEF Local
  <2>2. QED BY <2>1 DEF Local
<1>3. QED BY <1>1, <1>2 DEF new

LEMMA StaticKept ==
  ASSUME NEW es, NEW new, NEW n, Alike(es, new, n), NEW i \in 1..n
  PROVE  SerialsOf(new, Visible(new, i) \ {i}) = SerialsOf(es, Visible(es, i) \ {i})
<1>1. i \in 0..n
  BY DEF Alike
<1>2. /\ Visible(es, i) = Visible(new, i)
      /\ \A S \in SUBSET Visible(es, i) : SerialsOf(es, S) = SerialsOf(new, S)
  BY <1>1, VisibleAlike
<1>3. Visible(es, i) \ {i} \in SUBSET Visible(es, i)
  OBVIOUS
<1>4. QED BY <1>2, <1>3

-----------------------------------------------------------------------------
(***************************************************************************)
(* The inductive invariant.                                                *)
(***************************************************************************)

\* Each builtin that has made an environment has made one, and the program
\* runs in the outermost.
FramesOK(fs, n) ==
  /\ fs \in Seq(FrameType) /\ Len(fs) = n /\ n >= 1
  /\ \A i \in 1..n : /\ fs[i].own = i /\ fs[i].env \in 1..i
                     /\ fs[i].kind = "global" <=> i = 1

IInv ==
  /\ envs \in Seq(EnvType) /\ FramesOK(frames, Len(envs))
  /\ heap \in [Cells -> ValueType] /\ made \in Nat
  /\ Unshared(envs) /\ ErrorApart(envs) /\ ErrorsInside(envs, frames)
  /\ Unnamed(envs, heap)
  /\ ~Escapes => Local(envs, heap) /\ Static(envs, frames)

LEMMA Facts ==
  ASSUME IInv
  PROVE  /\ Len(envs) \in Nat /\ Len(envs) >= 1 /\ DOMAIN envs = 1..Len(envs)
         /\ Len(frames) = Len(envs) /\ DOMAIN frames = 1..Len(envs)
         /\ Top = frames[Len(envs)] /\ Top.own = Len(envs) /\ Here \in 1..Len(envs)
         /\ Here \in Nat /\ (Top.kind # "global" => Len(envs) >= 2)
<1>1. /\ Len(envs) \in Nat /\ Len(envs) >= 1 /\ DOMAIN envs = 1..Len(envs)
      /\ Len(frames) = Len(envs) /\ DOMAIN frames = 1..Len(envs)
  BY DEF IInv, FramesOK
<1>2. Top = frames[Len(envs)] /\ Len(envs) \in 1..Len(envs)
  BY <1>1 DEF Top
<1>3. /\ Top.own = Len(envs) /\ Top.env \in 1..Len(envs)
      /\ (Top.kind = "global" <=> Len(envs) = 1)
  BY <1>2 DEF IInv, FramesOK
<1>4. QED BY <1>1, <1>2, <1>3 DEF Here

\* What a name means is a cell that is bound in some environment.
LEMMA GetFacts ==
  ASSUME IInv, NEW x \in Vars, Get(x) # Unset
  PROVE  /\ Get(x) \in Cells
         /\ \E k \in 1..Len(envs) : Get(x) = envs[k].map[x]
<1>1. Here \in 1..Len(envs) /\ Here \in Nat /\ Len(envs) \in Nat /\ envs \in Seq(EnvType)
  BY Facts DEF IInv
<1> DEFINE k == Holder(envs, Here, x)
<1>2. k \in 1..Here /\ Get(x) = envs[k].map[x]
  BY <1>1, HolderFacts DEF Get
<1> HIDE DEF k
<1>3. k \in 1..Len(envs)
  BY <1>1, <1>2
<1>4. Get(x) \in Cells
  BY <1>1, <1>2, <1>3, MapType
<1>5. QED BY <1>2, <1>3, <1>4

LEMMA AptAt ==
  ASSUME NEW es, NEW v, NEW i, NEW j, Apt(es, v, i), i \in Nat, j \in Nat, v.fn <= j
  PROVE  Apt(es, v, j)
BY DEF Apt

LEMMA GetApt ==
  ASSUME IInv, ~Escapes, NEW x \in Vars, Get(x) # Unset
  PROVE  Apt(envs, heap[Get(x)], Len(envs))
<1>1. PICK k \in 1..Len(envs) : Get(x) = envs[k].map[x]
  BY GetFacts
<1>2. Apt(envs, heap[Get(x)], k)
  BY <1>1 DEF IInv, Local
<1>3. heap[Get(x)].fn <= Len(envs) /\ Len(envs) \in Nat /\ k \in Nat
  BY <1>2, Facts DEF Apt
<1>4. QED BY <1>2, <1>3, AptAt

LEMMA ValueFacts ==
  ASSUME IInv, NEW v \in Values
  PROVE  v \in ValueType /\ (~Escapes => Apt(envs, v, Len(envs)))
<1>1. CASE v = Plain
  BY <1>1, ValueTypes, Facts DEF Apt
<1>2. CASE v # Plain
  <2>1. PICK y \in Names : Get(y) # Unset /\ v = heap[Get(y)]
    BY <1>2 DEF Values
  <2>2. y \in Vars
    BY Constants
  <2>3. Get(y) \in Cells
    BY <2>1, <2>2, GetFacts
  <2>4. v \in ValueType
    BY <2>1, <2>3 DEF IInv
  <2>5. QED BY <2>1, <2>2, <2>4, GetApt
<1>3. QED BY <1>1, <1>2

LEMMA StorableApt ==
  ASSUME IInv, NEW v, v \in ValueType, ~Escapes, Apt(envs, v, Len(envs)),
         NEW i \in Nat, Storable(v, i)
  PROVE  Apt(envs, v, i)
<1>1. v.fn <= i /\ Len(envs) \in Nat
  BY Facts DEF Storable
<1>2. QED BY <1>1, AptAt

LEMMA FreshFacts ==
  ASSUME IInv, NEW c, Fresh(c)
  PROVE  c \in Cells /\ ~Named(envs, c) /\ heap[c] = Plain
<1>1. c \in Cells /\ c \notin Used
  BY DEF Fresh
<1>2. ~Named(envs, c)
  BY <1>1, Facts DEF Used, Named
<1>3. QED BY <1>1, <1>2 DEF IInv, Unnamed

-----------------------------------------------------------------------------
(***************************************************************************)
(* The actions.                                                            *)
(***************************************************************************)
LEMMA BindInv ==
  ASSUME IInv, NEW x \in Names, NEW c, Fresh(c), NEW v \in ValueType,
         ~Escapes => Apt(envs, v, Len(envs)), Storable(v, Target(envs, Here, x)),
         envs' = SetIn(envs, Here, x, c), heap' = Swept([heap EXCEPT ![c] = v], envs'),
         frames' = frames, made' = made
  PROVE  IInv'
<1> DEFINE t == Target(envs, Here, x)
           n == Len(envs)
           h == [heap EXCEPT ![c] = v]
<1>1. /\ n \in Nat /\ Here \in 1..n /\ envs \in Seq(EnvType) /\ heap \in [Cells -> ValueType]
      /\ c \in Cells /\ ~Named(envs, c) /\ x \in Vars /\ x # "$e"
  BY Facts, FreshFacts, Constants DEF IInv
<1>2. t \in 1..Here /\ Bound(envs, envs', t, x, c)
  BY <1>1, SetFacts
<1>3. /\ h \in [Cells -> ValueType] /\ h[c] = v
      /\ (Local(envs, heap) => Local(envs, h))
  BY <1>1, HeapFacts
<1>4. /\ envs' \in Seq(EnvType) /\ Len(envs') = n /\ t \in Nat
      /\ \A i \in 1..n : envs'[i].map["$e"] = envs[i].map["$e"]
  BY <1>1, <1>2, Constants DEF Bound
<1>5. /\ Alike(envs, envs', n) /\ Unshared(envs') /\ ErrorApart(envs')
      /\ (Local(envs, h) /\ Apt(envs, h[c], t) => Local(envs', h))
  BY <1>1, <1>2, BoundKeeps DEF IInv
<1>6. ~Escapes => Apt(envs, v, t)
  BY <1>4, StorableApt
<1>7. heap' = Swept(h, envs')
  OBVIOUS
<1> HIDE DEF t, h, n
<1>8. ~Escapes => Local(envs', h)
  BY <1>3, <1>5, <1>6 DEF IInv
<1>9. /\ heap' \in [Cells -> ValueType] /\ Unnamed(envs', heap')
      /\ (Local(envs', h) => Local(envs', heap'))
  BY <1>3, <1>4, <1>7, SweptFacts
<1>10. n = Len(envs)
  BY DEF n
<1>11. ErrorsInside(envs', frames')
  BY <1>4, <1>10 DEF IInv, ErrorsInside
<1>12. ~Escapes => Static(envs', frames')
  <2>1. ASSUME ~Escapes, NEW i \in 1..n, frames[i].kind = "call"
        PROVE  SerialsOf(envs', Visible(envs', i) \ {i}) = frames[i].chain
    <3>1. SerialsOf(envs, Visible(envs, i) \ {i}) = frames[i].chain
      BY <1>10, <2>1, Facts DEF IInv, Static
    <3>2. QED BY <1>5, <3>1, StaticKept
  <2>2. Len(frames) = n
    BY <1>10, Facts
  <2>3. QED BY <2>1, <2>2 DEF Static
<1>13. FramesOK(frames', Len(envs')) /\ made' \in Nat
  BY <1>4, <1>10 DEF IInv
<1>14. QED BY <1>4, <1>5, <1>8, <1>9, <1>11, <1>12, <1>13 DEF IInv

LEMMA UpdateInv == ASSUME IInv, Update PROVE IInv'
<1>1. PICK x \in Names, v \in Values :
        /\ Get(x) # Unset
        /\ \A i \in DOMAIN envs :
             Get(x) \in {envs[i].map[n] : n \in Names} => Storable(v, i)
        /\ heap' = [heap EXCEPT ![Get(x)] = v]
        /\ UNCHANGED <<envs, frames, made>>
  BY DEF Update
<1> DEFINE c == Get(x)
<1>2. /\ x \in Vars /\ x # "$e" /\ c \in Cells
      /\ v \in ValueType /\ (~Escapes => Apt(envs, v, Len(envs)))
      /\ DOMAIN envs = 1..Len(envs) /\ Len(envs) \in Nat
  <2>1. x \in Vars /\ x # "$e"
    BY Constants
  <2>2. QED BY <1>1, <2>1, GetFacts, ValueFacts, Facts
<1>3. PICK k \in 1..Len(envs) : c = envs[k].map[x]
  BY <1>1, <1>2, GetFacts
<1>4. /\ heap' \in [Cells -> ValueType] /\ heap'[c] = v
      /\ \A d \in Cells : d # c => heap'[d] = heap[d]
  <2>1. heap \in [Cells -> ValueType] /\ heap' = [heap EXCEPT ![c] = v]
    BY <1>1 DEF IInv
  <2> HIDE DEF c
  <2>2. QED BY <1>2, <2>1
<1>5. c # Unset
  BY <1>1
<1> HIDE DEF c
<1>6. Unnamed(envs, heap')
  <2>1. Named(envs, c)
    BY <1>2, <1>3 DEF Named
  <2>2. QED BY <1>4, <2>1 DEF IInv, Unnamed
<1>7. ASSUME ~Escapes PROVE Local(envs, heap')
  <2>1. ASSUME NEW i \in 1..Len(envs), NEW y \in Vars, envs[i].map[y] # Unset
        PROVE  Apt(envs, heap'[envs[i].map[y]], i)
    <3>1. CASE envs[i].map[y] = c
      <4>1. y # "$e"
        <5>1. ASSUME y = "$e" PROVE FALSE
          <6>1. envs[i].map["$e"] # Unset /\ envs[i].map["$e"] = envs[k].map[x]
            BY <1>3, <2>1, <3>1, <5>1
          <6>2. QED BY <1>2, <6>1 DEF IInv, ErrorApart
        <5>2. QED BY <5>1
      <4>2. y \in Names
        BY <4>1 DEF Vars
      <4>3. Storable(v, i)
        BY <1>1, <1>2, <3>1, <4>2 DEF c
      <4>4. i \in Nat
        BY <1>2
      <4>5. Apt(envs, v, i)
        BY <1>2, <1>7, <4>3, <4>4, StorableApt
      <4>6. QED BY <1>4, <3>1, <4>5
    <3>2. CASE envs[i].map[y] # c
      <4>1. envs[i].map[y] \in Cells
        BY <2>1, MapType DEF IInv
      <4>2. heap'[envs[i].map[y]] = heap[envs[i].map[y]]
        BY <1>4, <3>2, <4>1
      <4>3. QED BY <1>7, <2>1, <4>2 DEF IInv, Local
    <3>3. QED BY <3>1, <3>2
  <2>2. QED BY <2>1 DEF Local
<1>8. envs' = envs /\ frames' = frames /\ made' = made
  BY <1>1
<1>9. QED BY <1>4, <1>6, <1>7, <1>8 DEF IInv

\* Environments are destroyed, or a name is dropped.
LEMMA ThinInv ==
  ASSUME IInv, NEW m, m >= 1, Thinned(envs, envs', m),
         frames' \in Seq(FrameType), Len(frames') = m,
         \A i \in 1..m : /\ frames'[i].own = frames[i].own /\ frames'[i].env = frames[i].env
                         /\ frames'[i].kind = frames[i].kind
                         /\ frames'[i].chain = frames[i].chain,
         \A i \in 1..m : envs'[i].map["$e"] # Unset => envs[i].map["$e"] # Unset,
         heap' = Swept(heap, envs'), made' = made
  PROVE  IInv'
<1>1. /\ envs \in Seq(EnvType) /\ heap \in [Cells -> ValueType] /\ m \in Nat
      /\ Len(envs) \in Nat /\ Len(frames) = Len(envs) /\ m <= Len(envs)
      /\ envs' \in Seq(EnvType) /\ Len(envs') = m
      /\ \A i \in 1..m : i \in 1..Len(envs)
  BY Facts DEF IInv, Thinned
<1>2. /\ Alike(envs, envs', m) /\ Unshared(envs') /\ ErrorApart(envs')
      /\ (Local(envs, heap) => Local(envs', heap))
  BY <1>1, ThinnedKeeps DEF IInv
<1>3. /\ heap' \in [Cells -> ValueType] /\ Unnamed(envs', heap')
      /\ (Local(envs', heap) => Local(envs', heap'))
  BY <1>1, SweptFacts
<1>4. FramesOK(frames', m)
  BY <1>1 DEF IInv, FramesOK
<1>5. ErrorsInside(envs', frames')
  BY <1>1 DEF IInv, ErrorsInside
<1>6. ~Escapes => Static(envs', frames')
  <2>1. ASSUME ~Escapes, NEW i \in 1..m, frames'[i].kind = "call"
        PROVE  SerialsOf(envs', Visible(envs', i) \ {i}) = frames'[i].chain
    <3>1. SerialsOf(envs, Visible(envs, i) \ {i}) = frames'[i].chain
      BY <1>1, <2>1 DEF IInv, Static
    <3>2. QED BY <1>2, <3>1, StaticKept
  <2>2. QED BY <2>1 DEF Static
<1>7. QED BY <1>1, <1>2, <1>3, <1>4, <1>5, <1>6 DEF IInv

LEMMA ThinnedErrors ==
  ASSUME NEW es, NEW new, NEW m, Thinned(es, new, m), NEW i \in 1..m, new[i].map["$e"] # Unset
  PROVE  es[i].map["$e"] # Unset
BY Constants DEF Thinned

LEMMA DropInv == ASSUME IInv, Drop PROVE IInv'
<1>1. PICK x \in Names : /\ envs' = DropIn(envs, Here, x) /\ heap' = Swept(heap, envs')
                         /\ UNCHANGED <<frames, made>>
  BY DEF Drop
<1>2. x \in Vars /\ envs \in Seq(EnvType) /\ Here \in 1..Len(envs)
  BY Facts, Constants DEF IInv
<1>3. Thinned(envs, envs', Len(envs))
  BY <1>1, <1>2, DropFacts
<1>4. /\ frames' = frames /\ made' = made /\ frames' \in Seq(FrameType)
      /\ Len(frames') = Len(envs) /\ Len(envs) >= 1
  BY <1>1, Facts DEF IInv, FramesOK
<1>5. \A i \in 1..Len(envs) : envs'[i].map["$e"] # Unset => envs[i].map["$e"] # Unset
  BY <1>3, ThinnedErrors
<1>6. QED BY <1>1, <1>3, <1>4, <1>5, ThinInv

LEMMA CutFrames ==
  ASSUME IInv, NEW m \in Nat, m >= 1, m <= Len(envs)
  PROVE  /\ SubSeq(frames, 1, m) \in Seq(FrameType) /\ Len(SubSeq(frames, 1, m)) = m
         /\ \A i \in 1..m : SubSeq(frames, 1, m)[i] = frames[i]
<1>1. frames \in Seq(FrameType) /\ Len(frames) = Len(envs) /\ Len(envs) \in Nat
  BY Facts DEF IInv, FramesOK
<1>2. \A i \in 1..m : frames[i] \in FrameType
  BY <1>1
<1>3. QED BY <1>2, SubSeqProperties

LEMMA ReturnInv == ASSUME IInv, Return PROVE IInv'
<1> DEFINE m == Len(envs) - 1
           es == IF Top.kind = "recover" THEN DropIn(envs, Here, "$e") ELSE envs
<1>1. /\ m \in Nat /\ m >= 1 /\ m <= Len(envs) /\ m + 1 = Len(envs)
      /\ Len(frames) = Len(envs) /\ Top.own = Len(envs) /\ Here \in 1..Len(envs)
      /\ envs \in Seq(EnvType) /\ "$e" \in Vars
  BY Facts, Constants DEF IInv, Return
<1>2. /\ envs' = SubSeq(es, 1, m) /\ frames' = SubSeq(frames, 1, m)
      /\ heap' = Swept(heap, envs') /\ made' = made
  BY <1>1 DEF Return
<1>3. Thinned(envs, es, Len(envs))
  BY <1>1, DropFacts, ThinnedSelf
<1> HIDE DEF es, m
<1>4. es \in Seq(EnvType) /\ m \in 0..Len(es)
  BY <1>1, <1>3 DEF Thinned
<1>5. Thinned(envs, envs', m)
  BY <1>2, <1>3, <1>4, CutFacts
<1>6. /\ frames' \in Seq(FrameType) /\ Len(frames') = m
      /\ \A i \in 1..m : frames'[i] = frames[i]
  BY <1>1, <1>2, CutFrames
<1>7. \A i \in 1..m : envs'[i].map["$e"] # Unset => envs[i].map["$e"] # Unset
  BY <1>5, ThinnedErrors
<1>8. QED BY <1>1, <1>2, <1>5, <1>6, <1>7, ThinInv

\* An environment is made.
LEMMA EnterInv ==
  ASSUME IInv, NEW kind \in Kinds \ {"global"}, NEW env \in Nat, env >= 1, env <= Len(envs) + 1,
         NEW parent \in Nat, NEW map \in [Vars -> CellOrUnset], NEW chain \in SUBSET Nat,
         \A x \in Vars : map[x] # Unset =>
           x = Param /\ \E k \in 1..Len(envs), z \in Names : map[x] = envs[k].map[z],
         ~Escapes /\ kind = "call" =>
           parent \in 1..Len(envs) /\ chain = SerialsOf(envs, Visible(envs, parent)),
         Enter(kind, env, parent, map, chain)
  PROVE  IInv'
<1> DEFINE n == Len(envs)
           g == [NewEnv(parent) EXCEPT !.map = map]
           f == Frame(kind, n + 1, env, Unset, chain)
<1>1. /\ n \in Nat /\ n >= 1 /\ Len(frames) = n /\ made \in Nat
      /\ envs \in Seq(EnvType) /\ frames \in Seq(FrameType) /\ heap \in [Cells -> ValueType]
  BY Facts DEF IInv, FramesOK
<1>2. g \in EnvType /\ g.map = map /\ g.parent = parent
  <2>1. g = [parent |-> parent, map |-> map, serial |-> made + 1]
    BY DEF NewEnv
  <2>2. made + 1 \in Nat /\ map \in [Vars -> Cells \union {Unset}]
    BY <1>1 DEF CellOrUnset
  <2> HIDE DEF g
  <2>3. QED BY <2>1, <2>2 DEF EnvType
<1>3. /\ f \in FrameType /\ f.kind = kind /\ f.own = n + 1 /\ f.env = env /\ f.chain = chain
  BY <1>1 DEF Frame, FrameType, CellOrUnset
<1>4. /\ envs' = Append(envs, g) /\ frames' = Append(frames, f)
      /\ made' = made + 1 /\ heap' = heap
  BY DEF Enter
<1>5. n = Len(envs)
  OBVIOUS
<1> HIDE DEF n, g, f
<1>6. Grown(envs, envs', g, n)
  BY <1>1, <1>2, <1>4, <1>5, AppendProperties DEF Grown
<1>7. /\ frames' \in Seq(FrameType) /\ Len(frames') = n + 1 /\ frames'[n + 1] = f
      /\ \A i \in 1..n : frames'[i] = frames[i]
  BY <1>1, <1>3, <1>4, AppendProperties
<1>8. \A i \in 1..n + 1 : i = n + 1 \/ i \in 1..n
  BY <1>1
<1>9. \A x \in Vars : g.map[x] # Unset =>
        x = Param /\ \E k \in 1..n, z \in Names : g.map[x] = envs[k].map[z]
  BY <1>2, <1>5
<1>10. /\ Alike(envs, envs', n) /\ Unshared(envs') /\ ErrorApart(envs')
       /\ Unnamed(envs', heap) /\ (Local(envs, heap) => Local(envs', heap))
  <2> DEFINE new == envs'
  <2>1. /\ envs \in Seq(EnvType) /\ g \in EnvType /\ Grown(envs, new, g, n)
        /\ Unshared(envs) /\ ErrorApart(envs) /\ Unnamed(envs, heap)
    BY <1>1, <1>2, <1>6 DEF IInv
  <2> HIDE DEF new
  <2>2. /\ Alike(envs, new, n) /\ Unshared(new) /\ ErrorApart(new)
        /\ Unnamed(new, heap) /\ (Local(envs, heap) => Local(new, heap))
    BY <1>9, <2>1, GrownKeeps, SMTT(30)
  <2>3. QED BY <2>2 DEF new
<1>11. /\ envs' \in Seq(EnvType) /\ Len(envs') = n + 1 /\ envs'[n + 1] = g
       /\ \A i \in 1..n : envs'[i] = envs[i]
  BY <1>6 DEF Grown
<1>12. FramesOK(frames', n + 1)
  <2>1. ASSUME NEW i \in 1..n + 1
        PROVE  /\ frames'[i].own = i /\ frames'[i].env \in 1..i
               /\ frames'[i].kind = "global" <=> i = 1
    <3>1. CASE i = n + 1
      BY <1>1, <1>3, <1>5, <1>7, <3>1
    <3>2. CASE i # n + 1
      <4>1. i \in 1..n /\ frames'[i] = frames[i]
        BY <1>7, <1>8, <3>2
      <4>2. QED BY <1>5, <4>1 DEF IInv, FramesOK
    <3>3. QED BY <3>1, <3>2
  <2>2. QED BY <1>1, <1>7, <2>1 DEF FramesOK
<1>13. ErrorsInside(envs', frames')
  <2>1. ASSUME NEW i \in 1..n + 1, envs'[i].map["$e"] # Unset
        PROVE  frames'[i].kind = "recover"
    <3>1. i # n + 1
      BY <1>9, <1>11, <2>1, Constants
    <3>2. i \in 1..n /\ frames'[i] = frames[i] /\ envs'[i] = envs[i]
      BY <1>7, <1>8, <1>11, <3>1
    <3>3. QED BY <1>5, <2>1, <3>2 DEF IInv, ErrorsInside
  <2>2. QED BY <1>11, <2>1 DEF ErrorsInside
<1>14. ~Escapes => Static(envs', frames')
  <2>1. ASSUME ~Escapes, NEW i \in 1..n + 1, frames'[i].kind = "call"
        PROVE  SerialsOf(envs', Visible(envs', i) \ {i}) = frames'[i].chain
    <3>1. CASE i = n + 1
      <4>1. kind = "call" /\ frames'[i].chain = chain
        BY <1>3, <1>7, <2>1, <3>1
      <4>2. parent \in 1..n /\ chain = SerialsOf(envs, Visible(envs, parent))
        BY <1>5, <2>1, <4>1
      <4>3. i \in Nat /\ parent \in 1..i - 1 /\ envs'[i].parent = parent
        BY <1>1, <1>2, <1>11, <3>1, <4>2
      <4>4. Visible(envs', i) \ {i} = Visible(envs', parent)
        BY <4>3, VisibleOutside
      <4>5. parent \in 0..n
        BY <1>1, <4>2
      <4>6. /\ Visible(envs, parent) = Visible(envs', parent)
            /\ SerialsOf(envs, Visible(envs, parent)) = SerialsOf(envs', Visible(envs, parent))
        BY <1>10, <4>5, VisibleAlike
      <4>7. QED BY <4>1, <4>2, <4>4, <4>6
    <3>2. CASE i # n + 1
      <4>1. i \in 1..n /\ frames'[i] = frames[i]
        BY <1>7, <1>8, <3>2
      <4>2. SerialsOf(envs, Visible(envs, i) \ {i}) = frames[i].chain
        BY <1>1, <2>1, <4>1 DEF IInv, Static
      <4>3. QED BY <1>10, <4>1, <4>2, StaticKept
    <3>3. QED BY <3>1, <3>2
  <2>2. QED BY <1>7, <2>1 DEF Static
<1>15. ~Escapes => Local(envs', heap)
  BY <1>10 DEF IInv
<1>16. made' \in Nat /\ heap' \in [Cells -> ValueType] /\ heap' = heap
  BY <1>1, <1>4
<1>17. QED BY <1>10, <1>11, <1>12, <1>13, <1>14, <1>15, <1>16 DEF IInv

LEMMA NoMapType ==
  /\ NoMap \in [Vars -> CellOrUnset] /\ \A x \in Vars : NoMap[x] = Unset
BY DEF NoMap, CellOrUnset

LEMMA CallInv == ASSUME IInv, Call PROVE IInv'
<1>1. PICK f, y \in Names :
        /\ Get(f) # Unset /\ heap[Get(f)].fn # 0 /\ Get(y) # Unset
        /\ Enter("call", Len(envs) + 1, heap[Get(f)].fn,
                 [NoMap EXCEPT ![Param] = Get(y)], heap[Get(f)].chain)
  BY DEF Call
<1> DEFINE v == heap[Get(f)]
           map == [NoMap EXCEPT ![Param] = Get(y)]
<1>2. f \in Vars /\ y \in Vars /\ Get(f) \in Cells /\ Get(y) \in Cells
  BY <1>1, Constants, GetFacts
<1>3. v \in ValueType
  BY <1>2 DEF IInv
<1>4. v.fn \in Nat /\ v.chain \in SUBSET Nat
  BY <1>3 DEF ValueType
<1>5. map \in [Vars -> CellOrUnset] /\ \A x \in Vars : map[x] = IF x = Param THEN Get(y) ELSE Unset
  BY <1>2, NoMapType, Constants DEF CellOrUnset
<1>6. PICK k \in 1..Len(envs) : Get(y) = envs[k].map[y]
  BY <1>1, <1>2, GetFacts
<1>7. \A x \in Vars : map[x] # Unset =>
        x = Param /\ \E l \in 1..Len(envs), z \in Names : map[x] = envs[l].map[z]
  BY <1>5, <1>6
<1>8. ASSUME ~Escapes
      PROVE  v.fn \in 1..Len(envs) /\ v.chain = SerialsOf(envs, Visible(envs, v.fn))
  <2>1. Apt(envs, v, Len(envs)) /\ v.fn # 0
    BY <1>1, <1>2, <1>8, GetApt
  <2>2. QED BY <2>1, Facts DEF Apt
<1>9. Len(envs) + 1 \in Nat /\ Len(envs) + 1 >= 1 /\ "call" \in Kinds \ {"global"}
  BY Facts DEF Kinds
<1>10. Enter("call", Len(envs) + 1, v.fn, map, v.chain)
  BY <1>1
<1> HIDE DEF v, map
<1>11. QED BY <1>4, <1>5, <1>7, <1>8, <1>9, <1>10, EnterInv

LEMMA BlockInv == ASSUME IInv, Block \/ Try PROVE IInv'
<1>1. /\ Here \in Nat /\ Here >= 1 /\ Here <= Len(envs) /\ Len(envs) \in Nat
  BY Facts
<1>2. /\ {"block", "try"} \subseteq Kinds \ {"global"} /\ {} \in SUBSET Nat
      /\ "block" # "call" /\ "try" # "call"
  BY DEF Kinds
<1>3. PICK kind \in {"block", "try"}, env \in {Here, Len(envs) + 1} :
        Enter(kind, env, Here, NoMap, {})
  BY DEF Block, Try
<1>4. env \in Nat /\ env >= 1 /\ env <= Len(envs) + 1
  BY <1>1
<1>5. kind \in Kinds \ {"global"} /\ kind # "call"
  BY <1>2
<1>6. QED BY <1>1, <1>2, <1>3, <1>4, <1>5, NoMapType, EnterInv

LEMMA AssignInv == ASSUME IInv, Assign PROVE IInv'
<1>1. PICK x \in Names, v \in Values, c \in Cells :
        /\ Fresh(c) /\ Storable(v, Target(envs, Here, x))
        /\ envs' = SetIn(envs, Here, x, c)
        /\ heap' = Swept([heap EXCEPT ![c] = v], envs')
        /\ UNCHANGED <<frames, made>>
  BY DEF Assign
<1>2. v \in ValueType /\ (~Escapes => Apt(envs, v, Len(envs)))
  BY ValueFacts
<1>3. frames' = frames /\ made' = made
  BY <1>1
<1>4. QED BY <1>1, <1>2, <1>3, BindInv

LEMMA DefineInv == ASSUME IInv, Define PROVE IInv'
<1> DEFINE v == Function(Here, Serials(Visible(envs, Here)))
<1>1. PICK x \in Names, c \in Cells :
        /\ Fresh(c) /\ Storable(v, Target(envs, Here, x))
        /\ envs' = SetIn(envs, Here, x, c)
        /\ heap' = Swept([heap EXCEPT ![c] = v], envs')
        /\ UNCHANGED <<frames, made>>
  BY DEF Define
<1>2. /\ Here \in 1..Len(envs) /\ Here \in Nat /\ Len(envs) \in Nat
      /\ envs \in Seq(EnvType) /\ Here \in 0..Len(envs)
  BY Facts DEF IInv
<1>3. Serials(Visible(envs, Here)) = SerialsOf(envs, Visible(envs, Here))
  BY DEF Serials, SerialsOf
<1>4. SerialsOf(envs, Visible(envs, Here)) \in SUBSET Nat
  <2>1. Visible(envs, Here) \subseteq 1..Len(envs)
    BY <1>2 DEF Visible
  <2>2. ASSUME NEW i \in 1..Len(envs) PROVE envs[i].serial \in Nat
    <3>1. envs[i] \in EnvType
      BY <1>2
    <3>2. QED BY <3>1 DEF EnvType
  <2>3. QED BY <2>1, <2>2 DEF SerialsOf
<1>5. /\ v \in ValueType /\ v.fn = Here /\ v.chain = SerialsOf(envs, Visible(envs, Here))
  BY <1>2, <1>3, <1>4, ValueTypes
<1> HIDE DEF v
<1>6. Apt(envs, v, Len(envs))
  BY <1>2, <1>5 DEF Apt
<1>7. frames' = frames /\ made' = made
  BY <1>1
<1>8. QED BY <1>1, <1>5, <1>6, <1>7, BindInv

\* An exception that a try awaits: t is the innermost try.
Caught(t, c) ==
  /\ t \in 1..Len(envs) /\ frames[t].kind = "try" /\ Fresh(c)
  /\ envs' = SetIn(SubSeq(envs, 1, t), t, "$e", c)
  /\ heap' = Swept(heap, envs')
  /\ frames' = Append(SubSeq(frames, 1, t - 1), Frame("recover", t, t, c, {}))
  /\ made' = made

LEMMA CaughtInv == ASSUME IInv, NEW t, NEW c, Caught(t, c) PROVE IInv'
<1> DEFINE left == SubSeq(envs, 1, t)
           tt == Target(left, t, "$e")
           f == Frame("recover", t, t, c, {})
<1>1. /\ t \in 1..Len(envs) /\ t \in Nat /\ t >= 1 /\ t \in 1..t /\ t \in 0..Len(envs)
      /\ Len(envs) \in Nat /\ Len(frames) = Len(envs)
      /\ envs \in Seq(EnvType) /\ heap \in [Cells -> ValueType] /\ "$e" \in Vars
  BY Facts, Constants DEF IInv, Caught
<1>2. c \in Cells /\ ~Named(envs, c) /\ heap[c] = Plain
  BY FreshFacts DEF Caught
<1>3. frames[t].kind = "try" /\ t # 1
  BY <1>1 DEF Caught, IInv, FramesOK
<1>4. t - 1 \in Nat /\ t - 1 >= 1 /\ t - 1 <= Len(envs)
  BY <1>1, <1>3
<1>5. Thinned(envs, left, t)
  BY <1>1, ThinnedSelf, CutFacts
<1>6. left \in Seq(EnvType) /\ Len(left) = t
  BY <1>5 DEF Thinned
<1>7. /\ envs' = SetIn(left, t, "$e", c) /\ heap' = Swept(heap, envs') /\ made' = made
      /\ frames' = Append(SubSeq(frames, 1, t - 1), f)
  BY DEF Caught
<1> HIDE DEF left
<1>8. /\ tt \in 1..t /\ (tt = t \/ left[tt].map["$e"] # Unset)
      /\ Bound(left, envs', tt, "$e", c)
  <2>1. t \in 1..Len(left)
    BY <1>1, <1>6
  <2>2. QED BY <1>1, <1>2, <1>6, <1>7, <2>1, SetFacts
<1> HIDE DEF tt
<1>9. f \in FrameType /\ f.kind = "recover" /\ f.own = t /\ f.env = t /\ f.chain = {}
  BY <1>1, <1>2 DEF Frame, FrameType, Kinds
<1> HIDE DEF f
<1>10. /\ frames' \in Seq(FrameType) /\ Len(frames') = t /\ frames'[t] = f
       /\ \A i \in 1..t - 1 : frames'[i] = frames[i]
  <2> DEFINE fs == SubSeq(frames, 1, t - 1)
  <2>1. /\ fs \in Seq(FrameType) /\ Len(fs) = t - 1
        /\ \A i \in 1..t - 1 : fs[i] = frames[i]
    BY <1>4, CutFrames
  <2>2. frames' = Append(fs, f)
    BY <1>7
  <2> HIDE DEF fs
  <2>3. QED BY <1>1, <1>4, <1>9, <2>1, <2>2, AppendProperties
<1>11. \A i \in 1..t : i = t \/ i \in 1..t - 1
  BY <1>1
<1>12. /\ Alike(envs, left, t) /\ Unshared(left) /\ ErrorApart(left) /\ ~Named(left, c)
       /\ (Local(envs, heap) => Local(left, heap))
  BY <1>1, <1>2, <1>5, ThinnedKeeps DEF IInv
<1>13. /\ Alike(left, envs', t) /\ Unshared(envs') /\ ErrorApart(envs')
       /\ (Local(left, heap) => Local(envs', heap))
  <2> DEFINE new == envs'
  <2>1. Bound(left, new, tt, "$e", c)
    BY <1>8
  <2>2. Apt(left, heap[c], tt)
    BY <1>2, <1>8, ValueTypes DEF Apt
  <2> HIDE DEF new
  <2>3. /\ Alike(left, new, Len(left)) /\ Unshared(new) /\ ErrorApart(new)
        /\ (Local(left, heap) => Local(new, heap))
    BY <1>1, <1>2, <1>6, <1>12, <2>1, <2>2, BoundKeeps
  <2>4. QED BY <1>6, <2>3 DEF new
<1>14. envs' \in Seq(EnvType) /\ Len(envs') = t
  BY <1>6, <1>8 DEF Bound
<1>15. /\ heap' \in [Cells -> ValueType] /\ Unnamed(envs', heap')
       /\ (Local(envs', heap) => Local(envs', heap'))
  BY <1>1, <1>7, <1>14, SweptFacts
<1>16. FramesOK(frames', t)
  <2>1. ASSUME NEW i \in 1..t
        PROVE  /\ frames'[i].own = i /\ frames'[i].env \in 1..i
               /\ frames'[i].kind = "global" <=> i = 1
    <3>1. CASE i = t
      BY <1>1, <1>3, <1>9, <1>10, <3>1
    <3>2. CASE i # t
      <4>1. i \in 1..Len(envs) /\ frames'[i] = frames[i]
        BY <1>1, <1>10, <1>11, <3>2
      <4>2. QED BY <4>1 DEF IInv, FramesOK
    <3>3. QED BY <3>1, <3>2
  <2>2. QED BY <1>1, <1>10, <2>1 DEF FramesOK
<1>17. ErrorsInside(envs', frames')
  <2>1. ASSUME NEW i \in 1..t, i # t, left[i].map["$e"] # Unset
        PROVE  frames'[i].kind = "recover"
    <3>1. envs[i].map["$e"] # Unset
      BY <1>5, <2>1, ThinnedErrors
    <3>2. i \in 1..Len(envs) /\ frames'[i] = frames[i]
      BY <1>1, <1>10, <1>11, <2>1
    <3>3. QED BY <3>1, <3>2 DEF IInv, ErrorsInside
  <2>2. ASSUME NEW i \in 1..t, envs'[i].map["$e"] # Unset
        PROVE  frames'[i].kind = "recover"
    <3>1. CASE i = t
      BY <1>9, <1>10, <3>1
    <3>2. CASE i # t
      <4>1. left[i].map["$e"] # Unset
        BY <1>1, <1>6, <1>8, <2>2, <3>2 DEF Bound
      <4>2. QED BY <2>1, <3>2, <4>1
    <3>3. QED BY <3>1, <3>2
  <2>3. QED BY <1>14, <2>2 DEF ErrorsInside
<1>18. ~Escapes => Static(envs', frames')
  <2>1. ASSUME ~Escapes, NEW i \in 1..t, frames'[i].kind = "call"
        PROVE  SerialsOf(envs', Visible(envs', i) \ {i}) = frames'[i].chain
    <3>1. i \in 1..Len(envs) /\ frames'[i] = frames[i]
      BY <1>1, <1>9, <1>10, <1>11, <2>1
    <3>2. SerialsOf(envs, Visible(envs, i) \ {i}) = frames'[i].chain
      BY <1>1, <2>1, <3>1 DEF IInv, Static
    <3>3. SerialsOf(left, Visible(left, i) \ {i}) = frames'[i].chain
      BY <1>12, <3>2, StaticKept
    <3> DEFINE new == envs'
    <3>4. Alike(left, new, t)
      BY <1>13
    <3> HIDE DEF new
    <3>5. SerialsOf(new, Visible(new, i) \ {i}) = frames'[i].chain
      BY <3>3, <3>4, StaticKept
    <3>6. QED BY <3>5 DEF new
  <2>2. QED BY <1>10, <2>1 DEF Static
<1>19. made' \in Nat
  BY <1>7 DEF IInv
<1>20. ~Escapes => Local(envs', heap')
  BY <1>12, <1>13, <1>15 DEF IInv
<1>21. QED BY <1>13, <1>14, <1>15, <1>16, <1>17, <1>18, <1>19, <1>20 DEF IInv

LEMMA ThrowInv == ASSUME IInv, Throw PROVE IInv'
<1> DEFINE tries == {i \in DOMAIN frames : frames[i].kind = "try"}
           t     == CHOOSE i \in tries : \A j \in tries : j <= i
<1>1. /\ Len(envs) \in Nat /\ Len(envs) >= 2 /\ DOMAIN frames = 1..Len(envs)
      /\ envs \in Seq(EnvType) /\ Len(frames) = Len(envs)
  BY Facts DEF IInv, Throw
<1>2. ASSUME tries = {} PROVE IInv'
  <2>1. /\ envs' = <<envs[1]>> /\ frames' = <<frames[1]>>
        /\ heap' = Swept(heap, envs') /\ made' = made
    BY <1>2 DEF Throw
  <2>2. /\ envs[1] \in EnvType /\ frames[1] \in FrameType
    BY <1>1 DEF IInv, FramesOK
  <2>3. /\ envs' \in Seq(EnvType) /\ Len(envs') = 1 /\ envs'[1] = envs[1]
        /\ frames' \in Seq(FrameType) /\ Len(frames') = 1 /\ frames'[1] = frames[1]
    BY <2>1, <2>2
  <2>4. /\ \A i \in 1..1 : i = 1
        /\ 1 \in 0..Len(envs) /\ 1 >= 1
    BY <1>1
  <2>5. Thinned(envs, envs', 1)
    BY <2>3, <2>4 DEF Thinned
  <2>6. \A i \in 1..1 : envs'[i].map["$e"] # Unset => envs[i].map["$e"] # Unset
    BY <2>3, <2>4
  <2>7. QED BY <2>1, <2>3, <2>4, <2>5, <2>6, ThinInv
<1>3. ASSUME tries # {} PROVE IInv'
  <2>1. t \in tries
    <3> HIDE DEF tries
    <3>1. tries \subseteq 1..Len(envs)
      BY <1>1 DEF tries
    <3>2. \E i \in tries : \A j \in tries : j <= i
      BY <1>1, <1>3, <3>1, InnermostIn
    <3>3. QED BY <3>2, Zenon
  <2>2. PICK c \in Cells :
          /\ Fresh(c)
          /\ envs' = SetIn(SubSeq(envs, 1, frames[t].own), RecoveryEnv(frames[t]), "$e", c)
          /\ heap' = Swept(heap, envs')
          /\ frames' = Append(SubSeq(frames, 1, t - 1),
                              Frame("recover", frames[t].own, RecoveryEnv(frames[t]), c, {}))
          /\ made' = made
    BY <1>3 DEF Throw
  <2>3. t \in 1..Len(envs) /\ frames[t].kind = "try"
    BY <1>1, <2>1
  <2> HIDE DEF t
  <2>4. frames[t].own = t
    BY <2>3 DEF IInv, FramesOK
  <2>5. Caught(t, c)
    BY <2>2, <2>3, <2>4 DEF Caught, RecoveryEnv
  <2>6. QED BY <2>5, CaughtInv
<1>4. QED BY <1>2, <1>3

LEMMA InitInv == ASSUME Init PROVE IInv
<1> DEFINE g == [parent |-> 0, map |-> NoMap, serial |-> 1]
           f == Frame("global", 1, 1, Unset, {})
<1>1. g \in EnvType /\ g.map = NoMap /\ g.parent = 0
  BY NoMapType DEF EnvType, CellOrUnset
<1>2. f \in FrameType /\ f.kind = "global" /\ f.own = 1 /\ f.env = 1
  BY DEF Frame, FrameType, Kinds
<1>3. envs = <<g>> /\ frames = <<f>> /\ heap = [c \in Cells |-> Plain] /\ made = 1
  BY DEF Init
<1> HIDE DEF g, f
<1>4. /\ envs \in Seq(EnvType) /\ Len(envs) = 1 /\ envs[1] = g
      /\ frames \in Seq(FrameType) /\ Len(frames) = 1 /\ frames[1] = f
      /\ \A i \in 1..1 : i = 1
  BY <1>1, <1>2, <1>3
<1>5. \A i \in 1..1 : \A x \in Vars : envs[i].map[x] = Unset
  BY <1>1, <1>4, NoMapType
<1>6. FramesOK(frames, 1)
  BY <1>2, <1>4 DEF FramesOK
<1>7. heap \in [Cells -> ValueType] /\ \A c \in Cells : heap[c] = Plain
  BY <1>3, ValueTypes
<1>8. Unshared(envs) /\ ErrorApart(envs) /\ ErrorsInside(envs, frames) /\ Local(envs, heap)
  BY <1>4, <1>5, Constants DEF Unshared, ErrorApart, ErrorsInside, Local
<1>9. Static(envs, frames)
  BY <1>2, <1>4 DEF Static
<1>10. Unnamed(envs, heap) /\ made \in Nat
  BY <1>3, <1>7 DEF Unnamed
<1>11. QED BY <1>4, <1>6, <1>7, <1>8, <1>9, <1>10 DEF IInv

LEMMA NextInv == ASSUME IInv, [Next]_vars PROVE IInv'
<1>1. CASE UNCHANGED vars
  BY <1>1 DEF vars, IInv
<1>2. CASE Next
  BY <1>2, AssignInv, UpdateInv, DropInv, DefineInv, CallInv, BlockInv, ReturnInv, ThrowInv
     DEF Next
<1>3. QED BY <1>1, <1>2

-----------------------------------------------------------------------------
(***************************************************************************)
(* The theorems.                                                           *)
(***************************************************************************)

\* The inductive invariant holds.
THEOREM ScopesHold == Spec => []IInv
<1>1. QED BY InitInv, NextInv, PTL DEF Spec

\* Whatever the program does, the builtin being executed uses an environment
\* that exists, and every name is bound to a cell or to nothing
\* (environment.cpp, lambdas.cpp, common.cpp, excepts.cpp).
THEOREM ScopesTyped == Spec => []TypeOK
<1>1. ASSUME IInv PROVE TypeOK
  <2>1. \A i \in DOMAIN frames : frames[i].own \in DOMAIN envs /\ frames[i].env \in 1..frames[i].own
    BY <1>1, Facts DEF IInv, FramesOK
  <2>2. frames # << >>
    BY <1>1, Facts
  <2>3. QED BY <1>1, <2>1, <2>2 DEF IInv, FramesOK, TypeOK, ValueType
<1>2. QED BY <1>1, ScopesHold, PTL

\* However functions are called, defined and left, two names that are not
\* parameters never have the same cell, not even one that is used again
\* (environment_modifiers.cpp: `:=' clones; lambdas.cpp: a call shares).
THEOREM CellsUnshared == Spec => []OnlyArgumentsShared
<1>1. ASSUME IInv PROVE OnlyArgumentsShared
  BY <1>1, Facts DEF IInv, Unshared, OnlyArgumentsShared
<1>2. QED BY <1>1, ScopesHold, PTL

\* An error is bound only in the environment of an active recovery, also when
\* recoveries nest or are themselves left by an exception (excepts.cpp).
THEOREM ErrorsStayInside == Spec => []ErrorStaysInside
<1>1. ASSUME IInv PROVE ErrorStaysInside
  <2>1. ASSUME NEW i \in DOMAIN envs, envs[i].map["$e"] # Unset
        PROVE  \E f \in DOMAIN frames : frames[f].kind = "recover" /\ frames[f].own = i
    <3>1. i \in 1..Len(envs) /\ i \in DOMAIN frames
      BY <1>1, Facts
    <3>2. frames[i].kind = "recover" /\ frames[i].own = i
      BY <1>1, <2>1, <3>1 DEF IInv, FramesOK, ErrorsInside
    <3>3. QED BY <3>1, <3>2
  <2>2. QED BY <2>1 DEF ErrorStaysInside
<1>2. QED BY <1>1, ScopesHold, PTL

\* If no function outlives the environment it was defined in, a call sees, for
\* as long as it lasts, the environments that were visible at the definition,
\* although a function only remembers where its environment was
\* (lambdas.cpp: env_c(fn_info.operating_env)).
THEOREM ScopingIsStatic == ASSUME ~Escapes PROVE Spec => []ScopeIsStatic
<1>1. ASSUME IInv PROVE ScopeIsStatic
  <2>1. Static(envs, frames) /\ DOMAIN frames = 1..Len(frames)
    BY <1>1, Facts DEF IInv
  <2>2. ASSUME NEW i \in DOMAIN frames, frames[i].kind = "call"
        PROVE  Serials(Visible(envs, frames[i].own) \ {frames[i].own}) = frames[i].chain
    <3>1. frames[i].own = i
      BY <1>1, Facts DEF IInv, FramesOK
    <3>2. SerialsOf(envs, Visible(envs, i) \ {i}) = frames[i].chain
      BY <2>1, <2>2 DEF Static
    <3>3. QED BY <3>1, <3>2 DEF Serials, SerialsOf
  <2>3. QED BY <2>2 DEF ScopeIsStatic
<1>2. QED BY <1>1, ScopesHold, PTL
=============================================================================
