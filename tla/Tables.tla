------------------------------- MODULE Tables -------------------------------
(***************************************************************************)
(* What programs see of variables, aliases and dictionaries: objects that  *)
(* refer to one another and are there as long as something reaches them.   *)
(* No counts, no environments, nothing is ever destroyed by hand.          *)
(*                                                                         *)
(* A dictionary is a reference to a table: `:=' copies the reference, an   *)
(* entry is the object that was put there and not a copy of it.            *)
(***************************************************************************)
EXTENDS Integers, Sequences, TLC

CONSTANTS Names, Keys, Numbers, Objects

VARIABLES
  bound,    \* the object of each variable, or Nothing
  store,    \* the objects that are there
  waiting   \* the `:let's whose value is being computed: table and key, innermost last

vars == <<bound, store, waiting>>

Nothing == 0
NoKeys  == [k \in Keys |-> Nothing]

Plain(n)   == [kind |-> "plain", n |-> n, to |-> Nothing, at |-> NoKeys]
Dict(t)    == [kind |-> "dict", n |-> Nothing, to |-> t, at |-> NoKeys]
Table(f)   == [kind |-> "table", n |-> Nothing, to |-> Nothing, at |-> f]
AliasOf(c) == [kind |-> "alias", n |-> Nothing, to |-> c, at |-> NoKeys]

\* the objects an object refers to, and all that some objects reach
Refers(o) == ({o.to} \union {o.at[k] : k \in Keys}) \ {Nothing}
RECURSIVE Reached(_, _)
Reached(s, S) ==
  LET more == S \union UNION {Refers(s[c]) : c \in S}
  IN IF more = S THEN S ELSE Reached(s, more)

Roots(b, w) == ({b[x] : x \in Names} \ {Nothing})
               \union UNION {{w[i].fn, w[i].table} : i \in DOMAIN w}

\* an instruction has been executed: what nothing reaches is not there
After(s) == store' = [c \in Reached(s, Roots(bound', waiting')) |-> s[c]]
Bind(x, c) == bound' = [bound EXCEPT ![x] = c] /\ UNCHANGED waiting
Same == UNCHANGED <<bound, waiting>>

New(c)     == c \notin DOMAIN store
With(c, o) == (c :> o) @@ store

\* the end of a chain of aliases
RECURSIVE Chase(_)
Chase(c) == IF store[c].kind = "alias" THEN Chase(store[c].to) ELSE c

\* the dictionary a variable names, itself or by an alias
DictOf(x) ==
  LET c == bound[x]
      d == IF c # Nothing /\ store[c].kind = "alias" THEN store[c].to ELSE c
  IN IF d # Nothing /\ store[d].kind = "dict" THEN d ELSE Nothing

\* what an expression can yield: variables and `:get'
Readable ==
  ({bound[x] : x \in Names} \union
   UNION {{store[store[DictOf(x)].to].at[k] : k \in Keys} : x \in {y \in Names : DictOf(y) # Nothing}})
  \ {Nothing}

Init ==
  /\ bound = [x \in Names |-> Nothing] /\ store = << >> /\ waiting = << >>

\* `:=' makes the new object c
AssignLiteral(c, n) == After(With(c, Plain(n)))

AssignDict(c, t, f) == New(t) /\ After((t :> Table(f)) @@ With(c, Dict(t)))

Assign(c, d) == After(With(c, store[Chase(d)]))

Alias(c, d) == After(With(c, AliasOf(d)))

Set(c, d) ==
  /\ store[c].kind = "plain" /\ store[d].kind = "plain"
  /\ After([store EXCEPT ![c] = store[d]])

Drop(x) == bound[x] # Nothing /\ Bind(x, Nothing) /\ After(store)

BeginLet(x, k) ==
  /\ UNCHANGED bound /\ Len(waiting') = Len(waiting) + 1 /\ DictOf(x) # Nothing
  /\ waiting' = Append(waiting, [fn |-> DictOf(x), table |-> store[DictOf(x)].to, key |-> k])
  /\ After(store)

\* the `:let' that began last
Top == waiting[Len(waiting)]
Ending ==
  /\ UNCHANGED bound /\ waiting # << >>
  /\ waiting' = SubSeq(waiting, 1, Len(waiting) - 1)

EndLet(c) == After([store EXCEPT ![Top.table].at[Top.key] = c])

EndLetLiteral(n, c) ==
  New(c) /\ After([With(c, Plain(n)) EXCEPT ![Top.table].at[Top.key] = c])

AbortLet == After(store)

Del(x, k) ==
  /\ Same /\ DictOf(x) # Nothing
  /\ After([store EXCEPT ![store[DictOf(x)].to].at[k] = Nothing])

Next ==
  \/ \E x \in Names, c \in Objects :
       /\ Bind(x, c) /\ New(c)
       /\ \/ \E n \in Numbers : AssignLiteral(c, n)
          \/ \E t \in Objects \ {c} : AssignDict(c, t, NoKeys)
          \/ \E d \in Readable :
               \/ Assign(c, d) \/ Alias(c, d)
               \/ \E t \in Objects \ {c}, k \in Keys : AssignDict(c, t, [NoKeys EXCEPT ![k] = d])
  \/ \E x \in Names : Drop(x) \/ \E k \in Keys : BeginLet(x, k) \/ Del(x, k)
  \/ Same /\ \E c, d \in Readable : Set(c, d)
  \/ Ending /\ \/ \E c \in Readable : EndLet(c)
               \/ \E c \in Objects, n \in Numbers : EndLetLiteral(n, c)
               \/ AbortLet

Spec == Init /\ [][Next]_vars
=============================================================================
