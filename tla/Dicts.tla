-------------------------------- MODULE Dicts --------------------------------
(***************************************************************************)
(* Dictionaries and aliases (environment_modifiers.cpp) as reference       *)
(* counted cells (ref.hpp, cell.cpp).  A dictionary is a FAUX function     *)
(* cell that owns an environment whose `$data' is the cell of the table;   *)
(* an alias is a cell that holds another one.  Lists are the subject of    *)
(* Cells; macros own their environments as dictionaries do.                *)
(*                                                                         *)
(* A step is one instruction, or the destruction of one reference.  The    *)
(* value of `(d :let k value)' may be any instruction, so that one begins  *)
(* and ends: handle_dict_access has looked up d's cells when other         *)
(* instructions run, and keeps them by reference.  Cells that last no      *)
(* longer than the instruction that makes them (the one `dict' returns and *)
(* `:=' clones) are not cells of the model.                                *)
(***************************************************************************)
EXTENDS Integers, Sequences, FiniteSets, TLC

CONSTANTS
  Names, Keys, Numbers,
  Careless,    \* programs `set' dictionaries and aliases
  Knots,       \* programs put a dictionary into itself
  MaxCells,    \* bound: cells at a time
  MaxEnvs,     \* bound: environments of dictionaries at a time
  MaxWaiting   \* bound: `:let's inside one another

\* names and numbers are told apart by nothing else
Symmetry == Permutations(Names) \union Permutations(Numbers)

ASSUME DictsAssumption ==
  {MaxCells, MaxEnvs, MaxWaiting} \subseteq Nat /\ {Careless, Knots} \subseteq BOOLEAN

VARIABLES
  bound,     \* the cell of each variable, or Nothing
  heap,      \* the cells: type, content, ref_count_
  envs,      \* the environments of FAUX functions: the cell `$data', or Nothing
  waiting,   \* the `:let's begun: definition, dict and key
  released,  \* the references being destroyed
  broken     \* freed memory was used, or read as what it is not

vars == <<bound, heap, envs, waiting, released, broken>>

Cells   == 1 .. MaxCells
Envs    == 1 .. MaxEnvs
Nothing == 0
NoKeys  == [k \in Keys |-> Nothing]

Cell(kind, n, to, at) == [kind |-> kind, n |-> n, to |-> to, at |-> at, count |-> 1]
Plain(n)   == Cell("plain", n, Nothing, NoKeys)
Faux(e)    == Cell("faux", Nothing, e, NoKeys)
Table(f)   == Cell("table", Nothing, Nothing, f)
AliasOf(c) == Cell("alias", Nothing, c, NoKeys)
Free       == [Cell("free", Nothing, Nothing, NoKeys) EXCEPT !.count = 0]

Live     == {c \in Cells : heap[c].kind # "free"}
LiveEnvs == {e \in Envs : envs[e] # Nothing}
Data(c)  == envs[heap[c].to]

Init ==
  /\ bound = [x \in Names |-> Nothing] /\ heap = [c \in Cells |-> Free]
  /\ envs = [e \in Envs |-> Nothing] /\ waiting = << >> /\ released = << >> /\ broken = FALSE

\* allocate_cell, new env_c: any free one will do
IsNew(c)    == c \notin Live /\ \A d \in 1 .. c - 1 : d \in Live
IsNewEnv(e) == e \notin LiveEnvs /\ \A d \in 1 .. e - 1 : d \in LiveEnvs

\* an instruction is executed; ref_counted_ptr_c::acquire of the cells in S
Ready      == released = << >> /\ ~ broken
Acquire(h, c)  == IF c = Nothing THEN h ELSE [h EXCEPT ![c].count = @ + 1]
Release(cs)    == released' = SelectSeq(cs, LAMBDA c : c # Nothing)

\* env_c::set
Bind(x, c) == bound' = [bound EXCEPT ![x] = c] /\ Release(<<bound[x]>>)

\* process_cell of a call's operator: an alias is followed once
DictOf(x) ==
  LET c == bound[x]
      d == IF c # Nothing /\ heap[c].kind = "alias" THEN heap[c].to ELSE c
  IN IF d # Nothing /\ heap[d].kind = "faux" THEN d ELSE Nothing

\* what an expression can yield: variables and `:get'
Entries(x) == IF DictOf(x) = Nothing THEN {} ELSE {heap[Data(DictOf(x))].at[k] : k \in Keys}
Readable   == ({bound[x] : x \in Names} \union UNION {Entries(x) : x \in Names}) \ {Nothing}

\* the cells a cell keeps alive
Keeps(c) == CASE heap[c].kind = "faux" -> {Data(c)}
              [] heap[c].kind = "alias" -> {heap[c].to}
              [] OTHER -> {heap[c].at[k] : k \in Keys} \ {Nothing}
RECURSIVE Reached(_)
Reached(S) == LET more == S \union UNION {Keeps(c) : c \in S}
              IN IF more = S THEN S ELSE Reached(more)

------------------------------------------------------------------------------
(* := *)

AssignLiteral(x, n) ==
  /\ Ready
  /\ \E c \in Cells : IsNew(c) /\ heap' = [heap EXCEPT ![c] = Plain(n)] /\ Bind(x, c)
  /\ UNCHANGED <<envs, waiting, broken>>

\* dict; an entry is the cell its expression yields
AssignDict(x, f) ==
  /\ Ready
  /\ \E c, t \in Cells, e \in Envs :
       /\ IsNew(t) /\ c > t /\ c \notin Live /\ (t + 1 .. c - 1) \subseteq Live /\ IsNewEnv(e)
       /\ envs' = [envs EXCEPT ![e] = t]
       /\ heap' = [d \in Cells |->
            IF d = c THEN Faux(e) ELSE IF d = t THEN Table(f)
            ELSE [heap[d] EXCEPT !.count = @ + Cardinality({k \in Keys : f[k] = d})]]
       /\ Bind(x, c)
  /\ UNCHANGED <<waiting, broken>>

\* what a chain of aliases stands for
RECURSIVE Chase(_)
Chase(c) == IF heap[c].kind = "alias" THEN Chase(heap[c].to) ELSE c

\* Mutant of Clone: the environment of a clone copies its pointers without counting them.
CloneUnheld(c, d) ==
  \/ /\ heap[d].kind = "plain"
     /\ heap' = [heap EXCEPT ![c] = Plain(heap[d].n)] /\ UNCHANGED envs
  \/ /\ heap[d].kind = "faux"
     /\ \E e \in Envs :
          /\ IsNewEnv(e) /\ envs' = [envs EXCEPT ![e] = Data(d)]
          /\ heap' = [heap EXCEPT ![c] = Faux(e)]

\* clone: a FAUX function gets an environment of its own, which maps `$data' to
\* the same cell
Clone(c, d) ==
  \/ /\ heap[d].kind = "plain"
     /\ heap' = [heap EXCEPT ![c] = Plain(heap[d].n)] /\ UNCHANGED envs
  \/ /\ heap[d].kind = "faux"
     /\ \E e \in Envs :
          /\ IsNewEnv(e) /\ envs' = [envs EXCEPT ![e] = Data(d)]
          /\ heap' = [Acquire(heap, Data(d)) EXCEPT ![c] = Faux(e)]

\* Mutant of Assign: := does not clone.
AssignShares(x, d) ==
  /\ Ready /\ heap' = Acquire(heap, d) /\ Bind(x, d)
  /\ UNCHANGED <<envs, waiting, broken>>

Assign(x, d) ==
  /\ Ready
  /\ \E c \in Cells : IsNew(c) /\ Clone(c, Chase(d)) /\ Bind(x, c)
  /\ UNCHANGED <<waiting, broken>>

------------------------------------------------------------------------------
(* alias, set, drop *)

\* a variable is not aliased to itself
Alias(x, d) ==
  /\ Ready /\ \/ \E y \in Names \ {x} : bound[y] = d
              \/ \E y \in Names : d \in Entries(y)
  /\ \E c \in Cells :
       IsNew(c) /\ heap' = [Acquire(heap, d) EXCEPT ![c] = AliasOf(d)] /\ Bind(x, c)
  /\ UNCHANGED <<envs, waiting, broken>>

\* update_from: the function or the alias that was there is forgotten without its
\* environment or its reference; a function is copied with the pointer to its
\* environment; what is read from an alias is not one
Set(c, d) ==
  /\ Ready /\ (~ Careless => heap[c].kind = "plain" /\ heap[d].kind = "plain")
  /\ heap' = [heap EXCEPT ![c] = [heap[d] EXCEPT !.count = heap[c].count]]
  /\ broken' = (heap[d].kind = "alias")
  /\ UNCHANGED <<bound, envs, waiting, released>>

Drop(x) ==
  /\ Ready /\ bound[x] # Nothing
  /\ Bind(x, Nothing)
  /\ UNCHANGED <<heap, envs, waiting, broken>>

------------------------------------------------------------------------------
(* handle_dict_access *)

\* Mutant of BeginLet: `definition' and `dict' are pointers that do not count.
BeginLetUnheld(x, k) ==
  /\ Ready /\ DictOf(x) # Nothing /\ Len(waiting) < MaxWaiting
  /\ waiting' = Append(waiting, [fn |-> DictOf(x), table |-> Data(DictOf(x)), key |-> k])
  /\ UNCHANGED <<bound, heap, envs, released, broken>>

BeginLet(x, k) ==
  /\ Ready /\ DictOf(x) # Nothing /\ Len(waiting) < MaxWaiting
  /\ LET f == DictOf(x)
     IN /\ waiting' = Append(waiting, [fn |-> f, table |-> Data(f), key |-> k])
        /\ heap' = Acquire(Acquire(heap, f), Data(f))
  /\ UNCHANGED <<bound, envs, released, broken>>

Top == waiting[Len(waiting)]
Pop == waiting' = SubSeq(waiting, 1, Len(waiting) - 1)

\* the entry is the cell the value was, not a clone of it
Store(h, c) == [h EXCEPT ![Top.table].at[Top.key] = c]
EndLet(c) ==
  /\ Ready /\ waiting # << >> /\ (Knots \/ Top.table \notin Reached({c}))
  /\ heap' = Store(Acquire(heap, c), c) /\ Pop
  /\ Release(<<heap[Top.table].at[Top.key], Top.table, Top.fn>>)
  /\ UNCHANGED <<bound, envs, broken>>

EndLetLiteral(n) ==
  /\ Ready /\ waiting # << >>
  /\ \E c \in Cells : IsNew(c) /\ heap' = Store([heap EXCEPT ![c] = Plain(n)], c)
  /\ Pop /\ Release(<<heap[Top.table].at[Top.key], Top.table, Top.fn>>)
  /\ UNCHANGED <<bound, envs, broken>>

\* the value throws
AbortLet ==
  /\ Ready /\ waiting # << >>
  /\ Pop /\ Release(<<Top.table, Top.fn>>)
  /\ UNCHANGED <<bound, heap, envs, broken>>

Del(x, k) ==
  /\ Ready /\ DictOf(x) # Nothing
  /\ heap' = [heap EXCEPT ![Data(DictOf(x))].at[k] = Nothing]
  /\ Release(<<heap[Data(DictOf(x))].at[k]>>)
  /\ UNCHANGED <<bound, envs, waiting, broken>>

------------------------------------------------------------------------------
(* ref_counted_ptr_c::release and ~cell_c *)

\* what the destructor of a cell releases
Within(c) ==
  CASE heap[c].kind = "faux"  -> <<Data(c)>>
    [] heap[c].kind = "alias" -> <<heap[c].to>>
    [] heap[c].kind = "table" -> LET S == {k \in Keys : heap[c].at[k] # Nothing}
                                 IN CHOOSE s \in UNION {[1 .. Cardinality(S) -> Cells]} :
                                      \A d \in Cells : Cardinality({i \in DOMAIN s : s[i] = d})
                                                     = Cardinality({k \in S : heap[c].at[k] = d})
    [] OTHER -> << >>

\* Mutant of Destroy: ~cell_c does not delete operating_env.
DestroyKeepsEnv ==
  /\ released # << >> /\ ~ broken
  /\ LET c == Head(released)
     IN IF heap[c].count > 1
        THEN heap' = [heap EXCEPT ![c].count = @ - 1] /\ released' = Tail(released)
        ELSE /\ heap' = [heap EXCEPT ![c] = Free]
             /\ released' = (IF heap[c].kind = "faux" THEN << >> ELSE Within(c)) \o Tail(released)
  /\ UNCHANGED <<bound, envs, waiting, broken>>

Destroy ==
  /\ released # << >> /\ ~ broken
  /\ LET c == Head(released)
     IN IF heap[c].count > 1
        THEN /\ heap' = [heap EXCEPT ![c].count = @ - 1] /\ released' = Tail(released)
             /\ UNCHANGED <<envs, broken>>
        ELSE /\ heap' = [heap EXCEPT ![c] = Free]
             /\ released' = Within(c) \o Tail(released)
             /\ envs' = IF heap[c].kind = "faux" THEN [envs EXCEPT ![heap[c].to] = Nothing] ELSE envs
             /\ broken' = (\/ heap[c].kind = "free"
                           \/ heap[c].kind = "faux" /\ Data(c) = Nothing)
  /\ UNCHANGED <<bound, waiting>>

Next ==
  \/ \E x \in Names :
       \/ \E n \in Numbers : AssignLiteral(x, n)
       \/ AssignDict(x, NoKeys) \/ Drop(x)
       \/ \E c \in Readable :
            \/ Assign(x, c) \/ Alias(x, c)
            \/ \E k \in Keys : AssignDict(x, [NoKeys EXCEPT ![k] = c])
       \/ \E k \in Keys : BeginLet(x, k) \/ Del(x, k)
  \/ \E c, d \in Readable : Set(c, d)
  \/ \E c \in Readable : EndLet(c)
  \/ \E n \in Numbers : EndLetLiteral(n)
  \/ AbortLet \/ Destroy

Spec == Init /\ [][Next]_vars

------------------------------------------------------------------------------
(* Properties *)

\* Every variable has its type, and what refers to a cell refers to one.
TypeOK ==
  /\ bound \in [Names -> Live \union {Nothing}]
  /\ heap \in [Cells -> [kind : {"plain", "faux", "table", "alias", "free"}, n : Numbers \union {Nothing},
                         to : Nat, at : [Keys -> Live \union {Nothing}], count : Nat]]
  /\ envs \in [Envs -> Live \union {Nothing}]
  /\ \A i \in DOMAIN waiting : {waiting[i].fn, waiting[i].table} \subseteq Live
  /\ \A c \in Live : /\ heap[c].kind = "faux" => heap[c].to \in LiveEnvs
                     /\ heap[c].kind = "alias" => heap[c].to \in Live

\* A cell's count is the number of places that hold it: variables, entries,
\* aliases, environments, accesses in progress, references being destroyed.
Holders(c) ==
  Cardinality({x \in Names : bound[x] = c})
  + Cardinality({p \in Cells \X Keys : heap[p[1]].at[p[2]] = c})
  + Cardinality({a \in Cells : heap[a].kind = "alias" /\ heap[a].to = c})
  + Cardinality({e \in Envs : envs[e] = c})
  + Cardinality({i \in DOMAIN waiting : waiting[i].fn = c})
  + Cardinality({i \in DOMAIN waiting : waiting[i].table = c})
  + Cardinality({i \in DOMAIN released : released[i] = c})
CountsAgree == ~ broken /\ \A c \in Cells : heap[c].count = Holders(c)

\* Between instructions there is no cell the program cannot reach, and every
\* environment has one cell that will delete it.
Roots == ({bound[x] : x \in Names} \ {Nothing})
         \union UNION {{waiting[i].fn, waiting[i].table} : i \in DOMAIN waiting}
NothingLeaks ==
  released = << >> /\ ~ broken =>
    /\ Live = Reached(Roots)
    /\ \A e \in LiveEnvs : Cardinality({c \in Live : heap[c].kind = "faux" /\ heap[c].to = e}) = 1

\* With its counts and destructors the heap is what Tables promises: the cells
\* that can be reached, each what it was made or set to, whatever is dropped,
\* deleted or replaced while a `:let' computes its value.
Seen(c) ==
  [kind |-> IF heap[c].kind = "faux" THEN "dict" ELSE heap[c].kind, n |-> heap[c].n,
   to |-> IF heap[c].kind = "faux" THEN Data(c) ELSE heap[c].to, at |-> heap[c].at]
T == INSTANCE Tables WITH Objects <- Cells, store <- [c \in Reached(Roots) |-> Seen(c)]
ImplementsTables == T!Spec
==============================================================================
