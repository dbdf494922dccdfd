------------------------------- MODULE Cells --------------------------------
(***************************************************************************)
(* Cells, the reference-counted values of nibi (cell.cpp, cell.hpp), and   *)
(* the builtins that put them into variables and lists: `:=', `set',       *)
(* exchange, drop, push, pop, at, iter, spawn and split.  A list holds     *)
(* references to cells; what keeps two variables from sharing one is that  *)
(* each builtin clones at the right moment.                                *)
(*                                                                         *)
(* Every step is one instruction of the program, `:=' and `set' with their *)
(* arguments evaluated.  The cells made for literals and results last as   *)
(* long as the instruction does and are not cells of the model.            *)
(***************************************************************************)
EXTENDS Integers, FiniteSets, SequencesExt

CONSTANTS
  Names,      \* the variables of the program
  MaxLen,     \* bound: the length of a list
  MaxDepth,   \* bound: the depth of a value
  MaxCells,   \* bound: cells at a time
  SelfSets    \* programs set a place to a value that contains it, or push to what they iterate

ASSUME CellsAssumption == {MaxLen, MaxDepth, MaxCells} \subseteq Nat /\ SelfSets \in BOOLEAN

VARIABLES
  env,     \* the cell of each variable, or Nothing
  heap,    \* the content of each cell
  broken   \* update_from or iter read memory that had been freed

vars == <<env, heap, broken>>

Cells   == 1..MaxCells
NamesInOrder == SetToSeq(Names)
Nothing == 0

Number(n)   == [list |-> FALSE, n |-> n, items |-> << >>]
List(items) == [list |-> TRUE, n |-> 0, items |-> items]

\* The cells that are reached from a cell.
RECURSIVE Within(_, _)
Within(h, c) == {c} \union UNION {Within(h, i) : i \in Range(h[c].items)}

Live(e, h) == UNION {Within(h, e[x]) : x \in {n \in Names : e[n] # Nothing}}

\* The value a cell stands for.
RECURSIVE Value(_, _)
Value(h, c) == [h[c] EXCEPT !.items = [i \in DOMAIN h[c].items |-> Value(h, h[c].items[i])]]

V == INSTANCE Values WITH val <- [x \in Names |-> IF env[x] = Nothing
                                                  THEN [list |-> FALSE, n |-> -1, items |-> << >>]
                                                  ELSE Value(heap, env[x])]

\* The cell at a place: a variable, and `at' of the lists it is in.
RECURSIVE Follow(_, _)
Follow(c, path) ==
  IF path = << >> \/ c = Nothing THEN c
  ELSE IF Head(path) \in DOMAIN heap[c].items
       THEN Follow(heap[c].items[Head(path)], Tail(path)) ELSE Nothing

CellAt(place) == Follow(env[place.name], place.path)

(***************************************************************************)
(* clone.  "m" is a heap, the cells that may be taken from it, and the     *)
(* cell made last.  Operators that make cells give the set of what the     *)
(* memory may become: it is empty when there are not cells enough.         *)
(***************************************************************************)
Memory == [heap |-> heap, free |-> Cells \ Live(env, heap), cell |-> Nothing]

\* allocate_cell
Allocate(m, content) ==
  {[heap |-> [m.heap EXCEPT ![c] = content], free |-> m.free \ {c}, cell |-> c] :
     c \in {f \in m.free : \A g \in m.free : f <= g}}

\* Make is applied to one of the cells after the other.
Each(m, cells, Make(_, _)) ==
  FoldLeft(LAMBDA done, c : UNION {{[memory |-> r, items |-> Append(d.items, r.cell)] :
                                      r \in Make(d.memory, c)} : d \in done},
           {[memory |-> m, items |-> << >>]}, cells)

RECURSIVE Clone(_, _)
Clone(m, c) ==
  UNION {{[r.memory EXCEPT !.heap[new.cell].items = r.items, !.cell = new.cell] :
            r \in Each(new, m.heap[c].items, Clone)} : new \in Allocate(m, m.heap[c])}

\* A new list of clones.
ListOf(m, cells) == UNION {Allocate(r.memory, List(r.items)) : r \in Each(m, cells, Clone)}

\* Mutant of SpawnOf: the copies of a spawned list stay one cell.
SpawnShared(m, c) == UNION {Allocate(r, List(<<r.cell, r.cell>>)) : r \in Clone(m, c)}

\* (spawn x 2): two references to one clone, which is cloned twice when the
\* list is.
SpawnOf(m, c) == ListOf(m, <<c, c>>)

\* (split x 1)
SplitOf(m, c) ==
  UNION {Allocate(r.memory, List(r.items)) :
           r \in Each(m, m.heap[c].items, LAMBDA k, i : ListOf(k, <<i>>))}

\* The clone of what an expression evaluates to.
Evaluated(m, e) ==
  CASE e.kind = "zero"  -> Allocate(m, Number(0))
    [] e.kind = "one"   -> Allocate(m, Number(1))
    [] e.kind = "empty" -> Allocate(m, List(<< >>))
    [] e.kind = "item"  -> Clone(m, CellAt(e.place))
    [] e.kind = "wrap"  -> ListOf(m, <<CellAt(e.place)>>)
    [] e.kind = "spawn" -> SpawnOf(m, CellAt(e.place))
    [] e.kind = "split" -> SplitOf(m, CellAt(e.place))

Evaluates(e) ==
  e.kind \in {"item", "wrap", "spawn", "split"} =>
    CellAt(e.place) # Nothing /\ (e.kind = "split" => heap[CellAt(e.place)].list)

\* The step ends with these variables and cells.  Cells that nothing refers to
\* are destroyed, and the others are numbered in the order in which they are
\* reached: no program can tell their addresses.
RECURSIVE Depth(_, _), Walk(_, _)
Depth(h, c) == 1 + Max({0} \union {Depth(h, i) : i \in Range(h[c].items)})
Walk(h, c)  == <<c>> \o FlattenSeq([i \in DOMAIN h[c].items |-> Walk(h, h[c].items[i])])

Order(e, h) ==
  LET walk == FlattenSeq([i \in DOMAIN NamesInOrder |->
                IF e[NamesInOrder[i]] = Nothing THEN << >> ELSE Walk(h, e[NamesInOrder[i]])])
  IN FoldLeft(LAMBDA acc, c : IF c \in Range(acc) THEN acc ELSE Append(acc, c), << >>, walk)

Becomes(e, h) ==
  \E order \in {Order(e, h)} :
    LET place(c) == CHOOSE i \in DOMAIN order : order[i] = c IN
    /\ \A c \in Range(order) : Len(h[c].items) <= MaxLen
    /\ \A x \in Names : e[x] # Nothing => Depth(h, e[x]) <= MaxDepth
    /\ env' = [x \in Names |-> IF e[x] = Nothing THEN Nothing ELSE place(e[x])]
    /\ heap' = [i \in Cells |-> IF i \notin DOMAIN order THEN Number(0)
                 ELSE [h[order[i]] EXCEPT !.items = [k \in DOMAIN @ |-> place(@[k])]]]

(***************************************************************************)
(* Builtins.                                                               *)
(***************************************************************************)
Assign(x, e) ==
  /\ \E m \in Evaluated(Memory, e) : Becomes([env EXCEPT ![x] = m.cell], m.heap)
  /\ UNCHANGED broken

\* update_from empties the cell before it clones the other one: one that
\* contains the cell is read after it was freed.
Breaks(c, e) ==
  /\ e.kind \in {"item", "wrap"} /\ c \in Within(heap, CellAt(e.place))
  /\ e.kind = "item" => heap[CellAt(e.place)].list

\* Mutant of Updated: the items of the other list are not cloned.
UpdatedShares(m, c, e) ==
  IF e.kind = "item" THEN {[m EXCEPT !.heap[c] = m.heap[CellAt(e.place)], !.cell = c]}
  ELSE {[r EXCEPT !.heap[c] = r.heap[r.cell]] : r \in Evaluated(m, e)}

Updated(m, c, e) == {[r EXCEPT !.heap[c] = r.heap[r.cell]] : r \in Evaluated(m, e)}

Set(place, e) ==
  \E c \in {CellAt(place)} \ {Nothing} :
    IF Breaks(c, e)
    THEN SelfSets /\ broken' = TRUE /\ UNCHANGED <<env, heap>>
    ELSE /\ \E m \in Updated(Memory, c, e) : Becomes(env, m.heap)
         /\ UNCHANGED broken

\* (:= x (exchange place e)): the old content is cloned before the update.
Exchange(x, place, e) ==
  \E c \in {CellAt(place)} \ {Nothing} :
    /\ ~ Breaks(c, e)
    /\ \E old \in Clone(Memory, c) : \E m \in Updated(old, c, e) :
         Becomes([env EXCEPT ![x] = old.cell], m.heap)
    /\ UNCHANGED broken

\* Mutant of Listed: the type of the cell is not checked.
ListedAny(c) == c # Nothing

\* as_list_info
Listed(c) == c # Nothing /\ heap[c].list

Push(place, e, Extended(_, _)) ==
  \E c \in {CellAt(place)} :
    /\ Listed(c)
    /\ \E m \in Evaluated(Memory, e) :
         Becomes(env, [m.heap EXCEPT ![c].items = Extended(@, m.cell)])
    /\ UNCHANGED broken

PushBack(place, e)  == Push(place, e, Append)
PushFront(place, e) == Push(place, e, LAMBDA items, i : <<i>> \o items)

Pop(place, Rest(_)) ==
  \E c \in {CellAt(place)} :
    /\ Listed(c) /\ heap[c].items # << >>
    /\ Becomes(env, [heap EXCEPT ![c].items = Rest(@)])
    /\ UNCHANGED broken

PopBack(place)  == Pop(place, Front)
PopFront(place) == Pop(place, Tail)

\* (iter place i (set i e)): what is bound is the item, not a clone of it
IterSet(place, e) ==
  \E c \in {CellAt(place)} :
    /\ Listed(c) /\ e.kind \in {"zero", "one", "empty"}
    /\ \E m \in FoldLeft(LAMBDA ms, i : UNION {Updated(m, i, e) : m \in ms}, {Memory}, heap[c].items) :
         Becomes(env, m.heap)
    /\ UNCHANGED broken

\* (iter place i (|< other i)): the loop keeps an iterator into the list
PushedTo(ms, d, i) ==
  UNION {{[r EXCEPT !.heap[d].items = Append(@, r.cell)] : r \in Clone(m, i)} : m \in ms}
IterPush(place, other) ==
  \E c \in {CellAt(place)}, d \in {CellAt(other)} :
    /\ Listed(c) /\ Listed(d)
    /\ IF c = d /\ heap[c].items # << >>
       THEN SelfSets /\ broken' = TRUE /\ UNCHANGED <<env, heap>>
       ELSE /\ \E m \in FoldLeft(LAMBDA ms, i : PushedTo(ms, d, i), {Memory}, heap[c].items) :
                 Becomes(env, m.heap)
            /\ UNCHANGED broken

Drop(x) == env[x] # Nothing /\ Becomes([env EXCEPT ![x] = Nothing], heap) /\ UNCHANGED broken

Init ==
  /\ env = [x \in Names |-> Nothing]
  /\ heap = [c \in Cells |-> Number(0)]
  /\ broken = FALSE

Next ==
  \/ \E e \in V!Expressions :
       /\ Evaluates(e)
       /\ \/ \E x \in Names : Assign(x, e)
          \/ \E place \in V!Places : Set(place, e) \/ PushBack(place, e) \/ PushFront(place, e)
                                     \/ IterSet(place, e)
          \/ \E x \in Names, place \in V!Places : Exchange(x, place, e)
  \/ \E place \in V!Places : PopBack(place) \/ PopFront(place) \/ \E other \in V!Places : IterPush(place, other)
  \/ \E x \in Names : Drop(x)

Spec == Init /\ [][Next]_vars

(***************************************************************************)
(* Properties.                                                             *)
(***************************************************************************)

\* Every variable has its type, and the content of a cell is what its type says
\* it is.
TypeOK ==
  /\ env \in [Names -> Cells \union {Nothing}]
  /\ \A c \in Cells : IF heap[c].list THEN heap[c].items \in Seq(Cells) /\ heap[c].n = 0
                      ELSE heap[c].items = << >> /\ heap[c].n \in {0, 1}
  /\ broken \in BOOLEAN

\* The cells of variables and lists form trees: every cell is held by one
\* variable or is one item of one list, so its reference count reaches 0 when
\* that goes away, and no builtin changes what another variable shows.
Holders(c) == {<<x, 0>> : x \in {n \in Names : env[n] = c}}
                \union {<<d, i>> \in Cells \X (1..MaxLen) : i \in DOMAIN heap[d].items /\ heap[d].items[i] = c}

HeldOnce == \A c \in Live(env, heap) : Cardinality(Holders(c)) = 1

\* The cells implement values: whatever is assigned, pushed, spawned, split,
\* exchanged, set or iterated over, variables behave as if they held values of their own
\* ("deep copy the cell", cell.hpp).
ImplementsValues == V!Spec

\* update_from and iter do not read what has been freed (SelfSets).
NothingBroken == ~ broken
=============================================================================
