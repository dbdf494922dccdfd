------------------------------- MODULE Values -------------------------------
(***************************************************************************)
(* What the list and assignment builtins of nibi promise: every variable   *)
(* holds a value, a number or a list of values, and every builtin changes  *)
(* the value at one place.  There are no cells and nothing is shared.      *)
(***************************************************************************)
EXTENDS Integers, SequencesExt

CONSTANTS
  Names,   \* the variables of the program
  MaxLen   \* bound: the length of a list

VARIABLE val   \* the value of each variable

Number(n)   == [list |-> FALSE, n |-> n, items |-> << >>]
List(items) == [list |-> TRUE, n |-> 0, items |-> items]
Unset       == [list |-> FALSE, n |-> -1, items |-> << >>]

\* What at and `set' can name: a variable, an item of it, an item of an item.
Paths  == UNION {[1..k -> 1..MaxLen] : k \in 0..2}
Places == [name : Names, path : Paths]

RECURSIVE Has(_, _), At(_, _), Put(_, _, _)
Has(v, path)    == path = << >> \/ (Head(path) \in DOMAIN v.items /\ Has(v.items[Head(path)], Tail(path)))
At(v, path)     == IF path = << >> THEN v ELSE At(v.items[Head(path)], Tail(path))
Put(v, path, w) == IF path = << >> THEN w
                   ELSE [v EXCEPT !.items[Head(path)] = Put(@, Tail(path), w)]

ThereIn(vs, place) == vs[place.name] # Unset /\ Has(vs[place.name], place.path)
ValueIn(vs, place) == At(vs[place.name], place.path)

\* The expressions of the program: 0, 1, [], x, [x], (spawn x 2) and (split x 1).
Expressions ==
  {[kind |-> k, place |-> << >>] : k \in {"zero", "one", "empty"}}
    \union [kind : {"item", "wrap", "spawn", "split"}, place : Places]

Evaluates(vs, e) ==
  e.kind \in {"item", "wrap", "spawn", "split"} =>
    ThereIn(vs, e.place) /\ (e.kind = "split" => ValueIn(vs, e.place).list)

Evaluated(vs, e) ==
  CASE e.kind = "zero"  -> Number(0)
    [] e.kind = "one"   -> Number(1)
    [] e.kind = "empty" -> List(<< >>)
    [] e.kind = "item"  -> ValueIn(vs, e.place)
    [] e.kind = "wrap"  -> List(<<ValueIn(vs, e.place)>>)
    [] e.kind = "spawn" -> List(<<ValueIn(vs, e.place), ValueIn(vs, e.place)>>)
    [] e.kind = "split" -> List([i \in DOMAIN ValueIn(vs, e.place).items |->
                                   List(<<ValueIn(vs, e.place).items[i]>>)])

Replaced(place, v) == [val EXCEPT ![place.name] = Put(@, place.path, v)]

Assign(x, e) == val' = [val EXCEPT ![x] = Evaluated(val, e)]

Set(place, e) == val' = Replaced(place, Evaluated(val, e))

\* (:= x (exchange place e))
Exchange(x, place, e) ==
  val' = [Replaced(place, Evaluated(val, e)) EXCEPT ![x] = ValueIn(val, place)]

Listed(place) == ThereIn(val, place) /\ ValueIn(val, place).list
Items(place)  == ValueIn(val, place).items

PushBack(place, e)  == val' = Replaced(place, List(Append(Items(place), Evaluated(val, e))))
PushFront(place, e) == val' = Replaced(place, List(<<Evaluated(val, e)>> \o Items(place)))
PopBack(place)      == Items(place) # << >> /\ val' = Replaced(place, List(Front(Items(place))))
PopFront(place)     == Items(place) # << >> /\ val' = Replaced(place, List(Tail(Items(place))))

\* (iter place i (set i e))
IterSet(place, e) ==
  /\ e.kind \in {"zero", "one", "empty"}
  /\ val' = Replaced(place, List([i \in DOMAIN Items(place) |-> Evaluated(val, e)]))

\* (iter place i (|< other i))
IterPush(place, other) ==
  LET Pushed(vs, i) ==
        LET v == ValueIn(vs, other)
            w == ValueIn(vs, [place EXCEPT !.path = Append(@, i)])
        IN [vs EXCEPT ![other.name] = Put(@, other.path, List(Append(v.items, w)))]
  IN place # other /\ val' = FoldLeft(Pushed, val, [i \in DOMAIN Items(place) |-> i])

Drop(x) == val[x] # Unset /\ val' = [val EXCEPT ![x] = Unset]

Init == val = [x \in Names |-> Unset]

Next ==
  \/ \E e \in Expressions :
       /\ Evaluates(val, e)
       /\ \/ \E x \in Names : Assign(x, e)
          \/ \E place \in Places :
               /\ ThereIn(val, place)
               /\ Set(place, e) \/ \E x \in Names : Exchange(x, place, e)
          \/ \E place \in Places : Listed(place) /\ (PushBack(place, e) \/ PushFront(place, e) \/ IterSet(place, e))
  \/ \E place \in Places : Listed(place) /\ (PopBack(place) \/ PopFront(place))
  \/ \E place, other \in Places : Listed(place) /\ Listed(other) /\ IterPush(place, other)
  \/ \E x \in Names : Drop(x)

Spec == Init /\ [][Next]_val
=============================================================================
