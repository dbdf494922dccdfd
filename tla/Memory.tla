------------------------------- MODULE Memory -------------------------------
(***************************************************************************)
(* Pointer cells and the memory builtins (memory.cpp): mem-new, mem-del,   *)
(* mem-cpy of integers and of memory, and mem-load, together with the      *)
(* integer builtins that make what is copied and use what is loaded.       *)
(* Every step is one instruction.  One that throws changes nothing, except *)
(* where it is said.                                                       *)
(***************************************************************************)
EXTENDS Numbers, Sequences, FiniteSets

CONSTANTS
  Nums,       \* variables that hold an integer
  Ptrs,       \* variables that hold a pointer
  Literals,   \* the integers in the program's text
  MaxBlocks,  \* bound: blocks of memory at a time
  Aliases,    \* programs assign a pointer to another variable
  Odd,        \* cells that programs copy and copy_cell_into_memory has no case for
  Careless    \* programs load or copy more than a block holds, or to itself

ASSUME MemoryAssumption ==
  /\ Literals \subseteq Int /\ MaxBlocks \in Nat /\ {Aliases, Careless} \subseteq BOOLEAN
  /\ \A c \in Odd : c.type \notin Types

VARIABLES
  num,     \* the cell of each integer variable
  ptr,     \* the block each pointer variable points to, or Null
  block,   \* the blocks of the heap
  status   \* "run", "trapped" by the processor, or "invalid" after an invalid access

vars == <<num, ptr, block, status>>

Blocks == 1..MaxBlocks
Null   == 0
Junk   == -1   \* a byte that was never written
Unsaid == [type |-> "none", value |-> 0]
Free   == [used |-> FALSE, bytes |-> << >>, stored |-> Unsaid]

\* "stored" (a history) is the integer that was copied into the block.
Used(bytes, stored) == [used |-> TRUE, bytes |-> bytes, stored |-> stored]

Running  == status = "run"
Fail(s)  == status' = s /\ UNCHANGED <<num, ptr, block>>
Invalid  == Careless /\ Fail("invalid")

(***************************************************************************)
(* Integers.                                                               *)
(***************************************************************************)
Operands == {num[x] : x \in Nums} \union {Int64(v) : v \in Literals}

\* (:= x (t c))
Convert(x, t, c) ==
  /\ Running /\ Converts(t, c)
  /\ num' = [num EXCEPT ![x] = Converted(t, c)]
  /\ UNCHANGED <<ptr, block, status>>

\* (:= x (op c d))
Compute(x, op, c, d) ==
  /\ Running /\ ~ Throws(op, AsInteger(d))
  /\ IF Traps(op, AsInteger(c), AsInteger(d)) THEN Fail("trapped")
     ELSE /\ num' = [num EXCEPT ![x] = Computed(op, c, d)]
          /\ UNCHANGED <<ptr, block, status>>

(***************************************************************************)
(* Memory.                                                                 *)
(***************************************************************************)

\* The heap after free(ptr[p]).
Freed(p) == IF ptr[p] = Null THEN block ELSE [block EXCEPT ![ptr[p]] = Free]
Valid(p) == ptr[p] # Null => block[ptr[p]].used

\* malloc
Unused(heap) == {b \in Blocks : ~ heap[b].used}

New(p, n) ==
  /\ Running
  /\ \E b \in Unused(block) :
       /\ ptr' = [ptr EXCEPT ![p] = b]
       /\ block' = [block EXCEPT ![b] = Used([i \in 1..n |-> Junk], Unsaid)]
  /\ UNCHANGED <<num, status>>

\* (:= p (mem-new nil)), and (:= p q), which shares the block.
Point(p) ==
  /\ Running
  /\ \E b \in {Null} \union (IF Aliases THEN {ptr[q] : q \in Ptrs} ELSE {}) : ptr' = [ptr EXCEPT ![p] = b]
  /\ UNCHANGED <<num, block, status>>

\* Mutant of Del: the cell keeps the address.
DelKeeps(p) ==
  /\ Running
  /\ IF ~ Valid(p) THEN Fail("invalid")
     ELSE block' = Freed(p) /\ UNCHANGED <<num, ptr, status>>

Del(p) ==
  /\ Running
  /\ IF ~ Valid(p) THEN Fail("invalid")
     ELSE /\ block' = Freed(p) /\ ptr' = [ptr EXCEPT ![p] = Null]
          /\ UNCHANGED <<num, status>>

\* Mutant of Encoded: only the lowest byte is written.
EncodedByte(v, n) == [i \in 1..n |-> IF i = 1 THEN v % Byte ELSE 0]

Encoded(v, n) == [i \in 1..n |-> (v \div Bytes(i - 1)) % Byte]
Decoded(bytes) ==
  LET Sum[i \in 0..Len(bytes)] == IF i = 0 THEN 0 ELSE Sum[i - 1] + bytes[i] * Bytes(i - 1)
  IN Sum[Len(bytes)]

\* dest is freed, and then given a new block with these bytes.
Refill(p, bytes, stored) ==
  \E b \in Unused(Freed(p)) :
    /\ block' = [Freed(p) EXCEPT ![b] = Used(bytes, stored)]
    /\ ptr' = [ptr EXCEPT ![p] = b]
    /\ UNCHANGED <<num, status>>

\* (mem-cpy c p).  A char has no case in the switch: it throws, but only after it
\* has freed p's block.
CopyCell(c, p) ==
  /\ Running
  /\ IF ~ Valid(p) THEN Fail("invalid")
     ELSE IF c \in Odd THEN block' = Freed(p) /\ UNCHANGED <<num, ptr, status>>
     ELSE Refill(p, Encoded(AsInteger(c) % Bytes(Size[c.type]), Size[c.type]),
                 [type |-> c.type, value |-> Printed(c)])

\* (mem-cpy q p n), which throws for no n.
CopyMemory(q, p, n) ==
  /\ Running
  /\ IF ~ Valid(p) THEN Fail("invalid")
     ELSE IF ptr[q] = Null \/ ptr[q] = ptr[p] \/ ~ Valid(q) \/ n > Len(block[ptr[q]].bytes)
     THEN Invalid
     ELSE Refill(p, SubSeq(block[ptr[q]].bytes, 1, n),
                 IF n = Len(block[ptr[q]].bytes) THEN block[ptr[q]].stored ELSE Unsaid)

\* (:= x (mem-load t p)), which throws if p is not set; a byte that was never
\* written is any byte.
Load(x, t, p) ==
  /\ Running /\ ptr[p] # Null
  /\ IF ~ Valid(p) \/ Size[t] > Len(block[ptr[p]].bytes) THEN Invalid
     ELSE LET bytes == block[ptr[p]].bytes IN
          \E read \in [1..Size[t] -> 0..(Byte - 1)] :
            /\ \A i \in 1..Size[t] : bytes[i] = Junk \/ read[i] = bytes[i]
            /\ num' = [num EXCEPT ![x] = Cell(t, Decoded(read))]
            /\ UNCHANGED <<ptr, block, status>>

Init ==
  /\ num = [x \in Nums |-> Int64(0)]
  /\ ptr = [p \in Ptrs |-> Null]
  /\ block = [b \in Blocks |-> Free]
  /\ status = "run"

Sizes == {Size[t] : t \in Types}

Next ==
  \/ \E x \in Nums, c \in Operands :
       \/ \E t \in Types : Convert(x, t, c)
       \/ \E d \in Operands, op \in Operations : Compute(x, op, c, d)
  \/ \E p \in Ptrs :
       \/ \E n \in Sizes : New(p, n)
       \/ Point(p) \/ Del(p)
       \/ \E c \in Operands \union Odd : CopyCell(c, p)
       \/ \E q \in Ptrs, n \in Sizes : CopyMemory(q, p, n)
       \/ \E x \in Nums, t \in Types : Load(x, t, p)

Spec == Init /\ [][Next]_vars

(***************************************************************************)
(* Properties.                                                             *)
(***************************************************************************)

\* Every variable has its type; the bits an integer's type does not have are 0.
TypeOK ==
  /\ \A x \in Nums : num[x].type \in Types /\ num[x].raw \in 0..(Bytes(Size[num[x].type]) - 1)
  /\ ptr \in [Ptrs -> Blocks \union {Null}]
  /\ \A b \in Blocks : block[b].bytes \in Seq(0..(Byte - 1) \union {Junk})
  /\ status \in {"run", "trapped", "invalid"}

\* A pointer that is set points to memory that is allocated, and no other
\* pointer does: mem-del and mem-cpy, which both free, leave none dangling.
NothingDangles ==
  Running => /\ \A p \in Ptrs : Valid(p)
             /\ \A p, q \in Ptrs : ptr[p] = ptr[q] /\ ptr[p] # Null => p = q

\* What is copied into memory is what is loaded from it again, with its sign,
\* even though it is copied as an int64_t that for a negative number of a narrow
\* type is another number.
LoadsWhatWasStored ==
  \A b \in Blocks : LET s == block[b].stored IN
    s # Unsaid => Printed(Cell(s.type, Decoded(block[b].bytes))) = s.value

\* Numbers are computed with as they are printed (`:i8' is "signed 8-bit int").
ComputedAsPrinted == \A x \in Nums : AsInteger(num[x]) = Printed(num[x])
=============================================================================
