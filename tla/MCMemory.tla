------------------------------ MODULE MCMemory ------------------------------
EXTENDS Memory

\* Bytes of one bit: i8 and u8 have two of them, i64 and u64 three.
SizeOf         == [t \in {"u8", "i8", "u64", "i64"} |-> IF t \in {"u8", "i8"} THEN 2 ELSE 3]
LiteralNumbers == {-1, 0, 2}

\* For Odd: a char.
OddCells       == {[type |-> "char", raw |-> 1]}
=============================================================================
