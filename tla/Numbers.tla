------------------------------ MODULE Numbers -------------------------------
(***************************************************************************)
(* Integer cells (cell.hpp), the conversions between them and the          *)
(* arithmetic on them.  A cell is a type and the bits of its data union,   *)
(* "raw", an unsigned number as wide as the union: a constructor writes as *)
(* many of the lower bits as the type has and leaves the others zero.      *)
(* Narrow types keep their names and are scaled down.                      *)
(***************************************************************************)
EXTENDS Integers

CONSTANTS
  Byte,  \* how many values a byte has
  Size   \* Size[t]: the bytes of the integer type t, up to "i64"

Types == DOMAIN Size

ASSUME NumbersAssumption ==
  /\ Byte \in Nat /\ Byte >= 2 /\ Byte % 2 = 0
  /\ "i64" \in Types /\ Types \subseteq {"u8", "u16", "u32", "u64", "i8", "i16", "i32", "i64"}
  /\ \A t \in Types : Size[t] \in 1..Size["i64"]

\* How many values n bytes have.
Power[n \in Nat] == IF n = 0 THEN 1 ELSE Byte * Power[n - 1]
Bytes(n)  == Power[n]
Signed(t) == t \in {"i8", "i16", "i32", "i64"}

Lowest  == -(Bytes(Size["i64"]) \div 2)
Highest == Bytes(Size["i64"]) \div 2 - 1

\* The signed number that n bytes stand for.
SignedOf(v, n) == IF v >= Bytes(n) \div 2 THEN v - Bytes(n) ELSE v

\* Mutant of Cell: all of the number is stored, whatever the type.
CellWide(t, v) == [type |-> t, raw |-> v % Bytes(Size["i64"])]

\* The constructors of cell_c, and mem-load.
Cell(t, v) == [type |-> t, raw |-> v % Bytes(Size[t])]

\* to_string reads the part of the union that the type has.
Printed(c) == LET v == c.raw % Bytes(Size[c.type])
              IN IF Signed(c.type) THEN SignedOf(v, Size[c.type]) ELSE v

\* as_integer reads the union as an int64_t, whatever the type.
AsInteger(c) == SignedOf(c.raw, Size["i64"])

Int64(v)  == Cell("i64", v)
Truth(b)  == Int64(IF b THEN 1 ELSE 0)

\* The conversions read what is printed: stoll fails beyond Highest, stoull
\* takes any number and its negative.
Converts(t, c) == Signed(t) => Printed(c) <= Highest
Converted(t, c) == Cell(t, Printed(c))

Magnitude(v)    == IF v < 0 THEN -v ELSE v
Quotient(a, b)  == LET q == Magnitude(a) \div Magnitude(b) IN IF (a < 0) = (b < 0) THEN q ELSE -q
Remainder(a, b) == a - b * Quotient(a, b)

\* Divisions the processor cannot do, and that are not checked for.
Traps(op, a, b) == (op = "mod" /\ b = 0) \/ (op \in {"div", "mod"} /\ a = Lowest /\ b = -1)

\* Division by zero is an exception.
Throws(op, b) == op = "div" /\ b = 0

Computed(op, c, d) ==
  LET a == AsInteger(c)  b == AsInteger(d)
  IN CASE op = "add" -> Int64(a + b)
       [] op = "sub" -> Int64(a - b)
       [] op = "mul" -> Int64(a * b)
       [] op = "div" -> Int64(Quotient(a, b))
       [] op = "mod" -> [type |-> c.type, raw |-> Remainder(a, b) % Bytes(Size["i64"])]
       [] op = "lt"  -> Truth(a < b)
       [] op = "eq"  -> Truth(a = b)

Operations == {"add", "sub", "mul", "div", "mod", "lt", "eq"}
=============================================================================
