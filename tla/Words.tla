-------------------------------- MODULE Words --------------------------------
(***************************************************************************)
(* The values vcode's types denote and C's operations on them.  A value of *)
(* type t is kept as the number its Size(t) bytes spell, 0 up to           *)
(* 2^(ByteBits * Size(t)) - 1; ByteBits scales the byte down so that every *)
(* width the code distinguishes stays a different width.                   *)
(*                                                                         *)
(* Floating-point values are sign-magnitude integers with one pattern,     *)
(* every magnitude bit set, for "not a number": the rounding of the real   *)
(* formats is left out, the sign bit, the two widths and the unordered     *)
(* comparisons are kept.                                                   *)
(***************************************************************************)
EXTENDS Integers, Bitwise

CONSTANT ByteBits

ASSUME WordsAssumption == ByteBits \in 2 .. 3

Types == {"C", "UC", "S", "US", "I", "U", "L", "UL", "P", "F", "D"}
Arithmetic == {"I", "U", "L", "UL"}

type_is_64(t) == t \in {"L", "UL", "P"}
type_is_signed(t) == t \in {"C", "S", "I", "L"}
type_is_float(t) == t \in {"F", "D"}

scalar_size(t) ==
  CASE t \in {"C", "UC"} -> 1
    [] t \in {"S", "US"} -> 2
    [] t \in {"I", "U", "F"} -> 4
    [] OTHER -> 8

Low(n, v) == v % (2 ^ (ByteBits * n))
Signed(n, v) == IF Low(n, v) >= 2 ^ (ByteBits * n - 1)
                THEN Low(n, v) - 2 ^ (ByteBits * n) ELSE Low(n, v)

\* The number a value of an integer type stands for.
Number(t, v) == IF type_is_signed(t) THEN Signed(scalar_size(t), v)
                                     ELSE Low(scalar_size(t), v)

AbsVal(x) == IF x < 0 THEN -x ELSE x
Quotient(x, y) == LET q == AbsVal(x) \div AbsVal(y)
                  IN IF (x < 0) = (y < 0) THEN q ELSE -q

-----------------------------------------------------------------------------
(* Integer arithmetic on n bytes; the operands are n-byte patterns.        *)

Integer(f, n, signed, a, b) ==
  LET x == IF signed THEN Signed(n, a) ELSE a
      y == IF signed THEN Signed(n, b) ELSE b
  IN  Low(n, CASE f = "add" -> a + b
               [] f = "sub" -> a - b
               [] f = "mul" -> Signed(n, a) * Signed(n, b)
               [] f = "div" -> Quotient(x, y)
               [] f = "mod" -> x - y * Quotient(x, y)
               [] f = "and" -> a & b
               [] f = "or"  -> a | b
               [] f = "xor" -> a ^^ b
               [] f = "lsh" -> (a % (2 ^ (ByteBits * n - b))) * 2 ^ b
               [] f = "rsh" -> x \div (2 ^ b))

\* What C leaves undefined for an operation, and no client asks for.
Undefined(f, t, a, b) ==
  \/ f \in {"div", "mod"} /\ (b = 0 \/ Number(t, a) = -(2 ^ (ByteBits * scalar_size(t) - 1)))
  \/ f \in {"lsh", "rsh"} /\ b >= ByteBits * scalar_size(t)

Monadic(f, n, a) ==
  CASE f = "com" -> Low(n, -a - 1)
    [] f = "neg" -> Low(n, -a)
    [] f = "not" -> IF a = 0 THEN 1 ELSE 0

-----------------------------------------------------------------------------
(* Floating-point arithmetic on n bytes.                                    *)

SignBit(n) == 2 ^ (ByteBits * n - 1)
NotANumber(n, v) == v % SignBit(n) = SignBit(n) - 1
Real(n, v) == IF v >= SignBit(n) THEN SignBit(n) - v ELSE v
Encode(n, x) ==
  LET most == SignBit(n) - 2
      magnitude == IF AbsVal(x) > most THEN most ELSE AbsVal(x)
  IN  IF x < 0 THEN SignBit(n) + magnitude ELSE magnitude

Floating(f, n, a, b) ==
  IF NotANumber(n, a) \/ NotANumber(n, b) \/ (f = "div" /\ Real(n, b) = 0)
  THEN SignBit(n) - 1
  ELSE LET x == Real(n, a)
           y == Real(n, b)
           bound(z) == IF z > 2 ^ 14 THEN 2 ^ 14 ELSE IF z < -(2 ^ 14) THEN -(2 ^ 14) ELSE z
       IN  Encode(n, CASE f = "add" -> x + y
                       [] f = "sub" -> x - y
                       [] f = "mul" -> bound(x) * bound(y)
                       [] f = "div" -> Quotient(x, y))

-----------------------------------------------------------------------------
(* Conversions and comparisons between typed values, as C defines them.    *)

Convert(td, ts, v) ==
  LET n == scalar_size(td)
      k == scalar_size(ts)
  IN  IF type_is_float(td)
      THEN IF ~type_is_float(ts) THEN Encode(n, Number(ts, v))
           ELSE IF NotANumber(k, v) THEN SignBit(n) - 1
           ELSE Encode(n, Real(k, v)) + (IF v = SignBit(k) THEN SignBit(n) ELSE 0)
      ELSE IF ~type_is_float(ts) THEN Low(n, Number(ts, v))
      ELSE IF NotANumber(k, v) \/ AbsVal(Real(k, v)) >= SignBit(n) THEN SignBit(n)
      ELSE Low(n, Real(k, v))

Compare(c, x, y) ==
  CASE c = "LT" -> x < y [] c = "LE" -> x <= y [] c = "GT" -> x > y
    [] c = "GE" -> x >= y [] c = "EQ" -> x = y [] c = "NE" -> x # y

Holds(c, t, a, b) ==
  LET n == scalar_size(t)
  IN  IF ~type_is_float(t) THEN Compare(c, Number(t, a), Number(t, b))
      ELSE IF NotANumber(n, a) \/ NotANumber(n, b) THEN c = "NE"
      ELSE Compare(c, Real(n, a), Real(n, b))
=============================================================================
