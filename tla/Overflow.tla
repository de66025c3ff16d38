------------------------------ MODULE Overflow ------------------------------
(***************************************************************************)
(* The overflow tests of the constant folder (src/src/rcc/simp.c): each    *)
(* takes the operands and the limits of the type and says whether the      *)
(* result may be computed at compile time.  needconst, in a place where C  *)
(* demands a constant, overrules the answer.  The code computes them in    *)
(* doubles, which are exact for 32-bit operands and their quotients'       *)
(* comparison with integers.                                               *)
(***************************************************************************)
EXTENDS Integers

\* Mutated form: two negative operands are compared with the upper limit.
Mut_AddNegatives(x, y, min, max, needconst) ==
  \/ x = 0 \/ y = 0
  \/ x < 0 /\ y < 0 /\ x >= -max - y
  \/ x < 0 /\ y > 0
  \/ x > 0 /\ y < 0
  \/ x > 0 /\ y > 0
  \/ needconst

add(x, y, min, max, needconst) ==
  \/ x = 0 \/ y = 0
  \/ x < 0 /\ y < 0 /\ x >= min - y
  \/ x < 0 /\ y > 0
  \/ x > 0 /\ y < 0
  \/ x > 0 /\ y > 0 /\ x <= max - y
  \/ needconst

sub(x, y, min, max, needconst) == add(x, -y, min, max, needconst)

Magnitude(x) == IF x < 0 THEN -x ELSE x

div(x, y, min, max, needconst) ==
  LET a == Magnitude(x)  b == Magnitude(y)
  IN  b # 0 /\ (b > 1 \/ a <= max * b \/ needconst)

\* x <= max/y is x*y <= max for positive y, and x >= min/y is x*y <= min for
\* negative y.
mul(x, y, min, max, needconst) ==
  \/ x \in {0, 1} \/ y \in {0, 1}
  \/ x < 0 /\ y < 0 /\ x * y <= max
  \/ x < 0 /\ y > 0 /\ x * y >= min
  \/ x > 0 /\ y < 0 /\ x * y <= min
  \/ x > 0 /\ y > 0 /\ x * y <= max
  \/ needconst
=============================================================================
