------------------------------- MODULE Ctypes -------------------------------
(***************************************************************************)
(* The integer types of rcc (src/src/rcc/types.c) on scaled-down widths,   *)
(* and the values they hold.  Types that share an operator letter, such as *)
(* int and long, keep different widths, because that is what conversions   *)
(* are about.                                                              *)
(***************************************************************************)
EXTENDS Integers

INT_BITS == 4
INT_MAX == 7
INT_MIN == -8

Types == {"char", "uchar", "short", "ushort", "int", "unsigned", "long", "ulong"}

Bits(ty) ==
  CASE ty \in {"char", "uchar"} -> 2
    [] ty \in {"short", "ushort"} -> 3
    [] ty \in {"int", "unsigned"} -> INT_BITS
    [] ty \in {"long", "ulong"} -> 6

\* The value of type ty whose pattern is n's low bits.
IsSigned(ty) == ty \in {"char", "short", "int", "long"}
Centred(n, half) == ((n + half) % (2 * half)) - half
Wrap(ty, n) == IF IsSigned(ty) THEN Centred(n, 2 ^ (Bits(ty) - 1)) ELSE n % (2 ^ Bits(ty))
Fits(ty, n) == Wrap(ty, n) = n

-----------------------------------------------------------------------------
(* rcc's classification: the operator of a type and its letter.             *)

isunsigned(ty) == ty \in {"unsigned", "ulong"}
islong(ty) == ty \in {"long", "ulong"}

ttob(ty) ==
  CASE ty \in {"char", "uchar"} -> "C"
    [] ty \in {"short", "ushort"} -> "S"
    [] ty \in {"int", "long"} -> "I"
    [] OTHER -> "U"

\* Loads and stores make no difference between I and U.
memory(ty) == IF isunsigned(ty) THEN "I" ELSE ttob(ty)

btot(k) == CASE k = "C" -> "char" [] k = "S" -> "short" [] k = "I" -> "int" [] k = "U" -> "unsigned"

promote(ty) == IF isunsigned(ty) \/ ty = "long" THEN ty ELSE "int"

super(ty) ==
  IF islong(ty) THEN ty
  ELSE IF ty \in {"char", "short", "int"} THEN "int" ELSE "unsigned"

binary(x, y) ==
  LET both == {promote(x), promote(y)}
  IN  IF "ulong" \in both THEN "ulong"
      ELSE IF "long" \in both
           THEN IF "unsigned" \in both /\ Bits("unsigned") >= Bits("long") THEN "ulong" ELSE "long"
      ELSE IF "unsigned" \in both THEN "unsigned" ELSE "int"

-----------------------------------------------------------------------------
(* The integer promotions and usual arithmetic conversions of C, from the  *)
(* ranks and ranges of the types.                                          *)

Rank(ty) == CASE Bits(ty) = 2 -> 1 [] Bits(ty) = 3 -> 2 [] Bits(ty) = INT_BITS -> 3 [] OTHER -> 4
Lowest(ty) == IF IsSigned(ty) THEN -(2 ^ (Bits(ty) - 1)) ELSE 0
Highest(ty) == IF IsSigned(ty) THEN 2 ^ (Bits(ty) - 1) - 1 ELSE 2 ^ Bits(ty) - 1
Holds(wide, narrow) == Lowest(wide) <= Lowest(narrow) /\ Highest(narrow) <= Highest(wide)

Promoted(ty) == IF Rank(ty) >= 3 THEN ty ELSE IF Holds("int", ty) THEN "int" ELSE "unsigned"

\* The type of higher rank holds the other's values, or its unsigned form is taken.
Higher(high, low) ==
  IF IsSigned(high) = IsSigned(low) \/ Holds(high, low) THEN high
  ELSE CHOOSE ty \in Types : ~IsSigned(ty) /\ Rank(ty) = Rank(high)
Ranked(a, b) == IF Rank(a) >= Rank(b) THEN Higher(a, b) ELSE Higher(b, a)
Common(x, y) == Ranked(Promoted(x), Promoted(y))
=============================================================================
