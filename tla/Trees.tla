------------------------------- MODULE Trees --------------------------------
(***************************************************************************)
(* The expression trees of rcc and the folding done while they are built   *)
(* (src/src/rcc/expr.c, enode.c, simp.c, tree.c), for the integer types.   *)
(*                                                                         *)
(* A tree has the fields of the code's: generic operator op, operator      *)
(* letter k, type ty, kids l and r, value v of a constant, symbol sym.     *)
(* The code compares trees by address; here a leaf carries, in id, the     *)
(* place in the source it was made for, so that equal trees are the same   *)
(* tree.  A source expression is a tuple whose first component is its      *)
(* form; Parse shows the forms.                                            *)
(***************************************************************************)
EXTENDS Ctypes, Overflow, Sequences
LOCAL INSTANCE Bitwise

CONSTANT Declared   \* the variables: name -> [ty, address]; the address operator is
                    \* ADDRL for a local of the dynamic code, ADDRG for a global
                    \* and ADRFL for a local of the function around it

NoTree == [op |-> "none"]
NoSymbol == <<>>

tree(op, k, ty, l, r) ==
  [op |-> op, k |-> k, ty |-> ty, l |-> l, r |-> r, v |-> 0, sym |-> NoSymbol, id |-> <<>>]
Leaf(op, k, ty, sym, id) == [tree(op, k, ty, NoTree, NoTree) EXCEPT !.sym = sym, !.id = id]

consttree(n, ty, id) == [Leaf("CNST", ttob(ty), ty, NoSymbol, id) EXCEPT !.v = Wrap(ty, n)]

\* retype gives the tree another type and leaves the operator as it is.
retype(p, ty) == [p EXCEPT !.ty = ty]

-----------------------------------------------------------------------------
(* Symbols and the trees of variables.                                     *)

Temporary(ty, id) == <<"temp", ty, id>>
TypeOf(sym) == IF Len(sym) = 1 THEN Declared[sym[1]].ty ELSE sym[2]
AddressOp(sym) == IF Len(sym) = 1 THEN Declared[sym[1]].address ELSE "ADDRL"

idtree(sym, id) ==
  tree("INDIR", memory(TypeOf(sym)), TypeOf(sym), Leaf(AddressOp(sym), "P", TypeOf(sym), sym, id), NoTree)

isaddrop(op) == op \in {"ADDRG", "ADDRL"}

RECURSIVE rightkid(_)
rightkid(p) == IF p.op # "RIGHT" THEN p ELSE rightkid(IF p.r # NoTree THEN p.r ELSE p.l)

Comparisons == {"EQ", "NE", "LT", "LE", "GT", "GE"}
Truths == Comparisons \cup {"AND", "OR", "NOT"}

\* A source place that belongs to this tree and to no tree beside it.
RECURSIVE Place(_)
Place(p) ==
  IF p.op = "COND" THEN IF p.sym = NoSymbol THEN Place(p.l) ELSE p.sym[3] \o <<0>>
  ELSE IF p.op = "RIGHT" THEN Place(rightkid(p))
  ELSE IF p.l = NoTree THEN p.id
  ELSE Place(p.l) \o <<IF p.op \in Truths THEN -1 ELSE 1>>

-----------------------------------------------------------------------------
(* root: what remains of a tree whose value nobody wants.                  *)

RECURSIVE root(_)
root(p) ==
  LET Both(t) ==
        LET l == root(t.l)  r == root(t.r)
        IN  IF l = NoTree /\ r = NoTree THEN NoTree ELSE tree("RIGHT", "", t.ty, l, r)
      Branch(q) == IF p.sym # NoSymbol /\ q.op = "ASGN" THEN root(q.r) ELSE root(q)
      Condition(l, r) ==
        IF l = NoTree /\ r = NoTree THEN root(p.l)
        ELSE [p EXCEPT !.sym = NoSymbol, !.r = [p.r EXCEPT !.l = l, !.r = r]]
      Logical(r) == IF r = NoTree THEN root(p.l) ELSE [p EXCEPT !.r = r]
  IN  IF p = NoTree THEN NoTree
      ELSE IF p.op = "COND" THEN Condition(Branch(p.r.l), Branch(p.r.r))
      ELSE IF p.op \in {"AND", "OR"} THEN Logical(root(p.r))
      ELSE IF p.op = "RIGHT"
           THEN IF p.r = NoTree THEN root(p.l)
                ELSE IF p.l # NoTree /\ p.l.op = "RIGHT" /\ p.r = p.l.l THEN p.l.r
                ELSE Both(p)
      ELSE IF p.op \in Comparisons \cup {"ADD", "SUB", "MUL", "DIV", "MOD", "LSH", "RSH", "BAND", "BOR", "BXOR"}
           THEN Both(p)
      ELSE IF p.op \in {"NOT", "INDIR", "CVC", "CVI", "CVS", "CVU", "NEG", "BCOM"} THEN root(p.l)
      ELSE IF p.op \in {"ADDRG", "ADDRL", "ADRFL", "CNST"} THEN NoTree
      ELSE p

-----------------------------------------------------------------------------
(* simplify: build a tree or the constant, or cheaper tree, it amounts to. *)

\* A constant is read through the 32-bit member of the value its operator names.
KType(k) == IF k = "I" THEN "int" ELSE "unsigned"
Value(k, p) == Wrap(KType(k), p.v)
IsCnst(k, p) == p.op = "CNST" /\ p.k = k
IsCnstOf(k, p, n) == IsCnst(k, p) /\ Value(k, p) = n
Cnst(k, n, l) == consttree(n, KType(k), Place(l) \o <<2>>)

\* The operands p in the order that puts a constant on one side.
ConstRight(p) == IF p[1].op = "CNST" /\ p[2].op # "CNST" THEN <<p[2], p[1]>> ELSE p
ConstLeft(p) == IF p[2].op = "CNST" /\ p[1].op # "CNST" THEN <<p[2], p[1]>> ELSE p

Quotient(a, b) == (IF (a < 0) = (b < 0) THEN 1 ELSE -1) * (Magnitude(a) \div Magnitude(b))
Remainder(a, b) == a - b * Quotient(a, b)

\* n if u is 2^n and greater than 1, and 0 otherwise.
ispow2(u) == IF \E n \in 1..Bits("long") : u = 2 ^ n THEN CHOOSE n \in 1..Bits("long") : u = 2 ^ n ELSE 0

Holding(op, a, b) ==
  CASE op = "EQ" -> a = b [] op = "NE" -> a # b [] op = "LT" -> a < b
    [] op = "LE" -> a <= b [] op = "GT" -> a > b [] op = "GE" -> a >= b

IsZero(k, p) == k = "U" /\ IsCnstOf("U", p, 0)
\* p for its effects and the value v.
Decided(p, v) == tree("RIGHT", "", "int", root(p), consttree(v, "int", Place(p) \o <<2>>))
OneIf(b) == IF b THEN 1 ELSE 0

Compared(op, k, l, r) ==
  IF op \in {"GE", "LT"} /\ IsZero(k, r) THEN Decided(l, OneIf(op = "GE"))
  ELSE IF op \in {"LE", "GT"} /\ IsZero(k, l) THEN Decided(r, OneIf(op = "LE"))
  ELSE IF IsCnst(k, l) /\ IsCnst(k, r) THEN Cnst("I", OneIf(Holding(op, Value(k, l), Value(k, r))), l)
  ELSE IF op \in {"GE", "LT"} /\ IsZero(k, l) THEN tree(IF op = "GE" THEN "EQ" ELSE "NE", "I", "int", r, l)
  ELSE IF op \in {"LE", "GT"} /\ IsZero(k, r) THEN tree(IF op = "LE" THEN "EQ" ELSE "NE", "I", "int", l, r)
  ELSE tree(op, IF op \in {"EQ", "NE"} THEN "I" ELSE k, "int", l, r)

\* simplify for a comparison of operands of the type with letter k.
Comparing(op, k, p) ==
  LET q == IF op \in {"EQ", "NE"} THEN ConstRight(p) ELSE p IN Compared(op, k, q[1], q[2])

\* The type a conversion leads to, and the member of the constant's value that
\* the code reads.
Converting == [CVC |-> "C", CVS |-> "S", CVI |-> "I", CVU |-> "U"]
Destination(op, k) ==
  CASE op \in {"CVC", "CVS"} -> KType(k)
    [] k \in {"C", "S"} -> IF op = "CVI" THEN btot(k) ELSE IF k = "C" THEN "uchar" ELSE "ushort"
    [] OTHER -> IF op = "CVI" THEN "unsigned" ELSE "int"
Member(op, k) ==
  CASE op = "CVC" -> IF k = "I" THEN "char" ELSE "uchar"
    [] op = "CVS" -> IF k = "I" THEN "short" ELSE "ushort"
    [] OTHER -> KType(Converting[op])

ConvertedTo(op, k, ty, p, to, v) ==
  IF /\ IsCnst(Converting[op], p)
     /\ (op = "CVI" => (k \in {"C", "S", "U"} /\ (k = "U" \/ Fits(to, v))))
     /\ (op = "CVU" => (k \in {"C", "S", "I"} /\ (k = "I" => v <= INT_MAX)))
  THEN [consttree(v, to, Place(p) \o <<2>>) EXCEPT !.k = ttob(to)]
  ELSE tree(op, k, ty, p, NoTree)
Converted(op, k, ty, p) == ConvertedTo(op, k, ty, p, Destination(op, k), Wrap(Member(op, k), p.v))

RECURSIVE simplify(_, _, _, _, _), cond(_), cast(_, _)

Sum(op, k, ty, p, a, b) ==
  IF /\ IsCnst(k, p[1]) /\ IsCnst(k, p[2])
     /\ k = "U" \/ (IF op = "ADD" THEN add(a, b, INT_MIN, INT_MAX, FALSE) ELSE sub(a, b, INT_MIN, INT_MAX, FALSE))
  THEN Cnst(k, IF op = "ADD" THEN a + b ELSE a - b, p[1])
  ELSE tree(op, k, ty, p[1], p[2])

IsDifference(k, l, r) == k = "I" /\ IsCnst("I", l) /\ r.op \in {"ADD", "SUB"} /\ r.k = "I" /\ IsCnst("I", r.r)

Product(k, ty, p, a, b) ==
  IF IsDifference(k, p[1], p[2])
  THEN simplify(p[2].op, "I", ty, simplify("MUL", "I", ty, p[1], p[2].l), simplify("MUL", "I", ty, p[1], p[2].r))
  ELSE IF IsCnst(k, p[1]) /\ ispow2(a) # 0
  THEN simplify("LSH", k, IF k = "I" THEN ty ELSE "unsigned", p[2], Cnst("I", ispow2(a), p[1]))
  ELSE IF IsCnst(k, p[1]) /\ IsCnst(k, p[2]) /\ (k = "U" \/ mul(a, b, INT_MIN, INT_MAX, FALSE))
  THEN Cnst(k, a * b, p[1])
  ELSE tree("MUL", k, ty, p[1], p[2])

\* A quotient or remainder of constants is computed.
Divides(k, l, r, a, b) == IsCnst(k, l) /\ IsCnst(k, r) /\ b # 0 /\ (k = "U" \/ div(a, b, INT_MIN, INT_MAX, FALSE))

Ratio(k, ty, l, r, a, b) ==
  IF IsCnstOf(k, r, 1) THEN l
  ELSE IF k = "U" /\ IsCnst("U", r) /\ ispow2(b) # 0
  THEN simplify("RSH", "U", "unsigned", l, Cnst("I", ispow2(b), r))
  ELSE IF Divides(k, l, r, a, b) THEN Cnst(k, Quotient(a, b), l)
  ELSE tree("DIV", k, ty, l, r)

\* bittree(BAND, l, r) on two unsigned operands.
Masked(l, r) ==
  IF islong(l.ty) THEN simplify("BAND", "", "ulong", l, cast(r, "ulong")) ELSE simplify("BAND", "U", "unsigned", l, r)

Modulus(k, ty, l, r, a, b) ==
  IF k = "I" /\ IsCnstOf("I", r, 1) THEN Decided(l, 0)
  ELSE IF k = "U" /\ IsCnst("U", r) /\ ispow2(b) # 0 THEN Masked(l, Cnst("U", b - 1, r))
  ELSE IF Divides(k, l, r, a, b) THEN Cnst(k, Remainder(a, b), l)
  ELSE tree("MOD", k, ty, l, r)

Shifted(op, k, ty, l, r, a, n) ==
  IF IsCnstOf("I", r, 0) THEN l
  ELSE IF /\ IsCnst(k, l) /\ IsCnst("I", r) /\ n >= 0 /\ n < Bits(l.ty)
          /\ (op = "LSH" /\ k = "I" => mul(a, Wrap("int", 2 ^ n), INT_MIN, INT_MAX, FALSE))
  THEN Cnst(k, IF op = "LSH" THEN a * 2 ^ n ELSE a \div 2 ^ n, l)
  ELSE tree(op, k, ty, l, r)

Combination(op, a, b) == CASE op = "BAND" -> a & b [] op = "BOR" -> a | b [] op = "BXOR" -> a ^^ b

Bitwise(op, k, ty, p, a, b) ==
  IF IsCnst("U", p[1]) /\ IsCnst("U", p[2]) THEN Cnst("U", Combination(op, a, b), p[1])
  ELSE IF IsCnstOf("U", p[2], IF op = "BAND" THEN 2 ^ INT_BITS - 1 ELSE 0) THEN p[1]
  ELSE IF op = "BAND" /\ IsCnstOf("U", p[2], 0)
  THEN tree("RIGHT", "", "unsigned", root(p[1]), Cnst("U", 0, p[1]))
  ELSE tree(op, k, ty, p[1], p[2])

Logical(op, l, r) ==
  IF ~IsCnst("I", l) THEN tree(op, "", "int", l, r)
  ELSE IF (Value("I", l) # 0) = (op = "AND") THEN cond(r)
  ELSE IF op = "AND" THEN l ELSE Cnst("I", 1, l)

Complement(k, ty, l) ==
  IF IsCnst(k, l) THEN Cnst(k, -1 - Value(k, l), l)
  ELSE IF l.op = "BCOM" /\ l.k = "U" THEN l.l
  ELSE tree("BCOM", "U", ty, l, NoTree)

Negated(ty, l) ==
  IF IsCnst("I", l) /\ Value("I", l) # INT_MIN THEN Cnst("I", -Value("I", l), l)
  ELSE IF l.op = "NEG" /\ l.k = "I" THEN l.l
  ELSE tree("NEG", "I", ty, l, NoTree)

NOT(l) ==
  IF IsCnst("I", l) THEN Cnst("I", OneIf(Value("I", l) = 0), l) ELSE tree("NOT", "", "int", l, NoTree)

Simplified(op, k, ty, l, r, a, b) ==
  CASE op = "ADD" -> Sum(op, k, ty, ConstRight(<<l, r>>), a, b)
    [] op = "SUB" -> Sum(op, k, ty, <<l, r>>, a, b)
    [] op = "MUL" -> Product(k, ty, ConstLeft(<<l, r>>), Value(k, ConstLeft(<<l, r>>)[1]), b)
    [] op = "DIV" -> Ratio(k, ty, l, r, a, b)
    [] op = "MOD" -> Modulus(k, ty, l, r, a, b)
    [] op \in {"LSH", "RSH"} -> Shifted(op, k, ty, l, r, a, Value("I", r))
    [] op \in {"BAND", "BOR", "BXOR"} -> Bitwise(op, k, ty, ConstRight(<<l, r>>), Value("U", l), Value("U", r))

Letter(k, ty) == IF k = "" THEN ttob(ty) ELSE k

\* Arithmetic on long and unsigned long is not folded.
simplify(op, k, ty, l, r) ==
  IF islong(ty) THEN tree(op, Letter(k, ty), ty, l, r)
  ELSE Simplified(op, Letter(k, ty), ty, l, r, Value(Letter(k, ty), l), Value(Letter(k, ty), r))

\* simplify for the operators - and ~ on one operand.
simplify1(op, ty, l) ==
  IF islong(ty) THEN tree(op, ttob(ty), ty, l, NoTree)
  ELSE IF op = "NEG" THEN Negated(ty, l) ELSE Complement(ttob(ty), ty, l)

-----------------------------------------------------------------------------
(* Conversions, conditions and assignments.                                *)

RECURSIVE condtree(_, _, _, _)

\* The value of a comparison or of a logical operator is 1 or 0.
value(p) ==
  IF rightkid(p).op \in Truths
  THEN condtree(p, consttree(1, "int", Place(p) \o <<3>>), consttree(0, "int", Place(p) \o <<4>>), Place(p))
  ELSE p

\* The steps of a cast: to int or wider, to the other signedness, to the type.
Widened(p) ==
  IF p.ty \in {"char", "uchar"} THEN Converted("CVC", ttob(super(p.ty)), super(p.ty), p)
  ELSE IF p.ty \in {"short", "ushort"} THEN Converted("CVS", ttob(super(p.ty)), super(p.ty), p)
  ELSE p
Resigned(p, ty) == IF p.ty = ty THEN p ELSE Converted(IF IsSigned(p.ty) THEN "CVI" ELSE "CVU", ttob(ty), ty, p)
Narrowed(p, ty) ==
  IF ty \in {"char", "short", "uchar", "ushort"} THEN Converted(IF IsSigned(ty) THEN "CVI" ELSE "CVU", ttob(ty), ty, p)
  ELSE retype(p, ty)

Retyped(p, ty) == IF p.ty = ty THEN p ELSE Narrowed(Resigned(Widened(p), super(ty)), ty)
cast(p, ty) == Retyped(value(p), ty)

asgntree(l, r) == tree("ASGN", memory(l.ty), l.ty, l.l, cast(r, l.ty))
asgn(sym, e, id) == asgntree(idtree(sym, id), e)

\* A temporary of type ty receives the one value or the other.
Chosen(e, l, r, ty, sym, id) ==
  [tree("COND", "", ty, cond(e), tree("RIGHT", "", ty, root(asgn(sym, l, id \o <<-2>>)), root(asgn(sym, r, id \o <<-3>>))))
     EXCEPT !.sym = sym]

Choose(e, l, r, ty, id) ==
  IF e.op = "CNST" THEN cast(IF Wrap("unsigned", e.v) # 0 THEN l ELSE r, ty)
  ELSE Chosen(e, l, r, ty, Temporary(ty, id), id)
condtree(e, l, r, id) == Choose(e, l, r, binary(l.ty, r.ty), id)

Compare(op, ty, l, r) == Comparing(op, ttob(ty), <<cast(l, ty), cast(r, ty)>>)
compare(op, l, r) == Compare(op, binary(l.ty, r.ty), l, r)

cond(p) ==
  IF rightkid(p).op \in Truths THEN p
  ELSE compare("NE", cast(p, promote(p.ty)), consttree(0, "int", Place(p) \o <<5>>))

\* An operator on two operands of a type of its own, and the type of its result.
Applied(op, k, ty, l, r) == simplify(op, k, ty, cast(l, ty), cast(r, ty))

Unsigned(ty) == IF islong(ty) THEN "ulong" ELSE "unsigned"
optree(op, l, r) ==
  CASE op \in {"ADD", "SUB", "MUL", "DIV", "MOD"} -> Applied(op, "", binary(l.ty, r.ty), l, r)
    [] op \in {"BAND", "BOR", "BXOR"} ->
         cast(Applied(op, "", Unsigned(binary(l.ty, r.ty)), cast(l, binary(l.ty, r.ty)), cast(r, binary(l.ty, r.ty))),
              binary(l.ty, r.ty))
    [] op \in {"LSH", "RSH"} -> simplify(op, "", promote(l.ty), cast(l, promote(l.ty)), cast(r, "int"))
    [] op \in Comparisons -> compare(op, l, r)
    [] op \in {"AND", "OR"} -> Logical(op, cond(l), cond(r))

Negative(p) ==
  IF isunsigned(p.ty) THEN cast(simplify1("NEG", "int", cast(p, "int")), "unsigned") ELSE simplify1("NEG", p.ty, p)

unary(op, p) ==
  CASE op = "+" -> cast(p, promote(p.ty))
    [] op = "-" -> Negative(cast(p, promote(p.ty)))
    [] op = "~" -> simplify1("BCOM", promote(p.ty), cast(p, promote(p.ty)))
    [] op = "!" -> NOT(cond(p))

Unchangeable(p) == IF p.op = "INDIR" THEN tree("RIGHT", "", p.ty, NoTree, p) ELSE p
castexpr(p, ty) == Unchangeable(cast(p, ty))

postfix(p, e) == tree("RIGHT", "", p.ty, tree("RIGHT", "", p.ty, p, e), p)

\* A call of a function without parameters that returns int.
calltree(id) == tree("CALL", "I", "int", Leaf("ADDRG", "P", "int", <<"f">>, id), NoTree)

\* The tree of the source expression a at the place id.
RECURSIVE Parse(_, _)

\* v op= e, ++v and v++, with e = 1 for the last two.
incr(v, a, id) ==
  asgntree(v, Parse(<<"bin", a[2], a[3], IF a[1] = "opasgn" THEN a[4] ELSE <<"num", "int", 1>>>>, id))

Parse(a, id) ==
  CASE a[1] = "var" -> idtree(<<a[2]>>, id)
    [] a[1] = "num" -> [Leaf("CNST", ttob(a[2]), a[2], NoSymbol, id) EXCEPT !.v = a[3]]
    [] a[1] = "call" -> calltree(id)
    [] a[1] = "un" -> unary(a[2], Parse(a[3], id \o <<1>>))
    [] a[1] = "cast" -> castexpr(Parse(a[3], id \o <<1>>), a[2])
    [] a[1] = "bin" -> optree(a[2], Parse(a[3], id \o <<1>>), Parse(a[4], id \o <<2>>))
    [] a[1] = "asgn" -> asgntree(Parse(a[2], id \o <<1>>), value(Parse(a[3], id \o <<2>>)))
    [] a[1] \in {"opasgn", "pre", "post"} ->
         LET v == Parse(a[3], id \o <<1>>) IN IF a[1] = "post" THEN postfix(v, incr(v, a, id)) ELSE incr(v, a, id)
    [] a[1] = "comma" -> LET q == Parse(a[3], id \o <<2>>)
                         IN  tree("RIGHT", "", q.ty, root(value(Parse(a[2], id \o <<1>>))), q)
    [] a[1] = "cond" -> condtree(Parse(a[2], id \o <<1>>), Parse(a[3], id \o <<2>>), Parse(a[4], id \o <<3>>), id)
=============================================================================
