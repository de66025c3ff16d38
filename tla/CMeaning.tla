------------------------------ MODULE CMeaning ------------------------------
(***************************************************************************)
(* What C says of the statements that Statements compiles: an interpreter  *)
(* of the source itself, with exact integers, which says for given values  *)
(* of the variables what the program does, or that C leaves it undefined.  *)
(* Arithmetic on int and long wraps around, as gcc -fwrapv has it; a       *)
(* division by zero, a shift by the width or more, the value of a variable *)
(* never set and unsequenced effects are undefined.                        *)
(***************************************************************************)
EXTENDS Ctypes, Sequences, FiniteSets
LOCAL INSTANCE Bitwise

CONSTANTS
  Declared,   \* the variables: name -> [ty, address]
  Counted,    \* the global that f() increments and returns
  Fuel        \* how many statements are executed at most

Relations == {"EQ", "NE", "LT", "LE", "GT", "GE"}

-----------------------------------------------------------------------------
(* Static facts: types, and the variables an expression reads and writes.  *)

RECURSIVE CType(_)
CType(a) ==
  CASE a[1] = "var" -> Declared[a[2]].ty
    [] a[1] \in {"num", "cast"} -> a[2]
    [] a[1] = "call" -> "int"
    [] a[1] = "un" -> IF a[2] = "!" THEN "int" ELSE Promoted(CType(a[3]))
    [] a[1] = "bin" -> IF a[2] \in Relations \cup {"AND", "OR"} THEN "int"
                       ELSE IF a[2] \in {"LSH", "RSH"} THEN Promoted(CType(a[3]))
                       ELSE Common(CType(a[3]), CType(a[4]))
    [] a[1] = "asgn" -> CType(a[2])
    [] a[1] \in {"opasgn", "pre", "post", "comma"} -> CType(a[3])
    [] a[1] = "cond" -> Common(CType(a[3]), CType(a[4]))

Kids(a) ==
  CASE a[1] \in {"var", "num", "call"} -> {}
    [] a[1] \in {"un", "cast", "pre", "post"} -> {a[3]}
    [] a[1] = "asgn" -> {a[2], a[3]}
    [] a[1] \in {"bin", "opasgn"} -> {a[3], a[4]}
    [] a[1] = "comma" -> {a[2], a[3]}
    [] a[1] = "cond" -> {a[2], a[3], a[4]}

RECURSIVE Stores(_), Mentions(_), Calls(_)
Stores(a) ==
  (IF a[1] = "asgn" THEN {a[2][2]} ELSE IF a[1] \in {"opasgn", "pre", "post"} THEN {a[3][2]} ELSE {})
  \cup UNION {Stores(b) : b \in Kids(a)}
Mentions(a) == IF a[1] = "var" THEN {a[2]} ELSE UNION {Mentions(b) : b \in Kids(a)}
Calls(a) == IF a[1] = "call" THEN {Counted} ELSE UNION {Calls(b) : b \in Kids(a)}

Effects(a) == Stores(a) \cup Calls(a)
Touches(a) == Mentions(a) \cup Calls(a)
Unsequenced(a, b) == Effects(a) \cap Touches(b) # {} \/ Effects(b) \cap Touches(a) # {}

-----------------------------------------------------------------------------
(* Expressions.  A result is the value v and the variables after it; the   *)
(* variables are their values and the set of those that have one, and not  *)
(* ok when what came before was undefined.                                 *)

Undefined == [v |-> 0, env |-> [ok |-> FALSE]]
Result(v, env) == [v |-> v, env |-> env]

Quo(a, b) == LET q == (IF a < 0 THEN -a ELSE a) \div (IF b < 0 THEN -b ELSE b) IN IF (a < 0) = (b < 0) THEN q ELSE -q
Related(op, a, b) ==
  CASE op = "EQ" -> a = b [] op = "NE" -> a # b [] op = "LT" -> a < b
    [] op = "LE" -> a <= b [] op = "GT" -> a > b [] op = "GE" -> a >= b
OneOrZero(b) == IF b THEN 1 ELSE 0

Pattern(ty, n) == n % (2 ^ Bits(ty))

\* The value of a op b, of type ty before wrapping.
Combined(op, ty, a, b) ==
  CASE op = "ADD" -> a + b [] op = "SUB" -> a - b [] op = "MUL" -> a * b
    [] op = "DIV" -> Quo(a, b) [] op = "MOD" -> a - b * Quo(a, b)
    [] op = "LSH" -> a * 2 ^ b [] op = "RSH" -> a \div 2 ^ b
    [] op = "BAND" -> Pattern(ty, a) & Pattern(ty, b)
    [] op = "BOR" -> Pattern(ty, a) | Pattern(ty, b)
    [] op = "BXOR" -> Pattern(ty, a) ^^ Pattern(ty, b)
    [] op \in Relations -> OneOrZero(Related(op, a, b))

IsDefined(op, ty, a, b) ==
  CASE op \in {"DIV", "MOD"} -> b # 0 /\ ~(a = Lowest(ty) /\ b = -1)
    [] op \in {"LSH", "RSH"} -> b >= 0 /\ b < Bits(ty)
    [] OTHER -> TRUE

\* a op b for operands converted to type ty.
Compute(op, ty, a, b, env) ==
  IF IsDefined(op, ty, a, b) THEN Result(Wrap(ty, Combined(op, ty, a, b)), env) ELSE Undefined

OperandType(op, l, r) == IF op \in {"LSH", "RSH"} THEN Promoted(l) ELSE Common(l, r)
Operate(op, ty, l, r, env) ==
  IF ~env.ok THEN Undefined
  ELSE Compute(op, ty, Wrap(ty, l), IF op \in {"LSH", "RSH"} THEN r ELSE Wrap(ty, r), env)

Converted(ty, p) == IF p.env.ok THEN Result(Wrap(ty, p.v), p.env) ELSE Undefined
Truth(p) == IF p.env.ok THEN Result(OneOrZero(p.v # 0), p.env) ELSE Undefined

\* x becomes the value of p, which is also that of the assignment.
Store(x, p) == IF p.env.ok THEN [p EXCEPT !.env.val[x] = p.v, !.env.set = @ \cup {x}] ELSE Undefined
StoreConverted(x, p) == Store(x, Converted(Declared[x].ty, p))

RECURSIVE Evaluate(_, _)

One == <<"num", "int", 1>>
Before(l, new) == IF new.env.ok THEN Result(l.v, new.env) ELSE Undefined

\* lv op= e, from the value l of lv.
Update(op, lv, e, l, r) ==
  IF lv[2] \in Effects(e) THEN Undefined
  ELSE StoreConverted(lv[2], Operate(op, OperandType(op, CType(lv), CType(e)), l.v, r.v, r.env))
UpdateFrom(op, lv, e, l) == Update(op, lv, e, l, Evaluate(e, l.env))
PostUpdate(op, lv, l) == Before(l, UpdateFrom(op, lv, One, l))

Binary(a, l, r) == Operate(a[2], OperandType(a[2], CType(a[3]), CType(a[4])), l.v, r.v, r.env)
BinaryFrom(a, l) == IF Unsequenced(a[3], a[4]) THEN Undefined ELSE Binary(a, l, Evaluate(a[4], l.env))
Logical(a, l) ==
  IF ~l.env.ok THEN Undefined
  ELSE IF (l.v # 0) = (a[2] = "OR") THEN Truth(l) ELSE Truth(Evaluate(a[4], l.env))

Unary(op, p) ==
  CASE op = "!" -> [Truth(p) EXCEPT !.v = 1 - @]
    [] op = "+" -> p
    [] op = "-" -> [p EXCEPT !.v = -@]
    [] op = "~" -> [p EXCEPT !.v = -1 - @]

Choice(a, p) == IF p.env.ok THEN Evaluate(IF p.v # 0 THEN a[3] ELSE a[4], p.env) ELSE Undefined

Evaluate(a, env) ==
  IF ~env.ok THEN Undefined
  ELSE
  CASE a[1] = "var" -> IF a[2] \in env.set THEN Result(env.val[a[2]], env) ELSE Undefined
    [] a[1] = "num" -> Result(a[3], env)
    [] a[1] = "call" -> StoreConverted(Counted, Result(env.val[Counted] + 1, env))
    [] a[1] = "un" -> Converted(CType(a), Unary(a[2], Evaluate(a[3], env)))
    [] a[1] = "cast" -> Converted(a[2], Evaluate(a[3], env))
    [] a[1] = "bin" -> IF a[2] \in {"AND", "OR"} THEN Logical(a, Evaluate(a[3], env))
                       ELSE BinaryFrom(a, Evaluate(a[3], env))
    [] a[1] = "asgn" -> IF a[2][2] \in Stores(a[3]) THEN Undefined ELSE StoreConverted(a[2][2], Evaluate(a[3], env))
    [] a[1] \in {"opasgn", "pre"} ->
         UpdateFrom(a[2], a[3], IF a[1] = "pre" THEN One ELSE a[4], Evaluate(a[3], env))
    [] a[1] = "post" -> PostUpdate(a[2], a[3], Evaluate(a[3], env))
    [] a[1] = "comma" -> Evaluate(a[3], Evaluate(a[2], env).env)
    [] a[1] = "cond" -> Converted(CType(a), Choice(a, Evaluate(a[2], env)))

-----------------------------------------------------------------------------
(* Statements.  A machine is the variables, the fuel left and how the      *)
(* statement ended: next, break, continue, return, or undefined, which a   *)
(* lack of fuel is taken for.  Only after next does it go on.              *)

Machine(env) == [env |-> env, end |-> "next", v |-> 0, fuel |-> Fuel]
Ended(m, end) == [m EXCEPT !.end = end]
With(m, p) == IF p.env.ok THEN [m EXCEPT !.env = p.env, !.v = p.v] ELSE Ended(m, "undefined")

\* The value of e, and 1 if there is none.
Valued(m, e) ==
  IF m.end # "next" THEN m ELSE IF e = <<>> THEN [m EXCEPT !.v = 1] ELSE With(m, Evaluate(e, m.env))
Return(m) == IF m.end = "next" THEN Ended(m, "return") ELSE m
Burned(m) ==
  IF m.end # "next" THEN m ELSE IF m.fuel = 0 THEN Ended(m, "undefined") ELSE [m EXCEPT !.fuel = @ - 1]
After(m, ends) == IF m.end \in ends THEN Ended(m, "next") ELSE m

RECURSIVE Execute(_, _), Loop(_, _, _, _)

\* while (e) s with the step e3 after each round of s.
Round(m, e, s, e3) ==
  IF m.end = "break" THEN After(m, {"break"}) ELSE Loop(Burned(Valued(After(m, {"continue"}), e3)), e, s, e3)
LoopTested(m, e, s, e3) == IF m.end # "next" \/ m.v = 0 THEN m ELSE Round(Execute(m, s), e, s, e3)
Loop(m, e, s, e3) == IF m.end # "next" THEN m ELSE LoopTested(Valued(m, e), e, s, e3)

If(m, s) ==
  IF m.end # "next" THEN m
  ELSE IF m.v # 0 THEN Execute(m, s[3])
  ELSE IF Len(s) = 4 THEN Execute(m, s[4]) ELSE m

RECURSIVE Sequence(_, _, _)
Sequence(m, s, i) == IF i > Len(s) \/ m.end # "next" THEN m ELSE Sequence(Execute(m, s[i]), s, i + 1)

\* The values of a case, converted to the type of the controlling expression.
CaseValues(s, ty) ==
  IF s[1] = "case" THEN {Wrap(ty, Evaluate(s[i], [ok |-> TRUE]).v) : i \in 3..Len(s)} ELSE {}

\* The body of a switch is a block with the cases as its members.
Switch(m, body, ty) ==
  LET match == {i \in 2..Len(body) : Wrap(ty, m.v) \in CaseValues(body[i], ty)}
      start == IF match # {} THEN match ELSE {i \in 2..Len(body) : body[i][1] = "default"}
  IN  IF m.end # "next" \/ start = {} THEN m
      ELSE After(Sequence(m, body, CHOOSE i \in start : TRUE), {"break"})

Execute(m, s) ==
  IF m.end # "next" THEN m
  ELSE
  CASE s[1] = "expr" -> Valued(m, s[2])
    [] s[1] = "if" -> If(Valued(m, s[2]), s)
    [] s[1] = "while" -> Loop(m, s[2], s[3], <<>>)
    [] s[1] = "do" -> Round(Execute(m, s[2]), s[3], s[2], <<>>)
    [] s[1] = "for" -> Loop(Valued(m, s[2]), s[3], s[5], s[4])
    [] s[1] = "switch" -> Switch(Valued(m, s[2]), s[3], Promoted(CType(s[2])))
    [] s[1] \in {"case", "default"} -> Execute(m, s[2])
    [] s[1] = "block" -> Sequence(m, s, 2)
    [] s[1] \in {"break", "continue"} -> Ended(m, s[1])
    [] s[1] = "return" -> Return(Valued(m, s[2]))

\* What Rcc asks of this module.
Outcome(env, s) == Execute(Machine(env), s)
TypeOfExpression(a) == CType(a)
IsConstant(a) == Touches(a) = {}
ConstantValue(a) == Evaluate(a, [ok |-> TRUE]).v
=============================================================================
