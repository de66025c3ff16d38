-------------------------------- MODULE Rcc ---------------------------------
(***************************************************************************)
(* rcc compiles the body of a dynamic function one statement at a time,    *)
(* then undags the forests and emits them.  Execute runs what is emitted,  *)
(* as the icode templates of gen.c and icode.md name the operations, on    *)
(* registers of the width of a long: an operation on ints reads the low    *)
(* half of its operands and clears the high half of its result.            *)
(***************************************************************************)
EXTENDS Statements
LOCAL INSTANCE SequencesExt
LOCAL INSTANCE Bitwise

CONSTANTS
  Families,   \* the programs that may be written: a sequence of families, each
              \* a sequence of sets of statements
  Inputs,     \* the values of the variables before the call: name -> value
  Counted,    \* the global that f() increments and returns
  Fuel,       \* how many rounds of a loop are executed at most
  Allowed     \* the departures from C that a run does not set aside

C == INSTANCE CMeaning

VARIABLES
  family,     \* the family of the program
  source,     \* the statements parsed so far
  c,          \* the state of the compiler
  code        \* the nodes emitted, in order; <<>> before gencode

vars == <<family, source, c, code>>

Init == family \in DOMAIN Families /\ source = <<>> /\ c = Compiler /\ code = <<>>

Complete == Len(source) = Len(Families[family])

-----------------------------------------------------------------------------
(* statement(): the next statement of the body.  Trees are not needed when *)
(* it has been compiled.                                                   *)

Compile(s) ==
  /\ code = <<>>
  /\ source' = Append(source, s)
  /\ c' = [Statement(c, Parsed(s, <<Len(source)>>), 0, <<Len(source)>>) EXCEPT !.memo = {}]
  /\ UNCHANGED <<family, code>>

\* gencode: undag each forest, then replace labels by what they are equated to.
gencode(d) ==
  FoldLeft(LAMBDA x, i : IF x.codelist[i].kind = "Switch" THEN x
                         ELSE LET u == undag(x, x.codelist[i].forest) IN [u.c EXCEPT !.codelist[i].forest = u.out],
           d, [i \in DOMAIN d.codelist |-> i])

fixup(d, p) ==
  LET n == d.nodes[p]
  IN  IF n.op = "JUMP" THEN [d EXCEPT !.nodes[n.l].lab = equated(d, @)]
      ELSE IF n.op \in Comparisons THEN [d EXCEPT !.nodes[p].lab = equated(d, @)]
      ELSE d

Emitted(d) ==
  FlattenSeq([i \in DOMAIN d.codelist |-> IF d.codelist[i].kind = "Switch" THEN <<>> ELSE d.codelist[i].forest])

\* The end of the body.
Finish ==
  /\ code = <<>> /\ Complete
  /\ LET d == gencode(Flushed(c))
         roots == Emitted(d)
     IN  /\ c' = FoldLeft(fixup, d, roots)
         /\ code' = roots
  /\ UNCHANGED <<family, source>>

Next ==
  \/ ~Complete /\ \E s \in Families[family][Len(source) + 1] : Compile(s)
  \/ Finish
Spec == Init /\ [][Next]_vars

-----------------------------------------------------------------------------
(* What the emitted code does.                                             *)

Width(ty) == IF islong(ty) THEN Bits(ty) ELSE INT_BITS
Register(ty, n) == n % (2 ^ Width(ty))

\* A conversion reads its operand as the type its node, or its local, has; the
\* load of a common subexpression has neither.
ConvertedFrom(p) ==
  LET kid == c.nodes[c.nodes[p].l]
      sym == c.nodes[kid.l].sym
  IN  IF kid.ty # NoType THEN kid.ty ELSE IF sym[1] = "cse" THEN NoType ELSE TypeOf(sym)

Loaded(k, ty, pattern) ==
  CASE k = "C" -> Register("int", Wrap("char", pattern))
    [] k = "S" -> Register("int", Wrap("short", pattern))
    [] OTHER -> Register(ty, pattern)

Shift(op, ty, a, b) == IF op = "LSH" THEN a * 2 ^ b ELSE a \div 2 ^ b

RECURSIVE Val(_, _), Sym(_, _)

\* The variable an address node stands for.
Sym(m, p) == IF c.nodes[p].op = "INDIR" THEN m.env[Sym(m, c.nodes[p].l)] ELSE c.nodes[p].sym

Val(m, p) ==
  LET n == c.nodes[p]
      a == Val(m, n.l)
      b == Val(m, n.r)
      x == Wrap(n.ty, a)
      y == Wrap(n.ty, b)
  IN  CASE n.op = "CNST" -> Register(n.ty, n.sym[3])
        [] n.op \in {"ADDRG", "ADDRL", "ADRFL"} -> n.sym
        [] n.op = "INDIR" -> LET sym == Sym(m, n.l)
                             IN  IF sym \in DOMAIN m.env THEN m.env[sym] ELSE Loaded(n.k, n.ty, m.mem[sym[1]])
        [] n.op = "ADD" -> Register(n.ty, x + y)
        [] n.op = "SUB" -> Register(n.ty, x - y)
        [] n.op = "MUL" -> Register(n.ty, x * y)
        [] n.op = "DIV" -> Register(n.ty, Quotient(x, y))
        [] n.op = "MOD" -> Register(n.ty, Remainder(x, y))
        [] n.op \in {"LSH", "RSH"} -> Register(n.ty, Shift(n.op, n.ty, x, b % Width(n.ty)))
        [] n.op = "BAND" -> Register(n.ty, a) & Register(n.ty, b)
        [] n.op = "BOR" -> Register(n.ty, a) | Register(n.ty, b)
        [] n.op = "BXOR" -> Register(n.ty, a) ^^ Register(n.ty, b)
        [] n.op = "NEG" -> Register(n.ty, -x)
        [] n.op = "BCOM" -> Register(n.ty, -1 - x)
        [] OTHER -> Register(n.ty, Wrap(n.ty, Wrap(ConvertedFrom(p), a)))

RECURSIVE Traps(_, _)
Traps(m, p) ==
  /\ p # 0
  /\ LET n == c.nodes[p]
         y == Wrap(n.ty, Val(m, n.r))
     IN  \/ Traps(m, n.l) \/ Traps(m, n.r)
         \/ n.op \in {"DIV", "MOD"} /\ (y = 0 \/ (y = -1 /\ Wrap(n.ty, Val(m, n.l)) = Lowest(n.ty)))

Position(lab) == CHOOSE i \in DOMAIN code : c.nodes[code[i]].op = "LABEL" /\ c.nodes[code[i]].lab = lab

\* f() increments the global Counted and returns it.
Called(m) == [m EXCEPT !.mem[Counted] = (@ + 1) % (2 ^ Bits(Declared[Counted].ty))]
CallValue(m) == Loaded("I", "int", Called(m).mem[Counted])

Assigned(m, n) ==
  LET sym == Sym(m, n.l)
      call == c.nodes[n.r].op = "CALL"
      after == IF call THEN Called(m) ELSE m
      v == IF call THEN CallValue(m) ELSE Val(m, n.r)
  IN  IF c.nodes[n.l].op = "ADDRL" THEN [after EXCEPT !.env = (sym :> v) @@ @]
      ELSE [after EXCEPT !.mem[sym[1]] = v % (2 ^ Bits(Declared[sym[1]].ty))]

RECURSIVE Run(_, _, _)
Run(m, i, fuel) ==
  LET n == c.nodes[code[i]]
      taken == Holding(n.op, Wrap(n.ty, Val(m, n.l)), Wrap(n.ty, Val(m, n.r)))
      trapped == IF n.op \in {"LABEL", "JUMP"} THEN FALSE ELSE Traps(m, code[i])
  IN  IF i > Len(code) THEN [m EXCEPT !.end = "next"]
      ELSE IF fuel = 0 THEN [m EXCEPT !.end = "undefined"]
      ELSE IF trapped THEN [m EXCEPT !.end = "trap"]
      ELSE IF n.op = "RET" THEN [m EXCEPT !.end = "return", !.v = Wrap("int", Val(m, n.l))]
      ELSE IF n.op = "JUMP" THEN Run(m, Position(c.nodes[n.l].lab), fuel - 1)
      ELSE IF n.op \in Comparisons THEN Run(m, IF taken THEN Position(n.lab) ELSE i + 1, fuel - 1)
      ELSE IF n.op = "ASGN" THEN Run(Assigned(m, n), i + 1, fuel - 1)
      ELSE IF n.op = "CALL" THEN Run(Called(m), i + 1, fuel - 1)
      ELSE Run(m, i + 1, fuel - 1)

-----------------------------------------------------------------------------
(* Properties.                                                             *)

Globals == {x \in DOMAIN Declared : Declared[x].address # "ADDRL"}
Locals == {<<x>> : x \in DOMAIN Declared \ Globals}

Reference(in) ==
  LET val == [x \in DOMAIN Declared |-> IF x \in Globals THEN in[x] ELSE 0]
  IN  C!Outcome([ok |-> TRUE, val |-> val, set |-> Globals], <<"block">> \o source)

Behaviour(in) ==
  LET mem == [x \in Globals |-> in[x] % (2 ^ Bits(Declared[x].ty))]
  IN  Run([mem |-> mem, env |-> [x \in Locals |-> 0], end |-> "next", v |-> 0], 1, 32 * Fuel)

Agree(want, got) ==
  \/ want.end = "undefined"
  \/ /\ got.end = want.end
     /\ want.end = "return" => got.v = Wrap("int", want.v)
     /\ \A x \in Globals : Wrap(Declared[x].ty, got.mem[x]) = want.env.val[x]

CopiesLocal(n) ==
  /\ n.op = "ASGN" /\ c.nodes[n.l].sym # NoSymbol /\ c.nodes[n.l].sym[1] = "cse" /\ c.nodes[n.r].op = "INDIR"
  /\ c.nodes[c.nodes[n.r].l].op = "ADDRL" /\ c.nodes[c.nodes[n.r].l].sym[1] # "cse"

Stops ==
  \/ c.faults # {}
  \/ \E i \in DOMAIN c.nodes : c.nodes[i].op \in {"CVC", "CVS", "CVI", "CVU"} /\ ConvertedFrom(i) = NoType
  \/ \E i \in DOMAIN code : \/ c.nodes[code[i]].op = "TABLE"
                           \/ CopiesLocal(c.nodes[code[i]])

\* Every expression of a statement, and those that decide where it goes.
RECURSIVE Within(_), Expressions(_), Conditions(_)
Within(a) == {a} \cup UNION {Within(b) : b \in C!Kids(a)}

Parts(s) == {s[i] : i \in StatementsAt(s)}
Own(s) == IF s[1] = "case" THEN {} ELSE {s[i] : i \in ExpressionsAt(s)} \ {<<>>}
Tested(s) ==
  CASE s[1] \in {"if", "while", "switch"} -> {s[2]} [] s[1] \in {"do", "for"} -> {s[3]} \ {<<>>} [] OTHER -> {}

Expressions(s) == UNION {Within(a) : a \in Own(s)} \cup UNION {Expressions(t) : t \in Parts(s)}
Conditions(s) == Tested(s) \cup UNION {Conditions(t) : t \in Parts(s)}

Body == <<"block">> \o source

\* The truth values that expression a asks for.
Asked(a) ==
  CASE a[1] = "cond" -> {a[2]}
    [] a[1] = "bin" /\ a[2] \in {"AND", "OR"} -> {a[3], a[4]}
    [] a[1] = "un" /\ a[2] = "!" -> {a[3]}
    [] OTHER -> {}

\* <<operand, type>> of the conversions that expression a asks for.
Conversions(a) ==
  CASE a[1] = "bin" /\ a[2] \notin {"LSH", "RSH", "AND", "OR"} -> {a[3], a[4]} \X {Common(C!TypeOfExpression(a[3]), C!TypeOfExpression(a[4]))}
    [] a[1] = "cast" -> {<<a[3], a[2]>>}
    [] a[1] = "asgn" -> {<<a[3], C!TypeOfExpression(a[2])>>}
    [] a[1] = "opasgn" -> {<<a[4], Common(C!TypeOfExpression(a[3]), C!TypeOfExpression(a[4]))>>}
    [] a[1] = "cond" -> {a[3], a[4]} \X {C!TypeOfExpression(a)}
    [] OTHER -> {}

Departures ==
  LET exprs == Expressions(Body)
      tests == Conditions(Body) \cup UNION {Asked(a) : a \in exprs}
      Compares(a) ==
        /\ a[1] = "bin" /\ a[2] \in Comparisons
        /\ LET ty == Common(C!TypeOfExpression(a[3]), C!TypeOfExpression(a[4]))
           IN  islong(ty) \/ (ty = "unsigned" /\ a[2] \notin {"EQ", "NE"})
      Negates(a) == a[1] = "un" /\ a[2] = "-" /\ C!TypeOfExpression(a) = "ulong"
      Narrows(v) == v[2] = "ulong" /\ C!TypeOfExpression(v[1]) # "ulong" /\ C!IsConstant(v[1]) /\ C!ConstantValue(v[1]) < 0
  IN  {"compare" : x \in {a \in tests : islong(C!TypeOfExpression(a))} \cup {a \in exprs : Compares(a)}}
      \cup {"negate" : x \in {a \in exprs : Negates(a)}}
      \cup {"constant" : x \in {v \in UNION {Conversions(a) : a \in exprs} : Narrows(v)}}

Targets(roots) ==
  [i \in DOMAIN roots |-> LET n == c.nodes[roots[i]]
                           IN  IF n.op = "JUMP" THEN c.nodes[n.l].lab ELSE IF n.op \in Comparisons THEN n.lab ELSE 0]
Roots == Emitted(c) \o c.forest
Times(seq, x) == Cardinality({i \in DOMAIN seq : seq[i] = x})

\* The counter that decides whether the label after a loop or an if is placed at
\* all is the number of branches on the code list that go to it, and of labels
\* that have been equated to it (jump, equatelab, branch, definelab).
ReferencesCounted ==
  code = <<>> =>
    LET targets == Targets(Roots)
    IN  \A lab \in DOMAIN c.ref : c.ref[lab] = Times(targets, lab) + Times(c.equatedto, lab)

LabelsPlaced ==
  ~Stops => 
    LET targets == Targets(code)
        placed == [i \in DOMAIN code |-> IF c.nodes[code[i]].op = "LABEL" THEN c.nodes[code[i]].lab ELSE 0]
    IN  \A i \in DOMAIN code : targets[i] # 0 => Times(placed, targets[i]) = 1

RECURSIVE Preorder(_)
Preorder(p) == IF p = 0 THEN <<>> ELSE <<p>> \o Preorder(c.nodes[p].l) \o Preorder(c.nodes[p].r)

TreesOnly ==
  LET nodes == FlattenSeq([i \in DOMAIN code |-> Preorder(code[i])])
  IN  Len(nodes) = Cardinality(ToSet(nodes))

\* The code generator is given a list it can take: every branch goes to a label
\* that is placed, and placed once, after labels have been removed, equated and
\* replaced (fixup); and after undag no node has two parents, or a parent and a
\* place in the list, or a place in two forests (visit).
CodeWellFormed == LabelsPlaced /\ TreesOnly

\* What is emitted does for all values of the variables what C says of the
\* source: the same globals, the same value returned, the same end.
KeepsMeaning ==
  code # <<>> /\ ~Stops /\ Departures \subseteq Allowed => \A in \in Inputs : Agree(Reference(in), Behaviour(in))
=============================================================================
