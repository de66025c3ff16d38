----------------------------- MODULE Statements -----------------------------
(***************************************************************************)
(* The statements of dynamic code and the code list they become            *)
(* (src/src/rcc/stmt.c).  Each operator takes the compiler's state to the  *)
(* next one; loop is the first label of the enclosing loop or 0, id the    *)
(* place of the statement in the source.  The forms of a statement are     *)
(* those of Statement.                                                     *)
(***************************************************************************)
EXTENDS Dag
LOCAL INSTANCE SequencesExt

CONSTANT WalkLimit   \* the nodes an expression statement may leave in the hash table

\* Where the components of a statement are expressions and statements.
ExpressionsAt(s) ==
  CASE s[1] \in {"expr", "if", "while", "switch", "return"} -> {2}
    [] s[1] = "do" -> {3}
    [] s[1] = "for" -> {2, 3, 4}
    [] s[1] = "case" -> 3..Len(s)
    [] OTHER -> {}
StatementsAt(s) ==
  CASE s[1] \in {"if", "while", "switch"} -> 3..Len(s)
    [] s[1] \in {"do", "case", "default"} -> {2}
    [] s[1] = "for" -> {5}
    [] s[1] = "block" -> 2..Len(s)
    [] OTHER -> {}

\* The statement with the tree of each of its expressions, none for one left out.
RECURSIVE Parsed(_, _)
Parsed(s, id) ==
  [i \in DOMAIN s |-> IF i \in StatementsAt(s) THEN Parsed(s[i], id \o <<i>>)
                      ELSE IF i \notin ExpressionsAt(s) THEN s[i]
                      ELSE IF s[i] = <<>> THEN NoTree ELSE Parse(s[i], id \o <<i>>)]

Without(s, i) == SubSeq(s, 1, i - 1) \o SubSeq(s, i + 1, Len(s))
IsJumpTo(c, i, lab) == c.codelist[i].kind = "Jump" /\ c.nodes[c.nodes[c.codelist[i].forest[1]].l].lab = lab
LabelAt(c, i) == c.nodes[c.codelist[i].forest[1]].lab

Code(c, kind, p) == [c EXCEPT !.codelist = Append(@, [kind |-> kind, forest |-> <<p>>])]

-----------------------------------------------------------------------------
(* Labels and branches.                                                    *)

\* Drop the jumps to lab that only labels separate from item i.
RECURSIVE DropJumps(_, _, _)
DropJumps(c, i, lab) ==
  IF i = 0 THEN c
  ELSE IF c.codelist[i].kind = "Label" THEN DropJumps(c, i - 1, lab)
  ELSE IF IsJumpTo(c, i, lab)
  THEN DropJumps([c EXCEPT !.ref[lab] = @ - 1, !.codelist = Without(@, i)], i - 1, lab)
  ELSE c

PlaceLabel(new, lab) == DropJumps(Code(new.c, "Label", new.p), Len(new.c.codelist), lab)
definelab(c, lab) == PlaceLabel(newnode(Flushed(c), LabelNode("LABEL", lab)), lab)

RECURSIVE equal(_, _, _)
equal(c, lab, dst) == dst # 0 /\ (lab = dst \/ equal(c, lab, c.equatedto[dst]))

\* Labels just before a jump are that jump's target.
RECURSIVE Retarget(_, _)
Retarget(c, lab) ==
  LET i == Len(c.codelist)
  IN  IF i > 0 /\ c.codelist[i].kind = "Label" /\ ~equal(c, LabelAt(c, i), lab)
      THEN Retarget([equatelab(c, LabelAt(c, i), lab) EXCEPT !.codelist = Without(@, i)], lab)
      ELSE c

\* Mutated form: a jump left out stays counted.
Mut_AddJump(c, p, lab) ==
  IF c.codelist # <<>> /\ Last(c.codelist).kind \in {"Jump", "Switch"} THEN c ELSE Code(c, "Jump", p)

\* A jump that follows a jump or a switch is never reached and left out.
AddJump(c, p, lab) ==
  IF c.codelist # <<>> /\ Last(c.codelist).kind \in {"Jump", "Switch"} THEN [c EXCEPT !.ref[lab] = @ - 1]
  ELSE Code(c, "Jump", p)
Branch(new, lab) == AddJump(Retarget(new.c, lab), new.p, lab)
branch(c, lab) == Branch(jump(Flushed(c), lab), lab)

DefineIfUsed(c, lab) == IF c.ref[lab] > 0 THEN definelab(c, lab) ELSE c

-----------------------------------------------------------------------------
(* Expressions of statements.                                              *)

conditional(p) == IF p = NoTree THEN NoTree ELSE cond(p)

\* The forest goes on over expression statements until something must end it.
EndedIfNeeded(c) == IF c.buckets = {} \/ Cardinality(c.buckets) > WalkLimit THEN Flushed(c) ELSE c
ExpressionStatement(c, p) == EndedIfNeeded(listnodes(c, root(p), 0, 0).c)

Returned(c, p) == walk(c, tree("RET", "I", p.ty, p, NoTree), 0, 0)
PromotedTree(p) == cast(p, promote(p.ty))
retcode(c, p) == Returned(c, PromotedTree(p))

-----------------------------------------------------------------------------
(* if, while, do and for.                                                  *)

RECURSIVE Statement(_, _, _, _)

Else(c, s, lab, loop, id) == Statement(definelab(branch(c, lab + 1), lab), s[4], loop, id \o <<2>>)
IfElse(c, s, lab, loop, id) ==
  IF Len(s) = 3 THEN definelab(c, lab) ELSE DefineIfUsed(Else(c, s, lab, loop, id), lab + 1)
ifstmt(c, s, lab, loop, id) ==
  IfElse(Statement(walk(genlabel(c, 2), conditional(s[2]), 0, lab), s[3], loop, id \o <<1>>),
         s, lab, loop, id)

\* The body of a loop and, after it, the test that leads back to the body.
LoopBody(c, s, lab, id) == definelab(Statement(definelab(c, lab), s, lab, id \o <<1>>), lab + 1)
LoopTest(c, e, lab) == DefineIfUsed(walk(c, e, lab, 0), lab + 2)

whilestmt(c, s, lab, id) ==
  LoopTest(LoopBody(branch(Flushed(genlabel(c, 4)), lab + 1), s[3], lab, id), conditional(s[2]), lab)
dostmt(c, s, lab, id) ==
  LoopTest(LoopBody(genlabel(c, 4), s[2], lab, id), conditional(s[3]), lab)

\* The first test of a for is left out when e1 assigns a constant that passes it.
Passes(p) == IsCnst("I", p) /\ p.v # 0
foldcond(e1, e2) ==
  /\ e1 # NoTree /\ e1.op = "ASGN" /\ isaddrop(e1.l.op) /\ e1.r.op = "CNST"
  /\ e2.op \in Comparisons /\ e2.l.op = "INDIR" /\ e2.l.l.sym = e1.l.sym
  /\ e2.r.op = "CNST" /\ e2.r.k = e1.r.k
  /\ Passes(Comparing(e2.op, "I", <<e1.r, e2.r>>))

\* e1 is listed twice; listed, a tree is not listed again.
ForStart(c, e1, tested, lab) ==
  LET ready == walk(walk(c, e1, 0, 0), e1, 0, 0) IN IF tested THEN branch(ready, lab + 3) ELSE ready
ForEnd(c, e2, tested, lab) ==
  IF e2 = NoTree THEN DefineIfUsed(branch(c, lab), lab + 2)
  ELSE LoopTest(IF tested THEN definelab(c, lab + 3) ELSE c, e2, lab)
For(c, e1, e2, e3, s, tested, lab, id) ==
  ForEnd(walk(LoopBody(ForStart(c, e1, tested, lab), s, lab, id), e3, 0, 0), e2, tested, lab)
Folding(c, e1, e2, e3, s, lab, id) == For(c, e1, e2, e3, s, e2 # NoTree /\ ~foldcond(e1, e2), lab, id)
forstmt(c, s, lab, id) ==
  Folding(genlabel(c, 4), root(s[2]), conditional(s[3]), root(s[4]), s[5], lab, id)

-----------------------------------------------------------------------------
(* switch.  The cases seen so far are on top of c.switches.                *)

Top(c) == Last(c.switches)

\* Cases in increasing order of their values.
caselabel(c, v, lab) ==
  LET sw == Top(c)
      k == Cardinality({i \in DOMAIN sw.values : sw.values[i] < v})
      Insert(seq, x) == SubSeq(seq, 1, k) \o <<x>> \o SubSeq(seq, k + 1, Len(seq))
  IN  [c EXCEPT !.switches[Len(c.switches)] =
         [@ EXCEPT !.values = Insert(@, v), !.labels = Insert(@, lab)]]

\* The cases are split into runs with values that are dense; den is at least 1/2.
Dense(v, i, j) ==
  LET width == Wrap("int", v[j] - v[i] + 1) IN width = 0 \/ (width > 0 /\ 2 * (j - i + 1) >= width)
RECURSIVE Merged(_, _, _)
Merged(v, starts, k) ==
  IF Len(starts) > 1 /\ Dense(v, starts[Len(starts) - 1], k) THEN Merged(v, Front(starts), k) ELSE starts
Runs(v) == FoldLeft(LAMBDA starts, k : Merged(v, Append(starts, k), k), <<>>, [k \in DOMAIN v |-> k])

cmp(op, sym, n, id) == compare(op, cast(idtree(sym, id), "int"), consttree(n, "int", id \o <<1>>))

\* The tests for the cases l..u of one run and for the runs below and above it.
Tests(v, labels, l, u, below, above, lolab, hilab) ==
  IF u - l + 1 > 3 THEN << <<"LT", v[l], lolab>>, <<"GT", v[u], hilab>> >>
  ELSE [i \in 1..(u - l + 1) |-> <<"EQ", v[l + i - 1], labels[l + i - 1]>>]
       \o (IF below THEN << <<"GT", v[u], hilab>> >> ELSE IF above THEN << <<"LT", v[l], lolab>> >> ELSE <<>>)

RECURSIVE Tried(_, _, _, _, _)
Tried(c, tests, i, sym, id) ==
  IF i > Len(tests) THEN c
  ELSE Tried(listnodes(c, cmp(tests[i][1], sym, tests[i][2], id \o <<i>>), tests[i][3], 0).c, tests, i + 1, sym, id)

ListTable(new) == Code(Flushed(list(new.c, new.p)), "Switch", 0)
EndOfRun(c, size, alone, deflab) ==
  IF size > 3 THEN ListTable(newnode(c, Kids("TABLE", "V", 0, 0)))
  ELSE IF alone THEN branch(c, deflab) ELSE Flushed(c)

\* Binary search among the runs lb..ub.
RECURSIVE swcode(_, _, _, _, _, _)
Below(c, sw, runs, lb, k, lab, id) == IF k > lb THEN swcode(definelab(c, lab), sw, runs, lb, k - 1, id) ELSE c
Above(c, sw, runs, k, ub, lab, id) == IF k < ub THEN swcode(definelab(c, lab), sw, runs, k + 1, ub, id) ELSE c
Search(c, sw, runs, lb, k, ub, lolab, hilab, id) ==
  LET u == IF k = Len(runs) THEN Len(sw.values) ELSE runs[k + 1] - 1
      tests == Tests(sw.values, sw.labels, runs[k], u, k > lb, k < ub, lolab, hilab)
      new == genlabel(c, Cardinality({x \in {lb, ub} : x # k}))
  IN  Above(Below(EndOfRun(Tried(new, tests, 1, sw.sym, id \o <<k>>), u - runs[k] + 1, lb = ub, sw.deflab),
                  sw, runs, lb, k, lolab, id),
            sw, runs, k, ub, hilab, id)
swcode(c, sw, runs, lb, ub, id) ==
  LET k == (lb + ub) \div 2
      lolab == IF k > lb THEN nextlabel(c) ELSE sw.deflab
      hilab == IF k = ub THEN sw.deflab ELSE IF k > lb THEN nextlabel(c) + 1 ELSE nextlabel(c)
  IN  Search(c, sw, runs, lb, k, ub, lolab, hilab, id)

\* The code of the body is kept aside and put after the tests.
Selection(c, sw, lab, id) ==
  IF sw.values = <<>> THEN branch(c, lab)
  ELSE LET runs == Runs(sw.values) IN branch(swcode(c, sw, runs, 1, Len(runs), id \o <<2>>), lab)
Select(c, head, sw, lab, id) ==
  LET body == SubSeq(c.codelist, Len(head) + 2, Len(c.codelist))
  IN  [Selection([c EXCEPT !.codelist = head, !.switches = Front(@)], sw, lab, id) EXCEPT !.codelist = @ \o body]
EndSwitch(c, head, lab, id) ==
  Select(DefineIfUsed(IF Top(c).deflab = 0 THEN definelab(c, lab) ELSE c, lab + 1), head,
         [Top(c) EXCEPT !.deflab = lab], lab, id)
SwitchOn(c, sym, s, lab, loop, id) ==
  LET sw == [sym |-> sym, lab |-> lab, deflab |-> 0, values |-> <<>>, labels |-> <<>>]
  IN  EndSwitch(Statement(Code([c EXCEPT !.switches = Append(@, sw)], "Switch", 0), s, loop, id \o <<1>>),
                c.codelist, lab, id)
Switch(c, e, s, lab, loop, id) ==
  LET sym == Temporary(e.ty, id)
  IN  IF e.op = "INDIR" /\ isaddrop(e.l.op) /\ TypeOf(e.l.sym) = e.ty
      THEN SwitchOn(Flushed(c), e.l.sym, s, lab, loop, id)
      ELSE SwitchOn(walk(c, asgn(sym, e, id \o <<0, 0>>), 0, 0), sym, s, lab, loop, id)
swstmt(c, s, lab, loop, id) ==
  Switch(genlabel(c, 2), PromotedTree(s[2]), s[3], lab, loop, id)

\* case e1: case e2: ... S, all with one label.
RECURSIVE CaseLabels(_, _, _, _)
CaseLabels(c, s, i, lab) ==
  IF i > Len(s) THEN c
  ELSE CaseLabels(caselabel(c, Wrap("int", cast(s[i], TypeOf(Top(c).sym)).v), lab), s, i + 1, lab)
case(c, s, lab, loop, id) ==
  Statement(CaseLabels(definelab(genlabel(c, 1), lab), s, 3, lab), s[2], loop, id \o <<1>>)

default(c, s, loop, id) ==
  Statement(definelab([c EXCEPT !.switches[Len(c.switches)].deflab = Top(c).lab], Top(c).lab), s[2], loop, id)

-----------------------------------------------------------------------------

\* The statements of a block from its i-th on.
RECURSIVE Sequence(_, _, _, _, _)
Sequence(c, s, i, loop, id) ==
  IF i > Len(s) THEN c ELSE Sequence(Statement(c, s[i], loop, id \o <<i>>), s, i + 1, loop, id)

compound(c, s, loop, id) == Flushed(Sequence(Flushed(c), s, 2, loop, id))

InSwitch(c, loop) == c.switches # <<>> /\ Top(c).lab > loop

Statement(c, s, loop, id) ==
  CASE s[1] = "expr" -> ExpressionStatement(c, s[2])
    [] s[1] = "if" -> ifstmt(c, s, nextlabel(c), loop, id)
    [] s[1] = "while" -> whilestmt(c, s, nextlabel(c), id)
    [] s[1] = "do" -> dostmt(c, s, nextlabel(c), id)
    [] s[1] = "for" -> forstmt(c, s, nextlabel(c), id)
    [] s[1] = "switch" -> swstmt(c, s, nextlabel(c), loop, id)
    [] s[1] = "case" -> case(c, s, nextlabel(c), loop, id)
    [] s[1] = "default" -> default(c, s, loop, id)
    [] s[1] = "block" -> compound(c, s, loop, id)
    [] s[1] \in {"break", "continue"} ->
         branch(Flushed(c), IF s[1] = "continue" THEN loop + 1
                            ELSE IF InSwitch(c, loop) THEN Top(c).lab + 1 ELSE loop + 2)
    [] s[1] = "return" -> retcode(c, s[2])
=============================================================================
