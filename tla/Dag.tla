-------------------------------- MODULE Dag ---------------------------------
(***************************************************************************)
(* From trees to forests of nodes (src/src/rcc/dag.c).  listnodes finds    *)
(* common subexpressions by hashing nodes, and lists the nodes with        *)
(* effects in a forest; walk ends a forest and puts it on the code list;   *)
(* undag later assigns to a temporary each node that is used twice.        *)
(*                                                                         *)
(* The operators take the state of the compiler, c, and return the next    *)
(* one; those that also build a node return both, as [c, p].  A node is    *)
(* its index in c.nodes, and 0 is no node.                                 *)
(***************************************************************************)
EXTENDS Trees, FiniteSets
LOCAL INSTANCE SequencesExt

NoType == ""

Compiler ==
  [nodes |-> <<>>, buckets |-> {}, forest |-> <<>>, memo |-> {}, depth |-> 0,
   ref |-> <<>>, equatedto |-> <<>>,   \* of every label generated so far
   codelist |-> <<>>, switches |-> <<>>, temps |-> 0, faults |-> {}]

Pair(c, p) == [c |-> c, p |-> p]
Fault(c, what) == [c EXCEPT !.faults = @ \cup {what}]

-----------------------------------------------------------------------------
(* Labels.                                                                 *)

\* genlabel(n) makes n consecutive labels, the first of which is nextlabel.
nextlabel(c) == Len(c.ref) + 1
genlabel(c, n) ==
  LET zeros == [i \in 1..n |-> 0] IN [c EXCEPT !.ref = @ \o zeros, !.equatedto = @ \o zeros]

equatelab(c, old, new) ==
  IF c.equatedto[old] # 0 THEN Fault(c, "equated twice")
  ELSE [c EXCEPT !.equatedto[old] = new, !.ref[new] = @ + 1]

RECURSIVE equated(_, _)
equated(c, lab) == IF c.equatedto[lab] = 0 THEN lab ELSE equated(c, c.equatedto[lab])

-----------------------------------------------------------------------------
(* Nodes.                                                                  *)

Node(op, k, l, r, sym) ==
  [op |-> op, k |-> k, ty |-> NoType, l |-> l, r |-> r, sym |-> sym, lab |-> 0,
   count |-> 0, tmp |-> NoSymbol, linked |-> FALSE]
Kids(op, k, l, r) == Node(op, k, l, r, NoSymbol)
LabelNode(op, lab) == [Kids(op, "V", 0, 0) EXCEPT !.lab = lab]
Key(n) == <<n.op, n.k, n.l, n.r, n.sym>>

Uses(n, p) == Cardinality({f \in {"l", "r"} : n[f] = p})
newnode(c, n) ==
  Pair([c EXCEPT !.nodes = Append([p \in DOMAIN c.nodes |-> [c.nodes[p] EXCEPT !.count = @ + Uses(n, p)]], n)],
       Len(c.nodes) + 1)

node(c, n) ==
  LET same == {p \in c.buckets : Key(c.nodes[p]) = Key(n)}
      new == newnode(c, n)
  IN  IF same # {} THEN Pair(c, CHOOSE p \in same : TRUE)
      ELSE Pair([new.c EXCEPT !.buckets = @ \cup {new.p}], new.p)

reset(c) == [c EXCEPT !.buckets = {}]

\* Mutated form: the two reasons to forget a load are joined by "and".
Mut_kill(c, sym) ==
  [c EXCEPT !.buckets = {p \in @ : c.nodes[p].op = "INDIR" =>
                             \/ isaddrop(c.nodes[c.nodes[p].l].op)
                             \/ c.nodes[c.nodes[p].l].sym # sym}]

\* After a store to sym: forget the loads from sym and through any pointer.
kill(c, sym) ==
  [c EXCEPT !.buckets = {p \in @ : c.nodes[p].op = "INDIR" =>
                             /\ isaddrop(c.nodes[c.nodes[p].l].op)
                             /\ c.nodes[c.nodes[p].l].sym # sym}]

list(c, p) ==
  IF p = 0 \/ c.nodes[p].linked THEN c
  ELSE [c EXCEPT !.forest = Append(@, p), !.nodes[p].linked = TRUE]
unlist(c) == [c EXCEPT !.forest = Front(@)]

EndsWithLabel(c) == c.forest # <<>> /\ c.nodes[Last(c.forest)].op = "LABEL"

jump(c, lab) ==
  LET to == newnode(c, LabelNode("ADDRG", lab))
      new == newnode(to.c, Kids("JUMP", "V", to.p, 0))
  IN  Pair([new.c EXCEPT !.ref[lab] = @ + 1], new.p)

labelnode(c, lab) ==
  LET new == newnode(c, LabelNode("LABEL", lab))
  IN  reset(IF EndsWithLabel(c) THEN equatelab(c, lab, c.nodes[Last(c.forest)].lab)
            ELSE list(new.c, new.p))

Opposite == [EQ |-> "NE", NE |-> "EQ", GT |-> "LE", LE |-> "GT", LT |-> "GE", GE |-> "LT"]

-----------------------------------------------------------------------------
(* listnodes: the nodes of a tree.  With tlab or flab the tree is listed   *)
(* for control: go to tlab if it is true, to flab if it is false, and fall *)
(* through otherwise.                                                      *)

RECURSIVE listnodes(_, _, _, _)

ListBoth(c, t) ==
  LET l == listnodes(c, t.l, 0, 0)  r == listnodes(l.c, t.r, 0, 0)
  IN  [c |-> r.c, l |-> l.p, r |-> r.p]

\* && and ||: Short is the label that the first operand may jump to.
Connective(c, t, tlab, flab) ==
  LET start == IF c.depth = 0 THEN reset(c) ELSE c
      deeper == [start EXCEPT !.depth = @ + 1]
      given == IF t.op = "AND" THEN flab ELSE tlab
      short == IF given # 0 THEN given ELSE nextlabel(deeper)
      ready == IF given # 0 THEN deeper ELSE genlabel(deeper, 1)
      first == IF t.op = "AND" THEN listnodes(ready, t.l, 0, short) ELSE listnodes(ready, t.l, short, 0)
      second == IF t.op = "AND" THEN listnodes(first.c, t.r, IF given # 0 THEN 0 ELSE tlab, given)
                ELSE listnodes(first.c, t.r, given, IF given # 0 THEN 0 ELSE flab)
      done == IF given # 0 THEN second.c ELSE labelnode(second.c, short)
  IN  Pair([done EXCEPT !.depth = @ - 1], 0)

\* The end of one arm of ?:; a label that ends it is the label after the whole.
Arm(c, after) ==
  IF c.forest = <<>> THEN Fault(c, "empty forest")
  ELSE IF EndsWithLabel(c) THEN unlist(equatelab(c, c.nodes[Last(c.forest)].lab, after)) ELSE c

Conditional(c, t) ==
  LET else == nextlabel(c)  after == else + 1
      tested == reset(listnodes(genlabel(c, 2), t.l, 0, else).c)
      out == jump(Arm(listnodes(tested, t.r.l, 0, 0).c, after), after)
      left == labelnode(list(out.c, out.p), else)
      right == labelnode(Arm(listnodes(left, t.r.r, 0, 0).c, after), after)
  IN  IF t.sym = NoSymbol THEN Pair(right, 0) ELSE listnodes(right, idtree(t.sym, t.sym[3] \o <<0>>), 0, 0)

Constant(c, t, tlab, flab) ==
  LET lab == IF tlab # 0 THEN tlab ELSE flab
      to == jump(c, lab)
  IN  IF lab = 0 THEN node(c, Node("CNST", t.k, 0, 0, <<"constant", t.ty, t.v>>))
      ELSE IF (Value("I", t) # 0) = (tlab # 0) THEN Pair(list(to.c, to.p), 0)
      ELSE Pair(c, 0)

\* e++ lists the load of e before the store.
IsPostfix(t) ==
  /\ t.l # NoTree /\ t.r # NoTree
  /\ t.r.op = "ASGN" /\ t.l.op = "INDIR" /\ t.l.l = t.r.l

Comma(c, t, tlab, flab) ==
  LET old == listnodes(c, t.l, 0, 0)
  IN  IF IsPostfix(t) THEN Pair(listnodes(list(old.c, old.p), t.r, 0, 0).c, old.p)
      ELSE IF t.r # NoTree THEN listnodes(old.c, t.r, tlab, flab)
      ELSE listnodes(c, t.l, tlab, flab)

Call(c, t) ==
  LET f == listnodes(c, t.l, 0, 0)
      call == newnode(f.c, Kids("CALL", t.k, f.p, 0))
  IN  Pair(reset(list(call.c, call.p)), call.p)

Comparison(c, t, tlab, flab) ==
  LET kids == ListBoth(c, t)
      lab == IF tlab # 0 THEN tlab ELSE flab
      test == newnode(kids.c, [Kids(IF tlab # 0 THEN t.op ELSE Opposite[t.op], t.k, kids.l, kids.r) EXCEPT !.lab = lab])
  IN  Pair([list(test.c, test.p) EXCEPT !.ref[lab] = @ + 1], test.p)

Assignment(c, t) ==
  LET kids == ListBoth(c, t)
      asgn1 == newnode(kids.c, [Kids("ASGN", t.k, kids.l, kids.r) EXCEPT !.ty = t.r.ty])
      listed == list(asgn1.c, asgn1.p)
  IN  listnodes(IF isaddrop(t.l.op) THEN kill(listed, t.l.sym) ELSE reset(listed), t.r, 0, 0)

Operation(c, t) == LET kids == ListBoth(c, t) IN node(kids.c, Kids(t.op, t.k, kids.l, kids.r))

Return(c, t) ==
  LET l == listnodes(c, t.l, 0, 0)
      ret == newnode(l.c, Kids("RET", t.k, l.p, 0))
  IN  Pair(list(ret.c, ret.p), ret.p)

Listed(c, t, tlab, flab) ==
  CASE t.op \in {"AND", "OR"} -> Connective(c, t, tlab, flab)
    [] t.op = "COND" -> Conditional(c, t)
    [] t.op = "CNST" -> Constant(c, t, tlab, flab)
    [] t.op = "RIGHT" -> Comma(c, t, tlab, flab)
    [] t.op = "CALL" -> Call(c, t)
    [] t.op \in Comparisons -> Comparison(c, t, tlab, flab)
    [] t.op = "ASGN" -> Assignment(c, t)
    [] t.op = "RET" -> Return(c, t)
    [] t.op \in {"ADDRG", "ADDRL", "ADRFL"} -> node(c, Node(t.op, t.k, 0, 0, t.sym))
    [] OTHER -> Operation(c, t)

\* A tree is listed once: tp->node remembers its node.  The node takes the
\* type of the tree, a comparison's too, which until then had its operands'.
Remembered(t, new) ==
  IF new.p = 0 THEN new
  ELSE Pair([new.c EXCEPT !.nodes[new.p].ty = t.ty, !.memo = @ \cup {<<t, new.p>>}], new.p)
listnodes(c, t, tlab, flab) ==
  LET known == {m \in c.memo : m[1] = t}
  IN  IF t = NoTree THEN Pair(c, 0)
      ELSE IF known # {} THEN Pair(c, (CHOOSE m \in known : TRUE)[2])
      ELSE IF t.op = "NOT" THEN listnodes(c, t.l, flab, tlab)
      ELSE Remembered(t, Listed(c, t, tlab, flab))

\* End the forest, and put it on the code list.
Flushed(c) ==
  reset(IF c.forest = <<>> THEN c
        ELSE [c EXCEPT !.codelist = Append(@, [kind |-> "Gen", forest |-> c.forest]), !.forest = <<>>,
                       !.nodes[Last(c.forest)].linked = FALSE])
walk(c, t, tlab, flab) == Flushed(listnodes(c, t, tlab, flab).c)

-----------------------------------------------------------------------------
(* undag: a node used more than once is computed into a temporary before   *)
(* its first use, and loaded from there afterwards.  out is the forest     *)
(* being written.                                                          *)

AddressOf(tmp) == Node("ADDRL", "P", 0, 0, tmp)
LoadOf(tmp) == IF tmp[2] = "unsigned" THEN "I" ELSE IF tmp[2] = "pointer" THEN "P" ELSE ttob(tmp[2])
TypeOfLetter(k) == IF k = "P" THEN "pointer" ELSE btot(k)

\* A fresh load, used once, of a local or temporary.
Reload(c, k, sym) ==
  LET a == newnode(c, AddressOf(sym))
      load == newnode(a.c, Kids("INDIR", k, a.p, 0))
  IN  Pair([load.c EXCEPT !.nodes[load.p].count = 1], load.p)

tmpnode(c, p) ==
  LET left == c.nodes[p].count - 1
      tmp == c.nodes[p].tmp
  IN  Reload([c EXCEPT !.nodes[p].count = left, !.nodes[p].tmp = IF left = 0 THEN NoSymbol ELSE tmp],
             LoadOf(tmp), tmp)

asgnnode(c, tmp, p) ==
  LET a == newnode(c, AddressOf(tmp))
      asgn1 == newnode(a.c, Kids("ASGN", LoadOf(tmp), a.p, p))
  IN  Pair(asgn1.c, asgn1.p)

RECURSIVE visit(_, _, _, _)
VisitKids(c, out, p) ==
  LET l == visit(c, out, c.nodes[p].l, FALSE)
      r == visit([l.c EXCEPT !.nodes[p].l = l.p], l.out, c.nodes[p].r, FALSE)
  IN  [c |-> [r.c EXCEPT !.nodes[p].r = r.p], out |-> r.out, p |-> p]

\* Computes node p into a temporary, and is a load of it unless p is listed.
Share(c, out, p, listed) ==
  LET kids == VisitKids(c, out, p)
      tmp == <<"cse", TypeOfLetter(c.nodes[p].k), kids.c.temps>>
      set == asgnnode([kids.c EXCEPT !.nodes[p].tmp = tmp, !.temps = @ + 1], tmp, p)
      load == tmpnode(set.c, p)
      out2 == Append(kids.out, set.p)
  IN  IF listed THEN [c |-> set.c, out |-> out2, p |-> p] ELSE [c |-> load.c, out |-> out2, p |-> load.p]

\* Mutated form: what is used twice is not shared.
Mut_visit(c, out, p, listed) == IF p = 0 THEN [c |-> c, out |-> out, p |-> 0] ELSE VisitKids(c, out, p)

visit(c, out, p, listed) ==
  LET n == c.nodes[p]
      With(pair) == [c |-> pair.c, out |-> out, p |-> pair.p]
      again == newnode(c, Node(n.op, "P", 0, 0, n.sym))
  IN  IF p = 0 THEN [c |-> c, out |-> out, p |-> 0]
      ELSE IF n.tmp # NoSymbol THEN With(tmpnode(c, p))
      ELSE IF n.count = 0 \/ (n.count = 1 /\ n.op # "CALL") THEN VisitKids(c, out, p)
      ELSE IF n.op \in {"ADDRL", "ADRFL"}
      THEN With(Pair([again.c EXCEPT !.nodes[again.p].count = 1], again.p))
      ELSE IF n.op = "INDIR" /\ ~listed /\ c.nodes[n.l].op = "ADDRL"
      THEN With(Reload(c, n.k, c.nodes[n.l].sym))
      ELSE Share(c, out, p, listed)

RECURSIVE Undag(_, _, _)
Undag(c, out, forest) ==
  IF forest = <<>> THEN [c |-> c, out |-> out]
  ELSE LET p == Head(forest)
           v == visit(c, out, p, TRUE)
           kept == ~(c.nodes[p].op = "INDIR" \/ (c.nodes[p].op = "CALL" /\ c.nodes[p].count >= 1))
       IN  Undag(v.c, IF kept THEN Append(v.out, p) ELSE v.out, Tail(forest))

undag(c, forest) == Undag(c, <<>>, forest)
=============================================================================
