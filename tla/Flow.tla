-------------------------------- MODULE Flow --------------------------------
(***************************************************************************)
(* How icode places the locals of a function, src/src/icode: flow graph    *)
(* and live variables (cfg.c), live intervals by strongly connected        *)
(* components (li-scc.c) and from live variables (li-full.c), graph        *)
(* colouring (reg-gc.c), priorities and the driver (reg.c).                *)
(*                                                                         *)
(* The locals are those of one class; instructions keep what these passes  *)
(* read of them: the local defined, the locals used, the label.  Programs  *)
(* are scripts, each step a set of instructions to choose from, that end   *)
(* with a return and place every label they use once.  When its locals are *)
(* placed a program runs: a value is the instruction that defined it, `env'*)
(* holds what the program means and `store' what registers and slots hold. *)
(*                                                                         *)
(* Linear scan itself is module LinearScan: here i_ra_ls may be any        *)
(* placement in which locals whose intervals meet share no register.       *)
(***************************************************************************)
EXTENDS Integers, Sequences, FiniteSets, SequencesExt, Functions

CONSTANTS
  Vars,       \* locals: numbers from 1
  Regs,       \* i_iregx: the registers icode allocates, numbers
  Memory,     \* the locals declared I_MEMORY
  Scripts,    \* name -> sequence of sets of instructions
  RefCount,   \* name -> REFCNT of each local
  Modes,      \* the values of i_ralloctype to try
  Executed    \* the modes in which the finished program is run

ASSUME FlowAssumption ==
  /\ Vars \subseteq Nat \ {0} /\ Regs \subseteq Nat /\ Regs # {} /\ Memory \subseteq Vars
  /\ IsFiniteSet(Vars) /\ IsFiniteSet(Regs)
  /\ RefCount \in [DOMAIN Scripts -> [Vars -> Nat]]
  /\ Executed \subseteq Modes /\ Modes \subseteq {"RA_EZ", "RA_GC", "RA_LR", "RA_LS"}

Insn(k, d, u, l) == [k |-> k, d |-> d, u |-> u, l |-> l]
Op(d, u)    == Insn("op", {d}, u, 0)       \* I_BOP, I_MOPR, I_UOP, I_SET, ...
Lea(d, m)   == Insn("lea", {d}, {m}, 0)
Use(u)      == Insn("use", {}, u, 0)       \* I_MOPW, I_ARG
Br(u, l)    == Insn("br", {}, u, l)
Jmp(l)      == Insn("jmp", {}, {}, l)
Lbl(l)      == Insn("lbl", {}, {}, l)
Call(d, u)  == Insn("call", d, u, 0)
Ret(u)      == Insn("ret", {}, u, 0)

\* What instructions look like: only these kinds define a local, and one at most.
WellFormed(i) ==
  /\ i \in [k : {"op", "lea", "use", "br", "jmp", "lbl", "call", "ret"}, d : SUBSET Vars, u : SUBSET Vars, l : Nat]
  /\ \A v, w \in i.d : v = w
  /\ i.d # {} => i.k \in {"op", "lea", "call"}
  /\ i.k \in {"jmp", "lbl"} => i.u = {}

\* A script ends with a return, places each label at most once, and places each
\* label that it mentions in every program it stands for.
ASSUME ScriptAssumption ==
  \A x \in DOMAIN Scripts :
    LET s == Scripts[x] IN
    /\ s # <<>> /\ s \in Seq(SUBSET UNION {s[k] : k \in DOMAIN s})
    /\ \A k \in DOMAIN s : \A i \in s[k] : WellFormed(i) /\ (k = Len(s) => i.k = "ret")
    /\ \A k \in DOMAIN s : \A i \in s[k] : i.k \in {"br", "jmp"} =>
         \E m \in DOMAIN s : \A j \in s[m] : j.k = "lbl" /\ j.l = i.l
    /\ \A k, m \in DOMAIN s : \A i \in s[k], j \in s[m] : i.k = "lbl" /\ j.k = "lbl" /\ i.l = j.l => k = m

VARIABLES
  script, code,  \* the program and what i_emit's buffer holds of it
  mode,          \* i_ralloctype
  phase,         \* the pass that runs next
  bb,            \* basic blocks in layout order
  lv,            \* live variables and the counts of outstanding updates
  visit,         \* depth-first traversals of the flow graph
  lr,            \* local -> live interval, for locals that have one
  nops,          \* instructions replaced by mk_nop
  ig,            \* interference graph, the copy being taken apart, stack
  loc,           \* local -> SCLASS and ADDR
  pc, env, store \* the finished program running

vars == <<script, code, mode, phase, bb, lv, visit, lr, nops, ig, loc, pc, env, store>>

REFCNT(v) == RefCount[script][v]

Undecided == <<"undecided", 0>>
Reg(r) == <<"reg", r>>
Slot(v) == <<"slot", v>>
Places == {Undecided} \cup {Reg(r) : r \in Regs \cup {-1}} \cup {Slot(v) : v \in Vars}
NoGraph == [row |-> <<>>]

Init ==
  /\ script \in DOMAIN Scripts /\ code = <<>>
  /\ mode \in Modes /\ phase = "i_op"
  /\ bb = <<>> /\ lv = <<>> /\ visit = <<>> /\ lr = <<>> /\ nops = {} /\ ig = NoGraph
  /\ loc = [v \in Vars |-> IF v \in Memory THEN Slot(v) ELSE Undecided]
  /\ pc = 0 /\ env = <<>> /\ store = <<>>

\* The client emits its next instruction.
Emit ==
  /\ phase = "i_op"
  /\ \E i \in Scripts[script][Len(code) + 1] :
       /\ code' = Append(code, i)
       /\ phase' = IF Len(code') = Len(Scripts[script]) THEN "i_fg_build" ELSE phase
  /\ UNCHANGED <<script, mode, bb, lv, visit, lr, nops, ig, loc, pc, env, store>>

-----------------------------------------------------------------------------
(* Flow graph.                                                             *)

bb_alloc(h) == [h |-> h, t |-> 0, use |-> {}, def |-> {}, n |-> <<>>, p |-> <<>>]

bb_linkbb(bs, p, s) == [[bs EXCEPT ![p].n = Append(@, s)] EXCEPT ![s].p = Append(@, p)]

\* A reference to a label not placed yet waits in fwdrefs.
bb_linklbl(s, l) ==
  IF s.lbl2bb[l] # 0 THEN [s EXCEPT !.bs = bb_linkbb(@, s.b, s.lbl2bb[l])]
  ELSE [s EXCEPT !.fwdrefs = Append(@, <<s.b, l>>)]

bb_finalize(s, cp, more, link) ==
  LET done == [s.bs EXCEPT ![s.b].t = cp]
      new == Append(done, bb_alloc(cp + 1))
  IN  IF ~more THEN [s EXCEPT !.bs = done]
      ELSE [s EXCEPT !.bs = IF link THEN bb_linkbb(new, s.b, Len(new)) ELSE new, !.b = Len(new)]

\* markuse of the operands, then markdef of the destination.
Mark(b, i) ==
  LET use == b.use \cup (i.u \ b.def)
  IN  [b EXCEPT !.use = use, !.def = @ \cup (i.d \ use)]

\* One instruction of i_fg_build's loop.
Scan(s, cp) ==
  LET i == code[cp]
      marked == [s EXCEPT !.bs[s.b] = Mark(@, i)]
  IN  CASE i.k = "br" -> bb_finalize(bb_linklbl(marked, i.l), cp, cp < Len(code), TRUE)
        [] i.k = "jmp" -> bb_finalize(bb_linklbl(marked, i.l), cp, cp < Len(code), FALSE)
        [] i.k = "ret" -> bb_finalize(marked, cp, cp < Len(code), FALSE)
        [] i.k = "call" -> bb_finalize(marked, cp, cp < Len(code), TRUE)
        [] i.k = "lbl" -> LET at == IF cp > s.bs[s.b].h THEN bb_finalize(s, cp - 1, TRUE, TRUE) ELSE s
                          IN  [at EXCEPT !.lbl2bb[i.l] = at.b]
        [] OTHER -> marked

\* The loop after n instructions.
Scanned[n \in 0 .. Len(code)] ==
  IF n = 0 THEN [bs |-> <<bb_alloc(1)>>, b |-> 1, lbl2bb |-> [l \in {code[cp].l : cp \in DOMAIN code} |-> 0], fwdrefs |-> <<>>]
  ELSE Scan(Scanned[n - 1], n)

Built == Scanned[Len(code)]

\* The first n forward references resolved.
Resolved[n \in 0 .. Len(Built.fwdrefs)] ==
  IF n = 0 THEN Built.bs
  ELSE bb_linkbb(Resolved[n - 1], Built.fwdrefs[n][1], Built.lbl2bb[Built.fwdrefs[n][2]])

FlowGraph == Resolved[Len(Built.fwdrefs)]

\* With RA_EZ there is only one block, which nobody reads.
i_fg_build ==
  /\ phase = "i_fg_build"
  /\ IF mode = "RA_EZ"
     THEN /\ bb' = <<[bb_alloc(1) EXCEPT !.t = Len(code)]>>
          /\ phase' = "i_ra_priority" /\ UNCHANGED <<loc, lv>>
     ELSE /\ bb' = FlowGraph
          /\ loc' = [v \in Vars |-> IF \E cp \in DOMAIN code : code[cp].k = "lea" /\ v \in code[cp].u
                                    THEN Slot(v) ELSE loc[v]]
          /\ phase' = IF mode = "RA_LS" THEN "dfs" ELSE "i_fg_lv"
          /\ lv' = [in |-> [b \in DOMAIN bb' |-> {}], out |-> [b \in DOMAIN bb' |-> {}],
                    seen |-> {}, updates |-> [b \in DOMAIN bb' |-> 0], iupdates |-> 0, b |-> Len(bb')]
  /\ UNCHANGED <<script, code, mode, visit, lr, nops, ig, pc, env, store>>

-----------------------------------------------------------------------------
(* Live variables.                                                         *)

\* A block tells each of its predecessors that its ilv_in changed.
Notify(l, b) ==
  [l EXCEPT !.updates = [p \in DOMAIN bb |-> l.updates[p] + Cardinality({k \in DOMAIN bb[b].p : bb[b].p[k] = p})],
            !.iupdates = @ + Len(bb[b].p)]

\* Mutated form: the predecessors are told only the first time.
Mut_lvrelax(b) ==
  LET out == lv.out[b] \cup UNION {lv.in[bb[b].n[k]] : k \in DOMAIN bb[b].n}
      in == (out \ bb[b].def) \cup bb[b].use
      counted == [lv EXCEPT !.iupdates = @ - lv.updates[b], !.updates[b] = 0, !.out[b] = out, !.in[b] = in,
                            !.seen = @ \cup {b}]
  IN  IF b \notin lv.seen THEN Notify(counted, b) ELSE counted

\* Mutated form: the block's own count is not reset.
Mut_RelaxKeepsCount(b) ==
  LET out == lv.out[b] \cup UNION {lv.in[bb[b].n[k]] : k \in DOMAIN bb[b].n}
      in == (out \ bb[b].def) \cup bb[b].use
      counted == [lv EXCEPT !.out[b] = out, !.in[b] = in, !.seen = @ \cup {b}]
  IN  IF b \notin lv.seen \/ lv.in[b] # in THEN Notify(counted, b) ELSE counted

lvrelax(b) ==
  LET out == lv.out[b] \cup UNION {lv.in[bb[b].n[k]] : k \in DOMAIN bb[b].n}
      in == (out \ bb[b].def) \cup bb[b].use
      counted == [lv EXCEPT !.iupdates = @ - lv.updates[b], !.updates[b] = 0, !.out[b] = out, !.in[b] = in,
                            !.seen = @ \cup {b}]
  IN  IF b \notin lv.seen \/ lv.in[b] # in THEN Notify(counted, b) ELSE counted

\* Blocks from the last to the first, all of them once and then those with
\* outstanding updates, until a sweep leaves none.
i_fg_lv ==
  /\ phase = "i_fg_lv"
  /\ IF lv.b > 0
     THEN /\ lv' = IF lv.b \notin lv.seen \/ lv.updates[lv.b] > 0
                   THEN [lvrelax(lv.b) EXCEPT !.b = @ - 1] ELSE [lv EXCEPT !.b = @ - 1]
          /\ UNCHANGED phase
     ELSE IF lv.iupdates > 0 THEN lv' = [lv EXCEPT !.b = Len(bb)] /\ UNCHANGED phase
     ELSE phase' = (IF mode = "RA_LR" THEN "i_li_full" ELSE "i_ig_build") /\ UNCHANGED lv
  /\ UNCHANGED <<script, code, mode, bb, visit, lr, nops, ig, loc, pc, env, store>>

-----------------------------------------------------------------------------
(* Live intervals from live variables.                                     *)

\* lruseinternal for each local of ls.
Ranges(s, ls, b, e) ==
  [s EXCEPT !.lr = [v \in ls |-> [beg |-> b, end |-> IF v \in DOMAIN s.lr THEN s.lr[v].end ELSE e]] @@ @]

Removable(i) == i.k \in {"op", "lea"}

\* DEF and DEFKP: a definition nobody reads is removed; one that is read needs
\* the interval its uses have made, which lrdef asserts.
Define(s, cp, skip) ==
  LET i == code[cp]
      d == i.d \ skip
      dead == d \ s.ilv
  IN  IF d = {} THEN s
      ELSE IF dead # {} THEN [s EXCEPT !.nops = IF Removable(i) THEN @ \cup {cp} ELSE @]
      ELSE IF d \cap DOMAIN s.lr = {} THEN [s EXCEPT !.assert = FALSE]
      ELSE [s EXCEPT !.ilv = @ \ d, !.lr = [v \in d \cap DOMAIN s.lr |-> [s.lr[v] EXCEPT !.beg = s.pos]] @@ @]

Skip(b) == lv.out[b] \cap lv.in[b]

\* Mutated form: a local that is live on both ends of a block is not extended over it.
Mut_EnterBlock(s, cp) ==
  IF cp # bb[s.b].t THEN s
  ELSE [s EXCEPT !.hpos = s.pos - (cp - bb[s.b].h), !.ilv = lv.out[s.b] \ Skip(s.b)]

\* The locals that are live on both ends of a block are so all over it.
EnterBlock(s, cp) ==
  LET hpos == s.pos - (cp - bb[s.b].h)
  IN  IF cp # bb[s.b].t THEN s
      ELSE [Ranges(s, Skip(s.b), hpos, s.pos) EXCEPT !.hpos = hpos, !.ilv = lv.out[s.b] \ Skip(s.b)]

ReadBack(s, cp) ==
  LET defined == Define(s, cp, Skip(s.b))
      new == code[cp].u \ (Skip(s.b) \cup defined.ilv)
  IN  [Ranges([defined EXCEPT !.ilv = @ \cup new], new, s.pos, s.pos) EXCEPT !.pos = @ - 1]

LeaveBlock(s, cp) ==
  IF cp # bb[s.b].h THEN s
  ELSE [Ranges(s, s.ilv, s.hpos, s.hpos) EXCEPT !.pos = @ - 1, !.b = @ - 1]

MaxCount == 100

\* The two loops of i_li_full, over the blocks and over the instructions of each,
\* after n instructions from the end.
Swept[n \in 0 .. Len(code)] ==
  IF n = 0 THEN [lr |-> <<>>, nops |-> {}, ilv |-> {}, pos |-> MaxCount, hpos |-> 0, b |-> Len(bb), assert |-> TRUE]
  ELSE LET cp == Len(code) + 1 - n
       IN  LeaveBlock(ReadBack(EnterBlock(Swept[n - 1], cp), cp), cp)

i_li_full ==
  /\ phase = "i_li_full"
  /\ LET s == Swept[Len(code)]
     IN  /\ lr' = s.lr /\ nops' = s.nops
         /\ phase' = IF s.assert THEN "i_ra_ls" ELSE "aborted"
  /\ UNCHANGED <<script, code, mode, bb, lv, visit, ig, loc, pc, env, store>>

-----------------------------------------------------------------------------
(* Live intervals from strongly connected components.                      *)

\* The calls that are active are the stack; a call goes on with the first
\* neighbour that is not black yet and returns when there is none.
White(neighbours, black) == {k \in DOMAIN neighbours : neighbours[k] \notin black}
First(neighbours, black) == neighbours[CHOOSE k \in White(neighbours, black) : \A j \in White(neighbours, black) : k <= j]

dfs ==
  /\ phase = "dfs" /\ phase' = "dfs_visit"
  /\ visit' = [stack |-> <<1>>, black |-> {1}, nodes |-> <<>>, scn |-> [b \in DOMAIN bb |-> 0], scc |-> 0]
  /\ UNCHANGED <<script, code, mode, bb, lv, lr, nops, ig, loc, pc, env, store>>

\* Reverse postorder from the entry block.
dfs_visit ==
  /\ phase = "dfs_visit"
  /\ IF visit.stack = <<>> THEN phase' = "scc_mark" /\ UNCHANGED visit
     ELSE LET b == Last(visit.stack)
          IN  /\ visit' = IF White(bb[b].n, visit.black) = {}
                          THEN [visit EXCEPT !.stack = Front(@), !.nodes = <<b>> \o @]
                          ELSE LET n == First(bb[b].n, visit.black)
                               IN  [visit EXCEPT !.stack = Append(@, n), !.black = @ \cup {n}]
              /\ UNCHANGED phase
  /\ UNCHANGED <<script, code, mode, bb, lv, lr, nops, ig, loc, pc, env, store>>

\* A component is what reaches its first node backwards; 0 is a block that has
\* no number yet.
Numbered == {b \in DOMAIN bb : visit.scn[b] # 0}

scc_visit(b) ==
  visit' = IF White(bb[b].p, Numbered) = {} THEN [visit EXCEPT !.stack = Front(@)]
           ELSE LET p == First(bb[b].p, Numbered)
                IN  [visit EXCEPT !.stack = Append(@, p), !.scn[p] = visit.scc]

scc_mark ==
  /\ phase = "scc_mark"
  /\ IF visit.stack # <<>> THEN scc_visit(Last(visit.stack)) /\ UNCHANGED phase
     ELSE IF White(visit.nodes, Numbered) = {} THEN phase' = "scan_intervals" /\ UNCHANGED visit
     ELSE LET b == First(visit.nodes, Numbered)
          IN  /\ visit' = [visit EXCEPT !.stack = <<b>>, !.scc = @ + 1, !.scn[b] = visit.scc + 1]
              /\ UNCHANGED phase
  /\ UNCHANGED <<script, code, mode, bb, lv, lr, nops, ig, loc, pc, env, store>>

Mentions(v) == {b \in DOMAIN bb : v \in bb[b].use \cup bb[b].def}

\* The components that mention a local.
At(v) == {visit.scn[b] : b \in Mentions(v)} \ {0}

\* An interval runs from the first to the last component that mentions the local.
scan_intervals ==
  /\ phase = "scan_intervals" /\ phase' = "i_ra_ls"
  /\ lr' = [v \in {w \in Vars : At(w) # {}} |->
              [beg |-> CHOOSE x \in At(v) : \A y \in At(v) : x <= y,
               end |-> CHOOSE x \in At(v) : \A y \in At(v) : x >= y]]
  /\ UNCHANGED <<script, code, mode, bb, lv, visit, nops, ig, loc, pc, env, store>>

i_li_scc == dfs \/ dfs_visit \/ scc_mark \/ scan_intervals

-----------------------------------------------------------------------------
(* Placing the locals.                                                     *)

Meet(v, w) == lr[v].beg <= lr[w].end /\ lr[w].beg <= lr[v].end

\* The promise of module LinearScan.
i_ra_ls ==
  /\ phase = "i_ra_ls"
  /\ \E placed \in [DOMAIN lr -> {Reg(r) : r \in Regs} \cup {Undecided}] :
       /\ \A v \in DOMAIN lr : loc[v] # Undecided => placed[v] = Undecided
       /\ \A v, w \in DOMAIN lr : v # w /\ Meet(v, w) /\ placed[v] # Undecided => placed[v] # placed[w]
       /\ loc' = [v \in Vars |-> IF v \notin DOMAIN lr THEN loc[v]
                                 ELSE IF placed[v] = Undecided THEN Slot(v) ELSE placed[v]]
  /\ phase' = "placed"
  /\ UNCHANGED <<script, code, mode, bb, lv, visit, lr, nops, ig, pc, env, store>>

\* The locals with the highest reference counts get the registers.
i_ra_priority ==
  /\ phase = "i_ra_priority"
  /\ LET wanting == {v \in Vars : loc[v] = Undecided}
     IN  \E given \in SUBSET wanting :
           /\ Cardinality(given) <= Cardinality(Regs)
           /\ given = wanting \/ Cardinality(given) = Cardinality(Regs)
           /\ \A v \in given, w \in wanting \ given : REFCNT(v) >= REFCNT(w)
           /\ \E f \in Injection(given, Regs) :
                loc' = [v \in Vars |-> IF v \in given THEN Reg(f[v]) ELSE Slot(v)]
  /\ phase' = "placed"
  /\ UNCHANGED <<script, code, mode, bb, lv, visit, lr, nops, ig, pc, env, store>>

-----------------------------------------------------------------------------
(* Graph colouring.                                                        *)

\* Each clique is or-ed into the rows of its members.
Adjacency(cliques) == [v \in Vars |-> {w \in Vars : \E S \in cliques : v \in S /\ w \in S}]

\* One instruction backwards; new uses make a clique of what is live.
Interfere(s, cp) ==
  LET i == code[cp]
      killed == i.d \cap s.live
      after == s.live \ i.d
      live == after \cup i.u
  IN  IF Removable(i) /\ killed = {} THEN [s EXCEPT !.nops = @ \cup {cp}]
      ELSE [s EXCEPT !.live = live, !.cliques = IF i.u \subseteq after THEN @ ELSE @ \cup {live}]

Interference ==
  LET Block(s, b) == FoldLeft(LAMBDA acc, k : Interfere(acc, bb[b].t + 1 - k), [s EXCEPT !.live = lv.out[b]],
                              [k \in 1 .. bb[b].t - bb[b].h + 1 |-> k])
  IN  FoldLeft(Block, [live |-> {}, cliques |-> {}, nops |-> {}], [b \in DOMAIN bb |-> b])

i_ig_build ==
  /\ phase = "i_ig_build"
  /\ LET row == Adjacency(Interference.cliques)
     IN  /\ nops' = Interference.nops
         /\ ig' = [row |-> row, left |-> row, removed |-> {}, stack |-> <<>>, pass |-> "dismantle",
                   todo |-> Vars, nremoved |-> 0, target |-> 0, mc |-> 0, deferred |-> [v \in Vars |-> 0]]
  /\ phase' = "i_ig_color"
  /\ UNCHANGED <<script, code, mode, bb, lv, visit, lr, loc, pc, env, store>>

\* Node i leaves the rows of its neighbours.
i_igremove(g, i) ==
  [g EXCEPT !.left = [v \in Vars |-> IF v = i THEN {} ELSE IF v \in g.left[i] THEN g.left[v] \ {i} ELSE g.left[v]],
            !.removed = @ \cup {i}]

Valence(i) == Cardinality(ig.left[i])
Colourable(i) == Valence(i) <= Cardinality(Regs)
Left(g) == Vars \ g.removed
InMemory(v) == loc[v] = Slot(v)

\* threshref is half of the average count; Weigh(v, b) is REFCNT < b threshref.
Counted == {v \in Vars : ~(v \in Memory \/ \E cp \in DOMAIN code : code[cp].k = "lea" /\ v \in code[cp].u)}
TotalRefs == FoldSet(LAMBDA v, n : REFCNT(v) + n, 0, Counted)
Weigh(v, b) == 2 * Cardinality(Counted) * REFCNT(v) < b * TotalRefs

Colouring(pass) == phase = "i_ig_color" /\ ig.pass = pass
KeepAll == UNCHANGED <<script, code, mode, bb, lv, visit, lr, nops, pc, env, store>>

\* The loops run over the nodes in the order of their numbers, without those
\* that were removed in an earlier sweep.
NextNode(i) == i \in ig.todo /\ \A v \in ig.todo : i <= v
Seen(i) == [ig EXCEPT !.todo = @ \ {i}]
Sweep(g, pass) == [g EXCEPT !.pass = pass, !.todo = Left(g), !.nremoved = 0, !.target = 0, !.mc = 0]

Push(i) ==
  /\ Colourable(i)
  /\ ig' = [i_igremove(Seen(i), i) EXCEPT !.stack = Append(@, i), !.nremoved = @ + 1]
  /\ UNCHANGED loc

i_igspill(i) ==
  /\ ig' = i_igremove(Seen(i), i)
  /\ loc' = [loc EXCEPT ![i] = Slot(i)]

\* Nodes in memory and nodes of low degree leave the graph.
Dismantle(i) ==
  /\ Colouring("dismantle") /\ NextNode(i)
  /\ \/ InMemory(i) /\ i_igspill(i)
     \/ ~InMemory(i) /\ ig.left[i] = {} /\ ig' = [Seen(i) EXCEPT !.removed = @ \cup {i}] /\ UNCHANGED loc
     \/ ~InMemory(i) /\ ig.left[i] # {} /\ Push(i)
     \/ ~InMemory(i) /\ ~Colourable(i) /\ ig' = Seen(i) /\ UNCHANGED loc
  /\ UNCHANGED phase /\ KeepAll

Dismantled ==
  /\ Colouring("dismantle") /\ ig.todo = {}
  /\ ig' = Sweep(ig, IF Left(ig) = {} THEN "colour" ELSE IF ig.nremoved > 0 THEN "dismantle" ELSE "initial")
  /\ UNCHANGED <<phase, loc>> /\ KeepAll

\* Of the nodes with low counts the sweep notes the one of highest valence.
Initial(i) ==
  /\ Colouring("initial") /\ NextNode(i)
  /\ \/ Push(i)
     \/ /\ ~Colourable(i)
        /\ ig' = IF Weigh(i, 2) /\ Valence(i) > ig.mc THEN [Seen(i) EXCEPT !.target = i, !.mc = Valence(i)] ELSE Seen(i)
        /\ UNCHANGED loc
  /\ UNCHANGED phase /\ KeepAll

InitialSpill ==
  /\ Colouring("initial") /\ ig.todo = {}
  /\ IF Left(ig) # {} /\ ig.target # 0
     THEN LET g == i_igremove(ig, ig.target)
          IN  /\ ig' = Sweep(g, IF Left(g) = {} THEN "colour" ELSE "initial")
              /\ loc' = [loc EXCEPT ![ig.target] = Slot(ig.target)]
     ELSE ig' = Sweep(ig, IF Left(ig) = {} THEN "colour" ELSE "final") /\ UNCHANGED loc
  /\ UNCHANGED phase /\ KeepAll

\* A node that is counted on often is spilled the third time round.
Final(i) ==
  /\ Colouring("final") /\ NextNode(i)
  /\ \/ Push(i)
     \/ ~Colourable(i) /\ (ig.deferred[i] > 1 \/ Weigh(i, 3)) /\ i_igspill(i)
     \/ /\ ~Colourable(i) /\ ~(ig.deferred[i] > 1 \/ Weigh(i, 3))
        /\ ig' = [Seen(i) EXCEPT !.deferred[i] = @ + 1] /\ UNCHANGED loc
  /\ UNCHANGED phase /\ KeepAll

FinalSweep ==
  /\ Colouring("final") /\ ig.todo = {}
  /\ ig' = Sweep(ig, IF Left(ig) = {} THEN "colour" ELSE "final")
  /\ UNCHANGED <<phase, loc>> /\ KeepAll

\* Mutated form: the neighbours are those left when the node was removed.
Mut_Neighbours(i) == ig.left[i]

Neighbours(i) == ig.row[i]

\* Nodes come back in the opposite order, each to a register none of its
\* neighbours has.
Colour ==
  /\ Colouring("colour")
  /\ IF ig.stack = <<>> THEN phase' = "placed" /\ UNCHANGED <<ig, loc>>
     ELSE LET i == Last(ig.stack)
              free == {r \in Regs : \A v \in Neighbours(i) : loc[v] # Reg(r)}
          IN  /\ ig' = [ig EXCEPT !.stack = Front(@)]
              /\ \E r \in IF free = {} THEN {-1} ELSE free : loc' = [loc EXCEPT ![i] = Reg(r)]
              /\ UNCHANGED phase
  /\ KeepAll

-----------------------------------------------------------------------------
(* The finished program.                                                   *)

Target(i) == IF i.k \in {"br", "jmp"} THEN {cp \in DOMAIN code : code[cp].k = "lbl" /\ code[cp].l = i.l} ELSE {}
Successors(cp) == Target(code[cp]) \cup (IF code[cp].k \in {"jmp", "ret"} THEN {} ELSE {cp + 1})

\* The instructions from which a path of at most n steps leads to one that reads
\* v, without one that assigns v in between, when n reaches the length of the
\* program: those before which the value of v may still be read.
LiveBefore(v) ==
  LET Within[n \in 0 .. Len(code)] ==
        IF n = 0 THEN {cp \in DOMAIN code : v \in code[cp].u}
        ELSE LET before == Within[n - 1]
             IN  before \cup {cp \in DOMAIN code : v \notin code[cp].d /\ Successors(cp) \cap before # {}}
  IN  Within[Len(code)]

\* A call whose result is never read still writes it, and the intervals and the
\* graph take no notice.
UnreadResult ==
  \E cp \in DOMAIN code : code[cp].k = "call" /\ \E v \in code[cp].d : Successors(cp) \cap LiveBefore(v) = {}

\* i_fg_build does not look for addresses taken in this mode: the client must
\* have declared such locals I_MEMORY.
AddressOfUndeclared == \E cp \in DOMAIN code : code[cp].k = "lea" /\ ~(code[cp].u \subseteq Memory)

Run ==
  /\ phase = "placed" /\ mode \in Executed
  /\ mode = "RA_LR" => ~UnreadResult
  /\ mode = "RA_EZ" => ~AddressOfUndeclared
  /\ phase' = "running" /\ pc' = 1
  /\ env' = [v \in Vars |-> 0] /\ store' = [p \in Places |-> 0]
  /\ UNCHANGED <<script, code, mode, bb, lv, visit, lr, nops, ig, loc>>

Step ==
  /\ phase = "running" /\ pc \in DOMAIN code
  /\ env' = [v \in Vars |-> IF v \in code[pc].d THEN pc ELSE env[v]]
  /\ store' = [p \in Places |-> IF pc \notin nops /\ \E v \in code[pc].d : loc[v] = p THEN pc ELSE store[p]]
  /\ pc' \in Successors(pc) \cup (IF code[pc].k = "ret" THEN {Len(code) + 1} ELSE {})
  /\ UNCHANGED <<script, code, mode, phase, bb, lv, visit, lr, nops, ig, loc>>

i_ig_color ==
  \/ \E i \in Vars : Dismantle(i) \/ Initial(i) \/ Final(i)
  \/ Dismantled \/ InitialSpill \/ FinalSweep \/ Colour

Next ==
  \/ Emit \/ i_fg_build \/ i_fg_lv \/ i_li_full \/ i_li_scc \/ i_ra_ls \/ i_ra_priority
  \/ i_ig_build \/ i_ig_color \/ Run \/ Step

\* The compiler is sequential code: a loop that can go on does.
Spec == Init /\ [][Next]_vars /\ WF_vars(i_fg_lv) /\ WF_vars(i_ig_color) /\ WF_vars(i_li_scc)

-----------------------------------------------------------------------------

\* What i_fg_lv leaves at the ends of a block is exactly what the paths through
\* the program say, loops and unreachable code included.
LiveExact ==
  phase \in {"i_li_full", "i_ig_build"} =>
    \A b \in DOMAIN bb :
      /\ lv.in[b] = {v \in Vars : bb[b].h \in LiveBefore(v)}
      /\ lv.out[b] = {v \in Vars : Successors(bb[b].t) \cap LiveBefore(v) # {}}

\* An instruction finds in the place of each operand the value last assigned to
\* that local, whatever the other locals were assigned in between: places are
\* shared only by locals that are never alive together, and no definition that
\* is read was removed.
ReadsAgree ==
  phase = "running" /\ pc \in DOMAIN code /\ pc \notin nops =>
    \A v \in code[pc].u :
      IF code[pc].k = "lea" THEN loc[v] = Slot(v)
      ELSE loc[v] # Undecided /\ (env[v] # 0 => store[loc[v]] = env[v])

\* The colouring finds a register for every node it puts back, different from
\* those of all its neighbours, and leaves no node of the graph without a place.
NeighboursDiffer ==
  mode = "RA_GC" /\ phase = "placed" =>
    \A v \in Vars :
      /\ loc[v] # Reg(-1) /\ (ig.row[v] # {} => loc[v] # Undecided)
      /\ \A w \in ig.row[v] \ {v} : loc[v] = loc[w] => InMemory(v)

\* The relaxation of i_fg_lv, the traversals of i_li_scc and the loops of
\* i_ig_color come to an end on every flow graph.
Looping == {"i_fg_lv", "i_ig_color", "dfs_visit", "scc_mark"}
PassesEnd == phase \in Looping ~> phase \notin Looping
=============================================================================
