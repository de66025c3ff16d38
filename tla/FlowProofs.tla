----------------------------- MODULE FlowProofs -----------------------------
(***************************************************************************)
(* Proofs about icode's placing of locals, for every set of locals and of  *)
(* registers and every program.  Graph colouring: whatever the spilling    *)
(* loops decide, each node put back finds a register its neighbours do not *)
(* have.  Live variables: the flow graph is that of the program, and what  *)
(* the relaxation leaves at the ends of its blocks is what the paths say.  *)
(***************************************************************************)
EXTENDS Flow, FiniteSetTheorems, WellFoundedInduction, TLAPS

\* The pass that runs is one of the allocator chosen.
PassOfMode ==
  /\ mode \in Modes
  /\ phase = "i_ra_priority" => mode = "RA_EZ"
  /\ phase \in {"i_li_full"} => mode = "RA_LR"
  /\ phase \in {"dfs", "dfs_visit", "scc_mark", "scan_intervals"} => mode = "RA_LS"
  /\ phase = "i_ra_ls" => mode \in {"RA_LR", "RA_LS"}
  /\ phase = "i_fg_lv" => mode \in {"RA_LR", "RA_GC"}
  /\ phase \in {"i_ig_build", "i_ig_color"} => mode = "RA_GC"

Located == mode = "RA_GC" => loc \in [Vars -> Places]
Uncoloured(v) == loc[v] \in {Undecided, Slot(v)}
Coloured(v) == \E r \in Regs : loc[v] = Reg(r)
Stacked(v) == \E k \in DOMAIN ig.stack : ig.stack[k] = v

Graphs ==
  [row : [Vars -> SUBSET Vars], left : [Vars -> SUBSET Vars], removed : SUBSET Vars, stack : Seq(Vars),
   pass : {"dismantle", "initial", "final", "colour"}, todo : SUBSET Vars, nremoved : Nat,
   target : Vars \cup {0}, mc : Nat, deferred : [Vars -> Nat]]

\* The graph: edges go both ways, a node with neighbours is its own neighbour,
\* and the copy has exactly the edges between nodes not yet removed.
Undirected ==
  /\ \A v, w \in Vars : w \in ig.row[v] => v \in ig.row[w]
  /\ \A v \in Vars : ig.row[v] # {} => v \in ig.row[v]
  /\ \A v \in Vars : ig.left[v] = IF v \in ig.removed THEN {} ELSE ig.row[v] \ ig.removed

\* The stack holds every removed node that still wants a register, once.
StackSound ==
  /\ \A j, k \in DOMAIN ig.stack : ig.stack[j] = ig.stack[k] => j = k
  /\ \A k \in DOMAIN ig.stack : ig.stack[k] \in ig.removed /\ loc[ig.stack[k]] = Undecided
  /\ \A v \in ig.removed : Stacked(v) \/ InMemory(v) \/ Coloured(v) \/ ig.row[v] = {}

\* The neighbours of stack[k] that may hold registers when its turn comes.
Rivals(k) ==
  {w \in ig.row[ig.stack[k]] : w \notin ig.removed \/ Coloured(w) \/ \E j \in k .. Len(ig.stack) : ig.stack[j] = w}

FewRivals == \A k \in DOMAIN ig.stack : Cardinality(Rivals(k)) <= Cardinality(Regs)

ColoursDiffer == \A v \in Vars : \A w \in ig.row[v] \ {v} : Coloured(v) => loc[v] # loc[w]

\* What is left of the graph in each loop.
Loops ==
  /\ ig.todo \subseteq Left(ig)
  /\ \A v \in Left(ig) : Uncoloured(v)
  /\ ig.pass = "dismantle" => \A v \in Left(ig) : InMemory(v) => v \in ig.todo
  /\ ig.pass \in {"initial", "final"} => \A v \in Left(ig) : loc[v] = Undecided
  /\ ig.target # 0 => ig.target \in Left(ig) \ ig.todo /\ ig.pass = "initial"
  /\ ig.pass # "colour" => \A v \in Vars : Uncoloured(v)
  /\ ig.pass = "colour" => Left(ig) = {}


GraphInv ==
  /\ ig \in Graphs
  /\ \A v \in Vars : Uncoloured(v) \/ Coloured(v)
  /\ Undirected /\ StackSound /\ FewRivals /\ ColoursDiffer /\ Loops

IInv ==
  /\ PassOfMode /\ Located
  /\ (mode = "RA_GC" /\ phase \in {"i_op", "i_fg_build", "i_fg_lv", "i_ig_build"}) => \A v \in Vars : Uncoloured(v)
  /\ phase = "i_ig_color" => GraphInv
  /\ NeighboursDiffer

-----------------------------------------------------------------------------
(* Places and counting.                                                    *)

\* Places of different kinds differ, and a place names one register or local.
LEMMA PlacesDiffer ==
  /\ \A v : Undecided # Slot(v)
  /\ \A r : Undecided # Reg(r)
  /\ \A v, r : Slot(v) # Reg(r)
  /\ \A v, w : Slot(v) = Slot(w) => v = w
  /\ \A r, q : Reg(r) = Reg(q) => r = q
BY DEF Undecided, Slot, Reg

LEMMA CountsAreNumbers == Cardinality(Regs) \in Nat /\ \A S \in SUBSET Vars : IsFiniteSet(S) /\ Cardinality(S) \in Nat
BY FlowAssumption, FS_Subset, FS_CardinalityType DEF FlowAssumption

\* A subset is no larger.
LEMMA SmallerSet ==
  ASSUME NEW S \in SUBSET Vars, NEW T \in SUBSET S
  PROVE  Cardinality(T) <= Cardinality(S)
BY FlowAssumption, CountsAreNumbers, FS_Subset

\* Fewer locals than registers leave a register that none of them holds.
LEMMA FreeRegister ==
  ASSUME NEW S \in SUBSET Vars, Cardinality(S) < Cardinality(Regs),
         NEW place
  PROVE  \E r \in Regs : \A v \in S : place[v] # Reg(r)
<1> SUFFICES ASSUME \A r \in Regs : \E v \in S : place[v] = Reg(r)
             PROVE  FALSE
  OBVIOUS
<1> DEFINE C == {v \in S : \E r \in Regs : place[v] = Reg(r)}
           f == [v \in C |-> CHOOSE r \in Regs : place[v] = Reg(r)]
<1>1. \A v \in C : f[v] \in Regs /\ place[v] = Reg(f[v])
  OBVIOUS
<1>2. \A r \in Regs : \E v \in C : f[v] = r
  <2> SUFFICES ASSUME NEW r \in Regs PROVE \E v \in C : f[v] = r
    OBVIOUS
  <2>1. PICK v \in S : place[v] = Reg(r)
    OBVIOUS
  <2>2. v \in C
    BY <2>1
  <2>3. Reg(f[v]) = Reg(r)
    BY <1>1, <2>1, <2>2
  <2> QED
    BY <2>2, <2>3, PlacesDiffer
<1>3. f \in Surjection(C, Regs)
  <2>1. f \in [C -> Regs]
    BY <1>1
  <2> QED
    BY <2>1, <1>2 DEF Surjection
<1>4. C \in SUBSET S /\ IsFiniteSet(C)
  BY CountsAreNumbers
<1> HIDE DEF C, f
<1>5. Cardinality(Regs) <= Cardinality(C)
  BY <1>3, <1>4, FS_Surjection
<1>6. Cardinality(C) <= Cardinality(S)
  BY <1>4, SmallerSet
<1> QED
  BY <1>4, <1>5, <1>6, CountsAreNumbers

-----------------------------------------------------------------------------
(* What the operations on the graph change.                                *)

Without(rows, i) == [v \in Vars |-> IF v = i THEN {} ELSE IF v \in rows[i] THEN rows[v] \ {i} ELSE rows[v]]

\* Taking node i out of the rows changes nothing but `left' and `removed'.
LEMMA RemovalEffect ==
  ASSUME NEW g \in Graphs, NEW i \in Vars, NEW h, h = i_igremove(g, i)
  PROVE  /\ h \in Graphs
         /\ h.row = g.row /\ h.stack = g.stack /\ h.pass = g.pass /\ h.todo = g.todo
         /\ h.nremoved = g.nremoved /\ h.target = g.target /\ h.removed = g.removed \cup {i}
         /\ h.left = Without(g.left, i)
<1> DEFINE l == Without(g.left, i)
           m == g.removed \cup {i}
           n == [g EXCEPT !.left = l, !.removed = m]
<1>1. g.left \in [Vars -> SUBSET Vars] /\ g.removed \in SUBSET Vars
  BY DEF Graphs
<1>2. l \in [Vars -> SUBSET Vars] /\ m \in SUBSET Vars
  BY <1>1 DEF Without
<1>3. h = n
  BY DEF i_igremove, Without
<1> HIDE DEF l, m
<1>4. /\ n \in Graphs
      /\ n.row = g.row /\ n.stack = g.stack /\ n.pass = g.pass /\ n.todo = g.todo
      /\ n.nremoved = g.nremoved /\ n.target = g.target /\ n.removed = m /\ n.left = l
  BY <1>2 DEF Graphs
<1> HIDE DEF n
<1> QED
  BY <1>3, <1>4 DEF l, m

\* The edges stay the same both ways when a node leaves the copy.
LEMMA EdgesKept ==
  ASSUME Undirected, NEW i \in Left(ig), ig \in Graphs,
         ig'.row = ig.row, ig'.removed = ig.removed \cup {i},
         ig'.left = Without(ig.left, i)
  PROVE  Undirected'
<1> USE DEF Undirected, Left, Without
<1>1. ig.row \in [Vars -> SUBSET Vars] /\ ig.left \in [Vars -> SUBSET Vars] /\ ig.removed \in SUBSET Vars
  BY DEF Graphs
<1>2. i \in Vars /\ i \notin ig.removed /\ ig.left[i] = ig.row[i] \ ig.removed
  OBVIOUS
<1>3. ASSUME NEW v \in Vars
      PROVE  ig'.left[v] = IF v \in ig'.removed THEN {} ELSE ig'.row[v] \ ig'.removed
  <2>1. CASE v \in ig.removed
    BY <1>1, <2>1
  <2>2. CASE v = i
    BY <1>1, <2>2
  <2>3. CASE v \notin ig.removed /\ v # i /\ v \in ig.left[i]
    BY <1>1, <2>3
  <2>4. CASE v \notin ig.removed /\ v # i /\ v \notin ig.left[i]
    <3>1. v \notin ig.row[i]
      BY <1>2, <2>4
    <3>2. i \notin ig.row[v]
      BY <1>2, <3>1
    <3>3. ig'.left[v] = ig.left[v] /\ ig.left[v] = ig.row[v] \ ig.removed
      BY <2>4
    <3> QED
      BY <2>4, <3>2, <3>3
  <2> QED
    BY <2>1, <2>2, <2>3, <2>4
<1> QED
  BY <1>1, <1>3

\* While the graph is taken apart no local has a register, so what may become a
\* rival is what is still there or waits on the stack.
LEMMA NoColoursYet ==
  ASSUME \A v \in Vars : Uncoloured(v)
  PROVE  \A v \in Vars : ~Coloured(v)
BY PlacesDiffer DEF Uncoloured, Coloured

-----------------------------------------------------------------------------
(* The loops that take the graph apart.                                    *)

Dismantling == {"dismantle", "initial", "final"}

\* A node of low degree goes on the stack: what is left of its row are its rivals,
\* and the rivals of the nodes below it do not become more.
LEMMA PushKeeps ==
  ASSUME GraphInv, NEW i \in ig.todo, ig.pass \in Dismantling, loc[i] = Undecided, Push(i)
  PROVE  GraphInv'
<1> DEFINE g == i_igremove(Seen(i), i)
<1>1. /\ ig \in Graphs /\ Undirected /\ StackSound /\ FewRivals /\ Loops
      /\ i \in Vars /\ i \in Left(ig) /\ i \notin ig.removed
      /\ \A v \in Vars : Uncoloured(v)
  BY DEF GraphInv, Loops, Left, Dismantling
<1>2. /\ ig.row \in [Vars -> SUBSET Vars] /\ ig.left \in [Vars -> SUBSET Vars] /\ ig.removed \in SUBSET Vars
      /\ ig.stack \in Seq(Vars) /\ ig.todo \in SUBSET Vars /\ ig.nremoved \in Nat
  BY <1>1 DEF Graphs
<1>3. /\ Seen(i) \in Graphs
      /\ Seen(i).row = ig.row /\ Seen(i).left = ig.left /\ Seen(i).removed = ig.removed /\ Seen(i).stack = ig.stack
      /\ Seen(i).pass = ig.pass /\ Seen(i).todo = ig.todo \ {i} /\ Seen(i).target = ig.target
      /\ Seen(i).nremoved = ig.nremoved
  BY <1>1, <1>2 DEF Seen, Graphs
<1>4. /\ g \in Graphs /\ g.row = ig.row /\ g.stack = ig.stack /\ g.pass = ig.pass /\ g.todo = ig.todo \ {i}
      /\ g.target = ig.target /\ g.removed = ig.removed \cup {i} /\ g.nremoved = ig.nremoved
      /\ g.left = Without(ig.left, i)
  <2> HIDE DEF g
  <2>1. g = i_igremove(Seen(i), i)
    BY DEF g
  <2> QED
    BY <1>1, <1>3, <2>1, RemovalEffect
<1>5. ig' = [g EXCEPT !.stack = Append(@, i), !.nremoved = @ + 1] /\ loc' = loc
  BY DEF Push
<1> DEFINE st == Append(ig.stack, i)
           more == ig.nremoved + 1
<1> HIDE DEF g
<1>a. ig' = [g EXCEPT !.stack = st, !.nremoved = more] /\ st \in Seq(Vars) /\ more \in Nat
  BY <1>1, <1>2, <1>4, <1>5
<1> HIDE DEF st, more
<1>b. /\ ig' \in Graphs /\ ig'.row = g.row /\ ig'.stack = st /\ ig'.pass = g.pass
      /\ ig'.todo = g.todo /\ ig'.target = g.target /\ ig'.removed = g.removed /\ ig'.left = g.left
  BY <1>4, <1>a DEF Graphs
<1>6. /\ ig' \in Graphs /\ ig'.row = ig.row /\ ig'.stack = Append(ig.stack, i) /\ ig'.pass = ig.pass
      /\ ig'.todo = ig.todo \ {i} /\ ig'.target = ig.target /\ ig'.removed = ig.removed \cup {i} /\ ig'.left = g.left
  BY <1>4, <1>b DEF st
<1>7. \A v \in Vars : Uncoloured(v)' /\ ~Coloured(v) /\ ~Coloured(v)'
  BY <1>1, <1>5, NoColoursYet DEF Uncoloured, Coloured
<1>8. Undirected'
  BY <1>1, <1>4, <1>6, EdgesKept
<1> DEFINE s == ig.stack
           n == Len(s)
<1>9. /\ n \in Nat /\ DOMAIN s = 1 .. n /\ \A k \in 1 .. n : s[k] \in Vars
      /\ Len(ig'.stack) = n + 1 /\ DOMAIN ig'.stack = 1 .. n + 1
      /\ \A k \in 1 .. n : ig'.stack[k] = s[k]
      /\ ig'.stack[n + 1] = i
  BY <1>1, <1>2, <1>6
<1> HIDE DEF s, n
<1>10. StackSound'
  <2>1. \A k \in 1 .. n : s[k] \in ig.removed /\ loc[s[k]] = Undecided /\ s[k] # i
    BY <1>1, <1>9 DEF StackSound, s
  <2>2. \A j, k \in 1 .. n : s[j] = s[k] => j = k
    BY <1>1, <1>9 DEF StackSound, s
  <2>3. \A j, k \in DOMAIN ig'.stack : ig'.stack[j] = ig'.stack[k] => j = k
    BY <1>9, <2>1, <2>2
  <2>4. \A k \in DOMAIN ig'.stack : ig'.stack[k] \in ig'.removed /\ loc'[ig'.stack[k]] = Undecided
    BY <1>5, <1>6, <1>9, <2>1
  <2>5. ASSUME NEW v \in ig'.removed
        PROVE  Stacked(v)' \/ InMemory(v)' \/ Coloured(v)' \/ ig'.row[v] = {}
    <3>1. CASE v = i
      BY <1>9, <3>1 DEF Stacked
    <3>2. CASE v \in ig.removed /\ Stacked(v)
      <4>1. PICK k \in 1 .. n : s[k] = v
        BY <1>9, <3>2 DEF Stacked, s
      <4> QED
        BY <1>9, <4>1 DEF Stacked
    <3>3. CASE v \in ig.removed /\ ~Stacked(v)
      BY <1>1, <1>5, <1>6, <1>7, <1>2, <3>3 DEF StackSound, InMemory
    <3> QED
      BY <1>6, <3>1, <3>2, <3>3
  <2> QED
    BY <2>3, <2>4, <2>5 DEF StackSound
<1>11. FewRivals'
  <2> SUFFICES ASSUME NEW k \in 1 .. n + 1
               PROVE  Cardinality(Rivals(k)') <= Cardinality(Regs)
    BY <1>9 DEF FewRivals
  <2>1. CASE k = n + 1
    <3>1. Rivals(k)' \in SUBSET ig.left[i]
      <4> SUFFICES ASSUME NEW w \in Rivals(k)' PROVE w \in ig.left[i]
        OBVIOUS
      <4>1. /\ w \in ig.row[i] /\ w \in Vars
            /\ (w \notin ig.removed \cup {i}) \/ Coloured(w)' \/ \E j \in k .. n + 1 : ig'.stack[j] = w
        BY <1>2, <1>6, <1>9, <1>1, <2>1 DEF Rivals
      <4>2. w \notin ig.removed
        <5>1. CASE \E j \in k .. n + 1 : ig'.stack[j] = w
          BY <1>1, <1>9, <2>1, <5>1
        <5> QED
          BY <1>7, <4>1, <5>1
      <4> QED
        BY <1>1, <4>1, <4>2 DEF Undirected
    <3>2. Cardinality(ig.left[i]) <= Cardinality(Regs) /\ ig.left[i] \in SUBSET Vars
      BY <1>1, <1>2 DEF Push, Colourable, Valence
    <3>3. Cardinality(Rivals(k)') <= Cardinality(ig.left[i])
      BY <3>1, <3>2, SmallerSet
    <3> QED
      BY <3>1, <3>2, <3>3, CountsAreNumbers
  <2>2. CASE k \in 1 .. n
    <3>1. Rivals(k)' \in SUBSET Rivals(k)
      <4> SUFFICES ASSUME NEW w \in Rivals(k)' PROVE w \in Rivals(k)
        OBVIOUS
      <4>1. /\ w \in ig.row[s[k]] /\ w \in Vars
            /\ (w \notin ig.removed \cup {i}) \/ Coloured(w)' \/ \E j \in k .. n + 1 : ig'.stack[j] = w
        BY <1>2, <1>6, <1>9, <2>2 DEF Rivals
      <4>2. (w \notin ig.removed) \/ \E j \in k .. n : s[j] = w
        <5>1. CASE w \notin ig.removed \cup {i}
          BY <5>1
        <5>2. ASSUME NEW j \in k .. n + 1, ig'.stack[j] = w, w \in ig.removed
              PROVE  j \in k .. n /\ s[j] = w
          BY <1>1, <1>9, <2>2, <5>2
        <5> QED
          BY <1>7, <4>1, <5>1, <5>2
      <4> QED
        BY <4>1, <4>2 DEF Rivals, s, n
    <3>2. Rivals(k) \in SUBSET Vars
      BY <1>2, <1>9, <2>2 DEF Rivals, s
    <3>3. Cardinality(Rivals(k)') <= Cardinality(Rivals(k))
      BY <3>1, <3>2, SmallerSet
    <3>4. Cardinality(Rivals(k)) <= Cardinality(Regs)
      BY <1>1, <1>9, <2>2 DEF FewRivals, s
    <3> QED
      BY <3>1, <3>2, <3>3, <3>4, CountsAreNumbers
  <2> QED
    BY <2>1, <2>2, <1>9
<1>12. Loops'
  <2>1. ig'.pass # "colour" /\ ig'.todo \subseteq Left(ig)'
    BY <1>1, <1>6 DEF Loops, Left, Dismantling
  <2>2. Left(ig)' = Left(ig) \ {i}
    BY <1>6 DEF Left
  <2>3. ig'.pass = "dismantle" => \A v \in Left(ig)' : InMemory(v)' => v \in ig'.todo
    BY <1>1, <1>5, <1>6, <2>2 DEF Loops, InMemory
  <2>4. ig'.pass \in {"initial", "final"} => \A v \in Left(ig)' : loc'[v] = Undecided
    BY <1>1, <1>5, <1>6, <2>2 DEF Loops
  <2>5. ig'.target # 0 => ig'.target \in Left(ig)' \ ig'.todo /\ ig'.pass = "initial"
    BY <1>1, <1>6, <2>2 DEF Loops
  <2> QED
    BY <1>7, <2>1, <2>2, <2>3, <2>4, <2>5 DEF Loops, Left
<1> QED
  BY <1>6, <1>7, <1>8, <1>10, <1>11, <1>12 DEF GraphInv, ColoursDiffer

\* A node that leaves the graph without waiting for a register is in memory or
\* has no edges: it is no rival of any other.
LEMMA LeavingKeeps ==
  ASSUME GraphInv, NEW i \in Left(ig), ig.pass # "colour", Located, mode = "RA_GC",
         ig' \in Graphs, ig'.row = ig.row, ig'.stack = ig.stack, ig'.removed = ig.removed \cup {i},
         ig'.left = Without(ig.left, i),
         (loc' = [loc EXCEPT ![i] = Slot(i)]) \/ (loc' = loc /\ ig.left[i] = {})
  PROVE  /\ Undirected' /\ StackSound' /\ FewRivals' /\ ColoursDiffer'
         /\ \A v \in Vars : Uncoloured(v)'
<1>1. /\ ig \in Graphs /\ Undirected /\ StackSound /\ FewRivals /\ Loops
      /\ i \in Vars /\ i \notin ig.removed
      /\ \A v \in Vars : Uncoloured(v)
      /\ loc \in [Vars -> Places]
  BY DEF GraphInv, Loops, Left, Located
<1>2. /\ ig.row \in [Vars -> SUBSET Vars] /\ ig.removed \in SUBSET Vars /\ ig.stack \in Seq(Vars)
  BY <1>1 DEF Graphs
<1>3. (\A v \in Vars \ {i} : loc'[v] = loc[v]) /\ loc'[i] \in {loc[i], Slot(i)}
  BY <1>1
<1>4. \A v \in Vars : Uncoloured(v)' /\ ~Coloured(v) /\ ~Coloured(v)'
  BY <1>1, <1>3, PlacesDiffer DEF Uncoloured, Coloured
<1>5. Undirected'
  BY <1>1, EdgesKept
<1>6. /\ DOMAIN ig.stack = 1 .. Len(ig.stack) /\ Len(ig.stack) \in Nat
      /\ \A k \in DOMAIN ig.stack : ig.stack[k] \in Vars \ {i}
  BY <1>1, <1>2 DEF StackSound
<1>7. StackSound'
  <2>1. \A k \in DOMAIN ig.stack : ig.stack[k] \in ig'.removed /\ loc'[ig.stack[k]] = Undecided
    BY <1>1, <1>3, <1>6 DEF StackSound
  <2>2. InMemory(i)' \/ ig.row[i] = {}
    <3>1. CASE loc' = [loc EXCEPT ![i] = Slot(i)]
      BY <1>1, <3>1 DEF InMemory
    <3>2. CASE ig.left[i] = {}
      BY <1>1, <1>2, <3>2 DEF Undirected
    <3> QED
      BY <3>1, <3>2
  <2>3. ASSUME NEW v \in ig.removed
        PROVE  Stacked(v) \/ InMemory(v)' \/ ig.row[v] = {}
    BY <1>1, <1>2, <1>3, <1>4 DEF StackSound, InMemory
  <2>4. \A v \in ig'.removed : Stacked(v)' \/ InMemory(v)' \/ Coloured(v)' \/ ig'.row[v] = {}
    BY <2>2, <2>3 DEF Stacked
  <2> QED
    BY <1>1, <2>1, <2>4 DEF StackSound
<1>8. FewRivals'
  <2> SUFFICES ASSUME NEW k \in DOMAIN ig.stack
               PROVE  Cardinality(Rivals(k)') <= Cardinality(Regs)
    BY DEF FewRivals
  <2>1. Rivals(k)' \in SUBSET Rivals(k) /\ Rivals(k) \in SUBSET Vars
    BY <1>2, <1>4, <1>6 DEF Rivals
  <2>2. Cardinality(Rivals(k)') <= Cardinality(Rivals(k))
    BY <2>1, SmallerSet
  <2>3. Cardinality(Rivals(k)) <= Cardinality(Regs)
    BY <1>1 DEF FewRivals
  <2> QED
    BY <2>1, <2>2, <2>3, CountsAreNumbers
<1>9. ColoursDiffer'
  BY <1>4 DEF ColoursDiffer
<1> QED
  BY <1>4, <1>5, <1>7, <1>8, <1>9

\* What a step that moves a loop on, and no node, has to respect.
LEMMA LoopStepKeeps ==
  ASSUME GraphInv, ig' \in Graphs, ig'.row = ig.row, ig'.left = ig.left, ig'.removed = ig.removed,
         ig'.stack = ig.stack, loc' = loc, Loops'
  PROVE  GraphInv'
<1>1. Undirected' /\ StackSound' /\ ColoursDiffer' /\ \A v \in Vars : (Uncoloured(v) \/ Coloured(v))'
  BY DEF GraphInv, Undirected, StackSound, ColoursDiffer, Uncoloured, Coloured, Stacked, InMemory
<1>2. FewRivals'
  <2>1. \A k \in DOMAIN ig.stack : Rivals(k)' = Rivals(k)
    BY DEF Rivals, Coloured
  <2> QED
    BY <2>1 DEF FewRivals, GraphInv
<1> QED
  BY <1>1, <1>2 DEF GraphInv

\* Spilling the node the loop looks at.
LEMMA SpillKeeps ==
  ASSUME GraphInv, NEW i \in ig.todo, ig.pass # "colour", Located, mode = "RA_GC", i_igspill(i)
  PROVE  GraphInv'
<1> DEFINE o == Seen(i)
<1>1. /\ ig \in Graphs /\ Loops /\ i \in Left(ig) /\ i \in Vars /\ loc \in [Vars -> Places]
  BY DEF GraphInv, Loops, Left, Located
<1>2. /\ o \in Graphs /\ o.row = ig.row /\ o.left = ig.left /\ o.removed = ig.removed /\ o.stack = ig.stack
      /\ o.pass = ig.pass /\ o.todo = ig.todo \ {i} /\ o.target = ig.target
  BY <1>1 DEF Seen, Graphs
<1>3. ig' = i_igremove(o, i) /\ loc' = [loc EXCEPT ![i] = Slot(i)]
  BY DEF i_igspill
<1> HIDE DEF o
<1>4. /\ ig' \in Graphs /\ ig'.row = ig.row /\ ig'.left = Without(ig.left, i) /\ ig'.removed = ig.removed \cup {i}
      /\ ig'.stack = ig.stack /\ ig'.pass = ig.pass /\ ig'.todo = ig.todo \ {i} /\ ig'.target = ig.target
  <2>1. o \in Graphs /\ i \in Vars /\ ig' = i_igremove(o, i)
    BY <1>1, <1>2, <1>3
  <2>2. /\ ig' \in Graphs /\ ig'.row = o.row /\ ig'.left = Without(o.left, i) /\ ig'.removed = o.removed \cup {i}
        /\ ig'.stack = o.stack /\ ig'.pass = o.pass /\ ig'.todo = o.todo /\ ig'.target = o.target
    BY <2>1, RemovalEffect
  <2> QED
    BY <1>2, <2>2
<1>5. /\ Undirected' /\ StackSound' /\ FewRivals' /\ ColoursDiffer'
      /\ \A v \in Vars : Uncoloured(v)'
  BY <1>1, <1>3, <1>4, LeavingKeeps
<1>6. Loops'
  <2>1. Left(ig)' = Left(ig) \ {i} /\ \A v \in Left(ig)' : v \in Vars /\ loc'[v] = loc[v]
    BY <1>1, <1>3, <1>4 DEF Left
  <2> QED
    BY <1>1, <1>4, <1>5, <2>1 DEF Loops, Left, InMemory
<1> QED
  BY <1>4, <1>5, <1>6 DEF GraphInv

-----------------------------------------------------------------------------
(* Each loop.                                                              *)

LEMMA DismantleKeeps ==
  ASSUME GraphInv, Located, mode = "RA_GC", NEW i \in Vars, Dismantle(i)
  PROVE  GraphInv'
<1>1. /\ ig \in Graphs /\ Loops /\ Undirected /\ i \in ig.todo /\ i \in Left(ig) /\ ig.pass = "dismantle"
      /\ loc \in [Vars -> Places] /\ Uncoloured(i)
  BY DEF GraphInv, Loops, Left, Located, Dismantle, Colouring, NextNode
<1>2. /\ Seen(i) \in Graphs /\ Seen(i).row = ig.row /\ Seen(i).left = ig.left /\ Seen(i).removed = ig.removed
      /\ Seen(i).stack = ig.stack /\ Seen(i).pass = ig.pass /\ Seen(i).todo = ig.todo \ {i}
      /\ Seen(i).target = ig.target
  BY <1>1 DEF Seen, Graphs
<1>3. CASE InMemory(i) /\ i_igspill(i)
  BY <1>1, <1>3, SpillKeeps
<1>4. CASE ~InMemory(i) /\ ig.left[i] = {} /\ ig' = [Seen(i) EXCEPT !.removed = @ \cup {i}] /\ UNCHANGED loc
  <2>1. /\ ig' \in Graphs /\ ig'.row = ig.row /\ ig'.left = ig.left /\ ig'.removed = ig.removed \cup {i}
        /\ ig'.stack = ig.stack /\ ig'.pass = ig.pass /\ ig'.todo = ig.todo \ {i} /\ ig'.target = ig.target
    BY <1>1, <1>2, <1>4 DEF Graphs
  <2>2. ig.left = Without(ig.left, i)
    BY <1>1, <1>4 DEF Without, Graphs
  <2>3. /\ Undirected' /\ StackSound' /\ FewRivals' /\ ColoursDiffer'
        /\ \A v \in Vars : Uncoloured(v)'
    BY <1>1, <1>4, <2>1, <2>2, LeavingKeeps
  <2>4. Left(ig)' = Left(ig) \ {i} /\ loc' = loc
    BY <1>4, <2>1 DEF Left
  <2>5. Loops'
    BY <1>1, <2>1, <2>3, <2>4 DEF Loops, Left, InMemory
  <2> QED
    BY <2>1, <2>3, <2>5 DEF GraphInv
<1>5. CASE ~InMemory(i) /\ ig.left[i] # {} /\ Push(i)
  <2>1. loc[i] = Undecided
    BY <1>1, <1>5 DEF Uncoloured, InMemory
  <2> QED
    BY <1>1, <1>5, <2>1, PushKeeps DEF Dismantling
<1>6. CASE ~InMemory(i) /\ ~Colourable(i) /\ ig' = Seen(i) /\ UNCHANGED loc
  <2>1. Loops'
    BY <1>1, <1>2, <1>6 DEF Loops, Left, InMemory, Uncoloured
  <2> QED
    BY <1>2, <1>6, <2>1, LoopStepKeeps
<1> QED
  BY <1>3, <1>4, <1>5, <1>6 DEF Dismantle

\* A new sweep begins, of the same loop or the next one.
LEMMA SweepEffect ==
  ASSUME NEW g \in Graphs, NEW pass \in {"dismantle", "initial", "final", "colour"}, NEW h, h = Sweep(g, pass)
  PROVE  /\ h \in Graphs /\ h.row = g.row /\ h.left = g.left /\ h.removed = g.removed /\ h.stack = g.stack
         /\ h.pass = pass /\ h.todo = Left(g) /\ h.target = 0
BY DEF Sweep, Left, Graphs

LEMMA DismantledKeeps ==
  ASSUME GraphInv, Dismantled
  PROVE  GraphInv'
<1> DEFINE pass == IF Left(ig) = {} THEN "colour" ELSE IF ig.nremoved > 0 THEN "dismantle" ELSE "initial"
<1>1. ig \in Graphs /\ Loops /\ ig.pass = "dismantle" /\ ig.todo = {} /\ ig' = Sweep(ig, pass) /\ loc' = loc
  BY DEF GraphInv, Dismantled, Colouring
<1>2. /\ pass \in {"dismantle", "initial", "final", "colour"} /\ pass # "final"
      /\ pass = "colour" <=> Left(ig) = {}
  OBVIOUS
<1> HIDE DEF pass
<1>3. /\ ig' \in Graphs /\ ig'.row = ig.row /\ ig'.left = ig.left /\ ig'.removed = ig.removed /\ ig'.stack = ig.stack
      /\ ig'.pass = pass /\ ig'.todo = Left(ig) /\ ig'.target = 0
  BY <1>1, <1>2, SweepEffect
<1>4. Loops'
  BY <1>1, <1>2, <1>3 DEF Loops, Left, InMemory, Uncoloured
<1> QED
  BY <1>1, <1>3, <1>4, LoopStepKeeps

LEMMA InitialKeeps ==
  ASSUME GraphInv, Located, mode = "RA_GC", NEW i \in Vars, Initial(i)
  PROVE  GraphInv'
<1>1. /\ ig \in Graphs /\ Loops /\ i \in ig.todo /\ i \in Left(ig) /\ ig.pass = "initial" /\ loc[i] = Undecided
  BY DEF GraphInv, Loops, Left, Initial, Colouring, NextNode
<1>2. CASE Push(i)
  BY <1>1, <1>2, PushKeeps DEF Dismantling
<1>3. CASE ~Push(i)
  <2> DEFINE o == Seen(i)
             deg == Valence(i)
  <2>1. /\ o \in Graphs /\ o.row = ig.row /\ o.left = ig.left /\ o.removed = ig.removed /\ o.stack = ig.stack
        /\ o.pass = ig.pass /\ o.todo = ig.todo \ {i} /\ o.target = ig.target
    BY <1>1 DEF Seen, Graphs
  <2>2. deg \in Nat
    BY <1>1, CountsAreNumbers DEF Valence, Graphs
  <2>3. loc' = loc /\ (ig' = o \/ ig' = [o EXCEPT !.target = i, !.mc = deg])
    BY <1>3 DEF Initial
  <2> HIDE DEF o, deg
  <2>4. /\ ig' \in Graphs /\ ig'.row = ig.row /\ ig'.left = ig.left /\ ig'.removed = ig.removed /\ ig'.stack = ig.stack
        /\ ig'.pass = ig.pass /\ ig'.todo = ig.todo \ {i} /\ ig'.target \in {ig.target, i}
    <3>1. CASE ig' = o
      BY <2>1, <3>1
    <3>2. CASE ig' = [o EXCEPT !.target = i, !.mc = deg]
      BY <2>1, <2>2, <3>2 DEF Graphs
    <3> QED
      BY <2>3, <3>1, <3>2
  <2>5. Loops'
    BY <1>1, <2>3, <2>4 DEF Loops, Left, InMemory, Uncoloured
  <2> QED
    BY <2>3, <2>4, <2>5, LoopStepKeeps
<1> QED
  BY <1>2, <1>3

LEMMA InitialSpillKeeps ==
  ASSUME GraphInv, Located, mode = "RA_GC", InitialSpill
  PROVE  GraphInv'
<1>1. /\ ig \in Graphs /\ Loops /\ ig.pass = "initial" /\ ig.todo = {} /\ loc \in [Vars -> Places]
  BY DEF GraphInv, InitialSpill, Colouring, Located
<1>2. CASE Left(ig) # {} /\ ig.target # 0
  <2> DEFINE t == ig.target
             g == i_igremove(ig, t)
             pass == IF Left(g) = {} THEN "colour" ELSE "initial"
  <2>1. t \in Left(ig) /\ t \in Vars
    BY <1>1, <1>2 DEF Loops, Left
  <2>2. ig' = Sweep(g, pass) /\ loc' = [loc EXCEPT ![t] = Slot(t)]
    BY <1>2 DEF InitialSpill
  <2>3. g = i_igremove(ig, t)
    OBVIOUS
  <2>4. pass \in {"dismantle", "initial", "final", "colour"} /\ pass \in {"initial", "colour"}
        /\ (pass = "colour" <=> Left(g) = {})
    OBVIOUS
  <2> HIDE DEF t, g, pass
  <2>5. /\ g \in Graphs /\ g.row = ig.row /\ g.left = Without(ig.left, t) /\ g.removed = ig.removed \cup {t}
        /\ g.stack = ig.stack
    BY <1>1, <2>1, <2>3, RemovalEffect
  <2>6. /\ ig' \in Graphs /\ ig'.row = g.row /\ ig'.left = g.left /\ ig'.removed = g.removed /\ ig'.stack = g.stack
        /\ ig'.pass = pass /\ ig'.todo = Left(g) /\ ig'.target = 0
    BY <2>2, <2>4, <2>5, SweepEffect
  <2>7. /\ ig' \in Graphs /\ ig'.row = ig.row /\ ig'.left = Without(ig.left, t)
        /\ ig'.removed = ig.removed \cup {t} /\ ig'.stack = ig.stack
    BY <2>5, <2>6
  <2>8. /\ Undirected' /\ StackSound' /\ FewRivals' /\ ColoursDiffer'
        /\ \A v \in Vars : Uncoloured(v)'
    BY <1>1, <2>1, <2>2, <2>7, LeavingKeeps
  <2>9. Left(ig)' = Left(ig) \ {t} /\ Left(g) = Left(ig)' /\ \A v \in Left(ig)' : v \in Vars /\ loc'[v] = loc[v]
    BY <1>1, <2>1, <2>2, <2>5, <2>7 DEF Left
  <2>10. Loops'
    BY <1>1, <2>4, <2>6, <2>8, <2>9 DEF Loops
  <2> QED
    BY <2>7, <2>8, <2>10 DEF GraphInv
<1>3. CASE ~(Left(ig) # {} /\ ig.target # 0)
  <2> DEFINE pass == IF Left(ig) = {} THEN "colour" ELSE "final"
  <2>1. ig' = Sweep(ig, pass) /\ loc' = loc
    BY <1>3 DEF InitialSpill
  <2>2. pass \in {"dismantle", "initial", "final", "colour"} /\ pass \in {"final", "colour"}
        /\ (pass = "colour" <=> Left(ig) = {})
    OBVIOUS
  <2> HIDE DEF pass
  <2>3. /\ ig' \in Graphs /\ ig'.row = ig.row /\ ig'.left = ig.left /\ ig'.removed = ig.removed /\ ig'.stack = ig.stack
        /\ ig'.pass = pass /\ ig'.todo = Left(ig) /\ ig'.target = 0
    BY <1>1, <2>1, <2>2, SweepEffect
  <2>4. Loops'
    BY <1>1, <2>1, <2>2, <2>3 DEF Loops, Left, InMemory, Uncoloured
  <2> QED
    BY <2>1, <2>3, <2>4, LoopStepKeeps
<1> QED
  BY <1>2, <1>3

LEMMA FinalKeeps ==
  ASSUME GraphInv, Located, mode = "RA_GC", NEW i \in Vars, Final(i)
  PROVE  GraphInv'
<1>1. /\ ig \in Graphs /\ Loops /\ i \in ig.todo /\ i \in Left(ig) /\ ig.pass = "final" /\ loc[i] = Undecided
  BY DEF GraphInv, Loops, Left, Final, Colouring, NextNode
<1>2. CASE Push(i)
  BY <1>1, <1>2, PushKeeps DEF Dismantling
<1>3. CASE i_igspill(i)
  BY <1>1, <1>3, SpillKeeps
<1>4. CASE ig' = [Seen(i) EXCEPT !.deferred[i] = @ + 1] /\ UNCHANGED loc
  <2> DEFINE o == Seen(i)
             later == [ig.deferred EXCEPT ![i] = @ + 1]
  <2>1. /\ o \in Graphs /\ o.row = ig.row /\ o.left = ig.left /\ o.removed = ig.removed /\ o.stack = ig.stack
        /\ o.pass = ig.pass /\ o.todo = ig.todo \ {i} /\ o.target = ig.target /\ o.deferred = ig.deferred
    BY <1>1 DEF Seen, Graphs
  <2>2. ig' = [o EXCEPT !.deferred = later]
    BY <1>4, <2>1
  <2>3. later \in [Vars -> Nat]
    BY <1>1 DEF Graphs
  <2> HIDE DEF o, later
  <2>4. /\ ig' \in Graphs /\ ig'.row = ig.row /\ ig'.left = ig.left /\ ig'.removed = ig.removed /\ ig'.stack = ig.stack
        /\ ig'.pass = ig.pass /\ ig'.todo = ig.todo \ {i} /\ ig'.target = ig.target
    BY <2>1, <2>2, <2>3 DEF Graphs
  <2>5. Loops'
    BY <1>1, <1>4, <2>4 DEF Loops, Left, InMemory, Uncoloured
  <2> QED
    BY <1>4, <2>4, <2>5, LoopStepKeeps
<1> QED
  BY <1>2, <1>3, <1>4 DEF Final

LEMMA FinalSweepKeeps ==
  ASSUME GraphInv, FinalSweep
  PROVE  GraphInv'
<1> DEFINE pass == IF Left(ig) = {} THEN "colour" ELSE "final"
<1>1. ig \in Graphs /\ Loops /\ ig.pass = "final" /\ ig.todo = {} /\ ig' = Sweep(ig, pass) /\ loc' = loc
  BY DEF GraphInv, FinalSweep, Colouring
<1>2. pass \in {"dismantle", "initial", "final", "colour"} /\ pass \in {"final", "colour"}
      /\ (pass = "colour" <=> Left(ig) = {})
  OBVIOUS
<1> HIDE DEF pass
<1>3. /\ ig' \in Graphs /\ ig'.row = ig.row /\ ig'.left = ig.left /\ ig'.removed = ig.removed /\ ig'.stack = ig.stack
      /\ ig'.pass = pass /\ ig'.todo = Left(ig) /\ ig'.target = 0
  BY <1>1, <1>2, SweepEffect
<1>4. Loops'
  BY <1>1, <1>2, <1>3 DEF Loops, Left, InMemory, Uncoloured
<1> QED
  BY <1>1, <1>3, <1>4, LoopStepKeeps

-----------------------------------------------------------------------------
(* Putting the nodes back.                                                 *)

\* The node on top of the stack has fewer rivals than there are registers, and
\* only rivals hold a register that one of its neighbours could take from it.
LEMMA RegisterForTop ==
  ASSUME GraphInv, ig.stack # <<>>
  PROVE  \E r \in Regs : \A v \in Neighbours(Last(ig.stack)) : loc[v] # Reg(r)
<1> DEFINE n == Len(ig.stack)
           i == ig.stack[n]
           S == Rivals(n) \ {i}
<1>1. /\ ig.stack \in Seq(Vars) /\ ig.row \in [Vars -> SUBSET Vars] /\ n \in DOMAIN ig.stack /\ Last(ig.stack) = i
      /\ n \in Nat
  BY DEF GraphInv, Graphs, Last
<1>2. i \in Vars /\ loc[i] = Undecided
  BY <1>1 DEF GraphInv, StackSound
<1>3. CASE ig.row[i] = {}
  BY <1>1, <1>3, FlowAssumption DEF Neighbours, FlowAssumption
<1>4. CASE ig.row[i] # {}
  <2>1. i \in Rivals(n) /\ Rivals(n) \in SUBSET Vars
    BY <1>1, <1>2, <1>4 DEF Rivals, GraphInv, Undirected
  <2>2. Cardinality(Rivals(n)) <= Cardinality(Regs)
    BY <1>1 DEF GraphInv, FewRivals
  <2>3. S \in SUBSET Vars /\ Cardinality(S) = Cardinality(Rivals(n)) - 1
    BY <2>1, CountsAreNumbers, FS_RemoveElement
  <2>4. Cardinality(S) < Cardinality(Regs)
    BY <2>1, <2>2, <2>3, CountsAreNumbers
  <2>5. \A v \in Neighbours(i) : v \notin S => ~Coloured(v)
    BY <1>2, PlacesDiffer DEF Rivals, Neighbours, Coloured
  <2> HIDE DEF S
  <2>6. PICK r \in Regs : \A v \in S : loc[v] # Reg(r)
    BY <2>3, <2>4, FreeRegister
  <2>7. \A v \in Neighbours(i) : loc[v] # Reg(r)
    BY <2>5, <2>6 DEF Coloured
  <2> QED
    BY <1>1, <2>7
<1> QED
  BY <1>3, <1>4

LEMMA ColourKeeps ==
  ASSUME GraphInv, Located, mode = "RA_GC", Colour, ig.stack # <<>>
  PROVE  GraphInv'
<1> DEFINE s == ig.stack
           n == Len(s)
<1>1. /\ ig \in Graphs /\ Undirected /\ StackSound /\ FewRivals /\ ColoursDiffer /\ Loops
      /\ ig.pass = "colour" /\ Left(ig) = {} /\ loc \in [Vars -> Places]
  BY DEF GraphInv, Loops, Located, Colour, Colouring
<1>2. /\ s \in Seq(Vars) /\ ig.row \in [Vars -> SUBSET Vars] /\ n \in Nat \ {0} /\ Last(s) = s[n]
      /\ DOMAIN s = 1 .. n /\ Front(s) = SubSeq(s, 1, n - 1) /\ ig.removed = Vars
  BY <1>1 DEF Graphs, Last, Front, Left
<1>3. /\ Front(s) \in Seq(Vars) /\ Len(Front(s)) = n - 1 /\ DOMAIN Front(s) = 1 .. n - 1
      /\ \A k \in 1 .. n - 1 : Front(s)[k] = s[k]
  BY <1>2
<1>top. PICK i \in Vars : i = s[n]
  BY <1>2
<1>4. loc[i] = Undecided /\ \A k \in 1 .. n - 1 : s[k] # i /\ s[k] \in Vars
  BY <1>1, <1>2, <1>top DEF StackSound
<1> DEFINE free == {r \in Regs : \A v \in Neighbours(i) : loc[v] # Reg(r)}
<1>5. free # {}
  BY <1>2, <1>top, RegisterForTop
<1>6. PICK r \in free : loc' = [loc EXCEPT ![i] = Reg(r)]
  BY <1>2, <1>top, <1>5 DEF Colour
<1>7. r \in Regs /\ \A v \in ig.row[i] : loc[v] # Reg(r)
  BY <1>6 DEF Neighbours
<1> DEFINE f == Front(s)
<1>8. ig' = [ig EXCEPT !.stack = f]
  BY DEF Colour
<1>9. f \in Seq(Vars)
  BY <1>3
<1> HIDE DEF f, free
<1>10. /\ ig' \in Graphs /\ ig'.row = ig.row /\ ig'.left = ig.left /\ ig'.removed = ig.removed /\ ig'.stack = f
       /\ ig'.pass = ig.pass /\ ig'.todo = ig.todo /\ ig'.target = ig.target
  BY <1>1, <1>8, <1>9 DEF Graphs
<1>11. /\ DOMAIN f = 1 .. n - 1 /\ Len(f) = n - 1 /\ \A k \in 1 .. n - 1 : f[k] = s[k]
  BY <1>3 DEF f
<1> HIDE DEF n, s
<1>12. /\ \A v \in Vars \ {i} : loc'[v] = loc[v] /\ (Coloured(v)' <=> Coloured(v))
       /\ loc'[i] = Reg(r) /\ Coloured(i)' /\ ~Coloured(i)
  <2>1. loc'[i] = Reg(r) /\ \A v \in Vars \ {i} : loc'[v] = loc[v]
    BY <1>1, <1>4, <1>6
  <2>2. Coloured(i)' /\ ~Coloured(i)
    BY <1>4, <1>7, <2>1, PlacesDiffer DEF Coloured
  <2>3. ASSUME NEW v \in Vars \ {i} PROVE Coloured(v)' <=> Coloured(v)
    BY <2>1 DEF Coloured
  <2> QED
    BY <2>1, <2>2, <2>3
<1>13. ASSUME NEW v \in Vars PROVE (Uncoloured(v) \/ Coloured(v))'
  <2>1. Uncoloured(v) \/ Coloured(v)
    BY DEF GraphInv
  <2>2. CASE v = i
    BY <1>12, <2>2
  <2>3. CASE v # i
    BY <1>12, <2>1, <2>3 DEF Uncoloured
  <2> QED
    BY <2>2, <2>3
<1>14. Undirected'
  BY <1>1, <1>10 DEF Undirected
<1>15. StackSound'
  <2>1. \A j, k \in 1 .. n - 1 : f[j] = f[k] => j = k
    <3>1. \A j, k \in 1 .. n : s[j] = s[k] => j = k
      BY <1>1, <1>2 DEF StackSound, s
    <3>2. \A j \in 1 .. n - 1 : j \in 1 .. n
      BY <1>2
    <3> QED
      BY <1>11, <3>1, <3>2
  <2>2. \A k \in 1 .. n - 1 : f[k] \in ig.removed /\ loc'[f[k]] = Undecided
    <3>1. \A k \in 1 .. n : s[k] \in ig.removed /\ loc[s[k]] = Undecided
      BY <1>1, <1>2 DEF StackSound, s
    <3>2. \A j \in 1 .. n - 1 : j \in 1 .. n
      BY <1>2
    <3> QED
      BY <1>4, <1>11, <1>12, <3>1, <3>2
  <2>3. ASSUME NEW v \in ig.removed
        PROVE  Stacked(v)' \/ InMemory(v)' \/ Coloured(v)' \/ ig.row[v] = {}
    <3>1. CASE v = i
      BY <1>12, <3>1
    <3>2. CASE v # i /\ Stacked(v)
      <4>1. PICK k \in 1 .. n : s[k] = v
        BY <1>2, <3>2 DEF Stacked, s
      <4>2. k \in 1 .. n - 1 /\ f[k] = v
        BY <1>2, <1>top, <1>11, <3>2, <4>1
      <4> QED
        BY <1>10, <1>11, <4>2 DEF Stacked
    <3>3. CASE v # i /\ ~Stacked(v)
      BY <1>1, <1>2, <1>12, <3>3 DEF StackSound, InMemory
    <3> QED
      BY <3>1, <3>2, <3>3
  <2> QED
    BY <1>10, <1>11, <2>1, <2>2, <2>3 DEF StackSound
<1>16. FewRivals'
  <2> SUFFICES ASSUME NEW k \in 1 .. n - 1
               PROVE  Cardinality(Rivals(k)') <= Cardinality(Regs)
    BY <1>10, <1>11 DEF FewRivals
  <2>1. k \in 1 .. n /\ f[k] = s[k] /\ s[k] \in Vars /\ n \in Nat
    BY <1>2, <1>4, <1>11
  <2>2. ASSUME NEW w \in Rivals(k)'
        PROVE  w \in Rivals(k)
    <3>1. /\ w \in ig.row[s[k]] /\ w \in Vars
          /\ Coloured(w)' \/ \E j \in k .. n - 1 : f[j] = w
      BY <1>2, <1>10, <1>11, <2>1 DEF Rivals
    <3>2. CASE w = i
      BY <1>top, <2>1, <3>1, <3>2 DEF Rivals, s, n
    <3>3. CASE w # i /\ Coloured(w)'
      BY <1>12, <3>1, <3>3 DEF Rivals, s
    <3>4. ASSUME NEW j \in k .. n - 1, f[j] = w
          PROVE  w \in Rivals(k)
      <4>1. j \in k .. n /\ s[j] = w
        BY <1>11, <2>1, <3>4
      <4> QED
        BY <3>1, <4>1 DEF Rivals, s, n
    <3> QED
      BY <3>1, <3>2, <3>3, <3>4
  <2>3. Rivals(k) \in SUBSET Vars
    BY <1>2, <2>1 DEF Rivals, s
  <2>4. Cardinality(Rivals(k)') <= Cardinality(Rivals(k))
    BY <2>2, <2>3, SmallerSet
  <2>5. Cardinality(Rivals(k)) <= Cardinality(Regs)
    BY <1>1, <1>2, <2>1 DEF FewRivals, s
  <2> QED
    BY <2>2, <2>3, <2>4, <2>5, CountsAreNumbers
<1>17. ColoursDiffer'
  <2> SUFFICES ASSUME NEW v \in Vars, NEW w \in ig.row[v] \ {v}, Coloured(v)'
               PROVE  loc'[v] # loc'[w]
    BY <1>10 DEF ColoursDiffer
  <2>1. w \in Vars /\ v \in ig.row[w]
    BY <1>1, <1>2 DEF Undirected
  <2>2. CASE v = i
    BY <1>7, <1>12, <2>1, <2>2
  <2>3. CASE w = i
    BY <1>7, <1>12, <2>1, <2>3
  <2>4. CASE v # i /\ w # i
    BY <1>1, <1>12, <2>1, <2>4 DEF ColoursDiffer
  <2> QED
    BY <2>2, <2>3, <2>4
<1>18. Loops'
  BY <1>1, <1>10 DEF Loops, Left
<1> QED
  BY <1>10, <1>13, <1>14, <1>15, <1>16, <1>17, <1>18 DEF GraphInv

\* No more nodes to put back: every node with edges has its place.
LEMMA ColouredWell ==
  ASSUME GraphInv, Located, mode = "RA_GC", Colour, ig.stack = <<>>
  PROVE  NeighboursDiffer'
<1>1. /\ ig \in Graphs /\ StackSound /\ Undirected /\ ColoursDiffer /\ ig.removed = Vars
      /\ \A v \in Vars : Uncoloured(v) \/ Coloured(v)
  BY DEF GraphInv, Loops, Colour, Colouring, Left, Graphs
<1>2. ig' = ig /\ loc' = loc
  BY DEF Colour
<1>3. \A v \in Vars : ~Stacked(v)
  BY DEF Stacked
<1> SUFFICES ASSUME NEW v \in Vars
             PROVE  /\ loc[v] # Reg(-1) /\ (ig.row[v] # {} => loc[v] # Undecided)
                    /\ \A w \in ig.row[v] \ {v} : loc[v] = loc[w] => InMemory(v)
  BY <1>2 DEF NeighboursDiffer, InMemory
<1>4. ig.row[v] = {} \/ InMemory(v) \/ Coloured(v)
  BY <1>1, <1>3 DEF StackSound
<1>5. loc[v] # Reg(-1)
  <2>1. -1 \notin Regs
    BY FlowAssumption DEF FlowAssumption
  <2> QED
    BY <1>1, <2>1, PlacesDiffer DEF Uncoloured, Coloured
<1>6. ig.row[v] # {} => loc[v] # Undecided
  BY <1>4, PlacesDiffer DEF InMemory, Coloured
<1>7. \A w \in ig.row[v] \ {v} : loc[v] = loc[w] => InMemory(v)
  BY <1>1, <1>4 DEF ColoursDiffer
<1> QED
  BY <1>5, <1>6, <1>7

\* Cliques make an undirected graph, and nothing has been removed from it.
LEMMA BuildMakesGraph ==
  ASSUME i_ig_build, Located, mode = "RA_GC", \A v \in Vars : Uncoloured(v)
  PROVE  GraphInv'
<1> DEFINE cliques == Interference.cliques
           row == Adjacency(cliques)
           none == [v \in Vars |-> 0]
<1>1. /\ ig' = [row |-> row, left |-> row, removed |-> {}, stack |-> <<>>, pass |-> "dismantle",
                 todo |-> Vars, nremoved |-> 0, target |-> 0, mc |-> 0, deferred |-> none]
      /\ loc' = loc
  BY DEF i_ig_build
<1> HIDE DEF cliques
<1>2. /\ row \in [Vars -> SUBSET Vars]
      /\ \A v, w \in Vars : w \in row[v] => v \in row[w]
      /\ \A v \in Vars : row[v] # {} => v \in row[v]
  BY DEF Adjacency
<1>3. none \in [Vars -> Nat]
  OBVIOUS
<1> HIDE DEF row, none
<1>4. ig' \in Graphs
  BY <1>1, <1>2, <1>3 DEF Graphs
<1>5. /\ ig'.row = row /\ ig'.left = row /\ ig'.removed = {} /\ ig'.stack = <<>> /\ ig'.pass = "dismantle"
      /\ ig'.todo = Vars /\ ig'.target = 0
  BY <1>1
<1>6. \A v \in Vars : Uncoloured(v)' /\ ~Coloured(v)'
  BY <1>1, NoColoursYet DEF Uncoloured, Coloured
<1>7. Undirected'
  BY <1>2, <1>5 DEF Undirected
<1>8. StackSound' /\ FewRivals' /\ ColoursDiffer'
  BY <1>5, <1>6 DEF StackSound, FewRivals, ColoursDiffer
<1>9. Loops'
  BY <1>5, <1>6 DEF Loops, Left
<1> QED
  BY <1>4, <1>6, <1>7, <1>8, <1>9 DEF GraphInv

-----------------------------------------------------------------------------
(* The invariant.                                                          *)

LEMMA InitMakesIInv == Init => IInv
<1> SUFFICES ASSUME Init PROVE IInv
  OBVIOUS
<1>1. PassOfMode
  BY DEF Init, PassOfMode
<1>2. Located /\ \A v \in Vars : Uncoloured(v)
  BY FlowAssumption DEF Init, Located, Uncoloured, Places, FlowAssumption
<1> QED
  BY <1>1, <1>2 DEF Init, IInv, NeighboursDiffer

\* The steps before the colouring, and the runs of the finished program.
LEMMA OtherStepsKeep ==
  ASSUME IInv, phase # "i_ig_color", phase' # "i_ig_color",
         PassOfMode', mode' = mode,
         mode = "RA_GC" => \/ loc' = loc
                           \/ \E S \in SUBSET Vars : loc' = [v \in Vars |-> IF v \in S THEN Slot(v) ELSE loc[v]],
         (mode = "RA_GC" /\ phase' \in {"i_op", "i_fg_build", "i_fg_lv", "i_ig_build"}) =>
            phase \in {"i_op", "i_fg_build", "i_fg_lv", "i_ig_build"},
         phase' = "placed" => mode # "RA_GC"
  PROVE  IInv'
<1>1. Located'
  <2> SUFFICES ASSUME mode = "RA_GC" PROVE loc' \in [Vars -> Places]
    BY DEF Located
  <2>1. loc \in [Vars -> Places]
    BY DEF IInv, Located
  <2>2. \A v \in Vars : Slot(v) \in Places
    BY DEF Places
  <2> QED
    BY <2>1, <2>2
<1>2. ASSUME mode = "RA_GC", phase' \in {"i_op", "i_fg_build", "i_fg_lv", "i_ig_build"}, NEW v \in Vars
      PROVE  Uncoloured(v)'
  <2>1. Uncoloured(v)
    BY <1>2 DEF IInv
  <2> QED
    BY <1>2, <2>1 DEF Uncoloured
<1> QED
  BY <1>1, <1>2 DEF IInv, NeighboursDiffer

LEMMA ColouringKeeps ==
  ASSUME IInv, i_ig_color
  PROVE  IInv'
<1>1. /\ PassOfMode /\ Located /\ phase = "i_ig_color" /\ GraphInv /\ mode = "RA_GC" /\ mode' = mode
  BY DEF IInv, PassOfMode, i_ig_color, Dismantle, Initial, Final, Dismantled, InitialSpill, FinalSweep, Colour,
         Colouring, KeepAll
<1>2. Located'
  <2>1. /\ loc \in [Vars -> Places]
        /\ \A v \in Vars : Slot(v) \in Places
        /\ \A r \in Regs \cup {-1} : Reg(r) \in Places
    BY <1>1 DEF Located, Places
  <2>2. \/ loc' = loc
        \/ \E v \in Vars : loc' = [loc EXCEPT ![v] = Slot(v)]
        \/ \E v \in Vars, r \in Regs \cup {-1} : loc' = [loc EXCEPT ![v] = Reg(r)]
    <3>1. ASSUME NEW i \in Vars, Dismantle(i) \/ Initial(i) \/ Final(i)
          PROVE  loc' = loc \/ loc' = [loc EXCEPT ![i] = Slot(i)]
      BY <3>1 DEF Dismantle, Initial, Final, Push, i_igspill
    <3>2. ASSUME Dismantled \/ FinalSweep
          PROVE  loc' = loc
      BY <3>2 DEF Dismantled, FinalSweep
    <3>3. ASSUME InitialSpill
          PROVE  loc' = loc \/ \E v \in Vars : loc' = [loc EXCEPT ![v] = Slot(v)]
      <4>1. ig.target # 0 => ig.target \in Vars
        BY <1>1 DEF GraphInv, Loops, Left
      <4> QED
        BY <3>3, <4>1 DEF InitialSpill
    <3>4. ASSUME Colour
          PROVE  loc' = loc \/ \E v \in Vars, r \in Regs \cup {-1} : loc' = [loc EXCEPT ![v] = Reg(r)]
      <4>1. ig.stack # <<>> => Last(ig.stack) \in Vars
        BY <1>1 DEF GraphInv, Graphs, Last
      <4> QED
        BY <3>4, <4>1 DEF Colour
    <3> QED
      BY <3>1, <3>2, <3>3, <3>4 DEF i_ig_color
  <2> QED
    BY <2>1, <2>2 DEF Located
<1>3. CASE Colour /\ ig.stack = <<>>
  <2>1. phase' = "placed" /\ NeighboursDiffer'
    BY <1>1, <1>3, ColouredWell DEF Colour
  <2> QED
    BY <1>1, <1>2, <2>1 DEF IInv, PassOfMode
<1>4. ASSUME phase' = phase, GraphInv'
      PROVE  IInv'
  BY <1>1, <1>2, <1>4 DEF IInv, PassOfMode, NeighboursDiffer
<1>5. CASE Colour /\ ig.stack # <<>>
  BY <1>1, <1>4, <1>5, ColourKeeps DEF Colour
<1>6. ASSUME NEW i \in Vars, Dismantle(i) \/ Initial(i) \/ Final(i)
      PROVE  IInv'
  <2>1. phase' = phase
    BY <1>6 DEF Dismantle, Initial, Final
  <2> QED
    BY <1>1, <1>4, <1>6, <2>1, DismantleKeeps, InitialKeeps, FinalKeeps
<1>7. CASE Dismantled
  BY <1>1, <1>4, <1>7, DismantledKeeps DEF Dismantled
<1>8. CASE InitialSpill
  BY <1>1, <1>4, <1>8, InitialSpillKeeps DEF InitialSpill
<1>9. CASE FinalSweep
  BY <1>1, <1>4, <1>9, FinalSweepKeeps DEF FinalSweep
<1> QED
  BY <1>3, <1>5, <1>6, <1>7, <1>8, <1>9 DEF i_ig_color

LEMMA NextKeepsIInv == IInv /\ [Next]_vars => IInv'
<1> SUFFICES ASSUME IInv, [Next]_vars PROVE IInv'
  OBVIOUS
<1>modes. /\ PassOfMode /\ mode \in Modes
      /\ Modes \subseteq {"RA_EZ", "RA_GC", "RA_LR", "RA_LS"}
  BY FlowAssumption DEF IInv, PassOfMode, FlowAssumption
<1>1. CASE Emit
  BY <1>1, <1>modes, OtherStepsKeep DEF Emit, PassOfMode
<1>2. CASE i_fg_build
  <2> DEFINE S == {v \in Vars : \E cp \in DOMAIN code : code[cp].k = "lea" /\ v \in code[cp].u}
  <2>1. /\ phase = "i_fg_build" /\ phase' \in {"i_ra_priority", "dfs", "i_fg_lv"} /\ mode' = mode
        /\ phase' = "i_ra_priority" <=> mode = "RA_EZ"
        /\ phase' = "dfs" <=> mode = "RA_LS"
    BY <1>2, <1>modes DEF i_fg_build
  <2>2. loc' = loc \/ loc' = [v \in Vars |-> IF v \in S THEN Slot(v) ELSE loc[v]]
    BY <1>2 DEF i_fg_build
  <2>3. S \in SUBSET Vars
    OBVIOUS
  <2> HIDE DEF S
  <2>4. PassOfMode'
    BY <1>modes, <2>1 DEF PassOfMode
  <2> QED
    BY <2>1, <2>2, <2>3, <2>4, OtherStepsKeep
<1>3. CASE i_fg_lv
  <2>1. /\ phase = "i_fg_lv" /\ mode' = mode /\ loc' = loc
        /\ phase' = phase \/ phase' = IF mode = "RA_LR" THEN "i_li_full" ELSE "i_ig_build"
    BY <1>3 DEF i_fg_lv
  <2> QED
    BY <1>modes, <2>1, OtherStepsKeep DEF PassOfMode
<1>4. CASE i_li_full
  BY <1>4, <1>modes, OtherStepsKeep DEF i_li_full, PassOfMode
<1>5. CASE i_li_scc
  BY <1>5, <1>modes, OtherStepsKeep DEF i_li_scc, dfs, dfs_visit, scc_mark, scan_intervals, scc_visit, PassOfMode
<1>6. CASE i_ra_ls
  BY <1>6, <1>modes, OtherStepsKeep DEF i_ra_ls, PassOfMode
<1>7. CASE i_ra_priority
  BY <1>7, <1>modes, OtherStepsKeep DEF i_ra_priority, PassOfMode
<1>8. CASE i_ig_build
  <2>1. phase = "i_ig_build" /\ mode = "RA_GC" /\ mode' = mode /\ loc' = loc /\ phase' = "i_ig_color"
    BY <1>8, <1>modes DEF i_ig_build, PassOfMode
  <2>2. Located /\ \A v \in Vars : Uncoloured(v)
    BY <2>1 DEF IInv
  <2>3. GraphInv'
    BY <1>8, <2>1, <2>2, BuildMakesGraph
  <2> QED
    BY <1>modes, <2>1, <2>2, <2>3 DEF IInv, PassOfMode, Located, NeighboursDiffer
<1>9. CASE i_ig_color
  BY <1>9, ColouringKeeps
<1>10. CASE Run \/ Step
  BY <1>10, <1>modes, OtherStepsKeep DEF Run, Step, PassOfMode
<1>11. CASE UNCHANGED vars
  <2>1. mode' = mode /\ phase' = phase /\ loc' = loc /\ ig' = ig
    BY <1>11 DEF vars
  <2>2. GraphInv => GraphInv'
    <3> SUFFICES ASSUME GraphInv PROVE GraphInv'
      OBVIOUS
    <3>1. Loops'
      BY <2>1 DEF GraphInv, Loops, Left, InMemory, Uncoloured
    <3> QED
      BY <2>1, <3>1, LoopStepKeeps DEF GraphInv
  <2>3. NeighboursDiffer'
    BY <2>1 DEF IInv, NeighboursDiffer, InMemory
  <2> QED
    BY <1>modes, <2>1, <2>2, <2>3 DEF IInv, PassOfMode, Located, Uncoloured
<1> QED
  BY <1>1, <1>2, <1>3, <1>4, <1>5, <1>6, <1>7, <1>8, <1>9, <1>10, <1>11 DEF Next

THEOREM GraphInvariant == Spec => []IInv
BY InitMakesIInv, NextKeepsIInv, PTL DEF Spec

\* The colouring finds a register for every node it puts back, different from
\* those of all its neighbours: i_ig_color never runs out of registers, however
\* many locals the spilling loops left on the stack.
THEOREM ColouringIsProper == Spec => []NeighboursDiffer
<1>1. IInv => NeighboursDiffer
  BY DEF IInv
<1> QED
  BY <1>1, GraphInvariant, PTL

-----------------------------------------------------------------------------
(* Induction and loops.                                                    *)

\* A set of natural numbers that is not empty has a least element.
LEMMA LeastElement ==
  ASSUME NEW T \in SUBSET Nat, T # {}
  PROVE  \E n \in T : \A m \in T : n <= m
<1> DEFINE R == {p \in Nat \X Nat : p[1] < p[2]}
<1>1. IsWellFoundedOn(R, Nat)
  BY NatLessThanWellFounded DEF OpToRel
<1>2. ASSUME NEW x \in Nat, NEW y \in Nat, ~(<<y, x>> \in R)
      PROVE  x <= y
  BY <1>2
<1> HIDE DEF R
<1>3. PICK x \in T : \A y \in T : ~(<<y, x>> \in R)
  BY <1>1, WFMin, Zenon
<1>4. ASSUME NEW y \in T
      PROVE  x <= y
  <2>1. x \in Nat /\ y \in Nat /\ ~(<<y, x>> \in R)
    BY <1>3
  <2> QED
    BY <1>2, <2>1
<1> QED
  BY <1>4

\* Induction, for the set of the numbers that have the property.
LEMMA Induction ==
  ASSUME NEW S, 0 \in S, \A n \in Nat : n \in S => n + 1 \in S
  PROVE  \A n \in Nat : n \in S
<1> SUFFICES ASSUME NEW k \in Nat, k \notin S
             PROVE  FALSE
  OBVIOUS
<1> DEFINE T == {n \in Nat : n \notin S}
<1>1. PICK n \in T : \A m \in T : n <= m
  <2>1. T \in SUBSET Nat /\ T # {}
    OBVIOUS
  <2> HIDE DEF T
  <2> QED
    BY <2>1, LeastElement
<1>2. n # 0 /\ n - 1 \in Nat /\ n - 1 \notin T
  BY <1>1
<1> QED
  BY <1>2

\* The values of a loop after each of N rounds; S[n] is what is known after n.
Loop(f, N, base, step, S) ==
  /\ f = [n \in 0 .. N |-> f[n]]
  /\ f[0] = base
  /\ \A n \in 1 .. N : f[n] = step[n][f[n - 1]]
  /\ \A n \in 0 .. N : f[n] \in S[n]

\* A loop whose body keeps an invariant has values for every round.
LEMMA Iterates ==
  ASSUME NEW N \in Nat, NEW S, NEW base \in S[0], NEW step,
         \A n \in 1 .. N : \A s \in S[n - 1] : step[n][s] \in S[n]
  PROVE  \E f : Loop(f, N, base, step, S)
<1> USE DEF Loop
<1> DEFINE Good(f, m) == Loop(f, m, base, step, S)
           Has == {m \in Nat : m <= N => \E f : Good(f, m)}
<1>1. 0 \in Has
  <2> DEFINE f == [n \in 0 .. 0 |-> base]
  <2>1. f[0] = base /\ f = [n \in 0 .. 0 |-> f[n]]
    OBVIOUS
  <2> HIDE DEF f
  <2>2. Good(f, 0)
    BY <2>1
  <2> QED
    BY <2>2
<1>2. ASSUME NEW m \in Nat, m \in Has
      PROVE  m + 1 \in Has
  <2> SUFFICES ASSUME m + 1 <= N
               PROVE  \E f : Good(f, m + 1)
    OBVIOUS
  <2>1. PICK f : Good(f, m)
    BY <1>2
  <2> DEFINE g == [n \in 0 .. m + 1 |-> IF n = m + 1 THEN step[m + 1][f[m]] ELSE f[n]]
  <2>2. /\ g = [n \in 0 .. m + 1 |-> g[n]]
        /\ \A n \in 0 .. m : g[n] = f[n]
        /\ g[m + 1] = step[m + 1][f[m]]
    OBVIOUS
  <2> HIDE DEF g
  <2>3. g[m + 1] \in S[m + 1]
    <3>1. m + 1 \in 1 .. N /\ (m + 1) - 1 = m /\ f[m] \in S[m]
      BY <2>1
    <3> QED
      BY <2>2, <3>1
  <2>4. ASSUME NEW n \in 1 .. m + 1
        PROVE  g[n] = step[n][g[n - 1]]
    <3>1. n - 1 \in 0 .. m /\ (n # m + 1 => n \in 1 .. m /\ n \in 0 .. m)
      OBVIOUS
    <3>2. g[n - 1] = f[n - 1] /\ (n # m + 1 => g[n] = f[n])
      BY <2>2, <3>1, Zenon
    <3>3. CASE n = m + 1
      <4>1. n - 1 = m /\ m \in 0 .. m
        BY <3>3
      <4> QED
        BY <2>2, <3>3, <4>1
    <3>4. CASE n # m + 1
      <4>1. f[n] = step[n][f[n - 1]]
        BY <2>1, <3>1, <3>4
      <4> QED
        BY <3>2, <3>4, <4>1
    <3> QED
      BY <3>3, <3>4
  <2>5. ASSUME NEW n \in 0 .. m + 1
        PROVE  g[n] \in S[n]
    <3>1. CASE n = m + 1
      BY <2>3, <3>1
    <3>2. CASE n # m + 1
      <4>1. n \in 0 .. m
        BY <3>2
      <4>2. g[n] = f[n]
        BY <2>2, <4>1, Zenon
      <4>3. f[n] \in S[n]
        BY <2>1, <4>1
      <4> QED
        BY <4>2, <4>3, Zenon
    <3> QED
      BY <3>1, <3>2
  <2>6. g[0] = base
    <3>1. 0 \in 0 .. m
      OBVIOUS
    <3> QED
      BY <2>1, <2>2, <3>1, Zenon
  <2>7. Good(g, m + 1)
    BY <2>2, <2>4, <2>5, <2>6
  <2> QED
    BY <2>7
<1> HIDE DEF Has
<1>3. N \in Has
  BY <1>1, <1>2, Induction
<1> QED
  BY <1>3 DEF Has

\* The invariant of a loop holds after every round.
LEMMA LoopInvariant ==
  ASSUME NEW N \in Nat, NEW S, NEW f, f[0] \in S[0],
         \A n \in 1 .. N : f[n - 1] \in S[n - 1] => f[n] \in S[n]
  PROVE  \A n \in 0 .. N : f[n] \in S[n]
<1> DEFINE Holds == {n \in Nat : n <= N => f[n] \in S[n]}
<1>1. 0 \in Holds
  OBVIOUS
<1>2. ASSUME NEW n \in Nat, n \in Holds
      PROVE  n + 1 \in Holds
  <2> SUFFICES ASSUME n + 1 <= N
               PROVE  f[n + 1] \in S[n + 1]
    OBVIOUS
  <2>1. n + 1 \in 1 .. N /\ (n + 1) - 1 = n /\ f[n] \in S[n]
    BY <1>2
  <2> QED
    BY <2>1
<1> HIDE DEF Holds
<1>3. \A n \in Nat : n \in Holds
  BY <1>1, <1>2, Induction
<1> QED
  BY <1>3 DEF Holds

-----------------------------------------------------------------------------
(* Live instructions.                                                      *)

\* The instructions before which v is read at once, or kept and alive after.
Reads(v) == {cp \in DOMAIN code : v \in code[cp].u}
Passes(v, X) == {cp \in DOMAIN code : v \notin code[cp].d /\ Successors(cp) \cap X # {}}
Closed(v, X) == Reads(v) \subseteq X /\ Passes(v, X) \subseteq X

\* Growth[n] is what is known after n rounds: no instruction that is not alive
\* has been found, and all have, or one more than n.
Growth(v) ==
  [n \in 0 .. Len(code) |->
    {X \in SUBSET DOMAIN code :
      /\ Reads(v) \subseteq X
      /\ \A L \in SUBSET DOMAIN code : Closed(v, L) => X \subseteq L
      /\ Passes(v, X) \subseteq X \/ Cardinality(X) >= n + 1}]

\* Sets of instructions are finite.
LEMMA CodeFinite ==
  ASSUME Len(code) \in Nat, DOMAIN code = 1 .. Len(code), NEW X \in SUBSET DOMAIN code
  PROVE  IsFiniteSet(X) /\ Cardinality(X) \in Nat /\ Cardinality(X) <= Len(code)
<1>1. IsFiniteSet(1 .. Len(code)) /\ Cardinality(1 .. Len(code)) = Len(code)
  BY FS_Interval
<1> QED
  BY <1>1, FS_Subset, FS_CardinalityType

\* LiveBefore(v) is the least set of instructions closed under going backwards.
LEMMA LiveLeast ==
  ASSUME Len(code) \in Nat, DOMAIN code = 1 .. Len(code), NEW v
  PROVE  /\ LiveBefore(v) \in SUBSET DOMAIN code
         /\ Closed(v, LiveBefore(v))
         /\ \A L \in SUBSET DOMAIN code : Closed(v, L) => LiveBefore(v) \subseteq L
<1> DEFINE N == Len(code)
           Step1(X) == X \cup Passes(v, X)
           step == [n \in 1 .. N |-> [X \in Growth(v)[n - 1] |-> Step1(X)]]
           Def(g, n) == IF n = 0 THEN Reads(v) ELSE Step1(g[n - 1])
           W == CHOOSE g : g = [n \in 0 .. N |-> Def(g, n)]
<1>1. Reads(v) \in Growth(v)[0]
  <2>1. Reads(v) \in SUBSET DOMAIN code
    BY DEF Reads
  <2>2. CASE Reads(v) = {}
    <3>1. Passes(v, {}) = {}
      BY DEF Passes
    <3> QED
      BY <2>1, <2>2, <3>1 DEF Growth, Closed
  <2>3. CASE Reads(v) # {}
    <3>1. Cardinality(Reads(v)) >= 1
      BY <2>1, <2>3, CodeFinite, FS_EmptySet
    <3> QED
      BY <2>1, <3>1 DEF Growth, Closed
  <2> QED
    BY <2>2, <2>3
<1>2. ASSUME NEW n \in 1 .. N, NEW X \in Growth(v)[n - 1]
      PROVE  step[n][X] \in Growth(v)[n]
  <2>1. step[n][X] = Step1(X)
    BY <1>2
  <2>2. /\ X \in SUBSET DOMAIN code /\ Reads(v) \subseteq X
        /\ \A L \in SUBSET DOMAIN code : Closed(v, L) => X \subseteq L
        /\ Passes(v, X) \subseteq X \/ Cardinality(X) >= n
    BY <1>2 DEF Growth
  <2>3. Step1(X) \in SUBSET DOMAIN code
    BY <2>2 DEF Passes
  <2>4. ASSUME NEW L \in SUBSET DOMAIN code, Closed(v, L)
        PROVE  Step1(X) \subseteq L
    BY <2>2, <2>4 DEF Passes, Closed
  <2>5. Passes(v, Step1(X)) \subseteq Step1(X) \/ Cardinality(Step1(X)) >= n + 1
    <3>1. CASE Passes(v, X) \subseteq X
      <4>1. Step1(X) = X
        BY <3>1
      <4> QED
        BY <3>1, <4>1
    <3>2. CASE ~(Passes(v, X) \subseteq X)
      <4>1. X \subseteq Step1(X) /\ X # Step1(X)
        BY <3>2
      <4>2. IsFiniteSet(Step1(X)) /\ Cardinality(X) \in Nat /\ Cardinality(Step1(X)) \in Nat
        BY <2>2, <2>3, CodeFinite
      <4> HIDE DEF Step1
      <4>3. Cardinality(X) < Cardinality(Step1(X))
        BY <4>1, <4>2, FS_Subset
      <4>4. Cardinality(X) >= n
        BY <2>2, <3>2
      <4> QED
        BY <4>2, <4>3, <4>4
    <3> QED
      BY <3>1, <3>2
  <2> HIDE DEF Step1, step
  <2>6. Reads(v) \subseteq Step1(X)
    BY <2>2 DEF Step1
  <2> QED
    BY <2>1, <2>3, <2>4, <2>5, <2>6 DEF Growth
<1> HIDE DEF step
<1>3. PICK f : Loop(f, N, Reads(v), step, Growth(v))
  <2> HIDE DEF N
  <2>1. N \in Nat
    BY DEF N
  <2>2. \A n \in 1 .. N : \A s \in Growth(v)[n - 1] : step[n][s] \in Growth(v)[n]
    BY <1>2
  <2> QED
    BY <1>1, <2>1, <2>2, Iterates
<1>4. f = [n \in 0 .. N |-> Def(f, n)]
  <2>1. ASSUME NEW n \in 0 .. N
        PROVE  f[n] = Def(f, n)
    <3>1. CASE n = 0
      BY <1>3, <3>1 DEF Loop
    <3>2. CASE n # 0
      <4>1. n \in 1 .. N /\ n - 1 \in 0 .. N
        BY <3>2
      <4>2. f[n] = step[n][f[n - 1]] /\ f[n - 1] \in Growth(v)[n - 1]
        BY <1>3, <4>1 DEF Loop
      <4>3. f[n] = Step1(f[n - 1])
        BY <4>1, <4>2 DEF step
      <4> QED
        BY <3>2, <4>3
    <3> QED
      BY <3>1, <3>2
  <2> QED
    BY <1>3, <2>1 DEF Loop
<1>5. W = [n \in 0 .. N |-> Def(W, n)]
  BY <1>4
<1>6. \A n \in 0 .. N : W[n] = Def(W, n)
  <2> HIDE DEF W
  <2> QED
    BY <1>5
<1> HIDE DEF W
<1>7. \A n \in 0 .. N : W[n] \in Growth(v)[n]
  <2>0. N \in Nat
    OBVIOUS
  <2>1. W[0] \in Growth(v)[0]
    <3>1. 0 \in 0 .. N
      OBVIOUS
    <3> QED
      BY <1>1, <1>6, <3>1
  <2>2. ASSUME NEW n \in 1 .. N, W[n - 1] \in Growth(v)[n - 1]
        PROVE  W[n] \in Growth(v)[n]
    <3>1. W[n] = Step1(W[n - 1])
      <4>1. n \in 0 .. N /\ n # 0
        OBVIOUS
      <4>2. W[n] = Def(W, n)
        BY <1>6, <4>1
      <4> QED
        BY <4>1, <4>2
    <3> QED
      BY <1>2, <2>2, <3>1 DEF step
  <2> QED
    BY <2>1, <2>2, LoopInvariant
<1>8. LiveBefore(v) = W[N]
  BY DEF LiveBefore, Reads, Passes, W
<1>9. LiveBefore(v) \in Growth(v)[N]
  BY <1>7, <1>8
<1>10. LiveBefore(v) \in SUBSET DOMAIN code /\ Cardinality(LiveBefore(v)) <= N
  <2>1. LiveBefore(v) \in SUBSET DOMAIN code
    BY <1>9 DEF Growth
  <2> QED
    BY <2>1, CodeFinite
<1> QED
  BY <1>9, <1>10, CodeFinite DEF Growth, Closed

\* An instruction keeps v alive when it reads it, or leaves it alone and leads
\* to one before which v is alive.
LEMMA LiveUnfold ==
  ASSUME Len(code) \in Nat, DOMAIN code = 1 .. Len(code), NEW v, NEW cp \in DOMAIN code
  PROVE  cp \in LiveBefore(v) <=> v \in code[cp].u \/ (v \notin code[cp].d /\ Successors(cp) \cap LiveBefore(v) # {})
<1> DEFINE L == Reads(v) \cup Passes(v, LiveBefore(v))
<1>1. Closed(v, LiveBefore(v))
  BY LiveLeast
<1>2. L \subseteq LiveBefore(v) /\ L \in SUBSET DOMAIN code
  BY <1>1 DEF Closed, Reads, Passes
<1>3. Closed(v, L)
  <2> HIDE DEF L
  <2>1. Passes(v, L) \subseteq Passes(v, LiveBefore(v))
    BY <1>2 DEF Passes
  <2> QED
    BY <2>1 DEF Closed, L
<1>4. LiveBefore(v) = L
  <2> HIDE DEF L
  <2> QED
    BY <1>2, <1>3, LiveLeast
<1> QED
  BY <1>4 DEF Reads, Passes

-----------------------------------------------------------------------------
(* The program.                                                            *)

Insns == {i \in [k : {"op", "lea", "use", "br", "jmp", "lbl", "call", "ret"}, d : SUBSET Vars, u : SUBSET Vars, l : Nat] :
            WellFormed(i)}

\* A complete program.
Program ==
  /\ code \in Seq(Insns) /\ Len(code) \in Nat \ {0} /\ DOMAIN code = 1 .. Len(code)
  /\ code[Len(code)].k = "ret"
  /\ \A cp \in DOMAIN code : code[cp].k \in {"br", "jmp"} =>
       \E x \in DOMAIN code : code[x].k = "lbl" /\ code[x].l = code[cp].l
  /\ \A x, y \in DOMAIN code : code[x].k = "lbl" /\ code[y].k = "lbl" /\ code[x].l = code[y].l => x = y

\* What has been emitted follows the script.
CodeInv ==
  /\ script \in DOMAIN Scripts
  /\ code \in Seq(Insns) /\ Len(code) <= Len(Scripts[script])
  /\ \A k \in DOMAIN code : code[k] \in Scripts[script][k]
  /\ IF phase = "i_op" THEN Len(code) < Len(Scripts[script]) ELSE Len(code) = Len(Scripts[script])

\* What the assumption says of the steps of a script.
LEMMA ScriptLength ==
  ASSUME NEW x \in DOMAIN Scripts
  PROVE  /\ Len(Scripts[x]) \in Nat \ {0} /\ DOMAIN Scripts[x] = 1 .. Len(Scripts[x])
         /\ \A k \in DOMAIN Scripts[x] : \A i \in Scripts[x][k] : i \in Insns
<1> DEFINE s == Scripts[x]
           T == UNION {s[k] : k \in DOMAIN s}
<1>1. s # <<>> /\ s \in Seq(SUBSET T)
  BY ScriptAssumption DEF ScriptAssumption
<1>2. \A k \in DOMAIN s : \A i \in s[k] : WellFormed(i)
  BY ScriptAssumption DEF ScriptAssumption
<1> HIDE DEF s, T
<1>3. Len(s) \in Nat /\ DOMAIN s = 1 .. Len(s) /\ Len(s) # 0
  BY <1>1
<1>4. \A k \in DOMAIN s : \A i \in s[k] : i \in Insns
  BY <1>2 DEF Insns, WellFormed
<1> QED
  BY <1>3, <1>4 DEF s

\* A program that has been emitted is complete.
LEMMA Complete == CodeInv /\ phase # "i_op" => Program
<1> SUFFICES ASSUME CodeInv, phase # "i_op"
             PROVE  Program
  OBVIOUS
<1> DEFINE s == Scripts[script]
<1>0. script \in DOMAIN Scripts
  BY DEF CodeInv
<1>1. /\ \A k \in DOMAIN s : \A i \in s[k] : k = Len(s) => i.k = "ret"
      /\ \A k \in DOMAIN s : \A i \in s[k] : i.k \in {"br", "jmp"} =>
           \E m \in DOMAIN s : \A j \in s[m] : j.k = "lbl" /\ j.l = i.l
      /\ \A k, m \in DOMAIN s : \A i \in s[k], j \in s[m] : i.k = "lbl" /\ j.k = "lbl" /\ i.l = j.l => k = m
  <2>1. \A k \in DOMAIN s : \A i \in s[k] : k = Len(s) => i.k = "ret"
    <3>1. \A k \in DOMAIN s : \A i \in s[k] : WellFormed(i) /\ (k = Len(s) => i.k = "ret")
      BY <1>0, ScriptAssumption, Zenon DEF ScriptAssumption
    <3> HIDE DEF s
    <3> QED
      BY <3>1, Zenon
  <2>2. \A k \in DOMAIN s : \A i \in s[k] : i.k \in {"br", "jmp"} =>
          \E m \in DOMAIN s : \A j \in s[m] : j.k = "lbl" /\ j.l = i.l
    BY <1>0, ScriptAssumption, Zenon DEF ScriptAssumption
  <2>3. \A k, m \in DOMAIN s : \A i \in s[k], j \in s[m] : i.k = "lbl" /\ j.k = "lbl" /\ i.l = j.l => k = m
    BY <1>0, ScriptAssumption, Zenon DEF ScriptAssumption
  <2> HIDE DEF s
  <2> QED
    BY <2>1, <2>2, <2>3, Zenon
<1>2. Len(s) \in Nat \ {0} /\ DOMAIN s = 1 .. Len(s)
  BY ScriptLength DEF CodeInv
<1>3. code \in Seq(Insns) /\ Len(code) = Len(s) /\ \A k \in DOMAIN code : code[k] \in s[k]
  BY DEF CodeInv
<1> HIDE DEF s
<1>4. Len(code) \in Nat \ {0} /\ DOMAIN code = 1 .. Len(code) /\ DOMAIN code = DOMAIN s /\ Len(code) \in DOMAIN code
  BY <1>2, <1>3
<1>5. code[Len(code)].k = "ret"
  BY <1>1, <1>3, <1>4
<1>6. ASSUME NEW cp \in DOMAIN code, code[cp].k \in {"br", "jmp"}
      PROVE  \E x \in DOMAIN code : code[x].k = "lbl" /\ code[x].l = code[cp].l
  <2>1. PICK m \in DOMAIN s : \A j \in s[m] : j.k = "lbl" /\ j.l = code[cp].l
    BY <1>1, <1>3, <1>4, <1>6
  <2> QED
    BY <1>3, <1>4, <2>1
<1>7. ASSUME NEW x \in DOMAIN code, NEW y \in DOMAIN code, code[x].k = "lbl", code[y].k = "lbl", code[x].l = code[y].l
      PROVE  x = y
  BY <1>1, <1>3, <1>4, <1>7
<1> QED
  BY <1>3, <1>4, <1>5, <1>6, <1>7 DEF Program

\* No instruction has been emitted at first.
LEMMA CodeInit == Init => CodeInv
<1> SUFFICES ASSUME Init
             PROVE  CodeInv
  OBVIOUS
<1> QED
  BY ScriptLength DEF Init, CodeInv

\* Only Emit changes the program, by the next step of its script.
LEMMA CodeStep == CodeInv /\ [Next]_vars => CodeInv'
<1> SUFFICES ASSUME CodeInv, [Next]_vars
             PROVE  CodeInv'
  OBVIOUS
<1>1. CASE Emit
  <2>1. PICK i \in Scripts[script][Len(code) + 1] : code' = Append(code, i)
    BY <1>1 DEF Emit
  <2>2. Len(code) \in Nat /\ DOMAIN code = 1 .. Len(code) /\ Len(code) < Len(Scripts[script]) /\ script \in DOMAIN Scripts
    BY <1>1 DEF Emit, CodeInv
  <2>3. Len(code) + 1 \in DOMAIN Scripts[script] /\ i \in Insns
    BY <2>2, ScriptLength
  <2>4. code' \in Seq(Insns) /\ Len(code') = Len(code) + 1 /\ DOMAIN code' = 1 .. Len(code) + 1
    BY <2>1, <2>2, <2>3 DEF CodeInv
  <2>5. ASSUME NEW k \in DOMAIN code'
        PROVE  code'[k] \in Scripts[script][k]
    <3>1. CASE k = Len(code) + 1
      BY <2>1, <2>2, <3>1 DEF CodeInv
    <3>2. CASE k # Len(code) + 1
      <4>1. k \in DOMAIN code
        BY <2>2, <2>4, <3>2
      <4>2. code'[k] = code[k]
        BY <2>1, <2>2, <4>1 DEF CodeInv
      <4> QED
        BY <4>1, <4>2 DEF CodeInv
    <3> QED
      BY <3>1, <3>2
  <2>6. script' = script /\ phase' = IF Len(code') = Len(Scripts[script]) THEN "i_fg_build" ELSE phase
    BY <1>1 DEF Emit
  <2>7. phase = "i_op" /\ Len(Scripts[script]) \in Nat
    BY <1>1, <2>2, ScriptLength DEF Emit
  <2> QED
    BY <2>2, <2>4, <2>5, <2>6, <2>7 DEF CodeInv
<1>2. CASE ~Emit
  <2>1. UNCHANGED <<script, code>> /\ (phase' = "i_op" <=> phase = "i_op")
    BY <1>2 DEF Next, vars, i_fg_build, i_fg_lv, i_li_full, i_li_scc, dfs, dfs_visit, scc_mark, scan_intervals,
       i_ra_ls, i_ra_priority, i_ig_build, i_ig_color, Dismantle, Initial, Final, Dismantled, InitialSpill,
       FinalSweep, Colour, Colouring, KeepAll, Run, Step
  <2> QED
    BY <2>1 DEF CodeInv
<1> QED
  BY <1>1, <1>2

-----------------------------------------------------------------------------
(* Blocks and edges.                                                       *)

Blocks == [h : Nat, t : Nat, use : SUBSET Vars, def : SUBSET Vars, n : Seq(Nat), p : Seq(Nat)]

\* An edge as its source, and as its destination, knows it.
Has(q, e) == \E k \in DOMAIN q : q[k] = e
Linked(bs, x, y) == Has(bs[x].n, y)
LinkedBack(bs, x, y) == Has(bs[y].p, x)

SameSpan(c, b) == c.h = b.h /\ c.t = b.t
SameSets(c, b) == c.use = b.use /\ c.def = b.def

AddsEdge(r, bs, p, s) ==
  /\ r \in Seq(Blocks) /\ Len(r) = Len(bs) /\ DOMAIN r = DOMAIN bs
  /\ \A b \in DOMAIN bs : SameSpan(r[b], bs[b]) /\ SameSets(r[b], bs[b])
  /\ \A x \in DOMAIN bs : \A y : Linked(r, x, y) <=> Linked(bs, x, y) \/ (x = p /\ y = s)
  /\ \A y \in DOMAIN bs : \A x : LinkedBack(r, x, y) <=> LinkedBack(bs, x, y) \/ (x = p /\ y = s)

\* One more element.
LEMMA AppendEffect ==
  ASSUME NEW q \in Seq(Nat), NEW e \in Nat, NEW r, r = Append(q, e)
  PROVE  /\ r \in Seq(Nat)
         /\ \A y : Has(r, y) <=> Has(q, y) \/ y = e
<1>1. r \in Seq(Nat) /\ Len(r) = Len(q) + 1 /\ Len(q) \in Nat
  OBVIOUS
<1>2. DOMAIN q = 1 .. Len(q) /\ DOMAIN r = 1 .. Len(q) + 1
  BY <1>1
<1>3. \A k \in DOMAIN q : r[k] = q[k]
  BY <1>2
<1>4. r[Len(q) + 1] = e
  BY <1>1
<1>5. \A k \in DOMAIN r : k \in DOMAIN q \/ k = Len(q) + 1
  BY <1>1, <1>2
<1>6. Len(q) + 1 \in DOMAIN r /\ DOMAIN q \subseteq DOMAIN r
  BY <1>1, <1>2
<1> QED
  BY <1>1, <1>3, <1>4, <1>5, <1>6, Zenon DEF Has

\* The elements of a sequence of blocks are blocks.
LEMMA BlockIn ==
  ASSUME NEW q \in Seq(Blocks), NEW j \in DOMAIN q
  PROVE  q[j] \in Blocks
OBVIOUS

\* A block put in the place of another.
LEMMA ReplaceEffect ==
  ASSUME NEW q \in Seq(Blocks), NEW j \in DOMAIN q, NEW e \in Blocks, NEW r, r = [q EXCEPT ![j] = e]
  PROVE  /\ r \in Seq(Blocks) /\ DOMAIN r = DOMAIN q /\ Len(r) = Len(q)
         /\ \A b \in DOMAIN q : r[b] = IF b = j THEN e ELSE q[b]
<1>1. Len(q) \in Nat /\ DOMAIN q = 1 .. Len(q) /\ q \in [1 .. Len(q) -> Blocks]
  OBVIOUS
<1>2. r \in [1 .. Len(q) -> Blocks]
  BY <1>1
<1>3. r \in Seq(Blocks) /\ Len(r) = Len(q)
  BY <1>1, <1>2
<1> QED
  BY <1>1, <1>2, <1>3

\* A new edge, at both its ends.
LEMMA LinkEffect ==
  ASSUME NEW bs \in Seq(Blocks), NEW p \in DOMAIN bs, NEW s \in DOMAIN bs, NEW r, r = bb_linkbb(bs, p, s)
  PROVE  AddsEdge(r, bs, p, s)
<1> DEFINE one == [bs EXCEPT ![p].n = Append(@, s)]
<1>1. Len(bs) \in Nat /\ DOMAIN bs = 1 .. Len(bs) /\ p \in Nat /\ s \in Nat
  OBVIOUS
<1>2. \A b \in DOMAIN bs : bs[b] \in Blocks /\ bs[b].n \in Seq(Nat) /\ bs[b].p \in Seq(Nat)
  <2>1. \A b \in DOMAIN bs : bs[b] \in Blocks
    OBVIOUS
  <2> QED
    BY <2>1 DEF Blocks
<1>3. Append(bs[p].n, s) \in Seq(Nat)
  BY <1>1, <1>2, AppendEffect
<1>4. /\ one \in Seq(Blocks) /\ DOMAIN one = DOMAIN bs /\ Len(one) = Len(bs)
      /\ \A b \in DOMAIN bs : one[b] = IF b = p THEN [bs[b] EXCEPT !.n = Append(bs[p].n, s)] ELSE bs[b]
  <2>1. [bs[p] EXCEPT !.n = Append(bs[p].n, s)] \in Blocks
    BY <1>2, <1>3 DEF Blocks
  <2>2. one = [bs EXCEPT ![p] = [bs[p] EXCEPT !.n = Append(bs[p].n, s)]]
    OBVIOUS
  <2> HIDE DEF one
  <2>3. \A b \in DOMAIN bs : one[b] = IF b = p THEN [bs[p] EXCEPT !.n = Append(bs[p].n, s)] ELSE bs[b]
    BY <2>1, <2>2, ReplaceEffect
  <2>4. one \in Seq(Blocks) /\ DOMAIN one = DOMAIN bs /\ Len(one) = Len(bs)
    BY <2>1, <2>2, ReplaceEffect
  <2> QED
    BY <2>3, <2>4, Zenon
<1>5. \A b \in DOMAIN bs : SameSpan(one[b], bs[b]) /\ SameSets(one[b], bs[b]) /\ one[b].p = bs[b].p
                           /\ one[b].n = IF b = p THEN Append(bs[p].n, s) ELSE bs[b].n
  BY <1>2, <1>4 DEF Blocks, SameSpan, SameSets
<1>6. r = [one EXCEPT ![s].p = Append(@, p)]
  BY DEF bb_linkbb
<1> HIDE DEF one
<1>7. Append(bs[s].p, p) \in Seq(Nat)
  BY <1>1, <1>2, AppendEffect
<1>8. /\ r \in Seq(Blocks) /\ DOMAIN r = DOMAIN bs /\ Len(r) = Len(bs)
      /\ \A b \in DOMAIN bs : r[b] = IF b = s THEN [one[b] EXCEPT !.p = Append(bs[s].p, p)] ELSE one[b]
  <2>1. one[s] \in Blocks /\ one[s].p = bs[s].p
    BY <1>4, <1>5
  <2>2. [one[s] EXCEPT !.p = Append(bs[s].p, p)] \in Blocks
    BY <2>1, <1>7 DEF Blocks
  <2>3. r = [one EXCEPT ![s] = [one[s] EXCEPT !.p = Append(bs[s].p, p)]]
    BY <1>6, <2>1
  <2>4. \A b \in DOMAIN one : r[b] = IF b = s THEN [one[s] EXCEPT !.p = Append(bs[s].p, p)] ELSE one[b]
    BY <1>4, <2>2, <2>3, ReplaceEffect
  <2>5. r \in Seq(Blocks) /\ DOMAIN r = DOMAIN one /\ Len(r) = Len(one)
    BY <1>4, <2>2, <2>3, ReplaceEffect
  <2> QED
    BY <1>4, <2>4, <2>5, Zenon
<1>9. \A b \in DOMAIN bs : /\ SameSpan(r[b], bs[b]) /\ SameSets(r[b], bs[b])
                           /\ r[b].p = IF b = s THEN Append(bs[s].p, p) ELSE bs[b].p
                           /\ r[b].n = IF b = p THEN Append(bs[p].n, s) ELSE bs[b].n
  <2> SUFFICES ASSUME NEW b \in DOMAIN bs
               PROVE  /\ SameSpan(r[b], bs[b]) /\ SameSets(r[b], bs[b])
                      /\ r[b].p = IF b = s THEN Append(bs[s].p, p) ELSE bs[b].p
                      /\ r[b].n = IF b = p THEN Append(bs[p].n, s) ELSE bs[b].n
    OBVIOUS
  <2>1. one[b] \in Blocks
    BY <1>4
  <2>2. /\ SameSpan(one[b], bs[b]) /\ SameSets(one[b], bs[b]) /\ one[b].p = bs[b].p
        /\ one[b].n = IF b = p THEN Append(bs[p].n, s) ELSE bs[b].n
    BY <1>5, Zenon
  <2>3. r[b] = IF b = s THEN [one[b] EXCEPT !.p = Append(bs[s].p, p)] ELSE one[b]
    BY <1>8, Zenon
  <2>4. /\ r[b].h = one[b].h /\ r[b].t = one[b].t /\ r[b].use = one[b].use /\ r[b].def = one[b].def
        /\ r[b].n = one[b].n /\ r[b].p = IF b = s THEN Append(bs[s].p, p) ELSE one[b].p
    BY <2>1, <2>3 DEF Blocks
  <2> QED
    BY <2>2, <2>4, Zenon DEF SameSpan, SameSets
<1>10. ASSUME NEW x \in DOMAIN bs, NEW y
       PROVE  Linked(r, x, y) <=> Linked(bs, x, y) \/ (x = p /\ y = s)
  <2>1. CASE x = p
    <3>1. bs[p].n \in Seq(Nat) /\ s \in Nat /\ r[x].n = Append(bs[p].n, s)
      BY <2>1, <1>1, <1>2, <1>9
    <3>2. Has(r[x].n, y) <=> Has(bs[p].n, y) \/ y = s
      BY <3>1, AppendEffect
    <3> QED
      BY <2>1, <3>2 DEF Linked
  <2>2. CASE x # p
    BY <2>2, <1>9 DEF Linked
  <2> QED
    BY <2>1, <2>2
<1>11. ASSUME NEW y \in DOMAIN bs, NEW x
       PROVE  LinkedBack(r, x, y) <=> LinkedBack(bs, x, y) \/ (x = p /\ y = s)
  <2>1. CASE y = s
    <3>1. bs[s].p \in Seq(Nat) /\ p \in Nat /\ r[y].p = Append(bs[s].p, p)
      BY <2>1, <1>1, <1>2, <1>9
    <3>2. Has(r[y].p, x) <=> Has(bs[s].p, x) \/ x = p
      BY <3>1, AppendEffect
    <3> QED
      BY <2>1, <3>2 DEF LinkedBack
  <2>2. CASE y # s
    BY <2>2, <1>9 DEF LinkedBack
  <2> QED
    BY <2>1, <2>2
<1> QED
  BY <1>8, <1>9, <1>10, <1>11 DEF AddsEdge

-----------------------------------------------------------------------------

LabelNames == {code[cp].l : cp \in DOMAIN code}
Scans == [bs : Seq(Blocks), b : Nat, lbl2bb : [LabelNames -> Nat], fwdrefs : Seq(Nat \X Nat)]
Current(s) == s \in Scans /\ s.b = Len(s.bs) /\ s.b \in Nat \ {0} /\ DOMAIN s.bs = 1 .. s.b

Marks(r, s, i) ==
  /\ Current(r) /\ r.b = s.b /\ r.lbl2bb = s.lbl2bb /\ r.fwdrefs = s.fwdrefs
  /\ \A b \in 1 .. s.b : /\ SameSpan(r.bs[b], s.bs[b]) /\ (b # s.b => SameSets(r.bs[b], s.bs[b]))
                         /\ \A y : Linked(r.bs, b, y) <=> Linked(s.bs, b, y)
                         /\ \A x : LinkedBack(r.bs, x, b) <=> LinkedBack(s.bs, x, b)
  /\ r.bs[s.b].use = s.bs[s.b].use \cup (i.u \ s.bs[s.b].def)
  /\ r.bs[s.b].def = s.bs[s.b].def \cup (i.d \ r.bs[s.b].use)

\* What i_fg_build does to its variables and not to the block itself.
LEMMA MarkEffect ==
  ASSUME NEW s, Current(s), NEW i \in Insns, NEW r, r = [s EXCEPT !.bs[s.b] = Mark(@, i)]
  PROVE  Marks(r, s, i)
<1> USE DEF Marks
<1> DEFINE m == Mark(s.bs[s.b], i)
           bs == [s.bs EXCEPT ![s.b] = m]
<1>1. s.bs \in Seq(Blocks) /\ s.b \in 1 .. s.b /\ s.bs[s.b] \in Blocks /\ i.u \in SUBSET Vars /\ i.d \in SUBSET Vars
  BY DEF Current, Scans, Insns
<1>2. /\ m \in Blocks /\ SameSpan(m, s.bs[s.b]) /\ m.n = s.bs[s.b].n /\ m.p = s.bs[s.b].p
      /\ m.use = s.bs[s.b].use \cup (i.u \ s.bs[s.b].def)
      /\ m.def = s.bs[s.b].def \cup (i.d \ m.use)
  BY <1>1 DEF Blocks, Mark, SameSpan
<1> HIDE DEF m
<1>3. bs \in Seq(Blocks) /\ Len(bs) = Len(s.bs) /\ \A b \in 1 .. s.b : bs[b] = IF b = s.b THEN m ELSE s.bs[b]
  BY <1>1, <1>2 DEF Current
<1>4. r = [s EXCEPT !.bs = bs]
  BY <1>1 DEF m
<1> HIDE DEF bs
<1>5. r \in Scans /\ r.bs = bs /\ r.b = s.b /\ r.lbl2bb = s.lbl2bb /\ r.fwdrefs = s.fwdrefs
  BY <1>3, <1>4 DEF Scans, Current
<1>6. Current(r)
  BY <1>3, <1>5 DEF Current
<1>7. ASSUME NEW b \in 1 .. s.b
      PROVE  /\ SameSpan(r.bs[b], s.bs[b]) /\ (b # s.b => SameSets(r.bs[b], s.bs[b]))
             /\ \A y : Linked(r.bs, b, y) <=> Linked(s.bs, b, y)
             /\ \A x : LinkedBack(r.bs, x, b) <=> LinkedBack(s.bs, x, b)
  <2>1. /\ SameSpan(r.bs[b], s.bs[b]) /\ (b # s.b => SameSets(r.bs[b], s.bs[b]))
        /\ r.bs[b].n = s.bs[b].n /\ r.bs[b].p = s.bs[b].p
    BY <1>2, <1>3, <1>5 DEF SameSpan, SameSets
  <2> QED
    BY <2>1, Zenon DEF Linked, LinkedBack
<1>8. /\ r.bs[s.b].use = s.bs[s.b].use \cup (i.u \ s.bs[s.b].def)
      /\ r.bs[s.b].def = s.bs[s.b].def \cup (i.d \ r.bs[s.b].use)
  BY <1>1, <1>2, <1>3, <1>5
<1> QED
  BY <1>5, <1>6, <1>7, <1>8, Zenon

Jumps(r, s, l) ==
  /\ Current(r) /\ r.b = s.b /\ r.lbl2bb = s.lbl2bb
  /\ r.fwdrefs = IF s.lbl2bb[l] = 0 THEN Append(s.fwdrefs, <<s.b, l>>) ELSE s.fwdrefs
  /\ \A b \in 1 .. s.b : SameSpan(r.bs[b], s.bs[b]) /\ SameSets(r.bs[b], s.bs[b])
  /\ \A x \in 1 .. s.b : \A y : Linked(r.bs, x, y) <=> Linked(s.bs, x, y) \/ (s.lbl2bb[l] # 0 /\ x = s.b /\ y = s.lbl2bb[l])
  /\ \A y \in 1 .. s.b : \A x : LinkedBack(r.bs, x, y) <=> LinkedBack(s.bs, x, y) \/ (s.lbl2bb[l] # 0 /\ x = s.b /\ y = s.lbl2bb[l])

\* A jump links to the block of its label, or leaves a reference to it.
LEMMA LinklblEffect ==
  ASSUME NEW s, Current(s), NEW l \in LabelNames, l \in Nat, s.lbl2bb[l] \in 0 .. s.b,
         NEW r, r = bb_linklbl(s, l)
  PROVE  Jumps(r, s, l)
<1> USE DEF Jumps
<1>1. s.bs \in Seq(Blocks) /\ s.b \in 1 .. s.b /\ s.fwdrefs \in Seq(Nat \X Nat) /\ s.b \in Nat
  BY DEF Current, Scans
<1>2. CASE s.lbl2bb[l] = 0
  <2>1. Append(s.fwdrefs, <<s.b, l>>) \in Seq(Nat \X Nat)
    BY <1>1
  <2>2. r = [s EXCEPT !.fwdrefs = Append(s.fwdrefs, <<s.b, l>>)]
    BY <1>2 DEF bb_linklbl
  <2>3. r \in Scans /\ r.bs = s.bs /\ r.b = s.b /\ r.lbl2bb = s.lbl2bb /\ r.fwdrefs = Append(s.fwdrefs, <<s.b, l>>)
    BY <2>1, <2>2 DEF Scans, Current
  <2> QED
    BY <1>2, <2>3 DEF Current, SameSpan, SameSets
<1>3. CASE s.lbl2bb[l] # 0
  <2> DEFINE d == s.lbl2bb[l]
             bs == bb_linkbb(s.bs, s.b, d)
  <2>1. d \in DOMAIN s.bs /\ s.b \in DOMAIN s.bs
    BY <1>1, <1>3 DEF Current
  <2>2. r = [s EXCEPT !.bs = bs]
    BY <1>3 DEF bb_linklbl
  <2> HIDE DEF bs
  <2>3. /\ bs \in Seq(Blocks) /\ Len(bs) = Len(s.bs) /\ DOMAIN bs = DOMAIN s.bs
        /\ \A b \in DOMAIN s.bs : SameSpan(bs[b], s.bs[b]) /\ SameSets(bs[b], s.bs[b])
        /\ \A x \in DOMAIN s.bs : \A y : Linked(bs, x, y) <=> Linked(s.bs, x, y) \/ (x = s.b /\ y = d)
        /\ \A y \in DOMAIN s.bs : \A x : LinkedBack(bs, x, y) <=> LinkedBack(s.bs, x, y) \/ (x = s.b /\ y = d)
    <3> HIDE DEF d
    <3>1. bs = bb_linkbb(s.bs, s.b, d)
      BY DEF bs
    <3>2. AddsEdge(bs, s.bs, s.b, d)
      BY <1>1, <2>1, <3>1, LinkEffect
    <3> QED
      BY <3>2 DEF AddsEdge
  <2>4. r \in Scans /\ r.bs = bs /\ r.b = s.b /\ r.lbl2bb = s.lbl2bb /\ r.fwdrefs = s.fwdrefs
    BY <2>2, <2>3 DEF Scans, Current
  <2>5. Current(r)
    BY <2>3, <2>4 DEF Current
  <2>6. DOMAIN s.bs = 1 .. s.b
    BY DEF Current
  <2> QED
    BY <1>3, <2>3, <2>4, <2>5, <2>6
<1> QED
  BY <1>2, <1>3

\* One more block.
LEMMA AppendBlock ==
  ASSUME NEW q \in Seq(Blocks), NEW e \in Blocks, NEW r, r = Append(q, e)
  PROVE  /\ r \in Seq(Blocks) /\ Len(r) = Len(q) + 1 /\ DOMAIN r = 1 .. Len(q) + 1
         /\ r[Len(q) + 1] = e /\ \A b \in 1 .. Len(q) : r[b] = q[b]
OBVIOUS

Ends(r, s, cp, more, link) ==
  /\ Current(r) /\ r.lbl2bb = s.lbl2bb /\ r.fwdrefs = s.fwdrefs
  /\ r.b = IF more THEN s.b + 1 ELSE s.b
  /\ \A b \in 1 .. s.b : /\ r.bs[b].h = s.bs[b].h /\ SameSets(r.bs[b], s.bs[b])
                         /\ r.bs[b].t = IF b = s.b THEN cp ELSE s.bs[b].t
  /\ more => r.bs[s.b + 1].h = cp + 1 /\ r.bs[s.b + 1].use = {} /\ r.bs[s.b + 1].def = {}
  /\ \A x \in 1 .. r.b : \A y : Linked(r.bs, x, y) <=> (x <= s.b /\ Linked(s.bs, x, y)) \/ (more /\ link /\ x = s.b /\ y = s.b + 1)
  /\ \A y \in 1 .. r.b : \A x : LinkedBack(r.bs, x, y) <=> (y <= s.b /\ LinkedBack(s.bs, x, y)) \/ (more /\ link /\ x = s.b /\ y = s.b + 1)

\* A block ends at cp and the next one, if there is more code, begins after it.
LEMMA FinalizeEffect ==
  ASSUME NEW s, Current(s), NEW cp \in Nat, NEW more \in BOOLEAN, NEW link \in BOOLEAN,
         NEW r, r = bb_finalize(s, cp, more, link)
  PROVE  Ends(r, s, cp, more, link)
<1> USE DEF Ends
<1> DEFINE done == [s.bs EXCEPT ![s.b].t = cp]
           new == Append(done, bb_alloc(cp + 1))
           made == IF link THEN bb_linkbb(new, s.b, Len(new)) ELSE new
<1>1. s.bs \in Seq(Blocks) /\ s.b \in 1 .. s.b /\ s.b \in Nat /\ s.bs[s.b] \in Blocks /\ s.b \in DOMAIN s.bs
  BY DEF Current, Scans
<1>2. /\ done \in Seq(Blocks) /\ DOMAIN done = 1 .. s.b /\ Len(done) = s.b
      /\ \A b \in 1 .. s.b : /\ done[b].h = s.bs[b].h /\ SameSets(done[b], s.bs[b])
                             /\ done[b].t = IF b = s.b THEN cp ELSE s.bs[b].t
                             /\ \A y : Linked(done, b, y) <=> Linked(s.bs, b, y)
                             /\ \A x : LinkedBack(done, x, b) <=> LinkedBack(s.bs, x, b)
  <2> DEFINE e == [s.bs[s.b] EXCEPT !.t = cp]
  <2>1. e \in Blocks /\ e.h = s.bs[s.b].h /\ SameSets(e, s.bs[s.b]) /\ e.t = cp /\ e.n = s.bs[s.b].n /\ e.p = s.bs[s.b].p
    BY <1>1 DEF Blocks, SameSets
  <2>2. done = [s.bs EXCEPT ![s.b] = e]
    OBVIOUS
  <2> HIDE DEF done, e
  <2>3. /\ done \in Seq(Blocks) /\ DOMAIN done = DOMAIN s.bs /\ Len(done) = Len(s.bs)
        /\ \A b \in DOMAIN s.bs : done[b] = IF b = s.b THEN e ELSE s.bs[b]
    BY <1>1, <2>1, <2>2, ReplaceEffect
  <2> QED
    BY <2>1, <2>3 DEF Current, Linked, LinkedBack, SameSets
<1> HIDE DEF done
<1>3. CASE ~more
  <2>1. r = [s EXCEPT !.bs = done]
    BY <1>3 DEF bb_finalize, done
  <2>2. r \in Scans /\ r.bs = done /\ r.b = s.b /\ r.lbl2bb = s.lbl2bb /\ r.fwdrefs = s.fwdrefs
    BY <2>1, <1>2 DEF Scans, Current
  <2>3. Current(r)
    BY <1>2, <2>2 DEF Current
  <2> QED
    BY <1>2, <1>3, <2>2, <2>3
<1>4. CASE more
  <2>1. bb_alloc(cp + 1) \in Blocks /\ bb_alloc(cp + 1).h = cp + 1 /\ bb_alloc(cp + 1).use = {} /\ bb_alloc(cp + 1).def = {}
        /\ bb_alloc(cp + 1).n = <<>> /\ bb_alloc(cp + 1).p = <<>>
    BY DEF bb_alloc, Blocks
  <2>2. /\ new \in Seq(Blocks) /\ Len(new) = s.b + 1 /\ DOMAIN new = 1 .. s.b + 1
        /\ new[s.b + 1] = bb_alloc(cp + 1) /\ \A b \in 1 .. s.b : new[b] = done[b]
    BY <1>2, <2>1, AppendBlock
  <2> HIDE DEF new
  <2>3. ASSUME NEW x \in 1 .. s.b + 1, NEW y
        PROVE  /\ Linked(new, x, y) <=> x <= s.b /\ Linked(s.bs, x, y)
               /\ LinkedBack(new, y, x) <=> x <= s.b /\ LinkedBack(s.bs, y, x)
    <3>1. CASE x = s.b + 1
      BY <1>1, <2>1, <2>2, <3>1 DEF Linked, LinkedBack, Has
    <3>2. CASE x # s.b + 1
      <4>1. x \in 1 .. s.b /\ x <= s.b
        BY <1>1, <3>2
      <4>2. Linked(new, x, y) <=> Linked(done, x, y)
        BY <2>2, <4>1 DEF Linked
      <4>3. LinkedBack(new, y, x) <=> LinkedBack(done, y, x)
        BY <2>2, <4>1 DEF LinkedBack
      <4> QED
        BY <1>2, <4>1, <4>2, <4>3
    <3> QED
      BY <3>1, <3>2
  <2>4. /\ made \in Seq(Blocks) /\ Len(made) = s.b + 1 /\ DOMAIN made = 1 .. s.b + 1
        /\ \A b \in 1 .. s.b + 1 : SameSpan(made[b], new[b]) /\ SameSets(made[b], new[b])
        /\ \A x \in 1 .. s.b + 1 : \A y : Linked(made, x, y) <=> Linked(new, x, y) \/ (link /\ x = s.b /\ y = s.b + 1)
        /\ \A y \in 1 .. s.b + 1 : \A x : LinkedBack(made, x, y) <=> LinkedBack(new, x, y) \/ (link /\ x = s.b /\ y = s.b + 1)
    <3>1. CASE link
      <4>1. made = bb_linkbb(new, s.b, s.b + 1) /\ s.b \in DOMAIN new /\ s.b + 1 \in DOMAIN new
        BY <1>1, <2>2, <3>1
      <4> HIDE DEF made
      <4>2. AddsEdge(made, new, s.b, s.b + 1)
        BY <2>2, <4>1, LinkEffect
      <4> QED
        BY <2>2, <3>1, <4>2 DEF AddsEdge
    <3>2. CASE ~link
      BY <2>2, <3>2 DEF SameSpan, SameSets
    <3> QED
      BY <3>1, <3>2
  <2>5. r = [[s EXCEPT !.bs = made] EXCEPT !.b = s.b + 1]
    BY <1>4, <2>2 DEF bb_finalize, done, new
  <2> HIDE DEF made
  <2>6. r \in Scans /\ r.bs = made /\ r.b = s.b + 1 /\ r.lbl2bb = s.lbl2bb /\ r.fwdrefs = s.fwdrefs
    <3>1. s \in Scans /\ s.b + 1 \in Nat /\ made \in Seq(Blocks)
      BY <1>1, <2>4 DEF Current
    <3> QED
      BY <2>5, <3>1 DEF Scans
  <2>7. Current(r)
    BY <1>1, <2>4, <2>6 DEF Current
  <2>8. ASSUME NEW b \in 1 .. s.b
        PROVE  /\ r.bs[b].h = s.bs[b].h /\ SameSets(r.bs[b], s.bs[b])
               /\ r.bs[b].t = IF b = s.b THEN cp ELSE s.bs[b].t
    <3>1. b \in 1 .. s.b + 1
      BY <1>1
    <3> QED
      BY <1>2, <2>2, <2>4, <2>6, <3>1 DEF SameSpan, SameSets
  <2>9. r.bs[s.b + 1].h = cp + 1 /\ r.bs[s.b + 1].use = {} /\ r.bs[s.b + 1].def = {}
    <3>1. s.b + 1 \in 1 .. s.b + 1
      BY <1>1
    <3> QED
      BY <2>1, <2>2, <2>4, <2>6, <3>1 DEF SameSpan, SameSets
  <2>10. \A x \in 1 .. r.b : \A y : Linked(r.bs, x, y) <=> (x <= s.b /\ Linked(s.bs, x, y)) \/ (more /\ link /\ x = s.b /\ y = s.b + 1)
    BY <1>4, <2>3, <2>4, <2>6
  <2>11. \A y \in 1 .. r.b : \A x : LinkedBack(r.bs, x, y) <=> (y <= s.b /\ LinkedBack(s.bs, x, y)) \/ (more /\ link /\ x = s.b /\ y = s.b + 1)
    BY <1>4, <2>3, <2>4, <2>6
  <2> QED
    BY <1>4, <2>6, <2>7, <2>8, <2>9, <2>10, <2>11
<1> QED
  BY <1>3, <1>4

Jumping(i) == i.k \in {"br", "jmp"}
Falling(i) == i.k \in {"br", "call"}
Ending(i) == i.k \in {"br", "jmp", "ret", "call"}

\* What an instruction that ends a block does.
Terminates(r, s, n) ==
  LET i == code[n]
      jumps == Jumping(i) /\ s.lbl2bb[i.l] # 0
      falls == Falling(i) /\ n < Len(code)
  IN  /\ Current(r) /\ r.lbl2bb = s.lbl2bb /\ r.b = IF n < Len(code) THEN s.b + 1 ELSE s.b
      /\ r.fwdrefs = IF Jumping(i) /\ s.lbl2bb[i.l] = 0 THEN Append(s.fwdrefs, <<s.b, i.l>>) ELSE s.fwdrefs
      /\ \A b \in 1 .. s.b : r.bs[b].h = s.bs[b].h /\ (b # s.b => r.bs[b].t = s.bs[b].t /\ SameSets(r.bs[b], s.bs[b]))
      /\ r.bs[s.b].t = n
      /\ r.bs[s.b].use = s.bs[s.b].use \cup (i.u \ s.bs[s.b].def)
      /\ r.bs[s.b].def = s.bs[s.b].def \cup (i.d \ r.bs[s.b].use)
      /\ n < Len(code) => r.bs[s.b + 1].h = n + 1 /\ r.bs[s.b + 1].use = {} /\ r.bs[s.b + 1].def = {}
      /\ \A x \in 1 .. r.b : \A y : Linked(r.bs, x, y) <=>
           (x <= s.b /\ Linked(s.bs, x, y)) \/ (x = s.b /\ ((jumps /\ y = s.lbl2bb[i.l]) \/ (falls /\ y = s.b + 1)))
      /\ \A y \in 1 .. r.b : \A x : LinkedBack(r.bs, x, y) <=>
           (y <= s.b /\ LinkedBack(s.bs, x, y)) \/ (x = s.b /\ ((jumps /\ y = s.lbl2bb[i.l]) \/ (falls /\ y = s.b + 1)))

\* What an instruction of a complete program looks like.
LEMMA Instruction ==
  ASSUME Program, NEW n \in DOMAIN code
  PROVE  /\ code[n] \in Insns /\ n \in Nat /\ n >= 1 /\ n <= Len(code) /\ Len(code) \in Nat /\ code[n].l \in LabelNames /\ code[n].l \in Nat
         /\ code[n].k \in {"op", "lea", "use", "br", "jmp", "lbl", "call", "ret"}
         /\ code[n].u \in SUBSET Vars /\ code[n].d \in SUBSET Vars
         /\ code[n].d # {} => code[n].k \in {"op", "lea", "call"}
         /\ code[n].k \in {"jmp", "lbl"} => code[n].u = {}
<1>1. code[n] \in Insns /\ n \in Nat /\ n >= 1 /\ n <= Len(code) /\ Len(code) \in Nat
  BY DEF Program
<1>2. code[n].l \in LabelNames
  BY DEF LabelNames
<1> QED
  BY <1>1, <1>2 DEF Insns, WellFormed

\* Scan does with such an instruction what Terminates says.
LEMMA TerminateEffect ==
  ASSUME Program, NEW n \in DOMAIN code, NEW s, Current(s), \A l \in LabelNames : s.lbl2bb[l] \in 0 .. s.b,
         Ending(code[n]), NEW r, r = Scan(s, n)
  PROVE  Terminates(r, s, n)
<1> DEFINE i == code[n]
           m == [s EXCEPT !.bs[s.b] = Mark(@, i)]
           j == IF Jumping(i) THEN bb_linklbl(m, i.l) ELSE m
           more == n < Len(code)
<1>1. i \in Insns /\ n \in Nat /\ i.l \in LabelNames /\ i.l \in Nat
  BY Instruction
<1>2. r = bb_finalize(j, n, more, Falling(i))
  <2>1. CASE i.k = "br"
    <3>1. j = bb_linklbl(m, i.l) /\ Falling(i) = TRUE
      BY <2>1 DEF Jumping, Falling
    <3>2. Scan(s, n) = bb_finalize(bb_linklbl(m, i.l), n, more, TRUE)
      BY <2>1 DEF Scan
    <3> QED
      BY <3>1, <3>2
  <2>2. CASE i.k = "jmp"
    <3>1. j = bb_linklbl(m, i.l) /\ Falling(i) = FALSE
      BY <2>2 DEF Jumping, Falling
    <3>2. Scan(s, n) = bb_finalize(bb_linklbl(m, i.l), n, more, FALSE)
      BY <2>2 DEF Scan
    <3> QED
      BY <3>1, <3>2
  <2>3. CASE i.k = "ret"
    <3>1. j = m /\ Falling(i) = FALSE
      BY <2>3 DEF Jumping, Falling
    <3>2. Scan(s, n) = bb_finalize(m, n, more, FALSE)
      BY <2>3 DEF Scan
    <3> QED
      BY <3>1, <3>2
  <2>4. CASE i.k = "call"
    BY <2>4 DEF Scan, Jumping, Falling
  <2> QED
    BY <2>1, <2>2, <2>3, <2>4 DEF Ending
<1>3. Marks(m, s, i)
  <2> HIDE DEF i
  <2> QED
    BY <1>1, MarkEffect
<1> HIDE DEF m
<1>4. IF Jumping(i) THEN Jumps(j, m, i.l) ELSE j = m
  <2>1. CASE Jumping(i)
    <3>1. Current(m) /\ m.lbl2bb[i.l] \in 0 .. m.b /\ j = bb_linklbl(m, i.l)
      BY <1>1, <1>3, <2>1 DEF Marks
    <3> HIDE DEF i, j
    <3>2. Jumps(j, m, i.l)
      BY <1>1, <3>1, LinklblEffect
    <3> QED
      BY <2>1, <3>2
  <2>2. CASE ~Jumping(i)
    BY <2>2
  <2> QED
    BY <2>1, <2>2
<1> HIDE DEF j
<1>5. Current(j)
  BY <1>3, <1>4 DEF Marks, Jumps
<1>6. Ends(r, j, n, more, Falling(i))
  <2>1. more \in BOOLEAN /\ Falling(i) \in BOOLEAN
    BY DEF Falling
  <2> HIDE DEF more, i
  <2> QED
    BY <1>1, <1>2, <1>5, <2>1, FinalizeEffect
<1> HIDE DEF i
<1>7. s.b \in Nat /\ s.b >= 1 /\ j.b = s.b /\ m.b = s.b
  BY <1>3, <1>4 DEF Marks, Jumps, Current
<1>8. /\ \A x \in 1 .. s.b : \A y : Linked(j.bs, x, y) <=> Linked(s.bs, x, y) \/ (Jumping(i) /\ s.lbl2bb[i.l] # 0 /\ x = s.b /\ y = s.lbl2bb[i.l])
      /\ \A y \in 1 .. s.b : \A x : LinkedBack(j.bs, x, y) <=> LinkedBack(s.bs, x, y) \/ (Jumping(i) /\ s.lbl2bb[i.l] # 0 /\ x = s.b /\ y = s.lbl2bb[i.l])
  BY <1>3, <1>4, <1>7 DEF Marks, Jumps
<1>9. /\ \A b \in 1 .. s.b : SameSpan(j.bs[b], s.bs[b]) /\ (b # s.b => SameSets(j.bs[b], s.bs[b]))
      /\ j.bs[s.b].use = s.bs[s.b].use \cup (i.u \ s.bs[s.b].def)
      /\ j.bs[s.b].def = s.bs[s.b].def \cup (i.d \ j.bs[s.b].use)
  <2>1. s.b \in 1 .. s.b
    BY <1>7
  <2> QED
    BY <1>3, <1>4, <1>7, <2>1 DEF Marks, Jumps, SameSpan, SameSets
<1>10. j.lbl2bb = s.lbl2bb /\ j.fwdrefs = IF Jumping(i) /\ s.lbl2bb[i.l] = 0 THEN Append(s.fwdrefs, <<s.b, i.l>>) ELSE s.fwdrefs
  BY <1>3, <1>4 DEF Marks, Jumps
<1>11. /\ \A x \in 1 .. r.b : \A y : Linked(r.bs, x, y) <=>
           (x <= s.b /\ Linked(s.bs, x, y)) \/ (x = s.b /\ ((Jumping(i) /\ s.lbl2bb[i.l] # 0 /\ y = s.lbl2bb[i.l]) \/ (Falling(i) /\ more /\ y = s.b + 1)))
       /\ \A y \in 1 .. r.b : \A x : LinkedBack(r.bs, x, y) <=>
           (y <= s.b /\ LinkedBack(s.bs, x, y)) \/ (x = s.b /\ ((Jumping(i) /\ s.lbl2bb[i.l] # 0 /\ y = s.lbl2bb[i.l]) \/ (Falling(i) /\ more /\ y = s.b + 1)))
  <2>1. r.b \in Nat
    BY <1>6 DEF Ends, Current
  <2>2. ASSUME NEW x \in 1 .. r.b, NEW y
        PROVE  Linked(r.bs, x, y) <=>
           (x <= s.b /\ Linked(s.bs, x, y)) \/ (x = s.b /\ ((Jumping(i) /\ s.lbl2bb[i.l] # 0 /\ y = s.lbl2bb[i.l]) \/ (Falling(i) /\ more /\ y = s.b + 1)))
    <3>1. Linked(r.bs, x, y) <=> (x <= s.b /\ Linked(j.bs, x, y)) \/ (more /\ Falling(i) /\ x = s.b /\ y = s.b + 1)
      BY <1>6, <1>7 DEF Ends
    <3>2. x <= s.b => x \in 1 .. s.b
      BY <1>7, <2>1
    <3>3. x = s.b => x <= s.b
      BY <1>7
    <3> QED
      BY <1>8, <3>1, <3>2, <3>3
  <2>3. ASSUME NEW y \in 1 .. r.b, NEW x
        PROVE  LinkedBack(r.bs, x, y) <=>
           (y <= s.b /\ LinkedBack(s.bs, x, y)) \/ (x = s.b /\ ((Jumping(i) /\ s.lbl2bb[i.l] # 0 /\ y = s.lbl2bb[i.l]) \/ (Falling(i) /\ more /\ y = s.b + 1)))
    <3>1. LinkedBack(r.bs, x, y) <=> (y <= s.b /\ LinkedBack(j.bs, x, y)) \/ (more /\ Falling(i) /\ x = s.b /\ y = s.b + 1)
      BY <1>6, <1>7 DEF Ends
    <3>2. y <= s.b => y \in 1 .. s.b
      BY <1>7, <2>1
    <3>3. Jumping(i) => s.lbl2bb[i.l] \in 0 .. s.b
      BY <1>1
    <3>4. s.lbl2bb[i.l] \in 0 .. s.b /\ y = s.lbl2bb[i.l] => y <= s.b
      BY <1>7
    <3> QED
      BY <1>8, <3>1, <3>2, <3>3, <3>4
  <2> QED
    BY <2>2, <2>3
<1>12. /\ \A b \in 1 .. s.b : r.bs[b].h = s.bs[b].h /\ (b # s.b => r.bs[b].t = s.bs[b].t /\ SameSets(r.bs[b], s.bs[b]))
       /\ r.bs[s.b].t = n
       /\ r.bs[s.b].use = s.bs[s.b].use \cup (i.u \ s.bs[s.b].def)
       /\ r.bs[s.b].def = s.bs[s.b].def \cup (i.d \ r.bs[s.b].use)
  <2>1. s.b \in 1 .. s.b
    BY <1>7
  <2> QED
    BY <1>6, <1>7, <1>9, <2>1 DEF Ends, SameSpan, SameSets
<1>13. /\ Current(r) /\ r.lbl2bb = s.lbl2bb /\ r.fwdrefs = j.fwdrefs /\ r.b = IF more THEN s.b + 1 ELSE s.b
       /\ more => r.bs[s.b + 1].h = n + 1 /\ r.bs[s.b + 1].use = {} /\ r.bs[s.b + 1].def = {}
  <2>1. Current(r) /\ r.lbl2bb = j.lbl2bb /\ r.fwdrefs = j.fwdrefs /\ r.b = IF more THEN j.b + 1 ELSE j.b
    BY <1>6 DEF Ends
  <2>2. more => r.bs[j.b + 1].h = n + 1 /\ r.bs[j.b + 1].use = {} /\ r.bs[j.b + 1].def = {}
    BY <1>6 DEF Ends
  <2> HIDE DEF more
  <2> QED
    BY <2>1, <2>2, <1>7, <1>10
<1>14. LET jumps == Jumping(i) /\ s.lbl2bb[i.l] # 0
           falls == Falling(i) /\ more
       IN  /\ \A x \in 1 .. r.b : \A y : Linked(r.bs, x, y) <=>
                (x <= s.b /\ Linked(s.bs, x, y)) \/ (x = s.b /\ ((jumps /\ y = s.lbl2bb[i.l]) \/ (falls /\ y = s.b + 1)))
           /\ \A y \in 1 .. r.b : \A x : LinkedBack(r.bs, x, y) <=>
                (y <= s.b /\ LinkedBack(s.bs, x, y)) \/ (x = s.b /\ ((jumps /\ y = s.lbl2bb[i.l]) \/ (falls /\ y = s.b + 1)))
  BY <1>11
<1> QED
  BY <1>10, <1>12, <1>13, <1>14, Zenon DEF Terminates, i, more

-----------------------------------------------------------------------------
(* The loop of i_fg_build.                                                 *)

\* Reading and assigning between two instructions, as a block sees it from
\* its head.
UseIn(v, a, z) == \E j \in a .. z : v \in code[j].u /\ \A i \in a .. j - 1 : v \notin code[i].d
DefIn(v, a, z) == (\E j \in a .. z : v \in code[j].d) /\ ~UseIn(v, a, z)
SetsOf(b, a, z) == b.use = {v \in Vars : UseIn(v, a, z)} /\ b.def = {v \in Vars : DefIn(v, a, z)}

\* What a block looks like inside: control leaves at its end only, and enters at
\* its head only.
PlainIn(a, z, over) ==
  \A cp \in a .. z : /\ (over /\ cp = z) \/ code[cp].k \notin {"br", "jmp", "ret"}
                     /\ cp = a \/ code[cp].k # "lbl"

\* Block b after n instructions: where it ends so far, and whether it is complete.
End(s, n, b) == IF b < s.b THEN s.bs[b].t ELSE n
Over(s, n, b) == b < s.b \/ n = Len(code)

Spans(s, n) ==
  /\ s.bs[1].h = 1 /\ s.bs[s.b].h <= n + 1
  /\ \A b \in 1 .. s.b : s.bs[b].h >= 1
  /\ \A b \in 1 .. s.b : Over(s, n, b) => s.bs[b].t = End(s, n, b) /\ s.bs[b].h <= s.bs[b].t /\ s.bs[b].t <= n
  /\ \A b \in 1 .. s.b : b # s.b => s.bs[b + 1].h = s.bs[b].t + 1

Contents(s, n) ==
  \A b \in 1 .. s.b : SetsOf(s.bs[b], s.bs[b].h, End(s, n, b)) /\ PlainIn(s.bs[b].h, End(s, n, b), Over(s, n, b))

Placed(s, n) ==
  /\ \A l \in LabelNames : s.lbl2bb[l] \in 0 .. s.b
  /\ \A l \in LabelNames : s.lbl2bb[l] # 0 =>
       s.bs[s.lbl2bb[l]].h <= n /\ code[s.bs[s.lbl2bb[l]].h].k = "lbl" /\ code[s.bs[s.lbl2bb[l]].h].l = l
  /\ \A cp \in 1 .. n : code[cp].k = "lbl" => s.lbl2bb[code[cp].l] # 0

Awaits(s, x, c) == c \in DOMAIN code /\ code[c].k = "lbl" /\ Has(s.fwdrefs, <<x, code[c].l>>)
Reaches(s, x, c) == \E y \in 1 .. s.b : Linked(s.bs, x, y) /\ s.bs[y].h = c

Edges(s, n) ==
  /\ \A x \in 1 .. s.b : \A y : Linked(s.bs, x, y) => y \in 1 .. s.b /\ Over(s, n, x) /\ s.bs[y].h \in Successors(s.bs[x].t)
  /\ \A y \in 1 .. s.b : \A x : LinkedBack(s.bs, x, y) => x \in 1 .. s.b
  /\ \A x, y \in 1 .. s.b : Linked(s.bs, x, y) <=> LinkedBack(s.bs, x, y)
  /\ \A x \in 1 .. s.b : Over(s, n, x) => \A c \in Successors(s.bs[x].t) : Reaches(s, x, c) \/ Awaits(s, x, c)
  /\ \A e : Has(s.fwdrefs, e) => \E x \in 1 .. s.b : /\ e = <<x, code[s.bs[x].t].l>>
                                                     /\ Over(s, n, x) /\ Jumping(code[s.bs[x].t])

ScanInv(s, n) == Current(s) /\ Spans(s, n) /\ Contents(s, n) /\ Placed(s, n) /\ Edges(s, n)

\* What a longer sequence holds.
LEMMA AppendHas ==
  ASSUME NEW q, NEW S, q \in Seq(S), NEW e, NEW r, r = Append(q, e)
  PROVE  \A y : Has(r, y) <=> Has(q, y) \/ y = e
<1>1. Len(r) = Len(q) + 1 /\ Len(q) \in Nat /\ DOMAIN q = 1 .. Len(q) /\ DOMAIN r = 1 .. Len(q) + 1
  OBVIOUS
<1>2. \A k \in DOMAIN q : r[k] = q[k]
  BY <1>1
<1>3. r[Len(q) + 1] = e
  BY <1>1
<1>4. \A k \in DOMAIN r : k \in DOMAIN q \/ k = Len(q) + 1
  BY <1>1
<1>5. Len(q) + 1 \in DOMAIN r /\ DOMAIN q \subseteq DOMAIN r
  BY <1>1
<1> QED
  BY <1>2, <1>3, <1>4, <1>5, Zenon DEF Has

\* One more instruction of a block: what its marks mean.
LEMMA MarkMeans ==
  ASSUME Program, NEW n \in DOMAIN code, NEW a \in Nat, a >= 1, a <= n, NEW b, SetsOf(b, a, n - 1),
         NEW c, c.use = b.use \cup (code[n].u \ b.def), c.def = b.def \cup (code[n].d \ c.use)
  PROVE  SetsOf(c, a, n)
<1>1. n \in Nat /\ n \in a .. n /\ code[n].u \in SUBSET Vars /\ code[n].d \in SUBSET Vars
  BY Instruction
<1>2. \A j : j \in a .. n <=> j \in a .. n - 1 \/ j = n
  BY <1>1
<1>3. \A v : UseIn(v, a, n) <=> UseIn(v, a, n - 1) \/ (v \in code[n].u /\ \A i \in a .. n - 1 : v \notin code[i].d)
  BY <1>2 DEF UseIn
<1>4. \A v : (\E j \in a .. n : v \in code[j].d) <=> (\E j \in a .. n - 1 : v \in code[j].d) \/ v \in code[n].d
  BY <1>2
<1>5. ASSUME NEW v \in Vars
      PROVE  /\ v \in c.use <=> UseIn(v, a, n)
             /\ v \in c.def <=> DefIn(v, a, n)
  <2>1. v \in b.use <=> UseIn(v, a, n - 1)
    BY DEF SetsOf
  <2>2. v \in b.def <=> (\E j \in a .. n - 1 : v \in code[j].d) /\ ~UseIn(v, a, n - 1)
    BY DEF SetsOf, DefIn
  <2>3. v \in c.use <=> v \in b.use \/ (v \in code[n].u /\ v \notin b.def)
    OBVIOUS
  <2>4. v \in c.def <=> v \in b.def \/ (v \in code[n].d /\ v \notin c.use)
    OBVIOUS
  <2>5. v \in c.use <=> UseIn(v, a, n)
    BY <1>3, <2>1, <2>2, <2>3
  <2>6. v \in c.def <=> DefIn(v, a, n)
    BY <1>3, <1>4, <2>1, <2>2, <2>4, <2>5 DEF DefIn
  <2> QED
    BY <2>5, <2>6
<1>6. c.use \subseteq Vars /\ c.def \subseteq Vars
  BY <1>1 DEF SetsOf
<1> QED
  BY <1>5, <1>6 DEF SetsOf

\* The last instruction returns.
LEMMA EndKind ==
  ASSUME Program, NEW n \in DOMAIN code, n = Len(code)
  PROVE  code[n].k = "ret"
BY DEF Program

\* After an instruction that ends a block.
LEMMA TerminateKeeps ==
  ASSUME Program, NEW n \in DOMAIN code, NEW s, ScanInv(s, n - 1), Ending(code[n]), NEW r, Terminates(r, s, n)
  PROVE  ScanInv(r, n)
<1> DEFINE N == Len(code)
           i == code[n]
           d == s.lbl2bb[i.l]
<1>1. n \in Nat /\ n >= 1 /\ n <= N /\ N \in Nat /\ i.l \in LabelNames
  BY Instruction
<1>2. Current(s) /\ s.b \in Nat /\ s.b >= 1 /\ s.b \in 1 .. s.b
  BY DEF ScanInv, Current
<1>3. Current(r) /\ r.lbl2bb = s.lbl2bb
  BY DEF Terminates
<1>4. r.b = IF n < N THEN s.b + 1 ELSE s.b
  BY DEF Terminates
<1>5. \A b \in 1 .. s.b : r.bs[b].h = s.bs[b].h /\ (b # s.b => r.bs[b].t = s.bs[b].t /\ SameSets(r.bs[b], s.bs[b]))
  BY DEF Terminates
<1>6. r.bs[s.b].t = n /\ (n < N => r.bs[s.b + 1].h = n + 1 /\ r.bs[s.b + 1].use = {} /\ r.bs[s.b + 1].def = {})
  BY DEF Terminates
<1>7. \A b \in Nat : b \in 1 .. r.b <=> b \in 1 .. s.b \/ (b = s.b + 1 /\ n < N)
  BY <1>1, <1>2, <1>4
<1>8. \A b \in 1 .. s.b : Over(s, n - 1, b) <=> b # s.b
  BY <1>1, <1>2 DEF Over
<1>9. \A b \in 1 .. r.b : Over(r, n, b) <=> b \in 1 .. s.b
  BY <1>1, <1>2, <1>4 DEF Over
<1>10. \A b \in 1 .. s.b : b # s.b => End(r, n, b) = s.bs[b].t /\ End(s, n - 1, b) = s.bs[b].t
  BY <1>1, <1>2, <1>4, <1>5 DEF End
<1>11. End(r, n, s.b) = n /\ End(s, n - 1, s.b) = n - 1
  BY <1>1, <1>2, <1>4, <1>6 DEF End
<1>12. n < N => End(r, n, s.b + 1) = n
  BY <1>1, <1>2, <1>4 DEF End
<1>13. Spans(s, n - 1) /\ Contents(s, n - 1) /\ Placed(s, n - 1) /\ Edges(s, n - 1)
  BY DEF ScanInv
<1>14. \A b \in 1 .. s.b : s.bs[b].h \in Nat /\ s.bs[b].t \in Nat
  <2>1. s.bs \in Seq(Blocks) /\ DOMAIN s.bs = 1 .. s.b
    BY <1>2 DEF Current, Scans
  <2>2. \A b \in DOMAIN s.bs : s.bs[b] \in Blocks
    BY <2>1, BlockIn
  <2>3. \A b \in 1 .. s.b : s.bs[b] \in Blocks
    BY <2>1, <2>2
  <2> QED
    BY <2>3 DEF Blocks
<1>15. s.bs[s.b].h <= n /\ s.bs[s.b].h \in Nat
  BY <1>1, <1>2, <1>13, <1>14 DEF Spans
<1> HIDE DEF N
<1>16. Spans(r, n)
  <2>1. r.bs[1].h = 1
    BY <1>2, <1>5, <1>13 DEF Spans
  <2>2. r.bs[r.b].h <= n + 1
    <3>1. CASE n < N
      BY <1>1, <1>4, <1>6, <3>1
    <3>2. CASE ~(n < N)
      BY <1>1, <1>2, <1>4, <1>5, <1>15, <3>2
    <3> QED
      BY <3>1, <3>2
  <2>3. ASSUME NEW b \in 1 .. r.b
        PROVE  r.bs[b].h >= 1
    BY <1>1, <1>5, <1>6, <1>7, <1>13 DEF Spans
  <2>4. ASSUME NEW b \in 1 .. r.b, Over(r, n, b)
        PROVE  r.bs[b].t = End(r, n, b) /\ r.bs[b].h <= r.bs[b].t /\ r.bs[b].t <= n
    <3>1. b \in 1 .. s.b
      BY <1>9, <2>4
    <3>2. CASE b = s.b
      BY <1>1, <1>5, <1>6, <1>11, <1>15, <3>1, <3>2
    <3>3. CASE b # s.b
      BY <1>1, <1>5, <1>8, <1>10, <1>13, <1>14, <3>1, <3>3 DEF Spans
    <3> QED
      BY <3>2, <3>3
  <2>5. ASSUME NEW b \in 1 .. r.b, b # r.b
        PROVE  r.bs[b + 1].h = r.bs[b].t + 1
    <3>1. b \in 1 .. s.b
      BY <1>1, <1>2, <1>4, <2>5
    <3>2. CASE b = s.b
      BY <1>1, <1>2, <1>4, <1>6, <2>5, <3>2
    <3>3. CASE b # s.b
      <4>1. b + 1 \in 1 .. s.b
        BY <1>2, <3>1, <3>3
      <4> QED
        BY <1>5, <1>13, <3>1, <3>3, <4>1 DEF Spans
    <3> QED
      BY <3>2, <3>3
  <2> QED
    BY <2>1, <2>2, <2>3, <2>4, <2>5 DEF Spans
<1>17. Contents(r, n)
  <2> SUFFICES ASSUME NEW b \in 1 .. r.b
               PROVE  SetsOf(r.bs[b], r.bs[b].h, End(r, n, b)) /\ PlainIn(r.bs[b].h, End(r, n, b), Over(r, n, b))
    BY DEF Contents
  <2>1. CASE b = s.b
    <3>1. SetsOf(s.bs[b], s.bs[b].h, n - 1) /\ PlainIn(s.bs[b].h, n - 1, FALSE)
      <4>1. Over(s, n - 1, b) = FALSE
        BY <1>2, <1>8, <2>1 DEF Over
      <4> QED
        BY <1>2, <1>11, <1>13, <2>1, <4>1 DEF Contents
    <3>2. SetsOf(r.bs[b], s.bs[b].h, n)
      <4>1. /\ r.bs[b].use = s.bs[b].use \cup (i.u \ s.bs[b].def)
            /\ r.bs[b].def = s.bs[b].def \cup (i.d \ r.bs[b].use)
        BY <2>1 DEF Terminates
      <4>2. s.bs[b].h \in Nat /\ s.bs[b].h >= 1 /\ s.bs[b].h <= n
        BY <1>2, <1>13, <1>15, <2>1 DEF Spans
      <4> QED
        BY <3>1, <4>1, <4>2, MarkMeans
    <3>4. Over(r, n, b)
      BY <1>1, <1>2, <1>9, <2>1
    <3>3. PlainIn(s.bs[b].h, n, Over(r, n, b))
      <4>1. \A cp \in s.bs[b].h .. n : cp \in s.bs[b].h .. n - 1 \/ cp = n
        BY <1>1, <1>15, <2>1
      <4>2. code[n].k # "lbl"
        BY DEF Ending
      <4> QED
        BY <3>1, <3>4, <4>1, <4>2 DEF PlainIn
    <3> QED
      BY <1>2, <1>5, <1>11, <2>1, <3>2, <3>3
  <2>2. CASE b \in 1 .. s.b /\ b # s.b
    <3>1. SetsOf(s.bs[b], s.bs[b].h, s.bs[b].t) /\ PlainIn(s.bs[b].h, s.bs[b].t, Over(s, n - 1, b))
      BY <1>10, <1>13, <2>2 DEF Contents
    <3>2. SetsOf(r.bs[b], s.bs[b].h, s.bs[b].t)
      BY <1>5, <2>2, <3>1 DEF SetsOf, SameSets
    <3>3. Over(s, n - 1, b) = Over(r, n, b)
      BY <1>1, <1>2, <1>4, <2>2 DEF Over
    <3> QED
      BY <1>5, <1>10, <2>2, <3>1, <3>2, <3>3
  <2>3. CASE b = s.b + 1 /\ n < N
    <3>1. End(r, n, b) = n /\ r.bs[b].h = n + 1 /\ r.bs[b].use = {} /\ r.bs[b].def = {}
      BY <1>6, <1>12, <2>3
    <3>2. \A j \in n + 1 .. n : FALSE
      BY <1>1
    <3>3. SetsOf(r.bs[b], n + 1, n)
      BY <3>1, <3>2 DEF SetsOf, UseIn, DefIn
    <3>4. PlainIn(n + 1, n, Over(r, n, b))
      BY <3>2 DEF PlainIn
    <3> QED
      BY <3>1, <3>3, <3>4
  <2> QED
    BY <1>7, <2>1, <2>2, <2>3
<1>18. Placed(r, n)
  <2>1. \A l \in LabelNames : r.lbl2bb[l] \in 0 .. r.b
    BY <1>1, <1>2, <1>3, <1>4, <1>13 DEF Placed
  <2>2. ASSUME NEW l \in LabelNames, r.lbl2bb[l] # 0
        PROVE  r.bs[r.lbl2bb[l]].h <= n /\ code[r.bs[r.lbl2bb[l]].h].k = "lbl" /\ code[r.bs[r.lbl2bb[l]].h].l = l
    <3>1. r.lbl2bb[l] = s.lbl2bb[l] /\ s.lbl2bb[l] \in 1 .. s.b
      BY <1>2, <1>3, <1>13, <2>2 DEF Placed
    <3>2. s.bs[s.lbl2bb[l]].h <= n - 1 /\ code[s.bs[s.lbl2bb[l]].h].k = "lbl" /\ code[s.bs[s.lbl2bb[l]].h].l = l
      BY <1>13, <2>2, <3>1 DEF Placed
    <3>3. s.bs[s.lbl2bb[l]].h <= n
      BY <1>1, <1>14, <3>1, <3>2
    <3> QED
      BY <1>5, <3>1, <3>2, <3>3
  <2>3. ASSUME NEW cp \in 1 .. n, code[cp].k = "lbl"
        PROVE  r.lbl2bb[code[cp].l] # 0
    <3>1. cp # n
      BY <2>3 DEF Ending
    <3>2. cp \in 1 .. n - 1
      BY <1>1, <3>1
    <3> QED
      BY <1>3, <1>13, <2>3, <3>2 DEF Placed
  <2> QED
    BY <2>1, <2>2, <2>3 DEF Placed
<1>19. \A e : Has(r.fwdrefs, e) <=> Has(s.fwdrefs, e) \/ (Jumping(i) /\ d = 0 /\ e = <<s.b, i.l>>)
  <2>1. s.fwdrefs \in Seq(Nat \X Nat)
    BY <1>2 DEF Current, Scans
  <2>2. r.fwdrefs = IF Jumping(i) /\ d = 0 THEN Append(s.fwdrefs, <<s.b, i.l>>) ELSE s.fwdrefs
    BY DEF Terminates
  <2> HIDE DEF i, d
  <2>3. CASE Jumping(i) /\ d = 0
    <3>1. r.fwdrefs = Append(s.fwdrefs, <<s.b, i.l>>)
      BY <2>2, <2>3
    <3>2. \A e : Has(r.fwdrefs, e) <=> Has(s.fwdrefs, e) \/ e = <<s.b, i.l>>
      BY <2>1, <3>1, AppendHas
    <3> QED
      BY <2>3, <3>2
  <2>4. CASE ~(Jumping(i) /\ d = 0)
    BY <2>2, <2>4
  <2> QED
    BY <2>3, <2>4
<1>20. Jumping(i) /\ d # 0 => d \in 1 .. s.b /\ s.bs[d].h \in DOMAIN code /\ code[s.bs[d].h].k = "lbl" /\ code[s.bs[d].h].l = i.l
  <2> SUFFICES ASSUME d # 0
               PROVE  d \in 1 .. s.b /\ s.bs[d].h \in DOMAIN code /\ code[s.bs[d].h].k = "lbl" /\ code[s.bs[d].h].l = i.l
    OBVIOUS
  <2>1. d \in 1 .. s.b
    BY <1>1, <1>2, <1>13 DEF Placed
  <2>2. s.bs[d].h <= n - 1 /\ code[s.bs[d].h].k = "lbl" /\ code[s.bs[d].h].l = i.l
    BY <1>1, <1>13 DEF Placed
  <2>3. s.bs[d].h >= 1 /\ s.bs[d].h \in Nat
    BY <1>13, <1>14, <2>1 DEF Spans
  <2>4. s.bs[d].h \in DOMAIN code
    <3>1. DOMAIN code = 1 .. N /\ N \in Nat
      BY DEF Program, N
    <3>2. n \in Nat /\ n <= N
      BY <1>1
    <3> HIDE DEF d
    <3> QED
      BY <2>2, <2>3, <3>1, <3>2
  <2> QED
    BY <2>1, <2>2, <2>4
<1>21. Edges(r, n)
  <2> DEFINE New(x, y) == x = s.b /\ ((Jumping(i) /\ d # 0 /\ y = d) \/ (Falling(i) /\ n < N /\ y = s.b + 1))
  <2>1. \A x \in 1 .. r.b : \A y : Linked(r.bs, x, y) <=> (x <= s.b /\ Linked(s.bs, x, y)) \/ New(x, y)
    BY DEF Terminates, N
  <2>2. \A y \in 1 .. r.b : \A x : LinkedBack(r.bs, x, y) <=> (y <= s.b /\ LinkedBack(s.bs, x, y)) \/ New(x, y)
    BY DEF Terminates, N
  <2>3. ASSUME NEW x, NEW y, New(x, y)
        PROVE  x \in 1 .. s.b /\ y \in 1 .. r.b
    <3>1. s.b \in 1 .. s.b /\ \A z \in 1 .. s.b : z \in 1 .. r.b
      BY <1>1, <1>2, <1>4
    <3>2. CASE Jumping(i) /\ d # 0 /\ y = d
      BY <1>20, <2>3, <3>1, <3>2
    <3>3. CASE Falling(i) /\ n < N /\ y = s.b + 1
      BY <1>1, <1>2, <1>4, <2>3, <3>1, <3>3
    <3> QED
      BY <2>3, <3>2, <3>3
  <2>4. \A x \in 1 .. r.b : x <= s.b <=> x \in 1 .. s.b
    BY <1>1, <1>2, <1>4
  <2>5. 1 .. s.b \subseteq 1 .. r.b
    BY <1>1, <1>2, <1>4
  <2>6. ASSUME NEW x \in 1 .. r.b, NEW y, Linked(r.bs, x, y)
        PROVE  y \in 1 .. r.b /\ Over(r, n, x) /\ r.bs[y].h \in Successors(r.bs[x].t)
    <3>1. CASE x <= s.b /\ Linked(s.bs, x, y)
      <4>1. x \in 1 .. s.b /\ y \in 1 .. s.b /\ Over(s, n - 1, x) /\ s.bs[y].h \in Successors(s.bs[x].t)
        BY <1>13, <2>4, <3>1 DEF Edges
      <4>2. x # s.b
        BY <1>8, <4>1
      <4> QED
        BY <1>5, <1>9, <2>5, <4>1, <4>2
    <3>2. CASE New(x, y)
      <4>1. x = s.b /\ x \in 1 .. s.b /\ r.bs[x].t = n /\ y \in 1 .. r.b /\ Over(r, n, x)
        BY <1>2, <1>6, <1>9, <2>3, <2>5, <3>2
      <4>2. CASE Jumping(i) /\ d # 0 /\ y = d
        <5>1. r.bs[y].h = s.bs[d].h
          BY <1>5, <1>20, <4>2
        <5> QED
          BY <1>20, <4>1, <4>2, <5>1 DEF Successors, Target, Jumping
      <4>3. CASE Falling(i) /\ n < N /\ y = s.b + 1
        BY <1>6, <4>1, <4>3 DEF Successors, Falling
      <4> QED
        BY <3>2, <4>1, <4>2, <4>3
    <3> QED
      BY <2>1, <2>6, <3>1, <3>2
  <2>7. ASSUME NEW y \in 1 .. r.b, NEW x, LinkedBack(r.bs, x, y)
        PROVE  x \in 1 .. r.b
    <3>1. CASE y <= s.b /\ LinkedBack(s.bs, x, y)
      BY <1>13, <2>4, <2>5, <3>1 DEF Edges
    <3>2. CASE New(x, y)
      BY <2>3, <2>5, <3>2
    <3> QED
      BY <2>2, <2>7, <3>1, <3>2
  <2>8. ASSUME NEW x \in 1 .. r.b, NEW y \in 1 .. r.b
        PROVE  Linked(r.bs, x, y) <=> LinkedBack(r.bs, x, y)
    <3>1. x <= s.b /\ Linked(s.bs, x, y) => y <= s.b /\ LinkedBack(s.bs, x, y)
      BY <1>13, <2>4 DEF Edges
    <3>2. y <= s.b /\ LinkedBack(s.bs, x, y) => x <= s.b /\ Linked(s.bs, x, y)
      BY <1>13, <2>4 DEF Edges
    <3> QED
      BY <2>1, <2>2, <3>1, <3>2
  <2>9. ASSUME NEW x \in 1 .. r.b, Over(r, n, x), NEW c \in Successors(r.bs[x].t)
        PROVE  Reaches(r, x, c) \/ Awaits(r, x, c)
    <3>1. x \in 1 .. s.b
      BY <1>9, <2>9
    <3>2. CASE x # s.b
      <4>1. Over(s, n - 1, x) /\ c \in Successors(s.bs[x].t)
        BY <1>5, <1>8, <2>9, <3>1, <3>2
      <4>2. CASE Reaches(s, x, c)
        <5>1. PICK y \in 1 .. s.b : Linked(s.bs, x, y) /\ s.bs[y].h = c
          BY <4>2 DEF Reaches
        <5>2. y \in 1 .. r.b /\ Linked(r.bs, x, y) /\ r.bs[y].h = c
          BY <1>5, <2>1, <2>4, <2>5, <3>1, <5>1
        <5> QED
          BY <5>2 DEF Reaches
      <4>3. CASE Awaits(s, x, c)
        BY <1>19, <4>3 DEF Awaits
      <4> QED
        BY <1>13, <3>1, <4>1, <4>2, <4>3 DEF Edges
    <3>3. CASE x = s.b
      <4>1. c \in Successors(n)
        BY <1>6, <2>9, <3>3
      <4>2. CASE c \in Target(i)
        <5>1. c \in DOMAIN code /\ code[c].k = "lbl" /\ code[c].l = i.l /\ Jumping(i)
          BY <4>2 DEF Target, Jumping
        <5>2. CASE d = 0
          BY <1>19, <3>3, <5>1, <5>2 DEF Awaits
        <5>3. CASE d # 0
          <6>1. s.bs[d].h = c /\ d \in 1 .. s.b
            BY <1>20, <5>1, <5>3 DEF Program
          <6>2. New(x, d)
            BY <3>3, <5>1, <5>3
          <6>3. Linked(r.bs, x, d) /\ d \in 1 .. r.b /\ r.bs[d].h = c
            BY <1>5, <2>1, <2>5, <3>1, <6>1, <6>2
          <6> QED
            BY <6>3 DEF Reaches
        <5> QED
          BY <5>2, <5>3
      <4>3. CASE c \notin Target(i)
        <5>1. c = n + 1 /\ i.k \notin {"jmp", "ret"}
          BY <4>1, <4>3 DEF Successors
        <5>2. Falling(i) /\ n < N
          <6>1. n # N
            BY <5>1, EndKind DEF N
          <6> QED
            BY <1>1, <5>1, <6>1 DEF Ending, Falling
        <5>3. New(x, s.b + 1)
          BY <3>3, <5>2
        <5>4. Linked(r.bs, x, s.b + 1) /\ s.b + 1 \in 1 .. r.b /\ r.bs[s.b + 1].h = c
          BY <1>6, <2>1, <2>3, <2>5, <3>1, <5>1, <5>2, <5>3
        <5> QED
          BY <5>4 DEF Reaches
      <4> QED
        BY <4>2, <4>3
    <3> QED
      BY <3>2, <3>3
  <2>10. ASSUME NEW e, Has(r.fwdrefs, e)
         PROVE  \E x \in 1 .. r.b : e = <<x, code[r.bs[x].t].l>> /\ Over(r, n, x) /\ Jumping(code[r.bs[x].t])
    <3>1. CASE Has(s.fwdrefs, e)
      <4>1. PICK x \in 1 .. s.b : e = <<x, code[s.bs[x].t].l>> /\ Over(s, n - 1, x) /\ Jumping(code[s.bs[x].t])
        BY <1>13, <3>1 DEF Edges
      <4>2. x \in 1 .. r.b /\ r.bs[x].t = s.bs[x].t /\ Over(r, n, x)
        BY <1>5, <1>8, <1>9, <2>5, <4>1
      <4> QED
        BY <4>1, <4>2
    <3>2. CASE Jumping(i) /\ d = 0 /\ e = <<s.b, i.l>>
      <4>1. s.b \in 1 .. r.b /\ r.bs[s.b].t = n /\ Over(r, n, s.b)
        BY <1>2, <1>6, <1>9, <2>5
      <4> QED
        BY <3>2, <4>1
    <3> QED
      BY <1>19, <2>10, <3>1, <3>2
  <2> QED
    BY <2>6, <2>7, <2>8, <2>9, <2>10 DEF Edges
<1> QED
  BY <1>3, <1>16, <1>17, <1>18, <1>21 DEF ScanInv

\* After an instruction in the middle of a block.
LEMMA MarkKeeps ==
  ASSUME Program, NEW n \in DOMAIN code, NEW s, ScanInv(s, n - 1), ~Ending(code[n]), code[n].k # "lbl",
         NEW r, Marks(r, s, code[n])
  PROVE  ScanInv(r, n)
<1> DEFINE N == Len(code)
           i == code[n]
<1>1. n \in Nat /\ n >= 1 /\ n < N /\ N \in Nat
  <2>1. n # N
    BY EndKind DEF Ending
  <2> QED
    BY <2>1, Instruction
<1>2. Current(s) /\ s.b \in Nat /\ s.b >= 1 /\ s.b \in 1 .. s.b
  BY DEF ScanInv, Current
<1>3. Current(r) /\ r.lbl2bb = s.lbl2bb /\ r.b = s.b /\ r.fwdrefs = s.fwdrefs
  BY DEF Marks
<1>4. \A b \in 1 .. s.b : /\ r.bs[b].h = s.bs[b].h /\ r.bs[b].t = s.bs[b].t /\ (b # s.b => SameSets(r.bs[b], s.bs[b]))
                          /\ \A y : Linked(r.bs, b, y) <=> Linked(s.bs, b, y)
                          /\ \A x : LinkedBack(r.bs, x, b) <=> LinkedBack(s.bs, x, b)
  BY DEF Marks, SameSpan
<1>5. \A b \in 1 .. s.b : (Over(s, n - 1, b) <=> b # s.b) /\ (Over(r, n, b) <=> b # s.b)
  BY <1>1, <1>2, <1>3 DEF Over
<1>6. \A b \in 1 .. s.b : b # s.b => End(r, n, b) = s.bs[b].t /\ End(s, n - 1, b) = s.bs[b].t
  BY <1>1, <1>2, <1>3, <1>4 DEF End
<1>7. End(r, n, s.b) = n /\ End(s, n - 1, s.b) = n - 1
  BY <1>1, <1>2, <1>3 DEF End
<1>8. Spans(s, n - 1) /\ Contents(s, n - 1) /\ Placed(s, n - 1) /\ Edges(s, n - 1)
  BY DEF ScanInv
<1>9. \A b \in 1 .. s.b : s.bs[b].h \in Nat /\ s.bs[b].t \in Nat
  <2>1. s.bs \in Seq(Blocks) /\ DOMAIN s.bs = 1 .. s.b
    BY <1>2 DEF Current, Scans
  <2>2. \A b \in DOMAIN s.bs : s.bs[b] \in Blocks
    BY <2>1, BlockIn
  <2>3. \A b \in 1 .. s.b : s.bs[b] \in Blocks
    BY <2>1, <2>2
  <2> QED
    BY <2>3 DEF Blocks
<1>10. s.bs[s.b].h <= n /\ s.bs[s.b].h \in Nat /\ s.bs[s.b].h >= 1
  BY <1>1, <1>2, <1>8, <1>9 DEF Spans
<1> HIDE DEF N
<1>11. Spans(r, n)
  <2>1. r.bs[1].h = 1 /\ r.bs[r.b].h <= n + 1
    BY <1>1, <1>2, <1>3, <1>4, <1>8, <1>10 DEF Spans
  <2>2. \A b \in 1 .. r.b : r.bs[b].h >= 1
    BY <1>3, <1>4, <1>8 DEF Spans
  <2>3. ASSUME NEW b \in 1 .. r.b, Over(r, n, b)
        PROVE  r.bs[b].t = End(r, n, b) /\ r.bs[b].h <= r.bs[b].t /\ r.bs[b].t <= n
    BY <1>1, <1>3, <1>4, <1>5, <1>6, <1>8, <1>9, <2>3 DEF Spans
  <2>4. ASSUME NEW b \in 1 .. r.b, b # r.b
        PROVE  r.bs[b + 1].h = r.bs[b].t + 1
    <3>1. b + 1 \in 1 .. s.b
      BY <1>2, <1>3, <2>4
    <3> QED
      BY <1>3, <1>4, <1>8, <2>4, <3>1 DEF Spans
  <2> QED
    BY <2>1, <2>2, <2>3, <2>4 DEF Spans
<1>12. Contents(r, n)
  <2> SUFFICES ASSUME NEW b \in 1 .. s.b
               PROVE  SetsOf(r.bs[b], r.bs[b].h, End(r, n, b)) /\ PlainIn(r.bs[b].h, End(r, n, b), Over(r, n, b))
    BY <1>3 DEF Contents
  <2>1. CASE b = s.b
    <3>1. SetsOf(s.bs[b], s.bs[b].h, n - 1) /\ PlainIn(s.bs[b].h, n - 1, Over(s, n - 1, b))
      BY <1>2, <1>7, <1>8, <2>1 DEF Contents
    <3>2. SetsOf(r.bs[b], s.bs[b].h, n)
      <4>1. /\ r.bs[b].use = s.bs[b].use \cup (i.u \ s.bs[b].def)
            /\ r.bs[b].def = s.bs[b].def \cup (i.d \ r.bs[b].use)
        BY <2>1 DEF Marks
      <4> QED
        BY <1>10, <2>1, <3>1, <4>1, MarkMeans
    <3>3. ~Over(r, n, b) /\ ~Over(s, n - 1, b)
      BY <1>5, <2>1
    <3>4. PlainIn(s.bs[b].h, n, Over(r, n, b))
      <4>1. \A cp \in s.bs[b].h .. n : cp \in s.bs[b].h .. n - 1 \/ cp = n
        BY <1>1, <1>10, <2>1
      <4>2. code[n].k # "lbl" /\ code[n].k \notin {"br", "jmp", "ret"}
        BY DEF Ending
      <4> QED
        BY <3>1, <3>3, <4>1, <4>2 DEF PlainIn
    <3> QED
      BY <1>2, <1>4, <1>7, <2>1, <3>2, <3>4
  <2>2. CASE b # s.b
    <3>1. SetsOf(s.bs[b], s.bs[b].h, s.bs[b].t) /\ PlainIn(s.bs[b].h, s.bs[b].t, Over(s, n - 1, b))
      BY <1>6, <1>8, <2>2 DEF Contents
    <3>2. SetsOf(r.bs[b], s.bs[b].h, s.bs[b].t)
      BY <1>4, <2>2, <3>1 DEF SetsOf, SameSets
    <3>3. PlainIn(s.bs[b].h, s.bs[b].t, Over(r, n, b))
      BY <1>5, <2>2, <3>1 DEF PlainIn
    <3> QED
      BY <1>4, <1>6, <2>2, <3>2, <3>3
  <2> QED
    BY <2>1, <2>2
<1>13. Placed(r, n)
  <2>1. ASSUME NEW l \in LabelNames, r.lbl2bb[l] # 0
        PROVE  r.bs[r.lbl2bb[l]].h <= n /\ code[r.bs[r.lbl2bb[l]].h].k = "lbl" /\ code[r.bs[r.lbl2bb[l]].h].l = l
    <3>1. r.lbl2bb[l] = s.lbl2bb[l] /\ s.lbl2bb[l] \in 1 .. s.b
      BY <1>2, <1>3, <1>8, <2>1 DEF Placed
    <3>2. s.bs[s.lbl2bb[l]].h <= n - 1 /\ code[s.bs[s.lbl2bb[l]].h].k = "lbl" /\ code[s.bs[s.lbl2bb[l]].h].l = l
      BY <1>8, <2>1, <3>1 DEF Placed
    <3>3. s.bs[s.lbl2bb[l]].h <= n
      BY <1>1, <1>9, <3>1, <3>2
    <3> QED
      BY <1>4, <3>1, <3>2, <3>3
  <2>2. ASSUME NEW cp \in 1 .. n, code[cp].k = "lbl"
        PROVE  r.lbl2bb[code[cp].l] # 0
    <3>1. cp \in 1 .. n - 1
      BY <1>1, <2>2
    <3> QED
      BY <1>3, <1>8, <2>2, <3>1 DEF Placed
  <2> QED
    BY <1>3, <1>8, <2>1, <2>2 DEF Placed
<1>14. Edges(r, n)
  <2>1. ASSUME NEW x \in 1 .. r.b, Over(r, n, x), NEW c \in Successors(r.bs[x].t)
        PROVE  Reaches(r, x, c) \/ Awaits(r, x, c)
    <3>1. Reaches(s, x, c) \/ Awaits(s, x, c)
      BY <1>3, <1>4, <1>5, <1>8, <2>1 DEF Edges
    <3> QED
      BY <1>3, <1>4, <3>1 DEF Reaches, Awaits
  <2>2. ASSUME NEW e, Has(r.fwdrefs, e)
        PROVE  \E x \in 1 .. r.b : e = <<x, code[r.bs[x].t].l>> /\ Over(r, n, x) /\ Jumping(code[r.bs[x].t])
    <3>1. PICK x \in 1 .. s.b : e = <<x, code[s.bs[x].t].l>> /\ Over(s, n - 1, x) /\ Jumping(code[s.bs[x].t])
      BY <1>3, <1>8, <2>2 DEF Edges
    <3> QED
      BY <1>3, <1>4, <1>5, <3>1
  <2>3. ASSUME NEW x \in 1 .. r.b, NEW y, Linked(r.bs, x, y)
        PROVE  y \in 1 .. r.b /\ Over(r, n, x) /\ r.bs[y].h \in Successors(r.bs[x].t)
    <3>1. x \in 1 .. s.b /\ Linked(s.bs, x, y)
      BY <1>3, <1>4, <2>3
    <3>2. y \in 1 .. s.b /\ Over(s, n - 1, x) /\ s.bs[y].h \in Successors(s.bs[x].t)
      BY <1>8, <3>1 DEF Edges
    <3> QED
      BY <1>3, <1>4, <1>5, <3>1, <3>2
  <2>4. /\ \A y \in 1 .. r.b : \A x : LinkedBack(r.bs, x, y) => x \in 1 .. r.b
        /\ \A x, y \in 1 .. r.b : Linked(r.bs, x, y) <=> LinkedBack(r.bs, x, y)
    BY <1>3, <1>4, <1>8 DEF Edges
  <2> QED
    BY <2>1, <2>2, <2>3, <2>4 DEF Edges
<1> QED
  BY <1>3, <1>11, <1>12, <1>13, <1>14 DEF ScanInv

\* What is known of the blocks before an instruction.
LEMMA SpanFacts ==
  ASSUME Program, NEW n \in DOMAIN code, NEW s, ScanInv(s, n - 1)
  PROVE  /\ n \in Nat /\ n >= 1 /\ n <= Len(code) /\ Len(code) \in Nat
         /\ s.b \in Nat /\ s.b >= 1 /\ s.b \in 1 .. s.b
         /\ \A b \in 1 .. s.b : s.bs[b].h \in Nat /\ s.bs[b].t \in Nat /\ s.bs[b].h >= 1 /\ (Over(s, n - 1, b) <=> b # s.b)
         /\ s.bs[s.b].h <= n
<1>1. n \in Nat /\ n >= 1 /\ n <= Len(code) /\ Len(code) \in Nat
  BY Instruction
<1>2. Current(s) /\ s.b \in Nat /\ s.b >= 1 /\ s.b \in 1 .. s.b
  BY DEF ScanInv, Current
<1>3. \A b \in 1 .. s.b : s.bs[b].h \in Nat /\ s.bs[b].t \in Nat
  <2>1. s.bs \in Seq(Blocks) /\ DOMAIN s.bs = 1 .. s.b
    BY <1>2 DEF Current, Scans
  <2>2. \A b \in DOMAIN s.bs : s.bs[b] \in Blocks
    BY <2>1, BlockIn
  <2>3. \A b \in 1 .. s.b : s.bs[b] \in Blocks
    BY <2>1, <2>2
  <2> QED
    BY <2>3 DEF Blocks
<1>4. \A b \in 1 .. s.b : s.bs[b].h >= 1
  BY DEF ScanInv, Spans
<1>5. \A b \in 1 .. s.b : Over(s, n - 1, b) <=> b # s.b
  BY <1>1, <1>2 DEF Over
<1>6. s.bs[s.b].h <= n
  BY <1>1, <1>2, <1>3 DEF ScanInv, Spans
<1> QED
  BY <1>1, <1>2, <1>3, <1>4, <1>5, <1>6

\* A label at the head of a block names it.
LEMMA LabelKeeps ==
  ASSUME Program, NEW n \in DOMAIN code, NEW s, ScanInv(s, n - 1), code[n].k = "lbl", s.bs[s.b].h = n,
         NEW r, r = [s EXCEPT !.lbl2bb[code[n].l] = s.b]
  PROVE  ScanInv(r, n)
<1> DEFINE N == Len(code)
           i == code[n]
<1>1. n \in Nat /\ n >= 1 /\ n < N /\ N \in Nat /\ i.l \in LabelNames
  <2>1. n # N
    BY EndKind
  <2> QED
    BY <2>1, Instruction
<1>2. Current(s) /\ s.b \in Nat /\ s.b >= 1 /\ s.b \in 1 .. s.b
  BY SpanFacts DEF ScanInv
<1>3. /\ Current(r) /\ r.b = s.b /\ r.bs = s.bs /\ r.fwdrefs = s.fwdrefs
      /\ \A l \in LabelNames : r.lbl2bb[l] = IF l = i.l THEN s.b ELSE s.lbl2bb[l]
  <2>1. s.lbl2bb \in [LabelNames -> Nat] /\ s \in Scans
    BY <1>2 DEF Current, Scans
  <2> DEFINE g == [s.lbl2bb EXCEPT ![i.l] = s.b]
  <2>2. g \in [LabelNames -> Nat] /\ \A l \in LabelNames : g[l] = IF l = i.l THEN s.b ELSE s.lbl2bb[l]
    BY <1>1, <1>2, <2>1
  <2>3. r = [s EXCEPT !.lbl2bb = g]
    OBVIOUS
  <2> HIDE DEF g
  <2>4. r \in Scans /\ r.b = s.b /\ r.bs = s.bs /\ r.fwdrefs = s.fwdrefs /\ r.lbl2bb = g
    BY <2>1, <2>2, <2>3 DEF Scans
  <2>5. Current(r)
    BY <1>2, <2>4 DEF Current
  <2> QED
    BY <2>2, <2>4, <2>5
<1>4. \A b \in 1 .. s.b : (Over(s, n - 1, b) <=> b # s.b) /\ (Over(r, n, b) <=> b # s.b)
  BY <1>1, <1>2, <1>3 DEF Over
<1>5. \A b \in 1 .. s.b : b # s.b => End(r, n, b) = s.bs[b].t /\ End(s, n - 1, b) = s.bs[b].t
  BY <1>1, <1>2, <1>3 DEF End
<1>6. End(r, n, s.b) = n /\ End(s, n - 1, s.b) = n - 1
  BY <1>1, <1>2, <1>3 DEF End
<1>7. Spans(s, n - 1) /\ Contents(s, n - 1) /\ Placed(s, n - 1) /\ Edges(s, n - 1)
  BY DEF ScanInv
<1>8. \A b \in 1 .. s.b : s.bs[b].h \in Nat /\ s.bs[b].t \in Nat
  BY SpanFacts
<1> HIDE DEF N
<1>9. Spans(r, n)
  <2>1. \A b \in 1 .. s.b : Over(r, n, b) => s.bs[b].t = End(r, n, b) /\ s.bs[b].h <= s.bs[b].t /\ s.bs[b].t <= n
    BY <1>1, <1>4, <1>5, <1>7, <1>8 DEF Spans
  <2>2. s.bs[s.b].h <= n + 1
    BY <1>1
  <2> QED
    BY <1>3, <1>7, <2>1, <2>2 DEF Spans
<1>10. Contents(r, n)
  <2> SUFFICES ASSUME NEW b \in 1 .. s.b
               PROVE  SetsOf(s.bs[b], s.bs[b].h, End(r, n, b)) /\ PlainIn(s.bs[b].h, End(r, n, b), Over(r, n, b))
    BY <1>3 DEF Contents
  <2>1. CASE b = s.b
    <3>1. SetsOf(s.bs[b], n, n - 1)
      BY <1>2, <1>6, <1>7, <2>1 DEF Contents
    <3>2. SetsOf(s.bs[b], n, n)
      <4>1. i.u = {} /\ i.d = {}
        BY Instruction
      <4>2. /\ s.bs[b].use = s.bs[b].use \cup (i.u \ s.bs[b].def)
            /\ s.bs[b].def = s.bs[b].def \cup (i.d \ s.bs[b].use)
        BY <4>1
      <4> QED
        BY <1>1, <3>1, <4>2, MarkMeans
    <3>3. PlainIn(n, n, Over(r, n, b))
      BY <1>1 DEF PlainIn
    <3> QED
      BY <1>6, <2>1, <3>2, <3>3
  <2>2. CASE b # s.b
    <3>1. SetsOf(s.bs[b], s.bs[b].h, s.bs[b].t) /\ PlainIn(s.bs[b].h, s.bs[b].t, Over(s, n - 1, b))
      BY <1>5, <1>7, <2>2 DEF Contents
    <3>2. PlainIn(s.bs[b].h, s.bs[b].t, Over(r, n, b))
      BY <1>4, <2>2, <3>1 DEF PlainIn
    <3> QED
      BY <1>5, <2>2, <3>1, <3>2
  <2> QED
    BY <2>1, <2>2
<1>11. Placed(r, n)
  <2>1. \A l \in LabelNames : r.lbl2bb[l] \in 0 .. r.b
    BY <1>2, <1>3, <1>7 DEF Placed
  <2>2. ASSUME NEW l \in LabelNames, r.lbl2bb[l] # 0
        PROVE  s.bs[r.lbl2bb[l]].h <= n /\ code[s.bs[r.lbl2bb[l]].h].k = "lbl" /\ code[s.bs[r.lbl2bb[l]].h].l = l
    <3>1. CASE l = i.l
      BY <1>1, <1>3, <3>1
    <3>2. CASE l # i.l
      <4>1. r.lbl2bb[l] = s.lbl2bb[l] /\ s.lbl2bb[l] \in 1 .. s.b
        BY <1>2, <1>3, <1>7, <2>2, <3>2 DEF Placed
      <4>2. s.bs[s.lbl2bb[l]].h <= n - 1 /\ code[s.bs[s.lbl2bb[l]].h].k = "lbl" /\ code[s.bs[s.lbl2bb[l]].h].l = l
        BY <1>7, <2>2, <4>1 DEF Placed
      <4> QED
        BY <1>1, <1>8, <4>1, <4>2
    <3> QED
      BY <3>1, <3>2
  <2>3. ASSUME NEW cp \in 1 .. n, code[cp].k = "lbl"
        PROVE  r.lbl2bb[code[cp].l] # 0
    <3>0. code[cp].l \in LabelNames
      BY <1>1 DEF LabelNames, Program, N
    <3>1. CASE cp = n
      BY <1>1, <1>2, <1>3, <3>1
    <3>2. CASE cp # n
      <4>1. cp \in 1 .. n - 1
        BY <1>1, <3>2
      <4>2. s.lbl2bb[code[cp].l] # 0
        BY <1>7, <2>3, <4>1 DEF Placed
      <4> QED
        BY <1>2, <1>3, <3>0, <4>2
    <3> QED
      BY <3>1, <3>2
  <2> QED
    BY <1>3, <2>1, <2>2, <2>3 DEF Placed
<1>12. Edges(r, n)
  <2>1. ASSUME NEW x \in 1 .. s.b, Over(r, n, x), NEW c \in Successors(s.bs[x].t)
        PROVE  Reaches(r, x, c) \/ Awaits(r, x, c)
    <3>1. Reaches(s, x, c) \/ Awaits(s, x, c)
      BY <1>4, <1>7, <2>1 DEF Edges
    <3> QED
      BY <1>3, <3>1 DEF Reaches, Awaits
  <2>2. ASSUME NEW e, Has(r.fwdrefs, e)
        PROVE  \E x \in 1 .. s.b : e = <<x, code[s.bs[x].t].l>> /\ Over(r, n, x) /\ Jumping(code[s.bs[x].t])
    <3>1. PICK x \in 1 .. s.b : e = <<x, code[s.bs[x].t].l>> /\ Over(s, n - 1, x) /\ Jumping(code[s.bs[x].t])
      BY <1>3, <1>7, <2>2 DEF Edges
    <3> QED
      BY <1>4, <3>1
  <2>3. ASSUME NEW x \in 1 .. s.b, NEW y, Linked(s.bs, x, y)
        PROVE  y \in 1 .. s.b /\ Over(r, n, x) /\ s.bs[y].h \in Successors(s.bs[x].t)
    BY <1>4, <1>7, <2>3 DEF Edges
  <2>4. /\ \A y \in 1 .. s.b : \A x : LinkedBack(s.bs, x, y) => x \in 1 .. s.b
        /\ \A x, y \in 1 .. s.b : Linked(s.bs, x, y) <=> LinkedBack(s.bs, x, y)
    BY <1>7 DEF Edges
  <2> QED
    BY <1>3, <2>1, <2>2, <2>3, <2>4 DEF Edges
<1> QED
  BY <1>3, <1>9, <1>10, <1>11, <1>12 DEF ScanInv

\* A label in the middle of a block ends it and begins the next one.
LEMMA SplitKeeps ==
  ASSUME Program, NEW n \in DOMAIN code, NEW s, ScanInv(s, n - 1), code[n].k = "lbl", n > s.bs[s.b].h,
         NEW r, Ends(r, s, n - 1, TRUE, TRUE)
  PROVE  ScanInv(r, n - 1) /\ r.b = s.b + 1 /\ r.bs[r.b].h = n
<1> DEFINE N == Len(code)
<1>1. n \in Nat /\ n >= 1 /\ n < N /\ N \in Nat /\ n - 1 \in Nat /\ (n - 1) + 1 = n /\ n - 1 < N
  <2>1. n # N
    BY EndKind
  <2> QED
    BY <2>1, Instruction
<1>2. Current(s) /\ s.b \in Nat /\ s.b >= 1 /\ s.b \in 1 .. s.b
  BY SpanFacts DEF ScanInv
<1>3. Current(r) /\ r.lbl2bb = s.lbl2bb /\ r.fwdrefs = s.fwdrefs /\ r.b = s.b + 1
  BY DEF Ends
<1>4. \A b \in 1 .. s.b : r.bs[b].h = s.bs[b].h /\ SameSets(r.bs[b], s.bs[b]) /\ (b # s.b => r.bs[b].t = s.bs[b].t)
  BY DEF Ends
<1>5. r.bs[s.b].t = n - 1 /\ r.bs[s.b + 1].h = n /\ r.bs[s.b + 1].use = {} /\ r.bs[s.b + 1].def = {}
  BY <1>1, <1>2 DEF Ends
<1>6. \A b \in Nat : b \in 1 .. r.b <=> b \in 1 .. s.b \/ b = s.b + 1
  BY <1>2, <1>3
<1>7. /\ \A b \in 1 .. s.b : Over(s, n - 1, b) <=> b # s.b
      /\ \A b \in 1 .. r.b : Over(r, n - 1, b) <=> b \in 1 .. s.b
  BY <1>1, <1>2, <1>3 DEF Over
<1>8. \A b \in 1 .. s.b : b # s.b => End(r, n - 1, b) = s.bs[b].t /\ End(s, n - 1, b) = s.bs[b].t
  BY <1>1, <1>2, <1>3, <1>4 DEF End
<1>9. End(r, n - 1, s.b) = n - 1 /\ End(s, n - 1, s.b) = n - 1 /\ End(r, n - 1, s.b + 1) = n - 1
  BY <1>1, <1>2, <1>3, <1>5 DEF End
<1>10. Spans(s, n - 1) /\ Contents(s, n - 1) /\ Placed(s, n - 1) /\ Edges(s, n - 1)
  BY DEF ScanInv
<1>11. \A b \in 1 .. s.b : s.bs[b].h \in Nat /\ s.bs[b].t \in Nat /\ s.bs[b].h >= 1
  BY SpanFacts
<1>12. s.bs[s.b].h \in Nat /\ s.bs[s.b].h <= n - 1 /\ s.bs[s.b].h >= 1
  BY <1>1, <1>2, <1>11
<1> HIDE DEF N
<1>13. Spans(r, n - 1)
  <2>1. r.bs[1].h = 1 /\ r.bs[r.b].h <= (n - 1) + 1
    BY <1>1, <1>2, <1>3, <1>4, <1>5, <1>10 DEF Spans
  <2>2. \A b \in 1 .. r.b : r.bs[b].h >= 1
    BY <1>1, <1>4, <1>5, <1>6, <1>11
  <2>3. ASSUME NEW b \in 1 .. r.b, Over(r, n - 1, b)
        PROVE  r.bs[b].t = End(r, n - 1, b) /\ r.bs[b].h <= r.bs[b].t /\ r.bs[b].t <= n - 1
    <3>1. b \in 1 .. s.b
      BY <1>7, <2>3
    <3>2. CASE b = s.b
      BY <1>1, <1>4, <1>5, <1>9, <1>12, <3>1, <3>2
    <3>3. CASE b # s.b
      BY <1>1, <1>4, <1>7, <1>8, <1>10, <1>11, <3>1, <3>3 DEF Spans
    <3> QED
      BY <3>2, <3>3
  <2>4. ASSUME NEW b \in 1 .. r.b, b # r.b
        PROVE  r.bs[b + 1].h = r.bs[b].t + 1
    <3>1. b \in 1 .. s.b
      BY <1>2, <1>3, <2>4
    <3>2. CASE b = s.b
      BY <1>1, <1>5, <3>2
    <3>3. CASE b # s.b
      <4>1. b + 1 \in 1 .. s.b
        BY <1>2, <3>1, <3>3
      <4> QED
        BY <1>4, <1>10, <3>1, <3>3, <4>1 DEF Spans
    <3> QED
      BY <3>2, <3>3
  <2> QED
    BY <2>1, <2>2, <2>3, <2>4 DEF Spans
<1>14. Contents(r, n - 1)
  <2> SUFFICES ASSUME NEW b \in 1 .. r.b
               PROVE  SetsOf(r.bs[b], r.bs[b].h, End(r, n - 1, b)) /\ PlainIn(r.bs[b].h, End(r, n - 1, b), Over(r, n - 1, b))
    BY DEF Contents
  <2>1. CASE b \in 1 .. s.b
    <3>1. SetsOf(s.bs[b], s.bs[b].h, End(s, n - 1, b)) /\ PlainIn(s.bs[b].h, End(s, n - 1, b), Over(s, n - 1, b))
      BY <1>10, <2>1 DEF Contents
    <3>2. End(r, n - 1, b) = End(s, n - 1, b)
      BY <1>8, <1>9, <2>1
    <3>3. SetsOf(r.bs[b], s.bs[b].h, End(s, n - 1, b))
      BY <1>4, <2>1, <3>1 DEF SetsOf, SameSets
    <3>4. Over(s, n - 1, b) => Over(r, n - 1, b)
      BY <1>7, <2>1
    <3>5. PlainIn(s.bs[b].h, End(s, n - 1, b), Over(r, n - 1, b))
      BY <3>1, <3>4 DEF PlainIn
    <3> QED
      BY <1>4, <2>1, <3>2, <3>3, <3>5
  <2>2. CASE b = s.b + 1
    <3>1. \A j \in n .. n - 1 : FALSE
      BY <1>1
    <3>2. SetsOf(r.bs[b], n, n - 1)
      BY <1>5, <2>2, <3>1 DEF SetsOf, UseIn, DefIn
    <3>3. PlainIn(n, n - 1, Over(r, n - 1, b))
      BY <3>1 DEF PlainIn
    <3> QED
      BY <1>5, <1>9, <2>2, <3>2, <3>3
  <2> QED
    BY <1>6, <2>1, <2>2
<1>15. Placed(r, n - 1)
  <2>1. \A l \in LabelNames : r.lbl2bb[l] \in 0 .. r.b
    BY <1>2, <1>3, <1>10 DEF Placed
  <2>2. ASSUME NEW l \in LabelNames, r.lbl2bb[l] # 0
        PROVE  r.bs[r.lbl2bb[l]].h <= n - 1 /\ code[r.bs[r.lbl2bb[l]].h].k = "lbl" /\ code[r.bs[r.lbl2bb[l]].h].l = l
    <3>1. r.lbl2bb[l] = s.lbl2bb[l] /\ s.lbl2bb[l] \in 1 .. s.b
      BY <1>2, <1>3, <1>10, <2>2 DEF Placed
    <3>2. s.bs[s.lbl2bb[l]].h <= n - 1 /\ code[s.bs[s.lbl2bb[l]].h].k = "lbl" /\ code[s.bs[s.lbl2bb[l]].h].l = l
      BY <1>10, <2>2, <3>1 DEF Placed
    <3> QED
      BY <1>4, <3>1, <3>2
  <2> QED
    BY <1>3, <1>10, <2>1, <2>2 DEF Placed
<1>16. Edges(r, n - 1)
  <2> DEFINE New(x, y) == x = s.b /\ y = s.b + 1
  <2>1. \A x \in 1 .. r.b : \A y : Linked(r.bs, x, y) <=> (x \in 1 .. s.b /\ Linked(s.bs, x, y)) \/ New(x, y)
    BY <1>2, <1>3 DEF Ends
  <2>2. \A y \in 1 .. r.b : \A x : LinkedBack(r.bs, x, y) <=> (y \in 1 .. s.b /\ LinkedBack(s.bs, x, y)) \/ New(x, y)
    BY <1>2, <1>3 DEF Ends
  <2>3. 1 .. s.b \subseteq 1 .. r.b /\ s.b + 1 \in 1 .. r.b
    BY <1>2, <1>3
  <2>4. Successors(n - 1) = {n}
    <3>1. n - 1 \in s.bs[s.b].h .. End(s, n - 1, s.b)
      BY <1>1, <1>9, <1>12
    <3>2. code[n - 1].k \notin {"br", "jmp", "ret"}
      BY <1>2, <1>7, <1>10, <3>1 DEF Contents, PlainIn
    <3> QED
      BY <1>1, <3>2 DEF Successors, Target
  <2>5. ASSUME NEW x \in 1 .. r.b, NEW y, Linked(r.bs, x, y)
        PROVE  y \in 1 .. r.b /\ Over(r, n - 1, x) /\ r.bs[y].h \in Successors(r.bs[x].t)
    <3>1. CASE x \in 1 .. s.b /\ Linked(s.bs, x, y)
      <4>1. y \in 1 .. s.b /\ Over(s, n - 1, x) /\ s.bs[y].h \in Successors(s.bs[x].t)
        BY <1>10, <3>1 DEF Edges
      <4> QED
        BY <1>4, <1>7, <2>3, <3>1, <4>1
    <3>2. CASE New(x, y)
      BY <1>2, <1>5, <1>7, <2>3, <2>4, <3>2
    <3> QED
      BY <2>1, <2>5, <3>1, <3>2
  <2>6. ASSUME NEW y \in 1 .. r.b, NEW x, LinkedBack(r.bs, x, y)
        PROVE  x \in 1 .. r.b
    BY <1>2, <1>10, <2>2, <2>3, <2>6 DEF Edges
  <2>7. ASSUME NEW x \in 1 .. r.b, NEW y \in 1 .. r.b
        PROVE  Linked(r.bs, x, y) <=> LinkedBack(r.bs, x, y)
    <3>1. x \in 1 .. s.b /\ Linked(s.bs, x, y) => y \in 1 .. s.b /\ LinkedBack(s.bs, x, y)
      BY <1>10 DEF Edges
    <3>2. y \in 1 .. s.b /\ LinkedBack(s.bs, x, y) => x \in 1 .. s.b /\ Linked(s.bs, x, y)
      BY <1>10 DEF Edges
    <3> QED
      BY <2>1, <2>2, <3>1, <3>2
  <2>8. ASSUME NEW x \in 1 .. r.b, Over(r, n - 1, x), NEW c \in Successors(r.bs[x].t)
        PROVE  Reaches(r, x, c) \/ Awaits(r, x, c)
    <3>1. x \in 1 .. s.b
      BY <1>7, <2>8
    <3>2. CASE x # s.b
      <4>1. Reaches(s, x, c) \/ Awaits(s, x, c)
        BY <1>4, <1>7, <1>10, <2>8, <3>1, <3>2 DEF Edges
      <4>2. CASE Reaches(s, x, c)
        <5>1. PICK y \in 1 .. s.b : Linked(s.bs, x, y) /\ s.bs[y].h = c
          BY <4>2 DEF Reaches
        <5>2. y \in 1 .. r.b /\ Linked(r.bs, x, y) /\ r.bs[y].h = c
          BY <1>4, <2>1, <2>3, <3>1, <5>1
        <5> QED
          BY <5>2 DEF Reaches
      <4>3. CASE Awaits(s, x, c)
        BY <1>3, <4>3 DEF Awaits
      <4> QED
        BY <4>1, <4>2, <4>3
    <3>3. CASE x = s.b
      <4>1. c = n
        BY <1>5, <2>4, <2>8, <3>3
      <4>2. Linked(r.bs, x, s.b + 1) /\ r.bs[s.b + 1].h = c
        BY <1>5, <2>1, <2>3, <3>3, <4>1
      <4> QED
        BY <2>3, <4>2 DEF Reaches
    <3> QED
      BY <3>2, <3>3
  <2>9. ASSUME NEW e, Has(r.fwdrefs, e)
        PROVE  \E x \in 1 .. r.b : e = <<x, code[r.bs[x].t].l>> /\ Over(r, n - 1, x) /\ Jumping(code[r.bs[x].t])
    <3>1. PICK x \in 1 .. s.b : e = <<x, code[s.bs[x].t].l>> /\ Over(s, n - 1, x) /\ Jumping(code[s.bs[x].t])
      BY <1>3, <1>10, <2>9 DEF Edges
    <3>2. x \in 1 .. r.b /\ r.bs[x].t = s.bs[x].t /\ Over(r, n - 1, x)
      BY <1>4, <1>7, <2>3, <3>1
    <3> QED
      BY <3>1, <3>2
  <2> QED
    BY <2>5, <2>6, <2>7, <2>8, <2>9 DEF Edges
<1> QED
  BY <1>3, <1>5, <1>13, <1>14, <1>15, <1>16 DEF ScanInv

\* One round of the loop of i_fg_build.
LEMMA ScanStep ==
  ASSUME Program, NEW n \in DOMAIN code, NEW s, ScanInv(s, n - 1)
  PROVE  ScanInv(Scan(s, n), n)
<1>1. Current(s) /\ (\A l \in LabelNames : s.lbl2bb[l] \in 0 .. s.b)
  BY DEF ScanInv, Placed
<1>2. code[n] \in Insns /\ code[n].k \in {"op", "lea", "use", "br", "jmp", "lbl", "call", "ret"}
  BY Instruction
<1>3. CASE Ending(code[n])
  <2>1. Terminates(Scan(s, n), s, n)
    BY <1>1, <1>3, TerminateEffect
  <2> QED
    BY <1>3, <2>1, TerminateKeeps
<1>4. CASE ~Ending(code[n]) /\ code[n].k # "lbl"
  <2>1. Scan(s, n) = [s EXCEPT !.bs[s.b] = Mark(@, code[n])]
    BY <1>2, <1>4 DEF Scan, Ending
  <2>2. Marks(Scan(s, n), s, code[n])
    BY <1>1, <1>2, <2>1, MarkEffect
  <2> QED
    BY <1>4, <2>2, MarkKeeps
<1>5. CASE code[n].k = "lbl"
  <2>1. /\ n \in Nat /\ n >= 1 /\ s.b \in 1 .. s.b /\ s.bs[s.b].h \in Nat /\ s.bs[s.b].h <= n
    BY SpanFacts
  <2> DEFINE at == IF n > s.bs[s.b].h THEN bb_finalize(s, n - 1, TRUE, TRUE) ELSE s
  <2>2. Scan(s, n) = [at EXCEPT !.lbl2bb[code[n].l] = at.b]
    BY <1>5 DEF Scan
  <2>3. ScanInv(at, n - 1) /\ at.bs[at.b].h = n
    <3>1. CASE n > s.bs[s.b].h
      <4>1. at = bb_finalize(s, n - 1, TRUE, TRUE)
        BY <3>1
      <4>2. n - 1 \in Nat
        BY <2>1
      <4> HIDE DEF at
      <4>3. Ends(at, s, n - 1, TRUE, TRUE)
        BY <1>1, <4>1, <4>2, FinalizeEffect
      <4> QED
        BY <1>5, <3>1, <4>3, SplitKeeps
    <3>2. CASE ~(n > s.bs[s.b].h)
      <4>1. at = s
        BY <3>2
      <4>2. s.bs[s.b].h = n
        BY <2>1, <3>2
      <4> HIDE DEF at
      <4> QED
        BY <4>1, <4>2
    <3> QED
      BY <3>1, <3>2
  <2> HIDE DEF at
  <2> QED
    BY <1>5, <2>2, <2>3, LabelKeeps
<1> QED
  BY <1>3, <1>4, <1>5

First0 == [bs |-> <<bb_alloc(1)>>, b |-> 1, lbl2bb |-> [l \in LabelNames |-> 0], fwdrefs |-> <<>>]

\* Before the first instruction there is one empty block.
LEMMA ScanBase ==
  ASSUME Program
  PROVE  ScanInv(First0, 0)
<1>1. bb_alloc(1) \in Blocks
  BY DEF bb_alloc, Blocks
<1>2. /\ First0.bs = <<bb_alloc(1)>> /\ First0.b = 1 /\ First0.lbl2bb = [l \in LabelNames |-> 0] /\ First0.fwdrefs = <<>>
  BY DEF First0
<1>3. /\ First0.bs[1].h = 1 /\ First0.bs[1].use = {} /\ First0.bs[1].def = {} /\ First0.bs[1].n = <<>> /\ First0.bs[1].p = <<>>
  BY <1>2 DEF bb_alloc
<1>4. Current(First0)
  <2>1. First0.bs \in Seq(Blocks) /\ Len(First0.bs) = 1 /\ DOMAIN First0.bs = 1 .. 1
    BY <1>1, <1>2
  <2>2. First0 \in Scans
    BY <2>1 DEF Scans, First0
  <2> QED
    BY <1>2, <2>1, <2>2 DEF Current
<1>5. Len(code) \in Nat /\ Len(code) # 0
  BY DEF Program
<1>6. \A b \in 1 .. First0.b : b = 1 /\ ~Over(First0, 0, b) /\ End(First0, 0, b) = 0
  BY <1>2, <1>5 DEF Over, End
<1>7. Spans(First0, 0)
  BY <1>2, <1>3, <1>6 DEF Spans
<1>8. Contents(First0, 0)
  BY <1>2, <1>3, <1>6 DEF Contents, SetsOf, PlainIn, UseIn, DefIn
<1>9. Placed(First0, 0)
  BY <1>2 DEF Placed
<1>10. Edges(First0, 0)
  <2>1. \A x \in 1 .. First0.b : \A y : ~Linked(First0.bs, x, y) /\ ~LinkedBack(First0.bs, y, x)
    BY <1>3, <1>6 DEF Linked, LinkedBack, Has
  <2>2. \A e : ~Has(First0.fwdrefs, e)
    BY <1>2 DEF Has
  <2> QED
    BY <1>6, <2>1, <2>2 DEF Edges
<1> QED
  BY <1>4, <1>7, <1>8, <1>9, <1>10 DEF ScanInv

\* The loop of i_fg_build.
LEMMA ScannedInv ==
  ASSUME Program
  PROVE  \A n \in 0 .. Len(code) : ScanInv(Scanned[n], n)
<1> DEFINE N == Len(code)
           S == [n \in 0 .. N |-> {s \in Scans : ScanInv(s, n)}]
           step == [n \in 1 .. N |-> [s \in Scans |-> Scan(s, n)]]
           Def(f) == f = [n \in 0 .. N |-> IF n = 0 THEN First0 ELSE Scan(f[n - 1], n)]
           W == CHOOSE f : Def(f)
<1>1. N \in Nat /\ DOMAIN code = 1 .. N
  BY DEF Program
<1>2. First0 \in S[0]
  BY <1>1, ScanBase DEF ScanInv, Current
<1>3. \A n \in 1 .. N : n - 1 \in 0 .. N /\ n \in 0 .. N
  BY <1>1
<1>4. ASSUME NEW n \in 1 .. N, NEW s \in S[n - 1]
      PROVE  step[n][s] \in S[n] /\ step[n][s] = Scan(s, n)
  <2>1. s \in Scans /\ ScanInv(s, n - 1)
    BY <1>3
  <2>2. step[n][s] = Scan(s, n)
    BY <2>1
  <2>3. ScanInv(Scan(s, n), n)
    BY <1>1, <2>1, ScanStep
  <2> QED
    BY <1>3, <2>2, <2>3 DEF ScanInv, Current
<1>5. \E f : Loop(f, N, First0, step, S)
  <2> HIDE DEF S, step, N
  <2> QED
    BY <1>1, <1>2, <1>4, Iterates
<1>6. \E f : Def(f)
  <2>1. PICK f : Loop(f, N, First0, step, S)
    BY <1>5
  <2>2. \A n \in 1 .. N : f[n] = Scan(f[n - 1], n)
    <3> HIDE DEF S, step, N
    <3> QED
      BY <1>3, <1>4, <2>1 DEF Loop
  <2>3. f = [n \in 0 .. N |-> f[n]] /\ f[0] = First0
    BY <2>1 DEF Loop
  <2>4. \A n \in 0 .. N : f[n] = IF n = 0 THEN First0 ELSE Scan(f[n - 1], n)
    BY <1>1, <2>2, <2>3
  <2>5. [n \in 0 .. N |-> f[n]] = [n \in 0 .. N |-> IF n = 0 THEN First0 ELSE Scan(f[n - 1], n)]
    BY <2>4
  <2>6. Def(f)
    BY <2>3, <2>5
  <2> QED
    BY <2>6
<1>7. W = Scanned
  BY DEF Scanned, First0, LabelNames
<1>8. Def(Scanned)
  <2>1. Def(W)
    BY <1>6
  <2> QED
    BY <1>7, <2>1
<1>9. Scanned[0] = First0 /\ \A n \in 1 .. N : Scanned[n] = Scan(Scanned[n - 1], n)
  BY <1>1, <1>8
<1>10. \A n \in 1 .. N : Scanned[n - 1] \in S[n - 1] => Scanned[n] \in S[n]
  BY <1>4, <1>9
<1>11. \A n \in 0 .. N : Scanned[n] \in S[n]
  <2> HIDE DEF S, N
  <2> QED
    BY <1>1, <1>2, <1>9, <1>10, LoopInvariant
<1> QED
  BY <1>11

-----------------------------------------------------------------------------
(* The flow graph.                                                         *)

\* The graph without its edges: blocks that follow one another over the code.
Partition(G) ==
  /\ G \in Seq(Blocks) /\ Len(G) \in Nat \ {0} /\ DOMAIN G = 1 .. Len(G)
  /\ G[1].h = 1 /\ G[Len(G)].t = Len(code)
  /\ \A b \in DOMAIN G : G[b].h \in Nat /\ G[b].t \in Nat /\ 1 <= G[b].h /\ G[b].h <= G[b].t /\ G[b].t <= Len(code)
  /\ \A b \in DOMAIN G : b # Len(G) => G[b + 1].h = G[b].t + 1
  /\ \A b \in DOMAIN G : SetsOf(G[b], G[b].h, G[b].t) /\ PlainIn(G[b].h, G[b].t, TRUE)

\* Its edges are the ways control takes between blocks, known at both ends.
Faithful(G) ==
  /\ \A x \in DOMAIN G : \A y : Linked(G, x, y) => y \in DOMAIN G /\ G[y].h \in Successors(G[x].t)
  /\ \A y \in DOMAIN G : \A x : LinkedBack(G, x, y) => x \in DOMAIN G
  /\ \A x, y \in DOMAIN G : Linked(G, x, y) <=> LinkedBack(G, x, y)
  /\ \A x \in DOMAIN G : \A c \in Successors(G[x].t) : \E y \in DOMAIN G : Linked(G, x, y) /\ G[y].h = c

GraphOK(G) == Partition(G) /\ Faithful(G)

\* The forward reference k, as the edge it becomes.
Source(k) == Built.fwdrefs[k][1]
Destination(k) == Built.lbl2bb[Built.fwdrefs[k][2]]
Added(n, x, y) == \E k \in 1 .. n : Source(k) = x /\ Destination(k) = y

ResolveInv(bs, n) ==
  /\ bs \in Seq(Blocks) /\ Len(bs) = Built.b /\ DOMAIN bs = 1 .. Built.b
  /\ \A b \in 1 .. Built.b : SameSpan(bs[b], Built.bs[b]) /\ SameSets(bs[b], Built.bs[b])
  /\ \A x \in 1 .. Built.b : \A y : Linked(bs, x, y) <=> Linked(Built.bs, x, y) \/ Added(n, x, y)
  /\ \A y \in 1 .. Built.b : \A x : LinkedBack(bs, x, y) <=> LinkedBack(Built.bs, x, y) \/ Added(n, x, y)

\* Where the scan ends.
LEMMA BuiltFacts ==
  ASSUME Program
  PROVE  /\ ScanInv(Built, Len(code)) /\ Len(code) \in Nat /\ Len(code) \in DOMAIN code
         /\ Built.b \in Nat /\ Built.b >= 1 /\ DOMAIN Built.bs = 1 .. Built.b
         /\ Len(Built.fwdrefs) \in Nat /\ DOMAIN Built.fwdrefs = 1 .. Len(Built.fwdrefs)
<1>1. Len(code) \in Nat /\ Len(code) \in 0 .. Len(code) /\ Len(code) \in DOMAIN code
  BY DEF Program
<1>2. ScanInv(Built, Len(code))
  BY <1>1, ScannedInv DEF Built
<1>3. Current(Built)
  BY <1>2 DEF ScanInv
<1>4. Built.fwdrefs \in Seq(Nat \X Nat)
  BY <1>3 DEF Current, Scans
<1> QED
  BY <1>1, <1>2, <1>3, <1>4 DEF Current

\* What the scan knows once it is over.
LEMMA BuiltBlocks ==
  ASSUME Program, NEW b \in 1 .. Built.b
  PROVE  /\ Built.bs[b].h \in Nat /\ Built.bs[b].t \in Nat /\ Built.bs[b].h >= 1 /\ Built.bs[b].h <= Built.bs[b].t
         /\ Built.bs[b].t <= Len(code) /\ (b = Built.b => Built.bs[b].t = Len(code))
         /\ (b # Built.b => Built.bs[b + 1].h = Built.bs[b].t + 1)
         /\ SetsOf(Built.bs[b], Built.bs[b].h, Built.bs[b].t) /\ PlainIn(Built.bs[b].h, Built.bs[b].t, TRUE)
<1>1. Current(Built) /\ Spans(Built, Len(code)) /\ Contents(Built, Len(code))
  BY BuiltFacts DEF ScanInv
<1>2. Built.bs[b] \in Blocks
  BY <1>1, BlockIn DEF Current, Scans
<1>3. Over(Built, Len(code), b)
  BY DEF Over
<1>4. Built.bs[b].t = End(Built, Len(code), b)
  BY <1>1, <1>3 DEF Spans
<1>5. b = Built.b => Built.bs[b].t = Len(code)
  BY <1>4, BuiltFacts DEF End
<1>6. SetsOf(Built.bs[b], Built.bs[b].h, Built.bs[b].t)
  BY <1>1, <1>4 DEF Contents
<1>7. PlainIn(Built.bs[b].h, Built.bs[b].t, Over(Built, Len(code), b))
  BY <1>1, <1>4 DEF Contents
<1>8. PlainIn(Built.bs[b].h, Built.bs[b].t, TRUE)
  BY <1>7 DEF PlainIn
<1> QED
  BY <1>1, <1>2, <1>3, <1>5, <1>6, <1>8, BuiltFacts DEF Spans, Blocks

\* A forward reference leads from a block that jumps to the block of the label.
LEMMA Forward ==
  ASSUME Program, NEW k \in DOMAIN Built.fwdrefs
  PROVE  /\ Source(k) \in 1 .. Built.b /\ Destination(k) \in 1 .. Built.b
         /\ Built.bs[Destination(k)].h \in Successors(Built.bs[Source(k)].t)
<1>1. ScanInv(Built, Len(code)) /\ Current(Built) /\ Placed(Built, Len(code)) /\ Edges(Built, Len(code))
  BY BuiltFacts DEF ScanInv
<1>2. Has(Built.fwdrefs, Built.fwdrefs[k])
  BY DEF Has
<1>3. PICK x \in 1 .. Built.b : Built.fwdrefs[k] = <<x, code[Built.bs[x].t].l>> /\ Jumping(code[Built.bs[x].t])
  BY <1>1, <1>2 DEF Edges
<1> DEFINE t == Built.bs[x].t
           l == code[t].l
           y == Built.lbl2bb[l]
<1>4. t \in DOMAIN code
  <2>1. Built.bs[x].h \in Nat /\ t \in Nat /\ Built.bs[x].h >= 1 /\ Built.bs[x].h <= t /\ t <= Len(code)
    BY BuiltBlocks
  <2>2. DOMAIN code = 1 .. Len(code) /\ Len(code) \in Nat
    BY DEF Program
  <2> HIDE DEF t
  <2> QED
    BY <2>1, <2>2
<1>5. PICK c \in DOMAIN code : code[c].k = "lbl" /\ code[c].l = l
  BY <1>3, <1>4 DEF Program, Jumping
<1>6. l \in LabelNames
  BY <1>4 DEF LabelNames
<1>7. c \in 1 .. Len(code)
  BY DEF Program
<1>8. y # 0
  BY <1>1, <1>5, <1>7 DEF Placed
<1>9. y \in 1 .. Built.b
  <2>1. y \in 0 .. Built.b
    BY <1>1, <1>6 DEF Placed
  <2>2. Built.b \in Nat
    BY BuiltFacts
  <2> HIDE DEF y
  <2> QED
    BY <1>8, <2>1, <2>2
<1>10. code[Built.bs[y].h].k = "lbl" /\ code[Built.bs[y].h].l = l
  BY <1>1, <1>6, <1>8 DEF Placed
<1>11. Built.bs[y].h \in DOMAIN code
  <2>1. Built.bs[y].h \in Nat /\ Built.bs[y].h >= 1 /\ Built.bs[y].h <= Built.bs[y].t /\ Built.bs[y].t <= Len(code) /\ Built.bs[y].t \in Nat
    BY <1>9, BuiltBlocks
  <2>2. DOMAIN code = 1 .. Len(code) /\ Len(code) \in Nat
    BY DEF Program
  <2> HIDE DEF y
  <2> QED
    BY <2>1, <2>2
<1>12. Built.bs[y].h \in Successors(t)
  BY <1>3, <1>10, <1>11 DEF Successors, Target, Jumping
<1>13. Source(k) = x /\ Destination(k) = y
  BY <1>3 DEF Source, Destination
<1> QED
  BY <1>9, <1>12, <1>13

\* Before any forward reference is resolved.
LEMMA ResolveBase ==
  ASSUME Program
  PROVE  ResolveInv(Built.bs, 0)
<1>1. Current(Built)
  BY BuiltFacts DEF ScanInv
<1>2. \A x, y : ~Added(0, x, y)
  BY DEF Added
<1>3. \A b \in 1 .. Built.b : SameSpan(Built.bs[b], Built.bs[b]) /\ SameSets(Built.bs[b], Built.bs[b])
  BY DEF SameSpan, SameSets
<1> QED
  BY <1>1, <1>2, <1>3, BuiltFacts DEF ResolveInv, Current, Scans

\* One forward reference becomes an edge.
LEMMA ResolveStep ==
  ASSUME Program, NEW n \in DOMAIN Built.fwdrefs, NEW bs, ResolveInv(bs, n - 1),
         NEW r, r = bb_linkbb(bs, Source(n), Destination(n))
  PROVE  ResolveInv(r, n)
<1>1. Source(n) \in DOMAIN bs /\ Destination(n) \in DOMAIN bs
  BY Forward DEF ResolveInv
<1>2. AddsEdge(r, bs, Source(n), Destination(n))
  BY <1>1, LinkEffect DEF ResolveInv
<1>3. n \in Nat /\ n >= 1
  BY BuiltFacts
<1>4. \A k : k \in 1 .. n <=> k \in 1 .. n - 1 \/ k = n
  BY <1>3
<1>5. \A x, y : Added(n, x, y) <=> Added(n - 1, x, y) \/ (x = Source(n) /\ y = Destination(n))
  BY <1>4 DEF Added
<1>6. DOMAIN bs = 1 .. Built.b
  BY DEF ResolveInv
<1>7. \A x \in 1 .. Built.b : \A y : Linked(r, x, y) <=> Linked(Built.bs, x, y) \/ Added(n, x, y)
  BY <1>2, <1>5, <1>6 DEF ResolveInv, AddsEdge
<1>8. \A y \in 1 .. Built.b : \A x : LinkedBack(r, x, y) <=> LinkedBack(Built.bs, x, y) \/ Added(n, x, y)
  BY <1>2, <1>5, <1>6 DEF ResolveInv, AddsEdge
<1>9. \A b \in 1 .. Built.b : SameSpan(r[b], Built.bs[b]) /\ SameSets(r[b], Built.bs[b])
  BY <1>2, <1>6 DEF ResolveInv, AddsEdge, SameSpan, SameSets
<1>10. r \in Seq(Blocks) /\ Len(r) = Built.b /\ DOMAIN r = 1 .. Built.b
  BY <1>2 DEF ResolveInv, AddsEdge
<1> QED
  BY <1>7, <1>8, <1>9, <1>10 DEF ResolveInv

\* All of them have become edges.
LEMMA ResolvedInv ==
  ASSUME Program
  PROVE  ResolveInv(FlowGraph, Len(Built.fwdrefs))
<1> DEFINE N == Len(Built.fwdrefs)
           S == [n \in 0 .. N |-> {s \in Seq(Blocks) : ResolveInv(s, n)}]
           Link(s, n) == bb_linkbb(s, Built.fwdrefs[n][1], Built.lbl2bb[Built.fwdrefs[n][2]])
           step == [n \in 1 .. N |-> [s \in Seq(Blocks) |-> Link(s, n)]]
           Def(f) == f = [n \in 0 .. N |-> IF n = 0 THEN Built.bs ELSE Link(f[n - 1], n)]
           W == CHOOSE f : Def(f)
<1>1. N \in Nat /\ DOMAIN Built.fwdrefs = 1 .. N
  BY BuiltFacts
<1>2. Built.bs \in S[0]
  BY <1>1, ResolveBase DEF ResolveInv
<1>3. \A n \in 1 .. N : n - 1 \in 0 .. N /\ n \in 0 .. N
  BY <1>1
<1>4. ASSUME NEW n \in 1 .. N, NEW s \in S[n - 1]
      PROVE  step[n][s] \in S[n] /\ step[n][s] = Link(s, n)
  <2>1. s \in Seq(Blocks) /\ ResolveInv(s, n - 1)
    BY <1>3
  <2>2. step[n][s] = Link(s, n)
    BY <2>1
  <2>3. ResolveInv(Link(s, n), n)
    BY <1>1, <2>1, ResolveStep DEF Source, Destination
  <2> QED
    BY <1>3, <2>2, <2>3 DEF ResolveInv
<1>5. \E f : Loop(f, N, Built.bs, step, S)
  <2> HIDE DEF S, step, N
  <2> QED
    BY <1>1, <1>2, <1>4, Iterates
<1>6. \E f : Def(f)
  <2>1. PICK f : Loop(f, N, Built.bs, step, S)
    BY <1>5
  <2>2. \A n \in 1 .. N : f[n] = Link(f[n - 1], n)
    <3> HIDE DEF S, step, N, Link
    <3> QED
      BY <1>3, <1>4, <2>1 DEF Loop
  <2>3. f = [n \in 0 .. N |-> f[n]] /\ f[0] = Built.bs
    BY <2>1 DEF Loop
  <2> HIDE DEF Link
  <2>4. \A n \in 0 .. N : f[n] = IF n = 0 THEN Built.bs ELSE Link(f[n - 1], n)
    BY <1>1, <2>2, <2>3
  <2>5. [n \in 0 .. N |-> f[n]] = [n \in 0 .. N |-> IF n = 0 THEN Built.bs ELSE Link(f[n - 1], n)]
    BY <2>4
  <2>6. Def(f)
    BY <2>3, <2>5
  <2> QED
    BY <2>6
<1>7. W = Resolved
  BY DEF Resolved
<1>8. Def(Resolved)
  <2>1. Def(W)
    BY <1>6
  <2> QED
    BY <1>7, <2>1
<1>9. Resolved[0] = Built.bs /\ \A n \in 1 .. N : Resolved[n] = Link(Resolved[n - 1], n)
  <2> HIDE DEF Link
  <2> QED
    BY <1>1, <1>8
<1>10. \A n \in 1 .. N : Resolved[n - 1] \in S[n - 1] => Resolved[n] \in S[n]
  BY <1>4, <1>9
<1>11. \A n \in 0 .. N : Resolved[n] \in S[n]
  <2> HIDE DEF S, N
  <2> QED
    BY <1>1, <1>2, <1>9, <1>10, LoopInvariant
<1>12. N \in 0 .. N
  BY <1>1
<1>13. Resolved[N] \in S[N]
  <2> HIDE DEF S, N
  <2> QED
    BY <1>11, <1>12
<1>14. Resolved[N] = FlowGraph
  BY DEF FlowGraph
<1> QED
  BY <1>12, <1>13, <1>14

\* The flow graph of a complete program.
LEMMA GraphBuilt ==
  ASSUME Program
  PROVE  GraphOK(FlowGraph)
<1> DEFINE G == FlowGraph
           N == Len(Built.fwdrefs)
<1>1. /\ G \in Seq(Blocks) /\ Len(G) = Built.b /\ DOMAIN G = 1 .. Built.b
      /\ \A b \in 1 .. Built.b : SameSpan(G[b], Built.bs[b]) /\ SameSets(G[b], Built.bs[b])
  BY ResolvedInv DEF ResolveInv
<1>2. /\ \A x \in 1 .. Built.b : \A y : Linked(G, x, y) <=> Linked(Built.bs, x, y) \/ Added(N, x, y)
      /\ \A y \in 1 .. Built.b : \A x : LinkedBack(G, x, y) <=> LinkedBack(Built.bs, x, y) \/ Added(N, x, y)
  BY ResolvedInv DEF ResolveInv
<1>3. Edges(Built, Len(code)) /\ Placed(Built, Len(code)) /\ Spans(Built, Len(code))
  BY BuiltFacts DEF ScanInv
<1>4. \A x \in 1 .. Built.b : Over(Built, Len(code), x)
  BY DEF Over
<1> HIDE DEF G
<1>5. Partition(G)
  <2>1. Built.b \in Nat /\ Built.b >= 1 /\ 1 \in 1 .. Built.b /\ Built.b \in 1 .. Built.b
    BY BuiltFacts
  <2>2. \A b \in 1 .. Built.b : G[b].h = Built.bs[b].h /\ G[b].t = Built.bs[b].t /\ G[b].use = Built.bs[b].use /\ G[b].def = Built.bs[b].def
    BY <1>1 DEF SameSpan, SameSets
  <2>3. G[1].h = 1
    BY <1>3, <2>1, <2>2 DEF Spans
  <2>4. ASSUME NEW b \in 1 .. Built.b
        PROVE  /\ G[b].h \in Nat /\ G[b].t \in Nat /\ 1 <= G[b].h /\ G[b].h <= G[b].t /\ G[b].t <= Len(code)
               /\ b = Built.b => G[b].t = Len(code)
               /\ b # Built.b => G[b + 1].h = G[b].t + 1
               /\ SetsOf(G[b], G[b].h, G[b].t) /\ PlainIn(G[b].h, G[b].t, TRUE)
    <3>1. b # Built.b => b + 1 \in 1 .. Built.b
      BY <2>1
    <3>2. SetsOf(G[b], G[b].h, G[b].t)
      BY <2>2, BuiltBlocks DEF SetsOf
    <3>3. PlainIn(G[b].h, G[b].t, TRUE)
      BY <2>2, BuiltBlocks
    <3> QED
      BY <2>2, <3>1, <3>2, <3>3, BuiltBlocks
  <2>41. G[Built.b].t = Len(code)
    BY <2>1, <2>4
  <2>5. G[Len(G)].t = Len(code) /\ Len(G) \in Nat \ {0} /\ DOMAIN G = 1 .. Len(G)
    BY <1>1, <2>1, <2>41
  <2>6. \A b \in DOMAIN G : G[b].h \in Nat /\ G[b].t \in Nat /\ 1 <= G[b].h /\ G[b].h <= G[b].t /\ G[b].t <= Len(code)
    BY <1>1, <2>4
  <2>7. \A b \in DOMAIN G : b # Len(G) => G[b + 1].h = G[b].t + 1
    BY <1>1, <2>4
  <2>8. \A b \in DOMAIN G : SetsOf(G[b], G[b].h, G[b].t) /\ PlainIn(G[b].h, G[b].t, TRUE)
    BY <1>1, <2>4
  <2> QED
    BY <1>1, <2>3, <2>5, <2>6, <2>7, <2>8 DEF Partition
<1>6. ASSUME NEW x \in 1 .. Built.b, NEW y, Linked(G, x, y)
      PROVE  y \in 1 .. Built.b /\ G[y].h \in Successors(G[x].t)
  <2>1. CASE Linked(Built.bs, x, y)
    <3>1. y \in 1 .. Built.b /\ Built.bs[y].h \in Successors(Built.bs[x].t)
      BY <1>3, <2>1 DEF Edges
    <3> QED
      BY <1>1, <3>1 DEF SameSpan
  <2>2. CASE Added(N, x, y)
    <3>1. PICK k \in 1 .. N : Source(k) = x /\ Destination(k) = y
      BY <2>2 DEF Added
    <3>2. y \in 1 .. Built.b /\ Built.bs[y].h \in Successors(Built.bs[x].t)
      BY <3>1, Forward, BuiltFacts
    <3> QED
      BY <1>1, <3>2 DEF SameSpan
  <2> QED
    BY <1>2, <1>6, <2>1, <2>2
<1>7. ASSUME NEW y \in 1 .. Built.b, NEW x, LinkedBack(G, x, y)
      PROVE  x \in 1 .. Built.b
  <2>1. CASE LinkedBack(Built.bs, x, y)
    BY <1>3, <2>1 DEF Edges
  <2>2. CASE Added(N, x, y)
    BY <2>2, Forward, BuiltFacts DEF Added
  <2> QED
    BY <1>2, <1>7, <2>1, <2>2
<1>8. \A x, y \in 1 .. Built.b : Linked(G, x, y) <=> LinkedBack(G, x, y)
  BY <1>2, <1>3 DEF Edges
<1>9. ASSUME NEW x \in 1 .. Built.b, NEW c \in Successors(G[x].t)
      PROVE  \E y \in 1 .. Built.b : Linked(G, x, y) /\ G[y].h = c
  <2>1. c \in Successors(Built.bs[x].t)
    BY <1>1 DEF SameSpan
  <2>2. CASE Reaches(Built, x, c)
    <3>1. PICK y \in 1 .. Built.b : Linked(Built.bs, x, y) /\ Built.bs[y].h = c
      BY <2>2 DEF Reaches
    <3> QED
      BY <1>1, <1>2, <3>1 DEF SameSpan
  <2>3. CASE Awaits(Built, x, c)
    <3>1. c \in DOMAIN code /\ code[c].k = "lbl" /\ Has(Built.fwdrefs, <<x, code[c].l>>)
      BY <2>3 DEF Awaits
    <3>2. PICK k \in DOMAIN Built.fwdrefs : Built.fwdrefs[k] = <<x, code[c].l>>
      BY <3>1 DEF Has
    <3> DEFINE y == Built.lbl2bb[code[c].l]
    <3>3. Source(k) = x /\ Destination(k) = y
      BY <3>2 DEF Source, Destination
    <3> HIDE DEF y
    <3>4. y \in 1 .. Built.b
      BY <3>3, Forward
    <3>5. code[c].l \in LabelNames /\ y # 0
      BY <3>1, <3>4 DEF LabelNames
    <3>6. Built.bs[y].h <= Len(code) /\ code[Built.bs[y].h].k = "lbl" /\ code[Built.bs[y].h].l = code[c].l
      BY <1>3, <3>5 DEF Placed, y
    <3>7. Built.bs[y].h \in DOMAIN code
      <4>1. Built.bs[y].h \in Nat /\ Built.bs[y].h >= 1
        BY <3>4, BuiltBlocks
      <4> QED
        BY <3>6, <4>1 DEF Program
    <3>8. Built.bs[y].h = c
      BY <3>1, <3>6, <3>7 DEF Program
    <3>9. Added(N, x, y)
      BY <3>3, BuiltFacts DEF Added
    <3> QED
      BY <1>1, <1>2, <3>4, <3>8, <3>9 DEF SameSpan
  <2> QED
    BY <1>3, <1>4, <2>1, <2>2, <2>3 DEF Edges
<1>10. Faithful(G)
  BY <1>1, <1>6, <1>7, <1>8, <1>9 DEF Faithful
<1> QED
  BY <1>5, <1>10 DEF GraphOK, G

-----------------------------------------------------------------------------
(* Blocks and what is alive.                                               *)

\* A block of a partition is a range of instructions.
LEMMA BlockFacts ==
  ASSUME NEW G, Partition(G), Program, NEW b \in DOMAIN G
  PROVE  /\ G[b].h \in Nat /\ G[b].t \in Nat /\ 1 <= G[b].h /\ G[b].h <= G[b].t /\ G[b].t <= Len(code)
         /\ Len(code) \in Nat /\ DOMAIN code = 1 .. Len(code) /\ b \in Nat /\ 1 <= b /\ b <= Len(G)
         /\ G[b].h \in DOMAIN code /\ G[b].t \in DOMAIN code
         /\ Len(G) \in Nat \ {0} /\ DOMAIN G = 1 .. Len(G)
<1>1. /\ G[b].h \in Nat /\ G[b].t \in Nat /\ 1 <= G[b].h /\ G[b].h <= G[b].t /\ G[b].t <= Len(code)
      /\ Len(G) \in Nat \ {0} /\ DOMAIN G = 1 .. Len(G)
  BY DEF Partition
<1>2. Len(code) \in Nat /\ DOMAIN code = 1 .. Len(code)
  BY DEF Program
<1> QED
  BY <1>1, <1>2

\* Blocks follow one another.
LEMMA BlocksOrdered ==
  ASSUME NEW G, Partition(G), Program
  PROVE  \A a, b \in DOMAIN G : a < b => G[a].t < G[b].h
<1> DEFINE Later(n) == \A b \in DOMAIN G : b + n + 1 \in DOMAIN G => G[b].t < G[b + n + 1].h
           S == {n \in Nat : Later(n)}
<1>1. \A b \in DOMAIN G : /\ G[b].h \in Nat /\ G[b].t \in Nat /\ G[b].h <= G[b].t
                          /\ (b # Len(G) => G[b + 1].h = G[b].t + 1)
  BY DEF Partition
<1>2. Len(G) \in Nat /\ DOMAIN G = 1 .. Len(G)
  BY DEF Partition
<1>3. 0 \in S
  BY <1>1, <1>2
<1>4. ASSUME NEW n \in Nat, n \in S
      PROVE  n + 1 \in S
  <2>1. ASSUME NEW b \in DOMAIN G, b + (n + 1) + 1 \in DOMAIN G
        PROVE  G[b].t < G[b + (n + 1) + 1].h
    <3>1. b + n + 1 \in DOMAIN G /\ b + n + 1 # Len(G) /\ (b + n + 1) + 1 = b + (n + 1) + 1
      BY <1>2, <2>1
    <3>2. G[b].t < G[b + n + 1].h
      BY <1>4, <3>1
    <3>3. G[(b + n + 1) + 1].h = G[b + n + 1].t + 1 /\ G[b + n + 1].h \in Nat /\ G[b + n + 1].t \in Nat
          /\ G[b + n + 1].h <= G[b + n + 1].t
      BY <1>1, <3>1
    <3> QED
      BY <1>1, <3>1, <3>2, <3>3
  <2> QED
    BY <2>1
<1> HIDE DEF S
<1>5. \A n \in Nat : n \in S
  BY <1>3, <1>4, Induction
<1> USE DEF S
<1>6. ASSUME NEW a \in DOMAIN G, NEW b \in DOMAIN G, a < b
      PROVE  G[a].t < G[b].h
  <2>1. b - a - 1 \in Nat /\ a + (b - a - 1) + 1 = b
    BY <1>2, <1>6
  <2>2. Later(b - a - 1)
    BY <1>5, <2>1
  <2> QED
    BY <2>1, <2>2
<1> QED
  BY <1>6

\* No instruction is in two blocks.
LEMMA BlocksApart ==
  ASSUME NEW G, Partition(G), Program, NEW a \in DOMAIN G, NEW b \in DOMAIN G, NEW cp,
         cp \in G[a].h .. G[a].t, cp \in G[b].h .. G[b].t
  PROVE  a = b
<1>1. /\ G[a].h \in Nat /\ G[a].t \in Nat /\ a \in Nat
      /\ G[b].h \in Nat /\ G[b].t \in Nat /\ b \in Nat
  BY BlockFacts
<1>2. ~(a < b) /\ ~(b < a)
  BY <1>1, BlocksOrdered
<1> QED
  BY <1>1, <1>2

\* Every instruction is in a block.
LEMMA BlocksCover ==
  ASSUME NEW G, Partition(G), Program
  PROVE  \A cp \in DOMAIN code : \E b \in DOMAIN G : cp \in G[b].h .. G[b].t
<1> DEFINE S == {n \in Nat : n + 1 \in DOMAIN code => \E b \in DOMAIN G : n + 1 \in G[b].h .. G[b].t}
<1>1. Len(code) \in Nat /\ DOMAIN code = 1 .. Len(code)
  BY DEF Program
<1>2. \A b \in DOMAIN G : /\ G[b].h \in Nat /\ G[b].t \in Nat /\ G[b].h <= G[b].t
                          /\ (b # Len(G) => G[b + 1].h = G[b].t + 1)
  BY DEF Partition
<1>3. Len(G) \in Nat \ {0} /\ DOMAIN G = 1 .. Len(G) /\ G[1].h = 1 /\ G[Len(G)].t = Len(code)
  BY DEF Partition
<1>4. 0 \in S
  BY <1>2, <1>3
<1>5. ASSUME NEW n \in Nat, n \in S
      PROVE  n + 1 \in S
  <2>1. SUFFICES ASSUME n + 1 + 1 \in DOMAIN code
                 PROVE  \E b \in DOMAIN G : n + 1 + 1 \in G[b].h .. G[b].t
    OBVIOUS
  <2>2. PICK b \in DOMAIN G : n + 1 \in G[b].h .. G[b].t
    BY <1>1, <1>5, <2>1
  <2>3. CASE n + 1 < G[b].t
    BY <1>2, <2>2, <2>3
  <2>4. CASE n + 1 = G[b].t
    <3>1. b # Len(G)
      BY <1>1, <1>3, <2>1, <2>4
    <3>2. b + 1 \in DOMAIN G /\ G[b + 1].h = n + 1 + 1
      BY <1>2, <1>3, <2>4, <3>1
    <3>3. n + 1 + 1 \in G[b + 1].h .. G[b + 1].t
      BY <1>2, <3>2
    <3> QED
      BY <3>2, <3>3
  <2> QED
    BY <1>2, <2>2, <2>3, <2>4
<1> HIDE DEF S
<1>6. \A n \in Nat : n \in S
  BY <1>4, <1>5, Induction
<1> USE DEF S
<1>7. ASSUME NEW cp \in DOMAIN code
      PROVE  \E b \in DOMAIN G : cp \in G[b].h .. G[b].t
  <2>1. cp - 1 \in Nat /\ (cp - 1) + 1 = cp
    BY <1>1
  <2>2. cp - 1 \in S
    BY <1>6, <2>1
  <2> QED
    BY <2>1, <2>2
<1> QED
  BY <1>7

\* Inside a block control falls from one instruction to the next.
LEMMA FallsThrough ==
  ASSUME Program, NEW h \in Nat, NEW t \in Nat, h >= 1, t <= Len(code), PlainIn(h, t, TRUE), NEW cp \in h .. t, cp # t
  PROVE  Successors(cp) = {cp + 1}
<1>1. cp \in DOMAIN code
  BY DEF Program
<1>2. code[cp].k \notin {"br", "jmp", "ret"}
  BY DEF PlainIn
<1> QED
  BY <1>2 DEF Successors, Target

\* A local that is alive somewhere in a block, and not assigned before, is alive
\* at its head.
LEMMA AliveBack ==
  ASSUME Program, NEW v, NEW h \in Nat, NEW t \in Nat, h >= 1, t <= Len(code), PlainIn(h, t, TRUE),
         NEW j \in h .. t, j \in LiveBefore(v), \A i \in h .. j - 1 : v \notin code[i].d
  PROVE  h \in LiveBefore(v)
<1> DEFINE S == {n \in Nat : j - n >= h => j - n \in LiveBefore(v)}
<1>1. Len(code) \in Nat /\ DOMAIN code = 1 .. Len(code) /\ j \in Nat /\ j <= Len(code)
  BY DEF Program
<1>2. 0 \in S
  BY <1>1
<1>3. ASSUME NEW n \in Nat, n \in S
      PROVE  n + 1 \in S
  <2>1. SUFFICES ASSUME j - (n + 1) >= h
                 PROVE  j - (n + 1) \in LiveBefore(v)
    OBVIOUS
  <2>2. j - n \in LiveBefore(v)
    BY <1>1, <1>3, <2>1
  <2>3. /\ j - (n + 1) \in h .. t /\ j - (n + 1) # t /\ (j - (n + 1)) + 1 = j - n /\ j - (n + 1) \in h .. j - 1
        /\ j - (n + 1) \in DOMAIN code
    BY <1>1, <2>1
  <2>4. Successors(j - (n + 1)) = {j - n}
    <3> DEFINE i == j - (n + 1)
    <3>1. i \in h .. t /\ i # t /\ i + 1 = j - n
      BY <2>3
    <3> HIDE DEF i
    <3>2. Successors(i) = {i + 1}
      BY <3>1, FallsThrough, Zenon
    <3> QED
      BY <3>1, <3>2, Zenon DEF i
  <2>5. v \notin code[j - (n + 1)].d
    BY <2>3
  <2> QED
    BY <1>1, <2>2, <2>3, <2>4, <2>5, LiveUnfold
<1> HIDE DEF S
<1>4. \A n \in Nat : n \in S
  BY <1>2, <1>3, Induction
<1> USE DEF S
<1>5. j - h \in Nat /\ j - (j - h) = h
  BY <1>1
<1>6. j - h \in S
  BY <1>4, <1>5
<1> QED
  BY <1>5, <1>6

\* A local that a range reads before assigning it is alive at its start.
LEMMA UseInAlive ==
  ASSUME Program, NEW v, NEW h \in Nat, NEW t \in Nat, h >= 1, t <= Len(code), PlainIn(h, t, TRUE), UseIn(v, h, t)
  PROVE  h \in LiveBefore(v)
<1>1. PICK j \in h .. t : v \in code[j].u /\ \A i \in h .. j - 1 : v \notin code[i].d
  BY DEF UseIn
<1>2. Len(code) \in Nat /\ DOMAIN code = 1 .. Len(code)
  BY DEF Program
<1>3. j \in DOMAIN code
  BY <1>2
<1>4. j \in LiveBefore(v)
  BY <1>1, <1>2, <1>3, LiveUnfold
<1> QED
  BY <1>1, <1>4, AliveBack

\* So is one that is alive after a range that does not assign it.
LEMMA PassAlive ==
  ASSUME Program, NEW v, NEW h \in Nat, NEW t \in Nat, h >= 1, h <= t, t <= Len(code), PlainIn(h, t, TRUE),
         Successors(t) \cap LiveBefore(v) # {}, \A i \in h .. t : v \notin code[i].d
  PROVE  h \in LiveBefore(v)
<1>1. Len(code) \in Nat /\ DOMAIN code = 1 .. Len(code) /\ t \in DOMAIN code /\ t \in h .. t
  BY DEF Program
<1>2. t \in LiveBefore(v)
  BY <1>1, LiveUnfold
<1>3. \A i \in h .. t - 1 : i \in h .. t
  OBVIOUS
<1> QED
  BY <1>1, <1>2, <1>3, AliveBack

\* What the sets of a block add to what is alive after it.
LEMMA AliveAtHead ==
  ASSUME Program, NEW G, Partition(G), NEW b \in DOMAIN G, NEW v \in Vars,
         v \in G[b].use \/ (v \notin G[b].def /\ Successors(G[b].t) \cap LiveBefore(v) # {})
  PROVE  G[b].h \in LiveBefore(v)
<1> DEFINE h == G[b].h
           t == G[b].t
<1>1. h \in Nat /\ t \in Nat /\ h >= 1 /\ h <= t /\ t <= Len(code)
  BY BlockFacts
<1>2. PlainIn(h, t, TRUE)
  BY DEF Partition
<1>3. (v \in G[b].use <=> UseIn(v, h, t)) /\ (v \in G[b].def <=> DefIn(v, h, t))
  BY DEF Partition, SetsOf
<1> HIDE DEF h, t
<1>4. CASE UseIn(v, h, t)
  BY <1>1, <1>2, <1>4, UseInAlive DEF h
<1>5. CASE ~UseIn(v, h, t)
  <2>1. \A i \in h .. t : v \notin code[i].d
    BY <1>3, <1>5 DEF DefIn
  <2>2. Successors(t) \cap LiveBefore(v) # {}
    BY <1>3, <1>5 DEF t
  <2> QED
    BY <1>1, <1>2, <2>1, <2>2, PassAlive DEF h
<1> QED
  BY <1>4, <1>5

-----------------------------------------------------------------------------
(* The equations of live variables.                                        *)

\* What is known of the sets at the ends of the blocks: nothing is in them
\* that is not alive there.
OnlyAlive(G, in, out) ==
  /\ in \in [DOMAIN G -> SUBSET Vars] /\ out \in [DOMAIN G -> SUBSET Vars]
  /\ \A b \in DOMAIN G : /\ \A v \in in[b] : G[b].h \in LiveBefore(v)
                         /\ \A v \in out[b] : Successors(G[b].t) \cap LiveBefore(v) # {}

\* The equations of live variables hold.
Solved(G, in, out) ==
  \A b \in DOMAIN G : /\ in[b] = (out[b] \ G[b].def) \cup G[b].use
                      /\ \A s : Linked(G, b, s) => in[s] \subseteq out[b]

AllAlive(G, in, out) ==
  \A b \in DOMAIN G : /\ in[b] = {v \in Vars : G[b].h \in LiveBefore(v)}
                      /\ out[b] = {v \in Vars : Successors(G[b].t) \cap LiveBefore(v) # {}}

\* Alive at cp as far as block b and what is alive after it tell.
AliveIn(G, out, v, b, cp) == UseIn(v, cp, G[b].t) \/ (v \in out[b] /\ \A j \in cp .. G[b].t : v \notin code[j].d)
Told(G, out, v) == {cp \in DOMAIN code : \E b \in DOMAIN G : cp \in G[b].h .. G[b].t /\ AliveIn(G, out, v, b, cp)}

\* What the sets tell of the head of a block is its `in'.
LEMMA ToldAtHead ==
  ASSUME Program, NEW G, GraphOK(G), NEW in, NEW out, Solved(G, in, out), NEW v \in Vars,
         NEW y \in DOMAIN G, G[y].h \in Told(G, out, v)
  PROVE  v \in in[y]
<1>1. Partition(G)
  BY DEF GraphOK
<1>2. PICK b \in DOMAIN G : G[y].h \in G[b].h .. G[b].t /\ AliveIn(G, out, v, b, G[y].h)
  BY DEF Told
<1>3. G[y].h \in G[y].h .. G[y].t
  BY <1>1, BlockFacts
<1>4. b = y
  BY <1>1, <1>2, <1>3, BlocksApart
<1>5. (v \in G[y].use <=> UseIn(v, G[y].h, G[y].t)) /\ (v \in G[y].def <=> DefIn(v, G[y].h, G[y].t))
  BY <1>1 DEF Partition, SetsOf
<1>6. in[y] = (out[y] \ G[y].def) \cup G[y].use
  BY DEF Solved
<1> QED
  BY <1>2, <1>4, <1>5, <1>6 DEF AliveIn, DefIn

\* What they tell is closed under going backwards,
LEMMA ToldPasses ==
  ASSUME Program, NEW G, GraphOK(G), NEW in, NEW out, Solved(G, in, out), NEW v \in Vars,
         NEW cp \in DOMAIN code, v \notin code[cp].d, NEW c \in Successors(cp), c \in Told(G, out, v)
  PROVE  cp \in Told(G, out, v)
<1>1. Partition(G) /\ Faithful(G)
  BY DEF GraphOK
<1>2. PICK b \in DOMAIN G : cp \in G[b].h .. G[b].t
  BY <1>1, BlocksCover
<1>3. /\ G[b].h \in Nat /\ G[b].t \in Nat /\ 1 <= G[b].h /\ G[b].h <= G[b].t /\ G[b].t <= Len(code)
      /\ Len(code) \in Nat /\ DOMAIN code = 1 .. Len(code)
  BY <1>1, BlockFacts
<1>4. PlainIn(G[b].h, G[b].t, TRUE)
  BY <1>1 DEF Partition
<1>5. CASE cp = G[b].t
  <2>1. PICK y \in DOMAIN G : Linked(G, b, y) /\ G[y].h = c
    BY <1>1, <1>5 DEF Faithful
  <2>2. v \in in[y]
    BY <2>1, ToldAtHead
  <2>3. v \in out[b]
    BY <2>1, <2>2 DEF Solved
  <2>4. \A j \in cp .. G[b].t : v \notin code[j].d
    BY <1>3, <1>5
  <2> QED
    BY <1>2, <2>3, <2>4 DEF Told, AliveIn
<1>6. CASE cp # G[b].t
  <2>1. c = cp + 1
    <3>1. Successors(cp) = {cp + 1}
      BY <1>2, <1>3, <1>4, <1>6, FallsThrough
    <3> QED
      BY <3>1
  <2>2. cp \in Nat /\ c \in G[b].h .. G[b].t /\ cp < G[b].t
    BY <1>2, <1>3, <1>6, <2>1
  <2>3. PICK a \in DOMAIN G : c \in G[a].h .. G[a].t /\ AliveIn(G, out, v, a, c)
    BY DEF Told
  <2>4. a = b
    BY <1>1, <2>2, <2>3, BlocksApart
  <2>5. \A j \in cp .. G[b].t : j = cp \/ j \in c .. G[b].t
    BY <1>3, <2>1, <2>2
  <2>6. CASE UseIn(v, c, G[b].t)
    <3>1. PICK j \in c .. G[b].t : v \in code[j].u /\ \A i \in c .. j - 1 : v \notin code[i].d
      BY <2>6 DEF UseIn
    <3>2. j \in cp .. G[b].t /\ \A i \in cp .. j - 1 : i = cp \/ i \in c .. j - 1
      BY <1>3, <2>1, <2>2, <3>1
    <3>3. UseIn(v, cp, G[b].t)
      BY <3>1, <3>2 DEF UseIn
    <3> QED
      BY <1>2, <3>3 DEF Told, AliveIn
  <2>7. CASE v \in out[b] /\ \A j \in c .. G[b].t : v \notin code[j].d
    <3>1. \A j \in cp .. G[b].t : v \notin code[j].d
      BY <2>5, <2>7
    <3> QED
      BY <1>2, <2>7, <3>1 DEF Told, AliveIn
  <2> QED
    BY <2>3, <2>4, <2>6, <2>7 DEF AliveIn
<1> QED
  BY <1>5, <1>6

\* and holds every instruction that reads the local.
LEMMA ToldClosed ==
  ASSUME Program, NEW G, GraphOK(G), NEW in, NEW out, Solved(G, in, out), NEW v \in Vars
  PROVE  Closed(v, Told(G, out, v))
<1>1. ASSUME NEW cp \in DOMAIN code, v \in code[cp].u
      PROVE  cp \in Told(G, out, v)
  <2>1. PICK b \in DOMAIN G : cp \in G[b].h .. G[b].t
    BY BlocksCover DEF GraphOK
  <2>2. /\ G[b].h \in Nat /\ G[b].t \in Nat
    BY BlockFacts DEF GraphOK
  <2>3. cp \in cp .. G[b].t /\ \A i \in cp .. cp - 1 : v \notin code[i].d
    BY <2>1, <2>2
  <2>4. UseIn(v, cp, G[b].t)
    BY <1>1, <2>3 DEF UseIn
  <2> QED
    BY <2>1, <2>4 DEF Told, AliveIn
<1>2. ASSUME NEW cp \in DOMAIN code, v \notin code[cp].d, Successors(cp) \cap Told(G, out, v) # {}
      PROVE  cp \in Told(G, out, v)
  <2>1. PICK c \in Successors(cp) : c \in Told(G, out, v)
    BY <1>2
  <2> QED
    BY <1>2, <2>1, ToldPasses
<1> QED
  BY <1>1, <1>2 DEF Closed, Reads, Passes

\* A solution that holds nothing but what is alive holds all of it.
LEMMA SolutionExact ==
  ASSUME Program, NEW G, GraphOK(G), NEW in, NEW out, Solved(G, in, out), OnlyAlive(G, in, out)
  PROVE  AllAlive(G, in, out)
<1>1. Len(code) \in Nat /\ DOMAIN code = 1 .. Len(code)
  BY DEF Program
<1>2. \A v \in Vars : LiveBefore(v) \subseteq Told(G, out, v)
  <2> SUFFICES ASSUME NEW v \in Vars PROVE LiveBefore(v) \subseteq Told(G, out, v)
    OBVIOUS
  <2>1. Told(G, out, v) \in SUBSET DOMAIN code
    BY DEF Told
  <2> QED
    BY <1>1, <2>1, ToldClosed, LiveLeast
<1>3. ASSUME NEW b \in DOMAIN G
      PROVE  in[b] = {v \in Vars : G[b].h \in LiveBefore(v)}
  <2>1. \A v \in Vars : G[b].h \in LiveBefore(v) => v \in in[b]
    BY <1>2, ToldAtHead
  <2>2. in[b] \subseteq Vars /\ \A v \in in[b] : G[b].h \in LiveBefore(v)
    BY DEF OnlyAlive
  <2> QED
    BY <2>1, <2>2
<1>4. ASSUME NEW b \in DOMAIN G
      PROVE  out[b] = {v \in Vars : Successors(G[b].t) \cap LiveBefore(v) # {}}
  <2>1. ASSUME NEW v \in Vars, Successors(G[b].t) \cap LiveBefore(v) # {}
        PROVE  v \in out[b]
    <3>1. PICK c \in Successors(G[b].t) : c \in LiveBefore(v)
      BY <2>1
    <3>2. PICK y \in DOMAIN G : Linked(G, b, y) /\ G[y].h = c
      BY DEF GraphOK, Faithful
    <3>3. v \in in[y]
      BY <1>3, <3>1, <3>2
    <3> QED
      BY <3>2, <3>3 DEF Solved
  <2>2. out[b] \subseteq Vars /\ \A v \in out[b] : Successors(G[b].t) \cap LiveBefore(v) # {}
    BY DEF OnlyAlive
  <2> QED
    BY <2>1, <2>2
<1> QED
  BY <1>3, <1>4 DEF AllAlive

-----------------------------------------------------------------------------
(* Counting updates.                                                       *)

\* x is the sum of the counts u[1] to u[N].
Total(N, u, x) ==
  \E f \in [0 .. N -> Int] : f[0] = 0 /\ (\A k \in 1 .. N : f[k] = f[k - 1] + u[k]) /\ f[N] = x

\* The sum of no updates.
LEMMA TotalNothing ==
  ASSUME NEW N \in Nat
  PROVE  Total(N, [b \in 1 .. N |-> 0], 0)
<1> DEFINE f == [k \in 0 .. N |-> 0]
<1>1. f \in [0 .. N -> Int] /\ f[0] = 0 /\ f[N] = 0
  OBVIOUS
<1>2. \A k \in 1 .. N : f[k] = f[k - 1] + [b \in 1 .. N |-> 0][k]
  OBVIOUS
<1> HIDE DEF f
<1> QED
  BY <1>1, <1>2 DEF Total

\* A count set to zero is taken off the sum.
LEMMA TotalReset ==
  ASSUME NEW N \in Nat, NEW u \in [1 .. N -> Nat], NEW x, Total(N, u, x), NEW b \in 1 .. N
  PROVE  Total(N, [u EXCEPT ![b] = 0], x - u[b])
<1>1. PICK f \in [0 .. N -> Int] : f[0] = 0 /\ (\A k \in 1 .. N : f[k] = f[k - 1] + u[k]) /\ f[N] = x
  BY DEF Total
<1> DEFINE g == [k \in 0 .. N |-> IF k < b THEN f[k] ELSE f[k] - u[b]]
           w == [u EXCEPT ![b] = 0]
<1>2. g \in [0 .. N -> Int] /\ g[0] = 0 /\ g[N] = x - u[b]
  BY <1>1
<1>3. ASSUME NEW k \in 1 .. N
      PROVE  g[k] = g[k - 1] + w[k]
  <2>1. k \in 0 .. N /\ k - 1 \in 0 .. N /\ f[k] \in Int /\ f[k - 1] \in Int /\ u[k] \in Nat /\ u[b] \in Nat
    OBVIOUS
  <2>2. g[k] = (IF k < b THEN f[k] ELSE f[k] - u[b]) /\ g[k - 1] = IF k - 1 < b THEN f[k - 1] ELSE f[k - 1] - u[b]
    BY <2>1
  <2>3. w[k] = IF k = b THEN 0 ELSE u[k]
    OBVIOUS
  <2>4. f[k] = f[k - 1] + u[k]
    BY <1>1
  <2> HIDE DEF g, w
  <2>5. CASE k < b
    BY <2>1, <2>2, <2>3, <2>4, <2>5
  <2>6. CASE k = b
    BY <2>1, <2>2, <2>3, <2>4, <2>6
  <2>7. CASE k > b
    BY <2>1, <2>2, <2>3, <2>4, <2>7
  <2> QED
    BY <2>5, <2>6, <2>7
<1> HIDE DEF g, w
<1>4. Total(N, w, x - u[b])
  BY <1>2, <1>3 DEF Total
<1> QED
  BY <1>4 DEF w

Times(q, p) == {k \in DOMAIN q : q[k] = p}
UpTo(q, n) == {k \in DOMAIN q : q[k] <= n}

\* Positions of a sequence can be counted.
LEMMA TimesFinite ==
  ASSUME NEW N \in Nat, NEW q \in Seq(1 .. N), NEW T \in SUBSET DOMAIN q
  PROVE  IsFiniteSet(T) /\ Cardinality(T) \in Nat
<1>1. Len(q) \in Nat /\ DOMAIN q = 1 .. Len(q)
  OBVIOUS
<1>2. IsFiniteSet(DOMAIN q)
  BY <1>1, FS_Interval
<1> QED
  BY <1>2, FS_Subset, FS_CardinalityType

\* One update for each element of a sequence adds its length to the sum.
LEMMA TotalNotify ==
  ASSUME NEW N \in Nat, NEW u \in [1 .. N -> Nat], NEW x, Total(N, u, x), NEW q \in Seq(1 .. N),
         NEW w, \A p \in 1 .. N : w[p] = u[p] + Cardinality(Times(q, p))
  PROVE  Total(N, w, x + Len(q))
<1>1. PICK f \in [0 .. N -> Int] : f[0] = 0 /\ (\A k \in 1 .. N : f[k] = f[k - 1] + u[k]) /\ f[N] = x
  BY DEF Total
<1> DEFINE g == [k \in 0 .. N |-> f[k] + Cardinality(UpTo(q, k))]
<1>2. \A k \in 0 .. N : UpTo(q, k) \in SUBSET DOMAIN q /\ IsFiniteSet(UpTo(q, k)) /\ Cardinality(UpTo(q, k)) \in Nat
  BY TimesFinite DEF UpTo
<1>3. \A k \in 1 .. N : Times(q, k) \in SUBSET DOMAIN q /\ IsFiniteSet(Times(q, k)) /\ Cardinality(Times(q, k)) \in Nat
  BY TimesFinite DEF Times
<1>4. Len(q) \in Nat /\ DOMAIN q = 1 .. Len(q) /\ \A k \in DOMAIN q : q[k] \in 1 .. N
  <2>1. Len(q) \in Nat /\ DOMAIN q = 1 .. Len(q)
    OBVIOUS
  <2>2. \A k \in DOMAIN q : q[k] \in 1 .. N
    OBVIOUS
  <2> QED
    BY <2>1, <2>2
<1>5. UpTo(q, 0) = {} /\ UpTo(q, N) = 1 .. Len(q)
  BY <1>4 DEF UpTo
<1>6. g \in [0 .. N -> Int]
  BY <1>1, <1>2
<1>7. g[0] = 0
  <2>1. g[0] = f[0] + Cardinality(UpTo(q, 0))
    OBVIOUS
  <2>2. Cardinality({}) = 0
    BY FS_EmptySet
  <2>3. Cardinality(UpTo(q, 0)) = 0
    BY <1>5, <2>2
  <2> HIDE DEF g
  <2> QED
    BY <1>1, <2>1, <2>3
<1>8. g[N] = x + Len(q)
  <2>1. g[N] = f[N] + Cardinality(UpTo(q, N))
    OBVIOUS
  <2>2. Cardinality(1 .. Len(q)) = Len(q)
    <3>1. Cardinality(1 .. Len(q)) = IF 1 > Len(q) THEN 0 ELSE Len(q) - 1 + 1
      <4>1. 1 \in Int /\ Len(q) \in Int
        BY <1>4
      <4> HIDE DEF g
      <4> QED
        BY ONLY <4>1, FS_Interval
    <3> HIDE DEF g
    <3> QED
      BY <1>4, <3>1
  <2> QED
    BY <1>1, <1>5, <2>1, <2>2
<1>9. ASSUME NEW k \in 1 .. N
      PROVE  g[k] = g[k - 1] + w[k]
  <2>1. k \in 0 .. N /\ k - 1 \in 0 .. N /\ f[k] \in Int /\ f[k - 1] \in Int /\ u[k] \in Nat
    OBVIOUS
  <2>2. UpTo(q, k) = UpTo(q, k - 1) \cup Times(q, k) /\ UpTo(q, k - 1) \cap Times(q, k) = {}
    BY <1>4, <2>1 DEF UpTo, Times
  <2>3. Cardinality(UpTo(q, k)) = Cardinality(UpTo(q, k - 1)) + Cardinality(Times(q, k))
    <3>1. Cardinality({}) = 0
      BY FS_EmptySet
    <3>2. Cardinality(UpTo(q, k - 1) \cup Times(q, k)) =
            Cardinality(UpTo(q, k - 1)) + Cardinality(Times(q, k)) - Cardinality(UpTo(q, k - 1) \cap Times(q, k))
      BY <1>2, <1>3, <2>1, FS_Union
    <3>3. Cardinality(UpTo(q, k - 1)) \in Nat /\ Cardinality(Times(q, k)) \in Nat
      BY <1>2, <1>3, <2>1
    <3>4. Cardinality(UpTo(q, k - 1) \cup Times(q, k)) = Cardinality(UpTo(q, k - 1)) + Cardinality(Times(q, k)) - 0
      BY <2>2, <3>1, <3>2
    <3> QED
      BY <2>2, <3>3, <3>4
  <2>4. g[k] = f[k] + Cardinality(UpTo(q, k)) /\ g[k - 1] = f[k - 1] + Cardinality(UpTo(q, k - 1))
    BY <2>1
  <2>5. w[k] = u[k] + Cardinality(Times(q, k)) /\ f[k] = f[k - 1] + u[k]
    BY <1>1
  <2> HIDE DEF g
  <2> QED
    BY <1>2, <1>3, <2>1, <2>3, <2>4, <2>5
<1> HIDE DEF g
<1> QED
  BY <1>6, <1>7, <1>8, <1>9 DEF Total

\* No outstanding update is left when the sum is not positive.
LEMMA TotalZero ==
  ASSUME NEW N \in Nat, NEW u \in [1 .. N -> Nat], NEW x \in Int, Total(N, u, x), ~(x > 0), NEW b \in 1 .. N
  PROVE  u[b] = 0
<1>1. PICK f \in [0 .. N -> Int] : f[0] = 0 /\ (\A k \in 1 .. N : f[k] = f[k - 1] + u[k]) /\ f[N] = x
  BY DEF Total
<1> DEFINE S == [n \in 0 .. N |-> {y \in Int : y >= 0 /\ (n >= b => y >= u[b])}]
<1>2. f[0] \in S[0]
  BY <1>1
<1>3. ASSUME NEW n \in 1 .. N, f[n - 1] \in S[n - 1]
      PROVE  f[n] \in S[n]
  <2>1. n \in 0 .. N /\ n - 1 \in 0 .. N /\ f[n] \in Int /\ f[n - 1] \in Int /\ u[n] \in Nat /\ u[b] \in Nat /\ f[n] = f[n - 1] + u[n]
    BY <1>1
  <2>2. f[n - 1] >= 0 /\ (n - 1 >= b => f[n - 1] >= u[b])
    BY <1>3, <2>1
  <2>3. f[n] >= 0 /\ (n >= b => f[n] >= u[b])
    <3> HIDE DEF S
    <3>1. CASE n = b
      BY <2>1, <2>2, <3>1
    <3>2. CASE n # b
      <4>1. n >= b => n - 1 >= b
        BY <3>2
      <4> QED
        BY <2>1, <2>2, <4>1
    <3> QED
      BY <3>1, <3>2
  <2> QED
    BY <2>1, <2>3
<1>4. \A n \in 0 .. N : f[n] \in S[n]
  <2> HIDE DEF S
  <2> QED
    BY <1>2, <1>3, LoopInvariant
<1>5. f[N] \in S[N]
  <2>1. N \in 0 .. N
    OBVIOUS
  <2> HIDE DEF S
  <2> QED
    BY <1>4, <2>1
<1>6. f[N] >= u[b] /\ u[b] \in Nat
  BY <1>5
<1> QED
  BY <1>1, <1>6

-----------------------------------------------------------------------------
(* Relaxation.                                                             *)

LvTypes ==
  [in : [DOMAIN bb -> SUBSET Vars], out : [DOMAIN bb -> SUBSET Vars], seen : SUBSET DOMAIN bb,
   updates : [DOMAIN bb -> Nat], iupdates : Int, b : 0 .. Len(bb)]

OutOf(l, b) == l.out[b] \cup UNION {l.in[bb[b].n[k]] : k \in DOMAIN bb[b].n}
InOf(l, b) == (OutOf(l, b) \ bb[b].def) \cup bb[b].use

\* What is known while the sets grow.
RelaxInv(l) ==
  /\ l \in LvTypes /\ OnlyAlive(bb, l.in, l.out)
  /\ Total(Len(bb), l.updates, l.iupdates)
  /\ \A b \in l.seen : l.in[b] = (l.out[b] \ bb[b].def) \cup bb[b].use
  /\ \A b \in l.seen : l.updates[b] = 0 => \A s : Linked(bb, b, s) => l.in[s] \subseteq l.out[b]
  /\ \A b \in DOMAIN bb : b > l.b => b \in l.seen

Relaxes(r, l, b) ==
  /\ r \in LvTypes /\ r.b = l.b /\ r.seen = l.seen \cup {b}
  /\ \A x \in DOMAIN bb : /\ r.out[x] = IF x = b THEN OutOf(l, b) ELSE l.out[x]
                          /\ r.in[x] = IF x = b THEN InOf(l, b) ELSE l.in[x]
  /\ Total(Len(bb), r.updates, r.iupdates)
  /\ \A x \in DOMAIN bb : x # b => r.updates[x] >= l.updates[x]
  /\ (b \in l.seen /\ l.in[b] = InOf(l, b)) \/ \A x \in DOMAIN bb : Linked(bb, x, b) => r.updates[x] # 0

\* A list is one of what its items are in.
LEMMA ItemsIn ==
  ASSUME NEW S, NEW T, NEW q \in Seq(S), \A k \in DOMAIN q : q[k] \in T
  PROVE  q \in Seq(T)
OBVIOUS

\* What the lists of a block's neighbours hold.
LEMMA GraphShape ==
  ASSUME GraphOK(bb), NEW b \in DOMAIN bb
  PROVE  /\ Len(bb) \in Nat /\ DOMAIN bb = 1 .. Len(bb) /\ b \in 1 .. Len(bb)
         /\ bb[b].use \in SUBSET Vars /\ bb[b].def \in SUBSET Vars
         /\ bb[b].p \in Seq(1 .. Len(bb)) /\ bb[b].n \in Seq(1 .. Len(bb))
         /\ \A k \in DOMAIN bb[b].n : bb[b].n[k] \in DOMAIN bb
<1>1. bb[b] \in Blocks /\ Len(bb) \in Nat /\ DOMAIN bb = 1 .. Len(bb)
  BY BlockIn DEF GraphOK, Partition
<1>2. bb[b].p \in Seq(Nat) /\ bb[b].n \in Seq(Nat) /\ bb[b].use \in SUBSET Vars /\ bb[b].def \in SUBSET Vars
  BY <1>1 DEF Blocks
<1>3. \A k \in DOMAIN bb[b].n : bb[b].n[k] \in DOMAIN bb
  BY DEF GraphOK, Faithful, Linked, Has
<1>4. \A k \in DOMAIN bb[b].p : bb[b].p[k] \in DOMAIN bb
  BY DEF GraphOK, Faithful, LinkedBack, Has
<1>5. bb[b].p \in Seq(1 .. Len(bb))
  BY <1>1, <1>2, <1>4, ItemsIn
<1>6. bb[b].n \in Seq(1 .. Len(bb))
  BY <1>1, <1>2, <1>3, ItemsIn
<1> QED
  BY <1>1, <1>2, <1>3, <1>5, <1>6

\* Every predecessor counts an update when a block tells it.
LEMMA NotifyCounts ==
  ASSUME GraphOK(bb), NEW b \in DOMAIN bb, NEW x \in DOMAIN bb, Linked(bb, x, b)
  PROVE  Cardinality(Times(bb[b].p, x)) # 0
<1>1. LinkedBack(bb, x, b)
  BY DEF GraphOK, Faithful
<1>2. Times(bb[b].p, x) # {}
  BY <1>1 DEF LinkedBack, Has, Times
<1>3. IsFiniteSet(Times(bb[b].p, x))
  <2>1. Times(bb[b].p, x) \in SUBSET DOMAIN bb[b].p
    BY DEF Times
  <2> QED
    BY <2>1, GraphShape, TimesFinite
<1> QED
  BY <1>2, <1>3, FS_EmptySet

\* The record that lvrelax makes, field by field.
LEMMA CountedRecord ==
  ASSUME NEW i, NEW o, NEW s, NEW u, NEW n, NEW c, NEW b, NEW out, NEW in, NEW l,
         l = [in |-> i, out |-> o, seen |-> s, updates |-> u, iupdates |-> n, b |-> c], NEW r,
         r = [l EXCEPT !.iupdates = @ - l.updates[b], !.updates[b] = 0, !.out[b] = out, !.in[b] = in, !.seen = @ \cup {b}]
  PROVE  r = [in |-> [i EXCEPT ![b] = in], out |-> [o EXCEPT ![b] = out], seen |-> s \cup {b},
              updates |-> [u EXCEPT ![b] = 0], iupdates |-> n - u[b], b |-> c]
<1>1. r.in = [i EXCEPT ![b] = in] /\ r.out = [o EXCEPT ![b] = out] /\ r.seen = s \cup {b} /\ r.b = c
  OBVIOUS
<1>2. r.updates = [u EXCEPT ![b] = 0]
  OBVIOUS
<1>3. r.iupdates = n - u[b]
  OBVIOUS
<1>4. r = [in |-> r.in, out |-> r.out, seen |-> r.seen, updates |-> r.updates, iupdates |-> r.iupdates, b |-> r.b]
  OBVIOUS
<1> QED
  BY ONLY <1>1, <1>2, <1>3, <1>4

\* lvrelax does what Relaxes says.
LEMMA RelaxEffect ==
  ASSUME GraphOK(bb), lv \in LvTypes, Total(Len(bb), lv.updates, lv.iupdates), NEW b \in DOMAIN bb
  PROVE  Relaxes(lvrelax(b), lv, b)
<1> DEFINE out == OutOf(lv, b)
           in == InOf(lv, b)
           counted == [lv EXCEPT !.iupdates = @ - lv.updates[b], !.updates[b] = 0, !.out[b] = out, !.in[b] = in,
                                 !.seen = @ \cup {b}]
           r == lvrelax(b)
<1>1. r = IF b \notin lv.seen \/ lv.in[b] # in THEN Notify(counted, b) ELSE counted
  BY DEF lvrelax, OutOf, InOf
<1>2. /\ lv.in \in [DOMAIN bb -> SUBSET Vars] /\ lv.out \in [DOMAIN bb -> SUBSET Vars] /\ lv.seen \in SUBSET DOMAIN bb
      /\ lv.updates \in [DOMAIN bb -> Nat] /\ lv.iupdates \in Int /\ lv.b \in 0 .. Len(bb)
      /\ lv = [in |-> lv.in, out |-> lv.out, seen |-> lv.seen, updates |-> lv.updates, iupdates |-> lv.iupdates, b |-> lv.b]
  BY DEF LvTypes
<1>3. out \in SUBSET Vars /\ in \in SUBSET Vars
  <2>1. \A k \in DOMAIN bb[b].n : lv.in[bb[b].n[k]] \in SUBSET Vars
    BY <1>2, GraphShape
  <2>2. out \in SUBSET Vars
    BY <1>2, <2>1 DEF OutOf
  <2> QED
    BY <2>2, GraphShape DEF InOf
<1> HIDE DEF out, in, r
<1>4. counted = [in |-> [lv.in EXCEPT ![b] = in], out |-> [lv.out EXCEPT ![b] = out], seen |-> lv.seen \cup {b},
                 updates |-> [lv.updates EXCEPT ![b] = 0], iupdates |-> lv.iupdates - lv.updates[b], b |-> lv.b]
  <2>1. counted = [lv EXCEPT !.iupdates = @ - lv.updates[b], !.updates[b] = 0, !.out[b] = out, !.in[b] = in,
                             !.seen = @ \cup {b}]
    OBVIOUS
  <2> HIDE DEF counted
  <2> QED
    BY <1>2, <2>1, CountedRecord
<1> HIDE DEF counted
<1>5. counted.updates \in [1 .. Len(bb) -> Nat] /\ Total(Len(bb), counted.updates, counted.iupdates) /\ counted.iupdates \in Int
  <2>1. lv.updates \in [1 .. Len(bb) -> Nat] /\ Len(bb) \in Nat /\ b \in 1 .. Len(bb)
    BY <1>2, GraphShape
  <2>2. Total(Len(bb), [lv.updates EXCEPT ![b] = 0], lv.iupdates - lv.updates[b])
    BY <2>1, TotalReset
  <2>3. counted.updates = [lv.updates EXCEPT ![b] = 0] /\ counted.iupdates = lv.iupdates - lv.updates[b]
    BY <1>4
  <2> QED
    BY <1>2, <2>1, <2>2, <2>3
<1>6. /\ counted.in \in [DOMAIN bb -> SUBSET Vars] /\ counted.out \in [DOMAIN bb -> SUBSET Vars]
      /\ counted.seen = lv.seen \cup {b} /\ counted.b = lv.b
      /\ \A x \in DOMAIN bb : /\ counted.out[x] = IF x = b THEN out ELSE lv.out[x]
                              /\ counted.in[x] = IF x = b THEN in ELSE lv.in[x]
                              /\ counted.updates[x] = IF x = b THEN 0 ELSE lv.updates[x]
  BY <1>2, <1>3, <1>4
<1>7. counted \in LvTypes
  <2>1. counted.updates \in [DOMAIN bb -> Nat]
    BY <1>5, GraphShape
  <2> QED
    BY <1>2, <1>4, <1>5, <1>6, <2>1 DEF LvTypes
<1>8. CASE ~(b \notin lv.seen \/ lv.in[b] # in)
  <2>1. r = counted
    BY <1>1, <1>8
  <2>2. \A x \in DOMAIN bb : x # b => counted.updates[x] >= lv.updates[x]
    BY <1>2, <1>6
  <2> QED
    BY <1>5, <1>6, <1>7, <1>8, <2>1, <2>2 DEF Relaxes, out, in, r
<1>9. CASE b \notin lv.seen \/ lv.in[b] # in
  <2> DEFINE q == bb[b].p
             w == [p \in 1 .. Len(bb) |-> counted.updates[p] + Cardinality(Times(q, p))]
  <2>1. q \in Seq(1 .. Len(bb)) /\ Len(bb) \in Nat /\ DOMAIN bb = 1 .. Len(bb) /\ Len(q) \in Nat
    BY GraphShape
  <2>2. r = [counted EXCEPT !.updates = w, !.iupdates = @ + Len(q)]
    BY <1>1, <1>9, <2>1 DEF Notify, Times
  <2>31. \A p \in 1 .. Len(bb) : Cardinality(Times(q, p)) \in Nat /\ counted.updates[p] \in Nat
    <3>1. \A p \in 1 .. Len(bb) : Times(q, p) \in SUBSET DOMAIN q
      BY DEF Times
    <3> HIDE DEF q
    <3> QED
      BY <1>5, <2>1, <3>1, TimesFinite
  <2>32. w \in [1 .. Len(bb) -> Nat]
    <3> HIDE DEF q
    <3> QED
      BY <2>31
  <2>3. Total(Len(bb), w, counted.iupdates + Len(q)) /\ w \in [1 .. Len(bb) -> Nat]
    <3>1. \A p \in 1 .. Len(bb) : w[p] = counted.updates[p] + Cardinality(Times(q, p))
      OBVIOUS
    <3> HIDE DEF q, w
    <3> QED
      BY <1>5, <2>1, <2>32, <3>1, TotalNotify
  <2>4. \A x \in DOMAIN bb : Cardinality(Times(q, x)) \in Nat /\ w[x] = counted.updates[x] + Cardinality(Times(q, x))
    <3>1. \A x \in DOMAIN bb : Times(q, x) \in SUBSET DOMAIN q
      BY DEF Times
    <3> HIDE DEF q
    <3> QED
      BY <2>1, <3>1, TimesFinite
  <2>5. \A x \in DOMAIN bb : x # b => w[x] >= lv.updates[x]
    <3> HIDE DEF q, w
    <3>1. \A x \in DOMAIN bb : lv.updates[x] \in Nat
      BY <1>2
    <3> QED
      BY <1>6, <2>4, <3>1
  <2>6. \A x \in DOMAIN bb : Linked(bb, x, b) => w[x] # 0
    <3>1. \A x \in DOMAIN bb : counted.updates[x] \in Nat
      BY <1>5, <2>1
    <3>2. \A x \in DOMAIN bb : Linked(bb, x, b) => Cardinality(Times(q, x)) # 0
      BY NotifyCounts
    <3> HIDE DEF q, w
    <3> QED
      BY <2>4, <3>1, <3>2
  <2> HIDE DEF q, w
  <2>7. /\ r.updates = w /\ r.iupdates = counted.iupdates + Len(q) /\ r.in = counted.in /\ r.out = counted.out
        /\ r.seen = counted.seen /\ r.b = counted.b
    BY <1>7, <2>2 DEF LvTypes
  <2>8. r \in LvTypes
    <3>1. w \in [DOMAIN bb -> Nat] /\ counted.iupdates + Len(q) \in Int
      BY <1>5, <2>1, <2>3
    <3> QED
      BY <1>7, <2>2, <3>1 DEF LvTypes
  <2> QED
    BY <1>6, <2>3, <2>5, <2>6, <2>7, <2>8 DEF Relaxes, out, in, r
<1> QED
  BY <1>8, <1>9

\* What is alive depends on the program only.
LEMMA SameAlive ==
  ASSUME code' = code
  PROVE  \A v : LiveBefore(v)' = LiveBefore(v)
<1> SUFFICES ASSUME NEW v PROVE LiveBefore(v)' = LiveBefore(v)
  OBVIOUS
<1> QED
  BY DEF LiveBefore, Successors, Target

\* So does whether a graph is its flow graph.
LEMMA SameGraph ==
  ASSUME UNCHANGED <<code, bb>>, GraphOK(bb)
  PROVE  GraphOK(bb)'
<1>1. Partition(bb)'
  <2>1. Partition(bb)
    BY DEF GraphOK
  <2>2. \A h, t : PlainIn(h, t, TRUE)' <=> PlainIn(h, t, TRUE)
    BY DEF PlainIn
  <2>3. \A v, h, t : UseIn(v, h, t)' <=> UseIn(v, h, t)
    BY DEF UseIn
  <2>4. \A v, h, t : DefIn(v, h, t)' <=> DefIn(v, h, t)
    BY <2>3 DEF DefIn
  <2>5. \A b, h, t : SetsOf(b, h, t)' <=> SetsOf(b, h, t)
    <3> SUFFICES ASSUME NEW b, NEW h, NEW t PROVE SetsOf(b, h, t)' <=> SetsOf(b, h, t)
      OBVIOUS
    <3>1. {v \in Vars : UseIn(v, h, t)'} = {v \in Vars : UseIn(v, h, t)}
      BY <2>3
    <3>2. {v \in Vars : DefIn(v, h, t)'} = {v \in Vars : DefIn(v, h, t)}
      BY <2>4
    <3> QED
      BY <3>1, <3>2 DEF SetsOf
  <2> QED
    BY <2>1, <2>2, <2>5 DEF Partition
<1>2. Faithful(bb)'
  <2>1. Faithful(bb)
    BY DEF GraphOK
  <2>2. \A cp : Successors(cp)' = Successors(cp)
    BY DEF Successors, Target
  <2> QED
    BY <2>1, <2>2 DEF Faithful, Linked, LinkedBack, Has
<1> QED
  BY <1>1, <1>2 DEF GraphOK

\* The loops move from block to block.
LEMMA Cursor ==
  ASSUME NEW r \in LvTypes, NEW x \in 0 .. Len(bb), NEW q, q = [r EXCEPT !.b = x]
  PROVE  /\ q.in = r.in /\ q.out = r.out /\ q.seen = r.seen /\ q.updates = r.updates /\ q.iupdates = r.iupdates
         /\ q.b = x /\ q \in LvTypes
BY DEF LvTypes

\* Relaxing a block adds nothing that is not alive.
LEMMA RelaxOnly ==
  ASSUME GraphOK(bb), Program, RelaxInv(lv), NEW b \in DOMAIN bb, NEW r, Relaxes(r, lv, b)
  PROVE  OnlyAlive(bb, r.in, r.out)
<1>1. OnlyAlive(bb, lv.in, lv.out) /\ Partition(bb) /\ Faithful(bb)
  BY DEF RelaxInv, GraphOK
<1>2. r.in \in [DOMAIN bb -> SUBSET Vars] /\ r.out \in [DOMAIN bb -> SUBSET Vars]
  BY DEF Relaxes, LvTypes
<1>3. ASSUME NEW v \in OutOf(lv, b)
      PROVE  Successors(bb[b].t) \cap LiveBefore(v) # {}
  <2>1. CASE v \in lv.out[b]
    BY <1>1, <2>1 DEF OnlyAlive
  <2>2. CASE v \in UNION {lv.in[bb[b].n[k]] : k \in DOMAIN bb[b].n}
    <3>1. PICK k \in DOMAIN bb[b].n : v \in lv.in[bb[b].n[k]]
      BY <2>2
    <3>2. bb[b].n[k] \in DOMAIN bb
      BY GraphShape
    <3>3. bb[bb[b].n[k]].h \in LiveBefore(v)
      BY <1>1, <3>1, <3>2 DEF OnlyAlive
    <3>4. Linked(bb, b, bb[b].n[k])
      BY DEF Linked, Has
    <3>5. bb[bb[b].n[k]].h \in Successors(bb[b].t)
      BY <1>1, <3>4 DEF Faithful
    <3> QED
      BY <3>3, <3>5
  <2> QED
    BY <2>1, <2>2 DEF OutOf
<1>4. r.out[b] = OutOf(lv, b) /\ r.in[b] = InOf(lv, b)
  BY DEF Relaxes
<1>5. ASSUME NEW v \in InOf(lv, b)
      PROVE  bb[b].h \in LiveBefore(v)
  <2>1. v \in Vars
    BY <1>2, <1>4
  <2>2. v \in bb[b].use \/ (v \notin bb[b].def /\ Successors(bb[b].t) \cap LiveBefore(v) # {})
    BY <1>3 DEF InOf
  <2> QED
    BY <1>1, <2>1, <2>2, AliveAtHead
<1>6. ASSUME NEW x \in DOMAIN bb
      PROVE  /\ \A v \in r.in[x] : bb[x].h \in LiveBefore(v)
             /\ \A v \in r.out[x] : Successors(bb[x].t) \cap LiveBefore(v) # {}
  <2>1. CASE x = b
    BY <1>3, <1>4, <1>5, <2>1
  <2>2. CASE x # b
    <3>1. r.in[x] = lv.in[x] /\ r.out[x] = lv.out[x]
      BY <2>2 DEF Relaxes
    <3> QED
      BY <1>1, <3>1 DEF OnlyAlive
  <2> QED
    BY <2>1, <2>2
<1> QED
  BY <1>2, <1>6 DEF OnlyAlive

\* The loop body when the block is relaxed,
LEMMA RelaxKeeps ==
  ASSUME GraphOK(bb), Program, RelaxInv(lv), NEW b \in DOMAIN bb, b = lv.b
  PROVE  RelaxInv([lvrelax(b) EXCEPT !.b = @ - 1])
<1> DEFINE r == lvrelax(b)
           q == [r EXCEPT !.b = @ - 1]
<1>1. Relaxes(r, lv, b)
  BY RelaxEffect DEF RelaxInv
<1> HIDE DEF r
<1>2. Len(bb) \in Nat /\ DOMAIN bb = 1 .. Len(bb) /\ b \in 1 .. Len(bb)
  BY GraphShape
<1>3. r \in LvTypes /\ r.b = b
  BY <1>1 DEF Relaxes
<1>4. /\ q.in = r.in /\ q.out = r.out /\ q.seen = r.seen /\ q.updates = r.updates /\ q.iupdates = r.iupdates
      /\ q.b = b - 1 /\ q \in LvTypes
  <2>1. q = [r EXCEPT !.b = b - 1] /\ b - 1 \in 0 .. Len(bb)
    BY <1>2, <1>3
  <2> HIDE DEF q
  <2> QED
    BY <1>3, <2>1, Cursor
<1> HIDE DEF q
<1>5. OnlyAlive(bb, r.in, r.out)
  BY <1>1, RelaxOnly
<1>6. ASSUME NEW x \in r.seen
      PROVE  r.in[x] = (r.out[x] \ bb[x].def) \cup bb[x].use
  <2>1. x \in DOMAIN bb
    BY <1>3 DEF LvTypes
  <2>2. CASE x = b
    BY <1>1, <2>1, <2>2 DEF Relaxes, InOf
  <2>3. CASE x # b
    <3>1. x \in lv.seen /\ r.in[x] = lv.in[x] /\ r.out[x] = lv.out[x]
      BY <1>1, <2>1, <2>3 DEF Relaxes
    <3> QED
      BY <3>1 DEF RelaxInv
  <2> QED
    BY <2>2, <2>3
<1>7. ASSUME NEW x \in r.seen, r.updates[x] = 0, NEW s, Linked(bb, x, s)
      PROVE  r.in[s] \subseteq r.out[x]
  <2>1. x \in DOMAIN bb /\ s \in DOMAIN bb
    BY <1>3, <1>7 DEF LvTypes, GraphOK, Faithful
  <2>2. s = b => lv.in[b] = InOf(lv, b)
    BY <1>1, <1>7, <2>1 DEF Relaxes
  <2>3. r.in[s] = lv.in[s]
    BY <1>1, <2>1, <2>2 DEF Relaxes
  <2>4. CASE x = b
    <3>1. PICK k \in DOMAIN bb[b].n : bb[b].n[k] = s
      BY <1>7, <2>4 DEF Linked, Has
    <3>2. lv.in[s] \subseteq OutOf(lv, b)
      BY <3>1 DEF OutOf
    <3>3. r.out[b] = OutOf(lv, b)
      BY <1>1 DEF Relaxes
    <3> QED
      BY <2>3, <2>4, <3>2, <3>3
  <2>5. CASE x # b
    <3>1. x \in lv.seen /\ r.out[x] = lv.out[x] /\ r.updates[x] >= lv.updates[x]
      BY <1>1, <2>1, <2>5 DEF Relaxes
    <3>2. lv.updates[x] \in Nat
      BY <2>1 DEF RelaxInv, LvTypes
    <3>3. lv.updates[x] = 0
      BY <1>7, <3>1, <3>2
    <3> QED
      BY <1>7, <2>3, <3>1, <3>3 DEF RelaxInv
  <2> QED
    BY <2>4, <2>5
<1>8. ASSUME NEW x \in DOMAIN bb, x > b - 1
      PROVE  x \in r.seen
  <2>1. x = b \/ x > b
    BY <1>2, <1>8
  <2>2. x > b => x \in lv.seen
    BY DEF RelaxInv
  <2>3. r.seen = lv.seen \cup {b}
    BY <1>1 DEF Relaxes
  <2> QED
    BY <2>1, <2>2, <2>3
<1>9. Total(Len(bb), r.updates, r.iupdates)
  BY <1>1 DEF Relaxes
<1>10. RelaxInv(q)
  BY <1>4, <1>5, <1>6, <1>7, <1>8, <1>9 DEF RelaxInv
<1> QED
  BY <1>10 DEF q, r

\* when it is passed over,
LEMMA SkipKeeps ==
  ASSUME GraphOK(bb), RelaxInv(lv), NEW b \in DOMAIN bb, b = lv.b, b \in lv.seen
  PROVE  RelaxInv([lv EXCEPT !.b = @ - 1])
<1> DEFINE q == [lv EXCEPT !.b = @ - 1]
<1>1. Len(bb) \in Nat /\ DOMAIN bb = 1 .. Len(bb) /\ b \in 1 .. Len(bb)
  BY GraphShape
<1>2. /\ q.in = lv.in /\ q.out = lv.out /\ q.seen = lv.seen /\ q.updates = lv.updates /\ q.iupdates = lv.iupdates
      /\ q.b = b - 1 /\ q \in LvTypes
  <2>1. q = [lv EXCEPT !.b = b - 1] /\ b - 1 \in 0 .. Len(bb) /\ lv \in LvTypes
    BY <1>1 DEF RelaxInv
  <2> HIDE DEF q
  <2> QED
    BY <2>1, Cursor
<1> HIDE DEF q
<1>3. \A x \in DOMAIN bb : x > b - 1 => x \in lv.seen
  BY <1>1 DEF RelaxInv
<1>4. RelaxInv(q)
  BY <1>2, <1>3 DEF RelaxInv
<1> QED
  BY <1>4 DEF q

\* and when a new sweep begins.
LEMMA SweepKeeps ==
  ASSUME GraphOK(bb), RelaxInv(lv)
  PROVE  RelaxInv([lv EXCEPT !.b = Len(bb)])
<1> DEFINE q == [lv EXCEPT !.b = Len(bb)]
<1>1. Len(bb) \in Nat /\ DOMAIN bb = 1 .. Len(bb)
  BY DEF GraphOK, Partition
<1>2. /\ q.in = lv.in /\ q.out = lv.out /\ q.seen = lv.seen /\ q.updates = lv.updates /\ q.iupdates = lv.iupdates
      /\ q.b = Len(bb) /\ q \in LvTypes
  <2>1. q = [lv EXCEPT !.b = Len(bb)] /\ Len(bb) \in 0 .. Len(bb) /\ lv \in LvTypes
    BY <1>1 DEF RelaxInv
  <2> HIDE DEF q
  <2> QED
    BY <2>1, Cursor
<1> HIDE DEF q
<1>3. \A x \in DOMAIN bb : ~(x > Len(bb))
  BY <1>1
<1>4. RelaxInv(q)
  BY <1>2, <1>3 DEF RelaxInv
<1> QED
  BY <1>4 DEF q

\* When no update is outstanding the equations hold.
LEMMA RelaxedExact ==
  ASSUME GraphOK(bb), Program, RelaxInv(lv), ~(lv.b > 0), ~(lv.iupdates > 0)
  PROVE  AllAlive(bb, lv.in, lv.out)
<1>1. Len(bb) \in Nat /\ DOMAIN bb = 1 .. Len(bb)
  BY DEF GraphOK, Partition
<1>2. lv.updates \in [1 .. Len(bb) -> Nat] /\ lv.iupdates \in Int /\ lv.b \in 0 .. Len(bb)
  BY <1>1 DEF RelaxInv, LvTypes
<1>3. \A b \in DOMAIN bb : b \in lv.seen
  BY <1>1, <1>2 DEF RelaxInv
<1>4. Total(Len(bb), lv.updates, lv.iupdates)
  BY DEF RelaxInv
<1>5. \A b \in DOMAIN bb : lv.updates[b] = 0
  BY <1>1, <1>2, <1>4, TotalZero
<1>6. Solved(bb, lv.in, lv.out)
  BY <1>3, <1>5 DEF RelaxInv, Solved
<1> QED
  BY <1>6, SolutionExact DEF RelaxInv

-----------------------------------------------------------------------------
(* The invariant of i_fg_build and i_fg_lv.                                *)

\* What is known of the flow graph and of the live variables in each phase.
LiveInv ==
  /\ CodeInv
  /\ mode # "RA_EZ" /\ phase \notin {"i_op", "i_fg_build"} => GraphOK(bb)
  /\ phase = "i_fg_lv" => RelaxInv(lv)
  /\ mode \in {"RA_LR", "RA_GC"} /\ phase \notin {"i_op", "i_fg_build", "i_fg_lv"} => AllAlive(bb, lv.in, lv.out)

\* At first nothing has been built.
LEMMA InitMakesLiveInv == Init => LiveInv
BY CodeInit DEF Init, LiveInv

\* i_fg_build makes a flow graph and empty sets.
LEMMA BuildKeeps ==
  ASSUME LiveInv, PassOfMode, i_fg_build
  PROVE  LiveInv'
<1>1. CodeInv' /\ Program
  <2>1. [Next]_vars
    BY DEF Next
  <2> QED
    BY <2>1, CodeStep, Complete DEF LiveInv, i_fg_build
<1>2. code' = code /\ mode' = mode
  BY DEF i_fg_build
<1>3. CASE mode = "RA_EZ"
  <2>1. phase' = "i_ra_priority"
    BY <1>3 DEF i_fg_build
  <2> QED
    BY <1>1, <1>2, <1>3, <2>1 DEF LiveInv
<1>4. CASE mode # "RA_EZ"
  <2>1. bb' = FlowGraph /\ phase' = IF mode = "RA_LS" THEN "dfs" ELSE "i_fg_lv"
    BY <1>4 DEF i_fg_build
  <2>2. lv' = [in |-> [b \in DOMAIN bb' |-> {}], out |-> [b \in DOMAIN bb' |-> {}],
               seen |-> {}, updates |-> [b \in DOMAIN bb' |-> 0], iupdates |-> 0, b |-> Len(bb')]
    BY <1>4 DEF i_fg_build
  <2>3. GraphOK(bb')
    BY <1>1, <2>1, GraphBuilt
  <2>4. GraphOK(bb)'
    <3>1. \A h, t : PlainIn(h, t, TRUE)' <=> PlainIn(h, t, TRUE)
      BY <1>2 DEF PlainIn
    <3>2. \A v, h, t : UseIn(v, h, t)' <=> UseIn(v, h, t)
      BY <1>2 DEF UseIn
    <3>3. \A v, h, t : DefIn(v, h, t)' <=> DefIn(v, h, t)
      BY <1>2, <3>2 DEF DefIn
    <3>4. \A b, h, t : SetsOf(b, h, t)' <=> SetsOf(b, h, t)
      <4> SUFFICES ASSUME NEW b, NEW h, NEW t PROVE SetsOf(b, h, t)' <=> SetsOf(b, h, t)
        OBVIOUS
      <4>1. {v \in Vars : UseIn(v, h, t)'} = {v \in Vars : UseIn(v, h, t)}
        BY <3>2
      <4>2. {v \in Vars : DefIn(v, h, t)'} = {v \in Vars : DefIn(v, h, t)}
        BY <3>3
      <4> QED
        BY <4>1, <4>2 DEF SetsOf
    <3>5. Partition(bb)'
      BY <1>2, <2>3, <3>1, <3>4 DEF GraphOK, Partition
    <3>6. \A cp : Successors(cp)' = Successors(cp)
      BY <1>2 DEF Successors, Target
    <3>7. Faithful(bb)'
      BY <2>3, <3>6 DEF GraphOK, Faithful, Linked, LinkedBack, Has
    <3> QED
      BY <3>5, <3>7 DEF GraphOK
  <2>5. RelaxInv(lv)'
    <3>1. Len(bb') \in Nat /\ DOMAIN bb' = 1 .. Len(bb')
      BY <2>3 DEF GraphOK, Partition
    <3>2. Total(Len(bb'), [b \in 1 .. Len(bb') |-> 0], 0)
      BY <3>1, TotalNothing
    <3>3. Total(Len(bb), lv.updates, lv.iupdates)'
      BY <2>2, <3>1, <3>2
    <3>4. LvTypes' = [in : [DOMAIN bb' -> SUBSET Vars], out : [DOMAIN bb' -> SUBSET Vars], seen : SUBSET DOMAIN bb',
                      updates : [DOMAIN bb' -> Nat], iupdates : Int, b : 0 .. Len(bb')]
      BY DEF LvTypes
    <3>5. (lv \in LvTypes)'
      BY <2>2, <3>1, <3>4
    <3>6. OnlyAlive(bb, lv.in, lv.out)'
      BY <2>2 DEF OnlyAlive
    <3>7. lv'.seen = {} /\ \A b \in DOMAIN bb' : ~(b > lv'.b)
      BY <2>2, <3>1
    <3> QED
      BY <3>3, <3>5, <3>6, <3>7 DEF RelaxInv
  <2> QED
    BY <1>1, <1>2, <2>1, <2>4, <2>5 DEF LiveInv
<1> QED
  BY <1>3, <1>4

\* What is known of the sets depends on the program and its graph.
LEMMA SameRelax ==
  ASSUME UNCHANGED <<code, bb>>, RelaxInv(lv')
  PROVE  RelaxInv(lv)'
<1>1. \A v : LiveBefore(v)' = LiveBefore(v)
  BY SameAlive
<1>2. \A cp : Successors(cp)' = Successors(cp)
  BY DEF Successors, Target
<1>3. OnlyAlive(bb, lv.in, lv.out)'
  BY <1>1, <1>2 DEF OnlyAlive, RelaxInv
<1>4. Total(Len(bb), lv.updates, lv.iupdates)'
  BY DEF RelaxInv
<1>5. LvTypes' = LvTypes
  BY DEF LvTypes
<1> QED
  BY <1>3, <1>4, <1>5 DEF RelaxInv, Linked, Has

\* And so does what they should be.
LEMMA SameAll ==
  ASSUME UNCHANGED <<code, bb, lv>>, AllAlive(bb, lv.in, lv.out)
  PROVE  AllAlive(bb, lv.in, lv.out)'
<1>1. \A v : LiveBefore(v)' = LiveBefore(v)
  BY SameAlive
<1>2. \A cp : Successors(cp)' = Successors(cp)
  BY DEF Successors, Target
<1>3. ASSUME NEW b \in DOMAIN bb
      PROVE  /\ {v \in Vars : bb[b].h \in LiveBefore(v)'} = {v \in Vars : bb[b].h \in LiveBefore(v)}
             /\ {v \in Vars : Successors(bb[b].t)' \cap LiveBefore(v)' # {}} =
                {v \in Vars : Successors(bb[b].t) \cap LiveBefore(v) # {}}
  BY <1>1, <1>2
<1> QED
  BY <1>3 DEF AllAlive

\* One step of i_fg_lv.
LEMMA LvKeeps ==
  ASSUME LiveInv, PassOfMode, i_fg_lv
  PROVE  LiveInv'
<1>1. CodeInv' /\ Program
  <2>1. [Next]_vars
    BY DEF Next
  <2> QED
    BY <2>1, CodeStep, Complete DEF LiveInv, i_fg_lv
<1>2. UNCHANGED <<code, bb, mode>> /\ phase = "i_fg_lv" /\ mode \in {"RA_LR", "RA_GC"}
  BY DEF i_fg_lv, PassOfMode
<1>3. GraphOK(bb) /\ RelaxInv(lv)
  BY <1>2 DEF LiveInv
<1>4. GraphOK(bb)'
  BY <1>2, <1>3, SameGraph
<1>5. lv.b \in 0 .. Len(bb) /\ Len(bb) \in Nat /\ DOMAIN bb = 1 .. Len(bb)
  BY <1>3 DEF RelaxInv, LvTypes, GraphOK, Partition
<1>6. CASE lv.b > 0
  <2>1. lv.b \in DOMAIN bb
    BY <1>5, <1>6
  <2>2. RelaxInv(lv')
    <3>1. CASE lv.b \notin lv.seen \/ lv.updates[lv.b] > 0
      <4>1. lv' = [lvrelax(lv.b) EXCEPT !.b = @ - 1]
        BY <1>6, <3>1 DEF i_fg_lv
      <4> QED
        BY <1>1, <1>3, <2>1, <4>1, RelaxKeeps
    <3>2. CASE ~(lv.b \notin lv.seen \/ lv.updates[lv.b] > 0)
      <4>1. lv' = [lv EXCEPT !.b = @ - 1]
        BY <1>6, <3>2 DEF i_fg_lv
      <4> QED
        BY <1>3, <2>1, <3>2, <4>1, SkipKeeps
    <3> QED
      BY <3>1, <3>2
  <2>3. phase' = phase
    BY <1>6 DEF i_fg_lv
  <2>4. RelaxInv(lv)'
    BY <1>2, <2>2, SameRelax
  <2> QED
    BY <1>1, <1>2, <1>4, <2>3, <2>4 DEF LiveInv
<1>7. CASE ~(lv.b > 0) /\ lv.iupdates > 0
  <2>1. lv' = [lv EXCEPT !.b = Len(bb)] /\ phase' = phase
    BY <1>7 DEF i_fg_lv
  <2>2. RelaxInv(lv')
    BY <1>3, <2>1, SweepKeeps
  <2>3. RelaxInv(lv)'
    BY <1>2, <2>2, SameRelax
  <2> QED
    BY <1>1, <1>2, <1>4, <2>1, <2>3 DEF LiveInv
<1>8. CASE ~(lv.b > 0) /\ ~(lv.iupdates > 0)
  <2>1. lv' = lv /\ phase' \in {"i_li_full", "i_ig_build"}
    BY <1>8 DEF i_fg_lv
  <2>2. AllAlive(bb, lv.in, lv.out)
    BY <1>1, <1>3, <1>8, RelaxedExact
  <2>3. AllAlive(bb, lv.in, lv.out)'
    BY <1>2, <2>1, <2>2, SameAll
  <2> QED
    BY <1>1, <1>2, <1>4, <2>1, <2>3 DEF LiveInv
<1> QED
  BY <1>6, <1>7, <1>8

\* The other passes leave graph and sets alone.
LEMMA NextKeepsLiveInv == LiveInv /\ PassOfMode /\ [Next]_vars => LiveInv'
<1> SUFFICES ASSUME LiveInv, PassOfMode, [Next]_vars
             PROVE  LiveInv'
  OBVIOUS
<1>1. CodeInv'
  BY CodeStep DEF LiveInv
<1>2. CASE Emit
  <2>1. phase' \in {"i_op", "i_fg_build"} /\ mode' = mode
    BY <1>2 DEF Emit
  <2> QED
    BY <1>1, <2>1 DEF LiveInv
<1>3. CASE i_fg_build
  BY <1>3, BuildKeeps
<1>4. CASE i_fg_lv
  BY <1>4, LvKeeps
<1>5. CASE ~Emit /\ ~i_fg_build /\ ~i_fg_lv
  <2>1. UNCHANGED <<code, mode, bb, lv>>
    BY <1>5 DEF Next, vars, i_li_full, i_li_scc, dfs, dfs_visit, scc_mark, scan_intervals,
       i_ra_ls, i_ra_priority, i_ig_build, i_ig_color, Dismantle, Initial, Final, Dismantled, InitialSpill,
       FinalSweep, Colour, Colouring, KeepAll, Run, Step
  <2>2. \/ phase' = phase
        \/ phase \notin {"i_op", "i_fg_build", "i_fg_lv"} /\ phase' \notin {"i_op", "i_fg_build", "i_fg_lv"}
    BY <1>5 DEF Next, vars, i_li_full, i_li_scc, dfs, dfs_visit, scc_mark, scan_intervals,
       i_ra_ls, i_ra_priority, i_ig_build, i_ig_color, Dismantle, Initial, Final, Dismantled, InitialSpill,
       FinalSweep, Colour, Colouring, KeepAll, Run, Step
  <2>3. mode # "RA_EZ" /\ phase' \notin {"i_op", "i_fg_build"} => GraphOK(bb)'
    BY <2>1, <2>2, SameGraph DEF LiveInv
  <2>4. phase' = "i_fg_lv" => RelaxInv(lv)'
    BY <2>1, <2>2, SameRelax DEF LiveInv
  <2>5. mode \in {"RA_LR", "RA_GC"} /\ phase' \notin {"i_op", "i_fg_build", "i_fg_lv"} => AllAlive(bb, lv.in, lv.out)'
    BY <2>1, <2>2, SameAll DEF LiveInv
  <2> QED
    BY <1>1, <2>1, <2>3, <2>4, <2>5 DEF LiveInv
<1> QED
  BY <1>2, <1>3, <1>4, <1>5

\* The invariant says what LiveExact asks.
LEMMA LiveInvExact == LiveInv /\ PassOfMode => LiveExact
BY DEF LiveInv, PassOfMode, LiveExact, AllAlive

\* The invariant of the live variables, with that of the passes, holds always.
THEOREM LiveInvariant == Spec => [](LiveInv /\ PassOfMode)
<1>1. Init => LiveInv /\ PassOfMode
  BY InitMakesLiveInv, InitMakesIInv DEF IInv
<1>2. IInv => PassOfMode
  BY DEF IInv
<1> QED
  BY <1>1, <1>2, GraphInvariant, NextKeepsLiveInv, PTL DEF Spec

\* What i_fg_lv leaves at the two ends of a block is exactly what the paths
\* through the program say, for every program: neither the order of the sweeps
\* nor the counts of outstanding updates lose one that is alive, and loops and
\* unreachable code add none that is not.
THEOREM LiveVariablesExact == Spec => []LiveExact
BY LiveInvariant, LiveInvExact, PTL
=============================================================================
