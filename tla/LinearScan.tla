----------------------------- MODULE LinearScan -----------------------------
(***************************************************************************)
(* Linear-scan register allocation, src/src/icode/reg-ls.c with the pool   *)
(* of reg-manager.h and the list of ll.h, as i_regalloc drives it for one  *)
(* class of registers (modes RA_LS and RA_LR).                             *)
(*                                                                         *)
(* Locals are numbered in the order of their live intervals in i_ilrs (or  *)
(* i_flrs): by end point, the array li-scc.c and li-full.c fill from its   *)
(* last element down.  ra_ls_internal walks it backwards; `active' is its  *)
(* linked list, ordered by start point.  Reference counts are floats: they *)
(* are in halves here, and Whole is what is left of one stored in the      *)
(* unsigned `refc'.                                                        *)
(*                                                                         *)
(* v_clambda stores every parameter on entry in a stack slot and gives its *)
(* local the slot, a negative register number, as address: no parameter    *)
(* holds a machine register, whatever its storage class says.              *)
(***************************************************************************)
EXTENDS Integers, Sequences, FiniteSets, SequencesExt

CONSTANTS
  N,         (* num_i or num_f: the locals that have a live interval        *)
  MaxPos,    (* bound on the positions of the live intervals                *)
  Regs,      (* i_iregx or i_fregx: the registers icode allocates           *)
  Temps,     (* i_itmp or i_ftmp, the caller-saved ones among them          *)
  Leaf,      (* i_leafp                                                     *)
  Modes,     (* the values of i_ralloctype: "RA_LS", "RA_LR" or both        *)
  RefCounts, (* the reference counts a local may have, in halves            *)
  ParamSets, (* the sets of locals that may be the parameters               *)
  StackSets  (* the sets of locals that may have to live on the stack       *)

ASSUME ScanAssumption ==
  /\ N \in Nat /\ MaxPos \in Nat
  /\ IsFiniteSet(Regs) /\ Temps \subseteq Regs
  /\ Leaf \in BOOLEAN /\ Modes \subseteq {"RA_LS", "RA_LR"}
  /\ RefCounts \subseteq Nat
  /\ ParamSets \subseteq SUBSET (1 .. N)
  /\ StackSets \subseteq SUBSET (1 .. N)

VARIABLES
  i_ralloctype,  (* the mode, set once by the program                      *)
  beg, end,  (* the live intervals                                         *)
  refcnt,    (* local -> REFCNT                                            *)
  params,    (* the locals with PARAMP                                     *)
  SCLASS,    (* local -> "UNDECIDED", "STACK" or "REGISTER"                *)
  ADDR,      (* local -> register or stack slot                            *)
  reg,       (* i_ireg or i_freg, the free registers                       *)
  picked,    (* registers claimed with v_pickreg                           *)
  slots,     (* stack slots v_local and v_localb have handed out           *)
  sz,        (* capacity of `active', -1 before i_llcreate                 *)
  active,    (* the list of live intervals that hold a register            *)
  lr         (* the interval to process next, 0 when the scan is over      *)

input == <<i_ralloctype, beg, end, refcnt, params>>
vars == <<i_ralloctype, beg, end, refcnt, params, SCLASS, ADDR, reg, picked, slots, sz, active, lr>>

Locals == 1 .. N

UseRefc == i_ralloctype = "RA_LS"

Whole(count) == count \div 2

-----------------------------------------------------------------------------
\* Every set of intervals in the order of the array; parameters already have
\* a stack slot (i for parameter i); some locals must live on the stack.
Init ==
  /\ i_ralloctype \in Modes
  /\ beg \in [Locals -> 1 .. MaxPos]
  /\ end \in [Locals -> 1 .. MaxPos]
  /\ \A i \in Locals : beg[i] <= end[i]
  /\ \A i, j \in Locals : i < j => end[i] <= end[j]
  /\ refcnt \in [Locals -> RefCounts]
  /\ params \in ParamSets
  /\ \E onstack \in StackSets :
       SCLASS = [i \in Locals |-> IF i \in params THEN "REGISTER"
                                 ELSE IF i \in onstack THEN "STACK" ELSE "UNDECIDED"]
  /\ ADDR = [i \in Locals |-> IF i \in params THEN i ELSE 0]
  /\ reg = Regs
  /\ picked = {}
  /\ slots = N + 1
  /\ sz = -1
  /\ active = <<>>
  /\ lr = N

\* i_regalloc calls i_reg_use on the address of every parameter of class
\* REGISTER; bv_unset ignores a number outside its vector, so the pool stays
\* whole, and ra_ls_internal creates a list with room for it (assert(l > 0)).
i_regalloc ==
  /\ sz = -1
  /\ sz' = Cardinality(reg)
  /\ sz' > 0
  /\ UNCHANGED <<input, SCLASS, ADDR, reg, picked, slots, active, lr>>

-----------------------------------------------------------------------------
Starts(act, i) == beg[act[i]]

\* Mutated form: an interval that starts where the current one ends expires.
Mut_KeptStrict(act, k) ==
  /\ k \in 0 .. Len(act)
  /\ k > 0 => Starts(act, k) < end[lr]
  /\ \A i \in k + 1 .. Len(act) : Starts(act, i) >= end[lr]

\* lrexpire under i_llsbwd: from the back of the list, intervals that start
\* after the end of the current one go, up to the first that does not.
Kept(act, k) ==
  /\ k \in 0 .. Len(act)
  /\ k > 0 => Starts(act, k) <= end[lr]
  /\ \A i \in k + 1 .. Len(act) : Starts(act, i) > end[lr]

\* lrstartsbefore under i_llsbwd: the current interval goes behind the last
\* one that starts before it.
InsertAfter(act, p) ==
  /\ p \in 0 .. Len(act)
  /\ p > 0 => Starts(act, p) < beg[lr]
  /\ \A i \in p + 1 .. Len(act) : Starts(act, i) >= beg[lr]

\* lrleastcost under i_llsfwd: refc holds the whole part of the last count
\* that was below it, so an interval is chosen when its count is below the
\* whole part of every count before it in the list, and the last such wins.
Lighter(act, i) == \A k \in 1 .. i - 1 : refcnt[act[i]] < 2 * Whole(refcnt[act[k]])

LeastCost(act, v) ==
  /\ v \in DOMAIN act
  /\ Lighter(act, v)
  /\ \A i \in v + 1 .. Len(act) : ~Lighter(act, i)

\* Mutated form: the comparison of reference counts is turned around.
Mut_VictimHeavier(act, v) ==
  IF UseRefc
  THEN /\ LeastCost(act, v)
       /\ LET refc == Whole(refcnt[act[v]]) IN
            \/ 2 * refc > refcnt[lr]
            \/ 2 * refc = refcnt[lr] /\ Starts(act, v) < beg[lr]
  ELSE v = Len(act)

\* The list is full and its element v gives way to the current interval.
Victim(act, v) ==
  IF UseRefc
  THEN /\ LeastCost(act, v)
       /\ LET refc == Whole(refcnt[act[v]]) IN
            \/ 2 * refc < refcnt[lr]
            \/ 2 * refc = refcnt[lr] /\ Starts(act, v) < beg[lr]
  ELSE /\ v = 1                                    \* lrstartsfirst
       /\ v \in DOMAIN act /\ Starts(act, v) < beg[lr]

\* i_reg_get: temporaries first in a leaf, the others first elsewhere.
Preferred(pool) ==
  LET best == pool \cap (IF Leaf THEN Temps ELSE Regs \ Temps)
  IN  IF best # {} THEN best ELSE pool

\* The current interval gets register r and enters the list.
Insert(act, r) ==
  /\ SCLASS' = [SCLASS EXCEPT ![lr] = "REGISTER"]
  /\ ADDR' = [ADDR EXCEPT ![lr] = r]
  /\ \E p \in 0 .. Len(act) : InsertAfter(act, p) /\ active' = InsertAt(act, p + 1, lr)

TakeFree(act, pool) ==
  /\ Len(act) < sz
  /\ \E r \in Preferred(pool) :
       /\ Insert(act, r)
       /\ reg' = pool \ {r}
       /\ picked' = picked \cup {r}
  /\ UNCHANGED slots

\* Mutated form: the interval that loses its register stays in the list.
Mut_StealKeepsVictim(act, pool) ==
  /\ Len(act) = sz
  /\ \E v \in DOMAIN act :
       /\ Victim(act, v)
       /\ active' = act
       /\ SCLASS' = [SCLASS EXCEPT ![lr] = "REGISTER", ![act[v]] = "STACK"]
       /\ ADDR' = [ADDR EXCEPT ![lr] = ADDR[act[v]], ![act[v]] = slots]
  /\ slots' = slots + 1
  /\ reg' = pool
  /\ UNCHANGED picked

\* The victim is spilled and its register passes to the current interval.
Steal(act, pool) ==
  /\ Len(act) = sz
  /\ \E v \in DOMAIN act :
       /\ Victim(act, v)
       /\ \E p \in 0 .. Len(act) - 1 :
            /\ InsertAfter(RemoveAt(act, v), p)
            /\ active' = InsertAt(RemoveAt(act, v), p + 1, lr)
       /\ SCLASS' = [SCLASS EXCEPT ![lr] = "REGISTER", ![act[v]] = "STACK"]
       /\ ADDR' = [ADDR EXCEPT ![lr] = ADDR[act[v]], ![act[v]] = slots]
  /\ slots' = slots + 1
  /\ reg' = pool
  /\ UNCHANGED picked

\* lrspill
Spill(l) ==
  /\ SCLASS' = [SCLASS EXCEPT ![l] = "STACK"]
  /\ ADDR' = [ADDR EXCEPT ![l] = slots]
  /\ slots' = slots + 1

SpillCurrent(act, pool) ==
  /\ Len(act) = sz
  /\ \A v \in DOMAIN act : ~Victim(act, v)
  /\ Spill(lr)
  /\ active' = act
  /\ reg' = pool
  /\ UNCHANGED picked

\* Mutated form: the registers of expired intervals are not put back.
Mut_AllocateNoPut ==
  /\ lr \notin params /\ SCLASS[lr] # "STACK"
  /\ \E k \in 0 .. Len(active) :
       /\ Kept(active, k)
       /\ LET act == SubSeq(active, 1, k)
          IN  TakeFree(act, reg) \/ Steal(act, reg) \/ SpillCurrent(act, reg)

\* The whole treatment of one interval that wants a register.
Allocate ==
  /\ lr \notin params /\ SCLASS[lr] # "STACK"
  /\ \E k \in 0 .. Len(active) :
       /\ Kept(active, k)
       /\ LET act == SubSeq(active, 1, k)
              pool == reg \cup {ADDR[active[i]] : i \in k + 1 .. Len(active)}
          IN  TakeFree(act, pool) \/ Steal(act, pool) \/ SpillCurrent(act, pool)

SkipParam == lr \in params /\ UNCHANGED <<SCLASS, ADDR, reg, picked, slots, active>>

OnStack ==
  /\ lr \notin params /\ SCLASS[lr] = "STACK"
  /\ Spill(lr)
  /\ UNCHANGED <<reg, picked, active>>

\* One turn of the loop of ra_ls_internal.
ra_ls_internal ==
  /\ sz # -1 /\ lr > 0
  /\ SkipParam \/ OnStack \/ Allocate
  /\ lr' = lr - 1
  /\ UNCHANGED <<input, sz>>

Next == i_regalloc \/ ra_ls_internal

Spec == Init /\ [][Next]_vars

\* The allocator is one sequential loop: nothing else can keep it from its
\* next turn.
FairSpec == Spec /\ WF_vars(Next)

-----------------------------------------------------------------------------
\* The local is in a machine register.
InRegister(i) == i \notin params /\ SCLASS[i] = "REGISTER"

\* Storage classes, registers and the list have the shapes the code gives
\* them: whoever is in a register has the number of an allocatable one.
TypeOK ==
  /\ i_ralloctype \in Modes
  /\ beg \in [Locals -> Nat] /\ end \in [Locals -> Nat]
  /\ refcnt \in [Locals -> Nat]
  /\ params \subseteq Locals
  /\ SCLASS \in [Locals -> {"UNDECIDED", "STACK", "REGISTER"}]
  /\ ADDR \in [Locals -> Regs \cup Nat]
  /\ \A i \in Locals : InRegister(i) => ADDR[i] \in Regs
  /\ reg \subseteq Regs /\ picked \subseteq Regs
  /\ slots \in Nat /\ sz \in Nat \cup {-1}
  /\ active \in Seq(Locals)
  /\ lr \in 0 .. N

Conflict(i, j) == beg[i] <= end[j] /\ beg[j] <= end[i]

\* Locals that are alive at the same place are never in the same register:
\* what one writes, no other loses.
NoSharedRegister ==
  \A i, j \in Locals :
    i # j /\ InRegister(i) /\ InRegister(j) /\ Conflict(i, j) => ADDR[i] # ADDR[j]

\* The free pool and the list of active intervals share out the registers
\* without loss or duplication, so a list that is not full means a register
\* is free (assert(r != -1)), and every listed interval has a register.  A
\* register a local was given is claimed from vcode with v_pickreg, so that no
\* v_getreg takes it as a scratch register while the local is in it.
RegistersAccounted ==
  /\ \A i \in Locals : InRegister(i) => ADDR[i] \in picked
  /\ sz # -1 =>
    /\ \A i \in DOMAIN active : InRegister(active[i])
    /\ \A i, j \in DOMAIN active : i # j => ADDR[active[i]] # ADDR[active[j]]
    /\ \A i \in DOMAIN active : ADDR[active[i]] \notin reg
    /\ reg \cup {ADDR[active[i]] : i \in DOMAIN active} = Regs

\* The intervals seen so far that hold a register where the current one ends.
Competing ==
  {m \in lr + 1 .. N : InRegister(m) /\ beg[m] <= end[lr]}

\* l wanted a register and goes to the stack in this step.
SpilledNow(l) ==
  l \notin params /\ SCLASS[l] # "STACK" /\ SCLASS'[l] = "STACK"

\* The local that goes to the stack is the cheapest of those that compete: by
\* reference count in mode RA_LS (lrleastcost: `the lowest ref count'), by
\* start point in mode RA_LR (`spill the one that begins first').
SpillsCheapest ==
  [][\A l \in Locals : SpilledNow(l) =>
       \A m \in Competing \cup {lr} :
         IF UseRefc THEN refcnt[l] <= refcnt[m] ELSE beg[l] <= beg[m]]_vars

\* The scan reaches its end: no interval is met for which there is neither a
\* free register, although the list has room, nor a local to spill (the
\* assertion r != -1 and the dereference of i_lle in ra_ls_internal).
ScanEnds == <>(lr = 0)
=============================================================================
