------------------------------- MODULE Labels -------------------------------
(***************************************************************************)
(* Labels and branches of a dynamic function: the label table of           *)
(* src/src/vcode-x86_64/vcode.c, and icode's own label numbers, which its  *)
(* translator hands to that table unchanged.                               *)
(*                                                                         *)
(* The table maps a label number to the address it was placed at and to    *)
(* the branch displacements to patch.  Numbers come from two allocators:   *)
(* v_genlabel, which returns label_count, and i_mklabel, which counts from *)
(* min_lab = 2 because v_lambda takes label 1 for the epilogue.  Any use of *)
(* a number at or above label_count raises label_count past it.            *)
(*                                                                         *)
(* Mode "icode" translates a finished icode program, so the labels the     *)
(* client made are known before the first instruction is emitted; mode     *)
(* "vcode" is a client that calls v_genlabel itself.  Code addresses count *)
(* emitted branch displacements over the whole run, so the code of one     *)
(* function is the interval from code_start to ip.                         *)
(***************************************************************************)
EXTENDS Integers, FiniteSets

CONSTANTS
  MaxLabels,   (* MAX_LABELS, size of the table                            *)
  MaxRefs,     (* MAX_REFS, displacements per label                        *)
  MaxIp,       (* bound: displacements emitted in a run                    *)
  Conditions   (* client -> the branch conditions it uses                  *)

ASSUME LabelsAssumption ==
  /\ MaxLabels \in Nat /\ MaxLabels > 2
  /\ MaxRefs \in Nat \ {0}
  /\ MaxIp \in Nat
  /\ DOMAIN Conditions \subseteq {"icode", "vcode"}
  /\ \A m \in DOMAIN Conditions :
       Conditions[m] \subseteq {"int", "NE", "GT", "GE", "LT", "LE", "EQ"}

VARIABLES
  mode,        (* which client generates code: "icode" or "vcode"          *)
  table,       (* [address, refs, count]: labels[] and label_count         *)
  i_lab_cur,   (* icode: the next number of i_mklabel                      *)
  client,      (* label numbers the client owns in this function           *)
  code_start,  (* where the current function begins                        *)
  ip,          (* v_ip                                                     *)
  phase,       (* "idle", "open", or the message of the v_fatal that ended *)
               (* the program                                              *)
  wants,       (* history: displacement -> the target it was emitted for   *)
  placed,      (* history: target -> its address                           *)
  patched      (* displacement -> the address labels_end wrote there; these *)
               (* three are about the current function                     *)

vars == <<mode, table, i_lab_cur, client, code_start, ip, phase, wants, placed, patched>>

\* Mutated form: icode counts from 1, as if vcode had no label of its own.
Mut_FromOne == 1

min_lab == 2
Numbers == 1 .. MaxLabels - 1
NoAddress == -1
epilogue_label == 1

\* Targets as the emitter means them: a label of the client, the epilogue, or
\* the join point local to one instruction, named by where that is.
ClientLabel(l) == [kind |-> "client", id |-> l]
Epilogue == [kind |-> "epilogue", id |-> 0]
Local(a) == [kind |-> "local", id |-> a]

Extend(f, x, v) == [y \in DOMAIN f \cup {x} |-> IF y = x THEN v ELSE f[y]]
Empty == [x \in {} |-> 0]

-----------------------------------------------------------------------------
(* The table's operations, on a table value.                               *)

NoLabels ==
  [address |-> [l \in Numbers |-> NoAddress],
   refs |-> [l \in Numbers |-> {}],
   count |-> 1]

\* Mutated form: the table is not cleared, only the count is.
Mut_StartKeepsRecords == [table EXCEPT !.count = 1]

labels_start == NoLabels

CanGenerate(t) == t.count < MaxLabels

v_genlabel(t) == [t EXCEPT !.count = @ + 1]     \* returns t.count

ensure_label(t, l) == IF l >= t.count THEN [t EXCEPT !.count = l + 1] ELSE t
v_label(t, l, a) == [ensure_label(t, l) EXCEPT !.address[l] = a]
CanRefer(t, l) == l \in Numbers /\ Cardinality(t.refs[l]) < MaxRefs
add_reference(t, l, a) == [ensure_label(t, l) EXCEPT !.refs[l] = @ \cup {a}]

\* labels_end fails when a referenced label was never placed.
Unresolved(t) ==
  {l \in Numbers : l < t.count /\ t.refs[l] # {} /\ t.address[l] = NoAddress}

Resolved(t) ==
  [a \in UNION {t.refs[l] : l \in {k \in Numbers : k < t.count}} |->
     t.address[CHOOSE l \in Numbers : l < t.count /\ a \in t.refs[l]]]

-----------------------------------------------------------------------------
Init ==
  /\ mode \in DOMAIN Conditions
  /\ table = NoLabels
  /\ i_lab_cur = min_lab
  /\ client = {}
  /\ code_start = 0 /\ ip = 0
  /\ phase = "idle"
  /\ wants = Empty /\ placed = Empty /\ patched = Empty

v_fatal(message) ==
  /\ phase' = message
  /\ UNCHANGED <<table, i_lab_cur, client, code_start, ip, wants, placed, patched>>

\* i_mklabel: in icode mode labels are made while the program is built, before
\* translation starts.  The bound max_lab is far above MAX_LABELS.
i_mklabel ==
  /\ mode = "icode" /\ phase = "idle"
  /\ i_lab_cur <= MaxLabels
  /\ client' = client \cup {i_lab_cur}
  /\ i_lab_cur' = i_lab_cur + 1
  /\ UNCHANGED <<table, code_start, ip, phase, wants, placed, patched>>

\* v_lambda and v_clambda: an empty table whose label 1 is the epilogue.
v_lambda ==
  /\ phase = "idle"
  /\ phase' = "open"
  /\ table' = v_genlabel(labels_start)
  /\ code_start' = ip
  /\ wants' = Empty /\ placed' = Empty /\ patched' = Empty
  /\ UNCHANGED <<i_lab_cur, client, ip>>

\* A vcode client makes a label at any time.
NewLabel ==
  /\ mode = "vcode" /\ phase = "open"
  /\ IF CanGenerate(table)
     THEN /\ client' = client \cup {table.count}
          /\ table' = v_genlabel(table)
          /\ UNCHANGED <<i_lab_cur, code_start, ip, phase, wants, placed, patched>>
     ELSE v_fatal("too many labels")

\* i_x_lbl and v_label: the client places each of its labels at most once.
PlaceLabel(l) ==
  /\ phase = "open"
  /\ l \in client /\ ClientLabel(l) \notin DOMAIN placed
  /\ IF l \in Numbers
     THEN /\ table' = v_label(table, l, ip)
          /\ placed' = Extend(placed, ClientLabel(l), ip)
          /\ UNCHANGED <<i_lab_cur, client, code_start, ip, phase, wants, patched>>
     ELSE v_fatal("label out of range")

\* An instruction that emits displacements for the targets in order.
Emits(t, targets, n) ==
  /\ table' = t
  /\ ip' = ip + n
  /\ wants' = [a \in DOMAIN wants \cup (ip .. ip + n - 1) |->
                 IF a \in DOMAIN wants THEN wants[a] ELSE targets[a - ip]]
  /\ UNCHANGED <<i_lab_cur, client, code_start, phase, patched>>

\* v_jv, and v_emit_branch on integers or on the floating-point conditions that
\* are false when the operands are unordered.
BranchOnce(l, condition) ==
  /\ phase = "open" /\ l \in client /\ ip < MaxIp
  /\ condition \in Conditions[mode] \cap {"int", "GT", "GE"}
  /\ IF CanRefer(table, l)
     THEN /\ Emits(add_reference(table, l, ip), [i \in {0} |-> ClientLabel(l)], 1)
          /\ UNCHANGED placed
     ELSE v_fatal("label out of range, or too many references")

\* Floating-point `not equal' jumps on unordered and on not-equal.
BranchUnequal(l) ==
  LET t1 == add_reference(table, l, ip) IN
  /\ phase = "open" /\ l \in client /\ ip + 1 < MaxIp
  /\ "NE" \in Conditions[mode]
  /\ IF CanRefer(table, l) /\ CanRefer(t1, l)
     THEN /\ Emits(add_reference(t1, l, ip + 1), [i \in {0, 1} |-> ClientLabel(l)], 2)
          /\ UNCHANGED placed
     ELSE v_fatal("label out of range, or too many references")

\* Floating-point <, <= and == first jump over the branch when the operands
\* are unordered, to a label that v_genlabel supplies.
BranchOrdered(l, condition) ==
  LET ordered == table.count
      t1 == v_genlabel(table)
      t2 == add_reference(t1, ordered, ip)
      t3 == add_reference(t2, l, ip + 1)
      over == Local(ip)
  IN
  /\ phase = "open" /\ l \in client /\ ip + 1 < MaxIp
  /\ condition \in Conditions[mode] \cap {"LT", "LE", "EQ"}
  /\ IF CanGenerate(table) /\ CanRefer(t1, ordered) /\ CanRefer(t2, l)
     THEN /\ Emits(v_label(t3, ordered, ip + 2),
                   [i \in {0, 1} |-> IF i = 0 THEN over ELSE ClientLabel(l)], 2)
          /\ placed' = Extend(placed, over, ip + 2)
     ELSE v_fatal("too many labels or references")

\* v_emit_return.
Return ==
  /\ phase = "open" /\ ip < MaxIp
  /\ IF CanRefer(table, epilogue_label)
     THEN /\ Emits(add_reference(table, epilogue_label, ip), [i \in {0} |-> Epilogue], 1)
          /\ UNCHANGED placed
     ELSE v_fatal("label out of range, or too many references")

\* v_va_arg: a branch to the overflow area and a jump over it.
VaArg ==
  LET overflow == table.count
      done == table.count + 1
      t2 == v_genlabel(v_genlabel(table))
      t3 == add_reference(add_reference(t2, overflow, ip), done, ip + 1)
      t4 == v_label(v_label(t3, overflow, ip + 2), done, ip + 2)
  IN
  /\ mode = "vcode" /\ phase = "open" /\ ip + 1 < MaxIp
  /\ IF CanGenerate(table) /\ CanGenerate(v_genlabel(table))
     THEN /\ Emits(t4, [i \in {0, 1} |-> Local(ip + i)], 2)
          /\ placed' = Extend(Extend(placed, Local(ip), ip + 2), Local(ip + 1), ip + 2)
     ELSE v_fatal("too many labels")

\* v_end: place the epilogue, patch every displacement.  i_reset and the next
\* v_lambda make the label numbers available again.
v_end ==
  LET t == v_label(table, epilogue_label, ip) IN
  /\ phase = "open"
  /\ IF Unresolved(t) = {}
     THEN /\ phase' = "idle"
          /\ table' = t
          /\ placed' = Extend(placed, Epilogue, ip)
          /\ patched' = Resolved(t)
          /\ client' = {}
          /\ i_lab_cur' = min_lab
          /\ UNCHANGED <<code_start, ip, wants>>
     ELSE v_fatal("unresolved label")

Step ==
  \/ i_mklabel
  \/ v_lambda
  \/ NewLabel
  \/ \E l \in client :
       \/ PlaceLabel(l)
       \/ \E c \in Conditions[mode] : BranchOnce(l, c)
       \/ BranchUnequal(l)
       \/ \E c \in Conditions[mode] : BranchOrdered(l, c)
  \/ Return
  \/ VaArg
  \/ v_end

Next == Step /\ UNCHANGED mode

Spec == Init /\ [][Next]_vars

-----------------------------------------------------------------------------

\* A label number stands for one target: the displacements recorded under it
\* were all emitted for the same label.  This is what lets vcode use icode's
\* numbers without a map (icode/icode-internal.h:21).
OneTargetPerNumber ==
  phase = "open" =>
    \A l \in Numbers : \A a, b \in table.refs[l] : wants[a] = wants[b]

\* When a function is finished, every displacement it contains was patched
\* with the address of the very target it was emitted for: no branch is left
\* at zero and none is captured by another user of the same label number.
\* Nothing else is written: the code of earlier functions, which may be
\* running and whose pages are sealed, stays as it is.
EveryBranchLands ==
  [][phase = "open" /\ phase' = "idle" =>
       /\ DOMAIN patched' = code_start .. ip - 1
       /\ \A a \in code_start .. ip - 1 :
            /\ wants[a] \in DOMAIN placed'
            /\ patched'[a] = placed'[wants[a]]]_vars

=============================================================================
