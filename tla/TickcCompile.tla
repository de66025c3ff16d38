---------------------------- MODULE TickcCompile ----------------------------
(***************************************************************************)
(* The icode side of the tick-C run-time system, src/src/rts/tickc-rts.c:  *)
(* what a program does between two calls of compile().  Evaluating `-      *)
(* expressions allocates closures (cspecs) in an arena, registers jump     *)
(* targets, opens dynamic call contexts and declares parameters and        *)
(* locals; _tc_compile then labels the targets, lets the closures' code    *)
(* generating functions (CGFs) append to icode's buffer, translates it, and *)
(* resets the run-time system and icode for the next function.  All of     *)
(* this is file-scope state with several ways out of _tc_compile, and the  *)
(* arena that holds the closures is emptied by each of them.               *)
(*                                                                         *)
(* Cspecs are 1 .. NCspecs.  An instruction keeps what matters for         *)
(* control: a jump or a label with its number and, as history, the cspec   *)
(* it is for; a label a CGF makes for itself has a negative id.            *)
(***************************************************************************)
EXTENDS Integers, FiniteSets, SequencesExt

CONSTANTS
  NCspecs,     (* cspecs that can be alive together (bound)                 *)
  TC_MAXCALL,  (* size of _tc_dcc                                           *)
  TC_MAXPARAM, (* argument slots of a context, and icode's max_param        *)
  TC_MAXTARG,  (* growth step of the target list                            *)
  max_lab,     (* icode's label limit                                       *)
  Calls,       (* contexts the program opens for one function (bound)       *)
  MaxTargets,  (* jump targets it registers for one function (bound)        *)
  MaxInsn      (* instructions its CGFs append for one function (bound)     *)

ASSUME TickcAssumption ==
  /\ {NCspecs, TC_MAXCALL, TC_MAXPARAM, TC_MAXTARG} \subseteq Nat \ {0}
  /\ {max_lab, Calls, MaxTargets, MaxInsn} \subseteq Nat

VARIABLES
  lab,      (* cspec -> its label field; Dead when it is not allocated      *)
  rts,      (* _tc_init, _tc_dtargets[0 .. _tc_curtarg-1], _tc_maxtarg,     *)
            (* _tc_dcp - _tc_dcc, _tc_phase                                 *)
  contexts, (* _tc_dcc: context -> the closures in slots below its argnum   *)
  icode,    (* i_buf .. i_ip, whether i_params[k].t is not -1, i_params_cur, *)
            (* i_lab_cur, i_has_aggregate_result, i_quit                    *)
  phase,    (* "specify", "generate", or how the program ended              *)
  ghost     (* history: i_buf and the target list are arena storage of the  *)
            (* current function (ready, capacity); instructions appended    *)
            (* and parameters declared in it; whether a declaration         *)
            (* preceded compile(); what the last compile returned           *)

vars == <<lab, rts, contexts, icode, phase, ghost>>

Cspecs == 1 .. NCspecs
Dead == -1
min_lab == 2
Slots == 0 .. TC_MAXPARAM - 1
Alive == {c \in Cspecs : lab[c] # Dead}

Fatal == phase' = "fatal"

\* i_init: a fresh buffer, no parameter allocated.
i_init(ic) == [ic EXCEPT !.buf = <<>>, !.params = [k \in Slots |-> FALSE]]

\* Mutated form: _tc_local initialises icode again each time.
Mut_EnsureInitAlways ==
  [icode |-> i_init(icode), rts |-> [rts EXCEPT !.init = TRUE],
   ghost |-> [ghost EXCEPT !.ready = TRUE]]

(* What _tc_local and _tc_param do first. *)
EnsureInit ==
  IF rts.init
  THEN [icode |-> icode, rts |-> rts, ghost |-> ghost]
  ELSE [icode |-> i_init(icode), rts |-> [rts EXCEPT !.init = TRUE],
        ghost |-> [ghost EXCEPT !.ready = TRUE]]

-----------------------------------------------------------------------------
Init ==
  /\ lab = [c \in Cspecs |-> Dead]
  /\ rts = [init |-> FALSE, targets |-> <<>>, maxtarg |-> 0, dcp |-> 0, quit |-> "no"]
  /\ contexts = [d \in 0 .. TC_MAXCALL |-> <<>>]
  /\ icode = [buf |-> <<>>, params |-> [k \in Slots |-> TRUE], params_cur |-> 0,
              lab_cur |-> min_lab, aggregate |-> FALSE, quit |-> FALSE]
  /\ phase = "specify"
  /\ ghost = [ready |-> FALSE, capacity |-> 0, emitted |-> <<>>, given |-> {},
              early |-> FALSE, result |-> "none"]

(* A `-expression: rcc allocates the closure and stores 0 in its label. *)
NewCspec(c) ==
  /\ phase = "specify" /\ lab[c] = Dead
  /\ lab' = [lab EXCEPT ![c] = 0]
  /\ UNCHANGED <<rts, contexts, icode, phase, ghost>>

(* _tc_mktarget, with extendlist: a full list is replaced by a larger one  *)
(* allocated in the arena.                                                 *)
_tc_mktarget(c) ==
  /\ phase = "specify" /\ c \in Alive
  /\ Len(rts.targets) < MaxTargets
  /\ lab' = [lab EXCEPT ![c] = 0]
  /\ LET full == Len(rts.targets) = rts.maxtarg
         size == rts.maxtarg + TC_MAXTARG
     IN  /\ rts' = [rts EXCEPT !.targets = Append(@, c),
                               !.maxtarg = IF full THEN size ELSE @]
         /\ ghost' = [ghost EXCEPT !.capacity = IF full THEN size ELSE @]
  /\ UNCHANGED <<contexts, icode, phase>>

(* _tc_push_init: the pointer is advanced, then compared. *)
_tc_push_init ==
  /\ phase = "specify" /\ rts.dcp < Calls
  /\ rts' = [rts EXCEPT !.dcp = @ + 1]
  /\ IF rts.dcp > TC_MAXCALL
     THEN Fatal /\ UNCHANGED contexts
     ELSE contexts' = [contexts EXCEPT ![rts.dcp] = <<>>] /\ UNCHANGED phase
  /\ UNCHANGED <<lab, icode, ghost>>

(* _tc_push *)
_tc_push(d, c) ==
  /\ phase = "specify" /\ d < rts.dcp /\ c \in Alive
  /\ IF Len(contexts[d]) >= TC_MAXPARAM
     THEN Fatal /\ UNCHANGED contexts
     ELSE contexts' = [contexts EXCEPT ![d] = Append(@, c)] /\ UNCHANGED phase
  /\ UNCHANGED <<lab, rts, icode, ghost>>

(* _tc_arg on a slot that is in use; rcc's clients fill slots in order, so *)
(* a new slot is _tc_push's.                                               *)
_tc_arg(d, k, c) ==
  /\ phase = "specify" /\ d < rts.dcp /\ k \in DOMAIN contexts[d] /\ c \in Alive
  /\ contexts' = [contexts EXCEPT ![d][k] = c]
  /\ UNCHANGED <<lab, rts, icode, phase, ghost>>

(* _tc_local and _tc_localb: called while specifying and from CGFs. *)
_tc_local ==
  /\ phase \in {"specify", "generate"}
  /\ LET e == EnsureInit IN icode' = e.icode /\ rts' = e.rts /\ ghost' = e.ghost
  /\ UNCHANGED <<lab, contexts, phase>>

(* _tc_param through i_paramn or i_paramb: slot k is registered and        *)
(* i_params_cur raised past it.                                            *)
_tc_param(k) ==
  /\ phase = "specify"
  /\ LET e == EnsureInit IN
       /\ rts' = e.rts
       /\ IF k >= TC_MAXPARAM
          THEN Fatal /\ icode' = e.icode /\ ghost' = e.ghost
          ELSE /\ icode' = [e.icode EXCEPT !.params[k] = TRUE,
                     !.params_cur = IF k >= @ THEN k + 1 ELSE @]
               /\ ghost' = [e.ghost EXCEPT !.given = @ \cup {k}]
               /\ UNCHANGED phase
  /\ UNCHANGED <<lab, contexts>>

(* tc_end_closures, tc_end_IIR and the i_end_ family: benchmarking modes.  *)
(* The program sets one before it specifies a function.                    *)
SetPhase(q) ==
  /\ phase = "specify" /\ rts.quit = "no" /\ ~icode.quit /\ Alive = {} /\ ~rts.init
  /\ IF q = "icode"
     THEN icode' = [icode EXCEPT !.quit = TRUE] /\ UNCHANGED rts
     ELSE rts' = [rts EXCEPT !.quit = q] /\ UNCHANGED icode
  /\ UNCHANGED <<lab, contexts, phase, ghost>>

-----------------------------------------------------------------------------
\* Mutated form: the size of the target list survives.
Mut_CleanupKeepsLimit(r) ==
  [r EXCEPT !.dcp = 0, !.targets = <<>>, !.init = FALSE]

_tc_cleanup_compile(r) ==
  [r EXCEPT !.dcp = 0, !.targets = <<>>, !.maxtarg = 0, !.init = FALSE]

(* The state i_reset sets; the buffer goes with the arena tc_adealloc empties. *)
i_reset(ic) ==
  [ic EXCEPT !.buf = <<>>, !.lab_cur = min_lab, !.params_cur = 0, !.aggregate = FALSE]

(* Every way out of _tc_compile: cleanup, i_reset, and the arena emptied. *)
Leave(ic, r) ==
  /\ rts' = _tc_cleanup_compile(rts)
  /\ icode' = i_reset(ic)
  /\ lab' = [c \in Cspecs |-> Dead]
  /\ ghost' = [ghost EXCEPT !.ready = FALSE, !.capacity = 0, !.emitted = <<>>,
                            !.given = {}, !.early = FALSE, !.result = r]
  /\ phase' = "specify"
  /\ UNCHANGED contexts

-----------------------------------------------------------------------------
\* Where the loop meets a target that has no label yet.
Unlabelled ==
  {i \in DOMAIN rts.targets :
     lab[rts.targets[i]] = 0 /\ \A j \in 1 .. i - 1 : rts.targets[j] # rts.targets[i]}

\* Mutated form: i_mklabel is called once, before the loop.
Mut_LabelHoisted ==
  [c \in Cspecs |->
     IF \E i \in Unlabelled : rts.targets[i] = c THEN icode.lab_cur + 1 ELSE lab[c]]
\* One number is thrown away; each target met without a label gets the next one.
LabelTargets ==
  [c \in Cspecs |->
     IF \E i \in Unlabelled : rts.targets[i] = c
     THEN icode.lab_cur
            + Cardinality({j \in Unlabelled : \E i \in Unlabelled : rts.targets[i] = c /\ j <= i})
     ELSE lab[c]]

(* _tc_compile up to cs->code(cs); aggregate is type == TC_B. *)
CompileStart(aggregate) ==
  LET n == Cardinality(Unlabelled)
      ready == IF rts.init THEN icode ELSE i_init(icode)
  IN
  /\ phase = "specify" /\ rts.quit # "closures"
  /\ Alive # {}
  /\ ghost' = [ghost EXCEPT !.early = rts.init, !.ready = TRUE,
                            !.emitted = <<>>, !.result = "none"]
  /\ LET ic == [ready EXCEPT !.aggregate = aggregate \/ @] IN
     IF rts.targets = <<>>
     THEN icode' = ic /\ phase' = "generate" /\ UNCHANGED lab
     ELSE IF icode.lab_cur + n + 1 > max_lab
     THEN Fatal /\ icode' = ic /\ UNCHANGED lab
     ELSE /\ lab' = LabelTargets
          /\ icode' = [ic EXCEPT !.lab_cur = @ + n + 1]
          /\ phase' = "generate"
  /\ UNCHANGED <<rts, contexts>>

(* _tc_compile while only closures are measured. *)
CompileClosuresOnly(aggregate) ==
  /\ phase = "specify" /\ rts.quit = "closures" /\ Alive # {}
  /\ Leave([icode EXCEPT !.aggregate = aggregate \/ @], "null")

-----------------------------------------------------------------------------
(* What CGFs do. *)
Insn(op, l, of) == [op |-> op, l |-> l, of |-> of]
Room(n) == Len(ghost.emitted) + n <= MaxInsn

Emit(s) ==
  /\ icode' = [icode EXCEPT !.buf = @ \o s]
  /\ ghost' = [ghost EXCEPT !.emitted = @ \o s]

Operate ==
  /\ phase = "generate" /\ Room(1)
  /\ Emit(<<Insn("op", 0, 0)>>)
  /\ UNCHANGED <<lab, rts, contexts, phase>>

(* A CGF of a loop: a label of its own from i_mklabel and a jump to it. *)
OwnLoop ==
  /\ phase = "generate" /\ Room(2)
  /\ IF icode.lab_cur >= max_lab
     THEN Fatal /\ UNCHANGED <<icode, ghost>>
     ELSE LET l == icode.lab_cur
              id == -(Len(ghost.emitted) + 1)
              s == <<Insn("lbl", l, id), Insn("jp", l, id)>>
          IN  /\ icode' = [icode EXCEPT !.buf = @ \o s, !.lab_cur = @ + 1]
              /\ ghost' = [ghost EXCEPT !.emitted = @ \o s]
              /\ UNCHANGED phase
  /\ UNCHANGED <<lab, rts, contexts>>

(* _tc_jump: rcc registers the destination of every jump as a target. *)
_tc_jump(c) ==
  /\ phase = "generate" /\ Room(1) /\ Contains(rts.targets, c)
  /\ IF lab[c] > 0
     THEN Emit(<<Insn("jp", lab[c], c)>>) /\ UNCHANGED phase
     ELSE phase' = "assertion" /\ UNCHANGED <<icode, ghost>>
  /\ UNCHANGED <<lab, rts, contexts>>

(* _tc_label: the program composes a label cspec once. *)
_tc_label(c) ==
  /\ phase = "generate" /\ c \in Alive
  /\ \A i \in DOMAIN ghost.emitted :
        ~(ghost.emitted[i].op = "lbl" /\ ghost.emitted[i].of = c)
  /\ lab[c] # 0 /\ Room(1)
  /\ Emit(<<Insn("lbl", lab[c], c)>>)
  /\ UNCHANGED <<lab, rts, contexts, phase>>

(* _tc_dargs: one argument instruction per slot below argnum. *)
_tc_dargs(d) ==
  /\ phase = "generate" /\ d < rts.dcp
  /\ contexts[d] # <<>> /\ Room(Len(contexts[d]))
  /\ Emit([k \in DOMAIN contexts[d] |-> Insn("arg", 0, contexts[d][k])])
  /\ UNCHANGED <<lab, rts, contexts, phase>>

-----------------------------------------------------------------------------
\* Mutated form: a hole in the parameter list is not noticed.
Mut_IncompleteParams == FALSE
\* "Incomplete parameter allocation" in i_emit.
IncompleteParams == \E k \in 0 .. icode.params_cur - 1 : ~icode.params[k]

(* _tc_compile after cs->code(cs): i_end, and i_emit unless only the IR is *)
(* measured.                                                               *)
CompileEnd ==
  /\ phase = "generate"
  /\ IF rts.quit # "IIR" /\ IncompleteParams
     THEN Fatal /\ UNCHANGED <<lab, rts, contexts, icode, ghost>>
     ELSE LET code == IF rts.quit = "IIR" \/ icode.quit THEN "null" ELSE "code"
          IN  Leave(icode, code)

Next ==
  \/ \E c \in Cspecs :
       NewCspec(c) \/ _tc_mktarget(c) \/ _tc_jump(c) \/ _tc_label(c)
  \/ _tc_push_init \/ _tc_local \/ Operate \/ OwnLoop \/ CompileEnd
  \/ \E d \in 0 .. TC_MAXCALL :
       \/ _tc_dargs(d)
       \/ \E c \in Cspecs : _tc_push(d, c)
                            \/ \E k \in 1 .. TC_MAXPARAM : _tc_arg(d, k, c)
  \/ \E k \in 0 .. TC_MAXPARAM : _tc_param(k)
  \/ \E q \in {"closures", "IIR", "icode"} : SetPhase(q)
  \/ \E aggregate \in BOOLEAN : CompileStart(aggregate) \/ CompileClosuresOnly(aggregate)

Spec == Init /\ [][Next]_vars

-----------------------------------------------------------------------------

(* Nothing that is kept in static variables outlives the arena it points   *)
(* into, whichever way the last compile ended: the target list lies within *)
(* storage of this function, targets and arguments are closures of this    *)
(* function, and when _tc_init is set so is icode's buffer.                *)
NothingOutlivesArena ==
  /\ rts.maxtarg = ghost.capacity
  /\ Len(rts.targets) <= ghost.capacity
  /\ ToSet(rts.targets) \subseteq Alive
  /\ \A d \in 0 .. TC_MAXCALL :
       d < rts.dcp => ToSet(contexts[d]) \subseteq Alive
  /\ rts.init => ghost.ready

(* Jumps reach what they were written for: two instructions of a function  *)
(* that carry the same number were emitted for the same label, whether a   *)
(* jump target's or a CGF's own; and no jump is emitted before its target  *)
(* has a number (the assertion dst->lab > 0 in _tc_jump).                  *)
JumpsReachTheirLabels ==
  /\ phase # "assertion"
  /\ \A i, j \in DOMAIN icode.buf :
       LET a == icode.buf[i]  b == icode.buf[j]
       IN  a.op \in {"jp", "lbl"} /\ b.op = "lbl" /\ a.l = b.l => a.of = b.of

(* A function that declared something before compile() keeps every         *)
(* instruction its CGFs append, also when they declare more locals.        *)
InstructionsKept ==
  phase = "generate" /\ ghost.early => icode.buf = ghost.emitted

(* Code is produced only for a function that declared, in this             *)
(* specification, every parameter below the highest one it uses.           *)
EmitsOnlyCompleteParams ==
  [][(phase = "generate" /\ phase' = "specify" /\ ghost'.result = "code")
       => ghost.given = 0 .. icode.params_cur - 1]_vars

=============================================================================
