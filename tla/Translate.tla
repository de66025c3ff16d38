----------------------------- MODULE Translate ------------------------------
(***************************************************************************)
(* The translator from icode to vcode: the instruction cells that the      *)
(* macros of src/src/icode/macros-pat.h write and the functions that       *)
(* src/src/icode/gen/xlate.pl generates to read them, one per kind of      *)
(* instruction.  Each emits vcode for the places register allocation chose *)
(* for the operands: operands in memory go through scratch registers, and  *)
(* calls move what lives in caller-saved registers out of the way.         *)
(*                                                                         *)
(* A behaviour translates a short piece of straight-line code and runs     *)
(* what is emitted at once.  `m' holds the contents of registers and slots, *)
(* `env' what the client's instructions give the locals, and `did' what the *)
(* last instruction showed to the outside: a store, a branch, a call.      *)
(* Values of 8 bytes are numbers below 9, those of 4 bytes the remainder   *)
(* by 3, so that an access of the wrong width shows.  No pass gives a local *)
(* the storage class DATA.                                                 *)
(***************************************************************************)
EXTENDS Integers, Sequences, FiniteSets, SequencesExt

CONSTANTS
  TypeOf,     (* local -> "i" 4 bytes, "p" 8 bytes, "d" floating point       *)
  Assignments,(* ways to give each local a register, by name                 *)
  Width,      (* 2 ^ i_width: a field of a cell is a number below            *)
  Programs,   (* the pieces of code: sequences of instructions               *)
  Allocators  (* the values of i_ralloctype                                  *)

Locals == DOMAIN TypeOf
Floats == {l \in Locals : TypeOf[l] = "d"}

\* Special operands: the number zero and the frame as a base.
i_zero == Width - 1
i_lp == Width - 2

ASSUME TranslateAssumption ==
  /\ Width \in Nat /\ Locals \subseteq 0 .. Width - 3
  /\ \A f \in Assignments : DOMAIN f = Locals
  /\ Allocators \subseteq {"RA_EZ", "RA_GC", "RA_LR", "RA_LS"}

VARIABLES
  alloc,    (* i_ralloctype                                                 *)
  prog,     (* the code as the client wrote it                              *)
  liveOut,  (* the locals still read after the call in it, and at its end   *)
  buf, cp,  (* i_buf and the cell the translator has come to                *)
  home,     (* SCLASS and ADDR as register allocation left them             *)
  at,       (* SCLASS and ADDR now                                          *)
  ctx,      (* vpushinit, the arguments in vcs, and `saves'                 *)
  pc,       (* history: the instruction of prog that cp has come to         *)
  m, env, did

xvars == <<alloc, prog, liveOut, buf, cp, home, at, ctx, pc, m, env, did>>

-----------------------------------------------------------------------------
(* Values.                                                                 *)

Values == 0 .. 8
Trunc(ty, v) == IF ty = "p" THEN v % 9 ELSE v % 3
Dead == -1

Binary(ty, a, b) == Trunc(ty, 2 * a + b + 1)
Unary(ty, a) == Trunc(ty, a + 1)
Convert(from, to, a) == Trunc(to, 2 * Trunc(from, a))
Peek(ty, base, offset) == Trunc(ty, base + 2 * offset + 2)
Answer(ty, callee, args) == Trunc(ty, callee + 2 * Len(args) + 1)
FrameBase == 4
AddressOf(l) == (FrameBase + l) % 9
CodePtr == 7
ReturnedBlock == 5

-----------------------------------------------------------------------------
(* Cells.  An instruction is two cells, the first with the opcode and two   *)
(* fields, the second with a third field or an immediate; calls have two    *)
(* more for the locals that live on.                                        *)

i_isize == 2

set_rd(x) == (x % Width) * Width
set_rs(x) == x % Width
set_rs2(x) == x % Width
get_rd(c) == (c.fields \div Width) % Width
get_rs(c) == c.fields % Width
get_rs2(w) == w

CallKinds == {"call", "calli", "callv", "callvi", "callb", "callbi"}
ThreeLocals == {"bop", "mopr", "mopw", "br"}

\* What the macro of instruction i writes, `save' being what a later pass puts
\* into the cells of a call.
Cells(i, save) ==
  LET fields == set_rd(IF i.k \in {"br", "bri"} THEN i.label ELSE i.rd) + set_rs(i.rs)
  IN  <<[k |-> i.k, ty |-> i.ty, from |-> i.from, fields |-> fields],
        IF i.k \in ThreeLocals THEN set_rs2(i.rs2) ELSE i.imm>>
      \o IF i.k \in CallKinds THEN <<[k |-> "isav", locals |-> save], [k |-> "fsav", locals |-> save]>>
         ELSE <<>>

-----------------------------------------------------------------------------
(* Places and scratch registers.                                           *)

Slot(l) == <<"slot", l>>       \* where allocation put a local in memory
Saved(l) == <<"saved", l>>     \* the frame slot of a save around a call
InMemory(s, l) == s.at[l] \in {Slot(l), Saved(l)}

Register(name) == <<name, 0>>
T0 == Register("t0")
T1 == Register("t1")
T2 == Register("t2")
FT0 == Register("ft0")
FT1 == Register("ft1")
Fresh == Register("fresh")     \* one that neither icode nor its scratch uses

t0(ty) == IF ty = "d" THEN FT0 ELSE T0
t1(ty) == IF ty = "d" THEN FT1 ELSE T1
Scratch == {T0, T1, T2, FT0, FT1}

\* i_ireg_alltmp and i_freg_alltmp: icallersave and fcallersave.
CallerSaved == Scratch

HomeRegisters == {Register(r) : r \in UNION {Range(f) : f \in Assignments}}
Places == HomeRegisters \cup Scratch \cup {Fresh} \cup {Slot(l) : l \in Locals} \cup {Saved(l) : l \in Locals}

\* The state of a translation and of the machine that runs it.
Now == [at |-> at, ctx |-> ctx, m |-> m]

Put(s, place, v) == [s EXCEPT !.m[place] = v]

i_find(s, t, l) == IF InMemory(s, l) THEN t ELSE s.at[l]

\* What i_load emits; the register it returns is i_find's.
i_load(s, t, l, ty) == IF InMemory(s, l) THEN Put(s, t, Trunc(ty, s.m[s.at[l]])) ELSE s

i_store(s, t, l, ty) == IF s.at[l] = t THEN s ELSE Put(s, s.at[l], Trunc(ty, s.m[t]))

-----------------------------------------------------------------------------
(* Calls.                                                                  *)

NoCall == [init |-> FALSE, args |-> <<>>, saves |-> [l \in {} |-> T0]]

\* doisave and dofsave for the locals of ls: out of their caller-saved
\* registers; those to be restored are remembered in `saves'.
dosave(s, ls, restore) ==
  LET moved == {l \in ls : s.at[l] \in CallerSaved}
  IN  [s EXCEPT !.at = [l \in Locals |-> IF l \in moved THEN Saved(l) ELSE @[l]],
                !.m = [p \in Places |-> IF \E l \in moved : p = Saved(l)
                                        THEN s.m[s.at[CHOOSE l \in moved : p = Saved(l)]] ELSE @[p]],
                !.ctx.saves = IF restore THEN [l \in moved |-> s.at[l]] ELSE @]

dorestore(s) ==
  LET saves == s.ctx.saves
  IN  [s EXCEPT !.at = [l \in Locals |-> IF l \in DOMAIN saves THEN saves[l] ELSE @[l]],
                !.m = [p \in Places |-> IF \E l \in DOMAIN saves : p = saves[l]
                                        THEN s.m[s.at[CHOOSE l \in DOMAIN saves : p = saves[l]]] ELSE @[p]],
                !.ctx = NoCall]

IsCall(c) == c.k \in CallKinds
Firsts == {n \in DOMAIN buf : n % 2 = 1 /\ n >= cp}   \* where ccp may stand

\* The call that the code from cp on leads to.
NextCall == CHOOSE n \in Firsts : IsCall(buf[n]) /\ \A k \in Firsts : k < n => ~IsCall(buf[k])

\* The arguments on the way, and the locals whose values the call must leave:
\* in mode RA_LS those whose live interval meets it, else what the allocator
\* stored in the call's cells, nothing in mode RA_EZ.
ArgLocals == {get_rd(buf[n]) : n \in {k \in Firsts : k < NextCall /\ buf[k].k \in {"arg", "argb"}}}

Spanning == {l \in Locals : env[l] # Dead} \cup ({get_rd(buf[NextCall])} \cap Locals)
ToSave == IF alloc = "RA_LS" THEN Spanning ELSE buf[NextCall + i_isize].locals

\* Mutated form: nothing is remembered for the restore after the call.
Mut_callinit(s) == dosave(dosave(s, ToSave, FALSE), ArgLocals \ ToSave, FALSE)

callinit(s) == dosave(dosave(s, ToSave, TRUE), ArgLocals \ ToSave, FALSE)

\* The context is set up before the first argument or, without arguments,
\* before the call.
Prepared(s) == IF s.ctx.init THEN s ELSE [callinit(s) EXCEPT !.ctx.init = TRUE]

Pushed(s, v) == [s EXCEPT !.ctx.args = Append(@, v)]

\* vcode's call on the processor leaves caller-saved registers undefined.  Its
\* result is in a register of vcode's choice, the scratch registers not
\* excepted: reserve_registers reserves none.
Results(ty) == IF ty = "d" THEN {FT0, FT1, Fresh} ELSE {T0, T1, Fresh}

Called(s, result, v) ==
  [s EXCEPT !.m = [p \in Places |-> IF p = result THEN v ELSE IF p \in CallerSaved THEN 8 ELSE @[p]]]

-----------------------------------------------------------------------------
(* What the client's instructions mean.                                    *)

BaseValue(b, e) == IF b = i_zero THEN 0 ELSE IF b = i_lp THEN FrameBase ELSE e[b]

ArgsMeant ==
  LET arg(i) == IF i.k = "argb" THEN <<env[i.rd], i.imm>> ELSE env[i.rd]
      args == SelectSeq(prog, LAMBDA i : i.k \in {"arg", "argb"})
  IN  [n \in DOMAIN args |-> arg(args[n])]

Defined(i, e) ==
  CASE i.k = "bop" -> Binary(i.ty, e[i.rs], e[i.rs2])
    [] i.k = "bopi" -> Binary(i.ty, e[i.rs], i.imm)
    [] i.k = "uop" -> Unary(i.ty, e[i.rs])
    [] i.k = "uopi" -> Unary(i.ty, i.imm)
    [] i.k = "mov" -> e[i.rs]
    [] i.k = "cv" -> Convert(i.from, i.ty, e[i.rs])
    [] i.k = "set" -> Trunc(i.ty, i.imm)
    [] i.k = "mopr" -> Peek(i.ty, BaseValue(i.rs, e), e[i.rs2])
    [] i.k = "mopri" -> Peek(i.ty, BaseValue(i.rs, e), i.imm)
    [] i.k = "lea" -> AddressOf(i.rs)
    [] i.k = "self" -> CodePtr
    [] i.k = "call" -> Answer(i.ty, e[i.rs], ArgsMeant)
    [] i.k = "calli" -> Answer(i.ty, i.imm, ArgsMeant)

Shown(i, e) ==
  CASE i.k = "mopw" -> <<BaseValue(i.rs, e), e[i.rs2], e[i.rd]>>
    [] i.k = "mopwi" -> <<BaseValue(i.rs, e), i.imm, e[i.rd]>>
    [] i.k = "blkcopy" -> <<e[i.rd], e[i.rs], i.imm>>
    [] i.k = "br" -> <<i.label, e[i.rs], e[i.rs2]>>
    [] i.k = "bri" -> <<i.label, e[i.rs], i.imm>>
    [] i.k \in {"ret", "jp"} -> <<e[i.rd]>>
    [] i.k \in {"reti", "jpi"} -> <<i.imm>>
    [] i.k = "retb" -> <<e[i.rd], i.imm>>
    [] i.k = "lbl" -> <<i.label>>
    [] i.k \in {"call", "callv"} -> <<e[i.rs], ArgsMeant>>
    [] i.k \in {"calli", "callvi"} -> <<i.imm, ArgsMeant>>
    [] i.k = "callb" -> <<e[i.rs], ArgsMeant, e[i.rd], ReturnedBlock>>
    [] i.k = "callbi" -> <<i.imm, ArgsMeant, e[i.rd], ReturnedBlock>>
    [] OTHER -> <<>>

Defining == {"bop", "bopi", "uop", "uopi", "mov", "cv", "set", "mopr", "mopri", "lea", "self", "call", "calli"}

Meant(i, e) ==
  [l \in Locals |-> IF i.k \in Defining /\ l = i.rd THEN Defined(i, e)
                    ELSE IF i.k \in CallKinds /\ l \notin liveOut THEN Dead
                    ELSE e[l]]

-----------------------------------------------------------------------------
Start(l) == Trunc(TypeOf[l], 2 * l + 2)

HasCall(p) == \E n \in DOMAIN p : p[n].k \in CallKinds

\* What register allocation leaves to the translator.  Mode RA_EZ gives no
\* caller-saved register in a function with calls.  The last four exclude what
\* the code gets wrong: the scratch registers of floating point are among those
\* allocation gives out, so a local in one of them is lost when another is
\* loaded there; a callee in memory is loaded with the type of the result; the
\* destination of a block is read from a scratch register after the call; and
\* an argument that is saved and not restored stays in memory for all code
\* translated later, which other paths reach with the value in the register.
Sound(a, p, h) ==
  LET code == Range(p)
  IN  /\ a = "RA_EZ" /\ HasCall(p) => \A l \in Locals : h[l] \notin CallerSaved
      /\ (\E l \in Floats : h[l] \in Scratch) => \A l \in Floats : h[l] # Slot(l)
      /\ \A i \in code : i.k = "call" /\ i.ty # "p" => h[i.rs] # Slot(i.rs)
      /\ \A i \in code : i.k \in {"callb", "callbi"} => h[i.rd] # Slot(i.rd)
      /\ \A i, j \in code : i.k = "arg" /\ j.k \in {"call", "calli"} /\ i.rd = j.rd /\ a # "RA_LS"
                            => h[i.rd] \notin CallerSaved

\* What the interference graph or the live intervals store with a call.
KeptBy(i) ==
  IF alloc \in {"RA_LR", "RA_GC"} THEN liveOut \ (IF i.k \in {"call", "calli"} THEN {i.rd} ELSE {}) ELSE {}

XInit ==
  /\ alloc \in Allocators
  /\ prog \in Programs
  /\ \E f \in Assignments, memory \in SUBSET Locals :
       home = [l \in Locals |-> IF l \in memory THEN Slot(l) ELSE Register(f[l])]
  /\ Sound(alloc, prog, home)
  /\ liveOut \in IF alloc \in {"RA_LR", "RA_GC"} /\ HasCall(prog)
                 THEN {Locals \ f : f \in SUBSET Floats} ELSE {Locals}
  /\ buf = FlattenSeq([n \in DOMAIN prog |-> Cells(prog[n], KeptBy(prog[n]))])
  /\ cp = 1 /\ pc = 1
  /\ at = home /\ ctx = NoCall
  /\ env = [l \in Locals |-> Start(l)]
  /\ m = [p \in Places |-> IF \E l \in Locals : home[l] = p
                           THEN Start(CHOOSE l \in Locals : home[l] = p) ELSE 8]
  /\ did = <<>>

-----------------------------------------------------------------------------
(* One action per function of the translator.                              *)

AtOp(k) == cp <= Len(buf) /\ buf[cp].k = k

ty == buf[cp].ty
rd == get_rd(buf[cp])
rs == get_rs(buf[cp])
rs2 == get_rs2(buf[cp + 1])
imm == buf[cp + 1]

Done(s, shown) ==
  /\ at' = s.at /\ ctx' = s.ctx /\ m' = s.m
  /\ did' = shown
  /\ env' = Meant(prog[pc], env)
  /\ cp' = cp + IF IsCall(buf[cp]) THEN 2 * i_isize ELSE i_isize
  /\ pc' = pc + 1
  /\ UNCHANGED <<alloc, prog, liveOut, buf, home>>

\* The value v goes to where i_find says for l, and from there to its place.
Define(s, t, l, v, type) == i_store(Put(s, i_find(s, t, l), v), i_find(s, t, l), l, type)

\* The contents of the register that i_load returned for l.
Reg(s, t, l) == s.m[i_find(s, t, l)]

i_x_bop ==
  /\ AtOp("bop")
  /\ LET s == i_load(i_load(Now, t0(ty), rs, ty), t1(ty), rs2, ty)
     IN  Done(Define(s, t0(ty), rd, Binary(ty, Reg(s, t0(ty), rs), Reg(s, t1(ty), rs2)), ty), <<>>)

i_x_bopi ==
  /\ AtOp("bopi")
  /\ LET s == i_load(Now, T1, rs, ty)
     IN  Done(Define(s, T0, rd, Binary(ty, Reg(s, T1, rs), imm), ty), <<>>)

i_x_uop ==
  /\ AtOp("uop")
  /\ LET s == i_load(Now, t1(ty), rs, ty)
     IN  Done(Define(s, t0(ty), rd, Unary(ty, Reg(s, t1(ty), rs)), ty), <<>>)

i_x_uopi == AtOp("uopi") /\ Done(Define(Now, T0, rd, Unary(ty, imm), ty), <<>>)

\* Into memory by way of a register, from memory into a register, or between
\* two registers.
i_x_mov ==
  /\ AtOp("mov")
  /\ IF InMemory(Now, rd)
     THEN LET s == i_load(Now, t1(ty), rs, ty)
          IN  Done(Put(s, at[rd], Trunc(ty, Reg(s, t1(ty), rs))), <<>>)
     ELSE Done(Put(Now, at[rd], Trunc(ty, m[at[rs]])), <<>>)

i_x_cv ==
  LET from == buf[cp].from IN
  /\ AtOp("cv")
  /\ LET s == i_load(Now, t1(from), rs, from)
     IN  Done(Define(s, t0(ty), rd, Convert(from, ty, Reg(s, t1(from), rs)), ty), <<>>)

\* A zero goes to memory straight from the register that holds it.
i_x_set ==
  /\ AtOp("set")
  /\ IF ty # "d" /\ imm = 0 /\ InMemory(Now, rd)
     THEN Done(Put(Now, at[rd], 0), <<>>)
     ELSE Done(Define(Now, t0(ty), rd, Trunc(ty, imm), ty), <<>>)

\* The base of a memory access, in t1 unless it is v_zero or v_lp.
LoadBase(s, b) == IF b \in {i_zero, i_lp} THEN s ELSE i_load(s, T1, b, "p")
BaseReg(s, b) == IF b = i_zero THEN 0 ELSE IF b = i_lp THEN FrameBase ELSE Reg(s, T1, b)

i_x_mopr ==
  /\ AtOp("mopr")
  /\ LET s == LoadBase(i_load(Now, T0, rs2, "p"), rs)
     IN  Done(Define(s, t0(ty), rd, Peek(ty, BaseReg(s, rs), Reg(s, T0, rs2)), ty), <<>>)

i_x_mopri ==
  /\ AtOp("mopri")
  /\ LET s == LoadBase(Now, rs)
     IN  Done(Define(s, t0(ty), rd, Peek(ty, BaseReg(s, rs), imm), ty), <<>>)

i_x_mopw ==
  /\ AtOp("mopw")
  /\ LET s == LoadBase(i_load(i_load(Now, t0(ty), rd, ty), T2, rs2, "p"), rs)
     IN  Done(s, <<BaseReg(s, rs), Reg(s, T2, rs2), Reg(s, t0(ty), rd)>>)

i_x_mopwi ==
  /\ AtOp("mopwi")
  /\ LET s == LoadBase(i_load(Now, t0(ty), rd, ty), rs)
     IN  Done(s, <<BaseReg(s, rs), imm, Reg(s, t0(ty), rd)>>)

i_x_blkcopy ==
  /\ AtOp("blkcopy")
  /\ LET s == i_load(i_load(Now, T0, rd, "p"), T1, rs, "p")
     IN  Done(s, <<Reg(s, T0, rd), Reg(s, T1, rs), imm>>)

i_x_br ==
  /\ AtOp("br")
  /\ LET s == i_load(i_load(Now, t0(ty), rs, ty), t1(ty), rs2, ty)
     IN  Done(s, <<rd, Reg(s, t0(ty), rs), Reg(s, t1(ty), rs2)>>)

i_x_bri ==
  /\ AtOp("bri")
  /\ LET s == i_load(Now, T0, rs, ty) IN Done(s, <<rd, Reg(s, T0, rs), imm>>)

i_x_ret ==
  /\ AtOp("ret")
  /\ LET s == i_load(Now, t1(ty), rd, ty) IN Done(s, <<Reg(s, t1(ty), rd)>>)

i_x_jp ==
  /\ AtOp("jp")
  /\ LET s == i_load(Now, T1, rd, "p") IN Done(s, <<Reg(s, T1, rd)>>)

i_x_reti == (AtOp("reti") \/ AtOp("jpi")) /\ Done(Now, <<imm>>)

i_x_retb ==
  /\ AtOp("retb")
  /\ LET s == i_load(Now, T0, rd, "p") IN Done(s, <<Reg(s, T0, rd), imm>>)

i_x_lbl == AtOp("lbl") /\ Done(Now, <<rd>>)

i_x_retv == (AtOp("retv") \/ AtOp("nop")) /\ Done(Now, <<>>)

i_x_self == AtOp("self") /\ Done(Define(Now, T0, rd, CodePtr, "p"), <<>>)

i_x_lea ==
  /\ AtOp("lea")
  /\ InMemory(Now, rs)
  /\ Done(Define(Now, T0, rd, AddressOf(at[rs][2]), "p"), <<>>)

i_x_arg ==
  /\ AtOp("arg")
  /\ LET s == i_load(Prepared(Now), t0(ty), rd, ty)
     IN  Done(Pushed(s, Reg(s, t0(ty), rd)), <<>>)

i_x_argb ==
  /\ AtOp("argb")
  /\ LET s == i_load(Prepared(Now), T0, rd, "p")
     IN  Done(Pushed(s, <<Reg(s, T0, rd), imm>>), <<>>)

\* A call through s to callee, whose result goes to rd before the restore.
Calls(s, callee) ==
  \E result \in Results(ty) :
    Done(dorestore(i_store(Called(s, result, Answer(ty, callee, s.ctx.args)), result, rd, ty)),
         <<callee, s.ctx.args>>)

i_x_call ==
  /\ AtOp("call")
  /\ LET s == i_load(Prepared(Now), T0, rs, ty) IN Calls(s, Reg(s, T0, rs))

i_x_calli == AtOp("calli") /\ Calls(Prepared(Now), imm)

i_x_callv ==
  /\ AtOp("callv")
  /\ LET s == i_load(Prepared(Now), T0, rs, "p")
     IN  Done(dorestore(Called(s, Fresh, 8)), <<Reg(s, T0, rs), s.ctx.args>>)

i_x_callvi ==
  /\ AtOp("callvi")
  /\ LET s == Prepared(Now) IN Done(dorestore(Called(s, Fresh, 8)), <<imm, s.ctx.args>>)

\* The block that comes back is copied to the destination after the call.
CallsBlock(s, callee) ==
  \E returned \in Results("p") :
    LET after == Called(s, returned, ReturnedBlock)
    IN  Done(dorestore(after), <<callee, s.ctx.args, Reg(after, T0, rd), after.m[returned]>>)

i_x_callb ==
  /\ AtOp("callb")
  /\ LET s == i_load(i_load(Prepared(Now), T0, rd, "p"), T1, rs, "p")
     IN  CallsBlock(s, Reg(s, T1, rs))

i_x_callbi == AtOp("callbi") /\ CallsBlock(i_load(Prepared(Now), T0, rd, "p"), imm)

XNext ==
  \/ i_x_bop \/ i_x_bopi \/ i_x_uop \/ i_x_uopi \/ i_x_mov \/ i_x_cv \/ i_x_set
  \/ i_x_mopr \/ i_x_mopri \/ i_x_mopw \/ i_x_mopwi \/ i_x_blkcopy
  \/ i_x_br \/ i_x_bri \/ i_x_ret \/ i_x_reti \/ i_x_retb \/ i_x_retv \/ i_x_jp
  \/ i_x_lbl \/ i_x_self \/ i_x_lea
  \/ i_x_arg \/ i_x_argb \/ i_x_call \/ i_x_calli \/ i_x_callv \/ i_x_callvi
  \/ i_x_callb \/ i_x_callbi

-----------------------------------------------------------------------------

\* What the emitted code does is what the instruction means, wherever the
\* allocator put its operands: the store, branch, call or return it makes has
\* the values of the client's locals, and every local whose value is still
\* wanted has it in its place, those the instruction does not name included.
\* After a call the locals that live on are where allocation put them, as the
\* code of other blocks expects (xlate.pl:303-334).
TranslatedAsMeant ==
  [][pc' # pc =>
       /\ did' = Shown(prog[pc], env)
       /\ \A l \in Locals : env'[l] # Dead => m'[at'[l]] = env'[l]
       /\ ~ctx'.init => \A l \in liveOut : at'[l] = home[l]]_xvars

=============================================================================
