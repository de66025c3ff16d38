-------------------------------- MODULE Vcode --------------------------------
(***************************************************************************)
(* Dynamic functions as src/src/vcode-x86_64/vcode.c compiles them: scratch *)
(* registers, frames, prologues and epilogues, calls and variable          *)
(* arguments.  An action emits its code and runs it on the machine.        *)
(*                                                                         *)
(* A client performs one of the programs in Programs: a script, each step  *)
(* of which is a set of requests to choose from, and the number of frame   *)
(* slots of the finished function, which v_end patches into the prologue.  *)
(* A client uses a handle as compiled C does: it reads no more bytes than  *)
(* were written and does not rely on V_TEMP registers after a call.        *)
(* Client patterns the code is known to compile wrongly have names; only   *)
(* those in Allowed are used.                                              *)
(***************************************************************************)
EXTENDS VcodeEmit, Frames

CONSTANTS Programs, Allowed

VARIABLES
  program,       \* the client's program
  pc,            \* its next step
  m,             \* the machine the code runs on
  class,         \* allocated[] and register_class[]: "free", "var" or "temp"
  next_virtual,  \* frame slots handed out
  fn,            \* what the prologue leaves for later: variadic offsets, the
                 \* function's result, function_sret_address, and as history
                 \* the registers at entry and the variable arguments
  cstate,        \* struct v_cstate: arguments pushed
  live,          \* client: handle -> class it asked for
  known,         \* client: handle that has a value -> [t, size]
  request, out,
  view           \* history: the machine as the client sees it

vars == <<program, pc, m, class, next_virtual, fn, cstate, live, known, request, out, view>>

MAX_ARGS == 16
Empty == [h \in {} |-> 0]
Nothing == "nothing"
With(f, h, v) == [x \in DOMAIN f \cup {h} |-> IF x = h THEN v ELSE f[x]]
Without(f, S) == [x \in DOMAIN f \ S |-> f[x]]
Void == [t |-> "V"]

-----------------------------------------------------------------------------
(* Scratch registers and locals.                                           *)

\* The register or, when none is left, the local that v_va_arg and
\* ccall_internal put a result in, and the allocation state after it.
\* Mutated form: the register is not marked as allocated.
Mut_ObtainUnmarked(s, t) ==
  LET r == v_getreg(s.class, t, "var")
  IN  IF r # NoReg THEN [reg |-> r, class |-> s.class, next |-> s.next]
      ELSE [reg |-> Mkvirt(s.next + 1), class |-> s.class, next |-> s.next + 1]

Obtain(s, t) ==
  LET r == v_getreg(s.class, t, "var")
  IN  IF r # NoReg THEN [reg |-> r, class |-> [s.class EXCEPT ![r] = "var"], next |-> s.next]
      ELSE [reg |-> Mkvirt(s.next + 1), class |-> s.class, next |-> s.next + 1]

-----------------------------------------------------------------------------
(* Prologues.                                                              *)

Start ==
  [code |-> <<>>, class |-> [r \in 0 .. 31 |-> "free"], next |-> 0, args |-> <<>>,
   ints |-> 0, sses |-> 0, stack |-> 16, fatal |-> FALSE, overwrites |-> FALSE]

Enter(slots) ==
  <<Push(RBP), Mov(RBP, RSP, 8)>> \o [k \in DOMAIN callee_registers |-> Push(callee_registers[k])]
  \o <<Adjust(-frame_bytes(slots))>>

ScalarParameter(s, p) ==
  LET r == v_getreg(s.class, p.t, "var")
      float == type_is_float(p.t)
      inReg == IF float THEN s.sses < 8 ELSE s.ints < 6
  IN  IF r = NoReg THEN [s EXCEPT !.fatal = TRUE]
      ELSE [s EXCEPT
        !.class[r] = "var", !.args = Append(@, r),
        !.ints = IF inReg /\ ~float THEN @ + 1 ELSE @,
        !.sses = IF inReg /\ float THEN @ + 1 ELSE @,
        !.stack = IF inReg THEN @ ELSE @ + 8,
        !.code = @ \o (IF inReg /\ float THEN <<MovS(p.t, r, floating_argument_registers[s.sses + 1])>>
                       ELSE IF inReg THEN emit_mov_rr(r, argument_registers[s.ints + 1], Width(p.t))
                       ELSE <<Load(p.t, r, RBP, NoIndex, s.stack)>>)]

CountOf(classes, c) == Cardinality({w \in DOMAIN classes : classes[w] = c})

\* The registers for the eightbytes of an aggregate, in order.
Registers(classes, integers, sses, i, x) ==
  [w \in DOMAIN classes |->
     IF classes[w] = "SSE" THEN sses[x + CountOf(SubSeq(classes, 1, w), "SSE")]
     ELSE integers[i + CountOf(SubSeq(classes, 1, w), "INTEGER")]]

NeedsStack(classes, i, x) ==
  \/ classes[1] = "MEMORY"
  \/ i + CountOf(classes, "INTEGER") > 6
  \/ x + CountOf(classes, "SSE") > 8

Word(agg, w) == [off |-> 8 * (w - 1), available |-> agg.size - 8 * (w - 1)]

AggregateParameter(s, p) ==
  LET classes == v_aggregate_classify(p.agg)
      inMemory == NeedsStack(classes, s.ints, s.sses)
      next == s.next + Slots(p.agg.size)
      block == Mkvirt(next)
      from == AlignUp(s.stack, IF p.agg.alignment > 8 THEN 16 ELSE 8)
      regs == Registers(classes, argument_registers, floating_argument_registers, s.ints, s.sses)
      copy == IF inMemory
              THEN <<Lea(R10, RBP, block), Lea(R11, RBP, from)>> \o emit_copy_bytes(R10, R11, p.agg.size)
              ELSE FlattenSeq([w \in DOMAIN classes |->
                 emit_store_aggregate_word(RBP, regs[w], block + Word(p.agg, w).off,
                                                          Word(p.agg, w).available, classes[w])])
      arg == Obtain([class |-> s.class, next |-> next], "P")
  IN  [s EXCEPT
        !.class = arg.class, !.next = arg.next, !.args = Append(@, arg.reg),
        !.ints = IF inMemory THEN @ ELSE @ + CountOf(classes, "INTEGER"),
        !.sses = IF inMemory THEN @ ELSE @ + CountOf(classes, "SSE"),
        !.stack = IF inMemory THEN from + AlignUp(p.agg.size, 8) ELSE @,
        !.overwrites = @ \/ \E r \in {RAX, R10, R11} : s.class[r] # "free",
        !.code = @ \o copy \o <<Lea(R10, RBP, block)>> \o store_register(arg.reg, "P", R10)]

Parameter(s, p) == IF p.t = "B" THEN AggregateParameter(s, p) ELSE ScalarParameter(s, p)

\* The register save area of a variadic function.
VariadicBase == Mkvirt(22)
SaveArea ==
  [i \in 1 .. 6 |-> Store("UL", argument_registers[i], RBP, NoIndex, VariadicBase + 8 * (i - 1))]
  \o [i \in 1 .. 8 |-> Store("D", floating_argument_registers[i], RBP, NoIndex, VariadicBase + 48 + 16 * (i - 1))]

procedure_prologue(q, slots) ==
  FoldLeft(Parameter,
           [Start EXCEPT !.code = Enter(slots) \o Times(q.variadic, SaveArea),
                         !.next = IF q.variadic THEN 22 ELSE 0],
           q.params)

\* The hidden address of a result in memory is kept in the first local.
procedure_aggregate_prologue(q, slots) ==
  LET hidden == q.result.t = "B" /\ v_aggregate_classify(q.result.agg)[1] = "MEMORY"
  IN  FoldLeft(Parameter,
               [Start EXCEPT !.code = Enter(slots) \o Times(hidden, <<FrameStore("P", RDI, Mkvirt(1))>>),
                             !.next = IF hidden THEN 1 ELSE 0, !.ints = IF hidden THEN 1 ELSE 0],
               q.params)

-----------------------------------------------------------------------------
(* The caller of the function: a C program that follows the convention.    *)

StackTop == 4096
ResultArea == 6000
PointeeArea == 6400

CallerMachine(q) ==
  LET all == q.params \o q.extraParams
      values == q.values \o q.extra
      places == Place(all, Hidden(q.result))
      blank == [reg |-> [r \in 0 .. 31 |-> IF r = RSP THEN StackTop ELSE JunkWord(r)],
                mem |-> Empty, flags |-> IntFlags(8, 0, 0), skip |-> "", seen |-> Nothing]
      pointed == IF q.pointee = <<>> THEN blank ELSE WriteAll(blank, PointeeArea, q.pointee)
      given(k) == IF k \in DOMAIN q.values /\ q.params[k].t = "P" THEN PointeeArea ELSE values[k]
      loaded == FoldLeft(LAMBDA acc, k : Put(acc, all[k], places[k], StackTop, given(k)),
                         IF Hidden(q.result) = 1 THEN Set(pointed, RDI, ResultArea) ELSE pointed,
                         [k \in DOMAIN all |-> k])
  IN  Set(WriteBytes(loaded, StackTop - 8, 8, 777), RSP, StackTop - 8)

-----------------------------------------------------------------------------
(* Actions.                                                                *)

Init ==
  /\ program \in DOMAIN Programs /\ pc = 1
  /\ m = [reg |-> [r \in 0 .. 31 |-> JunkWord(r)], mem |-> Empty,
          flags |-> IntFlags(8, 0, 0), skip |-> "", seen |-> Nothing]
  /\ class = [r \in 0 .. 31 |-> "free"] /\ next_virtual = 0
  /\ fn = [open |-> FALSE] /\ cstate = <<>>
  /\ live = Empty /\ known = Empty
  /\ request = [op |-> "none"] /\ out = Nothing
  /\ view = [val |-> Empty, pushed |-> <<>>, more |-> <<>>]

Readable(h, t) ==
  \/ h = v_zero /\ ~type_is_float(t)
  \/ /\ h \in DOMAIN known
     /\ known[h].t \notin {"B"} /\ type_is_float(known[h].t) = type_is_float(t)
     /\ scalar_size(known[h].t) >= scalar_size(t)
Writable(h, t) == h \in DOMAIN live /\ (Physical(h) => (h >= XMM(0)) = type_is_float(t))
Points(h) == h \in DOMAIN known /\ known[h].t = "B"

\* The value of a handle: the refinement mapping to VcodeMachine.
WordOf(h) == IF Physical(h) THEN m.reg[h] ELSE ReadBytes(m, m.reg[RBP] + h, 8)
ValueOf(h) == IF known[h].t = "B" THEN BytesAt(m, WordOf(h), known[h].size)
              ELSE Low(scalar_size(known[h].t), WordOf(h))
ArgumentOf(a) ==
  CASE a.kind = "aggregate" -> [t |-> "B", of |-> a.of, agg |-> a.agg]
    [] a.kind = "immediate" -> [t |-> a.t, v |-> Low(scalar_size(a.t), a.val)]
    [] a.kind = "register" -> [t |-> a.t, v |-> Low(scalar_size(a.t), WordOf(a.val))]

View ==
  [val |-> [h \in DOMAIN known |-> ValueOf(h)],
   pushed |-> [k \in DOMAIN cstate |-> ArgumentOf(cstate[k])],
   more |-> IF fn.open THEN fn.more ELSE <<>>]

Abstract == INSTANCE VcodeMachine WITH val <- view.val, pushed <- view.pushed, more <- view.more

Emit(q, code) ==
  /\ m' = [Run(m, code) EXCEPT !.skip = ""]
  /\ request' = q /\ pc' = pc + 1 /\ UNCHANGED program

Frame(s) == s <= Programs[program].slots

Fatal(q) ==
  /\ request' = [op |-> "fatal"] /\ pc' = Len(Programs[program].script) + 1 /\ out' = Nothing
  /\ UNCHANGED <<program, m, class, next_virtual, fn, cstate, live, known>>

\* Open a function with the code of its prologue s.
Open(q, s) ==
  IF s.fatal THEN Fatal(q)
  ELSE
  /\ m' = Run(CallerMachine(q), s.code)
  /\ request' = [op |-> "lambda", rds |-> s.args, values |->
       [k \in DOMAIN q.values |-> IF q.params[k].t = "P" THEN q.pointee ELSE q.values[k]], extra |-> q.extra]
  /\ pc' = pc + 1 /\ UNCHANGED program
  /\ class' = s.class /\ next_virtual' = s.next /\ cstate' = <<>> /\ out' = Nothing
  /\ live' = [h \in {s.args[k] : k \in DOMAIN s.args} |-> "var"]
  /\ known' = [h \in DOMAIN live' |->
       LET p == q.params[CHOOSE k \in DOMAIN s.args : s.args[k] = h]
       IN  CASE p.t = "P" -> [t |-> "B", size |-> Len(q.pointee)]
             [] p.t = "B" -> [t |-> "B", size |-> p.agg.size]
             [] OTHER -> [t |-> p.t, size |-> 8]]
  /\ fn' = [open |-> TRUE, variadic |-> q.variadic, gp |-> 8 * s.ints, fp |-> 48 + 16 * s.sses,
            overflow |-> s.stack, result |-> q.result, entry |-> CallerMachine(q).reg,
            types |-> q.extraParams, more |-> q.extra]

v_lambda(q) ==
  /\ q.op = "lambda" /\ ~fn.open
  /\ Open(q, procedure_prologue(q, Programs[program].slots))

v_lambda_aggregate(q) ==
  /\ q.op = "lambda_aggregate" /\ ~fn.open
  /\ LET s == procedure_aggregate_prologue(q, Programs[program].slots)
     IN  /\ s.overwrites => "after_registers" \in Allowed
         /\ Open(q, s)

\* The parameters of a v_clambda function are copied to locals of their own.
v_clambda(q) ==
  /\ q.op = "clambda" /\ ~fn.open
  /\ LET s == procedure_prologue(q, Programs[program].slots)
         n == Len(q.params)
         home(k) == Mkvirt(s.next + k)
     IN  Open(q, IF s.fatal THEN s ELSE
           [s EXCEPT !.next = @ + n, !.class = [r \in DOMAIN s.class |-> "free"],
              !.args = [k \in 1 .. n |-> home(k)],
              !.code = @ \o FlattenSeq([k \in 1 .. n |->
                 v_emit_store(q.params[k].t, s.args[k], RBP, home(k), FALSE)])])

GetReg(q) ==
  /\ q.op = "getreg" /\ fn.open
  /\ LET r == v_getreg(class, q.t, q.class)
     IN  /\ r # NoReg
         /\ class' = [class EXCEPT ![r] = q.class]
         /\ live' = With(live, r, q.class)
         /\ Emit([op |-> "getreg", rd |-> r, class |-> q.class], <<>>)
  /\ out' = Nothing /\ UNCHANGED <<next_virtual, fn, cstate, known>>

PutReg(q) ==
  /\ q.op = "putreg" /\ q.rs \in DOMAIN live
  /\ class' = IF Physical(q.rs) THEN [class EXCEPT ![q.rs] = "free"] ELSE class
  /\ live' = Without(live, {q.rs}) /\ known' = Without(known, {q.rs})
  /\ Emit(q, <<>>)
  /\ out' = Nothing /\ UNCHANGED <<next_virtual, fn, cstate>>

v_local(q) ==
  /\ q.op = "local" /\ fn.open /\ Frame(next_virtual + Slots(q.size))
  /\ next_virtual' = next_virtual + Slots(q.size)
  /\ live' = With(live, Mkvirt(next_virtual'), "var")
  /\ Emit([op |-> "local", rd |-> Mkvirt(next_virtual'), class |-> "var"], <<>>)
  /\ out' = Nothing /\ UNCHANGED <<class, fn, cstate, known>>

\* A client takes the address of a block from v_localb.
Address(q) ==
  /\ q.op = "address" /\ Writable(q.rd, "P") /\ q.block \in DOMAIN live
  /\ Emit([op |-> "address", rd |-> q.rd, bytes |-> BytesAt(m, m.reg[RBP] + q.block, q.size)],
          v_emit_binary_imm("add", "P", q.rd, RBP, q.block))
  /\ known' = With(known, q.rd, [t |-> "B", size |-> q.size])
  /\ out' = Nothing /\ UNCHANGED <<class, next_virtual, fn, cstate, live>>

-----------------------------------------------------------------------------
(* Operations on operands.                                                 *)

Named(pattern, is) == is => pattern \in Allowed

Operate(q, t, code) ==
  /\ fn.open /\ Writable(q.rd, t)
  /\ Emit(q, code)
  /\ known' = With(known, q.rd, [t |-> t, size |-> 8])
  /\ out' = Nothing /\ UNCHANGED <<class, next_virtual, fn, cstate, live>>

Move(q) ==
  /\ q.op = "move" /\ Readable(q.rs, q.t) /\ Operate(q, q.t, v_emit_move(q.t, q.rd, q.rs))
SetImm(q) == q.op = "set" /\ Operate(q, q.t, v_emit_set(q.t, q.rd, q.imm))

\* A destination that is also the right operand is overwritten first.
Aliased(q) ==
  /\ type_is_float(q.t)
  /\ \/ Physical(q.rd) /\ q.rd = q.rs2 /\ q.rs1 # q.rd
     \/ ~Physical(q.rd) /\ Physical(q.rs1) /\ ~Physical(q.rs2)

Binary(q) ==
  /\ q.op = "binary" /\ Readable(q.rs1, q.t) /\ Readable(q.rs2, q.t)
  /\ type_is_float(q.t) \/ ~Undefined(q.f, q.t, Abstract!Operand(q.rs1, q.t), Abstract!Operand(q.rs2, q.t))
  /\ Named("fp_alias", Aliased(q))
  /\ Operate(q, q.t, v_emit_binary(q.f, q.t, q.rd, q.rs1, q.rs2))
BinaryImm(q) ==
  /\ q.op = "binary_imm" /\ Readable(q.rs, q.t)
  /\ ~Undefined(q.f, q.t, Abstract!Operand(q.rs, q.t), Low(scalar_size(q.t), q.imm))
  /\ Operate(q, q.t, v_emit_binary_imm(q.f, q.t, q.rd, q.rs, q.imm))
Unary(q) ==
  /\ q.op = "unary" /\ Readable(q.rs, q.t)
  /\ Operate(q, q.t, v_emit_unary(q.f, q.t, q.rd, q.rs))
ConvertTo(q) ==
  /\ q.op = "convert" /\ Readable(q.rs, q.ts)
  /\ Operate(q, q.t, v_emit_convert(q.t, q.ts, q.rd, q.rs))

InBlock(q) ==
  /\ Points(q.base)
  /\ q.byreg => Readable(q.off, "P")
  /\ LET off == IF q.byreg THEN Abstract!Operand(q.off, "P") ELSE q.off
     IN  off >= 0 /\ off + scalar_size(q.t) <= known[q.base].size

LoadFrom(q) ==
  /\ q.op = "load" /\ InBlock(q)
  /\ Operate(q, q.t, v_emit_load(q.t, q.rd, q.base, q.off, q.byreg))
StoreTo(q) ==
  /\ q.op = "store" /\ fn.open /\ InBlock(q) /\ Readable(q.rs, q.t)
  /\ Emit(q, v_emit_store(q.t, q.rs, q.base, q.off, q.byreg))
  /\ out' = Nothing /\ UNCHANGED <<class, next_virtual, fn, cstate, live, known>>

Branch(q) ==
  /\ q.op = "branch" /\ fn.open /\ Readable(q.rs, q.t)
  /\ q.byreg => Readable(q.off, q.t)
  /\ ~q.byreg => ~type_is_float(q.t)
  /\ Named("branch_imm", ~q.byreg /\ type_is_64(q.t) /\ ~FitsImm(q.off))
  /\ LET code == v_emit_branch(q.c, q.t, q.rs, q.off, q.byreg, "taken")
     IN  Emit(q, code) /\ out' = (Run(m, code).skip = "taken")
  /\ UNCHANGED <<class, next_virtual, fn, cstate, live, known>>

\* Registers a client holds a value in that the code writes silently.
Overwrites(code, rd) ==
  \E k \in DOMAIN code : "d" \in DOMAIN code[k] /\ code[k].d \in DOMAIN known \ {rd}

CopyB(q) ==
  /\ q.op = "copyb" /\ fn.open /\ Points(q.rd) /\ Points(q.rs) /\ known[q.rd].size = known[q.rs].size
  /\ LET code == v_copyb(q.rd, q.rs, known[q.rs].size)
     IN  Named("scratch", Overwrites(code, q.rd)) /\ Emit(q, code)
  /\ out' = Nothing /\ UNCHANGED <<class, next_virtual, fn, cstate, live, known>>
-----------------------------------------------------------------------------
(* Calls.                                                                  *)

\* An argument is copied to a local when it is pushed; of an aggregate, the
\* address is.
push_arg_reg(q) ==
  /\ q.op = "push" /\ fn.open /\ ~q.imm /\ Len(cstate) < MAX_ARGS
  /\ IF q.t = "B" THEN Points(q.rs) ELSE Readable(q.rs, q.t)
  /\ Frame(next_virtual + 1) /\ next_virtual' = next_virtual + 1
  /\ LET snapshot == Mkvirt(next_virtual')
     IN  /\ Emit(q, v_emit_move(IF q.t = "B" THEN "P" ELSE q.t, snapshot, q.rs))
         /\ cstate' = Append(cstate,
              IF q.t = "B" THEN [kind |-> "aggregate", t |-> "B", val |-> snapshot, agg |-> q.agg, of |-> q.rs]
              ELSE [kind |-> "register", t |-> q.t, val |-> snapshot])
  /\ out' = Nothing /\ UNCHANGED <<class, fn, live, known>>

push_arg_imm(q) ==
  /\ q.op = "push" /\ fn.open /\ q.imm /\ Len(cstate) < MAX_ARGS
  /\ Emit(q, <<>>)
  /\ cstate' = Append(cstate, [kind |-> "immediate", t |-> q.t, val |-> q.rs])
  /\ out' = Nothing /\ UNCHANGED <<class, next_virtual, fn, live, known>>

\* Where ccall_internal puts each argument.
Assign(first) ==
  FoldLeft(LAMBDA s, a :
    LET agg == a.kind = "aggregate"
        classes == IF agg THEN v_aggregate_classify(a.agg)
                   ELSE IF type_is_float(a.t) THEN <<"SSE">> ELSE <<"INTEGER">>
        onStack == NeedsStack(classes, s.ints, s.sses)
        off == IF onStack THEN AlignUp(s.bytes, IF agg /\ a.agg.alignment > 8 THEN 16 ELSE 8) ELSE 0
    IN  [ints |-> IF onStack THEN s.ints ELSE s.ints + CountOf(classes, "INTEGER"),
         sses |-> IF onStack THEN s.sses ELSE s.sses + CountOf(classes, "SSE"),
         bytes |-> IF onStack THEN off + (IF agg THEN AlignUp(a.agg.size, 8) ELSE 8) ELSE s.bytes,
         plan |-> Append(s.plan, [onStack |-> onStack, off |-> off, classes |-> classes,
                    regs |-> IF onStack THEN <<>>
                             ELSE Registers(classes, argument_registers, floating_argument_registers, s.ints, s.sses)])],
    [ints |-> first, sses |-> 0, bytes |-> 0, plan |-> <<>>], cstate)

emit_call_argument(a, target) ==
  IF a.kind = "immediate" THEN v_emit_set(a.t, target, a.val)
  ELSE load_register(a.val, a.t, target)
       \o (IF type_is_float(a.t) THEN <<MovS(a.t, target, target)>> ELSE emit_mov_rr(target, target, Width(a.t)))

StackArgument(a, at) ==
  CASE a.kind = "aggregate" ->
         load_register(a.val, "P", R8) \o <<Lea(R11, RSP, at.off)>> \o emit_copy_bytes(R11, R8, a.agg.size)
    [] a.kind # "aggregate" /\ type_is_float(a.t) ->
         emit_call_argument(a, FP_SCRATCH0) \o <<Store(a.t, FP_SCRATCH0, RSP, NoIndex, at.off)>>
    [] OTHER -> emit_call_argument(a, R8) \o <<Store("UL", R8, RSP, NoIndex, at.off)>>

RegisterArgument(a, at) ==
  IF a.kind # "aggregate" THEN emit_call_argument(a, at.regs[1])
  ELSE load_register(a.val, "P", R11)
       \o FlattenSeq([w \in DOMAIN at.regs |->
                 emit_load_aggregate_word(at.regs[w], R11, Word(a.agg, w).off,
                                                Word(a.agg, w).available, at.classes[w])])

\* Mutated form: registers of every class but the temporaries are saved.
Mut_SavesTemps(cl, result) ==
  SelectSeq(temporary_registers, LAMBDA r : cl[r] = "temp" /\ r # result)

\* The caller-saved registers a call must keep.
Saved(cl, result) == SelectSeq(temporary_registers, LAMBDA r : cl[r] = "var" /\ r # result)
FloatingSaved(cl, result) == SelectSeq([i \in 1 .. 14 |-> XMM(i - 1)], LAMBDA r : cl[r] = "var" /\ r # result)

\* The state, code and result register of a call; to is the address called, or
\* the handle that holds it; where says where each argument goes.
ccall_internal(to, indirect, result, where) ==
  LET agg == result.t = "B"
      classes == IF agg THEN v_aggregate_classify(result.agg) ELSE <<>>
      inMemory == agg /\ classes[1] = "MEMORY"
      snapshot == Mkvirt(next_virtual + 1)
      afterSnapshot == next_virtual + (IF indirect THEN 1 ELSE 0)
      afterBlock == afterSnapshot + (IF agg THEN Slots(result.agg.size) ELSE 0)
      block == Mkvirt(afterBlock)
      t == IF agg THEN "P" ELSE IF result.t = "V" THEN "UL" ELSE result.t
      got == Obtain([class |-> class, next |-> afterBlock], t)
      float == type_is_float(t)
      saved == Saved(got.class, got.reg)
      fsaved == FloatingSaved(got.class, got.reg)
      home(k) == Mkvirt(got.next + k)
      pad == where.bytes + padding(Len(saved), where.bytes)
      arguments(onStack) ==
        FlattenSeq([k \in DOMAIN cstate |->
          IF where.plan[k].onStack # onStack THEN <<>>
          ELSE IF onStack THEN StackArgument(cstate[k], where.plan[k])
          ELSE RegisterArgument(cstate[k], where.plan[k])])
      params == [k \in DOMAIN cstate |-> IF cstate[k].kind = "aggregate"
                   THEN [t |-> "B", agg |-> cstate[k].agg] ELSE [t |-> cstate[k].t]]
      target == IF indirect THEN R8 ELSE R11
      sources == Registers(classes, <<RAX, RDX>>, floating_argument_registers, 0, 0)
  IN
  [class |-> got.class, next |-> got.next + Len(fsaved), result |-> got.reg, ints |-> where.ints,
   code |->
     Times(indirect, v_emit_move("P", snapshot, to))
     \o [k \in DOMAIN saved |-> Push(saved[k])]
     \o FlattenSeq([k \in DOMAIN fsaved |->
                 v_emit_move("D", home(k), fsaved[k])])
     \o Times(pad > 0, <<Adjust(-pad)>>)
     \o arguments(TRUE) \o arguments(FALSE)
     \o Times(inMemory, <<Lea(RDI, RBP, block)>>)
     \o <<MovImm(RAX, where.sses, 4)>>
     \o (IF indirect THEN load_register(snapshot, "P", R8) ELSE <<MovImm(R11, to, 8)>>)
     \o <<CallInstruction(target, params, result)>>
     \o Times(pad > 0, <<Adjust(pad)>>)
     \o (IF agg /\ ~inMemory
         THEN FlattenSeq([w \in DOMAIN classes |->
                 emit_store_aggregate_word(RBP, sources[w], block + Word(result.agg, w).off,
                                                     Word(result.agg, w).available, classes[w])])
         ELSE IF agg THEN <<>>
         ELSE IF float THEN store_register(got.reg, t, XMM(0)) ELSE <<Mov(R8, RAX, 8)>>)
     \o [k \in DOMAIN saved |-> Pop(saved[Len(saved) + 1 - k])]
     \o FlattenSeq([k \in DOMAIN fsaved |->
           v_emit_move("D", fsaved[Len(fsaved) + 1 - k], home(Len(fsaved) + 1 - k))])
     \o Times(~agg /\ ~float, store_register(got.reg, "UL", R8))
     \o Times(agg, <<Lea(R10, RBP, block)>> \o store_register(got.reg, "P", R10))]

\* Calls of every result type, by address or through a register; a call of a
\* void function puts its result register back.
Call(q) ==
  /\ q.op = "call" /\ fn.open /\ (q.indirect => Readable(q.rs, "P"))
  /\ \E c \in {ccall_internal(q.rs, q.indirect, q.result, Assign(Hidden(q.result)))} :
     LET kept == Without(known, {h \in DOMAIN live : live[h] = "temp"})
         void == q.result.t = "V"
     IN  /\ Frame(c.next)
         /\ Named("indirect_call", q.indirect /\ c.ints >= 5)
         /\ Named("float_imm", c.ints >= 5 /\ \E k \in DOMAIN cstate : cstate[k].kind = "immediate" /\ type_is_float(cstate[k].t))
         /\ Named("scratch", q.result.t = "B" /\ class[R10] = "var")
         /\ Emit([q EXCEPT !.rd = c.result], c.code)
         /\ out' = m'.seen
         /\ class' = IF void /\ Physical(c.result) THEN [c.class EXCEPT ![c.result] = "free"] ELSE c.class
         /\ next_virtual' = c.next
         /\ live' = IF void THEN live ELSE With(live, c.result, "var")
         /\ known' = IF void THEN kept
                     ELSE With(kept, c.result, IF q.result.t = "B" THEN [t |-> "B", size |-> q.result.agg.size]
                                               ELSE [t |-> q.result.t, size |-> 8])
  /\ cstate' = <<>> /\ UNCHANGED fn

-----------------------------------------------------------------------------
(* Variable arguments.                                                     *)

v_va_start(q) ==
  /\ q.op = "va_start" /\ fn.open /\ fn.variadic /\ q.list \in DOMAIN live /\ ~Physical(q.list)
  /\ Emit(q, <<MovImm(R8, fn.gp, 4), FrameStore("U", R8, q.list),
               MovImm(R8, fn.fp, 4), FrameStore("U", R8, q.list + 4),
               Lea(R8, RBP, fn.overflow), FrameStore("P", R8, q.list + 8),
               Lea(R8, RBP, VariadicBase), FrameStore("P", R8, q.list + 16)>>)
  /\ out' = Nothing /\ UNCHANGED <<class, next_virtual, fn, cstate, live, known>>

Fetch(list, t, to) ==
  LET field == list + (IF type_is_float(t) THEN 4 ELSE 0)
  IN  <<FrameLoad("U", R8, field)>>
      \o v_emit_branch("GE", "U", R8, IF type_is_float(t) THEN 176 ELSE 48, FALSE, "overflow")
      \o <<FrameLoad("P", R9, list + 16), Load(t, to, R9, R8, 0),
           AluImm("add", R8, IF type_is_float(t) THEN 16 ELSE 8, 4), FrameStore("U", R8, field),
           Jump("jmp", "done"), Here("overflow"),
           FrameLoad("P", R9, list + 8), Load(t, to, R9, NoIndex, 0),
           AluImm("add", R9, 8, 8), FrameStore("P", R9, list + 8), Here("done")>>

v_va_arg(q) ==
  /\ q.op = "va_arg" /\ fn.open /\ fn.variadic /\ q.list \in DOMAIN live /\ ~Physical(q.list)
  /\ fn.more # <<>> /\ Head(fn.types).t = q.t
  /\ LET got == Obtain([class |-> class, next |-> next_virtual], q.t)
         to == Target(got.reg, IF type_is_float(q.t) THEN FP_SCRATCH0 ELSE R10)
         code == Fetch(q.list, q.t, to) \o Settle(got.reg, q.t, to)
     IN  /\ Frame(got.next) /\ Named("scratch", Overwrites(code, got.reg))
         /\ Emit([op |-> "va_arg", t |-> q.t, rd |-> got.reg], code)
         /\ class' = got.class /\ next_virtual' = got.next
         /\ live' = With(live, got.reg, "var")
         /\ known' = With(known, got.reg, [t |-> q.t, size |-> 8])
  /\ fn' = [fn EXCEPT !.more = Tail(@), !.types = Tail(@)]
  /\ out' = Nothing /\ UNCHANGED cstate

-----------------------------------------------------------------------------
(* Returns.                                                                *)

v_emit_return(q) ==
  CASE q.result.t = "V" -> <<>>
    [] q.result.t # "V" /\ type_is_float(q.result.t) ->
         load_register(q.rs, q.result.t, FP_SCRATCH0)
         \o <<MovS(q.result.t, XMM(0), Where(q.rs, FP_SCRATCH0))>>
    [] q.imm /\ ~type_is_float(q.result.t) /\ q.result.t # "V" ->
         <<MovImm(RAX, q.rs, Width(q.result.t))>>
    [] OTHER -> load_register(q.rs, q.result.t, R8) \o emit_mov_rr(RAX, Where(q.rs, R8), Width(q.result.t))

v_retb(q) ==
  LET agg == q.result.agg
      classes == v_aggregate_classify(agg)
      fetched == Where(q.rs, R10)
      source == IF fetched \in {RAX, RDX} THEN R10 ELSE fetched
      targets == Registers(classes, <<RAX, RDX>>, floating_argument_registers, 0, 0)
  IN  load_register(q.rs, "P", R10) \o Times(source # fetched, <<Mov(R10, fetched, 8)>>)
      \o (IF classes[1] = "MEMORY"
          THEN load_register(Mkvirt(1), "P", R11) \o emit_copy_bytes(R11, source, agg.size)
               \o <<Mov(RAX, R11, 8)>>
          ELSE FlattenSeq([w \in DOMAIN classes |->
                 emit_load_aggregate_word(targets[w], source, Word(agg, w).off,
                                                     Word(agg, w).available, classes[w])]))

procedure_epilogue(slots) ==
  <<Adjust(frame_bytes(slots))>>
  \o [k \in DOMAIN callee_registers |-> Pop(callee_registers[Len(callee_registers) + 1 - k])]
  \o <<Pop(RBP)>>

\* A return jumps to the epilogue that v_end emits; the caller finds the result.
Return(q) ==
  /\ q.op = "return" /\ fn.open /\ fn.result = q.result
  /\ CASE q.result.t = "V" -> TRUE [] q.result.t = "B" -> Points(q.rs)
       [] OTHER -> IF q.imm THEN ~type_is_float(q.result.t) ELSE Readable(q.rs, q.result.t)
  /\ next_virtual <= Programs[program].slots
  /\ Emit(q, (IF q.result.t = "B" THEN v_retb(q) ELSE v_emit_return(q)) \o procedure_epilogue(Programs[program].slots))
  /\ out' = [value |-> CASE q.result.t = "V" -> Nothing
                         [] Hidden(q.result) = 1 -> BytesAt(m', m'.reg[RAX], q.result.agg.size)
                         [] OTHER -> Held(m', q.result, ResultRegisters(q.result), 0),
             callee_saved_kept |-> \A r \in Preserved : m'.reg[r] = fn.entry[r]]
  /\ fn' = [open |-> FALSE]
  /\ live' = Empty /\ known' = Empty /\ cstate' = <<>> /\ UNCHANGED <<class, next_virtual>>

-----------------------------------------------------------------------------
Do(q) ==
  \/ v_lambda(q) \/ v_lambda_aggregate(q) \/ v_clambda(q)
  \/ GetReg(q) \/ PutReg(q) \/ v_local(q) \/ Address(q)
  \/ Move(q) \/ SetImm(q) \/ Binary(q) \/ BinaryImm(q) \/ Unary(q) \/ ConvertTo(q)
  \/ LoadFrom(q) \/ StoreTo(q) \/ Branch(q) \/ CopyB(q)
  \/ push_arg_reg(q) \/ push_arg_imm(q) \/ Call(q)
  \/ v_va_start(q) \/ v_va_arg(q) \/ Return(q)

Next ==
  /\ pc <= Len(Programs[program].script)
  /\ \E q \in Programs[program].script[pc] : Do(q) /\ view' = View'

Spec == Init /\ [][Next]_vars

-----------------------------------------------------------------------------
(* Every register of a function is where the code believes it is: physical *)
(* handles of the client are exactly the allocated registers, none of them *)
(* is one the emitters use for themselves or one that carries arguments,   *)
(* and the locals handed out lie inside the frame and apart from the saved *)
(* registers.                                                              *)
TypeOK ==
  fn.open =>
    /\ {h \in DOMAIN live : Physical(h)} = {r \in 0 .. 31 : class[r] # "free"}
    /\ \A h \in DOMAIN live : Physical(h) =>
         h \notin {R8, R9, RSP, RBP, RCX, FP_SCRATCH0, FP_SCRATCH1} /\ class[h] = live[h]
    /\ \A h \in DOMAIN live : ~Physical(h) => h >= Mkvirt(next_virtual) /\ h < -SAVED_REG_BYTES
    /\ m.reg[RSP] + frame_bytes(Programs[program].slots) + SAVED_REG_BYTES = m.reg[RBP]
    /\ DOMAIN known \subseteq DOMAIN live

\* What vcode promises: every handle keeps the value last assigned to it, calls
\* receive the arguments pushed, branches and returns see the values of their
\* operands, and the caller's registers are given back.
ImplementsVcode == Abstract!Spec
=============================================================================
