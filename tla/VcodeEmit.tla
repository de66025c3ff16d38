------------------------------ MODULE VcodeEmit ------------------------------
(***************************************************************************)
(* The emitters of src/src/vcode-x86_64/vcode.c: for each operation of     *)
(* x86_64-codegen.h, the instructions it emits.  Operands are handles: a   *)
(* register number, the negative frame offset of a local, or v_zero.  R8,  *)
(* R9, XMM14 and XMM15 are never handed out; they carry operands that are  *)
(* not in a register.                                                      *)
(***************************************************************************)
EXTENDS X86

callee_registers == <<RBX, R12, R13, R14, R15>>
temporary_registers == <<RAX, R10, R11>>
argument_registers == <<RDI, RSI, RDX, RCX, R8, R9>>
floating_registers == [i \in 1 .. 12 |-> IF i <= 6 THEN XMM(7 + i) ELSE XMM(i - 5)]
floating_argument_registers == [i \in 1 .. 8 |-> XMM(i - 1)]
FP_SCRATCH0 == XMM(14)
FP_SCRATCH1 == XMM(15)
NoReg == 100
v_zero == NoBase
Physical(h) == h >= 0
Width(t) == IF type_is_64(t) THEN 8 ELSE 4
Times(k, code) == IF k THEN code ELSE <<>>
FrameLoad(t, d, h) == Load(t, d, RBP, NoIndex, h)
FrameStore(t, s, h) == Store(t, s, RBP, NoIndex, h)

-----------------------------------------------------------------------------
(* Scratch registers.                                                      *)

FirstFree(cl, pool) ==
  LET free == {k \in DOMAIN pool : cl[pool[k]] = "free"}
  IN  IF free = {} THEN NoReg ELSE pool[CHOOSE k \in free : \A j \in free : k <= j]

v_getreg(cl, t, c) ==
  FirstFree(cl, IF type_is_float(t) THEN floating_registers
                ELSE IF c = "temp" THEN temporary_registers \o callee_registers
                ELSE callee_registers \o temporary_registers)

-----------------------------------------------------------------------------
(* Operands: the register an operand is found in after its fetch, the      *)
(* fetch, and the write of a result.                                       *)

Where(h, scratch) == IF h # v_zero /\ Physical(h) THEN h ELSE scratch

load_register(h, t, scratch) ==
  CASE h = v_zero -> <<MovImm(scratch, 0, Width(t))>>
    [] h # v_zero /\ Physical(h) -> <<>>
    [] OTHER -> <<FrameLoad(t, scratch, h)>>

\* emit_mov_rr: a move of 64 bits onto itself is left out.
emit_mov_rr(d, s, n) == IF d = s /\ n = 8 THEN <<>> ELSE <<Mov(d, s, n)>>

store_register(h, t, s) ==
  IF ~Physical(h) THEN <<FrameStore(t, s, h)>>
  ELSE IF type_is_float(t) THEN <<MovS(t, h, s)>> ELSE emit_mov_rr(h, s, Width(t))

\* A result computed in the destination itself if that is a register.
Target(rd, scratch) == IF Physical(rd) THEN rd ELSE scratch
Settle(rd, t, s) == Times(~Physical(rd), store_register(rd, t, s))
Into(d, h, t) == load_register(h, t, d) \o Times(Where(h, d) # d, emit_mov_rr(d, h, Width(t)))

-----------------------------------------------------------------------------
(* Emitters of single operations.                                          *)

v_emit_move(t, rd, rs) ==
  LET scratch == IF type_is_float(t) THEN FP_SCRATCH0 ELSE R8
  IN  load_register(rs, t, scratch) \o store_register(rd, t, Where(rs, scratch))

ConvertIntegers(td, ts, d, s) ==
  IF scalar_size(td) <= 2 THEN <<Extend(d, s, scalar_size(td), type_is_signed(td), 4)>>
  ELSE IF scalar_size(ts) <= 2
       THEN <<Extend(d, s, scalar_size(ts), type_is_signed(ts),
                     IF type_is_signed(ts) THEN Width(td) ELSE 4)>>
  ELSE IF Width(td) = 8 /\ ts = "I" THEN <<Extend(d, s, 4, TRUE, 8)>>
  ELSE emit_mov_rr(d, s, IF ts = "U" THEN 4 ELSE Width(td))

v_emit_convert(td, ts, rd, rs) ==
  LET from == IF type_is_float(ts) THEN FP_SCRATCH0 ELSE R8
      to == Target(rd, CASE type_is_float(td) /\ type_is_float(ts) -> FP_SCRATCH1
                         [] type_is_float(td) /\ ~type_is_float(ts) -> FP_SCRATCH0
                         [] type_is_float(ts) /\ ~type_is_float(td) -> R8
                         [] OTHER -> R9)
      source == Where(rs, from)
  IN  load_register(rs, ts, from)
      \o (IF type_is_float(td) /\ td = ts THEN <<MovS(td, to, source)>>
          ELSE IF type_is_float(td) \/ type_is_float(ts) THEN <<Cvt(td, ts, to, source)>>
          ELSE ConvertIntegers(td, ts, to, source))
      \o Settle(rd, td, to)

v_emit_set_float(t, rd, imm) ==
  LET to == Target(rd, FP_SCRATCH0)
  IN  <<MovImm(R8, imm, scalar_size(t)), MovD(t, to, R8)>> \o Settle(rd, t, to)

v_emit_set(t, rd, imm) ==
  IF type_is_float(t) THEN v_emit_set_float(t, rd, imm)
  ELSE <<MovImm(Target(rd, R8), imm, Width(t))>> \o Settle(rd, t, R8)

FloatBinary(f, t, rd, rs1, rs2) ==
  LET lhs == Where(rs1, FP_SCRATCH0)
      spare == IF lhs = FP_SCRATCH0 THEN FP_SCRATCH1 ELSE FP_SCRATCH0
      to == Target(rd, FP_SCRATCH0)
  IN  load_register(rs1, t, FP_SCRATCH0) \o load_register(rs2, t, spare)
      \o Times(to # lhs, <<MovS(t, to, lhs)>>)
      \o <<Sse(f, t, to, Where(rs2, spare))>> \o Settle(rd, t, to)

Division(f, t, rd, rs1, rs2) ==
  Into(R9, rs2, t) \o <<Push(RAX), Push(RDX)>> \o Into(RAX, rs1, t)
  \o <<Divide(R9, Width(t), type_is_signed(t))>>
  \o emit_mov_rr(R8, IF f = "mod" THEN RDX ELSE RAX, Width(t))
  \o <<Pop(RDX), Pop(RAX)>> \o store_register(rd, t, R8)

v_emit_binary(f, t, rd, rs1, rs2) ==
  CASE type_is_float(t) -> FloatBinary(f, t, rd, rs1, rs2)
    [] f \in {"div", "mod"} /\ ~type_is_float(t) -> Division(f, t, rd, rs1, rs2)
    [] OTHER ->
         Into(R8, rs1, t) \o Into(R9, rs2, t)
         \o (IF f \in {"lsh", "rsh"}
             THEN <<Mov(RCX, R9, 4), ShiftCl(f, R8, Width(t), type_is_signed(t))>>
             ELSE <<Alu(f, R8, R9, Width(t))>>)
         \o store_register(rd, t, R8)

\* The immediates a 32-bit field holds and sign-extends.
FitsImm(v) == v \in -(2 ^ (ByteBits * 4 - 1)) .. 2 ^ (ByteBits * 4 - 1) - 1

v_emit_binary_imm(f, t, rd, rs, imm) ==
  IF \/ f \in {"div", "mod"}
     \/ type_is_64(t) /\ f \notin {"lsh", "rsh"} /\ ~FitsImm(imm)
  THEN v_emit_set(t, R9, imm) \o v_emit_binary(f, t, rd, rs, R9)
  ELSE Into(R8, rs, t)
       \o (IF f \in {"lsh", "rsh"} THEN <<ShiftImm(f, R8, imm, Width(t), type_is_signed(t))>>
           ELSE <<AluImm(f, R8, imm, Width(t))>>)
       \o store_register(rd, t, R8)

v_emit_unary(f, t, rd, rs) ==
  IF type_is_float(t)
  THEN LET source == Where(rs, FP_SCRATCH0)
           to == Target(rd, FP_SCRATCH0)
       IN  load_register(rs, t, FP_SCRATCH0) \o Times(to # source, <<MovS(t, to, source)>>)
           \o v_emit_set_float(t, FP_SCRATCH1, SignBit(scalar_size(t)))
           \o <<XorPs(to, FP_SCRATCH1)>> \o Settle(rd, t, to)
  ELSE Into(R9, rs, t)
       \o (IF f = "not"
           THEN <<MovImm(R8, 0, 4), AluImm("cmp", R9, 0, Width(t)), SetEqual(R8)>>
           ELSE emit_mov_rr(R8, R9, Width(t)) \o <<Invert(f, R8, Width(t))>>)
       \o store_register(rd, t, R8)

\* An address too far for a displacement is summed in R8.
Far(base, off) ==
  (IF base = v_zero THEN <<MovImm(R8, off, 8)>>
   ELSE Times(Where(base, R8) # R8, emit_mov_rr(R8, base, 8)) \o <<MovImm(R9, off, 8), Alu("add", R8, R9, 8)>>)

v_emit_load(t, rd, base, off, byreg) ==
  LET to == Target(rd, IF type_is_float(t) THEN FP_SCRATCH0 ELSE R9)
      b == IF base = v_zero THEN v_zero ELSE Where(base, R8)
  IN  Times(base # v_zero, load_register(base, "P", R8))
      \o (IF byreg THEN load_register(off, "P", R9) \o <<Load(t, to, b, Where(off, R9), 0)>>
          ELSE IF FitsImm(off) THEN <<Load(t, to, b, NoIndex, off)>>
          ELSE Far(base, off) \o <<Load(t, to, R8, NoIndex, 0)>>)
      \o Settle(rd, t, to)

v_emit_store(t, value, base, off, byreg) ==
  LET scratch == IF type_is_float(t) THEN FP_SCRATCH0 ELSE R9
      source == Where(value, scratch)
      b == IF base = v_zero THEN v_zero ELSE Where(base, R8)
      spare == IF b = R8 THEN RCX ELSE R8
  IN  Times(base # v_zero, load_register(base, "P", R8))
      \o (IF byreg
          THEN load_register(value, t, scratch) \o load_register(off, "P", spare)
               \o <<Store(t, source, b, Where(off, spare), 0)>>
          ELSE IF FitsImm(off)
          THEN load_register(value, t, scratch) \o <<Store(t, source, b, NoIndex, off)>>
          ELSE Far(base, off) \o load_register(value, t, scratch) \o <<Store(t, source, R8, NoIndex, 0)>>)

condition_opcode(c, signed) ==
  CASE c = "EQ" -> "e" [] c = "NE" -> "ne"
    [] c = "LT" -> IF signed THEN "l" ELSE "b" [] c = "LE" -> IF signed THEN "le" ELSE "be"
    [] c = "GT" -> IF signed THEN "g" ELSE "a" [] c = "GE" -> IF signed THEN "ge" ELSE "ae"

FloatBranch(c, t, lhs, rhs, label) ==
  LET left == Where(lhs, FP_SCRATCH0)
      spare == IF left = FP_SCRATCH0 THEN FP_SCRATCH1 ELSE FP_SCRATCH0
  IN  load_register(lhs, t, FP_SCRATCH0) \o load_register(rhs, t, spare)
      \o <<Ucomi(t, left, Where(rhs, spare))>>
      \o (IF c = "NE" THEN <<Jump("p", label)>>
          ELSE Times(c \in {"LT", "LE", "EQ"}, <<Jump("p", "ordered")>>))
      \o <<Jump(condition_opcode(c, FALSE), label), Here("ordered")>>

v_emit_branch(c, t, lhs, rhs, byreg, label) ==
  IF type_is_float(t) THEN FloatBranch(c, t, lhs, rhs, label)
  ELSE Into(R8, lhs, t)
       \o (IF byreg THEN Into(R9, rhs, t) \o <<Alu("cmp", R8, R9, Width(t))>>
           ELSE <<AluImm("cmp", R8, rhs, Width(t))>>)
       \o <<Jump(condition_opcode(c, type_is_signed(t)), label)>>

-----------------------------------------------------------------------------
(* Aggregates.                                                              *)

merge_abi_class(left, right) ==
  CASE left = right \/ right = "NO_CLASS" -> left
    [] left = "NO_CLASS" -> right
    [] "INTEGER" \in {left, right} -> "INTEGER"
    [] OTHER -> "SSE"

\* The classes of an aggregate's eightbytes; <<"MEMORY">> if it is in memory.
v_aggregate_classify(agg) ==
  IF agg.size > 16 \/ \E k \in DOMAIN agg.fields : agg.fields[k].off % scalar_size(agg.fields[k].t) # 0
  THEN <<"MEMORY">>
  ELSE LET merged(w) == FoldLeft(LAMBDA acc, f :
                 IF f.off \div 8 = w - 1
                 THEN merge_abi_class(acc, IF type_is_float(f.t) THEN "SSE" ELSE "INTEGER")
                 ELSE acc, "NO_CLASS", agg.fields)
       IN [w \in 1 .. ((agg.size + 7) \div 8) |-> IF merged(w) = "NO_CLASS" THEN "INTEGER" ELSE merged(w)]

\* What a loop that moves size bytes in pieces of at most `most' bytes does.
RECURSIVE Chunks(_, _, _)
Chunks(from, size, most) ==
  IF size = 0 THEN <<>>
  ELSE LET n == CHOOSE k \in {1, 2, 4, 8} : /\ k <= size /\ k <= most
                                            /\ \A j \in {1, 2, 4, 8} : j <= size /\ j <= most => j <= k
       IN  <<[off |-> from, n |-> n]>> \o Chunks(from + n, size - n, most)

integer_chunk_type(n) == CASE n = 8 -> "UL" [] n = 4 -> "U" [] n = 2 -> "US" [] n = 1 -> "UC"
scratch_register_avoiding(a, b) ==
  LET candidates == <<R10, R11, RAX, RCX>>
  IN  candidates[CHOOSE k \in 1 .. 4 : /\ candidates[k] \notin {a, b}
                                       /\ \A j \in 1 .. k - 1 : candidates[j] \in {a, b}]

emit_copy_bytes(d, s, size) ==
  LET scratch == scratch_register_avoiding(d, s)
      chunks == Chunks(0, size, 8)
      move(c) == <<Load(integer_chunk_type(c.n), scratch, s, NoIndex, c.off),
                   Store(integer_chunk_type(c.n), scratch, d, NoIndex, c.off)>>
  IN  FlattenSeq([k \in DOMAIN chunks |-> move(chunks[k])])

Least(a, b) == IF a <= b THEN a ELSE b

emit_load_aggregate_word(to, s, off, available, cl) ==
  LET scratch == scratch_register_avoiding(to, s)
      chunks == Chunks(0, Least(available, 8), 4)
      fetch(c) ==
        IF c.off = 0 THEN <<Load(integer_chunk_type(c.n), to, s, NoIndex, off)>>
        ELSE <<Load(integer_chunk_type(c.n), scratch, s, NoIndex, off + c.off),
               ShiftImm("lsh", scratch, c.off * ByteBits, 8, FALSE), Alu("or", to, scratch, 8)>>
  IN  IF cl = "SSE" THEN <<Load(IF available >= 8 THEN "D" ELSE "F", to, s, NoIndex, off)>>
      ELSE <<MovImm(to, 0, 8)>> \o FlattenSeq([k \in DOMAIN chunks |-> fetch(chunks[k])])

emit_store_aggregate_word(d, s, off, available, cl) ==
  LET scratch == scratch_register_avoiding(d, s)
      chunks == Chunks(0, Least(available, 8), 4)
      put(c) == <<Store(integer_chunk_type(c.n), scratch, d, NoIndex, off + c.off)>>
                \o Times(c.off + c.n < Least(available, 8), <<ShiftImm("rsh", scratch, c.n * ByteBits, 8, FALSE)>>)
  IN  IF cl = "SSE" THEN <<Store(IF available >= 8 THEN "D" ELSE "F", s, d, NoIndex, off)>>
      ELSE emit_mov_rr(scratch, s, 8) \o FlattenSeq([k \in DOMAIN chunks |-> put(chunks[k])])

\* The fetches of v_copyb: each pointer avoids the other's register.
v_copyb(d, s, size) ==
  LET dScratch == scratch_register_avoiding(IF Physical(s) THEN s ELSE -1, -1)
      dReg == Where(d, dScratch)
      sScratch == scratch_register_avoiding(dReg, -1)
  IN  load_register(d, "P", dScratch) \o load_register(s, "P", sScratch)
      \o emit_copy_bytes(dReg, Where(s, sScratch), size)
=============================================================================
