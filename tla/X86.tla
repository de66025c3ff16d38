--------------------------------- MODULE X86 ---------------------------------
(***************************************************************************)
(* The part of the x86-64 machine vcode emits code for: what each emitted  *)
(* instruction does to registers, memory and flags when it runs.  Nothing  *)
(* here is in the repository; the instructions are the ones                *)
(* src/src/vcode-x86_64/vcode.c emits, the registers are numbered as in    *)
(* x86_64-codegen.h.                                                       *)
(*                                                                         *)
(* A machine is a record: reg, the 32 registers, each a word of 8 bytes    *)
(* (of an XMM register only its low 8 bytes); mem, the bytes written so    *)
(* far by address; flags of the last comparison; skip, the label of a      *)
(* forward jump in progress ("" if none); seen, what the last called       *)
(* function found.                                                         *)
(***************************************************************************)
EXTENDS Words, Sequences, SequencesExt, TLC

RAX == 0  RCX == 1  RDX == 2  RBX == 3  RSP == 4  RBP == 5  RSI == 6  RDI == 7
R8 == 8  R9 == 9  R10 == 10  R11 == 11  R12 == 12  R13 == 13  R14 == 14  R15 == 15
XMM(i) == 16 + i
NoIndex == -1
NoBase == 99                       \* v_zero: an absolute address

\* A byte nobody wrote yet, and a register nobody set yet.
JunkByte(a) == a % (2 ^ ByteBits)
JunkWord(r) == Low(8, 21930 + 1237 * r)

Byte(m, a) == IF a \in DOMAIN m.mem THEN m.mem[a] ELSE JunkByte(a)

RECURSIVE ReadBytes(_, _, _)
ReadBytes(m, a, n) ==
  IF n = 1 THEN Byte(m, a)
  ELSE ReadBytes(m, a, n \div 2)
       + ReadBytes(m, a + n \div 2, n \div 2) * 2 ^ (ByteBits * (n \div 2))

WriteBytes(m, a, n, v) ==
  [m EXCEPT !.mem = [x \in a .. a + n - 1 |-> (v \div (2 ^ (ByteBits * (x - a)))) % (2 ^ ByteBits)] @@ @]

Set(m, r, v) == [m EXCEPT !.reg[r] = v]
At(m, i) == Low(8, (IF i.base = NoBase THEN 0 ELSE m.reg[i.base])
                   + (IF i.index = NoIndex THEN 0 ELSE m.reg[i.index]) + i.disp)

IntFlags(n, a, b) == [zf |-> a = b, cf |-> a < b, pf |-> FALSE, lt |-> Signed(n, a) < Signed(n, b)]
FloatFlags(n, a, b) ==
  LET unordered == NotANumber(n, a) \/ NotANumber(n, b)
  IN  [zf |-> unordered \/ Real(n, a) = Real(n, b),
       cf |-> unordered \/ Real(n, a) < Real(n, b), pf |-> unordered, lt |-> FALSE]

Taken(cc, f) ==
  CASE cc = "e" -> f.zf [] cc = "ne" -> ~f.zf [] cc = "p" -> f.pf [] cc = "jmp" -> TRUE
    [] cc = "b" -> f.cf [] cc = "ae" -> ~f.cf
    [] cc = "be" -> f.cf \/ f.zf [] cc = "a" -> ~f.cf /\ ~f.zf
    [] cc = "l" -> f.lt [] cc = "ge" -> ~f.lt
    [] cc = "le" -> f.lt \/ f.zf [] cc = "g" -> ~f.lt /\ ~f.zf

-----------------------------------------------------------------------------
(* Instructions.                                                            *)

Mov(d, s, n) == [i |-> "mov", d |-> d, s |-> s, n |-> n]
MovImm(d, v, n) == [i |-> "movimm", d |-> d, v |-> v, n |-> n]
Extend(d, s, k, signed, n) == [i |-> "extend", d |-> d, s |-> s, k |-> k, signed |-> signed, n |-> n]
Lea(d, base, disp) == [i |-> "lea", d |-> d, base |-> base, index |-> NoIndex, disp |-> disp]
Load(t, d, base, index, disp) ==
  [i |-> "load", t |-> t, d |-> d, base |-> base, index |-> index, disp |-> disp]
Store(t, s, base, index, disp) ==
  [i |-> "store", t |-> t, s |-> s, base |-> base, index |-> index, disp |-> disp]
Alu(f, d, s, n) == [i |-> "alu", f |-> f, d |-> d, s |-> s, n |-> n]
AluImm(f, d, v, n) == [i |-> "aluimm", f |-> f, d |-> d, v |-> v, n |-> n]
ShiftImm(f, d, v, n, signed) == [i |-> "shift", f |-> f, d |-> d, v |-> v, n |-> n, signed |-> signed]
ShiftCl(f, d, n, signed) == [i |-> "shiftcl", f |-> f, d |-> d, n |-> n, signed |-> signed]
Invert(f, d, n) == [i |-> "monadic", f |-> f, d |-> d, n |-> n]
SetEqual(d) == [i |-> "sete", d |-> d]
Divide(s, n, signed) == [i |-> "divide", s |-> s, n |-> n, signed |-> signed]
Push(r) == [i |-> "push", s |-> r]
Pop(r) == [i |-> "pop", d |-> r]
Adjust(k) == [i |-> "adjust", v |-> k]
MovS(t, d, s) == [i |-> "movs", t |-> t, d |-> d, s |-> s]
MovD(t, d, s) == [i |-> "movd", t |-> t, d |-> d, s |-> s]
Sse(f, t, d, s) == [i |-> "sse", f |-> f, t |-> t, d |-> d, s |-> s]
XorPs(d, s) == [i |-> "xorps", d |-> d, s |-> s]
Cvt(td, ts, d, s) == [i |-> "cvt", td |-> td, ts |-> ts, d |-> d, s |-> s]
Ucomi(t, a, b) == [i |-> "ucomi", t |-> t, d |-> a, s |-> b]
Jump(cc, label) == [i |-> "jump", cc |-> cc, label |-> label]
Here(label) == [i |-> "label", label |-> label]

Exec(m, c) ==
  LET r == m.reg
      fp == scalar_size(IF "t" \in DOMAIN c THEN c.t ELSE "D")
  IN
  CASE c.i = "mov" -> Set(m, c.d, Low(c.n, r[c.s]))
    [] c.i = "movimm" -> Set(m, c.d, Low(c.n, c.v))
    [] c.i = "extend" -> Set(m, c.d, Low(c.n, IF c.signed THEN Signed(c.k, r[c.s]) ELSE Low(c.k, r[c.s])))
    [] c.i = "lea" -> Set(m, c.d, At(m, c))
    [] c.i = "load" ->
         LET v == ReadBytes(m, At(m, c), scalar_size(c.t))
         IN Set(m, c.d, IF c.t \in {"C", "S"} THEN Low(4, Signed(scalar_size(c.t), v)) ELSE v)
    [] c.i = "store" -> WriteBytes(m, At(m, c), scalar_size(c.t), Low(scalar_size(c.t), r[c.s]))
    [] c.i = "alu" /\ c.f = "cmp" -> [m EXCEPT !.flags = IntFlags(c.n, Low(c.n, r[c.d]), Low(c.n, r[c.s]))]
    [] c.i = "aluimm" /\ c.f = "cmp" ->
         [m EXCEPT !.flags = IntFlags(c.n, Low(c.n, r[c.d]), Low(c.n, Signed(4, c.v)))]
    [] c.i = "alu" /\ c.f # "cmp" ->
         Set(m, c.d, Integer(c.f, c.n, FALSE, Low(c.n, r[c.d]), Low(c.n, r[c.s])))
    [] c.i = "aluimm" /\ c.f # "cmp" ->
         Set(m, c.d, Integer(c.f, c.n, FALSE, Low(c.n, r[c.d]), Low(c.n, Signed(4, c.v))))
    [] c.i = "shift" ->
         Set(m, c.d, Integer(c.f, c.n, c.signed, Low(c.n, r[c.d]), c.v % (ByteBits * c.n)))
    [] c.i = "shiftcl" ->
         Set(m, c.d, Integer(c.f, c.n, c.signed, Low(c.n, r[c.d]), r[RCX] % (ByteBits * c.n)))
    [] c.i = "monadic" -> Set(m, c.d, Monadic(c.f, c.n, Low(c.n, r[c.d])))
    [] c.i = "sete" -> Set(m, c.d, r[c.d] - Low(1, r[c.d]) + (IF m.flags.zf THEN 1 ELSE 0))
    [] c.i = "divide" ->
         LET a == Low(c.n, r[RAX])
             b == Low(c.n, r[c.s])
         IN  Set(Set(m, RAX, Integer("div", c.n, c.signed, a, b)), RDX, Integer("mod", c.n, c.signed, a, b))
    [] c.i = "push" -> Set(WriteBytes(m, r[RSP] - 8, 8, r[c.s]), RSP, r[RSP] - 8)
    [] c.i = "pop" -> Set(Set(m, c.d, ReadBytes(m, r[RSP], 8)), RSP, r[RSP] + 8)
    [] c.i = "adjust" -> Set(m, RSP, Low(8, r[RSP] + c.v))
    [] c.i = "movs" -> Set(m, c.d, r[c.d] - Low(fp, r[c.d]) + Low(fp, r[c.s]))
    [] c.i = "movd" -> Set(m, c.d, Low(fp, r[c.s]))
    [] c.i = "sse" -> Set(m, c.d, r[c.d] - Low(fp, r[c.d]) + Floating(c.f, fp, Low(fp, r[c.d]), Low(fp, r[c.s])))
    [] c.i = "xorps" -> Set(m, c.d, r[c.d] ^^ r[c.s])
    [] c.i = "cvt" ->
         LET n == scalar_size(c.td)
             v == Convert(c.td, c.ts, Low(scalar_size(c.ts), r[c.s]))
         IN  Set(m, c.d, IF type_is_float(c.td) THEN r[c.d] - Low(n, r[c.d]) + v ELSE v)
    [] c.i = "ucomi" -> [m EXCEPT !.flags = FloatFlags(fp, Low(fp, r[c.d]), Low(fp, r[c.s]))]
    [] c.i = "jump" -> IF Taken(c.cc, m.flags) THEN [m EXCEPT !.skip = c.label] ELSE m
    [] c.i = "label" -> IF m.skip = c.label THEN [m EXCEPT !.skip = ""] ELSE m

-----------------------------------------------------------------------------
(* The System V calling convention of x86-64, as the compiled C code that  *)
(* calls dynamic functions, and is called by them, follows it.  vcode.c has *)
(* to agree with it on both sides.  A parameter is [t, agg]: its type, "B"  *)
(* for an aggregate, and then the aggregate's [size, alignment, fields], a  *)
(* field being [t, off].                                                    *)

IntegerRegisters == <<RDI, RSI, RDX, RCX, R8, R9>>
SseRegisters == [i \in 1 .. 8 |-> XMM(i - 1)]
Preserved == {RBX, RSP, RBP, R12, R13, R14, R15}

CeilTo(n, k) == ((n + k - 1) \div k) * k
Sum(S) == LET RECURSIVE Total(_)
              Total(T) == IF T = {} THEN 0 ELSE LET x == CHOOSE y \in T : TRUE
                                                IN x[2] + Total(T \ {x})
          IN Total(S)

\* The class of each eightbyte of an aggregate: INTEGER if a field that is
\* not floating lies in it, otherwise SSE; above 16 bytes it is in memory.
Eightbytes(agg) == 1 .. CeilTo(agg.size, 8) \div 8
InMemory(agg) == agg.size > 16
ClassOf(agg, w) ==
  IF \E k \in DOMAIN agg.fields :
       agg.fields[k].off \div 8 = w - 1 /\ ~type_is_float(agg.fields[k].t)
  THEN "INTEGER" ELSE "SSE"

\* The pieces a parameter is passed in: [class, off, size] each.
Pieces(p) ==
  IF p.t # "B"
  THEN <<[class |-> IF type_is_float(p.t) THEN "SSE" ELSE "INTEGER", off |-> 0, size |-> 8]>>
  ELSE [w \in Eightbytes(p.agg) |->
          [class |-> ClassOf(p.agg, w), off |-> 8 * (w - 1),
           size |-> IF p.agg.size - 8 * (w - 1) > 8 THEN 8 ELSE p.agg.size - 8 * (w - 1)]]

CountClass(p, class) == Cardinality({w \in DOMAIN Pieces(p) : Pieces(p)[w].class = class})

\* Where each parameter goes: registers while enough are left for the whole of
\* it, otherwise the stack, in order.  first is 1 when a hidden result address
\* takes the first integer register.
RECURSIVE Place(_, _)
Place(ps, first) ==
  IF ps = <<>> THEN <<>>
  ELSE
  LET before == Place(SubSeq(ps, 1, Len(ps) - 1), first)
      p == ps[Len(ps)]
      used(class) == (IF class = "INTEGER" THEN first ELSE 0)
        + Sum({<<k, CountClass(ps[k], class)>> : k \in {j \in DOMAIN before : before[j].regs # <<>>}})
      top == LET onStack == {j \in DOMAIN before : before[j].regs = <<>>}
             IN  IF onStack = {} THEN 0
                 ELSE LET j == CHOOSE x \in onStack : \A y \in onStack : y <= x
                      IN  before[j].off + (IF ps[j].t = "B" THEN CeilTo(ps[j].agg.size, 8) ELSE 8)
      fits == /\ ~(p.t = "B" /\ InMemory(p.agg))
              /\ used("INTEGER") + CountClass(p, "INTEGER") <= 6
              /\ used("SSE") + CountClass(p, "SSE") <= 8
      piece(w) == LET c == Pieces(p)[w].class
                      n == used(c) + Cardinality({v \in 1 .. w : Pieces(p)[v].class = c})
                  IN IF c = "SSE" THEN SseRegisters[n] ELSE IntegerRegisters[n]
  IN  Append(before,
        IF fits THEN [regs |-> [w \in DOMAIN Pieces(p) |-> piece(w)], off |-> 0]
        ELSE [regs |-> <<>>,
              off |-> CeilTo(top, IF p.t = "B" /\ p.agg.alignment > 8 THEN 16 ELSE 8)])

-----------------------------------------------------------------------------
(* Values of parameters: a number for a scalar, the bytes for an aggregate. *)

BytesAt(m, a, size) == [k \in 1 .. size |-> Byte(m, a + k - 1)]
WriteAll(m, a, bytes) == [m EXCEPT !.mem = [x \in a .. a + Len(bytes) - 1 |-> bytes[x - a + 1]] @@ @]

RECURSIVE Spell(_)
Spell(bytes) == IF bytes = <<>> THEN 0
                ELSE bytes[1] + 2 ^ ByteBits * Spell(Tail(bytes))

\* The part of a register that belongs to a value of type t.
Garbage == 5
Widened(t, v) == IF scalar_size(t) = 8 THEN v ELSE v + Garbage * 2 ^ (ByteBits * 4)

Held(m, p, at, sp) ==
  IF p.t # "B"
  THEN Low(scalar_size(p.t), IF at.regs # <<>> THEN m.reg[at.regs[1]]
                             ELSE ReadBytes(m, sp + at.off, scalar_size(p.t)))
  ELSE IF at.regs = <<>> THEN BytesAt(m, sp + at.off, p.agg.size)
  ELSE LET byte(k) == LET q == Pieces(p)[(k - 1) \div 8 + 1]
                      IN (m.reg[at.regs[(k - 1) \div 8 + 1]]
                            \div (2 ^ (ByteBits * ((k - 1) % 8)))) % (2 ^ ByteBits)
       IN [k \in 1 .. p.agg.size |-> byte(k)]

Put(m, p, at, sp, v) ==
  IF p.t # "B"
  THEN IF at.regs # <<>> THEN Set(m, at.regs[1], Widened(p.t, v))
       ELSE WriteBytes(m, sp + at.off, 8, Widened(p.t, v))
  ELSE IF at.regs = <<>> THEN WriteAll(m, sp + at.off, v)
  ELSE FoldLeft(LAMBDA acc, w : Set(acc, at.regs[w],
                  Spell(SubSeq(v, Pieces(p)[w].off + 1, Pieces(p)[w].off + Pieces(p)[w].size))),
                m, [w \in DOMAIN Pieces(p) |-> w])

Hidden(result) == IF result.t = "B" /\ InMemory(result.agg) THEN 1 ELSE 0
ResultRegisters(result) ==
  LET reg(w) == LET c == Pieces(result)[w].class
                    n == Cardinality({v \in 1 .. w : Pieces(result)[v].class = c})
                IN IF c = "SSE" THEN SseRegisters[n] ELSE <<RAX, RDX>>[n]
  IN [regs |-> [w \in DOMAIN Pieces(result) |-> reg(w)], off |-> 0]

-----------------------------------------------------------------------------
(* A C function called with the stack pointer at a multiple of 16: it sees  *)
(* its arguments, writes over every register and every byte of stack that   *)
(* are its own, and leaves its result.                                      *)

Answer(result) ==
  CASE result.t = "V" -> 0
    [] result.t = "B" -> [k \in 1 .. result.agg.size |-> (3 * k + 1) % (2 ^ ByteBits)]
    [] OTHER -> Low(scalar_size(result.t), 23261)

CallInstruction(target, params, result) ==
  [i |-> "call", s |-> target, params |-> params, result |-> result]

\* What the callee sees, and the registers and stack it has written over.
Entered(m, c, places) ==
  LET sp == m.reg[RSP]
      own == UNION {sp + places[k].off .. sp + places[k].off + 7 :
                      k \in {j \in DOMAIN places : places[j].regs = <<>>}}
  IN  [m EXCEPT
        !.reg = [r \in DOMAIN m.reg |-> IF r \in Preserved THEN m.reg[r] ELSE JunkWord(r + 5)],
        !.mem = [a \in own |-> JunkByte(a + 1)] @@ @,
        !.seen = [to |-> m.reg[c.s],
                  args |-> [k \in DOMAIN c.params |-> Held(m, c.params[k], places[k], sp)],
                  vectors |-> m.reg[RAX], aligned |-> sp % 16 = 0]]

\* The result, put where the caller looks for it; to is the hidden address.
Answered(m, result, to) ==
  CASE result.t = "V" -> m
    [] Hidden(result) = 1 -> Set(WriteAll(m, to, Answer(result)), RAX, to)
    [] OTHER -> Put(m, result, ResultRegisters(result), 0, Answer(result))

Callee(m, c) == Answered(Entered(m, c, Place(c.params, Hidden(c.result))), c.result, m.reg[RDI])

Step(m, c) == IF m.skip # "" /\ c.i # "label" THEN m
              ELSE IF c.i = "call" THEN Callee(m, c) ELSE Exec(m, c)
Run(m, code) == FoldLeft(Step, m, code)
=============================================================================
