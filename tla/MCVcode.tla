------------------------------ MODULE MCVcode ------------------------------
(* Programs for the vcode back end on a byte of two bits: one operation of   *)
(* every kind on every mix of registers and locals; calls with up to nine     *)
(* arguments amid live registers; aggregates and variable arguments.          *)
EXTENDS Vcode

Function(op, params, values, result) ==
  [op |-> op, params |-> params, values |-> values, result |-> result, variadic |-> FALSE,
   extraParams |-> <<>>, extra |-> <<>>, pointee |-> <<>>]
Scalar(t) == [t |-> t]
Scalars(ts) == [k \in DOMAIN ts |-> Scalar(ts[k])]
Ret(t, rs, imm) == [op |-> "return", rs |-> rs, imm |-> imm, result |-> Scalar(t)]
Local(size) == [op |-> "local", size |-> size]
Get(t, c) == [op |-> "getreg", t |-> t, class |-> c]
SetTo(t, rd, v) == [op |-> "set", t |-> t, rd |-> rd, imm |-> v]

L1 == -48  L2 == -56
Narrow == {"C", "UC", "S", "US"}
Ints == {RBX, R12, RAX, L1}
IntOps ==
  {[op |-> "binary", f |-> f, t |-> t, rd |-> a, rs1 |-> b, rs2 |-> c] :
     f \in {"add", "sub", "mul", "div", "mod", "and", "xor", "lsh", "rsh"}, t \in Arithmetic,
     a \in Ints, b \in Ints, c \in Ints \cup {v_zero}}
  \cup {[op |-> "binary_imm", f |-> f, t |-> t, rd |-> a, rs |-> b, imm |-> v] :
     f \in {"add", "sub", "mul", "div", "mod", "or", "xor", "lsh", "rsh"}, t \in Arithmetic,
     a \in Ints, b \in Ints, v \in {-1, 3, 127, 128, -129}}
  \cup {[op |-> "unary", f |-> f, t |-> t, rd |-> a, rs |-> b] :
     f \in {"com", "not", "neg"}, t \in Arithmetic, a \in Ints, b \in Ints}
  \cup {[op |-> "convert", t |-> t, ts |-> s, rd |-> a, rs |-> b] :
     t \in Arithmetic, s \in Narrow \cup Arithmetic, a \in Ints, b \in Ints}
  \cup {[op |-> "convert", t |-> t, ts |-> s, rd |-> a, rs |-> b] :
     t \in Narrow, s \in Arithmetic, a \in Ints, b \in Ints}
  \cup {[op |-> "move", t |-> t, rd |-> a, rs |-> b] : t \in Arithmetic, a \in Ints, b \in Ints}
  \cup {SetTo(t, a, v) : t \in Arithmetic, a \in Ints, v \in {-3, 200, 40000}}
  \cup {[op |-> "branch", c |-> c, t |-> t, rs |-> a, off |-> b, byreg |-> TRUE] :
     c \in {"LT", "LE", "GT", "GE", "EQ", "NE"}, t \in Arithmetic, a \in Ints, b \in Ints}
  \cup {[op |-> "branch", c |-> c, t |-> t, rs |-> a, off |-> v, byreg |-> FALSE] :
     c \in {"LT", "LE", "GT", "GE", "EQ", "NE"}, t \in Arithmetic, a \in Ints, v \in {-1, 3, 200}}

IntProgram ==
  [slots |-> 2, script |-> <<
    {Function("lambda", Scalars(<<"L", "L">>), v, Scalar("L")) : v \in {<<40123, 777>>, <<65533, 3>>, <<1150, 65410>>}},
    {Local(8)}, {Get("L", "temp")},
    {SetTo("L", RAX, 28671)}, {SetTo("L", L1, 2)},
    IntOps,
    {Ret("L", RBX, FALSE)}>>]

X8 == XMM(8)  X9 == XMM(9)
Floats == {X8, X9, L1}
FloatOps(t) ==
  {[op |-> "binary", f |-> f, t |-> t, rd |-> a, rs1 |-> b, rs2 |-> c] :
     f \in {"add", "sub", "mul", "div"}, a \in Floats \cup {L2}, b \in Floats, c \in Floats}
  \cup {[op |-> "unary", f |-> "neg", t |-> t, rd |-> a, rs |-> b] : a \in Floats, b \in Floats}
  \cup {[op |-> "move", t |-> t, rd |-> a, rs |-> b] : a \in Floats, b \in Floats}
  \cup {SetTo(t, a, 131) : a \in Floats}
  \cup {[op |-> "convert", t |-> d, ts |-> t, rd |-> a, rs |-> b] : d \in {"F", "D"}, a \in Floats, b \in Floats}
  \cup {[op |-> "convert", t |-> d, ts |-> t, rd |-> a, rs |-> b] : d \in {"I", "L"}, a \in {RBX, L2}, b \in Floats}
  \cup {[op |-> "convert", t |-> t, ts |-> d, rd |-> a, rs |-> RBX] : d \in {"I", "L"}, a \in Floats}
  \cup {[op |-> "branch", c |-> c, t |-> t, rs |-> a, off |-> b, byreg |-> TRUE] :
     c \in {"LT", "LE", "GT", "GE", "EQ", "NE"}, a \in Floats, b \in Floats}

NaN(t) == SignBit(scalar_size(t)) - 1
FloatProgram(t, a) ==
  [slots |-> 3, script |-> <<
    {Function("lambda", Scalars(<<t, "L", t>>), <<v[1], 65480, v[2]>>, Scalar(t)) :
       v \in {<<a, 21>>, <<NaN(t), 21>>, <<21, 21>>}},
    {Local(8)}, {Local(8)}, {SetTo(t, L1, 19)}, FloatOps(t), {Ret(t, h, FALSE) : h \in {X8, L1}}>>]

\* Loads and stores through a pointer to 136 bytes, by constant and by register.
LongBlock == [k \in 1 .. 136 |-> (k * k) % 4]
MemOps(h) ==
  LET offs == {<<0, FALSE>>, <<3, FALSE>>, <<128, FALSE>>, <<R12, TRUE>>, <<L1, TRUE>>}
      data == {RAX, L2}
  IN  {[op |-> "load", t |-> t, rd |-> a, base |-> h, off |-> o[1], byreg |-> o[2]] :
         t \in Arithmetic \cup Narrow, a \in data, o \in offs}
      \cup {[op |-> "store", t |-> t, rs |-> a, base |-> h, off |-> o[1], byreg |-> o[2]] :
         t \in Arithmetic \cup Narrow, a \in data, o \in offs}
      \cup {[op |-> "load", t |-> t, rd |-> a, base |-> h, off |-> o[1], byreg |-> o[2]] :
         t \in {"F", "D"}, a \in {X8, -64}, o \in offs}
      \cup {[op |-> "store", t |-> t, rs |-> a, base |-> h, off |-> o[1], byreg |-> o[2]] :
         t \in {"F", "D"}, a \in {X8}, o \in offs}
MemProgram(op) ==
  [slots |-> 6, script |-> <<
    {[Function(op, Scalars(<<"P", "L", "D">>), <<0, 6, 991>>, Scalar("V")) EXCEPT !.pointee = LongBlock]},
    {Local(8)}, {Local(8)}, {Local(8)}, {Get("L", "temp")},
    {SetTo("L", L1, 11)}, {SetTo("L", L2, 60000)}, {SetTo("L", RAX, 4666)}, MemOps(RBX), {Ret("V", 0, FALSE)}>>]

-----------------------------------------------------------------------------
Push1(t, h) == [op |-> "push", t |-> t, rs |-> h, imm |-> FALSE]
PushImm(t, v) == [op |-> "push", t |-> t, rs |-> v, imm |-> TRUE]
CallTo(a, r) == [op |-> "call", rs |-> a, indirect |-> FALSE, result |-> r, rd |-> NoReg]
CallVia(h, r) == [op |-> "call", rs |-> h, indirect |-> TRUE, result |-> r, rd |-> NoReg]

\* Nine parameters of both kinds fill every callee-saved register and two
\* temporaries; arguments are pushed from registers, locals and immediates.
Busy == Function("lambda", Scalars(<<"L", "I", "D", "L", "UL", "L", "F", "L", "L">>),
                 <<5001, 200, 1300, 5002, 5003, 5004, 77, 5005, 5006>>, Scalar("L"))
Quiet == Function("lambda", Scalars(<<"L", "D">>), <<4321, 1300>>, Scalar("L"))
Pushes == {Push1("L", RBX), Push1("D", X8), PushImm("I", -7), PushImm("L", 40000)}
CallProgram(f, n, slots) ==
  [slots |-> slots, script |-> <<{f}, {Get("L", "temp")}, {SetTo("L", IF f = Busy THEN R11 ELSE RAX, 99)}>>
     \o [k \in 1 .. n |-> IF k % 3 = 1 THEN Pushes ELSE IF k % 3 = 2 THEN {Push1("L", RBX), PushImm("D", 1234)}
                                             ELSE {PushImm("I", 250 + k)}]
     \o <<{SetTo("L", RBX, 31)}, {CallTo(700, Scalar(t)) : t \in {"V", "I", "D"}} \cup {CallVia(RBX, Scalar("UL"))},
          {Push1("L", RBX), Push1("F", X8)}, {CallVia(RBX, Scalar("F")), CallTo(701, Scalar("L"))},
          {Ret("L", RBX, FALSE), Ret("L", 12345, TRUE)}>>]

\* Nine integer or ten floating arguments: some go to the stack.
ManyArgs(t, n, slots) ==
  [slots |-> slots, script |-> <<{Busy, Quiet}>>
     \o [k \in 1 .. n |-> {Push1(t, IF type_is_float(t) THEN X8 ELSE RBX), PushImm(t, 10 * k)}]
     \o <<{CallTo(700, Scalar("V")), CallVia(RBX, Scalar(t))}, {Ret("L", RBX, FALSE)}>>]

TooMany == [slots |-> 1, script |->
  <<{Function("lambda", Scalars([k \in 1 .. 9 |-> "I"]), [k \in 1 .. 9 |-> k], Scalar("V"))}, {Ret("V", 0, FALSE)}>>]

\* Registers are taken and given back in any order; locals stand in.
Registers2 == {Get(t, c) : t \in {"L", "D"}, c \in {"var", "temp"}}
PoolProgram ==
  [slots |-> 7, script |-> <<{Function("lambda", Scalars(<<"L", "L", "L", "L">>), <<11, 12, 13, 14>>, Scalar("L"))},
     Registers2, Registers2, {[op |-> "putreg", rs |-> h] : h \in {RBX, R15, RAX, X8}},
     Registers2 \cup {Local(8), Local(20)}, Registers2,
     {SetTo("L", h, 5150) : h \in {RBX, R15, RAX, R10}} \cup {SetTo("D", h, 615) : h \in {X8, X9}},
     {CallTo(700, Scalar("L")), CallTo(701, Scalar("D"))},
     {Ret("L", h, FALSE) : h \in {R12, R13, R14}}>>]

\* More integers than a floating immediate may follow.
ImmediateProgram ==
  [slots |-> 5, script |-> <<{Quiet}>> \o [k \in 1 .. 6 |-> {PushImm("L", k), PushImm("D", 1234)}]
     \o <<{CallTo(700, Scalar("V"))}, {Ret("L", RBX, FALSE)}>>]

-----------------------------------------------------------------------------
Struct(size, alignment, fields) ==
  [size |-> size, alignment |-> alignment,
   fields |-> [k \in DOMAIN fields |-> [t |-> fields[k][1], off |-> fields[k][2]]]]
Chars3 == Struct(3, 1, <<<<"C", 0>>, <<"C", 1>>, <<"C", 2>>>>)
Mixed12 == Struct(12, 4, <<<<"I", 0>>, <<"F", 4>>, <<"F", 8>>>>)
LongDouble == Struct(16, 8, <<<<"L", 0>>, <<"D", 8>>>>)
TwoLongs == Struct(16, 8, <<<<"L", 0>>, <<"L", 8>>>>)
Odd15 == Struct(15, 8, <<<<"L", 0>>, <<"I", 8>>, <<"C", 12>>, <<"C", 13>>, <<"C", 14>>>>)
Floats3 == Struct(12, 4, <<<<"F", 0>>, <<"F", 4>>, <<"F", 8>>>>)
Longs3 == Struct(24, 8, <<<<"L", 0>>, <<"L", 8>>, <<"L", 16>>>>)
Wide == Struct(32, 16, <<<<"L", 0>>, <<"L", 16>>>>)
Structs == {Chars3, Mixed12, LongDouble, TwoLongs, Odd15, Floats3, Longs3, Wide}

Agg(a) == [t |-> "B", agg |-> a]
Given(ps) == [k \in DOMAIN ps |-> IF ps[k].t = "B" THEN [j \in 1 .. ps[k].agg.size |-> (j + k + j \div 3) % 4]
                                  ELSE Low(scalar_size(ps[k].t), 1000 * k + 234)]
Takes(ps, r) == Function("lambda_aggregate", ps, Given(ps), r)
RetB(h, a) == [op |-> "return", rs |-> h, imm |-> FALSE, result |-> Agg(a)]
PushB(h, a) == [op |-> "push", t |-> "B", rs |-> h, imm |-> FALSE, agg |-> a]

\* Every aggregate as parameter, argument, result and copy.
AggregateProgram(a) ==
  [slots |-> 30, script |-> <<
     {Takes(<<Scalar("L"), Agg(a), Scalar("D")>>, Agg(a)), Takes(<<Agg(a), Scalar("I"), Agg(a)>>, Agg(a))},
     {Local(a.size)}, {[op |-> "local", size |-> 8]},
     {PushB(h, a) : h \in {RBX, R12}}, {Push1("L", RBX), PushB(R12, a), PushImm("D", 17)},
     {CallTo(700, Agg(a)), CallTo(700, Scalar("V")), CallVia(RBX, Agg(a))},
     {[op |-> "copyb", rd |-> x, rs |-> y] : x \in {RBX, R12, R13, R14}, y \in {RBX, R12, R13, R14}},
     {RetB(h, a) : h \in {RBX, R12, R13, R14}}>>]

\* Registers run out in the middle of an aggregate.
Full(a, n, t) == Takes([k \in 1 .. n |-> Scalar(t)] \o <<Agg(a), Scalar(t), Scalar("L")>>, Scalar("V"))
FullProgram(a) ==
  [slots |-> 14, script |-> <<
     {Full(a, n, "D") : n \in 6 .. 8} \cup {Full(a, n, "I") : n \in 3 .. 5},
     {[op |-> "address", rd |-> -48, block |-> -48, size |-> 8], Local(8)},
     {Ret("V", 0, FALSE)}>>]

\* Calls with four or more scalars before an aggregate.
FullCallProgram(a) ==
  [slots |-> 40, script |-> <<{Takes(<<Agg(a), Scalar("L"), Scalar("D")>>, Scalar("L"))}>>
     \o [k \in 1 .. 5 |-> {Push1("L", R12), PushImm("I", k)}]
     \o <<{PushB(RBX, a), PushImm("L", 5)}, {PushB(RBX, a), Push1("D", X8)}, {PushB(RBX, a)},
          {CallTo(700, Agg(a)), CallTo(701, Scalar("I"))}, {Ret("L", R12, FALSE)}>>]

\* An aggregate in memory after scalars that may hold the registers of the copy.
AfterProgram ==
  [slots |-> 5, script |-> <<{Takes([k \in 1 .. n |-> Scalar("L")] \o <<Agg(Wide)>>, Scalar("V")) : n \in 3 .. 7},
     {Ret("V", 0, FALSE)}>>]

\* Copies of aggregates whose handles, or a live value, may be in %rax, %r10 or %r11.
ScratchProgram ==
  [slots |-> 9, script |-> <<{Takes([k \in 1 .. n |-> IF k < 3 THEN Agg(Wide) ELSE Scalar("L")], Scalar("V")) : n \in 3 .. 6}>>
     \o [k \in 1 .. 2 |-> {Get("L", "temp")}] \o <<{SetTo("L", h, 5) : h \in {RAX, R10, R11}},
     {[op |-> "copyb", rd |-> x, rs |-> y] : x \in {RBX, R12}, y \in {RBX, R12}}, {Ret("V", 0, FALSE)}>>]

Variadic(ps, es) ==
  [Function("lambda", ps, Given(ps), Scalar("L")) EXCEPT !.variadic = TRUE, !.extraParams = es, !.extra = Given(es)]
VaArg(t) == [op |-> "va_arg", t |-> t, list |-> Mkvirt(25)]
Extras == {Scalars(<<"I", "D", "L", "D", "I">>), Scalars(<<"L", "L", "L", "I", "L", "D", "L">>),
           Scalars(<<"D", "D", "D", "D", "I", "D", "D", "D", "D", "D">>)}
VariadicProgram ==
  [slots |-> 40, script |-> <<
     {Variadic(Scalars(ts), es) : ts \in {<<"L">>, <<"D", "I">>, <<"L", "D", "L">>}, es \in Extras},
     {Local(24)}, {[op |-> "va_start", list |-> Mkvirt(25)]}>>
     \o [k \in 1 .. 10 |-> {VaArg(t) : t \in {"I", "L", "D"}} \cup (IF k = 3 THEN {CallTo(700, Scalar("V"))} ELSE {})]
     \o <<{Ret("L", RBX, FALSE)}>>]

\* Two functions in turn.
ClosureProgram ==
  [slots |-> 11, script |-> <<
     {[Function("clambda", Scalars(ts), Given(Scalars(ts)), Scalar("L")) EXCEPT !.pointee = <<>>] :
        ts \in {<<"L", "D", "I">>, <<"C", "F", "UC", "S", "US", "L", "UL", "U">>}},
     {Get("L", "var"), Local(8)}, {Ret("L", 5, TRUE)}, {Quiet}, {CallTo(700, Scalar("V"))}, {Ret("L", RBX, FALSE)}>>]

MCPrograms ==
  [int |-> IntProgram, float |-> FloatProgram("F", 45), double |-> FloatProgram("D", 4500),
   memory |-> MemProgram("lambda"), call0 |-> CallProgram(Busy, 0, 24), call2 |-> CallProgram(Quiet, 2, 25),
   call4 |-> CallProgram(Busy, 4, 31), ints |-> ManyArgs("L", 9, 25), doubles |-> ManyArgs("D", 10, 26),
   pool |-> PoolProgram, many |-> TooMany, variadic |-> VariadicProgram, closure |-> ClosureProgram]
  @@ [chars3 |-> AggregateProgram(Chars3), mixed12 |-> AggregateProgram(Mixed12),
      longdouble |-> AggregateProgram(LongDouble), odd15 |-> AggregateProgram(Odd15),
      floats3 |-> AggregateProgram(Floats3), longs3 |-> AggregateProgram(Longs3), wide |-> AggregateProgram(Wide),
      fullints |-> FullProgram(TwoLongs), fullboth |-> FullProgram(LongDouble), fullfloats |-> FullProgram(Floats3),
      fullmemory |-> FullProgram(Wide), callints |-> FullCallProgram(TwoLongs), callwide |-> FullCallProgram(Wide),
      callboth |-> FullCallProgram(LongDouble), immediates |-> ImmediateProgram, after |-> AfterProgram,
      scratch |-> ScratchProgram]

\* Five integer arguments and a call through a register.
MCIndirect == [five |-> [slots |-> 10, script |-> <<{Quiet}>> \o [k \in 1 .. 5 |-> {Push1("L", RBX), PushImm("I", k)}]
                           \o <<{CallVia(RBX, Scalar("UL")), CallTo(700, Scalar("UL"))}, {Ret("L", RBX, FALSE)}>>]]
=============================================================================
