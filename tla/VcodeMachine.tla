---------------------------- MODULE VcodeMachine ----------------------------
(***************************************************************************)
(* What vcode promises a client: an abstract machine with as many typed    *)
(* registers as the client asks for.  A handle obtained from v_getreg,     *)
(* v_local or a lambda holds the value last assigned to it, whatever else  *)
(* the client emits, until the client puts it back; handles of class       *)
(* V_TEMP lose it at a call.  Calls, branches and returns see the values   *)
(* of their operands.  No registers, frames or instructions appear here.   *)
(***************************************************************************)
EXTENDS X86

VARIABLES
  request,     \* the operation just performed
  live,        \* handle the client holds -> its class
  val,         \* handle that has a value -> the value
  pushed,      \* arguments pushed for the next call
  more,        \* variable arguments not fetched yet
  out          \* what the operation let the outside see

absvars == <<request, live, val, pushed, more, out>>

Nothing == "nothing"
Empty == [h \in {} |-> 0]

Init ==
  /\ request = [op |-> "none"] /\ out = Nothing
  /\ live = Empty /\ val = Empty /\ pushed = <<>> /\ more = <<>>

With(f, h, v) == [x \in DOMAIN f \cup {h} |-> IF x = h THEN v ELSE f[x]]
Without(f, S) == [x \in DOMAIN f \ S |-> f[x]]

\* The operand of an instruction of type t; register 99 is v_zero.
Operand(h, t) == IF h = NoBase THEN 0 ELSE Low(scalar_size(t), val[h])
Part(bytes, off, n) == SubSeq(bytes, off + 1, off + n)
Patched(bytes, off, new) ==
  [k \in DOMAIN bytes |-> IF k \in off + 1 .. off + Len(new) THEN new[k - off] ELSE bytes[k]]
Bytes(v, n) == [k \in 1 .. n |-> (v \div (2 ^ (ByteBits * (k - 1)))) % (2 ^ ByteBits)]
Offset(q) == IF q.byreg THEN val[q.off] ELSE q.off

\* The value an operation assigns to its destination q.rd.
Value(q) ==
  CASE q.op = "move" -> Operand(q.rs, q.t)
    [] q.op = "set" -> Low(scalar_size(q.t), q.imm)
    [] q.op = "binary" /\ type_is_float(q.t) ->
         Floating(q.f, scalar_size(q.t), Operand(q.rs1, q.t), Operand(q.rs2, q.t))
    [] q.op = "binary" /\ ~type_is_float(q.t) ->
         Integer(q.f, scalar_size(q.t), type_is_signed(q.t), Operand(q.rs1, q.t), Operand(q.rs2, q.t))
    [] q.op = "binary_imm" ->
         Integer(q.f, scalar_size(q.t), type_is_signed(q.t), Operand(q.rs, q.t), Low(scalar_size(q.t), q.imm))
    [] q.op = "unary" /\ type_is_float(q.t) ->
         (Operand(q.rs, q.t) + SignBit(scalar_size(q.t))) % (2 * SignBit(scalar_size(q.t)))
    [] q.op = "unary" /\ ~type_is_float(q.t) -> Monadic(q.f, scalar_size(q.t), Operand(q.rs, q.t))
    [] q.op = "convert" -> Convert(q.t, q.ts, Operand(q.rs, q.ts))
    [] q.op = "load" -> Spell(Part(val[q.base], Offset(q), scalar_size(q.t)))
    [] q.op = "copyb" -> val[q.rs]
    [] q.op = "va_arg" -> Head(more)
    [] q.op = "call" -> Answer(q.result)

Assigns == {"move", "set", "binary", "binary_imm", "unary", "convert", "load", "copyb"}

\* Registers a caller must announce to a variadic function.
Vectors(result) ==
  LET places == Place(pushed, Hidden(result))
  IN  Cardinality({<<k, w>> \in (DOMAIN places) \X (1 .. 2) :
                     w \in DOMAIN places[k].regs /\ places[k].regs[w] >= XMM(0)})

Argument(a) == IF a.t = "B" THEN val[a.of] ELSE a.v

Next ==
  LET q == request' IN
  \/ /\ q.op = "lambda"
     /\ val' = [h \in {q.rds[k] : k \in DOMAIN q.rds} |->
                  q.values[CHOOSE k \in DOMAIN q.rds : q.rds[k] = h]]
     /\ \A j, k \in DOMAIN q.rds : q.rds[j] = q.rds[k] => j = k
     /\ live' = [h \in DOMAIN val' |-> "var"]
     /\ pushed' = <<>> /\ more' = q.extra /\ out' = Nothing
  \/ /\ q.op \in {"getreg", "local"}
     /\ q.rd \notin DOMAIN live
     /\ live' = With(live, q.rd, q.class)
     /\ out' = Nothing /\ UNCHANGED <<val, pushed, more>>
  \/ /\ q.op = "address"
     /\ val' = With(val, q.rd, q.bytes)
     /\ out' = Nothing /\ UNCHANGED <<live, pushed, more>>
  \/ /\ q.op = "putreg"
     /\ live' = Without(live, {q.rs}) /\ val' = Without(val, {q.rs})
     /\ out' = Nothing /\ UNCHANGED <<pushed, more>>
  \/ /\ q.op \in Assigns
     /\ val' = With(val, q.rd, Value(q))
     /\ out' = Nothing /\ UNCHANGED <<live, pushed, more>>
  \/ /\ q.op = "store"
     /\ val' = [val EXCEPT ![q.base] =
                  Patched(@, Offset(q), Bytes(Operand(q.rs, q.t), scalar_size(q.t)))]
     /\ out' = Nothing /\ UNCHANGED <<live, pushed, more>>
  \/ /\ q.op = "branch"
     /\ out' = Holds(q.c, q.t, Operand(q.rs, q.t),
                     IF q.byreg THEN Operand(q.off, q.t) ELSE Low(scalar_size(q.t), q.off))
     /\ UNCHANGED <<live, val, pushed, more>>
  \/ /\ q.op = "push"
     /\ pushed' = Append(pushed,
          CASE q.t = "B" -> [t |-> "B", of |-> q.rs, agg |-> q.agg]
            [] q.imm -> [t |-> q.t, v |-> Low(scalar_size(q.t), q.rs)]
            [] OTHER -> [t |-> q.t, v |-> Operand(q.rs, q.t)])
     /\ out' = Nothing /\ UNCHANGED <<live, val, more>>
  \/ /\ q.op = "call"
     /\ out' = [to |-> IF q.indirect THEN val[q.rs] ELSE q.rs,
                args |-> [k \in DOMAIN pushed |-> Argument(pushed[k])],
                vectors |-> Vectors(q.result), aligned |-> TRUE]
     /\ LET kept == Without(val, {h \in DOMAIN live : live[h] = "temp"})
        IN IF q.result.t = "V" THEN val' = kept /\ live' = live
           ELSE /\ q.rd \notin DOMAIN live
                /\ val' = With(kept, q.rd, Value(q)) /\ live' = With(live, q.rd, "var")
     /\ pushed' = <<>> /\ UNCHANGED more
  \/ /\ q.op = "va_start"
     /\ out' = Nothing /\ UNCHANGED <<live, val, pushed, more>>
  \/ /\ q.op = "va_arg"
     /\ q.rd \notin DOMAIN live
     /\ val' = With(val, q.rd, Value(q)) /\ live' = With(live, q.rd, "var")
     /\ more' = Tail(more) /\ out' = Nothing /\ UNCHANGED pushed
  \/ /\ q.op = "return"
     /\ out' = [value |-> CASE q.result.t = "V" -> Nothing
                            [] q.result.t = "B" -> val[q.rs]
                            [] q.imm -> Low(scalar_size(q.result.t), q.rs)
                            [] OTHER -> Operand(q.rs, q.result.t),
                callee_saved_kept |-> TRUE]
     /\ live' = Empty /\ val' = Empty /\ pushed' = <<>> /\ more' = <<>>
  \/ /\ q.op = "fatal"
     /\ out' = Nothing /\ UNCHANGED <<live, val, pushed, more>>

Spec == Init /\ [][Next]_absvars
=============================================================================
