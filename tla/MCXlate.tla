------------------------------ MODULE MCXlate -------------------------------
(* The label table and the translator: a behaviour is one of the two at      *)
(* work.  The table has three usable numbers and two references per label,    *)
(* and an icode program may make one label more than it can hold.  The        *)
(* translator is given every kind of instruction, with operands of 4 and 8    *)
(* bytes and of floating point, the frame and zero as bases, and calls with   *)
(* up to three arguments followed by an instruction that uses the result.     *)
EXTENDS Labels, Translate

MCConditions == [icode |-> {"int", "NE", "GT"}, vcode |-> {"int", "NE", "LT"}]

MCTypeOf == [l \in 0 .. 5 |-> IF l <= 1 THEN "i" ELSE IF l <= 3 THEN "p" ELSE "d"]
MCAssignments ==
  {<<"r12", "r13", "r14", f, g>> : f \in {"ft0", "xmm2"}, g \in {"ft1", "xmm3"}}
MCFromZero == {[l \in 0 .. 5 |-> IF l = 0 THEN "rbx" ELSE f[l]] : f \in MCAssignments}

\* An instruction: kind, type, rd, rs, rs2 and immediate; for the rest, defaults.
I(k, type, d, s, s2, n) ==
  [k |-> k, ty |-> type, from |-> type, rd |-> d, rs |-> s, rs2 |-> s2, imm |-> n, label |-> 3]
Cv(from, to, d, s) == [I("cv", to, d, s, 0, 0) EXCEPT !.from = from]

Two == {<<"i", 0, 1>>, <<"p", 2, 3>>, <<"d", 4, 5>>}   \* a type and two locals of it
Ones == {<<"i", 0, 1>>, <<"p", 2, 3>>}

Computing ==
       {I("bop", t[1], t[2], t[2], t[3], 0) : t \in Two} \cup {I("bop", t[1], t[2], t[3], t[2], 0) : t \in Two}
  \cup {I("bopi", t[1], t[2], t[3], 0, 2) : t \in Ones} \cup {I("uopi", t[1], t[2], 0, 0, 2) : t \in Ones}
  \cup {I(k, t[1], t[2], t[3], 0, 0) : k \in {"uop", "mov"}, t \in Two}
  \cup {I("set", t[1], t[2], 0, 0, n) : t \in Two, n \in {0, 2}}
  \cup {Cv("i", "p", 2, 0), Cv("p", "i", 0, 2), Cv("d", "i", 0, 4), Cv("i", "d", 4, 0), Cv("d", "p", 2, 5)}
  \cup {I("self", "p", 2, 0, 0, 0), I("lea", "p", 2, 1, 0, 0), I("nop", "i", 0, 0, 0, 0)}

Accessing ==
       {I(k, t[1], t[2], b, 3, 0) : k \in {"mopr", "mopw"}, t \in Two, b \in {2, i_zero, i_lp}}
  \cup {I(k, t[1], t[2], b, 0, 1) : k \in {"mopri", "mopwi"}, t \in Two, b \in {2, i_zero, i_lp}}
  \cup {I("blkcopy", "b", 2, 3, 0, 4)}

Leaving ==
       {I("br", t[1], 0, t[2], t[3], 0) : t \in Two} \cup {I("bri", t[1], 0, t[2], 0, 2) : t \in Ones}
  \cup {I("ret", t[1], t[2], 0, 0, 0) : t \in Two} \cup {I("retb", "b", 2, 0, 0, 1), I("retv", "v", 0, 0, 0, 0)}
  \cup {I("reti", "i", 0, 0, 0, 2), I("jpi", "p", 0, 0, 0, 2), I("jp", "p", 2, 0, 0, 0), I("lbl", "v", 3, 0, 0, 0)}

Arguments ==
  { <<>>, <<I("arg", "d", 4, 0, 0, 0)>>,
    <<I("arg", "d", 4, 0, 0, 0), I("argb", "b", 2, 0, 0, 1), I("arg", "d", 5, 0, 0, 0)>>,
    <<I("arg", "i", 0, 0, 0, 0), I("arg", "p", 3, 0, 0, 0)>> }

Calling ==
       {I("call", "p", 2, 3, 0, 0), I("callv", "v", 0, 3, 0, 0), I("callvi", "v", 0, 0, 0, 5)}
  \cup {I("call", t[1], t[2], 3, 0, 0) : t \in Two} \cup {I("calli", t[1], t[2], 0, 0, 5) : t \in Two}
  \cup {I("callb", "b", 2, 3, 0, 1), I("callbi", "b", 2, 0, 0, 5)}

MCPrograms ==
       {<<i>> : i \in Computing \cup Accessing \cup Leaving}
  \cup {Append(args, call) : args \in Arguments, call \in Calling}
  \cup {args \o <<call, I("bop", "p", 2, 3, 2, 0)>> : args \in Arguments, call \in Calling}

VARIABLE part  (* which of the two is at work *)

Alone ==  \* the other one, at rest
  LET i == I("nop", "i", 0, 0, 0, 0)
  IN  /\ alloc = "RA_EZ" /\ prog = <<i>> /\ home = [l \in Locals |-> Slot(l)]

XlateInit ==
  \/ part = "labels" /\ Init /\ Alone /\ XInit
  \/ part = "xlate" /\ mode = "icode" /\ Init /\ XInit

XlateNext ==
  /\ \/ part = "labels" /\ Next /\ UNCHANGED xvars
     \/ part = "xlate" /\ XNext /\ UNCHANGED vars
  /\ UNCHANGED part

XlateSpec == XlateInit /\ [][XlateNext]_<<vars, xvars, part>>
=============================================================================
