------------------------------- MODULE MCFlow -------------------------------
(* Programs of two or three locals: loops, branches, code laid out before   *)
(* the code that reaches it, nested and irreducible loops.                  *)
EXTENDS Flow

V2 == {1, 2}
V3 == {1, 2, 3}
Ops == {Op(1, {2}), Op(2, {1}), Op(2, {2}), Op(1, {}), Use({2}), Call({1}, {2})}
Few == {Op(2, {1}), Op(1, {}), Use({1, 2})}
Ends == {Ret({1}), Ret({})}

Loop == <<{Call({1}, {})}, {Op(2, {}), Lbl(1)}, {Lbl(2)}, Ops, Ops, {Br({u}, 2) : u \in V2}, Few, Ends>>
Diamond == <<{Op(1, {})}, {Op(2, {}), Use({})}, {Br({u}, 2) : u \in V2}, Ops, {Jmp(3)}, {Lbl(2)}, Ops, {Lbl(3)}, Few, {Ret({1})}>>
Backward == <<{Jmp(2)}, {Lbl(3)}, Ops, {Ret({u}) : u \in V2}, {Lbl(2)}, Ops, Few, {Br({1}, 3), Jmp(3)}, {Op(1, {})}, {Ret({2})}>>
Nested == <<{Op(1, {}), Op(2, {})}, {Lbl(2)}, Few, {Lbl(3)}, Few, {Br({u}, 3) : u \in V2}, Few, {Br({1}, 2)}, {Ret({2})}>>
Irreducible == <<{Op(1, {})}, {Br({1}, 3)}, {Lbl(2)}, Few, {Lbl(3)}, Few, {Br({2}, 2)}, {Jmp(4)}, Few, {Lbl(4)}, Ends>>
Three == <<{Op(1, {})}, {Op(2, {})}, {Op(3, {}), Lea(3, 1)}, {Lbl(2)}, {Op(d, {u}) : d \in V3, u \in V3}, {Br({u}, 2) : u \in V3}, {Use({1, 3}), Use({2, 3})}, {Ret({2})}>>
MCScripts == [loop |-> Loop, diamond |-> Diamond, backward |-> Backward, nested |-> Nested, irreducible |-> Irreducible, three |-> Three, weighted |-> Three, hot |-> Three]
MCVars == 1 .. 5
\* Locals 4 and 5 are declared and never used: they bring the average down, so
\* that the colouring defers the spill of the locals of "hot".
MCRefCount == [s \in DOMAIN MCScripts |-> [v \in MCVars |->
  IF v > 3 THEN IF s = "hot" THEN 0 ELSE 1
  ELSE IF s = "hot" \/ (s # "three" /\ v = 1) THEN 9 ELSE 2]]
=============================================================================
