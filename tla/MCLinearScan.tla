---------------------------- MODULE MCLinearScan ----------------------------
(* Four or five locals and two or three registers, one of them a temporary: *)
(* the locals outnumber the registers, so some are spilled.                 *)
EXTENDS LinearScan, TLC
CONSTANTS r1, r2, r3
ThreeRegs == {r1, r2, r3}
TwoRegs == {r1, r3}
OneTemp == {r3}
Symmetry == Permutations({r1, r2})
NoneOrOneParam == {{}, {2}}
OneParam == {{1}}
SomeOnStack == {{}, {2}, {1, 3}}
NoneOnStack == {{}}
=============================================================================
