--------------------------- MODULE FunctionTable ----------------------------
(***************************************************************************)
(* What compile() and decompile() promise a `C program, apart from how     *)
(* tickc-rts.c and code-memory.c keep the promise: a compiled function has *)
(* an address and pages of its own until it is decompiled, and neither     *)
(* operation touches another function.                                     *)
(***************************************************************************)
EXTENDS Integers

CONSTANT Pages    (* the pages of the address space, a function's address  *)
                  (* being the first of its pages                          *)

VARIABLE code     (* live functions: address -> its pages                  *)

Init == code = [a \in {} |-> {}]

\* compile() returns a function with memory of its own.
Publish(a, pages) ==
  /\ a \in pages
  /\ \A b \in DOMAIN code : code[b] \cap pages = {}
  /\ code' = [b \in DOMAIN code \cup {a} |-> IF b = a THEN pages ELSE code[b]]

\* decompile() gives one function up.
Retire(a) ==
  /\ a \in DOMAIN code
  /\ code' = [b \in DOMAIN code \ {a} |-> code[b]]

Next ==
  \/ \E a \in Pages : \E last \in Pages : Publish(a, a .. last)
  \/ \E a \in Pages : Retire(a)

Spec == Init /\ [][Next]_code
=============================================================================
