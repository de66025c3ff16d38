------------------------------ MODULE FrontEnd ------------------------------
(***************************************************************************)
(* The declarations of a C program go through rcc, and through the C it    *)
(* writes.  A step gives the compiler one more declaration or definition;  *)
(* three readings of the program so far are kept:                          *)
(*   e   what it means in C (CDeclarations)                                *)
(*   c   what rcc makes of its text (Declarations)                         *)
(*   r   what its own reader makes of the C text rcc wrote                 *)
(* Each step forgets the text and the facts of the step before it.         *)
(* The two sides are parameters: Reading is rcc (ReadAll below, of module  *)
(* Declarations) and Sense is C (Meaning, of module CDeclarations).        *)
(***************************************************************************)
EXTENDS CDeclarations

CONSTANTS Reading(_),   \* Reading(s): the compiler once it read the text it has in s
          Sense(_, _),  \* Sense(e, d): what is known in e after the declaration d
          Largest,      \* the numbers 0..Largest are written
          Pool          \* Pool[i] are the i-th declarations a program may have

LOCAL INSTANCE SequencesExt

R == INSTANCE Declarations

MaxLength == Len(Pool)

VARIABLES e, c, r,
          phase,        \* how many were read, MaxLength + 1 at the end of the program
          written       \* the C text of the last one

vars == <<e, c, r, phase, written>>

-----------------------------------------------------------------------------
(* What rcc knows, in the terms of the reference.                          *)

BasicNames == <<"char", "signed char", "unsigned char", "short", "unsigned short", "int", "unsigned int",
                "long", "unsigned long", "float", "double", "long double">>
Op(ty) == CASE ty.op = "POINTER" -> "ptr" [] ty.op = "ARRAY" -> "array" [] ty.op = "FUNCTION" -> "func"
            [] ty.op = "STRUCT" -> "struct" [] ty.op = "UNION" -> "union" [] ty.op = "ENUM" -> "enum"
            [] ty.op = "CSPEC" -> "cspec" [] ty.op = "VSPEC" -> "vspec" [] ty.op = "VOID" -> "void"
            [] OTHER -> BasicNames[ty.sym]

RECURSIVE TypeOf(_, _)
TypeOf(d, ty) ==
  LET of == R!unqual(ty)
      q == (IF R!isconst(ty) THEN {"const"} ELSE {}) \cup (IF R!isvolatile(ty) THEN {"volatile"} ELSE {})
      made == of.op \in {"POINTER", "ARRAY", "FUNCTION"} \cup R!Specs
      n == IF of.size > 0 /\ R!Size(d, of.to) > 0 THEN R!Elements(d, of) ELSE 0
  IN  [CType(Op(of)) EXCEPT !.to = IF made THEN <<TypeOf(d, of.to)>> ELSE <<>>,
                            !.n = IF of.op = "ARRAY" THEN n ELSE 0,
                            !.args = [i \in DOMAIN of.args |-> TypeOf(d, of.args[i])],
                            !.style = of.style,
                            !.tag = IF of.op \in R!Tagged THEN of.sym ELSE 0,
                            !.q = q]

\* What a type is in the C written: spec types are one type there, and a K&R
\* definition has a prototype.
RECURSIVE Emitted(_)
Emitted(t) ==
  IF t.op \in {"cspec", "vspec"} THEN CType(t.op)
  ELSE [t EXCEPT !.to = [i \in DOMAIN t.to |-> Emitted(t.to[i])], !.args = [i \in DOMAIN t.args |-> Emitted(t.args[i])],
                 !.style = IF t.style = "old" THEN "new" ELSE t.style]

Generated(name) == name \in {"_TS" \o ToString(n) : n \in 1..20} \cup {"_TF" \o ToString(n) : n \in 1..20}
\* The global names, the uses and sizes, and the tags with their layout, with each
\* type as V shows it.
Exactly(t) == t
View(d, V(_)) ==
  LET Type0(ty) == V(TypeOf(d, ty))
      Id0(p) == [name |-> p.name, ty |-> Type0(p.ty), v |-> p.value, internal |-> p.sclass = "static", defined |-> p.defined,
                 kind |-> CASE p.sclass = "typedef" -> "typedef" [] p.sclass = "enum" -> "enumerator"
                            [] OTHER -> IF R!isfunc(p.ty) THEN "function" ELSE "object"]
      Fact0(f) == CASE f[1] = "use" -> <<"use", f[2], f[3], Type0(f[4])>>
                    [] f[1] = "sizeof" -> <<"sizeof", Type0(f[2]), R!Size(d, f[2])>>
                    [] f[1] = "enumerator" -> f
      Field0(f) == [name |-> f.name, ty |-> Type0(f.ty), bits |-> IF f.isbits THEN f.bitsize ELSE -1,
                    at |-> 8 * f.offset + (IF f.isbits THEN f.lsb - 1 ELSE 0)]
      Tag0(p) == LET named == SelectSeq(p.fields, LAMBDA f : ~Generated(f.name))
                 IN  [name |-> IF Generated(p.name) THEN "" ELSE p.name, op |-> Op([op |-> p.op]),
                      size |-> p.size, align |-> p.align,
                      fields |-> IF p.op = "ENUM" THEN <<>> ELSE [k \in DOMAIN named |-> Field0(named[k])]]
      facts == SelectSeq(d.facts, LAMBDA f : f[1] # "struct")
  IN  [ids |-> {Id0(d.ids[i]) : i \in {j \in DOMAIN d.ids : d.ids[j].scope > 0}}, facts |-> [i \in DOMAIN facts |-> Fact0(facts[i])],
       tags |-> [i \in DOMAIN d.tags |-> Tag0(d.tags[i])]]

View0 ==
  LET Id0(p) == [name |-> p.name, ty |-> p.ty, v |-> p.v, internal |-> p.linkage = "internal", defined |-> p.defined, kind |-> p.kind]
      Tag0(p) == [name |-> p.name, op |-> p.op, size |-> p.size, align |-> p.align, fields |-> p.fields]
  IN  [ids |-> {Id0(e.ids[i]) : i \in DOMAIN e.ids}, facts |-> e.facts, tags |-> [i \in DOMAIN e.tags |-> Tag0(e.tags[i])]]

-----------------------------------------------------------------------------
(* The program, one declaration after the other.                           *)

Fresh(d) == [d EXCEPT !.out = <<>>, !.pend = <<>>, !.facts = <<>>]
\* The names of the spec types in the C written are outside the program.
SpecTypedef(name, op) ==
  [name |-> name, scope |-> 0, sclass |-> "typedef", ty |-> R!type(op, R!voidtype, R!POINTER_SIZE, R!POINTER_SIZE, 0),
   defined |-> FALSE, value |-> 0, ref |-> FALSE]
Again == [R!Initially EXCEPT !.emit = FALSE, !.flush = FALSE,
                             !.ids = <<SpecTypedef("_Cspec", "CSPEC"), SpecTypedef("_Vspec", "VSPEC")>>]

Init == /\ e = Env0 /\ c = R!Initially /\ r = Again
        /\ phase = 0 /\ written = <<>>

\* All the declarations in the text d is given.
RECURSIVE ReadAll(_)
ReadAll(d) == IF R!T(d) = "EOI" \/ d.err THEN d ELSE ReadAll(R!External(d))

Read(d) ==
  /\ e.ok /\ ~c.err
  /\ LET next == Reading([Fresh(c) EXCEPT !.ts = Text(d)])
     IN  /\ e' = Sense([e EXCEPT !.facts = <<>>], d)
         /\ c' = [next EXCEPT !.out = <<>>, !.pend = <<>>]
         /\ written' = next.out
         /\ r' = IF next.err THEN r ELSE Reading([Fresh(r) EXCEPT !.ts = next.out])
  /\ phase' = phase + 1

Finish ==
  /\ phase \in 1..MaxLength /\ e.ok /\ ~c.err
  /\ e' = Ended([e EXCEPT !.facts = <<>>])
  /\ c' = R!finalize(Fresh(c))
  /\ r' = R!finalize(Fresh(r))
  /\ phase' = MaxLength + 1 /\ written' = <<>>

Next == (phase < MaxLength /\ \E d \in Pool[phase + 1] : Read(d)) \/ Finish

Spec == Init /\ [][Next]_vars

-----------------------------------------------------------------------------
(* What rcc promises.                                                      *)

\* rcc takes the programs that are C, and reports an error in the others.
DiagnosesAsC == phase > 0 => c.err = ~e.ok

Accepted == e.ok /\ ~c.err



\* The C that rcc writes declares the same names, types and tags, and its uses are
\* of the same ones.
OutputSameProgram == Accepted => ~r.err /\ View(r, Emitted) = View(c, Emitted)
=============================================================================
