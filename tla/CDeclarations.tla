---------------------------- MODULE CDeclarations ----------------------------
(***************************************************************************)
(* What the declarations of a C program mean, from the standard: the       *)
(* reference the reader of rcc is held to; first, the abstract syntax of   *)
(* the declarations and its text.  A declarator is the sequence mods of    *)
(* the steps from its name outward.  The meaning is an environment         *)
(* e: the names and tags in scope, the struct, union and enum types, what  *)
(* each name used and each sizeof is (facts), and whether the program is   *)
(* valid (ok).                                                             *)
(***************************************************************************)
EXTENDS Integers, Sequences, FiniteSets

CONSTANT StringSize     \* the strings of the program, each with the size of its array

LOCAL INSTANCE SequencesExt
LOCAL INSTANCE TLC

-----------------------------------------------------------------------------
(* Abstract syntax.                                                        *)

\* Specifiers: basic words, a typedef name, or struct S, union S, enum S with or
\* without a body.
Spec0 == [q |-> <<>>, op |-> "basic", words |-> <<>>, tag |-> "", has |-> FALSE, body |-> <<>>]
Words(w) == [Spec0 EXCEPT !.words = w]
Qualified0(q, s) == [s EXCEPT !.q = q]
TypeName(t) == [Spec0 EXCEPT !.op = "name", !.tag = t]
Reference(op, tag) == [Spec0 EXCEPT !.op = op, !.tag = tag]
WithBody(op, tag, body) == [Spec0 EXCEPT !.op = op, !.tag = tag, !.has = TRUE, !.body = body]

Mod0 == [m |-> "ptr", q |-> <<>>, n |-> 0, params |-> <<>>, style |-> "", dots |-> FALSE]
Ptr == Mod0
QualifiedPtr(q) == [Mod0 EXCEPT !.q = q]
Tick(m) == [Mod0 EXCEPT !.m = m]
Array(n) == [Mod0 EXCEPT !.m = "array", !.n = n]
\* A function of typed parameters, of names only, and of nothing said.
Prototype(params, dots) == [Mod0 EXCEPT !.m = "func", !.params = params, !.style = "new", !.dots = dots]
Names0(names) ==
  [Mod0 EXCEPT !.m = "func", !.params = [i \in DOMAIN names |-> [spec |-> Words(<<"int">>), mods |-> <<>>, name |-> names[i]]],
               !.style = "names"]
NoPrototype == [Mod0 EXCEPT !.m = "func", !.style = "none"]
Param(spec, mods, name) == [spec |-> spec, mods |-> mods, name |-> name]

\* Expressions and initializers: x is the kind of the expression, or "list".
Expr0 == [x |-> "number", id |-> "", v |-> 0, spec |-> Spec0, mods |-> <<>>, list |-> <<>>, comma |-> FALSE]
Number(v) == [Expr0 EXCEPT !.v = v]
String(s) == [Expr0 EXCEPT !.x = "string", !.id = s]
Use(id) == [Expr0 EXCEPT !.x = "name", !.id = id]
Address(id) == [Expr0 EXCEPT !.x = "address", !.id = id]
Call0(id, list) == [Expr0 EXCEPT !.x = "call", !.id = id, !.list = list]
SizeOfType(spec, mods) == [Expr0 EXCEPT !.x = "sizeof", !.spec = spec, !.mods = mods]
SizeOfName(id) == [Expr0 EXCEPT !.x = "sizeof name", !.id = id]
List(list) == [Expr0 EXCEPT !.x = "list", !.list = list]
ListComma(list) == [List(list) EXCEPT !.comma = TRUE]

\* A declarator with its initializer, or its bits; -1 says that it has none.
Item(name, mods) == [name |-> name, mods |-> mods, init |-> <<>>, bits |-> -1]
Initialized(name, mods, init) == [Item(name, mods) EXCEPT !.init = <<init>>]
Bits(name, n) == [Item(name, <<>>) EXCEPT !.bits = n]

Syntax0 == [k |-> "decl", class |-> "", spec |-> Spec0, items |-> <<>>, old |-> <<>>, body |-> <<>>, e |-> Expr0]
Declaration(class, spec, items) == [Syntax0 EXCEPT !.class = class, !.spec = spec, !.items = items]
Definition(class, spec, item, old, body) ==
  [Syntax0 EXCEPT !.k = "def", !.class = class, !.spec = spec, !.items = <<item>>, !.old = old, !.body = body]
Expression0(e) == [Syntax0 EXCEPT !.k = "expr", !.e = e]
Block(body) == [Syntax0 EXCEPT !.k = "block", !.body = body]

-----------------------------------------------------------------------------
(* Its text.                                                               *)

Commas(texts) == FlattenSeq([i \in DOMAIN texts |-> IF i = 1 THEN texts[i] ELSE <<",">> \o texts[i]])

RECURSIVE SpecText(_), Declarator(_, _, _), ExprText(_), Text(_), TextAll(_)

SpecText(s) ==
  s.q \o CASE s.op = "basic" -> s.words
           [] s.op = "name" -> <<s.tag>>
           [] OTHER -> <<s.op>> \o (IF s.tag = "" THEN <<>> ELSE <<s.tag>>)
                         \o IF ~s.has THEN <<>>
                            ELSE <<"{">> \o (IF s.op = "enum"
                                             THEN Commas([i \in DOMAIN s.body |-> <<s.body[i].name>> \o
                                                    IF s.body[i].init = <<>> THEN <<>> ELSE <<"=">> \o ExprText(s.body[i].init[1])])
                                             ELSE TextAll(s.body)) \o <<"}">>

\* str with the steps mods around it; after says that the last one was before it.
Declarator(mods, str, after) ==
  LET m == Head(mods)
      in == IF after /\ m.m \in {"array", "func"} THEN <<"(">> \o str \o <<")">> ELSE str
      params == IF m.style = "names" THEN [i \in DOMAIN m.params |-> <<m.params[i].name>>]
                ELSE [i \in DOMAIN m.params |->
                        LET p == m.params[i]
                        IN  SpecText(p.spec) \o Declarator(p.mods, IF p.name = "" THEN <<>> ELSE <<p.name>>, FALSE)]
      none == IF m.style = "new" THEN <<"void">> ELSE <<>>
  IN  IF mods = <<>> THEN str
      ELSE Declarator(Tail(mods),
             CASE m.m = "ptr" -> <<"*">> \o m.q \o in
               [] m.m \in {"cspec", "vspec"} -> <<m.m>> \o in
               [] m.m = "array" -> in \o <<"[">> \o (IF m.n = 0 THEN <<>> ELSE <<ToString(m.n)>>) \o <<"]">>
               [] m.m = "func" -> in \o <<"(">> \o (IF params = <<>> THEN none ELSE Commas(params))
                                    \o (IF m.dots THEN <<",", "...">> ELSE <<>>) \o <<")">>,
             m.m \notin {"array", "func"})

ExprText(e) ==
  CASE e.x = "number" -> <<ToString(e.v)>>
    [] e.x \in {"string", "name"} -> <<e.id>>
    [] e.x = "address" -> <<"&", e.id>>
    [] e.x = "call" -> <<e.id, "(">> \o Commas([i \in DOMAIN e.list |-> ExprText(e.list[i])]) \o <<")">>
    [] e.x = "sizeof" -> <<"sizeof", "(">> \o SpecText(e.spec) \o Declarator(e.mods, <<>>, FALSE) \o <<")">>
    [] e.x = "sizeof name" -> <<"sizeof", e.id>>
    [] e.x = "list" -> <<"{">> \o Commas([i \in DOMAIN e.list |-> ExprText(e.list[i])])
                         \o (IF e.comma THEN <<",">> ELSE <<>>) \o <<"}">>

ItemText(i) ==
  Declarator(i.mods, IF i.name = "" THEN <<>> ELSE <<i.name>>, FALSE)
    \o (IF i.bits >= 0 THEN <<":", ToString(i.bits)>> ELSE <<>>)
    \o (IF i.init = <<>> THEN <<>> ELSE <<"=">> \o ExprText(i.init[1]))

Text(d) ==
  LET specs == (IF d.class = "" THEN <<>> ELSE <<d.class>>) \o SpecText(d.spec)
      braced == <<"{">> \o TextAll(d.body) \o <<"}">>
  IN  CASE d.k = "decl" -> specs \o Commas([i \in DOMAIN d.items |-> ItemText(d.items[i])]) \o <<";">>
        [] d.k = "def" -> specs \o ItemText(d.items[1]) \o TextAll(d.old) \o braced
        [] d.k = "expr" -> ExprText(d.e) \o <<";">>
        [] d.k = "block" -> braced

TextAll(ds) == FlattenSeq([i \in DOMAIN ds |-> Text(ds[i])])

-----------------------------------------------------------------------------
(* Types, and the layout of System V.                                      *)

CType(op) == [op |-> op, to |-> <<>>, n |-> 0, args |-> <<>>, style |-> "", tag |-> 0, q |-> {}]
To(op, t) == [CType(op) EXCEPT !.to = <<t>>]
Void0 == CType("void")
Int0 == CType("int")

BasicSize == ("char" :> 1) @@ ("signed char" :> 1) @@ ("unsigned char" :> 1) @@ ("short" :> 2) @@ ("unsigned short" :> 2)
             @@ ("int" :> 4) @@ ("unsigned int" :> 4) @@ ("long" :> 8) @@ ("unsigned long" :> 8)
             @@ ("float" :> 4) @@ ("double" :> 8) @@ ("long double" :> 8) @@ ("void" :> 0)
Basic(words) ==
  LET w == ToSet(words)
      sign == IF "unsigned" \in w THEN "unsigned " ELSE ""
  IN  CType(CASE w \cap {"void", "float"} # {} -> words[1]
              [] "double" \in w -> IF "long" \in w THEN "long double" ELSE "double"
              [] "char" \in w -> IF "signed" \in w THEN "signed char" ELSE sign \o "char"
              [] "short" \in w -> sign \o "short"
              [] "long" \in w /\ "double" \notin w -> sign \o "long"
              [] OTHER -> sign \o "int")

Aggregates == {"struct", "union"}
TagOps == Aggregates \cup {"enum"}
IsScalar(t) == t.op \in (DOMAIN BasicSize \ {"void"}) \cup {"ptr", "enum", "cspec", "vspec"}
IsChar(t) == t.op \in {"char", "signed char", "unsigned char"}

RECURSIVE SizeIn(_, _), AlignIn(_, _)
SizeIn(e, t) ==
  CASE t.op \in DOMAIN BasicSize -> BasicSize[t.op]
    [] t.op \in {"ptr", "cspec", "vspec"} -> 8
    [] t.op \in TagOps -> e.tags[t.tag].size
    [] t.op = "array" -> t.n * SizeIn(e, t.to[1])
    [] t.op = "func" -> 0
AlignIn(e, t) ==
  CASE t.op \in DOMAIN BasicSize -> BasicSize[t.op]
    [] t.op \in {"ptr", "cspec", "vspec"} -> 8
    [] t.op \in TagOps -> e.tags[t.tag].align
    [] t.op = "array" -> AlignIn(e, t.to[1])
    [] t.op = "func" -> 1

Up(n, a) == ((n + a - 1) \div a) * a

\* s is the structure so far, bit its next free bit; a bit-field goes there if it
\* stays in one int, and one of width 0 only ends that int.
Lay(e, op, s, f) ==
  LET bits == 8 * SizeIn(e, f.ty)
      a == AlignIn(e, f.ty)
      from == IF op = "union" THEN 0 ELSE s.bit
      fits == f.bits > 0 /\ from \div 32 = (from + f.bits - 1) \div 32
      at == IF f.bits < 0 THEN Up(from, 8 * a) ELSE IF fits THEN from ELSE Up(from, 32)
      end == at + (IF f.bits < 0 THEN bits ELSE f.bits)
      named == f.name # ""
  IN  [bit |-> end, size |-> IF end > s.size THEN end ELSE s.size,
       align |-> IF (f.bits < 0 \/ named) /\ a > s.align THEN a ELSE s.align,
       fields |-> IF named THEN Append(s.fields, [f EXCEPT !.at = at]) ELSE s.fields]

Layout(e, op, fields) ==
  LET s == FoldLeft(LAMBDA s, f : Lay(e, op, s, f), [bit |-> 0, size |-> 0, align |-> 1, fields |-> <<>>], fields)
  IN  [s EXCEPT !.size = Up(s.size, 8 * s.align) \div 8]

-----------------------------------------------------------------------------
(* Compatible and composite types.                                         *)

Unqualified(t) == [t EXCEPT !.q = {}]
\* The qualifiers of an array are its elements'; a function type has none.
RECURSIVE Qualify(_, _)
Qualify(t, q) ==
  CASE t.op = "array" -> [t EXCEPT !.to = <<Qualify(t.to[1], q)>>]
    [] t.op = "func" -> t
    [] OTHER -> [t EXCEPT !.q = @ \cup q]

\* The default promotions of an argument.
Promote0(t) ==
  CASE t.op = "float" -> CType("double")
    [] t.op \in {"char", "signed char", "unsigned char", "short", "unsigned short", "enum"} -> Int0
    [] OTHER -> Unqualified(t)
Variadic(t) == t.style = "new" /\ Len(t.args) > 1 /\ Last(t.args) = Void0

\* A K&R definition, of style "old", has the types its callers pass; style "none"
\* says nothing of the parameters.
RECURSIVE Compatible(_, _)
Compatible(a, b) ==
  LET Agree == Len(a.args) = Len(b.args) /\ \A i \in DOMAIN a.args : Compatible(Unqualified(a.args[i]), Unqualified(b.args[i]))
      Unaltered(f) == ~Variadic(f) /\ \A i \in DOMAIN f.args : Promote0(Unqualified(f.args[i])) = Unqualified(f.args[i])
  IN  /\ a.op = b.op /\ a.q = b.q /\ a.tag = b.tag
      /\ a.to # <<>> => Compatible(a.to[1], b.to[1])
      /\ a.op = "array" => a.n = b.n \/ 0 \in {a.n, b.n}
      /\ a.op = "func" => CASE a.style = "none" -> b.style = "new" => Unaltered(b)
                            [] b.style = "none" -> a.style = "new" => Unaltered(a)
                            [] OTHER -> Agree

RECURSIVE Composite(_, _)
Composite(a, b) ==
  LET to == IF a.to = <<>> THEN <<>> ELSE <<Composite(a.to[1], b.to[1])>>
      f == IF a.style = "none" THEN b ELSE a
      Arg(i) == [Composite(Unqualified(a.args[i]), Unqualified(b.args[i])) EXCEPT !.q = a.args[i].q \cup b.args[i].q]
  IN  CASE a.op = "array" -> [a EXCEPT !.to = to, !.n = IF a.n = 0 THEN b.n ELSE a.n]
        [] a.op = "func" /\ "none" \in {a.style, b.style} -> [f EXCEPT !.to = to]
        [] a.op = "func" /\ "none" \notin {a.style, b.style} ->
             [a EXCEPT !.to = to, !.style = "new", !.args = [i \in DOMAIN a.args |-> Arg(i)]]
        [] OTHER -> [a EXCEPT !.to = to]

-----------------------------------------------------------------------------
(* Scopes.  The parameters of a function definition are in one scope with  *)
(* the outermost block of its body.                                        *)

GlobalLevel == 3
ParamLevel == 4
BodyLevel == 5

Env0 == [level |-> GlobalLevel, ids |-> <<>>, types |-> <<>>, tags |-> <<>>, facts |-> <<>>, ok |-> TRUE]

Require(e, p) == IF p THEN e ELSE [e EXCEPT !.ok = FALSE]
FactOf(e, f) == [e EXCEPT !.facts = Append(@, f)]
Typed(e, t) == [e |-> e, t |-> t]

InScope(e, level) == level >= e.level \/ (level = ParamLevel /\ e.level = BodyLevel)
Innermost(places, Level(_)) ==
  IF places = {} THEN 0
  ELSE CHOOSE i \in places : \A j \in places : Level(i) > Level(j) \/ (Level(i) = Level(j) /\ i >= j)
Lookup0(e, name) == Innermost({i \in DOMAIN e.ids : e.ids[i].name = name}, LAMBDA i : e.ids[i].level)
LookupTag0(e, name) == Innermost({i \in ToSet(e.types) : e.tags[i].name = name}, LAMBDA i : e.tags[i].level)

NoId == [name |-> "", level |-> 0, kind |-> "none", ty |-> Int0, linkage |-> "none", tentative |-> FALSE,
         defined |-> FALSE, v |-> 0]
IdOf(e, name) == IF Lookup0(e, name) = 0 THEN NoId ELSE e.ids[Lookup0(e, name)]

NewId(e, kind, name, ty) == [e EXCEPT !.ids = Append(@, [NoId EXCEPT !.name = name, !.level = e.level, !.kind = kind, !.ty = ty])]
NewTag(e, op, name) ==
  LET d == [e EXCEPT !.tags = Append(@, [op |-> op, name |-> name, level |-> e.level, size |-> 0, align |-> 0,
                                         fields |-> <<>>, complete |-> FALSE]),
                     !.types = Append(@, Len(e.tags) + 1)]
  IN  Typed(d, [CType(op) EXCEPT !.tag = Len(d.tags)])

Enter(e) == [e EXCEPT !.level = IF @ = GlobalLevel THEN ParamLevel ELSE @ + 2]
Leave(e, level) ==
  [e EXCEPT !.level = level, !.ids = SelectSeq(@, LAMBDA p : p.level <= level),
            !.types = SelectSeq(@, LAMBDA i : e.tags[i].level <= level)]

-----------------------------------------------------------------------------
(* Expressions and initializers.                                           *)

Val(e, t, c, v) == [e |-> e, t |-> t, c |-> c, v |-> v]
Decayed(t) == CASE t.op = "array" -> To("ptr", t.to[1]) [] t.op = "func" -> To("ptr", t) [] OTHER -> t
IsArith(t) == IsScalar(t) /\ t.op \notin {"ptr", "cspec", "vspec"}
Complete(e, t) == t.op # "func" /\ SizeIn(e, t) > 0

\* A value of type r, v if it is a constant, can be assigned to an object of type l.
Assignable(l, r) ==
  LET p == Decayed(r.t)
      x == l.to[1]
      y == p.to[1]
  IN  \/ IsArith(l) /\ IsArith(p)
      \/ l.op \in Aggregates /\ p.op = l.op /\ p.tag = l.tag
      \/ l.op = "ptr" /\ r.c = "constant" /\ r.v = 0
      \/ /\ l.op = "ptr" /\ p.op = "ptr" /\ y.q \subseteq x.q
         /\ "void" \in {x.op, y.op} \/ Compatible(Unqualified(x), Unqualified(y))

RECURSIVE SpecType(_, _), Derive(_, _, _), Value(_, _), Arguments(_, _, _), ParamTypes(_, _, _), Fields0(_, _, _),
          Enumerate(_, _, _, _), Fill(_, _, _, _, _), FillParts(_, _, _, _, _)

\* The address of an object in static storage is a constant.
NameValue(e, x) ==
  LET p == IdOf(e, x.id)
      used == FactOf(e, <<"use", x.id, p.level, p.ty>>)
      static == p.linkage # "none" \/ p.level = GlobalLevel
      fixed == static /\ (x.x = "address" \/ p.ty.op \in {"array", "func"})
  IN  CASE p.kind = "enumerator" -> Val(Require(used, x.x = "name"), Int0, "constant", p.v)
        [] p.kind \in {"object", "function"} ->
             Val(used, IF x.x = "address" THEN To("ptr", p.ty) ELSE p.ty, IF fixed THEN "address" ELSE "value", 0)
        [] OTHER -> Val(Require(e, FALSE), Int0, "value", 0)

\* Without a declaration a function that is called is int f().
CallValue(e, x) ==
  LET int == [To("func", Int0) EXCEPT !.style = "none"]
      declared == NewId(e, "function", x.id, int)
      known == NameValue(e, [x EXCEPT !.x = "name"])
      f == IF known.t.op = "ptr" THEN known.t.to[1] ELSE known.t
      formals == IF Variadic(f) THEN Front(f.args) ELSE f.args
      counted == IF Variadic(f) THEN Len(x.list) >= Len(formals) ELSE Len(x.list) = Len(formals)
      args == Arguments(known.e, x.list, IF f.op = "func" /\ f.style = "new" THEN formals ELSE <<>>)
      legal == f.op = "func" /\ (f.style = "new" => counted)
  IN  IF Lookup0(e, x.id) = 0
      THEN Val(Arguments([declared EXCEPT !.ids[Len(declared.ids)].linkage = "external"], x.list, <<>>), Int0, "value", 0)
      ELSE Val(Require(args, legal), IF f.op = "func" THEN f.to[1] ELSE Int0, "value", 0)

Arguments(e, list, formals) ==
  LET a == Value(e, Head(list))
      legal == Decayed(a.t).op # "void" /\ (formals # <<>> => Assignable(Unqualified(Head(formals)), a))
  IN  IF list = <<>> THEN e
      ELSE Arguments(Require(a.e, legal), Tail(list), IF formals = <<>> THEN <<>> ELSE Tail(formals))

SizeValue(e, t) ==
  Val(Require(FactOf(e, <<"sizeof", t, SizeIn(e, t)>>), Complete(e, t)), CType("unsigned int"), "constant", SizeIn(e, t))

Value(e, x) ==
  LET s == SpecType(e, x.spec)
      t == Derive(s.e, s.t, x.mods)
      of == NameValue(e, [x EXCEPT !.x = "name"])
  IN  CASE x.x = "number" -> Val(e, Int0, "constant", x.v)
        [] x.x = "string" -> Val(e, To("ptr", CType("char")), "address", 0)
        [] x.x \in {"name", "address"} -> NameValue(e, x)
        [] x.x = "call" -> CallValue(e, x)
        [] x.x = "sizeof" -> SizeValue(t.e, t.t)
        [] x.x = "sizeof name" -> SizeValue(of.e, of.t)
        [] OTHER -> Val(Require(e, FALSE), Int0, "value", 0)

IsString(x) == x.x = "string"
Filled(e, k, n) == [e |-> e, k |-> k, n |-> n]

\* The initializers from the k-th of list on fill an object of type t in static
\* storage or of an aggregate type: a list is all for it, other ones are taken as it
\* needs them.  k is then the next one; n how many elements an array has.
Fill(e, t, list, k, kinds) ==
  LET x == list[k]
      inner == FillParts(e, t, x.list, 1, kinds)
      v == Value(e, x)
      one == Fill(e, t, x.list, 1, kinds)
      bytes == StringSize[x.id]
      stringAt(y) == t.op = "array" /\ IsChar(t.to[1]) /\ IsString(y)
  IN  CASE stringAt(x) -> Filled(Require(e, t.n = 0 \/ bytes - 1 <= t.n), k + 1, bytes)
        [] IsScalar(t) /\ x.x # "list" ->
             Filled(Require(v.e, Assignable(Unqualified(t), v) /\ v.c \in kinds), k + 1, 1)
        [] x.x = "list" /\ (IsScalar(t) \/ (Len(x.list) = 1 /\ stringAt(x.list[1]))) ->
             Filled(Require(one.e, one.k > Len(x.list)), k + 1, one.n)
        [] x.x = "list" /\ t.op \in Aggregates \cup {"array"} ->
             Filled(Require(inner.e, inner.k > Len(x.list)), k + 1, inner.n)
        [] t.op \in Aggregates \cup {"array"} /\ x.x # "list" -> FillParts(e, t, list, k, kinds)
        [] OTHER -> Filled(Require(e, FALSE), k + 1, 0)

\* The elements or members of an aggregate in turn, the first member of a union.
FillParts(e, t, list, k, kinds) ==
  LET fields == e.tags[t.tag].fields
      n == CASE t.op = "array" -> IF t.n = 0 THEN Len(list) ELSE t.n
             [] t.op = "struct" -> Len(fields)
             [] t.op = "union" -> 1
      Part(i) == IF t.op = "array" THEN t.to[1] ELSE fields[i].ty
      Next0(s, i) == IF s.k > Len(list) THEN s
                     ELSE [Fill(s.e, Part(i), list, s.k, kinds) EXCEPT !.n = i]
  IN  FoldLeft(Next0, Filled(e, k, 0), [i \in 1..n |-> i])

-----------------------------------------------------------------------------
(* Specifiers and declarators.                                             *)

\* A tag with a body is a new type, or completes the one this scope has; without one
\* it is the type in scope, or a new incomplete one.  own says that the declaration
\* has no declarators: it then speaks of this scope's tag.
TagType(e, s, own) ==
  LET i == IF s.tag = "" THEN 0 ELSE LookupTag0(e, s.tag)
      here == i # 0 /\ InScope(e, e.tags[i].level)
      known == IF own \/ s.has THEN here ELSE i # 0
      legal == known => e.tags[i].op = s.op /\ ~(s.has /\ e.tags[i].complete)
      d == Require(e, legal /\ (s.op = "enum" => known \/ s.has))
  IN  IF known THEN Typed(d, [CType(s.op) EXCEPT !.tag = i]) ELSE NewTag(d, s.op, s.tag)

SpecTypeFor(e, s, own) ==
  LET p == IdOf(e, s.tag)
      tag == TagType(e, s, own)
      fields == Fields0(tag.e, s.body, <<>>)
      lay == Layout(fields.e, s.op, fields.list)
      whole == [fields.e EXCEPT !.tags[tag.t.tag] =
                  [@ EXCEPT !.size = lay.size, !.align = lay.align, !.fields = lay.fields, !.complete = TRUE]]
      values == Enumerate(tag.e, s.body, tag.t, -1)
      set == [values EXCEPT !.tags[tag.t.tag] = [@ EXCEPT !.size = 4, !.align = 4, !.complete = TRUE]]
      bare == CASE s.op = "basic" -> Typed(e, Basic(s.words))
                [] s.op = "name" -> Typed(Require(e, p.kind = "typedef"), p.ty)
                [] s.op \in TagOps /\ ~s.has -> tag
                [] s.op \in Aggregates /\ s.has -> Typed(whole, tag.t)
                [] s.op = "enum" /\ s.has -> Typed(set, tag.t)
  IN  Typed(bare.e, Qualify(bare.t, ToSet(s.q)))
SpecType(e, s) == SpecTypeFor(e, s, FALSE)

Enumerate(e, list, ty, last) ==
  LET x == Head(list)
      v == Value(e, x.init[1])
      k == IF x.init = <<>> THEN last + 1 ELSE v.v
      d == IF x.init = <<>> THEN e ELSE Require(v.e, v.c = "constant")
      new == NewId(Require(d, ~InScope(d, IdOf(d, x.name).level)), "enumerator", x.name, ty)
  IN  IF list = <<>> THEN e
      ELSE Enumerate(FactOf([new EXCEPT !.ids[Len(new.ids)].v = k], <<"enumerator", x.name, k>>), Tail(list), ty, k)

\* The members that the declarations ds add to list.
Fields0(e, ds, list) ==
  LET s == SpecType(e, Head(ds).spec)
      Member(r, i) ==
        LET t == Derive(r.e, s.t, i.mods)
            legal == /\ Complete(t.e, t.t)
                     /\ i.bits >= 0 => t.t.op \in {"int", "unsigned int"} /\ i.bits <= 32 /\ (i.bits = 0 => i.name = "")
                     /\ i.name # "" => \A k \in DOMAIN r.list : r.list[k].name # i.name
        IN  [e |-> Require(t.e, legal), list |-> Append(r.list, [name |-> i.name, ty |-> t.t, bits |-> i.bits, at |-> 0])]
      all == FoldLeft(Member, [e |-> s.e, list |-> list], Head(ds).items)
  IN  IF ds = <<>> THEN [e |-> e, list |-> list] ELSE Fields0(all.e, Tail(ds), all.list)

\* The parameters ps, declared in the scope of e; args are their types.
ParamTypes(e, ps, args) ==
  LET p == Head(ps)
      s == SpecType(e, p.spec)
      t == Derive(s.e, s.t, p.mods)
      void == t.t = Void0
      adjusted == CASE t.t.op = "array" -> To("ptr", t.t.to[1]) [] t.t.op = "func" -> To("ptr", t.t) [] OTHER -> t.t
      legal == ~void /\ (p.name # "" => ~InScope(t.e, IdOf(t.e, p.name).level))
      d == NewId(Require(t.e, legal), "object", p.name, adjusted)
  IN  IF ps = <<>> THEN [e |-> e, args |-> args] ELSE ParamTypes(d, Tail(ps), Append(args, adjusted))

\* The type of a name declared with the steps mods and the specifiers' type t.
Derive(e, t, mods) ==
  LET m == Last(mods)
      ps == ParamTypes(Enter(e), m.params, <<>>)
      out == Leave(ps.e, e.level)
      args == IF m.dots THEN Append(ps.args, Void0) ELSE ps.args
      r == CASE m.m = "ptr" -> Typed(e, [To("ptr", t) EXCEPT !.q = ToSet(m.q)])
             [] m.m \in {"cspec", "vspec"} -> Typed(Require(e, t.op \notin {"cspec", "vspec"}), To(m.m, t))
             [] m.m = "array" -> Typed(Require(e, Complete(e, t)), [To("array", t) EXCEPT !.n = m.n])
             [] m.m = "func" /\ m.style = "new" ->
                  Typed(Require(out, t.op \notin {"array", "func"}), [To("func", t) EXCEPT !.style = "new", !.args = args])
             [] m.m = "func" /\ m.style # "new" ->
                  Typed(Require(e, t.op \notin {"array", "func"} /\ m.style = "none"), [To("func", t) EXCEPT !.style = "none"])
  IN  IF mods = <<>> THEN Typed(e, t) ELSE Derive(r.e, r.t, Front(mods))

-----------------------------------------------------------------------------
(* Declarations and definitions.                                           *)

\* One more declaration of a name: at file level of the same object or function,
\* in a block of one that is extern both times.
Declare0(e, class, name, t, initialized) ==
  LET i == Lookup0(e, name)
      p == IdOf(e, name)
      again == i # 0 /\ InScope(e, p.level)
      kind == IF t.op = "func" THEN "function" ELSE "object"
      outside == e.level = GlobalLevel
      linkage == CASE class = "static" -> IF outside THEN "internal" ELSE "static"
                   [] class # "static" /\ kind = "function" /\ again -> p.linkage
                   [] class = "extern" -> IF i # 0 /\ p.linkage = "internal" THEN "internal" ELSE "external"
                   [] OTHER -> IF outside \/ kind = "function" THEN "external" ELSE "none"
      same == /\ p.kind = kind /\ Compatible(t, p.ty)
              /\ outside \/ (linkage = "external" /\ p.linkage = "external")
              /\ p.linkage = linkage
              /\ ~(initialized /\ p.defined)
      legal == /\ again => same
               /\ t.op = "func" /\ ~outside => class \in {"", "extern"}
               /\ ~outside /\ class = "extern" => ~initialized
      whole == IF again /\ same THEN Composite(t, p.ty) ELSE t
      d == Require(e, legal)
      new == NewId(d, kind, name, whole)
      k == IF again THEN i ELSE Len(new.ids)
  IN  [e |-> [(IF again THEN d ELSE new) EXCEPT !.ids[k] = [@ EXCEPT !.ty = whole, !.linkage = linkage,
                                                                     !.tentative = @ \/ (outside /\ class # "extern"),
                                                                     !.defined = @ \/ initialized]],
       i |-> k]

Typedef0(e, name, t) == NewId(Require(e, ~InScope(e, IdOf(e, name).level)), "typedef", name, t)

\* A declarator with its initializer.
DeclareItem(e, class, t, item) ==
  LET d == Derive(e, t, item.mods)
      initialized == item.init # <<>>
      r == Declare0(d.e, class, item.name, d.t, initialized)
      ty == r.e.ids[r.i].ty
      static == class = "static" \/ e.level = GlobalLevel
      kinds == IF static \/ ty.op \in Aggregates \cup {"array"} THEN {"constant", "address"} ELSE {"constant", "address", "value"}
      x == item.init[1]
      v == Value(r.e, x)
      object == ty.op \in Aggregates /\ ~static /\ x.x # "list"
      f == IF object THEN Filled(Require(v.e, Assignable(Unqualified(ty), v)), 2, 0)
           ELSE Fill(Require(r.e, ty.op # "array" \/ x.x = "list" \/ IsString(x)), Unqualified(ty), item.init, 1, kinds)
      set == IF initialized /\ f.e.ok
             THEN [f.e EXCEPT !.ids[r.i].ty = IF ty.op = "array" /\ ty.n = 0 THEN [ty EXCEPT !.n = f.n] ELSE ty]
             ELSE IF initialized THEN f.e ELSE r.e
      block == e.level > GlobalLevel
      whole == IF ty.op = "func" THEN ~initialized
               ELSE ((block /\ class # "extern") \/ class = "static" \/ initialized) => Complete(set, set.ids[r.i].ty)
  IN  IF class = "typedef" THEN Require(Typedef0(d.e, item.name, d.t), ~initialized)
      ELSE IF ~r.e.ok THEN r.e ELSE Require(set, ~set.ok \/ whole)

RECURSIVE Meaning(_, _)
MeaningAll(e, ds) == FoldLeft(LAMBDA s, d : IF s.ok THEN Meaning(s, d) ELSE s, e, ds)

\* A K&R definition: its parameters have the types declared, or int.
OldParams(e, names, ds) ==
  LET declared == MeaningAll(e, ds)
      Named == {declared.ids[i].name : i \in {j \in DOMAIN declared.ids : declared.ids[j].level = ParamLevel
                                                                        /\ declared.ids[j].kind = "object"}}
      Adjust(s, i) == IF s.ids[i].level # ParamLevel THEN s
                      ELSE [s EXCEPT !.ids[i].ty = Decayed(@), !.ids[i].linkage = "none"]
      adjusted == FoldLeft(Adjust, declared, [i \in DOMAIN declared.ids |-> i])
      Rest(s, n) == IF Lookup0(s, n) # 0 /\ IdOf(s, n).level = ParamLevel THEN s ELSE NewId(s, "object", n, Int0)
  IN  FoldLeft(Rest, Require(adjusted, Named \subseteq ToSet(names)), names)

Define0(e, d) ==
  LET item == d.items[1]
      f == Head(item.mods)
      s == SpecType(e, d.spec)
      of == Derive(s.e, s.t, Tail(item.mods))
      names == [i \in DOMAIN f.params |-> f.params[i].name]
      new == ParamTypes(Enter(of.e), f.params, <<>>)
      scope == IF f.style = "new" THEN new.e ELSE OldParams(Enter(of.e), names, d.old)
      Arg(n) == IdOf(scope, n).ty
      args == IF f.style = "new" THEN (IF f.dots THEN Append(new.args, Void0) ELSE new.args)
              ELSE [i \in DOMAIN names |-> Promote0(Unqualified(Arg(names[i])))]
      ty == [To("func", of.t) EXCEPT !.style = IF f.style = "new" THEN "new" ELSE "old", !.args = args]
      legal == /\ of.t.op \notin {"array", "func"} /\ (of.t = Void0 \/ Complete(of.e, of.t))
               /\ \A i \in DOMAIN names : names[i] # "" /\ Complete(scope, Arg(names[i]))
      r == Declare0([Leave(scope, GlobalLevel) EXCEPT !.ids = SelectSeq(scope.ids, LAMBDA p : p.level <= GlobalLevel)],
                    d.class, item.name, ty, TRUE)
      \* the body sees the function and, inside it, the parameters
      inside == [r.e EXCEPT !.level = BodyLevel, !.types = scope.types,
                            !.ids = @ \o SelectSeq(scope.ids, LAMBDA p : p.level = ParamLevel)]
      body == MeaningAll(Require(inside, legal), d.body)
  IN  Leave(body, GlobalLevel)

Meaning(e, d) ==
  LET s == SpecTypeFor(e, d.spec, d.items = <<>>)
      inner == MeaningAll([e EXCEPT !.level = @ + 1], d.body)
      tags == d.spec.op \in TagOps
  IN  CASE d.k = "decl" -> FoldLeft(LAMBDA r, i : IF r.ok THEN DeclareItem(r, d.class, s.t, i) ELSE r,
                                    Require(s.e, d.items # <<>> \/ tags), d.items)
        [] d.k = "def" -> Define0(e, d)
        [] d.k = "expr" -> Value(e, d.e).e
        [] d.k = "block" -> Leave(inner, e.level)

\* The end of the program: an object declared without extern is defined, an array
\* without a size with one element.
Ended(e) ==
  LET End(s, i) ==
        LET p == s.ids[i]
            t == IF p.ty.op = "array" /\ p.ty.n = 0 THEN [p.ty EXCEPT !.n = 1] ELSE p.ty
        IN  IF p.kind # "object" \/ p.defined \/ ~p.tentative THEN s
            ELSE Require([s EXCEPT !.ids[i].ty = t], Complete(s, t))
  IN  FoldLeft(End, e, [i \in DOMAIN e.ids |-> i])
=============================================================================
