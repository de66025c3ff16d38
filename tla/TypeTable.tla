------------------------------ MODULE TypeTable ------------------------------
(***************************************************************************)
(* The types of rcc and the C text made of them (src/src/rcc/types.c).     *)
(*                                                                         *)
(* A type is a record with the fields of the code's.  The code compares    *)
(* types by address and keeps one record for equal types, except function  *)
(* types and arrays of size 0, of which it makes a new one each time: these*)
(* carry in sym the place they were made at.  What changes after a type is *)
(* made -- the fields, size and fullp flag of a struct, union or enum -- is *)
(* in tags, indexed by sym.                                                *)
(*                                                                         *)
(* The operators take the state c of the compiler and those that change it *)
(* return the new one.  An error sets c.err, and what follows the first is *)
(* not read.                                                               *)
(***************************************************************************)
EXTENDS Integers, Sequences

LOCAL INSTANCE SequencesExt
LOCAL INSTANCE TLC

\* The scope levels; blocks in blocks have higher ones.
GLOBAL == 3
PARAM == 4
LOCALS == 5

NoType == [op |-> "none"]
type(op, to, size, align, sym) ==
  [op |-> op, to |-> to, size |-> size, align |-> align, sym |-> sym,
   args |-> <<>>, names |-> <<>>, style |-> ""]

Error(c) == [c EXCEPT !.err = TRUE, !.ts = <<>>]
Check(c, ok) == IF ok THEN c ELSE Error(c)
Made(c, ty) == [c |-> c, ty |-> ty]

\* typeInit: the basic types, told apart by sym where they share an operator.
voidtype == type("VOID", NoType, 0, 0, 0)
chartype == type("CHAR", NoType, 1, 1, 1)
signedchar == type("CHAR", NoType, 1, 1, 2)
unsignedchar == type("CHAR", NoType, 1, 1, 3)
shorttype == type("SHORT", NoType, 2, 2, 4)
unsignedshort == type("SHORT", NoType, 2, 2, 5)
inttype == type("INT", NoType, 4, 4, 6)
unsignedtype == type("UNSIGNED", NoType, 4, 4, 7)
longtype == type("INT", NoType, 8, 8, 8)
unsignedlong == type("UNSIGNED", NoType, 8, 8, 9)
floattype == type("FLOAT", NoType, 4, 4, 10)
doubletype == type("DOUBLE", NoType, 8, 8, 11)
longdouble == type("DOUBLE", NoType, 8, 8, 12)

Names == << <<"char">>, <<"signed", "char">>, <<"unsigned", "char">>, <<"short">>, <<"unsigned", "short">>,
            <<"int">>, <<"unsigned", "int">>, <<"long", "int">>, <<"unsigned", "long">>,
            <<"float">>, <<"double">>, <<"long", "double">> >>

POINTER_SIZE == 8

-----------------------------------------------------------------------------
(* What a type is.                                                         *)

Qualifiers == {"CONST", "VOLATILE", "CONST+VOLATILE"}
Tagged == {"STRUCT", "UNION", "ENUM"}
Specs == {"CSPEC", "VSPEC"}

isqual(ty) == ty.op \in Qualifiers
unqual(ty) == IF isqual(ty) THEN ty.to ELSE ty
isconst(ty) == ty.op \in {"CONST", "CONST+VOLATILE"}
isvolatile(ty) == ty.op \in {"VOLATILE", "CONST+VOLATILE"}
isarray(ty) == unqual(ty).op = "ARRAY"
isfunc(ty) == unqual(ty).op = "FUNCTION"
isenum(ty) == unqual(ty).op = "ENUM"
isstruct(ty) == unqual(ty).op \in {"STRUCT", "UNION"}
isindirect(ty) == unqual(ty).op \in {"POINTER"} \cup Specs
isscalar(ty) ==
  unqual(ty).op \in {"CHAR", "SHORT", "INT", "UNSIGNED", "FLOAT", "DOUBLE", "POINTER", "ENUM"} \cup Specs

Size(c, ty) == IF ty.op \in Tagged THEN c.tags[ty.sym].size ELSE ty.size
Align(c, ty) == IF ty.op \in Tagged THEN c.tags[ty.sym].align ELSE ty.align

-----------------------------------------------------------------------------
(* Making types.                                                           *)

ptr(ty) == type("POINTER", ty, POINTER_SIZE, POINTER_SIZE, 0)

\* A spec type is of no type that contains a spec type.
RECURSIVE checknestedtick(_)
checknestedtick(ty) == ty # NoType /\ (ty.op \in Specs \/ checknestedtick(ty.to))
mkspec(c, op, ty) ==
  IF checknestedtick(ty) THEN Made(Error(c), ty) ELSE Made(c, type(op, ty, POINTER_SIZE, POINTER_SIZE, 0))

RECURSIVE array(_, _, _)
array(c, ty, n) ==
  LET size == n * Size(c, ty)
      illegal == \/ c.level > GLOBAL /\ isarray(ty) /\ Size(c, ty) = 0
                 \/ unqual(ty) = voidtype
  IN  IF isfunc(ty) THEN array(Error(c), inttype, n)
      ELSE Made(Check(c, ~illegal), type("ARRAY", ty, size, Align(c, ty), IF size = 0 THEN c.at ELSE 0))

atop(ty) == ptr(ty.to)

RECURSIVE qual(_, _, _)
qual(c, op, ty) ==
  LET Both == IF isqual(ty) THEN "CONST+VOLATILE" ELSE op
  IN  IF isarray(ty)
      THEN LET of == qual(c, op, ty.to)
           IN  Made(of.c, type("ARRAY", of.ty, ty.size, ty.align, ty.sym))
      ELSE IF isfunc(ty) THEN Made(c, ty)
      ELSE IF (isconst(ty) /\ op = "CONST") \/ (isvolatile(ty) /\ op = "VOLATILE") THEN Made(Error(c), ty)
      ELSE Made(c, type(Both, unqual(ty), Size(c, ty), Align(c, ty), 0))

\* style: "new" with a prototype, "old" for a K&R definition, whose args are those
\* its callers pass, and "none" when nothing is known of the parameters.
func(c, ty, args, names, style) ==
  Made(Check(c, ~isarray(ty) /\ ~isfunc(ty)),
       [type("FUNCTION", ty, 0, 0, c.at) EXCEPT !.args = args, !.names = names, !.style = style])

freturn(ty) == ty.to
HasProto(ty) == ty.style # "none"
variadic(ty) == HasProto(ty) /\ Len(ty.args) > 1 /\ Last(ty.args) = voidtype

promote(ty) ==
  LET bare == unqual(ty)
  IN  IF bare.op = "UNSIGNED" \/ bare = longtype THEN bare
      ELSE IF bare.op \in {"CHAR", "SHORT", "INT", "ENUM"} THEN inttype ELSE bare

-----------------------------------------------------------------------------
(* Equal and composite types.                                              *)

RECURSIVE eqtype(_, _, _, _)
eqtype(c, ty1, ty2, ret) ==
  LET AsPromoted(ty) == promote(ty) = unqual(ty) /\ unqual(ty) # floattype
      EqualArgs ==
        /\ Len(ty1.args) = Len(ty2.args)
        /\ \A i \in DOMAIN ty1.args : eqtype(c, unqual(ty1.args[i]), unqual(ty2.args[i]), TRUE)
      Unwritten(f) == ~variadic(f) /\ \A i \in DOMAIN f.args : AsPromoted(f.args[i])
  IN  \/ ty1 = ty2
      \/ /\ ty1.op = ty2.op
         /\ ty1.op \in Specs \cup Qualifiers \cup {"POINTER", "ARRAY", "FUNCTION"}
         /\ eqtype(c, ty1.to, ty2.to, TRUE)
         /\ ty1.op = "ARRAY" => ty1.size = ty2.size \/ (ret /\ (ty1.size = 0 \/ ty2.size = 0))
         /\ ty1.op = "FUNCTION" =>
              IF HasProto(ty1) /\ HasProto(ty2) THEN EqualArgs
              ELSE (~HasProto(ty1) /\ ~HasProto(ty2)) \/ Unwritten(IF HasProto(ty1) THEN ty1 ELSE ty2)

Elements(c, ty) == ty.size \div Size(c, ty.to)


RECURSIVE compose(_, _, _), ComposedArgs(_, _, _, _)
compose(c, ty1, ty2) ==
  LET of == compose(c, ty1.to, ty2.to)
      Complete(ty) == ty.size # 0 /\ Size(c, ty.to) # 0
      args == ComposedArgs(of.c, ty1.args, ty2.args, <<>>)
      Known == IF HasProto(ty1) THEN ty1 ELSE ty2
  IN  IF ty1 = ty2 THEN Made(c, ty1)
      ELSE CASE ty1.op \in Specs -> mkspec(of.c, ty1.op, of.ty)
             [] ty1.op = "POINTER" -> Made(of.c, ptr(of.ty))
             [] ty1.op = "CONST+VOLATILE" ->
                  LET inner == qual(of.c, "VOLATILE", of.ty) IN qual(inner.c, "CONST", inner.ty)
             [] ty1.op \in {"CONST", "VOLATILE"} -> qual(of.c, ty1.op, of.ty)
             [] ty1.op = "ARRAY" ->
                  IF Complete(ty1) /\ ty2.size = 0 THEN array(of.c, of.ty, Elements(c, ty1))
                  ELSE IF Complete(ty2) /\ ty1.size = 0 THEN array(of.c, of.ty, Elements(c, ty2))
                  ELSE array(of.c, of.ty, 0)
             [] ty1.op = "FUNCTION" ->
                  IF HasProto(ty1) /\ HasProto(ty2) THEN func(args.c, of.ty, args.ty, <<>>, "new")
                  ELSE func(of.c, of.ty, Known.args, Known.names, Known.style)

\* The parameters of two prototypes: composed without their qualifiers, with the
\* qualifiers of both.
ComposedArgs(c, a, b, done) ==
  IF a = <<>> THEN Made(c, done)
  ELSE LET bare == compose(c, unqual(Head(a)), unqual(Head(b)))
           Qualified(m, op, has) == IF has THEN qual(m.c, op, m.ty) ELSE m
           m1 == Qualified(bare, "CONST", isconst(Head(a)) \/ isconst(Head(b)))
           m2 == Qualified(m1, "VOLATILE", isvolatile(Head(a)) \/ isvolatile(Head(b)))
       IN  ComposedArgs(m2.c, Tail(a), Tail(b), Append(done, m2.ty))

-----------------------------------------------------------------------------
(* Struct, union and enum types.                                           *)

\* The innermost tag of this name, or 0.
LookupTag(c, name) ==
  LET same == {i \in Range(c.types) : c.tags[i].name = name}
      Inner(i, j) == c.tags[i].scope > c.tags[j].scope \/ (c.tags[i].scope = c.tags[j].scope /\ i >= j)
  IN  IF same = {} THEN 0 ELSE CHOOSE i \in same : \A j \in same : Inner(i, j)

Tag(c, i) == type(c.tags[i].op, NoType, 0, 0, i)

\* A tag that this scope has not completed is taken up again; a new one is made
\* otherwise, under a generated name if it has none.
newstruct(c, op, name) ==
  LET p == IF name = "" THEN 0 ELSE LookupTag(c, name)
      here == /\ p # 0
              /\ c.tags[p].scope = c.level \/ (c.tags[p].scope = PARAM /\ c.level = LOCALS)
      new == [op |-> op, name |-> IF name = "" THEN "_TS" \o ToString(Len(c.tags) + 1) ELSE name, scope |-> c.level,
              size |-> 0, align |-> 0, fields |-> <<>>, fullp |-> FALSE, defined |-> FALSE]
  IN  IF here /\ c.tags[p].op = op /\ ~c.tags[p].defined THEN Made(c, Tag(c, p))
      ELSE LET d == [Check(c, ~here) EXCEPT !.tags = Append(@, new), !.types = Append(@, Len(c.tags) + 1)]
           IN  Made(d, Tag(d, Len(d.tags)))

newfield(c, ty, name, fty) ==
  LET fields == c.tags[ty.sym].fields
      field == [name |-> IF name = "" THEN "_TF" \o ToString(Len(fields) + 1) ELSE name,
                ty |-> fty, isbits |-> FALSE, bitsize |-> 0, lsb |-> 0, offset |-> 0]
  IN  [Check(c, name = "" \/ \A i \in DOMAIN fields : fields[i].name # name)
        EXCEPT !.tags[ty.sym].fields = Append(@, field)]

-----------------------------------------------------------------------------
(* The C declaration of a type.                                            *)

scname(sc) ==
  CASE sc = "register" -> <<"register">> [] sc = "static" -> <<"static">> [] sc = "extern" -> <<"extern">>
    [] sc = "typedef" -> <<"typedef">> [] OTHER -> <<>>

Keyword(op) ==
  CASE op = "STRUCT" -> <<"struct">> [] op = "UNION" -> <<"union">> [] op = "ENUM" -> <<"enum">>
    [] op = "CONST" -> <<"const">> [] op = "VOLATILE" -> <<"volatile">>
    [] op = "CONST+VOLATILE" -> <<"const", "volatile">>

Text(c, str) == [c |-> c, str |-> str]
Prefix(words, text) == Text(text.c, words \o text.str)

\* typestring: ty as the declaration of str.  The body of a struct, union or enum
\* is written, once, where fullp says that the source had it.
RECURSIVE typestring(_, _, _, _), fulltypestring(_, _, _), FieldText(_, _, _), ArgText(_, _, _, _)
typestring(c, sc, ty, str) ==
  LET Paren == isarray(ty.to) \/ isfunc(ty.to)
      args == ArgText(c, ty, 1, <<>>)
      n == IF ty.size > 0 /\ Size(c, ty.to) > 0 THEN <<ToString(Elements(c, ty))>> ELSE <<>>
  IN  CASE isqual(ty) /\ isindirect(ty) -> typestring(c, sc, ty.to, Keyword(ty.op) \o str)
        [] isqual(ty) /\ ~isindirect(ty) -> Prefix(scname(sc) \o Keyword(ty.op), typestring(c, "", ty.to, str))
        [] ty.op = "CSPEC" -> Text(c, scname(sc) \o <<"_Cspec">> \o str)
        [] ty.op = "VSPEC" -> Text(c, scname(sc) \o <<"_Vspec">> \o str)
        [] ty.op \in Tagged /\ c.tags[ty.sym].fullp -> Prefix(scname(sc), fulltypestring(c, ty, str))
        [] ty.op \in Tagged /\ ~c.tags[ty.sym].fullp ->
             Text(c, scname(sc) \o Keyword(ty.op) \o <<c.tags[ty.sym].name>> \o str)
        [] ty.op = "POINTER" ->
             typestring(c, sc, ty.to, IF Paren THEN <<"(", "*">> \o str \o <<")">> ELSE <<"*">> \o str)
        [] ty.op = "FUNCTION" /\ ~HasProto(ty) -> typestring(c, sc, ty.to, str \o <<"(", ")">>)
        [] ty.op = "FUNCTION" /\ HasProto(ty) /\ ty.args = <<>> ->
             typestring(c, sc, ty.to, str \o <<"(", "void", ")">>)
        [] ty.op = "FUNCTION" /\ HasProto(ty) /\ ty.args # <<>> ->
             typestring(args.c, sc, ty.to, str \o <<"(">> \o args.str \o <<")">>)
        [] ty.op = "ARRAY" -> typestring(c, sc, ty.to, str \o <<"[">> \o n \o <<"]">>)
        [] ty = voidtype -> Text(c, scname(sc) \o <<"void">> \o str)
        [] OTHER -> Text(c, scname(sc) \o Names[ty.sym] \o str)

ArgText(c, ty, i, done) ==
  LET name == IF i \in DOMAIN ty.names /\ ty.names[i] # "" THEN <<ty.names[i]>> ELSE <<>>
      arg == IF i > 1 /\ ty.args[i] = voidtype THEN Text(c, <<"...">>) ELSE typestring(c, "", ty.args[i], name)
  IN  IF i > Len(ty.args) THEN Text(c, done)
      ELSE ArgText(arg.c, ty, i + 1, done \o (IF i > 1 THEN <<",">> ELSE <<>>) \o arg.str)

fulltypestring(c, ty, str) ==
  LET tag == c.tags[ty.sym]
      body == FieldText([c EXCEPT !.tags[ty.sym].fullp = FALSE], tag, 1)
  IN  Text(body.c, Keyword(ty.op) \o <<tag.name, "{">> \o body.str \o <<"}">> \o str)

\* The fields of a struct or union, or the constants of an enum, from the i-th on.
FieldText(c, tag, i) ==
  LET f == tag.fields[i]
      of == typestring(c, "", f.ty, <<f.name>>)
      bits == IF f.isbits THEN <<":", ToString(f.bitsize)>> ELSE <<>>
      comma == IF i > 1 THEN <<",">> ELSE <<>>
  IN  IF i > Len(tag.fields) THEN Text(c, <<>>)
      ELSE IF tag.op = "ENUM"
      THEN Prefix(comma \o <<f.name, "=", ToString(f.offset)>>, FieldText(c, tag, i + 1))
      ELSE Prefix(of.str \o bits \o <<";">>, FieldText(of.c, tag, i + 1))
=============================================================================
