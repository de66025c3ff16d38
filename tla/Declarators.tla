----------------------------- MODULE Declarators -----------------------------
(***************************************************************************)
(* How rcc reads a declarator and the specifiers before it, with its symbol*)
(* table and the C text it passes on (src/src/rcc/decl.c, sym.c, output.c, *)
(* and what of lex.c, expr.c and simp.c they need).                        *)
(*                                                                         *)
(* The state of the compiler is a record c:                                *)
(*   ts, at       the tokens from the current one on, and how many were    *)
(*                read before it                                           *)
(*   level        the scope level                                          *)
(*   ids, types   the tables of identifiers and of tags, in the order of   *)
(*                their installation                                       *)
(*   tags         the struct, union and enum types; types has their places *)
(*   emit, flush  whether C is written, and whether tokens are passed on   *)
(*   out, pend    the C text written, and what was put last: the current   *)
(*                token, which the next thing put commits                  *)
(*   err          an error was found; what follows the first is not read   *)
(*   facts        history: what was declared, and what each use of a name  *)
(*                turned out to be                                         *)
(* A token is a string; an identifier is a token that is nothing else.     *)
(***************************************************************************)
EXTENDS TypeTable, FiniteSets

LOCAL INSTANCE SequencesExt
LOCAL INSTANCE TLC

CONSTANTS Largest,      \* the numbers 0..Largest are written
          StringSize    \* the string tokens written, each with the size of its array

Strings == DOMAIN StringSize
NumberValue == [s \in {ToString(n) : n \in 0..Largest} |-> CHOOSE n \in 0..Largest : ToString(n) = s]

StorageWords == {"auto", "register", "static", "extern", "typedef"}
TypeWords == {"void", "char", "short", "int", "long", "signed", "unsigned", "float", "double",
              "struct", "union", "enum", "const", "volatile", "cspec", "vspec"}
Punctuation == {"(", ")", "[", "]", "{", "}", "*", "&", ",", ";", ":", "=", "...", "sizeof", "EOI"}

IsName(t) == t \notin StorageWords \cup TypeWords \cup Punctuation \cup DOMAIN NumberValue \cup Strings

Initially ==
  [ts |-> <<>>, at |-> 0, level |-> GLOBAL, ids |-> <<>>, types |-> <<>>, tags |-> <<>>,
   emit |-> TRUE, flush |-> TRUE, out |-> <<>>, pend |-> <<>>, err |-> FALSE, facts |-> <<>>]

Fact(c, f) == [c EXCEPT !.facts = Append(@, f)]

-----------------------------------------------------------------------------
(* Tokens, and the text passed on.                                         *)

T(c) == IF c.ts = <<>> THEN "EOI" ELSE Head(c.ts)

\* Each token read is put; putting it commits the one before it.
gettok(c) ==
  LET ts == IF c.ts = <<>> THEN <<>> ELSE Tail(c.ts)
      d == [c EXCEPT !.ts = ts, !.at = @ + 1]
  IN  IF c.flush /\ ts # <<>> THEN [d EXCEPT !.out = @ \o c.pend, !.pend = <<Head(ts)>>] ELSE d

cbufput(c, s) == IF c.flush THEN [c EXCEPT !.out = @ \o c.pend, !.pend = s] ELSE c
cbufflush(c, s) == IF c.flush THEN [c EXCEPT !.out = @ \o c.pend \o s, !.pend = <<>>] ELSE c
\* Mutated form: what was put last stays.
Mut_cbufclear(c) == c
cbufclear(c) == [c EXCEPT !.pend = <<>>]
cbufflushon(c) == [c EXCEPT !.flush = c.emit]
cbufflushoff(c) == [c EXCEPT !.flush = FALSE]

\* cbufflush(typestring(...)).
Declare(c, sc, ty, str) ==
  LET text == typestring(c, sc, ty, str) IN IF c.flush THEN cbufflush(text.c, text.str) ELSE c

expect(c, t) == IF T(c) = t THEN gettok(c) ELSE Error(c)

-----------------------------------------------------------------------------
(* The table of identifiers.                                               *)

\* The place of the innermost symbol of this name, or 0.
lookup(c, name) ==
  LET same == {i \in DOMAIN c.ids : c.ids[i].name = name}
      Inner(i, j) == c.ids[i].scope > c.ids[j].scope \/ (c.ids[i].scope = c.ids[j].scope /\ i >= j)
  IN  IF same = {} THEN 0 ELSE CHOOSE i \in same : \A j \in same : Inner(i, j)

install(c, name, level, sclass, ty) ==
  [c EXCEPT !.ids = Append(@, [name |-> name, scope |-> level, sclass |-> sclass, ty |-> ty,
                               defined |-> FALSE, value |-> 0, ref |-> FALSE])]

enterscope(c) == [c EXCEPT !.level = @ + 1]

exitscope(c) ==
  [c EXCEPT !.level = @ - 1,
            !.ids = SelectSeq(@, LAMBDA p : p.scope < c.level),
            !.types = SelectSeq(@, LAMBDA i : c.tags[i].scope < c.level)]

istypename(c) ==
  \/ T(c) \in TypeWords
  \/ IsName(T(c)) /\ lookup(c, T(c)) # 0 /\ c.ids[lookup(c, T(c))].sclass = "typedef"
StartsDeclaration(c) == T(c) \in StorageWords \/ istypename(c)
StartsExpression(c) == IsName(T(c)) \/ T(c) \in {"(", "*", "&", "sizeof"} \cup DOMAIN NumberValue \cup Strings

-----------------------------------------------------------------------------
(* The offsets of the fields of a struct or union.                         *)

roundup(n, a) == ((n + a - 1) \div a) * a

bits2bytes(n) == (n + 7) \div 8
UNSIGNED_BITS == 8 * unsignedtype.size

\* One field: off and bits are where the last one ended, bits being 1 more than
\* the bits taken of the unsigned at off.
PlaceField(c, op, s, p) ==
  LET a == IF p.isbits THEN unsignedtype.align ELSE IF Align(c, p.ty) = 0 THEN 1 ELSE Align(c, p.ty)
      fresh == p.bitsize = 0 \/ s.bits = 0 \/ s.bits - 1 + p.bitsize > UNSIGNED_BITS
      off == IF op = "UNION" THEN 0 ELSE IF fresh THEN roundup(s.off + bits2bytes(s.bits - 1), a) ELSE s.off
      bits == IF op = "UNION" \/ fresh THEN 0 ELSE s.bits
      first == IF bits = 0 THEN 1 ELSE bits
      bits2 == IF p.isbits THEN first + p.bitsize ELSE bits
      off2 == IF p.isbits THEN off ELSE off + Size(c, p.ty)
      end == off2 + bits2bytes(bits2 - 1)
  IN  [off |-> off2, bits |-> bits2,
       size |-> IF end > s.size THEN end ELSE s.size,
       align |-> IF a > s.align THEN a ELSE s.align,
       fields |-> Append(s.fields, [p EXCEPT !.offset = off, !.lsb = IF p.isbits THEN first ELSE 0])]

\* The name of a bit-field of width 0 that the source named: it is dropped.
NoField == "0"

computefieldoffsets(c, ty) ==
  LET tag == c.tags[ty.sym]
      s == FoldLeft(LAMBDA s, p : PlaceField(c, tag.op, s, p),
                    [off |-> 0, bits |-> 0, size |-> 0, align |-> 1, fields |-> <<>>], tag.fields)
      named == SelectSeq(s.fields, LAMBDA p : p.name # NoField)
  IN  [c EXCEPT !.tags[ty.sym] = [tag EXCEPT !.fields = named, !.align = s.align, !.size = roundup(s.size, s.align)]]

-----------------------------------------------------------------------------
(* Expressions: numbers, enumerators, sizeof, names, addresses and calls.  *)

\* Whether a value can be assigned to an object of type xty.
isarith(ty) == ty.op \in {"CHAR", "SHORT", "INT", "UNSIGNED", "FLOAT", "DOUBLE", "ENUM"}
isptr(ty) == ty.op = "POINTER"
Pointed(ty) == IF isarray(ty) THEN ptr(unqual(ty).to) ELSE IF isfunc(ty) THEN ptr(ty) ELSE ty

assign(c, xty, e) ==
  LET x == unqual(xty)
      y == unqual(Pointed(e.ty))
      KeepsQualifiers == /\ isconst(y.to) => isconst(x.to)
                         /\ isvolatile(y.to) => isvolatile(x.to)
      Void == voidtype \in {unqual(x.to), unqual(y.to)}
      IntForEnum == {unqual(x.to).op, unqual(y.to).op} = {"ENUM", "INT"} /\ inttype \in {unqual(x.to), unqual(y.to)}
  IN  /\ Size(c, x) # 0 /\ Size(c, y) # 0
      /\ \/ isarith(x) /\ isarith(y)
         \/ isstruct(x) /\ x = y
         \/ isptr(x) /\ e.kind = "constant" /\ e.v = 0
         \/ /\ isptr(x) /\ isptr(y) /\ KeepsQualifiers
            /\ Void \/ eqtype(c, unqual(x.to), unqual(y.to), TRUE) \/ IntForEnum
         \/ x.op \in Specs /\ x.op = y.op /\ eqtype(c, unqual(x.to), unqual(y.to), TRUE) /\ KeepsQualifiers

Kinds == {"constant", "address", "value"}
Expression(c, kind, v, ty) == [c |-> c, kind |-> kind, v |-> v, ty |-> ty]

\* A name in an expression; one never declared is declared if it is called.
Name(c) ==
  LET i == lookup(c, T(c))
      p == c.ids[i]
      f == func(c, inttype, <<>>, <<>>, "none")
      new == gettok(install(f.c, T(c), c.level, "extern", f.ty))
      use == Fact([c EXCEPT !.ids[i].ref = TRUE], <<"use", p.name, p.scope, p.ty>>)
      Static == p.scope = GLOBAL \/ p.sclass \in {"static", "extern"}
  IN  IF i = 0 THEN Expression(IF T(new) = "(" THEN new ELSE Error(new), "address", 0, f.ty)
      ELSE IF p.sclass = "typedef" THEN Expression(Error(c), "value", 0, p.ty)
      ELSE IF p.sclass = "enum" THEN Expression(gettok(use), "constant", p.value, inttype)
      ELSE Expression(gettok(use), IF Static /\ (isfunc(p.ty) \/ isarray(p.ty)) THEN "address" ELSE "value", 0, p.ty)

AddressOf(c) ==
  LET p == c.ids[lookup(c, T(c))]
      Static == p.scope = GLOBAL \/ p.sclass \in {"static", "extern"}
      e == Name(c)
  IN  IF ~IsName(T(c)) \/ lookup(c, T(c)) = 0 THEN Expression(Error(c), "value", 0, inttype)
      ELSE Expression(e.c, IF Static THEN "address" ELSE "value", 0, ptr(e.ty))

RECURSIVE expr1(_), call(_, _, _), Called(_), typename(_), specifier(_, _), Specify(_, _), dclr(_, _, _), dclr1(_, _), Suffix(_, _),
          parameters(_), NewParameters(_, _, _), OldParameters(_, _), structdcl(_), fields(_, _),
          FieldList(_, _, _), enumdcl(_), Enumerators(_, _, _)

\* The type named in the source replaces its tokens in the text passed on, and the
\* token after it is put again.
typename(c) ==
  LET quiet == IF c.flush THEN cbufflushoff(cbufclear(c)) ELSE c
      s == specifier(quiet, FALSE)
      d == dclr(s.c, s.ty, [named |-> FALSE, wants |-> FALSE, abstract |-> TRUE])
      e == IF T(s.c) \in {"*", "(", "[", "cspec", "vspec"} THEN d ELSE [c |-> s.c, ty |-> s.ty]
  IN  IF c.flush THEN Made(cbufput(Declare(cbufflushon(e.c), "", e.ty, <<>>), <<T(e.c)>>), e.ty)
      ELSE Made(e.c, e.ty)

SizeOf(c) ==
  LET paren == gettok(c)
      m == typename(paren)
      inner == expr1(paren)
      e == expr1(c)
      of == IF T(c) # "(" THEN Made(e.c, e.ty)
            ELSE IF istypename(paren) THEN Made(expect(m.c, ")"), m.ty)
            ELSE Made(expect(inner.c, ")"), inner.ty)
      size == Size(of.c, of.ty)
  IN  Expression(Fact(Check(of.c, ~isfunc(of.ty) /\ size # 0), <<"sizeof", of.ty>>), "constant", size, unsignedtype)

expr1(c) ==
  CASE T(c) \in DOMAIN NumberValue -> Expression(gettok(c), "constant", NumberValue[T(c)], inttype)
    [] T(c) \in Strings -> Expression(gettok(c), "address", 0, ptr(chartype))
    [] T(c) = "sizeof" -> SizeOf(gettok(c))
    [] T(c) = "&" -> AddressOf(gettok(c))
    [] IsName(T(c)) -> Called(Name(c))
    [] OTHER -> Expression(Error(c), "value", 0, inttype)

\* The arguments of a call from here on: proto are the parameters left, of a function
\* that has a prototype, void for those an ellipsis stands for.
call(c, f, proto) ==
  LET e == expr1(c)
      y == unqual(Pointed(e.ty))
      typed == proto # <<>> /\ Head(proto) # voidtype
      legal == IF typed THEN assign(e.c, Head(proto), e)
               ELSE (proto = <<>> => f.style # "new") /\ y # voidtype /\ Size(e.c, y) # 0
      d == Check(e.c, legal)
      rest == IF typed THEN Tail(proto) ELSE proto
      enough(p) == p = <<>> \/ Head(p) = voidtype
  IN  IF T(c) = ")" THEN Check(gettok(c), enough(proto))
      ELSE IF T(d) = "," THEN (IF T(gettok(d)) = ")" THEN Error(d) ELSE call(gettok(d), f, rest))
      ELSE Check(expect(d, ")"), enough(rest))

Called(e) ==
  LET f == IF isfunc(e.ty) THEN e.ty ELSE unqual(e.ty).to
      callable == isfunc(e.ty) \/ (isptr(unqual(e.ty)) /\ isfunc(f))
      incomplete == isstruct(freturn(f)) /\ Size(e.c, freturn(f)) = 0
  IN  IF T(e.c) # "(" THEN e
      ELSE IF ~callable THEN Expression(Error(e.c), "value", 0, inttype)
      ELSE Called(Expression(Check(call(gettok(e.c), f, IF f.style = "new" THEN f.args ELSE <<>>), ~incomplete), "value", 0, freturn(f)))

intexpr(c) == LET e == expr1(c) IN [e EXCEPT !.c = Check(e.c, e.kind = "constant")]

-----------------------------------------------------------------------------
(* Specifiers.                                                             *)

\* Where the current token goes, or "" when it is no specifier.
Slot(c, s) ==
  CASE T(c) \in StorageWords -> "cls"
    [] T(c) = "const" -> "cons"
    [] T(c) = "volatile" -> "vol"
    [] T(c) \in {"signed", "unsigned"} -> "sign"
    [] T(c) \in {"long", "short"} -> "size"
    [] T(c) \in {"void", "char", "int", "float", "double", "struct", "union", "enum"} -> "type"
    [] IsName(T(c)) /\ istypename(c) /\ s.type = "" /\ s.sign = "" /\ s.size = "" -> "type"
    [] OTHER -> ""

BasicType(t) ==
  CASE t = "void" -> voidtype [] t = "char" -> chartype [] t = "int" -> inttype
    [] t = "float" -> floattype [] t = "double" -> doubletype

Specify(c, s) ==
  LET slot == Slot(c, s)
      typed == CASE T(c) \in {"struct", "union"} -> structdcl(c)
                 [] T(c) = "enum" -> enumdcl(c)
                 [] IsName(T(c)) -> Made(gettok(c), c.ids[lookup(c, T(c))].ty)
                 [] OTHER -> Made(gettok(c), BasicType(T(c)))
      next == IF slot = "type" THEN typed ELSE Made(gettok(c), s.ty)
      allowed == /\ s[slot] = ""
                 /\ T(c) \in {"auto", "register"} => c.level > GLOBAL
      tt == IF slot = "type" /\ IsName(T(c)) THEN "ID" ELSE T(c)
  IN  IF slot = "" THEN [c |-> c, s |-> s]
      ELSE Specify(Check(next.c, allowed), [s EXCEPT ![slot] = tt, !.ty = next.ty])

\* The type of the words; hasclass says that a storage class may be among them.
specifier(c, hasclass) ==
  LET r == Specify(c, [cls |-> IF hasclass THEN "" ELSE "auto", cons |-> "", vol |-> "", sign |-> "",
                       size |-> "", type |-> "", ty |-> inttype])
      s == r.s
      int == s.type \in {"", "int"}
      ty == CASE s.type = "char" /\ s.sign # "" -> IF s.sign = "unsigned" THEN unsignedchar ELSE signedchar
              [] s.size = "short" -> IF s.sign = "unsigned" THEN unsignedshort ELSE shorttype
              [] s.size = "long" /\ s.type = "double" -> longdouble
              [] s.size = "long" /\ s.type # "double" -> IF s.sign = "unsigned" THEN unsignedlong ELSE longtype
              [] s.sign = "unsigned" /\ s.size = "" /\ int -> unsignedtype
              [] OTHER -> s.ty
      valid == /\ s.size = "short" => int
               /\ s.size = "long" => int \/ s.type = "double"
               /\ s.sign # "" => int \/ s.type = "char"
      m1 == IF s.cons = "" THEN Made(Check(r.c, valid), ty) ELSE qual(Check(r.c, valid), "CONST", ty)
      m2 == IF s.vol = "" THEN m1 ELSE qual(m1.c, "VOLATILE", m1.ty)
  IN  [c |-> m2.c, ty |-> m2.ty, cls |-> s.cls]

-----------------------------------------------------------------------------
(* Declarators.  dclr1 reads one into chain, the steps from the type of    *)
(* the specifiers to that of the identifier; how says whether there may be *)
(* an identifier, whether the first parameters are wanted with their scope *)
(* left open, and whether the declarator may be abstract.                  *)

Pointers == ("*" :> "POINTER") @@ ("cspec" :> "CSPEC") @@ ("vspec" :> "VSPEC")
Step(op) == [op |-> op, n |-> 0, args |-> <<>>, names |-> <<>>, style |-> ""]
FunctionStep(r) == [op |-> "FUNCTION", n |-> 0, args |-> r.args, names |-> r.names, style |-> r.style]

\* The qualifiers here, the last first.
RECURSIVE Qualified(_, _)
Qualified(c, done) ==
  IF T(c) \notin {"const", "volatile"} THEN [c |-> c, chain |-> done]
  ELSE Qualified(gettok(c), <<Step(IF T(c) = "const" THEN "CONST" ELSE "VOLATILE")>> \o done)

EnterParameters(c) == IF c.level >= PARAM THEN enterscope(enterscope(c)) ELSE enterscope(c)
\* Names without types are only allowed in the definition of a function.
exitparams(c, params) ==
  LET d == Check(c, params = <<>> \/ Head(params).defined)
  IN  IF d.level > PARAM THEN exitscope(exitscope(d)) ELSE exitscope(d)

dclr1(d, how) ==
  LET t == T(d.c)
      next == gettok(d.c)
      q == Qualified(next, <<>>)
      inner == dclr1([d EXCEPT !.c = q.c], how)
      r == parameters(EnterParameters(next))
      group == dclr1([d EXCEPT !.c = next], how)
      closed == [group EXCEPT !.c = expect(@, ")")]
  IN  CASE IsName(t) -> Suffix([d EXCEPT !.c = Check(next, how.named), !.id = t], how)
        [] t \in DOMAIN Pointers -> [inner EXCEPT !.chain = <<Step(Pointers[t])>> \o q.chain \o @]
        [] t = "(" ->
             IF how.abstract /\ (T(next) \in {"register", ")"} \/ istypename(next))
             THEN Suffix([d EXCEPT !.c = exitparams(r.c, r.params), !.chain = <<FunctionStep(r)>> \o @], how)
             ELSE IF how.abstract /\ group.chain = <<>> /\ group.id = ""
             THEN [closed EXCEPT !.chain = <<[Step("FUNCTION") EXCEPT !.style = "none"]>>]
             ELSE Suffix(closed, how)
        [] t = "[" -> Suffix(d, how)
        [] OTHER -> d

Suffix(d, how) ==
  LET next == gettok(d.c)
      r == parameters(EnterParameters(next))
      e == intexpr(next)
      sized == StartsExpression(next)
      bound == IF sized THEN Check(expect(e.c, "]"), e.v > 0) ELSE expect(next, "]")
      keep == how.wants /\ ~d.open
  IN  CASE T(d.c) = "(" ->
             Suffix([d EXCEPT !.c = IF keep THEN r.c ELSE exitparams(r.c, r.params), !.chain = <<FunctionStep(r)>> \o @,
                              !.open = @ \/ keep, !.params = IF keep THEN r.params ELSE @], how)
        [] T(d.c) = "[" ->
             Suffix([d EXCEPT !.c = bound, !.chain = <<[Step("ARRAY") EXCEPT !.n = IF sized THEN e.v ELSE 0]>> \o @], how)
        [] OTHER -> d

\* One step of the chain, from the specifiers outward.
Apply(m, step) ==
  CASE step.op = "POINTER" -> Made(m.c, ptr(m.ty))
    [] step.op \in Specs -> mkspec(m.c, step.op, m.ty)
    [] step.op = "FUNCTION" -> func(m.c, m.ty, step.args, step.names, step.style)
    [] step.op = "ARRAY" -> array(m.c, m.ty, step.n)
    [] step.op \in Qualifiers -> qual(m.c, step.op, m.ty)

dclr(c, basety, how) ==
  LET d == dclr1([c |-> c, chain |-> <<>>, id |-> "", params |-> <<>>, open |-> FALSE], how)
      m == FoldLeft(Apply, Made(d.c, basety), d.chain)
  IN  [c |-> m.c, ty |-> m.ty, id |-> d.id, params |-> d.params, open |-> d.open]

-----------------------------------------------------------------------------
(* Parameters.                                                             *)

Ellipsis == [name |-> "", scope |-> 0, sclass |-> "", ty |-> voidtype, defined |-> TRUE, value |-> 0, ref |-> FALSE]

\* The symbol of a parameter: arrays and functions are pointers.
dclparam(c, sclass, id, ty) ==
  LET adjusted == IF isfunc(ty) THEN ptr(ty) ELSE IF isarray(ty) THEN atop(unqual(ty)) ELSE ty
      class == IF sclass = "register" /\ ~isvolatile(adjusted) /\ ~isstruct(adjusted) THEN "register" ELSE "auto"
      i == lookup(c, id)
      again == i # 0 /\ c.ids[i].scope = c.level
      d == Check(install(c, id, c.level, class, adjusted), ~again /\ sclass \in {"", "register"} /\ T(c) # "=")
      p == [name |-> id, scope |-> c.level, sclass |-> class, ty |-> adjusted, defined |-> TRUE, value |-> 0, ref |-> FALSE]
  IN  [c |-> IF d.err THEN d ELSE [d EXCEPT !.ids[Len(d.ids)] = p], p |-> p]

\* A parameter without a name is called by its number, which no declaration prints.
Numbered(name) == name \in {ToString(n) : n \in 1..9}

parameters(c) ==
  LET typed == StartsDeclaration(c)
      r == IF typed THEN NewParameters(c, <<>>, NoType)
           ELSE IF IsName(T(c)) THEN OldParameters(c, <<>>) ELSE [c |-> c, params |-> <<>>]
  IN  [c |-> expect(r.c, ")"), params |-> r.params,
       args |-> IF typed THEN [i \in DOMAIN r.params |-> r.params[i].ty] ELSE <<>>,
       names |-> IF typed THEN [i \in DOMAIN r.params |-> IF Numbered(r.params[i].name) THEN "" ELSE r.params[i].name]
                 ELSE <<>>,
       style |-> IF typed THEN "new" ELSE "none"]

\* first is the type of the first parameter.
NewParameters(c, params, first) ==
  LET s == specifier(c, TRUE)
      d == dclr(s.c, s.ty, [named |-> TRUE, wants |-> FALSE, abstract |-> TRUE])
      id == IF d.id = "" THEN ToString(Len(params) + 1) ELSE d.id
      legal == /\ istypename(c) \/ T(c) = "register"
               /\ d.ty = voidtype => first = NoType /\ d.id = ""
               /\ first # voidtype
      p == dclparam(Check(d.c, legal), s.cls, id, d.ty)
      r == IF d.ty = voidtype THEN [c |-> Check(d.c, legal), params |-> params]
           ELSE [c |-> p.c, params |-> Append(params, p.p)]
  IN  IF first # NoType /\ T(c) = "..."
      THEN [c |-> Check(gettok(c), first # voidtype), params |-> Append(params, Ellipsis)]
      ELSE IF T(r.c) = "," THEN NewParameters(gettok(r.c), r.params, IF first = NoType THEN d.ty ELSE first)
      ELSE r

OldParameters(c, params) ==
  LET p == dclparam(c, "", T(c), inttype)
      d == gettok(p.c)
      more == Append(params, [p.p EXCEPT !.defined = FALSE])
  IN  IF ~IsName(T(c)) THEN [c |-> Error(c), params |-> params]
      ELSE IF T(d) = "," THEN OldParameters(gettok(d), more) ELSE [c |-> d, params |-> more]

-----------------------------------------------------------------------------
(* Struct, union and enum specifiers.                                      *)

structdcl(c) ==
  LET op == IF T(c) = "struct" THEN "STRUCT" ELSE "UNION"
      named == IsName(T(gettok(c)))
      tag == IF named THEN T(gettok(c)) ELSE ""
      next == IF named THEN gettok(gettok(c)) ELSE gettok(c)
      new == newstruct(next, op, tag)
      opened == [new.c EXCEPT !.tags[new.ty.sym].defined = TRUE]
      body == fields(gettok(opened), new.ty)
      done == [expect(body, "}") EXCEPT !.tags[new.ty.sym].fullp = TRUE]
      p == LookupTag(next, tag)
      known == named /\ p # 0 /\ next.tags[p].op = op /\ ~(T(next) = ";" /\ next.tags[p].scope < next.level)
      m == IF known THEN Made(next, Tag(next, p)) ELSE Made(Check(new.c, named), new.ty)
  IN  IF T(next) = "{" THEN Made(Fact(done, <<"struct", new.ty>>), new.ty)
      ELSE Made([m.c EXCEPT !.tags[m.ty.sym].fullp = FALSE], m.ty)

fields(c, ty) ==
  LET s == specifier(c, FALSE)
      list == FieldList(s.c, ty, s.ty)
      rest(d) == IF istypename(d) THEN fields(d, ty) ELSE computefieldoffsets(d, ty)
  IN  IF istypename(c) THEN rest(expect(list, ";")) ELSE Error(c)

BitField(c, ty, name, fty) ==
  LET e == intexpr(gettok(c))
      size == IF e.v > UNSIGNED_BITS THEN UNSIGNED_BITS ELSE e.v
      legal == unqual(fty) \in {inttype, unsignedtype} /\ e.v <= UNSIGNED_BITS
      last == Len(e.c.tags[ty.sym].fields)
  IN  [Check(e.c, legal) EXCEPT !.tags[ty.sym].fields[last].isbits = TRUE,
                                !.tags[ty.sym].fields[last].bitsize = size,
                                !.tags[ty.sym].fields[last].name = IF size = 0 /\ name # "" THEN NoField ELSE @]

FieldList(c, ty, basety) ==
  LET d == dclr(c, basety, [named |-> TRUE, wants |-> FALSE, abstract |-> FALSE])
      new == newfield(d.c, ty, d.id, d.ty)
      legal == d.id # "" /\ ~isfunc(d.ty) /\ Size(d.c, d.ty) # 0
      e == IF T(new) = ":" THEN BitField(new, ty, d.id, d.ty) ELSE Check(new, legal)
  IN  IF T(e) = "," THEN FieldList(gettok(e), ty, basety) ELSE e

enumdcl(c) ==
  LET named == IsName(T(gettok(c)))
      tag == IF named THEN T(gettok(c)) ELSE ""
      next == IF named THEN gettok(gettok(c)) ELSE gettok(c)
      new == newstruct(next, "ENUM", tag)
      body == Enumerators(gettok(new.c), new.ty, -1)
      done == [expect(body, "}") EXCEPT !.tags[new.ty.sym].size = inttype.size, !.tags[new.ty.sym].align = inttype.align,
                                        !.tags[new.ty.sym].defined = TRUE, !.tags[new.ty.sym].fullp = TRUE]
      p == LookupTag(next, tag)
  IN  IF T(next) = "{" THEN Made(Check(done, IsName(T(gettok(new.c)))), new.ty)
      ELSE IF named /\ p # 0 /\ next.tags[p].op = "ENUM"
      THEN Made([Check(next, T(next) # ";") EXCEPT !.tags[p].fullp = FALSE], Tag(next, p))
      ELSE Made(Error(new.c), new.ty)

\* The enumerators from here on; k is the value of the last one.
Enumerators(c, ty, k) ==
  LET i == lookup(c, T(c))
      next == gettok(c)
      e == intexpr(gettok(next))
      v == IF T(next) = "=" THEN e.v ELSE k + 1
      after == IF T(next) = "=" THEN e.c ELSE next
      new == install(Check(after, i = 0 \/ c.ids[i].scope # c.level), T(c), c.level, "enum", ty)
      d == Fact([new EXCEPT !.ids[Len(new.ids)].value = v,
                            !.tags[ty.sym].fields = Append(@, [name |-> T(c), ty |-> NoType, isbits |-> FALSE,
                                                               bitsize |-> 0, lsb |-> 0, offset |-> v])],
                <<"enumerator", T(c), v>>)
  IN  IF ~IsName(T(c)) THEN c
      ELSE IF T(d) = "," THEN Enumerators(gettok(d), ty, v) ELSE d
=============================================================================
