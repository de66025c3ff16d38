---------------------------- MODULE Declarations ----------------------------
(***************************************************************************)
(* How rcc reads a declaration, a function definition and the declarations *)
(* and names in its body (src/src/rcc/decl.c), and the C it writes for     *)
(* them: each declarator in a declaration of its own, made again from its  *)
(* type, with the tokens of initializers and statements between.           *)
(*                                                                         *)
(* Of statements there are blocks and expressions; what code they compile  *)
(* to is the matter of other modules.                                      *)
(***************************************************************************)
EXTENDS Declarators

LOCAL INSTANCE SequencesExt

-----------------------------------------------------------------------------
(* How the initializer of an object in static storage is read              *)
(* (src/src/rcc/init.c): which expression goes to which part of the object,*)
(* braced or not, and the size of an array that has none.  Nothing is      *)
(* written for the data itself: tcc passes the text of the initializer on. *)
(* These operators return a record with the state c and the number of      *)
(* bytes n they filled, initializer the type of the object.                *)

Filled(c, n) == [c |-> c, n |-> n]

-----------------------------------------------------------------------------
(* The parts of an object.                                                 *)

\* genconst, and initvalue for the integers of bit-fields and characters.
Constant(c, ty, e, kinds) == Check(e.c, e.kind \in kinds /\ assign(c, ty, e))
initvalue(c, ty) == Constant(c, ty, expr1(c), {"constant"})

\* len is the size of the part to fill, 0 when its closing brace ends it.
\* Mutated form: one element more than there is room for.
Mut_Continues(c, n, len) == T(c) = "," /\ (len = 0 \/ n <= len)

Continues(c, n, len) == T(c) = "," /\ (len = 0 \/ n < len)

\* A comma may end the list here only at the outermost level.
initend(c, lev) == expect(IF lev = 0 /\ T(c) = "," THEN gettok(c) ELSE c, "}")

RECURSIVE initializer(_, _, _), initarray(_, _, _, _, _), initchar(_, _, _, _),
          initfields(_, _, _, _, _), initstruct(_, _, _, _, _, _)

initarray(c, len, ty, lev, n) ==
  LET e == initializer(c, ty, lev).c
      m == n + Size(c, ty)
  IN  IF ~Continues(e, m, len) THEN Filled(e, m)
      ELSE IF T(gettok(e)) = "}" THEN Filled(gettok(e), m) ELSE initarray(gettok(e), len, ty, lev, m)

initchar(c, len, ty, n) ==
  LET e == initvalue(c, ty)
  IN  IF ~Continues(e, n + 1, len) THEN Filled(e, n + 1)
      ELSE IF T(gettok(e)) = "}" THEN Filled(gettok(e), n + 1) ELSE initchar(gettok(e), len, ty, n + 1)

\* The bit-fields from p to q, which share an unsigned; bits are those filled.
initfields(c, flist, p, q, bits) ==
  LET e == initvalue(c, inttype)
      end == flist[p].lsb - 1 + flist[p].bitsize
      m == IF end > bits THEN end ELSE bits
  IN  IF p = q \/ T(e) # "," THEN Filled(e, bits2bytes(m)) ELSE initfields(gettok(e), flist, p + 1, q, m)

\* The fields of ty from the p-th on, n bytes being filled before it.
initstruct(c, len, ty, lev, p, n) ==
  LET flist == c.tags[ty.sym].fields
      at == IF flist[p].offset > n THEN flist[p].offset ELSE n
      Group(q) == q >= p /\ \A i \in p..q : flist[i].offset = flist[p].offset
      q == IF flist[p].isbits THEN CHOOSE q \in DOMAIN flist : Group(q) /\ ~(q < Len(flist) /\ Group(q + 1)) ELSE p
      part == IF flist[p].isbits THEN initfields(c, flist, p, q, 0)
              ELSE Filled(initializer(c, flist[p].ty, lev).c, Size(c, flist[p].ty))
      next == IF q < Len(flist) THEN q + 1 ELSE q
      a == IF q < Len(flist) THEN Align(c, flist[next].ty) ELSE Align(c, ty)
      m == IF a > 0 THEN roundup(at + part.n, a) ELSE at + part.n
  IN  IF ~Continues(part.c, m, len) THEN Filled(part.c, m)
      ELSE IF T(gettok(part.c)) = "}" THEN Filled(gettok(part.c), m)
      ELSE initstruct(gettok(part.c), len, ty, lev, next, m)

-----------------------------------------------------------------------------
(* An object.                                                              *)

InitScalar(c, ty, lev) ==
  LET e == expr1(IF T(c) = "{" THEN gettok(c) ELSE c)
      d == Constant(c, ty, e, {"constant", "address"})
  IN  Filled(IF T(c) = "{" THEN initend(d, lev) ELSE d, Size(c, ty))

\* A union takes the initializer of its first field.
InitUnion(c, ty, lev) ==
  LET first == Size(c, c.tags[ty.sym].fields[1].ty)
      braced == initstruct(gettok(c), first, ty, lev + 1, 1, 0)
  IN  IF T(c) = "{" THEN Filled(initend(braced.c, lev), braced.n)
      ELSE initstruct(Check(c, lev > 0), first, ty, lev + 1, 1, 0)

InitStruct(c, ty, lev) ==
  LET braced == initstruct(gettok(c), 0, ty, lev + 1, 1, 0)
  IN  IF T(c) = "{" THEN Filled(expect(braced.c, "}"), braced.n)
      ELSE initstruct(Check(c, lev > 0), Size(c, ty), ty, lev + 1, 1, 0)

InitString(c, ty) ==
  Filled(gettok(c), IF ty.size = StringSize[T(c)] - 1 /\ ty.size > 0 THEN ty.size ELSE StringSize[T(c)])

InitArray(c, ty, lev) ==
  LET of == unqual(ty.to)
      char == of.op = "CHAR"
      Elements0(d, len) == IF char THEN initchar(d, len, of, 0) ELSE initarray(d, len, of, lev + 1, 0)
      braced == Elements0(gettok(c), 0)
      whole == lev > 0 /\ ty.size > 0
  IN  IF T(c) = "{" THEN Filled(expect(braced.c, "}"), braced.n)
      ELSE Elements0(Check(c, whole), ty.size)

\* The type of the object, which the initializer completes.
initializer(c, oty, lev) ==
  LET ty == unqual(oty)
      string == isarray(ty) /\ unqual(ty.to).op = "CHAR"
      inner == initializer(gettok(c), ty, lev + 1)
      r == CASE isscalar(ty) -> InitScalar(c, ty, lev)
             [] ty.op = "UNION" -> InitUnion(c, ty, lev)
             [] ty.op = "STRUCT" -> InitStruct(c, ty, lev)
             [] isarray(ty) /\ ~(string /\ T(c) \in Strings) -> InitArray(c, ty, lev)
             [] string /\ T(c) \in Strings -> InitString(c, ty)
      size == Size(c, ty)
  IN  IF isstruct(ty) /\ size = 0 THEN Made(Error(c), ty)
      ELSE IF string /\ T(c) = "{" /\ T(gettok(c)) \in Strings THEN Made(initend(inner.c, lev), inner.ty)
      ELSE IF size > 0 THEN Made(Check(r.c, r.n <= size), ty)
      ELSE IF isarray(ty) /\ Size(c, ty.to) > 0 THEN array(r.c, ty.to, r.n \div Size(c, ty.to))
      ELSE Made(Error(c), ty)

-----------------------------------------------------------------------------
(* Declarations.                                                           *)

StartsDeclarator(c) == IsName(T(c)) \/ T(c) \in {"*", "(", "[", "cspec", "vspec"}
Plain == [named |-> TRUE, wants |-> FALSE, abstract |-> FALSE]

\* What test and expect do when the token is there; an error ends the reading.
EndDeclaration(c) == expect(c, ";")

\* cbufclear(); cbufflush(";\n"): the token after the declarator is not passed on.
Semicolon(c) == IF c.flush THEN cbufflush(cbufclear(c), <<";">>) ELSE c

At(c, name) == LET i == lookup(c, name) IN IF i = 0 THEN [scope |-> 0] ELSE c.ids[i]

-----------------------------------------------------------------------------
(* Objects and functions declared outside functions.                       *)

\* The initializer of symbol i, if there is one.
initglobal(c, i) ==
  LET put == IF c.flush THEN cbufput(c, <<"=">>) ELSE c
      m == initializer(gettok(put), c.ids[i].ty, 0)
      sized == isarray(c.ids[i].ty) /\ c.ids[i].ty.size = 0
  IN  IF T(c) # "=" THEN c
      ELSE [m.c EXCEPT !.ids[i].ty = IF sized THEN m.ty ELSE @,
                       !.ids[i].sclass = IF @ = "extern" THEN "auto" ELSE @,
                       !.ids[i].defined = TRUE]

dclglobal(c, class, id, ty) ==
  LET p == At(c, id)
      again == p.scope = GLOBAL
      same == again /\ p.sclass # "typedef" /\ eqtype(c, ty, p.ty, TRUE)
      legal == /\ class \in {"", "extern", "static"}
               /\ again => same /\ p.sclass # "enum"
               /\ ~(again /\ ~isfunc(ty) /\ p.defined /\ T(c) = "=")
      m == IF same THEN compose(Check(c, legal), ty, p.ty) ELSE Made(Check(c, legal), ty)
      sclass == IF class = "" THEN "auto" ELSE class
      i == IF again THEN lookup(c, id) ELSE Len(c.ids) + 1
      kept == [m.c EXCEPT !.ids[i].ty = m.ty, !.ids[i].sclass = IF @ = "extern" THEN sclass ELSE @]
      d == IF again THEN kept ELSE install(m.c, id, GLOBAL, sclass, m.ty)
      text == Declare(d, d.ids[i].sclass, m.ty, <<id>>)
      unsized == d.ids[i].sclass = "static" /\ ~isfunc(m.ty) /\ Size(d, m.ty) = 0
  IN  IF m.c.err THEN m.c
      ELSE IF T(c) = "=" /\ isfunc(m.ty) THEN Error(text)
      ELSE Semicolon(Check(initglobal(text, i), T(c) = "=" \/ ~unsized))

-----------------------------------------------------------------------------
(* Objects and functions declared in blocks.                               *)

\* The initializer of an automatic object, or of a register.
InitLocal(c, i) ==
  LET ty == c.ids[i].ty
      next == gettok(IF c.flush THEN cbufput(c, <<"=">>) ELSE c)
      braced == expr1(gettok(next))
      e == IF T(next) = "{" THEN [braced EXCEPT !.c = expect(@, "}")] ELSE expr1(next)
      m == initializer(next, ty, 0)
      whole == isscalar(ty) \/ (isstruct(ty) /\ T(next) # "{")
      sized == isarray(ty) /\ ty.size = 0
  IN  IF T(c) # "=" THEN c
      ELSE IF whole THEN Check(e.c, assign(e.c, ty, e))
      ELSE [m.c EXCEPT !.ids[i].ty = IF sized THEN m.ty ELSE @]

dcllocal(c, class, id, ty) ==
  LET q == At(c, id)
      noregister == class = "register" /\ (isvolatile(ty) \/ isstruct(ty) \/ isarray(ty))
      sclass == IF class = "" THEN (IF isfunc(ty) THEN "extern" ELSE "auto")
                ELSE IF noregister THEN "auto" ELSE class
      again == q.scope >= c.level \/ (q.scope = PARAM /\ c.level = LOCALS)
      same == again /\ sclass = "extern" /\ q.sclass = "extern" /\ eqtype(c, q.ty, ty, TRUE)
      legal == (isfunc(ty) => class \in {"", "extern"}) /\ (again => same)
      m == IF same THEN compose(Check(c, legal), ty, q.ty) ELSE Made(Check(c, legal), ty)
      i == Len(m.c.ids) + 1
      new == Declare(install(m.c, id, c.level, sclass, m.ty), sclass, m.ty, <<id>>)
      static == initglobal(new, i)
      d == IF sclass = "static" THEN [Check(static, static.err \/ Size(static, static.ids[i].ty) > 0)
                                        EXCEPT !.ids[i].defined = TRUE]
           ELSE [InitLocal(Check(new, sclass # "extern" \/ T(c) # "="), i) EXCEPT !.ids[i].defined = sclass # "extern"]
      complete == ~isfunc(m.ty) /\ d.ids[i].defined => Size(d, d.ids[i].ty) > 0
  IN  IF m.c.err THEN m.c ELSE Semicolon(Check(d, d.err \/ complete))

dcltypedef(c, id, ty) ==
  LET new == install(Check(c, At(c, id).scope # c.level), id, c.level, "typedef", ty)
  IN  Semicolon(Declare(new, "typedef", ty, <<id>>))

-----------------------------------------------------------------------------
(* Declarations.                                                           *)

RECURSIVE Declarators(_, _, _), OldDeclarations(_), compound(_), Declared(_), statements(_)

\* One declarator, and those after it: dcl says what they declare.
Declarators(d, s, dcl) ==
  LET c == IF d.c.emit THEN cbufflushon(d.c) ELSE d.c
      e == CASE d.id = "" -> Error(c)
             [] d.id # "" /\ s.cls = "typedef" -> dcltypedef(c, d.id, d.ty)
             [] OTHER -> CASE dcl = "global" -> dclglobal(c, s.cls, d.id, d.ty)
                           [] dcl = "local" -> dcllocal(c, s.cls, d.id, d.ty)
                           [] dcl = "param" -> dclparam(c, s.cls, d.id, d.ty).c
      off == IF e.emit THEN cbufflushoff(e) ELSE e
  IN  IF T(e) = "," THEN Declarators(dclr(gettok(off), s.ty, Plain), s, dcl) ELSE EndDeclaration(e)

\* A declaration without declarators: of a struct, union or enum.
NoDeclarator(c, ty) ==
  LET on == IF c.emit THEN cbufflushon(c) ELSE c
      text == Declare(on, "", ty, <<>>)
  IN  IF isstruct(ty) \/ isenum(ty) THEN EndDeclaration(IF c.emit THEN cbufflush(text, <<";">>) ELSE text)
      ELSE Error(c)

Specified(c) == specifier(IF c.emit THEN cbufflushoff(cbufclear(c)) ELSE c, TRUE)

decl(c, dcl) ==
  LET s == Specified(c)
  IN  IF StartsDeclarator(s.c) THEN Declarators(dclr(s.c, s.ty, Plain), s, dcl) ELSE NoDeclarator(s.c, s.ty)

-----------------------------------------------------------------------------
(* Function definitions.                                                   *)

\* The declarations of the parameters of a K&R definition.
OldDeclarations(c) == IF StartsDeclaration(c) THEN OldDeclarations(decl(c, "param")) ELSE c

\* A declaration here that names no parameter is an error, an enumerator too.
oldparam(c, params) ==
  Check(c, \A i \in DOMAIN c.ids : c.ids[i].scope = PARAM => \E k \in DOMAIN params : params[k].name = c.ids[i].name)

\* The parameters that were not declared are ints.
RECURSIVE Undeclared(_, _)
Undeclared(c, params) ==
  IF params = <<>> THEN c
  ELSE Undeclared(IF At(c, Head(params).name).scope = PARAM THEN c ELSE dclparam(c, "", Head(params).name, inttype).c,
                  Tail(params))

\* What a caller passes without a prototype.
Promoted(ty) == IF unqual(ty) = floattype THEN doubletype ELSE promote(ty)

\* The state in the scope of the parameters, the type that is declared and the one
\* that is written.
OldStyle(c, id, ty, params) ==
  LET own == OldDeclarations(enterscope(exitscope(c)))
      d == Undeclared(oldparam(IF c.emit THEN cbufclear(own) ELSE own, params), params)
      names == [i \in DOMAIN params |-> params[i].name]
      caller == [i \in DOMAIN params |-> Promoted(At(d, names[i]).ty)]
      p == At(d, id)
      prior == p.scope = GLOBAL /\ isfunc(p.ty) /\ HasProto(p.ty)
      agree == /\ Len(p.ty.args) = Len(caller)
               /\ \A i \in DOMAIN caller : eqtype(d, unqual(p.ty.args[i]), unqual(caller[i]), TRUE)
      f == func(d, freturn(ty), caller, names, "old")
  IN  IF d.err THEN [c |-> d, ty |-> ty, cty |-> ty]
      ELSE IF prior THEN [c |-> Check(d, agree), ty |-> ty, cty |-> [p.ty EXCEPT !.names = names]]
      ELSE [c |-> f.c, ty |-> f.ty, cty |-> f.ty]

NewStyle(c, ty, params) ==
  [c |-> Check(c, \A i \in DOMAIN params : ~Numbered(params[i].name)), ty |-> ty, cty |-> ty]

funcdefn(c, class, id, fty, params) ==
  LET on == IF c.emit THEN cbufflushon(c) ELSE c
      old == fty.style = "none"
      start == Check(on, Size(c, freturn(fty)) # 0 \/ ~isstruct(freturn(fty)))
      f == IF old THEN OldStyle(start, id, fty, params) ELSE NewStyle(start, fty, params)
      sc == IF class = "typedef" THEN "extern" ELSE class
      head == Declare(f.c, sc, f.cty, <<id>>)
      text == IF c.emit THEN cbufflush(head, <<"{">>) ELSE head
      Sized == \A i \in DOMAIN text.ids : text.ids[i].scope = PARAM /\ text.ids[i].sclass \in {"auto", "register"}
                                          => Size(text, text.ids[i].ty) # 0
      p == At(text, id)
      legal == class # "typedef" /\ Sized /\ ~(p.scope # 0 /\ isfunc(p.ty) /\ p.defined)
      dcl == dclglobal(cbufflushoff(Check(text, legal)), sc, id, f.ty)
      named == [dcl EXCEPT !.ids[IF dcl.err THEN 1 ELSE lookup(dcl, id)].defined = TRUE]
      body == exitscope(compound(IF c.emit THEN cbufflushon(named) ELSE named))
  IN  IF f.c.err THEN f.c ELSE IF dcl.err THEN dcl
      ELSE expect(exitscope(IF c.emit THEN cbufflush(body, <<>>) ELSE body), "}")

Declared(c) ==
  IF StartsDeclaration(c) THEN Declared(decl(c, "local")) ELSE c

\* A block: its declarations, then its statements.
compound(c) ==
  LET body == statements(Declared(expect(enterscope(c), "{")))
  IN  IF body.level > LOCALS THEN expect(exitscope(body), "}") ELSE body

statements(c) ==
  LET e == expr1(c)
  IN  IF T(c) = "{" THEN statements(compound(c))
      ELSE IF StartsExpression(c) THEN statements(expect(e.c, ";")) ELSE c

-----------------------------------------------------------------------------
(* A declaration or definition outside functions, and the end.             *)

StartsBody(c) == T(c) = "{" \/ istypename(c) \/ T(c) \in StorageWords \ {"typedef"}

External(c) ==
  LET s == Specified(c)
      d == dclr(s.c, s.ty, [Plain EXCEPT !.wants = TRUE])
      closed == IF d.open THEN [d EXCEPT !.c = exitparams(@, d.params)] ELSE d
  IN  IF ~StartsDeclarator(s.c) THEN NoDeclarator(s.c, s.ty)
      ELSE IF d.open /\ d.id # "" /\ isfunc(d.ty) /\ StartsBody(d.c)
      THEN funcdefn(d.c, s.cls, d.id, d.ty, d.params)
      ELSE Declarators(closed, s, "global")

\* doglobal and checkref: an array without a size has one element, and a static
\* function that is used must be defined.
Finished(c, i) ==
  LET p == c.ids[i]
      tentative == ~p.defined /\ ~isfunc(p.ty) /\ p.sclass \in {"auto", "static"}
      one == isarray(p.ty) /\ p.ty.size = 0 /\ Size(c, p.ty.to) > 0
      m == IF tentative /\ one THEN array(c, p.ty.to, 1) ELSE Made(c, p.ty)
      legal == /\ tentative => Size(m.c, m.ty) > 0
               /\ ~(p.sclass = "static" /\ ~p.defined /\ isfunc(p.ty) /\ p.ref)
  IN  [Check(m.c, legal) EXCEPT !.ids[i].ty = m.ty]

finalize(c) == FoldLeft(Finished, c, [i \in DOMAIN c.ids |-> i])
=============================================================================
