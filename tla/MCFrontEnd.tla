----------------------------- MODULE MCFrontEnd -----------------------------
(***************************************************************************)
(* The programs that TLC gives the front end: all sequences of declarations*)
(* from a pool, which meet in the names S, s, T, E, U, f, g, a and w.      *)
(***************************************************************************)
EXTENDS FrontEnd

\* The two sides.  TLC's statistics follow the calls of a definition and of what it
\* calls, each time anew, and do not follow those of a LET: without it they would
\* not be counted to the end.
MCReading(s) == LET read == ReadAll(s) IN read
MCSense(known, d) == LET then == Meaning(known, d) IN then

int == Words(<<"int">>)
char == Words(<<"char">>)
TypeT == TypeName("T")
StructS == Reference("struct", "S")

Object(class, spec, mods, name) == Declaration(class, spec, <<Item(name, mods)>>)
With(class, spec, mods, name, init) == Declaration(class, spec, <<Initialized(name, mods, init)>>)
Only(spec) == Declaration("", spec, <<>>)
Field(spec, mods, name) == Object("", spec, mods, name)
Function(spec, mods, name, params, body) ==
  Definition("", spec, Item(name, <<Prototype(params, FALSE)>> \o mods), <<>>, body)
OldFunction(spec, name, names, old, body) == Definition("", spec, Item(name, <<Names0(names)>>), old, body)

MCString == [s \in {"\"ab\""} |-> 3]

Structs == {
  Only(WithBody("struct", "S", <<Field(char, <<>>, "c"), Field(int, <<Array(2)>>, "a")>>)),
  Object("typedef", WithBody("struct", "S", <<Field(char, <<>>, "x"), Field(StructS, <<Ptr>>, "next")>>), <<>>, "T"),
  Object("", StructS, <<>>, "s"),
  Object("", StructS, <<Ptr>>, "p"),
  Only(WithBody("struct", "B", <<Declaration("", Words(<<"unsigned">>), <<Bits("x", 3), Bits("y", 20)>>),
                                  Field(char, <<>>, "c"), Declaration("", int, <<Bits("z", 12)>>)>>)),
  With("", WithBody("union", "U", <<Field(char, <<>>, "c"), Field(int, <<>>, "i")>>), <<>>, "u", List(<<Number(3)>>)),
  With("", StructS, <<>>, "s", List(<<Number(1), Number(2), Number(3)>>)),
  With("", StructS, <<Array(0)>>, "a", List(<<Number(1), Number(2), Number(3), List(<<Number(1)>>)>>)) }

Enums == {
  Only(WithBody("enum", "E", <<Item("A", <<>>), Initialized("B", <<>>, Number(5)), Item("C", <<>>)>>)),
  Object("", Reference("enum", "E"), <<>>, "e"),
  Object("", WithBody("enum", "", <<Item("T", <<>>)>>), <<Ptr>>, "p") }

Others == {
  Object("typedef", int, <<>>, "T"),
  Object("typedef", int, <<Array(0)>>, "T"),
  Object("typedef", int, <<Prototype(<<Param(int, <<>>, "")>>, FALSE)>>, "T"),
  Object("", TypeT, <<>>, "f"),
  Object("", Qualified0(<<"const">>, TypeT), <<Ptr>>, "p"),
  Object("extern", int, <<Array(0)>>, "a"),
  Object("", int, <<Array(2)>>, "a"),
  With("", int, <<Array(0)>>, "a", List(<<Number(1), Number(2), Number(3)>>)),
  With("", TypeT, <<>>, "a", List(<<Number(1), Number(2)>>)),
  With("static", int, <<Array(0), Array(2)>>, "m", List(<<Number(1), Number(2), List(<<Number(3)>>), Number(4)>>)),
  With("", char, <<Array(0)>>, "w", String("\"ab\"")),
  With("", char, <<Array(2)>>, "w", List(<<String("\"ab\"")>>)),
  Object("", int, <<NoPrototype>>, "f"),
  Object("", int, <<Prototype(<<Param(int, <<>>, "")>>, FALSE)>>, "f"),
  Object("", int, <<Prototype(<<Param(char, <<>>, "")>>, FALSE)>>, "f"),
  Object("", int, <<Ptr, Prototype(<<Param(int, <<>>, "")>>, FALSE)>>, "g") }

Say(es) == [i \in DOMAIN es |-> Expression0(es[i])]
NoParams == <<>>
SizeOfS == SizeOfType(StructS, <<>>)

Functions == {
  Function(int, <<>>, "f", <<Param(int, <<>>, "x")>>, Say(<<Use("x"), SizeOfName("a")>>)),
  OldFunction(int, "f", <<"x">>, <<Object("", char, <<Ptr>>, "x")>>, Say(<<Use("x"), Use("T")>>)),
  Function(TypeT, <<Ptr>>, "g", <<Param(TypeT, <<Ptr>>, "T")>>, Say(<<Use("T"), Address("T")>>)),
  Function(int, <<>>, "k", NoParams,
    <<Object("", WithBody("struct", "S", <<Field(char, <<>>, "d")>>), <<>>, "s"),
      Block(<<Object("", StructS, <<Ptr>>, "s"), Expression0(SizeOfS), Expression0(Use("s"))>>),
      Expression0(SizeOfName("s"))>>),
  Function(Words(<<"void">>), <<>>, "g", NoParams,
    <<With("", int, <<Array(0)>>, "a", List(<<Number(1), Number(2)>>)),
      Object("extern", int, <<Prototype(<<Param(int, <<>>, "")>>, FALSE)>>, "f"),
      Object("", TypeT, <<>>, "t")>> \o Say(<<SizeOfName("a"), Call0("f", <<Number(1)>>), Use("t")>>)),
  Function(int, <<>>, "g", <<Param(StructS, <<Ptr>>, "p")>>,
    <<Expression0(Use("p")), Expression0(SizeOfS), Expression0(Use("s")),
      Block(<<With("", WithBody("enum", "E", <<Item("B", <<>>)>>), <<>>, "e", Use("B")), Expression0(Use("e"))>>)>>),
  Function(int, <<>>, "k", NoParams,
    <<With("", int, <<>>, "T", Number(3)), Expression0(Use("T")),
      Block(<<With("static", char, <<Array(0)>>, "w", String("\"ab\"")), Expression0(SizeOfName("w"))>>),
      Expression0(Use("w"))>>),
  Function(int, <<>>, "h", <<Param(TypeT, <<>>, "a")>>, Say(<<Call0("f", <<Use("a")>>), Call0("g", NoParams), Call0("k", NoParams)>>)) }

Param0(spec, mods) == Param(spec, mods, "")
Callback == <<Ptr, Prototype(<<Param0(StructS, <<Ptr>>)>>, FALSE)>>

More == {
  Declaration("", Qualified0(<<"const">>, int), <<Initialized("x", <<>>, Number(3)), Initialized("p", <<Ptr>>, Address("x"))>>),
  Declaration("", TypeT, <<Initialized("x", <<>>, SizeOfName("a")), Initialized("y", <<>>, SizeOfType(TypeT, <<Ptr, Array(2)>>))>>),
  Object("", TypeT, <<Tick("cspec")>>, "x"),
  Object("", WithBody("struct", "S",
    <<Field(WithBody("struct", "", <<Field(int, <<>>, "x")>>), <<>>, "in"),
      Field(WithBody("union", "U", <<Field(char, <<>>, "c"), Field(int, <<Ptr>>, "p")>>), <<Array(2)>>, "v")>>), <<>>, "s"),
  With("", StructS, <<>>, "s", List(<<List(<<Number(1)>>), List(<<Number(2), List(<<Number(3)>>)>>)>>)),
  With("", Reference("struct", "B"), <<Array(0)>>, "a", List(<<Number(1), Number(2), Number(3), Number(4), List(<<Number(5)>>)>>)),
  Object("static", int, <<Prototype(<<Param0(int, <<>>)>>, FALSE)>>, "h"),
  Object("", StructS, <<Prototype(<<Param0(StructS, <<Ptr>>)>>, FALSE)>>, "f"),
  Object("", int, <<Prototype(<<Param0(TypeT, <<>>)>>, TRUE)>>, "f"),
  Object("extern", int, <<Ptr, Array(3)>>, "a"),
  Object("extern", TypeT, <<>>, "a"),
  Object("", Qualified0(<<"volatile">>, TypeT), <<QualifiedPtr(<<"const">>)>>, "p"),
  With("", char, <<Array(0), Array(3)>>, "w", List(<<String("\"ab\""), List(<<Number(1), Number(2)>>)>>)),
  With("", WithBody("enum", "E", <<Initialized("A", <<>>, Number(2)), Item("B", <<>>)>>), <<>>, "x", Use("A")),
  Object("", WithBody("struct", "", <<Field(WithBody("enum", "", <<Item("A", <<>>)>>), <<>>, "k")>>), <<>>, "s"),
  Object("typedef", WithBody("struct", "Q", <<Field(StructS, <<Array(2), Ptr>>, "a"), Field(int, Callback, "f")>>), <<>>, "T"),
  Object("", Words(<<"unsigned", "long", "int">>), <<>>, "x"),
  Object("", Words(<<"short", "unsigned">>), <<>>, "x"),
  Object("", Words(<<"long">>), <<>>, "A"),
  Object("", int, <<Prototype(<<Param(int, <<Array(3)>>, "a"), Param(int, <<Prototype(<<Param0(char, <<>>)>>, FALSE)>>, "g")>>, FALSE)>>, "g"),
  With("", TypeT, <<Ptr>>, "p", Address("s")),
  With("", int, <<Ptr, Prototype(<<Param0(int, <<>>)>>, FALSE)>>, "p", Use("f")),
  With("", Words(<<"double">>), <<>>, "x", Use("C")) }

All0 == Structs \cup Enums \cup Others \cup More
MCPool == <<All0 \cup Functions, All0 \cup Functions, Functions>>
=============================================================================
