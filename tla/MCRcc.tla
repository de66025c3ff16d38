------------------------------- MODULE MCRcc --------------------------------
(***************************************************************************)
(* Programs for Rcc, in families: one statement with every operator on     *)
(* every pair of types and constants, folding inside folding, choices,     *)
(* effects; two statements with common subexpressions and stores between   *)
(* them; tests, loops and switches inside one another.  A menu is a        *)
(* definition of its own so that TLC evaluates it once.                    *)
(***************************************************************************)
EXTENDS Rcc
S == INSTANCE SequencesExt

Variables ==
  [x |-> [ty |-> "int", address |-> "ADDRL"], g |-> [ty |-> "int", address |-> "ADDRG"],
   h |-> [ty |-> "int", address |-> "ADRFL"], u |-> [ty |-> "unsigned", address |-> "ADDRG"],
   q |-> [ty |-> "long", address |-> "ADDRG"], w |-> [ty |-> "ulong", address |-> "ADDRG"],
   b |-> [ty |-> "char", address |-> "ADDRG"], s |-> [ty |-> "ushort", address |-> "ADDRG"]]

\* Positive, negative and zero, at the limits of the types and beyond the width
\* of the next smaller one.
Values ==
  {[g |-> 5, h |-> 1, u |-> 9, q |-> 25, b |-> -2, s |-> 7, w |-> 37],
   [g |-> -3, h |-> 6, u |-> 15, q |-> -27, b |-> 1, s |-> 2, w |-> 16],
   [g |-> 0, h |-> -8, u |-> 1, q |-> 16, b |-> -1, s |-> 0, w |-> 63]}

V(v) == <<"var", v>>
N(n) == IF n < 0 THEN <<"un", "-", <<"num", "int", -n>>>> ELSE <<"num", "int", n>>
Long(n) == <<"num", "long", n>>
Bin(op, l, r) == <<"bin", op, l, r>>
If(e, t) == <<"if", e, t>>
Do(e) == <<"expr", e>>
Set(v, e) == Do(<<"asgn", V(v), e>>)
Inc(v) == Do(<<"post", "ADD", V(v)>>)
Add(v, n) == Set(v, Bin("ADD", V(v), N(n)))
X == V("x")  G == V("g")  H == V("h")  U == V("u")  Q == V("q")  B == V("b")
Break == <<"break">>
Continue == <<"continue">>

-----------------------------------------------------------------------------
(* Expressions.                                                            *)

Arithmetic == {"ADD", "SUB", "MUL", "DIV", "MOD", "BAND", "BOR", "BXOR", "LSH", "RSH"}
Operators == Arithmetic \cup Comparisons \cup {"AND", "OR"}
Globally == {G, H, U, Q, V("w"), B, V("s")}
Leaves == Globally \cup {N(0), N(2), N(3), N(-1), Long(9)}
Few == {G, U, Q, B, N(2), N(-1)}

Unaries(on) == {<<"un", op, e>> : op \in {"-", "~", "!"}, e \in on} \cup {<<"cast", ty, e>> : ty \in Types, e \in on}
One == Unaries(Leaves)
Two == {Bin(op, l, r) : op \in Operators, l \in Leaves, r \in Leaves}
Three ==
  {Bin(op, e, Bin(op2, l, r)) : op \in Operators, e \in Few, op2 \in {"ADD", "MUL", "LT", "BAND"},
                                l \in {G, U}, r \in {N(2), B, Q}}
Constant3 ==
  {Bin(op, N(m), Bin(op2, e, N(n))) : op \in {"MUL", "ADD", "SUB"}, m \in {-3, -1, 2, 3},
                                      op2 \in {"ADD", "SUB", "RSH"}, e \in {G, U, N(-7)}, n \in {0, 2, 3}}
Ternaries == {<<"cond", e, l, r>> : e \in Globally, l \in {N(2), U, N(-1), B}, r \in {G, U, Q}}
Stores ==
  {<<"opasgn", op, v, e>> : op \in {"ADD", "DIV", "RSH", "BOR"}, v \in Globally, e \in Few}
  \cup {<<f, op, v>> : f \in {"pre", "post"}, op \in {"ADD", "SUB"}, v \in Globally}
  \cup {<<"asgn", v, e>> : v \in Globally, e \in Few}
  \cup {<<"comma", l, r>> : l \in {G, <<"post", "ADD", G>>}, r \in Few}

Computed == {Set("q", e) : e \in One \cup Two \cup Three \cup Constant3 \cup Ternaries}
Twice == {Set("q", e) : e \in Unaries(Unaries(Globally))}
Shortened == {Set(v, e) : v \in {"b", "u", "w"}, e \in One \cup Ternaries}
Effected == {Set(v, e) : v \in {"g", "w"}, e \in Stores}
Ordered == {Set("q", Bin(op, l, r)) : op \in Comparisons, l \in {U, Q, G}, r \in {U, Q, N(2)}}

-----------------------------------------------------------------------------
(* Stores between uses of the same expression.                             *)

Start == {Set("x", G), Set("x", N(2))}
Shared ==
  {Set(v, e) : v \in {"x", "g", "h", "q"},
               e \in {Bin("ADD", X, G), Bin("ADD", X, N(1)), Bin("MUL", G, H), Bin("AND", X, Bin("LT", G, H)),
                      <<"post", "ADD", G>>, <<"call">>, <<"cond", Bin("LT", X, G), H, X>>}}

-----------------------------------------------------------------------------
(* Statements.                                                             *)

Tests0 == {Bin("LT", G, H), Bin("EQ", U, N(2)), Bin("AND", G, Bin("LT", H, N(2))), Bin("OR", Bin("GE", G, N(3)), B),
           <<"un", "!", G>>, N(1), N(0), X, Bin("NE", <<"call">>, N(3))}
Both == {Bin("LT", G, H), Bin("AND", G, Bin("LT", H, N(2)))}
Plain == {Inc("h"), Add("x", 1), Set("u", Bin("MUL", G, H)), <<"return", X>>}

Ifs(tests, arms) ==
  {If(e, t) : e \in tests, t \in arms} \cup {<<"if", e, t, f>> : e \in tests, t \in arms, f \in arms}
IfStatements == Ifs(Tests0, Plain) \cup Ifs(Both, Ifs({X}, {Inc("h"), Add("x", 1), <<"return", X>>}))

Bodies == {<<"block", If(e, t), f>> : e \in Both, t \in {Break, Continue, Add("x", 1)}, f \in {Inc("g"), Set("x", Bin("MUL", G, H))}}
Whiles == {<<"while", e, t>> : e \in Tests0, t \in Bodies} \cup {<<"do", t, e>> : e \in Tests0, t \in Bodies}
Fors ==
  {<<"for", e1, e2, e3, t>> : e1 \in {<<>>, <<"asgn", X, N(0)>>, <<"asgn", G, N(3)>>, <<"cond", U, <<"asgn", X, N(0)>>, X>>},
                              e2 \in {<<>>, Bin("LT", X, N(3)), Bin("LT", G, N(2)), Bin("LT", G, H)},
                              e3 \in {<<>>, <<"post", "ADD", X>>}, t \in Bodies}

Lowest8 == Bin("SUB", N(-7), N(1))
CaseLists ==
  {<< <<0>> >>, << <<1>>, <<5>> >>, << <<1, 2>>, <<5>> >>, << <<-3>>, <<0>>, <<5>> >>, << <<0>>, <<1>>, <<5, 6>> >>,
   << <<-7>>, <<-3, -2>>, <<1>>, <<6>> >>, << <<7>>, <<-8>>, <<2>> >>, << <<1>>, <<2>>, <<3>>, <<4>> >>}
Labels(ns) == [i \in DOMAIN ns |-> IF ns[i] = -8 THEN Lowest8 ELSE N(ns[i])]
Cases(lists, ends, last) ==
  <<"block">> \o S!FlattenSeq([i \in DOMAIN lists |-> <<<<"case", Add("x", i)>> \o Labels(lists[i]), ends[1 + (i % 2)]>>])
              \o (IF last THEN <<<<"default", Set("x", Bin("SUB", X, G))>>>> ELSE <<>>)
Switches ==
  {<<"switch", e, Cases(lists, ends, last)>> :
     e \in {X, G, H, Q, U, B, Bin("ADD", G, N(1)), <<"call">>}, lists \in CaseLists,
     ends \in {<<Break, Inc("g")>>, <<Inc("h"), Inc("g")>>}, last \in BOOLEAN}
Nested ==
  {<<"while", e, <<"block", <<"switch", v, Cases(lists, ends, TRUE)>>, t>>>> :
     e \in {Bin("LT", X, N(3)), Bin("NE", G, N(3))}, v \in {X, G}, lists \in {<< <<0>> >>, << <<-3>>, <<0>>, <<5>> >>},
     ends \in {<<Break, Continue>>, <<Continue, Break>>, <<<<"return", G>>, Break>>}, t \in {Inc("g"), Add("x", 1)}}
  \cup {<<"switch", G, <<"block", <<"case", <<"while", Bin("LT", X, N(3)), <<"block", If(e, t), Add("x", 1)>>>>, N(1), N(5)>>,
                                  Break, <<"default", f>>>>>> :
          e \in {Bin("LT", X, G), U}, t \in {Break, Continue, <<"return", G>>, Inc("h")},
          f \in {Inc("x"), <<"do", <<"block", Inc("x"), If(H, Break)>>, Bin("LT", X, N(3))>>}}
Returns == {<<"return", Bin("SUB", X, G)>>}

Written ==
  <<<<Computed>>, <<Twice>>, <<Shortened>>, <<Effected>>, <<Start, Shared, Shared>>, <<Start, IfStatements, Returns>>,
    <<Start, Whiles, Returns>>, <<Start, Fors, Returns>>, <<Start, Switches, Returns>>, <<Start, Nested, Returns>>>>
OnlyComparisons == <<<<Ordered>>>>
=============================================================================
