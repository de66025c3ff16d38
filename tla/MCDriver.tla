------------------------------ MODULE MCDriver ------------------------------
EXTENDS Driver

F(base, end) == <<"", <<base>>, end>>
FF(base, end, last) == <<"", <<base, end>>, last>>
O(option) == <<option>>

\* One source with every way of using it, two sources, sources with the same
\* base name, an object, a library and a missing file beside a source, and an
\* output whose name is near a source's.
MCCommandLines ==
  {<<F("a", "c")>>, <<F("a", "i")>>, <<F("a", "c"), F("b", "o")>>, <<F("b", "s")>>,
   <<O("-o"), F("b", "i"), F("a", "c"), F("b", "i")>>, <<F("a", "c"), O("-o")>>,
   <<O("-E"), F("a", "c"), F("a", "i"), F("l", "so")>>, <<O("-keep"), F("a", "c")>>, <<O("-nsp"), F("a", "c")>>,
   <<O("-c"), F("a", "c"), F("b", "i")>>, <<O("-c"), O("-o"), F("x", "o"), F("a", "i")>>,
   <<O("-S"), F("a", "c")>>, <<O("-S"), O("-o"), F("x", "s"), F("a", "i")>>,
   <<O("-pipe"), O("-S"), F("a", "c")>>, <<O("-pipe"), F("a", "c")>>, <<O("-pipe"), O("-v"), O("-v"), F("a", "c")>>,
   <<O("-v"), O("-v"), F("a", "c")>>, <<O("-v"), O("-v"), O("-E"), F("a", "c")>>, <<O("-S"), F("b", "s")>>,
   <<O("-o"), F("a", "c"), F("b", "i")>>, <<O("-o"), F("x", "out"), F("a", "i")>>,
   <<F("a", "i"), F("m", "c")>>, <<F("m", "i")>>, <<O("-c"), F("a", "i"), F("a", "c")>>, <<F("a", "i"), F("b", "s")>>,
   <<F("a", "i"), F("l", "a")>>, <<O("-o"), F("a", "o"), F("a", "c")>>, <<F("b", "i"), F("a", "i"), O("-c")>>,
   <<O("-S"), O("-o"), F("a", ""), F("a", "tc")>>, <<O("-S"), O("-o"), F("a", ""), F("a", "c")>>,
   <<O("-S"), O("-o"), F("a", "s"), F("a", "i")>>, <<O("-S"), FF("a", "s", "c"), F("a", "i")>>,
   <<O("-keep"), O("-o"), F("x", "out"), F("a", "i"), F("b", "c")>>, <<O("-S"), O("-nsp"), O("-o"), F("a", "s"), F("a", "i")>>}

MCDisk == {F("a", "c"), F("a", "i"), F("a", "tc"), F("b", "c"), F("b", "i"), F("b", "s"), F("b", "o"), F("x", "o"),
           F("l", "a"), F("l", "so"), FF("a", "s", "c"), FF("a", "s", "b")}
=============================================================================
