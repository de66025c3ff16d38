------------------------------- MODULE BitVec -------------------------------
(***************************************************************************)
(* The bit vectors of src/src/sup/bv.h: a length in bits and the words that *)
(* hold them, through which the flow graph, the live intervals, both       *)
(* register allocators and the pool of registers keep their sets.          *)
(*                                                                         *)
(* A word is the set of its bits that are 1, so the bitwise operators of C *)
(* are the operators on sets; what is left to get right is the arithmetic  *)
(* between bits, words, nibbles and bytes, and the bits of the last word    *)
(* that belong to no element.  Word is 32 and Nibble 4 in the code.        *)
(* `bank' is the memory: the vectors a program has made, by name.          *)
(***************************************************************************)
EXTENDS Integers, Sequences, FiniteSets, SequencesExt

CONSTANTS
  Names,    (* the vectors in play                                          *)
  Lengths,  (* the lengths a vector may be made with                        *)
  Word,     (* 8 * sizeof (bvdt)                                            *)
  Nibble,   (* the bits bv_eachbit and bv_num look at together              *)
  NoVector  (* a name that stands for no vector yet                         *)

ASSUME BitVecAssumption ==
  /\ Lengths \subseteq Nat \ {0}
  /\ Nibble \in Nat \ {0} /\ Word \in Nat \ {0}
  /\ Word % 4 = 0 /\ Word % Nibble = 0
  /\ NoVector \notin [len : Nat, word : Seq(SUBSET Nat)]

VARIABLE bank

WordBits == 0 .. Word - 1

\* A byte of the word, as bv_firstbit takes it apart: 8 of 32 bits.
Byte == Word \div 4

bv_nwords(sz) == (sz + Word - 1) \div Word

Sized(l, W(_)) == [len |-> l, word |-> [s \in 1 .. bv_nwords(l) |-> W(s)]]

Zeroed(l) == LET W(s) == {} IN Sized(l, W)

\* Mutated form: the ones past the end of the vector stay.
Mut_Clobber(v) == v

\* Clobber excess 1s: those of the last word past the end of the vector.
Clobber(v) ==
  LET last == bv_nwords(v.len)
  IN  IF v.len % Word # 0
      THEN [v EXCEPT !.word[last] = @ \cap (0 .. (v.len % Word) - 1)]
      ELSE v

bv_new1(l) == LET W(s) == WordBits IN Clobber(Sized(l, W))

\* The vectors of register sets: as many whole words as the array has.
bv_init(a) == [len |-> Len(a) * Word, word |-> a]

\* Only the words the vector fills to the end take the array's bits.
bv_reinit(v, a) ==
  [v EXCEPT !.word = [s \in DOMAIN @ |-> IF s <= (v.len \div Word) THEN a[s] ELSE @[s]]]

-----------------------------------------------------------------------------
\* One bit.  An index past the bound is ignored.
WordOf(i) == (i \div Word) + 1
BitOf(i) == i % Word

InBounds(v, i) == i < v.len

bv_setp(v, i) == InBounds(v, i) /\ BitOf(i) \in v.word[WordOf(i)]

bv_set(v, i) ==
  IF InBounds(v, i) THEN [v EXCEPT !.word[WordOf(i)] = @ \cup {BitOf(i)}] ELSE v

bv_unset(v, i) ==
  IF InBounds(v, i) THEN [v EXCEPT !.word[WordOf(i)] = @ \ {BitOf(i)}] ELSE v

\* Mutated form: the vector itself is asked, not the other.
Mut_bv_cset(v1, v2, i) ==
  IF InBounds(v1, i) /\ InBounds(v2, i) /\ ~bv_setp(v1, i) THEN bv_set(v1, i) ELSE v1

bv_cset(v1, v2, i) ==
  IF InBounds(v1, i) /\ InBounds(v2, i) /\ ~bv_setp(v2, i) THEN bv_set(v1, i) ELSE v1

\* What bv_setf and bv_unsetf return besides: 1 when the bit changed.
bv_setf(v, i) == InBounds(v, i) /\ ~bv_setp(v, i)
bv_unsetf(v, i) == InBounds(v, i) /\ bv_setp(v, i)

-----------------------------------------------------------------------------
\* Whole vectors, word by word.
Wordwise(v, W(_)) == [v EXCEPT !.word = [s \in DOMAIN @ |-> W(s)]]

bv_clear(v) == LET W(s) == {} IN Wordwise(v, W)
bv_fill(v) == LET W(s) == WordBits IN Clobber(Wordwise(v, W))
bv_not(v) == LET W(s) == WordBits \ v.word[s] IN Clobber(Wordwise(v, W))

bv_union2(v2, v3) == LET W(s) == v2.word[s] \cup v3.word[s] IN Wordwise(v2, W)
bv_inter2(v2, v3) == LET W(s) == v2.word[s] \cap v3.word[s] IN Wordwise(v2, W)
bv_diff2(v2, v3) == LET W(s) == v2.word[s] \cap (WordBits \ v3.word[s]) IN Wordwise(v2, W)
bv_xor(v1, v2) ==
  LET W(s) == (v1.word[s] \ v2.word[s]) \cup (v2.word[s] \ v1.word[s]) IN Wordwise(v1, W)

bv_union2s(v1, v2, v3) == bv_union2(v1, bv_union2(v2, v3))

\* The lengths, kept before the words, are compared with them.
bv_eq(v1, v2) ==
  /\ v1.len = v2.len
  /\ \A s \in 1 .. bv_nwords(v1.len) : v1.word[s] = v2.word[s]

bv_subset(v1, v2) ==
  /\ v1.len <= v2.len
  /\ \A s \in 1 .. bv_nwords(v1.len) : v1.word[s] \cap (WordBits \ v2.word[s]) = {}

-----------------------------------------------------------------------------
\* The loops go over whole nibbles, up to the first that starts past the end.
NibbleCount(v) == (v.len + Nibble - 1) \div Nibble

\* The bits that are 1 of the nibble that starts at bit k.
InNibble(v, k) == {i \in k .. k + Nibble - 1 : BitOf(i) \in v.word[WordOf(k)]}

\* bv_eachbit applies f to each set bit.  A nibble is read once, when the loop
\* comes to it, and f may change the vector meanwhile: i_igrmnode, applied to
\* the neighbours of node r, takes r out of each row, its own among them.
\* `applied' are the calls of f, `vec' is the vector they leave.
AtBit(s, i, r) ==
  LET now == IF i % Nibble = 0 THEN InNibble(s.vec, i) ELSE s.now
  IN  IF i \in now
      THEN [vec |-> IF i = r THEN bv_unset(s.vec, r) ELSE s.vec, now |-> now, applied |-> Append(s.applied, i)]
      ELSE [s EXCEPT !.now = now]

bv_eachbit(v, r) ==
  LET after[n \in 0 .. NibbleCount(v) * Nibble] ==
        IF n = 0 THEN [vec |-> v, now |-> {}, applied |-> <<>>] ELSE AtBit(after[n - 1], n - 1, r)
  IN  after[NibbleCount(v) * Nibble]

bv_num(v) ==
  LET count[n \in 0 .. NibbleCount(v)] ==
        IF n = 0 THEN 0 ELSE count[n - 1] + Cardinality(InNibble(v, (n - 1) * Nibble))
  IN  count[NibbleCount(v)]

\* bv_ffb_table: the number of the only bit set in a byte.
bv_ffb(byte) == CHOOSE b \in byte : TRUE

ByteOffset(b) == b * Byte

\* mask &= -mask leaves the lowest bit of the first word that is not zero; its
\* byte gives the offset to add to what the table says.
bv_firstbit(v) ==
  IF \A s \in DOMAIN v.word : v.word[s] = {} THEN -1
  ELSE LET s == CHOOSE t \in DOMAIN v.word :
                  v.word[t] # {} /\ \A u \in 1 .. t - 1 : v.word[u] = {}
           low == CHOOSE b \in v.word[s] : \A c \in v.word[s] : b <= c
           b == CHOOSE n \in 0 .. 3 : low \in n * Byte .. (n + 1) * Byte - 1
       IN  bv_ffb({low - b * Byte}) + ByteOffset(b) + (s - 1) * Word

-----------------------------------------------------------------------------
\* The vectors made so far, and those of the length of x: the assertions ask
\* for operands of one length.
Made == {x \in Names : bank[x] # NoVector}
Alike(x) == {y \in Made : bank[y].len = bank[x].len}

BitInit == bank = [x \in Names |-> NoVector]

Put(x, v) == bank' = [bank EXCEPT ![x] = v]

\* An array of whole words to initialise from.
Arrays(n) == [1 .. n -> {{}, {0, Word - 1}, 1 .. Word - 1}]

\* bv_new, bv_pnew, bv_new1, bv_init, bv_pinit, bv_cp, bv_pcp and the r forms
\* bv_runion, bv_rinter and bv_rdiff make a vector.  Those of an arena or the
\* other differ only in where the memory comes from.
New(x, l) == Put(x, Zeroed(l))
New1(x, l) == Put(x, bv_new1(l))
InitFrom(x, a) == Put(x, bv_init(a))
Copy(x, y) == Put(x, bank[y])
RUnion(x, y, z) == Put(x, bv_union2(bank[y], bank[z]))
RInter(x, y, z) == Put(x, bv_inter2(bank[y], bank[z]))
RDiff(x, y, z) == Put(x, bv_diff2(bank[y], bank[z]))

Make ==
  \E x \in Names :
    \/ \E l \in Lengths : New(x, l) \/ New1(x, l)
    \/ \E l \in Lengths : l % Word = 0 /\ \E a \in Arrays(l \div Word) : InitFrom(x, a)
    \/ \E y \in Made : Copy(x, y)
    \/ \E y \in Made : \E z \in Alike(y) : RUnion(x, y, z) \/ RInter(x, y, z) \/ RDiff(x, y, z)

\* One bit changes; an index just past the end is among those tried.
Set(x, i) == Put(x, bv_set(bank[x], i))
Unset(x, i) == Put(x, bv_unset(bank[x], i))
CSet(x, y, i) == Put(x, bv_cset(bank[x], bank[y], i))

OneBit ==
  \E x \in Made : \E i \in 0 .. bank[x].len :
    Set(x, i) \/ Unset(x, i) \/ \E y \in Made : CSet(x, y, i)

\* The operations on whole vectors.
Clear(x) == Put(x, bv_clear(bank[x]))
Fill(x) == Put(x, bv_fill(bank[x]))
Not(x) == Put(x, bv_not(bank[x]))
Reinit(x, a) == Put(x, bv_reinit(bank[x], a))
CopyTo(x, y) == Put(x, [bank[x] EXCEPT !.word = bank[y].word])
Union2(x, y, z) == Put(x, bv_union2(bank[y], bank[z]))
Union2s(x, y, z) == Put(x, bv_union2s(bank[x], bank[y], bank[z]))
Inter2(x, y, z) == Put(x, bv_inter2(bank[y], bank[z]))
Diff2(x, y, z) == Put(x, bv_diff2(bank[y], bank[z]))
Xor(x, y) == Put(x, bv_xor(bank[x], bank[y]))
EachBit(x, r) == Put(x, bv_eachbit(bank[x], r).vec)

\* bv_union, bv_inter and bv_diff are the forms of two operands: x is y.
Whole ==
  \E x \in Made :
    \/ Clear(x) \/ Fill(x) \/ Not(x)
    \/ \E a \in Arrays(bank[x].len \div Word) : Reinit(x, a)
    \/ \E r \in 0 .. bank[x].len - 1 : EachBit(x, r)
    \/ \E y \in Alike(x) : CopyTo(x, y) \/ Xor(x, y)
    \/ \E y, z \in Alike(x) : Union2(x, y, z) \/ Union2s(x, y, z) \/ Inter2(x, y, z) \/ Diff2(x, y, z)

BitNext == Make \/ OneBit \/ Whole

BitSpec == BitInit /\ [][BitNext]_bank

-----------------------------------------------------------------------------
\* The set a vector stands for.
Bits(v) == {i \in 0 .. v.len - 1 : BitOf(i) \in v.word[WordOf(i)]}

Now(x) == Bits(bank[x])
After(x) == Bits(bank'[x])

\* No operation leaves a one behind the end of a vector: bv_eq and bv_subset,
\* which compare whole words, bv_firstbit, which looks at whole words, and
\* bv_eachbit and bv_num, which look at whole nibbles, rely on it.
NoStrayBits ==
  \A x \in Made : \A s \in DOMAIN bank[x].word : \A b \in bank[x].word[s] :
    (s - 1) * Word + b < bank[x].len

Ascending(S, seq) ==
  /\ Len(seq) = Cardinality(S) /\ ToSet(seq) = S
  /\ \A i, j \in DOMAIN seq : i < j => seq[i] < seq[j]

\* What the program asks of a vector is answered as of the set it stands for;
\* bv_eachbit calls f once for every element, in order, also when f takes an
\* element out of the vector, as i_igremove has it do on a node's own row.
AnswersAsSet ==
  \A x \in Made :
    /\ \A i \in 0 .. bank[x].len : bv_setp(bank[x], i) <=> i \in Now(x)
    /\ bv_num(bank[x]) = Cardinality(Now(x))
    /\ IF Now(x) = {} THEN bv_firstbit(bank[x]) = -1
       ELSE bv_firstbit(bank[x]) \in Now(x) /\ \A i \in Now(x) : bv_firstbit(bank[x]) <= i
    /\ \A r \in 0 .. bank[x].len : Ascending(Now(x), bv_eachbit(bank[x], r).applied)
    /\ \A y \in Alike(x) : bv_eq(bank[x], bank[y]) <=> Now(x) = Now(y)
    /\ \A y \in Made :
         bank[x].len <= bank[y].len => (bv_subset(bank[x], bank[y]) <=> Now(x) \subseteq Now(y))

Within(x) == 0 .. bank[x].len - 1

\* A step does to the sets what its comment in bv.h promises, also when
\* its operands are the same vector, and bv_setf and bv_unsetf report whether
\* they changed it.
Operates ==
  /\ \A x \in Names : \A l \in Lengths : New1(x, l) => After(x) = 0 .. l - 1
  /\ \A x \in Made : \A i \in 0 .. bank[x].len :
       /\ Set(x, i) => After(x) = Now(x) \cup ({i} \cap Within(x))
       /\ Set(x, i) => (bv_setf(bank[x], i) <=> After(x) # Now(x))
       /\ Unset(x, i) => After(x) = Now(x) \ {i}
       /\ Unset(x, i) => (bv_unsetf(bank[x], i) <=> After(x) # Now(x))
       /\ \A y \in Alike(x) : CSet(x, y, i) => After(x) = Now(x) \cup (({i} \cap Within(x)) \ Now(y))
       /\ EachBit(x, i) => After(x) = Now(x) \ {i}
  /\ \A x \in Made :
       /\ Clear(x) => After(x) = {}
       /\ Fill(x) => After(x) = Within(x)
       /\ Not(x) => After(x) = Within(x) \ Now(x)
  /\ \A x \in Made : \A y, z \in Alike(x) :
       /\ Union2(x, y, z) => After(x) = Now(y) \cup Now(z)
       /\ Union2s(x, y, z) => After(x) = Now(x) \cup Now(y) \cup Now(z)
       /\ Inter2(x, y, z) => After(x) = Now(y) \cap Now(z)
       /\ Diff2(x, y, z) => After(x) = Now(y) \ Now(z)
       /\ Xor(x, y) => After(x) = (Now(x) \cup Now(y)) \ (Now(x) \cap Now(y))
       /\ CopyTo(x, y) => After(x) = Now(y)

\* No step of the program takes a vector for another set than it stands for.
OperatesAsSet == [][Operates]_bank
=============================================================================
