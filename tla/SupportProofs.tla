---------------------------- MODULE SupportProofs ---------------------------
(***************************************************************************)
(* Proofs about what the rest of the system rests on.  The two arenas, for *)
(* every number of chunks, alignment, chunk size and set of requests; bit  *)
(* vectors, for every length, width of a word and width of a nibble; the   *)
(* linked list, for every size of at least two elements and every set of   *)
(* intervals.                                                              *)
(***************************************************************************)
EXTENDS Arena, BitVec, LinkedList, SequenceTheorems, FiniteSetTheorems, WellFoundedInduction, TLAPS

Object == [block : Blocks, off : Nat, len : Nat \ {0}]

\* Objects that lie below their chunk's first unallocated byte and apart from
\* each other, in chunks that are not filled past their end.
Sound(objects, av, lim) ==
  /\ \A x \in objects : x \in Object /\ x.off + x.len <= av[x.block]
  /\ \A x, y \in objects : x # y => ~Overlap(x, y)
  /\ \A b \in Blocks : av[b] <= lim[b]

Shape ==
  /\ used \in Seq(Blocks) /\ freeblocks \in Seq(Blocks) /\ perm \in Seq(Blocks)
  /\ avail \in [Blocks -> Nat] /\ limit \in [Blocks -> Nat]

\* A chunk is on one list, once, and malloc has supplied it.
ListsApart ==
  /\ IsInjective(used) /\ IsInjective(freeblocks)
  /\ ToSet(used) \cap ToSet(freeblocks) = {}
  /\ ToSet(perm) \cap (ToSet(used) \cup ToSet(freeblocks)) = {}
  /\ \A b \in ToSet(used) \cup ToSet(freeblocks) \cup ToSet(perm) : limit[b] # 0

\* What lives on which list: nothing that is alive is in a free chunk.
WhereObjectsLive ==
  /\ \A x \in live : x.block \in ToSet(used)
  /\ \A x \in permanent : x.block \in ToSet(perm)

IInv == Shape /\ ListsApart /\ WhereObjectsLive /\ Sound(live \cup permanent, avail, limit)

-----------------------------------------------------------------------------
(* Sequences, and rounding.                                                *)

\* The elements of a concatenation.
LEMMA ConcatIs ==
  ASSUME NEW S, NEW s \in Seq(S), NEW t \in Seq(S)
  PROVE  /\ s \o t \in Seq(S)
         /\ ToSet(s \o t) = ToSet(s) \cup ToSet(t)
         /\ IsInjective(s \o t) <=>
              IsInjective(s) /\ IsInjective(t) /\ ToSet(s) \cap ToSet(t) = {}
<1> DEFINE r == s \o t
<1>1. r \in Seq(S) /\ Len(r) = Len(s) + Len(t) /\ Len(s) \in Nat /\ Len(t) \in Nat
  OBVIOUS
<1>2. DOMAIN r = 1 .. Len(s) + Len(t) /\ DOMAIN s = 1 .. Len(s) /\ DOMAIN t = 1 .. Len(t)
  BY <1>1
<1>3. /\ \A i \in 1 .. Len(s) : r[i] = s[i]
      /\ \A i \in 1 .. Len(t) : r[Len(s) + i] = t[i]
  BY <1>1
<1> HIDE DEF r
<1>4. \A i \in DOMAIN r :
        (i \in DOMAIN s /\ r[i] = s[i]) \/ (i - Len(s) \in DOMAIN t /\ r[i] = t[i - Len(s)])
  <2> SUFFICES ASSUME NEW i \in DOMAIN r, ~(i \in DOMAIN s)
               PROVE  i - Len(s) \in DOMAIN t /\ r[i] = t[i - Len(s)]
    BY <1>2, <1>3
  <2>1. i - Len(s) \in 1 .. Len(t) /\ Len(s) + (i - Len(s)) = i
    BY <1>1, <1>2
  <2> QED
    BY <1>2, <1>3, <2>1
<1>5. /\ \A i \in DOMAIN s : i \in DOMAIN r /\ r[i] = s[i]
      /\ \A i \in DOMAIN t : Len(s) + i \in DOMAIN r /\ r[Len(s) + i] = t[i]
  BY <1>1, <1>2, <1>3
<1>6. ToSet(r) = ToSet(s) \cup ToSet(t)
  <2>1. ToSet(r) \subseteq ToSet(s) \cup ToSet(t)
    BY <1>4 DEF ToSet
  <2>2. ToSet(s) \cup ToSet(t) \subseteq ToSet(r)
    BY <1>5 DEF ToSet
  <2> QED
    BY <2>1, <2>2
<1>7. ASSUME IsInjective(s), IsInjective(t), ToSet(s) \cap ToSet(t) = {}
      PROVE  IsInjective(r)
  <2> SUFFICES ASSUME NEW i \in DOMAIN r, NEW j \in DOMAIN r, r[i] = r[j]
               PROVE  i = j
    BY DEF IsInjective
  <2>1. CASE i \in DOMAIN s /\ j \in DOMAIN s
    BY <1>5, <1>7, <2>1 DEF IsInjective
  <2>2. CASE i \in DOMAIN s /\ j \notin DOMAIN s
    <3>1. s[i] = t[j - Len(s)] /\ j - Len(s) \in DOMAIN t
      BY <1>4, <1>5, <2>2
    <3> QED
      BY <1>7, <2>2, <3>1 DEF ToSet
  <2>3. CASE i \notin DOMAIN s /\ j \in DOMAIN s
    <3>1. s[j] = t[i - Len(s)] /\ i - Len(s) \in DOMAIN t
      BY <1>4, <1>5, <2>3
    <3> QED
      BY <1>7, <2>3, <3>1 DEF ToSet
  <2>4. CASE i \notin DOMAIN s /\ j \notin DOMAIN s
    <3>1. i - Len(s) = j - Len(s)
      BY <1>4, <1>7, <2>4 DEF IsInjective
    <3> QED
      BY <1>1, <1>2, <3>1
  <2> QED
    BY <2>1, <2>2, <2>3, <2>4
<1>8. ASSUME IsInjective(r)
      PROVE  IsInjective(s) /\ IsInjective(t) /\ ToSet(s) \cap ToSet(t) = {}
  <2>1. IsInjective(s)
    BY <1>5, <1>8 DEF IsInjective
  <2>2. IsInjective(t)
    <3> SUFFICES ASSUME NEW i \in DOMAIN t, NEW j \in DOMAIN t, t[i] = t[j]
                 PROVE  i = j
      BY DEF IsInjective
    <3>1. Len(s) + i = Len(s) + j
      BY <1>5, <1>8 DEF IsInjective
    <3> QED
      BY <1>1, <1>2, <3>1
  <2>3. ASSUME NEW i \in DOMAIN s, NEW j \in DOMAIN t
        PROVE  s[i] # t[j]
    <3>1. i # Len(s) + j
      BY <1>1, <1>2
    <3> QED
      BY <1>5, <1>8, <3>1 DEF IsInjective
  <2> QED
    BY <2>1, <2>2, <2>3 DEF ToSet
<1> QED
  BY <1>1, <1>6, <1>7, <1>8 DEF r

\* A list cut in two.
LEMMA CutIs ==
  ASSUME NEW S, NEW s \in Seq(S), NEW k \in DOMAIN s
  PROVE  /\ SubSeq(s, 1, k) \in Seq(S) /\ SubSeq(s, k + 1, Len(s)) \in Seq(S)
         /\ s = SubSeq(s, 1, k) \o SubSeq(s, k + 1, Len(s))
         /\ ToSet(SubSeq(s, 1, k)) = {s[i] : i \in 1 .. k}
<1>1. Len(s) \in Nat /\ k \in 1 .. Len(s) /\ DOMAIN s = 1 .. Len(s)
  OBVIOUS
<1>2. SubSeq(s, 1, k) \in Seq(S) /\ SubSeq(s, k + 1, Len(s)) \in Seq(S)
  BY <1>1
<1>3. s = SubSeq(s, 1, k) \o SubSeq(s, k + 1, Len(s))
  <2>1. /\ 1 \in 1 .. Len(s) + 1 /\ k \in 1 - 1 .. Len(s) /\ Len(s) \in k .. Len(s)
    BY <1>1
  <2>2. SubSeq(s, 1, k) \o SubSeq(s, k + 1, Len(s)) = SubSeq(s, 1, Len(s))
    BY <2>1, ConcatAdjacentSubSeq
  <2> QED
    BY <2>2, SubSeqFull
<1>4. DOMAIN SubSeq(s, 1, k) = 1 .. k /\ \A i \in 1 .. k : SubSeq(s, 1, k)[i] = s[i]
  BY <1>1
<1> QED
  BY <1>2, <1>3, <1>4 DEF ToSet

LEMMA AppendIs ==
  ASSUME NEW S, NEW s \in Seq(S), NEW x \in S
  PROVE  /\ <<x>> \in Seq(S) /\ ToSet(<<x>>) = {x} /\ IsInjective(<<x>>)
         /\ Append(s, x) = s \o <<x>>
<1>1. DOMAIN <<x>> = {1} /\ <<x>>[1] = x
  OBVIOUS
<1> QED
  BY <1>1 DEF ToSet, IsInjective

\* The current chunk is in its list.
LEMMA LastIs ==
  ASSUME NEW S, NEW s \in Seq(S), s # <<>>
  PROVE  Last(s) \in ToSet(s) /\ Last(s) \in S
<1>1. Len(s) \in DOMAIN s
  OBVIOUS
<1> QED
  BY <1>1 DEF Last, ToSet

\* A request is rounded up to something.
LEMMA RoundupIs ==
  ASSUME NEW n \in Sizes
  PROVE  roundup(n) \in Nat \ {0}
<1> DEFINE m == n + Align - 1
           q == m \div Align
<1>1. n \in Nat /\ n > 0 /\ Align \in Nat /\ Align > 0 /\ m \in Nat /\ m >= Align
  BY ArenaAssumption
<1>2. q \in Nat
  BY <1>1
<1>3. m = Align * q + (m % Align) /\ (m % Align) < Align
  BY <1>1
<1>4. q # 0
  BY <1>1, <1>2, <1>3
<1>5. q * Align \in Nat \ {0}
  BY <1>1, <1>2, <1>4
<1> QED
  BY <1>5 DEF roundup

-----------------------------------------------------------------------------
(* Allocation.                                                             *)

\* A new object at the end of what its chunk holds.
LEMMA AddObject ==
  ASSUME NEW objects, NEW av \in [Blocks -> Nat], NEW lim, Sound(objects, av, lim),
         NEW b \in Blocks, NEW o \in Nat, NEW n \in Nat \ {0},
         \A x \in objects : x.block = b => x.off + x.len <= o,
         NEW av2, NEW lim2, av2[b] = o + n,
         \A x \in objects : x.block # b => av2[x.block] = av[x.block],
         \A c \in Blocks : av2[c] <= lim2[c]
  PROVE  Sound(objects \cup {[block |-> b, off |-> o, len |-> n]}, av2, lim2)
<1> DEFINE z == [block |-> b, off |-> o, len |-> n]
<1>1. z \in Object /\ z.block = b /\ z.off = o /\ z.len = n
  BY DEF Object
<1> HIDE DEF z
<1>2. ASSUME NEW x \in objects
      PROVE  x \in Object /\ x.off + x.len <= av2[x.block] /\ ~Overlap(x, z) /\ ~Overlap(z, x)
  <2>1. x \in Object /\ x.off + x.len <= av[x.block]
    BY DEF Sound
  <2>2. x.off \in Nat /\ x.len \in Nat /\ x.block \in Blocks
    BY <2>1 DEF Object
  <2>3. CASE x.block = b
    BY <1>1, <2>1, <2>2, <2>3 DEF Overlap
  <2>4. CASE x.block # b
    BY <1>1, <2>1, <2>2, <2>4 DEF Overlap
  <2> QED
    BY <2>3, <2>4
<1>3. \A x, y \in objects : x # y => ~Overlap(x, y)
  BY DEF Sound
<1>4. z.off + z.len <= av2[z.block]
  BY <1>1
<1>5. Sound(objects \cup {z}, av2, lim2)
  BY <1>1, <1>2, <1>3, <1>4 DEF Sound
<1> QED
  BY <1>5 DEF z

LEMMA InitIInv == Init => IInv
<1> SUFFICES ASSUME Init PROVE IInv
  OBVIOUS
<1>1. /\ used = <<>> /\ freeblocks = <<>> /\ perm = <<>> /\ live = {} /\ permanent = {}
      /\ avail = [b \in Blocks |-> 0] /\ limit = [b \in Blocks |-> 0]
  BY DEF Init
<1>2. \A s : s = <<>> => ToSet(s) = {} /\ IsInjective(s)
  BY DEF ToSet, IsInjective
<1>3. Shape
  BY <1>1 DEF Shape
<1>4. Sound(live \cup permanent, avail, limit)
  BY <1>1 DEF Sound
<1> QED
  BY <1>1, <1>2, <1>3, <1>4 DEF IInv, ListsApart, WhereObjectsLive

\* Facts every step starts from.
LEMMA Start ==
  ASSUME IInv
  PROVE  /\ used \in Seq(Blocks) /\ freeblocks \in Seq(Blocks) /\ perm \in Seq(Blocks)
         /\ avail \in [Blocks -> Nat] /\ limit \in [Blocks -> Nat]
         /\ Sound(live \cup permanent, avail, limit)
         /\ \A b \in Blocks : avail[b] <= limit[b]
         /\ \A x \in live \cup permanent : x \in Object /\ x.off + x.len <= avail[x.block]
         /\ \A x \in live : x.block \in ToSet(used)
         /\ \A x \in permanent : x.block \in ToSet(perm)
         /\ \A b \in ToSet(used) \cup ToSet(freeblocks) \cup ToSet(perm) : b \notin Fresh
         /\ ToSet(used) \cup ToSet(freeblocks) \cup ToSet(perm) \subseteq Blocks
<1>1. Shape /\ ListsApart /\ WhereObjectsLive /\ Sound(live \cup permanent, avail, limit)
  BY DEF IInv
<1>2. \A t \in Seq(Blocks) : ToSet(t) \subseteq Blocks
  BY DEF ToSet
<1> QED
  BY <1>1, <1>2 DEF Shape, ListsApart, WhereObjectsLive, Sound, Fresh

LEMMA InPlaceIInv ==
  ASSUME IInv, NEW n \in Nat \ {0}, AllocInPlace(n)
  PROVE  IInv'
<1> DEFINE b == Last(used)
           z == [block |-> b, off |-> avail[b], len |-> n]
<1>1. /\ used # <<>> /\ avail[b] + n <= limit[b]
      /\ avail' = [avail EXCEPT ![b] = @ + n] /\ live' = live \cup {z}
      /\ UNCHANGED <<used, freeblocks, perm, limit, permanent>>
  BY DEF AllocInPlace, Fits
<1>2. b \in ToSet(used) /\ b \in Blocks
  BY <1>1, Start, LastIs
<1> HIDE DEF b
<1>3. avail \in [Blocks -> Nat] /\ avail' \in [Blocks -> Nat] /\ avail'[b] = avail[b] + n
  BY <1>1, <1>2, Start
<1>4. Sound((live \cup permanent) \cup {z}, avail', limit')
  <2>1. \A c \in Blocks : avail'[c] <= limit'[c]
    BY <1>1, <1>2, <1>3, Start
  <2>2. \A x \in live \cup permanent : x.block \in Blocks /\ x.off + x.len <= avail[x.block]
    BY Start DEF Object
  <2>3. \A x \in live \cup permanent : x.block # b => avail'[x.block] = avail[x.block]
    BY <1>1, <1>3, <2>2
  <2>4. Sound(live \cup permanent, avail, limit)
    BY Start
  <2> QED
    BY <1>2, <1>3, <2>1, <2>2, <2>3, <2>4, AddObject
<1>5. live' \cup permanent' = (live \cup permanent) \cup {z} /\ z.block = b
  BY <1>1
<1> HIDE DEF z
<1>6. Shape'
  BY <1>1, <1>3 DEF IInv, Shape
<1>7. ListsApart' /\ WhereObjectsLive'
  BY <1>1, <1>2, <1>5 DEF IInv, ListsApart, WhereObjectsLive
<1>8. Sound(live \cup permanent, avail, limit)'
  BY <1>4, <1>5 DEF Sound
<1> QED
  BY <1>6, <1>7, <1>8 DEF IInv

LEMMA ReuseIInv ==
  ASSUME IInv, NEW n \in Nat \ {0}, AllocReuse(n)
  PROVE  IInv'
<1>1. PICK k \in LargeEnough(n) :
        /\ used' = used \o SubSeq(freeblocks, 1, k)
        /\ freeblocks' = SubSeq(freeblocks, k + 1, Len(freeblocks))
        /\ avail' = [b \in Blocks |->
                       IF b = freeblocks[k] THEN n
                       ELSE IF \E i \in 1 .. k : b = freeblocks[i] THEN 0
                       ELSE avail[b]]
        /\ live' = live \cup {[block |-> freeblocks[k], off |-> 0, len |-> n]}
        /\ UNCHANGED <<perm, limit, permanent>>
  BY DEF AllocReuse
<1> DEFINE b == freeblocks[k]
           z == [block |-> b, off |-> 0, len |-> n]
           front == SubSeq(freeblocks, 1, k)
           back == SubSeq(freeblocks, k + 1, Len(freeblocks))
<1>2. k \in DOMAIN freeblocks /\ n <= limit[b]
  BY DEF LargeEnough
<1>3. /\ front \in Seq(Blocks) /\ back \in Seq(Blocks) /\ freeblocks = front \o back
      /\ ToSet(front) = {freeblocks[i] : i \in 1 .. k}
  <2>1. freeblocks \in Seq(Blocks) /\ k \in DOMAIN freeblocks
    BY <1>2, Start
  <2>2. /\ SubSeq(freeblocks, 1, k) \in Seq(Blocks)
        /\ SubSeq(freeblocks, k + 1, Len(freeblocks)) \in Seq(Blocks)
        /\ freeblocks = SubSeq(freeblocks, 1, k) \o SubSeq(freeblocks, k + 1, Len(freeblocks))
    BY <2>1, CutIs, Zenon
  <2>3. ToSet(SubSeq(freeblocks, 1, k)) = {freeblocks[i] : i \in 1 .. k}
    BY <2>1, CutIs
  <2> QED
    BY <2>2, <2>3, Zenon
<1>4. b \in ToSet(front) /\ b \in ToSet(freeblocks) /\ b \in Blocks
  <2>1. k \in 1 .. k /\ freeblocks \in Seq(Blocks)
    BY <1>2, Start
  <2> QED
    BY <1>2, <1>3, <2>1 DEF ToSet
<1>5. /\ IsInjective(front) /\ IsInjective(back) /\ ToSet(front) \cap ToSet(back) = {}
      /\ ToSet(freeblocks) = ToSet(front) \cup ToSet(back)
  <2>1. IsInjective(freeblocks)
    BY DEF IInv, ListsApart
  <2>2. IsInjective(front \o back) /\ ToSet(freeblocks) = ToSet(front \o back)
    BY <1>3, <2>1
  <2> HIDE DEF front, back
  <2> QED
    BY <1>3, <2>2, ConcatIs
<1>6. /\ used' = used \o front /\ freeblocks' = back /\ live' = live \cup {z}
      /\ perm' = perm /\ limit' = limit /\ permanent' = permanent
      /\ avail' = [c \in Blocks |-> IF c = b THEN n ELSE IF c \in ToSet(front) THEN 0 ELSE avail[c]]
  BY <1>1, <1>3
<1> HIDE DEF front, back, b
<1>7. /\ used' \in Seq(Blocks) /\ freeblocks' \in Seq(Blocks)
      /\ ToSet(used') = ToSet(used) \cup ToSet(front)
      /\ ToSet(freeblocks') = ToSet(back)
      /\ IsInjective(used') /\ IsInjective(freeblocks')
  <2>1. used \in Seq(Blocks) /\ IsInjective(used) /\ ToSet(used) \cap ToSet(front) = {}
    BY <1>5, Start DEF IInv, ListsApart
  <2>2. /\ used \o front \in Seq(Blocks) /\ ToSet(used \o front) = ToSet(used) \cup ToSet(front)
        /\ IsInjective(used \o front)
    BY <1>3, <1>5, <2>1, ConcatIs, Zenon
  <2> QED
    BY <1>3, <1>5, <1>6, <2>2, Zenon
<1>8. avail' \in [Blocks -> Nat] /\ avail'[b] = n
  BY <1>4, <1>6, Start
<1>9. \A x \in live \cup permanent : x.block \in Blocks /\ x.block \notin ToSet(front)
  BY <1>5, Start DEF IInv, ListsApart, Object
<1>10. Sound((live \cup permanent) \cup {z}, avail', limit')
  <2>1. \A c \in Blocks : avail'[c] <= limit'[c]
    BY <1>2, <1>6, Start DEF b
  <2>2. \A x \in live \cup permanent : x.block # b /\ avail'[x.block] = avail[x.block]
    BY <1>4, <1>6, <1>9
  <2>3. Sound(live \cup permanent, avail, limit) /\ avail \in [Blocks -> Nat] /\ avail'[b] = 0 + n
    BY <1>8, Start
  <2> QED
    BY <1>4, <2>1, <2>2, <2>3, AddObject
<1>11. live' \cup permanent' = (live \cup permanent) \cup {z} /\ z.block = b
  BY <1>6
<1> HIDE DEF z
<1>12. Shape'
  BY <1>6, <1>7, <1>8 DEF IInv, Shape
<1>13. ListsApart'
  BY <1>5, <1>6, <1>7 DEF IInv, ListsApart
<1>14. WhereObjectsLive'
  BY <1>4, <1>6, <1>7, <1>11 DEF IInv, WhereObjectsLive
<1>15. Sound(live \cup permanent, avail, limit)'
  BY <1>10, <1>11 DEF Sound
<1> QED
  BY <1>12, <1>13, <1>14, <1>15 DEF IInv

LEMMA GrowIInv ==
  ASSUME IInv, NEW n \in Nat \ {0}, AllocGrow(n)
  PROVE  IInv'
<1>1. PICK new \in Fresh :
        /\ used' = used \o freeblocks \o <<new>>
        /\ freeblocks' = <<>>
        /\ avail' = [b \in Blocks |->
                       IF b = new THEN n ELSE IF b \in ToSet(freeblocks) THEN 0 ELSE avail[b]]
        /\ limit' = [limit EXCEPT ![new] = n + ChunkSize]
        /\ live' = live \cup {[block |-> new, off |-> 0, len |-> n]}
        /\ UNCHANGED <<perm, permanent>>
  BY DEF AllocGrow
<1> DEFINE z == [block |-> new, off |-> 0, len |-> n]
<1>2. /\ new \in Blocks /\ new \notin ToSet(used) \cup ToSet(freeblocks) \cup ToSet(perm)
  BY Start DEF Fresh
<1>3. /\ used' \in Seq(Blocks) /\ IsInjective(used')
      /\ ToSet(used') = ToSet(used) \cup ToSet(freeblocks) \cup {new}
  <2> DEFINE both == used \o freeblocks
  <2>1. both \in Seq(Blocks) /\ IsInjective(both) /\ ToSet(both) = ToSet(used) \cup ToSet(freeblocks)
    BY Start, ConcatIs DEF IInv, ListsApart
  <2>2. <<new>> \in Seq(Blocks) /\ IsInjective(<<new>>) /\ ToSet(<<new>>) = {new}
    <3>1. new \in Blocks /\ used \in Seq(Blocks)
      BY <1>2, Start
    <3> QED
      BY <3>1, AppendIs
  <2> HIDE DEF both
  <2>3. used' = both \o <<new>>
    BY <1>1 DEF both
  <2>4. ToSet(both) \cap ToSet(<<new>>) = {}
    BY <1>2, <2>1, <2>2
  <2>5. /\ both \o <<new>> \in Seq(Blocks) /\ IsInjective(both \o <<new>>)
        /\ ToSet(both \o <<new>>) = ToSet(both) \cup {new}
    BY <2>1, <2>2, <2>4, ConcatIs
  <2> QED
    BY <2>1, <2>3, <2>5
<1>4. /\ freeblocks' \in Seq(Blocks) /\ ToSet(freeblocks') = {} /\ IsInjective(freeblocks')
  BY <1>1 DEF ToSet, IsInjective
<1>5. /\ avail' \in [Blocks -> Nat] /\ limit' \in [Blocks -> Nat]
      /\ avail'[new] = n /\ limit'[new] = n + ChunkSize /\ limit'[new] # 0
      /\ \A c \in Blocks : c # new => limit'[c] = limit[c]
  BY <1>1, <1>2, Start, ArenaAssumption
<1>6. Sound((live \cup permanent) \cup {z}, avail', limit')
  <2>1. \A c \in Blocks : avail'[c] <= limit'[c]
    BY <1>1, <1>2, <1>5, Start, ArenaAssumption
  <2>2. \A x \in live \cup permanent : x.block # new /\ avail'[x.block] = avail[x.block]
    BY <1>1, <1>2, Start DEF IInv, ListsApart, Object
  <2>3. Sound(live \cup permanent, avail, limit) /\ avail \in [Blocks -> Nat] /\ avail'[new] = 0 + n
    BY <1>5, Start
  <2> QED
    BY <1>2, <2>1, <2>2, <2>3, AddObject
<1>7. live' \cup permanent' = (live \cup permanent) \cup {z} /\ z.block = new
  BY <1>1
<1>8. perm' = perm /\ permanent' = permanent /\ live' = live \cup {z}
  BY <1>1
<1> HIDE DEF z
<1>9. Shape'
  BY <1>3, <1>4, <1>5, <1>8 DEF IInv, Shape
<1>10. ListsApart'
  BY <1>2, <1>3, <1>4, <1>5, <1>8, Start DEF IInv, ListsApart
<1>11. WhereObjectsLive'
  BY <1>3, <1>7, <1>8 DEF IInv, WhereObjectsLive
<1>12. Sound(live \cup permanent, avail, limit)'
  BY <1>6, <1>7 DEF Sound
<1> QED
  BY <1>9, <1>10, <1>11, <1>12 DEF IInv

\* tc_adealloc joins the lists; nothing of the arena is alive after it.
LEMMA DeallocIInv ==
  ASSUME IInv, tc_adealloc
  PROVE  IInv'
<1>1. /\ freeblocks' = used \o freeblocks /\ used' = <<>> /\ live' = {}
      /\ UNCHANGED <<perm, avail, limit, permanent>>
  BY DEF tc_adealloc
<1>2. /\ freeblocks' \in Seq(Blocks) /\ IsInjective(freeblocks')
      /\ ToSet(freeblocks') = ToSet(used) \cup ToSet(freeblocks)
  BY <1>1, Start, ConcatIs DEF IInv, ListsApart
<1>3. used' \in Seq(Blocks) /\ ToSet(used') = {} /\ IsInjective(used')
  BY <1>1 DEF ToSet, IsInjective
<1>4. Shape' /\ ListsApart' /\ WhereObjectsLive'
  BY <1>1, <1>2, <1>3 DEF IInv, Shape, ListsApart, WhereObjectsLive
<1>5. Sound(live \cup permanent, avail, limit)'
  BY <1>1 DEF IInv, Sound
<1> QED
  BY <1>4, <1>5 DEF IInv

LEMMA PermInPlaceIInv ==
  ASSUME IInv, NEW n \in Nat \ {0}, PermInPlace(n)
  PROVE  IInv'
<1> DEFINE b == Last(perm)
           z == [block |-> b, off |-> avail[b], len |-> n]
<1>1. /\ perm # <<>> /\ avail[b] + n <= limit[b]
      /\ avail' = [avail EXCEPT ![b] = @ + n] /\ permanent' = permanent \cup {z}
      /\ UNCHANGED <<used, freeblocks, perm, limit, live>>
  BY DEF PermInPlace, Fits
<1>2. b \in ToSet(perm) /\ b \in Blocks
  BY <1>1, Start, LastIs
<1> HIDE DEF b
<1>3. avail \in [Blocks -> Nat] /\ avail' \in [Blocks -> Nat] /\ avail'[b] = avail[b] + n
  BY <1>1, <1>2, Start
<1>4. Sound((live \cup permanent) \cup {z}, avail', limit')
  <2>1. \A c \in Blocks : avail'[c] <= limit'[c]
    BY <1>1, <1>2, <1>3, Start
  <2>2. \A x \in live \cup permanent : x.block \in Blocks /\ x.off + x.len <= avail[x.block]
    BY Start DEF Object
  <2>3. \A x \in live \cup permanent : x.block # b => avail'[x.block] = avail[x.block]
    BY <1>1, <1>3, <2>2
  <2>4. Sound(live \cup permanent, avail, limit)
    BY Start
  <2> QED
    BY <1>2, <1>3, <2>1, <2>2, <2>3, <2>4, AddObject
<1>5. live' \cup permanent' = (live \cup permanent) \cup {z} /\ z.block = b
  BY <1>1
<1> HIDE DEF z
<1>6. Shape'
  BY <1>1, <1>3 DEF IInv, Shape
<1>7. ListsApart' /\ WhereObjectsLive'
  BY <1>1, <1>2, <1>5 DEF IInv, ListsApart, WhereObjectsLive
<1>8. Sound(live \cup permanent, avail, limit)'
  BY <1>4, <1>5 DEF Sound
<1> QED
  BY <1>6, <1>7, <1>8 DEF IInv

LEMMA PermGrowIInv ==
  ASSUME IInv, NEW n \in Nat \ {0}, PermGrow(n)
  PROVE  IInv'
<1>1. PICK new \in Fresh :
        /\ perm' = Append(perm, new)
        /\ avail' = [avail EXCEPT ![new] = n]
        /\ limit' = [limit EXCEPT ![new] = n + ChunkSize]
        /\ permanent' = permanent \cup {[block |-> new, off |-> 0, len |-> n]}
        /\ UNCHANGED <<used, freeblocks, live>>
  BY DEF PermGrow
<1> DEFINE z == [block |-> new, off |-> 0, len |-> n]
<1>2. /\ new \in Blocks /\ new \notin ToSet(used) \cup ToSet(freeblocks) \cup ToSet(perm)
  BY Start DEF Fresh
<1>3. perm' \in Seq(Blocks) /\ ToSet(perm') = ToSet(perm) \cup {new}
  <2>1. perm' = perm \o <<new>> /\ <<new>> \in Seq(Blocks) /\ ToSet(<<new>>) = {new}
    BY <1>1, <1>2, Start, AppendIs
  <2> QED
    BY <2>1, Start, ConcatIs
<1>4. /\ avail' \in [Blocks -> Nat] /\ limit' \in [Blocks -> Nat]
      /\ avail'[new] = n /\ limit'[new] = n + ChunkSize /\ limit'[new] # 0
      /\ \A c \in Blocks : c # new => limit'[c] = limit[c] /\ avail'[c] = avail[c]
  BY <1>1, <1>2, Start, ArenaAssumption
<1>5. Sound((live \cup permanent) \cup {z}, avail', limit')
  <2>1. ASSUME NEW c \in Blocks
        PROVE  avail'[c] <= limit'[c]
    <3>1. CASE c = new
      <4>1. n <= n + ChunkSize
        BY ArenaAssumption
      <4> QED
        BY <1>4, <3>1, <4>1
    <3>2. CASE c # new
      <4>1. avail[c] <= limit[c]
        BY Start
      <4> QED
        BY <1>4, <3>2, <4>1
    <3> QED
      BY <3>1, <3>2
  <2>2. \A x \in live \cup permanent : x.block # new /\ avail'[x.block] = avail[x.block]
    BY <1>2, <1>4, Start DEF Object
  <2>3. Sound(live \cup permanent, avail, limit) /\ avail \in [Blocks -> Nat] /\ avail'[new] = 0 + n
    BY <1>4, Start
  <2> QED
    BY <1>2, <2>1, <2>2, <2>3, AddObject
<1>6. live' \cup permanent' = (live \cup permanent) \cup {z} /\ z.block = new
  BY <1>1
<1>7. used' = used /\ freeblocks' = freeblocks /\ live' = live /\ permanent' = permanent \cup {z}
  BY <1>1
<1> HIDE DEF z
<1>8. Shape'
  BY <1>3, <1>4, <1>7 DEF IInv, Shape
<1>9. ListsApart'
  BY <1>2, <1>3, <1>4, <1>7, Start DEF IInv, ListsApart
<1>10. WhereObjectsLive'
  BY <1>3, <1>6, <1>7 DEF IInv, WhereObjectsLive
<1>11. Sound(live \cup permanent, avail, limit)'
  BY <1>5, <1>6 DEF Sound
<1> QED
  BY <1>8, <1>9, <1>10, <1>11 DEF IInv

\* Steps that leave the arenas alone.
LEMMA SameIInv ==
  ASSUME IInv, UNCHANGED <<used, freeblocks, perm, avail, limit, live, permanent>>
  PROVE  IInv'
  BY DEF IInv, Shape, ListsApart, WhereObjectsLive, Sound

-----------------------------------------------------------------------------
(* The theorems.                                                           *)

LEMMA StepIInv ==
  ASSUME IInv, [Next]_vars
  PROVE  IInv'
<1>1. CASE UNCHANGED vars
  BY <1>1, SameIInv DEF vars
<1>2. ASSUME NEW bytes \in Sizes, tc_aalloc(bytes)
      PROVE  IInv'
  <2> DEFINE n == roundup(bytes)
  <2>1. n \in Nat \ {0}
    BY RoundupIs
  <2>2. AllocInPlace(n) \/ AllocReuse(n) \/ AllocGrow(n) \/ AllocExit(n)
    BY <1>2 DEF tc_aalloc
  <2>3. CASE AllocExit(n)
    BY <2>3, SameIInv DEF AllocExit
  <2> HIDE DEF n
  <2> QED
    BY <2>1, <2>2, <2>3, InPlaceIInv, ReuseIInv, GrowIInv
<1>3. CASE tc_adealloc
  BY <1>3, DeallocIInv
<1>4. ASSUME NEW bytes \in Sizes, tc_palloc(bytes)
      PROVE  IInv'
  <2> DEFINE n == roundup(bytes)
  <2>1. n \in Nat \ {0}
    BY RoundupIs
  <2>2. PermInPlace(n) \/ PermGrow(n) \/ PermExit(n)
    BY <1>4 DEF tc_palloc
  <2>3. CASE PermExit(n)
    BY <2>3, SameIInv DEF PermExit
  <2> HIDE DEF n
  <2> QED
    BY <2>1, <2>2, <2>3, PermInPlaceIInv, PermGrowIInv
<1> QED
  BY <1>1, <1>2, <1>3, <1>4 DEF Next

\* Every chunk is on at most one list, nothing alive is in a free chunk, and what
\* is alive lies below its chunk's first unallocated byte, however often
\* tc_adealloc recycled the chunks (mem.c:31).
THEOREM ArenaInvariant == Spec => []IInv
<1>1. Init => IInv
  BY InitIInv
<1>2. IInv /\ [Next]_vars => IInv'
  BY StepIInv
<1> QED
  BY <1>1, <1>2, PTL DEF Spec

\* Two objects alive at once never share a byte and lie inside their chunks,
\* whichever arena they come from.
THEOREM ObjectsNeverOverlap == Spec => []AllocationsDisjoint
<1>1. IInv => AllocationsDisjoint
  <2> SUFFICES ASSUME IInv PROVE AllocationsDisjoint
    OBVIOUS
  <2>1. ASSUME NEW x \in live \cup permanent
        PROVE  x.off + x.len <= limit[x.block]
    <3>1. x \in Object /\ x.off + x.len <= avail[x.block] /\ avail[x.block] <= limit[x.block]
      BY Start DEF Object
    <3>2. x.off + x.len \in Nat /\ avail[x.block] \in Nat /\ limit[x.block] \in Nat
      BY <3>1, Start DEF Object
    <3> QED
      BY <3>1, <3>2
  <2> QED
    BY <2>1 DEF IInv, Sound, AllocationsDisjoint
<1> QED
  BY <1>1, ArenaInvariant, PTL

-----------------------------------------------------------------------------
(* Induction and loops.                                                    *)

\* A set of natural numbers that is not empty has a least element.
LEMMA LeastElement ==
  ASSUME NEW T \in SUBSET Nat, T # {}
  PROVE  \E n \in T : \A m \in T : n <= m
<1> DEFINE R == {p \in Nat \X Nat : p[1] < p[2]}
<1>1. IsWellFoundedOn(R, Nat)
  BY NatLessThanWellFounded DEF OpToRel
<1>2. ASSUME NEW x \in Nat, NEW y \in Nat, ~(<<y, x>> \in R)
      PROVE  x <= y
  BY <1>2
<1> HIDE DEF R
<1>3. PICK x \in T : \A y \in T : ~(<<y, x>> \in R)
  BY <1>1, WFMin, Zenon
<1>4. ASSUME NEW y \in T
      PROVE  x <= y
  <2>1. x \in Nat /\ y \in Nat /\ ~(<<y, x>> \in R)
    BY <1>3
  <2> QED
    BY <1>2, <2>1
<1> QED
  BY <1>4

\* Induction, for the set of the numbers that have the property.
LEMMA Induction ==
  ASSUME NEW S, 0 \in S, \A n \in Nat : n \in S => n + 1 \in S
  PROVE  \A n \in Nat : n \in S
<1> SUFFICES ASSUME NEW k \in Nat, k \notin S
             PROVE  FALSE
  OBVIOUS
<1> DEFINE T == {n \in Nat : n \notin S}
<1>1. PICK n \in T : \A m \in T : n <= m
  <2>1. T \in SUBSET Nat /\ T # {}
    OBVIOUS
  <2> HIDE DEF T
  <2> QED
    BY <2>1, LeastElement
<1>2. n # 0 /\ n - 1 \in Nat /\ n - 1 \notin T
  BY <1>1
<1> QED
  BY <1>2

\* The values of a loop after each of N rounds; S[n] is what is known after n.
Loop(f, N, base, step, S) ==
  /\ f = [n \in 0 .. N |-> f[n]]
  /\ f[0] = base
  /\ \A n \in 1 .. N : f[n] = step[n][f[n - 1]]
  /\ \A n \in 0 .. N : f[n] \in S[n]

\* A loop whose body keeps an invariant has values for every round.
LEMMA Iterates ==
  ASSUME NEW N \in Nat, NEW S, NEW base \in S[0], NEW step,
         \A n \in 1 .. N : \A s \in S[n - 1] : step[n][s] \in S[n]
  PROVE  \E f : Loop(f, N, base, step, S)
<1> USE DEF Loop
<1> DEFINE Good(f, m) == Loop(f, m, base, step, S)
           Has == {m \in Nat : m <= N => \E f : Good(f, m)}
<1>1. 0 \in Has
  <2> DEFINE f == [n \in 0 .. 0 |-> base]
  <2>1. f[0] = base /\ f = [n \in 0 .. 0 |-> f[n]]
    OBVIOUS
  <2> HIDE DEF f
  <2>2. Good(f, 0)
    BY <2>1
  <2> QED
    BY <2>2
<1>2. ASSUME NEW m \in Nat, m \in Has
      PROVE  m + 1 \in Has
  <2> SUFFICES ASSUME m + 1 <= N
               PROVE  \E f : Good(f, m + 1)
    OBVIOUS
  <2>1. PICK f : Good(f, m)
    BY <1>2
  <2> DEFINE g == [n \in 0 .. m + 1 |-> IF n = m + 1 THEN step[m + 1][f[m]] ELSE f[n]]
  <2>2. /\ g = [n \in 0 .. m + 1 |-> g[n]]
        /\ \A n \in 0 .. m : g[n] = f[n]
        /\ g[m + 1] = step[m + 1][f[m]]
    OBVIOUS
  <2> HIDE DEF g
  <2>3. g[m + 1] \in S[m + 1]
    <3>1. m + 1 \in 1 .. N /\ (m + 1) - 1 = m /\ f[m] \in S[m]
      BY <2>1
    <3> QED
      BY <2>2, <3>1
  <2>4. ASSUME NEW n \in 1 .. m + 1
        PROVE  g[n] = step[n][g[n - 1]]
    <3>1. n - 1 \in 0 .. m /\ (n # m + 1 => n \in 1 .. m /\ n \in 0 .. m)
      OBVIOUS
    <3>2. g[n - 1] = f[n - 1] /\ (n # m + 1 => g[n] = f[n])
      BY <2>2, <3>1, Zenon
    <3>3. CASE n = m + 1
      <4>1. n - 1 = m /\ m \in 0 .. m
        BY <3>3
      <4> QED
        BY <2>2, <3>3, <4>1
    <3>4. CASE n # m + 1
      <4>1. f[n] = step[n][f[n - 1]]
        BY <2>1, <3>1, <3>4
      <4> QED
        BY <3>2, <3>4, <4>1
    <3> QED
      BY <3>3, <3>4
  <2>5. ASSUME NEW n \in 0 .. m + 1
        PROVE  g[n] \in S[n]
    <3>1. CASE n = m + 1
      BY <2>3, <3>1
    <3>2. CASE n # m + 1
      <4>1. n \in 0 .. m
        BY <3>2
      <4>2. g[n] = f[n]
        BY <2>2, <4>1, Zenon
      <4>3. f[n] \in S[n]
        BY <2>1, <4>1
      <4> QED
        BY <4>2, <4>3, Zenon
    <3> QED
      BY <3>1, <3>2
  <2>6. g[0] = base
    <3>1. 0 \in 0 .. m
      OBVIOUS
    <3> QED
      BY <2>1, <2>2, <3>1, Zenon
  <2>7. Good(g, m + 1)
    BY <2>2, <2>4, <2>5, <2>6
  <2> QED
    BY <2>7
<1> HIDE DEF Has
<1>3. N \in Has
  BY <1>1, <1>2, Induction
<1> QED
  BY <1>3 DEF Has

\* The invariant of a loop holds after every round.
LEMMA LoopInvariant ==
  ASSUME NEW N \in Nat, NEW S, NEW f, f[0] \in S[0],
         \A n \in 1 .. N : f[n - 1] \in S[n - 1] => f[n] \in S[n]
  PROVE  \A n \in 0 .. N : f[n] \in S[n]
<1> DEFINE Holds == {n \in Nat : n <= N => f[n] \in S[n]}
<1>1. 0 \in Holds
  OBVIOUS
<1>2. ASSUME NEW n \in Nat, n \in Holds
      PROVE  n + 1 \in Holds
  <2> SUFFICES ASSUME n + 1 <= N
               PROVE  f[n + 1] \in S[n + 1]
    OBVIOUS
  <2>1. n + 1 \in 1 .. N /\ (n + 1) - 1 = n /\ f[n] \in S[n]
    BY <1>2
  <2> QED
    BY <2>1
<1> HIDE DEF Holds
<1>3. \A n \in Nat : n \in Holds
  BY <1>1, <1>2, Induction
<1> QED
  BY <1>3 DEF Holds

-----------------------------------------------------------------------------
(* Bits and their places in words.                                         *)

\* Division with remainder.
LEMMA DivMod ==
  ASSUME NEW a \in Nat, NEW b \in Nat \ {0}
  PROVE  a \div b \in Nat /\ (a % b) \in 0 .. b - 1 /\ a = b * (a \div b) + (a % b)
OBVIOUS

\* Quotient and remainder are determined.
LEMMA DivUnique ==
  ASSUME NEW b \in Nat \ {0}, NEW q \in Int, NEW r \in 0 .. b - 1
  PROVE  (b * q + r) \div b = q /\ (b * q + r) % b = r
OBVIOUS

LEMMA TimesMonotone ==
  ASSUME NEW b \in Nat \ {0}, NEW p \in Int, NEW q \in Int, p < q
  PROVE  b * p + b <= b * q
OBVIOUS

\* A bit has its place, and the place determines it.
LEMMA PlaceOfBit ==
  ASSUME NEW i \in Nat
  PROVE  WordOf(i) \in Nat \ {0} /\ BitOf(i) \in WordBits /\ i = Word * (WordOf(i) - 1) + BitOf(i)
<1>1. Word \in Nat \ {0}
  BY BitVecAssumption
<1>2. i \div Word \in Nat /\ (i % Word) \in 0 .. Word - 1 /\ i = Word * (i \div Word) + (i % Word)
  BY <1>1, DivMod
<1>3. ((i \div Word) + 1) - 1 = i \div Word
  BY <1>2
<1> QED
  BY <1>2, <1>3 DEF WordOf, BitOf, WordBits

LEMMA BitOfPlace ==
  ASSUME NEW s \in Nat \ {0}, NEW b \in WordBits
  PROVE  LET i == (s - 1) * Word + b IN i \in Nat /\ WordOf(i) = s /\ BitOf(i) = b
<1> DEFINE i == (s - 1) * Word + b
<1>1. Word \in Nat \ {0} /\ s - 1 \in Nat /\ b \in 0 .. Word - 1
  BY BitVecAssumption DEF WordBits
<1>2. i = Word * (s - 1) + b /\ i \in Nat
  BY <1>1
<1>3. (Word * (s - 1) + b) \div Word = s - 1 /\ (Word * (s - 1) + b) % Word = b
  <2>1. s - 1 \in Int
    BY <1>1
  <2> QED
    BY <1>1, <2>1, DivUnique, Zenon
<1> HIDE DEF i
<1>4. i \div Word = s - 1 /\ i % Word = b
  BY <1>2, <1>3, Zenon
<1>5. (s - 1) + 1 = s
  OBVIOUS
<1> QED
  BY <1>2, <1>4, <1>5 DEF WordOf, BitOf, i

\* The words of a vector: l bits fill all but the last, and not more than it.
LEMMA WordCount ==
  ASSUME NEW l \in Nat \ {0}
  PROVE  /\ bv_nwords(l) \in Nat \ {0}
         /\ l <= Word * bv_nwords(l) /\ Word * bv_nwords(l) < l + Word
         /\ l % Word = 0 => l = Word * bv_nwords(l) /\ bv_nwords(l) = l \div Word
         /\ l % Word # 0 => l = Word * (bv_nwords(l) - 1) + (l % Word)
         /\ (l % Word) \in 0 .. Word - 1
<1> DEFINE n == bv_nwords(l)
           m == l + Word - 1
<1>1. Word \in Nat \ {0} /\ m \in Nat
  BY BitVecAssumption
<1>2. n \in Nat /\ m = Word * n + (m % Word) /\ (m % Word) \in 0 .. Word - 1
  BY <1>1, DivMod DEF bv_nwords
<1>3. l \div Word \in Nat /\ (l % Word) \in 0 .. Word - 1 /\ l = Word * (l \div Word) + (l % Word)
  BY <1>1, DivMod
<1> HIDE DEF n
<1>4. n # 0
  BY <1>1, <1>2
<1>5. l <= Word * n /\ Word * n < l + Word
  <2>1. Word * n \in Nat
    BY <1>1, <1>2
  <2> QED
    BY <1>1, <1>2, <2>1
<1>6. ASSUME l % Word = 0
      PROVE  n = l \div Word
  <2>1. m = Word * (l \div Word) + (Word - 1) /\ l \div Word \in Int /\ Word - 1 \in 0 .. Word - 1
    BY <1>1, <1>3, <1>6
  <2> HIDE DEF m
  <2>2. m \div Word = l \div Word
    BY <1>1, <2>1, DivUnique
  <2> QED
    BY <2>2 DEF n, m, bv_nwords
<1>7. ASSUME l % Word # 0
      PROVE  n = (l \div Word) + 1
  <2> DEFINE q == (l \div Word) + 1
             r == (l % Word) - 1
  <2>1. m = Word * q + r /\ q \in Int /\ r \in 0 .. Word - 1
    BY <1>1, <1>3, <1>7
  <2> HIDE DEF m, q, r
  <2>2. m \div Word = q
    BY <1>1, <2>1, DivUnique
  <2> QED
    BY <2>2 DEF n, m, q, bv_nwords
<1>8. l % Word = 0 => l = Word * n
  BY <1>1, <1>3, <1>6
<1>9. l % Word # 0 => l = Word * (n - 1) + (l % Word)
  <2>1. ((l \div Word) + 1) - 1 = l \div Word
    BY <1>3
  <2> QED
    BY <1>3, <1>7, <2>1
<1> QED
  BY <1>2, <1>3, <1>4, <1>5, <1>6, <1>8, <1>9 DEF n

\* The bits of a vector are in its words, and in the last before its end.
LEMMA BitWithin ==
  ASSUME NEW l \in Nat \ {0}, NEW i \in Nat
  PROVE  i < l <=> /\ WordOf(i) \in 1 .. bv_nwords(l)
                   /\ WordOf(i) = bv_nwords(l) /\ l % Word # 0 => BitOf(i) < l % Word
<1> DEFINE n == bv_nwords(l)
           s == WordOf(i)
           b == BitOf(i)
           r == l % Word
<1>1. Word \in Nat \ {0}
  BY BitVecAssumption
<1>2. s \in Nat \ {0} /\ b \in 0 .. Word - 1 /\ i = Word * (s - 1) + b
  BY PlaceOfBit DEF WordBits
<1>3. n \in Nat \ {0} /\ (r = 0 => l = Word * n) /\ (r # 0 => l = Word * (n - 1) + r) /\ r \in 0 .. Word - 1
  BY WordCount
<1> HIDE DEF n, s, b, r
<1>4. CASE s < n
  <2>1. Word * (s - 1) + Word <= Word * (n - 1) /\ Word * (s - 1) + Word <= Word * n
    BY <1>1, <1>2, <1>3, <1>4, TimesMonotone
  <2>2. i < l
    <3>1. Word * (s - 1) \in Int /\ Word * (n - 1) \in Int /\ Word * n \in Int
      BY <1>1, <1>2, <1>3
    <3> QED
      BY <1>1, <1>2, <1>3, <2>1, <3>1
  <2> QED
    BY <1>2, <1>3, <1>4, <2>2 DEF n, s, b, r
<1>5. CASE s = n
  <2>1. Word * n = Word * (n - 1) + Word /\ Word * (n - 1) \in Int
    BY <1>1, <1>3
  <2>2. i < l <=> (r # 0 => b < r)
    BY <1>1, <1>2, <1>3, <1>5, <2>1
  <2> QED
    BY <1>2, <1>3, <1>5, <2>2 DEF n, s, b, r
<1>6. CASE s > n
  <2>1. Word * n <= Word * (s - 1)
    <3>1. n = s - 1 \/ n < s - 1
      BY <1>2, <1>3, <1>6
    <3> QED
      BY <1>1, <1>2, <1>3, <3>1, TimesMonotone
  <2>2. Word * (n - 1) + Word = Word * n
    BY <1>1, <1>3
  <2>3. Word * (s - 1) \in Int /\ Word * (n - 1) \in Int /\ Word * n \in Int
    BY <1>1, <1>2, <1>3
  <2>4. ~(i < l)
    BY <1>1, <1>2, <1>3, <2>1, <2>2, <2>3
  <2> QED
    BY <1>2, <1>3, <1>6, <2>4 DEF n, s, b, r
<1> QED
  BY <1>2, <1>3, <1>4, <1>5, <1>6

\* A vector of l bits, and all vectors.
Vector(l) == [len : {l}, word : [1 .. bv_nwords(l) -> SUBSET WordBits]]
Vectors == UNION {Vector(l) : l \in Nat \ {0}}

\* No one stands behind the end of v.
Clean(v) == \A s \in DOMAIN v.word : \A b \in v.word[s] : (s - 1) * Word + b < v.len

Alive(v, l) == v \in Vectors /\ v.len = l

LEMMA VectorIs ==
  ASSUME NEW v \in Vectors
  PROVE  /\ v.len \in Nat \ {0} /\ bv_nwords(v.len) \in Nat \ {0}
         /\ v = [len |-> v.len, word |-> v.word]
         /\ v.word \in [1 .. bv_nwords(v.len) -> SUBSET WordBits]
         /\ DOMAIN v.word = 1 .. bv_nwords(v.len)
<1>1. PICK l \in Nat \ {0} : v \in Vector(l)
  BY DEF Vectors
<1>2. v.len = l /\ v.word \in [1 .. bv_nwords(l) -> SUBSET WordBits] /\ v = [len |-> v.len, word |-> v.word]
  BY <1>1 DEF Vector
<1> QED
  BY <1>2, WordCount

LEMMA MakesVector ==
  ASSUME NEW l \in Nat \ {0}, NEW w \in [1 .. bv_nwords(l) -> SUBSET WordBits]
  PROVE  [len |-> l, word |-> w] \in Vectors
<1>1. [len |-> l, word |-> w] \in Vector(l)
  BY DEF Vector
<1> QED
  BY <1>1 DEF Vectors

\* A name that stands for no vector is none.
LEMMA NoVectorIsNone == NoVector \notin Vectors
<1> SUFFICES ASSUME NoVector \in Vectors
             PROVE  FALSE
  OBVIOUS
<1> DEFINE n == bv_nwords(NoVector.len)
<1>1. /\ NoVector = [len |-> NoVector.len, word |-> NoVector.word]
      /\ NoVector.len \in Nat /\ n \in Nat /\ NoVector.word \in [1 .. n -> SUBSET WordBits]
  BY VectorIs
<1>2. WordBits \subseteq Nat
  BY BitVecAssumption DEF WordBits
<1> HIDE DEF n
<1>3. NoVector.word \in [1 .. n -> SUBSET Nat]
  BY <1>1, <1>2
<1>4. NoVector.word \in Seq(SUBSET Nat)
  BY <1>1, <1>3
<1> QED
  BY <1>1, <1>4, BitVecAssumption

\* The word of a bit is one of the vector's, and a place in a vector is a bit.
LEMMA WordIn ==
  ASSUME NEW v \in Vectors, NEW i \in Nat, i < v.len
  PROVE  WordOf(i) \in DOMAIN v.word /\ BitOf(i) \in WordBits
BY VectorIs, BitWithin, PlaceOfBit

LEMMA PlaceIn ==
  ASSUME NEW v \in Vectors, NEW s \in DOMAIN v.word, NEW b \in v.word[s]
  PROVE  LET i == (s - 1) * Word + b
         IN  i \in Nat /\ WordOf(i) = s /\ BitOf(i) = b /\ (i < v.len <=> i \in Bits(v))
<1>1. s \in Nat \ {0} /\ b \in WordBits
  BY VectorIs
<1> DEFINE i == (s - 1) * Word + b
<1>2. i \in Nat /\ WordOf(i) = s /\ BitOf(i) = b
  BY <1>1, BitOfPlace
<1>3. v.len \in Nat
  BY VectorIs
<1> HIDE DEF i
<1>4. i < v.len <=> i \in Bits(v)
  BY <1>2, <1>3 DEF Bits
<1> QED
  BY <1>2, <1>4 DEF i

\* Bits of the same place are the same.
LEMMA SamePlace ==
  ASSUME NEW i \in Nat, NEW j \in Nat, WordOf(i) = WordOf(j), BitOf(i) = BitOf(j)
  PROVE  i = j
<1>1. i = Word * (WordOf(i) - 1) + BitOf(i) /\ j = Word * (WordOf(j) - 1) + BitOf(j)
  BY PlaceOfBit
<1> QED
  BY <1>1

\* A bit of the last word lies before the end when the end says so.
LEMMA CleanMeans ==
  ASSUME NEW v \in Vectors
  PROVE  Clean(v) <=> \A s \in DOMAIN v.word : \A b \in v.word[s] :
                        s = bv_nwords(v.len) /\ v.len % Word # 0 => b < v.len % Word
<1> DEFINE l == v.len
           n == bv_nwords(l)
<1>1. ASSUME NEW s \in DOMAIN v.word, NEW b \in v.word[s]
      PROVE  (s - 1) * Word + b < l <=> (s = n /\ l % Word # 0 => b < l % Word)
  <2> DEFINE i == (s - 1) * Word + b
  <2>1. i \in Nat /\ WordOf(i) = s /\ BitOf(i) = b
    BY PlaceIn
  <2>2. l \in Nat \ {0} /\ s \in 1 .. n
    BY VectorIs
  <2> HIDE DEF i, l, n
  <2>3. i < l <=> /\ s \in 1 .. bv_nwords(l)
                  /\ s = bv_nwords(l) /\ l % Word # 0 => b < l % Word
    BY <2>1, <2>2, BitWithin
  <2> QED
    BY <2>2, <2>3 DEF i, n
<1> QED
  BY <1>1 DEF Clean

\* Clobber takes out the ones behind the end and nothing else.
LEMMA ClobberCleans ==
  ASSUME NEW v \in Vectors
  PROVE  /\ Alive(Clobber(v), v.len) /\ Clean(Clobber(v))
         /\ Bits(Clobber(v)) = Bits(v)
<1> DEFINE l == v.len
           n == bv_nwords(l)
           r == l % Word
           w == [v.word EXCEPT ![n] = @ \cap (0 .. r - 1)]
<1>1. /\ l \in Nat \ {0} /\ n \in Nat \ {0} /\ v = [len |-> l, word |-> v.word]
      /\ v.word \in [1 .. n -> SUBSET WordBits] /\ DOMAIN v.word = 1 .. n
  BY VectorIs
<1>2. r \in 0 .. Word - 1 /\ Word \in Nat \ {0}
  BY <1>1, WordCount, BitVecAssumption
<1>3. CASE r = 0
  <2>1. Clobber(v) = v
    BY <1>3 DEF Clobber
  <2> QED
    BY <1>3, <2>1, CleanMeans DEF Alive
<1>4. CASE r # 0
  <2>1. Clobber(v) = [v EXCEPT !.word = w]
    BY <1>1, <1>4 DEF Clobber
  <2> HIDE DEF w
  <2>2. Clobber(v) = [len |-> l, word |-> w]
    BY <1>1, <2>1
  <2>3. /\ w \in [1 .. n -> SUBSET WordBits]
        /\ w[n] = v.word[n] \cap (0 .. r - 1) /\ \A s \in 1 .. n : s # n => w[s] = v.word[s]
    BY <1>1 DEF w
  <2>4. Clobber(v) \in Vectors
    BY <1>1, <2>2, <2>3, MakesVector
  <2>5. Clean(Clobber(v))
    <3>1. \A s \in 1 .. n : \A b \in w[s] : s = n => b < r
      BY <1>1, <1>2, <2>3
    <3> QED
      BY <2>2, <2>3, <2>4, <3>1, CleanMeans
  <2>6. ASSUME NEW i \in 0 .. l - 1
        PROVE  BitOf(i) \in w[WordOf(i)] <=> BitOf(i) \in v.word[WordOf(i)]
    <3>1. i \in Nat /\ i < l
      BY <1>1
    <3>2. WordOf(i) \in 1 .. n /\ (WordOf(i) = n => BitOf(i) < r) /\ BitOf(i) \in WordBits
      BY <1>1, <1>4, <3>1, BitWithin, PlaceOfBit
    <3>3. WordOf(i) = n => BitOf(i) \in 0 .. r - 1
      BY <1>2, <3>2 DEF WordBits
    <3> QED
      BY <2>3, <3>2, <3>3
  <2>7. Bits(Clobber(v)) = Bits(v)
    BY <2>2, <2>6 DEF Bits
  <2> QED
    BY <2>2, <2>4, <2>5, <2>7 DEF Alive
<1> QED
  BY <1>3, <1>4

-----------------------------------------------------------------------------
(* What each operation leaves.                                             *)

\* Other words for a vector.
LEMMA OtherWords ==
  ASSUME NEW v \in Vectors, NEW w \in [DOMAIN v.word -> SUBSET WordBits]
  PROVE  /\ Alive([v EXCEPT !.word = w], v.len)
         /\ [v EXCEPT !.word = w].word = w
<1>1. /\ v.len \in Nat \ {0} /\ v = [len |-> v.len, word |-> v.word]
      /\ DOMAIN v.word = 1 .. bv_nwords(v.len)
  BY VectorIs
<1>2. [v EXCEPT !.word = w] = [len |-> v.len, word |-> w]
  BY <1>1
<1> QED
  BY <1>1, <1>2, MakesVector DEF Alive

LEMMA SetpIs ==
  ASSUME NEW v \in Vectors, NEW i \in Nat
  PROVE  bv_setp(v, i) <=> i \in Bits(v)
BY VectorIs DEF bv_setp, InBounds, Bits

LEMMA SetIs ==
  ASSUME NEW v \in Vectors, NEW i \in Nat
  PROVE  /\ Alive(bv_set(v, i), v.len)
         /\ Bits(bv_set(v, i)) = Bits(v) \cup ({i} \cap 0 .. v.len - 1)
         /\ Clean(v) => Clean(bv_set(v, i))
<1>0. v.len \in Nat \ {0} /\ v.word \in [DOMAIN v.word -> SUBSET WordBits]
  BY VectorIs
<1>1. CASE ~(i < v.len)
  BY <1>0, <1>1 DEF bv_set, InBounds, Alive
<1>2. CASE i < v.len
  <2> DEFINE s == WordOf(i)
             b == BitOf(i)
             w == [v.word EXCEPT ![s] = @ \cup {b}]
             u == bv_set(v, i)
  <2>1. u = [v EXCEPT !.word = w]
    BY <1>2 DEF bv_set, InBounds
  <2>2. s \in DOMAIN v.word /\ b \in WordBits
    BY <1>2, WordIn
  <2>3. /\ w \in [DOMAIN v.word -> SUBSET WordBits]
        /\ w[s] = v.word[s] \cup {b} /\ \A t \in DOMAIN v.word : t # s => w[t] = v.word[t]
    BY <1>0, <2>2
  <2> HIDE DEF w
  <2>4. Alive(u, v.len) /\ u.word = w
    BY <2>1, <2>3, OtherWords
  <2>5. ASSUME NEW j \in 0 .. v.len - 1
        PROVE  BitOf(j) \in w[WordOf(j)] <=> BitOf(j) \in v.word[WordOf(j)] \/ j = i
    <3>1. j \in Nat /\ j < v.len
      BY <1>0
    <3>2. WordOf(j) \in DOMAIN v.word
      BY <3>1, WordIn
    <3>3. WordOf(j) = s /\ BitOf(j) = b => j = i
      BY <3>1, SamePlace
    <3> QED
      BY <2>3, <3>2, <3>3
  <2>6. Bits(u) = Bits(v) \cup {i}
    <3>1. i \in 0 .. v.len - 1
      BY <1>0, <1>2
    <3> HIDE DEF u
    <3> QED
      BY <2>4, <2>5, <3>1 DEF Bits, Alive
  <2>7. ASSUME Clean(v)
        PROVE  Clean(u)
    <3> SUFFICES ASSUME NEW t \in DOMAIN v.word, NEW c \in w[t]
                 PROVE  (t - 1) * Word + c < v.len
      <4> HIDE DEF u
      <4> QED
        BY <2>3, <2>4 DEF Clean, Alive
    <3>1. CASE c \in v.word[t]
      BY <2>7, <3>1 DEF Clean
    <3>2. CASE c \notin v.word[t]
      <4>1. t = s /\ c = b
        BY <2>3, <3>2
      <4>2. Word * (s - 1) = (s - 1) * Word /\ i = Word * (s - 1) + b
        BY PlaceOfBit, BitVecAssumption
      <4> QED
        BY <1>2, <4>1, <4>2
    <3> QED
      BY <3>1, <3>2
  <2>8. {i} \cap 0 .. v.len - 1 = {i}
    BY <1>0, <1>2
  <2> QED
    BY <2>4, <2>6, <2>7, <2>8
<1> QED
  BY <1>1, <1>2

LEMMA UnsetIs ==
  ASSUME NEW v \in Vectors, NEW i \in Nat
  PROVE  /\ Alive(bv_unset(v, i), v.len)
         /\ Bits(bv_unset(v, i)) = Bits(v) \ {i}
         /\ Clean(v) => Clean(bv_unset(v, i))
<1>0. v.len \in Nat \ {0} /\ v.word \in [DOMAIN v.word -> SUBSET WordBits]
  BY VectorIs
<1>1. CASE ~(i < v.len)
  BY <1>0, <1>1 DEF bv_unset, InBounds, Alive, Bits
<1>2. CASE i < v.len
  <2> DEFINE s == WordOf(i)
             b == BitOf(i)
             w == [v.word EXCEPT ![s] = @ \ {b}]
             u == bv_unset(v, i)
  <2>1. u = [v EXCEPT !.word = w]
    BY <1>2 DEF bv_unset, InBounds
  <2>2. s \in DOMAIN v.word /\ b \in WordBits
    BY <1>2, WordIn
  <2>3. /\ w \in [DOMAIN v.word -> SUBSET WordBits]
        /\ w[s] = v.word[s] \ {b} /\ \A t \in DOMAIN v.word : t # s => w[t] = v.word[t]
    BY <1>0, <2>2
  <2> HIDE DEF w
  <2>4. Alive(u, v.len) /\ u.word = w
    BY <2>1, <2>3, OtherWords
  <2>5. ASSUME NEW j \in 0 .. v.len - 1
        PROVE  BitOf(j) \in w[WordOf(j)] <=> BitOf(j) \in v.word[WordOf(j)] /\ j # i
    <3>1. j \in Nat /\ j < v.len
      BY <1>0
    <3>2. WordOf(j) \in DOMAIN v.word
      BY <3>1, WordIn
    <3>3. WordOf(j) = s /\ BitOf(j) = b => j = i
      BY <3>1, SamePlace
    <3> QED
      BY <2>3, <3>2, <3>3
  <2> HIDE DEF u
  <2>6. Bits(u) = Bits(v) \ {i}
    BY <2>4, <2>5 DEF Bits, Alive
  <2>7. Clean(v) => Clean(u)
    BY <2>3, <2>4 DEF Clean, Alive
  <2> QED
    BY <2>4, <2>6, <2>7 DEF u
<1> QED
  BY <1>1, <1>2

LEMMA CSetIs ==
  ASSUME NEW v \in Vectors, NEW u \in Vectors, NEW i \in Nat
  PROVE  /\ Alive(bv_cset(v, u, i), v.len)
         /\ v.len = u.len => Bits(bv_cset(v, u, i)) = Bits(v) \cup (({i} \cap 0 .. v.len - 1) \ Bits(u))
         /\ Clean(v) => Clean(bv_cset(v, u, i))
<1>0. v.len \in Nat \ {0} /\ u.len \in Nat \ {0}
  BY VectorIs
<1>1. bv_setp(u, i) <=> i \in Bits(u)
  BY SetpIs
<1>2. CASE InBounds(v, i) /\ InBounds(u, i) /\ i \notin Bits(u)
  <2>1. bv_cset(v, u, i) = bv_set(v, i)
    BY <1>1, <1>2 DEF bv_cset
  <2>2. ({i} \cap 0 .. v.len - 1) \ Bits(u) = {i} \cap 0 .. v.len - 1
    BY <1>2
  <2> QED
    BY <2>1, <2>2, SetIs
<1>3. CASE ~(InBounds(v, i) /\ InBounds(u, i) /\ i \notin Bits(u))
  <2>1. bv_cset(v, u, i) = v
    BY <1>1, <1>3 DEF bv_cset
  <2>2. v.len = u.len => ({i} \cap 0 .. v.len - 1) \ Bits(u) = {}
    BY <1>0, <1>3 DEF InBounds
  <2> QED
    BY <2>1, <2>2 DEF Alive
<1> QED
  BY <1>2, <1>3

LEMMA ClearIs ==
  ASSUME NEW v \in Vectors
  PROVE  /\ Alive(bv_clear(v), v.len) /\ Clean(bv_clear(v))
         /\ Bits(bv_clear(v)) = {}
<1> DEFINE w == [s \in DOMAIN v.word |-> {}]
<1>1. bv_clear(v) = [v EXCEPT !.word = w]
  BY DEF bv_clear, Wordwise
<1>2. w \in [DOMAIN v.word -> SUBSET WordBits] /\ \A s \in DOMAIN v.word : w[s] = {}
  OBVIOUS
<1> HIDE DEF w
<1>3. Alive(bv_clear(v), v.len) /\ bv_clear(v).word = w
  BY <1>1, <1>2, OtherWords
<1>4. \A i \in 0 .. v.len - 1 : BitOf(i) \notin w[WordOf(i)]
  BY <1>2, VectorIs, WordIn
<1> QED
  BY <1>2, <1>3, <1>4 DEF Clean, Alive, Bits

LEMMA FillIs ==
  ASSUME NEW v \in Vectors
  PROVE  /\ Alive(bv_fill(v), v.len) /\ Clean(bv_fill(v))
         /\ Bits(bv_fill(v)) = 0 .. v.len - 1
<1> DEFINE w == [s \in DOMAIN v.word |-> WordBits]
           u == [v EXCEPT !.word = w]
<1>1. bv_fill(v) = Clobber(u)
  BY DEF bv_fill, Wordwise
<1>2. w \in [DOMAIN v.word -> SUBSET WordBits] /\ \A s \in DOMAIN v.word : w[s] = WordBits
  OBVIOUS
<1> HIDE DEF w
<1>3. ASSUME NEW i \in 0 .. v.len - 1
      PROVE  BitOf(i) \in w[WordOf(i)] <=> i \in 0 .. v.len - 1
  <2>1. i \in Nat /\ i < v.len
    BY VectorIs
  <2> QED
    BY <1>2, <2>1, WordIn
<1> HIDE DEF u
<1>4. Alive(u, v.len) /\ Bits(u) = 0 .. v.len - 1
  <2>1. Alive(u, v.len) /\ u.word = w
    BY <1>2, OtherWords DEF u
  <2> QED
    BY <1>3, <2>1 DEF Alive, Bits
<1> QED
  BY <1>1, <1>4, ClobberCleans DEF Alive

LEMMA NotIs ==
  ASSUME NEW v \in Vectors
  PROVE  /\ Alive(bv_not(v), v.len) /\ Clean(bv_not(v))
         /\ Bits(bv_not(v)) = (0 .. v.len - 1) \ Bits(v)
<1> DEFINE w == [s \in DOMAIN v.word |-> WordBits \ v.word[s]]
           u == [v EXCEPT !.word = w]
<1>1. bv_not(v) = Clobber(u)
  BY DEF bv_not, Wordwise
<1>2. w \in [DOMAIN v.word -> SUBSET WordBits] /\ \A s \in DOMAIN v.word : w[s] = WordBits \ v.word[s]
  OBVIOUS
<1> HIDE DEF w
<1>3. ASSUME NEW i \in 0 .. v.len - 1
      PROVE  BitOf(i) \in w[WordOf(i)] <=> i \in (0 .. v.len - 1) \ Bits(v)
  <2>1. i \in Nat /\ i < v.len
    BY VectorIs
  <2>2. BitOf(i) \in w[WordOf(i)] <=> BitOf(i) \notin v.word[WordOf(i)]
    BY <1>2, <2>1, WordIn
  <2> QED
    BY <2>2 DEF Bits
<1> HIDE DEF u
<1>4. Alive(u, v.len) /\ Bits(u) = (0 .. v.len - 1) \ Bits(v)
  <2>1. Alive(u, v.len) /\ u.word = w
    BY <1>2, OtherWords DEF u
  <2> QED
    BY <1>3, <2>1 DEF Alive, Bits
<1> QED
  BY <1>1, <1>4, ClobberCleans DEF Alive

LEMMA UnionIs ==
  ASSUME NEW u \in Vectors, NEW v \in Vectors, u.len = v.len
  PROVE  /\ Alive(bv_union2(u, v), u.len)
         /\ Bits(bv_union2(u, v)) = Bits(u) \cup Bits(v)
         /\ Clean(u) /\ Clean(v) => Clean(bv_union2(u, v))
<1> DEFINE w == [s \in DOMAIN u.word |-> u.word[s] \cup v.word[s]]
           x == bv_union2(u, v)
<1>0. /\ u.len \in Nat /\ DOMAIN u.word = DOMAIN v.word
      /\ u.word \in [DOMAIN u.word -> SUBSET WordBits] /\ v.word \in [DOMAIN u.word -> SUBSET WordBits]
  BY VectorIs
<1>1. x = [u EXCEPT !.word = w]
  BY DEF bv_union2, Wordwise
<1>2. w \in [DOMAIN u.word -> SUBSET WordBits] /\ \A s \in DOMAIN u.word : w[s] = u.word[s] \cup v.word[s]
  BY <1>0
<1> HIDE DEF w, x
<1>3. ASSUME NEW i \in 0 .. u.len - 1
      PROVE  BitOf(i) \in w[WordOf(i)] <=> i \in Bits(u) \cup Bits(v)
  <2>1. i \in Nat /\ i < u.len
    BY <1>0
  <2>2. WordOf(i) \in DOMAIN u.word /\ BitOf(i) \in WordBits
    BY <2>1, WordIn
  <2>3. w[WordOf(i)] = u.word[WordOf(i)] \cup v.word[WordOf(i)]
    BY <1>2, <2>2
  <2>4. (i \in Bits(u) <=> BitOf(i) \in u.word[WordOf(i)]) /\ (i \in Bits(v) <=> BitOf(i) \in v.word[WordOf(i)])
    BY DEF Bits
  <2> QED
    BY <2>2, <2>3, <2>4
<1>4. Alive(x, u.len) /\ x.word = w
  BY <1>1, <1>2, OtherWords
<1>5. Bits(x) = Bits(u) \cup Bits(v)
  BY <1>3, <1>4 DEF Bits, Alive
<1>6. ASSUME Clean(u), Clean(v)
      PROVE  Clean(x)
  BY <1>0, <1>2, <1>4, <1>6 DEF Clean, Alive
<1> QED
  BY <1>4, <1>5, <1>6 DEF x

LEMMA InterIs ==
  ASSUME NEW u \in Vectors, NEW v \in Vectors, u.len = v.len
  PROVE  /\ Alive(bv_inter2(u, v), u.len)
         /\ Bits(bv_inter2(u, v)) = Bits(u) \cap Bits(v)
         /\ Clean(u) /\ Clean(v) => Clean(bv_inter2(u, v))
<1> DEFINE w == [s \in DOMAIN u.word |-> u.word[s] \cap v.word[s]]
           x == bv_inter2(u, v)
<1>0. /\ u.len \in Nat /\ DOMAIN u.word = DOMAIN v.word
      /\ u.word \in [DOMAIN u.word -> SUBSET WordBits] /\ v.word \in [DOMAIN u.word -> SUBSET WordBits]
  BY VectorIs
<1>1. x = [u EXCEPT !.word = w]
  BY DEF bv_inter2, Wordwise
<1>2. w \in [DOMAIN u.word -> SUBSET WordBits] /\ \A s \in DOMAIN u.word : w[s] = u.word[s] \cap v.word[s]
  BY <1>0
<1> HIDE DEF w, x
<1>3. ASSUME NEW i \in 0 .. u.len - 1
      PROVE  BitOf(i) \in w[WordOf(i)] <=> i \in Bits(u) \cap Bits(v)
  <2>1. i \in Nat /\ i < u.len
    BY <1>0
  <2>2. WordOf(i) \in DOMAIN u.word /\ BitOf(i) \in WordBits
    BY <2>1, WordIn
  <2>3. w[WordOf(i)] = u.word[WordOf(i)] \cap v.word[WordOf(i)]
    BY <1>2, <2>2
  <2>4. (i \in Bits(u) <=> BitOf(i) \in u.word[WordOf(i)]) /\ (i \in Bits(v) <=> BitOf(i) \in v.word[WordOf(i)])
    BY DEF Bits
  <2> QED
    BY <2>2, <2>3, <2>4
<1>4. Alive(x, u.len) /\ x.word = w
  BY <1>1, <1>2, OtherWords
<1>5. Bits(x) = Bits(u) \cap Bits(v)
  BY <1>3, <1>4 DEF Bits, Alive
<1>6. ASSUME Clean(u), Clean(v)
      PROVE  Clean(x)
  BY <1>0, <1>2, <1>4, <1>6 DEF Clean, Alive
<1> QED
  BY <1>4, <1>5, <1>6 DEF x

LEMMA DiffIs ==
  ASSUME NEW u \in Vectors, NEW v \in Vectors, u.len = v.len
  PROVE  /\ Alive(bv_diff2(u, v), u.len)
         /\ Bits(bv_diff2(u, v)) = Bits(u) \ Bits(v)
         /\ Clean(u) /\ Clean(v) => Clean(bv_diff2(u, v))
<1> DEFINE w == [s \in DOMAIN u.word |-> u.word[s] \cap (WordBits \ v.word[s])]
           x == bv_diff2(u, v)
<1>0. /\ u.len \in Nat /\ DOMAIN u.word = DOMAIN v.word
      /\ u.word \in [DOMAIN u.word -> SUBSET WordBits] /\ v.word \in [DOMAIN u.word -> SUBSET WordBits]
  BY VectorIs
<1>1. x = [u EXCEPT !.word = w]
  BY DEF bv_diff2, Wordwise
<1>2. w \in [DOMAIN u.word -> SUBSET WordBits] /\ \A s \in DOMAIN u.word : w[s] = u.word[s] \cap (WordBits \ v.word[s])
  BY <1>0
<1> HIDE DEF w, x
<1>3. ASSUME NEW i \in 0 .. u.len - 1
      PROVE  BitOf(i) \in w[WordOf(i)] <=> i \in Bits(u) \ Bits(v)
  <2>1. i \in Nat /\ i < u.len
    BY <1>0
  <2>2. WordOf(i) \in DOMAIN u.word /\ BitOf(i) \in WordBits
    BY <2>1, WordIn
  <2>3. w[WordOf(i)] = u.word[WordOf(i)] \cap (WordBits \ v.word[WordOf(i)])
    BY <1>2, <2>2
  <2>4. (i \in Bits(u) <=> BitOf(i) \in u.word[WordOf(i)]) /\ (i \in Bits(v) <=> BitOf(i) \in v.word[WordOf(i)])
    BY DEF Bits
  <2> QED
    BY <2>2, <2>3, <2>4
<1>4. Alive(x, u.len) /\ x.word = w
  BY <1>1, <1>2, OtherWords
<1>5. Bits(x) = Bits(u) \ Bits(v)
  BY <1>3, <1>4 DEF Bits, Alive
<1>6. ASSUME Clean(u), Clean(v)
      PROVE  Clean(x)
  BY <1>0, <1>2, <1>4, <1>6 DEF Clean, Alive
<1> QED
  BY <1>4, <1>5, <1>6 DEF x

LEMMA XorIs ==
  ASSUME NEW u \in Vectors, NEW v \in Vectors, u.len = v.len
  PROVE  /\ Alive(bv_xor(u, v), u.len)
         /\ Bits(bv_xor(u, v)) = (Bits(u) \cup Bits(v)) \ (Bits(u) \cap Bits(v))
         /\ Clean(u) /\ Clean(v) => Clean(bv_xor(u, v))
<1> DEFINE w == [s \in DOMAIN u.word |-> (u.word[s] \ v.word[s]) \cup (v.word[s] \ u.word[s])]
           x == bv_xor(u, v)
<1>0. /\ u.len \in Nat /\ DOMAIN u.word = DOMAIN v.word
      /\ u.word \in [DOMAIN u.word -> SUBSET WordBits] /\ v.word \in [DOMAIN u.word -> SUBSET WordBits]
  BY VectorIs
<1>1. x = [u EXCEPT !.word = w]
  BY DEF bv_xor, Wordwise
<1>2. w \in [DOMAIN u.word -> SUBSET WordBits] /\ \A s \in DOMAIN u.word : w[s] = (u.word[s] \ v.word[s]) \cup (v.word[s] \ u.word[s])
  BY <1>0
<1> HIDE DEF w, x
<1>3. ASSUME NEW i \in 0 .. u.len - 1
      PROVE  BitOf(i) \in w[WordOf(i)] <=> i \in (Bits(u) \cup Bits(v)) \ (Bits(u) \cap Bits(v))
  <2>1. i \in Nat /\ i < u.len
    BY <1>0
  <2>2. WordOf(i) \in DOMAIN u.word /\ BitOf(i) \in WordBits
    BY <2>1, WordIn
  <2>3. w[WordOf(i)] = (u.word[WordOf(i)] \ v.word[WordOf(i)]) \cup (v.word[WordOf(i)] \ u.word[WordOf(i)])
    BY <1>2, <2>2
  <2>4. (i \in Bits(u) <=> BitOf(i) \in u.word[WordOf(i)]) /\ (i \in Bits(v) <=> BitOf(i) \in v.word[WordOf(i)])
    BY DEF Bits
  <2> QED
    BY <2>2, <2>3, <2>4
<1>4. Alive(x, u.len) /\ x.word = w
  BY <1>1, <1>2, OtherWords
<1>5. Bits(x) = (Bits(u) \cup Bits(v)) \ (Bits(u) \cap Bits(v))
  BY <1>3, <1>4 DEF Bits, Alive
<1>6. ASSUME Clean(u), Clean(v)
      PROVE  Clean(x)
  BY <1>0, <1>2, <1>4, <1>6 DEF Clean, Alive
<1> QED
  BY <1>4, <1>5, <1>6 DEF x

\* Vectors as they are made.
LEMMA ZeroedIs ==
  ASSUME NEW l \in Nat \ {0}
  PROVE  Alive(Zeroed(l), l) /\ Clean(Zeroed(l)) /\ Bits(Zeroed(l)) = {}
<1> DEFINE w == [s \in 1 .. bv_nwords(l) |-> {}]
           v == Zeroed(l)
<1>1. v = [len |-> l, word |-> w]
  BY DEF Zeroed, Sized
<1>2. w \in [1 .. bv_nwords(l) -> SUBSET WordBits] /\ \A s \in 1 .. bv_nwords(l) : w[s] = {}
  OBVIOUS
<1> HIDE DEF w, v
<1>3. v \in Vectors /\ v.len = l /\ v.word = w
  BY <1>1, <1>2, MakesVector
<1>4. \A i \in 0 .. l - 1 : WordOf(i) \in 1 .. bv_nwords(l)
  BY <1>2, BitWithin
<1> QED
  BY <1>2, <1>3, <1>4 DEF v, Alive, Clean, Bits

LEMMA New1Is ==
  ASSUME NEW l \in Nat \ {0}
  PROVE  Alive(bv_new1(l), l) /\ Clean(bv_new1(l)) /\ Bits(bv_new1(l)) = 0 .. l - 1
<1> DEFINE w == [s \in 1 .. bv_nwords(l) |-> WordBits]
           v == [len |-> l, word |-> w]
<1>1. bv_new1(l) = Clobber(v)
  BY DEF bv_new1, Sized
<1>2. w \in [1 .. bv_nwords(l) -> SUBSET WordBits] /\ \A s \in 1 .. bv_nwords(l) : w[s] = WordBits
  OBVIOUS
<1> HIDE DEF w
<1>3. v \in Vectors /\ v.len = l /\ v.word = w
  BY <1>2, MakesVector
<1> HIDE DEF v
<1>4. ASSUME NEW i \in 0 .. l - 1
      PROVE  BitOf(i) \in w[WordOf(i)]
  <2>1. i \in Nat /\ i < l
    OBVIOUS
  <2> QED
    BY <1>2, <2>1, BitWithin, PlaceOfBit
<1>5. Bits(v) = 0 .. l - 1
  BY <1>3, <1>4 DEF Bits
<1> QED
  BY <1>1, <1>3, <1>5, ClobberCleans

\* The arrays vectors are initialised from.
LEMMA ArrayIs ==
  ASSUME NEW n \in Nat, NEW a \in Arrays(n)
  PROVE  a \in [1 .. n -> SUBSET WordBits]
<1>1. {} \in SUBSET WordBits /\ {0, Word - 1} \in SUBSET WordBits /\ 1 .. Word - 1 \in SUBSET WordBits
  BY BitVecAssumption DEF WordBits
<1> QED
  BY <1>1 DEF Arrays

LEMMA InitIs ==
  ASSUME NEW l \in Nat \ {0}, l % Word = 0, NEW a \in Arrays(l \div Word)
  PROVE  Alive(bv_init(a), l) /\ Clean(bv_init(a))
<1> DEFINE n == l \div Word
           v == [len |-> l, word |-> a]
<1>1. Word \in Nat \ {0} /\ n \in Nat /\ n = bv_nwords(l) /\ l = Word * n
  BY WordCount, BitVecAssumption
<1> HIDE DEF n
<1>2. a \in [1 .. n -> SUBSET WordBits]
  BY <1>1, ArrayIs DEF n
<1>3. bv_init(a) = v
  <2>1. Len(a) = n
    BY <1>1, <1>2
  <2>2. Len(a) * Word = l
    <3>1. n * Word = Word * n
      BY <1>1
    <3> QED
      BY <1>1, <2>1, <3>1
  <2> QED
    BY <2>2 DEF bv_init
<1>4. v \in Vectors /\ v.len = l
  BY <1>1, <1>2, MakesVector
<1>5. Clean(v)
  BY <1>4, CleanMeans
<1> QED
  BY <1>3, <1>4, <1>5 DEF Alive

LEMMA ReinitIs ==
  ASSUME NEW v \in Vectors, NEW a \in Arrays(v.len \div Word)
  PROVE  Alive(bv_reinit(v, a), v.len) /\ (Clean(v) => Clean(bv_reinit(v, a)))
<1> DEFINE l == v.len
           n == bv_nwords(l)
           q == l \div Word
           w == [s \in DOMAIN v.word |-> IF s <= q THEN a[s] ELSE v.word[s]]
           u == bv_reinit(v, a)
<1>1. /\ l \in Nat \ {0} /\ DOMAIN v.word = 1 .. n /\ n \in Nat
      /\ v.word \in [1 .. n -> SUBSET WordBits] /\ Word \in Nat \ {0}
  BY VectorIs, BitVecAssumption
<1>2. q \in Nat /\ l = Word * q + (l % Word)
  BY <1>1, DivMod
<1>3. a \in [1 .. q -> SUBSET WordBits]
  BY <1>2, ArrayIs
<1>4. u = [v EXCEPT !.word = w]
  BY DEF bv_reinit
<1> HIDE DEF q, n
<1>5. /\ w \in [DOMAIN v.word -> SUBSET WordBits]
      /\ \A s \in 1 .. n : w[s] = IF s <= q THEN a[s] ELSE v.word[s]
  <2>1. ASSUME NEW s \in 1 .. n
        PROVE  (IF s <= q THEN a[s] ELSE v.word[s]) \in SUBSET WordBits
    <3>1. s <= q => s \in 1 .. q
      BY <1>2
    <3> QED
      BY <1>1, <1>3, <3>1
  <2> QED
    BY <1>1, <2>1
<1> HIDE DEF w, u
<1>6. Alive(u, l) /\ u.word = w
  BY <1>4, <1>5, OtherWords
<1>7. ASSUME Clean(v)
      PROVE  Clean(u)
  <2> SUFFICES ASSUME NEW s \in 1 .. n, NEW b \in w[s], s = n, l % Word # 0
               PROVE  b < l % Word
    BY <1>1, <1>5, <1>6, CleanMeans DEF Alive, n
  <2>1. ~(s <= q)
    <3>1. l = Word * (n - 1) + (l % Word) /\ (l % Word) \in 0 .. Word - 1
      BY <1>1, WordCount DEF n
    <3>2. Word * (n - 1) = Word * q
      <4> DEFINE r == l % Word
                 x == Word * (n - 1)
                 y == Word * q
      <4>1. x \in Int /\ y \in Int
        BY <1>1, <1>2
      <4>2. r \in Int /\ l = x + r /\ l = y + r
        BY <1>1, <1>2, <3>1
      <4> HIDE DEF r, x, y
      <4>3. x = y
        BY <4>1, <4>2
      <4> QED
        BY <4>3 DEF x, y
    <3>3. n - 1 = q
      <4>1. ~(n - 1 < q) /\ ~(q < n - 1)
        BY <1>1, <1>2, <3>2, TimesMonotone
      <4> QED
        BY <1>1, <1>2, <4>1
    <3> QED
      BY <1>1, <1>2, <3>3
  <2>2. b \in v.word[s]
    BY <1>5, <2>1
  <2> QED
    BY <1>1, <1>7, <2>2, CleanMeans DEF n
<1> QED
  BY <1>6, <1>7 DEF u

-----------------------------------------------------------------------------
(* The loops over nibbles.                                                 *)

\* The ones among the first n places of v's words, whether bits of v or not.
Ones(v, n) == {i \in 0 .. n - 1 : BitOf(i) \in v.word[WordOf(i)]}

\* A nibble does not cross the end of a word.
LEMMA NibbleInWord ==
  ASSUME NEW a \in Nat, NEW i \in Nat, Nibble * a <= i, i < Nibble * a + Nibble
  PROVE  WordOf(i) = WordOf(Nibble * a)
<1> DEFINE q == Word \div Nibble
           k == Nibble * a
           t == k \div Word
           b == k % Word
           c == a - q * t
<1>1. Word \in Nat \ {0} /\ Nibble \in Nat \ {0} /\ Word % Nibble = 0
  BY BitVecAssumption
<1>2. q \in Nat /\ Word = Nibble * q
  BY <1>1, DivMod
<1>3. k \in Nat
  BY <1>1
<1>4. t \in Nat /\ b \in 0 .. Word - 1 /\ k = Word * t + b
  BY <1>1, <1>3, DivMod
<1>5. b = Nibble * c /\ c \in Int
  <2>1. Word * t = Nibble * (q * t) /\ q * t \in Int
    <3> HIDE DEF q, t
    <3>1. q * t \in Int /\ (Nibble * q) * t = Nibble * (q * t)
      BY <1>1, <1>2, <1>4
    <3> QED
      BY <1>2, <3>1
  <2>2. Nibble * (a - q * t) = Nibble * a - Nibble * (q * t)
    BY <1>1, <1>2, <1>4, <2>1
  <2>3. b = k - Word * t
    <3>1. Word * t \in Int
      BY <1>1, <1>4
    <3> QED
      BY <1>3, <1>4, <3>1
  <2> QED
    BY <2>1, <2>2, <2>3
<1> HIDE DEF q, t, b, c
<1>6. b + Nibble <= Word
  <2>1. ~(q <= c)
    <3> SUFFICES ASSUME q <= c
                 PROVE  FALSE
      OBVIOUS
    <3>1. Nibble * q <= Nibble * c
      <4>1. q = c \/ q < c
        BY <1>2, <1>5
      <4> QED
        BY <1>1, <1>2, <1>5, <4>1, TimesMonotone
    <3> QED
      BY <1>1, <1>2, <1>4, <1>5, <3>1
  <2>2. c < q
    BY <1>2, <1>5, <2>1
  <2>3. Nibble * c + Nibble <= Nibble * q
    BY <1>1, <1>2, <1>5, <2>2, TimesMonotone
  <2> QED
    BY <1>2, <1>5, <2>3
<1> DEFINE r == b + (i - k)
<1>7. r \in 0 .. Word - 1 /\ i = Word * t + r
  <2>1. Word * t \in Int
    BY <1>1, <1>4
  <2> QED
    BY <1>1, <1>3, <1>4, <1>6, <2>1
<1> HIDE DEF k, r
<1>8. i \div Word = t
  BY <1>1, <1>4, <1>7, DivUnique
<1> QED
  BY <1>8 DEF WordOf, t, k

\* The nibbles reach the end of the vector, and none starts behind it.
LEMMA NibblesReach ==
  ASSUME NEW v \in Vectors
  PROVE  /\ NibbleCount(v) \in Nat /\ NibbleCount(v) * Nibble \in Nat
         /\ v.len <= NibbleCount(v) * Nibble
         /\ \A a \in Nat : a < NibbleCount(v) => Nibble * a < v.len
<1> DEFINE n == NibbleCount(v)
           m == v.len + Nibble - 1
           x == Nibble * n
<1>1. v.len \in Nat \ {0} /\ Nibble \in Nat \ {0} /\ m \in Nat
  BY VectorIs, BitVecAssumption
<1>2. n \in Nat /\ (m % Nibble) \in 0 .. Nibble - 1 /\ m = x + (m % Nibble)
  BY <1>1, DivMod DEF NibbleCount
<1> HIDE DEF n
<1>3. x \in Nat /\ n * Nibble = x
  BY <1>1, <1>2
<1>4. v.len <= x /\ x < v.len + Nibble
  <2> HIDE DEF x
  <2> QED
    BY <1>1, <1>2, <1>3
<1>5. ASSUME NEW a \in Nat, a < n
      PROVE  Nibble * a < v.len
  <2>1. Nibble * a + Nibble <= x
    BY <1>1, <1>2, <1>5, TimesMonotone
  <2>2. Nibble * a \in Int
    BY <1>1
  <2> QED
    BY <1>1, <1>3, <1>4, <2>1, <2>2
<1> QED
  BY <1>2, <1>3, <1>4, <1>5 DEF n

\* Each place the loops look at is in the word its nibble starts in.
LEMMA PlaceLooked ==
  ASSUME NEW v \in Vectors, NEW i \in Nat, i < NibbleCount(v) * Nibble
  PROVE  LET a == i \div Nibble IN
         /\ a \in Nat /\ a < NibbleCount(v)
         /\ Nibble * a <= i /\ i < Nibble * a + Nibble
         /\ i = Nibble * a + (i % Nibble) /\ (i % Nibble) \in 0 .. Nibble - 1
         /\ WordOf(i) = WordOf(Nibble * a) /\ WordOf(i) \in DOMAIN v.word
<1> DEFINE a == i \div Nibble
<1>1. Nibble \in Nat \ {0} /\ NibbleCount(v) \in Nat
  BY BitVecAssumption, NibblesReach
<1>2. a \in Nat /\ (i % Nibble) \in 0 .. Nibble - 1 /\ i = Nibble * a + (i % Nibble)
  BY <1>1, DivMod
<1>3. Nibble * a \in Nat
  BY <1>1, <1>2
<1>4. Nibble * a <= i /\ i < Nibble * a + Nibble
  <2> DEFINE r == i % Nibble
             k == Nibble * a
  <2>1. r \in 0 .. Nibble - 1 /\ k \in Nat /\ i = k + r
    BY <1>2, <1>3
  <2> HIDE DEF r, k
  <2>2. k <= i /\ i < k + Nibble
    BY <1>1, <2>1
  <2> QED
    BY <2>2 DEF k
<1> HIDE DEF a
<1>5. a < NibbleCount(v)
  <2>1. ~(NibbleCount(v) <= a)
    <3> SUFFICES ASSUME NibbleCount(v) <= a
                 PROVE  FALSE
      OBVIOUS
    <3>1. NibbleCount(v) = a \/ NibbleCount(v) < a
      BY <1>1, <1>2
    <3>2. Nibble * NibbleCount(v) <= Nibble * a
      BY <1>1, <1>2, <1>3, <3>1, TimesMonotone
    <3>3. Nibble * NibbleCount(v) = NibbleCount(v) * Nibble /\ NibbleCount(v) * Nibble \in Nat
      BY <1>1
    <3> QED
      BY <1>3, <1>4, <3>2, <3>3
  <2> QED
    BY <1>1, <1>2, <2>1
<1>6. WordOf(i) = WordOf(Nibble * a)
  BY <1>2, <1>4, NibbleInWord
<1>7. Nibble * a < v.len
  BY <1>2, <1>5, NibblesReach
<1>8. WordOf(Nibble * a) \in DOMAIN v.word
  BY <1>3, <1>7, WordIn
<1> QED
  BY <1>2, <1>4, <1>5, <1>6, <1>8 DEF a

\* In a vector without stray ones, those the loops see are its bits.
LEMMA OnesAreBits ==
  ASSUME NEW v \in Vectors, Clean(v)
  PROVE  Ones(v, NibbleCount(v) * Nibble) = Bits(v)
<1>1. v.len \in Nat /\ v.len <= NibbleCount(v) * Nibble /\ NibbleCount(v) * Nibble \in Nat
  BY VectorIs, NibblesReach
<1>2. ASSUME NEW i \in 0 .. NibbleCount(v) * Nibble - 1, BitOf(i) \in v.word[WordOf(i)]
      PROVE  i < v.len
  <2>1. i \in Nat /\ i < NibbleCount(v) * Nibble
    BY <1>1
  <2>2. WordOf(i) \in DOMAIN v.word
    BY <2>1, PlaceLooked
  <2>3. (WordOf(i) - 1) * Word + BitOf(i) < v.len
    BY <1>2, <2>2 DEF Clean
  <2>4. i = Word * (WordOf(i) - 1) + BitOf(i) /\ WordOf(i) \in Nat
    BY <2>1, PlaceOfBit
  <2>5. Word * (WordOf(i) - 1) = (WordOf(i) - 1) * Word
    BY <2>4, BitVecAssumption
  <2> QED
    BY <2>3, <2>4, <2>5
<1> QED
  BY <1>1, <1>2 DEF Ones, Bits

\* The next number goes to the end of an ascending sequence.
LEMMA AscendingAppend ==
  ASSUME NEW i \in Nat, NEW S \in SUBSET (0 .. i - 1), NEW q \in Seq(Nat), Ascending(S, q)
  PROVE  Append(q, i) \in Seq(Nat) /\ Ascending(S \cup {i}, Append(q, i))
<1> DEFINE n == Len(q)
           t == Append(q, i)
<1>1. n \in Nat /\ DOMAIN q = 1 .. n /\ n = Cardinality(S) /\ ToSet(q) = S
  BY DEF Ascending
<1>2. t \in Seq(Nat) /\ Len(t) = n + 1 /\ DOMAIN t = 1 .. n + 1 /\ t[n + 1] = i /\ \A j \in 1 .. n : t[j] = q[j]
  BY <1>1
<1> HIDE DEF t
<1>3. \A j \in 1 .. n : q[j] \in S
  BY <1>1 DEF ToSet
<1>4. Cardinality(S \cup {i}) = n + 1
  <2>1. IsFiniteSet(0 .. i - 1)
    BY FS_Interval
  <2>2. IsFiniteSet(S)
    BY <2>1, FS_Subset
  <2>3. i \notin S
    OBVIOUS
  <2> QED
    BY <1>1, <2>2, <2>3, FS_AddElement
<1>5. ToSet(t) = S \cup {i}
  <2>1. ASSUME NEW x \in S
        PROVE  \E j \in 1 .. n : q[j] = x
    BY <1>1 DEF ToSet
  <2>2. ASSUME NEW x \in S \cup {i}
        PROVE  \E j \in 1 .. n + 1 : t[j] = x
    <3>1. CASE x \in S
      <4>1. PICK j \in 1 .. n : q[j] = x
        BY <2>1, <3>1
      <4> QED
        BY <1>1, <1>2, <4>1
    <3>2. CASE x = i
      BY <1>1, <1>2, <3>2
    <3> QED
      BY <2>2, <3>1, <3>2
  <2>3. ASSUME NEW j \in 1 .. n + 1
        PROVE  t[j] \in S \cup {i}
    <3>1. j = n + 1 \/ j \in 1 .. n
      BY <1>1
    <3> QED
      BY <1>2, <1>3, <3>1
  <2>4. \A x : x \in ToSet(t) <=> \E j \in 1 .. n + 1 : t[j] = x
    BY <1>2 DEF ToSet
  <2> QED
    BY <2>2, <2>3, <2>4, Zenon
<1>6. ASSUME NEW j \in DOMAIN t, NEW k \in DOMAIN t, j < k
      PROVE  t[j] < t[k]
  <2>1. j \in 1 .. n /\ (k = n + 1 \/ k \in 1 .. n)
    BY <1>1, <1>2, <1>6
  <2>2. CASE k = n + 1
    BY <1>2, <1>3, <2>1, <2>2
  <2>3. CASE k \in 1 .. n
    BY <1>1, <1>2, <1>6, <2>1, <2>3 DEF Ascending
  <2> QED
    BY <2>1, <2>2, <2>3
<1> QED
  BY <1>2, <1>4, <1>5, <1>6 DEF Ascending, t

\* Elsewhere than in r's place bv_unset changes nothing, also behind the end.
LEMMA UnsetElsewhere ==
  ASSUME NEW v \in Vectors, NEW r \in Nat, NEW j \in Nat, j # r, WordOf(j) \in DOMAIN v.word
  PROVE  BitOf(j) \in bv_unset(v, r).word[WordOf(j)] <=> BitOf(j) \in v.word[WordOf(j)]
<1>1. CASE ~(r < v.len)
  BY <1>1 DEF bv_unset, InBounds
<1>2. CASE r < v.len
  <2> DEFINE w == [v.word EXCEPT ![WordOf(r)] = @ \ {BitOf(r)}]
  <2>1. bv_unset(v, r) = [v EXCEPT !.word = w]
    BY <1>2 DEF bv_unset, InBounds
  <2>2. WordOf(r) \in DOMAIN v.word
    BY <1>2, WordIn
  <2>3. /\ w \in [DOMAIN v.word -> SUBSET WordBits]
        /\ w[WordOf(j)] = IF WordOf(j) = WordOf(r) THEN v.word[WordOf(j)] \ {BitOf(r)} ELSE v.word[WordOf(j)]
    BY <2>2, VectorIs
  <2> HIDE DEF w
  <2>4. bv_unset(v, r).word = w
    BY <2>1, <2>3, OtherWords
  <2>5. WordOf(j) = WordOf(r) => BitOf(j) # BitOf(r)
    BY SamePlace
  <2> QED
    BY <2>3, <2>4, <2>5
<1> QED
  BY <1>1, <1>2

\* The vector after the calls for the first n places.
Taken(v, r, n) == IF r < n /\ r \in Bits(v) THEN bv_unset(v, r) ELSE v

Walks == [vec : Vectors, now : SUBSET Nat, applied : Seq(Nat)]

\* What bv_eachbit knows after n places: it called f for the ones among them,
\* and inside a nibble it still goes by what it read at its start.
WalkInv(v, r, s, n) ==
  /\ s \in Walks
  /\ s.vec = Taken(v, r, n)
  /\ n % Nibble # 0 => s.now = InNibble(v, Nibble * (n \div Nibble))
  /\ Ascending(Ones(v, n), s.applied)

\* Until the next nibble starts, the current one goes on.
LEMMA NextPlace ==
  ASSUME NEW i \in Nat, (i + 1) % Nibble # 0
  PROVE  (i + 1) \div Nibble = i \div Nibble
<1> DEFINE a == i \div Nibble
           b == i % Nibble
<1>1. Nibble \in Nat \ {0}
  BY BitVecAssumption
<1>2. a \in Nat /\ b \in 0 .. Nibble - 1 /\ i = Nibble * a + b
  BY <1>1, DivMod
<1> HIDE DEF a, b
<1>3. CASE b + 1 = Nibble
  <2>1. i + 1 = Nibble * (a + 1) + 0 /\ a + 1 \in Int /\ 0 \in 0 .. Nibble - 1
    BY <1>1, <1>2, <1>3
  <2>2. (i + 1) % Nibble = 0
    BY <1>1, <2>1, DivUnique
  <2> QED
    BY <2>2
<1>4. CASE b + 1 # Nibble
  <2> DEFINE c == b + 1
  <2>1. i + 1 = Nibble * a + c /\ c \in 0 .. Nibble - 1 /\ a \in Int
    BY <1>1, <1>2, <1>4
  <2> HIDE DEF c
  <2>2. (i + 1) \div Nibble = a
    BY <1>1, <2>1, DivUnique
  <2> QED
    BY <2>2 DEF a
<1> QED
  BY <1>3, <1>4

LEMMA WalkStep ==
  ASSUME NEW v \in Vectors, NEW r \in Nat, NEW i \in Nat, i < NibbleCount(v) * Nibble,
         NEW s, WalkInv(v, r, s, i)
  PROVE  WalkInv(v, r, AtBit(s, i, r), i + 1)
<1> DEFINE a == i \div Nibble
           now == IF i % Nibble = 0 THEN InNibble(s.vec, i) ELSE s.now
           t == AtBit(s, i, r)
           one == BitOf(i) \in v.word[WordOf(i)]
<1>1. /\ a \in Nat /\ a < NibbleCount(v) /\ Nibble * a <= i /\ i < Nibble * a + Nibble
      /\ i = Nibble * a + (i % Nibble) /\ WordOf(i) = WordOf(Nibble * a) /\ WordOf(i) \in DOMAIN v.word
  BY PlaceLooked
<1>2. Nibble \in Nat \ {0} /\ Nibble * a \in Nat
  BY <1>1, BitVecAssumption
<1>3. /\ s = [vec |-> s.vec, now |-> s.now, applied |-> s.applied]
      /\ s.vec \in Vectors /\ s.vec = Taken(v, r, i) /\ s.applied \in Seq(Nat) /\ s.now \in SUBSET Nat
      /\ Ascending(Ones(v, i), s.applied)
      /\ i % Nibble # 0 => s.now = InNibble(v, Nibble * a)
  BY DEF WalkInv, Walks
<1> HIDE DEF a
<1>4. now = InNibble(v, Nibble * a)
  <2>1. CASE i % Nibble # 0
    BY <1>3, <2>1
  <2>2. CASE i % Nibble = 0
    <3>1. i = Nibble * a
      BY <1>1, <1>2, <2>2
    <3>2. ASSUME NEW j \in i .. i + Nibble - 1
          PROVE  BitOf(j) \in s.vec.word[WordOf(i)] <=> BitOf(j) \in v.word[WordOf(i)]
      <4>1. j \in Nat /\ Nibble * a <= j /\ j < Nibble * a + Nibble
        BY <1>2, <3>1
      <4>2. WordOf(j) = WordOf(i)
        BY <1>1, <4>1, NibbleInWord
      <4>3. CASE s.vec = v
        BY <4>3
      <4>4. CASE s.vec # v
        <5>1. s.vec = bv_unset(v, r) /\ r < i
          BY <1>3, <4>4 DEF Taken
        <5>2. j # r
          BY <1>2, <5>1
        <5> QED
          BY <1>1, <4>1, <4>2, <5>1, <5>2, UnsetElsewhere
      <4> QED
        BY <4>3, <4>4
    <3>3. InNibble(s.vec, i) = InNibble(v, i)
      BY <3>2 DEF InNibble
    <3> QED
      BY <2>2, <3>1, <3>3
  <2> QED
    BY <2>1, <2>2
<1>5. i \in now <=> one
  <2>1. i \in Nibble * a .. Nibble * a + Nibble - 1
    BY <1>1, <1>2
  <2> QED
    BY <1>1, <1>4, <2>1 DEF InNibble
<1>6. now \in SUBSET Nat
  BY <1>2, <1>4 DEF InNibble
<1>7. t = IF i \in now
          THEN [vec |-> IF i = r THEN bv_unset(s.vec, r) ELSE s.vec, now |-> now, applied |-> Append(s.applied, i)]
          ELSE [vec |-> s.vec, now |-> now, applied |-> s.applied]
  BY <1>3 DEF AtBit
<1> HIDE DEF now, t
<1>8. t.now = now
  BY <1>7
<1>9. t.vec = Taken(v, r, i + 1)
  <2>1. CASE r # i
    <3>1. t.vec = s.vec
      BY <1>7, <2>1
    <3>2. r < i + 1 <=> r < i
      BY <2>1
    <3> QED
      BY <1>3, <3>1, <3>2 DEF Taken
  <2>2. CASE r = i /\ i \in now
    <3>1. t.vec = bv_unset(v, r)
      BY <1>3, <1>7, <2>2 DEF Taken
    <3>2. r \notin Bits(v) => bv_unset(v, r) = v
      <4>1. r \notin Bits(v) => ~(r < v.len)
        BY <1>5, <2>2, VectorIs DEF Bits
      <4> QED
        BY <4>1 DEF bv_unset, InBounds
    <3> QED
      BY <2>2, <3>1, <3>2 DEF Taken
  <2>3. CASE r = i /\ i \notin now
    <3>1. r \notin Bits(v)
      BY <1>5, <2>3 DEF Bits
    <3> QED
      BY <1>3, <1>7, <2>3, <3>1 DEF Taken
  <2> QED
    BY <2>1, <2>2, <2>3
<1>10. t.vec \in Vectors
  BY <1>9, UnsetIs DEF Taken, Alive
<1>11. t.applied \in Seq(Nat) /\ Ascending(Ones(v, i + 1), t.applied)
  <2>1. Ones(v, i) \in SUBSET (0 .. i - 1)
    BY DEF Ones
  <2>2. Ones(v, i + 1) = IF one THEN Ones(v, i) \cup {i} ELSE Ones(v, i)
    BY DEF Ones
  <2>3. CASE i \in now
    BY <1>3, <1>5, <1>7, <2>1, <2>2, <2>3, AscendingAppend
  <2>4. CASE i \notin now
    BY <1>3, <1>5, <1>7, <2>2, <2>4
  <2> QED
    BY <2>3, <2>4
<1>12. (i + 1) % Nibble # 0 => t.now = InNibble(v, Nibble * ((i + 1) \div Nibble))
  BY <1>4, <1>8, NextPlace DEF a
<1>13. t \in Walks
  <2>1. t = [vec |-> t.vec, now |-> t.now, applied |-> t.applied]
    BY <1>7
  <2> QED
    BY <1>6, <1>8, <1>10, <1>11, <2>1 DEF Walks
<1> QED
  BY <1>9, <1>11, <1>12, <1>13 DEF WalkInv, t

\* bv_eachbit calls f for each bit, in order, and f takes out r.
LEMMA EachIs ==
  ASSUME NEW v \in Vectors, NEW r \in Nat
  PROVE  /\ Alive(bv_eachbit(v, r).vec, v.len)
         /\ Bits(bv_eachbit(v, r).vec) = Bits(v) \ {r}
         /\ Clean(v) => Clean(bv_eachbit(v, r).vec) /\ Ascending(Bits(v), bv_eachbit(v, r).applied)
<1> DEFINE N == NibbleCount(v) * Nibble
           base == [vec |-> v, now |-> {}, applied |-> <<>>]
           S == [n \in 0 .. N |-> {s \in Walks : WalkInv(v, r, s, n)}]
           step == [n \in 1 .. N |-> [s \in Walks |-> AtBit(s, n - 1, r)]]
           Def(g, n) == IF n = 0 THEN base ELSE AtBit(g[n - 1], n - 1, r)
           W == CHOOSE g : g = [n \in 0 .. N |-> Def(g, n)]
<1>1. N \in Nat /\ v.len \in Nat \ {0} /\ v.len <= N
  BY NibblesReach, VectorIs
<1>2. base \in S[0]
  <2>1. base \in Walks
    BY DEF Walks
  <2>2. Ones(v, 0) = {} /\ Cardinality({}) = 0
    BY FS_EmptySet DEF Ones
  <2>3. Ascending({}, <<>>)
    <3>1. ToSet(<<>>) = {} /\ Len(<<>>) = 0 /\ DOMAIN <<>> = {}
      BY DEF ToSet
    <3> QED
      BY <2>2, <3>1 DEF Ascending
  <2>4. Taken(v, r, 0) = v
    BY DEF Taken
  <2>5. 0 % Nibble = 0
    <3>1. Nibble \in Nat \ {0}
      BY BitVecAssumption
    <3> QED
      BY <3>1
  <2>6. WalkInv(v, r, base, 0)
    BY <2>1, <2>2, <2>3, <2>4, <2>5 DEF WalkInv
  <2> QED
    BY <1>1, <2>1, <2>6
<1>3. ASSUME NEW n \in 1 .. N, NEW s \in S[n - 1]
      PROVE  step[n][s] \in S[n] /\ AtBit(s, n - 1, r) \in S[n] /\ step[n][s] = AtBit(s, n - 1, r)
  <2>1. n - 1 \in 0 .. N /\ n \in 0 .. N /\ n - 1 \in Nat /\ n - 1 < N /\ (n - 1) + 1 = n
    BY <1>1
  <2>2. s \in Walks /\ WalkInv(v, r, s, n - 1)
    BY <1>3, <2>1
  <2>3. WalkInv(v, r, AtBit(s, n - 1, r), n)
    <3> HIDE DEF N
    <3>1. n - 1 < NibbleCount(v) * Nibble
      BY <2>1 DEF N
    <3>2. WalkInv(v, r, AtBit(s, n - 1, r), (n - 1) + 1)
      BY <2>1, <2>2, <3>1, WalkStep
    <3> QED
      BY <2>1, <3>2
  <2>4. AtBit(s, n - 1, r) \in Walks
    BY <2>3 DEF WalkInv
  <2> QED
    BY <2>1, <2>2, <2>3, <2>4
<1> HIDE DEF step, N, S
<1>4. PICK f : Loop(f, N, base, step, S)
  <2>1. \A n \in 1 .. N : \A s \in S[n - 1] : step[n][s] \in S[n]
    BY <1>3
  <2> HIDE DEF base
  <2> QED
    BY <1>1, <1>2, <2>1, Iterates
<1>5. f = [n \in 0 .. N |-> Def(f, n)]
  <2>1. ASSUME NEW n \in 0 .. N
        PROVE  f[n] = Def(f, n)
    <3>1. CASE n = 0
      BY <1>4, <3>1 DEF Loop
    <3>2. CASE n # 0
      <4>1. n \in 1 .. N /\ n - 1 \in 0 .. N
        BY <1>1, <3>2
      <4>2. f[n] = step[n][f[n - 1]] /\ f[n - 1] \in S[n - 1]
        BY <1>4, <4>1 DEF Loop
      <4>3. f[n] = AtBit(f[n - 1], n - 1, r)
        BY <1>3, <4>1, <4>2
      <4> QED
        BY <3>2, <4>3
    <3> QED
      BY <3>1, <3>2
  <2> QED
    BY <1>4, <2>1 DEF Loop
<1>6. W = [n \in 0 .. N |-> Def(W, n)]
  BY <1>5
<1>7. \A n \in 0 .. N : W[n] = Def(W, n)
  <2> HIDE DEF W
  <2> QED
    BY <1>6
<1> HIDE DEF W
<1>8. \A n \in 0 .. N : W[n] \in S[n]
  <2>1. W[0] \in S[0]
    <3>1. 0 \in 0 .. N
      BY <1>1
    <3>2. W[0] = base
      BY <1>7, <3>1
    <3> QED
      BY <1>2, <3>2
  <2>2. ASSUME NEW n \in 1 .. N, W[n - 1] \in S[n - 1]
        PROVE  W[n] \in S[n]
    <3>1. W[n] = AtBit(W[n - 1], n - 1, r)
      <4>1. n \in 0 .. N /\ n # 0
        BY <1>1
      <4> QED
        BY <1>7, <4>1
    <3> QED
      BY <1>3, <2>2, <3>1
  <2> HIDE DEF Def
  <2> QED
    BY <1>1, <2>1, <2>2, LoopInvariant
<1>9. bv_eachbit(v, r) = W[N]
  BY DEF bv_eachbit, W, N
<1> DEFINE e == bv_eachbit(v, r)
<1>10. WalkInv(v, r, e, N)
  BY <1>1, <1>8, <1>9 DEF S
<1> HIDE DEF e
<1>11. e.vec = (IF r \in Bits(v) THEN bv_unset(v, r) ELSE v)
  <2>1. r \in Bits(v) => r < N
    BY <1>1 DEF Bits
  <2> QED
    BY <1>10, <2>1 DEF WalkInv, Taken
<1>12. Alive(e.vec, v.len) /\ Bits(e.vec) = Bits(v) \ {r} /\ (Clean(v) => Clean(e.vec))
  <2>1. CASE r \in Bits(v)
    BY <1>11, <2>1, UnsetIs
  <2>2. CASE r \notin Bits(v)
    BY <1>11, <2>2 DEF Alive
  <2> QED
    BY <2>1, <2>2
<1>13. Clean(v) => Ascending(Bits(v), e.applied)
  BY <1>10, OnesAreBits DEF WalkInv, N
<1> QED
  BY <1>12, <1>13 DEF e

\* The ones among the first n + 1 nibbles are those among n and those of the next.
LEMMA NextNibble ==
  ASSUME NEW v \in Vectors, NEW n \in Nat, n < NibbleCount(v)
  PROVE  /\ IsFiniteSet(InNibble(v, n * Nibble)) /\ IsFiniteSet(Ones(v, n * Nibble))
         /\ Cardinality(Ones(v, (n + 1) * Nibble)) =
              Cardinality(Ones(v, n * Nibble)) + Cardinality(InNibble(v, n * Nibble))
<1> DEFINE k == n * Nibble
           A == Ones(v, k)
           B == InNibble(v, k)
           C == Ones(v, (n + 1) * Nibble)
<1>1. Nibble \in Nat \ {0} /\ k \in Nat /\ k = Nibble * n /\ (n + 1) * Nibble = k + Nibble
  BY BitVecAssumption
<1> HIDE DEF k
<1>2. IsFiniteSet(0 .. k - 1) /\ IsFiniteSet(k .. k + Nibble - 1)
  BY <1>1, FS_Interval
<1>3. IsFiniteSet(A)
  <2>1. A \in SUBSET (0 .. k - 1)
    BY DEF Ones
  <2> QED
    BY <1>2, <2>1, FS_Subset
<1>4. IsFiniteSet(B)
  <2>1. B \in SUBSET (k .. k + Nibble - 1)
    BY DEF InNibble
  <2> QED
    BY <1>2, <2>1, FS_Subset
<1>5. ASSUME NEW i \in k .. k + Nibble - 1
      PROVE  BitOf(i) \in v.word[WordOf(i)] <=> BitOf(i) \in v.word[WordOf(k)]
  <2>1. i \in Nat /\ Nibble * n <= i /\ i < Nibble * n + Nibble
    BY <1>1
  <2>2. WordOf(i) = WordOf(k)
    BY <1>1, <2>1, NibbleInWord
  <2> QED
    BY <2>2
<1>6. C = A \cup B
  <2>1. ASSUME NEW i
        PROVE  i \in 0 .. (n + 1) * Nibble - 1 <=> i \in 0 .. k - 1 \/ i \in k .. k + Nibble - 1
    BY <1>1
  <2> QED
    BY <1>5, <2>1 DEF Ones, InNibble
<1>7. A \cap B = {}
  BY <1>1 DEF Ones, InNibble
<1> HIDE DEF A, B, C
<1>8. Cardinality(A \cup B) = Cardinality(A) + Cardinality(B)
  <2>1. Cardinality(A \cup B) = Cardinality(A) + Cardinality(B) - Cardinality(A \cap B)
    BY <1>3, <1>4, FS_Union
  <2>2. Cardinality(A \cap B) = 0 /\ Cardinality(A) \in Nat /\ Cardinality(B) \in Nat
    BY <1>3, <1>4, <1>7, FS_EmptySet, FS_CardinalityType
  <2> QED
    BY <2>1, <2>2
<1> QED
  BY <1>3, <1>4, <1>6, <1>8 DEF A, B, C, k

\* bv_num counts the bits.
LEMMA NumIs ==
  ASSUME NEW v \in Vectors, Clean(v)
  PROVE  bv_num(v) = Cardinality(Bits(v))
<1> DEFINE N == NibbleCount(v)
           Card(n) == Cardinality(Ones(v, n * Nibble))
           More(n) == Cardinality(InNibble(v, n * Nibble))
           S == [n \in 0 .. N |-> {c \in Nat : c = Card(n)}]
           step == [n \in 1 .. N |-> [c \in Nat |-> c + More(n - 1)]]
           Def(g, n) == IF n = 0 THEN 0 ELSE g[n - 1] + More(n - 1)
           W == CHOOSE g : g = [n \in 0 .. N |-> Def(g, n)]
<1>1. N \in Nat
  BY NibblesReach
<1> HIDE DEF N
<1>2. 0 \in S[0]
  <2>1. 0 * Nibble = 0
    BY BitVecAssumption
  <2>2. Ones(v, 0) = {}
    BY DEF Ones
  <2>3. Card(0) = 0
    BY <2>1, <2>2, FS_EmptySet
  <2> HIDE DEF Card
  <2> QED
    BY <1>1, <2>3
<1>3. ASSUME NEW n \in 1 .. N, NEW c \in S[n - 1]
      PROVE  step[n][c] \in S[n] /\ c + More(n - 1) \in S[n] /\ step[n][c] = c + More(n - 1)
  <2>1. n - 1 \in 0 .. N /\ n \in 0 .. N /\ n - 1 \in Nat /\ n - 1 < N /\ (n - 1) + 1 = n
    BY <1>1
  <2>2. c \in Nat /\ c = Card(n - 1)
    BY <1>3, <2>1
  <2>3. /\ IsFiniteSet(InNibble(v, (n - 1) * Nibble)) /\ IsFiniteSet(Ones(v, (n - 1) * Nibble))
        /\ Cardinality(Ones(v, ((n - 1) + 1) * Nibble)) = Card(n - 1) + More(n - 1)
    BY <2>1, NextNibble DEF N
  <2>4. Card(n - 1) \in Nat /\ More(n - 1) \in Nat
    BY <2>3, FS_CardinalityType
  <2>5. Card(n) = c + More(n - 1)
    BY <2>1, <2>2, <2>3
  <2> HIDE DEF Card, More
  <2> QED
    BY <2>1, <2>2, <2>4, <2>5
<1> HIDE DEF step, S, Card, More
<1>4. PICK f : Loop(f, N, 0, step, S)
  <2>1. \A n \in 1 .. N : \A c \in S[n - 1] : step[n][c] \in S[n]
    BY <1>3
  <2> QED
    BY <1>1, <1>2, <2>1, Iterates
<1>5. f = [n \in 0 .. N |-> Def(f, n)]
  <2>1. ASSUME NEW n \in 0 .. N
        PROVE  f[n] = Def(f, n)
    <3>1. CASE n = 0
      BY <1>4, <3>1 DEF Loop
    <3>2. CASE n # 0
      <4>1. n \in 1 .. N /\ n - 1 \in 0 .. N
        BY <1>1, <3>2
      <4>2. f[n] = step[n][f[n - 1]] /\ f[n - 1] \in S[n - 1]
        BY <1>4, <4>1 DEF Loop
      <4>3. f[n] = f[n - 1] + More(n - 1)
        BY <1>3, <4>1, <4>2
      <4> QED
        BY <3>2, <4>3
    <3> QED
      BY <3>1, <3>2
  <2> QED
    BY <1>4, <2>1 DEF Loop
<1>6. W = [n \in 0 .. N |-> Def(W, n)]
  BY <1>5
<1>7. \A n \in 0 .. N : W[n] = Def(W, n)
  <2> HIDE DEF W
  <2> QED
    BY <1>6
<1> HIDE DEF W
<1>8. \A n \in 0 .. N : W[n] \in S[n]
  <2>1. W[0] \in S[0]
    <3>1. 0 \in 0 .. N
      BY <1>1
    <3>2. W[0] = 0
      BY <1>7, <3>1
    <3> QED
      BY <1>2, <3>2
  <2>2. ASSUME NEW n \in 1 .. N, W[n - 1] \in S[n - 1]
        PROVE  W[n] \in S[n]
    <3>1. W[n] = W[n - 1] + More(n - 1)
      <4>1. n \in 0 .. N /\ n # 0
        BY <1>1
      <4> QED
        BY <1>7, <4>1
    <3> QED
      BY <1>3, <2>2, <3>1
  <2> HIDE DEF Def
  <2> QED
    BY <1>1, <2>1, <2>2, LoopInvariant
<1>9. bv_num(v) = W[N]
  BY DEF bv_num, W, N, More
<1>10. bv_num(v) = Card(N)
  BY <1>1, <1>8, <1>9 DEF S
<1> QED
  BY <1>10, OnesAreBits DEF Card, N

-----------------------------------------------------------------------------
(* The answers.                                                            *)

\* A set that is not empty has an element that is chosen.
LEMMA FirstOne ==
  ASSUME NEW v \in Vectors, Clean(v), \E s \in DOMAIN v.word : v.word[s] # {}
  PROVE  bv_firstbit(v) \in Bits(v) /\ \A i \in Bits(v) : bv_firstbit(v) <= i
<1> DEFINE First(t) == v.word[t] # {} /\ \A u \in 1 .. t - 1 : v.word[u] = {}
           s == CHOOSE t \in DOMAIN v.word : First(t)
           low == CHOOSE b \in v.word[s] : \A c \in v.word[s] : b <= c
           Inside(n) == low \in n * Byte .. (n + 1) * Byte - 1
           b == CHOOSE n \in 0 .. 3 : Inside(n)
           i == low + (s - 1) * Word
<1>1. /\ DOMAIN v.word = 1 .. bv_nwords(v.len) /\ bv_nwords(v.len) \in Nat /\ Word \in Nat \ {0}
      /\ v.word \in [DOMAIN v.word -> SUBSET WordBits]
  BY VectorIs, BitVecAssumption
<1>2. \E t \in DOMAIN v.word : First(t)
  <2> DEFINE T == {t \in DOMAIN v.word : v.word[t] # {}}
  <2>1. T \in SUBSET Nat /\ T # {}
    BY <1>1
  <2> HIDE DEF T
  <2>2. PICK t \in T : \A u \in T : t <= u
    BY <2>1, LeastElement
  <2>3. t \in DOMAIN v.word /\ v.word[t] # {}
    BY <2>2 DEF T
  <2>4. ASSUME NEW u \in 1 .. t - 1
        PROVE  v.word[u] = {}
    <3>1. u \in DOMAIN v.word /\ ~(t <= u)
      BY <1>1, <2>3
    <3> QED
      BY <2>2, <3>1 DEF T
  <2> QED
    BY <2>3, <2>4
<1>3. s \in DOMAIN v.word /\ First(s)
  BY <1>2
<1> HIDE DEF s
<1>4. \E c \in v.word[s] : \A d \in v.word[s] : c <= d
  <2>1. v.word[s] \in SUBSET Nat /\ v.word[s] # {}
    BY <1>1, <1>3 DEF WordBits
  <2> QED
    BY <2>1, LeastElement
<1>5. low \in v.word[s] /\ \A c \in v.word[s] : low <= c
  BY <1>4
<1> HIDE DEF low
<1>6. low \in 0 .. Word - 1
  BY <1>1, <1>3, <1>5 DEF WordBits
<1>7. \E n \in 0 .. 3 : Inside(n)
  <2>1. Word = 4 * Byte /\ Byte \in Nat
    BY BitVecAssumption DEF Byte
  <2>2. low \in 0 * Byte .. (0 + 1) * Byte - 1 \/ low \in 1 * Byte .. (1 + 1) * Byte - 1
        \/ low \in 2 * Byte .. (2 + 1) * Byte - 1 \/ low \in 3 * Byte .. (3 + 1) * Byte - 1
    BY <1>6, <2>1
  <2> QED
    BY <2>2
<1>8. b \in 0 .. 3
  BY <1>7
<1>9. bv_firstbit(v) = bv_ffb({low - b * Byte}) + ByteOffset(b) + (s - 1) * Word
  <2>1. ~(\A t \in DOMAIN v.word : v.word[t] = {})
    OBVIOUS
  <2> QED
    BY <2>1, Zenon DEF bv_firstbit, s, low
<1> HIDE DEF b
<1>10. bv_ffb({low - b * Byte}) = low - b * Byte
  BY DEF bv_ffb
<1>11. bv_firstbit(v) = i
  <2>1. b * Byte \in Int /\ (s - 1) * Word \in Int /\ low \in Int
    <3>1. Byte \in Int
      BY BitVecAssumption DEF Byte
    <3> QED
      BY <1>1, <1>3, <1>6, <1>8, <3>1
  <2> QED
    BY <1>9, <1>10, <2>1 DEF ByteOffset
<1> HIDE DEF First
<1>12. i \in Bits(v)
  <2>1. (s - 1) * Word + low < v.len
    BY <1>3, <1>5 DEF Clean
  <2>2. i = (s - 1) * Word + low
    BY <1>1, <1>3, <1>6
  <2> QED
    BY <1>3, <1>5, <2>1, <2>2, PlaceIn
<1>13. ASSUME NEW j \in Bits(v)
       PROVE  i <= j
  <2> DEFINE t == WordOf(j)
             c == BitOf(j)
  <2>1. j \in Nat /\ j < v.len /\ c \in v.word[t]
    BY VectorIs DEF Bits
  <2>2. t \in DOMAIN v.word /\ c \in 0 .. Word - 1 /\ j = Word * (t - 1) + c
    BY <2>1, WordIn, PlaceOfBit DEF WordBits
  <2> HIDE DEF t, c
  <2>3. ~(t < s)
    <3> SUFFICES ASSUME t < s
                 PROVE  FALSE
      OBVIOUS
    <3>1. t \in 1 .. s - 1
      BY <1>1, <1>3, <2>2
    <3>2. v.word[t] = {}
      BY <1>3, <3>1 DEF First
    <3> QED
      BY <2>1, <3>2
  <2>4. (s - 1) * Word = Word * (s - 1) /\ Word * (s - 1) \in Int
    BY <1>1, <1>3
  <2>5. CASE t = s
    BY <1>5, <1>6, <2>1, <2>2, <2>4, <2>5
  <2>6. CASE s < t
    <3>1. Word * (s - 1) + Word <= Word * (t - 1)
      <4>1. Word \in Nat \ {0} /\ s - 1 \in Int /\ t - 1 \in Int /\ s - 1 < t - 1
        BY <1>1, <1>3, <2>2, <2>6
      <4> QED
        BY <4>1, TimesMonotone
    <3>2. Word * (t - 1) \in Int
      BY <1>1, <2>2
    <3> QED
      BY <1>1, <1>6, <2>2, <2>4, <3>1, <3>2
  <2> QED
    BY <1>1, <1>3, <2>2, <2>3, <2>5, <2>6
<1> QED
  BY <1>11, <1>12, <1>13

LEMMA FirstbitIs ==
  ASSUME NEW v \in Vectors, Clean(v)
  PROVE  IF Bits(v) = {} THEN bv_firstbit(v) = -1
         ELSE bv_firstbit(v) \in Bits(v) /\ \A i \in Bits(v) : bv_firstbit(v) <= i
<1>1. CASE \E s \in DOMAIN v.word : v.word[s] # {}
  BY <1>1, FirstOne
<1>2. CASE \A s \in DOMAIN v.word : v.word[s] = {}
  <2>1. bv_firstbit(v) = -1
    BY <1>2 DEF bv_firstbit
  <2>2. Bits(v) = {}
    <3>1. ASSUME NEW i \in 0 .. v.len - 1
          PROVE  BitOf(i) \notin v.word[WordOf(i)]
      BY <1>2, VectorIs, WordIn
    <3> QED
      BY <3>1 DEF Bits
  <2> QED
    BY <2>1, <2>2
<1> QED
  BY <1>1, <1>2

LEMMA SubsetIs ==
  ASSUME NEW u \in Vectors, NEW v \in Vectors, Clean(u), u.len <= v.len
  PROVE  bv_subset(u, v) <=> Bits(u) \subseteq Bits(v)
<1> DEFINE n == bv_nwords(u.len)
<1>1. /\ DOMAIN u.word = 1 .. n /\ u.word \in [1 .. n -> SUBSET WordBits]
      /\ u.len \in Nat \ {0} /\ v.len \in Nat \ {0}
  BY VectorIs
<1> HIDE DEF n
<1>2. ASSUME \A s \in 1 .. n : u.word[s] \cap (WordBits \ v.word[s]) = {}, NEW i \in Bits(u)
      PROVE  i \in Bits(v)
  <2>1. i \in Nat /\ i < u.len /\ i < v.len /\ BitOf(i) \in u.word[WordOf(i)]
    BY <1>1 DEF Bits
  <2>2. WordOf(i) \in 1 .. n /\ BitOf(i) \in WordBits
    BY <1>1, <2>1, WordIn
  <2>3. BitOf(i) \in v.word[WordOf(i)]
    BY <1>2, <2>1, <2>2
  <2> QED
    BY <1>1, <2>1, <2>3 DEF Bits
<1>3. ASSUME Bits(u) \subseteq Bits(v), NEW s \in 1 .. n, NEW b \in u.word[s]
      PROVE  b \in v.word[s]
  <2> DEFINE i == (s - 1) * Word + b
  <2>1. i < u.len
    BY <1>1, <1>3 DEF Clean
  <2>2. i \in Bits(u) /\ WordOf(i) = s /\ BitOf(i) = b
    BY <1>1, <2>1, PlaceIn
  <2> HIDE DEF i
  <2> QED
    BY <1>3, <2>2 DEF Bits
<1>4. bv_subset(u, v) <=> \A s \in 1 .. n : u.word[s] \cap (WordBits \ v.word[s]) = {}
  BY DEF bv_subset, n
<1>5. (\A s \in 1 .. n : \A b \in u.word[s] : b \in v.word[s]) => \A s \in 1 .. n : u.word[s] \cap (WordBits \ v.word[s]) = {}
  OBVIOUS
<1> QED
  BY <1>2, <1>3, <1>4, <1>5

LEMMA EqIs ==
  ASSUME NEW u \in Vectors, NEW v \in Vectors, Clean(u), Clean(v), u.len = v.len
  PROVE  bv_eq(u, v) <=> Bits(u) = Bits(v)
<1> DEFINE n == bv_nwords(u.len)
<1>1. u.word \in [1 .. n -> SUBSET WordBits] /\ v.word \in [1 .. n -> SUBSET WordBits] /\ u.len \in Nat
  BY VectorIs
<1>2. bv_eq(u, v) <=> \A s \in 1 .. n : u.word[s] = v.word[s]
  BY DEF bv_eq
<1>3. /\ bv_subset(u, v) <=> \A s \in 1 .. n : u.word[s] \cap (WordBits \ v.word[s]) = {}
      /\ bv_subset(v, u) <=> \A s \in 1 .. n : v.word[s] \cap (WordBits \ u.word[s]) = {}
  BY <1>1 DEF bv_subset
<1> HIDE DEF n
<1>4. ASSUME bv_eq(u, v)
      PROVE  Bits(u) = Bits(v)
  <2>1. u.word = v.word
    <3>1. u.word = [s \in 1 .. n |-> u.word[s]] /\ v.word = [s \in 1 .. n |-> v.word[s]]
      BY <1>1
    <3>2. \A s \in 1 .. n : u.word[s] = v.word[s]
      BY <1>2, <1>4
    <3> QED
      BY <3>1, <3>2
  <2> QED
    BY <2>1 DEF Bits
<1>5. ASSUME Bits(u) = Bits(v)
      PROVE  bv_eq(u, v)
  <2>1. bv_subset(u, v) /\ bv_subset(v, u)
    BY <1>1, <1>5, SubsetIs
  <2>2. ASSUME NEW s \in 1 .. n
        PROVE  u.word[s] = v.word[s]
    <3>1. u.word[s] \in SUBSET WordBits /\ v.word[s] \in SUBSET WordBits
      BY <1>1
    <3>2. u.word[s] \cap (WordBits \ v.word[s]) = {} /\ v.word[s] \cap (WordBits \ u.word[s]) = {}
      BY <1>3, <2>1
    <3> QED
      BY <3>1, <3>2
  <2> QED
    BY <1>2, <2>2
<1> QED
  BY <1>4, <1>5

-----------------------------------------------------------------------------
(* The program.                                                            *)

\* Every name stands for a vector without stray ones, or for none.
BankInv == bank \in [Names -> Vectors \cup {NoVector}] /\ NoStrayBits

LEMMA MadeIs ==
  ASSUME BankInv
  PROVE  /\ \A x \in Made : x \in Names /\ bank[x] \in Vectors /\ Clean(bank[x]) /\ bank[x].len \in Nat \ {0}
         /\ \A x \in Names : x \in Made <=> bank[x] \in Vectors
         /\ \A x \in Made : \A y \in Alike(x) : y \in Made /\ bank[y].len = bank[x].len
  BY VectorIs, NoVectorIsNone DEF BankInv, Made, NoStrayBits, Clean, Alike

\* What is put into a name must be sound; then the set it stands for is known.
LEMMA PutKeeps ==
  ASSUME BankInv, NEW x \in Names, NEW v \in Vectors, Clean(v), Put(x, v)
  PROVE  BankInv' /\ bank'[x] = v /\ After(x) = Bits(v)
<1>1. bank \in [Names -> Vectors \cup {NoVector}] /\ bank' = [bank EXCEPT ![x] = v]
  BY DEF BankInv, Put
<1>2. bank' \in [Names -> Vectors \cup {NoVector}]
  BY <1>1
<1>3. bank'[x] = v /\ \A y \in Names : y # x => bank'[y] = bank[y]
  BY <1>1
<1>4. NoStrayBits'
  <2> SUFFICES ASSUME NEW y \in Names, bank'[y] # NoVector
               PROVE  Clean(bank'[y])
    BY DEF NoStrayBits, Made, Clean
  <2>1. CASE y = x
    BY <1>3, <2>1
  <2>2. CASE y # x
    <3>1. y \in Made /\ bank'[y] = bank[y]
      BY <1>3, <2>2 DEF Made
    <3> QED
      BY <3>1, MadeIs
  <2> QED
    BY <2>1, <2>2
<1> QED
  BY <1>2, <1>3, <1>4 DEF BankInv, After

LEMMA MakeKeeps == BankInv /\ Make => BankInv'
<1> SUFFICES ASSUME BankInv, Make
             PROVE  BankInv'
  OBVIOUS
<1>0. PICK x \in Names :
        \/ \E l \in Lengths : New(x, l) \/ New1(x, l)
        \/ \E l \in Lengths : l % Word = 0 /\ \E a \in Arrays(l \div Word) : InitFrom(x, a)
        \/ \E y \in Made : Copy(x, y)
        \/ \E y \in Made : \E z \in Alike(y) : RUnion(x, y, z) \/ RInter(x, y, z) \/ RDiff(x, y, z)
  BY DEF Make
<1>1. Lengths \subseteq Nat \ {0}
  BY BitVecAssumption
<1>2. ASSUME NEW l \in Lengths, New(x, l) \/ New1(x, l)
      PROVE  BankInv'
  BY <1>1, <1>2, ZeroedIs, New1Is, PutKeeps DEF New, New1, Alive
<1>3. ASSUME NEW l \in Lengths, l % Word = 0, NEW a \in Arrays(l \div Word), InitFrom(x, a)
      PROVE  BankInv'
  BY <1>1, <1>3, InitIs, PutKeeps DEF InitFrom, Alive
<1>4. ASSUME NEW y \in Made, Copy(x, y)
      PROVE  BankInv'
  BY <1>4, MadeIs, PutKeeps DEF Copy
<1>5. ASSUME NEW y \in Made, NEW z \in Alike(y), RUnion(x, y, z) \/ RInter(x, y, z) \/ RDiff(x, y, z)
      PROVE  BankInv'
  <2> DEFINE u == bank[y]
             v == bank[z]
  <2>1. u \in Vectors /\ v \in Vectors /\ u.len = v.len /\ Clean(u) /\ Clean(v)
    BY MadeIs
  <2>2. Put(x, bv_union2(u, v)) \/ Put(x, bv_inter2(u, v)) \/ Put(x, bv_diff2(u, v))
    BY <1>5 DEF RUnion, RInter, RDiff
  <2> HIDE DEF u, v
  <2> QED
    BY <2>1, <2>2, UnionIs, InterIs, DiffIs, PutKeeps DEF Alive
<1> QED
  BY <1>0, <1>2, <1>3, <1>4, <1>5

\* What one bit's operation leaves, as a vector and as a set.
LEMMA OneBitDoes ==
  ASSUME BankInv, NEW x \in Made, NEW i \in 0 .. bank[x].len
  PROVE  /\ Set(x, i) => BankInv' /\ After(x) = Now(x) \cup ({i} \cap Within(x))
         /\ Unset(x, i) => BankInv' /\ After(x) = Now(x) \ {i}
         /\ \A y \in Made : CSet(x, y, i) => BankInv'
         /\ \A y \in Alike(x) : CSet(x, y, i) => After(x) = Now(x) \cup (({i} \cap Within(x)) \ Now(y))
         /\ EachBit(x, i) => BankInv' /\ After(x) = Now(x) \ {i}
<1> DEFINE v == bank[x]
<1>1. v \in Vectors /\ Clean(v) /\ v.len \in Nat \ {0} /\ x \in Names
  BY MadeIs
<1>2. i \in Nat
  BY <1>1
<1>3. Now(x) = Bits(v) /\ Within(x) = 0 .. v.len - 1
  BY DEF Now, Within
<1>4. ASSUME Set(x, i)
      PROVE  BankInv' /\ After(x) = Now(x) \cup ({i} \cap Within(x))
  <2>1. Put(x, bv_set(v, i))
    BY <1>4 DEF Set
  <2> HIDE DEF v
  <2>2. bv_set(v, i) \in Vectors /\ Clean(bv_set(v, i))
    BY <1>1, <1>2, SetIs DEF Alive
  <2>3. Bits(bv_set(v, i)) = Now(x) \cup ({i} \cap Within(x))
    BY <1>1, <1>2, <1>3, SetIs
  <2>4. BankInv' /\ After(x) = Bits(bv_set(v, i))
    BY <1>1, <2>1, <2>2, PutKeeps
  <2> QED
    BY <2>3, <2>4
<1>5. ASSUME Unset(x, i)
      PROVE  BankInv' /\ After(x) = Now(x) \ {i}
  <2>1. Put(x, bv_unset(v, i))
    BY <1>5 DEF Unset
  <2> HIDE DEF v
  <2>2. bv_unset(v, i) \in Vectors /\ Clean(bv_unset(v, i))
    BY <1>1, <1>2, UnsetIs DEF Alive
  <2>3. Bits(bv_unset(v, i)) = Now(x) \ {i}
    BY <1>1, <1>2, <1>3, UnsetIs
  <2>4. BankInv' /\ After(x) = Bits(bv_unset(v, i))
    BY <1>1, <2>1, <2>2, PutKeeps
  <2> QED
    BY <2>3, <2>4
<1>6. ASSUME NEW y \in Made, CSet(x, y, i)
      PROVE  BankInv' /\ (y \in Alike(x) => After(x) = Now(x) \cup (({i} \cap Within(x)) \ Now(y)))
  <2> DEFINE u == bank[y]
  <2>1. Put(x, bv_cset(v, u, i)) /\ Now(y) = Bits(u)
    BY <1>6 DEF CSet, Now
  <2>2. u \in Vectors /\ (y \in Alike(x) => v.len = u.len)
    BY MadeIs
  <2> HIDE DEF u, v
  <2> DEFINE w == bv_cset(v, u, i)
  <2>3. /\ w \in Vectors /\ Clean(w)
        /\ v.len = u.len => Bits(w) = Bits(v) \cup (({i} \cap 0 .. v.len - 1) \ Bits(u))
    BY <1>1, <1>2, <2>2, CSetIs DEF Alive
  <2>4. Put(x, w)
    BY <2>1
  <2> HIDE DEF w
  <2>5. BankInv' /\ After(x) = Bits(w)
    BY <1>1, <2>3, <2>4, PutKeeps
  <2> QED
    BY <1>3, <2>1, <2>2, <2>3, <2>5
<1>7. ASSUME EachBit(x, i)
      PROVE  BankInv' /\ After(x) = Now(x) \ {i}
  <2>1. Put(x, bv_eachbit(v, i).vec)
    BY <1>7 DEF EachBit
  <2> HIDE DEF v
  <2> QED
    BY <1>1, <1>2, <1>3, <2>1, EachIs, PutKeeps DEF Alive
<1>8. \A y \in Alike(x) : y \in Made
  BY MadeIs
<1> QED
  BY <1>4, <1>5, <1>6, <1>7, <1>8

\* The same for the operations on a whole vector.
LEMMA AloneDoes ==
  ASSUME BankInv, NEW x \in Made
  PROVE  /\ Clear(x) => BankInv' /\ After(x) = {}
         /\ Fill(x) => BankInv' /\ After(x) = Within(x)
         /\ Not(x) => BankInv' /\ After(x) = Within(x) \ Now(x)
         /\ \A a \in Arrays(bank[x].len \div Word) : Reinit(x, a) => BankInv'
<1> DEFINE v == bank[x]
<1>1. v \in Vectors /\ Clean(v) /\ x \in Names
  BY MadeIs
<1>2. Now(x) = Bits(v) /\ Within(x) = 0 .. v.len - 1
  BY DEF Now, Within
<1>3. /\ Clear(x) => Put(x, bv_clear(v))
      /\ Fill(x) => Put(x, bv_fill(v))
      /\ Not(x) => Put(x, bv_not(v))
      /\ \A a : Reinit(x, a) => Put(x, bv_reinit(v, a))
  BY DEF Clear, Fill, Not, Reinit
<1> HIDE DEF v
<1>4. ASSUME NEW a \in Arrays(v.len \div Word), Reinit(x, a)
      PROVE  BankInv'
  BY <1>1, <1>3, <1>4, ReinitIs, PutKeeps DEF Alive
<1>5. ASSUME Clear(x)
      PROVE  BankInv' /\ After(x) = {}
  BY <1>1, <1>3, <1>5, ClearIs, PutKeeps DEF Alive
<1>6. ASSUME Fill(x)
      PROVE  BankInv' /\ After(x) = Within(x)
  BY <1>1, <1>2, <1>3, <1>6, FillIs, PutKeeps DEF Alive
<1>7. ASSUME Not(x)
      PROVE  BankInv' /\ After(x) = Within(x) \ Now(x)
  BY <1>1, <1>2, <1>3, <1>7, NotIs, PutKeeps DEF Alive
<1> QED
  BY <1>4, <1>5, <1>6, <1>7 DEF v

\* And for those that take other vectors, which may be the one they change.
LEMMA TogetherDo ==
  ASSUME BankInv, NEW x \in Made, NEW y \in Alike(x), NEW z \in Alike(x)
  PROVE  /\ Union2(x, y, z) => BankInv' /\ After(x) = Now(y) \cup Now(z)
         /\ Union2s(x, y, z) => BankInv' /\ After(x) = Now(x) \cup Now(y) \cup Now(z)
         /\ Inter2(x, y, z) => BankInv' /\ After(x) = Now(y) \cap Now(z)
         /\ Diff2(x, y, z) => BankInv' /\ After(x) = Now(y) \ Now(z)
         /\ Xor(x, y) => BankInv' /\ After(x) = (Now(x) \cup Now(y)) \ (Now(x) \cap Now(y))
         /\ CopyTo(x, y) => BankInv' /\ After(x) = Now(y)
<1> DEFINE a == bank[x]
           b == bank[y]
           c == bank[z]
<1>1. /\ a \in Vectors /\ b \in Vectors /\ c \in Vectors /\ x \in Names
      /\ Clean(a) /\ Clean(b) /\ Clean(c) /\ b.len = a.len /\ c.len = a.len
  BY MadeIs
<1>2. Now(x) = Bits(a) /\ Now(y) = Bits(b) /\ Now(z) = Bits(c)
  BY DEF Now
<1>3. /\ Union2(x, y, z) => Put(x, bv_union2(b, c))
      /\ Union2s(x, y, z) => Put(x, bv_union2(a, bv_union2(b, c)))
      /\ Inter2(x, y, z) => Put(x, bv_inter2(b, c))
      /\ Diff2(x, y, z) => Put(x, bv_diff2(b, c))
      /\ Xor(x, y) => Put(x, bv_xor(a, b))
      /\ CopyTo(x, y) => Put(x, [a EXCEPT !.word = b.word])
  BY DEF Union2, Union2s, Inter2, Diff2, Xor, CopyTo, bv_union2s
<1> HIDE DEF a, b, c
<1>4. ASSUME Union2(x, y, z)
      PROVE  BankInv' /\ After(x) = Now(y) \cup Now(z)
  BY <1>1, <1>2, <1>3, <1>4, UnionIs, PutKeeps DEF Alive
<1>5. ASSUME Union2s(x, y, z)
      PROVE  BankInv' /\ After(x) = Now(x) \cup Now(y) \cup Now(z)
  <2> DEFINE d == bv_union2(b, c)
  <2>1. d \in Vectors /\ d.len = a.len /\ Clean(d) /\ Bits(d) = Bits(b) \cup Bits(c)
    BY <1>1, UnionIs DEF Alive
  <2>2. Put(x, bv_union2(a, d))
    BY <1>3, <1>5
  <2> HIDE DEF d
  <2>3. BankInv' /\ After(x) = Bits(a) \cup Bits(d)
    BY <1>1, <2>1, <2>2, UnionIs, PutKeeps DEF Alive
  <2> QED
    BY <1>2, <2>1, <2>3
<1>6. ASSUME Inter2(x, y, z)
      PROVE  BankInv' /\ After(x) = Now(y) \cap Now(z)
  BY <1>1, <1>2, <1>3, <1>6, InterIs, PutKeeps DEF Alive
<1>7. ASSUME Diff2(x, y, z)
      PROVE  BankInv' /\ After(x) = Now(y) \ Now(z)
  BY <1>1, <1>2, <1>3, <1>7, DiffIs, PutKeeps DEF Alive
<1>8. ASSUME Xor(x, y)
      PROVE  BankInv' /\ After(x) = (Now(x) \cup Now(y)) \ (Now(x) \cap Now(y))
  BY <1>1, <1>2, <1>3, <1>8, XorIs, PutKeeps DEF Alive
<1>9. ASSUME CopyTo(x, y)
      PROVE  BankInv' /\ After(x) = Now(y)
  <2>1. [a EXCEPT !.word = b.word] = b
    <3>1. a = [len |-> a.len, word |-> a.word] /\ b = [len |-> b.len, word |-> b.word]
      BY <1>1, VectorIs
    <3>2. [a EXCEPT !.word = b.word] = [len |-> a.len, word |-> b.word]
      BY <3>1
    <3> QED
      BY <1>1, <3>1, <3>2
  <2> QED
    BY <1>1, <1>2, <1>3, <1>9, <2>1, PutKeeps
<1> QED
  BY <1>4, <1>5, <1>6, <1>7, <1>8, <1>9

LEMMA BitNextKeeps == BankInv /\ [BitNext]_bank => BankInv'
<1> SUFFICES ASSUME BankInv, [BitNext]_bank
             PROVE  BankInv'
  OBVIOUS
<1>1. CASE UNCHANGED bank
  BY <1>1 DEF BankInv, NoStrayBits, Made
<1>2. CASE Make
  BY <1>2, MakeKeeps
<1>3. CASE OneBit
  <2>1. PICK x \in Made : \E i \in 0 .. bank[x].len : Set(x, i) \/ Unset(x, i) \/ \E y \in Made : CSet(x, y, i)
    BY <1>3 DEF OneBit
  <2>2. PICK i \in 0 .. bank[x].len : Set(x, i) \/ Unset(x, i) \/ \E y \in Made : CSet(x, y, i)
    BY <2>1
  <2> QED
    BY <2>2, OneBitDoes
<1>4. CASE Whole
  <2>1. PICK x \in Made :
          \/ Clear(x) \/ Fill(x) \/ Not(x)
          \/ \E a \in Arrays(bank[x].len \div Word) : Reinit(x, a)
          \/ \E r \in 0 .. bank[x].len - 1 : EachBit(x, r)
          \/ \E y \in Alike(x) : CopyTo(x, y) \/ Xor(x, y)
          \/ \E y, z \in Alike(x) : Union2(x, y, z) \/ Union2s(x, y, z) \/ Inter2(x, y, z) \/ Diff2(x, y, z)
    BY <1>4 DEF Whole
  <2>2. CASE Clear(x) \/ Fill(x) \/ Not(x) \/ \E a \in Arrays(bank[x].len \div Word) : Reinit(x, a)
    BY <2>2, AloneDoes
  <2>3. ASSUME NEW r \in 0 .. bank[x].len - 1, EachBit(x, r)
        PROVE  BankInv'
    <3>1. r \in 0 .. bank[x].len
      BY MadeIs
    <3> QED
      BY <2>3, <3>1, OneBitDoes
  <2>4. ASSUME NEW y \in Alike(x), CopyTo(x, y) \/ Xor(x, y)
        PROVE  BankInv'
    BY <2>4, TogetherDo
  <2>5. ASSUME NEW y \in Alike(x), NEW z \in Alike(x),
               Union2(x, y, z) \/ Union2s(x, y, z) \/ Inter2(x, y, z) \/ Diff2(x, y, z)
        PROVE  BankInv'
    BY <2>5, TogetherDo
  <2> QED
    BY <2>1, <2>2, <2>3, <2>4, <2>5
<1> QED
  BY <1>1, <1>2, <1>3, <1>4 DEF BitNext

LEMMA BitInitSound == BitInit => BankInv
BY DEF BitInit, BankInv, NoStrayBits, Made

\* bv_setf and bv_unsetf report a change.
LEMMA ReportsChange ==
  ASSUME BankInv, NEW x \in Made, NEW i \in 0 .. bank[x].len
  PROVE  /\ Set(x, i) => (bv_setf(bank[x], i) <=> After(x) # Now(x))
         /\ Unset(x, i) => (bv_unsetf(bank[x], i) <=> After(x) # Now(x))
<1> DEFINE v == bank[x]
<1>1. v \in Vectors /\ v.len \in Nat
  BY MadeIs
<1>2. i \in Nat /\ (bv_setp(v, i) <=> i \in Now(x))
  BY <1>1, SetpIs DEF Now
<1>3. InBounds(v, i) <=> i \in Within(x)
  BY <1>1, <1>2 DEF InBounds, Within
<1>4. Now(x) \subseteq Within(x)
  BY DEF Now, Bits, Within
<1>5. Set(x, i) => After(x) = Now(x) \cup ({i} \cap Within(x))
  BY OneBitDoes
<1>6. Unset(x, i) => After(x) = Now(x) \ {i}
  BY OneBitDoes
<1> HIDE DEF v
<1>7. bv_setf(v, i) <=> i \in Within(x) /\ i \notin Now(x)
  BY <1>2, <1>3 DEF bv_setf
<1>8. bv_unsetf(v, i) <=> i \in Now(x)
  BY <1>2, <1>3, <1>4 DEF bv_unsetf
<1> QED
  BY <1>5, <1>6, <1>7, <1>8 DEF v

LEMMA StepOperates ==
  ASSUME BankInv
  PROVE  Operates
<1>1. ASSUME NEW x \in Names, NEW l \in Lengths, New1(x, l)
      PROVE  After(x) = 0 .. l - 1
  <2>1. l \in Nat \ {0}
    BY BitVecAssumption
  <2> QED
    BY <1>1, <2>1, New1Is, PutKeeps DEF New1, Alive
<1> QED
  BY <1>1, OneBitDoes, ReportsChange, AloneDoes, TogetherDo DEF Operates

LEMMA SoundAnswers == BankInv => AnswersAsSet
<1> SUFFICES ASSUME BankInv, NEW x \in Made
             PROVE  /\ \A i \in 0 .. bank[x].len : bv_setp(bank[x], i) <=> i \in Now(x)
                    /\ bv_num(bank[x]) = Cardinality(Now(x))
                    /\ IF Now(x) = {} THEN bv_firstbit(bank[x]) = -1
                       ELSE bv_firstbit(bank[x]) \in Now(x) /\ \A i \in Now(x) : bv_firstbit(bank[x]) <= i
                    /\ \A r \in 0 .. bank[x].len : Ascending(Now(x), bv_eachbit(bank[x], r).applied)
                    /\ \A y \in Alike(x) : bv_eq(bank[x], bank[y]) <=> Now(x) = Now(y)
                    /\ \A y \in Made :
                         bank[x].len <= bank[y].len => (bv_subset(bank[x], bank[y]) <=> Now(x) \subseteq Now(y))
  BY DEF AnswersAsSet
<1> DEFINE v == bank[x]
<1>1. v \in Vectors /\ Clean(v) /\ v.len \in Nat /\ Now(x) = Bits(v)
  BY MadeIs DEF Now
<1>2. \A i \in 0 .. v.len : i \in Nat
  BY <1>1
<1>3. ASSUME NEW y \in Alike(x)
      PROVE  bv_eq(v, bank[y]) <=> Now(x) = Now(y)
  BY <1>1, MadeIs, EqIs DEF Now
<1>4. ASSUME NEW y \in Made, v.len <= bank[y].len
      PROVE  bv_subset(v, bank[y]) <=> Now(x) \subseteq Now(y)
  BY <1>1, <1>4, MadeIs, SubsetIs DEF Now
<1> HIDE DEF v
<1>5. \A i \in 0 .. v.len : bv_setp(v, i) <=> i \in Now(x)
  BY <1>1, <1>2, SetpIs
<1>6. bv_num(v) = Cardinality(Now(x))
  BY <1>1, NumIs
<1>7. IF Now(x) = {} THEN bv_firstbit(v) = -1 ELSE bv_firstbit(v) \in Now(x) /\ \A i \in Now(x) : bv_firstbit(v) <= i
  BY <1>1, FirstbitIs
<1>8. \A r \in 0 .. v.len : Ascending(Now(x), bv_eachbit(v, r).applied)
  BY <1>1, <1>2, EachIs
<1> QED
  BY <1>3, <1>4, <1>5, <1>6, <1>7, <1>8 DEF v

-----------------------------------------------------------------------------
(* The theorems.                                                           *)

\* bv.h keeps every vector it makes well formed, with no one behind its end.
THEOREM VectorsSound == BitSpec => []BankInv
<1>1. BitInit => BankInv
  BY BitInitSound
<1>2. BankInv /\ [BitNext]_bank => BankInv'
  BY BitNextKeeps
<1> QED
  BY <1>1, <1>2, PTL DEF BitSpec

\* What bv.h answers about a vector is what holds of the set it stands for.
THEOREM VectorsAnswer == BitSpec => []AnswersAsSet
<1>1. BankInv => AnswersAsSet
  BY SoundAnswers
<1> QED
  BY <1>1, VectorsSound, PTL

\* Each operation of bv.h does to the sets what its comment promises.
THEOREM VectorsOperate == BitSpec => OperatesAsSet
<1>1. BankInv => [Operates]_bank
  BY StepOperates
<1> QED
  BY <1>1, VectorsSound, PTL DEF OperatesAsSet

-----------------------------------------------------------------------------
(* Rings of elements.                                                      *)

\* R is the order of a ring of m of the elements 1 to N with links p and n.
Ring(p, n, N, R, m) ==
  /\ R \in [1 .. m -> 1 .. N]
  /\ \A i, j \in 1 .. m : R[i] = R[j] => i = j
  /\ \A k \in 1 .. m :
       /\ n[R[k]] = R[IF k = m THEN 1 ELSE k + 1]
       /\ p[R[k]] = R[IF k = 1 THEN m ELSE k - 1]

Links(N) == [1 .. N -> 1 .. N]

\* A sequence of m without its i-th element, and with e as its i-th.
Less(R, m, i) == [k \in 1 .. m - 1 |-> IF k < i THEN R[k] ELSE R[k + 1]]
More(R, m, i, e) == [k \in 1 .. m + 1 |-> IF k < i THEN R[k] ELSE IF k = i THEN e ELSE R[k - 1]]

\* A ring does not depend on the links of other elements.
LEMMA OtherRing ==
  ASSUME NEW N, NEW m, NEW R, NEW p, NEW n, NEW p2, NEW n2, Ring(p, n, N, R, m),
         \A k \in 1 .. m : p2[R[k]] = p[R[k]] /\ n2[R[k]] = n[R[k]]
  PROVE  Ring(p2, n2, N, R, m)
BY DEF Ring

\* Unlinking closes the ring behind the element.
LEMMA RingLess ==
  ASSUME NEW N \in Nat, NEW m \in Nat, m > 1, NEW R, NEW p \in Links(N), NEW n \in Links(N), NEW i \in 1 .. m,
         NEW p2, NEW n2, Ring(p, n, N, R, m),
         \A x \in 1 .. N : n2[x] = IF x = p[R[i]] THEN n[R[i]] ELSE n[x],
         \A x \in 1 .. N : p2[x] = IF x = n[R[i]] THEN p[R[i]] ELSE p[x]
  PROVE  Ring(p2, n2, N, Less(R, m, i), m - 1)
<1> DEFINE Q == Less(R, m, i)
           a(k) == IF k < i THEN k ELSE k + 1
<1>1. R \in [1 .. m -> 1 .. N] /\ \A j \in 1 .. m : R[j] \in 1 .. N
  BY DEF Ring
<1>2. \A k \in 1 .. m - 1 : a(k) \in 1 .. m /\ a(k) # i /\ Q[k] = R[a(k)]
  BY DEF Less
<1>3. Q \in [1 .. m - 1 -> 1 .. N]
  BY <1>1 DEF Less
<1>4. \A k, j \in 1 .. m - 1 : Q[k] = Q[j] => k = j
  <2> SUFFICES ASSUME NEW k \in 1 .. m - 1, NEW j \in 1 .. m - 1, Q[k] = Q[j]
               PROVE  k = j
    OBVIOUS
  <2>1. R[a(k)] = R[a(j)] /\ a(k) \in 1 .. m /\ a(j) \in 1 .. m
    BY <1>2
  <2>2. \A x, y \in 1 .. m : R[x] = R[y] => x = y
    BY DEF Ring
  <2>3. a(k) = a(j)
    <3> HIDE DEF a
    <3> QED
      BY <2>1, <2>2
  <2> QED
    BY <2>3
<1> DEFINE before == IF i = 1 THEN m ELSE i - 1
           behind == IF i = m THEN 1 ELSE i + 1
<1>5. before \in 1 .. m /\ behind \in 1 .. m /\ p[R[i]] = R[before] /\ n[R[i]] = R[behind]
  BY DEF Ring
<1>6. \A j \in 1 .. m : n2[R[j]] = IF j = before THEN R[behind] ELSE R[IF j = m THEN 1 ELSE j + 1]
  <2> SUFFICES ASSUME NEW j \in 1 .. m
               PROVE  n2[R[j]] = IF j = before THEN R[behind] ELSE R[IF j = m THEN 1 ELSE j + 1]
    OBVIOUS
  <2>1. R[j] \in 1 .. N
    BY <1>1
  <2>2. n2[R[j]] = IF R[j] = R[before] THEN R[behind] ELSE n[R[j]]
    BY <1>5, <2>1
  <2>3. R[j] = R[before] <=> j = before
    <3>1. \A x, y \in 1 .. m : R[x] = R[y] => x = y
      BY DEF Ring
    <3>2. before \in 1 .. m
      BY <1>5, Zenon
    <3> HIDE DEF before
    <3> QED
      BY <3>1, <3>2, Zenon
  <2>4. n[R[j]] = R[IF j = m THEN 1 ELSE j + 1]
    BY DEF Ring
  <2> HIDE DEF before, behind
  <2> QED
    BY <2>2, <2>3, <2>4
<1>7. \A j \in 1 .. m : p2[R[j]] = IF j = behind THEN R[before] ELSE R[IF j = 1 THEN m ELSE j - 1]
  <2> SUFFICES ASSUME NEW j \in 1 .. m
               PROVE  p2[R[j]] = IF j = behind THEN R[before] ELSE R[IF j = 1 THEN m ELSE j - 1]
    OBVIOUS
  <2>1. R[j] \in 1 .. N
    BY <1>1
  <2>2. p2[R[j]] = IF R[j] = R[behind] THEN R[before] ELSE p[R[j]]
    BY <1>5, <2>1
  <2>3. R[j] = R[behind] <=> j = behind
    BY <1>5 DEF Ring
  <2>4. p[R[j]] = R[IF j = 1 THEN m ELSE j - 1]
    BY DEF Ring
  <2> HIDE DEF before, behind
  <2> QED
    BY <2>2, <2>3, <2>4
<1>8. ASSUME NEW k \in 1 .. m - 1
      PROVE  /\ n2[Q[k]] = Q[IF k = m - 1 THEN 1 ELSE k + 1]
             /\ p2[Q[k]] = Q[IF k = 1 THEN m - 1 ELSE k - 1]
  <2> DEFINE then == IF k = m - 1 THEN 1 ELSE k + 1
             last == IF k = 1 THEN m - 1 ELSE k - 1
  <2>1. then \in 1 .. m - 1 /\ last \in 1 .. m - 1
    OBVIOUS
  <2>2. Q[then] = R[a(then)] /\ Q[last] = R[a(last)] /\ Q[k] = R[a(k)] /\ a(k) \in 1 .. m
    BY <1>2, <2>1
  <2>3. a(then) = IF a(k) = before THEN behind ELSE IF a(k) = m THEN 1 ELSE a(k) + 1
    OBVIOUS
  <2>4. a(last) = IF a(k) = behind THEN before ELSE IF a(k) = 1 THEN m ELSE a(k) - 1
    OBVIOUS
  <2>5. n2[Q[k]] = R[IF a(k) = before THEN behind ELSE IF a(k) = m THEN 1 ELSE a(k) + 1]
    BY <1>6, <2>2
  <2>6. p2[Q[k]] = R[IF a(k) = behind THEN before ELSE IF a(k) = 1 THEN m ELSE a(k) - 1]
    BY <1>7, <2>2
  <2> QED
    BY <2>2, <2>3, <2>4, <2>5, <2>6
<1> HIDE DEF Q
<1>9. Ring(p2, n2, N, Q, m - 1)
  BY <1>3, <1>4, <1>8 DEF Ring
<1> QED
  BY <1>9 DEF Q

\* Linking an element behind another opens the ring there.
LEMMA RingMore ==
  ASSUME NEW N \in Nat, NEW m \in Nat \ {0}, NEW R, NEW p \in Links(N), NEW n \in Links(N), NEW i \in 1 .. m,
         NEW e \in 1 .. N, NEW p2, NEW n2, Ring(p, n, N, R, m), \A k \in 1 .. m : R[k] # e,
         \A x \in 1 .. N : n2[x] = IF x = R[i] THEN e ELSE IF x = e THEN n[R[i]] ELSE n[x],
         \A x \in 1 .. N : p2[x] = IF x = e THEN R[i] ELSE IF x = n[R[i]] THEN e ELSE p[x]
  PROVE  Ring(p2, n2, N, More(R, m, i + 1, e), m + 1)
<1> DEFINE Q == More(R, m, i + 1, e)
           behind == IF i = m THEN 1 ELSE i + 1
<1>1. R \in [1 .. m -> 1 .. N] /\ \A j \in 1 .. m : R[j] \in 1 .. N
  BY DEF Ring
<1>2. /\ \A k \in 1 .. m + 1 : k <= i => k \in 1 .. m /\ Q[k] = R[k]
      /\ \A k \in 1 .. m + 1 : k > i + 1 => k - 1 \in 1 .. m /\ Q[k] = R[k - 1]
      /\ i + 1 \in 1 .. m + 1 /\ Q[i + 1] = e
  BY DEF More
<1>3. Q \in [1 .. m + 1 -> 1 .. N]
  BY <1>1 DEF More
<1>4. \A k, j \in 1 .. m + 1 : Q[k] = Q[j] => k = j
  <2> SUFFICES ASSUME NEW k \in 1 .. m + 1, NEW j \in 1 .. m + 1, Q[k] = Q[j]
               PROVE  k = j
    OBVIOUS
  <2>1. CASE k = i + 1 \/ j = i + 1
    BY <1>2, <2>1
  <2> DEFINE a(x) == IF x <= i THEN x ELSE x - 1
  <2>2. CASE k # i + 1 /\ j # i + 1
    <3>1. Q[k] = R[a(k)] /\ Q[j] = R[a(j)] /\ a(k) \in 1 .. m /\ a(j) \in 1 .. m
      BY <1>2, <2>2
    <3>2. a(k) = a(j)
      BY <3>1 DEF Ring
    <3> QED
      BY <2>2, <3>2
  <2> QED
    BY <2>1, <2>2
<1>5. behind \in 1 .. m /\ n[R[i]] = R[behind]
  BY DEF Ring
<1>6. /\ \A j \in 1 .. m : n2[R[j]] = IF j = i THEN e ELSE R[IF j = m THEN 1 ELSE j + 1]
      /\ n2[e] = R[behind]
  <2>1. ASSUME NEW j \in 1 .. m
        PROVE  n2[R[j]] = IF j = i THEN e ELSE R[IF j = m THEN 1 ELSE j + 1]
    <3>1. R[j] \in 1 .. N /\ R[j] # e /\ R[i] # e
      BY <1>1
    <3>2. n2[R[j]] = IF R[j] = R[i] THEN e ELSE n[R[j]]
      BY <3>1
    <3>3. R[j] = R[i] <=> j = i
      BY DEF Ring
    <3>4. n[R[j]] = R[IF j = m THEN 1 ELSE j + 1]
      BY DEF Ring
    <3> QED
      BY <3>2, <3>3, <3>4
  <2>2. n2[e] = R[behind]
    <3>1. R[i] # e
      BY <1>1
    <3> QED
      BY <1>5, <3>1
  <2> QED
    BY <2>1, <2>2
<1>7. /\ \A j \in 1 .. m : p2[R[j]] = IF j = behind THEN e ELSE R[IF j = 1 THEN m ELSE j - 1]
      /\ p2[e] = R[i]
  <2>1. ASSUME NEW j \in 1 .. m
        PROVE  p2[R[j]] = IF j = behind THEN e ELSE R[IF j = 1 THEN m ELSE j - 1]
    <3>1. R[j] \in 1 .. N /\ R[j] # e
      BY <1>1
    <3>2. p2[R[j]] = IF R[j] = R[behind] THEN e ELSE p[R[j]]
      BY <1>5, <3>1
    <3>3. R[j] = R[behind] <=> j = behind
      BY <1>5 DEF Ring
    <3>4. p[R[j]] = R[IF j = 1 THEN m ELSE j - 1]
      BY DEF Ring
    <3> HIDE DEF behind
    <3> QED
      BY <3>2, <3>3, <3>4
  <2>2. p2[e] = R[i]
    OBVIOUS
  <2> QED
    BY <2>1, <2>2
<1>8. ASSUME NEW k \in 1 .. m + 1
      PROVE  /\ n2[Q[k]] = Q[IF k = m + 1 THEN 1 ELSE k + 1]
             /\ p2[Q[k]] = Q[IF k = 1 THEN m + 1 ELSE k - 1]
  <2> HIDE DEF Q
  <2> DEFINE then == IF k = m + 1 THEN 1 ELSE k + 1
             last == IF k = 1 THEN m + 1 ELSE k - 1
  <2>1. then \in 1 .. m + 1 /\ last \in 1 .. m + 1
    OBVIOUS
  <2>2. CASE k = i + 1
    <3>1. Q[k] = e /\ last = i /\ last <= i /\ (i = m => then = 1 /\ then <= i) /\ (i # m => then = i + 2 /\ then > i + 1)
      BY <1>2, <2>2
    <3>2. Q[last] = R[i] /\ Q[then] = R[behind]
      BY <1>2, <2>1, <3>1
    <3> QED
      BY <1>6, <1>7, <3>1, <3>2
  <2>3. CASE k <= i
    <3>1. k \in 1 .. m /\ Q[k] = R[k] /\ then = k + 1
      BY <1>2, <2>3
    <3>2. Q[then] = IF k = i THEN e ELSE R[k + 1]
      BY <1>2, <2>1, <2>3, <3>1
    <3>3. n2[R[k]] = IF k = i THEN e ELSE R[k + 1]
      <4>1. n2[R[k]] = IF k = i THEN e ELSE R[IF k = m THEN 1 ELSE k + 1]
        BY <1>6, <3>1
      <4> QED
        BY <2>3, <4>1
    <3>4. Q[last] = IF k = 1 THEN IF i = m THEN e ELSE R[m] ELSE R[k - 1]
      <4>1. CASE k # 1
        BY <1>2, <2>1, <2>3, <4>1
      <4>2. CASE k = 1 /\ i = m
        BY <1>2, <4>2
      <4>3. CASE k = 1 /\ i # m
        <5>1. m + 1 > i + 1 /\ last = m + 1
          BY <4>3
        <5>2. Q[last] = R[(m + 1) - 1]
          BY <1>2, <2>1, <5>1
        <5> QED
          BY <4>3, <5>2
      <4> QED
        BY <4>1, <4>2, <4>3
    <3>5. p2[R[k]] = IF k = 1 THEN IF i = m THEN e ELSE R[m] ELSE R[k - 1]
      <4>1. p2[R[k]] = IF k = behind THEN e ELSE R[IF k = 1 THEN m ELSE k - 1]
        BY <1>7, <3>1
      <4>2. k = behind <=> k = 1 /\ i = m
        BY <2>3
      <4> QED
        BY <2>3, <4>1, <4>2
    <3> QED
      BY <3>1, <3>2, <3>3, <3>4, <3>5
  <2>4. CASE k > i + 1
    <3>1. k - 1 \in 1 .. m /\ Q[k] = R[k - 1] /\ k - 1 > i /\ k # 1 /\ i # m
      BY <1>2, <2>4
    <3>2. Q[then] = IF k = m + 1 THEN R[1] ELSE R[k]
      <4>1. CASE k = m + 1
        BY <1>2, <2>1, <4>1
      <4>2. CASE k # m + 1
        <5>1. Q[then] = R[(k + 1) - 1]
          BY <1>2, <2>1, <2>4, <4>2
        <5> QED
          BY <4>2, <5>1
      <4> QED
        BY <4>1, <4>2
    <3>3. n2[R[k - 1]] = IF k = m + 1 THEN R[1] ELSE R[k]
      <4>1. n2[R[k - 1]] = IF k - 1 = i THEN e ELSE R[IF k - 1 = m THEN 1 ELSE (k - 1) + 1]
        BY <1>6, <3>1
      <4> QED
        BY <3>1, <4>1
    <3>4. Q[last] = IF k = i + 2 THEN e ELSE R[k - 2]
      <4>1. CASE k = i + 2
        BY <1>2, <2>1, <4>1
      <4>2. CASE k # i + 2
        <5>1. last > i + 1 /\ last - 1 = k - 2
          BY <2>4, <4>2
        <5> QED
          BY <1>2, <2>1, <4>2, <5>1
      <4> QED
        BY <4>1, <4>2
    <3>5. p2[R[k - 1]] = IF k = i + 2 THEN e ELSE R[k - 2]
      <4>1. p2[R[k - 1]] = IF k - 1 = behind THEN e ELSE R[IF k - 1 = 1 THEN m ELSE (k - 1) - 1]
        BY <1>7, <3>1
      <4>2. k - 1 = behind <=> k = i + 2
        BY <3>1
      <4>3. k - 1 # 1 \/ k - 1 = behind
        BY <3>1
      <4> QED
        BY <3>1, <4>1, <4>2, <4>3
    <3> QED
      BY <3>1, <3>2, <3>3, <3>4, <3>5
  <2> QED
    BY <2>2, <2>3, <2>4
<1> HIDE DEF Q
<1>9. Ring(p2, n2, N, Q, m + 1)
  BY <1>3, <1>4, <1>8 DEF Ring
<1> QED
  BY <1>9 DEF Q

\* The last element of a ring taken for the first.
LEMMA RingTurned ==
  ASSUME NEW N \in Nat, NEW m \in Nat \ {0}, NEW R \in [1 .. m -> 1 .. N], NEW p, NEW n, NEW e \in 1 .. N,
         Ring(p, n, N, More(R, m, m + 1, e), m + 1)
  PROVE  Ring(p, n, N, More(R, m, 1, e), m + 1)
<1> DEFINE P == More(R, m, m + 1, e)
           Q == More(R, m, 1, e)
           a(k) == IF k = 1 THEN m + 1 ELSE k - 1
<1>1. \A k \in 1 .. m + 1 : a(k) \in 1 .. m + 1 /\ Q[k] = P[a(k)]
  BY DEF More
<1>2. Q \in [1 .. m + 1 -> 1 .. N]
  BY DEF More
<1> HIDE DEF P, Q
<1>3. Ring(p, n, N, P, m + 1)
  BY DEF P
<1>4. \A k, j \in 1 .. m + 1 : Q[k] = Q[j] => k = j
  <2> SUFFICES ASSUME NEW k \in 1 .. m + 1, NEW j \in 1 .. m + 1, Q[k] = Q[j]
               PROVE  k = j
    OBVIOUS
  <2>1. P[a(k)] = P[a(j)] /\ a(k) \in 1 .. m + 1 /\ a(j) \in 1 .. m + 1
    BY <1>1
  <2>2. \A x, y \in 1 .. m + 1 : P[x] = P[y] => x = y
    BY <1>3 DEF Ring
  <2>3. a(k) = a(j)
    <3> HIDE DEF a
    <3> QED
      BY <2>1, <2>2
  <2> QED
    BY <2>3
<1>5. ASSUME NEW k \in 1 .. m + 1
      PROVE  /\ n[Q[k]] = Q[IF k = m + 1 THEN 1 ELSE k + 1]
             /\ p[Q[k]] = Q[IF k = 1 THEN m + 1 ELSE k - 1]
  <2> DEFINE then == IF k = m + 1 THEN 1 ELSE k + 1
             last == IF k = 1 THEN m + 1 ELSE k - 1
  <2>1. then \in 1 .. m + 1 /\ last \in 1 .. m + 1
    OBVIOUS
  <2>2. Q[then] = P[a(then)] /\ Q[last] = P[a(last)] /\ Q[k] = P[a(k)] /\ a(k) \in 1 .. m + 1
    BY <1>1, <2>1
  <2>3. a(then) = IF a(k) = m + 1 THEN 1 ELSE a(k) + 1
    OBVIOUS
  <2>4. a(last) = IF a(k) = 1 THEN m + 1 ELSE a(k) - 1
    OBVIOUS
  <2>5. /\ n[P[a(k)]] = P[IF a(k) = m + 1 THEN 1 ELSE a(k) + 1]
        /\ p[P[a(k)]] = P[IF a(k) = 1 THEN m + 1 ELSE a(k) - 1]
    <3> HIDE DEF a
    <3> QED
      BY <1>3, <2>2 DEF Ring
  <2> QED
    BY <2>2, <2>3, <2>4, <2>5
<1>6. Ring(p, n, N, Q, m + 1)
  BY <1>2, <1>4, <1>5 DEF Ring
<1> QED
  BY <1>6 DEF Q

\* A single element is linked to itself.
LEMMA RingOfOne ==
  ASSUME NEW N \in Nat, NEW e \in 1 .. N, NEW R, NEW p, NEW n, n[e] = e, p[e] = e
  PROVE  Ring(p, n, N, More(R, 0, 1, e), 1)
<1> DEFINE Q == More(R, 0, 1, e)
<1>1. Q \in [1 .. 1 -> 1 .. N] /\ Q[1] = e
  BY DEF More
<1> HIDE DEF Q
<1>2. Ring(p, n, N, Q, 1)
  BY <1>1 DEF Ring
<1> QED
  BY <1>2 DEF Q

-----------------------------------------------------------------------------
(* A list object as two rings.                                             *)

Lists(N) ==
  [sz : {N}, nf : 0 .. N, nu : 0 .. N, used : 0 .. N, free : 0 .. N,
   p : Links(N), n : Links(N), lr : [1 .. N -> Intervals \cup {NULL}]]

Root(R, m) == IF m = 0 THEN NULL ELSE R[1]

\* U is the order of the attached elements of s and F of the free ones.
TwoRings(s, N, U, F) ==
  /\ s \in Lists(N) /\ s.nf + s.nu = N
  /\ Ring(s.p, s.n, N, U, s.nu) /\ s.used = Root(U, s.nu)
  /\ Ring(s.p, s.n, N, F, s.nf) /\ s.free = Root(F, s.nf)
  /\ \A i \in 1 .. s.nu, j \in 1 .. s.nf : U[i] # F[j]
  /\ \A i \in 1 .. s.nu : s.lr[U[i]] \in Intervals

\* The inductive invariant of the list: its elements are in two rings.
ListInv == \E N \in Capacities : \E U, F : TwoRings(list, N, U, F)

LEMMA ListIs ==
  ASSUME NEW N \in Nat, NEW s \in Lists(N)
  PROVE  /\ s = [sz |-> s.sz, nf |-> s.nf, nu |-> s.nu, used |-> s.used, free |-> s.free,
                 p |-> s.p, n |-> s.n, lr |-> s.lr]
         /\ s.sz = N /\ s.nf \in 0 .. N /\ s.nu \in 0 .. N /\ s.used \in 0 .. N /\ s.free \in 0 .. N
         /\ s.p \in Links(N) /\ s.n \in Links(N) /\ s.lr \in [1 .. N -> Intervals \cup {NULL}]
BY DEF Lists

\* A list with another free element in front.
LEMMA FreeAt ==
  ASSUME NEW N \in Nat, NEW s \in Lists(N), NEW e
  PROVE  [s EXCEPT !.free = e] = [sz |-> s.sz, nf |-> s.nf, nu |-> s.nu, used |-> s.used, free |-> e,
                                  p |-> s.p, n |-> s.n, lr |-> s.lr]
BY DEF Lists

\* t is s but for its links.
SameBut(s, t, N) ==
  /\ t \in Lists(N) /\ t.sz = s.sz /\ t.nf = s.nf /\ t.nu = s.nu
  /\ t.used = s.used /\ t.free = s.free /\ t.lr = s.lr

\* What changes in the links of a list when an element leaves its ring, enters
\* one behind u, or becomes a ring of its own.
Leaves(s, t, e, N) ==
  /\ SameBut(s, t, N)
  /\ \A x \in 1 .. N : t.n[x] = IF x = s.p[e] THEN s.n[e] ELSE s.n[x]
  /\ \A x \in 1 .. N : t.p[x] = IF x = s.n[e] THEN s.p[e] ELSE s.p[x]
  /\ t.n[e] = s.n[e]

Enters(s, t, e, u, N) ==
  /\ SameBut(s, t, N)
  /\ \A x \in 1 .. N : t.n[x] = IF x = u THEN e ELSE IF x = e THEN s.n[u] ELSE s.n[x]
  /\ \A x \in 1 .. N : t.p[x] = IF x = e THEN u ELSE IF x = s.n[u] THEN e ELSE s.p[x]

Closes(s, t, e, N) ==
  /\ SameBut(s, t, N)
  /\ \A x \in 1 .. N : t.n[x] = (IF x = e THEN e ELSE s.n[x]) /\ t.p[x] = (IF x = e THEN e ELSE s.p[x])

LEMMA UnlinkedIs ==
  ASSUME NEW N \in Nat, NEW s \in Lists(N), NEW e \in 1 .. N
  PROVE  Leaves(s, Unlinked(s, e), e, N)
<1> DEFINE m == [s EXCEPT !.n[s.p[e]] = s.n[e]]
           t == Unlinked(s, e)
<1>1. /\ s.p \in [1 .. N -> 1 .. N] /\ s.n \in [1 .. N -> 1 .. N] /\ s.p[e] \in 1 .. N /\ s.n[e] \in 1 .. N
      /\ s = [sz |-> s.sz, nf |-> s.nf, nu |-> s.nu, used |-> s.used, free |-> s.free,
              p |-> s.p, n |-> s.n, lr |-> s.lr]
  BY ListIs DEF Links
<1>2. m = [sz |-> s.sz, nf |-> s.nf, nu |-> s.nu, used |-> s.used, free |-> s.free,
           p |-> s.p, n |-> [s.n EXCEPT ![s.p[e]] = s.n[e]], lr |-> s.lr]
  <2> DEFINE n2 == [s.n EXCEPT ![s.p[e]] = s.n[e]]
  <2>1. m = [s EXCEPT !.n = n2]
    OBVIOUS
  <2> HIDE DEF m, n2
  <2>2. m = [sz |-> s.sz, nf |-> s.nf, nu |-> s.nu, used |-> s.used, free |-> s.free,
             p |-> s.p, n |-> n2, lr |-> s.lr]
    BY <1>1, <2>1
  <2> QED
    BY <2>2 DEF n2
<1>3. m.n = [s.n EXCEPT ![s.p[e]] = s.n[e]] /\ m.n[e] = s.n[e] /\ m.p = s.p
  BY <1>1, <1>2
<1>4. t = [m EXCEPT !.p[m.n[e]] = m.p[e]]
  BY DEF Unlinked
<1> HIDE DEF m
<1>5. t = [sz |-> s.sz, nf |-> s.nf, nu |-> s.nu, used |-> s.used, free |-> s.free,
           p |-> [s.p EXCEPT ![s.n[e]] = s.p[e]], n |-> m.n, lr |-> s.lr]
  BY <1>2, <1>3, <1>4
<1>6. [s.p EXCEPT ![s.n[e]] = s.p[e]] \in Links(N) /\ m.n \in Links(N)
  BY <1>1, <1>3 DEF Links
<1> HIDE DEF t
<1>7. t \in Lists(N)
  BY <1>5, <1>6, ListIs DEF Lists
<1>8. /\ \A x \in 1 .. N : m.n[x] = IF x = s.p[e] THEN s.n[e] ELSE s.n[x]
      /\ \A x \in 1 .. N : [s.p EXCEPT ![s.n[e]] = s.p[e]][x] = IF x = s.n[e] THEN s.p[e] ELSE s.p[x]
  BY <1>1, <1>3
<1> QED
  BY <1>3, <1>5, <1>7, <1>8 DEF t, Leaves, SameBut

LEMMA LinkedIs ==
  ASSUME NEW N \in Nat, NEW s \in Lists(N), NEW e \in 1 .. N, NEW u \in 1 .. N
  PROVE  Enters(s, LinkedAfter(s, e, u), e, u, N)
<1> DEFINE t == LinkedAfter(s, e, u)
           n2 == [s.n EXCEPT ![e] = s.n[u], ![u] = e]
           p2 == [s.p EXCEPT ![s.n[u]] = e, ![e] = u]
<1>1. /\ s.p \in [1 .. N -> 1 .. N] /\ s.n \in [1 .. N -> 1 .. N] /\ s.n[u] \in 1 .. N
      /\ s = [sz |-> s.sz, nf |-> s.nf, nu |-> s.nu, used |-> s.used, free |-> s.free,
              p |-> s.p, n |-> s.n, lr |-> s.lr]
  BY ListIs DEF Links
<1>2. t = [s EXCEPT !.p = p2, !.n = n2]
  BY DEF LinkedAfter
<1>3. p2 \in Links(N) /\ n2 \in Links(N)
  BY <1>1 DEF Links
<1>6. /\ \A x \in 1 .. N : n2[x] = IF x = u THEN e ELSE IF x = e THEN s.n[u] ELSE s.n[x]
      /\ \A x \in 1 .. N : p2[x] = IF x = e THEN u ELSE IF x = s.n[u] THEN e ELSE s.p[x]
  BY <1>1
<1> HIDE DEF p2, n2, t
<1>4. t = [sz |-> s.sz, nf |-> s.nf, nu |-> s.nu, used |-> s.used, free |-> s.free,
           p |-> p2, n |-> n2, lr |-> s.lr]
  BY <1>1, <1>2
<1>5. t \in Lists(N)
  BY <1>3, <1>4, ListIs DEF Lists
<1> QED
  BY <1>4, <1>5, <1>6 DEF t, Enters, SameBut

LEMMA AloneIs ==
  ASSUME NEW N \in Nat, NEW s \in Lists(N), NEW e \in 1 .. N
  PROVE  Closes(s, Alone(s, e), e, N)
<1> DEFINE t == Alone(s, e)
           n2 == [s.n EXCEPT ![e] = e]
           p2 == [s.p EXCEPT ![e] = e]
<1>1. /\ s.p \in [1 .. N -> 1 .. N] /\ s.n \in [1 .. N -> 1 .. N]
      /\ s = [sz |-> s.sz, nf |-> s.nf, nu |-> s.nu, used |-> s.used, free |-> s.free,
              p |-> s.p, n |-> s.n, lr |-> s.lr]
  BY ListIs DEF Links
<1>2. t = [s EXCEPT !.p[e] = e, !.n[e] = e]
  BY DEF Alone
<1>3. p2 \in Links(N) /\ n2 \in Links(N)
  BY <1>1 DEF Links
<1> HIDE DEF t
<1>4. t = [sz |-> s.sz, nf |-> s.nf, nu |-> s.nu, used |-> s.used, free |-> s.free,
           p |-> p2, n |-> n2, lr |-> s.lr]
  BY <1>1, <1>2
<1>6. \A x \in 1 .. N : n2[x] = (IF x = e THEN e ELSE s.n[x]) /\ p2[x] = (IF x = e THEN e ELSE s.p[x])
  BY <1>1
<1> HIDE DEF p2, n2
<1>5. t \in Lists(N)
  BY <1>3, <1>4, ListIs DEF Lists
<1> QED
  BY <1>4, <1>5, <1>6 DEF t, Closes, SameBut

\* The values of the two operations on orders.
LEMMA LessIs ==
  ASSUME NEW N \in Nat, NEW m \in Nat \ {0}, NEW R \in [1 .. m -> 1 .. N], NEW i \in 1 .. m
  PROVE  /\ Less(R, m, i) \in [1 .. m - 1 -> 1 .. N]
         /\ \A k \in 1 .. m - 1 : Less(R, m, i)[k] = R[IF k < i THEN k ELSE k + 1]
         /\ \A k \in 1 .. m - 1 : \E j \in 1 .. m : j # i /\ Less(R, m, i)[k] = R[j]
<1>1. \A k \in 1 .. m - 1 : (IF k < i THEN k ELSE k + 1) \in 1 .. m /\ (IF k < i THEN k ELSE k + 1) # i
  OBVIOUS
<1>2. \A k \in 1 .. m - 1 : Less(R, m, i)[k] = R[IF k < i THEN k ELSE k + 1]
  BY DEF Less
<1>3. Less(R, m, i) \in [1 .. m - 1 -> 1 .. N]
  BY DEF Less
<1> QED
  BY <1>1, <1>2, <1>3

LEMMA MoreIs ==
  ASSUME NEW N \in Nat, NEW m \in Nat, NEW R \in [1 .. m -> 1 .. N], NEW i \in 1 .. m + 1, NEW e \in 1 .. N
  PROVE  /\ More(R, m, i, e) \in [1 .. m + 1 -> 1 .. N]
         /\ \A k \in 1 .. m + 1 :
              More(R, m, i, e)[k] = IF k < i THEN R[k] ELSE IF k = i THEN e ELSE R[k - 1]
         /\ \A k \in 1 .. m + 1 : More(R, m, i, e)[k] = e \/ \E j \in 1 .. m : More(R, m, i, e)[k] = R[j]
<1>1. \A k \in 1 .. m + 1 : (k < i => k \in 1 .. m) /\ (k > i => k - 1 \in 1 .. m) /\ (~(k < i) /\ k # i => k > i)
  OBVIOUS
<1>2. \A k \in 1 .. m + 1 : More(R, m, i, e)[k] = IF k < i THEN R[k] ELSE IF k = i THEN e ELSE R[k - 1]
  BY DEF More
<1>3. More(R, m, i, e) \in [1 .. m + 1 -> 1 .. N]
  BY <1>1 DEF More
<1> QED
  BY <1>1, <1>2, <1>3

\* From s to t the rings apart from R, and without e, stay as they are.
OthersKeep(s, t, N, R, m, e) ==
  \A q, Q : /\ Ring(s.p, s.n, N, Q, q) /\ \A k \in 1 .. q : Q[k] # e
            /\ \A j \in 1 .. m, k \in 1 .. q : R[j] # Q[k]
            => Ring(t.p, t.n, N, Q, q)

\* An element unlinked from its ring, and a ring it is not in.
LEMMA RingUnlinked ==
  ASSUME NEW N \in Nat, NEW s \in Lists(N), NEW m \in Nat \ {0}, NEW R, Ring(s.p, s.n, N, R, m), NEW i \in 1 .. m
  PROVE  /\ R[i] \in 1 .. N /\ s.n[R[i]] = R[IF i = m THEN 1 ELSE i + 1]
         /\ s.p[R[i]] = R[IF i = 1 THEN m ELSE i - 1]
         /\ Ring(Unlinked(s, R[i]).p, Unlinked(s, R[i]).n, N, Less(R, m, i), m - 1)
         /\ OthersKeep(s, Unlinked(s, R[i]), N, R, m, R[i])
<1> DEFINE t == Unlinked(s, R[i])
<1>1. /\ R \in [1 .. m -> 1 .. N] /\ R[i] \in 1 .. N
      /\ s.n[R[i]] = R[IF i = m THEN 1 ELSE i + 1] /\ s.p[R[i]] = R[IF i = 1 THEN m ELSE i - 1]
  BY DEF Ring
<1>2. /\ \A x \in 1 .. N : t.n[x] = IF x = s.p[R[i]] THEN s.n[R[i]] ELSE s.n[x]
      /\ \A x \in 1 .. N : t.p[x] = IF x = s.n[R[i]] THEN s.p[R[i]] ELSE s.p[x]
  <2>1. PICK u \in 1 .. N : u = R[i]
    BY <1>1
  <2>2. Leaves(s, Unlinked(s, u), u, N)
    BY UnlinkedIs
  <2> QED
    BY <2>1, <2>2 DEF Leaves
<1>3. s.p \in Links(N) /\ s.n \in Links(N)
  BY ListIs
<1> HIDE DEF t
<1>4. Ring(t.p, t.n, N, Less(R, m, i), m - 1)
  <2>1. CASE m > 1
    BY <1>2, <1>3, <2>1, RingLess
  <2>2. CASE m = 1
    <3>1. Less(R, m, i) \in [1 .. m - 1 -> 1 .. N]
      BY <1>1, LessIs
    <3>2. 1 .. m - 1 = {}
      BY <2>2
    <3> QED
      BY <3>1, <3>2 DEF Ring
  <2> QED
    BY <2>1, <2>2
<1>5. ASSUME NEW q, NEW Q, Ring(s.p, s.n, N, Q, q), \A j \in 1 .. m, k \in 1 .. q : R[j] # Q[k]
      PROVE  Ring(t.p, t.n, N, Q, q)
  <2>1. ASSUME NEW k \in 1 .. q
        PROVE  t.p[Q[k]] = s.p[Q[k]] /\ t.n[Q[k]] = s.n[Q[k]]
    <3>1. (IF i = m THEN 1 ELSE i + 1) \in 1 .. m /\ (IF i = 1 THEN m ELSE i - 1) \in 1 .. m
      OBVIOUS
    <3>2. s.n[R[i]] # Q[k] /\ s.p[R[i]] # Q[k]
      BY <1>1, <1>5, <3>1
    <3>3. Q[k] \in 1 .. N
      BY <1>5 DEF Ring
    <3> QED
      BY <1>2, <3>2, <3>3
  <2> QED
    BY <1>5, <2>1, OtherRing
<1> QED
  BY <1>1, <1>4, <1>5 DEF t, OthersKeep

\* An element linked into a ring it is not in, and a ring apart from both.
LEMMA RingLinked ==
  ASSUME NEW N \in Nat, NEW s \in Lists(N), NEW m \in Nat \ {0}, NEW R, Ring(s.p, s.n, N, R, m), NEW i \in 1 .. m,
         NEW e \in 1 .. N, \A k \in 1 .. m : R[k] # e
  PROVE  /\ R[i] \in 1 .. N
         /\ Ring(LinkedAfter(s, e, R[i]).p, LinkedAfter(s, e, R[i]).n, N, More(R, m, i + 1, e), m + 1)
         /\ OthersKeep(s, LinkedAfter(s, e, R[i]), N, R, m, e)
<1> DEFINE t == LinkedAfter(s, e, R[i])
<1>1. R \in [1 .. m -> 1 .. N] /\ R[i] \in 1 .. N /\ s.n[R[i]] = R[IF i = m THEN 1 ELSE i + 1]
  BY DEF Ring
<1>2. /\ \A x \in 1 .. N : t.n[x] = IF x = R[i] THEN e ELSE IF x = e THEN s.n[R[i]] ELSE s.n[x]
      /\ \A x \in 1 .. N : t.p[x] = IF x = e THEN R[i] ELSE IF x = s.n[R[i]] THEN e ELSE s.p[x]
  <2>1. PICK u \in 1 .. N : u = R[i]
    BY <1>1
  <2>2. Enters(s, LinkedAfter(s, e, u), e, u, N)
    BY LinkedIs
  <2> QED
    BY <2>1, <2>2 DEF Enters
<1>3. s.p \in Links(N) /\ s.n \in Links(N)
  BY ListIs
<1> HIDE DEF t
<1>4. Ring(t.p, t.n, N, More(R, m, i + 1, e), m + 1)
  BY <1>2, <1>3, RingMore
<1>5. ASSUME NEW q, NEW Q, Ring(s.p, s.n, N, Q, q), \A k \in 1 .. q : Q[k] # e,
             \A j \in 1 .. m, k \in 1 .. q : R[j] # Q[k]
      PROVE  Ring(t.p, t.n, N, Q, q)
  <2>1. ASSUME NEW k \in 1 .. q
        PROVE  t.p[Q[k]] = s.p[Q[k]] /\ t.n[Q[k]] = s.n[Q[k]]
    <3>1. (IF i = m THEN 1 ELSE i + 1) \in 1 .. m
      OBVIOUS
    <3>2. s.n[R[i]] # Q[k] /\ R[i] # Q[k] /\ Q[k] # e
      BY <1>1, <1>5, <3>1
    <3>3. Q[k] \in 1 .. N
      BY <1>5 DEF Ring
    <3> QED
      BY <1>2, <3>2, <3>3
  <2> QED
    BY <1>5, <2>1, OtherRing
<1> QED
  BY <1>1, <1>4, <1>5 DEF t, OthersKeep

LEMMA RingAlone ==
  ASSUME NEW N \in Nat, NEW s \in Lists(N), NEW e \in 1 .. N, NEW R
  PROVE  /\ Ring(Alone(s, e).p, Alone(s, e).n, N, More(R, 0, 1, e), 1)
         /\ OthersKeep(s, Alone(s, e), N, R, 0, e)
<1> DEFINE t == Alone(s, e)
<1>1. \A x \in 1 .. N : t.n[x] = (IF x = e THEN e ELSE s.n[x]) /\ t.p[x] = (IF x = e THEN e ELSE s.p[x])
  BY AloneIs DEF Closes
<1>2. s.p \in Links(N) /\ s.n \in Links(N)
  BY ListIs
<1> HIDE DEF t
<1>3. t.n[e] = e /\ t.p[e] = e
  BY <1>1
<1>4. Ring(t.p, t.n, N, More(R, 0, 1, e), 1)
  BY <1>3, RingOfOne
<1>5. ASSUME NEW q, NEW Q, Ring(s.p, s.n, N, Q, q), \A k \in 1 .. q : Q[k] # e
      PROVE  Ring(t.p, t.n, N, Q, q)
  <2>1. ASSUME NEW k \in 1 .. q
        PROVE  t.p[Q[k]] = s.p[Q[k]] /\ t.n[Q[k]] = s.n[Q[k]]
    <3>1. Q[k] \in 1 .. N /\ Q[k] # e
      BY <1>5 DEF Ring
    <3> QED
      BY <1>1, <3>1
  <2> QED
    BY <1>5, <2>1, OtherRing
<1> QED
  BY <1>4, <1>5 DEF t, OthersKeep

\* le, the first free element, is out of the free ring, m is what i_llgetfree leaves.
Freed(s, m, N, U, F, v, q, le) ==
  LET G == Less(F, q, 1)
  IN  /\ \A i \in 1 .. v : U[i] # le
      /\ \A i \in 1 .. q - 1 : G[i] # le
      /\ \A i \in 1 .. v, j \in 1 .. q - 1 : U[i] # G[j]
      /\ m \in Lists(N) /\ m.nf = s.nf /\ m.nu = s.nu /\ m.used = s.used /\ m.lr = s.lr
      /\ Ring(m.p, m.n, N, U, v) /\ Ring(m.p, m.n, N, G, q - 1)
      /\ m.free = Root(G, q - 1)

LEMMA TakeFirst ==
  ASSUME NEW N \in Nat, NEW s \in Lists(N), NEW q \in Nat \ {0}, NEW F, NEW v \in Nat, NEW U, NEW le \in 1 .. N,
         Ring(s.p, s.n, N, F, q), Ring(s.p, s.n, N, U, v), \A i \in 1 .. v, j \in 1 .. q : U[i] # F[j],
         le = F[1], s.free = le
  PROVE  Freed(s, i_llgetfree(s), N, U, F, v, q, le)
<1> DEFINE m == Unlinked(s, le)
           t == i_llgetfree(s)
           G == Less(F, q, 1)
<1>1. 1 \in 1 .. q
  OBVIOUS
<1>2. \A j \in 1 .. q, k \in 1 .. v : F[j] # U[k]
  OBVIOUS
<1>3. Ring(m.p, m.n, N, G, q - 1)
  <2>1. \A i \in 1 .. q : Ring(Unlinked(s, F[i]).p, Unlinked(s, F[i]).n, N, Less(F, q, i), q - 1)
    BY RingUnlinked
  <2> QED
    BY <1>1, <2>1
<1>4. Ring(m.p, m.n, N, U, v)
  <2>1. \A i \in 1 .. q : OthersKeep(s, Unlinked(s, F[i]), N, F, q, F[i])
    BY RingUnlinked
  <2>2. OthersKeep(s, m, N, F, q, F[1])
    BY <1>1, <2>1
  <2>3. \A k \in 1 .. v : U[k] # F[1]
    BY <1>1, <1>2
  <2> HIDE DEF m
  <2> QED
    BY <1>2, <2>2, <2>3 DEF OthersKeep
<1>5. s.n[le] = F[IF 1 = q THEN 1 ELSE 1 + 1]
  <2>1. s.n[F[1]] = F[IF 1 = q THEN 1 ELSE 1 + 1]
    BY <1>1 DEF Ring
  <2> QED
    BY <2>1
<1>6. /\ m \in Lists(N) /\ m.n[le] = s.n[le]
      /\ m.sz = s.sz /\ m.nf = s.nf /\ m.nu = s.nu /\ m.used = s.used /\ m.lr = s.lr
  <2>1. Leaves(s, m, le, N)
    BY UnlinkedIs
  <2> HIDE DEF m
  <2> QED
    BY <2>1 DEF Leaves, SameBut
<1>7. F \in [1 .. q -> 1 .. N] /\ \A i, j \in 1 .. q : F[i] = F[j] => i = j
  BY DEF Ring
<1>8. \A k \in 1 .. q - 1 : \E j \in 1 .. q : j # 1 /\ G[k] = F[j]
  <2>1. \A k \in 1 .. q - 1 : k + 1 \in 1 .. q /\ k + 1 # 1 /\ G[k] = F[k + 1]
    BY DEF Less
  <2> QED
    BY <2>1
<1>9. G \in [1 .. q - 1 -> 1 .. N]
  BY <1>1, <1>7, LessIs
<1>10. (IF m.n[le] = le THEN NULL ELSE m.n[le]) = Root(G, q - 1)
  <2>1. CASE q = 1
    BY <1>5, <1>6, <2>1 DEF Root
  <2>2. CASE q # 1
    <3>1. 2 \in 1 .. q /\ 1 \in 1 .. q - 1 /\ q - 1 # 0
      BY <2>2
    <3>2. F[2] # F[1]
      BY <1>7, <3>1
    <3>3. G[1] = F[2]
      BY <3>1 DEF Less
    <3> HIDE DEF G, m
    <3> QED
      BY <1>5, <1>6, <2>2, <3>1, <3>2, <3>3 DEF Root
  <2> QED
    BY <2>1, <2>2
<1>11. t = [m EXCEPT !.free = Root(G, q - 1)]
  BY <1>10 DEF i_llgetfree
<1> HIDE DEF m, G, t
<1>12. Root(G, q - 1) \in 0 .. N
  <2>1. CASE q - 1 = 0
    BY <2>1 DEF Root, NULL
  <2>2. CASE q - 1 # 0
    <3>1. 1 \in 1 .. q - 1
      BY <2>2
    <3> QED
      BY <1>9, <2>2, <3>1 DEF Root
  <2> QED
    BY <2>1, <2>2
<1>13. t = [sz |-> m.sz, nf |-> m.nf, nu |-> m.nu, used |-> m.used, free |-> Root(G, q - 1),
            p |-> m.p, n |-> m.n, lr |-> m.lr]
  BY <1>6, <1>11, ListIs
<1>14. t \in Lists(N)
  BY <1>6, <1>12, <1>13, ListIs DEF Lists
<1>15. \A i \in 1 .. v : U[i] # le
  BY <1>1, <1>2
<1>16. \A i \in 1 .. q - 1 : G[i] # le
  BY <1>1, <1>7, <1>8
<1>17. \A i \in 1 .. v, j \in 1 .. q - 1 : U[i] # G[j]
  BY <1>2, <1>8
<1> QED
  BY <1>3, <1>4, <1>6, <1>13, <1>14, <1>15, <1>16, <1>17 DEF t, G, Freed

\* c has come to the i-th place of the list, in the first free element.
Inserted(s, t, N, U, F, i, c) ==
  /\ TwoRings(t, N, More(U, s.nu, i, F[1]), Less(F, s.nf, 1))
  /\ t.nu = s.nu + 1
  /\ \A x \in 1 .. N : t.lr[x] = IF x = F[1] THEN c ELSE s.lr[x]

\* The new element is linked at the i-th place, and not yet counted.
InPlace(s, t, N, U, F, i) ==
  /\ t \in Lists(N) /\ t.nf = s.nf /\ t.nu = s.nu /\ t.lr = s.lr
  /\ t.free = Root(Less(F, s.nf, 1), s.nf - 1)
  /\ Ring(t.p, t.n, N, More(U, s.nu, i, F[1]), s.nu + 1)
  /\ Ring(t.p, t.n, N, Less(F, s.nf, 1), s.nf - 1)
  /\ t.used = More(U, s.nu, i, F[1])[1]

\* The counts and the new interval, once the element is linked.
LEMMA InsertEnds ==
  ASSUME NEW N \in Nat, NEW s, NEW U, NEW F, TwoRings(s, N, U, F), s.nf > 0, NEW c \in Intervals,
         NEW i \in 1 .. s.nu + 1, NEW t, InPlace(s, t, N, U, F, i)
  PROVE  Inserted(s, i_llset(Counted(t), F[1], c), N, U, F, i, c)
<1> DEFINE d == i_llset(Counted(t), F[1], c)
<1>1. s \in Lists(N)
  BY DEF TwoRings
<1>2. PICK v \in 0 .. N : v = s.nu
  BY <1>1, ListIs
<1>3. PICK q \in 0 .. N : q = s.nf
  BY <1>1, ListIs
<1>4. q > 0 /\ q + v = N /\ v + 1 \in 0 .. N /\ q - 1 \in 0 .. N
  BY <1>2, <1>3 DEF TwoRings
<1> DEFINE V == More(U, v, i, F[1])
           G == Less(F, q, 1)
<1>5. Ring(s.p, s.n, N, U, v) /\ Ring(s.p, s.n, N, F, q) /\ \A k \in 1 .. v, j \in 1 .. q : U[k] # F[j]
  BY <1>2, <1>3 DEF TwoRings
<1>6. U \in [1 .. v -> 1 .. N] /\ F \in [1 .. q -> 1 .. N] /\ \A k, j \in 1 .. q : F[k] = F[j] => k = j
  BY <1>5 DEF Ring
<1>7. PICK le \in 1 .. N : le = F[1]
  BY <1>4, <1>6
<1>8. i \in 1 .. v + 1
  BY <1>2
<1>9. \A k \in 1 .. v + 1 : V[k] = le \/ \E j \in 1 .. v : V[k] = U[j]
  <2>1. \A k \in 1 .. v + 1 : V[k] = IF k < i THEN U[k] ELSE IF k = i THEN F[1] ELSE U[k - 1]
    BY <1>8 DEF More
  <2>2. \A k \in 1 .. v + 1 : (k < i => k \in 1 .. v) /\ (~(k < i) /\ k # i => k - 1 \in 1 .. v)
    BY <1>8
  <2> HIDE DEF V
  <2> QED
    BY <1>7, <2>1, <2>2
<1>10. \A k \in 1 .. q - 1 : k + 1 \in 1 .. q /\ k + 1 # 1 /\ G[k] = F[k + 1]
  BY <1>4 DEF Less
<1>11. /\ Ring(t.p, t.n, N, V, v + 1) /\ Ring(t.p, t.n, N, G, q - 1)
       /\ t.free = Root(G, q - 1) /\ t.used = V[1] /\ t.nf = q /\ t.nu = v /\ t.lr = s.lr
       /\ t \in Lists(N)
  BY <1>2, <1>3 DEF InPlace
<1>12. /\ t = [sz |-> t.sz, nf |-> t.nf, nu |-> t.nu, used |-> t.used, free |-> t.free,
               p |-> t.p, n |-> t.n, lr |-> t.lr]
       /\ t.sz = N /\ t.used \in 0 .. N /\ t.free \in 0 .. N /\ t.p \in Links(N) /\ t.n \in Links(N)
       /\ t.lr \in [1 .. N -> Intervals \cup {NULL}]
  BY <1>11, ListIs
<1> DEFINE lr2 == [t.lr EXCEPT ![le] = c]
<1>13. Counted(t) = [sz |-> t.sz, nf |-> q - 1, nu |-> v + 1, used |-> t.used, free |-> t.free,
                     p |-> t.p, n |-> t.n, lr |-> t.lr]
  <2>1. Counted(t) = [t EXCEPT !.nf = q - 1, !.nu = v + 1]
    BY <1>11 DEF Counted
  <2> QED
    BY <1>12, <2>1
<1>14. d = [sz |-> t.sz, nf |-> q - 1, nu |-> v + 1, used |-> t.used, free |-> t.free,
            p |-> t.p, n |-> t.n, lr |-> lr2]
  <2>1. d = [Counted(t) EXCEPT !.lr = [Counted(t).lr EXCEPT ![le] = c]]
    BY <1>7 DEF i_llset
  <2>2. Counted(t).lr = t.lr
    BY <1>13
  <2>3. d = [Counted(t) EXCEPT !.lr = lr2]
    BY <2>1, <2>2
  <2> HIDE DEF d, lr2
  <2> QED
    BY <1>13, <2>3
<1>15. lr2 \in [1 .. N -> Intervals \cup {NULL}] /\ \A x \in 1 .. N : lr2[x] = IF x = le THEN c ELSE s.lr[x]
  BY <1>11, <1>12
<1> HIDE DEF d, lr2, V, G
<1>16. d \in Lists(N)
  BY <1>4, <1>12, <1>14, <1>15 DEF Lists
<1>17. d.nf = q - 1 /\ d.nu = v + 1 /\ d.used = V[1] /\ d.free = Root(G, q - 1) /\ d.p = t.p /\ d.n = t.n /\ d.lr = lr2
  BY <1>11, <1>14
<1>18. \A k \in 1 .. v + 1, j \in 1 .. q - 1 : V[k] # G[j]
  <2> SUFFICES ASSUME NEW k \in 1 .. v + 1, NEW j \in 1 .. q - 1
               PROVE  V[k] # G[j]
    OBVIOUS
  <2>1. G[j] = F[j + 1] /\ j + 1 \in 1 .. q /\ j + 1 # 1
    BY <1>10
  <2>2. G[j] # le
    <3>1. 1 \in 1 .. q
      BY <1>4
    <3> QED
      BY <1>6, <1>7, <2>1, <3>1
  <2>3. \A x \in 1 .. v : U[x] # G[j]
    BY <1>5, <2>1
  <2> QED
    BY <1>9, <2>2, <2>3
<1>19. \A k \in 1 .. v + 1 : d.lr[V[k]] \in Intervals
  <2> SUFFICES ASSUME NEW k \in 1 .. v + 1
               PROVE  lr2[V[k]] \in Intervals
    BY <1>17
  <2>1. CASE V[k] = le
    BY <1>15, <2>1
  <2>2. CASE V[k] # le
    <3>1. PICK j \in 1 .. v : V[k] = U[j]
      BY <1>9, <2>2
    <3>2. s.lr[U[j]] \in Intervals
      BY <1>2 DEF TwoRings
    <3>3. U[j] \in 1 .. N
      BY <1>6
    <3> QED
      BY <1>15, <2>2, <3>1, <3>2, <3>3
  <2> QED
    BY <2>1, <2>2
<1>20. TwoRings(d, N, V, G)
  <2>1. (q - 1) + (v + 1) = N /\ Root(V, v + 1) = V[1]
    BY <1>4 DEF Root
  <2> QED
    BY <1>11, <1>16, <1>17, <1>18, <1>19, <2>1 DEF TwoRings
<1> QED
  BY <1>2, <1>3, <1>7, <1>15, <1>17, <1>20 DEF Inserted, V, G, d

\* What is known when i_llgetfree has returned the first free element.
Took(s, m, N, U, F, v, q, le) ==
  /\ v = s.nu /\ q = s.nf /\ le = F[1] /\ s.free = le /\ s.used = Root(U, v)
  /\ Ring(s.p, s.n, N, U, v) /\ Ring(s.p, s.n, N, F, q)
  /\ Freed(s, m, N, U, F, v, q, le)

LEMMA GetFreeIs ==
  ASSUME NEW N \in Nat, NEW s, NEW U, NEW F, TwoRings(s, N, U, F), s.nf > 0
  PROVE  \E v \in Nat, q \in Nat \ {0}, le \in 1 .. N : Took(s, i_llgetfree(s), N, U, F, v, q, le)
<1>1. s \in Lists(N)
  BY DEF TwoRings
<1>2. PICK v \in 0 .. N : v = s.nu
  BY <1>1, ListIs
<1>3. PICK q \in 0 .. N : q = s.nf
  BY <1>1, ListIs
<1>4. q \in Nat \ {0} /\ v \in Nat /\ 1 \in 1 .. q
  BY <1>3
<1>5. /\ Ring(s.p, s.n, N, U, v) /\ Ring(s.p, s.n, N, F, q) /\ \A k \in 1 .. v, j \in 1 .. q : U[k] # F[j]
      /\ s.used = Root(U, v) /\ s.free = Root(F, q)
  BY <1>2, <1>3 DEF TwoRings
<1>6. F \in [1 .. q -> 1 .. N]
  BY <1>5 DEF Ring
<1>7. PICK le \in 1 .. N : le = F[1]
  BY <1>4, <1>6
<1>8. s.free = le
  BY <1>4, <1>5, <1>7 DEF Root
<1>9. Freed(s, i_llgetfree(s), N, U, F, v, q, le)
  BY <1>1, <1>4, <1>5, <1>7, <1>8, TakeFirst
<1>10. Took(s, i_llgetfree(s), N, U, F, v, q, le)
  BY <1>2, <1>3, <1>5, <1>7, <1>8, <1>9 DEF Took
<1> QED
  BY <1>4, <1>10

\* A list whose head alone is changed.
LEMMA UsedIs ==
  ASSUME NEW N \in Nat, NEW s \in Lists(N), NEW u \in 0 .. N
  PROVE  LET t == [s EXCEPT !.used = u]
         IN  /\ t \in Lists(N) /\ t.sz = s.sz /\ t.nf = s.nf /\ t.nu = s.nu /\ t.lr = s.lr /\ t.free = s.free
             /\ t.p = s.p /\ t.n = s.n /\ t.used = u
<1> DEFINE t == [s EXCEPT !.used = u]
<1>1. t = [sz |-> s.sz, nf |-> s.nf, nu |-> s.nu, used |-> u, free |-> s.free,
           p |-> s.p, n |-> s.n, lr |-> s.lr]
  BY ListIs
<1> HIDE DEF t
<1>2. t \in Lists(N)
  BY <1>1, ListIs DEF Lists
<1> QED
  BY <1>1, <1>2 DEF t

\* The first element of a list.
LEMMA LinkFirst ==
  ASSUME NEW N \in Nat, NEW s, NEW m, NEW U, NEW F, NEW v \in Nat, NEW q \in Nat \ {0}, NEW le \in 1 .. N,
         Took(s, m, N, U, F, v, q, le), v = 0
  PROVE  InPlace(s, [Alone(m, le) EXCEPT !.used = le], N, U, F, 1)
<1> DEFINE a == Alone(m, le)
           t == [a EXCEPT !.used = le]
           G == Less(F, q, 1)
<1>1. Freed(s, m, N, U, F, v, q, le) /\ v = s.nu /\ q = s.nf /\ le = F[1]
  BY DEF Took
<1>2. m \in Lists(N) /\ Ring(m.p, m.n, N, G, q - 1) /\ (\A k \in 1 .. q - 1 : G[k] # le) /\ m.free = Root(G, q - 1)
      /\ m.nf = s.nf /\ m.nu = s.nu /\ m.lr = s.lr
  BY <1>1 DEF Freed
<1>3. Closes(m, a, le, N)
  BY <1>2, AloneIs
<1>4. Ring(a.p, a.n, N, More(U, 0, 1, le), 1) /\ OthersKeep(m, a, N, U, 0, le)
  BY <1>2, RingAlone
<1> HIDE DEF a, G
<1>5. Ring(a.p, a.n, N, G, q - 1)
  <2>1. \A j \in 1 .. 0, k \in 1 .. q - 1 : U[j] # G[k]
    OBVIOUS
  <2> QED
    BY <1>2, <1>4, <2>1 DEF OthersKeep
<1>6. a \in Lists(N) /\ a.nf = s.nf /\ a.nu = s.nu /\ a.lr = s.lr /\ a.free = m.free
  BY <1>2, <1>3 DEF Closes, SameBut
<1>7. /\ t \in Lists(N) /\ t.nf = a.nf /\ t.nu = a.nu /\ t.lr = a.lr /\ t.free = a.free
      /\ t.p = a.p /\ t.n = a.n /\ t.used = le
  <2>1. le \in 0 .. N
    OBVIOUS
  <2> QED
    BY <1>6, <2>1, UsedIs
<1> HIDE DEF t
<1>8. More(U, 0, 1, le)[1] = le
  BY DEF More
<1>9. v + 1 = 1
  OBVIOUS
<1>10. /\ Ring(t.p, t.n, N, More(U, v, 1, le), v + 1) /\ t.used = More(U, v, 1, le)[1]
       /\ t.free = Root(G, q - 1) /\ Ring(t.p, t.n, N, G, q - 1)
  BY <1>2, <1>4, <1>5, <1>6, <1>7, <1>8
<1>11. InPlace(s, t, N, U, F, 1)
  BY <1>1, <1>6, <1>7, <1>10 DEF InPlace, G
<1> QED
  BY <1>11 DEF t, a

\* A further element, linked behind the i-th.
Behind(s, t, N, U, F, v, q, le, i) ==
  /\ t \in Lists(N) /\ t.nf = s.nf /\ t.nu = s.nu /\ t.lr = s.lr /\ t.used = U[1]
  /\ t.free = Root(Less(F, q, 1), q - 1)
  /\ Ring(t.p, t.n, N, More(U, v, i + 1, le), v + 1)
  /\ Ring(t.p, t.n, N, Less(F, q, 1), q - 1)

LEMMA LinkBehind ==
  ASSUME NEW N \in Nat, NEW s, NEW m, NEW U, NEW F, NEW v \in Nat \ {0}, NEW q \in Nat \ {0}, NEW le \in 1 .. N,
         Took(s, m, N, U, F, v, q, le), NEW i \in 1 .. v
  PROVE  U[i] \in 1 .. N /\ Behind(s, LinkedAfter(m, le, U[i]), N, U, F, v, q, le, i)
<1> DEFINE t == LinkedAfter(m, le, U[i])
           G == Less(F, q, 1)
<1>1. Freed(s, m, N, U, F, v, q, le) /\ s.used = Root(U, v)
  BY DEF Took
<1>2. /\ m \in Lists(N) /\ Ring(m.p, m.n, N, G, q - 1) /\ (\A k \in 1 .. q - 1 : G[k] # le)
      /\ m.free = Root(G, q - 1) /\ m.used = s.used /\ m.nf = s.nf /\ m.nu = s.nu /\ m.lr = s.lr
      /\ Ring(m.p, m.n, N, U, v) /\ (\A k \in 1 .. v : U[k] # le) /\ \A j \in 1 .. v, k \in 1 .. q - 1 : U[j] # G[k]
  BY <1>1 DEF Freed
<1>3. U[i] \in 1 .. N
  BY <1>2 DEF Ring
<1>4. Enters(m, t, le, U[i], N)
  BY <1>2, <1>3, LinkedIs
<1>5. Ring(t.p, t.n, N, More(U, v, i + 1, le), v + 1) /\ OthersKeep(m, t, N, U, v, le)
  BY <1>2, RingLinked
<1> HIDE DEF t, G
<1>6. Ring(t.p, t.n, N, G, q - 1)
  BY <1>2, <1>5 DEF OthersKeep
<1>7. t \in Lists(N) /\ t.nf = s.nf /\ t.nu = s.nu /\ t.lr = s.lr /\ t.free = m.free /\ t.used = s.used
  BY <1>2, <1>4 DEF Enters, SameBut
<1>8. s.used = U[1]
  BY <1>1 DEF Root
<1>9. Behind(s, t, N, U, F, v, q, le, i)
  BY <1>2, <1>5, <1>6, <1>7, <1>8 DEF Behind, G
<1> QED
  BY <1>3, <1>9 DEF t

\* i_llifwd with the interval its caller sets.
LEMMA InsertFwdIs ==
  ASSUME NEW N \in Nat, NEW s, NEW U, NEW F, TwoRings(s, N, U, F), s.nf > 0, NEW c \in Intervals,
         NEW i \in 0 .. s.nu, NEW e, (e = NULL /\ i = s.nu) \/ (i >= 1 /\ e = U[i])
  PROVE  Inserted(s, i_llset(i_llifwd(s, e), s.free, c), N, U, F, i + 1, c)
<1> DEFINE m == i_llgetfree(s)
<1>1. PICK v \in Nat, q \in Nat \ {0}, le \in 1 .. N : Took(s, m, N, U, F, v, q, le)
  BY GetFreeIs
<1> DEFINE u == IF e # NULL THEN e ELSE m.p[m.used]
           t == IF m.used # NULL THEN LinkedAfter(m, le, u) ELSE [Alone(m, le) EXCEPT !.used = le]
<1>2. s.free = le /\ le = F[1] /\ v = s.nu /\ q = s.nf
  BY <1>1 DEF Took
<1>3. i_llset(i_llifwd(s, e), s.free, c) = i_llset(Counted(t), F[1], c)
  BY <1>2 DEF i_llifwd
<1> HIDE DEF m
<1>4. Ring(m.p, m.n, N, U, v) /\ m.used = Root(U, v)
  BY <1>1 DEF Took, Freed
<1>5. InPlace(s, t, N, U, F, i + 1)
  <2>1. CASE v = 0
    <3>1. i = 0 /\ m.used = NULL
      BY <1>2, <1>4, <2>1 DEF Root
    <3>2. InPlace(s, [Alone(m, le) EXCEPT !.used = le], N, U, F, 1)
      BY <1>1, <2>1, LinkFirst
    <3> QED
      BY <3>1, <3>2
  <2>2. CASE v # 0
    <3>1. v \in Nat \ {0} /\ 1 \in 1 .. v /\ v \in 1 .. v
      BY <2>2
    <3>2. m.used = U[1] /\ U[1] # NULL /\ m.p[U[1]] = U[v]
      <4>1. m.used = U[1]
        BY <1>4, <2>2 DEF Root
      <4>2. U[1] \in 1 .. N /\ m.p[U[1]] = U[v]
        BY <1>4, <3>1 DEF Ring
      <4> QED
        BY <4>1, <4>2 DEF NULL
    <3>3. \A k \in 1 .. v : U[k] # NULL
      BY <1>4 DEF Ring, NULL
    <3>4. PICK k \in 1 .. v : k = i /\ u = U[k]
      <4>1. CASE e = NULL /\ i = s.nu
        BY <1>2, <3>1, <3>2, <4>1
      <4>2. CASE i >= 1 /\ e = U[i]
        <5>1. i \in 1 .. v
          BY <1>2, <4>2
        <5> QED
          BY <3>3, <4>2, <5>1
      <4> QED
        BY <4>1, <4>2
    <3>5. t = LinkedAfter(m, le, U[k])
      BY <3>2, <3>4
    <3>6. Behind(s, t, N, U, F, v, q, le, k)
      BY <1>1, <3>1, <3>5, LinkBehind
    <3>7. More(U, v, k + 1, le)[1] = U[1]
      BY <3>1 DEF More
    <3> HIDE DEF t, u
    <3> QED
      BY <1>2, <3>4, <3>6, <3>7 DEF Behind, InPlace
  <2> QED
    BY <2>1, <2>2
<1> HIDE DEF t
<1>6. i + 1 \in 1 .. s.nu + 1
  BY <1>2
<1> QED
  BY <1>3, <1>5, <1>6, InsertEnds

\* i_llibwd with the interval its caller sets.
LEMMA InsertBwdIs ==
  ASSUME NEW N \in Nat, NEW s, NEW U, NEW F, TwoRings(s, N, U, F), s.nf > 0, NEW c \in Intervals,
         NEW i \in 1 .. s.nu + 1, NEW e, (e = NULL /\ i = 1) \/ (i <= s.nu /\ e = U[i])
  PROVE  Inserted(s, i_llset(i_llibwd(s, e), s.free, c), N, U, F, i, c)
<1> DEFINE m == i_llgetfree(s)
<1>1. PICK v \in Nat, q \in Nat \ {0}, le \in 1 .. N : Took(s, m, N, U, F, v, q, le)
  BY GetFreeIs
<1> DEFINE u == IF e # NULL THEN e ELSE m.used
           a == LinkedAfter(m, le, m.p[u])
           t == IF m.used # NULL THEN [a EXCEPT !.used = IF u = @ THEN le ELSE @]
                ELSE [Alone(m, le) EXCEPT !.used = le]
<1>2. s.free = le /\ le = F[1] /\ v = s.nu /\ q = s.nf
  BY <1>1 DEF Took
<1>3. i_llset(i_llibwd(s, e), s.free, c) = i_llset(Counted(t), F[1], c)
  BY <1>2 DEF i_llibwd
<1> HIDE DEF m
<1>4. Ring(m.p, m.n, N, U, v) /\ m.used = Root(U, v)
  BY <1>1 DEF Took, Freed
<1>5. InPlace(s, t, N, U, F, i)
  <2>1. CASE v = 0
    <3>1. i = 1 /\ m.used = NULL
      BY <1>2, <1>4, <2>1 DEF Root
    <3>2. InPlace(s, [Alone(m, le) EXCEPT !.used = le], N, U, F, 1)
      BY <1>1, <2>1, LinkFirst
    <3> QED
      BY <3>1, <3>2
  <2>2. CASE v # 0
    <3>1. v \in Nat \ {0} /\ 1 \in 1 .. v /\ v \in 1 .. v
      BY <2>2
    <3>2. m.used = U[1]
      BY <1>4, <2>2 DEF Root
    <3>3. \A k \in 1 .. v : U[k] \in 1 .. N /\ U[k] # NULL
      BY <1>4 DEF Ring, NULL
    <3>4. PICK k \in 1 .. v : k = i /\ u = U[k]
      <4>1. CASE e = NULL /\ i = 1
        BY <3>1, <3>2, <4>1
      <4>2. CASE i <= s.nu /\ e = U[i]
        <5>1. i \in 1 .. v
          BY <1>2, <4>2
        <5> QED
          BY <3>3, <4>2, <5>1
      <4> QED
        BY <4>1, <4>2
    <3> DEFINE j == IF k = 1 THEN v ELSE k - 1
    <3>5. j \in 1 .. v /\ m.p[u] = U[j]
      BY <1>4, <3>4 DEF Ring
    <3>6. a = LinkedAfter(m, le, U[j])
      BY <3>5
    <3>7. Behind(s, a, N, U, F, v, q, le, j)
      <4> HIDE DEF a, j
      <4> QED
        BY <1>1, <3>1, <3>5, <3>6, LinkBehind
    <3>8. t = [a EXCEPT !.used = IF u = a.used THEN le ELSE a.used]
      BY <3>1, <3>2, <3>3
    <3>9. a.used = U[1] /\ a \in Lists(N) /\ (u = a.used <=> k = 1)
      <4>1. a.used = U[1] /\ a \in Lists(N)
        BY <3>7 DEF Behind
      <4>2. U[k] = U[1] <=> k = 1
        BY <1>4, <3>1 DEF Ring
      <4> QED
        BY <3>4, <4>1, <4>2
    <3> DEFINE r == IF k = 1 THEN le ELSE U[1]
    <3>10. t = [a EXCEPT !.used = r] /\ r \in 0 .. N
      BY <3>1, <3>3, <3>8, <3>9
    <3> HIDE DEF t, a, u, r
    <3>11. /\ t \in Lists(N) /\ t.nf = a.nf /\ t.nu = a.nu /\ t.lr = a.lr /\ t.free = a.free
           /\ t.p = a.p /\ t.n = a.n /\ t.used = r
      BY <3>9, <3>10, UsedIs
    <3>12. Ring(t.p, t.n, N, More(U, v, k, le), v + 1)
      <4>1. CASE k = 1
        <5>1. Ring(t.p, t.n, N, More(U, v, v + 1, le), v + 1)
          BY <3>7, <3>11, <4>1 DEF Behind
        <5>2. U \in [1 .. v -> 1 .. N]
          BY <1>4 DEF Ring
        <5> QED
          BY <3>1, <4>1, <5>1, <5>2, RingTurned
      <4>2. CASE k # 1
        <5>1. j + 1 = k
          BY <4>2
        <5> QED
          BY <3>7, <3>11, <5>1 DEF Behind
      <4> QED
        BY <4>1, <4>2
    <3>13. More(U, v, k, le)[1] = r
      BY <3>1 DEF More, r
    <3> QED
      BY <1>2, <3>4, <3>7, <3>11, <3>12, <3>13 DEF Behind, InPlace
  <2> QED
    BY <2>1, <2>2
<1> HIDE DEF t
<1> QED
  BY <1>3, <1>5, InsertEnds

\* The i-th element has left the list.
Removed(s, t, N, U, i) ==
  /\ \E F : TwoRings(t, N, Less(U, s.nu, i), F)
  /\ t.nu = s.nu - 1 /\ t.lr = s.lr

\* It is out of the ring of attached elements, which has its new head.
Detached(s, d, N, U, F, v, q, i) ==
  /\ d \in Lists(N) /\ d.nf = s.nf /\ d.nu = s.nu /\ d.lr = s.lr /\ d.free = s.free
  /\ Ring(d.p, d.n, N, Less(U, v, i), v - 1) /\ d.used = Root(Less(U, v, i), v - 1)
  /\ Ring(d.p, d.n, N, F, q)

LEMMA DetachIs ==
  ASSUME NEW N \in Nat, NEW s \in Lists(N), NEW U, NEW F, NEW v \in Nat \ {0}, NEW q \in Nat, NEW i \in 1 .. v,
         Ring(s.p, s.n, N, U, v), Ring(s.p, s.n, N, F, q), \A j \in 1 .. v, k \in 1 .. q : U[j] # F[k],
         s.used = Root(U, v), NEW e \in 1 .. N, e = U[i]
  PROVE  LET m == Unlinked(s, e)
         IN  Detached(s, [m EXCEPT !.used = IF m.n[e] = e THEN NULL ELSE IF e = @ THEN m.n[e] ELSE @],
                      N, U, F, v, q, i)
<1> DEFINE m == Unlinked(s, e)
           d == [m EXCEPT !.used = IF m.n[e] = e THEN NULL ELSE IF e = @ THEN m.n[e] ELSE @]
           V == Less(U, v, i)
           behind == IF i = v THEN 1 ELSE i + 1
<1>1. Leaves(s, m, e, N)
  BY UnlinkedIs
<1>2. s.n[U[i]] = U[behind] /\ Ring(Unlinked(s, U[i]).p, Unlinked(s, U[i]).n, N, V, v - 1)
      /\ OthersKeep(s, Unlinked(s, U[i]), N, U, v, U[i])
  BY RingUnlinked
<1>3. s.n[e] = U[behind] /\ Ring(m.p, m.n, N, V, v - 1) /\ OthersKeep(s, m, N, U, v, e)
  BY <1>2
<1>4. U \in [1 .. v -> 1 .. N] /\ \A j, k \in 1 .. v : U[j] = U[k] => j = k
  BY DEF Ring
<1> HIDE DEF m
<1>5. m \in Lists(N) /\ m.nf = s.nf /\ m.nu = s.nu /\ m.lr = s.lr /\ m.free = s.free /\ m.used = s.used /\ m.n[e] = s.n[e]
  BY <1>1 DEF Leaves, SameBut
<1>6. Ring(m.p, m.n, N, F, q)
  <2>1. \A k \in 1 .. q : F[k] # e
    OBVIOUS
  <2> QED
    BY <1>3, <2>1 DEF OthersKeep
<1>7. s.used = U[1] /\ U[1] \in 1 .. N /\ behind \in 1 .. v /\ 1 \in 1 .. v
  BY <1>4 DEF Root
<1> DEFINE r == IF m.n[e] = e THEN NULL ELSE IF e = m.used THEN m.n[e] ELSE m.used
<1>8. r = Root(V, v - 1)
  <2>1. CASE v = 1
    <3>1. behind = i
      BY <2>1
    <3> QED
      BY <1>3, <1>5, <2>1, <3>1 DEF Root
  <2>2. CASE v # 1
    <3>1. behind # i /\ 1 \in 1 .. v - 1 /\ v - 1 # 0
      BY <2>2
    <3>2. m.n[e] # e
      BY <1>3, <1>4, <1>5, <1>7, <3>1
    <3>3. V[1] = U[IF 1 < i THEN 1 ELSE 2]
      BY <3>1 DEF Less
    <3>4. e = m.used <=> i = 1
      BY <1>4, <1>5, <1>7
    <3>5. i = 1 => behind = 2
      BY <2>2
    <3> HIDE DEF V, behind
    <3>6. Root(V, v - 1) = V[1]
      BY <3>1 DEF Root
    <3>7. CASE i = 1
      BY <1>3, <1>5, <3>2, <3>3, <3>4, <3>5, <3>6, <3>7
    <3>8. CASE i # 1
      <4>1. 1 < i
        BY <3>8
      <4> QED
        BY <1>5, <1>7, <3>2, <3>3, <3>4, <3>6, <4>1
    <3> QED
      BY <3>7, <3>8
  <2> QED
    BY <2>1, <2>2
<1>9. r \in 0 .. N
  <2>1. e \in 1 .. N /\ m.n[e] \in 1 .. N
    BY <1>3, <1>4, <1>5, <1>7
  <2> QED
    BY <1>5, <1>7, <2>1 DEF NULL
<1>10. d = [m EXCEPT !.used = r]
  OBVIOUS
<1> HIDE DEF d, r, V
<1>11. /\ d \in Lists(N) /\ d.nf = m.nf /\ d.nu = m.nu /\ d.lr = m.lr /\ d.free = m.free
       /\ d.p = m.p /\ d.n = m.n /\ d.used = r
  BY <1>5, <1>9, <1>10, UsedIs
<1>12. Detached(s, d, N, U, F, v, q, i)
  BY <1>3, <1>5, <1>6, <1>8, <1>11 DEF Detached, V
<1> QED
  BY <1>12 DEF d, m

\* What was detached is linked into the free ring, before the counts change.
Freeing(s, t, N, U, F, v, q, i, e) ==
  /\ t \in Lists(N) /\ t.nf = s.nf /\ t.nu = s.nu /\ t.lr = s.lr
  /\ Ring(t.p, t.n, N, Less(U, v, i), v - 1) /\ t.used = Root(Less(U, v, i), v - 1)
  /\ Ring(t.p, t.n, N, More(F, q, IF q = 0 THEN 1 ELSE 2, e), q + 1)
  /\ t.free = More(F, q, IF q = 0 THEN 1 ELSE 2, e)[1]

LEMMA FreeingIs ==
  ASSUME NEW N \in Nat, NEW s, NEW d, NEW U, NEW F, NEW v \in Nat \ {0}, NEW q \in Nat, NEW i \in 1 .. v,
         Detached(s, d, N, U, F, v, q, i), s.free = Root(F, q), NEW e \in 1 .. N,
         \A k \in 1 .. v - 1 : Less(U, v, i)[k] # e, \A k \in 1 .. q : F[k] # e,
         \A j \in 1 .. q, k \in 1 .. v - 1 : F[j] # Less(U, v, i)[k]
  PROVE  Freeing(s, IF d.free # NULL THEN LinkedAfter(d, e, d.free) ELSE [Alone(d, e) EXCEPT !.free = e],
                 N, U, F, v, q, i, e)
<1> DEFINE V == Less(U, v, i)
<1>1. /\ d \in Lists(N) /\ d.nf = s.nf /\ d.nu = s.nu /\ d.lr = s.lr /\ d.free = s.free
      /\ Ring(d.p, d.n, N, V, v - 1) /\ d.used = Root(V, v - 1)
      /\ Ring(d.p, d.n, N, F, q)
  BY DEF Detached
<1>2. F \in [1 .. q -> 1 .. N]
  BY <1>1 DEF Ring
<1>3. CASE q = 0
  <2> DEFINE a == Alone(d, e)
             t == [a EXCEPT !.free = e]
  <2>1. d.free = NULL
    BY <1>1, <1>3 DEF Root
  <2>2. Closes(d, a, e, N)
    BY <1>1, AloneIs
  <2>3. Ring(a.p, a.n, N, More(F, 0, 1, e), 1) /\ OthersKeep(d, a, N, F, 0, e)
    BY <1>1, RingAlone
  <2> HIDE DEF a, V
  <2>4. Ring(a.p, a.n, N, V, v - 1)
    <3>1. \A j \in 1 .. 0, k \in 1 .. v - 1 : F[j] # V[k]
      OBVIOUS
    <3>2. \A k \in 1 .. v - 1 : V[k] # e
      BY DEF V
    <3> QED
      BY <1>1, <2>3, <3>1, <3>2 DEF OthersKeep
  <2>5. a \in Lists(N) /\ a.nf = s.nf /\ a.nu = s.nu /\ a.lr = s.lr /\ a.used = d.used
    BY <1>1, <2>2 DEF Closes, SameBut
  <2>6. t = [sz |-> a.sz, nf |-> a.nf, nu |-> a.nu, used |-> a.used, free |-> e,
             p |-> a.p, n |-> a.n, lr |-> a.lr]
    BY <2>5, FreeAt
  <2> HIDE DEF t
  <2>7. t \in Lists(N)
    <3>1. e \in 0 .. N
      OBVIOUS
    <3> QED
      BY <2>5, <2>6, <3>1, ListIs DEF Lists
  <2>8. More(F, 0, 1, e)[1] = e
    BY DEF More
  <2>9. (IF q = 0 THEN 1 ELSE 2) = 1 /\ q + 1 = 1
    BY <1>3
  <2>10. Freeing(s, t, N, U, F, v, q, i, e)
    BY <1>1, <1>3, <2>3, <2>4, <2>5, <2>6, <2>7, <2>8, <2>9 DEF Freeing, V
  <2> QED
    BY <2>1, <2>10 DEF t, a
<1>4. CASE q # 0
  <2> DEFINE t == LinkedAfter(d, e, F[1])
  <2>1. q \in Nat \ {0} /\ 1 \in 1 .. q
    BY <1>4
  <2>2. d.free = F[1] /\ F[1] \in 1 .. N /\ d.free # NULL
    <3>1. d.free = F[1] /\ F[1] \in 1 .. N
      BY <1>1, <1>2, <1>4, <2>1 DEF Root
    <3> QED
      BY <3>1 DEF NULL
  <2>3. Enters(d, t, e, F[1], N)
    BY <1>1, <2>2, LinkedIs
  <2>4. Ring(t.p, t.n, N, More(F, q, 1 + 1, e), q + 1) /\ OthersKeep(d, t, N, F, q, e)
    BY <1>1, <2>1, RingLinked
  <2> HIDE DEF t, V
  <2>5. Ring(t.p, t.n, N, V, v - 1)
    <3>1. \A k \in 1 .. v - 1 : V[k] # e
      BY DEF V
    <3>2. \A j \in 1 .. q, k \in 1 .. v - 1 : F[j] # V[k]
      BY DEF V
    <3> QED
      BY <1>1, <2>4, <3>1, <3>2 DEF OthersKeep
  <2>6. t \in Lists(N) /\ t.nf = s.nf /\ t.nu = s.nu /\ t.lr = s.lr /\ t.used = d.used /\ t.free = d.free
    BY <1>1, <2>3 DEF Enters, SameBut
  <2>7. (IF q = 0 THEN 1 ELSE 2) = 2 /\ 1 + 1 = 2
    BY <1>4
  <2>8. More(F, q, 2, e)[1] = F[1]
    BY <2>1 DEF More
  <2>9. Freeing(s, t, N, U, F, v, q, i, e)
    BY <1>1, <2>2, <2>4, <2>5, <2>6, <2>7, <2>8 DEF Freeing, V
  <2> QED
    BY <2>2, <2>9 DEF t
<1> QED
  BY <1>3, <1>4

\* i_llrem takes out the element it is given and nothing else.
LEMMA RemIs ==
  ASSUME NEW N \in Nat, NEW s, NEW U, NEW F, TwoRings(s, N, U, F), NEW i \in 1 .. s.nu
  PROVE  U[i] \in 1 .. N /\ Removed(s, i_llrem(s, U[i]), N, U, i)
<1>1. s \in Lists(N)
  BY DEF TwoRings
<1>2. PICK v \in 0 .. N : v = s.nu
  BY <1>1, ListIs
<1>3. PICK q \in 0 .. N : q = s.nf
  BY <1>1, ListIs
<1>4. v \in Nat \ {0} /\ q \in Nat /\ i \in 1 .. v /\ q + v = N /\ v - 1 \in 0 .. N /\ q + 1 \in 0 .. N
  BY <1>2, <1>3 DEF TwoRings
<1>5. /\ Ring(s.p, s.n, N, U, v) /\ Ring(s.p, s.n, N, F, q) /\ \A k \in 1 .. v, j \in 1 .. q : U[k] # F[j]
      /\ s.used = Root(U, v) /\ s.free = Root(F, q) /\ \A k \in 1 .. v : s.lr[U[k]] \in Intervals
  BY <1>2, <1>3 DEF TwoRings
<1>6. U \in [1 .. v -> 1 .. N] /\ \A j, k \in 1 .. v : U[j] = U[k] => j = k
  BY <1>5 DEF Ring
<1>7. PICK e \in 1 .. N : e = U[i]
  BY <1>4, <1>6
<1> DEFINE m == Unlinked(s, e)
           d == [m EXCEPT !.used = IF m.n[e] = e THEN NULL ELSE IF e = @ THEN m.n[e] ELSE @]
           t == IF d.free # NULL THEN LinkedAfter(d, e, d.free) ELSE [Alone(d, e) EXCEPT !.free = e]
           r == [t EXCEPT !.nf = @ + 1, !.nu = @ - 1]
           V == Less(U, v, i)
           G == More(F, q, IF q = 0 THEN 1 ELSE 2, e)
<1>8. Detached(s, d, N, U, F, v, q, i)
  BY <1>1, <1>4, <1>5, <1>7, DetachIs
<1>9. \A k \in 1 .. v - 1 : \E j \in 1 .. v : j # i /\ V[k] = U[j]
  <2>1. \A k \in 1 .. v - 1 : V[k] = U[IF k < i THEN k ELSE k + 1]
    BY DEF Less
  <2>2. \A k \in 1 .. v - 1 : (IF k < i THEN k ELSE k + 1) \in 1 .. v /\ (IF k < i THEN k ELSE k + 1) # i
    BY <1>4
  <2> HIDE DEF V
  <2> QED
    BY <2>1, <2>2
<1>10. /\ \A k \in 1 .. v - 1 : V[k] # e
       /\ \A k \in 1 .. q : F[k] # e
       /\ \A j \in 1 .. q, k \in 1 .. v - 1 : F[j] # V[k]
  <2> HIDE DEF V
  <2>1. ASSUME NEW k \in 1 .. v - 1
        PROVE  V[k] # e /\ \A j \in 1 .. q : F[j] # V[k]
    <3>1. PICK j \in 1 .. v : j # i /\ V[k] = U[j]
      BY <1>9
    <3> QED
      BY <1>4, <1>5, <1>6, <1>7, <3>1
  <2>2. \A k \in 1 .. q : F[k] # e
    BY <1>4, <1>5, <1>6, <1>7
  <2> QED
    BY <2>1, <2>2
<1>11. Freeing(s, t, N, U, F, v, q, i, e)
  <2> HIDE DEF d
  <2> QED
    BY <1>4, <1>5, <1>8, <1>10, FreeingIs
<1>12. i_llrem(s, e) = r
  BY DEF i_llrem
<1> HIDE DEF t, V, G
<1>13. /\ t \in Lists(N) /\ t.nf = q /\ t.nu = v /\ t.lr = s.lr
       /\ Ring(t.p, t.n, N, V, v - 1) /\ t.used = Root(V, v - 1)
       /\ Ring(t.p, t.n, N, G, q + 1) /\ t.free = G[1]
  BY <1>2, <1>3, <1>11 DEF Freeing, V, G
<1>14. r = [t EXCEPT !.nf = q + 1, !.nu = v - 1]
  BY <1>13
<1> HIDE DEF r
<1>15. r = [sz |-> t.sz, nf |-> q + 1, nu |-> v - 1, used |-> t.used, free |-> t.free,
            p |-> t.p, n |-> t.n, lr |-> t.lr]
  <2>1. t = [sz |-> t.sz, nf |-> t.nf, nu |-> t.nu, used |-> t.used, free |-> t.free,
             p |-> t.p, n |-> t.n, lr |-> t.lr]
    BY <1>13, ListIs
  <2> QED
    BY <1>14, <2>1
<1>16. r \in Lists(N)
  BY <1>4, <1>13, <1>15, ListIs DEF Lists
<1>17. \A k \in 1 .. q + 1 : G[k] = e \/ \E j \in 1 .. q : G[k] = F[j]
  <2> DEFINE x == IF q = 0 THEN 1 ELSE 2
  <2>1. \A k \in 1 .. q + 1 : G[k] = IF k < x THEN F[k] ELSE IF k = x THEN e ELSE F[k - 1]
    BY DEF G, More
  <2>2. \A k \in 1 .. q + 1 : (k < x => k \in 1 .. q) /\ (~(k < x) /\ k # x => k - 1 \in 1 .. q)
    BY <1>4
  <2> HIDE DEF x
  <2> QED
    BY <2>1, <2>2
<1>18. \A k \in 1 .. v - 1, j \in 1 .. q + 1 : V[k] # G[j]
  BY <1>10, <1>17
<1>19. \A k \in 1 .. v - 1 : r.lr[V[k]] \in Intervals
  BY <1>5, <1>9, <1>13, <1>15
<1>20. TwoRings(r, N, V, G)
  <2>1. Root(G, q + 1) = G[1] /\ (q + 1) + (v - 1) = N
    BY <1>4 DEF Root
  <2>2. /\ r.nf = q + 1 /\ r.nu = v - 1 /\ r.used = Root(V, v - 1) /\ r.free = Root(G, q + 1)
        /\ r.p = t.p /\ r.n = t.n
    BY <1>13, <1>15, <2>1
  <2> QED
    BY <1>13, <1>16, <1>18, <1>19, <2>1, <2>2 DEF TwoRings
<1>21. r.nu = s.nu - 1 /\ r.lr = s.lr
  BY <1>2, <1>13, <1>15
<1> QED
  BY <1>2, <1>7, <1>12, <1>20, <1>21 DEF Removed, V

-----------------------------------------------------------------------------
(* Reading and walking a list.                                             *)

\* s is a list with the order U.
Orders(s, N, U) == \E F : TwoRings(s, N, U, F)

LEMMA OrderIs ==
  ASSUME NEW N \in Nat, NEW s, NEW U, Orders(s, N, U)
  PROVE  \E v \in 0 .. N :
           /\ v = s.nu /\ s \in Lists(N) /\ Ring(s.p, s.n, N, U, v) /\ s.used = Root(U, v)
           /\ \A i \in 1 .. v : s.lr[U[i]] \in Intervals
<1>1. PICK F : TwoRings(s, N, U, F)
  BY DEF Orders
<1>2. s \in Lists(N)
  BY <1>1 DEF TwoRings
<1>3. PICK v \in 0 .. N : v = s.nu
  BY <1>2, ListIs
<1> QED
  BY <1>1, <1>2, <1>3 DEF TwoRings

\* Reading off the links gives the order.
LEMMA AttachedIs ==
  ASSUME NEW N \in Nat, NEW s, NEW U, Orders(s, N, U)
  PROVE  Attached(s) = U
<1>1. PICK v \in 0 .. N :
        v = s.nu /\ s \in Lists(N) /\ Ring(s.p, s.n, N, U, v) /\ s.used = Root(U, v)
  BY OrderIs
<1> DEFINE Def(at, k) == IF k = 1 THEN s.used ELSE s.n[at[k - 1]]
           W == CHOOSE at : at = [k \in 1 .. v |-> Def(at, k)]
<1>2. Attached(s) = W
  BY <1>1 DEF Attached
<1>3. U \in [1 .. v -> 1 .. N]
  BY <1>1 DEF Ring
<1>4. \A k \in 1 .. v : U[k] = Def(U, k)
  <2> SUFFICES ASSUME NEW k \in 1 .. v
               PROVE  U[k] = Def(U, k)
    OBVIOUS
  <2>1. CASE k = 1
    BY <1>1, <2>1 DEF Root
  <2>2. CASE k # 1
    <3>1. k - 1 \in 1 .. v /\ k - 1 # v /\ (k - 1) + 1 = k
      BY <2>2
    <3>2. s.n[U[k - 1]] = U[IF k - 1 = v THEN 1 ELSE (k - 1) + 1]
      BY <1>1, <3>1 DEF Ring
    <3> QED
      BY <2>2, <3>1, <3>2
  <2> QED
    BY <2>1, <2>2
<1>5. U = [k \in 1 .. v |-> Def(U, k)]
  BY <1>3, <1>4
<1>6. W = [k \in 1 .. v |-> Def(W, k)]
  BY <1>5
<1> HIDE DEF W
<1>7. \A k \in 1 .. v : W[k] = Def(W, k)
  BY <1>6
<1> DEFINE Same == {n \in Nat : n + 1 <= v => W[n + 1] = U[n + 1]}
<1>8. 0 \in Same
  <2> SUFFICES ASSUME 1 <= v
               PROVE  W[1] = U[1]
    OBVIOUS
  <2>1. 1 \in 1 .. v
    OBVIOUS
  <2> QED
    BY <1>4, <1>7, <2>1
<1>9. ASSUME NEW n \in Nat, n \in Same
      PROVE  n + 1 \in Same
  <2> SUFFICES ASSUME (n + 1) + 1 <= v
               PROVE  W[(n + 1) + 1] = U[(n + 1) + 1]
    OBVIOUS
  <2> DEFINE k == (n + 1) + 1
  <2>1. k \in 1 .. v /\ k # 1 /\ k - 1 = n + 1
    OBVIOUS
  <2>2. W[n + 1] = U[n + 1]
    BY <1>9
  <2> HIDE DEF k
  <2>3. W[k] = s.n[W[k - 1]] /\ U[k] = s.n[U[k - 1]]
    BY <1>4, <1>7, <2>1
  <2>4. W[k] = U[k]
    BY <2>1, <2>2, <2>3
  <2> QED
    BY <2>4 DEF k
<1> HIDE DEF Same
<1>10. \A n \in Nat : n \in Same
  BY <1>8, <1>9, Induction
<1>11. ASSUME NEW k \in 1 .. v
       PROVE  W[k] = U[k]
  <2>1. k - 1 \in Nat /\ (k - 1) + 1 = k /\ k - 1 \in Same
    BY <1>10
  <2> QED
    BY <2>1 DEF Same
<1>12. W = U
  <2>1. W = [k \in 1 .. v |-> W[k]]
    BY <1>6
  <2> QED
    BY <1>3, <1>11, <2>1
<1> QED
  BY <1>2, <1>12

LEMMA ContentsIs ==
  ASSUME NEW N \in Nat, NEW s, NEW U, Orders(s, N, U)
  PROVE  /\ Contents(s) = [k \in 1 .. s.nu |-> s.lr[U[k]]]
         /\ \A k \in 1 .. s.nu : s.lr[U[k]] \in Intervals
         /\ Contents(s) \in Seq(Intervals) /\ Len(Contents(s)) = s.nu
<1>1. PICK v \in 0 .. N : v = s.nu /\ \A i \in 1 .. v : s.lr[U[i]] \in Intervals
  BY OrderIs
<1>2. Contents(s) = [k \in 1 .. s.nu |-> s.lr[U[k]]]
  BY AttachedIs DEF Contents
<1>3. Contents(s) = [k \in 1 .. v |-> s.lr[U[k]]]
  BY <1>1, <1>2
<1>4. Contents(s) \in [1 .. v -> Intervals]
  BY <1>1, <1>3
<1>5. v \in Nat
  OBVIOUS
<1>6. Contents(s) \in Seq(Intervals) /\ Len(Contents(s)) = v
  BY <1>4, <1>5
<1> QED
  BY <1>1, <1>2, <1>6

\* What is left, in t, of list s with the order U: the places of K.
LeftOver(s, t, N, U, K) ==
  \E g : /\ g \in [1 .. t.nu -> K]
         /\ \A i, j \in 1 .. t.nu : i < j => g[i] < g[j]
         /\ \A x \in K : \E i \in 1 .. t.nu : g[i] = x
         /\ Orders(t, N, [i \in 1 .. t.nu |-> U[g[i]]])
         /\ t.lr = s.lr

\* The place a walk comes to at its j-th turn.
Nth(v, forwards, j) == IF forwards THEN j ELSE v + 1 - j

\* The places not detached after j turns, and whether the walk stops at the j-th.
Kept(s, v, U, f, forwards, j) ==
  {x \in 1 .. v : ~(s.lr[U[x]] \in f.detach /\ \E k \in 1 .. j : x = Nth(v, forwards, k))}

Hit(s, v, U, f, forwards, j) == j >= 1 /\ s.lr[U[Nth(v, forwards, j)]] \in f.stop

\* A walk that has come through j turns.
Came(at, s, N, v, U, f, forwards, j) ==
  /\ LeftOver(s, at.s, N, U, Kept(s, v, U, f, forwards, j))
  /\ \A k \in 1 .. j - 1 : ~Hit(s, v, U, f, forwards, k)
  /\ at.over <=> j = v \/ Hit(s, v, U, f, forwards, j)
  /\ at.found = IF Hit(s, v, U, f, forwards, j) THEN U[Nth(v, forwards, j)] ELSE NULL
  /\ ~at.over => at.le = U[Nth(v, forwards, j + 1)]

\* One element left over less.
LEMMA LeftLess ==
  ASSUME NEW N \in Nat, NEW s, NEW t, NEW U, NEW K \in SUBSET Nat, LeftOver(s, t, N, U, K), NEW x \in K
  PROVE  LeftOver(s, i_llrem(t, U[x]), N, U, K \ {x})
<1>1. PICK g : /\ g \in [1 .. t.nu -> K]
               /\ \A i, j \in 1 .. t.nu : i < j => g[i] < g[j]
               /\ \A z \in K : \E i \in 1 .. t.nu : g[i] = z
               /\ Orders(t, N, [i \in 1 .. t.nu |-> U[g[i]]])
               /\ t.lr = s.lr
  BY DEF LeftOver
<1>2. PICK m \in 0 .. N : m = t.nu
  BY <1>1, OrderIs
<1> DEFINE V == [i \in 1 .. m |-> U[g[i]]]
<1>3. PICK F : TwoRings(t, N, V, F)
  BY <1>1, <1>2 DEF Orders
<1>4. g \in [1 .. m -> K] /\ (\A i, j \in 1 .. m : i < j => g[i] < g[j]) /\ \A z \in K : \E i \in 1 .. m : g[i] = z
  BY <1>1, <1>2
<1>5. PICK y \in 1 .. m : g[y] = x
  BY <1>4
<1> DEFINE r == i_llrem(t, U[x])
<1>6. Removed(t, r, N, V, y)
  <2>1. V[y] = U[x]
    BY <1>5
  <2>2. y \in 1 .. t.nu
    BY <1>2
  <2> HIDE DEF V
  <2>3. Removed(t, i_llrem(t, V[y]), N, V, y)
    BY <1>3, <2>2, RemIs
  <2> QED
    BY <2>1, <2>3
<1>7. m \in Nat \ {0}
  BY <1>5
<1> DEFINE h == Less(g, m, y)
           a(i) == IF i < y THEN i ELSE i + 1
<1>8. \A i \in 1 .. m - 1 : h[i] = g[a(i)] /\ a(i) \in 1 .. m /\ a(i) # y
  <2>1. \A i \in 1 .. m - 1 : h[i] = g[a(i)]
    BY DEF Less
  <2>2. \A i \in 1 .. m - 1 : a(i) \in 1 .. m /\ a(i) # y
    OBVIOUS
  <2> QED
    BY <2>1, <2>2
<1>9. \A i, j \in 1 .. m : g[i] = g[j] => i = j
  <2> SUFFICES ASSUME NEW i \in 1 .. m, NEW j \in 1 .. m, g[i] = g[j], i # j
               PROVE  FALSE
    OBVIOUS
  <2>1. g[i] \in Nat /\ g[j] \in Nat
    BY <1>4
  <2>2. i < j \/ j < i
    OBVIOUS
  <2>3. g[i] < g[j] \/ g[j] < g[i]
    BY <1>4, <2>2
  <2> QED
    BY <2>1, <2>3
<1>10. h \in [1 .. m - 1 -> K \ {x}]
  <2>1. ASSUME NEW i \in 1 .. m - 1
        PROVE  h[i] \in K \ {x}
    <3> HIDE DEF a, h
    <3> QED
      BY <1>4, <1>5, <1>8, <1>9
  <2>2. h = [i \in 1 .. m - 1 |-> h[i]]
    BY DEF Less
  <2> HIDE DEF h
  <2> QED
    BY <2>1, <2>2
<1>11. \A i, j \in 1 .. m - 1 : i < j => h[i] < h[j]
  <2> SUFFICES ASSUME NEW i \in 1 .. m - 1, NEW j \in 1 .. m - 1, i < j
               PROVE  h[i] < h[j]
    OBVIOUS
  <2>1. a(i) < a(j)
    OBVIOUS
  <2> HIDE DEF a, h
  <2> QED
    BY <1>4, <1>8, <2>1
<1>12. ASSUME NEW z \in K \ {x}
       PROVE  \E i \in 1 .. m - 1 : h[i] = z
  <2>1. PICK i \in 1 .. m : g[i] = z
    BY <1>4
  <2>2. i # y
    BY <1>5, <1>12, <2>1
  <2> DEFINE k == IF i < y THEN i ELSE i - 1
  <2>3. k \in 1 .. m - 1 /\ a(k) = i
    BY <2>2
  <2> HIDE DEF k, h, a
  <2>4. h[k] = g[a(k)]
    BY <1>8, <2>3
  <2> QED
    BY <2>1, <2>3, <2>4
<1>13. Less(V, m, y) = [i \in 1 .. m - 1 |-> U[h[i]]]
  <2>1. \A i \in 1 .. m - 1 : Less(V, m, y)[i] = V[a(i)]
    BY DEF Less
  <2>2. \A i \in 1 .. m - 1 : V[a(i)] = U[h[i]]
    <3> HIDE DEF a, h
    <3> QED
      BY <1>8
  <2>3. Less(V, m, y) = [i \in 1 .. m - 1 |-> Less(V, m, y)[i]]
    BY DEF Less
  <2> HIDE DEF V, h, a
  <2> QED
    BY <2>1, <2>2, <2>3
<1> HIDE DEF h, V, r
<1>14. r.nu = m - 1 /\ r.lr = s.lr /\ Orders(r, N, [i \in 1 .. r.nu |-> U[h[i]]])
  <2>1. r.nu = m - 1 /\ r.lr = s.lr /\ Orders(r, N, Less(V, m, y))
    BY <1>1, <1>2, <1>6 DEF Removed, Orders
  <2> QED
    BY <1>13, <2>1
<1>15. /\ h \in [1 .. r.nu -> K \ {x}]
       /\ \A i, j \in 1 .. r.nu : i < j => h[i] < h[j]
       /\ \A z \in K \ {x} : \E i \in 1 .. r.nu : h[i] = z
  BY <1>10, <1>11, <1>12, <1>14
<1>16. LeftOver(s, r, N, U, K \ {x})
  BY <1>14, <1>15, Zenon DEF LeftOver
<1> QED
  BY <1>16 DEF r

\* The neighbour of an element among what is left, if the next place is kept.
LEMMA LeftNext ==
  ASSUME NEW N \in Nat, NEW s, NEW t, NEW U, NEW K \in SUBSET Nat, LeftOver(s, t, N, U, K), NEW x \in K
  PROVE  /\ x + 1 \in K => t.n[U[x]] = U[x + 1]
         /\ x - 1 \in K => t.p[U[x]] = U[x - 1]
         /\ U[x] \in 1 .. N /\ t.lr = s.lr /\ t \in Lists(N)
<1>1. PICK g : /\ g \in [1 .. t.nu -> K]
               /\ \A i, j \in 1 .. t.nu : i < j => g[i] < g[j]
               /\ \A z \in K : \E i \in 1 .. t.nu : g[i] = z
               /\ Orders(t, N, [i \in 1 .. t.nu |-> U[g[i]]])
               /\ t.lr = s.lr
  BY DEF LeftOver
<1> DEFINE V == [i \in 1 .. t.nu |-> U[g[i]]]
<1>2. PICK m \in 0 .. N : m = t.nu /\ t \in Lists(N) /\ Ring(t.p, t.n, N, V, m)
  BY <1>1, OrderIs
<1>3. /\ g \in [1 .. m -> K] /\ \A i, j \in 1 .. m : i < j => g[i] < g[j]
      /\ \A z \in K : \E i \in 1 .. m : g[i] = z
      /\ \A i \in 1 .. m : V[i] = U[g[i]]
  BY <1>1, <1>2
<1> HIDE DEF V
<1>4. PICK y \in 1 .. m : g[y] = x
  BY <1>3
<1>5. V[y] = U[x] /\ V[y] \in 1 .. N
  BY <1>2, <1>3, <1>4 DEF Ring
<1>6. \A i \in 1 .. m : g[i] \in Nat
  BY <1>3
<1>7. ASSUME x + 1 \in K
      PROVE  t.n[U[x]] = U[x + 1]
  <2>1. PICK z \in 1 .. m : g[z] = x + 1
    BY <1>3, <1>7
  <2>2. z > y
    <3>1. CASE z = y
      BY <1>4, <1>6, <2>1, <3>1
    <3>2. CASE z < y
      <4>1. x + 1 < x
        BY <1>3, <1>4, <2>1, <3>2
      <4> QED
        BY <4>1
    <3> QED
      BY <3>1, <3>2
  <2>3. z = y + 1
    <3> SUFFICES ASSUME y + 1 < z
                 PROVE  FALSE
      BY <2>2
    <3>1. y + 1 \in 1 .. m /\ y < y + 1
      BY <2>2
    <3>2. x < g[y + 1] /\ g[y + 1] < x + 1
      BY <1>3, <1>4, <2>1, <3>1
    <3>3. g[y + 1] \in Nat
      BY <1>6, <3>1
    <3> QED
      BY <3>2, <3>3
  <2>4. y # m
    BY <2>3
  <2>5. t.n[V[y]] = V[y + 1]
    BY <1>2, <2>4 DEF Ring
  <2> QED
    BY <1>3, <1>5, <2>1, <2>3, <2>5
<1>8. ASSUME x - 1 \in K
      PROVE  t.p[U[x]] = U[x - 1]
  <2>1. PICK z \in 1 .. m : g[z] = x - 1
    BY <1>3, <1>8
  <2>2. z < y
    <3>1. CASE z = y
      BY <1>4, <1>6, <2>1, <3>1
    <3>2. CASE z > y
      <4>1. x < x - 1
        BY <1>3, <1>4, <2>1, <3>2
      <4> QED
        BY <4>1
    <3> QED
      BY <3>1, <3>2
  <2>3. z = y - 1
    <3> SUFFICES ASSUME z < y - 1
                 PROVE  FALSE
      BY <2>2
    <3>1. y - 1 \in 1 .. m /\ y - 1 < y
      BY <2>2
    <3>2. g[y - 1] < x /\ x - 1 < g[y - 1]
      BY <1>3, <1>4, <2>1, <3>1
    <3>3. g[y - 1] \in Nat
      BY <1>6, <3>1
    <3> QED
      BY <3>2, <3>3
  <2>4. y # 1
    BY <2>3
  <2>5. t.p[V[y]] = V[y - 1]
    BY <1>2, <2>4 DEF Ring
  <2> QED
    BY <1>3, <1>5, <2>1, <2>3, <2>5
<1> QED
  BY <1>1, <1>2, <1>5, <1>7, <1>8

-----------------------------------------------------------------------------
(* A walk.                                                                 *)

LEMMA NthIs ==
  ASSUME NEW v \in Nat, NEW forwards \in BOOLEAN, NEW j \in 0 .. v - 1
  PROVE  /\ Nth(v, forwards, j + 1) \in 1 .. v
         /\ \A k \in 1 .. j : Nth(v, forwards, k) \in 1 .. v /\ Nth(v, forwards, k) # Nth(v, forwards, j + 1)
         /\ Nth(v, forwards, j + 1) = (IF forwards THEN v ELSE 1) <=> j + 1 = v
         /\ j + 1 < v =>
              /\ Nth(v, forwards, j + 2) \in 1 .. v
              /\ Nth(v, forwards, j + 2) = Nth(v, forwards, j + 1) + (IF forwards THEN 1 ELSE -1)
              /\ \A k \in 1 .. j + 1 : Nth(v, forwards, k) # Nth(v, forwards, j + 2)
<1>1. CASE forwards
  BY <1>1 DEF Nth
<1>2. CASE ~forwards
  BY <1>2 DEF Nth
<1> QED
  BY <1>1, <1>2

\* What the next turn does to the places kept.
Keeps(s, v, U, f, forwards, j) ==
  LET x == Nth(v, forwards, j + 1)
      K == Kept(s, v, U, f, forwards, j)
  IN  /\ x \in K
      /\ Kept(s, v, U, f, forwards, j + 1) = IF s.lr[U[x]] \in f.detach THEN K \ {x} ELSE K
      /\ j + 1 < v => Nth(v, forwards, j + 2) \in K

LEMMA KeptNext ==
  ASSUME NEW s, NEW v \in Nat, NEW U, NEW f, NEW forwards \in BOOLEAN, NEW j \in 0 .. v - 1
  PROVE  Keeps(s, v, U, f, forwards, j)
<1> DEFINE a(k) == Nth(v, forwards, k)
           D(y) == s.lr[U[y]] \in f.detach
<1>1. /\ a(j + 1) \in 1 .. v
      /\ \A k \in 1 .. j : a(k) # a(j + 1)
      /\ j + 1 < v => a(j + 2) \in 1 .. v /\ \A k \in 1 .. j + 1 : a(k) # a(j + 2)
  BY NthIs
<1>2. \A i : Kept(s, v, U, f, forwards, i) = {y \in 1 .. v : ~(D(y) /\ \E k \in 1 .. i : y = a(k))}
  BY DEF Kept
<1> HIDE DEF a, D
<1>3. 1 .. j + 1 = (1 .. j) \cup {j + 1}
  OBVIOUS
<1>4. a(j + 1) \in Kept(s, v, U, f, forwards, j)
  BY <1>1, <1>2
<1>5. j + 1 < v => a(j + 2) \in Kept(s, v, U, f, forwards, j)
  BY <1>1, <1>2, <1>3
<1>6. \A y : y \in Kept(s, v, U, f, forwards, j + 1) <=>
               y \in Kept(s, v, U, f, forwards, j) /\ ~(y = a(j + 1) /\ D(a(j + 1)))
  BY <1>1, <1>2, <1>3
<1>7. Kept(s, v, U, f, forwards, j + 1) =
        IF D(a(j + 1)) THEN Kept(s, v, U, f, forwards, j) \ {a(j + 1)} ELSE Kept(s, v, U, f, forwards, j)
  BY <1>6
<1> QED
  BY <1>4, <1>5, <1>7 DEF a, D, Keeps

\* One turn more.
LEMMA TurnIs ==
  ASSUME NEW N \in Nat, NEW s, NEW v \in 0 .. N, NEW U, NEW f, NEW forwards \in BOOLEAN, NEW last,
         \A i, k \in 1 .. v : U[i] = U[k] => i = k, last = U[IF forwards THEN v ELSE 1],
         NEW j \in 0 .. v, NEW at, Came(at, s, N, v, U, f, forwards, j), ~at.over
  PROVE  j < v /\ Came(Turn(at, f, forwards, last), s, N, v, U, f, forwards, j + 1)
<1> DEFINE x == Nth(v, forwards, j + 1)
           K == Kept(s, v, U, f, forwards, j)
           t == at.s
           b == Turn(at, f, forwards, last)
           done == Apply(t, f, at.le)
<1>1. /\ LeftOver(s, t, N, U, K) /\ at.le = U[x]
      /\ j # v /\ ~Hit(s, v, U, f, forwards, j) /\ \A k \in 1 .. j - 1 : ~Hit(s, v, U, f, forwards, k)
  BY DEF Came
<1>2. j \in 0 .. v - 1 /\ v \in Nat
  BY <1>1
<1>3. /\ x \in 1 .. v /\ (x = (IF forwards THEN v ELSE 1) <=> j + 1 = v)
      /\ j + 1 < v => Nth(v, forwards, j + 2) = x + (IF forwards THEN 1 ELSE -1)
  BY <1>2, NthIs
<1>4. /\ x \in K
      /\ Kept(s, v, U, f, forwards, j + 1) = IF s.lr[U[x]] \in f.detach THEN K \ {x} ELSE K
      /\ j + 1 < v => Nth(v, forwards, j + 2) \in K
  <2>1. Keeps(s, v, U, f, forwards, j)
    BY <1>2, KeptNext
  <2> QED
    BY <2>1 DEF Keeps
<1>5. K \in SUBSET Nat
  BY <1>2 DEF Kept
<1>6. /\ x + 1 \in K => t.n[U[x]] = U[x + 1]
      /\ x - 1 \in K => t.p[U[x]] = U[x - 1]
      /\ U[x] \in 1 .. N /\ t.lr = s.lr
  <2> HIDE DEF x, K, t
  <2> QED
    BY <1>1, <1>4, <1>5, LeftNext
<1>7. Hit(s, v, U, f, forwards, j + 1) <=> s.lr[U[x]] \in f.stop
  BY <1>2 DEF Hit
<1>8. /\ b.s = IF s.lr[U[x]] \in f.detach THEN i_llrem(t, U[x]) ELSE t
      /\ b.le = IF forwards THEN t.n[U[x]] ELSE t.p[U[x]]
      /\ b.found = IF s.lr[U[x]] \in f.stop THEN U[x] ELSE NULL
      /\ b.over <=> s.lr[U[x]] \in f.stop \/ U[x] = last
  <2> HIDE DEF x, K
  <2>1. /\ done.s = IF s.lr[U[x]] \in f.detach THEN i_llrem(t, U[x]) ELSE t
        /\ done.stop <=> s.lr[U[x]] \in f.stop
    BY <1>1, <1>6 DEF Apply
  <2>2. b = [s |-> done.s, le |-> IF forwards THEN t.n[at.le] ELSE t.p[at.le],
             found |-> IF done.stop THEN at.le ELSE NULL, over |-> done.stop \/ at.le = last]
    BY DEF Turn
  <2> HIDE DEF done, t, b
  <2>3. b.over <=> done.stop \/ at.le = last
    BY <2>2
  <2>4. b.s = done.s /\ b.le = IF forwards THEN t.n[at.le] ELSE t.p[at.le]
    BY <2>2
  <2>5. b.found = IF done.stop THEN at.le ELSE NULL
    BY <2>2
  <2> QED
    BY <1>1, <2>1, <2>3, <2>4, <2>5
<1> HIDE DEF b, done
<1>9. LeftOver(s, b.s, N, U, Kept(s, v, U, f, forwards, j + 1))
  <2> HIDE DEF K, t, x
  <2>1. CASE s.lr[U[x]] \in f.detach
    BY <1>1, <1>4, <1>5, <1>8, <2>1, LeftLess
  <2>2. CASE s.lr[U[x]] \notin f.detach
    BY <1>1, <1>4, <1>8, <2>2
  <2> QED
    BY <2>1, <2>2
<1>10. \A k \in 1 .. j : ~Hit(s, v, U, f, forwards, k)
  <2>1. \A k \in 1 .. j : k = j \/ k \in 1 .. j - 1
    BY <1>2
  <2> QED
    BY <1>1, <2>1
<1>11. U[x] = last <=> j + 1 = v
  <2>1. (IF forwards THEN v ELSE 1) \in 1 .. v
    BY <1>2
  <2>2. U[x] = last <=> x = (IF forwards THEN v ELSE 1)
    <3> HIDE DEF x
    <3> QED
      BY <1>3, <2>1
  <2> QED
    BY <1>3, <2>2
<1>12. b.over <=> j + 1 = v \/ Hit(s, v, U, f, forwards, j + 1)
  BY <1>7, <1>8, <1>11
<1>13. b.found = IF Hit(s, v, U, f, forwards, j + 1) THEN U[x] ELSE NULL
  BY <1>7, <1>8
<1>14. ASSUME ~b.over
       PROVE  b.le = U[Nth(v, forwards, j + 2)]
  <2>1. j + 1 < v
    BY <1>2, <1>12, <1>14
  <2>2. x \in Nat
    BY <1>3
  <2> DEFINE y == Nth(v, forwards, j + 2)
  <2>3. y \in K /\ y = x + (IF forwards THEN 1 ELSE -1)
    BY <1>3, <1>4, <2>1
  <2> HIDE DEF x, K, t, y
  <2>4. CASE forwards
    BY <1>6, <1>8, <2>2, <2>3, <2>4 DEF y
  <2>5. CASE ~forwards
    <3>1. y = x - 1
      BY <2>2, <2>3, <2>5
    <3> QED
      BY <1>6, <1>8, <2>3, <2>5, <3>1 DEF y
  <2> QED
    BY <2>4, <2>5
<1>15. (j + 1) + 1 = j + 2 /\ (j + 1) - 1 = j
  BY <1>2
<1>16. Came(b, s, N, v, U, f, forwards, j + 1)
  <2> HIDE DEF K, t
  <2> QED
    BY <1>9, <1>10, <1>12, <1>13, <1>14, <1>15 DEF Came
<1> QED
  BY <1>2, <1>16 DEF b

\* The state of a walk, which is over after at most as many turns as there are
\* elements.
Stages(N) == [s : Lists(N), le : 0 .. N, found : 0 .. N, over : BOOLEAN]

LEMMA TurnTyped ==
  ASSUME NEW N \in Nat, NEW s, NEW v \in 0 .. N, NEW U, NEW f, NEW forwards \in BOOLEAN, NEW last,
         NEW j, NEW at \in Stages(N), at.le \in 1 .. N, Turn(at, f, forwards, last).s \in Lists(N)
  PROVE  Turn(at, f, forwards, last) \in Stages(N)
<1> DEFINE t == at.s
           done == Apply(t, f, at.le)
           b == Turn(at, f, forwards, last)
<1>1. b = [s |-> done.s, le |-> IF forwards THEN t.n[at.le] ELSE t.p[at.le],
           found |-> IF done.stop THEN at.le ELSE NULL, over |-> done.stop \/ at.le = last]
  BY DEF Turn
<1>2. done.stop \in BOOLEAN
  BY DEF Apply
<1>3. t.n[at.le] \in 1 .. N /\ t.p[at.le] \in 1 .. N
  <2>1. t \in Lists(N)
    BY DEF Stages
  <2>2. t.n \in Links(N) /\ t.p \in Links(N)
    BY <2>1, ListIs
  <2> HIDE DEF t
  <2> QED
    BY <2>2 DEF Links
<1> HIDE DEF done, t
<1>4. (IF forwards THEN t.n[at.le] ELSE t.p[at.le]) \in 0 .. N /\ (IF done.stop THEN at.le ELSE NULL) \in 0 .. N
  BY <1>3 DEF NULL
<1>5. (done.stop \/ at.le = last) \in BOOLEAN
  BY <1>2
<1>6. done.s \in Lists(N)
  <2> HIDE DEF b
  <2>1. b.s = done.s
    BY <1>1
  <2> QED
    BY <2>1 DEF b
<1>7. b \in Stages(N)
  BY <1>1, <1>4, <1>5, <1>6 DEF Stages
<1> QED
  BY <1>7 DEF b

\* A walk that has come n turns, or stopped before.
Goes(at, s, N, v, U, f, forwards, n) ==
  /\ at \in Stages(N)
  /\ \E j \in 0 .. v : Came(at, s, N, v, U, f, forwards, j) /\ (~at.over => j = n)

\* w is where a walk over s with the order U ends.
Walked(s, w, N, v, U, f, forwards, j) == Came(w, s, N, v, U, f, forwards, j) /\ w.over

\* Where a walk begins.
LEMMA WalkStarts ==
  ASSUME NEW N \in Nat, NEW s, NEW U, Orders(s, N, U), NEW v \in 0 .. N, v = s.nu, NEW f, NEW forwards \in BOOLEAN,
         NEW first, first = IF forwards THEN s.used ELSE i_lllast(s),
         NEW start, start = [s |-> s, le |-> first, found |-> NULL, over |-> first = NULL]
  PROVE  /\ Goes(start, s, N, v, U, f, forwards, 0)
         /\ v > 0 => s.used = U[1] /\ i_lllast(s) = U[v]
<1>1. s \in Lists(N) /\ Ring(s.p, s.n, N, U, v) /\ s.used = Root(U, v)
  BY OrderIs
<1>2. U \in [1 .. v -> 1 .. N]
  BY <1>1 DEF Ring
<1>3. v > 0 => /\ s.used = U[1] /\ i_lllast(s) = U[v] /\ U[1] \in 1 .. N /\ U[v] \in 1 .. N
  <2> SUFFICES ASSUME v > 0
               PROVE  s.used = U[1] /\ i_lllast(s) = U[v] /\ U[1] \in 1 .. N /\ U[v] \in 1 .. N
    OBVIOUS
  <2>1. 1 \in 1 .. v /\ v \in 1 .. v /\ v # 0
    OBVIOUS
  <2>2. s.used = U[1] /\ U[1] \in 1 .. N /\ U[v] \in 1 .. N
    BY <1>1, <1>2, <2>1 DEF Root
  <2>3. s.p[U[1]] = U[v]
    BY <1>1, <2>1 DEF Ring
  <2>4. i_lllast(s) = s.p[s.used]
    BY <2>2 DEF i_lllast, NULL
  <2> QED
    BY <2>2, <2>3, <2>4
<1>4. v = 0 => s.used = NULL /\ i_lllast(s) = NULL
  BY <1>1 DEF Root, i_lllast
<1>5. (v = 0 => first = NULL) /\ (v > 0 => first \in 1 .. N /\ first = U[Nth(v, forwards, 1)])
  BY <1>3, <1>4 DEF Nth
<1>6. start.s = s /\ start.le = first /\ start.found = NULL /\ (start.over <=> v = 0)
  <2>1. start.s = s /\ start.le = first /\ start.found = NULL
    OBVIOUS
  <2>2. start.over <=> first = NULL
    OBVIOUS
  <2>3. first = NULL <=> v = 0
    BY <1>5 DEF NULL
  <2> QED
    BY <2>1, <2>2, <2>3
<1>7. start \in Stages(N)
  <2>1. NULL \in 0 .. N /\ first \in 0 .. N /\ (first = NULL) \in BOOLEAN
    BY <1>5 DEF NULL
  <2> QED
    BY <1>1, <2>1 DEF Stages
<1>8. Kept(s, v, U, f, forwards, 0) = 1 .. v
  BY DEF Kept
<1>9. LeftOver(s, s, N, U, 1 .. v)
  <2> DEFINE g == [i \in 1 .. s.nu |-> i]
  <2>1. g \in [1 .. s.nu -> 1 .. v] /\ \A i \in 1 .. s.nu : g[i] = i
    OBVIOUS
  <2>2. U = [i \in 1 .. s.nu |-> U[g[i]]]
    BY <1>2
  <2> HIDE DEF g
  <2>3. Orders(s, N, [i \in 1 .. s.nu |-> U[g[i]]])
    BY <2>2
  <2>4. (\A i, j \in 1 .. s.nu : i < j => g[i] < g[j]) /\ \A x \in 1 .. v : \E i \in 1 .. s.nu : g[i] = x
    BY <2>1
  <2> QED
    BY <2>1, <2>3, <2>4, Zenon DEF LeftOver
<1> HIDE DEF Goes
<1>10. ~Hit(s, v, U, f, forwards, 0)
  BY DEF Hit
<1>11. LeftOver(s, start.s, N, U, Kept(s, v, U, f, forwards, 0))
  BY <1>6, <1>8, <1>9
<1>12. Came(start, s, N, v, U, f, forwards, 0)
  <2>1. \A k \in 1 .. 0 - 1 : ~Hit(s, v, U, f, forwards, k)
    OBVIOUS
  <2>2. start.over <=> 0 = v \/ Hit(s, v, U, f, forwards, 0)
    BY <1>6, <1>10
  <2>3. ~start.over => start.le = U[Nth(v, forwards, 0 + 1)]
    BY <1>5, <1>6
  <2> QED
    BY <1>6, <1>10, <1>11, <2>1, <2>2, <2>3 DEF Came
<1>13. 0 \in 0 .. v
  OBVIOUS
<1> QED
  BY <1>3, <1>7, <1>12, <1>13 DEF Goes

\* A round of a walk to `last', the other end of the order U.
Course(v, N, U, forwards, last) ==
  /\ U \in [1 .. v -> 1 .. N]
  /\ \A i, k \in 1 .. v : U[i] = U[k] => i = k
  /\ v > 0 => last = U[IF forwards THEN v ELSE 1]

LEMMA WalkGoesOn ==
  ASSUME NEW N \in Nat, NEW s, NEW v \in 0 .. N, NEW U, NEW f, NEW forwards \in BOOLEAN, NEW last,
         Course(v, N, U, forwards, last),
         NEW n \in Nat, NEW at, Goes(at, s, N, v, U, f, forwards, n),
         NEW then, then = IF at.over THEN at ELSE Turn(at, f, forwards, last)
  PROVE  Goes(then, s, N, v, U, f, forwards, n + 1)
<1>. /\ U \in [1 .. v -> 1 .. N]
     /\ \A i, k \in 1 .. v : U[i] = U[k] => i = k
     /\ v > 0 => last = U[IF forwards THEN v ELSE 1]
  BY DEF Course
<1>1. PICK j \in 0 .. v : at \in Stages(N) /\ Came(at, s, N, v, U, f, forwards, j) /\ (~at.over => j = n)
  BY DEF Goes
<1>2. CASE at.over
  BY <1>1, <1>2 DEF Goes
<1>3. CASE ~at.over
  <2> DEFINE b == Turn(at, f, forwards, last)
  <2>1. j # v /\ at.le = U[Nth(v, forwards, j + 1)]
    BY <1>1, <1>3 DEF Came
  <2>2. v > 0 /\ j \in 0 .. v - 1 /\ v \in Nat
    BY <2>1
  <2>3. j < v /\ Came(b, s, N, v, U, f, forwards, j + 1)
    <3> HIDE DEF Turn
    <3>1. last = U[IF forwards THEN v ELSE 1]
      BY <2>2
    <3> QED
      BY <1>1, <1>3, <3>1, TurnIs
  <2>4. at.le \in 1 .. N
    <3>1. Nth(v, forwards, j + 1) \in 1 .. v
      BY <2>2, NthIs
    <3> QED
      BY <2>1, <3>1
  <2>5. b.s \in Lists(N)
    <3> HIDE DEF b
    <3>1. LeftOver(s, b.s, N, U, Kept(s, v, U, f, forwards, j + 1))
      BY <2>3 DEF Came
    <3>2. PICK V : Orders(b.s, N, V)
      BY <3>1 DEF LeftOver
    <3> QED
      BY <3>2, OrderIs
  <2>6. b \in Stages(N)
    BY <1>1, <2>4, <2>5, TurnTyped
  <2> HIDE DEF b
  <2>7. j + 1 \in 0 .. v /\ (~b.over => j + 1 = n + 1)
    BY <1>1, <1>3, <2>2
  <2>8. Goes(b, s, N, v, U, f, forwards, n + 1)
    BY <2>3, <2>6, <2>7 DEF Goes
  <2> QED
    BY <1>3, <2>8 DEF b
<1> QED
  BY <1>2, <1>3

LEMMA WalkIs ==
  ASSUME NEW N \in Nat, NEW s, NEW U, Orders(s, N, U), NEW f, NEW forwards \in BOOLEAN
  PROVE  \E v \in 0 .. N : v = s.nu /\ \E j \in 0 .. v : Walked(s, Walk(s, f, forwards), N, v, U, f, forwards, j)
<1>1. PICK v \in 0 .. N : v = s.nu /\ s \in Lists(N) /\ Ring(s.p, s.n, N, U, v)
  BY OrderIs
<1>2. U \in [1 .. v -> 1 .. N] /\ (\A i, k \in 1 .. v : U[i] = U[k] => i = k) /\ s.sz = N
  BY <1>1, ListIs DEF Ring
<1> DEFINE first == IF forwards THEN s.used ELSE i_lllast(s)
           last == IF forwards THEN i_lllast(s) ELSE s.used
           start == [s |-> s, le |-> first, found |-> NULL, over |-> first = NULL]
           Round(at) == IF at.over THEN at ELSE Turn(at, f, forwards, last)
           Def(g, k) == IF k = 0 THEN start ELSE IF g[k - 1].over THEN g[k - 1] ELSE Turn(g[k - 1], f, forwards, last)
           S == [n \in 0 .. N |-> {at \in Stages(N) : Goes(at, s, N, v, U, f, forwards, n)}]
           step == [n \in 1 .. N |-> [at \in Stages(N) |-> Round(at)]]
           W == CHOOSE g : g = [k \in 0 .. N |-> Def(g, k)]
<1>3. Walk(s, f, forwards) = W[N]
  BY <1>2 DEF Walk
<1>4. /\ Goes(start, s, N, v, U, f, forwards, 0)
      /\ v > 0 => last = U[IF forwards THEN v ELSE 1]
  <2>1. \A x, y : x = first /\ y = [s |-> s, le |-> x, found |-> NULL, over |-> x = NULL] =>
                    /\ Goes(y, s, N, v, U, f, forwards, 0)
                    /\ v > 0 => s.used = U[1] /\ i_lllast(s) = U[v]
    BY <1>1, WalkStarts
  <2> QED
    BY <2>1
<1> HIDE DEF start, last
<1>5. \A n \in 0 .. N : S[n] = {at \in Stages(N) : Goes(at, s, N, v, U, f, forwards, n)}
  OBVIOUS
<1>6. ASSUME NEW n \in 1 .. N, NEW at \in S[n - 1]
      PROVE  step[n][at] \in S[n] /\ Round(at) \in S[n] /\ step[n][at] = Round(at)
  <2>1. n - 1 \in 0 .. N /\ n \in 0 .. N /\ n - 1 \in Nat /\ (n - 1) + 1 = n
    OBVIOUS
  <2>2. at \in Stages(N) /\ Goes(at, s, N, v, U, f, forwards, n - 1)
    BY <1>5, <2>1
  <2>3. Goes(Round(at), s, N, v, U, f, forwards, (n - 1) + 1)
    <3> HIDE DEF Round
    <3>1. Round(at) = IF at.over THEN at ELSE Turn(at, f, forwards, last)
      BY DEF Round
    <3>2. Course(v, N, U, forwards, last)
      BY <1>2, <1>4 DEF Course
    <3> QED
      BY <2>1, <2>2, <3>1, <3>2, WalkGoesOn
  <2>4. step[n][at] = Round(at)
    BY <2>2
  <2> HIDE DEF Round, S, step
  <2>5. Round(at) \in S[n]
    BY <1>5, <2>1, <2>3 DEF Goes
  <2> QED
    BY <2>4, <2>5
<1>7. start \in S[0]
  BY <1>4, <1>5 DEF Goes
<1> HIDE DEF step, S
<1>8. PICK h : Loop(h, N, start, step, S)
  <2>1. \A n \in 1 .. N : \A at \in S[n - 1] : step[n][at] \in S[n]
    BY <1>6
  <2> QED
    BY <1>7, <2>1, Iterates
<1>9. h = [n \in 0 .. N |-> Def(h, n)]
  <2>1. ASSUME NEW n \in 0 .. N
        PROVE  h[n] = Def(h, n)
    <3>1. CASE n = 0
      BY <1>8, <3>1 DEF Loop
    <3>2. CASE n # 0
      <4>1. n \in 1 .. N /\ n - 1 \in 0 .. N
        BY <3>2
      <4>2. h[n] = step[n][h[n - 1]] /\ h[n - 1] \in S[n - 1]
        BY <1>8, <4>1 DEF Loop
      <4>3. h[n] = Round(h[n - 1])
        BY <1>6, <4>1, <4>2
      <4> QED
        BY <3>2, <4>3
    <3> QED
      BY <3>1, <3>2
  <2> QED
    BY <1>8, <2>1 DEF Loop
<1>10. W = [n \in 0 .. N |-> Def(W, n)]
  BY <1>9
<1>11. \A n \in 0 .. N : W[n] = Def(W, n)
  <2> HIDE DEF W
  <2> QED
    BY <1>10
<1> HIDE DEF W
<1>12. \A n \in 0 .. N : W[n] \in S[n]
  <2>1. W[0] \in S[0]
    BY <1>7, <1>11
  <2>2. ASSUME NEW n \in 1 .. N, W[n - 1] \in S[n - 1]
        PROVE  W[n] \in S[n]
    <3>1. W[n] = Round(W[n - 1])
      <4>1. n \in 0 .. N /\ n # 0
        OBVIOUS
      <4> QED
        BY <1>11, <4>1
    <3> QED
      BY <1>6, <2>2, <3>1
  <2> HIDE DEF Def
  <2> QED
    BY <2>1, <2>2, LoopInvariant
<1>13. N \in 0 .. N
  OBVIOUS
<1>14. Goes(W[N], s, N, v, U, f, forwards, N)
  BY <1>5, <1>12, <1>13
<1>15. PICK j \in 0 .. v : Came(W[N], s, N, v, U, f, forwards, j) /\ (~W[N].over => j = N)
  BY <1>14 DEF Goes
<1>16. W[N].over
  <2> SUFFICES ASSUME ~W[N].over
               PROVE  FALSE
    OBVIOUS
  <2>1. j = N /\ j # v
    BY <1>15 DEF Came
  <2> QED
    BY <2>1
<1> QED
  BY <1>1, <1>3, <1>15, <1>16 DEF Walked

-----------------------------------------------------------------------------
(* Sequences.                                                              *)

\* D is C with c as its i-th element, or C without it.
IsWith(C, i, c, D, v) ==
  /\ Len(D) = v + 1 /\ D[i] = c
  /\ \A k \in 1 .. i - 1 : D[k] = C[k]
  /\ \A k \in i + 1 .. v + 1 : D[k] = C[k - 1]

Insertion(C, i, c, D, v) ==
  /\ D = InsertAt(C, i, c)
  /\ i = v + 1 => D = Append(C, c)
  /\ i = 1 => D = <<c>> \o C

IsWithout(C, i, D, v) ==
  /\ Len(D) = v - 1
  /\ \A k \in 1 .. i - 1 : D[k] = C[k]
  /\ \A k \in i .. v - 1 : D[k] = C[k + 1]

LEMMA WithIs ==
  ASSUME NEW S, NEW C \in Seq(S), NEW v \in Nat, v = Len(C), NEW c \in S, NEW i \in 1 .. v + 1,
         NEW D \in Seq(S), IsWith(C, i, c, D, v)
  PROVE  Insertion(C, i, c, D, v)
<1> DEFINE P == SubSeq(C, 1, i - 1)
           Q == SubSeq(C, i, v)
           e == <<c>>
<1>1. \A k \in 1 .. v : C[k] \in S
  OBVIOUS
<1>2. P \in Seq(S) /\ Len(P) = i - 1 /\ \A k \in 1 .. i - 1 : P[k] = C[k]
  <2>1. 1 \in Int /\ i - 1 \in Int /\ \A k \in 1 .. i - 1 : C[k] \in S
    BY <1>1
  <2>2. Len(P) = (IF 1 <= i - 1 THEN (i - 1) - 1 + 1 ELSE 0) /\ P \in Seq(S)
        /\ \A k \in 1 .. (i - 1) - 1 + 1 : P[k] = C[1 + k - 1]
    BY <2>1, SubSeqProperties
  <2> HIDE DEF P
  <2>3. \A k \in 1 .. i - 1 : k \in 1 .. (i - 1) - 1 + 1 /\ 1 + k - 1 = k
    OBVIOUS
  <2> QED
    BY <2>2, <2>3
<1>3. Q \in Seq(S) /\ Len(Q) = v - i + 1 /\ \A k \in 1 .. v - i + 1 : Q[k] = C[i + k - 1]
  <2>1. i \in Int /\ v \in Int /\ \A k \in i .. v : C[k] \in S
    BY <1>1
  <2>2. Len(Q) = (IF i <= v THEN v - i + 1 ELSE 0) /\ Q \in Seq(S)
        /\ \A k \in 1 .. v - i + 1 : Q[k] = C[i + k - 1]
    BY <2>1, SubSeqProperties
  <2> HIDE DEF Q
  <2> QED
    BY <2>2
<1>4. e \in Seq(S) /\ Len(e) = 1 /\ e[1] = c
  OBVIOUS
<1> DEFINE A == P \o e
           B == A \o Q
<1> HIDE DEF P, Q, e
<1>5. A \in Seq(S) /\ Len(A) = i /\ A[i] = c /\ \A k \in 1 .. i - 1 : A[k] = C[k]
  <2>1. A \in Seq(S) /\ Len(A) = Len(P) + Len(e)
        /\ \A k \in 1 .. Len(P) + Len(e) : A[k] = IF k <= Len(P) THEN P[k] ELSE e[k - Len(P)]
    BY <1>2, <1>4, ConcatProperties
  <2> HIDE DEF A
  <2>2. Len(A) = i
    BY <1>2, <1>4, <2>1
  <2>3. A[i] = e[i - (i - 1)]
    <3>1. i \in 1 .. Len(P) + Len(e) /\ ~(i <= Len(P))
      BY <1>2, <1>4
    <3>2. A[i] = e[i - Len(P)]
      BY <2>1, <3>1
    <3> QED
      BY <1>2, <3>2
  <2>4. i - (i - 1) = 1
    OBVIOUS
  <2>5. \A k \in 1 .. i - 1 : A[k] = P[k]
    BY <1>2, <1>4, <2>1
  <2> QED
    BY <1>2, <1>4, <2>1, <2>2, <2>3, <2>4, <2>5
<1> HIDE DEF A
<1>6. B \in Seq(S) /\ Len(B) = v + 1 /\ B[i] = c /\ (\A k \in 1 .. i - 1 : B[k] = C[k])
      /\ \A k \in i + 1 .. v + 1 : B[k] = C[k - 1]
  <2>1. B \in Seq(S) /\ Len(B) = Len(A) + Len(Q)
        /\ \A k \in 1 .. Len(A) + Len(Q) : B[k] = IF k <= Len(A) THEN A[k] ELSE Q[k - Len(A)]
    BY <1>3, <1>5, ConcatProperties
  <2> HIDE DEF B
  <2>2. Len(B) = v + 1
    BY <1>3, <1>5, <2>1
  <2>3. \A k \in 1 .. i : B[k] = A[k]
    BY <1>3, <1>5, <2>1
  <2>4. ASSUME NEW k \in i + 1 .. v + 1
        PROVE  B[k] = C[k - 1]
    <3>1. B[k] = Q[k - i]
      BY <1>3, <1>5, <2>1
    <3>2. k - i \in 1 .. v - i + 1 /\ i + (k - i) - 1 = k - 1
      OBVIOUS
    <3> QED
      BY <1>3, <3>1, <3>2
  <2> QED
    BY <1>5, <2>1, <2>2, <2>3, <2>4
<1>7. B = InsertAt(C, i, c)
  BY DEF InsertAt, A, B, P, Q, e
<1> HIDE DEF B
<1>8. Len(D) = v + 1 /\ D[i] = c /\ (\A k \in 1 .. i - 1 : D[k] = C[k])
      /\ \A k \in i + 1 .. v + 1 : D[k] = C[k - 1]
  BY DEF IsWith
<1>9. D = B
  <2>1. \A k \in 1 .. v + 1 : k \in 1 .. i - 1 \/ k = i \/ k \in i + 1 .. v + 1
    OBVIOUS
  <2>2. \A k \in 1 .. v + 1 : D[k] = B[k]
    BY <1>6, <1>8, <2>1
  <2> QED
    BY <1>6, <1>8, <2>2, SeqEqual
<1>10. ASSUME i = v + 1
       PROVE  D = Append(C, c)
  <2>1. /\ Append(C, c) \in Seq(S) /\ Len(Append(C, c)) = v + 1
        /\ \A k \in 1 .. v : Append(C, c)[k] = C[k]
        /\ Append(C, c)[v + 1] = c
    BY AppendProperties
  <2>2. \A k \in 1 .. v + 1 : k \in 1 .. v \/ k = v + 1
    OBVIOUS
  <2>3. \A k \in 1 .. v + 1 : D[k] = Append(C, c)[k]
    BY <1>8, <1>10, <2>1, <2>2
  <2> QED
    BY <1>8, <2>1, <2>3, SeqEqual
<1>11. ASSUME i = 1
       PROVE  D = <<c>> \o C
  <2>1. e \o C \in Seq(S) /\ Len(e \o C) = Len(e) + Len(C)
        /\ \A k \in 1 .. Len(e) + Len(C) : (e \o C)[k] = IF k <= Len(e) THEN e[k] ELSE C[k - Len(e)]
    BY <1>4, ConcatProperties
  <2>2. Len(e \o C) = v + 1 /\ (e \o C)[1] = c /\ \A k \in 2 .. v + 1 : (e \o C)[k] = C[k - 1]
    BY <1>4, <2>1
  <2>3. \A k \in 1 .. v + 1 : k = 1 \/ k \in 2 .. v + 1
    OBVIOUS
  <2>4. \A k \in 1 .. v + 1 : D[k] = (e \o C)[k]
    BY <1>8, <1>11, <2>2, <2>3
  <2>5. D = e \o C
    BY <1>8, <2>1, <2>2, <2>4, SeqEqual
  <2> QED
    BY <2>5 DEF e
<1> QED
  BY <1>7, <1>9, <1>10, <1>11 DEF Insertion

LEMMA WithoutIs ==
  ASSUME NEW S, NEW C \in Seq(S), NEW v \in Nat, v = Len(C), NEW i \in 1 .. v,
         NEW D \in Seq(S), IsWithout(C, i, D, v)
  PROVE  D = RemoveAt(C, i)
<1> DEFINE P == SubSeq(C, 1, i - 1)
           Q == SubSeq(C, i + 1, v)
           B == P \o Q
<1>1. \A k \in 1 .. v : C[k] \in S
  OBVIOUS
<1>2. P \in Seq(S) /\ Len(P) = i - 1 /\ \A k \in 1 .. i - 1 : P[k] = C[k]
  <2>1. 1 \in Int /\ i - 1 \in Int /\ \A k \in 1 .. i - 1 : C[k] \in S
    BY <1>1
  <2>2. Len(P) = (IF 1 <= i - 1 THEN (i - 1) - 1 + 1 ELSE 0) /\ P \in Seq(S)
        /\ \A k \in 1 .. (i - 1) - 1 + 1 : P[k] = C[1 + k - 1]
    BY <2>1, SubSeqProperties
  <2> HIDE DEF P
  <2>3. \A k \in 1 .. i - 1 : k \in 1 .. (i - 1) - 1 + 1 /\ 1 + k - 1 = k
    OBVIOUS
  <2> QED
    BY <2>2, <2>3
<1>3. Q \in Seq(S) /\ Len(Q) = v - i /\ \A k \in 1 .. v - i : Q[k] = C[i + k]
  <2>1. i + 1 \in Int /\ v \in Int /\ \A k \in i + 1 .. v : C[k] \in S
    BY <1>1
  <2>2. Len(Q) = (IF i + 1 <= v THEN v - (i + 1) + 1 ELSE 0) /\ Q \in Seq(S)
        /\ \A k \in 1 .. v - (i + 1) + 1 : Q[k] = C[(i + 1) + k - 1]
    BY <2>1, SubSeqProperties
  <2> HIDE DEF Q
  <2>3. \A k \in 1 .. v - i : k \in 1 .. v - (i + 1) + 1 /\ (i + 1) + k - 1 = i + k
    OBVIOUS
  <2> QED
    BY <2>2, <2>3
<1> HIDE DEF P, Q
<1>4. B \in Seq(S) /\ Len(B) = v - 1 /\ (\A k \in 1 .. i - 1 : B[k] = C[k])
      /\ \A k \in i .. v - 1 : B[k] = C[k + 1]
  <2>1. B \in Seq(S) /\ Len(B) = Len(P) + Len(Q)
        /\ \A k \in 1 .. Len(P) + Len(Q) : B[k] = IF k <= Len(P) THEN P[k] ELSE Q[k - Len(P)]
    BY <1>2, <1>3, ConcatProperties
  <2> HIDE DEF B
  <2>2. Len(B) = v - 1
    BY <1>2, <1>3, <2>1
  <2>3. ASSUME NEW k \in 1 .. i - 1
        PROVE  B[k] = P[k]
    <3>1. k \in 1 .. Len(P) + Len(Q) /\ k <= Len(P)
      BY <1>2, <1>3
    <3> QED
      BY <2>1, <3>1
  <2>4. ASSUME NEW k \in i .. v - 1
        PROVE  B[k] = C[k + 1]
    <3>1. B[k] = Q[k - (i - 1)]
      <4>1. k \in 1 .. Len(P) + Len(Q) /\ ~(k <= Len(P))
        BY <1>2, <1>3
      <4>2. B[k] = Q[k - Len(P)]
        BY <2>1, <4>1
      <4> QED
        BY <1>2, <4>2
    <3>2. k - (i - 1) \in 1 .. v - i /\ i + (k - (i - 1)) = k + 1
      OBVIOUS
    <3> QED
      BY <1>3, <3>1, <3>2
  <2> QED
    BY <1>2, <2>1, <2>2, <2>3, <2>4
<1>5. B = RemoveAt(C, i)
  BY DEF RemoveAt, B, P, Q
<1> HIDE DEF B
<1>6. Len(D) = v - 1 /\ (\A k \in 1 .. i - 1 : D[k] = C[k]) /\ \A k \in i .. v - 1 : D[k] = C[k + 1]
  BY DEF IsWithout
<1>7. D = B
  <2>1. \A k \in 1 .. v - 1 : k \in 1 .. i - 1 \/ k \in i .. v - 1
    OBVIOUS
  <2>2. \A k \in 1 .. v - 1 : D[k] = B[k]
    BY <1>4, <1>6, <2>1
  <2> QED
    BY <1>4, <1>6, <2>2, SeqEqual
<1> QED
  BY <1>5, <1>7

\* A prefix.
LEMMA PrefixIs ==
  ASSUME NEW S, NEW C \in Seq(S), NEW v \in Nat, v = Len(C), NEW i \in 0 .. v,
         NEW D \in Seq(S), Len(D) = i, \A k \in 1 .. i : D[k] = C[k]
  PROVE  D = SubSeq(C, 1, i)
<1> DEFINE P == SubSeq(C, 1, i)
<1>1. 1 \in Int /\ i \in Int /\ \A k \in 1 .. i : C[k] \in S
  OBVIOUS
<1>2. Len(P) = (IF 1 <= i THEN i - 1 + 1 ELSE 0) /\ P \in Seq(S)
      /\ \A k \in 1 .. i - 1 + 1 : P[k] = C[1 + k - 1]
  BY <1>1, SubSeqProperties
<1> HIDE DEF P
<1>3. \A k \in 1 .. i : k \in 1 .. i - 1 + 1 /\ 1 + k - 1 = k
  OBVIOUS
<1>4. Len(P) = i /\ \A k \in 1 .. i : P[k] = D[k]
  BY <1>2, <1>3
<1>5. D = P
  BY <1>2, <1>4, SeqEqual
<1> QED
  BY <1>5 DEF P

\* Increasing numbers that are all those up to v are those numbers.
Increases(g, m, v) ==
  /\ g \in [1 .. m -> 1 .. v]
  /\ \A i, j \in 1 .. m : i < j => g[i] < g[j]
  /\ \A x \in 1 .. v : \E i \in 1 .. m : g[i] = x

LEMMA IncreasingOnto ==
  ASSUME NEW m \in Nat, NEW v \in Nat, NEW g, Increases(g, m, v)
  PROVE  m = v /\ \A i \in 1 .. m : g[i] = i
<1>. /\ g \in [1 .. m -> 1 .. v]
     /\ \A i, j \in 1 .. m : i < j => g[i] < g[j]
     /\ \A x \in 1 .. v : \E i \in 1 .. m : g[i] = x
  BY DEF Increases
<1> DEFINE Same == {n \in Nat : n <= m => (n = 0 \/ g[n] = n)}
<1>1. 0 \in Same
  OBVIOUS
<1>2. ASSUME NEW n \in Nat, n \in Same
      PROVE  n + 1 \in Same
  <2> SUFFICES ASSUME n + 1 <= m
               PROVE  g[n + 1] = n + 1
    OBVIOUS
  <2>1. n + 1 \in 1 .. m /\ g[n + 1] \in 1 .. v
    OBVIOUS
  <2>2. n = 0 \/ (n \in 1 .. m /\ g[n] = n)
    BY <1>2
  <2>3. g[n + 1] >= n + 1
    <3>1. CASE n = 0
      BY <2>1, <3>1
    <3>2. CASE n # 0
      <4>1. g[n] < g[n + 1]
        BY <2>1, <2>2, <3>2
      <4> QED
        BY <2>1, <2>2, <3>2, <4>1
    <3> QED
      BY <3>1, <3>2
  <2>4. ASSUME g[n + 1] > n + 1
        PROVE  FALSE
    <3>1. PICK z \in 1 .. m : g[z] = n + 1
      BY <2>1, <2>4
    <3>2. CASE z <= n
      <4>1. n \in 1 .. m /\ g[n] = n
        BY <2>2, <3>2
      <4>2. z = n \/ g[z] < g[n]
        BY <3>2, <4>1
      <4> QED
        BY <3>1, <4>1, <4>2
    <3>3. CASE z > n
      <4>1. z = n + 1 \/ g[n + 1] < g[z]
        BY <2>1, <3>3
      <4> QED
        BY <2>1, <2>4, <3>1, <4>1
    <3> QED
      BY <3>2, <3>3
  <2> QED
    BY <2>1, <2>3, <2>4
<1> HIDE DEF Same
<1>3. \A n \in Nat : n \in Same
  BY <1>1, <1>2, Induction
<1>4. \A i \in 1 .. m : g[i] = i
  BY <1>3 DEF Same
<1>5. m <= v
  <2>1. m = 0 \/ m \in 1 .. m
    OBVIOUS
  <2> QED
    BY <1>4, <2>1
<1>6. v <= m
  <2> SUFFICES ASSUME v > 0
               PROVE  v <= m
    OBVIOUS
  <2>1. PICK z \in 1 .. m : g[z] = v
    OBVIOUS
  <2> QED
    BY <1>4, <2>1
<1> QED
  BY <1>4, <1>5, <1>6

-----------------------------------------------------------------------------
(* The operations on the sequence of intervals.                            *)

IsList(t, N) == \E V : Orders(t, N, V)

LEMMA InsertReads ==
  ASSUME NEW N \in Nat, NEW s, NEW U, NEW F, TwoRings(s, N, U, F), s.nf > 0, NEW c \in Intervals,
         NEW i \in 1 .. s.nu + 1, NEW t, Inserted(s, t, N, U, F, i, c)
  PROVE  IsList(t, N) /\ Insertion(Contents(s), i, c, Contents(t), s.nu)
<1>1. PICK v \in 0 .. N, q \in 0 .. N :
        /\ v = s.nu /\ q = s.nf /\ Ring(s.p, s.n, N, U, v) /\ Ring(s.p, s.n, N, F, q)
        /\ \A k \in 1 .. v, j \in 1 .. q : U[k] # F[j]
  BY ListIs DEF TwoRings
<1> DEFINE M == More(U, v, i, F[1])
           C == Contents(s)
           D == Contents(t)
<1>2. 1 \in 1 .. q /\ i \in 1 .. v + 1 /\ v \in Nat
  BY <1>1
<1>3. F[1] \in 1 .. N /\ \A k \in 1 .. v : U[k] \in 1 .. N /\ U[k] # F[1]
  <2>1. F[1] \in 1 .. N
    <3>1. F \in [1 .. q -> 1 .. N]
      BY <1>1 DEF Ring
    <3> QED
      BY <1>2, <3>1
  <2>2. ASSUME NEW k \in 1 .. v
        PROVE  U[k] \in 1 .. N /\ U[k] # F[1]
    <3>1. U \in [1 .. v -> 1 .. N]
      BY <1>1 DEF Ring
    <3>2. U[k] \in 1 .. N
      BY <3>1
    <3>3. U[k] # F[1]
      BY <1>1, <1>2, Zenon
    <3> QED
      BY <3>2, <3>3
  <2> QED
    BY <2>1, <2>2
<1>4. Orders(s, N, U) /\ Orders(t, N, M) /\ t.nu = v + 1
      /\ \A x \in 1 .. N : t.lr[x] = IF x = F[1] THEN c ELSE s.lr[x]
  BY <1>1 DEF Orders, Inserted
<1>5. /\ \A k \in 1 .. i - 1 : M[k] = U[k]
      /\ M[i] = F[1]
      /\ \A k \in i + 1 .. v + 1 : M[k] = U[k - 1]
  BY <1>2 DEF More
<1> HIDE DEF M
<1>6. C = [k \in 1 .. v |-> s.lr[U[k]]] /\ C \in Seq(Intervals) /\ Len(C) = v
  BY <1>1, <1>4, ContentsIs
<1>7. D = [k \in 1 .. v + 1 |-> t.lr[M[k]]] /\ D \in Seq(Intervals) /\ Len(D) = v + 1
  BY <1>4, ContentsIs
<1> HIDE DEF C, D
<1>8. ASSUME NEW k \in 1 .. i - 1
      PROVE  D[k] = C[k]
  <2>1. k \in 1 .. v /\ k \in 1 .. v + 1
    BY <1>2
  <2> QED
    BY <1>3, <1>4, <1>5, <1>6, <1>7, <2>1
<1>9. D[i] = c
  BY <1>2, <1>3, <1>4, <1>5, <1>7
<1>10. ASSUME NEW k \in i + 1 .. v + 1
       PROVE  D[k] = C[k - 1]
  <2>1. k - 1 \in 1 .. v /\ k \in 1 .. v + 1
    BY <1>2
  <2>2. D[k] = t.lr[U[k - 1]]
    BY <1>5, <1>7, <2>1
  <2> QED
    BY <1>3, <1>4, <1>6, <2>1, <2>2
<1>11. IsWith(C, i, c, D, v)
  BY <1>7, <1>8, <1>9, <1>10 DEF IsWith
<1>12. Insertion(C, i, c, D, v)
  BY <1>2, <1>6, <1>7, <1>11, WithIs
<1> QED
  BY <1>1, <1>4, <1>12 DEF C, D, IsList

LEMMA RemoveReads ==
  ASSUME NEW N \in Nat, NEW s, NEW U, Orders(s, N, U), NEW i \in 1 .. s.nu
  PROVE  IsList(i_llrem(s, U[i]), N) /\ Contents(i_llrem(s, U[i])) = RemoveAt(Contents(s), i)
<1> DEFINE t == i_llrem(s, U[i])
<1>1. PICK v \in 0 .. N : v = s.nu
  BY OrderIs
<1>2. Removed(s, t, N, U, i)
  BY RemIs DEF Orders
<1> HIDE DEF t
<1> DEFINE L == Less(U, v, i)
           C == Contents(s)
           D == Contents(t)
<1>3. i \in 1 .. v /\ v \in Nat \ {0} /\ v - 1 \in Nat
  BY <1>1
<1>4. Orders(t, N, L) /\ t.nu = v - 1 /\ t.lr = s.lr
  BY <1>1, <1>2 DEF Removed, Orders
<1>5. /\ \A k \in 1 .. i - 1 : L[k] = U[k]
      /\ \A k \in i .. v - 1 : L[k] = U[k + 1]
  BY <1>3 DEF Less
<1> HIDE DEF L
<1>6. C = [k \in 1 .. v |-> s.lr[U[k]]] /\ C \in Seq(Intervals) /\ Len(C) = v
  BY <1>1, ContentsIs
<1>7. D = [k \in 1 .. v - 1 |-> s.lr[L[k]]] /\ D \in Seq(Intervals) /\ Len(D) = v - 1
  BY <1>4, ContentsIs
<1> HIDE DEF C, D
<1>8. ASSUME NEW k \in 1 .. i - 1
      PROVE  D[k] = C[k]
  <2>1. k \in 1 .. v /\ k \in 1 .. v - 1
    BY <1>3
  <2> QED
    BY <1>5, <1>6, <1>7, <2>1
<1>9. ASSUME NEW k \in i .. v - 1
      PROVE  D[k] = C[k + 1]
  <2>1. k + 1 \in 1 .. v /\ k \in 1 .. v - 1
    BY <1>3
  <2> QED
    BY <1>5, <1>6, <1>7, <2>1
<1>10. IsWithout(C, i, D, v)
  BY <1>7, <1>8, <1>9 DEF IsWithout
<1>11. D = RemoveAt(C, i)
  BY <1>3, <1>6, <1>7, <1>10, WithoutIs
<1> QED
  BY <1>4, <1>11 DEF C, D, t, IsList

\* What a walk finds: the element of the nearest place with an interval of S.
Nearest(C, v, U, S, forwards, found) ==
  \/ found = NULL /\ \A k \in 1 .. v : C[k] \notin S
  \/ \E x \in 1 .. v : /\ found = U[x] /\ C[x] \in S
                       /\ \A k \in 1 .. v : (IF forwards THEN k < x ELSE x < k) => C[k] \notin S

\* C is read from the elements of s in the order U.
ReadFrom(C, s, U, v) == \A k \in 1 .. v : C[k] = s.lr[U[k]]

LEMMA FoundIs ==
  ASSUME NEW N \in Nat, NEW s, NEW v \in 0 .. N, NEW U, NEW f, NEW forwards \in BOOLEAN, NEW w,
         NEW j \in 0 .. v, Walked(s, w, N, v, U, f, forwards, j),
         NEW C, ReadFrom(C, s, U, v)
  PROVE  Nearest(C, v, U, f.stop, forwards, w.found)
<1> DEFINE a(k) == Nth(v, forwards, k)
           H(k) == Hit(s, v, U, f, forwards, k)
<1>1. /\ \A k \in 1 .. j - 1 : ~H(k)
      /\ j = v \/ H(j)
      /\ w.found = IF H(j) THEN U[a(j)] ELSE NULL
  BY DEF Walked, Came
<1>2. \A k \in 1 .. v : a(k) \in 1 .. v /\ (H(k) <=> C[a(k)] \in f.stop) /\ a(a(k)) = k
  BY DEF Nth, Hit, ReadFrom
<1>3. H(j) => j \in 1 .. v
  BY DEF Hit
<1>4. \A k, i \in 1 .. v : (IF forwards THEN a(k) < a(i) ELSE a(i) < a(k)) <=> k < i
  BY DEF Nth
<1> HIDE DEF a, H
<1>5. CASE H(j)
  <2>1. j \in 1 .. v /\ a(j) \in 1 .. v /\ C[a(j)] \in f.stop /\ w.found = U[a(j)]
    BY <1>1, <1>2, <1>3, <1>5
  <2>2. ASSUME NEW k \in 1 .. v, IF forwards THEN k < a(j) ELSE a(j) < k
        PROVE  C[k] \notin f.stop
    <3>1. a(k) \in 1 .. v /\ a(a(k)) = k
      BY <1>2
    <3>2. a(k) < j
      BY <1>4, <2>1, <2>2, <3>1
    <3>3. ~H(a(k))
      BY <1>1, <3>1, <3>2
    <3> QED
      BY <1>2, <3>1, <3>3
  <2> QED
    BY <2>1, <2>2 DEF Nearest
<1>6. CASE ~H(j)
  <2>1. j = v /\ w.found = NULL
    BY <1>1, <1>6
  <2>2. ASSUME NEW k \in 1 .. v
        PROVE  C[k] \notin f.stop
    <3>1. a(k) \in 1 .. v /\ a(a(k)) = k
      BY <1>2
    <3>2. ~H(a(k))
      BY <1>1, <1>6, <2>1, <3>1
    <3> QED
      BY <1>2, <3>1, <3>2
  <2> QED
    BY <2>1, <2>2 DEF Nearest
<1> QED
  BY <1>5, <1>6

\* D is read from C at the places of K, in their order.
Chosen(C, K, D, m, g) ==
  /\ g \in [1 .. m -> K]
  /\ \A i, k \in 1 .. m : i < k => g[i] < g[k]
  /\ \A x \in K : \E i \in 1 .. m : g[i] = x
  /\ D \in Seq(Intervals) /\ Len(D) = m
  /\ \A i \in 1 .. m : D[i] = C[g[i]]

\* What a walk leaves over is read from the places kept.
LEMMA LeftReads ==
  ASSUME NEW N \in Nat, NEW s, NEW v \in 0 .. N, NEW U, NEW K, NEW t, LeftOver(s, t, N, U, K), K \subseteq 1 .. v,
         NEW C, ReadFrom(C, s, U, v)
  PROVE  IsList(t, N) /\ \E m \in 0 .. N : \E g : Chosen(C, K, Contents(t), m, g)
<1>1. PICK g : /\ g \in [1 .. t.nu -> K]
               /\ \A i, k \in 1 .. t.nu : i < k => g[i] < g[k]
               /\ \A x \in K : \E i \in 1 .. t.nu : g[i] = x
               /\ Orders(t, N, [i \in 1 .. t.nu |-> U[g[i]]])
               /\ t.lr = s.lr
  BY DEF LeftOver
<1>2. PICK m \in 0 .. N : m = t.nu
  BY <1>1, OrderIs
<1> DEFINE V == [i \in 1 .. t.nu |-> U[g[i]]]
           D == Contents(t)
<1>3. D = [k \in 1 .. t.nu |-> t.lr[V[k]]] /\ D \in Seq(Intervals) /\ Len(D) = t.nu
  <2>1. Orders(t, N, V)
    BY <1>1
  <2> HIDE DEF V
  <2> QED
    BY <2>1, ContentsIs
<1> HIDE DEF D
<1>4. ASSUME NEW i \in 1 .. m
      PROVE  D[i] = C[g[i]]
  <2>1. i \in 1 .. t.nu /\ g[i] \in 1 .. v
    BY <1>1, <1>2
  <2>2. V[i] = U[g[i]]
    BY <2>1
  <2> HIDE DEF V
  <2>3. D[i] = s.lr[U[g[i]]]
    BY <1>1, <1>3, <2>1, <2>2
  <2> QED
    BY <2>1, <2>3 DEF ReadFrom
<1>5. g \in [1 .. m -> K] /\ (\A i, k \in 1 .. m : i < k => g[i] < g[k]) /\ \A x \in K : \E i \in 1 .. m : g[i] = x
  BY <1>1, <1>2
<1>6. D \in Seq(Intervals) /\ Len(D) = m
  BY <1>2, <1>3
<1>7. IsList(t, N)
  BY <1>1 DEF IsList
<1>8. Chosen(C, K, D, m, g)
  BY <1>4, <1>5, <1>6 DEF Chosen
<1> QED
  BY <1>7, <1>8 DEF D

\* A walk that detaches the intervals of S and stops nowhere.
LEMMA EachReads ==
  ASSUME NEW N \in Nat, NEW s, NEW U, Orders(s, N, U), NEW S, NEW forwards \in BOOLEAN
  PROVE  LET t == Walk(s, Detaches(S), forwards).s
         IN  IsList(t, N) /\ Without(Contents(s), S, Contents(t))
<1> DEFINE f == Detaches(S)
           w == Walk(s, f, forwards)
           C == Contents(s)
<1>1. PICK v \in 0 .. N : v = s.nu /\ \E j \in 0 .. v : Walked(s, w, N, v, U, f, forwards, j)
  BY WalkIs
<1>2. PICK j \in 0 .. v : Walked(s, w, N, v, U, f, forwards, j)
  BY <1>1
<1>3. C = [k \in 1 .. v |-> s.lr[U[k]]]
  BY <1>1, ContentsIs
<1>4. f.stop = {} /\ f.detach = S
  BY DEF Detaches
<1> HIDE DEF f, w, C
<1> DEFINE t == w.s
           D == Contents(t)
           K == Kept(s, v, U, f, forwards, v)
<1>5. LeftOver(s, t, N, U, K)
  <2>1. ~Hit(s, v, U, f, forwards, j)
    BY <1>4 DEF Hit
  <2>2. j = v
    BY <1>2, <2>1 DEF Walked, Came
  <2> QED
    BY <1>2, <2>2 DEF Walked, Came
<1>6. K = {x \in 1 .. v : C[x] \notin S}
  <2>1. \A x \in 1 .. v : \E k \in 1 .. v : x = Nth(v, forwards, k)
    <3>1. CASE forwards
      BY <3>1 DEF Nth
    <3>2. CASE ~forwards
      <4>1. \A x \in 1 .. v : v + 1 - x \in 1 .. v /\ x = Nth(v, forwards, v + 1 - x)
        BY <3>2 DEF Nth
      <4> QED
        BY <4>1
    <3> QED
      BY <3>1, <3>2
  <2>2. \A x \in 1 .. v : C[x] = s.lr[U[x]]
    BY <1>3
  <2> QED
    BY <1>4, <2>1, <2>2 DEF Kept
<1> HIDE DEF K, t, D
<1>7. K \subseteq 1 .. v /\ ReadFrom(C, s, U, v)
  BY <1>3, <1>6 DEF ReadFrom
<1>8. IsList(t, N) /\ \E m \in 0 .. N : \E g : Chosen(C, K, D, m, g)
  BY <1>5, <1>7, LeftReads DEF D
<1>9. PICK m, g : m \in 0 .. N /\ Chosen(C, K, D, m, g)
  BY <1>8
<1>10. DOMAIN D = 1 .. m /\ DOMAIN C = 1 .. v
  BY <1>3, <1>9 DEF Chosen
<1>11. g \in [DOMAIN D -> DOMAIN C]
  BY <1>7, <1>9, <1>10 DEF Chosen
<1>12. {g[i] : i \in DOMAIN D} = {k \in DOMAIN C : C[k] \notin S}
  <2>1. {g[i] : i \in 1 .. m} = K
    BY <1>9 DEF Chosen
  <2> QED
    BY <1>6, <1>10, <2>1
<1>13. Without(C, S, D)
  BY <1>9, <1>10, <1>11, <1>12 DEF Without, Chosen
<1> QED
  BY <1>8, <1>13 DEF C, D, t, w, f

\* The last place with an interval of S, 0 if there is none.
LastAt(C, v, S, x) ==
  /\ x \in 0 .. v
  /\ x > 0 => C[x] \in S
  /\ \A i \in x + 1 .. v : C[i] \notin S

\* The walk that gives up registers: it goes backwards through those of S.
LEMMA ExpireReads ==
  ASSUME NEW N \in Nat, NEW s, NEW U, Orders(s, N, U), NEW S
  PROVE  LET t == Walk(s, lrexpire(S), FALSE).s
         IN  /\ IsList(t, N)
             /\ \E x : LastAt(Contents(s), s.nu, Intervals \ S, x) /\ Contents(t) = SubSeq(Contents(s), 1, x)
<1> DEFINE f == lrexpire(S)
           w == Walk(s, f, FALSE)
           C == Contents(s)
<1>1. PICK v \in 0 .. N : v = s.nu /\ \E j \in 0 .. v : Walked(s, w, N, v, U, f, FALSE, j)
  BY WalkIs
<1>2. PICK j \in 0 .. v : Walked(s, w, N, v, U, f, FALSE, j)
  BY <1>1
<1>3. C = [k \in 1 .. v |-> s.lr[U[k]]] /\ (\A k \in 1 .. v : s.lr[U[k]] \in Intervals)
      /\ C \in Seq(Intervals) /\ Len(C) = v
  BY <1>1, ContentsIs
<1>4. f.stop = Intervals \ S /\ f.detach = S
  BY DEF lrexpire
<1> HIDE DEF f, w, C
<1> DEFINE t == w.s
           D == Contents(t)
           H(k) == Hit(s, v, U, f, FALSE, k)
           K == Kept(s, v, U, f, FALSE, j)
<1>5. LeftOver(s, t, N, U, K) /\ (\A k \in 1 .. j - 1 : ~H(k))
      /\ (j = v \/ H(j))
  BY <1>2 DEF Walked, Came
<1>6. \A k \in 1 .. v : v + 1 - k \in 1 .. v /\ (H(k) <=> C[v + 1 - k] \notin S)
  BY <1>3, <1>4 DEF Hit, Nth
<1>7. H(j) => j \in 1 .. v
  BY DEF Hit
<1>8. \A y : y \in K <=> y \in 1 .. v /\ ~(C[y] \in S /\ \E k \in 1 .. j : y = v + 1 - k)
  BY <1>3, <1>4 DEF Kept, Nth
<1> HIDE DEF K, H
<1>9. PICK x \in 0 .. v : (x > 0 => C[x] \notin S /\ H(j) /\ x = v + 1 - j) /\ (x = 0 => ~H(j))
  <2>1. CASE H(j)
    <3>1. v + 1 - j \in 1 .. v /\ C[v + 1 - j] \notin S
      BY <1>6, <1>7, <2>1
    <3> QED
      BY <2>1, <3>1
  <2>2. CASE ~H(j)
    BY <2>2
  <2> QED
    BY <2>1, <2>2
<1>10. ASSUME NEW i \in x + 1 .. v
       PROVE  C[i] \in S
  <2> DEFINE k == v + 1 - i
  <2>1. k \in 1 .. v /\ i = v + 1 - k /\ i \in 1 .. v
    BY <1>9
  <2>2. ~H(k)
    <3>1. CASE H(j)
      <4>1. k \in 1 .. j - 1
        BY <1>7, <1>9, <2>1, <3>1
      <4> QED
        BY <1>5, <4>1
    <3>2. CASE ~H(j)
      <4>1. k = j \/ k \in 1 .. j - 1
        BY <1>5, <2>1, <3>2
      <4> QED
        BY <1>5, <3>2, <4>1
    <3> QED
      BY <3>1, <3>2
  <2> HIDE DEF k
  <2> QED
    BY <1>6, <2>1, <2>2
<1>11. K = 1 .. x
  <2>1. ASSUME NEW y \in 1 .. x
        PROVE  y \in K
    <3>1. y \in 1 .. v /\ H(j) /\ j \in 1 .. v /\ y <= v + 1 - j
      BY <1>7, <1>9
    <3>2. ASSUME NEW k \in 1 .. j, y = v + 1 - k
          PROVE  C[y] \notin S
      <4>1. k = j
        BY <3>1, <3>2
      <4> QED
        BY <1>6, <3>1, <3>2, <4>1
    <3> QED
      BY <1>8, <3>1, <3>2
  <2>2. ASSUME NEW y \in K
        PROVE  y \in 1 .. x
    <3>1. y \in 1 .. v /\ ~(C[y] \in S /\ \E k \in 1 .. j : y = v + 1 - k)
      BY <1>8
    <3> SUFFICES ASSUME y > x
                 PROVE  FALSE
      BY <1>9, <3>1
    <3>2. C[y] \in S
      BY <1>9, <1>10, <3>1
    <3>3. v + 1 - y \in 1 .. j /\ y = v + 1 - (v + 1 - y)
      BY <1>5, <1>7, <1>9, <3>1
    <3> QED
      BY <3>1, <3>2, <3>3
  <2> QED
    BY <2>1, <2>2
<1> HIDE DEF t, D
<1>12. K \subseteq 1 .. v /\ ReadFrom(C, s, U, v)
  BY <1>3, <1>9, <1>11 DEF ReadFrom
<1>13. IsList(t, N) /\ \E m \in 0 .. N : \E g : Chosen(C, K, D, m, g)
  BY <1>5, <1>12, LeftReads DEF D, t
<1>14. PICK m, g : m \in 0 .. N /\ Chosen(C, K, D, m, g)
  BY <1>13
<1>15. m = x /\ \A i \in 1 .. m : g[i] = i
  <2>1. Increases(g, m, x)
    BY <1>11, <1>14 DEF Chosen, Increases
  <2>2. m \in Nat /\ x \in Nat
    BY <1>14
  <2> HIDE DEF Increases
  <2> QED
    BY <2>1, <2>2, IncreasingOnto
<1>16. D = SubSeq(C, 1, x)
  <2>1. D \in Seq(Intervals) /\ Len(D) = x /\ \A i \in 1 .. x : D[i] = C[i]
    BY <1>14, <1>15 DEF Chosen
  <2>2. v \in Nat /\ v = Len(C) /\ C \in Seq(Intervals) /\ x \in 0 .. v
    BY <1>3
  <2> QED
    BY <2>1, <2>2, PrefixIs, Zenon
<1>17. LastAt(C, v, Intervals \ S, x)
  <2>1. \A i \in 1 .. v : C[i] \in Intervals
    BY <1>3
  <2>2. x > 0 => C[x] \in Intervals \ S
    BY <1>9, <2>1
  <2> QED
    BY <1>9, <1>10, <2>2 DEF LastAt
<1> QED
  BY <1>1, <1>13, <1>16, <1>17 DEF C, D, t, w, f

-----------------------------------------------------------------------------
(* The list object.                                                        *)

\* U is the order of the attached elements, and v their number.
Listed(N, U, v) ==
  /\ N \in Nat /\ v \in 0 .. N /\ v = list.nu /\ list.nf \in Nat /\ Orders(list, N, U)
  /\ U \in [1 .. v -> 1 .. N] /\ \A i, k \in 1 .. v : U[i] = U[k] => i = k
  /\ InUse = {U[k] : k \in 1 .. v} /\ \A k \in 1 .. v : Place(U[k]) = k
  /\ Contents(list) = [k \in 1 .. v |-> list.lr[U[k]]]

LEMMA ListedIs ==
  ASSUME NEW N \in Nat, NEW U, Orders(list, N, U)
  PROVE  Listed(N, U, list.nu)
<1>1. PICK v \in 0 .. N : v = list.nu /\ Ring(list.p, list.n, N, U, v)
  BY OrderIs
<1>2. U \in [1 .. v -> 1 .. N] /\ \A i, k \in 1 .. v : U[i] = U[k] => i = k
  BY <1>1 DEF Ring
<1>3. Attached(list) = U
  BY AttachedIs
<1>4. InUse = {U[k] : k \in 1 .. v}
  BY <1>1, <1>3 DEF InUse
<1>5. ASSUME NEW k \in 1 .. v
      PROVE  Place(U[k]) = k
  <2>1. Place(U[k]) = CHOOSE i \in 1 .. v : U[i] = U[k]
    BY <1>1, <1>3 DEF Place
  <2> QED
    BY <1>2, <2>1
<1>6. Contents(list) = [k \in 1 .. v |-> list.lr[U[k]]]
  BY <1>1, ContentsIs
<1>7. list.nf \in Nat
  BY OrderIs, ListIs
<1> QED
  BY <1>1, <1>2, <1>4, <1>5, <1>6, <1>7 DEF Listed

LEMMA LastOfIs ==
  ASSUME NEW S, list.nu \in Nat, NEW x, LastAt(Contents(list), list.nu, S, x)
  PROVE  LastOf(S) = x
<1> DEFINE v == list.nu
           C == Contents(list)
           y == LastOf(S)
           IsLast(k) == (k > 0 => C[k] \in S) /\ \A i \in k + 1 .. v : C[i] \notin S
<1>1. x \in 0 .. v /\ IsLast(x)
  BY DEF LastAt
<1>2. y = CHOOSE k \in 0 .. v : IsLast(k)
  BY DEF LastOf
<1> HIDE DEF y, C
<1>3. y \in 0 .. v /\ IsLast(y)
  <2> HIDE DEF IsLast
  <2> QED
    BY <1>1, <1>2
<1>4. y = x
  <2>1. CASE y < x
    <3>1. x \in y + 1 .. v
      BY <1>1, <1>3, <2>1
    <3> QED
      BY <1>1, <1>3, <3>1
  <2>2. CASE x < y
    <3>1. y \in x + 1 .. v
      BY <1>1, <1>3, <2>2
    <3> QED
      BY <1>1, <1>3, <3>1
  <2> QED
    BY <1>1, <1>3, <2>1, <2>2
<1> QED
  BY <1>4 DEF y

LEMMA FirstOfIs ==
  ASSUME NEW S, list.nu \in Nat, NEW x \in 1 .. list.nu, Contents(list)[x] \in S,
         \A k \in 1 .. list.nu : k < x => Contents(list)[k] \notin S
  PROVE  FirstOf(S) = x
<1> DEFINE v == list.nu
           C == Contents(list)
           y == FirstOf(S)
           IsFirst(k) == C[k] \in S /\ \A i \in 1 .. k - 1 : C[i] \notin S
<1>1. x \in 1 .. v /\ IsFirst(x)
  OBVIOUS
<1>2. y = CHOOSE k \in 1 .. v : IsFirst(k)
  BY DEF FirstOf
<1> HIDE DEF y, C
<1>3. y \in 1 .. v /\ IsFirst(y)
  <2> HIDE DEF IsFirst
  <2> QED
    BY <1>1, <1>2
<1>4. y = x
  <2>1. CASE y < x
    <3>1. y \in 1 .. x - 1
      BY <1>1, <1>3, <2>1
    <3> QED
      BY <1>1, <1>3, <3>1
  <2>2. CASE x < y
    <3>1. x \in 1 .. y - 1
      BY <1>1, <1>3, <2>2
    <3> QED
      BY <1>1, <1>3, <3>1
  <2> QED
    BY <1>1, <1>3, <2>1, <2>2
<1> QED
  BY <1>4 DEF y

\* An operation leaves a list whose contents are `then'.
Yields(N, then) == IsList(list', N) /\ Contents(list') = then /\ UNCHANGED stopped

LEMMA InsertDoes ==
  ASSUME NEW N, NEW U, NEW v, Listed(N, U, v), list.nf > 0, NEW c \in Intervals
  PROVE  /\ InsertForwards(NULL, c) => Yields(N, Append(Contents(list), c))
         /\ InsertBackwards(NULL, c) => Yields(N, <<c>> \o Contents(list))
         /\ InsertBackwards(NULL, c) => Yields(N, InsertAt(Contents(list), 1, c))
         /\ \A k \in 1 .. v :
              /\ InsertForwards(U[k], c) => Yields(N, InsertAt(Contents(list), k + 1, c))
              /\ InsertBackwards(U[k], c) => Yields(N, InsertAt(Contents(list), k, c))
<1>1. N \in Nat /\ v \in 0 .. N /\ v = list.nu /\ Orders(list, N, U)
  BY DEF Listed
<1>2. PICK F : TwoRings(list, N, U, F)
  BY <1>1 DEF Orders
<1> DEFINE Fwd(e) == i_llset(i_llifwd(list, e), list.free, c)
           Bwd(e) == i_llset(i_llibwd(list, e), list.free, c)
<1>3. list.nf # 0
  BY <1>1, <1>2, ListIs DEF TwoRings
<1>4. \A e : /\ InsertForwards(e, c) => list' = Fwd(e) /\ UNCHANGED stopped
             /\ InsertBackwards(e, c) => list' = Bwd(e) /\ UNCHANGED stopped
  BY <1>3 DEF InsertForwards, InsertBackwards, Becomes
<1>5. ASSUME NEW i \in 0 .. v, NEW e, (e = NULL /\ i = v) \/ (i >= 1 /\ e = U[i])
      PROVE  IsList(Fwd(e), N) /\ Insertion(Contents(list), i + 1, c, Contents(Fwd(e)), v)
  <2>1. Inserted(list, Fwd(e), N, U, F, i + 1, c)
    BY <1>1, <1>2, <1>5, InsertFwdIs
  <2>2. i + 1 \in 1 .. list.nu + 1
    BY <1>1
  <2> HIDE DEF Fwd
  <2> QED
    BY <1>1, <1>2, <2>1, <2>2, InsertReads
<1>6. ASSUME NEW i \in 1 .. v + 1, NEW e, (e = NULL /\ i = 1) \/ (i <= v /\ e = U[i])
      PROVE  IsList(Bwd(e), N) /\ Insertion(Contents(list), i, c, Contents(Bwd(e)), v)
  <2>1. Inserted(list, Bwd(e), N, U, F, i, c)
    BY <1>1, <1>2, <1>6, InsertBwdIs
  <2>2. i \in 1 .. list.nu + 1
    BY <1>1
  <2> HIDE DEF Bwd
  <2> QED
    BY <1>1, <1>2, <2>1, <2>2, InsertReads
<1> HIDE DEF Fwd, Bwd
<1>7. InsertForwards(NULL, c) => Yields(N, Append(Contents(list), c))
  <2>1. v \in 0 .. v
    BY <1>1
  <2>2. IsList(Fwd(NULL), N) /\ Insertion(Contents(list), v + 1, c, Contents(Fwd(NULL)), v)
    BY <1>5, <2>1
  <2> QED
    BY <1>4, <2>2 DEF Yields, Insertion
<1>8. InsertBackwards(NULL, c) => Yields(N, <<c>> \o Contents(list)) /\ Yields(N, InsertAt(Contents(list), 1, c))
  <2>1. 1 \in 1 .. v + 1
    BY <1>1
  <2>2. IsList(Bwd(NULL), N) /\ Insertion(Contents(list), 1, c, Contents(Bwd(NULL)), v)
    BY <1>6, <2>1
  <2> QED
    BY <1>4, <2>2 DEF Yields, Insertion
<1>9. ASSUME NEW k \in 1 .. v
      PROVE  /\ InsertForwards(U[k], c) => Yields(N, InsertAt(Contents(list), k + 1, c))
             /\ InsertBackwards(U[k], c) => Yields(N, InsertAt(Contents(list), k, c))
  <2>1. k \in 0 .. v /\ k >= 1 /\ k \in 1 .. v + 1 /\ k <= v
    BY <1>1
  <2>2. IsList(Fwd(U[k]), N) /\ Insertion(Contents(list), k + 1, c, Contents(Fwd(U[k])), v)
    BY <1>5, <2>1
  <2>3. IsList(Bwd(U[k]), N) /\ Insertion(Contents(list), k, c, Contents(Bwd(U[k])), v)
    BY <1>6, <2>1
  <2> QED
    BY <1>4, <2>2, <2>3 DEF Yields, Insertion
<1> QED
  BY <1>7, <1>8, <1>9

LEMMA SearchIs ==
  ASSUME NEW N, NEW U, NEW v, Listed(N, U, v), NEW S, NEW forwards \in BOOLEAN
  PROVE  Nearest(Contents(list), v, U, S, forwards, Walk(list, Looks(S), forwards).found)
<1>1. N \in Nat /\ v = list.nu /\ v \in 0 .. N /\ Orders(list, N, U)
  BY DEF Listed
<1> DEFINE f == Looks(S)
           w == Walk(list, f, forwards)
<1>2. PICK j \in 0 .. v : Walked(list, w, N, v, U, f, forwards, j)
  BY <1>1, WalkIs
<1>3. ReadFrom(Contents(list), list, U, v)
  BY DEF Listed, ReadFrom
<1>4. f.stop = S
  BY DEF Looks
<1> HIDE DEF f, w
<1>5. Nearest(Contents(list), v, U, f.stop, forwards, w.found)
  BY <1>1, <1>2, <1>3, FoundIs
<1> QED
  BY <1>4, <1>5 DEF f, w

LEMMA SortedDoes ==
  ASSUME NEW N, NEW U, NEW v, Listed(N, U, v), list.nf > 0, NEW c \in Intervals, NEW S
  PROVE  InsertSorted(S, c) => Yields(N, InsertAt(Contents(list), LastOf(S) + 1, c))
<1> DEFINE C == Contents(list)
           le == i_llsbwd(list, Looks(S)).found
<1>1. N \in Nat /\ v = list.nu /\ v \in Nat /\ U \in [1 .. v -> 1 .. N]
  BY DEF Listed
<1>2. InsertSorted(S, c) => IF le = NULL THEN InsertBackwards(NULL, c) ELSE InsertForwards(le, c)
  BY DEF InsertSorted
<1>3. Nearest(C, v, U, S, FALSE, le)
  BY SearchIs DEF i_llsbwd
<1> HIDE DEF C, le
<1>4. CASE le = NULL /\ \A k \in 1 .. v : C[k] \notin S
  <2>1. LastAt(C, v, S, 0)
    BY <1>1, <1>4 DEF LastAt
  <2>2. LastOf(S) = 0
    BY <1>1, <2>1, LastOfIs DEF C
  <2>3. InsertBackwards(NULL, c) => Yields(N, InsertAt(C, 1, c))
    BY InsertDoes DEF C
  <2>4. 0 + 1 = 1
    OBVIOUS
  <2> QED
    BY <1>2, <1>4, <2>2, <2>3, <2>4 DEF C
<1>5. CASE ~(le = NULL /\ \A k \in 1 .. v : C[k] \notin S)
  <2>1. PICK x \in 1 .. v : /\ le = U[x] /\ C[x] \in S
                            /\ \A k \in 1 .. v : (IF FALSE THEN k < x ELSE x < k) => C[k] \notin S
    BY <1>3, <1>5 DEF Nearest
  <2>2. le # NULL
    BY <1>1, <2>1 DEF NULL
  <2>3. LastAt(C, v, S, x)
    <3>1. x \in 0 .. v
      OBVIOUS
    <3>2. \A i \in x + 1 .. v : C[i] \notin S
      BY <1>1, <2>1
    <3> QED
      BY <2>1, <3>1, <3>2 DEF LastAt
  <2>4. LastOf(S) = x
    BY <1>1, <2>3, LastOfIs DEF C
  <2>5. InsertForwards(U[x], c) => Yields(N, InsertAt(C, x + 1, c))
    BY InsertDoes DEF C
  <2> QED
    BY <1>2, <2>1, <2>2, <2>4, <2>5 DEF C
<1> QED
  BY <1>4, <1>5

LEMMA RemoveDoes ==
  ASSUME NEW N, NEW U, NEW v, Listed(N, U, v)
  PROVE  \A k \in 1 .. v : RemoveElement(U[k]) => Yields(N, RemoveAt(Contents(list), k))
<1>1. N \in Nat /\ v \in 0 .. N /\ v = list.nu /\ Orders(list, N, U) /\ U \in [1 .. v -> 1 .. N]
  BY DEF Listed
<1> SUFFICES ASSUME NEW k \in 1 .. v, RemoveElement(U[k])
             PROVE  Yields(N, RemoveAt(Contents(list), k))
  OBVIOUS
<1>2. list.nu # 0 /\ U[k] # NULL /\ k \in 1 .. list.nu
  BY <1>1 DEF NULL
<1>3. list' = i_llrem(list, U[k]) /\ UNCHANGED stopped
  BY <1>2 DEF RemoveElement, Becomes
<1>4. IsList(i_llrem(list, U[k]), N) /\ Contents(i_llrem(list, U[k])) = RemoveAt(Contents(list), k)
  BY <1>1, <1>2, RemoveReads
<1> QED
  BY <1>3, <1>4 DEF Yields

LEMMA FoundDoes ==
  ASSUME NEW N, NEW U, NEW v, Listed(N, U, v), NEW S
  PROVE  /\ FoundForwards(S) = NULL <=> \A k \in 1 .. v : Contents(list)[k] \notin S
         /\ RemoveFound(S) => Yields(N, RemoveAt(Contents(list), FirstOf(S)))
<1> DEFINE C == Contents(list)
           le == FoundForwards(S)
<1>1. N \in Nat /\ v = list.nu /\ v \in Nat /\ U \in [1 .. v -> 1 .. N]
  BY DEF Listed
<1>2. Nearest(C, v, U, S, TRUE, le)
  BY SearchIs DEF FoundForwards, i_llsfwd
<1>3. RemoveFound(S) => le # NULL /\ RemoveElement(le)
  BY DEF RemoveFound
<1> HIDE DEF C, le
<1>4. CASE le = NULL /\ \A k \in 1 .. v : C[k] \notin S
  BY <1>3, <1>4 DEF C, le
<1>5. CASE ~(le = NULL /\ \A k \in 1 .. v : C[k] \notin S)
  <2>1. PICK x \in 1 .. v : /\ le = U[x] /\ C[x] \in S
                            /\ \A k \in 1 .. v : (IF TRUE THEN k < x ELSE x < k) => C[k] \notin S
    BY <1>2, <1>5 DEF Nearest
  <2>2. le # NULL
    BY <1>1, <2>1 DEF NULL
  <2>3. FirstOf(S) = x
    BY <1>1, <2>1, FirstOfIs DEF C
  <2>4. RemoveElement(U[x]) => Yields(N, RemoveAt(C, x))
    BY RemoveDoes DEF C
  <2> QED
    BY <1>3, <2>1, <2>2, <2>3, <2>4 DEF C, le
<1> QED
  BY <1>4, <1>5

LEMMA WalksDo ==
  ASSUME NEW N, NEW U, NEW v, Listed(N, U, v), NEW S
  PROVE  /\ Expire(S) => Yields(N, SubSeq(Contents(list), 1, LastOf(Intervals \ S)))
         /\ i_lleachfwd(S) \/ i_lleachbwd(S) =>
              IsList(list', N) /\ Without(Contents(list), S, Contents(list')) /\ UNCHANGED stopped
<1>1. N \in Nat /\ v = list.nu /\ v \in Nat /\ Orders(list, N, U)
  BY DEF Listed
<1>2. ASSUME Expire(S)
      PROVE  Yields(N, SubSeq(Contents(list), 1, LastOf(Intervals \ S)))
  <2> DEFINE t == Walk(list, lrexpire(S), FALSE).s
  <2>1. list' = t /\ UNCHANGED stopped
    BY <1>2 DEF Expire, Becomes, i_llsbwd
  <2>2. /\ IsList(t, N)
        /\ \E x : LastAt(Contents(list), list.nu, Intervals \ S, x) /\ Contents(t) = SubSeq(Contents(list), 1, x)
    BY <1>1, ExpireReads
  <2> HIDE DEF t
  <2>3. PICK x : LastAt(Contents(list), list.nu, Intervals \ S, x) /\ Contents(t) = SubSeq(Contents(list), 1, x)
    BY <2>2
  <2>4. LastOf(Intervals \ S) = x
    BY <1>1, <2>3, LastOfIs
  <2> QED
    BY <2>1, <2>2, <2>3, <2>4 DEF Yields
<1>3. ASSUME i_lleachfwd(S) \/ i_lleachbwd(S)
      PROVE  IsList(list', N) /\ Without(Contents(list), S, Contents(list')) /\ UNCHANGED stopped
  <2>1. \A forwards \in BOOLEAN :
          /\ IsList(Walk(list, Detaches(S), forwards).s, N)
          /\ Without(Contents(list), S, Contents(Walk(list, Detaches(S), forwards).s))
    BY <1>1, EachReads
  <2>2. \E forwards \in BOOLEAN : list' = Walk(list, Detaches(S), forwards).s
    BY <1>3 DEF i_lleachfwd, i_lleachbwd, Becomes
  <2>3. UNCHANGED stopped
    BY <1>3 DEF i_lleachfwd, i_lleachbwd, Becomes
  <2> QED
    BY <2>1, <2>2, <2>3
<1> QED
  BY <1>2, <1>3

-----------------------------------------------------------------------------
(* The theorems about the list.                                            *)

LEMMA ListStarts ==
  ASSUME ListInit
  PROVE  ListInv
<1>1. PICK N \in Capacities : list = Created(N)
  BY DEF ListInit
<1>2. N \in Nat /\ N > 1
  BY ListAssumption
<1> DEFINE U == [k \in 1 .. 0 |-> 1]
           F == [k \in 1 .. N |-> k]
           p == [e \in 1 .. N |-> IF e = 1 THEN N ELSE e - 1]
           n == [e \in 1 .. N |-> IF e = N /\ N > 1 THEN 1 ELSE e + 1]
           lr == [e \in 1 .. N |-> NULL]
<1>3. list = [sz |-> N, nf |-> N, nu |-> 0, used |-> NULL, free |-> 1, p |-> p, n |-> n, lr |-> lr]
  BY <1>1 DEF Created
<1>4. p \in Links(N) /\ n \in Links(N) /\ lr \in [1 .. N -> Intervals \cup {NULL}]
  BY <1>2 DEF Links
<1>5. Ring(p, n, N, U, 0)
  BY DEF Ring
<1>6. Ring(p, n, N, F, N)
  <2>1. F \in [1 .. N -> 1 .. N] /\ \A i, j \in 1 .. N : F[i] = F[j] => i = j
    OBVIOUS
  <2>2. \A k \in 1 .. N : /\ n[F[k]] = F[IF k = N THEN 1 ELSE k + 1]
                          /\ p[F[k]] = F[IF k = 1 THEN N ELSE k - 1]
    BY <1>2
  <2> HIDE DEF F, p, n
  <2> QED
    BY <2>1, <2>2 DEF Ring
<1>7. Root(U, 0) = NULL /\ Root(F, N) = 1
  BY <1>2 DEF Root
<1> HIDE DEF p, n, lr, U, F
<1>8. list \in Lists(N)
  BY <1>2, <1>3, <1>4 DEF Lists, NULL
<1>9. TwoRings(list, N, U, F)
  BY <1>2, <1>3, <1>5, <1>6, <1>7, <1>8 DEF TwoRings
<1> QED
  BY <1>9 DEF ListInv

LEMMA InvListed ==
  ASSUME ListInv
  PROVE  \E N \in Capacities : \E U, v : Listed(N, U, v)
<1>1. PICK N \in Capacities : \E U : Orders(list, N, U)
  BY DEF ListInv, Orders
<1>2. N \in Nat
  BY ListAssumption
<1> QED
  BY <1>1, <1>2, ListedIs

LEMMA ListKeeps ==
  ASSUME NEW N \in Capacities, IsList(list', N)
  PROVE  ListInv'
BY DEF IsList, Orders, ListInv

\* Every step keeps the rings, and only for want of an element the program ends.
LEMMA ListStep ==
  ASSUME ListInv, ListNext
  PROVE  ListInv' /\ (stopped' => list.nf = 0)
<1>1. PICK N, U, v : N \in Capacities /\ Listed(N, U, v)
  BY InvListed
<1>2. /\ list.nf \in Nat /\ InUse = {U[k] : k \in 1 .. v}
  BY <1>1 DEF Listed
<1>3. ~stopped
  BY DEF ListNext
<1>4. \A then : Yields(N, then) => ListInv' /\ (stopped' => list.nf = 0)
  BY <1>1, <1>3, ListKeeps DEF Yields
<1>5. ASSUME NEW e \in InUse \cup {NULL}, NEW c \in Intervals, InsertForwards(e, c) \/ InsertBackwards(e, c)
      PROVE  ListInv' /\ (stopped' => list.nf = 0)
  <2>1. CASE list.nf = 0
    <3>1. UNCHANGED list
      BY <1>5, <2>1 DEF InsertForwards, InsertBackwards, Stop
    <3> QED
      BY <2>1, <3>1 DEF ListInv
  <2>2. CASE list.nf > 0
    <3>1. CASE e = NULL
      BY <1>1, <1>4, <1>5, <2>2, <3>1, InsertDoes
    <3>2. CASE e # NULL
      <4>1. PICK k \in 1 .. v : e = U[k]
        BY <1>2, <3>2
      <4> QED
        BY <1>1, <1>4, <1>5, <2>2, <4>1, InsertDoes
    <3> QED
      BY <3>1, <3>2
  <2> QED
    BY <1>2, <2>1, <2>2
<1>6. ASSUME NEW S \in SUBSET Intervals, NEW c \in Intervals, InsertSorted(S, c)
      PROVE  ListInv' /\ (stopped' => list.nf = 0)
  <2>1. CASE list.nf = 0
    <3>1. UNCHANGED list
      BY <1>6, <2>1 DEF InsertSorted, InsertForwards, InsertBackwards, Stop
    <3> QED
      BY <2>1, <3>1 DEF ListInv
  <2>2. CASE list.nf > 0
    BY <1>1, <1>4, <1>6, <2>2, SortedDoes
  <2> QED
    BY <1>2, <2>1, <2>2
<1>7. ASSUME NEW e \in InUse, RemoveElement(e)
      PROVE  ListInv' /\ (stopped' => list.nf = 0)
  <2>1. PICK k \in 1 .. v : e = U[k]
    BY <1>2
  <2> QED
    BY <1>1, <1>4, <1>7, <2>1, RemoveDoes
<1>8. ASSUME NEW S \in SUBSET Intervals, RemoveFound(S)
      PROVE  ListInv' /\ (stopped' => list.nf = 0)
  BY <1>1, <1>4, <1>8, FoundDoes
<1>9. ASSUME NEW S \in SUBSET Intervals, Expire(S)
      PROVE  ListInv' /\ (stopped' => list.nf = 0)
  BY <1>1, <1>4, <1>9, WalksDo
<1>10. ASSUME NEW S \in SUBSET Intervals, i_lleachfwd(S) \/ i_lleachbwd(S)
       PROVE  ListInv' /\ (stopped' => list.nf = 0)
  BY <1>1, <1>3, <1>10, WalksDo, ListKeeps
<1> QED
  BY <1>5, <1>6, <1>7, <1>8, <1>9, <1>10 DEF ListNext

LEMMA StepIsSequential ==
  ASSUME ListInv, ListNext
  PROVE  Sequential
<1> DEFINE now == Contents(list)
           then == Contents(list')
           inUse == {now[k] : k \in 1 .. list.nu}
<1>1. PICK N, U, v : N \in Capacities /\ Listed(N, U, v)
  BY InvListed
<1>2. InUse = {U[k] : k \in 1 .. v} /\ (\A k \in 1 .. v : Place(U[k]) = k) /\ v = list.nu
  BY <1>1 DEF Listed
<1>3. \A t : Yields(N, t) => Contents(list') = t
  BY DEF Yields
<1>4. ASSUME NEW c \in Intervals, list.nf > 0
      PROVE  /\ InsertForwards(NULL, c) => then = Append(now, c)
             /\ InsertBackwards(NULL, c) => then = <<c>> \o now
  BY <1>1, <1>3, <1>4, InsertDoes
<1>5. ASSUME NEW c \in Intervals, list.nf > 0, NEW e \in InUse
      PROVE  /\ InsertForwards(e, c) => then = InsertAt(now, Place(e) + 1, c)
             /\ InsertBackwards(e, c) => then = InsertAt(now, Place(e), c)
  <2>1. PICK k \in 1 .. v : e = U[k] /\ Place(e) = k
    BY <1>2
  <2>2. /\ InsertForwards(U[k], c) => Yields(N, InsertAt(Contents(list), k + 1, c))
        /\ InsertBackwards(U[k], c) => Yields(N, InsertAt(Contents(list), k, c))
    BY <1>1, <1>5, InsertDoes
  <2> QED
    BY <1>3, <2>1, <2>2
<1>6. ASSUME NEW c \in Intervals, list.nf > 0, NEW S \in SUBSET Intervals, InsertSorted(S, c)
      PROVE  then = InsertAt(now, LastOf(S) + 1, c)
  BY <1>1, <1>3, <1>6, SortedDoes
<1>7. ASSUME NEW e \in InUse, RemoveElement(e)
      PROVE  then = RemoveAt(now, Place(e))
  <2>1. PICK k \in 1 .. v : e = U[k] /\ Place(e) = k
    BY <1>2
  <2>2. Yields(N, RemoveAt(Contents(list), k))
    BY <1>1, <1>7, <2>1, RemoveDoes
  <2> QED
    BY <1>3, <2>1, <2>2
<1>8. ASSUME NEW S \in SUBSET Intervals
      PROVE  /\ FoundForwards(S) = NULL <=> S \cap inUse = {}
             /\ RemoveFound(S) => then = RemoveAt(now, FirstOf(S))
             /\ Expire(S) => then = SubSeq(now, 1, LastOf(Intervals \ S))
             /\ i_lleachfwd(S) \/ i_lleachbwd(S) => Without(now, S, then)
  <2>1. /\ FoundForwards(S) = NULL <=> \A k \in 1 .. v : Contents(list)[k] \notin S
        /\ RemoveFound(S) => Yields(N, RemoveAt(Contents(list), FirstOf(S)))
    BY <1>1, FoundDoes
  <2>2. S \cap inUse = {} <=> \A k \in 1 .. v : Contents(list)[k] \notin S
    BY <1>2
  <2>3. /\ Expire(S) => Yields(N, SubSeq(Contents(list), 1, LastOf(Intervals \ S)))
        /\ i_lleachfwd(S) \/ i_lleachbwd(S) => Without(Contents(list), S, Contents(list'))
    BY <1>1, WalksDo
  <2> QED
    BY <1>3, <2>1, <2>2, <2>3
<1>9. stopped' => list.nf = 0
  BY ListStep
<1> HIDE DEF now, then, inUse
<1>10. \A c \in Intervals : list.nf > 0 =>
         /\ InsertForwards(NULL, c) => then = Append(now, c)
         /\ InsertBackwards(NULL, c) => then = <<c>> \o now
         /\ \A e \in InUse :
              /\ InsertForwards(e, c) => then = InsertAt(now, Place(e) + 1, c)
              /\ InsertBackwards(e, c) => then = InsertAt(now, Place(e), c)
         /\ \A S \in SUBSET Intervals :
              InsertSorted(S, c) => then = InsertAt(now, LastOf(S) + 1, c)
  BY <1>4, <1>5, <1>6
<1>11. \A e \in InUse : RemoveElement(e) => then = RemoveAt(now, Place(e))
  BY <1>7
<1>12. \A S \in SUBSET Intervals :
         /\ FoundForwards(S) = NULL <=> S \cap inUse = {}
         /\ RemoveFound(S) => then = RemoveAt(now, FirstOf(S))
         /\ Expire(S) => then = SubSeq(now, 1, LastOf(Intervals \ S))
         /\ i_lleachfwd(S) \/ i_lleachbwd(S) => Without(now, S, then)
  BY <1>8
<1> QED
  BY <1>9, <1>10, <1>11, <1>12, Zenon DEF Sequential, now, then, inUse

\* The elements of the list are always in two rings that have none in common,
\* the attached and the free ones, and an attached one holds an interval: the
\* links i_llifwd, i_llibwd and i_llrem rewrite are never those of the other
\* ring, and a walk never comes to a free element.
THEOREM RingsSound == ListSpec => []ListInv
<1>1. ListInit => ListInv
  BY ListStarts
<1>2. ListInv /\ [ListNext]_listVars => ListInv'
  <2>1. CASE ListNext
    BY <2>1, ListStep
  <2>2. CASE UNCHANGED listVars
    BY <2>2 DEF ListInv, listVars
  <2> QED
    BY <2>1, <2>2
<1> QED
  BY <1>1, <1>2, PTL DEF ListSpec

\* Whatever linear scan does with the list, and however often its elements were
\* attached and freed before, the list is the sequence of intervals it is taken
\* for.
THEOREM ListWorks == ListSpec => WorksAsSequence
<1>1. ListInv /\ [ListNext]_listVars => [Sequential]_listVars
  <2>1. CASE ListNext
    BY <2>1, StepIsSequential
  <2>2. CASE UNCHANGED listVars
    BY <2>2
  <2> QED
    BY <2>1, <2>2
<1> QED
  BY <1>1, RingsSound, PTL DEF ListSpec, WorksAsSequence
=============================================================================
