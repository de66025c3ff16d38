----------------------------- MODULE LinkedList -----------------------------
(***************************************************************************)
(* The linked list of src/src/icode/ll.h and ll.c, in which linear scan    *)
(* keeps the intervals that hold a register.  Its elements are allocated   *)
(* with the list and linked into two rings, the attached ones, which start *)
(* at `used', and the detached ones, which start at `free'; searches and   *)
(* walks apply a function that may detach the element they stand on.       *)
(***************************************************************************)
EXTENDS Integers, Sequences, FiniteSets, SequencesExt

CONSTANTS
  Intervals,   (* the live ranges an element may hold                       *)
  Capacities   (* the sizes a list may be created with                      *)

\* The code asserts l > 0; a list of one is i_llcreate's off-by-one, which no
\* class of registers of this port is small enough to meet (see Created).
ASSUME ListAssumption == Capacities \subseteq Nat \ {0, 1}

VARIABLES
  list,     (* the list object with its elements, numbered by their address *)
  stopped   (* a call found no element to take and ended the program        *)

listVars == <<list, stopped>>

NULL == 0

\* i_llcreate: all elements are in the free ring, in the order of allocation,
\* and none is read before it was attached and set.  The last element is linked
\* to the first after the loop, where `le' stands on it only if it is not the
\* first itself: the single element of a list of one would keep a link to the
\* next, behind the allocation.
Created(sz) ==
  [sz |-> sz, nf |-> sz, nu |-> 0, used |-> NULL, free |-> 1,
   p |-> [e \in 1 .. sz |-> IF e = 1 THEN sz ELSE e - 1],
   n |-> [e \in 1 .. sz |-> IF e = sz /\ sz > 1 THEN 1 ELSE e + 1],
   lr |-> [e \in 1 .. sz |-> NULL]]

i_llisfull == list.nf = 0

\* e leaves the ring it is in; its own links keep their values.
Unlinked(s, e) ==
  LET m == [s EXCEPT !.n[s.p[e]] = s.n[e]] IN [m EXCEPT !.p[m.n[e]] = m.p[e]]

\* e enters the ring of u, behind u.
LinkedAfter(s, e, u) ==
  [s EXCEPT !.p = [@ EXCEPT ![s.n[u]] = e, ![e] = u], !.n = [@ EXCEPT ![e] = s.n[u], ![u] = e]]

Alone(s, e) == [s EXCEPT !.p[e] = e, !.n[e] = e]

i_llgetfree(s) ==
  LET le == s.free
      m == Unlinked(s, le)
  IN  [m EXCEPT !.free = IF m.n[le] = le THEN NULL ELSE m.n[le]]

Counted(s) == [s EXCEPT !.nf = @ - 1, !.nu = @ + 1]

\* A new element behind e, or at the end of the list when e is NULL.
i_llifwd(s, e) ==
  LET le == s.free
      m == i_llgetfree(s)
  IN  Counted(IF m.used # NULL THEN LinkedAfter(m, le, IF e # NULL THEN e ELSE m.p[m.used])
              ELSE [Alone(m, le) EXCEPT !.used = le])

\* A new element before e, or at the head of the list when e is NULL.
i_llibwd(s, e) ==
  LET le == s.free
      m == i_llgetfree(s)
      u == IF e # NULL THEN e ELSE m.used
  IN  Counted(IF m.used # NULL
              THEN [LinkedAfter(m, le, m.p[u]) EXCEPT !.used = IF u = @ THEN le ELSE @]
              ELSE [Alone(m, le) EXCEPT !.used = le])

\* Mutated form: the root stays when its element is the one that goes.
Mut_i_llrem(s, e) ==
  LET m == Unlinked(s, e)
      d == [m EXCEPT !.used = IF m.n[e] = e THEN NULL ELSE @]
      r == IF d.free # NULL THEN LinkedAfter(d, e, d.free) ELSE [Alone(d, e) EXCEPT !.free = e]
  IN  [r EXCEPT !.nf = @ + 1, !.nu = @ - 1]

\* e goes from the attached elements to the free ones, behind the first.
i_llrem(s, e) ==
  LET m == Unlinked(s, e)
      d == [m EXCEPT !.used = IF m.n[e] = e THEN NULL ELSE IF e = @ THEN m.n[e] ELSE @]
      r == IF d.free # NULL THEN LinkedAfter(d, e, d.free) ELSE [Alone(d, e) EXCEPT !.free = e]
  IN  [r EXCEPT !.nf = @ + 1, !.nu = @ - 1]

i_llset(s, e, c) == [s EXCEPT !.lr[e] = c]

-----------------------------------------------------------------------------
\* What a walk applies to an element: it detaches those that hold an interval of
\* f.detach and returns 1, to stop there, at those that hold one of f.stop.
Apply(s, f, e) ==
  [s |-> IF s.lr[e] \in f.detach THEN i_llrem(s, e) ELSE s, stop |-> s.lr[e] \in f.stop]

\* lrexpire detaches what is in S and stops at what is not; lrstartsbefore and
\* its like only look; what i_lleachfwd and i_lleachbwd apply never stops.
lrexpire(S) == [detach |-> S, stop |-> Intervals \ S]
Looks(S) == [detach |-> {}, stop |-> S]
Detaches(S) == [detach |-> S, stop |-> {}]

i_lllast(s) == IF s.used = NULL THEN NULL ELSE s.p[s.used]

\* One turn of a walk to the element `last': the next element is read before
\* f runs, as f may detach the one it stands on.
Turn(at, f, forwards, last) ==
  LET done == Apply(at.s, f, at.le)
  IN  [s |-> done.s, le |-> IF forwards THEN at.s.n[at.le] ELSE at.s.p[at.le],
       found |-> IF done.stop THEN at.le ELSE NULL,
       over |-> done.stop \/ at.le = last]

\* A walk over list s from its first element to its last, or the other way.
Walk(s, f, forwards) ==
  LET first == IF forwards THEN s.used ELSE i_lllast(s)
      last == IF forwards THEN i_lllast(s) ELSE s.used
      after[k \in 0 .. s.sz] ==
        IF k = 0 THEN [s |-> s, le |-> first, found |-> NULL, over |-> first = NULL]
        ELSE IF after[k - 1].over THEN after[k - 1] ELSE Turn(after[k - 1], f, forwards, last)
  IN  after[s.sz]

i_llsfwd(s, f) == Walk(s, f, TRUE)
i_llsbwd(s, f) == Walk(s, f, FALSE)

-----------------------------------------------------------------------------
ListInit ==
  /\ \E sz \in Capacities : list = Created(sz)
  /\ stopped = FALSE

\* The attached elements in the order of the list.
Attached(s) ==
  LET at[k \in 1 .. s.nu] == IF k = 1 THEN s.used ELSE s.n[at[k - 1]] IN at

InUse == {Attached(list)[k] : k \in 1 .. list.nu}

Becomes(s) == list' = s /\ UNCHANGED stopped

\* "icode: out of free list elements", "trying to detach unattached".
Stop == stopped' = TRUE /\ UNCHANGED list

\* A new element behind or before an attached one, or at an end, and the
\* interval the caller then puts into it.
InsertForwards(e, c) ==
  IF list.nf = 0 THEN Stop ELSE Becomes(i_llset(i_llifwd(list, e), list.free, c))

InsertBackwards(e, c) ==
  IF list.nf = 0 THEN Stop ELSE Becomes(i_llset(i_llibwd(list, e), list.free, c))

\* Linear scan inserts behind the last interval that starts before the current
\* one, those of S, and at the head if there is none.
InsertSorted(S, c) ==
  LET le == i_llsbwd(list, Looks(S)).found
  IN  IF le = NULL THEN InsertBackwards(NULL, c) ELSE InsertForwards(le, c)

RemoveElement(e) == IF list.nu = 0 \/ e = NULL THEN Stop ELSE Becomes(i_llrem(list, e))

\* The element linear scan spills, the first that a walk from the head stops at.
FoundForwards(S) == i_llsfwd(list, Looks(S)).found
RemoveFound(S) == FoundForwards(S) # NULL /\ RemoveElement(FoundForwards(S))

\* Linear scan's walk that gives up the registers of intervals that are over.
Expire(S) == Becomes(i_llsbwd(list, lrexpire(S)).s)

i_lleachfwd(S) == Becomes(Walk(list, Detaches(S), TRUE).s)
i_lleachbwd(S) == Becomes(Walk(list, Detaches(S), FALSE).s)

ListNext ==
  /\ ~stopped
  /\ \/ \E e \in InUse \cup {NULL}, c \in Intervals : InsertForwards(e, c) \/ InsertBackwards(e, c)
     \/ \E S \in SUBSET Intervals, c \in Intervals : InsertSorted(S, c)
     \/ \E e \in InUse : RemoveElement(e)
     \/ \E S \in SUBSET Intervals : RemoveFound(S) \/ Expire(S) \/ i_lleachfwd(S) \/ i_lleachbwd(S)

ListSpec == ListInit /\ [][ListNext]_listVars

-----------------------------------------------------------------------------
\* The intervals in the order of the list, and the place of an element in it.
Contents(s) == [k \in 1 .. s.nu |-> s.lr[Attached(s)[k]]]
Place(e) == CHOOSE k \in 1 .. list.nu : Attached(list)[k] = e

\* The last place that holds one of S, 0 if none does, and the first.
LastOf(S) ==
  CHOOSE k \in 0 .. list.nu :
    /\ k > 0 => Contents(list)[k] \in S
    /\ \A i \in k + 1 .. list.nu : Contents(list)[i] \notin S

FirstOf(S) ==
  CHOOSE k \in 1 .. list.nu : Contents(list)[k] \in S /\ \A i \in 1 .. k - 1 : Contents(list)[i] \notin S

\* What is left of `now' without the intervals of S, in the same order.
Without(now, S, then) ==
  \E at \in [DOMAIN then -> DOMAIN now] :
    /\ \A i, j \in DOMAIN then : i < j => at[i] < at[j]
    /\ {at[i] : i \in DOMAIN then} = {k \in DOMAIN now : now[k] \notin S}
    /\ \A i \in DOMAIN then : then[i] = now[at[i]]

\* An interval goes behind or before the element it is given to, or to the end
\* or the head; a search from either end stops at the nearest interval asked
\* for, the last one the walk comes to included; a walk that detaches the
\* element it stands on, which may be the one it was to stop at, detaches those
\* it is to and no other; and the program ends only for want of an element.
Sequential ==
  LET now == Contents(list)
      then == Contents(list')
      inUse == {now[k] : k \in 1 .. list.nu}
  IN  /\ \A c \in Intervals : list.nf > 0 =>
           /\ InsertForwards(NULL, c) => then = Append(now, c)
           /\ InsertBackwards(NULL, c) => then = <<c>> \o now
           /\ \A e \in InUse :
                /\ InsertForwards(e, c) => then = InsertAt(now, Place(e) + 1, c)
                /\ InsertBackwards(e, c) => then = InsertAt(now, Place(e), c)
           /\ \A S \in SUBSET Intervals :
                InsertSorted(S, c) => then = InsertAt(now, LastOf(S) + 1, c)
      /\ \A e \in InUse : RemoveElement(e) => then = RemoveAt(now, Place(e))
      /\ \A S \in SUBSET Intervals :
           /\ FoundForwards(S) = NULL <=> S \cap inUse = {}
           /\ RemoveFound(S) => then = RemoveAt(now, FirstOf(S))
           /\ Expire(S) => then = SubSeq(now, 1, LastOf(Intervals \ S))
           /\ i_lleachfwd(S) \/ i_lleachbwd(S) => Without(now, S, then)
      /\ stopped' => list.nf = 0

\* The list is the sequence of intervals linear scan takes it for.
WorksAsSequence == [][Sequential]_listVars
=============================================================================
