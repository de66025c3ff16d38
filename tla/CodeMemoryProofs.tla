-------------------------- MODULE CodeMemoryProofs --------------------------
(***************************************************************************)
(* Proofs about the executable-memory manager, for every page size, every  *)
(* size of the address space and every set of requests.                    *)
(***************************************************************************)
EXTENDS CodeMemory, TLAPS

\* What is inductive: the shape, disjointness, and the agreement of the table
\* with the kernel.  Disjointness of a fresh mapping needs the agreement (a
\* listed page is not free), and the agreement after mprotect needs
\* disjointness (no other entry's page changed).
IInv == TypeOK /\ NoOverlap /\ TableMatchesKernel

\* The initial state: nothing is mapped.
LEMMA InitIInv == Init => IInv
  BY SpaceAssumption DEF Init, IInv, TypeOK, NoOverlap, TableMatchesKernel, Pages, NULL

\* Rounding yields a whole number of pages.
LEMMA PagesForNat ==
  ASSUME NEW bytes \in Requests
  PROVE  PagesFor(bytes) \in Nat
<1>1. bytes \in Nat /\ bytes + PageSize - 1 \in Nat
  BY SpaceAssumption
<1>2. (bytes + PageSize - 1) % (SizeMax + 1) \in Nat
  BY <1>1, SpaceAssumption
<1> QED
  BY <1>2, SpaceAssumption DEF PagesFor

\* v_code_alloc keeps the invariant, on each of its paths.
LEMMA AllocIInv ==
  ASSUME IInv, NEW bytes \in Requests, v_code_alloc(bytes)
  PROVE  IInv'
<1> USE DEF IInv, Returns, NULL
<1>1. CASE AllocFails(bytes)
  BY <1>1 DEF AllocFails, TypeOK, NoOverlap, TableMatchesKernel, PagesOf, Protection
<1>2. ASSUME NEW base \in Pages, AllocSucceeds(bytes, base)
      PROVE  IInv'
  <2> DEFINE n == PagesFor(bytes)
             m == [base |-> base, npages |-> n, writable |-> TRUE]
  <2>1. /\ n \in Nat \ {0}
        /\ base + n <= NumPages
        /\ \A p \in PagesOf(m) : prot[p] = "none"
        /\ code_mappings' = code_mappings \cup {m}
        /\ prot' = Protect(PagesOf(m), "rw")
        /\ held' = held \cup {[base |-> base, bytes |-> bytes]}
        /\ lost' = lost
        /\ call' = [op |-> "alloc", address |-> NULL, ret |-> base]
    BY <1>2, PagesForNat DEF AllocSucceeds, FreeRun, PagesOf
  <2>2. m \in Mapping /\ PagesOf(m) \subseteq Pages
    BY <2>1, SpaceAssumption DEF Mapping, PagesOf, Pages
  <2>3. \A k \in code_mappings : PagesOf(k) \cap PagesOf(m) = {}
    BY <2>1 DEF TableMatchesKernel, Protection
  <2> HIDE DEF m, n
  <2>4. TypeOK'
    <3>1. code_mappings' \subseteq Mapping
      BY <2>1, <2>2 DEF TypeOK
    <3>2. \A k \in code_mappings' : k.base + k.npages <= NumPages
      BY <2>1 DEF TypeOK, m
    <3>3. prot' \in [Pages -> {"none", "rw", "rx", "foreign"}]
      BY <2>1 DEF TypeOK, Protect
    <3>4. held' \subseteq [base : Pages, bytes : Requests]
      BY <2>1 DEF TypeOK
    <3> QED
      BY <2>1, <3>1, <3>2, <3>3, <3>4 DEF TypeOK
  <2>5. NoOverlap'
    BY <2>1, <2>3 DEF NoOverlap, PagesOf
  <2>6. TableMatchesKernel'
    <3> SUFFICES ASSUME NEW k \in code_mappings', NEW p \in PagesOf(k)
                 PROVE  prot'[p] = Protection(k)
      BY DEF TableMatchesKernel, PagesOf, Protection
    <3>1. CASE k = m
      BY <3>1, <2>1, <2>2 DEF Protect, Protection, m
    <3>2. CASE k \in code_mappings
      <4>1. p \notin PagesOf(m)
        BY <3>2, <2>3
      <4>2. p \in Pages
        BY <3>2, SpaceAssumption DEF TypeOK, Mapping, PagesOf, Pages
      <4> QED
        BY <3>2, <4>1, <4>2, <2>1 DEF TableMatchesKernel, Protect
    <3> QED
      BY <2>1, <3>1, <3>2
  <2> QED
    BY <2>4, <2>5, <2>6
<1>3. ASSUME NEW base \in Pages, NEW unmapped \in BOOLEAN,
             AllocNoEntry(bytes, base, unmapped)
      PROVE  IInv'
  <2> DEFINE pages == base .. (base + PagesFor(bytes) - 1)
  <2>1. /\ base + PagesFor(bytes) <= NumPages
        /\ \A p \in pages : prot[p] = "none"
        /\ prot' = prot \/ prot' = Protect(pages, "rw")
        /\ lost' = lost \/ lost' = lost \cup pages
        /\ code_mappings' = code_mappings
        /\ held' = held
        /\ call' = [op |-> "alloc", address |-> NULL, ret |-> NULL]
    BY <1>3 DEF AllocNoEntry, FreeRun
  <2>2. pages \subseteq Pages
    BY <2>1, PagesForNat, SpaceAssumption DEF Pages
  <2> HIDE DEF pages
  <2>3. TypeOK'
    BY <2>1, <2>2 DEF TypeOK, Protect
  <2>4. NoOverlap'
    BY <2>1 DEF NoOverlap, PagesOf
  <2>5. TableMatchesKernel'
    <3> SUFFICES ASSUME NEW k \in code_mappings, NEW p \in PagesOf(k)
                 PROVE  prot'[p] = Protection(k)
      BY <2>1 DEF TableMatchesKernel, PagesOf, Protection
    <3>1. p \in Pages
      BY SpaceAssumption DEF TypeOK, Mapping, PagesOf, Pages
    <3>2. prot[p] = Protection(k) /\ p \notin pages
      BY <2>1 DEF TableMatchesKernel, Protection
    <3> QED
      BY <2>1, <3>1, <3>2 DEF Protect
  <2> QED
    BY <2>3, <2>4, <2>5
<1> QED
  BY <1>1, <1>2, <1>3 DEF v_code_alloc

\* Flipping one mapping between RW and RX keeps the invariant, whichever call
\* asks for it and whether or not the kernel agrees.
LEMMA FlipIInv ==
  ASSUME IInv, NEW op, NEW address \in Pages, NEW writable \in BOOLEAN,
         Flip(op, address, writable)
  PROVE  IInv'
<1> USE DEF IInv, Returns
<1>1. CASE NotMine(op, address) \/ AlreadySet(op, address, writable)
           \/ mprotectFails(op, address, writable)
  BY <1>1 DEF NotMine, AlreadySet, mprotectFails, TypeOK, NoOverlap,
              TableMatchesKernel, PagesOf, Protection
<1>2. CASE mprotectSucceeds(op, address, writable)
  <2>1. PICK m \in code_mappings :
          LET changed == [m EXCEPT !.writable = writable]
          IN  /\ prot' = Protect(PagesOf(m), Protection(changed))
              /\ code_mappings' = (code_mappings \ {m}) \cup {changed}
    BY <1>2 DEF mprotectSucceeds, find_mapping
  <2> DEFINE c == [m EXCEPT !.writable = writable]
  <2>2. /\ m \in Mapping
        /\ c = [base |-> m.base, npages |-> m.npages, writable |-> writable]
        /\ PagesOf(c) = PagesOf(m)
        /\ c \in Mapping
    BY DEF TypeOK, Mapping, PagesOf
  <2>3. PagesOf(m) \subseteq Pages
    BY <2>2, SpaceAssumption DEF TypeOK, Mapping, PagesOf, Pages
  <2>4. held' = held /\ lost' = lost /\ call'.ret = 1
    BY <1>2 DEF mprotectSucceeds
  <2>5. /\ prot' = Protect(PagesOf(m), Protection(c))
        /\ code_mappings' = (code_mappings \ {m}) \cup {c}
    BY <2>1
  <2>6. c.base = m.base /\ c.npages = m.npages
    BY <2>2
  <2> HIDE DEF c
  <2>7. TypeOK'
    <3>1. prot' \in [Pages -> {"none", "rw", "rx", "foreign"}]
      BY <2>5 DEF TypeOK, Protect, Protection
    <3>2. code_mappings' \subseteq Mapping
      BY <2>5, <2>2 DEF TypeOK
    <3>3. \A k \in code_mappings' : k.base + k.npages <= NumPages
      BY <2>5, <2>6 DEF TypeOK
    <3> QED
      BY <2>4, <3>1, <3>2, <3>3 DEF TypeOK
  <2>8. NoOverlap'
    <3> SUFFICES ASSUME NEW j \in code_mappings', NEW k \in code_mappings', j # k
                 PROVE  PagesOf(j) \cap PagesOf(k) = {}
      BY DEF NoOverlap, PagesOf
    <3>1. CASE j = c
      BY <3>1, <2>2, <2>5 DEF NoOverlap
    <3>2. CASE k = c
      BY <3>2, <2>2, <2>5 DEF NoOverlap
    <3> QED
      BY <3>1, <3>2, <2>5 DEF NoOverlap
  <2>9. TableMatchesKernel'
    <3> SUFFICES ASSUME NEW k \in code_mappings', NEW p \in PagesOf(k)
                 PROVE  prot'[p] = Protection(k)
      BY DEF TableMatchesKernel, PagesOf, Protection
    <3>1. CASE k = c
      BY <3>1, <2>2, <2>3, <2>5 DEF Protect
    <3>2. CASE k \in code_mappings \ {m}
      <4>1. p \notin PagesOf(m)
        BY <3>2 DEF NoOverlap
      <4>2. p \in Pages
        BY <3>2, SpaceAssumption DEF TypeOK, Mapping, PagesOf, Pages
      <4> QED
        BY <3>2, <4>1, <4>2, <2>5 DEF TableMatchesKernel, Protect
    <3> QED
      BY <3>1, <3>2, <2>5
  <2> QED
    BY <2>7, <2>8, <2>9
<1> QED
  BY <1>1, <1>2 DEF Flip

\* v_code_free keeps the invariant.
LEMMA FreeIInv ==
  ASSUME IInv, NEW address \in Pages, v_code_free(address)
  PROVE  IInv'
<1> USE DEF IInv, Returns
<1>1. CASE FreeFails(address)
  BY <1>1 DEF FreeFails, TypeOK, NoOverlap, TableMatchesKernel, PagesOf, Protection
<1>2. CASE FreeSucceeds(address)
  <2>1. PICK m \in code_mappings :
          /\ prot' = Protect(PagesOf(m), "none")
          /\ code_mappings' = code_mappings \ {m}
          /\ held' = {b \in held : b.base # m.base}
    BY <1>2 DEF FreeSucceeds, find_mapping
  <2>2. lost' = lost /\ call'.ret = 0
    BY <1>2 DEF FreeSucceeds
  <2>3. TypeOK'
    BY <2>1, <2>2 DEF TypeOK, Protect
  <2>4. NoOverlap'
    BY <2>1 DEF NoOverlap, PagesOf
  <2>5. TableMatchesKernel'
    <3> SUFFICES ASSUME NEW k \in code_mappings \ {m}, NEW p \in PagesOf(k)
                 PROVE  prot'[p] = Protection(k)
      BY <2>1 DEF TableMatchesKernel, PagesOf, Protection
    <3>1. p \notin PagesOf(m) /\ p \in Pages
      BY SpaceAssumption DEF NoOverlap, TypeOK, Mapping, PagesOf, Pages
    <3> QED
      BY <2>1, <3>1 DEF TableMatchesKernel, Protect
  <2> QED
    BY <2>3, <2>4, <2>5
<1> QED
  BY <1>1, <1>2 DEF v_code_free

\* Every call keeps the invariant, and so does a step that is none.
LEMMA NextIInv ==
  ASSUME IInv, [Next]_vars
  PROVE  IInv'
<1>1. CASE \E bytes \in Requests : v_code_alloc(bytes)
  BY <1>1, AllocIInv
<1>2. CASE \E address \in Pages : v_code_make_writable(address)
  BY <1>2, FlipIInv DEF v_code_make_writable
<1>3. CASE \E address \in Pages : v_code_finalize(address)
  BY <1>3, FlipIInv DEF v_code_finalize
<1>4. CASE \E address \in Pages : v_code_free(address)
  BY <1>4, FreeIInv
<1>5. CASE UNCHANGED vars
  BY <1>5 DEF vars, IInv, TypeOK, NoOverlap, TableMatchesKernel, PagesOf, Protection
<1> QED
  BY <1>1, <1>2, <1>3, <1>4, <1>5 DEF Next

\* The invariant holds of every behaviour of the manager.
THEOREM ManagerInvariant == Spec => []IInv
<1>1. IInv /\ [Next]_vars => IInv'
  BY NextIInv
<1> QED
  BY InitIInv, <1>1, PTL DEF Spec

\* The shape of the table and of the kernel's pages, for every page size and
\* every sequence of calls of v_code_alloc and its companions.
THEOREM ManagerTypeOK == Spec => []TypeOK
  BY ManagerInvariant, PTL DEF IInv

\* Two functions' mappings never share a page.
THEOREM MappingsDisjoint == Spec => []NoOverlap
  BY ManagerInvariant, PTL DEF IInv

\* The writable bit is never stale.
THEOREM BitsMatchKernel == Spec => []TableMatchesKernel
  BY ManagerInvariant, PTL DEF IInv

-----------------------------------------------------------------------------
\* Rounding up loses no byte, thanks to the overflow test that precedes it.
LEMMA PagesForCovers ==
  ASSUME NEW bytes \in Requests, ~RequestTooLarge(bytes)
  PROVE  bytes <= PagesFor(bytes) * PageSize
<1> DEFINE x == bytes + PageSize - 1
<1>1. x \in Nat /\ x < SizeMax + 1
  BY SpaceAssumption DEF RequestTooLarge
<1>2. x % (SizeMax + 1) = x
  BY <1>1, SpaceAssumption
<1>3. x = PageSize * (x \div PageSize) + (x % PageSize) /\ x % PageSize < PageSize
  BY <1>1, SpaceAssumption
<1>4. x \div PageSize = PagesFor(bytes) /\ PagesFor(bytes) \in Nat
  BY <1>2, PagesForNat DEF PagesFor
<1>5. PageSize * PagesFor(bytes) = PagesFor(bytes) * PageSize
  BY <1>4, SpaceAssumption
<1>6. x % PageSize \in Nat /\ bytes \in Nat
  BY <1>1, SpaceAssumption
<1> QED
  BY <1>1, <1>3, <1>4, <1>5, <1>6, SpaceAssumption

\* A held block has a mapping of its base with pages enough.
Backed ==
  \A b \in held : \E m \in code_mappings :
    m.base = b.base /\ b.bytes <= m.npages * PageSize

\* What a caller owns stays backed: only v_code_free of an address in the very
\* same mapping takes it away, and that ends the ownership.
THEOREM HeldBlocksBacked == Spec => []HeldIsBacked
<1>1. Init => Backed
  BY DEF Init, Backed
<1>2. IInv /\ Backed /\ [Next]_vars => Backed'
  <2> SUFFICES ASSUME IInv, Backed, [Next]_vars, NEW b \in held'
               PROVE  \E k \in code_mappings' :
                        k.base = b.base /\ b.bytes <= k.npages * PageSize
    BY DEF Backed
  <2>1. ASSUME NEW bytes \in Requests, v_code_alloc(bytes)
        PROVE  \E k \in code_mappings' :
                 k.base = b.base /\ b.bytes <= k.npages * PageSize
    <3>1. CASE AllocFails(bytes) \/ \E base \in Pages, unmapped \in BOOLEAN :
                                      AllocNoEntry(bytes, base, unmapped)
      BY <3>1 DEF AllocFails, AllocNoEntry, Backed
    <3>2. ASSUME NEW base \in Pages, AllocSucceeds(bytes, base)
          PROVE  \E k \in code_mappings' :
                   k.base = b.base /\ b.bytes <= k.npages * PageSize
      <4> DEFINE m == [base |-> base, npages |-> PagesFor(bytes), writable |-> TRUE]
      <4>1. /\ code_mappings' = code_mappings \cup {m}
            /\ held' = held \cup {[base |-> base, bytes |-> bytes]}
            /\ bytes <= PagesFor(bytes) * PageSize
        BY <3>2, PagesForCovers DEF AllocSucceeds
      <4>2. m.base = base /\ m.npages = PagesFor(bytes)
        OBVIOUS
      <4> HIDE DEF m
      <4> QED
        BY <4>1, <4>2 DEF Backed
    <3> QED
      BY <2>1, <3>1, <3>2 DEF v_code_alloc
  <2>2. ASSUME NEW op, NEW address \in Pages, NEW writable \in BOOLEAN,
               Flip(op, address, writable)
        PROVE  \E k \in code_mappings' :
                 k.base = b.base /\ b.bytes <= k.npages * PageSize
    <3>1. CASE mprotectSucceeds(op, address, writable)
      <4>1. PICK m \in code_mappings :
              code_mappings' = (code_mappings \ {m})
                                 \cup {[m EXCEPT !.writable = writable]}
        BY <3>1 DEF mprotectSucceeds, find_mapping
      <4> DEFINE c == [m EXCEPT !.writable = writable]
      <4>2. c.base = m.base /\ c.npages = m.npages
        BY DEF IInv, TypeOK, Mapping
      <4>3. code_mappings' = (code_mappings \ {m}) \cup {c} /\ held' = held
        BY <3>1, <4>1 DEF mprotectSucceeds
      <4> HIDE DEF c
      <4> QED
        BY <4>2, <4>3 DEF Backed
    <3> QED
      BY <2>2, <3>1 DEF Flip, NotMine, AlreadySet, mprotectFails, Backed
  <2>3. ASSUME NEW address \in Pages, v_code_free(address)
        PROVE  \E k \in code_mappings' :
                 k.base = b.base /\ b.bytes <= k.npages * PageSize
    <3>1. CASE FreeSucceeds(address)
      <4>1. PICK m \in code_mappings :
              /\ code_mappings' = code_mappings \ {m}
              /\ held' = {h \in held : h.base # m.base}
        BY <3>1 DEF FreeSucceeds, find_mapping
      <4> QED
        BY <4>1 DEF Backed
    <3> QED
      BY <2>3, <3>1 DEF v_code_free, FreeFails, Backed
  <2>4. CASE UNCHANGED vars
    BY <2>4 DEF vars, Backed
  <2> QED
    BY <2>1, <2>2, <2>3, <2>4
    DEF Next, v_code_make_writable, v_code_finalize
<1>3. IInv /\ Backed => HeldIsBacked
  BY DEF IInv, Backed, HeldIsBacked
<1> QED
  BY <1>1, <1>2, <1>3, ManagerInvariant, PTL DEF Spec

\* A call's result is the truth about the kernel's pages.  The early returns
\* of make_writable and finalize are covered by the agreement of the table
\* with the kernel.
THEOREM CallResultsTrue == Spec => ResultsAreTrue
<1> DEFINE True ==
      /\ (call'.op = "make_writable" /\ call'.ret = 1) => prot'[call'.address] = "rw"
      /\ (call'.op = "finalize" /\ call'.ret = 1) => prot'[call'.address] = "rx"
      /\ (call'.op # "alloc" /\ call'.ret = -1) => prot' = prot
<1>1. IInv /\ [Next]_vars => [True]_vars
  <2> SUFFICES ASSUME IInv, Next
               PROVE  True
    OBVIOUS
  <2> USE DEF Returns
  <2>1. ASSUME NEW bytes \in Requests, v_code_alloc(bytes)
        PROVE  True
    <3> HIDE DEF True
    <3>1. CASE AllocFails(bytes)
      BY <3>1 DEF AllocFails, True
    <3>2. ASSUME NEW base \in Pages, AllocSucceeds(bytes, base)
          PROVE  True
      BY <3>2 DEF AllocSucceeds, True
    <3>3. ASSUME NEW base \in Pages, NEW unmapped \in BOOLEAN,
                 AllocNoEntry(bytes, base, unmapped)
          PROVE  True
      BY <3>3 DEF AllocNoEntry, True
    <3> QED
      BY <2>1, <3>1, <3>2, <3>3 DEF v_code_alloc
  <2>2. ASSUME NEW op \in {"make_writable", "finalize"}, NEW address \in Pages,
               Flip(op, address, op = "make_writable")
        PROVE  True
    <3> DEFINE writable == op = "make_writable"
    <3>1. CASE NotMine(op, address) \/ mprotectFails(op, address, writable)
      BY <3>1 DEF NotMine, mprotectFails
    <3>2. CASE AlreadySet(op, address, writable)
      <4>1. PICK m \in code_mappings : address \in PagesOf(m) /\ m.writable = writable
        BY <3>2 DEF AlreadySet, find_mapping
      <4>2. prot[address] = Protection(m)
        BY <4>1 DEF IInv, TableMatchesKernel
      <4>3. call' = [op |-> op, address |-> address, ret |-> 1] /\ prot' = prot
        BY <3>2 DEF AlreadySet
      <4> QED
        BY <4>1, <4>2, <4>3 DEF Protection
    <3>3. CASE mprotectSucceeds(op, address, writable)
      <4>1. PICK m \in code_mappings :
              /\ address \in PagesOf(m)
              /\ prot' = Protect(PagesOf(m),
                                 Protection([m EXCEPT !.writable = writable]))
        BY <3>3 DEF mprotectSucceeds, find_mapping
      <4>2. prot'[address] = Protection([m EXCEPT !.writable = writable])
        BY <4>1 DEF Protect
      <4>3. call' = [op |-> op, address |-> address, ret |-> 1]
        BY <3>3 DEF mprotectSucceeds
      <4>4. [m EXCEPT !.writable = writable].writable = writable
        BY DEF IInv, TypeOK, Mapping
      <4>5. /\ call'.op = op /\ call'.ret = 1 /\ call'.address = address
            /\ prot'[address] = IF op = "make_writable" THEN "rw" ELSE "rx"
        BY <4>2, <4>3, <4>4 DEF Protection
      <4> QED
        BY <4>5
    <3> QED
      BY <2>2, <3>1, <3>2, <3>3 DEF Flip
  <2>3. ASSUME NEW address \in Pages, v_code_free(address)
        PROVE  True
    BY <2>3 DEF v_code_free, FreeFails, FreeSucceeds
  <2> HIDE DEF True
  <2>4. ASSUME NEW address \in Pages, v_code_make_writable(address)
        PROVE  True
    BY <2>4, <2>2 DEF v_code_make_writable
  <2>5. ASSUME NEW address \in Pages, v_code_finalize(address)
        PROVE  True
    BY <2>5, <2>2 DEF v_code_finalize
  <2> QED
    BY <2>1, <2>3, <2>4, <2>5 DEF Next
<1> QED
  BY <1>1, ManagerInvariant, PTL DEF Spec, ResultsAreTrue

-----------------------------------------------------------------------------
\* No call loses a code page, except an allocation whose malloc and whose munmap
\* both fail.
LEMMA NextNoLeak ==
  ASSUME IInv, NoLeak, [Next]_vars
  PROVE  NoLeak'
<1> SUFFICES ASSUME NEW p \in Pages, prot'[p] \in {"rw", "rx"}
             PROVE  p \in lost' \/ \E k \in code_mappings' : p \in PagesOf(k)
  BY DEF NoLeak, PagesOf
<1> DEFINE Accounted == p \in lost' \/ \E k \in code_mappings' : p \in PagesOf(k)
<1>1. CASE UNCHANGED <<code_mappings, prot, lost>>
  BY <1>1 DEF NoLeak
<1>2. ASSUME NEW bytes \in Requests, v_code_alloc(bytes)
      PROVE  Accounted
  <2>1. CASE AllocFails(bytes)
    BY <2>1, <1>1 DEF AllocFails
  <2>2. ASSUME NEW base \in Pages, AllocSucceeds(bytes, base)
        PROVE  Accounted
    <3> DEFINE m == [base |-> base, npages |-> PagesFor(bytes), writable |-> TRUE]
    <3>1. /\ code_mappings' = code_mappings \cup {m}
          /\ prot' = Protect(PagesOf(m), "rw") /\ lost' = lost
      BY <2>2 DEF AllocSucceeds
    <3> HIDE DEF m
    <3>2. CASE p \in PagesOf(m)
      BY <3>1, <3>2
    <3>3. CASE p \notin PagesOf(m)
      BY <3>1, <3>3 DEF NoLeak, Protect
    <3> QED
      BY <3>2, <3>3
  <2>3. ASSUME NEW base \in Pages, NEW unmapped \in BOOLEAN,
               AllocNoEntry(bytes, base, unmapped)
        PROVE  Accounted
    <3> DEFINE pages == base .. (base + PagesFor(bytes) - 1)
    <3>1. /\ code_mappings' = code_mappings
          /\ prot' = IF unmapped THEN prot ELSE Protect(pages, "rw")
          /\ lost' = IF unmapped THEN lost ELSE lost \cup pages
      BY <2>3 DEF AllocNoEntry
    <3> HIDE DEF pages
    <3> QED
      BY <3>1 DEF NoLeak, Protect
  <2> QED
    BY <1>2, <2>1, <2>2, <2>3 DEF v_code_alloc
<1>3. ASSUME NEW op, NEW address \in Pages, NEW writable \in BOOLEAN,
             Flip(op, address, writable)
      PROVE  Accounted
  <2>1. CASE mprotectSucceeds(op, address, writable)
    <3>1. PICK m \in code_mappings :
            LET changed == [m EXCEPT !.writable = writable]
            IN  /\ prot' = Protect(PagesOf(m), Protection(changed))
                /\ code_mappings' = (code_mappings \ {m}) \cup {changed}
      BY <2>1 DEF mprotectSucceeds, find_mapping
    <3> DEFINE c == [m EXCEPT !.writable = writable]
    <3>2. PagesOf(c) = PagesOf(m)
      BY DEF IInv, TypeOK, Mapping, PagesOf
    <3>3. /\ prot' = Protect(PagesOf(m), Protection(c)) /\ lost' = lost
          /\ code_mappings' = (code_mappings \ {m}) \cup {c}
      BY <2>1, <3>1 DEF mprotectSucceeds
    <3> HIDE DEF c
    <3>4. CASE p \in PagesOf(m)
      BY <3>2, <3>3, <3>4
    <3>5. CASE p \notin PagesOf(m)
      BY <3>3, <3>5 DEF NoLeak, Protect
    <3> QED
      BY <3>4, <3>5
  <2> QED
    BY <1>3, <1>1, <2>1 DEF Flip, NotMine, AlreadySet, mprotectFails
<1>4. ASSUME NEW address \in Pages, v_code_free(address)
      PROVE  Accounted
  <2>1. CASE FreeSucceeds(address)
    <3>1. PICK m \in code_mappings :
            /\ prot' = Protect(PagesOf(m), "none")
            /\ code_mappings' = code_mappings \ {m}
      BY <2>1 DEF FreeSucceeds, find_mapping
    <3>2. p \notin PagesOf(m) /\ lost' = lost
      BY <2>1, <3>1 DEF FreeSucceeds, Protect
    <3> QED
      BY <3>1, <3>2 DEF NoLeak, Protect
  <2> QED
    BY <1>4, <1>1, <2>1 DEF v_code_free, FreeFails
<1> HIDE DEF Accounted
<1>5. CASE UNCHANGED vars
  BY <1>5, <1>1 DEF vars
<1> QED
  BY <1>2, <1>3, <1>4, <1>5
  DEF Next, v_code_make_writable, v_code_finalize, Accounted

\* Every code page the kernel holds is one the table can free, whatever fails:
\* the exception is an allocation whose malloc and whose munmap both failed.
THEOREM PagesAccounted == Spec => []NoLeak
<1>1. Init => NoLeak
  BY DEF Init, NoLeak
<1>2. IInv /\ NoLeak /\ [Next]_vars => NoLeak'
  BY NextNoLeak
<1> QED
  BY <1>1, <1>2, ManagerInvariant, PTL DEF Spec

\* No call changes the protection of a page it was not asked about: a page that
\* changes was free and is being allocated, or lies in the addressed mapping.
THEOREM CallsStayInTheirMapping == Spec => OnlyAddressedPagesChange
<1> DEFINE Local ==
      \A p \in Pages : prot'[p] # prot[p] =>
        \/ prot[p] = "none" /\ call'.op = "alloc"
        \/ \E m \in code_mappings : p \in PagesOf(m) /\ call'.address \in PagesOf(m)
<1>1. IInv /\ [Next]_vars => [Local]_vars
  <2> SUFFICES ASSUME IInv, Next, NEW p \in Pages, prot'[p] # prot[p]
               PROVE  \/ prot[p] = "none" /\ call'.op = "alloc"
                      \/ \E m \in code_mappings :
                           p \in PagesOf(m) /\ call'.address \in PagesOf(m)
    OBVIOUS
  <2> USE DEF Returns
  <2>1. ASSUME NEW bytes \in Requests, v_code_alloc(bytes)
        PROVE  prot[p] = "none" /\ call'.op = "alloc"
    <3>1. PICK base \in Pages :
            /\ FreeRun(base, PagesFor(bytes))
            /\ \/ prot' = Protect(base .. (base + PagesFor(bytes) - 1), "rw")
               \/ prot' = prot
      BY <2>1 DEF v_code_alloc, AllocFails, AllocSucceeds, AllocNoEntry, PagesOf
    <3>2. p \in base .. (base + PagesFor(bytes) - 1)
      BY <3>1 DEF Protect
    <3>3. \E a, ret : call' = [op |-> "alloc", address |-> a, ret |-> ret]
      BY <2>1 DEF v_code_alloc, AllocFails, AllocSucceeds, AllocNoEntry
    <3>4. call'.op = "alloc"
      BY <3>3
    <3> QED
      BY <3>1, <3>2, <3>4 DEF FreeRun
  <2>2. ASSUME NEW op, NEW address \in Pages, NEW writable \in BOOLEAN,
               Flip(op, address, writable)
        PROVE  \E m \in code_mappings : p \in PagesOf(m) /\ call'.address \in PagesOf(m)
    <3>1. mprotectSucceeds(op, address, writable)
      BY <2>2 DEF Flip, NotMine, AlreadySet, mprotectFails
    <3>2. PICK m \in find_mapping(address) :
            prot' = Protect(PagesOf(m), Protection([m EXCEPT !.writable = writable]))
      BY <3>1 DEF mprotectSucceeds
    <3>3. call'.address = address
      BY <3>1 DEF mprotectSucceeds
    <3>4. p \in PagesOf(m)
      BY <3>2 DEF Protect
    <3> QED
      BY <3>2, <3>3, <3>4 DEF find_mapping
  <2>3. ASSUME NEW address \in Pages, v_code_free(address)
        PROVE  \E m \in code_mappings : p \in PagesOf(m) /\ call'.address \in PagesOf(m)
    <3>1. FreeSucceeds(address)
      BY <2>3 DEF v_code_free, FreeFails
    <3>2. PICK m \in find_mapping(address) : prot' = Protect(PagesOf(m), "none")
      BY <3>1 DEF FreeSucceeds
    <3>3. call'.address = address
      BY <3>1 DEF FreeSucceeds
    <3>4. p \in PagesOf(m)
      BY <3>2 DEF Protect
    <3> QED
      BY <3>2, <3>3, <3>4 DEF find_mapping
  <2> QED
    BY <2>1, <2>2, <2>3 DEF Next, v_code_make_writable, v_code_finalize
<1> QED
  BY <1>1, ManagerInvariant, PTL DEF Spec, OnlyAddressedPagesChange

-----------------------------------------------------------------------------
(* What a caller sees of a call: the table's entries, on each outcome.     *)

\* An address where a mapping starts lies in no other mapping.
LEMMA OneMapping ==
  ASSUME IInv, NEW m \in code_mappings
  PROVE  /\ m \in Mapping /\ m.base \in PagesOf(m) /\ find_mapping(m.base) = {m}
         /\ \A k \in code_mappings : k.base = m.base => k = m
<1>1. \A k \in code_mappings : k \in Mapping /\ k.base \in PagesOf(k)
  BY SpaceAssumption DEF IInv, TypeOK, Mapping, Pages, PagesOf
<1>2. \A k \in code_mappings : m.base \in PagesOf(k) => k = m
  BY <1>1 DEF IInv, NoOverlap
<1> QED
  BY <1>1, <1>2 DEF find_mapping

\* v_code_alloc returns NULL and lists nothing, or the base of a new entry whose
\* pages no other entry has.
LEMMA AllocEffect ==
  ASSUME IInv, NEW bytes \in Requests, v_code_alloc(bytes)
  PROVE  \/ call'.ret = NULL /\ code_mappings' = code_mappings
         \/ \E m \in Mapping :
              /\ call'.ret = m.base /\ m.base # NULL
              /\ code_mappings' = code_mappings \cup {m}
              /\ \A k \in code_mappings : PagesOf(k) \cap PagesOf(m) = {} /\ k.base # m.base
<1>1. CASE AllocFails(bytes) \/ \E base \in Pages, unmapped \in BOOLEAN :
                                  AllocNoEntry(bytes, base, unmapped)
  BY <1>1 DEF AllocFails, AllocNoEntry, Returns
<1>2. ASSUME NEW base \in Pages, AllocSucceeds(bytes, base)
      PROVE  \E m \in Mapping :
               /\ call'.ret = m.base /\ m.base # NULL
               /\ code_mappings' = code_mappings \cup {m}
               /\ \A k \in code_mappings : PagesOf(k) \cap PagesOf(m) = {} /\ k.base # m.base
  <2> DEFINE m == [base |-> base, npages |-> PagesFor(bytes), writable |-> TRUE]
  <2>1. /\ code_mappings' = code_mappings \cup {m}
        /\ call' = [op |-> "alloc", address |-> NULL, ret |-> base]
        /\ PagesFor(bytes) \in Nat \ {0} /\ base \in PagesOf(m)
        /\ \A p \in PagesOf(m) : prot[p] = "none"
    BY <1>2, PagesForNat, SpaceAssumption DEF AllocSucceeds, FreeRun, PagesOf, Returns, Pages
  <2>2. m \in Mapping /\ m.base = base
    BY <2>1 DEF Mapping
  <2> HIDE DEF m
  <2>3. \A k \in code_mappings : PagesOf(k) \cap PagesOf(m) = {}
    BY <2>1 DEF IInv, TableMatchesKernel, Protection
  <2>4. \A k \in code_mappings : k.base # m.base
    BY <2>1, <2>2, <2>3, OneMapping
  <2>5. base # NULL /\ call'.ret = base
    BY <2>1, SpaceAssumption DEF Pages, NULL
  <2> QED
    BY <2>1, <2>2, <2>3, <2>4, <2>5
<1> QED
  BY <1>1, <1>2 DEF v_code_alloc

\* make_writable and finalize of a block set its bit, or fail and change nothing.
LEMMA FlipEffect ==
  ASSUME IInv, NEW m \in code_mappings, NEW op, NEW writable \in BOOLEAN,
         Flip(op, m.base, writable)
  PROVE  \/ call'.ret = -1 /\ code_mappings' = code_mappings
         \/ /\ call'.ret = 1
            /\ \E c \in Mapping :
                 /\ c.base = m.base /\ c.npages = m.npages /\ c.writable = writable
                 /\ code_mappings' = (code_mappings \ {m}) \cup {c}
<1>1. m \in Mapping /\ find_mapping(m.base) = {m}
  BY OneMapping
<1> DEFINE c == [m EXCEPT !.writable = writable]
<1>2. c \in Mapping /\ c.base = m.base /\ c.npages = m.npages /\ c.writable = writable
  BY <1>1 DEF Mapping
<1>3. CASE NotMine(op, m.base)
  BY <1>1, <1>3 DEF NotMine
<1>4. CASE AlreadySet(op, m.base, writable)
  <2>1. m.writable = writable /\ call'.ret = 1 /\ code_mappings' = code_mappings
    BY <1>1, <1>4 DEF AlreadySet, Returns
  <2>2. code_mappings = (code_mappings \ {m}) \cup {m}
    OBVIOUS
  <2> QED
    BY <1>1, <2>1, <2>2
<1>5. CASE mprotectFails(op, m.base, writable)
  BY <1>5 DEF mprotectFails, Returns
<1>6. CASE mprotectSucceeds(op, m.base, writable)
  <2>1. call'.ret = 1 /\ code_mappings' = (code_mappings \ {m}) \cup {c}
    BY <1>1, <1>6 DEF mprotectSucceeds, Returns
  <2> HIDE DEF c
  <2> QED
    BY <1>2, <2>1
<1> QED
  BY <1>3, <1>4, <1>5, <1>6 DEF Flip

\* v_code_free of a block removes its entry, or fails and changes nothing.
LEMMA FreeEffect ==
  ASSUME IInv, NEW m \in code_mappings, v_code_free(m.base)
  PROVE  \/ call'.ret = -1 /\ code_mappings' = code_mappings
         \/ call'.ret = 0 /\ code_mappings' = code_mappings \ {m}
<1>1. find_mapping(m.base) = {m}
  BY OneMapping
<1> QED
  BY <1>1 DEF v_code_free, FreeFails, FreeSucceeds, Returns
=============================================================================
