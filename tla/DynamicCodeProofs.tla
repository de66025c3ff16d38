------------------------- MODULE DynamicCodeProofs -------------------------
(***************************************************************************)
(* Proofs about the table of dynamic functions and the memory manager      *)
(* together, for every page size, address space, hash size and set of      *)
(* requests.  What the manager does is taken from CodeMemoryProofs.        *)
(***************************************************************************)
EXTENDS DynamicCode, FiniteSetTheorems, TLAPS

MP == INSTANCE CodeMemoryProofs

\* The manager's own invariants.
MemoryInv == MP!IInv /\ MP!NoLeak

Owned(cp) == \E m \in code_mappings : m.base = cp

\* Chains hold addresses of their own hash, each once.
TableShape ==
  /\ buckets \in [Hashes -> Seq(Pages)]
  /\ \A h \in Hashes : IsInjective(buckets[h])
  /\ \A h \in Hashes : \A cp \in ToSet(buckets[h]) : Hash(cp) = h

\* The session's block has a mapping; it is in the table only while patched.
SessionShape ==
  /\ session \in [kind : {"idle", "allocated", "emitting", "finished", "patching"},
                  code : Pages \cup {NULL}]
  /\ session.kind = "idle" => session = Idle
  /\ session.kind # "idle" => session.code \in Pages /\ Owned(session.code)
  /\ session.kind = "patching" <=> session.code \in Entries

\* Only the block that is being written to is writable.
WritableIsOpen ==
  \A m \in code_mappings : m.writable =>
    m.base = session.code /\ session.kind \in {"allocated", "emitting", "patching"}

EntriesOwned == \A cp \in Entries : Owned(cp)

IInv ==
  /\ MemoryInv /\ TableShape /\ SessionShape /\ WritableIsOpen
  /\ EntriesOwned /\ NothingOrphaned

-----------------------------------------------------------------------------
(* The memory manager's part.                                              *)

LEMMA SpaceAssumed == MP!SpaceAssumption
  BY MemoryAssumption DEF MP!SpaceAssumption

\* The manager's calls, as this module and as the proofs about them name them.
LEMMA SameAlloc ==
  ASSUME NEW bytes, Memory!v_code_alloc(bytes)
  PROVE  MP!v_code_alloc(bytes)
BY DEF Memory!v_code_alloc, MP!v_code_alloc, Memory!AllocFails, MP!AllocFails,
  Memory!AllocSucceeds, MP!AllocSucceeds, Memory!AllocNoEntry, MP!AllocNoEntry,
  Memory!Returns, MP!Returns, Memory!NULL, MP!NULL, Memory!PagesFor, MP!PagesFor,
  Memory!RequestTooLarge, MP!RequestTooLarge, Memory!FreeRun, MP!FreeRun,
  Memory!Protect, MP!Protect, Memory!PagesOf, MP!PagesOf, Memory!Pages, MP!Pages

LEMMA SameFlip ==
  ASSUME NEW op, NEW address, NEW writable, Memory!Flip(op, address, writable)
  PROVE  MP!Flip(op, address, writable)
BY DEF Memory!Flip, MP!Flip, Memory!NotMine, MP!NotMine, Memory!AlreadySet, MP!AlreadySet,
  Memory!mprotectFails, MP!mprotectFails, Memory!mprotectSucceeds, MP!mprotectSucceeds,
  Memory!find_mapping, MP!find_mapping, Memory!Returns, MP!Returns,
  Memory!Protect, MP!Protect, Memory!Protection, MP!Protection,
  Memory!PagesOf, MP!PagesOf, Memory!Pages, MP!Pages

LEMMA SameFree ==
  ASSUME NEW address, Memory!v_code_free(address)
  PROVE  MP!v_code_free(address)
BY DEF Memory!v_code_free, MP!v_code_free, Memory!FreeFails, MP!FreeFails,
  Memory!FreeSucceeds, MP!FreeSucceeds, Memory!find_mapping, MP!find_mapping,
  Memory!Returns, MP!Returns, Memory!Protect, MP!Protect,
  Memory!PagesOf, MP!PagesOf, Memory!Pages, MP!Pages

\* The pages of the address space and of a mapping.
LEMMA SamePages ==
  /\ Pages = 0 .. NumPages - 1 /\ MP!Pages = Pages /\ Pages \subseteq Nat /\ NULL \notin Pages
  /\ MP!Mapping = [base : Pages, npages : Nat \ {0}, writable : BOOLEAN]
  /\ \A m : Memory!PagesOf(m) = MP!PagesOf(m)
  BY MemoryAssumption DEF Pages, Memory!Pages, MP!Pages, MP!Mapping, Memory!PagesOf, MP!PagesOf, NULL

LEMMA MemoryStep ==
  ASSUME MemoryInv, MP!Next
  PROVE  MemoryInv'
<1>1. MP!IInv'
  BY SpaceAssumed, MP!NextIInv DEF MemoryInv
<1>2. MP!NoLeak'
  BY SpaceAssumed, MP!NextNoLeak DEF MemoryInv
<1> QED
  BY <1>1, <1>2 DEF MemoryInv

\* A mapping is known by its base.
LEMMA OneOwner ==
  ASSUME MemoryInv, NEW m \in code_mappings
  PROVE  /\ m \in MP!Mapping /\ m.base \in Pages
         /\ \A k \in code_mappings : k.base = m.base => k = m
<1>1. m \in MP!Mapping /\ \A k \in code_mappings : k.base = m.base => k = m
  BY SpaceAssumed, MP!OneMapping DEF MemoryInv
<1> QED
  BY <1>1, SamePages

LEMMA MemoryAlloc ==
  ASSUME MemoryInv, NEW bytes \in Requests, Memory!v_code_alloc(bytes)
  PROVE  /\ MemoryInv'
         /\ \/ call'.ret = NULL /\ code_mappings' = code_mappings
            \/ \E m \in MP!Mapping :
                 /\ call'.ret = m.base /\ m.base # NULL
                 /\ code_mappings' = code_mappings \cup {m}
                 /\ \A k \in code_mappings :
                      MP!PagesOf(k) \cap MP!PagesOf(m) = {} /\ k.base # m.base
<1>1. MP!v_code_alloc(bytes)
  BY SameAlloc
<1>2. MP!Next
  BY <1>1 DEF MP!Next
<1>3. MP!NULL = NULL
  BY DEF MP!NULL, NULL
<1> QED
  BY <1>1, <1>2, <1>3, SpaceAssumed, MP!AllocEffect, MemoryStep DEF MemoryInv

LEMMA MemoryFlip ==
  ASSUME MemoryInv, NEW m \in code_mappings, NEW writable \in BOOLEAN,
         IF writable THEN Memory!v_code_make_writable(m.base) ELSE Memory!v_code_finalize(m.base)
  PROVE  /\ MemoryInv'
         /\ \/ call'.ret = -1 /\ code_mappings' = code_mappings
            \/ /\ call'.ret = 1
               /\ \E c \in MP!Mapping :
                    /\ c.base = m.base /\ c.npages = m.npages /\ c.writable = writable
                    /\ code_mappings' = (code_mappings \ {m}) \cup {c}
<1> DEFINE op == IF writable THEN "make_writable" ELSE "finalize"
<1>1. MP!Flip(op, m.base, writable)
  BY SameFlip DEF Memory!v_code_make_writable, Memory!v_code_finalize
<1>2. m.base \in MP!Pages
  BY OneOwner, SamePages
<1>3. MP!Next
  <2>1. CASE writable
    BY <1>1, <1>2, <2>1 DEF MP!Next, MP!v_code_make_writable
  <2>2. CASE ~writable
    BY <1>1, <1>2, <2>2 DEF MP!Next, MP!v_code_finalize
  <2> QED
    BY <2>1, <2>2
<1> HIDE DEF op
<1> QED
  BY <1>1, <1>3, SpaceAssumed, MP!FlipEffect, MemoryStep DEF MemoryInv

LEMMA MemoryFree ==
  ASSUME MemoryInv, NEW m \in code_mappings, Memory!v_code_free(m.base)
  PROVE  /\ MemoryInv'
         /\ \/ call'.ret = -1 /\ code_mappings' = code_mappings
            \/ call'.ret = 0 /\ code_mappings' = code_mappings \ {m}
<1>1. MP!v_code_free(m.base)
  BY SameFree
<1>2. MP!Next
  BY <1>1, OneOwner, SamePages DEF MP!Next
<1> QED
  BY <1>1, <1>2, SpaceAssumed, MP!FreeEffect, MemoryStep DEF MemoryInv

-----------------------------------------------------------------------------
(* The hash table's part.                                                  *)

LEMMA HashIs ==
  ASSUME NEW cp \in Pages
  PROVE  Hash(cp) \in Hashes
<1>1. cp * PageSize \in Nat
  BY MemoryAssumption, SamePages
<1> QED
  BY <1>1, HashAssumption DEF Hash, Hashes

\* A sequence with one more element in front.
LEMMA PrependIs ==
  ASSUME NEW S, NEW s \in Seq(S), NEW x \in S
  PROVE  /\ <<x>> \o s \in Seq(S)
         /\ ToSet(<<x>> \o s) = ToSet(s) \cup {x}
         /\ IsInjective(s) /\ x \notin ToSet(s) => IsInjective(<<x>> \o s)
<1> DEFINE r == <<x>> \o s
<1>1. /\ r \in Seq(S) /\ Len(r) = Len(s) + 1 /\ r[1] = x
      /\ \A i \in 1 .. Len(s) : r[i + 1] = s[i]
      /\ DOMAIN r = 1 .. Len(s) + 1 /\ DOMAIN s = 1 .. Len(s) /\ Len(s) \in Nat
  OBVIOUS
<1> HIDE DEF r
<1>2. \A j \in DOMAIN r : j # 1 => j - 1 \in DOMAIN s /\ r[j] = s[j - 1]
  BY <1>1
<1>3. \A i \in DOMAIN s : i + 1 \in DOMAIN r /\ r[i + 1] = s[i]
  BY <1>1
<1>4. ToSet(r) = ToSet(s) \cup {x}
  <2>1. ToSet(r) \subseteq ToSet(s) \cup {x}
    BY <1>1, <1>2 DEF ToSet
  <2>2. x \in ToSet(r)
    BY <1>1 DEF ToSet
  <2>3. ToSet(s) \subseteq ToSet(r)
    BY <1>3 DEF ToSet
  <2> QED
    BY <2>1, <2>2, <2>3
<1>5. ASSUME IsInjective(s), x \notin ToSet(s)
      PROVE  IsInjective(r)
  <2> SUFFICES ASSUME NEW a \in DOMAIN r, NEW b \in DOMAIN r, r[a] = r[b]
               PROVE  a = b
    BY DEF IsInjective
  <2>1. \A j \in DOMAIN r : j # 1 => r[j] # x
    BY <1>2, <1>5 DEF ToSet
  <2>2. a # 1 /\ b # 1 => a - 1 = b - 1
    BY <1>2, <1>5 DEF IsInjective
  <2> QED
    BY <1>1, <2>1, <2>2
<1> QED
  BY <1>1, <1>4, <1>5 DEF r

\* A sequence of distinct elements with one taken out.
LEMMA RemoveAtIs ==
  ASSUME NEW S, NEW s \in Seq(S), NEW i \in DOMAIN s, IsInjective(s)
  PROVE  /\ RemoveAt(s, i) \in Seq(S)
         /\ ToSet(RemoveAt(s, i)) = ToSet(s) \ {s[i]}
         /\ IsInjective(RemoveAt(s, i))
<1> DEFINE r == RemoveAt(s, i)
           From(j) == IF j < i THEN j ELSE j + 1
<1>1. Len(s) \in Nat /\ DOMAIN s = 1 .. Len(s) /\ i \in 1 .. Len(s)
  OBVIOUS
<1>2. /\ r \in Seq(S) /\ Len(r) = Len(s) - 1 /\ DOMAIN r = 1 .. Len(s) - 1
      /\ \A j \in 1 .. Len(s) - 1 : r[j] = s[From(j)]
  <2> DEFINE front == SubSeq(s, 1, i - 1)
             back == SubSeq(s, i + 1, Len(s))
  <2>1. front \in Seq(S) /\ Len(front) = i - 1 /\ \A j \in 1 .. i - 1 : front[j] = s[j]
    BY <1>1
  <2>2. /\ back \in Seq(S) /\ Len(back) = Len(s) - i
        /\ \A j \in 1 .. Len(s) - i : back[j] = s[i + j]
    BY <1>1
  <2>3. r = front \o back
    BY DEF RemoveAt
  <2> HIDE DEF front, back, r
  <2>4. r \in Seq(S) /\ Len(r) = Len(s) - 1 /\ DOMAIN r = 1 .. Len(s) - 1
    <3>0. front \in Seq(S) /\ back \in Seq(S)
      BY <2>1, <2>2
    <3>1. r \in Seq(S) /\ Len(r) = Len(front) + Len(back)
      BY <3>0, <2>3
    <3>2. Len(r) = Len(s) - 1
      BY <1>1, <2>1, <2>2, <3>1
    <3>3. DOMAIN r = 1 .. Len(r)
      BY <3>1
    <3> QED
      BY <3>1, <3>2, <3>3
  <2>5. ASSUME NEW j \in 1 .. Len(s) - 1
        PROVE  r[j] = s[From(j)]
    <3>1. CASE j < i
      BY <1>1, <2>1, <2>2, <2>3, <3>1
    <3>2. CASE ~(j < i)
      <4>1. r[j] = back[j - (i - 1)] /\ j - (i - 1) \in 1 .. Len(s) - i
        BY <1>1, <2>1, <2>2, <2>3, <3>2
      <4>2. i + (j - (i - 1)) = j + 1
        BY <1>1
      <4> QED
        BY <2>2, <3>2, <4>1, <4>2
    <3> QED
      BY <3>1, <3>2
  <2> QED
    BY <2>4, <2>5
<1> HIDE DEF r
<1>3. \A j \in DOMAIN r : From(j) \in DOMAIN s /\ From(j) # i /\ r[j] = s[From(j)]
  BY <1>1, <1>2
<1>4. \A k \in DOMAIN s : k # i => \E j \in DOMAIN r : From(j) = k
  <2> SUFFICES ASSUME NEW k \in DOMAIN s, k # i
               PROVE  \E j \in DOMAIN r : From(j) = k
    OBVIOUS
  <2>1. CASE k < i
    <3>1. k \in DOMAIN r /\ From(k) = k
      BY <1>1, <1>2, <2>1
    <3> QED
      BY <3>1
  <2>2. CASE k > i
    <3>1. k - 1 \in DOMAIN r /\ From(k - 1) = k
      BY <1>1, <1>2, <2>2
    <3> QED
      BY <3>1
  <2> QED
    BY <1>1, <2>1, <2>2
<1>5. \A a, b \in DOMAIN r : From(a) = From(b) => a = b
  <2> SUFFICES ASSUME NEW a \in 1 .. Len(s) - 1, NEW b \in 1 .. Len(s) - 1, From(a) = From(b)
               PROVE  a = b
    BY <1>2
  <2> QED
    BY <1>1
<1> HIDE DEF From
<1>6. ToSet(r) = ToSet(s) \ {s[i]}
  <2>1. ToSet(r) \subseteq ToSet(s) \ {s[i]}
    BY <1>3 DEF ToSet, IsInjective
  <2>2. ASSUME NEW k \in DOMAIN s, s[k] # s[i]
        PROVE  s[k] \in ToSet(r)
    <3>1. PICK j \in DOMAIN r : From(j) = k
      BY <1>4, <2>2
    <3>2. r[j] = s[k]
      BY <1>3, <3>1
    <3> QED
      BY <3>2 DEF ToSet
  <2>3. ToSet(s) \ {s[i]} \subseteq ToSet(r)
    BY <2>2 DEF ToSet
  <2> QED
    BY <2>1, <2>3
<1>7. IsInjective(r)
  BY <1>3, <1>5 DEF IsInjective
<1> QED
  BY <1>2, <1>6, <1>7 DEF r

\* Changing one chain to one with the addresses in E of that hash.
LEMMA ChainChanged ==
  ASSUME TableShape, NEW h \in Hashes, NEW chain \in Seq(Pages), IsInjective(chain),
         \A cp \in ToSet(chain) : Hash(cp) = h,
         buckets' = [buckets EXCEPT ![h] = chain]
  PROVE  /\ TableShape'
         /\ Entries' = {cp \in Entries : Hash(cp) # h} \cup ToSet(chain)
<1>1. \A g \in Hashes : buckets'[g] = IF g = h THEN chain ELSE buckets[g]
  BY DEF TableShape
<1>2. buckets' \in [Hashes -> Seq(Pages)]
  BY DEF TableShape
<1>3. TableShape'
  BY <1>1, <1>2 DEF TableShape
<1>4. Entries' = UNION {ToSet(buckets'[g]) : g \in Hashes}
  BY DEF Entries
<1>5. \A cp : cp \in Entries <=> \E g \in Hashes : cp \in ToSet(buckets[g])
  BY DEF Entries
<1>6. \A cp : cp \in Entries' <=> \E g \in Hashes : cp \in ToSet(buckets'[g])
  BY <1>4
<1>7. ASSUME NEW cp
      PROVE  cp \in Entries' <=> (cp \in Entries /\ Hash(cp) # h) \/ cp \in ToSet(chain)
  <2>1. ASSUME NEW g \in Hashes, cp \in ToSet(buckets[g])
        PROVE  Hash(cp) = g
    BY <2>1 DEF TableShape
  <2> QED
    BY <1>1, <1>5, <1>6, <2>1
<1> QED
  BY <1>3, <1>7

\* An address is found in its own chain.
LEMMA FoundIs ==
  ASSUME TableShape, NEW cp \in Pages
  PROVE  cp \in Entries <=> Found(cp) # {}
<1>1. cp \in Entries <=> \E g \in Hashes : cp \in ToSet(buckets[g])
  BY DEF Entries
<1>2. cp \in ToSet(buckets[Hash(cp)]) <=> Found(cp) # {}
  BY DEF ToSet, Found
<1>3. \A g \in Hashes : cp \in ToSet(buckets[g]) => g = Hash(cp)
  BY DEF TableShape
<1> QED
  BY <1>1, <1>2, <1>3, HashIs

\* _tc_addcode's new head.
LEMMA AddKeepsTable ==
  ASSUME TableShape, NEW cp \in Pages, cp \notin Entries,
         buckets' = [buckets EXCEPT ![Hash(cp)] = <<cp>> \o @]
  PROVE  TableShape' /\ Entries' = Entries \cup {cp}
<1> DEFINE h == Hash(cp)
           old == buckets[h]
           chain == <<cp>> \o old
<1>1. h \in Hashes /\ old \in Seq(Pages) /\ IsInjective(old)
  BY HashIs DEF TableShape
<1>2. cp \notin ToSet(old)
  BY <1>1 DEF Entries
<1>3. chain \in Seq(Pages) /\ ToSet(chain) = ToSet(old) \cup {cp} /\ IsInjective(chain)
  BY <1>1, <1>2, PrependIs
<1>4. buckets' = [buckets EXCEPT ![h] = chain]
  OBVIOUS
<1>5. \A x \in ToSet(old) : Hash(x) = h /\ x \in Entries
  BY <1>1 DEF TableShape, Entries
<1>6. \A x \in Entries : Hash(x) = h => x \in ToSet(old)
  BY DEF TableShape, Entries
<1> HIDE DEF chain, old
<1>7. \A x \in ToSet(chain) : Hash(x) = h
  BY <1>3, <1>5
<1>8. TableShape' /\ Entries' = {x \in Entries : Hash(x) # h} \cup ToSet(chain)
  <2> HIDE DEF h
  <2> QED
    BY <1>1, <1>3, <1>4, <1>7, ChainChanged
<1> QED
  BY <1>3, <1>5, <1>6, <1>8

\* _tc_decompile's unlinking takes one address out.
LEMMA UnlinkKeepsTable ==
  ASSUME TableShape, NEW cp \in Pages, Unlink(cp)
  PROVE  TableShape' /\ cp \in Entries /\ Entries' = Entries \ {cp}
<1> DEFINE h == Hash(cp)
           old == buckets[h]
<1>1. h \in Hashes /\ old \in Seq(Pages) /\ IsInjective(old)
  BY HashIs DEF TableShape
<1>2. PICK i \in DOMAIN old : old[i] = cp /\ buckets' = [buckets EXCEPT ![h] = RemoveAt(old, i)]
  BY DEF Unlink, Found
<1> DEFINE chain == RemoveAt(old, i)
<1>3. chain \in Seq(Pages) /\ ToSet(chain) = ToSet(old) \ {cp} /\ IsInjective(chain)
  BY <1>1, <1>2, RemoveAtIs
<1>4. \A x \in ToSet(old) : Hash(x) = h /\ x \in Entries
  BY <1>1 DEF TableShape, Entries
<1>5. \A x \in Entries : Hash(x) = h => x \in ToSet(old)
  BY DEF TableShape, Entries
<1>6. cp \in ToSet(old)
  BY <1>2 DEF ToSet
<1> HIDE DEF chain, old
<1>7. \A x \in ToSet(chain) : Hash(x) = h
  BY <1>3, <1>4
<1>8. TableShape' /\ Entries' = {x \in Entries : Hash(x) # h} \cup ToSet(chain)
  <2>1. buckets' = [buckets EXCEPT ![h] = chain]
    BY <1>2 DEF chain
  <2> HIDE DEF h
  <2> QED
    BY <1>1, <1>3, <1>7, <2>1, ChainChanged
<1> QED
  BY <1>3, <1>4, <1>5, <1>6, <1>8

-----------------------------------------------------------------------------
(* The steps.                                                              *)

LEMMA EntriesArePages ==
  ASSUME TableShape
  PROVE  Entries \subseteq Pages
  BY DEF TableShape, Entries, ToSet

LEMMA InitIInv == Init => IInv
<1> SUFFICES ASSUME Init PROVE IInv
  OBVIOUS
<1>1. code_mappings = {} /\ Memory!Init /\ buckets = [h \in Hashes |-> <<>>] /\ session = Idle
  BY DEF Init, Memory!Init
<1>2. MemoryInv
  <2>1. MP!Init
    BY <1>1 DEF Memory!Init, MP!Init, Memory!Pages, MP!Pages, Memory!NULL, MP!NULL
  <2>2. MP!IInv
    BY <2>1, SpaceAssumed, MP!InitIInv
  <2>3. MP!NoLeak
    BY <2>1 DEF MP!Init, MP!NoLeak
  <2> QED
    BY <2>2, <2>3 DEF MemoryInv
<1>3. \A h \in Hashes : buckets[h] = <<>> /\ ToSet(buckets[h]) = {} /\ IsInjective(buckets[h])
  BY <1>1 DEF ToSet, IsInjective
<1>4. Entries = {} /\ TableShape
  BY <1>1, <1>3 DEF Entries, TableShape
<1>5. SessionShape
  BY <1>1, <1>4 DEF SessionShape, Idle
<1> QED
  BY <1>1, <1>2, <1>4, <1>5 DEF IInv, WritableIsOpen, EntriesOwned, NothingOrphaned

\* Calls that change no entry, and the end of the process.
LEMMA SameIInv ==
  ASSUME IInv, MemoryInv', code_mappings' = code_mappings, UNCHANGED <<buckets, session, leaked>>
  PROVE  IInv'
<1>1. Entries' = Entries /\ TableShape'
  BY DEF IInv, TableShape, Entries
<1>2. \A cp : Owned(cp)' <=> Owned(cp)
  BY DEF Owned
<1> QED
  BY <1>1, <1>2 DEF IInv, SessionShape, WritableIsOpen, EntriesOwned, NothingOrphaned, Owned

LEMMA SameMemory ==
  ASSUME MemoryInv, UNCHANGED memory
  PROVE  MemoryInv'
<1>1. UNCHANGED MP!vars
  BY DEF memory, MP!vars
<1>2. MP!IInv'
  BY <1>1, SpaceAssumed, MP!NextIInv DEF MemoryInv
<1>3. MP!NoLeak'
  BY <1>1, SpaceAssumed, MP!NextNoLeak DEF MemoryInv
<1> QED
  BY <1>2, <1>3 DEF MemoryInv

LEMMA AllocateIInv ==
  ASSUME IInv, NEW bytes \in Requests, Allocate(bytes)
  PROVE  IInv'
<1>1. session = Idle /\ Memory!v_code_alloc(bytes) /\ MemoryInv
  BY DEF Allocate, IInv
<1>2. MemoryInv'
  BY <1>1, MemoryAlloc
<1>3. CASE call'.ret = NULL
  <2>1. code_mappings' = code_mappings
    BY <1>1, <1>3, MemoryAlloc
  <2> QED
    BY <1>2, <1>3, <2>1, SameIInv DEF Allocate, Fatal
<1>4. CASE call'.ret # NULL
  <2>1. PICK m \in MP!Mapping :
          /\ call'.ret = m.base /\ code_mappings' = code_mappings \cup {m}
          /\ \A k \in code_mappings : k.base # m.base
    BY <1>1, <1>4, MemoryAlloc
  <2>2. session' = [kind |-> "allocated", code |-> m.base] /\ UNCHANGED <<buckets, leaked>>
    BY <1>4, <2>1 DEF Allocate
  <2>3. /\ session'.kind = "allocated" /\ session'.code = m.base /\ m.base \in Pages
        /\ session.kind = "idle" /\ session.code = NULL
    BY <1>1, <2>2, SamePages DEF Idle
  <2>4. Entries' = Entries /\ TableShape'
    BY <2>2 DEF IInv, TableShape, Entries
  <2>5. \A cp : Owned(cp)' <=> Owned(cp) \/ cp = m.base
    BY <2>1 DEF Owned
  <2>6. m.base \notin Entries
    BY <2>1 DEF IInv, EntriesOwned, Owned
  <2>7. SessionShape'
    BY <2>2, <2>3, <2>4, <2>5, <2>6 DEF SessionShape
  <2>8. WritableIsOpen'
    BY <2>1, <2>3 DEF IInv, WritableIsOpen
  <2>9. EntriesOwned'
    BY <2>4, <2>5 DEF IInv, EntriesOwned
  <2>10. \A k \in code_mappings : k.base # NULL
    BY <1>1, OneOwner, SamePages
  <2>11. NothingOrphaned'
    BY <2>1, <2>2, <2>3, <2>4, <2>10 DEF IInv, NothingOrphaned
  <2> QED
    BY <1>2, <2>4, <2>7, <2>8, <2>9, <2>11 DEF IInv
<1> QED
  BY <1>3, <1>4

\* An entry whose bit is set or cleared.
LEMMA FlipKeeps ==
  ASSUME MemoryInv, NEW m \in code_mappings, NEW c, c.base = m.base,
         code_mappings' = (code_mappings \ {m}) \cup {c}
  PROVE  /\ \A cp : Owned(cp)' <=> Owned(cp)
         /\ \A k \in code_mappings' : \E j \in code_mappings : j.base = k.base
         /\ \A k \in code_mappings' : k.writable =>
              (k \in code_mappings /\ k.base # m.base) \/ (k.base = m.base /\ c.writable)
<1>1. \A k \in code_mappings \ {m} : k.base # m.base
  BY OneOwner
<1> QED
  BY <1>1 DEF Owned

\* A call that sets or clears the bit of the session's block, when it does not
\* fail: the session it goes on with is `next'.
LEMMA FlippedIInv ==
  ASSUME IInv, MemoryInv', NEW m \in code_mappings, NEW c, c.base = m.base,
         code_mappings' = (code_mappings \ {m}) \cup {c},
         UNCHANGED <<buckets, leaked>>,
         session.kind = "idle" \/ session.code = m.base,
         session' = Idle \/ session' = [kind |-> session'.kind, code |-> m.base],
         session'.kind = "idle" => session' = Idle /\ m.base \in Entries,
         session'.kind # "idle" => session'.code = m.base,
         session'.kind \in {"idle", "emitting", "finished", "patching"},
         session'.kind = "patching" <=> m.base \in Entries /\ session'.kind # "idle",
         c.writable <=> session'.kind \in {"emitting", "patching"}
  PROVE  IInv'
<1>1. /\ \A cp : Owned(cp)' <=> Owned(cp)
      /\ \A k \in code_mappings' : \E j \in code_mappings : j.base = k.base
      /\ \A k \in code_mappings' : k.writable =>
           (k \in code_mappings /\ k.base # m.base) \/ (k.base = m.base /\ c.writable)
  BY FlipKeeps DEF IInv
<1>2. Entries' = Entries /\ TableShape'
  BY DEF IInv, TableShape, Entries
<1>3. Owned(m.base) /\ m.base \in Pages
  BY OneOwner DEF IInv, Owned
<1>4. NULL \notin Entries
  BY EntriesArePages, SamePages DEF IInv
<1>5. SessionShape'
  BY <1>1, <1>2, <1>3, <1>4 DEF SessionShape, Idle
<1>6. WritableIsOpen'
  BY <1>1 DEF IInv, WritableIsOpen
<1>7. EntriesOwned'
  BY <1>1, <1>2 DEF IInv, EntriesOwned
<1>8. NothingOrphaned'
  <2> SUFFICES ASSUME NEW k \in code_mappings'
               PROVE  k.base \in Entries \cup leaked \cup {session'.code}
    BY <1>2 DEF NothingOrphaned
  <2>1. PICK j \in code_mappings : j.base = k.base
    BY <1>1
  <2>2. j.base \in Entries \cup leaked \cup {session.code} /\ j.base # NULL
    BY <2>1, OneOwner, SamePages DEF IInv, NothingOrphaned
  <2>3. session.kind = "idle" => session.code = NULL
    BY DEF IInv, SessionShape, Idle
  <2>4. m.base \in Entries \cup {session'.code}
    OBVIOUS
  <2> QED
    BY <2>1, <2>2, <2>3, <2>4
<1> QED
  BY <1>2, <1>5, <1>6, <1>7, <1>8 DEF IInv

\* The mapping of the session's block.
LEMMA SessionMapping ==
  ASSUME IInv, session.kind # "idle"
  PROVE  \E m \in code_mappings : m.base = session.code
  BY DEF IInv, SessionShape, Owned

LEMMA LambdaIInv ==
  ASSUME IInv, v_lambda
  PROVE  IInv'
<1> DEFINE next == [session EXCEPT !.kind = "emitting"]
<1>1. session.kind = "allocated" /\ Memory!v_code_make_writable(session.code) /\ OrFatal(next)
  BY DEF v_lambda
<1>2. PICK m \in code_mappings : m.base = session.code
  BY <1>1, SessionMapping
<1>3. /\ MemoryInv'
      /\ \/ call'.ret = -1 /\ code_mappings' = code_mappings
         \/ /\ call'.ret = 1
            /\ \E c \in MP!Mapping :
                 /\ c.base = m.base /\ c.npages = m.npages /\ c.writable = TRUE
                 /\ code_mappings' = (code_mappings \ {m}) \cup {c}
  BY <1>1, <1>2, MemoryFlip DEF IInv
<1>4. CASE call'.ret = -1
  BY <1>1, <1>3, <1>4, SameIInv DEF OrFatal, Fatal
<1>5. CASE call'.ret = 1
  <2>0. PICK c \in MP!Mapping :
          /\ c.base = m.base /\ c.npages = m.npages /\ c.writable = TRUE
          /\ code_mappings' = (code_mappings \ {m}) \cup {c}
    BY <1>3, <1>5
  <2>1. session' = next /\ UNCHANGED <<buckets, leaked>>
    BY <1>1, <1>5 DEF OrFatal
  <2>2. session \in [kind : {"idle", "allocated", "emitting", "finished", "patching"},
                     code : Pages \cup {NULL}]
    BY DEF IInv, SessionShape
  <2>3. session' = [kind |-> "emitting", code |-> m.base]
    BY <1>2, <2>1, <2>2
  <2>4. session'.kind = "emitting" /\ session'.code = m.base
    BY <2>3
  <2>5. m.base \notin Entries
    BY <1>1, <1>2 DEF IInv, SessionShape
  <2> QED
    BY <1>2, <1>3, <2>0, <2>1, <2>3, <2>4, <2>5, FlippedIInv
<1> QED
  BY <1>3, <1>4, <1>5

LEMMA EndIInv ==
  ASSUME IInv, v_end
  PROVE  IInv'
<1> DEFINE next == [session EXCEPT !.kind = "finished"]
<1>1. session.kind = "emitting" /\ Memory!v_code_finalize(session.code) /\ OrFatal(next)
  BY DEF v_end
<1>2. PICK m \in code_mappings : m.base = session.code
  BY <1>1, SessionMapping
<1>3. /\ MemoryInv'
      /\ \/ call'.ret = -1 /\ code_mappings' = code_mappings
         \/ /\ call'.ret = 1
            /\ \E c \in MP!Mapping :
                 /\ c.base = m.base /\ c.npages = m.npages /\ c.writable = FALSE
                 /\ code_mappings' = (code_mappings \ {m}) \cup {c}
  BY <1>1, <1>2, MemoryFlip DEF IInv
<1>4. CASE call'.ret = -1
  BY <1>1, <1>3, <1>4, SameIInv DEF OrFatal, Fatal
<1>5. CASE call'.ret = 1
  <2>0. PICK c \in MP!Mapping :
          /\ c.base = m.base /\ c.npages = m.npages /\ c.writable = FALSE
          /\ code_mappings' = (code_mappings \ {m}) \cup {c}
    BY <1>3, <1>5
  <2>1. session' = next /\ UNCHANGED <<buckets, leaked>>
    BY <1>1, <1>5 DEF OrFatal
  <2>2. session \in [kind : {"idle", "allocated", "emitting", "finished", "patching"},
                     code : Pages \cup {NULL}]
    BY DEF IInv, SessionShape
  <2>3. session' = [kind |-> "finished", code |-> m.base]
    BY <1>2, <2>1, <2>2
  <2>4. session'.kind = "finished" /\ session'.code = m.base
    BY <2>3
  <2>5. m.base \notin Entries
    BY <1>1, <1>2 DEF IInv, SessionShape
  <2> QED
    BY <1>2, <1>3, <2>0, <2>1, <2>3, <2>4, <2>5, FlippedIInv
<1> QED
  BY <1>3, <1>4, <1>5

LEMMA BeginIncrementalIInv ==
  ASSUME IInv, NEW cp \in Pages, v_begin_incremental(cp)
  PROVE  IInv'
<1> DEFINE next == [kind |-> "patching", code |-> cp]
<1>1. /\ session = Idle /\ cp \in Entries
      /\ Memory!v_code_make_writable(cp) /\ OrFatal(next)
  BY DEF v_begin_incremental
<1>2. PICK m \in code_mappings : m.base = cp
  BY <1>1 DEF IInv, EntriesOwned, Owned
<1>3. /\ MemoryInv'
      /\ \/ call'.ret = -1 /\ code_mappings' = code_mappings
         \/ /\ call'.ret = 1
            /\ \E c \in MP!Mapping :
                 /\ c.base = m.base /\ c.npages = m.npages /\ c.writable = TRUE
                 /\ code_mappings' = (code_mappings \ {m}) \cup {c}
  BY <1>1, <1>2, MemoryFlip DEF IInv
<1>4. CASE call'.ret = -1
  BY <1>1, <1>3, <1>4, SameIInv DEF OrFatal, Fatal
<1>5. CASE call'.ret = 1
  <2>0. PICK c \in MP!Mapping :
          /\ c.base = m.base /\ c.npages = m.npages /\ c.writable = TRUE
          /\ code_mappings' = (code_mappings \ {m}) \cup {c}
    BY <1>3, <1>5
  <2>1. session' = next /\ UNCHANGED <<buckets, leaked>>
    BY <1>1, <1>5 DEF OrFatal
  <2>2. session'.kind = "patching" /\ session'.code = m.base /\ session.kind = "idle"
    BY <1>1, <1>2, <2>1 DEF Idle
  <2> QED
    BY <1>1, <1>2, <1>3, <2>0, <2>1, <2>2, FlippedIInv
<1> QED
  BY <1>3, <1>4, <1>5

LEMMA EndIncrementalIInv ==
  ASSUME IInv, v_end_incremental
  PROVE  IInv'
<1>1. session.kind = "patching" /\ Memory!v_code_finalize(session.code) /\ OrFatal(Idle)
  BY DEF v_end_incremental
<1>2. PICK m \in code_mappings : m.base = session.code
  BY <1>1, SessionMapping
<1>3. /\ MemoryInv'
      /\ \/ call'.ret = -1 /\ code_mappings' = code_mappings
         \/ /\ call'.ret = 1
            /\ \E c \in MP!Mapping :
                 /\ c.base = m.base /\ c.npages = m.npages /\ c.writable = FALSE
                 /\ code_mappings' = (code_mappings \ {m}) \cup {c}
  BY <1>1, <1>2, MemoryFlip DEF IInv
<1>4. CASE call'.ret = -1
  BY <1>1, <1>3, <1>4, SameIInv DEF OrFatal, Fatal
<1>5. CASE call'.ret = 1
  <2>0. PICK c \in MP!Mapping :
          /\ c.base = m.base /\ c.npages = m.npages /\ c.writable = FALSE
          /\ code_mappings' = (code_mappings \ {m}) \cup {c}
    BY <1>3, <1>5
  <2>1. session' = Idle /\ UNCHANGED <<buckets, leaked>>
    BY <1>1, <1>5 DEF OrFatal
  <2>2. session'.kind = "idle" /\ m.base \in Entries
    BY <1>1, <1>2, <2>1 DEF Idle, IInv, SessionShape
  <2> QED
    BY <1>2, <1>3, <2>0, <2>1, <2>2, FlippedIInv
<1> QED
  BY <1>3, <1>4, <1>5

\* The finished function enters the table.
LEMMA AddCodeIInv ==
  ASSUME IInv, _tc_addcode
  PROVE  IInv'
<1>1. session.kind = "finished" /\ UNCHANGED memory
  BY DEF _tc_addcode
<1>2. MemoryInv' /\ code_mappings' = code_mappings
  BY <1>1, SameMemory DEF IInv, memory
<1>3. CASE Fatal
  BY <1>2, <1>3, SameIInv DEF Fatal
<1>4. CASE ~Fatal
  <2>1. /\ buckets' = [buckets EXCEPT ![Hash(session.code)] = <<session.code>> \o @]
        /\ session' = Idle /\ leaked' = leaked
    BY <1>4 DEF _tc_addcode
  <2>2. session.code \in Pages /\ session.code \notin Entries /\ Owned(session.code)
    BY <1>1 DEF IInv, SessionShape
  <2>3. TableShape' /\ Entries' = Entries \cup {session.code}
    BY <2>1, <2>2, AddKeepsTable DEF IInv
  <2>4. \A cp : Owned(cp)' <=> Owned(cp)
    BY <1>2 DEF Owned
  <2>5. NULL \notin Entries'
    BY <2>2, <2>3, EntriesArePages, SamePages DEF IInv
  <2>6. session'.kind = "idle" /\ session'.code = NULL
    BY <2>1 DEF Idle
  <2>7. SessionShape'
    BY <2>1, <2>5, <2>6 DEF SessionShape, Idle
  <2>8. WritableIsOpen'
    BY <1>1, <1>2 DEF IInv, WritableIsOpen
  <2>9. EntriesOwned'
    BY <2>2, <2>3, <2>4 DEF IInv, EntriesOwned
  <2>10. NothingOrphaned'
    BY <1>2, <2>1, <2>3 DEF IInv, NothingOrphaned
  <2> QED
    BY <1>2, <2>3, <2>7, <2>8, <2>9, <2>10 DEF IInv
<1> QED
  BY <1>3, <1>4

\* A block is given up: the table no longer has it, and the session is over.
LEMMA ReleasedIInv ==
  ASSUME IInv, TableShape', NEW m \in code_mappings, Release(m.base),
         Entries' = Entries \ {m.base}, session' = Idle,
         session = Idle \/ (session.code = m.base /\ session.kind = "finished")
  PROVE  IInv'
<1>1. Memory!v_code_free(m.base) /\ leaked' = IF call'.ret = 0 THEN leaked ELSE leaked \cup {m.base}
  BY DEF Release
<1>2. /\ MemoryInv'
      /\ \/ call'.ret = -1 /\ code_mappings' = code_mappings /\ leaked' = leaked \cup {m.base}
         \/ call'.ret = 0 /\ code_mappings' = code_mappings \ {m} /\ leaked' = leaked
  BY <1>1, MemoryFree DEF IInv
<1>3. \A k \in code_mappings : k.base # NULL /\ (k.base = m.base => k = m)
  BY OneOwner, SamePages DEF IInv
<1>4. NULL \notin Entries'
  BY EntriesArePages, SamePages DEF IInv
<1>5. session'.kind = "idle" /\ session'.code = NULL
  BY DEF Idle
<1>6. SessionShape'
  BY <1>4, <1>5 DEF SessionShape, Idle
<1>7. \A k \in code_mappings : ~k.writable
  BY DEF IInv, WritableIsOpen, Idle
<1>8. WritableIsOpen'
  BY <1>2, <1>7 DEF WritableIsOpen
<1>9. EntriesOwned'
  BY <1>2, <1>3 DEF IInv, EntriesOwned, Owned
<1>10. NothingOrphaned'
  <2> SUFFICES ASSUME NEW k \in code_mappings'
               PROVE  k.base \in Entries' \cup leaked' \cup {session'.code}
    BY DEF NothingOrphaned
  <2>1. k \in code_mappings /\ k.base \in Entries \cup leaked \cup {session.code}
    BY <1>2 DEF IInv, NothingOrphaned
  <2>2. CASE k = m
    BY <1>2, <2>2
  <2>3. CASE k # m
    BY <1>2, <1>3, <2>1, <2>3 DEF Idle
  <2> QED
    BY <2>2, <2>3
<1> QED
  BY <1>2, <1>6, <1>8, <1>9, <1>10 DEF IInv

LEMMA EarlyQuitIInv ==
  ASSUME IInv, EarlyQuit
  PROVE  IInv'
<1>1. session.kind = "finished" /\ Release(session.code) /\ session' = Idle /\ buckets' = buckets
  BY DEF EarlyQuit
<1>2. PICK m \in code_mappings : m.base = session.code
  BY <1>1, SessionMapping
<1>3. Entries' = Entries /\ TableShape' /\ m.base \notin Entries
  BY <1>1, <1>2 DEF IInv, TableShape, Entries, SessionShape
<1> QED
  BY <1>1, <1>2, <1>3, ReleasedIInv

LEMMA DecompileIInv ==
  ASSUME IInv, NEW cp \in Pages, _tc_decompile(cp)
  PROVE  IInv'
<1>1. session = Idle
  BY DEF _tc_decompile
<1>2. CASE Found(cp) = {}
  <2>1. Fatal /\ UNCHANGED memory
    BY <1>2 DEF _tc_decompile
  <2>2. MemoryInv' /\ code_mappings' = code_mappings
    BY <2>1, SameMemory DEF IInv, memory
  <2> QED
    BY <2>1, <2>2, SameIInv DEF Fatal
<1>3. CASE Found(cp) # {}
  <2>1. Unlink(cp) /\ Release(cp) /\ session' = session
    BY <1>3 DEF _tc_decompile
  <2>2. TableShape' /\ cp \in Entries /\ Entries' = Entries \ {cp}
    BY <2>1, UnlinkKeepsTable DEF IInv
  <2>3. PICK m \in code_mappings : m.base = cp
    BY <2>2 DEF IInv, EntriesOwned, Owned
  <2> QED
    BY <1>1, <2>1, <2>2, <2>3, ReleasedIInv
<1> QED
  BY <1>2, <1>3

LEMMA UnresolvedIInv ==
  ASSUME IInv, UnresolvedLabel
  PROVE  IInv'
<1>1. Fatal /\ UNCHANGED memory
  BY DEF UnresolvedLabel
<1>2. MemoryInv' /\ code_mappings' = code_mappings
  BY <1>1, SameMemory DEF IInv, memory
<1> QED
  BY <1>1, <1>2, SameIInv DEF Fatal

-----------------------------------------------------------------------------
(* The theorems.                                                           *)

LEMMA StepIInv ==
  ASSUME IInv, [Next]_vars
  PROVE  IInv'
<1>1. CASE UNCHANGED vars
  <2>1. UNCHANGED memory /\ UNCHANGED <<buckets, session, leaked>>
    BY <1>1 DEF vars, memory
  <2>2. MemoryInv' /\ code_mappings' = code_mappings
    BY <2>1, SameMemory DEF IInv, memory
  <2> QED
    BY <2>1, <2>2, SameIInv
<1>2. CASE Step
  <2>1. CASE \E bytes \in Requests : Allocate(bytes)
    BY <2>1, AllocateIInv
  <2>2. CASE v_lambda
    BY <2>2, LambdaIInv
  <2>3. CASE UnresolvedLabel
    BY <2>3, UnresolvedIInv
  <2>4. CASE v_end
    BY <2>4, EndIInv
  <2>5. CASE _tc_addcode
    BY <2>5, AddCodeIInv
  <2>6. CASE EarlyQuit
    BY <2>6, EarlyQuitIInv
  <2>7. CASE \E cp \in Pages : v_begin_incremental(cp)
    BY <2>7, BeginIncrementalIInv
  <2>8. CASE v_end_incremental
    BY <2>8, EndIncrementalIInv
  <2>9. CASE \E cp \in Pages : _tc_decompile(cp)
    BY <2>9, DecompileIInv
  <2> QED
    BY <1>2, <2>1, <2>2, <2>3, <2>4, <2>5, <2>6, <2>7, <2>8, <2>9 DEF Step
<1> QED
  BY <1>1, <1>2 DEF Next

\* The manager's invariants, the shape of the table and of the session, and who
\* owns which mapping, for every sequence of compilations, patches and decompiles
\* in which any system call may fail.
THEOREM TableInvariant == Spec => []IInv
<1>1. Init => IInv
  BY InitIInv
<1>2. IInv /\ [Next]_vars => IInv'
  BY StepIInv
<1> QED
  BY <1>1, <1>2, PTL DEF Spec

\* The start of every live function is the start of one live mapping, and its
\* address is listed once: decompile() frees the function it was given and no
\* other (tickc-rts.c:_tc_decompile).
THEOREM EntriesOwnTheirBlocks == Spec => []EntriesOwnBlocks
<1>1. IInv => EntriesOwnBlocks
  <2> SUFFICES ASSUME IInv PROVE EntriesOwnBlocks
    OBVIOUS
  <2>1. \A h \in Hashes : IsInjective(buckets[h])
    BY DEF IInv, TableShape
  <2>2. ASSUME NEW cp \in Entries
        PROVE  Cardinality(MappingOf(cp)) = 1
    <3>1. PICK m \in code_mappings : m.base = cp
      BY DEF IInv, EntriesOwned, Owned
    <3>2. MappingOf(cp) = {m}
      BY <3>1, OneOwner DEF IInv, MappingOf
    <3> QED
      BY <3>2, FS_Singleton
  <2>3. session.kind # "patching" => session.code \notin Entries
    BY DEF IInv, SessionShape
  <2> QED
    BY <2>1, <2>2, <2>3 DEF EntriesOwnBlocks
<1> QED
  BY <1>1, TableInvariant, PTL

\* No page of a live function is writable unless that function is being patched,
\* and none of the manager's pages is while no code is generated.
THEOREM FunctionsAreSealed == Spec => []CodeIsSealed
<1>1. IInv => CodeIsSealed
  <2> SUFFICES ASSUME IInv PROVE CodeIsSealed
    OBVIOUS
  <2>1. \A m \in code_mappings : \A p \in MP!PagesOf(m) : prot[p] = IF m.writable THEN "rw" ELSE "rx"
    BY DEF IInv, MemoryInv, MP!IInv, MP!TableMatchesKernel, MP!Protection
  <2>2. ASSUME NEW cp \in Entries, NEW m \in MappingOf(cp), NEW p \in Memory!PagesOf(m)
        PROVE  prot[p] = "rx" \/ (session.kind = "patching" /\ session.code = cp)
    <3>1. m \in code_mappings /\ m.base = cp /\ p \in MP!PagesOf(m)
      BY SamePages DEF MappingOf
    <3>2. m.writable => session.code = cp /\ session.kind = "patching"
      BY <3>1 DEF IInv, WritableIsOpen, SessionShape
    <3> QED
      BY <2>1, <3>1, <3>2
  <2>3. ASSUME session = Idle, NEW p \in Pages \ lost
        PROVE  prot[p] # "rw"
    <3>1. \A m \in code_mappings : ~m.writable
      BY <2>3 DEF IInv, WritableIsOpen, Idle
    <3>2. prot[p] = "rw" => \E m \in code_mappings : p \in MP!PagesOf(m)
      BY SamePages DEF IInv, MemoryInv, MP!NoLeak
    <3> QED
      BY <2>1, <3>1, <3>2
  <2> QED
    BY <2>2, <2>3 DEF CodeIsSealed
<1> QED
  BY <1>1, TableInvariant, PTL

\* Whatever fails, every mapping still has someone who will free it, or is one
\* that v_code_free was tried on and failed.
THEOREM MappingsHaveOwners == Spec => []NothingOrphaned
<1>1. IInv => NothingOrphaned
  BY DEF IInv
<1> QED
  BY <1>1, TableInvariant, PTL

-----------------------------------------------------------------------------
(* The table and the manager implement FunctionTable.                      *)

Code == [cp \in Entries |-> Memory!PagesOf(CHOOSE m \in code_mappings : m.base = cp)]

\* A listed function's pages are those of the mapping at its address.
LEMMA CodeIs ==
  ASSUME MemoryInv, NEW m \in code_mappings, m.base \in Entries
  PROVE  Code[m.base] = MP!PagesOf(m)
<1> DEFINE k == CHOOSE j \in code_mappings : j.base = m.base
<1>1. k \in code_mappings /\ k.base = m.base
  OBVIOUS
<1>2. k = m
  BY <1>1, OneOwner
<1> QED
  BY <1>2, SamePages DEF Code

LEMMA CodeOfEach ==
  \A k \in code_mappings : MemoryInv /\ k.base \in Entries => Code[k.base] = MP!PagesOf(k)
  BY CodeIs

\* No two mappings start at the same address.
LEMMA BasesDiffer == MemoryInv => \A j, k \in code_mappings : j.base = k.base => j = k
  BY OneOwner

\* A function whose mapping keeps its place keeps its pages.
LEMMA CodeKept ==
  ASSUME IInv, IInv', NEW cp \in Entries, cp \in Entries',
         \A m \in code_mappings : m.base = cp =>
           \E c \in code_mappings' : c.base = m.base /\ c.npages = m.npages
  PROVE  Code'[cp] = Code[cp]
<1>1. PICK m \in code_mappings : m.base = cp
  BY DEF IInv, EntriesOwned, Owned
<1>2. PICK c \in code_mappings' : c.base = cp /\ c.npages = m.npages
  BY <1>1
<1>3. MP!PagesOf(c) = MP!PagesOf(m)
  BY <1>1, <1>2 DEF MP!PagesOf
<1>4. Code[cp] = MP!PagesOf(m)
  BY <1>1, CodeIs DEF IInv
<1>5. \A j \in code_mappings' : j.base = cp => j = c
  <2>1. (MemoryInv => \A j, k \in code_mappings : j.base = k.base => j = k)'
    BY BasesDiffer, PTL
  <2> QED
    BY <1>2, <2>1 DEF IInv
<1>6. Code'[cp] = MP!PagesOf(c)
  <2>1. Code'[cp] = Memory!PagesOf(CHOOSE j \in code_mappings' : j.base = cp)
    BY DEF Code, Memory!PagesOf
  <2>2. (CHOOSE j \in code_mappings' : j.base = cp) = c
    BY <1>2, <1>5
  <2> QED
    BY <2>1, <2>2, SamePages
<1> QED
  BY <1>3, <1>4, <1>6

\* Calls that neither publish nor give up a function change no function's pages.
LEMMA CodeStays ==
  ASSUME IInv, IInv', Entries' = Entries,
         \A m \in code_mappings : m.base \in Entries =>
           \E c \in code_mappings' : c.base = m.base /\ c.npages = m.npages
  PROVE  Code' = Code
<1>1. \A cp \in Entries : Code'[cp] = Code[cp]
  BY CodeKept
<1>2. Code = [cp \in Entries |-> Code[cp]] /\ Code' = [cp \in Entries |-> Code'[cp]]
  BY DEF Code
<1> QED
  BY <1>1, <1>2

\* A session's call of the manager on its own block, or of v_begin_incremental on
\* a function's, leaves every mapping where it was.
LEMMA FlipStays ==
  ASSUME IInv, IInv', NEW m \in code_mappings, NEW w \in BOOLEAN, buckets' = buckets,
         IF w THEN Memory!v_code_make_writable(m.base) ELSE Memory!v_code_finalize(m.base)
  PROVE  Code' = Code
<1>1. Entries' = Entries
  BY DEF Entries
<1>2. \A k \in code_mappings : \E c \in code_mappings' : c.base = k.base /\ c.npages = k.npages
  <2>1. CASE code_mappings' = code_mappings
    BY <2>1
  <2>2. CASE code_mappings' # code_mappings
    <3>1. PICK c \in MP!Mapping :
            /\ c.base = m.base /\ c.npages = m.npages
            /\ code_mappings' = (code_mappings \ {m}) \cup {c}
      BY <2>2, MemoryFlip DEF IInv
    <3> QED
      BY <3>1
  <2> QED
    BY <2>1, <2>2
<1> QED
  BY <1>1, <1>2, CodeStays

LEMMA SameStays ==
  ASSUME IInv, IInv', buckets' = buckets, code_mappings' = code_mappings
  PROVE  Code' = Code
<1>1. Entries' = Entries
  BY DEF Entries
<1> QED
  BY <1>1, CodeStays

LEMMA AllocateStays ==
  ASSUME IInv, IInv', NEW bytes \in Requests, Allocate(bytes)
  PROVE  Code' = Code
<1>1. buckets' = buckets
  BY DEF Allocate, Fatal
<1>2. Memory!v_code_alloc(bytes) /\ MemoryInv
  BY DEF Allocate, IInv
<1>3. code_mappings \subseteq code_mappings'
  BY <1>2, MemoryAlloc
<1>4. Entries' = Entries
  BY <1>1 DEF Entries
<1> QED
  BY <1>3, <1>4, CodeStays

LEMMA EarlyQuitStays ==
  ASSUME IInv, IInv', EarlyQuit
  PROVE  Code' = Code
<1>1. session.kind = "finished" /\ Memory!v_code_free(session.code) /\ buckets' = buckets
  BY DEF EarlyQuit, Release
<1>2. PICK m \in code_mappings : m.base = session.code
  BY <1>1, SessionMapping
<1>3. code_mappings' = code_mappings \/ code_mappings' = code_mappings \ {m}
  BY <1>1, <1>2, MemoryFree DEF IInv
<1>4. Entries' = Entries /\ m.base \notin Entries
  BY <1>1, <1>2 DEF Entries, IInv, SessionShape
<1> QED
  BY <1>3, <1>4, CodeStays

\* Publishing adds one function, with pages nobody else has.
LEMMA AddCodePublishes ==
  ASSUME IInv, IInv', _tc_addcode
  PROVE  Code' = Code \/ \E a \in Pages : \E last \in Pages :
           /\ a \in a .. last
           /\ \A b \in DOMAIN Code : Code[b] \cap (a .. last) = {}
           /\ Code' = [b \in DOMAIN Code \cup {a} |-> IF b = a THEN a .. last ELSE Code[b]]
<1> DEFINE a == session.code
<1>1. session.kind = "finished" /\ code_mappings' = code_mappings
  BY DEF _tc_addcode, memory
<1>2. a \in Pages /\ a \notin Entries
  BY <1>1 DEF IInv, SessionShape
<1>3. CASE Fatal
  BY <1>1, <1>3, SameStays DEF Fatal
<1>4. CASE ~Fatal
  <2>1. Entries' = Entries \cup {a}
    <3>1. buckets' = [buckets EXCEPT ![Hash(a)] = <<a>> \o @]
      BY <1>4 DEF _tc_addcode
    <3> HIDE DEF a
    <3> QED
      BY <1>2, <3>1, AddKeepsTable DEF IInv
  <2>2. PICK m \in code_mappings : m.base = a
    BY <1>1, SessionMapping
  <2> DEFINE last == m.base + m.npages - 1
  <2>3. last \in Pages /\ a \in a .. last /\ MP!PagesOf(m) = a .. last
    <3>1. m \in MP!Mapping /\ m.base + m.npages <= NumPages
      BY OneOwner DEF IInv, MemoryInv, MP!IInv, MP!TypeOK
    <3>2. m.base \in Nat /\ m.npages \in Nat \ {0} /\ NumPages \in Nat
      BY <3>1, SamePages, MemoryAssumption
    <3> QED
      BY <2>2, <3>1, <3>2, SamePages DEF MP!PagesOf
  <2> HIDE DEF a, last
  <2>4. \A b \in Entries : Code'[b] = Code[b]
    BY <1>1, <2>1, CodeKept
  <2>5. Code'[a] = a .. last
    <3>1. (\A k \in code_mappings : MemoryInv /\ k.base \in Entries => Code[k.base] = MP!PagesOf(k))'
      BY CodeOfEach, PTL
    <3>2. m \in code_mappings' /\ m.base \in Entries'
      BY <1>1, <2>1, <2>2
    <3>3. Code'[m.base] = MP!PagesOf(m)
      BY <3>1, <3>2 DEF IInv
    <3> QED
      BY <2>2, <2>3, <3>3
  <2>6. \A b \in Entries : Code[b] \cap (a .. last) = {}
    <3> SUFFICES ASSUME NEW b \in Entries PROVE Code[b] \cap (a .. last) = {}
      OBVIOUS
    <3>1. PICK k \in code_mappings : k.base = b
      BY DEF IInv, EntriesOwned, Owned
    <3>2. Code[b] = MP!PagesOf(k)
      BY <3>1, CodeIs DEF IInv
    <3>3. k # m
      BY <1>2, <2>2, <3>1
    <3>4. MP!PagesOf(k) \cap MP!PagesOf(m) = {}
      BY <3>3 DEF IInv, MemoryInv, MP!IInv, MP!NoOverlap
    <3> QED
      BY <2>3, <3>2, <3>4
  <2>7. DOMAIN Code = Entries /\ Code' = [b \in Entries \cup {a} |-> Code'[b]]
    BY <2>1 DEF Code
  <2>8. Code' = [b \in DOMAIN Code \cup {a} |-> IF b = a THEN a .. last ELSE Code[b]]
    BY <2>4, <2>5, <2>7
  <2> QED
    BY <1>2, <2>3, <2>6, <2>7, <2>8
<1> QED
  BY <1>3, <1>4

\* Decompiling gives one function up and keeps the others' pages.
LEMMA DecompileRetires ==
  ASSUME IInv, IInv', NEW cp \in Pages, _tc_decompile(cp)
  PROVE  Code' = Code \/ (cp \in DOMAIN Code /\ Code' = [b \in DOMAIN Code \ {cp} |-> Code[b]])
<1>1. CASE Found(cp) = {}
  BY <1>1, SameStays DEF _tc_decompile, Fatal, memory
<1>2. CASE Found(cp) # {}
  <2>1. Unlink(cp) /\ Memory!v_code_free(cp)
    BY <1>2 DEF _tc_decompile, Release
  <2>2. cp \in Entries /\ Entries' = Entries \ {cp}
    BY <2>1, UnlinkKeepsTable DEF IInv
  <2>3. PICK m \in code_mappings : m.base = cp
    BY <2>2 DEF IInv, EntriesOwned, Owned
  <2>4. code_mappings' = code_mappings \/ code_mappings' = code_mappings \ {m}
    BY <2>1, <2>3, MemoryFree DEF IInv
  <2>5. \A b \in Entries \ {cp} : Code'[b] = Code[b]
    BY <2>2, <2>3, <2>4, CodeKept
  <2>6. DOMAIN Code = Entries /\ Code' = [b \in Entries \ {cp} |-> Code'[b]]
    BY <2>2 DEF Code
  <2> QED
    BY <2>2, <2>5, <2>6
<1> QED
  BY <1>1, <1>2

\* compile() and decompile() keep their promise: each call publishes one function
\* with pages of its own, gives one up, or changes none, and nothing else does.
THEOREM TableKeepsPromise == Spec => KeepsPromise
<1>1. Init => Promise!Init
  <2> SUFFICES ASSUME Init PROVE Code = [a \in {} |-> {}]
    BY DEF Promise!Init, Code
  <2>1. Entries = {}
    BY DEF Init, Entries, ToSet
  <2> QED
    BY <2>1 DEF Code
<1>2. IInv /\ IInv' /\ [Next]_vars => [Promise!Next]_Code
  <2> SUFFICES ASSUME IInv, IInv', [Next]_vars
               PROVE  Promise!Next \/ Code' = Code
    OBVIOUS
  <2>1. CASE UNCHANGED vars
    BY <2>1, SameStays DEF vars
  <2>2. CASE Step
    <3>1. CASE \E bytes \in Requests : Allocate(bytes)
      BY <3>1, AllocateStays
    <3>2. CASE v_lambda
      BY <3>2, SessionMapping, FlipStays DEF v_lambda, OrFatal, Fatal
    <3>3. CASE UnresolvedLabel
      BY <3>3, SameStays DEF UnresolvedLabel, Fatal, memory
    <3>4. CASE v_end
      BY <3>4, SessionMapping, FlipStays DEF v_end, OrFatal, Fatal
    <3>5. CASE _tc_addcode
      BY <3>5, AddCodePublishes DEF Promise!Next, Promise!Publish, Code
    <3>6. CASE EarlyQuit
      BY <3>6, EarlyQuitStays
    <3>7. ASSUME NEW cp \in Pages, v_begin_incremental(cp)
          PROVE  Code' = Code
      BY <3>7, FlipStays DEF v_begin_incremental, OrFatal, Fatal, IInv, EntriesOwned, Owned
    <3>8. CASE v_end_incremental
      BY <3>8, SessionMapping, FlipStays DEF v_end_incremental, OrFatal, Fatal
    <3>9. ASSUME NEW cp \in Pages, _tc_decompile(cp)
          PROVE  Promise!Next \/ Code' = Code
      BY <3>9, DecompileRetires DEF Promise!Next, Promise!Retire, Code
    <3> QED
      BY <2>2, <3>1, <3>2, <3>3, <3>4, <3>5, <3>6, <3>7, <3>8, <3>9 DEF Step
  <2> QED
    BY <2>1, <2>2 DEF Next
<1>3. (Promise!Init /\ [][Promise!Next]_Code) => KeepsPromise
  BY DEF KeepsPromise, Promise!Spec, Code
<1> QED
  BY <1>1, <1>2, <1>3, TableInvariant, PTL DEF Spec
=============================================================================
