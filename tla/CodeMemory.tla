----------------------------- MODULE CodeMemory -----------------------------
(***************************************************************************)
(* The executable-memory manager, src/src/vcode-x86_64/code-memory.c.      *)
(*                                                                         *)
(* Every buffer that dynamic code is generated into is a private mapping   *)
(* that is read-write while code is emitted and read-execute while it may  *)
(* be called.  The manager keeps a table of its mappings with one          *)
(* `writable' bit each; the kernel keeps the real protection of each page. *)
(* mmap, malloc, mprotect and munmap may each fail.                        *)
(*                                                                         *)
(* Addresses are known by their page: nothing here looks inside a page.    *)
(* The table is a set: the list's order only matters to find_mapping if    *)
(* two mappings overlap, and NoOverlap is what the runs and the proofs     *)
(* establish.                                                              *)
(***************************************************************************)
EXTENDS Integers, FiniteSets

CONSTANTS
  PageSize,   (* bytes in a page, sysconf(_SC_PAGESIZE)                    *)
  SizeMax,    (* SIZE_MAX, the largest size_t                              *)
  NumPages,   (* pages of the address space the kernel can hand out        *)
  Foreign,    (* pages mapped by the rest of the process                   *)
  Requests    (* the sizes in bytes that callers ask for                   *)

ASSUME SpaceAssumption ==
  /\ PageSize \in Nat \ {0}
  /\ NumPages \in Nat
  /\ SizeMax \in Nat
  /\ PageSize - 1 <= SizeMax
  /\ Foreign \subseteq 0 .. NumPages - 1
  /\ Requests \subseteq 0 .. SizeMax

VARIABLES
  code_mappings,  (* the table: records [base, npages, writable]           *)
  prot,           (* the kernel's view: page -> protection                 *)
  held,           (* history: blocks [base, bytes] callers own             *)
  lost,           (* history: pages no table entry will ever name again    *)
  call            (* history: the last call and what it returned           *)

vars == <<code_mappings, prot, held, lost, call>>

Pages == 0 .. NumPages - 1
Mapping == [base : Pages, npages : Nat \ {0}, writable : BOOLEAN]
NULL == -1

PagesOf(m) == m.base .. (m.base + m.npages - 1)
Protection(m) == IF m.writable THEN "rw" ELSE "rx"

\* Mutated form: the size is truncated to whole pages.
Mut_PagesForTruncates(bytes) == bytes \div PageSize

\* The rounding of v_code_alloc, in the arithmetic of size_t.
PagesFor(bytes) == ((bytes + PageSize - 1) % (SizeMax + 1)) \div PageSize

RequestTooLarge(bytes) == bytes > SizeMax - (PageSize - 1)

\* find_mapping: the entries whose pages hold the address.
find_mapping(address) == {m \in code_mappings : address \in PagesOf(m)}

\* What the kernel may do: place a mapping over free pages only, and change
\* the protection of exactly the pages it is given.
FreeRun(base, npages) ==
  /\ npages > 0
  /\ base + npages <= NumPages
  /\ \A p \in base .. (base + npages - 1) : prot[p] = "none"

Protect(pages, p) == [q \in Pages |-> IF q \in pages THEN p ELSE prot[q]]

Init ==
  /\ code_mappings = {}
  /\ prot = [p \in Pages |-> IF p \in Foreign THEN "foreign" ELSE "none"]
  /\ held = {}
  /\ lost = {}
  /\ call = [op |-> "none", address |-> NULL, ret |-> 0]

Returns(op, address, ret) ==
  call' = [op |-> op, address |-> address, ret |-> ret]

-----------------------------------------------------------------------------
(* v_code_alloc.  Its early returns, the failing mmap and the failing      *)
(* sysconf all return the null pointer and change nothing.                 *)

AllocFails(bytes) ==
  /\ Returns("alloc", NULL, NULL)
  /\ UNCHANGED <<code_mappings, prot, held, lost>>

\* mmap succeeded and so did malloc: the mapping goes into the table.
AllocSucceeds(bytes, base) ==
  LET npages == PagesFor(bytes)
      m == [base |-> base, npages |-> npages, writable |-> TRUE]
  IN  /\ bytes # 0
      /\ ~RequestTooLarge(bytes)
      /\ FreeRun(base, npages)
      /\ code_mappings' = code_mappings \cup {m}
      /\ prot' = Protect(PagesOf(m), "rw")
      /\ held' = held \cup {[base |-> base, bytes |-> bytes]}
      /\ Returns("alloc", NULL, base)
      /\ UNCHANGED lost

\* Mutated form: the error path of malloc forgets munmap.
Mut_AllocNoEntryLeaks(bytes, base, unmapped) ==
  /\ bytes # 0
  /\ ~RequestTooLarge(bytes)
  /\ FreeRun(base, PagesFor(bytes))
  /\ prot' = Protect(base .. (base + PagesFor(bytes) - 1), "rw")
  /\ Returns("alloc", NULL, NULL)
  /\ UNCHANGED <<code_mappings, held, lost>>

\* mmap succeeded but malloc did not: the pages are given back, and the
\* result of munmap is not looked at.
AllocNoEntry(bytes, base, unmapped) ==
  LET pages == base .. (base + PagesFor(bytes) - 1)
  IN  /\ bytes # 0
      /\ ~RequestTooLarge(bytes)
      /\ FreeRun(base, PagesFor(bytes))
      /\ prot' = IF unmapped THEN prot ELSE Protect(pages, "rw")
      /\ lost' = IF unmapped THEN lost ELSE lost \cup pages
      /\ Returns("alloc", NULL, NULL)
      /\ UNCHANGED <<code_mappings, held>>

v_code_alloc(bytes) ==
  \/ AllocFails(bytes)
  \/ \E base \in Pages : AllocSucceeds(bytes, base)
  \/ \E base \in Pages, unmapped \in BOOLEAN : AllocNoEntry(bytes, base, unmapped)

-----------------------------------------------------------------------------
(* v_code_make_writable and v_code_finalize: flip one mapping between RW   *)
(* and RX.  0 says the address is not the manager's, -1 that the kernel    *)
(* refused, 1 that the mapping has the protection asked for.               *)

NotMine(op, address) ==
  /\ find_mapping(address) = {}
  /\ Returns(op, address, 0)
  /\ UNCHANGED <<code_mappings, prot, held, lost>>

AlreadySet(op, address, writable) ==
  /\ \E m \in find_mapping(address) : m.writable = writable
  /\ Returns(op, address, 1)
  /\ UNCHANGED <<code_mappings, prot, held, lost>>

\* Mutated forms: the bit is set before mprotect is known to have succeeded;
\* one page too many is protected.
Mut_FlagBeforeCall(op, address, writable) ==
  /\ \E m \in find_mapping(address) :
       /\ m.writable # writable
       /\ code_mappings' = (code_mappings \ {m}) \cup {[m EXCEPT !.writable = writable]}
  /\ Returns(op, address, -1)
  /\ UNCHANGED <<prot, held, lost>>

Mut_ProtectTooFar(op, address, writable) ==
  /\ \E m \in find_mapping(address) :
       LET changed == [m EXCEPT !.writable = writable]
       IN  /\ m.writable # writable
           /\ prot' = Protect(m.base .. (m.base + m.npages), Protection(changed))
           /\ code_mappings' = (code_mappings \ {m}) \cup {changed}
  /\ Returns(op, address, 1)
  /\ UNCHANGED <<held, lost>>

mprotectFails(op, address, writable) ==
  /\ \E m \in find_mapping(address) : m.writable # writable
  /\ Returns(op, address, -1)
  /\ UNCHANGED <<code_mappings, prot, held, lost>>

mprotectSucceeds(op, address, writable) ==
  /\ \E m \in find_mapping(address) :
       LET changed == [m EXCEPT !.writable = writable]
       IN  /\ m.writable # writable
           /\ prot' = Protect(PagesOf(m), Protection(changed))
           /\ code_mappings' = (code_mappings \ {m}) \cup {changed}
  /\ Returns(op, address, 1)
  /\ UNCHANGED <<held, lost>>

Flip(op, address, writable) ==
  \/ NotMine(op, address)
  \/ AlreadySet(op, address, writable)
  \/ mprotectFails(op, address, writable)
  \/ mprotectSucceeds(op, address, writable)

v_code_make_writable(address) == Flip("make_writable", address, TRUE)
v_code_finalize(address) == Flip("finalize", address, FALSE)

-----------------------------------------------------------------------------
(* v_code_free: unmaps the whole mapping that holds the address.           *)

FreeFails(address) ==     \* EINVAL, or munmap failed: nothing changes
  /\ Returns("free", address, -1)
  /\ UNCHANGED <<code_mappings, prot, held, lost>>

FreeSucceeds(address) ==
  /\ \E m \in find_mapping(address) :
       /\ prot' = Protect(PagesOf(m), "none")
       /\ code_mappings' = code_mappings \ {m}
       /\ held' = {b \in held : b.base # m.base}
  /\ Returns("free", address, 0)
  /\ UNCHANGED lost

v_code_free(address) == FreeFails(address) \/ FreeSucceeds(address)

-----------------------------------------------------------------------------
Next ==
  \/ \E bytes \in Requests : v_code_alloc(bytes)
  \/ \E address \in Pages : v_code_make_writable(address)
  \/ \E address \in Pages : v_code_finalize(address)
  \/ \E address \in Pages : v_code_free(address)

Spec == Init /\ [][Next]_vars

-----------------------------------------------------------------------------
\* The table, the kernel's pages and the history variables have the shape
\* code-memory.c gives them; in particular no entry is empty or reaches past
\* the end of the address space.
TypeOK ==
  /\ code_mappings \subseteq Mapping
  /\ \A m \in code_mappings : m.base + m.npages <= NumPages
  /\ prot \in [Pages -> {"none", "rw", "rx", "foreign"}]
  /\ held \subseteq [base : Pages, bytes : Requests]
  /\ lost \subseteq Pages
  /\ call.ret \in {-1, 0, 1} \cup Pages

\* Two entries of the table never share a page, so find_mapping's answer does
\* not depend on the order of the list and v_code_free of one function cannot
\* unmap a page of another.
NoOverlap ==
  \A m1, m2 \in code_mappings :
    m1 # m2 => PagesOf(m1) \cap PagesOf(m2) = {}

\* The `writable' bit of every entry is what the kernel enforces on every page
\* of the mapping, after any sequence of failing and succeeding system calls:
\* an early return of make_writable or finalize is never based on a stale bit.
TableMatchesKernel ==
  \A m \in code_mappings : \A p \in PagesOf(m) : prot[p] = Protection(m)

\* Every block a caller obtained and has not freed is backed, in full, by one
\* live mapping that starts where the caller was told and shares no page with
\* another: the rounding loses no byte, and no other call took pages away.
HeldIsBacked ==
  /\ NoOverlap
  /\ \A b \in held : \E m \in code_mappings :
       m.base = b.base /\ b.bytes <= m.npages * PageSize

\* The kernel holds no code page that the table cannot free, except those of
\* an allocation whose malloc and whose munmap both failed.
NoLeak ==
  \A p \in Pages : prot[p] \in {"rw", "rx"} =>
    p \in lost \/ \E m \in code_mappings : p \in PagesOf(m)

\* A call touches the pages of the mapping its address lies in, or free pages
\* it maps: it never changes another function's code nor a page of the rest of
\* the process.
OnlyAddressedPagesChange ==
  [][\A p \in Pages : prot'[p] # prot[p] =>
       \/ prot[p] = "none" /\ call'.op = "alloc"
       \/ \E m \in code_mappings : p \in PagesOf(m) /\ call'.address \in PagesOf(m)]_vars

\* What a caller is told is what happened: 1 means the addressed mapping now
\* has the protection asked for, and a negative result means no page changed
\* (v_lambda and v_end rely on it before emitting and before publishing).
ResultsAreTrue ==
  [][LET now(address) == prot'[address] IN
     /\ (call'.op = "make_writable" /\ call'.ret = 1) => now(call'.address) = "rw"
     /\ (call'.op = "finalize" /\ call'.ret = 1) => now(call'.address) = "rx"
     /\ (call'.op # "alloc" /\ call'.ret = -1) => prot' = prot]_vars
=============================================================================
