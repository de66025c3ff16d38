------------------------------- MODULE Arena --------------------------------
(***************************************************************************)
(* The two arenas of the run-time system, src/src/sup/mem.c.               *)
(*                                                                         *)
(* tc_aalloc serves closures, vspecs, aggregate descriptors and all of     *)
(* icode's working data for one dynamic function; tc_adealloc releases     *)
(* everything at once and keeps the chunks for the next function.          *)
(* tc_palloc serves the table of live dynamic functions and is never       *)
(* released.                                                               *)
(*                                                                         *)
(* A chunk is a model value of Blocks; inside a chunk, addresses are       *)
(* offsets past its header.  `used' is the list from first.next to the     *)
(* block `arena' points at, its last; the dummy block `first' stands for   *)
(* an empty `used'.  The loop of tc_aalloc takes chunks off freeblocks     *)
(* until one is large enough, so its effect is stated at once.             *)
(***************************************************************************)
EXTENDS Integers, Sequences, FiniteSets, SequencesExt

CONSTANTS
  Blocks,     (* the chunks malloc can supply before memory runs out       *)
  Align,      (* sizeof (union align)                                      *)
  ChunkSize,  (* CHUNKSIZE, the room a new chunk has beyond the request    *)
  Sizes       (* the sizes in bytes that are asked for                     *)

ASSUME ArenaAssumption ==
  /\ Align \in Nat \ {0}
  /\ ChunkSize \in Nat
  /\ Sizes \subseteq Nat \ {0}      \* assert(n > 0)

VARIABLES
  used,        (* sequence of chunks: first.next ... arena                 *)
  freeblocks,  (* sequence of chunks                                       *)
  perm,        (* sequence of chunks: pfirst.next ... parena               *)
  avail,       (* chunk -> offset of its first unallocated byte            *)
  limit,       (* chunk -> its size, 0 until malloc supplies it            *)
  live,        (* history: allocations [block, off, len] since tc_adealloc *)
  permanent,   (* history: the allocations of tc_palloc                    *)
  exited       (* the process called exit(1)                               *)

vars == <<used, freeblocks, perm, avail, limit, live, permanent, exited>>

roundup(n) == ((n + Align - 1) \div Align) * Align

\* Chunks malloc has not supplied yet.
Fresh == {b \in Blocks : limit[b] = 0}

Fits(b, n) == avail[b] + n <= limit[b]

Init ==
  /\ used = <<>> /\ freeblocks = <<>> /\ perm = <<>>
  /\ avail = [b \in Blocks |-> 0]
  /\ limit = [b \in Blocks |-> 0]
  /\ live = {} /\ permanent = {}
  /\ exited = FALSE

-----------------------------------------------------------------------------
\* Mutated form: `avail' is not advanced past the object.
Mut_AvailNotAdvanced(n) ==
  /\ used # <<>>
  /\ Fits(Last(used), n)
  /\ live' = live \cup {[block |-> Last(used), off |-> avail[Last(used)], len |-> n]}
  /\ UNCHANGED <<used, freeblocks, perm, avail, limit, permanent, exited>>

\* The current chunk has room: the loop body is not entered.
AllocInPlace(n) ==
  /\ used # <<>>
  /\ Fits(Last(used), n)
  /\ avail' = [avail EXCEPT ![Last(used)] = @ + n]
  /\ live' = live \cup {[block |-> Last(used), off |-> avail[Last(used)], len |-> n]}
  /\ UNCHANGED <<used, freeblocks, perm, limit, permanent, exited>>

NoRoom(n) == used # <<>> => ~Fits(Last(used), n)

\* The positions of freeblocks whose chunk, emptied, is large enough.
LargeEnough(n) == {i \in DOMAIN freeblocks : n <= limit[freeblocks[i]]}

\* The first k free chunks join `used', each emptied; the request is served
\* from the last of them.
AllocReuse(n) ==
  /\ NoRoom(n)
  /\ \E k \in LargeEnough(n) :
       /\ \A i \in LargeEnough(n) : k <= i
       /\ used' = used \o SubSeq(freeblocks, 1, k)
       /\ freeblocks' = SubSeq(freeblocks, k + 1, Len(freeblocks))
       /\ avail' = [b \in Blocks |->
                      IF b = freeblocks[k] THEN n
                      ELSE IF \E i \in 1 .. k : b = freeblocks[i] THEN 0
                      ELSE avail[b]]
       /\ live' = live \cup {[block |-> freeblocks[k], off |-> 0, len |-> n]}
  /\ UNCHANGED <<perm, limit, permanent, exited>>

\* No free chunk is large enough: they all join `used', and malloc supplies a
\* new one.
AllocGrow(n) ==
  /\ NoRoom(n)
  /\ LargeEnough(n) = {}
  /\ \E new \in Fresh :
       /\ used' = used \o freeblocks \o <<new>>
       /\ freeblocks' = <<>>
       /\ avail' = [b \in Blocks |->
                      IF b = new THEN n
                      ELSE IF b \in ToSet(freeblocks) THEN 0
                      ELSE avail[b]]
       /\ limit' = [limit EXCEPT ![new] = n + ChunkSize]
       /\ live' = live \cup {[block |-> new, off |-> 0, len |-> n]}
  /\ UNCHANGED <<perm, permanent, exited>>

\* malloc fails: "Fatal: insufficient memory for arena."
AllocExit(n) ==
  /\ NoRoom(n)
  /\ LargeEnough(n) = {}
  /\ exited' = TRUE
  /\ UNCHANGED <<used, freeblocks, perm, avail, limit, live, permanent>>

tc_aalloc(bytes) ==
  LET n == roundup(bytes) IN
  /\ ~exited
  /\ AllocInPlace(n) \/ AllocReuse(n) \/ AllocGrow(n) \/ AllocExit(n)

\* Everything tc_aalloc handed out is released; the chunks go in front of the
\* free list.
tc_adealloc ==
  /\ ~exited
  /\ freeblocks' = used \o freeblocks
  /\ used' = <<>>
  /\ live' = {}
  /\ UNCHANGED <<perm, avail, limit, permanent, exited>>

-----------------------------------------------------------------------------
PermInPlace(n) ==
  /\ perm # <<>>
  /\ Fits(Last(perm), n)
  /\ avail' = [avail EXCEPT ![Last(perm)] = @ + n]
  /\ permanent' = permanent \cup {[block |-> Last(perm), off |-> avail[Last(perm)], len |-> n]}
  /\ UNCHANGED <<used, freeblocks, perm, limit, live, exited>>

PermGrow(n) ==
  /\ perm # <<>> => ~Fits(Last(perm), n)
  /\ \E new \in Fresh :
       /\ perm' = Append(perm, new)
       /\ avail' = [avail EXCEPT ![new] = n]
       /\ limit' = [limit EXCEPT ![new] = n + ChunkSize]
       /\ permanent' = permanent \cup {[block |-> new, off |-> 0, len |-> n]}
  /\ UNCHANGED <<used, freeblocks, live, exited>>

PermExit(n) ==
  /\ perm # <<>> => ~Fits(Last(perm), n)
  /\ exited' = TRUE
  /\ UNCHANGED <<used, freeblocks, perm, avail, limit, live, permanent>>

tc_palloc(bytes) ==
  LET n == roundup(bytes) IN
  /\ ~exited
  /\ PermInPlace(n) \/ PermGrow(n) \/ PermExit(n)

Next ==
  \/ \E bytes \in Sizes : tc_aalloc(bytes)
  \/ tc_adealloc
  \/ \E bytes \in Sizes : tc_palloc(bytes)

Spec == Init /\ [][Next]_vars

-----------------------------------------------------------------------------

Overlap(x, y) ==
  /\ x.block = y.block
  /\ x.off < y.off + y.len
  /\ y.off < x.off + x.len

\* Two objects alive at once never share a byte, whichever arena they come
\* from and however often their chunks were recycled, and each lies inside its
\* chunk.
AllocationsDisjoint ==
  /\ \A x \in live \cup permanent : x.off + x.len <= limit[x.block]
  /\ \A x, y \in live \cup permanent : x # y => ~Overlap(x, y)

=============================================================================
