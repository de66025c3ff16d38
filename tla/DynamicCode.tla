---------------------------- MODULE DynamicCode -----------------------------
(***************************************************************************)
(* The life of dynamically generated functions: the table of live code     *)
(* segments of src/src/rts/tickc-rts.c, composed with the executable       *)
(* memory of CodeMemory and driven by the sequence of calls that           *)
(* _tc_compile, _tc_compilef, i_emit, v_lambda, v_end and the incremental  *)
(* interface of vcode.c make on it.                                        *)
(*                                                                         *)
(* v_end returns code_start, so the offset a table entry records is 0 and  *)
(* an entry is the address of its block.  What is emitted between v_lambda *)
(* and v_end is the subject of Labels and of the register allocators.      *)
(***************************************************************************)
EXTENDS Integers, Sequences, FiniteSets, SequencesExt

CONSTANTS
  PageSize, SizeMax, NumPages, Foreign, Requests,   (* see CodeMemory      *)
  HashSize                                          (* TC_HASHSIZE         *)

ASSUME HashAssumption == HashSize \in Nat \ {0}

\* What CodeMemory assumes of the constants it shares.
ASSUME MemoryAssumption ==
  /\ PageSize \in Nat \ {0} /\ NumPages \in Nat /\ SizeMax \in Nat
  /\ PageSize - 1 <= SizeMax
  /\ Foreign \subseteq 0 .. NumPages - 1
  /\ Requests \subseteq 0 .. SizeMax

VARIABLES
  code_mappings, prot, held, lost, call,   (* see CodeMemory               *)
  buckets,   (* _tc_codes: hash -> the chain of entries, newest first      *)
  session,   (* what vcode is doing and the block it does it to            *)
  leaked,    (* history: blocks whose v_code_free failed                   *)
  exited     (* v_fatal, i_fatal or the permanent arena ended the process  *)

memory == <<code_mappings, prot, held, lost, call>>
vars == <<code_mappings, prot, held, lost, call, buckets, session, leaked, exited>>

Memory == INSTANCE CodeMemory

NULL == -1
Pages == Memory!Pages
Hashes == 0 .. HashSize - 1
Hash(cp) == (cp * PageSize) % HashSize
Entries == UNION {ToSet(buckets[h]) : h \in Hashes}

Idle == [kind |-> "idle", code |-> NULL]

Init ==
  /\ Memory!Init
  /\ buckets = [h \in Hashes |-> <<>>]
  /\ session = Idle
  /\ leaked = {}
  /\ exited = FALSE

Fatal == exited' = TRUE /\ UNCHANGED <<buckets, session, leaked>>

-----------------------------------------------------------------------------
\* _tc_compilef and i_emit obtain a buffer, or end the process.
Allocate(bytes) ==
  /\ session = Idle
  /\ Memory!v_code_alloc(bytes)
  /\ \/ call'.ret = NULL /\ Fatal
     \/ /\ call'.ret # NULL
        /\ session' = [kind |-> "allocated", code |-> call'.ret]
        /\ UNCHANGED <<buckets, leaked, exited>>

\* A call of the memory manager that goes on with `next' unless it fails.
OrFatal(next) ==
  \/ call'.ret = -1 /\ Fatal
  \/ /\ call'.ret # -1
     /\ session' = next
     /\ UNCHANGED <<buckets, leaked, exited>>

\* v_lambda, v_lambda_variadic and v_lambda_aggregate.
v_lambda ==
  /\ session.kind = "allocated"
  /\ Memory!v_code_make_writable(session.code)
  /\ OrFatal([session EXCEPT !.kind = "emitting"])

\* v_end when a label is unresolved.
UnresolvedLabel ==
  /\ session.kind \in {"emitting", "patching"}
  /\ Fatal
  /\ UNCHANGED memory

\* Mutated form: the function is published without v_code_finalize.
Mut_EndWithoutFinalize ==
  /\ session.kind = "emitting"
  /\ UNCHANGED memory
  /\ session' = [session EXCEPT !.kind = "finished"]
  /\ UNCHANGED <<buckets, leaked, exited>>

\* v_end
v_end ==
  /\ session.kind = "emitting"
  /\ Memory!v_code_finalize(session.code)
  /\ OrFatal([session EXCEPT !.kind = "finished"])

\* Mutated form: the entry replaces the chain.
Mut_AddReplacesChain ==
  /\ session.kind = "finished"
  /\ buckets' = [buckets EXCEPT ![Hash(session.code)] = <<session.code>>]
  /\ session' = Idle
  /\ UNCHANGED <<memory, leaked, exited>>

\* _tc_addcode; PNEW may find no memory and exit.
_tc_addcode ==
  /\ session.kind = "finished"
  /\ \/ /\ buckets' = [buckets EXCEPT ![Hash(session.code)] = <<session.code>> \o @]
        /\ session' = Idle
        /\ UNCHANGED <<leaked, exited>>
     \/ Fatal
  /\ UNCHANGED memory

\* v_code_free, whose result nobody looks at.
Release(block) ==
  /\ Memory!v_code_free(block)
  /\ leaked' = IF call'.ret = 0 THEN leaked ELSE leaked \cup {block}

\* i_emit quits early (i_end_lv, i_end_ra1, ...): v_end has finished the code,
\* nothing is published and the block is freed.
EarlyQuit ==
  /\ session.kind = "finished"
  /\ Release(session.code)
  /\ session' = Idle
  /\ UNCHANGED <<buckets, exited>>

-----------------------------------------------------------------------------
\* v_begin_incremental and v_end_incremental, on a function that is live.
v_begin_incremental(cp) ==
  /\ session = Idle
  /\ cp \in Entries
  /\ Memory!v_code_make_writable(cp)
  /\ OrFatal([kind |-> "patching", code |-> cp])

v_end_incremental ==
  /\ session.kind = "patching"
  /\ Memory!v_code_finalize(session.code)
  /\ OrFatal(Idle)

-----------------------------------------------------------------------------
Found(cp) == {i \in DOMAIN buckets[Hash(cp)] : buckets[Hash(cp)][i] = cp}

\* Mutated form: an entry behind the head of its chain is not unlinked.
Mut_UnlinkHeadOnly(cp) ==
  \E i \in Found(cp) :
    /\ \A j \in Found(cp) : i <= j
    /\ buckets' = IF i = 1 THEN [buckets EXCEPT ![Hash(cp)] = Tail(@)] ELSE buckets

\* The first entry of the chain with this address goes.
Unlink(cp) ==
  \E i \in Found(cp) :
    /\ \A j \in Found(cp) : i <= j
    /\ buckets' = [buckets EXCEPT ![Hash(cp)] = RemoveAt(@, i)]

\* _tc_decompile, of a function that is live and of one that is not.
_tc_decompile(cp) ==
  /\ session = Idle
  /\ \/ /\ Found(cp) # {}
        /\ Unlink(cp)
        /\ Release(cp)
        /\ UNCHANGED <<session, exited>>
     \/ /\ Found(cp) = {}
        /\ Fatal
        /\ UNCHANGED memory

Step ==
  \/ \E bytes \in Requests : Allocate(bytes)
  \/ v_lambda
  \/ UnresolvedLabel
  \/ v_end
  \/ _tc_addcode
  \/ EarlyQuit
  \/ \E cp \in Pages : v_begin_incremental(cp)
  \/ v_end_incremental
  \/ \E cp \in Pages : _tc_decompile(cp)

Next == ~exited /\ Step

Spec == Init /\ [][Next]_vars

-----------------------------------------------------------------------------

MappingOf(cp) == {m \in code_mappings : m.base = cp}

\* Every entry of the table is the start of one live mapping and is listed
\* once: decompiling can neither miss a live function nor unmap the block a
\* later function was given at the same address.
EntriesOwnBlocks ==
  /\ \A h \in Hashes : IsInjective(buckets[h])
  /\ \A cp \in Entries : Cardinality(MappingOf(cp)) = 1
  /\ session.kind # "patching" => session.code \notin Entries

\* Code is sealed: all pages of a function in the table are readable and
\* executable, except while it is being patched, and while no code is being
\* generated no page of dynamic code is writable.
CodeIsSealed ==
  /\ \A cp \in Entries : \A m \in MappingOf(cp) : \A p \in Memory!PagesOf(m) :
       prot[p] = "rx" \/ (session.kind = "patching" /\ session.code = cp)
  /\ session = Idle /\ ~exited => \A p \in Pages \ lost : prot[p] # "rw"

\* Every mapping has an owner that will free it: a live function, the code
\* being generated, or a free that was tried and failed.
NothingOrphaned ==
  \A m \in code_mappings :
    m.base \in Entries \cup leaked \cup {session.code}

\* The table and the memory manager together implement FunctionTable.
Promise == INSTANCE FunctionTable WITH
  code <- [cp \in Entries |->
             Memory!PagesOf(CHOOSE m \in code_mappings : m.base = cp)]

KeepsPromise == Promise!Spec
=============================================================================
