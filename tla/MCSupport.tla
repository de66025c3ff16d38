----------------------------- MODULE MCSupport ------------------------------
(* The memory, the bit vectors and the list that the rest of the system rests *)
(* on: a behaviour is one of the three at work.  Three chunks and two-byte    *)
(* alignment, where a chunk made for a small request cannot hold a large one, *)
(* so that the loop of tc_aalloc skips free chunks; two vectors of exactly    *)
(* one word, or of a word and a bit, which end inside a word and inside a     *)
(* nibble; a list of two or four elements that hold one of two intervals.     *)
EXTENDS Arena, BitVec, LinkedList, TLC

CONSTANTS x1, x2, c1, c2
TwoNames == {x1, x2}
TwoIntervals == {c1, c2}
Symmetry == Permutations(Blocks) \cup Permutations(TwoNames) \cup Permutations(TwoIntervals)

VARIABLE part  (* which of the three is at work *)

SupportInit ==
  /\ part \in {"mem", "bv", "ll"}
  /\ Init /\ BitInit /\ ListInit
  /\ part # "ll" => \A size \in Capacities : list.sz <= size

SupportNext ==
  /\ \/ part = "mem" /\ Next /\ UNCHANGED <<bank, listVars>>
     \/ part = "bv" /\ BitNext /\ UNCHANGED <<vars, listVars>>
     \/ part = "ll" /\ ListNext /\ UNCHANGED <<vars, bank>>
  /\ UNCHANGED part

SupportSpec == SupportInit /\ [][SupportNext]_<<vars, bank, listVars, part>>
=============================================================================
