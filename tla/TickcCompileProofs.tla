-------------------------- MODULE TickcCompileProofs --------------------------
(***************************************************************************)
(* Proofs about the run-time system between two calls of compile(), for    *)
(* every number of closures, size of its tables and bound on the           *)
(* instructions a function has.                                            *)
(***************************************************************************)
EXTENDS TickcCompile, FiniteSetTheorems, WellFoundedInduction, TLAPS

Targets == {rts.targets[i] : i \in DOMAIN rts.targets}
Instructions == [op : {"op", "jp", "lbl", "arg"}, l : Int, of : Int]

RtsState ==
  [init : BOOLEAN, targets : Seq(Cspecs), maxtarg : Nat, dcp : Nat,
   quit : {"no", "closures", "IIR", "icode"}]
IcodeState ==
  [buf : Seq(Instructions), params : [Slots -> BOOLEAN], params_cur : Nat,
   lab_cur : Nat, aggregate : BOOLEAN, quit : BOOLEAN]
GhostState ==
  [ready : BOOLEAN, capacity : Nat, emitted : Seq(Instructions),
   given : SUBSET Slots, early : BOOLEAN, result : {"none", "null", "code"}]
USE DEF RtsState, IcodeState, GhostState

Shape ==
  /\ lab \in [Cspecs -> Int]
  /\ rts \in RtsState
  /\ contexts \in [0 .. TC_MAXCALL -> Seq(Cspecs)]
  /\ icode \in IcodeState
  /\ ghost \in GhostState

\* A number is a cspec's own, and given out already.
Numbers ==
  /\ \A c \in Cspecs : lab[c] \in {Dead, 0} \/ lab[c] \in min_lab .. icode.lab_cur - 1
  /\ \A c, d \in Cspecs : lab[c] > 0 /\ lab[c] = lab[d] => c = d

Branching(x) == x.op \in {"jp", "lbl"}

\* An instruction carries its cspec's number, or one that no cspec has and
\* that a CGF made for itself.
Buffer ==
  \A i \in DOMAIN icode.buf :
    LET x == icode.buf[i] IN
    Branching(x) =>
      /\ x.l \in min_lab .. icode.lab_cur - 1
      /\ x.of \in Cspecs => lab[x.of] = x.l
      /\ x.of \notin Cspecs =>
           /\ \A c \in Cspecs : lab[c] # x.l
           /\ \A j \in DOMAIN icode.buf :
                Branching(icode.buf[j]) /\ icode.buf[j].l = x.l => icode.buf[j].of = x.of

\* Parameters of an initialised icode are those declared since.
Parameters ==
  /\ icode.params_cur <= TC_MAXPARAM
  /\ \A k \in ghost.given : k < icode.params_cur
  /\ IF rts.init THEN ghost.given = {k \in Slots : icode.params[k]}
     ELSE ghost.given = {} /\ icode.params_cur = 0

Specifying ==
  phase = "specify" =>
    /\ \A c \in Cspecs : lab[c] \in {Dead, 0}
    /\ icode.buf = <<>>
Generating ==
  phase = "generate" =>
    /\ \A c \in Targets : lab[c] > 0
    /\ ghost.early => rts.init /\ icode.buf = ghost.emitted

IInv ==
  /\ Shape /\ NothingOutlivesArena /\ Numbers /\ Buffer /\ Parameters
  /\ Specifying /\ Generating
  /\ icode.lab_cur >= min_lab /\ phase # "assertion"

-----------------------------------------------------------------------------
(* What the initialisation and the lists do.                               *)

LEMMA InitIInv == Init => IInv
<1> SUFFICES ASSUME Init PROVE IInv
  OBVIOUS
<1> USE TickcAssumption
<1>1. lab \in [Cspecs -> Int] /\ \A c \in Cspecs : lab[c] = Dead
  BY DEF Init, Dead
<1>2. Shape
  <2>1. contexts \in [0 .. TC_MAXCALL -> Seq(Cspecs)] /\ <<>> \in Seq(Instructions)
    BY DEF Init
  <2>2. rts \in RtsState
    BY DEF Init
  <2>3. icode \in IcodeState
    <3>1. [k \in Slots |-> TRUE] \in [Slots -> BOOLEAN] /\ 2 \in Nat /\ 0 \in Nat
      OBVIOUS
    <3> QED
      BY <2>1, <3>1 DEF Init, min_lab
  <2>4. ghost \in GhostState
    BY <2>1 DEF Init
  <2> QED
    BY <1>1, <2>1, <2>2, <2>3, <2>4 DEF Shape
<1>3. NothingOutlivesArena
  BY DEF Init, NothingOutlivesArena, ToSet
<1>4. Numbers /\ Buffer /\ Specifying /\ Generating
  BY <1>1 DEF Init, Numbers, Buffer, Specifying, Generating, Dead, min_lab
<1>5. Parameters
  <2>1. 0 <= TC_MAXPARAM
    OBVIOUS
  <2> QED
    BY <2>1 DEF Init, Parameters
<1> QED
  BY <1>2, <1>3, <1>4, <1>5 DEF Init, IInv, min_lab

\* The fields of the records, each by itself.
LEMMA Fields ==
  ASSUME Shape
  PROVE  /\ rts.init \in BOOLEAN /\ rts.targets \in Seq(Cspecs) /\ rts.maxtarg \in Nat
         /\ rts.dcp \in Nat /\ rts.quit \in {"no", "closures", "IIR", "icode"}
         /\ icode.buf \in Seq(Instructions) /\ icode.params \in [Slots -> BOOLEAN]
         /\ icode.params_cur \in Nat /\ icode.lab_cur \in Nat
         /\ icode.aggregate \in BOOLEAN /\ icode.quit \in BOOLEAN
         /\ ghost.ready \in BOOLEAN /\ ghost.capacity \in Nat
         /\ ghost.emitted \in Seq(Instructions) /\ ghost.given \in SUBSET Slots
         /\ ghost.early \in BOOLEAN /\ ghost.result \in {"none", "null", "code"}
  BY DEF Shape

\* One more element.
LEMMA AppendIs ==
  ASSUME NEW S, NEW s \in Seq(S), NEW x \in S
  PROVE  /\ Append(s, x) \in Seq(S) /\ Len(Append(s, x)) = Len(s) + 1
         /\ {Append(s, x)[i] : i \in DOMAIN Append(s, x)} = {s[i] : i \in DOMAIN s} \cup {x}
         /\ ToSet(Append(s, x)) = ToSet(s) \cup {x}
<1> DEFINE r == Append(s, x)
<1>1. r \in Seq(S) /\ Len(r) = Len(s) + 1 /\ DOMAIN r = 1 .. Len(s) + 1 /\ Len(s) \in Nat
      /\ DOMAIN s = 1 .. Len(s)
  OBVIOUS
<1>2. r[Len(s) + 1] = x /\ \A i \in 1 .. Len(s) : r[i] = s[i]
  OBVIOUS
<1> HIDE DEF r
<1>3. \A i \in DOMAIN r : i \in DOMAIN s \/ i = Len(s) + 1
  BY <1>1
<1>4. Len(s) + 1 \in DOMAIN r /\ \A i \in DOMAIN s : i \in DOMAIN r
  BY <1>1
<1>5. {r[i] : i \in DOMAIN r} = {s[i] : i \in DOMAIN s} \cup {x}
  BY <1>1, <1>2, <1>3, <1>4
<1> QED
  BY <1>1, <1>5 DEF ToSet, r

\* Two lists, one after the other.
LEMMA ConcatIs ==
  ASSUME NEW S, NEW s \in Seq(S), NEW r \in Seq(S)
  PROVE  /\ s \o r \in Seq(S)
         /\ \A i \in DOMAIN (s \o r) :
              \/ i \in DOMAIN s /\ (s \o r)[i] = s[i]
              \/ \E k \in DOMAIN r : (s \o r)[i] = r[k]
<1>1. /\ s \o r \in Seq(S) /\ DOMAIN (s \o r) = 1 .. Len(s) + Len(r)
      /\ Len(s) \in Nat /\ Len(r) \in Nat /\ DOMAIN s = 1 .. Len(s) /\ DOMAIN r = 1 .. Len(r)
  OBVIOUS
<1>2. \A i \in 1 .. Len(s) : (s \o r)[i] = s[i]
  OBVIOUS
<1>3. \A i \in 1 .. Len(s) + Len(r) : i > Len(s) => (s \o r)[i] = r[i - Len(s)]
  OBVIOUS
<1>4. ASSUME NEW i \in 1 .. Len(s) + Len(r), i > Len(s)
      PROVE  i - Len(s) \in DOMAIN r
  BY <1>1, <1>4
<1> QED
  BY <1>1, <1>2, <1>3, <1>4

-----------------------------------------------------------------------------
(* While functions are specified.                                          *)

\* With an empty buffer and no numbers given out, little is left to show.
LEMMA Unwritten ==
  ASSUME Shape', NothingOutlivesArena', Parameters', phase' \in {"specify", "fatal"},
         icode'.buf = <<>>, icode'.lab_cur >= min_lab,
         \A c \in Cspecs : lab'[c] \in {Dead, 0}
  PROVE  IInv'
<1>1. Numbers'
  BY DEF Numbers, Dead
<1>2. Buffer' /\ Specifying' /\ Generating'
  BY DEF Buffer, Specifying, Generating
<1> QED
  BY <1>1, <1>2 DEF IInv

LEMMA Start ==
  ASSUME IInv, phase = "specify"
  PROVE  /\ Shape /\ NothingOutlivesArena /\ Parameters
         /\ icode.buf = <<>> /\ icode.lab_cur >= min_lab
         /\ \A c \in Cspecs : lab[c] \in {Dead, 0}
  BY DEF IInv, Specifying

LEMMA NewCspecIInv ==
  ASSUME IInv, NEW c \in Cspecs, NewCspec(c)
  PROVE  IInv'
<1>1. /\ lab' = [lab EXCEPT ![c] = 0] /\ phase = "specify"
      /\ UNCHANGED <<rts, contexts, icode, phase, ghost>>
  BY DEF NewCspec
<1>2. \A d \in Cspecs : lab'[d] \in {Dead, 0} /\ (d \in Alive => d \in Alive')
  BY <1>1, Start DEF Shape, Alive, Dead
<1>3. Shape'
  BY <1>1, Start DEF Shape
<1>4. NothingOutlivesArena'
  BY <1>1, <1>2, Start DEF NothingOutlivesArena, Alive
<1>5. Parameters'
  BY <1>1, Start DEF Parameters
<1> QED
  BY <1>1, <1>2, <1>3, <1>4, <1>5, Start, Unwritten

LEMMA MktargetIInv ==
  ASSUME IInv, NEW c \in Cspecs, _tc_mktarget(c)
  PROVE  IInv'
<1> DEFINE full == Len(rts.targets) = rts.maxtarg
           size == rts.maxtarg + TC_MAXTARG
<1>1. /\ phase = "specify" /\ c \in Alive /\ lab' = [lab EXCEPT ![c] = 0]
      /\ rts' = [rts EXCEPT !.targets = Append(@, c), !.maxtarg = IF full THEN size ELSE @]
      /\ ghost' = [ghost EXCEPT !.capacity = IF full THEN size ELSE @]
      /\ UNCHANGED <<contexts, icode, phase>>
  BY DEF _tc_mktarget
<1>2. \A d \in Cspecs : lab'[d] \in {Dead, 0} /\ (d \in Alive => d \in Alive')
  BY <1>1, Start DEF Shape, Alive, Dead
<1>3. /\ rts.targets \in Seq(Cspecs) /\ rts.maxtarg \in Nat /\ ghost.capacity \in Nat
      /\ Len(rts.targets) \in Nat /\ size \in Nat /\ size > rts.maxtarg
  <2>1. rts.targets \in Seq(Cspecs) /\ rts.maxtarg \in Nat /\ ghost.capacity \in Nat
    BY <1>1, Start, Fields
  <2>2. Len(rts.targets) \in Nat
    BY <2>1
  <2>3. TC_MAXTARG \in Nat /\ TC_MAXTARG > 0
    BY TickcAssumption
  <2>4. size \in Nat /\ size > rts.maxtarg
    BY <2>1, <2>3
  <2> QED
    BY <2>1, <2>2, <2>4
<1>4. /\ Append(rts.targets, c) \in Seq(Cspecs)
      /\ Len(Append(rts.targets, c)) = Len(rts.targets) + 1
      /\ ToSet(Append(rts.targets, c)) = ToSet(rts.targets) \cup {c}
  BY <1>3, AppendIs
<1>5. /\ rts'.targets = Append(rts.targets, c) /\ rts'.maxtarg = (IF full THEN size ELSE rts.maxtarg)
      /\ rts'.init = rts.init /\ rts'.dcp = rts.dcp /\ rts'.quit = rts.quit
      /\ ghost'.capacity = (IF full THEN size ELSE ghost.capacity)
      /\ ghost'.ready = ghost.ready /\ ghost'.given = ghost.given
  BY <1>1, Start DEF Shape
<1>6. Shape'
  <2> DEFINE s == Append(rts.targets, c)
             m == IF full THEN size ELSE rts.maxtarg
             n == IF full THEN size ELSE ghost.capacity
  <2>1. s \in Seq(Cspecs) /\ m \in Nat /\ n \in Nat
    BY <1>3, <1>4
  <2>2. rts' = [rts EXCEPT !.targets = s, !.maxtarg = m] /\ ghost' = [ghost EXCEPT !.capacity = n]
    BY <1>1
  <2> HIDE DEF s, m, n
  <2>3. lab' \in [Cspecs -> Int]
    BY <1>1, Start DEF Shape
  <2> QED
    BY <1>1, <2>1, <2>2, <2>3, Start DEF Shape
<1>7. NothingOutlivesArena'
  BY <1>1, <1>2, <1>3, <1>4, <1>5, Start DEF NothingOutlivesArena, Alive
<1>8. Parameters'
  BY <1>1, <1>5, Start DEF Parameters
<1> QED
  BY <1>1, <1>2, <1>6, <1>7, <1>8, Start, Unwritten

\* The context that is opened last lies in _tc_dcc, or the program ends.
LEMMA PushInitIInv ==
  ASSUME IInv, _tc_push_init
  PROVE  IInv'
<1>1. /\ phase = "specify" /\ rts' = [rts EXCEPT !.dcp = @ + 1]
      /\ UNCHANGED <<lab, icode, ghost>> /\ phase' \in {"specify", "fatal"}
      /\ \/ rts.dcp > TC_MAXCALL /\ contexts' = contexts
         \/ rts.dcp <= TC_MAXCALL /\ contexts' = [contexts EXCEPT ![rts.dcp] = <<>>]
  <2>1. rts.dcp \in Nat /\ TC_MAXCALL \in Nat /\ phase = "specify"
    BY Start, Fields, TickcAssumption DEF _tc_push_init
  <2> QED
    BY <2>1 DEF _tc_push_init, Fatal
<1>2. /\ rts.dcp \in Nat /\ TC_MAXCALL \in Nat /\ <<>> \in Seq(Cspecs)
      /\ contexts \in [0 .. TC_MAXCALL -> Seq(Cspecs)]
  BY <1>1, Start, Fields, TickcAssumption DEF Shape
<1>3. /\ contexts' \in [0 .. TC_MAXCALL -> Seq(Cspecs)]
      /\ \A d \in 0 .. TC_MAXCALL :
           d < rts.dcp + 1 => contexts'[d] = <<>> \/ (d < rts.dcp /\ contexts'[d] = contexts[d])
  <2>1. CASE rts.dcp > TC_MAXCALL /\ contexts' = contexts
    BY <1>2, <2>1
  <2>2. CASE rts.dcp <= TC_MAXCALL /\ contexts' = [contexts EXCEPT ![rts.dcp] = <<>>]
    <3>1. rts.dcp \in 0 .. TC_MAXCALL
      BY <1>2, <2>2
    <3>2. contexts' \in [0 .. TC_MAXCALL -> Seq(Cspecs)] /\ contexts'[rts.dcp] = <<>>
      BY <1>2, <2>2, <3>1
    <3>3. \A d \in 0 .. TC_MAXCALL : d # rts.dcp => contexts'[d] = contexts[d]
      BY <1>2, <2>2
    <3>4. \A d \in 0 .. TC_MAXCALL : d < rts.dcp + 1 => d = rts.dcp \/ d < rts.dcp
      BY <1>2
    <3> QED
      BY <3>2, <3>3, <3>4
  <2> QED
    BY <1>1, <2>1, <2>2
<1>4. /\ rts'.dcp = rts.dcp + 1 /\ rts'.targets = rts.targets /\ rts'.maxtarg = rts.maxtarg
      /\ rts'.init = rts.init
  BY <1>1, Start DEF Shape
<1>5. Shape'
  <2> DEFINE m == rts.dcp + 1
  <2>1. m \in Nat /\ rts' = [rts EXCEPT !.dcp = m]
    BY <1>1, <1>2
  <2> HIDE DEF m
  <2> QED
    BY <1>1, <1>3, <2>1, Start DEF Shape
<1>6. NothingOutlivesArena'
  BY <1>1, <1>2, <1>3, <1>4, Start DEF NothingOutlivesArena, ToSet, Alive
<1>7. Parameters'
  BY <1>1, <1>4, Start DEF Parameters
<1> QED
  BY <1>1, <1>5, <1>6, <1>7, Start, Unwritten

\* A closure put into a context.
LEMMA ContextIInv ==
  ASSUME IInv, phase = "specify", NEW d \in 0 .. TC_MAXCALL, NEW c \in Alive,
         UNCHANGED <<lab, rts, icode, ghost>>, phase' \in {"specify", "fatal"},
         NEW s \in Seq(Cspecs), ToSet(s) \subseteq ToSet(contexts[d]) \cup {c},
         d < rts.dcp, contexts' \in {contexts, [contexts EXCEPT ![d] = s]}
  PROVE  IInv'
<1>1. contexts \in [0 .. TC_MAXCALL -> Seq(Cspecs)]
  BY Start DEF Shape
<1>2. /\ contexts' \in [0 .. TC_MAXCALL -> Seq(Cspecs)]
      /\ \A b \in 0 .. TC_MAXCALL : contexts'[b] = contexts[b] \/ (b = d /\ contexts'[b] = s)
  BY <1>1
<1>3. Shape'
  BY <1>2, Start DEF Shape
<1>4. NothingOutlivesArena'
  BY <1>2, Start DEF NothingOutlivesArena, Alive
<1>5. Parameters'
  BY Start DEF Parameters
<1> QED
  BY <1>3, <1>4, <1>5, Start, Unwritten

LEMMA PushIInv ==
  ASSUME IInv, NEW d \in 0 .. TC_MAXCALL, NEW c \in Cspecs, _tc_push(d, c)
  PROVE  IInv'
<1> DEFINE s == Append(contexts[d], c)
<1>1. /\ phase = "specify" /\ d < rts.dcp /\ c \in Alive
      /\ UNCHANGED <<lab, rts, icode, ghost>> /\ phase' \in {"specify", "fatal"}
      /\ contexts' \in {contexts, [contexts EXCEPT ![d] = s]}
  BY DEF _tc_push, Fatal
<1>2. s \in Seq(Cspecs) /\ ToSet(s) \subseteq ToSet(contexts[d]) \cup {c}
  <2>1. contexts[d] \in Seq(Cspecs)
    BY <1>1, Start DEF Shape
  <2> QED
    BY <2>1, AppendIs
<1> HIDE DEF s
<1> QED
  BY <1>1, <1>2, ContextIInv

LEMMA ArgIInv ==
  ASSUME IInv, NEW d \in 0 .. TC_MAXCALL, NEW c \in Cspecs, NEW k \in 1 .. TC_MAXPARAM,
         _tc_arg(d, k, c)
  PROVE  IInv'
<1> DEFINE s == [contexts[d] EXCEPT ![k] = c]
<1>1. /\ phase = "specify" /\ d < rts.dcp /\ c \in Alive /\ k \in DOMAIN contexts[d]
      /\ UNCHANGED <<lab, rts, icode, ghost, phase>>
      /\ contexts' = [contexts EXCEPT ![d] = s]
  <2>1. contexts \in [0 .. TC_MAXCALL -> Seq(Cspecs)]
    BY Start DEF Shape, _tc_arg
  <2> QED
    BY <2>1 DEF _tc_arg
<1>2. s \in Seq(Cspecs) /\ ToSet(s) \subseteq ToSet(contexts[d]) \cup {c}
  <2>1. contexts[d] \in Seq(Cspecs)
    BY <1>1, Start DEF Shape
  <2> QED
    BY <1>1, <2>1 DEF ToSet
<1> HIDE DEF s
<1> QED
  BY <1>1, <1>2, ContextIInv

LEMMA SameIInv ==
  ASSUME IInv, UNCHANGED vars
  PROVE  IInv'
<1>1. Shape' /\ NothingOutlivesArena' /\ Parameters'
  BY DEF IInv, vars, Shape, NothingOutlivesArena, Alive, Parameters
<1>2. Numbers' /\ Buffer' /\ Specifying' /\ Generating'
  BY DEF IInv, vars, Numbers, Buffer, Specifying, Generating, Targets
<1> QED
  BY <1>1, <1>2 DEF IInv, vars

\* What _tc_local and _tc_param find after they made sure that icode is ready.
LEMMA Ensured ==
  ASSUME IInv
  PROVE  /\ EnsureInit.icode \in IcodeState
         /\ EnsureInit.icode.buf = (IF rts.init THEN icode.buf ELSE <<>>)
         /\ EnsureInit.icode.params_cur = icode.params_cur
         /\ EnsureInit.icode.lab_cur = icode.lab_cur
         /\ EnsureInit.ghost.given = {k \in Slots : EnsureInit.icode.params[k]}
         /\ EnsureInit.rts = [rts EXCEPT !.init = TRUE]
         /\ EnsureInit.ghost.ready
         /\ \E b \in {TRUE} : EnsureInit.ghost = [ghost EXCEPT !.ready = b]
<1>1. Shape /\ Parameters /\ NothingOutlivesArena
  BY DEF IInv
<1>2. CASE rts.init
  <2>1. EnsureInit = [icode |-> icode, rts |-> rts, ghost |-> ghost]
    BY <1>2 DEF EnsureInit
  <2>2. rts = [rts EXCEPT !.init = TRUE]
    BY <1>1, <1>2 DEF Shape
  <2>3. ghost.ready = TRUE /\ ghost = [ghost EXCEPT !.ready = TRUE]
    BY <1>1, <1>2 DEF Shape, NothingOutlivesArena
  <2> QED
    BY <1>1, <1>2, <2>1, <2>2, <2>3 DEF Shape, Parameters
<1>3. CASE ~rts.init
  <2> DEFINE fresh == [k \in Slots |-> FALSE]
  <2>1. EnsureInit = [icode |-> [icode EXCEPT !.buf = <<>>, !.params = fresh],
                      rts |-> [rts EXCEPT !.init = TRUE], ghost |-> [ghost EXCEPT !.ready = TRUE]]
    BY <1>3 DEF EnsureInit, i_init
  <2>2. fresh \in [Slots -> BOOLEAN] /\ {k \in Slots : fresh[k]} = {} /\ <<>> \in Seq(Instructions)
    OBVIOUS
  <2>3. ghost.given = {}
    BY <1>1, <1>3 DEF Parameters
  <2> HIDE DEF fresh
  <2>4. /\ EnsureInit.icode = [icode EXCEPT !.buf = <<>>, !.params = fresh]
        /\ EnsureInit.rts = [rts EXCEPT !.init = TRUE]
        /\ EnsureInit.ghost = [ghost EXCEPT !.ready = TRUE]
    BY <2>1
  <2>5. /\ EnsureInit.icode \in IcodeState
        /\ EnsureInit.icode.buf = <<>> /\ EnsureInit.icode.params = fresh
        /\ EnsureInit.icode.params_cur = icode.params_cur
        /\ EnsureInit.icode.lab_cur = icode.lab_cur
    BY <1>1, <2>2, <2>4 DEF Shape
  <2>6. EnsureInit.ghost.given = {} /\ EnsureInit.ghost.ready
    BY <1>1, <2>3, <2>4 DEF Shape
  <2> QED
    BY <1>3, <2>2, <2>4, <2>5, <2>6
<1> QED
  BY <1>2, <1>3

\* Initialising icode on the way.
LEMMA EnsureIInv ==
  ASSUME IInv, icode' = EnsureInit.icode, rts' = EnsureInit.rts, ghost' = EnsureInit.ghost,
         UNCHANGED <<lab, contexts>>, phase' \in {phase, "fatal"}
  PROVE  IInv'
<1>1. Shape /\ Parameters /\ NothingOutlivesArena /\ Numbers /\ Buffer /\ Specifying /\ Generating
      /\ icode.lab_cur >= min_lab /\ phase # "assertion"
  BY DEF IInv
<1>2. /\ icode'.buf = (IF rts.init THEN icode.buf ELSE <<>>)
      /\ icode'.params_cur = icode.params_cur /\ icode'.lab_cur = icode.lab_cur
      /\ rts' = [rts EXCEPT !.init = TRUE] /\ ghost'.ready
      /\ ghost'.given = {k \in Slots : icode'.params[k]}
  BY Ensured
<1>3. rts' \in RtsState
      /\ rts'.init /\ rts'.targets = rts.targets /\ rts'.maxtarg = rts.maxtarg /\ rts'.dcp = rts.dcp
  <2>1. rts \in RtsState /\ rts' = [rts EXCEPT !.init = TRUE]
    BY <1>1, <1>2 DEF Shape
  <2>2. rts' \in RtsState /\ rts'.init
    BY <2>1 DEF RtsState
  <2>3. rts'.targets = rts.targets /\ rts'.maxtarg = rts.maxtarg /\ rts'.dcp = rts.dcp
    BY <2>1 DEF RtsState
  <2> QED
    BY <2>2, <2>3
<1>4. PICK b \in {TRUE} : ghost' = [ghost EXCEPT !.ready = b]
  BY Ensured
<1>5. /\ ghost' \in GhostState
      /\ ghost'.capacity = ghost.capacity /\ ghost'.given = ghost.given
      /\ ghost'.early = ghost.early /\ ghost'.emitted = ghost.emitted
  BY <1>1, <1>4 DEF Shape
<1>6. Shape'
  BY <1>1, <1>3, <1>5, Ensured DEF Shape
<1>7. NothingOutlivesArena'
  BY <1>1, <1>2, <1>3, <1>5 DEF NothingOutlivesArena, Alive
<1>8. Numbers' /\ Buffer'
  BY <1>1, <1>2 DEF Numbers, Buffer
<1>9. Parameters'
  <2>0. icode'.params_cur <= TC_MAXPARAM
    BY <1>1, <1>2 DEF Parameters
  <2>1. \A k \in ghost'.given : k < icode'.params_cur
    BY <1>1, <1>2, <1>5 DEF Parameters
  <2> QED
    BY <1>2, <1>3, <2>0, <2>1 DEF Parameters
<1>10. Specifying' /\ Generating'
  BY <1>1, <1>2, <1>3, <1>5 DEF Specifying, Generating, Targets
<1> QED
  BY <1>1, <1>2, <1>6, <1>7, <1>8, <1>9, <1>10 DEF IInv

LEMMA LocalIInv ==
  ASSUME IInv, _tc_local
  PROVE  IInv'
  BY EnsureIInv DEF _tc_local

LEMMA ParamIInv ==
  ASSUME IInv, NEW k \in 0 .. TC_MAXPARAM, _tc_param(k)
  PROVE  IInv'
<1> DEFINE e == EnsureInit
<1>1. phase = "specify" /\ rts' = e.rts /\ UNCHANGED <<lab, contexts>>
  BY DEF _tc_param
<1>2. CASE k >= TC_MAXPARAM
  <2>1. phase' = "fatal" /\ icode' = e.icode /\ ghost' = e.ghost
    BY <1>2 DEF _tc_param, Fatal
  <2> QED
    BY <1>1, <2>1, EnsureIInv
<1>3. CASE ~(k >= TC_MAXPARAM)
  <2> DEFINE n == IF k >= e.icode.params_cur THEN k + 1 ELSE e.icode.params_cur
  <2>1. /\ icode' = [e.icode EXCEPT !.params[k] = TRUE, !.params_cur = n]
        /\ ghost' = [e.ghost EXCEPT !.given = @ \cup {k}] /\ phase' = phase
    BY <1>3 DEF _tc_param
  <2>2. k \in Slots /\ k \in Nat
    BY <1>3, TickcAssumption DEF Slots
  <2>3. /\ Shape /\ NothingOutlivesArena /\ Parameters
        /\ icode.buf = <<>> /\ icode.lab_cur >= min_lab
        /\ \A c \in Cspecs : lab[c] \in {Dead, 0}
    BY <1>1, Start
  <2>4. /\ e.icode.params \in [Slots -> BOOLEAN] /\ e.icode.params_cur \in Nat /\ e.icode.buf = <<>>
        /\ e.icode.params_cur = icode.params_cur /\ e.icode.lab_cur = icode.lab_cur
        /\ e.ghost.given = {j \in Slots : e.icode.params[j]}
        /\ e.rts = [rts EXCEPT !.init = TRUE] /\ e.ghost.ready
    BY <2>3, Ensured
  <2>5. n \in Nat /\ n > k /\ n >= e.icode.params_cur
    BY <2>2, <2>4
  <2>6. /\ icode' \in IcodeState
        /\ icode'.buf = <<>> /\ icode'.lab_cur = icode.lab_cur /\ icode'.params_cur = n
        /\ icode'.params = [e.icode.params EXCEPT ![k] = TRUE]
    <3> DEFINE p == [e.icode.params EXCEPT ![k] = TRUE]
    <3>1. p \in [Slots -> BOOLEAN]
      BY <2>2, <2>4
    <3>2. icode' = [e.icode EXCEPT !.params = p, !.params_cur = n]
      BY <2>1
    <3> HIDE DEF p, n, e
    <3>3. e.icode \in IcodeState
      BY Ensured DEF e
    <3>4. /\ icode' \in IcodeState
          /\ icode'.buf = e.icode.buf /\ icode'.lab_cur = e.icode.lab_cur /\ icode'.params_cur = n
          /\ icode'.params = p
      BY <2>5, <3>1, <3>2, <3>3
    <3> QED
      BY <2>4, <3>4 DEF p
  <2>7. PICK b \in {TRUE} : e.ghost = [ghost EXCEPT !.ready = b]
    BY Ensured
  <2>8. /\ ghost' \in GhostState
        /\ ghost'.capacity = ghost.capacity /\ ghost'.ready /\ e.ghost.given = ghost.given
        /\ ghost'.given = ghost.given \cup {k}
    <3> DEFINE g == ghost.given \cup {k}
    <3>1. g \in SUBSET Slots
      BY <2>2, <2>3, Fields
    <3>2. e.ghost.given = ghost.given /\ ghost' = [[ghost EXCEPT !.ready = b] EXCEPT !.given = g]
      BY <2>1, <2>3, <2>7 DEF Shape
    <3> HIDE DEF g
    <3>3. b \in BOOLEAN /\ b
      BY <2>7
    <3>4. /\ ghost' \in GhostState
          /\ ghost'.capacity = ghost.capacity /\ ghost'.given = g /\ ghost'.ready = b
      BY <2>3, <3>1, <3>2, <3>3 DEF Shape
    <3> QED
      BY <3>2, <3>3, <3>4 DEF g
  <2>9. /\ rts' \in RtsState
        /\ rts'.init /\ rts'.targets = rts.targets /\ rts'.maxtarg = rts.maxtarg
        /\ rts'.dcp = rts.dcp
    BY <1>1, <2>3, <2>4 DEF Shape
  <2> HIDE DEF n, e
  <2>10. Shape'
    BY <1>1, <2>3, <2>6, <2>8, <2>9 DEF Shape
  <2>11. NothingOutlivesArena'
    BY <1>1, <2>3, <2>8, <2>9 DEF NothingOutlivesArena, Alive
  <2>12. Parameters'
    <3>1. \A j \in ghost'.given : j < icode'.params_cur
      <4> SUFFICES ASSUME NEW j \in ghost'.given PROVE j < n
        BY <2>6
      <4>1. CASE j = k
        BY <2>2, <2>5, <4>1
      <4>2. CASE j \in ghost.given
        <5>1. j < icode.params_cur
          BY <2>3, <4>2 DEF Parameters
        <5>2. j \in Nat
          BY <2>3, <4>2, Fields, TickcAssumption DEF Slots
        <5> QED
          BY <2>4, <2>5, <5>1, <5>2
      <4> QED
        BY <2>8, <4>1, <4>2
    <3>2. ghost'.given = {j \in Slots : icode'.params[j]}
      BY <2>2, <2>4, <2>6, <2>8
    <3>3. n <= TC_MAXPARAM
      BY <1>3, <2>2, <2>3, <2>4, TickcAssumption DEF Parameters, n
    <3> QED
      BY <2>6, <2>9, <3>1, <3>2, <3>3 DEF Parameters
  <2> QED
    BY <1>1, <2>1, <2>3, <2>6, <2>10, <2>11, <2>12, Unwritten
<1> QED
  BY <1>2, <1>3

LEMMA SetPhaseIInv ==
  ASSUME IInv, NEW q \in {"closures", "IIR", "icode"}, SetPhase(q)
  PROVE  IInv'
<1>1. /\ phase = "specify" /\ UNCHANGED <<lab, contexts, phase, ghost>>
      /\ \/ icode' = [icode EXCEPT !.quit = TRUE] /\ rts' = rts
         \/ rts' = [rts EXCEPT !.quit = q] /\ icode' = icode
  BY DEF SetPhase
<1>2. /\ rts'.init = rts.init /\ rts'.targets = rts.targets /\ rts'.maxtarg = rts.maxtarg
      /\ rts'.dcp = rts.dcp /\ icode'.buf = icode.buf /\ icode'.lab_cur = icode.lab_cur
      /\ icode'.params = icode.params /\ icode'.params_cur = icode.params_cur
  BY <1>1, Start DEF Shape
<1>3. Shape'
  BY <1>1, Start DEF Shape
<1>4. NothingOutlivesArena'
  BY <1>1, <1>2, Start DEF NothingOutlivesArena, Alive
<1>5. Parameters'
  BY <1>1, <1>2, Start DEF Parameters
<1> QED
  BY <1>1, <1>2, <1>3, <1>4, <1>5, Start, Unwritten

\* Whichever way a compile ends, nothing is left of it.
LEMMA LeaveIInv ==
  ASSUME IInv, NEW ic \in IcodeState,
         NEW r \in {"null", "code"}, Leave(ic, r)
  PROVE  IInv'
<1>1. Shape
  BY DEF IInv
<1>2. /\ rts' = [rts EXCEPT !.dcp = 0, !.targets = <<>>, !.maxtarg = 0, !.init = FALSE]
      /\ icode' = [ic EXCEPT !.buf = <<>>, !.lab_cur = min_lab, !.params_cur = 0,
                             !.aggregate = FALSE]
      /\ lab' = [c \in Cspecs |-> Dead] /\ phase' = "specify" /\ contexts' = contexts
      /\ ghost' = [ghost EXCEPT !.ready = FALSE, !.capacity = 0, !.emitted = <<>>,
                                !.given = {}, !.early = FALSE, !.result = r]
  BY DEF Leave, _tc_cleanup_compile, i_reset
<1>3. /\ rts' \in RtsState
      /\ rts'.init = FALSE /\ rts'.targets = <<>> /\ rts'.maxtarg = 0 /\ rts'.dcp = 0
  <2>1. <<>> \in Seq(Cspecs)
    OBVIOUS
  <2> QED
    BY <1>1, <1>2, <2>1 DEF Shape
<1>4. /\ icode' \in IcodeState
      /\ icode'.buf = <<>> /\ icode'.lab_cur = min_lab /\ icode'.params_cur = 0
  <2>1. <<>> \in Seq(Instructions) /\ min_lab \in Nat
    BY DEF min_lab
  <2> QED
    BY <1>2, <2>1
<1>5. /\ ghost' \in GhostState
      /\ ghost'.capacity = 0 /\ ghost'.given = {} /\ ghost'.result = r
  <2>1. <<>> \in Seq(Instructions)
    OBVIOUS
  <2> QED
    BY <1>1, <1>2, <2>1 DEF Shape
<1>6. lab' \in [Cspecs -> Int] /\ \A c \in Cspecs : lab'[c] = Dead
  BY <1>2 DEF Dead
<1>7. Shape'
  BY <1>1, <1>2, <1>3, <1>4, <1>5, <1>6 DEF Shape
<1>8. NothingOutlivesArena'
  BY <1>3, <1>5 DEF NothingOutlivesArena, ToSet
<1>9. Parameters'
  BY <1>3, <1>4, <1>5, TickcAssumption DEF Parameters
<1> QED
  BY <1>2, <1>4, <1>6, <1>7, <1>8, <1>9, Unwritten DEF min_lab

LEMMA ClosuresOnlyIInv ==
  ASSUME IInv, NEW aggregate \in BOOLEAN, CompileClosuresOnly(aggregate)
  PROVE  IInv'
<1> DEFINE b == aggregate \/ icode.aggregate
           ic == [icode EXCEPT !.aggregate = b]
<1>1. Leave(ic, "null")
  BY DEF CompileClosuresOnly
<1>2. ic \in IcodeState
  <2>1. b \in BOOLEAN
    OBVIOUS
  <2> HIDE DEF b
  <2> QED
    BY <2>1 DEF IInv, Shape
<1> HIDE DEF ic
<1> QED
  BY <1>1, <1>2, LeaveIInv

LEMMA CompileEndIInv ==
  ASSUME IInv, CompileEnd
  PROVE  IInv'
<1>1. Shape /\ phase = "generate"
  BY DEF IInv, CompileEnd
<1>2. CASE rts.quit # "IIR" /\ IncompleteParams
  <2>1. phase' = "fatal" /\ UNCHANGED <<lab, rts, contexts, icode, ghost>>
    BY <1>2 DEF CompileEnd, Fatal
  <2>2. Shape' /\ NothingOutlivesArena' /\ Parameters'
    BY <2>1 DEF IInv, Shape, NothingOutlivesArena, Alive, Parameters
  <2>3. Numbers' /\ Buffer' /\ Specifying' /\ Generating'
    BY <2>1 DEF IInv, Numbers, Buffer, Specifying, Generating
  <2> QED
    BY <2>1, <2>2, <2>3 DEF IInv
<1>3. CASE ~(rts.quit # "IIR" /\ IncompleteParams)
  <2>1. Leave(icode, "null") \/ Leave(icode, "code")
    BY <1>3 DEF CompileEnd
  <2>2. icode \in IcodeState
    BY <1>1 DEF Shape
  <2> QED
    BY <2>1, <2>2, LeaveIInv
<1> QED
  BY <1>2, <1>3

-----------------------------------------------------------------------------
(* While a function is generated.                                          *)

\* Instructions that carry a cspec's number, or a new one and a mark that no
\* cspec is.
LEMMA AppendedIInv ==
  ASSUME IInv, phase = "generate", UNCHANGED <<lab, rts, contexts, phase>>,
         NEW s \in Seq(Instructions), NEW n \in Nat, n >= icode.lab_cur, NEW id \in Int \ Cspecs,
         icode' = [icode EXCEPT !.buf = icode.buf \o s, !.lab_cur = n],
         ghost' = [ghost EXCEPT !.emitted = ghost.emitted \o s],
         \A k \in DOMAIN s : Branching(s[k]) =>
           \/ s[k].of \in Cspecs /\ lab[s[k].of] = s[k].l /\ s[k].l > 0
           \/ s[k].of = id /\ s[k].l = icode.lab_cur /\ s[k].l < n
  PROVE  IInv'
<1>1. /\ Shape /\ Numbers /\ Buffer /\ Parameters /\ NothingOutlivesArena /\ Generating
      /\ icode.lab_cur >= min_lab
      /\ icode.buf \in Seq(Instructions) /\ ghost.emitted \in Seq(Instructions)
      /\ icode.lab_cur \in Nat /\ lab \in [Cspecs -> Int]
  BY DEF IInv, Shape
<1>2. /\ icode.buf \o s \in Seq(Instructions) /\ ghost.emitted \o s \in Seq(Instructions)
      /\ \A i \in DOMAIN (icode.buf \o s) :
           \/ i \in DOMAIN icode.buf /\ (icode.buf \o s)[i] = icode.buf[i]
           \/ \E k \in DOMAIN s : (icode.buf \o s)[i] = s[k]
  BY <1>1, ConcatIs
<1>3. /\ icode' \in IcodeState /\ icode'.buf = icode.buf \o s /\ icode'.lab_cur = n
      /\ icode'.params = icode.params /\ icode'.params_cur = icode.params_cur
  BY <1>1, <1>2 DEF Shape
<1>4. /\ ghost' \in GhostState /\ ghost'.emitted = ghost.emitted \o s
      /\ ghost'.capacity = ghost.capacity /\ ghost'.ready = ghost.ready
      /\ ghost'.given = ghost.given /\ ghost'.early = ghost.early
  BY <1>1, <1>2 DEF Shape
<1>5. Shape'
  BY <1>1, <1>3, <1>4 DEF Shape
<1>6. NothingOutlivesArena' /\ Parameters'
  BY <1>1, <1>3, <1>4 DEF NothingOutlivesArena, Alive, Parameters
<1>7. Numbers'
  BY <1>1, <1>3 DEF Numbers, min_lab
<1>8. Specifying' /\ Generating'
  BY <1>1, <1>3, <1>4 DEF Specifying, Generating, Targets
<1>9. \A c \in Cspecs : lab[c] \in Int /\ lab[c] < icode.lab_cur /\ (lab[c] > 0 => lab[c] >= min_lab)
  BY <1>1 DEF Numbers, Dead, min_lab
<1>10. ASSUME NEW i \in DOMAIN icode'.buf, Branching(icode'.buf[i])
       PROVE  /\ icode'.buf[i].l \in min_lab .. n - 1
              /\ icode'.buf[i].of \in Cspecs => lab[icode'.buf[i].of] = icode'.buf[i].l
              /\ icode'.buf[i].of \notin Cspecs =>
                   /\ \A c \in Cspecs : lab[c] # icode'.buf[i].l
                   /\ \A j \in DOMAIN icode'.buf :
                        Branching(icode'.buf[j]) /\ icode'.buf[j].l = icode'.buf[i].l
                          => icode'.buf[j].of = icode'.buf[i].of
  <2> DEFINE new(x) == /\ x.of = id /\ x.l = icode.lab_cur /\ x.l < n
             own(x) == /\ x.of \in Cspecs /\ lab[x.of] = x.l /\ x.l > 0
             old(x) == \E j \in DOMAIN icode.buf : x = icode.buf[j]
  <2>1. ASSUME NEW j \in DOMAIN icode'.buf, Branching(icode'.buf[j])
        PROVE  new(icode'.buf[j]) \/ own(icode'.buf[j]) \/ old(icode'.buf[j])
    BY <1>2, <1>3, <2>1 DEF new, own, old
  <2> DEFINE x == icode'.buf[i]
  <2> HIDE DEF new, own, old
  <2>2. CASE old(x)
    <3>1. PICK k \in DOMAIN icode.buf : x = icode.buf[k]
      BY <2>2 DEF old
    <3>2. /\ x.l \in min_lab .. icode.lab_cur - 1
          /\ x.of \in Cspecs => lab[x.of] = x.l
          /\ x.of \notin Cspecs =>
               /\ \A c \in Cspecs : lab[c] # x.l
               /\ \A j \in DOMAIN icode.buf :
                    Branching(icode.buf[j]) /\ icode.buf[j].l = x.l => icode.buf[j].of = x.of
      <4>1. Branching(icode.buf[k])
        BY <1>10, <3>1
      <4>2. LET w == icode.buf[k] IN
            /\ w.l \in min_lab .. icode.lab_cur - 1
            /\ w.of \in Cspecs => lab[w.of] = w.l
            /\ w.of \notin Cspecs =>
                 /\ \A c \in Cspecs : lab[c] # w.l
                 /\ \A j \in DOMAIN icode.buf :
                      Branching(icode.buf[j]) /\ icode.buf[j].l = w.l => icode.buf[j].of = w.of
        BY <1>1, <4>1, Zenon DEF Buffer
      <4> HIDE DEF x
      <4> QED
        BY <3>1, <4>2, Zenon
    <3>3. x.l \in min_lab .. n - 1 /\ x.l # icode.lab_cur
      <4>1. icode.lab_cur \in Nat /\ x.l \in min_lab .. icode.lab_cur - 1
        BY <1>1, <3>2
      <4> HIDE DEF x
      <4> QED
        BY <4>1 DEF min_lab
    <3>4. ASSUME x.of \notin Cspecs, NEW j \in DOMAIN icode'.buf, Branching(icode'.buf[j]),
                 icode'.buf[j].l = x.l
          PROVE  icode'.buf[j].of = x.of
      <4>1. ~new(icode'.buf[j]) /\ ~own(icode'.buf[j])
        BY <3>2, <3>3, <3>4 DEF new, own
      <4>2. PICK m \in DOMAIN icode.buf : icode'.buf[j] = icode.buf[m]
        BY <2>1, <3>4, <4>1 DEF old
      <4> QED
        BY <3>2, <3>4, <4>2
    <3> QED
      BY <3>2, <3>3, <3>4
  <2>3. CASE own(x)
    <3>1. x.l \in min_lab .. n - 1
      <4>1. x.of \in Cspecs /\ lab[x.of] = x.l /\ x.l > 0
        BY <2>3 DEF own
      <4>2. x.l \in Int /\ x.l < icode.lab_cur /\ x.l >= min_lab
        BY <1>9, <4>1
      <4> HIDE DEF x
      <4> QED
        BY <1>1, <4>2 DEF min_lab
    <3> QED
      BY <2>3, <3>1 DEF own
  <2>4. CASE new(x)
    <3>1. x.l \in min_lab .. n - 1 /\ x.of \notin Cspecs
      <4>1. x.of = id /\ x.l = icode.lab_cur /\ x.l < n
        BY <2>4 DEF new
      <4> HIDE DEF x
      <4> QED
        BY <1>1, <4>1 DEF min_lab
    <3>2. \A c \in Cspecs : lab[c] # x.l
      BY <1>1, <1>9, <2>4 DEF new
    <3>3. ASSUME NEW j \in DOMAIN icode'.buf, Branching(icode'.buf[j]), icode'.buf[j].l = x.l
          PROVE  icode'.buf[j].of = x.of
      <4>1. ~own(icode'.buf[j])
        BY <3>2, <3>3 DEF own
      <4>2. ~old(icode'.buf[j])
        <5> SUFFICES ASSUME NEW m \in DOMAIN icode.buf, icode'.buf[j] = icode.buf[m]
                     PROVE  FALSE
          BY DEF old
        <5>1. icode.buf[m].l \in min_lab .. icode.lab_cur - 1
          BY <1>1, <3>3 DEF Buffer
        <5> QED
          BY <1>1, <2>4, <3>3, <5>1 DEF min_lab, new
      <4> QED
        BY <2>1, <2>4, <3>3, <4>1, <4>2 DEF new
    <3> QED
      BY <3>1, <3>2, <3>3
  <2> QED
    BY <1>10, <2>1, <2>2, <2>3, <2>4
<1>11. Buffer'
  <2>1. lab' = lab /\ icode'.lab_cur = n
    BY <1>3
  <2> SUFFICES ASSUME NEW i \in DOMAIN icode'.buf, Branching(icode'.buf[i])
               PROVE  /\ icode'.buf[i].l \in min_lab .. icode'.lab_cur - 1
                      /\ icode'.buf[i].of \in Cspecs => lab'[icode'.buf[i].of] = icode'.buf[i].l
                      /\ icode'.buf[i].of \notin Cspecs =>
                           /\ \A c \in Cspecs : lab'[c] # icode'.buf[i].l
                           /\ \A j \in DOMAIN icode'.buf :
                                Branching(icode'.buf[j]) /\ icode'.buf[j].l = icode'.buf[i].l
                                  => icode'.buf[j].of = icode'.buf[i].of
    BY DEF Buffer, Branching
  <2>2. /\ icode'.buf[i].l \in min_lab .. n - 1
        /\ icode'.buf[i].of \in Cspecs => lab[icode'.buf[i].of] = icode'.buf[i].l
        /\ icode'.buf[i].of \notin Cspecs =>
             /\ \A c \in Cspecs : lab[c] # icode'.buf[i].l
             /\ \A j \in DOMAIN icode'.buf :
                  Branching(icode'.buf[j]) /\ icode'.buf[j].l = icode'.buf[i].l
                    => icode'.buf[j].of = icode'.buf[i].of
    BY <1>10
  <2> QED
    BY <2>1, <2>2
<1>12. icode'.lab_cur >= min_lab
  BY <1>1, <1>3 DEF min_lab
<1> QED
  BY <1>5, <1>6, <1>7, <1>8, <1>11, <1>12 DEF IInv

LEMMA EmitIInv ==
  ASSUME IInv, phase = "generate", NEW s \in Seq(Instructions), Emit(s),
         UNCHANGED <<lab, rts, contexts, phase>>,
         \A k \in DOMAIN s : Branching(s[k]) =>
           s[k].of \in Cspecs /\ lab[s[k].of] = s[k].l /\ s[k].l > 0
  PROVE  IInv'
<1>1. icode \in IcodeState /\ ghost \in GhostState
  BY DEF IInv, Shape
<1>2. /\ icode' = [icode EXCEPT !.buf = icode.buf \o s, !.lab_cur = icode.lab_cur]
      /\ ghost' = [ghost EXCEPT !.emitted = ghost.emitted \o s]
  BY <1>1 DEF Emit
<1>3. -1 \in Int \ Cspecs /\ icode.lab_cur \in Nat /\ icode.lab_cur >= icode.lab_cur
  BY <1>1 DEF Cspecs
<1> QED
  BY <1>2, <1>3, AppendedIInv

LEMMA OperateIInv ==
  ASSUME IInv, Operate
  PROVE  IInv'
<1> DEFINE s == <<Insn("op", 0, 0)>>
<1>1. phase = "generate" /\ Emit(s) /\ UNCHANGED <<lab, rts, contexts, phase>>
  BY DEF Operate
<1>2. Insn("op", 0, 0) \in Instructions /\ ~Branching(Insn("op", 0, 0))
  BY DEF Insn, Instructions, Branching
<1>3. s \in Seq(Instructions) /\ \A k \in DOMAIN s : s[k] = Insn("op", 0, 0)
  BY <1>2
<1> HIDE DEF s
<1> QED
  BY <1>1, <1>2, <1>3, EmitIInv

LEMMA JumpIInv ==
  ASSUME IInv, NEW c \in Cspecs, _tc_jump(c)
  PROVE  IInv'
<1> DEFINE x == Insn("jp", lab[c], c)
           s == <<x>>
<1>1. lab[c] \in Int /\ c \in Int /\ lab[c] > 0
  <2>1. \E i \in 1 .. Len(rts.targets) : rts.targets[i] = c
    BY DEF _tc_jump, Contains
  <2>2. rts.targets \in Seq(Cspecs) /\ lab \in [Cspecs -> Int] /\ phase = "generate" /\ Generating
    BY DEF IInv, Shape, _tc_jump
  <2>3. c \in Targets
    BY <2>1, <2>2 DEF Targets
  <2> QED
    BY <2>2, <2>3, TickcAssumption DEF Generating, Cspecs
<1>2. phase = "generate" /\ Emit(s) /\ UNCHANGED <<lab, rts, contexts, phase>>
  BY <1>1 DEF _tc_jump
<1>3. x \in Instructions /\ x.of = c /\ x.l = lab[c]
  BY <1>1 DEF Insn, Instructions
<1> HIDE DEF x
<1>4. s \in Seq(Instructions) /\ \A k \in DOMAIN s : s[k] = x
  BY <1>3
<1> HIDE DEF s
<1> QED
  BY <1>1, <1>2, <1>3, <1>4, EmitIInv

LEMMA LabelIInv ==
  ASSUME IInv, NEW c \in Cspecs, _tc_label(c)
  PROVE  IInv'
<1> DEFINE x == Insn("lbl", lab[c], c)
           s == <<x>>
<1>1. lab[c] \in Int /\ c \in Int /\ lab[c] > 0
  <2>1. lab[c] # Dead /\ lab[c] # 0
    BY DEF _tc_label, Alive
  <2>2. lab[c] \in min_lab .. icode.lab_cur - 1 /\ c \in Int
    BY <2>1, TickcAssumption DEF IInv, Numbers, Cspecs
  <2> QED
    BY <2>2 DEF min_lab
<1>2. phase = "generate" /\ Emit(s) /\ UNCHANGED <<lab, rts, contexts, phase>>
  BY DEF _tc_label
<1>3. x \in Instructions /\ x.of = c /\ x.l = lab[c]
  BY <1>1 DEF Insn, Instructions
<1> HIDE DEF x
<1>4. s \in Seq(Instructions) /\ \A k \in DOMAIN s : s[k] = x
  BY <1>3
<1> HIDE DEF s
<1> QED
  BY <1>1, <1>2, <1>3, <1>4, EmitIInv

LEMMA DargsIInv ==
  ASSUME IInv, NEW d \in 0 .. TC_MAXCALL, _tc_dargs(d)
  PROVE  IInv'
<1> DEFINE s == [k \in DOMAIN contexts[d] |-> Insn("arg", 0, contexts[d][k])]
<1>1. phase = "generate" /\ Emit(s) /\ UNCHANGED <<lab, rts, contexts, phase>>
  BY DEF _tc_dargs
<1>2. contexts[d] \in Seq(Cspecs)
  BY DEF IInv, Shape
<1>3. \A k \in DOMAIN contexts[d] :
        /\ Insn("arg", 0, contexts[d][k]) \in Instructions
        /\ ~Branching(Insn("arg", 0, contexts[d][k]))
  BY <1>2, TickcAssumption DEF Insn, Instructions, Cspecs, Branching
<1>4. s \in Seq(Instructions) /\ \A k \in DOMAIN s : ~Branching(s[k])
  BY <1>2, <1>3
<1> HIDE DEF s
<1> QED
  BY <1>1, <1>4, EmitIInv

LEMMA OwnLoopIInv ==
  ASSUME IInv, OwnLoop
  PROVE  IInv'
<1>1. /\ icode \in IcodeState /\ ghost \in GhostState /\ icode.lab_cur >= min_lab
      /\ phase = "generate" /\ UNCHANGED <<lab, rts, contexts>>
  BY DEF IInv, Shape, OwnLoop
<1>2. CASE icode.lab_cur >= max_lab
  <2>1. phase' = "fatal" /\ UNCHANGED <<lab, rts, contexts, icode, ghost>>
    BY <1>1, <1>2 DEF OwnLoop, Fatal
  <2>2. Shape' /\ NothingOutlivesArena' /\ Parameters'
    BY <2>1 DEF IInv, Shape, NothingOutlivesArena, Alive, Parameters
  <2>3. Numbers' /\ Buffer' /\ Specifying' /\ Generating'
    BY <2>1 DEF IInv, Numbers, Buffer, Specifying, Generating
  <2> QED
    BY <1>1, <2>1, <2>2, <2>3 DEF IInv
<1>3. CASE ~(icode.lab_cur >= max_lab)
  <2> DEFINE l == icode.lab_cur
             id == -(Len(ghost.emitted) + 1)
             x == Insn("lbl", l, id)
             y == Insn("jp", l, id)
             s == <<x, y>>
  <2>1. /\ icode' = [icode EXCEPT !.buf = icode.buf \o s, !.lab_cur = l + 1]
        /\ ghost' = [ghost EXCEPT !.emitted = ghost.emitted \o s] /\ phase' = phase
    BY <1>1, <1>3 DEF OwnLoop
  <2>2. id \in Int \ Cspecs /\ l \in Nat /\ l + 1 \in Nat /\ l + 1 >= l /\ l < l + 1
    BY <1>1 DEF Cspecs
  <2> HIDE DEF l, id
  <2>3. x \in Instructions /\ x.of = id /\ x.l = l /\ y \in Instructions /\ y.of = id /\ y.l = l
    BY <2>2 DEF Insn, Instructions
  <2> HIDE DEF x, y
  <2>4. s \in Seq(Instructions) /\ \A k \in DOMAIN s : s[k] = x \/ s[k] = y
    BY <2>3
  <2> HIDE DEF s
  <2>5. \A k \in DOMAIN s : s[k].of = id /\ s[k].l = icode.lab_cur /\ s[k].l < l + 1
    BY <2>2, <2>3, <2>4 DEF l
  <2>6. l + 1 >= icode.lab_cur
    BY <2>2 DEF l
  <2> QED
    BY <1>1, <2>1, <2>2, <2>4, <2>5, <2>6, AppendedIInv
<1> QED
  BY <1>2, <1>3

-----------------------------------------------------------------------------
(* Numbering the targets.                                                  *)

LEMMA SmallestIs ==
  ASSUME NEW T \in SUBSET Nat, T # {}
  PROVE  \E m \in T : \A k \in T : m <= k
<1>1. PICK m \in T : \A k \in T : <<k, m>> \notin OpToRel(<, Nat)
  BY NatLessThanWellFounded, WFMin, Zenon
<1>2. \A k \in T : ~(k < m)
  BY <1>1, Zenon DEF OpToRel
<1> QED
  BY <1>2

\* Every target met without a number gets one of its own.
LEMMA LabelsGiven ==
  ASSUME IInv, phase = "specify"
  PROVE  /\ Cardinality(Unlabelled) \in Nat
         /\ LabelTargets \in [Cspecs -> Int]
         /\ \A c \in Targets :
              LabelTargets[c] \in icode.lab_cur + 1 .. icode.lab_cur + Cardinality(Unlabelled)
         /\ \A c \in Cspecs : c \notin Targets => LabelTargets[c] = lab[c]
         /\ \A c, d \in Targets : LabelTargets[c] = LabelTargets[d] => c = d
<1> DEFINE U == Unlabelled
           at(i) == rts.targets[i]
           below(i) == {j \in U : j <= i}
<1>1. /\ rts.targets \in Seq(Cspecs) /\ DOMAIN rts.targets = 1 .. Len(rts.targets)
      /\ Len(rts.targets) \in Nat /\ icode.lab_cur \in Nat
      /\ lab \in [Cspecs -> Int] /\ ToSet(rts.targets) \subseteq Alive
      /\ \A c \in Cspecs : lab[c] \in {Dead, 0}
  BY Start, Fields DEF Shape, NothingOutlivesArena
<1>2. /\ U = {i \in DOMAIN rts.targets :
                lab[at(i)] = 0 /\ \A j \in 1 .. i - 1 : at(j) # at(i)}
      /\ U \subseteq 1 .. Len(rts.targets)
  BY <1>1 DEF Unlabelled
<1>3. \A c \in Targets : c \in Cspecs /\ lab[c] = 0
  BY <1>1 DEF Targets, ToSet, Alive
<1>4. \A i \in U : i \in Int /\ at(i) \in Targets
  BY <1>1, <1>2 DEF Targets
<1>5. ASSUME NEW c \in Targets
      PROVE  \E i \in U : at(i) = c
  <2> DEFINE T == {i \in DOMAIN rts.targets : at(i) = c}
  <2>1. T \in SUBSET Nat /\ T # {}
    BY <1>1 DEF Targets
  <2>2. PICK m \in T : \A k \in T : m <= k
    BY <2>1, SmallestIs
  <2>3. ASSUME NEW j \in 1 .. m - 1
        PROVE  at(j) # at(m)
    <3>1. j \in DOMAIN rts.targets /\ ~(m <= j)
      BY <1>1
    <3> QED
      BY <2>2, <3>1
  <2> QED
    BY <1>2, <1>3, <2>3
<1>6. ASSUME NEW i \in U, NEW k \in U, at(i) = at(k)
      PROVE  i = k
  <2>1. i \in Int /\ k \in Int /\ i >= 1 /\ k >= 1
    BY <1>1, <1>2
  <2>2. ~(i < k)
    BY <1>2, <1>6, <2>1
  <2>3. ~(k < i)
    BY <1>2, <1>6, <2>1
  <2> QED
    BY <2>1, <2>2, <2>3
<1> HIDE DEF U
<1>7. IsFiniteSet(U) /\ Cardinality(U) \in Nat
  <2>1. IsFiniteSet(1 .. Len(rts.targets))
    BY <1>1, FS_Interval
  <2> QED
    BY <1>2, <2>1, FS_Subset, FS_CardinalityType
<1>8. ASSUME NEW i \in U
      PROVE  IsFiniteSet(below(i)) /\ Cardinality(below(i)) \in 1 .. Cardinality(U)
  <2>1. below(i) \in SUBSET U /\ i \in below(i)
    BY <1>4
  <2>2. IsFiniteSet(below(i)) /\ Cardinality(below(i)) <= Cardinality(U)
    BY <1>7, <2>1, FS_Subset
  <2>3. Cardinality(below(i)) \in Nat
    BY <2>2, FS_CardinalityType
  <2>4. Cardinality(below(i)) # 0
    BY <2>1, <2>2, FS_EmptySet
  <2> QED
    BY <1>7, <2>2, <2>3, <2>4
<1>9. ASSUME NEW i \in U, NEW k \in U, Cardinality(below(i)) = Cardinality(below(k))
      PROVE  i = k
  <2>1. ASSUME NEW a \in U, NEW b \in U, a < b, Cardinality(below(a)) = Cardinality(below(b))
        PROVE  FALSE
    <3>1. below(a) \in SUBSET below(b) /\ b \in below(b) /\ b \notin below(a)
      BY <1>4, <2>1
    <3>2. IsFiniteSet(below(b))
      BY <1>8
    <3>3. below(b) = below(a)
      BY <2>1, <3>1, <3>2, FS_Subset
    <3> QED
      BY <3>1, <3>3
  <2>2. i < k \/ k < i \/ i = k
    BY <1>4
  <2> QED
    BY <1>9, <2>1, <2>2
<1>10. ASSUME NEW i \in U
       PROVE  LabelTargets[at(i)] = icode.lab_cur + Cardinality(below(i))
  <2>1. at(i) \in Cspecs /\ \E k \in U : at(k) = at(i)
    BY <1>3, <1>4
  <2>2. {j \in U : \E k \in U : at(k) = at(i) /\ j <= k} = below(i)
    BY <1>6
  <2> QED
    BY <2>1, <2>2 DEF LabelTargets, U
<1>11. \A c \in Targets :
         LabelTargets[c] \in icode.lab_cur + 1 .. icode.lab_cur + Cardinality(U)
  <2> SUFFICES ASSUME NEW c \in Targets
               PROVE  LabelTargets[c] \in icode.lab_cur + 1 .. icode.lab_cur + Cardinality(U)
    OBVIOUS
  <2>1. PICK i \in U : at(i) = c
    BY <1>5
  <2>2. Cardinality(below(i)) \in 1 .. Cardinality(U) /\ LabelTargets[c] = icode.lab_cur + Cardinality(below(i))
    BY <1>8, <1>10, <2>1
  <2> HIDE DEF below
  <2> QED
    BY <1>1, <1>7, <2>2
<1>12. \A c \in Cspecs : c \notin Targets => LabelTargets[c] = lab[c]
  BY <1>4 DEF LabelTargets, U
<1>13. LabelTargets \in [Cspecs -> Int]
  <2>1. \A c \in Cspecs : LabelTargets[c] \in Int
    BY <1>1, <1>7, <1>11, <1>12
  <2>2. LabelTargets = [c \in Cspecs |-> LabelTargets[c]]
    BY DEF LabelTargets
  <2> QED
    BY <2>1, <2>2
<1>14. \A c, d \in Targets : LabelTargets[c] = LabelTargets[d] => c = d
  <2> SUFFICES ASSUME NEW c \in Targets, NEW d \in Targets, LabelTargets[c] = LabelTargets[d]
               PROVE  c = d
    OBVIOUS
  <2>1. PICK i \in U : at(i) = c
    BY <1>5
  <2>2. PICK k \in U : at(k) = d
    BY <1>5
  <2>3. Cardinality(below(i)) \in Int /\ Cardinality(below(k)) \in Int
    BY <1>8
  <2>4. icode.lab_cur + Cardinality(below(i)) = icode.lab_cur + Cardinality(below(k))
    BY <1>10, <2>1, <2>2
  <2>5. Cardinality(below(i)) = Cardinality(below(k))
    BY <1>1, <2>3, <2>4
  <2> QED
    BY <1>9, <2>1, <2>2, <2>5
<1> QED
  BY <1>7, <1>11, <1>12, <1>13, <1>14 DEF U

\* Starting a compile: an empty buffer, and a number for each target.
LEMMA CompileStartIInv ==
  ASSUME IInv, NEW aggregate \in BOOLEAN, CompileStart(aggregate)
  PROVE  IInv'
<1> DEFINE ready == IF rts.init THEN icode ELSE i_init(icode)
           b == aggregate \/ ready.aggregate
           ic == [ready EXCEPT !.aggregate = b]
           n == Cardinality(Unlabelled)
<1>1. /\ phase = "specify" /\ UNCHANGED <<rts, contexts>>
      /\ ghost' = [ghost EXCEPT !.early = rts.init, !.ready = TRUE, !.emitted = <<>>,
                                !.result = "none"]
      /\ IF rts.targets = <<>>
         THEN icode' = ic /\ phase' = "generate" /\ UNCHANGED lab
         ELSE IF icode.lab_cur + n + 1 > max_lab
         THEN phase' = "fatal" /\ icode' = ic /\ UNCHANGED lab
         ELSE /\ lab' = LabelTargets
              /\ icode' = [ic EXCEPT !.lab_cur = @ + n + 1]
              /\ phase' = "generate"
  BY DEF CompileStart, Fatal
<1>2. /\ Shape /\ NothingOutlivesArena /\ Parameters /\ rts.init \in BOOLEAN
      /\ icode.buf = <<>> /\ icode.lab_cur >= min_lab /\ icode.lab_cur \in Nat
      /\ \A c \in Cspecs : lab[c] \in {Dead, 0}
  BY <1>1, Start, Fields
<1>3. /\ n \in Nat /\ LabelTargets \in [Cspecs -> Int]
      /\ \A c \in Targets : LabelTargets[c] \in icode.lab_cur + 1 .. icode.lab_cur + n
      /\ \A c \in Cspecs : c \notin Targets => LabelTargets[c] = lab[c]
      /\ \A c, d \in Targets : LabelTargets[c] = LabelTargets[d] => c = d
  BY <1>1, LabelsGiven
<1>4. /\ ready \in IcodeState /\ ready.buf = <<>> /\ ready.lab_cur = icode.lab_cur
      /\ ready.params_cur = icode.params_cur
      /\ rts.init => ready.params = icode.params
  <2>1. <<>> \in Seq(Instructions) /\ [k \in Slots |-> FALSE] \in [Slots -> BOOLEAN]
    OBVIOUS
  <2> QED
    BY <1>2, <2>1 DEF i_init, Shape
<1> HIDE DEF ready
<1>5. /\ ic \in IcodeState /\ ic.buf = <<>> /\ ic.lab_cur = icode.lab_cur
      /\ ic.params_cur = icode.params_cur
      /\ rts.init => ic.params = icode.params
  <2>1. b \in BOOLEAN
    OBVIOUS
  <2> HIDE DEF b
  <2> QED
    BY <1>4, <2>1
<1> HIDE DEF ic
<1>6. /\ ghost' \in GhostState /\ ghost'.early = rts.init /\ ghost'.emitted = <<>>
      /\ ghost'.capacity = ghost.capacity /\ ghost'.given = ghost.given /\ ghost'.ready
  <2> DEFINE e == rts.init
  <2>1. <<>> \in Seq(Instructions) /\ e \in BOOLEAN
    BY <1>2
  <2>2. ghost' = [ghost EXCEPT !.early = e, !.ready = TRUE, !.emitted = <<>>, !.result = "none"]
    BY <1>1
  <2> HIDE DEF e
  <2>3. /\ ghost' \in GhostState /\ ghost'.early = e /\ ghost'.emitted = <<>>
        /\ ghost'.capacity = ghost.capacity /\ ghost'.given = ghost.given /\ ghost'.ready
    BY <1>2, <2>1, <2>2 DEF Shape
  <2> QED
    BY <2>3 DEF e
<1>7. /\ icode' \in IcodeState /\ icode'.buf = <<>>
      /\ icode'.params_cur = icode.params_cur /\ (rts.init => icode'.params = icode.params)
      /\ \/ /\ icode'.lab_cur = icode.lab_cur /\ lab' = lab
            /\ (rts.targets = <<>> /\ phase' = "generate") \/ phase' = "fatal"
         \/ icode'.lab_cur = icode.lab_cur + n + 1 /\ lab' = LabelTargets /\ phase' = "generate"
  <2>1. icode' = ic \/ icode' = [ic EXCEPT !.lab_cur = icode.lab_cur + n + 1]
    BY <1>1, <1>5
  <2>2. icode.lab_cur + n + 1 \in Nat
    BY <1>2, <1>3
  <2> HIDE DEF n
  <2>3. /\ icode' \in IcodeState /\ icode'.buf = <<>>
        /\ icode'.params_cur = icode.params_cur /\ (rts.init => icode'.params = icode.params)
    BY <1>5, <2>1, <2>2
  <2>4. ic.lab_cur = icode.lab_cur
        /\ (icode' = [ic EXCEPT !.lab_cur = ic.lab_cur + n + 1]
              => icode'.lab_cur = icode.lab_cur + n + 1)
    BY <1>5
  <2> QED
    BY <1>1, <2>3, <2>4 DEF n
<1> HIDE DEF n
<1>8. /\ lab' \in [Cspecs -> Int]
      /\ \A c \in Cspecs :
           \/ lab'[c] = lab[c] /\ lab'[c] \in {Dead, 0}
           \/ c \in Targets /\ lab'[c] = LabelTargets[c] /\ icode'.lab_cur = icode.lab_cur + n + 1
  <2>1. CASE lab' = lab
    BY <1>2, <2>1 DEF Shape
  <2>2. CASE lab' = LabelTargets /\ icode'.lab_cur = icode.lab_cur + n + 1
    BY <1>2, <1>3, <2>2
  <2> QED
    BY <1>7, <2>1, <2>2
<1>9. \A c \in Cspecs : c \in Alive => c \in Alive'
  BY <1>2, <1>3, <1>8 DEF Alive, Dead
<1>10. Shape'
  BY <1>1, <1>2, <1>6, <1>7, <1>8 DEF Shape
<1>11. NothingOutlivesArena'
  BY <1>1, <1>2, <1>6, <1>9 DEF NothingOutlivesArena, Alive
<1>12. Parameters'
  <2>1. icode'.params_cur = icode.params_cur /\ ghost'.given = ghost.given /\ rts' = rts
    <3>1. rts' = rts
      BY <1>1
    <3> QED
      BY <1>6, <1>7, <3>1
  <2>2. \A k \in ghost'.given : k < icode'.params_cur
    BY <1>2, <2>1 DEF Parameters
  <2>3. CASE rts.init
    BY <1>2, <1>7, <2>1, <2>2, <2>3 DEF Parameters
  <2>4. CASE ~rts.init
    BY <1>2, <2>1, <2>2, <2>4 DEF Parameters
  <2> QED
    BY <2>3, <2>4
<1>13. Numbers'
  <2>1. ASSUME NEW c \in Cspecs
        PROVE  lab'[c] \in {Dead, 0} \/ lab'[c] \in min_lab .. icode'.lab_cur - 1
    BY <1>2, <1>3, <1>8 DEF min_lab
  <2>2. ASSUME NEW c \in Cspecs, NEW d \in Cspecs, lab'[c] > 0, lab'[c] = lab'[d]
        PROVE  c = d
    BY <1>3, <1>8, <2>2 DEF Dead
  <2> QED
    BY <2>1, <2>2 DEF Numbers
<1>14. Buffer' /\ Specifying'
  BY <1>7 DEF Buffer, Specifying
<1>15. Generating'
  <2>1. Targets' = Targets
    BY <1>1 DEF Targets
  <2>2. ASSUME phase' = "generate", NEW c \in Targets
        PROVE  lab'[c] > 0
    <3>1. CASE rts.targets = <<>>
      BY <3>1 DEF Targets
    <3>2. CASE lab' = LabelTargets
      BY <1>2, <1>3, <3>2
    <3> QED
      BY <1>7, <2>2, <3>1, <3>2
  <2> QED
    BY <1>1, <1>6, <1>7, <2>1, <2>2 DEF Generating
<1>16. icode'.lab_cur >= min_lab /\ phase' # "assertion"
  BY <1>2, <1>3, <1>7 DEF min_lab
<1> QED
  BY <1>10, <1>11, <1>12, <1>13, <1>14, <1>15, <1>16 DEF IInv

-----------------------------------------------------------------------------
(* The theorems.                                                           *)

LEMMA StepIInv ==
  ASSUME IInv, [Next]_vars
  PROVE  IInv'
<1>1. CASE UNCHANGED vars
  BY <1>1, SameIInv
<1>2. ASSUME NEW c \in Cspecs, NewCspec(c) \/ _tc_mktarget(c) \/ _tc_jump(c) \/ _tc_label(c)
      PROVE  IInv'
  BY <1>2, NewCspecIInv, MktargetIInv, JumpIInv, LabelIInv
<1>3. CASE _tc_push_init \/ _tc_local \/ Operate \/ OwnLoop \/ CompileEnd
  BY <1>3, PushInitIInv, LocalIInv, OperateIInv, OwnLoopIInv, CompileEndIInv
<1>4. ASSUME NEW d \in 0 .. TC_MAXCALL, _tc_dargs(d)
      PROVE  IInv'
  BY <1>4, DargsIInv
<1>5. ASSUME NEW d \in 0 .. TC_MAXCALL, NEW c \in Cspecs, _tc_push(d, c)
      PROVE  IInv'
  BY <1>5, PushIInv
<1>6. ASSUME NEW d \in 0 .. TC_MAXCALL, NEW c \in Cspecs, NEW k \in 1 .. TC_MAXPARAM,
             _tc_arg(d, k, c)
      PROVE  IInv'
  BY <1>6, ArgIInv
<1>7. ASSUME NEW k \in 0 .. TC_MAXPARAM, _tc_param(k)
      PROVE  IInv'
  BY <1>7, ParamIInv
<1>8. ASSUME NEW q \in {"closures", "IIR", "icode"}, SetPhase(q)
      PROVE  IInv'
  BY <1>8, SetPhaseIInv
<1>9. ASSUME NEW aggregate \in BOOLEAN,
             CompileStart(aggregate) \/ CompileClosuresOnly(aggregate)
      PROVE  IInv'
  BY <1>9, CompileStartIInv, ClosuresOnlyIInv
<1> QED
  BY <1>1, <1>2, <1>3, <1>4, <1>5, <1>6, <1>7, <1>8, <1>9 DEF Next

\* What every call of the run-time system keeps: numbers are given out once,
\* instructions carry them, and i_params agrees with what was declared.
THEOREM CompileInvariant == Spec => []IInv
<1>1. Init => IInv
  BY InitIInv
<1>2. IInv /\ [Next]_vars => IInv'
  BY StepIInv
<1> QED
  BY <1>1, <1>2, PTL DEF Spec

\* No static variable of the run-time system points into an arena that a
\* compile released, whichever way it ended (tickc-rts.c:393-439).
THEOREM StaticsDieWithTheArena == Spec => []NothingOutlivesArena
<1>1. IInv => NothingOutlivesArena
  BY DEF IInv
<1> QED
  BY <1>1, CompileInvariant, PTL

\* A jump and a label that carry one number were emitted for one destination,
\* and a jump is never emitted before its destination has a number.
THEOREM JumpsReachLabels == Spec => []JumpsReachTheirLabels
<1>1. IInv => JumpsReachTheirLabels
  <2> SUFFICES ASSUME IInv, NEW i \in DOMAIN icode.buf, NEW j \in DOMAIN icode.buf,
                      Branching(icode.buf[i]), Branching(icode.buf[j]),
                      icode.buf[i].l = icode.buf[j].l
               PROVE  icode.buf[i].of = icode.buf[j].of
    BY DEF IInv, JumpsReachTheirLabels, Branching
  <2> DEFINE x == icode.buf[i]
             y == icode.buf[j]
  <2>1. Buffer /\ Numbers
    BY DEF IInv
  <2>2. CASE x.of \in Cspecs /\ y.of \in Cspecs
    <3>1. lab[x.of] = x.l /\ lab[y.of] = x.l /\ x.l > 0
      BY <2>1, <2>2 DEF Buffer, min_lab
    <3> QED
      BY <2>1, <2>2, <3>1 DEF Numbers
  <2>3. CASE x.of \notin Cspecs
    BY <2>1, <2>3 DEF Buffer
  <2>4. CASE y.of \notin Cspecs
    BY <2>1, <2>4 DEF Buffer
  <2> QED
    BY <2>2, <2>3, <2>4
<1> QED
  BY <1>1, CompileInvariant, PTL

\* A function that declared something before compile() keeps every instruction
\* its code generating functions append.
THEOREM NoInstructionIsLost == Spec => []InstructionsKept
<1>1. IInv => InstructionsKept
  BY DEF IInv, Generating, InstructionsKept
<1> QED
  BY <1>1, CompileInvariant, PTL

\* Code comes out only of a function whose parameters were all declared: the
\* check of i_emit (icode.c:342) sees every hole.
THEOREM ParametersComplete == Spec => EmitsOnlyCompleteParams
<1> DEFINE Emits == (phase = "generate" /\ phase' = "specify" /\ ghost'.result = "code")
                      => ghost.given = 0 .. icode.params_cur - 1
<1>1. IInv /\ [Next]_vars => [Emits]_vars
  <2> SUFFICES ASSUME IInv, Next, phase = "generate", phase' = "specify", ghost'.result = "code"
               PROVE  ghost.given = 0 .. icode.params_cur - 1
    BY DEF vars
  <2>1. CompileEnd
    BY DEF Next, NewCspec, _tc_mktarget, _tc_jump, _tc_label, _tc_push_init, _tc_local, Operate,
           OwnLoop, _tc_dargs, _tc_push, _tc_arg, _tc_param, SetPhase, CompileStart,
           CompileClosuresOnly, Fatal
  <2>2. ghost \in GhostState /\ icode \in IcodeState /\ Parameters
    BY DEF IInv, Shape
  <2>3. CASE rts.quit = "IIR"
    <3>1. ghost' = [ghost EXCEPT !.ready = FALSE, !.capacity = 0, !.emitted = <<>>,
                                 !.given = {}, !.early = FALSE, !.result = "null"]
      BY <2>1, <2>3 DEF CompileEnd, Leave
    <3>2. ghost'.result = "null"
      BY <2>2, <3>1
    <3> QED
      BY <3>2
  <2>4. CASE rts.quit # "IIR"
    <3>1. ~IncompleteParams
      BY <2>1, <2>4 DEF CompileEnd, Fatal
    <3>2. \A k \in 0 .. icode.params_cur - 1 : icode.params[k]
      BY <3>1 DEF IncompleteParams
    <3>3. \A k \in ghost.given : k \in 0 .. icode.params_cur - 1
      BY <2>2, TickcAssumption DEF Parameters, Slots
    <3>4. CASE rts.init
      <4>1. \A k \in 0 .. icode.params_cur - 1 : k \in Slots
        BY <2>2, TickcAssumption DEF Parameters, Slots
      <4> QED
        BY <2>2, <3>2, <3>3, <3>4, <4>1 DEF Parameters
    <3>5. CASE ~rts.init
      <4>1. ghost.given = {} /\ icode.params_cur = 0
        BY <2>2, <3>5 DEF Parameters
      <4>2. 0 .. 0 - 1 = {}
        OBVIOUS
      <4> QED
        BY <4>1, <4>2
    <3> QED
      BY <3>4, <3>5
  <2> QED
    BY <2>3, <2>4
<1> QED
  BY <1>1, CompileInvariant, PTL DEF Spec, EmitsOnlyCompleteParams
=============================================================================
