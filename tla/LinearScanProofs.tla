-------------------------- MODULE LinearScanProofs --------------------------
(***************************************************************************)
(* Proofs about the linear-scan register allocator, for any number of      *)
(* locals, any live intervals, any registers and both allocation modes.    *)
(***************************************************************************)
EXTENDS LinearScan, SequenceTheorems, FiniteSetTheorems, WellFoundedInduction, TLAPS

\* The elements of a list, and that none occurs twice.
Elems(s) == {s[i] : i \in DOMAIN s}
Distinct(s) == \A i, j \in DOMAIN s : i # j => s[i] # s[j]

-----------------------------------------------------------------------------
\* What lrexpire leaves is a prefix of the list.
LEMMA PrefixElems ==
  ASSUME NEW S, NEW s \in Seq(S), NEW k \in 0 .. Len(s), Distinct(s)
  PROVE  /\ SubSeq(s, 1, k) \in Seq(S)
         /\ Distinct(SubSeq(s, 1, k))
         /\ Elems(SubSeq(s, 1, k)) = {s[i] : i \in 1 .. k}
<1> DEFINE t == SubSeq(s, 1, k)
<1>1. /\ t \in Seq(S)
      /\ Len(t) = k
      /\ \A i \in 1 .. k : t[i] = s[i]
  BY SubSeqProperties, \A i \in 1 .. k : s[i] \in S
<1> HIDE DEF t
<1>2. DOMAIN t = 1 .. k
  BY <1>1
<1>3. Elems(t) = {s[i] : i \in 1 .. k}
  BY <1>1, <1>2 DEF Elems
<1>4. Distinct(t)
  BY <1>1, <1>2 DEF Distinct
<1> QED
  BY <1>1, <1>3, <1>4 DEF t

\* Taking an element out of a list.
LEMMA RemoveItems ==
  ASSUME NEW S, NEW s \in Seq(S), NEW v \in DOMAIN s
  PROVE  /\ RemoveAt(s, v) \in Seq(S)
         /\ Len(RemoveAt(s, v)) = Len(s) - 1
         /\ \A i \in 1 .. Len(s) - 1 : RemoveAt(s, v)[i] = IF i < v THEN s[i] ELSE s[i + 1]
<1> DEFINE a == SubSeq(s, 1, v - 1)
           b == SubSeq(s, v + 1, Len(s))
           t == RemoveAt(s, v)
<1>0. Len(s) \in Nat /\ v \in 1 .. Len(s) /\ \A i \in 1 .. Len(s) : s[i] \in S
  OBVIOUS
<1>1. /\ a \in Seq(S) /\ Len(a) = v - 1
      /\ \A i \in 1 .. v - 1 : a[i] = s[i]
  BY <1>0, SubSeqProperties
<1>2. /\ b \in Seq(S) /\ Len(b) = Len(s) - v
      /\ \A i \in 1 .. Len(s) - v : b[i] = s[v + i]
  <2>1. \A i \in v + 1 .. Len(s) : s[i] \in S
    BY <1>0
  <2>2. /\ b \in Seq(S)
        /\ Len(b) = IF v + 1 <= Len(s) THEN Len(s) - (v + 1) + 1 ELSE 0
        /\ \A i \in 1 .. Len(s) - (v + 1) + 1 : b[i] = s[(v + 1) + i - 1]
    BY <2>1, <1>0, SubSeqProperties
  <2> QED
    BY <2>2, <1>0
<1>3. t = a \o b
  BY DEF RemoveAt
<1> HIDE DEF a, b, t
<1>4. /\ t \in Seq(S) /\ Len(t) = Len(a) + Len(b)
      /\ \A i \in 1 .. Len(a) + Len(b) : t[i] = IF i <= Len(a) THEN a[i] ELSE b[i - Len(a)]
  BY <1>1, <1>2, <1>3, ConcatProperties
<1>41. Len(t) = Len(s) - 1
  BY <1>0, <1>1, <1>2, <1>4
<1>5. ASSUME NEW i \in 1 .. Len(s) - 1
      PROVE  t[i] = IF i < v THEN s[i] ELSE s[i + 1]
  <2>1. t[i] = IF i <= Len(a) THEN a[i] ELSE b[i - Len(a)]
    BY <1>0, <1>4, <1>41
  <2>2. CASE i < v
    BY <2>1, <2>2, <1>0, <1>1
  <2>3. CASE i >= v
    <3>1. t[i] = b[i - (v - 1)]
      BY <2>1, <2>3, <1>0, <1>1
    <3>2. i - (v - 1) \in 1 .. Len(s) - v /\ v + (i - (v - 1)) = i + 1
      BY <2>3, <1>0
    <3> QED
      BY <3>1, <3>2, <2>3, <1>0, <1>2
  <2> QED
    BY <2>2, <2>3, <1>0
<1> QED
  BY <1>4, <1>41, <1>5 DEF t

LEMMA RemoveElems ==
  ASSUME NEW S, NEW s \in Seq(S), NEW v \in DOMAIN s, Distinct(s)
  PROVE  /\ RemoveAt(s, v) \in Seq(S)
         /\ Len(RemoveAt(s, v)) = Len(s) - 1
         /\ Distinct(RemoveAt(s, v))
         /\ Elems(RemoveAt(s, v)) = Elems(s) \ {s[v]}
<1> DEFINE t == RemoveAt(s, v)
<1>0. Len(s) \in Nat /\ v \in 1 .. Len(s) /\ DOMAIN s = 1 .. Len(s)
  OBVIOUS
<1>4. t \in Seq(S) /\ Len(t) = Len(s) - 1
  BY RemoveItems
<1>5. \A i \in 1 .. Len(s) - 1 : t[i] = IF i < v THEN s[i] ELSE s[i + 1]
  BY RemoveItems
<1> HIDE DEF t
<1>6. DOMAIN t = 1 .. Len(s) - 1
  BY <1>0, <1>4
<1>7. Distinct(t)
  <2>1. ASSUME NEW i \in 1 .. Len(s) - 1, NEW j \in 1 .. Len(s) - 1, t[i] = t[j]
        PROVE  i = j
    <3> DEFINE at(x) == IF x < v THEN x ELSE x + 1
    <3>1. at(i) \in 1 .. Len(s) /\ at(j) \in 1 .. Len(s) /\ (at(i) = at(j) => i = j)
      BY <1>0
    <3>2. t[i] = s[at(i)] /\ t[j] = s[at(j)]
      BY <1>5
    <3> HIDE DEF at
    <3>3. at(i) = at(j)
      BY <1>0, <2>1, <3>1, <3>2 DEF Distinct
    <3> QED
      BY <3>1, <3>3
  <2> QED
    BY <1>6, <2>1 DEF Distinct
<1>8. Elems(t) \subseteq Elems(s) \ {s[v]}
  BY <1>0, <1>5, <1>6 DEF Distinct, Elems
<1>9. Elems(s) \ {s[v]} \subseteq Elems(t)
  <2> SUFFICES ASSUME NEW i \in 1 .. Len(s), i # v
               PROVE  \E j \in 1 .. Len(s) - 1 : t[j] = s[i]
    BY <1>0, <1>6 DEF Elems
  <2>1. CASE i < v
    BY <2>1, <1>0, <1>5
  <2>2. CASE i > v
    <3>1. i - 1 \in 1 .. Len(s) - 1 /\ t[i - 1] = s[i]
      BY <2>2, <1>0, <1>5
    <3> QED
      BY <3>1
  <2> QED
    BY <2>1, <2>2, <1>0
<1> QED
  BY <1>4, <1>7, <1>8, <1>9 DEF t

\* Putting an element into a list.
LEMMA InsertItems ==
  ASSUME NEW S, NEW s \in Seq(S), NEW p \in 0 .. Len(s), NEW x \in S
  PROVE  /\ InsertAt(s, p + 1, x) \in Seq(S)
         /\ Len(InsertAt(s, p + 1, x)) = Len(s) + 1
         /\ \A i \in 1 .. Len(s) + 1 :
              InsertAt(s, p + 1, x)[i] = IF i <= p THEN s[i] ELSE IF i = p + 1 THEN x ELSE s[i - 1]
<1> DEFINE a == SubSeq(s, 1, p)
           b == SubSeq(s, p + 1, Len(s))
           c == a \o <<x>>
           t == InsertAt(s, p + 1, x)
<1>0. Len(s) \in Nat /\ p \in Nat /\ p <= Len(s) /\ \A i \in 1 .. Len(s) : s[i] \in S
  OBVIOUS
<1>1. /\ a \in Seq(S) /\ Len(a) = p
      /\ \A i \in 1 .. p : a[i] = s[i]
  BY <1>0, SubSeqProperties
<1>2. /\ b \in Seq(S) /\ Len(b) = Len(s) - p
      /\ \A i \in 1 .. Len(s) - p : b[i] = s[p + i]
  <2>1. \A i \in p + 1 .. Len(s) : s[i] \in S
    BY <1>0
  <2>2. /\ b \in Seq(S)
        /\ Len(b) = IF p + 1 <= Len(s) THEN Len(s) - (p + 1) + 1 ELSE 0
        /\ \A i \in 1 .. Len(s) - (p + 1) + 1 : b[i] = s[(p + 1) + i - 1]
    BY <2>1, <1>0, SubSeqProperties
  <2> QED
    BY <2>2, <1>0
<1>3. t = c \o b
  <2>1. (p + 1) - 1 = p
    BY <1>0
  <2> QED
    BY <2>1 DEF InsertAt
<1>4. /\ c \in Seq(S) /\ Len(c) = p + 1
      /\ \A i \in 1 .. p + 1 : c[i] = IF i <= p THEN s[i] ELSE x
  <2> HIDE DEF a
  <2>1. <<x>> \in Seq(S) /\ Len(<<x>>) = 1 /\ <<x>>[1] = x
    OBVIOUS
  <2>2. /\ c \in Seq(S) /\ Len(c) = Len(a) + 1
        /\ \A i \in 1 .. Len(a) + 1 : c[i] = IF i <= Len(a) THEN a[i] ELSE <<x>>[i - Len(a)]
    BY <1>1, <2>1, ConcatProperties
  <2> HIDE DEF c
  <2> QED
    BY <2>2, <2>1, <1>0, <1>1
<1> HIDE DEF a, b, c, t
<1>5. /\ t \in Seq(S) /\ Len(t) = Len(s) + 1
      /\ \A i \in 1 .. Len(s) + 1 : t[i] = IF i <= p + 1 THEN c[i] ELSE b[i - (p + 1)]
  BY <1>0, <1>2, <1>3, <1>4, ConcatProperties
<1>6. ASSUME NEW i \in 1 .. Len(s) + 1
      PROVE  t[i] = IF i <= p THEN s[i] ELSE IF i = p + 1 THEN x ELSE s[i - 1]
  <2>1. CASE i <= p + 1
    BY <2>1, <1>0, <1>4, <1>5
  <2>2. CASE i > p + 1
    <3>1. t[i] = b[i - (p + 1)]
      BY <2>2, <1>0, <1>5
    <3>2. i - (p + 1) \in 1 .. Len(s) - p /\ p + (i - (p + 1)) = i - 1
      BY <2>2, <1>0
    <3>3. b[i - (p + 1)] = s[i - 1]
      BY <3>2, <1>2
    <3>4. ~(i <= p) /\ i # p + 1
      BY <2>2, <1>0
    <3> QED
      BY <3>1, <3>3, <3>4
  <2> QED
    BY <2>1, <2>2, <1>0
<1> QED
  BY <1>5, <1>6 DEF t

LEMMA InsertElems ==
  ASSUME NEW S, NEW s \in Seq(S), NEW p \in 0 .. Len(s), NEW x \in S,
         Distinct(s), x \notin Elems(s)
  PROVE  /\ InsertAt(s, p + 1, x) \in Seq(S)
         /\ Distinct(InsertAt(s, p + 1, x))
         /\ Elems(InsertAt(s, p + 1, x)) = Elems(s) \cup {x}
<1> DEFINE t == InsertAt(s, p + 1, x)
<1>0. Len(s) \in Nat /\ p \in Nat /\ p <= Len(s) /\ DOMAIN s = 1 .. Len(s)
  OBVIOUS
<1>5. t \in Seq(S) /\ Len(t) = Len(s) + 1
  BY InsertItems
<1>6. \A i \in 1 .. Len(s) + 1 : t[i] = IF i <= p THEN s[i] ELSE IF i = p + 1 THEN x ELSE s[i - 1]
  BY InsertItems
<1> HIDE DEF t
<1>7. DOMAIN t = 1 .. Len(s) + 1
  BY <1>0, <1>5
<1>8. Distinct(t)
  <2>1. /\ \A i \in 1 .. Len(s) : s[i] # x
        /\ \A i, j \in 1 .. Len(s) : i # j => s[i] # s[j]
    BY <1>0 DEF Distinct, Elems
  <2>2. ASSUME NEW i \in 1 .. Len(s) + 1, NEW j \in 1 .. Len(s) + 1, i < j
        PROVE  t[i] # t[j]
    <3>1. CASE j <= p
      BY <3>1, <2>1, <2>2, <1>0, <1>6
    <3>2. CASE j > p
      BY <3>2, <2>1, <2>2, <1>0, <1>6
    <3> QED
      BY <3>1, <3>2, <1>0
  <2>3. \A i, j \in 1 .. Len(s) + 1 : i # j => i < j \/ j < i
    BY <1>0
  <2> QED
    BY <2>2, <2>3, <1>7 DEF Distinct
<1>9. Elems(t) \subseteq Elems(s) \cup {x}
  BY <1>0, <1>6, <1>7 DEF Elems
<1>10. Elems(s) \cup {x} \subseteq Elems(t)
  <2>1. x \in Elems(t)
    <3>1. p + 1 \in 1 .. Len(s) + 1 /\ t[p + 1] = x
      BY <1>0, <1>6
    <3> QED
      BY <3>1, <1>7 DEF Elems
  <2>2. ASSUME NEW i \in 1 .. Len(s)
        PROVE  \E j \in 1 .. Len(s) + 1 : t[j] = s[i]
    <3>1. CASE i <= p
      BY <3>1, <1>0, <1>6
    <3>2. CASE i > p
      <4>1. i + 1 \in 1 .. Len(s) + 1 /\ t[i + 1] = s[i]
        BY <3>2, <1>0, <1>6
      <4> QED
        BY <4>1
    <3> QED
      BY <3>1, <3>2, <1>0
  <2> QED
    BY <2>1, <2>2, <1>0, <1>7 DEF Elems
<1> QED
  BY <1>5, <1>8, <1>9, <1>10 DEF t

-----------------------------------------------------------------------------
\* The array is ordered by end point.
SortedByEnd == \A i, j \in Locals : i < j => end[i] <= end[j]

\* The intervals the scan has not reached hold no register.
Unscanned == \A i \in Locals \ params : i <= lr => ~InRegister(i)

\* Before i_llcreate nothing has happened.
BeforeScan == sz = -1 => lr = N /\ active = <<>> /\ reg = Regs

\* The list `list' and the pool `pool' share out the registers.
ListSound(list, pool) ==
  /\ Distinct(list)
  /\ \A m \in Elems(list) : m > lr /\ m \notin params /\ InRegister(m) /\ ADDR[m] \notin pool
  /\ \A m, n \in Elems(list) : m # n => ADDR[m] # ADDR[n]
  /\ pool \subseteq Regs
  /\ \A r \in Regs : r \in pool \/ \E m \in Elems(list) : ADDR[m] = r

\* Whoever holds a register and left the list is over before the intervals
\* still to come end.
ExpiredAreOver ==
  \A m \in Locals \ params :
    InRegister(m) /\ m \notin Elems(active) => \A i \in 1 .. lr : beg[m] > end[i]

\* vcode knows of every register a local is in.
Claimed == \A i \in Locals : InRegister(i) => ADDR[i] \in picked

IInv ==
  /\ TypeOK
  /\ Claimed
  /\ SortedByEnd
  /\ Unscanned
  /\ BeforeScan
  /\ sz # -1 => ListSound(active, reg)
  /\ ExpiredAreOver
  /\ NoSharedRegister

LEMMA InitIInv == Init => IInv
<1> SUFFICES ASSUME Init PROVE IInv
  OBVIOUS
<1> USE ScanAssumption DEF Locals
<1>1. TypeOK
  <2>1. beg \in [Locals -> Nat] /\ end \in [Locals -> Nat] /\ refcnt \in [Locals -> Nat]
    <3>1. 1 .. MaxPos \subseteq Nat /\ RefCounts \subseteq Nat
      OBVIOUS
    <3>2. beg \in [Locals -> 1 .. MaxPos] /\ end \in [Locals -> 1 .. MaxPos]
          /\ refcnt \in [Locals -> RefCounts]
      BY DEF Init
    <3> HIDE DEF Locals
    <3> QED
      BY <3>1, <3>2
  <2>2. params \subseteq Locals /\ lr \in 0 .. N /\ i_ralloctype \in Modes
    BY DEF Init
  <2>3. SCLASS \in [Locals -> {"UNDECIDED", "STACK", "REGISTER"}]
    BY DEF Init
  <2>4. /\ ADDR \in [Locals -> Regs \cup Nat]
        /\ \A i \in Locals : InRegister(i) => ADDR[i] \in Regs
    BY DEF Init, InRegister
  <2>5. active \in Seq(Locals) /\ reg \subseteq Regs /\ picked \subseteq Regs
        /\ slots \in Nat /\ sz \in Nat \cup {-1}
    BY DEF Init
  <2> QED
    BY <2>1, <2>2, <2>3, <2>4, <2>5 DEF TypeOK
<1>2. SortedByEnd /\ BeforeScan
  BY DEF Init, SortedByEnd, BeforeScan
<1>3. params \subseteq Locals /\ \A i \in Locals : ~InRegister(i)
  BY DEF Init, InRegister
<1>5. Unscanned /\ ExpiredAreOver /\ sz = -1
  BY <1>3 DEF Init, Unscanned, ExpiredAreOver
<1>6. NoSharedRegister /\ Claimed
  BY <1>3 DEF NoSharedRegister, Claimed
<1> QED
  BY <1>1, <1>2, <1>5, <1>6 DEF IInv

LEMMA RegallocIInv ==
  ASSUME IInv, i_regalloc
  PROVE  IInv'
<1> USE ScanAssumption DEF Locals, i_regalloc, input, IInv
<1>1. TypeOK'
  <2>1. IsFiniteSet(reg')
    BY FS_Subset DEF TypeOK
  <2>2. sz' \in Nat
    BY <2>1, FS_CardinalityType
  <2> QED
    BY <2>2 DEF TypeOK, InRegister
<1>2. SortedByEnd' /\ Unscanned' /\ ExpiredAreOver' /\ NoSharedRegister' /\ Claimed'
  BY DEF SortedByEnd, Claimed, Unscanned, ExpiredAreOver, NoSharedRegister,
         InRegister, Conflict, Elems
<1>3. BeforeScan'
  BY DEF BeforeScan
<1>4. ListSound(active, reg)'
  <2>1. active' = <<>> /\ Elems(active)' = {} /\ reg' = Regs
    BY DEF BeforeScan, Elems
  <2> QED
    BY <2>1 DEF ListSound, Distinct
<1> QED
  BY <1>1, <1>2, <1>3, <1>4

-----------------------------------------------------------------------------
\* Passing over an interval that keeps its place, or is put on the stack,
\* without touching the list.
LEMMA PassIInv ==
  ASSUME IInv, sz # -1, lr > 0, lr' = lr - 1,
         SkipParam \/ OnStack,
         UNCHANGED <<input, sz>>
  PROVE  IInv'
<1> USE DEF IInv, input
<1>1. lr \in Locals /\ lr - 1 \in 0 .. N /\ lr \in Nat
  BY ScanAssumption DEF TypeOK, Locals
<1>2. UNCHANGED <<beg, end, refcnt, params, sz, reg, picked, active>>
  BY DEF SkipParam, OnStack
<1>3. \A i \in Locals : /\ InRegister(i)' <=> InRegister(i)
                        /\ InRegister(i) => ADDR'[i] = ADDR[i]
  <2>1. CASE SkipParam
    BY <2>1 DEF SkipParam, InRegister
  <2>2. CASE OnStack
    <3>1. SCLASS' = [SCLASS EXCEPT ![lr] = "STACK"] /\ ADDR' = [ADDR EXCEPT ![lr] = slots]
      BY <2>2 DEF OnStack, Spill
    <3>2. SCLASS[lr] = "STACK" /\ SCLASS'[lr] = "STACK" /\ SCLASS \in [Locals -> {"UNDECIDED", "STACK", "REGISTER"}]
      BY <2>2, <3>1, <1>1 DEF OnStack, TypeOK
    <3>3. \A i \in Locals : i # lr => SCLASS'[i] = SCLASS[i]
      BY <3>1, <3>2
    <3>4. \A i \in Locals : i # lr /\ InRegister(i) => ADDR'[i] = ADDR[i]
      BY <3>1 DEF TypeOK
    <3> QED
      BY <3>2, <3>3, <3>4 DEF InRegister
  <2> QED
    BY <2>1, <2>2
<1>4. TypeOK'
  <2>1. /\ SCLASS' \in [Locals -> {"UNDECIDED", "STACK", "REGISTER"}]
        /\ slots' \in Nat /\ ADDR' \in [Locals -> Regs \cup Nat]
    <3>1. CASE SkipParam
      BY <3>1 DEF SkipParam, TypeOK
    <3>2. CASE OnStack
      BY <3>2, <1>1 DEF OnStack, Spill, TypeOK
    <3> QED
      BY <3>1, <3>2
  <2>2. \A i \in Locals : InRegister(i)' => ADDR'[i] \in Regs
    BY <1>3 DEF TypeOK, InRegister
  <2> QED
    BY <1>1, <1>2, <2>1, <2>2 DEF TypeOK, Locals
<1>5. SortedByEnd' /\ BeforeScan'
  BY <1>2 DEF SortedByEnd, BeforeScan
<1>8. Unscanned'
  BY <1>1, <1>2, <1>3 DEF Unscanned, Locals
<1>9. ListSound(active, reg)'
  <2>1. Elems(active) \subseteq Locals
    BY DEF TypeOK, Elems
  <2>2. Elems(active)' = Elems(active) /\ Distinct(active)' = Distinct(active)
    BY <1>2
  <2>3. \A m \in Elems(active) : m > lr' /\ InRegister(m)' /\ ADDR'[m] = ADDR[m]
    BY <1>1, <1>3, <2>1 DEF ListSound, Locals
  <2> QED
    BY <1>2, <2>2, <2>3 DEF ListSound
<1>10. ExpiredAreOver'
  BY <1>1, <1>2, <1>3 DEF ExpiredAreOver, Elems, Locals
<1>11. NoSharedRegister' /\ Claimed'
  BY <1>2, <1>3 DEF NoSharedRegister, Conflict, Claimed
<1> QED
  BY <1>2, <1>4, <1>5, <1>8, <1>9, <1>10, <1>11

\* What lrexpire does to the list and the pool, and whom it lets go.
LEMMA Expire ==
  ASSUME IInv, sz # -1, lr \in Locals,
         NEW k \in 0 .. Len(active), Kept(active, k)
  PROVE  LET act  == SubSeq(active, 1, k)
             pool == reg \cup {ADDR[active[i]] : i \in k + 1 .. Len(active)}
         IN  /\ act \in Seq(Locals)
             /\ Elems(act) \subseteq Elems(active)
             /\ ListSound(act, pool)
             /\ \A m \in Locals \ params :
                  InRegister(m) /\ m \notin Elems(act) => beg[m] > end[lr]
<1> DEFINE act  == SubSeq(active, 1, k)
           pool == reg \cup {ADDR[active[i]] : i \in k + 1 .. Len(active)}
<1> USE DEF IInv
<1>1. active \in Seq(Locals) /\ Distinct(active) /\ Len(active) \in Nat /\ k \in Nat
      /\ DOMAIN active = 1 .. Len(active)
  BY DEF TypeOK, ListSound
<1>2. /\ act \in Seq(Locals)
      /\ Distinct(act)
      /\ Elems(act) = {active[i] : i \in 1 .. k}
  BY <1>1, PrefixElems
<1> HIDE DEF act
<1>3. Elems(act) \subseteq Elems(active)
  <2>1. \A i \in 1 .. k : i \in 1 .. Len(active)
    BY <1>1
  <2> QED
    BY <2>1, <1>1, <1>2 DEF Elems
<1>4. \A m \in Elems(active) : m \in Elems(act) \/ \E i \in k + 1 .. Len(active) : m = active[i]
  <2>1. \A i \in 1 .. Len(active) : i \in 1 .. k \/ i \in k + 1 .. Len(active)
    BY <1>1
  <2> QED
    BY <2>1, <1>1, <1>2 DEF Elems
<1>5. \A i \in k + 1 .. Len(active) : active[i] \in Elems(active) /\ active[i] \notin Elems(act)
  <2> SUFFICES ASSUME NEW i \in k + 1 .. Len(active)
               PROVE  active[i] \in Elems(active) /\ active[i] \notin Elems(act)
    OBVIOUS
  <2>1. i \in 1 .. Len(active)
    BY <1>1
  <2>2. \A j \in 1 .. k : j \in 1 .. Len(active) /\ j # i
    BY <1>1
  <2> QED
    BY <2>1, <2>2, <1>1, <1>2 DEF Elems, Distinct
<1>6. ListSound(act, pool)
  <2>1. \A m \in Elems(act) :
           m > lr /\ m \notin params /\ InRegister(m) /\ ADDR[m] \notin pool
    BY <1>3, <1>5 DEF ListSound
  <2>2. \A m, n \in Elems(act) : m # n => ADDR[m] # ADDR[n]
    BY <1>3 DEF ListSound
  <2>3. pool \subseteq Regs
    <3>1. \A m \in Elems(active) : m \in Locals /\ InRegister(m)
      BY <1>1 DEF ListSound, Elems
    <3>2. \A i \in k + 1 .. Len(active) : ADDR[active[i]] \in Regs
      BY <3>1, <1>5 DEF TypeOK, InRegister
    <3> QED
      BY <3>2 DEF ListSound
  <2>4. \A r \in Regs : r \in pool \/ \E m \in Elems(act) : ADDR[m] = r
    BY <1>3, <1>4, <1>5 DEF ListSound
  <2> QED
    BY <1>2, <2>1, <2>2, <2>3, <2>4 DEF ListSound
<1>7. ASSUME NEW m \in Locals \ params, InRegister(m), m \notin Elems(act)
      PROVE  beg[m] > end[lr]
  <2>1. CASE m \in Elems(active)
    BY <2>1, <1>4, <1>7 DEF Kept, Starts
  <2>2. CASE m \notin Elems(active)
    <3>1. lr \in 1 .. lr
      BY DEF Locals
    <3> QED
      BY <2>2, <3>1, <1>7 DEF ExpiredAreOver
  <2> QED
    BY <2>1, <2>2
<1> QED
  BY <1>2, <1>3, <1>6, <1>7 DEF act

-----------------------------------------------------------------------------
\* A step after which the current interval is in register r; `base' are the
\* other holders in the list, `gone' those that were sent to the stack.
Takes(base, gone, r) ==
  /\ base \in SUBSET Locals /\ gone \in SUBSET Locals /\ r \in Regs
  /\ r \notin reg' /\ reg' \subseteq Regs
  /\ lr \notin gone /\ gone \cap params = {} /\ gone \cap base = {}
  /\ \A m \in base : /\ m > lr /\ m \notin params /\ InRegister(m)
                    /\ ADDR[m] \notin reg' /\ ADDR[m] # r
  /\ \A m, n \in base : m # n => ADDR[m] # ADDR[n]
  /\ \A q \in Regs : q \in reg' \/ q = r \/ \E m \in base : ADDR[m] = q
  /\ \A m \in Locals \ params :
       InRegister(m) /\ m \notin base /\ m \notin gone => beg[m] > end[lr]
  /\ SCLASS'[lr] = "REGISTER" /\ ADDR'[lr] = r
  /\ picked \subseteq picked' /\ r \in picked'
  /\ \A i \in gone : SCLASS'[i] = "STACK"
  /\ \A i \in Locals \ gone : i # lr =>
       SCLASS'[i] = SCLASS[i] /\ (InRegister(i) => ADDR'[i] = ADDR[i])
  /\ Distinct(active') /\ Elems(active') = base \cup {lr}

\* Giving the current interval a register keeps the invariant.
LEMMA NewHolder ==
  ASSUME IInv, sz # -1, lr \in Locals, lr \notin params, lr' = lr - 1,
         UNCHANGED <<input, sz>>, TypeOK',
         NEW base, NEW gone, NEW r, Takes(base, gone, r)
  PROVE  IInv'
<1> USE DEF IInv, input, Takes
<1>1. lr \in 1 .. N /\ lr' \in 0 .. N /\ N \in Nat
  BY ScanAssumption DEF Locals
<1>2. UNCHANGED <<beg, end, refcnt, params>> /\ params \subseteq Locals
  BY DEF TypeOK
<1>3. \A i \in Locals : i \in gone => ~InRegister(i)'
  BY DEF InRegister
<1>4. \A i \in Locals : i # lr /\ InRegister(i)' => InRegister(i) /\ ADDR'[i] = ADDR[i]
  BY <1>3 DEF InRegister
<1>5. \A i \in Locals \ gone : InRegister(i) => InRegister(i)'
  BY DEF InRegister
<1>6. SortedByEnd' /\ BeforeScan'
  BY <1>2 DEF SortedByEnd, BeforeScan
<1>8. Unscanned'
  BY <1>1, <1>2, <1>4 DEF Unscanned, Locals
<1>9. \A m \in base : /\ m \in Locals \ gone /\ m # lr /\ m > lr' /\ m \notin params
                     /\ InRegister(m)' /\ ADDR'[m] = ADDR[m]
  <2> TAKE m \in base
  <2>1. m \in Locals \ gone /\ m > lr /\ m \notin params /\ InRegister(m)
    OBVIOUS
  <2>2. m # lr /\ m > lr'
    BY <2>1, <1>1 DEF Locals
  <2> QED
    BY <2>1, <2>2, <1>5
<1>10. ListSound(active, reg)'
  <2>1. \A m \in Elems(active') :
          m > lr' /\ m \notin params' /\ InRegister(m)' /\ ADDR'[m] \notin reg'
    <3> TAKE m \in Elems(active')
    <3>1. CASE m \in base
      BY <3>1, <1>2, <1>9
    <3>2. CASE m = lr
      <4>1. lr > lr' /\ SCLASS'[m] = "REGISTER" /\ ADDR'[m] = r
        BY <3>2, <1>1
      <4> QED
        BY <4>1, <3>2, <1>2 DEF InRegister
    <3> QED
      BY <3>1, <3>2
  <2>2. \A m, n \in Elems(active') : m # n => ADDR'[m] # ADDR'[n]
    BY <1>9
  <2>3. \A q \in Regs : q \in reg' \/ \E m \in Elems(active') : ADDR'[m] = q
    <3> TAKE q \in Regs
    <3>1. (\E m \in Elems(active') : ADDR'[m] = q) <=> q = r \/ \E m \in base : ADDR[m] = q
      BY <1>9
    <3> QED
      BY <3>1
  <2> QED
    BY <2>1, <2>2, <2>3 DEF ListSound
<1>11. ExpiredAreOver'
  <2> SUFFICES ASSUME NEW m \in Locals \ params, InRegister(m)', m \notin Elems(active'),
                      NEW i \in 1 .. lr'
               PROVE  beg[m] > end[i]
    BY <1>2 DEF ExpiredAreOver
  <2>1. m # lr /\ m \notin base /\ m \notin gone
    BY <1>3
  <2>2. beg[m] > end[lr]
    BY <2>1, <1>4
  <2>3. i \in Locals /\ i < lr
    BY <1>1 DEF Locals
  <2>4. end[i] <= end[lr]
    BY <2>3 DEF SortedByEnd
  <2>5. beg[m] \in Nat /\ end[i] \in Nat /\ end[lr] \in Nat
    BY <2>3 DEF TypeOK
  <2> QED
    BY <2>2, <2>4, <2>5
<1>12. NoSharedRegister'
  <2>1. ASSUME NEW j \in Locals, j # lr, InRegister(j)', Conflict(lr, j) \/ Conflict(j, lr)
        PROVE  ADDR'[j] # r
    <3>1. InRegister(j) /\ ADDR'[j] = ADDR[j] /\ j \notin gone
      BY <2>1, <1>3, <1>4
    <3>3. CASE j \in base
      BY <3>1, <3>3
    <3>4. CASE j \notin base
      <4>0. j \in Locals \ params
        BY <3>1 DEF InRegister
      <4>1. beg[j] > end[lr]
        BY <3>1, <3>4, <4>0
      <4>2. beg[j] \in Nat /\ end[lr] \in Nat
        BY DEF TypeOK
      <4> QED
        BY <4>1, <4>2, <3>4, <2>1 DEF Conflict
    <3> QED
      BY <3>3, <3>4
  <2>2. ASSUME NEW i \in Locals, NEW j \in Locals, i # j,
               InRegister(i)', InRegister(j)', Conflict(i, j)
        PROVE  ADDR'[i] # ADDR'[j]
    <3>1. CASE i = lr
      BY <3>1, <2>1, <2>2
    <3>2. CASE j = lr
      BY <3>2, <2>1, <2>2
    <3>3. CASE i # lr /\ j # lr
      BY <3>3, <2>2, <1>4 DEF NoSharedRegister
    <3> QED
      BY <3>1, <3>2, <3>3
  <2> QED
    BY <2>2, <1>2 DEF NoSharedRegister, Conflict
<1>13. Claimed'
  BY <1>2, <1>4 DEF Claimed
<1> QED
  BY <1>2, <1>6, <1>8, <1>10, <1>11, <1>12, <1>13

\* i_reg_get takes a register that is free.
LEMMA PreferredIsFree ==
  ASSUME NEW pool
  PROVE  Preferred(pool) \subseteq pool
  BY DEF Preferred

\* A register is free: the interval takes it.
LEMMA TakeFreeIInv ==
  ASSUME IInv, sz # -1, lr \in Locals, lr \notin params, SCLASS[lr] # "STACK",
         lr' = lr - 1, UNCHANGED <<input, sz>>,
         NEW act \in Seq(Locals), NEW pool,
         ListSound(act, pool),
         \A m \in Locals \ params :
             InRegister(m) /\ m \notin Elems(act) => beg[m] > end[lr],
         TakeFree(act, pool)
  PROVE  IInv'
<1> USE DEF IInv, input
<1>0. pool \subseteq Regs /\ Distinct(act) /\ Len(act) \in Nat
  BY DEF ListSound
<1>1. PICK r \in Preferred(pool) : Insert(act, r) /\ reg' = pool \ {r} /\ picked' = picked \cup {r}
  BY DEF TakeFree
<1>2. r \in pool /\ r \in Regs
  BY <1>0, PreferredIsFree
<1>3. PICK p \in 0 .. Len(act) : active' = InsertAt(act, p + 1, lr)
  BY <1>1 DEF Insert
<1>4. Elems(act) \in SUBSET Locals /\ lr \in Nat /\ lr \in 1 .. N /\ N \in Nat
  BY ScanAssumption DEF Elems, Locals
<1>5. lr \notin Elems(act)
  BY <1>4 DEF ListSound
<1>6. active' \in Seq(Locals) /\ Distinct(active') /\ Elems(active') = Elems(act) \cup {lr}
  BY <1>0, <1>3, <1>5, InsertElems
<1>7. /\ SCLASS' = [SCLASS EXCEPT ![lr] = "REGISTER"]
      /\ ADDR' = [ADDR EXCEPT ![lr] = r]
      /\ slots' = slots
  BY <1>1 DEF Insert, TakeFree
<1>8. SCLASS \in [Locals -> {"UNDECIDED", "STACK", "REGISTER"}] /\ ADDR \in [Locals -> Regs \cup Nat]
  BY DEF TypeOK
<1>9. /\ SCLASS'[lr] = "REGISTER" /\ ADDR'[lr] = r
      /\ \A i \in Locals : i # lr => SCLASS'[i] = SCLASS[i] /\ ADDR'[i] = ADDR[i]
  BY <1>7, <1>8
<1>10. TypeOK'
  <2>1. SCLASS' \in [Locals -> {"UNDECIDED", "STACK", "REGISTER"}] /\ ADDR' \in [Locals -> Regs \cup Nat]
    BY <1>2, <1>7, <1>8
  <2>2. \A i \in Locals : InRegister(i)' => ADDR'[i] \in Regs
    BY <1>2, <1>9 DEF TypeOK, InRegister
  <2>3. reg' \subseteq Regs /\ picked' \subseteq Regs /\ lr' \in 0 .. N
    BY <1>0, <1>1, <1>2, <1>4 DEF TypeOK
  <2> QED
    BY <2>1, <2>2, <2>3, <1>6, <1>7 DEF TypeOK
<1> DEFINE base == Elems(act)
           gone == {}
<1>11. r \notin reg' /\ reg' \subseteq Regs
  BY <1>0, <1>1, <1>2 DEF ListSound
<1>12. \A m \in base : /\ m > lr /\ m \notin params /\ InRegister(m)
                      /\ ADDR[m] \notin reg' /\ ADDR[m] # r
  BY <1>1, <1>2 DEF ListSound
<1>13. \A m, n \in base : m # n => ADDR[m] # ADDR[n]
  BY DEF ListSound
<1>14. \A q \in Regs : q \in reg' \/ q = r \/ \E m \in base : ADDR[m] = q
  BY <1>1, <1>2 DEF ListSound
<1>15. /\ gone \in SUBSET Locals /\ gone \cap params = {} /\ gone \cap base = {}
       /\ lr \notin gone /\ base \in SUBSET Locals
       /\ \A i \in gone : SCLASS'[i] = "STACK"
       /\ \A i \in Locals \ gone : i # lr =>
            SCLASS'[i] = SCLASS[i] /\ (InRegister(i) => ADDR'[i] = ADDR[i])
       /\ \A m \in Locals \ params :
            InRegister(m) /\ m \notin base /\ m \notin gone => beg[m] > end[lr]
  BY <1>4, <1>9
<1>16. Distinct(active') /\ Elems(active') = base \cup {lr}
  BY <1>6
<1>17. r \in Regs /\ SCLASS'[lr] = "REGISTER" /\ ADDR'[lr] = r
       /\ picked \subseteq picked' /\ r \in picked'
  BY <1>1, <1>2, <1>9
<1> HIDE DEF IInv, input, base, gone
<1>18. Takes(base, gone, r)
  BY <1>11, <1>12, <1>13, <1>14, <1>15, <1>16, <1>17, Zenon DEF Takes
<1> QED
  BY <1>10, <1>18, NewHolder

\* The list is full and an interval in it gives way.
LEMMA StealIInv ==
  ASSUME IInv, sz # -1, lr \in Locals, lr \notin params, SCLASS[lr] # "STACK",
         lr' = lr - 1, UNCHANGED <<input, sz>>,
         NEW act \in Seq(Locals), NEW pool,
         ListSound(act, pool),
         \A m \in Locals \ params :
             InRegister(m) /\ m \notin Elems(act) => beg[m] > end[lr],
         Steal(act, pool)
  PROVE  IInv'
<1> USE DEF IInv, input
<1>0. pool \subseteq Regs /\ Distinct(act) /\ Len(act) \in Nat /\ DOMAIN act = 1 .. Len(act)
  BY DEF ListSound
<1>1. PICK v \in DOMAIN act :
        /\ \E p \in 0 .. Len(act) - 1 : active' = InsertAt(RemoveAt(act, v), p + 1, lr)
        /\ SCLASS' = [SCLASS EXCEPT ![lr] = "REGISTER", ![act[v]] = "STACK"]
        /\ ADDR' = [ADDR EXCEPT ![lr] = ADDR[act[v]], ![act[v]] = slots]
  BY DEF Steal
<1> DEFINE rest == RemoveAt(act, v)
           base == Elems(rest)
           gone == {act[v]}
           r == ADDR[act[v]]
<1>2. rest \in Seq(Locals) /\ Len(rest) = Len(act) - 1 /\ Distinct(rest)
      /\ base = Elems(act) \ gone
  BY <1>0, RemoveElems
<1>3. slots' = slots + 1 /\ reg' = pool /\ picked' = picked
  BY DEF Steal
<1>4. Elems(act) \in SUBSET Locals /\ lr \in Nat /\ lr \in 1 .. N /\ N \in Nat
      /\ act[v] \in Elems(act)
  BY <1>0, ScanAssumption DEF Elems, Locals
<1>5. lr \notin Elems(act) /\ act[v] # lr /\ act[v] \in Locals /\ act[v] \notin params /\ InRegister(act[v])
  BY <1>4 DEF ListSound
<1>6. r \in Regs /\ r \notin reg'
  <2>1. r \in Regs
    BY <1>5 DEF TypeOK, InRegister
  <2> QED
    BY <2>1, <1>3, <1>4 DEF ListSound
<1> HIDE DEF rest
<1>7. active' \in Seq(Locals) /\ Distinct(active') /\ Elems(active') = base \cup {lr}
  <2>1. PICK p \in 0 .. Len(rest) : active' = InsertAt(rest, p + 1, lr)
    BY <1>1, <1>2 DEF rest
  <2>2. lr \notin Elems(rest)
    BY <1>2, <1>5
  <2>3. rest \in Seq(Locals) /\ Distinct(rest)
    BY <1>2
  <2> HIDE DEF IInv, input
  <2>4. /\ InsertAt(rest, p + 1, lr) \in Seq(Locals)
        /\ Distinct(InsertAt(rest, p + 1, lr))
        /\ Elems(InsertAt(rest, p + 1, lr)) = Elems(rest) \cup {lr}
    BY <2>2, <2>3, InsertElems
  <2> QED
    BY <2>1, <2>4
<1>8. SCLASS \in [Locals -> {"UNDECIDED", "STACK", "REGISTER"}] /\ ADDR \in [Locals -> Regs \cup Nat]
  BY DEF TypeOK
<1>9. /\ SCLASS'[lr] = "REGISTER" /\ ADDR'[lr] = r /\ SCLASS'[act[v]] = "STACK"
      /\ \A i \in Locals : i # lr /\ i # act[v] => SCLASS'[i] = SCLASS[i] /\ ADDR'[i] = ADDR[i]
  BY <1>1, <1>5, <1>8
<1>10. TypeOK'
  <2>1. SCLASS' \in [Locals -> {"UNDECIDED", "STACK", "REGISTER"}]
    BY <1>1, <1>8
  <2>2. ADDR' \in [Locals -> Regs \cup Nat] /\ slots' \in Nat
    BY <1>1, <1>3, <1>6, <1>8 DEF TypeOK
  <2>3. \A i \in Locals : InRegister(i)' => ADDR'[i] \in Regs
    BY <1>6, <1>9 DEF TypeOK, InRegister
  <2>4. reg' \subseteq Regs /\ picked' \subseteq Regs /\ lr' \in 0 .. N
    BY <1>0, <1>3, <1>4 DEF TypeOK
  <2> QED
    BY <2>1, <2>2, <2>3, <2>4, <1>7 DEF TypeOK
<1>11. \A m \in base : /\ m > lr /\ m \notin params /\ InRegister(m)
                      /\ ADDR[m] \notin reg' /\ ADDR[m] # r
  BY <1>2, <1>3, <1>4 DEF ListSound
<1>12. \A m, n \in base : m # n => ADDR[m] # ADDR[n]
  BY <1>2 DEF ListSound
<1>13. \A q \in Regs : q \in reg' \/ q = r \/ \E m \in base : ADDR[m] = q
  <2> TAKE q \in Regs
  <2>1. (\E m \in Elems(act) : ADDR[m] = q) <=> q = r \/ \E m \in base : ADDR[m] = q
    BY <1>2, <1>4
  <2> QED
    BY <2>1, <1>3 DEF ListSound
<1>14. /\ gone \in SUBSET Locals /\ gone \cap params = {} /\ gone \cap base = {}
       /\ lr \notin gone /\ base \in SUBSET Locals
       /\ \A i \in gone : SCLASS'[i] = "STACK"
       /\ \A i \in Locals \ gone : i # lr =>
            SCLASS'[i] = SCLASS[i] /\ (InRegister(i) => ADDR'[i] = ADDR[i])
       /\ \A m \in Locals \ params :
            InRegister(m) /\ m \notin base /\ m \notin gone => beg[m] > end[lr]
       /\ reg' \subseteq Regs
  BY <1>0, <1>2, <1>3, <1>4, <1>5, <1>9
<1>15. picked \subseteq picked' /\ r \in picked'
  BY <1>3, <1>5 DEF Claimed
<1> HIDE DEF IInv, input, base, gone, r
<1>16. Takes(base, gone, r)
  BY <1>6, <1>7, <1>9, <1>11, <1>12, <1>13, <1>14, <1>15, Zenon DEF Takes
<1> QED
  BY <1>10, <1>16, NewHolder

\* The list is full and the current interval goes to the stack.
LEMMA SpillCurrentIInv ==
  ASSUME IInv, sz # -1, lr \in Locals, lr \notin params, SCLASS[lr] # "STACK",
         lr' = lr - 1, UNCHANGED <<input, sz>>,
         NEW act \in Seq(Locals), NEW pool,
         ListSound(act, pool),
         \A m \in Locals \ params :
             InRegister(m) /\ m \notin Elems(act) => beg[m] > end[lr],
         SpillCurrent(act, pool)
  PROVE  IInv'
<1> USE DEF IInv, input
<1>1. /\ SCLASS' = [SCLASS EXCEPT ![lr] = "STACK"]
      /\ ADDR' = [ADDR EXCEPT ![lr] = slots]
      /\ slots' = slots + 1 /\ active' = act /\ reg' = pool /\ picked' = picked
  BY DEF SpillCurrent, Spill
<1>2. /\ lr \in Nat /\ lr \in 1 .. N /\ N \in Nat /\ pool \subseteq Regs
      /\ params \subseteq Locals /\ Elems(act) \subseteq Locals
      /\ UNCHANGED <<beg, end, refcnt, params, sz>>
  <2>1. lr \in Nat /\ lr \in 1 .. N /\ N \in Nat
    BY ScanAssumption DEF Locals
  <2>2. pool \subseteq Regs /\ params \subseteq Locals
    BY DEF TypeOK, ListSound
  <2>3. Elems(act) \subseteq Locals
    BY DEF Elems
  <2>4. UNCHANGED <<beg, end, refcnt, params, sz>>
    OBVIOUS
  <2> QED
    BY <2>1, <2>2, <2>3, <2>4
<1>3. SCLASS \in [Locals -> {"UNDECIDED", "STACK", "REGISTER"}] /\ ADDR \in [Locals -> Regs \cup Nat]
  BY DEF TypeOK
<1>4. /\ SCLASS'[lr] = "STACK"
      /\ \A i \in Locals : i # lr => SCLASS'[i] = SCLASS[i] /\ ADDR'[i] = ADDR[i]
  BY <1>1, <1>3
<1>5. ~InRegister(lr)
  BY <1>2 DEF Unscanned, Locals
<1>6. \A i \in Locals : /\ InRegister(i)' <=> InRegister(i)
                        /\ InRegister(i) => ADDR'[i] = ADDR[i]
  BY <1>4, <1>5 DEF InRegister
<1>7. TypeOK'
  <2>1. /\ SCLASS' \in [Locals -> {"UNDECIDED", "STACK", "REGISTER"}]
        /\ ADDR' \in [Locals -> Regs \cup Nat] /\ slots' \in Nat
    BY <1>1, <1>3 DEF TypeOK
  <2>2. \A i \in Locals : InRegister(i)' => ADDR'[i] \in Regs
    BY <1>6 DEF TypeOK
  <2>3. reg' \subseteq Regs /\ picked' \subseteq Regs /\ lr' \in 0 .. N
    BY <1>1, <1>2 DEF TypeOK
  <2> QED
    BY <1>1, <1>2, <2>1, <2>2, <2>3 DEF TypeOK
<1>8. SortedByEnd' /\ BeforeScan'
  BY <1>2 DEF SortedByEnd, BeforeScan
<1>10. Unscanned'
  BY <1>2, <1>6 DEF Unscanned, Locals
<1>11. ListSound(active, reg)'
  <2>1. \A m \in Elems(act) : /\ m > lr' /\ m \notin params /\ InRegister(m)'
                              /\ ADDR'[m] = ADDR[m] /\ ADDR[m] \notin pool
    <3> TAKE m \in Elems(act)
    <3>1. m \in Locals /\ m > lr /\ m \notin params /\ InRegister(m) /\ ADDR[m] \notin pool
      BY <1>2 DEF ListSound
    <3>2. m > lr'
      BY <3>1, <1>2 DEF Locals
    <3> QED
      BY <3>1, <3>2, <1>6
  <2> QED
    BY <1>1, <1>2, <2>1 DEF ListSound
<1>12. ExpiredAreOver'
  <2> SUFFICES ASSUME NEW m \in Locals \ params, InRegister(m)', m \notin Elems(act),
                      NEW i \in 1 .. lr'
               PROVE  beg[m] > end[i]
    BY <1>1, <1>2 DEF ExpiredAreOver
  <2>1. beg[m] > end[lr]
    BY <1>6
  <2>2. i \in Locals /\ i < lr
    BY <1>2 DEF Locals
  <2>3. end[i] <= end[lr]
    BY <2>2 DEF SortedByEnd
  <2>4. beg[m] \in Nat /\ end[i] \in Nat /\ end[lr] \in Nat
    BY <2>2 DEF TypeOK
  <2> QED
    BY <2>1, <2>3, <2>4
<1>13. NoSharedRegister' /\ Claimed'
  BY <1>1, <1>2, <1>6 DEF NoSharedRegister, Conflict, Claimed
<1> QED
  BY <1>2, <1>7, <1>8, <1>10, <1>11, <1>12, <1>13

-----------------------------------------------------------------------------
\* One turn of the loop of ra_ls_internal keeps the invariant.
LEMMA ScanIInv ==
  ASSUME IInv, ra_ls_internal
  PROVE  IInv'
<1>1. sz # -1 /\ lr > 0 /\ lr' = lr - 1 /\ UNCHANGED <<input, sz>>
  BY DEF ra_ls_internal
<1>2. lr \in Locals
  BY <1>1, ScanAssumption DEF IInv, TypeOK, Locals
<1>3. CASE SkipParam \/ OnStack
  BY <1>1, <1>3, PassIInv
<1>4. CASE Allocate
  <2>1. lr \notin params /\ SCLASS[lr] # "STACK"
    BY <1>4 DEF Allocate
  <2>2. PICK k \in 0 .. Len(active) :
          /\ Kept(active, k)
          /\ LET act == SubSeq(active, 1, k)
                 pool == reg \cup {ADDR[active[i]] : i \in k + 1 .. Len(active)}
             IN  TakeFree(act, pool) \/ Steal(act, pool) \/ SpillCurrent(act, pool)
    BY <1>4 DEF Allocate
  <2> DEFINE act == SubSeq(active, 1, k)
             pool == reg \cup {ADDR[active[i]] : i \in k + 1 .. Len(active)}
  <2>3. /\ act \in Seq(Locals)
        /\ ListSound(act, pool)
        /\ \A m \in Locals \ params :
             InRegister(m) /\ m \notin Elems(act) => beg[m] > end[lr]
    BY <1>1, <1>2, <2>2, Expire
  <2>4. TakeFree(act, pool) \/ Steal(act, pool) \/ SpillCurrent(act, pool)
    BY <2>2
  <2> HIDE DEF act, pool
  <2>5. CASE TakeFree(act, pool)
    BY <1>1, <1>2, <2>1, <2>3, <2>5, TakeFreeIInv
  <2>6. CASE Steal(act, pool)
    BY <1>1, <1>2, <2>1, <2>3, <2>6, StealIInv
  <2>7. CASE SpillCurrent(act, pool)
    BY <1>1, <1>2, <2>1, <2>3, <2>7, SpillCurrentIInv
  <2> QED
    BY <2>4, <2>5, <2>6, <2>7
<1> QED
  BY <1>3, <1>4 DEF ra_ls_internal

\* The invariant holds throughout every register allocation.
THEOREM AllocatorInvariant == Spec => []IInv
<1>1. Init => IInv
  BY InitIInv
<1>2. IInv /\ [Next]_vars => IInv'
  <2> SUFFICES ASSUME IInv, [Next]_vars PROVE IInv'
    OBVIOUS
  <2>1. CASE i_regalloc
    BY <2>1, RegallocIInv
  <2>2. CASE ra_ls_internal
    BY <2>2, ScanIInv
  <2>3. CASE UNCHANGED vars
    <3>1. UNCHANGED <<i_ralloctype, beg, end, refcnt, params, SCLASS, ADDR, reg, picked,
                   slots, sz, active, lr>>
      BY <2>3 DEF vars
    <3>2. TypeOK' /\ SortedByEnd' /\ Unscanned' /\ BeforeScan'
      BY <3>1 DEF IInv, TypeOK, SortedByEnd, Unscanned, BeforeScan, InRegister
    <3>3. (sz # -1 => ListSound(active, reg))'
      BY <3>1 DEF IInv, ListSound, Elems, Distinct, InRegister
    <3>4. ExpiredAreOver' /\ NoSharedRegister' /\ Claimed'
      BY <3>1 DEF IInv, ExpiredAreOver, Claimed, NoSharedRegister, InRegister, Conflict, Elems
    <3> QED
      BY <3>2, <3>3, <3>4 DEF IInv
  <2> QED
    BY <2>1, <2>2, <2>3 DEF Next
<1> QED
  BY <1>1, <1>2, PTL DEF Spec

\* Whoever has storage class REGISTER has one of the allocatable registers,
\* and the list and the pool have their types.
THEOREM AllocatorTypeOK == Spec => []TypeOK
<1>1. IInv => TypeOK
  BY DEF IInv
<1> QED
  BY <1>1, AllocatorInvariant, PTL

\* Two locals alive at the same place never have the same register, in either
\* mode of ra_ls_internal and whatever the live intervals are.
THEOREM RegistersNotShared == Spec => []NoSharedRegister
<1>1. IInv => NoSharedRegister
  BY DEF IInv
<1> QED
  BY <1>1, AllocatorInvariant, PTL

\* No register is lost or handed out twice between the pool and the list.
THEOREM PoolAndListAccount == Spec => []RegistersAccounted
<1>1. IInv => RegistersAccounted
  <2> SUFFICES ASSUME IInv, sz # -1 PROVE RegistersAccounted
    BY DEF RegistersAccounted, IInv, Claimed
  <2>1. ListSound(active, reg) /\ active \in Seq(Locals)
    BY DEF IInv, TypeOK
  <2>2. \A i \in DOMAIN active : active[i] \in Elems(active)
    BY DEF Elems
  <2>3. \A i \in DOMAIN active : InRegister(active[i]) /\ active[i] \notin params /\ ADDR[active[i]] \notin reg
    BY <2>1, <2>2 DEF ListSound
  <2>4. \A i, j \in DOMAIN active : i # j => ADDR[active[i]] # ADDR[active[j]]
    BY <2>1, <2>2 DEF ListSound, Distinct
  <2>5. \A i \in DOMAIN active : ADDR[active[i]] \in Regs
    BY <2>1, <2>3 DEF IInv, TypeOK, InRegister
  <2>6. \A q \in Regs : q \in reg \/ \E i \in DOMAIN active : ADDR[active[i]] = q
    BY <2>1 DEF ListSound, Elems
  <2>7. reg \cup {ADDR[active[i]] : i \in DOMAIN active} = Regs
    BY <2>1, <2>5, <2>6 DEF ListSound
  <2> QED
    BY <2>3, <2>4, <2>7 DEF RegistersAccounted, IInv, Claimed
<1> QED
  BY <1>1, AllocatorInvariant, PTL

-----------------------------------------------------------------------------
(* Who is spilled.                                                         *)

\* The list is ordered by start point.
Ordered(list) ==
  \A i, j \in DOMAIN list : i < j => beg[list[i]] <= beg[list[j]]

\* The current interval goes where lrstartsbefore puts it.
LEMMA InsertOrdered ==
  ASSUME beg \in [Locals -> Nat], lr \in Locals,
         NEW s \in Seq(Locals), Ordered(s), NEW p \in 0 .. Len(s), InsertAfter(s, p)
  PROVE  Ordered(InsertAt(s, p + 1, lr))
<1> DEFINE t == InsertAt(s, p + 1, lr)
<1>1. Len(s) \in Nat /\ p \in Nat /\ p <= Len(s) /\ DOMAIN s = 1 .. Len(s)
      /\ \A i \in 1 .. Len(s) : s[i] \in Locals /\ beg[s[i]] \in Nat
  OBVIOUS
<1>2. t \in Seq(Locals) /\ Len(t) = Len(s) + 1
      /\ \A i \in 1 .. Len(s) + 1 : t[i] = IF i <= p THEN s[i] ELSE IF i = p + 1 THEN lr ELSE s[i - 1]
  BY InsertItems
<1> HIDE DEF t
<1>3. DOMAIN t = 1 .. Len(s) + 1
  BY <1>1, <1>2
<1>4. /\ \A i \in 1 .. p : beg[s[i]] <= beg[lr]
      /\ \A i \in p + 1 .. Len(s) : beg[lr] <= beg[s[i]]
  <2>1. ASSUME NEW i \in 1 .. p
        PROVE  beg[s[i]] <= beg[lr]
    <3>1. i \in 1 .. Len(s) /\ p \in 1 .. Len(s) /\ beg[s[p]] < beg[lr]
      BY <1>1 DEF InsertAfter, Starts
    <3>2. i = p \/ beg[s[i]] <= beg[s[p]]
      <4>1. i < p => beg[s[i]] <= beg[s[p]]
        <5>1. i \in DOMAIN s /\ p \in DOMAIN s
          BY <1>1, <3>1, Zenon
        <5> QED
          BY <5>1, Zenon DEF Ordered
      <4>2. i = p \/ i < p
        BY <1>1
      <4> QED
        BY <4>1, <4>2, Zenon
    <3> QED
      BY <1>1, <3>1, <3>2
  <2>2. \A i \in p + 1 .. Len(s) : beg[lr] <= beg[s[i]]
    BY <1>1 DEF InsertAfter, Starts
  <2> QED
    BY <2>1, <2>2
<1> SUFFICES ASSUME NEW i \in 1 .. Len(s) + 1, NEW j \in 1 .. Len(s) + 1, i < j
             PROVE  beg[t[i]] <= beg[t[j]]
  BY <1>3 DEF Ordered, t
<1>5. CASE j <= p
  <2>1. t[i] = s[i] /\ t[j] = s[j] /\ i \in 1 .. Len(s) /\ j \in 1 .. Len(s)
    BY <1>1, <1>2, <1>5
  <2> QED
    BY <2>1, <1>1 DEF Ordered
<1>6. CASE i <= p /\ p < j
  <2>1. t[i] = s[i] /\ i \in 1 .. p /\ beg[lr] \in Nat
    BY <1>1, <1>2, <1>6
  <2>2. (j = p + 1 /\ t[j] = lr) \/ (t[j] = s[j - 1] /\ j - 1 \in p + 1 .. Len(s))
    <3>1. CASE j = p + 1
      BY <3>1, <1>1, <1>2
    <3>2. CASE j # p + 1
      <4>1. ~(j <= p) /\ j - 1 \in p + 1 .. Len(s)
        BY <3>2, <1>1, <1>6
      <4> QED
        BY <3>2, <4>1, <1>2
    <3> QED
      BY <3>1, <3>2
  <2>3. beg[s[i]] <= beg[lr] /\ i \in 1 .. Len(s)
    BY <2>1, <1>1, <1>4
  <2>4. CASE j = p + 1 /\ t[j] = lr
    BY <2>1, <2>3, <2>4
  <2>5. CASE t[j] = s[j - 1] /\ j - 1 \in p + 1 .. Len(s)
    <3>1. beg[lr] <= beg[s[j - 1]] /\ j - 1 \in 1 .. Len(s)
      BY <2>5, <1>1, <1>4
    <3> QED
      BY <3>1, <2>1, <2>3, <2>5, <1>1
  <2> QED
    BY <2>2, <2>4, <2>5
<1>7. CASE p < i
  <2>1. t[j] = s[j - 1] /\ j - 1 \in p + 1 .. Len(s) /\ j - 1 \in 1 .. Len(s)
    BY <1>1, <1>2, <1>7
  <2>2. CASE i = p + 1
    <3>1. t[i] = lr
      BY <2>2, <1>1, <1>2
    <3> QED
      BY <3>1, <2>1, <1>4
  <2>3. CASE i # p + 1
    <3>1. t[i] = s[i - 1]
      <4>1. ~(i <= p)
        BY <1>1, <1>7
      <4> QED
        BY <4>1, <2>3, <1>2
    <3>2. i - 1 \in 1 .. Len(s) /\ i - 1 < j - 1
      BY <2>3, <1>1, <1>7
    <3> QED
      BY <3>1, <3>2, <2>1, <1>1 DEF Ordered
  <2> QED
    BY <2>2, <2>3
<1> QED
  BY <1>1, <1>5, <1>6, <1>7

LEMMA PrefixOrdered ==
  ASSUME NEW s \in Seq(Locals), Ordered(s), NEW k \in 0 .. Len(s)
  PROVE  Ordered(SubSeq(s, 1, k))
<1> DEFINE t == SubSeq(s, 1, k)
<1>1. Len(s) \in Nat /\ DOMAIN s = 1 .. Len(s)
  OBVIOUS
<1>2. Len(t) = k /\ t \in Seq(Locals) /\ \A i \in 1 .. k : t[i] = s[i]
  BY SubSeqProperties, \A i \in 1 .. k : s[i] \in Locals
<1> HIDE DEF t
<1>3. DOMAIN t = 1 .. k
  BY <1>2
<1>4. Ordered(t)
  BY <1>1, <1>2, <1>3 DEF Ordered
<1> QED
  BY <1>4 DEF t

LEMMA RemoveOrdered ==
  ASSUME NEW s \in Seq(Locals), Ordered(s), NEW v \in DOMAIN s
  PROVE  Ordered(RemoveAt(s, v))
<1> DEFINE t == RemoveAt(s, v)
<1>1. Len(s) \in Nat /\ DOMAIN s = 1 .. Len(s) /\ v \in 1 .. Len(s)
  OBVIOUS
<1>2. t \in Seq(Locals) /\ Len(t) = Len(s) - 1
      /\ \A i \in 1 .. Len(s) - 1 : t[i] = IF i < v THEN s[i] ELSE s[i + 1]
  BY RemoveItems
<1> HIDE DEF t
<1>3. DOMAIN t = 1 .. Len(s) - 1
  BY <1>1, <1>2
<1>4. ASSUME NEW i \in 1 .. Len(s) - 1
      PROVE  \E k \in 1 .. Len(s) : t[i] = s[k] /\ k = (IF i < v THEN i ELSE i + 1)
  BY <1>1, <1>2
<1>5. Ordered(t)
  <2> SUFFICES ASSUME NEW i \in 1 .. Len(s) - 1, NEW j \in 1 .. Len(s) - 1, i < j
               PROVE  beg[t[i]] <= beg[t[j]]
    BY <1>3 DEF Ordered
  <2>1. PICK k \in 1 .. Len(s) : t[i] = s[k] /\ k = (IF i < v THEN i ELSE i + 1)
    BY <1>4
  <2>2. PICK l \in 1 .. Len(s) : t[j] = s[l] /\ l = (IF j < v THEN j ELSE j + 1)
    BY <1>4
  <2>3. k < l
    BY <1>1, <2>1, <2>2
  <2> QED
    BY <1>1, <2>1, <2>2, <2>3 DEF Ordered
<1> QED
  BY <1>5 DEF t

\* Expiry, stealing and insertion leave the list in order.
LEMMA StepOrdered ==
  ASSUME IInv, Ordered(active), [Next]_vars
  PROVE  Ordered(active)'
<1> USE DEF IInv
<1>1. beg \in [Locals -> Nat] /\ active \in Seq(Locals)
  BY DEF TypeOK
<1>2. CASE i_regalloc \/ UNCHANGED vars
  BY <1>2 DEF i_regalloc, vars, input, Ordered
<1>3. CASE ra_ls_internal
  <2>1. beg' = beg /\ lr \in Locals
    BY <1>3, ScanAssumption DEF ra_ls_internal, input, TypeOK, Locals
  <2>2. CASE SkipParam \/ OnStack
    BY <2>1, <2>2 DEF SkipParam, OnStack, Ordered
  <2>3. CASE Allocate
    <3>1. PICK k \in 0 .. Len(active) :
            /\ Kept(active, k)
            /\ LET act == SubSeq(active, 1, k)
                   pool == reg \cup {ADDR[active[i]] : i \in k + 1 .. Len(active)}
               IN  TakeFree(act, pool) \/ Steal(act, pool) \/ SpillCurrent(act, pool)
      BY <2>3 DEF Allocate
    <3> DEFINE act == SubSeq(active, 1, k)
               pool == reg \cup {ADDR[active[i]] : i \in k + 1 .. Len(active)}
    <3>2. act \in Seq(Locals) /\ Ordered(act)
      <4>1. \A i \in 1 .. k : active[i] \in Locals
        BY <1>1
      <4>2. act \in Seq(Locals)
        BY <4>1, <1>1, SubSeqProperties
      <4> QED
        BY <4>2, <1>1, PrefixOrdered
    <3>3. TakeFree(act, pool) \/ Steal(act, pool) \/ SpillCurrent(act, pool)
      BY <3>1
    <3> HIDE DEF act, pool
    <3>4. \/ active' = act
          \/ \E s \in Seq(Locals) : \E p \in 0 .. Len(s) :
               Ordered(s) /\ InsertAfter(s, p) /\ active' = InsertAt(s, p + 1, lr)
      <4>1. CASE TakeFree(act, pool)
        BY <4>1, <3>2 DEF TakeFree, Insert
      <4>2. CASE SpillCurrent(act, pool)
        BY <4>2 DEF SpillCurrent
      <4>3. CASE Steal(act, pool)
        <5>1. PICK v \in DOMAIN act : \E p \in 0 .. Len(act) - 1 :
                InsertAfter(RemoveAt(act, v), p) /\ active' = InsertAt(RemoveAt(act, v), p + 1, lr)
          BY <4>3 DEF Steal
        <5>2. RemoveAt(act, v) \in Seq(Locals) /\ Len(RemoveAt(act, v)) = Len(act) - 1
              /\ Ordered(RemoveAt(act, v))
          BY <3>2, RemoveItems, RemoveOrdered
        <5> QED
          BY <5>1, <5>2
      <4> QED
        BY <3>3, <4>1, <4>2, <4>3
    <3>5. Ordered(active')
      BY <3>2, <3>4, <1>1, <2>1, InsertOrdered
    <3> QED
      BY <3>5, <2>1 DEF Ordered
  <2> QED
    BY <1>3, <2>2, <2>3 DEF ra_ls_internal
<1> QED
  BY <1>2, <1>3 DEF Next

LEMMA LeastElement ==
  ASSUME NEW T \in SUBSET Nat, T # {}
  PROVE  \E m \in T : \A k \in T : m <= k
<1>1. PICK m \in T : \A k \in T : <<k, m>> \notin OpToRel(<, Nat)
  BY NatLessThanWellFounded, WFMin, Zenon
<1>2. \A k \in T : ~(k < m)
  BY <1>1, Zenon DEF OpToRel
<1> QED
  BY <1>2

WholeCounts == \A c \in RefCounts : c = 2 * Whole(c)

\* With whole counts, what lrleastcost chooses is an interval of least count,
\* and there is one unless the list is empty.
LEMMA LeastCostIsLeast ==
  ASSUME refcnt \in [Locals -> Nat], \A i \in Locals : refcnt[i] = 2 * Whole(refcnt[i]),
         NEW act \in Seq(Locals), act # <<>>
  PROVE  /\ \E v \in DOMAIN act : LeastCost(act, v)
         /\ \A v \in DOMAIN act : LeastCost(act, v) =>
              \A i \in DOMAIN act : refcnt[act[v]] <= refcnt[act[i]]
<1> DEFINE cost(i) == refcnt[act[i]]
<1>1. Len(act) \in Nat /\ DOMAIN act = 1 .. Len(act) /\ 1 \in DOMAIN act
      /\ \A i \in DOMAIN act : act[i] \in Locals /\ cost(i) \in Nat
  OBVIOUS
<1>2. \A v \in DOMAIN act : Lighter(act, v) <=> \A k \in 1 .. v - 1 : cost(v) < cost(k)
  <2> TAKE v \in DOMAIN act
  <2>1. \A k \in 1 .. v - 1 : k \in DOMAIN act /\ 2 * Whole(refcnt[act[k]]) = cost(k)
    BY <1>1
  <2> QED
    BY <2>1 DEF Lighter
<1> DEFINE Costs == {cost(i) : i \in DOMAIN act}
<1>3. PICK least \in Costs : \A c \in Costs : least <= c
  <2>1. Costs \in SUBSET Nat /\ Costs # {}
    BY <1>1
  <2> HIDE DEF Costs
  <2> QED
    BY <2>1, LeastElement
<1> DEFINE Cheap == {i \in DOMAIN act : cost(i) = least}
<1>4. PICK first \in Cheap : \A i \in Cheap : first <= i
  <2>1. Cheap \in SUBSET Nat /\ Cheap # {}
    BY <1>1
  <2> HIDE DEF Cheap
  <2> QED
    BY <2>1, LeastElement
<1>5. first \in DOMAIN act /\ first \in Nat /\ least \in Nat /\ cost(first) = least
  BY <1>1
<1>6. \A i \in DOMAIN act : least <= cost(i)
  BY <1>3
<1>7. Lighter(act, first)
  <2> SUFFICES ASSUME NEW k \in 1 .. first - 1
               PROVE  cost(first) < cost(k)
    BY <1>2, <1>5
  <2>1. k \in DOMAIN act /\ k < first
    BY <1>1, <1>5
  <2>2. k \notin Cheap
    BY <1>4, <1>5, <2>1
  <2>3. cost(k) # least /\ least <= cost(k) /\ cost(k) \in Nat
    BY <1>1, <1>6, <2>1, <2>2
  <2> QED
    BY <1>5, <2>3
<1>8. ASSUME NEW v \in DOMAIN act, first < v
      PROVE  ~Lighter(act, v)
  <2>1. first \in 1 .. v - 1
    BY <1>1, <1>5, <1>8
  <2>2. ~(cost(v) < cost(first))
    BY <1>1, <1>5, <1>6
  <2> QED
    BY <1>2, <2>1, <2>2
<1> HIDE DEF cost, Cheap, Costs
<1>9. LeastCost(act, first)
  <2>1. \A i \in first + 1 .. Len(act) : i \in DOMAIN act /\ first < i
    BY <1>1, <1>5
  <2> QED
    BY <1>5, <1>7, <1>8, <2>1 DEF LeastCost
<1>10. ASSUME NEW v \in DOMAIN act, LeastCost(act, v)
       PROVE  v = first
  <2>1. ~(first < v)
    BY <1>8, <1>10 DEF LeastCost
  <2>2. ~(v < first)
    <3> SUFFICES ASSUME v < first PROVE FALSE
      OBVIOUS
    <3>1. first \in v + 1 .. Len(act)
      BY <1>1, <1>5
    <3> QED
      BY <3>1, <1>7, <1>10 DEF LeastCost
  <2> QED
    BY <1>1, <1>5, <2>1, <2>2
<1> QED
  BY <1>5, <1>6, <1>9, <1>10 DEF cost

\* Who competes for a register when the list is full is in the list.
LEMMA SpillIsCheapest ==
  ASSUME IInv, Ordered(active), \A i \in Locals : refcnt[i] = 2 * Whole(refcnt[i]),
         [Next]_vars, NEW l \in Locals, SpilledNow(l), NEW m \in Competing \cup {lr}
  PROVE  IF UseRefc THEN refcnt[l] <= refcnt[m] ELSE beg[l] <= beg[m]
<1> USE DEF IInv
<1>1. ra_ls_internal /\ sz # -1 /\ Allocate
  <2>1. ~(i_regalloc \/ UNCHANGED vars)
    BY DEF SpilledNow, i_regalloc, vars
  <2>2. ra_ls_internal
    BY <2>1 DEF Next
  <2>3. ~SkipParam
    BY DEF SpilledNow, SkipParam
  <2>4. ~OnStack
    <3> SUFFICES ASSUME OnStack PROVE FALSE
      OBVIOUS
    <3>1. SCLASS' = [SCLASS EXCEPT ![lr] = "STACK"] /\ SCLASS[lr] = "STACK"
      BY DEF OnStack, Spill
    <3>2. SCLASS \in [Locals -> {"UNDECIDED", "STACK", "REGISTER"}]
      BY DEF TypeOK
    <3> QED
      BY <3>1, <3>2 DEF SpilledNow
  <2> QED
    BY <2>2, <2>3, <2>4 DEF ra_ls_internal
<1>2. lr \in Locals /\ lr \in Nat /\ lr \notin params /\ SCLASS[lr] # "STACK"
  BY <1>1, ScanAssumption DEF ra_ls_internal, TypeOK, Locals, Allocate
<1>3. PICK k \in 0 .. Len(active) :
        /\ Kept(active, k)
        /\ LET act == SubSeq(active, 1, k)
               pool == reg \cup {ADDR[active[i]] : i \in k + 1 .. Len(active)}
           IN  TakeFree(act, pool) \/ Steal(act, pool) \/ SpillCurrent(act, pool)
  BY <1>1 DEF Allocate
<1> DEFINE act == SubSeq(active, 1, k)
           pool == reg \cup {ADDR[active[i]] : i \in k + 1 .. Len(active)}
<1>4. /\ act \in Seq(Locals)
      /\ ListSound(act, pool)
      /\ \A i \in Locals \ params :
           InRegister(i) /\ i \notin Elems(act) => beg[i] > end[lr]
  BY <1>1, <1>2, <1>3, Expire
<1>5. Ordered(act)
  BY <1>3, PrefixOrdered DEF TypeOK
<1>6. TakeFree(act, pool) \/ Steal(act, pool) \/ SpillCurrent(act, pool)
  BY <1>3
<1> HIDE DEF act, pool
<1>7. /\ beg \in [Locals -> Nat] /\ end \in [Locals -> Nat] /\ refcnt \in [Locals -> Nat]
      /\ SCLASS \in [Locals -> {"UNDECIDED", "STACK", "REGISTER"}]
      /\ Len(act) \in Nat /\ DOMAIN act = 1 .. Len(act)
      /\ \A i \in DOMAIN act : act[i] \in Locals
  BY <1>4 DEF TypeOK
<1>8. m = lr \/ \E i \in DOMAIN act : m = act[i]
  <2> SUFFICES ASSUME m \in Competing PROVE m \in Elems(act)
    BY DEF Elems
  <2>1. m \in Locals \ params /\ InRegister(m) /\ beg[m] <= end[lr]
    BY <1>2, ScanAssumption DEF Competing, InRegister, Locals
  <2>2. ~(beg[m] > end[lr])
    BY <2>1, <1>2, <1>7
  <2> QED
    BY <2>1, <2>2, <1>4
<1>9. ~TakeFree(act, pool)
  <2> SUFFICES ASSUME TakeFree(act, pool) PROVE FALSE
    OBVIOUS
  <2>1. SCLASS' = [SCLASS EXCEPT ![lr] = "REGISTER"]
    BY DEF TakeFree, Insert
  <2> QED
    BY <2>1, <1>7 DEF SpilledNow
<1>10. \A v \in DOMAIN act : Victim(act, v) =>
         /\ \A i \in DOMAIN act : IF UseRefc THEN refcnt[act[v]] <= refcnt[act[i]] ELSE beg[act[v]] <= beg[act[i]]
         /\ IF UseRefc THEN refcnt[act[v]] <= refcnt[lr] ELSE beg[act[v]] <= beg[lr]
  <2> TAKE v \in DOMAIN act
  <2> HAVE Victim(act, v)
  <2>1. act[v] \in Locals /\ act # <<>>
    BY <1>7
  <2>2. CASE UseRefc
    <3>1. LeastCost(act, v) /\ 2 * Whole(refcnt[act[v]]) <= refcnt[lr]
      <4>1. LeastCost(act, v) /\ (2 * Whole(refcnt[act[v]]) < refcnt[lr] \/ 2 * Whole(refcnt[act[v]]) = refcnt[lr])
        BY <2>2 DEF Victim
      <4>2. refcnt[act[v]] = 2 * Whole(refcnt[act[v]]) /\ refcnt[act[v]] \in Nat /\ refcnt[lr] \in Nat
        BY <2>1, <1>2, <1>7
      <4> QED
        BY <4>1, <4>2
    <3>2. \A i \in DOMAIN act : refcnt[act[v]] <= refcnt[act[i]]
      BY <3>1, <2>1, <1>4, <1>7, LeastCostIsLeast
    <3>3. refcnt[act[v]] = 2 * Whole(refcnt[act[v]])
      BY <2>1
    <3> QED
      BY <2>2, <3>1, <3>2, <3>3
  <2>3. CASE ~UseRefc
    <3>1. v = 1 /\ beg[act[v]] < beg[lr]
      BY <2>3 DEF Victim, Starts
    <3>2. ASSUME NEW i \in DOMAIN act
          PROVE  beg[act[v]] <= beg[act[i]]
      <4>1. i = v \/ v < i
        BY <3>1, <1>7
      <4>2. beg[act[v]] \in Nat
        BY <2>1, <1>7
      <4> QED
        BY <4>1, <4>2, <1>5 DEF Ordered
    <3>3. beg[act[v]] <= beg[lr]
      <4>1. beg[act[v]] \in Nat /\ beg[lr] \in Nat
        BY <2>1, <1>2, <1>7
      <4> QED
        BY <3>1, <4>1
    <3> QED
      BY <2>3, <3>2, <3>3
  <2> QED
    BY <2>2, <2>3
<1>11. CASE Steal(act, pool)
  <2>1. PICK v \in DOMAIN act : Victim(act, v) /\ SCLASS' = [SCLASS EXCEPT ![lr] = "REGISTER", ![act[v]] = "STACK"]
    BY <1>11 DEF Steal
  <2>2. l = act[v]
    <3>1. l # act[v] => SCLASS'[l] = "REGISTER" \/ SCLASS'[l] = SCLASS[l]
      BY <2>1, <1>7
    <3> QED
      BY <3>1 DEF SpilledNow
  <2> QED
    BY <2>1, <2>2, <1>8, <1>10
<1>12. CASE SpillCurrent(act, pool)
  <2>1. (\A v \in DOMAIN act : ~Victim(act, v)) /\ SCLASS' = [SCLASS EXCEPT ![lr] = "STACK"]
    BY <1>12 DEF SpillCurrent, Spill
  <2>2. l = lr
    BY <2>1, <1>7 DEF SpilledNow
  <2>3. CASE m = lr
    BY <2>2, <2>3, <1>2, <1>7
  <2>4. ASSUME NEW i \in DOMAIN act, m = act[i]
        PROVE  IF UseRefc THEN refcnt[lr] <= refcnt[m] ELSE beg[lr] <= beg[m]
    <3>1. act # <<>> /\ m \in Locals /\ 1 \in DOMAIN act
      BY <2>4, <1>7
    <3>2. CASE UseRefc
      <4>1. PICK v \in DOMAIN act : LeastCost(act, v) /\ refcnt[act[v]] <= refcnt[act[i]]
        BY <3>1, <1>4, <1>7, LeastCostIsLeast
      <4>2. ~(2 * Whole(refcnt[act[v]]) < refcnt[lr])
        BY <2>1, <3>2, <4>1 DEF Victim
      <4>3. refcnt[act[v]] = 2 * Whole(refcnt[act[v]]) /\ refcnt[act[v]] \in Nat /\ refcnt[lr] \in Nat /\ refcnt[m] \in Nat
        BY <1>2, <1>7, <3>1
      <4> QED
        BY <2>4, <3>2, <4>1, <4>2, <4>3
    <3>3. CASE ~UseRefc
      <4>1. ~(beg[act[1]] < beg[lr])
        BY <2>1, <3>1, <3>3 DEF Victim, Starts
      <4>2. i = 1 \/ 1 < i
        BY <1>7
      <4>3. beg[act[1]] <= beg[act[i]]
        BY <4>2, <3>1, <1>5, <1>7 DEF Ordered
      <4>4. beg[act[1]] \in Nat /\ beg[lr] \in Nat /\ beg[m] \in Nat
        BY <1>2, <1>7, <3>1
      <4> QED
        BY <2>4, <3>3, <4>1, <4>3, <4>4
    <3> QED
      BY <3>2, <3>3
  <2> QED
    BY <2>2, <2>3, <2>4, <1>8
<1> QED
  BY <1>6, <1>9, <1>11, <1>12

\* The local that goes to the stack is the cheapest of those that compete, as
\* long as no reference count has been halved (reg-ls.c, lrleastcost).
THEOREM CheapestIsSpilled ==
  ASSUME WholeCounts
  PROVE  Spec => SpillsCheapest
<1> DEFINE Inv == Ordered(active) /\ \A i \in Locals : refcnt[i] = 2 * Whole(refcnt[i])
<1>1. Init => Inv
  <2> SUFFICES ASSUME Init PROVE Inv
    OBVIOUS
  <2>1. Ordered(active)
    BY DEF Init, Ordered
  <2>2. \A i \in Locals : refcnt[i] \in RefCounts
    BY DEF Init
  <2> QED
    BY <2>1, <2>2 DEF WholeCounts
<1>2. IInv /\ Inv /\ [Next]_vars => Inv'
  <2> SUFFICES ASSUME IInv, Inv, [Next]_vars PROVE Inv'
    OBVIOUS
  <2>1. refcnt' = refcnt
    BY DEF Next, i_regalloc, ra_ls_internal, input, vars
  <2>2. Ordered(active)'
    BY StepOrdered
  <2> QED
    BY <2>1, <2>2
<1>3. IInv /\ Inv /\ [Next]_vars =>
        [\A l \in Locals : SpilledNow(l) =>
           \A m \in Competing \cup {lr} :
             IF UseRefc THEN refcnt[l] <= refcnt[m] ELSE beg[l] <= beg[m]]_vars
  BY SpillIsCheapest
<1> HIDE DEF Inv
<1> QED
  BY <1>1, <1>2, <1>3, AllocatorInvariant, PTL DEF Spec, SpillsCheapest
=============================================================================
