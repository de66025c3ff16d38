--------------------------- MODULE CodegenProofs ----------------------------
(***************************************************************************)
(* Proofs about code generation: the label table, for every size of the    *)
(* table, every number of references per label and every length of code;   *)
(* what the arithmetic of frames and call areas guarantees for every size; *)
(* and what the overflow tests of the constant folder answer for every     *)
(* pair of operands and limits.                                            *)
(***************************************************************************)
EXTENDS Labels, Frames, Overflow, TLAPS

\* What the emitter means when it records displacement a under number l.
Target(l, a) ==
  IF l = epilogue_label THEN Epilogue ELSE IF l \in client THEN ClientLabel(l) ELSE Local(a)

Shape ==
  /\ table \in [address : [Numbers -> Nat \cup {NoAddress}], refs : [Numbers -> SUBSET Nat], count : Nat]
  /\ ip \in Nat /\ code_start \in Nat
  /\ i_lab_cur \in Nat /\ min_lab <= i_lab_cur
  /\ client \subseteq Nat /\ \A l \in client : min_lab <= l
  /\ mode \in DOMAIN Conditions
  /\ mode = "vcode" /\ phase = "idle" => client = {}

Tables == [address : [Numbers -> Nat \cup {NoAddress}], refs : [Numbers -> SUBSET Nat], count : Nat]

\* Numbers from label_count on have no record yet; a client of vcode owns only
\* numbers below it.  A client of icode may own numbers above: they are not
\* given to anybody else as long as nothing calls v_genlabel.
Unused(t) ==
  /\ 1 < t.count
  /\ \A l \in Numbers : l >= t.count => t.refs[l] = {} /\ t.address[l] = NoAddress
  /\ mode = "vcode" => \A l \in client : l < t.count

\* The displacements from code_start to end are those recorded in t, each under
\* a number that stands for its target; a number that is neither the client's
\* nor the epilogue's has at most one.
Recorded(t, end, w) ==
  /\ DOMAIN w = code_start .. end - 1
  /\ \A a \in code_start .. end - 1 : \E l \in Numbers : a \in t.refs[l]
  /\ \A l \in Numbers : \A a \in t.refs[l] :
       a \in code_start .. end - 1 /\ w[a] = Target(l, a)
  /\ \A l \in Numbers \ (client \cup {epilogue_label}) :
       \A a, b \in t.refs[l] : a = b

\* An address in the table is the one its target was placed at.
PlacedRight(t, p) ==
  /\ \A l \in Numbers \cap client : t.address[l] # NoAddress =>
       ClientLabel(l) \in DOMAIN p /\ p[ClientLabel(l)] = t.address[l]
  /\ \A l \in Numbers \ (client \cup {epilogue_label}) : \A a \in t.refs[l] :
       Local(a) \in DOMAIN p /\ p[Local(a)] = t.address[l]

\* The records of a function whose code ends at end.
Good(t, end, w, p) ==
  code_start <= end /\ Unused(t) /\ Recorded(t, end, w) /\ PlacedRight(t, p)

IInv == Shape /\ (phase = "open" => Good(table, ip, wants, placed))

-----------------------------------------------------------------------------
(* What the operations of the table return.                                *)

\* ensure_label raises label_count past the number.
LEMMA EnsureIs ==
  ASSUME NEW t \in Tables, NEW l \in Numbers
  PROVE  /\ ensure_label(t, l) \in Tables
         /\ ensure_label(t, l).address = t.address
         /\ ensure_label(t, l).refs = t.refs
         /\ ensure_label(t, l).count = IF l >= t.count THEN l + 1 ELSE t.count
<1>1. l \in Nat /\ t.count \in Nat
  BY LabelsAssumption DEF Numbers, Tables
<1>2. CASE l >= t.count
  BY <1>1, <1>2 DEF ensure_label, Tables
<1>3. CASE ~(l >= t.count)
  BY <1>1, <1>3 DEF ensure_label, Tables
<1> QED
  BY <1>2, <1>3

\* add_reference adds one displacement and raises label_count past the number.
LEMMA AddReferenceIs ==
  ASSUME NEW t \in Tables, NEW l \in Numbers, NEW a \in Nat
  PROVE  /\ add_reference(t, l, a) \in Tables
         /\ add_reference(t, l, a).address = t.address
         /\ add_reference(t, l, a).refs = [t.refs EXCEPT ![l] = @ \cup {a}]
         /\ add_reference(t, l, a).count = IF l >= t.count THEN l + 1 ELSE t.count
         /\ add_reference(t, l, a).count >= t.count
         /\ \A k \in Numbers : k >= add_reference(t, l, a).count => k >= t.count /\ k # l
<1> DEFINE e == ensure_label(t, l)
           r == add_reference(t, l, a)
<1>1. /\ e \in Tables /\ e.address = t.address /\ e.refs = t.refs
      /\ e.count = IF l >= t.count THEN l + 1 ELSE t.count
  BY EnsureIs
<1>2. r = [e EXCEPT !.refs[l] = @ \cup {a}]
  BY DEF add_reference
<1> HIDE DEF e, r
<1>3. l \in Nat /\ t.count \in Nat /\ e.count \in Nat /\ Numbers \subseteq Nat
  BY <1>1, LabelsAssumption DEF Numbers, Tables
<1>4. r \in Tables /\ r.count = e.count
  BY <1>1, <1>2 DEF Tables
<1>5. r.address = t.address /\ r.refs = [t.refs EXCEPT ![l] = @ \cup {a}]
  BY <1>1, <1>2 DEF Tables
<1>6. r.count >= t.count /\ r.count > l
  BY <1>1, <1>3, <1>4
<1>7. \A k \in Numbers : k >= r.count => k >= t.count /\ k # l
  BY <1>3, <1>4, <1>6
<1> QED
  BY <1>1, <1>4, <1>5, <1>6, <1>7 DEF r

\* v_label sets one address and raises label_count past the number.
LEMMA VLabelIs ==
  ASSUME NEW t \in Tables, NEW l \in Numbers, NEW a \in Nat
  PROVE  /\ v_label(t, l, a) \in Tables
         /\ v_label(t, l, a).refs = t.refs
         /\ v_label(t, l, a).address = [t.address EXCEPT ![l] = a]
         /\ v_label(t, l, a).count = IF l >= t.count THEN l + 1 ELSE t.count
         /\ v_label(t, l, a).count >= t.count
         /\ \A k \in Numbers : k >= v_label(t, l, a).count => k >= t.count /\ k # l
<1> DEFINE e == ensure_label(t, l)
           r == v_label(t, l, a)
<1>1. /\ e \in Tables /\ e.address = t.address /\ e.refs = t.refs
      /\ e.count = IF l >= t.count THEN l + 1 ELSE t.count
  BY EnsureIs
<1>2. r = [e EXCEPT !.address[l] = a]
  BY DEF v_label
<1> HIDE DEF e, r
<1>3. l \in Nat /\ t.count \in Nat /\ e.count \in Nat /\ Numbers \subseteq Nat
  BY <1>1, LabelsAssumption DEF Numbers, Tables
<1>4. r \in Tables /\ r.count = e.count
  BY <1>1, <1>2 DEF Tables
<1>5. r.refs = t.refs /\ r.address = [t.address EXCEPT ![l] = a]
  BY <1>1, <1>2 DEF Tables
<1>6. r.count >= t.count /\ r.count > l
  BY <1>1, <1>3, <1>4
<1>7. \A k \in Numbers : k >= r.count => k >= t.count /\ k # l
  BY <1>3, <1>4, <1>6
<1> QED
  BY <1>1, <1>4, <1>5, <1>6, <1>7 DEF r

\* v_genlabel takes the number label_count.
LEMMA GenLabelIs ==
  ASSUME NEW t \in Tables
  PROVE  /\ v_genlabel(t) \in Tables
         /\ v_genlabel(t).address = t.address
         /\ v_genlabel(t).refs = t.refs
         /\ v_genlabel(t).count = t.count + 1
  BY DEF v_genlabel, Tables

\* Targets of different kinds, of different labels or places are different.
LEMMA TargetsDiffer ==
  ASSUME NEW k, NEW l
  PROVE  /\ ClientLabel(k) = ClientLabel(l) => k = l
         /\ Local(k) = Local(l) => k = l
         /\ ClientLabel(k) # Local(l)
         /\ ClientLabel(k) # Epilogue
         /\ Local(k) # Epilogue
  BY DEF ClientLabel, Local, Epilogue

\* Label 1 is the epilogue's and is in the table; no client owns it.
LEMMA EpilogueNumber ==
  ASSUME Shape
  PROVE  epilogue_label \in Numbers /\ epilogue_label \notin client /\ client \subseteq Nat
  BY LabelsAssumption DEF Shape, epilogue_label, Numbers, min_lab

-----------------------------------------------------------------------------
(* Steps that do not emit.                                                 *)

LEMMA InitIInv == Init => IInv
  BY LabelsAssumption DEF Init, IInv, Shape, NoLabels, Tables, min_lab, Empty

LEMMA FatalIInv ==
  ASSUME IInv, NEW message, message \notin {"idle", "open"}, v_fatal(message), mode' = mode
  PROVE  IInv'
  BY DEF IInv, Shape, v_fatal

LEMMA MakeLabelIInv ==
  ASSUME IInv, i_mklabel, mode' = mode
  PROVE  IInv'
  BY DEF IInv, Shape, i_mklabel, min_lab

LEMMA LambdaIInv ==
  ASSUME IInv, v_lambda, mode' = mode
  PROVE  IInv'
<1>1. NoLabels \in Tables /\ labels_start = NoLabels
  BY DEF NoLabels, Tables, labels_start
<1>2. /\ table' \in Tables /\ table'.count = 2
      /\ table'.refs = [l \in Numbers |-> {}]
      /\ table'.address = [l \in Numbers |-> NoAddress]
  <2>1. table' = v_genlabel(NoLabels)
    BY <1>1 DEF v_lambda
  <2>2. /\ NoLabels.count = 1 /\ NoLabels.refs = [l \in Numbers |-> {}]
        /\ NoLabels.address = [l \in Numbers |-> NoAddress]
    BY DEF NoLabels
  <2> QED
    BY <1>1, <2>1, <2>2, GenLabelIs
<1>3. /\ phase' = "open" /\ code_start' = ip /\ ip' = ip /\ client' = client
      /\ i_lab_cur' = i_lab_cur /\ wants' = Empty
  BY DEF v_lambda
<1>4. Shape' /\ (code_start <= ip)'
  BY <1>2, <1>3 DEF IInv, Good, Shape, Tables
<1>5. mode = "vcode" => client = {}
  BY DEF IInv, Shape, v_lambda
<1>6. Unused(table)'
  BY <1>2, <1>3, <1>5 DEF Unused
<1>7. Recorded(table, ip, wants)'
  <2>1. DOMAIN Empty = {} /\ ip .. ip - 1 = {}
    BY DEF IInv, Shape, Empty
  <2> QED
    BY <1>2, <1>3, <2>1 DEF Recorded, IInv, Shape
<1>8. PlacedRight(table, placed)'
  BY <1>2, <1>3 DEF PlacedRight
<1> QED
  BY <1>4, <1>6, <1>7, <1>8 DEF IInv, Good

\* A vcode client's new label is a number nothing was recorded under.
LEMMA NewLabelIInv ==
  ASSUME IInv, NewLabel, mode' = mode
  PROVE  IInv'
<1>1. CASE ~CanGenerate(table)
  BY <1>1, FatalIInv DEF NewLabel
<1>2. CASE CanGenerate(table)
  <2> DEFINE new == table.count
  <2>1. /\ table \in Tables /\ Good(table, ip, wants, placed)
        /\ Unused(table) /\ Recorded(table, ip, wants) /\ PlacedRight(table, placed) /\ Shape
        /\ phase = "open" /\ mode = "vcode"
    BY DEF IInv, Good, NewLabel, Shape, Tables
  <2>2. new \in Numbers /\ new \notin client /\ new \in Nat /\ min_lab <= new
    BY <1>2, <2>1, LabelsAssumption DEF CanGenerate, Unused, Tables, Numbers, min_lab
  <2>3. /\ table' \in Tables /\ table'.address = table.address
        /\ table'.refs = table.refs /\ table'.count = new + 1
        /\ client' = client \cup {new}
        /\ UNCHANGED <<mode, i_lab_cur, code_start, ip, phase, wants, placed, patched>>
    BY <1>2, <2>1, GenLabelIs DEF NewLabel
  <2>4. table.refs[new] = {} /\ table.address[new] = NoAddress
    BY <2>1, <2>2 DEF Unused
  <2>5. new # epilogue_label
    BY <2>2 DEF min_lab, epilogue_label
  <2> HIDE DEF new
  <2>6. Shape' /\ (code_start <= ip)'
    BY <2>1, <2>2, <2>3 DEF Good, Shape, Tables
  <2>7. Unused(table)'
    BY <2>1, <2>2, <2>3, LabelsAssumption DEF Unused, Shape, Numbers, new
  <2>8. Recorded(table, ip, wants)'
    <3>1. \A l \in Numbers : \A a \in table.refs[l] : Target(l, a)' = Target(l, a)
      BY <2>3, <2>4 DEF Target
    <3> QED
      BY <2>1, <2>3, <2>4, <3>1 DEF Recorded
  <2>9. PlacedRight(table, placed)'
    BY <2>1, <2>3, <2>4 DEF PlacedRight
  <2> QED
    BY <2>6, <2>7, <2>8, <2>9 DEF IInv, Good
<1> QED
  BY <1>1, <1>2

\* Placing a label of the client.
LEMMA PlaceLabelIInv ==
  ASSUME IInv, NEW l \in client, PlaceLabel(l), mode' = mode
  PROVE  IInv'
<1>1. CASE l \notin Numbers
  BY <1>1, FatalIInv DEF PlaceLabel
<1>2. CASE l \in Numbers
  <2>1. /\ table \in Tables /\ Good(table, ip, wants, placed)
        /\ Unused(table) /\ Recorded(table, ip, wants) /\ PlacedRight(table, placed)
        /\ Shape /\ phase = "open" /\ ip \in Nat
    BY DEF IInv, Good, PlaceLabel, Shape, Tables
  <2>2. /\ table' = v_label(table, l, ip)
        /\ placed' = Extend(placed, ClientLabel(l), ip)
        /\ UNCHANGED <<mode, i_lab_cur, client, code_start, ip, phase, wants, patched>>
    BY <1>2 DEF PlaceLabel
  <2>3. /\ table' \in Tables /\ table'.refs = table.refs
        /\ table'.address = [table.address EXCEPT ![l] = ip]
        /\ table'.count >= table.count
        /\ \A k \in Numbers : k >= table'.count => k >= table.count /\ k # l
    BY <1>2, <2>1, <2>2, VLabelIs
  <2>4. Shape' /\ (code_start <= ip)'
    BY <2>1, <2>2, <2>3 DEF Good, Shape, Tables
  <2>5. Unused(table)'
    BY <2>1, <2>2, <2>3 DEF Unused, Shape, Tables
  <2>6. Recorded(table, ip, wants)'
    BY <2>1, <2>2, <2>3 DEF Recorded, Target
  <2>7. PlacedRight(table, placed)'
    <3>1. /\ ClientLabel(l) \in DOMAIN placed' /\ placed'[ClientLabel(l)] = ip
          /\ DOMAIN placed \subseteq DOMAIN placed'
          /\ \A x \in DOMAIN placed : x # ClientLabel(l) => placed'[x] = placed[x]
      BY <2>2 DEF Extend
    <3>2. \A k \in Numbers : table'.address[k] = IF k = l THEN ip ELSE table.address[k]
      BY <1>2, <2>1, <2>3 DEF Tables
    <3>3. ASSUME NEW k \in Numbers \cap client', table'.address[k] # NoAddress
          PROVE  ClientLabel(k) \in DOMAIN placed' /\ placed'[ClientLabel(k)] = table'.address[k]
      <4>1. CASE k = l
        BY <3>1, <3>2, <4>1
      <4>2. CASE k # l
        BY <2>1, <2>2, <3>1, <3>2, <3>3, <4>2, TargetsDiffer DEF PlacedRight
      <4> QED
        BY <4>1, <4>2
    <3>4. ASSUME NEW k \in Numbers \ (client' \cup {epilogue_label}), NEW a \in table'.refs[k]
          PROVE  Local(a) \in DOMAIN placed' /\ placed'[Local(a)] = table'.address[k]
      BY <2>1, <2>2, <2>3, <3>1, <3>2, TargetsDiffer DEF PlacedRight
    <3> QED
      BY <3>3, <3>4 DEF PlacedRight
  <2> QED
    BY <2>4, <2>5, <2>6, <2>7 DEF IInv, Good
<1> QED
  BY <1>1, <1>2

-----------------------------------------------------------------------------
(* Steps that emit: what one displacement does to good records.            *)

\* A displacement recorded under a number of the client or the epilogue's.
LEMMA RecordOne ==
  ASSUME Shape, NEW t \in Tables, NEW end \in Nat, NEW w, NEW p, Good(t, end, w, p),
         NEW l \in Numbers, l = epilogue_label \/ l \in client
  PROVE  /\ add_reference(t, l, end) \in Tables
         /\ Good(add_reference(t, l, end), end + 1, Extend(w, end, Target(l, end)), p)
<1> DEFINE t2 == add_reference(t, l, end)
           w2 == Extend(w, end, Target(l, end))
<1>1. code_start \in Nat /\ code_start <= end /\ Unused(t) /\ Recorded(t, end, w) /\ PlacedRight(t, p)
  BY DEF Shape, Good
<1>2. /\ t2 \in Tables /\ t2.address = t.address
      /\ t2.refs = [t.refs EXCEPT ![l] = @ \cup {end}]
      /\ t2.count >= t.count
      /\ \A k \in Numbers : k >= t2.count => k >= t.count /\ k # l
  BY AddReferenceIs
<1>3. \A k \in Numbers : t2.refs[k] = IF k = l THEN t.refs[k] \cup {end} ELSE t.refs[k]
  BY <1>2 DEF Tables
<1>4. /\ DOMAIN w2 = code_start .. end /\ w2[end] = Target(l, end)
      /\ \A a \in code_start .. end - 1 : w2[a] = w[a]
  <2>1. DOMAIN w = code_start .. end - 1 /\ end \notin DOMAIN w
    BY <1>1 DEF Recorded
  <2>2. (code_start .. end - 1) \cup {end} = code_start .. end
    BY <1>1
  <2> QED
    BY <2>1, <2>2 DEF Extend
<1>5. (code_start .. end - 1) \cup {end} = code_start .. end /\ end + 1 - 1 = end
  BY <1>1
<1> HIDE DEF t2, w2
<1>6. Unused(t2)
  BY <1>1, <1>2, <1>3 DEF Unused, Shape, Tables
<1>7. Recorded(t2, end + 1, w2)
  <2>1. \A a \in code_start .. end : \E k \in Numbers : a \in t2.refs[k]
    BY <1>1, <1>3, <1>5 DEF Recorded
  <2>2. \A k \in Numbers : \A a \in t2.refs[k] : a \in code_start .. end /\ w2[a] = Target(k, a)
    <3>1. ASSUME NEW k \in Numbers, NEW a \in t.refs[k]
          PROVE  a \in code_start .. end - 1 /\ w[a] = Target(k, a)
      BY <1>1 DEF Recorded
    <3>2. \A k \in Numbers : \A a \in t2.refs[k] : a \in t.refs[k] \/ (k = l /\ a = end)
      BY <1>3
    <3> QED
      BY <1>4, <1>5, <3>1, <3>2
  <2>3. \A k \in Numbers \ (client \cup {epilogue_label}) : \A a, b \in t2.refs[k] : a = b
    BY <1>1, <1>3 DEF Recorded
  <2> QED
    BY <1>4, <1>5, <2>1, <2>2, <2>3 DEF Recorded
<1>8. PlacedRight(t2, p)
  BY <1>1, <1>2, <1>3 DEF PlacedRight
<1>9. code_start <= end + 1
  BY <1>1
<1> QED
  BY <1>2, <1>6, <1>7, <1>8, <1>9 DEF Good, t2, w2

\* A displacement recorded under a number that v_genlabel supplied, for a join
\* point that is placed with it.  t2 is the table afterwards, in whichever order
\* the number was taken, the displacement recorded and the label placed.
LEMMA RecordFresh ==
  ASSUME Shape, NEW t \in Tables, NEW end \in Nat, NEW w, NEW p, Good(t, end, w, p),
         NEW l \in Numbers, l >= t.count, l \notin client,
         NEW x \in Nat, NEW t2 \in Tables,
         t2.refs = [t.refs EXCEPT ![l] = {end}], t2.address = [t.address EXCEPT ![l] = x],
         t2.count = l + 1
  PROVE  Good(t2, end + 1, Extend(w, end, Local(end)), Extend(p, Local(end), x))
<1> DEFINE w2 == Extend(w, end, Local(end))
           p2 == Extend(p, Local(end), x)
<1>1. code_start \in Nat /\ code_start <= end /\ Unused(t) /\ Recorded(t, end, w) /\ PlacedRight(t, p)
  BY DEF Shape, Good
<1>2. /\ \A k \in Numbers : t2.refs[k] = IF k = l THEN {end} ELSE t.refs[k]
      /\ \A k \in Numbers : t2.address[k] = IF k = l THEN x ELSE t.address[k]
  BY DEF Tables
<1>3. t.refs[l] = {} /\ l # epilogue_label /\ Target(l, end) = Local(end) /\ l \in Nat /\ t.count \in Nat
  BY <1>1, LabelsAssumption DEF Unused, Tables, epilogue_label, Target, Numbers
<1>4. /\ DOMAIN w2 = code_start .. end /\ w2[end] = Local(end)
      /\ \A a \in code_start .. end - 1 : w2[a] = w[a]
  <2>1. DOMAIN w = code_start .. end - 1 /\ end \notin DOMAIN w
    BY <1>1 DEF Recorded
  <2>2. (code_start .. end - 1) \cup {end} = code_start .. end
    BY <1>1
  <2> QED
    BY <2>1, <2>2 DEF Extend
<1>5. (code_start .. end - 1) \cup {end} = code_start .. end /\ end + 1 - 1 = end
  BY <1>1
<1>6. /\ Local(end) \in DOMAIN p2 /\ p2[Local(end)] = x
      /\ \A y \in DOMAIN p : y \in DOMAIN p2 /\ (y # Local(end) => p2[y] = p[y])
  BY DEF Extend
<1> HIDE DEF w2, p2
<1>7. Unused(t2)
  <2>1. \A k \in Numbers : k >= t2.count => k >= t.count /\ k # l
    BY <1>3, LabelsAssumption DEF Numbers
  <2>2. 1 < t2.count /\ \A k \in client : k < t.count => k < t2.count
    BY <1>1, <1>3 DEF Unused, Shape
  <2> QED
    BY <1>1, <1>2, <2>1, <2>2 DEF Unused
<1>8. Recorded(t2, end + 1, w2)
  <2>1. \A a \in code_start .. end : \E k \in Numbers : a \in t2.refs[k]
    BY <1>1, <1>2, <1>3, <1>5 DEF Recorded
  <2>2. \A k \in Numbers : \A a \in t2.refs[k] : a \in code_start .. end /\ w2[a] = Target(k, a)
    BY <1>1, <1>2, <1>3, <1>4, <1>5 DEF Recorded
  <2>3. \A k \in Numbers \ (client \cup {epilogue_label}) : \A a, b \in t2.refs[k] : a = b
    BY <1>1, <1>2 DEF Recorded
  <2> QED
    BY <1>4, <1>5, <2>1, <2>2, <2>3 DEF Recorded
<1>9. PlacedRight(t2, p2)
  <2>1. ASSUME NEW k \in Numbers \cap client, t2.address[k] # NoAddress
        PROVE  ClientLabel(k) \in DOMAIN p2 /\ p2[ClientLabel(k)] = t2.address[k]
    BY <1>1, <1>2, <1>6, <2>1, TargetsDiffer DEF PlacedRight
  <2>2. ASSUME NEW k \in Numbers \ (client \cup {epilogue_label}), NEW a \in t2.refs[k]
        PROVE  Local(a) \in DOMAIN p2 /\ p2[Local(a)] = t2.address[k]
    <3>1. CASE k = l
      BY <1>2, <1>6, <3>1
    <3>2. CASE k # l
      <4>1. a \in code_start .. end - 1 /\ a # end
        BY <1>1, <1>2, <3>2 DEF Recorded
      <4>2. Local(a) \in DOMAIN p /\ p[Local(a)] = t.address[k]
        BY <1>1, <1>2, <3>2 DEF PlacedRight
      <4> QED
        BY <1>2, <1>6, <3>2, <4>1, <4>2, TargetsDiffer
    <3> QED
      BY <3>1, <3>2
  <2> QED
    BY <2>1, <2>2 DEF PlacedRight
<1>10. code_start <= end + 1
  BY <1>1
<1> QED
  BY <1>7, <1>8, <1>9, <1>10 DEF Good, w2, p2

\* A step of an open function that leaves its client alone.
LEMMA GoodNext ==
  ASSUME Shape, phase = "open", mode' = mode,
         UNCHANGED <<i_lab_cur, client, code_start, phase>>,
         table' \in Tables, ip' \in Nat, Good(table', ip', wants', placed')
  PROVE  IInv'
<1>1. Shape'
  BY DEF Shape, Tables
<1>2. Good(table, ip, wants, placed)'
  BY DEF Good, Unused, Recorded, PlacedRight, Target
<1> QED
  BY <1>1, <1>2 DEF IInv

-----------------------------------------------------------------------------
(* Steps that emit.                                                        *)

\* One displacement is recorded after those there are, for the target given.
LEMMA EmitsOne ==
  ASSUME Shape, Good(table, ip, wants, placed), NEW t, NEW targets, Emits(t, targets, 1)
  PROVE  /\ table' = t /\ ip' = ip + 1 /\ ip' \in Nat
         /\ UNCHANGED <<i_lab_cur, client, code_start, phase>>
         /\ wants' = Extend(wants, ip, targets[0])
<1>1. /\ ip \in Nat /\ ip \notin DOMAIN wants /\ ip .. ip + 1 - 1 = {ip} /\ ip - ip = 0
  BY DEF Shape, Good, Recorded
<1>2. wants' = [a \in DOMAIN wants \cup {ip} |-> IF a \in DOMAIN wants THEN wants[a] ELSE targets[a - ip]]
  BY <1>1 DEF Emits
<1>3. wants' = [a \in DOMAIN wants \cup {ip} |-> IF a = ip THEN targets[0] ELSE wants[a]]
  BY <1>1, <1>2
<1> QED
  BY <1>1, <1>3 DEF Emits, Extend

\* Two displacements are recorded, in order.
LEMMA EmitsTwo ==
  ASSUME Shape, Good(table, ip, wants, placed), NEW t, NEW targets, Emits(t, targets, 2)
  PROVE  /\ table' = t /\ ip' = ip + 1 + 1 /\ ip' \in Nat
         /\ UNCHANGED <<i_lab_cur, client, code_start, phase>>
         /\ wants' = Extend(Extend(wants, ip, targets[0]), ip + 1, targets[1])
<1>1. /\ ip \in Nat /\ ip \notin DOMAIN wants /\ ip + 1 \notin DOMAIN wants
      /\ ip .. ip + 2 - 1 = {ip, ip + 1} /\ ip - ip = 0 /\ ip + 1 - ip = 1 /\ ip # ip + 1
      /\ ip + 2 = ip + 1 + 1
  BY DEF Shape, Good, Recorded
<1>2. wants' = [a \in DOMAIN wants \cup {ip, ip + 1} |->
                  IF a \in DOMAIN wants THEN wants[a] ELSE targets[a - ip]]
  BY <1>1 DEF Emits
<1> DEFINE w1 == Extend(wants, ip, targets[0])
           w2 == Extend(w1, ip + 1, targets[1])
<1>3. DOMAIN w1 = DOMAIN wants \cup {ip} /\ \A a \in DOMAIN w1 : w1[a] = IF a = ip THEN targets[0] ELSE wants[a]
  BY DEF Extend
<1>4. w2 = [a \in DOMAIN w1 \cup {ip + 1} |-> IF a = ip + 1 THEN targets[1] ELSE w1[a]]
  BY DEF Extend
<1> HIDE DEF w1, w2
<1>5. wants' = w2
  <2>1. DOMAIN wants' = DOMAIN w2 /\ DOMAIN w2 = DOMAIN wants \cup {ip, ip + 1}
    BY <1>2, <1>3, <1>4
  <2>2. ASSUME NEW a \in DOMAIN wants \cup {ip, ip + 1}
        PROVE  wants'[a] = w2[a]
    BY <1>1, <1>2, <1>3, <1>4, <2>1
  <2>3. wants' = [a \in DOMAIN wants' |-> wants'[a]] /\ w2 = [a \in DOMAIN w2 |-> w2[a]]
    BY <1>2, <1>4
  <2> QED
    BY <2>1, <2>2, <2>3
<1> QED
  BY <1>1, <1>5 DEF Emits, w1, w2

LEMMA BranchOnceIInv ==
  ASSUME IInv, mode' = mode, NEW l \in client, NEW condition, BranchOnce(l, condition)
  PROVE  IInv'
<1> DEFINE targets == [i \in {0} |-> ClientLabel(l)]
<1>1. Shape /\ phase = "open" /\ Good(table, ip, wants, placed) /\ table \in Tables /\ ip \in Nat
  BY DEF IInv, Shape, Tables, BranchOnce
<1>2. CASE ~CanRefer(table, l)
  BY <1>2, FatalIInv DEF BranchOnce
<1>3. CASE CanRefer(table, l)
  <2>1. /\ l \in Numbers /\ Emits(add_reference(table, l, ip), targets, 1) /\ placed' = placed
    BY <1>3 DEF BranchOnce, CanRefer
  <2>2. targets[0] = Target(l, ip)
    BY <1>1, EpilogueNumber DEF Target
  <2> HIDE DEF targets
  <2>3. /\ table' = add_reference(table, l, ip) /\ ip' = ip + 1 /\ ip' \in Nat
        /\ UNCHANGED <<i_lab_cur, client, code_start, phase>>
        /\ wants' = Extend(wants, ip, Target(l, ip))
    BY <1>1, <2>1, <2>2, EmitsOne
  <2>4. table' \in Tables /\ Good(table', ip', wants', placed')
    BY <1>1, <2>1, <2>3, RecordOne
  <2> QED
    BY <1>1, <2>3, <2>4, GoodNext
<1> QED
  BY <1>2, <1>3

LEMMA ReturnIInv ==
  ASSUME IInv, mode' = mode, Return
  PROVE  IInv'
<1> DEFINE targets == [i \in {0} |-> Epilogue]
<1>1. Shape /\ phase = "open" /\ Good(table, ip, wants, placed) /\ table \in Tables /\ ip \in Nat
  BY DEF IInv, Shape, Tables, Return
<1>2. CASE ~CanRefer(table, epilogue_label)
  BY <1>2, FatalIInv DEF Return
<1>3. CASE CanRefer(table, epilogue_label)
  <2>1. /\ epilogue_label \in Numbers
        /\ Emits(add_reference(table, epilogue_label, ip), targets, 1) /\ placed' = placed
    BY <1>3 DEF Return, CanRefer
  <2>2. targets[0] = Target(epilogue_label, ip)
    BY DEF Target
  <2> HIDE DEF targets
  <2>3. /\ table' = add_reference(table, epilogue_label, ip) /\ ip' = ip + 1 /\ ip' \in Nat
        /\ UNCHANGED <<i_lab_cur, client, code_start, phase>>
        /\ wants' = Extend(wants, ip, Target(epilogue_label, ip))
    BY <1>1, <2>1, <2>2, EmitsOne
  <2>4. table' \in Tables /\ Good(table', ip', wants', placed')
    BY <1>1, <2>1, <2>3, RecordOne
  <2> QED
    BY <1>1, <2>3, <2>4, GoodNext
<1> QED
  BY <1>2, <1>3

LEMMA BranchUnequalIInv ==
  ASSUME IInv, mode' = mode, NEW l \in client, BranchUnequal(l)
  PROVE  IInv'
<1> DEFINE targets == [i \in {0, 1} |-> ClientLabel(l)]
           t1 == add_reference(table, l, ip)
           w1 == Extend(wants, ip, ClientLabel(l))
<1>1. /\ Shape /\ phase = "open" /\ Good(table, ip, wants, placed) /\ table \in Tables
      /\ ip \in Nat /\ ip + 1 \in Nat
  <2>1. phase = "open"
    BY DEF BranchUnequal
  <2> QED
    BY <2>1 DEF IInv, Shape, Tables
<1>2. CASE ~(CanRefer(table, l) /\ CanRefer(t1, l))
  <2>1. v_fatal("label out of range, or too many references")
    BY <1>2 DEF BranchUnequal
  <2> QED
    BY <2>1, FatalIInv
<1>3. CASE CanRefer(table, l) /\ CanRefer(t1, l)
  <2>1. /\ l \in Numbers /\ placed' = placed
        /\ Emits(add_reference(t1, l, ip + 1), targets, 2)
    BY <1>3 DEF BranchUnequal, CanRefer
  <2>2. /\ targets[0] = ClientLabel(l) /\ targets[1] = ClientLabel(l)
        /\ \A a : Target(l, a) = ClientLabel(l)
    BY <1>1, EpilogueNumber DEF Target
  <2> HIDE DEF targets
  <2>3. t1 \in Tables /\ Good(t1, ip + 1, w1, placed)
    BY <1>1, <2>1, <2>2, RecordOne
  <2> HIDE DEF t1, w1
  <2>4. /\ table' = add_reference(t1, l, ip + 1) /\ ip' = ip + 1 + 1 /\ ip' \in Nat
        /\ UNCHANGED <<i_lab_cur, client, code_start, phase>>
        /\ wants' = Extend(w1, ip + 1, Target(l, ip + 1))
    BY <1>1, <2>1, <2>2, EmitsTwo DEF w1
  <2>5. table' \in Tables /\ Good(table', ip', wants', placed')
    BY <1>1, <2>1, <2>3, <2>4, RecordOne
  <2> QED
    BY <1>1, <2>4, <2>5, GoodNext
<1> QED
  BY <1>2, <1>3

\* The join point of an ordered floating-point branch: only a client that makes
\* its labels with v_genlabel may use one, see OrderedByVcode.
LEMMA BranchOrderedIInv ==
  ASSUME IInv, mode' = mode, NEW l \in client, NEW condition, mode = "vcode",
         BranchOrdered(l, condition)
  PROVE  IInv'
<1> DEFINE new == table.count
           t1 == v_genlabel(table)
           t2 == add_reference(t1, new, ip)
           t3 == add_reference(t2, l, ip + 1)
           t4 == v_label(t3, new, ip + 2)
           targets == [i \in {0, 1} |-> IF i = 0 THEN Local(ip) ELSE ClientLabel(l)]
<1>1. /\ Shape /\ phase = "open" /\ Good(table, ip, wants, placed) /\ table \in Tables
      /\ ip \in Nat /\ ip + 1 \in Nat /\ ip + 2 \in Nat /\ Unused(table) /\ new \in Nat
  <2>1. phase = "open"
    BY DEF BranchOrdered
  <2> QED
    BY <2>1 DEF IInv, Good, Shape, Tables
<1>2. CASE ~(CanGenerate(table) /\ CanRefer(t1, new) /\ CanRefer(t2, l))
  <2>1. v_fatal("too many labels or references")
    BY <1>2 DEF BranchOrdered
  <2> QED
    BY <2>1, FatalIInv
<1>3. CASE CanGenerate(table) /\ CanRefer(t1, new) /\ CanRefer(t2, l)
  <2>1. /\ l \in Numbers /\ new \in Numbers
        /\ placed' = Extend(placed, Local(ip), ip + 2)
        /\ Emits(t4, targets, 2)
    BY <1>3 DEF BranchOrdered, CanRefer
  <2>2. /\ targets[0] = Local(ip) /\ targets[1] = ClientLabel(l)
        /\ \A a : Target(l, a) = ClientLabel(l)
    BY <1>1, EpilogueNumber DEF Target
  <2> HIDE DEF targets
  <2>3. new \notin client /\ l < new /\ l # new
    BY <1>1 DEF Unused, Shape, Tables
  <2>4. t1 \in Tables /\ t1.address = table.address /\ t1.refs = table.refs /\ t1.count = new + 1
    BY <1>1, GenLabelIs
  <2>5. /\ t2 \in Tables /\ t2.address = table.address
        /\ t2.refs = [table.refs EXCEPT ![new] = @ \cup {ip}] /\ t2.count = new + 1
    <3>1. ensure_label(t1, new).count = new + 1
      BY <2>1, <2>4, EnsureIs DEF Tables
    <3> QED
      BY <1>1, <2>1, <2>4, <3>1, AddReferenceIs
  <2>6. table.refs[new] = {}
    BY <1>1, <2>1 DEF Unused, Tables
  <2> DEFINE mid == v_label(t2, new, ip + 2)
             w1 == Extend(wants, ip, Local(ip))
             p1 == Extend(placed, Local(ip), ip + 2)
  <2> HIDE DEF t1, t2
  <2>7. /\ mid \in Tables /\ mid.address = [table.address EXCEPT ![new] = ip + 2]
        /\ mid.refs = [table.refs EXCEPT ![new] = {ip}] /\ mid.count = new + 1
    <3>1. /\ mid \in Tables /\ mid.refs = t2.refs
          /\ mid.address = [t2.address EXCEPT ![new] = ip + 2]
          /\ mid.count = IF new >= t2.count THEN new + 1 ELSE t2.count
      BY <1>1, <2>1, <2>5, VLabelIs
    <3> QED
      BY <1>1, <2>1, <2>5, <2>6, <3>1 DEF Tables
  <2>8. Good(mid, ip + 1, w1, p1)
    BY <1>1, <2>1, <2>3, <2>7, RecordFresh DEF Tables
  <2> HIDE DEF new, mid, t3, w1, p1
  <2>9. t4 = add_reference(mid, l, ip + 1)
    <3> DEFINE t5 == add_reference(mid, l, ip + 1)
    <3>1. /\ t3 \in Tables /\ t3.address = table.address /\ t3.count = new + 1
          /\ t3.refs = [t2.refs EXCEPT ![l] = @ \cup {ip + 1}]
      <4>1. ~(l >= t2.count)
        BY <1>1, <2>3, <2>5 DEF Shape
      <4>2. /\ t3 \in Tables /\ t3.address = t2.address
            /\ t3.refs = [t2.refs EXCEPT ![l] = @ \cup {ip + 1}]
            /\ t3.count = IF l >= t2.count THEN l + 1 ELSE t2.count
        <5>1. t2 \in Tables /\ l \in Numbers /\ ip + 1 \in Nat
          BY <1>1, <2>1, <2>5
        <5> QED
          BY <5>1, AddReferenceIs DEF t3
      <4> QED
        BY <2>5, <4>1, <4>2
    <3>2. /\ t4 \in Tables /\ t4.address = mid.address /\ t4.count = new + 1
          /\ t4.refs = [t2.refs EXCEPT ![l] = @ \cup {ip + 1}]
      <4>1. new \in Nat /\ ~(new >= t3.count)
        BY <1>1, <3>1
      <4> QED
        BY <1>1, <2>1, <2>7, <3>1, <4>1, VLabelIs
    <3>3. /\ t5 \in Tables /\ t5.address = mid.address /\ t5.count = new + 1
          /\ t5.refs = [t2.refs EXCEPT ![l] = @ \cup {ip + 1}]
      <4>1. ~(l >= mid.count)
        BY <1>1, <2>3, <2>7 DEF Shape
      <4>2. mid.refs = t2.refs
        BY <2>5, <2>6, <2>7
      <4>3. /\ t5 \in Tables /\ t5.address = mid.address
            /\ t5.refs = [mid.refs EXCEPT ![l] = @ \cup {ip + 1}]
            /\ t5.count = IF l >= mid.count THEN l + 1 ELSE mid.count
        <5>1. mid \in Tables /\ l \in Numbers /\ ip + 1 \in Nat
          BY <1>1, <2>1, <2>7
        <5> QED
          BY <5>1, AddReferenceIs
      <4> QED
        BY <2>7, <4>1, <4>2, <4>3
    <3> QED
      BY <3>2, <3>3 DEF Tables
  <2> HIDE DEF t4
  <2>10. /\ table' = add_reference(mid, l, ip + 1) /\ ip' = ip + 1 + 1 /\ ip' \in Nat
         /\ UNCHANGED <<i_lab_cur, client, code_start, phase>>
         /\ wants' = Extend(w1, ip + 1, Target(l, ip + 1))
    BY <1>1, <2>1, <2>2, <2>9, EmitsTwo DEF w1
  <2>11. table' \in Tables /\ Good(table', ip', wants', placed')
    BY <1>1, <2>1, <2>7, <2>8, <2>10, RecordOne DEF p1
  <2> QED
    BY <1>1, <2>10, <2>11, GoodNext
<1> QED
  BY <1>2, <1>3

\* v_va_arg's two numbers, each used by one displacement and placed with it.
LEMMA VaArgIInv ==
  ASSUME IInv, mode' = mode, VaArg
  PROVE  IInv'
<1> DEFINE overflow == table.count
           done == table.count + 1
           t2 == v_genlabel(v_genlabel(table))
           t3 == add_reference(t2, overflow, ip)
           t4 == add_reference(t3, done, ip + 1)
           t5 == v_label(t4, overflow, ip + 2)
           t6 == v_label(t5, done, ip + 2)
           targets == [i \in {0, 1} |-> Local(ip + i)]
<1>1. /\ Shape /\ phase = "open" /\ mode = "vcode" /\ Good(table, ip, wants, placed)
      /\ table \in Tables /\ Unused(table)
      /\ ip \in Nat /\ ip + 1 \in Nat /\ ip + 2 \in Nat /\ overflow \in Nat /\ done \in Nat
  <2>1. phase = "open" /\ mode = "vcode"
    BY DEF VaArg
  <2> QED
    BY <2>1 DEF IInv, Good, Shape, Tables
<1>2. CASE ~(CanGenerate(table) /\ CanGenerate(v_genlabel(table)))
  <2>1. v_fatal("too many labels")
    BY <1>2 DEF VaArg
  <2> QED
    BY <2>1, FatalIInv
<1>3. CASE CanGenerate(table) /\ CanGenerate(v_genlabel(table))
  <2>1. /\ placed' = Extend(Extend(placed, Local(ip), ip + 2), Local(ip + 1), ip + 2)
        /\ Emits(t6, targets, 2)
    BY <1>3 DEF VaArg
  <2>2. targets[0] = Local(ip) /\ targets[1] = Local(ip + 1)
    BY <1>1
  <2>3. /\ t2 \in Tables /\ t2.address = table.address /\ t2.refs = table.refs /\ t2.count = done + 1
    <3>1. /\ v_genlabel(table) \in Tables /\ v_genlabel(table).address = table.address
          /\ v_genlabel(table).refs = table.refs /\ v_genlabel(table).count = done
      BY <1>1, GenLabelIs
    <3> QED
      BY <3>1, GenLabelIs
  <2>4. overflow \in Numbers /\ done \in Numbers
    <3>1. v_genlabel(table).count = done
      BY <1>1, GenLabelIs
    <3>2. done < MaxLabels /\ 1 < overflow
      BY <1>1, <1>3, <3>1 DEF CanGenerate, Unused
    <3> QED
      BY <1>1, <3>2, LabelsAssumption DEF Numbers
  <2>5. table.refs[overflow] = {} /\ table.refs[done] = {} /\ overflow # done
    BY <1>1, <2>4 DEF Unused
  <2>6. overflow \notin client /\ done \notin client
    BY <1>1 DEF Unused, Shape
  <2>7. ~(overflow >= done + 1) /\ ~(done >= done + 1)
    BY <1>1
  <2> DEFINE mid == [address |-> [table.address EXCEPT ![overflow] = ip + 2],
                     refs |-> [table.refs EXCEPT ![overflow] = {ip}],
                     count |-> done]
             w1 == Extend(wants, ip, Local(ip))
             p1 == Extend(placed, Local(ip), ip + 2)
  <2>8. mid \in Tables /\ mid.count = done
    BY <1>1, <2>4 DEF Tables
  <2>9. Good(mid, ip + 1, w1, p1)
    BY <1>1, <2>4, <2>6, <2>8, RecordFresh
  <2> HIDE DEF t2, targets, overflow, done
  <2>10. /\ t3 \in Tables /\ t3.address = table.address
         /\ t3.refs = [table.refs EXCEPT ![overflow] = {ip}] /\ t3.count = done + 1
    <3>1. /\ t3 \in Tables /\ t3.address = t2.address
          /\ t3.refs = [t2.refs EXCEPT ![overflow] = @ \cup {ip}]
          /\ t3.count = IF overflow >= t2.count THEN overflow + 1 ELSE t2.count
      BY <1>1, <2>3, <2>4, AddReferenceIs
    <3> HIDE DEF t3
    <3> QED
      BY <2>3, <2>5, <2>7, <3>1
  <2> HIDE DEF t3
  <2>11. /\ t4 \in Tables /\ t4.address = table.address
         /\ t4.refs = [mid.refs EXCEPT ![done] = {ip + 1}] /\ t4.count = done + 1
    <3>1. /\ t4 \in Tables /\ t4.address = t3.address
          /\ t4.refs = [t3.refs EXCEPT ![done] = @ \cup {ip + 1}]
          /\ t4.count = IF done >= t3.count THEN done + 1 ELSE t3.count
      <4>1. t3 \in Tables /\ done \in Numbers /\ ip + 1 \in Nat
        BY <1>1, <2>4, <2>10
      <4> HIDE DEF mid
      <4> QED
        BY <4>1, AddReferenceIs
    <3>2. t3.refs = mid.refs /\ t3.refs[done] = {}
      BY <1>1, <2>4, <2>5, <2>10 DEF Tables
    <3> HIDE DEF t4, mid
    <3> QED
      BY <2>7, <2>10, <3>1, <3>2
  <2> HIDE DEF t4
  <2>12. /\ t5 \in Tables /\ t5.address = mid.address
         /\ t5.refs = [mid.refs EXCEPT ![done] = {ip + 1}] /\ t5.count = done + 1
    <3>1. /\ t5 \in Tables /\ t5.refs = t4.refs
          /\ t5.address = [t4.address EXCEPT ![overflow] = ip + 2]
          /\ t5.count = IF overflow >= t4.count THEN overflow + 1 ELSE t4.count
      BY <1>1, <2>4, <2>11, VLabelIs
    <3> HIDE DEF t5
    <3> QED
      BY <2>7, <2>11, <3>1
  <2> HIDE DEF t5
  <2>13. /\ t6 \in Tables /\ t6.address = [mid.address EXCEPT ![done] = ip + 2]
         /\ t6.refs = [mid.refs EXCEPT ![done] = {ip + 1}] /\ t6.count = done + 1
    <3>1. /\ t6 \in Tables /\ t6.refs = t5.refs
          /\ t6.address = [t5.address EXCEPT ![done] = ip + 2]
          /\ t6.count = IF done >= t5.count THEN done + 1 ELSE t5.count
      <4>1. t5 \in Tables /\ done \in Numbers /\ ip + 2 \in Nat
        BY <1>1, <2>4, <2>12
      <4> HIDE DEF mid
      <4> QED
        BY <4>1, VLabelIs
    <3> HIDE DEF t6, mid
    <3> QED
      BY <2>7, <2>12, <3>1
  <2> HIDE DEF t6, mid, p1, w1
  <2>14. Good(t6, ip + 1 + 1, Extend(w1, ip + 1, Local(ip + 1)), Extend(p1, Local(ip + 1), ip + 2))
    <3>1. done >= mid.count /\ t6.count = done + 1
      BY <1>1, <2>8, <2>13
    <3> QED
      BY <1>1, <2>4, <2>6, <2>8, <2>9, <2>13, <3>1, RecordFresh
  <2>15. /\ table' = t6 /\ ip' = ip + 1 + 1 /\ ip' \in Nat
         /\ UNCHANGED <<i_lab_cur, client, code_start, phase>>
         /\ wants' = Extend(w1, ip + 1, Local(ip + 1))
    BY <1>1, <2>1, <2>2, EmitsTwo DEF w1
  <2>16. placed' = Extend(p1, Local(ip + 1), ip + 2)
    BY <2>1 DEF p1
  <2> QED
    BY <1>1, <2>13, <2>14, <2>15, <2>16, GoodNext
<1> QED
  BY <1>2, <1>3

LEMMA EndIInv ==
  ASSUME IInv, mode' = mode, v_end
  PROVE  IInv'
<1> DEFINE t == v_label(table, epilogue_label, ip)
<1>1. /\ Shape /\ table \in Tables /\ ip \in Nat /\ epilogue_label \in Numbers
  BY EpilogueNumber DEF IInv, Shape, Tables
<1>2. t \in Tables
  BY <1>1, VLabelIs
<1>3. CASE Unresolved(t) # {}
  <2>1. v_fatal("unresolved label")
    BY <1>3 DEF v_end
  <2> QED
    BY <2>1, FatalIInv
<1>4. CASE Unresolved(t) = {}
  <2>1. /\ phase' = "idle" /\ table' = t /\ client' = {} /\ i_lab_cur' = min_lab
        /\ UNCHANGED <<code_start, ip, wants>>
    BY <1>4 DEF v_end
  <2> HIDE DEF t
  <2>2. Shape'
    BY <1>1, <1>2, <2>1 DEF Shape, Tables, min_lab
  <2> QED
    BY <2>1, <2>2 DEF IInv
<1> QED
  BY <1>3, <1>4

-----------------------------------------------------------------------------
(* The theorems.                                                           *)

\* Only a client that makes its labels with v_genlabel branches on an ordered
\* floating-point comparison.  An icode program that does may own the very number
\* v_genlabel returns for the join point (vcode.c:927), and then the properties
\* below do not hold.
OrderedByVcode ==
  \A m \in DOMAIN Conditions : Conditions[m] \cap {"LT", "LE", "EQ"} # {} => m = "vcode"

LEMMA StepIInv ==
  ASSUME OrderedByVcode, IInv, [Next]_vars
  PROVE  IInv'
<1>1. CASE UNCHANGED vars
  BY <1>1 DEF IInv, Shape, Good, Unused, Recorded, PlacedRight, Target, vars
<1>2. CASE Next
  <2>0. mode' = mode
    BY <1>2 DEF Next
  <2>1. CASE i_mklabel
    BY <2>0, <2>1, MakeLabelIInv
  <2>2. CASE v_lambda
    BY <2>0, <2>2, LambdaIInv
  <2>3. CASE NewLabel
    BY <2>0, <2>3, NewLabelIInv
  <2>4. ASSUME NEW l \in client, PlaceLabel(l) PROVE IInv'
    BY <2>0, <2>4, PlaceLabelIInv
  <2>5. ASSUME NEW l \in client, NEW c, BranchOnce(l, c) PROVE IInv'
    BY <2>0, <2>5, BranchOnceIInv
  <2>6. ASSUME NEW l \in client, BranchUnequal(l) PROVE IInv'
    BY <2>0, <2>6, BranchUnequalIInv
  <2>7. ASSUME NEW l \in client, NEW c, BranchOrdered(l, c) PROVE IInv'
    <3>1. mode = "vcode"
      BY <2>7 DEF IInv, Shape, BranchOrdered, OrderedByVcode
    <3> QED
      BY <2>0, <2>7, <3>1, BranchOrderedIInv
  <2>8. CASE Return
    BY <2>0, <2>8, ReturnIInv
  <2>9. CASE VaArg
    BY <2>0, <2>9, VaArgIInv
  <2>10. CASE v_end
    BY <2>0, <2>10, EndIInv
  <2> QED
    BY <1>2, <2>1, <2>2, <2>3, <2>4, <2>5, <2>6, <2>7, <2>8, <2>9, <2>10 DEF Next, Step
<1> QED
  BY <1>1, <1>2

\* While a function is open the table has its shape, every displacement emitted
\* is recorded once under a number that stands for its target, and addresses are
\* those their targets were placed at.
THEOREM LabelInvariant ==
  ASSUME OrderedByVcode
  PROVE  Spec => []IInv
<1>1. Init => IInv
  BY InitIInv
<1>2. IInv /\ [Next]_vars => IInv'
  BY StepIInv
<1> QED
  BY <1>1, <1>2, PTL DEF Spec

\* No label number stands for two targets, whatever numbers icode's counter, the
\* client's v_genlabel and vcode's own join points take (vcode.c:165, 201).
THEOREM NumbersNotShared ==
  ASSUME OrderedByVcode
  PROVE  Spec => []OneTargetPerNumber
<1>1. IInv => OneTargetPerNumber
  <2> SUFFICES ASSUME IInv, phase = "open", NEW l \in Numbers,
                      NEW a \in table.refs[l], NEW b \in table.refs[l]
               PROVE  wants[a] = wants[b]
    BY DEF OneTargetPerNumber
  <2>1. wants[a] = Target(l, a) /\ wants[b] = Target(l, b)
    BY DEF IInv, Good, Recorded
  <2>2. l \notin client \cup {epilogue_label} => a = b
    BY DEF IInv, Good, Recorded
  <2> QED
    BY <2>1, <2>2 DEF Target
<1> QED
  BY <1>1, LabelInvariant, PTL

\* What v_end patches: every displacement of the function and no other, each with
\* the address of the target it was emitted for.
LEMMA EndPatches ==
  ASSUME IInv, v_end, phase' = "idle"
  PROVE  /\ DOMAIN patched' = code_start .. ip - 1
         /\ \A a \in code_start .. ip - 1 :
              wants[a] \in DOMAIN placed' /\ patched'[a] = placed'[wants[a]]
<1> DEFINE t == v_label(table, epilogue_label, ip)
<1>1. /\ Shape /\ table \in Tables /\ ip \in Nat /\ epilogue_label \in Numbers
      /\ epilogue_label \notin client /\ phase = "open"
      /\ Unused(table) /\ Recorded(table, ip, wants) /\ PlacedRight(table, placed)
  <2>1. phase = "open"
    BY DEF v_end
  <2> QED
    BY <2>1, EpilogueNumber DEF IInv, Good, Shape, Tables
<1>2. /\ t \in Tables /\ t.refs = table.refs /\ t.count >= table.count
      /\ t.address = [table.address EXCEPT ![epilogue_label] = ip]
  BY <1>1, VLabelIs
<1>3. /\ Unresolved(t) = {} /\ patched' = Resolved(t)
      /\ placed' = Extend(placed, Epilogue, ip)
  BY DEF v_end, v_fatal
<1> HIDE DEF t
<1>4. \A l \in Numbers : t.refs[l] # {} => l < t.count
  <2>1. \A l \in Numbers : l >= table.count => table.refs[l] = {}
    BY <1>1 DEF Unused
  <2> QED
    BY <1>1, <1>2, <2>1, LabelsAssumption DEF Numbers, Tables
<1>5. UNION {t.refs[l] : l \in {k \in Numbers : k < t.count}} = code_start .. ip - 1
  <2>1. \A a \in code_start .. ip - 1 : \E l \in Numbers : a \in t.refs[l]
    BY <1>1, <1>2 DEF Recorded
  <2>2. \A l \in Numbers : t.refs[l] \subseteq code_start .. ip - 1
    BY <1>1, <1>2 DEF Recorded
  <2> QED
    BY <1>4, <2>1, <2>2
<1>6. DOMAIN patched' = code_start .. ip - 1
  BY <1>3, <1>5 DEF Resolved
<1>7. /\ Epilogue \in DOMAIN placed' /\ placed'[Epilogue] = ip
      /\ \A x \in DOMAIN placed : x \in DOMAIN placed' /\ (x # Epilogue => placed'[x] = placed[x])
  BY <1>3 DEF Extend
<1>8. ASSUME NEW a \in code_start .. ip - 1
      PROVE  wants[a] \in DOMAIN placed' /\ patched'[a] = placed'[wants[a]]
  <2> DEFINE l == CHOOSE k \in Numbers : k < t.count /\ a \in t.refs[k]
  <2>1. \E k \in Numbers : k < t.count /\ a \in t.refs[k]
    BY <1>1, <1>2, <1>4 DEF Recorded
  <2>2. l \in Numbers /\ l < t.count /\ a \in t.refs[l]
    BY <2>1
  <2>3. patched'[a] = t.address[l]
    BY <1>3, <1>5 DEF Resolved
  <2> HIDE DEF l
  <2>4. wants[a] = Target(l, a)
    BY <1>1, <1>2, <2>2 DEF Recorded
  <2>5. t.address[l] # NoAddress
    BY <1>3, <2>2 DEF Unresolved
  <2>6. CASE l = epilogue_label
    BY <1>1, <1>2, <1>7, <2>3, <2>4, <2>6 DEF Target, Tables
  <2>7. CASE l \in client
    <3>1. t.address[l] = table.address[l]
      BY <1>1, <1>2, <2>2, <2>7 DEF Tables
    <3>2. ClientLabel(l) \in DOMAIN placed /\ placed[ClientLabel(l)] = t.address[l]
      BY <1>1, <2>2, <2>5, <2>7, <3>1 DEF PlacedRight
    <3>3. wants[a] = ClientLabel(l)
      BY <1>1, <2>4, <2>7 DEF Target
    <3> QED
      BY <1>7, <2>3, <3>2, <3>3, TargetsDiffer
  <2>8. CASE l \notin client \cup {epilogue_label}
    <3>1. t.address[l] = table.address[l]
      BY <1>1, <1>2, <2>2, <2>8 DEF Tables
    <3>2. Local(a) \in DOMAIN placed /\ placed[Local(a)] = t.address[l]
      BY <1>1, <1>2, <2>2, <2>8, <3>1 DEF PlacedRight
    <3>3. wants[a] = Local(a)
      BY <2>4, <2>8 DEF Target
    <3> QED
      BY <1>7, <2>3, <3>2, <3>3, TargetsDiffer
  <2> QED
    BY <2>6, <2>7, <2>8
<1> QED
  BY <1>6, <1>8

\* Only v_end finishes a function; every other step leaves it open or ends the
\* program.
LEMMA OnlyEndFinishes ==
  ASSUME Next, phase = "open", phase' = "idle"
  PROVE  v_end
<1>1. ~i_mklabel /\ ~v_lambda
  BY DEF i_mklabel, v_lambda
<1>2. ~NewLabel
  BY DEF NewLabel, v_fatal
<1>3. ASSUME NEW l \in client, NEW c
      PROVE  ~PlaceLabel(l) /\ ~BranchOnce(l, c) /\ ~BranchUnequal(l) /\ ~BranchOrdered(l, c)
  BY DEF PlaceLabel, BranchOnce, BranchUnequal, BranchOrdered, Emits, v_fatal
<1>4. ~Return /\ ~VaArg
  BY DEF Return, VaArg, Emits, v_fatal
<1> QED
  BY <1>1, <1>2, <1>3, <1>4 DEF Next, Step

\* When v_end returns, the function has no displacement left at zero, none that
\* leads to another label than the one it was emitted for, and no byte outside the
\* function was written (vcode.c:228).
THEOREM BranchesLand ==
  ASSUME OrderedByVcode
  PROVE  Spec => EveryBranchLands
<1>1. IInv /\ [Next]_vars =>
        [phase = "open" /\ phase' = "idle" =>
           /\ DOMAIN patched' = code_start .. ip - 1
           /\ \A a \in code_start .. ip - 1 :
                /\ wants[a] \in DOMAIN placed'
                /\ patched'[a] = placed'[wants[a]]]_vars
  <2> SUFFICES ASSUME IInv, Next, phase = "open", phase' = "idle"
               PROVE  /\ DOMAIN patched' = code_start .. ip - 1
                      /\ \A a \in code_start .. ip - 1 :
                           /\ wants[a] \in DOMAIN placed'
                           /\ patched'[a] = placed'[wants[a]]
    OBVIOUS
  <2>1. v_end
    BY OnlyEndFinishes
  <2> QED
    BY <2>1, EndPatches
<1> QED
  BY <1>1, LabelInvariant, PTL DEF Spec, EveryBranchLands

-----------------------------------------------------------------------------
(* Frames (Frames).                                                        *)

\* A return address, %rbp, the five saved registers and the frame of a function
\* take a multiple of 16 bytes, so calls from its body are aligned; and the
\* frame holds every local handed out (procedure_prologue, procedure_epilogue).
THEOREM FrameHolds ==
  ASSUME NEW slots \in Nat
  PROVE  /\ (8 + 8 + SAVED_REG_BYTES + frame_bytes(slots)) % 16 = 0
         /\ Mkvirt(slots) >= -(SAVED_REG_BYTES + frame_bytes(slots))
<1> DEFINE q == (8 * slots + 23) \div 16
<1>1. q \in Nat /\ 16 * q <= 8 * slots + 23 /\ 8 * slots + 23 < 16 * q + 16
  BY SMT
<1>2. frame_bytes(slots) = 16 * q - 8
  BY DEF frame_bytes
<1>3. 8 * slots <= 16 * q - 8
  \* 8 * slots + 8 is at most 16 * q because both are multiples of 8
  BY <1>1, SMT
<1> QED
  <2>1. 8 + 8 + SAVED_REG_BYTES + frame_bytes(slots) = 16 * (q + 3)
    BY <1>1, <1>2, SMT DEF SAVED_REG_BYTES
  <2>2. (16 * (q + 3)) % 16 = 0
    BY <1>1, SMT
  <2> QED
    BY <2>1, <2>2, <1>1, <1>2, <1>3, SMT DEF Mkvirt, SAVED_REG_BYTES

\* Pushed registers, arguments and padding together take a multiple of 16 bytes,
\* and the padding is less than 16 (ccall_internal).
THEOREM CallAreaAligned ==
  ASSUME NEW saved \in Nat, NEW bytes \in Nat
  PROVE  /\ (8 * saved + bytes + padding(saved, bytes)) % 16 = 0
         /\ padding(saved, bytes) \in 0 .. 15
<1> DEFINE n == 8 * saved + bytes
           r == n % 16
<1>1. n \in Nat /\ r \in 0 .. 15 /\ n = 16 * (n \div 16) + r
  BY SMT
<1>2. padding(saved, bytes) = IF r = 0 THEN 0 ELSE 16 - r
  BY <1>1, SMT DEF padding
<1>3. CASE r = 0
  BY <1>1, <1>2, <1>3, SMT
<1>4. CASE r # 0
  <2>1. n + padding(saved, bytes) = 16 * (n \div 16 + 1)
    BY <1>1, <1>2, <1>4, SMT
  <2> QED BY <2>1, <1>1, <1>2, <1>4, SMT
<1> QED BY <1>3, <1>4

\* A block of v_localb is large enough, and not a slot larger than needed.
THEOREM SlotsSuffice ==
  ASSUME NEW size \in Nat
  PROVE  /\ Slots(size) \in Nat \ {0}
         /\ 8 * Slots(size) >= size
         /\ size > 0 => 8 * Slots(size) < size + 8
BY SMT DEF Slots

-----------------------------------------------------------------------------
(* Constant folding (Overflow).                                            *)

InRange(n, min, max) == min <= n /\ n <= max

\* add answers for the whole range of the type: a sum is folded exactly when
\* it fits (simp.c, add).
THEOREM AddExact ==
  ASSUME NEW min \in Int, NEW max \in Int, min < 0, 0 < max,
         NEW x \in Int, NEW y \in Int, InRange(x, min, max), InRange(y, min, max)
  PROVE  add(x, y, min, max, FALSE) <=> InRange(x + y, min, max)
BY DEF add, InRange

\* sub negates its operand, which leaves the range for the least value; of all
\* differences only 0 - min is folded although it does not fit (simp.c, sub).
THEOREM SubExact ==
  ASSUME NEW min \in Int, NEW max \in Int, min = (-max) - 1, 0 < max,
         NEW x \in Int, NEW y \in Int, InRange(x, min, max), InRange(y, min, max)
  PROVE  sub(x, y, min, max, FALSE) <=> (InRange(x - y, min, max) \/ (x = 0 /\ y = min))
<1>1. CASE x = 0
  BY <1>1 DEF sub, add, InRange
<1>2. CASE ~(y < 0) /\ ~(0 < y)
  BY <1>2 DEF sub, add, InRange
<1>3. CASE x # 0 /\ y < 0
  BY <1>3 DEF sub, add, InRange
<1>4. CASE x # 0 /\ 0 < y
  BY <1>4 DEF sub, add, InRange
<1> QED
  BY <1>1, <1>2, <1>3, <1>4

\* A quotient is folded unless the divisor is zero, or min is divided by 1 or
\* -1 and no constant is needed (simp.c, div).  Only min / -1 does not fit;
\* min / 1 does, but simplify has replaced it by min before it asks div.
THEOREM DivExact ==
  ASSUME NEW min \in Int, NEW max \in Int, min = (-max) - 1, 0 < max, NEW needconst \in BOOLEAN,
         NEW x \in Int, NEW y \in Int, InRange(x, min, max)
  PROVE  div(x, y, min, max, needconst)
           <=> (y # 0 /\ (needconst \/ ~(x = min /\ y \in {-1, 1})))
<1>1. CASE y = 0
  BY <1>1 DEF div, Magnitude
<1>2. CASE y \in {-1, 1}
  <2>1. Magnitude(y) = 1
    BY <1>2 DEF Magnitude
  <2>2. Magnitude(x) \in Int /\ (Magnitude(x) <= max <=> x # min)
    BY DEF Magnitude, InRange
  <2>3. max * 1 = max
    OBVIOUS
  <2> QED
    BY <1>2, <2>1, <2>2, <2>3 DEF div
<1>3. CASE y < -1 \/ 1 < y
  <2>1. Magnitude(y) \in Int /\ Magnitude(y) > 1
    BY <1>3 DEF Magnitude
  <2> QED
    BY <1>3, <2>1 DEF div
<1> QED
  BY <1>1, <1>2, <1>3

\* The sign of a product.
LEMMA SignOfProduct ==
  ASSUME NEW x \in Int, NEW y \in Int
  PROVE  /\ x * y \in Int
         /\ (x < 0 /\ y < 0) => x * y > 0
         /\ (x < 0 /\ y > 0) => x * y < 0
         /\ (x > 0 /\ y > 0) => x * y > 0
         /\ x \in {0, 1} => x * y \in {0, y}
         /\ y \in {0, 1} => x * y \in {0, x}
BY SMT

\* mul answers whether the product fits unless a positive number is multiplied
\* by a negative one: then it folds exactly the products that reach the least
\* value or pass it (simp.c, mul).
THEOREM MulExact ==
  ASSUME NEW min \in Int, NEW max \in Int, min < 0, 0 < max,
         NEW x \in Int, NEW y \in Int, InRange(x, min, max), InRange(y, min, max)
  PROVE  mul(x, y, min, max, FALSE) <=> IF x > 1 /\ y < 0 THEN x * y <= min ELSE InRange(x * y, min, max)
<1> DEFINE p == x * y
<1>1. /\ p \in Int
      /\ (x < 0 /\ y < 0) => p > 0
      /\ (x < 0 /\ y > 0) => p < 0
      /\ (x > 0 /\ y > 0) => p > 0
      /\ x \in {0, 1} => p \in {0, y}
      /\ y \in {0, 1} => p \in {0, x}
  <2>1. x \in Int /\ y \in Int /\ p = x * y
    OBVIOUS
  <2> HIDE DEF p
  <2> QED
    BY <2>1, SignOfProduct
<1> DEFINE folds == \/ x \in {0, 1} \/ y \in {0, 1}
                    \/ x < 0 /\ y < 0 /\ p <= max
                    \/ x < 0 /\ y > 0 /\ p >= min
                    \/ x > 0 /\ y < 0 /\ p <= min
                    \/ x > 0 /\ y > 0 /\ p <= max
           fits == InRange(p, min, max)
<1>2. mul(x, y, min, max, FALSE) = folds
  BY DEF mul
<1> HIDE DEF p
<1>3. CASE x \in {0, 1} \/ y \in {0, 1}
  <2>1. folds /\ fits /\ ~(x > 1 /\ y < 0)
    BY <1>1, <1>3 DEF InRange
  <2> QED
    BY <1>2, <2>1 DEF p
<1>4. CASE x > 1 /\ y < 0
  <2>1. folds <=> p <= min
    BY <1>1, <1>4
  <2> QED
    BY <1>2, <1>4, <2>1 DEF p
<1>5. CASE x \notin {0, 1} /\ y \notin {0, 1} /\ ~(x > 1 /\ y < 0)
  <2>1. folds <=> fits
    BY <1>1, <1>5 DEF InRange
  <2> QED
    BY <1>2, <1>5, <2>1 DEF p
<1> QED
  BY <1>3, <1>4, <1>5
=============================================================================
