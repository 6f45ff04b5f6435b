------------------------------ MODULE JGcProofs ------------------------------
(* Proofs about the collector, for every heap size, set of classes, heap   *)
(* and stack contents and recursion bound.                                 *)
EXTENDS JGc, TLAPS, SequenceTheorems, FiniteSetTheorems

---------------------------------------------------------------------------
(* The activation records: popping one, advancing and pushing. *)
LEMMA NextIndexType ==
  ASSUME NEW r \in Record
  PROVE  /\ [r EXCEPT !.i = @ + 1] \in Record
         /\ [r EXCEPT !.i = @ + 1].i = r.i + 1
         /\ [r EXCEPT !.i = @ + 1].fn = r.fn
         /\ [r EXCEPT !.i = @ + 1].obj = r.obj
         /\ [r EXCEPT !.i = @ + 1].ret = r.ret
<1>1. r.i + 1 \in Nat \ {0}
  BY DEF Record
<1>2. [r EXCEPT !.i = r.i + 1] \in Record
  BY <1>1 DEF Record
<1> QED BY <1>1, <1>2 DEF Record

(* The top record of the walk, the records below it, and the same records  *)
(* with the top one moved to its next iteration.                           *)
LEMMA StackLemma ==
  ASSUME calls \in Seq(Record), calls # << >>
  PROVE  /\ Len(calls) \in Nat \ {0}
         /\ Top \in Record
         /\ Below \in Seq(Record) /\ Len(Below) = Len(calls) - 1
         /\ \A k \in 1 .. Len(calls) - 1 : Below[k] = calls[k]
         /\ Advanced \in Seq(Record) /\ Len(Advanced) = Len(calls)
         /\ \A k \in 1 .. Len(calls) - 1 : Advanced[k] = calls[k]
         /\ Advanced[Len(calls)] = [Top EXCEPT !.i = @ + 1]
<1> DEFINE n == Len(calls)
<1>1. n \in Nat \ {0} /\ \A k \in 1 .. n : calls[k] \in Record
  BY EmptySeq, LenProperties, ElementOfSeq
<1>2. Top \in Record
  BY <1>1 DEF Top
<1>3. /\ Below \in Seq(Record) /\ Len(Below) = n - 1
      /\ \A k \in 1 .. n - 1 : Below[k] = calls[k]
  <2>1. \A k \in 1 .. n - 1 : calls[k] \in Record
    BY <1>1
  <2>2. /\ SubSeq(calls, 1, n - 1) \in Seq(Record)
        /\ Len(SubSeq(calls, 1, n - 1)) = IF 1 <= n - 1 THEN n - 1 - 1 + 1 ELSE 0
        /\ \A k \in 1 .. n - 1 - 1 + 1 : SubSeq(calls, 1, n - 1)[k] = calls[1 + k - 1]
    BY <1>1, <2>1, SubSeqProperties
  <2>3. \A k \in 1 .. n - 1 : SubSeq(calls, 1, n - 1)[k] = calls[k]
    <3> TAKE k \in 1 .. n - 1
    <3>1. k \in 1 .. n - 1 - 1 + 1 /\ 1 + k - 1 = k
      BY <1>1
    <3> QED BY <2>2, <3>1
  <2>4. Len(SubSeq(calls, 1, n - 1)) = n - 1
    <3> DEFINE len == Len(SubSeq(calls, 1, n - 1))
    <3>1. len = IF 1 <= n - 1 THEN n - 1 - 1 + 1 ELSE 0
      BY <2>2
    <3> HIDE DEF len, n
    <3> QED BY <1>1, <3>1
  <2> QED BY <2>2, <2>3, <2>4 DEF Below
<1>4. [Top EXCEPT !.i = @ + 1] \in Record
  BY <1>2, NextIndexType
<1>5. /\ Advanced \in Seq(Record) /\ Len(Advanced) = n
      /\ \A k \in 1 .. n - 1 : Advanced[k] = calls[k]
      /\ Advanced[n] = [Top EXCEPT !.i = @ + 1]
  BY <1>1, <1>3, <1>4 DEF Advanced
<1> QED BY <1>1, <1>2, <1>3, <1>5

(* A new activation record is well formed.                                 *)
LEMMA WalkType ==
  ASSUME NEW s \in Slots, NEW R \in SUBSET Slots, NEW fn \in {"fields", "array"}
  PROVE  Walk(fn, s, R) \in Record
BY DEF Walk, Record

(* A call pushes its record on those of its caller, or overflows the stack. *)
LEMMA EnterLemma ==
  ASSUME NEW base \in Seq(Record), NEW r \in Record, Enter(base, r)
  PROVE  /\ calls' \in Seq(Record)
         /\ gcpc' \in {gcpc, "crashed"}
         /\ gcpc' # "crashed" =>
              /\ Len(calls') = Len(base) + 1
              /\ \A k \in 1 .. Len(base) : calls'[k] = base[k]
              /\ calls'[Len(base) + 1] = r
<1>1. CASE Len(base) < MaxCalls
  BY <1>1 DEF Enter
<1>2. CASE ~(Len(base) < MaxCalls)
  BY <1>2 DEF Enter
<1> QED BY <1>1, <1>2

(* The words of both stacks, in the order jGC looks at them.               *)
LEMMA RootsType ==
  ASSUME TypeOK
  PROVE  Roots \in Seq(Word) /\ Len(Roots) \in Nat /\ \A n \in 1 .. Len(Roots) : Roots[n] \in Word
BY ConcatProperties, LenProperties, ElementOfSeq DEF Roots, TypeOK

---------------------------------------------------------------------------
(* Type correctness of every step of the collector. *)
LEMMA GcStepType ==
  ASSUME TypeOK, [GcNext]_allVars
  PROVE  TypeOK'
<1> USE HeapAssumption
<1>0. calls = << >> => calls \in Seq(Record)
  BY EmptySeq
<1>1. CASE StartGC
  BY <1>1, EmptySeq DEF TypeOK, StartGC, heapVars, stackVars
<1>2. CASE MarkRoot
  <2>1. PICK s : /\ s = Roots[root]
                 /\ \/ /\ s \notin Slots \/ s \in marked
                       /\ UNCHANGED <<marked, calls, gcpc>>
                    \/ /\ s \in Slots \ marked /\ IsArray(s)
                       /\ Enter(calls, Walk("array", s, {}))
                       /\ UNCHANGED marked
                    \/ /\ s \in Slots \ marked /\ ~IsArray(s)
                       /\ marked' = marked \cup {s}
                       /\ Enter(calls, Walk("fields", s, {}))
    BY <1>2 DEF MarkRoot, IS_OBJECT, IS_MARK
  <2>2. marked' \in SUBSET Slots
    BY <2>1 DEF TypeOK
  <2>3. calls' \in Seq(Record) /\ gcpc' \in {gcpc, "crashed"}
    BY <2>1, WalkType, EnterLemma DEF TypeOK
  <2> QED BY <1>2, <2>2, <2>3 DEF TypeOK, MarkRoot, stackVars
<1>3. CASE WalkField
  <2>1. Advanced \in Seq(Record)
    BY <1>3, StackLemma DEF WalkField, TypeOK
  <2>2. marked' \in SUBSET Slots /\ calls' \in Seq(Record) /\ gcpc' \in {gcpc, "crashed"}
    <3>1. CASE calls' = Advanced /\ UNCHANGED <<marked, gcpc>>
      BY <2>1, <3>1 DEF TypeOK
    <3>2. CASE \E s \in Slots : marked' = marked \cup {s} /\ Enter(Advanced, Walk("fields", s, {}))
      BY <2>1, <3>2, WalkType, EnterLemma DEF TypeOK
    <3>3. CASE \E s \in Slots : UNCHANGED marked /\ Enter(Advanced, Walk("array", s, {s}))
      BY <2>1, <3>3, WalkType, EnterLemma DEF TypeOK
    <3> QED BY <1>3, <3>1, <3>2, <3>3 DEF WalkField, IS_OBJECT
  <2> QED BY <1>3, <2>2 DEF TypeOK, WalkField, stackVars
<1>4. CASE WalkElement
  <2>1. Advanced \in Seq(Record) /\ Top \in Record
    BY <1>4, StackLemma DEF WalkElement, TypeOK
  <2> DEFINE e == ptr[Top.obj].words[Top.i]
  <2>2. Top.obj \in Slots /\ Top.i \in Nat \ {0} /\ Top.fn = "array" /\ Top.i <= Bound(Top)
    BY <1>4, <2>1 DEF WalkElement, Record
  <2>3. ptr[Top.obj] \in Block
    BY <2>2 DEF TypeOK
  <2>4. Len(ptr[Top.obj].words) \in Nat
    BY <2>3, LenProperties DEF Block
  <2>5. ptr[Top.obj].type = 1 /\ Top.i \in 1 .. Len(ptr[Top.obj].words)
    BY <2>2, <2>4 DEF Bound
  <2>6. e \in Slots
    BY <2>2, <2>5, ElementOfSeq DEF TypeOK
  <2>7. calls' \in Seq(Record) /\ gcpc' \in {gcpc, "crashed"}
    <3>1. CASE calls' = Advanced /\ UNCHANGED gcpc
      BY <2>1, <3>1
    <3>2. CASE Enter(Advanced, Walk("fields", e, {Top.obj, e}))
      <4>1. {Top.obj, e} \in SUBSET Slots
        BY <2>2, <2>6
      <4> HIDE DEF e
      <4> QED BY <2>1, <2>6, <3>2, <4>1, WalkType, EnterLemma
    <3> QED BY <1>4, <3>1, <3>2 DEF WalkElement
  <2> QED BY <1>4, <2>7 DEF TypeOK, WalkElement, heapVars, stackVars
<1>5. CASE Return
  <2>1. Below \in Seq(Record) /\ Top \in Record
    BY <1>5, StackLemma DEF Return, TypeOK
  <2> QED BY <1>5, <2>1 DEF TypeOK, Return, Record, stackVars
<1>6. CASE FinishMark
  BY <1>6 DEF TypeOK, FinishMark, heapVars, stackVars
<1>7. CASE Sweep
  <2>1. hand \in Slots /\ hand' = hand + 1
    BY <1>7 DEF Sweep
  <2>2. hand' \in 0 .. HeapSize /\ hand \in -1 .. HeapSize - 1
    BY <2>1 DEF Slots
  <2>3. used' \in SUBSET Slots /\ marked' \in SUBSET Slots /\ vmhTop' \in -1 .. HeapSize - 1
    BY <1>7, <2>2 DEF Sweep, TypeOK, TopAfterFree, Unmark
  <2> QED BY <1>7, <2>2, <2>3 DEF TypeOK, Sweep, stackVars
<1>8. CASE EndGC
  BY <1>8 DEF TypeOK, EndGC, heapVars, stackVars
<1>9. CASE UNCHANGED allVars
  BY <1>9 DEF TypeOK, allVars
<1> QED BY <1>1, <1>2, <1>3, <1>4, <1>5, <1>6, <1>7, <1>8, <1>9 DEF GcNext, Collect

---------------------------------------------------------------------------
(* With the static fields last, the loop bound numVars covers the instance *)
(* fields of a class, and nothing else.                                    *)
LEMMA LayoutLemma ==
  ASSUME StaticsLast, NEW c \in Classes
  PROVE  NumVars(c) \in Nat /\ Instance(c) = 1 .. NumVars(c)
<1>1. Fields[c] \in Seq(FieldDescr) /\ Len(Fields[c]) \in Nat
  BY ClassAssumption, LenProperties
<1>2. IsFiniteSet(FieldIdx(c)) /\ Cardinality(FieldIdx(c)) = Len(Fields[c])
  <2>1. Cardinality(1 .. Len(Fields[c])) = IF 1 > Len(Fields[c]) THEN 0 ELSE Len(Fields[c]) - 1 + 1
    BY <1>1, FS_Interval
  <2> QED BY <1>1, <2>1, FS_Interval DEF FieldIdx
<1>3. /\ IsFiniteSet(Instance(c)) /\ NumVars(c) \in Nat
      /\ NumVars(c) <= Len(Fields[c])
  BY <1>2, FS_Subset, FS_CardinalityType DEF Instance, NumVars
<1>4. (1 .. NumVars(c)) \subseteq Instance(c)
  BY <1>1, <1>3 DEF StaticsLast, Instance, FieldIdx
<1>5. Cardinality(1 .. NumVars(c)) = Cardinality(Instance(c))
  <2> DEFINE n == NumVars(c)
  <2>0. n \in Int
    BY <1>3
  <2>1. Cardinality(1 .. n) = IF 1 > n THEN 0 ELSE n - 1 + 1
    <3> HIDE DEF n
    <3> QED BY <2>0, FS_Interval
  <2>2. Cardinality(1 .. NumVars(c)) = NumVars(c)
    BY <1>3, <2>1
  <2> QED BY <2>2 DEF NumVars
<1> QED BY <1>3, <1>4, <1>5, FS_Subset

(* The loop of a walk meets everything the object refers to. *)
LEMMA WalkCoversFollows ==
  ASSUME StaticsLast, TypeOK, NEW r \in Record, (r.fn = "array") <=> IsArray(r.obj)
  PROVE  \A e \in Follows(r.obj) : \E j \in 1 .. Bound(r) : e \in Edge(r.obj, j)
<1> DEFINE s == r.obj
           c == ptr[s].cls
<1>1. s \in Slots /\ ptr[s] \in Block /\ r.fn \in {"fields", "array"}
  BY DEF Record, TypeOK
<1> SUFFICES ASSUME NEW e \in Follows(s)
             PROVE  \E j \in 1 .. Bound(r) : e \in Edge(s, j)
  OBVIOUS
<1>2. CASE IsArray(s)
  <2>1. e \in Elements(s) /\ ~IsArray(e)
    BY <1>2 DEF Follows
  <2>2. PICK j \in 1 .. Len(ptr[s].words) : ptr[s].type = 1 /\ e = ptr[s].words[j]
    BY <2>1 DEF Elements
  <2>3. Bound(r) = Len(ptr[s].words)
    BY <1>2, <2>2 DEF Bound
  <2>4. e \in Edge(s, j)
    BY <1>2, <2>1, <2>2 DEF Edge
  <2> QED BY <2>2, <2>3, <2>4
<1>3. CASE ~IsArray(s)
  <2>1. e \in FieldRefs(s) /\ c \in Classes
    BY <1>1, <1>3 DEF Follows, IsArray, Block
  <2>2. PICK j \in Instance(c) : /\ Fields[c][j].kind = "inst" /\ Fields[c][j].ref
                                 /\ VarOffs(c, j) < Len(ptr[s].words)
                                 /\ e = ptr[s].words[VarOffs(c, j) + 1] /\ e \in Slots
    BY <2>1 DEF FieldRefs
  <2>3. Bound(r) = NumVars(c) /\ j \in 1 .. NumVars(c)
    BY <1>1, <1>3, <2>1, <2>2, LayoutLemma DEF Bound
  <2>4. e \in Edge(s, j)
    BY <1>3, <2>2 DEF Edge
  <2> QED BY <2>3, <2>4
<1> QED BY <1>2, <1>3

(* Nothing the collector does moves an object or changes a reference. *)
LEMMA SameHeap ==
  ASSUME UNCHANGED <<ptr, exStack, thStack>>
  PROVE  /\ \A s : IsArray(s)' <=> IsArray(s)
         /\ \A r : Bound(r)' = Bound(r)
         /\ \A s, j : Edge(s, j)' = Edge(s, j)
         /\ \A s : Follows(s)' = Follows(s)
         /\ Roots' = Roots
         /\ Held' = Held
         /\ \A s : Accessible(s)' <=> Accessible(s)
<1>1. \A s : IsArray(s)' <=> IsArray(s)
  BY DEF IsArray
<1>2. \A r : Bound(r)' = Bound(r)
  BY DEF Bound
<1>3. \A s, j : Edge(s, j)' = Edge(s, j)
  BY <1>1 DEF Edge
<1>4. \A s : Follows(s)' = Follows(s)
  <2>1. \A s : Elements(s)' = Elements(s)
    BY DEF Elements
  <2>2. \A s : FieldRefs(s)' = FieldRefs(s)
    BY DEF FieldRefs
  <2> QED BY <1>1, <2>1, <2>2 DEF Follows
<1>5. Roots' = Roots
  BY DEF Roots
<1>6. Held' = Held
  BY <1>1, <1>4, <1>5 DEF Held, StackSlots
<1>7. \A s : Accessible(s)' <=> Accessible(s)
  BY <1>4, <1>6 DEF Accessible
<1> QED BY <1>1, <1>2, <1>3, <1>4, <1>5, <1>6, <1>7

---------------------------------------------------------------------------
(* The invariant of the mark phase. *)
LEMMA ScanPrime ==
  ASSUME UNCHANGED <<ptr, exStack, thStack>>
  PROVE  ScanOK(calls, marked, root)' <=> ScanOK(calls', marked', root')
<1>1. \A k \in 1 .. Len(calls') : RecordOK(calls, marked, k)' <=> RecordOK(calls', marked', k)
  BY DEF RecordOK, Bound, Edge, IsArray
<1>2. \A s : (Follows(s)' = Follows(s)) /\ (IsArray(s)' <=> IsArray(s))
  BY SameHeap
<1>3. Roots' = Roots /\ Held' = Held
  BY SameHeap
<1> QED BY <1>1, <1>2, <1>3 DEF ScanOK, IsArray

(* The innermost walk takes one step: it ends an iteration having marked   *)
(* what it followed, or enters a walk that marks it on return.             *)
LEMMA AdvanceLemma ==
  ASSUME TypeOK, NEW cs \in Seq(Record), NEW ds \in Seq(Record),
         NEW m, NEW d, NEW n \in Nat \ {0}, NEW r \in Nat,
         ScanOK(cs, m, r),
         n = Len(cs), cs[n].i <= Bound(cs[n]),
         m \subseteq d,
         \A k \in 1 .. n - 1 : ds[k] = cs[k],
         ds[n] = [cs[n] EXCEPT !.i = @ + 1],
         \/ Len(ds) = n /\ d = m
         \/ /\ Len(ds) = n + 1 /\ ds[n + 1].i = 1
            /\ (ds[n + 1].fn = "array") <=> IsArray(ds[n + 1].obj)
            /\ ds[n + 1].ret \subseteq {ds[n + 1].obj, cs[n].obj}
            /\ d \subseteq m \cup {ds[n + 1].obj},
         \A x \in Edge(cs[n].obj, cs[n].i) :
           /\ x \in d \cup Pending(ds, n)
           /\ IsArray(cs[n].obj) => cs[n].obj \in d \cup Pending(ds, n)
  PROVE  ScanOK(ds, d, r)
<1> DEFINE R == Pending(ds, n)
<1> HIDE DEF R
<1>0. \A k \in 1 .. n : cs[k] \in Record
  BY ElementOfSeq
<1>1. /\ ds[n].i = cs[n].i + 1 /\ ds[n].fn = cs[n].fn
      /\ ds[n].obj = cs[n].obj /\ ds[n].ret = cs[n].ret
  BY <1>0, NextIndexType
<1>2. \A k \in 1 .. n : /\ ds[k].obj = cs[k].obj
                        /\ ds[k].fn = cs[k].fn
                        /\ ds[k].ret = cs[k].ret
  <2> TAKE k \in 1 .. n
  <2>1. CASE k \in 1 .. n - 1
    <3>1. ds[k] = cs[k]
      BY <2>1
    <3> QED BY <3>1
  <2>2. CASE k = n
    BY <1>1, <2>2
  <2> QED BY <2>1, <2>2
<1>3. \A k \in 1 .. n : RecordOK(cs, m, k)
  BY DEF ScanOK
<1>4. \A s : Active(cs, s) => Active(ds, s)
  BY <1>2 DEF Active
<1>5. ASSUME NEW k \in 1 .. n
      PROVE  RecordOK(ds, d, k)
  <2>1. /\ (ds[k].fn = "array") <=> IsArray(ds[k].obj)
        /\ ds[k].ret \subseteq {ds[k].obj} \cup (IF k > 1 THEN {ds[k - 1].obj} ELSE {})
    <3>1. RecordOK(cs, m, k)
      BY <1>3
    <3>2. k > 1 => ds[k - 1].obj = cs[k - 1].obj
      BY <1>2
    <3> QED BY <1>2, <3>1, <3>2 DEF RecordOK
  <2>2. Bound(ds[k]) = Bound(cs[k])
    BY <1>2 DEF Bound
  <2>3. CASE k < n
    <3>1. ds[k] = cs[k]
      BY <2>3
    <3>2. Pending(ds, k) = Pending(cs, k)
      BY <1>2, <2>3 DEF Pending
    <3>3. \A j \in 1 .. cs[k].i - 1 : j <= Bound(cs[k]) =>
            \A x \in Edge(cs[k].obj, j) : x \in m \cup Pending(cs, k) /\ (IsArray(cs[k].obj) => cs[k].obj \in m \cup Pending(cs, k))
      BY <1>3 DEF RecordOK
    <3> QED BY <2>1, <2>2, <3>1, <3>2, <3>3 DEF RecordOK
  <2>4. CASE k = n
    <3>1. Pending(cs, n) = {} /\ Pending(ds, n) = R
      BY DEF Pending, R
    <3>2. \A j \in 1 .. cs[n].i - 1 : j <= Bound(cs[n]) =>
            \A x \in Edge(cs[n].obj, j) : x \in m /\ (IsArray(cs[n].obj) => cs[n].obj \in m)
      <4>1. RecordOK(cs, m, n)
        BY <1>3
      <4>2. m \cup Pending(cs, n) = m
        BY <3>1
      <4> QED BY <4>1, <4>2 DEF RecordOK
    <3>3. \A j \in 1 .. cs[n].i : j <= Bound(cs[n]) =>
            \A x \in Edge(cs[n].obj, j) : x \in d \cup R /\ (IsArray(cs[n].obj) => cs[n].obj \in d \cup R)
      <4> TAKE j \in 1 .. cs[n].i
      <4>1. cs[n].i \in Nat \ {0}
        BY <1>0 DEF Record
      <4>2. CASE j = cs[n].i
        BY <4>2 DEF R
      <4>3. CASE j \in 1 .. cs[n].i - 1
        BY <3>2, <4>3
      <4> QED BY <4>1, <4>2, <4>3
    <3>4. ds[n].i - 1 = cs[n].i
      BY <1>0, <1>1 DEF Record
    <3> QED BY <1>1, <2>1, <2>2, <2>4, <3>1, <3>3, <3>4 DEF RecordOK
  <2> QED BY <2>3, <2>4
<1>6. ASSUME Len(ds) = n + 1
      PROVE  RecordOK(ds, d, n + 1) /\ Active(ds, ds[n + 1].obj)
  <2> DEFINE q == n + 1
  <2>1. q > 1 /\ q - 1 = n /\ q \in 1 .. Len(ds)
    BY <1>6
  <2>2. ds[q].ret \subseteq {ds[q].obj, ds[q - 1].obj}
    <3>1. ds[q].ret \subseteq {ds[q].obj, cs[n].obj}
      BY <1>6
    <3>2. ds[q - 1].obj = cs[n].obj
      BY <1>1, <2>1
    <3> HIDE DEF q
    <3> QED BY <3>1, <3>2
  <2>3. ds[q].ret \subseteq {ds[q].obj} \cup (IF q > 1 THEN {ds[q - 1].obj} ELSE {})
    BY <2>1, <2>2
  <2>4. \A j \in 1 .. ds[q].i - 1 : FALSE
    BY <1>6
  <2>5. (ds[q].fn = "array") <=> IsArray(ds[q].obj)
    BY <1>6
  <2> HIDE DEF q
  <2>6. RecordOK(ds, d, q)
    BY <2>3, <2>4, <2>5 DEF RecordOK
  <2>7. Active(ds, ds[q].obj)
    BY <2>1 DEF Active
  <2> QED BY <2>6, <2>7 DEF q
<1>7. \A k \in 1 .. Len(ds) : RecordOK(ds, d, k)
  BY <1>5, <1>6
<1>8. \A s \in d : Active(ds, s) \/ Follows(s) \subseteq d
  BY <1>4, <1>6 DEF ScanOK
<1>9. \A i \in 1 .. Len(Roots) : i < r /\ Roots[i] \in Held =>
        Roots[i] \in d \/ (IsArray(Roots[i]) /\ Active(ds, Roots[i]))
  BY <1>4 DEF ScanOK
<1> QED BY <1>7, <1>8, <1>9 DEF ScanOK

(* A walk returns: what its record was to mark is marked. *)
LEMMA ReturnLemma ==
  ASSUME StaticsLast, TypeOK, NEW cs \in Seq(Record), NEW ds \in Seq(Record),
         NEW m, NEW n \in Nat \ {0}, NEW r \in Nat,
         ScanOK(cs, m, r),
         n = Len(cs), cs[n].i > Bound(cs[n]), Bound(cs[n]) \in Nat,
         Len(ds) = n - 1, \A k \in 1 .. n - 1 : ds[k] = cs[k]
  PROVE  ScanOK(ds, m \cup cs[n].ret, r)
<1> DEFINE d == m \cup cs[n].ret
<1>0. \A k \in 1 .. n : cs[k] \in Record /\ RecordOK(cs, m, k)
  BY ElementOfSeq DEF ScanOK
<1>1. /\ cs[n] \in Record
      /\ (cs[n].fn = "array") <=> IsArray(cs[n].obj)
      /\ cs[n].ret \subseteq {cs[n].obj} \cup (IF n > 1 THEN {cs[n - 1].obj} ELSE {})
      /\ \A j \in 1 .. cs[n].i - 1 : j <= Bound(cs[n]) =>
           \A x \in Edge(cs[n].obj, j) : x \in m \cup Pending(cs, n) /\ (IsArray(cs[n].obj) => cs[n].obj \in m \cup Pending(cs, n))
  <2>1. cs[n] \in Record /\ RecordOK(cs, m, n)
    BY <1>0
  <2> QED BY <2>1 DEF RecordOK
<1>2. m \cup Pending(cs, n) = m
  BY DEF Pending
<1>3. \A e \in Follows(cs[n].obj) : e \in m /\ (IsArray(cs[n].obj) => cs[n].obj \in m)
  <2> TAKE e \in Follows(cs[n].obj)
  <2>1. PICK j \in 1 .. Bound(cs[n]) : e \in Edge(cs[n].obj, j)
    BY <1>1, WalkCoversFollows
  <2>2. j \in 1 .. cs[n].i - 1 /\ j <= Bound(cs[n])
    BY <1>1 DEF Record
  <2> QED BY <1>1, <1>2, <2>1, <2>2
<1>4. \A s : Active(cs, s) => Active(ds, s) \/ s = cs[n].obj
  BY DEF Active
<1>5. ASSUME NEW k \in 1 .. Len(ds)
      PROVE  RecordOK(ds, d, k)
  <2>1. k \in 1 .. n /\ ds[k] = cs[k] /\ RecordOK(cs, m, k)
    BY <1>0
  <2>2. m \cup Pending(cs, k) \subseteq d \cup Pending(ds, k)
    <3>1. CASE k < n - 1
      BY <3>1 DEF Pending
    <3>2. CASE k = n - 1
      BY <3>2 DEF Pending
    <3> QED BY <3>1, <3>2
  <2>3. k > 1 => ds[k - 1] = cs[k - 1]
    BY <2>1
  <2> HIDE DEF d
  <2> QED BY <2>1, <2>2, <2>3 DEF RecordOK
<1>6. \A s \in d : Active(ds, s) \/ Follows(s) \subseteq d
  <2> TAKE s \in d
  <2>1. CASE s \in m
    BY <1>3, <1>4, <2>1 DEF ScanOK
  <2>2. CASE s \in cs[n].ret
    <3>1. CASE s = cs[n].obj
      BY <1>3, <3>1
    <3>2. CASE n > 1 /\ s = cs[n - 1].obj
      BY <3>2 DEF Active
    <3> QED BY <1>1, <2>2, <3>1, <3>2
  <2> QED BY <2>1, <2>2
<1>7. \A i \in 1 .. Len(Roots) : i < r /\ Roots[i] \in Held =>
        Roots[i] \in d \/ (IsArray(Roots[i]) /\ Active(ds, Roots[i]))
  <2> TAKE i \in 1 .. Len(Roots)
  <2> HAVE i < r /\ Roots[i] \in Held
  <2>1. CASE Roots[i] \in m
    BY <2>1
  <2>2. CASE IsArray(Roots[i]) /\ Active(cs, Roots[i])
    <3>1. Follows(Roots[i]) # {}
      BY <2>2 DEF Held
    <3> QED BY <1>3, <1>4, <2>2, <3>1
  <2> QED BY <2>1, <2>2 DEF ScanOK
<1> QED BY <1>5, <1>6, <1>7 DEF ScanOK

---------------------------------------------------------------------------
(* Field counts and field offsets are numbers: field tables are finite.    *)
LEMMA OffsetType ==
  ASSUME NEW c \in Classes
  PROVE  /\ NumVars(c) \in Nat
         /\ \A j \in FieldIdx(c) : VarOffs(c, j) \in Nat
<1>1. IsFiniteSet(FieldIdx(c))
  BY ClassAssumption, LenProperties, FS_Interval DEF FieldIdx
<1>2. IsFiniteSet(Instance(c)) /\ NumVars(c) \in Nat
  BY <1>1, FS_Subset, FS_CardinalityType DEF Instance, NumVars
<1>3. \A j \in FieldIdx(c) : VarOffs(c, j) \in Nat
  <2> TAKE j \in FieldIdx(c)
  <2>1. {k \in Instance(c) : k < j} \in SUBSET Instance(c)
    OBVIOUS
  <2> QED BY <1>2, <2>1, FS_Subset, FS_CardinalityType DEF VarOffs
<1> QED BY <1>2, <1>3

(* Each loop of the walk has a bound, and the fields of a walked object     *)
(* are those of a loaded class.                                            *)
LEMMA BoundType ==
  ASSUME TypeOK, NEW r \in Record, (r.fn = "array") <=> IsArray(r.obj)
  PROVE  /\ Bound(r) \in Nat
         /\ r.fn = "fields" => ptr[r.obj].cls \in Classes
<1>1. r.obj \in Slots /\ ptr[r.obj] \in Block /\ r.fn \in {"fields", "array"}
  BY DEF Record, TypeOK
<1>2. Len(ptr[r.obj].words) \in Nat
  BY <1>1, LenProperties DEF Block
<1>3. r.fn = "fields" => ptr[r.obj].cls \in Classes
  BY <1>1 DEF IsArray, Block
<1> QED BY <1>1, <1>2, <1>3, OffsetType DEF Bound

(* A reference field is read at its own offset. *)
LEMMA ReadLemma ==
  ASSUME TypeOK, OffsetsOK, NEW s \in Slots, ptr[s].cls \in Classes,
         NEW j \in FieldIdx(ptr[s].cls)
  PROVE  /\ Edge(s, j) \subseteq Slots
         /\ ~Fields[ptr[s].cls][j].ref => Edge(s, j) = {}
         /\ \A e \in ReadField(s, ptr[s].cls, j) : Edge(s, j) \subseteq {e} \cap Slots
<1> DEFINE c == ptr[s].cls
<1>1. ~IsArray(s)
  BY ClassAssumption DEF IsArray
<1>2. Edge(s, j) \subseteq Slots /\ (~Fields[c][j].ref => Edge(s, j) = {})
  BY <1>1 DEF Edge
<1>3. ASSUME NEW e \in ReadField(s, c, j), NEW x \in Edge(s, j)
      PROVE  x = e
  <2>1. /\ Fields[c][j].kind = "inst" /\ VarOffs(c, j) < Len(ptr[s].words)
        /\ x = ptr[s].words[VarOffs(c, j) + 1]
    BY <1>1, <1>3 DEF Edge
  <2>2. <<c, j>> \in Cells
    BY DEF Cells
  <2>3. fvar[<<c, j>>] = VarOffs(c, j)
    BY <2>1, <2>2 DEF OffsetsOK
  <2>4. VarOffs(c, j) \in Nat /\ Len(ptr[s].words) \in Nat
    BY OffsetType, LenProperties DEF TypeOK, Block
  <2>5. VarOffs(c, j) + 1 \in 1 .. Len(ptr[s].words)
    BY <2>1, <2>4
  <2> QED BY <1>3, <2>1, <2>3, <2>5 DEF ReadField
<1> QED BY <1>2, <1>3

(* Every step of the collector preserves the invariant of the mark phase. *)
LEMMA MarkStep ==
  ASSUME StaticsLast, TypeOK, TypeOK', OffsetsOK, MarksAhead, MarkInvariant, [GcNext]_allVars
  PROVE  MarkInvariant'
<1> SUFFICES ASSUME gcpc' = "mark"
             PROVE  used' = Slots /\ ScanOK(calls', marked', root')
  <2>1. UNCHANGED <<ptr, exStack, thStack>>
    BY DEF GcNext, Collect, StartGC, MarkRoot, WalkField, WalkElement, Return, FinishMark,
           Sweep, EndGC, heapVars, stackVars, allVars
  <2> QED BY <2>1, ScanPrime DEF MarkInvariant
<1> DEFINE n == Len(calls)
<1>0. CASE UNCHANGED allVars
  BY <1>0 DEF allVars, MarkInvariant
<1>1. CASE StartGC
  <2>1. calls' = << >> /\ Len(<< >>) = 0 /\ root' = 1 /\ marked' = {} /\ used' = Slots
    BY <1>1 DEF StartGC, heapVars, MarksAhead
  <2>2. \A k \in 1 .. 0 : FALSE
    OBVIOUS
  <2>3. \A i \in 1 .. Len(Roots) : ~(i < 1)
    BY RootsType
  <2> QED BY <2>1, <2>2, <2>3 DEF ScanOK
<1>2. CASE MarkRoot
  <2>1. /\ gcpc = "mark" /\ calls = << >> /\ Len(calls) = 0 /\ root \in 1 .. Len(Roots)
        /\ root' = root + 1 /\ used' = Slots /\ ScanOK(calls, marked, root)
    BY <1>2, RootsType DEF MarkRoot, MarkInvariant, TypeOK
  <2>2. /\ \A s \in marked : Follows(s) \subseteq marked
        /\ \A i \in 1 .. Len(Roots) : i < root /\ Roots[i] \in Held => Roots[i] \in marked
    BY <2>1 DEF ScanOK, Active
  <2>3. \A i \in 1 .. Len(Roots) : i < root' => i < root \/ i = root
    BY <2>1, RootsType
  <2>4. \A k \in 1 .. 0 : FALSE
    OBVIOUS
  <2>5. PICK s : /\ s = Roots[root]
                 /\ \/ /\ s \notin Slots \/ s \in marked
                       /\ UNCHANGED <<marked, calls>>
                    \/ /\ s \in Slots \ marked /\ IsArray(s)
                       /\ Enter(calls, Walk("array", s, {}))
                       /\ UNCHANGED marked
                    \/ /\ s \in Slots \ marked /\ ~IsArray(s)
                       /\ marked' = marked \cup {s}
                       /\ Enter(calls, Walk("fields", s, {}))
    BY <1>2 DEF MarkRoot, IS_OBJECT, IS_MARK
  <2>6. CASE (s \notin Slots \/ s \in marked) /\ UNCHANGED <<marked, calls>>
    BY <2>1, <2>2, <2>3, <2>4, <2>5, <2>6 DEF ScanOK, Held, StackSlots
  <2>7. ASSUME NEW fn \in {"fields", "array"}, s \in Slots, (fn = "array") <=> IsArray(s),
               Enter(calls, Walk(fn, s, {})), marked \subseteq marked', marked' \subseteq marked \cup {s},
               IsArray(s) \/ s \in marked'
        PROVE  ScanOK(calls', marked', root')
    <3>1. calls' \in Seq(Record) /\ Len(calls') = 1 /\ calls'[1] = Walk(fn, s, {})
      <4>1. Walk(fn, s, {}) \in Record /\ calls \in Seq(Record)
        BY <2>7, WalkType DEF TypeOK
      <4>2. /\ calls' \in Seq(Record) /\ Len(calls') = Len(calls) + 1
            /\ calls'[Len(calls) + 1] = Walk(fn, s, {})
        BY <2>7, <4>1, EnterLemma
      <4>3. Len(calls) + 1 = 1
        BY <2>1
      <4> QED BY <4>2, <4>3
    <3>2. /\ calls'[1].obj = s /\ calls'[1].fn = fn /\ calls'[1].ret = {} /\ calls'[1].i = 1
      BY <3>1 DEF Walk
    <3>3. \A j \in 1 .. calls'[1].i - 1 : FALSE
      BY <3>2
    <3>4. RecordOK(calls', marked', 1)
      BY <2>7, <3>2, <3>3 DEF RecordOK
    <3>5. Active(calls', s)
      BY <3>1, <3>2 DEF Active
    <3>6. \A k \in 1 .. Len(calls') : RecordOK(calls', marked', k)
      BY <3>1, <3>4
    <3>7. \A x \in marked' : Active(calls', x) \/ Follows(x) \subseteq marked'
      BY <2>2, <2>7, <3>5
    <3>8. \A i \in 1 .. Len(Roots) : i < root' /\ Roots[i] \in Held =>
            Roots[i] \in marked' \/ (IsArray(Roots[i]) /\ Active(calls', Roots[i]))
      BY <2>2, <2>3, <2>5, <2>7, <3>5
    <3> QED BY <3>6, <3>7, <3>8 DEF ScanOK
  <2>8. CASE s \in Slots \ marked /\ IsArray(s) /\ Enter(calls, Walk("array", s, {})) /\ UNCHANGED marked
    BY <2>1, <2>7, <2>8
  <2>9. CASE /\ s \in Slots \ marked /\ ~IsArray(s) /\ marked' = marked \cup {s}
             /\ Enter(calls, Walk("fields", s, {}))
    BY <2>1, <2>7, <2>9
  <2> QED BY <2>5, <2>6, <2>8, <2>9
<1>3. CASE WalkField \/ WalkElement
  <2>1. /\ gcpc = "mark" /\ calls # << >> /\ Top.i <= Bound(Top)
        /\ used' = Slots /\ root' = root /\ root \in Nat /\ calls \in Seq(Record)
    BY <1>3 DEF WalkField, WalkElement, MarkInvariant, TypeOK, heapVars
  <2>2. /\ n \in Nat \ {0} /\ Top \in Record /\ Top = calls[n]
        /\ Advanced \in Seq(Record) /\ Len(Advanced) = n
        /\ \A k \in 1 .. n - 1 : Advanced[k] = calls[k]
        /\ Advanced[n] = [Top EXCEPT !.i = @ + 1]
    BY <2>1, StackLemma DEF Top
  <2>3. ScanOK(calls, marked, root)
    BY <2>1 DEF MarkInvariant
  <2>4. RecordOK(calls, marked, n)
    BY <2>2, <2>3 DEF ScanOK
  <2>5. ((Top.fn = "array") <=> IsArray(Top.obj)) /\ Top.obj \in Slots /\ Top.i \in Nat \ {0}
    BY <2>2, <2>4 DEF RecordOK, Record
  <2> HIDE DEF n
  <2>6. ASSUME NEW R \in SUBSET Slots, NEW e \in Slots, NEW fn \in {"fields", "array"},
               Enter(Advanced, Walk(fn, e, R)),
               (fn = "array") <=> IsArray(e),
               R \subseteq {e, Top.obj},
               marked \subseteq marked', marked' \subseteq marked \cup {e},
               \A x \in Edge(Top.obj, Top.i) : x \in marked' \cup R /\ (IsArray(Top.obj) => Top.obj \in marked' \cup R)
        PROVE  ScanOK(calls', marked', root)
    <3>1. /\ calls' \in Seq(Record) /\ Len(calls') = n + 1
          /\ \A k \in 1 .. n : calls'[k] = Advanced[k]
          /\ calls'[n + 1] = Walk(fn, e, R)
      BY <2>2, <2>6, WalkType, EnterLemma
    <3>2. /\ calls'[n + 1].ret = R /\ calls'[n + 1].i = 1
          /\ calls'[n + 1].fn = fn /\ calls'[n + 1].obj = e
      BY <3>1 DEF Walk
    <3>3. /\ \A k \in 1 .. n - 1 : calls'[k] = calls[k]
          /\ calls'[n] = [calls[n] EXCEPT !.i = @ + 1]
      BY <2>2, <3>1
    <3>4. Pending(calls', n) = R
      BY <2>2, <3>1, <3>2 DEF Pending
    <3>5. /\ calls[n].i <= Bound(calls[n]) /\ n = Len(calls)
          /\ calls'[n + 1].ret \subseteq {calls'[n + 1].obj, calls[n].obj}
          /\ marked' \subseteq marked \cup {calls'[n + 1].obj}
          /\ (calls'[n + 1].fn = "array") <=> IsArray(calls'[n + 1].obj)
      BY <2>1, <2>2, <2>6, <3>2 DEF n
    <3>6. \A x \in Edge(calls[n].obj, calls[n].i) :
            /\ x \in marked' \cup Pending(calls', n)
            /\ IsArray(calls[n].obj) => calls[n].obj \in marked' \cup Pending(calls', n)
      BY <2>2, <2>6, <3>4
    <3>7. calls \in Seq(Record) /\ root \in Nat /\ n \in Nat \ {0} /\ marked \subseteq marked'
      BY <2>1, <2>2, <2>6
    <3> HIDE DEF n
    <3> QED BY <2>3, <3>1, <3>2, <3>3, <3>5, <3>6, <3>7, AdvanceLemma
  <2>7. ASSUME calls' = Advanced, marked' = marked,
               \A x \in Edge(Top.obj, Top.i) : x \in marked /\ ~IsArray(Top.obj)
        PROVE  ScanOK(calls', marked', root)
    <3>1. /\ calls' \in Seq(Record) /\ Len(calls') = n /\ n = Len(calls)
          /\ \A k \in 1 .. n - 1 : calls'[k] = calls[k]
          /\ calls'[n] = [calls[n] EXCEPT !.i = @ + 1]
          /\ calls[n].i <= Bound(calls[n])
      BY <2>1, <2>2, <2>7 DEF n
    <3>2. \A x \in Edge(calls[n].obj, calls[n].i) :
            /\ x \in marked' \cup Pending(calls', n)
            /\ IsArray(calls[n].obj) => calls[n].obj \in marked' \cup Pending(calls', n)
      BY <2>2, <2>7
    <3>3. calls \in Seq(Record) /\ root \in Nat /\ n \in Nat \ {0} /\ marked' = marked
      BY <2>1, <2>2, <2>7
    <3> QED BY <2>3, <3>1, <3>2, <3>3, AdvanceLemma
  <2>8. CASE WalkField
    <3> DEFINE c == ptr[Top.obj].cls
    <3>1. Top.fn = "fields" /\ c \in Classes /\ ~IsArray(Top.obj)
      BY <2>2, <2>5, <2>8, BoundType DEF WalkField
    <3>2. Top.i \in FieldIdx(c)
      BY <2>1, <2>5, <3>1, LayoutLemma DEF Bound, Instance
    <3>3. /\ Edge(Top.obj, Top.i) \subseteq Slots
          /\ ~Fields[c][Top.i].ref => Edge(Top.obj, Top.i) = {}
          /\ \A e \in ReadField(Top.obj, c, Top.i) : Edge(Top.obj, Top.i) \subseteq {e} \cap Slots
      BY <2>5, <3>1, <3>2, ReadLemma
    <3>4. CASE ~Fields[c][Top.i].ref
      <4>1. calls' = Advanced /\ marked' = marked
        BY <2>8, <3>4 DEF WalkField
      <4>2. Edge(Top.obj, Top.i) = {}
        BY <3>3, <3>4
      <4>3. ScanOK(calls', marked', root)
        BY <2>7, <4>1, <4>2
      <4> QED BY <2>1, <4>3
    <3>5. CASE Fields[c][Top.i].ref
      <4>1. PICK e \in ReadField(Top.obj, c, Top.i) :
              \/ (e \notin Slots \/ e \in marked) /\ calls' = Advanced /\ UNCHANGED <<marked, gcpc>>
              \/ /\ e \in Slots \ marked /\ ~IsArray(e) /\ marked' = marked \cup {e}
                 /\ Enter(Advanced, Walk("fields", e, {}))
              \/ /\ e \in Slots \ marked /\ IsArray(e)
                 /\ Enter(Advanced, Walk("array", e, {e})) /\ UNCHANGED marked
        BY <2>8, <3>5 DEF WalkField, IS_OBJECT, IS_MARK
      <4>2. Edge(Top.obj, Top.i) \subseteq {e} \cap Slots
        BY <3>3
      <4>3. CASE (e \notin Slots \/ e \in marked) /\ calls' = Advanced /\ UNCHANGED <<marked, gcpc>>
        BY <2>1, <2>7, <3>1, <4>2, <4>3
      <4>4. CASE /\ e \in Slots \ marked /\ ~IsArray(e) /\ marked' = marked \cup {e}
                 /\ Enter(Advanced, Walk("fields", e, {}))
        BY <2>1, <2>6, <3>1, <4>2, <4>4
      <4>5. CASE /\ e \in Slots \ marked /\ IsArray(e)
                 /\ Enter(Advanced, Walk("array", e, {e})) /\ UNCHANGED marked
        BY <2>1, <2>6, <3>1, <4>2, <4>5
      <4> QED BY <4>1, <4>3, <4>4, <4>5
    <3> QED BY <3>4, <3>5
  <2>9. CASE WalkElement
    <3> DEFINE e == ptr[Top.obj].words[Top.i]
    <3>1. Top.fn = "array" /\ IsArray(Top.obj) /\ marked' = marked
      BY <2>5, <2>9 DEF WalkElement, heapVars
    <3>2. Len(ptr[Top.obj].words) \in Nat
      BY <2>5, LenProperties DEF TypeOK, Block
    <3>3. e \in Slots
      <4>1. ptr[Top.obj].type = 1 /\ Top.i \in 1 .. Len(ptr[Top.obj].words)
        BY <2>1, <2>5, <3>1, <3>2 DEF Bound
      <4>2. ptr[Top.obj].words \in Seq(Slots)
        BY <2>5, <4>1 DEF TypeOK
      <4> QED BY <4>1, <4>2, ElementOfSeq
    <3>4. Edge(Top.obj, Top.i) = {x \in {e} : ~IsArray(x)}
      BY <3>1 DEF Edge
    <3>5. CASE IsArray(e)
      <4>1. calls' = Advanced
        BY <2>9, <3>5 DEF WalkElement
      <4>2. Edge(Top.obj, Top.i) = {}
        BY <3>4, <3>5
      <4>3. ScanOK(calls', marked', root)
        BY <2>7, <3>1, <4>1, <4>2
      <4> QED BY <2>1, <4>3
    <3>6. CASE ~IsArray(e)
      <4>1. Enter(Advanced, Walk("fields", e, {Top.obj, e})) /\ {Top.obj, e} \in SUBSET Slots
        BY <2>5, <2>9, <3>3, <3>6 DEF WalkElement
      <4>2. Edge(Top.obj, Top.i) = {e}
        BY <3>4, <3>6
      <4> HIDE DEF e
      <4> QED BY <2>1, <2>6, <3>1, <3>3, <3>6, <4>1, <4>2
    <3> QED BY <3>5, <3>6
  <2> QED BY <1>3, <2>8, <2>9
<1>4. CASE Return
  <2>1. gcpc = "mark" /\ calls # << >> /\ Top.i > Bound(Top) /\ used' = Slots
        /\ marked' = marked \cup Top.ret /\ calls' = Below /\ root' = root
    BY <1>4 DEF Return, MarkInvariant
  <2>2. /\ n \in Nat \ {0} /\ Below \in Seq(Record) /\ Len(Below) = n - 1
        /\ \A k \in 1 .. n - 1 : Below[k] = calls[k]
        /\ Top \in Record /\ Top = calls[n]
    BY <2>1, StackLemma DEF TypeOK, Top
  <2>3. calls \in Seq(Record) /\ root \in Nat
    BY DEF TypeOK
  <2>4. ScanOK(calls, marked, root)
    BY <2>1 DEF MarkInvariant
  <2>5. RecordOK(calls, marked, n)
    BY <2>2, <2>4 DEF ScanOK
  <2>6. Bound(Top) \in Nat
    BY <2>2, <2>5, BoundType DEF RecordOK
  <2> QED BY <2>1, <2>2, <2>3, <2>4, <2>6, ReturnLemma
<1>5. CASE FinishMark \/ Sweep \/ EndGC
  BY <1>5 DEF FinishMark, Sweep, EndGC
<1> QED BY <1>0, <1>1, <1>2, <1>3, <1>4, <1>5 DEF GcNext, Collect

---------------------------------------------------------------------------
(* The marks: none between collections, none behind the sweep. *)
LEMMA MarksStep ==
  ASSUME TypeOK, MarksAhead, [GcNext]_allVars
  PROVE  MarksAhead'
<1>1. CASE Sweep
  <2>1. hand \in Slots /\ gcpc' = "sweep" /\ hand' = hand + 1 /\ marked' = marked \ {hand}
    BY <1>1 DEF Sweep, Unmark
  <2>2. \A s \in marked : s >= hand /\ s \in Slots
    BY <1>1 DEF Sweep, Unmark, MarksAhead, TypeOK
  <2>3. \A s \in marked' : s >= hand'
    BY <2>1, <2>2 DEF Slots
  <2> QED BY <2>1, <2>3 DEF MarksAhead
<1>2. CASE EndGC
  <2>1. gcpc = "sweep" /\ hand = HeapSize /\ marked' = marked /\ gcpc' = "idle"
    BY <1>2 DEF EndGC, heapVars
  <2>2. \A s \in marked : s >= hand /\ s \in Slots
    BY <2>1 DEF MarksAhead, TypeOK
  <2>3. marked = {}
    BY <2>1, <2>2, HeapAssumption DEF Slots
  <2> QED BY <2>1, <2>3 DEF MarksAhead
<1>3. CASE FinishMark
  <2>1. gcpc' = "sweep" /\ hand' = 0 /\ marked' \in SUBSET Slots
    BY <1>3 DEF FinishMark, heapVars, MarksAhead, TypeOK
  <2> QED BY <2>1 DEF MarksAhead, Slots
<1>4. CASE StartGC \/ MarkRoot \/ WalkField \/ WalkElement \/ Return
  <2>1. gcpc' \in {"mark", "crashed"} /\ hand' = 0
    BY <1>4 DEF MarksAhead, StartGC, MarkRoot, WalkField, WalkElement, Return, Enter
  <2> QED BY <2>1 DEF MarksAhead
<1>5. CASE UNCHANGED allVars
  BY <1>5 DEF MarksAhead, allVars
<1> QED BY <1>1, <1>2, <1>3, <1>4, <1>5 DEF GcNext, Collect

---------------------------------------------------------------------------
(* The collector writes no value cell: the offsets of instance fields stay. *)
LEMMA OffsetsStep ==
  ASSUME OffsetsOK, [GcNext]_allVars
  PROVE  OffsetsOK'
<1>1. fvar' = fvar
  BY DEF GcNext, Collect, StartGC, MarkRoot, WalkField, WalkElement, Return, FinishMark,
         Sweep, EndGC, stackVars, allVars
<1> QED BY <1>1 DEF OffsetsOK

(* When the mark phase ends, the marked slots are closed under Follows and *)
(* hold every root: they contain all that is accessible.                   *)
LEMMA MarkedHoldsAccessible ==
  ASSUME TypeOK, ScanOK(<< >>, marked, root), root > Len(Roots)
  PROVE  \A s \in Slots : Accessible(s) => s \in marked
<1>1. \A s \in marked : Follows(s) \subseteq marked
  BY DEF ScanOK, Active
<1>2. Held \subseteq marked
  <2> SUFFICES ASSUME NEW s \in Held
               PROVE  s \in marked
    OBVIOUS
  <2>1. PICK n \in 1 .. Len(Roots) : Roots[n] = s
    BY DEF Held, StackSlots
  <2>2. n < root
    BY <2>1, RootsType DEF TypeOK
  <2> QED BY <2>1, <2>2 DEF ScanOK, Active
<1> QED BY <1>1, <1>2 DEF Accessible, TypeOK

(* The end of the mark phase and the sweep keep what is accessible: the    *)
(* mark phase has marked it, the sweep frees only what is not marked.      *)
LEMMA SparesStep ==
  ASSUME TypeOK, TypeOK', MarksAhead, MarkInvariant, SparesAccessible, [GcNext]_allVars
  PROVE  SparesAccessible'
<1>0. UNCHANGED <<ptr, exStack, thStack>>
  BY DEF GcNext, Collect, StartGC, MarkRoot, WalkField, WalkElement, Return, FinishMark,
         Sweep, EndGC, heapVars, stackVars, allVars
<1>1. \A s : Accessible(s)' <=> Accessible(s)
  BY <1>0, SameHeap
<1>2. CASE FinishMark
  <2>1. /\ gcpc = "mark" /\ calls = << >> /\ root > Len(Roots)
        /\ gcpc' = "sweep" /\ used' = used /\ marked' = marked
    BY <1>2 DEF FinishMark, heapVars
  <2>2. used = Slots /\ ScanOK(<< >>, marked, root)
    BY <2>1 DEF MarkInvariant
  <2>3. \A s \in Slots : Accessible(s) => s \in marked
    BY <2>1, <2>2, MarkedHoldsAccessible
  <2> QED BY <1>1, <2>1, <2>2, <2>3 DEF SparesAccessible
<1>3. CASE Sweep
  <2>1. /\ gcpc = "sweep" /\ gcpc' = "sweep" /\ hand \in Slots /\ hand' = hand + 1
        /\ marked' = marked \ {hand}
        /\ hand \in marked => used' = used
        /\ used' = used \/ used' = used \ {hand}
    BY <1>3 DEF Sweep, Frees, Unmark
  <2>2. ASSUME NEW s \in Slots, Accessible(s)
        PROVE  s \in used' /\ (s >= hand' => s \in marked')
    <3>1. s \in used /\ (s >= hand => s \in marked)
      BY <2>1, <2>2 DEF SparesAccessible
    <3>2. CASE s = hand
      BY <2>1, <3>1, <3>2 DEF Slots
    <3>3. CASE s # hand
      BY <2>1, <3>1, <3>3 DEF Slots
    <3> QED BY <3>2, <3>3
  <2> QED BY <1>1, <2>1, <2>2 DEF SparesAccessible
<1>4. CASE EndGC
  BY <1>1, <1>4 DEF EndGC, SparesAccessible, heapVars
<1>5. CASE StartGC \/ MarkRoot \/ WalkField \/ WalkElement \/ Return
  <2>1. gcpc' \in {"mark", "crashed"}
    BY <1>5 DEF StartGC, MarkRoot, WalkField, WalkElement, Return, Enter
  <2> QED BY <2>1 DEF SparesAccessible
<1>6. CASE UNCHANGED allVars
  BY <1>1, <1>6 DEF SparesAccessible, allVars
<1> QED BY <1>2, <1>3, <1>4, <1>5, <1>6 DEF GcNext, Collect

---------------------------------------------------------------------------
(* What a stack word leads to: the slots on a stack, and the slots that an *)
(* object refers to that is led to itself.                                 *)
LEMMA ReachLemma ==
  /\ \A s \in StackSlots : MayReach(s)
  /\ \A s, e \in Slots : MayReach(s) /\ e \in MayFollow(s) => MayReach(e)
BY DEF MayReach

(* Nothing the collector does changes what a stack word leads to.          *)
LEMMA SameReach ==
  ASSUME UNCHANGED <<ptr, fvar, exStack, thStack>>
  PROVE  /\ \A s : Elements(s)' = Elements(s)
         /\ \A s : Reads(s)' = Reads(s)
         /\ \A s : MayReach(s)' <=> MayReach(s)
         /\ \A r : InReach(r)' <=> InReach(r)
<1>1. \A s : IsArray(s)' <=> IsArray(s)
  BY DEF IsArray
<1>2. \A s : Elements(s)' = Elements(s)
  BY DEF Elements
<1>3. \A s : Reads(s)' = Reads(s)
  BY DEF Reads, ReadField
<1>4. \A s : MayFollow(s)' = MayFollow(s)
  BY <1>1, <1>2, <1>3 DEF MayFollow
<1>5. StackSlots' = StackSlots
  BY DEF StackSlots, Roots
<1>6. \A s : MayReach(s)' <=> MayReach(s)
  BY <1>4, <1>5 DEF MayReach
<1> QED BY <1>1, <1>2, <1>3, <1>6 DEF InReach

(* The collector writes neither a heap block nor a stack word.             *)
LEMMA HeapUntouched ==
  ASSUME [GcNext]_allVars
  PROVE  UNCHANGED <<ptr, fvar, exStack, thStack>>
BY DEF GcNext, Collect, StartGC, MarkRoot, WalkField, WalkElement, Return, FinishMark,
       Sweep, EndGC, heapVars, stackVars, allVars

(* The step of a walk to its next iteration changes no more of the records *)
(* than the index of the innermost one.                                    *)
LEMMA AdvancedSame ==
  ASSUME calls \in Seq(Record), calls # << >>
  PROVE  \A k \in 1 .. Len(calls) :
           /\ Advanced[k].fn = calls[k].fn
           /\ Advanced[k].obj = calls[k].obj
           /\ Advanced[k].ret = calls[k].ret
<1> DEFINE n == Len(calls)
<1>1. /\ n \in Nat \ {0} /\ Top \in Record /\ Top = calls[n]
      /\ \A k \in 1 .. n - 1 : Advanced[k] = calls[k]
      /\ Advanced[n] = [Top EXCEPT !.i = @ + 1]
  BY StackLemma DEF Top
<1>2. /\ Advanced[n].fn = calls[n].fn /\ Advanced[n].obj = calls[n].obj
      /\ Advanced[n].ret = calls[n].ret
  BY <1>1, NextIndexType
<1>3. \A k \in 1 .. n : k \in 1 .. n - 1 \/ k = n
  BY <1>1
<1> HIDE DEF n
<1>4. ASSUME NEW k \in 1 .. n
      PROVE  /\ Advanced[k].fn = calls[k].fn /\ Advanced[k].obj = calls[k].obj
             /\ Advanced[k].ret = calls[k].ret
  <2>1. CASE k = n
    BY <1>2, <2>1
  <2>2. CASE k \in 1 .. n - 1
    <3>1. Advanced[k] = calls[k]
      BY <1>1, <2>2
    <3> QED BY <3>1
  <2> QED BY <1>3, <2>1, <2>2
<1> QED BY <1>4 DEF n

(* The iteration of a walk: its object, its loop and what it can read.     *)
LEMMA IterationLemma ==
  ASSUME TypeOK, gcpc = "mark", calls # << >>, Top.i <= Bound(Top),
         (Top.fn = "array") <=> IsArray(Top.obj)
  PROVE  /\ Top.obj \in Slots
         /\ Top.fn = "fields" => \A s \in ReadField(Top.obj, ptr[Top.obj].cls, Top.i) :
              Fields[ptr[Top.obj].cls][Top.i].ref /\ s \in Slots => s \in Reads(Top.obj)
         /\ Top.fn = "array" =>
              LET e == ptr[Top.obj].words[Top.i] IN e \in Slots /\ e \in Elements(Top.obj)
<1>1. Top \in Record /\ Top.obj \in Slots /\ Top.i \in Nat \ {0} /\ ptr[Top.obj] \in Block
      /\ Bound(Top) \in Nat
  BY StackLemma, BoundType DEF TypeOK, Record
<1>2. ASSUME Top.fn = "fields"
      PROVE  \A s \in ReadField(Top.obj, ptr[Top.obj].cls, Top.i) :
               Fields[ptr[Top.obj].cls][Top.i].ref /\ s \in Slots => s \in Reads(Top.obj)
  <2>1. Top.i \in 1 .. NumVars(ptr[Top.obj].cls)
    BY <1>1, <1>2 DEF Bound
  <2> TAKE s \in ReadField(Top.obj, ptr[Top.obj].cls, Top.i)
  <2> HAVE Fields[ptr[Top.obj].cls][Top.i].ref /\ s \in Slots
  <2>2. Top.i \in {k \in 1 .. NumVars(ptr[Top.obj].cls) : Fields[ptr[Top.obj].cls][k].ref}
    BY <2>1
  <2> QED BY <2>2 DEF Reads
<1>3. ASSUME Top.fn = "array"
      PROVE  ptr[Top.obj].words[Top.i] \in Slots /\ ptr[Top.obj].words[Top.i] \in Elements(Top.obj)
  <2>1. Len(ptr[Top.obj].words) \in Nat
    BY <1>1, LenProperties DEF Block
  <2>2. ptr[Top.obj].type = 1 /\ Top.i \in 1 .. Len(ptr[Top.obj].words)
    BY <1>1, <1>3, <2>1 DEF Bound
  <2>3. ptr[Top.obj].words \in Seq(Slots)
    BY <1>1, <2>2 DEF TypeOK
  <2> QED BY <2>2, <2>3, ElementOfSeq DEF Elements
<1> QED BY <1>1, <1>2, <1>3

(* A walk that is entered from within reach is within reach.               *)
LEMMA EnterReach ==
  ASSUME TypeOK, NEW base \in Seq(Record), NEW fn \in {"fields", "array"}, NEW s \in Slots,
         NEW R \in SUBSET Slots, Enter(base, Walk(fn, s, R)),
         \A k \in 1 .. Len(base) : InReach(base[k]),
         (fn = "array") <=> IsArray(s), MayReach(s), \A x \in R : MayReach(x)
  PROVE  gcpc' # "crashed" => \A k \in 1 .. Len(calls') : InReach(calls'[k])
<1> HAVE gcpc' # "crashed"
<1>1. /\ Len(calls') = Len(base) + 1 /\ Len(base) \in Nat
      /\ \A k \in 1 .. Len(base) : calls'[k] = base[k]
      /\ calls'[Len(base) + 1] = Walk(fn, s, R)
  BY WalkType, EnterLemma, LenProperties
<1>2. InReach(Walk(fn, s, R))
  BY DEF InReach, Walk
<1> TAKE k \in 1 .. Len(calls')
<1>3. CASE k = Len(base) + 1
  BY <1>1, <1>2, <1>3
<1>4. CASE k \in 1 .. Len(base)
  <2>1. calls'[k] = base[k]
    BY <1>1, <1>4
  <2> QED BY <1>4, <2>1
<1> QED BY <1>1, <1>3, <1>4

(* Every step of the collector marks, and keeps, within reach. *)
LEMMA ReachStep ==
  ASSUME TypeOK, TypeOK', MarksAhead, ReachInvariant, [GcNext]_allVars
  PROVE  ReachInvariant'
<1> DEFINE M == \A s \in marked' : MayReach(s)
           C == \A k \in 1 .. Len(calls') : InReach(calls'[k])
           U == \A s \in used' : s < hand' => MayReach(s)
<1> SUFFICES (gcpc' \in {"mark", "sweep"} => M) /\ (gcpc' = "mark" => C) /\ (gcpc' = "sweep" => U)
  <2>1. /\ \A s : MayReach(s)' <=> MayReach(s)
        /\ \A r : InReach(r)' <=> InReach(r)
    BY HeapUntouched, SameReach
  <2>2. \A k : InReach(calls[k])' <=> InReach(calls'[k])
    BY HeapUntouched, SameReach DEF InReach, IsArray
  <2> QED BY <2>1, <2>2 DEF ReachInvariant
<1>1. CASE UNCHANGED allVars
  BY <1>1 DEF allVars, ReachInvariant
<1>2. CASE StartGC
  <2>1. gcpc' = "mark" /\ marked' = {} /\ calls' = << >> /\ Len(calls') = 0
    BY <1>2 DEF StartGC, heapVars, MarksAhead
  <2>2. \A k \in 1 .. 0 : FALSE
    OBVIOUS
  <2> QED BY <2>1, <2>2
<1>3. CASE MarkRoot
  <2>1. gcpc = "mark" /\ calls = << >> /\ root \in 1 .. Len(Roots) /\ gcpc' \in {"mark", "crashed"}
    BY <1>3, RootsType DEF MarkRoot, TypeOK, Enter
  <2>2. (\A s \in marked : MayReach(s)) /\ (\A k \in 1 .. Len(calls) : InReach(calls[k]))
    BY <2>1 DEF ReachInvariant
  <2>3. Roots[root] \in Slots => MayReach(Roots[root])
    BY <2>1, ReachLemma DEF StackSlots
  <2>4. PICK s : /\ s = Roots[root]
                 /\ \/ UNCHANGED <<marked, calls, gcpc>>
                    \/ /\ s \in Slots \ marked /\ IsArray(s)
                       /\ Enter(calls, Walk("array", s, {}))
                       /\ UNCHANGED marked
                    \/ /\ s \in Slots \ marked /\ ~IsArray(s)
                       /\ marked' = marked \cup {s}
                       /\ Enter(calls, Walk("fields", s, {}))
    BY <1>3 DEF MarkRoot, IS_OBJECT, IS_MARK
  <2>5. M
    BY <2>2, <2>3, <2>4
  <2>6. gcpc' # "crashed" => C
    <3>0. calls \in Seq(Record) /\ {} \in SUBSET Slots /\ \A x \in {} : MayReach(x)
      BY DEF TypeOK
    <3>1. CASE calls' = calls
      BY <2>2, <3>1
    <3>2. CASE s \in Slots /\ IsArray(s) /\ Enter(calls, Walk("array", s, {}))
      BY <2>2, <2>3, <2>4, <3>0, <3>2, EnterReach
    <3>3. CASE s \in Slots /\ ~IsArray(s) /\ Enter(calls, Walk("fields", s, {}))
      BY <2>2, <2>3, <2>4, <3>0, <3>3, EnterReach
    <3> QED BY <2>4, <3>1, <3>2, <3>3
  <2> QED BY <2>1, <2>5, <2>6
<1>4. CASE WalkField \/ WalkElement
  <2>1. gcpc = "mark" /\ calls # << >> /\ Top.i <= Bound(Top) /\ gcpc' \in {"mark", "crashed"}
    BY <1>4 DEF WalkField, WalkElement, Enter
  <2>2. (\A s \in marked : MayReach(s)) /\ (\A k \in 1 .. Len(calls) : InReach(calls[k]))
    BY <2>1 DEF ReachInvariant
  <2>3. /\ Len(calls) \in Nat \ {0} /\ Top \in Record /\ calls \in Seq(Record)
        /\ Advanced \in Seq(Record) /\ Len(Advanced) = Len(calls)
    BY <2>1, StackLemma DEF TypeOK
  <2>4. InReach(Top)
    BY <2>2, <2>3 DEF Top
  <2>5. \A k \in 1 .. Len(Advanced) : InReach(Advanced[k])
    BY <2>1, <2>2, <2>3, AdvancedSame DEF InReach
  <2>6. CASE WalkField
    <3>1. Top.fn = "fields" /\ ~IsArray(Top.obj)
      BY <2>4, <2>6 DEF WalkField, InReach
    <3>2. PICK s : /\ s \in Slots => s \in Reads(Top.obj)
                   /\ \/ calls' = Advanced /\ UNCHANGED <<marked, gcpc>>
                      \/ /\ s \in Slots \ marked /\ ~IsArray(s)
                         /\ marked' = marked \cup {s}
                         /\ Enter(Advanced, Walk("fields", s, {}))
                      \/ /\ s \in Slots \ marked /\ IsArray(s)
                         /\ Enter(Advanced, Walk("array", s, {s}))
                         /\ UNCHANGED marked
      <4>1. CASE ~Fields[ptr[Top.obj].cls][Top.i].ref
        <5>1. calls' = Advanced /\ UNCHANGED <<marked, gcpc>> /\ HeapSize \notin Slots
          BY <2>6, <4>1, HeapAssumption DEF WalkField, Slots
        <5> QED BY <5>1
      <4>2. CASE Fields[ptr[Top.obj].cls][Top.i].ref
        BY <2>1, <2>4, <2>6, <3>1, <4>2, IterationLemma DEF WalkField, IS_OBJECT, IS_MARK, InReach
      <4> QED BY <4>1, <4>2
    <3>3. s \in Slots => MayReach(s)
      BY <2>1, <2>4, <3>1, <3>2, IterationLemma, ReachLemma DEF InReach, MayFollow
    <3>4. M
      BY <2>2, <3>2, <3>3
    <3>5. gcpc' # "crashed" => C
      <4>1. CASE calls' = Advanced
        BY <2>5, <4>1
      <4>2. CASE s \in Slots /\ ~IsArray(s) /\ Enter(Advanced, Walk("fields", s, {}))
        BY <2>3, <2>5, <3>3, <4>2, EnterReach
      <4>3. CASE s \in Slots /\ IsArray(s) /\ Enter(Advanced, Walk("array", s, {s}))
        BY <2>3, <2>5, <3>3, <4>3, EnterReach
      <4> QED BY <3>2, <4>1, <4>2, <4>3
    <3> QED BY <2>1, <3>4, <3>5
  <2>7. CASE WalkElement
    <3>1. Top.fn = "array" /\ IsArray(Top.obj) /\ marked' = marked
      BY <2>4, <2>7 DEF WalkElement, InReach, heapVars
    <3>2. PICK e : /\ e \in Slots /\ e \in Elements(Top.obj) /\ Top.obj \in Slots
                   /\ \/ calls' = Advanced
                      \/ ~IsArray(e) /\ Enter(Advanced, Walk("fields", e, {Top.obj, e}))
      BY <2>1, <2>4, <2>7, <3>1, IterationLemma DEF WalkElement, InReach
    <3>3. MayReach(e) /\ MayReach(Top.obj)
      BY <2>4, <3>1, <3>2, ReachLemma DEF InReach, MayFollow
    <3>4. gcpc' # "crashed" => C
      <4>1. CASE calls' = Advanced
        BY <2>5, <4>1
      <4>2. CASE ~IsArray(e) /\ Enter(Advanced, Walk("fields", e, {Top.obj, e}))
        <5>1. {Top.obj, e} \in SUBSET Slots /\ \A x \in {Top.obj, e} : MayReach(x)
          BY <3>2, <3>3
        <5> QED BY <2>3, <2>5, <3>2, <3>3, <4>2, <5>1, EnterReach
      <4> QED BY <3>2, <4>1, <4>2
    <3> QED BY <2>1, <2>2, <3>1, <3>4
  <2> QED BY <1>4, <2>6, <2>7
<1>5. CASE Return
  <2>1. gcpc = "mark" /\ calls # << >> /\ marked' = marked \cup Top.ret /\ calls' = Below /\ gcpc' = "mark"
    BY <1>5 DEF Return
  <2>2. (\A s \in marked : MayReach(s)) /\ (\A k \in 1 .. Len(calls) : InReach(calls[k]))
    BY <2>1 DEF ReachInvariant
  <2>3. /\ Len(calls) \in Nat \ {0} /\ Len(Below) = Len(calls) - 1
        /\ \A k \in 1 .. Len(calls) - 1 : Below[k] = calls[k]
    BY <2>1, StackLemma DEF TypeOK
  <2>4. InReach(Top)
    BY <2>2, <2>3 DEF Top
  <2>5. C
    BY <2>1, <2>2, <2>3
  <2> QED BY <2>1, <2>2, <2>4, <2>5 DEF InReach
<1>6. CASE FinishMark
  <2>1. gcpc = "mark" /\ gcpc' = "sweep" /\ marked' = marked /\ used' \in SUBSET Slots /\ hand' = 0
    BY <1>6 DEF FinishMark, heapVars, MarksAhead, TypeOK
  <2> QED BY <2>1 DEF ReachInvariant, Slots
<1>7. CASE Sweep
  <2>1. /\ gcpc = "sweep" /\ gcpc' = "sweep" /\ hand \in Slots /\ hand' = hand + 1
        /\ marked' \subseteq marked /\ used' \subseteq used
        /\ hand \in used' => hand \in marked
    BY <1>7 DEF Sweep, Unmark, Frees
  <2>2. (\A s \in marked : MayReach(s)) /\ (\A s \in used : s < hand => MayReach(s)) /\ used \subseteq Slots
    BY <2>1 DEF ReachInvariant, TypeOK
  <2>3. \A s \in Slots : s < hand + 1 => s < hand \/ s = hand
    BY <2>1 DEF Slots
  <2> QED BY <2>1, <2>2, <2>3
<1>8. CASE EndGC
  BY <1>8 DEF EndGC
<1> QED BY <1>1, <1>2, <1>3, <1>4, <1>5, <1>6, <1>7, <1>8 DEF GcNext, Collect

---------------------------------------------------------------------------
(* A walk deeper than HeapSize * (HeapSize + 1) records has met two        *)
(* records with the same object and no fresh walk after the first; between *)
(* them arrays and elements alternate: a cycle.                            *)
LEMMA DeepWalkCycles ==
  ASSUME NEW cs \in Seq(Record), NEW m, DepthOK(cs, m),
         Len(cs) > (HeapSize + 1) * HeapSize
  PROVE  ElementCycle
<1> USE HeapAssumption
<1> DEFINE n == Len(cs)
           G(k) == {cs[j].obj : j \in {i \in 1 .. k : Fresh(cs[i])}}
           f == [k \in 1 .. n |-> <<Cardinality(G(k)), cs[k].obj>>]
           C == (0 .. HeapSize) \X Slots
<1>1. n \in Nat /\ \A k \in 1 .. n : cs[k] \in Record /\ cs[k].obj \in Slots /\ cs[k].fn \in {"fields", "array"}
  <2>1. n \in Nat /\ \A k \in 1 .. n : cs[k] \in Record
    BY LenProperties, ElementOfSeq
  <2> QED BY <2>1 DEF Record
<1>2. /\ IsFiniteSet(Slots) /\ Cardinality(Slots) = HeapSize
      /\ IsFiniteSet(C) /\ Cardinality(C) = (HeapSize + 1) * HeapSize
  <2>1. IsFiniteSet(0 .. HeapSize - 1) /\ IsFiniteSet(0 .. HeapSize)
    <3>1. 0 \in Int /\ HeapSize \in Int /\ HeapSize - 1 \in Int
      OBVIOUS
    <3> QED BY <3>1, FS_Interval
  <2>2. Cardinality(0 .. HeapSize - 1) = IF 0 > HeapSize - 1 THEN 0 ELSE HeapSize - 1 - 0 + 1
    BY FS_Interval
  <2>3. Cardinality(0 .. HeapSize) = IF 0 > HeapSize THEN 0 ELSE HeapSize - 0 + 1
    BY FS_Interval
  <2>4. Cardinality(0 .. HeapSize - 1) = HeapSize /\ Cardinality(0 .. HeapSize) = HeapSize + 1
    BY <2>2, <2>3
  <2> QED BY <2>1, <2>4, FS_Product DEF Slots
<1>3. \A k \in 1 .. n : G(k) \subseteq Slots /\ IsFiniteSet(G(k)) /\ Cardinality(G(k)) \in 0 .. HeapSize
  <2> TAKE k \in 1 .. n
  <2>1. G(k) \subseteq Slots
    BY <1>1
  <2>2. IsFiniteSet(G(k)) /\ Cardinality(G(k)) <= HeapSize
    BY <1>2, <2>1, FS_Subset
  <2> QED BY <2>1, <2>2, FS_CardinalityType
<1>4. f \in [1 .. n -> C]
  BY <1>1, <1>3
<1>5. IsFiniteSet(1 .. n) /\ Cardinality(1 .. n) = n
  <2>0. n \in Nat /\ n \in Int /\ 1 \in Int
    BY <1>1
  <2> HIDE DEF n
  <2>1. IsFiniteSet(1 .. n) /\ Cardinality(1 .. n) = IF 1 > n THEN 0 ELSE n - 1 + 1
    BY <2>0, FS_Interval
  <2> QED BY <2>0, <2>1
<1>6. PICK k \in 1 .. n, l \in 1 .. n : k < l /\ f[k] = f[l]
  <2>1. Cardinality(C) < Cardinality(1 .. n)
    BY <1>2, <1>5
  <2>2. \E x, y \in 1 .. n : x # y /\ f[x] = f[y]
    <3>1. IsFiniteSet(1 .. n) /\ IsFiniteSet(C)
      BY <1>2, <1>5
    <3> DEFINE P == 1 .. n
    <3>2. f \in [P -> C] /\ IsFiniteSet(P) /\ Cardinality(C) < Cardinality(P)
      BY <1>4, <2>1, <3>1
    <3> HIDE DEF f, C, P
    <3>3. \E x, y \in P : x # y /\ f[x] = f[y]
      BY <3>1, <3>2, FS_PigeonHole
    <3> QED BY <3>3 DEF P
  <2> HIDE DEF f
  <2> QED BY <1>1, <2>2
<1>7. Cardinality(G(k)) = Cardinality(G(l)) /\ cs[k].obj = cs[l].obj
  BY <1>6
<1>8. G(k) = G(l)
  <2>1. G(k) \subseteq G(l)
    BY <1>1, <1>6
  <2> HIDE DEF G
  <2> QED BY <1>3, <1>7, <2>1, FS_Subset
<1>9. \A j \in k + 1 .. l : j \in 1 .. n /\ ~Fresh(cs[j])
  <2> SUFFICES ASSUME NEW j \in k + 1 .. l, Fresh(cs[j])
               PROVE  FALSE
    BY <1>1
  <2>1. j \in 1 .. l /\ j \in 1 .. n /\ j > k
    BY <1>1
  <2>2. cs[j].obj \in G(k)
    BY <1>8, <2>1
  <2>3. PICK i \in 1 .. k : Fresh(cs[i]) /\ cs[i].obj = cs[j].obj
    BY <2>2
  <2>4. i \in 1 .. n /\ i # j
    BY <1>1, <2>1
  <2> QED BY <2>1, <2>3, <2>4 DEF DepthOK
<1> HIDE DEF n, G, f, C
<1>10. \A j \in 1 .. n : Entered(cs, j)
  BY DEF DepthOK, n
(* After the record k, array records and records of their elements take turns. *)
<1>11. ASSUME NEW j \in k .. l - 1, cs[j].fn = "array"
       PROVE  /\ j + 1 \in k + 1 .. l /\ cs[j + 1].fn = "fields"
              /\ cs[j + 1].obj \in Elements(cs[j].obj) /\ ~IsArray(cs[j + 1].obj)
  <2>1. j \in 1 .. n /\ j + 1 \in 1 .. n /\ j + 1 \in k + 1 .. l /\ (j + 1) - 1 = j /\ j + 1 > 1
    BY <1>1
  <2>2. Entered(cs, j + 1) /\ ~Fresh(cs[j + 1]) /\ cs[j + 1].fn \in {"fields", "array"}
    BY <1>1, <1>9, <1>10, <2>1
  <2> QED BY <1>11, <2>1, <2>2 DEF Entered
<1>12. ASSUME NEW j \in k .. l - 1, cs[j].fn = "fields"
       PROVE  j + 1 \in k + 1 .. l /\ cs[j + 1].fn = "array" /\ cs[j + 1].obj \in Reads(cs[j].obj)
  <2>1. j \in 1 .. n /\ j + 1 \in 1 .. n /\ j + 1 \in k + 1 .. l /\ (j + 1) - 1 = j /\ j + 1 > 1
    BY <1>1
  <2>2. Entered(cs, j + 1) /\ ~Fresh(cs[j + 1]) /\ cs[j + 1].fn \in {"fields", "array"}
    BY <1>1, <1>9, <1>10, <2>1
  <2> QED BY <1>12, <2>1, <2>2 DEF Entered
<1>13. \A j \in 1 .. n : (cs[j].fn = "array") <=> IsArray(cs[j].obj)
  BY <1>10 DEF Entered
<1>14. cs[k].fn = cs[l].fn /\ k \in 1 .. n /\ l \in 1 .. n
  BY <1>1, <1>7, <1>13
<1> DEFINE S == {cs[j].obj : j \in {i \in k .. l - 1 : cs[i].fn = "array"}}
<1>15. S \in SUBSET {s \in Slots : IsArray(s)}
  BY <1>1, <1>13
<1>16. \A j \in k .. l : cs[j].fn = "array" => cs[j].obj \in S
  <2> TAKE j \in k .. l
  <2> HAVE cs[j].fn = "array"
  <2>1. CASE j \in k .. l - 1
    BY <2>1
  <2>2. CASE j = l
    <3>1. k \in k .. l - 1 /\ cs[k].fn = "array" /\ cs[k].obj = cs[l].obj
      BY <1>6, <1>7, <1>14, <2>2
    <3> QED BY <2>2, <3>1
  <2> QED BY <1>1, <2>1, <2>2
<1>17. S # {}
  <2>1. CASE cs[k].fn = "array"
    <3>1. k \in k .. l
      BY <1>6
    <3> QED BY <1>16, <2>1, <3>1
  <2>2. CASE cs[k].fn = "fields"
    <3>1. cs[k + 1].fn = "array" /\ k + 1 \in k .. l
      BY <1>6, <1>12, <2>2
    <3> QED BY <1>16, <3>1
  <2> QED BY <1>1, <1>14, <2>1, <2>2
<1>18. ASSUME NEW a \in S
       PROVE  \E e \in Elements(a) : ~IsArray(e) /\ Reads(e) \cap S # {}
  <2>1. PICK j \in k .. l - 1 : cs[j].fn = "array" /\ cs[j].obj = a
    OBVIOUS
  <2>2. /\ j + 1 \in k + 1 .. l /\ cs[j + 1].fn = "fields"
        /\ cs[j + 1].obj \in Elements(a) /\ ~IsArray(cs[j + 1].obj)
    BY <1>11, <2>1
  <2>3. CASE j + 1 < l
    <3>1. j + 1 \in k .. l - 1
      BY <2>2, <2>3
    <3>2. (j + 1) + 1 \in k + 1 .. l /\ cs[(j + 1) + 1].fn = "array" /\ cs[(j + 1) + 1].obj \in Reads(cs[j + 1].obj)
      BY <1>12, <2>2, <3>1
    <3>3. (j + 1) + 1 \in k .. l
      BY <3>2
    <3>4. cs[(j + 1) + 1].obj \in S
      BY <1>16, <3>2, <3>3
    <3> QED BY <2>2, <3>2, <3>4
  <2>4. CASE j + 1 = l
    <3>1. cs[k].fn = "fields" /\ cs[k].obj = cs[j + 1].obj
      BY <1>7, <1>14, <2>2, <2>4
    <3>2. k \in k .. l - 1 /\ k + 1 \in k .. l
      BY <1>6
    <3>3. cs[k + 1].fn = "array" /\ cs[k + 1].obj \in Reads(cs[k].obj)
      BY <1>12, <3>1, <3>2
    <3>4. cs[k + 1].obj \in S
      BY <1>16, <3>2, <3>3
    <3> QED BY <2>2, <3>1, <3>3, <3>4
  <2> QED BY <2>2, <2>3, <2>4
<1> HIDE DEF S
<1> QED BY <1>15, <1>17, <1>18 DEF ElementCycle

(* Popped, or moved on, the records keep the invariant of the depth.       *)
LEMMA SameDepth ==
  ASSUME NEW cs \in Seq(Record), NEW ds \in Seq(Record), NEW m, NEW d, DepthOK(cs, m),
         m \subseteq d, Len(ds) <= Len(cs),
         \A k \in 1 .. Len(ds) : ds[k].fn = cs[k].fn /\ ds[k].obj = cs[k].obj /\ ds[k].ret = cs[k].ret
  PROVE  DepthOK(ds, d)
<1>1. Len(ds) \in Nat /\ Len(cs) \in Nat /\ \A k \in 1 .. Len(ds) : k \in 1 .. Len(cs)
  BY LenProperties
<1>2. \A k \in 1 .. Len(ds) : Fresh(ds[k]) <=> Fresh(cs[k])
  BY DEF Fresh
<1>3. ASSUME NEW k \in 1 .. Len(ds)
      PROVE  Entered(ds, k)
  <2>1. Entered(cs, k)
    BY <1>1 DEF DepthOK
  <2>2. k > 1 => ds[k - 1].fn = cs[k - 1].fn /\ ds[k - 1].obj = cs[k - 1].obj
    BY <1>1
  <2> QED BY <1>2, <2>1, <2>2 DEF Entered
<1> QED BY <1>1, <1>2, <1>3 DEF DepthOK

(* A new record keeps the invariant of the depth, if it is fresh for an    *)
(* object that was not marked, or entered from the record below it.        *)
LEMMA PushDepth ==
  ASSUME NEW base \in Seq(Record), NEW m, NEW d, DepthOK(base, m), m \subseteq d,
         NEW fn \in {"fields", "array"}, NEW s \in Slots, NEW R \in SUBSET Slots,
         Enter(base, Walk(fn, s, R)), (fn = "array") <=> IsArray(s),
         \/ fn = "fields" /\ R = {} /\ s \in d /\ s \notin m
         \/ /\ fn = "fields" /\ R # {} /\ Len(base) > 0
            /\ base[Len(base)].fn = "array" /\ s \in Elements(base[Len(base)].obj)
         \/ /\ fn = "array"
            /\ Len(base) > 0 => base[Len(base)].fn = "fields" /\ s \in Reads(base[Len(base)].obj)
  PROVE  gcpc' # "crashed" => DepthOK(calls', d)
<1> HAVE gcpc' # "crashed"
<1> DEFINE n == Len(base)
<1>1. /\ n \in Nat /\ Len(calls') = n + 1
      /\ \A k \in 1 .. n : calls'[k] = base[k]
      /\ calls'[n + 1] = Walk(fn, s, R)
  BY WalkType, EnterLemma, LenProperties
<1>2. calls'[n + 1].fn = fn /\ calls'[n + 1].obj = s /\ calls'[n + 1].ret = R
  BY <1>1 DEF Walk
<1>3. \A k \in 1 .. n : Entered(base, k) /\ (Fresh(base[k]) => base[k].obj \in m)
  BY DEF DepthOK
<1>4. \A k \in 1 .. n + 1 : k \in 1 .. n \/ k = n + 1
  BY <1>1
<1>5. ASSUME NEW k \in 1 .. n
      PROVE  Entered(calls', k) /\ calls'[k] = base[k]
  <2>1. k > 1 => calls'[k - 1] = base[k - 1]
    BY <1>1
  <2>2. calls'[k] = base[k]
    BY <1>1
  <2> QED BY <1>3, <2>1, <2>2 DEF Entered
<1>6. Entered(calls', n + 1)
  <2>1. n > 0 => calls'[n] = base[n]
    BY <1>1
  <2>2. (n + 1) - 1 = n /\ (n + 1 > 1 <=> n > 0)
    BY <1>1
  <2> DEFINE q == n + 1
  <2>3. q - 1 = n /\ (q > 1 <=> n > 0) /\ calls'[q].fn = fn /\ calls'[q].obj = s /\ calls'[q].ret = R
    BY <1>2, <2>2
  <2> HIDE DEF q
  <2>4. Entered(calls', q)
    BY <2>1, <2>3 DEF Entered, Fresh, n
  <2> QED BY <2>4 DEF q
<1>7. Fresh(calls'[n + 1]) => s \in d /\ s \notin m
  BY <1>2 DEF Fresh
<1>8. \A k \in 1 .. n + 1 : Entered(calls', k) /\ (Fresh(calls'[k]) => calls'[k].obj \in d)
  <2> TAKE k \in 1 .. n + 1
  <2>1. CASE k \in 1 .. n
    BY <1>3, <1>5, <2>1
  <2>2. CASE k = n + 1
    BY <1>2, <1>6, <1>7, <2>2
  <2> QED BY <1>4, <2>1, <2>2
<1>9. \A k, l \in 1 .. n + 1 :
        Fresh(calls'[k]) /\ Fresh(calls'[l]) /\ calls'[k].obj = calls'[l].obj => k = l
  <2> TAKE k, l \in 1 .. n + 1
  <2> HAVE Fresh(calls'[k]) /\ Fresh(calls'[l]) /\ calls'[k].obj = calls'[l].obj
  <2>1. CASE k \in 1 .. n /\ l \in 1 .. n
    <3>1. calls'[k] = base[k] /\ calls'[l] = base[l]
      BY <1>5, <2>1
    <3> QED BY <2>1, <3>1 DEF DepthOK
  <2>2. CASE k \in 1 .. n /\ l = n + 1
    BY <1>2, <1>3, <1>5, <1>7, <2>2
  <2>3. CASE k = n + 1 /\ l \in 1 .. n
    BY <1>2, <1>3, <1>5, <1>7, <2>3
  <2> QED BY <1>4, <2>1, <2>2, <2>3
<1> HIDE DEF n
<1> QED BY <1>1, <1>8, <1>9 DEF DepthOK

(* Every step of the collector keeps the depth in bounds, or crashes on a  *)
(* cycle.                                                                  *)
LEMMA DepthStep ==
  ASSUME MaxCalls > (HeapSize + 1) * HeapSize,
         TypeOK, DepthInvariant, CrashNeedsElementCycle, [GcNext]_allVars
  PROVE  DepthInvariant' /\ CrashNeedsElementCycle'
<1> USE HeapAssumption
<1> SUFFICES /\ gcpc' = "mark" => DepthOK(calls', marked')
             /\ gcpc' = "crashed" => ElementCycle
  <2>1. /\ \A s : Elements(s)' = Elements(s)
        /\ \A s : Reads(s)' = Reads(s)
        /\ \A s : IsArray(s)' <=> IsArray(s)
    BY HeapUntouched, SameReach DEF IsArray
  <2>2. ElementCycle' <=> ElementCycle
    BY <2>1 DEF ElementCycle
  <2>3. \A k : Entered(calls, k)' <=> Entered(calls', k)
    BY HeapUntouched DEF Entered, Fresh, IsArray, Elements, Reads, ReadField
  <2>4. DepthOK(calls, marked)' <=> DepthOK(calls', marked')
    BY <2>3 DEF DepthOK, Fresh
  <2> QED BY <2>2, <2>4 DEF DepthInvariant, CrashNeedsElementCycle
<1>0. ASSUME NEW base \in Seq(Record), NEW m, DepthOK(base, m), NEW r, Enter(base, r), gcpc # "crashed",
             gcpc' = "crashed"
      PROVE  ElementCycle
  <2>1. ~(Len(base) < MaxCalls)
    BY <1>0 DEF Enter
  <2>2. Len(base) > (HeapSize + 1) * HeapSize
    BY <2>1, LenProperties
  <2> QED BY <1>0, <2>2, DeepWalkCycles
<1>1. CASE UNCHANGED allVars
  BY <1>1 DEF allVars, DepthInvariant, CrashNeedsElementCycle
<1>2. CASE StartGC
  <2>1. gcpc' = "mark" /\ calls' = << >> /\ Len(calls') = 0
    BY <1>2 DEF StartGC
  <2>2. \A k \in 1 .. 0 : FALSE
    OBVIOUS
  <2> QED BY <2>1, <2>2 DEF DepthOK
<1>3. CASE MarkRoot
  <2>1. gcpc = "mark" /\ calls = << >> /\ Len(calls) = 0 /\ calls \in Seq(Record) /\ gcpc' \in {"mark", "crashed"}
    BY <1>3 DEF MarkRoot, TypeOK, Enter
  <2>2. DepthOK(calls, marked)
    BY <2>1 DEF DepthInvariant
  <2>3. PICK s : \/ UNCHANGED <<marked, calls, gcpc>>
                 \/ /\ s \in Slots \ marked /\ IsArray(s)
                    /\ Enter(calls, Walk("array", s, {}))
                    /\ UNCHANGED marked
                 \/ /\ s \in Slots \ marked /\ ~IsArray(s)
                    /\ marked' = marked \cup {s}
                    /\ Enter(calls, Walk("fields", s, {}))
    BY <1>3 DEF MarkRoot, IS_OBJECT, IS_MARK
  <2>4. CASE UNCHANGED <<marked, calls, gcpc>>
    BY <2>1, <2>2, <2>4
  <2>5. CASE s \in Slots \ marked /\ IsArray(s) /\ Enter(calls, Walk("array", s, {})) /\ UNCHANGED marked
    <3>1. {} \in SUBSET Slots /\ ~(Len(calls) > 0)
      BY <2>1
    <3>2. gcpc' # "crashed" => DepthOK(calls', marked')
      BY <2>1, <2>2, <2>5, <3>1, PushDepth
    <3> QED BY <1>0, <2>1, <2>2, <2>5, <3>2
  <2>6. CASE /\ s \in Slots \ marked /\ ~IsArray(s) /\ marked' = marked \cup {s}
             /\ Enter(calls, Walk("fields", s, {}))
    <3>1. {} \in SUBSET Slots /\ marked \subseteq marked' /\ s \in marked'
      BY <2>6
    <3>2. gcpc' # "crashed" => DepthOK(calls', marked')
      BY <2>1, <2>2, <2>6, <3>1, PushDepth
    <3> QED BY <1>0, <2>1, <2>2, <2>6, <3>2
  <2> QED BY <2>3, <2>4, <2>5, <2>6
<1>4. CASE WalkField \/ WalkElement
  <2>1. gcpc = "mark" /\ calls # << >> /\ Top.i <= Bound(Top) /\ gcpc' \in {"mark", "crashed"} /\ calls \in Seq(Record)
    BY <1>4 DEF WalkField, WalkElement, Enter, TypeOK
  <2>2. DepthOK(calls, marked)
    BY <2>1 DEF DepthInvariant
  <2>3. /\ Len(calls) \in Nat \ {0} /\ Top \in Record /\ Top = calls[Len(calls)]
        /\ Advanced \in Seq(Record) /\ Len(Advanced) = Len(calls)
    BY <2>1, StackLemma DEF Top
  <2>4. ((Top.fn = "array") <=> IsArray(Top.obj)) /\ Top.obj \in Slots /\ Top.fn \in {"fields", "array"}
    BY <2>2, <2>3 DEF DepthOK, Entered, Record
  <2>5. DepthOK(Advanced, marked)
    <3>1. \A k \in 1 .. Len(Advanced) :
            Advanced[k].fn = calls[k].fn /\ Advanced[k].obj = calls[k].obj /\ Advanced[k].ret = calls[k].ret
      BY <2>1, <2>3, AdvancedSame
    <3>2. Len(Advanced) <= Len(calls)
      BY <2>3
    <3> QED BY <2>1, <2>2, <2>3, <3>1, <3>2, SameDepth
  <2>6. Advanced[Len(Advanced)].fn = Top.fn /\ Advanced[Len(Advanced)].obj = Top.obj /\ Len(Advanced) > 0
    <3>1. Len(calls) \in 1 .. Len(calls)
      BY <2>3
    <3> QED BY <2>1, <2>3, <3>1, AdvancedSame
  <2>7. CASE WalkField
    <3>1. Top.fn = "fields" /\ ~IsArray(Top.obj)
      BY <2>4, <2>7 DEF WalkField
    <3>2. PICK s : /\ s \in Slots => s \in Reads(Top.obj)
                   /\ \/ calls' = Advanced /\ UNCHANGED <<marked, gcpc>>
                      \/ /\ s \in Slots \ marked /\ ~IsArray(s)
                         /\ marked' = marked \cup {s}
                         /\ Enter(Advanced, Walk("fields", s, {}))
                      \/ /\ s \in Slots \ marked /\ IsArray(s)
                         /\ Enter(Advanced, Walk("array", s, {s}))
                         /\ UNCHANGED marked
      <4>1. CASE ~Fields[ptr[Top.obj].cls][Top.i].ref
        <5>1. calls' = Advanced /\ UNCHANGED <<marked, gcpc>> /\ HeapSize \notin Slots
          BY <2>7, <4>1 DEF WalkField, Slots
        <5> QED BY <5>1
      <4>2. CASE Fields[ptr[Top.obj].cls][Top.i].ref
        BY <2>1, <2>4, <2>7, <3>1, <4>2, IterationLemma DEF WalkField, IS_OBJECT, IS_MARK
      <4> QED BY <4>1, <4>2
    <3>3. CASE calls' = Advanced /\ UNCHANGED <<marked, gcpc>>
      BY <2>1, <2>5, <3>3
    <3>4. CASE /\ s \in Slots \ marked /\ ~IsArray(s) /\ marked' = marked \cup {s}
               /\ Enter(Advanced, Walk("fields", s, {}))
      <4>1. {} \in SUBSET Slots /\ marked \subseteq marked' /\ s \in marked'
        BY <3>4
      <4>2. gcpc' # "crashed" => DepthOK(calls', marked')
        BY <2>3, <2>5, <3>4, <4>1, PushDepth
      <4> QED BY <1>0, <2>1, <2>3, <2>5, <3>4, <4>2
    <3>5. CASE s \in Slots \ marked /\ IsArray(s) /\ Enter(Advanced, Walk("array", s, {s})) /\ UNCHANGED marked
      <4>1. {s} \in SUBSET Slots /\ marked \subseteq marked' /\ s \in Reads(Advanced[Len(Advanced)].obj)
        BY <2>6, <3>2, <3>5
      <4>2. gcpc' # "crashed" => DepthOK(calls', marked')
        BY <2>3, <2>5, <2>6, <3>1, <3>5, <4>1, PushDepth
      <4> QED BY <1>0, <2>1, <2>3, <2>5, <3>5, <4>2
    <3> QED BY <3>2, <3>3, <3>4, <3>5
  <2>8. CASE WalkElement
    <3>1. Top.fn = "array" /\ IsArray(Top.obj) /\ marked' = marked
      BY <2>4, <2>8 DEF WalkElement, heapVars
    <3>2. PICK e : /\ e \in Slots /\ e \in Elements(Top.obj)
                   /\ \/ calls' = Advanced /\ gcpc' = gcpc
                      \/ ~IsArray(e) /\ Enter(Advanced, Walk("fields", e, {Top.obj, e}))
      BY <2>1, <2>4, <2>8, <3>1, IterationLemma DEF WalkElement
    <3>3. CASE calls' = Advanced /\ gcpc' = gcpc
      BY <2>1, <2>5, <3>1, <3>3
    <3>4. CASE ~IsArray(e) /\ Enter(Advanced, Walk("fields", e, {Top.obj, e}))
      <4>1. {Top.obj, e} \in SUBSET Slots /\ {Top.obj, e} # {} /\ e \in Elements(Advanced[Len(Advanced)].obj)
        BY <2>4, <2>6, <3>2
      <4>2. gcpc' # "crashed" => DepthOK(calls', marked')
        <5>1. PICK R \in SUBSET Slots : R = {Top.obj, e}
          BY <4>1
        <5>2. R # {} /\ Enter(Advanced, Walk("fields", e, R)) /\ marked \subseteq marked
          BY <3>4, <5>1
        <5>3. Advanced[Len(Advanced)].fn = "array"
          BY <2>6, <3>1
        <5>4. gcpc' # "crashed" => DepthOK(calls', marked)
          BY <2>3, <2>5, <2>6, <3>2, <3>4, <4>1, <5>2, <5>3, PushDepth
        <5> QED BY <3>1, <5>4
      <4> QED BY <1>0, <2>1, <2>3, <2>5, <3>4, <4>2
    <3> QED BY <3>2, <3>3, <3>4
  <2> QED BY <1>4, <2>7, <2>8
<1>5. CASE Return
  <2>1. /\ gcpc = "mark" /\ calls # << >> /\ marked' = marked \cup Top.ret /\ calls' = Below /\ gcpc' = "mark"
        /\ calls \in Seq(Record)
    BY <1>5 DEF Return, TypeOK
  <2>2. DepthOK(calls, marked) /\ marked \subseteq marked'
    BY <2>1 DEF DepthInvariant
  <2>3. /\ Len(calls) \in Nat \ {0} /\ Below \in Seq(Record) /\ Len(Below) = Len(calls) - 1
        /\ \A k \in 1 .. Len(calls) - 1 : Below[k] = calls[k]
    BY <2>1, StackLemma
  <2>4. Len(Below) <= Len(calls)
    BY <2>3
  <2>5. \A k \in 1 .. Len(Below) : Below[k].fn = calls[k].fn /\ Below[k].obj = calls[k].obj /\ Below[k].ret = calls[k].ret
    BY <2>3
  <2>6. DepthOK(Below, marked')
    BY <2>1, <2>2, <2>3, <2>4, <2>5, SameDepth
  <2> QED BY <2>1, <2>6
<1>6. CASE FinishMark \/ Sweep \/ EndGC
  BY <1>6 DEF FinishMark, Sweep, EndGC
<1> QED BY <1>1, <1>2, <1>3, <1>4, <1>5, <1>6 DEF GcNext, Collect


---------------------------------------------------------------------------
(* The collector keeps its variables well-typed. *)
THEOREM GcTypeCorrect == GcSpec => []TypeOK
<1>1. GcInit => TypeOK
  BY DEF GcInit
<1>2. TypeOK /\ [GcNext]_allVars => TypeOK'
  BY GcStepType
<1> QED BY <1>1, <1>2, PTL DEF GcSpec

(* The marks stay ahead of the sweep. *)
LEMMA GcMarksAhead == GcSpec => []MarksAhead
<1>1. GcInit => MarksAhead
  BY DEF GcInit, MarksAhead
<1>2. TypeOK /\ MarksAhead /\ [GcNext]_allVars => MarksAhead'
  BY MarksStep
<1> QED BY <1>1, <1>2, GcTypeCorrect, PTL DEF GcSpec

(* No mark outlives the collection that set it. *)
THEOREM GcMarksClear == GcSpec => []MarksClear
<1>1. MarksAhead => MarksClear
  BY DEF MarksAhead, MarksClear
<1> QED BY <1>1, GcMarksAhead, PTL

(* With the static fields of every class last, the mark phase never loses  *)
(* an object.                                                              *)
THEOREM GcMarkInvariant ==
  ASSUME StaticsLast
  PROVE  GcSpec => []MarkInvariant
<1> DEFINE Inv == TypeOK /\ OffsetsOK /\ MarksAhead /\ MarkInvariant
<1>1. GcInit => Inv
  BY DEF GcInit, MarksAhead, MarkInvariant
<1>2. Inv /\ [GcNext]_allVars => Inv'
  BY GcStepType, OffsetsStep, MarksStep, MarkStep
<1> QED BY <1>1, <1>2, PTL DEF GcSpec

(* With the static fields of every class last, no collection frees an      *)
(* object the program can reach.                                           *)
THEOREM GcSparesAccessible ==
  ASSUME StaticsLast
  PROVE  GcSpec => []SparesAccessible
<1>1. GcInit => SparesAccessible
  BY DEF GcInit, SparesAccessible
<1>2. TypeOK /\ TypeOK' /\ MarksAhead /\ MarkInvariant /\ SparesAccessible /\ [GcNext]_allVars
      => SparesAccessible'
  BY SparesStep
<1> QED BY <1>1, <1>2, GcTypeCorrect, GcMarksAhead, GcMarkInvariant, PTL DEF GcSpec

(* The sweep leaves no garbage behind: a slot it has passed is used only   *)
(* if some stack word leads to it.                                         *)
THEOREM GcReclaimsGarbage == GcSpec => []ReclaimsGarbage
<1>1. GcInit => ReachInvariant
  BY DEF GcInit, ReachInvariant
<1>2. TypeOK /\ TypeOK' /\ MarksAhead /\ ReachInvariant /\ [GcNext]_allVars => ReachInvariant'
  BY ReachStep
<1>3. ReachInvariant => ReclaimsGarbage
  BY DEF ReachInvariant, ReclaimsGarbage
<1> QED BY <1>1, <1>2, <1>3, GcTypeCorrect, GcMarksAhead, PTL DEF GcSpec

(* With a C stack for HeapSize * (HeapSize + 1) records, the recursion of  *)
(* the mark phase outgrows it only on a cycle of arrays through their own  *)
(* elements.                                                               *)
THEOREM GcCrashNeedsElementCycle ==
  ASSUME MaxCalls > (HeapSize + 1) * HeapSize
  PROVE  GcSpec => []CrashNeedsElementCycle
<1>1. GcInit => DepthInvariant /\ CrashNeedsElementCycle
  BY DEF GcInit, DepthInvariant, CrashNeedsElementCycle
<1>2. TypeOK /\ DepthInvariant /\ CrashNeedsElementCycle /\ [GcNext]_allVars
      => DepthInvariant' /\ CrashNeedsElementCycle'
  BY DepthStep
<1> QED BY <1>1, <1>2, GcTypeCorrect, PTL DEF GcSpec
=============================================================================
