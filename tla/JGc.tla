-------------------------------- MODULE JGc --------------------------------
(***************************************************************************)
(* The garbage collector of the virtual machine (J_Gc.c) over the object   *)
(* heap of J_Memory.h.  The heap is a table of HeapSize slots; an object   *)
(* reference is the number of a slot.  jGC marks from the words of the     *)
(* extended stack and of the thread stack, then sweeps the table.          *)
(*                                                                         *)
(* The recursion of jWalkObjectsFields and walkArray is the sequence calls *)
(* of their activation records, so that one step of the model is one       *)
(* iteration of one of the C loops.                                        *)
(*                                                                         *)
(* A machine word is a slot number or HeapSize, which stands for every     *)
(* word that IS_OBJECT rejects: a large integer, a code address, a class   *)
(* pointer.  The model has the word size the code was written for: a J_Var *)
(* and a J_Object are both four bytes.                                     *)
(***************************************************************************)
EXTENDS Integers, Sequences, FiniteSets

CONSTANTS
  HeapSize,     \* vmhSize, the number of heap slots
  Classes,      \* the loaded classes (J_Class structures)
  NoClass,      \* the NULL class pointer: the mark of an array block
  Fields,       \* Fields[c]: the field table of c, in class-file order
  MaxCalls      \* bound: activation records that fit in the C stack

FieldDescr == [kind : {"inst", "const", "static"}, ref : BOOLEAN]

ASSUME HeapAssumption ==
  /\ HeapSize \in Nat \ {0}
  /\ MaxCalls \in Nat \ {0}
ASSUME ClassAssumption ==
  /\ NoClass \notin Classes
  /\ Fields \in [Classes -> Seq(FieldDescr)]

Slots == 0 .. HeapSize - 1
Word  == 0 .. HeapSize          \* HeapSize: any word that is no slot number

(***************************************************************************)
(* Class layout, as jParseFields leaves it.  A field that is not static    *)
(* takes the next offset of its class and counts in numVars.  The value    *)
(* cell var of the field table is a union: the offset of an instance       *)
(* field, the constant of a final field with a ConstantValue, or the       *)
(* current value of a static field.                                        *)
(***************************************************************************)
FieldIdx(c) == 1 .. Len(Fields[c])
Instance(c) == {j \in FieldIdx(c) : Fields[c][j].kind # "static"}
NumVars(c)  == Cardinality(Instance(c))
VarOffs(c, j) == Cardinality({k \in Instance(c) : k < j})
Cells == UNION {{c} \X FieldIdx(c) : c \in Classes}

ArrayTypes == {1, 2, 5}         \* of objects, of arrays, of plain values

(***************************************************************************)
(* A heap block: the class word, for arrays the type, and the data words.  *)
(* A class mirror is a block of a class with no data word at all: it is    *)
(* allocated before the class file is parsed, when numVars is still 0.     *)
(***************************************************************************)
Block == [cls : Classes \cup {NoClass}, type : {0} \cup ArrayTypes, words : Seq(Word)]
Object(c, ws) == [cls |-> c, type |-> 0, words |-> ws]
Mirror(c)     == Object(c, << >>)
Array(t, ws)  == [cls |-> NoClass, type |-> t, words |-> ws]

VARIABLES
  used, marked, \* the slots whose used, marked flag is set
  ptr,          \* ptr[s]: the block of slot s
  vmhTop,       \* the slot allocated or freed last, -1 before the first
  fvar,         \* fvar[<<c, j>>]: value cell of field j of class c
  exStack,      \* the words of the extended stack below exStackPtr
  thStack,      \* the words of the thread stack below thStackPtr
  gcpc,         \* where jGC is
  root,         \* the next stack word jGC_mark looks at
  calls,        \* activation records of the recursive walk, innermost last
  hand          \* the slot jGC_sweep looks at

heapVars  == <<used, marked, ptr, vmhTop>>
stackVars == <<exStack, thStack, fvar>>
gcVars    == <<gcpc, root, calls, hand>>
allVars   == <<used, marked, ptr, vmhTop, exStack, thStack, fvar, gcpc, root, calls, hand>>

IsArray(s) == ptr[s].cls = NoClass
RootsNoOperands == exStack \o SubSeq(thStack, 1, Len(thStack) - 3)  \* mutant
Roots == exStack \o thStack

IS_OBJECT(n) == n \in Slots
IS_MARK_ArraysOnly(n) == n \in marked /\ IsArray(n)     \* mutant
IS_MARK(n) == n \in marked

(***************************************************************************)
(* An activation record: the routine, the object it walks, the index it    *)
(* looks at next, and the slots its caller marks when it returns.          *)
(***************************************************************************)
Record == [fn : {"fields", "array"}, obj : Slots, i : Nat \ {0}, ret : SUBSET Slots]
WalkFromSecond(fn, s, ret) == [fn |-> fn, obj |-> s, i |-> 2, ret |-> ret]  \* mutant
Walk(fn, s, ret) == [fn |-> fn, obj |-> s, i |-> 1, ret |-> ret]
Top == calls[Len(calls)]
Below == SubSeq(calls, 1, Len(calls) - 1)
NotAdvanced == Append(Below, Top)   \* mutant
Advanced == Append(Below, [Top EXCEPT !.i = @ + 1])

BoundLessOne(r) ==    \* mutant
  IF r.fn = "fields" THEN NumVars(ptr[r.obj].cls) - 1
  ELSE IF ptr[r.obj].type = 1 THEN Len(ptr[r.obj].words) ELSE 0
\* The number of iterations of the loop of a record.
Bound(r) == IF r.fn = "fields" THEN NumVars(ptr[r.obj].cls)
            ELSE IF ptr[r.obj].type = 1 THEN Len(ptr[r.obj].words) ELSE 0

\* The words ptr[var.varOffs + 1] can yield: outside the block, anything.
ReadField(s, c, j) ==
  LET k == fvar[<<c, j>>] + 1
  IN  IF k \in 1 .. Len(ptr[s].words) THEN {ptr[s].words[k]} ELSE Word

\* Enter the walk r, or run out of C stack.
Enter(base, r) ==
  IF Len(base) < MaxCalls
  THEN calls' = Append(base, r) /\ gcpc' = gcpc
  ELSE calls' = base /\ gcpc' = "crashed"

---------------------------------------------------------------------------
(* jGC is called by allocateObject, when no slot is unused. *)
StartGC ==
  /\ gcpc = "idle"
  /\ used = Slots
  /\ gcpc' = "mark" /\ root' = 1 /\ calls' = << >> /\ hand' = 0
  /\ UNCHANGED <<heapVars, stackVars>>

(* One iteration of jGC_mark: a word of the stacks, taken for a reference. *)
MarkRoot ==
  /\ gcpc = "mark" /\ calls = << >> /\ root <= Len(Roots)
  /\ root' = root + 1
  /\ LET s == Roots[root] IN
       \/ /\ ~IS_OBJECT(s) \/ IS_MARK(s)
          /\ UNCHANGED <<marked, calls, gcpc>>
       \/ /\ IS_OBJECT(s) /\ ~IS_MARK(s) /\ IsArray(s)
          /\ Enter(calls, Walk("array", s, {}))
          /\ UNCHANGED marked
       \/ /\ IS_OBJECT(s) /\ ~IS_MARK(s) /\ ~IsArray(s)
          /\ marked' = marked \cup {s}
          /\ Enter(calls, Walk("fields", s, {}))
  /\ UNCHANGED <<used, ptr, vmhTop, stackVars, hand>>

(* One iteration of jWalkObjectsFields. *)
WalkField ==
  /\ gcpc = "mark" /\ calls # << >>
  /\ Top.fn = "fields" /\ Top.i <= Bound(Top)
  /\ LET c == ptr[Top.obj].cls IN
       \/ /\ ~Fields[c][Top.i].ref
          /\ calls' = Advanced
          /\ UNCHANGED <<marked, gcpc>>
       \/ /\ Fields[c][Top.i].ref
          /\ \E s \in ReadField(Top.obj, c, Top.i) :
               \/ /\ ~IS_OBJECT(s) \/ IS_MARK(s)
                  /\ calls' = Advanced
                  /\ UNCHANGED <<marked, gcpc>>
               \/ /\ IS_OBJECT(s) /\ ~IS_MARK(s) /\ ~IsArray(s)
                  /\ marked' = marked \cup {s}
                  /\ Enter(Advanced, Walk("fields", s, {}))
               \/ /\ IS_OBJECT(s) /\ ~IS_MARK(s) /\ IsArray(s)
                  /\ Enter(Advanced, Walk("array", s, {s}))
                  /\ UNCHANGED marked
  /\ UNCHANGED <<used, ptr, vmhTop, stackVars, root, hand>>

(* One iteration of walkArray: an element that is an array is passed over, *)
(* any other is walked whether it is marked or not.                        *)
WalkElement ==
  /\ gcpc = "mark" /\ calls # << >>
  /\ Top.fn = "array" /\ Top.i <= Bound(Top)
  /\ LET e == ptr[Top.obj].words[Top.i] IN
       \/ /\ IsArray(e)
          /\ calls' = Advanced
          /\ UNCHANGED gcpc
       \/ /\ ~IsArray(e)
          /\ Enter(Advanced, Walk("fields", e, {Top.obj, e}))
  /\ UNCHANGED <<heapVars, stackVars, root, hand>>

(* The end of a walk, and the marks its caller sets next. *)
Return ==
  /\ gcpc = "mark" /\ calls # << >>
  /\ Top.i > Bound(Top)
  /\ marked' = marked \cup Top.ret
  /\ calls' = Below
  /\ UNCHANGED <<used, ptr, vmhTop, stackVars, gcpc, root, hand>>

FinishMark ==
  /\ gcpc = "mark" /\ calls = << >> /\ root > Len(Roots)
  /\ gcpc' = "sweep"
  /\ UNCHANGED <<heapVars, stackVars, root, calls, hand>>

UnmarkLive(s) == marked         \* mutant: freeObject alone clears marks
Unmark(s) == marked \ {s}

TopAfterNext(s) == s + 1        \* mutant
TopAfterFree(s) == s

FreesObjects(s) == s \in used \ marked /\ ~IsArray(s)   \* mutant
Frees(s) == s \in used \ marked

(* One iteration of jGC_sweep, with freeObject. *)
Sweep ==
  /\ gcpc = "sweep" /\ hand \in Slots
  /\ IF Frees(hand)
     THEN used' = used \ {hand} /\ vmhTop' = TopAfterFree(hand)
     ELSE UNCHANGED <<used, vmhTop>>
  /\ marked' = Unmark(hand)
  /\ hand' = hand + 1
  /\ UNCHANGED <<ptr, stackVars, gcpc, root, calls>>

EndGC ==
  /\ gcpc = "sweep" /\ hand = HeapSize
  /\ gcpc' = "idle"
  /\ UNCHANGED <<heapVars, stackVars, root, calls, hand>>

Collect == MarkRoot \/ WalkField \/ WalkElement \/ Return \/ FinishMark \/ Sweep \/ EndGC

---------------------------------------------------------------------------
(* One collection of a heap that is full, as allocateObject finds it. *)
TypeOK ==
  /\ used \in SUBSET Slots
  /\ marked \in SUBSET Slots
  /\ ptr \in [Slots -> Block]
  /\ \A s \in Slots : ptr[s].type = 1 => ptr[s].words \in Seq(Slots)
  /\ vmhTop \in -1 .. HeapSize - 1
  /\ fvar \in [Cells -> Nat]
  /\ exStack \in Seq(Word)
  /\ thStack \in Seq(Word)
  /\ gcpc \in {"idle", "mark", "sweep", "crashed"}
  /\ root \in Nat \ {0}
  /\ calls \in Seq(Record)
  /\ hand \in 0 .. HeapSize

\* The value cell of an instance field holds its offset, always.
OffsetsOK == \A cj \in Cells :
  Fields[cj[1]][cj[2]].kind = "inst" => fvar[cj] = VarOffs(cj[1], cj[2])

GcInit ==
  /\ used = Slots /\ marked = {}
  /\ gcpc = "idle" /\ root = 1 /\ calls = << >> /\ hand = 0
  /\ TypeOK /\ OffsetsOK

GcNext == StartGC \/ Collect
GcSpec == GcInit /\ [][GcNext]_allVars

---------------------------------------------------------------------------
(***************************************************************************)
(* What the Java program can reach, against what the collector follows.    *)
(***************************************************************************)

\* The references an object holds in its instance fields.
FieldRefs(s) ==
  {ptr[s].words[VarOffs(ptr[s].cls, j) + 1] :
     j \in {k \in Instance(ptr[s].cls) :
              /\ Fields[ptr[s].cls][k].kind = "inst"
              /\ Fields[ptr[s].cls][k].ref
              /\ VarOffs(ptr[s].cls, k) < Len(ptr[s].words)}} \cap Slots

\* The elements of an array of objects.
Elements(s) == IF ptr[s].type = 1 THEN {ptr[s].words[i] : i \in 1 .. Len(ptr[s].words)} ELSE {}

(* Arrays are followed only where walkArray follows them: an element that  *)
(* is itself an array is not.  Roots are the objects on a stack, and the   *)
(* arrays of objects that have an element which is no array.               *)
Follows(s) == IF IsArray(s) THEN {e \in Elements(s) : ~IsArray(e)} ELSE FieldRefs(s)
StackSlots == {Roots[i] : i \in 1 .. Len(Roots)} \cap Slots
Held == {s \in StackSlots : ~IsArray(s) \/ Follows(s) # {}}

Accessible(s) ==
  \A S \in SUBSET Slots : Held \subseteq S /\ (\A x \in S : Follows(x) \subseteq S) => s \in S

(* All the collector may follow, misread words included. *)
Reads(s) == Slots \cap UNION {ReadField(s, ptr[s].cls, j) :
                             j \in {k \in 1 .. NumVars(ptr[s].cls) : Fields[ptr[s].cls][k].ref}}
MayFollow(s) == IF IsArray(s) THEN Elements(s) ELSE Reads(s)
MayReach(s) ==
  \A S \in SUBSET Slots : StackSlots \subseteq S /\ (\A x \in S : MayFollow(x) \subseteq S) => s \in S

\* A cycle of arrays of objects, each reached from an element of the one before.
ElementCycle ==
  \E S \in SUBSET {s \in Slots : IsArray(s)} :
    /\ S # {}
    /\ \A a \in S : \E e \in Elements(a) : ~IsArray(e) /\ Reads(e) \cap S # {}

\* Every class declares its static fields after its other fields.
StaticsLast == \A c \in Classes : \A j \in 1 .. NumVars(c) : Fields[c][j].kind # "static"

---------------------------------------------------------------------------
(* No object the program can still reach is freed: when the mark phase is  *)
(* over, each is marked, and stays so until the sweep passes over it.      *)
SparesAccessible ==
  /\ gcpc = "sweep" => \A s \in Slots : Accessible(s) => s \in used /\ (s >= hand => s \in marked)
  /\ gcpc = "idle"  => \A s \in Slots : Accessible(s) => s \in used

(* The sweep leaves no garbage behind: a slot it has passed is used only   *)
(* if some stack word leads to it.                                         *)
ReclaimsGarbage ==
  gcpc = "sweep" => \A s \in used : s < hand => MayReach(s)

(* Marks never outlive a collection: jWalkObjectsFields would take a stale *)
(* one for a visited object and skip what it refers to.                    *)
MarksClear == gcpc = "idle" => marked = {}

(* The recursion of the mark phase outgrows the C stack only on a cycle of *)
(* arrays through their own elements.                                      *)
CrashNeedsElementCycle == gcpc = "crashed" => ElementCycle

(* A collection ends, unless the arrays of objects form such a cycle. *)
CollectionEnds == gcpc = "mark" /\ ~ElementCycle ~> gcpc = "idle"

---------------------------------------------------------------------------
(***************************************************************************)
(* Why SparesAccessible holds: the invariant of the mark phase.            *)
(***************************************************************************)

\* What iteration j of the walk of s follows, of the references of Follows.
Edge(s, j) ==
  LET c == ptr[s].cls IN
  IF IsArray(s) THEN {e \in {ptr[s].words[j]} : ~IsArray(e)}
  ELSE IF /\ j \in Instance(c) /\ Fields[c][j].kind = "inst" /\ Fields[c][j].ref
          /\ VarOffs(c, j) < Len(ptr[s].words)
       THEN {ptr[s].words[VarOffs(c, j) + 1]} \cap Slots
       ELSE {}

\* The marks the record above record k sets when it returns.
Pending(cs, k) == IF k < Len(cs) THEN cs[k + 1].ret ELSE {}
Active(cs, s) == \E k \in 1 .. Len(cs) : cs[k].obj = s

\* A record has marked, or is about to mark, all it has followed.
RecordOK(cs, m, k) ==
  LET r == cs[k] IN
  /\ (r.fn = "array") <=> IsArray(r.obj)
  /\ r.ret \subseteq {r.obj} \cup (IF k > 1 THEN {cs[k - 1].obj} ELSE {})
  /\ \A j \in 1 .. r.i - 1 : j <= Bound(r) =>
       \A e \in Edge(r.obj, j) : /\ e \in m \cup Pending(cs, k)
                                 /\ IsArray(r.obj) => r.obj \in m \cup Pending(cs, k)

\* With the records cs, the marks m and the roots before r done.
ScanOK(cs, m, r) ==
  /\ \A k \in 1 .. Len(cs) : RecordOK(cs, m, k)
  /\ \A s \in m : Active(cs, s) \/ Follows(s) \subseteq m
  /\ \A n \in 1 .. Len(Roots) : n < r /\ Roots[n] \in Held =>
       Roots[n] \in m \/ (IsArray(Roots[n]) /\ Active(cs, Roots[n]))

(* The mark phase never loses an object: a marked slot is still being      *)
(* walked or has all it follows marked, and the roots already passed are   *)
(* marked or, an array, still being walked.                                *)
MarkInvariant == gcpc = "mark" => used = Slots /\ ScanOK(calls, marked, root)

\* The sweep clears the marks it passes.
MarksAhead ==
  /\ gcpc = "idle" => marked = {}
  /\ gcpc = "mark" => hand = 0
  /\ gcpc = "sweep" => \A s \in marked : s >= hand

---------------------------------------------------------------------------
(***************************************************************************)
(* Why ReclaimsGarbage and CrashNeedsElementCycle hold.                    *)
(***************************************************************************)

\* A record walks, and will mark, only what a stack word leads to.
InReach(r) ==
  /\ (r.fn = "array") <=> IsArray(r.obj)
  /\ MayReach(r.obj) /\ \A s \in r.ret : MayReach(s)

(* Nothing is marked that no stack word leads to, and what the sweep has    *)
(* passed and kept was marked.                                             *)
ReachInvariant ==
  /\ gcpc \in {"mark", "sweep"} => \A s \in marked : MayReach(s)
  /\ gcpc = "mark"  => \A k \in 1 .. Len(calls) : InReach(calls[k])
  /\ gcpc = "sweep" => \A s \in used : s < hand => MayReach(s)

\* A walk of fields whose caller marked the object just before.
Fresh(r) == r.fn = "fields" /\ r.ret = {}
(* Each record but the fresh ones was entered from an array, for one of    *)
(* its elements, or from an object with a reference to the array.          *)
Entered(cs, k) ==
  /\ (cs[k].fn = "array") <=> IsArray(cs[k].obj)
  /\ cs[k].fn = "fields" /\ ~Fresh(cs[k]) =>
       k > 1 /\ cs[k - 1].fn = "array" /\ cs[k].obj \in Elements(cs[k - 1].obj)
  /\ cs[k].fn = "array" /\ k > 1 =>
       cs[k - 1].fn = "fields" /\ cs[k].obj \in Reads(cs[k - 1].obj)
DepthOK(cs, m) ==
  /\ \A k \in 1 .. Len(cs) : Entered(cs, k) /\ (Fresh(cs[k]) => cs[k].obj \in m)
  /\ \A k, l \in 1 .. Len(cs) :
       Fresh(cs[k]) /\ Fresh(cs[l]) /\ cs[k].obj = cs[l].obj => k = l

(* No object is walked twice at a time but as the element of an array.     *)
DepthInvariant == gcpc = "mark" => DepthOK(calls, marked)

---------------------------------------------------------------------------
(***************************************************************************)
(* Claims of the comments of J_Gc.c that the collector does not meet.      *)
(***************************************************************************)
\* A slot that must be kept is marked until the sweep has passed it.
Kept(s) == gcpc = "sweep" /\ s >= hand => s \in marked

(* jGC, J_Gc.c:181: simple arrays, whose elements are plain values, are    *)
(* handled properly: one that a stack word refers to is kept.              *)
SparesSimpleArrays == \A s \in StackSlots : ptr[s].type = 5 => Kept(s)

(* jGC_mark, J_Gc.c:102: "Mark all accessible objects", those a static     *)
(* field refers to among them (null, slot 0, apart).                       *)
SparesStatics ==
  \A cj \in Cells :
    LET f == Fields[cj[1]][cj[2]]
    IN  f.kind = "static" /\ f.ref /\ fvar[cj] \in Slots \ {0} => Kept(fvar[cj])
=============================================================================
