------------------------------ MODULE JHeapProofs ------------------------------
(***************************************************************************)
(* Proofs about the heap at work, for every heap size, set of classes,     *)
(* program and stack size.  First, that everything is well typed and slot  *)
(* 0 stays null.  Then that what the program holds stays, for every class  *)
(* layout with the static fields last and every program without arrays,    *)
(* strings and static fields: no collection frees an object the program    *)
(* holds or can reach, no object is left with a reference to a freed slot, *)
(* and the heap is a heap of objects (JObjects).                           *)
(***************************************************************************)
EXTENDS JHeap, JGcProofs, WellFoundedInduction

---------------------------------------------------------------------------
(* Slot numbers are words; slot 0 is one, HeapSize is none.                *)
LEMMA SlotFacts ==
  /\ 0 \in Slots /\ Slots \subseteq Word /\ HeapSize \in Word /\ HeapSize \notin Slots
  /\ Slots \subseteq Nat /\ HeapSize \in Nat
BY HeapAssumption DEF Slots, Word

(* Slot numbers are words.                                                 *)
LEMMA SlotSeq ==
  ASSUME NEW q \in Seq(Slots)
  PROVE  q \in Seq(Word)
<1>1. Len(q) \in Nat /\ DOMAIN q = 1 .. Len(q) /\ q = [i \in 1 .. Len(q) |-> q[i]]
  BY LenProperties
<1>2. \A i \in 1 .. Len(q) : q[i] \in Word
  BY <1>1, ElementOfSeq, SlotFacts
<1> QED BY <1>1, <1>2

(* The zeroed words of a new block.                                        *)
LEMMA ZerosType ==
  ASSUME NEW n \in Nat
  PROVE  Zeros(n) \in Seq(Slots) /\ Zeros(n) \in Seq(Word) /\ Len(Zeros(n)) = n
         /\ \A i \in 1 .. n : Zeros(n)[i] = 0
BY SlotFacts DEF Zeros

(* The blocks allocateObject is asked for are blocks whose references are  *)
(* slot numbers.                                                           *)
LEMMA NewBlocks ==
  /\ \A c \in Classes : Instant(c) \in Block /\ RefsOfBlock(Instant(c)) /\ Instant(c).cls = c
                        /\ Instant(c).type = 0 /\ Instant(c).words = Zeros(NumVars(c))
  /\ \A c \in Classes : Mirror(c) \in Block /\ RefsOfBlock(Mirror(c)) /\ Mirror(c).cls = c
  /\ Array(5, <<HeapSize>>) \in Block /\ RefsOfBlock(Array(5, <<HeapSize>>))
  /\ \A t \in {1, 2}, n \in Nat : Array(t, Zeros(n)) \in Block /\ RefsOfBlock(Array(t, Zeros(n)))
  /\ \A b \in Arrays : b \in Block /\ RefsOfBlock(b)
<1>1. ASSUME NEW c \in Classes
      PROVE  Instant(c) \in Block /\ RefsOfBlock(Instant(c)) /\ Instant(c).cls = c
             /\ Instant(c).type = 0 /\ Instant(c).words = Zeros(NumVars(c))
  <2>1. NumVars(c) \in Nat /\ \A j \in InstRefs(c) : VarOffs(c, j) \in Nat
    BY OffsetType DEF InstRefs
  <2>2. /\ Instant(c).cls = c /\ Instant(c).type = 0 /\ Instant(c).words = Zeros(NumVars(c))
        /\ Instant(c) \in Block
    BY <2>1, ZerosType DEF Instant, Object, Block
  <2>3. \A j \in InstRefs(c) : VarOffs(c, j) + 1 \in 1 .. NumVars(c) => Zeros(NumVars(c))[VarOffs(c, j) + 1] \in Slots
    BY <2>1, ZerosType, SlotFacts
  <2>4. Len(Zeros(NumVars(c))) = NumVars(c) /\ NumVars(c) <= NumVars(c)
    BY <2>1, ZerosType
  <2> QED BY <2>2, <2>3, <2>4 DEF RefsOfBlock
<1>2. ASSUME NEW c \in Classes
      PROVE  Mirror(c) \in Block /\ RefsOfBlock(Mirror(c)) /\ Mirror(c).cls = c
  <2>1. << >> \in Seq(Word) /\ Len(<< >>) = 0
    BY EmptySeq
  <2>2. Mirror(c).cls = c /\ Mirror(c).type = 0 /\ Mirror(c).words = << >> /\ Mirror(c) \in Block
    BY <2>1 DEF Mirror, Object, Block
  <2>3. 0 <= NumVars(c) /\ \A k : k \notin 1 .. 0
    BY OffsetType
  <2> QED BY <2>1, <2>2, <2>3 DEF RefsOfBlock
<1>3. ASSUME NEW t \in ArrayTypes, NEW ws \in Seq(Word), t \in {1, 2} => ws \in Seq(Slots)
      PROVE  Array(t, ws) \in Block /\ RefsOfBlock(Array(t, ws))
  BY <1>3, ClassAssumption DEF Array, Block, RefsOfBlock
<1>4. Array(5, <<HeapSize>>) \in Block /\ RefsOfBlock(Array(5, <<HeapSize>>))
  <2>1. <<HeapSize>> \in Seq(Word) /\ 5 \in ArrayTypes /\ 5 \notin {1, 2}
    BY SlotFacts DEF ArrayTypes
  <2> QED BY <1>3, <2>1
<1>5. \A t \in {1, 2}, n \in Nat : Array(t, Zeros(n)) \in Block /\ RefsOfBlock(Array(t, Zeros(n)))
  BY <1>3, ZerosType DEF ArrayTypes
<1>6. ASSUME NEW b \in Arrays
      PROVE  b \in Block /\ RefsOfBlock(b)
  <2>1. b \in Block /\ b.cls = NoClass /\ (b.type \in {1, 2} => b.words = Zeros(Len(b.words)))
    BY MutatorAssumption
  <2>2. Len(b.words) \in Nat
    BY <2>1, LenProperties DEF Block
  <2> QED BY <2>1, <2>2, ZerosType, ClassAssumption DEF RefsOfBlock
<1> QED BY <1>1, <1>2, <1>4, <1>5, <1>6

(* A word of a block is overwritten: the block keeps its class, its type    *)
(* and its size, the others are the same.                                  *)
LEMMA StoreType ==
  ASSUME NEW h \in [Slots -> Block], NEW s \in Slots, NEW k \in Nat, NEW w \in Word
  PROVE  /\ Store(h, s, k, w) \in [Slots -> Block]
         /\ \A t \in Slots \ {s} : Store(h, s, k, w)[t] = h[t]
         /\ Store(h, s, k, w)[s].cls = h[s].cls /\ Store(h, s, k, w)[s].type = h[s].type
         /\ Len(Store(h, s, k, w)[s].words) = Len(h[s].words)
         /\ \A i \in 1 .. Len(h[s].words) :
              Store(h, s, k, w)[s].words[i] = IF i = k THEN w ELSE h[s].words[i]
<1> DEFINE b == h[s]
           ws == [b.words EXCEPT ![k] = w]
<1>1. b \in Block /\ b.words \in Seq(Word) /\ Len(b.words) \in Nat
  BY LenProperties DEF Block
<1>2. /\ ws \in Seq(Word) /\ Len(ws) = Len(b.words)
      /\ \A i \in 1 .. Len(b.words) : ws[i] = IF i = k THEN w ELSE b.words[i]
  <2>1. CASE k \in 1 .. Len(b.words)
    <3> DEFINE v == b.words
    <3>1. v \in Seq(Word) /\ k \in 1 .. Len(v)
      BY <1>1, <2>1
    <3> HIDE DEF v
    <3>2. /\ [v EXCEPT ![k] = w] \in Seq(Word) /\ Len([v EXCEPT ![k] = w]) = Len(v)
          /\ \A i \in 1 .. Len(v) : [v EXCEPT ![k] = w][i] = IF i = k THEN w ELSE v[i]
      BY <3>1, ExceptSeq
    <3> QED BY <3>2 DEF v
  <2>2. CASE k \notin 1 .. Len(b.words)
    <3>1. DOMAIN b.words = 1 .. Len(b.words) /\ b.words = [i \in DOMAIN b.words |-> b.words[i]]
      BY <1>1
    <3>2. ws = b.words
      BY <2>2, <3>1
    <3> HIDE DEF ws
    <3> QED BY <1>1, <2>2, <3>2
  <2> QED BY <2>1, <2>2
<1> HIDE DEF ws
<1>3. Store(h, s, k, w) = [h EXCEPT ![s] = [cls |-> b.cls, type |-> b.type, words |-> ws]]
  BY DEF Store, ws
<1>4. [cls |-> b.cls, type |-> b.type, words |-> ws] \in Block
  BY <1>1, <1>2 DEF Block
<1> QED BY <1>2, <1>3, <1>4

(* A reference that is written leaves the references of the block slots.   *)
LEMMA StoreRefs ==
  ASSUME NEW h \in [Slots -> Block], NEW s \in Slots, NEW k \in Nat, NEW w \in Slots,
         \A t \in Slots : RefsOfBlock(h[t])
  PROVE  Store(h, s, k, w) \in [Slots -> Block] /\ \A t \in Slots : RefsOfBlock(Store(h, s, k, w)[t])
<1> DEFINE g == Store(h, s, k, w)
<1>0. w \in Word
  BY SlotFacts
<1>1. /\ g \in [Slots -> Block] /\ \A t \in Slots \ {s} : g[t] = h[t]
      /\ g[s].cls = h[s].cls /\ g[s].type = h[s].type /\ Len(g[s].words) = Len(h[s].words)
      /\ \A i \in 1 .. Len(h[s].words) : g[s].words[i] = IF i = k THEN w ELSE h[s].words[i]
  BY <1>0, StoreType
<1> HIDE DEF g
<1>2. g[s].words \in Seq(Word) /\ Len(h[s].words) \in Nat /\ h[s].words \in Seq(Word)
  BY <1>1, LenProperties DEF Block
<1>3. RefsOfBlock(h[s])
  OBVIOUS
<1>4. g[s].type \in {1, 2} => g[s].words \in Seq(Slots)
  <2> HAVE g[s].type \in {1, 2}
  <2>1. h[s].words \in Seq(Slots)
    BY <1>1, <1>3 DEF RefsOfBlock
  <2>2. \A i \in 1 .. Len(h[s].words) : h[s].words[i] \in Slots
    BY <2>1, ElementOfSeq
  <2>3. \A i \in 1 .. Len(g[s].words) : g[s].words[i] \in Slots
    BY <1>1, <2>2
  <2> QED BY <1>2, <2>3
<1>5. RefsOfBlock(g[s])
  BY <1>1, <1>3, <1>4 DEF RefsOfBlock
<1> QED BY <1>1, <1>5 DEF g

(* Offsets are different for different fields.                             *)
LEMMA OffsetsDiffer ==
  ASSUME NEW c \in Classes, NEW i \in Instance(c), NEW j \in Instance(c), i # j
  PROVE  VarOffs(c, i) # VarOffs(c, j)
<1> DEFINE before(x) == {k \in Instance(c) : k < x}
<1>1. IsFiniteSet(Instance(c)) /\ Instance(c) \subseteq Nat
  <2>1. Len(Fields[c]) \in Nat
    BY ClassAssumption, LenProperties
  <2>2. IsFiniteSet(1 .. Len(Fields[c]))
    BY <2>1, FS_Interval
  <2>3. Instance(c) \in SUBSET (1 .. Len(Fields[c]))
    BY DEF Instance, FieldIdx
  <2> QED BY <2>2, <2>3, FS_Subset
<1>2. ASSUME NEW a \in Instance(c), NEW b \in Instance(c), a < b
      PROVE  Cardinality(before(a)) # Cardinality(before(b))
  <2>1. IsFiniteSet(before(b)) /\ before(a) \subseteq before(b) /\ a \in before(b) /\ a \notin before(a)
    BY <1>1, <1>2, FS_Subset
  <2> HIDE DEF before
  <2> QED BY <2>1, FS_Subset
<1>3. i < j \/ j < i
  BY <1>1
<1> QED BY <1>2, <1>3 DEF VarOffs

(* A number that is written, in a word that is no reference field's,       *)
(* leaves the references of the block slots.                               *)
LEMMA StoreNumber ==
  ASSUME NEW h \in [Slots -> Block], NEW s \in Slots, NEW k \in Nat, NEW w \in Word,
         \A t \in Slots : RefsOfBlock(h[t]),
         h[s].cls \in Classes, \A j \in InstRefs(h[s].cls) : VarOffs(h[s].cls, j) + 1 # k
  PROVE  Store(h, s, k, w) \in [Slots -> Block] /\ \A t \in Slots : RefsOfBlock(Store(h, s, k, w)[t])
<1> DEFINE g == Store(h, s, k, w)
<1>1. /\ g \in [Slots -> Block] /\ \A t \in Slots \ {s} : g[t] = h[t]
      /\ g[s].cls = h[s].cls /\ g[s].type = h[s].type /\ Len(g[s].words) = Len(h[s].words)
      /\ \A i \in 1 .. Len(h[s].words) : g[s].words[i] = IF i = k THEN w ELSE h[s].words[i]
  BY StoreType
<1> HIDE DEF g
<1>2. RefsOfBlock(h[s])
  OBVIOUS
<1>3. RefsOfBlock(g[s])
  BY <1>1, <1>2 DEF RefsOfBlock
<1> QED BY <1>1, <1>3 DEF g

(* A frame: the saved words, the cells, the method and class pointers.     *)
LEMMA FrameType ==
  ASSUME NEW saved \in Word, NEW cells \in [1 .. FrameCells -> Word]
  PROVE  /\ Frame(saved, cells) \in Seq(Word) /\ Len(Frame(saved, cells)) = FrameLen
         /\ \A i \in 1 .. PrefixLen : Frame(saved, cells)[i] = saved
         /\ \A i \in 1 .. FrameCells : Frame(saved, cells)[PrefixLen + i] = cells[i]
<1> DEFINE a == [i \in 1 .. PrefixLen |-> saved]
           z == [i \in 1 .. SuffixLen |-> HeapSize]
<1>1. FrameCells \in Nat \ {0}
  BY MutatorAssumption
<1>2. a \in Seq(Word) /\ Len(a) = 3 /\ \A i \in 1 .. 3 : a[i] = saved
  BY DEF PrefixLen
<1>3. z \in Seq(Word) /\ Len(z) = 2
  BY SlotFacts DEF SuffixLen
<1>4. cells \in Seq(Word) /\ Len(cells) = FrameCells
  BY <1>1
<1>5. Frame(saved, cells) = (a \o cells) \o z
  BY DEF Frame
<1> HIDE DEF a, z
<1>6. /\ a \o cells \in Seq(Word) /\ Len(a \o cells) = 3 + FrameCells
      /\ \A i \in 1 .. 3 : (a \o cells)[i] = saved
      /\ \A i \in 1 .. FrameCells : (a \o cells)[3 + i] = cells[i]
  <2>1. /\ a \o cells \in Seq(Word) /\ Len(a \o cells) = Len(a) + Len(cells)
        /\ \A i \in 1 .. Len(a) + Len(cells) :
             (a \o cells)[i] = IF i <= Len(a) THEN a[i] ELSE cells[i - Len(a)]
    BY <1>2, <1>4, ConcatProperties
  <2>2. \A i \in 1 .. 3 + FrameCells : (a \o cells)[i] = IF i <= 3 THEN a[i] ELSE cells[i - 3]
    BY <1>2, <1>4, <2>1
  <2>3. \A i \in 1 .. 3 : i \in 1 .. 3 + FrameCells /\ i <= 3
    BY <1>1
  <2>4. \A i \in 1 .. FrameCells : 3 + i \in 1 .. 3 + FrameCells /\ ~(3 + i <= 3) /\ 3 + i - 3 = i
    BY <1>1
  <2> QED BY <1>2, <1>4, <2>1, <2>2, <2>3, <2>4
<1> DEFINE ac == a \o cells
<1> HIDE DEF ac
<1>7. /\ ac \o z \in Seq(Word) /\ Len(ac \o z) = 3 + FrameCells + 2
      /\ \A i \in 1 .. 3 + FrameCells : (ac \o z)[i] = ac[i]
  <2>1. ac \in Seq(Word) /\ Len(ac) = 3 + FrameCells
    BY <1>6 DEF ac
  <2>2. /\ ac \o z \in Seq(Word) /\ Len(ac \o z) = Len(ac) + Len(z)
        /\ \A i \in 1 .. Len(ac) + Len(z) : (ac \o z)[i] = IF i <= Len(ac) THEN ac[i] ELSE z[i - Len(ac)]
    BY <1>3, <2>1, ConcatProperties
  <2>3. \A i \in 1 .. 3 + FrameCells : i \in 1 .. Len(ac) + Len(z) /\ i <= Len(ac)
    BY <1>1, <1>3, <2>1
  <2> QED BY <1>3, <2>1, <2>2, <2>3
<1>8. \A i \in 1 .. FrameCells : 3 + i \in 1 .. 3 + FrameCells
  BY <1>1
<1>9. \A i \in 1 .. 3 : i \in 1 .. 3 + FrameCells
  BY <1>1
<1> QED BY <1>1, <1>5, <1>6, <1>7, <1>8, <1>9 DEF ac, FrameLen, PrefixLen, SuffixLen

(* The cells of the running frame are on the stack.                        *)
LEMMA CellsOnStack ==
  ASSUME HeapTypeOK, FramesOK, frames # << >>
  PROVE  /\ Len(frames) \in Nat \ {0} /\ Last(frames) \in Nat /\ Last(frames) = frames[Len(frames)]
         /\ Len(thStack) = Last(frames) + FrameCells + SuffixLen
         /\ MyCells \subseteq 1 .. Len(thStack)
<1>1. Len(frames) \in Nat \ {0} /\ Last(frames) = frames[Len(frames)] /\ frames[Len(frames)] \in Nat
  BY EmptySeq, LenProperties, ElementOfSeq DEF HeapTypeOK, Last
<1>2. Len(thStack) = Last(frames) + FrameCells + SuffixLen
  BY <1>1 DEF FramesOK
<1>3. FrameCells \in Nat
  BY MutatorAssumption
<1> QED BY <1>1, <1>2, <1>3 DEF MyCells, CellsOf, SuffixLen

(* Removing the last element, and what is left.                            *)
LEMMA FrontLast ==
  ASSUME NEW S, NEW q \in Seq(S), q # << >>
  PROVE  /\ Len(q) \in Nat \ {0} /\ Last(q) = q[Len(q)] /\ Last(q) \in S
         /\ Front(q) \in Seq(S) /\ Len(Front(q)) = Len(q) - 1
         /\ \A k \in 1 .. Len(q) - 1 : Front(q)[k] = q[k]
<1> DEFINE n == Len(q)
<1>1. n \in Nat \ {0} /\ \A k \in 1 .. n : q[k] \in S
  BY EmptySeq, LenProperties, ElementOfSeq
<1>2. /\ SubSeq(q, 1, n - 1) \in Seq(S)
      /\ Len(SubSeq(q, 1, n - 1)) = IF 1 <= n - 1 THEN n - 1 - 1 + 1 ELSE 0
      /\ \A k \in 1 .. n - 1 - 1 + 1 : SubSeq(q, 1, n - 1)[k] = q[1 + k - 1]
  BY <1>1, SubSeqProperties
<1>3. Front(q) = SubSeq(q, 1, n - 1) /\ Last(q) = q[n]
  BY DEF Front, Last
<1> DEFINE f == Front(q)
<1>4. f \in Seq(S) /\ Len(f) = IF 1 <= n - 1 THEN n - 1 - 1 + 1 ELSE 0
  BY <1>2, <1>3
<1>5. ASSUME NEW k \in 1 .. n - 1 PROVE f[k] = q[k]
  <2>1. k \in 1 .. n - 1 - 1 + 1 /\ 1 + k - 1 = k
    BY <1>1
  <2> QED BY <1>2, <1>3, <2>1
<1> HIDE DEF n, f
<1>6. Len(f) = n - 1
  BY <1>1, <1>4
<1> QED BY <1>1, <1>3, <1>4, <1>5, <1>6 DEF f, n

---------------------------------------------------------------------------
(* The parts of the type invariant, each from what a step does to it: the  *)
(* heap, the stacks and the static fields hold words, and slot numbers     *)
(* where the machine takes them for references.                            *)
LEMMA DataStep ==
  ASSUME HeapTypeInvariant,
         used' \in SUBSET Slots, marked' \in SUBSET Slots, vmhTop' \in -1 .. HeapSize - 1,
         ptr' \in [Slots -> Block], \A s \in Slots : RefsOfBlock(ptr'[s]),
         UNCHANGED <<fvar, gcVars>>,
         exStack' \in Seq(Slots), thStack' \in Seq(Word),
         live' \in SUBSET (1 .. Len(thStack')), \A p \in live' : thStack'[p] \in Slots
  PROVE  TypeOK' /\ OffsetsOK' /\ RefsAreSlots'
<1>1. exStack' \in Seq(Word)
  BY SlotSeq
<1>2. \A s \in Slots : ptr'[s].type = 1 => ptr'[s].words \in Seq(Slots)
  BY DEF RefsOfBlock
<1>3. TypeOK'
  BY <1>1, <1>2 DEF HeapTypeInvariant, HeapTypeOK, TypeOK, gcVars
<1>4. OffsetsOK'
  BY DEF HeapTypeInvariant, OffsetsOK
<1>5. RefsAreSlots'
  <2>1. \A s \in Slots : RefsOfBlock(ptr[s])' <=> RefsOfBlock(ptr'[s])
    BY DEF RefsOfBlock
  <2> QED BY <2>1 DEF HeapTypeInvariant, RefsAreSlots
<1> QED BY <1>3, <1>4, <1>5

(* No frame is pushed or popped.                                           *)
LEMMA FramesStep ==
  ASSUME HeapTypeInvariant, frames' = frames,
         thStack' \in Seq(Word), Len(thStack') = Len(thStack),
         pc' = "run" => frames # << >>, pc' = "boot" => frames = << >>
  PROVE  FramesOK'
<1>1. thStack \in Seq(Word) /\ FramesOK
  BY DEF HeapTypeInvariant, HeapTypeOK, TypeOK
<1>2. thStack' = << >> <=> thStack = << >>
  BY <1>1, EmptySeq
<1> QED BY <1>1, <1>2 DEF FramesOK

(* A reference is put in a cell.                                           *)
LEMMA PutRefStep ==
  ASSUME HeapTypeInvariant, NEW p \in 1 .. Len(thStack), NEW s \in Slots, PutRef(p, s)
  PROVE  /\ thStack' \in Seq(Word) /\ Len(thStack') = Len(thStack)
         /\ live' \in SUBSET (1 .. Len(thStack')) /\ \A q \in live' : thStack'[q] \in Slots
<1> DEFINE t == thStack
<1>1. t \in Seq(Word) /\ p \in 1 .. Len(t) /\ s \in Word
  BY SlotFacts DEF HeapTypeInvariant, HeapTypeOK, TypeOK
<1> HIDE DEF t
<1>2. /\ [t EXCEPT ![p] = s] \in Seq(Word) /\ Len([t EXCEPT ![p] = s]) = Len(t)
      /\ \A j \in 1 .. Len(t) : [t EXCEPT ![p] = s][j] = IF j = p THEN s ELSE t[j]
  BY <1>1, ExceptSeq
<1>3. thStack' = [t EXCEPT ![p] = s] /\ live' = live \cup {p}
  BY DEF PutRef, t
<1>4. live \in SUBSET (1 .. Len(t)) /\ \A q \in live : t[q] \in Slots
  BY DEF t, HeapTypeInvariant, HeapTypeOK, RefsAreSlots
<1> QED BY <1>1, <1>2, <1>3, <1>4 DEF t

Purposes == {"boot", "argv", "mirror", "cell", "chars", "string", "outer", "inner"}

(* allocateObject is called, for a block whose references are slots.       *)
LEMMA RequestStep ==
  ASSUME HeapTypeInvariant, FramesOK', TypeOK', RefsAreSlots', OffsetsOK',
         live' \in SUBSET (1 .. Len(thStack')),
         frames' = frames, loaded' \in SUBSET Classes, boot' = boot,
         NEW b \in Block, RefsOfBlock(b), NEW top \in -1 .. HeapSize - 1,
         NEW to \in Purposes, NEW pos \in Nat, NEW i \in Nat,
         Request(b, Dest(to, pos, i), top),
         to \in {"boot", "argv"} => pos = 0,
         IF pos = 0 THEN frames = << >> /\ to \in {"boot", "argv", "chars", "string"}
         ELSE frames # << >> /\ pos \in 1 .. Len(thStack'),
         to \in {"string", "inner"} => exStack' # << >>,
         to \in {"boot", "mirror"} => b.cls \in Classes,
         to = "string" => b = Instant(StringClass)
  PROVE  HeapTypeInvariant'
<1>1. pc' = "alloc" /\ req' = b /\ seek' = top + 1
  BY DEF Request
<1>2. dest' = [to |-> to, pos |-> pos, i |-> i]
  BY DEF Request, Dest
<1>3. top + 1 \in 0 .. HeapSize
  BY HeapAssumption
<1>4. HeapTypeOK'
  BY <1>1, <1>2, <1>3 DEF HeapTypeInvariant, HeapTypeOK, Purposes
<1>5. RefsOfBlock(req)' <=> RefsOfBlock(req')
  BY DEF RefsOfBlock
<1>6. dest'.to = to /\ dest'.pos = pos
  BY <1>2
<1>7. Instant(StringClass)' = Instant(StringClass)
  BY DEF Instant
<1>8. DestOK'
  BY <1>1, <1>5, <1>6, <1>7 DEF DestOK
<1> QED BY <1>4, <1>8 DEF HeapTypeInvariant

(* The machine goes on running, with the frames it has.                    *)
LEMMA RunStep ==
  ASSUME HeapTypeInvariant, TypeOK', RefsAreSlots', OffsetsOK',
         live' \in SUBSET (1 .. Len(thStack')), Len(thStack') = Len(thStack),
         frames' = frames, frames # << >>, pc' \in {"run", "halted", "corrupt"},
         UNCHANGED <<req, dest, seek, boot>>, loaded' \in SUBSET Classes
  PROVE  HeapTypeInvariant'
<1>1. FramesOK'
  BY FramesStep DEF TypeOK
<1>2. HeapTypeOK'
  BY DEF HeapTypeInvariant, HeapTypeOK
<1>3. DestOK'
  BY DEF DestOK
<1> QED BY <1>1, <1>2, <1>3 DEF HeapTypeInvariant

(* A reference, or another word, is written in a cell of the running frame. *)
LEMMA CellStep ==
  ASSUME HeapTypeInvariant, Running, NEW p \in MyCells,
         \/ \E s \in Slots : PutRef(p, s)
         \/ \E w \in Word : PutWord(p, w),
         UNCHANGED <<heapVars, exStack, fvar, gcVars, pc, req, dest, seek, frames, loaded, boot>>
  PROVE  HeapTypeInvariant'
<1>1. frames # << >> /\ p \in 1 .. Len(thStack)
  BY CellsOnStack DEF HeapTypeInvariant, FramesOK, Running
<1>2. /\ thStack' \in Seq(Word) /\ Len(thStack') = Len(thStack)
      /\ live' \in SUBSET (1 .. Len(thStack')) /\ \A q \in live' : thStack'[q] \in Slots
  <2>1. CASE \E s \in Slots : PutRef(p, s)
    BY <1>1, <2>1, PutRefStep
  <2>2. CASE \E w \in Word : PutWord(p, w)
    <3> DEFINE t == thStack
    <3>0. PICK w \in Word : thStack' = [thStack EXCEPT ![p] = w] /\ live' = live \ {p}
      BY <2>2 DEF PutWord
    <3>1. t \in Seq(Word) /\ p \in 1 .. Len(t)
      BY <1>1 DEF HeapTypeInvariant, HeapTypeOK, TypeOK
    <3>2. live \in SUBSET (1 .. Len(t)) /\ \A q \in live : t[q] \in Slots
      BY DEF HeapTypeInvariant, HeapTypeOK, RefsAreSlots
    <3>3. thStack' = [t EXCEPT ![p] = w]
      BY <3>0
    <3> HIDE DEF t
    <3>4. /\ [t EXCEPT ![p] = w] \in Seq(Word) /\ Len([t EXCEPT ![p] = w]) = Len(t)
          /\ \A j \in 1 .. Len(t) : [t EXCEPT ![p] = w][j] = IF j = p THEN w ELSE t[j]
      BY <3>1, ExceptSeq
    <3>5. \A q \in live' : q \in 1 .. Len(t) /\ thStack'[q] \in Slots
      BY <3>0, <3>2, <3>3, <3>4
    <3> QED BY <3>3, <3>4, <3>5 DEF t
  <2> QED BY <2>1, <2>2
<1>3. UNCHANGED <<used, marked, ptr, vmhTop, exStack, fvar, gcVars, pc>>
  BY DEF heapVars
<1>4. TypeOK' /\ OffsetsOK' /\ RefsAreSlots'
  BY <1>2, <1>3, DataStep DEF HeapTypeInvariant, HeapTypeOK, TypeOK, RefsAreSlots
<1>5. pc' \in {"run", "halted"}
  BY <1>3 DEF Running
<1> QED BY <1>1, <1>2, <1>4, <1>5, RunStep DEF HeapTypeInvariant, HeapTypeOK

(* What the program reads as a reference is a slot number.                 *)
LEMMA ReadRefs ==
  ASSUME HeapTypeInvariant
  PROVE  /\ \A q \in live : thStack[q] \in Slots
         /\ \A s \in Slots : \A k \in RefElements(s) : k \in Nat /\ ptr[s].words[k] \in Slots
         /\ \A cj \in StaticRefs : fvar[cj] \in Slots
<1>1. \A q \in live : thStack[q] \in Slots
  BY DEF HeapTypeInvariant, RefsAreSlots
<1>2. ASSUME NEW s \in Slots, NEW k \in RefElements(s)
      PROVE  k \in Nat /\ ptr[s].words[k] \in Slots
  <2>1. ptr[s].type \in {1, 2} /\ k \in DOMAIN ptr[s].words
    BY <1>2 DEF RefElements
  <2>2. ptr[s].words \in Seq(Slots)
    BY <2>1 DEF HeapTypeInvariant, RefsAreSlots, RefsOfBlock
  <2>3. k \in 1 .. Len(ptr[s].words) /\ Len(ptr[s].words) \in Nat
    BY <2>1, <2>2, LenProperties
  <2> QED BY <2>2, <2>3, ElementOfSeq
<1>3. \A cj \in StaticRefs : fvar[cj] \in Slots
  BY DEF StaticRefs, HeapTypeInvariant, RefsAreSlots
<1> QED BY <1>1, <1>2, <1>3

(* What makes a reference field.                                           *)
LEMMA RefKind ==
  ASSUME NEW c \in Classes, NEW j \in FieldIdx(c), Fields[c][j].kind = "inst"
  PROVE  Fields[c][j].ref <=> j \in InstRefs(c)
<1>1. Fields[c] \in Seq(FieldDescr)
  BY ClassAssumption
<1>2. Fields[c][j] \in FieldDescr
  BY <1>1, ElementOfSeq DEF FieldIdx
<1>3. PICK f \in FieldDescr : f = Fields[c][j] /\ f.kind = "inst"
  BY <1>2
<1>4. f.ref \in BOOLEAN /\ f = [kind |-> f.kind, ref |-> f.ref]
  BY DEF FieldDescr
<1>5. f.ref => f = [kind |-> "inst", ref |-> TRUE]
  BY <1>3, <1>4
<1>6. f = [kind |-> "inst", ref |-> TRUE] => f.ref
  OBVIOUS
<1> QED BY <1>3, <1>5, <1>6 DEF InstRefs

(* The fields that can be accessed in an object are those of its class,    *)
(* each with the word at its offset.                                       *)
LEMMA OwnFields ==
  ASSUME InheritedApart, HeapTypeInvariant, NEW s \in Slots, NEW cj \in InBlock(s)
  PROVE  LET c == ptr[s].cls
             j == cj[2]
         IN  /\ s \in used \ {0} /\ ~IsArray(s) /\ c \in Classes
             /\ j \in FieldIdx(c) /\ Fields[c][j].kind = "inst" /\ cj = <<c, j>>
             /\ cj \in RefCells <=> j \in InstRefs(c)
             /\ WordOf(cj) = VarOffs(c, j) + 1 /\ WordOf(cj) \in 1 .. Len(ptr[s].words)
<1> DEFINE c == ptr[s].cls
           d == cj[1]
           j == cj[2]
<1>1. /\ s \in used \ {0} /\ ~IsArray(s) /\ cj \in InstCells /\ d \in {c} \cup Supers[c]
      /\ WordOf(cj) \in DOMAIN ptr[s].words
  BY DEF InBlock, NamedFields
<1>2. /\ ptr[s] \in Block /\ RefsOfBlock(ptr[s]) /\ Len(ptr[s].words) \in Nat
      /\ DOMAIN ptr[s].words = 1 .. Len(ptr[s].words)
  BY LenProperties DEF HeapTypeInvariant, HeapTypeOK, TypeOK, RefsAreSlots, Block
<1>3. c \in Classes
  BY <1>1, <1>2 DEF IsArray, Block
<1>4. cj \in Cells /\ Fields[d][j].kind = "inst"
  BY <1>1 DEF InstCells
<1>5. d \in Classes /\ j \in FieldIdx(d) /\ cj = <<d, j>>
  BY <1>4 DEF Cells
<1>6. WordOf(cj) = VarOffs(d, j) + 1 /\ VarOffs(d, j) \in Nat
  BY <1>4, <1>5, OffsetType DEF HeapTypeInvariant, OffsetsOK, WordOf
<1>7. Len(ptr[s].words) <= NumVars(c) /\ NumVars(c) \in Nat
  BY <1>2, <1>3, OffsetType DEF RefsOfBlock
<1>8. d = c
  <2>1. VarOffs(d, j) < NumVars(c)
    BY <1>1, <1>2, <1>6, <1>7
  <2>2. d \in Supers[c] => VarOffs(d, j) >= NumVars(c)
    BY <1>3, <1>4, <1>5 DEF InheritedApart, Inherited, Behind
  <2> QED BY <1>1, <1>6, <1>7, <2>1, <2>2
<1>9. cj \in RefCells <=> j \in InstRefs(c)
  <2>1. Fields[c][j].ref <=> j \in InstRefs(c)
    BY <1>3, <1>4, <1>5, <1>8, RefKind
  <2> QED BY <1>1, <1>5, <1>8, <2>1 DEF RefCells
<1> QED BY <1>1, <1>2, <1>3, <1>4, <1>5, <1>6, <1>8, <1>9

(* Inherited fields that are behind the block share no word at all.        *)
LEMMA ApartAgrees == InheritedApart => InheritedAgree
BY DEF InheritedApart, InheritedAgree

(* Whichever class a field is named in, its word is the one of a field of  *)
(* the object's class, and both are references or neither is.              *)
LEMMA NamedFieldIsOwn ==
  ASSUME InheritedAgree, HeapTypeInvariant, NEW s \in Slots, NEW cj \in InBlock(s)
  PROVE  LET c == ptr[s].cls IN
         /\ c \in Classes
         /\ \E i \in FieldIdx(c) :
              /\ Fields[c][i].kind = "inst" /\ (cj \in RefCells <=> i \in InstRefs(c))
              /\ WordOf(cj) = VarOffs(c, i) + 1 /\ WordOf(cj) \in 1 .. Len(ptr[s].words)
<1> DEFINE c == ptr[s].cls
           d == cj[1]
           j == cj[2]
<1>1. /\ s \in used \ {0} /\ ~IsArray(s) /\ cj \in InstCells /\ d \in {c} \cup Supers[c]
      /\ WordOf(cj) \in DOMAIN ptr[s].words
  BY DEF InBlock, NamedFields
<1>2. /\ ptr[s] \in Block /\ RefsOfBlock(ptr[s]) /\ Len(ptr[s].words) \in Nat
      /\ DOMAIN ptr[s].words = 1 .. Len(ptr[s].words)
  BY LenProperties DEF HeapTypeInvariant, HeapTypeOK, TypeOK, RefsAreSlots, Block
<1>3. c \in Classes
  BY <1>1, <1>2 DEF IsArray, Block
<1>4. cj \in Cells /\ Fields[d][j].kind = "inst"
  BY <1>1 DEF InstCells
<1>5. d \in Classes /\ j \in FieldIdx(d)
  BY <1>4 DEF Cells
<1>6. WordOf(cj) = VarOffs(d, j) + 1 /\ VarOffs(d, j) \in Nat
  BY <1>4, <1>5, OffsetType DEF HeapTypeInvariant, OffsetsOK, WordOf
<1>7. Len(ptr[s].words) <= NumVars(c) /\ NumVars(c) \in Nat
  BY <1>2, <1>3, OffsetType DEF RefsOfBlock
<1>8. PICK i \in FieldIdx(c) : VarOffs(c, i) = VarOffs(d, j) /\ Fields[c][i] = Fields[d][j]
  <2>1. CASE d = c
    BY <1>5, <2>1
  <2>2. CASE d \in Supers[c]
    <3>1. ~Behind(c, cj)
      BY <1>1, <1>2, <1>6, <1>7 DEF Behind
    <3>2. cj \in Inherited(c)
      BY <1>4, <2>2 DEF Inherited
    <3> QED BY <1>3, <3>1, <3>2 DEF InheritedAgree
  <2> QED BY <1>1, <2>1, <2>2
<1>9. cj \in RefCells <=> i \in InstRefs(c)
  <2>1. Fields[c][i].ref <=> i \in InstRefs(c)
    BY <1>3, <1>4, <1>8, RefKind
  <2> QED BY <1>1, <1>8, <2>1 DEF RefCells
<1> QED BY <1>1, <1>2, <1>3, <1>4, <1>6, <1>8, <1>9

(* What the program reads in a field: a slot number, if the field is one   *)
(* of references; otherwise no reference field has its word.               *)
LEMMA FieldWord ==
  ASSUME InheritedAgree, HeapTypeInvariant, NEW s \in Slots, NEW cj \in InBlock(s)
  PROVE  /\ WordOf(cj) \in Nat /\ ptr[s].words[WordOf(cj)] \in Word /\ ptr[s].cls \in Classes
         /\ cj \in RefCells => ptr[s].words[WordOf(cj)] \in Slots
         /\ cj \notin RefCells => \A j \in InstRefs(ptr[s].cls) : VarOffs(ptr[s].cls, j) + 1 # WordOf(cj)
<1> DEFINE c == ptr[s].cls
<1>1. c \in Classes
  BY NamedFieldIsOwn
<1>2. PICK i \in FieldIdx(c) :
        /\ Fields[c][i].kind = "inst" /\ (cj \in RefCells <=> i \in InstRefs(c))
        /\ WordOf(cj) = VarOffs(c, i) + 1 /\ WordOf(cj) \in 1 .. Len(ptr[s].words)
  BY NamedFieldIsOwn
<1>3. ptr[s].words \in Seq(Word) /\ RefsOfBlock(ptr[s]) /\ Len(ptr[s].words) \in Nat
  BY LenProperties DEF HeapTypeInvariant, HeapTypeOK, TypeOK, RefsAreSlots, Block
<1>4. ptr[s].words[WordOf(cj)] \in Word
  BY <1>2, <1>3, ElementOfSeq
<1>5. i \in InstRefs(c) => ptr[s].words[WordOf(cj)] \in Slots
  BY <1>1, <1>2, <1>3 DEF RefsOfBlock
<1>6. ASSUME i \notin InstRefs(c), NEW j \in InstRefs(c) PROVE VarOffs(c, j) + 1 # VarOffs(c, i) + 1
  <2>1. i \in Instance(c) /\ j \in Instance(c) /\ i # j
    BY <1>2, <1>6 DEF InstRefs, Instance
  <2>2. VarOffs(c, i) \in Nat /\ VarOffs(c, j) \in Nat
    BY <1>1, <1>2, <1>6, OffsetType DEF InstRefs
  <2> QED BY <1>1, <2>1, <2>2, OffsetsDiffer
<1> QED BY <1>1, <1>2, <1>3, <1>4, <1>5, <1>6

(* The instructions that copy references between cells, objects, arrays    *)
(* and static fields.                                                      *)
LEMMA CopyStep ==
  ASSUME InheritedAgree, HeapTypeInvariant, MoveRef \/ Overwrite \/ GetField \/ AALoad \/ GetStatic
  PROVE  HeapTypeInvariant'
<1> DEFINE Same == UNCHANGED <<heapVars, exStack, fvar, gcVars, pc, req, dest, seek, frames, loaded, boot>>
<1>0. Running /\ Same
  BY DEF MoveRef, Overwrite, GetField, AALoad, GetStatic, Does
<1>1. \A q \in MyRefs : q \in live
  BY DEF MyRefs
<1>2. CASE MoveRef
  <2>1. PICK p \in MyCells, s \in {thStack[q] : q \in MyRefs} \cup {0} : PutRef(p, s)
    BY <1>2 DEF MoveRef
  <2>2. s \in Slots
    BY <1>1, ReadRefs, SlotFacts
  <2> QED BY <1>0, <2>1, <2>2, CellStep
<1>3. CASE Overwrite
  <2>1. PICK p \in MyCells : PutWord(p, HeapSize)
    BY <1>3 DEF Overwrite
  <2> QED BY <1>0, <2>1, SlotFacts, CellStep
<1>4. CASE GetField
  <2>1. PICK p \in MyRefs, q \in MyCells : \E cj \in InBlock(thStack[p]) :
          LET w == ptr[thStack[p]].words[WordOf(cj)] IN
          IF cj \in RefCells THEN PutRef(q, w) ELSE PutWord(q, w)
    BY <1>4 DEF GetField
  <2>2. PICK cj \in InBlock(thStack[p]) : \E w :
          /\ w = ptr[thStack[p]].words[WordOf(cj)]
          /\ IF cj \in RefCells THEN PutRef(q, w) ELSE PutWord(q, w)
    BY <2>1
  <2>3. thStack[p] \in Slots
    BY <1>1, ReadRefs
  <2>4. \A w : w = ptr[thStack[p]].words[WordOf(cj)] => w \in Word /\ (cj \in RefCells => w \in Slots)
    BY <2>2, <2>3, FieldWord
  <2>5. (\E x \in Slots : PutRef(q, x)) \/ \E x \in Word : PutWord(q, x)
    BY <2>2, <2>4
  <2> QED BY <1>0, <2>5, CellStep
<1>5. CASE AALoad
  <2>1. PICK p \in MyRefs, q \in MyCells : \E k \in RefElements(thStack[p]) : PutRef(q, ptr[thStack[p]].words[k])
    BY <1>5 DEF AALoad
  <2>2. PICK k \in RefElements(thStack[p]) : PutRef(q, ptr[thStack[p]].words[k])
    BY <2>1
  <2>3. ptr[thStack[p]].words[k] \in Slots
    BY <1>1, ReadRefs
  <2> QED BY <1>0, <2>2, <2>3, CellStep
<1>6. CASE GetStatic
  <2>1. PICK cj \in StaticRefs, p \in MyCells : PutRef(p, fvar[cj])
    BY <1>6 DEF GetStatic
  <2>2. fvar[cj] \in Slots
    BY ReadRefs
  <2> QED BY <1>0, <2>1, <2>2, CellStep
<1> QED BY <1>2, <1>3, <1>4, <1>5, <1>6

(* The instructions that write a reference into an object or an array.     *)
LEMMA WriteStep ==
  ASSUME InheritedAgree, HeapTypeInvariant, PutField \/ AAStore
  PROVE  HeapTypeInvariant'
<1>1. ptr \in [Slots -> Block] /\ \A s \in Slots : RefsOfBlock(ptr[s])
  BY DEF HeapTypeInvariant, HeapTypeOK, TypeOK, RefsAreSlots
<1>2. \A q \in MyRefs : q \in live /\ thStack[q] \in Slots
  BY ReadRefs DEF MyRefs
<1>3. ASSUME PutField
      PROVE  ptr' \in [Slots -> Block] /\ \A s \in Slots : RefsOfBlock(ptr'[s])
  <2>1. PICK p \in MyRefs : \E cj \in InBlock(thStack[p]) :
          \E w \in IF cj \in RefCells THEN {thStack[q] : q \in MyRefs} ELSE StaleWords :
            ptr' = Store(ptr, thStack[p], WordOf(cj), w)
    BY <1>3 DEF PutField
  <2>2. PICK s \in Slots : s = thStack[p]
    BY <1>2
  <2>3. PICK cj \in InBlock(s) : \E w \in IF cj \in RefCells THEN {thStack[q] : q \in MyRefs} ELSE StaleWords :
          ptr' = Store(ptr, s, WordOf(cj), w)
    BY <2>1, <2>2
  <2>4. PICK w \in IF cj \in RefCells THEN {thStack[q] : q \in MyRefs} ELSE StaleWords :
          ptr' = Store(ptr, s, WordOf(cj), w)
    BY <2>3
  <2>5. WordOf(cj) \in Nat
    BY FieldWord
  <2>6. CASE cj \in RefCells
    <3>1. w \in Slots
      BY <1>2, <2>4, <2>6
    <3>2. PICK k \in Nat : k = WordOf(cj)
      BY <2>5
    <3>3. ptr' = Store(ptr, s, k, w)
      BY <2>4, <3>2
    <3> QED BY <1>1, <3>1, <3>3, StoreRefs
  <2>7. CASE cj \notin RefCells
    <3>1. w \in Word
      BY <2>4, <2>7, MutatorAssumption
    <3>2. PICK k \in Nat : k = WordOf(cj)
      BY <2>5
    <3>3. ptr[s].cls \in Classes /\ \A j \in InstRefs(ptr[s].cls) : VarOffs(ptr[s].cls, j) + 1 # k
      BY <2>7, <3>2, FieldWord
    <3>4. ptr' = Store(ptr, s, k, w)
      BY <2>4, <3>2
    <3> QED BY <1>1, <3>1, <3>3, <3>4, StoreNumber
  <2> QED BY <2>6, <2>7
<1>4. ASSUME AAStore
      PROVE  ptr' \in [Slots -> Block] /\ \A s \in Slots : RefsOfBlock(ptr'[s])
  <2>1. PICK p \in MyRefs, q \in MyRefs : \E k \in RefElements(thStack[p]) : ptr' = Store(ptr, thStack[p], k, thStack[q])
    BY <1>4 DEF AAStore
  <2>2. PICK k \in RefElements(thStack[p]) : ptr' = Store(ptr, thStack[p], k, thStack[q])
    BY <2>1
  <2>3. k \in Nat /\ thStack[p] \in Slots /\ thStack[q] \in Slots
    BY <1>2, ReadRefs
  <2>4. PICK s \in Slots, w \in Slots, i \in Nat : s = thStack[p] /\ w = thStack[q] /\ i = k
    BY <2>3
  <2>5. ptr' = Store(ptr, s, i, w)
    BY <2>2, <2>4
  <2> QED BY <1>1, <2>5, StoreRefs
<1>5. ptr' \in [Slots -> Block] /\ \A s \in Slots : RefsOfBlock(ptr'[s])
  BY <1>3, <1>4
<1>6. Running /\ UNCHANGED <<used, marked, vmhTop, exStack, thStack, fvar, gcVars, mutVars>>
  BY DEF PutField, AAStore, Does
<1>7. TypeOK' /\ OffsetsOK' /\ RefsAreSlots'
  BY <1>5, <1>6, DataStep DEF HeapTypeInvariant, HeapTypeOK, TypeOK, RefsAreSlots, mutVars
<1>8. frames # << >> /\ pc' \in {"run", "halted"}
  BY <1>6 DEF Running, HeapTypeInvariant, FramesOK, mutVars
<1> QED BY <1>6, <1>7, <1>8, RunStep DEF HeapTypeInvariant, HeapTypeOK, mutVars

(* The instructions that write an object or an array write one word of it. *)
LEMMA WriteEffect ==
  ASSUME HeapTypeInvariant, PutField \/ AAStore
  PROVE  \E s \in Slots, k \in Nat, w \in Word : ptr' = Store(ptr, s, k, w)
<1>1. \A q \in MyRefs : thStack[q] \in Slots /\ thStack[q] \in Word
  BY ReadRefs, SlotFacts DEF MyRefs
<1>2. CASE PutField
  <2>1. PICK p \in MyRefs : \E cj \in InBlock(thStack[p]) :
          \E w \in IF cj \in RefCells THEN {thStack[q] : q \in MyRefs} ELSE StaleWords :
            ptr' = Store(ptr, thStack[p], WordOf(cj), w)
    BY <1>2 DEF PutField
  <2>2. PICK cj \in InBlock(thStack[p]) : \E w \in IF cj \in RefCells THEN {thStack[q] : q \in MyRefs} ELSE StaleWords :
          ptr' = Store(ptr, thStack[p], WordOf(cj), w)
    BY <2>1
  <2>3. PICK w \in IF cj \in RefCells THEN {thStack[q] : q \in MyRefs} ELSE StaleWords :
          ptr' = Store(ptr, thStack[p], WordOf(cj), w)
    BY <2>2
  <2>4. w \in Word
    BY <1>1, <2>3, MutatorAssumption
  <2>5. cj \in Cells
    BY DEF InBlock, NamedFields, InstCells
  <2>6. WordOf(cj) \in Nat
    BY <2>5 DEF WordOf, HeapTypeInvariant, HeapTypeOK, TypeOK
  <2> QED BY <1>1, <2>3, <2>4, <2>6
<1>3. CASE AAStore
  BY <1>1, <1>3, ReadRefs DEF AAStore
<1> QED BY <1>2, <1>3

(* A static field is given a reference.                                    *)
LEMMA StaticStep ==
  ASSUME HeapTypeInvariant, PutStatic
  PROVE  HeapTypeInvariant'
<1>1. PICK cj \in StaticRefs, p \in MyRefs : fvar' = [fvar EXCEPT ![cj] = thStack[p]]
  BY DEF PutStatic
<1>2. cj \in Cells /\ Fields[cj[1]][cj[2]] = [kind |-> "static", ref |-> TRUE] /\ thStack[p] \in Slots
  BY ReadRefs DEF StaticRefs, MyRefs
<1>3. Running /\ UNCHANGED <<used, marked, ptr, vmhTop, exStack, thStack, gcVars, mutVars>>
  BY DEF PutStatic, Does, heapVars
<1>4. fvar \in [Cells -> Nat]
  BY DEF HeapTypeInvariant, HeapTypeOK, TypeOK
<1>5. fvar' \in [Cells -> Nat] /\ fvar'[cj] \in Slots /\ \A d \in Cells \ {cj} : fvar'[d] = fvar[d]
  BY <1>1, <1>2, <1>4, SlotFacts
<1>6. TypeOK'
  BY <1>3, <1>5 DEF HeapTypeInvariant, HeapTypeOK, TypeOK, gcVars
<1>7. OffsetsOK'
  BY <1>2, <1>5 DEF HeapTypeInvariant, OffsetsOK
<1>8. RefsAreSlots'
  <2>1. \A s \in Slots : RefsOfBlock(ptr[s])' <=> RefsOfBlock(ptr[s])
    BY <1>3 DEF RefsOfBlock
  <2> QED BY <1>3, <1>5, <2>1 DEF HeapTypeInvariant, RefsAreSlots, mutVars
<1>9. frames # << >> /\ pc' \in {"run", "halted"}
  BY <1>3 DEF Running, HeapTypeInvariant, FramesOK, mutVars
<1> QED BY <1>3, <1>6, <1>7, <1>8, <1>9, RunStep DEF HeapTypeInvariant, HeapTypeOK, mutVars

(* The size of a frame.                                                    *)
LEMMA FrameSize ==
  /\ PrefixLen = 3 /\ SuffixLen = 2
  /\ FrameCells \in Nat \ {0} /\ FrameLen \in Nat /\ FrameLen = FrameCells + 5
  /\ FrameLen = PrefixLen + FrameCells + SuffixLen
<1>1. FrameCells \in Nat \ {0}
  BY MutatorAssumption
<1>2. FrameLen = 3 + FrameCells + 2
  BY DEF FrameLen, PrefixLen, SuffixLen
<1>3. 3 + FrameCells + 2 = FrameCells + 5 /\ FrameCells + 5 \in Nat
  BY <1>1
<1> QED BY <1>1, <1>2, <1>3 DEF PrefixLen, SuffixLen

(* The cells of a new frame: a slot number in the first, stale words in    *)
(* the others.                                                             *)
LEMMA NewCells ==
  ASSUME NEW stale \in [1 .. FrameCells -> StaleWords], NEW s \in Slots
  PROVE  [stale EXCEPT ![1] = s] \in [1 .. FrameCells -> Word] /\ [stale EXCEPT ![1] = s][1] = s
<1>1. 1 \in 1 .. FrameCells
  BY FrameSize
<1>2. \A i \in 1 .. FrameCells : stale[i] \in Word
  BY MutatorAssumption
<1>3. s \in Word
  BY SlotFacts
<1>4. [stale EXCEPT ![1] = s] = [i \in 1 .. FrameCells |-> IF i = 1 THEN s ELSE stale[i]]
  OBVIOUS
<1> QED BY <1>1, <1>2, <1>3, <1>4

(* The program calls a method: the stack below the new frame is as it was. *)
LEMMA InvokeEffect ==
  ASSUME HeapTypeInvariant, Invoke
  PROVE  /\ thStack' \in Seq(Word) /\ Len(thStack') = Len(thStack) + FrameLen
         /\ \A k \in 1 .. Len(thStack) : thStack'[k] = thStack[k]
         /\ \E arg \in MyRefs : thStack'[Len(thStack) + PrefixLen + 1] = thStack[arg]
<1> DEFINE n == Len(frames)
           L == Len(thStack)
<1>0. Running /\ UNCHANGED <<used, marked, ptr, vmhTop, exStack, fvar, gcVars, pc, req, dest, seek, loaded, boot>>
  BY DEF Invoke, Does, heapVars
<1>1. PICK arg \in MyRefs, stale \in [1 .. FrameCells -> StaleWords] :
        thStack' = thStack \o Frame(HeapSize, [stale EXCEPT ![1] = thStack[arg]])
  BY DEF Invoke
<1>2. thStack[arg] \in Slots /\ thStack \in Seq(Word) /\ L \in Nat
  BY ReadRefs, LenProperties DEF MyRefs, HeapTypeInvariant, HeapTypeOK, TypeOK
<1>3. /\ thStack' \in Seq(Word) /\ Len(thStack') = L + FrameLen
      /\ \A k \in 1 .. L : thStack'[k] = thStack[k]
      /\ thStack'[L + PrefixLen + 1] = thStack[arg]
  <2>1. PICK w \in Slots : w = thStack[arg]
    BY <1>2
  <2>2. PICK cells : cells = [stale EXCEPT ![1] = w]
    OBVIOUS
  <2>3. HeapSize \in Word /\ cells \in [1 .. FrameCells -> Word] /\ cells[1] = w
    BY <2>2, NewCells, SlotFacts
  <2>4. thStack' = thStack \o Frame(HeapSize, cells)
    BY <1>1, <2>1, <2>2
  <2>5. PICK base \in Seq(Word) : base = thStack
    BY <1>2
  <2> DEFINE f == Frame(HeapSize, cells)
  <2>6. f \in Seq(Word) /\ Len(f) = FrameLen /\ f[PrefixLen + 1] = w
    <3>1. /\ f \in Seq(Word) /\ Len(f) = FrameLen
          /\ \A k \in 1 .. FrameCells : f[PrefixLen + k] = cells[k]
      BY <2>3, FrameType
    <3>2. 1 \in 1 .. FrameCells
      BY FrameSize
    <3> HIDE DEF f
    <3> QED BY <2>3, <3>1, <3>2
  <2> HIDE DEF f, L
  <2>7. /\ base \o f \in Seq(Word) /\ Len(base \o f) = Len(base) + Len(f)
        /\ \A i \in 1 .. Len(base) + Len(f) :
             (base \o f)[i] = IF i <= Len(base) THEN base[i] ELSE f[i - Len(base)]
    BY <2>6, ConcatProperties
  <2>8. Len(base) \in Nat
    BY LenProperties
  <2>9. \A k \in 1 .. Len(base) : (base \o f)[k] = base[k]
    BY <2>6, <2>7, <2>8, FrameSize
  <2>10. (base \o f)[Len(base) + PrefixLen + 1] = w
    <3> DEFINE x == Len(base) + PrefixLen + 1
    <3>1. /\ x \in 1 .. Len(base) + Len(f) /\ ~(x <= Len(base))
          /\ x - Len(base) = PrefixLen + 1
      BY <2>6, <2>8, FrameSize
    <3> HIDE DEF x
    <3>2. (base \o f)[x] = f[x - Len(base)]
      BY <2>7, <3>1
    <3>3. (base \o f)[x] = w
      BY <2>6, <3>1, <3>2
    <3> QED BY <3>3 DEF x
  <2>11. thStack' = base \o f /\ L = Len(base)
    BY <2>4, <2>5 DEF f, L
  <2> QED BY <2>1, <2>5, <2>6, <2>7, <2>9, <2>10, <2>11
<1> QED BY <1>3

(* The program calls a method.                                             *)
LEMMA InvokeStep ==
  ASSUME HeapTypeInvariant, Invoke
  PROVE  HeapTypeInvariant'
<1> DEFINE n == Len(frames)
           L == Len(thStack)
<1>0. Running /\ UNCHANGED <<used, marked, ptr, vmhTop, exStack, fvar, gcVars, pc, req, dest, seek, loaded, boot>>
  BY DEF Invoke, Does, heapVars
<1>1. PICK arg \in MyRefs :
        /\ thStack' \in Seq(Word) /\ Len(thStack') = L + FrameLen
        /\ \A k \in 1 .. L : thStack'[k] = thStack[k]
        /\ thStack'[L + PrefixLen + 1] = thStack[arg]
  BY InvokeEffect
<1>2. thStack[arg] \in Slots /\ thStack \in Seq(Word) /\ L \in Nat
  BY ReadRefs, LenProperties DEF MyRefs, HeapTypeInvariant, HeapTypeOK, TypeOK
<1>4. frames # << >> /\ frames \in Seq(Nat) /\ n \in Nat \ {0} /\ L = frames[n] + FrameCells + SuffixLen
      /\ frames[n] \in Nat /\ FrameCells \in Nat \ {0}
  BY <1>0, CellsOnStack, MutatorAssumption DEF Running, HeapTypeInvariant, FramesOK, HeapTypeOK
<1>5. live' = live \cup {L + PrefixLen + 1} /\ frames' = Append(frames, L + PrefixLen)
  BY DEF Invoke
<1> DEFINE b == frames[n]
<1>a. /\ b \in Nat /\ L = b + FrameCells + SuffixLen
      /\ L + PrefixLen + 1 \in 1 .. L + FrameLen /\ 1 .. L \subseteq 1 .. L + FrameLen
      /\ L + PrefixLen = b + FrameLen /\ L + FrameLen = L + PrefixLen + FrameCells + SuffixLen
      /\ L + FrameLen \in Nat \ {0} /\ L + PrefixLen \in Nat
  <2>1. b \in Nat /\ L = b + FrameCells + SuffixLen
    BY <1>4
  <2> HIDE DEF b, L
  <2> QED BY <2>1, FrameSize
<1>6. live' \in SUBSET (1 .. Len(thStack')) /\ \A q \in live' : thStack'[q] \in Slots
  <2>1. \A q \in live : q \in 1 .. L /\ thStack[q] \in Slots
    BY DEF HeapTypeInvariant, HeapTypeOK, RefsAreSlots
  <2> HIDE DEF L
  <2> QED BY <1>1, <1>2, <1>5, <1>a, <2>1
<1>7. TypeOK' /\ OffsetsOK' /\ RefsAreSlots'
  BY <1>0, <1>1, <1>6, DataStep DEF HeapTypeInvariant, HeapTypeOK, TypeOK, RefsAreSlots
<1>8. /\ frames' \in Seq(Nat) /\ Len(frames') = n + 1 /\ frames'[n + 1] = L + PrefixLen
      /\ \A k \in 1 .. n : frames'[k] = frames[k]
  BY <1>4, <1>5, <1>a, AppendProperties
<1>9. FramesOK'
  <2>1. FramesOK
    BY DEF HeapTypeInvariant
  <2>2. frames' # << >> /\ thStack' # << >>
    <3>1. Len(frames') # 0 /\ Len(thStack') # 0
      <4> HIDE DEF n, L
      <4> QED BY <1>1, <1>4, <1>8, <1>a
    <3> QED BY <3>1, EmptySeq
  <2>3. pc' = "run"
    BY <1>0 DEF Running
  <2>4. ASSUME NEW k \in 1 .. n + 1
        PROVE  /\ k = 1 => frames'[k] = PrefixLen
               /\ k > 1 => frames'[k] = frames'[k - 1] + FrameLen
               /\ k = n + 1 => L + FrameLen = frames'[k] + FrameCells + SuffixLen
    <3>1. CASE k \in 1 .. n
      <4>1. k > 1 => k - 1 \in 1 .. n
        BY <1>4, <3>1
      <4>2. k # n + 1
        BY <1>4, <3>1
      <4> QED BY <1>8, <2>1, <3>1, <4>1, <4>2 DEF FramesOK
    <3>2. CASE k = n + 1
      <4>1. frames'[k] = L + PrefixLen /\ k - 1 = n /\ n \in 1 .. n /\ k # 1
        BY <1>4, <1>8, <3>2
      <4>2. frames'[n] = b
        BY <1>8, <4>1
      <4> HIDE DEF n, L, b
      <4> QED BY <1>a, <4>1, <4>2
    <3> QED BY <1>4, <3>1, <3>2
  <2> QED BY <1>1, <1>8, <2>2, <2>3, <2>4 DEF FramesOK
<1>10. HeapTypeOK' /\ DestOK'
  BY <1>0, <1>6, <1>7, <1>8 DEF HeapTypeInvariant, HeapTypeOK, DestOK, Running
<1> QED BY <1>7, <1>9, <1>10 DEF HeapTypeInvariant

(* A method returns: its frame is dropped, and the one below runs on.      *)
LEMMA ReturnEffect ==
  ASSUME HeapTypeInvariant, MethodReturn
  PROVE  LET n == Len(frames)
             b == frames[n - 1]
             m == b + FrameCells + SuffixLen IN
         /\ n \in Nat \ {0} /\ n > 1 /\ b \in Nat /\ m \in Nat \ {0}
         /\ frames' \in Seq(Nat) /\ Len(frames') = n - 1 /\ \A k \in 1 .. n - 1 : frames'[k] = frames[k]
         /\ thStack' \in Seq(Word) /\ Len(thStack') = m
         /\ \A k \in 1 .. m : k \notin CellsOf(b) => thStack'[k] = thStack[k]
         /\ live' \in SUBSET (1 .. m) /\ \A q \in live' : \E r \in live : thStack'[q] = thStack[r]
<1> DEFINE n == Len(frames)
           rest == ReturnTo(Last(frames))
           kept == {q \in live : q <= Len(rest)}
<1>0. /\ Running /\ n > 1 /\ frames' = Front(frames)
      /\ UNCHANGED <<used, marked, ptr, vmhTop, exStack, fvar, gcVars, pc, req, dest, seek, loaded, boot>>
  BY DEF MethodReturn, Does, heapVars
<1>1. frames # << >> /\ frames \in Seq(Nat) /\ FramesOK
  BY <1>0 DEF Running, HeapTypeInvariant, FramesOK, HeapTypeOK
<1>2. /\ n \in Nat \ {0} /\ Last(frames) = frames[n]
      /\ frames' \in Seq(Nat) /\ Len(frames') = n - 1 /\ \A k \in 1 .. n - 1 : frames'[k] = frames[k]
  BY <1>0, <1>1, FrontLast
<1> DEFINE b == frames[n - 1]
           m == b + FrameCells + SuffixLen
<1>3. b \in Nat /\ FrameCells \in Nat \ {0} /\ m \in Nat \ {0}
  BY <1>0, <1>1, <1>2, MutatorAssumption, ElementOfSeq DEF SuffixLen
<1>4. Last(frames) = b + FrameLen /\ Last(frames) - PrefixLen = m /\ Len(thStack) = Last(frames) + FrameCells + SuffixLen
  <2>1. n \in 1 .. Len(frames) /\ n > 1
    BY <1>0, <1>2
  <2>2. frames[n] = b + FrameLen /\ Len(thStack) = frames[n] + FrameCells + SuffixLen
    BY <1>1, <2>1 DEF FramesOK
  <2>3. Last(frames) = b + FrameLen /\ Len(thStack) = Last(frames) + FrameCells + SuffixLen
    BY <1>2, <2>2
  <2>4. b \in Nat
    BY <1>3
  <2>5. \A x : x = b + FrameLen => x - PrefixLen = m
    <3> HIDE DEF b
    <3> QED BY <2>4, FrameSize
  <2> HIDE DEF b, m
  <2> QED BY <2>3, <2>5
<1>5. thStack \in Seq(Word)
  BY DEF HeapTypeInvariant, HeapTypeOK, TypeOK
<1>6. rest \in Seq(Word) /\ Len(rest) = m /\ \A k \in 1 .. m : rest[k] = thStack[k]
  <2>1. m <= Len(thStack)
    BY <1>3, <1>4, FrameSize
  <2>2. rest = SubSeq(thStack, 1, m)
    BY <1>4 DEF ReturnTo
  <2> HIDE DEF m, rest
  <2>3. \A k \in 1 .. m : thStack[k] \in Word
    BY <1>3, <1>5, <2>1, ElementOfSeq, LenProperties
  <2>4. /\ SubSeq(thStack, 1, m) \in Seq(Word)
        /\ Len(SubSeq(thStack, 1, m)) = IF 1 <= m THEN m - 1 + 1 ELSE 0
        /\ \A k \in 1 .. m - 1 + 1 : SubSeq(thStack, 1, m)[k] = thStack[1 + k - 1]
    BY <1>3, <2>3, SubSeqProperties
  <2>5. Len(rest) = m
    BY <1>3, <2>2, <2>4
  <2>6. ASSUME NEW k \in 1 .. m PROVE rest[k] = thStack[k]
    <3>1. k \in 1 .. m - 1 + 1 /\ 1 + k - 1 = k
      BY <1>3
    <3> QED BY <2>2, <2>4, <3>1
  <2> QED BY <2>2, <2>4, <2>5, <2>6
<1> HIDE DEF rest
<1>7. kept \in SUBSET (1 .. m) /\ \A q \in kept : q \in live /\ rest[q] = thStack[q]
  <2>1. \A q \in live : q \in Nat \ {0}
    BY DEF HeapTypeInvariant, HeapTypeOK
  <2> HIDE DEF m
  <2> QED BY <1>3, <1>6, <2>1
<1>8. /\ thStack' \in Seq(Word) /\ Len(thStack') = m
      /\ \A k \in 1 .. m : k \notin CellsOf(b) => thStack'[k] = thStack[k]
      /\ live' \in SUBSET (1 .. m) /\ \A q \in live' : \E r \in live : thStack'[q] = thStack[r]
  <2>1. CASE thStack' = rest /\ live' = kept
    BY <1>6, <1>7, <2>1
  <2>2. CASE \E q \in MyRefs, p \in CellsOf(b) : thStack' = [rest EXCEPT ![p] = thStack[q]] /\ live' = kept \cup {p}
    <3>1. PICK q \in MyRefs, p \in CellsOf(b) : thStack' = [rest EXCEPT ![p] = thStack[q]] /\ live' = kept \cup {p}
      BY <2>2
    <3>2. p \in 1 .. m /\ q \in live
      BY <1>3 DEF CellsOf, SuffixLen, MyRefs
    <3>3. PICK w \in Slots : w = thStack[q]
      BY <3>2, ReadRefs
    <3>4. w \in Word /\ p \in 1 .. Len(rest)
      BY <1>6, <3>2, SlotFacts
    <3>5. /\ [rest EXCEPT ![p] = w] \in Seq(Word) /\ Len([rest EXCEPT ![p] = w]) = Len(rest)
          /\ \A j \in 1 .. Len(rest) : [rest EXCEPT ![p] = w][j] = IF j = p THEN w ELSE rest[j]
      BY <1>6, <3>4, ExceptSeq
    <3>6. thStack' = [rest EXCEPT ![p] = w] /\ live' = kept \cup {p}
      BY <3>1, <3>3
    <3> HIDE DEF m, kept
    <3>7. \A k \in 1 .. m : thStack'[k] = IF k = p THEN w ELSE thStack[k]
      BY <1>6, <3>5, <3>6
    <3>8. \A k \in 1 .. m : k \notin CellsOf(b) => thStack'[k] = thStack[k]
      BY <3>1, <3>7
    <3>9. ASSUME NEW j \in live' PROVE \E r \in live : thStack'[j] = thStack[r]
      <4>1. CASE j = p
        BY <3>2, <3>3, <3>7, <4>1
      <4>2. CASE j # p
        BY <1>7, <3>6, <3>7, <4>2
      <4> QED BY <4>1, <4>2
    <3> QED BY <1>6, <1>7, <3>2, <3>5, <3>6, <3>8, <3>9
  <2>3. \/ thStack' = rest /\ live' = kept
        \/ \E q \in MyRefs, p \in CellsOf(b) : thStack' = [rest EXCEPT ![p] = thStack[q]] /\ live' = kept \cup {p}
    BY DEF MethodReturn, rest
  <2> QED BY <2>1, <2>2, <2>3
<1> HIDE DEF m, b
<1> QED BY <1>0, <1>2, <1>3, <1>8 DEF m, b

(* So the types are kept.                                                  *)
LEMMA ReturnStep ==
  ASSUME HeapTypeInvariant, MethodReturn
  PROVE  HeapTypeInvariant'
<1> DEFINE n == Len(frames)
           b == frames[n - 1]
           m == b + FrameCells + SuffixLen
<1>0. /\ Running
      /\ UNCHANGED <<used, marked, ptr, vmhTop, exStack, fvar, gcVars, pc, req, dest, seek, loaded, boot>>
  BY DEF MethodReturn, Does, heapVars
<1>1. FramesOK
  BY DEF HeapTypeInvariant
<1>2. /\ n \in Nat \ {0} /\ n > 1 /\ b \in Nat /\ m \in Nat \ {0}
      /\ frames' \in Seq(Nat) /\ Len(frames') = n - 1 /\ \A k \in 1 .. n - 1 : frames'[k] = frames[k]
      /\ thStack' \in Seq(Word) /\ Len(thStack') = m
      /\ live' \in SUBSET (1 .. m) /\ \A q \in live' : \E r \in live : thStack'[q] = thStack[r]
  BY ReturnEffect
<1>3. \A q \in live' : thStack'[q] \in Slots
  BY <1>2, ReadRefs
<1>9. TypeOK' /\ OffsetsOK' /\ RefsAreSlots'
  BY <1>0, <1>2, <1>3, DataStep DEF HeapTypeInvariant, HeapTypeOK, TypeOK, RefsAreSlots
<1>10. FramesOK'
  <2>1. frames' # << >> /\ thStack' # << >>
    BY <1>2, EmptySeq
  <2>2. pc' = "run"
    BY <1>0 DEF Running
  <2>3. ASSUME NEW k \in 1 .. n - 1
        PROVE  /\ k = 1 => frames'[k] = PrefixLen
               /\ k > 1 => frames'[k] = frames'[k - 1] + FrameLen
               /\ k = n - 1 => m = frames'[k] + FrameCells + SuffixLen
    <3>1. k \in 1 .. n /\ (k > 1 => k - 1 \in 1 .. n - 1)
      BY <1>2
    <3> QED BY <1>1, <1>2, <3>1 DEF FramesOK
  <2> HIDE DEF m
  <2> QED BY <1>2, <2>1, <2>2, <2>3 DEF FramesOK
<1>11. HeapTypeOK' /\ DestOK'
  BY <1>0, <1>2, <1>9 DEF HeapTypeInvariant, HeapTypeOK, DestOK, Running
<1> QED BY <1>9, <1>10, <1>11 DEF HeapTypeInvariant

(* main() enters the method main of the program.                           *)
LEMMA MainStep ==
  ASSUME HeapTypeInvariant, BootMain
  PROVE  HeapTypeInvariant'
<1>0. /\ pc = "boot" /\ frames' = <<PrefixLen>> /\ live' \subseteq {PrefixLen + 1} /\ pc' \in {"run", "halted"}
      /\ UNCHANGED <<used, marked, ptr, vmhTop, exStack, fvar, gcVars, req, dest, seek, loaded, boot>>
  BY DEF BootMain, heapVars
<1>1. PICK stale \in [1 .. FrameCells -> StaleWords] : thStack' = Frame(0, [stale EXCEPT ![1] = boot.argv])
  BY DEF BootMain
<1>2. boot.argv \in Slots /\ FrameCells \in Nat \ {0}
  BY MutatorAssumption DEF HeapTypeInvariant, HeapTypeOK
<1>3. /\ thStack' \in Seq(Word) /\ Len(thStack') = FrameLen /\ thStack'[PrefixLen + 1] = boot.argv
  <2>1. PICK w \in Slots : w = boot.argv
    BY <1>2
  <2>2. PICK cells : cells = [stale EXCEPT ![1] = w]
    OBVIOUS
  <2>3. cells \in [1 .. FrameCells -> Word] /\ cells[1] = w
    BY <2>2, NewCells
  <2>4. /\ Frame(0, cells) \in Seq(Word) /\ Len(Frame(0, cells)) = FrameLen
        /\ \A k \in 1 .. FrameCells : Frame(0, cells)[PrefixLen + k] = cells[k]
    BY <2>3, FrameType, SlotFacts
  <2>5. 1 \in 1 .. FrameCells /\ thStack' = Frame(0, cells)
    BY <1>1, <1>2, <2>1, <2>2
  <2> QED BY <2>1, <2>3, <2>4, <2>5
<1>4. live' \in SUBSET (1 .. Len(thStack')) /\ \A q \in live' : thStack'[q] \in Slots
  <2>1. PrefixLen + 1 \in 1 .. Len(thStack')
    BY <1>2, <1>3, FrameSize
  <2>2. \A q \in live' : q = PrefixLen + 1
    BY <1>0
  <2> QED BY <1>2, <1>3, <2>1, <2>2
<1>5. TypeOK' /\ OffsetsOK' /\ RefsAreSlots'
  BY <1>0, <1>3, <1>4, DataStep DEF HeapTypeInvariant, HeapTypeOK, TypeOK, RefsAreSlots
<1>6. FramesOK'
  <2>1. frames' # << >> /\ thStack' # << >> /\ Len(frames') = 1 /\ frames'[1] = PrefixLen
    BY <1>0, <1>2, <1>3, EmptySeq, FrameSize
  <2>2. Len(thStack') = PrefixLen + FrameCells + SuffixLen /\ \A k \in 1 .. 1 : k = 1 /\ ~(k > 1)
    BY <1>3 DEF FrameLen
  <2> QED BY <1>0, <2>1, <2>2 DEF FramesOK
<1>7. frames' \in Seq(Nat)
  BY <1>0 DEF PrefixLen
<1>8. HeapTypeOK' /\ DestOK'
  BY <1>0, <1>4, <1>5, <1>7 DEF HeapTypeInvariant, HeapTypeOK, DestOK
<1> QED BY <1>5, <1>6, <1>8 DEF HeapTypeInvariant

(* The program ends.                                                       *)
LEMMA HaltStep ==
  ASSUME HeapTypeInvariant, Halt \/ FieldBeyond
  PROVE  HeapTypeInvariant'
<1>1. Running /\ pc' \in {"halted", "corrupt"} /\ UNCHANGED <<allVars, req, dest, seek, frames, live, loaded, boot>>
  BY DEF Halt, FieldBeyond, Does
<1>2. TypeOK' /\ OffsetsOK' /\ RefsAreSlots'
  BY <1>1, DataStep DEF HeapTypeInvariant, HeapTypeOK, TypeOK, RefsAreSlots, allVars, gcVars
<1>3. frames # << >>
  BY <1>1 DEF Running, HeapTypeInvariant, FramesOK
<1> QED BY <1>1, <1>2, <1>3, RunStep DEF HeapTypeInvariant, HeapTypeOK, allVars

---------------------------------------------------------------------------
(* The steps of main() and the instructions that call allocateObject.      *)
LEMMA CallStep ==
  ASSUME HeapTypeInvariant,
         UNCHANGED <<heapVars, thStack, fvar, gcVars, frames, live, loaded, boot>>,
         exStack' \in Seq(Slots),
         NEW b \in Block, RefsOfBlock(b),
         NEW to \in Purposes \ {"string", "inner"}, NEW pos \in Nat, NEW i \in Nat,
         Request(b, Dest(to, pos, i), vmhTop),
         to \in {"boot", "argv"} => pos = 0,
         IF pos = 0 THEN frames = << >> /\ to \in {"boot", "argv", "chars"}
         ELSE frames # << >> /\ pos \in 1 .. Len(thStack),
         to \in {"boot", "mirror"} => b.cls \in Classes
  PROVE  HeapTypeInvariant'
<1>1. UNCHANGED <<used, marked, ptr, vmhTop, thStack, fvar, gcVars, frames, live, loaded, boot>>
  BY DEF heapVars
<1>2. TypeOK' /\ OffsetsOK' /\ RefsAreSlots' /\ live' \in SUBSET (1 .. Len(thStack'))
  BY <1>1, DataStep DEF HeapTypeInvariant, HeapTypeOK, TypeOK, RefsAreSlots
<1>3. pc' = "alloc"
  BY DEF Request
<1>4. FramesOK'
  BY <1>1, <1>3, FramesStep DEF HeapTypeInvariant, HeapTypeOK, TypeOK
<1>5. vmhTop \in -1 .. HeapSize - 1 /\ loaded' \in SUBSET Classes
  BY <1>1 DEF HeapTypeInvariant, HeapTypeOK, TypeOK
<1>6. to \in Purposes /\ to \notin {"string", "inner"} /\ pos \in Nat /\ i \in Nat
  BY DEF Purposes
<1>7. IF pos = 0 THEN frames = << >> /\ to \in {"boot", "argv", "chars", "string"}
      ELSE frames # << >> /\ pos \in 1 .. Len(thStack')
  BY <1>1
<1> QED BY <1>1, <1>2, <1>4, <1>5, <1>6, <1>7, RequestStep

(* A Java string is made: its char array first.                            *)
LEMMA StringStep ==
  ASSUME HeapTypeInvariant,
         UNCHANGED <<heapVars, exStack, thStack, fvar, gcVars, frames, live, loaded, boot>>,
         NEW pos \in Nat, NEW i \in Nat, NewString(Dest("chars", pos, i)),
         IF pos = 0 THEN frames = << >> ELSE frames # << >> /\ pos \in 1 .. Len(thStack)
  PROVE  HeapTypeInvariant'
<1>1. [Dest("chars", pos, i) EXCEPT !.to = "chars"] = Dest("chars", pos, i)
  BY DEF Dest
<1>2. PICK b : b = Array(5, <<HeapSize>>)
  OBVIOUS
<1>3. Request(b, Dest("chars", pos, i), vmhTop)
  BY <1>1, <1>2 DEF NewString
<1>4. b \in Block /\ RefsOfBlock(b)
  BY <1>2, NewBlocks
<1>5. exStack' \in Seq(Slots) /\ "chars" \in Purposes \ {"string", "inner"}
  BY DEF HeapTypeInvariant, RefsAreSlots, Purposes
<1>6. IF pos = 0 THEN frames = << >> /\ "chars" \in {"boot", "argv", "chars"}
      ELSE frames # << >> /\ pos \in 1 .. Len(thStack)
  OBVIOUS
<1> QED BY <1>3, <1>4, <1>5, <1>6, CallStep

(* Each of them.                                                           *)
LEMMA CallsStep ==
  ASSUME HeapTypeInvariant,
         BootLoad \/ BootArgv \/ BootArg \/ New \/ NewArray \/ LoadString \/ MultiANewArray
  PROVE  HeapTypeInvariant'
<1>0. /\ exStack \in Seq(Slots) /\ (pc = "boot" => frames = << >>)
      /\ boot.step \in Nat \ {0} /\ boot.mirror \in Slots
  BY DEF HeapTypeInvariant, HeapTypeOK, RefsAreSlots, FramesOK
<1>1. CASE BootLoad
  <2>1. PICK b : b = Mirror(BootClasses[boot.step])
    OBVIOUS
  <2>2. BootClasses[boot.step] \in Classes
    <3>1. NClasses \in Nat /\ boot.step \in 1 .. NClasses /\ BootClasses \in Seq(Classes)
      BY <1>0, <1>1, MutatorAssumption, LenProperties DEF BootLoad, NClasses
    <3> QED BY <3>1, ElementOfSeq DEF NClasses
  <2>3. b \in Block /\ RefsOfBlock(b) /\ b.cls \in Classes
    BY <2>1, <2>2, NewBlocks
  <2>4. Request(b, Dest("boot", 0, 0), vmhTop) /\ pc = "boot"
    BY <1>1, <2>1 DEF BootLoad
  <2>5. "boot" \in Purposes \ {"string", "inner"} /\ 0 \in Nat
    BY DEF Purposes
  <2>6. UNCHANGED <<heapVars, thStack, fvar, gcVars, frames, live, loaded, boot>> /\ exStack' = exStack
    BY <1>1 DEF BootLoad, allVars, heapVars, gcVars
  <2> QED BY <1>0, <2>3, <2>4, <2>5, <2>6, CallStep
<1>2. CASE BootArgv
  <2>1. PICK b : b = Array(1, Zeros(NumArgs))
    OBVIOUS
  <2>2. b \in Block /\ RefsOfBlock(b)
    BY <2>1, NewBlocks, MutatorAssumption
  <2>3. Request(b, Dest("argv", 0, 0), vmhTop) /\ pc = "boot"
    BY <1>2, <2>1 DEF BootArgv
  <2>4. "argv" \in Purposes \ {"string", "inner"} /\ 0 \in Nat
    BY DEF Purposes
  <2>5. exStack' \in Seq(Slots)
    BY <1>0, <1>2, AppendProperties DEF BootArgv
  <2>6. UNCHANGED <<heapVars, thStack, fvar, gcVars, frames, live, loaded, boot>>
    BY <1>2 DEF BootArgv
  <2> QED BY <1>0, <2>2, <2>3, <2>4, <2>5, <2>6, CallStep
<1>3. CASE BootArg
  <2>1. pc = "boot" /\ boot.step - NClasses - 1 \in Nat
    <3>1. NClasses \in Nat
      BY MutatorAssumption, LenProperties DEF NClasses
    <3> QED BY <1>0, <1>3, <3>1 DEF BootArg
  <2>2. PICK i \in Nat : i = boot.step - NClasses - 1
    BY <2>1
  <2>3. NewString(Dest("chars", 0, i))
    BY <1>3, <2>2 DEF BootArg
  <2>4. UNCHANGED <<heapVars, exStack, thStack, fvar, gcVars, frames, live, loaded, boot>>
    BY <1>3 DEF BootArg, allVars, heapVars, gcVars
  <2> QED BY <1>0, <2>1, <2>2, <2>3, <2>4, StringStep
<1>4. CASE New \/ NewArray \/ LoadString \/ MultiANewArray
  <2>1. Running /\ UNCHANGED <<heapVars, exStack, thStack, fvar, gcVars, frames, live, loaded, boot>>
    BY <1>4 DEF New, NewArray, LoadString, MultiANewArray, Does, allVars, heapVars, gcVars
  <2>2. frames # << >>
    BY <2>1 DEF Running, HeapTypeInvariant, FramesOK
  <2>3. \A p \in MyCells : p \in Nat /\ p # 0 /\ p \in 1 .. Len(thStack)
    BY <2>2, CellsOnStack DEF HeapTypeInvariant, HeapTypeOK, TypeOK
  <2>4. {"cell", "mirror", "outer"} \subseteq Purposes \ {"string", "inner"} /\ 0 \in Nat /\ 1 \in Nat
    BY DEF Purposes
  <2>5. ASSUME NEW p \in MyCells, NEW b \in Block, RefsOfBlock(b), NEW to \in {"cell", "mirror", "outer"}, NEW i \in {0, 1},
               Request(b, Dest(to, p, i), vmhTop), to = "mirror" => b.cls \in Classes
        PROVE  HeapTypeInvariant'
    <3>1. to \in Purposes \ {"string", "inner"} /\ i \in Nat /\ p \in Nat /\ p # 0 /\ to \notin {"boot", "argv"}
      BY <2>3, <2>4
    <3> QED BY <1>0, <2>1, <2>2, <2>3, <2>5, <3>1, CallStep
  <2>6. CASE New
    <3>1. PICK c \in NewClasses, p \in MyCells :
            IF c \in loaded THEN Request(Instant(c), Dest("cell", p, 0), vmhTop)
            ELSE Request(Mirror(c), Dest("mirror", p, 0), vmhTop)
      BY <2>6 DEF New
    <3>2. c \in Classes
      BY MutatorAssumption
    <3>3. PICK b1, b2 : b1 = Instant(c) /\ b2 = Mirror(c)
      OBVIOUS
    <3>4. b1 \in Block /\ RefsOfBlock(b1) /\ b2 \in Block /\ RefsOfBlock(b2) /\ b2.cls \in Classes
      BY <3>2, <3>3, NewBlocks
    <3>5. Request(b1, Dest("cell", p, 0), vmhTop) \/ Request(b2, Dest("mirror", p, 0), vmhTop)
      BY <3>1, <3>3
    <3> QED BY <2>5, <3>4, <3>5
  <2>7. CASE NewArray
    <3>1. PICK b \in Arrays, p \in MyCells : Request(b, Dest("cell", p, 0), vmhTop)
      BY <2>7 DEF NewArray
    <3>2. b \in Block /\ RefsOfBlock(b)
      BY NewBlocks
    <3> QED BY <2>5, <3>1, <3>2
  <2>8. CASE LoadString
    <3>1. PICK p \in MyCells : NewString(Dest("chars", p, 0))
      BY <2>8 DEF LoadString
    <3> QED BY <2>1, <2>2, <2>3, <3>1, StringStep
  <2>9. CASE MultiANewArray
    <3>1. PICK b : b = Array(2, Zeros(OuterLen))
      OBVIOUS
    <3>2. PICK p \in MyCells : Request(b, Dest("outer", p, 1), vmhTop)
      BY <2>9, <3>1 DEF MultiANewArray
    <3>3. b \in Block /\ RefsOfBlock(b)
      BY <3>1, NewBlocks DEF OuterLen
    <3> QED BY <2>5, <3>2, <3>3
  <2> QED BY <1>4, <2>6, <2>7, <2>8, <2>9
<1> QED BY <1>1, <1>2, <1>3, <1>4

---------------------------------------------------------------------------
(* The allocator hands out a free slot.                                    *)
LEMMA ChosenFree ==
  ASSUME seek \in 0 .. HeapSize, used \in SUBSET Slots, Free # {}
  PROVE  Chosen \in Free
<1>1. FirstFree \in Free
  <2> DEFINE R == OpToRel(<, Nat)
  <2>1. Free \subseteq Nat
    BY SlotFacts DEF Free
  <2>2. IsWellFoundedOn(R, Nat)
    BY NatLessThanWellFounded
  <2>3. PICK m \in Free : \A k \in Free : ~(<<k, m>> \in R)
    <3> HIDE DEF R
    <3> QED BY <2>1, <2>2, WFMin
  <2>4. \A k \in Free : m <= k
    <3> TAKE k \in Free
    <3>1. ~(<<k, m>> \in R) /\ k \in Nat /\ m \in Nat
      BY <2>1, <2>3
    <3> QED BY <3>1 DEF OpToRel
  <2> QED BY <2>4 DEF FirstFree
<1>2. seek < HeapSize /\ seek \notin used => seek \in Free
  BY HeapAssumption DEF Free, Slots
<1> QED BY <1>1, <1>2 DEF Chosen

(* The allocated slot, and the heap with the block in it.                  *)
LEMMA AllocateData ==
  ASSUME HeapTypeInvariant, Allocate
  PROVE  \E s \in Free, h \in [Slots -> Block] :
           /\ h = [ptr EXCEPT ![s] = req] /\ (\A t \in Slots : RefsOfBlock(h[t])) /\ Deliver(s, h)
           /\ used' = used \cup {s} /\ marked' = marked \ {s} /\ vmhTop' = s
           /\ used' \in SUBSET Slots /\ marked' \in SUBSET Slots /\ vmhTop' \in -1 .. HeapSize - 1
<1>1. /\ seek \in 0 .. HeapSize /\ used \in SUBSET Slots /\ marked \in SUBSET Slots
      /\ ptr \in [Slots -> Block] /\ req \in Block
  BY DEF HeapTypeInvariant, HeapTypeOK, TypeOK
<1>2. Free # {} /\ pc = "alloc"
  BY DEF Allocate
<1>3. PICK s : s = Chosen
  OBVIOUS
<1>4. s \in Free /\ s \in Slots /\ s \in Nat
  BY <1>1, <1>2, <1>3, ChosenFree, SlotFacts DEF Free
<1>5. PICK h : h = [ptr EXCEPT ![s] = req]
  OBVIOUS
<1>6. h \in [Slots -> Block] /\ h[s] = req /\ \A t \in Slots \ {s} : h[t] = ptr[t]
  BY <1>1, <1>4, <1>5
<1>7. \A t \in Slots : RefsOfBlock(h[t])
  BY <1>2, <1>6 DEF HeapTypeInvariant, RefsAreSlots, DestOK
<1>8. /\ used' = used \cup {s} /\ marked' = marked \ {s} /\ vmhTop' = s /\ Deliver(s, h)
  BY <1>3, <1>5 DEF Allocate
<1>9. s \in -1 .. HeapSize - 1
  BY <1>4, HeapAssumption DEF Slots
<1> QED BY <1>1, <1>4, <1>5, <1>6, <1>7, <1>8, <1>9

(* The references of a String are not its length.                          *)
LEMMA WithCharsRefs ==
  ASSUME NEW h \in [Slots -> Block], \A t \in Slots : RefsOfBlock(h[t]),
         NEW s \in Slots, h[s] = Instant(StringClass), NEW chars \in Slots
  PROVE  WithChars(h, s, chars) \in [Slots -> Block] /\ \A t \in Slots : RefsOfBlock(WithChars(h, s, chars)[t])
<1>1. PICK g : g = Store(h, s, 1, chars)
  OBVIOUS
<1>2. g \in [Slots -> Block] /\ \A t \in Slots : RefsOfBlock(g[t])
  BY <1>1, StoreRefs
<1>3. g[s].cls = StringClass /\ g[s].type = 0
  <2>1. h[s].cls = StringClass /\ h[s].type = 0
    BY NewBlocks, MutatorAssumption
  <2>2. chars \in Word
    BY SlotFacts
  <2> QED BY <1>1, <2>1, <2>2, StoreType
<1>4. PICK e : e = Store(g, s, 2, HeapSize)
  OBVIOUS
<1>5. /\ e \in [Slots -> Block] /\ \A t \in Slots \ {s} : e[t] = g[t]
      /\ e[s].cls = StringClass /\ e[s].type = 0 /\ Len(e[s].words) = Len(g[s].words)
      /\ \A i \in 1 .. Len(g[s].words) : i # 2 => e[s].words[i] = g[s].words[i]
  <2>1. HeapSize \in Word /\ 2 \in Nat
    BY SlotFacts
  <2>2. PICK k \in Nat : k = 2
    BY <2>1
  <2>3. e = Store(g, s, k, HeapSize)
    BY <1>4, <2>2
  <2>4. /\ e \in [Slots -> Block] /\ \A t \in Slots \ {s} : e[t] = g[t]
        /\ e[s].cls = g[s].cls /\ e[s].type = g[s].type /\ Len(e[s].words) = Len(g[s].words)
        /\ \A i \in 1 .. Len(g[s].words) : e[s].words[i] = IF i = k THEN HeapSize ELSE g[s].words[i]
    BY <1>2, <2>1, <2>3, StoreType
  <2> QED BY <1>3, <2>2, <2>4
<1>6. RefsOfBlock(e[s])
  <2>1. \A j \in InstRefs(StringClass) : VarOffs(StringClass, j) + 1 = 1
    BY MutatorAssumption DEF InstRefs
  <2>2. RefsOfBlock(g[s]) /\ StringClass \in Classes
    BY <1>2, MutatorAssumption
  <2>3. \A j \in InstRefs(StringClass) : 1 \in 1 .. Len(g[s].words) => g[s].words[1] \in Slots
    BY <1>3, <2>1, <2>2 DEF RefsOfBlock
  <2>4. Len(e[s].words) <= NumVars(StringClass)
    BY <1>3, <1>5, <2>2 DEF RefsOfBlock
  <2>5. \A j \in InstRefs(StringClass) :
          VarOffs(StringClass, j) + 1 \in 1 .. Len(e[s].words) => e[s].words[VarOffs(StringClass, j) + 1] \in Slots
    BY <1>5, <2>1, <2>3
  <2> QED BY <1>5, <2>4, <2>5 DEF RefsOfBlock
<1>7. WithChars(h, s, chars) \in {g, e}
  BY <1>1, <1>4 DEF WithChars
<1> QED BY <1>2, <1>5, <1>6, <1>7

(* allocateObject returns, and its caller goes on.                         *)
LEMMA AllocateStep ==
  ASSUME HeapTypeInvariant, Allocate
  PROVE  HeapTypeInvariant'
<1>1. PICK s \in Free, h \in [Slots -> Block] :
           /\ \A t \in Slots : RefsOfBlock(h[t])
           /\ h = [ptr EXCEPT ![s] = req] /\ Deliver(s, h)
           /\ used' \in SUBSET Slots /\ marked' \in SUBSET Slots /\ vmhTop' \in -1 .. HeapSize - 1
           /\ vmhTop' = s
  BY AllocateData
<1>2. s \in Slots /\ s \in -1 .. HeapSize - 1 /\ s \in Word
  BY <1>1, SlotFacts DEF Free
<1>3. UNCHANGED <<fvar, gcVars>> /\ frames' = frames /\ pc = "alloc"
  BY DEF Allocate
<1>4. /\ ptr \in [Slots -> Block] /\ thStack \in Seq(Word) /\ exStack \in Seq(Slots) /\ req \in Block
      /\ live \in SUBSET (1 .. Len(thStack)) /\ (\A p \in live : thStack[p] \in Slots)
      /\ boot \in [step : Nat \ {0}, mirror : Slots, argv : Slots] /\ loaded \in SUBSET Classes
      /\ dest \in [to : Purposes, pos : Nat, i : Nat] /\ seek \in 0 .. HeapSize
      /\ frames \in Seq(Nat)
  BY DEF HeapTypeInvariant, HeapTypeOK, TypeOK, RefsAreSlots, Purposes
<1>5. /\ dest.to \in Purposes /\ dest.pos \in Nat /\ dest.i \in Nat
      /\ boot.argv \in Slots /\ boot.step \in Nat \ {0} /\ boot.mirror \in Slots
  BY <1>4
<1>6. /\ RefsOfBlock(req)
      /\ dest.to \in {"boot", "argv"} => dest.pos = 0
      /\ IF dest.pos = 0 THEN frames = << >> /\ dest.to \in {"boot", "argv", "chars", "string"}
         ELSE frames # << >> /\ dest.pos \in 1 .. Len(thStack)
      /\ dest.to \in {"string", "inner"} => exStack # << >>
      /\ dest.to \in {"boot", "mirror"} => req.cls \in Classes
      /\ dest.to = "string" => req = Instant(StringClass)
  BY <1>3 DEF HeapTypeInvariant, DestOK
(* What every case needs, from the heap and the stacks it leaves.          *)
<1>7. ASSUME ptr' \in [Slots -> Block], \A t \in Slots : RefsOfBlock(ptr'[t]),
             exStack' \in Seq(Slots), thStack' \in Seq(Word), Len(thStack') = Len(thStack),
             live' \in SUBSET (1 .. Len(thStack')), \A p \in live' : thStack'[p] \in Slots,
             pc' = "run" => frames # << >>, pc' = "boot" => frames = << >>
      PROVE  TypeOK' /\ OffsetsOK' /\ RefsAreSlots' /\ FramesOK'
  <2>1. FramesOK'
    BY <1>3, <1>7, FramesStep
  <2> QED BY <1>1, <1>3, <1>7, <2>1, DataStep
(* The caller ran on.                                                      *)
<1>8. ASSUME TypeOK', OffsetsOK', RefsAreSlots', FramesOK', live' \in SUBSET (1 .. Len(thStack')),
             pc' \in {"run", "boot"}, UNCHANGED <<req, dest, seek>>, loaded' \in SUBSET Classes,
             boot' \in [step : Nat \ {0}, mirror : Slots, argv : Slots]
      PROVE  HeapTypeInvariant'
  <2>1. HeapTypeOK'
    BY <1>3, <1>4, <1>8 DEF HeapTypeOK, Purposes
  <2>2. DestOK'
    BY <1>8 DEF DestOK
  <2> QED BY <1>8, <2>1, <2>2 DEF HeapTypeInvariant
<1>9. dest = Dest(dest.to, dest.pos, dest.i)
  BY <1>4 DEF Dest
<1>10. \A to : [dest EXCEPT !.to = to] = Dest(to, dest.pos, dest.i)
  BY <1>4 DEF Dest
<1>11. CASE dest.to = "boot"
  <2>1. /\ ptr' = h /\ pc' = "boot" /\ loaded' = loaded \cup {req.cls}
        /\ boot' = [boot EXCEPT !.step = @ + 1, !.mirror = s]
        /\ UNCHANGED <<exStack, thStack, live, req, dest, seek>>
    BY <1>1, <1>11 DEF Deliver
  <2>2. boot' \in [step : Nat \ {0}, mirror : Slots, argv : Slots]
    <3>1. boot' = [step |-> boot.step + 1, mirror |-> s, argv |-> boot.argv]
      BY <1>4, <2>1
    <3>2. boot.step + 1 \in Nat \ {0}
      BY <1>5
    <3> QED BY <1>2, <1>5, <3>1, <3>2
  <2>3. frames = << >> /\ loaded' \in SUBSET Classes
    BY <1>4, <1>6, <1>11, <2>1
  <2>4. TypeOK' /\ OffsetsOK' /\ RefsAreSlots' /\ FramesOK'
    BY <1>1, <1>4, <1>7, <2>1, <2>3
  <2> QED BY <1>4, <1>8, <2>1, <2>2, <2>3, <2>4
<1>12. CASE dest.to = "mirror"
  <2>1. PICK b : b = Instant(req.cls)
    OBVIOUS
  <2>2. /\ ptr' = h /\ loaded' = loaded \cup {req.cls}
        /\ Request(b, Dest("cell", dest.pos, dest.i), s)
        /\ UNCHANGED <<exStack, thStack, live, boot>>
    BY <1>1, <1>10, <1>12, <2>1 DEF Deliver
  <2>3. b \in Block /\ RefsOfBlock(b) /\ loaded' \in SUBSET Classes
    BY <1>4, <1>6, <1>12, <2>1, <2>2, NewBlocks
  <2>4. pc' = "alloc"
    BY <2>2 DEF Request
  <2>5. TypeOK' /\ OffsetsOK' /\ RefsAreSlots' /\ FramesOK'
    BY <1>1, <1>4, <1>7, <2>2, <2>4
  <2>6. dest.pos # 0 /\ frames # << >> /\ dest.pos \in 1 .. Len(thStack')
    BY <1>6, <1>12, <2>2
  <2>7. live' \in SUBSET (1 .. Len(thStack')) /\ "cell" \in Purposes
    BY <1>4, <2>2 DEF Purposes
  <2> QED BY <1>2, <1>3, <1>5, <2>2, <2>3, <2>5, <2>6, <2>7, RequestStep
<1>13. CASE dest.to = "cell"
  <2>1. ptr' = h /\ PutRef(dest.pos, s) /\ pc' = "run" /\ UNCHANGED <<exStack, req, dest, seek, loaded, boot>>
    BY <1>1, <1>13 DEF Deliver
  <2>2. dest.pos \in 1 .. Len(thStack) /\ frames # << >>
    BY <1>6, <1>13
  <2>3. /\ thStack' \in Seq(Word) /\ Len(thStack') = Len(thStack)
        /\ live' \in SUBSET (1 .. Len(thStack')) /\ \A q \in live' : thStack'[q] \in Slots
    BY <1>2, <2>1, <2>2, PutRefStep
  <2>4. TypeOK' /\ OffsetsOK' /\ RefsAreSlots' /\ FramesOK'
    BY <1>1, <1>4, <1>7, <2>1, <2>2, <2>3
  <2> QED BY <1>4, <1>8, <2>1, <2>3, <2>4
<1>14. CASE dest.to = "argv"
  <2>1. /\ ptr' = h /\ pc' = "boot" /\ boot' = [boot EXCEPT !.step = @ + 1, !.argv = s]
        /\ UNCHANGED <<exStack, thStack, live, req, dest, seek, loaded>>
    BY <1>1, <1>14 DEF Deliver
  <2>2. boot' \in [step : Nat \ {0}, mirror : Slots, argv : Slots]
    <3>1. boot' = [step |-> boot.step + 1, mirror |-> boot.mirror, argv |-> s]
      BY <1>4, <2>1
    <3>2. boot.step + 1 \in Nat \ {0}
      BY <1>5
    <3> QED BY <1>2, <1>5, <3>1, <3>2
  <2>3. frames = << >>
    BY <1>6, <1>14
  <2>4. TypeOK' /\ OffsetsOK' /\ RefsAreSlots' /\ FramesOK'
    BY <1>1, <1>4, <1>7, <2>1, <2>3
  <2> QED BY <1>4, <1>8, <2>1, <2>2, <2>4
<1>15. CASE dest.to = "chars"
  <2>1. PICK b : b = Instant(StringClass)
    OBVIOUS
  <2>2. /\ ptr' = h /\ exStack' = Append(exStack, s)
        /\ Request(b, Dest("string", dest.pos, dest.i), s)
        /\ UNCHANGED <<thStack, live, loaded, boot>>
    BY <1>1, <1>10, <1>15, <2>1 DEF Deliver
  <2>3. b \in Block /\ RefsOfBlock(b) /\ loaded' \in SUBSET Classes
    BY <1>4, <2>1, <2>2, NewBlocks, MutatorAssumption
  <2>4. pc' = "alloc"
    BY <2>2 DEF Request
  <2>5. exStack' \in Seq(Slots) /\ exStack' # << >>
    BY <1>2, <1>4, <2>2, AppendProperties
  <2>6. TypeOK' /\ OffsetsOK' /\ RefsAreSlots' /\ FramesOK'
    BY <1>1, <1>4, <1>7, <2>2, <2>4, <2>5
  <2>7. IF dest.pos = 0 THEN frames = << >> /\ "string" \in {"boot", "argv", "chars", "string"}
        ELSE frames # << >> /\ dest.pos \in 1 .. Len(thStack')
    BY <1>6, <2>2
  <2>8. live' \in SUBSET (1 .. Len(thStack')) /\ "string" \in Purposes
    BY <1>4, <2>2 DEF Purposes
  <2> QED BY <1>2, <1>3, <1>5, <2>1, <2>2, <2>3, <2>5, <2>6, <2>7, <2>8, RequestStep
<1>16. CASE dest.to = "string"
  <2>1. PICK chars : chars = Last(exStack)
    OBVIOUS
  <2>2. PICK g : g = WithChars(h, s, chars)
    OBVIOUS
  <2>3. exStack # << >> /\ chars \in Slots /\ Front(exStack) \in Seq(Slots)
    BY <1>4, <1>6, <1>16, <2>1, FrontLast
  <2>4. h[s] = Instant(StringClass)
    BY <1>1, <1>2, <1>4, <1>6, <1>16
  <2>5. g \in [Slots -> Block] /\ \A t \in Slots : RefsOfBlock(g[t])
    BY <1>1, <1>2, <2>2, <2>3, <2>4, WithCharsRefs
  <2>6. exStack' = Front(exStack) /\ UNCHANGED <<req, dest, seek, loaded>>
    BY <1>1, <1>16 DEF Deliver
  <2>7. CASE dest.pos = 0
    <3>1. /\ ptr' = IF Len(g[boot.argv].words) >= dest.i THEN Store(g, boot.argv, dest.i, s) ELSE g
          /\ boot' = [boot EXCEPT !.step = @ + 1] /\ pc' = "boot" /\ UNCHANGED <<thStack, live>>
      BY <1>1, <1>16, <2>1, <2>2, <2>7 DEF Deliver
    <3>2. PICK e : e = Store(g, boot.argv, dest.i, s)
      OBVIOUS
    <3>3. e \in [Slots -> Block] /\ \A t \in Slots : RefsOfBlock(e[t])
      BY <1>2, <1>5, <2>5, <3>2, StoreRefs
    <3>4. ptr' \in {e, g}
      BY <3>1, <3>2
    <3>5. frames = << >>
      BY <1>6, <2>7
    <3>6. boot' \in [step : Nat \ {0}, mirror : Slots, argv : Slots]
      <4>1. boot' = [step |-> boot.step + 1, mirror |-> boot.mirror, argv |-> boot.argv]
        BY <1>4, <3>1
      <4>2. boot.step + 1 \in Nat \ {0}
        BY <1>5
      <4> QED BY <1>5, <4>1, <4>2
    <3>7. TypeOK' /\ OffsetsOK' /\ RefsAreSlots' /\ FramesOK'
      BY <1>4, <1>7, <2>3, <2>5, <2>6, <3>1, <3>3, <3>4, <3>5
    <3> QED BY <1>4, <1>8, <2>6, <3>1, <3>6, <3>7
  <2>8. CASE dest.pos # 0
    <3>1. ptr' = g /\ PutRef(dest.pos, s) /\ pc' = "run" /\ UNCHANGED boot
      BY <1>1, <1>16, <2>1, <2>2, <2>8 DEF Deliver
    <3>2. dest.pos \in 1 .. Len(thStack) /\ frames # << >>
      BY <1>6, <2>8
    <3>3. /\ thStack' \in Seq(Word) /\ Len(thStack') = Len(thStack)
          /\ live' \in SUBSET (1 .. Len(thStack')) /\ \A q \in live' : thStack'[q] \in Slots
      BY <1>2, <3>1, <3>2, PutRefStep
    <3>4. TypeOK' /\ OffsetsOK' /\ RefsAreSlots' /\ FramesOK'
      BY <1>7, <2>3, <2>5, <2>6, <3>1, <3>2, <3>3
    <3> QED BY <1>4, <1>8, <2>6, <3>1, <3>3, <3>4
  <2> QED BY <2>7, <2>8
<1>17. CASE dest.to = "outer"
  <2>1. PICK b : b = Array(5, <<HeapSize>>)
    OBVIOUS
  <2>2. /\ ptr' = h /\ exStack' = Append(exStack, s)
        /\ Request(b, Dest("inner", dest.pos, dest.i), s)
        /\ UNCHANGED <<thStack, live, loaded, boot>>
    BY <1>1, <1>10, <1>17, <2>1 DEF Deliver
  <2>3. b \in Block /\ RefsOfBlock(b) /\ loaded' \in SUBSET Classes
    BY <1>4, <2>1, <2>2, NewBlocks
  <2>4. pc' = "alloc"
    BY <2>2 DEF Request
  <2>5. exStack' \in Seq(Slots) /\ exStack' # << >>
    BY <1>2, <1>4, <2>2, AppendProperties
  <2>6. TypeOK' /\ OffsetsOK' /\ RefsAreSlots' /\ FramesOK'
    BY <1>1, <1>4, <1>7, <2>2, <2>4, <2>5
  <2>7. dest.pos # 0 /\ frames # << >> /\ dest.pos \in 1 .. Len(thStack')
    BY <1>6, <1>17, <2>2
  <2>8. live' \in SUBSET (1 .. Len(thStack')) /\ "inner" \in Purposes
    BY <1>4, <2>2 DEF Purposes
  <2> QED BY <1>2, <1>3, <1>5, <2>2, <2>3, <2>5, <2>6, <2>7, <2>8, RequestStep
<1>18. CASE dest.to = "inner"
  <2>1. PICK outer : outer = Last(exStack)
    OBVIOUS
  <2>2. exStack # << >> /\ outer \in Slots /\ Front(exStack) \in Seq(Slots)
    BY <1>4, <1>6, <1>18, <2>1, FrontLast
  <2>3. dest.pos # 0 /\ frames # << >> /\ dest.pos \in 1 .. Len(thStack)
    BY <1>6, <1>18
  <2>4. ptr' = (IF Len(h[outer].words) >= dest.i THEN Store(h, outer, dest.i, s) ELSE h) /\ UNCHANGED <<loaded, boot>>
    BY <1>1, <1>18, <2>1 DEF Deliver
  <2>5. PICK e : e = Store(h, outer, dest.i, s)
    OBVIOUS
  <2>6. e \in [Slots -> Block] /\ \A t \in Slots : RefsOfBlock(e[t])
    BY <1>1, <1>2, <1>5, <2>2, <2>5, StoreRefs
  <2>7. ptr' \in [Slots -> Block] /\ \A t \in Slots : RefsOfBlock(ptr'[t])
    BY <1>1, <2>4, <2>5, <2>6
  <2>8. CASE dest.i < OuterLen
    <3>1. Request(req, Dest("inner", dest.pos, dest.i + 1), s) /\ UNCHANGED <<exStack, thStack, live>>
      <4>1. [dest EXCEPT !.i = @ + 1] = Dest("inner", dest.pos, dest.i + 1)
        BY <1>4, <1>18 DEF Dest
      <4> QED BY <1>1, <1>18, <2>8, <4>1 DEF Deliver
    <3>2. pc' = "alloc"
      BY <3>1 DEF Request
    <3>3. TypeOK' /\ OffsetsOK' /\ RefsAreSlots' /\ FramesOK'
      BY <1>4, <1>7, <2>7, <3>1, <3>2
    <3>4. /\ live' \in SUBSET (1 .. Len(thStack')) /\ "inner" \in Purposes /\ dest.i + 1 \in Nat
          /\ loaded' \in SUBSET Classes /\ dest.pos \in 1 .. Len(thStack') /\ exStack' # << >>
      BY <1>4, <1>5, <2>2, <2>3, <2>4, <3>1 DEF Purposes
    <3>5. PICK i \in Nat : i = dest.i + 1
      BY <3>4
    <3>6. Request(req, Dest("inner", dest.pos, i), s)
      BY <3>1, <3>5
    <3> QED BY <1>2, <1>3, <1>4, <1>5, <1>6, <2>3, <2>4, <3>3, <3>4, <3>6, RequestStep
  <2>9. CASE ~(dest.i < OuterLen)
    <3>1. exStack' = Front(exStack) /\ PutRef(dest.pos, outer) /\ pc' = "run" /\ UNCHANGED <<req, dest, seek>>
      BY <1>1, <1>18, <2>1, <2>9 DEF Deliver
    <3>2. /\ thStack' \in Seq(Word) /\ Len(thStack') = Len(thStack)
          /\ live' \in SUBSET (1 .. Len(thStack')) /\ \A q \in live' : thStack'[q] \in Slots
      BY <2>2, <2>3, <3>1, PutRefStep
    <3>3. TypeOK' /\ OffsetsOK' /\ RefsAreSlots' /\ FramesOK'
      BY <1>7, <2>2, <2>3, <2>7, <3>1, <3>2
    <3> QED BY <1>4, <1>8, <2>4, <3>1, <3>2, <3>3
  <2> QED BY <2>8, <2>9
<1> QED BY <1>5, <1>11, <1>12, <1>13, <1>14, <1>15, <1>16, <1>17, <1>18 DEF Purposes

(* The collector runs: nothing moves.                                      *)
LEMMA CollectStep ==
  ASSUME HeapTypeInvariant, AllocateCollects \/ Collector
  PROVE  HeapTypeInvariant'
<1>1. [GcNext]_allVars /\ UNCHANGED <<pc, req, dest, frames, live, loaded, boot>> /\ seek' \in {seek, HeapSize}
  BY DEF AllocateCollects, Collector, GcNext, mutVars
<1>2. UNCHANGED <<ptr, fvar, exStack, thStack>>
  BY <1>1, HeapUntouched
<1>3. TypeOK' /\ OffsetsOK'
  BY <1>1, GcStepType, OffsetsStep DEF HeapTypeInvariant, HeapTypeOK
<1>4. seek' \in 0 .. HeapSize
  BY <1>1, HeapAssumption DEF HeapTypeInvariant, HeapTypeOK
<1>5. HeapTypeOK'
  BY <1>1, <1>2, <1>3, <1>4 DEF HeapTypeInvariant, HeapTypeOK
<1>6. RefsAreSlots'
  <2>1. \A s \in Slots : RefsOfBlock(ptr[s])' <=> RefsOfBlock(ptr[s])
    BY <1>2 DEF RefsOfBlock
  <2> QED BY <1>1, <1>2, <2>1 DEF HeapTypeInvariant, RefsAreSlots
<1>7. FramesOK'
  BY <1>1, <1>2 DEF HeapTypeInvariant, FramesOK
<1>8. DestOK'
  <2>1. RefsOfBlock(req)' <=> RefsOfBlock(req)
    BY <1>1 DEF RefsOfBlock
  <2>2. Instant(StringClass)' = Instant(StringClass)
    BY DEF Instant
  <2> QED BY <1>1, <1>2, <2>1, <2>2 DEF HeapTypeInvariant, DestOK
<1> QED BY <1>3, <1>5, <1>6, <1>7, <1>8 DEF HeapTypeInvariant

(* The empty heap.                                                         *)
LEMMA HeapInitType ==
  ASSUME HeapInit
  PROVE  HeapTypeInvariant
<1>1. BootClasses[1] \in Classes /\ HeapSize \in Nat \ {0}
  BY MutatorAssumption, HeapAssumption, ElementOfSeq, EmptySeq, LenProperties
<1>2. PICK b : b = Mirror(BootClasses[1])
  OBVIOUS
<1>3. b \in Block /\ RefsOfBlock(b) /\ b.cls \in Classes
  BY <1>1, <1>2, NewBlocks
<1>4. ptr = [s \in Slots |-> b] /\ req = b
  BY <1>2 DEF HeapInit, Mirror
<1>5. ptr \in [Slots -> Block] /\ \A s \in Slots : RefsOfBlock(ptr[s])
  BY <1>3, <1>4
<1>6. \A s \in Slots : ptr[s].type = 1 => ptr[s].words \in Seq(Slots)
  BY <1>5 DEF RefsOfBlock
<1>7. fvar \in [Cells -> Nat] /\ OffsetsOK
      /\ \A cj \in Cells : Fields[cj[1]][cj[2]].kind # "inst" => fvar[cj] = 0
  <2>1. fvar = [cj \in Cells |-> IF Fields[cj[1]][cj[2]].kind = "inst" THEN VarOffs(cj[1], cj[2]) ELSE 0]
    BY DEF HeapInit
  <2>2. ASSUME NEW cj \in Cells PROVE VarOffs(cj[1], cj[2]) \in Nat
    <3>1. PICK c \in Classes : cj \in {c} \X FieldIdx(c)
      BY DEF Cells
    <3>2. cj[1] \in Classes /\ cj[2] \in FieldIdx(cj[1])
      BY <3>1
    <3> QED BY <3>2, OffsetType
  <2> QED BY <2>1, <2>2 DEF OffsetsOK
<1>8. \A cj \in Cells : Fields[cj[1]][cj[2]] = [kind |-> "static", ref |-> TRUE] => fvar[cj] \in Slots
  BY <1>7, SlotFacts
<1>9. exStack = << >> /\ thStack = << >> /\ live = {} /\ frames = << >> /\ pc = "boot"
  BY DEF HeapInit
<1>10. TypeOK
  BY <1>1, <1>5, <1>6, <1>7, <1>9, EmptySeq DEF HeapInit, TypeOK
<1>11. HeapTypeOK
  <2>1. 0 \in Slots /\ 0 \in 0 .. HeapSize
    BY <1>1, SlotFacts
  <2>2. boot \in [step : Nat \ {0}, mirror : Slots, argv : Slots] /\ req \in Block
    BY <1>3, <1>4, <2>1 DEF HeapInit
  <2>3. dest \in [to : {"boot", "argv", "mirror", "cell", "chars", "string", "outer", "inner"}, pos : Nat, i : Nat]
    BY DEF HeapInit
  <2>4. frames \in Seq(Nat) /\ live \in SUBSET (1 .. Len(thStack)) /\ loaded \in SUBSET Classes
    BY <1>9, EmptySeq DEF HeapInit
  <2> QED BY <1>9, <1>10, <2>1, <2>2, <2>3, <2>4 DEF HeapInit, HeapTypeOK
<1>12. RefsAreSlots
  BY <1>5, <1>8, <1>9, EmptySeq DEF RefsAreSlots
<1>13. FramesOK /\ DestOK
  <2>1. Len(<< >>) = 0 /\ \A k : k \notin 1 .. 0
    OBVIOUS
  <2> QED BY <1>9, <2>1 DEF FramesOK, DestOK
<1> QED BY <1>7, <1>11, <1>12, <1>13 DEF HeapTypeInvariant

---------------------------------------------------------------------------
(* Every step keeps the types.                                             *)
LEMMA HeapTypeStep ==
  ASSUME InheritedAgree, HeapTypeInvariant, [HeapNext]_heapAllVars
  PROVE  HeapTypeInvariant'
<1>1. CASE Boot
  BY <1>1, CallsStep, MainStep DEF Boot
<1>2. CASE Instruction
  BY <1>2, CallsStep, CopyStep, WriteStep, StaticStep, InvokeStep, ReturnStep, HaltStep DEF Instruction
<1>3. CASE Allocation
  BY <1>3, AllocateStep, CollectStep DEF Allocation
<1>4. CASE UNCHANGED heapAllVars
  <2>1. UNCHANGED <<used, marked, ptr, vmhTop, exStack, thStack, fvar, gcVars, mutVars>>
    BY <1>4 DEF heapAllVars, allVars, gcVars
  <2>2. TypeOK' /\ OffsetsOK' /\ RefsAreSlots'
    BY <2>1, DataStep DEF HeapTypeInvariant, HeapTypeOK, TypeOK, RefsAreSlots, mutVars
  <2>3. HeapTypeOK' /\ FramesOK'
    BY <2>1, <2>2 DEF HeapTypeInvariant, HeapTypeOK, FramesOK, mutVars
  <2>4. DestOK'
    <3>1. RefsOfBlock(req)' <=> RefsOfBlock(req)
      BY <2>1 DEF RefsOfBlock, mutVars
    <3>2. Instant(StringClass)' = Instant(StringClass)
      BY DEF Instant
    <3> QED BY <2>1, <3>1, <3>2 DEF HeapTypeInvariant, DestOK, mutVars
  <2> QED BY <2>2, <2>3, <2>4 DEF HeapTypeInvariant
<1> QED BY <1>1, <1>2, <1>3, <1>4 DEF HeapNext

(* So they hold in every reachable state.                                 *)
LEMMA HeapTypeAlways ==
  ASSUME InheritedAgree
  PROVE  HeapSpec => []HeapTypeInvariant
BY HeapInitType, HeapTypeStep, PTL DEF HeapSpec

(* The heap at work is well typed: in every reachable state, of the        *)
(* mutator, the allocator and the collector, the slots, the stacks and the *)
(* fields hold words, and the machine takes only slot numbers for          *)
(* references; the live positions lie on the thread stack.  This is for    *)
(* programs whose inherited fields share no word with an own field of the  *)
(* other kind, reference or number.                                        *)
THEOREM HeapTypes ==
  ASSUME InheritedAgree
  PROVE  HeapSpec => []HeapTypeOK
<1>1. HeapTypeInvariant => HeapTypeOK
  BY DEF HeapTypeInvariant
<1> QED BY <1>1, HeapTypeAlways, PTL

---------------------------------------------------------------------------
(* Slot 0 stays null. *)

(* A block without words is not changed by what is stored in it.           *)
LEMMA StoreKeeps ==
  ASSUME NEW h \in [Slots -> Block], NEW s \in Slots, NEW k \in Nat, NEW w \in Word,
         NEW z \in Slots, NEW c \in Classes, h[z] = Mirror(c)
  PROVE  Store(h, s, k, w)[z] = Mirror(c)
<1>1. PICK g : g = Store(h, s, k, w)
  OBVIOUS
<1>2. /\ g \in [Slots -> Block] /\ \A t \in Slots \ {s} : g[t] = h[t]
      /\ g[s].cls = h[s].cls /\ g[s].type = h[s].type /\ Len(g[s].words) = Len(h[s].words)
  BY <1>1, StoreType
<1>3. Mirror(c) = [cls |-> c, type |-> 0, words |-> << >>]
  BY DEF Mirror, Object
<1>4. CASE z = s
  <2>1. g[s].cls = c /\ g[s].type = 0 /\ Len(g[s].words) = 0 /\ g[s] \in Block
    BY <1>2, <1>3, <1>4
  <2>2. g[s].words = << >>
    BY <2>1, EmptySeq DEF Block
  <2>3. g[s] = [cls |-> g[s].cls, type |-> g[s].type, words |-> g[s].words]
    BY <2>1 DEF Block
  <2> QED BY <1>1, <1>3, <1>4, <2>1, <2>2, <2>3
<1>5. CASE z # s
  BY <1>1, <1>2, <1>5
<1> QED BY <1>4, <1>5

(* main() loads a class at least, and the counts are natural numbers.      *)
LEMMA FirstClass ==
  BootClasses[1] \in Classes /\ NClasses \in Nat \ {0} /\ NumArgs \in Nat /\ HeapSize \in Nat \ {0}
BY MutatorAssumption, HeapAssumption, ElementOfSeq, EmptySeq, LenProperties DEF NClasses

(* The cells of the running frame lie above the first word of the stack.   *)
LEMMA CellsAbove ==
  ASSUME HeapTypeInvariant, NullInvariant, frames # << >>
  PROVE  \A k \in 1 .. Len(frames) : \A p \in CellsOf(frames[k]) : p > PrefixLen /\ p # 1
<1>1. \A k \in 1 .. Len(frames) : frames[k] >= PrefixLen /\ frames[k] \in Nat
  BY ElementOfSeq DEF HeapTypeInvariant, HeapTypeOK, NullInvariant
<1> QED BY <1>1, FrameSize DEF CellsOf

(* The program runs: the word under the first frame is not a cell.         *)
LEMMA NullRun ==
  ASSUME HeapTypeInvariant, NullInvariant, HeapTypeInvariant', frames # << >>,
         used' = used, frames' = frames, NullIsMirror', thStack'[1] = thStack[1],
         gcpc = "idle", gcpc' = "idle",
         pc' = "alloc" => dest'.pos > PrefixLen
  PROVE  NullInvariant'
BY DEF NullInvariant

(* The instructions: they write cells, blocks and fields, and what a       *)
(* return leaves of the stack begins with the frame of main.               *)
LEMMA NullInstruction ==
  ASSUME HeapTypeInvariant, NullInvariant, HeapTypeInvariant', Instruction
  PROVE  NullInvariant' /\ frames # << >> /\ frames' # << >>
<1>1. Running /\ frames # << >>
  BY DEF Instruction, New, NewArray, LoadString, MultiANewArray, MoveRef, Overwrite, PutField,
         GetField, FieldBeyond, AAStore, AALoad, PutStatic, GetStatic, Invoke, MethodReturn, Halt, Does, Running,
         HeapTypeInvariant, FramesOK
<1>2. /\ Len(frames) \in Nat \ {0} /\ Last(frames) = frames[Len(frames)] /\ frames \in Seq(Nat)
      /\ MyCells \subseteq 1 .. Len(thStack) /\ thStack \in Seq(Word) /\ Len(thStack) \in Nat \ {0}
  <2>1. thStack \in Seq(Word) /\ thStack # << >>
    BY <1>1 DEF HeapTypeInvariant, HeapTypeOK, TypeOK, FramesOK
  <2>2. Len(thStack) \in Nat \ {0}
    BY <2>1, EmptySeq, LenProperties
  <2> QED BY <1>1, <2>1, <2>2, CellsOnStack DEF HeapTypeInvariant, HeapTypeOK
<1>3. \A p \in MyCells : p > PrefixLen /\ p # 1 /\ p \in Nat
  BY <1>1, <1>2, CellsAbove DEF MyCells
<1>4. gcpc = "idle" /\ pc = "run" /\ NullIsMirror /\ thStack[1] = 0
  BY <1>1 DEF Running, NullInvariant
<1>5. CASE New \/ NewArray \/ LoadString \/ MultiANewArray
  <2>1. UNCHANGED allVars /\ frames' = frames
    BY <1>5 DEF New, NewArray, LoadString, MultiANewArray
  <2>2. \E p \in MyCells : dest'.pos = p
    <3>1. \A b, to, p, i, t : Request(b, Dest(to, p, i), t) => dest'.pos = p
      BY DEF Request, Dest
    <3>2. CASE New
      BY <3>1, <3>2 DEF New
    <3>3. CASE NewArray
      BY <3>1, <3>3 DEF NewArray
    <3>4. CASE LoadString
      <4>1. PICK p \in MyCells : NewString(Dest("chars", p, 0))
        BY <3>4 DEF LoadString
      <4>2. [Dest("chars", p, 0) EXCEPT !.to = "chars"] = Dest("chars", p, 0)
        BY DEF Dest
      <4>3. Request(Array(5, <<HeapSize>>), Dest("chars", p, 0), vmhTop)
        BY <4>1, <4>2 DEF NewString
      <4> QED BY <3>1, <4>3
    <3>5. CASE MultiANewArray
      BY <3>1, <3>5 DEF MultiANewArray
    <3> QED BY <1>5, <3>2, <3>3, <3>4, <3>5
  <2>3. dest'.pos > PrefixLen
    BY <1>3, <2>2
  <2>4. used' = used /\ thStack' = thStack /\ gcpc' = gcpc /\ NullIsMirror'
    BY <1>4, <2>1 DEF allVars, NullIsMirror
  <2> QED BY <1>1, <1>4, <2>1, <2>3, <2>4, NullRun
<1>6. CASE MoveRef \/ Overwrite \/ GetField \/ AALoad \/ GetStatic
  <2>1. UNCHANGED <<heapVars, gcVars, pc, frames>>
    BY <1>6 DEF MoveRef, Overwrite, GetField, AALoad, GetStatic
  <2>2. \E p \in MyCells : \E w : thStack' = [thStack EXCEPT ![p] = w]
    BY <1>6 DEF MoveRef, Overwrite, GetField, AALoad, GetStatic, PutRef, PutWord
  <2>3. thStack'[1] = thStack[1]
    BY <1>2, <1>3, <2>2
  <2>4. used' = used /\ gcpc' = "idle" /\ pc' = "run" /\ NullIsMirror' /\ frames' = frames
    BY <1>4, <2>1 DEF heapVars, gcVars, NullIsMirror
  <2> QED BY <1>1, <1>4, <2>3, <2>4, NullRun
<1>7. CASE PutField \/ AAStore
  <2>1. PICK x \in Slots, k \in Nat, w \in Word : ptr' = Store(ptr, x, k, w)
    BY <1>7, WriteEffect
  <2>2. ptr \in [Slots -> Block] /\ 0 \in Slots
    BY SlotFacts DEF HeapTypeInvariant, HeapTypeOK, TypeOK
  <2>3. NullIsMirror'
    BY <1>4, <2>1, <2>2, StoreKeeps, FirstClass DEF NullIsMirror
  <2>4. UNCHANGED <<used, thStack, frames, gcpc, pc>>
    BY <1>7 DEF PutField, AAStore, gcVars, mutVars
  <2> QED BY <1>1, <1>4, <2>3, <2>4, NullRun
<1>8. CASE PutStatic \/ Halt \/ FieldBeyond
  <2>1. UNCHANGED <<used, ptr, thStack, frames, gcpc>> /\ pc' \in {"run", "halted", "corrupt"}
    BY <1>4, <1>8 DEF PutStatic, Halt, FieldBeyond, heapVars, gcVars, mutVars, allVars
  <2> QED BY <1>1, <1>4, <2>1, NullRun DEF NullIsMirror
<1>9. CASE Invoke
  <2>1. thStack'[1] = thStack[1] /\ frames' = Append(frames, Len(thStack) + PrefixLen)
    <3>1. \A k \in 1 .. Len(thStack) : thStack'[k] = thStack[k]
      BY <1>9, InvokeEffect
    <3> QED BY <1>2, <1>9, <3>1 DEF Invoke
  <2>2. Len(thStack) + PrefixLen \in Nat /\ Len(thStack) + PrefixLen >= PrefixLen
    BY <1>2, FrameSize
  <2>3. /\ Len(frames') = Len(frames) + 1 /\ frames'[Len(frames) + 1] = Len(thStack) + PrefixLen
        /\ \A k \in 1 .. Len(frames) : frames'[k] = frames[k]
    BY <1>2, <2>1, <2>2, AppendProperties
  <2>4. \A k \in 1 .. Len(frames') : frames'[k] >= PrefixLen
    <3> TAKE k \in 1 .. Len(frames')
    <3>1. k \in 1 .. Len(frames) \/ k = Len(frames) + 1
      BY <1>2, <2>3
    <3> QED BY <1>1, <2>2, <2>3, <3>1 DEF NullInvariant
  <2>5. UNCHANGED <<used, ptr, gcpc, pc>> /\ frames' # << >>
    <3>1. UNCHANGED <<used, ptr, gcpc, pc>>
      BY <1>9 DEF Invoke, heapVars, gcVars
    <3> QED BY <1>2, <2>3, <3>1, EmptySeq
  <2> QED BY <1>1, <1>4, <2>1, <2>4, <2>5 DEF NullInvariant, NullIsMirror
<1>10. CASE MethodReturn
  <2> DEFINE n == Len(frames)
             b == frames[n - 1]
             m == b + FrameCells + SuffixLen
  <2>1. /\ n \in Nat \ {0} /\ n > 1 /\ m \in Nat \ {0}
        /\ Len(frames') = n - 1 /\ \A k \in 1 .. n - 1 : frames'[k] = frames[k]
        /\ \A k \in 1 .. m : k \notin CellsOf(b) => thStack'[k] = thStack[k]
    BY <1>10, ReturnEffect
  <2>2. n - 1 \in 1 .. Len(frames)
    BY <2>1
  <2>3. 1 \notin CellsOf(b)
    BY <1>1, <2>2, CellsAbove
  <2>4. thStack'[1] = 0
    <3> HIDE DEF m, b
    <3> QED BY <1>4, <2>1, <2>3
  <2>5. \A k \in 1 .. Len(frames') : frames'[k] >= PrefixLen
    BY <1>1, <2>1 DEF NullInvariant
  <2>6. UNCHANGED <<used, ptr, gcpc, pc>>
    BY <1>10 DEF MethodReturn, heapVars, gcVars
  <2>7. frames' # << >>
    BY <2>1, EmptySeq
  <2> QED BY <1>1, <1>4, <2>4, <2>5, <2>6, <2>7 DEF NullInvariant, NullIsMirror
<1>11. frames' # << >>
  <2>1. CASE ~(Invoke \/ MethodReturn)
    <3>1. frames' = frames
      BY <2>1 DEF Instruction, New, NewArray, LoadString, MultiANewArray, MoveRef, Overwrite, PutField,
         GetField, FieldBeyond, AAStore, AALoad, PutStatic, GetStatic, Halt, mutVars
    <3> QED BY <1>1, <3>1
  <2>2. CASE Invoke
    <3>1. Len(thStack) + PrefixLen \in Nat
      BY <1>2, FrameSize
    <3>2. PICK x \in Nat : x = Len(thStack) + PrefixLen
      BY <3>1
    <3>3. frames' = Append(frames, x)
      BY <2>2, <3>2 DEF Invoke
    <3> QED BY <1>2, <3>3, AppendProperties
  <2>3. CASE MethodReturn
    <3>1. Len(frames) \in Nat /\ Len(frames) > 1 /\ Len(frames') = Len(frames) - 1
      BY <2>3, ReturnEffect
    <3> QED BY <3>1, EmptySeq
  <2> QED BY <2>1, <2>2, <2>3
<1> QED BY <1>1, <1>5, <1>6, <1>7, <1>8, <1>9, <1>10, <1>11 DEF Instruction

(* The collector: slot 0 is marked once the first word of the thread stack *)
(* has been passed.                                                        *)
LEMMA NullCollect ==
  ASSUME HeapTypeInvariant, NullInvariant, HeapTypeInvariant', frames # << >>, AllocateCollects \/ Collector
  PROVE  NullInvariant' /\ frames' = frames
<1>1. [GcNext]_allVars /\ UNCHANGED <<pc, dest, frames>>
  BY DEF AllocateCollects, Collector, GcNext, mutVars
<1>2. UNCHANGED <<ptr, exStack, thStack>>
  BY <1>1, HeapUntouched
<1>3. /\ 0 \in used /\ NullIsMirror /\ thStack[1] = 0
      /\ \A k \in 1 .. Len(frames) : frames[k] >= PrefixLen
      /\ pc = "alloc" => dest.pos > PrefixLen
  BY DEF NullInvariant
<1>4. ~IsArray(0) /\ IS_OBJECT(0)
  <2>1. ptr[0].cls = BootClasses[1]
    BY <1>3 DEF NullIsMirror, Mirror, Object
  <2> QED BY <2>1, FirstClass, ClassAssumption, SlotFacts DEF IsArray, IS_OBJECT
<1>5. /\ Len(exStack) \in Nat /\ Len(Roots) \in Nat /\ Len(Roots) >= Len(exStack) + 1
      /\ Roots[Len(exStack) + 1] = 0
  <2>1. exStack \in Seq(Word) /\ thStack \in Seq(Word) /\ thStack # << >>
    BY DEF HeapTypeInvariant, HeapTypeOK, TypeOK, FramesOK
  <2>2. Len(thStack) \in Nat \ {0} /\ Len(exStack) \in Nat
    BY <2>1, EmptySeq, LenProperties
  <2>3. /\ Len(exStack \o thStack) = Len(exStack) + Len(thStack)
        /\ \A i \in 1 .. Len(exStack) + Len(thStack) :
             (exStack \o thStack)[i] = IF i <= Len(exStack) THEN exStack[i] ELSE thStack[i - Len(exStack)]
    BY <2>1, ConcatProperties
  <2> DEFINE i == Len(exStack) + 1
  <2>4. i \in 1 .. Len(exStack) + Len(thStack) /\ ~(i <= Len(exStack)) /\ i - Len(exStack) = 1
    BY <2>2
  <2> HIDE DEF i
  <2>5. Roots[i] = thStack[1]
    BY <2>3, <2>4 DEF Roots
  <2> QED BY <1>3, <2>2, <2>3, <2>5 DEF i, Roots
<1>6. root \in Nat \ {0} /\ hand \in 0 .. HeapSize
  BY DEF HeapTypeInvariant, HeapTypeOK, TypeOK
<1> DEFINE n0 == Len(exStack) + 1
           Done == 0 \in used' /\ (gcpc' = "mark" /\ root' > n0 => 0 \in marked')
                   /\ (gcpc' = "sweep" /\ hand' = 0 => 0 \in marked')
<1>7. Done
  <2>1. gcpc = "mark" /\ root > n0 => 0 \in marked
    BY DEF NullInvariant
  <2>2. gcpc = "sweep" /\ hand = 0 => 0 \in marked
    BY DEF NullInvariant
  <2>3. n0 \in Nat /\ Len(Roots) >= n0 /\ Roots[n0] = 0 /\ n0 > 0
    BY <1>5
  <2> HIDE DEF n0
  <2>4. CASE StartGC
    BY <1>3, <2>3, <2>4 DEF StartGC, heapVars
  <2>5. CASE MarkRoot
    <3>1. used' = used /\ root' = root + 1 /\ gcpc = "mark" /\ marked \subseteq marked' /\ gcpc' \in {"mark", "crashed"}
      BY <2>5 DEF MarkRoot, Enter
    <3>2. root = n0 => 0 \in marked'
      BY <1>4, <2>3, <2>5 DEF MarkRoot, IS_MARK
    <3> QED BY <1>3, <1>6, <2>1, <2>3, <3>1, <3>2
  <2>6. CASE WalkField
    <3>1. used' = used /\ root' = root /\ gcpc = "mark" /\ marked \subseteq marked' /\ gcpc' \in {"mark", "crashed"}
      BY <2>6 DEF WalkField, Enter
    <3> QED BY <1>3, <2>1, <3>1
  <2>7. CASE WalkElement
    <3>1. used' = used /\ root' = root /\ gcpc = "mark" /\ marked' = marked /\ gcpc' \in {"mark", "crashed"}
      BY <2>7 DEF WalkElement, Enter, heapVars
    <3> QED BY <1>3, <2>1, <3>1
  <2>8. CASE Return
    <3>1. used' = used /\ root' = root /\ gcpc = "mark" /\ marked \subseteq marked' /\ gcpc' = "mark"
      BY <2>8 DEF Return
    <3> QED BY <1>3, <2>1, <3>1
  <2>9. CASE FinishMark
    <3>1. used' = used /\ root > Len(Roots) /\ gcpc = "mark" /\ marked' = marked /\ gcpc' = "sweep"
      BY <2>9 DEF FinishMark, heapVars
    <3> QED BY <1>3, <1>5, <1>6, <2>1, <2>3, <3>1
  <2>10. CASE Sweep
    <3>1. gcpc = "sweep" /\ gcpc' = "sweep" /\ hand \in Slots /\ hand' = hand + 1
      BY <2>10 DEF Sweep
    <3>2. hand' # 0
      BY <1>6, <3>1
    <3>3. 0 \in used'
      BY <1>3, <2>2, <2>10, <3>1 DEF Sweep, Frees
    <3> QED BY <3>1, <3>2, <3>3
  <2>11. CASE EndGC
    BY <1>3, <2>11 DEF EndGC, heapVars
  <2>12. CASE UNCHANGED allVars
    BY <1>2, <1>3, <2>1, <2>2, <2>12 DEF allVars
  <2> QED BY <1>1, <2>4, <2>5, <2>6, <2>7, <2>8, <2>9, <2>10, <2>11, <2>12 DEF GcNext, Collect
<1>8. NullIsMirror'
  BY <1>2, <1>3 DEF NullIsMirror
<1> QED BY <1>1, <1>2, <1>3, <1>7, <1>8 DEF NullInvariant

(* Whatever the caller of allocateObject does next, it stores into no      *)
(* mirror, and into no cell but the one it was called for.                 *)
LEMMA DeliverKeeps ==
  ASSUME HeapTypeInvariant, pc = "alloc", NEW s \in Slots, NEW h \in [Slots -> Block],
         h[s] = req, Deliver(s, h), NEW z \in Slots, NEW c \in Classes, h[z] = Mirror(c)
  PROVE  /\ ptr'[z] = Mirror(c) /\ dest'.pos = dest.pos
         /\ \/ thStack' = thStack
            \/ dest.pos # 0 /\ \E w : thStack' = [thStack EXCEPT ![dest.pos] = w]
<1>1. /\ exStack \in Seq(Slots) /\ dest \in [to : Purposes, pos : Nat, i : Nat] /\ boot.argv \in Slots
      /\ s \in Word /\ HeapSize \in Word
  BY SlotFacts DEF HeapTypeInvariant, HeapTypeOK, RefsAreSlots, Purposes
<1>2. /\ dest.to \in Purposes /\ dest.i \in Nat /\ dest.pos \in Nat
      /\ dest.to \in {"string", "inner"} => exStack # << >>
      /\ dest.to \in {"mirror", "cell", "outer", "inner"} => dest.pos # 0
  BY <1>1 DEF HeapTypeInvariant, DestOK
<1>3. \A to : [dest EXCEPT !.to = to].pos = dest.pos
  BY <1>1
<1>4. CASE dest.to \in {"boot", "argv"}
  BY <1>4 DEF Deliver
<1>5. CASE dest.to \in {"mirror", "chars", "outer"}
  BY <1>3, <1>5 DEF Deliver, Request
<1>6. CASE dest.to = "cell"
  BY <1>2, <1>6 DEF Deliver, PutRef
<1>7. CASE dest.to = "string"
  <2>1. PICK chars : chars = Last(exStack)
    OBVIOUS
  <2>2. PICK g : g = WithChars(h, s, chars)
    OBVIOUS
  <2>3. chars \in Slots /\ chars \in Word
    BY <1>1, <1>2, <1>7, <2>1, FrontLast, SlotFacts
  <2>4. g \in [Slots -> Block] /\ g[z] = Mirror(c)
    <3>1. PICK g1 : g1 = Store(h, s, 1, chars)
      OBVIOUS
    <3>2. g1 \in [Slots -> Block] /\ g1[z] = Mirror(c)
      BY <2>3, <3>1, StoreType, StoreKeeps
    <3>3. PICK g2 : g2 = Store(g1, s, 2, HeapSize)
      OBVIOUS
    <3>4. g2 \in [Slots -> Block] /\ g2[z] = Mirror(c)
      <4>1. 2 \in Nat
        OBVIOUS
      <4>2. g2 \in [Slots -> Block]
        BY <1>1, <3>2, <3>3, <4>1, StoreType
      <4>3. \A k \in Nat, w \in Word : Store(g1, s, k, w)[z] = Mirror(c)
        BY <3>2, StoreKeeps
      <4>4. g2[z] = Mirror(c)
        BY <1>1, <3>3, <4>1, <4>3
      <4> QED BY <4>2, <4>4
    <3>5. g \in {g1, g2}
      BY <2>2, <3>1, <3>3 DEF WithChars
    <3> QED BY <3>2, <3>4, <3>5
  <2>5. PICK e : e = Store(g, boot.argv, dest.i, s)
    OBVIOUS
  <2>6. e[z] = Mirror(c)
    BY <1>1, <1>2, <2>4, <2>5, StoreKeeps
  <2>7. ptr' \in {g, e} /\ dest' = dest
    BY <1>7, <2>1, <2>2, <2>5 DEF Deliver
  <2>8. thStack' = thStack \/ (dest.pos # 0 /\ \E w : thStack' = [thStack EXCEPT ![dest.pos] = w])
    BY <1>7 DEF Deliver, PutRef
  <2> QED BY <2>4, <2>6, <2>7, <2>8
<1>8. CASE dest.to = "inner"
  <2>1. PICK outer : outer = Last(exStack)
    OBVIOUS
  <2>2. outer \in Slots
    BY <1>1, <1>2, <1>8, <2>1, FrontLast
  <2>3. PICK e : e = Store(h, outer, dest.i, s)
    OBVIOUS
  <2>4. e[z] = Mirror(c)
    BY <1>1, <1>2, <2>2, <2>3, StoreKeeps
  <2>5. ptr' \in {h, e}
    BY <1>8, <2>1, <2>3 DEF Deliver
  <2>6. thStack' = thStack \/ \E w : thStack' = [thStack EXCEPT ![dest.pos] = w]
    BY <1>8 DEF Deliver, PutRef
  <2>7. dest'.pos = dest.pos
    <3>1. [dest EXCEPT !.i = @ + 1].pos = dest.pos
      BY <1>1
    <3> QED BY <1>8, <3>1 DEF Deliver, Request
  <2> QED BY <1>2, <1>8, <2>4, <2>5, <2>6, <2>7
<1> QED BY <1>2, <1>4, <1>5, <1>6, <1>7, <1>8 DEF Purposes

(* An allocation of the program.                                           *)
LEMMA NullAllocate ==
  ASSUME HeapTypeInvariant, NullInvariant, HeapTypeInvariant', frames # << >>, Allocate
  PROVE  NullInvariant' /\ frames' = frames
<1>1. PICK s \in Free, h \in [Slots -> Block] :
        h = [ptr EXCEPT ![s] = req] /\ Deliver(s, h) /\ used' = used \cup {s}
  BY AllocateData
<1>2. s \in Slots /\ s \notin used /\ 0 \in used /\ 0 \in Slots /\ ptr[0] = Mirror(BootClasses[1])
  BY SlotFacts DEF Free, NullInvariant, NullIsMirror
<1>3. ptr \in [Slots -> Block]
  BY DEF HeapTypeInvariant, HeapTypeOK, TypeOK
<1>4. h[s] = req /\ h[0] = Mirror(BootClasses[1])
  BY <1>1, <1>2, <1>3
<1>5. pc = "alloc" /\ frames' = frames /\ gcpc = "idle" /\ gcpc' = "idle"
  BY DEF Allocate, gcVars
<1>6. /\ ptr'[0] = Mirror(BootClasses[1]) /\ dest'.pos = dest.pos
      /\ \/ thStack' = thStack
         \/ dest.pos # 0 /\ \E w : thStack' = [thStack EXCEPT ![dest.pos] = w]
  BY <1>1, <1>2, <1>4, <1>5, FirstClass, DeliverKeeps
<1>7. dest.pos > PrefixLen /\ dest.pos \in Nat /\ dest.pos # 1
  <2>1. dest.pos > PrefixLen /\ dest.pos \in Nat
    BY <1>5 DEF NullInvariant, HeapTypeInvariant, HeapTypeOK
  <2> QED BY <2>1, FrameSize
<1>8. thStack'[1] = thStack[1]
  <2>1. thStack \in Seq(Word) /\ thStack # << >>
    BY DEF HeapTypeInvariant, HeapTypeOK, TypeOK, FramesOK
  <2>2. 1 \in 1 .. Len(thStack)
    BY <2>1, EmptySeq, LenProperties
  <2> QED BY <1>6, <1>7, <2>1, <2>2
<1> QED BY <1>1, <1>2, <1>5, <1>6, <1>7, <1>8 DEF NullInvariant, NullIsMirror

---------------------------------------------------------------------------
(* main() fills the table from its start. *)
LEMMA BootCalls ==
  ASSUME HeapTypeInvariant, BootInvariant, HeapTypeInvariant', BootLoad \/ BootArgv \/ BootArg
  PROVE  BootInvariant' /\ frames' = << >>
<1>1. /\ pc = "boot" /\ frames = << >> /\ gcpc = "idle" /\ used = 0 .. vmhTop /\ (vmhTop >= 0 => NullIsMirror)
      /\ vmhTop = Allocated - 1
  BY DEF BootLoad, BootArgv, BootArg, HeapTypeInvariant, FramesOK, BootInvariant
<1>2. UNCHANGED <<used, ptr, vmhTop, gcpc, boot, frames>>
  BY DEF BootLoad, BootArgv, BootArg, allVars, heapVars, gcVars
<1>3. Allocated' = Allocated /\ (NullIsMirror' <=> NullIsMirror)
  BY <1>2 DEF Allocated, NullIsMirror
<1>4. \A b, to, p, i : Request(b, Dest(to, p, i), vmhTop) =>
        pc' = "alloc" /\ req' = b /\ dest'.to = to /\ seek' = vmhTop + 1
  BY DEF Request, Dest
<1>5. /\ pc' = "alloc" /\ seek' = vmhTop + 1
      /\ \/ dest'.to = "boot" /\ boot.step <= NClasses /\ req' = Mirror(BootClasses[boot.step])
         \/ dest'.to = "argv" /\ boot.step = NClasses + 1
         \/ dest'.to = "chars" /\ boot.step \in ArgSteps
  <2>1. CASE BootLoad
    BY <1>4, <2>1 DEF BootLoad
  <2>2. CASE BootArgv
    BY <1>4, <2>2 DEF BootArgv
  <2>3. CASE BootArg
    <3>1. PICK i : NewString(Dest("chars", 0, i))
      BY <2>3 DEF BootArg
    <3>2. [Dest("chars", 0, i) EXCEPT !.to = "chars"] = Dest("chars", 0, i)
      BY DEF Dest
    <3>3. Request(Array(5, <<HeapSize>>), Dest("chars", 0, i), vmhTop)
      BY <3>1, <3>2 DEF NewString
    <3> QED BY <1>4, <2>3, <3>3 DEF BootArg, ArgSteps
  <2> QED BY <2>1, <2>2, <2>3
<1> QED BY <1>1, <1>2, <1>3, <1>5 DEF BootInvariant, ArgSteps, Mirror, Object

(* The program starts, with null allocated.                                *)
LEMMA NullMain ==
  ASSUME HeapTypeInvariant, BootInvariant, HeapTypeInvariant', BootMain
  PROVE  NullInvariant' /\ BootInvariant' /\ frames' # << >>
<1>1. /\ pc = "boot" /\ frames = << >> /\ gcpc = "idle" /\ used = 0 .. vmhTop /\ (vmhTop >= 0 => NullIsMirror)
      /\ vmhTop = Allocated - 1 /\ boot.step = NClasses + 2 + NumArgs
  BY DEF BootMain, HeapTypeInvariant, FramesOK, BootInvariant
<1>2. /\ UNCHANGED <<used, ptr, gcpc>> /\ frames' = <<PrefixLen>> /\ pc' \in {"run", "halted"}
  BY DEF BootMain, heapVars, gcVars
<1>3. vmhTop \in Nat
  <2>1. ~(boot.step <= NClasses + 1)
    BY <1>1, FirstClass
  <2>2. vmhTop = 2 * (NClasses + 2 + NumArgs) - NClasses - 3 - 1
    BY <1>1, <2>1 DEF Allocated
  <2> QED BY <2>2, FirstClass
<1>4. PICK stale \in [1 .. FrameCells -> StaleWords] : thStack' = Frame(0, [stale EXCEPT ![1] = boot.argv])
  BY DEF BootMain
<1>5. thStack'[1] = 0
  <2>1. boot.argv \in Slots
    BY DEF HeapTypeInvariant, HeapTypeOK
  <2>2. PICK cells : cells = [stale EXCEPT ![1] = boot.argv]
    OBVIOUS
  <2>3. cells \in [1 .. FrameCells -> Word]
    BY <2>1, <2>2, NewCells
  <2>4. \A k \in 1 .. PrefixLen : Frame(0, cells)[k] = 0
    BY <2>3, FrameType, SlotFacts
  <2> QED BY <1>4, <2>2, <2>4, FrameSize
<1>6. frames' # << >> /\ Len(frames') = 1 /\ \A k \in 1 .. 1 : frames'[k] = PrefixLen
  BY <1>2
<1>7. 0 \in used' /\ NullIsMirror'
  BY <1>1, <1>2, <1>3 DEF NullIsMirror
<1>8. PrefixLen >= PrefixLen
  BY FrameSize
<1> QED BY <1>1, <1>2, <1>5, <1>6, <1>7, <1>8 DEF NullInvariant, BootInvariant

(* main() never finds the table full: the next slot is there.              *)
LEMMA BootRoom ==
  ASSUME BootFits, HeapTypeInvariant, BootInvariant, frames = << >>, pc = "alloc"
  PROVE  /\ seek < HeapSize /\ seek \notin used /\ seek = vmhTop + 1
         /\ \/ dest.to = "boot" /\ boot.step <= NClasses /\ vmhTop = boot.step - 2
            \/ dest.to = "argv" /\ boot.step = NClasses + 1 /\ vmhTop = NClasses - 1
            \/ dest.to = "chars" /\ boot.step \in ArgSteps /\ vmhTop = 2 * boot.step - NClasses - 4
            \/ dest.to = "string" /\ boot.step \in ArgSteps /\ vmhTop = 2 * boot.step - NClasses - 3
<1>3. /\ used = 0 .. vmhTop /\ seek = vmhTop + 1
      /\ vmhTop = IF dest.to = "string" THEN Allocated ELSE Allocated - 1
      /\ \/ dest.to = "boot" /\ boot.step <= NClasses
         \/ dest.to = "argv" /\ boot.step = NClasses + 1
         \/ dest.to \in {"chars", "string"} /\ boot.step \in ArgSteps
  BY DEF BootInvariant
<1>4. PICK n \in Nat \ {0} : n = boot.step
  BY DEF HeapTypeInvariant, HeapTypeOK
<1>5. /\ Allocated = IF n <= NClasses + 1 THEN n - 1 ELSE 2 * n - NClasses - 3
      /\ vmhTop \in -1 .. HeapSize - 1
  BY <1>4 DEF Allocated, HeapTypeInvariant, HeapTypeOK, TypeOK
<1> DEFINE C == NClasses
<1>6. C \in Nat \ {0} /\ NumArgs \in Nat /\ HeapSize \in Nat /\ HeapSize >= C + 1 + 2 * NumArgs
  BY FirstClass DEF BootFits
<1>7. \/ dest.to = "boot" /\ n <= C /\ vmhTop = n - 2
      \/ dest.to = "argv" /\ n = C + 1 /\ vmhTop = C - 1
      \/ dest.to = "chars" /\ n \in C + 2 .. C + 1 + NumArgs /\ vmhTop = 2 * n - C - 4
      \/ dest.to = "string" /\ n \in C + 2 .. C + 1 + NumArgs /\ vmhTop = 2 * n - C - 3
  <2>1. Allocated = IF n <= C + 1 THEN n - 1 ELSE 2 * n - C - 3
    BY <1>5
  <2>2. dest.to \in {"chars", "string"} /\ boot.step \in ArgSteps => n \in C + 2 .. C + 1 + NumArgs
    BY <1>4 DEF ArgSteps
  <2>3. /\ dest.to = "boot" => n <= C
        /\ dest.to = "argv" => n = C + 1
        /\ dest.to \in {"chars", "string"} => n \in C + 2 .. C + 1 + NumArgs
        /\ dest.to \in {"boot", "argv", "chars", "string"}
    BY <1>3, <1>4, <2>2
  <2>4. vmhTop = IF dest.to = "string" THEN Allocated ELSE Allocated - 1
    BY <1>3
  <2> HIDE DEF C
  <2>5. CASE dest.to = "boot"
    <3>1. vmhTop = Allocated - 1
      BY <2>4, <2>5
    <3>2. n <= C
      BY <1>4, <1>6, <2>3, <2>5
    <3>3. vmhTop = n - 2
      BY <1>4, <1>6, <2>1, <3>1, <3>2
    <3> QED BY <2>3, <2>5, <3>3
  <2>6. CASE dest.to = "argv"
    <3>1. vmhTop = Allocated - 1
      BY <2>4, <2>6
    <3>2. n = C + 1
      BY <1>4, <1>6, <2>3, <2>6
    <3>3. vmhTop = C - 1
      BY <1>4, <1>6, <2>1, <3>1, <3>2
    <3> QED BY <2>3, <2>6, <3>3
  <2>7. CASE dest.to = "chars"
    <3>1. vmhTop = Allocated - 1
      BY <2>4, <2>7
    <3>2. n <= C + 1 + NumArgs /\ n >= C + 2
      BY <1>4, <1>6, <2>3, <2>7
    <3>3. vmhTop = 2 * n - C - 4
      <4>1. ~(n <= C + 1)
        BY <1>4, <1>6, <3>2
      <4>2. PICK m \in Int : m = 2 * n - C
        BY <1>4, <1>6
      <4>3. Allocated = m - 3
        BY <2>1, <4>1, <4>2
      <4>4. (m - 3) - 1 = m - 4
        OBVIOUS
      <4> QED BY <3>1, <4>2, <4>3, <4>4
    <3> QED BY <2>3, <2>7, <3>3
  <2>8. CASE dest.to = "string"
    <3>1. vmhTop = Allocated
      BY <2>4, <2>8
    <3>2. n <= C + 1 + NumArgs /\ n >= C + 2
      BY <1>4, <1>6, <2>3, <2>8
    <3>3. vmhTop = 2 * n - C - 3
      BY <1>4, <1>6, <2>1, <3>1, <3>2
    <3> QED BY <2>3, <2>8, <3>3
  <2> QED BY <2>3, <2>5, <2>6, <2>7, <2>8
<1>8. seek < HeapSize /\ seek \notin used /\ seek = vmhTop + 1
  <2> HIDE DEF C
  <2> QED BY <1>3, <1>6, <1>7
<1> QED BY <1>4, <1>7, <1>8 DEF ArgSteps, C

(* An allocation of main(): the next slot, which is there.                 *)
LEMMA BootAllocate ==
  ASSUME BootFits, HeapTypeInvariant, BootInvariant, HeapTypeInvariant', frames = << >>, Allocate
  PROVE  BootInvariant' /\ frames' = << >>
<1>1. PICK s \in Free, h \in [Slots -> Block] : s = Chosen
        /\ h = [ptr EXCEPT ![s] = req] /\ Deliver(s, h) /\ used' = used \cup {s} /\ vmhTop' = s
  <2>1. Chosen \in Free
    BY ChosenFree DEF Allocate, HeapTypeInvariant, HeapTypeOK, TypeOK
  <2>2. PICK s \in Free, h \in [Slots -> Block] :
          h = [ptr EXCEPT ![s] = req] /\ Deliver(s, h) /\ used' = used \cup {s} /\ vmhTop' = s
    BY AllocateData
  <2>3. vmhTop' = Chosen
    BY DEF Allocate
  <2> QED BY <2>1, <2>2, <2>3
<1>2. pc = "alloc" /\ frames' = << >> /\ gcpc = "idle" /\ gcpc' = "idle"
  BY DEF Allocate, gcVars
<1>3. /\ used = 0 .. vmhTop /\ (vmhTop >= 0 => NullIsMirror) /\ seek = vmhTop + 1
      /\ vmhTop = IF dest.to = "string" THEN Allocated ELSE Allocated - 1
      /\ \/ dest.to = "boot" /\ boot.step <= NClasses /\ req = Mirror(BootClasses[boot.step])
         \/ dest.to = "argv" /\ boot.step = NClasses + 1
         \/ dest.to \in {"chars", "string"} /\ boot.step \in ArgSteps
  BY <1>2 DEF BootInvariant
<1>4. PICK n \in Nat \ {0} : n = boot.step
  BY DEF HeapTypeInvariant, HeapTypeOK
<1>5. /\ Allocated = IF n <= NClasses + 1 THEN n - 1 ELSE 2 * n - NClasses - 3
      /\ dest.pos = 0 /\ vmhTop \in -1 .. HeapSize - 1
  BY <1>2, <1>4 DEF Allocated, HeapTypeInvariant, HeapTypeOK, TypeOK, DestOK
<1> DEFINE C == NClasses
<1>6. C \in Nat \ {0} /\ NumArgs \in Nat /\ HeapSize \in Nat /\ HeapSize >= C + 1 + 2 * NumArgs
  BY FirstClass DEF BootFits
<1>7. \/ dest.to = "boot" /\ n <= C /\ vmhTop = n - 2
      \/ dest.to = "argv" /\ n = C + 1 /\ vmhTop = C - 1
      \/ dest.to = "chars" /\ n \in C + 2 .. C + 1 + NumArgs /\ vmhTop = 2 * n - C - 4
      \/ dest.to = "string" /\ n \in C + 2 .. C + 1 + NumArgs /\ vmhTop = 2 * n - C - 3
  <2>1. n \in C + 2 .. C + 1 + NumArgs <=> n \in ArgSteps
    BY DEF ArgSteps
  <2>2. /\ \/ dest.to = "boot" /\ n <= C /\ vmhTop = n - 2
           \/ dest.to = "argv" /\ n = C + 1 /\ vmhTop = C - 1
           \/ dest.to = "chars" /\ n \in ArgSteps /\ vmhTop = 2 * n - C - 4
           \/ dest.to = "string" /\ n \in ArgSteps /\ vmhTop = 2 * n - C - 3
    BY <1>2, <1>4, BootRoom
  <2> QED BY <2>1, <2>2
<1>8. seek < HeapSize /\ seek \notin used /\ seek = vmhTop + 1
  BY <1>2, BootRoom
<1>9. s = vmhTop + 1 /\ s \in Slots /\ s \in Nat
  BY <1>1, <1>8, SlotFacts DEF Chosen, Free
<1>10. used' = 0 .. vmhTop'
  BY <1>1, <1>3, <1>5, <1>9
<1>11. NullIsMirror'
  <2>1. ptr \in [Slots -> Block] /\ 0 \in Slots
    BY SlotFacts DEF HeapTypeInvariant, HeapTypeOK, TypeOK
  <2>2. h[s] = req /\ \A t \in Slots \ {s} : h[t] = ptr[t]
    BY <1>1, <1>9, <2>1
  <2>3. h[0] = Mirror(BootClasses[1])
    <3>1. CASE vmhTop = -1
      <4>1. n = 1 /\ dest.to = "boot"
        <5> HIDE DEF C
        <5> QED BY <1>6, <1>7, <3>1
      <4>2. s = 0 /\ req = Mirror(BootClasses[1])
        BY <1>3, <1>4, <1>9, <3>1, <4>1
      <4> QED BY <2>2, <4>2
    <3>2. CASE vmhTop # -1
      <4>1. vmhTop >= 0 /\ s # 0
        BY <1>5, <1>9, <3>2
      <4> QED BY <1>3, <2>1, <2>2, <4>1 DEF NullIsMirror
    <3> QED BY <3>1, <3>2
  <2> QED BY <1>1, <1>2, <1>9, <2>1, <2>2, <2>3, FirstClass, DeliverKeeps DEF NullIsMirror
<1>12. boot \in [step : Nat \ {0}, mirror : Slots, argv : Slots] /\ dest \in [to : Purposes, pos : Nat, i : Nat]
  BY DEF HeapTypeInvariant, HeapTypeOK, Purposes
<1>13. \/ pc' = "boot" /\ boot'.step = n + 1 /\ dest.to # "chars"
       \/ pc' = "alloc" /\ boot' = boot /\ dest.to = "chars" /\ dest'.to = "string" /\ seek' = s + 1
  <2>1. CASE dest.to \in {"boot", "argv"}
    BY <1>1, <1>4, <1>12, <2>1 DEF Deliver
  <2>2. CASE dest.to = "chars"
    <3>1. [dest EXCEPT !.to = "string"].to = "string"
      BY <1>12
    <3> QED BY <1>1, <2>2, <3>1 DEF Deliver, Request
  <2>3. CASE dest.to = "string"
    BY <1>1, <1>4, <1>5, <1>12, <2>3 DEF Deliver
  <2> QED BY <1>7, <2>1, <2>2, <2>3
<1>14. CASE pc' = "boot"
  <2>1. boot'.step = n + 1 /\ dest.to # "chars"
    BY <1>13, <1>14
  <2>2. PICK a : a = Allocated'
    OBVIOUS
  <2>3. a = IF n + 1 <= C + 1 THEN n ELSE 2 * (n + 1) - C - 3
    <3>1. a = IF boot'.step <= C + 1 THEN boot'.step - 1 ELSE 2 * boot'.step - C - 3
      BY <2>2 DEF Allocated
    <3>2. n + 1 - 1 = n
      OBVIOUS
    <3> HIDE DEF C
    <3> QED BY <2>1, <3>1, <3>2
  <2>4. vmhTop' = vmhTop + 1
    BY <1>1, <1>9
  <2>5. vmhTop' = a - 1 /\ n + 1 <= C + 2 + NumArgs
    <3> HIDE DEF C
    <3> QED BY <1>6, <1>7, <2>1, <2>3, <2>4
  <2>6. pc' # "alloc"
    BY <1>14
  <2> QED BY <1>2, <1>10, <1>11, <1>14, <2>1, <2>2, <2>5, <2>6 DEF BootInvariant
<1>15. CASE pc' = "alloc"
  <2>1. boot' = boot /\ dest.to = "chars" /\ dest'.to = "string" /\ seek' = s + 1
    BY <1>13, <1>15
  <2>2. Allocated' = Allocated /\ vmhTop' = Allocated
    <3>1. Allocated' = Allocated
      BY <2>1 DEF Allocated
    <3>2. vmhTop = Allocated - 1 /\ vmhTop' = vmhTop + 1 /\ vmhTop \in Int
      BY <1>1, <1>3, <1>5, <1>9, <2>1
    <3>3. Allocated \in Int
      <4> HIDE DEF C
      <4> QED BY <1>4, <1>5, <1>6 DEF C
    <3> QED BY <3>1, <3>2, <3>3
  <2>3. boot.step \in ArgSteps /\ pc' # "boot"
    BY <1>3, <1>15, <2>1
  <2> QED BY <1>1, <1>2, <1>10, <1>11, <1>15, <2>1, <2>2, <2>3 DEF BootInvariant, ArgSteps
<1> QED BY <1>2, <1>13, <1>14, <1>15

(* While main() fills the table there is nothing to collect.               *)
LEMMA BootCollects ==
  ASSUME BootFits, HeapTypeInvariant, BootInvariant, frames = << >>, AllocateCollects \/ Collector
  PROVE  UNCHANGED <<pc, frames>> /\ pc \notin {"boot", "alloc"}
<1>1. UNCHANGED <<pc, frames>> /\ (AllocateCollects => pc = "alloc" /\ used = Slots)
      /\ (Collector => gcpc # "idle")
  BY DEF AllocateCollects, StartGC, Collector, Collect, MarkRoot, WalkField, WalkElement, Return,
         FinishMark, Sweep, EndGC, mutVars
<1> SUFFICES ASSUME pc \in {"boot", "alloc"} PROVE FALSE
  BY <1>1
<1>2. gcpc = "idle" /\ used = 0 .. vmhTop
  BY DEF BootInvariant
<1>3. pc = "alloc" /\ used = Slots
  BY <1>1, <1>2
<1>4. seek \notin used /\ seek < HeapSize
  BY <1>3, BootRoom
<1>5. seek \in 0 .. HeapSize /\ HeapSize \in Nat
  BY HeapAssumption DEF HeapTypeInvariant, HeapTypeOK
<1> QED BY <1>3, <1>4, <1>5 DEF Slots

(* Every step keeps both invariants.                                       *)
LEMMA NullStep ==
  ASSUME BootFits, HeapTypeInvariant, BootInvariant, NullInvariant, HeapTypeInvariant',
         [HeapNext]_heapAllVars
  PROVE  BootInvariant' /\ NullInvariant'
<1>1. CASE BootLoad \/ BootArgv \/ BootArg
  BY <1>1, BootCalls DEF NullInvariant
<1>2. CASE BootMain
  BY <1>2, NullMain
<1>3. CASE Instruction
  BY <1>3, NullInstruction DEF BootInvariant
<1>4. CASE Allocate /\ frames # << >>
  BY <1>4, NullAllocate DEF BootInvariant
<1>5. CASE Allocate /\ frames = << >>
  BY <1>5, BootAllocate DEF NullInvariant
<1>6. CASE (AllocateCollects \/ Collector) /\ frames # << >>
  BY <1>6, NullCollect DEF BootInvariant
<1>7. CASE (AllocateCollects \/ Collector) /\ frames = << >>
  BY <1>7, BootCollects DEF NullInvariant, BootInvariant
<1>8. CASE UNCHANGED heapAllVars
  <2>1. UNCHANGED <<used, marked, ptr, vmhTop, exStack, thStack, gcpc, root, hand>>
    BY <1>8 DEF heapAllVars, allVars, heapVars, gcVars
  <2>2. UNCHANGED <<pc, req, dest, seek, frames, boot>>
    BY <1>8 DEF heapAllVars, mutVars
  <2>3. Allocated' = Allocated /\ (NullIsMirror' <=> NullIsMirror)
    BY <2>1, <2>2 DEF Allocated, NullIsMirror
  <2> QED BY <2>1, <2>2, <2>3 DEF BootInvariant, NullInvariant
<1> QED BY <1>1, <1>2, <1>3, <1>4, <1>5, <1>6, <1>7, <1>8 DEF HeapNext, Boot, Allocation

(* Before the first allocation there is nothing to keep.                   *)
LEMMA NullInit ==
  ASSUME HeapInit
  PROVE  BootInvariant /\ NullInvariant
<1>1. /\ used = {} /\ vmhTop = -1 /\ gcpc = "idle" /\ pc = "boot" /\ frames = << >>
      /\ boot.step = 1
  BY DEF HeapInit
<1>2. NClasses \in Nat /\ NumArgs \in Nat
  BY FirstClass
<1>3. Allocated = 0 /\ 1 <= NClasses + 2 + NumArgs
  BY <1>1, <1>2 DEF Allocated
<1>4. 0 .. -1 = {} /\ ~(-1 >= 0)
  OBVIOUS
<1> QED BY <1>1, <1>3, <1>4 DEF BootInvariant, NullInvariant

(* Nothing roots slot 0, yet it stays null: on a heap with room for what   *)
(* main() makes at start-up, slot 0 holds the mirror of the first class    *)
(* and is in use in every state with a frame on the stack, through any     *)
(* number of collections, at whatever step of one, for the programs of     *)
(* HeapTypes.                                                              *)
THEOREM HeapNullReserved ==
  ASSUME InheritedAgree, BootFits
  PROVE  HeapSpec => []NullReserved
<1>1. HeapInit => BootInvariant /\ NullInvariant
  BY NullInit
<1>2. /\ HeapTypeInvariant /\ HeapTypeInvariant' /\ BootInvariant /\ NullInvariant
      /\ [HeapNext]_heapAllVars
      => BootInvariant' /\ NullInvariant'
  BY NullStep
<1>3. NullInvariant => NullReserved
  BY DEF NullInvariant, NullReserved, NullIsMirror
<1> QED BY <1>1, <1>2, <1>3, HeapTypeAlways, PTL DEF HeapSpec

---------------------------------------------------------------------------
(* The references of a block. *)

\* FieldRefs of an object, from its block alone.
RefsOf(b) ==
  {b.words[VarOffs(b.cls, j) + 1] :
     j \in {k \in Instance(b.cls) :
              Fields[b.cls][k].kind = "inst" /\ Fields[b.cls][k].ref /\ VarOffs(b.cls, k) < Len(b.words)}}
  \cap Slots

(* The references of an object depend on its block only.                   *)
LEMMA FieldRefsOf ==
  /\ \A s : FieldRefs(s) = RefsOf(ptr[s])
  /\ \A s : FieldRefs(s)' = RefsOf(ptr'[s])
BY DEF FieldRefs, RefsOf

(* The blocks of array-free programs refer to null, if to anything.        *)
LEMMA NewRefs ==
  ASSUME NEW c \in Classes
  PROVE  /\ RefsOf(Mirror(c)) = {} /\ RefsOf(Instant(c)) \subseteq {0}
         /\ Mirror(c).cls # NoClass /\ Instant(c).cls # NoClass
<1>1. Mirror(c) = [cls |-> c, type |-> 0, words |-> << >>]
  BY DEF Mirror, Object
<1>2. Instant(c) = [cls |-> c, type |-> 0, words |-> Zeros(NumVars(c))]
  BY DEF Instant, Object
<1>3. c # NoClass
  BY ClassAssumption
<1>4. RefsOf(Mirror(c)) = {}
  <2> SUFFICES ASSUME NEW x \in RefsOf(Mirror(c)) PROVE FALSE
    OBVIOUS
  <2>1. PICK j \in Instance(c) : VarOffs(c, j) < Len(<< >>)
    BY <1>1 DEF RefsOf
  <2>2. VarOffs(c, j) \in Nat
    BY OffsetType DEF Instance
  <2> QED BY <2>1, <2>2
<1>5. RefsOf(Instant(c)) \subseteq {0}
  <2> SUFFICES ASSUME NEW x \in RefsOf(Instant(c)) PROVE x = 0
    OBVIOUS
  <2>0. NumVars(c) \in Nat
    BY OffsetType
  <2>1. PICK z : z = Zeros(NumVars(c))
    OBVIOUS
  <2>2. Len(z) = NumVars(c) /\ \A i \in 1 .. NumVars(c) : z[i] = 0
    BY <2>0, <2>1, ZerosType
  <2>3. PICK j \in Instance(c) : VarOffs(c, j) < Len(z) /\ x = z[VarOffs(c, j) + 1]
    BY <1>2, <2>1 DEF RefsOf
  <2>4. VarOffs(c, j) \in Nat
    BY OffsetType DEF Instance
  <2>5. VarOffs(c, j) + 1 \in 1 .. NumVars(c)
    BY <2>0, <2>2, <2>3, <2>4
  <2> QED BY <2>2, <2>3, <2>5
<1> QED BY <1>1, <1>2, <1>3, <1>4, <1>5

(* A store into a block adds no reference but the one stored.              *)
LEMMA StoreRefsOf ==
  ASSUME NEW h \in [Slots -> Block], NEW s \in Slots, NEW k \in Nat, NEW w \in Word
  PROVE  /\ \A t \in Slots : Store(h, s, k, w)[t].cls = h[t].cls
         /\ \A t \in Slots : h[t].cls # NoClass =>
              RefsOf(Store(h, s, k, w)[t]) \subseteq RefsOf(h[t]) \cup ({w} \cap Slots)
<1>1. PICK g : g = Store(h, s, k, w)
  OBVIOUS
<1>2. /\ g \in [Slots -> Block] /\ \A t \in Slots \ {s} : g[t] = h[t]
      /\ g[s].cls = h[s].cls /\ Len(g[s].words) = Len(h[s].words)
      /\ \A i \in 1 .. Len(h[s].words) : g[s].words[i] = IF i = k THEN w ELSE h[s].words[i]
  BY <1>1, StoreType
<1>3. h[s].cls # NoClass => RefsOf(g[s]) \subseteq RefsOf(h[s]) \cup ({w} \cap Slots)
  <2> SUFFICES ASSUME h[s].cls # NoClass, NEW x \in RefsOf(g[s]), x # w PROVE x \in RefsOf(h[s])
    BY DEF RefsOf
  <2> DEFINE c == h[s].cls
  <2>1. PICK j \in Instance(c) :
          /\ Fields[c][j].kind = "inst" /\ Fields[c][j].ref /\ VarOffs(c, j) < Len(h[s].words)
          /\ x = g[s].words[VarOffs(c, j) + 1] /\ x \in Slots
    BY <1>2 DEF RefsOf
  <2>2. Len(h[s].words) \in Nat
    BY LenProperties DEF Block
  <2>3. VarOffs(c, j) \in Nat
    <3>1. c \in Classes
      BY DEF Block
    <3> QED BY <2>1, <3>1, OffsetType DEF Instance
  <2>4. VarOffs(c, j) + 1 \in 1 .. Len(h[s].words)
    BY <2>1, <2>2, <2>3
  <2>5. x = h[s].words[VarOffs(c, j) + 1]
    BY <1>2, <2>1, <2>4
  <2> QED BY <2>1, <2>5 DEF RefsOf
<1> QED BY <1>1, <1>2, <1>3

(* A number that is written, in a word that is no reference field's, makes *)
(* no reference of it.                                                     *)
LEMMA NumberRefsOf ==
  ASSUME NEW h \in [Slots -> Block], NEW s \in Slots, NEW k \in Nat, NEW w \in Word,
         h[s].cls \in Classes, \A j \in InstRefs(h[s].cls) : VarOffs(h[s].cls, j) + 1 # k
  PROVE  \A t \in Slots : RefsOf(Store(h, s, k, w)[t]) \subseteq RefsOf(h[t])
<1>1. PICK g : g = Store(h, s, k, w)
  OBVIOUS
<1>2. /\ g \in [Slots -> Block] /\ \A t \in Slots \ {s} : g[t] = h[t]
      /\ g[s].cls = h[s].cls /\ Len(g[s].words) = Len(h[s].words)
      /\ \A i \in 1 .. Len(h[s].words) : g[s].words[i] = IF i = k THEN w ELSE h[s].words[i]
  BY <1>1, StoreType
<1>3. RefsOf(g[s]) \subseteq RefsOf(h[s])
  <2> SUFFICES ASSUME NEW x \in RefsOf(g[s]) PROVE x \in RefsOf(h[s])
    OBVIOUS
  <2> DEFINE c == h[s].cls
  <2>1. PICK j \in Instance(c) :
          /\ Fields[c][j].kind = "inst" /\ Fields[c][j].ref /\ VarOffs(c, j) < Len(h[s].words)
          /\ x = g[s].words[VarOffs(c, j) + 1] /\ x \in Slots
    BY <1>2 DEF RefsOf
  <2>2. Len(h[s].words) \in Nat
    BY LenProperties DEF Block
  <2>3. VarOffs(c, j) \in Nat /\ j \in FieldIdx(c)
    BY <2>1, OffsetType DEF Instance
  <2>4. VarOffs(c, j) + 1 \in 1 .. Len(h[s].words)
    BY <2>1, <2>2, <2>3
  <2>5. j \in InstRefs(c)
    BY <2>1, <2>3, RefKind
  <2>6. x = h[s].words[VarOffs(c, j) + 1]
    BY <1>2, <2>1, <2>4, <2>5
  <2> QED BY <2>1, <2>6 DEF RefsOf
<1> QED BY <1>1, <1>2, <1>3

---------------------------------------------------------------------------
(* What an instruction that writes no object finds to put in its cells. *)

LiveValues == {thStack[p] : p \in live}
Usable == {0} \cup LiveValues \cup UNION {{ptr[s].words[WordOf(cj)] : cj \in RefFields(s)} : s \in LiveValues}

(* Storing a reference in a cell makes no other reference usable.          *)
LEMMA PutRefValues ==
  ASSUME HeapTypeInvariant, NEW p \in MyCells, frames # << >>, NEW s \in Slots, PutRef(p, s)
  PROVE  \A q \in live' : thStack'[q] \in LiveValues \cup {s}
<1>1. p \in 1 .. Len(thStack)
  BY CellsOnStack DEF HeapTypeInvariant
<1> DEFINE t == thStack
<1>2. t \in Seq(Word) /\ s \in Word
  BY SlotFacts DEF HeapTypeInvariant, HeapTypeOK, TypeOK
<1>3. live \in SUBSET (1 .. Len(t)) /\ p \in 1 .. Len(t) /\ \A q \in live : t[q] \in LiveValues
  BY <1>1 DEF HeapTypeInvariant, HeapTypeOK, LiveValues
<1>4. thStack' = [t EXCEPT ![p] = s] /\ live' = live \cup {p}
  BY DEF PutRef
<1> HIDE DEF t
<1>5. \A j \in 1 .. Len(t) : [t EXCEPT ![p] = s][j] = IF j = p THEN s ELSE t[j]
  BY <1>2, <1>3, ExceptSeq
<1> QED BY <1>3, <1>4, <1>5

(* Nor does storing a word that is none.                                   *)
LEMMA PutWordValues ==
  ASSUME HeapTypeInvariant, NEW p, NEW w, PutWord(p, w)
  PROVE  \A q \in live' : thStack'[q] \in LiveValues
<1>1. thStack \in Seq(Word) /\ live \in SUBSET (1 .. Len(thStack))
  BY DEF HeapTypeInvariant, HeapTypeOK, TypeOK
<1>2. \A q \in live' : thStack'[q] = thStack[q] /\ q \in live
  BY <1>1 DEF PutWord
<1> QED BY <1>2 DEF LiveValues

(* An instruction that writes no object leaves the program with references *)
(* it had, with those in the objects it had, and with null.                *)
LEMMA UsesUsable ==
  ASSUME InheritedAgree, HeapTypeInvariant,
         MoveRef \/ Overwrite \/ GetField \/ FieldBeyond \/ Invoke \/ MethodReturn \/ Halt
  PROVE  /\ \A p \in live' : thStack'[p] \in Usable
         /\ UNCHANGED <<used, marked, ptr, vmhTop, exStack, fvar, gcVars, req, dest>>
         /\ Running /\ pc' \in {"run", "halted", "corrupt"} /\ frames # << >>
<1>1. /\ UNCHANGED <<used, marked, ptr, vmhTop, exStack, fvar, gcVars, req, dest>>
      /\ Running /\ pc' \in {"run", "halted", "corrupt"}
  BY DEF MoveRef, Overwrite, GetField, FieldBeyond, Invoke, MethodReturn, Halt, Does, Running, heapVars, allVars, gcVars
<1>2. frames # << >> /\ \A p \in MyCells : p \in 1 .. Len(thStack)
  BY <1>1, CellsOnStack DEF HeapTypeInvariant, FramesOK, Running
<1>3. /\ \A q \in MyRefs : q \in live /\ thStack[q] \in Slots
      /\ \A s \in Slots : \A cj \in RefFields(s) : ptr[s].words[WordOf(cj)] \in Slots
  BY ReadRefs, FieldWord DEF MyRefs, RefFields
<1>4. LiveValues \subseteq Usable /\ 0 \in Usable
  BY DEF Usable
<1>5. CASE MoveRef
  <2>1. PICK p \in MyCells, s \in {thStack[q] : q \in MyRefs} \cup {0} : PutRef(p, s)
    BY <1>5 DEF MoveRef
  <2>2. s \in Slots /\ s \in Usable
    BY <1>3, <1>4, SlotFacts DEF LiveValues
  <2> QED BY <1>1, <1>2, <1>4, <2>1, <2>2, PutRefValues
<1>6. CASE Overwrite
  <2>1. PICK p \in MyCells : PutWord(p, HeapSize)
    BY <1>6 DEF Overwrite
  <2> QED BY <1>1, <1>2, <1>4, <2>1, PutWordValues
<1>7. CASE GetField
  <2>1. PICK p \in MyRefs, q \in MyCells : \E cj \in InBlock(thStack[p]) :
          LET w == ptr[thStack[p]].words[WordOf(cj)] IN
          IF cj \in RefCells THEN PutRef(q, w) ELSE PutWord(q, w)
    BY <1>7 DEF GetField
  <2>2. PICK s \in LiveValues : s = thStack[p] /\ s \in Slots
    BY <1>3 DEF LiveValues
  <2>3. PICK cj \in InBlock(s) : \E w : /\ w = ptr[s].words[WordOf(cj)]
                                        /\ IF cj \in RefCells THEN PutRef(q, w) ELSE PutWord(q, w)
    BY <2>1, <2>2
  <2>4. PICK w : w = ptr[s].words[WordOf(cj)] /\ IF cj \in RefCells THEN PutRef(q, w) ELSE PutWord(q, w)
    BY <2>3
  <2>5. CASE cj \in RefCells
    <3>1. cj \in RefFields(s)
      BY <2>5 DEF RefFields
    <3>2. w \in Slots /\ w \in Usable
      BY <1>3, <2>2, <2>4, <3>1 DEF Usable
    <3> QED BY <1>1, <1>2, <1>4, <2>4, <2>5, <3>2, PutRefValues
  <2>6. CASE cj \notin RefCells
    BY <1>1, <1>2, <1>4, <2>4, <2>6, PutWordValues
  <2> QED BY <2>5, <2>6
<1>8. CASE Invoke
  <2>1. /\ \A k \in 1 .. Len(thStack) : thStack'[k] = thStack[k]
        /\ \E arg \in MyRefs : thStack'[Len(thStack) + PrefixLen + 1] = thStack[arg]
    BY <1>8, InvokeEffect
  <2>2. live' = live \cup {Len(thStack) + PrefixLen + 1} /\ live \in SUBSET (1 .. Len(thStack))
    BY <1>8 DEF Invoke, HeapTypeInvariant, HeapTypeOK
  <2>3. \A q \in live' : thStack'[q] \in LiveValues
    <3> TAKE q \in live'
    <3>1. CASE q \in live
      BY <2>1, <2>2, <3>1 DEF LiveValues
    <3>2. CASE q = Len(thStack) + PrefixLen + 1
      BY <1>3, <2>1, <3>2 DEF LiveValues
    <3> QED BY <2>2, <3>1, <3>2
  <2> QED BY <1>1, <1>2, <1>4, <2>3
<1>9. CASE MethodReturn
  <2>1. \A q \in live' : \E r \in live : thStack'[q] = thStack[r]
    BY <1>9, ReturnEffect
  <2>2. \A q \in live' : thStack'[q] \in LiveValues
    BY <2>1 DEF LiveValues
  <2> QED BY <1>1, <1>2, <1>4, <2>2
<1>10. CASE Halt \/ FieldBeyond
  <2>1. live' = live /\ thStack' = thStack
    BY <1>10 DEF Halt, FieldBeyond, allVars
  <2>2. \A q \in live' : thStack'[q] \in LiveValues
    BY <2>1 DEF LiveValues
  <2> QED BY <1>1, <1>2, <1>4, <2>2
<1> QED BY <1>5, <1>6, <1>7, <1>8, <1>9, <1>10

(* A reference word of an object holds one of its references.              *)
LEMMA ReadsRefs ==
  ASSUME InheritedAgree, HeapTypeInvariant, NEW s \in Slots, NEW cj \in RefFields(s)
  PROVE  ptr[s].words[WordOf(cj)] \in FieldRefs(s)
<1>1. cj \in InBlock(s) /\ cj \in RefCells
  BY DEF RefFields
<1>2. PICK c \in Classes : c = ptr[s].cls
  BY <1>1, NamedFieldIsOwn
<1>3. PICK j \in FieldIdx(c) :
        j \in InstRefs(c) /\ WordOf(cj) = VarOffs(c, j) + 1 /\ WordOf(cj) \in 1 .. Len(ptr[s].words)
  BY <1>1, <1>2, NamedFieldIsOwn
<1>4. VarOffs(c, j) \in Nat /\ Len(ptr[s].words) \in Nat
  BY <1>3, OffsetType, LenProperties DEF HeapTypeInvariant, HeapTypeOK, TypeOK, Block
<1>5. VarOffs(c, j) < Len(ptr[s].words)
  BY <1>3, <1>4
<1>6. j \in Instance(c) /\ Fields[c][j].kind = "inst" /\ Fields[c][j].ref
  BY <1>3 DEF Instance, InstRefs
<1>7. ptr[s].words[WordOf(cj)] \in Slots
  BY <1>1, FieldWord
<1> QED BY <1>2, <1>3, <1>5, <1>6, <1>7 DEF FieldRefs

(* The references it may use lie in any set of objects that is closed.     *)
LEMMA UsableClosed ==
  ASSUME InheritedAgree, HeapTypeInvariant, NEW S \in SUBSET Slots, Closed(S)
  PROVE  Usable \subseteq S
<1>1. 0 \in S /\ LiveValues \subseteq S /\ \A s \in S : FieldRefs(s) \subseteq S
  BY DEF Closed, LiveValues
<1>2. \A s \in LiveValues : \A cj \in RefFields(s) : ptr[s].words[WordOf(cj)] \in S
  BY <1>1, ReadsRefs
<1> QED BY <1>1, <1>2 DEF Usable

---------------------------------------------------------------------------
(* The invariant, step by step. *)

\* A set of objects of heap h, with null and closed under their fields.
ObjectSet(S, h) == 0 \in S /\ \A s \in S : h[s].cls # NoClass /\ RefsOf(h[s]) \subseteq S
\* Heap h, with the slots U in use, refers to no other slot.
ClosedHeap(U, h) == \A s \in U : h[s].cls # NoClass => RefsOf(h[s]) \subseteq U

(* What the invariant says between two collections.                        *)
LEMMA IdleFacts ==
  ASSUME HeapTypeInvariant, RefsInvariant, gcpc = "idle"
  PROVE  /\ marked = {} /\ ClosedHeap(used, ptr)
         /\ frames # << >> => \E S \in SUBSET used : ObjectSet(S, ptr) /\ LiveValues \subseteq S /\ Closed(S)
<1>1. marked = {} /\ used \in SUBSET Slots
  BY DEF RefsInvariant, MarksAhead, HeapTypeInvariant, HeapTypeOK, TypeOK
<1>2. Staying = used
  BY DEF Staying
<1>3. ClosedHeap(used, ptr)
  BY <1>2, FieldRefsOf DEF RefsInvariant, FieldsClosed, ClosedHeap, IsArray
<1>4. ASSUME frames # << >>
      PROVE  \E S \in SUBSET used : ObjectSet(S, ptr) /\ LiveValues \subseteq S /\ Closed(S)
  <2>1. PICK S \in SUBSET Slots : Closed(S)
    BY <1>4 DEF RefsInvariant
  <2>2. S \in SUBSET used /\ ObjectSet(S, ptr) /\ LiveValues \subseteq S
    BY <1>2, <2>1, FieldRefsOf DEF Closed, ObjectSet, LiveValues, IsArray
  <2> QED BY <2>1, <2>2
<1> QED BY <1>1, <1>3, <1>4

(* And what a step that starts and ends between two collections must keep. *)
LEMMA IdleStep ==
  ASSUME HeapTypeInvariant', gcpc' = "idle", marked' = {}, ClosedHeap(used', ptr'),
         pc' = "alloc" /\ dest'.to = "string" => Last(exStack') \in used',
         pc' = "alloc" /\ dest'.to \in {"argv", "chars"} => req'.cls = NoClass,
         frames' # << >> =>
           /\ pc' = "alloc" => \E c \in Classes : \/ dest'.to = "mirror" /\ req' = Mirror(c)
                                                  \/ dest'.to = "cell" /\ req' = Instant(c)
           /\ \E S \in SUBSET used' : ObjectSet(S, ptr') /\ \A p \in live' : thStack'[p] \in S
  PROVE  RefsInvariant'
<1>1. used' \in SUBSET Slots
  BY DEF HeapTypeInvariant, HeapTypeOK, TypeOK
<1>2. Staying' = used'
  BY DEF Staying
<1>3. \A s : IsArray(s)' <=> ptr'[s].cls = NoClass
  BY DEF IsArray
<1>4. FieldsClosed'
  BY <1>2, <1>3, FieldRefsOf DEF FieldsClosed, ClosedHeap
<1>5. ASSUME NEW S \in SUBSET used', ObjectSet(S, ptr'), \A p \in live' : thStack'[p] \in S
      PROVE  Closed(S)' /\ S \in SUBSET Slots
  BY <1>1, <1>2, <1>3, <1>5, FieldRefsOf DEF Closed, ObjectSet
<1>6. frames' # << >> => \E S \in SUBSET Slots : Closed(S)'
  BY <1>5
<1>7. MarksAhead' /\ MarkInvariant'
  BY DEF MarksAhead, MarkInvariant
<1>8. \A c : Instant(c)' = Instant(c) /\ Mirror(c)' = Mirror(c)
  BY DEF Instant, Mirror
<1> QED BY <1>4, <1>6, <1>7, <1>8 DEF RefsInvariant

(* The instructions of an array-free program.                              *)
LEMMA RefsInstruction ==
  ASSUME InheritedAgree, ArrayFree, HeapTypeInvariant, HeapTypeInvariant', RefsInvariant, Instruction,
         frames # << >>, frames' # << >>
  PROVE  RefsInvariant'
<1>1. Running
  BY DEF Instruction, New, NewArray, LoadString, MultiANewArray, MoveRef, Overwrite, PutField,
         GetField, FieldBeyond, AAStore, AALoad, PutStatic, GetStatic, Invoke, MethodReturn, Halt, Does
<1>2. gcpc = "idle" /\ pc = "run"
  BY <1>1 DEF Running
<1>3. /\ marked = {} /\ ClosedHeap(used, ptr)
  BY <1>2, IdleFacts
<1>4. PICK S \in SUBSET used : ObjectSet(S, ptr) /\ LiveValues \subseteq S /\ Closed(S)
  BY <1>2, IdleFacts
<1>5. S \in SUBSET Slots
  BY <1>4 DEF HeapTypeInvariant, HeapTypeOK, TypeOK
<1>6. ~(NewArray \/ LoadString \/ MultiANewArray \/ AAStore \/ AALoad \/ PutStatic \/ GetStatic)
  BY DEF ArrayFree, NewArray, LoadString, MultiANewArray, AAStore, AALoad, PutStatic, GetStatic, Does
<1>7. CASE MoveRef \/ Overwrite \/ GetField \/ FieldBeyond \/ Invoke \/ MethodReturn \/ Halt
  <2>1. /\ \A p \in live' : thStack'[p] \in S
        /\ UNCHANGED <<used, marked, ptr, gcpc>> /\ pc' # "alloc"
    BY <1>4, <1>5, <1>7, UsesUsable, UsableClosed DEF gcVars
  <2> QED BY <1>2, <1>3, <1>4, <2>1, IdleStep
<1>8. CASE New
  <2>1. UNCHANGED <<used, marked, ptr, gcpc, live, thStack>>
    BY <1>8 DEF New, allVars
  <2>2. \E c \in Classes : \/ dest'.to = "mirror" /\ req' = Mirror(c)
                           \/ dest'.to = "cell" /\ req' = Instant(c)
    <3>1. PICK c \in NewClasses, p \in MyCells :
            \/ Request(Instant(c), Dest("cell", p, 0), vmhTop)
            \/ Request(Mirror(c), Dest("mirror", p, 0), vmhTop)
      BY <1>8 DEF New
    <3>2. c \in Classes
      BY MutatorAssumption
    <3>3. \A b, to : Request(b, Dest(to, p, 0), vmhTop) => req' = b /\ dest'.to = to
      BY DEF Request, Dest
    <3>4. \/ dest'.to = "mirror" /\ req' = Mirror(c)
          \/ dest'.to = "cell" /\ req' = Instant(c)
      BY <3>1, <3>3
    <3>5. PICK b \in {Mirror(c), Instant(c)} : req' = b
      BY <3>4
    <3>6. CASE dest'.to = "mirror"
      BY <3>2, <3>4, <3>6
    <3>7. CASE dest'.to # "mirror"
      BY <3>2, <3>4, <3>7
    <3> QED BY <3>6, <3>7
  <2>3. \A p \in live' : thStack'[p] \in S
    BY <1>4, <2>1 DEF LiveValues
  <2> QED BY <1>2, <1>3, <1>4, <2>1, <2>2, <2>3, IdleStep
<1>9. CASE PutField
  <2>1. PICK p \in MyRefs : \E cj \in InBlock(thStack[p]) :
          \E w \in IF cj \in RefCells THEN {thStack[q] : q \in MyRefs} ELSE StaleWords :
            ptr' = Store(ptr, thStack[p], WordOf(cj), w)
    BY <1>9 DEF PutField
  <2>2. PICK s \in LiveValues : s = thStack[p]
    BY DEF LiveValues, MyRefs
  <2>3. s \in Slots /\ s \in S
    BY <1>4, <1>5
  <2>4. PICK cj \in InBlock(s) : \E w \in IF cj \in RefCells THEN {thStack[q] : q \in MyRefs} ELSE StaleWords :
          ptr' = Store(ptr, s, WordOf(cj), w)
    BY <2>1, <2>2
  <2>5. PICK w, k : /\ w \in IF cj \in RefCells THEN {thStack[q] : q \in MyRefs} ELSE StaleWords
                    /\ k \in Nat /\ k = WordOf(cj) /\ ptr' = Store(ptr, s, k, w)
    BY <2>3, <2>4, FieldWord
  <2>6. /\ \A t \in Slots : ptr'[t].cls = ptr[t].cls
        /\ \A t \in Slots : ptr[t].cls # NoClass => RefsOf(ptr'[t]) \subseteq RefsOf(ptr[t]) \cup S
    <3>1. ptr \in [Slots -> Block]
      BY DEF HeapTypeInvariant, HeapTypeOK, TypeOK
    <3>2. CASE cj \in RefCells
      <4>1. w \in S /\ w \in Word
        BY <1>4, <1>5, <2>5, <3>2, SlotFacts DEF LiveValues, MyRefs
      <4>2. \A t \in Slots : Store(ptr, s, k, w)[t].cls = ptr[t].cls
        BY <2>3, <3>1 DEF Store
      <4>3. \A t \in Slots : ptr[t].cls # NoClass =>
              RefsOf(Store(ptr, s, k, w)[t]) \subseteq RefsOf(ptr[t]) \cup ({w} \cap Slots)
        BY <2>3, <2>5, <3>1, <4>1, StoreRefsOf
      <4>4. PICK g : g = Store(ptr, s, k, w)
        OBVIOUS
      <4>5. ptr' = g
        BY <2>5, <4>4
      <4>6. \A t \in Slots : g[t].cls = ptr[t].cls
        BY <4>2, <4>4
      <4>7. \A t \in Slots : ptr[t].cls # NoClass => RefsOf(g[t]) \subseteq RefsOf(ptr[t]) \cup S
        BY <4>1, <4>3, <4>4
      <4> QED BY <4>5, <4>6, <4>7
    <3>3. CASE cj \notin RefCells
      <4>1. w \in Word
        BY <2>5, <3>3, MutatorAssumption
      <4>2. ptr[s].cls \in Classes /\ \A j \in InstRefs(ptr[s].cls) : VarOffs(ptr[s].cls, j) + 1 # k
        BY <2>3, <2>5, <3>3, FieldWord
      <4>3. \A t \in Slots : Store(ptr, s, k, w)[t].cls = ptr[t].cls
        BY <2>3, <3>1 DEF Store
      <4>4. \A t \in Slots : RefsOf(Store(ptr, s, k, w)[t]) \subseteq RefsOf(ptr[t])
        BY <2>3, <2>5, <3>1, <4>1, <4>2, NumberRefsOf
      <4>5. PICK g : g = Store(ptr, s, k, w)
        OBVIOUS
      <4>6. ptr' = g
        BY <2>5, <4>5
      <4>7. \A t \in Slots : g[t].cls = ptr[t].cls
        BY <4>3, <4>5
      <4>8. \A t \in Slots : RefsOf(g[t]) \subseteq RefsOf(ptr[t])
        BY <4>4, <4>5
      <4> QED BY <4>6, <4>7, <4>8
    <3> QED BY <3>2, <3>3
  <2>7. UNCHANGED <<used, marked, gcpc, live, thStack, frames, pc>>
    BY <1>9 DEF PutField, gcVars, mutVars
  <2>8. ObjectSet(S, ptr') /\ ClosedHeap(used, ptr')
    <3>1. S \subseteq used /\ used \subseteq Slots
      BY DEF HeapTypeInvariant, HeapTypeOK, TypeOK
    <3>2. ObjectSet(S, ptr')
      BY <1>4, <2>6, <3>1 DEF ObjectSet
    <3>3. ClosedHeap(used, ptr')
      BY <1>3, <2>6, <3>1 DEF ClosedHeap
    <3> QED BY <3>2, <3>3
  <2>9. \A p1 \in live' : thStack'[p1] \in S
    BY <1>4, <2>7 DEF LiveValues
  <2> QED BY <1>2, <1>3, <1>4, <2>7, <2>8, <2>9, IdleStep
<1> QED BY <1>6, <1>7, <1>8, <1>9 DEF Instruction

(* The collector: what stays is settled when the mark phase ends.          *)
LEMMA StayingStep ==
  ASSUME TypeOK, MarksAhead, MarkInvariant, GcNext
  PROVE  \/ Staying' = Staying /\ (gcpc' \in {"idle", "sweep"} => gcpc \in {"idle", "sweep"})
         \/ /\ Staying' = marked /\ marked' = marked /\ gcpc' = "sweep" /\ hand' = 0 /\ Held \subseteq marked
            /\ \A s \in marked : Follows(s) \subseteq marked
<1>1. used \in SUBSET Slots /\ marked \in SUBSET Slots /\ HeapSize \in Nat
  BY HeapAssumption DEF TypeOK
<1>2. CASE StartGC \/ MarkRoot \/ WalkField \/ WalkElement \/ Return
  <2>1. used' = used /\ gcpc \in {"idle", "mark"} /\ gcpc' \in {"mark", "crashed"}
    BY <1>2 DEF StartGC, MarkRoot, WalkField, WalkElement, Return, Enter, heapVars
  <2> QED BY <2>1 DEF Staying
<1>3. CASE FinishMark
  <2>1. /\ gcpc = "mark" /\ calls = << >> /\ root > Len(Roots) /\ gcpc' = "sweep"
        /\ UNCHANGED <<used, marked, hand>>
    BY <1>3 DEF FinishMark, heapVars
  <2>2. hand = 0 /\ used = Slots /\ ScanOK(<< >>, marked, root)
    BY <2>1 DEF MarksAhead, MarkInvariant
  <2>3. \A s \in Slots : s >= 0
    BY DEF Slots
  <2>4. Staying' = marked
    BY <1>1, <2>1, <2>2, <2>3 DEF Staying
  <2>5. \A s \in marked : Follows(s) \subseteq marked
    BY <2>2 DEF ScanOK, Active
  <2>6. Held \subseteq marked
    <3> SUFFICES ASSUME NEW s \in Held PROVE s \in marked
      OBVIOUS
    <3>1. PICK n \in 1 .. Len(Roots) : Roots[n] = s
      BY DEF Held, StackSlots
    <3>2. n < root
      BY <2>1, <3>1, RootsType DEF TypeOK
    <3> QED BY <2>2, <3>1, <3>2 DEF ScanOK, Active
  <2> QED BY <2>1, <2>2, <2>4, <2>5, <2>6
<1>4. CASE Sweep
  <2>1. /\ gcpc = "sweep" /\ gcpc' = "sweep" /\ hand \in Slots /\ hand' = hand + 1
        /\ marked' = marked \ {hand}
        /\ IF hand \in used \ marked THEN used' = used \ {hand} ELSE used' = used
    BY <1>4 DEF Sweep, Frees, Unmark
  <2>2. \A s \in Slots : s >= hand <=> s = hand \/ s >= hand'
    BY <2>1 DEF Slots
  <2>3. ~(hand >= hand')
    BY <2>1 DEF Slots
  <2>4. \A s \in Slots : s \in Staying' <=> s \in Staying
    BY <2>1, <2>2, <2>3 DEF Staying
  <2>5. Staying \subseteq Slots /\ Staying' \subseteq Slots
    BY <1>1, <2>1 DEF Staying
  <2> QED BY <2>1, <2>4, <2>5
<1>5. CASE EndGC
  <2>1. gcpc = "sweep" /\ gcpc' = "idle" /\ hand = HeapSize /\ used' = used
    BY <1>5 DEF EndGC, heapVars
  <2>2. \A s \in Slots : ~(s >= hand)
    BY <1>1, <2>1 DEF Slots
  <2> QED BY <1>1, <2>1, <2>2 DEF Staying
<1> QED BY <1>2, <1>3, <1>4, <1>5 DEF GcNext, Collect

(* A step of a collection keeps the invariant: when marking ends, what is  *)
(* marked and was closed is closed, and it is what stays.                  *)
LEMMA RefsCollect ==
  ASSUME StaticsLast, BootFits, HeapTypeInvariant, HeapTypeInvariant', BootInvariant, NullInvariant',
         RefsInvariant, AllocateCollects \/ Collector
  PROVE  RefsInvariant'
<1>1. GcNext /\ UNCHANGED <<pc, req, dest, frames, live>>
  BY DEF AllocateCollects, Collector, GcNext, mutVars
<1>2. UNCHANGED <<ptr, exStack, thStack>>
  BY <1>1, HeapUntouched
<1>3. TypeOK /\ TypeOK' /\ OffsetsOK /\ MarksAhead /\ MarkInvariant
  BY DEF HeapTypeInvariant, HeapTypeOK, RefsInvariant
<1>4. MarksAhead' /\ MarkInvariant'
  BY <1>1, <1>3, MarkStep, MarksStep
<1>5. /\ \A s : IsArray(s)' <=> IsArray(s)
      /\ \A s : FieldRefs(s)' = FieldRefs(s)
  BY <1>2, FieldRefsOf DEF IsArray
<1>6. \/ Staying' = Staying /\ (gcpc' \in {"idle", "sweep"} => gcpc \in {"idle", "sweep"})
      \/ /\ Staying' = marked /\ marked' = marked /\ gcpc' = "sweep" /\ hand' = 0 /\ Held \subseteq marked
         /\ \A s \in marked : Follows(s) \subseteq marked
  BY <1>1, <1>3, StayingStep
<1>7. gcpc' \in {"idle", "sweep"} => FieldsClosed'
  <2>1. CASE Staying' = Staying /\ gcpc \in {"idle", "sweep"}
    BY <1>5, <2>1 DEF RefsInvariant, FieldsClosed
  <2>2. CASE Staying' = marked /\ \A s \in marked : Follows(s) \subseteq marked
    BY <1>5, <2>2 DEF FieldsClosed, Follows
  <2> QED BY <1>6, <2>1, <2>2
<1>8. pc \in {"boot", "alloc"} => frames # << >>
  BY BootCollects
<1>9. ASSUME frames # << >>
      PROVE  /\ pc = "alloc" => \E c \in Classes : \/ dest.to = "mirror" /\ req = Mirror(c)
                                                   \/ dest.to = "cell" /\ req = Instant(c)
             /\ \E S \in SUBSET Slots : Closed(S)'
  <2>1. PICK S \in SUBSET Slots : Closed(S)
    BY <1>9 DEF RefsInvariant
  <2>2. CASE Staying' = Staying
    <3>1. Closed(S)'
      BY <1>1, <1>2, <1>5, <2>1, <2>2 DEF Closed
    <3> QED BY <1>9, <3>1 DEF RefsInvariant
  <2>3. CASE /\ Staying' = marked /\ marked' = marked /\ gcpc' = "sweep" /\ hand' = 0 /\ Held \subseteq marked
             /\ \A s \in marked : Follows(s) \subseteq marked
    <3>0. PICK R \in SUBSET Slots : R = S \cap marked
      OBVIOUS
    <3>1. 0 \in R
      BY <1>1, <1>9, <2>1, <2>3, <3>0 DEF NullInvariant, Closed
    <3>2. \A p \in live : thStack[p] \in R
      <4> TAKE p \in live
      <4>1. thStack[p] \in S /\ ~IsArray(thStack[p]) /\ thStack[p] \in Slots
        BY <2>1 DEF Closed
      <4>2. p \in 1 .. Len(thStack) /\ exStack \in Seq(Word) /\ thStack \in Seq(Word)
        BY DEF HeapTypeInvariant, HeapTypeOK, TypeOK
      <4>3. Len(exStack) + p \in 1 .. Len(Roots) /\ Roots[Len(exStack) + p] = thStack[p]
        BY <4>2, LenProperties, ConcatProperties DEF Roots
      <4>4. thStack[p] \in Held
        BY <4>1, <4>3 DEF StackSlots, Held
      <4> QED BY <2>3, <3>0, <4>1, <4>4
    <3>3. \A s \in R : ~IsArray(s) /\ FieldRefs(s) \subseteq R
      BY <2>1, <2>3, <3>0 DEF Closed, Follows
    <3>4. Closed(R)'
      BY <1>1, <1>2, <1>5, <2>3, <3>0, <3>1, <3>2, <3>3 DEF Closed
    <3> QED BY <1>9, <3>4 DEF RefsInvariant
  <2> QED BY <1>6, <2>2, <2>3
<1>10. \A c : Instant(c)' = Instant(c) /\ Mirror(c)' = Mirror(c)
  BY DEF Instant, Mirror
<1>11. pc = "alloc" => dest.to \notin {"string", "argv", "chars"}
  BY <1>8, <1>9
<1> QED BY <1>1, <1>4, <1>7, <1>9, <1>10, <1>11 DEF RefsInvariant

(* An allocation of the program: the new object refers to null only.       *)
LEMMA RefsAllocate ==
  ASSUME HeapTypeInvariant, HeapTypeInvariant', NullInvariant, RefsInvariant,
         frames # << >>, frames' # << >>, Allocate
  PROVE  RefsInvariant'
<1>1. PICK s \in Free, h \in [Slots -> Block] :
        /\ h = [ptr EXCEPT ![s] = req] /\ Deliver(s, h)
        /\ used' = used \cup {s} /\ marked' = marked \ {s}
  BY AllocateData
<1>2. s \in Slots /\ s \notin used /\ 0 \in used
  BY <1>1 DEF Free, NullInvariant
<1>3. pc = "alloc" /\ gcpc = "idle" /\ gcpc' = "idle"
  BY DEF Allocate, gcVars
<1>4. marked = {} /\ ClosedHeap(used, ptr)
  BY <1>3, IdleFacts
<1>5. PICK S \in SUBSET used : ObjectSet(S, ptr) /\ LiveValues \subseteq S
  BY <1>3, IdleFacts
<1>6. PICK c \in Classes : \/ dest.to = "mirror" /\ req = Mirror(c)
                           \/ dest.to = "cell" /\ req = Instant(c)
  BY <1>3 DEF RefsInvariant
<1>7. ptr \in [Slots -> Block] /\ used \in SUBSET Slots /\ dest \in [to : Purposes, pos : Nat, i : Nat]
  BY DEF HeapTypeInvariant, HeapTypeOK, TypeOK, Purposes
<1>8. h[s] = req /\ \A t \in Slots \ {s} : h[t] = ptr[t]
  BY <1>1, <1>2, <1>7
<1>9. req.cls # NoClass /\ RefsOf(req) \subseteq {0} /\ req.cls = c
  <2>1. Mirror(c).cls = c /\ Instant(c).cls = c
    BY DEF Mirror, Instant, Object
  <2>2. /\ RefsOf(Mirror(c)) = {} /\ RefsOf(Instant(c)) \subseteq {0}
        /\ Mirror(c).cls # NoClass /\ Instant(c).cls # NoClass
    BY NewRefs
  <2>3. CASE req = Mirror(c)
    BY <2>1, <2>2, <2>3
  <2>4. CASE req = Instant(c)
    BY <2>1, <2>2, <2>4
  <2> QED BY <1>6, <2>3, <2>4
<1>10. ptr' = h /\ ClosedHeap(used', h) /\ ObjectSet(S, h) /\ ObjectSet(S \cup {s}, h)
  <2>1. ptr' = h
    BY <1>1, <1>6 DEF Deliver
  <2>2. ClosedHeap(used', h)
    BY <1>1, <1>2, <1>4, <1>7, <1>8, <1>9 DEF ClosedHeap
  <2>3. ObjectSet(S, h) /\ ObjectSet(S \cup {s}, h)
    BY <1>2, <1>5, <1>7, <1>8, <1>9 DEF ObjectSet
  <2> QED BY <2>1, <2>2, <2>3
<1>11. CASE dest.to = "mirror"
  <2>1. /\ UNCHANGED <<thStack, live>> /\ pc' = "alloc" /\ req' = Instant(c)
        /\ dest' = [dest EXCEPT !.to = "cell"]
    BY <1>1, <1>9, <1>11 DEF Deliver, Request
  <2>2. dest'.to = "cell"
    BY <1>7, <2>1
  <2>3. \A p \in live' : thStack'[p] \in S
    BY <1>5, <2>1 DEF LiveValues
  <2>4. S \in SUBSET used'
    BY <1>1, <1>5
  <2> QED BY <1>1, <1>3, <1>4, <1>10, <2>1, <2>2, <2>3, <2>4, IdleStep
<1>12. CASE dest.to = "cell"
  <2>1. PutRef(dest.pos, s) /\ pc' = "run"
    BY <1>1, <1>12 DEF Deliver
  <2>2. dest.pos \in 1 .. Len(thStack)
    BY <1>3, <1>12 DEF HeapTypeInvariant, DestOK
  <2>3. thStack \in Seq(Word) /\ live \in SUBSET (1 .. Len(thStack))
    BY <1>7 DEF HeapTypeInvariant, HeapTypeOK, TypeOK
  <2>4. \A p \in live' : thStack'[p] \in S \cup {s}
    <3> TAKE p \in live'
    <3>1. CASE p = dest.pos
      BY <2>1, <2>2, <2>3, <3>1 DEF PutRef
    <3>2. CASE p # dest.pos
      BY <1>5, <2>1, <2>2, <2>3, <3>2 DEF PutRef, LiveValues
    <3> QED BY <3>1, <3>2
  <2>5. S \cup {s} \in SUBSET used'
    BY <1>1, <1>5
  <2> QED BY <1>1, <1>3, <1>4, <1>10, <2>1, <2>4, <2>5, IdleStep
<1> QED BY <1>6, <1>11, <1>12

(* A store of a slot in use, or of a word that is no slot, adds no         *)
(* reference to a free slot.                                               *)
LEMMA StoreClosed ==
  ASSUME NEW h \in [Slots -> Block], NEW U \in SUBSET Slots, ClosedHeap(U, h),
         NEW s \in Slots, NEW k \in Nat, NEW w \in Word, w \in U \/ w \notin Slots
  PROVE  Store(h, s, k, w) \in [Slots -> Block] /\ ClosedHeap(U, Store(h, s, k, w))
<1>1. Store(h, s, k, w) \in [Slots -> Block]
  BY StoreType
<1>2. /\ \A t \in Slots : Store(h, s, k, w)[t].cls = h[t].cls
      /\ \A t \in Slots : h[t].cls # NoClass =>
           RefsOf(Store(h, s, k, w)[t]) \subseteq RefsOf(h[t]) \cup ({w} \cap Slots)
  BY StoreRefsOf
<1> QED BY <1>1, <1>2 DEF ClosedHeap

(* main() makes mirrors, arrays and Strings with their arrays of characters. *)
LEMMA RefsBootAllocate ==
  ASSUME BootFits, HeapTypeInvariant, HeapTypeInvariant', BootInvariant, RefsInvariant,
         frames = << >>, frames' = << >>, Allocate
  PROVE  RefsInvariant'
<1>1. PICK s \in Free, h \in [Slots -> Block] :
        /\ h = [ptr EXCEPT ![s] = req] /\ Deliver(s, h)
        /\ used' = used \cup {s} /\ marked' = marked \ {s}
  BY AllocateData
<1>2. s \in Slots /\ s \notin used
  BY <1>1 DEF Free
<1>3. pc = "alloc" /\ gcpc = "idle" /\ gcpc' = "idle"
  BY DEF Allocate, gcVars
<1>4. marked = {} /\ ClosedHeap(used, ptr)
  BY <1>3, IdleFacts
<1>5. /\ ptr \in [Slots -> Block] /\ used \in SUBSET Slots /\ dest \in [to : Purposes, pos : Nat, i : Nat]
      /\ exStack \in Seq(Slots) /\ boot.argv \in Slots /\ dest.i \in Nat /\ s \in Word
  BY <1>2, SlotFacts DEF HeapTypeInvariant, HeapTypeOK, TypeOK, RefsAreSlots, Purposes
<1>6. h[s] = req /\ \A t \in Slots \ {s} : h[t] = ptr[t]
  BY <1>1, <1>2, <1>5
<1>7. \/ dest.to = "boot" /\ boot.step <= NClasses /\ req = Mirror(BootClasses[boot.step])
      \/ dest.to = "argv"
      \/ dest.to \in {"chars", "string"}
  BY <1>3 DEF BootInvariant
<1>8. CASE dest.to = "boot"
  <2>1. ptr' = h /\ pc' = "boot"
    BY <1>1, <1>8 DEF Deliver
  <2>2. PICK c \in Classes : req = Mirror(c)
    <3>1. req.cls \in Classes /\ req = Mirror(BootClasses[boot.step])
      BY <1>3, <1>7, <1>8 DEF HeapTypeInvariant, DestOK
    <3>2. req.cls = BootClasses[boot.step]
      BY <3>1 DEF Mirror, Object
    <3> QED BY <3>1, <3>2
  <2>3. RefsOf(req) = {}
    BY <2>2, NewRefs
  <2>4. ClosedHeap(used', h)
    BY <1>1, <1>2, <1>4, <1>5, <1>6, <2>3 DEF ClosedHeap
  <2> QED BY <1>1, <1>3, <1>4, <2>1, <2>4, IdleStep
<1>9. CASE dest.to \in {"argv", "chars"}
  <2>1. req.cls = NoClass
    BY <1>3, <1>9 DEF RefsInvariant
  <2>2. ptr' = h /\ ClosedHeap(used', h)
    BY <1>1, <1>2, <1>4, <1>5, <1>6, <1>9, <2>1 DEF ClosedHeap, Deliver
  <2>3. CASE dest.to = "argv"
    <3>1. pc' = "boot"
      BY <1>1, <2>3 DEF Deliver
    <3> QED BY <1>1, <1>3, <1>4, <2>2, <3>1, IdleStep
  <2>4. CASE dest.to = "chars"
    <3>1. exStack' = Append(exStack, s) /\ dest' = [dest EXCEPT !.to = "string"]
      BY <1>1, <2>4 DEF Deliver, Request
    <3>2. dest'.to = "string"
      BY <1>5, <3>1
    <3>3. Last(exStack') = s
      BY <1>2, <1>5, <3>1, AppendProperties DEF Last
    <3>4. Last(exStack') \in used'
      BY <1>1, <3>3
    <3> QED BY <1>1, <1>3, <1>4, <2>2, <3>2, <3>4, IdleStep
  <2> QED BY <1>9, <2>3, <2>4
<1>10. CASE dest.to = "string"
  <2>1. PICK chars : chars = Last(exStack)
    OBVIOUS
  <2>2. chars \in used /\ chars \in Word /\ chars \in Slots
    BY <1>3, <1>5, <1>10, <2>1, SlotFacts DEF RefsInvariant
  <2>3. 0 \in used
    <3>1. used = 0 .. vmhTop /\ vmhTop \in -1 .. HeapSize - 1
      BY <1>3 DEF BootInvariant, HeapTypeInvariant, HeapTypeOK, TypeOK
    <3> QED BY <2>2, <3>1
  <2>4. dest.pos = 0 /\ req = Instant(StringClass)
    BY <1>3, <1>10 DEF HeapTypeInvariant, DestOK
  <2>5. RefsOf(req) \subseteq {0}
    BY <2>4, NewRefs, MutatorAssumption
  <2>6. PICK U \in SUBSET Slots : U = used'
    BY <1>1, <1>2, <1>5
  <2>7. ClosedHeap(U, h) /\ chars \in U /\ s \in U
    BY <1>1, <1>2, <1>4, <1>5, <1>6, <2>2, <2>3, <2>5, <2>6 DEF ClosedHeap
  <2>8. PICK g : g = WithChars(h, s, chars)
    OBVIOUS
  <2>9. g \in [Slots -> Block] /\ ClosedHeap(U, g)
    <3>1. PICK g1 : g1 = Store(h, s, 1, chars)
      OBVIOUS
    <3>2. g1 \in [Slots -> Block] /\ ClosedHeap(U, g1)
      BY <1>2, <2>2, <2>7, <3>1, StoreClosed
    <3>3. PICK g2 : g2 = Store(g1, s, 2, HeapSize)
      OBVIOUS
    <3>4. g2 \in [Slots -> Block] /\ ClosedHeap(U, g2)
      BY <1>2, <3>2, <3>3, StoreClosed, SlotFacts
    <3>5. g \in {g1, g2}
      BY <2>8, <3>1, <3>3 DEF WithChars
    <3> QED BY <3>2, <3>4, <3>5
  <2>10. PICK e : e = Store(g, boot.argv, dest.i, s)
    OBVIOUS
  <2>11. ClosedHeap(U, e)
    BY <1>2, <1>5, <2>7, <2>9, <2>10, StoreClosed
  <2>12. ptr' \in {g, e} /\ pc' = "boot"
    BY <1>1, <1>10, <2>1, <2>4, <2>8, <2>10 DEF Deliver
  <2>13. ClosedHeap(used', ptr')
    BY <2>6, <2>9, <2>11, <2>12
  <2> QED BY <1>1, <1>3, <1>4, <2>12, <2>13, IdleStep
<1> QED BY <1>7, <1>8, <1>9, <1>10

(* main() calls the allocator for class mirrors and arrays.                *)
LEMMA RefsBootCalls ==
  ASSUME HeapTypeInvariant, HeapTypeInvariant', BootInvariant, RefsInvariant, frames' = << >>,
         BootLoad \/ BootArgv \/ BootArg
  PROVE  RefsInvariant'
<1>1. pc = "boot" /\ frames = << >>
  BY DEF BootLoad, BootArgv, BootArg, HeapTypeInvariant, FramesOK
<1>2. UNCHANGED <<used, marked, ptr, vmhTop, thStack, fvar, gcVars, frames, live, loaded, boot>>
  BY DEF BootLoad, BootArgv, BootArg, allVars, heapVars, gcVars
<1>3. /\ dest'.to \in {"boot", "argv", "chars"}
      /\ dest'.to \in {"argv", "chars"} => req'.cls = NoClass
  <2>1. \A b, to, p, i : Request(b, Dest(to, p, i), vmhTop) => req' = b /\ dest'.to = to
    BY DEF Request, Dest
  <2>2. CASE BootLoad
    BY <2>1, <2>2 DEF BootLoad
  <2>3. CASE BootArgv
    BY <2>1, <2>3 DEF BootArgv, Array
  <2>4. CASE BootArg
    <3>1. PICK i : NewString(Dest("chars", 0, i))
      BY <2>4 DEF BootArg
    <3>2. [Dest("chars", 0, i) EXCEPT !.to = "chars"] = Dest("chars", 0, i)
      BY DEF Dest
    <3>3. Request(Array(5, <<HeapSize>>), Dest("chars", 0, i), vmhTop)
      BY <3>1, <3>2 DEF NewString
    <3> QED BY <2>1, <3>3 DEF Array
  <2> QED BY <2>2, <2>3, <2>4
<1>4. gcpc = "idle"
  BY <1>1 DEF BootInvariant
<1>5. marked = {} /\ ClosedHeap(used, ptr)
  BY <1>4, IdleFacts
<1> QED BY <1>1, <1>2, <1>3, <1>4, <1>5, IdleStep DEF gcVars

(* The program starts: null is all it holds.                               *)
LEMMA RefsMain ==
  ASSUME ArrayFree, HeapTypeInvariant, HeapTypeInvariant', BootInvariant, NullInvariant', RefsInvariant, BootMain
  PROVE  RefsInvariant'
<1>1. pc = "boot" /\ frames = << >> /\ gcpc = "idle"
  BY DEF BootMain, HeapTypeInvariant, FramesOK, BootInvariant
<1>2. /\ UNCHANGED <<used, marked, ptr, gcpc>> /\ live' = {} /\ frames' # << >> /\ pc' \in {"run", "halted"}
  BY DEF BootMain, heapVars, gcVars, ArrayFree
<1>3. marked = {} /\ ClosedHeap(used, ptr)
  BY <1>1, IdleFacts
<1>4. 0 \in used /\ ptr[0] = Mirror(BootClasses[1])
  BY <1>2 DEF NullInvariant, NullIsMirror
<1>5. ObjectSet({0}, ptr)
  BY <1>4, NewRefs, FirstClass DEF ObjectSet
<1>6. {0} \in SUBSET used
  BY <1>4
<1> QED BY <1>1, <1>2, <1>3, <1>5, <1>6, IdleStep

(* Every step keeps the invariant.                                         *)
LEMMA RefsStep ==
  ASSUME InheritedAgree, BootFits, StaticsLast, ArrayFree, HeapTypeInvariant, HeapTypeInvariant',
         BootInvariant, NullInvariant, NullInvariant', RefsInvariant, [HeapNext]_heapAllVars
  PROVE  RefsInvariant'
<1>1. CASE BootLoad \/ BootArgv \/ BootArg
  BY <1>1, BootCalls, RefsBootCalls
<1>2. CASE BootMain
  BY <1>2, RefsMain
<1>3. CASE Instruction
  BY <1>3, NullInstruction, RefsInstruction
<1>4. CASE Allocate /\ frames # << >>
  BY <1>4, NullAllocate, RefsAllocate
<1>5. CASE Allocate /\ frames = << >>
  BY <1>5, BootAllocate, RefsBootAllocate
<1>6. CASE AllocateCollects \/ Collector
  BY <1>6, RefsCollect
<1>7. CASE UNCHANGED heapAllVars
  <2>1. UNCHANGED <<used, marked, ptr, vmhTop, exStack, thStack, fvar, gcpc, root, calls, hand>>
    BY <1>7 DEF heapAllVars, allVars, heapVars, gcVars
  <2>2. UNCHANGED <<pc, req, dest, frames, live>>
    BY <1>7 DEF heapAllVars, mutVars
  <2>3. UNCHANGED <<Staying, MarksAhead>>
    BY <2>1 DEF Staying, MarksAhead
  <2>4. MarkInvariant' /\ MarksAhead'
    <3>1. [GcNext]_allVars
      BY <1>7 DEF heapAllVars
    <3> QED BY <3>1, MarkStep, MarksStep DEF RefsInvariant, HeapTypeInvariant, HeapTypeOK
  <2>5. \A s : (IsArray(s)' <=> IsArray(s)) /\ FieldRefs(s)' = FieldRefs(s)
    BY <2>1, FieldRefsOf DEF IsArray
  <2>6. FieldsClosed' <=> FieldsClosed
    BY <2>3, <2>5 DEF FieldsClosed
  <2>7. \A S : Closed(S)' <=> Closed(S)
    BY <2>1, <2>2, <2>3, <2>5 DEF Closed
  <2>8. \A c : Instant(c)' = Instant(c) /\ Mirror(c)' = Mirror(c)
    BY DEF Instant, Mirror
  <2>9. Last(exStack)' = Last(exStack)
    BY <2>1
  <2> QED BY <2>1, <2>2, <2>4, <2>6, <2>7, <2>8, <2>9 DEF RefsInvariant
<1> QED BY <1>1, <1>2, <1>3, <1>4, <1>5, <1>6, <1>7 DEF HeapNext, Boot, Allocation

---------------------------------------------------------------------------
(* The invariants together hold in every reachable state.                  *)
LEMMA RefsAlways ==
  ASSUME InheritedAgree, BootFits, StaticsLast, ArrayFree
  PROVE  HeapSpec => [](HeapTypeInvariant /\ BootInvariant /\ NullInvariant /\ RefsInvariant)
<1>1. HeapInit => BootInvariant /\ NullInvariant /\ RefsInvariant
  <2> SUFFICES ASSUME HeapInit PROVE BootInvariant /\ NullInvariant /\ RefsInvariant
    OBVIOUS
  <2>1. BootInvariant /\ NullInvariant
    BY NullInit
  <2>2. gcpc = "idle" /\ used = {} /\ marked = {} /\ pc = "boot" /\ frames = << >>
    BY DEF HeapInit
  <2>3. MarksAhead /\ MarkInvariant /\ FieldsClosed
    BY <2>2 DEF MarksAhead, MarkInvariant, FieldsClosed, Staying
  <2> QED BY <2>1, <2>2, <2>3 DEF RefsInvariant
<1>2. /\ HeapTypeInvariant /\ HeapTypeInvariant' /\ BootInvariant /\ NullInvariant /\ RefsInvariant
      /\ [HeapNext]_heapAllVars
      => BootInvariant' /\ NullInvariant' /\ RefsInvariant'
  BY NullStep, RefsStep
<1> QED BY <1>1, <1>2, HeapTypeAlways, PTL DEF HeapSpec

(* Neither the collector nor the allocator ever takes the slot of an       *)
(* object that a live position of the stack refers to, in any frame and at *)
(* any step of a collection: for every heap with room for start-up, every  *)
(* layout of classes with the static fields last and every program without *)
(* arrays, strings and static fields, also if an inherited reference field *)
(* shares its word with an own one.                                        *)
THEOREM HeapSparesHeld ==
  ASSUME InheritedAgree, BootFits, StaticsLast, ArrayFree
  PROVE  HeapSpec => []ProgramRefsAlive
<1>1. HeapTypeInvariant /\ RefsInvariant => ProgramRefsAlive
  <2> SUFFICES ASSUME HeapTypeInvariant, RefsInvariant PROVE ProgramRefsAlive
    OBVIOUS
  <2>1. CASE frames = << >>
    <3>1. thStack = << >> /\ live \in SUBSET (1 .. Len(thStack))
      BY <2>1 DEF HeapTypeInvariant, HeapTypeOK, FramesOK
    <3>2. live = {}
      BY <3>1
    <3> QED BY <3>2 DEF ProgramRefsAlive
  <2>2. CASE frames # << >>
    BY <2>2 DEF RefsInvariant, Closed, Staying, ProgramRefsAlive
  <2> QED BY <2>1, <2>2
<1> QED BY <1>1, RefsAlways, PTL

(* No object is left with a reference to a freed slot, which the next      *)
(* allocation would turn into a reference to a stranger: what a collection *)
(* keeps is closed under the references of the objects in it, for the      *)
(* programs and classes of HeapSparesHeld.                                 *)
THEOREM HeapStaysClosed ==
  ASSUME InheritedAgree, BootFits, StaticsLast, ArrayFree
  PROVE  HeapSpec => []HeapClosed
<1>1. RefsInvariant => HeapClosed
  BY DEF RefsInvariant, FieldsClosed, Staying, HeapClosed
<1> QED BY <1>1, RefsAlways, PTL

---------------------------------------------------------------------------
(* The heap as a heap of objects: the state of JObjects. *)

Alive == used \ {0}
Graph == [s \in used \ {0} |-> [cj \in RefFields(s) |-> ptr[s].words[WordOf(cj)]]]
Holding == [p \in live |-> thStack[p]]
Reach == {x \in Slots \ {0} : \A S \in SUBSET (Slots \ {0}) :
            ({Holding[p] : p \in DOMAIN Holding} \ {0})
              \cup ((UNION {{Graph[s][f] : f \in DOMAIN Graph[s]} : s \in S \cap Alive}) \ {0}) \subseteq S
            => x \in S}
Holds(new) ==
  DOMAIN Holding' \subseteq 1 .. StackSize /\ {Holding'[p] : p \in DOMAIN Holding'} \ {0} \subseteq new \cup Reach

(* The actions of JObjects, in these terms.                                *)
LEMMA ObjectActions ==
  /\ Objects!Init <=> Alive = {} /\ Graph = << >> /\ Holding = << >>
  /\ UNCHANGED Objects!vars <=> Alive' = Alive /\ Graph' = Graph /\ Holding' = Holding
  /\ Objects!Use <=> Alive' = Alive /\ Graph' = Graph /\ Holds({})
  /\ \A s : Objects!Create(s) <=>
       /\ s \notin Alive /\ Alive' = Alive \cup {s}
       /\ DOMAIN Graph' = Alive' /\ \A x \in Alive : Graph'[x] = Graph[x]
       /\ \A f \in DOMAIN Graph'[s] : Graph'[s][f] = 0
       /\ Holds({s})
  /\ \A s, f : Objects!Write(s, f) <=>
       /\ Alive' = Alive /\ Holding' = Holding
       /\ f \in DOMAIN Graph[s] /\ Graph' = [Graph EXCEPT ![s][f] = Graph'[s][f]]
       /\ {s, Graph'[s][f]} \subseteq Reach \cup {0}
  /\ \A s : Objects!Reclaim(s) <=>
       /\ Alive' = Alive \ {s} /\ Graph' = [x \in Alive' |-> Graph[x]]
       /\ Holding' = Holding /\ s \notin Reach
<1>1. Objects!Reachable = Reach
  BY DEF Objects!Reachable, Objects!HeldIds, Objects!Targets, Reach, Alive, Graph, Holding
<1>2. \A new : Objects!Holds(new) <=> Holds(new)
  BY <1>1 DEF Objects!Holds, Objects!HeldIds, Holds, Holding
<1> QED BY <1>1, <1>2 DEF Objects!Init, Objects!vars, Objects!Use, Objects!Create, Objects!Write, Objects!Reclaim,
                          Alive, Graph, Holding

\* The reference fields of an object, from its block alone.
OffsetWord(cj) == VarOffs(cj[1], cj[2]) + 1
OwnRefs(b) == {<<b.cls, j>> : j \in {i \in InstRefs(b.cls) : VarOffs(b.cls, i) + 1 \in DOMAIN b.words}}
RefsIn(b) == IF b.cls = NoClass THEN {} ELSE OwnRefs(b)
GraphOf(U, h) == [s \in U |-> [cj \in RefsIn(h[s]) |-> h[s].words[OffsetWord(cj)]]]

(* The graph depends on the slots in use and on the blocks only.           *)
LEMMA GraphIs ==
  InheritedApart /\ HeapTypeInvariant =>
    Graph = GraphOf(Alive, ptr) /\ \A s \in Alive : RefFields(s) = RefsIn(ptr[s])
<1> SUFFICES ASSUME InheritedApart, HeapTypeInvariant
             PROVE  Graph = GraphOf(Alive, ptr) /\ \A s \in Alive : RefFields(s) = RefsIn(ptr[s])
  OBVIOUS
<1>1. ASSUME NEW s \in Alive
      PROVE  RefFields(s) = RefsIn(ptr[s]) /\ \A cj \in RefFields(s) : WordOf(cj) = OffsetWord(cj)
  <2> DEFINE c == ptr[s].cls
  <2>1. s \in used \ {0} /\ s \in Slots /\ ptr[s] \in Block
    BY DEF Alive, HeapTypeInvariant, HeapTypeOK, TypeOK
  <2>2. DOMAIN ptr[s].words = 1 .. Len(ptr[s].words)
    BY <2>1, LenProperties DEF Block
  <2>3. ASSUME NEW cj \in RefFields(s) PROVE cj \in RefsIn(ptr[s]) /\ WordOf(cj) = OffsetWord(cj)
    <3>1. cj \in InBlock(s) /\ cj \in RefCells
      BY DEF RefFields
    <3>2. PICK j : j = cj[2]
      OBVIOUS
    <3>3. /\ ~IsArray(s) /\ cj = <<c, j>> /\ j \in InstRefs(c)
          /\ WordOf(cj) = VarOffs(c, j) + 1 /\ WordOf(cj) \in DOMAIN ptr[s].words
      BY <2>1, <2>2, <3>1, <3>2, OwnFields
    <3> QED BY <3>3 DEF RefsIn, OwnRefs, IsArray, OffsetWord
  <2>4. ASSUME NEW cj \in RefsIn(ptr[s]) PROVE cj \in RefFields(s)
    <3>1. c # NoClass /\ cj \in OwnRefs(ptr[s])
      BY DEF RefsIn
    <3>2. PICK j \in InstRefs(c) : cj = <<c, j>> /\ VarOffs(c, j) + 1 \in DOMAIN ptr[s].words
      BY <3>1 DEF OwnRefs
    <3>3. c \in Classes /\ j \in FieldIdx(c) /\ Fields[c][j].kind = "inst" /\ Fields[c][j].ref
      BY <2>1, <3>1 DEF Block, InstRefs
    <3>4. cj \in Cells /\ cj[1] = c /\ cj[2] = j
      BY <3>2, <3>3 DEF Cells
    <3>5. cj \in InstCells /\ cj \in RefCells
      BY <3>3, <3>4 DEF InstCells, RefCells
    <3>6. WordOf(cj) = VarOffs(c, j) + 1
      BY <3>3, <3>4 DEF HeapTypeInvariant, OffsetsOK, WordOf
    <3>7. cj \in NamedFields(s)
      BY <2>1, <3>1, <3>4, <3>5 DEF NamedFields, IsArray
    <3> QED BY <3>2, <3>5, <3>6, <3>7 DEF RefFields, InBlock
  <2> QED BY <2>3, <2>4
<1>2. Graph = [s \in Alive |-> [cj \in RefFields(s) |-> ptr[s].words[WordOf(cj)]]]
  BY DEF Graph, Alive
<1>3. Graph = GraphOf(Alive, ptr)
  BY <1>1, <1>2 DEF GraphOf
<1> QED BY <1>1, <1>3

(* The same of the next state.                                             *)
LEMMA NextGraphIs ==
  (InheritedApart /\ HeapTypeInvariant)' => (Graph = GraphOf(Alive, ptr))'
<1>1. InheritedApart /\ HeapTypeInvariant => Graph = GraphOf(Alive, ptr)
  BY GraphIs
<1> QED BY <1>1, PTL

(* What the program may use is reachable, and what is reachable lies in    *)
(* every closed set of objects.                                            *)
LEMMA ReachFacts ==
  ASSUME InheritedApart, HeapTypeInvariant
  PROVE  /\ LiveValues \ {0} \subseteq Reach /\ Usable \subseteq Reach \cup {0}
         /\ \A S \in SUBSET Slots : LiveValues \subseteq S /\ (\A s \in S : FieldRefs(s) \subseteq S) => Reach \subseteq S
<1>1. LiveValues = {Holding[p] : p \in DOMAIN Holding}
  BY DEF LiveValues, Holding
<1>2. LiveValues \subseteq Slots
  BY ReadRefs DEF LiveValues
<1>3. \A s \in Alive : DOMAIN Graph[s] = RefFields(s) /\ \A cj \in RefFields(s) : Graph[s][cj] = ptr[s].words[WordOf(cj)]
  BY DEF Graph, Alive
<1>4. LiveValues \ {0} \subseteq Reach
  BY <1>1, <1>2 DEF Reach
<1>5. ASSUME NEW s \in Reach \cap Alive, NEW cj \in RefFields(s), ptr[s].words[WordOf(cj)] # 0
      PROVE  ptr[s].words[WordOf(cj)] \in Reach
  <2>1. ptr[s].words[WordOf(cj)] \in Slots \ {0}
    <3>1. s \in Slots /\ cj \in InBlock(s) /\ cj \in RefCells
      BY DEF Reach, RefFields
    <3> QED BY ApartAgrees, <1>5, <3>1, FieldWord
  <2>2. ASSUME NEW S \in SUBSET (Slots \ {0}),
               ({Holding[p] : p \in DOMAIN Holding} \ {0})
                 \cup ((UNION {{Graph[x][f] : f \in DOMAIN Graph[x]} : x \in S \cap Alive}) \ {0}) \subseteq S
        PROVE  ptr[s].words[WordOf(cj)] \in S
    <3>1. s \in S
      BY <2>2 DEF Reach
    <3>2. cj \in DOMAIN Graph[s] /\ Graph[s][cj] = ptr[s].words[WordOf(cj)]
      BY <1>3
    <3>3. ptr[s].words[WordOf(cj)] \in UNION {{Graph[x][f] : f \in DOMAIN Graph[x]} : x \in S \cap Alive}
      BY <3>1, <3>2
    <3> QED BY <1>5, <2>2, <3>3
  <2> QED BY <2>1, <2>2 DEF Reach
<1>6. Usable \subseteq Reach \cup {0}
  <2>1. ASSUME NEW s \in LiveValues, NEW cj \in RefFields(s) PROVE ptr[s].words[WordOf(cj)] \in Reach \cup {0}
    <3>1. s \in used \ {0}
      BY DEF RefFields, InBlock, NamedFields
    <3> QED BY <1>4, <1>5, <3>1 DEF Alive
  <2> QED BY <1>4, <2>1 DEF Usable
<1>7. ASSUME NEW S \in SUBSET Slots, LiveValues \subseteq S, \A s \in S : FieldRefs(s) \subseteq S
      PROVE  Reach \subseteq S
  <2>1. PICK R \in SUBSET (Slots \ {0}) : R = S \ {0}
    OBVIOUS
  <2>2. ASSUME NEW x \in R \cap Alive, NEW f \in DOMAIN Graph[x] PROVE Graph[x][f] \in S
    <3>1. f \in RefFields(x) /\ Graph[x][f] = ptr[x].words[WordOf(f)] /\ x \in S
      BY <1>3, <2>1
    <3> QED BY ApartAgrees, <1>7, <3>1, ReadsRefs
  <2>3. (UNION {{Graph[x][f] : f \in DOMAIN Graph[x]} : x \in R \cap Alive}) \ {0} \subseteq R
    BY <2>1, <2>2
  <2>4. {Holding[p] : p \in DOMAIN Holding} \ {0} \subseteq R
    BY <1>1, <1>7, <2>1
  <2>5. Reach \subseteq R
    BY <2>3, <2>4 DEF Reach
  <2> QED BY <2>1, <2>5
<1> QED BY <1>4, <1>6, <1>7

---------------------------------------------------------------------------
(* The positions the program uses are positions of the thread stack. *)

\* The machine runs no more.
Ended == {"halted", "corrupt"}

(* A step that pushes and pops no frame.                                   *)
LEMMA StackFitsSame ==
  ASSUME HeapTypeInvariant, HeapTypeInvariant', StackFits, frames' = frames,
         pc' \in {"run", "alloc"} => pc \notin Ended, pc' \in Ended => live' = live
  PROVE  StackFits'
<1>1. /\ frames = << >> <=> thStack = << >>
      /\ frames # << >> => Len(thStack) = frames[Len(frames)] + FrameCells + SuffixLen
      /\ pc = "boot" => frames = << >>
  BY CellsOnStack DEF HeapTypeInvariant, FramesOK
<1>2. /\ frames' = << >> <=> thStack' = << >>
      /\ frames' # << >> => Len(thStack') = frames'[Len(frames')] + FrameCells + SuffixLen
      /\ pc' = "boot" => frames' = << >>
  <2>1. frames' # << >> => Len(frames') \in 1 .. Len(frames')
    BY EmptySeq, LenProperties DEF HeapTypeInvariant, HeapTypeOK
  <2> QED BY <2>1 DEF HeapTypeInvariant, FramesOK
<1>3. Len(thStack') = Len(thStack)
  BY <1>1, <1>2
<1>4. /\ pc \in {"boot", "alloc", "run"} \cup Ended /\ pc' \in {"boot", "alloc", "run"} \cup Ended
      /\ live' \in SUBSET (1 .. Len(thStack')) /\ Len(thStack') \in Nat /\ StackSize \in Nat
  BY MutatorAssumption, LenProperties DEF HeapTypeInvariant, HeapTypeOK, TypeOK, Ended
<1>5. pc' \in {"run", "alloc", "boot"} => Len(thStack') <= StackSize
  <2>1. Len(<< >>) = 0
    OBVIOUS
  <2>2. CASE pc' = "boot" \/ pc = "boot"
    BY <1>1, <1>2, <1>3, <1>4, <2>1, <2>2
  <2>3. CASE pc' # "boot" /\ pc # "boot"
    BY <1>3, <1>4, <2>3 DEF StackFits, Ended
  <2> QED BY <2>2, <2>3
<1>6. live' \subseteq 1 .. StackSize
  <2>1. CASE pc' \in Ended
    BY <2>1 DEF StackFits
  <2>2. CASE pc' \notin Ended
    BY <1>4, <1>5, <2>2
  <2> QED BY <2>1, <2>2
<1> QED BY <1>5, <1>6 DEF StackFits

(* Every step.                                                             *)
LEMMA StackFitsStep ==
  ASSUME ArrayFree, HeapTypeInvariant, HeapTypeInvariant', StackFits, [HeapNext]_heapAllVars
  PROVE  StackFits'
<1>0. StackSize \in Nat /\ live' \in SUBSET (1 .. Len(thStack')) /\ Len(thStack') \in Nat
  BY MutatorAssumption, LenProperties DEF HeapTypeInvariant, HeapTypeOK, TypeOK
<1>1. CASE BootMain
  <2>1. frames' = <<PrefixLen>> /\ live' = {} /\ pc' = IF FrameLen >= StackSize THEN "halted" ELSE "run"
    BY <1>1 DEF BootMain, ArrayFree
  <2>2. Len(frames') = 1 /\ frames'[1] = PrefixLen /\ 1 \in 1 .. 1
    BY <2>1
  <2>3. Len(thStack') = PrefixLen + FrameCells + SuffixLen
    BY <2>2 DEF HeapTypeInvariant, FramesOK
  <2> QED BY <1>0, <2>1, <2>3, FrameSize DEF StackFits
<1>2. CASE Invoke
  <2>1. Len(thStack') = Len(thStack) + FrameLen /\ Len(thStack) + FrameLen < StackSize
    BY <1>2, InvokeEffect DEF Invoke
  <2> QED BY <1>0, <2>1 DEF StackFits
<1>3. CASE MethodReturn
  <2> DEFINE n == Len(frames)
             b == frames[n - 1]
  <2>1. n \in Nat \ {0} /\ n > 1 /\ b \in Nat /\ Len(thStack') = b + FrameCells + SuffixLen
    BY <1>3, ReturnEffect
  <2>2. n \in 1 .. n
    BY <2>1
  <2>3. frames[n] = b + FrameLen /\ Len(thStack) = frames[n] + FrameCells + SuffixLen
    BY <2>1, <2>2 DEF HeapTypeInvariant, FramesOK
  <2>4. pc = "run"
    BY <1>3 DEF MethodReturn, Does, Running
  <2>5. Len(thStack) <= StackSize
    BY <2>4 DEF StackFits
  <2> HIDE DEF b, n
  <2>6. Len(thStack') <= StackSize
    BY <1>0, <2>1, <2>3, <2>5, FrameSize
  <2> QED BY <1>0, <2>6 DEF StackFits
<1>4. CASE /\ [HeapNext]_heapAllVars /\ ~BootMain /\ ~Invoke /\ ~MethodReturn
  <2>1. /\ frames' = frames
        /\ pc' \in {"run", "alloc"} => pc \notin Ended
        /\ pc' \in Ended => live' = live
    <3>1. CASE BootLoad \/ BootArgv \/ BootArg
      BY <3>1 DEF BootLoad, BootArgv, BootArg, NewString, Request, Ended
    <3>2. CASE New \/ NewArray \/ LoadString \/ MultiANewArray
      BY <3>2 DEF New, NewArray, LoadString, MultiANewArray, NewString, Request, Does, Running, Ended
    <3>3. CASE MoveRef \/ Overwrite \/ GetField \/ AALoad \/ GetStatic
      BY <3>3 DEF MoveRef, Overwrite, GetField, AALoad, GetStatic, Does, Running, Ended
    <3>4. CASE PutField \/ AAStore \/ PutStatic
      BY <3>4 DEF PutField, AAStore, PutStatic, mutVars, Ended
    <3>5. CASE Halt \/ FieldBeyond
      BY <3>5 DEF Halt, FieldBeyond, Ended
    <3>6. CASE Allocate
      <4>1. pc = "alloc" /\ frames' = frames
        BY <3>6 DEF Allocate
      <4>2. PICK s, h : Deliver(s, h)
        BY <3>6 DEF Allocate
      <4>3. pc' \notin Ended
        BY <4>1, <4>2 DEF Deliver, Request, Ended
      <4> QED BY <4>1, <4>3 DEF Ended
    <3>7. CASE AllocateCollects \/ Collector
      BY <3>7 DEF AllocateCollects, Collector, mutVars, Ended
    <3>8. CASE UNCHANGED heapAllVars
      BY <3>8 DEF heapAllVars, mutVars, Ended
    <3> QED BY <1>4, <3>1, <3>2, <3>3, <3>4, <3>5, <3>6, <3>7, <3>8
            DEF HeapNext, Boot, Instruction, Allocation
  <2> QED BY <2>1, StackFitsSame
<1> QED BY <1>1, <1>2, <1>3, <1>4

---------------------------------------------------------------------------
(* The steps of the heap are steps of JObjects. *)

(* Of the next-state action of JObjects, in the terms above.               *)
LEMMA ObjectNext ==
  /\ \A s \in Slots \ {0} : Objects!Create(s) => Objects!Next
  /\ \A s \in Alive : Objects!Reclaim(s) => Objects!Next
  /\ \A s \in Alive : \A f \in DOMAIN Graph[s] : Objects!Write(s, f) => Objects!Next
  /\ Objects!Use => Objects!Next
BY DEF Objects!Next, Alive, Graph

(* The objects are as they were when the slots in use and their blocks are. *)
LEMMA SameGraph ==
  ASSUME InheritedApart, HeapTypeInvariant, HeapTypeInvariant', Alive' = Alive, \A s \in Alive : ptr'[s] = ptr[s]
  PROVE  Graph' = Graph
<1>1. Graph = GraphOf(Alive, ptr)
  BY GraphIs
<1>2. Graph' = GraphOf(Alive', ptr')
  BY NextGraphIs
<1> QED BY <1>1, <1>2 DEF GraphOf

(* The program goes on with references it could use.                       *)
LEMMA HoldsStep ==
  ASSUME InheritedApart, HeapTypeInvariant, StackFits', NEW new,
         \A p \in live' : thStack'[p] \in new \cup Usable \cup {0}
  PROVE  Holds(new)
<1>1. Usable \subseteq Reach \cup {0}
  BY ReachFacts
<1>2. DOMAIN Holding' = live' /\ \A p \in live' : Holding'[p] = thStack'[p]
  BY DEF Holding
<1> QED BY <1>1, <1>2 DEF Holds, StackFits

(* The instructions that write no object use the objects there are.        *)
LEMMA UseStep ==
  ASSUME InheritedApart, HeapTypeInvariant, HeapTypeInvariant', StackFits', Alive' = Alive,
         \A s \in Alive : ptr'[s] = ptr[s], \A p \in live' : thStack'[p] \in Usable
  PROVE  Objects!Next
<1>1. Graph' = Graph
  BY SameGraph
<1>2. Holds({})
  BY HoldsStep
<1> QED BY <1>1, <1>2, ObjectActions, ObjectNext

(* Nothing changes for the program.                                        *)
LEMMA StutterStep ==
  ASSUME InheritedApart, HeapTypeInvariant, HeapTypeInvariant', Alive' = Alive,
         \A s \in Alive : ptr'[s] = ptr[s], UNCHANGED <<thStack, live>>
  PROVE  UNCHANGED Objects!vars
<1>1. Graph' = Graph
  BY SameGraph
<1>2. Holding' = Holding
  BY DEF Holding
<1> QED BY <1>1, <1>2, ObjectActions

(* putfield writes one reference field of an object the program can reach, *)
(* or a number, in a word that is none of its references.                  *)
LEMMA WriteFieldStep ==
  ASSUME InheritedApart, HeapTypeInvariant, HeapTypeInvariant', StackFits', PutField
  PROVE  Objects!Next
<1>1. \A p \in MyRefs : p \in live /\ thStack[p] \in Slots /\ thStack[p] \in LiveValues
  BY ReadRefs DEF MyRefs, LiveValues
<1>2. PICK s \in LiveValues : \E cj \in InBlock(s) :
        \E w \in IF cj \in RefCells THEN {thStack[q] : q \in MyRefs} ELSE StaleWords :
          ptr' = Store(ptr, s, WordOf(cj), w)
  BY <1>1 DEF PutField
<1>3. PICK cj \in InBlock(s) : \E w \in IF cj \in RefCells THEN {thStack[q] : q \in MyRefs} ELSE StaleWords :
        ptr' = Store(ptr, s, WordOf(cj), w)
  BY <1>2
<1>4. PICK w, k : /\ w \in IF cj \in RefCells THEN {thStack[q] : q \in MyRefs} ELSE StaleWords
                  /\ k = WordOf(cj) /\ ptr' = Store(ptr, s, k, w)
  BY <1>3
<1>5. /\ s \in Slots /\ s \in Alive /\ k \in Nat /\ ptr \in [Slots -> Block] /\ Alive \subseteq Slots
      /\ cj \in RefCells => w \in LiveValues /\ w \in Slots
      /\ cj \notin RefCells => w \in StaleWords
  <2>1. s \in used \ {0} /\ used \subseteq Slots /\ ptr \in [Slots -> Block]
    BY DEF InBlock, NamedFields, HeapTypeInvariant, HeapTypeOK, TypeOK
  <2>2. k \in Nat
    BY ApartAgrees, <1>4, <2>1, FieldWord
  <2> QED BY <1>1, <1>4, <2>1, <2>2 DEF Alive
<1>6. w \in Word
  BY <1>5, SlotFacts, MutatorAssumption
<1>7. /\ ptr' \in [Slots -> Block] /\ \A t \in Slots \ {s} : ptr'[t] = ptr[t]
      /\ ptr'[s].cls = ptr[s].cls /\ Len(ptr'[s].words) = Len(ptr[s].words)
      /\ \A i \in 1 .. Len(ptr[s].words) : ptr'[s].words[i] = IF i = k THEN w ELSE ptr[s].words[i]
  <2>1. PICK g : g = Store(ptr, s, k, w)
    OBVIOUS
  <2>2. /\ g \in [Slots -> Block] /\ \A t \in Slots \ {s} : g[t] = ptr[t]
        /\ g[s].cls = ptr[s].cls /\ Len(g[s].words) = Len(ptr[s].words)
        /\ \A i \in 1 .. Len(ptr[s].words) : g[s].words[i] = IF i = k THEN w ELSE ptr[s].words[i]
    BY <1>5, <1>6, <2>1, StoreType
  <2> QED BY <1>4, <2>1, <2>2
<1>8. UNCHANGED <<used, thStack, live>> /\ Alive' = Alive /\ Holding' = Holding
  BY DEF PutField, mutVars, Alive, Holding
<1>9. DOMAIN ptr'[s].words = 1 .. Len(ptr[s].words) /\ DOMAIN ptr[s].words = 1 .. Len(ptr[s].words)
  BY <1>5, <1>7, LenProperties DEF Block
<1>10. PICK F : F = RefsIn(ptr[s])
  OBVIOUS
<1>11. RefsIn(ptr'[s]) = F /\ \A f \in F : OffsetWord(f) \in 1 .. Len(ptr[s].words)
  BY <1>7, <1>9, <1>10 DEF RefsIn, OwnRefs, OffsetWord
<1>12. RefFields(s) = F /\ Graph = GraphOf(Alive, ptr) /\ Graph' = GraphOf(Alive, ptr')
  <2>1. Graph' = GraphOf(Alive', ptr')
    BY NextGraphIs
  <2> QED BY <1>5, <1>8, <1>10, <2>1, GraphIs
<1>13. /\ \A t \in Alive \ {s} : Graph'[t] = Graph[t]
       /\ Graph[s] = [f \in F |-> ptr[s].words[OffsetWord(f)]]
       /\ Graph'[s] = [f \in F |-> IF OffsetWord(f) = k THEN w ELSE ptr[s].words[OffsetWord(f)]]
       /\ Graph = [t \in Alive |-> Graph[t]] /\ Graph' = [t \in Alive |-> Graph'[t]]
  <2>1. \A t \in Alive : /\ Graph[t] = [f \in RefsIn(ptr[t]) |-> ptr[t].words[OffsetWord(f)]]
                         /\ Graph'[t] = [f \in RefsIn(ptr'[t]) |-> ptr'[t].words[OffsetWord(f)]]
    BY <1>12 DEF GraphOf
  <2>2. Graph = [t \in Alive |-> Graph[t]] /\ Graph' = [t \in Alive |-> Graph'[t]]
    BY <1>12 DEF GraphOf
  <2>3. \A t \in Alive \ {s} : Graph'[t] = Graph[t]
    <3> TAKE t \in Alive \ {s}
    <3>1. PICK b : b = ptr[t]
      OBVIOUS
    <3>2. ptr'[t] = b
      BY <1>5, <1>7, <3>1
    <3>3. Graph[t] = [f \in RefsIn(b) |-> b.words[OffsetWord(f)]]
      BY <2>1, <3>1
    <3>4. Graph'[t] = [f \in RefsIn(b) |-> b.words[OffsetWord(f)]]
      BY <2>1, <3>2
    <3> QED BY <3>3, <3>4
  <2>4. Graph[s] = [f \in F |-> ptr[s].words[OffsetWord(f)]]
    BY <1>5, <1>10, <2>1
  <2>5. Graph'[s] = [f \in F |-> ptr'[s].words[OffsetWord(f)]]
    BY <1>5, <1>11, <2>1
  <2>6. \A f \in F : ptr'[s].words[OffsetWord(f)] = IF OffsetWord(f) = k THEN w ELSE ptr[s].words[OffsetWord(f)]
    BY <1>7, <1>11
  <2> QED BY <2>2, <2>3, <2>4, <2>5, <2>6
<1>14. CASE cj \in RefCells
  <2>1. cj \in F /\ OffsetWord(cj) = k
    <3>1. cj \in RefFields(s)
      BY <1>14 DEF RefFields
    <3>2. WordOf(cj) = VarOffs(ptr[s].cls, cj[2]) + 1 /\ cj = <<ptr[s].cls, cj[2]>>
      BY <1>5, OwnFields
    <3>3. cj[1] = ptr[s].cls
      BY <3>2
    <3> QED BY <1>4, <1>12, <3>1, <3>2, <3>3 DEF OffsetWord
  <2>2. \A f \in F : OffsetWord(f) = k => f = cj
    <3> TAKE f \in F
    <3> HAVE OffsetWord(f) = k
    <3>0. PICK c \in Classes : c = ptr[s].cls
      BY ApartAgrees, <1>5, FieldWord
    <3>1. PICK i \in InstRefs(c), j \in InstRefs(c) : f = <<c, i>> /\ cj = <<c, j>>
      BY <1>10, <2>1, <3>0 DEF RefsIn, OwnRefs
    <3>2. VarOffs(c, i) + 1 = VarOffs(c, j) + 1
      BY <2>1, <3>1 DEF OffsetWord
    <3>3. i \in Instance(c) /\ j \in Instance(c) /\ VarOffs(c, i) \in Nat /\ VarOffs(c, j) \in Nat
      BY OffsetType DEF InstRefs, Instance
    <3>4. i = j
      BY <3>2, <3>3, OffsetsDiffer
    <3> QED BY <3>1, <3>4
  <2>3. cj \in DOMAIN Graph[s] /\ Graph'[s][cj] = w /\ Graph'[s] = [Graph[s] EXCEPT ![cj] = w]
    <3>1. [Graph[s] EXCEPT ![cj] = w] = [f \in F |-> IF f = cj THEN w ELSE ptr[s].words[OffsetWord(f)]]
      BY <1>13, <2>1
    <3>2. [f \in F |-> IF f = cj THEN w ELSE ptr[s].words[OffsetWord(f)]]
            = [f \in F |-> IF OffsetWord(f) = k THEN w ELSE ptr[s].words[OffsetWord(f)]]
      BY <2>1, <2>2
    <3> QED BY <1>13, <2>1, <3>1, <3>2
  <2>4. Graph' = [Graph EXCEPT ![s] = [Graph[s] EXCEPT ![cj] = w]]
    BY <1>5, <1>13, <2>3
  <2>5. Graph' = [Graph EXCEPT ![s][cj] = Graph'[s][cj]]
    BY <2>3, <2>4
  <2>6. {s, Graph'[s][cj]} \subseteq Reach \cup {0}
    BY <1>2, <1>5, <1>14, <2>3, ReachFacts
  <2>7. Objects!Write(s, cj)
    BY <1>8, <2>3, <2>5, <2>6, ObjectActions
  <2> QED BY <1>5, <2>3, <2>7, ObjectNext
<1>15. CASE cj \notin RefCells
  <2>1. \A f \in F : OffsetWord(f) # k
    <3> TAKE f \in F
    <3>1. PICK j \in InstRefs(ptr[s].cls) : f = <<ptr[s].cls, j>>
      BY <1>10 DEF RefsIn, OwnRefs
    <3>2. VarOffs(ptr[s].cls, j) + 1 # k
      BY ApartAgrees, <1>4, <1>5, <1>15, FieldWord
    <3> QED BY <3>1, <3>2 DEF OffsetWord
  <2>2. Graph'[s] = Graph[s]
    BY <1>13, <2>1
  <2>3. Graph' = Graph
    BY <1>13, <2>2
  <2>4. \A p \in live' : thStack'[p] \in Usable
    BY <1>8 DEF LiveValues, Usable
  <2>5. Holds({})
    BY <2>4, HoldsStep
  <2> QED BY <1>8, <2>3, <2>5, ObjectActions, ObjectNext
<1> QED BY <1>14, <1>15

(* A block whose references are null is put in a free slot: a new object,  *)
(* or, in slot 0, none.                                                    *)
LEMMA CreateStep ==
  ASSUME InheritedApart, HeapTypeInvariant, HeapTypeInvariant', StackFits', NEW s \in Slots, s \notin used,
         used' = used \cup {s}, \A t \in Slots \ {s} : ptr'[t] = ptr[t],
         \A f \in RefsIn(ptr'[s]) : ptr'[s].words[OffsetWord(f)] = 0,
         \A p \in live' : thStack'[p] \in LiveValues \cup {0, s}
  PROVE  Objects!Next
<1>1. Alive \subseteq Slots /\ LiveValues \subseteq Usable /\ 0 \in Usable
  BY DEF Alive, Usable, HeapTypeInvariant, HeapTypeOK, TypeOK
<1>2. CASE s = 0
  <2>1. Alive' = Alive /\ 0 \notin Alive
    BY <1>2 DEF Alive
  <2>2. \A t \in Alive : ptr'[t] = ptr[t]
    BY <1>1, <1>2, <2>1
  <2>3. \A p \in live' : thStack'[p] \in Usable
    BY <1>1, <1>2
  <2> QED BY <2>1, <2>2, <2>3, UseStep
<1>3. CASE s # 0
  <2>1. Alive' = Alive \cup {s} /\ s \notin Alive
    BY <1>3 DEF Alive
  <2>2. Graph = GraphOf(Alive, ptr) /\ Graph' = GraphOf(Alive', ptr')
    BY GraphIs, NextGraphIs
  <2>3. DOMAIN Graph' = Alive' /\ \A x \in Alive : Graph'[x] = Graph[x]
    BY <1>1, <2>1, <2>2 DEF GraphOf
  <2>4. \A f \in DOMAIN Graph'[s] : Graph'[s][f] = 0
    <3>1. Graph'[s] = [f \in RefsIn(ptr'[s]) |-> ptr'[s].words[OffsetWord(f)]]
      BY <2>1, <2>2 DEF GraphOf
    <3> QED BY <3>1
  <2>5. Holds({s})
    <3>1. \A p \in live' : thStack'[p] \in {s} \cup Usable \cup {0}
      BY <1>1
    <3> QED BY <3>1, HoldsStep
  <2>6. Objects!Create(s)
    BY <2>1, <2>3, <2>4, <2>5, ObjectActions
  <2> QED BY <1>3, <2>6, ObjectNext
<1> QED BY <1>2, <1>3

(* The blocks the program and its start-up without arguments allocate.     *)
LEMMA NullRefs ==
  /\ \A c \in Classes : RefsIn(Mirror(c)) = {}
  /\ \A c \in Classes : \A f \in RefsIn(Instant(c)) : Instant(c).words[OffsetWord(f)] = 0
  /\ \A b : b.cls = NoClass => RefsIn(b) = {}
<1>1. ASSUME NEW c \in Classes PROVE RefsIn(Mirror(c)) = {}
  <2>1. Mirror(c).words = << >>
    BY DEF Mirror, Object
  <2>2. DOMAIN << >> = {}
    OBVIOUS
  <2> QED BY <2>1, <2>2 DEF RefsIn, OwnRefs
<1>2. ASSUME NEW c \in Classes, NEW f \in RefsIn(Instant(c)) PROVE Instant(c).words[OffsetWord(f)] = 0
  <2>1. Instant(c).words = Zeros(NumVars(c)) /\ NumVars(c) \in Nat
    BY NewBlocks, OffsetType
  <2>2. OffsetWord(f) \in DOMAIN Zeros(NumVars(c))
    BY <2>1 DEF RefsIn, OwnRefs, OffsetWord
  <2> QED BY <2>1, <2>2 DEF Zeros
<1>3. \A b : b.cls = NoClass => RefsIn(b) = {}
  BY DEF RefsIn
<1> QED BY <1>1, <1>2, <1>3

(* An allocation creates an object.                                        *)
LEMMA AllocateCreates ==
  ASSUME InheritedApart, NumArgs = 0, HeapTypeInvariant, HeapTypeInvariant', BootInvariant, RefsInvariant, StackFits', Allocate
  PROVE  Objects!Next
<1>1. PICK s \in Free, h \in [Slots -> Block] :
        /\ h = [ptr EXCEPT ![s] = req] /\ Deliver(s, h) /\ used' = used \cup {s}
  BY AllocateData
<1>2. s \in Slots /\ s \notin used /\ pc = "alloc" /\ frames' = frames
  BY <1>1 DEF Free, Allocate
<1>3. ptr \in [Slots -> Block] /\ dest \in [to : Purposes, pos : Nat, i : Nat]
  BY DEF HeapTypeInvariant, HeapTypeOK, TypeOK, Purposes
<1>4. h[s] = req /\ \A t \in Slots \ {s} : h[t] = ptr[t]
  BY <1>1, <1>2, <1>3
<1>5. ASSUME frames # << >>
      PROVE  /\ ptr' = h /\ \A f \in RefsIn(req) : req.words[OffsetWord(f)] = 0
             /\ \A p \in live' : thStack'[p] \in LiveValues \cup {0, s}
  <2>1. PICK c \in Classes : \/ dest.to = "mirror" /\ req = Mirror(c)
                             \/ dest.to = "cell" /\ req = Instant(c)
    BY <1>2, <1>5 DEF RefsInvariant
  <2>2. ptr' = h
    BY <1>1, <2>1 DEF Deliver
  <2>3. \A f \in RefsIn(req) : req.words[OffsetWord(f)] = 0
    <3>1. CASE req = Mirror(c)
      BY <3>1, NullRefs
    <3>2. CASE req = Instant(c)
      BY <3>2, NullRefs
    <3> QED BY <2>1, <3>1, <3>2
  <2>4. CASE dest.to = "mirror"
    <3>1. UNCHANGED <<thStack, live>>
      BY <1>1, <2>4 DEF Deliver
    <3> QED BY <2>2, <2>3, <3>1 DEF LiveValues
  <2>5. CASE dest.to = "cell"
    <3>1. PutRef(dest.pos, s) /\ dest.pos \in 1 .. Len(thStack)
      BY <1>1, <1>2, <1>5, <2>5 DEF Deliver, HeapTypeInvariant, DestOK
    <3>2. thStack \in Seq(Word) /\ live \in SUBSET (1 .. Len(thStack))
      BY DEF HeapTypeInvariant, HeapTypeOK, TypeOK
    <3>3. \A p \in live' : thStack'[p] \in LiveValues \cup {s}
      <4> TAKE p \in live'
      <4>1. CASE p = dest.pos
        BY <3>1, <3>2, <4>1 DEF PutRef
      <4>2. CASE p # dest.pos
        BY <3>1, <3>2, <4>2 DEF PutRef, LiveValues
      <4> QED BY <4>1, <4>2
    <3> QED BY <2>2, <2>3, <3>3
  <2> QED BY <2>1, <2>4, <2>5
<1>6. ASSUME frames = << >>
      PROVE  /\ ptr' = h /\ \A f \in RefsIn(req) : req.words[OffsetWord(f)] = 0
             /\ \A p \in live' : thStack'[p] \in LiveValues \cup {0, s}
  <2>1. \/ dest.to = "boot" /\ boot.step <= NClasses /\ req = Mirror(BootClasses[boot.step])
        \/ dest.to = "argv"
    <3>1. ArgSteps = {}
      BY FirstClass DEF ArgSteps
    <3> QED BY <1>2, <1>6, <3>1 DEF BootInvariant
  <2>2. ptr' = h
    BY <1>1, <2>1 DEF Deliver
  <2>3. RefsIn(req) = {}
    <3>1. CASE dest.to = "boot"
      <4>1. req.cls \in Classes /\ req = Mirror(BootClasses[boot.step])
        BY <1>2, <2>1, <3>1 DEF HeapTypeInvariant, DestOK
      <4>2. req.cls = BootClasses[boot.step]
        BY <4>1 DEF Mirror, Object
      <4> QED BY <4>1, <4>2, NullRefs
    <3>2. CASE dest.to = "argv"
      <4>1. req.cls = NoClass
        BY <1>2, <3>2 DEF RefsInvariant
      <4> QED BY <4>1, NullRefs
    <3> QED BY <2>1, <3>1, <3>2
  <2>4. thStack' = << >> /\ live' \in SUBSET (1 .. Len(thStack'))
    BY <1>2, <1>6 DEF HeapTypeInvariant, HeapTypeOK, FramesOK
  <2>5. live' = {}
    BY <2>4
  <2> QED BY <2>2, <2>3, <2>5
<1>7. ptr'[s] = req /\ \A t \in Slots \ {s} : ptr'[t] = ptr[t]
  BY <1>4, <1>5, <1>6
<1> QED BY <1>1, <1>2, <1>5, <1>6, <1>7, CreateStep

(* What the sweep frees, the program cannot reach.                         *)
LEMMA SweepReclaims ==
  ASSUME InheritedApart, HeapTypeInvariant, HeapTypeInvariant', RefsInvariant, Sweep, UNCHANGED live
  PROVE  Objects!Next \/ UNCHANGED Objects!vars
<1>1. /\ gcpc = "sweep" /\ hand \in Slots /\ UNCHANGED <<ptr, thStack>>
      /\ IF hand \in used \ marked THEN used' = used \ {hand} ELSE used' = used
  BY DEF Sweep, Frees, stackVars
<1>2. CASE hand = 0 \/ used' = used
  <2>1. Alive' = Alive
    BY <1>1, <1>2 DEF Alive
  <2> QED BY <1>1, <2>1, StutterStep
<1>3. CASE hand # 0 /\ used' # used
  <2>1. hand \in used \ marked /\ hand \in Alive /\ Alive' = Alive \ {hand}
    BY <1>1, <1>3 DEF Alive
  <2>2. Graph = GraphOf(Alive, ptr) /\ Graph' = GraphOf(Alive', ptr')
    BY GraphIs, NextGraphIs
  <2>3. Graph' = [x \in Alive' |-> Graph[x]]
    BY <1>1, <2>1, <2>2 DEF GraphOf
  <2>4. Holding' = Holding
    BY <1>1 DEF Holding
  <2>5. hand \notin Staying
    <3>1. hand >= hand
      BY <1>1, SlotFacts
    <3> QED BY <1>1, <2>1, <3>1 DEF Staying
  <2>6. hand \notin Reach
    <3>1. CASE frames # << >>
      <4>1. PICK S \in SUBSET Slots : Closed(S)
        BY <3>1 DEF RefsInvariant
      <4>2. S \subseteq Staying /\ LiveValues \subseteq S /\ \A s \in S : FieldRefs(s) \subseteq S
        BY <4>1 DEF Closed, LiveValues
      <4>3. Reach \subseteq S
        BY <4>2, ReachFacts
      <4> QED BY <2>5, <4>2, <4>3
    <3>2. CASE frames = << >>
      <4>1. thStack = << >> /\ live \in SUBSET (1 .. Len(thStack))
        BY <3>2 DEF HeapTypeInvariant, HeapTypeOK, FramesOK
      <4>2. live = {}
        BY <4>1
      <4>3. LiveValues \subseteq {} /\ {} \in SUBSET Slots /\ \A s \in {} : FieldRefs(s) \subseteq {}
        BY <4>2 DEF LiveValues
      <4>4. Reach \subseteq {}
        BY <4>3, ReachFacts
      <4> QED BY <4>4
    <3> QED BY <3>1, <3>2
  <2>7. PICK s : s = hand
    OBVIOUS
  <2>8. Objects!Reclaim(s)
    BY <2>1, <2>3, <2>4, <2>6, <2>7, ObjectActions
  <2> QED BY <2>1, <2>7, <2>8, ObjectNext
<1> QED BY <1>2, <1>3

(* Every step of the heap is a step of JObjects, or none.                  *)
LEMMA ObjectsStep ==
  ASSUME InheritedApart, NumArgs = 0, ArrayFree, HeapTypeInvariant, HeapTypeInvariant', BootInvariant, RefsInvariant,
         StackFits', [HeapNext]_heapAllVars
  PROVE  Objects!Next \/ UNCHANGED Objects!vars
<1>1. CASE BootLoad \/ BootArgv \/ BootArg \/ New
  <2>1. UNCHANGED <<used, ptr, thStack, live>>
    BY <1>1 DEF BootLoad, BootArgv, BootArg, New, allVars, heapVars
  <2> QED BY <2>1, StutterStep DEF Alive
<1>2. CASE BootMain
  <2>1. UNCHANGED <<used, ptr>> /\ live' = {}
    BY <1>2 DEF BootMain, heapVars, ArrayFree
  <2> QED BY <2>1, UseStep DEF Alive
<1>3. CASE MoveRef \/ Overwrite \/ GetField \/ FieldBeyond \/ Invoke \/ MethodReturn \/ Halt
  <2>1. (\A p \in live' : thStack'[p] \in Usable) /\ UNCHANGED <<used, ptr>>
    BY ApartAgrees, <1>3, UsesUsable
  <2> QED BY <2>1, UseStep DEF Alive
<1>4. CASE PutField
  BY <1>4, WriteFieldStep
<1>5. CASE Allocate
  BY <1>5, AllocateCreates
<1>6. CASE \/ AllocateCollects
           \/ (MarkRoot \/ WalkField \/ WalkElement \/ Return \/ FinishMark \/ EndGC) /\ UNCHANGED mutVars
  <2>1. UNCHANGED <<used, ptr, thStack, live>>
    BY <1>6 DEF AllocateCollects, StartGC, MarkRoot, WalkField, WalkElement, Return, FinishMark, EndGC,
                heapVars, stackVars, mutVars
  <2> QED BY <2>1, StutterStep DEF Alive
<1>7. CASE Sweep /\ UNCHANGED mutVars
  BY <1>7, SweepReclaims DEF mutVars
<1>8. CASE UNCHANGED heapAllVars
  <2>1. UNCHANGED <<used, ptr, thStack, live>>
    BY <1>8 DEF heapAllVars, allVars, mutVars
  <2> QED BY <2>1, StutterStep DEF Alive
<1>9. ~(NewArray \/ LoadString \/ MultiANewArray \/ AAStore \/ AALoad \/ PutStatic \/ GetStatic)
  BY DEF NewArray, LoadString, MultiANewArray, AAStore, AALoad, PutStatic, GetStatic, Does, ArrayFree
<1> QED BY <1>1, <1>2, <1>3, <1>4, <1>5, <1>6, <1>7, <1>8, <1>9
        DEF HeapNext, Boot, Instruction, Allocation, Collector, Collect

(* The heap is a heap of objects: for every heap with room for start-up,   *)
(* every layout of classes with the static fields last and the inherited   *)
(* fields the program uses behind the object's own, and every program      *)
(* without arguments, arrays, strings and static fields, allocateObject    *)
(* and jGC create, keep and reclaim objects as JObjects says, until        *)
(* getfield or putfield touches memory behind a block.                     *)
THEOREM HeapKeepsObjects ==
  ASSUME InheritedApart, BootFits, StaticsLast, ArrayFree, NumArgs = 0
  PROVE  HeapSpec => KeepsObjects
<1>1. HeapInit => Objects!Init /\ StackFits
  <2> SUFFICES ASSUME HeapInit PROVE Objects!Init /\ StackFits
    OBVIOUS
  <2>1. used = {} /\ live = {} /\ thStack = << >> /\ pc = "boot"
    BY DEF HeapInit
  <2>2. Alive = {}
    BY <2>1 DEF Alive
  <2>3. \A F : [x \in {} |-> F[x]] = << >>
    OBVIOUS
  <2>4. Graph = << >> /\ Holding = << >>
    BY <2>1, <2>2, <2>3 DEF Graph, Holding, Alive
  <2> QED BY <2>1, <2>2, <2>4, ObjectActions DEF StackFits
<1>2. /\ HeapTypeInvariant /\ HeapTypeInvariant' /\ BootInvariant /\ NullInvariant /\ RefsInvariant
      /\ StackFits /\ [HeapNext]_heapAllVars
      => StackFits'
  BY StackFitsStep
<1>3. /\ HeapTypeInvariant /\ HeapTypeInvariant' /\ BootInvariant /\ NullInvariant /\ RefsInvariant
      /\ StackFits' /\ [HeapNext]_heapAllVars
      => [Objects!Next]_(Objects!vars)
  BY ObjectsStep
<1> QED BY ApartAgrees, <1>1, <1>2, <1>3, RefsAlways, PTL DEF HeapSpec, KeepsObjects, Objects!Spec
=============================================================================
