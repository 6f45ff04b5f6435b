-------------------------------- MODULE JHeap --------------------------------
(***************************************************************************)
(* The object heap at work: the allocator of J_Memory.c, the collector it  *)
(* calls (JGc), and the mutator around them - the start-up of main(), the  *)
(* object instructions of jExecMethod, and the two routines that build an  *)
(* object in several allocations, createJavaStringObjectFromUtfString and  *)
(* createMultiArray.                                                       *)
(*                                                                         *)
(* A frame on the thread stack is three saved words, FrameCells cells for  *)
(* the local variables and the operand stack of its method, and the method *)
(* and class pointers.  The collector scans whole frames, so the model     *)
(* does not say which cell is a local and which is an operand; live holds  *)
(* the positions where the running bytecode may find a reference, which    *)
(* the class file format lets it use only after it has stored one there.   *)
(***************************************************************************)
EXTENDS JGc, SequencesExt

CONSTANTS
  StringClass,  \* java/lang/String, whose first field is the char array
  BootClasses,  \* the classes main() loads, in order, java/lang/Object first
  NumArgs,      \* arguments on the command line of the Java program
  FrameCells,   \* bound: cells of a frame (maxLocals + maxStack)
  StaleWords,   \* bound: words a new frame finds in its cells, and numbers of the program
  StackSize,    \* THREAD_STACK_SIZE
  Supers,       \* Supers[c]: the superclasses of c whose fields its objects are used with
  NewClasses,   \* bound: the classes the program creates objects of
  Arrays,       \* bound: the arrays the program creates, as blocks
  Program       \* bound: kinds of instruction the program is made of

Zeros(n) == [i \in 1 .. n |-> 0]

\* The only reference of a String is its char array; new arrays are zeroed.
ASSUME MutatorAssumption ==
  /\ StringClass \in Classes /\ NumVars(StringClass) > 0
  /\ \A j \in FieldIdx(StringClass) : Fields[StringClass][j].ref => VarOffs(StringClass, j) = 0
  /\ BootClasses \in Seq(Classes) /\ BootClasses # << >>
  /\ NumArgs \in Nat /\ FrameCells \in Nat \ {0} /\ StackSize \in Nat
  /\ StaleWords \subseteq Word /\ StaleWords # {}
  /\ Supers \in [Classes -> SUBSET Classes]
  /\ NewClasses \subseteq Classes
  /\ Arrays \subseteq {b \in Block : b.cls = NoClass /\ (b.type \in {1, 2} => b.words = Zeros(Len(b.words)))}

VARIABLES
  pc,           \* what the virtual machine is doing
  req, dest,    \* in allocateObject: the block asked for, and for what
  seek,         \* in allocateObject: pos
  frames,       \* of each frame on the thread stack, the position before its cells
  live,         \* stack positions the program may use as a reference
  loaded,       \* classes in the class hash table
  boot          \* main(): its loop counters and local objects

mutVars == <<pc, req, dest, seek, frames, live, loaded, boot>>
heapAllVars == <<allVars, mutVars>>

Instant(c) == Object(c, Zeros(NumVars(c)))
Free == Slots \ used
PrefixLen == 3                  \* saved pc, var and stack, or three zeros
OuterLen  == 2                  \* bound: elements of a multi-dimensional array
SuffixLen == 2                  \* method and class pointer
FrameLen == PrefixLen + FrameCells + SuffixLen
FrameUnset(saved, cells) ==   \* mutant: the words at the base are left as found
  [i \in 1 .. PrefixLen |-> HeapSize] \o cells \o [i \in 1 .. SuffixLen |-> HeapSize]
Frame(saved, cells) == [i \in 1 .. PrefixLen |-> saved] \o cells \o [i \in 1 .. SuffixLen |-> HeapSize]

\* The cells of the running frame, and those that hold a reference.
CellsOf(base) == base + 1 .. base + FrameCells
MyCells == CellsOf(Last(frames))
MyRefs == live \cap MyCells
Running == pc = "run" /\ gcpc = "idle"
Does(kind) == Running /\ kind \in Program

---------------------------------------------------------------------------
(* allocateObject, called for block b. *)
Request(b, d, top) ==
  pc' = "alloc" /\ req' = b /\ dest' = d /\ seek' = top + 1

\* Store reference s in cell p, for the program.
PutRef(p, s) == thStack' = [thStack EXCEPT ![p] = s] /\ live' = live \cup {p}

FirstFree == CHOOSE s \in Free : \A t \in Free : s <= t
ChosenUnchecked == IF seek < HeapSize THEN seek ELSE FirstFree  \* mutant
ChosenPastEnd == IF seek <= HeapSize /\ seek \notin used THEN seek ELSE FirstFree  \* mutant
\* The slot after the last one allocated or freed, or else the first free one.
Chosen == IF seek < HeapSize /\ seek \notin used THEN seek ELSE FirstFree

\* Heap h with a word of the block in slot s overwritten.
Store(h, s, k, w) ==
  [h EXCEPT ![s] = [cls |-> h[s].cls, type |-> h[s].type, words |-> [h[s].words EXCEPT ![k] = w]]]

(* J_STRING_ARRAY_OBJ and J_ARRAY_LEN are set: the length of the char      *)
(* array is its own, unless the String was given the slot of the array.    *)
WithChars(h, s, chars) ==
  LET g == Store(h, s, 1, chars) IN
  IF s = chars /\ Len(h[s].words) > 1 THEN Store(g, s, 2, HeapSize) ELSE g

\* The caller of allocateObject goes on with slot s, in heap h.
Deliver(s, h) ==
  \/ \* jGetClass, from main
     /\ dest.to = "boot"
     /\ ptr' = h /\ pc' = "boot"
     /\ boot' = [boot EXCEPT !.step = @ + 1, !.mirror = s]
     /\ loaded' = loaded \cup {req.cls}
     /\ UNCHANGED <<exStack, thStack, live, req, dest, seek>>
  \/ \* jGetClass, from the instruction new: the object itself comes next
     /\ dest.to = "mirror"
     /\ ptr' = h /\ loaded' = loaded \cup {req.cls}
     /\ Request(Instant(req.cls), [dest EXCEPT !.to = "cell"], s)
     /\ UNCHANGED <<exStack, thStack, live, boot>>
  \/ \* new, newarray, anewarray
     /\ dest.to = "cell"
     /\ ptr' = h /\ PutRef(dest.pos, s) /\ pc' = "run"
     /\ UNCHANGED <<exStack, req, dest, seek, loaded, boot>>
  \/ \* main: the array of arguments
     /\ dest.to = "argv"
     /\ ptr' = h /\ pc' = "boot"
     /\ boot' = [boot EXCEPT !.step = @ + 1, !.argv = s]
     /\ UNCHANGED <<exStack, thStack, live, req, dest, seek, loaded>>
  \/ \* createJavaStringObjectFromUtfString: the char array, then the String
     /\ dest.to = "chars"
     /\ ptr' = h /\ exStack' = Append(exStack, s)
     /\ Request(Instant(StringClass), [dest EXCEPT !.to = "string"], s)
     /\ UNCHANGED <<thStack, live, loaded, boot>>
  \/ /\ dest.to = "string"
     /\ exStack' = Front(exStack)
     /\ LET g == WithChars(h, s, Last(exStack)) IN
          IF dest.pos = 0       \* an argument of main
          THEN /\ ptr' = IF Len(g[boot.argv].words) >= dest.i
                         THEN Store(g, boot.argv, dest.i, s) ELSE g
               /\ boot' = [boot EXCEPT !.step = @ + 1] /\ pc' = "boot"
               /\ UNCHANGED <<thStack, live>>
          ELSE ptr' = g /\ PutRef(dest.pos, s) /\ pc' = "run" /\ UNCHANGED boot
     /\ UNCHANGED <<req, dest, seek, loaded>>
  \/ \* createMultiArray: the outer array, then its elements in turn
     /\ dest.to = "outer"
     /\ ptr' = h /\ exStack' = Append(exStack, s)
     /\ Request(Array(5, <<HeapSize>>), [dest EXCEPT !.to = "inner"], s)
     /\ UNCHANGED <<thStack, live, loaded, boot>>
  \/ /\ dest.to = "inner"
     /\ LET outer == Last(exStack) IN
        /\ ptr' = IF Len(h[outer].words) >= dest.i THEN Store(h, outer, dest.i, s) ELSE h
        /\ IF dest.i < OuterLen
           THEN /\ Request(req, [dest EXCEPT !.i = @ + 1], s)
                /\ UNCHANGED <<exStack, thStack, live>>
           ELSE /\ exStack' = Front(exStack) /\ PutRef(dest.pos, outer)
                /\ pc' = "run" /\ UNCHANGED <<req, dest, seek>>
     /\ UNCHANGED <<loaded, boot>>

Allocate ==
  /\ pc = "alloc" /\ gcpc = "idle" /\ Free # {}
  /\ used' = used \cup {Chosen}
  /\ marked' = marked \ {Chosen}
  /\ vmhTop' = Chosen
  /\ Deliver(Chosen, [ptr EXCEPT ![Chosen] = req])
  /\ UNCHANGED <<fvar, gcVars, frames>>

\* No slot is free: collect, and search the table from its start.
AllocateCollects ==
  /\ pc = "alloc"
  /\ StartGC
  /\ seek' = HeapSize
  /\ UNCHANGED <<pc, req, dest, frames, live, loaded, boot>>

Collector == Collect /\ UNCHANGED mutVars

---------------------------------------------------------------------------
(* main(): preload the classes, push the mirror of the last one, build the *)
(* array of arguments, and run the method main.                            *)
NewString(d) == Request(Array(5, <<HeapSize>>), [d EXCEPT !.to = "chars"], vmhTop)
Dest(to, pos, i) == [to |-> to, pos |-> pos, i |-> i]
NClasses == Len(BootClasses)

BootLoad ==
  /\ pc = "boot" /\ boot.step <= NClasses
  /\ Request(Mirror(BootClasses[boot.step]), Dest("boot", 0, 0), vmhTop)
  /\ UNCHANGED <<allVars, frames, live, loaded, boot>>

BootArgv ==
  /\ pc = "boot" /\ boot.step = NClasses + 1
  /\ exStack' = Append(exStack, boot.mirror)
  /\ Request(Array(1, Zeros(NumArgs)), Dest("argv", 0, 0), vmhTop)
  /\ UNCHANGED <<heapVars, thStack, fvar, gcVars, frames, live, loaded, boot>>

BootArg ==
  /\ pc = "boot" /\ boot.step \in NClasses + 2 .. NClasses + 1 + NumArgs
  /\ NewString(Dest("chars", 0, boot.step - NClasses - 1))
  /\ UNCHANGED <<allVars, frames, live, loaded, boot>>

\* jExecMethod: three words of zero, then the frame.
BootMain ==
  /\ pc = "boot" /\ boot.step = NClasses + 2 + NumArgs
  /\ \E stale \in [1 .. FrameCells -> StaleWords] :
       thStack' = Frame(0, [stale EXCEPT ![1] = boot.argv])
  /\ frames' = <<PrefixLen>>
  /\ live' = IF "args" \in Program THEN {PrefixLen + 1} ELSE {}
  /\ pc' = IF FrameLen >= StackSize THEN "halted" ELSE "run"
  /\ UNCHANGED <<heapVars, exStack, fvar, gcVars, req, dest, seek, loaded, boot>>

---------------------------------------------------------------------------
(* The instructions.  Each works on cells of the running frame. *)
New ==
  /\ Does("new")
  /\ \E c \in NewClasses, p \in MyCells :
       IF c \in loaded THEN Request(Instant(c), Dest("cell", p, 0), vmhTop)
       ELSE Request(Mirror(c), Dest("mirror", p, 0), vmhTop)
  /\ UNCHANGED <<allVars, frames, live, loaded, boot>>

NewArray ==
  /\ Does("newarray")
  /\ \E b \in Arrays, p \in MyCells : Request(b, Dest("cell", p, 0), vmhTop)
  /\ UNCHANGED <<allVars, frames, live, loaded, boot>>

LoadString ==
  /\ Does("ldc")
  /\ \E p \in MyCells : NewString(Dest("chars", p, 0))
  /\ UNCHANGED <<allVars, frames, live, loaded, boot>>

MultiANewArray ==
  /\ Does("multianewarray")
  /\ \E p \in MyCells : Request(Array(2, Zeros(OuterLen)), Dest("outer", p, 1), vmhTop)
  /\ UNCHANGED <<allVars, frames, live, loaded, boot>>

\* References the instructions copy: locals, operands, null.
MoveRef ==
  /\ Does("move")
  /\ \E p \in MyCells, s \in {thStack[q] : q \in MyRefs} \cup {0} : PutRef(p, s)
  /\ UNCHANGED <<heapVars, exStack, fvar, gcVars, pc, req, dest, seek, frames, loaded, boot>>

\* A cell is overwritten with a word that is no reference.
PutWord(p, w) == thStack' = [thStack EXCEPT ![p] = w] /\ live' = live \ {p}
Overwrite ==
  /\ Does("overwrite")
  /\ \E p \in MyCells : PutWord(p, HeapSize)
  /\ UNCHANGED <<heapVars, exStack, fvar, gcVars, pc, req, dest, seek, frames, loaded, boot>>

(* The fields an instruction may name for the object at s, those of its    *)
(* class and those it inherits.  Whichever class the field is of, the word *)
(* behind varOffs is taken; those words that are not in the block belong   *)
(* to something else.                                                      *)
InstCells == {cj \in Cells : Fields[cj[1]][cj[2]].kind = "inst"}
RefCells == {cj \in InstCells : Fields[cj[1]][cj[2]].ref}
NamedFields(s) ==
  IF s \notin used \ {0} \/ IsArray(s) THEN {}
  ELSE {cj \in InstCells : cj[1] \in {ptr[s].cls} \cup Supers[ptr[s].cls]}
WordOf(cj) == fvar[cj] + 1
InBlock(s) == {cj \in NamedFields(s) : WordOf(cj) \in DOMAIN ptr[s].words}
RefFields(s) == InBlock(s) \cap RefCells

PutField ==
  /\ Does("putfield")
  /\ \E p \in MyRefs : \E cj \in InBlock(thStack[p]) :
       \E w \in IF cj \in RefCells THEN {thStack[q] : q \in MyRefs} ELSE StaleWords :
         ptr' = Store(ptr, thStack[p], WordOf(cj), w)
  /\ UNCHANGED <<used, marked, vmhTop, exStack, thStack, fvar, gcVars, mutVars>>

GetField ==
  /\ Does("getfield")
  /\ \E p \in MyRefs, q \in MyCells : \E cj \in InBlock(thStack[p]) :
       LET w == ptr[thStack[p]].words[WordOf(cj)] IN
       IF cj \in RefCells THEN PutRef(q, w) ELSE PutWord(q, w)
  /\ UNCHANGED <<heapVars, exStack, fvar, gcVars, pc, req, dest, seek, frames, loaded, boot>>

\* Memory behind the block is read or written, and what the machine does then is not followed.
FieldBeyond ==
  /\ Running /\ {"putfield", "getfield"} \cap Program # {}
  /\ \E p \in MyRefs : NamedFields(thStack[p]) # InBlock(thStack[p])
  /\ pc' = "corrupt"
  /\ UNCHANGED <<allVars, req, dest, seek, frames, live, loaded, boot>>

\* The elements of the array of references at s; the index is checked.
RefElements(s) ==
  IF s \in used \ {0} /\ ptr[s].type \in {1, 2} THEN DOMAIN ptr[s].words ELSE {}

AAStore ==
  /\ Does("aastore")
  /\ \E p, q \in MyRefs : \E i \in RefElements(thStack[p]) :
       ptr' = Store(ptr, thStack[p], i, thStack[q])
  /\ UNCHANGED <<used, marked, vmhTop, exStack, thStack, fvar, gcVars, mutVars>>

AALoad ==
  /\ Does("aastore")
  /\ \E p \in MyRefs, q \in MyCells : \E i \in RefElements(thStack[p]) :
       PutRef(q, ptr[thStack[p]].words[i])
  /\ UNCHANGED <<heapVars, exStack, fvar, gcVars, pc, req, dest, seek, frames, loaded, boot>>

\* The static reference fields of the loaded classes.
StaticRefs == {cj \in Cells : cj[1] \in loaded /\ Fields[cj[1]][cj[2]] = [kind |-> "static", ref |-> TRUE]}

PutStatic ==
  /\ Does("static")
  /\ \E cj \in StaticRefs, p \in MyRefs : fvar' = [fvar EXCEPT ![cj] = thStack[p]]
  /\ UNCHANGED <<heapVars, exStack, thStack, gcVars, mutVars>>

GetStatic ==
  /\ Does("static")
  /\ \E cj \in StaticRefs, p \in MyCells : PutRef(p, fvar[cj])
  /\ UNCHANGED <<heapVars, exStack, fvar, gcVars, pc, req, dest, seek, frames, loaded, boot>>

\* An invoke instruction: one argument, in the first cell of the new frame.
Invoke ==
  /\ Does("invoke")
  /\ \E arg \in MyRefs, stale \in [1 .. FrameCells -> StaleWords] :
       thStack' = thStack \o Frame(HeapSize, [stale EXCEPT ![1] = thStack[arg]])
  /\ Len(thStack) + FrameLen < StackSize
  /\ frames' = Append(frames, Len(thStack) + PrefixLen)
  /\ live' = live \cup {Len(thStack) + PrefixLen + 1}
  /\ UNCHANGED <<heapVars, exStack, fvar, gcVars, pc, req, dest, seek, loaded, boot>>

\* return, or areturn: the caller finds the result in one of its cells.
ReturnTo(base) == SubSeq(thStack, 1, base - PrefixLen)
MethodReturn ==
  /\ Does("invoke") /\ Len(frames) > 1
  /\ LET rest == ReturnTo(Last(frames))
         kept == {q \in live : q <= Len(rest)} IN
       \/ thStack' = rest /\ live' = kept
       \/ \E q \in MyRefs, p \in CellsOf(frames[Len(frames) - 1]) :
            thStack' = [rest EXCEPT ![p] = thStack[q]] /\ live' = kept \cup {p}
  /\ frames' = Front(frames)
  /\ UNCHANGED <<heapVars, exStack, fvar, gcVars, pc, req, dest, seek, loaded, boot>>

(* The end of the program: main returns, an instruction uses null, or the  *)
(* thread stack is full; the last two are fatal errors of the machine.     *)
Halt ==
  /\ Does("halt")
  /\ \/ Len(frames) = 1
     \/ \E p \in MyRefs : thStack[p] = 0
     \/ Len(thStack) + FrameLen >= StackSize
  /\ pc' = "halted"
  /\ UNCHANGED <<allVars, req, dest, seek, frames, live, loaded, boot>>

---------------------------------------------------------------------------
HeapInit ==
  /\ used = {} /\ marked = {} /\ vmhTop = -1
  /\ ptr = [s \in Slots |-> Object(BootClasses[1], << >>)]
  /\ fvar = [cj \in Cells |-> IF Fields[cj[1]][cj[2]].kind = "inst" THEN VarOffs(cj[1], cj[2]) ELSE 0]
  /\ exStack = << >> /\ thStack = << >>
  /\ gcpc = "idle" /\ root = 1 /\ calls = << >> /\ hand = 0
  /\ pc = "boot" /\ req = Mirror(BootClasses[1]) /\ dest = [to |-> "boot", pos |-> 0, i |-> 0]
  /\ seek = 0 /\ frames = << >> /\ live = {} /\ loaded = {}
  /\ boot = [step |-> 1, mirror |-> 0, argv |-> 0]

Boot == BootLoad \/ BootArgv \/ BootArg \/ BootMain
Instruction ==
  \/ New \/ NewArray \/ LoadString \/ MultiANewArray
  \/ MoveRef \/ Overwrite \/ PutField \/ GetField \/ FieldBeyond \/ AAStore \/ AALoad \/ PutStatic \/ GetStatic
  \/ Invoke \/ MethodReturn \/ Halt
\* Steps inside allocateObject.
Allocation == Allocate \/ AllocateCollects \/ Collector

HeapNext == Boot \/ Instruction \/ Allocation
HeapSpec == HeapInit /\ [][HeapNext]_heapAllVars
HeapFairSpec == HeapSpec /\ WF_heapAllVars(Allocation)

---------------------------------------------------------------------------
HeapTypeOK ==
  /\ TypeOK
  /\ pc \in {"boot", "alloc", "run", "halted", "corrupt"}
  /\ req \in Block /\ seek \in 0 .. HeapSize
  /\ dest \in [to : {"boot", "argv", "mirror", "cell", "chars", "string", "outer", "inner"},
               pos : Nat, i : Nat]
  /\ frames \in Seq(Nat) /\ live \in SUBSET (1 .. Len(thStack))
  /\ loaded \in SUBSET Classes
  /\ boot \in [step : Nat \ {0}, mirror : Slots, argv : Slots]

---------------------------------------------------------------------------
(***************************************************************************)
(* Why the types are kept: what the machine takes for a reference is a     *)
(* slot number, in the heap, in the static fields and on both stacks.      *)
(***************************************************************************)
\* The reference fields of the objects of class c.
InstRefs(c) == {j \in FieldIdx(c) : Fields[c][j] = [kind |-> "inst", ref |-> TRUE]}
RefsOfBlock(b) ==
  /\ b.type \in {1, 2} => b.words \in Seq(Slots)
  /\ b.cls \in Classes => b.type = 0 /\ Len(b.words) <= NumVars(b.cls)
  /\ b.cls \in Classes => \A j \in InstRefs(b.cls) :
       VarOffs(b.cls, j) + 1 \in 1 .. Len(b.words) => b.words[VarOffs(b.cls, j) + 1] \in Slots
RefsAreSlots ==
  /\ \A s \in Slots : RefsOfBlock(ptr[s])
  /\ \A cj \in Cells : Fields[cj[1]][cj[2]] = [kind |-> "static", ref |-> TRUE] => fvar[cj] \in Slots
  /\ \A p \in live : thStack[p] \in Slots
  /\ exStack \in Seq(Slots)

\* The frames lie on top of each other, the running one at the top.
FramesOK ==
  /\ frames = << >> <=> thStack = << >>
  /\ pc = "run" => frames # << >>
  /\ pc = "boot" => frames = << >>
  /\ \A k \in 1 .. Len(frames) :
       /\ k = 1 => frames[k] = PrefixLen
       /\ k > 1 => frames[k] = frames[k - 1] + FrameLen
       /\ k = Len(frames) => Len(thStack) = frames[k] + FrameCells + SuffixLen

(* Offsets are counted in each class from 0, so a field that is inherited  *)
(* is behind the own ones, where the object has no words, or shares the    *)
(* word of one.  InheritedAgree: where it does, both are references or     *)
(* neither is.  InheritedApart: no inherited field that is used does.      *)
Inherited(c) == {dj \in Cells : dj[1] \in Supers[c] /\ Fields[dj[1]][dj[2]].kind = "inst"}
Behind(c, dj) == VarOffs(dj[1], dj[2]) >= NumVars(c)
InheritedApart == \A c \in Classes : \A dj \in Inherited(c) : Behind(c, dj)
InheritedAgree == \A c \in Classes : \A dj \in Inherited(c) :
  \/ Behind(c, dj)
  \/ \E i \in FieldIdx(c) : VarOffs(c, i) = VarOffs(dj[1], dj[2]) /\ Fields[c][i] = Fields[dj[1]][dj[2]]

\* What allocateObject is asked for, by whom.
DestOK == pc = "alloc" =>
  /\ RefsOfBlock(req)
  /\ dest.to \in {"boot", "argv"} => dest.pos = 0
  /\ IF dest.pos = 0 THEN frames = << >> /\ dest.to \in {"boot", "argv", "chars", "string"}
     ELSE frames # << >> /\ dest.pos \in 1 .. Len(thStack)
  /\ dest.to \in {"string", "inner"} => exStack # << >>
  /\ dest.to \in {"boot", "mirror"} => req.cls \in Classes
  /\ dest.to = "string" => req = Instant(StringClass)

HeapTypeInvariant == HeapTypeOK /\ OffsetsOK /\ RefsAreSlots /\ FramesOK /\ DestOK

---------------------------------------------------------------------------
(***************************************************************************)
(* Why slot 0 stays what it is: main() allocates it first, to the mirror   *)
(* of the first class, and has run out of objects to make before the table *)
(* runs out of slots; from then on the thread stack begins with a word 0.  *)
(***************************************************************************)
\* The heap has room for all main() allocates before the program runs.
BootFits == HeapSize >= NClasses + 1 + 2 * NumArgs

\* The objects main() has made when it gets to boot.step.
Allocated == IF boot.step <= NClasses + 1 THEN boot.step - 1 ELSE 2 * boot.step - NClasses - 3
NullIsMirror == ptr[0] = Mirror(BootClasses[1])
ArgSteps == NClasses + 2 .. NClasses + 1 + NumArgs

\* main() fills the table from its start, without a collection.
BootInvariant ==
  pc \in {"boot", "alloc"} /\ frames = << >> =>
    /\ gcpc = "idle" /\ used = 0 .. vmhTop /\ (vmhTop >= 0 => NullIsMirror)
    /\ pc = "boot" => vmhTop = Allocated - 1 /\ boot.step <= NClasses + 2 + NumArgs
    /\ pc = "alloc" =>
         /\ seek = vmhTop + 1
         /\ vmhTop = IF dest.to = "string" THEN Allocated ELSE Allocated - 1
         /\ \/ dest.to = "boot" /\ boot.step <= NClasses /\ req = Mirror(BootClasses[boot.step])
            \/ dest.to = "argv" /\ boot.step = NClasses + 1
            \/ dest.to \in {"chars", "string"} /\ boot.step \in ArgSteps

\* The first word of the thread stack is a root: slot 0 is marked in time.
NullInvariant ==
  frames # << >> =>
    /\ 0 \in used /\ NullIsMirror /\ thStack[1] = 0
    /\ \A k \in 1 .. Len(frames) : frames[k] >= PrefixLen
    /\ pc = "alloc" => dest.pos > PrefixLen
    /\ gcpc = "mark" /\ root > Len(exStack) + 1 => 0 \in marked
    /\ gcpc = "sweep" /\ hand = 0 => 0 \in marked

---------------------------------------------------------------------------
(***************************************************************************)
(* Why what the program holds stays: a set of objects, closed under their  *)
(* fields, contains all of it, and no collection frees any of the set.     *)
(***************************************************************************)
\* A program without arrays, strings and static fields.
ArrayFree == Program \cap {"newarray", "ldc", "multianewarray", "aastore", "static", "args"} = {}

\* The slots that will be in use when the collection is over.
Staying == {s \in used : gcpc = "sweep" /\ s >= hand => s \in marked}
FieldsClosed == \A s \in Staying : ~IsArray(s) => FieldRefs(s) \subseteq Staying

\* A set of objects with all the program may reach.
Closed(S) ==
  /\ S \subseteq Staying /\ 0 \in S /\ \A p \in live : thStack[p] \in S
  /\ \A s \in S : ~IsArray(s) /\ FieldRefs(s) \subseteq S
RefsInvariant ==
  /\ MarksAhead /\ MarkInvariant
  /\ gcpc \in {"idle", "sweep"} => FieldsClosed
  /\ pc = "alloc" /\ dest.to = "string" => Last(exStack) \in used
  /\ pc = "alloc" /\ dest.to \in {"argv", "chars"} => req.cls = NoClass
  /\ frames # << >> =>
       /\ pc = "alloc" => \E c \in Classes : \/ dest.to = "mirror" /\ req = Mirror(c)
                                             \/ dest.to = "cell" /\ req = Instant(c)
       /\ \E S \in SUBSET Slots : Closed(S)

---------------------------------------------------------------------------
(* Why the positions the program uses are positions of the thread stack of *)
(* StackSize words: invoke checks the room for a frame before it pushes it. *)
StackFits ==
  /\ pc \in {"run", "alloc"} => Len(thStack) <= StackSize
  /\ live \subseteq 1 .. StackSize

---------------------------------------------------------------------------
(* The heap is a heap of objects: each slot in use, slot 0 apart, is an    *)
(* object with the words its class makes reference fields, and the live    *)
(* stack positions are what the program holds.  Slots are reused, objects  *)
(* are not: allocateObject must never hand out the slot of an object the   *)
(* program can still reach, nor jGC change or free one, nor getfield and   *)
(* putfield of an inherited field touch a field of the object's own class. *)
(* After an access behind a block nothing is said.                         *)
Objects == INSTANCE JObjects WITH
  Ids <- Slots \ {0}, Null <- 0, Positions <- 1 .. StackSize,
  alive <- used \ {0},
  graph <- [s \in used \ {0} |-> [cj \in RefFields(s) |-> ptr[s].words[WordOf(cj)]]],
  held <- [p \in live |-> thStack[p]]
KeepsObjects == Objects!Spec

(* What the program holds is never freed, and so never handed out again:   *)
(* neither the collector nor the allocator takes a slot a live stack       *)
(* position refers to, in any frame.                                       *)
ProgramRefsAlive == \A p \in live : thStack[p] \in used

(* No object is left with a reference to a freed slot, which the next      *)
(* allocation would turn into a reference to a stranger.                   *)
HeapClosed == gcpc = "idle" => \A s \in {t \in used : ~IsArray(t)} : FieldRefs(s) \subseteq used

(* Slot 0 is null and nothing roots it: it stays allocated, to the mirror  *)
(* of java/lang/Object, only because a running method has the three zero   *)
(* words of jExecMethod on the stack.                                      *)
NullReserved == frames # << >> => 0 \in used /\ ptr[0] = Mirror(BootClasses[1])

(* A full heap with garbage that no stack word leads to has room for the   *)
(* request after a collection, and allocateObject returns, unless the walk *)
(* of the arrays overran the C stack.                                      *)
HasGarbage == \E s \in Slots : ~MayReach(s)
AllocationEnds ==
  \A d \in {"mirror", "cell"} :
    pc = "alloc" /\ dest.to = d /\ gcpc = "idle" /\ used = Slots /\ HasGarbage ~>
      pc # "alloc" \/ dest.to # d \/ gcpc = "crashed"
=============================================================================
