# Verification of JimpVM

TLA+ models of JimpVM, the Java virtual machine in the root directory of the
repository (`J_*.c`), and of the threads of its predecessor (`obsolete/`),
checked with TLC and proved with TLAPS. File names and line numbers below are
relative to the repository.

1. [The system](#1-the-system)
2. [The modules](#2-the-modules)
3. [The runs](#3-the-runs)
4. [The proofs](#4-the-proofs)
5. [What the checks found](#5-what-the-checks-found)
6. [What is not modelled](#6-what-is-not-modelled)
7. [What remains open](#7-what-remains-open)

## 1. The system

JimpVM runs one Java thread. Its parts, the state they keep and how they call
each other:

| Part | State | Operations | Calls |
|---|---|---|---|
| Heap and allocator, `J_Memory.c` | `vmHeap` (table of slots with `used`, `marked`, `ptr`), `vmhTop`, the extended stack | `allocateObject`, `freeObject`, `jExtPushObj`, `jExtPopObj`, `initializeHeap` | the collector, when no slot is unused |
| Collector, `J_Gc.c` | the marks; the recursion of the walk on the C stack | `jGC`: mark (`jGC_mark`, `jWalkObjectsFields`, `walkArray`), sweep (`jGC_sweep`) | `freeObject` |
| Interpreter, `J_Machine.c` | the thread stack (`thStack`, `thStackPtr`); `pc`, `var`, `stack` in C variables | `jExecMethod`: one `switch` over the opcodes; `main`: start-up | everything else; itself, for `<clinit>` |
| Class loader, `J_Class.c` | `globalHash`, the `J_Class` structures, static fields | `jGetClass`, `jGetClassByIndex`, the parsers, field lookup | the allocator (class mirrors), the interpreter (`<clinit>`), itself (superclasses) |
| Arrays, `J_Arrays.c` | the headers and bytes of array blocks | `createArray`, `createMultiArray`, `jCopyArray` | the allocator, the extended stack |
| Constants and lookup, `J_Misc.c` | - | `getConstant`, `createJavaStringObjectFromUtfString`, `jGetMethod`, `compatible`, `countParams` | the allocator, the class loader |
| Native interface, `J_Native.c`, `native/` | the table of native functions | `callJNIMethod`, `loadFile` | C functions; files |
| Threads of the obsolete machine, `obsolete/thread.c`, `locks.c`, `queues.c` | for each thread its list of locks; for each object a mutex, an owner, a wait queue; signals | `monitorenter`, `monitorexit`, `wait`, `notify`, `start`, `suspend`, `resume`, `stop`, the signal handler | the pthread library |

An object reference is the number of a slot of `vmHeap`. There are no types at
run time: a word of a stack (`J_Var`) is a union, and the collector takes every
word below `thStackPtr` or `exStackPtr` for a reference if it is a slot number.
References are therefore shared state between three actors that know little of
each other: the bytecode, the C routines of the machine that hold references
in C variables while they allocate again, and the collector.

**What is hard.** In the machine itself nothing runs concurrently, but a
collection may happen inside every allocation, so each routine that allocates
twice has a window in which its first object must be reachable from somewhere.
The mark phase is recursive and conservative; it must end on cyclic graphs,
lose nothing, and leave no mark behind. The allocator reuses slots, so a mistake
of the collector is not a crash but a reference to a stranger. Null is slot
number 0, which works only as long as nobody is handed slot 0. The class loader
re-enters itself and the interpreter in the middle of a load, and the
interpreter finds its frames again by pointers that each frame saved; an
exception leaves frames by another way than a return. The parser walks a file by
lengths it reads from it. The obsolete machine adds threads: signals that arrive
anywhere, recursive mutexes that are given up and taken again, wait queues
changed without a lock.

**What makes each part correct.**

- Collector: nothing the program can reach is freed; everything no stack word
  leads to is; it ends; no mark survives.
- Allocator: it returns a slot nobody uses, and returns at all.
- Machine: every reference the bytecode holds, in any frame, is an object that
  is still the one it was; a field is changed only where it is named; slot 0 is
  never an ordinary object.
- Interpreter: a call gives the callee its arguments and the caller back as it
  was; exceptions go to the nearest handler; frames do not overlap; switches go
  where the class file says.
- Class loader: the class in memory is the one in the file; a class is loaded
  and initialised once, after its superclass, and given out complete; a lookup
  finds what the class files say.
- Arrays: an access reads or writes the element it names and nothing else.
- Monitors of the obsolete machine: a thread is in the monitors it entered and
  in no others; `wait` gives up and restores every lock; no notification is
  lost; a stopped thread leaves nothing locked.

The complete list of hazards, each at its line and with the properties aimed at
it, is in `PROJECT.json`.

## 2. The modules

| Module | What it is |
|---|---|
| `JGc` | the collector over a heap: one action per loop iteration of `J_Gc.c` |
| `JGcProofs` | type correctness, the safety and depth of the mark phase and what the sweep leaves, proved |
| `JHeap` | `JGc` composed with the allocator, the start-up and the object instructions |
| `JObjects` | the abstract heap: objects with identity and fields, no slots, no collector |
| `JHeapProofs` | that the whole heap is well typed and slot 0 stays null, that array-free programs keep what they hold, and the refinement of `JObjects`, proved |
| `JFrames` | `jExecMethod` and its frames on the thread stack: calls, returns, exceptions, nested runs |
| `JCalls` | the abstract calls: a stack of activations, no words, no pointers |
| `JFramesProofs` | that the thread stack is a sequence of frames and what the handler search visits, proved |
| `JCallsProofs` | the refinement of `JCalls`, proved |
| `JLookup` | methods, fields, superclasses and casts, looked up in loaded classes and by the class files |
| `JClass` | `jGetClass`: the table of classes and the recursion that fills it (extends `JLookup`) |
| `JClassProofs` | that classes are loaded and initialised once, in order and given out complete, and the lookups, proved |
| `JFile` | the parser of class files, over an image of the file in memory |
| `JFileProofs` | that what the parser records is what the file announces, proved |
| `JSwitch` | `tableswitch` and `lookupswitch` |
| `JArrays` | array blocks as bytes: sizes, the array instructions, `jCopyArray` |
| `JArrayValues` | the abstract arrays: sequences of numbers |
| `JInstructionProofs` | that switches jump right and that array blocks implement `JArrayValues`, proved |
| `JMonitor` | threads, monitors, wait queues and signals of the obsolete machine |
| `JMonitorProofs` | that list, mutex and nesting agree for every thread and that who pauses is queued, proved |
| `MCGc`, `MCHeap`, `MCFrames`, `MCClass`, `MCMonitor` | the instances TLC checks |
| `MCParts` | the composition of `JFile`, `JSwitch` and `JArrays`, and its instance |

How the models meet where the code does: an allocation of `JHeap` contains the
steps of `JGc`; the static initialisers that `JClass` starts are the entries
that `JFrames` nests in the middle of an instruction; what `JFile` finds in a
class file (methods with their `maxLocals` and exception table, fields in their
order, the pairs of a switch) is what `JFrames`, `JGc` and `JSwitch` are
parameterised by. Each takes the other's result as any value that the other can
yield, so the parts are checked apart; a product of all of them would be beyond
what TLC can explore.

### JGc

The state is the heap (`used`, `marked`, `ptr`, `vmhTop`), the value cells of
the field tables (`fvar`), the two stacks, and the state of the collector:
`gcpc` (idle, mark, sweep, or crashed), `root` (the loop of `jGC_mark`),
`calls` (the activation records of the recursion) and `hand` (the loop of
`jGC_sweep`).

| Action | Code |
|---|---|
| `StartGC` | the call in `allocateObject`, with every slot in use |
| `MarkRoot` | one iteration of `jGC_mark` |
| `WalkField` | one iteration of `jWalkObjectsFields` |
| `WalkElement` | one iteration of `walkArray` |
| `Return` | the end of a walk, with the `MARK`s its caller executes next |
| `FinishMark`, `Sweep`, `EndGC` | the rest of `jGC`; `Sweep` is one iteration of `jGC_sweep` with `freeObject` |

Three details of the code are kept because much depends on them:

- An object is marked *before* it is walked, an array *after* - by whoever
  walks it, and inside `walkArray` after each element. So `ret` of a record
  says which slots are marked when it returns.
- `jWalkObjectsFields` looks at the first `numVars` entries of the field table,
  but `numVars` counts the instance fields only. The cell `var` of an entry is a
  union of an offset, a constant and a static value. `ReadField` yields what is
  at the offset, or any word if that is outside the block - which also covers
  the mirror of a class, allocated when `numVars` was still 0.
- `walkArray` passes over elements that are arrays.

*Abstractions.* A word is a slot number or one value for all words `IS_OBJECT`
rejects. Field names, descriptors and flags are reduced to whether a field is
static or constant and whether it is a reference. The C stack holds `MaxCalls`
activation records; beyond them the process is dead (`crashed`). A `J_Var` and
a `J_Object` are both four bytes, as on the 32-bit targets the code is
written for.

### JHeap

The allocator, and around it all that allocates. `pc` says whether `main` is
starting up, an allocation is in progress, the program runs or has ended. An
allocation is a request (`req`, what for in `dest`) and one of `Allocate`,
`AllocateCollects` followed by the steps of `JGc`, so that a collection can be
observed in every window between two allocations: of a mirror and its object,
of a char array and its String, of the parts of a multi-dimensional array, and
of the array of arguments and the arguments in `main`.

A frame is three saved words, the locals and operands (which the collector does
not tell apart), and two pointers, as `jExecMethod` lays it out. New frames keep
what the stack held before; only `live` positions may be used by the bytecode,
for the class file format forbids to read a cell that was not stored to.

`getfield` and `putfield` name a field of the object's class or of one it
inherits from (`NamedFields`; `Supers` gives the superclasses whose fields the
program uses), and take the word at the offset of that field, whichever class
counted it. If the word is outside the block the access is `FieldBeyond`, and
`pc` is `corrupt`: it meets memory of something else.

*Abstractions.* Loading a class is the allocation of its mirror; what else
`jGetClass` does is `JClass`. Classes not loaded at start-up are loaded by `new`
only. What happens after `corrupt` is not followed. The words that the routines
of several allocations write beyond the end of a block, when it is no longer the
one they allocated, are dropped.
Invoke passes one argument; the rest of the frames is `JFrames`.

### JObjects

What the heap promises: an object comes into being with null fields, changes
only where the program writes it, and may be reclaimed once it cannot be
reached. Its fields are those of the class and the inherited ones, each with a
value of its own: a class together with an index names a field. `JHeap`
implements it under the mapping of `Objects` (`alive` is the slots in use apart
from slot 0, `graph` their reference fields as far as they are in the block,
`held` the live stack positions), for programs without arrays and static fields
that use no inherited field in a word of the object's own, and until one uses a
field behind the block. Outside of this it does not, see section 5: the block
has room for the own fields only, so that an inherited field is always in one of
the two places.

### JFrames

`vmStack` is the thread stack word by word: each word says what it is (a value,
a saved pc, var or stack pointer, a method or class word, a zero, or junk left
from before). `regs` and `base` are the C variables of the running
`jExecMethod`, `nest` those of the suspended ones, `at` what comes next:

| `at` | meaning |
|---|---|
| `main` | `main` is running, before, between and after its calls |
| `step` | the next instruction |
| `search` | in the handler search of `athrow`, `exc` and `k` being its variables |
| `exit` | `GENERATE_EXCEPTION`: the machine ends the process |
| `overrun` | an operand was written over the method word of the frame |
| `wild` | memory behind an exception table was taken for a handler, or a handler for any exception (`AnyClass`, `catch_type` 0) for one of the class that memory behind the constants names |
| `beyond` | the arguments of `main` were written beyond the thread stack |

The code of a method is not given: at every pc any instruction may stand that
the format allows there. To know what it allows, `depths` counts the operands of
each frame as a verifier would. The instructions are one action per group with
the same effect on the frame (`Const`, `LoadLocal`, `StoreLocal`, `IInc`,
`StackMove`, `Arithmetic`, `Consume`, `Branch`, `Jsr`, `Ret`, `RuntimeError`);
calls are `Invoke`, `InvokeNative` (`callJNIMethod` with its frame of another
layout), `MethodReturn`, `RunMain` and `RunStaticInit`, which may come before
every instruction and every handler that is looked at; exceptions are `Athrow`,
`SearchHandler` (an iteration of the search, with the stride the code has) and
`Unwind`.

*Abstractions.* `pc` counts instructions. Values are model values. Wide
variants are the narrow ones. `thStackPtr -= vmStack[--thStackPtr]`, the pop of
a native frame, has an unspecified order in C; the model has the order gcc
compiles it to. What happens after `overrun`, `wild` and `beyond` is not followed.

### JCalls

What calls promise: an instruction touches the top activation only, a call moves
the arguments, a native call takes them and leaves its result, a return gives
back the caller as it was, an exception drops activations one by one and leaves
the one that catches it nothing but the exception on its operand stack, and no
result and no exception leaves an activation that the machine entered itself.
Which activation catches is not said here: `Catch` and `Unwind` are both open
to one that has handlers, and what the search does with a table is left to
`ShortTablesSearched`.
`JFrames` implements it: `Activations` reads the activations off the stack by
following the saved pointers as returns would, so a pointer that is off by one
shows as a caller with other locals or operands. The variable `acts` holds them,
for the abstract module to be instantiated with a variable.

### JLookup and JClass

`classes` is the table of classes in the order of insertion: name, how much of
the file is parsed, superclass. `calls` is the C stack of everything that waits
for a class: `main`, bytecode that executes an instruction naming a class or
searches a handler, `jGetClass` waiting for its superclass or for its
`<clinit>`. `control` is what `jGetClass` is asked or returns. The actions
follow the path of `jGetClass`: `FoundInTable`; the failures that keep nothing
(`NoMemory`, `NoFile`), that end the process (`NoMirror`) and that leave the
class in the table (`HalfLoaded`); `Parse`, which puts the class in the table
and asks for the superclass; `SuperReturned`, which links it and starts the
`<clinit>`; `CodeUses`, `CodeResumes`, `CodeReturns` for Java code, whose uses
come in any order; `MainLoads`, `MainResumes` for `main`.

`JLookup` has `jGetMethod`, `jGetField`, `compatible` and the index lookup of
`instanceof` and `checkcast` over this table, and beside each the same by the
class files alone (`Declarer`, `Supertypes`).

*Abstractions.* A class file is what the loader uses of it. Whether a
superclass is there is told by `superClass`, which stands for `superClass` and
`numberSuperClasses` together: they are assigned together. A structure that was
allocated but never put into the table is leaked memory and has no state here.
A `<clinit>` ends; its exceptions and errors do not come back to `jGetClass`,
which ignores the result.

### JFile

`classmem` is the file in memory: a map from offsets to the items that the
format puts there, computed from `file`, the class as it was compiled, with the
sizes of the format. `p`, `i`, `j`, `k` are the variables of the parsers, `jc`
the class structure, `stage` which loop runs. Each action is an iteration:
`jLoadClassConst`, `ParseHead`, `jParseInterfaces`, `ParseField`,
`ParseFieldAttribute`, `ParseMethod`, `ParseExceptions`, `ParseCode`,
`ParseCodeAttribute`. A read that does not hit an item of the expected size, or
a count or length that is no number (access flags are sets here), is
`Misread`: the parser is `lost` and anything may follow. The interesting part is
that the parser skips what it does not know by rules of its own, so the model
knows both the format (`Items`) and the parser, and they agree only if every
skip is right.

*Abstractions.* Strings the parser does not look into are single characters;
numbers are not split into bytes. Hash codes of native methods stand for names
and descriptors and are taken to be distinct.

### JSwitch

`TableSwitch` is one step; `LookupSwitch` sets up the bisection and each
`Search` is one iteration of its loop. The operands are 32-bit words laid out as
the class file format has them, at the first multiple of four; the model
computes the padding as the code does. A read elsewhere yields `Junk`. `Target`
is the reference definition, read off the format and not off the code.

### JArrays and JArrayValues

An array is its type, the length in its header, and the bytes of its block.
`createArray` computes the size of the block modulo the word, as `arraySize`
does; `Load` and `Store` compare the index with the stored length and access
bytes at the stride of the instruction, which is `VarSize` for int and
reference elements; `jCopyArray` checks its bounds modulo the word and copies
bytes, of overlapping parts from either end (`Upwards`, `Downwards`: going up,
bytes that were copied onto the rest of the source are copied again, so that the
part before the destination repeats itself). An access outside the block is
`corrupt`; an access through null or with an index out of bounds is a fatal
error (`GENERATE_EXCEPTION`), the process is `over`. `JArrayValues` is the
promise: an array is a sequence of numbers in the range of its type, a `char`
being 0 or more, an access concerns the element it names, a copy is made or
refused. It is a promise
about arrays whose size 32 bits can hold and copies that start inside the array;
about others it says only that they change no other array as long as memory is
not corrupt.

*Abstractions.* A word has `Word` values and a byte `Byte`: both are constants,
small enough that sizes wrap around within the instance. References are numbers
here.

### JMonitor

A step is one call of the pthread library or one access to what threads share,
so that every interleaving of two threads inside `monitorenter`, `monitorexit`,
`wait` and `notify` happens. `pc` says where a thread is in them; `locks` is its
private list, `owner` and `count` the recursive mutex, `towner` the owner field,
`next`, `th` and `free` the wait queues in memory that is freed and handed out
again; `pending` and `stopped` the signals; `Gthread` the one variable that tells
the signal handler whose locks to release. `depth` is what the Java code means:
how often it has entered each monitor. `raced` and `killedAt` record what has
happened, for the properties; no action reads them.

| Actions | Code |
|---|---|
| `AddLock`, `MutexLock`, `SetOwner` | `monitorenter` |
| `RemoveLock`, `MutexUnlock` | `monitorexit` |
| `Wait`, `AppendNode`, `Release`, `MarkReleased` | `wait` up to `pause()` |
| `FindNode`, `Unlink`, `Restore`, `MarkRestored` | `wait` after it |
| `Notify`, `NotifyNode`, `Advance` | `__notify_all_threads_for_obj` |
| `Start`, `Exec`, `Ends`, `Suspend`, `Resume`, `Stop`, `FreeThread`, `UseFreed` | the life of a thread |
| `HandleStop`, `HandleCont`, `HandleKill`, `KillStep` | the signal handler, with `remove_all_locks` |

*Abstractions.* Java programs are legal: they leave monitors they are in. Memory
that was freed still has its contents or has been overwritten, and then anything
may happen (`wild`). The pthread and signal functions are external: a recursive
mutex that refuses to be unlocked by others, signals that are pending once.
`pause()` returns after any handler. Priorities, `sleep` and `yield` have no
state another thread reads.

### MCParts

`JFile`, `JSwitch` and `JArrays` have no variable in common, so one run checks
all three: a behaviour parses one of the class files, then executes one of the
switches, then works on arrays. Every class file goes with one switch and every
switch with one class file.


## 3. The runs

| Run | Question | Bounds |
|---|---|---|
| `gc` | Does one collection free only what it may, reclaim all garbage, leave no mark, end? | every heap of 4 slots: objects with one reference and one int, an object without fields, a mirror, arrays of objects of length 0 and 1, of arrays and of plain values; a thread stack of one word, an extended stack of none or one |
| `heap` | Does the slot table implement the abstract heap, across method calls too? | 4 slots, 2 frames of 2 cells; a class with a reference field that inherits a constant and a number field, and the number lies behind its block; new, copy, getfield, putfield, invoke, return |
| `heap_arrays` | Does the table stay well formed when arrays, strings, statics and argument arrays are lost? Does an allocation end if there is garbage, and every collection if arrays form no cycle? | 5 slots, one argument, one frame of one cell; a class with a static and a class with an instance field; new, every array and String instruction, getstatic, putstatic, overwrite |
| `frames` | Are the frames on the thread stack the activations of the abstract calls? | a main method with two handlers (one of a class that cannot be loaded), a method with an argument, a result and a handler for any exception, a native method, a static initialiser; 2 and 20 arguments of `main`; a stack of 21 words |
| `classes` | Is every class loaded and initialised once, in order, given out complete, and looked up right? | 7 class files: `Object`, a chain of three whose initialisers use each other, an interface, two classes that are each other's superclass; a class without a file; one failure anywhere |
| `parts` | Is every class file read as it was compiled? Do switches jump to the case of the key? Do arrays behave as arrays? | pools with constants of every kind, up to 2 interfaces, 2 fields, 2 methods with every combination of attributes; 7 keys, up to 5 pairs, all ranges, all alignments; 2 arrays of short and int, lengths, indexes and copies at both ends of the array and of a word of 64 values |
| `monitor` | Do list, mutex, owner, queue and the nesting of the Java code agree, under any interleaving, signals and stops included? What does a stopped thread leave locked? | 2 threads, 2 objects, 2 queue nodes, two monitors entered at a time, or one twice, two stops; after the second stop, or a stop of the main thread, one object where nobody waits, and no suspension (`MCBound`) |
| `gc_stack_arrays`, `gc_statics`, `frames_handlers`, `classes_fields`, `monitor_notify` | claims of comments that do not hold, section 5 | as small as the counterexample |

*Why the bounds are enough.*

- Four slots are one for null and three for a chain or a cycle with a branch.
  The mark phase decides on a record and its neighbours, so a chain of three
  with every kind of block in every place shows each pair of routines calling
  each other; the proof then covers all sizes. In `gc` every full heap is an
  initial state, reachable or not, so the bound is on size only. The programs
  of `heap` run through any number of collections, and its stack holds a
  suspended frame. The five slots of `heap_arrays` are the least where a free
  slot lies before one in use that lies before another free one.
- The start-up of `heap` and `heap_arrays` allocates three or four slots; a
  heap that cannot hold what `main` allocates never gets to run a program.
- 21 words hold `main`, a callee and a static initialiser on top of each other
  and are too few for a fourth frame, so that `FrameFits` decides both ways. A
  frame only depends on the one below it.
- Three classes in a chain are the least where a class in the middle is
  superclass and subclass; the initialisers use classes above and below
  themselves, in every order. One failure is put at every point of every load.
- Two fields and two methods show each kind after each other kind. Five pairs
  give the bisection three levels and both parities. Lengths of 31 elements
  exceed the word of 64, those of 3 do not.
- Two threads are what the code of a monitor distinguishes (itself and
  another); two objects are needed for nested monitors, and a node per thread
  for a queue in which one is unlinked while the other is appended. One stop at
  every point of the life of a thread, and two in every order with the two
  handlers, which share `Gthread`; the proof covers any number of all of these.

*Fairness.* Fairness is assumed only of C code that has nothing to wait for.

- `HeapFairSpec` assumes weak fairness of `Allocation`: inside `allocateObject`
  there is one C thread, so it takes its next step. None is assumed of the
  bytecode.
- `PartsSpec` assumes it of the parser and of the one switch instruction, for
  the same reason.
- `ClassFairSpec` assumes it of all steps: loading is one C thread, and the
  static initialisers and `main` have a finite number of uses of classes each.
  So `LoadsEnd` is about the recursion of `jGetClass` and not about Java loops.
- `MonitorFairSpec` assumes it of what a thread does on its own inside the
  primitives (`Continue`) and of the delivery of signals (`Handler`), thread by
  thread, as POSIX schedules them. Java code is not fair: nobody has to notify.

`CHECK_DEADLOCK FALSE` is set because collections, programs, loads and threads
really end, or pause.

*Properties.* There is one type invariant for each module (`TypeOK`,
`HeapTypeOK`, `FramesTypeOK`, `ClassTypeOK`, `FileTypeOK`, `SwitchTypeOK`,
`ArraysTypeOK`, `MonitorTypeOK`). Some say more than types: `FramesTypeOK` that
the thread stack never exceeds its size, `FileTypeOK` that `numVars` counts the
instance fields, `ArraysTypeOK` that the block of an array has room for the
length in its header. The others:

Heap and collector

- `SparesAccessible`: what is reachable along the references the collector
  means to follow is not freed. `Follows` says which ones these are; arrays in
  arrays are not among them, nor is an array that only a stack refers to, unless
  it has an element that is an object or null.
- `ReclaimsGarbage`: what the sweep leaves in use can be reached from a word of
  a stack, misread words included.
- `MarkInvariant`: the tricolour invariant of this collector. A marked object
  is being walked or all it refers to is marked; a record has marked, or its
  caller is about to mark, whatever it has passed.
- `MarksClear`: no mark is left when the collector is idle.
- `CrashNeedsElementCycle`, `CollectionEnds`: the recursion is bounded, and
  ends, unless an array of objects can be reached from one of its own elements.
- `ProgramRefsAlive`, `HeapClosed`: no reference the program has, or can read
  from a field, is to a freed slot.
- `NullReserved`: slot 0 stays the mirror of `java/lang/Object`. Nothing roots
  it but the three zero words `jExecMethod` writes below the outermost frame.
- `KeepsObjects`: the refinement of `JObjects`, up to an access behind a block.
- `AllocationEnds`: with a slot that no stack word leads to, an allocation in a
  full heap comes back.

Frames

- `ImplementsCalls`: the refinement of `JCalls`.
- `FramesAdjacent`: the frames follow one another without gap or overlap, each
  with its method and class at its end, nested runs included.
- `OverrunNeedsCatch`: an operand stack overruns its frame only by what caught
  exceptions left under the handler's operands. (`athrow` does not empty the
  operand stack, so this does happen.)
- `ShortTablesSearched`: tables of one or two handlers are searched in order and
  completely; memory beyond a table is read for longer ones only, and memory
  beyond the constants for handlers of any exception only.

Classes

- `LoadedOnce`: a class is in the table once, its `<clinit>` is started once.
- `GivenOutComplete`: `jGetClass` gives out an incomplete class only to code
  that runs inside its load, or after an error in it.
- `SuperFirst`: the `<clinit>` of the superclass has been started before that of
  a class, unless the load of the superclass is still waiting below. (A class
  that names itself as superclass runs its own `<clinit>` only.)
- `MethodsRight`: once the loads of a class and its superclasses have ended, a
  method is found in the class the class files say.
- `CastsSound`: a cast or an `instanceof` that succeeds has found one of the
  supertypes of the object. Which one is a question to the constant pool of the
  object's class: the code looks the index up there (section 5).
- `LoadsEnd`: loading ends, for superclasses in a cycle too.
- `ParsesRight`: a file with the constants and attributes the parser is made for
  (`Plain`) is read to its end, and the structure is the class that was
  compiled.

Switches and arrays

- `JumpsRight`, `SwitchEnds`: the switches.
- `KeepsValues`: the refinement of `JArrayValues`, for the types of the run,
  short and int. Arrays of char do not keep it (section 5).

Monitors

- `HoldsWhatItEntered`: whenever a thread runs Java code, its list, the mutex and
  the nesting of the code agree on every object, unless the signal handler of
  another thread has released its locks (`Robbed`): `Gthread` is one variable,
  and a second stop changes it before the first handler may have read it.
- `OwnerKnown`: the owner field names the thread in the monitor, until a thread
  is stopped: the signal handler clears the owner of locks the thread was only
  waiting for.
- `PausedQueued`: a pausing thread holds nothing of the monitor and is in the
  queue, unless two threads were at work on one queue at once (nothing locks
  the queue: a node can be lost) or it was robbed.
- `OnlyNestedWaitsHang`: the loops of `wait` over the list of locks run for ever
  only if the thread is in a monitor of another object.
- `StoppedLeaves`: a stopped thread leaves no mutex locked, unless the signal hit
  it between the list and the mutex or the stops overlapped.

Each property was seen to fail on a change of the model that a plausible bug of
the code would make; these operators are marked `mutant`.

## 4. The proofs

**The collector** (`JGcProofs`), for every number of slots, every set of
classes and field tables, every heap and stacks:

| Theorem | Statement |
|---|---|
| `GcTypeCorrect` | `GcSpec => []TypeOK` |
| `GcMarksClear` | `GcSpec => []MarksClear` |
| `GcMarkInvariant` | `MarkInvariant` always holds, if classes declare their static fields last |
| `GcSparesAccessible` | `SparesAccessible` always holds, under the same condition |
| `GcReclaimsGarbage` | `GcSpec => []ReclaimsGarbage` |
| `GcCrashNeedsElementCycle` | `CrashNeedsElementCycle` always holds, if the C stack has room for more than `HeapSize * (HeapSize + 1)` records |

`MarksClear` needs to know that marks are only ahead of the sweep
(`MarksAhead`). `SparesAccessible` is not inductive: a freed object would
violate it only at the end. The invariant that carries it is `MarkInvariant`,
which says of each activation record (`RecordOK`) that all it has passed is
marked or is to be marked by the record above, and of the whole (`ScanOK`) that
marked slots that are no longer being walked have all their references marked
and that the roots already passed are taken care of. When the recursion is
empty this says that the marks are closed under `Follows` and contain the
roots, hence contain what is accessible. The lemmas follow the loops: a call
pushes a record, an iteration advances one, a return hands its marks over.

`ReclaimsGarbage` rests on `ReachInvariant`: every record walks something a
stack word leads to, so nothing else is ever marked, and the sweep keeps only
what is marked. `CrashNeedsElementCycle` is a
pigeonhole argument. `DepthInvariant` says how each record came to be on the
stack: fresh walks, whose object the caller has just marked, are on it once for
each slot; between two fresh ones only arrays and their elements alternate. With
more than `HeapSize * (HeapSize + 1)` records two records of such a stretch walk
the same array, and the slots between them are an element cycle
(`DeepWalkCycles`). The theorem has that number as hypothesis, for a heap
without cycles may overrun a smaller C stack; `MCGc.cfg` has a smaller one, so that
the crash happens, and no heap of its shapes needs more.

The hypothesis `StaticsLast` is not a convenience: without it the theorem is
false, because offsets number instance fields and the loop indexes all fields
(section 5).

**The heap at work** (`JHeapProofs`), for every size of heap
and stack, all classes, programs and collections, at every step of each:

| Theorem | Statement | If |
|---|---|---|
| `HeapTypes` | `HeapSpec => []HeapTypeOK` | `InheritedAgree` |
| `HeapNullReserved` | `HeapSpec => []NullReserved` | `InheritedAgree`, `BootFits` |
| `HeapSparesHeld` | `HeapSpec => []ProgramRefsAlive` | `InheritedAgree`, `BootFits`, `StaticsLast`, `ArrayFree` |
| `HeapStaysClosed` | `HeapSpec => []HeapClosed` | the same |
| `HeapKeepsObjects` | `HeapSpec => KeepsObjects` | the same, `InheritedApart` and `NumArgs = 0` |

The hypotheses are about the program and its heap. `InheritedAgree` and
`InheritedApart` are about the inherited fields it uses. Their offsets were
counted in another class, so they may be those of own fields of the object:
`InheritedAgree` says that in such a word both are references or both are not,
`InheritedApart`, which is stronger, that there is no such word and the field is
behind the block. Where a number and a reference share a word, a number can be
used as a reference: in the instance of `heap`, with a number as first
field of the superclass, TLC finds `HeapClosed`, `ProgramRefsAlive` and
`KeepsObjects` violated; with a reference there, so that the fields agree, it
finds only `KeepsObjects` violated, as a write to one field changes another.
(`HeapTypeOK` and `NullReserved` hold in both cases. Their proofs need
`InheritedAgree` because the invariant has it that what is used as a reference
is a slot number.) And `KeepsObjects` says nothing of the time after a field
behind a block was used.

The other theorems are false without the other hypotheses: `BootFits` is room for what `main` allocates before the program
runs (else `allocateObject` collects with nothing on the thread stack, frees
slot 0, and hands null out); `StaticsLast` as above; `ArrayFree` is a program
whose instructions create no arrays and strings and use no static fields,
because arrays on the stack, arrays in arrays and objects in static fields are
lost (section 5). An argument of `main` is a String that refers to its
characters from the start, which `JObjects` does not promise of a new object;
hence `NumArgs = 0` in the refinement. The instance of the run `heap` satisfies
all of them.

1. `HeapTypeInvariant` adds to `HeapTypeOK` what keeps it: wherever the machine
   takes a word for a reference - fields, elements, static fields, live stack
   positions, the extended stack - it is a slot number (`RefsAreSlots`); frames
   lie on top of each other, so that a return drops whole frames (`FramesOK`);
   and an allocation knows where its result goes (`DestOK`). A lemma for each
   instruction says what it does to the stack (`InvokeEffect`, `ReturnEffect`,
   `PutRefStep`) and one for every block that it stays a block (`StoreType`).
2. `BootInvariant` counts what `main` has allocated: the table fills from slot 0
   and is never full, so start-up never collects. `NullInvariant` takes over
   with the first frame: its first word is 0, hence a root, hence slot 0 is
   marked when the roots have been scanned and is not freed by the sweep.
3. `RefsInvariant` says why nothing that is held is lost: there is a set of
   slots (`Closed`) that contains null and what the live positions hold, has no
   array in it, is closed under the fields, and stays in use. `Staying` is the
   slots in use that the sweep will not free. The set exists at every step: an
   allocation adds its slot; a store adds nothing, because what the program
   stores it held; and when marking ends, `MarkInvariant` of `JGc` shows that
   the marked slots of the set are such a set again (`StayingStep`,
   `RefsCollect`).
4. For the refinement, `GraphIs` reads the abstract graph off the blocks, and
   `ReachFacts` shows that what the program can use is reachable and that the
   reachable is inside every closed set - so the sweep, which frees nothing of
   `Closed`, reclaims nothing reachable. `ObjectsStep` then maps each action:
   an allocation is `Create` (or, of slot 0, nothing), `putfield` is `Write`, a
   freeing iteration of the sweep `Reclaim`, an instruction that moves
   references `Use`, and all else a stutter. `StackFits` bounds the positions.

**The frames** (`JFramesProofs`, `JCallsProofs`), for any methods and exception
tables, all code the class file format allows, every order of instructions,
calls, nested runs, returns and exceptions, and every size of the stack:

| Theorem | Statement |
|---|---|
| `FramesTypes` | `FramesSpec => []FramesTypeOK` |
| `StackIsFrames` | `FramesSpec => []FramesAdjacent` |
| `OnlyCatchesOverrun` | `FramesSpec => []OverrunNeedsCatch` |
| `ShortTablesAreSearched` | `FramesSpec => []ShortTablesSearched` |
| `FramesImplementCalls` | `FramesSpec => ImplementsCalls` |

1. `FramesAdjacent` is about `Regs`, the registers that the returns will
   restore one after the other. That is a recursive function over pointers read
   from the stack, so nothing can be said of it before the stack is known to
   make sense. The inductive invariant `FramesInv` therefore says that there is a
   sequence `F` of registers (`Frames`): the last are those of the running
   `jExecMethod`; each has its operands between its locals and its method word
   and its class at its end (`InFrame`); each is what a return from the one above
   restores, off the stack or, for the first frame of a nested run, from the C
   variables of the `jExecMethod` below (`Below`); each starts where the one
   before it ends. Only the method may have more operands than the format
   counts that has handlers, and then it is those that overrun.
   `RegsAre` shows that `Regs` is this sequence.
2. What a step does to the sequence is one of three things, and each is a lemma
   about all of them: the top frame changes (`TopChanges`), a frame is put on
   top (`FramePushed`), frames are dropped (`FramePopped`). For each action
   there remains where it writes. Most of the work is in `Invoked` (the
   arguments stay where they are and become locals in the middle of the new
   frame), `MethodReturns` and `NativeReturns` (a result is written over what
   was the frame), and `PushKeeps` (an operand beyond the end).
3. `SearchInv` is the invariant of the search, for the running `jExecMethod` and for
   each that a static initialiser interrupted in the middle of one.
4. For the refinement `ActsInv` says that `acts` is what the frames amount to
   (`ActsOf`), which is `Activations` without the recursion (`ActsAre`).
   `ActsBelow` is what makes calls and returns work: if the stack, the C stack
   and the counts of operands agree below a frame, so do the activations there.
   A lemma for each group of actions maps it: an instruction is `Compute`
   (`EffectStep`, `SetLocalStep`), `Invoke` is `Call` (`InvokeStep`), a native
   call `CallNative` (`NativeStep`), a run of `main` or of a static initialiser
   `Enter` (`EnterStep`), a return `Return` (`CalledReturn`, `LeaveStep`), a throw,
   a handler found and a frame left are `Throw`, `Catch` and `Unwind`, and an
   iteration of the search that finds nothing a stutter.

**The parser** (`JFileProofs`), for every set of class files, those the parser is
not made for included: `FileTypeCorrect`, `FileSpec => []FileTypeOK`. The
invariant `FileInv` says for each stage how many constants, fields and methods
are recorded (`Progress`), that attributes are left while attributes are read, and
that `numVars` counts the fields that are not static (`ClassOK`). It does not
depend on what is where in the file: a step that would read a count which is not
there is a `Misread`.

**The switches** (`JInstructionProofs`), for every table of the class file format,
every key and alignment: `SwitchTypeCorrect` and `SwitchJumpsRight`. The
inductive invariant `SwitchInv` adds that all pairs with the key lie within the
bounds of the search (`SearchOK`); `Alignment` shows that the padding the code
computes leads to the first multiple of four, `ReadPair` that the code reads
the pairs where they are.

**Arrays** (`JInstructionProofs`), for every width of words and bytes, all types
and whatever lengths, indexes, starts and counts the program uses:

| Theorem | Statement |
|---|---|
| `ArraysTypeCorrect` | `ArraysSpec => []ArraysTypeOK` |
| `ArraysKeepValues` | `ArraysSpec => KeepsValues`, if no array is of char, and `VarSize = 4` or no array has int, float or reference elements |

The invariant `ArraysInv` is `ArraysTypeOK` with what an instruction names: arrays
that exist, of types that have instructions. `ArraySizes` shows that the size
of a promised array does not wrap around. `ArraysKeepValues` is the refinement of
`JArrayValues`, one lemma for each instruction (`CreateStep`, `LoadStep`,
`StoreStep`, `LengthStep`, `CopyStep`). It rests on what bytes mean: a number
written into a block is read as what fits in it (`Encoded`, from `Digits`), and
an element depends on its own bytes only (`SameBytes`). `Decode` adds the bytes up
by recursion over at most eight of them; its sums are dealt with one by one
(`SumsAre`), and that they exist (`SumsExist`) by the least place where there are
none, without an induction theorem. For a copy, `OrderlyBounds` shows that the checks of `jCopyArray` do not
wrap around if the starts and the count are not negative and both arrays are as
promised, and `MovedFrom` that `memcpy` moves every byte to its place from
either end, where source and destination do not overlap. Without the hypothesis
on char an element is read with the sign it does not have; the one on
`VarSize` is needed too: with `J_Var`s of eight bytes the instructions go to elements
of four bytes as if they were eight bytes apart (section 5); `StridesFit` is what
the proof uses of it. `ArraysTypeCorrect` needs no hypothesis: an access that
misses the block is `corrupt` there and does not write.

**The loader** (`JClassProofs`), for every set of class files (classes that are
each other's superclass and files that do not exist included), every use of
classes by static initialisers and any number of failures:

| Theorem | Statement |
|---|---|
| `LoadTypeCorrect` | `ClassSpec => []ClassTypeOK` |
| `LoadLoadedOnce` | `ClassSpec => []LoadedOnce` |
| `LoadGivenOutComplete` | `ClassSpec => []GivenOutComplete` |
| `LoadSuperFirst` | `ClassSpec => []SuperFirst` |
| `LoadCastsSound` | `ClassSpec => []CastsSound` |
| `LoadMethodsRight` | `ClassSpec => []MethodsRight` |

`LoadedOnce` is not inductive: that a `<clinit>` starts once follows from the C
stack, where a load that waits for the superclass is the only one of its class
and its `<clinit>` has not been started (`WaitsOnce`). That holds because a load
starts only for a name that the table does not have (`NamesOnce`, and
`FoundRight` about the search of the table). `CompleteInTime` says of every
class of the table that it is complete, waits, or met an error, which gives
`GivenOutComplete`. The rest of `LoadInv` is the shape of the stack: `main` at
the bottom and nowhere else, so that whatever `jGetClass` and code pop is
theirs. `OthersKeep` deals once and for all with the steps that leave waiting
loads alone.

`SuperFirst` needs to know that a load which waits is answered what it has asked
for: `OrderInv` says of each waiting load that the one above it loads its
superclass (`CallOK`), of the call and return under way that they carry that
name (`AskedOK`), and of the table that every class is linked to the class its
file names (`SupersOK`). When a `<clinit>` starts, the superclass is then in the
table, and its own was started or is waiting below.

`CastsSound` and `MethodsRight` compare lookups that are recursive along the
superclasses. The recursion is a function over 0 .. the size of the table, and
`Unrolled` says of any such function that it is the orbit of a step; from there
the proofs go by the least index that disagrees. For casts, everything in the
orbit of a class is in every set that is closed under `Above`, hence among the
supertypes (`ReachedStays`); this needs no assumption on the class files, which
may name each other in a cycle. For methods, `AncestorsDiffer` shows that the
ancestors of an acyclic class are distinct, so that there are no more of them
than there are names and the function reaches the last; `ChainFollows` that the
chain of the loaded classes has the same names and ends where they end.

**The monitors** (`JMonitorProofs`), for any number of threads, objects, queue
nodes and stops, all programs and every order of steps and signals:

| Theorem | Statement |
|---|---|
| `MonitorTypes` | `MonitorSpec => []MonitorTypeOK` |
| `MonitorsHeld` | `MonitorSpec => []HoldsWhatItEntered` |
| `WaitFindsOwner` | `MonitorSpec => []OwnerKnown` |
| `HangsAreNested` | `MonitorSpec => []OnlyNestedWaitsHang` |
| `StopUnlocks` | `MonitorSpec => []StoppedLeaves` |
| `PausersAreQueued` | `MonitorSpec => []PausedQueued` |

All but the last follow from one inductive invariant, `MonitorInv`. List, mutex and
nesting differ while a call is under way, so the invariant says for each phase
of `monitorenter`, `monitorexit` and `wait` by how much (`Agrees`), for one
thread and one object at a time: a thread is in the phase of its call for the
object of that call and in `"run"` for all others (`Phase`). Of a robbed thread
less is true: its list never has an object oftener than the thread is in its
monitor, and a lock is marked as released exactly while the thread is in the
middle of a `wait` (`Listed`); this is what makes the steps of the other
threads' handlers keep the invariant, and all that `OnlyNestedWaitsHang` needs.
`OwnerOK` adds who is said to be the owner. The lemmas: what the operations on
a list without repetitions do to every entry (`Appended`, `Changed`, `Removed`),
that no two threads hold a mutex (`HeldOnce`), and that the steps of one thread
keep what is said of the others (`OthersStay`, `Step`).

For `PausersAreQueued` the invariant `QueueInv` says what the pointers amount
to, as long as no two threads have been at work on one queue (`raced`): there is
for each object a sequence of nodes, none of them free and none in two places,
that `next` leads along (`Queues`, `Chain`, `Apart`); who looks for a place in
it has found the last node, or its own and the one before (`Placed`); who waits
is in it. The sequence exists again after each step: `AppendKeeps` adds a node
at its end, `UnlinkKeeps` takes one out of the middle, and `QueueChanges` deals
with what both leave alone; `QueueIs` shows that the walk along the pointers,
which has at most as many steps as there are nodes, yields this sequence.

Assumptions: `HeapAssumption`, `ClassAssumption` of `JGc` (a heap has a slot,
the C stack a record, a field table is a finite sequence), `MutatorAssumption`
of `JHeap` (`main` loads a class; the only reference of a String is its first
word, its characters; new arrays of references are zeroed; stale words are
words; the inherited fields are those of classes),
`FramesAssumption` (the stack has a word; `main` has at least its program's name
and a local variable for its argument; `catch_type` 0 is no class;
an exception table is a finite sequence of handlers, and a method with one has
room for the operand a handler starts with; the parameters of a bytecode
method are among its locals),
`SwitchAssumption` (the operands are those of the class file format: sorted
pairs, ranges that are not empty), `ArraysAssumption` (null is no reference, a
`J_Var` has four or eight bytes, a byte has an even number of values, the types
are those of the class file format, lengths, starts and counts are signed
words), `LookupAssumption` and `ClassAssumption` of
the loader (class files name classes, a class's fields are distinct, something is
preloaded), `MonitorAssumption` (the names are distinct). TLC evaluates them on the instances it
checks.

*Only model-checked:* liveness (`AllocationEnds`, `CollectionEnds`, `LoadsEnd`,
`SwitchEnds`; the provers do not handle fairness and `ENABLED`); `ParsesRight`,
which depends on where every item of the file is in memory (`Image`, a
fold over the items), which needs induction over data.
Reachability is stated as
membership in every closed set, not as a recursive function, so that no proof
has to go by induction over data.

## 5. What the checks found

Each of these has a run that shows it; the finding in `PROJECT.json` quotes the
comment that is contradicted.

- `gc_stack_arrays`: `jGC_mark` never marks an array it finds on a stack, and
  `walkArray` marks it only in passing, in the loop over the elements of an array
  of objects, at the first element whose class is not NULL. So of the arrays that
  only a stack refers to, those of plain values, those of arrays and the empty
  arrays of objects are swept. The run shows it of an array of plain values,
  about which the comment is. (An array of nulls is kept: null is slot 0, a
  mirror, which has a class.) Java programs survive because an array in a field
  is marked.
- `gc_statics`: static fields are no roots.
- `frames_handlers`: the search for a handler steps by `p += 8*k` and visits
  entries 0, 1, 3, 6 ...: a third handler is never found, and memory behind the
  table is taken for one.
- `classes_fields`: the instance fields of every class are numbered from 0, and
  an object has room for those of its own class only. An inherited field shares
  its place with a field of the class or lies beyond the block. What this does to
  the heap is in `JHeap`: see the hypotheses of its theorems in section 4.
- `monitor_notify`: `wait` releases the lock before `pause()`; a notification
  in between is lost, and the thread pauses until the next one.

Met while modelling, visible in the models but with no run of their own:

- A static field declared before the instance fields hides one of them from the
  collector (`StaticsLast` in section 4; J_Class.c:171, J_Gc.c:39).
- An array of objects reachable from its own element overruns the C stack
  (`crashed`; hence the condition of `CollectionEnds`).
- With a full heap and no garbage `allocateObject` collects for ever; its
  callers test for a failure it never reports (the condition of
  `AllocationEnds`).
- Elements of int and reference arrays are accessed at the stride of a `J_Var`
  and allocated four bytes each. With eight-byte pointers (`VarSize = 8` in
  `MCParts.cfg`) TLC finds `KeepsValues` violated by an index in the second half
  of an array: J_Global.h:254, J_Arrays.c:66. The Makefile asks for no particular width.
- A handler for any exception (`catch_type` 0: `finally` and `synchronized`) has
  index 0 in the constants, which is not a class: the bytes of the magic number
  are taken for an index and memory behind the constants for a name. Depending
  on it the handler is passed over or taken (`wild`; J_Machine.c:1376,
  J_Class.c:400). `ShortTablesSearched` excepts such tables.
- `main` passes the address of one word and says there are `argc - 1`. The
  others are what lies behind it, and `jExecMethod`, which checks the room for
  `maxLocals` only, writes them all: over the frame, above it, or beyond the
  stack (`beyond`; J_Machine.c:124).
- The elements of char arrays are stored without a sign and read with one
  (J_Misc.c:419, J_Machine.c:313), so that chars above 32767 come back negative:
  with `char` among the `Types` of `MCParts.cfg` TLC finds `KeepsValues` violated.
- A caught exception is pushed over what the try block had on the operand stack
  (`overrun`), and its class is compared by name only, so a handler for a
  superclass does not apply.
- The parser does not skip the attributes of native and abstract methods, takes
  every attribute of a method but `Exceptions` for its code and every attribute
  of the code for a line number table, and does not know the constants added to
  the format later (`Plain` excludes such files, `lost` is what they lead to).
- `ConstantValue` is read for fields that are not static, where it overwrites
  the field's offset, and not for static ones, which are the ones it is for.
- A method with a `long` or `double` among its parameters, or in an array
  parameter, counts as one without parameters.
- `instanceof` and `checkcast` look the index of the instruction up in the
  constants of the object's class instead of the code's (`CastsSound`), and only
  the class and its superclass are compared.
- A class whose fields, methods or superclass failed to load stays in the table
  and is given out as loaded (`errors` in `GivenOutComplete`).
- Array lengths for which the size of the block exceeds 32 bits give a small
  block with a huge length; the bounds of `jCopyArray` wrap around likewise
  (`Promised`, `OddCopy`).
- A thread in the monitors of two objects that waits for the second one goes
  round the list of locks for ever (the condition of `OnlyNestedWaitsHang`); a
  stop that meets a thread waiting for a monitor clears the owner of whoever is
  in it (the condition of `OwnerKnown`).
- `Gthread` is shared: with two stops close together the first handler releases
  the locks of the second thread, whose mutexes it does not own, and the locks
  of its own thread stay locked for ever (`Misled`, `Robbed`).

## 6. What is not modelled

- Formatting, debug output and the assembly that passes arguments to native
  functions: no state, or state below what the models see.
- Long, double and floating-point arithmetic: the machine ends on most of these
  opcodes (`RuntimeError`), the others only compute values.
- The generated table of native functions, and file I/O behind `loadFile`, which
  is one step that may fail.
- Priorities, `sleep` and `yield` of the obsolete threads; their interpreter,
  heap and loader, which the files modelled here replace with the same
  structure.
- The Java class library, which is Java code running on the machine, and the
  test programs.
- Out of reach of a run: the product of all modules. Each is checked against any
  behaviour of its neighbours, see the beginning of section 2.

## 7. What remains open

Every safety property of the passing runs but `ParsesRight` is proved; it stays
with TLC, as do the liveness properties, for the reasons at the end of section 4. A change of the code starts at the map of `PROJECT.json`, which
gives the definitions that stand for the lines; the theorems about them show
what still holds.
