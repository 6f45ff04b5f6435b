------------------------------- MODULE JFrames -------------------------------
(***************************************************************************)
(* jExecMethod and the frames it lays out on the thread stack: calls of    *)
(* bytecode and of native methods, returns, exceptions, and the nested     *)
(* jExecMethod that runs a static initialiser in the middle of an          *)
(* instruction.                                                            *)
(*                                                                         *)
(* A frame is, from the bottom: the pc, var and stack pointers of the      *)
(* caller (zeros for the outermost frame of a jExecMethod), maxLocals      *)
(* local variables, maxStack operands, the method and the class.  A        *)
(* pointer into the stack is the number of words below it, so that         *)
(* stack[-1] is vmStack[stack] and var[0] is vmStack[var + 1].             *)
(*                                                                         *)
(* The code of a method is not given: at every pc any instruction may      *)
(* stand that the class file format lets stand there, depths being the     *)
(* operands the format counts.  pc counts instructions.                    *)
(***************************************************************************)
EXTENDS Integers, Sequences, SequencesExt

CONSTANTS
  Method,      \* methods; each stands for itself and its class
  Code,        \* of each method, what J_ClassMethods and the Code attribute say
  Main,
  StaticInits, \* the <clinit> methods of the classes
  Values,      \* words the program computes with, references to exceptions included
  Exceptions,  \* exceptions, each the only one of its class
  NotFound,    \* exception classes named in handlers that cannot be loaded
  AnyClass,    \* catch_type 0, of finally and synchronized: any exception
  Program,     \* bound: kinds of instruction the program is made of
  NumArgs,     \* what numparams of main may be: argc - 1
  StackSize    \* THREAD_STACK_SIZE

Handler == [start : Nat, end : Nat, handler : Nat, catch : Exceptions \cup NotFound \cup {AnyClass}]

ASSUME FramesAssumption ==
  /\ Main \in Method /\ StaticInits \subseteq Method
  /\ AnyClass \notin Exceptions \cup NotFound
  /\ ~Code[Main].native => Code[Main].maxLocals > 0           \* main has an argument
  /\ Values # {} /\ Exceptions \subseteq Values /\ NumArgs \subseteq Nat \ {0} /\ StackSize \in Nat \ {0}
  /\ \A m \in Method :
       /\ Code[m].maxLocals \in Nat /\ Code[m].maxStack \in Nat /\ Code[m].codeLength \in Nat
       /\ Code[m].paramsCount \in Nat
       /\ ~Code[m].native => Code[m].paramsCount <= Code[m].maxLocals
       /\ Code[m].native \in BOOLEAN /\ Code[m].returns \in BOOLEAN
       /\ Code[m].excTable \in Seq(Handler)
       /\ Code[m].excTable # << >> => Code[m].maxStack > 0    \* a handler starts with one operand

VARIABLES
  vmStack,    \* the thread stack up to thStackPtr
  regs,       \* method, pc, var and stack of the running jExecMethod
  base,       \* baseFramePtr
  nest,       \* the C stack: what the suspended jExecMethods keep in their variables
  at,         \* what comes next
  exc, k,     \* athrow: the exception, the index of the search
  depths,     \* of each frame, the operands on it by the rules of the class file format
  todo,       \* methods the virtual machine has still to call: main, static initialisers
  acts        \* the activations all this amounts to (see Activations)

machineVars == <<vmStack, regs, base, nest, at, exc, k, depths, todo>>
frameVars == <<machineVars, acts>>

Value(v) == <<"value", v>>
Junk == <<"junk", 0>>
Zero == <<"zero", 0>>
MaxLocals == Code[regs.method].maxLocals
MaxStack == Code[regs.method].maxStack
Depth == Last(depths)
Limit == regs.var + MaxLocals + MaxStack        \* the operand stack ends here
Operand(i) == vmStack[regs.stack + 1 - i]       \* stack[-i]
Does(kind) == at = "step" /\ kind \in Program

\* The fatal errors of the machine end the process.
GENERATE_EXCEPTION == at' = "exit" /\ UNCHANGED <<vmStack, regs, base, nest, exc, k, depths, todo>>

\* Words ws are written from stack[-pops] on.  If that goes beyond the operand stack it
\* hits the method word, and what the machine does from then on is not followed.
WithWords(st, sp, ws) == [i \in 1 .. Len(st) |-> IF i \in sp + 1 .. sp + Len(ws) THEN ws[i - sp] ELSE st[i]]
Push(pops, ws, pc) ==
  /\ vmStack' = WithWords(vmStack, regs.stack - pops, ws)
  /\ regs' = [regs EXCEPT !.stack = @ - pops + Len(ws), !.pc = pc]
  /\ at' = IF regs'.stack > Limit THEN "overrun" ELSE "step"

---------------------------------------------------------------------------
(* Instructions that stay in their frame. *)

PcInMethod(pc) == pc \in 0 .. Code[regs.method].codeLength - 1

\* An instruction that replaces the last pops operands by ws, and goes on at pc.
Effect(pops, ws, pc) ==
  /\ Depth >= pops /\ Depth - pops + Len(ws) <= MaxStack /\ PcInMethod(pc)
  /\ Push(pops, ws, pc)
  /\ depths' = [depths EXCEPT ![Len(depths)] = @ - pops + Len(ws)]
  /\ UNCHANGED <<base, nest, exc, k, todo>>
NextPc == regs.pc + 1

Const == Does("const") /\ \E v \in Values : Effect(0, <<Value(v)>>, NextPc)

LoadLocal == Does("local") /\ \E i \in 1 .. MaxLocals : Effect(0, <<vmStack[regs.var + i]>>, NextPc)

\* var[i] = w, after pops operands.
SetLocal(i, w, pops) ==
  /\ Depth >= pops /\ PcInMethod(NextPc)
  /\ vmStack' = [vmStack EXCEPT ![regs.var + i] = w]
  /\ regs' = [regs EXCEPT !.stack = @ - pops, !.pc = NextPc]
  /\ depths' = [depths EXCEPT ![Len(depths)] = @ - pops]
  /\ UNCHANGED <<base, nest, at, exc, k, todo>>

StoreLocal == Does("local") /\ Depth > 0 /\ \E i \in 1 .. MaxLocals : SetLocal(i, Operand(1), 1)

IInc == Does("local") /\ \E i \in 1 .. MaxLocals, v \in Values : SetLocal(i, Value(v), 0)

\* The stack instructions: the operands that are taken off, and those that are
\* put there instead, numbered from the top.
StackOps ==
  {[pops |-> 1, picks |-> << >>],                 \* pop
   [pops |-> 2, picks |-> << >>],                 \* pop2
   [pops |-> 1, picks |-> <<1, 1>>],              \* dup
   [pops |-> 2, picks |-> <<1, 2, 1>>],           \* dup_x1
   [pops |-> 3, picks |-> <<1, 3, 2, 1>>],        \* dup_x2
   [pops |-> 2, picks |-> <<2, 1, 2, 1>>],        \* dup2
   [pops |-> 3, picks |-> <<2, 1, 3, 2, 1>>],     \* dup2_x1
   [pops |-> 4, picks |-> <<2, 1, 4, 3, 2, 1>>],  \* dup2_x2
   [pops |-> 2, picks |-> <<1, 2>>]}              \* swap

StackMove ==
  /\ Does("stack")
  /\ \E op \in StackOps :
       Depth >= op.pops /\ Effect(op.pops, [i \in 1 .. Len(op.picks) |-> Operand(op.picks[i])], NextPc)

\* Operators, array and field accesses: so many operands, so many results.
Arithmetic ==
  /\ Does("operate")
  /\ \E pops \in 1 .. 2, v \in Values : Effect(pops, <<Value(v)>>, NextPc)

Consume ==
  /\ Does("operate")
  /\ \E pops \in 1 .. 3 : Effect(pops, << >>, NextPc)

\* if and goto.
Branch ==
  /\ Does("branch")
  /\ \E pops \in 0 .. 2, pc \in 0 .. Code[regs.method].codeLength - 1 : Effect(pops, << >>, pc)

\* jsr pushes the address of the next instruction, ret takes it from a local.
Jsr ==
  /\ Does("jsr") /\ PcInMethod(NextPc)
  /\ \E pc \in 0 .. Code[regs.method].codeLength - 1 : Effect(0, <<<<"pc", NextPc>>>>, pc)
Ret ==
  /\ Does("jsr")
  /\ \E i \in 1 .. MaxLocals :
       vmStack[regs.var + i][1] = "pc" /\ Effect(0, << >>, vmStack[regs.var + i][2])

\* A null reference, an index out of bounds, a division by zero, an opcode of
\* long or double: no Java exception, the end of the machine.
RuntimeError == Does("error") /\ GENERATE_EXCEPTION

---------------------------------------------------------------------------
(* Calls and returns. *)

SavedRegsWithArgs(pops) == <<<<"pc", NextPc>>, <<"var", regs.var>>, <<"stack", regs.stack>>>>    \* mutant
SavedRegs(pops) == <<<<"pc", NextPc>>, <<"var", regs.var>>, <<"stack", regs.stack - pops>>>>
Cells(m, args) == args \o [i \in 1 .. Code[m].maxLocals + Code[m].maxStack - Len(args) |-> Junk]
Suffix(m) == <<<<"method", m>>, <<"class", m>>>>
FrameFitsCells(m) == Len(vmStack) + Code[m].maxLocals + Code[m].maxStack < StackSize    \* mutant
FrameFits(m) == Len(vmStack) + 3 + Code[m].maxLocals + Code[m].maxStack + 2 < StackSize
NativeFits(m) == Len(vmStack) + 3 + Code[m].paramsCount + 3 < StackSize

StartOneUp(m, prefix, args) ==     \* mutant: the operand stack begins one word too high
  /\ vmStack' = vmStack \o prefix \o Cells(m, args) \o Suffix(m)
  /\ regs' = [method |-> m, pc |-> 0, var |-> Len(vmStack) + 3,
              stack |-> Len(vmStack) + 3 + Code[m].maxLocals + 1]
\* L_METHOD_INVOKE: var, stack, pc and the words at the top of the frame.
Start(m, prefix, args) ==
  /\ vmStack' = vmStack \o prefix \o Cells(m, args) \o Suffix(m)
  /\ regs' = [method |-> m, pc |-> 0, var |-> Len(vmStack) + 3,
              stack |-> Len(vmStack) + 3 + Code[m].maxLocals]

Invoke ==
  /\ Does("invoke") /\ PcInMethod(NextPc)
  /\ \E m \in Method :
       LET n == Code[m].paramsCount IN
       /\ ~Code[m].native /\ Code[m].codeLength > 0 /\ Depth >= n
       /\ IF FrameFits(m)
          THEN /\ Start(m, SavedRegs(n), SubSeq(vmStack, regs.stack - n + 1, regs.stack))
               /\ depths' = Append([depths EXCEPT ![Len(depths)] = @ - n], 0)
               /\ UNCHANGED <<base, nest, at, exc, k, todo>>
          ELSE GENERATE_EXCEPTION

\* Pop the frame of method m off stack st, saved registers and all, and go back
\* to the caller, with the words of ws pushed.
PopFrame(st, m) ==
  IF Code[m].native
  THEN SubSeq(st, 1, Len(st) - 3 - st[Len(st) - 2][2])
  ELSE SubSeq(st, 1, Len(st) - (Code[m].maxLocals + Code[m].maxStack + 2))
CallerRegs(st) ==
  [stack |-> st[Len(st)][2], var |-> st[Len(st) - 1][2], pc |-> st[Len(st) - 2][2],
   method |-> st[Len(st) - 4][2]]
PopSaved(st) == SubSeq(st, 1, Len(st) - 3)
ReturnTo(st, ws) ==
  LET r == CallerRegs(st) IN
  /\ vmStack' = WithWords(PopSaved(st), r.stack, ws)
  /\ regs' = [r EXCEPT !.stack = @ + Len(ws)]
  /\ at' = IF regs'.stack > Len(vmStack') - 2 THEN "overrun" ELSE at

\* callJNIMethod: the frame of a native method, gone again when the function returns.
InvokeNative ==
  /\ Does("native") /\ PcInMethod(NextPc)
  /\ \E m \in Method, v \in Values :
       LET n == Code[m].paramsCount
           args == SubSeq(vmStack, regs.stack - n + 1, regs.stack)
           frame == SavedRegs(n) \o args \o <<<<"count", n>>>> \o Suffix(m)
           ret == IF Code[m].returns THEN <<Value(v)>> ELSE << >> IN
       /\ Code[m].native /\ Depth >= n /\ Depth - n + Len(ret) <= MaxStack
       /\ IF NativeFits(m)
          THEN /\ ReturnTo(PopFrame(vmStack \o frame, m), ret)
               /\ depths' = [depths EXCEPT ![Len(depths)] = @ - n + Len(ret)]
               /\ UNCHANGED <<base, nest, exc, k, todo>>
          ELSE GENERATE_EXCEPTION

LeaveWithZeros ==     \* mutant: thStackPtr is not reset to baseFramePtr
  LET c == Last(nest) IN
  /\ vmStack' = SubSeq(vmStack, 1, base + 3)
  /\ regs' = c.regs /\ base' = c.base /\ at' = c.at /\ exc' = c.exc /\ k' = c.k
  /\ nest' = Front(nest)
\* Back in the C function that called jExecMethod, which forgets the result.
Leave ==
  LET c == Last(nest) IN
  /\ vmStack' = SubSeq(vmStack, 1, base)
  /\ regs' = c.regs /\ base' = c.base /\ at' = c.at /\ exc' = c.exc /\ k' = c.k
  /\ nest' = Front(nest)

MethodReturn ==
  /\ Does("invoke")
  /\ LET rest == PopFrame(vmStack, regs.method)
         ret == IF Code[regs.method].returns THEN <<Operand(1)>> ELSE << >> IN
     /\ Depth >= Len(ret)
     /\ IF Len(rest) = base + 3
        THEN Leave /\ depths' = Front(depths)
        ELSE /\ depths[Len(depths) - 1] + Len(ret) <= Code[CallerRegs(rest).method].maxStack
             /\ ReturnTo(rest, ret)
             /\ depths' = [Front(depths) EXCEPT ![Len(depths) - 1] = @ + Len(ret)]
             /\ UNCHANGED <<base, nest, exc, k>>
  /\ UNCHANGED todo

---------------------------------------------------------------------------
(* jExecMethod, called by C code. *)

Enter(m, args) ==
  /\ Start(m, <<Zero, Zero, Zero>>, args)
  /\ base' = Len(vmStack) /\ at' = "step" /\ depths' = Append(depths, 0)
  /\ nest' = Append(nest, [regs |-> regs, base |-> base, at |-> at, exc |-> exc, k |-> k])
  /\ UNCHANGED <<exc, k>>

\* ECANTRUNNATIVE, EZEROLENGTH or ESTACKOVERFLOW: the caller carries on.
Executable(m) == ~Code[m].native /\ Code[m].codeLength > 0 /\ FrameFits(m)

\* An instruction, a handler that is looked at, or main loads a class: its <clinit> runs first.
RunStaticInit ==
  /\ at \in {"main", "step", "search"}
  /\ at = "search" => k < Len(Code[regs.method].excTable)
  /\ \E m \in todo \cap StaticInits :
       /\ todo' = todo \ {m}
       /\ IF Executable(m) THEN Enter(m, << >>)
          ELSE UNCHANGED <<vmStack, regs, base, nest, at, exc, k, depths>>

(* main passes the address of one J_Var and says there are argc - 1 of     *)
(* them; all are written before the frame is laid out.  Those beyond the   *)
(* locals fall on cells of the operand stack, on the words of the method   *)
(* and the class, which are written after them, and on words above the     *)
(* frame; or else on memory that is not the stack's.                       *)
MainParams(n) == <<Value(CHOOSE v \in Values : TRUE)>> \o [i \in 1 .. n - 1 |-> Junk]
MainArgs(n) == SubSeq(MainParams(n), 1, IF n <= Code[Main].maxLocals THEN n ELSE Code[Main].maxLocals)
RunMain ==
  /\ at = "main" /\ Main \in todo
  /\ todo' = todo \ {Main}
  /\ IF Executable(Main)
     THEN \E n \in NumArgs :
            IF Len(vmStack) + 3 + n <= StackSize
            THEN Enter(Main, MainArgs(n))
            ELSE at' = "beyond" /\ UNCHANGED <<vmStack, regs, base, nest, exc, k, depths>>
     ELSE UNCHANGED <<vmStack, regs, base, nest, at, exc, k, depths>>

---------------------------------------------------------------------------
(* athrow. *)

Athrow ==
  /\ Does("throw") /\ Depth > 0
  /\ Operand(1) \in {Value(e) : e \in Exceptions}
  /\ exc' = Operand(1) /\ k' = 0 /\ at' = "search"
  /\ UNCHANGED <<vmStack, regs, base, nest, depths, todo>>

EntryBeforeIncrement(i) == (i * (i - 1)) \div 2 + 1     \* mutant: p moves before k does
\* The for loop steps by p += 8*k: the k-th entry it looks at is not the k-th of the table.
Entry(i) == (i * (i + 1)) \div 2 + 1
Table == Code[regs.method].excTable
Applies(h) ==
  /\ regs.pc <= h.end /\ regs.pc >= h.start
  /\ h.catch \notin NotFound /\ exc = Value(h.catch)

SearchHandler ==
  /\ at = "search" /\ k < Len(Table)
  /\ \/ /\ Entry(k) \in DOMAIN Table /\ Applies(Table[Entry(k)])
        /\ Push(0, <<exc>>, Table[Entry(k)].handler)
        /\ depths' = [depths EXCEPT ![Len(depths)] = 1]
        /\ UNCHANGED k
     \/ /\ Entry(k) \in DOMAIN Table => ~Applies(Table[Entry(k)])
        /\ k' = k + 1
        /\ UNCHANGED <<vmStack, regs, at, depths>>
     \/ \* what follows the table looks like a handler, or index 0 of the constants like a class
        /\ Entry(k) \in DOMAIN Table => Table[Entry(k)].catch = AnyClass
        /\ at' = "wild"
        /\ UNCHANGED <<vmStack, regs, k, depths>>
  /\ UNCHANGED <<base, nest, exc, todo>>

\* No handler: drop the frame and search the caller's table, with the return address for pc.
Unwind ==
  /\ at = "search" /\ k = Len(Table)
  /\ LET rest == PopFrame(vmStack, regs.method) IN
     IF Len(rest) = base + 3
     THEN GENERATE_EXCEPTION
     ELSE /\ ReturnTo(rest, << >>)
          /\ k' = 0 /\ depths' = Front(depths)
          /\ UNCHANGED <<base, nest, exc, todo>>

---------------------------------------------------------------------------
(* The activations there are, read off the registers, the thread stack and *)
(* the C stack as a return would restore them, the running one last.       *)
Running == at \in {"step", "search"}
Regs ==
  LET n == Len(depths)
      thrown(a, e) == IF a = "search" THEN e ELSE Junk
      f[i \in 1 .. n] ==
        IF i = n THEN [r |-> regs, base |-> base, nest |-> Len(nest), thrown |-> thrown(at, exc)]
        ELSE LET up == f[i + 1]
                 c == nest[up.nest] IN
             IF up.r.var = up.base + 3
             THEN [r |-> c.regs, base |-> c.base, nest |-> up.nest - 1, thrown |-> thrown(c.at, c.exc)]
             ELSE [up EXCEPT !.r = CallerRegs(SubSeq(vmStack, 1, up.r.var)), !.thrown = Junk]
  IN  f
LocalsEnd(r) == r.var + Code[r.method].maxLocals
FrameEnd(r) == LocalsEnd(r) + Code[r.method].maxStack + 2

Activations ==
  IF ~Running THEN << >>
  ELSE LET R == Regs IN
       [i \in 1 .. Len(depths) |->
          LET r == R[i].r IN
          [method |-> r.method, pc |-> r.pc,
           locals |-> SubSeq(vmStack, r.var + 1, LocalsEnd(r)),
           operands |-> SubSeq(vmStack, r.stack - depths[i] + 1, r.stack),
           thrown |-> R[i].thrown, entry |-> r.var = R[i].base + 3]]

---------------------------------------------------------------------------
FramesInit ==
  /\ vmStack = << >> /\ base = 0 /\ nest = << >> /\ depths = << >>
  /\ regs = [method |-> Main, pc |-> 0, var |-> 0, stack |-> 0]
  /\ at = "main" /\ exc = Junk /\ k = 0
  /\ todo = {Main} \cup StaticInits
  /\ acts = << >>

LocalStep ==
  \/ Const \/ LoadLocal \/ StoreLocal \/ IInc \/ StackMove \/ Arithmetic \/ Consume
  \/ Branch \/ Jsr \/ Ret \/ RuntimeError
CallStep == Invoke \/ InvokeNative \/ MethodReturn \/ RunStaticInit \/ RunMain
ThrowStep == Athrow \/ SearchHandler \/ Unwind

FramesNext == (LocalStep \/ CallStep \/ ThrowStep) /\ acts' = Activations'
FramesSpec == FramesInit /\ [][FramesNext]_frameVars

---------------------------------------------------------------------------
(* The types of the registers. *)
FramesTypeOK ==
  /\ at \in {"main", "step", "search", "overrun", "wild", "beyond", "exit"}
  /\ regs \in [method : Method, pc : Nat, var : Nat, stack : Nat]
  /\ base \in Nat /\ k \in Nat /\ todo \subseteq Method
  /\ Len(vmStack) < StackSize
  /\ \A i \in DOMAIN vmStack :
       vmStack[i][1] \in {"value", "junk", "zero", "pc", "var", "stack", "method", "class"}

(* The frames follow one another without a gap or an overlap, whichever    *)
(* mixture of calls, nested jExecMethod and unwinding built them: each     *)
(* operand stack pointer is in its own frame, each frame ends with its     *)
(* method and class, and a nested jExecMethod starts where the frame it    *)
(* interrupts ends.                                                        *)
FramesAdjacent ==
  Running =>
    LET R == Regs IN
    \A i \in DOMAIN R :
      LET r == R[i].r IN
      /\ r.stack \in LocalsEnd(r) .. FrameEnd(r) - 2
      /\ SubSeq(vmStack, FrameEnd(r) - 1, FrameEnd(r)) = Suffix(r.method)
      /\ IF i = Len(R) THEN Len(vmStack) = FrameEnd(r) ELSE R[i + 1].r.var = FrameEnd(r) + 3

(* Calls and returns are those of JCalls: whatever happens between an      *)
(* invoke and its return, static initialisers in the middle of an          *)
(* instruction included, the caller finds its locals, its operands and its *)
(* pc as they were, and an exception leaves no activation of another       *)
(* jExecMethod.                                                            *)
Calls == INSTANCE JCalls WITH None <- Junk
ImplementsCalls == Calls!Spec

(* A frame's operand stack overruns the method word above it only where    *)
(* exceptions were caught: each leaves the operands of the try block under *)
(* the handler's, which the class file format does not count.              *)
Leftovers == regs.stack - LocalsEnd(regs) - Depth
OverrunNeedsCatch == at = "overrun" => Leftovers > 0 /\ Table # << >>

(* Tables of one or two handlers are searched completely and in order, and *)
(* if each handler is for a class, nothing beyond the table and the        *)
(* constants is read.                                                      *)
ShortTablesSearched ==
  /\ at = "search" /\ Len(Table) <= 2 => \A i \in 1 .. k : ~Applies(Table[i])
  /\ at = "wild" => Len(Table) > 2 \/ \E i \in DOMAIN Table : Table[i].catch = AnyClass

---------------------------------------------------------------------------
(* A claim of the code that it does not meet. *)

(* J_Machine.c:1396: a frame is left because no handler in its table       *)
(* matches.                                                                *)
LeavesUnhandled ==
  at = "search" /\ k = Len(Table) => \A i \in DOMAIN Table : ~Applies(Table[i])
=============================================================================
