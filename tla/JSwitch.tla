------------------------------- MODULE JSwitch -------------------------------
(***************************************************************************)
(* The instructions tableswitch and lookupswitch of jExecMethod.  Their    *)
(* operands are 32-bit words that begin at the next multiple of four from  *)
(* the start of the code; lookupswitch searches its pairs by bisection,    *)
(* one step of the model an iteration of that loop.                        *)
(***************************************************************************)
EXTENDS Integers, Sequences

(***************************************************************************)
(* A switch: the instruction, its position in the code of the method, the  *)
(* key on the operand stack, and the 32-bit words of its operands.         *)
(***************************************************************************)
CONSTANTS
  Switches,     \* the switches that are executed
  Junk          \* what getInt32 reads where no operand begins

\* The first multiple of four after n: where the class file format puts the operands.
FirstWord(n) == CHOOSE a \in n + 1 .. n + 4 : a % 4 = 0
\* The operands as the class file format names them.
Default(w) == w.words[1]
NPairs(w) == w.words[2]
Match(w, k) == w.words[2 * k + 3]
Offset(w, k) == w.words[2 * k + 4]
Lo(w) == w.words[2]
Hi(w) == w.words[3]
Case(w, n) == w.words[4 + n - Lo(w)]

\* The format: sorted pairs, or one case for each key of the range.
LookupFormat(w) ==
  /\ Len(w.words) >= 2 /\ NPairs(w) >= 0 /\ Len(w.words) = 2 + 2 * NPairs(w)
  /\ \A j, k \in 0 .. NPairs(w) - 1 : j < k => Match(w, j) < Match(w, k)
TableFormat(w) ==
  Len(w.words) >= 3 /\ Lo(w) <= Hi(w) /\ Len(w.words) = 3 + Hi(w) - Lo(w) + 1

ASSUME SwitchAssumption ==
  \A w \in Switches :
    /\ w.op \in {"tableswitch", "lookupswitch"}
    /\ w.start \in Nat /\ w.key \in Int /\ w.words \in Seq(Int)
    /\ IF w.op = "lookupswitch" THEN LookupFormat(w) ELSE TableFormat(w)

VARIABLES
  sw,         \* the switch that is executed
  pc,
  npc,        \* the operand the instruction has read up to
  low, high,  \* the bounds of the search
  at          \* what comes next

switchVars == <<sw, pc, npc, low, high, at>>

PaddingOfOne(n) == (4 - (n % 4))    \* mutant
Padding(n) == (4 - (n % 4)) % 4
Operands == pc + 1 + Padding(pc + 1)

\* Off the words of the operands, half a word included, stands something else.
getInt32(a) ==
  LET i == (a - FirstWord(sw.start)) \div 4 + 1 IN
  IF a % 4 = 0 /\ i \in 1 .. Len(sw.words) THEN sw.words[i] ELSE Junk
DefaultOff == getInt32(Operands)

Jump(offset) == pc' = pc + offset /\ at' = "done"

TableSwitch ==
  /\ at = "fetch" /\ sw.op = "tableswitch"
  /\ npc' = Operands + 12
  /\ LET lo == getInt32(Operands + 4)
         hi == getInt32(Operands + 8) IN
       \/ /\ sw.key < lo \/ sw.key > hi
          /\ Jump(DefaultOff)
       \/ /\ sw.key \in lo .. hi
          /\ Jump(getInt32(npc' + (sw.key - lo) * 4))
  /\ UNCHANGED <<sw, low, high>>

LookupSwitch ==
  /\ at = "fetch" /\ sw.op = "lookupswitch"
  /\ npc' = Operands + 8
  /\ LET npairs == getInt32(Operands + 4) IN
       \/ /\ npairs > 0
          /\ low' = 0 /\ high' = npairs
          /\ at' = "search" /\ pc' = pc
       \/ /\ npairs <= 0
          /\ Jump(DefaultOff)
          /\ UNCHANGED <<low, high>>
  /\ UNCHANGED sw

Mid == (high + low) \div 2
KeyAt(k) == getInt32(npc + k * 8)

LowerBoundNext(k) == k + 1    \* mutant: the usual bisection, of a table without its middle
LowerBound(k) == k
ExhaustedAtHigh == Mid = high    \* mutant: the wrong bound in the end test
Exhausted == Mid = low

Search ==
  /\ at = "search"
  /\ \/ /\ sw.key = KeyAt(Mid)
        /\ Jump(getInt32(npc + Mid * 8 + 4))
        /\ UNCHANGED <<low, high>>
     \/ /\ sw.key # KeyAt(Mid) /\ Exhausted
        /\ Jump(DefaultOff)
        /\ UNCHANGED <<low, high>>
     \/ /\ sw.key < KeyAt(Mid) /\ ~Exhausted
        /\ high' = Mid
        /\ UNCHANGED <<pc, low, at>>
     \/ /\ sw.key > KeyAt(Mid) /\ ~Exhausted
        /\ low' = LowerBound(Mid)
        /\ UNCHANGED <<pc, high, at>>
  /\ UNCHANGED <<sw, npc>>

SwitchInit ==
  /\ sw \in Switches
  /\ pc = sw.start /\ npc = 0 /\ low = 0 /\ high = 0 /\ at = "fetch"

SwitchNext == TableSwitch \/ LookupSwitch \/ Search
\* One instruction of jExecMethod: the interpreter does nothing else meanwhile.
SwitchSpec == SwitchInit /\ [][SwitchNext]_switchVars /\ WF_switchVars(SwitchNext)

---------------------------------------------------------------------------
(* The types of the registers; the bounds of a search delimit pairs. *)
SwitchTypeOK ==
  /\ pc \in Int /\ npc \in Nat
  /\ at \in {"fetch", "search", "done"}
  /\ low \in Nat /\ high \in Nat
  /\ at = "search" => low < high /\ high <= NPairs(sw)

(* What the two instructions are for, read off the class file format.      *)
Target(w) ==
  LET ks == {k \in 0 .. NPairs(w) - 1 : Match(w, k) = w.key}
  IN  IF w.op = "tableswitch"
      THEN IF w.key \in Lo(w) .. Hi(w) THEN Case(w, w.key) ELSE Default(w)
      ELSE IF ks # {} THEN Offset(w, CHOOSE k \in ks : TRUE) ELSE Default(w)

(* The interpreter goes on where the case of the key is, or at the default *)
(* case, wherever the instruction is aligned and whether the number of     *)
(* pairs is odd or even.                                                   *)
JumpsRight == at = "done" => pc = sw.start + Target(sw)

(* The search loop ends. *)
SwitchEnds == <>(at = "done")
=============================================================================
