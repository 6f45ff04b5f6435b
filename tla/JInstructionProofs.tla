-------------------------- MODULE JInstructionProofs --------------------------
(***************************************************************************)
(* Two groups of instructions.  The switch instructions jump right for     *)
(* every switch of the class file format, wherever it is aligned and       *)
(* however many pairs it has.  The array instructions and copyArray do to  *)
(* blocks of bytes what JArrayValues promises of arrays of numbers, for    *)
(* every width of words and bytes.                                         *)
(***************************************************************************)
EXTENDS JSwitch, JArrays, WellFoundedInduction, TLAPS

-----------------------------------------------------------------------------
(* The switches.                                                           *)

(* The bounds of the search enclose every pair of the key.                 *)
SearchOK ==
  at = "search" =>
    /\ sw.op = "lookupswitch" /\ pc = sw.start /\ npc = FirstWord(sw.start) + 8
    /\ \A k \in 0 .. NPairs(sw) - 1 : Match(sw, k) = sw.key => low <= k /\ k < high
FetchOK == at = "fetch" => pc = sw.start
SwitchInv == sw \in Switches /\ SwitchTypeOK /\ FetchOK /\ SearchOK /\ JumpsRight

(* The padding the code computes leads to the first multiple of four.      *)
LEMMA Alignment ==
  ASSUME NEW n \in Nat
  PROVE  /\ FirstWord(n) = n + 1 + Padding(n + 1)
         /\ FirstWord(n) \in Nat /\ FirstWord(n) % 4 = 0
<1> DEFINE a == n + 1 + Padding(n + 1)
<1>1. a \in n + 1 .. n + 4 /\ a % 4 = 0  BY DEF Padding
<1>2. \A b \in n + 1 .. n + 4 : b % 4 = 0 => b = a  BY DEF Padding
<1> HIDE DEF a
<1>3. FirstWord(n) = a  BY <1>1, <1>2 DEF FirstWord
<1> QED  BY <1>1, <1>3 DEF a

(* getInt32 reads the operands one by one, four bytes apart.               *)
LEMMA ReadWord ==
  ASSUME sw \in Switches, NEW i \in 0 .. Len(sw.words) - 1
  PROVE  getInt32(FirstWord(sw.start) + 4 * i) = sw.words[i + 1]
<1>1. sw.start \in Nat /\ sw.words \in Seq(Int)  BY SwitchAssumption
<1>2. FirstWord(sw.start) \in Nat /\ FirstWord(sw.start) % 4 = 0  BY <1>1, Alignment
<1> DEFINE f == FirstWord(sw.start)  w == sw.words
<1> HIDE DEF f, w
<1>3. f \in Nat /\ f % 4 = 0 /\ w \in Seq(Int) /\ i \in 0 .. Len(w) - 1  BY <1>1, <1>2 DEF f, w
<1> DEFINE a == f + 4 * i  j == (a - f) \div 4 + 1
<1>4. a % 4 = 0 /\ j = i + 1 /\ j \in 1 .. Len(w)  BY <1>3
<1>5. getInt32(a) = IF a % 4 = 0 /\ j \in 1 .. Len(w) THEN w[j] ELSE Junk
  BY Zenon DEF getInt32, f, w
<1> HIDE DEF a, j
<1>6. getInt32(a) = w[i + 1]  BY <1>4, <1>5
<1> QED  BY <1>6 DEF a, f, w

(* What the format gives: the words are numbers, and how many there are.   *)
LEMMA Operands32 ==
  ASSUME sw \in Switches
  PROVE  /\ sw.start \in Nat /\ sw.key \in Int /\ sw.words \in Seq(Int)
         /\ FirstWord(sw.start) \in Nat
         /\ Len(sw.words) >= 2
         /\ sw.op = "lookupswitch" => LookupFormat(sw)
         /\ sw.op = "tableswitch" => TableFormat(sw)
<1>1. /\ sw.op \in {"tableswitch", "lookupswitch"}
      /\ sw.start \in Nat /\ sw.key \in Int /\ sw.words \in Seq(Int)
      /\ IF sw.op = "lookupswitch" THEN LookupFormat(sw) ELSE TableFormat(sw)
  BY SwitchAssumption
<1>2. FirstWord(sw.start) \in Nat  BY <1>1, Alignment
<1>3. Len(sw.words) \in Nat  BY <1>1
<1>4. LookupFormat(sw) => Len(sw.words) >= 2  BY DEF LookupFormat
<1>5. TableFormat(sw) => Len(sw.words) >= 2  BY <1>3 DEF TableFormat
<1> QED  BY <1>1, <1>2, <1>4, <1>5

(* At the start of the instruction the operands are read where they are.   *)
LEMMA ReadOperands ==
  ASSUME sw \in Switches, pc = sw.start
  PROVE  /\ Operands = FirstWord(sw.start) /\ Operands \in Nat
         /\ DefaultOff = Default(sw)
         /\ getInt32(Operands + 4) = sw.words[2]
         /\ sw.op = "tableswitch" => getInt32(Operands + 8) = sw.words[3]
<1>1. Operands = FirstWord(sw.start) /\ Operands \in Nat
  BY Operands32, Alignment DEF Operands
<1>2. getInt32(FirstWord(sw.start) + 4 * 0) = sw.words[0 + 1]  BY Operands32, ReadWord
<1>3. getInt32(FirstWord(sw.start) + 4 * 1) = sw.words[1 + 1]  BY Operands32, ReadWord
<1>4. sw.op = "tableswitch" => 2 \in 0 .. Len(sw.words) - 1
  BY Operands32 DEF TableFormat, Lo, Hi
<1>5. sw.op = "tableswitch" => getInt32(FirstWord(sw.start) + 4 * 2) = sw.words[2 + 1]
  BY <1>4, ReadWord
<1> QED  BY <1>1, <1>2, <1>3, <1>5 DEF DefaultOff, Default

(* In the search the code reads the pairs one after the other.             *)
LEMMA ReadPair ==
  ASSUME sw \in Switches, sw.op = "lookupswitch", npc = FirstWord(sw.start) + 8,
         NEW k \in 0 .. NPairs(sw) - 1
  PROVE  /\ KeyAt(k) = Match(sw, k) /\ KeyAt(k) \in Int
         /\ getInt32(npc + k * 8 + 4) = Offset(sw, k) /\ Offset(sw, k) \in Int
<1> DEFINE n == NPairs(sw)  w == sw.words  f == FirstWord(sw.start)
<1>1. n \in Int /\ Len(w) = 2 + 2 * n /\ w \in Seq(Int) /\ f \in Nat
  BY Operands32 DEF LookupFormat, NPairs
<1>2. k \in 0 .. n - 1  OBVIOUS
<1>3. npc = f + 8  OBVIOUS
<1> HIDE DEF n, w, f
<1>4. /\ 2 * k + 2 \in 0 .. Len(w) - 1 /\ 2 * k + 3 \in 0 .. Len(w) - 1
      /\ 2 * k + 3 \in 1 .. Len(w) /\ 2 * k + 4 \in 1 .. Len(w)
      /\ 2 * k + 2 + 1 = 2 * k + 3 /\ 2 * k + 3 + 1 = 2 * k + 4
  BY <1>1, <1>2
<1>5. npc + k * 8 = f + 4 * (2 * k + 2) /\ npc + k * 8 + 4 = f + 4 * (2 * k + 3)
  <2>1. k \in Int  BY <1>1, <1>2
  <2> QED  BY <1>1, <1>3, <2>1
<1>6. getInt32(f + 4 * (2 * k + 2)) = w[2 * k + 2 + 1]  BY <1>4, ReadWord DEF w, f
<1>7. getInt32(f + 4 * (2 * k + 3)) = w[2 * k + 3 + 1]  BY <1>4, ReadWord DEF w, f
<1>8. w[2 * k + 3] \in Int /\ w[2 * k + 4] \in Int  BY <1>1, <1>4
<1>9. KeyAt(k) = w[2 * k + 3] /\ getInt32(npc + k * 8 + 4) = w[2 * k + 4]
  BY <1>4, <1>5, <1>6, <1>7 DEF KeyAt
<1>10. Match(sw, k) = w[2 * k + 3] /\ Offset(sw, k) = w[2 * k + 4]  BY DEF Match, Offset, w
<1> QED  BY <1>8, <1>9, <1>10

(* The case of a key present is the only pair that has it.                 *)
LEMMA TargetFound ==
  ASSUME sw \in Switches, sw.op = "lookupswitch",
         NEW k \in 0 .. NPairs(sw) - 1, Match(sw, k) = sw.key
  PROVE  Target(sw) = Offset(sw, k)
<1> DEFINE ks == {j \in 0 .. NPairs(sw) - 1 : Match(sw, j) = sw.key}
<1>1. NPairs(sw) \in Int  BY Operands32 DEF LookupFormat, NPairs
<1>2. \A i, j \in 0 .. NPairs(sw) - 1 : i < j => Match(sw, i) < Match(sw, j)
  BY Operands32 DEF LookupFormat
<1>3. sw.key \in Int  BY Operands32
<1>4. \A j \in ks : j = k
  <2> SUFFICES ASSUME NEW j \in 0 .. NPairs(sw) - 1, Match(sw, j) = sw.key, j # k PROVE FALSE  OBVIOUS
  <2>1. j < k \/ k < j  BY <1>1
  <2>2. Match(sw, j) < Match(sw, k) \/ Match(sw, k) < Match(sw, j)  BY <2>1, <1>2
  <2> QED  BY <2>2, <1>3
<1>5. k \in ks  OBVIOUS
<1>6. (CHOOSE j \in ks : TRUE) = k  BY <1>4, <1>5
<1>7. Target(sw) = Offset(sw, CHOOSE j \in ks : TRUE)  BY <1>5 DEF Target
<1> QED  BY <1>6, <1>7

(* Without a pair for the key the default case is the target.              *)
LEMMA TargetAbsent ==
  ASSUME sw.op = "lookupswitch",
         \A k \in 0 .. NPairs(sw) - 1 : Match(sw, k) # sw.key
  PROVE  Target(sw) = Default(sw)
  BY DEF Target

(* An instruction starts with nothing searched yet.                        *)
LEMMA SwitchInvInit == SwitchInit => SwitchInv
  BY SwitchAssumption
  DEF SwitchInit, SwitchInv, SwitchTypeOK, FetchOK, SearchOK, JumpsRight

(* A tableswitch jumps at once.                                            *)
LEMMA TableSwitchStep == SwitchInv /\ TableSwitch => SwitchInv'
<1> SUFFICES ASSUME SwitchInv, TableSwitch PROVE SwitchInv'  OBVIOUS
<1> DEFINE w == sw.words  f == FirstWord(sw.start)  n == sw.key - Lo(sw)
<1>1. sw \in Switches /\ sw.op = "tableswitch" /\ pc = sw.start /\ sw' = sw /\ pc \in Int
  BY DEF SwitchInv, TableSwitch, FetchOK, SwitchTypeOK
<1>2. /\ Operands = f /\ f \in Nat /\ DefaultOff = Default(sw)
      /\ getInt32(Operands + 4) = Lo(sw) /\ getInt32(Operands + 8) = Hi(sw)
  BY <1>1, ReadOperands DEF Lo, Hi
<1>3. /\ sw.key \in Int /\ w \in Seq(Int) /\ Len(w) >= 3 /\ Lo(sw) \in Int /\ Hi(sw) \in Int
      /\ Len(w) = 3 + Hi(sw) - Lo(sw) + 1 /\ Default(sw) \in Int
  BY <1>1, Operands32 DEF TableFormat, Lo, Hi, Default
<1>4. npc' = f + 12 /\ npc' \in Nat  BY <1>2 DEF TableSwitch
<1>5. at' = "done" /\ low' = low /\ high' = high
  BY DEF TableSwitch, Jump
<1>6. pc' \in Int /\ pc' = sw.start + Target(sw)
  <2>1. CASE sw.key < Lo(sw) \/ sw.key > Hi(sw)
    <3>1. sw.key \notin Lo(sw) .. Hi(sw)  BY <2>1, <1>3
    <3>2. pc' = pc + Default(sw)  BY <2>1, <3>1, <1>2 DEF TableSwitch, Jump
    <3>3. Target(sw) = Default(sw)  BY <3>1, <1>1 DEF Target
    <3> QED  BY <3>2, <3>3, <1>1, <1>3
  <2>2. CASE sw.key \in Lo(sw) .. Hi(sw)
    <3> DEFINE lo == Lo(sw)  hi == Hi(sw)  key == sw.key  N == key - lo  p == npc'
    <3>11. /\ lo \in Int /\ hi \in Int /\ key \in lo .. hi /\ w \in Seq(Int)
          /\ Len(w) = 3 + hi - lo + 1 /\ f \in Nat /\ p = f + 12
      BY <2>2, <1>2, <1>3, <1>4
    <3> HIDE DEF lo, hi, key, w, f, p
    <3>12. /\ N + 3 \in 0 .. Len(w) - 1 /\ N + 3 + 1 = 4 + key - lo
          /\ N + 3 + 1 \in 1 .. Len(w) /\ p + N * 4 = f + 4 * (N + 3)
      BY <3>11
    <3>13. w[N + 3 + 1] \in Int  BY <3>11, <3>12
    <3> USE DEF lo, hi, key, w, f, p
    <3>1. /\ n + 3 \in 0 .. Len(w) - 1 /\ n + 3 + 1 = 4 + sw.key - Lo(sw)
          /\ n + 3 + 1 \in 1 .. Len(w)
      BY <3>12
    <3>2. getInt32(f + 4 * (n + 3)) = w[n + 3 + 1]  BY <3>1, <1>1, ReadWord
    <3>3. npc' + n * 4 = f + 4 * (n + 3)  BY <3>12
    <3>4. pc' = pc + getInt32(npc' + n * 4)
      <4>1. ~(sw.key < Lo(sw) \/ sw.key > Hi(sw))  BY <2>2, <1>3
      <4> QED  BY <4>1, <1>2 DEF TableSwitch, Jump
    <3>5. Target(sw) = Case(sw, sw.key)  BY <2>2, <1>1 DEF Target
    <3>6. Case(sw, sw.key) = w[n + 3 + 1]  BY <3>1 DEF Case
    <3>7. w[n + 3 + 1] \in Int  BY <3>13
    <3> QED  BY <3>2, <3>3, <3>4, <3>5, <3>6, <3>7, <1>1
  <2> QED  BY <2>1, <2>2, <1>3
<1>7. SwitchTypeOK'
  BY <1>4, <1>5, <1>6 DEF SwitchInv, SwitchTypeOK
<1> QED  BY <1>1, <1>5, <1>6, <1>7 DEF SwitchInv, FetchOK, SearchOK, JumpsRight

(* A lookupswitch starts the search with every pair, or has none.          *)
LEMMA LookupSwitchStep == SwitchInv /\ LookupSwitch => SwitchInv'
<1> SUFFICES ASSUME SwitchInv, LookupSwitch PROVE SwitchInv'  OBVIOUS
<1> DEFINE n == NPairs(sw)  f == FirstWord(sw.start)
<1>1. /\ sw \in Switches /\ sw.op = "lookupswitch" /\ pc = sw.start /\ sw' = sw /\ pc \in Int
      /\ low \in Nat /\ high \in Nat
  BY DEF SwitchInv, LookupSwitch, FetchOK, SwitchTypeOK
<1>2. Operands = f /\ f \in Nat /\ DefaultOff = Default(sw) /\ getInt32(Operands + 4) = n
  BY <1>1, ReadOperands DEF NPairs
<1>3. n \in Nat /\ Default(sw) \in Int
  BY <1>1, Operands32 DEF LookupFormat, NPairs, Default
<1>4. npc' = f + 8 /\ npc' \in Nat  BY <1>2 DEF LookupSwitch
<1>5. CASE n > 0
  <2>1. low' = 0 /\ high' = n /\ at' = "search" /\ pc' = pc
    BY <1>2, <1>3, <1>5 DEF LookupSwitch
  <2>2. SwitchTypeOK'  BY <2>1, <1>1, <1>3, <1>4, <1>5 DEF SwitchTypeOK
  <2> QED  BY <2>1, <2>2, <1>1, <1>3, <1>4 DEF SwitchInv, FetchOK, SearchOK, JumpsRight
<1>6. CASE n <= 0
  <2>1. low' = low /\ high' = high /\ at' = "done" /\ pc' = pc + Default(sw)
    BY <1>2, <1>3, <1>6 DEF LookupSwitch, Jump
  <2>2. \A k \in 0 .. n - 1 : Match(sw, k) # sw.key  BY <1>3, <1>6
  <2>3. Target(sw) = Default(sw)  BY <2>2, <1>1, TargetAbsent
  <2>4. SwitchTypeOK'  BY <2>1, <1>1, <1>3, <1>4 DEF SwitchTypeOK
  <2> QED  BY <2>1, <2>3, <2>4, <1>1 DEF SwitchInv, FetchOK, SearchOK, JumpsRight
<1> QED  BY <1>3, <1>5, <1>6

(* The middle of the search is one of its pairs, and is low only at its end. *)
LEMMA MidWithin ==
  ASSUME low \in Nat, high \in Nat, low < high
  PROVE  /\ Mid \in Nat /\ low <= Mid /\ Mid < high
         /\ Mid = low => high = low + 1
  BY DEF Mid

(* An iteration finds the key, gives up, or drops pairs that are not its.  *)
LEMMA SearchStep == SwitchInv /\ Search => SwitchInv'
<1> SUFFICES ASSUME SwitchInv, Search PROVE SwitchInv'  OBVIOUS
<1> DEFINE n == NPairs(sw)
<1>1. /\ sw \in Switches /\ sw' = sw /\ npc' = npc /\ at = "search"
      /\ pc \in Int /\ npc \in Nat /\ low \in Nat /\ high \in Nat /\ low < high /\ high <= n
      /\ sw.op = "lookupswitch" /\ pc = sw.start /\ npc = FirstWord(sw.start) + 8
  BY DEF SwitchInv, Search, SearchOK, SwitchTypeOK
<1>2. n \in Nat /\ Default(sw) \in Int /\ sw.key \in Int /\ Operands = FirstWord(sw.start)
      /\ DefaultOff = Default(sw)
  BY <1>1, Operands32, ReadOperands DEF LookupFormat, NPairs, Default
<1>3. Mid \in Nat /\ low <= Mid /\ Mid < high /\ Mid \in 0 .. n - 1
      /\ (Mid = low => high = low + 1)
  BY <1>1, <1>2, MidWithin
<1>4. \A k \in 0 .. n - 1 : /\ KeyAt(k) = Match(sw, k) /\ KeyAt(k) \in Int
                            /\ getInt32(npc + k * 8 + 4) = Offset(sw, k) /\ Offset(sw, k) \in Int
  BY <1>1, ReadPair
<1>5. \A j, k \in 0 .. n - 1 : j < k => Match(sw, j) < Match(sw, k)
  BY <1>1, Operands32 DEF LookupFormat
<1>6. \A k \in 0 .. n - 1 : Match(sw, k) = sw.key => low <= k /\ k < high
  BY <1>1 DEF SwitchInv, SearchOK
<1>7. CASE /\ sw.key = KeyAt(Mid) /\ Jump(getInt32(npc + Mid * 8 + 4))
           /\ UNCHANGED <<low, high>>
  <2>1. pc' = pc + Offset(sw, Mid) /\ Offset(sw, Mid) \in Int /\ at' = "done"
    BY <1>3, <1>4, <1>7 DEF Jump
  <2>2. Target(sw) = Offset(sw, Mid)  BY <1>1, <1>3, <1>4, <1>7, TargetFound
  <2>3. SwitchTypeOK'  BY <2>1, <1>1, <1>7 DEF SwitchTypeOK
  <2> QED  BY <2>1, <2>2, <2>3, <1>1 DEF SwitchInv, FetchOK, SearchOK, JumpsRight
<1>8. CASE sw.key # KeyAt(Mid) /\ Exhausted /\ Jump(DefaultOff) /\ UNCHANGED <<low, high>>
  <2>1. pc' = pc + Default(sw) /\ at' = "done"  BY <1>2, <1>8 DEF Jump
  <2>2. Mid = low /\ high = low + 1  BY <1>3, <1>8 DEF Exhausted
  <2>3. \A k \in 0 .. n - 1 : Match(sw, k) # sw.key
    <3> SUFFICES ASSUME NEW k \in 0 .. n - 1, Match(sw, k) = sw.key PROVE FALSE  OBVIOUS
    <3>1. low <= k /\ k < high  BY <1>6
    <3>2. k = Mid  BY <3>1, <2>2, <1>1, <1>2
    <3> QED  BY <3>2, <1>3, <1>4, <1>8
  <2>4. Target(sw) = Default(sw)  BY <2>3, <1>1, TargetAbsent
  <2>5. SwitchTypeOK'  BY <2>1, <1>1, <1>2, <1>8 DEF SwitchTypeOK
  <2> QED  BY <2>1, <2>4, <2>5, <1>1 DEF SwitchInv, FetchOK, SearchOK, JumpsRight
<1>9. CASE sw.key < KeyAt(Mid) /\ ~Exhausted /\ high' = Mid /\ UNCHANGED <<pc, low, at>>
  <2>1. low < Mid  BY <1>1, <1>3, <1>9 DEF Exhausted
  <2>2. SwitchTypeOK'  BY <2>1, <1>1, <1>2, <1>3, <1>9 DEF SwitchTypeOK
  <2>3. ASSUME NEW k \in 0 .. n - 1, Match(sw, k) = sw.key PROVE low <= k /\ k < Mid
    <3>1. k < Mid \/ k = Mid \/ Mid < k  BY <1>2, <1>3
    <3>2. k # Mid  BY <2>3, <1>2, <1>3, <1>4, <1>9
    <3>3. CASE Mid < k
      <4>1. Match(sw, Mid) < Match(sw, k)  BY <3>3, <1>3, <1>5
      <4>2. sw.key < Match(sw, Mid) /\ Match(sw, Mid) \in Int  BY <1>3, <1>4, <1>9
      <4> QED  BY <4>1, <4>2, <2>3, <1>2
    <3> QED  BY <3>1, <3>2, <3>3, <2>3, <1>6
  <2> QED  BY <2>2, <2>3, <1>1, <1>9 DEF SwitchInv, FetchOK, SearchOK, JumpsRight
<1>10. CASE sw.key > KeyAt(Mid) /\ ~Exhausted /\ low' = LowerBound(Mid) /\ UNCHANGED <<pc, high, at>>
  <2>1. low' = Mid  BY <1>10 DEF LowerBound
  <2>2. SwitchTypeOK'  BY <2>1, <1>1, <1>2, <1>3, <1>10 DEF SwitchTypeOK
  <2>3. ASSUME NEW k \in 0 .. n - 1, Match(sw, k) = sw.key PROVE Mid <= k /\ k < high
    <3>1. k < Mid \/ Mid <= k  BY <1>2, <1>3
    <3>2. CASE k < Mid
      <4>1. Match(sw, k) < Match(sw, Mid)  BY <3>2, <1>3, <1>5
      <4>2. sw.key > Match(sw, Mid) /\ Match(sw, Mid) \in Int  BY <1>3, <1>4, <1>10
      <4> QED  BY <4>1, <4>2, <2>3, <1>2
    <3> QED  BY <3>1, <3>2, <2>3, <1>6
  <2> QED  BY <2>1, <2>2, <2>3, <1>1, <1>10 DEF SwitchInv, FetchOK, SearchOK, JumpsRight
<1> QED  BY <1>7, <1>8, <1>9, <1>10 DEF Search

(* Every step keeps the invariant.                                         *)
LEMMA SwitchInvStep == SwitchInv /\ [SwitchNext]_switchVars => SwitchInv'
<1>1. SwitchInv /\ UNCHANGED switchVars => SwitchInv'
  BY DEF switchVars, SwitchInv, SwitchTypeOK, FetchOK, SearchOK, JumpsRight
<1> QED  BY <1>1, TableSwitchStep, LookupSwitchStep, SearchStep DEF SwitchNext

(* The registers keep their types and the search never leaves the pairs.   *)
THEOREM SwitchTypeCorrect == SwitchSpec => []SwitchTypeOK
<1>1. SwitchInv => SwitchTypeOK  BY DEF SwitchInv
<1> QED  BY <1>1, SwitchInvInit, SwitchInvStep, PTL DEF SwitchSpec

(* Both instructions go on at the case of the key, for every table, every  *)
(* key and every alignment.                                                *)
THEOREM SwitchJumpsRight == SwitchSpec => []JumpsRight
<1>1. SwitchInv => JumpsRight  BY DEF SwitchInv
<1> QED  BY <1>1, SwitchInvInit, SwitchInvStep, PTL DEF SwitchSpec

-----------------------------------------------------------------------------
(* The arrays.                                                             *)

(* A set of numbers has a least.                                           *)
LEMMA Least ==
  ASSUME NEW S \in SUBSET Nat, S # {}
  PROVE  \E m \in S : \A k \in S : m <= k
<1> DEFINE R == OpToRel(<, Nat)
<1>1. IsWellFoundedOn(R, Nat)  BY NatLessThanWellFounded
<1>2. PICK m \in S : \A k \in S : ~(<<k, m>> \in R)
  <2> HIDE DEF R
  <2> QED  BY <1>1, WFMin
<1>3. \A k \in S : ~(k < m)  BY <1>2 DEF OpToRel
<1>4. \A k \in S : m <= k  BY <1>3
<1> QED  BY <1>4

\* Partial sums of g.
Sums(n, g, m) == n = [k \in 0 .. m |-> IF k = 0 THEN 0 ELSE n[k - 1] + g[k]]

(* Partial sums are numbers.                                               *)
LEMMA SumsAre ==
  ASSUME NEW m \in Nat, NEW g, \A k \in 1 .. m : g[k] \in Int, NEW n, Sums(n, g, m)
  PROVE  n \in [0 .. m -> Int] /\ n[0] = 0 /\ \A k \in 1 .. m : n[k] = n[k - 1] + g[k]
<1>1. \A k \in 0 .. m : n[k] = IF k = 0 THEN 0 ELSE n[k - 1] + g[k]  BY DEF Sums
<1>2. n = [k \in 0 .. m |-> n[k]]
  <2> DEFINE E(f) == [k \in 0 .. m |-> IF k = 0 THEN 0 ELSE f[k - 1] + g[k]]
             R(f) == [k \in 0 .. m |-> f[k]]
  <2>1. n = E(n)  BY DEF Sums
  <2>2. E(n) = R(n)  BY <1>1
  <2> HIDE DEF E
  <2>3. n = R(n)  BY <2>1, <2>2
  <2> QED  BY <2>3, Zenon
<1> DEFINE B == {k \in 0 .. m : n[k] \notin Int}
<1>3. B = {}
  <2> SUFFICES ASSUME B # {} PROVE FALSE  OBVIOUS
  <2>1. B \in SUBSET Nat  OBVIOUS
  <2>2. PICK j \in B : \A k \in B : j <= k
    <3> HIDE DEF B
    <3> QED  BY <2>1, Least
  <2>3. j # 0  BY <1>1, <2>2
  <2>4. j \in 1 .. m /\ j - 1 \in 0 .. m /\ ~(j <= j - 1)  BY <2>2, <2>3
  <2>5. n[j - 1] \in Int  BY <2>2, <2>4
  <2>6. n[j] = n[j - 1] + g[j]  BY <1>1, <2>3, <2>4
  <2> QED  BY <2>2, <2>4, <2>5, <2>6
<1>4. \A k \in 0 .. m : n[k] \in Int  BY <1>3
<1>5. (\A k \in 1 .. m : k \in 0 .. m /\ k # 0) /\ 0 \in 0 .. m  OBVIOUS
<1>6. n \in [0 .. m -> Int]  BY ONLY <1>2, <1>4
<1> QED  BY <1>1, <1>5, <1>6

(* Every sequence of numbers has them.                                     *)
LEMMA SumsExist ==
  ASSUME NEW m \in Nat, NEW g, \A k \in 1 .. m : g[k] \in Int
  PROVE  \E n : Sums(n, g, m)
<1> DEFINE B == {k \in 0 .. m : ~\E n : Sums(n, g, k)}
<1>1. CASE B = {}  BY <1>1
<1>2. CASE B # {}
  <2>1. B \in SUBSET Nat  OBVIOUS
  <2>2. PICK j \in B : \A k \in B : j <= k
    <3> HIDE DEF B
    <3> QED  BY <1>2, <2>1, Least
  <2>3. j \in 0 .. m  OBVIOUS
  <2>4. CASE j = 0
    <3> DEFINE z == [k \in 0 .. 0 |-> 0]
    <3>1. z = [k \in 0 .. 0 |-> IF k = 0 THEN 0 ELSE z[k - 1] + g[k]]  OBVIOUS
    <3> HIDE DEF z
    <3> QED  BY <2>2, <2>4, <3>1 DEF Sums
  <2>5. CASE j # 0
    <3>1. j - 1 \in 0 .. m /\ j - 1 \in Nat /\ ~(j <= j - 1)  BY <2>3, <2>5
    <3>2. PICK n : Sums(n, g, j - 1)  BY <2>2, <3>1
    <3>3. \A k \in 1 .. j - 1 : g[k] \in Int  BY <2>3
    <3>4. n \in [0 .. j - 1 -> Int] /\ n[0] = 0 /\ \A k \in 1 .. j - 1 : n[k] = n[k - 1] + g[k]
      BY <3>1, <3>2, <3>3, SumsAre
    <3> DEFINE z == [k \in 0 .. j |-> IF k = j THEN n[j - 1] + g[j] ELSE n[k]]
    <3>5. \A k \in 0 .. j : z[k] = IF k = 0 THEN 0 ELSE z[k - 1] + g[k]
      <4>1. z[0] = 0  BY <2>3, <2>5, <3>4
      <4>2. ASSUME NEW k \in 1 .. j PROVE z[k] = z[k - 1] + g[k]
        <5>1. k - 1 \in 0 .. j /\ k - 1 # j /\ k \in 0 .. j  BY <2>3
        <5>2. z[k - 1] = n[k - 1]  BY <5>1
        <5>3. CASE k = j  BY <5>1, <5>2, <5>3
        <5>4. CASE k # j
          <6>1. k \in 1 .. j - 1  BY <2>3, <5>4
          <6>2. z[k] = n[k]  BY <5>1, <5>4
          <6> QED  BY <3>4, <5>2, <6>1, <6>2
        <5> QED  BY <5>3, <5>4
      <4>3. \A k \in 0 .. j : k = 0 \/ k \in 1 .. j  BY <2>3
      <4> HIDE DEF z
      <4> QED  BY <4>1, <4>2, <4>3
    <3>6. z = [k \in 0 .. j |-> z[k]]  OBVIOUS
    <3> HIDE DEF z
    <3>7. z = [k \in 0 .. j |-> IF k = 0 THEN 0 ELSE z[k - 1] + g[k]]  BY <3>5, <3>6
    <3> QED  BY <2>2, <3>7 DEF Sums
  <2> QED  BY <2>4, <2>5
<1> QED  BY <1>1, <1>2

---------------------------------------------------------------------------
Sizes == {1, 2, 4, 8}

(* Powers of the number of values of a byte.                               *)
LEMMA Powers ==
  /\ Power[0] = 1
  /\ \A k \in 1 .. 8 : Power[k] = Byte * Power[k - 1]
  /\ \A k \in 0 .. 8 : Power[k] \in Nat \ {0}
<1>1. Byte \in Nat \ {0}  BY ArraysAssumption
<1>2. PICK b1 \in Nat \ {0} : b1 = Byte * 1  BY <1>1
<1>3. PICK b2 \in Nat \ {0} : b2 = Byte * b1
  <2> Byte * b1 \in Nat \ {0}  BY <1>1
  <2> QED  OBVIOUS
<1>4. PICK b3 \in Nat \ {0} : b3 = Byte * b2
  <2> Byte * b2 \in Nat \ {0}  BY <1>1
  <2> QED  OBVIOUS
<1>5. PICK b4 \in Nat \ {0} : b4 = Byte * b3
  <2> Byte * b3 \in Nat \ {0}  BY <1>1
  <2> QED  OBVIOUS
<1>6. PICK b5 \in Nat \ {0} : b5 = Byte * b4
  <2> Byte * b4 \in Nat \ {0}  BY <1>1
  <2> QED  OBVIOUS
<1>7. PICK b6 \in Nat \ {0} : b6 = Byte * b5
  <2> Byte * b5 \in Nat \ {0}  BY <1>1
  <2> QED  OBVIOUS
<1>8. PICK b7 \in Nat \ {0} : b7 = Byte * b6
  <2> Byte * b6 \in Nat \ {0}  BY <1>1
  <2> QED  OBVIOUS
<1>9. PICK b8 \in Nat \ {0} : b8 = Byte * b7
  <2> Byte * b7 \in Nat \ {0}  BY <1>1
  <2> QED  OBVIOUS
<1> DEFINE p == [k \in 0 .. 8 |-> <<1, b1, b2, b3, b4, b5, b6, b7, b8>>[k + 1]]
           F(q) == [k \in 0 .. 8 |-> IF k = 0 THEN 1 ELSE LET below == q[k - 1] IN Byte * below]
<1>10. p = F(p)
  <2>1. p[0] = 1 /\ p[1] = b1 /\ p[2] = b2 /\ p[3] = b3 /\ p[4] = b4 /\ p[5] = b5 /\ p[6] = b6 /\ p[7] = b7 /\ p[8] = b8
    OBVIOUS
  <2>2. p = [k \in 0 .. 8 |-> p[k]]  OBVIOUS
  <2> HIDE DEF p
  <2>3. \A k \in 0 .. 8 : p[k] = IF k = 0 THEN 1 ELSE Byte * p[k - 1]
    <3>1. \A k \in 0 .. 8 : k = 0 \/ k = 1 \/ k = 2 \/ k = 3 \/ k = 4 \/ k = 5 \/ k = 6 \/ k = 7 \/ k = 8  OBVIOUS
    <3> QED  BY <2>1, <3>1, <1>2, <1>3, <1>4, <1>5, <1>6, <1>7, <1>8, <1>9
  <2> QED  BY <2>2, <2>3
<1>11. Power = CHOOSE q : q = F(q)  BY Zenon DEF Power
<1> HIDE DEF p
<1>12. Power = F(Power)
  <2> HIDE DEF F
  <2> QED  BY <1>10, <1>11
<1>13. \A k \in 0 .. 8 : Power[k] = IF k = 0 THEN 1 ELSE Byte * Power[k - 1]
  BY <1>12
<1>14. Power[0] = 1 /\ \A k \in 1 .. 8 : Power[k] = Byte * Power[k - 1]  BY <1>13
<1>15. \A k \in 1 .. 8 : Power[k - 1] \in Nat \ {0} => Power[k] \in Nat \ {0}
  <2> SUFFICES ASSUME NEW k \in 1 .. 8, Power[k - 1] \in Nat \ {0} PROVE Power[k] \in Nat \ {0}  OBVIOUS
  <2>1. PICK x \in Nat \ {0} : x = Power[k - 1]  OBVIOUS
  <2>2. Byte * x \in Nat \ {0}  BY <1>1
  <2> QED  BY <1>14, <2>1, <2>2
<1>16. \A k \in 0 .. 8 : Power[k] \in Nat \ {0}
  <2>1. Power[0] \in Nat \ {0}  BY <1>14
  <2>2. Power[1] \in Nat \ {0}  BY <1>15, <2>1
  <2>3. Power[2] \in Nat \ {0}  BY <1>15, <2>2
  <2>4. Power[3] \in Nat \ {0}  BY <1>15, <2>3
  <2>5. Power[4] \in Nat \ {0}  BY <1>15, <2>4
  <2>6. Power[5] \in Nat \ {0}  BY <1>15, <2>5
  <2>7. Power[6] \in Nat \ {0}  BY <1>15, <2>6
  <2>8. Power[7] \in Nat \ {0}  BY <1>15, <2>7
  <2>9. Power[8] \in Nat \ {0}  BY <1>15, <2>8
  <2> QED  BY <2>1, <2>2, <2>3, <2>4, <2>5, <2>6, <2>7, <2>8, <2>9
<1> QED  BY <1>14, <1>16

\* What Decode adds up.
Number(bytes, o, size) ==
  CHOOSE n : n = [k \in 0 .. size |-> IF k = 0 THEN 0 ELSE LET lower == n[k - 1] IN lower + bytes[o + k] * Power[k - 1]]
Wrapped(x, all) == ((x + all \div 2) % all) - all \div 2

(* Decode, without its recursion.                                          *)
LEMMA DecodeIs ==
  ASSUME NEW bytes, NEW o, NEW size
  PROVE  Decode(bytes, o, size) = Wrapped(Number(bytes, o, size)[size], Power[size])
BY Zenon DEF Decode, Number, Wrapped

(* The sum is a sum.                                                       *)
LEMMA NumberIs ==
  ASSUME NEW bytes, NEW o \in Int, NEW size \in 0 .. 8, \A k \in 1 .. size : bytes[o + k] \in Int
  PROVE  LET n == Number(bytes, o, size) IN
         /\ n \in [0 .. size -> Int] /\ n[0] = 0
         /\ \A k \in 1 .. size : n[k] = n[k - 1] + bytes[o + k] * Power[k - 1]
<1> DEFINE g == [k \in 1 .. size |-> bytes[o + k] * Power[k - 1]]
           G(n) == [k \in 0 .. size |-> IF k = 0 THEN 0 ELSE LET lower == n[k - 1] IN lower + bytes[o + k] * Power[k - 1]]
<1>1. \A k \in 1 .. size : k - 1 \in 0 .. 8 /\ Power[k - 1] \in Int  BY Powers
<1>2. \A k \in 1 .. size : g[k] = bytes[o + k] * Power[k - 1]  OBVIOUS
<1>3. \A k \in 1 .. size : g[k] \in Int  BY <1>1, <1>2
<1>4. ASSUME NEW n PROVE n = G(n) <=> Sums(n, g, size)
  <2>1. \A k \in 0 .. size : k # 0 => k \in 1 .. size  OBVIOUS
  <2> HIDE DEF g
  <2>2. G(n) = [k \in 0 .. size |-> IF k = 0 THEN 0 ELSE n[k - 1] + g[k]]  BY <1>2, <2>1
  <2> HIDE DEF G
  <2> QED  BY <2>2 DEF Sums
<1> HIDE DEF g
<1>5. size \in Nat  OBVIOUS
<1>6. PICK m : Sums(m, g, size)  BY <1>3, <1>5, SumsExist
<1>7. Number(bytes, o, size) = CHOOSE n : n = G(n)  BY DEF Number
<1> HIDE DEF G
<1>8. m = G(m)  BY <1>4, <1>6
<1>9. Number(bytes, o, size) = G(Number(bytes, o, size))  BY <1>7, <1>8
<1>10. PICK n : n = Number(bytes, o, size)  OBVIOUS
<1>11. Sums(n, g, size)  BY <1>4, <1>9, <1>10
<1>12. n \in [0 .. size -> Int] /\ n[0] = 0 /\ \A k \in 1 .. size : n[k] = n[k - 1] + g[k]
  BY <1>3, <1>5, <1>11, SumsAre
<1> QED  BY <1>2, <1>10, <1>12

\* The same bytes from o1 on as from o2 on.
Same(b1, o1, b2, o2, size) == \A k \in 1 .. size : b1[o1 + k] \in Int /\ b1[o1 + k] = b2[o2 + k]
(* Decode reads the bytes of the element and no others.                    *)
LEMMA SameBytes ==
  ASSUME NEW b1, NEW o1 \in Int, NEW b2, NEW o2 \in Int, NEW size \in 0 .. 8,
         Same(b1, o1, b2, o2, size)
  PROVE  Decode(b1, o1, size) = Decode(b2, o2, size)
<1>1. PICK n1 : n1 = Number(b1, o1, size)  OBVIOUS
<1>2. PICK n2 : n2 = Number(b2, o2, size)  OBVIOUS
<1>3. /\ n1 \in [0 .. size -> Int] /\ n1[0] = 0
      /\ \A k \in 1 .. size : n1[k] = n1[k - 1] + b1[o1 + k] * Power[k - 1]
  BY <1>1, NumberIs DEF Same
<1>4. /\ n2 \in [0 .. size -> Int] /\ n2[0] = 0
      /\ \A k \in 1 .. size : n2[k] = n2[k - 1] + b2[o2 + k] * Power[k - 1]
  BY <1>2, NumberIs DEF Same
<1> DEFINE B == {k \in 0 .. size : n1[k] # n2[k]}
<1>5. B = {}
  <2> SUFFICES ASSUME B # {} PROVE FALSE  OBVIOUS
  <2>1. B \in SUBSET Nat  OBVIOUS
  <2>2. PICK j \in B : \A k \in B : j <= k
    <3> HIDE DEF B
    <3> QED  BY <2>1, Least
  <2>3. j # 0  BY <1>3, <1>4, <2>2
  <2>4. j \in 1 .. size /\ j - 1 \in 0 .. size /\ ~(j <= j - 1)  BY <2>2, <2>3
  <2>5. n1[j - 1] = n2[j - 1]  BY <2>2, <2>4
  <2>6. b1[o1 + j] = b2[o2 + j]  BY <2>4 DEF Same
  <2>7. n1[j] = n2[j]  BY <1>3, <1>4, <2>4, <2>5, <2>6
  <2> QED  BY <2>2, <2>7
<1>6. size \in 0 .. size  OBVIOUS
<1>7. n1[size] = n2[size]  BY <1>5, <1>6
<1> QED  BY <1>1, <1>2, <1>7, DecodeIs

(* Quotient and remainder are what they are known by.                      *)
LEMMA DivMod ==
  ASSUME NEW x \in Int, NEW m \in Nat \ {0}, NEW q \in Int, NEW r \in 0 .. m - 1, x = m * q + r
  PROVE  x % m = r /\ x \div m = q
<1>1. PICK d \in Int, s \in Int : d = x \div m /\ s = x % m
  <2>1. x \div m \in Int /\ x % m \in Int  OBVIOUS
  <2> QED  BY <2>1
<1>2. x = m * d + s /\ 0 <= s /\ s < m  BY <1>1
<1>3. m * q + r = m * d + s  BY <1>2
<1>4. ~(q > d)
  <2> SUFFICES ASSUME q > d PROVE FALSE  OBVIOUS
  <2>1. PICK e \in Nat : q = d + 1 + e
    <3>1. q - d - 1 \in Nat /\ q = d + 1 + (q - d - 1)  OBVIOUS
    <3> QED  BY <3>1
  <2>2. m * q = m * d + m + m * e  BY <2>1
  <2>3. m * e \in Nat /\ m * d \in Int  OBVIOUS
  <2> QED  BY <1>2, <1>3, <2>2, <2>3
<1>5. ~(d > q)
  <2> SUFFICES ASSUME d > q PROVE FALSE  OBVIOUS
  <2>1. PICK e \in Nat : d = q + 1 + e
    <3>1. d - q - 1 \in Nat /\ d = q + 1 + (d - q - 1)  OBVIOUS
    <3> QED  BY <3>1
  <2>2. m * d = m * q + m + m * e  BY <2>1
  <2>3. m * e \in Nat /\ m * q \in Int  OBVIOUS
  <2> QED  BY <1>2, <1>3, <2>2, <2>3
<1>6. d = q  BY <1>4, <1>5
<1>7. m * q \in Int  OBVIOUS
<1>8. s = r  BY <1>3, <1>6, <1>7
<1> QED  BY <1>1, <1>6, <1>8

(* A number is its quotient and its remainder.                             *)
LEMMA Divided ==
  ASSUME NEW x \in Int, NEW m \in Nat \ {0}
  PROVE  x \div m \in Int /\ x % m \in 0 .. m - 1 /\ x = m * (x \div m) + (x % m)
OBVIOUS

(* One digit more.                                                         *)
LEMMA NextDigit ==
  ASSUME NEW v \in Int, NEW all \in Nat \ {0}, NEW base \in Nat \ {0}
  PROVE  v % (base * all) = (v % all) + ((v \div all) % base) * all
<1>1. PICK q \in Int, r \in 0 .. all - 1 : q = v \div all /\ r = v % all /\ v = all * q + r
  BY Divided
<1>2. PICK d \in Int, s \in 0 .. base - 1 : d = q \div base /\ s = q % base /\ q = base * d + s
  BY Divided
<1>3. base * all \in Nat \ {0}  OBVIOUS
<1>4. all * s + r \in 0 .. base * all - 1
  <2>1. PICK e \in Nat : base = s + 1 + e
    <3>1. base - s - 1 \in Nat /\ base = s + 1 + (base - s - 1)  OBVIOUS
    <3> QED  BY <3>1
  <2>2. base * all = all * s + all + all * e  BY <2>1
  <2>3. all * s \in Nat /\ all * e \in Nat  OBVIOUS
  <2> QED  BY <2>2, <2>3
<1>5. v = (base * all) * d + (all * s + r)
  <2>1. all * q = all * (base * d) + all * s  BY <1>2
  <2>2. all * (base * d) = (base * all) * d  OBVIOUS
  <2>3. all * q \in Int /\ all * s \in Int /\ (base * all) * d \in Int  BY <1>3
  <2> QED  BY <1>1, <2>1, <2>2, <2>3
<1>6. PICK m \in Nat \ {0} : m = base * all  BY <1>3
<1>7. PICK t \in 0 .. m - 1 : t = all * s + r  BY <1>4, <1>6
<1>8. v % m = t  BY <1>5, <1>6, <1>7, DivMod
<1>9. t = r + s * all  BY <1>7
<1> QED  BY <1>1, <1>2, <1>6, <1>8, <1>9

(* Digits that are those of v add up to v, cut off.                        *)
LEMMA Digits ==
  ASSUME NEW bytes, NEW o \in Int, NEW size \in 0 .. 8, NEW v \in Int,
         \A k \in 1 .. size : bytes[o + k] = (v \div Power[k - 1]) % Byte
  PROVE  Number(bytes, o, size)[size] = v % Power[size]
<1>1. PICK n : n = Number(bytes, o, size)  OBVIOUS
<1>2. Byte \in Nat \ {0}  BY ArraysAssumption
<1>3. ASSUME NEW k \in 1 .. size
      PROVE  /\ Power[k - 1] \in Nat \ {0} /\ Power[k] = Byte * Power[k - 1]
             /\ v \div Power[k - 1] \in Int /\ bytes[o + k] \in Int
  <2>1. PICK p \in Nat \ {0} : p = Power[k - 1]
    <3>1. k - 1 \in 0 .. 8  OBVIOUS
    <3> QED  BY <3>1, Powers
  <2>2. PICK d \in Int : d = v \div p  BY Divided
  <2>3. d % Byte \in Int  BY <1>2
  <2>4. k \in 1 .. 8  OBVIOUS
  <2> QED  BY <2>1, <2>2, <2>3, <2>4, Powers
<1>4. /\ n \in [0 .. size -> Int] /\ n[0] = 0
      /\ \A k \in 1 .. size : n[k] = n[k - 1] + bytes[o + k] * Power[k - 1]
  <2>1. \A k \in 1 .. size : bytes[o + k] \in Int  BY <1>3
  <2> QED  BY <1>1, <2>1, NumberIs
<1> DEFINE B == {k \in 0 .. size : n[k] # v % Power[k]}
<1>5. B = {}
  <2> SUFFICES ASSUME B # {} PROVE FALSE  OBVIOUS
  <2>1. B \in SUBSET Nat  OBVIOUS
  <2>2. PICK j \in B : \A k \in B : j <= k
    <3> HIDE DEF B
    <3> QED  BY <2>1, Least
  <2>3. j # 0
    <3>1. v % 1 = 0  OBVIOUS
    <3> QED  BY <1>4, <2>2, <3>1, Powers
  <2>4. j \in 1 .. size /\ j - 1 \in 0 .. size /\ ~(j <= j - 1)  BY <2>2, <2>3
  <2>5. n[j - 1] = v % Power[j - 1]  BY <2>2, <2>4
  <2>6. PICK p \in Nat \ {0} : p = Power[j - 1]  BY <1>3, <2>4
  <2>7. Power[j] = Byte * p  BY <1>3, <2>4, <2>6
  <2>8. n[j] = (v % p) + ((v \div p) % Byte) * p  BY <1>4, <2>4, <2>5, <2>6
  <2>9. n[j] = v % Power[j]  BY <1>2, <2>7, <2>8, NextDigit
  <2> QED  BY <2>2, <2>9
<1>6. size \in 0 .. size  OBVIOUS
<1> QED  BY <1>1, <1>5, <1>6

(* To wrap around once is enough.                                          *)
LEMMA WrappedOnce ==
  ASSUME NEW v \in Int, NEW all \in Nat \ {0}
  PROVE  Wrapped(v % all, all) = Wrapped(v, all)
<1>1. PICK q \in Int, r \in 0 .. all - 1 : q = v \div all /\ r = v % all /\ v = all * q + r  BY Divided
<1>2. PICK h \in Int : h = all \div 2  BY Divided
<1>3. PICK d \in Int, s \in 0 .. all - 1 : d = (r + h) \div all /\ s = (r + h) % all /\ r + h = all * d + s
  <2>1. r + h \in Int  OBVIOUS
  <2> QED  BY <2>1, Divided
<1>4. v + h = all * (q + d) + s
  <2>1. all * (q + d) = all * q + all * d  OBVIOUS
  <2>2. PICK x \in Int, y \in Int : x = all * q /\ y = all * d  OBVIOUS
  <2>3. v = x + r /\ r + h = y + s  BY <1>1, <1>3, <2>2
  <2>4. v + h = x + y + s  BY ONLY <2>3, v \in Int, x \in Int, y \in Int, r \in Int, s \in Int, h \in Int
  <2> QED  BY <2>1, <2>2, <2>4
<1>5. v + h \in Int /\ q + d \in Int  OBVIOUS
<1>6. (v + h) % all = s  BY <1>4, <1>5, DivMod
<1> QED  BY <1>1, <1>2, <1>3, <1>6 DEF Wrapped

(* An element that was written is read as what fits in it.                 *)
LEMMA Encoded ==
  ASSUME NEW bytes, NEW o \in Int, NEW size \in 0 .. 8, NEW v \in Int, o + 1 .. o + size \subseteq DOMAIN bytes
  PROVE  Decode(Encode(bytes, o, size, v), o, size) = Wrapped(v, Power[size])
<1>1. PICK e : e = Encode(bytes, o, size, v)  OBVIOUS
<1>2. \A k \in 1 .. size : e[o + k] = (v \div Power[k - 1]) % Byte
  <2> SUFFICES ASSUME NEW k \in 1 .. size PROVE e[o + k] = (v \div Power[k - 1]) % Byte  OBVIOUS
  <2>1. PICK b \in Int : b = o + k  OBVIOUS
  <2>2. b \in DOMAIN bytes /\ b - o = k /\ b - o - 1 = k - 1  BY <2>1
  <2>3. e[b] = (v \div Power[b - o - 1]) % Byte  BY <1>1, <2>2 DEF Encode
  <2> QED  BY <2>1, <2>2, <2>3
<1>3. Number(e, o, size)[size] = v % Power[size]  BY <1>2, Digits
<1>4. Power[size] \in Nat \ {0}  BY Powers
<1> QED  BY <1>1, <1>3, <1>4, DecodeIs, WrappedOnce

(* New elements are zero.                                                  *)
LEMMA Zeros ==
  ASSUME NEW bytes, NEW o \in Int, NEW size \in 0 .. 8, \A k \in 1 .. size : bytes[o + k] = 0
  PROVE  Decode(bytes, o, size) = 0
<1>1. Byte \in Nat \ {0}  BY ArraysAssumption
<1>2. \A m \in Nat \ {0} : 0 \div m = 0 /\ 0 % m = 0
  <2> SUFFICES ASSUME NEW m \in Nat \ {0} PROVE 0 \div m = 0 /\ 0 % m = 0  OBVIOUS
  <2>1. 0 = m * 0 + 0 /\ 0 \in 0 .. m - 1  OBVIOUS
  <2> QED  BY <2>1, DivMod
<1>3. \A k \in 1 .. size : bytes[o + k] = (0 \div Power[k - 1]) % Byte
  <2> SUFFICES ASSUME NEW k \in 1 .. size PROVE 0 = (0 \div Power[k - 1]) % Byte  OBVIOUS
  <2>1. k - 1 \in 0 .. 8  OBVIOUS
  <2>2. 0 \div Power[k - 1] = 0  BY <1>2, <2>1, Powers
  <2> QED  BY <1>1, <1>2, <2>2
<1>4. PICK all \in Nat \ {0} : all = Power[size]  BY Powers
<1>5. Number(bytes, o, size)[size] = 0  BY <1>2, <1>3, <1>4, Digits
<1>6. PICK h \in Int : h = all \div 2 /\ h \in 0 .. all - 1  OBVIOUS
<1>7. 0 + h = all * 0 + h /\ 0 + h \in Int  OBVIOUS
<1>8. (0 + h) % all = h  BY <1>6, <1>7, DivMod
<1> QED  BY <1>4, <1>5, <1>6, <1>8, DecodeIs DEF Wrapped

---------------------------------------------------------------------------
Blocks == [type : Types, len : Lengths, bytes : Seq(0 .. Byte - 1)]
SizeOf(a) == arrayTypeSize(arrays[a].type)
Room(a) == Promised(arrays[a].type, arrays[a].len) => arrays[a].len * SizeOf(a) <= Len(arrays[a].bytes)
BlocksOK ==
  /\ DOMAIN arrays \subseteq Ref /\ arrays \in [DOMAIN arrays -> Blocks]
  /\ \A a \in DOMAIN arrays : Room(a)
OpOK == op = Idle \/ op \in Instructions(DOMAIN arrays \cup {Null}, Accessible \cup {Null})
ArraysInv == BlocksOK /\ OpOK /\ process \in {"runs", "over", "corrupt"}

(* The sizes of elements.                                                  *)
LEMMA TypeSizes ==
  ASSUME NEW t \in Types
  PROVE  arrayTypeSize(t) \in Sizes
<1>1. t \in {"boolean", "byte", "char", "short", "float", "int", "object", "array", "double", "long"}
  BY ArraysAssumption
<1> QED  BY <1>1 DEF arrayTypeSize, Sizes

(* An instruction names what there is.                                     *)
LEMMA ArrayOperands ==
  ASSUME OpOK, op # Idle
  PROVE  /\ op.do \in {"create", "load", "store", "length", "copy"}
         /\ op.do = "create" => op.type \in Types /\ op.n \in Lengths
         /\ op.do = "load" => op.a \in Accessible \cup {Null} /\ op.i \in Indices
         /\ op.do = "store" => op.a \in Accessible \cup {Null} /\ op.i \in Indices /\ op.v \in Stored
         /\ op.do = "length" => op.a \in DOMAIN arrays \cup {Null}
         /\ op.do = "copy" =>
              /\ op.s \in DOMAIN arrays \cup {Null} /\ op.d \in DOMAIN arrays \cup {Null}
              /\ op.bs \in Starts /\ op.bd \in Starts /\ op.n \in Counts
BY DEF OpOK, Instructions

(* What is known of a block.                                               *)
LEMMA Block ==
  ASSUME BlocksOK, NEW a \in DOMAIN arrays
  PROVE  /\ arrays[a] \in Blocks /\ arrays[a].type \in Types /\ arrays[a].len \in Lengths
         /\ arrays[a].len \in Int /\ SizeOf(a) \in Sizes
         /\ arrays[a].bytes \in Seq(0 .. Byte - 1) /\ Len(arrays[a].bytes) \in Nat
         /\ DOMAIN arrays[a].bytes = 1 .. Len(arrays[a].bytes)
         /\ \A k \in 1 .. Len(arrays[a].bytes) : arrays[a].bytes[k] \in 0 .. Byte - 1 /\ arrays[a].bytes[k] \in Int
<1>1. arrays[a] \in Blocks  BY DEF BlocksOK
<1>2. arrays[a].type \in Types /\ arrays[a].len \in Lengths /\ arrays[a].bytes \in Seq(0 .. Byte - 1)
  BY <1>1 DEF Blocks
<1>3. arrays[a].len \in Int  BY <1>2, ArraysAssumption
<1>4. SizeOf(a) \in Sizes  BY <1>2, TypeSizes DEF SizeOf
<1>5. Byte \in Nat  BY ArraysAssumption
<1> QED  BY <1>1, <1>2, <1>3, <1>4, <1>5

\* Array a gets other bytes.
Rewritten(a, bytes) == arrays' = [arrays EXCEPT ![a].bytes = bytes]
(* The other arrays keep theirs, and a its type and length.                *)
LEMMA RewrittenIs ==
  ASSUME BlocksOK, NEW a \in DOMAIN arrays, NEW bytes, Rewritten(a, bytes)
  PROVE  /\ DOMAIN arrays' = DOMAIN arrays
         /\ arrays'[a].bytes = bytes
         /\ \A x \in DOMAIN arrays :
              /\ arrays'[x].type = arrays[x].type /\ arrays'[x].len = arrays[x].len
              /\ x # a => arrays'[x] = arrays[x]
<1>1. \A x \in DOMAIN arrays : arrays[x] \in Blocks  BY Block
<1> QED  BY <1>1 DEF Rewritten, Blocks

(* Rewritten with bytes of its number, it is still a block.                *)
LEMMA RewrittenKeeps ==
  ASSUME BlocksOK, NEW a \in DOMAIN arrays, NEW bytes, Rewritten(a, bytes),
         bytes \in Seq(0 .. Byte - 1), Len(bytes) = Len(arrays[a].bytes)
  PROVE  BlocksOK' /\ Accessible' = Accessible
<1>1. /\ DOMAIN arrays' = DOMAIN arrays /\ arrays'[a].bytes = bytes
      /\ \A x \in DOMAIN arrays :
           /\ arrays'[x].type = arrays[x].type /\ arrays'[x].len = arrays[x].len
           /\ x # a => arrays'[x] = arrays[x]
  BY RewrittenIs
<1>2. \A x \in DOMAIN arrays : arrays'[x] \in Blocks
  <2>1. \A x \in DOMAIN arrays : arrays[x] \in Blocks  BY Block
  <2> QED  BY <2>1 DEF Rewritten, Blocks
<1>3. arrays' \in [DOMAIN arrays -> Blocks]  BY <1>2 DEF Rewritten
<1>4. ASSUME NEW x \in DOMAIN arrays PROVE Room(x)'
  <2>1. Room(x)  BY DEF BlocksOK
  <2>2. Len(arrays'[x].bytes) = Len(arrays[x].bytes)  BY <1>1
  <2> QED  BY <1>1, <2>1, <2>2 DEF Room, SizeOf, Promised, arrayTypeSize
<1>5. Accessible' = Accessible  BY <1>1 DEF Accessible
<1> QED  BY <1>1, <1>3, <1>4, <1>5 DEF BlocksOK

(* A function on 1 .. m is a sequence.                                     *)
LEMMA AsSeq ==
  ASSUME NEW S, NEW m \in Nat, NEW f \in [1 .. m -> S]
  PROVE  f \in Seq(S) /\ Len(f) = m
OBVIOUS

(* And a sequence is one.                                                  *)
LEMMA SeqAs ==
  ASSUME NEW S, NEW s \in Seq(S)
  PROVE  Len(s) \in Nat /\ DOMAIN s = 1 .. Len(s) /\ \A k \in 1 .. Len(s) : s[k] \in S
OBVIOUS

(* What is written into a block is bytes.                                  *)
LEMMA EncodeType ==
  ASSUME NEW bytes \in Seq(0 .. Byte - 1), NEW o \in Int, NEW size \in Sizes, NEW v \in Int
  PROVE  /\ Encode(bytes, o, size, v) \in Seq(0 .. Byte - 1)
         /\ Len(Encode(bytes, o, size, v)) = Len(bytes)
         /\ \A k \in DOMAIN bytes : k - o \notin 1 .. size => Encode(bytes, o, size, v)[k] = bytes[k]
<1>1. Byte \in Nat \ {0}  BY ArraysAssumption
<1>2. PICK m \in Nat : m = Len(bytes)  OBVIOUS
<1>3. DOMAIN bytes = 1 .. m /\ \A k \in 1 .. m : bytes[k] \in 0 .. Byte - 1  BY <1>2, SeqAs
<1>4. PICK e : e = Encode(bytes, o, size, v)  OBVIOUS
<1>5. e = [k \in 1 .. m |-> IF k - o \in 1 .. size THEN (v \div Power[k - o - 1]) % Byte ELSE bytes[k]]
  BY <1>3, <1>4 DEF Encode
<1>6. \A k \in 1 .. m : e[k] \in 0 .. Byte - 1
  <2> SUFFICES ASSUME NEW k \in 1 .. m PROVE e[k] \in 0 .. Byte - 1  OBVIOUS
  <2>1. CASE k - o \in 1 .. size
    <3>1. k - o - 1 \in 0 .. 8  BY <2>1 DEF Sizes
    <3>2. PICK p \in Nat \ {0} : p = Power[k - o - 1]  BY <3>1, Powers
    <3>3. PICK d \in Int : d = v \div p  BY Divided
    <3>4. e[k] = d % Byte  BY <1>5, <2>1, <3>2, <3>3
    <3> QED  BY <1>1, <3>4
  <2>2. CASE k - o \notin 1 .. size  BY <1>3, <1>5, <2>2
  <2> QED  BY <2>1, <2>2
<1>7. DOMAIN e = 1 .. m  BY <1>5
<1>8. e \in Seq(0 .. Byte - 1) /\ Len(e) = m
  <2>1. e = [k \in 1 .. m |-> e[k]]  BY <1>5
  <2>2. e \in [1 .. m -> 0 .. Byte - 1]  BY <1>6, <2>1
  <2> QED  BY <1>2, <2>2, AsSeq
<1> QED  BY <1>2, <1>3, <1>4, <1>5, <1>8

\* The byte that memcpy moves to the k-th place.
Moved(s, from, d, to, n, k, up) == IF up THEN Upwards(s, from, d, to, n, k) ELSE Downwards(s, from, d, to, n, k)
Copied(s, from, d, to, n, up) ==
  [b \in DOMAIN arrays[d].bytes |->
     LET k == b - to IN
     IF k \notin 1 .. n THEN arrays[d].bytes[b] ELSE arrays[s].bytes[Moved(s, from, d, to, n, k, up)]]

(* It is one of those that are to be copied, and that at the same place if *)
(* the parts have no byte in common.                                       *)
LEMMA MovedFrom ==
  ASSUME NEW s, NEW d, NEW from \in Nat, NEW to \in Nat, NEW n \in Nat, NEW k \in 1 .. n, NEW up \in BOOLEAN
  PROVE  /\ Moved(s, from, d, to, n, k, up) \in from + 1 .. from + n
         /\ s # d \/ from + n <= to \/ to + n <= from => Moved(s, from, d, to, n, k, up) = from + k
<1>1. CASE up /\ s = d /\ from < to
  <2>1. PICK m \in Nat \ {0} : m = to - from  BY <1>1
  <2>2. PICK q \in Int, r \in 0 .. m - 1 : q = (k - 1) \div m /\ r = (k - 1) % m /\ k - 1 = m * q + r
    <3>1. k - 1 \in Int  OBVIOUS
    <3> QED  BY <3>1, Divided
  <2>3. r <= k - 1
    <3>1. CASE q < 0
      <4>1. PICK e \in Nat : q = -1 - e
        <5>1. -1 - q \in Nat /\ q = -1 - (-1 - q)  BY <3>1
        <5> QED  BY <5>1
      <4>2. m * q = -m - m * e /\ m * e \in Nat  BY <4>1
      <4> QED  BY <2>2, <4>2
    <3>2. CASE q >= 0
      <4>1. m * q \in Nat  BY <3>2
      <4> QED  BY <2>2, <4>1
    <3> QED  BY <3>1, <3>2
  <2>4. n <= m => r = k - 1
    <3> SUFFICES ASSUME n <= m PROVE r = k - 1  OBVIOUS
    <3>1. k - 1 \in 0 .. m - 1 /\ k - 1 = m * 0 + (k - 1) /\ k - 1 \in Int  OBVIOUS
    <3> QED  BY <2>2, <3>1, DivMod
  <2>5. Moved(s, from, d, to, n, k, up) = from + (r + 1)  BY <1>1, <2>1, <2>2 DEF Moved, Upwards
  <2>6. r + 1 \in 1 .. n  BY <2>2, <2>3
  <2>7. s # d \/ from + n <= to \/ to + n <= from => n <= m  BY <1>1, <2>1
  <2> QED  BY <2>4, <2>5, <2>6, <2>7
<1>2. CASE ~up /\ s = d /\ from > to
  <2>1. PICK m \in Nat \ {0} : m = from - to  BY <1>2
  <2>2. PICK q \in Int, r \in 0 .. m - 1 : q = (n - k) \div m /\ r = (n - k) % m /\ n - k = m * q + r
    <3>1. n - k \in Int  OBVIOUS
    <3> QED  BY <3>1, Divided
  <2>3. r <= n - k
    <3>1. CASE q < 0
      <4>1. PICK e \in Nat : q = -1 - e
        <5>1. -1 - q \in Nat /\ q = -1 - (-1 - q)  BY <3>1
        <5> QED  BY <5>1
      <4>2. m * q = -m - m * e /\ m * e \in Nat  BY <4>1
      <4> QED  BY <2>2, <4>2
    <3>2. CASE q >= 0
      <4>1. m * q \in Nat  BY <3>2
      <4> QED  BY <2>2, <4>1
    <3> QED  BY <3>1, <3>2
  <2>4. n <= m => r = n - k
    <3> SUFFICES ASSUME n <= m PROVE r = n - k  OBVIOUS
    <3>1. n - k \in 0 .. m - 1 /\ n - k = m * 0 + (n - k) /\ n - k \in Int  OBVIOUS
    <3> QED  BY <2>2, <3>1, DivMod
  <2>5. Moved(s, from, d, to, n, k, up) = from + (n - r)  BY <1>2, <2>1, <2>2 DEF Moved, Downwards
  <2> QED  BY <1>2, <2>1, <2>3, <2>4, <2>5
<1>3. CASE ~(up /\ s = d /\ from < to) /\ ~(~up /\ s = d /\ from > to)
  <2>1. Moved(s, from, d, to, n, k, up) = from + k  BY <1>3 DEF Moved, Upwards, Downwards
  <2> QED  BY <2>1
<1> QED  BY <1>1, <1>2, <1>3

(* What is copied into a block is bytes.                                   *)
LEMMA CopiedType ==
  ASSUME BlocksOK, NEW s \in DOMAIN arrays, NEW d \in DOMAIN arrays, NEW up \in BOOLEAN,
         NEW from \in Nat, NEW to \in Nat, NEW n \in Nat,
         n > 0 => InBlock(s, from, n) /\ InBlock(d, to, n)
  PROVE  /\ Copied(s, from, d, to, n, up) \in Seq(0 .. Byte - 1)
         /\ Len(Copied(s, from, d, to, n, up)) = Len(arrays[d].bytes)
<1>1. PICK ms \in Nat, md \in Nat : ms = Len(arrays[s].bytes) /\ md = Len(arrays[d].bytes)  BY Block
<1>2. /\ DOMAIN arrays[d].bytes = 1 .. md
      /\ \A k \in 1 .. md : arrays[d].bytes[k] \in 0 .. Byte - 1
      /\ \A k \in 1 .. ms : arrays[s].bytes[k] \in 0 .. Byte - 1
  BY <1>1, Block
<1>3. PICK c : c = Copied(s, from, d, to, n, up)  OBVIOUS
<1>4. c = [b \in 1 .. md |->
            LET k == b - to IN
            IF k \notin 1 .. n THEN arrays[d].bytes[b] ELSE arrays[s].bytes[Moved(s, from, d, to, n, k, up)]]
  BY <1>2, <1>3 DEF Copied
<1>5. \A b \in 1 .. md : c[b] \in 0 .. Byte - 1
  <2> SUFFICES ASSUME NEW b \in 1 .. md PROVE c[b] \in 0 .. Byte - 1  OBVIOUS
  <2>1. CASE b - to \in 1 .. n
    <3>1. PICK k \in 1 .. n : k = b - to  BY <2>1
    <3>2. PICK m : m = Moved(s, from, d, to, n, k, up)  OBVIOUS
    <3>3. m \in from + 1 .. from + n  BY <3>2, MovedFrom
    <3>4. n > 0  BY <3>1
    <3>5. m \in 1 .. ms  BY <1>1, <3>3, <3>4 DEF InBlock
    <3>6. c[b] = arrays[s].bytes[m]  BY <1>4, <3>1, <3>2
    <3> QED  BY <1>2, <3>5, <3>6
  <2>2. CASE b - to \notin 1 .. n
    <3>1. c[b] = arrays[d].bytes[b]  BY <1>4, <2>2
    <3> QED  BY <1>2, <3>1
  <2> QED  BY <2>1, <2>2
<1>6. c \in [1 .. md -> 0 .. Byte - 1]
  <2>1. c = [b \in 1 .. md |-> c[b]]  BY <1>4
  <2> QED  BY <1>5, <2>1
<1>7. c \in Seq(0 .. Byte - 1) /\ Len(c) = md  BY <1>1, <1>6, AsSeq
<1> QED  BY <1>1, <1>3, <1>7

---------------------------------------------------------------------------
(* Each instruction leaves blocks.                                         *)
\* Sizes are words.
LEMMA Unsigned ==
  ASSUME NEW n \in Int
  PROVE  ToUint(n) \in Nat /\ ToUint(n) < Word /\ (n \in 0 .. Word - 1 => ToUint(n) = n)
<1>1. Word \in Nat \ {0}  BY ArraysAssumption
<1>2. ToUint(n) \in 0 .. Word - 1  BY <1>1, Divided DEF ToUint
<1>3. ASSUME n \in 0 .. Word - 1 PROVE ToUint(n) = n
  <2>1. n = Word * 0 + n  BY <1>1
  <2> QED  BY <1>1, <1>3, <2>1, DivMod DEF ToUint
<1> QED  BY <1>1, <1>2, <1>3

(* A promised block has room for its header and its elements, rounded up   *)
(* to words (arraySize).                                                   *)
LEMMA ArraySizes ==
  ASSUME NEW t \in Types, NEW n \in Lengths
  PROVE  /\ Header \in {12, 24} /\ arrayTypeSize(t) \in Sizes /\ n \in Int
         /\ arraySize(t, n) \in Nat
         /\ Promised(t, n) => n >= 0 /\ arraySize(t, n) >= Header + arrayTypeSize(t) * n
<1>1. Header \in {12, 24} /\ n \in Int /\ Word \in Nat \ {0}  BY ArraysAssumption DEF Header
<1>2. PICK s \in Sizes : s = arrayTypeSize(t)  BY TypeSizes
<1>3. PICK h \in Int : h = Header + s * n  BY <1>1 DEF Sizes
<1>4. PICK u \in Nat : u = ToUint(h + 3) /\ (h + 3 \in 0 .. Word - 1 => u = h + 3)
  <2>1. h + 3 \in Int  OBVIOUS
  <2> QED  BY <2>1, Unsigned
<1>5. arraySize(t, n) = u - (u % 4)  BY <1>2, <1>3, <1>4 DEF arraySize
<1>6. u - (u % 4) \in Nat /\ u - (u % 4) >= u - 3  OBVIOUS
<1>7. ASSUME Promised(t, n) PROVE n >= 0 /\ arraySize(t, n) >= h
  <2>1. n >= 0 /\ h <= Word - 4  BY <1>2, <1>3, <1>7 DEF Promised
  <2>2. h \in Nat  BY <1>1, <1>3, <2>1 DEF Sizes
  <2>3. h + 3 \in 0 .. Word - 1  BY <1>1, <2>1, <2>2
  <2> QED  BY <1>4, <1>5, <1>6, <2>1, <2>3
<1> QED  BY <1>1, <1>2, <1>3, <1>5, <1>6, <1>7

\* A new array of zeros, with room for all its elements.
NewBlock(type, n, m) == [type |-> type, len |-> n, bytes |-> [k \in 1 .. m |-> 0]]
Added(a, block) ==
  arrays' = [x \in DOMAIN arrays \cup {a} |-> IF x # a THEN arrays[x] ELSE block]
(* What createArray does, if it comes back.                                *)
LEMMA Creates ==
  ASSUME ArraysInv, op # Idle, createArray
  PROVE  /\ op.do = "create" /\ op.type \in Types /\ op.n \in Lengths /\ UNCHANGED result
         /\ \/ process' = "over" /\ UNCHANGED arrays
            \/ process' = "corrupt" /\ UNCHANGED arrays /\ ~Promised(op.type, op.n)
            \/ /\ UNCHANGED process
               /\ \E a \in Ref \ DOMAIN arrays, m \in Nat :
                    /\ Added(a, NewBlock(op.type, op.n, m))
                    /\ Promised(op.type, op.n) => op.n * arrayTypeSize(op.type) <= m
<1>1. op.do = "create" /\ UNCHANGED result  BY DEF createArray
<1>2. op.type \in Types /\ op.n \in Lengths  BY <1>1, ArrayOperands DEF ArraysInv
<1>3. PICK size \in Nat, s \in Sizes, h \in {12, 24}, n \in Int :
        size = arraySize(op.type, op.n) /\ s = arrayTypeSize(op.type) /\ h = Header /\ n = op.n
  BY <1>2, ArraySizes
<1>4. Promised(op.type, op.n) => n >= 0 /\ size >= h + s * n  BY <1>2, <1>3, ArraySizes
<1>5. CASE process' = "over" /\ UNCHANGED arrays  BY <1>1, <1>2, <1>5
<1>6. CASE size \in VarSize .. Header - 1 /\ process' = "corrupt" /\ UNCHANGED arrays
  <2>1. ~Promised(op.type, op.n)  BY <1>3, <1>4, <1>6 DEF Sizes
  <2> QED  BY <1>1, <1>2, <1>6, <2>1
<1>7. CASE /\ size >= Header /\ UNCHANGED process
           /\ \E a \in Ref \ DOMAIN arrays :
                arrays' = [x \in DOMAIN arrays \cup {a} |->
                  IF x # a THEN arrays[x]
                  ELSE [type |-> op.type, len |-> op.n, bytes |-> [k \in 1 .. size - Header |-> 0]]]
  <2>1. PICK m \in Nat : m = size - Header  BY <1>3, <1>7
  <2>2. Promised(op.type, op.n) => op.n * arrayTypeSize(op.type) <= m  BY <1>3, <1>4, <2>1 DEF Sizes
  <2>3. PICK a \in Ref \ DOMAIN arrays : Added(a, NewBlock(op.type, op.n, m))
    BY <1>7, <2>1 DEF Added, NewBlock
  <2> QED  BY <1>1, <1>2, <1>7, <2>2, <2>3
<1> QED  BY <1>3, <1>5, <1>6, <1>7 DEF createArray

(* It is a block among the others.                                         *)
LEMMA AddedKeeps ==
  ASSUME BlocksOK, NEW a \in Ref \ DOMAIN arrays, NEW t \in Types, NEW n \in Lengths, NEW m \in Nat,
         Added(a, NewBlock(t, n, m)), Promised(t, n) => n * arrayTypeSize(t) <= m
  PROVE  /\ BlocksOK' /\ DOMAIN arrays' = DOMAIN arrays \cup {a} /\ arrays'[a] = NewBlock(t, n, m)
         /\ \A x \in DOMAIN arrays : arrays'[x] = arrays[x]
<1>1. PICK block : block = NewBlock(t, n, m)  OBVIOUS
<1>2. /\ DOMAIN arrays' = DOMAIN arrays \cup {a} /\ arrays'[a] = block
      /\ \A x \in DOMAIN arrays : arrays'[x] = arrays[x]
  BY <1>1 DEF Added
<1>3. Byte \in Nat \ {0}  BY ArraysAssumption
<1>4. [k \in 1 .. m |-> 0] \in Seq(0 .. Byte - 1) /\ Len([k \in 1 .. m |-> 0]) = m
  <2>1. [k \in 1 .. m |-> 0] \in [1 .. m -> 0 .. Byte - 1]  BY <1>3
  <2> QED  BY <2>1, AsSeq
<1>5. block.type = t /\ block.len = n /\ block.bytes = [k \in 1 .. m |-> 0] /\ block \in Blocks
  BY <1>1, <1>4 DEF NewBlock, Blocks
<1>6. \A x \in DOMAIN arrays' : arrays'[x] \in Blocks  BY <1>2, <1>5, Block
<1>7. arrays' \in [DOMAIN arrays' -> Blocks]  BY <1>6 DEF Added
<1>8. ASSUME NEW x \in DOMAIN arrays' PROVE Room(x)'
  <2>1. CASE x = a
    <3>1. Room(x)' = (Promised(t, n) => n * arrayTypeSize(t) <= Len(arrays'[a].bytes))
      BY <1>2, <1>5, <2>1 DEF Room, SizeOf, Promised, arrayTypeSize
    <3>2. Len(arrays'[a].bytes) = m  BY <1>2, <1>4, <1>5
    <3> QED  BY <3>1, <3>2
  <2>2. CASE x # a
    <3>1. x \in DOMAIN arrays /\ arrays'[x] = arrays[x]  BY <1>2, <2>2
    <3>2. Room(x)  BY <3>1 DEF BlocksOK
    <3> QED  BY <3>1, <3>2 DEF Room, SizeOf, Promised, arrayTypeSize
  <2> QED  BY <2>1, <2>2
<1>9. DOMAIN arrays' \subseteq Ref  BY <1>2 DEF BlocksOK
<1> QED  BY <1>1, <1>2, <1>7, <1>8, <1>9 DEF BlocksOK

(* What store does: it throws, touches other memory or rewrites a block.   *)
LEMMA Stores ==
  ASSUME ArraysInv, op # Idle, Store
  PROVE  /\ op.do = "store" /\ op.a \in Accessible \cup {Null} /\ op.i \in Int /\ op.v \in Int
         /\ \/ op.a = Null /\ Exception
            \/ op.a \in Accessible /\ OutOfBounds(op.a, op.i) /\ Exception
            \/ /\ op.a \in Accessible /\ ~OutOfBounds(op.a, op.i)
               /\ LET o == op.i * Stride(arrays[op.a].type) IN
                  \/ ~InBlock(op.a, o, SizeOf(op.a)) /\ Corrupt
                  \/ /\ Rewritten(op.a, Encode(arrays[op.a].bytes, o, SizeOf(op.a), op.v))
                     /\ UNCHANGED <<result, process>>
<1>1. op.do = "store"  BY DEF Store
<1>2. op.a \in Accessible \cup {Null} /\ op.i \in Int /\ op.v \in Int
  BY <1>1, ArrayOperands, ArraysAssumption DEF ArraysInv
<1>3. CASE op.a = Null  BY <1>1, <1>2, <1>3 DEF Store
<1>4. CASE op.a # Null
  <2>1. op.a \in Accessible  BY <1>2, <1>4
  <2>2. CASE OutOfBounds(op.a, op.i)  BY <1>1, <1>2, <1>4, <2>1, <2>2 DEF Store
  <2>3. CASE ~OutOfBounds(op.a, op.i)
    <3>1. PICK o : o = op.i * Stride(arrays[op.a].type)  OBVIOUS
    <3>2. PICK size : size = SizeOf(op.a)  OBVIOUS
    <3>3. IF ~InBlock(op.a, o, size) THEN Corrupt
          ELSE arrays' = [arrays EXCEPT ![op.a].bytes = Encode(@, o, size, op.v)] /\ UNCHANGED <<result, process>>
      BY <1>4, <2>3, <3>1, <3>2 DEF Store, SizeOf
    <3>4. CASE InBlock(op.a, o, size)
      <4>1. Rewritten(op.a, Encode(arrays[op.a].bytes, o, size, op.v))  BY <3>3, <3>4 DEF Rewritten
      <4> QED  BY <1>1, <1>2, <2>1, <2>3, <3>1, <3>2, <3>3, <3>4, <4>1
    <3> QED  BY <1>1, <1>2, <2>1, <2>3, <3>1, <3>2, <3>3, <3>4
  <2> QED  BY <2>2, <2>3
<1> QED  BY <1>3, <1>4

\* The bytes that a copy is about.
From == ToUint(SizeOf(op.s) * ToUint(op.bs))
To == ToUint(SizeOf(op.s) * ToUint(op.bd))
Bytes == ToUint(SizeOf(op.s) * ToUint(op.n))
Fits == Bytes > 0 => InBlock(op.s, From, Bytes) /\ InBlock(op.d, To, Bytes)
(* What copyArray does: it ends the process on null, refuses, touches      *)
(* other memory or rewrites a block.                                       *)
LEMMA Copies ==
  ASSUME ArraysInv, op # Idle, jCopyArray
  PROVE  /\ op.do = "copy" /\ op.bs \in Starts /\ op.bd \in Starts /\ op.n \in Counts
         /\ op.bs \in Int /\ op.bd \in Int /\ op.n \in Int
         /\ \/ Null \in {op.s, op.d} /\ process' = "over" /\ UNCHANGED <<arrays, result>>
            \/ /\ op.s \in DOMAIN arrays /\ op.d \in DOMAIN arrays
               /\ \/ /\ Refuses(op.s, op.bs, op.d, op.bd, op.n)
                     /\ result' = 0 /\ UNCHANGED <<arrays, process>>
                  \/ ~Refuses(op.s, op.bs, op.d, op.bd, op.n) /\ ~Fits /\ Corrupt
                  \/ /\ ~Refuses(op.s, op.bs, op.d, op.bd, op.n) /\ Fits
                     /\ From \in Nat /\ To \in Nat /\ Bytes \in Nat
                     /\ \E up \in BOOLEAN : Rewritten(op.d, Copied(op.s, From, op.d, To, Bytes, up))
                     /\ result' = 1 /\ UNCHANGED process
<1>1. op.do = "copy"  BY DEF jCopyArray
<1>2. /\ op.bs \in Starts /\ op.bd \in Starts /\ op.n \in Counts
      /\ op.s \in DOMAIN arrays \cup {Null} /\ op.d \in DOMAIN arrays \cup {Null}
  BY <1>1, ArrayOperands DEF ArraysInv
<1>3. op.bs \in Int /\ op.bd \in Int /\ op.n \in Int  BY <1>2, ArraysAssumption
<1>4. CASE Null \in {op.s, op.d}  BY <1>1, <1>2, <1>3, <1>4 DEF jCopyArray, Exception
<1>5. CASE Null \notin {op.s, op.d}
  <2>1. op.s \in DOMAIN arrays /\ op.d \in DOMAIN arrays  BY <1>2, <1>5
  <2>2. CASE Refuses(op.s, op.bs, op.d, op.bd, op.n)  BY <1>1, <1>2, <1>3, <1>5, <2>1, <2>2 DEF jCopyArray
  <2>3. CASE ~Refuses(op.s, op.bs, op.d, op.bd, op.n)
    <3>1. IF ~Fits THEN Corrupt ELSE Memcpy(op.s, From, op.d, To, Bytes) /\ result' = 1 /\ UNCHANGED process
      BY <1>5, <2>3 DEF jCopyArray, Fits, From, To, Bytes, SizeOf
    <3>2. SizeOf(op.s) \in Sizes  BY <2>1, Block DEF ArraysInv
    <3>3. From \in Nat /\ To \in Nat /\ Bytes \in Nat
      <4>1. \A n \in Int : ToUint(n) \in Nat /\ SizeOf(op.s) * ToUint(n) \in Int  BY <3>2, Unsigned DEF Sizes
      <4> QED  BY <1>3, <4>1 DEF From, To, Bytes
    <3>4. CASE ~Fits  BY <1>1, <1>2, <1>3, <2>1, <2>3, <3>1, <3>4
    <3>5. CASE Fits
      <4>1. PICK f, o, n : f = From /\ o = To /\ n = Bytes  OBVIOUS
      <4>2. Memcpy(op.s, f, op.d, o, n)  BY <3>1, <3>5, <4>1
      <4>3. PICK up \in BOOLEAN :
              arrays' = [arrays EXCEPT ![op.d].bytes = [b \in DOMAIN @ |->
                LET k == b - o IN
                IF k \notin 1 .. n THEN @[b]
                ELSE arrays[op.s].bytes[IF up THEN Upwards(op.s, f, op.d, o, n, k) ELSE Downwards(op.s, f, op.d, o, n, k)]]]
        BY <4>2 DEF Memcpy
      <4>4. Rewritten(op.d, Copied(op.s, f, op.d, o, n, up))
        BY <4>3, Zenon DEF Rewritten, Copied, Moved
      <4>5. \E u \in BOOLEAN : Rewritten(op.d, Copied(op.s, From, op.d, To, Bytes, u))  BY <4>1, <4>4
      <4> QED  BY <1>1, <1>2, <1>3, <2>1, <2>3, <3>1, <3>3, <3>5, <4>5
    <3> QED  BY <3>4, <3>5
  <2> QED  BY <2>2, <2>3
<1> QED  BY <1>4, <1>5

(* Blocks stay blocks.                                                     *)
LEMMA ArraysInvNext == ArraysInv /\ [ArraysNext]_arrayVars => ArraysInv'
<1> SUFFICES ASSUME ArraysInv, [ArraysNext]_arrayVars PROVE ArraysInv'  OBVIOUS
<1>1. CASE UNCHANGED arrayVars
  BY <1>1 DEF arrayVars, ArraysInv, BlocksOK, OpOK, Room, SizeOf, Accessible
<1>2. CASE FetchArrayOp
  <2>1. BlocksOK'  BY <1>2 DEF FetchArrayOp, ArraysInv, BlocksOK, Room, SizeOf
  <2>2. OpOK'  BY <1>2 DEF FetchArrayOp, OpOK, Accessible
  <2> QED  BY <1>2, <2>1, <2>2 DEF FetchArrayOp, ArraysInv
<1> DEFINE Kept == BlocksOK' /\ process' \in {"runs", "over", "corrupt"}
<1>3. ASSUME op # Idle, op' = Idle, createArray \/ Load \/ Store \/ ArrayLength \/ jCopyArray PROVE Kept
  <2>1. ASSUME UNCHANGED arrays PROVE BlocksOK'  BY <2>1 DEF ArraysInv, BlocksOK, Room, SizeOf
  <2>2. process \in {"runs", "over", "corrupt"}  BY DEF ArraysInv
  <2>3. CASE createArray
    <3>1. op.type \in Types /\ op.n \in Lengths  BY <1>3, <2>3, Creates
    <3>2. CASE process' \in {"over", "corrupt"} /\ UNCHANGED arrays  BY <2>1, <3>2
    <3>3. ASSUME UNCHANGED process, NEW a \in Ref \ DOMAIN arrays, NEW m \in Nat, Added(a, NewBlock(op.type, op.n, m)),
                 Promised(op.type, op.n) => op.n * arrayTypeSize(op.type) <= m
          PROVE  Kept
      BY <2>2, <3>1, <3>3, AddedKeeps DEF ArraysInv
    <3> QED  BY <1>3, <2>3, <3>2, <3>3, Creates
  <2>4. CASE Load
    <3>1. UNCHANGED arrays /\ process' \in {process, "over", "corrupt"}  BY <2>4 DEF Load, Exception, Corrupt
    <3> QED  BY <2>1, <2>2, <3>1
  <2>5. CASE Store
    <3>1. CASE UNCHANGED arrays /\ process' \in {process, "over", "corrupt"}  BY <2>1, <2>2, <3>1
    <3>2. CASE /\ op.a \in Accessible /\ op.v \in Int /\ op.i \in Int
               /\ Rewritten(op.a, Encode(arrays[op.a].bytes, op.i * Stride(arrays[op.a].type), SizeOf(op.a), op.v))
               /\ UNCHANGED process
      <4>1. PICK a \in DOMAIN arrays : a = op.a  BY <3>2 DEF Accessible
      <4>2. Stride(arrays[a].type) \in Int  BY ArraysAssumption DEF Stride
      <4>3. PICK o \in Int : o = op.i * Stride(arrays[a].type)  BY <3>2, <4>1, <4>2
      <4>4. PICK e : e = Encode(arrays[a].bytes, o, SizeOf(a), op.v)  OBVIOUS
      <4>5. arrays[a].bytes \in Seq(0 .. Byte - 1) /\ SizeOf(a) \in Sizes  BY Block DEF ArraysInv
      <4>6. e \in Seq(0 .. Byte - 1) /\ Len(e) = Len(arrays[a].bytes)  BY <3>2, <4>4, <4>5, EncodeType
      <4>7. Rewritten(a, e)  BY <3>2, <4>1, <4>3, <4>4
      <4>8. BlocksOK'  BY <4>6, <4>7, RewrittenKeeps DEF ArraysInv
      <4> QED  BY <2>2, <3>2, <4>8
    <3> QED  BY <1>3, <2>5, <3>1, <3>2, Stores DEF Exception, Corrupt
  <2>6. CASE ArrayLength
    <3>1. UNCHANGED arrays /\ process' \in {process, "over"}  BY <2>6 DEF ArrayLength, Exception
    <3> QED  BY <2>1, <2>2, <3>1
  <2>7. CASE jCopyArray
    <3>1. CASE UNCHANGED arrays /\ process' \in {process, "over", "corrupt"}  BY <2>1, <2>2, <3>1
    <3>2. ASSUME op.s \in DOMAIN arrays, op.d \in DOMAIN arrays, Fits, From \in Nat, To \in Nat, Bytes \in Nat,
                 NEW up \in BOOLEAN, Rewritten(op.d, Copied(op.s, From, op.d, To, Bytes, up)), UNCHANGED process
          PROVE  Kept
      <4>1. PICK s \in DOMAIN arrays, d \in DOMAIN arrays, f \in Nat, o \in Nat, n \in Nat :
              s = op.s /\ d = op.d /\ f = From /\ o = To /\ n = Bytes
        BY <3>2
      <4>2. n > 0 => InBlock(s, f, n) /\ InBlock(d, o, n)  BY <3>2, <4>1 DEF Fits
      <4>3. PICK c : c = Copied(s, f, d, o, n, up)  OBVIOUS
      <4>4. c \in Seq(0 .. Byte - 1) /\ Len(c) = Len(arrays[d].bytes)  BY <4>2, <4>3, CopiedType DEF ArraysInv
      <4>5. Rewritten(d, c)  BY <3>2, <4>1, <4>3
      <4>6. BlocksOK'  BY <4>4, <4>5, RewrittenKeeps DEF ArraysInv
      <4> QED  BY <2>2, <3>2, <4>6
    <3> QED  BY <1>3, <2>7, <3>1, <3>2, Copies DEF Corrupt
  <2> QED  BY <1>3, <2>3, <2>4, <2>5, <2>6, <2>7
<1>4. ASSUME op # Idle, op' = Idle, createArray \/ Load \/ Store \/ ArrayLength \/ jCopyArray PROVE ArraysInv'
  <2>1. OpOK'  BY <1>4 DEF OpOK
  <2> QED  BY <1>3, <1>4, <2>1 DEF ArraysInv
<1> QED  BY <1>1, <1>2, <1>4 DEF ArraysNext

(* There are none in the beginning.                                        *)
LEMMA ArraysInvInit == ArraysInit => ArraysInv
<1> SUFFICES ASSUME ArraysInit PROVE ArraysInv  OBVIOUS
<1>1. arrays = << >> /\ DOMAIN arrays = {}  BY DEF ArraysInit
<1>2. arrays \in [DOMAIN arrays -> Blocks]  BY <1>1
<1> QED  BY <1>1, <1>2 DEF ArraysInit, ArraysInv, BlocksOK, OpOK

(* The blocks and the instruction are always as ArraysInv says: whatever   *)
(* createArray, the array instructions and copyArray do, they leave blocks *)
(* with room for their elements.                                           *)
THEOREM ArraysInvariant == ArraysSpec => []ArraysInv
BY ArraysInvInit, ArraysInvNext, PTL DEF ArraysSpec

(* Whatever the program creates, stores and copies, and whatever the       *)
(* lengths and starts, an array is bytes, and one whose size 32 bits can   *)
(* hold has room for all its elements (createArray, arraySize).            *)
THEOREM ArraysTypeCorrect == ArraysSpec => []ArraysTypeOK
<1>1. ArraysInv => ArraysTypeOK
  <2> SUFFICES ASSUME ArraysInv PROVE ArraysTypeOK  OBVIOUS
  <2>1. \A a \in DOMAIN arrays : arrays[a].type \in Types /\ arrays[a].bytes \in Seq(0 .. Byte - 1) /\ Room(a)
    BY Block DEF ArraysInv, BlocksOK
  <2> QED  BY <2>1 DEF ArraysInv, ArraysTypeOK, Room, SizeOf
<1> QED  BY <1>1, ArraysInvariant, PTL

---------------------------------------------------------------------------
(* The promise. *)

\* Elements are accessed as far apart as there is room for them.
StridesFit == \A t \in Types \ {"double", "long"} : Stride(t) = arrayTypeSize(t)
(* They are if J_Vars have four bytes, or if the elements are smaller.     *)
LEMMA FourByteStrides ==
  VarSize = 4 \/ Types \cap {"float", "int", "object", "array"} = {} => StridesFit
BY ArraysAssumption DEF StridesFit, Stride, arrayTypeSize

\* What JArrayValues makes of the blocks.
Element(a, i) == Decode(arrays[a].bytes, (i - 1) * SizeOf(a), SizeOf(a))
TypeMap == [a \in DOMAIN arrays |-> arrays[a].type]
ValueMap ==
  [a \in Sound |-> [i \in 1 .. arrays[a].len |->
    Decode(arrays[a].bytes, (i - 1) * arrayTypeSize(arrays[a].type), arrayTypeSize(arrays[a].type))]]

(* A promised array has a length, and its elements have their bytes.       *)
LEMMA SoundIs ==
  ASSUME BlocksOK, NEW a \in Sound
  PROVE  /\ a \in DOMAIN arrays /\ arrays[a].len \in Nat /\ SizeOf(a) \in Sizes
         /\ Header + SizeOf(a) * arrays[a].len <= Word - 4
         /\ \A i \in 1 .. arrays[a].len :
              /\ (i - 1) * SizeOf(a) \in Nat /\ (i - 1) * SizeOf(a) + SizeOf(a) <= Len(arrays[a].bytes)
              /\ \A k \in 1 .. SizeOf(a) :
                   /\ (i - 1) * SizeOf(a) + k \in DOMAIN arrays[a].bytes
                   /\ arrays[a].bytes[(i - 1) * SizeOf(a) + k] \in Int
<1>1. a \in DOMAIN arrays /\ Promised(arrays[a].type, arrays[a].len)  BY DEF Sound
<1>2. PICK s \in Sizes, n \in Int, m \in Nat : s = SizeOf(a) /\ n = arrays[a].len /\ m = Len(arrays[a].bytes)
  BY <1>1, Block
<1>3. n >= 0 /\ Header + s * n <= Word - 4 /\ n * s <= m
  BY <1>1, <1>2 DEF Promised, SizeOf, BlocksOK, Room
<1>4. \A i \in 1 .. n : (i - 1) * s \in Nat /\ (i - 1) * s + s <= m /\ \A k \in 1 .. s : (i - 1) * s + k \in 1 .. m
  <2> SUFFICES ASSUME NEW i \in 1 .. n
               PROVE  (i - 1) * s \in Nat /\ (i - 1) * s + s <= m /\ \A k \in 1 .. s : (i - 1) * s + k \in 1 .. m
    OBVIOUS
  <2>1. CASE s = 1  BY <1>3, <2>1
  <2>2. CASE s = 2  BY <1>3, <2>2
  <2>3. CASE s = 4  BY <1>3, <2>3
  <2>4. CASE s = 8  BY <1>3, <2>4
  <2> QED  BY <2>1, <2>2, <2>3, <2>4 DEF Sizes
<1>5. DOMAIN arrays[a].bytes = 1 .. m /\ \A k \in 1 .. m : arrays[a].bytes[k] \in Int  BY <1>1, <1>2, Block
<1>6. n \in Nat  BY <1>3
<1> QED  BY <1>1, <1>2, <1>3, <1>4, <1>5, <1>6

(* The sequences of JArrayValues are the elements of the blocks.           *)
LEMMA ValuesAre ==
  ASSUME BlocksOK
  PROVE  /\ DOMAIN TypeMap = DOMAIN arrays /\ \A a \in DOMAIN arrays : TypeMap[a] = arrays[a].type
         /\ DOMAIN ValueMap = Sound /\ Sound \subseteq DOMAIN arrays
         /\ \A a \in Sound :
              /\ ValueMap[a] = [i \in 1 .. arrays[a].len |-> Element(a, i)]
              /\ DOMAIN ValueMap[a] = 1 .. arrays[a].len /\ Len(ValueMap[a]) = arrays[a].len
              /\ \A i \in 1 .. arrays[a].len : ValueMap[a][i] = Element(a, i)
<1>1. DOMAIN TypeMap = DOMAIN arrays /\ \A a \in DOMAIN arrays : TypeMap[a] = arrays[a].type  BY DEF TypeMap
<1>2. DOMAIN ValueMap = Sound /\ Sound \subseteq DOMAIN arrays  BY DEF ValueMap, Sound
<1>3. ASSUME NEW a \in Sound
      PROVE  /\ ValueMap[a] = [i \in 1 .. arrays[a].len |-> Element(a, i)]
             /\ DOMAIN ValueMap[a] = 1 .. arrays[a].len /\ Len(ValueMap[a]) = arrays[a].len
             /\ \A i \in 1 .. arrays[a].len : ValueMap[a][i] = Element(a, i)
  <2>1. PICK n \in Nat : n = arrays[a].len  BY SoundIs
  <2>2. PICK f : f = [i \in 1 .. n |-> Element(a, i)]  OBVIOUS
  <2>3. ValueMap[a] = f  BY <2>1, <2>2 DEF ValueMap, Element, SizeOf
  <2>4. f \in [1 .. n -> {Element(a, i) : i \in 1 .. n}]  BY <2>2
  <2>5. Len(f) = n  BY <2>4, AsSeq
  <2>6. DOMAIN f = 1 .. n /\ \A i \in 1 .. n : f[i] = Element(a, i)  BY <2>2
  <2> QED  BY <2>1, <2>2, <2>3, <2>5, <2>6
<1> QED  BY <1>1, <1>2, <1>3

(* Other bytes in one array change no other, and no type or length.        *)
LEMMA RewrittenValues ==
  ASSUME BlocksOK, NEW a \in DOMAIN arrays, NEW bytes, Rewritten(a, bytes), BlocksOK'
  PROVE  /\ UNCHANGED TypeMap /\ Sound' = Sound /\ DOMAIN ValueMap' = DOMAIN ValueMap
         /\ \A x \in Sound : DOMAIN ValueMap'[x] = DOMAIN ValueMap[x] /\ (x # a => ValueMap'[x] = ValueMap[x])
         /\ a \in Sound => \A i \in 1 .. arrays[a].len :
              ValueMap'[a][i] = Decode(bytes, (i - 1) * SizeOf(a), SizeOf(a))
<1>1. /\ DOMAIN arrays' = DOMAIN arrays /\ arrays'[a].bytes = bytes
      /\ \A x \in DOMAIN arrays :
           /\ arrays'[x].type = arrays[x].type /\ arrays'[x].len = arrays[x].len
           /\ x # a => arrays'[x] = arrays[x]
  BY RewrittenIs
<1>2. UNCHANGED TypeMap  BY <1>1 DEF TypeMap
<1>3. Sound' = Sound  BY <1>1 DEF Sound, Promised, arrayTypeSize
<1>4. \A x \in DOMAIN arrays : SizeOf(x)' = SizeOf(x)  BY <1>1 DEF SizeOf, arrayTypeSize
<1>5. ASSUME NEW x \in Sound
      PROVE  ValueMap'[x] = [i \in 1 .. arrays[x].len |-> Decode(arrays'[x].bytes, (i - 1) * SizeOf(x), SizeOf(x))]
  <2>1. x \in DOMAIN arrays /\ x \in Sound'
    <3>1. x \in Sound'  BY <1>3
    <3> QED  BY <3>1 DEF Sound
  <2>2. PICK f : f = arrays'  OBVIOUS
  <2>3. ValueMap'[x] = [i \in 1 .. f[x].len |->
          Decode(f[x].bytes, (i - 1) * arrayTypeSize(f[x].type), arrayTypeSize(f[x].type))]
    BY <2>1, <2>2 DEF ValueMap
  <2>4. f[x].len = arrays[x].len /\ arrayTypeSize(f[x].type) = SizeOf(x)  BY <1>1, <2>1, <2>2 DEF SizeOf
  <2> QED  BY <2>2, <2>3, <2>4
<1>6. ASSUME NEW x \in Sound PROVE DOMAIN ValueMap'[x] = DOMAIN ValueMap[x] /\ (x # a => ValueMap'[x] = ValueMap[x])
  <2>1. x \in DOMAIN arrays  BY DEF Sound
  <2>2. ValueMap[x] = [i \in 1 .. arrays[x].len |-> Element(x, i)]  BY ValuesAre
  <2>3. DOMAIN ValueMap'[x] = 1 .. arrays[x].len /\ DOMAIN ValueMap[x] = 1 .. arrays[x].len  BY <1>5, <2>2
  <2>4. x # a => ValueMap'[x] = [i \in 1 .. arrays[x].len |-> Decode(arrays[x].bytes, (i - 1) * SizeOf(x), SizeOf(x))]
    BY <1>1, <1>5, <2>1
  <2> QED  BY <2>2, <2>3, <2>4 DEF Element
<1>7. DOMAIN ValueMap' = DOMAIN ValueMap
  <2>1. DOMAIN ValueMap' = Sound'  BY DEF ValueMap
  <2> QED  BY <1>3, <2>1, ValuesAre
<1>8. a \in Sound => \A i \in 1 .. arrays[a].len : ValueMap'[a][i] = Decode(bytes, (i - 1) * SizeOf(a), SizeOf(a))
  BY <1>1, <1>5
<1> QED  BY <1>2, <1>3, <1>6, <1>7, <1>8

SameMaps == TypeMap' = TypeMap /\ ValueMap' = ValueMap
\* Of each type, the longest array that is promised.
Longest(t) == (Word - 4 - Header) \div arrayTypeSize(t)
OddOperands == op.bs < 0 \/ op.bd < 0 \/ op.n < 0 \/ ~({op.s, op.d} \subseteq DOMAIN ValueMap)
InPart(a, b, n) == b >= 0 /\ n >= 1 /\ b + n <= Len(ValueMap[a])
Overlap == op.s = op.d /\ op.bs + op.n > op.bd /\ op.bd + op.n > op.bs
SameOthers ==
  /\ DOMAIN ValueMap' = DOMAIN ValueMap
  /\ \A a \in DOMAIN ValueMap :
       DOMAIN ValueMap'[a] = DOMAIN ValueMap[a] /\ (a # op.d => ValueMap'[a] = ValueMap[a])

\* The instruction may end the process.
MayEnd ==
  CASE op.do = "create" -> TRUE
    [] op.do = "copy" -> Null \in {op.s, op.d}
    [] op.do = "length" -> op.a = Null
    [] OTHER -> op.a \in DOMAIN ValueMap => op.i \notin 0 .. Len(ValueMap[op.a]) - 1

(* The actions of JArrayValues, said of the blocks.                        *)
LEMMA Promise ==
  ASSUME NEW t \in Types, NEW n
  PROVE  /\ (UNCHANGED V!valueVars <=> UNCHANGED <<op, result, process>> /\ SameMaps)
         /\ (V!ValuesInit <=> op = Idle /\ TypeMap = << >> /\ ValueMap = << >> /\ result = 0 /\ process = "runs")
         /\ (V!Over <=> MayEnd /\ process' = "over" /\ SameMaps /\ UNCHANGED result)
         /\ (V!Get <=> /\ op.do = "load" /\ op.a \in DOMAIN ValueMap
                       /\ op.i \in 0 .. Len(ValueMap[op.a]) - 1
                       /\ result' = ValueMap[op.a][op.i + 1] /\ SameMaps)
         /\ (V!Length <=> /\ op.do = "length" /\ op.a \in DOMAIN ValueMap
                          /\ result' = Len(ValueMap[op.a]) /\ SameMaps)
         /\ (V!Odd <=> /\ op.do \in {"load", "store", "length"} /\ op.a \in DOMAIN TypeMap \ DOMAIN ValueMap
                       /\ SameMaps)
<1>1. UNCHANGED V!valueVars <=> UNCHANGED <<op, result, process>> /\ SameMaps
  BY DEF V!valueVars, SameMaps, TypeMap, ValueMap
<1>2. V!ValuesInit <=> op = Idle /\ TypeMap = << >> /\ ValueMap = << >> /\ result = 0 /\ process = "runs"
  BY DEF V!ValuesInit, TypeMap, ValueMap
<1>3. V!Over <=> MayEnd /\ process' = "over" /\ SameMaps /\ UNCHANGED result
  BY DEF V!Over, V!Inside, MayEnd, SameMaps, TypeMap, ValueMap
<1>4. V!Get <=> /\ op.do = "load" /\ op.a \in DOMAIN ValueMap
                /\ op.i \in 0 .. Len(ValueMap[op.a]) - 1
                /\ result' = ValueMap[op.a][op.i + 1] /\ SameMaps
  BY DEF V!Get, V!Inside, SameMaps, TypeMap, ValueMap
<1>5. V!Length <=> op.do = "length" /\ op.a \in DOMAIN ValueMap /\ result' = Len(ValueMap[op.a]) /\ SameMaps
  BY DEF V!Length, SameMaps, TypeMap, ValueMap
<1>6. V!Odd <=> op.do \in {"load", "store", "length"} /\ op.a \in DOMAIN TypeMap \ DOMAIN ValueMap /\ SameMaps
  BY DEF V!Odd, SameMaps, TypeMap, ValueMap
<1> QED  BY <1>1, <1>2, <1>3, <1>4, <1>5, <1>6

(* The same of the actions that change something.                          *)
LEMMA PromiseOfChanges ==
  ASSUME BlocksOK
  PROVE
  /\ (op.do = "create" /\ op.type \in Types =>
       (V!Create <=>
          /\ UNCHANGED result
          /\ \E a \in Ref \ DOMAIN TypeMap :
               /\ TypeMap' = [x \in DOMAIN TypeMap \cup {a} |-> IF x = a THEN op.type ELSE TypeMap[x]]
               /\ ValueMap' =
                    IF op.n \in 0 .. Longest(op.type)
                    THEN [x \in DOMAIN ValueMap \cup {a} |-> IF x = a THEN [i \in 1 .. op.n |-> 0] ELSE ValueMap[x]]
                    ELSE ValueMap))
  /\ (op.do = "store" /\ op.a \in Sound /\ "char" \notin Types =>
       (V!Put <=>
          /\ op.i \in 0 .. Len(ValueMap[op.a]) - 1
          /\ ValueMap' = [ValueMap EXCEPT ![op.a][op.i + 1] = Wrapped(op.v, Power[SizeOf(op.a)])]
          /\ TypeMap' = TypeMap /\ UNCHANGED result))
  /\ (op.do = "copy" =>
       (V!Copy <=>
          /\ Null \notin {op.s, op.d} /\ TypeMap' = TypeMap
          /\ IF OddOperands THEN result' \in {0, 1} /\ SameOthers
             ELSE IF TypeMap[op.s] = TypeMap[op.d] /\ InPart(op.s, op.bs, op.n) /\ InPart(op.d, op.bd, op.n)
             THEN /\ result' = 1 /\ SameOthers
                  /\ \A i \in DOMAIN ValueMap[op.d] :
                       IF i \notin op.bd + 1 .. op.bd + op.n THEN ValueMap'[op.d][i] = ValueMap[op.d][i]
                       ELSE Overlap \/ ValueMap'[op.d][i] = ValueMap[op.s][i - op.bd + op.bs]
             ELSE result' = 0 /\ ValueMap' = ValueMap))
  /\ (V!Break <=>
        /\ process' = "corrupt" /\ SameMaps /\ UNCHANGED result
        /\ CASE op.do = "create" -> op.n \notin 0 .. [t \in Types |-> Longest(t)][op.type]
             [] op.do = "copy" -> OddOperands
             [] OTHER -> op.a \notin DOMAIN ValueMap)
<1>1. ASSUME op.do = "create", op.type \in Types
      PROVE  V!Create <=>
               /\ UNCHANGED result
               /\ \E a \in Ref \ DOMAIN TypeMap :
                    /\ TypeMap' = [x \in DOMAIN TypeMap \cup {a} |-> IF x = a THEN op.type ELSE TypeMap[x]]
                    /\ ValueMap' =
                         IF op.n \in 0 .. Longest(op.type)
                         THEN [x \in DOMAIN ValueMap \cup {a} |-> IF x = a THEN [i \in 1 .. op.n |-> 0] ELSE ValueMap[x]]
                         ELSE ValueMap
  BY <1>1 DEF V!Create, V!Extended, Longest, TypeMap, ValueMap
<1>2. ASSUME op.do = "store", op.a \in Sound, "char" \notin Types
      PROVE  V!Put <=>
               /\ op.i \in 0 .. Len(ValueMap[op.a]) - 1
               /\ ValueMap' = [ValueMap EXCEPT ![op.a][op.i + 1] = Wrapped(op.v, Power[SizeOf(op.a)])]
               /\ TypeMap' = TypeMap /\ UNCHANGED result
  <2>1. V!Put <=>
          /\ op.do = "store" /\ op.a \in DOMAIN ValueMap
          /\ op.i \in 0 .. Len(ValueMap[op.a]) - 1
          /\ ValueMap' = [ValueMap EXCEPT ![op.a][op.i + 1] = V!Narrow(TypeMap[op.a], op.v)]
          /\ TypeMap' = TypeMap /\ UNCHANGED result
    BY DEF V!Put, V!Inside, TypeMap, ValueMap
  <2>2. \A x, v : x # "char" => V!Narrow(x, v) = Wrapped(v, [t \in Types |-> Power[arrayTypeSize(t)]][x])
    BY DEF V!Narrow, V!Signed, Wrapped
  <2>3. op.a \in DOMAIN ValueMap /\ op.a \in DOMAIN arrays /\ TypeMap[op.a] = arrays[op.a].type
    BY <1>2, ValuesAre
  <2>4. arrays[op.a].type \in Types  BY <2>3, Block
  <2>5. [t \in Types |-> Power[arrayTypeSize(t)]][TypeMap[op.a]] = Power[SizeOf(op.a)]
    BY <2>3, <2>4 DEF SizeOf
  <2>6. V!Narrow(TypeMap[op.a], op.v) = Wrapped(op.v, Power[SizeOf(op.a)])  BY <1>2, <2>2, <2>3, <2>4, <2>5
  <2> QED  BY <1>2, <2>1, <2>3, <2>6
<1>3. ASSUME op.do = "copy"
      PROVE  V!Copy <=>
               /\ Null \notin {op.s, op.d} /\ TypeMap' = TypeMap
               /\ IF OddOperands THEN result' \in {0, 1} /\ SameOthers
                  ELSE IF TypeMap[op.s] = TypeMap[op.d] /\ InPart(op.s, op.bs, op.n) /\ InPart(op.d, op.bd, op.n)
                  THEN /\ result' = 1 /\ SameOthers
                       /\ \A i \in DOMAIN ValueMap[op.d] :
                            IF i \notin op.bd + 1 .. op.bd + op.n THEN ValueMap'[op.d][i] = ValueMap[op.d][i]
                            ELSE Overlap \/ ValueMap'[op.d][i] = ValueMap[op.s][i - op.bd + op.bs]
                  ELSE result' = 0 /\ ValueMap' = ValueMap
  BY <1>3 DEF V!Copy, V!OddCopy, V!SameOthers, V!Part, V!Onto, OddOperands, SameOthers, InPart, Overlap, TypeMap, ValueMap
<1>4. V!Break <=>
        /\ process' = "corrupt" /\ SameMaps /\ UNCHANGED result
        /\ CASE op.do = "create" -> op.n \notin 0 .. [t \in Types |-> Longest(t)][op.type]
             [] op.do = "copy" -> OddOperands
             [] OTHER -> op.a \notin DOMAIN ValueMap
  BY DEF V!Break, V!OddCopy, OddOperands, SameMaps, Longest, TypeMap, ValueMap
<1> QED  BY <1>1, <1>2, <1>3, <1>4

\* An instruction does what JArrayValues lets it do.
AsPromised ==
  \/ UNCHANGED process /\ (V!Create \/ V!Get \/ V!Put \/ V!Length \/ V!Copy \/ V!Odd)
  \/ V!Over \/ V!Break

(* Blocks that stay the same have the same elements.                       *)
LEMMA SameBlocks == UNCHANGED arrays => SameMaps
BY DEF SameMaps, TypeMap, ValueMap, Sound

(* What may go wrong with an array that is not promised.                   *)
LEMMA OddAccess ==
  ASSUME ArraysInv, op.do \in {"load", "store", "length"}, op.a \in DOMAIN arrays, op.a \notin Sound, SameMaps,
         \/ UNCHANGED process
         \/ process' = "corrupt" /\ UNCHANGED result
         \/ process' = "over" /\ UNCHANGED result /\ op.do # "length"
  PROVE  AsPromised
<1>1. op.a \in DOMAIN TypeMap \ DOMAIN ValueMap  BY ValuesAre DEF ArraysInv
<1>2. Types # {}
  <2>1. arrays[op.a].type \in Types  BY Block DEF ArraysInv
  <2> QED  BY <2>1
<1>3. PICK ty \in Types : TRUE  BY <1>2
<1>4. V!Odd <=> /\ op.do \in {"load", "store", "length"} /\ op.a \in DOMAIN TypeMap \ DOMAIN ValueMap /\ SameMaps
  BY <1>3, Promise
<1>5. V!Break <=>
        /\ process' = "corrupt" /\ SameMaps /\ UNCHANGED result
        /\ CASE op.do = "create" -> op.n \notin 0 .. [t \in Types |-> Longest(t)][op.type]
             [] op.do = "copy" -> OddOperands
             [] OTHER -> op.a \notin DOMAIN ValueMap
  BY PromiseOfChanges DEF ArraysInv
<1>6. CASE UNCHANGED process  BY <1>1, <1>4, <1>6 DEF AsPromised
<1>7. CASE process' = "corrupt" /\ UNCHANGED result
  <2>1. op.do # "create" /\ op.do # "copy"  OBVIOUS
  <2> QED  BY <1>1, <1>5, <1>7, <2>1 DEF AsPromised
<1>8. CASE process' = "over" /\ UNCHANGED result /\ op.do # "length"
  <2>1. MayEnd  BY <1>1, <1>8 DEF MayEnd
  <2>2. V!Over  BY <1>3, <1>8, <2>1, Promise
  <2> QED  BY <2>2 DEF AsPromised
<1> QED  BY <1>6, <1>7, <1>8

(* What ends the process.                                                  *)
LEMMA Ends ==
  ASSUME ArraysInv, op # Idle, MayEnd, Exception, op.do \in {"load", "store", "length", "copy"}
  PROVE  AsPromised
BY SameBlocks DEF Exception, MayEnd, AsPromised, V!Over, V!Inside, SameMaps, TypeMap, ValueMap

(* Where an instruction finds an element within the bounds.                *)
LEMMA WithinBounds ==
  ASSUME StridesFit, BlocksOK, NEW a \in Accessible, a \in Sound, NEW i \in Int
  PROVE  /\ ~OutOfBounds(a, i) <=> i \in 0 .. Len(ValueMap[a]) - 1
         /\ ~OutOfBounds(a, i) =>
              LET o == i * Stride(arrays[a].type) IN
              /\ i + 1 \in 1 .. arrays[a].len /\ o \in Nat /\ o = (i + 1 - 1) * SizeOf(a)
              /\ InBlock(a, o, SizeOf(a))
<1>1. a \in DOMAIN arrays /\ arrays[a].type \notin {"double", "long"}  BY DEF Accessible
<1>2. PICK n \in Nat : n = arrays[a].len  BY SoundIs
<1>3. Len(ValueMap[a]) = n  BY <1>2, ValuesAre
<1>4. ~OutOfBounds(a, i) <=> i \in 0 .. n - 1  BY <1>2 DEF OutOfBounds
<1>5. arrays[a].type \in Types  BY <1>1, Block
<1>6. Stride(arrays[a].type) = SizeOf(a) /\ SizeOf(a) \in Sizes  BY <1>1, <1>5, TypeSizes DEF SizeOf, StridesFit
<1>7. ASSUME ~OutOfBounds(a, i)
      PROVE  LET o == i * Stride(arrays[a].type) IN
             /\ i + 1 \in 1 .. arrays[a].len /\ o \in Nat /\ o = (i + 1 - 1) * SizeOf(a)
             /\ InBlock(a, o, SizeOf(a))
  <2>1. PICK j \in 1 .. n : j = i + 1  BY <1>4, <1>7
  <2>2. (j - 1) * SizeOf(a) \in Nat /\ (j - 1) * SizeOf(a) + SizeOf(a) <= Len(arrays[a].bytes)
    BY <1>2, <2>1, SoundIs
  <2>3. j - 1 = i /\ i + 1 - 1 = i  BY <2>1
  <2> QED  BY <1>2, <1>6, <2>1, <2>2, <2>3 DEF InBlock
<1> QED  BY <1>3, <1>4, <1>7

(* A load.                                                                 *)
LEMMA LoadStep ==
  ASSUME StridesFit, ArraysInv, op # Idle, Load
  PROVE  AsPromised
<1>1. op.do = "load" /\ op.a \in Accessible \cup {Null} /\ op.i \in Int
  <2>1. op.do = "load"  BY DEF Load
  <2> QED  BY <2>1, ArrayOperands, ArraysAssumption DEF ArraysInv
<1>2. UNCHANGED arrays /\ SameMaps  BY SameBlocks DEF Load, Exception, Corrupt
<1>3. UNCHANGED process \/ (process' \in {"over", "corrupt"} /\ UNCHANGED result)  BY DEF Load, Exception, Corrupt
<1>4. Null \notin DOMAIN arrays  BY ArraysAssumption DEF ArraysInv, BlocksOK
<1>5. CASE op.a = Null
  <2>1. Exception  BY <1>5 DEF Load
  <2>2. MayEnd  BY <1>1, <1>4, <1>5, ValuesAre DEF MayEnd, ArraysInv
  <2> QED  BY <1>1, <2>1, <2>2, Ends
<1>6. CASE op.a # Null /\ op.a \notin Sound
  <2>1. op.a \in DOMAIN arrays  BY <1>1, <1>6 DEF Accessible
  <2> QED  BY <1>1, <1>2, <1>3, <1>6, <2>1, OddAccess
<1>7. CASE op.a # Null /\ op.a \in Sound
  <2>1. PICK a \in Accessible, i \in Int : a = op.a /\ i = op.i  BY <1>1, <1>7
  <2>2. /\ ~OutOfBounds(a, i) <=> i \in 0 .. Len(ValueMap[a]) - 1
        /\ ~OutOfBounds(a, i) =>
             LET o == i * Stride(arrays[a].type) IN
             /\ i + 1 \in 1 .. arrays[a].len /\ o \in Nat /\ o = (i + 1 - 1) * SizeOf(a)
             /\ InBlock(a, o, SizeOf(a))
    BY <1>7, <2>1, WithinBounds DEF ArraysInv
  <2>3. a \in DOMAIN arrays /\ a \in DOMAIN ValueMap  BY <1>7, <2>1, ValuesAre DEF ArraysInv
  <2>4. PICK t \in Types : t = arrays[a].type  BY <2>3, Block DEF ArraysInv
  <2>5. V!Get <=> /\ op.do = "load" /\ op.a \in DOMAIN ValueMap
                  /\ op.i \in 0 .. Len(ValueMap[op.a]) - 1
                  /\ result' = ValueMap[op.a][op.i + 1] /\ SameMaps
    BY <2>4, Promise
  <2>6. CASE OutOfBounds(a, i)
    <3>1. Exception  BY <1>7, <2>1, <2>6 DEF Load
    <3>2. MayEnd  BY <1>1, <2>1, <2>2, <2>6 DEF MayEnd
    <3> QED  BY <1>1, <3>1, <3>2, Ends
  <2>7. CASE ~OutOfBounds(a, i)
    <3>1. PICK o : o = i * Stride(arrays[a].type)  OBVIOUS
    <3>2. InBlock(a, o, SizeOf(a)) /\ o = (i + 1 - 1) * SizeOf(a) /\ i + 1 \in 1 .. arrays[a].len  BY <2>2, <2>7, <3>1
    <3>3. result' = Decode(arrays[a].bytes, o, SizeOf(a)) /\ UNCHANGED process
      BY <1>7, <2>1, <2>7, <3>1, <3>2 DEF Load, SizeOf
    <3>4. ValueMap[a][i + 1] = Element(a, i + 1)  BY <1>7, <2>1, <3>2, ValuesAre DEF ArraysInv
    <3>5. result' = ValueMap[a][i + 1]  BY <3>2, <3>3, <3>4 DEF Element
    <3> QED  BY <1>1, <1>2, <2>1, <2>2, <2>3, <2>5, <2>7, <3>3, <3>5 DEF AsPromised
  <2> QED  BY <2>6, <2>7
<1> QED  BY <1>5, <1>6, <1>7

(* An arraylength.                                                         *)
LEMMA LengthStep ==
  ASSUME ArraysInv, op # Idle, ArrayLength
  PROVE  AsPromised
<1>1. op.do = "length" /\ op.a \in DOMAIN arrays \cup {Null}
  <2>1. op.do = "length"  BY DEF ArrayLength
  <2> QED  BY <2>1, ArrayOperands DEF ArraysInv
<1>2. SameMaps /\ (op.a # Null => UNCHANGED process)  BY SameBlocks DEF ArrayLength, Exception
<1>3. CASE op.a = Null
  <2>1. Exception  BY <1>3 DEF ArrayLength
  <2>2. MayEnd  BY <1>1, <1>3 DEF MayEnd
  <2> QED  BY <1>1, <2>1, <2>2, Ends
<1>4. CASE op.a # Null /\ op.a \notin Sound  BY <1>1, <1>2, <1>4, OddAccess
<1>5. CASE op.a # Null /\ op.a \in Sound
  <2>1. result' = arrays[op.a].len  BY <1>5 DEF ArrayLength
  <2>2. op.a \in DOMAIN ValueMap /\ Len(ValueMap[op.a]) = arrays[op.a].len  BY <1>5, ValuesAre DEF ArraysInv
  <2>3. PICK t \in Types : t = arrays[op.a].type  BY <1>1, <1>5, Block DEF ArraysInv
  <2>4. V!Length <=> op.do = "length" /\ op.a \in DOMAIN ValueMap /\ result' = Len(ValueMap[op.a]) /\ SameMaps
    BY <2>3, Promise
  <2> QED  BY <1>1, <1>2, <1>5, <2>1, <2>2, <2>4 DEF AsPromised
<1> QED  BY <1>3, <1>4, <1>5

(* A store.                                                                *)
LEMMA StoreStep ==
  ASSUME StridesFit, "char" \notin Types, ArraysInv, ArraysInv', op # Idle, Store
  PROVE  AsPromised
<1>1. /\ op.do = "store" /\ op.a \in Accessible \cup {Null} /\ op.i \in Int /\ op.v \in Int
      /\ \/ op.a = Null /\ Exception
         \/ op.a \in Accessible /\ OutOfBounds(op.a, op.i) /\ Exception
         \/ /\ op.a \in Accessible /\ ~OutOfBounds(op.a, op.i)
            /\ LET o == op.i * Stride(arrays[op.a].type) IN
               \/ ~InBlock(op.a, o, SizeOf(op.a)) /\ Corrupt
               \/ /\ Rewritten(op.a, Encode(arrays[op.a].bytes, o, SizeOf(op.a), op.v))
                  /\ UNCHANGED <<result, process>>
  BY Stores
<1>2. CASE op.a = Null /\ Exception
  <2>1. Null \notin DOMAIN arrays  BY ArraysAssumption DEF ArraysInv, BlocksOK
  <2>2. MayEnd  BY <1>1, <1>2, <2>1, ValuesAre DEF MayEnd, ArraysInv
  <2> QED  BY <1>1, <1>2, <2>2, Ends
<1>3. CASE op.a \in Accessible
  <2>1. PICK a \in Accessible, i \in Int, v \in Int : a = op.a /\ i = op.i /\ v = op.v  BY <1>1, <1>3
  <2>2. a \in DOMAIN arrays /\ a # Null  BY ArraysAssumption DEF Accessible, ArraysInv, BlocksOK
  <2>3. PICK o : o = i * Stride(arrays[a].type)  OBVIOUS
  <2>4. PICK e : e = Encode(arrays[a].bytes, o, SizeOf(a), v)  OBVIOUS
  <2>5. \/ OutOfBounds(a, i) /\ Exception
        \/ ~OutOfBounds(a, i) /\ ~InBlock(a, o, SizeOf(a)) /\ Corrupt
        \/ ~OutOfBounds(a, i) /\ Rewritten(a, e) /\ UNCHANGED <<result, process>>
    BY <1>1, <2>1, <2>2, <2>3, <2>4
  <2>6. ASSUME Rewritten(a, e)
        PROVE  /\ UNCHANGED TypeMap /\ Sound' = Sound /\ DOMAIN ValueMap' = DOMAIN ValueMap
               /\ \A x \in Sound : DOMAIN ValueMap'[x] = DOMAIN ValueMap[x] /\ (x # a => ValueMap'[x] = ValueMap[x])
               /\ a \in Sound => \A j \in 1 .. arrays[a].len :
                    ValueMap'[a][j] = Decode(e, (j - 1) * SizeOf(a), SizeOf(a))
    BY <2>2, <2>6, RewrittenValues DEF ArraysInv
  <2>7. ValueMap' = [x \in DOMAIN ValueMap' |-> ValueMap'[x]] /\ ValueMap = [x \in DOMAIN ValueMap |-> ValueMap[x]]
    BY DEF ValueMap
  <2>8. DOMAIN ValueMap = Sound  BY ValuesAre DEF ArraysInv
  <2>9. CASE a \notin Sound
    <3>1. SameMaps
      <4>1. CASE UNCHANGED arrays  BY <4>1, SameBlocks
      <4>2. CASE Rewritten(a, e)
        <5>1. \A x \in Sound : ValueMap'[x] = ValueMap[x]  BY <2>6, <2>9, <4>2
        <5>2. ValueMap' = ValueMap  BY <2>6, <2>7, <2>8, <4>2, <5>1
        <5> QED  BY <2>6, <4>2, <5>2 DEF SameMaps
      <4> QED  BY <2>5, <4>1, <4>2 DEF Exception, Corrupt
    <3>2. UNCHANGED process \/ (process' \in {"over", "corrupt"} /\ UNCHANGED result)  BY <2>5 DEF Exception, Corrupt
    <3> QED  BY <1>1, <2>1, <2>2, <2>9, <3>1, <3>2, OddAccess
  <2>10. CASE a \in Sound
    <3>1. /\ ~OutOfBounds(a, i) <=> i \in 0 .. Len(ValueMap[a]) - 1
          /\ ~OutOfBounds(a, i) =>
               LET q == i * Stride(arrays[a].type) IN
               /\ i + 1 \in 1 .. arrays[a].len /\ q \in Nat /\ q = (i + 1 - 1) * SizeOf(a)
               /\ InBlock(a, q, SizeOf(a))
      BY <2>10, WithinBounds DEF ArraysInv
    <3>2. V!Put <=>
            /\ i \in 0 .. Len(ValueMap[a]) - 1
            /\ ValueMap' = [ValueMap EXCEPT ![a][i + 1] = Wrapped(v, Power[SizeOf(a)])]
            /\ TypeMap' = TypeMap /\ UNCHANGED result
      BY <1>1, <2>1, <2>10, PromiseOfChanges DEF ArraysInv
    <3>3. CASE OutOfBounds(a, i)
      <4>1. Exception  BY <2>5, <3>3
      <4>2. MayEnd  BY <1>1, <2>1, <3>1, <3>3 DEF MayEnd
      <4> QED  BY <1>1, <4>1, <4>2, Ends
    <3>4. CASE ~OutOfBounds(a, i)
      <4>1. i + 1 \in 1 .. arrays[a].len /\ o \in Nat /\ o = (i + 1 - 1) * SizeOf(a) /\ InBlock(a, o, SizeOf(a))
        BY <2>3, <3>1, <3>4
      <4>2. Rewritten(a, e) /\ UNCHANGED <<result, process>>  BY <2>5, <3>4, <4>1
      <4>3. PICK n \in Nat, s \in Sizes, p \in Int : n = arrays[a].len /\ s = SizeOf(a) /\ p = i + 1
        BY <2>10, SoundIs DEF ArraysInv
      <4> DEFINE w == Wrapped(v, Power[s])
      <4> HIDE DEF w
      <4>4. p \in 1 .. n /\ p \in Int /\ o = (p - 1) * s  BY <4>1, <4>3
      <4>5. PICK b : b = arrays[a].bytes  OBVIOUS
      <4>6. \A j \in 1 .. n : /\ (j - 1) * s \in Nat
                              /\ \A k \in 1 .. s : (j - 1) * s + k \in DOMAIN b /\ b[(j - 1) * s + k] \in Int
        BY <2>10, <4>3, <4>5, SoundIs DEF ArraysInv
      <4>7. e = Encode(b, o, s, v)  BY <2>4, <4>3, <4>5
      <4>8. Decode(e, (p - 1) * s, s) = w
        <5>1. (o + 1) .. (o + s) \subseteq DOMAIN b
          <6> SUFFICES ASSUME NEW c \in (o + 1) .. (o + s) PROVE c \in DOMAIN b  OBVIOUS
          <6>1. PICK k \in 1 .. s : c = o + k
            <7>1. c - o \in 1 .. s /\ c = o + (c - o)  BY <4>1, <4>3 DEF Sizes
            <7> QED  BY <7>1
          <6> QED  BY <4>4, <4>6, <6>1
        <5>2. s \in 0 .. 8 /\ o \in Int  BY <4>1 DEF Sizes
        <5>3. Decode(e, o, s) = Wrapped(v, Power[s])  BY <4>7, <5>1, <5>2, Encoded
        <5> QED  BY <4>4, <5>3 DEF w
      <4>9. ASSUME NEW j \in 1 .. n, j # p PROVE Decode(e, (j - 1) * s, s) = ValueMap[a][j]
        <5>1. PICK q \in Nat : q = (j - 1) * s  BY <4>6
        <5>2. ASSUME NEW k \in 1 .. s PROVE b[q + k] \in Int /\ b[q + k] = e[q + k]
          <6>1. PICK c : c = q + k  OBVIOUS
          <6>2. c \in DOMAIN b /\ b[c] \in Int  BY <4>6, <5>1, <6>1
          <6>3. c - o \notin 1 .. s
            <7>1. CASE s = 1  BY <4>4, <4>9, <5>1, <6>1, <7>1
            <7>2. CASE s = 2  BY <4>4, <4>9, <5>1, <6>1, <7>2
            <7>3. CASE s = 4  BY <4>4, <4>9, <5>1, <6>1, <7>3
            <7>4. CASE s = 8  BY <4>4, <4>9, <5>1, <6>1, <7>4
            <7> QED  BY <7>1, <7>2, <7>3, <7>4 DEF Sizes
          <6>4. b \in Seq(0 .. Byte - 1)  BY <2>2, <4>5, Block DEF ArraysInv
          <6>5. e[c] = b[c]  BY <4>1, <4>7, <6>2, <6>3, <6>4, EncodeType
          <6> QED  BY <6>1, <6>2, <6>5
        <5>3. s \in 0 .. 8 /\ q \in Int  BY DEF Sizes
        <5>4. Same(b, q, e, q, s)  BY <5>2 DEF Same
        <5>5. Decode(b, q, s) = Decode(e, q, s)  BY <5>3, <5>4, SameBytes
        <5>6. ValueMap[a][j] = Decode(b, q, s)  BY <2>10, <4>3, <4>5, <5>1, ValuesAre DEF ArraysInv, Element
        <5> QED  BY <5>1, <5>5, <5>6
      <4>10. ValueMap'[a] = [ValueMap[a] EXCEPT ![p] = w]
        <5>1. ValueMap[a] = [j \in 1 .. n |-> Element(a, j)] /\ DOMAIN ValueMap[a] = 1 .. n
          BY <2>10, <4>3, ValuesAre DEF ArraysInv
        <5>2. ValueMap'[a] = [j \in 1 .. n |-> ValueMap'[a][j]]
          <6>1. (a \in Sound)' /\ ArraysInv'  BY <2>6, <2>10, <4>2
          <6>2. DOMAIN ValueMap'[a] = 1 .. n  BY <2>6, <2>10, <4>2, <5>1
          <6>3. ValueMap'[a] = [j \in DOMAIN ValueMap'[a] |-> ValueMap'[a][j]]
            BY <6>1 DEF ValueMap
          <6> QED  BY <6>2, <6>3
        <5>3. \A j \in 1 .. n : ValueMap'[a][j] = IF j = p THEN w ELSE ValueMap[a][j]
          BY <2>6, <2>10, <4>2, <4>3, <4>8, <4>9
        <5> QED  BY <5>1, <5>2, <5>3
      <4>11. ValueMap' = [ValueMap EXCEPT ![a] = [ValueMap[a] EXCEPT ![p] = w]]
        <5>1. \A x \in Sound : ValueMap'[x] = IF x = a THEN [ValueMap[a] EXCEPT ![p] = w] ELSE ValueMap[x]
          BY <2>6, <4>2, <4>10
        <5>2. DOMAIN ValueMap' = Sound  BY <2>6, <2>8, <4>2
        <5> QED  BY <2>7, <2>8, <5>1, <5>2
      <4>12. ValueMap' = [ValueMap EXCEPT ![a][i + 1] = Wrapped(v, Power[SizeOf(a)])]  BY <4>3, <4>11 DEF w
      <4> QED  BY <2>6, <3>1, <3>2, <3>4, <4>2, <4>12 DEF AsPromised
    <3> QED  BY <3>3, <3>4
  <2> QED  BY <2>9, <2>10
<1> QED  BY <1>1, <1>2, <1>3

(* A length is promised if it is not above the longest.                    *)
LEMMA LongestIs ==
  ASSUME NEW t \in Types, NEW n \in Int
  PROVE  Promised(t, n) <=> n \in 0 .. Longest(t)
<1>1. PICK s \in Sizes : s = arrayTypeSize(t)  BY TypeSizes
<1>2. PICK w \in Int : w = Word - 4 - Header
  <2>1. Word \in Int /\ Header \in Int  BY ArraysAssumption DEF Header
  <2> QED  BY <2>1
<1>3. Promised(t, n) <=> n >= 0 /\ s * n <= w
  <2>1. Word \in Int /\ Header \in Int /\ s * n \in Int  BY ArraysAssumption DEF Header, Sizes
  <2> QED  BY <1>1, <1>2, <2>1 DEF Promised
<1>4. Longest(t) = w \div s  BY <1>1, <1>2 DEF Longest
<1>5. s * n <= w <=> n <= w \div s
  <2>1. CASE s = 1  BY <2>1
  <2>2. CASE s = 2  BY <2>2
  <2>3. CASE s = 4  BY <2>3
  <2>4. CASE s = 8  BY <2>4
  <2> QED  BY <2>1, <2>2, <2>3, <2>4 DEF Sizes
<1>6. w \div s \in Int  BY DEF Sizes
<1> QED  BY <1>3, <1>4, <1>5, <1>6

(* A new array.                                                            *)
LEMMA CreateStep ==
  ASSUME ArraysInv, ArraysInv', op # Idle, createArray
  PROVE  AsPromised
<1>1. /\ op.do = "create" /\ op.type \in Types /\ op.n \in Lengths /\ UNCHANGED result
      /\ \/ process' = "over" /\ UNCHANGED arrays
         \/ process' = "corrupt" /\ UNCHANGED arrays /\ ~Promised(op.type, op.n)
         \/ /\ UNCHANGED process
            /\ \E a \in Ref \ DOMAIN arrays, m \in Nat :
                 /\ Added(a, NewBlock(op.type, op.n, m))
                 /\ Promised(op.type, op.n) => op.n * arrayTypeSize(op.type) <= m
  BY Creates
<1>2. PICK t \in Types, n \in Int : t = op.type /\ n = op.n
  <2>1. op.n \in Int  BY <1>1, ArraysAssumption
  <2> QED  BY <1>1, <2>1
<1>3. Promised(t, n) <=> n \in 0 .. Longest(t)  BY LongestIs
<1>4. CASE process' = "over" /\ UNCHANGED arrays
  <2>1. SameMaps  BY <1>4, SameBlocks
  <2>2. V!Over <=> MayEnd /\ process' = "over" /\ SameMaps /\ UNCHANGED result
    BY <1>2, Promise
  <2>3. MayEnd  BY <1>1 DEF MayEnd
  <2> QED  BY <1>1, <1>4, <2>1, <2>2, <2>3 DEF AsPromised
<1>5. CASE process' = "corrupt" /\ UNCHANGED arrays /\ ~Promised(t, n)
  <2>1. SameMaps  BY <1>5, SameBlocks
  <2>2. V!Break <=>
          /\ process' = "corrupt" /\ SameMaps /\ UNCHANGED result
          /\ CASE op.do = "create" -> op.n \notin 0 .. [x \in Types |-> Longest(x)][op.type]
               [] op.do = "copy" -> OddOperands
               [] OTHER -> op.a \notin DOMAIN ValueMap
    BY PromiseOfChanges DEF ArraysInv
  <2>3. [x \in Types |-> Longest(x)][op.type] = Longest(t)  BY <1>2
  <2>4. op.n \notin 0 .. [x \in Types |-> Longest(x)][op.type]  BY <1>2, <1>3, <1>5, <2>3
  <2> QED  BY <1>1, <1>5, <2>1, <2>2, <2>4 DEF AsPromised
<1>6. ASSUME UNCHANGED process, NEW a \in Ref \ DOMAIN arrays, NEW m \in Nat, Added(a, NewBlock(t, n, m)),
             Promised(t, n) => n * arrayTypeSize(t) <= m
      PROVE  AsPromised
  <2>1. n \in Lengths  BY <1>1, <1>2
  <2>2. /\ DOMAIN arrays' = DOMAIN arrays \cup {a} /\ arrays'[a] = NewBlock(t, n, m)
        /\ \A x \in DOMAIN arrays : arrays'[x] = arrays[x]
    BY <1>6, <2>1, AddedKeeps DEF ArraysInv
  <2>3. PICK f : f = arrays'  OBVIOUS
  <2>4. DOMAIN f = DOMAIN arrays \cup {a} /\ f[a] = NewBlock(t, n, m) /\ \A x \in DOMAIN arrays : f[x] = arrays[x]
    BY <2>2, <2>3
  <2>5. f[a].type = t /\ f[a].len = n /\ f[a].bytes = [k \in 1 .. m |-> 0]  BY <2>4 DEF NewBlock
  <2>6. TypeMap' = [x \in DOMAIN f |-> f[x].type]  BY <2>3 DEF TypeMap
  <2>7. DOMAIN TypeMap = DOMAIN arrays /\ \A x \in DOMAIN arrays : TypeMap[x] = arrays[x].type  BY DEF TypeMap
  <2>8. TypeMap' = [x \in DOMAIN TypeMap \cup {a} |-> IF x = a THEN op.type ELSE TypeMap[x]]
    BY <1>2, <2>4, <2>5, <2>6, <2>7
  <2>9. Sound' = {x \in DOMAIN f : Promised(f[x].type, f[x].len)}  BY <2>3 DEF Sound, Promised, arrayTypeSize
  <2>10. Sound' = IF n \in 0 .. Longest(t) THEN Sound \cup {a} ELSE Sound
    BY <1>3, <2>4, <2>5, <2>9 DEF Sound
  <2>11. ValueMap' = [x \in Sound' |-> [i \in 1 .. f[x].len |->
           Decode(f[x].bytes, (i - 1) * arrayTypeSize(f[x].type), arrayTypeSize(f[x].type))]]
    BY <2>3 DEF ValueMap
  <2>12. DOMAIN ValueMap = Sound /\ a \notin Sound  BY <1>6 DEF ValueMap, Sound
  <2>13. ASSUME NEW x \in Sound PROVE ValueMap'[x] = ValueMap[x]
    <3>1. x \in DOMAIN arrays /\ x \in Sound'  BY <2>10 DEF Sound
    <3> QED  BY <2>4, <2>11, <3>1 DEF ValueMap
  <2>14. ASSUME n \in 0 .. Longest(t) PROVE ValueMap'[a] = [i \in 1 .. n |-> 0]
    <3>1. a \in Sound'  BY <2>10, <2>14
    <3>2. PICK s \in Sizes : s = arrayTypeSize(t)  BY TypeSizes
    <3>3. ValueMap'[a] = [i \in 1 .. n |-> Decode([k \in 1 .. m |-> 0], (i - 1) * s, s)]
      BY <2>5, <2>11, <3>1, <3>2
    <3>4. n * s <= m  BY <1>3, <1>6, <2>14, <3>2
    <3>5. ASSUME NEW i \in 1 .. n PROVE Decode([k \in 1 .. m |-> 0], (i - 1) * s, s) = 0
      <4>1. PICK b : b = [k \in 1 .. m |-> 0]  OBVIOUS
      <4>2. PICK o \in Int : o = (i - 1) * s  BY DEF Sizes
      <4>3. \A k \in 1 .. s : o + k \in 1 .. m
        <5>1. CASE s = 1  BY <3>4, <4>2, <5>1
        <5>2. CASE s = 2  BY <3>4, <4>2, <5>2
        <5>3. CASE s = 4  BY <3>4, <4>2, <5>3
        <5>4. CASE s = 8  BY <3>4, <4>2, <5>4
        <5> QED  BY <5>1, <5>2, <5>3, <5>4 DEF Sizes
      <4>4. \A k \in 1 .. s : b[o + k] = 0  BY <4>1, <4>3
      <4>5. s \in 0 .. 8  BY DEF Sizes
      <4>6. Decode(b, o, s) = 0  BY <4>4, <4>5, Zeros
      <4> QED  BY <4>1, <4>2, <4>6
    <3> QED  BY <3>3, <3>5
  <2>15. ValueMap' = IF n \in 0 .. Longest(t)
                     THEN [x \in DOMAIN ValueMap \cup {a} |-> IF x = a THEN [i \in 1 .. n |-> 0] ELSE ValueMap[x]]
                     ELSE ValueMap
    <3>1. ValueMap' = [x \in Sound' |-> ValueMap'[x]] /\ ValueMap = [x \in Sound |-> ValueMap[x]]  BY DEF ValueMap
    <3>2. CASE n \in 0 .. Longest(t)
      <4>1. \A x \in Sound \cup {a} : ValueMap'[x] = IF x = a THEN [i \in 1 .. n |-> 0] ELSE ValueMap[x]
        BY <2>12, <2>13, <2>14, <3>2
      <4>2. Sound' = Sound \cup {a}  BY <2>10, <3>2
      <4> QED  BY <2>12, <3>1, <3>2, <4>1, <4>2
    <3>3. CASE n \notin 0 .. Longest(t)
      <4>1. Sound' = Sound  BY <2>10, <3>3
      <4> QED  BY <2>13, <3>1, <3>3, <4>1
    <3> QED  BY <3>2, <3>3
  <2>16. V!Create <=>
           /\ UNCHANGED result
           /\ \E y \in Ref \ DOMAIN TypeMap :
                /\ TypeMap' = [x \in DOMAIN TypeMap \cup {y} |-> IF x = y THEN op.type ELSE TypeMap[x]]
                /\ ValueMap' =
                     IF op.n \in 0 .. Longest(op.type)
                     THEN [x \in DOMAIN ValueMap \cup {y} |-> IF x = y THEN [i \in 1 .. op.n |-> 0] ELSE ValueMap[x]]
                     ELSE ValueMap
    BY <1>1, PromiseOfChanges DEF ArraysInv
  <2>17. V!Create  BY <1>1, <1>2, <1>6, <2>7, <2>8, <2>15, <2>16
  <2> QED  BY <1>6, <2>17 DEF AsPromised
<1> QED  BY <1>1, <1>2, <1>4, <1>5, <1>6

\* A copy that JArrayValues promises something about.
Orderly == op.s \in Sound /\ op.d \in Sound /\ op.bs \in Nat /\ op.bd \in Nat /\ op.n \in Nat

(* The bounds of an orderly copy do not wrap around.                       *)
LEMMA OrderlyBounds ==
  ASSUME BlocksOK, Orderly, op.bs \in Starts, op.bd \in Starts, op.n \in Counts
  PROVE  /\ ~Refuses(op.s, op.bs, op.d, op.bd, op.n) <=>
              /\ arrays[op.s].type = arrays[op.d].type /\ op.n >= 1
              /\ op.bs + op.n <= arrays[op.s].len /\ op.bd + op.n <= arrays[op.d].len
         /\ ~Refuses(op.s, op.bs, op.d, op.bd, op.n) =>
              /\ SizeOf(op.d) = SizeOf(op.s)
              /\ From = SizeOf(op.s) * op.bs /\ To = SizeOf(op.s) * op.bd /\ Bytes = SizeOf(op.s) * op.n
              /\ Fits
<1>1. PICK bs \in Nat, bd \in Nat, n \in Nat : bs = op.bs /\ bd = op.bd /\ n = op.n  BY DEF Orderly
<1>2. PICK w \in Nat : w = Word  BY ArraysAssumption
<1>3. 2 * bs < w /\ 2 * bd < w /\ 2 * n < w  BY <1>1, <1>2, ArraysAssumption
<1>4. PICK ls \in Nat, ld \in Nat, z \in Sizes, y \in Sizes :
        ls = arrays[op.s].len /\ ld = arrays[op.d].len /\ z = SizeOf(op.s) /\ y = SizeOf(op.d)
  BY SoundIs DEF Orderly
<1>5. z * ls <= w - 4 /\ y * ld <= w - 4
  <2>1. Header \in Nat  BY ArraysAssumption DEF Header
  <2>2. Header + z * ls <= w - 4 /\ Header + y * ld <= w - 4  BY <1>2, <1>4, SoundIs DEF Orderly
  <2>3. z * ls \in Nat /\ y * ld \in Nat  BY DEF Sizes
  <2> QED  BY <2>1, <2>2, <2>3
<1>6. ls < w /\ ld < w  BY <1>5 DEF Sizes
<1>7. \A x \in Nat : x < w => ToUint(x) = x
  <2> SUFFICES ASSUME NEW x \in Nat, x < w PROVE ToUint(x) = x  OBVIOUS
  <2>1. x \in 0 .. Word - 1 /\ x \in Int  BY <1>2
  <2> QED  BY <2>1, Unsigned
<1>8. ToUint(bs) = bs /\ ToUint(bd) = bd /\ ToUint(n) = n /\ ToUint(ls) = ls /\ ToUint(ld) = ld
  BY <1>3, <1>6, <1>7
<1>9. ToUint(bs + n) = bs + n /\ ToUint(bd + n) = bd + n  BY <1>3, <1>7
<1>10. ~Refuses(op.s, op.bs, op.d, op.bd, op.n) <=>
         /\ n # 0 /\ arrays[op.s].type = arrays[op.d].type
         /\ ~(bs + n > ls) /\ ~(bd + n > ld)
  BY <1>1, <1>4, <1>8, <1>9 DEF Refuses
<1>11. ~Refuses(op.s, op.bs, op.d, op.bd, op.n) <=>
         /\ arrays[op.s].type = arrays[op.d].type /\ n >= 1
         /\ bs + n <= ls /\ bd + n <= ld
  BY <1>10
<1>12. ASSUME ~Refuses(op.s, op.bs, op.d, op.bd, op.n)
       PROVE  /\ SizeOf(op.d) = z /\ From = z * bs /\ To = z * bd /\ Bytes = z * n /\ Fits
  <2>1. SizeOf(op.d) = z /\ y = z  BY <1>4, <1>11, <1>12 DEF SizeOf
  <2>2. /\ z * bs \in Nat /\ z * bd \in Nat /\ z * n \in Nat
        /\ z * bs + z * n <= z * ls /\ z * bd + z * n <= z * ld
    BY <1>11, <1>12 DEF Sizes
  <2>3. z * ls \in Nat /\ z * ld \in Nat  BY DEF Sizes
  <2>4. z * bs < w /\ z * bd < w /\ z * n < w  BY <1>5, <2>1, <2>2, <2>3
  <2>5. From = z * bs /\ To = z * bd /\ Bytes = z * n
    BY <1>1, <1>4, <1>7, <1>8, <2>2, <2>4 DEF From, To, Bytes
  <2>6. PICK ms \in Nat, md \in Nat : ms = Len(arrays[op.s].bytes) /\ md = Len(arrays[op.d].bytes)
    BY Block, SoundIs DEF Orderly
  <2>7. z * ls <= ms /\ z * ld <= md
    <3>1. Room(op.s) /\ Room(op.d) /\ Promised(arrays[op.s].type, arrays[op.s].len)
          /\ Promised(arrays[op.d].type, arrays[op.d].len)
      BY DEF Orderly, Sound, BlocksOK
    <3>2. ls * z <= ms /\ ld * z <= md  BY <1>4, <2>1, <2>6, <3>1 DEF Room
    <3> QED  BY <3>2 DEF Sizes
  <2>8. z * bs + z * n <= ms /\ z * bd + z * n <= md  BY <2>2, <2>3, <2>7
  <2>9. Fits  BY <2>2, <2>5, <2>6, <2>8 DEF Fits, InBlock
  <2> QED  BY <2>1, <2>5, <2>9
<1> QED  BY <1>1, <1>4, <1>11, <1>12

(* The elements after an orderly copy.                                     *)
LEMMA OrderlyCopy ==
  ASSUME BlocksOK, Orderly, op.bs \in Starts, op.bd \in Starts, op.n \in Counts,
         ~Refuses(op.s, op.bs, op.d, op.bd, op.n), NEW up \in BOOLEAN,
         NEW i \in 1 .. arrays[op.d].len
  PROVE  LET c == Copied(op.s, From, op.d, To, Bytes, up)
             new == Decode(c, (i - 1) * SizeOf(op.d), SizeOf(op.d)) IN
         IF i \notin op.bd + 1 .. op.bd + op.n THEN new = ValueMap[op.d][i]
         ELSE Overlap \/ new = ValueMap[op.s][i - op.bd + op.bs]
<1>1. PICK bs \in Nat, bd \in Nat, n \in Nat : bs = op.bs /\ bd = op.bd /\ n = op.n  BY DEF Orderly
<1>2. PICK s \in Sound, d \in Sound : s = op.s /\ d = op.d  BY DEF Orderly
<1>3. PICK ls \in Nat, ld \in Nat, z \in Sizes : ls = arrays[s].len /\ ld = arrays[d].len /\ z = SizeOf(s)
  BY SoundIs
<1>4. /\ bs + n <= ls /\ bd + n <= ld /\ n >= 1
      /\ SizeOf(d) = z /\ From = z * bs /\ To = z * bd /\ Bytes = z * n
  BY <1>1, <1>2, <1>3, OrderlyBounds
<1>5. PICK f \in Nat, o \in Nat, m \in Nat : f = z * bs /\ o = z * bd /\ m = z * n
  <2>1. z * bs \in Nat /\ z * bd \in Nat /\ z * n \in Nat  BY DEF Sizes
  <2> QED  BY <2>1
<1>6. PICK x, y : x = arrays[s].bytes /\ y = arrays[d].bytes  OBVIOUS
<1>7. \A j \in 1 .. ls : /\ (j - 1) * z \in Nat
                         /\ \A k \in 1 .. z : (j - 1) * z + k \in DOMAIN x /\ x[(j - 1) * z + k] \in Int
  BY <1>3, <1>6, SoundIs
<1>8. \A j \in 1 .. ld : /\ (j - 1) * z \in Nat
                         /\ \A k \in 1 .. z : (j - 1) * z + k \in DOMAIN y /\ y[(j - 1) * z + k] \in Int
  BY <1>3, <1>4, <1>6, SoundIs
<1>9. PICK c : c = Copied(s, f, d, o, m, up)  OBVIOUS
<1>10. \A b \in DOMAIN y :
         c[b] = LET k == b - o IN IF k \notin 1 .. m THEN y[b] ELSE x[Moved(s, f, d, o, m, k, up)]
  BY <1>6, <1>9 DEF Copied
<1>11. i \in 1 .. ld  BY <1>2, <1>3
<1>12. PICK q \in Nat : q = (i - 1) * z  BY <1>8, <1>11
<1>13. z \in 0 .. 8 /\ q \in Int  BY DEF Sizes
<1>14. CASE i \notin bd + 1 .. bd + n
  <2>1. ASSUME NEW k \in 1 .. z PROVE y[q + k] \in Int /\ y[q + k] = c[q + k]
    <3>1. PICK b : b = q + k  OBVIOUS
    <3>2. b \in DOMAIN y /\ y[b] \in Int /\ b \in Nat  BY <1>8, <1>11, <1>12, <3>1
    <3>3. b - o \notin 1 .. m
      <4>1. CASE z = 1  BY <1>5, <1>11, <1>12, <1>14, <3>1, <4>1
      <4>2. CASE z = 2  BY <1>5, <1>11, <1>12, <1>14, <3>1, <4>2
      <4>3. CASE z = 4  BY <1>5, <1>11, <1>12, <1>14, <3>1, <4>3
      <4>4. CASE z = 8  BY <1>5, <1>11, <1>12, <1>14, <3>1, <4>4
      <4> QED  BY <4>1, <4>2, <4>3, <4>4 DEF Sizes
    <3>4. c[b] = y[b]  BY <1>10, <3>2, <3>3
    <3> QED  BY <3>1, <3>2, <3>4
  <2>2. Same(y, q, c, q, z)  BY <2>1 DEF Same
  <2>3. Decode(y, q, z) = Decode(c, q, z)  BY <1>13, <2>2, SameBytes
  <2>4. ValueMap[d][i] = Decode(y, q, z)  BY <1>3, <1>4, <1>6, <1>11, <1>12, ValuesAre DEF Element
  <2> QED  BY <1>1, <1>2, <1>4, <1>5, <1>9, <1>12, <1>14, <2>3, <2>4
<1>15. CASE i \in bd + 1 .. bd + n /\ ~Overlap
  <2>1. PICK j \in 1 .. ls : j = i - bd + bs  BY <1>4, <1>15
  <2>2. PICK r \in Nat : r = (j - 1) * z  BY <1>7
  <2>3. s # d \/ f + m <= o \/ o + m <= f
    <3>1. s # d \/ bs + n <= bd \/ bd + n <= bs  BY <1>1, <1>2, <1>15 DEF Overlap
    <3> QED  BY <1>5, <3>1 DEF Sizes
  <2>4. ASSUME NEW k \in 1 .. z PROVE x[r + k] \in Int /\ x[r + k] = c[q + k]
    <3>1. PICK b \in Nat : b = q + k  OBVIOUS
    <3>2. b \in DOMAIN y  BY <1>8, <1>11, <1>12, <3>1
    <3>3. b - o \in 1 .. m /\ f + (b - o) = r + k
      <4>1. CASE z = 1  BY <1>5, <1>11, <1>12, <1>15, <2>1, <2>2, <3>1, <4>1
      <4>2. CASE z = 2  BY <1>5, <1>11, <1>12, <1>15, <2>1, <2>2, <3>1, <4>2
      <4>3. CASE z = 4  BY <1>5, <1>11, <1>12, <1>15, <2>1, <2>2, <3>1, <4>3
      <4>4. CASE z = 8  BY <1>5, <1>11, <1>12, <1>15, <2>1, <2>2, <3>1, <4>4
      <4> QED  BY <4>1, <4>2, <4>3, <4>4 DEF Sizes
    <3>4. PICK h \in 1 .. m : h = b - o  BY <3>3
    <3>5. Moved(s, f, d, o, m, h, up) = r + k  BY <2>3, <3>3, <3>4, MovedFrom
    <3>6. c[b] = x[r + k]  BY <1>10, <3>2, <3>4, <3>5
    <3>7. x[r + k] \in Int  BY <1>7, <2>2
    <3> QED  BY <3>1, <3>6, <3>7
  <2>5. Same(x, r, c, q, z)  BY <2>4 DEF Same
  <2>6. Decode(x, r, z) = Decode(c, q, z)  BY <1>13, <2>5, SameBytes
  <2>7. ValueMap[s][j] = Decode(x, r, z)  BY <1>3, <1>6, <2>2, ValuesAre DEF Element
  <2> QED  BY <1>1, <1>2, <1>4, <1>5, <1>9, <1>12, <1>15, <2>1, <2>6, <2>7
<1>16. CASE i \in bd + 1 .. bd + n /\ Overlap  BY <1>1, <1>16
<1> QED  BY <1>14, <1>15, <1>16

(* A copy.                                                                 *)
LEMMA CopyStep ==
  ASSUME ArraysInv, ArraysInv', op # Idle, jCopyArray
  PROVE  AsPromised
<1>1. /\ op.do = "copy" /\ op.bs \in Starts /\ op.bd \in Starts /\ op.n \in Counts
      /\ op.bs \in Int /\ op.bd \in Int /\ op.n \in Int
      /\ \/ Null \in {op.s, op.d} /\ process' = "over" /\ UNCHANGED <<arrays, result>>
         \/ /\ op.s \in DOMAIN arrays /\ op.d \in DOMAIN arrays
            /\ \/ /\ Refuses(op.s, op.bs, op.d, op.bd, op.n)
                  /\ result' = 0 /\ UNCHANGED <<arrays, process>>
               \/ ~Refuses(op.s, op.bs, op.d, op.bd, op.n) /\ ~Fits /\ Corrupt
               \/ /\ ~Refuses(op.s, op.bs, op.d, op.bd, op.n) /\ Fits
                  /\ From \in Nat /\ To \in Nat /\ Bytes \in Nat
                  /\ \E up \in BOOLEAN : Rewritten(op.d, Copied(op.s, From, op.d, To, Bytes, up))
                  /\ result' = 1 /\ UNCHANGED process
  BY Copies
<1>2. BlocksOK /\ BlocksOK'  BY DEF ArraysInv
<1>3. CASE Null \in {op.s, op.d} /\ process' = "over" /\ UNCHANGED <<arrays, result>>
  <2>1. MayEnd  BY <1>1, <1>3 DEF MayEnd
  <2>2. Exception  BY <1>3 DEF Exception
  <2> QED  BY <1>1, <2>1, <2>2, Ends
<1>4. CASE op.s \in DOMAIN arrays /\ op.d \in DOMAIN arrays
  <2>1. PICK s \in DOMAIN arrays, d \in DOMAIN arrays : s = op.s /\ d = op.d  BY <1>4
  <2>2. Null \notin {op.s, op.d}  BY <1>4, ArraysAssumption DEF ArraysInv, BlocksOK
  <2>3. DOMAIN ValueMap = Sound  BY <1>2, ValuesAre
  <2>4. OddOperands <=> ~Orderly  BY <1>1, <2>3 DEF OddOperands, Orderly
  <2> DEFINE Made == TypeMap[op.s] = TypeMap[op.d] /\ InPart(op.s, op.bs, op.n) /\ InPart(op.d, op.bd, op.n)
             Right == \A i \in DOMAIN ValueMap[op.d] :
                        IF i \notin op.bd + 1 .. op.bd + op.n THEN ValueMap'[op.d][i] = ValueMap[op.d][i]
                        ELSE Overlap \/ ValueMap'[op.d][i] = ValueMap[op.s][i - op.bd + op.bs]
  <2>5. V!Copy <=>
          /\ Null \notin {op.s, op.d} /\ TypeMap' = TypeMap
          /\ IF OddOperands THEN result' \in {0, 1} /\ SameOthers
             ELSE IF Made THEN result' = 1 /\ SameOthers /\ Right
             ELSE result' = 0 /\ ValueMap' = ValueMap
    BY <1>1, <1>2, PromiseOfChanges
  <2>6. ASSUME Orderly
        PROVE  /\ Made <=> ~Refuses(op.s, op.bs, op.d, op.bd, op.n)
               /\ ~Refuses(op.s, op.bs, op.d, op.bd, op.n) => Fits
    <3>1. /\ TypeMap[op.s] = arrays[op.s].type /\ TypeMap[op.d] = arrays[op.d].type
          /\ Len(ValueMap[op.s]) = arrays[op.s].len /\ Len(ValueMap[op.d]) = arrays[op.d].len
      BY <1>2, <1>4, <2>6, ValuesAre DEF Orderly
    <3>2. Made <=> /\ arrays[op.s].type = arrays[op.d].type /\ op.n >= 1
                   /\ op.bs + op.n <= arrays[op.s].len /\ op.bd + op.n <= arrays[op.d].len
      BY <2>6, <3>1 DEF InPart, Orderly
    <3> QED  BY <1>1, <1>2, <2>6, <3>2, OrderlyBounds
  <2> HIDE DEF Made, Right
  <2>7. CASE Refuses(op.s, op.bs, op.d, op.bd, op.n) /\ result' = 0 /\ UNCHANGED <<arrays, process>>
    <3>1. SameMaps  BY <2>7, SameBlocks
    <3>2. SameOthers  BY <3>1 DEF SameMaps, SameOthers
    <3>3. V!Copy  BY <2>2, <2>4, <2>5, <2>6, <2>7, <3>1, <3>2 DEF SameMaps
    <3> QED  BY <2>7, <3>3 DEF AsPromised
  <2>8. CASE ~Refuses(op.s, op.bs, op.d, op.bd, op.n) /\ ~Fits /\ Corrupt
    <3>1. SameMaps /\ process' = "corrupt" /\ UNCHANGED result  BY <2>8, SameBlocks DEF Corrupt
    <3>2. OddOperands  BY <2>4, <2>6, <2>8
    <3>3. V!Break <=>
            /\ process' = "corrupt" /\ SameMaps /\ UNCHANGED result
            /\ CASE op.do = "create" -> op.n \notin 0 .. [t \in Types |-> Longest(t)][op.type]
                 [] op.do = "copy" -> OddOperands
                 [] OTHER -> op.a \notin DOMAIN ValueMap
      BY <1>2, PromiseOfChanges
    <3> QED  BY <1>1, <3>1, <3>2, <3>3 DEF AsPromised
  <2>9. ASSUME ~Refuses(op.s, op.bs, op.d, op.bd, op.n), NEW up \in BOOLEAN,
               Rewritten(op.d, Copied(op.s, From, op.d, To, Bytes, up)), result' = 1, UNCHANGED process
        PROVE  AsPromised
    <3>1. PICK c : c = Copied(op.s, From, op.d, To, Bytes, up)  OBVIOUS
    <3>2. Rewritten(d, c)  BY <2>1, <2>9, <3>1
    <3>3. /\ UNCHANGED TypeMap /\ Sound' = Sound /\ DOMAIN ValueMap' = DOMAIN ValueMap
          /\ \A x \in Sound : DOMAIN ValueMap'[x] = DOMAIN ValueMap[x] /\ (x # d => ValueMap'[x] = ValueMap[x])
          /\ d \in Sound => \A i \in 1 .. arrays[d].len :
               ValueMap'[d][i] = Decode(c, (i - 1) * SizeOf(d), SizeOf(d))
      BY <1>2, <3>2, RewrittenValues
    <3>4. SameOthers  BY <2>1, <2>3, <3>3 DEF SameOthers
    <3>5. CASE Orderly
      <4>1. DOMAIN ValueMap[op.d] = 1 .. arrays[op.d].len  BY <1>2, <3>5, ValuesAre DEF Orderly
      <4>2. ASSUME NEW i \in 1 .. arrays[op.d].len
            PROVE  IF i \notin op.bd + 1 .. op.bd + op.n THEN ValueMap'[op.d][i] = ValueMap[op.d][i]
                   ELSE Overlap \/ ValueMap'[op.d][i] = ValueMap[op.s][i - op.bd + op.bs]
        <5>1. PICK new : new = Decode(c, (i - 1) * SizeOf(op.d), SizeOf(op.d))  OBVIOUS
        <5>2. IF i \notin op.bd + 1 .. op.bd + op.n THEN new = ValueMap[op.d][i]
              ELSE Overlap \/ new = ValueMap[op.s][i - op.bd + op.bs]
          BY <1>1, <1>2, <2>9, <3>1, <3>5, <5>1, OrderlyCopy
        <5>3. ValueMap'[op.d][i] = new  BY <2>1, <3>3, <3>5, <5>1 DEF Orderly
        <5> QED  BY <5>2, <5>3
      <4>3. Right  BY <4>1, <4>2 DEF Right
      <4>4. Made  BY <2>6, <2>9, <3>5
      <4>5. V!Copy  BY <2>2, <2>4, <2>5, <2>9, <3>3, <3>4, <3>5, <4>3, <4>4
      <4> QED  BY <2>9, <4>5 DEF AsPromised
    <3>6. CASE ~Orderly
      <4>1. V!Copy  BY <2>2, <2>4, <2>5, <2>9, <3>3, <3>4, <3>6
      <4> QED  BY <2>9, <4>1 DEF AsPromised
    <3> QED  BY <3>5, <3>6
  <2> QED  BY <1>1, <1>4, <2>2, <2>7, <2>8, <2>9
<1> QED  BY <1>1, <1>3, <1>4

(* Array instructions and copyArray do to the elements what the            *)
(* instructions of Java do, for any word size, types, lengths, indexes and *)
(* starts: an access changes or returns the one element it names, and a    *)
(* copy is made where it was asked for, or refused, whatever order memcpy  *)
(* goes in.  If J_Vars have eight bytes, this holds without arrays of int, *)
(* float and references, whose elements lie four bytes apart.  It does not *)
(* hold of arrays of char, whose elements are read with a sign.            *)
THEOREM ArraysKeepValues ==
  ASSUME VarSize = 4 \/ Types \cap {"float", "int", "object", "array"} = {}, "char" \notin Types
  PROVE  ArraysSpec => KeepsValues
<1> StridesFit  BY FourByteStrides
<1>1. ArraysInit => V!ValuesInit
  <2> SUFFICES ASSUME ArraysInit PROVE V!ValuesInit  OBVIOUS
  <2>1. arrays = << >> /\ DOMAIN arrays = {}  BY DEF ArraysInit
  <2>2. TypeMap = << >> /\ ValueMap = << >>  BY <2>1 DEF TypeMap, ValueMap, Sound
  <2> QED  BY <2>2 DEF ArraysInit, V!ValuesInit, TypeMap, ValueMap
<1>2. ArraysInv /\ ArraysInv' /\ [ArraysNext]_arrayVars
        => [process = "runs" /\ (V!Fetch \/ V!Execute)]_(V!valueVars)
  <2> SUFFICES ASSUME ArraysInv, ArraysInv', [ArraysNext]_arrayVars
               PROVE  [process = "runs" /\ (V!Fetch \/ V!Execute)]_(V!valueVars)
    OBVIOUS
  <2>1. CASE UNCHANGED arrayVars
    <3>1. SameMaps /\ UNCHANGED <<op, result, process>>  BY <2>1, SameBlocks DEF arrayVars
    <3>2. UNCHANGED V!valueVars  BY <3>1 DEF V!valueVars, SameMaps, TypeMap, ValueMap
    <3> QED  BY <3>2
  <2>2. CASE process = "runs" /\ FetchArrayOp
    <3>1. SameMaps  BY <2>2, SameBlocks DEF FetchArrayOp
    <3>2. op' \in Instructions(Ref \cup {Null}, Ref \cup {Null})
      BY <2>2 DEF FetchArrayOp, Instructions, Accessible, ArraysInv, BlocksOK
    <3>3. V!Fetch  BY <2>2, <3>1, <3>2 DEF FetchArrayOp, V!Fetch, SameMaps, TypeMap, ValueMap
    <3> QED  BY <2>2, <3>3
  <2>3. CASE /\ process = "runs" /\ op # Idle /\ op' = Idle
             /\ createArray \/ Load \/ Store \/ ArrayLength \/ jCopyArray
    <3>1. AsPromised  BY <2>3, CreateStep, LoadStep, StoreStep, LengthStep, CopyStep
    <3>2. V!Execute  BY <2>3, <3>1 DEF AsPromised, V!Execute
    <3> QED  BY <2>3, <3>2
  <2> QED  BY <2>1, <2>2, <2>3 DEF ArraysNext
<1> QED  BY <1>1, <1>2, ArraysInvariant, PTL DEF ArraysSpec, KeepsValues, V!ValuesSpec
=============================================================================
