---------------------------- MODULE JMonitorProofs ----------------------------
(***************************************************************************)
(* The list of locks of a thread, the mutexes and what its Java code is in *)
(* agree, for any number of threads, objects and stops.                    *)
(*                                                                         *)
(* Between two steps of a monitorenter, a monitorexit or a wait they do    *)
(* not agree: the invariant says, for each phase of these calls, by how    *)
(* much each is ahead of the others.  A thread whose locks the handler of  *)
(* another one takes (Robbed) keeps less of it: its list never has more    *)
(* than the Java code entered.                                             *)
(*                                                                         *)
(* The wait queues are in order as long as no two threads have worked on   *)
(* one queue at once: each is a chain of nodes, and who waits is in it.    *)
(***************************************************************************)
EXTENDS JMonitor, WellFoundedInduction, SequenceTheorems, FiniteSetTheorems, TLAPS

Distinct(s) == \A i, j \in DOMAIN s : s[i].obj = s[j].obj => i = j
First(s, o) == s # << >> /\ s[1].obj = o

\* What a thread is doing with an object.
AtObject == {"enter", "own", "exit", "append", "release", "mark", "pause", "find", "unlink", "restore", "restored"}
Stopping == {"kill", "dead"}
Phase(t, o) ==
  IF pc[t].at \in Stopping \/ (pc[t].o = o /\ pc[t].at \in AtObject) THEN pc[t].at ELSE "run"

\* A lock of the list: how often it is held, or minus that while it is released.
\* It is in the list no oftener than the Java code is in the monitor.
Listed(phase, n, in, first) ==
  /\ n < 0 <=> phase \in {"pause", "find", "unlink", "restore", "restored"}
  /\ n <= IF phase \in {"enter", "own"} THEN in + 1 ELSE in
  /\ -n <= in
  /\ phase \in {"mark", "restored"} => first

\* How often the list has an object, its mutex is held and the Java code is in
\* its monitor, in each phase; leaves: the signal handler will unlock it.
Agrees(phase, n, held, in, leaves) ==
  /\ phase = "run" => n = in /\ held = in
  /\ phase = "enter" => n = in + 1 /\ held = in
  /\ phase = "own" => n = in + 1 /\ held = in + 1
  /\ phase = "exit" => n = in /\ held = in + 1
  /\ phase \in {"append", "release"} => in > 0 /\ n = in /\ held = in
  /\ phase = "mark" => in > 0 /\ n = in /\ held = 0
  /\ phase \in {"pause", "find", "unlink", "restore"} => in > 0 /\ n = -in /\ held = 0
  /\ phase = "restored" => in > 0 /\ n = -in /\ held = in
  /\ phase = "kill" /\ leaves => held <= IF n < 0 THEN -n - 1 ELSE n
  /\ phase = "dead" /\ leaves => held = 0

Leaves(t) == ~Misled(t) /\ killedAt[t] \notin {"exit", "restored"}
ObjectOK(t, o) ==
  LET n == Times(locks[t], o) IN
  /\ Phase(t, o) \notin Stopping /\ n # 0 => Listed(Phase(t, o), n, depth[t][o], First(locks[t], o))
  /\ ~Robbed(t) => Agrees(Phase(t, o), n, Held(t, o), depth[t][o], Leaves(t))
ThreadOK(t) == Distinct(locks[t]) /\ \A o \in Obj : ObjectOK(t, o)

\* Whoever is in a monitor is its owner, while nobody has been stopped.
OwnerOK ==
  stops = 0 => \A t \in Thread, o \in Obj :
    depth[t][o] > 0 /\ Held(t, o) > 0 /\ Phase(t, o) # "restored" => towner[o] = t

\* What the steps rely on: where a thread is, and what the handler finds.
ControlOK(t) ==
  /\ pc[t].at \in AtObject => pc[t].o \in Obj
  /\ pc[t].at = "unlink" => pc[t].place[2] \in Node
  /\ pc[t].at = "kill" => killedAt[t] # None /\ pc[t].place \in Thread
  /\ killedAt[t] # None => pc[t].at \in Stopping
SignalsOK ==
  \A t \in Thread : killedAt[t] # None \/ "kill" \in pending[t] => Gthread \in Thread /\ stops > 0

MonitorInv ==
  MonitorTypeOK /\ SignalsOK /\ OwnerOK /\ \A t \in Thread : ControlOK(t) /\ ThreadOK(t)

---------------------------------------------------------------------------
(* The lists of locks.                                                     *)
Entries == [obj : Obj, n : Int \ {0}]

(* A set of numbers has a least.                                           *)
LEMMA Least ==
  ASSUME NEW S \in SUBSET Nat, S # {}
  PROVE  Min(S) \in S /\ \A k \in S : Min(S) <= k
<1> DEFINE R == OpToRel(<, Nat)
<1>1. IsWellFoundedOn(R, Nat)  BY NatLessThanWellFounded
<1>2. PICK m \in S : \A k \in S : ~(<<k, m>> \in R)
  <2> HIDE DEF R
  <2> QED  BY <1>1, WFMin
<1>3. \A k \in S : ~(k < m)  BY <1>2 DEF OpToRel
<1>4. \A k \in S : m <= k  BY <1>3
<1> QED  BY <1>4 DEF Min

(* The search for an object finds a lock of it if there is one.            *)
LEMMA Finds ==
  ASSUME NEW s \in Seq(Entries), NEW o
  PROVE  \/ /\ Index(s, o) = 0 /\ Times(s, o) = 0
            /\ \A i \in 1 .. Len(s) : s[i].obj # o
         \/ /\ Index(s, o) \in 1 .. Len(s) /\ s[Index(s, o)].obj = o
            /\ Times(s, o) = s[Index(s, o)].n /\ Times(s, o) \in Int \ {0}
<1> DEFINE I == {i \in 1 .. Len(s) : s[i].obj = o}
<1>1. Index(s, o) = IF I # {} THEN Min(I) ELSE 0  BY DEF Index, SelectInSeq
<1>2. I \in SUBSET Nat  OBVIOUS
<1>3. CASE I = {}
  <2>1. Index(s, o) = 0  BY <1>1, <1>3
  <2>2. \A i \in 1 .. Len(s) : s[i].obj # o  BY <1>3
  <2> QED  BY <2>1, <2>2 DEF Times
<1>4. CASE I # {}
  <2>1. Index(s, o) \in I  BY <1>1, <1>2, <1>4, Least
  <2>2. Index(s, o) \in 1 .. Len(s) /\ s[Index(s, o)].obj = o  BY <2>1
  <2>3. s[Index(s, o)] \in Entries  BY <2>2, ElementOfSeq
  <2>4. Times(s, o) = s[Index(s, o)].n  BY <2>2 DEF Times
  <2> QED  BY <2>2, <2>3, <2>4 DEF Entries
<1> QED  BY <1>3, <1>4

(* In a list without repetitions every lock of an object is that lock.     *)
LEMMA TimesOf ==
  ASSUME NEW s \in Seq(Entries), Distinct(s), NEW i \in 1 .. Len(s)
  PROVE  Index(s, s[i].obj) = i /\ Times(s, s[i].obj) = s[i].n /\ s[i].obj \in Obj /\ s[i].n \in Int \ {0}
<1>1. s[i] \in Entries  BY ElementOfSeq
<1>2. DOMAIN s = 1 .. Len(s)  OBVIOUS
<1>3. Index(s, s[i].obj) \in 1 .. Len(s) /\ s[Index(s, s[i].obj)].obj = s[i].obj
      /\ Times(s, s[i].obj) = s[Index(s, s[i].obj)].n
  BY Finds
<1>4. Index(s, s[i].obj) = i  BY <1>2, <1>3 DEF Distinct
<1> QED  BY <1>1, <1>3, <1>4 DEF Entries

(* A list with one more lock at the end.                                   *)
LEMMA Appended ==
  ASSUME NEW s \in Seq(Entries), Distinct(s), NEW o \in Obj, Index(s, o) = 0, NEW n \in Int \ {0}
  PROVE  LET r == Append(s, Lock(o, n)) IN
         /\ r \in Seq(Entries) /\ Distinct(r)
         /\ \A p : Times(r, p) = IF p = o THEN n ELSE Times(s, p)
<1> DEFINE r == Append(s, Lock(o, n))
<1>1. Lock(o, n) \in Entries  BY DEF Lock, Entries
<1>2. /\ r \in Seq(Entries) /\ Len(r) = Len(s) + 1 /\ r[Len(s) + 1] = Lock(o, n)
      /\ \A i \in 1 .. Len(s) : r[i] = s[i]
  BY <1>1, AppendProperties
<1>3. \A i \in 1 .. Len(s) : s[i].obj # o  BY Finds
<1>4. DOMAIN s = 1 .. Len(s) /\ DOMAIN r = 1 .. Len(r) /\ Len(s) \in Nat  BY <1>2
<1>5. Lock(o, n).obj = o /\ Lock(o, n).n = n  BY DEF Lock
<1> HIDE DEF r
<1>6. Distinct(r)
  <2> SUFFICES ASSUME NEW i \in 1 .. Len(r), NEW j \in 1 .. Len(r), r[i].obj = r[j].obj
               PROVE  i = j
    BY <1>4 DEF Distinct
  <2>1. (i \in 1 .. Len(s) \/ i = Len(s) + 1) /\ (j \in 1 .. Len(s) \/ j = Len(s) + 1)  BY <1>2, <1>4
  <2>2. CASE i \in 1 .. Len(s) /\ j \in 1 .. Len(s)  BY <1>2, <1>4, <2>2 DEF Distinct
  <2>3. CASE i \in 1 .. Len(s) /\ j = Len(s) + 1  BY <1>2, <1>3, <1>5, <2>3
  <2>4. CASE i = Len(s) + 1 /\ j \in 1 .. Len(s)  BY <1>2, <1>3, <1>5, <2>4
  <2> QED  BY <2>1, <2>2, <2>3, <2>4
<1>7. ASSUME NEW p PROVE Times(r, p) = IF p = o THEN n ELSE Times(s, p)
  <2>1. CASE p = o
    <3>1. Len(s) + 1 \in 1 .. Len(r) /\ r[Len(s) + 1].obj = o /\ r[Len(s) + 1].n = n
      BY <1>2, <1>4, <1>5
    <3> QED  BY <1>2, <1>6, <2>1, <3>1, TimesOf
  <2>2. CASE p # o /\ \E i \in 1 .. Len(s) : s[i].obj = p
    <3>1. PICK i \in 1 .. Len(s) : s[i].obj = p  BY <2>2
    <3>2. i \in 1 .. Len(r) /\ r[i] = s[i]  BY <1>2, <1>4
    <3>3. Times(r, p) = r[i].n  BY <1>2, <1>6, <3>1, <3>2, TimesOf
    <3>4. Times(s, p) = s[i].n  BY <3>1, TimesOf
    <3> QED  BY <2>2, <3>2, <3>3, <3>4
  <2>3. CASE p # o /\ \A i \in 1 .. Len(s) : s[i].obj # p
    <3>1. \A i \in 1 .. Len(r) : r[i].obj # p
      <4> TAKE i \in 1 .. Len(r)
      <4>1. i \in 1 .. Len(s) \/ i = Len(s) + 1  BY <1>2, <1>4
      <4> QED  BY <1>2, <1>5, <2>3, <4>1
    <3>2. Times(r, p) = 0  BY <1>2, <3>1, Finds
    <3>3. Times(s, p) = 0  BY <2>3, Finds
    <3> QED  BY <2>3, <3>2, <3>3
  <2> QED  BY <2>1, <2>2, <2>3
<1> QED  BY <1>2, <1>6, <1>7 DEF r

(* A lock of the list with another number.                                 *)
LEMMA Changed ==
  ASSUME NEW s \in Seq(Entries), Distinct(s), NEW i \in 1 .. Len(s), NEW n \in Int \ {0},
         NEW r \in Seq(Entries), Len(r) = Len(s), r[i] = Lock(s[i].obj, n),
         \A j \in 1 .. Len(s) : j # i => r[j] = s[j]
  PROVE  Distinct(r) /\ \A p : Times(r, p) = IF p = s[i].obj THEN n ELSE Times(s, p)
<1>2. r[i].obj = s[i].obj /\ r[i].n = n  BY DEF Lock
<1>3. \A j \in 1 .. Len(s) : j = i \/ r[j] = s[j]  OBVIOUS
<1>4. DOMAIN s = 1 .. Len(s) /\ DOMAIN r = 1 .. Len(s)  OBVIOUS
<1>5. \A j \in 1 .. Len(s) : r[j].obj = s[j].obj  BY <1>2, <1>3
<1>6. Distinct(r)  BY <1>4, <1>5 DEF Distinct
<1>7. ASSUME NEW p PROVE Times(r, p) = IF p = s[i].obj THEN n ELSE Times(s, p)
  <2>1. CASE \E j \in 1 .. Len(s) : s[j].obj = p
    <3>1. PICK j \in 1 .. Len(s) : s[j].obj = p  BY <2>1
    <3>2. Times(s, p) = s[j].n  BY <3>1, TimesOf
    <3>3. Times(r, p) = r[j].n  BY <1>3, <1>5, <1>6, <3>1, TimesOf
    <3>4. j = i <=> p = s[i].obj  BY <1>4, <3>1 DEF Distinct
    <3> QED  BY <1>2, <1>3, <3>2, <3>3, <3>4
  <2>2. CASE \A j \in 1 .. Len(s) : s[j].obj # p
    <3>1. Times(s, p) = 0  BY <2>2, Finds
    <3>2. \A j \in 1 .. Len(r) : r[j].obj # p  BY <1>3, <1>5, <2>2
    <3>3. Times(r, p) = 0  BY <1>3, <3>2, Finds
    <3> QED  BY <2>2, <3>1, <3>3
  <2> QED  BY <2>1, <2>2
<1> QED  BY <1>6, <1>7

(* A list without one of its locks.                                        *)
LEMMA Removed ==
  ASSUME NEW s \in Seq(Entries), Distinct(s), NEW i \in 1 .. Len(s)
  PROVE  LET r == RemoveAt(s, i) IN
         /\ r \in Seq(Entries) /\ Distinct(r)
         /\ \A j \in 1 .. Len(r) : r[j] = IF j < i THEN s[j] ELSE s[j + 1]
         /\ \A p : Times(r, p) = IF p = s[i].obj THEN 0 ELSE Times(s, p)
<1> DEFINE a == SubSeq(s, 1, i - 1)  b == SubSeq(s, i + 1, Len(s))  r == a \o b
<1>1. Len(s) \in Nat /\ i \in Nat /\ i >= 1 /\ i <= Len(s) /\ DOMAIN s = 1 .. Len(s)  OBVIOUS
<1>2. /\ a \in Seq(Entries) /\ Len(a) = i - 1
      /\ \A j \in 1 .. i - 1 : a[j] = s[j]
  <2>1. \A j \in 1 .. i - 1 : s[j] \in Entries  BY <1>1, ElementOfSeq
  <2> QED  BY <1>1, <2>1, SubSeqProperties
<1>3. /\ b \in Seq(Entries) /\ Len(b) = Len(s) - i
      /\ \A j \in 1 .. Len(s) - i : b[j] = s[i + j]
  <2>1. \A j \in i + 1 .. Len(s) : s[j] \in Entries  BY <1>1, ElementOfSeq
  <2>2. b \in Seq(Entries) /\ Len(b) = IF i + 1 <= Len(s) THEN Len(s) - (i + 1) + 1 ELSE 0
    BY <1>1, <2>1, SubSeqProperties
  <2>4. \A j \in 1 .. Len(s) - i : b[j] = s[i + j]  BY <1>1
  <2> HIDE DEF a, b, r
  <2>3. Len(b) = Len(s) - i
    <3>1. CASE i + 1 <= Len(s)
      <4>1. Len(b) = Len(s) - (i + 1) + 1  BY <2>2, <3>1
      <4> QED  BY <1>1, <4>1
    <3>2. CASE ~(i + 1 <= Len(s))
      <4>1. Len(b) = 0  BY <2>2, <3>2
      <4>2. \A m, k \in Nat : k <= m /\ ~(k + 1 <= m) => m = k  OBVIOUS
      <4>3. Len(s) = i  BY <1>1, <3>2, <4>2
      <4> QED  BY <1>1, <4>1, <4>3
    <3> QED  BY <3>1, <3>2
  <2> QED  BY <2>2, <2>3, <2>4
<1> HIDE DEF a, b
<1>4. /\ r \in Seq(Entries) /\ Len(r) = Len(s) - 1
      /\ \A j \in 1 .. Len(s) - 1 : r[j] = IF j < i THEN s[j] ELSE s[j + 1]
  <2>1. /\ r \in Seq(Entries) /\ Len(r) = Len(a) + Len(b)
        /\ \A j \in 1 .. Len(a) + Len(b) : r[j] = IF j <= Len(a) THEN a[j] ELSE b[j - Len(a)]
    BY <1>2, <1>3, ConcatProperties
  <2> HIDE DEF r
  <2>0. Len(a) + Len(b) = Len(s) - 1  BY <1>1, <1>2, <1>3
  <2>2. ASSUME NEW j \in 1 .. Len(s) - 1 PROVE r[j] = IF j < i THEN s[j] ELSE s[j + 1]
    <3>0. j \in Nat /\ j >= 1 /\ j <= Len(s) - 1 /\ (j <= i - 1 <=> j < i)  BY <1>1
    <3>9. r[j] = IF j <= i - 1 THEN a[j] ELSE b[j - (i - 1)]  BY <1>2, <2>0, <2>1
    <3>1. CASE j < i
      <4>1. r[j] = a[j] /\ j \in 1 .. i - 1  BY <1>1, <3>0, <3>1, <3>9
      <4> QED  BY <1>2, <3>1, <4>1
    <3>2. CASE ~(j < i)
      <4>1. r[j] = b[j - (i - 1)] /\ j - (i - 1) \in 1 .. Len(s) - i /\ i + (j - (i - 1)) = j + 1
        BY <1>1, <3>0, <3>2, <3>9
      <4> QED  BY <1>3, <3>2, <4>1
    <3> QED  BY <3>1, <3>2
  <2> QED  BY <2>0, <2>1, <2>2
<1> HIDE DEF r
<1>5. DOMAIN r = 1 .. Len(s) - 1  BY <1>4
<1>6. Distinct(r)
  <2> SUFFICES ASSUME NEW j \in 1 .. Len(s) - 1, NEW k \in 1 .. Len(s) - 1, r[j].obj = r[k].obj
               PROVE  j = k
    BY <1>5 DEF Distinct
  <2> DEFINE jj == IF j < i THEN j ELSE j + 1
             kk == IF k < i THEN k ELSE k + 1
  <2>1. jj \in 1 .. Len(s) /\ kk \in 1 .. Len(s) /\ (jj = kk => j = k)  BY <1>1
  <2>2. r[j] = s[jj] /\ r[k] = s[kk]  BY <1>4
  <2> HIDE DEF jj, kk
  <2>3. jj = kk  BY <1>1, <2>1, <2>2 DEF Distinct
  <2> QED  BY <2>1, <2>3
<1>7. \A j \in 1 .. Len(s) - 1 : r[j].obj # s[i].obj
  <2> TAKE j \in 1 .. Len(s) - 1
  <2> DEFINE jj == IF j < i THEN j ELSE j + 1
  <2>1. jj \in 1 .. Len(s) /\ jj # i  BY <1>1
  <2>2. r[j] = s[jj]  BY <1>4
  <2> HIDE DEF jj
  <2> QED  BY <1>1, <2>1, <2>2 DEF Distinct
<1>8. ASSUME NEW p PROVE Times(r, p) = IF p = s[i].obj THEN 0 ELSE Times(s, p)
  <2>1. CASE p = s[i].obj
    <3>1. Times(r, p) = 0  BY <1>4, <1>7, <2>1, Finds
    <3> QED  BY <2>1, <3>1
  <2>2. CASE p # s[i].obj /\ \E j \in 1 .. Len(s) : s[j].obj = p
    <3>1. PICK j \in 1 .. Len(s) : s[j].obj = p  BY <2>2
    <3> DEFINE jj == IF j < i THEN j ELSE j - 1
    <3>2. j # i  BY <2>2, <3>1
    <3>3. jj \in 1 .. Len(s) - 1 /\ (jj < i => jj = j) /\ (~(jj < i) => jj + 1 = j)  BY <1>1, <3>2
    <3> HIDE DEF jj
    <3>4. r[jj] = s[j]  BY <1>4, <3>3
    <3>5. Times(s, p) = s[j].n  BY <3>1, TimesOf
    <3>6. Times(r, p) = r[jj].n  BY <1>4, <1>6, <3>1, <3>3, <3>4, TimesOf
    <3> QED  BY <2>2, <3>4, <3>5, <3>6
  <2>3. CASE p # s[i].obj /\ \A j \in 1 .. Len(s) : s[j].obj # p
    <3>1. Times(s, p) = 0  BY <2>3, Finds
    <3>2. \A j \in 1 .. Len(r) : r[j].obj # p
      <4> TAKE j \in 1 .. Len(r)
      <4>1. j \in 1 .. Len(s) - 1 /\ (r[j] = s[j] \/ r[j] = s[j + 1]) /\ j \in 1 .. Len(s) /\ j + 1 \in 1 .. Len(s)
        BY <1>1, <1>4
      <4> QED  BY <2>3, <4>1
    <3>3. Times(r, p) = 0  BY <1>4, <3>2, Finds
    <3> QED  BY <2>3, <3>1, <3>3
  <2> QED  BY <2>1, <2>2, <2>3
<1>9. r = RemoveAt(s, i)  BY DEF r, a, b, RemoveAt
<1>10. Len(r) = Len(s) - 1  BY <1>4
<1> QED  BY <1>4, <1>6, <1>8, <1>9, <1>10

(* Without its first lock.                                                 *)
LEMMA FirstRemoved ==
  ASSUME NEW s \in Seq(Entries), Distinct(s), s # << >>
  PROVE  /\ s[1] \in Entries /\ 1 \in 1 .. Len(s)
         /\ Tail(s) \in Seq(Entries) /\ Distinct(Tail(s))
         /\ \A j \in 1 .. Len(Tail(s)) : Tail(s)[j] = s[j + 1] /\ j + 1 \in 1 .. Len(s)
         /\ \A p : Times(Tail(s), p) = IF p = s[1].obj THEN 0 ELSE Times(s, p)
<1>1. 1 \in 1 .. Len(s)  BY EmptySeq
<1>2. s[1] \in Entries  BY <1>1, ElementOfSeq
<1>3. SubSeq(s, 1, 1 - 1) = << >>  BY SubSeqEmpty
<1>4. SubSeq(s, 1 + 1, Len(s)) = Tail(s) /\ Tail(s) \in Seq(Entries) /\ Len(Tail(s)) = Len(s) - 1
  BY TailIsSubSeq, HeadTailProperties
<1>5. RemoveAt(s, 1) = Tail(s)  BY <1>3, <1>4, ConcatEmptySeq DEF RemoveAt
<1> DEFINE r == RemoveAt(s, 1)
<1>6. /\ Distinct(r)
      /\ \A j \in 1 .. Len(r) : r[j] = IF j < 1 THEN s[j] ELSE s[j + 1]
      /\ \A p : Times(r, p) = IF p = s[1].obj THEN 0 ELSE Times(s, p)
  BY <1>1, Removed
<1>7. r = Tail(s)  BY <1>5
<1> HIDE DEF r
<1>8. \A j \in 1 .. Len(r) : r[j] = s[j + 1]  BY <1>6
<1>9. \A j \in 1 .. Len(Tail(s)) : j + 1 \in 1 .. Len(s)  BY <1>4
<1> QED  BY <1>1, <1>2, <1>4, <1>6, <1>7, <1>8, <1>9

---------------------------------------------------------------------------
(* Steps.                                                                  *)

\* What the steps of a thread leave alone of the others.
OthersKeep(t) ==
  \A u \in Thread \ {t} :
    /\ pc'[u] = pc[u] /\ locks'[u] = locks[u] /\ depth'[u] = depth[u] /\ killedAt'[u] = killedAt[u]
    /\ \A o \in Obj : Held(u, o)' = Held(u, o)
\* A stopped thread stays one, and names the same thread.
StoppedKeep == \A u \in Thread : killedAt[u] # None => killedAt'[u] # None /\ pc'[u].place = pc[u].place
PcShape ==
  /\ pc = [t \in Thread |-> Pc(pc[t].at, pc[t].o, pc[t].place)]
  /\ \A t \in Thread : pc[t].at \in Doing /\ pc[t].o \in Obj \cup {None}
Mutexes ==
  /\ owner \in [Obj -> Thread \cup {None}] /\ count \in [Obj -> Nat]
  /\ \A o \in Obj : count[o] = 0 <=> owner[o] = None

(* A thread that goes somewhere else, at any object or at the same.        *)
LEMMA Arrives ==
  ASSUME PcShape, NEW t \in Thread, NEW x, x.at \in Doing, x.o \in Obj \cup {None}, x = Pc(x.at, x.o, x.place),
         pc' = [pc EXCEPT ![t] = x]
  PROVE  PcShape' /\ pc'[t] = x /\ \A u \in Thread \ {t} : pc'[u] = pc[u]
<1>1. \A u \in Thread : pc'[u] = IF u = t THEN x ELSE pc[u]  BY DEF PcShape
<1>2. pc' = [u \in Thread |-> IF u = t THEN x ELSE pc[u]]  BY DEF PcShape
<1>3. \A u \in Thread : pc'[u] = Pc(pc'[u].at, pc'[u].o, pc'[u].place)
  <2> TAKE u \in Thread
  <2>1. CASE u = t  BY <1>1, <2>1
  <2>2. CASE u # t
    <3>1. pc'[u] = pc[u]  BY <1>1, <2>2
    <3>2. pc[u] = Pc(pc[u].at, pc[u].o, pc[u].place)  BY DEF PcShape
    <3> QED  BY <3>1, <3>2
  <2> QED  BY <2>1, <2>2
<1>4. pc' = [u \in Thread |-> Pc(pc'[u].at, pc'[u].o, pc'[u].place)]  BY <1>2, <1>3
<1>5. \A u \in Thread : pc'[u].at \in Doing /\ pc'[u].o \in Obj \cup {None}  BY <1>1 DEF PcShape
<1> QED  BY <1>1, <1>4, <1>5 DEF PcShape

(* A thread that goes somewhere else: the same, by its parts.              *)
LEMMA Moves ==
  ASSUME PcShape, NEW t \in Thread, NEW at \in Doing, NEW o \in Obj \cup {None}, NEW place,
         pc' = [pc EXCEPT ![t] = Pc(at, o, place)]
  PROVE  /\ PcShape'
         /\ pc'[t].at = at /\ pc'[t].o = o /\ pc'[t].place = place
         /\ \A u \in Thread \ {t} : pc'[u] = pc[u]
<1> DEFINE x == Pc(at, o, place)
<1>1. x.at = at /\ x.o = o /\ x.place = place  BY DEF Pc
<1>2. x = Pc(x.at, x.o, x.place)  BY <1>1
<1> HIDE DEF x
<1>3. PcShape' /\ pc'[t] = x /\ \A u \in Thread \ {t} : pc'[u] = pc[u]
  BY <1>1, <1>2, Arrives DEF x
<1> QED  BY <1>1, <1>3

(* A thread that goes on at the same object.                               *)
LEMMA MovesAt ==
  ASSUME PcShape, NEW t \in Thread, NEW at \in Doing, NEW place,
         pc' = [pc EXCEPT ![t] = Pc(at, pc[t].o, place)]
  PROVE  /\ PcShape'
         /\ pc'[t].at = at /\ pc'[t].o = pc[t].o /\ pc'[t].place = place
         /\ \A u \in Thread \ {t} : pc'[u] = pc[u]
<1>1. PICK x : x = Pc(at, pc[t].o, place)  OBVIOUS
<1>2. x.at = at /\ x.o = pc[t].o /\ x.place = place  BY <1>1 DEF Pc
<1>3. x = Pc(x.at, x.o, x.place) /\ x.o \in Obj \cup {None}  BY <1>1, <1>2 DEF PcShape
<1>4. pc' = [pc EXCEPT ![t] = x]  BY <1>1
<1>5. PcShape' /\ pc'[t] = x /\ \A u \in Thread \ {t} : pc'[u] = pc[u]
  BY <1>2, <1>3, <1>4, Arrives
<1> QED  BY <1>2, <1>5

(* A thread that goes on at the same object and place.                     *)
LEMMA Goes ==
  ASSUME PcShape, NEW t \in Thread, NEW at \in Doing, Goto(t, at)
  PROVE  /\ PcShape'
         /\ pc'[t].at = at /\ pc'[t].o = pc[t].o /\ pc'[t].place = pc[t].place
         /\ \A u \in Thread \ {t} : pc'[u] = pc[u]
<1>1. pc' = [pc EXCEPT ![t] = Pc(at, pc[t].o, pc[t].place)]  BY DEF Goto
<1> DEFINE place == pc[t].place
<1>2. pc' = [pc EXCEPT ![t] = Pc(at, pc[t].o, place)] /\ place = pc[t].place  BY <1>1
<1> HIDE DEF place
<1> QED  BY <1>2, MovesAt

(* pthread_mutex_lock: so many times more, and nothing of another's.       *)
LEMMA Locks ==
  ASSUME MonitorAssumption, Mutexes, NEW t \in Thread, NEW o \in Obj, NEW n \in Nat \ {0}, Acquire(t, o, n)
  PROVE  /\ Mutexes'
         /\ \A u \in Thread \ {t}, p \in Obj : Held(u, p)' = Held(u, p)
         /\ \A p \in Obj : Held(t, p)' = IF p = o THEN Held(t, o) + n ELSE Held(t, p)
<1>1. None \notin Thread  BY DEF MonitorAssumption
<1>2. /\ owner[o] \in {None, t}
      /\ \A p \in Obj : owner'[p] = IF p = o THEN t ELSE owner[p]
      /\ \A p \in Obj : count'[p] = IF p = o THEN count[o] + n ELSE count[p]
      /\ owner' \in [Obj -> Thread \cup {None}] /\ count' \in [Obj -> Nat]
  BY DEF Acquire, MutexFree, Mutexes
<1>3. Mutexes'
  <2>1. ASSUME NEW p \in Obj PROVE count'[p] = 0 <=> owner'[p] = None
    <3>1. CASE p = o  BY <1>1, <1>2, <3>1 DEF Mutexes
    <3>2. CASE p # o  BY <1>2, <3>2 DEF Mutexes
    <3> QED  BY <3>1, <3>2
  <2> QED  BY <1>2, <2>1 DEF Mutexes
<1>4. ASSUME NEW u \in Thread \ {t}, NEW p \in Obj PROVE Held(u, p)' = Held(u, p)
  BY <1>1, <1>2 DEF Held
<1>5. ASSUME NEW p \in Obj PROVE Held(t, p)' = IF p = o THEN Held(t, o) + n ELSE Held(t, p)
  BY <1>1, <1>2 DEF Held, Mutexes
<1> QED  BY <1>3, <1>4, <1>5

(* pthread_mutex_unlock: so many times less, and nothing of another's.     *)
LEMMA Unlocks ==
  ASSUME MonitorAssumption, Mutexes, NEW t \in Thread, NEW o \in Obj, NEW n \in Nat, Unlock(t, o, n)
  PROVE  /\ Mutexes'
         /\ \A u \in Thread \ {t}, p \in Obj : Held(u, p)' = Held(u, p)
         /\ \A p \in Obj : Held(t, p)' =
              IF p # o THEN Held(t, p) ELSE IF n < Held(t, o) THEN Held(t, o) - n ELSE 0
<1>1. None \notin Thread  BY DEF MonitorAssumption
<1>2. CASE owner[o] # t
  <2>1. owner' = owner /\ count' = count  BY <1>2 DEF Unlock
  <2>2. \A u \in Thread, p \in Obj : Held(u, p)' = Held(u, p)  BY <2>1 DEF Held
  <2>3. Held(t, o) = 0  BY <1>2 DEF Held
  <2>4. ~(n < 0)  OBVIOUS
  <2> QED  BY <2>1, <2>2, <2>3, <2>4 DEF Mutexes
<1>3. CASE owner[o] = t
  <2> DEFINE left == IF n < count[o] THEN count[o] - n ELSE 0
  <2>1. count[o] \in Nat /\ left \in Nat  BY DEF Mutexes
  <2>2. /\ \A p \in Obj : owner'[p] = IF p = o THEN (IF left = 0 THEN None ELSE t) ELSE owner[p]
        /\ \A p \in Obj : count'[p] = IF p = o THEN left ELSE count[p]
        /\ owner' \in [Obj -> Thread \cup {None}] /\ count' \in [Obj -> Nat]
    BY <1>3, <2>1 DEF Unlock, Mutexes
  <2>3. Held(t, o) = count[o]  BY <1>3 DEF Held
  <2>4. left = IF n < Held(t, o) THEN Held(t, o) - n ELSE 0  BY <2>3
  <2> HIDE DEF left
  <2>5. ASSUME NEW p \in Obj PROVE count'[p] = 0 <=> owner'[p] = None
    BY <1>1, <2>2 DEF Mutexes
  <2>6. ASSUME NEW u \in Thread \ {t}, NEW p \in Obj PROVE Held(u, p)' = Held(u, p)
    BY <1>1, <1>3, <2>2 DEF Held
  <2>7. ASSUME NEW p \in Obj PROVE Held(t, p)' = IF p = o THEN left ELSE Held(t, p)
    BY <1>1, <2>2 DEF Held
  <2> QED  BY <2>2, <2>4, <2>5, <2>6, <2>7 DEF Mutexes
<1> QED  BY <1>2, <1>3

(* No two threads hold a mutex.                                            *)
LEMMA HeldOnce ==
  ASSUME Mutexes, MonitorAssumption
  PROVE  /\ \A t \in Thread, o \in Obj : Held(t, o) \in Nat
         /\ \A t, u \in Thread, o \in Obj : Held(t, o) > 0 /\ Held(u, o) > 0 => t = u
  BY DEF Mutexes, Held, MonitorAssumption

\* The rest of the types.
ListTypes == locks \in [Thread -> Seq(Entries)] /\ depth \in [Thread -> [Obj -> Nat]]
OwnerTypes == towner \in [Obj -> Thread \cup {None}]
KillTypes == killedAt \in [Thread -> Doing \cup {None}]
OtherTypes ==
  /\ next \in [Obj \cup Node -> Node \cup {None}] /\ free \subseteq Node
  /\ pending \in [Thread -> SUBSET {"stop", "cont", "kill"}] /\ stopped \subseteq Thread
  /\ Gthread \in Thread \cup {None} /\ stops \in 0 .. MaxStops
(* The parts of the type invariant.                                        *)
LEMMA Types ==
  /\ MonitorTypeOK <=> PcShape /\ ListTypes /\ Mutexes /\ OwnerTypes /\ KillTypes /\ OtherTypes
  /\ MonitorTypeOK' <=> (PcShape /\ ListTypes /\ Mutexes /\ OwnerTypes /\ KillTypes /\ OtherTypes)'
  BY Zenon DEF MonitorTypeOK, PcShape, ListTypes, Mutexes, OwnerTypes, KillTypes, OtherTypes, Entries

(* The numbers that a thread has of an object.                             *)
LEMMA Numbers ==
  ASSUME MonitorAssumption, MonitorTypeOK, NEW t \in Thread, NEW o \in Obj
  PROVE  Times(locks[t], o) \in Int /\ Held(t, o) \in Nat /\ depth[t][o] \in Nat
<1>1. locks[t] \in Seq(Entries) /\ depth[t] \in [Obj -> Nat]  BY Types DEF ListTypes
<1>2. Times(locks[t], o) \in Int  BY <1>1, Finds
<1> QED  BY <1>1, <1>2, Types, HeldOnce

(* What is said of a thread stays true while others take steps; who is     *)
(* robbed stays robbed.                                                    *)
LEMMA OthersStay ==
  ASSUME StoppedKeep
  PROVE  /\ \A u \in Thread : Robbed(u) => Robbed(u)'
         /\ \A t \in Thread : OthersKeep(t) => \A u \in Thread \ {t} : ThreadOK(u) => ThreadOK(u)'
<1>1. \A u \in Thread : Robbed(u) => Robbed(u)'  BY DEF Robbed, StoppedKeep
<1>2. ASSUME NEW t \in Thread, OthersKeep(t), NEW u \in Thread \ {t}, ThreadOK(u) PROVE ThreadOK(u)'
  <2>1. /\ pc'[u] = pc[u] /\ locks'[u] = locks[u] /\ depth'[u] = depth[u] /\ killedAt'[u] = killedAt[u]
        /\ \A o \in Obj : Held(u, o)' = Held(u, o)
    BY <1>2 DEF OthersKeep
  <2>2. Distinct(locks[u])'  BY <1>2, <2>1 DEF ThreadOK
  <2>3. ASSUME NEW o \in Obj PROVE ObjectOK(u, o)'
    <3>1. ObjectOK(u, o)  BY <1>2 DEF ThreadOK
    <3>2. Phase(u, o)' = Phase(u, o)  BY <2>1 DEF Phase
    <3>3. Leaves(u)' = Leaves(u)  BY <2>1 DEF Leaves, Misled
    <3>4. Times(locks[u], o)' = Times(locks[u], o) /\ First(locks[u], o)' = First(locks[u], o)  BY <2>1
    <3> QED  BY <1>1, <2>1, <3>1, <3>2, <3>3, <3>4 DEF ObjectOK
  <2> QED  BY <2>2, <2>3 DEF ThreadOK
<1> QED  BY <1>1, <1>2

(* A step of a thread keeps the invariant if it keeps what is said of that *)
(* thread, and leaves the others alone.                                    *)
LEMMA Step ==
  ASSUME MonitorInv, NEW t \in Thread, OthersKeep(t), StoppedKeep, PcShape',
         ListTypes', Mutexes', OwnerTypes', KillTypes', OtherTypes',
         SignalsOK', OwnerOK', ControlOK(t)', ThreadOK(t)'
  PROVE  MonitorInv'
<1>1. MonitorTypeOK'  BY Types
<1>2. ASSUME NEW u \in Thread PROVE ControlOK(u)' /\ ThreadOK(u)'
  <2>1. CASE u = t  BY <2>1
  <2>2. CASE u # t
    <3>1. pc'[u] = pc[u] /\ killedAt'[u] = killedAt[u]  BY <2>2 DEF OthersKeep
    <3>2. ControlOK(u) /\ ThreadOK(u)  BY DEF MonitorInv
    <3>3. ControlOK(u)'  BY <3>1, <3>2 DEF ControlOK
    <3> QED  BY <2>2, <3>2, <3>3, OthersStay
  <2> QED  BY <2>1, <2>2
<1> QED  BY <1>1, <1>2 DEF MonitorInv

(* Who is said to be the owner, when that does not change.                 *)
LEMMA OwnerKeeps ==
  ASSUME OwnerOK, NEW t \in Thread, OthersKeep(t), stops' = 0 => stops = 0, UNCHANGED towner,
         \A o \in Obj : depth'[t][o] > 0 /\ Held(t, o)' > 0 /\ Phase(t, o)' # "restored" =>
           depth[t][o] > 0 /\ Held(t, o) > 0 /\ Phase(t, o) # "restored"
  PROVE  OwnerOK'
<1> SUFFICES ASSUME stops' = 0, NEW u \in Thread, NEW o \in Obj,
                    depth'[u][o] > 0, Held(u, o)' > 0, Phase(u, o)' # "restored"
             PROVE  towner'[o] = u
  BY DEF OwnerOK
<1>1. CASE u = t  BY <1>1 DEF OwnerOK
<1>2. CASE u # t
  <2>1. pc'[u] = pc[u] /\ depth'[u] = depth[u] /\ Held(u, o)' = Held(u, o)  BY <1>2 DEF OthersKeep
  <2>2. Phase(u, o)' = Phase(u, o)  BY <2>1 DEF Phase
  <2> QED  BY <2>1, <2>2 DEF OwnerOK
<1> QED  BY <1>1, <1>2

(* A thread that goes on without a change of what it holds.                *)
LEMMA GoesOn ==
  ASSUME MonitorAssumption, MonitorInv, NEW t \in Thread, StoppedKeep, UNCHANGED lockVars,
         pc'[t].at \notin Stopping,
         \A o \in Obj :
           \/ Phase(t, o)' = Phase(t, o)
           \/ Phase(t, o) = "run" /\ Phase(t, o)' = "append" /\ depth[t][o] > 0
           \/ Phase(t, o) = "append" /\ Phase(t, o)' \in {"run", "release"}
           \/ Phase(t, o) \in {"pause", "find", "unlink"} /\ Phase(t, o)' \in {"find", "unlink", "restore"}
           \/ Phase(t, o) \in {"release", "restore"} /\ Phase(t, o)' = "run" /\ Times(locks[t], o) = 0
  PROVE  ThreadOK(t)'
<1>1. ThreadOK(t) /\ MonitorTypeOK  BY DEF MonitorInv
<1>2. Distinct(locks[t])'  BY <1>1 DEF ThreadOK, lockVars
<1>3. ASSUME NEW o \in Obj PROVE ObjectOK(t, o)'
  <2> DEFINE n == Times(locks[t], o)  held == Held(t, o)  in == depth[t][o]  first == First(locks[t], o)
  <2>1. ObjectOK(t, o)  BY <1>1 DEF ThreadOK
  <2>2. n \in Int /\ held \in Nat /\ in \in Nat  BY <1>1, Numbers
  <2>3. n' = n /\ held' = held /\ in' = in /\ first' = first  BY DEF lockVars, Held
  <2>4. Robbed(t) => Robbed(t)'  BY OthersStay
  <2>5. Phase(t, o)' \notin Stopping  BY DEF Phase, Stopping, AtObject
  <2>6. Phase(t, o) \notin Stopping
    <3>1. CASE Phase(t, o)' = Phase(t, o)  BY <2>5, <3>1
    <3>2. CASE Phase(t, o)' # Phase(t, o)  BY <3>2 DEF Stopping
    <3> QED  BY <3>1, <3>2
  <2>11. \/ Phase(t, o)' = Phase(t, o)
         \/ Phase(t, o) = "run" /\ Phase(t, o)' = "append"
         \/ Phase(t, o) = "append" /\ Phase(t, o)' \in {"run", "release"}
         \/ Phase(t, o) \in {"pause", "find", "unlink"} /\ Phase(t, o)' \in {"find", "unlink", "restore"}
         \/ n = 0
    OBVIOUS
  <2> HIDE DEF n, held, in, first
  <2>7. n # 0 => Listed(Phase(t, o), n, in, first)  BY <2>1, <2>6 DEF ObjectOK, n, in, first
  <2>8. ~Robbed(t) => Agrees(Phase(t, o), n, held, in, Leaves(t))  BY <2>1 DEF ObjectOK, n, held, in
  <2>9. n # 0 => Listed(Phase(t, o)', n, in, first)  BY <2>2, <2>7, <2>11 DEF Listed
  <2>10. ~Robbed(t) => Agrees(Phase(t, o)', n, held, in, Leaves(t)')
    BY <2>2, <2>5, <2>8 DEF Agrees, Stopping, n, in
  <2> QED  BY <2>3, <2>4, <2>9, <2>10 DEF ObjectOK, n, held, in, first
<1> QED  BY <1>2, <1>3 DEF ThreadOK

(* A thread that goes on to the next phase with what it holds.             *)
LEMMA Moved ==
  ASSUME MonitorAssumption, MonitorInv, NEW t \in Thread, PcShape', \A u \in Thread \ {t} : pc'[u] = pc[u],
         UNCHANGED <<lockVars, killedAt>>, OtherTypes', SignalsOK', stops' = 0 => stops = 0,
         pc[t].at \notin Stopping, pc'[t].at \notin Stopping,
         pc'[t].at \in AtObject => pc'[t].o \in Obj,
         pc'[t].at = "unlink" => pc'[t].place[2] \in Node,
         \A o \in Obj :
           \/ Phase(t, o)' = Phase(t, o)
           \/ Phase(t, o) = "run" /\ Phase(t, o)' = "append" /\ depth[t][o] > 0
           \/ Phase(t, o) = "append" /\ Phase(t, o)' \in {"run", "release"}
           \/ Phase(t, o) \in {"pause", "find", "unlink"} /\ Phase(t, o)' \in {"find", "unlink", "restore"}
           \/ Phase(t, o) \in {"release", "restore"} /\ Phase(t, o)' = "run" /\ Times(locks[t], o) = 0
  PROVE  MonitorInv'
<1>1. MonitorTypeOK /\ SignalsOK /\ OwnerOK /\ ControlOK(t) /\ ThreadOK(t)  BY DEF MonitorInv
<1>2. killedAt' = killedAt /\ locks' = locks /\ depth' = depth /\ owner' = owner /\ count' = count /\ towner' = towner
  BY DEF lockVars
<1>3. killedAt[t] = None  BY <1>1 DEF ControlOK
<1>4. StoppedKeep
  <2> SUFFICES ASSUME NEW u \in Thread, killedAt[u] # None PROVE killedAt'[u] # None /\ pc'[u].place = pc[u].place
    BY DEF StoppedKeep
  <2>1. u # t  BY <1>3
  <2> QED  BY <1>2, <2>1
<1>5. \A u \in Thread, o \in Obj : Held(u, o)' = Held(u, o)  BY <1>2 DEF Held
<1>6. OthersKeep(t)  BY <1>2, <1>5 DEF OthersKeep
<1>7. ListTypes' /\ Mutexes' /\ OwnerTypes' /\ KillTypes'
  BY <1>1, <1>2, Types DEF ListTypes, Mutexes, OwnerTypes, KillTypes
<1>8. ControlOK(t)'  BY <1>2, <1>3 DEF ControlOK, Stopping
<1>9. OwnerOK'
  <2>1. ASSUME NEW o \in Obj, Phase(t, o)' # "restored" PROVE Phase(t, o) # "restored"
    BY <2>1
  <2> QED  BY <1>1, <1>2, <1>5, <1>6, <2>1, OwnerKeeps
<1>10. ThreadOK(t)'  BY <1>4, GoesOn
<1> QED  BY <1>4, <1>6, <1>7, <1>8, <1>9, <1>10, Step

(* Steps of a thread that is at no object before or after.                 *)
LEMMA Quiet ==
  ASSUME MonitorAssumption, MonitorInv, NEW t \in Thread, PcShape', \A u \in Thread \ {t} : pc'[u] = pc[u],
         UNCHANGED <<lockVars, killedAt>>, OtherTypes', SignalsOK', stops' = 0 => stops = 0,
         \/ pc' = pc
         \/ pc[t].at \notin AtObject \cup Stopping /\ pc'[t].at \notin AtObject \cup Stopping
  PROVE  MonitorInv'
<1>1. CASE pc' = pc
  <2>1. \A u \in Thread, o \in Obj : Phase(u, o)' = Phase(u, o)  BY <1>1 DEF Phase
  <2>2. MonitorTypeOK /\ OwnerOK /\ \A u \in Thread : ControlOK(u) /\ ThreadOK(u)  BY DEF MonitorInv
  <2>3. killedAt' = killedAt /\ locks' = locks /\ depth' = depth /\ owner' = owner /\ count' = count /\ towner' = towner
    BY DEF lockVars
  <2>4. \A u \in Thread, o \in Obj : Held(u, o)' = Held(u, o)  BY <2>3 DEF Held
  <2>5. MonitorTypeOK'  BY <2>2, <2>3, Types DEF ListTypes, Mutexes, OwnerTypes, KillTypes
  <2>6. StoppedKeep  BY <1>1, <2>3 DEF StoppedKeep
  <2>7. OthersKeep(t)  BY <1>1, <2>3, <2>4 DEF OthersKeep
  <2>8. OwnerOK'  BY <2>1, <2>2, <2>3, <2>4 DEF OwnerOK
  <2>9. ASSUME NEW u \in Thread PROVE ControlOK(u)'  BY <1>1, <2>2, <2>3 DEF ControlOK
  <2>10. ASSUME NEW u \in Thread PROVE ThreadOK(u)'
    <3>1. OthersKeep(u)  BY <1>1, <2>3, <2>4 DEF OthersKeep
    <3>2. Robbed(u) => Robbed(u)'  BY <2>6, OthersStay
    <3>3. Leaves(u)' = Leaves(u)  BY <1>1, <2>3 DEF Leaves, Misled
    <3>4. ThreadOK(u)  BY <2>2
    <3>5. ASSUME NEW o \in Obj PROVE ObjectOK(u, o)'
      <4>1. ObjectOK(u, o)  BY <3>4 DEF ThreadOK
      <4> QED  BY <2>1, <2>3, <2>4, <3>2, <3>3, <4>1 DEF ObjectOK
    <3> QED  BY <2>3, <3>4, <3>5 DEF ThreadOK
  <2> QED  BY <2>5, <2>8, <2>9, <2>10 DEF MonitorInv
<1>2. CASE pc[t].at \notin AtObject \cup Stopping /\ pc'[t].at \notin AtObject \cup Stopping
  <2>1. \A o \in Obj : Phase(t, o)' = "run" /\ Phase(t, o) = "run"  BY <1>2 DEF Phase
  <2> QED  BY <1>2, <2>1, Moved DEF AtObject
<1> QED  BY <1>1, <1>2

(* A signal is on its way to one thread more.                              *)
LEMMA Sends ==
  ASSUME OtherTypes, NEW u, NEW sig \in {"stop", "cont", "kill"}, Send(u, sig)
  PROVE  /\ pending' \in [Thread -> SUBSET {"stop", "cont", "kill"}]
         /\ \A v \in Thread : pending'[v] \subseteq pending[v] \cup {sig}
  BY DEF Send, OtherTypes

(* No new stop.                                                            *)
LEMMA SignalsKeep ==
  ASSUME SignalsOK, UNCHANGED <<killedAt, Gthread, stops>>,
         \A u \in Thread : "kill" \in pending'[u] => "kill" \in pending[u]
  PROVE  SignalsOK'
  BY DEF SignalsOK

(* Signals, notify, and threads that start.                                *)
LEMMA QuietSteps ==
  ASSUME MonitorAssumption, MonitorInv, NEW t \in Thread,
         \/ \E o \in Obj : Notify(t, o)
         \/ NotifyNode(t) \/ Advance(t) \/ Exec(t) \/ FreeThread(t) \/ UseFreed(t)
         \/ \E u \in Thread : Suspend(t, u) \/ Resume(t, u) \/ Stop(t, u)
  PROVE  MonitorInv'
<1>1. PcShape /\ OtherTypes /\ SignalsOK  BY Types DEF MonitorInv
<1>2. MaxStops \in Nat  BY DEF MonitorAssumption
<1> USE DEF At, Does, queueVars, signalVars, stopVars
<1>3. ASSUME NEW o \in Obj, Notify(t, o) PROVE MonitorInv'
  <2>1. /\ pc[t].at = "run" /\ pc' = [pc EXCEPT ![t] = Pc("notify", o, next[o])]
        /\ UNCHANGED <<lockVars, killedAt, next, free, pending, stopped, Gthread, stops>>
    BY <1>3 DEF Notify
  <2>2. PcShape' /\ pc'[t].at = "notify" /\ \A u \in Thread \ {t} : pc'[u] = pc[u]
    BY <1>1, <2>1, Moves DEF Doing
  <2>3. OtherTypes' /\ SignalsOK'  BY <1>1, <2>1, SignalsKeep DEF OtherTypes
  <2> QED  BY <2>1, <2>2, <2>3, Quiet DEF AtObject, Stopping
<1>4. CASE NotifyNode(t)
  <2>1. UNCHANGED <<lockVars, killedAt, next, free, stopped, Gthread, stops>> /\ pc[t].at = "notify"
    BY <1>4 DEF NotifyNode
  <2>2. OtherTypes' /\ SignalsOK'
    <3>1. CASE UNCHANGED pending  BY <1>1, <2>1, <3>1, SignalsKeep DEF OtherTypes
    <3>2. CASE Send(th[pc[t].place], "cont")
      <4>1. /\ pending' \in [Thread -> SUBSET {"stop", "cont", "kill"}]
            /\ \A v \in Thread : pending'[v] \subseteq pending[v] \cup {"cont"}
        BY <1>1, <3>2, Sends
      <4> QED  BY <1>1, <2>1, <4>1, SignalsKeep DEF OtherTypes
    <3> QED  BY <1>4, <3>1, <3>2 DEF NotifyNode
  <2>3. Goto(t, "run") \/ Goto(t, "advance")  BY <1>4 DEF NotifyNode
  <2>4. PcShape' /\ pc'[t].at \in {"run", "advance"} /\ \A u \in Thread \ {t} : pc'[u] = pc[u]
    <3>1. CASE Goto(t, "run")  BY <1>1, <3>1, Goes DEF Doing
    <3>2. CASE Goto(t, "advance")  BY <1>1, <3>2, Goes DEF Doing
    <3> QED  BY <2>3, <3>1, <3>2
  <2> QED  BY <2>1, <2>2, <2>4, Quiet DEF AtObject, Stopping
<1>5. CASE Advance(t)
  <2>1. /\ pc[t].at = "advance" /\ pc' = [pc EXCEPT ![t] = Pc("notify", pc[t].o, next[pc[t].place])]
        /\ UNCHANGED <<lockVars, killedAt, next, free, pending, stopped, Gthread, stops>>
    BY <1>5 DEF Advance
  <2> DEFINE place == next[pc[t].place]
  <2>2. pc' = [pc EXCEPT ![t] = Pc("notify", pc[t].o, place)]  BY <2>1
  <2> HIDE DEF place
  <2>3. PcShape' /\ pc'[t].at = "notify" /\ \A u \in Thread \ {t} : pc'[u] = pc[u]
    BY <1>1, <2>2, MovesAt DEF Doing
  <2>4. OtherTypes' /\ SignalsOK'  BY <1>1, <2>1, SignalsKeep DEF OtherTypes
  <2> QED  BY <2>1, <2>3, <2>4, Quiet DEF AtObject, Stopping
<1>6. CASE Exec(t) \/ FreeThread(t)
  <2>1. /\ pc[t].at \in {"ready", "free"} /\ Goto(t, "run")
        /\ UNCHANGED <<lockVars, killedAt, next, free, pending, stopped, Gthread, stops>>
    BY <1>6 DEF Exec, FreeThread
  <2>2. PcShape' /\ pc'[t].at = "run" /\ \A u \in Thread \ {t} : pc'[u] = pc[u]
    BY <1>1, <2>1, Goes DEF Doing
  <2>3. OtherTypes' /\ SignalsOK'  BY <1>1, <2>1, SignalsKeep DEF OtherTypes
  <2> QED  BY <2>1, <2>2, <2>3, Quiet DEF AtObject, Stopping
<1>7. CASE UseFreed(t)
  <2>1. UNCHANGED <<pc, lockVars, killedAt, next, free, pending, stopped, Gthread, stops>>  BY <1>7 DEF UseFreed
  <2>2. OtherTypes' /\ SignalsOK' /\ PcShape'  BY <1>1, <2>1, SignalsKeep DEF OtherTypes, PcShape
  <2> QED  BY <2>1, <2>2, Quiet
<1>8. ASSUME NEW u \in Thread, Suspend(t, u) \/ Resume(t, u) PROVE MonitorInv'
  <2>1. /\ UNCHANGED <<pc, lockVars, killedAt, next, free, stopped, Gthread, stops>>
        /\ Send(u, "stop") \/ Send(u, "cont")
    BY <1>8 DEF Suspend, Resume
  <2>2. /\ pending' \in [Thread -> SUBSET {"stop", "cont", "kill"}]
        /\ \A v \in Thread : pending'[v] \subseteq pending[v] \cup {"stop", "cont"}
    BY <1>1, <2>1, Sends
  <2>3. OtherTypes' /\ SignalsOK' /\ PcShape'  BY <1>1, <2>1, <2>2, SignalsKeep DEF OtherTypes, PcShape
  <2> QED  BY <2>1, <2>3, Quiet
<1>9. ASSUME NEW u \in Thread, Stop(t, u) PROVE MonitorInv'
  <2>1. /\ pc[t].at = "run" /\ Gthread' = u /\ Send(u, "kill") /\ stops < MaxStops /\ stops' = stops + 1
        /\ pc' = [pc EXCEPT ![t] = Pc("free", None, u)]
        /\ UNCHANGED <<lockVars, killedAt, next, free, stopped>>
    BY <1>9 DEF Stop
  <2>2. PcShape' /\ pc'[t].at = "free" /\ \A v \in Thread \ {t} : pc'[v] = pc[v]
    BY <1>1, <2>1, Moves DEF Doing
  <2>3. pending' \in [Thread -> SUBSET {"stop", "cont", "kill"}]  BY <1>1, <2>1, Sends
  <2>4. stops' \in 0 .. MaxStops /\ stops' > 0  BY <1>1, <1>2, <2>1 DEF OtherTypes
  <2>5. OtherTypes'  BY <1>1, <2>1, <2>3, <2>4 DEF OtherTypes
  <2>6. SignalsOK'  BY <2>1, <2>4 DEF SignalsOK
  <2>7. ~(stops' = 0)  BY <2>4
  <2> QED  BY <2>1, <2>2, <2>5, <2>6, <2>7, Quiet DEF AtObject, Stopping
<1> QED  BY <1>3, <1>4, <1>5, <1>6, <1>7, <1>8, <1>9

(* A thread that is started.                                               *)
LEMMA StartStep ==
  ASSUME MonitorAssumption, MonitorInv, NEW t \in Thread, NEW u \in Thread, Start(t, u)
  PROVE  MonitorInv'
<1>1. PcShape /\ OtherTypes /\ SignalsOK  BY Types DEF MonitorInv
<1>2. /\ pc[u].at = "new" /\ Goto(u, "ready")
      /\ UNCHANGED <<lockVars, killedAt, next, free, pending, stopped, Gthread, stops>>
  BY DEF Start, queueVars, signalVars, stopVars
<1>3. PcShape' /\ pc'[u].at = "ready" /\ \A v \in Thread \ {u} : pc'[v] = pc[v]
  BY <1>1, <1>2, Goes DEF Doing
<1>4. OtherTypes' /\ SignalsOK'  BY <1>1, <1>2, SignalsKeep DEF OtherTypes
<1> QED  BY <1>2, <1>3, <1>4, Quiet DEF AtObject, Stopping

(* wait up to the release of the mutex, and from the signal to its return. *)
LEMMA WaitSteps ==
  ASSUME MonitorAssumption, MonitorInv, NEW t \in Thread,
         \/ \E o \in Obj : Wait(t, o)
         \/ AppendNode(t) \/ FindNode(t) \/ Unlink(t) \/ HandleStop(t) \/ HandleCont(t)
         \/ pc[t].at \in {"release", "restore"} /\ NoLocks(t)
              /\ UNCHANGED <<locks, towner, depth, queueVars, signalVars, stopVars>>
  PROVE  MonitorInv'
<1>1. PcShape /\ OtherTypes /\ SignalsOK /\ ControlOK(t)  BY Types DEF MonitorInv
<1>2. pc[t].o \in Obj \cup {None}  BY <1>1 DEF PcShape
<1> USE DEF At, Does, queueVars, signalVars, stopVars
<1>3. ASSUME NEW o \in Obj, Wait(t, o) PROVE MonitorInv'
  <2>1. /\ pc[t].at = "run" /\ depth[t][o] > 0
        /\ UNCHANGED <<lockVars, killedAt, next, free, pending, stopped, Gthread, stops>>
    BY <1>3 DEF Wait, Inside
  <2>2. OtherTypes' /\ SignalsOK'  BY <1>1, <2>1, SignalsKeep DEF OtherTypes
  <2>3. CASE UNCHANGED pc
    <3>1. PcShape'  BY <1>1, <2>3 DEF PcShape
    <3> QED  BY <2>1, <2>2, <2>3, <3>1, Quiet
  <2>4. CASE pc' = [pc EXCEPT ![t] = Pc("append", o, Last(Queue(o)))]
    <3>1. /\ PcShape' /\ pc'[t].at = "append" /\ pc'[t].o = o
          /\ \A u \in Thread \ {t} : pc'[u] = pc[u]
      BY <1>1, <2>4, Moves DEF Doing
    <3>2. ASSUME NEW p \in Obj
          PROVE  \/ Phase(t, p)' = Phase(t, p)
                 \/ Phase(t, p) = "run" /\ Phase(t, p)' = "append" /\ depth[t][p] > 0
      <4>1. Phase(t, p) = "run"  BY <2>1 DEF Phase, AtObject, Stopping
      <4>2. Phase(t, p)' = IF p = o THEN "append" ELSE "run"  BY <3>1 DEF Phase, AtObject, Stopping
      <4> QED  BY <2>1, <4>1, <4>2
    <3> QED  BY <2>1, <2>2, <3>1, <3>2, Moved DEF AtObject, Stopping
  <2> QED  BY <1>3, <2>3, <2>4 DEF Wait
<1>4. CASE AppendNode(t)
  <2>1. /\ pc[t].at = "append" /\ UNCHANGED <<lockVars, killedAt, pending, stopped, Gthread, stops>>
    BY <1>4 DEF AppendNode
  <2>2. next' \in [Obj \cup Node -> Node \cup {None}] /\ free' \subseteq Node
    BY <1>1, <1>4 DEF AppendNode, OtherTypes
  <2>3. OtherTypes' /\ SignalsOK'  BY <1>1, <2>1, <2>2, SignalsKeep DEF OtherTypes
  <2>4. Goto(t, "run") \/ Goto(t, "release")  BY <1>4 DEF AppendNode
  <2>5. /\ PcShape' /\ pc'[t].at \in {"run", "release"} /\ pc'[t].o = pc[t].o
        /\ \A u \in Thread \ {t} : pc'[u] = pc[u]
    <3>1. CASE Goto(t, "run")  BY <1>1, <3>1, Goes DEF Doing
    <3>2. CASE Goto(t, "release")  BY <1>1, <3>2, Goes DEF Doing
    <3> QED  BY <2>4, <3>1, <3>2
  <2>6. ASSUME NEW p \in Obj
        PROVE  \/ Phase(t, p)' = Phase(t, p)
               \/ Phase(t, p) = "append" /\ Phase(t, p)' \in {"run", "release"}
    BY <2>1, <2>5 DEF Phase, AtObject, Stopping
  <2>7. pc[t].o \in Obj  BY <1>1, <2>1 DEF ControlOK, AtObject
  <2> QED  BY <2>1, <2>3, <2>5, <2>6, <2>7, Moved DEF Stopping
<1>5. ASSUME NEW at \in {"find", "unlink", "restore"}, pc[t].at \in {"pause", "find", "unlink"},
             PcShape', pc'[t].at = at, pc'[t].o = pc[t].o, at = "unlink" => pc'[t].place[2] \in Node,
             \A u \in Thread \ {t} : pc'[u] = pc[u], OtherTypes', SignalsOK',
             UNCHANGED <<lockVars, killedAt, stops>>
      PROVE  MonitorInv'
  <2>1. ASSUME NEW p \in Obj
        PROVE  \/ Phase(t, p)' = Phase(t, p)
               \/ Phase(t, p) \in {"pause", "find", "unlink"} /\ Phase(t, p)' \in {"find", "unlink", "restore"}
    BY <1>5 DEF Phase, AtObject, Stopping
  <2>2. pc[t].o \in Obj  BY <1>1, <1>5 DEF ControlOK, AtObject
  <2> QED  BY <1>5, <2>1, <2>2, Moved DEF Stopping
<1>6. CASE FindNode(t)
  <2> DEFINE q == Queue(pc[t].o)
             i == SelectInSeq(q, LAMBDA n : n \in Node /\ th[n] = t)
  <2>1. /\ pc[t].at = "find" /\ UNCHANGED <<lockVars, killedAt, next, free, pending, stopped, Gthread, stops>>
        /\ \/ Goto(t, "restore")
           \/ i # 0 /\ pc' = [pc EXCEPT ![t] = Pc("unlink", pc[t].o, <<q[i - 1], q[i]>>)]
    BY <1>6 DEF FindNode
  <2>2. OtherTypes' /\ SignalsOK'  BY <1>1, <2>1, SignalsKeep DEF OtherTypes
  <2>3. CASE Goto(t, "restore")
    <3>1. /\ PcShape' /\ pc'[t].at = "restore" /\ pc'[t].o = pc[t].o
          /\ \A u \in Thread \ {t} : pc'[u] = pc[u]
      BY <1>1, <2>3, Goes DEF Doing
    <3> QED  BY <1>5, <2>1, <2>2, <3>1
  <2>4. CASE i # 0 /\ pc' = [pc EXCEPT ![t] = Pc("unlink", pc[t].o, <<q[i - 1], q[i]>>)]
    <3> DEFINE I == {k \in 1 .. Len(q) : q[k] \in Node /\ th[q[k]] = t}
    <3>1. i = IF I # {} THEN Min(I) ELSE 0  BY DEF SelectInSeq
    <3>2. I # {} /\ i = Min(I)  BY <2>4, <3>1
    <3>3. I \in SUBSET Nat  OBVIOUS
    <3>4. i \in I  BY <3>2, <3>3, Least
    <3>5. q[i] \in Node  BY <3>4
    <3> DEFINE place == <<q[i - 1], q[i]>>
    <3>6. place[2] \in Node /\ pc' = [pc EXCEPT ![t] = Pc("unlink", pc[t].o, place)]  BY <2>4, <3>5
    <3> HIDE DEF place
    <3>7. /\ PcShape' /\ pc'[t].at = "unlink" /\ pc'[t].o = pc[t].o /\ pc'[t].place = place
          /\ \A u \in Thread \ {t} : pc'[u] = pc[u]
      BY <1>1, <3>6, MovesAt DEF Doing
    <3> QED  BY <1>5, <2>1, <2>2, <3>6, <3>7
  <2> QED  BY <2>1, <2>3, <2>4
<1>7. CASE Unlink(t)
  <2> DEFINE n == pc[t].place[2]
  <2>1. /\ pc[t].at = "unlink" /\ UNCHANGED <<lockVars, killedAt, pending, stopped, Gthread, stops>>
        /\ pc' = [pc EXCEPT ![t] = Pc("restore", pc[t].o, None)]
        /\ next' = [next EXCEPT ![pc[t].place[1]] = next[n]] /\ free' = free \cup {n}
    BY <1>7 DEF Unlink
  <2>2. n \in Node  BY <1>1, <2>1 DEF ControlOK
  <2>3. next' \in [Obj \cup Node -> Node \cup {None}] /\ free' \subseteq Node
    BY <1>1, <2>1, <2>2 DEF OtherTypes
  <2>4. OtherTypes' /\ SignalsOK'  BY <1>1, <2>1, <2>3, SignalsKeep DEF OtherTypes
  <2>5. /\ PcShape' /\ pc'[t].at = "restore" /\ pc'[t].o = pc[t].o
        /\ \A u \in Thread \ {t} : pc'[u] = pc[u]
    BY <1>1, <2>1, MovesAt DEF Doing
  <2> QED  BY <1>5, <2>1, <2>4, <2>5
<1>8. CASE HandleStop(t) \/ HandleCont(t)
  <2>1. /\ pc[t].at \notin Stopping /\ Woken(t) /\ UNCHANGED <<lockVars, killedAt, next, free, Gthread, stops>>
        /\ \E sig \in {"stop", "cont"} : Delivered(t, sig)
        /\ stopped' = stopped \cup {t} \/ stopped' = stopped \ {t}
    BY <1>8 DEF HandleStop, HandleCont, Alive, Stopping
  <2>2. /\ pending' \in [Thread -> SUBSET {"stop", "cont", "kill"}]
        /\ \A v \in Thread : pending'[v] \subseteq pending[v]
    BY <1>1, <2>1 DEF Delivered, OtherTypes
  <2>3. stopped' \subseteq Thread  BY <1>1, <2>1 DEF OtherTypes
  <2>4. OtherTypes' /\ SignalsOK'  BY <1>1, <2>1, <2>2, <2>3, SignalsKeep DEF OtherTypes
  <2>5. CASE pc[t].at = "pause"
    <3>1. Goto(t, "find")  BY <2>1, <2>5 DEF Woken
    <3>2. /\ PcShape' /\ pc'[t].at = "find" /\ pc'[t].o = pc[t].o
          /\ \A u \in Thread \ {t} : pc'[u] = pc[u]
      BY <1>1, <3>1, Goes DEF Doing
    <3> QED  BY <1>5, <2>1, <2>4, <2>5, <3>2
  <2>6. CASE pc[t].at # "pause"
    <3>1. Goto(t, pc[t].at) /\ pc[t].at \in Doing  BY <1>1, <2>1, <2>6 DEF Woken, PcShape
    <3>2. /\ PcShape' /\ pc'[t].at = pc[t].at /\ pc'[t].o = pc[t].o /\ pc'[t].place = pc[t].place
          /\ \A u \in Thread \ {t} : pc'[u] = pc[u]
      BY <1>1, <3>1, Goes
    <3>3. \A p \in Obj : Phase(t, p)' = Phase(t, p)  BY <3>2 DEF Phase
    <3> QED  BY <1>1, <2>1, <2>4, <3>2, <3>3, Moved DEF ControlOK
  <2> QED  BY <2>5, <2>6
<1>9. CASE pc[t].at \in {"release", "restore"} /\ NoLocks(t)
           /\ UNCHANGED <<locks, towner, depth, queueVars, signalVars, stopVars>>
  <2>1. /\ pc[t].at \in {"release", "restore"} /\ Goto(t, "run") /\ locks[t] = << >>
        /\ UNCHANGED <<lockVars, killedAt, next, free, pending, stopped, Gthread, stops>>
    BY <1>9 DEF NoLocks, lockVars
  <2>2. OtherTypes' /\ SignalsOK'  BY <1>1, <2>1, SignalsKeep DEF OtherTypes
  <2>3. /\ PcShape' /\ pc'[t].at = "run" /\ pc'[t].o = pc[t].o
        /\ \A u \in Thread \ {t} : pc'[u] = pc[u]
    BY <1>1, <2>1, Goes DEF Doing
  <2>4. ASSUME NEW p \in Obj PROVE Times(locks[t], p) = 0
    <3>1. locks[t] \in Seq(Entries)  BY Types DEF MonitorInv, ListTypes
    <3>2. Len(locks[t]) = 0  BY <2>1
    <3> QED  BY <3>1, <3>2, Finds
  <2>5. ASSUME NEW p \in Obj
        PROVE  \/ Phase(t, p)' = Phase(t, p)
               \/ Phase(t, p) \in {"release", "restore"} /\ Phase(t, p)' = "run" /\ Times(locks[t], p) = 0
    BY <2>1, <2>3, <2>4 DEF Phase, AtObject, Stopping
  <2> QED  BY <2>1, <2>2, <2>3, <2>5, Moved DEF AtObject, Stopping
<1> QED  BY <1>3, <1>4, <1>6, <1>7, <1>8, <1>9

(* What a step on the list, the mutex and the nesting of one thread keeps. *)
LEMMA Alone ==
  ASSUME MonitorInv, NEW t \in Thread, PcShape',
         \A u \in Thread \ {t} : pc'[u] = pc[u] /\ locks'[u] = locks[u] /\ depth'[u] = depth[u]
                                  /\ \A o \in Obj : Held(u, o)' = Held(u, o),
         UNCHANGED <<queueVars, signalVars, stopVars>>,
         pc[t].at \notin Stopping, pc'[t].at \notin Stopping \cup {"unlink"},
         pc'[t].at \in AtObject => pc'[t].o \in Obj
  PROVE  /\ OthersKeep(t) /\ StoppedKeep /\ (Robbed(t) => Robbed(t)')
         /\ KillTypes' /\ OtherTypes' /\ SignalsOK' /\ ControlOK(t)' /\ stops' = stops
<1>1. MonitorTypeOK /\ SignalsOK /\ ControlOK(t)  BY DEF MonitorInv
<1>2. /\ killedAt' = killedAt /\ next' = next /\ free' = free /\ pending' = pending /\ stopped' = stopped
      /\ Gthread' = Gthread /\ stops' = stops
  BY DEF queueVars, signalVars, stopVars
<1>3. killedAt[t] = None  BY <1>1 DEF ControlOK
<1>4. StoppedKeep
  <2> SUFFICES ASSUME NEW u \in Thread, killedAt[u] # None PROVE killedAt'[u] # None /\ pc'[u].place = pc[u].place
    BY DEF StoppedKeep
  <2>1. u # t  BY <1>3
  <2> QED  BY <1>2, <2>1
<1>5. OthersKeep(t)  BY <1>2 DEF OthersKeep
<1>6. KillTypes' /\ OtherTypes'  BY <1>1, <1>2, Types DEF KillTypes, OtherTypes
<1>7. SignalsOK'  BY <1>1, <1>2 DEF SignalsOK
<1>8. ControlOK(t)'  BY <1>2, <1>3 DEF ControlOK, Stopping
<1> QED  BY <1>2, <1>4, <1>5, <1>6, <1>7, <1>8, OthersStay

(* monitorenter counts the object once more in the list.                   *)
LEMMA Listing ==
  ASSUME NEW s \in Seq(Entries), Distinct(s), NEW o \in Obj, Times(s, o) >= 0
  PROVE  /\ WithLock(s, o) \in Seq(Entries) /\ Distinct(WithLock(s, o))
         /\ \A p : Times(WithLock(s, o), p) = IF p = o THEN Times(s, o) + 1 ELSE Times(s, p)
<1>1. CASE Index(s, o) = 0
  <2> DEFINE r == Append(s, Lock(o, 1))
  <2>1. r \in Seq(Entries) /\ Distinct(r) /\ \A p : Times(r, p) = IF p = o THEN 1 ELSE Times(s, p)
    BY <1>1, Appended
  <2>2. Times(s, o) = 0  BY <1>1 DEF Times
  <2>3. WithLock(s, o) = r  BY <1>1 DEF WithLock
  <2> HIDE DEF r
  <2> QED  BY <2>1, <2>2, <2>3
<1>2. CASE Index(s, o) # 0
  <2>1. PICK i : i = Index(s, o)  OBVIOUS
  <2>2. i \in 1 .. Len(s) /\ s[i].obj = o /\ Times(s, o) = s[i].n /\ s[i].n \in Int \ {0}
    BY <1>2, <2>1, Finds
  <2>3. PICK n : n = s[i].n + 1  OBVIOUS
  <2>4. n \in Int \ {0} /\ n = Times(s, o) + 1  BY <2>2, <2>3
  <2>5. Lock(o, n) \in Entries  BY <2>4 DEF Lock, Entries
  <2>6. WithLock(s, o) = [s EXCEPT ![i] = Lock(o, n)]  BY <1>2, <2>1, <2>3 DEF WithLock
  <2> DEFINE r == WithLock(s, o)
  <2>7. r \in Seq(Entries) /\ Len(r) = Len(s) /\ \A j \in 1 .. Len(s) : r[j] = IF j = i THEN Lock(o, n) ELSE s[j]
    BY <2>2, <2>5, <2>6, ExceptSeq
  <2> HIDE DEF r
  <2>8. r[i] = Lock(s[i].obj, n) /\ \A j \in 1 .. Len(s) : j # i => r[j] = s[j]  BY <2>2, <2>7
  <2>9. Distinct(r) /\ \A p : Times(r, p) = IF p = s[i].obj THEN n ELSE Times(s, p)
    BY <2>2, <2>4, <2>7, <2>8, Changed
  <2> QED  BY <2>2, <2>4, <2>7, <2>9 DEF r
<1> QED  BY <1>1, <1>2

(* monitorenter: the list is ahead of the mutex, and the mutex of the      *)
(* nesting.                                                                *)
LEMMA AddLockStep ==
  ASSUME MonitorAssumption, MonitorInv, NEW t \in Thread, NEW o \in Obj, AddLock(t, o)
  PROVE  MonitorInv'
<1>1. MonitorTypeOK /\ PcShape /\ ListTypes /\ Mutexes /\ OwnerTypes /\ OwnerOK /\ ThreadOK(t)
  BY Types DEF MonitorInv
<1> DEFINE s == locks[t]  r == locks'[t]
<1>2. s \in Seq(Entries) /\ Distinct(s)  BY <1>1 DEF ListTypes, ThreadOK
<1>3. /\ pc[t].at = "run" /\ pc' = [pc EXCEPT ![t] = Pc("enter", o, None)]
      /\ locks' = [locks EXCEPT ![t] = WithLock(s, o)]
      /\ UNCHANGED <<owner, count, towner, depth, queueVars, signalVars, stopVars>>
  BY DEF AddLock, At, Does
<1>4. /\ PcShape' /\ pc'[t].at = "enter" /\ pc'[t].o = o /\ \A u \in Thread \ {t} : pc'[u] = pc[u]
  BY <1>1, <1>3, Moves DEF Doing
<1>5. \A p \in Obj : Phase(t, p) = "run" /\ Phase(t, p)' = IF p = o THEN "enter" ELSE "run"
  BY <1>3, <1>4 DEF Phase, AtObject, Stopping
<1>6. \A u \in Thread, p \in Obj : Held(u, p)' = Held(u, p)  BY <1>3 DEF Held
<1>7. ASSUME NEW p \in Obj
      PROVE  /\ Times(s, p) \in Int /\ Held(t, p) \in Nat /\ depth[t][p] \in Nat
             /\ Times(s, p) # 0 => Listed("run", Times(s, p), depth[t][p], First(s, p))
             /\ ~Robbed(t) => Agrees("run", Times(s, p), Held(t, p), depth[t][p], Leaves(t))
  <2>1. ObjectOK(t, p)  BY <1>1 DEF ThreadOK
  <2> QED  BY <1>1, <1>5, <2>1, Numbers DEF ObjectOK, Stopping
<1>8. Times(s, o) >= 0  BY <1>7 DEF Listed
<1>9. r = WithLock(s, o) /\ \A u \in Thread \ {t} : locks'[u] = locks[u]  BY <1>1, <1>3 DEF ListTypes
<1>10. /\ r \in Seq(Entries) /\ Distinct(r)
       /\ \A p : Times(r, p) = IF p = o THEN Times(s, o) + 1 ELSE Times(s, p)
  BY <1>2, <1>8, <1>9, Listing
<1>11. ListTypes' /\ Mutexes' /\ OwnerTypes'
  BY <1>1, <1>3, <1>9, <1>10 DEF ListTypes, Mutexes, OwnerTypes
<1>12. pc[t].at \notin Stopping /\ pc'[t].at \notin Stopping \cup {"unlink"}  BY <1>3, <1>4 DEF Stopping
<1>13. /\ OthersKeep(t) /\ StoppedKeep /\ (Robbed(t) => Robbed(t)')
       /\ KillTypes' /\ OtherTypes' /\ SignalsOK' /\ ControlOK(t)' /\ stops' = stops
  BY <1>3, <1>4, <1>6, <1>9, <1>12, Alone
<1>14. OwnerOK'  BY <1>1, <1>3, <1>5, <1>6, <1>13, OwnerKeeps
<1> HIDE DEF s, r
<1>15. ASSUME NEW p \in Obj PROVE ObjectOK(t, p)'
  <2>1. /\ Times(r, p) # 0 => Listed(Phase(t, p)', Times(r, p), depth[t][p], First(r, p))
        /\ ~Robbed(t) => Agrees(Phase(t, p)', Times(r, p), Held(t, p), depth[t][p], Leaves(t)')
    BY <1>5, <1>7, <1>10 DEF Listed, Agrees
  <2> QED  BY <1>3, <1>6, <1>13, <2>1 DEF ObjectOK, r
<1>16. ThreadOK(t)'  BY <1>10, <1>15 DEF ThreadOK, r
<1> QED  BY <1>4, <1>11, <1>13, <1>14, <1>16, Step

(* What the invariant says of the numbers of a thread that is not stopped. *)
LEMMA Values ==
  ASSUME MonitorAssumption, MonitorInv, NEW t \in Thread, pc[t].at \notin Stopping, NEW p \in Obj
  PROVE  LET n == Times(locks[t], p) IN
         /\ n \in Int /\ Held(t, p) \in Nat /\ depth[t][p] \in Nat
         /\ n # 0 => Listed(Phase(t, p), n, depth[t][p], First(locks[t], p))
         /\ ~Robbed(t) => Agrees(Phase(t, p), n, Held(t, p), depth[t][p], Leaves(t))
<1>1. MonitorTypeOK /\ ObjectOK(t, p)  BY DEF MonitorInv, ThreadOK
<1>2. Phase(t, p) \notin Stopping  BY DEF Phase, Stopping
<1> QED  BY <1>1, <1>2, Numbers DEF ObjectOK

(* Nobody is robbed before a thread is stopped.                            *)
LEMMA NotRobbed ==
  ASSUME SignalsOK, stops = 0
  PROVE  \A t \in Thread : ~Robbed(t)
<1>1. ~(stops > 0)  OBVIOUS
<1> QED  BY <1>1 DEF SignalsOK, Robbed

(* A step of a thread at the list, the mutex or the nesting of an object.  *)
LEMMA LockStep ==
  ASSUME MonitorAssumption, MonitorInv, NEW t \in Thread, PcShape',
         \A u \in Thread \ {t} : pc'[u] = pc[u] /\ locks'[u] = locks[u] /\ depth'[u] = depth[u]
                                  /\ \A o \in Obj : Held(u, o)' = Held(u, o),
         UNCHANGED <<queueVars, signalVars, stopVars>>,
         pc[t].at \notin Stopping, pc'[t].at \notin Stopping \cup {"unlink"},
         pc'[t].at \in AtObject => pc'[t].o \in Obj,
         ListTypes', Mutexes', OwnerTypes', Distinct(locks'[t]),
         OthersKeep(t) => OwnerOK',
         \A p \in Obj :
           /\ Times(locks'[t], p) # 0 =>
                Listed(Phase(t, p)', Times(locks'[t], p), depth'[t][p], First(locks'[t], p))
           /\ ~Robbed(t) => Agrees(Phase(t, p)', Times(locks'[t], p), Held(t, p)', depth'[t][p], Leaves(t)')
  PROVE  MonitorInv'
<1>1. /\ OthersKeep(t) /\ StoppedKeep /\ (Robbed(t) => Robbed(t)')
      /\ KillTypes' /\ OtherTypes' /\ SignalsOK' /\ ControlOK(t)'
  BY Alone
<1>2. ASSUME NEW p \in Obj PROVE ObjectOK(t, p)'
  BY <1>1 DEF ObjectOK
<1>3. ThreadOK(t)'  BY <1>2 DEF ThreadOK
<1> QED  BY <1>1, <1>3, Step

(* The mutex that monitorenter locks and monitorexit unlocks, and that     *)
(* wait gives up.                                                          *)
LEMMA MutexSteps ==
  ASSUME MonitorAssumption, MonitorInv, NEW t \in Thread,
         \/ MutexLock(t) \/ MutexUnlock(t)
         \/ Release(t) /\ FirstLock(t)
         \/ Restore(t) /\ FirstLock(t)
  PROVE  MonitorInv'
<1>1. MonitorTypeOK /\ PcShape /\ ListTypes /\ Mutexes /\ OwnerTypes /\ OwnerOK /\ ThreadOK(t) /\ ControlOK(t)
  BY Types DEF MonitorInv
<1>2. pc[t].at \in {"enter", "exit", "release", "restore"}
  BY DEF MutexLock, MutexUnlock, Release, Restore, At
<1>3. PICK o \in Obj : o = pc[t].o  BY <1>1, <1>2 DEF ControlOK, AtObject
<1>4. UNCHANGED <<locks, towner, depth, queueVars, signalVars, stopVars>>
  BY DEF MutexLock, MutexUnlock, Release, Restore
<1>5. ASSUME NEW p \in Obj
      PROVE  LET n == Times(locks[t], p) IN
             /\ n \in Int /\ Held(t, p) \in Nat /\ depth[t][p] \in Nat
             /\ n # 0 => Listed(Phase(t, p), n, depth[t][p], First(locks[t], p))
             /\ ~Robbed(t) => Agrees(Phase(t, p), n, Held(t, p), depth[t][p], Leaves(t))
  BY <1>2, Values DEF Stopping
<1>6. FirstLock(t) =>
        /\ 1 \in 1 .. Len(locks[t]) /\ First(locks[t], o) /\ locks[t][1].n \in Int \ {0}
        /\ locks[t][1].n = Times(locks[t], o)
  <2>1. locks[t] \in Seq(Entries) /\ Distinct(locks[t])  BY <1>1 DEF ListTypes, ThreadOK
  <2>2. ASSUME FirstLock(t) PROVE 1 \in 1 .. Len(locks[t])  BY <2>1, <2>2, EmptySeq DEF FirstLock
  <2> QED  BY <1>3, <2>1, <2>2, TimesOf DEF FirstLock, First
<1>7. ASSUME NEW at \in {"own", "run", "mark", "restored"}, PcShape', pc'[t].at = at, pc'[t].o = o,
             \A u \in Thread \ {t} : pc'[u] = pc[u],
             Mutexes', \A u \in Thread \ {t}, p \in Obj : Held(u, p)' = Held(u, p),
             \A p \in Obj : p # o => Held(t, p)' = Held(t, p),
             \/ at = "own" /\ pc[t].at = "enter" /\ Held(t, o)' = Held(t, o) + 1
             \/ at = "run" /\ pc[t].at = "exit" /\ Held(t, o)' = IF 1 < Held(t, o) THEN Held(t, o) - 1 ELSE 0
             \/ /\ at = "mark" /\ pc[t].at = "release" /\ First(locks[t], o)
                /\ Held(t, o)' = IF Times(locks[t], o) < Held(t, o) THEN Held(t, o) - Times(locks[t], o) ELSE 0
             \/ /\ at = "restored" /\ pc[t].at = "restore" /\ First(locks[t], o)
                /\ Held(t, o)' = Held(t, o) - Times(locks[t], o)
      PROVE  MonitorInv'
  <2>1. locks' = locks /\ depth' = depth /\ towner' = towner  BY <1>4
  <2>2. ListTypes' /\ OwnerTypes' /\ Distinct(locks'[t])  BY <1>1, <2>1 DEF ListTypes, OwnerTypes, ThreadOK
  <2>3. ASSUME NEW p \in Obj
        PROVE  /\ Phase(t, p) = IF p = o THEN pc[t].at ELSE "run"
               /\ Phase(t, p)' = IF p = o THEN at ELSE "run"
    BY <1>2, <1>3, <1>7 DEF Phase, AtObject, Stopping
  <2>4. ASSUME NEW p \in Obj
        PROVE  /\ Times(locks[t], p) # 0 => Listed(Phase(t, p)', Times(locks[t], p), depth[t][p], First(locks[t], p))
               /\ ~Robbed(t) => Agrees(Phase(t, p)', Times(locks[t], p), Held(t, p)', depth[t][p], Leaves(t)')
    <3>1. CASE p # o  BY <1>5, <1>7, <2>3, <3>1 DEF Listed, Agrees
    <3>2. CASE p = o  BY <1>5, <1>7, <2>3, <3>2 DEF Listed, Agrees
    <3> QED  BY <3>1, <3>2
  <2>5. OthersKeep(t) => OwnerOK'
    <3>1. ASSUME NEW p \in Obj, stops = 0,
                 depth'[t][p] > 0, Held(t, p)' > 0, Phase(t, p)' # "restored"
          PROVE  depth[t][p] > 0 /\ Held(t, p) > 0 /\ Phase(t, p) # "restored"
      <4>1. ~Robbed(t)  BY <3>1, NotRobbed DEF MonitorInv
      <4>2. CASE p # o  BY <1>5, <1>7, <2>1, <2>3, <3>1, <4>2
      <4>3. CASE p = o  BY <1>5, <1>7, <2>1, <2>3, <3>1, <4>1, <4>3 DEF Agrees
      <4> QED  BY <4>2, <4>3
    <3>2. stops' = stops  BY <1>4 DEF stopVars
    <3>3. CASE stops = 0  BY <1>1, <2>1, <3>1, <3>2, <3>3, OwnerKeeps
    <3>4. CASE stops # 0  BY <3>2, <3>4 DEF OwnerOK
    <3> QED  BY <3>3, <3>4
  <2>6. pc[t].at \notin Stopping /\ pc'[t].at \notin Stopping \cup {"unlink"}  BY <1>2, <1>7 DEF Stopping
  <2> QED  BY <1>4, <1>7, <2>1, <2>2, <2>4, <2>5, <2>6, LockStep
<1>8. CASE MutexLock(t)
  <2>1. pc[t].at = "enter" /\ Acquire(t, o, 1) /\ Goto(t, "own")  BY <1>3, <1>8 DEF MutexLock, At
  <2>2. PcShape' /\ pc'[t].at = "own" /\ pc'[t].o = o /\ \A u \in Thread \ {t} : pc'[u] = pc[u]
    BY <1>1, <1>3, <2>1, Goes DEF Doing
  <2>3. /\ Mutexes' /\ \A u \in Thread \ {t}, p \in Obj : Held(u, p)' = Held(u, p)
        /\ \A p \in Obj : Held(t, p)' = IF p = o THEN Held(t, o) + 1 ELSE Held(t, p)
    BY <1>1, <2>1, Locks
  <2> QED  BY <1>7, <2>1, <2>2, <2>3
<1>9. CASE MutexUnlock(t)
  <2>1. pc[t].at = "exit" /\ Unlock(t, o, 1) /\ Goto(t, "run")  BY <1>3, <1>9 DEF MutexUnlock, At
  <2>2. PcShape' /\ pc'[t].at = "run" /\ pc'[t].o = o /\ \A u \in Thread \ {t} : pc'[u] = pc[u]
    BY <1>1, <1>3, <2>1, Goes DEF Doing
  <2>3. /\ Mutexes' /\ \A u \in Thread \ {t}, p \in Obj : Held(u, p)' = Held(u, p)
        /\ \A p \in Obj : Held(t, p)' =
             IF p # o THEN Held(t, p) ELSE IF 1 < Held(t, o) THEN Held(t, o) - 1 ELSE 0
    BY <1>1, <2>1, Unlocks
  <2> QED  BY <1>7, <2>1, <2>2, <2>3
<1>10. CASE Release(t) /\ FirstLock(t)
  <2>1. PICK n : n = locks[t][1].n  OBVIOUS
  <2>2. pc[t].at = "release" /\ Unlock(t, o, n) /\ Goto(t, "mark")
    BY <1>3, <1>10, <2>1 DEF Release, At, NoLocks, FirstLock
  <2>3. n = Times(locks[t], o) /\ n \in Int \ {0} /\ First(locks[t], o)  BY <1>6, <1>10, <2>1
  <2>4. n \in Nat
    <3>1. Phase(t, o) = "release"  BY <1>3, <2>2 DEF Phase, AtObject, Stopping
    <3> QED  BY <1>5, <2>3, <3>1 DEF Listed
  <2>5. PcShape' /\ pc'[t].at = "mark" /\ pc'[t].o = o /\ \A u \in Thread \ {t} : pc'[u] = pc[u]
    BY <1>1, <1>3, <2>2, Goes DEF Doing
  <2>6. /\ Mutexes' /\ \A u \in Thread \ {t}, p \in Obj : Held(u, p)' = Held(u, p)
        /\ \A p \in Obj : Held(t, p)' =
             IF p # o THEN Held(t, p) ELSE IF n < Held(t, o) THEN Held(t, o) - n ELSE 0
    BY <1>1, <2>2, <2>4, Unlocks
  <2> QED  BY <1>7, <2>2, <2>3, <2>5, <2>6
<1>11. CASE Restore(t) /\ FirstLock(t)
  <2>1. PICK n : n = -locks[t][1].n  OBVIOUS
  <2>2. pc[t].at = "restore" /\ Acquire(t, o, n) /\ Goto(t, "restored")
    BY <1>3, <1>11, <2>1 DEF Restore, At, NoLocks, FirstLock
  <2>3. n = -Times(locks[t], o) /\ Times(locks[t], o) \in Int \ {0} /\ First(locks[t], o)
    BY <1>6, <1>11, <2>1
  <2>4. n \in Nat \ {0}
    <3>1. Phase(t, o) = "restore"  BY <1>3, <2>2 DEF Phase, AtObject, Stopping
    <3> QED  BY <1>5, <2>3, <3>1 DEF Listed
  <2>5. PcShape' /\ pc'[t].at = "restored" /\ pc'[t].o = o /\ \A u \in Thread \ {t} : pc'[u] = pc[u]
    BY <1>1, <1>3, <2>2, Goes DEF Doing
  <2>6. /\ Mutexes' /\ \A u \in Thread \ {t}, p \in Obj : Held(u, p)' = Held(u, p)
        /\ \A p \in Obj : Held(t, p)' = IF p = o THEN Held(t, o) + n ELSE Held(t, p)
    BY <1>1, <2>2, <2>4, Locks
  <2>7. Held(t, o)' = Held(t, o) - Times(locks[t], o)  BY <1>5, <2>3, <2>6
  <2> QED  BY <1>7, <2>2, <2>3, <2>5, <2>6, <2>7
<1> QED  BY <1>8, <1>9, <1>10, <1>11

(* Who is said to be the owner of an object whose mutex the thread holds.  *)
LEMMA OwnerChanges ==
  ASSUME MonitorAssumption, OwnerOK, Mutexes', NEW t \in Thread, NEW o \in Obj, OthersKeep(t), stops' = stops,
         \A p \in Obj \ {o} :
           /\ towner'[p] = towner[p]
           /\ depth'[t][p] > 0 /\ Held(t, p)' > 0 /\ Phase(t, p)' # "restored" =>
                depth[t][p] > 0 /\ Held(t, p) > 0 /\ Phase(t, p) # "restored",
         stops = 0 => Held(t, o)' > 0 /\ (depth'[t][o] > 0 => towner'[o] = t)
  PROVE  OwnerOK'
<1> SUFFICES ASSUME stops = 0, NEW u \in Thread, NEW p \in Obj,
                    depth'[u][p] > 0, Held(u, p)' > 0, Phase(u, p)' # "restored"
             PROVE  towner'[p] = u
  BY DEF OwnerOK
<1>1. \A v \in Thread : Held(v, o)' > 0 => v = t  BY DEF Mutexes, Held, MonitorAssumption
<1>2. CASE p = o  BY <1>1, <1>2
<1>3. CASE p # o /\ u = t  BY <1>3 DEF OwnerOK
<1>4. CASE p # o /\ u # t
  <2>1. pc'[u] = pc[u] /\ depth'[u] = depth[u] /\ Held(u, p)' = Held(u, p)  BY <1>4 DEF OthersKeep
  <2>2. Phase(u, p)' = Phase(u, p)  BY <2>1 DEF Phase
  <2> QED  BY <1>4, <2>1, <2>2 DEF OwnerOK
<1> QED  BY <1>2, <1>3, <1>4

(* monitorenter is done: the thread is the owner, and in the monitor.      *)
LEMMA SetOwnerStep ==
  ASSUME MonitorAssumption, MonitorInv, NEW t \in Thread, SetOwner(t)
  PROVE  MonitorInv'
<1>1. MonitorTypeOK /\ PcShape /\ ListTypes /\ Mutexes /\ OwnerTypes /\ OwnerOK /\ ThreadOK(t) /\ ControlOK(t)
  BY Types DEF MonitorInv
<1>2. pc[t].at = "own" /\ Goto(t, "run") /\ UNCHANGED <<locks, owner, count, queueVars, signalVars, stopVars>>
  BY DEF SetOwner, At
<1>3. PICK o \in Obj : o = pc[t].o  BY <1>1, <1>2 DEF ControlOK, AtObject
<1>4. /\ \A p \in Obj : towner'[p] = IF p = o THEN t ELSE towner[p]
      /\ \A p \in Obj : depth'[t][p] = IF p = o THEN depth[t][o] + 1 ELSE depth[t][p]
      /\ \A u \in Thread \ {t} : depth'[u] = depth[u]
      /\ OwnerTypes' /\ depth' \in [Thread -> [Obj -> Nat]]
  BY <1>1, <1>3 DEF SetOwner, OwnerTypes, ListTypes
<1>5. PcShape' /\ pc'[t].at = "run" /\ pc'[t].o = o /\ \A u \in Thread \ {t} : pc'[u] = pc[u]
  BY <1>1, <1>2, <1>3, Goes DEF Doing
<1>6. \A u \in Thread, p \in Obj : Held(u, p)' = Held(u, p)  BY <1>2 DEF Held
<1>7. ASSUME NEW p \in Obj
      PROVE  LET n == Times(locks[t], p) IN
             /\ n \in Int /\ Held(t, p) \in Nat /\ depth[t][p] \in Nat
             /\ n # 0 => Listed(Phase(t, p), n, depth[t][p], First(locks[t], p))
             /\ ~Robbed(t) => Agrees(Phase(t, p), n, Held(t, p), depth[t][p], Leaves(t))
  BY <1>2, Values DEF Stopping
<1>8. \A p \in Obj : Phase(t, p) = (IF p = o THEN "own" ELSE "run") /\ Phase(t, p)' = "run"
  BY <1>2, <1>3, <1>5 DEF Phase, AtObject, Stopping
<1>9. ASSUME NEW p \in Obj
      PROVE  LET n == Times(locks[t], p) IN
             /\ n # 0 => Listed(Phase(t, p)', n, depth'[t][p], First(locks[t], p))
             /\ ~Robbed(t) => Agrees(Phase(t, p)', n, Held(t, p), depth'[t][p], Leaves(t)')
  <2>1. CASE p = o  BY <1>4, <1>7, <1>8, <2>1 DEF Listed, Agrees
  <2>2. CASE p # o  BY <1>4, <1>7, <1>8, <2>2 DEF Listed, Agrees
  <2> QED  BY <2>1, <2>2
<1>10. locks' = locks /\ stops' = stops  BY <1>2 DEF stopVars
<1>11. ListTypes' /\ Mutexes' /\ Distinct(locks'[t])
  BY <1>1, <1>2, <1>4, <1>10 DEF ListTypes, Mutexes, ThreadOK
<1>12. OthersKeep(t) => OwnerOK'
  <2>1. stops = 0 => ~Robbed(t)  BY NotRobbed DEF MonitorInv
  <2>2. stops = 0 => Held(t, o) > 0  BY <1>7, <1>8, <2>1 DEF Agrees
  <2> QED  BY <1>1, <1>4, <1>6, <1>8, <1>10, <1>11, <2>2, OwnerChanges
<1>13. pc[t].at \notin Stopping /\ pc'[t].at \notin Stopping \cup {"unlink"}  BY <1>2, <1>5 DEF Stopping
<1> QED  BY <1>2, <1>4, <1>5, <1>6, <1>9, <1>10, <1>11, <1>12, <1>13, LockStep

(* monitorexit counts the object once less in the list.                    *)
LEMMA Unlisting ==
  ASSUME NEW s \in Seq(Entries), Distinct(s), NEW o \in Obj, Times(s, o) >= 0
  PROVE  /\ WithoutLock(s, o) \in Seq(Entries) /\ Distinct(WithoutLock(s, o))
         /\ \A p : Times(WithoutLock(s, o), p) =
              IF p # o THEN Times(s, p) ELSE IF Times(s, o) > 1 THEN Times(s, o) - 1 ELSE 0
<1>1. CASE Index(s, o) = 0
  <2>1. Times(s, o) = 0 /\ WithoutLock(s, o) = s  BY <1>1 DEF Times, WithoutLock
  <2> QED  BY <2>1
<1>2. CASE Index(s, o) # 0
  <2>1. PICK i : i = Index(s, o)  OBVIOUS
  <2>2. i \in 1 .. Len(s) /\ s[i].obj = o /\ Times(s, o) = s[i].n /\ s[i].n \in Int \ {0}
    BY <1>2, <2>1, Finds
  <2> DEFINE r == WithoutLock(s, o)
  <2>3. CASE s[i].n > 1
    <3>1. PICK n : n = s[i].n - 1  OBVIOUS
    <3>2. n \in Int \ {0} /\ n = Times(s, o) - 1 /\ Times(s, o) > 1  BY <2>2, <2>3, <3>1
    <3>3. Lock(o, n) \in Entries  BY <3>2 DEF Lock, Entries
    <3>4. r = [s EXCEPT ![i] = Lock(o, n)]  BY <1>2, <2>1, <2>3, <3>1 DEF WithoutLock
    <3>5. r \in Seq(Entries) /\ Len(r) = Len(s) /\ \A j \in 1 .. Len(s) : r[j] = IF j = i THEN Lock(o, n) ELSE s[j]
      BY <2>2, <3>3, <3>4, ExceptSeq
    <3> HIDE DEF r
    <3>6. r[i] = Lock(s[i].obj, n) /\ \A j \in 1 .. Len(s) : j # i => r[j] = s[j]  BY <2>2, <3>5
    <3>7. Distinct(r) /\ \A p : Times(r, p) = IF p = s[i].obj THEN n ELSE Times(s, p)
      BY <2>2, <3>2, <3>5, <3>6, Changed
    <3> QED  BY <2>2, <3>2, <3>5, <3>7 DEF r
  <2>4. CASE ~(s[i].n > 1)
    <3>1. r = RemoveAt(s, i)  BY <1>2, <2>1, <2>4 DEF WithoutLock
    <3> DEFINE q == RemoveAt(s, i)
    <3>2. q \in Seq(Entries) /\ Distinct(q) /\ \A p : Times(q, p) = IF p = s[i].obj THEN 0 ELSE Times(s, p)
      BY <2>2, Removed
    <3>3. r = q  BY <3>1
    <3> HIDE DEF r, q
    <3> QED  BY <2>2, <2>4, <3>2, <3>3 DEF r
  <2> QED  BY <2>3, <2>4
<1> QED  BY <1>1, <1>2

(* monitorexit: the list and the nesting are ahead of the mutex.           *)
LEMMA RemoveLockStep ==
  ASSUME MonitorAssumption, MonitorInv, NEW t \in Thread, NEW o \in Obj, RemoveLock(t, o)
  PROVE  MonitorInv'
<1>1. MonitorTypeOK /\ PcShape /\ ListTypes /\ Mutexes /\ OwnerTypes /\ OwnerOK /\ ThreadOK(t)
  BY Types DEF MonitorInv
<1> DEFINE s == locks[t]  r == locks'[t]
<1>2. s \in Seq(Entries) /\ Distinct(s)  BY <1>1 DEF ListTypes, ThreadOK
<1>3. /\ pc[t].at = "run" /\ pc' = [pc EXCEPT ![t] = Pc("exit", o, None)] /\ depth[t][o] > 0
      /\ locks' = [locks EXCEPT ![t] = WithoutLock(s, o)]
      /\ depth' = [depth EXCEPT ![t][o] = @ - 1]
      /\ towner' = IF Times(s, o) = 1 THEN [towner EXCEPT ![o] = None] ELSE towner
      /\ UNCHANGED <<owner, count, queueVars, signalVars, stopVars>>
  BY DEF RemoveLock, At, Does, Inside
<1>4. /\ PcShape' /\ pc'[t].at = "exit" /\ pc'[t].o = o /\ \A u \in Thread \ {t} : pc'[u] = pc[u]
  BY <1>1, <1>3, Moves DEF Doing
<1>5. \A p \in Obj : Phase(t, p) = "run" /\ Phase(t, p)' = IF p = o THEN "exit" ELSE "run"
  BY <1>3, <1>4 DEF Phase, AtObject, Stopping
<1>6. \A u \in Thread, p \in Obj : Held(u, p)' = Held(u, p)  BY <1>3 DEF Held
<1>7. ASSUME NEW p \in Obj
      PROVE  /\ Times(s, p) \in Int /\ Held(t, p) \in Nat /\ depth[t][p] \in Nat
             /\ Times(s, p) # 0 => Listed("run", Times(s, p), depth[t][p], First(s, p))
             /\ ~Robbed(t) => Agrees("run", Times(s, p), Held(t, p), depth[t][p], Leaves(t))
  <2>1. pc[t].at \notin Stopping  BY <1>3 DEF Stopping
  <2> QED  BY <1>5, <2>1, Values
<1>8. Times(s, o) >= 0  BY <1>7 DEF Listed
<1>9. r = WithoutLock(s, o) /\ \A u \in Thread \ {t} : locks'[u] = locks[u]  BY <1>1, <1>3 DEF ListTypes
<1>10. /\ r \in Seq(Entries) /\ Distinct(r)
       /\ \A p : Times(r, p) = IF p # o THEN Times(s, p) ELSE IF Times(s, o) > 1 THEN Times(s, o) - 1 ELSE 0
  BY <1>2, <1>8, <1>9, Unlisting
<1>11. /\ \A p \in Obj : depth'[t][p] = IF p = o THEN depth[t][o] - 1 ELSE depth[t][p]
       /\ \A u \in Thread \ {t} : depth'[u] = depth[u]
       /\ depth' \in [Thread -> [Obj -> Nat]]
  <2>1. depth[t] \in [Obj -> Nat] /\ depth[t][o] - 1 \in Nat  BY <1>1, <1>3 DEF ListTypes
  <2> QED  BY <1>1, <1>3, <2>1 DEF ListTypes
<1>12. /\ \A p \in Obj \ {o} : towner'[p] = towner[p]
       /\ towner'[o] = IF Times(s, o) = 1 THEN None ELSE towner[o]
       /\ OwnerTypes'
  BY <1>1, <1>3 DEF OwnerTypes
<1>13. ListTypes' /\ Mutexes'  BY <1>1, <1>3, <1>9, <1>10, <1>11 DEF ListTypes, Mutexes
<1>14. stops' = stops  BY <1>3 DEF stopVars
<1> HIDE DEF s, r
<1>15. ASSUME NEW p \in Obj
       PROVE  /\ Times(r, p) # 0 => Listed(Phase(t, p)', Times(r, p), depth'[t][p], First(r, p))
              /\ ~Robbed(t) => Agrees(Phase(t, p)', Times(r, p), Held(t, p)', depth'[t][p], Leaves(t)')
  <2>1. CASE p = o  BY <1>3, <1>5, <1>6, <1>7, <1>10, <1>11, <2>1 DEF Listed, Agrees
  <2>2. CASE p # o  BY <1>5, <1>6, <1>7, <1>10, <1>11, <2>2 DEF Listed, Agrees
  <2> QED  BY <2>1, <2>2
<1>16. OthersKeep(t) => OwnerOK'
  <2>1. stops = 0 => ~Robbed(t)  BY NotRobbed DEF MonitorInv
  <2>2. stops = 0 => Times(s, o) = depth[t][o] /\ Held(t, o) = depth[t][o]  BY <1>7, <2>1 DEF Agrees
  <2>3. ASSUME stops = 0 PROVE Held(t, o)' > 0 /\ (depth'[t][o] > 0 => towner'[o] = t)
    <3>1. Held(t, o)' > 0  BY <1>3, <1>6, <2>2, <2>3
    <3>2. ASSUME depth'[t][o] > 0 PROVE towner'[o] = t
      <4>1. depth[t][o] # 1  BY <1>7, <1>11, <3>2
      <4>2. towner'[o] = towner[o]  BY <1>12, <2>2, <2>3, <4>1
      <4>3. Phase(t, o) # "restored"  BY <1>5
      <4> QED  BY <1>1, <1>3, <2>2, <2>3, <4>2, <4>3 DEF OwnerOK
    <3> QED  BY <3>1, <3>2
  <2> QED  BY <1>1, <1>5, <1>6, <1>11, <1>12, <1>13, <1>14, <2>3, OwnerChanges
<1>17. pc[t].at \notin Stopping /\ pc'[t].at \notin Stopping \cup {"unlink"}  BY <1>3, <1>4 DEF Stopping
<1>18. ListTypes' /\ Distinct(locks'[t]) /\ \A u \in Thread \ {t} : locks'[u] = locks[u]
  BY <1>9, <1>10, <1>13 DEF r
<1> QED  BY <1>3, <1>4, <1>6, <1>11, <1>12, <1>13, <1>15, <1>16, <1>17, <1>18, LockStep DEF r

(* The sign of the first lock tells whether it is released.                *)
LEMMA Negating ==
  ASSUME NEW s \in Seq(Entries), Distinct(s), s # << >>
  PROVE  /\ Negate(s) \in Seq(Entries) /\ Distinct(Negate(s))
         /\ \A p : /\ Times(Negate(s), p) = IF p = s[1].obj THEN -Times(s, p) ELSE Times(s, p)
                   /\ First(Negate(s), p) = First(s, p)
<1>1. 1 \in 1 .. Len(s) /\ s[1] \in Entries  BY FirstRemoved
<1>2. Times(s, s[1].obj) = s[1].n /\ s[1].n \in Int \ {0} /\ s[1].obj \in Obj  BY <1>1, TimesOf
<1>3. PICK n : n = -s[1].n  OBVIOUS
<1>4. n \in Int \ {0} /\ n = -Times(s, s[1].obj)  BY <1>2, <1>3
<1>5. PICK x : x = Lock(s[1].obj, n)  OBVIOUS
<1>6. x \in Entries /\ x.obj = s[1].obj  BY <1>2, <1>4, <1>5 DEF Lock, Entries
<1> DEFINE r == Negate(s)
<1>7. r = [s EXCEPT ![1] = x]  BY <1>3, <1>5 DEF Negate
<1>8. r \in Seq(Entries) /\ Len(r) = Len(s) /\ \A j \in 1 .. Len(s) : r[j] = IF j = 1 THEN x ELSE s[j]
  BY <1>1, <1>6, <1>7, ExceptSeq
<1> HIDE DEF r
<1>9. r[1] = Lock(s[1].obj, n) /\ \A j \in 1 .. Len(s) : j # 1 => r[j] = s[j]  BY <1>1, <1>5, <1>8
<1>10. Distinct(r) /\ \A p : Times(r, p) = IF p = s[1].obj THEN n ELSE Times(s, p)
  BY <1>1, <1>4, <1>8, <1>9, Changed
<1>11. r # << >> /\ r[1].obj = s[1].obj  BY <1>1, <1>5, <1>6, <1>8, <1>9
<1>12. \A p : First(r, p) = First(s, p)  BY <1>11 DEF First
<1> QED  BY <1>4, <1>8, <1>10, <1>12 DEF r

(* wait marks the lock it has released, and then the one it has restored.  *)
LEMMA MarkSteps ==
  ASSUME MonitorAssumption, MonitorInv, NEW t \in Thread, MarkReleased(t) \/ MarkRestored(t)
  PROVE  MonitorInv'
<1>1. MonitorTypeOK /\ PcShape /\ ListTypes /\ Mutexes /\ OwnerTypes /\ OwnerOK /\ ThreadOK(t) /\ ControlOK(t)
  BY Types DEF MonitorInv
<1> DEFINE s == locks[t]  r == locks'[t]
<1>2. s \in Seq(Entries) /\ Distinct(s)  BY <1>1 DEF ListTypes, ThreadOK
<1>3. /\ \/ pc[t].at = "mark" /\ Goto(t, "pause") /\ towner' = towner
         \/ pc[t].at = "restored" /\ Goto(t, "run") /\ towner' = [towner EXCEPT ![pc[t].o] = t]
      /\ Negated(t) /\ UNCHANGED <<owner, count, depth, queueVars, signalVars, stopVars>>
  BY DEF MarkReleased, MarkRestored, At
<1>4. PICK o \in Obj : o = pc[t].o  BY <1>1, <1>3 DEF ControlOK, AtObject
<1> DEFINE at == IF pc[t].at = "mark" THEN "pause" ELSE "run"
<1>5. PcShape' /\ pc'[t].at = at /\ pc'[t].o = o /\ \A u \in Thread \ {t} : pc'[u] = pc[u]
  <2>1. CASE pc[t].at = "mark"  BY <1>1, <1>3, <1>4, <2>1, Goes DEF Doing
  <2>2. CASE pc[t].at = "restored"  BY <1>1, <1>3, <1>4, <2>2, Goes DEF Doing
  <2> QED  BY <1>3, <2>1, <2>2
<1>6. \A u \in Thread, p \in Obj : Held(u, p)' = Held(u, p)  BY <1>3 DEF Held
<1>7. ASSUME NEW p \in Obj
      PROVE  /\ Times(s, p) \in Int /\ Held(t, p) \in Nat /\ depth[t][p] \in Nat
             /\ Times(s, p) # 0 => Listed(Phase(t, p), Times(s, p), depth[t][p], First(s, p))
             /\ ~Robbed(t) => Agrees(Phase(t, p), Times(s, p), Held(t, p), depth[t][p], Leaves(t))
  <2>1. pc[t].at \notin Stopping  BY <1>3 DEF Stopping
  <2> QED  BY <2>1, Values
<1>8. \A p \in Obj : /\ Phase(t, p) = IF p = o THEN pc[t].at ELSE "run"
                     /\ Phase(t, p)' = IF p = o THEN at ELSE "run"
  BY <1>3, <1>4, <1>5 DEF Phase, AtObject, Stopping
<1>9. /\ \A u \in Thread \ {t} : locks'[u] = locks[u]
      /\ \/ First(s, o) /\ r = Negate(s)
         \/ ~First(s, o) /\ r = s
  BY <1>1, <1>3, <1>4 DEF Negated, FirstLock, First, ListTypes
<1>10. /\ r \in Seq(Entries) /\ Distinct(r)
       /\ \A p : p # o => Times(r, p) = Times(s, p)
       /\ Times(r, o) = -Times(s, o) \/ (~First(s, o) /\ r = s)
  <2>1. CASE First(s, o) /\ r = Negate(s)  BY <1>2, <2>1, Negating DEF First
  <2>2. CASE ~First(s, o) /\ r = s  BY <1>2, <2>2
  <2> QED  BY <1>9, <2>1, <2>2
<1>11. ListTypes'
  <2>1. locks' = [locks EXCEPT ![t] = Negate(s)] \/ locks' = locks  BY <1>3 DEF Negated
  <2> QED  BY <1>1, <1>3, <1>9, <1>10, <2>1 DEF ListTypes
<1>12. Mutexes' /\ OwnerTypes' /\ stops' = stops /\ depth' = depth
  BY <1>1, <1>3, <1>4 DEF Mutexes, OwnerTypes, stopVars
<1> HIDE DEF s, r
<1>13. ~First(s, o) => Robbed(t) /\ Times(s, o) = 0  BY <1>3, <1>7, <1>8 DEF Listed, Agrees
<1>14. ASSUME NEW p \in Obj
       PROVE  /\ Times(r, p) # 0 => Listed(Phase(t, p)', Times(r, p), depth[t][p], First(r, p))
              /\ ~Robbed(t) => Agrees(Phase(t, p)', Times(r, p), Held(t, p), depth[t][p], Leaves(t)')
  <2>1. CASE p = o /\ First(s, o)  BY <1>3, <1>7, <1>8, <1>10, <2>1 DEF Listed, Agrees
  <2>2. CASE p = o /\ ~First(s, o)  BY <1>10, <1>13, <2>2
  <2>3. CASE p # o  BY <1>3, <1>7, <1>8, <1>10, <2>3 DEF Listed, Agrees
  <2> QED  BY <2>1, <2>2, <2>3
<1>15. OthersKeep(t) => OwnerOK'
  <2>1. CASE pc[t].at = "mark"
    <3>1. towner' = towner  BY <1>3, <2>1
    <3>2. ASSUME NEW p \in Obj, Phase(t, p)' # "restored", Held(t, p)' > 0, depth'[t][p] > 0
          PROVE  depth[t][p] > 0 /\ Held(t, p) > 0 /\ Phase(t, p) # "restored"
      BY <1>6, <1>8, <1>12, <2>1, <3>2
    <3> QED  BY <1>1, <1>12, <3>1, <3>2, OwnerKeeps
  <2>2. CASE pc[t].at = "restored"
    <3>1. \A p \in Obj : towner'[p] = IF p = o THEN t ELSE towner[p]  BY <1>1, <1>3, <1>4, <2>2 DEF OwnerTypes
    <3>2. stops = 0 => ~Robbed(t)  BY NotRobbed DEF MonitorInv
    <3>3. stops = 0 => Held(t, o) > 0  BY <1>7, <1>8, <2>2, <3>2 DEF Agrees
    <3>4. \A p \in Obj \ {o} : Phase(t, p) # "restored"  BY <1>8
    <3> QED  BY <1>1, <1>6, <1>12, <3>1, <3>3, <3>4, OwnerChanges
  <2> QED  BY <1>3, <2>1, <2>2
<1>16. pc[t].at \notin Stopping /\ pc'[t].at \notin Stopping \cup {"unlink"}  BY <1>3, <1>5 DEF Stopping
<1> QED  BY <1>3, <1>5, <1>6, <1>9, <1>10, <1>11, <1>12, <1>14, <1>15, <1>16, LockStep DEF r

---------------------------------------------------------------------------
(* Threads that end.                                                       *)

(* A thread that ends or is about to: what its handler will unlock.        *)
LEMMA Dies ==
  ASSUME MonitorAssumption, MonitorInv, NEW t \in Thread, PcShape', \A u \in Thread \ {t} : pc'[u] = pc[u],
         UNCHANGED lockVars, \A u \in Thread \ {t} : killedAt'[u] = killedAt[u],
         KillTypes', OtherTypes', SignalsOK', OwnerOK', StoppedKeep, ControlOK(t)',
         pc'[t].at \in Stopping,
         \A p \in Obj : ~Robbed(t) /\ Leaves(t)' =>
           Agrees(pc'[t].at, Times(locks[t], p), Held(t, p), depth[t][p], TRUE)
  PROVE  MonitorInv'
<1>1. MonitorTypeOK /\ ThreadOK(t)  BY DEF MonitorInv
<1>2. locks' = locks /\ depth' = depth /\ owner' = owner /\ count' = count /\ towner' = towner  BY DEF lockVars
<1>3. ListTypes' /\ Mutexes' /\ OwnerTypes'  BY <1>1, <1>2, Types DEF ListTypes, Mutexes, OwnerTypes
<1>4. \A u \in Thread, p \in Obj : Held(u, p)' = Held(u, p)  BY <1>2 DEF Held
<1>5. OthersKeep(t)  BY <1>2, <1>4 DEF OthersKeep
<1>6. Robbed(t) => Robbed(t)'  BY OthersStay
<1>7. ASSUME NEW p \in Obj PROVE ObjectOK(t, p)'
  <2>1. Phase(t, p)' = pc'[t].at  BY DEF Phase
  <2>2. ~Robbed(t) => Agrees(pc'[t].at, Times(locks[t], p), Held(t, p), depth[t][p], Leaves(t)')
    BY DEF Agrees, Stopping
  <2> QED  BY <1>2, <1>4, <1>6, <2>1, <2>2 DEF ObjectOK
<1>8. ThreadOK(t)'  BY <1>1, <1>2, <1>7 DEF ThreadOK
<1> QED  BY <1>3, <1>5, <1>8, Step

(* The signal of stop: the handler will find what the thread holds in the  *)
(* list, unless it came in the middle of a monitorexit or of a wait.       *)
LEMMA HandleKillStep ==
  ASSUME MonitorAssumption, MonitorInv, NEW t \in Thread, HandleKill(t)
  PROVE  MonitorInv'
<1>1. PcShape /\ OtherTypes /\ SignalsOK /\ ControlOK(t) /\ KillTypes  BY Types DEF MonitorInv
<1>2. /\ pc[t].at \notin Stopping /\ "kill" \in pending[t]
      /\ pc' = [pc EXCEPT ![t] = Pc("kill", None, Gthread)]
      /\ killedAt' = [killedAt EXCEPT ![t] = pc[t].at]
      /\ pending' = [pending EXCEPT ![t] = @ \ {"kill"}] /\ stopped' = stopped \ {t}
      /\ UNCHANGED <<lockVars, next, free, Gthread, stops>>
  BY DEF HandleKill, Delivered, Alive, Stopping, queueVars
<1>3. Gthread \in Thread /\ stops > 0  BY <1>1, <1>2 DEF SignalsOK
<1>4. /\ PcShape' /\ pc'[t].at = "kill" /\ pc'[t].place = Gthread
      /\ \A u \in Thread \ {t} : pc'[u] = pc[u]
  <2>1. PICK x : x = Pc("kill", None, Gthread)  OBVIOUS
  <2>2. x.at = "kill" /\ x.o = None /\ x.place = Gthread  BY <2>1 DEF Pc
  <2>3. x = Pc(x.at, x.o, x.place) /\ pc' = [pc EXCEPT ![t] = x]  BY <1>2, <2>1, <2>2
  <2>4. PcShape /\ x.at \in Doing /\ x.o \in Obj \cup {None}  BY <1>1, <2>2 DEF Doing
  <2>5. PcShape' /\ pc'[t] = x /\ \A u \in Thread \ {t} : pc'[u] = pc[u]  BY <2>3, <2>4, Arrives
  <2> QED  BY <2>2, <2>5
<1>5. pc[t].at \in Doing /\ pc[t].at # None  BY <1>1 DEF PcShape, MonitorAssumption
<1>6. /\ KillTypes' /\ killedAt'[t] = pc[t].at
      /\ \A u \in Thread \ {t} : killedAt'[u] = killedAt[u]
  BY <1>1, <1>2, <1>5 DEF KillTypes
<1>7. killedAt[t] = None  BY <1>1, <1>2 DEF ControlOK
<1>8. StoppedKeep
  <2> SUFFICES ASSUME NEW u \in Thread, killedAt[u] # None PROVE killedAt'[u] # None /\ pc'[u].place = pc[u].place
    BY DEF StoppedKeep
  <2>1. u # t  BY <1>7
  <2> QED  BY <1>4, <1>6, <2>1
<1>9. OtherTypes'  BY <1>1, <1>2 DEF OtherTypes
<1>10. SignalsOK' /\ OwnerOK'  BY <1>2, <1>3 DEF SignalsOK, OwnerOK
<1>11. ControlOK(t)'  BY <1>2, <1>3, <1>4, <1>5, <1>6 DEF ControlOK, AtObject, Stopping
<1>12. ASSUME NEW p \in Obj, ~Robbed(t), Leaves(t)'
       PROVE  Agrees("kill", Times(locks[t], p), Held(t, p), depth[t][p], TRUE)
  <2> DEFINE n == Times(locks[t], p)  held == Held(t, p)  in == depth[t][p]
  <2>1. n \in Int /\ held \in Nat /\ in \in Nat /\ Agrees(Phase(t, p), n, held, in, Leaves(t))
    BY <1>2, <1>12, Values
  <2>2. pc[t].at \notin {"exit", "restored"}  BY <1>6, <1>12 DEF Leaves
  <2>3. Phase(t, p) \in (AtObject \cup {"run"}) \ {"exit", "restored"}  BY <1>2, <2>2 DEF Phase
  <2> HIDE DEF n, held, in
  <2>4. Agrees("kill", n, held, in, TRUE)  BY <2>1, <2>3 DEF Agrees, AtObject
  <2> QED  BY <2>4 DEF n, held, in
<1>13. pc'[t].at \in Stopping  BY <1>4 DEF Stopping
<1> QED  BY <1>2, <1>4, <1>6, <1>8, <1>9, <1>10, <1>11, <1>12, <1>13, Dies

(* run() returns outside of all monitors.                                  *)
LEMMA EndsStep ==
  ASSUME MonitorAssumption, MonitorInv, NEW t \in Thread, Ends(t)
  PROVE  MonitorInv'
<1>1. PcShape /\ OtherTypes /\ SignalsOK /\ ControlOK(t) /\ KillTypes /\ OwnerOK  BY Types DEF MonitorInv
<1>2. /\ pc[t].at = "run" /\ Goto(t, "dead") /\ \A p \in Obj : ~(depth[t][p] > 0)
      /\ UNCHANGED <<lockVars, killedAt, next, free, pending, stopped, Gthread, stops>>
  BY DEF Ends, Does, At, Inside, queueVars, signalVars
<1>3. PcShape' /\ pc'[t].at = "dead" /\ \A u \in Thread \ {t} : pc'[u] = pc[u]
  BY <1>1, <1>2, Goes DEF Doing
<1>4. killedAt[t] = None  BY <1>1, <1>2 DEF ControlOK, Stopping
<1>5. StoppedKeep
  <2> SUFFICES ASSUME NEW u \in Thread, killedAt[u] # None PROVE killedAt'[u] # None /\ pc'[u].place = pc[u].place
    BY DEF StoppedKeep
  <2>1. u # t  BY <1>4
  <2> QED  BY <1>2, <1>3, <2>1
<1>6. KillTypes' /\ OtherTypes' /\ SignalsOK'  BY <1>1, <1>2, SignalsKeep DEF KillTypes, OtherTypes
<1>7. ControlOK(t)'  BY <1>2, <1>3, <1>4 DEF ControlOK, AtObject
<1>8. \A u \in Thread, p \in Obj : Held(u, p)' = Held(u, p)  BY <1>2 DEF Held, lockVars
<1>9. OwnerOK'
  <2>1. OthersKeep(t)  BY <1>2, <1>3, <1>8 DEF OthersKeep, lockVars
  <2>2. towner' = towner /\ depth' = depth  BY <1>2 DEF lockVars
  <2> QED  BY <1>1, <1>2, <2>1, <2>2, OwnerKeeps
<1>10. ASSUME NEW p \in Obj, ~Robbed(t), Leaves(t)'
       PROVE  Agrees("dead", Times(locks[t], p), Held(t, p), depth[t][p], TRUE)
  <2>1. Held(t, p) \in Nat /\ depth[t][p] \in Nat /\ Agrees(Phase(t, p), Times(locks[t], p), Held(t, p), depth[t][p], Leaves(t))
    BY <1>2, <1>10, Values DEF Stopping
  <2>2. Phase(t, p) = "run"  BY <1>2 DEF Phase, AtObject, Stopping
  <2> QED  BY <1>2, <2>1, <2>2 DEF Agrees
<1>11. pc'[t].at \in Stopping  BY <1>3 DEF Stopping
<1> QED  BY <1>2, <1>3, <1>5, <1>6, <1>7, <1>9, <1>10, <1>11, Dies

(* A lock that the handler takes from the list of a thread: its own, or    *)
(* that of a thread that is robbed.                                        *)
LEMMA TakeStep ==
  ASSUME MonitorAssumption, MonitorInv, NEW t \in Thread, NEW u \in Thread,
         pc[t].at = "kill", u = pc[t].place, locks[u] # << >>, KillStep(t),
         locks' = [locks EXCEPT ![u] = Tail(@)]
  PROVE  MonitorInv'
<1>1. /\ MonitorTypeOK /\ PcShape /\ ListTypes /\ Mutexes /\ OwnerTypes /\ KillTypes /\ OtherTypes /\ SignalsOK
      /\ ControlOK(t) /\ ThreadOK(u)
  BY Types DEF MonitorInv
<1> DEFINE s == locks[u]  r == locks'[u]
<1>2. s \in Seq(Entries) /\ Distinct(s) /\ s # << >>  BY <1>1 DEF ListTypes, ThreadOK
<1>3. PICK l : l = s[1]  OBVIOUS
<1>4. l \in Entries /\ Times(s, l.obj) = l.n  BY <1>2, <1>3, FirstRemoved, TimesOf
<1>5. l.obj \in Obj /\ l.n \in Int \ {0}  BY <1>4 DEF Entries
<1>6. r = Tail(s) /\ (\A v \in Thread \ {u} : locks'[v] = locks[v]) /\ locks' \in [Thread -> Seq(Entries)]
  BY <1>1, <1>2, FirstRemoved DEF ListTypes
<1>7. Distinct(r) /\ \A p : Times(r, p) = IF p = l.obj THEN 0 ELSE Times(s, p)
  BY <1>2, <1>3, <1>6, FirstRemoved
<1>8. locks' # locks
  <2>1. Times(s, l.obj) # 0 /\ Times(r, l.obj) = 0  BY <1>4, <1>5, <1>7
  <2> QED  BY <2>1
<1> DEFINE m == IF l.n < 0 THEN -l.n - 1 ELSE l.n
<1>9. /\ Unlock(t, l.obj, m) /\ towner' = [towner EXCEPT ![l.obj] = None]
      /\ UNCHANGED <<pc, depth, queueVars, signalVars, stopVars>>
  BY <1>3, <1>8 DEF KillStep, lockVars
<1>10. m \in Nat  BY <1>5
<1>11. /\ pc' = pc /\ depth' = depth /\ killedAt' = killedAt /\ next' = next /\ free' = free
       /\ pending' = pending /\ stopped' = stopped /\ Gthread' = Gthread /\ stops' = stops
  BY <1>9 DEF queueVars, signalVars, stopVars
<1> HIDE DEF s, r, m
<1>12. /\ Mutexes' /\ \A v \in Thread \ {t}, p \in Obj : Held(v, p)' = Held(v, p)
       /\ \A p \in Obj : Held(t, p)' =
            IF p # l.obj THEN Held(t, p) ELSE IF m < Held(t, p) THEN Held(t, p) - m ELSE 0
  BY <1>1, <1>5, <1>9, <1>10, Unlocks
<1>13. MonitorTypeOK'
  <2>1. PcShape'  BY <1>1, <1>11 DEF PcShape
  <2>2. ListTypes' /\ KillTypes' /\ OtherTypes'
    BY <1>1, <1>6, <1>11 DEF ListTypes, KillTypes, OtherTypes
  <2>3. OwnerTypes'  BY <1>1, <1>5, <1>9 DEF OwnerTypes
  <2> QED  BY <1>12, <2>1, <2>2, <2>3, Types
<1>14. killedAt[t] # None /\ stops > 0  BY <1>1 DEF ControlOK, SignalsOK
<1>15. SignalsOK' /\ OwnerOK'  BY <1>1, <1>11, <1>14 DEF SignalsOK, OwnerOK
<1>16. ASSUME NEW v \in Thread PROVE ControlOK(v)' /\ ThreadOK(v)'
  <2>1. ControlOK(v) /\ ThreadOK(v)  BY DEF MonitorInv
  <2>2. ControlOK(v)'  BY <1>11, <2>1 DEF ControlOK
  <2>3. Robbed(v)' = Robbed(v) /\ Leaves(v)' = Leaves(v)  BY <1>11 DEF Robbed, Leaves, Misled
  <2>4. \A p \in Obj : Phase(v, p)' = Phase(v, p)  BY <1>11 DEF Phase
  <2>5. Distinct(locks[v])'  BY <1>6, <1>7, <2>1 DEF ThreadOK, r
  <2>6. ASSUME NEW p \in Obj PROVE ObjectOK(v, p)'
    <3>1. ObjectOK(v, p)  BY <2>1 DEF ThreadOK
    <3>2. Times(locks[v], p) \in Int /\ Held(v, p) \in Nat /\ depth[v][p] \in Nat  BY <1>1, Numbers
    <3>3. Times(locks'[v], p) = IF v = u /\ p = l.obj THEN 0 ELSE Times(locks[v], p)
      BY <1>6, <1>7 DEF s, r
    <3>4. v # u => First(locks'[v], p) = First(locks[v], p)  BY <1>6
    <3>5. v = u /\ p # l.obj => ~First(locks[v], p)  BY <1>3 DEF First, s
    <3>6. Phase(v, p) \notin Stopping /\ Times(locks'[v], p) # 0 =>
            Listed(Phase(v, p), Times(locks'[v], p), depth[v][p], First(locks'[v], p))
      BY <3>1, <3>2, <3>3, <3>4, <3>5 DEF ObjectOK, Listed
    <3>7. ~Robbed(v) => Agrees(Phase(v, p), Times(locks'[v], p), Held(v, p)', depth[v][p], Leaves(v))
      <4>1. CASE v # t
        <5>1. v = u => Robbed(v)  BY <1>14, <4>1 DEF Robbed
        <5>2. Held(v, p)' = Held(v, p)  BY <1>12, <4>1
        <5> QED  BY <3>1, <3>3, <5>1, <5>2 DEF ObjectOK
      <4>2. CASE v = t
        <5>1. Phase(v, p) = "kill"  BY <4>2 DEF Phase, Stopping
        <5>2. CASE u # t
          <6>1. ~Leaves(v)  BY <1>14, <4>2, <5>2 DEF Leaves, Misled
          <6> QED  BY <5>1, <6>1 DEF Agrees
        <5>3. CASE u = t
          <6>1. CASE p # l.obj  BY <1>12, <3>1, <3>3, <4>2, <6>1 DEF ObjectOK
          <6>2. CASE p = l.obj
            <7>1. Times(locks[v], p) = l.n  BY <1>4, <4>2, <5>3, <6>2 DEF s
            <7>2. ~Robbed(v) /\ Leaves(v) => Held(v, p) <= m
              BY <3>1, <5>1, <7>1 DEF ObjectOK, Agrees, m
            <7>3. ~Robbed(v) /\ Leaves(v) => Held(v, p)' = 0
              BY <1>10, <1>12, <3>2, <4>2, <6>2, <7>2
            <7>4. Times(locks'[v], p) = 0  BY <3>3, <4>2, <5>3, <6>2
            <7> QED  BY <5>1, <7>3, <7>4 DEF Agrees
          <6> QED  BY <6>1, <6>2
        <5> QED  BY <5>2, <5>3
      <4> QED  BY <4>1, <4>2
    <3> QED  BY <1>11, <2>3, <2>4, <3>6, <3>7 DEF ObjectOK
  <2> QED  BY <2>2, <2>5, <2>6 DEF ThreadOK
<1> QED  BY <1>13, <1>15, <1>16 DEF MonitorInv

---------------------------------------------------------------------------
(* The invariant.                                                          *)

(* The machine starts with one thread that holds nothing.                  *)
LEMMA MonitorInvInit ==
  ASSUME MonitorAssumption, MonitorInit
  PROVE  MonitorInv
<1>1. \A t \in Thread : pc[t] = Pc(IF t = Main THEN "run" ELSE "new", None, None)  BY DEF MonitorInit
<1>2. ASSUME NEW t \in Thread
      PROVE  /\ pc[t].at \in {"run", "new"} /\ pc[t].o = None /\ pc[t].place = None
             /\ Pc(pc[t].at, pc[t].o, pc[t].place) = pc[t]
  <2>1. PICK at \in {"run", "new"} : at = IF t = Main THEN "run" ELSE "new"  OBVIOUS
  <2>2. pc[t] = Pc(at, None, None)  BY <1>1, <2>1
  <2>3. pc[t].at = at /\ pc[t].o = None /\ pc[t].place = None  BY <2>2 DEF Pc
  <2> QED  BY <2>2, <2>3
<1>3. PcShape
  <2>1. pc = [t \in Thread |-> pc[t]]  BY DEF MonitorInit
  <2>2. pc = [t \in Thread |-> Pc(pc[t].at, pc[t].o, pc[t].place)]  BY <1>2, <2>1
  <2> QED  BY <1>2, <2>2 DEF PcShape, Doing
<1>4. ListTypes /\ Mutexes /\ OwnerTypes /\ KillTypes  BY DEF MonitorInit, ListTypes, Mutexes, OwnerTypes, KillTypes
<1>5. OtherTypes
  <2>1. 0 \in 0 .. MaxStops  BY DEF MonitorAssumption
  <2> QED  BY <2>1 DEF MonitorInit, OtherTypes
<1>6. \A t \in Thread : killedAt[t] = None /\ locks[t] = << >> /\ pending[t] = {}  BY DEF MonitorInit
<1>7. \A t \in Thread, p \in Obj : depth[t][p] = 0 /\ Held(t, p) = 0  BY DEF MonitorInit, Held
<1>8. SignalsOK /\ OwnerOK  BY <1>6, <1>7 DEF SignalsOK, OwnerOK
<1>9. ASSUME NEW t \in Thread PROVE ControlOK(t) /\ ThreadOK(t)
  <2>1. ControlOK(t)  BY <1>2, <1>6 DEF ControlOK, AtObject
  <2>2. Distinct(locks[t])  BY <1>6 DEF Distinct
  <2>3. ASSUME NEW p \in Obj PROVE ObjectOK(t, p)
    <3>1. Times(locks[t], p) = 0
      <4>1. locks[t] \in Seq(Entries) /\ Len(locks[t]) = 0  BY <1>4, <1>6 DEF ListTypes
      <4> QED  BY <4>1, Finds
    <3>2. Phase(t, p) = "run"  BY <1>2 DEF Phase, AtObject, Stopping
    <3> QED  BY <1>7, <3>1, <3>2 DEF ObjectOK, Agrees
  <2> QED  BY <2>1, <2>2, <2>3 DEF ThreadOK
<1> QED  BY <1>3, <1>4, <1>5, <1>8, <1>9, Types DEF MonitorInv

(* A step of the handler on the list that it was told of.                  *)
LEMMA KillStepKeeps ==
  ASSUME MonitorAssumption, MonitorInv, NEW t \in Thread, KillStep(t)
  PROVE  MonitorInv'
<1>1. PcShape /\ OtherTypes /\ SignalsOK /\ ControlOK(t) /\ KillTypes /\ OwnerOK  BY Types DEF MonitorInv
<1>2. /\ pc[t].at = "kill"
      /\ UNCHANGED <<killedAt, next, free, pending, stopped, Gthread, stops>>
  BY DEF KillStep, At, queueVars, signalVars, stopVars
<1>3. PICK u \in Thread : u = pc[t].place  BY <1>1, <1>2 DEF ControlOK
<1>4. killedAt[t] # None /\ stops > 0  BY <1>1, <1>2 DEF ControlOK, SignalsOK
<1>5. OtherTypes' /\ SignalsOK' /\ KillTypes'  BY <1>1, <1>2, SignalsKeep DEF OtherTypes, KillTypes
<1>6. CASE UNCHANGED <<pc, lockVars>>
  <2>1. PcShape'  BY <1>1, <1>6 DEF PcShape
  <2> QED  BY <1>2, <1>5, <1>6, <2>1, Quiet
<1>7. CASE locks[u] = << >> /\ Goto(t, "dead") /\ UNCHANGED lockVars
  <2>1. /\ PcShape' /\ pc'[t].at = "dead" /\ pc'[t].place = pc[t].place
        /\ \A v \in Thread \ {t} : pc'[v] = pc[v]
    BY <1>1, <1>7, Goes DEF Doing
  <2>2. StoppedKeep  BY <1>2, <2>1 DEF StoppedKeep
  <2>3. OwnerOK'  BY <1>2, <1>4 DEF OwnerOK
  <2>4. ControlOK(t)'  BY <1>2, <2>1 DEF ControlOK, AtObject, Stopping
  <2>5. ASSUME NEW p \in Obj, ~Robbed(t), Leaves(t)'
        PROVE  Agrees("dead", Times(locks[t], p), Held(t, p), depth[t][p], TRUE)
    <3>1. u = t  BY <1>2, <1>3, <1>4, <2>1, <2>5 DEF Leaves, Misled
    <3>2. MonitorTypeOK /\ locks[t] \in Seq(Entries) /\ Len(locks[t]) = 0
      BY <1>7, <3>1, Types DEF MonitorInv, ListTypes
    <3>3. Times(locks[t], p) = 0  BY <3>2, Finds
    <3>4. Held(t, p) \in Nat  BY <3>2, Numbers
    <3>5. Phase(t, p) = "kill" /\ Leaves(t)  BY <1>2, <2>1, <2>5 DEF Phase, Leaves, Misled, Stopping
    <3>6. ObjectOK(t, p)  BY DEF MonitorInv, ThreadOK
    <3> QED  BY <2>5, <3>3, <3>4, <3>5, <3>6 DEF ObjectOK, Agrees
  <2>6. pc'[t].at \in Stopping  BY <2>1 DEF Stopping
  <2> QED  BY <1>2, <1>5, <1>7, <2>1, <2>2, <2>3, <2>4, <2>5, <2>6, Dies
<1>8. CASE locks[u] # << >> /\ locks' = [locks EXCEPT ![u] = Tail(@)]
  BY <1>2, <1>3, <1>8, TakeStep
<1> QED  BY <1>3, <1>6, <1>7, <1>8 DEF KillStep

(* Every step keeps the invariant.                                         *)
LEMMA MonitorInvNext ==
  ASSUME MonitorAssumption, MonitorInv, [MonitorNext]_monitorVars
  PROVE  MonitorInv'
<1>1. CASE UNCHANGED monitorVars
  <2>1. PcShape /\ OtherTypes /\ SignalsOK  BY Types DEF MonitorInv
  <2>2. UNCHANGED <<pc, lockVars, killedAt, next, free, pending, stopped, Gthread, stops>>
    BY <1>1 DEF monitorVars, queueVars, signalVars, stopVars
  <2>3. PcShape'  BY <2>1, <2>2 DEF PcShape
  <2>4. OtherTypes'  BY <2>1, <2>2 DEF OtherTypes
  <2>5. SignalsOK'  BY <2>1, <2>2, SignalsKeep
  <2>6. ASSUME NEW t \in Thread PROVE MonitorInv'  BY <2>2, <2>3, <2>4, <2>5, Quiet
  <2>7. Main \in Thread  BY DEF MonitorAssumption
  <2> QED  BY <2>6, <2>7
<1>2. ASSUME NEW t \in Thread, Continue(t) PROVE MonitorInv'
  <2>1. CASE MutexLock(t) \/ MutexUnlock(t)  BY <2>1, MutexSteps
  <2>2. CASE SetOwner(t)  BY <2>2, SetOwnerStep
  <2>3. CASE AppendNode(t) \/ FindNode(t) \/ Unlink(t)  BY <2>3, WaitSteps
  <2>4. CASE Release(t)
    <3>1. CASE NoLocks(t)  BY <2>4, <3>1, WaitSteps DEF Release, At
    <3>2. CASE ~NoLocks(t)  BY <2>4, <3>2, MutexSteps DEF Release
    <3> QED  BY <3>1, <3>2
  <2>5. CASE Restore(t)
    <3>1. CASE NoLocks(t)  BY <2>5, <3>1, WaitSteps DEF Restore, At
    <3>2. CASE ~NoLocks(t)  BY <2>5, <3>2, MutexSteps DEF Restore
    <3> QED  BY <3>1, <3>2
  <2>6. CASE MarkReleased(t) \/ MarkRestored(t)  BY <2>6, MarkSteps
  <2>7. CASE NotifyNode(t) \/ Advance(t) \/ Exec(t) \/ FreeThread(t)  BY <2>7, QuietSteps
  <2> QED  BY <1>2, <2>1, <2>2, <2>3, <2>4, <2>5, <2>6, <2>7 DEF Continue
<1>3. ASSUME NEW t \in Thread, Handler(t) PROVE MonitorInv'
  <2>1. CASE HandleStop(t) \/ HandleCont(t)  BY <2>1, WaitSteps
  <2>2. CASE HandleKill(t)  BY <2>2, HandleKillStep
  <2>3. CASE KillStep(t)  BY <2>3, KillStepKeeps
  <2> QED  BY <1>3, <2>1, <2>2, <2>3 DEF Handler
<1>4. ASSUME NEW t \in Thread, JavaCode(t) PROVE MonitorInv'
  <2>1. ASSUME NEW o \in Obj, AddLock(t, o) \/ RemoveLock(t, o) \/ Wait(t, o) \/ Notify(t, o) PROVE MonitorInv'
    <3>1. CASE AddLock(t, o)  BY <3>1, AddLockStep
    <3>2. CASE RemoveLock(t, o)  BY <3>2, RemoveLockStep
    <3>3. CASE Wait(t, o)  BY <3>3, WaitSteps
    <3>4. CASE Notify(t, o)  BY <3>4, QuietSteps
    <3> QED  BY <2>1, <3>1, <3>2, <3>3, <3>4
  <2>2. ASSUME NEW u \in Thread, Start(t, u) \/ Suspend(t, u) \/ Resume(t, u) \/ Stop(t, u) PROVE MonitorInv'
    <3>1. CASE Start(t, u)  BY <3>1, StartStep
    <3>2. CASE Suspend(t, u) \/ Resume(t, u) \/ Stop(t, u)  BY <3>2, QuietSteps
    <3> QED  BY <2>2, <3>1, <3>2
  <2>3. CASE Ends(t)  BY <2>3, EndsStep
  <2> QED  BY <1>4, <2>1, <2>2, <2>3 DEF JavaCode
<1>5. ASSUME NEW t \in Thread, UseFreed(t) PROVE MonitorInv'  BY <1>5, QuietSteps
<1> QED  BY <1>1, <1>2, <1>3, <1>4, <1>5 DEF MonitorNext

(* The list, the mutex and the nesting of every thread agree as the phase  *)
(* of its call of monitorenter, monitorexit or wait says.                  *)
THEOREM MonitorInvariant == MonitorSpec => []MonitorInv
<1>1. MonitorInit => MonitorInv  BY MonitorAssumption, MonitorInvInit
<1>2. MonitorInv /\ [MonitorNext]_monitorVars => MonitorInv'  BY MonitorAssumption, MonitorInvNext
<1> QED  BY <1>1, <1>2, PTL DEF MonitorSpec

(* The machine's state keeps its types: a lock of a list is held once or   *)
(* more or is marked as released, and a mutex counts if somebody owns it.  *)
THEOREM MonitorTypes == MonitorSpec => []MonitorTypeOK
<1>1. MonitorInv => MonitorTypeOK  BY DEF MonitorInv
<1> QED  BY <1>1, MonitorInvariant, PTL

(* Between its calls of monitorenter, monitorexit and wait a thread holds  *)
(* what its Java code is in the monitor of, as often.                      *)
THEOREM MonitorsHeld == MonitorSpec => []HoldsWhatItEntered
<1>1. MonitorInv => HoldsWhatItEntered
  <2> SUFFICES ASSUME MonitorInv, NEW t \in Thread, pc[t].at = "run", ~Robbed(t), NEW o \in Obj
               PROVE  depth[t][o] = Times(locks[t], o) /\ depth[t][o] = Held(t, o)
    BY DEF HoldsWhatItEntered
  <2>1. ObjectOK(t, o)  BY DEF MonitorInv, ThreadOK
  <2>2. Phase(t, o) = "run"  BY DEF Phase, AtObject, Stopping
  <2> QED  BY <2>1, <2>2 DEF ObjectOK, Agrees
<1> QED  BY <1>1, MonitorInvariant, PTL

(* While nobody has been stopped, wait finds the thread that calls it as   *)
(* the owner of the object.                                                *)
THEOREM WaitFindsOwner == MonitorSpec => []OwnerKnown
<1>1. MonitorInv => OwnerKnown
  <2> SUFFICES ASSUME MonitorInv, stops = 0, NEW t \in Thread, NEW o \in Obj, pc[t].at = "run", depth[t][o] > 0
               PROVE  towner[o] = t
    BY DEF OwnerKnown, Inside
  <2>1. ObjectOK(t, o) /\ ~Robbed(t) /\ OwnerOK  BY NotRobbed DEF MonitorInv, ThreadOK
  <2>2. Phase(t, o) = "run"  BY DEF Phase, AtObject, Stopping
  <2>3. Held(t, o) > 0  BY <2>1, <2>2 DEF ObjectOK, Agrees
  <2> QED  BY <2>1, <2>2, <2>3 DEF OwnerOK
<1> QED  BY <1>1, MonitorInvariant, PTL

(* The loop over the locks of a wait ends, unless the thread is in the     *)
(* monitor of another object too.                                          *)
THEOREM HangsAreNested == MonitorSpec => []OnlyNestedWaitsHang
<1>1. MonitorAssumption /\ MonitorInv => OnlyNestedWaitsHang
  <2> SUFFICES ASSUME MonitorAssumption, MonitorInv, NEW t \in Thread,
                      pc[t].at \in {"release", "restore"}, Hangs(t)
               PROVE  \E o \in Obj \ {pc[t].o} : Inside(t, o)
    BY DEF OnlyNestedWaitsHang
  <2>1. locks[t] \in Seq(Entries) /\ Distinct(locks[t]) /\ locks[t] # << >>
    BY Types DEF MonitorInv, ListTypes, ThreadOK, Hangs
  <2>2. PICK p : p = locks[t][1].obj  OBVIOUS
  <2>3. p \in Obj /\ Times(locks[t], p) \in Int \ {0} /\ p # pc[t].o
    BY <2>1, <2>2, FirstRemoved, TimesOf DEF Hangs
  <2>4. Phase(t, p) = "run"  BY <2>3 DEF Phase, AtObject, Stopping
  <2>5. Listed("run", Times(locks[t], p), depth[t][p], First(locks[t], p)) /\ depth[t][p] \in Nat
    BY <2>3, <2>4, Values DEF Stopping
  <2>6. depth[t][p] > 0  BY <2>3, <2>5 DEF Listed
  <2> QED  BY <2>3, <2>6 DEF Inside
<1> QED  BY <1>1, MonitorAssumption, MonitorInvariant, PTL

(* Its signal handler leaves no monitor locked behind a stopped thread,    *)
(* unless the signal came in the middle of a monitorexit or at the end of  *)
(* a wait, or another stop came before the handler had run.                *)
THEOREM StopUnlocks == MonitorSpec => []StoppedLeaves
<1>1. MonitorAssumption /\ MonitorInv => StoppedLeaves
  <2> SUFFICES ASSUME MonitorAssumption, MonitorInv, NEW t \in Thread, NEW o \in Obj, pc[t].at = "dead",
                      owner[o] = t, Leaves(t), ~Robbed(t)
               PROVE  FALSE
    BY DEF StoppedLeaves, Leaves
  <2>1. ObjectOK(t, o) /\ Mutexes  BY Types DEF MonitorInv, ThreadOK
  <2>2. Phase(t, o) = "dead"  BY DEF Phase, Stopping
  <2>3. Held(t, o) = 0  BY <2>1, <2>2 DEF ObjectOK, Agrees
  <2>4. count[o] = 0  BY <2>3 DEF Held
  <2> QED  BY <2>1, <2>4 DEF Mutexes, MonitorAssumption
<1> QED  BY <1>1, MonitorAssumption, MonitorInvariant, PTL

---------------------------------------------------------------------------
(* The wait queues. *)

\* The nodes of the queue of o, linked to each other.
Chain(q, o) ==
  /\ q \in Seq(Obj \cup Node) /\ q # << >> /\ q[1] = o
  /\ \A i \in 2 .. Len(q) : q[i] \in Node \ free /\ next[q[i - 1]] = q[i]
  /\ next[q[Len(q)]] = None
\* No two places of the queues are the same.
Apart(Q) == \A o, p \in Obj : \A i \in DOMAIN Q[o], j \in DOMAIN Q[p] : Q[o][i] = Q[p][j] => o = p /\ i = j

Waiting(t, q) == \E i \in 2 .. Len(q) : th[q[i]] = t
\* Between looking for a place in the queue of an object and changing it there.
Working(t, o) == pc[t].o = o /\ pc[t].at \in {"append", "unlink"}
Placed(t, q) ==
  /\ pc[t].at = "append" => pc[t].place = q[Len(q)]
  /\ pc[t].at = "unlink" => \E i \in 2 .. Len(q) : pc[t].place = <<q[i - 1], q[i]>> /\ th[q[i]] = t
  /\ pc[t].at \in {"release", "mark", "pause"} => Waiting(t, q)

Queues(Q) ==
  /\ Q \in [Obj -> Seq(Obj \cup Node)]
  /\ \A o \in Obj : Chain(Q[o], o)
  /\ Apart(Q)
  /\ \A t \in Thread, o \in Obj : pc[t].o = o => Placed(t, Q[o])
  /\ \A t, u \in Thread, o \in Obj : Working(t, o) /\ Working(u, o) => t = u

(* A chain has no more nodes than there are.                               *)
LEMMA ChainFits ==
  ASSUME MonitorAssumption, NEW o \in Obj, NEW q, Chain(q, o), \A i, j \in DOMAIN q : q[i] = q[j] => i = j
  PROVE  Cardinality(Node) \in Nat /\ Len(q) <= Cardinality(Node) + 1
<1>1. IsFiniteSet(Node) /\ Cardinality(Node) \in Nat  BY FS_CardinalityType DEF MonitorAssumption
<1>2. PICK n \in Nat : n = Len(q) /\ n > 0  BY DEF Chain
<1>3. DOMAIN q = 1 .. n  BY <1>2 DEF Chain
<1>4. PICK m \in Nat : m = n - 1
  <2>1. n - 1 \in Nat  BY <1>2
  <2> QED  BY <2>1
<1> DEFINE f == [i \in 1 .. m |-> q[i + 1]]
<1>5. \A i \in 1 .. m : i + 1 \in 2 .. n /\ i + 1 \in 1 .. n  BY ONLY <1>4, n \in Nat
<1>6. \A i \in 1 .. m : f[i] \in Node  BY <1>2, <1>5 DEF Chain
<1>7. \A i, j \in 1 .. m : f[i] = f[j] => i = j
  <2> SUFFICES ASSUME NEW i \in 1 .. m, NEW j \in 1 .. m, f[i] = f[j] PROVE i = j  OBVIOUS
  <2>1. i + 1 = j + 1  BY <1>3, <1>5
  <2> QED  BY <2>1
<1>8. f \in Injection(1 .. m, Node)  BY <1>6, <1>7 DEF Injection, IsInjective
<1>9. Cardinality(1 .. m) <= Cardinality(Node)  BY <1>1, <1>8, FS_Injection
<1>10. Cardinality(1 .. m) = m
  <2>1. 0 \in Int /\ 1 \in Int /\ m \in Int  OBVIOUS
  <2> QED  BY <2>1, FS_Interval
<1> QED  BY <1>1, <1>2, <1>4, <1>9, <1>10

(* Queue follows the links and finds the chain.                            *)
LEMMA QueueIs ==
  ASSUME MonitorAssumption, NEW o \in Obj, NEW q, Chain(q, o), \A i, j \in DOMAIN q : q[i] = q[j] => i = j
  PROVE  Queue(o) = q
<1>1. PICK N \in Nat : N = Cardinality(Node) /\ Len(q) <= N + 1  BY ChainFits
<1>2. PICK n \in Nat : n = Len(q) /\ n > 0  BY DEF Chain
<1> DEFINE Next1(s) == IF next[Last(s)] = None THEN s ELSE Append(s, next[Last(s)])
           Is(g) == g = [i \in 0 .. N |-> IF i = 0 THEN <<o>> ELSE Next1(g[i - 1])]
           part(i) == SubSeq(q, 1, IF i + 1 <= n THEN i + 1 ELSE n)
           h == [i \in 0 .. N |-> part(i)]
<1>3. Queue(o) = (CHOOSE g : Is(g))[N]  BY <1>1, Zenon DEF Queue
<1>4. q \in Seq(Obj \cup Node) /\ q[1] = o /\ None \notin Obj \cup Node  BY DEF Chain, MonitorAssumption
<1>5. part(0) = <<o>>
  <2>1. PICK s : s = SubSeq(q, 1, 1)  OBVIOUS
  <2>2. s \in Seq(Obj \cup Node) /\ Len(s) = 1 /\ s[1] = o
    BY <2>1, <1>2, <1>4, SubSeqProperties
  <2>3. s = <<o>>  BY ONLY <2>2
  <2>4. part(0) = SubSeq(q, 1, 1)  BY <1>2
  <2> QED  BY <2>1, <2>3, <2>4
<1>6. ASSUME NEW i \in Nat, i > 0 PROVE part(i) = Next1(part(i - 1))
  <2>1. CASE i + 1 <= n
    <3>1. part(i) = SubSeq(q, 1, i + 1) /\ part(i - 1) = SubSeq(q, 1, i)  BY <2>1, <1>6
    <3>2. PICK s : s = SubSeq(q, 1, i)  OBVIOUS
    <3>3. s \in Seq(Obj \cup Node) /\ Len(s) = i /\ s[i] = q[i] /\ \A j \in 1 .. i : s[j] = q[j]
      BY <2>1, <3>2, <1>2, <1>4, <1>6, SubSeqProperties
    <3>4. Last(s) = q[i]  BY <3>3 DEF Last
    <3>5. i + 1 \in 2 .. n /\ (i + 1) - 1 = i  BY <2>1, <1>6
    <3>6. q[i + 1] \in Node /\ next[q[i]] = q[i + 1]  BY <3>5, <1>2 DEF Chain
    <3>7. Next1(s) = Append(s, q[i + 1])  BY <3>4, <3>6, <1>4
    <3>8. PICK w : w = SubSeq(q, 1, i + 1)  OBVIOUS
    <3>9. w \in Seq(Obj \cup Node) /\ Len(w) = i + 1 /\ \A j \in 1 .. i + 1 : w[j] = q[j]
      BY <2>1, <3>8, <1>2, <1>4, <1>6, SubSeqProperties
    <3>10. w = Append(s, q[i + 1])
      BY ONLY <3>3, <3>6, <3>9, i \in Nat
    <3> QED  BY <3>1, <3>2, <3>7, <3>8, <3>10
  <2>2. CASE ~(i + 1 <= n)
    <3>1. part(i) = SubSeq(q, 1, n) /\ part(i - 1) = SubSeq(q, 1, n)
      <4>1. (i - 1) + 1 = i /\ (~(i <= n) \/ i = n)  BY <2>2, <1>6, <1>2
      <4> QED  BY <2>2, <4>1
    <3>2. SubSeq(q, 1, n) = q  BY <1>2, <1>4, SubSeqFull
    <3>3. Last(q) = q[n]  BY <1>2 DEF Last
    <3>4. next[q[n]] = None  BY <1>2 DEF Chain
    <3> QED  BY <3>1, <3>2, <3>3, <3>4
  <2> QED  BY <2>1, <2>2
<1> HIDE DEF Next1, part
<1>7. Is(h)
  <2>1. \A i \in 0 .. N : i # 0 => i - 1 \in 0 .. N /\ i \in Nat /\ i > 0  OBVIOUS
  <2>2. \A i \in 0 .. N : h[i] = IF i = 0 THEN <<o>> ELSE Next1(h[i - 1])  BY <2>1, <1>5, <1>6
  <2>3. h = [i \in 0 .. N |-> h[i]]  OBVIOUS
  <2>4. [i \in 0 .. N |-> h[i]] = [i \in 0 .. N |-> IF i = 0 THEN <<o>> ELSE Next1(h[i - 1])]
    <3> HIDE DEF h
    <3> QED  BY <2>2
  <2> QED  BY <2>3, <2>4
<1>8. PICK g : g = (CHOOSE f : Is(f))  OBVIOUS
<1>9. Is(g)
  <2> HIDE DEF Is, h
  <2> QED  BY <1>7, <1>8, Zenon
<1>10. g[0] = <<o>> /\ \A i \in 0 .. N : i # 0 => g[i] = Next1(g[i - 1])
  <2>1. 0 \in 0 .. N  OBVIOUS
  <2>2. g = [i \in 0 .. N |-> IF i = 0 THEN <<o>> ELSE Next1(g[i - 1])]  BY <1>9
  <2> HIDE DEF Is
  <2> QED  BY ONLY <2>1, <2>2
<1>11. \A i \in 0 .. N : g[i] = part(i)
  <2> DEFINE S == {i \in 0 .. N : g[i] # part(i)}
  <2>1. ASSUME S # {} PROVE FALSE
    <3>1. S \in SUBSET Nat  OBVIOUS
    <3>2. PICK x : x = Min(S)  OBVIOUS
    <3>3. x \in S /\ \A y \in S : x <= y
      <4> HIDE DEF S
      <4> QED  BY <2>1, <3>1, <3>2, Least
    <3>4. x \in 0 .. N /\ g[x] # part(x)  BY <3>3
    <3>5. x # 0  BY <3>4, <1>5, <1>10
    <3>6. x - 1 \in 0 .. N /\ ~(x <= x - 1) /\ x \in Nat /\ x > 0  BY <3>4, <3>5
    <3>7. g[x - 1] = part(x - 1)  BY <3>3, <3>6
    <3> QED  BY <3>4, <3>5, <3>6, <3>7, <1>6, <1>10
  <2> QED  BY <2>1
<1>12. part(N) = q
  <2>1. part(N) = SubSeq(q, 1, n)
    <3>1. n <= N + 1  BY <1>1, <1>2
    <3>2. CASE N + 1 <= n
      <4>1. N + 1 = n  BY <3>1, <3>2
      <4> QED  BY <4>1 DEF part
    <3>3. CASE ~(N + 1 <= n)  BY <3>3 DEF part
    <3> QED  BY <3>2, <3>3
  <2> QED  BY <2>1, <1>2, <1>4, SubSeqFull
<1>13. N \in 0 .. N  OBVIOUS
<1> QED  BY <1>3, <1>8, <1>11, <1>12, <1>13

(* Where the threads are changes and no queue does.                        *)
LEMMA QueuesStay ==
  ASSUME NEW Q, Queues(Q), UNCHANGED <<next, th, free>>, NEW t \in Thread,
         \A u \in Thread \ {t} : pc'[u] = pc[u],
         \A o \in Obj : pc'[t].o = o => Placed(t, Q[o])',
         \A o \in Obj : Working(t, o)' => Working(t, o) \/ \A u \in Thread \ {t} : ~Working(u, o)
  PROVE  Queues(Q)'
<1>1. \A o \in Obj : Chain(Q[o], o)'  BY DEF Queues, Chain
<1>2. ASSUME NEW u \in Thread, NEW o \in Obj, pc'[u].o = o PROVE Placed(u, Q[o])'
  <2>1. CASE u = t  BY <1>2, <2>1
  <2>2. CASE u # t
    <3>1. pc'[u] = pc[u] /\ Placed(u, Q[o])  BY <1>2, <2>2 DEF Queues
    <3> QED  BY <3>1 DEF Placed, Waiting
  <2> QED  BY <2>1, <2>2
<1>3. \A u \in Thread \ {t}, o \in Obj : Working(u, o)' <=> Working(u, o)  BY DEF Working
<1>4. ASSUME NEW u \in Thread, NEW v \in Thread, NEW o \in Obj, Working(u, o)', Working(v, o)' PROVE u = v
  <2>1. \A x, y \in Thread : Working(x, o) /\ Working(y, o) => x = y  BY DEF Queues
  <2> QED  BY <1>3, <1>4, <2>1
<1>5. Q \in [Obj -> Seq(Obj \cup Node)] /\ Apart(Q)  BY DEF Queues
<1>6. Apart(Q)'  BY <1>5 DEF Apart
<1> QED  BY <1>1, <1>2, <1>4, <1>5, <1>6 DEF Queues

(* A thread changes the queue that it works on.                            *)
LEMMA QueueChanges ==
  ASSUME MonitorAssumption, MonitorInv, NEW Q, Queues(Q), NEW t \in Thread, NEW o \in Obj, Working(t, o),
         \A u \in Thread \ {t} : pc'[u] = pc[u], pc'[t].at \notin {"append", "unlink"},
         NEW q, Chain(q, o)', \A i, j \in DOMAIN q : q[i] = q[j] => i = j,
         \A i \in DOMAIN q : q[i] \in free \/ \E j \in DOMAIN Q[o] : q[i] = Q[o][j],
         \A x \in Obj \cup Node : x \notin free /\ (\A j \in DOMAIN Q[o] : x # Q[o][j]) =>
                                    next'[x] = next[x] /\ x \notin free',
         \A n \in Node \ free : th'[n] = th[n],
         \A u \in Thread \ {t} : Waiting(u, Q[o]) => Waiting(u, q)',
         pc'[t].o = o, Placed(t, q)'
  PROVE  \E R : Queues(R)'
<1> DEFINE R == [Q EXCEPT ![o] = q]
<1>0. Obj \cap free = {}  BY DEF MonitorAssumption, MonitorTypeOK, MonitorInv
<1>1. /\ Q \in [Obj -> Seq(Obj \cup Node)] /\ Apart(Q) /\ \A p \in Obj : Chain(Q[p], p)
      /\ \A u, v \in Thread, p \in Obj : Working(u, p) /\ Working(v, p) => u = v
      /\ \A u \in Thread, p \in Obj : pc[u].o = p => Placed(u, Q[p])
  BY DEF Queues
<1>2. q \in Seq(Obj \cup Node)  BY DEF Chain
<1>3. R \in [Obj -> Seq(Obj \cup Node)] /\ R[o] = q /\ \A p \in Obj \ {o} : R[p] = Q[p]  BY <1>1, <1>2
<1> HIDE DEF R
<1>4. ASSUME NEW p \in Obj, p # o, NEW i \in DOMAIN Q[p]
      PROVE  /\ Q[p][i] \in Obj \cup Node /\ Q[p][i] \notin free
             /\ \A j \in DOMAIN Q[o] : Q[p][i] # Q[o][j]
             /\ next'[Q[p][i]] = next[Q[p][i]] /\ Q[p][i] \notin free'
             /\ \A j \in DOMAIN q : Q[p][i] # q[j]
  <2>1. Q[p] \in Seq(Obj \cup Node) /\ Chain(Q[p], p) /\ i \in 1 .. Len(Q[p])  BY <1>1, <1>4
  <2>2. Q[p][i] \in Obj \cup Node  BY <2>1, ElementOfSeq
  <2>3. Q[p][i] \notin free
    <3>1. CASE i = 1
      <4>1. Q[p][i] \in Obj  BY <2>1, <3>1 DEF Chain
      <4> QED  BY <4>1, <1>0
    <3>2. CASE i # 1
      <4>1. i \in 2 .. Len(Q[p])  BY <2>1, <3>2
      <4> QED  BY <2>1, <4>1 DEF Chain
    <3> QED  BY <3>1, <3>2
  <2>4. \A j \in DOMAIN Q[o] : Q[p][i] # Q[o][j]  BY <1>1, <1>4 DEF Apart
  <2>5. next'[Q[p][i]] = next[Q[p][i]] /\ Q[p][i] \notin free'  BY <2>2, <2>3, <2>4
  <2>6. \A j \in DOMAIN q : Q[p][i] # q[j]  BY <2>3, <2>4
  <2> QED  BY <2>2, <2>3, <2>4, <2>5, <2>6
<1>6. \A p \in Obj : Chain(R[p], p)'
  <2> SUFFICES ASSUME NEW p \in Obj PROVE Chain(R[p], p)'  OBVIOUS
  <2>1. CASE p = o  BY <2>1, <1>3
  <2>2. CASE p # o
    <3>1. R[p] = Q[p] /\ Chain(Q[p], p)  BY <2>2, <1>1, <1>3
    <3>2. DOMAIN Q[p] = 1 .. Len(Q[p]) /\ Len(Q[p]) \in Nat \ {0}  BY <3>1 DEF Chain
    <3>3. ASSUME NEW i \in 2 .. Len(Q[p]) PROVE Q[p][i] \in Node \ free' /\ next'[Q[p][i - 1]] = Q[p][i]
      <4>1. i \in 1 .. Len(Q[p]) /\ i - 1 \in 1 .. Len(Q[p])  BY <3>2
      <4>2. next'[Q[p][i - 1]] = next[Q[p][i - 1]] /\ Q[p][i] \notin free'  BY <1>4, <2>2, <3>2, <4>1
      <4> QED  BY <3>1, <4>2 DEF Chain
    <3>4. next'[Q[p][Len(Q[p])]] = None
      <4>1. Len(Q[p]) \in 1 .. Len(Q[p])  BY <3>2
      <4>2. next'[Q[p][Len(Q[p])]] = next[Q[p][Len(Q[p])]]  BY <1>4, <2>2, <3>2, <4>1
      <4> QED  BY <3>1, <4>2 DEF Chain
    <3> QED  BY <3>1, <3>3, <3>4 DEF Chain
  <2> QED  BY <2>1, <2>2
<1>7. Apart(R)
  <2> SUFFICES ASSUME NEW p \in Obj, NEW r \in Obj, NEW i \in DOMAIN R[p], NEW j \in DOMAIN R[r], R[p][i] = R[r][j]
               PROVE  p = r /\ i = j
    BY DEF Apart
  <2>1. CASE p = o /\ r = o  BY <2>1, <1>3
  <2>2. CASE p = o /\ r # o  BY <2>2, <1>3, <1>4
  <2>3. CASE p # o /\ r = o  BY <2>3, <1>3, <1>4
  <2>4. CASE p # o /\ r # o  BY <2>4, <1>1, <1>3 DEF Apart
  <2> QED  BY <2>1, <2>2, <2>3, <2>4
<1>8. \A u \in Thread \ {t}, p \in Obj : Working(u, p)' <=> Working(u, p)  BY DEF Working
<1>9. ~Working(t, o)' /\ \A p \in Obj : ~Working(t, p)'  BY DEF Working
<1>10. \A u, v \in Thread, p \in Obj : Working(u, p)' /\ Working(v, p)' => u = v  BY <1>1, <1>8, <1>9
<1>11. ASSUME NEW u \in Thread, NEW p \in Obj, pc'[u].o = p PROVE Placed(u, R[p])'
  <2>1. CASE u = t  BY <1>3, <1>11, <2>1
  <2>2. CASE u # t
    <3>1. pc'[u] = pc[u] /\ Placed(u, Q[p])  BY <1>1, <1>11, <2>2
    <3>2. CASE p = o
      <4>1. ~Working(u, o)  BY <1>1, <2>2
      <4>2. pc[u].at \notin {"append", "unlink"}  BY <1>11, <3>1, <3>2, <4>1 DEF Working
      <4>3. pc[u].at \in {"release", "mark", "pause"} => Waiting(u, q)'  BY <2>2, <3>1, <3>2 DEF Placed
      <4> QED  BY <1>3, <3>1, <3>2, <4>2, <4>3 DEF Placed
    <3>3. CASE p # o
      <4>1. R[p] = Q[p] /\ DOMAIN Q[p] = 1 .. Len(Q[p]) /\ Len(Q[p]) \in Nat  BY <1>1, <1>3, <3>3
      <4>2. ASSUME NEW i \in 2 .. Len(Q[p]) PROVE th'[Q[p][i]] = th[Q[p][i]]
        <5>1. Q[p][i] \in Node \ free  BY <1>1 DEF Chain
        <5> QED  BY <5>1
      <4> QED  BY <3>1, <4>1, <4>2 DEF Placed, Waiting
    <3> QED  BY <3>2, <3>3
  <2> QED  BY <2>1, <2>2
<1>12. Apart(R)'  BY <1>7 DEF Apart
<1> QED  BY <1>3, <1>6, <1>10, <1>11, <1>12 DEF Queues

---------------------------------------------------------------------------
(* The steps of the threads on the queues.                                 *)

(* Where a thread is after it went to one place or another.                *)
LEMMA WentTo ==
  ASSUME PcShape, NEW t \in Thread, NEW at, NEW o, NEW place, pc' = [pc EXCEPT ![t] = Pc(at, o, place)]
  PROVE  /\ pc'[t].at = at /\ pc'[t].o = o /\ pc'[t].place = place
         /\ \A u \in Thread \ {t} : pc'[u] = pc[u]
<1>1. \A u \in Thread : pc'[u] = IF u = t THEN Pc(at, o, place) ELSE pc[u]  BY DEF PcShape
<1> QED  BY <1>1 DEF Pc

(* The same of a thread that stays at its object.                          *)
LEMMA WentOn ==
  ASSUME PcShape, NEW t \in Thread, NEW at, Goto(t, at)
  PROVE  /\ pc'[t].at = at /\ pc'[t].o = pc[t].o /\ pc'[t].place = pc[t].place
         /\ \A u \in Thread \ {t} : pc'[u] = pc[u]
<1> DEFINE o == pc[t].o  place == pc[t].place
<1>1. pc' = [pc EXCEPT ![t] = Pc(at, o, place)]  BY DEF Goto
<1> HIDE DEF o, place
<1>2. pc'[t].at = at /\ pc'[t].o = o /\ pc'[t].place = place /\ \A u \in Thread \ {t} : pc'[u] = pc[u]
  BY <1>1, WentTo
<1> QED  BY <1>2 DEF o, place

\* A thread stays where it is, leaves the queues or, once it is in one, goes on.
Calm(t) ==
  /\ \A u \in Thread \ {t} : pc'[u] = pc[u]
  /\ \/ pc'[t].at = pc[t].at /\ pc'[t].o = pc[t].o /\ pc'[t].place = pc[t].place
     \/ pc'[t].at \notin {"append", "release", "mark", "pause", "unlink"}
     \/ /\ pc[t].at \in {"release", "mark"} /\ pc'[t].at \in {"mark", "pause"} /\ pc'[t].o = pc[t].o

(* The steps of such a thread leave the queues in order.                   *)
LEMMA CalmKeeps ==
  ASSUME NEW Q, Queues(Q), UNCHANGED <<next, th, free>>, NEW t \in Thread, Calm(t)
  PROVE  Queues(Q)'
<1>1. ASSUME NEW o \in Obj, pc'[t].o = o PROVE Placed(t, Q[o])'
  <2>1. CASE pc'[t].at \notin {"append", "release", "mark", "pause", "unlink"}  BY <2>1 DEF Placed
  <2>2. CASE pc'[t].at = pc[t].at /\ pc'[t].o = pc[t].o /\ pc'[t].place = pc[t].place
    <3>1. Placed(t, Q[o])  BY <1>1, <2>2 DEF Queues
    <3> QED  BY <2>2, <3>1 DEF Placed, Waiting
  <2>3. CASE pc[t].at \in {"release", "mark"} /\ pc'[t].at \in {"mark", "pause"} /\ pc'[t].o = pc[t].o
    <3>1. Placed(t, Q[o])  BY <1>1, <2>3 DEF Queues
    <3>2. Waiting(t, Q[o])  BY <2>3, <3>1 DEF Placed
    <3> QED  BY <2>3, <3>2 DEF Placed, Waiting
  <2> QED  BY <2>1, <2>2, <2>3 DEF Calm
<1>2. \A o \in Obj : Working(t, o)' => Working(t, o)  BY DEF Working, Calm
<1>3. \A u \in Thread \ {t} : pc'[u] = pc[u]  BY DEF Calm
<1> QED  BY <1>1, <1>2, <1>3, QueuesStay

(* All steps but those of a wait at the queue are such.                    *)
LEMMA CalmSteps ==
  ASSUME MonitorInv, NEW t \in Thread, Continue(t) \/ Handler(t) \/ JavaCode(t) \/ UseFreed(t)
  PROVE  \/ AppendNode(t) \/ FindNode(t) \/ Unlink(t) \/ \E o \in Obj : Wait(t, o)
         \/ UNCHANGED queueVars /\ \E u \in Thread : Calm(u)
<1>1. PcShape  BY Types DEF MonitorInv
<1> DEFINE Out == {"enter", "own", "exit", "run", "restored", "restore", "advance", "notify", "ready",
                   "dead", "free", "kill", "find"}
<1>2. ASSUME NEW u \in Thread, NEW at \in Out, Goto(u, at) PROVE Calm(u)  BY <1>1, <1>2, WentOn DEF Calm
<1>3. ASSUME NEW u \in Thread, NEW at \in Out, NEW o, NEW place, pc' = [pc EXCEPT ![u] = Pc(at, o, place)]
      PROVE  Calm(u)
  BY <1>1, <1>3, WentTo DEF Calm
<1>4. ASSUME UNCHANGED pc PROVE Calm(t)  BY <1>4 DEF Calm
<1>5. CASE \E o \in Obj : AddLock(t, o) \/ RemoveLock(t, o) \/ Notify(t, o)
  <2>1. PICK o \in Obj : AddLock(t, o) \/ RemoveLock(t, o) \/ Notify(t, o)  BY <1>5
  <2>2. UNCHANGED queueVars  BY <2>1 DEF AddLock, RemoveLock, Notify
  <2>3. CASE AddLock(t, o)
    <3>1. pc' = [pc EXCEPT ![t] = Pc("enter", o, None)]  BY <2>3 DEF AddLock
    <3> QED  BY <1>3, <2>2, <3>1
  <2>4. CASE RemoveLock(t, o)
    <3>1. pc' = [pc EXCEPT ![t] = Pc("exit", o, None)]  BY <2>4 DEF RemoveLock
    <3> QED  BY <1>3, <2>2, <3>1
  <2>5. CASE Notify(t, o)
    <3>1. pc' = [pc EXCEPT ![t] = Pc("notify", o, next[o])]  BY <2>5 DEF Notify
    <3> QED  BY <1>3, <2>2, <3>1
  <2> QED  BY <2>1, <2>3, <2>4, <2>5
<1>6. CASE MutexLock(t) \/ SetOwner(t) \/ MutexUnlock(t) \/ Restore(t) \/ MarkRestored(t) \/ NotifyNode(t)
           \/ Exec(t) \/ FreeThread(t) \/ Ends(t)
  <2>1. UNCHANGED queueVars
    BY <1>6 DEF MutexLock, SetOwner, MutexUnlock, Restore, MarkRestored, NotifyNode, Exec, FreeThread, Ends
  <2>2. \E at \in Out : Goto(t, at)
    BY <1>6 DEF MutexLock, SetOwner, MutexUnlock, Restore, MarkRestored, NotifyNode, Exec, FreeThread, Ends, NoLocks
  <2> QED  BY <1>2, <2>1, <2>2
<1>7. CASE Release(t) \/ MarkReleased(t)
  <2>1. UNCHANGED queueVars  BY <1>7 DEF Release, MarkReleased
  <2>2. \/ Goto(t, "run")
        \/ pc[t].at \in {"release", "mark"} /\ \E at \in {"mark", "pause"} : Goto(t, at)
    BY <1>7 DEF Release, MarkReleased, NoLocks, At
  <2>3. CASE Goto(t, "run")  BY <1>2, <2>1, <2>3
  <2>4. CASE pc[t].at \in {"release", "mark"} /\ \E at \in {"mark", "pause"} : Goto(t, at)
    <3>1. PICK at \in {"mark", "pause"} : Goto(t, at)  BY <2>4
    <3>2. Calm(t)  BY <1>1, <2>4, <3>1, WentOn DEF Calm
    <3> QED  BY <2>1, <3>2
  <2> QED  BY <2>2, <2>3, <2>4
<1>8. CASE Advance(t)
  <2>1. PICK o, place : pc' = [pc EXCEPT ![t] = Pc("notify", o, place)]  BY <1>8 DEF Advance
  <2> QED  BY <1>3, <1>8, <2>1 DEF Advance
<1>9. CASE HandleStop(t) \/ HandleCont(t)
  <2>1. UNCHANGED queueVars /\ Woken(t)  BY <1>9 DEF HandleStop, HandleCont
  <2>2. CASE pc[t].at = "pause"  BY <1>2, <2>1, <2>2 DEF Woken
  <2>3. CASE pc[t].at # "pause"
    <3>1. Goto(t, pc[t].at)  BY <2>1, <2>3 DEF Woken
    <3>2. Calm(t)  BY <1>1, <3>1, WentOn DEF Calm
    <3> QED  BY <2>1, <3>2
  <2> QED  BY <2>2, <2>3
<1>10. CASE HandleKill(t)
  <2>1. UNCHANGED queueVars /\ pc' = [pc EXCEPT ![t] = Pc("kill", None, Gthread)]  BY <1>10 DEF HandleKill
  <2> QED  BY <1>3, <2>1
<1>11. CASE KillStep(t)
  <2>1. UNCHANGED queueVars /\ (UNCHANGED pc \/ Goto(t, "dead"))  BY <1>11 DEF KillStep
  <2> QED  BY <1>2, <1>4, <2>1
<1>12. CASE UseFreed(t)  BY <1>4, <1>12 DEF UseFreed
<1>13. ASSUME NEW u \in Thread, Start(t, u) \/ Suspend(t, u) \/ Resume(t, u) \/ Stop(t, u)
       PROVE  UNCHANGED queueVars /\ \E v \in Thread : Calm(v)
  <2>1. UNCHANGED queueVars  BY <1>13 DEF Start, Suspend, Resume, Stop
  <2>2. UNCHANGED pc \/ Goto(u, "ready") \/ pc' = [pc EXCEPT ![t] = Pc("free", None, u)]
    BY <1>13 DEF Start, Suspend, Resume, Stop
  <2> QED  BY <1>2, <1>3, <1>4, <2>1, <2>2
<1> QED  BY <1>5, <1>6, <1>7, <1>8, <1>9, <1>10, <1>11, <1>12, <1>13 DEF Continue, Handler, JavaCode

\* The queues, and nobody else at work on that of o.
Still(Q, t, o) == Queues(Q) /\ ~Disturbed(t, o)

(* wait looks for the end of the queue.                                    *)
LEMMA WaitKeeps ==
  ASSUME MonitorAssumption, MonitorInv, NEW Q, NEW t \in Thread, NEW o \in Obj, Still(Q, t, o), Wait(t, o)
  PROVE  Queues(Q)'
<1>1. PcShape /\ Queues(Q) /\ \A u \in Thread \ {t} : ~Working(u, o)
  BY Types DEF MonitorInv, Still, Disturbed, Working
<1>2. UNCHANGED <<next, th, free>>  BY DEF Wait
<1>3. CASE UNCHANGED pc
  <2>1. Calm(t)  BY <1>3 DEF Calm
  <2> QED  BY <1>1, <1>2, <2>1, CalmKeeps
<1>4. CASE ~UNCHANGED pc
  <2>1. Chain(Q[o], o) /\ \A i, j \in DOMAIN Q[o] : Q[o][i] = Q[o][j] => i = j  BY <1>1 DEF Queues, Apart
  <2>2. Queue(o) = Q[o]  BY <2>1, QueueIs
  <2>3. PICK x : x = Last(Queue(o))  OBVIOUS
  <2>4. pc' = [pc EXCEPT ![t] = Pc("append", o, x)]  BY <1>4, <2>3 DEF Wait
  <2>5. /\ pc'[t].at = "append" /\ pc'[t].o = o /\ pc'[t].place = x
        /\ \A u \in Thread \ {t} : pc'[u] = pc[u]
    BY <1>1, <2>4, WentTo
  <2>6. x = Q[o][Len(Q[o])]  BY <2>2, <2>3 DEF Last
  <2>7. \A p \in Obj : pc'[t].o = p => Placed(t, Q[p])'  BY <2>5, <2>6 DEF Placed
  <2>8. \A p \in Obj : Working(t, p)' => \A u \in Thread \ {t} : ~Working(u, p)  BY <1>1, <2>5 DEF Working
  <2> QED  BY <1>1, <1>2, <2>5, <2>7, <2>8, QueuesStay
<1> QED  BY <1>3, <1>4

(* A thread that was woken looks for its node.                             *)
LEMMA FindKeeps ==
  ASSUME MonitorAssumption, MonitorInv, NEW Q, NEW t \in Thread, Still(Q, t, pc[t].o), FindNode(t)
  PROVE  Queues(Q)'
<1>1. PcShape /\ Queues(Q) /\ pc[t].at = "find" /\ ControlOK(t) /\ UNCHANGED <<next, th, free>>
  BY Types DEF MonitorInv, Still, FindNode, At
<1>2. PICK o \in Obj : o = pc[t].o  BY <1>1 DEF ControlOK, AtObject
<1>3. \A u \in Thread \ {t} : ~Working(u, o)  BY <1>2 DEF Still, Disturbed, Working
<1>4. CASE Goto(t, "restore")
  <2>1. Calm(t)  BY <1>1, <1>4, WentOn DEF Calm
  <2> QED  BY <1>1, <2>1, CalmKeeps
<1>5. CASE ~Goto(t, "restore")
  <2>1. Chain(Q[o], o) /\ \A i, j \in DOMAIN Q[o] : Q[o][i] = Q[o][j] => i = j  BY <1>1 DEF Queues, Apart
  <2>2. Queue(o) = Q[o]  BY <2>1, QueueIs
  <2> DEFINE q == Queue(pc[t].o)
             i == SelectInSeq(q, LAMBDA n : n \in Node /\ th[n] = t)
             I == {k \in 1 .. Len(q) : q[k] \in Node /\ th[q[k]] = t}
  <2>3. i # 0 /\ pc' = [pc EXCEPT ![t] = Pc("unlink", pc[t].o, <<q[i - 1], q[i]>>)]  BY <1>5 DEF FindNode
  <2>4. i = IF I # {} THEN Min(I) ELSE 0  BY DEF SelectInSeq
  <2>5. I # {} /\ i = Min(I)  BY <2>3, <2>4
  <2>6. I \in SUBSET Nat  OBVIOUS
  <2>7. i \in I  BY <2>5, <2>6, Least
  <2>8. PICK k : k = i  OBVIOUS
  <2>9. /\ k \in 1 .. Len(Q[o]) /\ Q[o][k] \in Node /\ th[Q[o][k]] = t
        /\ pc' = [pc EXCEPT ![t] = Pc("unlink", o, <<Q[o][k - 1], Q[o][k]>>)]
    BY <1>2, <2>2, <2>3, <2>7, <2>8
  <2>10. PICK place : place = <<Q[o][k - 1], Q[o][k]>>  OBVIOUS
  <2>11. pc' = [pc EXCEPT ![t] = Pc("unlink", o, place)]  BY <2>9, <2>10
  <2> HIDE DEF q, i, I
  <2>12. k # 1  BY <2>1, <2>9 DEF Chain, MonitorAssumption
  <2>13. k \in 2 .. Len(Q[o])  BY <2>9, <2>12
  <2>14. /\ pc'[t].at = "unlink" /\ pc'[t].o = o /\ pc'[t].place = place
         /\ \A u \in Thread \ {t} : pc'[u] = pc[u]
    BY <1>1, <2>11, WentTo
  <2>15. \A p \in Obj : pc'[t].o = p => Placed(t, Q[p])'  BY <1>1, <2>9, <2>10, <2>13, <2>14 DEF Placed
  <2>16. \A p \in Obj : Working(t, p)' => \A u \in Thread \ {t} : ~Working(u, p)  BY <1>3, <2>14 DEF Working
  <2> QED  BY <1>1, <2>14, <2>15, <2>16, QueuesStay
<1> QED  BY <1>4, <1>5

\* Every node has a thread.
Threads == th = [n \in Node |-> th[n]]

(* A new node at the end of the queue.                                     *)
LEMMA AppendKeeps ==
  ASSUME MonitorAssumption, MonitorInv, Threads, NEW Q, Queues(Q), NEW t \in Thread, AppendNode(t)
  PROVE  Threads' /\ \E R : Queues(R)'
<1>1. PcShape /\ OtherTypes /\ pc[t].at = "append" /\ ControlOK(t)  BY Types DEF MonitorInv, AppendNode, At
<1>2. PICK o \in Obj : o = pc[t].o  BY <1>1 DEF ControlOK, AtObject
<1>3. CASE free = {}
  <2>1. Goto(t, "run") /\ UNCHANGED <<next, th, free>>  BY <1>3 DEF AppendNode, queueVars
  <2>2. Calm(t)  BY <1>1, <2>1, WentOn DEF Calm
  <2>3. Queues(Q)'  BY <2>1, <2>2, CalmKeeps
  <2> QED  BY <2>1, <2>3 DEF Threads
<1>4. CASE free # {}
  <2>1. PICK n \in free :
          /\ free' = free \ {n} /\ next' = [next EXCEPT ![n] = None, ![pc[t].place] = n]
          /\ th' = [th EXCEPT ![n] = t] /\ Goto(t, "release")
    BY <1>4 DEF AppendNode
  <2>2. PICK q : q = Q[o]  OBVIOUS
  <2>3. Chain(q, o) /\ \A i, j \in DOMAIN q : q[i] = q[j] => i = j  BY <2>2 DEF Queues, Apart
  <2>4. PICK m \in Nat : m = Len(q) /\ m > 0  BY <2>3 DEF Chain
  <2>5. DOMAIN q = 1 .. m /\ q \in Seq(Obj \cup Node)  BY <2>3, <2>4 DEF Chain
  <2>6. \A i \in 1 .. m : q[i] \in Obj \cup Node  BY <2>4, <2>5, ElementOfSeq
  <2>7. n \in Node /\ n \notin Obj /\ None \notin Node  BY <1>1, <2>1 DEF OtherTypes, MonitorAssumption
  <2>8. \A i \in 1 .. m : q[i] # n
    <3> TAKE i \in 1 .. m
    <3>1. i = 1 \/ i \in 2 .. m  OBVIOUS
    <3>2. q[1] = o /\ \A k \in 2 .. m : q[k] \notin free  BY <2>3, <2>4 DEF Chain
    <3> QED  BY <2>1, <2>7, <3>1, <3>2
  <2>9. Placed(t, q)  BY <1>2, <2>2 DEF Queues
  <2>10. pc[t].place = q[m]  BY <1>1, <2>4, <2>9 DEF Placed
  <2>11. m \in 1 .. m /\ q[m] \in Obj \cup Node /\ q[m] # n
    <3>1. m \in 1 .. m  BY <2>4
    <3> QED  BY <2>6, <2>8, <3>1
  <2>12. /\ next'[n] = None /\ next'[q[m]] = n
         /\ \A x \in Obj \cup Node : x # n /\ x # q[m] => next'[x] = next[x]
    BY <1>1, <2>1, <2>7, <2>10, <2>11 DEF OtherTypes
  <2>13. Threads' /\ th'[n] = t /\ \A x \in Node : x # n => th'[x] = th[x]  BY <2>1, <2>7 DEF Threads
  <2> DEFINE r == Append(q, n)
  <2>14. /\ r \in Seq(Obj \cup Node) /\ Len(r) = m + 1 /\ r[m + 1] = n /\ r # << >>
         /\ \A i \in 1 .. m : r[i] = q[i]
    BY <2>4, <2>5, <2>7, AppendProperties
  <2>15. DOMAIN r = 1 .. m + 1  BY <2>14
  <2> HIDE DEF r
  <2>16. \A i \in 1 .. m + 1 : i \in 1 .. m \/ i = m + 1  OBVIOUS
  <2>17. \A i, j \in DOMAIN r : r[i] = r[j] => i = j
    <3> SUFFICES ASSUME NEW i \in 1 .. m + 1, NEW j \in 1 .. m + 1, r[i] = r[j] PROVE i = j  BY <2>15
    <3>1. CASE i \in 1 .. m /\ j \in 1 .. m  BY <2>3, <2>5, <2>14, <3>1
    <3>2. CASE i \in 1 .. m /\ j = m + 1  BY <2>8, <2>14, <3>2
    <3>3. CASE i = m + 1 /\ j \in 1 .. m  BY <2>8, <2>14, <3>3
    <3> QED  BY <2>16, <3>1, <3>2, <3>3
  <2>18. Chain(r, o)'
    <3>1. 1 \in 1 .. m  BY <2>4
    <3>2. r[1] = o  BY <2>3, <2>14, <3>1 DEF Chain
    <3>3. ASSUME NEW i \in 2 .. m + 1 PROVE r[i] \in Node \ free' /\ next'[r[i - 1]] = r[i]
      <4>1. i - 1 \in 1 .. m /\ ((i \in 2 .. m /\ i \in 1 .. m /\ i - 1 # m) \/ (i = m + 1 /\ i - 1 = m))  OBVIOUS
      <4>2. r[i - 1] = q[i - 1] /\ q[i - 1] \in Obj \cup Node /\ q[i - 1] # n  BY <2>6, <2>8, <2>14, <4>1
      <4>3. CASE i \in 2 .. m /\ i \in 1 .. m /\ i - 1 # m
        <5>1. q[i] \in Node \ free /\ next[q[i - 1]] = q[i]  BY <2>3, <2>4, <4>3 DEF Chain
        <5>2. q[i - 1] # q[m]  BY <2>3, <2>5, <2>11, <4>1, <4>3
        <5>3. next'[q[i - 1]] = next[q[i - 1]]  BY <2>12, <4>2, <5>2
        <5>4. r[i] = q[i]  BY <2>14, <4>3
        <5> QED  BY <2>1, <4>2, <5>1, <5>3, <5>4
      <4>4. CASE i = m + 1 /\ i - 1 = m  BY <2>1, <2>7, <2>12, <2>14, <4>2, <4>4
      <4> QED  BY <4>1, <4>3, <4>4
    <3> QED  BY <2>12, <2>14, <3>2, <3>3 DEF Chain
  <2>19. /\ pc'[t].at = "release" /\ pc'[t].o = o /\ \A u \in Thread \ {t} : pc'[u] = pc[u]
    BY <1>1, <1>2, <2>1, WentOn
  <2>20. Working(t, o)  BY <1>1, <1>2 DEF Working
  <2>21. \A i \in DOMAIN r : r[i] \in free \/ \E j \in DOMAIN Q[o] : r[i] = Q[o][j]
    BY <2>1, <2>2, <2>5, <2>14, <2>15, <2>16
  <2>22. \A x \in Obj \cup Node : x \notin free /\ (\A j \in DOMAIN Q[o] : x # Q[o][j]) =>
           next'[x] = next[x] /\ x \notin free'
    <3> TAKE x \in Obj \cup Node
    <3>1. (\A j \in DOMAIN Q[o] : x # Q[o][j]) => x # q[m]  BY <2>2, <2>5, <2>11
    <3> QED  BY <2>1, <2>12, <3>1
  <2>23. \A x \in Node \ free : th'[x] = th[x]  BY <2>1, <2>13
  <2>24. m + 1 \in 2 .. m + 1 /\ \A i \in 2 .. m : i \in 2 .. m + 1 /\ i \in 1 .. m  BY <2>4
  <2>25. ASSUME NEW u \in Thread, Waiting(u, Q[o]) PROVE Waiting(u, r)'
    <3>1. PICK i \in 2 .. m : th[q[i]] = u  BY <2>2, <2>4, <2>25 DEF Waiting
    <3>2. i \in 2 .. m + 1 /\ r[i] = q[i] /\ q[i] # n  BY <2>8, <2>14, <2>24
    <3>3. q[i] \in Node  BY <2>3, <2>4 DEF Chain
    <3> QED  BY <2>13, <2>14, <3>1, <3>2, <3>3 DEF Waiting
  <2>26. Waiting(t, r)'  BY <2>13, <2>14, <2>24 DEF Waiting
  <2>27. Placed(t, r)'  BY <2>19, <2>26 DEF Placed
  <2>28. pc'[t].at \notin {"append", "unlink"}  BY <2>19
  <2>29. \E R : Queues(R)'
    BY <2>17, <2>18, <2>19, <2>20, <2>21, <2>22, <2>23, <2>25, <2>27, <2>28, QueueChanges
  <2> QED  BY <2>13, <2>29
<1> QED  BY <1>3, <1>4

(* The node of a thread out of the queue.                                  *)
LEMMA UnlinkKeeps ==
  ASSUME MonitorAssumption, MonitorInv, NEW Q, Queues(Q), NEW t \in Thread, Unlink(t)
  PROVE  \E R : Queues(R)'
<1>1. PcShape /\ OtherTypes /\ pc[t].at = "unlink" /\ ControlOK(t)  BY Types DEF MonitorInv, Unlink, At
<1>2. PICK o \in Obj : o = pc[t].o  BY <1>1 DEF ControlOK, AtObject
<1>3. PICK q : q = Q[o]  OBVIOUS
<1>4. Chain(q, o) /\ \A i, j \in DOMAIN q : q[i] = q[j] => i = j  BY <1>3 DEF Queues, Apart
<1>5. PICK m \in Nat : m = Len(q) /\ m > 0  BY <1>4 DEF Chain
<1>6. DOMAIN q = 1 .. m /\ q \in Seq(Obj \cup Node) /\ q[1] = o  BY <1>4, <1>5 DEF Chain
<1>7. \A i \in 1 .. m : q[i] \in Obj \cup Node  BY <1>5, <1>6, ElementOfSeq
<1>8. Placed(t, q)  BY <1>2, <1>3 DEF Queues
<1>9. PICK k \in 2 .. m : pc[t].place = <<q[k - 1], q[k]>> /\ th[q[k]] = t  BY <1>1, <1>5, <1>8 DEF Placed
<1>10. k \in 1 .. m /\ k - 1 \in 1 .. m /\ k - 1 # k  OBVIOUS
<1>11. /\ next' = [next EXCEPT ![q[k - 1]] = next[q[k]]] /\ free' = free \cup {q[k]} /\ th' = th
       /\ pc' = [pc EXCEPT ![t] = Pc("restore", o, None)]
  BY <1>2, <1>9 DEF Unlink
<1>12. q[k] \in Node /\ q[k - 1] # q[k] /\ q[k - 1] \in Obj \cup Node
  BY <1>4, <1>5, <1>6, <1>7, <1>10 DEF Chain
<1>13. /\ next'[q[k - 1]] = next[q[k]]
       /\ \A x \in Obj \cup Node : x # q[k - 1] => next'[x] = next[x]
  BY <1>1, <1>11, <1>12 DEF OtherTypes
<1> DEFINE old(j) == IF j < k THEN j ELSE j + 1
           r == [j \in 1 .. m - 1 |-> q[old(j)]]
<1>14. m - 1 \in Nat /\ \A j \in 1 .. m - 1 : old(j) \in 1 .. m /\ old(j) # k  BY <1>5
<1>15. \A i, j \in 1 .. m - 1 : old(i) = old(j) => i = j  OBVIOUS
<1>16. old(1) = 1 /\ 1 \in 1 .. m - 1  BY <1>10
<1>17. \A j \in 2 .. m - 1 : j \in 1 .. m - 1 /\ j - 1 \in 1 .. m - 1 /\ old(j) \in 2 .. m
                             /\ ((old(j) - 1 = old(j - 1) /\ old(j - 1) # k - 1) \/ (old(j) = k + 1 /\ old(j - 1) = k - 1))
  BY <1>5
<1>18. k < m => old(m - 1) = m /\ k - 1 # m  BY <1>5
<1>19. ~(k < m) => old(m - 1) = k - 1 /\ k = m  BY <1>5
<1>20. \A j \in 2 .. m : j # k => \E i \in 2 .. m - 1 : old(i) = j
  <2> TAKE j \in 2 .. m
  <2> HAVE j # k
  <2>1. CASE j < k
    <3>1. j \in 2 .. m - 1 /\ old(j) = j  BY <2>1
    <3> QED  BY <3>1
  <2>2. CASE ~(j < k)
    <3>1. j - 1 \in 2 .. m - 1 /\ old(j - 1) = j  BY <2>2
    <3> QED  BY <3>1
  <2> QED  BY <2>1, <2>2
<1> HIDE DEF old
<1>21. r = [j \in 1 .. m - 1 |-> r[j]] /\ \A j \in 1 .. m - 1 : r[j] = q[old(j)] /\ r[j] \in Obj \cup Node
  BY <1>7, <1>14
<1> HIDE DEF r
<1>22. r \in Seq(Obj \cup Node) /\ Len(r) = m - 1 /\ DOMAIN r = 1 .. m - 1 /\ r # << >>
  <2>1. r \in Seq(Obj \cup Node) /\ Len(r) = m - 1  BY <1>14, <1>21
  <2>2. DOMAIN r = 1 .. m - 1  BY <2>1
  <2> QED  BY <1>16, <2>1, <2>2
<1>23. \A i, j \in DOMAIN r : r[i] = r[j] => i = j  BY <1>4, <1>6, <1>14, <1>15, <1>21, <1>22
<1>24. Chain(r, o)'
  <2>1. r[1] = o  BY <1>6, <1>16, <1>21
  <2>2. ASSUME NEW j \in 2 .. m - 1 PROVE r[j] \in Node \ free' /\ next'[r[j - 1]] = r[j]
    <3>1. /\ r[j] = q[old(j)] /\ r[j - 1] = q[old(j - 1)] /\ old(j) \in 2 .. m /\ old(j) \in 1 .. m
          /\ old(j) # k /\ old(j - 1) \in 1 .. m
      BY <1>14, <1>17, <1>21
    <3>2. q[old(j)] \in Node \ free /\ next[q[old(j) - 1]] = q[old(j)]  BY <1>4, <1>5, <3>1 DEF Chain
    <3>3. q[old(j)] # q[k]  BY <1>4, <1>6, <1>10, <3>1
    <3>4. CASE old(j) - 1 = old(j - 1) /\ old(j - 1) # k - 1
      <4>1. q[old(j - 1)] # q[k - 1]  BY <1>4, <1>6, <1>10, <3>1, <3>4
      <4>2. next'[q[old(j - 1)]] = next[q[old(j - 1)]]  BY <1>7, <1>13, <3>1, <4>1
      <4> QED  BY <1>11, <3>1, <3>2, <3>3, <3>4, <4>2
    <3>5. CASE old(j) = k + 1 /\ old(j - 1) = k - 1
      <4>1. old(j) - 1 = k  BY <3>5
      <4> QED  BY <1>11, <1>13, <3>1, <3>2, <3>3, <3>5, <4>1
    <3> QED  BY <1>17, <3>4, <3>5
  <2>3. next'[r[m - 1]] = None
    <3>1. m - 1 \in 1 .. m - 1 /\ m \in 1 .. m  BY <1>5, <1>16
    <3>2. r[m - 1] = q[old(m - 1)] /\ next[q[m]] = None  BY <1>4, <1>5, <1>21, <3>1 DEF Chain
    <3>3. CASE k < m
      <4>1. q[m] # q[k - 1] /\ q[m] \in Obj \cup Node  BY <1>4, <1>6, <1>7, <1>10, <1>18, <3>1, <3>3
      <4> QED  BY <1>13, <1>18, <3>2, <3>3, <4>1
    <3>4. CASE ~(k < m)  BY <1>13, <1>19, <3>2, <3>4
    <3> QED  BY <3>3, <3>4
  <2> QED  BY <1>22, <2>1, <2>2, <2>3 DEF Chain
<1>25. /\ pc'[t].at = "restore" /\ pc'[t].o = o /\ \A u \in Thread \ {t} : pc'[u] = pc[u]
  <2>1. pc' = [pc EXCEPT ![t] = Pc("restore", o, None)] /\ PcShape  BY <1>1, <1>11
  <2>2. /\ pc'[t].at = "restore" /\ pc'[t].o = o /\ pc'[t].place = None
        /\ \A u \in Thread \ {t} : pc'[u] = pc[u]
    BY <2>1, WentTo
  <2> QED  BY <2>2
<1>26. Working(t, o)  BY <1>1, <1>2 DEF Working
<1>27. \A i \in DOMAIN r : r[i] \in free \/ \E j \in DOMAIN Q[o] : r[i] = Q[o][j]
  BY <1>3, <1>6, <1>14, <1>21, <1>22
<1>28. \A x \in Obj \cup Node : x \notin free /\ (\A j \in DOMAIN Q[o] : x # Q[o][j]) =>
         next'[x] = next[x] /\ x \notin free'
  <2> TAKE x \in Obj \cup Node
  <2>1. (\A j \in DOMAIN Q[o] : x # Q[o][j]) => x # q[k - 1] /\ x # q[k]  BY <1>3, <1>6, <1>10
  <2> QED  BY <1>11, <1>13, <2>1
<1>29. \A x \in Node \ free : th'[x] = th[x]  BY <1>11
<1>30. ASSUME NEW u \in Thread \ {t}, Waiting(u, Q[o]) PROVE Waiting(u, r)'
  <2>1. PICK j \in 2 .. m : th[q[j]] = u  BY <1>3, <1>5, <1>30 DEF Waiting
  <2>2. j # k  BY <1>9, <2>1
  <2>3. PICK i \in 2 .. m - 1 : old(i) = j  BY <1>20, <2>2
  <2>4. r[i] = q[j]  BY <1>17, <1>21, <2>3
  <2> QED  BY <1>11, <1>22, <2>1, <2>4 DEF Waiting
<1>31. Placed(t, r)'  BY <1>25 DEF Placed
<1>32. pc'[t].at \notin {"append", "unlink"}  BY <1>25
<1> QED
  BY <1>23, <1>24, <1>25, <1>26, <1>27, <1>28, <1>29, <1>30, <1>31, <1>32, QueueChanges

---------------------------------------------------------------------------
\* As long as no two threads have worked on one queue at once, the queues are
\* in order, and whoever waits is in the one it waits in.
QueueInv == Threads /\ (raced \/ \E Q : Queues(Q))

(* At first every queue is empty.                                          *)
LEMMA QueueInvInit ==
  ASSUME MonitorAssumption, MonitorInit
  PROVE  QueueInv
<1> DEFINE Q == [o \in Obj |-> <<o>>]
<1>1. \A t \in Thread : pc[t].at \in {"run", "new"}
  <2> TAKE t \in Thread
  <2>1. PICK at \in {"run", "new"} : at = IF t = Main THEN "run" ELSE "new"  OBVIOUS
  <2>2. pc[t] = Pc(at, None, None)  BY <2>1 DEF MonitorInit
  <2> QED  BY <2>2 DEF Pc
<1>2. Q \in [Obj -> Seq(Obj \cup Node)]  OBVIOUS
<1>3. \A o \in Obj : Q[o] = <<o>> /\ Len(Q[o]) = 1 /\ DOMAIN Q[o] = {1} /\ Q[o][1] = o  OBVIOUS
<1>4. ASSUME NEW o \in Obj PROVE Chain(Q[o], o)
  <2>1. Q[o] \in Seq(Obj \cup Node) /\ Q[o] # << >>  BY <1>2, <1>3
  <2>2. next[o] = None  BY DEF MonitorInit
  <2>3. 2 .. 1 = {}  OBVIOUS
  <2> QED  BY <1>3, <2>1, <2>2, <2>3 DEF Chain
<1>5. Apart(Q)  BY <1>3 DEF Apart
<1>6. \A t \in Thread, o \in Obj : Placed(t, Q[o]) /\ ~Working(t, o)  BY <1>1 DEF Placed, Working
<1>7. Queues(Q)
  <2> HIDE DEF Q
  <2> QED  BY <1>2, <1>4, <1>5, <1>6 DEF Queues
<1>8. Threads  BY DEF Threads, MonitorInit
<1> QED  BY <1>7, <1>8 DEF QueueInv

(* The steps of a wait at the queue keep it in order or are a race.        *)
LEMMA QueueInvNext ==
  ASSUME MonitorAssumption, MonitorInv, QueueInv, [MonitorNext]_monitorVars
  PROVE  QueueInv'
<1>1. CASE UNCHANGED monitorVars
  <2>1. UNCHANGED <<pc, next, th, free, raced>>  BY <1>1 DEF monitorVars, queueVars
  <2>2. PICK t \in Thread : t = Main  BY DEF MonitorAssumption
  <2>3. Calm(t)  BY <2>1 DEF Calm
  <2> QED  BY <2>1, <2>3, CalmKeeps DEF QueueInv, Threads
<1>2. ASSUME NEW t \in Thread, Continue(t) \/ Handler(t) \/ JavaCode(t) \/ UseFreed(t) PROVE QueueInv'
  <2>1. CASE AppendNode(t)
    <3>1. raced' = raced  BY <2>1 DEF AppendNode, queueVars
    <3>2. Threads'
      <4>1. th' = th \/ \E n \in free : th' = [th EXCEPT ![n] = t]  BY <2>1 DEF AppendNode, queueVars
      <4> QED  BY <4>1 DEF QueueInv, Threads
    <3> QED  BY <2>1, <3>1, <3>2, AppendKeeps DEF QueueInv
  <2>2. CASE Unlink(t)
    <3>1. th' = th /\ (raced => raced')  BY <2>2 DEF Unlink, Race
    <3> QED  BY <2>2, <3>1, UnlinkKeeps DEF QueueInv, Threads
  <2>3. CASE FindNode(t)
    <3>1. th' = th /\ (raced \/ Disturbed(t, pc[t].o) => raced')  BY <2>3 DEF FindNode, Race
    <3>2. Threads'  BY <3>1 DEF QueueInv, Threads
    <3>3. CASE raced'  BY <3>2, <3>3 DEF QueueInv
    <3>4. CASE ~raced'
      <4>1. PICK Q : Queues(Q)  BY <3>1, <3>4 DEF QueueInv
      <4>2. Still(Q, t, pc[t].o)  BY <3>1, <3>4, <4>1 DEF Still
      <4>3. Queues(Q)'  BY <2>3, <4>2, FindKeeps
      <4> QED  BY <3>2, <4>3 DEF QueueInv
    <3> QED  BY <3>3, <3>4
  <2>4. ASSUME NEW o \in Obj, Wait(t, o) PROVE QueueInv'
    <3>1. th' = th /\ (raced \/ Disturbed(t, o) => raced')  BY <2>4 DEF Wait, Race
    <3>2. Threads'  BY <3>1 DEF QueueInv, Threads
    <3>3. CASE raced'  BY <3>2, <3>3 DEF QueueInv
    <3>4. CASE ~raced'
      <4>1. PICK Q : Queues(Q)  BY <3>1, <3>4 DEF QueueInv
      <4>2. Still(Q, t, o)  BY <3>1, <3>4, <4>1 DEF Still
      <4>3. Queues(Q)'  BY <2>4, <4>2, WaitKeeps
      <4> QED  BY <3>2, <4>3 DEF QueueInv
    <3> QED  BY <3>3, <3>4
  <2>5. CASE UNCHANGED queueVars /\ \E u \in Thread : Calm(u)
    <3>1. UNCHANGED <<next, th, free>> /\ raced' = raced  BY <2>5 DEF queueVars
    <3>2. PICK u \in Thread : Calm(u)  BY <2>5
    <3> QED  BY <3>1, <3>2, CalmKeeps DEF QueueInv, Threads
  <2> QED  BY <1>2, <2>1, <2>2, <2>3, <2>4, <2>5, CalmSteps
<1> QED  BY <1>1, <1>2 DEF MonitorNext

(* A thread that pauses in wait holds no part of the monitor, and as long  *)
(* as no two threads have worked on one queue at once it is in the queue   *)
(* of the object: the node that it appended has stayed linked through all  *)
(* that others appended and unlinked since.                                *)
THEOREM PausersAreQueued == MonitorSpec => []PausedQueued
<1>1. MonitorInit => MonitorInv /\ QueueInv  BY MonitorAssumption, MonitorInvInit, QueueInvInit
<1>2. MonitorInv /\ QueueInv /\ [MonitorNext]_monitorVars => MonitorInv' /\ QueueInv'
  BY MonitorAssumption, MonitorInvNext, QueueInvNext
<1>3. MonitorAssumption /\ MonitorInv /\ QueueInv => PausedQueued
  <2> SUFFICES ASSUME MonitorAssumption, MonitorInv, QueueInv, NEW t \in Thread, pc[t].at = "pause", ~Robbed(t)
               PROVE  owner[pc[t].o] # t /\ (Queued(t, pc[t].o) \/ raced)
    BY DEF PausedQueued
  <2>1. PICK o \in Obj : o = pc[t].o  BY DEF MonitorInv, ControlOK, AtObject
  <2>2. owner[o] # t
    <3>1. ObjectOK(t, o) /\ Mutexes  BY Types DEF MonitorInv, ThreadOK
    <3>2. Phase(t, o) = "pause"  BY <2>1 DEF Phase, AtObject, Stopping
    <3>3. Held(t, o) = 0  BY <3>1, <3>2 DEF ObjectOK, Agrees
    <3>4. owner[o] = t => count[o] = 0  BY <3>3 DEF Held
    <3> QED  BY <3>1, <3>4 DEF Mutexes, MonitorAssumption
  <2>3. ASSUME ~raced PROVE Queued(t, o)
    <3>1. PICK Q : Queues(Q)  BY <2>3 DEF QueueInv
    <3>2. PICK q : q = Q[o]  OBVIOUS
    <3>3. Chain(q, o) /\ (\A i, j \in DOMAIN q : q[i] = q[j] => i = j) /\ Placed(t, q)
      BY <2>1, <3>1, <3>2 DEF Queues, Apart
    <3>4. Queue(o) = q  BY <3>3, QueueIs
    <3>5. PICK i \in 2 .. Len(q) : th[q[i]] = t  BY <3>3 DEF Placed, Waiting
    <3>6. q[i] \in Node /\ q \in Seq(Obj \cup Node)  BY <3>3 DEF Chain
    <3>7. i \in DOMAIN q  BY <3>6
    <3>8. q[i] \in ToSet(q)  BY <3>7 DEF ToSet
    <3> QED  BY <3>4, <3>5, <3>6, <3>8 DEF Queued
  <2> QED  BY <2>1, <2>2, <2>3
<1> QED  BY <1>1, <1>2, <1>3, MonitorAssumption, PTL DEF MonitorSpec
=============================================================================
