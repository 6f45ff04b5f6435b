----------------------------- MODULE JCallsProofs -----------------------------
(***************************************************************************)
(* The frames of jExecMethod implement the calls of JCalls, for any        *)
(* methods, any code that the class file format allows and any size of the *)
(* stack.                                                                  *)
(***************************************************************************)
EXTENDS JFramesProofs

\* The words of a frame, of whose operands d count.
LocalsOf(r, st) == SubSeq(st, r.var + 1, LocalsEnd(r))
OperandsOf(r, d, st) == SubSeq(st, r.stack - d + 1, r.stack)

\* The exception on its way through the i-th frame.
ThrownIn(F, i, ns, a, e) ==
  IF i = Len(F) THEN Thrown(a, e)
  ELSE IF F[i + 1].r.var = F[i + 1].base + 3 THEN Thrown(ns[F[i + 1].nest].at, ns[F[i + 1].nest].exc)
  ELSE Junk

\* The activations that the frames F on st amount to.
ActOf(f, st, d, th) ==
  [method |-> f.r.method, pc |-> f.r.pc, locals |-> LocalsOf(f.r, st), operands |-> OperandsOf(f.r, d, st),
   thrown |-> th, entry |-> f.r.var = f.base + 3]
ActsOf(F, st, ns, ds, a, e) == [i \in 1 .. Len(F) |-> ActOf(F[i], st, ds[i], ThrownIn(F, i, ns, a, e))]

Activation ==
  [method : Method, pc : Nat, locals : Seq(Word), operands : Seq(Word), thrown : Word, entry : BOOLEAN]

\* acts is what the frames on the stack amount to.
ActsInv ==
  /\ ~Running => acts = << >>
  /\ Running => \A F : Frames(F, vmStack, regs, base, nest, depths) =>
                         acts = ActsOf(F, vmStack, nest, depths, at, exc)

(* The activations are read off the frames.                                *)
LEMMA ActsAre == FramesInv /\ acts = Activations => ActsInv
<1> SUFFICES ASSUME FramesInv, acts = Activations PROVE ActsInv  OBVIOUS
<1>1. ~Running => acts = << >>  BY DEF Activations
<1>2. ASSUME Running, NEW F, Frames(F, vmStack, regs, base, nest, depths)
      PROVE  acts = ActsOf(F, vmStack, nest, depths, at, exc)
  <2>1. Regs = RegsOf(F)  BY <1>2, RegsAre
  <2>2. Len(depths) = Len(F)  BY <1>2 DEF Frames
  <2>3. PICK R : R = Regs  OBVIOUS
  <2>4. acts = [i \in 1 .. Len(F) |->
                  [method |-> R[i].r.method, pc |-> R[i].r.pc,
                   locals |-> SubSeq(vmStack, R[i].r.var + 1, LocalsEnd(R[i].r)),
                   operands |-> SubSeq(vmStack, R[i].r.stack - depths[i] + 1, R[i].r.stack),
                   thrown |-> R[i].thrown, entry |-> R[i].r.var = R[i].base + 3]]
    BY <1>2, <2>2, <2>3 DEF Activations
  <2>5. ASSUME NEW i \in 1 .. Len(F)
        PROVE  R[i].r = F[i].r /\ R[i].base = F[i].base /\ R[i].thrown = ThrownIn(F, i, nest, at, exc)
    BY <2>1, <2>3 DEF RegsOf, ThrownIn
  <2> QED  BY <2>4, <2>5 DEF ActsOf, ActOf, LocalsOf, OperandsOf
<1> QED  BY <1>1, <1>2 DEF ActsInv

ActsRight == acts = Activations

(* So they are in the next state.                                          *)
LEMMA ActsAreNext == (FramesInv /\ ActsRight => ActsInv)'
<1>1. FramesInv /\ ActsRight => ActsInv  BY ActsAre DEF ActsRight
<1> QED  BY <1>1, PTL

---------------------------------------------------------------------------
(* Frames and their activations. *)

(* Some words of a stack.                                                  *)
LEMMA Part ==
  ASSUME NEW st, st \in Seq(Word), NEW a \in Nat, NEW b \in Nat, a <= b, b <= Len(st)
  PROVE  /\ SubSeq(st, a + 1, b) \in Seq(Word) /\ Len(SubSeq(st, a + 1, b)) = b - a
         /\ \A j \in 1 .. b - a : SubSeq(st, a + 1, b)[j] = st[a + j]
<1>1. PICK n \in Nat : n = Len(st)  OBVIOUS
<1>2. b <= n  BY <1>1
<1>3. /\ a + 1 \in Int /\ b \in Int /\ \A i \in a + 1 .. b : i \in 1 .. n
      /\ b - (a + 1) + 1 = b - a /\ (~(a + 1 <= b) => b - a = 0)
      /\ \A j \in 1 .. b - a : (a + 1) + j - 1 = a + j
  BY ONLY <1>2, n \in Nat, a \in Nat, b \in Nat, a <= b
<1>4. \A i \in a + 1 .. b : st[i] \in Word  BY <1>1, <1>3, ElementOfSeq
<1>5. /\ SubSeq(st, a + 1, b) \in Seq(Word)
      /\ Len(SubSeq(st, a + 1, b)) = IF a + 1 <= b THEN b - (a + 1) + 1 ELSE 0
      /\ \A j \in 1 .. b - (a + 1) + 1 : SubSeq(st, a + 1, b)[j] = st[(a + 1) + j - 1]
  BY ONLY <1>3, <1>4, SubSeqProperties
<1> QED  BY ONLY <1>3, <1>5

(* The words of two stacks that agree on them.                             *)
LEMMA SamePart ==
  ASSUME NEW st, st \in Seq(Word), NEW st2, st2 \in Seq(Word), NEW a \in Nat, NEW b \in Nat, a <= b,
         b <= Len(st), b <= Len(st2), \A i \in a + 1 .. b : st2[i] = st[i]
  PROVE  SubSeq(st2, a + 1, b) = SubSeq(st, a + 1, b)
<1>1. /\ SubSeq(st, a + 1, b) \in Seq(Word) /\ Len(SubSeq(st, a + 1, b)) = b - a
      /\ \A j \in 1 .. b - a : SubSeq(st, a + 1, b)[j] = st[a + j]
  BY Part
<1>2. /\ SubSeq(st2, a + 1, b) \in Seq(Word) /\ Len(SubSeq(st2, a + 1, b)) = b - a
      /\ \A j \in 1 .. b - a : SubSeq(st2, a + 1, b)[j] = st2[a + j]
  BY Part
<1>3. \A j \in 1 .. b - a : a + j \in a + 1 .. b  BY ONLY a \in Nat, b \in Nat
<1>4. \A j \in 1 .. b - a : SubSeq(st2, a + 1, b)[j] = SubSeq(st, a + 1, b)[j]  BY <1>1, <1>2, <1>3
<1> QED  BY ONLY <1>1, <1>2, <1>4, SeqEqual

\* s are the n words of st above the first a.
WordsAt(s, n, st, a) == s \in Seq(Word) /\ Len(s) = n /\ \A j \in 1 .. n : s[j] = st[a + j]

(* The locals and operands of a frame are words of the stack.              *)
LEMMA FrameWords ==
  ASSUME NEW r \in Registers, NEW d \in Nat, NEW st, st \in Seq(Word), InFrame(r, d, st)
  PROVE  /\ WordsAt(LocalsOf(r, st), Code[r.method].maxLocals, st, r.var)
         /\ r.stack - d \in Nat /\ WordsAt(OperandsOf(r, d, st), d, st, r.stack - d)
<1>1. /\ r.var \in Nat /\ r.stack \in Nat /\ LocalsEnd(r) \in Nat /\ FrameEnd(r) \in Nat
      /\ Code[r.method].maxLocals \in Nat /\ LocalsEnd(r) = r.var + Code[r.method].maxLocals
      /\ r.var <= LocalsEnd(r) /\ LocalsEnd(r) + 2 <= FrameEnd(r)
  BY Sizes
<1>2. PICK n \in Nat : n = Len(st)  OBVIOUS
<1>3. LocalsEnd(r) <= r.stack /\ r.stack <= FrameEnd(r) - 2 /\ FrameEnd(r) <= n /\ d <= r.stack - LocalsEnd(r)
  <2>1. r.stack \in LocalsEnd(r) .. FrameEnd(r) - 2 /\ FrameEnd(r) <= n /\ d <= r.stack - LocalsEnd(r)
    BY <1>2 DEF InFrame, Operands
  <2> QED  BY ONLY <2>1, <1>1
<1>4. /\ r.var <= LocalsEnd(r) /\ LocalsEnd(r) <= n /\ LocalsEnd(r) - r.var = Code[r.method].maxLocals
      /\ r.stack - d \in Nat /\ r.stack - d <= r.stack /\ r.stack <= n /\ r.stack - (r.stack - d) = d
  BY ONLY <1>1, <1>3, n \in Nat, d \in Nat
<1>5. WordsAt(LocalsOf(r, st), Code[r.method].maxLocals, st, r.var)
  <2>1. /\ SubSeq(st, r.var + 1, LocalsEnd(r)) \in Seq(Word)
        /\ Len(SubSeq(st, r.var + 1, LocalsEnd(r))) = LocalsEnd(r) - r.var
        /\ \A j \in 1 .. LocalsEnd(r) - r.var : SubSeq(st, r.var + 1, LocalsEnd(r))[j] = st[r.var + j]
    <3>1. PICK v \in Nat : v = r.var  BY <1>1
    <3>2. PICK l \in Nat : l = LocalsEnd(r)  BY <1>1
    <3>3. v <= l /\ l <= Len(st)  BY <1>2, <1>4, <3>1, <3>2
    <3>4. /\ SubSeq(st, v + 1, l) \in Seq(Word) /\ Len(SubSeq(st, v + 1, l)) = l - v
          /\ \A j \in 1 .. l - v : SubSeq(st, v + 1, l)[j] = st[v + j]
      BY ONLY <3>3, v \in Nat, l \in Nat, st \in Seq(Word), Part
    <3> QED  BY ONLY <3>1, <3>2, <3>4
  <2> QED  BY ONLY <2>1, <1>4 DEF LocalsOf, WordsAt
<1>6. PICK lo \in Nat : lo = r.stack - d  BY <1>4
<1>7. WordsAt(OperandsOf(r, d, st), d, st, lo)
  <2>1. lo <= r.stack /\ r.stack <= Len(st) /\ r.stack - lo = d  BY <1>2, <1>4, <1>6
  <2>2. /\ SubSeq(st, lo + 1, r.stack) \in Seq(Word) /\ Len(SubSeq(st, lo + 1, r.stack)) = r.stack - lo
        /\ \A j \in 1 .. r.stack - lo : SubSeq(st, lo + 1, r.stack)[j] = st[lo + j]
    <3>1. PICK l \in Nat : l = r.stack  BY <1>1
    <3>2. lo <= l /\ l <= Len(st)  BY <2>1, <3>1
    <3>3. /\ SubSeq(st, lo + 1, l) \in Seq(Word) /\ Len(SubSeq(st, lo + 1, l)) = l - lo
          /\ \A j \in 1 .. l - lo : SubSeq(st, lo + 1, l)[j] = st[lo + j]
      BY ONLY <3>2, lo \in Nat, l \in Nat, st \in Seq(Word), Part
    <3> QED  BY ONLY <3>1, <3>3
  <2>3. OperandsOf(r, d, st) = SubSeq(st, lo + 1, r.stack)  BY <1>6 DEF OperandsOf
  <2> QED  BY ONLY <2>1, <2>2, <2>3 DEF WordsAt
<1> QED  BY <1>5, <1>6, <1>7

(* An activation is determined by the words of its frame.                  *)
LEMMA SameWords ==
  ASSUME NEW r \in Registers, NEW d \in Nat, NEW st, st \in Seq(Word), InFrame(r, d, st),
         NEW st2, st2 \in Seq(Word), FrameEnd(r) <= Len(st2), \A j \in 1 .. FrameEnd(r) : st2[j] = st[j]
  PROVE  LocalsOf(r, st2) = LocalsOf(r, st) /\ OperandsOf(r, d, st2) = OperandsOf(r, d, st)
<1>1. /\ r.var \in Nat /\ r.stack \in Nat /\ LocalsEnd(r) \in Nat /\ FrameEnd(r) \in Nat
      /\ r.var <= LocalsEnd(r) /\ LocalsEnd(r) + 2 <= FrameEnd(r)
  BY Sizes
<1>2. PICK n \in Nat : n = Len(st)  OBVIOUS
<1>3. PICK n2 \in Nat : n2 = Len(st2)  OBVIOUS
<1>4. LocalsEnd(r) <= r.stack /\ r.stack <= FrameEnd(r) - 2 /\ FrameEnd(r) <= n /\ d <= r.stack - LocalsEnd(r)
  <2>1. r.stack \in LocalsEnd(r) .. FrameEnd(r) - 2 /\ FrameEnd(r) <= n /\ d <= r.stack - LocalsEnd(r)
    BY <1>2 DEF InFrame, Operands
  <2> QED  BY ONLY <2>1, <1>1
<1>5. PICK lo \in Nat : lo = r.stack - d
  <2>1. r.stack - d \in Nat  BY ONLY <1>1, <1>4, d \in Nat
  <2> QED  BY <2>1
<1>6. FrameEnd(r) <= n2  BY <1>3
<1>7. /\ LocalsEnd(r) <= n /\ LocalsEnd(r) <= n2 /\ r.stack <= n /\ r.stack <= n2 /\ lo <= r.stack
      /\ \A j \in r.var + 1 .. LocalsEnd(r) : j \in 1 .. FrameEnd(r)
      /\ \A j \in lo + 1 .. r.stack : j \in 1 .. FrameEnd(r)
  BY ONLY <1>1, <1>4, <1>5, <1>6, n \in Nat, n2 \in Nat, d \in Nat
<1>8. LocalsOf(r, st2) = LocalsOf(r, st)
  <2>1. \A j \in r.var + 1 .. LocalsEnd(r) : st2[j] = st[j]  BY <1>7
  <2>2. PICK v \in Nat : v = r.var  BY <1>1
  <2>3. PICK l \in Nat : l = LocalsEnd(r)  BY <1>1
  <2>4. v <= l /\ l <= Len(st) /\ l <= Len(st2)  BY <1>1, <1>2, <1>3, <1>7, <2>2, <2>3
  <2>5. \A j \in v + 1 .. l : st2[j] = st[j]  BY <2>1, <2>2, <2>3
  <2>6. SubSeq(st2, v + 1, l) = SubSeq(st, v + 1, l)
    BY ONLY <2>4, <2>5, v \in Nat, l \in Nat, st \in Seq(Word), st2 \in Seq(Word), SamePart
  <2> QED  BY <2>2, <2>3, <2>6 DEF LocalsOf
<1>9. OperandsOf(r, d, st2) = OperandsOf(r, d, st)
  <2>1. \A j \in lo + 1 .. r.stack : st2[j] = st[j]  BY <1>7
  <2>2. PICK s \in Nat : s = r.stack  BY <1>1
  <2>3. lo <= s /\ s <= Len(st) /\ s <= Len(st2)  BY <1>2, <1>3, <1>7, <2>2
  <2>4. \A j \in lo + 1 .. s : st2[j] = st[j]  BY <2>1, <2>2
  <2>5. SubSeq(st2, lo + 1, s) = SubSeq(st, lo + 1, s)
    BY ONLY <2>3, <2>4, lo \in Nat, s \in Nat, st \in Seq(Word), st2 \in Seq(Word), SamePart
  <2> QED  BY <2>2, <2>5, <1>5 DEF OperandsOf
<1> QED  BY <1>8, <1>9

(* The exception on its way through a frame is a word.                     *)
LEMMA ThrownWord ==
  ASSUME NEW F, NEW i, NEW ns, NestOK(ns), NEW a, NEW e \in Word,
         i # Len(F) => F[i + 1].nest \in 1 .. Len(ns)
  PROVE  ThrownIn(F, i, ns, a, e) \in Word
<1>1. Junk \in Word  BY Words
<1>2. CASE i = Len(F)  BY <1>1, <1>2 DEF ThrownIn, Thrown
<1>3. CASE i # Len(F)
  <2>1. PICK c : c = ns[F[i + 1].nest]  OBVIOUS
  <2>2. c \in Saved  BY <1>3, <2>1, ElementOfSeq DEF NestOK
  <2>3. c.exc \in Word  BY <2>2 DEF Saved
  <2> QED  BY <1>1, <1>3, <2>1, <2>3 DEF ThrownIn, Thrown
<1> QED  BY <1>2, <1>3

(* The frames of a stack are frames, one for each count of operands.       *)
LEMMA FramesTyped ==
  ASSUME NEW F, NEW st, NEW rg, NEW bs, NEW ns, NEW ds, Frames(F, st, rg, bs, ns, ds)
  PROVE  /\ F \in Seq(Frame) /\ Len(F) \in Nat \ {0} /\ ds \in Seq(Nat) /\ Len(ds) = Len(F)
         /\ \A i \in 1 .. Len(F) : F[i] \in Frame /\ F[i].r \in Registers
<1>1. F \in Seq(Frame) /\ Len(F) \in Nat \ {0} /\ ds \in Seq(Nat) /\ Len(ds) = Len(F)
  BY DEF Frames
<1>2. \A i \in 1 .. Len(F) : F[i] \in Frame  BY <1>1, ElementOfSeq
<1>3. \A x \in Frame : x.r \in Registers  BY DEF Frame
<1> QED  BY <1>1, <1>2, <1>3

(* The activations of frames.                                              *)
LEMMA ActsSeq ==
  ASSUME NEW F, NEW st \in Seq(Word), NEW rg \in Registers, NEW bs \in Nat, NEW ns, NEW ds,
         NestOK(ns), NEW a, NEW e \in Word, Frames(F, st, rg, bs, ns, ds),
         NEW A, A = ActsOf(F, st, ns, ds, a, e)
  PROVE  /\ A \in Seq(Activation) /\ Len(A) = Len(F)
         /\ \A i \in 1 .. Len(F) :
              /\ A[i] = ActOf(F[i], st, ds[i], ThrownIn(F, i, ns, a, e))
              /\ A[i] \in Activation
              /\ F[i] \in Frame /\ F[i].r \in Registers /\ ds[i] \in Nat /\ InFrame(F[i].r, ds[i], st)
<1>0. Len(ns) \in Nat  BY DEF NestOK
<1>1. /\ F \in Seq(Frame) /\ Len(F) \in Nat \ {0} /\ ds \in Seq(Nat) /\ Len(ds) = Len(F)
      /\ \A i \in 1 .. Len(F) : F[i] \in Frame /\ F[i].r \in Registers
  BY FramesTyped
<1>2. PICK n \in Nat : n = Len(F)  BY <1>1
<1>3. \A i \in 1 .. n : i # n => i + 1 \in 1 .. n  BY ONLY n \in Nat
<1>4. ASSUME NEW i \in 1 .. n
      PROVE  /\ ActOf(F[i], st, ds[i], ThrownIn(F, i, ns, a, e)) \in Activation
             /\ ds[i] \in Nat /\ InFrame(F[i].r, ds[i], st)
  <2>1. FrameAt(F, i, st, ns, ds)  BY <1>2 DEF Frames
  <2>2. ds[i] \in Nat /\ InFrame(F[i].r, ds[i], st) /\ F[i].r \in Registers
    BY <2>1, <1>1, <1>2, ElementOfSeq DEF FrameAt
  <2>3. LocalsOf(F[i].r, st) \in Seq(Word) /\ OperandsOf(F[i].r, ds[i], st) \in Seq(Word)
    BY <2>2, FrameWords DEF WordsAt
  <2>4. ThrownIn(F, i, ns, a, e) \in Word
    <3>1. i # n => FrameAt(F, i + 1, st, ns, ds)  BY <1>2, <1>3 DEF Frames
    <3>2. i # Len(F) => F[i + 1].nest \in 1 .. Len(ns)  BY <3>1, <1>2 DEF FrameAt
    <3> QED  BY <3>2, ThrownWord
  <2>5. F[i].r.method \in Method /\ F[i].r.pc \in Nat  BY <2>2 DEF Registers
  <2>6. (F[i].r.var = F[i].base + 3) \in BOOLEAN  OBVIOUS
  <2> QED  BY <2>2, <2>3, <2>4, <2>5, <2>6 DEF ActOf, Activation
<1>5. A = [i \in 1 .. n |-> ActOf(F[i], st, ds[i], ThrownIn(F, i, ns, a, e))]  BY <1>2 DEF ActsOf
<1>6. A \in Seq(Activation) /\ Len(A) = n
  <2>1. \A i \in 1 .. n : ActOf(F[i], st, ds[i], ThrownIn(F, i, ns, a, e)) \in Activation  BY <1>4
  <2> QED  BY ONLY <2>1, <1>5, n \in Nat
<1>7. \A i \in 1 .. n : A[i] = ActOf(F[i], st, ds[i], ThrownIn(F, i, ns, a, e))  BY ONLY <1>5
<1> QED  BY <1>1, <1>2, <1>4, <1>6, <1>7

\* G and F lead on in the same way from their p-th frames: stacks, C stacks and depths agree below.
LeadOn(p, F, st, ns, ds, G, st2, ns2, ds2) ==
  /\ p \in Nat \ {0} /\ p <= Len(F) /\ p <= Len(G)
  /\ G[p].r.var = F[p].r.var /\ G[p].base = F[p].base /\ G[p].nest = F[p].nest
  /\ \A j \in 1 .. F[p].r.var : st2[j] = st[j]
  /\ \A j \in 1 .. F[p].nest : ns2[j] = ns[j]
  /\ \A j \in 1 .. p - 1 : ds2[j] = ds[j]

(* Then the frames below are the same.                                     *)
LEMMA SameBelow ==
  ASSUME NEW F, NEW st \in Seq(Word), NEW rg \in Registers, NEW bs \in Nat, NEW ns, NEW ds,
         NestOK(ns), Frames(F, st, rg, bs, ns, ds),
         NEW G, NEW st2 \in Seq(Word), NEW rg2 \in Registers, NEW bs2 \in Nat, NEW ns2, NEW ds2,
         NestOK(ns2), Frames(G, st2, rg2, bs2, ns2, ds2),
         NEW p, LeadOn(p, F, st, ns, ds, G, st2, ns2, ds2)
  PROVE  \A i \in 1 .. p - 1 : G[i] = F[i]
<1>0. Len(ns) \in Nat /\ Len(ns2) \in Nat  BY DEF NestOK
<1>1. /\ Len(F) \in Nat \ {0}
      /\ \A i \in 1 .. Len(F) :
           /\ F[i].r \in Registers /\ F[i].nest \in Nat
           /\ FrameEnd(F[i].r) \in Nat /\ FrameEnd(F[i].r) <= Len(st)
           /\ F[i].r.var \in Nat /\ F[i].r.var + 2 <= FrameEnd(F[i].r)
  BY <1>0, FrameFacts
<1>2. /\ Len(G) \in Nat \ {0}
      /\ \A i \in 1 .. Len(G) :
           /\ FrameEnd(G[i].r) \in Nat /\ FrameEnd(G[i].r) <= Len(st2)
           /\ G[i].r.var \in Nat /\ G[i].r.var + 2 <= FrameEnd(G[i].r)
  BY <1>0, FrameFacts
<1>3. /\ p \in Nat \ {0} /\ p <= Len(F) /\ p <= Len(G)
      /\ G[p].r.var = F[p].r.var /\ G[p].base = F[p].base /\ G[p].nest = F[p].nest
      /\ \A j \in 1 .. F[p].r.var : st2[j] = st[j]
      /\ \A j \in 1 .. F[p].nest : ns2[j] = ns[j]
  BY DEF LeadOn
<1>4. PICK n \in Nat : n = Len(F)  BY <1>1
<1>5. PICK m \in Nat : m = Len(G)  BY <1>2
<1>6. p \in Nat /\ p # 0 /\ p <= n /\ p <= m  BY <1>3, <1>4, <1>5
<1>7. \A i \in 1 .. p : i \in 1 .. n /\ i \in 1 .. m /\ p \in 1 .. n  BY ONLY <1>6, n \in Nat, m \in Nat
<1> DEFINE S == {i \in 1 .. p - 1 : G[i] # F[i]}
<1>8. ASSUME S # {} PROVE FALSE
  <2>1. p - 1 \in Nat  BY ONLY <1>6
  <2>2. PICK x \in S : \A y \in S : y <= x
    <3>1. PICK q \in Nat : q = p - 1  BY <2>1
    <3>2. S \in SUBSET (1 .. q)  BY <3>1
    <3> HIDE DEF S
    <3> QED  BY <1>8, <3>2, GreatestOf
  <2>3. x \in 1 .. p - 1 /\ G[x] # F[x]  OBVIOUS
  <2>4. PICK i \in Nat : i = x + 1
    <3>1. x + 1 \in Nat  BY ONLY <2>3, <1>6
    <3> QED  BY <3>1
  <2>5. i \in 1 .. p /\ i > 1 /\ i - 1 = x /\ ~(i <= x)  BY ONLY <2>1, <2>3, <2>4, <1>6
  <2>6. G[i].r.var = F[i].r.var /\ G[i].base = F[i].base /\ G[i].nest = F[i].nest
    <3>1. CASE i = p  BY <3>1, <1>3
    <3>2. CASE i # p
      <4>1. i \in 1 .. p - 1  BY ONLY <2>5, <3>2, <1>6
      <4>2. i \notin S  BY <2>2, <2>5
      <4> QED  BY <4>1, <4>2
    <3> QED  BY <3>1, <3>2
  <2> HIDE DEF S
  <2>7. F[i].r.var <= F[p].r.var /\ F[i].nest <= F[p].nest
    <3>1. CASE i = p
      <4>0. i \in 1 .. Len(F)  BY <1>4, <1>7, <2>5
      <4>1. PICK y \in Nat : y = F[p].r.var  BY <3>1, <4>0, <1>1
      <4>2. PICK z \in Nat : z = F[p].nest  BY <1>1, <1>4, <1>7, <2>5
      <4>3. F[i].r.var = y /\ y <= y /\ F[i].nest = z /\ z <= z  BY <3>1, <4>1, <4>2
      <4> QED  BY <4>1, <4>2, <4>3
    <3>2. CASE i # p
      <4>1. i \in 1 .. n /\ p \in 1 .. n  BY <2>5, <1>7
      <4>2. i < p  BY ONLY <2>5, <3>2, <1>6
      <4>3. FrameEnd(F[i].r) + 3 <= F[p].r.var /\ F[i].nest <= F[p].nest  BY <4>1, <4>2, <1>4 DEF Frames, Ordered
      <4>4. /\ FrameEnd(F[i].r) \in Nat /\ F[i].r.var \in Nat /\ F[p].r.var \in Nat
            /\ F[i].r.var + 2 <= FrameEnd(F[i].r)
        BY <4>1, <1>1, <1>4
      <4>5. PICK u \in Nat : u = F[i].r.var  BY <4>4
      <4>6. PICK y \in Nat : y = F[p].r.var  BY <4>4
      <4>7. PICK z \in Nat : z = FrameEnd(F[i].r)  BY <4>4
      <4>8. z + 3 <= y /\ u + 2 <= z  BY <4>3, <4>4, <4>5, <4>6, <4>7
      <4>9. u <= y  BY ONLY <4>8, u \in Nat, y \in Nat, z \in Nat
      <4> QED  BY <4>3, <4>5, <4>6, <4>9
    <3> QED  BY <3>1, <3>2
  <2>8. PICK v \in Nat : v = F[i].r.var  BY <2>5, <1>1, <1>4, <1>7
  <2>9. PICK vp \in Nat : vp = F[p].r.var  BY <2>5, <1>1, <1>4, <1>7
  <2>10. v <= vp  BY <2>7, <2>8, <2>9
  <2>11. v <= Len(st) /\ v <= Len(st2)
    <3>1. PICK a \in Nat : a = Len(st)  OBVIOUS
    <3>2. PICK b \in Nat : b = Len(st2)  OBVIOUS
    <3>3. FrameEnd(F[i].r) \in Nat /\ FrameEnd(F[i].r) <= a /\ v + 2 <= FrameEnd(F[i].r)
      BY <2>5, <2>8, <3>1, <1>1, <1>4, <1>7
    <3>4. FrameEnd(G[i].r) \in Nat /\ FrameEnd(G[i].r) <= b /\ v + 2 <= FrameEnd(G[i].r)
      BY <2>5, <2>6, <2>8, <3>2, <1>2, <1>5, <1>7
    <3>5. v <= a /\ v <= b  BY ONLY <3>3, <3>4, v \in Nat, a \in Nat, b \in Nat
    <3> QED  BY <3>1, <3>2, <3>5
  <2>12. SubSeq(st2, 1, v) = SubSeq(st, 1, v)
    <3>1. \A j \in 1 .. v : j \in 1 .. vp  BY ONLY <2>10, v \in Nat, vp \in Nat
    <3>2. \A j \in 1 .. v : st2[j] = st[j]  BY <3>1, <2>9, <1>3
    <3> QED  BY <3>2, <2>11, SamePrefix
  <2>13. FrameAt(F, i, st, ns, ds) /\ FrameAt(G, i, st2, ns2, ds2)  BY <2>5, <1>4, <1>5, <1>7 DEF Frames
  <2>14. ns2[F[i].nest] = ns[F[i].nest]
    <3>1. F[i].nest \in 1 .. Len(ns)  BY <2>13 DEF FrameAt
    <3>2. PICK a \in Nat : a = Len(ns)  BY <1>0
    <3>3. F[i].nest \in 1 .. a /\ F[i].nest <= F[p].nest /\ F[p].nest \in Nat
      BY <3>1, <3>2, <2>5, <2>7, <1>1, <1>4, <1>7
    <3>4. F[i].nest \in 1 .. F[p].nest  BY ONLY <3>3, a \in Nat
    <3> QED  BY <3>4, <1>3
  <2>15. Below(G[i], st2, ns2) = Below(F[i], st, ns)  BY <2>6, <2>8, <2>12, <2>14 DEF Below
  <2>16. F[i - 1] = Below(F[i], st, ns) /\ G[i - 1] = Below(G[i], st2, ns2)  BY <2>5, <2>13 DEF FrameAt
  <2> QED  BY <2>3, <2>5, <2>15, <2>16
<1> QED  BY <1>8

\* A are the activations of the frames F.
IsActs(A, F, st, rg, bs, ns, ds, a, e) ==
  /\ st \in Seq(Word) /\ rg \in Registers /\ bs \in Nat /\ NestOK(ns) /\ e \in Word
  /\ Frames(F, st, rg, bs, ns, ds) /\ A = ActsOf(F, st, ns, ds, a, e)

(* And so are their activations.                                           *)
LEMMA ActsBelow ==
  ASSUME NEW A, NEW F, NEW st, NEW rg, NEW bs, NEW ns, NEW ds, NEW a, NEW e,
         IsActs(A, F, st, rg, bs, ns, ds, a, e),
         NEW B, NEW G, NEW st2, NEW rg2, NEW bs2, NEW ns2, NEW ds2, NEW a2, NEW e2,
         IsActs(B, G, st2, rg2, bs2, ns2, ds2, a2, e2),
         NEW p, LeadOn(p, F, st, ns, ds, G, st2, ns2, ds2)
  PROVE  \A i \in 1 .. p - 1 : B[i] = A[i]
<1>a. /\ st \in Seq(Word) /\ rg \in Registers /\ bs \in Nat /\ NestOK(ns) /\ e \in Word
      /\ Frames(F, st, rg, bs, ns, ds) /\ A = ActsOf(F, st, ns, ds, a, e)
  BY DEF IsActs
<1>b. /\ st2 \in Seq(Word) /\ rg2 \in Registers /\ bs2 \in Nat /\ NestOK(ns2) /\ e2 \in Word
      /\ Frames(G, st2, rg2, bs2, ns2, ds2) /\ B = ActsOf(G, st2, ns2, ds2, a2, e2)
  BY DEF IsActs
<1> USE <1>a, <1>b
<1>0. Len(ns) \in Nat /\ Len(ns2) \in Nat  BY DEF NestOK
<1>1. /\ Len(F) \in Nat \ {0}
      /\ \A i \in 1 .. Len(F) :
           /\ F[i].r \in Registers /\ F[i].nest \in Nat
           /\ FrameEnd(F[i].r) \in Nat /\ FrameEnd(F[i].r) <= Len(st)
           /\ F[i].r.var \in Nat /\ F[i].r.var + 2 <= FrameEnd(F[i].r)
  BY <1>0, FrameFacts
<1>2. /\ Len(G) \in Nat \ {0}
      /\ \A i \in 1 .. Len(G) :
           FrameEnd(G[i].r) \in Nat /\ FrameEnd(G[i].r) <= Len(st2)
  BY <1>0, FrameFacts
<1>3. /\ p \in Nat \ {0} /\ p <= Len(F) /\ p <= Len(G)
      /\ G[p].r.var = F[p].r.var /\ G[p].base = F[p].base /\ G[p].nest = F[p].nest
      /\ \A j \in 1 .. F[p].r.var : st2[j] = st[j]
      /\ \A j \in 1 .. F[p].nest : ns2[j] = ns[j]
      /\ \A j \in 1 .. p - 1 : ds2[j] = ds[j]
  BY DEF LeadOn
<1>4. PICK n \in Nat : n = Len(F)  BY <1>1
<1>5. PICK m \in Nat : m = Len(G)  BY <1>2
<1>6. p \in Nat /\ p # 0 /\ p <= n /\ p <= m  BY <1>3, <1>4, <1>5
<1>7. \A i \in 1 .. p - 1 : /\ i \in 1 .. n /\ i \in 1 .. m /\ p \in 1 .. n /\ p \in 1 .. m /\ i < p /\ i # n /\ i # m
                            /\ i + 1 \in 1 .. n /\ i + 1 \in 1 .. m /\ (i + 1 \in 1 .. p - 1 \/ i + 1 = p)
  BY ONLY <1>6, n \in Nat, m \in Nat
<1>8. \A i \in 1 .. p - 1 : G[i] = F[i]  BY SameBelow
<1>9. ASSUME NEW i \in 1 .. p - 1
      PROVE  ThrownIn(G, i, ns2, a2, e2) = ThrownIn(F, i, ns, a, e)
  <2>1. i # Len(F) /\ i # Len(G)  BY <1>4, <1>5, <1>7
  <2>2. G[i + 1].r.var = F[i + 1].r.var /\ G[i + 1].base = F[i + 1].base /\ G[i + 1].nest = F[i + 1].nest
    BY <1>3, <1>7, <1>8
  <2>3. ns2[F[i + 1].nest] = ns[F[i + 1].nest]
    <3>1. F[i + 1].nest <= F[p].nest
      <4>1. CASE i + 1 = p
        <5>1. PICK z \in Nat : z = F[p].nest  BY <1>1, <1>4, <1>7
        <5>2. F[i + 1].nest = z /\ z <= z  BY <4>1, <5>1
        <5> QED  BY <5>1, <5>2
      <4>2. CASE i + 1 \in 1 .. p - 1
        <5>1. i + 1 < p /\ i + 1 \in 1 .. n /\ p \in 1 .. n  BY <4>2, <1>7
        <5> QED  BY <5>1, <1>4 DEF Frames, Ordered
      <4> QED  BY <4>1, <4>2, <1>7
    <3>2. FrameAt(F, i + 1, st, ns, ds)  BY <1>4, <1>7 DEF Frames
    <3>3. F[i + 1].nest \in 1 .. Len(ns)  BY <3>2 DEF FrameAt
    <3>4. PICK l \in Nat : l = Len(ns)  BY <1>0
    <3>5. F[i + 1].nest \in 1 .. l /\ F[p].nest \in Nat  BY <3>3, <3>4, <1>1, <1>4, <1>7
    <3>6. F[i + 1].nest \in 1 .. F[p].nest  BY ONLY <3>1, <3>5, l \in Nat
    <3> QED  BY <3>6, <1>3
  <2> QED  BY <2>1, <2>2, <2>3 DEF ThrownIn
<1>10. ASSUME NEW i \in 1 .. p - 1 PROVE B[i] = A[i]
  <2>1. A[i] = ActOf(F[i], st, ds[i], ThrownIn(F, i, ns, a, e))  BY <1>4, <1>7 DEF ActsOf
  <2>2. B[i] = ActOf(G[i], st2, ds2[i], ThrownIn(G, i, ns2, a2, e2))  BY <1>5, <1>7 DEF ActsOf
  <2>3. G[i] = F[i] /\ ds2[i] = ds[i]  BY <1>3, <1>8
  <2>4. LocalsOf(F[i].r, st2) = LocalsOf(F[i].r, st) /\ OperandsOf(F[i].r, ds[i], st2) = OperandsOf(F[i].r, ds[i], st)
    <3>1. i \in 1 .. Len(F) /\ i \in 1 .. Len(G)  BY <1>4, <1>5, <1>7
    <3>2. FrameAt(F, i, st, ns, ds)  BY <3>1 DEF Frames
    <3>3. InFrame(F[i].r, ds[i], st) /\ F[i].r \in Registers  BY <3>1, <3>2, <1>1 DEF FrameAt
    <3>4. ds[i] \in Nat  BY <3>1, ElementOfSeq DEF Frames
    <3>5. FrameEnd(F[i].r) <= Len(st2)  BY <3>1, <2>3, <1>2
    <3>6. FrameEnd(F[i].r) + 3 <= F[p].r.var  BY <1>4, <1>7 DEF Frames, Ordered
    <3>7. FrameEnd(F[i].r) \in Nat /\ F[p].r.var \in Nat  BY <1>1, <1>4, <1>7
    <3>8. \A j \in 1 .. FrameEnd(F[i].r) : j \in 1 .. F[p].r.var
      <4>1. PICK y \in Nat : y = F[p].r.var  BY <3>7
      <4>2. PICK z \in Nat : z = FrameEnd(F[i].r)  BY <3>7
      <4>3. z + 3 <= y  BY <3>6, <4>1, <4>2
      <4>4. \A j \in 1 .. z : j \in 1 .. y  BY ONLY <4>3, y \in Nat, z \in Nat
      <4> QED  BY <4>1, <4>2, <4>4
    <3>9. \A j \in 1 .. FrameEnd(F[i].r) : st2[j] = st[j]  BY <3>8, <1>3
    <3> QED  BY <3>3, <3>4, <3>5, <3>9, SameWords
  <2> QED  BY <2>1, <2>2, <2>3, <2>4, <1>9 DEF ActOf
<1> QED  BY <1>10

---------------------------------------------------------------------------
(* Sequences of activations. *)

(* Another top element.                                                    *)
LEMMA OtherTop ==
  ASSUME NEW S, NEW A, A \in Seq(S), NEW B, B \in Seq(S), NEW n \in Nat \ {0}, Len(A) = n, Len(B) = n,
         \A i \in 1 .. n - 1 : B[i] = A[i]
  PROVE  /\ A # << >> /\ B # << >> /\ Front(B) = Front(A) /\ Last(A) = A[n] /\ Last(B) = B[n]
         /\ B = Append(Front(A), B[n])
<1>1. /\ Front(A) \in Seq(S) /\ Len(Front(A)) = n - 1 /\ \A i \in 1 .. n - 1 : Front(A)[i] = A[i]
  BY FrontOf
<1>2. /\ Front(B) \in Seq(S) /\ Len(Front(B)) = n - 1 /\ \A i \in 1 .. n - 1 : Front(B)[i] = B[i]
  BY FrontOf
<1>3. Front(B) = Front(A)
  <2>1. PICK m \in Nat : m = n - 1
    <3>1. n - 1 \in Nat  BY ONLY n \in Nat \ {0}
    <3> QED  BY <3>1
  <2>2. /\ Front(A) \in Seq(S) /\ Len(Front(A)) = m /\ Front(B) \in Seq(S) /\ Len(Front(B)) = m
        /\ \A i \in 1 .. m : Front(B)[i] = Front(A)[i]
    BY <1>1, <1>2, <2>1
  <2> QED  BY ONLY <2>2, SeqEqual
<1>4. B[n] \in S
  <2>1. n \in 1 .. n  BY ONLY n \in Nat \ {0}
  <2> QED  BY <2>1, ElementOfSeq
<1>5. B = Append(Front(A), B[n])
  <2>1. PICK C : C = Append(Front(A), B[n])  OBVIOUS
  <2>2. /\ C \in Seq(S) /\ Len(C) = (n - 1) + 1 /\ C[(n - 1) + 1] = B[n]
        /\ \A i \in 1 .. n - 1 : C[i] = Front(A)[i]
    BY <1>1, <1>4, <2>1, AppendProperties
  <2>3. (n - 1) + 1 = n /\ \A i \in 1 .. n : i \in 1 .. n - 1 \/ i = n  BY ONLY n \in Nat \ {0}
  <2>4. \A i \in 1 .. n : C[i] = B[i]  BY ONLY <1>1, <2>2, <2>3, \A i \in 1 .. n - 1 : B[i] = A[i]
  <2>5. Len(C) = n  BY ONLY <2>2, <2>3
  <2> QED  BY <2>1, <2>2, <2>4, <2>5, SeqEqual
<1> QED  BY <1>3, <1>5 DEF Last

(* One more on top.                                                        *)
LEMMA OneMore ==
  ASSUME NEW S, NEW A, A \in Seq(S), NEW B, B \in Seq(S), NEW n \in Nat, Len(A) = n, Len(B) = n + 1,
         \A i \in 1 .. n : B[i] = A[i]
  PROVE  B # << >> /\ Last(B) = B[n + 1] /\ B = Append(A, B[n + 1])
<1>1. n + 1 \in 1 .. n + 1 /\ \A i \in 1 .. n + 1 : i \in 1 .. n \/ i = n + 1  BY ONLY n \in Nat
<1>2. B[n + 1] \in S  BY <1>1, ElementOfSeq
<1>3. PICK C : C = Append(A, B[n + 1])  OBVIOUS
<1>4. /\ C \in Seq(S) /\ Len(C) = n + 1 /\ C[n + 1] = B[n + 1] /\ \A i \in 1 .. n : C[i] = A[i]
  BY <1>2, <1>3, AppendProperties
<1>5. \A i \in 1 .. n + 1 : C[i] = B[i]  BY ONLY <1>1, <1>4, \A i \in 1 .. n : B[i] = A[i]
<1>6. C = B  BY <1>4, <1>5, SeqEqual
<1> QED  BY <1>3, <1>6 DEF Last

(* One less.                                                               *)
LEMMA OneLess ==
  ASSUME NEW S, NEW A, A \in Seq(S), NEW B, B \in Seq(S), NEW n \in Nat \ {0}, Len(A) = n, Len(B) = n - 1,
         \A i \in 1 .. n - 1 : B[i] = A[i]
  PROVE  B = Front(A)
<1>1. PICK m \in Nat : m = n - 1
  <2>1. n - 1 \in Nat  BY ONLY n \in Nat \ {0}
  <2> QED  BY <2>1
<1>2. /\ Front(A) \in Seq(S) /\ Len(Front(A)) = n - 1 /\ \A i \in 1 .. n - 1 : Front(A)[i] = A[i]
  BY FrontOf
<1>3. /\ Front(A) \in Seq(S) /\ Len(Front(A)) = m /\ B \in Seq(S) /\ Len(B) = m
      /\ \A i \in 1 .. m : Front(A)[i] = B[i]
  BY <1>1, <1>2
<1> QED  BY ONLY <1>3, SeqEqual

(* An activation that differs in its pc, locals and operands.              *)
LEMMA SameBut ==
  ASSUME NEW x \in Activation, NEW y \in Activation,
         y.method = x.method, y.thrown = x.thrown, y.entry = x.entry
  PROVE  y = [x EXCEPT !.pc = y.pc, !.locals = y.locals, !.operands = y.operands]
BY DEF Activation

---------------------------------------------------------------------------
(* The running activation. *)

TopAct ==
  [method |-> regs.method, pc |-> regs.pc, locals |-> LocalsOf(regs, vmStack),
   operands |-> OperandsOf(regs, Depth, vmStack), thrown |-> Thrown(at, exc), entry |-> regs.var = base + 3]

\* acts are the activations of the frames F.
ActsGood(F) ==
  /\ NestOK(nest) /\ acts \in Seq(Activation) /\ Len(F) \in Nat \ {0} /\ Len(acts) = Len(F) /\ Len(depths) = Len(F)
  /\ F[Len(F)] = [r |-> regs, base |-> base, nest |-> Len(nest)]
  /\ acts = ActsOf(F, vmStack, nest, depths, at, exc)
  /\ acts[Len(F)] = TopAct /\ TopAct \in Activation
  /\ Depth \in Nat /\ InFrame(regs, Depth, vmStack)
  /\ WordsAt(TopAct.locals, Code[regs.method].maxLocals, vmStack, regs.var)
  /\ regs.stack - Depth \in Nat /\ WordsAt(TopAct.operands, Depth, vmStack, regs.stack - Depth)

GoodActs ==
  FramesInv /\ ActsInv /\ Running =>
    \A F : Frames(F, vmStack, regs, base, nest, depths) => ActsGood(F)

(* What is known of them.                                                  *)
LEMMA ActsFacts == GoodActs
<1> SUFFICES ASSUME FramesInv, ActsInv, Running, NEW F, Frames(F, vmStack, regs, base, nest, depths)
             PROVE  ActsGood(F)
  BY DEF GoodActs
<1>1. regs \in Registers /\ base \in Nat /\ vmStack \in Seq(Word) /\ exc \in Word /\ NestOK(nest)
  BY DEF FramesInv, TypesOK
<1>2. acts = ActsOf(F, vmStack, nest, depths, at, exc)  BY DEF ActsInv
<1>3. Len(F) \in Nat \ {0} /\ Len(depths) = Len(F) /\ F[Len(F)] = [r |-> regs, base |-> base, nest |-> Len(nest)]
  BY DEF Frames
<1>4. PICK n \in Nat \ {0} : n = Len(F)  BY <1>3
<1>5. n \in 1 .. n  BY ONLY n \in Nat \ {0}
<1>6. /\ acts \in Seq(Activation) /\ Len(acts) = Len(F)
      /\ \A i \in 1 .. Len(F) :
           acts[i] = ActOf(F[i], vmStack, depths[i], ThrownIn(F, i, nest, at, exc)) /\ acts[i] \in Activation
  BY <1>1, <1>2, ActsSeq
<1>7. Depth = depths[n] /\ Depth \in Nat /\ InFrame(regs, Depth, vmStack)
  <2>1. InFrame(regs, depths[Len(depths)], vmStack) /\ Depth = depths[Len(depths)] /\ Depth \in Nat
    BY RunningFacts
  <2> QED  BY <2>1, <1>3, <1>4
<1>8. acts[n] = ActOf(F[n], vmStack, depths[n], ThrownIn(F, n, nest, at, exc)) /\ acts[n] \in Activation
  BY <1>4, <1>5, <1>6
<1>9. acts[n] = TopAct
  <2>1. ThrownIn(F, n, nest, at, exc) = Thrown(at, exc)  BY <1>4 DEF ThrownIn
  <2>2. F[n].r = regs /\ F[n].base = base  BY <1>3, <1>4
  <2> QED  BY <2>1, <2>2, <1>7, <1>8 DEF ActOf, TopAct
<1>10. TopAct.locals = LocalsOf(regs, vmStack) /\ TopAct.operands = OperandsOf(regs, Depth, vmStack)  BY DEF TopAct
<1>11. /\ WordsAt(TopAct.locals, Code[regs.method].maxLocals, vmStack, regs.var)
       /\ regs.stack - Depth \in Nat /\ WordsAt(TopAct.operands, Depth, vmStack, regs.stack - Depth)
  BY <1>1, <1>7, <1>10, FrameWords
<1> QED  BY <1>1, <1>2, <1>3, <1>4, <1>6, <1>7, <1>8, <1>9, <1>11 DEF ActsGood

(* The same of the next state.                                             *)
LEMMA ActsFactsNext == GoodActs'
BY ActsFacts, PTL

---------------------------------------------------------------------------
(* Steps. *)

\* What a step finds on top of acts.
TopGood ==
  /\ acts # << >> /\ Last(acts) = TopAct /\ TopAct \in Activation
  /\ regs \in Registers /\ vmStack \in Seq(Word) /\ Depth \in Nat /\ InFrame(regs, Depth, vmStack)
  /\ WordsAt(TopAct.locals, Code[regs.method].maxLocals, vmStack, regs.var)
  /\ regs.stack - Depth \in Nat /\ WordsAt(TopAct.operands, Depth, vmStack, regs.stack - Depth)

(* The running activation is the last one.                                 *)
LEMMA TopFacts == FramesInv /\ ActsInv /\ Running => TopGood
<1> SUFFICES ASSUME FramesInv, ActsInv, Running PROVE TopGood  OBVIOUS
<1>1. PICK F : Frames(F, vmStack, regs, base, nest, depths)  BY DEF FramesInv
<1>2. ActsGood(F)  BY <1>1, ActsFacts DEF GoodActs
<1>3. Last(acts) = acts[Len(F)] /\ acts # << >>
  <2>1. acts \in Seq(Activation) /\ Len(acts) = Len(F) /\ Len(F) \in Nat \ {0}  BY <1>2 DEF ActsGood
  <2> QED  BY <2>1 DEF Last
<1>4. regs \in Registers /\ vmStack \in Seq(Word)  BY DEF FramesInv, TypesOK
<1> QED  BY <1>2, <1>3, <1>4 DEF ActsGood, TopGood

(* The same of the next state.                                             *)
LEMMA TopFactsNext == (FramesInv /\ ActsInv /\ Running => TopGood)'
BY TopFacts, PTL

\* This state and the next are as the lemmas on acts want them.
Going == FramesInv /\ ActsInv /\ Running
GoingOn == Going /\ Going'

(* A step of the running activation leaves those below alone.              *)
LEMMA TopStep ==
  ASSUME GoingOn, base' = base, nest' = nest, regs'.var = regs.var,
         \A j \in 1 .. regs.var : vmStack'[j] = vmStack[j], NEW d, OtherLast(depths', depths, d)
  PROVE  /\ TopGood /\ TopGood' /\ Front(acts') = Front(acts)
         /\ acts' = Append(Front(acts), TopAct')
<1>1. TopGood /\ TopGood'  BY TopFacts, TopFactsNext DEF GoingOn, Going
<1>2. PICK F : Frames(F, vmStack, regs, base, nest, depths)  BY DEF GoingOn, Going, FramesInv
<1>3. PICK G : Frames(G, vmStack', regs', base', nest', depths')  BY DEF GoingOn, Going, FramesInv
<1>4. ActsGood(F)  BY <1>2, ActsFacts DEF GoodActs, GoingOn, Going
<1>5. ActsGood(G)'  BY <1>3, ActsFactsNext DEF GoodActs, GoingOn, Going
<1>6. /\ NestOK(nest) /\ acts \in Seq(Activation) /\ Len(F) \in Nat \ {0} /\ Len(acts) = Len(F) /\ Len(depths) = Len(F)
      /\ F[Len(F)] = [r |-> regs, base |-> base, nest |-> Len(nest)]
      /\ acts = ActsOf(F, vmStack, nest, depths, at, exc)
  BY <1>4 DEF ActsGood
<1>7. /\ NestOK(nest') /\ acts' \in Seq(Activation) /\ Len(acts') = Len(G) /\ Len(depths') = Len(G)
      /\ G[Len(G)] = [r |-> regs', base |-> base', nest |-> Len(nest')]
      /\ acts' = ActsOf(G, vmStack', nest', depths', at', exc')
  BY <1>5 DEF ActsGood
<1>8. PICK n \in Nat \ {0} : n = Len(F)  BY <1>6
<1>9. Len(G) = n /\ \A i \in 1 .. n - 1 : depths'[i] = depths[i]  BY <1>6, <1>7, <1>8 DEF OtherLast
<1>10. LeadOn(n, F, vmStack, nest, depths, G, vmStack', nest', depths')
  <2>1. n \in Nat \ {0} /\ n <= n  OBVIOUS
  <2>2. G[n].r.var = F[n].r.var /\ G[n].base = F[n].base /\ G[n].nest = F[n].nest /\ F[n].r.var = regs.var
    BY <1>6, <1>7, <1>8, <1>9
  <2>3. \A j \in 1 .. F[n].nest : nest'[j] = nest[j]  OBVIOUS
  <2> QED  BY <2>1, <2>2, <2>3, <1>8, <1>9 DEF LeadOn
<1>11. /\ vmStack \in Seq(Word) /\ regs \in Registers /\ base \in Nat /\ exc \in Word
       /\ vmStack' \in Seq(Word) /\ regs' \in Registers /\ base' \in Nat /\ exc' \in Word
  BY DEF GoingOn, Going, FramesInv, TypesOK
<1>12. \A i \in 1 .. n - 1 : acts'[i] = acts[i]
  <2>1. IsActs(acts, F, vmStack, regs, base, nest, depths, at, exc)  BY <1>2, <1>6, <1>11 DEF IsActs
  <2>2. IsActs(acts', G, vmStack', regs', base', nest', depths', at', exc')  BY <1>3, <1>7, <1>11 DEF IsActs
  <2> QED  BY ONLY <2>1, <2>2, <1>10, ActsBelow
<1>13. /\ Front(acts') = Front(acts) /\ Last(acts') = acts'[n] /\ acts' = Append(Front(acts), acts'[n])
  <2>1. Len(acts) = n /\ Len(acts') = n  BY <1>6, <1>7, <1>8, <1>9
  <2>2. PICK A : A = acts  OBVIOUS
  <2>3. PICK B : B = acts'  OBVIOUS
  <2>4. /\ A \in Seq(Activation) /\ B \in Seq(Activation) /\ Len(A) = n /\ Len(B) = n
        /\ \A i \in 1 .. n - 1 : B[i] = A[i]
    BY ONLY <2>1, <2>2, <2>3, <1>6, <1>7, <1>12
  <2>5. Front(B) = Front(A) /\ Last(B) = B[n] /\ B = Append(Front(A), B[n])
    BY ONLY <2>4, n \in Nat \ {0}, OtherTop
  <2> QED  BY ONLY <2>2, <2>3, <2>5
<1>14. Last(acts') = TopAct'  BY <1>1 DEF TopGood
<1> QED  BY <1>1, <1>13, <1>14

(* Words that a step leaves where they are.                                *)
LEMMA KeptWords ==
  ASSUME NEW s, NEW t, NEW n \in Nat, NEW m \in Nat, NEW q \in Nat, q <= n, q <= m, NEW st, NEW st2, NEW lo,
         WordsAt(s, n, st, lo), WordsAt(t, m, st2, lo), \A j \in 1 .. q : st2[lo + j] = st[lo + j]
  PROVE  /\ SubSeq(s, 1, q) \in Seq(Word) /\ Len(SubSeq(s, 1, q)) = q
         /\ SubSeq(t, 1, q) = SubSeq(s, 1, q) /\ IsPrefix(SubSeq(s, 1, q), t)
<1>1. /\ s \in Seq(Word) /\ Len(s) = n /\ \A j \in 1 .. n : s[j] = st[lo + j]
      /\ t \in Seq(Word) /\ Len(t) = m /\ \A j \in 1 .. m : t[j] = st2[lo + j]
  BY DEF WordsAt
<1>2. \A j \in 1 .. q : j \in 1 .. n /\ j \in 1 .. m  BY ONLY q \in Nat, n \in Nat, m \in Nat, q <= n, q <= m
<1>3. \A j \in 1 .. q : t[j] = s[j]  BY <1>1, <1>2
<1>4. SubSeq(t, 1, q) = SubSeq(s, 1, q)
  <2>1. q <= Len(s) /\ q <= Len(t)  BY <1>1
  <2> QED  BY ONLY <2>1, <1>1, <1>3, q \in Nat, SamePrefix
<1>5. SubSeq(s, 1, q) \in Seq(Word) /\ Len(SubSeq(s, 1, q)) = q /\ \A j \in 1 .. q : SubSeq(s, 1, q)[j] = s[j]
  <2>1. q <= Len(s)  BY <1>1
  <2> QED  BY ONLY <2>1, <1>1, q \in Nat, Prefix
<1>6. IsPrefix(SubSeq(s, 1, q), t)
  <2>1. PICK u : u = SubSeq(s, 1, q)  OBVIOUS
  <2>2. u \in Seq(Word) /\ Len(u) = q /\ SubSeq(t, 1, q) = u  BY <2>1, <1>4, <1>5
  <2>3. SubSeq(u, 1, q) = u
    <3>1. SubSeq(u, 1, q) \in Seq(Word) /\ Len(SubSeq(u, 1, q)) = q /\ \A j \in 1 .. q : SubSeq(u, 1, q)[j] = u[j]
      <4>1. q <= Len(u)  BY <2>2
      <4> QED  BY ONLY <4>1, <2>2, q \in Nat, Prefix
    <3> QED  BY ONLY <3>1, <2>2, SeqEqual
  <2>4. Len(u) <= Len(t) /\ SubSeq(u, 1, Len(u)) = SubSeq(t, 1, Len(u))  BY <2>2, <2>3, <1>1
  <2>5. IsPrefix(u, t)  BY ONLY <2>4 DEF IsPrefix
  <2> QED  BY <2>1, <2>5
<1> QED  BY <1>4, <1>5, <1>6

\* In the running frame nothing but the locals, the last n operands and what follows them changes.
OperandsKept(n) ==
  /\ base' = base /\ nest' = nest /\ regs'.var = regs.var /\ regs'.method = regs.method
  /\ n \in Nat /\ n <= Depth /\ Depth - n <= Depth'
  /\ regs'.stack - Depth' = regs.stack - Depth
  /\ \A j \in 1 .. regs.var : vmStack'[j] = vmStack[j]
  /\ \A j \in 1 .. Depth - n : vmStack'[(regs.stack - Depth) + j] = vmStack[(regs.stack - Depth) + j]
  /\ OtherLast(depths', depths, Depth')

(* What that means for acts.                                               *)
LEMMA KeptStep ==
  ASSUME GoingOn, NEW n, OperandsKept(n)
  PROVE  /\ TopGood /\ TopGood' /\ Front(acts') = Front(acts) /\ acts' = Append(Front(acts), TopAct')
         /\ TopAct'.method = TopAct.method /\ TopAct'.entry = TopAct.entry
         /\ Len(TopAct'.locals) = Len(TopAct.locals) /\ Len(TopAct.operands) = Depth /\ Len(TopAct'.operands) = Depth'
         /\ n \in Nat /\ n <= Len(TopAct.operands)
         /\ LET kept == SubSeq(TopAct.operands, 1, Len(TopAct.operands) - n) IN
            /\ kept \in Seq(Word) /\ Len(kept) = Depth - n /\ IsPrefix(kept, TopAct'.operands)
            /\ SubSeq(TopAct'.operands, 1, Depth - n) = kept
<1>1. TopGood /\ TopGood' /\ Front(acts') = Front(acts) /\ acts' = Append(Front(acts), TopAct')
  BY TopStep DEF OperandsKept
<1>2. TopAct'.method = TopAct.method /\ TopAct'.entry = TopAct.entry
  BY DEF TopAct, OperandsKept
<1>3. /\ WordsAt(TopAct.locals, Code[regs.method].maxLocals, vmStack, regs.var)
      /\ WordsAt(TopAct.operands, Depth, vmStack, regs.stack - Depth) /\ Depth \in Nat
  BY <1>1 DEF TopGood
<1>4. /\ WordsAt(TopAct'.locals, Code[regs'.method].maxLocals, vmStack', regs'.var)
      /\ WordsAt(TopAct'.operands, Depth', vmStack', regs'.stack - Depth') /\ Depth' \in Nat
  BY <1>1 DEF TopGood
<1>5. Len(TopAct'.locals) = Len(TopAct.locals) /\ Len(TopAct.operands) = Depth /\ Len(TopAct'.operands) = Depth'
  BY <1>3, <1>4 DEF WordsAt, OperandsKept
<1>6. n \in Nat /\ n <= Depth /\ Depth - n <= Depth'  BY DEF OperandsKept
<1>7. PICK q \in Nat : q = Depth - n
  <2>1. Depth - n \in Nat  BY ONLY <1>3, <1>6
  <2> QED  BY <2>1
<1>8. q <= Depth /\ q <= Depth'
  <2>1. q <= Depth  BY ONLY <1>3, <1>6, <1>7
  <2> QED  BY <2>1, <1>6, <1>7
<1>9. PICK s : s = TopAct.operands  OBVIOUS
<1>10. PICK t : t = TopAct'.operands  OBVIOUS
<1>11. PICK lo : lo = regs.stack - Depth  OBVIOUS
<1>12. WordsAt(s, Depth, vmStack, lo) /\ WordsAt(t, Depth', vmStack', lo) /\ \A j \in 1 .. q : vmStack'[lo + j] = vmStack[lo + j]
  BY <1>3, <1>4, <1>7, <1>9, <1>10, <1>11 DEF OperandsKept
<1>13. /\ SubSeq(s, 1, q) \in Seq(Word) /\ Len(SubSeq(s, 1, q)) = q
       /\ SubSeq(t, 1, q) = SubSeq(s, 1, q) /\ IsPrefix(SubSeq(s, 1, q), t)
  BY ONLY <1>3, <1>4, <1>8, <1>12, q \in Nat, KeptWords
<1>14. Len(s) - n = q  BY <1>5, <1>7, <1>9
<1> QED  BY <1>1, <1>2, <1>5, <1>6, <1>7, <1>9, <1>10, <1>13, <1>14

(* An instruction that stays in its frame.                                 *)
LEMMA ComputeStep ==
  ASSUME GoingOn, at = "step", at' = "step", NEW n, OperandsKept(n), n <= 4
  PROVE  Calls!Compute
<1>1. /\ TopGood /\ TopGood' /\ Front(acts') = Front(acts) /\ acts' = Append(Front(acts), TopAct')
      /\ TopAct'.method = TopAct.method /\ TopAct'.entry = TopAct.entry
      /\ Len(TopAct'.locals) = Len(TopAct.locals)
      /\ n \in Nat /\ n <= Len(TopAct.operands)
      /\ IsPrefix(SubSeq(TopAct.operands, 1, Len(TopAct.operands) - n), TopAct'.operands)
  BY KeptStep
<1>2. /\ acts # << >> /\ Last(acts) = TopAct /\ TopAct \in Activation
      /\ acts' # << >> /\ Last(acts') = TopAct' /\ TopAct' \in Activation
  BY <1>1 DEF TopGood
<1>3. TopAct.thrown = Junk /\ TopAct'.thrown = Junk  BY DEF TopAct, Thrown
<1>4. TopAct' = [TopAct EXCEPT !.pc = TopAct'.pc, !.locals = TopAct'.locals, !.operands = TopAct'.operands]
  BY <1>1, <1>2, <1>3, SameBut
<1>5. n \in 0 .. 4  BY <1>1
<1>6. PICK x : x = Last(acts)  OBVIOUS
<1>7. PICK y : y = Last(acts')  OBVIOUS
<1>8. x = TopAct /\ y = TopAct'  BY <1>2, <1>6, <1>7
<1>9. /\ acts # << >> /\ x.thrown = Junk /\ acts' # << >> /\ Front(acts') = Front(acts)
      /\ y = [x EXCEPT !.pc = y.pc, !.locals = y.locals, !.operands = y.operands]
      /\ Len(y.locals) = Len(x.locals)
      /\ n <= Len(x.operands) /\ IsPrefix(SubSeq(x.operands, 1, Len(x.operands) - n), y.operands)
  BY ONLY <1>1, <1>2, <1>3, <1>4, <1>8
<1>10. Calls!Top = x /\ Calls!Last(acts') = y /\ Calls!Below = Front(acts) /\ Calls!Front(acts') = Front(acts')
  BY <1>6, <1>7 DEF Calls!Top, Calls!Below, Calls!Last, Calls!Front, Last, Front
<1>11. Calls!IsPrefix(Calls!Drop(x.operands, n), y.operands)
  BY <1>9 DEF Calls!IsPrefix, IsPrefix, Calls!Drop
<1> QED  BY ONLY <1>5, <1>9, <1>10, <1>11 DEF Calls!Compute

\* The w words of ws are written above sp.
PushOf(n, sp, ws, w, pc) ==
  /\ regs \in Registers /\ vmStack \in Seq(Word) /\ sp \in Nat /\ sp = regs.stack - n
  /\ ws \in Seq(Word) /\ w = Len(ws) /\ Push(n, ws, pc)

(* What a push writes.                                                     *)
LEMMA PushWrites ==
  ASSUME NEW n, NEW sp, NEW ws, NEW w, NEW pc, PushOf(n, sp, ws, w, pc)
  PROVE  /\ regs'.method = regs.method /\ regs'.var = regs.var /\ regs'.stack = sp + w /\ regs'.pc = pc
         /\ \A i \in 1 .. Len(vmStack) : vmStack'[i] = IF i \in sp + 1 .. sp + w THEN ws[i - sp] ELSE vmStack[i]
<1>0. /\ regs \in Registers /\ vmStack \in Seq(Word) /\ sp \in Nat /\ sp = regs.stack - n
      /\ ws \in Seq(Word) /\ w = Len(ws) /\ Push(n, ws, pc)
  BY DEF PushOf
<1> USE <1>0
<1>1. w = Len(ws)  OBVIOUS
<1>2. vmStack' = WithWords(vmStack, sp, ws) /\ regs' = [regs EXCEPT !.stack = sp + w, !.pc = pc]
  BY <1>1 DEF Push
<1>3. regs'.method = regs.method /\ regs'.var = regs.var /\ regs'.stack = sp + w /\ regs'.pc = pc
  <2>1. PICK r : r = [regs EXCEPT !.stack = sp + w, !.pc = pc]  OBVIOUS
  <2>2. r = [method |-> regs.method, pc |-> pc, var |-> regs.var, stack |-> sp + w]
    BY ONLY <2>1, regs \in Registers DEF Registers
  <2>3. r.method = regs.method /\ r.var = regs.var /\ r.stack = sp + w /\ r.pc = pc  BY ONLY <2>2
  <2> QED  BY ONLY <1>2, <2>1, <2>3
<1>4. \A i \in 1 .. Len(vmStack) : vmStack'[i] = IF i \in sp + 1 .. sp + w THEN ws[i - sp] ELSE vmStack[i]
  <2>1. /\ Len(WithWords(vmStack, sp, ws)) = Len(vmStack)
        /\ \A i \in 1 .. Len(vmStack) :
             WithWords(vmStack, sp, ws)[i] = IF i \in sp + 1 .. sp + Len(ws) THEN ws[i - sp] ELSE vmStack[i]
    BY ONLY vmStack \in Seq(Word), sp \in Nat, ws \in Seq(Word), Written
  <2> QED  BY ONLY <2>1, <1>1, <1>2
<1> QED  BY <1>3, <1>4

\* The last n operands become the words of ws, which makes d of them.
PushedOver(n, ws, pc, d) ==
  /\ FramesInv /\ Running /\ base' = base /\ nest' = nest /\ n \in Nat /\ n <= Depth
  /\ ws \in Seq(Word) /\ Push(n, ws, pc)
  /\ d \in Nat /\ d = Depth - n + Len(ws) /\ depths' = [depths EXCEPT ![Len(depths)] = d]

(* What that changes in the running frame.                                 *)
LEMMA PushKept ==
  ASSUME NEW n, NEW ws, NEW pc, NEW d, PushedOver(n, ws, pc, d)
  PROVE  /\ OperandsKept(n) /\ Depth' = d /\ OtherLast(depths', depths, d)
         /\ \A j \in 1 .. LocalsEnd(regs) : vmStack'[j] = vmStack[j]
         /\ regs'.method = regs.method /\ regs'.var = regs.var /\ regs'.pc = pc
         /\ regs'.stack = regs.stack - n + Len(ws)
         /\ at' \in {"step", "overrun"}
<1>0. /\ FramesInv /\ Running /\ base' = base /\ nest' = nest /\ n \in Nat /\ n <= Depth
      /\ ws \in Seq(Word) /\ Push(n, ws, pc)
      /\ d \in Nat /\ d = Depth - n + Len(ws) /\ depths' = [depths EXCEPT ![Len(depths)] = d]
  BY DEF PushedOver
<1> USE <1>0
<1>1. PICK w \in Nat : w = Len(ws)  OBVIOUS
<1>2. /\ regs \in Registers /\ vmStack \in Seq(Word) /\ Len(depths) \in Nat \ {0} /\ depths \in Seq(Nat)
  BY RunningFacts
<1>3. /\ regs.var \in Nat /\ regs.stack \in Nat /\ LocalsEnd(regs) \in Nat /\ Limit \in Nat
      /\ regs.var <= LocalsEnd(regs) /\ LocalsEnd(regs) <= regs.stack /\ regs.stack <= Limit
      /\ Operands(regs) = regs.stack - LocalsEnd(regs)
      /\ Depth \in Nat /\ Depth <= Operands(regs)
  BY Extent
<1>4. PICK a \in Nat : a = Len(vmStack)  BY <1>2
<1>5. PICK sp \in Nat : sp = regs.stack - n
  <2>1. regs.stack - n \in Nat  BY ONLY <1>3, n \in Nat, n <= Depth
  <2> QED  BY <2>1
<1>6. PICK q \in Nat : q = Depth - n
  <2>1. Depth - n \in Nat  BY ONLY <1>3, n \in Nat, n <= Depth
  <2> QED  BY <2>1
<1>7. a = Limit + 2 /\ d = q + w  BY <1>1, <1>3, <1>4, <1>6, Extent
<1>8. /\ vmStack' = WithWords(vmStack, sp, ws)
      /\ regs' = [regs EXCEPT !.stack = sp + w, !.pc = pc] /\ at' \in {"step", "overrun"}
  BY <1>1, <1>5 DEF Push
<1>9. /\ regs'.method = regs.method /\ regs'.var = regs.var /\ regs'.stack = sp + w /\ regs'.pc = pc
      /\ \A i \in 1 .. a : vmStack'[i] = IF i \in sp + 1 .. sp + w THEN ws[i - sp] ELSE vmStack[i]
  <2>1. /\ regs'.method = regs.method /\ regs'.var = regs.var /\ regs'.stack = sp + w /\ regs'.pc = pc
        /\ \A i \in 1 .. Len(vmStack) : vmStack'[i] = IF i \in sp + 1 .. sp + w THEN ws[i - sp] ELSE vmStack[i]
    <3>1. PushOf(n, sp, ws, w, pc)  BY ONLY <1>1, <1>2, <1>5, ws \in Seq(Word), Push(n, ws, pc) DEF PushOf
    <3> QED  BY ONLY <3>1, PushWrites
  <2> QED  BY ONLY <2>1, <1>4
<1>10. OtherLast(depths', depths, d) /\ Depth' = d
  <2>1. depths \in Seq(Nat) /\ Len(depths) > 0  BY <1>2
  <2>2. OtherLast(depths', depths, d)  BY <2>1, LastChanged
  <2> QED  BY ONLY <2>1, <2>2 DEF OtherLast, Depth, Last
<1>11. /\ \A j \in 1 .. LocalsEnd(regs) : j \in 1 .. a /\ j \notin sp + 1 .. sp + w
       /\ \A j \in 1 .. regs.var : j \in 1 .. LocalsEnd(regs)
       /\ \A j \in 1 .. q : (regs.stack - Depth) + j \in 1 .. a /\ (regs.stack - Depth) + j \notin sp + 1 .. sp + w
       /\ (sp + w) - d = regs.stack - Depth /\ q <= d /\ sp + w = regs.stack - n + w
  BY ONLY <1>3, <1>5, <1>6, <1>7, a \in Nat, n \in Nat, n <= Depth, w \in Nat, d \in Nat
<1>12. \A j \in 1 .. LocalsEnd(regs) : vmStack'[j] = vmStack[j]  BY <1>9, <1>11
<1>13. \A j \in 1 .. q : vmStack'[(regs.stack - Depth) + j] = vmStack[(regs.stack - Depth) + j]
  BY <1>9, <1>11
<1>14. OperandsKept(n)
  <2>1. \A j \in 1 .. regs.var : vmStack'[j] = vmStack[j]  BY <1>11, <1>12
  <2> QED  BY <2>1, <1>6, <1>9, <1>10, <1>11, <1>13 DEF OperandsKept
<1> QED  BY <1>1, <1>5, <1>8, <1>9, <1>10, <1>11, <1>12, <1>14

(* The end, or a state that is not followed.                               *)
LEMMA StopStep ==
  ASSUME ActsInv', ~Running'
  PROVE  Calls!Stop
BY DEF ActsInv, Calls!Stop

\* What is known when a step is taken.
Stepping == Going /\ FramesInv' /\ ActsInv'

(* An instruction that replaces operands.                                  *)
LEMMA EffectStep ==
  ASSUME Stepping, at = "step", NEW n \in Nat, n <= 4, NEW ws, ws \in Seq(Word), NEW pc, Effect(n, ws, pc)
  PROVE  Calls!Compute \/ Calls!Stop
<1>1. /\ Depth >= n /\ Push(n, ws, pc) /\ base' = base /\ nest' = nest
      /\ depths' = [depths EXCEPT ![Len(depths)] = @ - n + Len(ws)]
  BY DEF Effect
<1>2. FramesInv /\ Running  BY DEF Stepping, Going
<1>3. Depth \in Nat /\ Depth = depths[Len(depths)]  BY <1>2, RunningFacts
<1>4. PICK w \in Nat : w = Len(ws)  OBVIOUS
<1>5. PICK d \in Nat : d = Depth - n + w
  <2>1. Depth >= n  BY <1>1
  <2>2. Depth - n + w \in Nat  BY ONLY <2>1, <1>3, w \in Nat, n \in Nat
  <2> QED  BY <2>2
<1>6. d = Depth - n + Len(ws) /\ depths' = [depths EXCEPT ![Len(depths)] = d] /\ n <= Depth
  BY <1>1, <1>3, <1>4, <1>5
<1>7. OperandsKept(n) /\ at' \in {"step", "overrun"}
  <2>1. PushedOver(n, ws, pc, d)
    BY ONLY <1>1, <1>2, <1>6, n \in Nat, d \in Nat, ws \in Seq(Word) DEF PushedOver
  <2> QED  BY ONLY <2>1, PushKept
<1>8. CASE at' = "step"
  <2>1. GoingOn  BY <1>8 DEF Stepping, Going, GoingOn, Running
  <2> QED  BY <2>1, <1>7, <1>8, ComputeStep
<1>9. CASE at' = "overrun"
  <2>1. ~Running' /\ ActsInv'  BY <1>9 DEF Stepping, Running
  <2> QED  BY <2>1, StopStep
<1> QED  BY <1>7, <1>8, <1>9

(* A store to a local variable.                                            *)
LEMMA SetLocalStep ==
  ASSUME Stepping, at = "step", NEW i \in 1 .. MaxLocals, NEW x \in Word, NEW n \in 0 .. 1, SetLocal(i, x, n)
  PROVE  Calls!Compute
<1>1. /\ Depth >= n /\ vmStack' = [vmStack EXCEPT ![regs.var + i] = x]
      /\ regs' = [regs EXCEPT !.stack = @ - n, !.pc = NextPc]
      /\ depths' = [depths EXCEPT ![Len(depths)] = @ - n]
      /\ UNCHANGED <<base, nest, at>>
  BY DEF SetLocal
<1>2. FramesInv /\ Running  BY DEF Stepping, Going
<1>3. /\ regs \in Registers /\ vmStack \in Seq(Word) /\ Len(depths) \in Nat \ {0} /\ depths \in Seq(Nat)
      /\ Depth = depths[Len(depths)] /\ LocalsEnd(regs) = regs.var + MaxLocals /\ MaxLocals \in Nat
  BY <1>2, RunningFacts
<1>4. /\ regs.var \in Nat /\ regs.stack \in Nat /\ LocalsEnd(regs) \in Nat /\ Limit \in Nat
      /\ regs.var <= LocalsEnd(regs) /\ LocalsEnd(regs) <= regs.stack /\ regs.stack <= Limit
      /\ Operands(regs) = regs.stack - LocalsEnd(regs)
      /\ Depth \in Nat /\ Depth <= Operands(regs)
  BY <1>2, Extent
<1>5. PICK a \in Nat : a = Len(vmStack)  BY <1>3
<1>6. a = Limit + 2  BY <1>2, <1>5, Extent
<1>7. PICK d \in Nat : d = Depth - n
  <2>1. Depth >= n  BY <1>1
  <2>2. Depth - n \in Nat  BY ONLY <2>1, <1>4, n \in 0 .. 1
  <2> QED  BY <2>2
<1>8. PICK sp \in Nat : sp = regs.stack - n
  <2>1. Depth >= n  BY <1>1
  <2>2. regs.stack - n \in Nat  BY ONLY <2>1, <1>4, n \in 0 .. 1
  <2> QED  BY <2>2
<1>9. regs'.method = regs.method /\ regs'.var = regs.var /\ regs'.stack = sp
  <2>1. PICK r : r = [regs EXCEPT !.stack = sp, !.pc = NextPc]  OBVIOUS
  <2>2. r = [method |-> regs.method, pc |-> NextPc, var |-> regs.var, stack |-> sp]
    BY ONLY <2>1, <1>3 DEF Registers
  <2>3. r.method = regs.method /\ r.var = regs.var /\ r.stack = sp  BY ONLY <2>2
  <2> QED  BY ONLY <1>1, <1>8, <2>1, <2>3
<1>10. OtherLast(depths', depths, d) /\ Depth' = d
  <2>1. depths \in Seq(Nat) /\ Len(depths) > 0 /\ depths' = [depths EXCEPT ![Len(depths)] = d]  BY <1>1, <1>3, <1>7
  <2>2. OtherLast(depths', depths, d)  BY <2>1, LastChanged
  <2> QED  BY <2>2, <1>3 DEF OtherLast, Depth, Last
<1>11. /\ regs.var + i \in 1 .. a /\ n \in Nat /\ n <= 4 /\ n <= Depth /\ Depth - n <= d /\ sp - d = regs.stack - Depth
       /\ \A j \in 1 .. regs.var : j \in 1 .. a /\ j # regs.var + i
       /\ \A j \in 1 .. Depth - n : (regs.stack - Depth) + j \in 1 .. a /\ (regs.stack - Depth) + j # regs.var + i
  <2>1. Depth >= n /\ MaxLocals \in Nat /\ LocalsEnd(regs) = regs.var + MaxLocals  BY <1>1, <1>3
  <2> QED  BY ONLY <2>1, <1>4, <1>6, <1>7, <1>8, a \in Nat, i \in 1 .. MaxLocals, n \in 0 .. 1
<1>12. \A j \in 1 .. a : j # regs.var + i => vmStack'[j] = vmStack[j]
  BY <1>1, <1>3, <1>5, <1>11, ExceptSeq
<1>13. OperandsKept(n)
  <2>1. \A j \in 1 .. regs.var : vmStack'[j] = vmStack[j]  BY <1>11, <1>12
  <2>2. \A j \in 1 .. Depth - n : vmStack'[(regs.stack - Depth) + j] = vmStack[(regs.stack - Depth) + j]
    BY <1>11, <1>12
  <2> QED  BY <2>1, <2>2, <1>1, <1>9, <1>10, <1>11 DEF OperandsKept
<1>14. GoingOn /\ at' = "step"  BY <1>1 DEF Stepping, Going, GoingOn, Running
<1> QED  BY <1>11, <1>13, <1>14, ComputeStep

(* Every instruction that stays in its frame.                              *)
LEMMA LocalSteps ==
  ASSUME Stepping, LocalStep
  PROVE  Calls!Compute \/ Calls!Stop
<1>1. at = "step" /\ (EffectTaken \/ LocalSet \/ GENERATE_EXCEPTION)  BY LocalIs DEF Stepping, Going
<1>2. CASE EffectTaken
  <2>0. PICK pc : \E n \in 0 .. 4, ws \in Seq(Word) : Effect(n, ws, pc)  BY <1>2 DEF EffectTaken
  <2>1. PICK n \in 0 .. 4, ws \in Seq(Word) : Effect(n, ws, pc)  BY <2>0
  <2>2. n \in Nat /\ n <= 4  OBVIOUS
  <2> QED  BY <1>1, <2>1, <2>2, EffectStep
<1>3. CASE LocalSet
  <2>1. PICK i \in 1 .. MaxLocals, x \in Word, n \in 0 .. 1 : SetLocal(i, x, n)  BY <1>3 DEF LocalSet
  <2> QED  BY <1>1, <2>1, SetLocalStep
<1>4. CASE GENERATE_EXCEPTION
  <2>1. ~Running' /\ ActsInv'  BY <1>4 DEF GENERATE_EXCEPTION, Running, Stepping
  <2> QED  BY <2>1, StopStep
<1> QED  BY <1>1, <1>2, <1>3, <1>4

---------------------------------------------------------------------------
(* Native methods. *)

(* A sequence is all of itself.                                            *)
LEMMA AllOf ==
  ASSUME NEW t, t \in Seq(Word)
  PROVE  SubSeq(t, 1, Len(t)) = t
<1>1. PICK q \in Nat : q = Len(t)  OBVIOUS
<1>2. q <= Len(t)  BY <1>1
<1>3. SubSeq(t, 1, q) \in Seq(Word) /\ Len(SubSeq(t, 1, q)) = q /\ \A j \in 1 .. q : SubSeq(t, 1, q)[j] = t[j]
  BY ONLY <1>2, t \in Seq(Word), q \in Nat, Prefix
<1> QED  BY <1>1, <1>3, SeqEqual

(* The same words of two stacks.                                           *)
LEMMA EqualWords ==
  ASSUME NEW s, NEW t, NEW n, NEW st, NEW st2, NEW lo, NEW lo2,
         WordsAt(s, n, st, lo), WordsAt(t, n, st2, lo2), \A j \in 1 .. n : st2[lo2 + j] = st[lo + j]
  PROVE  t = s
<1>1. /\ s \in Seq(Word) /\ Len(s) = n /\ t \in Seq(Word) /\ Len(t) = n
      /\ \A j \in 1 .. n : t[j] = s[j]
  BY DEF WordsAt
<1> QED  BY <1>1, SeqEqual

(* callJNIMethod.                                                          *)
LEMMA NativeStep ==
  ASSUME Stepping, InvokeNative
  PROVE  Calls!CallNative \/ Calls!Stop
<1>1. at = "step" /\ FramesInv /\ Running  BY DEF InvokeNative, Does, Stepping, Going
<1> DEFINE ret(m, v) == IF Code[m].returns THEN <<Value(v)>> ELSE << >>
           frame(m, n) == SavedRegs(n) \o SubSeq(vmStack, regs.stack - n + 1, regs.stack) \o <<<<"count", n>>>> \o Suffix(m)
<1>2. PICK m \in Method, v \in Values :
        LET n == Code[m].paramsCount IN
        /\ Code[m].native /\ Depth >= n
        /\ IF NativeFits(m)
           THEN /\ ReturnTo(PopFrame(vmStack \o frame(m, n), m), ret(m, v))
                /\ depths' = [depths EXCEPT ![Len(depths)] = @ - n + Len(ret(m, v))]
                /\ UNCHANGED <<base, nest, exc, k, todo>>
           ELSE GENERATE_EXCEPTION
  BY DEF InvokeNative
<1>3. PICK n \in Nat : n = Code[m].paramsCount  BY FramesAssumption
<1>4. PICK ws : ws = ret(m, v)  OBVIOUS
<1>5. ws \in Seq(Word) /\ Len(ws) = IF Code[m].returns THEN 1 ELSE 0
  <2>1. Value(v) \in Word  BY Words
  <2> QED  BY <2>1, <1>4
<1>6. CASE ~NativeFits(m)
  <2>1. GENERATE_EXCEPTION  BY <1>2, <1>6
  <2>2. ~Running' /\ ActsInv'  BY <2>1 DEF GENERATE_EXCEPTION, Running, Stepping
  <2> QED  BY <2>2, StopStep
<1>7. CASE NativeFits(m)
  <2>0. PICK w \in Nat : w = Len(ws)  BY <1>5
  <2>1. /\ Code[m].native /\ Depth >= n
        /\ ReturnTo(PopFrame(vmStack \o frame(m, n), m), ws)
        /\ depths' = [depths EXCEPT ![Len(depths)] = @ - n + w]
        /\ base' = base /\ nest' = nest
    BY <1>2, <1>3, <1>4, <1>7, <2>0
  <2>2. Depth \in Nat /\ Depth = depths[Len(depths)] /\ n <= Depth  BY <1>1, <2>1, RunningFacts
  <2>3. Push(n, ws, NextPc)  BY <1>1, <1>5, <2>1, <2>2, NativeReturns
  <2>4. PICK d \in Nat : d = Depth - n + w
    <3>1. Depth - n + w \in Nat  BY ONLY <2>2, n \in Nat, w \in Nat
    <3> QED  BY <3>1
  <2>5. d = Depth - n + Len(ws) /\ depths' = [depths EXCEPT ![Len(depths)] = d]  BY <2>0, <2>1, <2>2, <2>4
  <2>6. /\ OperandsKept(n) /\ Depth' = d
        /\ \A j \in 1 .. LocalsEnd(regs) : vmStack'[j] = vmStack[j]
        /\ regs'.pc = NextPc /\ regs'.method = regs.method /\ regs'.var = regs.var /\ at' \in {"step", "overrun"}
    <3>1. FramesInv /\ Running /\ base' = base /\ nest' = nest /\ ws \in Seq(Word)  BY <1>1, <1>5, <2>1
    <3>2. PushedOver(n, ws, NextPc, d)
      BY ONLY <3>1, <2>2, <2>3, <2>5, n \in Nat, d \in Nat DEF PushedOver
    <3> QED  BY ONLY <3>2, PushKept
  <2>7. CASE at' = "overrun"
    <3>1. ~Running' /\ ActsInv'  BY <2>7 DEF Stepping, Running
    <3> QED  BY <3>1, StopStep
  <2>8. CASE at' = "step"
    <3>1. GoingOn  BY <2>8 DEF Stepping, Going, GoingOn, Running
    <3>2. /\ TopGood /\ TopGood' /\ acts' = Append(Front(acts), TopAct')
          /\ TopAct'.method = TopAct.method /\ TopAct'.entry = TopAct.entry
          /\ Len(TopAct.operands) = Depth /\ Len(TopAct'.operands) = Depth'
          /\ SubSeq(TopAct'.operands, 1, Depth - n) = SubSeq(TopAct.operands, 1, Len(TopAct.operands) - n)
      BY ONLY <3>1, <2>6, KeptStep
    <3>3. /\ acts # << >> /\ Last(acts) = TopAct /\ TopAct \in Activation
          /\ acts' # << >> /\ Last(acts') = TopAct' /\ TopAct' \in Activation
      BY <3>2 DEF TopGood
    <3>4. TopAct.thrown = Junk /\ TopAct'.thrown = Junk /\ TopAct'.pc = TopAct.pc + 1
      BY <1>1, <2>6, <2>8 DEF TopAct, Thrown, NextPc
    <3>5. TopAct'.locals = TopAct.locals
      <4>1. /\ WordsAt(TopAct.locals, Code[regs.method].maxLocals, vmStack, regs.var)
            /\ WordsAt(TopAct'.locals, Code[regs'.method].maxLocals, vmStack', regs'.var)
        BY <3>2 DEF TopGood
      <4>2. WordsAt(TopAct'.locals, Code[regs.method].maxLocals, vmStack', regs.var)  BY <4>1, <2>6
      <4>3. \A j \in 1 .. Code[regs.method].maxLocals : regs.var + j \in 1 .. LocalsEnd(regs)
        <5>1. regs \in Registers  BY <1>1, RunningFacts
        <5>2. /\ regs.var \in Nat /\ Code[regs.method].maxLocals \in Nat
              /\ LocalsEnd(regs) = regs.var + Code[regs.method].maxLocals
          BY <5>1, Sizes
        <5> QED  BY ONLY <5>2
      <4>4. \A j \in 1 .. Code[regs.method].maxLocals : vmStack'[regs.var + j] = vmStack[regs.var + j]
        BY <4>3, <2>6
      <4> QED  BY ONLY <4>1, <4>2, <4>4, EqualWords
    <3>6. TopAct' = [TopAct EXCEPT !.operands = TopAct'.operands, !.pc = TopAct.pc + 1]
      <4>1. PICK x \in Activation : x = TopAct  BY <3>3
      <4>2. PICK y \in Activation : y = TopAct'  BY <3>3
      <4>3. /\ y.method = x.method /\ y.entry = x.entry /\ y.thrown = x.thrown /\ y.pc = x.pc + 1
            /\ y.locals = x.locals
        BY <3>2, <3>4, <3>5, <4>1, <4>2
      <4>4. y = [x EXCEPT !.operands = y.operands, !.pc = x.pc + 1]
        BY ONLY <4>3, x \in Activation, y \in Activation DEF Activation
      <4> QED  BY <4>1, <4>2, <4>4
    <3>7. TopAct'.operands \in Seq(Word) /\ Len(TopAct'.operands) = d
      BY <3>2, <2>6 DEF TopGood, WordsAt
    <3>8. IF Code[m].returns
          THEN TopAct'.operands # << >> /\ Front(TopAct'.operands) = SubSeq(TopAct.operands, 1, Len(TopAct.operands) - n)
          ELSE TopAct'.operands = SubSeq(TopAct.operands, 1, Len(TopAct.operands) - n)
      <4>1. CASE Code[m].returns
        <5>1. w = 1  BY <4>1, <1>5, <2>0
        <5>2. d - 1 = Depth - n /\ d # 0  BY ONLY <5>1, <2>2, <2>4, n \in Nat
        <5>3. Front(TopAct'.operands) = SubSeq(TopAct'.operands, 1, Depth - n)  BY <5>2, <3>7 DEF Front
        <5>4. TopAct'.operands # << >>  BY <5>2, <3>7
        <5> QED  BY <4>1, <5>3, <5>4, <3>2
      <4>2. CASE ~Code[m].returns
        <5>1. w = 0  BY <4>2, <1>5, <2>0
        <5>2. d = Depth - n  BY ONLY <5>1, <2>2, <2>4, n \in Nat
        <5>3. TopAct'.operands = SubSeq(TopAct'.operands, 1, Depth - n)  BY <5>2, <3>7, AllOf
        <5> QED  BY <4>2, <5>3, <3>2
      <4> QED  BY <4>1, <4>2
    <3>9. PICK x : x = Last(acts)  OBVIOUS
    <3>10. PICK y : y = Last(acts')  OBVIOUS
    <3>11. x = TopAct /\ y = TopAct'  BY <3>3, <3>9, <3>10
    <3>12. /\ acts # << >> /\ x.thrown = Junk /\ acts' # << >> /\ Code[m].native /\ n <= Len(x.operands)
           /\ acts' = Append(Front(acts), [x EXCEPT !.operands = y.operands, !.pc = @ + 1])
           /\ IF Code[m].returns THEN y.operands # << >> /\ Front(y.operands) = SubSeq(x.operands, 1, Len(x.operands) - n)
              ELSE y.operands = SubSeq(x.operands, 1, Len(x.operands) - n)
      BY ONLY <2>1, <2>2, <3>2, <3>3, <3>4, <3>6, <3>8, <3>11
    <3>13. /\ Calls!Top = x /\ Calls!Last(acts') = y /\ Calls!Below = Front(acts)
           /\ Calls!Front(y.operands) = Front(y.operands)
      BY <3>9, <3>10 DEF Calls!Top, Calls!Below, Calls!Last, Calls!Front, Last, Front
    <3>14. Calls!Drop(x.operands, n) = SubSeq(x.operands, 1, Len(x.operands) - n)  BY DEF Calls!Drop
    <3> QED  BY ONLY <1>3, <3>12, <3>13, <3>14, m \in Method DEF Calls!CallNative, Calls!Becomes
  <2> QED  BY <2>6, <2>7, <2>8
<1> QED  BY <1>6, <1>7

---------------------------------------------------------------------------
(* athrow. *)

(* Operands that stay where they are are the same.                         *)
LEMMA SameTop ==
  ASSUME GoingOn, UNCHANGED <<vmStack, regs, base, nest, depths>>
  PROVE  /\ TopGood /\ acts' = Append(Front(acts), TopAct')
         /\ TopAct' = [TopAct EXCEPT !.thrown = Thrown(at', exc')]
<1>1. OtherLast(depths', depths, Depth)
  <2>1. depths \in Seq(Nat) /\ Depth = depths[Len(depths)]  BY RunningFacts DEF GoingOn, Going
  <2> QED  BY <2>1 DEF OtherLast
<1>2. TopGood /\ acts' = Append(Front(acts), TopAct')
  <2>1. base' = base /\ nest' = nest /\ regs'.var = regs.var /\ \A j \in 1 .. regs.var : vmStack'[j] = vmStack[j]
    OBVIOUS
  <2> QED  BY <1>1, <2>1, TopStep
<1>3. Depth' = Depth  BY DEF Depth
<1>4. TopAct' = [TopAct EXCEPT !.thrown = Thrown(at', exc')]
  <2>1. TopAct \in Activation /\ TopAct' \in Activation  BY <1>2, TopFactsNext DEF TopGood, GoingOn, Going
  <2>2. PICK x \in Activation : x = TopAct  BY <2>1
  <2>3. PICK y \in Activation : y = TopAct'  BY <2>1
  <2>4. /\ y.method = x.method /\ y.pc = x.pc /\ y.locals = x.locals /\ y.operands = x.operands
        /\ y.thrown = Thrown(at', exc') /\ y.entry = x.entry
    BY <1>3, <2>2, <2>3 DEF TopAct, LocalsOf, OperandsOf, LocalsEnd
  <2>5. PICK th : th = Thrown(at', exc')  OBVIOUS
  <2>6. y = [x EXCEPT !.thrown = th]
    BY ONLY <2>4, <2>5, x \in Activation, y \in Activation DEF Activation
  <2> QED  BY <2>2, <2>3, <2>5, <2>6
<1> QED  BY <1>2, <1>4

(* The operand on top is thrown.                                           *)
LEMMA AthrowStep ==
  ASSUME Stepping, Athrow
  PROVE  Calls!Throw
<1>1. /\ at = "step" /\ at' = "search" /\ Depth > 0 /\ exc' = Operand(1)
      /\ UNCHANGED <<vmStack, regs, base, nest, depths>>
  BY DEF Athrow, Does
<1>2. GoingOn  BY <1>1 DEF Stepping, Going, GoingOn, Running
<1>3. /\ TopGood /\ acts' = Append(Front(acts), TopAct')
      /\ TopAct' = [TopAct EXCEPT !.thrown = Operand(1)]
  BY <1>1, <1>2, SameTop DEF Thrown
<1>4. /\ acts # << >> /\ Last(acts) = TopAct /\ Depth \in Nat /\ regs.stack \in Nat
      /\ WordsAt(TopAct.operands, Depth, vmStack, regs.stack - Depth)
  BY <1>3 DEF TopGood, Registers
<1>5. TopAct.operands # << >> /\ Last(TopAct.operands) = Operand(1)
  <2>1. /\ Depth \in 1 .. Depth /\ (regs.stack - Depth) + Depth = regs.stack /\ regs.stack + 1 - 1 = regs.stack
        /\ Depth # 0
    BY ONLY <1>1, <1>4
  <2>2. TopAct.operands[Depth] = vmStack[regs.stack] /\ Len(TopAct.operands) = Depth
    BY <2>1, <1>4 DEF WordsAt
  <2>3. TopAct.operands # << >>  BY <2>1, <2>2
  <2> QED  BY <2>1, <2>2, <2>3 DEF Last, Operand
<1>6. TopAct.thrown = Junk  BY <1>1 DEF TopAct, Thrown
<1>7. PICK x : x = Last(acts)  OBVIOUS
<1>8. /\ acts # << >> /\ x.thrown = Junk /\ x.operands # << >>
      /\ acts' = Append(Front(acts), [x EXCEPT !.thrown = Last(x.operands)])
  BY <1>3, <1>4, <1>5, <1>6, <1>7
<1>9. Calls!Top = x /\ Calls!Below = Front(acts) /\ Calls!Last(x.operands) = Last(x.operands)
  BY <1>7 DEF Calls!Top, Calls!Below, Calls!Last, Calls!Front, Last, Front
<1> QED  BY ONLY <1>8, <1>9 DEF Calls!Throw, Calls!Becomes

(* A step of the machine that the calls do not show.                       *)
LEMMA StutterStep ==
  ASSUME Going, ActsInv', UNCHANGED <<vmStack, regs, base, nest, depths, at, exc>>
  PROVE  acts' = acts
<1>1. PICK F : Frames(F, vmStack, regs, base, nest, depths)  BY DEF Going, FramesInv
<1>2. acts = ActsOf(F, vmStack, nest, depths, at, exc)  BY <1>1 DEF Going, ActsInv
<1>3. Running' /\ Frames(F, vmStack', regs', base', nest', depths')  BY <1>1 DEF Going, Running
<1>4. acts' = ActsOf(F, vmStack', nest', depths', at', exc')  BY <1>3 DEF ActsInv
<1> QED  BY <1>2, <1>4

(* An exception is caught.                                                 *)
LEMMA CatchStep ==
  ASSUME Stepping, at = "search", NEW h \in ToSet(Table), Applies(h), Push(0, <<exc>>, h.handler),
         depths' = [depths EXCEPT ![Len(depths)] = 1], base' = base, nest' = nest
  PROVE  Calls!Catch \/ Calls!Stop
<1>1. FramesInv /\ Running  BY DEF Stepping, Going
<1>2. /\ regs \in Registers /\ vmStack \in Seq(Word) /\ depths \in Seq(Nat) /\ Len(depths) > 0 /\ exc \in Word
      /\ Len(depths) \in Nat \ {0}
  BY <1>1, RunningFacts
<1>3. /\ regs.var \in Nat /\ regs.stack \in Nat /\ LocalsEnd(regs) \in Nat /\ Limit \in Nat
      /\ regs.var <= LocalsEnd(regs) /\ LocalsEnd(regs) <= regs.stack /\ regs.stack <= Limit
  BY <1>1, Extent
<1>4. PICK a \in Nat : a = Len(vmStack)  BY <1>2
<1>5. a = Limit + 2  BY <1>1, <1>4, Extent
<1>6. PICK sp \in Nat : sp = regs.stack  BY <1>3
<1>7. /\ regs'.method = regs.method /\ regs'.var = regs.var /\ regs'.stack = sp + 1 /\ regs'.pc = h.handler
      /\ \A i \in 1 .. a : vmStack'[i] = IF i \in sp + 1 .. sp + 1 THEN <<exc>>[i - sp] ELSE vmStack[i]
  <2>1. PICK ws : ws = <<exc>>  OBVIOUS
  <2>2. PICK w : w = 1  OBVIOUS
  <2>3. PICK n : n = 0  OBVIOUS
  <2>4. sp = regs.stack - n
    <3>1. sp - n = sp  BY ONLY <2>3, sp \in Nat
    <3> QED  BY ONLY <3>1, <1>6
  <2>5. ws \in Seq(Word) /\ w = Len(ws) /\ Push(n, ws, h.handler)  BY <1>2, <2>1, <2>2, <2>3
  <2>6. /\ regs'.method = regs.method /\ regs'.var = regs.var /\ regs'.stack = sp + w /\ regs'.pc = h.handler
        /\ \A i \in 1 .. Len(vmStack) : vmStack'[i] = IF i \in sp + 1 .. sp + w THEN ws[i - sp] ELSE vmStack[i]
    <3>1. PushOf(n, sp, ws, w, h.handler)  BY ONLY <1>2, <2>4, <2>5, sp \in Nat DEF PushOf
    <3> QED  BY ONLY <3>1, PushWrites
  <2> QED  BY ONLY <2>1, <2>2, <2>6, <1>4
<1>8. at' \in {"step", "overrun"}  BY DEF Push
<1>9. CASE at' = "overrun"
  <2>1. ~Running' /\ ActsInv'  BY <1>9 DEF Stepping, Running
  <2> QED  BY <2>1, StopStep
<1>10. CASE at' = "step"
  <2>1. GoingOn  BY <1>10 DEF Stepping, Going, GoingOn, Running
  <2>2. OtherLast(depths', depths, 1)  BY <1>2, LastChanged
  <2>3. Depth' = 1
    <3>1. PICK d : d = 1  OBVIOUS
    <3>2. OtherLast(depths', depths, d)  BY ONLY <2>2, <3>1
    <3>3. Depth' = d  BY ONLY <3>2, <1>2 DEF OtherLast, Depth, Last
    <3> QED  BY ONLY <3>1, <3>3
  <2>4. /\ \A j \in 1 .. regs.var : j \in 1 .. a /\ j \notin sp + 1 .. sp + 1
        /\ \A j \in 1 .. LocalsEnd(regs) : j \in 1 .. a /\ j \notin sp + 1 .. sp + 1
        /\ sp + 1 \in 1 .. a /\ sp + 1 \in sp + 1 .. sp + 1 /\ (sp + 1) - sp = 1 /\ (sp + 1) - 1 = sp
    <3>1. /\ regs.var \in Nat /\ LocalsEnd(regs) \in Nat /\ regs.var <= LocalsEnd(regs) /\ LocalsEnd(regs) <= sp
          /\ sp <= Limit /\ Limit \in Nat
      BY ONLY <1>3, <1>6
    <3> QED  BY ONLY <3>1, <1>5, a \in Nat, sp \in Nat
  <2>5. TopGood /\ TopGood' /\ acts' = Append(Front(acts), TopAct')
    <3>1. \A j \in 1 .. regs.var : vmStack'[j] = vmStack[j]  BY <1>7, <2>4
    <3> QED  BY <2>1, <2>2, <3>1, <1>7, TopStep
  <2>6. TopAct'.locals = TopAct.locals
    <3>1. /\ WordsAt(TopAct.locals, Code[regs.method].maxLocals, vmStack, regs.var)
          /\ WordsAt(TopAct'.locals, Code[regs'.method].maxLocals, vmStack', regs'.var)
      BY <2>5 DEF TopGood
    <3>2. WordsAt(TopAct'.locals, Code[regs.method].maxLocals, vmStack', regs.var)  BY <3>1, <1>7
    <3>3. \A j \in 1 .. Code[regs.method].maxLocals : regs.var + j \in 1 .. LocalsEnd(regs)
      <4>1. /\ regs.var \in Nat /\ Code[regs.method].maxLocals \in Nat
            /\ LocalsEnd(regs) = regs.var + Code[regs.method].maxLocals
        BY <1>2, Sizes
      <4> QED  BY ONLY <4>1
    <3>4. \A j \in 1 .. Code[regs.method].maxLocals : vmStack'[regs.var + j] = vmStack[regs.var + j]
      BY <3>3, <1>7, <2>4
    <3> QED  BY ONLY <3>1, <3>2, <3>4, EqualWords
  <2>7. TopAct'.operands = <<exc>>
    <3>1. WordsAt(TopAct'.operands, 1, vmStack', sp)
      <4>1. WordsAt(TopAct'.operands, Depth', vmStack', regs'.stack - Depth')  BY <2>5 DEF TopGood
      <4> QED  BY <4>1, <1>7, <2>3, <2>4
    <3>2. vmStack'[sp + 1] = exc
      <4>1. <<exc>>[(sp + 1) - sp] = exc  BY <2>4
      <4> QED  BY <4>1, <1>7, <2>4
    <3>3. PICK t : t = TopAct'.operands  OBVIOUS
    <3>4. t \in Seq(Word) /\ Len(t) = 1 /\ t[1] = exc
      BY ONLY <3>1, <3>2, <3>3 DEF WordsAt
    <3>5. t = <<exc>>  BY ONLY <3>4
    <3> QED  BY <3>3, <3>5
  <2>8. TopAct' = [TopAct EXCEPT !.thrown = Junk, !.pc = h.handler, !.operands = <<exc>>]
    <3>1. PICK x \in Activation : x = TopAct  BY <2>5 DEF TopGood
    <3>2. PICK y \in Activation : y = TopAct'  BY <2>5 DEF TopGood
    <3>3. PICK ws : ws = <<exc>>  OBVIOUS
    <3>4. y.method = x.method /\ y.entry = x.entry /\ y.pc = h.handler /\ y.thrown = Junk
      BY <1>7, <1>10, <3>1, <3>2 DEF TopAct, Thrown
    <3>5. y.locals = x.locals /\ y.operands = ws  BY <2>6, <2>7, <3>1, <3>2, <3>3
    <3>6. y = [x EXCEPT !.thrown = Junk, !.pc = h.handler, !.operands = ws]
      BY ONLY <3>4, <3>5, x \in Activation, y \in Activation DEF Activation
    <3> QED  BY ONLY <3>1, <3>2, <3>3, <3>6
  <2>9. acts # << >> /\ Last(acts) = TopAct /\ TopAct.thrown = exc /\ TopAct.method = regs.method
    BY <2>5 DEF TopGood, TopAct, Thrown
  <2>10. exc = <<"value", h.catch>> /\ exc # Junk  BY DEF Applies, Value, Junk
  <2>11. PICK x : x = Last(acts)  OBVIOUS
  <2>12. /\ acts # << >> /\ x.thrown # Junk /\ <<"value", h.catch>> = x.thrown
         /\ acts' = Append(Front(acts), [x EXCEPT !.thrown = Junk, !.pc = h.handler, !.operands = <<x.thrown>>])
    BY <2>5, <2>8, <2>9, <2>10, <2>11
  <2>13. h \in Calls!ToSet(Code[x.method].excTable)  BY <2>9, <2>11 DEF Calls!ToSet, ToSet, Table
  <2>14. Calls!Top = x /\ Calls!Below = Front(acts)
    BY <2>11 DEF Calls!Top, Calls!Below, Calls!Last, Calls!Front, Last, Front
  <2>15. <<"value", h.catch>> = Calls!Top.thrown /\ Calls!Becomes(Calls!AtHandler(h))
    BY ONLY <2>12, <2>14 DEF Calls!Becomes, Calls!AtHandler
  <2>16. acts # << >> /\ Calls!Top.thrown # Junk /\ h \in Calls!ToSet(Code[Calls!Top.method].excTable)
    BY ONLY <2>12, <2>13, <2>14
  <2>17. Calls!Catch  BY ONLY <2>15, <2>16 DEF Calls!Catch
  <2> QED  BY <2>17
<1> QED  BY <1>8, <1>9, <1>10

(* One entry of the table is looked at.                                    *)
LEMMA SearchStep ==
  ASSUME Stepping, SearchHandler
  PROVE  Calls!Catch \/ Calls!Stop \/ acts' = acts
<1>1. at = "search" /\ base' = base /\ nest' = nest /\ exc' = exc  BY DEF SearchHandler
<1>2. CASE /\ Entry(k) \in DOMAIN Table /\ Applies(Table[Entry(k)])
           /\ Push(0, <<exc>>, Table[Entry(k)].handler)
           /\ depths' = [depths EXCEPT ![Len(depths)] = 1]
  <2>1. PICK h : h = Table[Entry(k)]  OBVIOUS
  <2>2. h \in ToSet(Table)  BY <1>2, <2>1 DEF ToSet
  <2>3. Calls!Catch \/ Calls!Stop  BY <1>1, <1>2, <2>1, <2>2, CatchStep
  <2> QED  BY <2>3
<1>3. CASE UNCHANGED <<vmStack, regs, at, depths>>
  <2>1. acts' = acts  BY <1>1, <1>3, StutterStep DEF Stepping
  <2> QED  BY <2>1
<1>4. CASE at' = "wild"
  <2>1. ~Running' /\ ActsInv'  BY <1>4 DEF Stepping, Running
  <2>2. Calls!Stop  BY <2>1, StopStep
  <2> QED  BY <2>2
<1> QED  BY <1>2, <1>3, <1>4 DEF SearchHandler

---------------------------------------------------------------------------
(* Returns. *)

(* One element less, and another one at the end.                           *)
LEMMA OtherBelow ==
  ASSUME NEW S, NEW A, A \in Seq(S), NEW B, B \in Seq(S), NEW m \in Nat \ {0}, Len(A) = m + 1, Len(B) = m,
         \A i \in 1 .. m - 1 : B[i] = A[i]
  PROVE  /\ Front(A) \in Seq(S) /\ Len(Front(A)) = m /\ Front(A) # << >> /\ Last(Front(A)) = A[m]
         /\ B = [Front(A) EXCEPT ![m] = B[m]]
<1>1. /\ Front(A) \in Seq(S) /\ Len(Front(A)) = m /\ \A i \in 1 .. m : Front(A)[i] = A[i]
  <2>1. PICK n \in Nat : n = m + 1
    <3>1. m + 1 \in Nat  BY ONLY m \in Nat \ {0}
    <3> QED  BY <3>1
  <2>2. n > 0 /\ n - 1 = m  BY ONLY <2>1, m \in Nat \ {0}
  <2>3. A \in Seq(S) /\ Len(A) = n /\ Len(A) > 0  BY <2>1, <2>2
  <2>4. /\ Front(A) \in Seq(S) /\ Len(Front(A)) = Len(A) - 1
        /\ \A i \in 1 .. Len(A) - 1 : Front(A)[i] = A[i]
    BY ONLY <2>3, FrontOf
  <2> QED  BY ONLY <2>2, <2>3, <2>4
<1>2. m \in 1 .. m /\ \A i \in 1 .. m : i \in 1 .. m - 1 \/ i = m  BY ONLY m \in Nat \ {0}
<1>3. PICK C : C = [Front(A) EXCEPT ![m] = B[m]]  OBVIOUS
<1>4. B[m] \in S  BY <1>2, ElementOfSeq
<1>5. C \in Seq(S) /\ Len(C) = m /\ C[m] = B[m] /\ \A i \in 1 .. m : i # m => C[i] = Front(A)[i]
  <2>1. PICK x \in S : x = B[m]  BY <1>4
  <2>2. C = [Front(A) EXCEPT ![m] = x]  BY <1>3, <2>1
  <2>3. PICK D : D = Front(A)  OBVIOUS
  <2>4. D \in Seq(S) /\ Len(D) = m /\ C = [D EXCEPT ![m] = x]  BY ONLY <2>2, <2>3, <1>1
  <2>5. C \in Seq(S) /\ Len(C) = Len(D) /\ C[m] = x /\ \A i \in 1 .. m : i # m => C[i] = D[i]
    BY ONLY <1>2, <2>4, x \in S, ExceptSeq
  <2> QED  BY ONLY <2>1, <2>3, <2>4, <2>5
<1>6. \A i \in 1 .. m : C[i] = B[i]
  <2>1. \A i \in 1 .. m : i # m => i \in 1 .. m - 1  BY ONLY <1>2
  <2> QED  BY <1>1, <1>5, <2>1
<1>7. C = B  BY <1>5, <1>6, SeqEqual
<1>8. Front(A) # << >> /\ Last(Front(A)) = A[m]  BY <1>1, <1>2 DEF Last
<1> QED  BY <1>1, <1>3, <1>7, <1>8

\* The last frame but one, when it gets the words ws from the last.
Callers(F, m, r, ws) ==
  /\ m \in Nat \ {0} /\ Len(F) = m + 1 /\ Len(depths) = m + 1
  /\ F[m] = [r |-> r, base |-> base, nest |-> Len(nest)] /\ F[m + 1].r.var # F[m + 1].base + 3
  /\ depths[m] \in Nat /\ InFrame(r, depths[m], vmStack) /\ ReturnOf(r, ws)
  /\ Len(depths') = m /\ depths'[m] = depths[m] + Len(ws) /\ \A i \in 1 .. m - 1 : depths'[i] = depths[i]

(* There is one.                                                           *)
LEMMA CallersFrame ==
  ASSUME FramesInv, Running, NEW F, Frames(F, vmStack, regs, base, nest, depths),
         NEW r, r = CallerRegs(SubSeq(vmStack, 1, regs.var)), NEW ws, ReturnedWith(ws)
  PROVE  \E m : Callers(F, m, r, ws)
<1>1. /\ regs \in Registers /\ base \in Nat /\ vmStack \in Seq(Word) /\ Len(nest) \in Nat
      /\ Len(vmStack) = FrameEnd(regs) /\ Len(depths) \in Nat \ {0} /\ depths \in Seq(Nat)
  BY RunningFacts
<1>2. /\ regs.var # base + 3 /\ r = CallerRegs(SubSeq(vmStack, 1, regs.var))
      /\ ws \in Seq(Word) /\ ReturnTo(SubSeq(vmStack, 1, regs.var), ws)
      /\ OtherLast(depths', Front(depths), depths[Len(depths) - 1] + Len(ws))
  BY DEF ReturnedWith
<1>3. Len(F) \in Nat \ {0} /\ Len(F) = Len(depths) /\ F[Len(F)] = [r |-> regs, base |-> base, nest |-> Len(nest)]
  BY <1>1, FrameFacts DEF Frames
<1>4. Len(F) # 1
  <2>1. Len(F) = 1 => regs.var = base + 3  BY ONLY <1>1, Frames(F, vmStack, regs, base, nest, depths), OnlyFrame
  <2> QED  BY <2>1, <1>2
<1>5. PICK n \in Nat \ {0} : n = Len(F)  BY <1>3
<1>6. PICK m \in Nat \ {0} : n = m + 1
  <2>1. n # 1  BY <1>4, <1>5
  <2>2. n - 1 \in Nat \ {0} /\ n = (n - 1) + 1  BY ONLY <2>1, n \in Nat \ {0}
  <2> QED  BY <2>2
<1>7. n - 1 = m /\ m + 1 \in 1 .. n /\ m + 1 > 1 /\ (m + 1) - 1 = m /\ n > 1  BY ONLY <1>6, m \in Nat \ {0}
<1>8. PICK f : f = Below([r |-> regs, base |-> base, nest |-> Len(nest)], vmStack, nest)  OBVIOUS
<1>9. f = [r |-> r, base |-> base, nest |-> Len(nest)]  BY <1>2, <1>8 DEF Below
<1>10. F[m] = f
  <2>1. FrameAt(F, m + 1, vmStack, nest, depths)  BY <1>5, <1>6, <1>7 DEF Frames
  <2>2. F[(m + 1) - 1] = Below(F[m + 1], vmStack, nest)  BY <2>1, <1>7 DEF FrameAt
  <2> QED  BY <2>2, <1>3, <1>5, <1>6, <1>7, <1>8
<1>11. /\ f.r \in Registers /\ regs.var = FrameEnd(f.r) + 3
       /\ InFrame(f.r, depths[Len(depths) - 1], vmStack) /\ depths[Len(depths) - 1] \in Nat /\ Front(depths) \in Seq(Nat)
       /\ Len(Front(depths)) = Len(depths) - 1 /\ Front(depths)[Len(depths) - 1] = depths[Len(depths) - 1]
  <2>1. Len(F) > 1  BY <1>5, <1>7
  <2> QED  BY ONLY <2>1, <1>1, <1>8, Frames(F, vmStack, regs, base, nest, depths), FramePopped, SMTT(40)
<1>12. /\ r \in Registers /\ regs.var = FrameEnd(r) + 3 /\ InFrame(r, depths[m], vmStack) /\ depths[m] \in Nat
       /\ Len(Front(depths)) = m
  <2>1. f.r = r  BY <1>9
  <2>2. Len(depths) - 1 = m  BY <1>3, <1>5, <1>7
  <2> QED  BY <2>1, <2>2, <1>11
<1>13. ReturnOf(r, ws)  BY <1>1, <1>2, <1>12 DEF ReturnOf
<1>14. Len(depths') = m /\ depths'[m] = depths[m] + Len(ws) /\ \A i \in 1 .. m - 1 : depths'[i] = depths[i]
  <2>1. Len(depths) - 1 = m  BY <1>3, <1>5, <1>7
  <2>2. \A i \in 1 .. m : Front(depths)[i] = depths[i]
    <3>1. depths \in Seq(Nat) /\ Len(depths) > 0  BY <1>1
    <3>2. \A i \in 1 .. Len(depths) - 1 : Front(depths)[i] = depths[i]  BY ONLY <3>1, FrontOf
    <3> QED  BY ONLY <2>1, <3>2
  <2>3. \A i \in 1 .. m - 1 : i \in 1 .. m  BY ONLY m \in Nat \ {0}
  <2> QED  BY <1>2, <1>12, <2>1, <2>2, <2>3 DEF OtherLast
<1>15. F[m + 1].r.var # F[m + 1].base + 3
  <2>1. F[m + 1].r.var = regs.var /\ F[m + 1].base = base  BY <1>3, <1>5, <1>6
  <2> QED  BY <2>1, <1>2
<1> QED  BY <1>3, <1>5, <1>6, <1>9, <1>10, <1>12, <1>13, <1>14, <1>15 DEF Callers

\* x is the caller's activation, y what it is after the return, with the words ws.
BackIn(x, y, ws) ==
  /\ x \in Activation /\ y \in Activation /\ x.thrown = Junk
  /\ y.method = x.method /\ y.pc = x.pc /\ y.locals = x.locals /\ y.entry = x.entry
  /\ Len(y.operands) = Len(x.operands) + Len(ws)
  /\ \A j \in 1 .. Len(x.operands) : y.operands[j] = x.operands[j]
  /\ \A j \in 1 .. Len(ws) : y.operands[Len(x.operands) + j] = ws[j]

(* The caller finds its activation as it was.                              *)
LEMMA CallerBack ==
  ASSUME Going, TopGood', NEW F, Frames(F, vmStack, regs, base, nest, depths), ActsGood(F), base' = base,
         NEW r, NEW ws, ws \in Seq(Word), NEW m, Callers(F, m, r, ws), Running'
  PROVE  BackIn(acts[m], TopAct', ws)
<1>1. /\ m \in Nat \ {0} /\ Len(F) = m + 1 /\ Len(depths) = m + 1
      /\ F[m] = [r |-> r, base |-> base, nest |-> Len(nest)] /\ F[m + 1].r.var # F[m + 1].base + 3
      /\ depths[m] \in Nat /\ InFrame(r, depths[m], vmStack) /\ ReturnOf(r, ws)
      /\ Len(depths') = m /\ depths'[m] = depths[m] + Len(ws)
  BY DEF Callers
<1>2. m \in 1 .. m + 1 /\ m # m + 1  BY ONLY <1>1
<1>3. vmStack \in Seq(Word) /\ r \in Registers  BY <1>1 DEF ReturnOf
<1>4. acts \in Seq(Activation) /\ Len(acts) = m + 1 /\ acts = ActsOf(F, vmStack, nest, depths, at, exc)
  BY <1>1 DEF ActsGood
<1>5. PICK x : x = acts[m]  OBVIOUS
<1>6. x = ActOf(F[m], vmStack, depths[m], Junk)
  <2>1. x = ActOf(F[m], vmStack, depths[m], ThrownIn(F, m, nest, at, exc))  BY <1>1, <1>2, <1>4, <1>5 DEF ActsOf
  <2>2. ThrownIn(F, m, nest, at, exc) = Junk  BY <1>1, <1>2 DEF ThrownIn
  <2> QED  BY <2>1, <2>2
<1>7. x \in Activation  BY <1>2, <1>4, <1>5, ElementOfSeq
<1>8. /\ x.method = r.method /\ x.pc = r.pc /\ x.entry = (r.var = base + 3) /\ x.thrown = Junk
      /\ x.locals = LocalsOf(r, vmStack) /\ x.operands = OperandsOf(r, depths[m], vmStack)
  <2>1. F[m].r = r /\ F[m].base = base  BY <1>1
  <2> QED  BY <2>1, <1>6 DEF ActOf
<1>9. PICK d \in Nat : d = depths[m]  BY <1>1
<1>10. /\ WordsAt(x.locals, Code[r.method].maxLocals, vmStack, r.var)
       /\ r.stack - d \in Nat /\ WordsAt(x.operands, d, vmStack, r.stack - d)
  BY <1>1, <1>3, <1>8, <1>9, FrameWords
<1>11. PICK w \in Nat : w = Len(ws)  OBVIOUS
<1>12. /\ regs'.method = r.method /\ regs'.var = r.var /\ regs'.pc = r.pc /\ regs'.stack = r.stack + w
       /\ \A i \in 1 .. FrameEnd(r) :
            vmStack'[i] = IF i \in r.stack + 1 .. r.stack + w THEN ws[i - r.stack] ELSE vmStack[i]
       /\ at' = IF r.stack + w > FrameEnd(r) - 2 THEN "overrun" ELSE at
  <2>1. ReturnOf(r, ws)  BY <1>1
  <2> QED  BY ONLY <2>1, <1>11, Returned
<1>13. PICK y : y = TopAct'  OBVIOUS
<1>14. /\ y \in Activation /\ y.method = regs'.method /\ y.pc = regs'.pc /\ y.entry = (regs'.var = base' + 3)
       /\ WordsAt(y.locals, Code[regs'.method].maxLocals, vmStack', regs'.var)
       /\ WordsAt(y.operands, Depth', vmStack', regs'.stack - Depth')
  BY <1>13 DEF TopGood, TopAct
<1>15. Depth' = d + w  BY <1>1, <1>9, <1>11 DEF Depth, Last
<1>16. /\ r.var \in Nat /\ r.stack \in Nat /\ LocalsEnd(r) \in Nat /\ FrameEnd(r) \in Nat
       /\ LocalsEnd(r) = r.var + Code[r.method].maxLocals /\ Code[r.method].maxLocals \in Nat
       /\ r.var <= LocalsEnd(r) /\ LocalsEnd(r) + 2 <= FrameEnd(r)
  BY <1>3, Sizes
<1>17. LocalsEnd(r) <= r.stack /\ r.stack <= FrameEnd(r) - 2
  <2>1. r.stack \in LocalsEnd(r) .. FrameEnd(r) - 2  BY <1>1 DEF InFrame
  <2> QED  BY ONLY <2>1, <1>16
<1>18. r.stack + w <= FrameEnd(r) - 2
  <2>1. ~(r.stack + w > FrameEnd(r) - 2)  BY <1>12 DEF Running
  <2> QED  BY ONLY <2>1, <1>16, w \in Nat
<1>19. /\ \A j \in 1 .. Code[r.method].maxLocals :
            r.var + j \in 1 .. FrameEnd(r) /\ r.var + j \notin r.stack + 1 .. r.stack + w
       /\ \A j \in 1 .. d : (r.stack - d) + j \in 1 .. FrameEnd(r) /\ (r.stack - d) + j \notin r.stack + 1 .. r.stack + w
       /\ \A j \in 1 .. w : /\ r.stack + j \in 1 .. FrameEnd(r) /\ r.stack + j \in r.stack + 1 .. r.stack + w
                            /\ (r.stack + j) - r.stack = j /\ (r.stack - d) + (d + j) = r.stack + j
                            /\ d + j \in 1 .. d + w
       /\ (r.stack + w) - (d + w) = r.stack - d /\ \A j \in 1 .. d : j \in 1 .. d + w
  <2>1. r.stack - d \in Nat  BY <1>10
  <2> QED  BY ONLY <2>1, <1>16, <1>17, <1>18, w \in Nat, d \in Nat
<1>20. y.locals = x.locals
  <2>1. WordsAt(y.locals, Code[r.method].maxLocals, vmStack', r.var)  BY <1>12, <1>14
  <2>2. \A j \in 1 .. Code[r.method].maxLocals : vmStack'[r.var + j] = vmStack[r.var + j]  BY <1>12, <1>19
  <2>3. WordsAt(x.locals, Code[r.method].maxLocals, vmStack, r.var)  BY <1>10
  <2> QED  BY ONLY <2>1, <2>2, <2>3, EqualWords
<1>21. WordsAt(y.operands, d + w, vmStack', r.stack - d)
  <2>1. regs'.stack - Depth' = r.stack - d  BY <1>12, <1>15, <1>19
  <2> QED  BY <1>14, <1>15, <2>1
<1>22. Len(x.operands) = d /\ Len(y.operands) = d + w  BY <1>10, <1>21 DEF WordsAt
<1>23. \A j \in 1 .. d : y.operands[j] = x.operands[j]
  <2>1. \A j \in 1 .. d : vmStack'[(r.stack - d) + j] = vmStack[(r.stack - d) + j]  BY <1>12, <1>19
  <2>2. \A j \in 1 .. d : x.operands[j] = vmStack[(r.stack - d) + j]  BY ONLY <1>10 DEF WordsAt
  <2>3. \A j \in 1 .. d : y.operands[j] = vmStack'[(r.stack - d) + j]  BY ONLY <1>19, <1>21 DEF WordsAt
  <2> QED  BY ONLY <2>1, <2>2, <2>3
<1>24. \A j \in 1 .. w : y.operands[d + j] = ws[j]
  <2>1. \A j \in 1 .. w : y.operands[d + j] = vmStack'[r.stack + j]  BY <1>19, <1>21 DEF WordsAt
  <2>2. \A j \in 1 .. w : vmStack'[r.stack + j] = ws[j]  BY <1>12, <1>19
  <2> QED  BY <2>1, <2>2
<1>25. y.entry = x.entry  BY <1>8, <1>12, <1>14
<1>26. BackIn(x, y, ws)
  BY <1>7, <1>8, <1>11, <1>12, <1>14, <1>20, <1>22, <1>23, <1>24, <1>25 DEF BackIn
<1> QED  BY <1>5, <1>13, <1>26

(* What a return makes of the activations.                                 *)
LEMMA ReturnStep ==
  ASSUME GoingOn, NEW ws, ReturnedWith(ws)
  PROVE  /\ TopGood /\ Front(acts) # << >> /\ BackIn(Last(Front(acts)), TopAct', ws)
         /\ acts' = [Front(acts) EXCEPT ![Len(Front(acts))] = TopAct']
         /\ Front(acts) \in Seq(Activation)
<1>1. TopGood /\ TopGood'  BY TopFacts, TopFactsNext DEF GoingOn, Going
<1>2. PICK F : Frames(F, vmStack, regs, base, nest, depths)  BY DEF GoingOn, Going, FramesInv
<1>3. PICK G : Frames(G, vmStack', regs', base', nest', depths')  BY DEF GoingOn, Going, FramesInv
<1>4. ActsGood(F)  BY <1>2, ActsFacts DEF GoodActs, GoingOn, Going
<1>5. ActsGood(G)'  BY <1>3, ActsFactsNext DEF GoodActs, GoingOn, Going
<1>a. PICK r : r = CallerRegs(SubSeq(vmStack, 1, regs.var))  OBVIOUS
<1>6. PICK m : Callers(F, m, r, ws)  BY <1>2, <1>a, CallersFrame DEF GoingOn, Going
<1>7. /\ base' = base /\ nest' = nest /\ ws \in Seq(Word)  BY DEF ReturnedWith
<1>8. BackIn(acts[m], TopAct', ws)
  BY <1>1, <1>2, <1>4, <1>6, <1>7, CallerBack DEF GoingOn, Going
<1>9. /\ m \in Nat \ {0} /\ Len(F) = m + 1
      /\ F[m] = [r |-> r, base |-> base, nest |-> Len(nest)] /\ ReturnOf(r, ws) /\ InFrame(r, depths[m], vmStack)
      /\ Len(depths') = m /\ \A i \in 1 .. m - 1 : depths'[i] = depths[i]
  BY <1>6 DEF Callers
<1>10. /\ NestOK(nest) /\ acts \in Seq(Activation) /\ Len(acts) = m + 1
       /\ acts = ActsOf(F, vmStack, nest, depths, at, exc)
  BY <1>4, <1>9 DEF ActsGood
<1>11. /\ NestOK(nest') /\ acts' \in Seq(Activation) /\ Len(acts') = m /\ Len(G) = m
       /\ G[m] = [r |-> regs', base |-> base', nest |-> Len(nest')] /\ acts'[m] = TopAct'
       /\ acts' = ActsOf(G, vmStack', nest', depths', at', exc')
  BY <1>5, <1>9 DEF ActsGood
<1>12. LeadOn(m, F, vmStack, nest, depths, G, vmStack', nest', depths')
  <2>1. m <= m + 1 /\ m <= m  BY ONLY <1>9
  <2>2. regs'.var = r.var  BY <1>9, Returned
  <2>3. G[m].r.var = F[m].r.var /\ G[m].base = F[m].base /\ G[m].nest = F[m].nest /\ F[m].r.var = r.var
    BY <1>7, <1>9, <1>11, <2>2
  <2>4. \A j \in 1 .. r.var : vmStack'[j] = vmStack[j]
    <3>1. PICK w \in Nat : w = Len(ws)  BY <1>7
    <3>2. \A i \in 1 .. FrameEnd(r) :
            vmStack'[i] = IF i \in r.stack + 1 .. r.stack + w THEN ws[i - r.stack] ELSE vmStack[i]
      <4>1. ReturnOf(r, ws)  BY <1>9
      <4> QED  BY ONLY <4>1, <3>1, Returned
    <3>3. r \in Registers  BY <1>9 DEF ReturnOf
    <3>4. /\ r.var \in Nat /\ r.stack \in Nat /\ LocalsEnd(r) \in Nat /\ FrameEnd(r) \in Nat
          /\ r.var <= LocalsEnd(r) /\ LocalsEnd(r) + 2 <= FrameEnd(r)
      BY <3>3, Sizes
    <3>5. r.stack \in LocalsEnd(r) .. FrameEnd(r) - 2  BY <1>9 DEF InFrame
    <3>6. \A j \in 1 .. r.var : j \in 1 .. FrameEnd(r) /\ j \notin r.stack + 1 .. r.stack + w
      BY ONLY <3>4, <3>5, w \in Nat
    <3> QED  BY <3>2, <3>6
  <2>5. \A j \in 1 .. F[m].nest : nest'[j] = nest[j]  BY <1>7
  <2> QED  BY <2>1, <2>3, <2>4, <2>5, <1>9, <1>11 DEF LeadOn
<1>13. /\ vmStack \in Seq(Word) /\ regs \in Registers /\ base \in Nat /\ exc \in Word
       /\ vmStack' \in Seq(Word) /\ regs' \in Registers /\ base' \in Nat /\ exc' \in Word
  BY DEF GoingOn, Going, FramesInv, TypesOK
<1>14. \A i \in 1 .. m - 1 : acts'[i] = acts[i]
  <2>1. IsActs(acts, F, vmStack, regs, base, nest, depths, at, exc)  BY <1>2, <1>10, <1>13 DEF IsActs
  <2>2. IsActs(acts', G, vmStack', regs', base', nest', depths', at', exc')  BY <1>3, <1>11, <1>13 DEF IsActs
  <2> QED  BY ONLY <2>1, <2>2, <1>12, ActsBelow
<1>15. /\ Front(acts) \in Seq(Activation) /\ Len(Front(acts)) = m /\ Front(acts) # << >> /\ Last(Front(acts)) = acts[m]
       /\ acts' = [Front(acts) EXCEPT ![m] = acts'[m]]
  <2>1. PICK A : A = acts  OBVIOUS
  <2>2. PICK B : B = acts'  OBVIOUS
  <2>3. /\ A \in Seq(Activation) /\ B \in Seq(Activation) /\ m \in Nat \ {0} /\ Len(A) = m + 1 /\ Len(B) = m
        /\ \A i \in 1 .. m - 1 : B[i] = A[i]
    BY ONLY <2>1, <2>2, <1>9, <1>10, <1>11, <1>14
  <2>4. /\ Front(A) \in Seq(Activation) /\ Len(Front(A)) = m /\ Front(A) # << >> /\ Last(Front(A)) = A[m]
        /\ B = [Front(A) EXCEPT ![m] = B[m]]
    BY ONLY <2>3, OtherBelow
  <2> QED  BY ONLY <2>1, <2>2, <2>4
<1> QED  BY ONLY <1>1, <1>8, <1>11, <1>15

(* The end of a sequence, replaced by itself.                              *)
LEMMA LastKept ==
  ASSUME NEW S, NEW A, A \in Seq(S), A # << >>
  PROVE  [A EXCEPT ![Len(A)] = Last(A)] = A
<1>1. PICK n \in Nat : n = Len(A)  OBVIOUS
<1>2. n # 0  BY <1>1
<1>3. n \in 1 .. n  BY ONLY <1>2, n \in Nat
<1>4. Last(A) = A[n]  BY <1>1 DEF Last
<1> QED  BY <1>1, <1>3, <1>4

(* return to the caller.                                                   *)
LEMMA CalledReturn ==
  ASSUME Stepping, MethodReturn, regs.var # base + 3
  PROVE  Calls!Return \/ Calls!Stop
<1>1. at = "step" /\ FramesInv /\ Running  BY DEF MethodReturn, Does, Stepping, Going
<1>2. CASE ~Running'
  <2>1. Calls!Stop  BY <1>2, StopStep DEF Stepping
  <2> QED  BY <2>1
<1>3. CASE Running'
  <2>1. PICK ws : ws = Result  OBVIOUS
  <2>2. ReturnedWith(ws) /\ Len(ws) <= Depth  BY <1>1, <2>1, MethodReturns
  <2>3. GoingOn  BY <1>3 DEF Stepping, Going, GoingOn
  <2>4. PICK B : B = Front(acts)  OBVIOUS
  <2>5. PICK x : x = Last(B)  OBVIOUS
  <2>6. PICK y : y = TopAct'  OBVIOUS
  <2>7. /\ TopGood /\ B # << >> /\ B \in Seq(Activation) /\ BackIn(x, y, ws) /\ acts' = [B EXCEPT ![Len(B)] = y]
    BY <2>2, <2>3, <2>4, <2>5, <2>6, ReturnStep
  <2>8. /\ x \in Activation /\ y \in Activation /\ x.thrown = Junk
        /\ y.method = x.method /\ y.pc = x.pc /\ y.locals = x.locals /\ y.entry = x.entry
        /\ Len(y.operands) = Len(x.operands) + Len(ws)
        /\ \A j \in 1 .. Len(x.operands) : y.operands[j] = x.operands[j]
        /\ \A j \in 1 .. Len(ws) : y.operands[Len(x.operands) + j] = ws[j]
    BY <2>7 DEF BackIn
  <2>9. at' = "step"
    <3>1. at' = at \/ at' = "overrun"
      <4>1. ReturnTo(SubSeq(vmStack, 1, regs.var), ws)  BY <2>2 DEF ReturnedWith
      <4> QED  BY <4>1 DEF ReturnTo
    <3> QED  BY <3>1, <1>1, <1>3 DEF Running
  <2>10. y.thrown = Junk  BY <2>6, <2>9 DEF TopAct, Thrown
  <2>11. PICK d \in Nat : d = Len(x.operands)  BY <2>8 DEF Activation
  <2>12. x.operands \in Seq(Word) /\ y.operands \in Seq(Word)  BY <2>8 DEF Activation
  <2>13. PICK z : z = Last(acts)  OBVIOUS
  <2>14. /\ acts # << >> /\ z = TopAct /\ WordsAt(z.operands, Depth, vmStack, regs.stack - Depth) /\ Depth \in Nat
         /\ regs.stack \in Nat
    BY <2>7, <2>13 DEF TopGood, Registers
  <2>15. z.thrown = Junk /\ z.entry = FALSE /\ z.method = regs.method  BY <1>1, <2>14 DEF TopAct, Thrown
  <2>16. Calls!Top = z /\ Calls!Below = B /\ Calls!Last(Calls!Below) = x
    BY <2>4, <2>5, <2>13 DEF Calls!Top, Calls!Below, Calls!Last, Calls!Front, Last, Front
  <2>17. CASE ~Code[regs.method].returns
    <3>1. ws = << >>  BY <2>1, <2>17 DEF Result
    <3>2. Len(y.operands) = d /\ \A j \in 1 .. d : y.operands[j] = x.operands[j]  BY <2>8, <2>11, <3>1
    <3>3. y.operands = x.operands  BY ONLY <3>2, <2>11, <2>12, SeqEqual
    <3>4. y = x
      <4>1. x \in Activation /\ y \in Activation /\ y.thrown = x.thrown /\ y.method = x.method /\ y.pc = x.pc
            /\ y.locals = x.locals /\ y.entry = x.entry /\ y.operands = x.operands
        BY <2>8, <2>10, <3>3
      <4> QED  BY ONLY <4>1 DEF Activation
    <3>5. acts' = B
      <4>1. acts' = [B EXCEPT ![Len(B)] = Last(B)]  BY <2>5, <2>7, <3>4
      <4>2. B \in Seq(Activation) /\ B # << >>  BY <2>7
      <4>3. [B EXCEPT ![Len(B)] = Last(B)] = B  BY ONLY <4>2, LastKept
      <4> QED  BY ONLY <4>1, <4>3
    <3>6. Calls!Return
      BY ONLY <2>14, <2>15, <2>16, <2>17, <3>5 DEF Calls!Return
    <3> QED  BY <3>6
  <2>18. CASE Code[regs.method].returns
    <3>1. ws = <<Operand(1)>> /\ Len(ws) = 1  BY <2>1, <2>18 DEF Result
    <3>2. PICK v \in Word : v = Operand(1)
      <4>1. Depth >= 1  BY <2>2, <2>14, <3>1
      <4>2. 1 \in 1 .. Depth  BY ONLY <4>1, <2>14
      <4>3. Operand(1) \in Word  BY <1>1, <4>2, WordsTaken
      <4> QED  BY <4>3
    <3>3. Len(y.operands) = d + 1 /\ (\A j \in 1 .. d : y.operands[j] = x.operands[j]) /\ y.operands[d + 1] = v
      <4>1. 1 \in 1 .. 1 /\ ws[1] = v  BY <3>1, <3>2
      <4>2. Len(y.operands) = d + 1 /\ (\A j \in 1 .. d : y.operands[j] = x.operands[j])  BY <2>8, <2>11, <3>1
      <4>3. y.operands[d + 1] = ws[1]  BY ONLY <4>1, <2>8, <2>11, <3>1
      <4> QED  BY <4>1, <4>2, <4>3
    <3>4. y.operands = Append(x.operands, v)
      <4>1. PICK s : s = x.operands  OBVIOUS
      <4>2. PICK t : t = y.operands  OBVIOUS
      <4>3. s \in Seq(Word) /\ t \in Seq(Word) /\ Len(s) = d /\ Len(t) = d + 1 /\ \A j \in 1 .. d : t[j] = s[j]
        BY ONLY <4>1, <4>2, <2>11, <2>12, <3>3
      <4>4. t = Append(s, t[d + 1])  BY ONLY <4>3, d \in Nat, OneMore
      <4> QED  BY ONLY <4>1, <4>2, <4>4, <3>3
    <3>5. PICK o : o = Append(x.operands, v)  OBVIOUS
    <3>6. y = [x EXCEPT !.operands = o]
      <4>1. x \in Activation /\ y \in Activation /\ y.thrown = x.thrown /\ y.method = x.method /\ y.pc = x.pc
            /\ y.locals = x.locals /\ y.entry = x.entry /\ y.operands = o
        BY <2>8, <2>10, <3>4, <3>5
      <4> QED  BY ONLY <4>1 DEF Activation
    <3>7. z.operands # << >> /\ Last(z.operands) = v
      <4>1. Depth >= 1  BY <2>2, <2>14, <3>1
      <4>2. Depth \in 1 .. Depth /\ (regs.stack - Depth) + Depth = regs.stack /\ regs.stack + 1 - 1 = regs.stack /\ Depth # 0
        BY ONLY <4>1, <2>14
      <4>3. z.operands[Depth] = vmStack[regs.stack] /\ Len(z.operands) = Depth  BY <4>2, <2>14 DEF WordsAt
      <4>4. z.operands # << >>  BY <4>2, <4>3
      <4> QED  BY <4>2, <4>3, <4>4, <3>2 DEF Last, Operand
    <3>8. acts' = [B EXCEPT ![Len(B)].operands = Append(@, v)]
      <4>1. PICK n : n = Len(B)  OBVIOUS
      <4>2. B[n] = x  BY <4>1, <2>5 DEF Last
      <4>3. acts' = [B EXCEPT ![n] = [B[n] EXCEPT !.operands = Append(B[n].operands, v)]]
        BY ONLY <4>1, <4>2, <2>7, <3>5, <3>6
      <4> QED  BY ONLY <4>1, <4>3
    <3>9. Calls!Last(z.operands) = v  BY <3>7 DEF Calls!Last, Last
    <3>10. acts' = [Calls!Below EXCEPT ![Len(Calls!Below)].operands = Append(@, Calls!Last(Calls!Top.operands))]
      BY ONLY <2>16, <3>8, <3>9
    <3>11. Calls!Return
      BY ONLY <2>14, <2>15, <2>16, <2>18, <3>7, <3>10 DEF Calls!Return
    <3> QED  BY <3>11
  <2> QED  BY <2>17, <2>18
<1> QED  BY <1>2, <1>3

(* An exception is passed to the caller.                                   *)
LEMMA UnwindStep ==
  ASSUME Stepping, SearchInv, Unwind
  PROVE  Calls!Unwind \/ Calls!Stop
<1>1. at = "search" /\ FramesInv /\ Running  BY DEF Unwind, Stepping, Going
<1>2. CASE ~Running'
  <2>1. Calls!Stop  BY <1>2, StopStep DEF Stepping
  <2> QED  BY <2>1
<1>3. CASE Running'
  <2>1. regs.var # base + 3
    <3>1. ASSUME regs.var = base + 3 PROVE FALSE
      <4>1. Len(PopFrame(vmStack, regs.method)) = base + 3  BY <1>1, <3>1, Popped
      <4>2. GENERATE_EXCEPTION  BY <4>1 DEF Unwind
      <4> QED  BY <4>2, <1>3 DEF GENERATE_EXCEPTION, Running
    <3> QED  BY <3>1
  <2>2. PICK ws : ws = << >>  OBVIOUS
  <2>3. ReturnedWith(ws)  BY <1>1, <2>1, <2>2, UnwindReturns
  <2>4. GoingOn  BY <1>3 DEF Stepping, Going, GoingOn
  <2>5. PICK B : B = Front(acts)  OBVIOUS
  <2>6. PICK x : x = Last(B)  OBVIOUS
  <2>7. PICK y : y = TopAct'  OBVIOUS
  <2>8. /\ TopGood /\ B # << >> /\ BackIn(x, y, ws) /\ acts' = [B EXCEPT ![Len(B)] = y]
    BY <2>3, <2>4, <2>5, <2>6, <2>7, ReturnStep
  <2>9. /\ x \in Activation /\ y \in Activation
        /\ y.method = x.method /\ y.pc = x.pc /\ y.locals = x.locals /\ y.entry = x.entry
        /\ Len(y.operands) = Len(x.operands) + Len(ws)
        /\ \A j \in 1 .. Len(x.operands) : y.operands[j] = x.operands[j]
    BY <2>8 DEF BackIn
  <2>10. y.operands = x.operands
    <3>1. PICK d \in Nat : d = Len(x.operands)  BY <2>9 DEF Activation
    <3>2. x.operands \in Seq(Word) /\ y.operands \in Seq(Word)  BY <2>9 DEF Activation
    <3>3. Len(y.operands) = d /\ \A j \in 1 .. d : y.operands[j] = x.operands[j]  BY <2>2, <2>9, <3>1
    <3> QED  BY ONLY <3>1, <3>2, <3>3, SeqEqual
  <2>11. at' = "search" /\ exc' = exc
    <3>1. at' = at \/ at' = "overrun"
      <4>1. ReturnTo(SubSeq(vmStack, 1, regs.var), ws)  BY <2>3 DEF ReturnedWith
      <4> QED  BY <4>1 DEF ReturnTo
    <3> QED  BY <3>1, <1>1, <1>3, <2>3 DEF Running, ReturnedWith
  <2>12. y.thrown = exc  BY <2>7, <2>11 DEF TopAct, Thrown
  <2>13. y = [x EXCEPT !.thrown = exc]
    BY ONLY <2>9, <2>10, <2>12 DEF Activation
  <2>14. PICK z : z = Last(acts)  OBVIOUS
  <2>15. acts # << >> /\ z.thrown = exc /\ z.entry = FALSE
    <3>1. acts # << >> /\ z = TopAct  BY <2>8, <2>14 DEF TopGood
    <3>2. (regs.var = base + 3) = FALSE  BY <2>1
    <3> QED  BY <1>1, <3>1, <3>2 DEF TopAct, Thrown
  <2>16. exc # Junk  BY <1>1 DEF SearchInv, NoneApplies
  <2>17. Calls!Top = z /\ Calls!Below = B
    BY <2>5, <2>14 DEF Calls!Top, Calls!Below, Calls!Last, Calls!Front, Last, Front
  <2>18. acts' = [B EXCEPT ![Len(B)].thrown = exc]
    <3>1. PICK n : n = Len(B)  OBVIOUS
    <3>2. B[n] = x  BY <3>1, <2>6 DEF Last
    <3>3. acts' = [B EXCEPT ![n] = [B[n] EXCEPT !.thrown = exc]]  BY ONLY <3>1, <3>2, <2>8, <2>13
    <3> QED  BY ONLY <3>1, <3>3
  <2>19. acts' = [Calls!Below EXCEPT ![Len(Calls!Below)].thrown = Calls!Top.thrown]  BY ONLY <2>15, <2>17, <2>18
  <2>20. Calls!Unwind  BY ONLY <2>15, <2>16, <2>17, <2>19 DEF Calls!Unwind
  <2> QED  BY <2>20
<1> QED  BY <1>2, <1>3

\* The jExecMethod of the last frame is left: m frames stay as they are.
LeftTo(F, m) ==
  /\ m \in Nat \ {0} /\ Len(F) = m + 1 /\ Len(depths) = m + 1
  /\ F[m] = [r |-> regs', base |-> base', nest |-> Len(nest')]
  /\ F[m + 1].r.var = F[m + 1].base + 3 /\ nest[F[m + 1].nest].at = at' /\ nest[F[m + 1].nest].exc = exc'
  /\ depths[m] \in Nat /\ InFrame(regs', depths[m], vmStack)
  /\ Len(vmStack') = FrameEnd(regs') /\ \A i \in 1 .. FrameEnd(regs') : vmStack'[i] = vmStack[i]
  /\ \A i \in 1 .. Len(nest') : nest'[i] = nest[i]
  /\ Len(depths') = m /\ \A i \in 1 .. m : depths'[i] = depths[i]

(* So it is.                                                               *)
LEMMA LeftFrames ==
  ASSUME FramesInv, Running, Running', regs.var = base + 3, Leave, depths' = Front(depths),
         NEW F, Frames(F, vmStack, regs, base, nest, depths)
  PROVE  \E m : LeftTo(F, m)
<1>1. /\ regs \in Registers /\ base \in Nat /\ vmStack \in Seq(Word) /\ Len(nest) \in Nat
      /\ Len(vmStack) = FrameEnd(regs) /\ Len(depths) \in Nat \ {0} /\ depths \in Seq(Nat)
  BY RunningFacts
<1>2. PICK n \in Nat : n = Len(nest)  BY <1>1
<1>3. PICK c : c = nest[n]  OBVIOUS
<1>4. n >= 1 /\ (Len(F) = 1 => n = 1)
  BY ONLY <1>1, <1>2, Frames(F, vmStack, regs, base, nest, depths), OnlyFrame
<1>5. Len(F) \in Nat \ {0} /\ Len(F) = Len(depths) /\ F[Len(F)] = [r |-> regs, base |-> base, nest |-> n]
  BY <1>1, <1>2, FrameFacts DEF Frames
<1>6. NestOK(nest) /\ nest \in Seq(Saved)  BY DEF FramesInv, TypesOK, NestOK
<1>7. /\ vmStack' = SubSeq(vmStack, 1, base) /\ nest' = Front(nest)
      /\ regs' = c.regs /\ base' = c.base /\ at' = c.at /\ exc' = c.exc
  BY <1>2, <1>3 DEF Leave, Last
<1>8. n \in 1 .. n  BY ONLY <1>4, n \in Nat
<1>9. n # 1
  <2>1. n = 1 => c.at = "main"  BY <1>2, <1>3, <1>6, <1>8 DEF NestOK
  <2> QED  BY <2>1, <1>7 DEF Running
<1>10. PICK m \in Nat \ {0} : Len(F) = m + 1
  <2>1. PICK l \in Nat \ {0} : l = Len(F)  BY <1>5
  <2>2. l # 1  BY <1>4, <1>9, <2>1
  <2>3. l - 1 \in Nat \ {0} /\ l = (l - 1) + 1  BY ONLY <2>2, l \in Nat \ {0}
  <2> QED  BY <2>1, <2>3
<1>11. /\ (m + 1) - 1 = m /\ m + 1 \in 1 .. m + 1 /\ m + 1 > 1 /\ m + 1 > 0 /\ \A i \in 1 .. m : i \in 1 .. m
  BY ONLY m \in Nat \ {0}
<1>12. /\ nest' \in Seq(Saved) /\ Len(nest') = n - 1 /\ \A i \in 1 .. n - 1 : nest'[i] = nest[i]
  <2>1. nest \in Seq(Saved) /\ Len(nest) > 0  BY <1>2, <1>4, <1>6
  <2>2. /\ Front(nest) \in Seq(Saved) /\ Len(Front(nest)) = Len(nest) - 1
        /\ \A i \in 1 .. Len(nest) - 1 : Front(nest)[i] = nest[i]
    BY ONLY <2>1, FrontOf
  <2> QED  BY ONLY <2>2, <1>2, <1>7
<1>13. PICK f : f = Below([r |-> regs, base |-> base, nest |-> n], vmStack, nest)  OBVIOUS
<1>14. f = [r |-> regs', base |-> base', nest |-> n - 1]  BY <1>3, <1>7, <1>13 DEF Below
<1>15. F[m] = f
  <2>1. FrameAt(F, m + 1, vmStack, nest, depths)  BY <1>10, <1>11 DEF Frames
  <2>2. F[(m + 1) - 1] = Below(F[m + 1], vmStack, nest)  BY <2>1, <1>11 DEF FrameAt
  <2> QED  BY <2>2, <1>5, <1>10, <1>11, <1>13
<1>16. /\ f.r \in Registers /\ regs.var = FrameEnd(f.r) + 3
       /\ InFrame(f.r, depths[Len(depths) - 1], vmStack) /\ depths[Len(depths) - 1] \in Nat
  <2>1. Len(F) > 1  BY <1>10, <1>11
  <2>2. f = Below([r |-> regs, base |-> base, nest |-> Len(nest)], vmStack, nest)  BY <1>2, <1>13
  <2> QED  BY ONLY <2>1, <2>2, <1>1, Frames(F, vmStack, regs, base, nest, depths), FramePopped, SMTT(40)
<1>17. /\ regs' \in Registers /\ regs.var = FrameEnd(regs') + 3
       /\ InFrame(regs', depths[m], vmStack) /\ depths[m] \in Nat
  <2>1. f.r = regs'  BY <1>14
  <2>2. Len(depths) - 1 = m  BY <1>5, <1>10, <1>11
  <2> QED  BY <2>1, <2>2, <1>16
<1>18. FrameEnd(regs') = base
  <2>1. FrameEnd(regs') \in Nat  BY <1>17, Sizes
  <2>2. FrameEnd(regs') + 3 = base + 3  BY <1>17
  <2> QED  BY ONLY <2>1, <2>2, <1>1
<1>19. Len(vmStack') = base /\ \A i \in 1 .. base : vmStack'[i] = vmStack[i]
  <2>1. regs.var + 2 <= FrameEnd(regs) /\ FrameEnd(regs) \in Nat  BY <1>1, Sizes
  <2>2. regs.var = base + 3  OBVIOUS
  <2>3. base <= FrameEnd(regs)  BY ONLY <1>1, <2>1, <2>2
  <2>4. base <= Len(vmStack)  BY <1>1, <2>3
  <2> QED  BY ONLY <1>1, <1>7, <2>4, Prefix
<1>20. Len(depths') = m /\ \A i \in 1 .. m : depths'[i] = depths[i]
  <2>1. depths \in Seq(Nat) /\ Len(depths) > 0  BY <1>1
  <2>2. Len(Front(depths)) = Len(depths) - 1 /\ \A i \in 1 .. Len(depths) - 1 : Front(depths)[i] = depths[i]
    BY ONLY <2>1, FrontOf
  <2>3. Len(depths) - 1 = m  BY <1>5, <1>10, <1>11
  <2> QED  BY ONLY <2>2, <2>3, depths' = Front(depths)
<1>21. /\ F[m + 1].r.var = F[m + 1].base + 3 /\ nest[F[m + 1].nest].at = at' /\ nest[F[m + 1].nest].exc = exc'
  <2>1. F[m + 1].r = regs /\ F[m + 1].base = base /\ F[m + 1].nest = n  BY <1>5, <1>10
  <2> QED  BY <2>1, <1>3, <1>7
<1> QED  BY <1>5, <1>10, <1>12, <1>14, <1>15, <1>17, <1>18, <1>19, <1>20, <1>21 DEF LeftTo

(* A call of the machine ends.                                             *)
LEMMA LeaveStep ==
  ASSUME GoingOn, regs.var = base + 3, Leave, depths' = Front(depths)
  PROVE  TopGood /\ acts' = Front(acts)
<1>1. TopGood /\ TopGood'  BY TopFacts, TopFactsNext DEF GoingOn, Going
<1>2. PICK F : Frames(F, vmStack, regs, base, nest, depths)  BY DEF GoingOn, Going, FramesInv
<1>3. PICK G : Frames(G, vmStack', regs', base', nest', depths')  BY DEF GoingOn, Going, FramesInv
<1>4. ActsGood(F)  BY <1>2, ActsFacts DEF GoodActs, GoingOn, Going
<1>5. ActsGood(G)'  BY <1>3, ActsFactsNext DEF GoodActs, GoingOn, Going
<1>6. PICK m : LeftTo(F, m)  BY <1>2, LeftFrames DEF GoingOn, Going
<1>7. /\ m \in Nat \ {0} /\ Len(F) = m + 1 /\ Len(depths) = m + 1
      /\ F[m] = [r |-> regs', base |-> base', nest |-> Len(nest')]
      /\ F[m + 1].r.var = F[m + 1].base + 3 /\ nest[F[m + 1].nest].at = at' /\ nest[F[m + 1].nest].exc = exc'
      /\ depths[m] \in Nat /\ InFrame(regs', depths[m], vmStack)
      /\ Len(vmStack') = FrameEnd(regs') /\ \A i \in 1 .. FrameEnd(regs') : vmStack'[i] = vmStack[i]
      /\ \A i \in 1 .. Len(nest') : nest'[i] = nest[i]
      /\ Len(depths') = m /\ \A i \in 1 .. m : depths'[i] = depths[i]
  BY <1>6 DEF LeftTo
<1>8. /\ NestOK(nest) /\ acts \in Seq(Activation) /\ Len(acts) = m + 1
      /\ acts = ActsOf(F, vmStack, nest, depths, at, exc)
  BY <1>4, <1>7 DEF ActsGood
<1>9. /\ NestOK(nest') /\ acts' \in Seq(Activation) /\ Len(acts') = m /\ Len(G) = m
      /\ G[m] = [r |-> regs', base |-> base', nest |-> Len(nest')] /\ acts'[m] = TopAct'
      /\ acts' = ActsOf(G, vmStack', nest', depths', at', exc')
  BY <1>5, <1>7 DEF ActsGood
<1>10. /\ vmStack \in Seq(Word) /\ regs \in Registers /\ base \in Nat /\ exc \in Word
       /\ vmStack' \in Seq(Word) /\ regs' \in Registers /\ base' \in Nat /\ exc' \in Word
  BY DEF GoingOn, Going, FramesInv, TypesOK
<1>11. /\ m <= m + 1 /\ m <= m /\ m \in 1 .. m + 1 /\ m # m + 1 /\ m \in 1 .. m
       /\ (\A i \in 1 .. m - 1 : i \in 1 .. m) /\ \A i \in 1 .. m : i \in 1 .. m - 1 \/ i = m
  BY ONLY <1>7
<1>12. LeadOn(m, F, vmStack, nest, depths, G, vmStack', nest', depths')
  <2>1. G[m].r.var = F[m].r.var /\ G[m].base = F[m].base /\ G[m].nest = F[m].nest /\ F[m].r.var = regs'.var
    BY <1>7, <1>9
  <2>2. \A j \in 1 .. regs'.var : vmStack'[j] = vmStack[j]
    <3>1. regs'.var \in Nat /\ FrameEnd(regs') \in Nat /\ regs'.var + 2 <= FrameEnd(regs')  BY <1>10, Sizes
    <3>2. \A j \in 1 .. regs'.var : j \in 1 .. FrameEnd(regs')  BY ONLY <3>1
    <3> QED  BY <3>2, <1>7
  <2>3. \A j \in 1 .. F[m].nest : nest'[j] = nest[j]  BY <1>7
  <2> QED  BY <2>1, <2>2, <2>3, <1>7, <1>9, <1>11 DEF LeadOn
<1>13. \A i \in 1 .. m - 1 : acts'[i] = acts[i]
  <2>1. IsActs(acts, F, vmStack, regs, base, nest, depths, at, exc)  BY <1>2, <1>8, <1>10 DEF IsActs
  <2>2. IsActs(acts', G, vmStack', regs', base', nest', depths', at', exc')  BY <1>3, <1>9, <1>10 DEF IsActs
  <2> QED  BY ONLY <2>1, <2>2, <1>12, ActsBelow
<1>14. acts'[m] = acts[m]
  <2>1. acts[m] = ActOf(F[m], vmStack, depths[m], ThrownIn(F, m, nest, at, exc))  BY <1>7, <1>8, <1>11 DEF ActsOf
  <2>2. ThrownIn(F, m, nest, at, exc) = Thrown(at', exc')  BY <1>7, <1>11 DEF ThrownIn
  <2>3. F[m].r = regs' /\ F[m].base = base'  BY <1>7
  <2>4. Depth' = depths[m]  BY <1>7, <1>11 DEF Depth, Last
  <2>5. LocalsOf(regs', vmStack') = LocalsOf(regs', vmStack) /\ OperandsOf(regs', depths[m], vmStack') = OperandsOf(regs', depths[m], vmStack)
    <3>1. PICK r \in Registers : r = regs'  BY <1>10
    <3>2. PICK d \in Nat : d = depths[m]  BY <1>7
    <3>3. PICK st2 : st2 = vmStack'  OBVIOUS
    <3>4. /\ vmStack \in Seq(Word) /\ InFrame(r, d, vmStack) /\ st2 \in Seq(Word) /\ Len(st2) = FrameEnd(r)
          /\ \A j \in 1 .. FrameEnd(r) : st2[j] = vmStack[j]
      BY ONLY <3>1, <3>2, <3>3, <1>7, <1>10
    <3>5. FrameEnd(r) <= Len(st2)
      <4>1. FrameEnd(r) \in Nat  BY Sizes
      <4>2. FrameEnd(r) <= FrameEnd(r)  BY ONLY <4>1
      <4> QED  BY <4>2, <3>4
    <3>6. LocalsOf(r, st2) = LocalsOf(r, vmStack) /\ OperandsOf(r, d, st2) = OperandsOf(r, d, vmStack)
      BY ONLY <3>4, <3>5, r \in Registers, d \in Nat, SameWords
    <3> QED  BY ONLY <3>1, <3>2, <3>3, <3>6
  <2> QED  BY <2>1, <2>2, <2>3, <2>4, <2>5, <1>9 DEF ActOf, TopAct
<1>15. acts' = Front(acts)
  <2>1. PICK A : A = acts  OBVIOUS
  <2>2. PICK B : B = acts'  OBVIOUS
  <2>3. PICK n \in Nat \ {0} : n = m + 1 /\ n - 1 = m
    <3>1. m + 1 \in Nat \ {0} /\ (m + 1) - 1 = m  BY ONLY <1>7
    <3> QED  BY <3>1
  <2>4. \A i \in 1 .. n - 1 : B[i] = A[i]  BY <2>1, <2>2, <2>3, <1>11, <1>13, <1>14
  <2>5. A \in Seq(Activation) /\ B \in Seq(Activation) /\ Len(A) = n /\ Len(B) = n - 1
    BY <2>1, <2>2, <2>3, <1>8, <1>9
  <2>6. B = Front(A)  BY ONLY <2>4, <2>5, n \in Nat \ {0}, OneLess
  <2> QED  BY ONLY <2>1, <2>2, <2>6
<1> QED  BY <1>1, <1>15

(* return, from whatever frame.                                            *)
LEMMA MethodReturnStep ==
  ASSUME Stepping, MethodReturn
  PROVE  Calls!Return \/ Calls!Stop
<1>1. at = "step" /\ FramesInv /\ Running  BY DEF MethodReturn, Does, Stepping, Going
<1>2. CASE regs.var # base + 3  BY <1>2, CalledReturn
<1>3. CASE regs.var = base + 3 /\ ~Running'
  <2>1. Calls!Stop  BY <1>3, StopStep DEF Stepping
  <2> QED  BY <2>1
<1>4. CASE regs.var = base + 3 /\ Running'
  <2>1. Len(PopFrame(vmStack, regs.method)) = base + 3  BY <1>1, <1>4, Popped
  <2>2. Leave /\ depths' = Front(depths)  BY <2>1 DEF MethodReturn
  <2>3. GoingOn  BY <1>4 DEF Stepping, Going, GoingOn
  <2>4. TopGood /\ acts' = Front(acts)  BY <1>4, <2>2, <2>3, LeaveStep
  <2>5. PICK z : z = Last(acts)  OBVIOUS
  <2>6. acts # << >> /\ z = TopAct  BY <2>4, <2>5 DEF TopGood
  <2>7. (regs.var = base + 3) = TRUE  BY <1>4
  <2>8. z.thrown = Junk /\ z.entry = TRUE  BY <1>1, <2>6, <2>7 DEF TopAct, Thrown
  <2>9. Calls!Top = z /\ Calls!Below = Front(acts)
    BY <2>5 DEF Calls!Top, Calls!Below, Calls!Last, Calls!Front, Last, Front
  <2>10. Calls!Return  BY ONLY <2>4, <2>6, <2>8, <2>9 DEF Calls!Return
  <2> QED  BY <2>10
<1> QED  BY <1>2, <1>3, <1>4

---------------------------------------------------------------------------
(* Frames that are laid out. *)

(* Another last element, and one more on top of it.                        *)
LEMMA TwoMore ==
  ASSUME NEW S, NEW A, A \in Seq(S), NEW B, B \in Seq(S), NEW n \in Nat \ {0}, Len(A) = n, Len(B) = n + 1,
         \A i \in 1 .. n - 1 : B[i] = A[i]
  PROVE  B = Append(Append(Front(A), B[n]), B[n + 1])
<1>1. n \in 1 .. n + 1 /\ (\A i \in 1 .. n : i \in 1 .. n - 1 \/ i = n) /\ n \in Nat  BY ONLY n \in Nat \ {0}
<1>2. B[n] \in S  BY <1>1, ElementOfSeq
<1>3. PICK m \in Nat : m = n - 1
  <2>1. n - 1 \in Nat  BY ONLY n \in Nat \ {0}
  <2> QED  BY <2>1
<1>4. PICK C : C = Front(A)  OBVIOUS
<1>5. C \in Seq(S) /\ Len(C) = m /\ \A i \in 1 .. m : C[i] = A[i]
  <2>1. Len(A) > 0  BY ONLY Len(A) = n, n \in Nat \ {0}
  <2> QED  BY <1>3, <1>4, <2>1, FrontOf
<1>6. PICK D : D = Append(C, B[n])  OBVIOUS
<1>7. D \in Seq(S) /\ Len(D) = m + 1 /\ D[m + 1] = B[n] /\ \A i \in 1 .. m : D[i] = C[i]
  BY <1>2, <1>5, <1>6, AppendProperties
<1>8. m + 1 = n  BY <1>3
<1>9. \A i \in 1 .. n : B[i] = D[i]
  <2>1. \A i \in 1 .. n - 1 : B[i] = D[i]  BY <1>3, <1>5, <1>7
  <2> QED  BY <2>1, <1>1, <1>7, <1>8
<1>10. B = Append(D, B[n + 1])
  <2>1. Len(D) = n  BY <1>7, <1>8
  <2> QED  BY ONLY <2>1, <1>1, <1>7, <1>9, B \in Seq(S), Len(B) = n + 1, OneMore
<1> QED  BY <1>4, <1>6, <1>10

\* A frame is laid out over the running one, which goes on with the registers rc,
\* n operands less.
PushedFrame(rc, n) ==
  /\ n \in Nat /\ n <= Depth
  /\ rc \in Registers /\ rc.method = regs.method /\ rc.var = regs.var /\ rc.stack = regs.stack - n
  /\ Below([r |-> regs', base |-> base', nest |-> Len(nest')], vmStack', nest')
       = [r |-> rc, base |-> base, nest |-> Len(nest)]
  /\ Len(vmStack) <= Len(vmStack') /\ \A i \in 1 .. Len(vmStack) : vmStack'[i] = vmStack[i]
  /\ \A i \in 1 .. Len(nest) : nest'[i] = nest[i]
  /\ depths' = Append([depths EXCEPT ![Len(depths)] = Depth - n], 0)

\* The exception that waits in the frame below.
WaitingIn(rg, bs, ns) ==
  IF rg.var = bs + 3 THEN Thrown(ns[Len(ns)].at, ns[Len(ns)].exc) ELSE Junk

\* x is the activation that waits, without the n operands taken from it.
Waits(x, rc, n) ==
  /\ x \in Activation /\ x.method = TopAct.method /\ x.pc = rc.pc /\ x.locals = TopAct.locals
  /\ x.operands = SubSeq(TopAct.operands, 1, Depth - n)
  /\ x.thrown = WaitingIn(regs', base', nest') /\ x.entry = TopAct.entry

(* The words of the running frame, as its caller's.                        *)
LEMMA WaitingWords ==
  ASSUME TopGood, NEW rc, NEW n, PushedFrame(rc, n), NEW d \in Nat, d = Depth - n,
         vmStack' \in Seq(Word), InFrame(rc, d, vmStack'), Len(vmStack) = FrameEnd(regs)
  PROVE  /\ LocalsOf(rc, vmStack') = TopAct.locals
         /\ OperandsOf(rc, d, vmStack') = SubSeq(TopAct.operands, 1, Depth - n)
<1>1. /\ regs \in Registers /\ vmStack \in Seq(Word) /\ Depth \in Nat /\ InFrame(regs, Depth, vmStack)
      /\ WordsAt(TopAct.operands, Depth, vmStack, regs.stack - Depth) /\ regs.stack - Depth \in Nat
      /\ TopAct.locals = LocalsOf(regs, vmStack)
  BY DEF TopGood, TopAct
<1>2. /\ n \in Nat /\ n <= Depth
      /\ rc \in Registers /\ rc.method = regs.method /\ rc.var = regs.var /\ rc.stack = regs.stack - n
      /\ Len(vmStack) <= Len(vmStack') /\ \A i \in 1 .. Len(vmStack) : vmStack'[i] = vmStack[i]
  BY DEF PushedFrame
<1>3. LocalsOf(rc, vmStack') = TopAct.locals
  <2>1. PICK st2 : st2 = vmStack'  OBVIOUS
  <2>2. /\ st2 \in Seq(Word) /\ FrameEnd(regs) <= Len(st2) /\ \A j \in 1 .. FrameEnd(regs) : st2[j] = vmStack[j]
    BY <2>1, <1>2
  <2>3. LocalsOf(regs, st2) = LocalsOf(regs, vmStack)  BY ONLY <2>2, <1>1, SameWords
  <2> QED  BY <2>1, <2>3, <1>1, <1>2 DEF LocalsOf, LocalsEnd
<1>4. WordsAt(OperandsOf(rc, d, vmStack'), d, vmStack', rc.stack - d)  BY <1>2, FrameWords
<1>5. PICK lo \in Nat : lo = regs.stack - Depth  BY <1>1
<1>6. rc.stack - d = lo /\ d <= Depth /\ d <= d /\ \A j \in 1 .. d : lo + j \in 1 .. FrameEnd(regs)
  <2>1. regs.stack \in LocalsEnd(regs) .. FrameEnd(regs) - 2  BY <1>1 DEF InFrame
  <2>2. LocalsEnd(regs) \in Nat /\ FrameEnd(regs) \in Nat /\ regs.stack \in Nat  BY <1>1, Sizes
  <2>3. Depth \in Nat /\ n \in Nat /\ n <= Depth /\ rc.stack = regs.stack - n /\ d = Depth - n  BY <1>1, <1>2
  <2> QED  BY ONLY <2>1, <2>2, <2>3, <1>5, d \in Nat
<1>7. PICK s : s = TopAct.operands  OBVIOUS
<1>8. PICK t : t = OperandsOf(rc, d, vmStack')  OBVIOUS
<1>9. PICK st2 : st2 = vmStack'  OBVIOUS
<1>10. /\ WordsAt(s, Depth, vmStack, lo) /\ WordsAt(t, d, st2, lo) /\ \A j \in 1 .. d : st2[lo + j] = vmStack[lo + j]
  BY <1>1, <1>2, <1>4, <1>5, <1>6, <1>7, <1>8, <1>9
<1>11. SubSeq(t, 1, d) = SubSeq(s, 1, d)
  <2>1. PICK q \in Nat : q = d  OBVIOUS
  <2>2. PICK e \in Nat : e = Depth  BY <1>1
  <2>3. PICK st : st = vmStack  OBVIOUS
  <2>4. /\ q <= e /\ q <= d /\ WordsAt(s, e, st, lo) /\ WordsAt(t, d, st2, lo)
        /\ \A j \in 1 .. q : st2[lo + j] = st[lo + j]
    BY <1>6, <1>10, <2>1, <2>2, <2>3
  <2>5. /\ SubSeq(s, 1, q) \in Seq(Word) /\ Len(SubSeq(s, 1, q)) = q
        /\ SubSeq(t, 1, q) = SubSeq(s, 1, q) /\ IsPrefix(SubSeq(s, 1, q), t)
    BY ONLY <2>4, d \in Nat, e \in Nat, q \in Nat, KeptWords
  <2> QED  BY <2>1, <2>5
<1>12. SubSeq(t, 1, d) = t  BY <1>10, AllOf DEF WordsAt
<1>13. OperandsOf(rc, d, vmStack') = SubSeq(TopAct.operands, 1, d)  BY <1>7, <1>8, <1>11, <1>12
<1> QED  BY <1>3, <1>13

(* What a frame that is laid out makes of the activations.                 *)
LEMMA PushedStep ==
  ASSUME GoingOn, NEW rc, NEW n, PushedFrame(rc, n)
  PROVE  /\ TopGood /\ TopGood' /\ Depth' = 0
         /\ \E x : Waits(x, rc, n) /\ acts' = Append(Append(Front(acts), x), TopAct')
<1>1. TopGood /\ TopGood'  BY TopFacts, TopFactsNext DEF GoingOn, Going
<1>2. PICK F : Frames(F, vmStack, regs, base, nest, depths)  BY DEF GoingOn, Going, FramesInv
<1>3. PICK G : Frames(G, vmStack', regs', base', nest', depths')  BY DEF GoingOn, Going, FramesInv
<1>4. ActsGood(F)  BY <1>2, ActsFacts DEF GoodActs, GoingOn, Going
<1>5. ActsGood(G)'  BY <1>3, ActsFactsNext DEF GoodActs, GoingOn, Going
<1>6. /\ NestOK(nest) /\ acts \in Seq(Activation) /\ Len(F) \in Nat \ {0} /\ Len(acts) = Len(F) /\ Len(depths) = Len(F)
      /\ F[Len(F)] = [r |-> regs, base |-> base, nest |-> Len(nest)]
      /\ acts = ActsOf(F, vmStack, nest, depths, at, exc)
  BY <1>4 DEF ActsGood
<1>7. /\ NestOK(nest') /\ acts' \in Seq(Activation) /\ Len(acts') = Len(G) /\ Len(depths') = Len(G)
      /\ G[Len(G)] = [r |-> regs', base |-> base', nest |-> Len(nest')]
      /\ acts' = ActsOf(G, vmStack', nest', depths', at', exc') /\ acts'[Len(G)] = TopAct'
  BY <1>5 DEF ActsGood
<1>8. /\ vmStack \in Seq(Word) /\ regs \in Registers /\ base \in Nat /\ exc \in Word
      /\ vmStack' \in Seq(Word) /\ regs' \in Registers /\ base' \in Nat /\ exc' \in Word
      /\ Len(vmStack) = FrameEnd(regs) /\ depths \in Seq(Nat)
  BY RunningFacts DEF GoingOn, Going, FramesInv, TypesOK
<1>9. /\ n \in Nat /\ n <= Depth /\ rc.var = regs.var
      /\ Below([r |-> regs', base |-> base', nest |-> Len(nest')], vmStack', nest')
           = [r |-> rc, base |-> base, nest |-> Len(nest)]
      /\ \A i \in 1 .. Len(vmStack) : vmStack'[i] = vmStack[i]
      /\ \A i \in 1 .. Len(nest) : nest'[i] = nest[i]
      /\ depths' = Append([depths EXCEPT ![Len(depths)] = Depth - n], 0)
  BY DEF PushedFrame
<1>10. PICK q \in Nat \ {0} : q = Len(F)  BY <1>6
<1>11. /\ q \in 1 .. q /\ q <= q /\ q \in 1 .. q + 1 /\ q + 1 \in 1 .. q + 1 /\ q <= q + 1 /\ (q + 1) - 1 = q /\ q + 1 > 1
       /\ q # q + 1 /\ \A i \in 1 .. q - 1 : i \in 1 .. q /\ i \in 1 .. q + 1
  BY ONLY q \in Nat \ {0}
<1>12. PICK d \in Nat : d = Depth - n
  <2>1. Depth \in Nat  BY <1>1 DEF TopGood
  <2>2. Depth - n \in Nat  BY ONLY <2>1, <1>9
  <2> QED  BY <2>2
<1>13. Len(depths') = q + 1 /\ depths'[q + 1] = 0 /\ depths'[q] = d /\ \A i \in 1 .. q - 1 : depths'[i] = depths[i]
  <2>1. Len(depths) = q /\ Len(depths) > 0  BY <1>6, <1>10
  <2>2. PICK ds : ds = [depths EXCEPT ![Len(depths)] = d]  OBVIOUS
  <2>3. OtherLast(ds, depths, d)  BY <2>1, <2>2, <1>8, LastChanged
  <2>4. ds \in Seq(Nat) /\ Len(ds) = q /\ ds[q] = d /\ \A i \in 1 .. q - 1 : ds[i] = depths[i]
    BY <2>1, <2>3 DEF OtherLast
  <2>5. PICK z \in Nat : z = 0  OBVIOUS
  <2>6. depths' = Append(ds, z)  BY <2>2, <2>5, <1>9, <1>12
  <2>7. Len(depths') = q + 1 /\ depths'[q + 1] = z /\ \A i \in 1 .. q : depths'[i] = ds[i]
    BY <2>4, <2>6, AppendProperties
  <2> QED  BY <2>4, <2>5, <2>7, <1>11
<1>14. Depth' = 0  BY <1>13 DEF Depth, Last
<1>15. Len(G) = q + 1  BY <1>7, <1>13
<1>16. G[q] = [r |-> rc, base |-> base, nest |-> Len(nest)]
  <2>1. FrameAt(G, q + 1, vmStack', nest', depths')  BY <1>3, <1>11, <1>15 DEF Frames
  <2>2. G[(q + 1) - 1] = Below(G[q + 1], vmStack', nest')  BY <2>1, <1>11 DEF FrameAt
  <2> QED  BY <2>2, <1>7, <1>9, <1>11, <1>15
<1>17. InFrame(rc, d, vmStack')
  <2>1. FrameAt(G, q, vmStack', nest', depths')  BY <1>3, <1>11, <1>15 DEF Frames
  <2>2. InFrame(G[q].r, depths'[q], vmStack')  BY <2>1 DEF FrameAt
  <2> QED  BY <2>2, <1>13, <1>16
<1>18. LeadOn(q, F, vmStack, nest, depths, G, vmStack', nest', depths')
  <2>1. G[q].r.var = F[q].r.var /\ G[q].base = F[q].base /\ G[q].nest = F[q].nest /\ F[q].r.var = regs.var
        /\ F[q].nest = Len(nest)
    BY <1>6, <1>9, <1>10, <1>16
  <2>2. \A j \in 1 .. regs.var : vmStack'[j] = vmStack[j]
    <3>1. regs.var \in Nat /\ FrameEnd(regs) \in Nat /\ regs.var + 2 <= FrameEnd(regs)  BY <1>8, Sizes
    <3>2. \A j \in 1 .. regs.var : j \in 1 .. FrameEnd(regs)  BY ONLY <3>1
    <3> QED  BY <3>2, <1>8, <1>9
  <2>3. \A j \in 1 .. F[q].nest : nest'[j] = nest[j]  BY <2>1, <1>9
  <2> QED  BY <2>1, <2>2, <2>3, <1>10, <1>11, <1>13, <1>15 DEF LeadOn
<1>19. \A i \in 1 .. q - 1 : acts'[i] = acts[i]
  <2>1. IsActs(acts, F, vmStack, regs, base, nest, depths, at, exc)  BY <1>2, <1>6, <1>8 DEF IsActs
  <2>2. IsActs(acts', G, vmStack', regs', base', nest', depths', at', exc')  BY <1>3, <1>7, <1>8 DEF IsActs
  <2> QED  BY ONLY <2>1, <2>2, <1>18, ActsBelow
<1>20. PICK x : x = acts'[q]  OBVIOUS
<1>21. Waits(x, rc, n)
  <2>1. x \in Activation  BY <1>7, <1>11, <1>15, <1>20, ElementOfSeq
  <2>2. x = ActOf(G[q], vmStack', depths'[q], ThrownIn(G, q, nest', at', exc'))
    BY <1>7, <1>11, <1>15, <1>20 DEF ActsOf
  <2>3. ThrownIn(G, q, nest', at', exc') = WaitingIn(regs', base', nest')
    <3>1. G[q + 1].r = regs' /\ G[q + 1].base = base' /\ G[q + 1].nest = Len(nest')  BY <1>7, <1>15
    <3> QED  BY <3>1, <1>11, <1>15 DEF ThrownIn, WaitingIn
  <2>4. /\ x.method = rc.method /\ x.pc = rc.pc /\ x.locals = LocalsOf(rc, vmStack')
        /\ x.operands = OperandsOf(rc, d, vmStack') /\ x.thrown = WaitingIn(regs', base', nest')
        /\ x.entry = (rc.var = base + 3)
    <3>1. G[q].r = rc /\ G[q].base = base /\ depths'[q] = d  BY <1>13, <1>16
    <3> QED  BY <2>2, <2>3, <3>1 DEF ActOf
  <2>5. rc.method = regs.method /\ rc.var = regs.var  BY DEF PushedFrame
  <2>6. x.locals = TopAct.locals /\ x.operands = SubSeq(TopAct.operands, 1, Depth - n)
    BY <2>4, <1>1, <1>8, <1>12, <1>17, WaitingWords
  <2>7. x.method = TopAct.method /\ x.entry = TopAct.entry  BY <2>4, <2>5 DEF TopAct
  <2> QED  BY <2>1, <2>4, <2>6, <2>7 DEF Waits
<1>22. acts' = Append(Append(Front(acts), x), TopAct')
  <2>1. PICK A : A = acts  OBVIOUS
  <2>2. PICK B : B = acts'  OBVIOUS
  <2>3. Len(acts) = q /\ Len(acts') = q + 1 /\ acts'[q + 1] = TopAct'  BY <1>6, <1>7, <1>10, <1>15
  <2>4. /\ A \in Seq(Activation) /\ B \in Seq(Activation) /\ Len(A) = q /\ Len(B) = q + 1
        /\ \A i \in 1 .. q - 1 : B[i] = A[i]
    BY ONLY <2>1, <2>2, <2>3, <1>6, <1>7, <1>19
  <2>5. B = Append(Append(Front(A), B[q]), B[q + 1])  BY ONLY <2>4, q \in Nat \ {0}, TwoMore
  <2> QED  BY ONLY <2>1, <2>2, <2>3, <2>5, <1>20
<1> QED  BY <1>1, <1>14, <1>21, <1>22

\* The first n words of t are the last of the d words of s, on the stacks st2 and st.
Moved(s, d, st, lo, t, l, st2, lo2, n) ==
  /\ n <= d /\ n <= l /\ WordsAt(s, d, st, lo) /\ WordsAt(t, l, st2, lo2)
  /\ \A j \in 1 .. n : st2[lo2 + j] = st[((lo + d) - n) + j]

(* The arguments of a call: the last words there, the first ones here.     *)
LEMMA MovedWords ==
  ASSUME NEW s, NEW t, NEW d \in Nat, NEW l \in Nat, NEW n \in Nat, NEW st, NEW st2, NEW lo \in Nat, NEW lo2,
         Moved(s, d, st, lo, t, l, st2, lo2, n)
  PROVE  SubSeq(t, 1, n) = SubSeq(s, d - n + 1, d)
<1>0. /\ n <= d /\ n <= l /\ WordsAt(s, d, st, lo) /\ WordsAt(t, l, st2, lo2)
      /\ \A j \in 1 .. n : st2[lo2 + j] = st[((lo + d) - n) + j]
  BY DEF Moved
<1>1. /\ s \in Seq(Word) /\ Len(s) = d /\ \A j \in 1 .. d : s[j] = st[lo + j]
      /\ t \in Seq(Word) /\ Len(t) = l /\ \A j \in 1 .. l : t[j] = st2[lo2 + j]
  BY <1>0 DEF WordsAt
<1>a. n <= d /\ n <= l  BY <1>0
<1>2. PICK a \in Nat : a = d - n
  <2>1. d - n \in Nat  BY ONLY d \in Nat, n \in Nat, <1>a
  <2> QED  BY <2>1
<1>3. a <= d /\ d - a = n /\ \A j \in 1 .. n : j \in 1 .. l /\ a + j \in 1 .. d /\ lo + (a + j) = ((lo + d) - n) + j
  BY ONLY <1>2, d \in Nat, l \in Nat, n \in Nat, <1>a, lo \in Nat
<1>4. SubSeq(t, 1, n) \in Seq(Word) /\ Len(SubSeq(t, 1, n)) = n /\ \A j \in 1 .. n : SubSeq(t, 1, n)[j] = t[j]
  <2>1. n <= Len(t)  BY <1>a, <1>1
  <2> QED  BY ONLY <2>1, <1>1, n \in Nat, Prefix
<1>5. /\ SubSeq(s, a + 1, d) \in Seq(Word) /\ Len(SubSeq(s, a + 1, d)) = d - a
      /\ \A j \in 1 .. d - a : SubSeq(s, a + 1, d)[j] = s[a + j]
  <2>1. d <= Len(s) /\ a <= d  BY <1>1, <1>3
  <2> QED  BY ONLY <2>1, <1>1, a \in Nat, d \in Nat, Part
<1>6. \A j \in 1 .. n : SubSeq(t, 1, n)[j] = SubSeq(s, a + 1, d)[j]
  <2> TAKE j \in 1 .. n
  <2>1. SubSeq(t, 1, n)[j] = st2[lo2 + j]  BY <1>1, <1>3, <1>4
  <2>2. SubSeq(s, a + 1, d)[j] = st[lo + (a + j)]  BY <1>1, <1>3, <1>5
  <2> QED  BY <2>1, <2>2, <1>0, <1>3
<1>7. SubSeq(t, 1, n) = SubSeq(s, a + 1, d)
  <2>1. PICK u : u = SubSeq(t, 1, n)  OBVIOUS
  <2>2. PICK v : v = SubSeq(s, a + 1, d)  OBVIOUS
  <2>3. u \in Seq(Word) /\ v \in Seq(Word) /\ Len(u) = n /\ Len(v) = n /\ \A j \in 1 .. n : u[j] = v[j]
    BY <2>1, <2>2, <1>3, <1>4, <1>5, <1>6
  <2>4. u = v  BY ONLY <2>3, SeqEqual
  <2> QED  BY <2>1, <2>2, <2>4
<1> QED  BY <1>2, <1>7

(* An operand stack without operands.                                      *)
LEMMA NoOperands ==
  ASSUME TopGood, Depth = 0
  PROVE  TopAct.operands = << >>
<1>1. WordsAt(TopAct.operands, Depth, vmStack, regs.stack - Depth)  BY DEF TopGood
<1>2. TopAct.operands \in Seq(Word) /\ Len(TopAct.operands) = 0  BY <1>1 DEF WordsAt
<1> QED  BY <1>2

\* A frame without operands.
EmptyAtFirst == TopGood /\ Depth = 0 => TopAct.operands = << >>

(* The same of the next state.                                             *)
LEMMA NoOperandsNext == EmptyAtFirst'
<1>1. EmptyAtFirst  BY NoOperands DEF EmptyAtFirst
<1> QED  BY <1>1, PTL

(* The caller of a method.                                                 *)
LEMMA CallingPushes ==
  ASSUME Going, NEW m \in Method, Calling(m), NEW n \in Nat, n = Code[m].paramsCount,
         depths' = Append([depths EXCEPT ![Len(depths)] = Depth - n], 0)
  PROVE  PushedFrame(CallerAfter(n), n)
<1>1. base' = base /\ nest' = nest /\ n <= Depth  BY DEF Calling
<1>2. /\ CallerAfter(n) \in Registers
      /\ Below([r |-> regs', base |-> base, nest |-> Len(nest)], vmStack', nest)
           = [r |-> CallerAfter(n), base |-> base, nest |-> Len(nest)]
      /\ regs' \in Registers /\ regs'.var = Len(vmStack) + 3 /\ Len(vmStack') = FrameEnd(regs')
      /\ \A i \in 1 .. Len(vmStack) : vmStack'[i] = vmStack[i]
  BY Invoked DEF Going
<1>3. Len(vmStack) <= Len(vmStack')
  <2>1. PICK a \in Nat : a = Len(vmStack)
    <3>1. Len(vmStack) \in Nat  BY RunningFacts DEF Going
    <3> QED  BY <3>1
  <2>2. FrameEnd(regs') \in Nat /\ regs'.var + 2 <= FrameEnd(regs') /\ regs'.var = a + 3  BY <1>2, <2>1, Sizes
  <2>3. a <= FrameEnd(regs')  BY ONLY <2>2, a \in Nat
  <2> QED  BY <1>2, <2>1, <2>3
<1>4. CallerAfter(n).method = regs.method /\ CallerAfter(n).var = regs.var /\ CallerAfter(n).stack = regs.stack - n
  BY DEF CallerAfter
<1> QED  BY <1>1, <1>2, <1>3, <1>4 DEF PushedFrame

(* A method that is called runs in a frame of its own.                     *)
LEMMA CalledMethod ==
  ASSUME GoingOn, at = "step", at' = "step", NEW m \in Method, Calling(m), NEW n \in Nat, n = Code[m].paramsCount,
         depths' = Append([depths EXCEPT ![Len(depths)] = Depth - n], 0)
  PROVE  /\ TopGood /\ TopGood' /\ n <= Depth /\ TopAct'.method = m /\ TopAct'.pc = 0 /\ TopAct'.operands = << >>
         /\ TopAct'.thrown = Junk /\ TopAct'.entry = FALSE /\ Len(TopAct'.locals) = Code[m].maxLocals
         /\ SubSeq(TopAct'.locals, 1, n) = SubSeq(TopAct.operands, Depth - n + 1, Depth)
         /\ \E x : /\ Waits(x, CallerAfter(n), n) /\ x.thrown = Junk
                   /\ acts' = Append(Append(Front(acts), x), TopAct')
<1>1. Going /\ FramesInv /\ Running  BY DEF GoingOn, Going
<1>2. PushedFrame(CallerAfter(n), n)  BY <1>1, CallingPushes
<1>3. /\ TopGood /\ TopGood' /\ Depth' = 0
      /\ \E x : Waits(x, CallerAfter(n), n) /\ acts' = Append(Append(Front(acts), x), TopAct')
  BY <1>2, PushedStep
<1>4. PICK x : Waits(x, CallerAfter(n), n) /\ acts' = Append(Append(Front(acts), x), TopAct')  BY <1>3
<1>5. /\ regs' \in Registers /\ regs'.method = m /\ regs'.pc = 0 /\ regs'.var # base + 3
      /\ \A i \in 1 .. n : vmStack'[regs'.var + i] = vmStack[(regs.stack - n) + i]
  BY <1>1, Invoked
<1>6. base' = base /\ n <= Depth  BY DEF Calling
<1>7. x.thrown = Junk  BY <1>4, <1>5, <1>6 DEF Waits, WaitingIn
<1>8. (regs'.var = base' + 3) = FALSE  BY <1>5, <1>6
<1>9. TopAct'.method = m /\ TopAct'.pc = 0 /\ TopAct'.thrown = Junk /\ TopAct'.entry = FALSE
  BY <1>5, <1>8 DEF TopAct, Thrown
<1>10. TopAct'.operands = << >>  BY <1>3, NoOperandsNext DEF EmptyAtFirst
<1>11. /\ WordsAt(TopAct'.locals, Code[m].maxLocals, vmStack', regs'.var)
       /\ WordsAt(TopAct.operands, Depth, vmStack, regs.stack - Depth) /\ Depth \in Nat /\ regs.stack - Depth \in Nat
       /\ regs \in Registers
  BY <1>3, <1>5 DEF TopGood
<1>12. Len(TopAct'.locals) = Code[m].maxLocals  BY <1>11 DEF WordsAt
<1>13. SubSeq(TopAct'.locals, 1, n) = SubSeq(TopAct.operands, Depth - n + 1, Depth)
  <2>1. PICK d \in Nat : d = Depth  BY <1>11
  <2>2. PICK l \in Nat : l = Code[m].maxLocals  BY FramesAssumption
  <2>3. PICK lo \in Nat : lo = regs.stack - Depth  BY <1>11
  <2>4. PICK s : s = TopAct.operands  OBVIOUS
  <2>5. PICK t : t = TopAct'.locals  OBVIOUS
  <2>6. PICK st2 : st2 = vmStack'  OBVIOUS
  <2>7. PICK lo2 : lo2 = regs'.var  OBVIOUS
  <2>8. n <= d /\ n <= l
    <3>1. ~Code[m].native  BY DEF Calling
    <3> QED  BY <3>1, <1>6, <2>1, <2>2, FramesAssumption
  <2>9. (lo + d) - n = regs.stack - n
    <3>1. regs.stack \in Nat  BY <1>11, Sizes
    <3> QED  BY ONLY <3>1, <2>1, <2>3, <1>11
  <2>10. \A j \in 1 .. n : st2[lo2 + j] = vmStack[((lo + d) - n) + j]  BY <1>5, <2>6, <2>7, <2>9
  <2>11. PICK st : st = vmStack  OBVIOUS
  <2>12. Moved(s, d, st, lo, t, l, st2, lo2, n)
    BY <1>11, <2>1, <2>2, <2>3, <2>4, <2>5, <2>6, <2>7, <2>8, <2>10, <2>11 DEF Moved
  <2>13. SubSeq(t, 1, n) = SubSeq(s, d - n + 1, d)
    BY ONLY <2>12, d \in Nat, l \in Nat, n \in Nat, lo \in Nat, MovedWords
  <2> QED  BY <2>1, <2>4, <2>5, <2>13
<1> QED  BY <1>3, <1>4, <1>6, <1>7, <1>9, <1>10, <1>12, <1>13

(* invoke.                                                                 *)
LEMMA InvokeStep ==
  ASSUME Stepping, Invoke
  PROVE  Calls!Call \/ Calls!Stop
<1>1. at = "step" /\ FramesInv /\ Running /\ Going  BY DEF Invoke, Does, Stepping, Going
<1>2. PICK m \in Method :
        LET n == Code[m].paramsCount IN
        /\ ~Code[m].native /\ Depth >= n
        /\ IF FrameFits(m)
           THEN /\ Start(m, SavedRegs(n), SubSeq(vmStack, regs.stack - n + 1, regs.stack))
                /\ depths' = Append([depths EXCEPT ![Len(depths)] = @ - n], 0)
                /\ UNCHANGED <<base, nest, at, exc, k, todo>>
           ELSE GENERATE_EXCEPTION
  BY DEF Invoke
<1>3. PICK n \in Nat : n = Code[m].paramsCount  BY FramesAssumption
<1>4. CASE ~FrameFits(m)
  <2>1. GENERATE_EXCEPTION  BY <1>2, <1>4
  <2>2. ~Running' /\ ActsInv'  BY <2>1 DEF GENERATE_EXCEPTION, Running, Stepping
  <2> QED  BY <2>2, StopStep
<1>5. CASE FrameFits(m)
  <2>1. Depth \in Nat /\ Depth = depths[Len(depths)]  BY <1>1, RunningFacts
  <2>2. Calling(m)
    <3>1. n <= Depth  BY <1>2, <1>3, <2>1
    <3> QED  BY <1>2, <1>3, <1>5, <3>1 DEF Calling
  <2>3. at' = "step" /\ depths' = Append([depths EXCEPT ![Len(depths)] = Depth - n], 0)
    BY <1>1, <1>2, <1>3, <1>5, <2>1
  <2>4. GoingOn  BY <2>3 DEF Stepping, Going, GoingOn, Running
  <2>5. /\ TopGood /\ TopGood' /\ n <= Depth /\ TopAct'.method = m /\ TopAct'.pc = 0 /\ TopAct'.operands = << >>
        /\ TopAct'.thrown = Junk /\ TopAct'.entry = FALSE /\ Len(TopAct'.locals) = Code[m].maxLocals
        /\ SubSeq(TopAct'.locals, 1, n) = SubSeq(TopAct.operands, Depth - n + 1, Depth)
        /\ \E w : /\ Waits(w, CallerAfter(n), n) /\ w.thrown = Junk
                  /\ acts' = Append(Append(Front(acts), w), TopAct')
    BY <1>1, <1>3, <2>2, <2>3, <2>4, CalledMethod
  <2>6. PICK w : /\ Waits(w, CallerAfter(n), n) /\ w.thrown = Junk
                 /\ acts' = Append(Append(Front(acts), w), TopAct')
    BY <2>5
  <2>7. /\ acts # << >> /\ Last(acts) = TopAct /\ TopAct \in Activation /\ Len(TopAct.operands) = Depth
        /\ acts' # << >> /\ Last(acts') = TopAct' /\ TopAct' \in Activation
    BY <2>5 DEF TopGood, WordsAt
  <2>8. PICK x \in Activation : x = TopAct  BY <2>7
  <2>9. PICK y \in Activation : y = TopAct'  BY <2>7
  <2>10. PICK ops : ops = SubSeq(x.operands, 1, Len(x.operands) - n)  OBVIOUS
  <2>11. w = [x EXCEPT !.operands = ops, !.pc = x.pc + 1]
    <3>1. /\ w \in Activation /\ w.method = x.method /\ w.pc = x.pc + 1 /\ w.locals = x.locals
          /\ w.operands = ops /\ w.thrown = Junk /\ w.entry = x.entry
      BY <2>6, <2>7, <2>8, <2>10 DEF Waits, CallerAfter, TopAct, NextPc
    <3>2. x.thrown = Junk  BY <1>1, <2>8 DEF TopAct, Thrown
    <3> QED  BY ONLY <3>1, <3>2, x \in Activation DEF Activation
  <2>12. y = Calls!Activation(m, y.locals, FALSE)
    <3>1. /\ y.method = m /\ y.pc = 0 /\ y.operands = << >> /\ y.thrown = Junk /\ y.entry = FALSE
      BY <2>5, <2>9
    <3> QED  BY ONLY <3>1, y \in Activation DEF Activation, Calls!Activation
  <2>13. /\ x.thrown = Junk /\ n <= Len(x.operands) /\ ~Code[m].native /\ Len(y.locals) = Code[m].maxLocals
         /\ SubSeq(y.locals, 1, n) = SubSeq(x.operands, Len(x.operands) - n + 1, Len(x.operands))
    BY <1>1, <1>2, <2>5, <2>7, <2>8, <2>9 DEF TopAct, Thrown
  <2>14. acts' = Append(Append(Front(acts), w), y)  BY <2>6, <2>9
  <2>15. /\ Calls!Top = x /\ Calls!Last(acts') = y /\ Calls!Below = Front(acts)
    BY <2>7, <2>8, <2>9 DEF Calls!Top, Calls!Below, Calls!Last, Calls!Front, Last, Front
  <2>16. /\ Calls!Drop(x.operands, n) = ops
         /\ Calls!LastWords(x.operands, n) = SubSeq(x.operands, Len(x.operands) - n + 1, Len(x.operands))
    BY <2>10 DEF Calls!Drop, Calls!LastWords
  <2>17. Calls!Without(n) = w
    <3>1. w = [x EXCEPT !.operands = Calls!Drop(@, n), !.pc = @ + 1]  BY ONLY <2>11, <2>16
    <3> QED  BY ONLY <3>1, <2>15 DEF Calls!Without
  <2>18. acts # << >> /\ acts' # << >>  BY <2>7
  <2>19. Calls!Call
    BY ONLY <1>3, <2>12, <2>13, <2>14, <2>15, <2>16, <2>17, <2>18, m \in Method DEF Calls!Call
  <2> QED  BY <2>19
<1> QED  BY <1>4, <1>5

(* A sequence is its front and its end.                                    *)
LEMMA FrontAndLast ==
  ASSUME NEW S, NEW A, A \in Seq(S), A # << >>
  PROVE  A = Append(Front(A), Last(A))
<1>1. PICK n \in Nat : n = Len(A)  OBVIOUS
<1>2. n # 0  BY <1>1
<1>3. n \in Nat \ {0}  BY ONLY <1>2, n \in Nat
<1>4. \A i \in 1 .. n - 1 : A[i] = A[i]  OBVIOUS
<1>5. PICK q \in Nat \ {0} : q = n  BY <1>3
<1>6. Len(A) = q /\ \A i \in 1 .. q - 1 : A[i] = A[i]  BY <1>1, <1>5
<1>7. /\ A # << >> /\ A # << >> /\ Front(A) = Front(A) /\ Last(A) = A[q] /\ Last(A) = A[q]
      /\ A = Append(Front(A), A[q])
  BY ONLY <1>6, A \in Seq(S), q \in Nat \ {0}, OtherTop
<1> QED  BY <1>7

\* jExecMethod, called by C code: method m starts with some words of the caller's for arguments.
Entering(m, args) ==
  /\ m \in Method /\ ~Code[m].native /\ args \in Seq(Word) /\ Len(args) <= Code[m].maxLocals
  /\ Enter(m, args)

(* What it lays out.                                                       *)
LEMMA Entered ==
  ASSUME FramesInv, NEW m, NEW args, Entering(m, args)
  PROVE  /\ regs' \in Registers /\ regs'.method = m /\ regs'.pc = 0 /\ regs'.var = base' + 3
         /\ base' = Len(vmStack) /\ at' = "step" /\ exc' = exc
         /\ vmStack' \in Seq(Word) /\ Len(vmStack) <= Len(vmStack')
         /\ \A i \in 1 .. Len(vmStack) : vmStack'[i] = vmStack[i]
         /\ depths' = Append(depths, 0)
         /\ Len(nest') = Len(nest) + 1 /\ \A i \in 1 .. Len(nest) : nest'[i] = nest[i]
         /\ nest'[Len(nest')].regs = regs /\ nest'[Len(nest')].base = base
         /\ nest'[Len(nest')].at = at /\ nest'[Len(nest')].exc = exc
<1>1. m \in Method /\ args \in Seq(Word) /\ Len(args) <= Code[m].maxLocals /\ Enter(m, args)  BY DEF Entering
<1>2. /\ Start(m, <<Zero, Zero, Zero>>, args) /\ base' = Len(vmStack) /\ at' = "step" /\ depths' = Append(depths, 0)
      /\ nest' = Append(nest, [regs |-> regs, base |-> base, at |-> at, exc |-> exc, k |-> k]) /\ exc' = exc
  BY <1>1 DEF Enter
<1>3. vmStack \in Seq(Word) /\ nest \in Seq(Saved)  BY DEF FramesInv, TypesOK, NestOK
<1>4. /\ regs' \in Registers /\ regs'.method = m /\ regs'.pc = 0 /\ regs'.var = Len(vmStack) + 3
      /\ vmStack' \in Seq(Word) /\ Len(vmStack') = FrameEnd(regs')
      /\ \A i \in 1 .. Len(vmStack) : vmStack'[i] = vmStack[i]
  <2>1. PICK prefix : prefix = <<Zero, Zero, Zero>>  OBVIOUS
  <2>2. prefix \in Seq(Word) /\ Len(prefix) = 3  BY <2>1, Words
  <2>3. Start(m, prefix, args)  BY <1>2, <2>1
  <2> QED  BY <1>1, <1>3, <2>2, <2>3, Started
<1>5. Len(vmStack) <= Len(vmStack')
  <2>1. PICK a \in Nat : a = Len(vmStack)  BY <1>3
  <2>2. FrameEnd(regs') \in Nat /\ regs'.var + 2 <= FrameEnd(regs') /\ regs'.var = a + 3  BY <1>4, <2>1, Sizes
  <2>3. a <= FrameEnd(regs')  BY ONLY <2>2, a \in Nat
  <2> QED  BY <1>4, <2>1, <2>3
<1>6. PICK c : c = [regs |-> regs, base |-> base, at |-> at, exc |-> exc, k |-> k]  OBVIOUS
<1>7. c.regs = regs /\ c.base = base /\ c.at = at /\ c.exc = exc  BY <1>6
<1>8. Len(nest') = Len(nest) + 1 /\ nest'[Len(nest')] = c /\ \A i \in 1 .. Len(nest) : nest'[i] = nest[i]
  <2>1. PICK n \in Nat : n = Len(nest)  BY <1>3
  <2>2. nest' = Append(nest, c)  BY <1>2, <1>6
  <2>3. \A i \in 1 .. n : i # n + 1 /\ i \in 1 .. n + 1  BY ONLY n \in Nat
  <2> QED  BY <1>3, <2>1, <2>2, <2>3
<1> QED  BY <1>2, <1>4, <1>5, <1>7, <1>8

(* The frame it interrupts, if there is one.                               *)
LEMMA EnteringPushes ==
  ASSUME Going, NEW m, NEW args, Entering(m, args), NEW z \in Nat, z = 0
  PROVE  PushedFrame(regs, z) /\ WaitingIn(regs', base', nest') = Thrown(at, exc)
<1>1. /\ regs' \in Registers /\ regs'.var = base' + 3 /\ base' = Len(vmStack)
      /\ Len(vmStack) <= Len(vmStack') /\ \A i \in 1 .. Len(vmStack) : vmStack'[i] = vmStack[i]
      /\ depths' = Append(depths, 0)
      /\ Len(nest') = Len(nest) + 1 /\ \A i \in 1 .. Len(nest) : nest'[i] = nest[i]
      /\ nest'[Len(nest')].regs = regs /\ nest'[Len(nest')].base = base
      /\ nest'[Len(nest')].at = at /\ nest'[Len(nest')].exc = exc
  BY Entered DEF Going
<1>2. /\ regs \in Registers /\ Depth \in Nat /\ Depth = depths[Len(depths)] /\ regs.stack \in Nat
      /\ depths \in Seq(Nat) /\ Len(depths) \in Nat \ {0} /\ Len(nest) \in Nat
  BY RunningFacts DEF Going
<1>3. z <= Depth /\ regs.stack = regs.stack - z /\ Depth - z = Depth
  <2>1. Depth \in Nat /\ regs.stack \in Nat  BY <1>2
  <2> QED  BY ONLY <2>1, z \in Nat, z = 0
<1>4. Below([r |-> regs', base |-> base', nest |-> Len(nest')], vmStack', nest')
        = [r |-> regs, base |-> base, nest |-> Len(nest)]
  <2>1. Len(nest') - 1 = Len(nest)  BY <1>1, <1>2
  <2> QED  BY <2>1, <1>1 DEF Below
<1>5. depths' = Append([depths EXCEPT ![Len(depths)] = Depth - z], 0)
  <2>1. PICK ds : ds = depths  OBVIOUS
  <2>2. ds \in Seq(Nat) /\ ds # << >> /\ Depth = Last(ds)  BY <2>1, <1>2 DEF Depth
  <2>3. [ds EXCEPT ![Len(ds)] = Last(ds)] = ds  BY ONLY <2>2, LastKept
  <2> QED  BY <2>1, <2>2, <2>3, <1>1, <1>3
<1>6. WaitingIn(regs', base', nest') = Thrown(at, exc)  BY <1>1 DEF WaitingIn
<1> QED  BY <1>1, <1>2, <1>3, <1>4, <1>5, <1>6 DEF PushedFrame

(* A jExecMethod in the middle of an instruction.                          *)
LEMMA EnteredOver ==
  ASSUME GoingOn, NEW m, NEW args, Entering(m, args)
  PROVE  acts' = Append(acts, TopAct') /\ TopGood' /\ Depth' = 0
<1>1. PICK z \in Nat : z = 0  OBVIOUS
<1>2. PushedFrame(regs, z) /\ WaitingIn(regs', base', nest') = Thrown(at, exc)
  BY <1>1, EnteringPushes DEF GoingOn
<1>3. /\ TopGood /\ TopGood' /\ Depth' = 0
      /\ \E x : Waits(x, regs, z) /\ acts' = Append(Append(Front(acts), x), TopAct')
  BY <1>2, PushedStep
<1>4. PICK x : Waits(x, regs, z) /\ acts' = Append(Append(Front(acts), x), TopAct')  BY <1>3
<1>5. /\ acts # << >> /\ Last(acts) = TopAct /\ TopAct \in Activation /\ Depth \in Nat
      /\ WordsAt(TopAct.operands, Depth, vmStack, regs.stack - Depth)
  BY <1>3 DEF TopGood
<1>6. SubSeq(TopAct.operands, 1, Depth - z) = TopAct.operands
  <2>1. TopAct.operands \in Seq(Word) /\ Len(TopAct.operands) = Depth  BY <1>5 DEF WordsAt
  <2>2. Depth - z = Depth  BY <1>1, <1>5
  <2> QED  BY <2>1, <2>2, AllOf
<1>7. PICK y \in Activation : y = TopAct  BY <1>5
<1>8. /\ x \in Activation /\ x.method = y.method /\ x.pc = y.pc /\ x.locals = y.locals /\ x.operands = y.operands
      /\ x.thrown = y.thrown /\ x.entry = y.entry
  BY <1>2, <1>4, <1>6, <1>7 DEF Waits, TopAct
<1>9. x = y  BY ONLY <1>8, y \in Activation DEF Activation
<1>10. acts \in Seq(Activation)
  <2>1. PICK F : Frames(F, vmStack, regs, base, nest, depths)  BY DEF GoingOn, Going, FramesInv
  <2>2. ActsGood(F)  BY <2>1, ActsFacts DEF GoodActs, GoingOn, Going
  <2> QED  BY <2>2 DEF ActsGood
<1>11. acts = Append(Front(acts), x)
  <2>1. PICK A : A = acts  OBVIOUS
  <2>2. A \in Seq(Activation) /\ A # << >>  BY <2>1, <1>5, <1>10
  <2>3. A = Append(Front(A), Last(A))  BY ONLY <2>2, FrontAndLast
  <2>4. Last(acts) = x  BY <1>5, <1>7, <1>9
  <2> QED  BY ONLY <2>1, <2>3, <2>4
<1> QED  BY ONLY <1>3, <1>4, <1>11

(* The first jExecMethod, which main calls.                                *)
LEMMA EnteredFirst ==
  ASSUME FramesInv, ActsInv, at = "main", Going', NEW m, NEW args, Entering(m, args)
  PROVE  acts' = Append(acts, TopAct') /\ TopGood' /\ Depth' = 0
<1>1. depths' = Append(depths, 0)  BY Entered
<1>2. depths = << >> /\ acts = << >>  BY DEF FramesInv, ActsInv, Running
<1>3. depths' = <<0>>  BY <1>1, <1>2
<1>4. PICK G : Frames(G, vmStack', regs', base', nest', depths')  BY DEF Going, FramesInv
<1>5. ActsGood(G)'  BY <1>4, ActsFactsNext DEF GoodActs, Going
<1>6. Len(depths') = 1 /\ Depth' = 0  BY <1>3 DEF Depth, Last
<1>7. acts' \in Seq(Activation) /\ Len(acts') = 1 /\ acts'[1] = TopAct'  BY <1>5, <1>6 DEF ActsGood
<1>8. TopGood'  BY TopFactsNext DEF Going
<1>9. acts' = <<TopAct'>>
  <2>1. PICK B : B = acts'  OBVIOUS
  <2>2. PICK y : y = TopAct'  OBVIOUS
  <2>3. B \in Seq(Activation) /\ Len(B) = 1 /\ B[1] = y  BY <2>1, <2>2, <1>7
  <2>4. B = <<y>>  BY ONLY <2>3
  <2> QED  BY <2>1, <2>2, <2>4
<1>10. <<TopAct'>> = Append(<< >>, TopAct')  OBVIOUS
<1> QED  BY <1>2, <1>6, <1>8, <1>9, <1>10

(* Both are calls of the machine.                                          *)
LEMMA EnterStep ==
  ASSUME FramesInv, ActsInv, FramesInv', ActsInv', at \in {"main", "step", "search"},
         NEW m, NEW args, Entering(m, args)
  PROVE  Calls!Enter
<1>1. /\ regs'.method = m /\ regs'.pc = 0 /\ regs'.var = base' + 3 /\ at' = "step"  BY Entered
<1>2. Going'  BY <1>1 DEF Going, Running
<1>3. acts' = Append(acts, TopAct') /\ TopGood' /\ Depth' = 0
  <2>1. CASE at = "main"  BY <1>2, <2>1, EnteredFirst
  <2>2. CASE at # "main"
    <3>1. GoingOn  BY <1>2, <2>2 DEF GoingOn, Going, Running
    <3> QED  BY <3>1, EnteredOver
  <2> QED  BY <2>1, <2>2
<1>4. acts' # << >> /\ Last(acts') = TopAct' /\ TopAct' \in Activation  BY <1>3 DEF TopGood
<1>5. PICK y \in Activation : y = TopAct'  BY <1>4
<1>6. y.pc = 0 /\ y.operands = << >> /\ y.thrown = Junk /\ y.entry = TRUE /\ Len(y.locals) = Code[y.method].maxLocals
  <2>1. (regs'.var = base' + 3) = TRUE  BY <1>1
  <2>2. y.pc = 0 /\ y.thrown = Junk /\ y.entry = TRUE /\ y.method = regs'.method
    BY <1>1, <1>5, <2>1 DEF TopAct, Thrown
  <2>3. y.operands = << >>  BY <1>3, <1>5, NoOperandsNext DEF EmptyAtFirst
  <2>4. WordsAt(y.locals, Code[regs'.method].maxLocals, vmStack', regs'.var)  BY <1>3, <1>5 DEF TopGood
  <2> QED  BY <2>2, <2>3, <2>4 DEF WordsAt
<1>7. y = Calls!Activation(y.method, y.locals, TRUE)
  BY ONLY <1>6, y \in Activation DEF Activation, Calls!Activation
<1>8. Calls!Last(acts') = y  BY <1>4, <1>5 DEF Calls!Last, Last
<1>9. acts' # << >> /\ acts' = Append(acts, y)  BY <1>3, <1>4, <1>5
<1> QED  BY ONLY <1>6, <1>7, <1>8, <1>9 DEF Calls!Enter

(* main, static initialisers: a method that cannot be run is passed over.  *)
LEMMA RunStep ==
  ASSUME FramesInv, ActsInv, FramesInv', ActsInv',
         NEW m \in Method, NEW args \in Seq(Word), Len(args) <= Code[m].maxLocals,
         at \in {"main", "step", "search"},
         IF Executable(m) THEN Enter(m, args)
         ELSE UNCHANGED <<vmStack, regs, base, nest, at, exc, k, depths>>
  PROVE  Calls!Enter \/ acts' = acts
<1>2. CASE Executable(m)
  <2>1. Entering(m, args)  BY <1>2 DEF Entering, Executable
  <2> QED  BY <2>1, EnterStep
<1>3. CASE ~Executable(m)
  <2>1. UNCHANGED <<vmStack, regs, base, nest, depths, at, exc>>  BY <1>3
  <2>2. CASE Running
    <3>1. Going  BY <2>2 DEF Going
    <3> QED  BY <2>1, <3>1, StutterStep
  <2>3. CASE ~Running
    <3>1. acts = << >> /\ acts' = << >>  BY <2>1, <2>3 DEF ActsInv, Running
    <3> QED  BY <3>1
  <2> QED  BY <2>2, <2>3
<1> QED  BY <1>2, <1>3

(* A static initialiser is run or passed over.                             *)
LEMMA StaticInitStep ==
  ASSUME FramesInv, ActsInv, FramesInv', ActsInv', RunStaticInit
  PROVE  Calls!Enter \/ acts' = acts
<1>1. PICK m \in todo \cap StaticInits :
        IF Executable(m) THEN Enter(m, << >>)
        ELSE UNCHANGED <<vmStack, regs, base, nest, at, exc, k, depths>>
  BY DEF RunStaticInit
<1>2. PICK args : args = << >>  OBVIOUS
<1>3. m \in Method /\ at \in {"main", "step", "search"}  BY FramesAssumption DEF RunStaticInit
<1>4. args \in Seq(Word) /\ Len(args) <= Code[m].maxLocals
  <2>1. Code[m].maxLocals \in Nat  BY <1>3, FramesAssumption
  <2> QED  BY <1>2, <2>1
<1>5. IF Executable(m) THEN Enter(m, args)
      ELSE UNCHANGED <<vmStack, regs, base, nest, at, exc, k, depths>>
  BY <1>1, <1>2
<1> QED  BY <1>3, <1>4, <1>5, RunStep

(* main is run or passed over, or its arguments end everything.            *)
LEMMA MainStep ==
  ASSUME FramesInv, ActsInv, FramesInv', ActsInv', RunMain
  PROVE  Calls!Enter \/ Calls!Stop \/ acts' = acts
<1>1. at = "main" /\ Main \in Method  BY FramesAssumption DEF RunMain
<1>2. CASE \E n \in NumArgs : Executable(Main) /\ Enter(Main, MainArgs(n))
  <2>1. PICK n \in NumArgs : Executable(Main) /\ Enter(Main, MainArgs(n))  BY <1>2
  <2>2. PICK args : args = MainArgs(n)  OBVIOUS
  <2>3. PICK m : m = Main  OBVIOUS
  <2>4. args \in Seq(Word) /\ Len(args) <= Code[m].maxLocals  BY <2>2, <2>3, MainArgsFit
  <2>5. Executable(m) /\ Enter(m, args) /\ m \in Method  BY <1>1, <2>1, <2>2, <2>3
  <2> QED  BY <1>1, <2>4, <2>5, RunStep
<1>3. CASE at' = "beyond"
  <2>1. ~Running'  BY <1>3 DEF Running
  <2> QED  BY <2>1, StopStep
<1>4. CASE at' = at
  <2>1. ~Running /\ ~Running'  BY <1>1, <1>4 DEF Running
  <2>2. acts = << >> /\ acts' = << >>  BY <2>1 DEF ActsInv
  <2> QED  BY <2>2
<1> QED  BY <1>2, <1>3, <1>4 DEF RunMain

---------------------------------------------------------------------------
(* Every step is one of JCalls, or none. *)

\* What the refinement rests on.
CallsInv == FramesInv /\ SearchInv /\ ActsInv

(* It holds at first.                                                      *)
LEMMA CallsInvInit == FramesInit => CallsInv
<1>1. FramesInit => FramesInv  BY FramesInvInit
<1>2. FramesInit => SearchInv  BY DEF FramesInit, SearchInv
<1>3. FramesInit => ActsInv  BY DEF FramesInit, ActsInv, Running
<1> QED  BY <1>1, <1>2, <1>3 DEF CallsInv

(* And after every step.                                                   *)
LEMMA CallsInvNext ==
  ASSUME CallsInv, [FramesNext]_frameVars
  PROVE  CallsInv'
<1>1. FramesInv'  BY FramesInvNext DEF CallsInv
<1>2. SearchInv'  BY SearchInvNext DEF CallsInv
<1>3. ActsInv'
  <2>1. CASE FramesNext
    <3>1. ActsRight'  BY <2>1 DEF FramesNext, ActsRight
    <3> QED  BY <1>1, <3>1, ActsAreNext
  <2>2. CASE UNCHANGED frameVars
    <3>1. UNCHANGED <<vmStack, regs, base, nest, depths, at, exc, acts>>  BY <2>2 DEF frameVars, machineVars
    <3> QED  BY <3>1 DEF CallsInv, ActsInv, Running
  <2> QED  BY <2>1, <2>2
<1> QED  BY <1>1, <1>2, <1>3 DEF CallsInv

(* What a step of the machine is for JCalls.                               *)
LEMMA StepsAreCalls ==
  ASSUME CallsInv, CallsInv', FramesNext
  PROVE  Calls!Next \/ acts' = acts
<1>1. FramesInv /\ SearchInv /\ ActsInv /\ FramesInv' /\ ActsInv'  BY DEF CallsInv
<1>2. CASE RunStaticInit \/ RunMain  BY <1>1, <1>2, StaticInitStep, MainStep DEF Calls!Next
<1>3. CASE LocalStep \/ Invoke \/ InvokeNative \/ MethodReturn \/ ThrowStep
  <2>1. Running
    BY <1>3 DEF LocalStep, Invoke, InvokeNative, MethodReturn, ThrowStep, Const, LoadLocal, StoreLocal, IInc, StackMove,
         Arithmetic, Consume, Branch, Jsr, Ret, RuntimeError, Athrow, SearchHandler, Unwind, Does, Running
  <2>2. Stepping  BY <1>1, <2>1 DEF Stepping, Going
  <2>3. CASE LocalStep  BY <2>2, <2>3, LocalSteps DEF Calls!Next
  <2>4. CASE Invoke  BY <2>2, <2>4, InvokeStep DEF Calls!Next
  <2>5. CASE InvokeNative  BY <2>2, <2>5, NativeStep DEF Calls!Next
  <2>6. CASE MethodReturn  BY <2>2, <2>6, MethodReturnStep DEF Calls!Next
  <2>7. CASE ThrowStep
    <3>1. CASE Athrow  BY <2>2, <3>1, AthrowStep DEF Calls!Next
    <3>2. CASE SearchHandler  BY <2>2, <3>2, SearchStep DEF Calls!Next
    <3>3. CASE Unwind  BY <1>1, <2>2, <3>3, UnwindStep DEF Calls!Next
    <3> QED  BY <2>7, <3>1, <3>2, <3>3 DEF ThrowStep
  <2> QED  BY <1>3, <2>3, <2>4, <2>5, <2>6, <2>7
<1> QED  BY <1>2, <1>3 DEF FramesNext, CallStep

(* ImplementsCalls, for any methods and handlers, any program and any size *)
(* of the stack: whatever an instruction, a call, a return, an exception   *)
(* or a jExecMethod in the middle of them does to the words of the thread  *)
(* stack, the activations see what the rules of calls say, the caller's    *)
(* locals, operands and pc are there when the callee is gone, and none of  *)
(* them is changed by any frame above it.                                  *)
THEOREM FramesImplementCalls == FramesSpec => ImplementsCalls
<1>1. FramesInit => CallsInv /\ Calls!Init  BY CallsInvInit DEF FramesInit, Calls!Init
<1>2. CallsInv /\ [FramesNext]_frameVars => CallsInv'  BY CallsInvNext
<1>3. CallsInv /\ CallsInv' /\ [FramesNext]_frameVars => [Calls!Next]_acts
  BY StepsAreCalls DEF frameVars
<1> QED  BY <1>1, <1>2, <1>3, PTL DEF FramesSpec, ImplementsCalls, Calls!Spec
=============================================================================
