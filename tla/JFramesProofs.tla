----------------------------- MODULE JFramesProofs -----------------------------
(***************************************************************************)
(* The frames on the thread stack, for any methods, any code that the      *)
(* class file format allows and any size of the stack.                     *)
(*                                                                         *)
(* Regs, the registers that the returns will restore, is a recursive       *)
(* function.  The invariant speaks of a sequence F of such registers       *)
(* instead, each the one below its successor (Below): frames are pushed on *)
(* it and popped off it as on the thread stack.  RegsAre shows that Regs   *)
(* is that sequence.                                                       *)
(***************************************************************************)
EXTENDS JFrames, SequenceTheorems, WellFoundedInduction, TLAPS

Kinds == {"value", "junk", "zero", "pc", "var", "stack", "method", "class"}
Word == Kinds \X (Values \cup Nat \cup Method)
Registers == [method : Method, pc : Nat, var : Nat, stack : Nat]
Frame == [r : Registers, base : Nat, nest : Nat]

\* What a suspended jExecMethod, or main, keeps in its variables.
Saved == [regs : Registers, base : Nat, at : {"main", "step", "search"}, exc : Word, k : Nat]

---------------------------------------------------------------------------
(* A frame on the stack st, with d operands by the rules of the class file *)
(* format: it may have more, under those, but only if it caught exceptions.*)
Operands(r) == r.stack - LocalsEnd(r)
InFrame(r, d, st) ==
  /\ r.stack \in LocalsEnd(r) .. FrameEnd(r) - 2
  /\ d <= Operands(r) /\ (d < Operands(r) => Code[r.method].excTable # << >>)
  /\ FrameEnd(r) <= Len(st) /\ ~Code[r.method].native
  /\ st[FrameEnd(r) - 1] = <<"method", r.method>> /\ st[FrameEnd(r)] = <<"class", r.method>>

\* The registers that a return from frame f restores, off the stack or the C stack.
Below(f, st, ns) ==
  IF f.r.var = f.base + 3
  THEN [r |-> ns[f.nest].regs, base |-> ns[f.nest].base, nest |-> f.nest - 1]
  ELSE [r |-> CallerRegs(SubSeq(st, 1, f.r.var)), base |-> f.base, nest |-> f.nest]

FrameAt(F, i, st, ns, ds) ==
  /\ InFrame(F[i].r, ds[i], st)
  /\ F[i].nest \in 1 .. Len(ns) /\ F[i].base + 3 <= F[i].r.var
  /\ i = 1 => F[i].nest = 1 /\ F[i].base = 0 /\ F[i].r.var = 3
  /\ i > 1 => /\ F[i - 1] = Below(F[i], st, ns)
              /\ F[i].r.var = FrameEnd(F[i - 1].r) + 3
              /\ F[i].r.var = F[i].base + 3 => F[i].nest > 1

\* Every frame is above those before it.
Ordered(F) ==
  \A i, j \in 1 .. Len(F) : i < j => FrameEnd(F[i].r) + 3 <= F[j].r.var /\ F[i].nest <= F[j].nest

\* F are the frames on st, the last one with the registers rg.
Frames(F, st, rg, bs, ns, ds) ==
  /\ F \in Seq(Frame) /\ Len(F) > 0 /\ ds \in Seq(Nat) /\ Len(ds) = Len(F)
  /\ F[Len(F)] = [r |-> rg, base |-> bs, nest |-> Len(ns)]
  /\ Len(st) = FrameEnd(rg)
  /\ \A i \in 1 .. Len(F) : FrameAt(F, i, st, ns, ds)
  /\ Ordered(F)

(* The sizes of a frame.                                                   *)
LEMMA Sizes ==
  ASSUME NEW r \in Registers
  PROVE  /\ r.method \in Method /\ r.pc \in Nat /\ r.var \in Nat /\ r.stack \in Nat
         /\ Code[r.method].maxLocals \in Nat /\ Code[r.method].maxStack \in Nat
         /\ LocalsEnd(r) \in Nat /\ FrameEnd(r) \in Nat /\ Operands(r) \in Int
         /\ LocalsEnd(r) = r.var + Code[r.method].maxLocals
         /\ FrameEnd(r) = LocalsEnd(r) + Code[r.method].maxStack + 2
         /\ r.var <= LocalsEnd(r) /\ LocalsEnd(r) + 2 <= FrameEnd(r) /\ r.var + 2 <= FrameEnd(r)
<1>1. r.method \in Method /\ r.pc \in Nat /\ r.var \in Nat /\ r.stack \in Nat  BY DEF Registers
<1>2. Code[r.method].maxLocals \in Nat /\ Code[r.method].maxStack \in Nat  BY <1>1, FramesAssumption
<1> QED  BY <1>1, <1>2 DEF LocalsEnd, FrameEnd, Operands

(* What a return reads.                                                    *)
LEMMA CallerAt ==
  ASSUME NEW st \in Seq(Word), NEW v \in 5 .. Len(st)
  PROVE  CallerRegs(SubSeq(st, 1, v)) =
           [stack |-> st[v][2], var |-> st[v - 1][2], pc |-> st[v - 2][2], method |-> st[v - 4][2]]
<1> DEFINE s == SubSeq(st, 1, v)
<1>1. Len(s) = v /\ \A i \in 1 .. v : s[i] = st[i]
  <2>1. \A i \in 1 .. v : st[i] \in Word  BY ElementOfSeq
  <2> QED  BY <2>1, SubSeqProperties
<1> HIDE DEF s
<1>2. v \in 1 .. v /\ v - 1 \in 1 .. v /\ v - 2 \in 1 .. v /\ v - 4 \in 1 .. v  OBVIOUS
<1> QED  BY <1>1, <1>2 DEF CallerRegs, s

(* A place below one that is below another.                                *)
LEMMA Within ==
  ASSUME NEW a \in Nat, NEW b \in Nat, NEW c \in Nat, a <= b, b <= c, NEW j \in 1 .. a
  PROVE  j \in 1 .. c /\ j <= b
OBVIOUS

(* Two stacks that agree up to v.                                          *)
LEMMA SamePrefix ==
  ASSUME NEW st \in Seq(Word), NEW st2 \in Seq(Word), NEW v \in Nat, v <= Len(st), v <= Len(st2),
         \A i \in 1 .. v : st2[i] = st[i]
  PROVE  SubSeq(st2, 1, v) = SubSeq(st, 1, v)
<1>1. \A i \in 1 .. v : st[i] \in Word /\ st2[i] \in Word  BY ElementOfSeq
<1>2. /\ SubSeq(st, 1, v) \in Seq(Word) /\ Len(SubSeq(st, 1, v)) = v
      /\ \A i \in 1 .. v : SubSeq(st, 1, v)[i] = st[i]
  BY <1>1, SubSeqProperties
<1>3. /\ SubSeq(st2, 1, v) \in Seq(Word) /\ Len(SubSeq(st2, 1, v)) = v
      /\ \A i \in 1 .. v : SubSeq(st2, 1, v)[i] = st2[i]
  BY <1>1, SubSeqProperties
<1> QED  BY <1>2, <1>3, SeqEqual

(* A frame stays one if the stack up to its end, and what the C stack      *)
(* saved for it, stay as they are.                                         *)
LEMMA FrameStays ==
  ASSUME NEW F \in Seq(Frame), NEW G \in Seq(Frame), NEW st \in Seq(Word), NEW st2 \in Seq(Word),
         NEW ns, NEW ns2, NEW ds, NEW ds2, Len(ns) \in Nat, Len(ns2) \in Nat,
         NEW i \in 1 .. Len(F), FrameAt(F, i, st, ns, ds),
         G[i] = F[i], i > 1 => G[i - 1] = F[i - 1], ds2[i] = ds[i],
         FrameEnd(F[i].r) <= Len(st2), \A j \in 1 .. FrameEnd(F[i].r) : st2[j] = st[j],
         F[i].nest <= Len(ns2), ns2[F[i].nest] = ns[F[i].nest]
  PROVE  FrameAt(G, i, st2, ns2, ds2)
<1> DEFINE r == F[i].r
<1>1. F[i] \in Frame  BY ElementOfSeq
<1>2. r \in Registers /\ F[i].nest \in Nat /\ F[i].base \in Nat  BY <1>1 DEF Frame
<1>3. /\ r.var \in Nat /\ LocalsEnd(r) \in Nat /\ FrameEnd(r) \in Nat
      /\ r.var <= LocalsEnd(r) /\ LocalsEnd(r) + 2 <= FrameEnd(r)
  BY <1>2, Sizes
<1>4. InFrame(r, ds[i], st)  BY DEF FrameAt
<1>5. Len(st) \in Nat /\ Len(st2) \in Nat /\ FrameEnd(r) <= Len(st)  BY <1>4, SMTT(40) DEF InFrame
<1>6. InFrame(r, ds2[i], st2)
  <2>1. FrameEnd(r) - 1 \in 1 .. FrameEnd(r) /\ FrameEnd(r) \in 1 .. FrameEnd(r)  BY <1>3, SMTT(40)
  <2> QED  BY <1>4, <2>1 DEF InFrame
<1>7. SubSeq(st2, 1, r.var) = SubSeq(st, 1, r.var)
  <2>1. PICK v \in Nat, e \in Nat, a \in Nat, b \in Nat : v = r.var /\ e = FrameEnd(r) /\ a = Len(st) /\ b = Len(st2)
    BY <1>3, <1>5
  <2>2. v <= e /\ e <= a /\ e <= b
    <3>1. v <= e  BY ONLY <2>1, <1>3, SMTT(40)
    <3> QED  BY <2>1, <3>1, <1>5
  <2>3. v <= a /\ v <= b /\ \A j \in 1 .. v : j \in 1 .. e  BY ONLY <2>2, v \in Nat, e \in Nat, a \in Nat, b \in Nat
  <2>4. \A j \in 1 .. v : st2[j] = st[j]  BY <2>1, <2>3
  <2> QED  BY <2>1, <2>3, <2>4, SamePrefix
<1>8. Below(F[i], st2, ns2) = Below(F[i], st, ns)  BY <1>7 DEF Below
<1>9. F[i].nest \in 1 .. Len(ns2)  BY <1>2 DEF FrameAt
<1> QED  BY <1>6, <1>8, <1>9 DEF FrameAt

(* The facts about F that every step uses.                                 *)
LEMMA FrameFacts ==
  ASSUME NEW F, NEW st \in Seq(Word), NEW rg \in Registers, NEW bs \in Nat, NEW ns, NEW ds, Len(ns) \in Nat,
         Frames(F, st, rg, bs, ns, ds)
  PROVE  /\ F \in Seq(Frame) /\ Len(F) \in Nat \ {0} /\ ds \in Seq(Nat) /\ Len(ds) = Len(F)
         /\ F[Len(F)].r = rg /\ F[Len(F)].base = bs /\ F[Len(F)].nest = Len(ns)
         /\ \A i \in 1 .. Len(F) :
              /\ F[i] \in Frame /\ F[i].r \in Registers /\ F[i].nest \in Nat /\ F[i].base \in Nat
              /\ FrameEnd(F[i].r) \in Nat /\ FrameEnd(F[i].r) <= Len(st)
              /\ F[i].nest <= Len(ns) /\ F[i].r.var \in Nat /\ F[i].r.var + 2 <= FrameEnd(F[i].r)
         /\ \A i \in 1 .. Len(F) - 1 : FrameEnd(F[i].r) + 3 <= rg.var
         /\ InFrame(rg, ds[Len(ds)], st) /\ ds[Len(ds)] \in Nat
         /\ Len(st) = FrameEnd(rg) /\ bs + 3 <= rg.var
<1>1. F \in Seq(Frame) /\ Len(F) \in Nat \ {0} /\ ds \in Seq(Nat) /\ Len(ds) = Len(F)
  BY DEF Frames
<1>2. F[Len(F)] = [r |-> rg, base |-> bs, nest |-> Len(ns)]  BY DEF Frames
<1>3. ASSUME NEW i \in 1 .. Len(F)
      PROVE  /\ F[i] \in Frame /\ F[i].r \in Registers /\ F[i].nest \in Nat /\ F[i].base \in Nat
             /\ FrameEnd(F[i].r) \in Nat /\ FrameEnd(F[i].r) <= Len(st)
             /\ F[i].nest <= Len(ns) /\ F[i].r.var \in Nat /\ F[i].r.var + 2 <= FrameEnd(F[i].r)
  <2>1. F[i] \in Frame  BY <1>1, ElementOfSeq
  <2>2. F[i].r \in Registers /\ F[i].nest \in Nat /\ F[i].base \in Nat  BY <2>1 DEF Frame
  <2>3. FrameAt(F, i, st, ns, ds)  BY DEF Frames
  <2>4. FrameEnd(F[i].r) <= Len(st) /\ F[i].nest <= Len(ns)  BY <2>3 DEF FrameAt, InFrame
  <2>5. FrameEnd(F[i].r) \in Nat /\ F[i].r.var \in Nat /\ F[i].r.var + 2 <= FrameEnd(F[i].r)  BY <2>2, Sizes
  <2> QED  BY <2>1, <2>2, <2>4, <2>5
<1>4. Len(F) \in 1 .. Len(F)  BY <1>1
<1>5. FrameAt(F, Len(F), st, ns, ds)  BY <1>4 DEF Frames
<1>6. InFrame(rg, ds[Len(ds)], st) /\ bs + 3 <= rg.var  BY <1>1, <1>2, <1>5 DEF FrameAt
<1>7. \A i \in 1 .. Len(F) - 1 : FrameEnd(F[i].r) + 3 <= rg.var
  <2>1. \A i \in 1 .. Len(F) - 1 : i \in 1 .. Len(F) /\ i < Len(F)  BY <1>1
  <2> QED  BY <1>2, <1>4, <2>1 DEF Frames, Ordered
<1>8. ds[Len(ds)] \in Nat  BY <1>1, <1>4, ElementOfSeq
<1> QED  BY <1>1, <1>2, <1>3, <1>6, <1>7, <1>8 DEF Frames

---------------------------------------------------------------------------
(* What the steps do to the frames. *)

\* The depths ds with another last one.
OtherLast(ds2, ds, d) ==
  /\ ds2 \in Seq(Nat) /\ Len(ds2) = Len(ds) /\ ds2[Len(ds)] = d
  /\ \A i \in 1 .. Len(ds) - 1 : ds2[i] = ds[i]

(* The first words of a stack.                                             *)
LEMMA Prefix ==
  ASSUME NEW st, st \in Seq(Word), NEW v \in Nat, v <= Len(st)
  PROVE  /\ SubSeq(st, 1, v) \in Seq(Word) /\ Len(SubSeq(st, 1, v)) = v
         /\ \A i \in 1 .. v : SubSeq(st, 1, v)[i] = st[i]
<1>1. \A i \in 1 .. v : st[i] \in Word  BY ElementOfSeq
<1> QED  BY <1>1, SubSeqProperties

(* A sequence with another last element.                                   *)
LEMMA LastChanged ==
  ASSUME NEW ds, ds \in Seq(Nat), Len(ds) > 0, NEW d \in Nat
  PROVE  OtherLast([ds EXCEPT ![Len(ds)] = d], ds, d)
<1>1. PICK n \in Nat : n = Len(ds)  OBVIOUS
<1>2. n > 0  BY <1>1
<1>3. n \in 1 .. n /\ \A i \in 1 .. n - 1 : i \in 1 .. n /\ i # n  BY ONLY <1>2
<1> QED  BY <1>1, <1>3, ExceptSeq DEF OtherLast

(* An instruction changes the locals and operands of the last frame, its   *)
(* pc and its stack pointer.                                               *)
LEMMA TopChanges ==
  ASSUME NEW F, NEW st \in Seq(Word), NEW rg \in Registers, NEW bs \in Nat, NEW ns, NEW ds, Len(ns) \in Nat,
         Frames(F, st, rg, bs, ns, ds),
         NEW st2 \in Seq(Word), Len(st2) = Len(st), NEW rg2 \in Registers, NEW d \in Nat,
         NEW ds2, OtherLast(ds2, ds, d),
         rg2.method = rg.method, rg2.var = rg.var,
         \A i \in 1 .. Len(st) : i <= rg.var \/ i > FrameEnd(rg) - 2 => st2[i] = st[i],
         rg2.stack \in LocalsEnd(rg) .. FrameEnd(rg) - 2,
         d <= Operands(rg2), d < Operands(rg2) => Code[rg.method].excTable # << >>
  PROVE  \E G : Frames(G, st2, rg2, bs, ns, ds2)
<1> DEFINE n == Len(F)
           f == [r |-> rg2, base |-> bs, nest |-> Len(ns)]
           G == [F EXCEPT ![n] = f]
<1>1. /\ F \in Seq(Frame) /\ n \in Nat \ {0} /\ ds \in Seq(Nat) /\ Len(ds) = n
      /\ F[n].r = rg /\ F[n].base = bs /\ F[n].nest = Len(ns)
      /\ \A i \in 1 .. n :
           /\ F[i] \in Frame /\ F[i].r \in Registers /\ F[i].nest \in Nat
           /\ FrameEnd(F[i].r) \in Nat /\ FrameEnd(F[i].r) <= Len(st) /\ F[i].nest <= Len(ns)
           /\ F[i].r.var \in Nat
      /\ \A i \in 1 .. n - 1 : FrameEnd(F[i].r) + 3 <= rg.var
      /\ InFrame(rg, ds[Len(ds)], st) /\ Len(st) = FrameEnd(rg) /\ bs + 3 <= rg.var
  <2>1. Len(ns) \in Nat /\ Frames(F, st, rg, bs, ns, ds)  OBVIOUS
  <2> QED  BY ONLY <2>1, FrameFacts, SMTT(40)
<1>2. f \in Frame  BY DEF Frame
<1>0. n \in Nat \ {0} /\ Len(st) \in Nat /\ Len(st) = FrameEnd(rg)  BY <1>1
<1>3. n \in 1 .. n /\ (\A i \in 1 .. n : i \in 1 .. n - 1 \/ i = n) /\ (\A i \in 1 .. n : i > 1 => i - 1 \in 1 .. n - 1)
  BY <1>0
<1>4. G \in Seq(Frame) /\ Len(G) = n /\ G[n] = f /\ \A i \in 1 .. n - 1 : G[i] = F[i]
  BY <1>1, <1>2, <1>3, ExceptSeq
<1>5. ds2 \in Seq(Nat) /\ Len(ds2) = n /\ ds2[n] = d /\ \A i \in 1 .. n - 1 : ds2[i] = ds[i]
  BY <1>1 DEF OtherLast
<1> HIDE DEF G
<1>6. /\ LocalsEnd(rg) \in Nat /\ FrameEnd(rg) \in Nat /\ rg.var \in Nat
      /\ LocalsEnd(rg2) = LocalsEnd(rg) /\ FrameEnd(rg2) = FrameEnd(rg)
      /\ rg.var + 2 <= FrameEnd(rg)
  BY Sizes DEF LocalsEnd, FrameEnd
<1>7. ASSUME NEW i \in 1 .. n - 1 PROVE FrameAt(G, i, st2, ns, ds2)
  <2>1. i \in 1 .. n /\ FrameAt(F, i, st, ns, ds)
    <3>1. i \in 1 .. n  BY <1>0
    <3> QED  BY <3>1 DEF Frames
  <2>2. i > 1 => G[i - 1] = F[i - 1]
    <3>1. i \in 1 .. n  BY <1>0
    <3>2. i > 1 => i - 1 \in 1 .. n - 1  BY <1>3, <3>1
    <3> QED  BY <3>2, <1>4
  <2>3. FrameEnd(F[i].r) + 3 <= rg.var /\ FrameEnd(F[i].r) \in Nat /\ FrameEnd(F[i].r) <= Len(st) /\ F[i].nest <= Len(ns)
    BY <2>1, <1>1
  <2>4. ASSUME NEW j \in 1 .. FrameEnd(F[i].r) PROVE j \in 1 .. Len(st) /\ j <= rg.var
    <3>1. FrameEnd(F[i].r) <= rg.var /\ rg.var <= Len(st)
      <4> HIDE DEF n
      <4> QED  BY <2>3, <1>0, <1>6, SMTT(40)
    <3>2. FrameEnd(F[i].r) \in Nat /\ rg.var \in Nat /\ Len(st) \in Nat  BY <2>3, <1>0, <1>6
    <3> QED  BY ONLY <3>1, <3>2, <2>4, Within
  <2>5. \A j \in 1 .. FrameEnd(F[i].r) : st2[j] = st[j]  BY <2>4
  <2> QED  BY <2>1, <2>2, <2>3, <2>5, <1>1, <1>4, <1>5, FrameStays
<1>8. FrameAt(G, n, st2, ns, ds2)
  <2>1. FrameAt(F, n, st, ns, ds)  BY <1>3 DEF Frames
  <2>2. InFrame(rg2, d, st2)
    <3>1. /\ FrameEnd(rg) - 1 \in 1 .. Len(st) /\ FrameEnd(rg) - 1 > FrameEnd(rg) - 2
          /\ FrameEnd(rg) \in 1 .. Len(st) /\ FrameEnd(rg) > FrameEnd(rg) - 2
      BY <1>0, <1>6, SMTT(40)
    <3>2. st2[FrameEnd(rg) - 1] = st[FrameEnd(rg) - 1] /\ st2[FrameEnd(rg)] = st[FrameEnd(rg)]  BY <3>1
    <3> QED  BY <3>2, <1>1, <1>6 DEF InFrame
  <2>3. Below(f, st2, ns) = Below(F[n], st, ns)
    <3>1. rg.var <= Len(st) /\ \A j \in 1 .. rg.var : j \in 1 .. Len(st)  BY <1>0, <1>6
    <3>2. SubSeq(st2, 1, rg.var) = SubSeq(st, 1, rg.var)  BY <3>1, <1>6, SamePrefix
    <3> QED  BY <3>2, <1>1 DEF Below
  <2>4. n > 1 => G[n - 1] = F[n - 1]  BY <1>3, <1>4
  <2>5. f.r = rg2 /\ f.base = bs /\ f.nest = Len(ns)  OBVIOUS
  <2>6. F[n].r = rg /\ F[n].base = bs /\ F[n].nest = Len(ns)  BY <1>1
  <2>7. G[n] = f /\ ds2[n] = d  BY <1>4, <1>5
  <2> HIDE DEF f
  <2> QED  BY <2>1, <2>2, <2>3, <2>4, <2>5, <2>6, <2>7 DEF FrameAt
<1>9. Ordered(G)
  <2>1. \A i \in 1 .. n : FrameEnd(G[i].r) = FrameEnd(F[i].r) /\ G[i].r.var = F[i].r.var /\ G[i].nest = F[i].nest
    <3>1. f.r = rg2 /\ f.nest = Len(ns)  OBVIOUS
    <3> HIDE DEF f
    <3> QED  BY <3>1, <1>1, <1>3, <1>4, <1>6
  <2> QED  BY <2>1, <1>4 DEF Frames, Ordered
<1>10. \A i \in 1 .. n : FrameAt(G, i, st2, ns, ds2)
  <2> QED  BY <1>3, <1>7, <1>8
<1>11. Len(st2) = FrameEnd(rg2)  BY <1>1, <1>6
<1>12. Frames(G, st2, rg2, bs, ns, ds2)  BY <1>1, <1>4, <1>5, <1>9, <1>10, <1>11 DEF Frames
<1> QED  BY <1>12

\* The frame of rg2 is on top of st, and what is below its locals leads back to rg.
PushedOn(st, rg, bs, ns, st2, rg2, bs2, ns2) ==
  /\ st2 \in Seq(Word) /\ rg2 \in Registers /\ bs2 \in Nat /\ Len(ns2) \in Nat
  /\ rg2.var = Len(st) + 3 /\ rg2.stack = LocalsEnd(rg2) /\ ~Code[rg2.method].native /\ Len(st2) = FrameEnd(rg2)
  /\ \A i \in 1 .. Len(st) : st2[i] = st[i]
  /\ st2[FrameEnd(rg2) - 1] = <<"method", rg2.method>> /\ st2[FrameEnd(rg2)] = <<"class", rg2.method>>
  /\ Len(ns) <= Len(ns2) /\ (\A i \in 1 .. Len(ns) : ns2[i] = ns[i]) /\ bs2 <= Len(st)
  /\ rg2.var = bs2 + 3 => Len(ns2) > 1
  /\ Below([r |-> rg2, base |-> bs2, nest |-> Len(ns2)], st2, ns2) = [r |-> rg, base |-> bs, nest |-> Len(ns)]

(* A frame on top of the others.                                           *)
LEMMA FramePushed ==
  ASSUME NEW F, NEW st \in Seq(Word), NEW rg \in Registers, NEW bs \in Nat, NEW ns, NEW ds, Len(ns) \in Nat,
         Frames(F, st, rg, bs, ns, ds),
         NEW st2, NEW rg2, NEW bs2, NEW ns2, PushedOn(st, rg, bs, ns, st2, rg2, bs2, ns2)
  PROVE  \E G : Frames(G, st2, rg2, bs2, ns2, Append(ds, 0))
<1>20. /\ F \in Seq(Frame) /\ Len(F) \in Nat \ {0} /\ ds \in Seq(Nat) /\ Len(ds) = Len(F)
       /\ F[Len(F)].r = rg /\ F[Len(F)].base = bs /\ F[Len(F)].nest = Len(ns)
       /\ \A i \in 1 .. Len(F) :
            /\ F[i] \in Frame /\ F[i].r \in Registers /\ F[i].nest \in Nat /\ F[i].base \in Nat
            /\ FrameEnd(F[i].r) \in Nat /\ FrameEnd(F[i].r) <= Len(st)
            /\ F[i].nest <= Len(ns) /\ F[i].r.var \in Nat /\ F[i].r.var + 2 <= FrameEnd(F[i].r)
       /\ \A i \in 1 .. Len(F) - 1 : FrameEnd(F[i].r) + 3 <= rg.var
       /\ InFrame(rg, ds[Len(ds)], st) /\ ds[Len(ds)] \in Nat
       /\ Len(st) = FrameEnd(rg) /\ bs + 3 <= rg.var
  BY FrameFacts
<1> SUFFICES
      ASSUME st2 \in Seq(Word), rg2 \in Registers, bs2 \in Nat, Len(ns2) \in Nat,
         rg2.var = Len(st) + 3, rg2.stack = LocalsEnd(rg2), ~Code[rg2.method].native, Len(st2) = FrameEnd(rg2),
         \A i \in 1 .. Len(st) : st2[i] = st[i],
         st2[FrameEnd(rg2) - 1] = <<"method", rg2.method>>, st2[FrameEnd(rg2)] = <<"class", rg2.method>>,
         Len(ns) <= Len(ns2), \A i \in 1 .. Len(ns) : ns2[i] = ns[i], bs2 <= Len(st),
         rg2.var = bs2 + 3 => Len(ns2) > 1,
         Below([r |-> rg2, base |-> bs2, nest |-> Len(ns2)], st2, ns2) = [r |-> rg, base |-> bs, nest |-> Len(ns)]
      PROVE \E G : Frames(G, st2, rg2, bs2, ns2, Append(ds, 0))
  BY DEF PushedOn
<1> DEFINE n == Len(F)
           f == [r |-> rg2, base |-> bs2, nest |-> Len(ns2)]
           G == Append(F, f)
           ds2 == Append(ds, 0)
<1>1. /\ F \in Seq(Frame) /\ n \in Nat \ {0} /\ ds \in Seq(Nat) /\ Len(ds) = n
      /\ F[n].r = rg /\ F[n].base = bs /\ F[n].nest = Len(ns)
      /\ \A i \in 1 .. n :
           /\ F[i] \in Frame /\ F[i].r \in Registers /\ F[i].nest \in Nat
           /\ FrameEnd(F[i].r) \in Nat /\ FrameEnd(F[i].r) <= Len(st) /\ F[i].nest <= Len(ns)
           /\ F[i].r.var \in Nat
      /\ Len(st) = FrameEnd(rg)
  BY <1>20
<1>2. f \in Frame  BY DEF Frame
<1>0. n \in Nat \ {0} /\ Len(st) \in Nat /\ Len(st) = FrameEnd(rg)  BY <1>1
<1>13. /\ n \in 1 .. n /\ (\A i \in 1 .. n + 1 : i \in 1 .. n \/ i = n + 1) /\ (\A i \in 1 .. n : i > 1 => i - 1 \in 1 .. n)
       /\ (n + 1) - 1 = n /\ n + 1 > 1 /\ n + 1 # 1 /\ (\A i, j \in 1 .. n + 1 : i < j => i \in 1 .. n)
  BY <1>0, SMTT(40)
<1>3. /\ G \in Seq(Frame) /\ Len(G) = n + 1 /\ G[n + 1] = f /\ \A i \in 1 .. n : G[i] = F[i]
  BY <1>1, <1>2, AppendProperties
<1>4. 0 \in Nat  OBVIOUS
<1>5. ds2 \in Seq(Nat) /\ Len(ds2) = n + 1 /\ ds2[n + 1] = 0 /\ \A i \in 1 .. n : ds2[i] = ds[i]
  <2>1. ds \in Seq(Nat) /\ Len(ds) = n  BY <1>1
  <2> HIDE DEF n
  <2> QED  BY <2>1, <1>4, AppendProperties, SMTT(40)
<1> HIDE DEF G, ds2
<1>6. /\ LocalsEnd(rg2) \in Nat /\ FrameEnd(rg2) \in Nat /\ rg2.var \in Nat /\ rg2.var <= LocalsEnd(rg2)
      /\ LocalsEnd(rg2) + 2 <= FrameEnd(rg2)
  BY Sizes
<1>7. Len(st) \in Nat /\ Len(st) + 5 <= Len(st2)  BY <1>6, SMTT(40)
<1>8. ASSUME NEW i \in 1 .. n PROVE FrameAt(G, i, st2, ns2, ds2)
  <2>1. FrameAt(F, i, st, ns, ds)  BY DEF Frames
  <2>2. i > 1 => G[i - 1] = F[i - 1]  BY <1>13, <1>3
  <2>3. FrameEnd(F[i].r) \in Nat /\ FrameEnd(F[i].r) <= Len(st) /\ F[i].nest \in 1 .. Len(ns)
    BY <2>1, <1>1 DEF FrameAt
  <2>4. \A j \in 1 .. FrameEnd(F[i].r) : j \in 1 .. Len(st)  BY <2>3, <1>7, SMTT(40)
  <2>5. \A j \in 1 .. FrameEnd(F[i].r) : st2[j] = st[j]  BY <2>4
  <2>6. ns2[F[i].nest] = ns[F[i].nest] /\ F[i].nest <= Len(ns2)  BY <2>3, SMTT(40)
  <2>7. FrameEnd(F[i].r) <= Len(st2)  BY <2>3, <1>7, SMTT(40)
  <2> QED  BY <2>1, <2>2, <2>5, <2>6, <2>7, <1>1, <1>3, <1>5, FrameStays
<1>9. FrameAt(G, n + 1, st2, ns2, ds2)
  <2>1. InFrame(rg2, 0, st2)
    <3>1. Operands(rg2) = 0  BY <1>6 DEF Operands
    <3>2. rg2.stack \in LocalsEnd(rg2) .. FrameEnd(rg2) - 2  BY <1>6, SMTT(40)
    <3> QED  BY <3>1, <3>2, <1>6 DEF InFrame
  <2>2. Len(ns2) \in 1 .. Len(ns2)
    <3>1. FrameAt(F, n, st, ns, ds)  BY <1>13 DEF Frames
    <3>2. F[n].nest = Len(ns)  BY <1>1
    <3>3. Len(ns) \in 1 .. Len(ns)  BY <3>1, <3>2 DEF FrameAt
    <3> QED  BY <3>3
  <2>3. G[(n + 1) - 1] = F[n] /\ n + 1 # 1 /\ n + 1 > 1  BY <1>13, <1>3
  <2>4. F[n] = [r |-> rg, base |-> bs, nest |-> Len(ns)]  BY DEF Frames
  <2>5. bs2 + 3 <= rg2.var  BY <1>7
  <2>6. f.r = rg2 /\ f.base = bs2 /\ f.nest = Len(ns2)  OBVIOUS
  <2> HIDE DEF f
  <2> QED  BY <2>1, <2>2, <2>3, <2>4, <2>5, <2>6, <1>1, <1>3, <1>5 DEF FrameAt, f
<1>10. Ordered(G)
  <2> SUFFICES ASSUME NEW i \in 1 .. n + 1, NEW j \in 1 .. n + 1, i < j
               PROVE  FrameEnd(G[i].r) + 3 <= G[j].r.var /\ G[i].nest <= G[j].nest
    BY <1>3 DEF Ordered
  <2>1. i \in 1 .. n /\ (j \in 1 .. n \/ j = n + 1)  BY <1>13
  <2>2. CASE j \in 1 .. n  BY <2>1, <2>2, <1>3 DEF Frames, Ordered
  <2>3. CASE j = n + 1
    <3>1. G[j].r.var = Len(st) + 3 /\ G[j].nest = Len(ns2)  BY <2>3, <1>3
    <3>2. G[i] = F[i] /\ FrameEnd(F[i].r) <= Len(st) /\ FrameEnd(F[i].r) \in Nat /\ F[i].nest <= Len(ns) /\ F[i].nest \in Nat
      BY <2>1, <1>1, <1>3
    <3>3. F[i].nest <= Len(ns2)  BY <3>2, SMTT(40)
    <3>4. FrameEnd(F[i].r) + 3 <= Len(st) + 3  BY <3>2, <1>7, SMTT(40)
    <3> QED  BY <3>1, <3>2, <3>3, <3>4
  <2> QED  BY <2>1, <2>2, <2>3
<1>11. \A i \in 1 .. n + 1 : FrameAt(G, i, st2, ns2, ds2)
  <2> QED  BY <1>13, <1>8, <1>9
<1>12. Frames(G, st2, rg2, bs2, ns2, ds2)  BY <1>1, <1>3, <1>5, <1>10, <1>11 DEF Frames
<1> QED  BY <1>12 DEF ds2

(* A sequence without its last element.                                    *)
LEMMA FrontOf ==
  ASSUME NEW S, NEW s \in Seq(S), Len(s) > 0
  PROVE  /\ Front(s) \in Seq(S) /\ Len(Front(s)) = Len(s) - 1
         /\ \A i \in 1 .. Len(s) - 1 : Front(s)[i] = s[i]
<1>1. Len(s) \in Nat /\ Len(s) - 1 \in Nat  OBVIOUS
<1>2. \A i \in 1 .. Len(s) - 1 : s[i] \in S  BY <1>1, ElementOfSeq
<1> DEFINE n == Len(s) - 1
<1>3. n \in Int /\ 1 \in Int /\ \A i \in 1 .. n : s[i] \in S  BY <1>1, <1>2
<1>4. n - 1 + 1 = n /\ \A i \in 1 .. n : 1 + i - 1 = i  BY <1>3
<1> HIDE DEF n
<1>5. /\ SubSeq(s, 1, n) \in Seq(S)
      /\ Len(SubSeq(s, 1, n)) = IF 1 <= n THEN n - 1 + 1 ELSE 0
      /\ \A i \in 1 .. n - 1 + 1 : SubSeq(s, 1, n)[i] = s[1 + i - 1]
  BY <1>3, SubSeqProperties
<1>6. n \in Nat  BY <1>1 DEF n
<1>7. (1 <= n => n - 1 + 1 = n) /\ (~(1 <= n) => n = 0)  BY <1>6
<1> QED  BY <1>4, <1>5, <1>7 DEF Front, n

(* The first frame of the first jExecMethod.                               *)
LEMMA FirstFrame ==
  ASSUME NEW st \in Seq(Word), NEW rg \in Registers, NEW ns, Len(ns) = 1,
         rg.var = 3, rg.stack = LocalsEnd(rg), ~Code[rg.method].native, Len(st) = FrameEnd(rg),
         st[FrameEnd(rg) - 1] = <<"method", rg.method>>, st[FrameEnd(rg)] = <<"class", rg.method>>
  PROVE  \E G : Frames(G, st, rg, 0, ns, <<0>>)
<1> DEFINE f == [r |-> rg, base |-> 0, nest |-> Len(ns)]
           G == <<f>>
<1>1. f \in Frame  BY DEF Frame
<1>2. f.r = rg /\ f.base = 0 /\ f.nest = 1  OBVIOUS
<1> HIDE DEF f
<1>3. G \in Seq(Frame) /\ Len(G) = 1 /\ G[1] = f  BY <1>1
<1>4. <<0>> \in Seq(Nat) /\ Len(<<0>>) = 1 /\ <<0>>[1] = 0  OBVIOUS
<1> HIDE DEF G
<1>5. LocalsEnd(rg) \in Nat /\ FrameEnd(rg) \in Nat /\ LocalsEnd(rg) + 2 <= FrameEnd(rg)  BY Sizes
<1>6. InFrame(rg, 0, st)
  <2>1. Operands(rg) = 0 /\ rg.stack \in LocalsEnd(rg) .. FrameEnd(rg) - 2  BY <1>5 DEF Operands
  <2> QED  BY <2>1, <1>5 DEF InFrame
<1>7. FrameAt(G, 1, st, ns, <<0>>)  BY <1>2, <1>3, <1>4, <1>6 DEF FrameAt
<1>8. Ordered(G)
  <2>1. \A i, j \in 1 .. 1 : ~(i < j)  OBVIOUS
  <2> QED  BY <2>1, <1>3 DEF Ordered
<1>9. \A i \in 1 .. Len(G) : FrameAt(G, i, st, ns, <<0>>)
  <2>1. \A i \in 1 .. 1 : i = 1  OBVIOUS
  <2> QED  BY <2>1, <1>3, <1>7
<1>10. G[Len(G)] = [r |-> rg, base |-> 0, nest |-> Len(ns)]  BY <1>3 DEF f
<1>11. Frames(G, st, rg, 0, ns, <<0>>)  BY <1>3, <1>4, <1>8, <1>9, <1>10 DEF Frames
<1> QED  BY <1>11

(* The only frame is that of the jExecMethod that main called.             *)
LEMMA OnlyFrame ==
  ASSUME NEW F, NEW st \in Seq(Word), NEW rg \in Registers, NEW bs \in Nat, NEW ns, NEW ds, Len(ns) \in Nat,
         Frames(F, st, rg, bs, ns, ds)
  PROVE  /\ Len(ns) >= 1
         /\ Len(F) = 1 => rg.var = bs + 3 /\ Len(ns) = 1 /\ bs = 0
         /\ Len(F) > 1 => rg.var # bs + 3 \/ Len(ns) > 1
<1> DEFINE n == Len(F)
<1>1. n \in Nat \ {0} /\ F[n].r = rg /\ F[n].base = bs /\ F[n].nest = Len(ns)  BY FrameFacts
<1>2. n \in 1 .. n  BY <1>1
<1>3. FrameAt(F, n, st, ns, ds)  BY <1>2 DEF Frames
<1>4. Len(ns) >= 1  BY <1>1, <1>3 DEF FrameAt
<1>5. n = 1 => rg.var = bs + 3 /\ Len(ns) = 1 /\ bs = 0  BY <1>1, <1>3 DEF FrameAt
<1>6. n > 1 => rg.var # bs + 3 \/ Len(ns) > 1  BY <1>1, <1>3 DEF FrameAt
<1> QED  BY <1>4, <1>5, <1>6

\* Without the last of the frames F on st, f is the last.
PoppedTo(f, F, st, ns, ds) ==
  \A st2 \in Seq(Word) : \A ns2 :
    /\ Len(st2) = FrameEnd(f.r) /\ \A i \in 1 .. FrameEnd(f.r) : st2[i] = st[i]
    /\ Len(ns2) = f.nest /\ \A i \in 1 .. f.nest : ns2[i] = ns[i]
    => Frames(Front(F), st2, f.r, f.base, ns2, Front(ds))

(* The last frame goes, and the one before it is the last.                 *)
LEMMA FramePopped ==
  ASSUME NEW F, NEW st \in Seq(Word), NEW rg \in Registers, NEW bs \in Nat, NEW ns, NEW ds, Len(ns) \in Nat,
         Frames(F, st, rg, bs, ns, ds), Len(F) > 1,
         NEW f, f = Below([r |-> rg, base |-> bs, nest |-> Len(ns)], st, ns)
  PROVE  /\ f \in Frame /\ f.r \in Registers /\ f.base \in Nat /\ f.nest \in Nat
         /\ rg.var = FrameEnd(f.r) + 3 /\ f.nest <= Len(ns)
         /\ InFrame(f.r, ds[Len(ds) - 1], st) /\ ds[Len(ds) - 1] \in Nat /\ Front(ds) \in Seq(Nat)
         /\ Len(Front(ds)) = Len(ds) - 1 /\ Front(ds)[Len(ds) - 1] = ds[Len(ds) - 1] /\ Len(ds) > 1
         /\ PoppedTo(f, F, st, ns, ds)
<1> DEFINE n == Len(F)
           G == Front(F)
           ds2 == Front(ds)
<1>1. /\ F \in Seq(Frame) /\ n \in Nat \ {0} /\ ds \in Seq(Nat) /\ Len(ds) = n
      /\ F[n].r = rg /\ F[n].base = bs /\ F[n].nest = Len(ns)
      /\ \A i \in 1 .. n :
           /\ F[i] \in Frame /\ F[i].r \in Registers /\ F[i].nest \in Nat /\ F[i].base \in Nat
           /\ FrameEnd(F[i].r) \in Nat /\ FrameEnd(F[i].r) <= Len(st) /\ F[i].nest <= Len(ns)
           /\ F[i].r.var \in Nat /\ F[i].r.var + 2 <= FrameEnd(F[i].r)
      /\ Len(st) = FrameEnd(rg)
  <2>1. Len(ns) \in Nat /\ Frames(F, st, rg, bs, ns, ds)  OBVIOUS
  <2> QED  BY ONLY <2>1, FrameFacts
<1>15. n \in Nat  BY <1>1
<1>16. n > 1  OBVIOUS
<1>2. n \in Nat /\ n > 1 /\ n - 1 \in Nat \ {0}
  <2> HIDE DEF n
  <2> QED  BY ONLY <1>15, <1>16
<1>3. /\ n \in 1 .. n /\ n - 1 \in 1 .. n /\ n - 1 \in 1 .. n - 1
      /\ (\A i \in 1 .. n - 1 : i \in 1 .. n /\ i < n /\ (i = n - 1 \/ i < n - 1))
      /\ (\A i \in 1 .. n - 1 : i > 1 => i - 1 \in 1 .. n - 1)
  BY <1>2
<1>4. G \in Seq(Frame) /\ Len(G) = n - 1 /\ \A i \in 1 .. n - 1 : G[i] = F[i]
  BY <1>1, <1>2, FrontOf, SMTT(40)
<1>5. ds2 \in Seq(Nat) /\ Len(ds2) = n - 1 /\ \A i \in 1 .. n - 1 : ds2[i] = ds[i]
  BY <1>1, <1>2, FrontOf, SMTT(40)
<1> HIDE DEF G, ds2
<1>6. FrameAt(F, n, st, ns, ds) /\ FrameAt(F, n - 1, st, ns, ds)  BY <1>3 DEF Frames
<1>7. F[n] = [r |-> rg, base |-> bs, nest |-> Len(ns)]  BY DEF Frames
<1>8. F[n - 1] = f /\ rg.var = FrameEnd(f.r) + 3  BY <1>1, <1>2, <1>6, <1>7 DEF FrameAt
<1>9. /\ f \in Frame /\ f.r \in Registers /\ f.base \in Nat /\ f.nest \in Nat /\ f.nest <= Len(ns)
      /\ FrameEnd(f.r) \in Nat /\ FrameEnd(f.r) <= Len(st)
  BY <1>1, <1>3, <1>8
<1>10. InFrame(f.r, ds[n - 1], st)  BY <1>6, <1>8 DEF FrameAt
<1>11. ds[n - 1] \in Nat  BY <1>1, <1>3, ElementOfSeq
<1>12. ASSUME NEW st2 \in Seq(Word), NEW ns2,
              Len(st2) = FrameEnd(f.r), \A i \in 1 .. FrameEnd(f.r) : st2[i] = st[i],
              Len(ns2) = f.nest, \A i \in 1 .. f.nest : ns2[i] = ns[i]
       PROVE  Frames(G, st2, f.r, f.base, ns2, ds2)
  <2>1. ASSUME NEW i \in 1 .. n - 1 PROVE FrameAt(G, i, st2, ns2, ds2)
    <3>1. i \in 1 .. n /\ FrameAt(F, i, st, ns, ds)  BY <1>3, <2>1 DEF Frames
    <3>2. i > 1 => G[i - 1] = F[i - 1]  BY <1>3, <1>4
    <3>3. FrameEnd(F[i].r) <= FrameEnd(f.r) /\ F[i].nest <= f.nest
      <4>1. CASE i = n - 1
        <5>1. F[i] = f  BY <4>1, <1>8
        <5> QED  BY <5>1, <1>9
      <4>2. CASE i < n - 1
        <5>1. FrameEnd(F[i].r) + 3 <= F[n - 1].r.var /\ F[i].nest <= F[n - 1].nest
          BY <3>1, <1>3, <4>2 DEF Frames, Ordered
        <5>2. F[n - 1].r.var + 2 <= FrameEnd(F[n - 1].r) /\ F[n - 1].r.var \in Nat  BY <1>1, <1>3
        <5>3. FrameEnd(F[i].r) \in Nat /\ F[i].nest \in Nat  BY <1>1, <3>1
        <5>4. /\ FrameEnd(F[i].r) + 3 <= f.r.var /\ F[i].nest <= f.nest
              /\ f.r.var + 2 <= FrameEnd(f.r) /\ f.r.var \in Nat
          BY ONLY <5>1, <5>2, <1>8
        <5>5. FrameEnd(f.r) \in Nat  BY <1>9
        <5> QED  BY ONLY <5>3, <5>4, <5>5
      <4> QED  BY <4>1, <4>2, <1>3
    <3>4. FrameEnd(F[i].r) \in Nat /\ F[i].nest \in 1 .. Len(ns)  BY <3>1, <1>1 DEF FrameAt
    <3>5. \A j \in 1 .. FrameEnd(F[i].r) : j \in 1 .. FrameEnd(f.r)  BY <3>3, <3>4, <1>9
    <3>6. \A j \in 1 .. FrameEnd(F[i].r) : st2[j] = st[j]  BY <3>5, <1>12
    <3>7. F[i].nest <= Len(ns2) /\ ns2[F[i].nest] = ns[F[i].nest]  BY <3>3, <3>4, <1>9, <1>12, SMTT(40)
    <3>8. Len(ns2) \in Nat /\ FrameEnd(F[i].r) <= Len(st2)  BY <3>3, <1>9, <1>12
    <3>9. G[i] = F[i] /\ ds2[i] = ds[i]  BY <1>4, <1>5
    <3> QED  BY <3>1, <3>2, <3>6, <3>7, <3>8, <3>9, <1>1, <1>4, FrameStays
  <2>2. Ordered(G)
    <3>1. \A i \in 1 .. n - 1 : i \in 1 .. n  BY <1>3
    <3> QED  BY <3>1, <1>4 DEF Frames, Ordered
  <2>3. G[Len(G)] = [r |-> f.r, base |-> f.base, nest |-> Len(ns2)]
    <3>1. G[Len(G)] = f  BY <1>3, <1>4, <1>8
    <3>2. f = [r |-> f.r, base |-> f.base, nest |-> f.nest]  BY <1>9 DEF Frame
    <3> QED  BY <3>1, <3>2, <1>12
  <2> QED  BY <2>1, <2>2, <2>3, <1>2, <1>4, <1>5, <1>12 DEF Frames
<1>13. \A st2 \in Seq(Word) : \A ns2 :
              /\ Len(st2) = FrameEnd(f.r) /\ \A i \in 1 .. FrameEnd(f.r) : st2[i] = st[i]
              /\ Len(ns2) = f.nest /\ \A i \in 1 .. f.nest : ns2[i] = ns[i]
              => Frames(G, st2, f.r, f.base, ns2, ds2)
  BY <1>12
<1>14. Len(ds2) = Len(ds) - 1 /\ ds2[Len(ds) - 1] = ds[Len(ds) - 1] /\ Len(ds) > 1  BY <1>1, <1>2, <1>3, <1>5
<1> QED  BY <1>1, <1>5, <1>8, <1>9, <1>10, <1>11, <1>13, <1>14 DEF G, ds2, PoppedTo

---------------------------------------------------------------------------
(* The invariant. *)

\* The C stack: main, and the jExecMethods that a nested one suspends.
NestOK(ns) ==
  /\ ns \in Seq(Saved)
  /\ \A i \in 1 .. Len(ns) : IF i = 1 THEN ns[i].at = "main" /\ ns[i].base = 0 ELSE ns[i].at # "main"

TypesOK ==
  /\ at \in {"main", "step", "search", "overrun", "wild", "beyond", "exit"}
  /\ regs \in Registers /\ base \in Nat /\ k \in Nat /\ todo \subseteq Method
  /\ exc \in Word /\ vmStack \in Seq(Word) /\ Len(vmStack) < StackSize
  /\ NestOK(nest)

FramesInv ==
  /\ TypesOK
  /\ at = "main" => vmStack = << >> /\ base = 0 /\ nest = << >> /\ depths = << >>
  /\ Running => \E F : Frames(F, vmStack, regs, base, nest, depths)
  /\ OverrunNeedsCatch

(* A word of a kind.                                                       *)
LEMMA Words ==
  /\ \A v \in Values : Value(v) \in Word
  /\ \A n \in Nat : <<"pc", n>> \in Word /\ <<"var", n>> \in Word /\ <<"stack", n>> \in Word
  /\ Junk \in Word /\ Zero \in Word
  /\ \A m \in Method : <<"method", m>> \in Word /\ <<"class", m>> \in Word
BY DEF Word, Kinds, Value, Junk, Zero

(* Words written on the stack.                                             *)
LEMMA Written ==
  ASSUME NEW st \in Seq(Word), NEW sp \in Nat, NEW ws \in Seq(Word)
  PROVE  /\ WithWords(st, sp, ws) \in Seq(Word) /\ Len(WithWords(st, sp, ws)) = Len(st)
         /\ \A i \in 1 .. Len(st) :
              WithWords(st, sp, ws)[i] = IF i \in sp + 1 .. sp + Len(ws) THEN ws[i - sp] ELSE st[i]
<1> DEFINE e(i) == IF i \in sp + 1 .. sp + Len(ws) THEN ws[i - sp] ELSE st[i]
<1>1. Len(st) \in Nat /\ Len(ws) \in Nat  OBVIOUS
<1>2. ASSUME NEW i \in 1 .. Len(st) PROVE e(i) \in Word
  <2>1. CASE i \in sp + 1 .. sp + Len(ws)
    <3>1. i - sp \in 1 .. Len(ws)  BY <2>1, <1>1
    <3> QED  BY <2>1, <3>1, ElementOfSeq
  <2>2. CASE i \notin sp + 1 .. sp + Len(ws)  BY <2>2, ElementOfSeq
  <2> QED  BY <2>1, <2>2
<1>3. WithWords(st, sp, ws) = [i \in 1 .. Len(st) |-> e(i)]  BY DEF WithWords
<1> HIDE DEF e
<1>4. [i \in 1 .. Len(st) |-> e(i)] \in Seq(Word) /\ Len([i \in 1 .. Len(st) |-> e(i)]) = Len(st)
  BY <1>1, <1>2
<1> QED  BY <1>3, <1>4 DEF e

(* What holds while a jExecMethod runs.                                    *)
LEMMA RunningFacts ==
  ASSUME FramesInv, Running
  PROVE  /\ regs \in Registers /\ base \in Nat /\ k \in Nat /\ exc \in Word /\ vmStack \in Seq(Word)
         /\ Len(vmStack) \in Nat /\ Len(nest) \in Nat
         /\ \E F : Frames(F, vmStack, regs, base, nest, depths)
         /\ InFrame(regs, depths[Len(depths)], vmStack) /\ Depth = depths[Len(depths)] /\ Depth \in Nat
         /\ Len(vmStack) = FrameEnd(regs) /\ base + 3 <= regs.var
         /\ Len(depths) \in Nat \ {0} /\ depths \in Seq(Nat)
         /\ regs.method \in Method /\ regs.var \in Nat /\ regs.stack \in Nat /\ regs.pc \in Nat
         /\ MaxLocals \in Nat /\ MaxStack \in Nat /\ LocalsEnd(regs) \in Nat /\ FrameEnd(regs) \in Nat
         /\ LocalsEnd(regs) = regs.var + MaxLocals /\ FrameEnd(regs) = LocalsEnd(regs) + MaxStack + 2
         /\ Limit = LocalsEnd(regs) + MaxStack
         /\ regs.stack \in LocalsEnd(regs) .. Limit /\ Depth <= regs.stack - LocalsEnd(regs)
         /\ Depth < regs.stack - LocalsEnd(regs) => Table # << >>
         /\ ~Code[regs.method].native
<1>1. regs \in Registers /\ base \in Nat /\ k \in Nat /\ exc \in Word /\ vmStack \in Seq(Word) /\ nest \in Seq(Saved)
  BY DEF FramesInv, TypesOK, NestOK
<1>2. PICK F : Frames(F, vmStack, regs, base, nest, depths)  BY DEF FramesInv
<1>3. Len(nest) \in Nat /\ Len(vmStack) \in Nat  BY <1>1
<1>4. /\ Len(F) \in Nat \ {0} /\ depths \in Seq(Nat) /\ Len(depths) = Len(F)
      /\ InFrame(regs, depths[Len(depths)], vmStack) /\ depths[Len(depths)] \in Nat
      /\ Len(vmStack) = FrameEnd(regs) /\ base + 3 <= regs.var
  BY <1>1, <1>2, <1>3, FrameFacts
<1>5. /\ regs.method \in Method /\ regs.var \in Nat /\ regs.stack \in Nat /\ regs.pc \in Nat
      /\ MaxLocals \in Nat /\ MaxStack \in Nat /\ LocalsEnd(regs) \in Nat /\ FrameEnd(regs) \in Nat
      /\ LocalsEnd(regs) = regs.var + MaxLocals /\ FrameEnd(regs) = LocalsEnd(regs) + MaxStack + 2
  BY <1>1, Sizes DEF MaxLocals, MaxStack
<1>6. Depth = depths[Len(depths)]  BY DEF Depth, Last
<1>7. Limit = LocalsEnd(regs) + MaxStack  BY <1>5 DEF Limit
<1>8. FrameEnd(regs) - 2 = Limit  BY <1>5, <1>7
<1>9. /\ regs.stack \in LocalsEnd(regs) .. Limit /\ Depth <= regs.stack - LocalsEnd(regs)
      /\ Depth < regs.stack - LocalsEnd(regs) => Table # << >>
      /\ ~Code[regs.method].native
  BY <1>4, <1>6, <1>8 DEF InFrame, Operands, Table
<1> QED  BY <1>1, <1>2, <1>3, <1>4, <1>5, <1>6, <1>7, <1>9

(* The extent of the running frame, in numbers.                            *)
LEMMA Extent ==
  ASSUME FramesInv, Running
  PROVE  /\ regs.var \in Nat /\ regs.stack \in Nat /\ LocalsEnd(regs) \in Nat /\ Limit \in Nat
         /\ FrameEnd(regs) = Limit + 2 /\ regs.var <= LocalsEnd(regs)
         /\ LocalsEnd(regs) <= regs.stack /\ regs.stack <= Limit
         /\ Len(vmStack) = Limit + 2 /\ Limit = LocalsEnd(regs) + MaxStack /\ MaxStack \in Nat
         /\ Operands(regs) = regs.stack - LocalsEnd(regs) /\ Operands(regs) \in Nat
         /\ Depth \in Nat /\ Depth <= Operands(regs)
<1>1. /\ regs.var \in Nat /\ regs.stack \in Nat /\ LocalsEnd(regs) \in Nat
      /\ MaxLocals \in Nat /\ MaxStack \in Nat
      /\ LocalsEnd(regs) = regs.var + MaxLocals /\ FrameEnd(regs) = LocalsEnd(regs) + MaxStack + 2
      /\ Limit = LocalsEnd(regs) + MaxStack
      /\ regs.stack \in LocalsEnd(regs) .. Limit
      /\ Depth \in Nat /\ Depth <= regs.stack - LocalsEnd(regs)
  BY RunningFacts
<1>2. Operands(regs) = regs.stack - LocalsEnd(regs)  BY DEF Operands
<1>3. /\ Limit \in Nat /\ FrameEnd(regs) = Limit + 2 /\ regs.var <= LocalsEnd(regs)
      /\ LocalsEnd(regs) <= regs.stack /\ regs.stack <= Limit
      /\ Operands(regs) \in Nat /\ Depth <= Operands(regs)
  BY ONLY <1>1, <1>2
<1>4. Len(vmStack) = FrameEnd(regs)  BY RunningFacts
<1> QED  BY <1>1, <1>2, <1>3, <1>4

(* An instruction that replaces operands keeps the frames, or overruns the *)
(* operand stack above what caught exceptions have left.                   *)
LEMMA PushKeeps ==
  ASSUME FramesInv, Running, UNCHANGED <<base, nest, todo>>, exc' \in Word, k' \in Nat,
         NEW pops \in Nat, NEW ws, ws \in Seq(Word), NEW pc \in Nat, NEW d \in Nat,
         Push(pops, ws, pc), depths' = [depths EXCEPT ![Len(depths)] = d],
         pops <= Operands(regs), d <= Operands(regs) - pops + Len(ws),
         d < Operands(regs) - pops + Len(ws) => Table # << >>,
         regs.stack - pops + Len(ws) > Limit => d < Operands(regs) - pops + Len(ws)
  PROVE  FramesInv'
<1>0. PICK w \in Nat : w = Len(ws)  OBVIOUS
<1> DEFINE sp == regs.stack - pops
           top == regs.stack - pops + w
<1>1. /\ regs \in Registers /\ base \in Nat /\ vmStack \in Seq(Word)
      /\ Len(vmStack) \in Nat /\ Len(nest) \in Nat
      /\ Len(vmStack) = FrameEnd(regs) /\ Len(depths) \in Nat \ {0} /\ depths \in Seq(Nat)
      /\ regs.var \in Nat /\ regs.stack \in Nat
      /\ MaxLocals \in Nat /\ MaxStack \in Nat /\ LocalsEnd(regs) \in Nat /\ FrameEnd(regs) \in Nat
      /\ LocalsEnd(regs) = regs.var + MaxLocals /\ FrameEnd(regs) = LocalsEnd(regs) + MaxStack + 2
      /\ Limit = LocalsEnd(regs) + MaxStack
      /\ regs.stack \in LocalsEnd(regs) .. Limit
  BY RunningFacts
<1>2. PICK F : Frames(F, vmStack, regs, base, nest, depths)  BY RunningFacts
<1>14. Operands(regs) = regs.stack - LocalsEnd(regs)  BY DEF Operands
<1>15. /\ regs.stack \in Nat /\ LocalsEnd(regs) \in Nat /\ Limit \in Nat /\ regs.var \in Nat
       /\ regs.stack >= LocalsEnd(regs) /\ regs.stack <= Limit /\ FrameEnd(regs) = Limit + 2 /\ LocalsEnd(regs) >= regs.var
  BY Extent
<1>16. w \in Nat /\ pops \in Nat /\ pops <= Operands(regs) /\ top = sp + w  BY <1>0
<1>3. Operands(regs) \in Nat  BY ONLY <1>14, <1>15
<1>4. sp \in Nat /\ sp >= LocalsEnd(regs) /\ top \in Nat /\ top >= LocalsEnd(regs) /\ top = sp + w
      /\ sp >= regs.var
  BY ONLY <1>14, <1>15, <1>16
<1> HIDE DEF sp, top
<1>5. /\ vmStack' = WithWords(vmStack, sp, ws)
      /\ regs' = [regs EXCEPT !.stack = top, !.pc = pc]
      /\ at' = IF regs'.stack > Limit THEN "overrun" ELSE "step"
  BY <1>0 DEF Push, sp, top
<1>6. /\ regs' \in Registers /\ regs'.method = regs.method /\ regs'.var = regs.var /\ regs'.stack = top
      /\ LocalsEnd(regs') = LocalsEnd(regs) /\ FrameEnd(regs') = FrameEnd(regs)
  <2>1. regs' = [method |-> regs.method, pc |-> pc, var |-> regs.var, stack |-> top]
    BY <1>1, <1>5 DEF Registers
  <2>2. regs.method \in Method /\ regs.var \in Nat /\ top \in Nat  BY <1>1, <1>4 DEF Registers
  <2>3. regs' \in Registers /\ regs'.method = regs.method /\ regs'.var = regs.var /\ regs'.stack = top
    BY <2>1, <2>2 DEF Registers
  <2> QED  BY <2>3 DEF LocalsEnd, FrameEnd
<1>7. /\ vmStack' \in Seq(Word) /\ Len(vmStack') = Len(vmStack)
      /\ \A i \in 1 .. Len(vmStack) : vmStack'[i] = IF i \in sp + 1 .. sp + w THEN ws[i - sp] ELSE vmStack[i]
  <2>1. vmStack \in Seq(Word)  BY <1>1
  <2>2. /\ WithWords(vmStack, sp, ws) \in Seq(Word) /\ Len(WithWords(vmStack, sp, ws)) = Len(vmStack)
        /\ \A i \in 1 .. Len(vmStack) :
              WithWords(vmStack, sp, ws)[i] = IF i \in sp + 1 .. sp + w THEN ws[i - sp] ELSE vmStack[i]
    BY <2>1, <1>0, <1>4, Written, SMTT(40)
  <2> QED  BY <2>2, <1>5
<1>8. TypesOK'
  BY <1>5, <1>6, <1>7 DEF FramesInv, TypesOK, NestOK
<1>9. OtherLast(depths', depths, d) /\ Len(depths') = Len(depths) /\ depths'[Len(depths)] = d
  <2>1. depths \in Seq(Nat) /\ Len(depths) > 0  BY <1>1
  <2>2. OtherLast(depths', depths, d)  BY <2>1, LastChanged
  <2> QED  BY <2>2, Zenon DEF OtherLast
<1>10. Operands(regs') = Operands(regs) - pops + w  
  <2>1. Operands(regs') = top - LocalsEnd(regs)  BY <1>6 DEF Operands
  <2>2. top = regs.stack - pops + w  BY DEF top
  <2> QED  BY ONLY <2>1, <2>2, <1>14, <1>15, <1>16
<1>17. d \in Nat  OBVIOUS
<1>11. OverrunNeedsCatch'
  <2>1. Leftovers' = Operands(regs') - d
    <3>1. Depth' = d  BY <1>9 DEF Depth, Last
    <3> QED  BY <3>1 DEF Leftovers, Operands
  <2>2. Table' = Table  BY <1>6 DEF Table
  <2>3. CASE at' = "overrun"
    <3>1. top > Limit  BY <2>3, <1>5, <1>6
    <3>2. d < Operands(regs')  BY <3>1, <1>0, <1>10 DEF top
    <3>3. Operands(regs') = top - LocalsEnd(regs)  BY <1>6 DEF Operands
    <3>4. Operands(regs') - d > 0  BY ONLY <3>2, <3>3, <1>4, <1>15, <1>17
    <3> QED  BY <2>1, <2>2, <3>2, <3>4, <1>0, <1>10 DEF OverrunNeedsCatch
  <2>4. CASE at' # "overrun"  BY <2>4 DEF OverrunNeedsCatch
  <2> QED  BY <2>3, <2>4
<1>18. Len(vmStack) \in Nat  BY <1>1
<1>12. ASSUME Running' PROVE \E G : Frames(G, vmStack', regs', base, nest, depths')
  <2>1. ~(top > Limit)  BY <1>5, <1>6, <1>12 DEF Running
  <2>2. top <= Limit /\ Limit = FrameEnd(regs) - 2  BY ONLY <2>1, <1>4, <1>15
  <2>3. ASSUME NEW i \in 1 .. Len(vmStack), i <= regs.var \/ i > FrameEnd(regs) - 2
        PROVE  vmStack'[i] = vmStack[i]
    <3>1. i \notin sp + 1 .. sp + w  
      <4>1. i \in Nat  OBVIOUS
      <4> QED  BY ONLY <4>1, <2>2, <2>3, <1>4, <1>15, <1>16
    <3> QED  BY <3>1, <1>7
  <2>4. regs'.stack \in LocalsEnd(regs) .. FrameEnd(regs) - 2  BY <2>2, <1>4, <1>6, <1>15
  <2>5. d <= Operands(regs') /\ (d < Operands(regs') => Code[regs.method].excTable # << >>)
    BY <1>0, <1>10 DEF Table
  <2>6. Len(nest) \in Nat /\ regs \in Registers /\ base \in Nat /\ vmStack \in Seq(Word)  BY <1>1
  <2>7. vmStack' \in Seq(Word) /\ Len(vmStack') = Len(vmStack)  BY <1>7
  <2> QED  BY ONLY <2>3, <2>4, <2>5, <2>6, <2>7, <1>2, <1>6, <1>9, <1>17, TopChanges
<1>13. at' # "main"  BY <1>5
<1> QED  BY <1>8, <1>11, <1>12, <1>13 DEF FramesInv

\* The words ws are returned to the frame whose registers are r.
ReturnOf(r, ws) ==
  /\ regs \in Registers /\ vmStack \in Seq(Word) /\ Len(vmStack) = FrameEnd(regs)
  /\ r \in Registers /\ regs.var = FrameEnd(r) + 3 /\ r = CallerRegs(SubSeq(vmStack, 1, regs.var))
  /\ ws \in Seq(Word) /\ ReturnTo(SubSeq(vmStack, 1, regs.var), ws)

(* What a return writes.                                                   *)
LEMMA Returned ==
  ASSUME NEW r, NEW ws, ReturnOf(r, ws)
  PROVE  /\ regs' \in Registers /\ regs'.method = r.method /\ regs'.var = r.var /\ regs'.pc = r.pc
         /\ regs'.stack = r.stack + Len(ws) /\ LocalsEnd(regs') = LocalsEnd(r) /\ FrameEnd(regs') = FrameEnd(r)
         /\ vmStack' \in Seq(Word) /\ Len(vmStack') = FrameEnd(r)
         /\ \A i \in 1 .. FrameEnd(r) :
              vmStack'[i] = IF i \in r.stack + 1 .. r.stack + Len(ws) THEN ws[i - r.stack] ELSE vmStack[i]
         /\ at' = IF r.stack + Len(ws) > FrameEnd(r) - 2 THEN "overrun" ELSE at
<1>1. /\ regs \in Registers /\ vmStack \in Seq(Word) /\ Len(vmStack) = FrameEnd(regs)
      /\ r \in Registers /\ regs.var = FrameEnd(r) + 3 /\ r = CallerRegs(SubSeq(vmStack, 1, regs.var))
      /\ ws \in Seq(Word) /\ ReturnTo(SubSeq(vmStack, 1, regs.var), ws)
  BY DEF ReturnOf
<1>2. PICK w \in Nat : w = Len(ws)  BY <1>1
<1>3. PICK rest : rest = SubSeq(vmStack, 1, regs.var)  OBVIOUS
<1>4. PICK st : st = PopSaved(rest)  OBVIOUS
<1>5. r.stack \in Nat /\ r.var \in Nat /\ FrameEnd(r) \in Nat /\ regs.var \in Nat  BY <1>1, Sizes
<1>6. st \in Seq(Word) /\ Len(st) = FrameEnd(r) /\ \A i \in 1 .. FrameEnd(r) : st[i] = vmStack[i]
  <2>1. PICK v \in Nat : v = regs.var  BY <1>5
  <2>2. v = FrameEnd(r) + 3 /\ v - 3 = FrameEnd(r) /\ \A i \in 1 .. FrameEnd(r) : i \in 1 .. v
    <3>1. v = FrameEnd(r) + 3  BY <1>1, <2>1
    <3> QED  BY ONLY <3>1, <1>5
  <2>3. v <= Len(vmStack)
    <3>1. regs.var + 2 <= FrameEnd(regs) /\ FrameEnd(regs) \in Nat  BY <1>1, Sizes
    <3>2. v <= FrameEnd(regs)  BY ONLY <3>1, <2>1
    <3> QED  BY <3>2, <1>1
  <2>4. rest \in Seq(Word) /\ Len(rest) = v /\ \A i \in 1 .. v : rest[i] = vmStack[i]
    BY <1>1, <1>3, <2>1, <2>3, Prefix
  <2>5. FrameEnd(r) \in Nat /\ FrameEnd(r) <= Len(rest)
    <3>1. FrameEnd(r) <= v  BY ONLY <2>2, <1>5
    <3> QED  BY <3>1, <1>5, <2>4
  <2>6. st = SubSeq(rest, 1, FrameEnd(r))  BY <1>4, <2>2, <2>4 DEF PopSaved
  <2>7. st \in Seq(Word) /\ Len(st) = FrameEnd(r) /\ \A i \in 1 .. FrameEnd(r) : st[i] = rest[i]
    <3>1. PICK e \in Nat : e = FrameEnd(r)  BY <1>5
    <3>2. e <= Len(rest) /\ st = SubSeq(rest, 1, e)  BY <2>5, <2>6, <3>1
    <3>3. st \in Seq(Word) /\ Len(st) = e /\ \A i \in 1 .. e : st[i] = rest[i]
      BY ONLY <3>2, <2>4, e \in Nat, Prefix
    <3> QED  BY ONLY <3>1, <3>3
  <2> QED  BY <2>2, <2>4, <2>7
<1>7. /\ vmStack' = WithWords(st, r.stack, ws) /\ regs' = [r EXCEPT !.stack = r.stack + w]
      /\ at' = IF regs'.stack > Len(vmStack') - 2 THEN "overrun" ELSE at
  BY <1>1, <1>2, <1>3, <1>4 DEF ReturnTo
<1>8. /\ regs' \in Registers /\ regs'.method = r.method /\ regs'.var = r.var /\ regs'.pc = r.pc
      /\ regs'.stack = r.stack + w
  <2>1. PICK q : q = [r EXCEPT !.stack = r.stack + w]  OBVIOUS
  <2>2. q = [method |-> r.method, pc |-> r.pc, var |-> r.var, stack |-> r.stack + w]
    BY ONLY <2>1, <1>1 DEF Registers
  <2>3. r.method \in Method /\ r.pc \in Nat /\ r.var \in Nat  BY ONLY <1>1 DEF Registers
  <2>4. r.stack + w \in Nat  BY ONLY <1>5, w \in Nat
  <2>5. q \in Registers /\ q.method = r.method /\ q.var = r.var /\ q.pc = r.pc /\ q.stack = r.stack + w
    BY ONLY <2>2, <2>3, <2>4 DEF Registers
  <2> QED  BY ONLY <1>7, <2>1, <2>5
<1>9. LocalsEnd(regs') = LocalsEnd(r) /\ FrameEnd(regs') = FrameEnd(r)  BY <1>8 DEF LocalsEnd, FrameEnd
<1>10. /\ vmStack' \in Seq(Word) /\ Len(vmStack') = FrameEnd(r)
       /\ \A i \in 1 .. FrameEnd(r) :
            vmStack'[i] = IF i \in r.stack + 1 .. r.stack + w THEN ws[i - r.stack] ELSE vmStack[i]
  <2>1. PICK sp \in Nat : sp = r.stack  BY <1>5
  <2>2. /\ WithWords(st, sp, ws) \in Seq(Word) /\ Len(WithWords(st, sp, ws)) = Len(st)
        /\ \A i \in 1 .. Len(st) :
             WithWords(st, sp, ws)[i] = IF i \in sp + 1 .. sp + Len(ws) THEN ws[i - sp] ELSE st[i]
    <3>1. st \in Seq(Word) /\ ws \in Seq(Word)  BY <1>1, <1>6
    <3> QED  BY ONLY <3>1, sp \in Nat, Written
  <2> QED  BY <2>1, <2>2, <1>2, <1>6, <1>7
<1>11. at' = IF r.stack + w > FrameEnd(r) - 2 THEN "overrun" ELSE at  BY <1>7, <1>8, <1>10
<1> QED  BY <1>2, <1>8, <1>9, <1>10, <1>11

(* A return to the frame before, with the words ws for it.                 *)
LEMMA ReturnKeeps ==
  ASSUME FramesInv, Running, regs.var # base + 3, UNCHANGED <<base, nest, todo>>, exc' \in Word, k' \in Nat,
         NEW ws, ws \in Seq(Word), NEW r, r = CallerRegs(SubSeq(vmStack, 1, regs.var)),
         NEW d \in Nat, d = depths[Len(depths) - 1] + Len(ws),
         ReturnTo(SubSeq(vmStack, 1, regs.var), ws),
         ws = << >> \/ d <= Code[r.method].maxStack,
         OtherLast(depths', Front(depths), d)
  PROVE  FramesInv'
<1>0. PICK w \in Nat : w = Len(ws)  OBVIOUS
<1> DEFINE ns == Len(nest)
           rest == SubSeq(vmStack, 1, regs.var)
           st == PopSaved(rest)
           f == Below([r |-> regs, base |-> base, nest |-> ns], vmStack, nest)
           sp == r.stack
           top == r.stack + w
<1>1. /\ regs \in Registers /\ base \in Nat /\ vmStack \in Seq(Word)
      /\ Len(vmStack) \in Nat /\ Len(nest) \in Nat
      /\ Len(vmStack) = FrameEnd(regs) /\ Len(depths) \in Nat \ {0} /\ depths \in Seq(Nat)
      /\ regs.var \in Nat
  BY RunningFacts
<1>2. PICK F : Frames(F, vmStack, regs, base, nest, depths)  BY RunningFacts
<1>3. Len(F) > 1 /\ Len(F) = Len(depths)
  <2>5. regs \in Registers /\ base \in Nat /\ vmStack \in Seq(Word) /\ Len(nest) \in Nat  BY <1>1
  <2>1. Len(F) \in Nat \ {0} /\ Len(F) = Len(depths)  BY ONLY <2>5, <1>2, FrameFacts
  <2>2. Len(F) # 1  BY <1>1, <1>2, OnlyFrame
  <2>3. PICK n \in Nat \ {0} : n = Len(F)  BY <2>1
  <2>4. n > 1  BY <2>2, <2>3
  <2> QED  BY <2>1, <2>3, <2>4
<1>4. f = [r |-> r, base |-> base, nest |-> ns]  BY DEF Below
<1>5. /\ r \in Registers /\ regs.var = FrameEnd(r) + 3
      /\ InFrame(r, depths[Len(depths) - 1], vmStack) /\ depths[Len(depths) - 1] \in Nat /\ Front(depths) \in Seq(Nat)
      /\ Len(Front(depths)) = Len(depths) - 1 /\ Front(depths)[Len(depths) - 1] = depths[Len(depths) - 1]
      /\ \A st2 \in Seq(Word) : \A ns2 :
              /\ Len(st2) = FrameEnd(r) /\ \A i \in 1 .. FrameEnd(r) : st2[i] = vmStack[i]
              /\ Len(ns2) = ns /\ \A i \in 1 .. ns : ns2[i] = nest[i]
              => Frames(Front(F), st2, r, base, ns2, Front(depths))
  <2>1. f.r = r /\ f.base = base /\ f.nest = ns  BY <1>4
  <2> HIDE DEF f
  <2>2. /\ f \in Frame /\ f.r \in Registers /\ f.base \in Nat /\ f.nest \in Nat
         /\ regs.var = FrameEnd(f.r) + 3 /\ f.nest <= Len(nest)
         /\ InFrame(f.r, depths[Len(depths) - 1], vmStack) /\ depths[Len(depths) - 1] \in Nat /\ Front(depths) \in Seq(Nat)
         /\ Len(Front(depths)) = Len(depths) - 1 /\ Front(depths)[Len(depths) - 1] = depths[Len(depths) - 1] /\ Len(depths) > 1
         /\ PoppedTo(f, F, vmStack, nest, depths)
    <3>1. /\ vmStack \in Seq(Word) /\ regs \in Registers /\ base \in Nat /\ Len(nest) \in Nat
          /\ Len(F) > 1 /\ f = Below([r |-> regs, base |-> base, nest |-> Len(nest)], vmStack, nest)
      BY <1>1, <1>3 DEF f
    <3> QED  BY ONLY <3>1, <1>2, FramePopped, SMTT(40)
  <2> QED  BY <2>1, <2>2 DEF PoppedTo
<1> HIDE DEF f
<1>6. /\ r.stack \in Nat /\ LocalsEnd(r) \in Nat /\ FrameEnd(r) \in Nat /\ r.var \in Nat /\ r.method \in Method
      /\ r.var <= LocalsEnd(r) /\ Code[r.method].maxStack \in Nat
      /\ FrameEnd(r) = LocalsEnd(r) + Code[r.method].maxStack + 2
  BY <1>5, Sizes
<1>8. PICK dn \in Nat : dn = depths[Len(depths) - 1]  BY <1>5
<1>7. /\ LocalsEnd(r) <= r.stack /\ r.stack <= FrameEnd(r) - 2
      /\ dn <= Operands(r) /\ (dn < Operands(r) => Code[r.method].excTable # << >>)
  <2>1. r.stack \in LocalsEnd(r) .. FrameEnd(r) - 2  BY <1>5 DEF InFrame
  <2>2. LocalsEnd(r) <= r.stack /\ r.stack <= FrameEnd(r) - 2  BY ONLY <2>1, <1>6
  <2> QED  BY <2>2, <1>5, <1>8 DEF InFrame
<1>9. d = dn + w  BY <1>0, <1>8
<1>25. /\ r.stack \in Nat /\ LocalsEnd(r) \in Nat /\ FrameEnd(r) \in Nat /\ r.var \in Nat
       /\ r.var <= LocalsEnd(r) /\ LocalsEnd(r) <= r.stack /\ r.stack <= FrameEnd(r) - 2
  BY <1>6, <1>7
<1>10. st \in Seq(Word) /\ Len(st) = FrameEnd(r) /\ \A i \in 1 .. FrameEnd(r) : st[i] = vmStack[i]
  <2>1. PICK v \in Nat : v = regs.var  BY <1>1
  <2>2. v = FrameEnd(r) + 3 /\ v - 3 = FrameEnd(r) /\ \A i \in 1 .. FrameEnd(r) : i \in 1 .. v
    <3>1. v = FrameEnd(r) + 3  BY <1>5, <2>1
    <3> QED  BY ONLY <3>1, <1>6
  <2>3. v <= Len(vmStack)
    <3>1. regs.var + 2 <= FrameEnd(regs) /\ FrameEnd(regs) \in Nat  BY <1>1, Sizes
    <3>2. v <= FrameEnd(regs)  BY ONLY <3>1, <2>1
    <3> QED  BY <3>2, <1>1
  <2>4. rest \in Seq(Word) /\ Len(rest) = v /\ \A i \in 1 .. v : rest[i] = vmStack[i]
    BY <1>1, <2>1, <2>3, Prefix
  <2> HIDE DEF rest
  <2>5. FrameEnd(r) \in Nat /\ FrameEnd(r) <= Len(rest)
    <3>1. FrameEnd(r) <= v  BY ONLY <2>2, <1>6
    <3> QED  BY <3>1, <1>6, <2>4
  <2>6. st = SubSeq(rest, 1, FrameEnd(r))  BY <2>2, <2>4 DEF PopSaved
  <2>7. st \in Seq(Word) /\ Len(st) = FrameEnd(r) /\ \A i \in 1 .. FrameEnd(r) : st[i] = rest[i]
    BY <2>4, <2>5, <2>6, Prefix, SMTT(40)
  <2> QED  BY <2>2, <2>4, <2>7
<1>11. Frames(Front(F), st, r, base, nest, Front(depths))
  <2>1. Len(nest) = ns /\ \A i \in 1 .. ns : nest[i] = nest[i]  OBVIOUS
  <2> HIDE DEF ns, st
  <2> QED  BY <1>5, <1>10, <2>1
<1> HIDE DEF rest, st
<1>12. ReturnOf(r, ws)  BY <1>1, <1>5 DEF ReturnOf
<1>13. /\ regs' \in Registers /\ regs'.method = r.method /\ regs'.var = r.var /\ regs'.stack = top
       /\ LocalsEnd(regs') = LocalsEnd(r) /\ FrameEnd(regs') = FrameEnd(r)
       /\ at' = IF regs'.stack > FrameEnd(r) - 2 THEN "overrun" ELSE at
  BY <1>0, <1>12, Returned
<1>14. /\ vmStack' \in Seq(Word) /\ Len(vmStack') = FrameEnd(r)
       /\ \A i \in 1 .. FrameEnd(r) : vmStack'[i] = IF i \in sp + 1 .. sp + w THEN ws[i - sp] ELSE st[i]
  <2>1. /\ vmStack' \in Seq(Word) /\ Len(vmStack') = FrameEnd(r)
        /\ \A i \in 1 .. FrameEnd(r) : vmStack'[i] = IF i \in sp + 1 .. sp + w THEN ws[i - sp] ELSE vmStack[i]
    BY <1>0, <1>12, Returned, SMTT(40)
  <2> QED  BY <2>1, <1>10
<1>15. OtherLast(depths', Front(depths), d)  OBVIOUS
<1>16. Operands(r) = r.stack - LocalsEnd(r) /\ Operands(regs') = (r.stack + w) - LocalsEnd(r)
  BY <1>13 DEF Operands
<1>17. PICK ms \in Nat : ms = Code[r.method].maxStack  BY <1>6
<1>18. FrameEnd(r) = LocalsEnd(r) + ms + 2 /\ (w = 0 \/ d <= ms)
  BY <1>0, <1>6, <1>17
<1>19. /\ d <= Operands(regs') /\ (d < Operands(regs') => dn < Operands(r))
       /\ r.stack + w > FrameEnd(r) - 2 => d < Operands(regs') /\ Operands(regs') - d > 0
  <2>1. dn <= Operands(r)  BY <1>7
  <2>2. r.stack <= FrameEnd(r) - 2  BY <1>7
  <2>3. dn \in Nat /\ w \in Nat /\ ms \in Nat  BY <1>0, <1>8, <1>17
  <2>4. FrameEnd(r) = LocalsEnd(r) + ms + 2 /\ (w = 0 \/ dn + w <= ms)  BY <1>9, <1>18
  <2>5. r.stack \in Nat /\ LocalsEnd(r) \in Nat  BY <1>6
  <2>6. Operands(r) = r.stack - LocalsEnd(r) /\ Operands(regs') = (r.stack + w) - LocalsEnd(r)
    BY <1>16
  <2>7. /\ dn + w <= Operands(regs') /\ (dn + w < Operands(regs') => dn < Operands(r))
        /\ r.stack + w > FrameEnd(r) - 2 => dn + w < Operands(regs') /\ Operands(regs') - (dn + w) > 0
    BY ONLY <2>1, <2>2, <2>3, <2>4, <2>5, <2>6
  <2> QED  BY <2>7, <1>9
<1>20. TypesOK'
  <2>1. Len(vmStack') < StackSize
    <3>1. Len(vmStack) < StackSize /\ StackSize \in Nat  BY FramesAssumption DEF FramesInv, TypesOK
    <3>2. regs.var + 2 <= FrameEnd(regs) /\ FrameEnd(regs) \in Nat /\ FrameEnd(regs) < StackSize /\ regs.var = FrameEnd(r) + 3
      BY <3>1, <1>1, <1>5, Sizes
    <3>3. FrameEnd(r) < StackSize  BY ONLY <3>1, <3>2, <1>6, SMTT(40)
    <3> QED  BY <3>3, <1>14
  <2>2. at' \in {"main", "step", "search", "overrun", "wild", "beyond", "exit"}  BY <1>13 DEF FramesInv, TypesOK
  <2> QED  BY <2>1, <2>2, <1>13, <1>14 DEF FramesInv, TypesOK, NestOK
<1>21. at' # "main"  BY <1>13 DEF Running
<1>22. at' = "overrun" => r.stack + w > FrameEnd(r) - 2
  <2>1. at # "overrun"  BY DEF Running
  <2> QED  BY <2>1, <1>13
<1>23. OverrunNeedsCatch'
  <2>1. Depth' = d  BY <1>5 DEF OtherLast, Depth, Last
  <2>2. Leftovers' = Operands(regs') - d  BY <2>1, <1>13 DEF Leftovers, Operands
  <2>3. Table' = Code[r.method].excTable  BY <1>13 DEF Table
  <2> QED  BY <2>2, <2>3, <1>7, <1>8, <1>19, <1>22 DEF OverrunNeedsCatch
<1>24. ASSUME Running' PROVE \E G : Frames(G, vmStack', regs', base, nest, depths')
  <2>1. ~(r.stack + w > FrameEnd(r) - 2)
    <3>1. ~(regs'.stack > FrameEnd(r) - 2)  BY <1>13, <1>24 DEF Running
    <3> QED  BY <3>1, <1>13
  <2>2. LocalsEnd(r) <= top /\ top <= FrameEnd(r) - 2 /\ top \in Nat  
    <3>1. w \in Nat  BY <1>0
    <3> QED  BY ONLY <2>1, <3>1, <1>25
  <2>3. regs'.stack \in LocalsEnd(r) .. FrameEnd(r) - 2
    <3>1. top \in LocalsEnd(r) .. FrameEnd(r) - 2  BY ONLY <2>2, <1>6
    <3> QED  BY <3>1, <1>13
  <2>4. \A i \in 1 .. FrameEnd(r) : i <= r.var \/ i > FrameEnd(r) - 2 => vmStack'[i] = st[i]
    <3>1. ASSUME NEW i \in 1 .. FrameEnd(r), i <= r.var \/ i > FrameEnd(r) - 2 PROVE i \notin sp + 1 .. sp + w
      <4>1. w \in Nat /\ i \in Nat  BY <1>0, <1>25
      <4> QED  BY ONLY <3>1, <4>1, <2>2, <1>25
    <3> QED  BY <3>1, <1>14
  <2>5. d < Operands(regs') => Code[r.method].excTable # << >>  BY <1>7, <1>19
  <2>6. Len(nest) \in Nat /\ base \in Nat /\ r \in Registers /\ d \in Nat  BY <1>1, <1>5
  <2>7. Len(vmStack') = Len(st) /\ \A i \in 1 .. Len(st) : i <= r.var \/ i > FrameEnd(r) - 2 => vmStack'[i] = st[i]
    BY <2>4, <1>10, <1>14
  <2> QED  BY ONLY <2>3, <2>5, <2>6, <2>7, <1>10, <1>11, <1>13, <1>14, <1>15, <1>19, TopChanges
<1> QED  BY <1>20, <1>21, <1>23, <1>24 DEF FramesInv

\* u is the a words of s with the b words of t on top, all of S.
IsJoin(S, u, s, a, t, b) ==
  /\ u \in Seq(S) /\ Len(u) = a + b
  /\ \A i \in 1 .. a : u[i] = s[i]
  /\ \A i \in 1 .. b : u[a + i] = t[i]

(* Words put on top of a stack.                                            *)
LEMMA Joined ==
  ASSUME NEW S, NEW s, s \in Seq(S), NEW t, t \in Seq(S)
  PROVE  IsJoin(S, s \o t, s, Len(s), t, Len(t))
<1>1. PICK a \in Nat : a = Len(s)  OBVIOUS
<1>2. PICK b \in Nat : b = Len(t)  OBVIOUS
<1>3. /\ s \o t \in Seq(S) /\ Len(s \o t) = Len(s) + Len(t)
      /\ \A i \in 1 .. a + b : (s \o t)[i] = IF i <= a THEN s[i] ELSE t[i - a]
  BY <1>1, <1>2, ConcatProperties
<1>4. /\ \A i \in 1 .. a : i \in 1 .. a + b /\ i <= a
      /\ \A i \in 1 .. b : a + i \in 1 .. a + b /\ ~(a + i <= a) /\ (a + i) - a = i
  <2>1. a \in Nat /\ b \in Nat  OBVIOUS
  <2> QED  BY ONLY <2>1
<1>5. \A i \in 1 .. a : (s \o t)[i] = s[i]  BY ONLY <1>3, <1>4
<1>6. \A i \in 1 .. b : (s \o t)[a + i] = t[i]
  <2> TAKE i \in 1 .. b
  <2>1. (s \o t)[a + i] = IF a + i <= a THEN s[a + i] ELSE t[(a + i) - a]  BY ONLY <1>3, <1>4
  <2> QED  BY ONLY <2>1, <1>4
<1> QED  BY <1>1, <1>2, <1>3, <1>5, <1>6 DEF IsJoin

(* The words of a frame between the saved registers and its method.        *)
LEMMA CellsOf ==
  ASSUME NEW m \in Method, NEW args, args \in Seq(Word), Len(args) <= Code[m].maxLocals
  PROVE  /\ Cells(m, args) \in Seq(Word) /\ Len(Cells(m, args)) = Code[m].maxLocals + Code[m].maxStack
         /\ \A j \in 1 .. Len(args) : Cells(m, args)[j] = args[j]
<1>1. PICK a \in Nat : a = Len(args)  OBVIOUS
<1>2. PICK l \in Nat : l = Code[m].maxLocals  BY FramesAssumption
<1>3. PICK x \in Nat : x = Code[m].maxStack  BY FramesAssumption
<1>4. a <= l  BY <1>1, <1>2
<1>5. PICK n \in Nat : n = l + x - a
  <2>1. l + x - a \in Nat  BY ONLY <1>4, <1>1, <1>2, <1>3, SMTT(40)
  <2> QED  BY <2>1
<1>6. a + n = l + x
  <2>1. a \in Nat /\ l \in Nat /\ x \in Nat /\ n = l + x - a  BY <1>5
  <2> QED  BY ONLY <2>1
<1>7. [i \in 1 .. n |-> Junk] \in Seq(Word) /\ Len([i \in 1 .. n |-> Junk]) = n  BY Words
<1>8. Cells(m, args) = args \o [i \in 1 .. n |-> Junk]  BY <1>1, <1>2, <1>3, <1>5 DEF Cells
<1>9. /\ Cells(m, args) \in Seq(Word) /\ Len(Cells(m, args)) = Len(args) + n
      /\ \A j \in 1 .. Len(args) : Cells(m, args)[j] = args[j]
  BY <1>7, <1>8, Joined DEF IsJoin
<1> QED  BY <1>1, <1>2, <1>3, <1>6, <1>9

(* L_METHOD_INVOKE lays out a frame on top of the stack.                   *)
LEMMA Started ==
  ASSUME NEW m \in Method, vmStack \in Seq(Word), NEW prefix, prefix \in Seq(Word), Len(prefix) = 3,
         NEW args, args \in Seq(Word), Len(args) <= Code[m].maxLocals, Start(m, prefix, args)
  PROVE  /\ regs' \in Registers /\ regs'.method = m /\ regs'.pc = 0 /\ regs'.var = Len(vmStack) + 3
         /\ regs'.stack = LocalsEnd(regs')
         /\ vmStack' \in Seq(Word) /\ Len(vmStack') = FrameEnd(regs')
         /\ FrameEnd(regs') = Len(vmStack) + 3 + Code[m].maxLocals + Code[m].maxStack + 2
         /\ \A i \in 1 .. Len(vmStack) : vmStack'[i] = vmStack[i]
         /\ \A i \in 1 .. 3 : vmStack'[Len(vmStack) + i] = prefix[i]
         /\ \A i \in 1 .. Len(args) : vmStack'[Len(vmStack) + 3 + i] = args[i]
         /\ vmStack'[FrameEnd(regs') - 1] = <<"method", m>> /\ vmStack'[FrameEnd(regs')] = <<"class", m>>
<1> DEFINE s1 == vmStack \o prefix
           s2 == s1 \o Cells(m, args)
           s3 == s2 \o Suffix(m)
<1>1. PICK n \in Nat : n = Len(vmStack)  OBVIOUS
<1>2. PICK l \in Nat : l = Code[m].maxLocals  BY FramesAssumption
<1>3. PICK x \in Nat : x = Code[m].maxStack  BY FramesAssumption
<1>4. /\ Cells(m, args) \in Seq(Word) /\ Len(Cells(m, args)) = l + x
      /\ \A j \in 1 .. Len(args) : Cells(m, args)[j] = args[j]
  BY <1>2, <1>3, CellsOf
<1>5. Suffix(m) \in Seq(Word) /\ Len(Suffix(m)) = 2 /\ Suffix(m)[1] = <<"method", m>> /\ Suffix(m)[2] = <<"class", m>>
  <2>1. <<"method", m>> \in Word /\ <<"class", m>> \in Word  BY Words
  <2> QED  BY <2>1 DEF Suffix
<1>6. /\ s1 \in Seq(Word) /\ Len(s1) = n + 3 /\ \A i \in 1 .. n : s1[i] = vmStack[i]
      /\ \A i \in 1 .. 3 : s1[n + i] = prefix[i]
  <2>1. vmStack \in Seq(Word) /\ prefix \in Seq(Word) /\ Len(vmStack) = n /\ Len(prefix) = 3  BY <1>1
  <2>2. IsJoin(Word, vmStack \o prefix, vmStack, Len(vmStack), prefix, Len(prefix))  BY <2>1, Joined
  <2>3. IsJoin(Word, s1, vmStack, n, prefix, 3)  BY <2>1, <2>2
  <2> QED  BY ONLY <2>3 DEF IsJoin
<1> HIDE DEF s1
<1>7. /\ s2 \in Seq(Word) /\ Len(s2) = n + 3 + (l + x) /\ \A i \in 1 .. n + 3 : s2[i] = s1[i]
      /\ \A i \in 1 .. l + x : s2[n + 3 + i] = Cells(m, args)[i]
  <2>1. s1 \in Seq(Word) /\ Cells(m, args) \in Seq(Word) /\ Len(s1) = n + 3 /\ Len(Cells(m, args)) = l + x  BY <1>4, <1>6
  <2>2. IsJoin(Word, s1 \o Cells(m, args), s1, Len(s1), Cells(m, args), Len(Cells(m, args)))  BY <2>1, Joined
  <2>3. IsJoin(Word, s2, s1, n + 3, Cells(m, args), l + x)  BY <2>1, <2>2
  <2> QED  BY ONLY <2>3 DEF IsJoin
<1> HIDE DEF s2
<1>8. PICK e \in Nat : e = n + 3 + (l + x)  OBVIOUS
<1>9. /\ s3 \in Seq(Word) /\ Len(s3) = e + 2 /\ \A i \in 1 .. e : s3[i] = s2[i]
      /\ \A i \in 1 .. 2 : s3[e + i] = Suffix(m)[i]
  <2>1. s2 \in Seq(Word) /\ Suffix(m) \in Seq(Word) /\ Len(s2) = e /\ Len(Suffix(m)) = 2  BY <1>5, <1>7, <1>8
  <2>2. IsJoin(Word, s2 \o Suffix(m), s2, Len(s2), Suffix(m), Len(Suffix(m)))  BY <2>1, Joined
  <2>3. IsJoin(Word, s3, s2, e, Suffix(m), 2)  BY <2>1, <2>2
  <2> QED  BY ONLY <2>3 DEF IsJoin
<1>10. vmStack' = s3  BY DEF Start, s1, s2
<1> HIDE DEF s3
<1>11. /\ \A i \in 1 .. n : i \in 1 .. n + 3 /\ i \in 1 .. e
       /\ \A i \in 1 .. 3 : n + i \in 1 .. n + 3 /\ n + i \in 1 .. e
  <2>1. n \in Nat /\ l \in Nat /\ x \in Nat /\ e = n + 3 + (l + x)  BY <1>8
  <2> QED  BY ONLY <2>1
<1>12. \A i \in 1 .. n : vmStack'[i] = vmStack[i]  BY ONLY <1>6, <1>7, <1>9, <1>10, <1>11
<1>13. \A i \in 1 .. 3 : vmStack'[n + i] = prefix[i]  BY ONLY <1>6, <1>7, <1>9, <1>10, <1>11
<1>14. regs' = [method |-> m, pc |-> 0, var |-> n + 3, stack |-> n + 3 + l]  BY <1>1, <1>2 DEF Start
<1>15. /\ regs' \in Registers /\ regs'.method = m /\ regs'.var = n + 3 /\ regs'.stack = n + 3 + l
  <2>1. n + 3 \in Nat /\ n + 3 + l \in Nat /\ 0 \in Nat  OBVIOUS
  <2> QED  BY <2>1, <1>14 DEF Registers
<1>16. LocalsEnd(regs') = n + 3 + l /\ FrameEnd(regs') = n + 3 + l + x + 2  BY <1>2, <1>3, <1>15 DEF LocalsEnd, FrameEnd
<1>17. e + 2 = n + 3 + l + x + 2 /\ e + 2 - 1 = e + 1
  <2>1. n \in Nat /\ l \in Nat /\ x \in Nat /\ e = n + 3 + (l + x)  BY <1>8
  <2> QED  BY ONLY <2>1
<1>18. FrameEnd(regs') = e + 2 /\ FrameEnd(regs') - 1 = e + 1  BY <1>16, <1>17
<1>19. vmStack'[FrameEnd(regs') - 1] = <<"method", m>> /\ vmStack'[FrameEnd(regs')] = <<"class", m>>
  <2>1. 1 \in 1 .. 2 /\ 2 \in 1 .. 2  OBVIOUS
  <2>2. s3[e + 1] = Suffix(m)[1] /\ s3[e + 2] = Suffix(m)[2]  BY ONLY <2>1, <1>9
  <2> QED  BY <2>2, <1>5, <1>10, <1>18
<1>20. vmStack' \in Seq(Word) /\ Len(vmStack') = FrameEnd(regs')  BY <1>9, <1>10, <1>18
<1>21. regs'.pc = 0  BY <1>14
<1>22. PICK q \in Nat : q = Len(args)  OBVIOUS
<1>23. \A i \in 1 .. q : i \in 1 .. l + x /\ n + 3 + i \in 1 .. e
  <2>1. n \in Nat /\ l \in Nat /\ x \in Nat /\ q \in Nat /\ q <= l /\ e = n + 3 + (l + x)  BY <1>2, <1>8, <1>22
  <2> QED  BY ONLY <2>1
<1>24. \A i \in 1 .. q : vmStack'[n + 3 + i] = args[i]
  <2>1. \A i \in 1 .. q : Cells(m, args)[i] = args[i]  BY <1>4, <1>22
  <2> QED  BY ONLY <2>1, <1>7, <1>9, <1>10, <1>23
<1> QED  BY <1>1, <1>2, <1>3, <1>12, <1>13, <1>15, <1>16, <1>19, <1>20, <1>21, <1>22, <1>24

---------------------------------------------------------------------------
(* Calls. *)

(* jExecMethod, called by main or in the middle of an instruction, starts  *)
(* a frame where the interrupted one ends, and keeps its registers.        *)
LEMMA EnterKeeps ==
  ASSUME FramesInv, at \in {"main", "step", "search"}, todo' \subseteq Method,
         NEW m \in Method, ~Code[m].native, FrameFits(m),
         NEW args, args \in Seq(Word), Len(args) <= Code[m].maxLocals, Enter(m, args)
  PROVE  FramesInv'
<1> DEFINE c == [regs |-> regs, base |-> base, at |-> at, exc |-> exc, k |-> k]
           prefix == <<Zero, Zero, Zero>>
<1>1. /\ regs \in Registers /\ base \in Nat /\ k \in Nat /\ exc \in Word /\ vmStack \in Seq(Word)
      /\ NestOK(nest) /\ nest \in Seq(Saved) /\ Len(vmStack) \in Nat
  BY DEF FramesInv, TypesOK, NestOK
<1>2. c \in Saved  BY <1>1 DEF Saved
<1>3. /\ regs' \in Registers /\ regs'.method = m /\ regs'.var = Len(vmStack) + 3
      /\ regs'.stack = LocalsEnd(regs')
      /\ vmStack' \in Seq(Word) /\ Len(vmStack') = FrameEnd(regs')
      /\ FrameEnd(regs') = Len(vmStack) + 3 + Code[m].maxLocals + Code[m].maxStack + 2
      /\ \A i \in 1 .. Len(vmStack) : vmStack'[i] = vmStack[i]
      /\ vmStack'[FrameEnd(regs') - 1] = <<"method", m>> /\ vmStack'[FrameEnd(regs')] = <<"class", m>>
  <2>1. prefix \in Seq(Word) /\ Len(prefix) = 3  BY Words
  <2>2. Start(m, prefix, args)  BY DEF Enter
  <2> HIDE DEF prefix
  <2> QED  BY <1>1, <2>1, <2>2, Started
<1>4. /\ base' = Len(vmStack) /\ at' = "step" /\ depths' = Append(depths, 0) /\ nest' = Append(nest, c)
      /\ exc' = exc /\ k' = k
  BY DEF Enter
<1>5. PICK n \in Nat : n = Len(nest)  BY <1>1
<1>6. c.regs = regs /\ c.base = base /\ c.at = at  OBVIOUS
<1> HIDE DEF c
<1>7. /\ nest' \in Seq(Saved) /\ Len(nest') = n + 1 /\ nest'[n + 1] = c
      /\ \A i \in 1 .. n : nest'[i] = nest[i]
  BY <1>1, <1>2, <1>4, <1>5, AppendProperties
<1>8. IF n = 0 THEN at = "main" /\ base = 0 /\ vmStack = << >> /\ depths = << >> ELSE Running
  <2>1. at = "main" => n = 0 /\ base = 0 /\ vmStack = << >> /\ depths = << >>  BY <1>5 DEF FramesInv
  <2>2. Running => n # 0
    <3>1. ASSUME Running PROVE n # 0
      <4>1. PICK F : Frames(F, vmStack, regs, base, nest, depths)  BY <3>1, RunningFacts
      <4>2. Len(nest) \in Nat  BY <1>5
      <4>3. Len(nest) >= 1  BY <1>1, <4>1, <4>2, OnlyFrame
      <4> QED  BY <4>3, <1>5
    <3> QED  BY <3>1
  <2> QED  BY <2>1, <2>2 DEF Running
<1>9. NestOK(nest')
  <2>1. ASSUME NEW i \in 1 .. n + 1
        PROVE  IF i = 1 THEN nest'[i].at = "main" /\ nest'[i].base = 0 ELSE nest'[i].at # "main"
    <3>1. i \in 1 .. n \/ i = n + 1  BY ONLY <2>1, <1>5
    <3>2. CASE i \in 1 .. n  BY <3>2, <1>1, <1>5, <1>7 DEF NestOK
    <3>3. CASE i = n + 1
      <4>1. i = 1 <=> n = 0  BY ONLY <3>3, <1>5
      <4> QED  BY <4>1, <3>3, <1>6, <1>7, <1>8 DEF Running
    <3> QED  BY <3>1, <3>2, <3>3
  <2> QED  BY <2>1, <1>7 DEF NestOK
<1>10. TypesOK'
  <2>1. Len(vmStack') < StackSize  BY <1>3 DEF FrameFits
  <2> QED  BY <2>1, <1>1, <1>3, <1>4, <1>9 DEF TypesOK
<1>11. OverrunNeedsCatch'  BY <1>4 DEF OverrunNeedsCatch
<1>12. CASE n = 0
  <2>1. PICK a \in Nat : a = Len(vmStack)  BY <1>1
  <2>2. a = 0  BY <2>1, <1>8, <1>12
  <2>3. Len(nest') = 1  BY <1>7, <1>12
  <2>4. regs'.var = 3
    <3>1. regs'.var = a + 3  BY <2>1, <1>3
    <3> QED  BY ONLY <3>1, <2>2
  <2>5. depths' = <<0>>  BY <1>4, <1>8, <1>12
  <2>6. base' = 0  BY <2>1, <2>2, <1>4
  <2>7. \E G : Frames(G, vmStack', regs', 0, nest', <<0>>)  BY <2>3, <2>4, <1>3, FirstFrame
  <2> QED  BY <2>5, <2>6, <2>7, <1>4, <1>10, <1>11 DEF FramesInv
<1>13. CASE n # 0
  <2>1. PICK F : Frames(F, vmStack, regs, base, nest, depths)  BY <1>8, <1>13, RunningFacts
  <2>2. PICK a \in Nat : a = Len(vmStack)  BY <1>1
  <2>3. regs'.var = a + 3 /\ base' = a  BY <2>2, <1>3, <1>4
  <2>4. n + 1 > 1 /\ n <= n + 1 /\ (n + 1) - 1 = n  BY ONLY <1>5, <1>13
  <2>5. Below([r |-> regs', base |-> base', nest |-> Len(nest')], vmStack', nest')
          = [r |-> regs, base |-> base, nest |-> Len(nest)]
    BY <2>3, <2>4, <1>5, <1>6, <1>7 DEF Below
  <2>6. /\ Len(nest) \in Nat /\ Len(nest') \in Nat /\ Len(nest) <= Len(nest') /\ Len(nest') > 1
        /\ \A i \in 1 .. Len(nest) : nest'[i] = nest[i]
    BY <2>4, <1>5, <1>7
  <2>7. base' \in Nat /\ base' <= Len(vmStack)  BY <2>2, <2>3
  <2>9. ~Code[regs'.method].native  BY <1>3
  <2>8. \E G : Frames(G, vmStack', regs', base', nest', Append(depths, 0))
    <3>1. vmStack \in Seq(Word) /\ regs \in Registers /\ base \in Nat  BY <1>1
    <3>2. /\ vmStack' \in Seq(Word) /\ regs' \in Registers /\ base' \in Nat
          /\ regs'.var = Len(vmStack) + 3 /\ regs'.stack = LocalsEnd(regs') /\ Len(vmStack') = FrameEnd(regs')
          /\ \A i \in 1 .. Len(vmStack) : vmStack'[i] = vmStack[i]
          /\ vmStack'[FrameEnd(regs') - 1] = <<"method", regs'.method>>
          /\ vmStack'[FrameEnd(regs')] = <<"class", regs'.method>>
      BY <1>3, <2>7
    <3>3. PushedOn(vmStack, regs, base, nest, vmStack', regs', base', nest')
      BY <2>5, <2>6, <2>7, <2>9, <3>2, SMTT(40) DEF PushedOn
    <3> QED  BY <2>1, <2>6, <3>1, <3>3, FramePushed
  <2> QED  BY <2>8, <1>4, <1>10, <1>11 DEF FramesInv
<1> QED  BY <1>12, <1>13

\* An invoke of bytecode method m, and the registers its return goes back to.
Calling(m) ==
  /\ ~Code[m].native /\ FrameFits(m) /\ Code[m].paramsCount <= Depth
  /\ Start(m, SavedRegs(Code[m].paramsCount),
           SubSeq(vmStack, regs.stack - Code[m].paramsCount + 1, regs.stack))
  /\ UNCHANGED <<base, nest>>
CallerAfter(n) == [method |-> regs.method, pc |-> NextPc, var |-> regs.var, stack |-> regs.stack - n]

(* It lays out a frame whose locals begin with the arguments and whose     *)
(* saved registers lead back to the instruction after it.                  *)
LEMMA Invoked ==
  ASSUME FramesInv, Running, NEW m \in Method, Calling(m), NEW n \in Nat, n = Code[m].paramsCount
  PROVE  /\ regs.stack - n \in Nat /\ CallerAfter(n) \in Registers
         /\ Below([r |-> regs', base |-> base, nest |-> Len(nest)], vmStack', nest)
              = [r |-> CallerAfter(n), base |-> base, nest |-> Len(nest)]
         /\ regs' \in Registers /\ regs'.method = m /\ regs'.pc = 0 /\ regs'.var = Len(vmStack) + 3
         /\ regs'.var # base + 3 /\ regs'.stack = LocalsEnd(regs')
         /\ vmStack' \in Seq(Word) /\ Len(vmStack') = FrameEnd(regs')
         /\ FrameEnd(regs') = Len(vmStack) + 3 + Code[m].maxLocals + Code[m].maxStack + 2
         /\ \A i \in 1 .. Len(vmStack) : vmStack'[i] = vmStack[i]
         /\ \A i \in 1 .. n : vmStack'[regs'.var + i] = vmStack[(regs.stack - n) + i]
         /\ vmStack'[FrameEnd(regs') - 1] = <<"method", m>> /\ vmStack'[FrameEnd(regs')] = <<"class", m>>
<1>1. /\ regs \in Registers /\ base \in Nat /\ vmStack \in Seq(Word) /\ Len(nest) \in Nat
      /\ Len(vmStack) = FrameEnd(regs) /\ base + 3 <= regs.var
      /\ regs.method \in Method /\ regs.pc \in Nat
  BY RunningFacts
<1>2. ~Code[m].native /\ FrameFits(m) /\ n <= Depth /\ base' = base /\ nest' = nest  BY DEF Calling
<1>3. n \in Nat /\ n = Code[m].paramsCount /\ n <= Code[m].maxLocals  BY <1>2, FramesAssumption
<1>4. /\ regs.var \in Nat /\ regs.stack \in Nat /\ LocalsEnd(regs) \in Nat /\ Limit \in Nat
      /\ FrameEnd(regs) = Limit + 2 /\ regs.var <= LocalsEnd(regs)
      /\ LocalsEnd(regs) <= regs.stack /\ regs.stack <= Limit
      /\ Operands(regs) = regs.stack - LocalsEnd(regs)
      /\ Depth \in Nat /\ Depth <= Operands(regs)
  BY Extent
<1>5. PICK a \in Nat : a = Len(vmStack)  BY <1>1
<1>6. a = Limit + 2 /\ n <= Depth  BY <1>1, <1>2, <1>4, <1>5
<1>7. PICK sp \in Nat : sp = regs.stack - n
  <2>1. regs.stack - n \in Nat  BY ONLY <1>3, <1>4, <1>6
  <2> QED  BY <2>1
<1> DEFINE r == CallerAfter(n)
           prefix == <<<<"pc", NextPc>>, <<"var", regs.var>>, <<"stack", sp>>>>
           args == SubSeq(vmStack, regs.stack - n + 1, regs.stack)
<1>8. r = [method |-> regs.method, pc |-> NextPc, var |-> regs.var, stack |-> sp]  BY <1>7 DEF CallerAfter
<1>9. NextPc \in Nat
  <2>1. regs.pc \in Nat  BY <1>1
  <2> QED  BY ONLY <2>1 DEF NextPc
<1>10. r \in Registers  BY <1>1, <1>4, <1>7, <1>8, <1>9 DEF Registers
<1>11. Start(m, prefix, args)  BY <1>3, <1>7 DEF Calling, SavedRegs
<1>12. prefix \in Seq(Word) /\ Len(prefix) = 3
  <2>1. <<"pc", NextPc>> \in Word /\ <<"var", regs.var>> \in Word /\ <<"stack", sp>> \in Word
    BY <1>4, <1>9, Words
  <2> QED  BY ONLY <2>1
<1>13. args \in Seq(Word) /\ Len(args) = n /\ \A i \in 1 .. n : args[i] = vmStack[sp + i]
  <2>1. /\ regs.stack - n + 1 = sp + 1 /\ sp + 1 \in Int /\ regs.stack \in Int /\ regs.stack <= a
        /\ \A i \in sp + 1 .. regs.stack : i \in 1 .. a
        /\ regs.stack - (sp + 1) + 1 = n /\ \A i \in 1 .. n : (sp + 1) + i - 1 = sp + i
        /\ (~(sp + 1 <= regs.stack) => n = 0)
    BY ONLY <1>3, <1>4, <1>5, <1>6, <1>7
  <2>2. \A i \in sp + 1 .. regs.stack : vmStack[i] \in Word  BY <2>1, <1>1, <1>5, ElementOfSeq
  <2>3. args = SubSeq(vmStack, sp + 1, regs.stack)  BY <2>1
  <2>4. /\ SubSeq(vmStack, sp + 1, regs.stack) \in Seq(Word)
        /\ Len(SubSeq(vmStack, sp + 1, regs.stack))
             = IF sp + 1 <= regs.stack THEN regs.stack - (sp + 1) + 1 ELSE 0
        /\ \A i \in 1 .. regs.stack - (sp + 1) + 1 :
             SubSeq(vmStack, sp + 1, regs.stack)[i] = vmStack[(sp + 1) + i - 1]
    BY ONLY <2>1, <2>2, SubSeqProperties
  <2> HIDE DEF args
  <2> QED  BY ONLY <2>1, <2>3, <2>4
<1> HIDE DEF args, prefix, r
<1>14. /\ regs' \in Registers /\ regs'.method = m /\ regs'.pc = 0 /\ regs'.var = Len(vmStack) + 3
       /\ regs'.stack = LocalsEnd(regs')
       /\ vmStack' \in Seq(Word) /\ Len(vmStack') = FrameEnd(regs')
       /\ FrameEnd(regs') = Len(vmStack) + 3 + Code[m].maxLocals + Code[m].maxStack + 2
       /\ \A i \in 1 .. Len(vmStack) : vmStack'[i] = vmStack[i]
       /\ \A i \in 1 .. 3 : vmStack'[Len(vmStack) + i] = prefix[i]
       /\ \A i \in 1 .. Len(args) : vmStack'[Len(vmStack) + 3 + i] = args[i]
       /\ vmStack'[FrameEnd(regs') - 1] = <<"method", m>> /\ vmStack'[FrameEnd(regs')] = <<"class", m>>
  BY <1>1, <1>3, <1>11, <1>12, <1>13, Started
<1>15. vmStack'[a + 1] = <<"pc", NextPc>> /\ vmStack'[a + 2] = <<"var", regs.var>> /\ vmStack'[a + 3] = <<"stack", sp>>
  <2>1. 1 \in 1 .. 3 /\ 2 \in 1 .. 3 /\ 3 \in 1 .. 3  OBVIOUS
  <2>2. /\ vmStack'[Len(vmStack) + 1] = prefix[1] /\ vmStack'[Len(vmStack) + 2] = prefix[2]
        /\ vmStack'[Len(vmStack) + 3] = prefix[3]
    BY ONLY <2>1, <1>14
  <2> QED  BY <2>2, <1>5 DEF prefix
<1>16. vmStack'[a - 1] = <<"method", regs.method>> /\ a - 1 \in Nat
  <2>1. InFrame(regs, depths[Len(depths)], vmStack)  BY RunningFacts
  <2>2. vmStack[a - 1] = <<"method", regs.method>>  BY <2>1, <1>1, <1>5 DEF InFrame
  <2>3. a - 1 \in 1 .. a  BY ONLY <1>4, <1>5, <1>6
  <2> QED  BY <2>2, <2>3, <1>5, <1>14
<1>17. Below([r |-> regs', base |-> base, nest |-> Len(nest)], vmStack', nest) = [r |-> r, base |-> base, nest |-> Len(nest)]
  <2>1. PICK v \in Nat : v = a + 3  OBVIOUS
  <2>2. v - 1 = a + 2 /\ v - 2 = a + 1 /\ v - 4 = a - 1 /\ v # base + 3 /\ v >= 5
    BY ONLY <2>1, <1>1, <1>4, <1>5, <1>6, SMTT(40)
  <2>3. v <= Len(vmStack')
    <3>1. regs'.var + 2 <= FrameEnd(regs')  BY <1>14, Sizes
    <3>2. regs'.var = v /\ FrameEnd(regs') \in Nat  BY <2>1, <1>5, <1>14, Sizes
    <3>3. v <= FrameEnd(regs')  BY ONLY <2>1, <3>1, <3>2
    <3> QED  BY <3>3, <1>14
  <2>4. CallerRegs(SubSeq(vmStack', 1, v))
          = [stack |-> vmStack'[v][2], var |-> vmStack'[v - 1][2], pc |-> vmStack'[v - 2][2], method |-> vmStack'[v - 4][2]]
    <3>1. v \in 5 .. Len(vmStack')  BY <2>2, <2>3, <1>14
    <3> QED  BY <3>1, <1>14, CallerAt
  <2>5. CallerRegs(SubSeq(vmStack', 1, v)) = r
    <3>1. /\ vmStack'[v] = <<"stack", sp>> /\ vmStack'[v - 1] = <<"var", regs.var>>
          /\ vmStack'[v - 2] = <<"pc", NextPc>> /\ vmStack'[v - 4] = <<"method", regs.method>>
      BY ONLY <2>1, <2>2, <1>15, <1>16
    <3>2. /\ vmStack'[v][2] = sp /\ vmStack'[v - 1][2] = regs.var
          /\ vmStack'[v - 2][2] = NextPc /\ vmStack'[v - 4][2] = regs.method
      BY ONLY <3>1
    <3> QED  BY ONLY <2>4, <3>2, <1>8
  <2>6. regs'.var = v /\ regs'.var # base + 3  BY <2>1, <2>2, <1>5, <1>14
  <2> QED  BY <2>5, <2>6 DEF Below
<1>18. regs'.var # base + 3
  <2>1. base \in Nat /\ base + 3 <= regs.var /\ regs'.var = a + 3  BY <1>1, <1>5, <1>14
  <2> QED  BY ONLY <2>1, <1>4, <1>5, <1>6
<1>19. \A i \in 1 .. n : vmStack'[regs'.var + i] = vmStack[(regs.stack - n) + i]
  <2>1. \A i \in 1 .. n : vmStack'[Len(vmStack) + 3 + i] = args[i]  BY <1>13, <1>14
  <2> QED  BY <2>1, <1>7, <1>13, <1>14
<1>20. regs.stack - n \in Nat  BY <1>7
<1> QED  BY <1>10, <1>14, <1>17, <1>18, <1>19, <1>20 DEF r

(* invoke keeps the frames.                                                *)
LEMMA InvokeKeeps ==
  ASSUME FramesInv, Running, UNCHANGED <<at, exc, k, todo>>, NEW m \in Method, Calling(m),
         depths' = Append([depths EXCEPT ![Len(depths)] = @ - Code[m].paramsCount], 0)
  PROVE  FramesInv'
<1>1. /\ regs \in Registers /\ base \in Nat /\ vmStack \in Seq(Word) /\ Len(nest) \in Nat
      /\ Len(depths) \in Nat \ {0} /\ depths \in Seq(Nat) /\ Depth = depths[Len(depths)]
      /\ Len(vmStack) = FrameEnd(regs) /\ base + 3 <= regs.var
      /\ regs.method \in Method /\ regs.pc \in Nat
  BY RunningFacts
<1>2. PICK F : Frames(F, vmStack, regs, base, nest, depths)  BY RunningFacts
<1>3. PICK n \in Nat : n = Code[m].paramsCount  BY FramesAssumption
<1>4. /\ regs.var \in Nat /\ regs.stack \in Nat /\ LocalsEnd(regs) \in Nat /\ Limit \in Nat
      /\ FrameEnd(regs) = Limit + 2 /\ regs.var <= LocalsEnd(regs)
      /\ LocalsEnd(regs) <= regs.stack /\ regs.stack <= Limit
      /\ Operands(regs) = regs.stack - LocalsEnd(regs)
      /\ Depth \in Nat /\ Depth <= Operands(regs)
  BY Extent
<1>5. PICK a \in Nat : a = Len(vmStack)  BY <1>1
<1>6. a = Limit + 2 /\ n <= Depth  BY <1>1, <1>3, <1>4, <1>5 DEF Calling
<1>7. PICK sp \in Nat : sp = regs.stack - n
  <2>1. regs.stack - n \in Nat  BY ONLY <1>3, <1>4, <1>6
  <2> QED  BY <2>1
<1>8. PICK d \in Nat : d = Depth - n
  <2>1. Depth - n \in Nat  BY ONLY <1>3, <1>4, <1>6
  <2> QED  BY <2>1
<1> DEFINE r == CallerAfter(n)
           ds == [depths EXCEPT ![Len(depths)] = d]
<1>9. /\ base' = base /\ nest' = nest /\ ~Code[m].native /\ FrameFits(m)  BY DEF Calling
<1>10. /\ r \in Registers /\ r.method = regs.method /\ r.var = regs.var /\ r.stack = sp
       /\ LocalsEnd(r) = LocalsEnd(regs) /\ FrameEnd(r) = FrameEnd(regs)
       /\ Operands(r) = sp - LocalsEnd(regs)
  <2>1. r \in Registers  BY <1>3, Invoked
  <2>2. r.method = regs.method /\ r.var = regs.var /\ r.stack = sp  BY <1>7 DEF CallerAfter
  <2> HIDE DEF r
  <2> QED  BY <2>1, <2>2 DEF LocalsEnd, FrameEnd, Operands
<1>11. OtherLast(ds, depths, d)
  <2>1. depths \in Seq(Nat) /\ Len(depths) > 0  BY <1>1
  <2> QED  BY <2>1, LastChanged
<1>12. depths' = Append(ds, 0)  BY <1>1, <1>3, <1>8
<1> HIDE DEF r, ds
<1>13. \E G : Frames(G, vmStack, r, base, nest, ds)
  <2>1. /\ LocalsEnd(regs) <= sp /\ sp <= FrameEnd(regs) - 2
        /\ d <= sp - LocalsEnd(regs) /\ (d < sp - LocalsEnd(regs) => Depth < Operands(regs))
    BY ONLY <1>3, <1>4, <1>6, <1>7, <1>8
  <2>2. r.stack \in LocalsEnd(regs) .. FrameEnd(regs) - 2
    <3>1. sp \in LocalsEnd(regs) .. FrameEnd(regs) - 2  BY ONLY <2>1, <1>4, <1>7
    <3> QED  BY <3>1, <1>10
  <2>3. d <= Operands(r) /\ (d < Operands(r) => Code[regs.method].excTable # << >>)
    <3>1. Depth < Operands(regs) => Table # << >>  BY <1>4, RunningFacts
    <3> QED  BY <2>1, <3>1, <1>10 DEF Table
  <2>4. \A i \in 1 .. Len(vmStack) : i <= regs.var \/ i > FrameEnd(regs) - 2 => vmStack[i] = vmStack[i]  OBVIOUS
  <2>5. Len(vmStack) = Len(vmStack) /\ d \in Nat  OBVIOUS
  <2>6. regs \in Registers /\ base \in Nat /\ vmStack \in Seq(Word) /\ Len(nest) \in Nat  BY <1>1
  <2>7. r \in Registers /\ r.method = regs.method /\ r.var = regs.var  BY <1>10
  <2> QED  BY ONLY <2>2, <2>3, <2>4, <2>5, <2>6, <2>7, <1>2, <1>11, TopChanges
<1>14. /\ regs' \in Registers /\ regs'.method = m /\ regs'.var = Len(vmStack) + 3
       /\ regs'.var # base + 3 /\ regs'.stack = LocalsEnd(regs')
       /\ vmStack' \in Seq(Word) /\ Len(vmStack') = FrameEnd(regs')
       /\ FrameEnd(regs') = Len(vmStack) + 3 + Code[m].maxLocals + Code[m].maxStack + 2
       /\ \A i \in 1 .. Len(vmStack) : vmStack'[i] = vmStack[i]
       /\ vmStack'[FrameEnd(regs') - 1] = <<"method", m>> /\ vmStack'[FrameEnd(regs')] = <<"class", m>>
       /\ Below([r |-> regs', base |-> base, nest |-> Len(nest)], vmStack', nest)
            = [r |-> r, base |-> base, nest |-> Len(nest)]
  BY <1>3, Invoked DEF r
<1>18. \E G : Frames(G, vmStack', regs', base, nest, depths')
  <2>1. PICK G : Frames(G, vmStack, r, base, nest, ds)  BY <1>13
  <2>2. /\ vmStack \in Seq(Word) /\ r \in Registers /\ base \in Nat /\ Len(nest) \in Nat
        /\ Len(nest) <= Len(nest) /\ \A i \in 1 .. Len(nest) : nest[i] = nest[i]
    BY <1>1, <1>10
  <2>3. /\ vmStack' \in Seq(Word) /\ regs' \in Registers
        /\ regs'.var = Len(vmStack) + 3 /\ regs'.stack = LocalsEnd(regs') /\ Len(vmStack') = FrameEnd(regs')
        /\ \A i \in 1 .. Len(vmStack) : vmStack'[i] = vmStack[i]
        /\ vmStack'[FrameEnd(regs') - 1] = <<"method", regs'.method>>
        /\ vmStack'[FrameEnd(regs')] = <<"class", regs'.method>>
        /\ ~Code[regs'.method].native
    BY <1>9, <1>14
  <2>4. base <= Len(vmStack) /\ (regs'.var = base + 3 => Len(nest) > 1)
    <3>1. base \in Nat /\ base + 3 <= regs.var  BY <1>1
    <3>2. base <= a  BY ONLY <3>1, <1>4, <1>5, <1>6
    <3> QED  BY <3>2, <1>5, <1>14
  <2>5. \E H : Frames(H, vmStack', regs', base, nest, Append(ds, 0))
    <3>1. PushedOn(vmStack, r, base, nest, vmStack', regs', base, nest)
      BY <2>2, <2>3, <2>4, <1>14 DEF PushedOn
    <3> QED  BY <2>1, <2>2, <3>1, FramePushed, SMTT(40)
  <2> QED  BY <2>5, <1>9, <1>12
<1>19. TypesOK'
  <2>1. Len(vmStack') < StackSize  BY <1>9, <1>14 DEF FrameFits
  <2> QED  BY <2>1, <1>9, <1>14 DEF FramesInv, TypesOK, NestOK
<1>20. at' = at /\ at' # "main" /\ at' # "overrun"  BY DEF Running
<1> QED  BY <1>9, <1>18, <1>19, <1>20 DEF FramesInv, OverrunNeedsCatch

(* The running jExecMethod ends: its caller has the registers it had.      *)
LEMMA LeaveKeeps ==
  ASSUME FramesInv, Running, regs.var = base + 3, Leave, depths' = Front(depths), UNCHANGED todo
  PROVE  FramesInv'
<1> DEFINE n == Len(nest)
           c == nest[n]
           f == Below([r |-> regs, base |-> base, nest |-> n], vmStack, nest)
<1>1. /\ regs \in Registers /\ base \in Nat /\ vmStack \in Seq(Word) /\ n \in Nat
      /\ Len(depths) \in Nat \ {0} /\ depths \in Seq(Nat) /\ Len(vmStack) = FrameEnd(regs)
  BY RunningFacts
<1>2. PICK F : Frames(F, vmStack, regs, base, nest, depths)  BY RunningFacts
<1>3. n >= 1 /\ (Len(F) = 1 => n = 1 /\ base = 0) /\ (Len(F) > 1 => n > 1)
  BY <1>1, <1>2, OnlyFrame
<1>4. Len(F) \in Nat \ {0} /\ Len(F) = Len(depths)  BY <1>1, <1>2, FrameFacts
<1>5. NestOK(nest) /\ nest \in Seq(Saved)  BY DEF FramesInv, TypesOK, NestOK
<1>6. /\ vmStack' = SubSeq(vmStack, 1, base)
      /\ regs' = c.regs /\ base' = c.base /\ at' = c.at /\ exc' = c.exc /\ k' = c.k
      /\ nest' = Front(nest)
  BY DEF Leave, Last
<1>7. n \in 1 .. n  BY <1>1, <1>3
<1>8. c \in Saved  BY <1>5, <1>7, ElementOfSeq
<1>9. /\ regs' \in Registers /\ base' \in Nat /\ at' \in {"main", "step", "search"} /\ exc' \in Word /\ k' \in Nat
  <2> HIDE DEF c
  <2> QED  BY <1>6, <1>8 DEF Saved
<1>10. nest' \in Seq(Saved) /\ Len(nest') = n - 1 /\ \A i \in 1 .. n - 1 : nest'[i] = nest[i]
  <2>1. n > 0  BY <1>1, <1>3
  <2> QED  BY <2>1, <1>5, <1>6, FrontOf
<1>11. NestOK(nest')
  <2>1. \A i \in 1 .. n - 1 : i \in 1 .. n  BY <1>1
  <2> QED  BY <2>1, <1>5, <1>10 DEF NestOK
<1>12. base + 5 <= FrameEnd(regs) /\ base <= Len(vmStack)
  <2>1. regs.var + 2 <= FrameEnd(regs) /\ FrameEnd(regs) \in Nat  BY <1>1, Sizes
  <2>2. regs.var = base + 3  OBVIOUS
  <2>3. base + 5 <= FrameEnd(regs) /\ base <= FrameEnd(regs)
    <3>1. base \in Nat  BY <1>1
    <3> QED  BY ONLY <2>1, <2>2, <3>1
  <2> QED  BY <2>3, <1>1
<1>13. vmStack' \in Seq(Word) /\ Len(vmStack') = base /\ \A i \in 1 .. base : vmStack'[i] = vmStack[i]
  BY <1>1, <1>6, <1>12, Prefix
<1>14. TypesOK'
  <2>1. Len(vmStack) < StackSize /\ StackSize \in Nat  BY FramesAssumption DEF FramesInv, TypesOK
  <2>2. Len(vmStack') < StackSize  BY <2>1, <1>1, <1>12, <1>13
  <2> QED  BY <2>2, <1>9, <1>11, <1>13 DEF FramesInv, TypesOK
<1>15. OverrunNeedsCatch'  BY <1>9 DEF OverrunNeedsCatch
<1> HIDE DEF n, c, f
<1>16. CASE Len(F) = 1
  <2>1. n = 1 /\ base = 0  BY <1>3, <1>16
  <2>2. at' = "main" /\ base' = 0  BY <2>1, <1>5, <1>6, <1>7 DEF NestOK, n, c
  <2>3. vmStack' = << >>  BY <2>1, <1>13
  <2>4. nest' = << >>  BY <2>1, <1>10
  <2>5. depths' = << >>
    <3>1. Len(depths) = 1  BY <1>4, <1>16
    <3>2. depths' \in Seq(Nat) /\ Len(depths') = 0
      <4>1. depths \in Seq(Nat) /\ Len(depths) > 0  BY <1>1
      <4>2. Front(depths) \in Seq(Nat) /\ Len(Front(depths)) = Len(depths) - 1  BY <4>1, FrontOf
      <4> QED  BY <4>2, <3>1
    <3> QED  BY <3>2
  <2> QED  BY <2>2, <2>3, <2>4, <2>5, <1>14, <1>15 DEF FramesInv, Running
<1>17. CASE Len(F) # 1
  <2>1. Len(F) > 1  BY <1>4, <1>17
  <2>2. n > 1  BY <2>1, <1>3
  <2>3. f = [r |-> c.regs, base |-> c.base, nest |-> n - 1]  BY DEF Below, f, c
  <2>4. f.r = regs' /\ f.base = base' /\ f.nest = n - 1  BY <2>3, <1>6
  <2>5. /\ regs.var = FrameEnd(f.r) + 3 /\ f.r \in Registers
        /\ PoppedTo(f, F, vmStack, nest, depths)
    <3>1. /\ vmStack \in Seq(Word) /\ regs \in Registers /\ base \in Nat /\ Len(nest) \in Nat
          /\ f = Below([r |-> regs, base |-> base, nest |-> Len(nest)], vmStack, nest)
      BY <1>1 DEF f, n
    <3> QED  BY ONLY <2>1, <3>1, <1>2, FramePopped
  <2>6. FrameEnd(f.r) = base
    <3>1. FrameEnd(f.r) \in Nat  BY <2>5, Sizes
    <3>2. base \in Nat /\ FrameEnd(f.r) + 3 = base + 3  BY <2>5, <1>1
    <3> QED  BY ONLY <3>1, <3>2
  <2>7. Frames(Front(F), vmStack', regs', base', nest', depths')
    <3>1. Len(vmStack') = FrameEnd(f.r) /\ \A i \in 1 .. FrameEnd(f.r) : vmStack'[i] = vmStack[i]  BY <2>6, <1>13
    <3>2. Len(nest') = f.nest /\ \A i \in 1 .. f.nest : nest'[i] = nest[i]  BY <2>4, <1>10
    <3>3. Frames(Front(F), vmStack', f.r, f.base, nest', Front(depths))  BY ONLY <2>5, <3>1, <3>2, <1>13 DEF PoppedTo
    <3> QED  BY <3>3, <2>4
  <2>8. at' # "main"
    <3>1. n # 1  BY <2>2
    <3> QED  BY <3>1, <1>5, <1>6, <1>7 DEF NestOK, c, n
  <2> QED  BY <2>7, <2>8, <1>14, <1>15 DEF FramesInv
<1> QED  BY <1>16, <1>17

---------------------------------------------------------------------------
(* Native calls, returns and exceptions. *)

(* The words that an instruction can take.                                 *)
LEMMA WordsTaken ==
  ASSUME FramesInv, Running
  PROVE  /\ \A i \in 1 .. Depth : Operand(i) \in Word
         /\ \A i \in 1 .. MaxLocals : vmStack[regs.var + i] \in Word
<1>1. /\ vmStack \in Seq(Word) /\ Len(vmStack) \in Nat /\ MaxLocals \in Nat /\ LocalsEnd(regs) = regs.var + MaxLocals
  BY RunningFacts
<1>2. /\ regs.var \in Nat /\ regs.stack \in Nat /\ LocalsEnd(regs) \in Nat /\ Limit \in Nat
      /\ LocalsEnd(regs) <= regs.stack /\ regs.stack <= Limit
      /\ Operands(regs) = regs.stack - LocalsEnd(regs)
      /\ Depth \in Nat /\ Depth <= Operands(regs)
  BY Extent
<1>3. PICK a \in Nat : a = Len(vmStack)  BY <1>1
<1>4. a = Limit + 2  BY <1>3, Extent
<1>5. MaxLocals \in Nat /\ LocalsEnd(regs) = regs.var + MaxLocals  BY <1>1
<1>6. /\ \A i \in 1 .. Depth : regs.stack + 1 - i \in 1 .. a
      /\ \A i \in 1 .. MaxLocals : regs.var + i \in 1 .. a
  BY ONLY <1>2, <1>3, <1>4, <1>5
<1>7. \A i \in 1 .. a : vmStack[i] \in Word  BY <1>1, <1>3, ElementOfSeq
<1> QED  BY ONLY <1>6, <1>7 DEF Operand

(* A return finds the saved registers above the caller's frame.            *)
LEMMA Popped ==
  ASSUME FramesInv, Running
  PROVE  PopFrame(vmStack, regs.method) = SubSeq(vmStack, 1, regs.var)
         /\ Len(PopFrame(vmStack, regs.method)) = regs.var
<1>1. /\ vmStack \in Seq(Word) /\ Len(vmStack) = FrameEnd(regs) /\ ~Code[regs.method].native
      /\ MaxLocals \in Nat /\ MaxStack \in Nat
      /\ LocalsEnd(regs) = regs.var + MaxLocals /\ FrameEnd(regs) = LocalsEnd(regs) + MaxStack + 2
  BY RunningFacts
<1>2. PICK a \in Nat : a = Len(vmStack)  BY <1>1
<1>3. /\ MaxLocals \in Nat /\ MaxStack \in Nat /\ regs.var \in Nat
      /\ a = regs.var + MaxLocals + MaxStack + 2
  <2>1. FrameEnd(regs) = a /\ regs.var \in Nat /\ LocalsEnd(regs) \in Nat  BY <1>1, <1>2, Extent
  <2>2. /\ MaxLocals \in Nat /\ MaxStack \in Nat
        /\ LocalsEnd(regs) = regs.var + MaxLocals /\ FrameEnd(regs) = LocalsEnd(regs) + MaxStack + 2
    BY <1>1
  <2> QED  BY ONLY <2>1, <2>2
<1>4. a - (MaxLocals + MaxStack + 2) = regs.var /\ regs.var <= a  BY ONLY <1>2, <1>3
<1>5. PopFrame(vmStack, regs.method) = SubSeq(vmStack, 1, regs.var)
  BY <1>1, <1>2, <1>4 DEF PopFrame, MaxLocals, MaxStack
<1>6. regs.var \in Nat /\ regs.var <= Len(vmStack)  BY <1>2, <1>3, <1>4
<1> QED  BY <1>1, <1>5, <1>6, Prefix

(* The caller's depth, when a frame returns to another of its jExecMethod. *)
LEMMA CallerDepth ==
  ASSUME FramesInv, Running, regs.var # base + 3
  PROVE  /\ Len(depths) \in Nat /\ Len(depths) > 1 /\ depths[Len(depths) - 1] \in Nat
         /\ Front(depths) \in Seq(Nat) /\ Len(Front(depths)) = Len(depths) - 1
         /\ Front(depths)[Len(depths) - 1] = depths[Len(depths) - 1]
<1>1. /\ regs \in Registers /\ base \in Nat /\ vmStack \in Seq(Word) /\ Len(nest) \in Nat
      /\ Len(depths) \in Nat \ {0} /\ depths \in Seq(Nat)
  BY RunningFacts
<1>2. PICK F : Frames(F, vmStack, regs, base, nest, depths)  BY RunningFacts
<1>3. regs \in Registers /\ base \in Nat /\ vmStack \in Seq(Word) /\ Len(nest) \in Nat  BY <1>1
<1>4. Len(F) \in Nat \ {0} /\ Len(F) = Len(depths)  BY ONLY <1>2, <1>3, FrameFacts
<1>5. Len(F) # 1  BY <1>2, <1>3, OnlyFrame
<1>6. PICK n \in Nat : n = Len(depths)  BY <1>1
<1>7. n > 1
  <2>1. n # 0 /\ n # 1  BY <1>4, <1>5, <1>6
  <2> QED  BY ONLY <2>1, <1>6
<1>8. n - 1 \in 1 .. n /\ n - 1 \in 1 .. n - 1  BY ONLY <1>6, <1>7
<1>9. depths[n - 1] \in Nat  BY <1>1, <1>6, <1>8, ElementOfSeq
<1>10. /\ Front(depths) \in Seq(Nat) /\ Len(Front(depths)) = n - 1
       /\ \A i \in 1 .. n - 1 : Front(depths)[i] = depths[i]
  <2>1. depths \in Seq(Nat) /\ Len(depths) > 0  BY <1>1
  <2> QED  BY <2>1, <1>6, FrontOf
<1> QED  BY <1>6, <1>7, <1>8, <1>9, <1>10

(* A fatal error stops everything where it is.                             *)
LEMMA ExitKeeps ==
  ASSUME FramesInv, GENERATE_EXCEPTION
  PROVE  FramesInv'
BY DEF FramesInv, TypesOK, NestOK, GENERATE_EXCEPTION, Running, OverrunNeedsCatch

\* What a method returns.
Result == IF Code[regs.method].returns THEN <<Operand(1)>> ELSE << >>

\* The running frame is left for the one below it, with the words ws.
ReturnedWith(ws) ==
  /\ Running /\ regs.var # base + 3 /\ ws \in Seq(Word) /\ ReturnTo(SubSeq(vmStack, 1, regs.var), ws)
  /\ depths[Len(depths) - 1] + Len(ws) \in Nat
  /\ OtherLast(depths', Front(depths), depths[Len(depths) - 1] + Len(ws))
  /\ UNCHANGED <<base, nest, todo>> /\ exc' = exc

(* return from a called method.                                            *)
LEMMA MethodReturns ==
  ASSUME FramesInv, MethodReturn, regs.var # base + 3
  PROVE  /\ ReturnedWith(Result) /\ Len(Result) <= Depth /\ k' = k
         /\ depths[Len(depths) - 1] + Len(Result) <= Code[CallerRegs(SubSeq(vmStack, 1, regs.var)).method].maxStack
<1>1. Running  BY DEF MethodReturn, Does, Running
<1>2. PICK rest : rest = PopFrame(vmStack, regs.method)  OBVIOUS
<1>3. rest = SubSeq(vmStack, 1, regs.var) /\ Len(rest) = regs.var  BY <1>1, <1>2, Popped
<1>4. PICK ret : ret = Result  OBVIOUS
<1>5. /\ depths[Len(depths) - 1] + Len(ret) <= Code[CallerRegs(rest).method].maxStack
      /\ ReturnTo(rest, ret)
      /\ depths' = [Front(depths) EXCEPT ![Len(depths) - 1] = @ + Len(ret)]
      /\ UNCHANGED <<base, nest, exc, k, todo>> /\ Depth >= Len(ret)
  BY <1>2, <1>3, <1>4 DEF MethodReturn, Result
<1>6. ret \in Seq(Word)
  <2>1. ASSUME Code[regs.method].returns PROVE Operand(1) \in Word
    <3>1. Depth >= 1  BY <1>4, <1>5, <2>1 DEF Result
    <3>2. Depth \in Nat  BY <1>1, Extent
    <3>3. 1 \in 1 .. Depth  BY ONLY <3>1, <3>2
    <3> QED  BY <1>1, <3>3, WordsTaken
  <2> QED  BY <1>4, <2>1 DEF Result
<1>7. PICK w \in Nat : w = Len(ret)  BY <1>6
<1>8. /\ Len(depths) \in Nat /\ Len(depths) > 1 /\ depths[Len(depths) - 1] \in Nat
      /\ Front(depths) \in Seq(Nat) /\ Len(Front(depths)) = Len(depths) - 1
      /\ Front(depths)[Len(depths) - 1] = depths[Len(depths) - 1]
  BY <1>1, CallerDepth
<1>9. PICK d \in Nat : d = depths[Len(depths) - 1] + w  BY <1>8
<1>10. OtherLast(depths', Front(depths), d)
  <2>1. depths' = [Front(depths) EXCEPT ![Len(Front(depths))] = d]  BY <1>5, <1>7, <1>8, <1>9
  <2>2. Front(depths) \in Seq(Nat) /\ Len(Front(depths)) > 0  BY <1>8
  <2> QED  BY <2>1, <2>2, LastChanged
<1>11. Len(ret) <= Depth
  <2>1. Depth >= w /\ Depth \in Nat  BY <1>1, <1>5, <1>7, Extent
  <2>2. w <= Depth  BY ONLY <2>1, w \in Nat
  <2> QED  BY <1>7, <2>2
<1> QED  BY <1>1, <1>3, <1>4, <1>5, <1>6, <1>7, <1>9, <1>10, <1>11 DEF ReturnedWith

(* A return to the caller keeps the invariant.                             *)
LEMMA ReturnedKeeps ==
  ASSUME FramesInv, NEW ws, ReturnedWith(ws), k' \in Nat,
         ws = << >> \/ depths[Len(depths) - 1] + Len(ws) <= Code[CallerRegs(SubSeq(vmStack, 1, regs.var)).method].maxStack
  PROVE  FramesInv'
<1>1. /\ Running /\ regs.var # base + 3 /\ ws \in Seq(Word) /\ ReturnTo(SubSeq(vmStack, 1, regs.var), ws)
      /\ depths[Len(depths) - 1] + Len(ws) \in Nat
      /\ OtherLast(depths', Front(depths), depths[Len(depths) - 1] + Len(ws))
      /\ UNCHANGED <<base, nest, todo>> /\ exc' = exc
  BY DEF ReturnedWith
<1>2. PICK d \in Nat : d = depths[Len(depths) - 1] + Len(ws)  BY <1>1
<1>3. PICK r : r = CallerRegs(SubSeq(vmStack, 1, regs.var))  OBVIOUS
<1>4. OtherLast(depths', Front(depths), d) /\ (ws = << >> \/ d <= Code[r.method].maxStack)  BY <1>1, <1>2, <1>3
<1>5. exc' \in Word  BY <1>1 DEF FramesInv, TypesOK
<1> QED  BY <1>1, <1>2, <1>3, <1>4, <1>5, ReturnKeeps

(* return, from a called method or from the first of a jExecMethod.        *)
LEMMA MethodReturnKeeps ==
  ASSUME FramesInv, MethodReturn
  PROVE  FramesInv'
<1>1. Running  BY DEF MethodReturn, Does, Running
<1>2. CASE regs.var = base + 3
  <2>1. Len(PopFrame(vmStack, regs.method)) = base + 3  BY <1>1, <1>2, Popped
  <2>2. Leave /\ depths' = Front(depths) /\ todo' = todo  BY <2>1 DEF MethodReturn
  <2> QED  BY <1>1, <1>2, <2>2, LeaveKeeps
<1>3. CASE regs.var # base + 3
  <2>1. k' \in Nat  BY <1>3, MethodReturns DEF FramesInv, TypesOK
  <2> QED  BY <1>3, <2>1, MethodReturns, ReturnedKeeps
<1> QED  BY <1>2, <1>3

(* An exception is passed to the caller.                                   *)
LEMMA UnwindReturns ==
  ASSUME FramesInv, Unwind, regs.var # base + 3
  PROVE  ReturnedWith(<< >>) /\ k' = 0
<1>1. Running  BY DEF Unwind, Running
<1>2. PICK rest : rest = PopFrame(vmStack, regs.method)  OBVIOUS
<1>3. rest = SubSeq(vmStack, 1, regs.var) /\ Len(rest) = regs.var  BY <1>1, <1>2, Popped
<1>4. ReturnTo(rest, << >>) /\ k' = 0 /\ depths' = Front(depths) /\ UNCHANGED <<base, nest, exc, todo>>
  BY <1>2, <1>3 DEF Unwind
<1>5. /\ Len(depths) \in Nat /\ Len(depths) > 1 /\ depths[Len(depths) - 1] \in Nat
      /\ Front(depths) \in Seq(Nat) /\ Len(Front(depths)) = Len(depths) - 1
      /\ Front(depths)[Len(depths) - 1] = depths[Len(depths) - 1]
  BY <1>1, CallerDepth
<1>6. PICK d \in Nat : d = depths[Len(depths) - 1]  BY <1>5
<1>7. OtherLast(depths', Front(depths), d)  BY <1>4, <1>5, <1>6 DEF OtherLast
<1>8. PICK ws : ws = << >>  OBVIOUS
<1>9. ws \in Seq(Word) /\ d = depths[Len(depths) - 1] + Len(ws)  BY <1>6, <1>8
<1>10. ReturnedWith(ws)  BY <1>1, <1>3, <1>4, <1>7, <1>8, <1>9 DEF ReturnedWith
<1> QED  BY <1>4, <1>8, <1>10

(* An exception leaves the frame for the caller's, or ends the machine.    *)
LEMMA UnwindKeeps ==
  ASSUME FramesInv, Unwind
  PROVE  FramesInv'
<1>1. Running  BY DEF Unwind, Running
<1>2. CASE regs.var = base + 3
  <2>1. Len(PopFrame(vmStack, regs.method)) = base + 3  BY <1>1, <1>2, Popped
  <2> QED  BY <2>1, ExitKeeps DEF Unwind
<1>3. CASE regs.var # base + 3
  <2>1. ReturnedWith(<< >>) /\ k' = 0  BY <1>3, UnwindReturns
  <2> QED  BY <2>1, ReturnedKeeps
<1> QED  BY <1>2, <1>3

(* A native method's frame is laid out and popped: what is left is what an *)
(* instruction does that takes n operands.                                 *)
LEMMA NativeReturns ==
  ASSUME FramesInv, Running, NEW m \in Method, Code[m].native, NEW n \in Nat, n <= Depth,
         NEW ret, ret \in Seq(Word), at = "step",
         ReturnTo(PopFrame(vmStack \o (SavedRegs(n) \o SubSeq(vmStack, regs.stack - n + 1, regs.stack)
                                         \o <<<<"count", n>>>> \o Suffix(m)), m), ret)
  PROVE  Push(n, ret, NextPc)
<1> DEFINE WordOrCount == Word \cup {<<"count", n>>}
           args == SubSeq(vmStack, regs.stack - n + 1, regs.stack)
           count == <<<<"count", n>>>>
           f1 == SavedRegs(n) \o args
           f2 == f1 \o count
           f3 == f2 \o Suffix(m)
           big == vmStack \o f3
           back == vmStack \o SavedRegs(n)
<1>1. /\ regs \in Registers /\ vmStack \in Seq(Word) /\ Len(vmStack) = FrameEnd(regs)
      /\ regs.method \in Method /\ regs.pc \in Nat
      /\ InFrame(regs, depths[Len(depths)], vmStack)
  BY RunningFacts
<1>2. /\ regs.var \in Nat /\ regs.stack \in Nat /\ LocalsEnd(regs) \in Nat /\ Limit \in Nat
      /\ FrameEnd(regs) = Limit + 2 /\ regs.var <= LocalsEnd(regs)
      /\ LocalsEnd(regs) <= regs.stack /\ regs.stack <= Limit
      /\ Operands(regs) = regs.stack - LocalsEnd(regs)
      /\ Depth \in Nat /\ Depth <= Operands(regs)
  BY Extent
<1>3. PICK a \in Nat : a = Len(vmStack)  BY <1>1
<1>4. a = Limit + 2  BY <1>1, <1>2, <1>3
<1>5. PICK sp \in Nat : sp = regs.stack - n
  <2>1. regs.stack - n \in Nat  BY ONLY <1>2, n \in Nat, n <= Depth
  <2> QED  BY <2>1
<1>6. NextPc \in Nat
  <2>1. regs.pc \in Nat  BY <1>1
  <2> QED  BY ONLY <2>1 DEF NextPc
<1>7. /\ SavedRegs(n) \in Seq(Word) /\ Len(SavedRegs(n)) = 3 /\ SavedRegs(n)[1] = <<"pc", NextPc>>
      /\ SavedRegs(n)[2] = <<"var", regs.var>> /\ SavedRegs(n)[3] = <<"stack", sp>>
  <2>1. <<"pc", NextPc>> \in Word /\ <<"var", regs.var>> \in Word /\ <<"stack", sp>> \in Word
    BY <1>2, <1>6, Words
  <2>2. SavedRegs(n) = <<<<"pc", NextPc>>, <<"var", regs.var>>, <<"stack", sp>>>>  BY <1>5 DEF SavedRegs
  <2> QED  BY ONLY <2>1, <2>2
<1>8. args \in Seq(Word) /\ Len(args) = n
  <2>1. regs.stack - n + 1 = sp + 1 /\ sp + 1 \in Int /\ regs.stack \in Int
        /\ \A i \in sp + 1 .. regs.stack : i \in 1 .. a
    BY ONLY <1>2, <1>3, <1>4, <1>5, n \in Nat
  <2>2. \A i \in sp + 1 .. regs.stack : vmStack[i] \in Word  BY <2>1, <1>1, <1>3, ElementOfSeq
  <2>3. args = SubSeq(vmStack, sp + 1, regs.stack)  BY <2>1
  <2>4. /\ SubSeq(vmStack, sp + 1, regs.stack) \in Seq(Word)
        /\ Len(SubSeq(vmStack, sp + 1, regs.stack))
             = IF sp + 1 <= regs.stack THEN regs.stack - (sp + 1) + 1 ELSE 0
    BY ONLY <2>1, <2>2, SubSeqProperties
  <2>5. (IF sp + 1 <= regs.stack THEN regs.stack - (sp + 1) + 1 ELSE 0) = n  BY ONLY <1>2, <1>5, n \in Nat
  <2> QED  BY ONLY <2>3, <2>4, <2>5
<1>9. Suffix(m) \in Seq(Word) /\ Len(Suffix(m)) = 2
  <2>1. <<"method", m>> \in Word /\ <<"class", m>> \in Word  BY Words
  <2> QED  BY <2>1 DEF Suffix
<1>10. count \in Seq(WordOrCount) /\ Len(count) = 1 /\ count[1] = <<"count", n>>  OBVIOUS
<1> HIDE DEF args, count
<1>11. \A s : s \in Seq(Word) => s \in Seq(WordOrCount)  OBVIOUS
<1> HIDE DEF WordOrCount
<1>12. IsJoin(WordOrCount, f1, SavedRegs(n), 3, args, n)
  <2>1. SavedRegs(n) \in Seq(WordOrCount) /\ args \in Seq(WordOrCount)  BY <1>7, <1>8, <1>11
  <2>2. IsJoin(WordOrCount, SavedRegs(n) \o args, SavedRegs(n), Len(SavedRegs(n)), args, Len(args))  BY <2>1, Joined
  <2> QED  BY <2>2, <1>7, <1>8
<1> HIDE DEF f1
<1>13. IsJoin(WordOrCount, f2, f1, 3 + n, count, 1)
  <2>1. f1 \in Seq(WordOrCount) /\ Len(f1) = 3 + n  BY <1>12 DEF IsJoin
  <2>2. IsJoin(WordOrCount, f1 \o count, f1, Len(f1), count, Len(count))  BY <2>1, <1>10, Joined
  <2> QED  BY <2>1, <2>2, <1>10
<1> HIDE DEF f2
<1>14. IsJoin(WordOrCount, f3, f2, 3 + n + 1, Suffix(m), 2)
  <2>1. f2 \in Seq(WordOrCount) /\ Len(f2) = 3 + n + 1  BY <1>13 DEF IsJoin
  <2>2. Suffix(m) \in Seq(WordOrCount)  BY <1>9, <1>11
  <2>3. IsJoin(WordOrCount, f2 \o Suffix(m), f2, Len(f2), Suffix(m), Len(Suffix(m)))  BY <2>1, <2>2, Joined
  <2> QED  BY <2>1, <2>3, <1>9
<1> HIDE DEF f3
<1>15. IsJoin(WordOrCount, big, vmStack, a, f3, 3 + n + 1 + 2)
  <2>1. f3 \in Seq(WordOrCount) /\ Len(f3) = 3 + n + 1 + 2  BY <1>14 DEF IsJoin
  <2>2. vmStack \in Seq(WordOrCount)  BY <1>1, <1>11
  <2>3. IsJoin(WordOrCount, vmStack \o f3, vmStack, Len(vmStack), f3, Len(f3))  BY <2>1, <2>2, Joined
  <2> QED  BY <2>1, <2>3, <1>3
<1>16. IsJoin(Word, back, vmStack, a, SavedRegs(n), 3)
  <2>1. IsJoin(Word, vmStack \o SavedRegs(n), vmStack, Len(vmStack), SavedRegs(n), Len(SavedRegs(n)))
    BY <1>1, <1>7, Joined
  <2> QED  BY <2>1, <1>3, <1>7
<1> HIDE DEF big, back
<1>17. /\ \A i \in 1 .. 3 : i \in 1 .. 3 + n /\ i \in 1 .. 3 + n + 1 /\ i \in 1 .. 3 + n + 1 + 2
       /\ (3 + n) + 1 \in 1 .. 3 + n + 1 /\ (3 + n) + 1 \in 1 .. 3 + n + 1 + 2 /\ 1 \in 1 .. 1
       /\ a + ((3 + n) + 1) = (a + (3 + n + 1 + 2)) - 2
       /\ (a + (3 + n + 1 + 2)) - 3 - n = a + 3 /\ a + 3 <= a + (3 + n + 1 + 2)
       /\ a + 3 \in Nat /\ (\A i \in 1 .. a + 3 : i \in 1 .. a \/ (i - a \in 1 .. 3 /\ a + (i - a) = i))
  BY ONLY n \in Nat, <1>3
<1>18. \A i \in 1 .. 3 : f3[i] = SavedRegs(n)[i]
  <2> TAKE i \in 1 .. 3
  <2>1. f3[i] = f2[i]  BY ONLY <1>14, <1>17 DEF IsJoin
  <2>2. f2[i] = f1[i]  BY ONLY <1>13, <1>17 DEF IsJoin
  <2>3. f1[i] = SavedRegs(n)[i]  BY ONLY <1>12 DEF IsJoin
  <2> QED  BY ONLY <2>1, <2>2, <2>3
<1>19. f3[(3 + n) + 1] = <<"count", n>>
  <2>1. f3[(3 + n) + 1] = f2[(3 + n) + 1]  BY ONLY <1>14, <1>17 DEF IsJoin
  <2>2. f2[(3 + n) + 1] = count[1]  BY ONLY <1>13, <1>17 DEF IsJoin
  <2> QED  BY ONLY <2>1, <2>2, <1>10
<1>20. Len(big) = a + (3 + n + 1 + 2) /\ big \in Seq(WordOrCount)  BY ONLY <1>15 DEF IsJoin
<1>21. big[Len(big) - 2] = <<"count", n>>
  <2>1. big[a + ((3 + n) + 1)] = f3[(3 + n) + 1]  BY ONLY <1>15, <1>17 DEF IsJoin
  <2> QED  BY ONLY <2>1, <1>17, <1>19, <1>20
<1>22. PopFrame(big, m) = SubSeq(big, 1, a + 3)
  <2>1. big[Len(big) - 2][2] = n  BY <1>21, SMTT(40)
  <2>2. PopFrame(big, m) = SubSeq(big, 1, Len(big) - 3 - n)  BY <2>1 DEF PopFrame
  <2> QED  BY ONLY <2>2, <1>17, <1>20
<1>23. SubSeq(big, 1, a + 3) = back
  <2>1. \A i \in 1 .. a + 3 : big[i] = back[i]
    <3> TAKE i \in 1 .. a + 3
    <3>1. CASE i \in 1 .. a  BY ONLY <3>1, <1>15, <1>16 DEF IsJoin
    <3>2. CASE i - a \in 1 .. 3 /\ a + (i - a) = i
      <4>1. big[a + (i - a)] = f3[i - a]  BY ONLY <3>2, <1>15, <1>17 DEF IsJoin
      <4>2. back[a + (i - a)] = SavedRegs(n)[i - a]  BY ONLY <3>2, <1>16 DEF IsJoin
      <4> QED  BY ONLY <3>2, <4>1, <4>2, <1>18
    <3> QED  BY <3>1, <3>2, <1>17
  <2>2. back \in Seq(Word) /\ Len(back) = a + 3  BY ONLY <1>16 DEF IsJoin
  <2>3. \A i \in 1 .. a + 3 : back[i] \in Word  BY <2>2, ElementOfSeq
  <2>4. \A i \in 1 .. a + 3 : big[i] \in Word  BY ONLY <2>1, <2>3
  <2>5. /\ SubSeq(big, 1, a + 3) \in Seq(Word) /\ Len(SubSeq(big, 1, a + 3)) = a + 3
        /\ \A i \in 1 .. a + 3 : SubSeq(big, 1, a + 3)[i] = big[i]
    <3>1. 1 \in Int /\ a + 3 \in Int /\ \A i \in 1 .. a + 3 : big[i] \in Word  BY <2>4, <1>17
    <3>2. (a + 3) - 1 + 1 = a + 3 /\ 1 <= a + 3 /\ \A i \in 1 .. a + 3 : 1 + i - 1 = i  BY ONLY <1>3
    <3>3. /\ SubSeq(big, 1, a + 3) \in Seq(Word)
          /\ Len(SubSeq(big, 1, a + 3)) = IF 1 <= a + 3 THEN (a + 3) - 1 + 1 ELSE 0
          /\ \A i \in 1 .. (a + 3) - 1 + 1 : SubSeq(big, 1, a + 3)[i] = big[1 + i - 1]
      BY ONLY <3>1, SubSeqProperties
    <3> QED  BY ONLY <3>2, <3>3
  <2> QED  BY ONLY <2>1, <2>2, <2>5, SeqEqual
<1>24. ReturnTo(back, ret)
  <2>1. ReturnTo(PopFrame(big, m), ret)  BY DEF big, f3, f2, f1, args, count
  <2> QED  BY <2>1, <1>22, <1>23
<1>25. CallerRegs(back) = [method |-> regs.method, pc |-> NextPc, var |-> regs.var, stack |-> sp]
  <2>1. /\ back[a + 3] = <<"stack", sp>> /\ back[a + 2] = <<"var", regs.var>> /\ back[a + 1] = <<"pc", NextPc>>
    <3>1. 1 \in 1 .. 3 /\ 2 \in 1 .. 3 /\ 3 \in 1 .. 3  OBVIOUS
    <3>2. /\ back[a + 3] = SavedRegs(n)[3] /\ back[a + 2] = SavedRegs(n)[2] /\ back[a + 1] = SavedRegs(n)[1]
      BY ONLY <3>1, <1>16 DEF IsJoin
    <3> QED  BY ONLY <3>2, <1>7
  <2>2. back[a - 1] = <<"method", regs.method>>
    <3>1. vmStack[a - 1] = <<"method", regs.method>>  BY <1>1, <1>3 DEF InFrame
    <3>2. a - 1 \in 1 .. a  BY ONLY <1>2, <1>3, <1>4
    <3>3. back[a - 1] = vmStack[a - 1]  BY ONLY <3>2, <1>16 DEF IsJoin
    <3> QED  BY <3>1, <3>3
  <2>3. Len(back) = a + 3  BY ONLY <1>16 DEF IsJoin
  <2>4. Len(back) - 1 = a + 2 /\ Len(back) - 2 = a + 1 /\ Len(back) - 4 = a - 1  BY ONLY <2>3, <1>3
  <2>5. /\ back[Len(back)][2] = sp /\ back[Len(back) - 1][2] = regs.var
        /\ back[Len(back) - 2][2] = NextPc /\ back[Len(back) - 4][2] = regs.method
    BY ONLY <2>1, <2>2, <2>3, <2>4
  <2> QED  BY ONLY <2>5 DEF CallerRegs
<1>26. PopSaved(back) = vmStack
  <2>1. back \in Seq(Word) /\ Len(back) = a + 3 /\ \A i \in 1 .. a : back[i] = vmStack[i]  BY ONLY <1>16 DEF IsJoin
  <2>2. Len(back) - 3 = a /\ a <= Len(back)  BY ONLY <2>1, <1>3
  <2>3. PopSaved(back) = SubSeq(back, 1, a)  BY <2>2 DEF PopSaved
  <2>4. /\ SubSeq(back, 1, a) \in Seq(Word) /\ Len(SubSeq(back, 1, a)) = a
        /\ \A i \in 1 .. a : SubSeq(back, 1, a)[i] = back[i]
    BY <2>1, <2>2, Prefix
  <2> QED  BY <2>1, <2>3, <2>4, <1>1, <1>3, SeqEqual
<1>27. PICK w \in Nat : w = Len(ret)  OBVIOUS
<1> DEFINE r == [method |-> regs.method, pc |-> NextPc, var |-> regs.var, stack |-> sp]
<1>28. /\ vmStack' = WithWords(vmStack, sp, ret)
       /\ regs' = [r EXCEPT !.stack = sp + w]
       /\ at' = IF regs'.stack > Len(vmStack') - 2 THEN "overrun" ELSE "step"
  <2>1. r.stack = sp  OBVIOUS
  <2> HIDE DEF r
  <2> QED  BY ONLY <2>1, <1>24, <1>25, <1>26, <1>27, at = "step" DEF ReturnTo, r
<1>29. regs' = [method |-> regs.method, pc |-> NextPc, var |-> regs.var, stack |-> sp + w]  BY <1>28
<1>30. [regs EXCEPT !.stack = sp + w, !.pc = NextPc]
          = [method |-> regs.method, pc |-> NextPc, var |-> regs.var, stack |-> sp + w]
  <2>1. PICK q : q = [regs EXCEPT !.stack = sp + w, !.pc = NextPc]  OBVIOUS
  <2>2. regs \in Registers  BY <1>1
  <2>3. q = [method |-> regs.method, pc |-> NextPc, var |-> regs.var, stack |-> sp + w]
    BY ONLY <2>1, <2>2 DEF Registers
  <2> QED  BY <2>1, <2>3
<1>31. regs' = [regs EXCEPT !.stack = @ - n + Len(ret), !.pc = NextPc]  BY <1>5, <1>27, <1>29, <1>30
<1>32. Len(vmStack') - 2 = Limit
  <2>1. Len(vmStack') = Len(vmStack)  BY <1>1, <1>28, Written
  <2>2. Len(vmStack') = a  BY <2>1, <1>3
  <2> QED  BY ONLY <2>2, <1>2, <1>4
<1> QED  BY <1>5, <1>28, <1>31, <1>32 DEF Push

(* callJNIMethod.                                                          *)
LEMMA InvokeNativeKeeps ==
  ASSUME FramesInv, InvokeNative
  PROVE  FramesInv'
<1>1. at = "step" /\ Running /\ PcInMethod(NextPc)  BY DEF InvokeNative, Does, Running
<1> DEFINE ret(m, v) == IF Code[m].returns THEN <<Value(v)>> ELSE << >>
           frame(m, n) == SavedRegs(n) \o SubSeq(vmStack, regs.stack - n + 1, regs.stack) \o <<<<"count", n>>>> \o Suffix(m)
<1>2. PICK m \in Method, v \in Values :
        LET n == Code[m].paramsCount IN
        /\ Code[m].native /\ Depth >= n /\ Depth - n + Len(ret(m, v)) <= MaxStack
        /\ IF NativeFits(m)
           THEN /\ ReturnTo(PopFrame(vmStack \o frame(m, n), m), ret(m, v))
                /\ depths' = [depths EXCEPT ![Len(depths)] = @ - n + Len(ret(m, v))]
                /\ UNCHANGED <<base, nest, exc, k, todo>>
           ELSE GENERATE_EXCEPTION
  BY DEF InvokeNative
<1>3. PICK n \in Nat : n = Code[m].paramsCount  BY FramesAssumption
<1>4. PICK ws : ws = ret(m, v)  OBVIOUS
<1>5. ws \in Seq(Word)
  <2>1. Value(v) \in Word  BY Words
  <2> QED  BY <2>1, <1>4
<1>6. PICK w \in Nat : w = Len(ws)  BY <1>5
<1>7. CASE ~NativeFits(m)
  <2>1. GENERATE_EXCEPTION  BY <1>2, <1>7
  <2> QED  BY <2>1, ExitKeeps
<1>8. CASE NativeFits(m)
  <2>1. /\ Code[m].native /\ Depth >= n /\ Depth - n + w <= MaxStack
        /\ ReturnTo(PopFrame(vmStack \o frame(m, n), m), ws)
        /\ depths' = [depths EXCEPT ![Len(depths)] = @ - n + w]
        /\ UNCHANGED <<base, nest, exc, k, todo>>
    BY <1>2, <1>3, <1>4, <1>6, <1>8
  <2>2. /\ Depth \in Nat /\ Depth <= Operands(regs) /\ Operands(regs) \in Nat
        /\ Operands(regs) = regs.stack - LocalsEnd(regs) /\ Limit = LocalsEnd(regs) + MaxStack
        /\ MaxStack \in Nat /\ LocalsEnd(regs) \in Nat /\ regs.stack \in Nat
    BY <1>1, Extent
  <2>3. Push(n, ws, NextPc)
    <3>1. n <= Depth  BY <2>1, <2>2
    <3>2. Code[m].native /\ ReturnTo(PopFrame(vmStack \o frame(m, n), m), ws)  BY <2>1
    <3> QED  BY <3>1, <3>2, <1>1, <1>5, NativeReturns
  <2>4. PICK d \in Nat : d = Depth - n + w
    <3>1. Depth >= n /\ Depth \in Nat  BY <2>1, <2>2
    <3>2. Depth - n + w \in Nat  BY ONLY <3>1, <1>3, <1>6
    <3> QED  BY <3>2
  <2>5. depths' = [depths EXCEPT ![Len(depths)] = d]
    <3>1. Depth = depths[Len(depths)]  BY <1>1, RunningFacts
    <3> QED  BY <2>1, <2>4, <3>1
  <2>6. Depth < Operands(regs) => Table # << >>  BY <1>1, <2>2, RunningFacts
  <2>7. /\ n <= Operands(regs) /\ d <= Operands(regs) - n + w
        /\ (d < Operands(regs) - n + w => Depth < Operands(regs))
        /\ regs.stack - n + w > Limit => d < Operands(regs) - n + w
    <3>1. Depth >= n /\ Depth - n + w <= MaxStack  BY <2>1
    <3> QED  BY ONLY <3>1, <2>2, <2>4, n \in Nat, w \in Nat
  <2>8. exc' \in Word /\ k' \in Nat  BY <2>1 DEF FramesInv, TypesOK
  <2>9. NextPc \in Nat
    <3>1. regs.pc \in Nat  BY <1>1, RunningFacts
    <3> QED  BY ONLY <3>1 DEF NextPc
  <2>10. UNCHANGED <<base, nest, todo>>  BY <2>1
  <2> QED  BY <1>1, <1>5, <1>6, <2>3, <2>5, <2>6, <2>7, <2>8, <2>9, <2>10, PushKeeps
<1> QED  BY <1>7, <1>8

---------------------------------------------------------------------------
(* Instructions that stay in their frame. *)

(* An instruction replaces its operands within what the method declares.   *)
LEMMA EffectKeeps ==
  ASSUME FramesInv, Running, NEW n \in Nat, NEW ws, ws \in Seq(Word), NEW pc, Effect(n, ws, pc)
  PROVE  FramesInv'
<1>1. PICK w \in Nat : w = Len(ws)  OBVIOUS
<1>2. /\ Depth >= n /\ Depth - n + w <= MaxStack /\ PcInMethod(pc) /\ Push(n, ws, pc)
      /\ depths' = [depths EXCEPT ![Len(depths)] = @ - n + w]
      /\ UNCHANGED <<base, nest, exc, k, todo>>
  BY <1>1 DEF Effect
<1>3. /\ Depth \in Nat /\ Depth <= Operands(regs) /\ Operands(regs) \in Nat
      /\ Operands(regs) = regs.stack - LocalsEnd(regs) /\ Limit = LocalsEnd(regs) + MaxStack
      /\ MaxStack \in Nat /\ LocalsEnd(regs) \in Nat /\ regs.stack \in Nat
  BY Extent
<1>4. PICK d \in Nat : d = Depth - n + w
  <2>1. Depth >= n /\ Depth \in Nat  BY <1>2, <1>3
  <2>2. Depth - n + w \in Nat  BY ONLY <2>1, <1>1, n \in Nat
  <2> QED  BY <2>2
<1>5. depths' = [depths EXCEPT ![Len(depths)] = d]
  <2>1. Depth = depths[Len(depths)]  BY RunningFacts
  <2> QED  BY <1>2, <1>4, <2>1
<1>6. Depth < Operands(regs) => Table # << >>  BY <1>3, RunningFacts
<1>7. /\ n <= Operands(regs) /\ d <= Operands(regs) - n + w
      /\ (d < Operands(regs) - n + w => Depth < Operands(regs))
      /\ regs.stack - n + w > Limit => d < Operands(regs) - n + w
  <2>1. Depth >= n /\ Depth - n + w <= MaxStack  BY <1>2
  <2> QED  BY ONLY <2>1, <1>3, <1>4, n \in Nat, w \in Nat
<1>8. exc' \in Word /\ k' \in Nat  BY <1>2 DEF FramesInv, TypesOK
<1>9. pc \in Nat
  <2>1. pc \in 0 .. Code[regs.method].codeLength - 1  BY <1>2 DEF PcInMethod
  <2>2. regs.method \in Method  BY RunningFacts
  <2>3. Code[regs.method].codeLength \in Nat  BY <2>2, FramesAssumption
  <2> QED  BY ONLY <2>1, <2>3
<1>10. UNCHANGED <<base, nest, todo>>  BY <1>2
<1> QED  BY <1>1, <1>2, <1>5, <1>6, <1>7, <1>8, <1>9, <1>10, PushKeeps

(* A store to a local variable.                                            *)
LEMMA SetLocalKeeps ==
  ASSUME FramesInv, Running, NEW i \in 1 .. MaxLocals, NEW x \in Word, NEW n \in Nat, SetLocal(i, x, n)
  PROVE  FramesInv'
<1>1. /\ Depth >= n
      /\ vmStack' = [vmStack EXCEPT ![regs.var + i] = x]
      /\ regs' = [regs EXCEPT !.stack = @ - n, !.pc = NextPc]
      /\ depths' = [depths EXCEPT ![Len(depths)] = @ - n]
      /\ UNCHANGED <<base, nest, at, exc, k, todo>>
  BY DEF SetLocal
<1>2. /\ regs \in Registers /\ base \in Nat /\ vmStack \in Seq(Word) /\ Len(nest) \in Nat
      /\ Len(depths) \in Nat \ {0} /\ depths \in Seq(Nat) /\ Depth = depths[Len(depths)]
      /\ Len(vmStack) = FrameEnd(regs) /\ MaxLocals \in Nat /\ LocalsEnd(regs) = regs.var + MaxLocals
      /\ regs.method \in Method /\ regs.pc \in Nat
  BY RunningFacts
<1>3. /\ regs.var \in Nat /\ regs.stack \in Nat /\ LocalsEnd(regs) \in Nat /\ Limit \in Nat
      /\ FrameEnd(regs) = Limit + 2 /\ regs.var <= LocalsEnd(regs)
      /\ LocalsEnd(regs) <= regs.stack /\ regs.stack <= Limit
      /\ Operands(regs) = regs.stack - LocalsEnd(regs)
      /\ Depth \in Nat /\ Depth <= Operands(regs)
  BY Extent
<1>4. PICK F : Frames(F, vmStack, regs, base, nest, depths)  BY RunningFacts
<1>5. PICK a \in Nat : a = Len(vmStack)  BY <1>2
<1>6. a = Limit + 2  BY <1>2, <1>3, <1>5
<1>7. PICK sp \in Nat : sp = regs.stack - n
  <2>1. Depth >= n  BY <1>1
  <2>2. regs.stack - n \in Nat  BY ONLY <2>1, <1>3, n \in Nat
  <2> QED  BY <2>2
<1>8. PICK d \in Nat : d = Depth - n
  <2>1. Depth >= n  BY <1>1
  <2>2. Depth - n \in Nat  BY ONLY <2>1, <1>3, n \in Nat
  <2> QED  BY <2>2
<1>9. NextPc \in Nat
  <2>1. regs.pc \in Nat  BY <1>2
  <2> QED  BY ONLY <2>1 DEF NextPc
<1>10. /\ regs' \in Registers /\ regs'.method = regs.method /\ regs'.var = regs.var /\ regs'.stack = sp
       /\ LocalsEnd(regs') = LocalsEnd(regs) /\ FrameEnd(regs') = FrameEnd(regs)
  <2>1. regs' = [method |-> regs.method, pc |-> NextPc, var |-> regs.var, stack |-> sp]
    <3>1. regs \in Registers /\ regs' = [regs EXCEPT !.stack = sp, !.pc = NextPc]  BY <1>1, <1>2, <1>7
    <3> QED  BY ONLY <3>1 DEF Registers
  <2>2. regs.method \in Method /\ regs.var \in Nat  BY <1>2, <1>3
  <2>3. regs' \in Registers /\ regs'.method = regs.method /\ regs'.var = regs.var /\ regs'.stack = sp
    BY <2>1, <2>2, <1>9 DEF Registers
  <2> QED  BY <2>3 DEF LocalsEnd, FrameEnd
<1>11. regs.var + i \in 1 .. a /\ ~(regs.var + i <= regs.var) /\ ~(regs.var + i > FrameEnd(regs) - 2)
  <2>1. MaxLocals \in Nat /\ LocalsEnd(regs) = regs.var + MaxLocals  BY <1>2
  <2> QED  BY ONLY <2>1, <1>3, <1>5, <1>6, i \in 1 .. MaxLocals
<1>12. /\ vmStack' \in Seq(Word) /\ Len(vmStack') = Len(vmStack)
       /\ \A j \in 1 .. Len(vmStack) : j <= regs.var \/ j > FrameEnd(regs) - 2 => vmStack'[j] = vmStack[j]
  <2>1. /\ vmStack' \in Seq(Word) /\ Len(vmStack') = Len(vmStack)
        /\ \A j \in 1 .. Len(vmStack) : j # regs.var + i => vmStack'[j] = vmStack[j]
    BY <1>1, <1>2, <1>5, <1>11, ExceptSeq
  <2> QED  BY <2>1, <1>11
<1>13. OtherLast(depths', depths, d)
  <2>1. depths \in Seq(Nat) /\ Len(depths) > 0  BY <1>2
  <2>2. depths' = [depths EXCEPT ![Len(depths)] = d]  BY <1>1, <1>2, <1>8
  <2> QED  BY <2>1, <2>2, LastChanged
<1>14. \E G : Frames(G, vmStack', regs', base, nest, depths')
  <2>1. /\ LocalsEnd(regs) <= sp /\ sp <= FrameEnd(regs) - 2
        /\ d <= sp - LocalsEnd(regs) /\ (d < sp - LocalsEnd(regs) => Depth < Operands(regs))
    <3>1. Depth >= n  BY <1>1
    <3> QED  BY ONLY <3>1, <1>3, <1>7, <1>8, n \in Nat
  <2>2. regs'.stack \in LocalsEnd(regs) .. FrameEnd(regs) - 2
    <3>1. sp \in LocalsEnd(regs) .. FrameEnd(regs) - 2  BY ONLY <2>1, <1>3, <1>7
    <3> QED  BY <3>1, <1>10
  <2>3. d <= Operands(regs') /\ (d < Operands(regs') => Code[regs.method].excTable # << >>)
    <3>1. Depth < Operands(regs) => Table # << >>  BY <1>3, RunningFacts
    <3>2. Operands(regs') = sp - LocalsEnd(regs)  BY <1>10 DEF Operands
    <3> QED  BY <2>1, <3>1, <3>2 DEF Table
  <2>4. regs \in Registers /\ base \in Nat /\ vmStack \in Seq(Word) /\ Len(nest) \in Nat /\ d \in Nat  BY <1>2
  <2> QED  BY ONLY <2>2, <2>3, <2>4, <1>4, <1>10, <1>12, <1>13, TopChanges
<1>15. TypesOK'  BY <1>1, <1>10, <1>12 DEF FramesInv, TypesOK, NestOK
<1>16. at' # "main" /\ at' # "overrun"  BY <1>1 DEF Running
<1> QED  BY <1>1, <1>14, <1>15, <1>16 DEF FramesInv, OverrunNeedsCatch

(* What the stack instructions pick are operands that they take.           *)
LEMMA PicksTaken ==
  ASSUME NEW op \in StackOps
  PROVE  op.pops \in 1 .. 4 /\ op.picks \in Seq(1 .. op.pops)
<1>1. CASE op = [pops |-> 1, picks |-> << >>]  BY <1>1
<1>2. CASE op = [pops |-> 2, picks |-> << >>]  BY <1>2
<1>3. CASE op = [pops |-> 1, picks |-> <<1, 1>>]  BY <1>3
<1>4. CASE op = [pops |-> 2, picks |-> <<1, 2, 1>>]  BY <1>4
<1>5. CASE op = [pops |-> 3, picks |-> <<1, 3, 2, 1>>]  BY <1>5
<1>6. CASE op = [pops |-> 2, picks |-> <<2, 1, 2, 1>>]  BY <1>6
<1>7. CASE op = [pops |-> 3, picks |-> <<2, 1, 3, 2, 1>>]  BY <1>7
<1>8. CASE op = [pops |-> 4, picks |-> <<2, 1, 4, 3, 2, 1>>]  BY <1>8
<1>9. CASE op = [pops |-> 2, picks |-> <<1, 2>>]  BY <1>9
<1> QED  BY <1>1, <1>2, <1>3, <1>4, <1>5, <1>6, <1>7, <1>8, <1>9 DEF StackOps

\* The two things that an instruction which stays in its frame may do.
EffectTaken == \E pc : \E n \in 0 .. 4, ws \in Seq(Word) : Effect(n, ws, pc)
LocalSet == \E i \in 1 .. MaxLocals, x \in Word, n \in 0 .. 1 : SetLocal(i, x, n)

(* It does one of them, with words that it finds, or fails.                *)
LEMMA LocalIs ==
  ASSUME FramesInv, LocalStep
  PROVE  at = "step" /\ (EffectTaken \/ LocalSet \/ GENERATE_EXCEPTION)
<1>0. at = "step"
  BY DEF LocalStep, Const, LoadLocal, StoreLocal, IInc, StackMove, Arithmetic, Consume, Branch, Jsr, Ret,
         RuntimeError, Does
<1>1. Running  BY <1>0 DEF Running
<1>2. Depth \in Nat /\ MaxLocals \in Nat  BY <1>1, RunningFacts
<1>3. \A x \in Word : <<x>> \in Seq(Word)  OBVIOUS
<1>4. << >> \in Seq(Word)  OBVIOUS
<1>z. 0 \in 0 .. 4  OBVIOUS
<1>5. CASE Const
  <2>1. PICK v \in Values : Effect(0, <<Value(v)>>, NextPc)  BY <1>5 DEF Const
  <2>2. <<Value(v)>> \in Seq(Word)  BY <1>3, Words
  <2>3. EffectTaken  BY <1>z, <2>1, <2>2, Zenon DEF EffectTaken
  <2> QED  BY <1>0, <2>3
<1>6. CASE LoadLocal
  <2>1. PICK i \in 1 .. MaxLocals : Effect(0, <<vmStack[regs.var + i]>>, NextPc)  BY <1>6 DEF LoadLocal
  <2>2. vmStack[regs.var + i] \in Word  BY <1>1, WordsTaken
  <2>3. <<vmStack[regs.var + i]>> \in Seq(Word)  BY <1>3, <2>2
  <2>4. EffectTaken  BY <1>z, <2>1, <2>3, Zenon DEF EffectTaken
  <2> QED  BY <1>0, <2>4
<1>7. CASE StoreLocal
  <2>1. PICK i \in 1 .. MaxLocals : SetLocal(i, Operand(1), 1)  BY <1>7 DEF StoreLocal
  <2>2. Operand(1) \in Word
    <3>1. Depth > 0  BY <1>7 DEF StoreLocal
    <3>2. 1 \in 1 .. Depth  BY ONLY <3>1, <1>2
    <3> QED  BY <1>1, <3>2, WordsTaken
  <2> QED  BY <1>0, <2>1, <2>2 DEF LocalSet
<1>8. CASE IInc
  <2>1. PICK i \in 1 .. MaxLocals, v \in Values : SetLocal(i, Value(v), 0)  BY <1>8 DEF IInc
  <2>2. Value(v) \in Word  BY Words
  <2> QED  BY <1>0, <2>1, <2>2 DEF LocalSet
<1>9. CASE StackMove
  <2>1. PICK op \in StackOps :
          Depth >= op.pops /\ Effect(op.pops, [i \in 1 .. Len(op.picks) |-> Operand(op.picks[i])], NextPc)
    BY <1>9 DEF StackMove
  <2>2. op.pops \in 1 .. 4 /\ op.picks \in Seq(1 .. op.pops)  BY PicksTaken
  <2>3. PICK n \in Nat : n = Len(op.picks)  BY <2>2
  <2>4. \A j \in 1 .. op.pops : j \in 1 .. Depth
    <3>1. Depth >= op.pops /\ op.pops \in Nat  BY <2>1, <2>2
    <3> QED  BY ONLY <3>1, <1>2
  <2>5. \A i \in 1 .. n : op.picks[i] \in 1 .. op.pops  BY <2>2, <2>3, ElementOfSeq
  <2>6. \A i \in 1 .. n : Operand(op.picks[i]) \in Word
    <3>1. \A i \in 1 .. Depth : Operand(i) \in Word  BY <1>1, WordsTaken
    <3> QED  BY ONLY <2>4, <2>5, <3>1
  <2>7. [i \in 1 .. n |-> Operand(op.picks[i])] \in Seq(Word)  BY <2>6
  <2>8. [i \in 1 .. Len(op.picks) |-> Operand(op.picks[i])] \in Seq(Word) /\ op.pops \in 0 .. 4  BY <2>2, <2>3, <2>7
  <2>9. EffectTaken  BY <2>1, <2>8, Zenon DEF EffectTaken
  <2> QED  BY <1>0, <2>9
<1>10. CASE Arithmetic
  <2>1. PICK n \in 1 .. 2, v \in Values : Effect(n, <<Value(v)>>, NextPc)  BY <1>10 DEF Arithmetic
  <2>2. <<Value(v)>> \in Seq(Word) /\ n \in 0 .. 4  BY <1>3, Words
  <2> QED  BY <1>0, <2>1, <2>2 DEF EffectTaken
<1>11. CASE Consume
  <2>1. PICK n \in 1 .. 3 : Effect(n, << >>, NextPc)  BY <1>11 DEF Consume
  <2>2. n \in 0 .. 4  OBVIOUS
  <2> QED  BY <1>0, <1>4, <2>1, <2>2 DEF EffectTaken
<1>12. CASE Branch
  <2>1. PICK n \in 0 .. 2, pc \in 0 .. Code[regs.method].codeLength - 1 : Effect(n, << >>, pc)
    BY <1>12 DEF Branch
  <2>2. n \in 0 .. 4  OBVIOUS
  <2> QED  BY <1>0, <1>4, <2>1, <2>2 DEF EffectTaken
<1>13. CASE Jsr
  <2>1. PICK pc \in 0 .. Code[regs.method].codeLength - 1 : Effect(0, <<<<"pc", NextPc>>>>, pc)
    BY <1>13 DEF Jsr
  <2>2. NextPc \in Nat
    <3>1. regs.pc \in Nat  BY <1>1, RunningFacts
    <3> QED  BY ONLY <3>1 DEF NextPc
  <2>3. <<<<"pc", NextPc>>>> \in Seq(Word)  BY <1>3, <2>2, Words
  <2>4. EffectTaken  BY <1>z, <2>1, <2>3, Zenon DEF EffectTaken
  <2> QED  BY <1>0, <2>4
<1>14. CASE Ret
  <2>1. PICK i \in 1 .. MaxLocals : Effect(0, << >>, vmStack[regs.var + i][2])  BY <1>14 DEF Ret
  <2>2. EffectTaken  BY <1>z, <1>4, <2>1, Zenon DEF EffectTaken
  <2> QED  BY <1>0, <2>2
<1>15. CASE RuntimeError  BY <1>0, <1>15 DEF RuntimeError
<1> QED  BY <1>0, <1>5, <1>6, <1>7, <1>8, <1>9, <1>10, <1>11, <1>12, <1>13, <1>14, <1>15 DEF LocalStep

(* So the frames stay.                                                     *)
LEMMA LocalKeeps ==
  ASSUME FramesInv, LocalStep
  PROVE  FramesInv'
<1>1. at = "step" /\ (EffectTaken \/ LocalSet \/ GENERATE_EXCEPTION)  BY LocalIs
<1>2. Running  BY <1>1 DEF Running
<1>3. CASE EffectTaken
  <2>0. PICK pc : \E n \in 0 .. 4, ws \in Seq(Word) : Effect(n, ws, pc)  BY <1>3 DEF EffectTaken
  <2>1. PICK n \in 0 .. 4, ws \in Seq(Word) : Effect(n, ws, pc)  BY <2>0
  <2>2. n \in Nat  OBVIOUS
  <2> QED  BY <1>2, <2>1, <2>2, EffectKeeps
<1>4. CASE LocalSet
  <2>1. PICK i \in 1 .. MaxLocals, x \in Word, n \in 0 .. 1 : SetLocal(i, x, n)  BY <1>4 DEF LocalSet
  <2>2. n \in Nat  OBVIOUS
  <2> QED  BY <1>2, <2>1, <2>2, SetLocalKeeps
<1> QED  BY <1>1, <1>3, <1>4, ExitKeeps

(* Where nothing moves but the index of the search, the frames stay.       *)
LEMMA NothingMoves ==
  ASSUME FramesInv, at' = at \/ (Running /\ at' \in {"search", "wild"}) \/ at' = "beyond", exc' \in Word, k' \in Nat, todo' \subseteq Method,
         UNCHANGED <<vmStack, regs, base, nest, depths>>
  PROVE  FramesInv'
<1>1. TypesOK'  BY DEF FramesInv, TypesOK, NestOK
<1>2. at' = "main" => vmStack' = << >> /\ base' = 0 /\ nest' = << >> /\ depths' = << >>  BY DEF FramesInv, Running
<1>3. Running' => Running  BY DEF Running
<1>4. Running' => \E F : Frames(F, vmStack', regs', base', nest', depths')  BY <1>3 DEF FramesInv
<1>5. OverrunNeedsCatch'
  BY DEF FramesInv, Running, OverrunNeedsCatch, Leftovers, Depth, Table, LocalsEnd
<1> QED  BY <1>1, <1>2, <1>4, <1>5 DEF FramesInv

(* athrow and the search of the tables.                                    *)
LEMMA ThrowKeeps ==
  ASSUME FramesInv, ThrowStep
  PROVE  FramesInv'
<1>1. CASE Athrow
  <2>1. Running /\ Depth > 0 /\ exc' = Operand(1) /\ k' = 0 /\ at' = "search"
        /\ UNCHANGED <<vmStack, regs, base, nest, depths, todo>>
    BY <1>1 DEF Athrow, Does, Running
  <2>2. Depth \in Nat /\ Depth > 0  BY <2>1, Extent
  <2>3. 1 \in 1 .. Depth  BY ONLY <2>2
  <2>4. Operand(1) \in Word  BY <2>1, <2>3, WordsTaken
  <2>5. exc' \in Word /\ k' \in Nat /\ todo' \subseteq Method  BY <2>1, <2>4 DEF FramesInv, TypesOK
  <2> QED  BY <2>1, <2>5, NothingMoves
<1>2. CASE SearchHandler
  <2>1. Running /\ k < Len(Table) /\ UNCHANGED <<base, nest, exc, todo>>  BY <1>2 DEF SearchHandler, Running
  <2>2. exc \in Word /\ k \in Nat /\ todo \subseteq Method  BY DEF FramesInv, TypesOK
  <2>3. regs.method \in Method  BY <2>1, RunningFacts
  <2>4. Table \in Seq(Handler)  BY <2>3, FramesAssumption DEF Table
  <2>5. CASE /\ Entry(k) \in DOMAIN Table /\ Push(0, <<exc>>, Table[Entry(k)].handler)
             /\ depths' = [depths EXCEPT ![Len(depths)] = 1] /\ UNCHANGED k
    <3>1. PICK h : h = Table[Entry(k)]  OBVIOUS
    <3>2. h \in Handler  BY <2>4, <2>5, <3>1
    <3>3. PICK pc \in Nat : pc = h.handler  BY <3>2 DEF Handler
    <3>4. PICK ws : ws = <<exc>>  OBVIOUS
    <3>5. ws \in Seq(Word) /\ Len(ws) = 1  BY <2>2, <3>4
    <3>6. Table # << >>
      <4>1. Len(Table) # 0  BY <2>1, <2>2, <2>4
      <4> QED  BY <4>1
    <3>7. MaxStack > 0  BY <2>3, <3>6, FramesAssumption DEF Table, MaxStack
    <3>8. /\ Operands(regs) \in Nat /\ Operands(regs) = regs.stack - LocalsEnd(regs)
          /\ Limit = LocalsEnd(regs) + MaxStack
          /\ MaxStack \in Nat /\ LocalsEnd(regs) \in Nat /\ regs.stack \in Nat
      BY <2>1, Extent
    <3>9. /\ 0 <= Operands(regs) /\ 1 <= Operands(regs) - 0 + 1
          /\ regs.stack - 0 + 1 > Limit => 1 < Operands(regs) - 0 + 1
      BY ONLY <3>7, <3>8
    <3>10. exc' \in Word /\ k' \in Nat  BY <2>1, <2>2, <2>5
    <3>11. Push(0, ws, pc) /\ depths' = [depths EXCEPT ![Len(depths)] = 1]  BY <2>5, <3>1, <3>3, <3>4
    <3>12. UNCHANGED <<base, nest, todo>> /\ Running  BY <2>1
    <3> QED  BY <3>5, <3>6, <3>9, <3>10, <3>11, <3>12, PushKeeps
  <2>6. CASE k' = k + 1 /\ UNCHANGED <<vmStack, regs, at, depths>>
    <3>1. exc' \in Word /\ k' \in Nat /\ todo' \subseteq Method  BY <2>1, <2>2, <2>6
    <3> QED  BY <2>1, <2>6, <3>1, NothingMoves
  <2>7. CASE at' = "wild" /\ UNCHANGED <<vmStack, regs, k, depths>>
    <3>1. exc' \in Word /\ k' \in Nat /\ todo' \subseteq Method  BY <2>1, <2>2, <2>7
    <3> QED  BY <2>1, <2>7, <3>1, NothingMoves
  <2> QED  BY <1>2, <2>5, <2>6, <2>7 DEF SearchHandler
<1>3. CASE Unwind  BY <1>3, UnwindKeeps
<1> QED  BY <1>1, <1>2, <1>3 DEF ThrowStep

(* What main passes fits into the locals.                                  *)
LEMMA MainArgsFit ==
  ASSUME NEW a \in NumArgs
  PROVE  MainArgs(a) \in Seq(Word) /\ Len(MainArgs(a)) <= Code[Main].maxLocals
<1> DEFINE l == Code[Main].maxLocals
           n == IF a <= l THEN a ELSE l
<1>1. a \in Nat \ {0} /\ l \in Nat /\ Values # {}  BY FramesAssumption
<1>2. n \in Nat /\ n <= a /\ n <= l  BY ONLY <1>1
<1>3. PICK x : x = <<Value(CHOOSE v \in Values : TRUE)>>  OBVIOUS
<1>4. x \in Seq(Word) /\ Len(x) = 1
  <2>1. (CHOOSE v \in Values : TRUE) \in Values  BY <1>1
  <2>2. Value(CHOOSE v \in Values : TRUE) \in Word  BY <2>1, Words
  <2> QED  BY <1>3, <2>2
<1>5. PICK q \in Nat : q = a - 1
  <2>1. a - 1 \in Nat  BY ONLY <1>1
  <2> QED  BY <2>1
<1>6. PICK y : y = [i \in 1 .. q |-> Junk]  OBVIOUS
<1>7. y \in Seq(Word) /\ Len(y) = q  BY <1>6, Words
<1>8. IsJoin(Word, x \o y, x, Len(x), y, Len(y))  BY <1>4, <1>7, Joined
<1>9. MainParams(a) = x \o y  BY <1>3, <1>5, <1>6 DEF MainParams
<1>10. MainParams(a) \in Seq(Word) /\ Len(MainParams(a)) = a
  <2>1. 1 + q = a  BY ONLY <1>1, <1>5
  <2> QED  BY <2>1, <1>4, <1>7, <1>8, <1>9 DEF IsJoin
<1>11. MainArgs(a) = SubSeq(MainParams(a), 1, n)  BY DEF MainArgs
<1> HIDE DEF n, l
<1>12. PICK st : st = MainParams(a)  OBVIOUS
<1>13. st \in Seq(Word) /\ n <= Len(st)  BY <1>2, <1>10, <1>12
<1>14. PICK e \in Nat : e = n  BY <1>2
<1>15. SubSeq(st, 1, e) \in Seq(Word) /\ Len(SubSeq(st, 1, e)) = e  BY <1>13, <1>14, Prefix
<1> QED  BY <1>2, <1>11, <1>12, <1>14, <1>15 DEF l

(* Calls of bytecode and native methods, returns, jExecMethod.             *)
LEMMA CallKeeps ==
  ASSUME FramesInv, CallStep
  PROVE  FramesInv'
<1>0. exc \in Word /\ k \in Nat /\ todo \subseteq Method  BY DEF FramesInv, TypesOK
<1>1. CASE Invoke
  <2>1. Running  BY <1>1 DEF Invoke, Does, Running
  <2>2. PICK m \in Method :
          LET n == Code[m].paramsCount IN
          /\ ~Code[m].native /\ Depth >= n
          /\ IF FrameFits(m)
             THEN /\ Start(m, SavedRegs(n), SubSeq(vmStack, regs.stack - n + 1, regs.stack))
                  /\ depths' = Append([depths EXCEPT ![Len(depths)] = @ - n], 0)
                  /\ UNCHANGED <<base, nest, at, exc, k, todo>>
             ELSE GENERATE_EXCEPTION
    BY <1>1 DEF Invoke
  <2>3. CASE FrameFits(m)
    <3>1. Code[m].paramsCount <= Depth
      <4>1. Code[m].paramsCount \in Nat /\ Depth \in Nat  BY <2>1, FramesAssumption, Extent
      <4> QED  BY <2>2, <4>1
    <3>2. Calling(m)  BY <2>2, <2>3, <3>1 DEF Calling
    <3> QED  BY <2>1, <2>2, <2>3, <3>2, InvokeKeeps
  <2>4. CASE ~FrameFits(m)  BY <2>2, <2>4, ExitKeeps
  <2> QED  BY <2>3, <2>4
<1>2. CASE InvokeNative  BY <1>2, InvokeNativeKeeps
<1>3. CASE MethodReturn  BY <1>3, MethodReturnKeeps
<1>4. CASE RunStaticInit
  <2>1. PICK m \in todo \cap StaticInits :
          /\ todo' = todo \ {m}
          /\ IF Executable(m) THEN Enter(m, << >>)
             ELSE UNCHANGED <<vmStack, regs, base, nest, at, exc, k, depths>>
    BY <1>4 DEF RunStaticInit
  <2>2. at \in {"main", "step", "search"} /\ m \in Method /\ todo' \subseteq Method
    BY <1>0, <1>4, <2>1 DEF RunStaticInit
  <2>3. PICK args : args = << >>  OBVIOUS
  <2>4. args \in Seq(Word) /\ Len(args) <= Code[m].maxLocals
    <3>1. Code[m].maxLocals \in Nat  BY <2>2, FramesAssumption
    <3> QED  BY <2>3, <3>1
  <2>5. CASE Executable(m)  BY <2>1, <2>2, <2>3, <2>4, <2>5, EnterKeeps DEF Executable
  <2>6. CASE ~Executable(m)
    <3>1. exc' \in Word /\ k' \in Nat  BY <1>0, <2>1, <2>6
    <3> QED  BY <2>1, <2>2, <2>6, <3>1, NothingMoves
  <2> QED  BY <2>5, <2>6
<1>5. CASE RunMain
  <2>1. at = "main" /\ todo' = todo \ {Main}  BY <1>5 DEF RunMain
  <2>2. Main \in Method /\ todo' \subseteq Method  BY <1>0, <2>1, FramesAssumption
  <2>3. CASE \E n \in NumArgs : Executable(Main) /\ Enter(Main, MainArgs(n))
    <3>1. PICK n \in NumArgs : Executable(Main) /\ Enter(Main, MainArgs(n))  BY <2>3
    <3>2. PICK args : args = MainArgs(n)  OBVIOUS
    <3>3. args \in Seq(Word) /\ Len(args) <= Code[Main].maxLocals  BY <3>2, MainArgsFit
    <3> QED  BY <2>1, <2>2, <3>1, <3>2, <3>3, EnterKeeps DEF Executable
  <2>4. CASE (at' = at \/ at' = "beyond") /\ UNCHANGED <<vmStack, regs, base, nest, exc, k, depths>>
    <3>1. exc' \in Word /\ k' \in Nat  BY <1>0, <2>4
    <3> QED  BY <2>1, <2>2, <2>4, <3>1, NothingMoves
  <2> QED  BY <1>5, <2>3, <2>4 DEF RunMain
<1> QED  BY <1>1, <1>2, <1>3, <1>4, <1>5 DEF CallStep

(* FramesInv holds at first.                                               *)
LEMMA FramesInvInit == FramesInit => FramesInv
<1> SUFFICES ASSUME FramesInit PROVE FramesInv  OBVIOUS
<1>1. regs \in Registers  BY FramesAssumption DEF FramesInit, Registers
<1>2. vmStack \in Seq(Word) /\ Len(vmStack) < StackSize  BY FramesAssumption DEF FramesInit
<1>3. NestOK(nest)  BY DEF FramesInit, NestOK
<1>4. at = "main" /\ base \in Nat /\ k \in Nat /\ exc \in Word /\ todo \subseteq Method
  BY Words, FramesAssumption DEF FramesInit
<1>5. TypesOK  BY <1>1, <1>2, <1>3, <1>4 DEF TypesOK
<1> QED  BY <1>4, <1>5 DEF FramesInv, FramesInit, Running, OverrunNeedsCatch

(* And after every step.                                                   *)
LEMMA FramesInvNext ==
  ASSUME FramesInv, [FramesNext]_frameVars
  PROVE  FramesInv'
<1>1. CASE LocalStep  BY <1>1, LocalKeeps
<1>2. CASE CallStep  BY <1>2, CallKeeps
<1>3. CASE ThrowStep  BY <1>3, ThrowKeeps
<1>4. CASE UNCHANGED frameVars
  <2>1. exc' \in Word /\ k' \in Nat /\ todo' \subseteq Method /\ at' = at
        /\ UNCHANGED <<vmStack, regs, base, nest, depths>>
    BY <1>4 DEF FramesInv, TypesOK, frameVars, machineVars
  <2> QED  BY <2>1, NothingMoves
<1> QED  BY <1>1, <1>2, <1>3, <1>4 DEF FramesNext

(* FramesInv is an invariant.                                              *)
LEMMA FramesInvariant == FramesSpec => []FramesInv
<1>1. FramesInv /\ [FramesNext]_frameVars => FramesInv'  BY FramesInvNext
<1> QED  BY <1>1, FramesInvInit, PTL DEF FramesSpec

---------------------------------------------------------------------------
(* Regs is the sequence of frames. *)

Thrown(a, e) == IF a = "search" THEN e ELSE Junk
TopRegs == [r |-> regs, base |-> base, nest |-> Len(nest), thrown |-> Thrown(at, exc)]

\* What a return from up restores.
RegsBelow(up) ==
  IF up.r.var = up.base + 3
  THEN [r |-> nest[up.nest].regs, base |-> nest[up.nest].base, nest |-> up.nest - 1,
        thrown |-> Thrown(nest[up.nest].at, nest[up.nest].exc)]
  ELSE [up EXCEPT !.r = CallerRegs(SubSeq(vmStack, 1, up.r.var)), !.thrown = Junk]

\* g satisfies the equation that defines Regs.
IsRegs(g) == g = [i \in 1 .. Len(depths) |-> IF i = Len(depths) THEN TopRegs ELSE RegsBelow(g[i + 1])]

(* Regs is chosen by its equation.                                         *)
LEMMA RegsChosen == Regs = CHOOSE g : IsRegs(g)
BY DEF Regs, IsRegs, TopRegs, RegsBelow, Thrown

\* The frames F, with the exceptions on their way through them.
RegsOf(F) ==
  [i \in 1 .. Len(F) |->
     [r |-> F[i].r, base |-> F[i].base, nest |-> F[i].nest,
      thrown |-> IF i = Len(F) THEN Thrown(at, exc)
                 ELSE IF F[i + 1].r.var = F[i + 1].base + 3
                      THEN Thrown(nest[F[i + 1].nest].at, nest[F[i + 1].nest].exc) ELSE Junk]]

(* A set of numbers up to n has a greatest.                                *)
LEMMA GreatestOf ==
  ASSUME NEW n \in Nat, NEW S \in SUBSET (1 .. n), S # {}
  PROVE  \E x \in S : \A y \in S : y <= x
<1> DEFINE R == OpToRel(<, Nat)
           D == {n - x : x \in S}
<1>1. \A x \in S : x \in 1 .. n /\ n - x \in Nat  OBVIOUS
<1>2. D \subseteq Nat  BY <1>1
<1>3. PICK x0 \in S : TRUE  OBVIOUS
<1>4. n - x0 \in D  BY <1>3
<1>5. IsWellFoundedOn(R, Nat)  BY NatLessThanWellFounded, Zenon
<1> HIDE DEF D
<1>6. PICK m \in D : \A d \in D : ~(<<d, m>> \in R)
  <2> HIDE DEF R
  <2> QED  BY <1>2, <1>4, <1>5, WFMin
<1>7. \A d \in D : ~(d < m)  BY <1>2, <1>6 DEF OpToRel
<1> USE DEF D
<1> HIDE DEF R
<1>8. PICK x \in S : m = n - x  BY <1>6
<1>9. \A y \in S : n - y \in D  OBVIOUS
<1> HIDE DEF D
<1>10. \A y \in S : ~(n - y < n - x)  BY <1>7, <1>8, <1>9
<1>11. \A y \in S : y <= x  BY <1>1, <1>10
<1> QED  BY <1>11

(* Regs is what the invariant calls F.                                     *)
LEMMA RegsAre ==
  ASSUME FramesInv, Running, NEW F, Frames(F, vmStack, regs, base, nest, depths)
  PROVE  Regs = RegsOf(F)
<1> DEFINE G == RegsOf(F)
<1>1. regs \in Registers /\ base \in Nat /\ vmStack \in Seq(Word) /\ Len(nest) \in Nat  BY RunningFacts
<1>2. Len(F) \in Nat \ {0} /\ Len(depths) = Len(F)  BY <1>1, FrameFacts
<1>3. PICK n \in Nat : n = Len(F)  BY <1>2
<1>4. n \in 1 .. n /\ \A i \in 1 .. n : i # n => i + 1 \in 1 .. n /\ i + 1 > 1 /\ (i + 1) - 1 = i
  <2>1. n # 0  BY <1>2, <1>3
  <2> QED  BY ONLY <2>1, <1>3
<1>5. F[n] = [r |-> regs, base |-> base, nest |-> Len(nest)]  BY <1>3 DEF Frames
<1>6. G[n] = TopRegs  BY <1>3, <1>4, <1>5 DEF RegsOf, TopRegs
<1>7. ASSUME NEW i \in 1 .. n, i # n PROVE G[i] = RegsBelow(G[i + 1])
  <2>1. i + 1 \in 1 .. n /\ i + 1 > 1 /\ (i + 1) - 1 = i  BY <1>4, <1>7
  <2>2. FrameAt(F, i + 1, vmStack, nest, depths)  BY <2>1, <1>3 DEF Frames
  <2>3. F[i] = Below(F[i + 1], vmStack, nest)  BY <2>1, <2>2 DEF FrameAt
  <2>4. PICK e : e = G[i + 1].thrown  OBVIOUS
  <2>5. G[i + 1] = [r |-> F[i + 1].r, base |-> F[i + 1].base, nest |-> F[i + 1].nest, thrown |-> e]
    BY <2>1, <2>4, <1>3 DEF RegsOf
  <2>6. G[i] = [r |-> F[i].r, base |-> F[i].base, nest |-> F[i].nest,
                thrown |-> IF F[i + 1].r.var = F[i + 1].base + 3
                           THEN Thrown(nest[F[i + 1].nest].at, nest[F[i + 1].nest].exc) ELSE Junk]
    BY <1>3, <1>7 DEF RegsOf
  <2> HIDE DEF G
  <2>7. CASE F[i + 1].r.var = F[i + 1].base + 3
    <3>1. /\ F[i].r = nest[F[i + 1].nest].regs /\ F[i].base = nest[F[i + 1].nest].base
          /\ F[i].nest = F[i + 1].nest - 1
      BY <2>3, <2>7 DEF Below
    <3> QED  BY <2>5, <2>6, <2>7, <3>1 DEF RegsBelow
  <2>8. CASE F[i + 1].r.var # F[i + 1].base + 3
    <3>1. /\ F[i].r = CallerRegs(SubSeq(vmStack, 1, F[i + 1].r.var)) /\ F[i].base = F[i + 1].base
          /\ F[i].nest = F[i + 1].nest
      BY <2>3, <2>8 DEF Below
    <3>2. PICK q : q = CallerRegs(SubSeq(vmStack, 1, F[i + 1].r.var))  OBVIOUS
    <3>3. PICK u : u = G[i + 1]  OBVIOUS
    <3>4. u = [r |-> F[i + 1].r, base |-> F[i + 1].base, nest |-> F[i + 1].nest, thrown |-> e]  BY <2>5, <3>3
    <3>5. RegsBelow(u) = [u EXCEPT !.r = q, !.thrown = Junk]  BY <2>8, <3>2, <3>4 DEF RegsBelow
    <3>6. PICK v : v = RegsBelow(u)  OBVIOUS
    <3>7. v = [r |-> q, base |-> F[i + 1].base, nest |-> F[i + 1].nest, thrown |-> Junk]
      BY ONLY <3>4, <3>5, <3>6
    <3>8. G[i] = [r |-> q, base |-> F[i + 1].base, nest |-> F[i + 1].nest, thrown |-> Junk]
      BY <2>6, <2>8, <3>1, <3>2
    <3> QED  BY <3>3, <3>6, <3>7, <3>8
  <2> QED  BY <2>7, <2>8
<1>8. G = [i \in 1 .. n |-> G[i]]  BY <1>3 DEF RegsOf
<1> HIDE DEF G
<1>9. IsRegs(G)
  <2>1. [i \in 1 .. n |-> G[i]] = [i \in 1 .. n |-> IF i = n THEN TopRegs ELSE RegsBelow(G[i + 1])]
    BY <1>6, <1>7
  <2> QED  BY <2>1, <1>2, <1>3, <1>8 DEF IsRegs
<1>10. IsRegs(Regs)  BY <1>9, RegsChosen
<1> DEFINE g == Regs
<1> HIDE DEF g
<1>11. g = [i \in 1 .. n |-> IF i = n THEN TopRegs ELSE RegsBelow(g[i + 1])]  BY <1>2, <1>3, <1>10 DEF IsRegs, g
<1>12. g[n] = TopRegs /\ \A i \in 1 .. n : i # n => g[i] = RegsBelow(g[i + 1])  BY ONLY <1>4, <1>11
<1>13. \A i \in 1 .. n : g[i] = G[i]
  <2> DEFINE S == {i \in 1 .. n : g[i] # G[i]}
  <2>1. ASSUME S # {} PROVE FALSE
    <3>1. PICK x \in S : \A y \in S : y <= x  BY <2>1, GreatestOf
    <3>2. x \in 1 .. n /\ g[x] # G[x]  OBVIOUS
    <3>3. x # n  BY <3>2, <1>6, <1>12
    <3>4. x + 1 \in 1 .. n /\ ~(x + 1 <= x)  BY ONLY <3>2, <3>3, <1>3
    <3>5. g[x + 1] = G[x + 1]  BY <3>1, <3>4
    <3> QED  BY <3>2, <3>3, <3>5, <1>7, <1>12
  <2> QED  BY <2>1
<1>14. g = [i \in 1 .. n |-> g[i]]  BY ONLY <1>11
<1>15. [i \in 1 .. n |-> g[i]] = [i \in 1 .. n |-> G[i]]  BY ONLY <1>13
<1>16. g = G  BY ONLY <1>8, <1>14, <1>15
<1> QED  BY <1>16 DEF g, G

(* The frames are adjacent.                                                *)
LEMMA Adjacent == FramesInv => FramesAdjacent
<1> SUFFICES ASSUME FramesInv, Running PROVE FramesAdjacent  BY DEF FramesAdjacent
<1>1. PICK F : Frames(F, vmStack, regs, base, nest, depths)  BY RunningFacts
<1>2. regs \in Registers /\ base \in Nat /\ vmStack \in Seq(Word) /\ Len(nest) \in Nat  BY RunningFacts
<1>3. /\ Len(F) \in Nat \ {0} /\ Len(vmStack) = FrameEnd(regs) /\ F[Len(F)].r = regs
      /\ \A i \in 1 .. Len(F) : F[i].r \in Registers /\ FrameEnd(F[i].r) \in Nat /\ FrameEnd(F[i].r) <= Len(vmStack)
  BY <1>1, <1>2, FrameFacts, SMTT(40)
<1>4. PICK n \in Nat \ {0} : n = Len(F)  BY <1>3
<1>5. Regs = RegsOf(F)  BY <1>1, RegsAre
<1>6. RegsOf(F) \in Seq({RegsOf(F)[i] : i \in 1 .. n}) /\ Len(RegsOf(F)) = n /\ DOMAIN RegsOf(F) = 1 .. n
      /\ \A i \in 1 .. n : RegsOf(F)[i].r = F[i].r
  BY <1>4 DEF RegsOf
<1>7. ASSUME NEW i \in 1 .. n
      PROVE  /\ F[i].r.stack \in LocalsEnd(F[i].r) .. FrameEnd(F[i].r) - 2
             /\ SubSeq(vmStack, FrameEnd(F[i].r) - 1, FrameEnd(F[i].r)) = Suffix(F[i].r.method)
             /\ IF i = n THEN Len(vmStack) = FrameEnd(F[i].r) ELSE F[i + 1].r.var = FrameEnd(F[i].r) + 3
  <2>1. FrameAt(F, i, vmStack, nest, depths)  BY <1>1, <1>4 DEF Frames
  <2>2. InFrame(F[i].r, depths[i], vmStack)  BY <2>1 DEF FrameAt
  <2>3. F[i].r.stack \in LocalsEnd(F[i].r) .. FrameEnd(F[i].r) - 2  BY <2>2 DEF InFrame
  <2>4. SubSeq(vmStack, FrameEnd(F[i].r) - 1, FrameEnd(F[i].r)) = Suffix(F[i].r.method)
    <3>1. PICK e \in Nat : e = FrameEnd(F[i].r)  BY <1>3, <1>4
    <3>2. e - 1 \in Nat /\ e - 1 > 0 /\ e <= Len(vmStack)
      <4>1. F[i].r.var + 2 <= FrameEnd(F[i].r) /\ F[i].r.var \in Nat  BY <1>3, <1>4, Sizes
      <4>2. F[i].r.var + 2 <= e  BY <3>1, <4>1
      <4>3. e - 1 \in Nat /\ e - 1 > 0  BY ONLY <3>1, <4>1, <4>2
      <4>4. e <= Len(vmStack)  BY <3>1, <1>3, <1>4
      <4> QED  BY <4>3, <4>4
    <3>3. vmStack[e - 1] = <<"method", F[i].r.method>> /\ vmStack[e] = <<"class", F[i].r.method>>
      BY <2>2, <3>1 DEF InFrame
    <3>4. \A j \in e - 1 .. e : j = e - 1 \/ j = e  BY ONLY <3>1
    <3>5. <<"method", F[i].r.method>> \in Word /\ <<"class", F[i].r.method>> \in Word
      BY <1>3, <1>4, Words DEF Registers
    <3>6. \A j \in e - 1 .. e : vmStack[j] \in Word  BY ONLY <3>3, <3>4, <3>5
    <3>7. e - 1 \in Int /\ e \in Int /\ e - 1 <= e /\ e - (e - 1) + 1 = 2 /\ (e - 1) + 1 - 1 = e - 1 /\ (e - 1) + 2 - 1 = e
          /\ 1 \in 1 .. 2 /\ 2 \in 1 .. 2
      BY ONLY <3>1
    <3>8. /\ SubSeq(vmStack, e - 1, e) \in Seq(Word)
          /\ Len(SubSeq(vmStack, e - 1, e)) = IF e - 1 <= e THEN e - (e - 1) + 1 ELSE 0
          /\ \A j \in 1 .. e - (e - 1) + 1 : SubSeq(vmStack, e - 1, e)[j] = vmStack[(e - 1) + j - 1]
      BY ONLY <3>6, <3>7, SubSeqProperties
    <3>9. /\ Len(SubSeq(vmStack, e - 1, e)) = 2
          /\ SubSeq(vmStack, e - 1, e)[1] = <<"method", F[i].r.method>>
          /\ SubSeq(vmStack, e - 1, e)[2] = <<"class", F[i].r.method>>
      BY ONLY <3>3, <3>7, <3>8
    <3>10. SubSeq(vmStack, e - 1, e) = Suffix(F[i].r.method)
      <4>1. PICK q : q = SubSeq(vmStack, e - 1, e)  OBVIOUS
      <4>2. q \in Seq(Word) /\ Len(q) = 2 /\ q[1] = <<"method", F[i].r.method>> /\ q[2] = <<"class", F[i].r.method>>
        BY <3>8, <3>9, <4>1
      <4>3. q = <<<<"method", F[i].r.method>>, <<"class", F[i].r.method>>>>  BY ONLY <4>2
      <4> QED  BY <4>1, <4>3 DEF Suffix
    <3> QED  BY <3>1, <3>10
  <2>5. IF i = n THEN Len(vmStack) = FrameEnd(F[i].r) ELSE F[i + 1].r.var = FrameEnd(F[i].r) + 3
    <3>1. CASE i = n  BY <3>1, <1>3, <1>4
    <3>2. CASE i # n
      <4>1. i + 1 \in 1 .. n /\ i + 1 > 1 /\ (i + 1) - 1 = i  BY ONLY <3>2, <1>4, i \in 1 .. n
      <4>2. FrameAt(F, i + 1, vmStack, nest, depths)  BY <4>1, <1>1, <1>4 DEF Frames
      <4> QED  BY <3>2, <4>1, <4>2 DEF FrameAt
    <3> QED  BY <3>1, <3>2
  <2> QED  BY <2>3, <2>4, <2>5
<1>8. \A i \in 1 .. n : i # n => i + 1 \in 1 .. n  BY ONLY <1>4
<1>9. ASSUME NEW i \in 1 .. n
      PROVE  /\ RegsOf(F)[i].r.stack \in LocalsEnd(RegsOf(F)[i].r) .. FrameEnd(RegsOf(F)[i].r) - 2
             /\ SubSeq(vmStack, FrameEnd(RegsOf(F)[i].r) - 1, FrameEnd(RegsOf(F)[i].r)) = Suffix(RegsOf(F)[i].r.method)
             /\ IF i = n THEN Len(vmStack) = FrameEnd(RegsOf(F)[i].r)
                ELSE RegsOf(F)[i + 1].r.var = FrameEnd(RegsOf(F)[i].r) + 3
  <2>1. RegsOf(F)[i].r = F[i].r /\ (i # n => RegsOf(F)[i + 1].r = F[i + 1].r)  BY <1>6, <1>8
  <2> QED  BY <2>1, <1>7
<1> QED  BY <1>5, <1>6, <1>9 DEF FramesAdjacent

---------------------------------------------------------------------------
(* FramesTypeOK, an invariant: the registers are numbers, the stack stays  *)
(* below its limit and holds only words of the kinds that frames consist   *)
(* of.                                                                     *)
THEOREM FramesTypes == FramesSpec => []FramesTypeOK
<1>1. FramesInv => FramesTypeOK
  <2> SUFFICES ASSUME FramesInv PROVE FramesTypeOK  OBVIOUS
  <2>1. TypesOK  BY DEF FramesInv
  <2>2. ASSUME NEW i \in DOMAIN vmStack PROVE vmStack[i][1] \in Kinds
    <3>1. vmStack \in Seq(Word) /\ i \in 1 .. Len(vmStack)  BY <2>1 DEF TypesOK
    <3>2. vmStack[i] \in Word  BY <3>1, ElementOfSeq
    <3> QED  BY <3>2 DEF Word
  <2> QED  BY <2>1, <2>2 DEF TypesOK, FramesTypeOK, Registers, Kinds
<1> QED  BY <1>1, FramesInvariant, PTL

(* FramesAdjacent, an invariant: whatever calls, nested jExecMethods and   *)
(* exceptions built the stack, its frames follow one another without a gap *)
(* or an overlap, each with its operands in it and its method on top.      *)
THEOREM StackIsFrames == FramesSpec => []FramesAdjacent
BY FramesInvariant, Adjacent, PTL

(* OverrunNeedsCatch, an invariant: an operand stack that is pushed beyond *)
(* its end has operands that a caught exception left.                      *)
THEOREM OnlyCatchesOverrun == FramesSpec => []OverrunNeedsCatch
<1>1. FramesInv => OverrunNeedsCatch  BY DEF FramesInv
<1> QED  BY <1>1, FramesInvariant, PTL

---------------------------------------------------------------------------
(* The search of a table. *)

\* A jExecMethod with the registers r searches for the exception e, and has looked at n handlers.
NoneApplies(r, e, n) ==
  /\ e # Junk
  /\ Len(Code[r.method].excTable) <= 2 =>
       \A i \in 1 .. n :
         LET h == Code[r.method].excTable[i] IN
         ~(r.pc <= h.end /\ r.pc >= h.start /\ h.catch \notin NotFound /\ e = Value(h.catch))

\* So has every jExecMethod that was interrupted in the middle of a search.
SearchInv ==
  /\ at = "search" => NoneApplies(regs, exc, k)
  /\ \A i \in 1 .. Len(nest) : nest[i].at = "search" => NoneApplies(nest[i].regs, nest[i].exc, nest[i].k)
  /\ at = "wild" => Len(Table) > 2 \/ \E i \in DOMAIN Table : Table[i].catch = AnyClass

(* A table of two handlers is stepped through like any array.              *)
LEMMA EntryNext ==
  ASSUME NEW n \in Nat, n <= 2, NEW j \in Nat, j < n
  PROVE  Entry(j) = j + 1 /\ j + 1 \in 1 .. n
<1>1. j = 0 \/ j = 1  OBVIOUS
<1>2. CASE j = 0  BY <1>2 DEF Entry
<1>3. CASE j = 1  BY <1>3 DEF Entry
<1> QED  BY <1>1, <1>2, <1>3

(* No handler has been looked at yet.                                      *)
LEMMA NoneYet ==
  ASSUME NEW r, NEW e, e # Junk PROVE NoneApplies(r, e, 0)
BY DEF NoneApplies

(* The search of the tables.                                               *)
LEMMA ThrowSearches ==
  ASSUME FramesInv, SearchInv, ThrowStep
  PROVE  SearchInv'
<1>1. CASE Athrow
  <2>1. at' = "search" /\ k' = 0 /\ UNCHANGED <<regs, nest>>  BY <1>1 DEF Athrow
  <2>2. exc' # Junk  BY <1>1 DEF Athrow, Value, Junk
  <2> QED  BY <2>1, <2>2, NoneYet DEF SearchInv
<1>2. CASE SearchHandler
  <2>1. at = "search" /\ k < Len(Table) /\ UNCHANGED <<nest, exc>>  BY <1>2 DEF SearchHandler
  <2>2. Running  BY <2>1 DEF Running
  <2>3. regs.method \in Method /\ k \in Nat  BY <2>2, RunningFacts
  <2>4. Table \in Seq(Handler)  BY <2>3, FramesAssumption DEF Table
  <2>5. PICK n \in Nat : n = Len(Table)  BY <2>4
  <2>6. DOMAIN Table = 1 .. n  BY <2>4, <2>5
  <2>7. n <= 2 => Entry(k) = k + 1 /\ k + 1 \in 1 .. n  BY <2>1, <2>3, <2>5, EntryNext
  <2>8. CASE Push(0, <<exc>>, Table[Entry(k)].handler)
    <3>1. at' # "search" /\ at' # "wild"  BY <2>8 DEF Push
    <3> QED  BY <3>1, <2>1 DEF SearchInv
  <2>9. CASE /\ Entry(k) \in DOMAIN Table => ~Applies(Table[Entry(k)])
             /\ k' = k + 1 /\ UNCHANGED <<vmStack, regs, at, depths>>
    <3>1. NoneApplies(regs, exc, k)  BY <2>1 DEF SearchInv
    <3>2. \A i \in 1 .. k + 1 : i \in 1 .. k \/ i = k + 1  BY <2>3
    <3>3. n <= 2 => ~Applies(Table[k + 1])  BY <2>6, <2>7, <2>9
    <3>4. NoneApplies(regs, exc, k + 1)  BY <3>1, <3>2, <3>3, <2>5 DEF NoneApplies, Applies, Table
    <3> QED  BY <3>4, <2>1, <2>9 DEF SearchInv
  <2>10. CASE /\ Entry(k) \in DOMAIN Table => Table[Entry(k)].catch = AnyClass
              /\ at' = "wild" /\ UNCHANGED <<vmStack, regs, k, depths>>
    <3>1. n <= 2 => Entry(k) \in DOMAIN Table /\ Table[Entry(k)].catch = AnyClass  BY <2>6, <2>7, <2>10
    <3>2. Table' = Table  BY <2>10 DEF Table
    <3>3. Len(Table') > 2 \/ \E i \in DOMAIN Table' : Table'[i].catch = AnyClass  BY <3>1, <3>2, <2>5
    <3> QED  BY <3>3, <2>1, <2>10 DEF SearchInv
  <2> QED  BY <1>2, <2>8, <2>9, <2>10 DEF SearchHandler
<1>3. CASE Unwind
  <2>1. CASE GENERATE_EXCEPTION
    <3>1. at' = "exit" /\ nest' = nest  BY <2>1 DEF GENERATE_EXCEPTION
    <3> QED  BY <3>1 DEF SearchInv
  <2>2. CASE ReturnTo(PopFrame(vmStack, regs.method), << >>) /\ k' = 0 /\ nest' = nest /\ exc' = exc
    <3>1. at' = "overrun" \/ at' = at  BY <2>2 DEF ReturnTo
    <3>2. at = "search"  BY <1>3 DEF Unwind
    <3>3. NoneApplies(regs', exc', k')
      <4>1. exc # Junk  BY <3>2 DEF SearchInv, NoneApplies
      <4> QED  BY <4>1, <2>2, NoneYet
    <3> QED  BY <3>1, <3>2, <3>3, <2>2 DEF SearchInv
  <2> QED  BY <1>3, <2>1, <2>2 DEF Unwind
<1> QED  BY <1>1, <1>2, <1>3 DEF ThrowStep

(* Everything else leaves the searches alone, or takes one up again.       *)
LEMMA SearchInvNext ==
  ASSUME FramesInv, SearchInv, [FramesNext]_frameVars
  PROVE  SearchInv'
<1>0. nest \in Seq(Saved) /\ Len(nest) \in Nat  BY DEF FramesInv, TypesOK, NestOK
<1>1. ASSUME at' \notin {"search", "wild"}, nest' = nest PROVE SearchInv'  BY <1>1 DEF SearchInv
<1>2. ASSUME at' = at, UNCHANGED <<regs, exc, k, nest>> PROVE SearchInv'  BY <1>2 DEF SearchInv, Table
<1>3. ASSUME NEW m, NEW args, Enter(m, args) PROVE SearchInv'
  <2>1. PICK c : c = [regs |-> regs, base |-> base, at |-> at, exc |-> exc, k |-> k]  OBVIOUS
  <2>2. at' = "step" /\ nest' = Append(nest, c)  BY <1>3, <2>1 DEF Enter
  <2>3. PICK n \in Nat : n = Len(nest)  BY <1>0
  <2>4. Len(nest') = n + 1 /\ (\A i \in 1 .. n : nest'[i] = nest[i]) /\ nest'[n + 1] = c
    BY <1>0, <2>2, <2>3
  <2>5. \A i \in 1 .. n + 1 : i \in 1 .. n \/ i = n + 1  BY ONLY <2>3
  <2>6. c.at = at /\ c.regs = regs /\ c.exc = exc /\ c.k = k  BY <2>1
  <2> QED  BY <2>2, <2>3, <2>4, <2>5, <2>6 DEF SearchInv
<1>4. CASE LocalStep
  <2>1. ASSUME NEW pops, NEW ws, NEW pc, at = "step", Effect(pops, ws, pc) PROVE SearchInv'
    <3>1. at' \in {"step", "overrun"} /\ nest' = nest  BY <2>1 DEF Effect, Push
    <3> QED  BY <3>1, <1>1
  <2>2. ASSUME NEW i, NEW w, NEW pops, at = "step", SetLocal(i, w, pops) PROVE SearchInv'
    <3>1. at' = "step" /\ nest' = nest  BY <2>2 DEF SetLocal
    <3> QED  BY <3>1, <1>1
  <2>3. CASE RuntimeError  BY <2>3, <1>1 DEF RuntimeError, GENERATE_EXCEPTION
  <2> QED  BY <1>4, <2>1, <2>2, <2>3
       DEF LocalStep, Const, LoadLocal, StoreLocal, IInc, StackMove, Arithmetic, Consume, Branch, Jsr, Ret, Does
<1>5. CASE Invoke
  <2>1. at' \in {"step", "exit"} /\ nest' = nest  BY <1>5 DEF Invoke, Does, GENERATE_EXCEPTION
  <2> QED  BY <2>1, <1>1
<1>6. CASE InvokeNative
  <2>1. at' \in {"step", "exit", "overrun"} /\ nest' = nest
    BY <1>6 DEF InvokeNative, Does, GENERATE_EXCEPTION, ReturnTo
  <2> QED  BY <2>1, <1>1
<1>7. CASE MethodReturn
  <2>1. at = "step"  BY <1>7 DEF MethodReturn, Does
  <2>2. CASE Leave
    <3>1. Running  BY <2>1 DEF Running
    <3>2. Len(nest) >= 1
      <4>1. PICK F : Frames(F, vmStack, regs, base, nest, depths)  BY <3>1, RunningFacts
      <4>2. regs \in Registers /\ base \in Nat /\ vmStack \in Seq(Word) /\ Len(nest) \in Nat  BY <3>1, RunningFacts
      <4> QED  BY <4>1, <4>2, OnlyFrame
    <3>3. PICK n \in Nat : n = Len(nest)  BY <1>0
    <3>4. n \in 1 .. n /\ \A i \in 1 .. n - 1 : i \in 1 .. n  BY <3>2, <3>3
    <3>5. Len(nest') = n - 1 /\ \A i \in 1 .. n - 1 : nest'[i] = nest[i]
      <4>1. nest' = Front(nest) /\ Len(nest) > 0  BY <2>2, <3>2, <3>3 DEF Leave
      <4> QED  BY <4>1, <1>0, <3>3, FrontOf
    <3>6. PICK c : c = nest[n]  OBVIOUS
    <3>7. regs' = c.regs /\ at' = c.at /\ exc' = c.exc /\ k' = c.k  BY <2>2, <3>3, <3>6 DEF Leave, Last
    <3>8. c \in Saved  BY <1>0, <3>3, <3>4, <3>6, ElementOfSeq
    <3>9. at' # "wild"  BY <3>7, <3>8 DEF Saved
    <3>10. at' = "search" => NoneApplies(regs', exc', k')  BY <3>3, <3>4, <3>6, <3>7 DEF SearchInv
    <3> QED  BY <3>3, <3>4, <3>5, <3>9, <3>10 DEF SearchInv
  <2>3. CASE ReturnTo(PopFrame(vmStack, regs.method),
                      IF Code[regs.method].returns THEN <<Operand(1)>> ELSE << >>) /\ nest' = nest
    <3>1. at' \in {"step", "overrun"}  BY <2>1, <2>3 DEF ReturnTo
    <3> QED  BY <3>1, <2>3, <1>1
  <2> QED  BY <1>7, <2>2, <2>3 DEF MethodReturn
<1>8. CASE RunStaticInit
  <2>1. PICK m \in todo \cap StaticInits :
          IF Executable(m) THEN Enter(m, << >>)
          ELSE UNCHANGED <<vmStack, regs, base, nest, at, exc, k, depths>>
    BY <1>8 DEF RunStaticInit
  <2> QED  BY <2>1, <1>2, <1>3
<1>9. CASE RunMain
  <2>1. \/ UNCHANGED <<vmStack, regs, base, nest, at, exc, k, depths>>
        \/ \E args : Enter(Main, args)
        \/ at' = "beyond" /\ nest' = nest
    BY <1>9 DEF RunMain
  <2> QED  BY <2>1, <1>1, <1>2, <1>3
<1>10. CASE ThrowStep  BY <1>10, ThrowSearches
<1>11. CASE UNCHANGED frameVars
  <2>1. at' = at /\ UNCHANGED <<regs, exc, k, nest>>  BY <1>11 DEF frameVars, machineVars
  <2> QED  BY <2>1, <1>2
<1> QED  BY <1>4, <1>5, <1>6, <1>7, <1>8, <1>9, <1>10, <1>11 DEF FramesNext, CallStep

(* ShortTablesSearched, an invariant: a table of one or two handlers is    *)
(* searched in order, also by a search that a static initialiser           *)
(* interrupts; nothing that follows it in memory is taken for a handler,   *)
(* and only a handler for any exception makes the search read beyond the   *)
(* constants.                                                              *)
THEOREM ShortTablesAreSearched == FramesSpec => []ShortTablesSearched
<1>1. FramesInit => SearchInv  BY DEF FramesInit, SearchInv
<1>2. FramesInv /\ SearchInv /\ [FramesNext]_frameVars => SearchInv'  BY SearchInvNext
<1>3. SearchInv => ShortTablesSearched
  BY DEF SearchInv, NoneApplies, ShortTablesSearched, Applies, Table
<1> QED  BY <1>1, <1>2, <1>3, FramesInvariant, PTL DEF FramesSpec
=============================================================================
