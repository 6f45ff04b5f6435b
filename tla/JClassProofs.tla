----------------------------- MODULE JClassProofs -----------------------------
(***************************************************************************)
(* The loader for every set of class files, cyclic ones included, and      *)
(* every use of classes by static initialisers: a class is loaded and      *)
(* initialised once, after its superclass, and given out complete but for  *)
(* errors; casts and methods are looked up as the class files say.         *)
(***************************************************************************)
EXTENDS JClass, WellFoundedInduction, FiniteSetTheorems, TLAPS

ClassRec(n) == [name : DOMAIN File, parsed : 0 .. 3, super : 0 .. n]
TableOK == classes \in Seq(ClassRec(Len(classes)))

(* The C stack: main at the bottom, and every other entry is of a class    *)
(* that is in the table.                                                   *)
EntryOK(i, e) ==
  /\ e = Entry(e.fn, e.c, e.left, e.tolerant)
  /\ e.fn \in IF i = 1 THEN {"main"} ELSE {"code", "super", "clinit"}
  /\ IF i = 1 THEN e.c = 0 ELSE e.c \in 1 .. Len(classes)
StackOK ==
  /\ calls \in Seq(ToSet(calls)) /\ Len(calls) >= 1
  /\ \A i \in DOMAIN calls : EntryOK(i, calls[i])

(* jGetClass returns a class of the table, or none: with an error, or to   *)
(* the load of java/lang/Object.                                           *)
ControlOK ==
  /\ control.at \in {"run", "call", "return", "exit"}
  /\ control.at = "return" =>
       /\ control.c \in 0 .. Len(classes)
       /\ control.err = "EOK" /\ control.c = 0 => Top.fn = "super" /\ FileOf(Top.c).super = None

CountsOK == failures \in 0 .. MaxFailures /\ errors \subseteq 1 .. Len(classes)

(* The static initialisers that were started.                              *)
InitsOK ==
  /\ inits \in Seq(1 .. Len(classes))
  /\ \A i, j \in DOMAIN inits : inits[i] = inits[j] => i = j

NamesOnce == \A c, d \in Id : classes[c].name = classes[d].name => c = d

(* A load that waits for the superclass is the only one of its class, and  *)
(* the <clinit> is still to come.                                          *)
WaitsOnce ==
  \A i \in DOMAIN calls : calls[i].fn = "super" =>
    /\ classes[calls[i].c].parsed = 3
    /\ \A n \in DOMAIN inits : inits[n] # calls[i].c
    /\ \A j \in DOMAIN calls : calls[j].fn = "super" /\ calls[j].c = calls[i].c => i = j

(* A class is complete, or waits for its superclass, or met an error; one  *)
(* whose <clinit> runs waits no longer.                                    *)
Waits(c) == \E i \in DOMAIN calls : calls[i].fn = "super" /\ calls[i].c = c
CompleteInTime == \A c \in Id : Complete(c) \/ Waits(c) \/ c \in errors

LoadInv ==
  /\ TableOK /\ StackOK /\ ControlOK /\ CountsOK /\ InitsOK
  /\ NamesOnce /\ WaitsOnce /\ CompleteInTime

---------------------------------------------------------------------------
(* A set of numbers from 1 to n has a greatest.                            *)
LEMMA Greatest ==
  ASSUME NEW n \in Nat, NEW S \in SUBSET (1 .. n), S # {}
  PROVE  Max(S) \in S /\ \A y \in S : Max(S) >= y
<1> DEFINE R == OpToRel(<, Nat)
           D == {n - x : x \in S}
<1>1. \A x \in S : x \in 1 .. n /\ n - x \in Nat  OBVIOUS
<1>2. D \subseteq Nat  BY <1>1
<1>3. PICK x0 \in S : TRUE  OBVIOUS
<1>4. n - x0 \in D  BY <1>3
<1>5. IsWellFoundedOn(R, Nat)  BY NatLessThanWellFounded
<1> HIDE DEF D
<1>6. PICK m \in D : \A k \in D : ~(<<k, m>> \in R)
  <2> HIDE DEF R
  <2> QED  BY <1>2, <1>4, <1>5, WFMin
<1>7. \A k \in D : ~(k < m)  BY <1>2, <1>6 DEF OpToRel
<1> USE DEF D
<1>8. PICK x \in S : m = n - x  BY <1>6
<1>9. \A y \in S : n - y \in D  OBVIOUS
<1> HIDE DEF D, R
<1>10. \A y \in S : ~(n - y < n - x)  BY <1>7, <1>8, <1>9
<1>11. \A y \in S : x >= y  BY <1>1, <1>10
<1> QED  BY <1>11 DEF Max

(* The search of the hash table finds a class of the name if there is one. *)
LEMMA FoundRight ==
  ASSUME TableOK, NEW name
  PROVE  /\ Found(name) \in 0 .. Len(classes)
         /\ Found(name) = 0 => \A d \in DOMAIN classes : classes[d].name # name
<1> DEFINE I == {i \in 1 .. Len(classes) : classes[i].name = name}
<1>1. Found(name) = IF I # {} THEN Max(I) ELSE 0  BY DEF Found, SelectLastInSeq
<1>2. Len(classes) \in Nat /\ DOMAIN classes = 1 .. Len(classes)  BY DEF TableOK
<1>3. I # {} => Max(I) \in I  BY <1>2, Greatest
<1> QED  BY <1>1, <1>2, <1>3

---------------------------------------------------------------------------
(* Facts the actions share. *)

(* Every class of the table is a record, and the stack has a top.          *)
LEMMA Typed ==
  ASSUME LoadInv
  PROVE  /\ Len(classes) \in Nat /\ Id = 1 .. Len(classes)
         /\ \A c \in Id : classes[c] \in ClassRec(Len(classes))
         /\ Len(calls) \in Nat \ {0} /\ DOMAIN calls = 1 .. Len(calls)
         /\ Top = calls[Len(calls)]
         /\ Len(inits) \in Nat /\ DOMAIN inits = 1 .. Len(inits)
<1>1. Len(classes) \in Nat /\ Id = 1 .. Len(classes) /\ \A c \in Id : classes[c] \in ClassRec(Len(classes))
  BY DEF LoadInv, TableOK, Id
<1>2. Len(calls) \in Nat \ {0} /\ DOMAIN calls = 1 .. Len(calls)
  BY DEF LoadInv, StackOK, EntryOK
<1>3. Len(inits) \in Nat /\ DOMAIN inits = 1 .. Len(inits)
  BY DEF LoadInv, InitsOK
<1> QED  BY <1>1, <1>2, <1>3 DEF Top, Last

(* A sequence of anything is a sequence of what is in it, also without its *)
(* last elements or with others instead.                                   *)
LEMMA StackOfEntries ==
  ASSUME NEW S, NEW s \in Seq(S)
  PROVE  s \in Seq(ToSet(s))
<1>1. Len(s) \in Nat /\ s \in [1 .. Len(s) -> S]  OBVIOUS
<1>2. s \in [1 .. Len(s) -> ToSet(s)]  BY <1>1 DEF ToSet
<1> QED  BY <1>1, <1>2

(* Two entries pushed on a stack.                                          *)
LEMMA PushedTwo ==
  ASSUME NEW S, NEW s \in Seq(S), NEW e1 \in S, NEW e2 \in S, NEW t, t = s \o <<e1, e2>>
  PROVE  /\ t \in Seq(S) /\ Len(t) = Len(s) + 2 /\ Len(s) \in Nat /\ DOMAIN t = 1 .. Len(s) + 2
         /\ \A i \in 1 .. Len(s) : t[i] = s[i]
         /\ t[Len(s) + 1] = e1 /\ t[Len(s) + 2] = e2
<1>1. <<e1, e2>> \in Seq(S) /\ Len(<<e1, e2>>) = 2  OBVIOUS
<1>2. Len(s) \in Nat  OBVIOUS
<1>3. t \in Seq(S) /\ Len(t) = Len(s) + 2  BY <1>1, <1>2
<1>4. \A i \in 1 .. Len(s) + 2 : t[i] = IF i <= Len(s) THEN s[i] ELSE <<e1, e2>>[i - Len(s)]
  BY <1>1, <1>2
<1>5. t[Len(s) + 1] = <<e1, e2>>[1] /\ t[Len(s) + 2] = <<e1, e2>>[2]
  <2>1. Len(s) + 1 \in 1 .. Len(s) + 2 /\ ~(Len(s) + 1 <= Len(s)) /\ (Len(s) + 1) - Len(s) = 1  BY <1>2
  <2>2. Len(s) + 2 \in 1 .. Len(s) + 2 /\ ~(Len(s) + 2 <= Len(s)) /\ (Len(s) + 2) - Len(s) = 2  BY <1>2
  <2> QED  BY <2>1, <2>2, <1>4
<1>6. \A i \in 1 .. Len(s) : t[i] = s[i]
  <2>1. \A i \in 1 .. Len(s) : i \in 1 .. Len(s) + 2 /\ i <= Len(s)  BY <1>2
  <2> QED  BY <2>1, <1>4
<1> QED  BY <1>2, <1>3, <1>5, <1>6

(* What a step of code or of main does to the stack leaves the loads alone *)
(* that wait for a superclass.                                             *)
LEMMA LoadsAlone ==
  ASSUME LoadInv, UNCHANGED <<classes, inits, errors>>,
         \A i \in DOMAIN calls' : calls'[i].fn = "super" => i \in DOMAIN calls /\ calls'[i] = calls[i],
         \A i \in DOMAIN calls : calls[i].fn = "super" => i \in DOMAIN calls' /\ calls'[i] = calls[i]
  PROVE  WaitsOnce' /\ CompleteInTime'
<1>1. WaitsOnce'  BY DEF LoadInv, WaitsOnce
<1>2. \A c : Waits(c) => Waits(c)'  BY DEF Waits
<1>3. \A c : Complete(c)' <=> Complete(c)  BY DEF Complete, FileOf
<1>4. CompleteInTime'  BY <1>2, <1>3 DEF LoadInv, CompleteInTime, Id
<1> QED  BY <1>1, <1>4

(* A step that touches neither the table nor the stack.                    *)
LEMMA NothingLoaded ==
  ASSUME LoadInv, UNCHANGED <<classes, calls, inits, errors>>, failures' \in 0 .. MaxFailures, ControlOK'
  PROVE  LoadInv'
<1>1. TableOK' /\ StackOK' /\ CountsOK' /\ InitsOK' /\ NamesOnce'
  BY DEF LoadInv, TableOK, StackOK, EntryOK, CountsOK, InitsOK, NamesOnce, Id
<1>2. WaitsOnce' /\ CompleteInTime'  BY LoadsAlone
<1> QED  BY <1>1, <1>2 DEF LoadInv

(* A bounded number of failures.                                           *)
LEMMA Failing ==
  ASSUME LoadInv
  PROVE  /\ failures \in 0 .. MaxFailures
         /\ MayFail => failures' \in 0 .. MaxFailures
BY ClassAssumption DEF LoadInv, CountsOK, MayFail

---------------------------------------------------------------------------
(* jGetClass up to the call for the superclass. *)

(* A class found in the hash table is given out as it is.                  *)
LEMMA FoundInTableKeeps == LoadInv /\ FoundInTable => LoadInv'
<1> SUFFICES ASSUME LoadInv, FoundInTable PROVE LoadInv'  OBVIOUS
<1>1. Found(control.name) \in 0 .. Len(classes)  BY FoundRight DEF LoadInv
<1>2. ControlOK'  BY <1>1 DEF FoundInTable, ControlOK, Return
<1> QED  BY <1>2, NothingLoaded, Failing DEF FoundInTable

(* Without memory for a class nothing is kept of it.                       *)
LEMMA NoMemoryKeeps == LoadInv /\ NoMemory => LoadInv'
<1> SUFFICES ASSUME LoadInv, NoMemory PROVE LoadInv'  OBVIOUS
<1>1. PICK err \in {"ENOMEM", "ECONSTSFAIL"} : control' = Return(err, 0)  BY DEF NoMemory
<1>2. ControlOK'  BY <1>1, Typed DEF NoMemory, ControlOK, Return
<1> QED  BY <1>2, NothingLoaded, Failing DEF NoMemory

(* A class without a file is an error.                                     *)
LEMMA NoFileKeeps == LoadInv /\ NoFile => LoadInv'
<1> SUFFICES ASSUME LoadInv, NoFile PROVE LoadInv'  OBVIOUS
<1>1. ControlOK'  BY Typed DEF NoFile, ControlOK, Return
<1>2. failures' \in 0 .. MaxFailures  BY Failing DEF NoFile
<1> QED  BY <1>1, <1>2, NothingLoaded DEF NoFile

(* Without memory for the mirror the process ends.                         *)
LEMMA NoMirrorKeeps == LoadInv /\ NoMirror => LoadInv'
<1> SUFFICES ASSUME LoadInv, NoMirror PROVE LoadInv'  OBVIOUS
<1>1. ControlOK'  BY DEF NoMirror, ControlOK, Exit
<1> QED  BY <1>1, NothingLoaded, Failing DEF NoMirror

(* A new class has a name that no other class has.                         *)
LEMMA InsertKeeps ==
  ASSUME LoadInv, Asked, control.name \in DOMAIN File, NEW parsed \in 0 .. 3, Insert(parsed)
  PROVE  /\ TableOK' /\ NamesOnce'
         /\ Len(classes') = New /\ New \notin Id /\ New \in Nat \ {0}
         /\ DOMAIN classes' = Id \cup {New}
         /\ \A c \in Id : classes'[c] = classes[c]
         /\ classes'[New] = Structure(control.name, parsed)
<1> DEFINE n == Len(classes)  r == Structure(control.name, parsed)
<1>1. n \in Nat /\ Id = 1 .. n /\ DOMAIN classes = Id  BY Typed DEF Id
<1>2. classes \in Seq(ClassRec(n + 1))
  <2>1. ClassRec(n) \subseteq ClassRec(n + 1)  BY <1>1 DEF ClassRec
  <2>2. \A i \in 1 .. n : classes[i] \in ClassRec(n + 1)  BY <2>1, <1>1, Typed
  <2> QED  BY <2>2, <1>1 DEF LoadInv, TableOK
<1>3. r \in ClassRec(n + 1)  BY <1>1 DEF Structure, ClassRec
<1>4. classes' = Append(classes, r)  BY DEF Insert
<1>5. /\ classes' \in Seq(ClassRec(n + 1)) /\ Len(classes') = n + 1
      /\ \A c \in Id : classes'[c] = classes[c]
      /\ classes'[n + 1] = r
      /\ DOMAIN classes' = 1 .. n + 1
  BY <1>1, <1>2, <1>3, <1>4
<1>6. \A d \in Id : classes[d].name # r.name
  BY <1>1, FoundRight DEF Asked, LoadInv, Structure
<1>7. NamesOnce'
  <2> SUFFICES ASSUME NEW c \in 1 .. n + 1, NEW d \in 1 .. n + 1, classes'[c].name = classes'[d].name
               PROVE  c = d
    BY <1>5 DEF NamesOnce, Id
  <2>1. CASE c \in Id /\ d \in Id  BY <2>1, <1>5 DEF LoadInv, NamesOnce
  <2>2. CASE c = n + 1 \/ d = n + 1  BY <2>2, <1>1, <1>5, <1>6
  <2> QED  BY <2>1, <2>2, <1>1
<1>8. TableOK'  BY <1>5 DEF TableOK
<1>9. New = n + 1  BY DEF New
<1> HIDE DEF n, r
<1>10. New \notin Id /\ New \in Nat \ {0} /\ DOMAIN classes' = Id \cup {New}  BY <1>1, <1>5, <1>9
<1> QED  BY <1>5, <1>7, <1>8, <1>9, <1>10 DEF r

(* A class whose tables do not fit is in the table, with an error.         *)
LEMMA HalfLoadedKeeps == LoadInv /\ HalfLoaded => LoadInv'
<1> SUFFICES ASSUME LoadInv, HalfLoaded PROVE LoadInv'  OBVIOUS
<1>1. PICK parsed \in 0 .. 2 :
        /\ Insert(parsed) /\ errors' = errors \cup {New}
        /\ control' = Return(<<"EINTERFACEFAIL", "EFIELDSFAIL", "EMETHODSFAIL">>[parsed + 1], New)
  BY DEF HalfLoaded
<1>2. UNCHANGED <<calls, inits>> /\ failures' \in 0 .. MaxFailures /\ Asked /\ control.name \in DOMAIN File
  BY Failing DEF HalfLoaded
<1>3. /\ TableOK' /\ NamesOnce'
      /\ Len(classes') = New /\ New \notin Id /\ New \in Nat \ {0}
      /\ DOMAIN classes' = Id \cup {New}
      /\ \A c \in Id : classes'[c] = classes[c]
  BY <1>1, <1>2, InsertKeeps
<1>4. New = Len(classes) + 1 /\ Len(classes) \in Nat /\ Id = 1 .. Len(classes)  BY Typed DEF New
<1>5. StackOK'
  <2>1. \A i \in DOMAIN calls : calls[i].c \in 1 .. Len(classes) => calls[i].c \in 1 .. Len(classes')
    BY <1>3, <1>4
  <2> QED  BY <1>2, <2>1 DEF LoadInv, StackOK, EntryOK
<1>6. ControlOK'
  <2>1. <<"EINTERFACEFAIL", "EFIELDSFAIL", "EMETHODSFAIL">>[parsed + 1] # "EOK"  OBVIOUS
  <2>2. control'.at = "return" /\ control'.err # "EOK" /\ control'.c = New  BY <1>1, <2>1 DEF Return
  <2> QED  BY <2>2, <1>3, <1>4 DEF ControlOK
<1>7. CountsOK'
  <2>1. 1 .. Len(classes) \subseteq 1 .. Len(classes') /\ New \in 1 .. Len(classes')  BY <1>3, <1>4
  <2> QED  BY <2>1, <1>1, <1>2 DEF LoadInv, CountsOK
<1>8. InitsOK'
  <2>1. inits \in Seq(1 .. Len(classes'))  BY <1>3, <1>4 DEF LoadInv, InitsOK
  <2> QED  BY <1>2, <2>1 DEF LoadInv, InitsOK
<1>9. WaitsOnce'
  <2>1. \A i \in DOMAIN calls : calls[i].fn = "super" => calls[i].c \in Id
    BY <1>4 DEF LoadInv, StackOK, EntryOK
  <2> QED  BY <1>2, <1>3, <2>1 DEF LoadInv, WaitsOnce
<1>10. CompleteInTime'
  <2>1. \A c \in Id : Complete(c)' <=> Complete(c)  BY <1>2, <1>3 DEF Complete, FileOf
  <2>2. \A c : Waits(c) => Waits(c)'  BY <1>2 DEF Waits
  <2> QED  BY <1>1, <1>3, <2>1, <2>2 DEF LoadInv, CompleteInTime, Id
<1> QED  BY <1>3, <1>5, <1>6, <1>7, <1>8, <1>9, <1>10 DEF LoadInv

(* The class enters the table, and its load waits for the superclass.      *)
LEMMA ParseKeeps == LoadInv /\ Parse => LoadInv'
<1> SUFFICES ASSUME LoadInv, Parse PROVE LoadInv'  OBVIOUS
<1> DEFINE n == Len(calls)  e == Waiting("super", New)
<1>1. /\ Asked /\ control.name \in DOMAIN File /\ Insert(3) /\ calls' = Append(calls, e)
      /\ control' = IF File[control.name].super = None THEN Return("EOK", 0) ELSE Call(File[control.name].super)
      /\ UNCHANGED <<failures, inits, errors>>
  BY DEF Parse
<1>2. /\ TableOK' /\ NamesOnce'
      /\ Len(classes') = New /\ New \notin Id /\ New \in Nat \ {0}
      /\ DOMAIN classes' = Id \cup {New}
      /\ \A c \in Id : classes'[c] = classes[c]
      /\ classes'[New] = Structure(control.name, 3)
  <2>1. 3 \in 0 .. 3  OBVIOUS
  <2> QED  BY <2>1, <1>1, InsertKeeps
<1>3. New = Len(classes) + 1 /\ Len(classes) \in Nat /\ Id = 1 .. Len(classes)  BY Typed DEF New
<1>4. n \in Nat \ {0} /\ DOMAIN calls = 1 .. n /\ calls \in Seq(ToSet(calls))
  BY Typed DEF LoadInv, StackOK, EntryOK
<1>5. /\ calls' \in Seq(ToSet(calls) \cup {e}) /\ Len(calls') = n + 1 /\ DOMAIN calls' = 1 .. n + 1
      /\ \A i \in 1 .. n : calls'[i] = calls[i]
      /\ calls'[n + 1] = e
  BY <1>1, <1>4
<1>6. e = Entry(e.fn, e.c, e.left, e.tolerant) /\ e.fn = "super" /\ e.c = New
  BY DEF Waiting, Entry
<1> HIDE DEF e
<1>7. StackOK'
  <2>1. calls' \in Seq(ToSet(calls'))  BY <1>5, StackOfEntries
  <2>2. \A i \in 1 .. n : calls[i].c \in 1 .. Len(classes) => calls[i].c \in 1 .. Len(classes')
    BY <1>2, <1>3
  <2>3. \A i \in 1 .. n + 1 : i \in 1 .. n \/ i = n + 1  BY <1>4
  <2>4. New \in 1 .. Len(classes')  BY <1>2
  <2>5. Len(calls') >= 1   BY <1>4, <1>5 DEF LoadInv, StackOK, EntryOK
  <2>6. ASSUME NEW i \in DOMAIN calls'
        PROVE  EntryOK(i, calls[i])'
    <3>1. CASE i \in 1 .. n
      <4>1. calls'[i] = calls[i] /\ i \in DOMAIN calls  BY <3>1, <1>4, <1>5
      <4> QED  BY <4>1, <2>2, <1>4 DEF LoadInv, StackOK, EntryOK
    <3>2. CASE i = n + 1  BY <3>2, <1>4, <1>5, <1>6, <2>4 DEF EntryOK
    <3> QED  BY <3>1, <3>2, <2>3, <1>5
  <2> QED  BY <2>1, <2>5, <2>6 DEF StackOK, EntryOK
<1>8. ControlOK'
  <2>1. Top' = e  BY <1>5, <1>4 DEF Top, Last
  <2>2. FileOf(Top.c)' = File[control.name]  BY <2>1, <1>2, <1>6 DEF FileOf, Structure
  <2>3. CASE File[control.name].super = None
    BY <2>1, <2>2, <2>3, <1>1, <1>2, <1>6 DEF ControlOK, Return
  <2>4. CASE File[control.name].super # None  BY <2>4, <1>1 DEF ControlOK, Call
  <2> QED  BY <2>3, <2>4
<1>9. CountsOK'  BY <1>1, <1>2, <1>3 DEF LoadInv, CountsOK
<1>10. InitsOK'
  <2>1. inits \in Seq(1 .. Len(classes'))  BY <1>2, <1>3 DEF LoadInv, InitsOK
  <2> QED  BY <1>1, <2>1 DEF LoadInv, InitsOK
<1>11. WaitsOnce'
  <2>1. \A i \in 1 .. n : calls[i].fn = "super" => calls[i].c \in Id
    BY <1>3, <1>4 DEF LoadInv, StackOK, EntryOK
  <2>2. \A m \in DOMAIN inits : inits[m] \in Id  BY <1>3 DEF LoadInv, InitsOK
  <2>3. classes'[New].parsed = 3  BY <1>2 DEF Structure
  <2> SUFFICES ASSUME NEW i \in 1 .. n + 1, calls'[i].fn = "super"
               PROVE  /\ classes'[calls'[i].c].parsed = 3
                      /\ \A m \in DOMAIN inits : inits[m] # calls'[i].c
                      /\ \A j \in 1 .. n + 1 : calls'[j].fn = "super" /\ calls'[j].c = calls'[i].c => i = j
    BY <1>1, <1>5 DEF WaitsOnce
  <2>4. \A j \in 1 .. n + 1 : j \in 1 .. n \/ j = n + 1  BY <1>4
  <2>5. CASE i \in 1 .. n
    <3>1. calls'[i] = calls[i] /\ calls[i].c \in Id  BY <2>5, <2>1, <1>5
    <3>2. \A j \in 1 .. n : calls'[j].fn = "super" /\ calls'[j].c = calls'[i].c => i = j
      BY <2>5, <3>1, <1>4, <1>5 DEF LoadInv, WaitsOnce
    <3>3. calls'[n + 1].c # calls'[i].c  BY <3>1, <1>2, <1>5, <1>6
    <3>4. classes'[calls'[i].c].parsed = 3 /\ \A m \in DOMAIN inits : inits[m] # calls'[i].c
      BY <2>5, <3>1, <1>2, <1>4 DEF LoadInv, WaitsOnce
    <3> QED  BY <3>2, <3>3, <3>4, <2>4
  <2>6. CASE i = n + 1
    <3>1. calls'[i].c = New  BY <2>6, <1>5, <1>6
    <3>2. \A j \in 1 .. n : calls'[j].fn = "super" => calls'[j].c # New  BY <2>1, <1>2, <1>5
    <3> QED  BY <3>1, <3>2, <2>2, <2>3, <2>4, <2>6, <1>2
  <2> QED  BY <2>4, <2>5, <2>6
<1>12. CompleteInTime'
  <2>1. \A c \in Id : Complete(c)' <=> Complete(c)  BY <1>1, <1>2 DEF Complete, FileOf
  <2>2. \A c : Waits(c) => Waits(c)'  BY <1>4, <1>5 DEF Waits
  <2>3. \A c : c = New => Waits(c)'  BY <1>4, <1>5, <1>6 DEF Waits
  <2> QED  BY <1>1, <1>2, <2>1, <2>2, <2>3 DEF LoadInv, CompleteInTime, Id
<1> QED  BY <1>2, <1>7, <1>8, <1>9, <1>10, <1>11, <1>12 DEF LoadInv

---------------------------------------------------------------------------
(* The superclass and <clinit>. *)

(* Only main is at the bottom of the stack: anything else can be popped.   *)
LEMMA Popped ==
  ASSUME LoadInv, Top.fn # "main"
  PROVE  LET n == Len(calls) IN
         /\ n \in Nat /\ n >= 2 /\ n \in DOMAIN calls /\ Top = calls[n] /\ DOMAIN calls = 1 .. n
         /\ Front(calls) \in Seq(ToSet(calls)) /\ Len(Front(calls)) = n - 1
         /\ \A i \in 1 .. n - 1 : Front(calls)[i] = calls[i]
<1> DEFINE n == Len(calls)
<1>1. n \in Nat \ {0} /\ DOMAIN calls = 1 .. n /\ Top = calls[n]  BY Typed
<1>2. (n = 1 => Top.fn = "main") /\ calls \in Seq(ToSet(calls))  BY <1>1 DEF LoadInv, StackOK, EntryOK
<1>3. n >= 2  BY <1>1, <1>2
<1>4. Front(calls) = SubSeq(calls, 1, n - 1)  BY DEF Front
<1> QED  BY <1>1, <1>2, <1>3, <1>4

(* The superclass a load waited for is linked, and nothing else changes.   *)
LEMMA Linked ==
  ASSUME LoadInv, Returned("super"), control.err = "EOK",
         classes' = [classes EXCEPT ![Top.c].super = control.c]
  PROVE  /\ TableOK' /\ NamesOnce'
         /\ Top.c \in Id /\ Len(classes') = Len(classes) /\ DOMAIN classes' = Id
         /\ \A d \in Id : classes'[d].parsed = classes[d].parsed /\ FileOf(d)' = FileOf(d)
         /\ \A d \in Id \ {Top.c} : classes'[d] = classes[d]
         /\ classes'[Top.c].super = 0 => FileOf(Top.c).super = None
<1> DEFINE n == Len(classes)
<1>1. n \in Nat /\ Id = 1 .. n /\ DOMAIN classes = Id /\ \A c \in Id : classes[c] \in ClassRec(n)
  BY Typed DEF Id
<1>2. Top.c \in Id /\ control.c \in 0 .. n /\ (control.c = 0 => FileOf(Top.c).super = None)
  <2>1. Len(calls) \in DOMAIN calls /\ Top = calls[Len(calls)]  BY Typed
  <2> QED  BY <2>1, <1>1 DEF LoadInv, StackOK, EntryOK, ControlOK, Returned
<1>3. /\ DOMAIN classes' = 1 .. n
      /\ \A d \in Id : classes'[d] = IF d = Top.c THEN [classes[d] EXCEPT !.super = control.c] ELSE classes[d]
  BY <1>1, <1>2
<1>4. \A d \in Id : classes'[d] \in ClassRec(n)
                   /\ classes'[d].name = classes[d].name /\ classes'[d].parsed = classes[d].parsed
  BY <1>1, <1>2, <1>3 DEF ClassRec
<1>5. classes'[Top.c].super = control.c  BY <1>1, <1>2, <1>3 DEF ClassRec
<1>6. Len(classes') = n /\ classes' \in Seq(ClassRec(n))
  <2>1. classes' \in [1 .. n -> ClassRec(n)]
    <3>1. classes' = [d \in 1 .. n |-> classes'[d]]
      BY <1>1
    <3> QED  BY <3>1, <1>1, <1>4
  <2> QED  BY <2>1, <1>1
<1>7. NamesOnce'  BY <1>1, <1>3, <1>4 DEF LoadInv, NamesOnce, Id
<1>8. \A d \in Id : FileOf(d)' = FileOf(d)  BY <1>4 DEF FileOf
<1> QED  BY <1>1, <1>2, <1>3, <1>4, <1>5, <1>6, <1>7, <1>8 DEF TableOK

(* A load that waited for the superclass leaves the stack; others stay.    *)
LEMMA SuperReturnedKeeps == LoadInv /\ SuperReturned => LoadInv'
<1> SUFFICES ASSUME LoadInv, SuperReturned PROVE LoadInv'  OBVIOUS
<1> DEFINE n == Len(calls)  c == Top.c
<1>1. Returned("super") /\ Top.fn = "super"  BY DEF SuperReturned, Returned
<1>2. /\ n \in Nat /\ n >= 2 /\ n \in DOMAIN calls /\ Top = calls[n] /\ DOMAIN calls = 1 .. n
      /\ Front(calls) \in Seq(ToSet(calls)) /\ Len(Front(calls)) = n - 1
      /\ \A i \in 1 .. n - 1 : Front(calls)[i] = calls[i]
  BY <1>1, Popped
<1>3. Len(classes) \in Nat /\ Id = 1 .. Len(classes)  BY Typed
<1>4. c \in Id /\ classes[c].parsed = 3 /\ \A m \in DOMAIN inits : inits[m] # c
  BY <1>1, <1>2, <1>3 DEF LoadInv, StackOK, EntryOK, WaitsOnce
<1>5. \A i \in 1 .. n - 1 : calls[i].fn = "super" => calls[i].c # c
  BY <1>1, <1>2 DEF LoadInv, WaitsOnce
<1>6. \A d : d # c /\ Waits(d) => \E i \in 1 .. n - 1 : calls[i].fn = "super" /\ calls[i].c = d
  BY <1>2 DEF Waits
<1> HIDE DEF n, c
<1>7. CASE control.err # "EOK"
  <2>1. /\ calls' = Front(calls) /\ control' = Return(control.err, c) /\ errors' = errors \cup {c}
        /\ UNCHANGED <<classes, failures, inits>>
    BY <1>7 DEF SuperReturned, c
  <2>2. /\ calls' \in Seq(ToSet(calls)) /\ Len(calls') = n - 1 /\ DOMAIN calls' = 1 .. n - 1
        /\ \A i \in 1 .. n - 1 : calls'[i] = calls[i]
    BY <2>1, <1>2
  <2>3. StackOK'
    <3>1. calls' \in Seq(ToSet(calls'))  BY <2>2, StackOfEntries
    <3>2. Len(calls') >= 1   BY <1>2, <2>2 DEF LoadInv, StackOK, EntryOK
    <3> QED  BY <3>1, <3>2, <2>1, <2>2, <1>2 DEF LoadInv, StackOK, EntryOK
  <2>4. ControlOK'  BY <2>1, <1>3, <1>4, <1>7 DEF ControlOK, Return
  <2>5. TableOK' /\ CountsOK' /\ InitsOK' /\ NamesOnce'
    BY <2>1, <1>3, <1>4 DEF LoadInv, TableOK, CountsOK, InitsOK, NamesOnce, Id
  <2>6. WaitsOnce'  BY <2>1, <2>2, <1>2 DEF LoadInv, WaitsOnce
  <2>7. CompleteInTime'
    <3>1. \A d : Complete(d)' <=> Complete(d)  BY <2>1 DEF Complete, FileOf
    <3>2. ASSUME NEW d, d # c, Waits(d) PROVE Waits(d)'
      <4>1. PICK i \in 1 .. n - 1 : calls[i].fn = "super" /\ calls[i].c = d  BY <3>2, <1>6
      <4>2. i \in DOMAIN calls' /\ calls'[i] = calls[i]  BY <2>2
      <4> QED  BY <4>1, <4>2 DEF Waits
    <3> QED  BY <3>1, <3>2, <2>1 DEF LoadInv, CompleteInTime, Id
  <2> QED  BY <2>3, <2>4, <2>5, <2>6, <2>7 DEF LoadInv
<1>8. CASE control.err = "EOK"
  <2>1. classes' = [classes EXCEPT ![c].super = control.c] /\ StaticInit(c, Front(calls))
    BY <1>8 DEF SuperReturned, c
  <2>2. /\ TableOK' /\ NamesOnce'
        /\ Len(classes') = Len(classes) /\ DOMAIN classes' = Id
        /\ \A d \in Id : classes'[d].parsed = classes[d].parsed /\ FileOf(d)' = FileOf(d)
        /\ \A d \in Id \ {c} : classes'[d] = classes[d]
        /\ classes'[c].super = 0 => FileOf(c).super = None
    BY <2>1, <1>1, <1>8, Linked DEF c
  <2>3. \A m \in DOMAIN inits : inits[m] \in Id  BY <1>3 DEF LoadInv, InitsOK
  <2>4. CASE /\ "<clinit>" \in FileOf(c).methods
             /\ calls' = Front(calls) \o <<Waiting("clinit", c), Entry("code", c, Uses[classes[c].name], FALSE)>>
             /\ control' = Run /\ inits' = Append(inits, c)
             /\ UNCHANGED <<failures, errors>>
    <3> DEFINE e1 == Waiting("clinit", c)
               e2 == Entry("code", c, Uses[classes[c].name], FALSE)
    <3>1. /\ e1 = Entry(e1.fn, e1.c, e1.left, e1.tolerant) /\ e1.fn = "clinit" /\ e1.c = c
          /\ e2 = Entry(e2.fn, e2.c, e2.left, e2.tolerant) /\ e2.fn = "code" /\ e2.c = c
      BY DEF Waiting, Entry
    <3> HIDE DEF e1, e2
    <3>2. /\ calls' \in Seq(ToSet(calls) \cup {e1, e2}) /\ Len(calls') = n + 1 /\ DOMAIN calls' = 1 .. n + 1
          /\ \A i \in 1 .. n - 1 : calls'[i] = calls[i]
          /\ calls'[n] = e1 /\ calls'[n + 1] = e2
      <4>1. calls' = Front(calls) \o <<e1, e2>>  BY <2>4 DEF e1, e2
      <4>2. Front(calls) \in Seq(ToSet(calls) \cup {e1, e2})  BY <1>2
      <4> DEFINE s == Front(calls)
      <4>3. /\ calls' \in Seq(ToSet(calls) \cup {e1, e2}) /\ Len(calls') = Len(s) + 2
            /\ DOMAIN calls' = 1 .. Len(s) + 2
            /\ \A i \in 1 .. Len(s) : calls'[i] = s[i]
            /\ calls'[Len(s) + 1] = e1 /\ calls'[Len(s) + 2] = e2
        <5> HIDE DEF s
        <5>1. s \in Seq(ToSet(calls) \cup {e1, e2}) /\ calls' = s \o <<e1, e2>>  BY <4>1, <4>2 DEF s
        <5> QED  BY <5>1, PushedTwo
      <4>4. Len(s) = n - 1 /\ Len(s) + 1 = n /\ Len(s) + 2 = n + 1 /\ \A i \in 1 .. n - 1 : s[i] = calls[i]
        BY <1>2
      <4> HIDE DEF s
      <4> QED  BY <4>3, <4>4
    <3>3. \A i \in 1 .. n + 1 : i \in 1 .. n - 1 \/ i = n \/ i = n + 1  BY <1>2
    <3>4. StackOK'
      <4>1. calls' \in Seq(ToSet(calls'))  BY <3>2, StackOfEntries
      <4>2. Len(calls') >= 1   BY <1>2, <3>2 DEF LoadInv, StackOK, EntryOK
      <4>3. ASSUME NEW i \in DOMAIN calls'
            PROVE  EntryOK(i, calls[i])'
        <5>1. CASE i \in 1 .. n - 1
          <6>1. calls'[i] = calls[i] /\ i \in DOMAIN calls  BY <5>1, <1>2, <3>2
          <6> QED  BY <6>1, <2>2 DEF LoadInv, StackOK, EntryOK
        <5>2. CASE i = n \/ i = n + 1  BY <5>2, <3>1, <3>2, <2>2, <1>2, <1>3, <1>4 DEF EntryOK
        <5> QED  BY <5>1, <5>2, <3>2, <3>3
      <4> QED  BY <4>1, <4>2, <4>3 DEF StackOK, EntryOK
    <3>5. ControlOK'  BY <2>4 DEF ControlOK, Run
    <3>6. CountsOK'  BY <2>2, <2>4 DEF LoadInv, CountsOK
    <3>7. InitsOK'
      <4>1. inits \in Seq(1 .. Len(classes))  BY DEF LoadInv, InitsOK
      <4>2. inits' \in Seq(1 .. Len(classes')) /\ Len(inits') = Len(inits) + 1 /\ Len(inits) \in Nat
            /\ DOMAIN inits' = 1 .. Len(inits) + 1 /\ DOMAIN inits = 1 .. Len(inits)
        BY <4>1, <2>2, <2>4, <1>3, <1>4
      <4>3. /\ \A m \in 1 .. Len(inits) : inits'[m] = inits[m] /\ inits[m] # c
            /\ inits'[Len(inits) + 1] = c
        <5>1. c \in 1 .. Len(classes) /\ inits' = Append(inits, c)  BY <2>4, <1>3, <1>4
        <5> QED  BY <5>1, <4>1, <4>2, <1>4
      <4>4. \A m \in 1 .. Len(inits) + 1 : m \in 1 .. Len(inits) \/ m = Len(inits) + 1  BY <4>2
      <4>5. \A i, j \in 1 .. Len(inits) + 1 : inits'[i] = inits'[j] => i = j
        BY <4>2, <4>3, <4>4 DEF LoadInv, InitsOK
      <4> QED  BY <4>2, <4>5 DEF InitsOK
    <3>8. \A m \in DOMAIN inits' : inits'[m] = c \/ \E k \in DOMAIN inits : inits'[m] = inits[k]
      BY <2>4, <1>3 DEF LoadInv, InitsOK
    <3>9. WaitsOnce'
      <4> SUFFICES ASSUME NEW i \in DOMAIN calls', calls'[i].fn = "super"
                   PROVE  /\ classes'[calls'[i].c].parsed = 3
                          /\ \A m \in DOMAIN inits' : inits'[m] # calls'[i].c
                          /\ \A j \in DOMAIN calls' : calls'[j].fn = "super" /\ calls'[j].c = calls'[i].c => i = j
        BY DEF WaitsOnce
      <4>1. i \in 1 .. n - 1 /\ calls'[i] = calls[i] /\ i \in DOMAIN calls  BY <3>1, <3>2, <3>3, <1>2
      <4>2. calls[i].c \in Id /\ calls[i].c # c  BY <4>1, <1>3, <1>5 DEF LoadInv, StackOK, EntryOK
      <4>3. classes'[calls'[i].c].parsed = 3 /\ \A k \in DOMAIN inits : inits[k] # calls[i].c
        BY <4>1, <4>2, <2>2 DEF LoadInv, WaitsOnce
      <4>4. ASSUME NEW j \in DOMAIN calls', calls'[j].fn = "super", calls'[j].c = calls'[i].c PROVE i = j
        <5>1. j \in 1 .. n - 1 /\ calls'[j] = calls[j] /\ j \in DOMAIN calls  BY <4>4, <3>1, <3>2, <3>3, <1>2
        <5> QED  BY <5>1, <4>1, <4>4 DEF LoadInv, WaitsOnce
      <4> QED  BY <4>1, <4>2, <4>3, <4>4, <3>8
    <3>10. CompleteInTime'
      <4>1. ToSet(inits) \subseteq ToSet(inits') /\ c \in ToSet(inits')
        <5>1. inits \in Seq(1 .. Len(classes)) /\ c \in 1 .. Len(classes) /\ inits' = Append(inits, c)
          BY <2>4, <1>3, <1>4 DEF LoadInv, InitsOK
        <5>2. /\ \A m \in DOMAIN inits : m \in DOMAIN inits' /\ inits'[m] = inits[m]
              /\ Len(inits) + 1 \in DOMAIN inits' /\ inits'[Len(inits) + 1] = c
          BY <5>1
        <5> QED  BY <5>2 DEF ToSet
      <4>2. \A d \in Id \ {c} : Complete(d) => Complete(d)'
        BY <4>1, <2>2 DEF Complete
      <4>3. \A d : d = c => Complete(d)'  BY <4>1, <2>2, <1>4 DEF Complete
      <4>4. \A d : d # c /\ Waits(d) => Waits(d)'  BY <1>6, <1>2, <3>2 DEF Waits
      <4> QED  BY <4>2, <4>3, <4>4, <2>2, <2>4 DEF LoadInv, CompleteInTime, Id
    <3> QED  BY <2>2, <3>4, <3>5, <3>6, <3>7, <3>9, <3>10 DEF LoadInv
  <2>5. CASE /\ IF "<clinit>" \in FileOf(c).methods THEN MayFail /\ errors' = errors \cup {c}
                ELSE UNCHANGED <<failures, errors>>
             /\ calls' = Front(calls) /\ control' = Return("EOK", c) /\ UNCHANGED inits
    <3>2. /\ calls' \in Seq(ToSet(calls)) /\ Len(calls') = n - 1 /\ DOMAIN calls' = 1 .. n - 1
          /\ \A i \in 1 .. n - 1 : calls'[i] = calls[i]
      BY <2>5, <1>2
    <3>3. StackOK'
      <4>1. calls' \in Seq(ToSet(calls'))  BY <3>2, StackOfEntries
      <4>2. Len(calls') >= 1   BY <1>2, <3>2 DEF LoadInv, StackOK, EntryOK
      <4> QED  BY <4>1, <4>2, <2>2, <3>2, <1>2 DEF LoadInv, StackOK, EntryOK
    <3>4. ControlOK'  BY <2>2, <2>5, <1>3, <1>4 DEF ControlOK, Return
    <3>5. CountsOK'  BY <2>2, <2>5, <1>3, <1>4, Failing DEF LoadInv, CountsOK
    <3>6. InitsOK'  BY <2>2, <2>5 DEF LoadInv, InitsOK
    <3>7. WaitsOnce'
      <4>1. \A i \in 1 .. n - 1 : calls[i].fn = "super" => calls[i].c \in Id
        BY <1>2, <1>3 DEF LoadInv, StackOK, EntryOK
      <4> QED  BY <4>1, <2>2, <2>5, <3>2, <1>2 DEF LoadInv, WaitsOnce
    <3>8. CompleteInTime'
      <4>1. \A d \in Id \ {c} : Complete(d) => Complete(d)'  BY <2>2, <2>5 DEF Complete
      <4>2. \A d : d = c => Complete(d)' \/ d \in errors'  BY <2>2, <2>5, <1>4 DEF Complete
      <4>3. ASSUME NEW d, d # c, Waits(d) PROVE Waits(d)'
        <5>1. PICK i \in 1 .. n - 1 : calls[i].fn = "super" /\ calls[i].c = d  BY <4>3, <1>6
        <5>2. i \in DOMAIN calls' /\ calls'[i] = calls[i]  BY <3>2
        <5> QED  BY <5>1, <5>2 DEF Waits
      <4>4. errors \subseteq errors'  BY <2>5
      <4> QED  BY <4>1, <4>2, <4>3, <4>4, <2>2 DEF LoadInv, CompleteInTime, Id
    <3> QED  BY <2>2, <3>3, <3>4, <3>5, <3>6, <3>7, <3>8 DEF LoadInv
  <2> QED  BY <2>1, <2>4, <2>5 DEF StaticInit
<1> QED  BY <1>7, <1>8

---------------------------------------------------------------------------
(* Code and main. *)

(* A step that pushes, pops or changes entries of code, of <clinit> or of  *)
(* main, and leaves the loads alone that wait for a superclass.            *)
LEMMA OthersKeep ==
  ASSUME LoadInv, UNCHANGED <<classes, failures, inits, errors>>, ControlOK',
         calls' \in Seq(ToSet(calls')), Len(calls') >= 1,
         \A i \in DOMAIN calls' :
           \/ i \in DOMAIN calls /\ calls'[i] = calls[i]
           \/ calls'[i].fn # "super" /\ EntryOK(i, calls'[i]),
         \A i \in DOMAIN calls : calls[i].fn = "super" => i \in DOMAIN calls' /\ calls'[i] = calls[i]
  PROVE  LoadInv'
<1>1. StackOK'  BY DEF LoadInv, StackOK, EntryOK
<1>2. WaitsOnce' /\ CompleteInTime'  BY LoadsAlone
<1>3. TableOK' /\ CountsOK' /\ InitsOK' /\ NamesOnce'
  BY DEF LoadInv, TableOK, CountsOK, InitsOK, NamesOnce, Id
<1> QED  BY <1>1, <1>2, <1>3 DEF LoadInv

(* Code asks for a class.                                                  *)
LEMMA CodeUsesKeeps == LoadInv /\ CodeUses => LoadInv'
<1> SUFFICES ASSUME LoadInv, CodeUses PROVE LoadInv'  OBVIOUS
<1>1. Top.fn = "code"  BY DEF CodeUses, Runs
<1>2. PICK use \in Top.left :
        /\ calls' = Append(Front(calls), Entry("code", Top.c, Top.left \ {use}, use.tolerant))
        /\ control' = Call(use.name)
  BY DEF CodeUses
<1> DEFINE e == Entry("code", Top.c, Top.left \ {use}, use.tolerant)
           n == Len(calls)  s == Front(calls)
<1>3. /\ n \in Nat /\ n >= 2 /\ n \in DOMAIN calls /\ Top = calls[n] /\ DOMAIN calls = 1 .. n
      /\ s \in Seq(ToSet(calls)) /\ Len(s) = n - 1
      /\ \A i \in 1 .. n - 1 : s[i] = calls[i]
  BY <1>1, Popped
<1>4. EntryOK(n, Top)  BY <1>3 DEF LoadInv, StackOK
<1>6. EntryOK(n, e) /\ e.fn = "code"  BY <1>1, <1>3, <1>4 DEF EntryOK, Entry
<1> HIDE DEF e, s, n
<1>7. calls' = Append(s, e)  BY <1>2 DEF e, s
<1>8. /\ calls' \in Seq(ToSet(calls) \cup {e}) /\ Len(calls') = n /\ DOMAIN calls' = 1 .. n
      /\ \A i \in 1 .. n - 1 : calls'[i] = calls[i]
      /\ calls'[n] = e
  BY <1>3, <1>7
<1>9. \A i \in 1 .. n : i \in 1 .. n - 1 \/ i = n  BY <1>3
<1>10. ControlOK'  BY <1>2 DEF ControlOK, Call
<1>11. calls' \in Seq(ToSet(calls')) /\ Len(calls') >= 1  BY <1>3, <1>8, StackOfEntries
<1>12. \A i \in DOMAIN calls' :
         \/ i \in DOMAIN calls /\ calls'[i] = calls[i]
         \/ calls'[i].fn # "super" /\ EntryOK(i, calls'[i])
  BY <1>3, <1>6, <1>8, <1>9
<1>13. \A i \in DOMAIN calls : calls[i].fn = "super" => i \in DOMAIN calls' /\ calls'[i] = calls[i]
  BY <1>1, <1>3, <1>8, <1>9
<1> QED  BY <1>10, <1>11, <1>12, <1>13, OthersKeep DEF CodeUses

(* A class that code asked for has come, or the process ends.              *)
LEMMA CodeResumesKeeps == LoadInv /\ CodeResumes => LoadInv'
<1> SUFFICES ASSUME LoadInv, CodeResumes PROVE LoadInv'  OBVIOUS
<1>1. ControlOK'  BY DEF CodeResumes, ControlOK, Run, Exit
<1> QED  BY <1>1, NothingLoaded, Failing DEF CodeResumes

(* The code of a <clinit>, or of the program, has run.                     *)
LEMMA CodeReturnsKeeps == LoadInv /\ CodeReturns => LoadInv'
<1> SUFFICES ASSUME LoadInv, CodeReturns PROVE LoadInv'  OBVIOUS
<1> DEFINE n == Len(calls)  s == Front(calls)
<1>1. Top.fn = "code"  BY DEF CodeReturns, Runs
<1>2. /\ n \in Nat /\ n >= 2 /\ n \in DOMAIN calls /\ Top = calls[n] /\ DOMAIN calls = 1 .. n
      /\ s \in Seq(ToSet(calls)) /\ Len(s) = n - 1
      /\ \A i \in 1 .. n - 1 : s[i] = calls[i]
  BY <1>1, Popped
<1>3. Last(s) = calls[n - 1]  BY <1>2 DEF Last
<1>4. Top.c \in 1 .. Len(classes)  BY <1>2 DEF LoadInv, StackOK, EntryOK
<1> HIDE DEF n, s
<1>5. CASE Last(s).fn = "clinit"
  <2>1. calls' = Front(s) /\ control' = Return("EOK", Top.c)  BY <1>5 DEF CodeReturns, s
  <2>2. EntryOK(n - 1, calls[n - 1])  BY <1>2 DEF LoadInv, StackOK
  <2>3. n > 2  BY <2>2, <1>2, <1>3, <1>5 DEF EntryOK
  <2>4. Front(s) = SubSeq(s, 1, n - 2)
    <3>1. Len(s) - 1 = n - 2  BY <1>2
    <3> QED  BY <3>1 DEF Front
  <2>5. /\ calls' \in Seq(ToSet(calls)) /\ Len(calls') = n - 2 /\ DOMAIN calls' = 1 .. n - 2
        /\ \A i \in 1 .. n - 2 : calls'[i] = calls[i]
    BY <2>1, <2>3, <2>4, <1>2
  <2>6. \A i \in 1 .. n : i \in 1 .. n - 2 \/ i = n - 1 \/ i = n  BY <1>2
  <2>7. ControlOK'  BY <2>1, <1>4 DEF CodeReturns, ControlOK, Return
  <2>8. calls' \in Seq(ToSet(calls')) /\ Len(calls') >= 1  BY <2>3, <2>5, <1>2, StackOfEntries
  <2>9. \A i \in DOMAIN calls' : i \in DOMAIN calls /\ calls'[i] = calls[i]  BY <2>5, <1>2
  <2>10. \A i \in DOMAIN calls : calls[i].fn = "super" => i \in DOMAIN calls' /\ calls'[i] = calls[i]
    BY <2>5, <2>6, <1>1, <1>2, <1>3, <1>5
  <2> QED  BY <2>7, <2>8, <2>9, <2>10, OthersKeep DEF CodeReturns
<1>6. CASE Last(s).fn # "clinit"
  <2>1. calls' = s /\ control' = Exit  BY <1>6 DEF CodeReturns, s
  <2>2. \A i \in 1 .. n : i \in 1 .. n - 1 \/ i = n  BY <1>2
  <2>3. ControlOK'  BY <2>1 DEF ControlOK, Exit
  <2>4. calls' \in Seq(ToSet(calls')) /\ Len(calls') >= 1 /\ DOMAIN calls' = 1 .. n - 1
    BY <2>1, <1>2, StackOfEntries
  <2>5. \A i \in DOMAIN calls' : i \in DOMAIN calls /\ calls'[i] = calls[i]  BY <2>1, <2>4, <1>2
  <2>6. \A i \in DOMAIN calls : calls[i].fn = "super" => i \in DOMAIN calls' /\ calls'[i] = calls[i]
    BY <2>1, <2>2, <2>4, <1>1, <1>2
  <2> QED  BY <2>3, <2>4, <2>5, <2>6, OthersKeep DEF CodeReturns
<1> QED  BY <1>5, <1>6

(* main loads the next class: it is alone on the stack.                    *)
LEMMA MainLoadsKeeps == LoadInv /\ MainLoads => LoadInv'
<1> SUFFICES ASSUME LoadInv, MainLoads PROVE LoadInv'  OBVIOUS
<1> DEFINE e == Entry("main", 0, Tail(Top.left), FALSE)
<1>1. Top.fn = "main" /\ calls' = <<e>> /\ control' = Call(Head(Top.left))  BY DEF MainLoads, Runs
<1>2. Len(calls) \in Nat \ {0} /\ DOMAIN calls = 1 .. Len(calls) /\ Top = calls[Len(calls)]  BY Typed
<1>3. EntryOK(Len(calls), Top)  BY <1>2 DEF LoadInv, StackOK
<1>4. Len(calls) = 1  BY <1>1, <1>3 DEF EntryOK
<1>6. EntryOK(1, e) /\ e.fn = "main"  BY DEF EntryOK, Entry
<1> HIDE DEF e
<1>7. DOMAIN calls' = {1} /\ calls'[1] = e /\ Len(calls') = 1 /\ calls' \in Seq({e})  BY <1>1
<1>8. ControlOK'  BY <1>1 DEF ControlOK, Call
<1>9. calls' \in Seq(ToSet(calls'))  BY <1>7, StackOfEntries
<1>10. \A i \in DOMAIN calls' : calls'[i].fn # "super" /\ EntryOK(i, calls'[i])  BY <1>6, <1>7
<1>11. \A i \in DOMAIN calls : calls[i].fn # "super"  BY <1>1, <1>2, <1>4
<1>12. Len(calls') >= 1  BY <1>7
<1> QED  BY <1>8, <1>9, <1>10, <1>11, <1>12, OthersKeep DEF MainLoads

(* A class that main asked for has come: the last one's main method runs.  *)
LEMMA MainResumesKeeps == LoadInv /\ MainResumes => LoadInv'
<1> SUFFICES ASSUME LoadInv, MainResumes PROVE LoadInv'  OBVIOUS
<1> DEFINE n == Len(calls)
<1>1. Top.fn = "main" /\ control.at = "return"  BY DEF MainResumes, Returned
<1>2. n \in Nat \ {0} /\ DOMAIN calls = 1 .. n /\ calls \in Seq(ToSet(calls))
  BY Typed DEF LoadInv, StackOK
<1> HIDE DEF n
<1>3. CASE UNCHANGED calls /\ control' \in {Run, Exit}
  <2>1. ControlOK'  BY <1>3 DEF ControlOK, Run, Exit
  <2> QED  BY <2>1, <1>3, NothingLoaded, Failing DEF MainResumes
<1>4. CASE /\ control.err = "EOK" /\ control' = Run
           /\ calls' = Append(calls, Entry("code", control.c, Uses[classes[control.c].name], FALSE))
  <2> DEFINE e == Entry("code", control.c, Uses[classes[control.c].name], FALSE)
  <2>1. control.c \in 1 .. Len(classes)
    <3>1. control.c \in 0 .. Len(classes) /\ control.c # 0  BY <1>1, <1>4 DEF LoadInv, ControlOK
    <3>2. Len(classes) \in Nat  BY Typed
    <3> QED  BY <3>1, <3>2
  <2>2. EntryOK(n + 1, e) /\ e.fn = "code"  BY <2>1, <1>2 DEF EntryOK, Entry
  <2> HIDE DEF e
  <2>3. calls' = Append(calls, e)  BY <1>4 DEF e
  <2>4. /\ calls' \in Seq(ToSet(calls) \cup {e}) /\ Len(calls') = n + 1 /\ DOMAIN calls' = 1 .. n + 1
        /\ \A i \in 1 .. n : calls'[i] = calls[i]
        /\ calls'[n + 1] = e
    BY <2>3, <1>2 DEF n
  <2>5. \A i \in 1 .. n + 1 : i \in 1 .. n \/ i = n + 1  BY <1>2
  <2>6. ControlOK'  BY <1>4 DEF ControlOK, Run
  <2>7. calls' \in Seq(ToSet(calls')) /\ Len(calls') >= 1  BY <2>4, <1>2, StackOfEntries
  <2>8. \A i \in DOMAIN calls' :
          \/ i \in DOMAIN calls /\ calls'[i] = calls[i]
          \/ calls'[i].fn # "super" /\ EntryOK(i, calls'[i])
    BY <2>2, <2>4, <2>5, <1>2
  <2>9. \A i \in DOMAIN calls : calls[i].fn = "super" => i \in DOMAIN calls' /\ calls'[i] = calls[i]
    BY <2>4, <1>2
  <2> QED  BY <2>6, <2>7, <2>8, <2>9, OthersKeep DEF MainResumes
<1> QED  BY <1>3, <1>4 DEF MainResumes

---------------------------------------------------------------------------
(* The theorems. *)

(* main calls jGetClass with the table empty.                              *)
LEMMA InitKeeps == ClassInit => LoadInv
<1> SUFFICES ASSUME ClassInit PROVE LoadInv  OBVIOUS
<1>1. /\ classes = << >> /\ failures = 0 /\ inits = << >> /\ errors = {} /\ control = Run
      /\ calls = <<Entry("main", 0, Preloaded, FALSE)>>
  BY DEF ClassInit
<1> DEFINE e == Entry("main", 0, Preloaded, FALSE)
<1>2. e.fn = "main" /\ e.c = 0 /\ e = Entry(e.fn, e.c, e.left, e.tolerant)  BY DEF Entry
<1> HIDE DEF e
<1>3. calls = <<e>> /\ DOMAIN calls = {1} /\ calls[1] = e /\ Len(calls) = 1 /\ calls \in Seq({e})
  BY <1>1 DEF e
<1>4. DOMAIN classes = {} /\ Len(classes) = 0 /\ DOMAIN inits = {} /\ Id = {}  BY <1>1 DEF Id
<1>5. TableOK  BY <1>1 DEF TableOK
<1>6. StackOK
  <2>1. calls \in Seq(ToSet(calls))  BY <1>3, StackOfEntries
  <2> QED  BY <2>1, <1>2, <1>3 DEF StackOK, EntryOK
<1>7. ControlOK  BY <1>1 DEF ControlOK, Run
<1>8. CountsOK  BY <1>1, ClassAssumption DEF CountsOK
<1>9. InitsOK  BY <1>1, <1>4 DEF InitsOK
<1>10. NamesOnce /\ WaitsOnce /\ CompleteInTime
  BY <1>2, <1>3, <1>4 DEF NamesOnce, WaitsOnce, CompleteInTime
<1> QED  BY <1>5, <1>6, <1>7, <1>8, <1>9, <1>10 DEF LoadInv

(* Every step of the loader keeps the invariant.                           *)
LEMMA StepKeeps == LoadInv /\ [ClassNext]_classVars => LoadInv'
<1> SUFFICES ASSUME LoadInv, [ClassNext]_classVars PROVE LoadInv'  OBVIOUS
<1>1. CASE ClassNext
  BY <1>1, FoundInTableKeeps, NoMemoryKeeps, NoFileKeeps, NoMirrorKeeps, HalfLoadedKeeps, ParseKeeps,
     SuperReturnedKeeps, CodeUsesKeeps, CodeResumesKeeps, CodeReturnsKeeps, MainLoadsKeeps, MainResumesKeeps
     DEF ClassNext
<1>2. CASE UNCHANGED classVars
  <2>1. ControlOK'  BY <1>2 DEF classVars, LoadInv, ControlOK, Top, FileOf
  <2> QED  BY <2>1, <1>2, NothingLoaded, Failing DEF classVars
<1> QED  BY <1>1, <1>2

(* The invariant holds in every state the loader reaches.                  *)
THEOREM LoadInvariant == ClassSpec => []LoadInv
<1> QED  BY InitKeeps, StepKeeps, PTL DEF ClassSpec

(* The table, the C stack and the counters have their types, whatever the  *)
(* class files say and their initialisers use (jGetClass).                 *)
THEOREM LoadTypeCorrect == ClassSpec => []ClassTypeOK
<1>1. LoadInv => ClassTypeOK
  <2> SUFFICES ASSUME LoadInv PROVE ClassTypeOK  OBVIOUS
  <2>1. classes \in Seq([name : DOMAIN File, parsed : 0 .. 3, super : 0 .. Len(classes)])
    BY DEF LoadInv, TableOK, ClassRec
  <2>2. ASSUME NEW i \in DOMAIN calls
        PROVE  calls[i].fn \in {"main", "code", "super", "clinit"} /\ calls[i].c \in 0 .. Len(classes)
    <3>1. EntryOK(i, calls[i]) /\ Len(classes) \in Nat  BY Typed DEF LoadInv, StackOK
    <3> QED  BY <3>1 DEF EntryOK
  <2>3. Id = 1 .. Len(classes)  BY Typed
  <2> QED  BY <2>1, <2>2, <2>3 DEF ClassTypeOK, LoadInv, ControlOK, CountsOK
<1> QED  BY <1>1, LoadInvariant, PTL

(* No class is in the table twice or initialised twice, in whichever order *)
(* superclasses and static initialisers load each other (jGetClass).       *)
THEOREM LoadLoadedOnce == ClassSpec => []LoadedOnce
<1>1. LoadInv => LoadedOnce
  BY DEF LoadInv, InitsOK, NamesOnce, LoadedOnce, IsInjective
<1> QED  BY <1>1, LoadInvariant, PTL

(* jGetClass gives out an incomplete class only inside the load of that    *)
(* class or after an error in it.                                          *)
THEOREM LoadGivenOutComplete == ClassSpec => []GivenOutComplete
<1>1. LoadInv => GivenOutComplete
  <2> SUFFICES ASSUME LoadInv, control.at = "return", control.c # 0
               PROVE  Complete(control.c) \/ control.c \in Loading \cup errors
    BY DEF GivenOutComplete
  <2>1. control.c \in Id
    <3>1. control.c \in 0 .. Len(classes) /\ Len(classes) \in Nat /\ Id = 1 .. Len(classes)
      BY Typed DEF LoadInv, ControlOK
    <3> QED  BY <3>1
  <2>2. Waits(control.c) => control.c \in Loading  BY DEF Waits, Loading, OnStack
  <2> QED  BY <2>1, <2>2 DEF LoadInv, CompleteInTime
<1> QED  BY <1>1, LoadInvariant, PTL

---------------------------------------------------------------------------
(* What is asked for comes. *)

\* A load that waits for its superclass has called the load of that, and a
\* <clinit> the code of the class.
CallOK(i) ==
  /\ calls[i].fn = "super" => calls[i] = Waiting("super", calls[i].c)
  /\ calls[i].fn = "super" /\ i + 1 \in DOMAIN calls =>
       calls[i + 1].fn \in {"super", "clinit"} /\ classes[calls[i + 1].c].name = FileOf(calls[i].c).super
  /\ calls[i].fn = "clinit" =>
       i + 1 \in DOMAIN calls /\ calls[i + 1].fn = "code" /\ calls[i + 1].c = calls[i].c
\* A load asks for its superclass, and gets that.
AskedOK ==
  Top.fn = "super" =>
    /\ control.at = "call" => control.name = FileOf(Top.c).super
    /\ control.at = "return" /\ control.err = "EOK" /\ control.c # 0 =>
         classes[control.c].name = FileOf(Top.c).super
\* The superclass of a class is the one that its file names.
SupersOK == \A c \in Id : classes[c].super # 0 => classes[classes[c].super].name = FileOf(c).super

OrderInv == (\A i \in DOMAIN calls : CallOK(i)) /\ AskedOK /\ SupersOK /\ SuperFirst

(* The class that the search of the hash table finds has the name.         *)
LEMMA FoundNamed ==
  ASSUME TableOK, NEW name, Found(name) # 0
  PROVE  Found(name) \in Id /\ classes[Found(name)].name = name
<1> DEFINE I == {i \in 1 .. Len(classes) : classes[i].name = name}
<1>1. Found(name) = IF I # {} THEN Max(I) ELSE 0  BY DEF Found, SelectLastInSeq
<1>2. Len(classes) \in Nat /\ DOMAIN classes = 1 .. Len(classes)  BY DEF TableOK
<1>3. Max(I) \in I  BY <1>1, <1>2, Greatest
<1> QED  BY <1>1, <1>2, <1>3 DEF Id

\* The classes of the table keep their names, and those that were started stay so.
Grows ==
  /\ Id \subseteq Id' /\ \A c \in Id : classes'[c].name = classes[c].name
  /\ errors \subseteq errors' /\ Len(inits) <= Len(inits') /\ \A j \in DOMAIN inits : inits'[j] = inits[j]

\* The superclass of the class at i is there and has been started, or waits below.
SuperIsFirst(i) ==
  FileOf(calls[i].c).super \notin {None, classes[calls[i].c].name} =>
    \E s \in InTable(FileOf(calls[i].c).super) :
      \/ "<clinit>" \notin FileOf(s).methods \/ s \in errors
      \/ \E j, k \in DOMAIN inits : j < k /\ inits[j] = s /\ inits[k] = calls[i].c
      \/ \E j \in 1 .. i : calls[j] = Waiting("super", s)

(* A <clinit> that stays on the stack, with what is below it.              *)
LEMMA StaysFirst ==
  ASSUME LoadInv, LoadInv', Grows, SuperFirst, NEW i \in DOMAIN calls, i \in DOMAIN calls', calls[i].fn = "clinit",
         \A j \in 1 .. i : calls'[j] = calls[j]
  PROVE  SuperIsFirst(i)'
<1>1. i \in 1 .. i /\ i \in 1 .. Len(calls)  BY Typed
<1>2. EntryOK(i, calls[i])  BY DEF LoadInv, StackOK
<1>3. calls'[i] = calls[i] /\ calls[i].c \in Id  BY <1>1, <1>2, Typed DEF EntryOK
<1>4. \A c \in Id : c \in Id' /\ classes'[c].name = classes[c].name /\ FileOf(c)' = FileOf(c)  BY DEF Grows, FileOf
<1>5. \A c : c \in Id => \A n : c \in InTable(n) => c \in InTable(n)'  BY <1>4 DEF InTable
<1>6. ASSUME FileOf(calls[i].c).super \notin {None, classes[calls[i].c].name}
      PROVE  \E s \in InTable(FileOf(calls[i].c).super)' :
               \/ "<clinit>" \notin FileOf(s)'.methods \/ s \in errors'
               \/ \E j, k \in DOMAIN inits' : j < k /\ inits'[j] = s /\ inits'[k] = calls[i].c
               \/ \E j \in 1 .. i : calls'[j] = Waiting("super", s)
  <2>1. PICK s \in InTable(FileOf(calls[i].c).super) :
          \/ "<clinit>" \notin FileOf(s).methods \/ s \in errors
          \/ \E j, k \in DOMAIN inits : j < k /\ inits[j] = s /\ inits[k] = calls[i].c
          \/ \E j \in 1 .. i : calls[j] = Waiting("super", s)
    BY <1>6 DEF SuperFirst
  <2>2. s \in Id  BY <2>1 DEF InTable
  <2>3. s \in InTable(FileOf(calls[i].c).super)' /\ FileOf(s)' = FileOf(s)  BY <1>3, <1>4, <1>5, <2>1, <2>2
  <2>4. CASE "<clinit>" \notin FileOf(s).methods \/ s \in errors  BY <2>3, <2>4 DEF Grows
  <2>5. CASE \E j, k \in DOMAIN inits : j < k /\ inits[j] = s /\ inits[k] = calls[i].c
    <3>1. PICK j \in DOMAIN inits, k \in DOMAIN inits : j < k /\ inits[j] = s /\ inits[k] = calls[i].c  BY <2>5
    <3>2. DOMAIN inits \subseteq DOMAIN inits'  BY Typed DEF Grows, LoadInv, InitsOK
    <3>3. j \in DOMAIN inits' /\ k \in DOMAIN inits' /\ inits'[j] = s /\ inits'[k] = calls[i].c
      BY <3>1, <3>2 DEF Grows
    <3> QED  BY <2>3, <3>1, <3>3
  <2>6. CASE \E j \in 1 .. i : calls[j] = Waiting("super", s)  BY <2>3, <2>6
  <2> QED  BY <2>1, <2>4, <2>5, <2>6
<1> QED  BY <1>3, <1>4, <1>6 DEF SuperIsFirst

(* The property of every entry.                                            *)
LEMMA EachFirst ==
  /\ SuperFirst <=> \A i \in DOMAIN calls : calls[i].fn = "clinit" => SuperIsFirst(i)
  /\ SuperFirst' <=> \A i \in DOMAIN calls' : calls'[i].fn = "clinit" => SuperIsFirst(i)'
  BY DEF SuperFirst, SuperIsFirst

(* Neighbours that stay on the stack.                                      *)
LEMMA CallStays ==
  ASSUME LoadInv, LoadInv', Grows, NEW i, i \in DOMAIN calls, i + 1 \in DOMAIN calls, CallOK(i),
         i \in DOMAIN calls', i + 1 \in DOMAIN calls', calls'[i] = calls[i], calls'[i + 1] = calls[i + 1]
  PROVE  CallOK(i)'
<1>1. i \in Nat /\ i + 1 # 1  BY Typed
<1>2. EntryOK(i, calls[i]) /\ EntryOK(i + 1, calls[i + 1])  BY DEF LoadInv, StackOK
<1>3. calls[i + 1].c \in Id /\ (calls[i].fn = "super" => calls[i].c \in Id)  BY <1>1, <1>2, Typed DEF EntryOK
<1>4. \A c \in Id : classes'[c].name = classes[c].name /\ FileOf(c)' = FileOf(c)  BY DEF Grows, FileOf
<1> QED  BY <1>3, <1>4 DEF CallOK

(* The superclasses stay, those of a class that enters the table too.      *)
LEMMA SupersStay ==
  ASSUME LoadInv, Grows, SupersOK,
         \A c \in Id' : classes'[c].super # 0 => c \in Id /\ classes'[c].super = classes[c].super
  PROVE  SupersOK'
<1> SUFFICES ASSUME NEW c \in Id', classes'[c].super # 0
             PROVE  classes'[classes'[c].super].name = FileOf(c)'.super
  BY DEF SupersOK
<1>1. c \in Id /\ classes'[c].super = classes[c].super /\ classes[c].super # 0  OBVIOUS
<1>2. classes[c].super \in Id  BY <1>1, Typed DEF ClassRec
<1>3. classes[classes[c].super].name = FileOf(c).super  BY <1>1 DEF SupersOK
<1> QED  BY <1>1, <1>2, <1>3 DEF Grows, FileOf

(* A stack whose lower part stays.                                         *)
LEMMA OrderKeeps ==
  ASSUME LoadInv, LoadInv', Grows, OrderInv, NEW m \in 0 .. Len(calls), m <= Len(calls'),
         \A i \in 1 .. m : calls'[i] = calls[i],
         \A i \in DOMAIN calls' : i >= m => CallOK(i)',
         \A i \in DOMAIN calls' : i > m /\ calls'[i].fn = "clinit" => SuperIsFirst(i)',
         AskedOK', SupersOK'
  PROVE  OrderInv'
<1>1. Len(calls) \in Nat /\ DOMAIN calls = 1 .. Len(calls) /\ Len(calls') \in Nat /\ DOMAIN calls' = 1 .. Len(calls')
  BY Typed DEF LoadInv, StackOK
<1>2. ASSUME NEW i \in DOMAIN calls' PROVE CallOK(i)'
  <2>1. CASE i >= m  BY <2>1
  <2>2. CASE ~(i >= m)
    <3>1. i \in 1 .. m /\ i + 1 \in 1 .. m /\ i \in DOMAIN calls /\ i + 1 \in DOMAIN calls /\ i + 1 \in DOMAIN calls'
      BY <1>1, <2>2
    <3>2. CallOK(i)  BY <3>1 DEF OrderInv
    <3> QED  BY <3>1, <3>2, CallStays
  <2> QED  BY <2>1, <2>2
<1>3. ASSUME NEW i \in DOMAIN calls', calls'[i].fn = "clinit" PROVE SuperIsFirst(i)'
  <2>1. CASE i > m  BY <1>3, <2>1
  <2>2. CASE ~(i > m)
    <3>1. i \in DOMAIN calls /\ i \in 1 .. m /\ \A j \in 1 .. i : j \in 1 .. m  BY <1>1, <2>2
    <3>2. calls[i].fn = "clinit" /\ \A j \in 1 .. i : calls'[j] = calls[j]  BY <1>3, <3>1
    <3> QED  BY <3>1, <3>2, StaysFirst DEF OrderInv
  <2> QED  BY <2>1, <2>2
<1> QED  BY <1>2, <1>3, EachFirst DEF OrderInv

(* The stack stays.                                                        *)
LEMMA SameStack ==
  ASSUME LoadInv, LoadInv', Grows, OrderInv, calls' = calls, AskedOK', SupersOK'
  PROVE  OrderInv'
<1>1. Len(calls) \in Nat /\ DOMAIN calls = 1 .. Len(calls)  BY Typed
<1>2. \A i \in DOMAIN calls : i >= Len(calls) => i + 1 \notin DOMAIN calls  BY <1>1
<1>3. \A i \in DOMAIN calls : i >= Len(calls) => CallOK(i)'  BY <1>2 DEF OrderInv, CallOK
<1>4. \A i \in DOMAIN calls : ~(i > Len(calls))  BY <1>1
<1>5. Len(calls) \in 0 .. Len(calls) /\ Len(calls) <= Len(calls')  BY <1>1
<1>6. \A i \in 1 .. Len(calls) : calls'[i] = calls[i]  OBVIOUS
<1> QED  BY <1>3, <1>4, <1>5, <1>6, OrderKeeps

(* Nothing changes but what is under way.                                  *)
LEMMA SameTable ==
  ASSUME LoadInv, OrderInv, UNCHANGED <<classes, inits, errors>>
  PROVE  Grows /\ SupersOK'
<1>1. Grows  BY Typed DEF Grows, Id
<1>2. SupersOK'  BY <1>1, SupersStay DEF OrderInv, Id
<1> QED  BY <1>1, <1>2

(* The steps of jGetClass that find nothing, or the class, and those of    *)
(* code and of main that go on.                                            *)
LEMMA QuietOrder ==
  ASSUME LoadInv, LoadInv', OrderInv, FoundInTable \/ NoMemory \/ NoFile \/ NoMirror \/ CodeResumes
  PROVE  OrderInv'
<1>1. UNCHANGED <<classes, calls, inits, errors>>  BY DEF FoundInTable, NoMemory, NoFile, NoMirror, CodeResumes
<1>2. Grows /\ SupersOK' /\ Top' = Top  BY <1>1, SameTable DEF Top
<1>3. Top.fn = "super" => Top.c \in Id
  <2>1. Top = calls[Len(calls)] /\ Len(calls) \in DOMAIN calls  BY Typed
  <2>2. EntryOK(Len(calls), Top)  BY <2>1 DEF LoadInv, StackOK
  <2> QED  BY <2>2, Typed DEF EntryOK
<1>4. AskedOK'
  <2>1. CASE FoundInTable
    <3>1. control.at = "call" /\ Found(control.name) # 0 /\ control' = Return("EOK", Found(control.name))
      BY <2>1 DEF FoundInTable
    <3>2. classes[Found(control.name)].name = control.name  BY <3>1, FoundNamed DEF LoadInv
    <3> QED  BY <1>1, <1>2, <3>1, <3>2 DEF OrderInv, AskedOK, Return, FileOf
  <2>2. CASE NoMemory \/ NoFile \/ NoMirror
    <3>1. control' = Exit \/ \E err \in {"ENOMEM", "ECONSTSFAIL", "ECLASSNOTFOUND"} : control' = Return(err, 0)
      BY <2>2 DEF NoMemory, NoFile, NoMirror
    <3> QED  BY <3>1 DEF AskedOK, Exit, Return
  <2>3. CASE CodeResumes
    <3>1. Top.fn = "code"  BY <2>3 DEF CodeResumes, Returned
    <3> QED  BY <1>2, <3>1 DEF AskedOK
  <2> QED  BY <2>1, <2>2, <2>3
<1> QED  BY <1>1, <1>2, <1>4, SameStack

(* A class enters the table.                                               *)
LEMMA Inserted ==
  ASSUME LoadInv, OrderInv, Asked, control.name \in DOMAIN File, NEW parsed \in 0 .. 3, Insert(parsed),
         UNCHANGED inits, errors \subseteq errors', NEW c, c = New
  PROVE  Grows /\ SupersOK' /\ c \in Id' /\ FileOf(c)' = File[control.name] /\ classes'[c].name = control.name
<1>1. /\ DOMAIN classes' = Id \cup {c} /\ c \notin Id
      /\ \A d \in Id : classes'[d] = classes[d]
      /\ classes'[c] = Structure(control.name, parsed)
  BY InsertKeeps
<1>2. Grows  BY <1>1, Typed DEF Grows, Id
<1>3. classes'[c].super = 0 /\ classes'[c].name = control.name  BY <1>1 DEF Structure
<1>4. SupersOK'  BY <1>1, <1>2, <1>3, SupersStay DEF OrderInv, Id
<1> QED  BY <1>1, <1>2, <1>3, <1>4 DEF FileOf, Id

(* A class that is in the table and no more.                               *)
LEMMA HalfLoadedOrder ==
  ASSUME LoadInv, LoadInv', OrderInv, HalfLoaded
  PROVE  OrderInv'
<1>1. PICK parsed \in 0 .. 2 :
        /\ Insert(parsed) /\ errors' = errors \cup {New}
        /\ control' = Return(<<"EINTERFACEFAIL", "EFIELDSFAIL", "EMETHODSFAIL">>[parsed + 1], New)
  BY DEF HalfLoaded
<1>2. <<"EINTERFACEFAIL", "EFIELDSFAIL", "EMETHODSFAIL">>[parsed + 1] # "EOK"  OBVIOUS
<1>3. AskedOK'  BY <1>1, <1>2 DEF AskedOK, Return
<1>4. parsed \in 0 .. 3  OBVIOUS
<1>5. PICK c : c = New  OBVIOUS
<1>6. Grows /\ SupersOK'  BY <1>1, <1>4, <1>5, Inserted DEF HalfLoaded
<1> QED  BY <1>3, <1>6, SameStack DEF HalfLoaded

(* The load that waits for the superclass calls for it.                    *)
LEMMA ParseOrder ==
  ASSUME LoadInv, LoadInv', OrderInv, Parse
  PROVE  OrderInv'
<1>1. PICK new : new = New  OBVIOUS
<1>2. PICK n : n = Len(calls)  OBVIOUS
<1> DEFINE e == Waiting("super", new)
<1>3. /\ Asked /\ control.name \in DOMAIN File /\ Insert(3) /\ calls' = Append(calls, e)
      /\ control' = IF File[control.name].super = None THEN Return("EOK", 0) ELSE Call(File[control.name].super)
      /\ UNCHANGED <<failures, inits, errors>>
  BY <1>1 DEF Parse
<1>4. 3 \in 0 .. 3  OBVIOUS
<1>5. Grows /\ SupersOK' /\ new \in Id' /\ FileOf(new)' = File[control.name] /\ classes'[new].name = control.name
  BY <1>1, <1>3, <1>4, Inserted
<1>6. n \in Nat \ {0} /\ DOMAIN calls = 1 .. n /\ calls \in Seq(ToSet(calls)) /\ Top = calls[n]
  BY <1>2, Typed DEF LoadInv, StackOK, EntryOK
<1>7. e.fn = "super" /\ e.c = new  BY DEF Waiting, Entry
<1> HIDE DEF e
<1>8. /\ calls' \in Seq(ToSet(calls) \cup {e}) /\ Len(calls') = n + 1 /\ DOMAIN calls' = 1 .. n + 1
      /\ \A i \in 1 .. n : calls'[i] = calls[i]
      /\ calls'[n + 1] = e
  BY <1>3, <1>6, <1>2
<1>9. Top' = e  BY <1>6, <1>8 DEF Top, Last
<1>10. AskedOK'
  <2>1. FileOf(Top.c)' = File[control.name]  BY <1>5, <1>7, <1>9
  <2>2. control'.at = "call" => control'.name = File[control.name].super  BY <1>3 DEF Return, Call
  <2>3. control'.at = "return" => control'.c = 0  BY <1>3 DEF Return, Call
  <2> QED  BY <2>1, <2>2, <2>3 DEF AskedOK
<1>11. ASSUME NEW i \in DOMAIN calls', i >= n PROVE CallOK(i)'
  <2>1. i = n \/ i = n + 1  BY <1>6, <1>8, <1>11
  <2>2. CASE i = n + 1
    <3>1. i + 1 \notin DOMAIN calls' /\ calls'[i] = e  BY <1>6, <1>8, <2>2
    <3>2. e = Waiting("super", e.c)  BY <1>7 DEF e
    <3> QED  BY <1>7, <3>1, <3>2 DEF CallOK
  <2>3. CASE i = n
    <3>1. calls'[i] = calls[n] /\ calls'[i + 1] = e /\ n \in DOMAIN calls /\ n + 1 \notin DOMAIN calls  BY <1>6, <1>8, <2>3
    <3>2. CallOK(n)  BY <3>1 DEF OrderInv
    <3>3. calls[n].fn # "clinit" /\ (calls[n].fn = "super" => calls[n] = Waiting("super", calls[n].c))
      BY <3>1, <3>2 DEF CallOK
    <3>4. calls[n].fn = "super" => control.name = FileOf(calls[n].c).super
      BY <1>3, <1>6 DEF OrderInv, AskedOK, Asked
    <3>5. PICK d : d = calls[n].c  OBVIOUS
    <3>6. calls[n].fn = "super" => FileOf(d)' = FileOf(d)
      <4>1. EntryOK(n, calls[n])  BY <3>1 DEF LoadInv, StackOK
      <4>2. calls[n].fn = "super" => calls[n].c \in Id  BY <4>1, Typed DEF EntryOK
      <4> QED  BY <1>5, <3>5, <4>2 DEF Grows, FileOf
    <3> QED  BY <1>5, <1>7, <3>1, <3>3, <3>4, <3>5, <3>6 DEF CallOK
  <2> QED  BY <2>1, <2>2, <2>3
<1>12. \A i \in DOMAIN calls' : i > n => calls'[i].fn # "clinit"
  <2>1. \A i \in 1 .. n + 1 : i > n => i = n + 1  BY <1>6
  <2> QED  BY <1>7, <1>8, <2>1
<1>13. n \in 0 .. Len(calls) /\ n <= Len(calls')  BY <1>6, <1>8, <1>2
<1> QED  BY <1>5, <1>8, <1>10, <1>11, <1>12, <1>13, OrderKeeps

(* The load of the superclass is over: the class has it, and is            *)
(* initialised.                                                            *)
LEMMA SuperReturnedOrder ==
  ASSUME LoadInv, LoadInv', OrderInv, SuperReturned
  PROVE  OrderInv'
<1>1. PICK n : n = Len(calls)  OBVIOUS
<1>2. PICK c : c = Top.c  OBVIOUS
<1>3. Returned("super") /\ Top.fn = "super" /\ control.at = "return"  BY DEF SuperReturned, Returned
<1>4. /\ n \in Nat /\ n >= 2 /\ n \in DOMAIN calls /\ Top = calls[n] /\ DOMAIN calls = 1 .. n
      /\ Front(calls) \in Seq(ToSet(calls)) /\ Len(Front(calls)) = n - 1
      /\ \A i \in 1 .. n - 1 : Front(calls)[i] = calls[i]
  BY <1>1, <1>3, Popped
<1>5. c \in Id /\ calls[n].c = c /\ Len(classes) \in Nat /\ Id = 1 .. Len(classes)
  <2>1. EntryOK(n, calls[n])  BY <1>4 DEF LoadInv, StackOK
  <2> QED  BY <1>2, <1>4, <2>1, Typed DEF EntryOK
<1>6. \A i \in 1 .. n - 1 : i \in DOMAIN calls /\ i + 1 \in DOMAIN calls  BY <1>4
<1>7. ASSUME NEW i \in 1 .. n - 1, i >= n - 1
      PROVE  /\ i = n - 1 /\ calls[i].fn # "clinit" /\ (calls[i].fn = "super" => calls[i] = Waiting("super", calls[i].c))
             /\ calls[i].fn = "super" => classes[c].name = FileOf(calls[i].c).super /\ calls[i].c \in Id
  <2>1. i = n - 1 /\ i + 1 = n  BY <1>4, <1>7
  <2>2. CallOK(i) /\ EntryOK(i, calls[i])  BY <1>6 DEF OrderInv, LoadInv, StackOK
  <2> QED  BY <1>3, <1>4, <1>5, <1>6, <2>1, <2>2, Typed DEF CallOK, EntryOK
<1>8. PICK m : m = n - 1  OBVIOUS
<1>9. m \in 0 .. n /\ \A i \in 1 .. m : i \in 1 .. n - 1  BY <1>4, <1>8
<1>10. CASE control.err # "EOK"
  <2>1. /\ calls' = Front(calls) /\ control' = Return(control.err, c) /\ errors' = errors \cup {c}
        /\ UNCHANGED <<classes, failures, inits>>
    BY <1>2, <1>10 DEF SuperReturned
  <2>2. Len(calls') = m /\ DOMAIN calls' = 1 .. m /\ \A i \in 1 .. m : calls'[i] = calls[i]  BY <1>4, <1>8, <2>1
  <2>3. Grows  BY <2>1, Typed DEF Grows, Id
  <2>4. SupersOK'  BY <2>1, <2>3, SupersStay DEF OrderInv, Id
  <2>5. AskedOK'  BY <1>10, <2>1 DEF AskedOK, Return
  <2>6. ASSUME NEW i \in DOMAIN calls', i >= m PROVE CallOK(i)'
    <3>1. calls'[i] = calls[i] /\ i \in 1 .. n - 1 /\ i >= n - 1 /\ i + 1 \notin DOMAIN calls'
      BY <1>4, <1>8, <1>9, <2>2, <2>6
    <3> QED  BY <1>7, <3>1 DEF CallOK
  <2>7. \A i \in DOMAIN calls' : ~(i > m)  BY <1>4, <1>8, <2>2
  <2> QED  BY <1>1, <1>9, <2>2, <2>3, <2>4, <2>5, <2>6, <2>7, OrderKeeps
<1>11. CASE control.err = "EOK"
  <2>1. classes' = [classes EXCEPT ![c].super = control.c] /\ StaticInit(c, Front(calls))
    BY <1>2, <1>11 DEF SuperReturned
  <2>2. /\ \A d \in Id : classes'[d] = IF d = c THEN [classes[d] EXCEPT !.super = control.c] ELSE classes[d]
        /\ Id' = Id
    BY <1>5, <2>1 DEF LoadInv, TableOK, Id
  <2>3. \A d \in Id : classes'[d].name = classes[d].name /\ FileOf(d)' = FileOf(d)
                      /\ classes'[d].super = IF d = c THEN control.c ELSE classes[d].super
    BY <2>2, Typed DEF ClassRec, FileOf
  <2>4. control.c \in 0 .. Len(classes) /\ (control.c = 0 => FileOf(c).super = None)
        /\ (control.c # 0 => classes[control.c].name = FileOf(c).super)
    BY <1>2, <1>3, <1>11 DEF LoadInv, ControlOK, OrderInv, AskedOK
  <2>5. SupersOK'
    <3> SUFFICES ASSUME NEW d \in Id, classes'[d].super # 0
                 PROVE  classes'[classes'[d].super].name = FileOf(d)'.super
      BY <2>2 DEF SupersOK
    <3>1. CASE d = c
      <4>1. control.c \in Id /\ classes'[d].super = control.c  BY <1>5, <2>3, <2>4, <3>1
      <4> QED  BY <2>3, <2>4, <3>1, <4>1
    <3>2. CASE d # c
      <4>1. classes'[d].super = classes[d].super /\ classes[d].super \in Id  BY <2>3, <3>2, Typed DEF ClassRec
      <4> QED  BY <2>3, <4>1 DEF OrderInv, SupersOK
    <3> QED  BY <3>1, <3>2
  <2>6. CASE /\ calls' = Front(calls) /\ control' = Return("EOK", c) /\ inits' = inits
             /\ (UNCHANGED errors \/ errors' = errors \cup {c})
    <3>1. Len(calls') = m /\ DOMAIN calls' = 1 .. m /\ \A i \in 1 .. m : calls'[i] = calls[i]  BY <1>4, <1>8, <2>6
    <3>2. Grows  BY <2>2, <2>3, <2>6, Typed DEF Grows
    <3>3. ASSUME NEW i \in DOMAIN calls', i >= m PROVE CallOK(i)'
      <4>1. calls'[i] = calls[i] /\ i \in 1 .. n - 1 /\ i >= n - 1 /\ i + 1 \notin DOMAIN calls'
        BY <1>4, <1>8, <1>9, <3>1, <3>3
      <4> QED  BY <1>7, <4>1 DEF CallOK
    <3>4. \A i \in DOMAIN calls' : ~(i > m)  BY <1>4, <1>8, <3>1
    <3>5. AskedOK'
      <4>1. Top' = calls[m] /\ m \in 1 .. n - 1 /\ m >= n - 1  BY <1>4, <1>8, <3>1 DEF Top, Last
      <4>2. calls[m].fn = "super" => classes[c].name = FileOf(calls[m].c).super /\ calls[m].c \in Id  BY <1>7, <4>1
      <4>3. PICK d : d = calls[m].c  OBVIOUS
      <4>4. calls[m].fn = "super" => classes'[c].name = FileOf(d)'.super  BY <1>5, <2>3, <4>2, <4>3
      <4>5. FileOf(Top.c)' = FileOf(d)'  BY <4>1, <4>3
      <4> QED  BY <2>6, <4>1, <4>4, <4>5 DEF AskedOK, Return
    <3> QED  BY <1>1, <1>9, <2>5, <3>1, <3>2, <3>3, <3>4, <3>5, OrderKeeps
  <2>7. CASE /\ calls' = Front(calls) \o <<Waiting("clinit", c), Entry("code", c, Uses[classes[c].name], FALSE)>>
             /\ control' = Run /\ inits' = Append(inits, c) /\ UNCHANGED errors
    <3> DEFINE e1 == Waiting("clinit", c)
               e2 == Entry("code", c, Uses[classes[c].name], FALSE)
               s == Front(calls)
    <3>1. e1.fn = "clinit" /\ e1.c = c /\ e2.fn = "code" /\ e2.c = c  BY DEF Waiting, Entry
    <3>2. calls' = s \o <<e1, e2>>  BY <2>7
    <3>3. s \in Seq(ToSet(calls)) /\ Len(s) = m /\ \A i \in 1 .. m : s[i] = calls[i]  BY <1>4, <1>8
    <3> HIDE DEF e1, e2, s
    <3>14. s \in Seq(ToSet(calls) \cup {e1, e2})  BY <3>3
    <3>4. /\ Len(calls') = m + 2 /\ DOMAIN calls' = 1 .. m + 2
          /\ \A i \in 1 .. m : calls'[i] = calls[i]
          /\ calls'[m + 1] = e1 /\ calls'[m + 2] = e2
      BY <3>2, <3>3, <3>14, PushedTwo
    <3>5. /\ inits \in Seq(Id) /\ Len(inits) \in Nat /\ DOMAIN inits = 1 .. Len(inits)
          /\ Len(inits') = Len(inits) + 1 /\ DOMAIN inits' = 1 .. Len(inits) + 1
          /\ inits'[Len(inits) + 1] = c /\ \A j \in 1 .. Len(inits) : inits'[j] = inits[j]
      BY <1>5, <2>7 DEF LoadInv, InitsOK
    <3>6. Grows  BY <2>2, <2>3, <2>7, <3>5 DEF Grows
    <3>7. Top' = e2
      <4>1. Last(calls') = e2  BY <1>9, <3>4 DEF Last
      <4> QED  BY <4>1 DEF Top
    <3>8. AskedOK'  BY <3>1, <3>7 DEF AskedOK
    <3>9. m \in Nat /\ m >= 1 /\ m + 1 # m /\ m + 2 # m /\ (m + 1) + 1 = m + 2  BY <1>4, <1>8
    <3>10. \A i \in 1 .. m + 2 : i >= m => i = m \/ i = m + 1 \/ i = m + 2  BY <3>9
    <3>11. ASSUME NEW i \in DOMAIN calls', i >= m PROVE CallOK(i)'
      <4>1. CASE i = m + 2
        <5>1. calls'[i] = e2  BY <3>4, <4>1
        <5> QED  BY <3>1, <5>1 DEF CallOK
      <4>2. CASE i = m + 1
        <5>1. calls'[i] = e1 /\ calls'[i + 1] = e2 /\ i + 1 \in DOMAIN calls'  BY <3>4, <3>9, <4>2
        <5> QED  BY <3>1, <5>1 DEF CallOK
      <4>3. CASE i = m
        <5>1. calls'[i] = calls[i] /\ calls'[i + 1] = e1 /\ i \in 1 .. n - 1 /\ i >= n - 1
          BY <1>8, <1>9, <3>4, <3>9, <4>3
        <5>2. PICK d : d = calls[i].c  OBVIOUS
        <5>3. calls[i].fn = "super" => classes'[c].name = FileOf(d)'.super  BY <1>5, <1>7, <2>3, <5>1, <5>2
        <5> QED  BY <1>7, <3>1, <5>1, <5>2, <5>3 DEF CallOK
      <4> QED  BY <3>4, <3>10, <3>11, <4>1, <4>2, <4>3
    <3>12. ASSUME NEW i \in DOMAIN calls', i > m, calls'[i].fn = "clinit" PROVE SuperIsFirst(i)'
      <4>1. i = m + 1
        <5>1. i \in 1 .. m + 2 /\ i >= m  BY <3>4, <3>9, <3>12
        <5>2. i # m /\ i # m + 2  BY <3>1, <3>4, <3>9, <3>12
        <5> QED  BY <3>10, <5>1, <5>2
      <4>2. calls'[i] = e1 /\ e1.c = c  BY <3>1, <3>4, <4>1
      <4>3. classes'[c].name = classes[c].name /\ FileOf(c)' = FileOf(c)  BY <1>5, <2>3
      <4>4. ASSUME FileOf(c).super \notin {None, classes[c].name}
            PROVE  \E t \in InTable(FileOf(c).super)' :
                     \/ "<clinit>" \notin FileOf(t)'.methods \/ t \in errors'
                     \/ \E j, k \in DOMAIN inits' : j < k /\ inits'[j] = t /\ inits'[k] = c
                     \/ \E j \in 1 .. i : calls'[j] = Waiting("super", t)
        <5>1. PICK t : t = control.c  OBVIOUS
        <5>2. t \in Id /\ classes[t].name = FileOf(c).super /\ t # c  BY <1>5, <2>4, <4>4, <5>1
        <5>3. t \in InTable(FileOf(c).super)' /\ FileOf(t)' = FileOf(t)
          <6>1. t \in Id' /\ classes'[t].name = FileOf(c)'.super  BY <2>2, <2>3, <4>3, <5>2
          <6> QED  BY <2>3, <5>2, <6>1 DEF InTable
        <5>4. Complete(t) \/ Waits(t) \/ t \in errors  BY <5>2 DEF LoadInv, CompleteInTime
        <5>5. CASE Complete(t) /\ "<clinit>" \in FileOf(t).methods
          <6>1. t \in ToSet(inits)  BY <5>5 DEF Complete
          <6>2. PICK j \in DOMAIN inits : inits[j] = t  BY <6>1 DEF ToSet
          <6>3. j \in DOMAIN inits' /\ Len(inits) + 1 \in DOMAIN inits' /\ j < Len(inits) + 1 /\ inits'[j] = t
            BY <3>5, <6>2
          <6> QED  BY <3>5, <5>3, <6>3
        <5>6. CASE Waits(t)
          <6>1. PICK j \in DOMAIN calls : calls[j].fn = "super" /\ calls[j].c = t  BY <5>6 DEF Waits
          <6>2. j # n  BY <1>5, <5>2, <6>1
          <6>3. j \in 1 .. m /\ j \in 1 .. i  BY <1>4, <1>8, <4>1, <6>1, <6>2
          <6>4. CallOK(j)  BY <6>1 DEF OrderInv
          <6>5. calls'[j] = Waiting("super", t)  BY <3>4, <6>1, <6>3, <6>4 DEF CallOK
          <6> QED  BY <5>3, <6>3, <6>5
        <5>7. CASE t \in errors  BY <2>7, <5>3, <5>7
        <5>8. CASE "<clinit>" \notin FileOf(t).methods  BY <5>3, <5>8
        <5> QED  BY <5>4, <5>5, <5>6, <5>7, <5>8
      <4> QED  BY <4>2, <4>3, <4>4 DEF SuperIsFirst
    <3>13. m <= Len(calls')  BY <3>4, <3>9
    <3> QED  BY <1>1, <1>9, <2>5, <3>4, <3>6, <3>8, <3>11, <3>12, <3>13, OrderKeeps
  <2> QED  BY <2>1, <2>6, <2>7 DEF StaticInit
<1> QED  BY <1>10, <1>11

(* The top entry is that of code, which asks for a class.                  *)
LEMMA CodeUsesOrder ==
  ASSUME LoadInv, LoadInv', OrderInv, CodeUses
  PROVE  OrderInv'
<1>1. Top.fn = "code"  BY DEF CodeUses, Runs
<1>2. PICK use \in Top.left :
        /\ calls' = Append(Front(calls), Entry("code", Top.c, Top.left \ {use}, use.tolerant))
        /\ control' = Call(use.name)
  BY DEF CodeUses
<1>3. PICK n : n = Len(calls)  OBVIOUS
<1>4. PICK c : c = Top.c  OBVIOUS
<1>5. PICK e : e = Entry("code", Top.c, Top.left \ {use}, use.tolerant)  OBVIOUS
<1>6. e.fn = "code" /\ e.c = c  BY <1>4, <1>5 DEF Entry
<1>7. PICK s : s = Front(calls)  OBVIOUS
<1>8. /\ n \in Nat /\ n >= 2 /\ n \in DOMAIN calls /\ calls[n].fn = "code" /\ calls[n].c = c /\ DOMAIN calls = 1 .. n
      /\ s \in Seq(ToSet(calls)) /\ Len(s) = n - 1
      /\ \A i \in 1 .. n - 1 : s[i] = calls[i]
  BY <1>1, <1>3, <1>4, <1>7, Popped
<1>9. calls' = Append(s, e)  BY <1>2, <1>5, <1>7
<1>10. /\ Len(calls') = n /\ DOMAIN calls' = 1 .. n
       /\ \A i \in 1 .. n - 1 : calls'[i] = calls[i]
       /\ calls'[n] = e
  BY <1>8, <1>9
<1>11. Grows /\ SupersOK'  BY SameTable DEF CodeUses
<1>12. Top' = e  BY <1>10 DEF Top, Last
<1>13. AskedOK'  BY <1>6, <1>12 DEF AskedOK
<1>14. ASSUME NEW i \in DOMAIN calls', i >= n - 1 PROVE CallOK(i)'
  <2>1. i = n - 1 \/ i = n  BY <1>8, <1>10, <1>14
  <2>2. CASE i = n  BY <1>6, <1>10, <2>2 DEF CallOK
  <2>3. CASE i = n - 1
    <3>1. i \in 1 .. n - 1 /\ i + 1 = n /\ i \in DOMAIN calls  BY <1>8, <1>10, <2>3
    <3>2. CallOK(i) /\ calls'[i] = calls[i] /\ calls'[i + 1] = e  BY <1>10, <3>1 DEF OrderInv
    <3>3. calls[i].fn # "super" /\ (calls[i].fn = "clinit" => calls[i].c = c)  BY <1>8, <3>1, <3>2 DEF CallOK
    <3> QED  BY <1>6, <1>8, <1>10, <3>1, <3>2, <3>3 DEF CallOK
  <2> QED  BY <2>1, <2>2, <2>3
<1>15. \A i \in DOMAIN calls' : i > n - 1 => calls'[i].fn # "clinit"
  <2>1. \A i \in 1 .. n : i > n - 1 => i = n  BY <1>8
  <2> QED  BY <1>6, <1>10, <2>1
<1>16. n - 1 \in 0 .. Len(calls) /\ n - 1 <= Len(calls')  BY <1>3, <1>8, <1>10
<1> QED  BY <1>10, <1>11, <1>13, <1>14, <1>15, <1>16, OrderKeeps

(* The code of a <clinit> returns: the load of its class is over.          *)
LEMMA CodeReturnsOrder ==
  ASSUME LoadInv, LoadInv', OrderInv, CodeReturns
  PROVE  OrderInv'
<1>1. PICK n : n = Len(calls)  OBVIOUS
<1>2. PICK s : s = Front(calls)  OBVIOUS
<1>3. PICK c : c = Top.c  OBVIOUS
<1>4. Top.fn = "code"  BY DEF CodeReturns, Runs
<1>5. /\ n \in Nat /\ n >= 2 /\ n \in DOMAIN calls /\ calls[n].fn = "code" /\ calls[n].c = c /\ DOMAIN calls = 1 .. n
      /\ s \in Seq(ToSet(calls)) /\ Len(s) = n - 1
      /\ \A i \in 1 .. n - 1 : s[i] = calls[i]
  BY <1>1, <1>2, <1>3, <1>4, Popped
<1>6. Last(s) = calls[n - 1]  BY <1>5 DEF Last
<1>7. Grows /\ SupersOK'  BY SameTable DEF CodeReturns
<1>8. CASE Last(s).fn = "clinit"
  <2>1. calls' = Front(s) /\ control' = Return("EOK", c)  BY <1>2, <1>3, <1>8 DEF CodeReturns
  <2>2. n - 1 \in DOMAIN calls /\ (n - 1) + 1 = n  BY <1>5
  <2>3. EntryOK(n - 1, calls[n - 1]) /\ CallOK(n - 1)  BY <2>2 DEF LoadInv, StackOK, OrderInv
  <2>4. n > 2  BY <2>3, <1>5, <1>6, <1>8 DEF EntryOK
  <2>5. calls[n - 1].c = c /\ c \in Id
    <3>1. calls[n].c \in Id
      <4>1. EntryOK(n, calls[n])  BY <1>5 DEF LoadInv, StackOK
      <4> QED  BY <1>5, <4>1, Typed DEF EntryOK
    <3> QED  BY <1>5, <1>6, <1>8, <2>2, <2>3, <3>1 DEF CallOK
  <2>6. PICK m : m = n - 2  OBVIOUS
  <2>7. /\ Len(calls') = m /\ DOMAIN calls' = 1 .. m /\ m \in Nat /\ m >= 1 /\ m + 1 = n - 1
        /\ \A i \in 1 .. m : calls'[i] = calls[i]
    <3>1. Front(s) = SubSeq(s, 1, m)
      <4>1. Len(s) - 1 = m  BY <1>5, <2>6
      <4> QED  BY <4>1 DEF Front
    <3> QED  BY <1>5, <2>1, <2>4, <2>6, <3>1
  <2>8. m \in DOMAIN calls /\ m + 1 \in DOMAIN calls /\ m + 1 \notin DOMAIN calls'  BY <1>5, <2>6, <2>7
  <2>9. CallOK(m) /\ EntryOK(m, calls[m])  BY <2>8 DEF LoadInv, StackOK, OrderInv
  <2>10. calls[m].fn # "clinit"  BY <1>6, <1>8, <2>7, <2>8, <2>9 DEF CallOK
  <2>11. calls[m].fn = "super" => classes[c].name = FileOf(calls[m].c).super /\ calls[m].c \in Id
    BY <2>5, <2>7, <2>8, <2>9, Typed DEF CallOK, EntryOK
  <2>12. PICK d : d = calls[m].c  OBVIOUS
  <2>13. AskedOK'
    <3>1. Top' = calls[m]  BY <2>7 DEF Top, Last
    <3>2. FileOf(Top.c)' = FileOf(d)'  BY <2>12, <3>1
    <3>3. calls[m].fn = "super" => classes'[c].name = FileOf(d)'.super
      BY <1>7, <2>5, <2>11, <2>12 DEF Grows, FileOf
    <3> QED  BY <2>1, <3>1, <3>2, <3>3 DEF AskedOK, Return
  <2>14. ASSUME NEW i \in DOMAIN calls', i >= m PROVE CallOK(i)'
    <3>1. i = m  BY <2>7, <2>14
    <3> QED  BY <2>7, <2>8, <2>9, <2>10, <3>1 DEF CallOK
  <2>15. \A i \in DOMAIN calls' : ~(i > m)  BY <2>7
  <2>16. m \in 0 .. Len(calls) /\ m <= Len(calls')  BY <1>1, <1>5, <2>6, <2>7
  <2> QED  BY <1>7, <2>7, <2>13, <2>14, <2>15, <2>16, OrderKeeps
<1>9. CASE Last(s).fn # "clinit"
  <2>1. calls' = s /\ control' = Exit  BY <1>2, <1>9 DEF CodeReturns
  <2>2. PICK m : m = n - 1  OBVIOUS
  <2>3. /\ Len(calls') = m /\ DOMAIN calls' = 1 .. m /\ m \in Nat /\ m >= 1
        /\ \A i \in 1 .. m : calls'[i] = calls[i]
    BY <1>5, <2>1, <2>2
  <2>4. AskedOK'  BY <2>1 DEF AskedOK, Exit
  <2>5. ASSUME NEW i \in DOMAIN calls', i >= m PROVE CallOK(i)'
    <3>1. i = m /\ i + 1 \notin DOMAIN calls' /\ i \in DOMAIN calls /\ i = n - 1  BY <1>5, <2>2, <2>3, <2>5
    <3>2. CallOK(i)  BY <3>1 DEF OrderInv
    <3> QED  BY <1>6, <1>9, <2>3, <3>1, <3>2 DEF CallOK
  <2>6. \A i \in DOMAIN calls' : ~(i > m)  BY <2>3
  <2>7. m \in 0 .. Len(calls) /\ m <= Len(calls')  BY <1>1, <1>5, <2>2, <2>3
  <2> QED  BY <1>7, <2>3, <2>4, <2>5, <2>6, <2>7, OrderKeeps
<1> QED  BY <1>8, <1>9

(* main asks for the next class, alone on the stack.                       *)
LEMMA MainLoadsOrder ==
  ASSUME LoadInv, LoadInv', OrderInv, MainLoads
  PROVE  OrderInv'
<1>1. PICK e : e = Entry("main", 0, Tail(Top.left), FALSE)  OBVIOUS
<1>2. e.fn = "main" /\ calls' = <<e>>  BY <1>1 DEF Entry, MainLoads
<1>3. DOMAIN calls' = {1} /\ calls'[1] = e /\ Len(calls') = 1  BY <1>2
<1>4. Grows /\ SupersOK'  BY SameTable DEF MainLoads
<1>5. Top' = e  BY <1>3 DEF Top, Last
<1>6. AskedOK'  BY <1>2, <1>5 DEF AskedOK
<1>7. \A i \in DOMAIN calls' : calls'[i].fn = "main"  BY <1>2, <1>3
<1>8. \A i \in DOMAIN calls' : CallOK(i)'  BY <1>7 DEF CallOK
<1>9. 0 \in 0 .. Len(calls) /\ 0 <= Len(calls')  BY <1>3, Typed
<1>10. \A i \in 1 .. 0 : calls'[i] = calls[i]  OBVIOUS
<1>11. \A i \in DOMAIN calls' : calls'[i].fn # "clinit"  BY <1>7
<1> QED  BY <1>4, <1>6, <1>8, <1>9, <1>10, <1>11, OrderKeeps

(* The classes that main asked for have come: main runs.                   *)
LEMMA MainResumesOrder ==
  ASSUME LoadInv, LoadInv', OrderInv, MainResumes
  PROVE  OrderInv'
<1>1. Top.fn = "main" /\ Grows /\ SupersOK'  BY SameTable DEF MainResumes, Returned
<1>2. CASE UNCHANGED calls
  <2>1. Top' = Top  BY <1>2 DEF Top
  <2>2. AskedOK'  BY <1>1, <2>1 DEF AskedOK
  <2> QED  BY <1>1, <1>2, <2>2, SameStack
<1>3. CASE calls' = Append(calls, Entry("code", control.c, Uses[classes[control.c].name], FALSE))
  <2>1. PICK e : e = Entry("code", control.c, Uses[classes[control.c].name], FALSE)  OBVIOUS
  <2>2. PICK n : n = Len(calls)  OBVIOUS
  <2>3. e.fn = "code" /\ calls' = Append(calls, e)  BY <1>3, <2>1 DEF Entry
  <2>4. n \in Nat \ {0} /\ DOMAIN calls = 1 .. n /\ calls \in Seq(ToSet(calls)) /\ Top = calls[n]
    BY <2>2, Typed DEF LoadInv, StackOK
  <2>5. /\ Len(calls') = n + 1 /\ DOMAIN calls' = 1 .. n + 1
        /\ \A i \in 1 .. n : calls'[i] = calls[i]
        /\ calls'[n + 1] = e
    BY <2>2, <2>3, <2>4
  <2>6. Top' = e  BY <2>5 DEF Top, Last
  <2>7. AskedOK'  BY <2>3, <2>6 DEF AskedOK
  <2>8. \A i \in 1 .. n + 1 : i >= n => i = n \/ i = n + 1  BY <2>4
  <2>9. calls'[n] = calls[n]  BY <2>4, <2>5
  <2>10. \A i \in DOMAIN calls' : i >= n => calls'[i].fn \in {"main", "code"}
    BY <1>1, <2>3, <2>4, <2>5, <2>8, <2>9
  <2>11. \A i \in DOMAIN calls' : i >= n => CallOK(i)'  BY <2>10 DEF CallOK
  <2>12. n \in 0 .. Len(calls) /\ n <= Len(calls') /\ \A i \in 1 .. n + 1 : i > n => i >= n  BY <2>2, <2>4, <2>5
  <2>13. \A i \in DOMAIN calls' : i > n => calls'[i].fn # "clinit"  BY <2>5, <2>10, <2>12
  <2> QED  BY <1>1, <2>5, <2>7, <2>11, <2>12, <2>13, OrderKeeps
<1> QED  BY <1>2, <1>3 DEF MainResumes

(* main calls jGetClass with the table empty and alone on the stack.       *)
LEMMA InitOrder == ClassInit => OrderInv
<1> SUFFICES ASSUME ClassInit PROVE OrderInv  OBVIOUS
<1>1. PICK e : e = Entry("main", 0, Preloaded, FALSE)  OBVIOUS
<1>2. e.fn = "main" /\ calls = <<e>> /\ classes = << >>  BY <1>1 DEF Entry, ClassInit
<1>3. DOMAIN calls = {1} /\ calls[1] = e /\ Len(calls) = 1 /\ Id = {}  BY <1>2 DEF Id
<1>4. Top = e  BY <1>3 DEF Top, Last
<1> QED  BY <1>2, <1>3, <1>4 DEF OrderInv, CallOK, AskedOK, SupersOK, SuperFirst

(* Every step of the loader keeps the order.                               *)
LEMMA StepOrder == LoadInv /\ LoadInv' /\ OrderInv /\ [ClassNext]_classVars => OrderInv'
<1> SUFFICES ASSUME LoadInv, LoadInv', OrderInv, [ClassNext]_classVars PROVE OrderInv'  OBVIOUS
<1>1. CASE ClassNext
  BY <1>1, QuietOrder, HalfLoadedOrder, ParseOrder, SuperReturnedOrder, CodeUsesOrder, CodeReturnsOrder,
     MainLoadsOrder, MainResumesOrder DEF ClassNext
<1>2. CASE UNCHANGED classVars
  <2>1. Grows /\ SupersOK'  BY <1>2, SameTable DEF classVars
  <2>2. AskedOK'  BY <1>2 DEF classVars, OrderInv, AskedOK, Top, FileOf
  <2> QED  BY <1>2, <2>1, <2>2, SameStack DEF classVars
<1> QED  BY <1>1, <1>2

(* The order holds in every state the loader reaches.                      *)
THEOREM LoadOrderInvariant == ClassSpec => []OrderInv
<1>1. ClassInit => OrderInv  BY InitOrder
<1>2. LoadInv /\ LoadInv' /\ OrderInv /\ [ClassNext]_classVars => OrderInv'  BY StepOrder
<1> QED  BY <1>1, <1>2, LoadInvariant, PTL DEF ClassSpec

(* A <clinit> runs after that of the superclass has been started, but for  *)
(* the cases that the code does not order (jGetClass).                     *)
THEOREM LoadSuperFirst == ClassSpec => []SuperFirst
<1>1. OrderInv => SuperFirst  BY DEF OrderInv
<1> QED  BY <1>1, LoadOrderInvariant, PTL

---------------------------------------------------------------------------
(* What a recursion computes: casts. *)

(* A set of numbers has a least.                                           *)
LEMMA Least ==
  ASSUME NEW S \in SUBSET Nat, S # {}
  PROVE  Min(S) \in S /\ \A k \in S : Min(S) <= k
<1> DEFINE R == OpToRel(<, Nat)
<1>1. IsWellFoundedOn(R, Nat)  BY NatLessThanWellFounded
<1>2. PICK m \in S : \A k \in S : ~(<<k, m>> \in R)
  <2> HIDE DEF R
  <2> QED  BY <1>1, WFMin
<1>3. \A k \in S : ~(k < m)  BY <1>2 DEF OpToRel
<1>4. \A k \in S : m <= k  BY <1>3
<1> QED  BY <1>4 DEF Min

\* What a recursion computes that starts with x and takes K steps of F.
Orbit(f, S, F, x, K) == f \in [0 .. K -> S] /\ f[0] = x /\ \A i \in 1 .. K : f[i] = F[f[i - 1]]
Steps(F, S) == F \in [S -> S]

(* There is such a function.                                               *)
LEMMA Iterated ==
  ASSUME NEW S, NEW F, Steps(F, S), NEW x \in S, NEW K \in Nat
  PROVE  \E f : Orbit(f, S, F, x, K)
<1> DEFINE Good(f, m) == f \in [0 .. m -> S] /\ f[0] = x /\ \A i \in 1 .. m : f[i] = F[f[i - 1]]
           B == {m \in Nat : ~\E f : Good(f, m)}
<1>3. F \in [S -> S]  BY DEF Steps
<1>1. CASE B = {}  BY <1>1 DEF Orbit
<1>2. CASE B # {}
  <2> HIDE DEF Good
  <2>1. B \in SUBSET Nat  OBVIOUS
  <2> HIDE DEF B
  <2>2. Min(B) \in B /\ \A k \in B : Min(B) <= k  BY <1>2, <2>1, Least
  <2>3. PICK m : m \in B /\ \A k \in B : m <= k  BY <2>2
  <2>4. m \in Nat /\ (\A k \in Nat : k < m => k \notin B) /\ m \in B
    <3>1. m \in Nat  BY <2>1, <2>3
    <3>2. ASSUME NEW k \in Nat, k < m PROVE k \notin B
      <4>1. ~(m <= k)  BY <3>1, <3>2
      <4> QED  BY <2>3, <4>1
    <3> QED  BY <2>3, <3>1, <3>2
  <2>5. CASE m = 0
    <3>1. Good([i \in {0} |-> x], 0)
      <4>1. 0 .. 0 = {0} /\ 1 .. 0 = {}  OBVIOUS
      <4> QED  BY <4>1 DEF Good
    <3> QED  BY <2>4, <2>5, <3>1 DEF B
  <2>6. CASE m # 0
    <3>1. m - 1 \in Nat /\ m - 1 < m  BY <2>4, <2>6
    <3>2. m - 1 \notin B  BY <2>4, <3>1
    <3>3. PICK f : Good(f, m - 1)  BY <3>1, <3>2 DEF B
    <3> DEFINE g == [i \in 0 .. m |-> IF i = m THEN F[f[m - 1]] ELSE f[i]]
    <3>4. f \in [0 .. m - 1 -> S] /\ f[0] = x /\ \A i \in 1 .. m - 1 : f[i] = F[f[i - 1]]  BY <3>3 DEF Good
    <3>5. \A i \in 0 .. m : i \in 0 .. m - 1 \/ i = m  BY <2>4
    <3>6. \A i \in 1 .. m : (i \in 1 .. m - 1 \/ i = m) /\ i - 1 \in 0 .. m - 1 /\ i - 1 # m /\ i - 1 \in 0 .. m /\ i \in 0 .. m
      BY <2>4
    <3>7. m - 1 \in 0 .. m - 1 /\ 0 \in 0 .. m /\ 0 # m  BY <2>4, <2>6
    <3>8. g \in [0 .. m -> S]  BY <1>3, <3>4, <3>5, <3>7
    <3>9. g[0] = x  BY <3>4, <3>7
    <3>10. ASSUME NEW i \in 1 .. m PROVE g[i] = F[g[i - 1]]
      <4>1. g[i - 1] = f[i - 1]  BY <3>6
      <4>2. CASE i = m  BY <3>6, <4>1, <4>2
      <4>3. CASE i # m
        <5>1. g[i] = f[i] /\ i \in 1 .. m - 1  BY <3>6, <4>3
        <5> QED  BY <3>4, <4>1, <5>1
      <4> QED  BY <4>2, <4>3
    <3> HIDE DEF g
    <3>11. Good(g, m)  BY <3>8, <3>9, <3>10 DEF Good
    <3> QED  BY <2>4, <3>11 DEF B
  <2> QED  BY <2>5, <2>6
<1> QED  BY <1>1, <1>2

(* Whatever does as a recursion says is such a function.                   *)
LEMMA Unrolled ==
  ASSUME NEW S, NEW F, Steps(F, S), NEW x \in S, NEW K \in Nat, NEW r, r = [i \in 0 .. K |-> r[i]],
         r[0] = x, \A i \in 1 .. K : r[i - 1] \in S => r[i] = F[r[i - 1]]
  PROVE  Orbit(r, S, F, x, K)
<1> DEFINE B == {i \in 0 .. K : r[i] \notin S}
<1>1. F \in [S -> S]  BY DEF Steps
<1>2. B = {}
  <2> SUFFICES ASSUME B # {} PROVE FALSE  OBVIOUS
  <2>1. B \in SUBSET Nat  OBVIOUS
  <2>2. PICK m : m \in B /\ \A k \in B : m <= k
    <3> HIDE DEF B
    <3> QED  BY <2>1, Least
  <2>3. m \in 0 .. K /\ r[m] \notin S  BY <2>2
  <2>4. m \in 1 .. K /\ m - 1 \in 0 .. K /\ ~(m <= m - 1)  BY <2>3
  <2>5. r[m - 1] \in S  BY <2>2, <2>4
  <2>6. r[m] = F[r[m - 1]]  BY <2>4, <2>5
  <2> QED  BY <1>1, <2>3, <2>5, <2>6
<1>3. \A i \in 0 .. K : r[i] \in S  BY <1>2
<1>4. \A i \in 1 .. K : i - 1 \in 0 .. K  OBVIOUS
<1>5. r \in [0 .. K -> S]  BY <1>3
<1>6. \A i \in 1 .. K : r[i] = F[r[i - 1]]  BY <1>3, <1>4
<1> QED  BY <1>5, <1>6 DEF Orbit

\* The interfaces that compatible comes to.
Reached(name) ==
  CHOOSE reached : reached = [i \in 0 .. Cardinality(Interfaces) |->
    IF i = 0 THEN InterfacesOf(name)
    ELSE LET near == reached[i - 1] IN near \cup UNION {InterfacesOf(n) : n \in near}]

(* An interface is compatible if it is among them.                         *)
LEMMA CompatibleReached ==
  ASSUME NEW source, NEW target, File[classes[target].name].interface
  PROVE  compatible(source, target) <=> classes[target].name \in Reached(classes[source].name)[Cardinality(Interfaces)]
BY Zenon DEF compatible, Reached

(* Interfaces that stay in a set are found in it.                          *)
LEMMA ReachedStays ==
  ASSUME NEW name, NEW T \in SUBSET Name, InterfacesOf(name) \subseteq T, \A n \in T : InterfacesOf(n) \subseteq T
  PROVE  Reached(name)[Cardinality(Interfaces)] \subseteq T
<1>1. PICK K : K = Cardinality(Interfaces)  OBVIOUS
<1>2. K \in Nat
  <2>1. IsFiniteSet(Name) /\ Interfaces \subseteq Name  BY LookupAssumption DEF Interfaces
  <2>2. IsFiniteSet(Interfaces)  BY <2>1, FS_Subset
  <2> QED  BY <1>1, <2>2, FS_CardinalityType
<1> DEFINE F == [s \in SUBSET T |-> s \cup UNION {InterfacesOf(n) : n \in s}]
           E(r) == r = [i \in 0 .. K |-> IF i = 0 THEN InterfacesOf(name)
                                        ELSE LET near == r[i - 1] IN near \cup UNION {InterfacesOf(n) : n \in near}]
<1>3. \A s \in SUBSET T : s \cup UNION {InterfacesOf(n) : n \in s} \in SUBSET T  OBVIOUS
<1>4. F \in [SUBSET T -> SUBSET T]  BY <1>3
<1>5. \E r : E(r)
  <2>1. InterfacesOf(name) \in SUBSET T  OBVIOUS
  <2> HIDE DEF F
  <2>6. PICK S : S = SUBSET T  OBVIOUS
  <2>7. PICK x : x = InterfacesOf(name)  OBVIOUS
  <2>8. PICK G : G = F  OBVIOUS
  <2>9. Steps(G, S) /\ x \in S  BY <1>4, <2>1, <2>6, <2>7, <2>8 DEF Steps
  <2>11. PICK r : Orbit(r, S, G, x, K)  BY <1>2, <2>9, Iterated
  <2>10. r \in [0 .. K -> S] /\ r[0] = x /\ \A i \in 1 .. K : r[i] = G[r[i - 1]]  BY <2>11 DEF Orbit
  <2>2. ASSUME NEW i \in 0 .. K
        PROVE  r[i] = IF i = 0 THEN InterfacesOf(name)
                      ELSE LET near == r[i - 1] IN near \cup UNION {InterfacesOf(n) : n \in near}
    <3>1. CASE i = 0  BY <2>7, <2>10, <3>1
    <3>2. CASE i # 0
      <4>1. i \in 1 .. K /\ i - 1 \in 0 .. K  BY <1>2, <2>2, <3>2
      <4>2. r[i] = G[r[i - 1]] /\ r[i - 1] \in SUBSET T  BY <2>6, <2>10, <4>1
      <4>3. G[r[i - 1]] = r[i - 1] \cup UNION {InterfacesOf(n) : n \in r[i - 1]}  BY <2>8, <4>2 DEF F
      <4> QED  BY <3>2, <4>2, <4>3
    <3> QED  BY <3>1, <3>2
  <2>3. r = [i \in 0 .. K |-> r[i]]  BY <2>10
  <2>4. r = [i \in 0 .. K |-> IF i = 0 THEN InterfacesOf(name)
                             ELSE LET near == r[i - 1] IN near \cup UNION {InterfacesOf(n) : n \in near}]
    BY <2>2, <2>3
  <2>5. E(r)  BY <2>4
  <2> QED  BY <2>5
<1>6. PICK r : r = Reached(name)  OBVIOUS
<1>7. E(r)  BY <1>1, <1>5, <1>6, Zenon DEF Reached
<1> HIDE DEF F
<1>8. \A i \in 0 .. K : r[i] = IF i = 0 THEN InterfacesOf(name)
                               ELSE r[i - 1] \cup UNION {InterfacesOf(n) : n \in r[i - 1]}
  <2>1. r = [i \in 0 .. K |-> IF i = 0 THEN InterfacesOf(name)
                              ELSE LET near == r[i - 1] IN near \cup UNION {InterfacesOf(n) : n \in near}]
    BY <1>7
  <2>2. ASSUME NEW i \in 0 .. K
        PROVE  r[i] = IF i = 0 THEN InterfacesOf(name) ELSE r[i - 1] \cup UNION {InterfacesOf(n) : n \in r[i - 1]}
    <3> DEFINE G(j) == IF j = 0 THEN InterfacesOf(name) ELSE r[j - 1] \cup UNION {InterfacesOf(n) : n \in r[j - 1]}
    <3>1. r = [j \in 0 .. K |-> G(j)]  BY <2>1, Zenon
    <3> HIDE DEF G
    <3>2. r[i] = G(i)  BY <3>1
    <3> QED  BY <3>2 DEF G
  <2> QED  BY <2>2
<1>9. r[K] \subseteq T
  <2>1. r = [i \in 0 .. K |-> r[i]]
    <3> DEFINE G(j) == IF j = 0 THEN InterfacesOf(name)
                       ELSE LET near == r[j - 1] IN near \cup UNION {InterfacesOf(n) : n \in near}
    <3>1. r = [j \in 0 .. K |-> G(j)]  BY <1>7
    <3> HIDE DEF E, F, G
    <3>2. PICK g : g = r  OBVIOUS
    <3>3. g = [j \in 0 .. K |-> G(j)]  BY <3>1, <3>2
    <3>4. DOMAIN g = 0 .. K  BY <3>3, Zenon
    <3>5. g = [i \in 0 .. K |-> g[i]]  BY <3>3, <3>4, Zenon
    <3> QED  BY <3>2, <3>5, Zenon
  <2> HIDE DEF E
  <2>2. PICK S : S = SUBSET T  OBVIOUS
  <2>3. PICK x : x = InterfacesOf(name)  OBVIOUS
  <2>4. PICK G : G = F  OBVIOUS
  <2>5. Steps(G, S) /\ x \in S  BY <1>4, <2>2, <2>3, <2>4 DEF Steps
  <2>6. r[0] = x
    <3>1. 0 \in 0 .. K  BY <1>2
    <3> QED  BY <1>8, <2>3, <3>1, Zenon
  <2>7. ASSUME NEW i \in 1 .. K, r[i - 1] \in S PROVE r[i] = G[r[i - 1]]
    <3>1. i \in 0 .. K /\ i # 0  BY <1>2, <2>7
    <3>2. r[i] = r[i - 1] \cup UNION {InterfacesOf(n) : n \in r[i - 1]}  BY <1>8, <3>1
    <3>3. G[r[i - 1]] = r[i - 1] \cup UNION {InterfacesOf(n) : n \in r[i - 1]}  BY <2>2, <2>4, <2>7 DEF F
    <3> QED  BY <3>2, <3>3
  <2>8. Orbit(r, S, G, x, K)  BY <1>2, <2>1, <2>5, <2>6, <2>7, Unrolled
  <2>9. r \in [0 .. K -> SUBSET T] /\ K \in 0 .. K  BY <1>2, <2>2, <2>8 DEF Orbit
  <2> QED  BY <2>9
<1> QED  BY <1>1, <1>6, <1>9

(* What a class has above it, by the table, is what its file says.         *)
LEMMA LookedIn ==
  ASSUME LoadInv, SupersOK, NEW T \in SUBSET Name, NEW name \in T,
         \A n \in T \cap DOMAIN File : Above(n) \subseteq T
  PROVE  Looked(name) \subseteq T /\ InterfacesOf(name) \subseteq T
<1>1. Looked(name) \subseteq T
  <2> SUFFICES ASSUME NEW m \in Looked(name), m # name PROVE m \in T  OBVIOUS
  <2>1. CASE InTable(name) = {}
    <3>1. m \in {File[n].super : n \in {name} \cap DOMAIN File} \ {None}  BY <2>1 DEF Looked
    <3>2. name \in DOMAIN File /\ m = File[name].super /\ m # None  BY <3>1
    <3>3. m \in Above(name)  BY <3>2 DEF Above
    <3> QED  BY <3>2, <3>3
  <2>2. CASE InTable(name) # {}
    <3>1. PICK d \in InTable(name) : numberSuperClasses(d) = 1 /\ m = classes[classes[d].super].name
      BY <2>2 DEF Looked
    <3>2. d \in Id /\ classes[d].name = name /\ classes[d].super # 0  BY <3>1 DEF InTable, numberSuperClasses
    <3>3. classes[d].super \in Id /\ name \in DOMAIN File  BY <3>2, Typed DEF ClassRec
    <3>4. m = File[name].super /\ m \in DOMAIN File  BY <3>1, <3>2, <3>3, Typed DEF SupersOK, FileOf, ClassRec
    <3>5. m # None  BY <3>4, LookupAssumption
    <3>6. m \in Above(name)  BY <3>4, <3>5 DEF Above
    <3> QED  BY <3>3, <3>6
  <2> QED  BY <2>1, <2>2
<1>2. \A n \in Looked(name) \cap DOMAIN File : File[n].interfaces \subseteq T  BY <1>1 DEF Above
<1> QED  BY <1>1, <1>2 DEF InterfacesOf

(* The supertypes of a class are names, and whatever one has above it is   *)
(* one.                                                                    *)
LEMMA SupertypesClosed ==
  ASSUME NEW name \in DOMAIN File
  PROVE  /\ Supertypes[name] \in SUBSET Name /\ name \in Supertypes[name]
         /\ \A n \in Supertypes[name] \cap DOMAIN File : Above(n) \subseteq Supertypes[name]
<1>1. PICK T : T = Supertypes[name]  OBVIOUS
<1>2. T = {m \in Name : \A S \in SUBSET Name :
             name \in S /\ (\A k \in S \cap DOMAIN File : Above(k) \subseteq S) => m \in S}
  BY <1>1 DEF Supertypes
<1>3. name \in Name  BY LookupAssumption
<1>4. ASSUME NEW n \in T \cap DOMAIN File PROVE Above(n) \subseteq T
  <2>1. Above(n) \subseteq Name  BY LookupAssumption DEF Above
  <2>2. ASSUME NEW m \in Above(n), NEW S \in SUBSET Name,
               name \in S, \A k \in S \cap DOMAIN File : Above(k) \subseteq S
        PROVE  m \in S
    <3>1. n \in S  BY <1>2, <2>2
    <3> QED  BY <2>2, <3>1
  <2> QED  BY <1>2, <2>1, <2>2
<1>5. T \in SUBSET Name /\ name \in T  BY <1>2, <1>3
<1> QED  BY <1>1, <1>4, <1>5

(* A cast that succeeds is right, whichever classes are in the table and   *)
(* however far they are loaded (compatible).                               *)
THEOREM LoadCastsSound == ClassSpec => []CastsSound
<1>1. ASSUME LoadInv, SupersOK, NEW c \in Id, NEW idx \in DOMAIN FileOf(c).consts, InstanceOf(c, idx)
      PROVE  FileOf(c).consts[idx] \in Supertypes[classes[c].name]
  <2>1. PICK target \in InTable(FileOf(c).consts[idx]) : compatible(c, target)  BY <1>1 DEF InstanceOf
  <2>2. PICK name : name = classes[c].name  OBVIOUS
  <2>3. PICK T : T = Supertypes[name]  OBVIOUS
  <2>4. name \in DOMAIN File  BY <2>2, Typed, <1>1 DEF ClassRec
  <2>5. T \in SUBSET Name /\ name \in T /\ \A n \in T \cap DOMAIN File : Above(n) \subseteq T
    BY <2>3, <2>4, SupertypesClosed
  <2>6. \A n \in T : Looked(n) \subseteq T /\ InterfacesOf(n) \subseteq T  BY <1>1, <2>5, LookedIn
  <2>7. classes[target].name = FileOf(c).consts[idx]  BY <2>1 DEF InTable
  <2>8. CASE ~File[classes[target].name].interface
    <3>1. classes[target].name \in Looked(name)  BY <2>1, <2>2, <2>8 DEF compatible
    <3> QED  BY <2>2, <2>3, <2>5, <2>6, <2>7, <3>1
  <2>9. CASE File[classes[target].name].interface
    <3>1. classes[target].name \in Reached(name)[Cardinality(Interfaces)]  BY <2>1, <2>2, <2>9, CompatibleReached
    <3>2. Reached(name)[Cardinality(Interfaces)] \subseteq T  BY <2>5, <2>6, ReachedStays
    <3> QED  BY <2>2, <2>3, <2>7, <3>1, <3>2
  <2> QED  BY <2>8, <2>9
<1>2. LoadInv /\ OrderInv => CastsSound  BY <1>1 DEF OrderInv, CastsSound
<1> QED  BY <1>2, LoadInvariant, LoadOrderInvariant, PTL

---------------------------------------------------------------------------
(* Methods. *)

\* The class above a class of the table, or none.
Up(d) == IF d = 0 \/ numberSuperClasses(d) = 0 THEN 0 ELSE classes[d].super
\* The same, of a sequence of names that ends with the class: one more name if it has a file.
Onward(s) == IF File[Last(s)].super \notin DOMAIN File THEN s ELSE Append(s, File[Last(s)].super)
\* Such a sequence: each name is the superclass of the one before.
Line(n) == {s \in Seq(DOMAIN File) :
              s # << >> /\ s[1] = n /\ \A i \in 1 .. Len(s) - 1 : s[i + 1] = File[s[i]].super}

ChainUp(c) ==
  CHOOSE up : up = [i \in 1 .. Len(classes) |->
    IF i = 1 THEN c ELSE
    LET below == up[i - 1] IN IF below = 0 \/ numberSuperClasses(below) = 0 THEN 0 ELSE classes[below].super]
NamesUp(n) ==
  CHOOSE up : up = [i \in 0 .. Cardinality(Name) |->
    IF i = 0 THEN <<n>> ELSE
    LET below == up[i - 1]
        s == File[Last(below)].super IN
    IF s \notin DOMAIN File THEN below ELSE Append(below, s)]

(* The way up as the model writes it.                                      *)
LEMMA ChainIs == \A c : Chain(c) = ChainUp(c)
BY Zenon DEF Chain, ChainUp

(* And of the class files.                                                 *)
LEMMA AncestorsIs == ASSUME NEW n \in DOMAIN File PROVE Ancestors[n] = NamesUp(n)[Cardinality(Name)]
BY Zenon DEF Ancestors, NamesUp

(* jGetMethod goes up from the class, one superclass at a time, and stops  *)
(* at one that has none.                                                   *)
LEMMA ChainGoes ==
  ASSUME LoadInv, NEW c \in Id
  PROVE  /\ Chain(c) = [i \in 1 .. Len(classes) |-> Chain(c)[i]] /\ Chain(c)[1] = c
         /\ \A i \in 2 .. Len(classes) : Chain(c)[i] = Up(Chain(c)[i - 1])
<1>1. PICK N : N = Len(classes)  OBVIOUS
<1>2. N \in Nat /\ N >= 1 /\ c \in 1 .. N
  <2>1. N \in Nat /\ c \in 1 .. N  BY <1>1, Typed
  <2> QED  BY <2>1
<1>3. \A d \in 0 .. N : Up(d) \in 0 .. N
  <2> SUFFICES ASSUME NEW d \in 0 .. N PROVE Up(d) \in 0 .. N  OBVIOUS
  <2>1. CASE d = 0  BY <1>2, <2>1 DEF Up
  <2>2. CASE d # 0
    <3>1. d \in Id  BY <1>1, <1>2, <2>2, Typed
    <3>2. classes[d].super \in 0 .. N  BY <1>1, <3>1, Typed DEF ClassRec
    <3> QED  BY <1>2, <3>2 DEF Up
  <2> QED  BY <2>1, <2>2
<1> DEFINE E(r) == r = [i \in 1 .. N |->
             IF i = 1 THEN c ELSE
             LET below == r[i - 1] IN IF below = 0 \/ numberSuperClasses(below) = 0 THEN 0 ELSE classes[below].super]
<1>4. \E r : E(r)
  <2>1. PICK S : S = 0 .. N  OBVIOUS
  <2>2. PICK F : F = [d \in S |-> Up(d)]  OBVIOUS
  <2>3. Steps(F, S) /\ c \in S /\ N - 1 \in Nat  BY <1>2, <1>3, <2>1, <2>2 DEF Steps
  <2>4. PICK f : Orbit(f, S, F, c, N - 1)  BY <2>3, Iterated
  <2>5. f[0] = c /\ f \in [0 .. N - 1 -> S] /\ \A i \in 1 .. N - 1 : f[i] = F[f[i - 1]]  BY <2>4 DEF Orbit
  <2>6. PICK r : r = [i \in 1 .. N |-> f[i - 1]]  OBVIOUS
  <2>7. ASSUME NEW i \in 1 .. N PROVE r[i] = IF i = 1 THEN c ELSE Up(r[i - 1])
    <3>1. r[i] = f[i - 1]  BY <2>6
    <3>2. CASE i = 1
      <4>1. i - 1 = 0  BY <3>2
      <4> QED  BY <2>5, <3>1, <3>2, <4>1
    <3>3. CASE i # 1
      <4>1. PICK j : j = i - 1  OBVIOUS
      <4>2. j \in 1 .. N - 1 /\ j \in 1 .. N /\ j - 1 \in 0 .. N - 1  BY <1>2, <2>7, <3>3, <4>1
      <4>3. r[j] = f[j - 1] /\ f[j - 1] \in S /\ f[j] = F[f[j - 1]]  BY <2>5, <2>6, <4>2
      <4>4. f[j] = Up(r[j])  BY <2>2, <4>3
      <4> QED  BY <3>1, <3>3, <4>1, <4>4
    <3> QED  BY <3>2, <3>3
  <2>8. r = [i \in 1 .. N |-> r[i]]  BY <2>6
  <2>9. E(r)  BY <2>7, <2>8 DEF Up
  <2> QED  BY <2>9
<1>5. PICK r : r = Chain(c)  OBVIOUS
<1>6. r = ChainUp(c)  BY <1>5, ChainIs
<1>7. E(r)  BY <1>1, <1>4, <1>6, Zenon DEF ChainUp
<1>8. r = [i \in 1 .. N |-> IF i = 1 THEN c ELSE Up(r[i - 1])]  BY <1>7 DEF Up
<1>9. r = [i \in 1 .. N |-> r[i]] /\ \A i \in 1 .. N : r[i] = IF i = 1 THEN c ELSE Up(r[i - 1])
  <2> DEFINE G(j) == IF j = 1 THEN c ELSE Up(r[j - 1])
  <2>1. PICK g : g = r  OBVIOUS
  <2>2. r = [j \in 1 .. N |-> G(j)]  BY <1>8
  <2> HIDE DEF G, E
  <2>3. g = [j \in 1 .. N |-> G(j)]  BY <2>1, <2>2, Zenon
  <2>4. g = [j \in 1 .. N |-> g[j]] /\ \A j \in 1 .. N : g[j] = G(j)  BY <2>3
  <2> QED  BY <2>1, <2>4 DEF G
<1> HIDE DEF E
<1>10. r[1] = c
  <2>1. 1 \in 1 .. N  BY <1>2
  <2> QED  BY <1>9, <2>1
<1>11. ASSUME NEW i \in 2 .. N PROVE r[i] = Up(r[i - 1])
  <2>1. i \in 1 .. N /\ i # 1  BY <1>2, <1>11
  <2> QED  BY <1>9, <2>1
<1>12. r = [i \in 1 .. N |-> r[i]]  BY <1>9
<1> QED  BY <1>1, <1>5, <1>10, <1>11, <1>12

(* One name more.                                                          *)
LEMMA OneMore ==
  ASSUME NEW n \in DOMAIN File, NEW s \in Line(n)
  PROVE  Onward(s) \in Line(n)
<1>1. PICK k : k = Len(s)  OBVIOUS
<1>2. s \in Seq(DOMAIN File) /\ s # << >> /\ s[1] = n /\ \A i \in 1 .. k - 1 : s[i + 1] = File[s[i]].super
  BY <1>1 DEF Line
<1>3. k \in Nat \ {0} /\ Last(s) = s[k]  BY <1>1, <1>2 DEF Last
<1>4. PICK x : x = File[Last(s)].super  OBVIOUS
<1>5. CASE x \notin DOMAIN File  BY <1>4, <1>5 DEF Onward
<1>6. CASE x \in DOMAIN File
  <2>1. PICK t : t = Append(s, x)  OBVIOUS
  <2>2. t \in Seq(DOMAIN File) /\ Len(t) = k + 1 /\ t[k + 1] = x /\ \A i \in 1 .. k : t[i] = s[i]
    BY <1>1, <1>2, <1>3, <1>6, <2>1
  <2>3. t # << >> /\ t[1] = n  BY <1>2, <1>3, <2>2
  <2>4. ASSUME NEW i \in 1 .. Len(t) - 1 PROVE t[i + 1] = File[t[i]].super
    <3>1. i \in 1 .. k  BY <1>3, <2>2, <2>4
    <3>2. CASE i = k  BY <1>3, <1>4, <2>2, <3>1, <3>2
    <3>3. CASE i # k
      <4>1. i \in 1 .. k - 1 /\ i + 1 \in 1 .. k  BY <1>3, <3>1, <3>3
      <4> QED  BY <1>2, <2>2, <3>1, <4>1
    <3> QED  BY <3>2, <3>3
  <2>5. t \in Line(n)  BY <2>2, <2>3, <2>4 DEF Line
  <2> QED  BY <1>4, <1>6, <2>1, <2>5 DEF Onward
<1> QED  BY <1>5, <1>6

(* The ancestors of a class are names of files, each the superclass of the *)
(* one before.                                                             *)
LEMMA AncestorsLine ==
  ASSUME NEW n \in DOMAIN File
  PROVE  Ancestors[n] \in Line(n)
<1>1. PICK K : K = Cardinality(Name)  OBVIOUS
<1>2. K \in Nat  BY <1>1, LookupAssumption, FS_CardinalityType
<1>3. PICK S : S = Line(n)  OBVIOUS
<1>4. PICK F : F = [s \in S |-> Onward(s)]  OBVIOUS
<1>5. <<n>> \in S
  <2>1. <<n>> \in Seq(DOMAIN File) /\ Len(<<n>>) = 1 /\ <<n>>[1] = n /\ <<n>> # << >>  OBVIOUS
  <2>2. 1 .. 1 - 1 = {}  OBVIOUS
  <2> QED  BY <1>3, <2>1, <2>2 DEF Line
<1>6. Steps(F, S)  BY <1>3, <1>4, OneMore DEF Steps
<1> DEFINE E(r) == r = [i \in 0 .. K |->
             IF i = 0 THEN <<n>> ELSE
             LET below == r[i - 1]
                 s == File[Last(below)].super IN
             IF s \notin DOMAIN File THEN below ELSE Append(below, s)]
<1>7. \A r : E(r) <=> r = [i \in 0 .. K |-> IF i = 0 THEN <<n>> ELSE Onward(r[i - 1])]  BY DEF Onward
<1>8. \E r : E(r)
  <2>1. PICK f : Orbit(f, S, F, <<n>>, K)  BY <1>2, <1>5, <1>6, Iterated
  <2>2. f[0] = <<n>> /\ f \in [0 .. K -> S] /\ \A i \in 1 .. K : f[i] = F[f[i - 1]]  BY <2>1 DEF Orbit
  <2>3. ASSUME NEW i \in 0 .. K PROVE f[i] = IF i = 0 THEN <<n>> ELSE Onward(f[i - 1])
    <3>1. CASE i = 0  BY <2>2, <3>1
    <3>2. CASE i # 0
      <4>1. i \in 1 .. K /\ i - 1 \in 0 .. K  BY <1>2, <2>3, <3>2
      <4>2. f[i - 1] \in S /\ f[i] = F[f[i - 1]]  BY <2>2, <4>1
      <4> QED  BY <1>4, <3>2, <4>2
    <3> QED  BY <3>1, <3>2
  <2> HIDE DEF E
  <2>4. f = [i \in 0 .. K |-> f[i]]  BY <2>2
  <2>5. f = [i \in 0 .. K |-> IF i = 0 THEN <<n>> ELSE Onward(f[i - 1])]  BY <2>3, <2>4
  <2> QED  BY <1>7, <2>5
<1>9. PICK r : r = NamesUp(n)  OBVIOUS
<1>10. E(r)  BY <1>1, <1>8, <1>9, Zenon DEF NamesUp
<1> HIDE DEF E
<1>11. r = [i \in 0 .. K |-> r[i]] /\ \A i \in 0 .. K : r[i] = IF i = 0 THEN <<n>> ELSE Onward(r[i - 1])
  <2> DEFINE G(j) == IF j = 0 THEN <<n>> ELSE Onward(r[j - 1])
  <2>1. PICK g : g = r  OBVIOUS
  <2>2. r = [j \in 0 .. K |-> G(j)]  BY <1>7, <1>10
  <2> HIDE DEF G
  <2>3. g = [j \in 0 .. K |-> G(j)]  BY <2>1, <2>2, Zenon
  <2>4. g = [j \in 0 .. K |-> g[j]] /\ \A j \in 0 .. K : g[j] = G(j)  BY <2>3
  <2> QED  BY <2>1, <2>4 DEF G
<1>12. Orbit(r, S, F, <<n>>, K)
  <2>1. r[0] = <<n>>
    <3>1. 0 \in 0 .. K  BY <1>2
    <3> QED  BY <1>11, <3>1
  <2>2. ASSUME NEW i \in 1 .. K, r[i - 1] \in S PROVE r[i] = F[r[i - 1]]
    <3>1. i \in 0 .. K /\ i # 0  BY <1>2, <2>2
    <3> QED  BY <1>4, <1>11, <2>2, <3>1
  <2>3. r = [i \in 0 .. K |-> r[i]]  BY <1>11
  <2>4. PICK x : x = <<n>>  OBVIOUS
  <2>5. x \in S /\ r[0] = x  BY <1>5, <2>1, <2>4
  <2>6. Orbit(r, S, F, x, K)  BY <1>2, <1>6, <2>2, <2>3, <2>5, Unrolled
  <2> QED  BY <2>4, <2>6
<1>13. r[K] \in S
  <2>1. K \in 0 .. K /\ r \in [0 .. K -> S]  BY <1>2, <1>12 DEF Orbit
  <2> QED  BY <2>1
<1> QED  BY <1>1, <1>3, <1>9, <1>13, AncestorsIs

(* A class that is no ancestor of its own has ancestors of different       *)
(* names.                                                                  *)
LEMMA AncestorsDiffer ==
  ASSUME NEW n \in Acyclic
  PROVE  LET A == Ancestors[n] IN
         /\ n \in DOMAIN File /\ A \in Seq(DOMAIN File) /\ Len(A) \in Nat \ {0} /\ A[1] = n
         /\ File[A[Len(A)]].super = None
         /\ \A i \in 1 .. Len(A) - 1 : A[i + 1] = File[A[i]].super
         /\ \A i, j \in 1 .. Len(A) : A[i] = A[j] => i = j
<1>1. PICK A : A = Ancestors[n]  OBVIOUS
<1>2. n \in DOMAIN File /\ File[Last(A)].super = None  BY <1>1 DEF Acyclic
<1>3. A \in Line(n)  BY <1>1, <1>2, AncestorsLine
<1>4. PICK L : L = Len(A)  OBVIOUS
<1>5. /\ A \in Seq(DOMAIN File) /\ L \in Nat \ {0} /\ A[1] = n
      /\ \A i \in 1 .. L - 1 : A[i + 1] = File[A[i]].super
  BY <1>3, <1>4 DEF Line
<1>6. File[A[L]].super = None  BY <1>2, <1>4 DEF Last
<1>7. \A i \in 1 .. L : A[i] \in DOMAIN File /\ A[i] # None  BY <1>4, <1>5, LookupAssumption
<1> DEFINE B == {j \in 1 .. L : \E i \in 1 .. L : i < j /\ A[i] = A[j]}
<1>8. B = {}
  <2> SUFFICES ASSUME B # {} PROVE FALSE  OBVIOUS
  <2>1. B \in SUBSET (1 .. L)  OBVIOUS
  <2>2. PICK j : j \in B /\ \A k \in B : j >= k
    <3> HIDE DEF B
    <3> QED  BY <1>5, <2>1, Greatest
  <2>3. PICK i \in 1 .. L : j \in 1 .. L /\ i < j /\ A[i] = A[j]  BY <2>2
  <2>4. i \in 1 .. L - 1 /\ i + 1 \in 1 .. L  BY <1>5, <2>3
  <2>5. A[i + 1] = File[A[j]].super  BY <1>5, <2>3, <2>4
  <2>6. j # L  BY <1>6, <1>7, <2>4, <2>5
  <2>7. j \in 1 .. L - 1 /\ j + 1 \in 1 .. L /\ i + 1 < j + 1 /\ ~(j >= j + 1)  BY <1>5, <2>3, <2>6
  <2>8. A[i + 1] = A[j + 1]  BY <1>5, <2>5, <2>7
  <2>9. j + 1 \in B  BY <2>4, <2>7, <2>8
  <2> QED  BY <2>2, <2>7, <2>9
<1>9. ASSUME NEW i \in 1 .. L, NEW j \in 1 .. L, A[i] = A[j] PROVE i = j
  <2>1. ~(i < j) /\ ~(j < i)  BY <1>8, <1>9
  <2> QED  BY <1>5, <1>9, <2>1
<1> HIDE DEF B
<1> QED  BY <1>1, <1>2, <1>4, <1>5, <1>6, <1>9

(* A class that is loaded has in the table above it what its file has.     *)
LEMMA SettledAbove ==
  ASSUME LoadInv, SupersOK, NEW n \in DOMAIN File,
         NEW e, e \in InTable(n), e \notin OnStack("super") \cup errors, NEW d \in Id, classes[d].name = n
  PROVE  /\ classes[d].parsed = 3
         /\ File[n].super = None => Up(d) = 0
         /\ File[n].super # None => classes[d].super # 0 /\ Up(d) \in Id /\ classes[Up(d)].name = File[n].super
<1>1. e \in Id /\ classes[e].name = n  BY DEF InTable
<1>2. e = d  BY <1>1 DEF LoadInv, NamesOnce
<1>3. ~Waits(d) /\ d \notin errors  BY <1>2 DEF Waits, OnStack
<1>4. Complete(d)  BY <1>3 DEF LoadInv, CompleteInTime
<1>5. d \in Nat \ {0} /\ classes[d].super \in 0 .. Len(classes) /\ Len(classes) \in Nat /\ Id = 1 .. Len(classes)
  BY Typed DEF ClassRec
<1>6. classes[d].super # 0 => classes[d].super \in Id /\ classes[classes[d].super].name = File[n].super
  BY <1>5 DEF SupersOK, FileOf
<1>7. Up(d) = classes[d].super  BY <1>5 DEF Up, numberSuperClasses
<1>8. ASSUME File[n].super = None PROVE classes[d].super = 0
  <2> SUFFICES ASSUME classes[d].super # 0 PROVE FALSE  OBVIOUS
  <2>1. classes[d].super \in Id /\ classes[classes[d].super].name = None  BY <1>6, <1>8
  <2>2. classes[classes[d].super].name \in DOMAIN File  BY <2>1, Typed DEF ClassRec
  <2> QED  BY <2>1, <2>2, LookupAssumption
<1> QED  BY <1>4, <1>6, <1>7, <1>8 DEF Complete, FileOf

(* The way up in the table is the one of the class files.                  *)
LEMMA ChainFollows ==
  ASSUME LoadInv, SupersOK, NEW c \in Id, Settled(c), NEW A, A = Ancestors[classes[c].name]
  PROVE  /\ Len(A) <= Len(classes)
         /\ \A i \in 1 .. Len(classes) :
              IF i <= Len(A)
              THEN Chain(c)[i] \in Id /\ classes[Chain(c)[i]].name = A[i] /\ classes[Chain(c)[i]].parsed = 3
              ELSE Chain(c)[i] = 0
<1>1. PICK n : n = classes[c].name  OBVIOUS
<1>2. n \in Acyclic /\ A = Ancestors[n] /\ \A m \in ToSet(A) : \E d \in InTable(m) : d \notin OnStack("super") \cup errors
  BY <1>1 DEF Settled
<1>3. PICK L : L = Len(A)  OBVIOUS
<1>4. /\ A \in Seq(DOMAIN File) /\ L \in Nat \ {0} /\ A[1] = n
      /\ File[A[L]].super = None
      /\ \A i \in 1 .. L - 1 : A[i + 1] = File[A[i]].super
      /\ \A i, j \in 1 .. L : A[i] = A[j] => i = j
  BY <1>2, <1>3, AncestorsDiffer
<1>5. PICK N : N = Len(classes)  OBVIOUS
<1>6. N \in Nat /\ Id = 1 .. N /\ N >= 1
  <2>1. N \in Nat /\ Id = 1 .. N  BY <1>5, Typed
  <2> QED  BY <2>1
<1>7. ASSUME NEW i \in 1 .. L
      PROVE  /\ A[i] \in DOMAIN File /\ A[i] \in ToSet(A)
             /\ \E e \in InTable(A[i]) : e \notin OnStack("super") \cup errors
  <2>1. A[i] \in DOMAIN File /\ A[i] \in ToSet(A)  BY <1>3, <1>4 DEF ToSet
  <2> QED  BY <1>2, <2>1
<1>8. ASSUME NEW i \in 1 .. L, NEW d \in Id, classes[d].name = A[i]
      PROVE  /\ classes[d].parsed = 3
             /\ i = L => Up(d) = 0
             /\ i # L => i + 1 \in 1 .. L /\ Up(d) \in Id /\ classes[Up(d)].name = A[i + 1]
  <2>1. PICK e \in InTable(A[i]) : e \notin OnStack("super") \cup errors  BY <1>7
  <2>2. /\ classes[d].parsed = 3
        /\ File[A[i]].super = None => Up(d) = 0
        /\ File[A[i]].super # None => Up(d) \in Id /\ classes[Up(d)].name = File[A[i]].super
    BY <1>7, <1>8, <2>1, SettledAbove
  <2>3. CASE i = L  BY <1>4, <2>2, <2>3
  <2>4. CASE i # L
    <3>1. i \in 1 .. L - 1 /\ i + 1 \in 1 .. L  BY <1>4, <2>4
    <3>2. A[i + 1] = File[A[i]].super /\ A[i + 1] \in DOMAIN File  BY <1>4, <1>7, <3>1
    <3>3. A[i + 1] # None  BY <3>2, LookupAssumption
    <3> QED  BY <2>2, <2>4, <3>1, <3>2, <3>3
  <2> QED  BY <2>3, <2>4
<1>9. L <= N
  <2> DEFINE D == [i \in 1 .. L |-> CHOOSE d \in Id : classes[d].name = A[i]]
  <2>1. ASSUME NEW i \in 1 .. L PROVE D[i] \in Id /\ classes[D[i]].name = A[i]
    <3>1. \E d \in Id : classes[d].name = A[i]  BY <1>7 DEF InTable
    <3> QED  BY <3>1
  <2> HIDE DEF D
  <2>2. D = [i \in 1 .. L |-> D[i]]  BY DEF D
  <2>3. D \in [1 .. L -> 1 .. N]  BY <1>6, <2>1, <2>2
  <2>4. \A i, j \in 1 .. L : D[i] = D[j] => i = j  BY <1>4, <2>1
  <2>5. D \in Injection(1 .. L, 1 .. N)  BY <2>3, <2>4 DEF Injection, IsInjective
  <2>6. IsFiniteSet(1 .. N) /\ Cardinality(1 .. N) = N /\ Cardinality(1 .. L) = L  BY <1>4, <1>6, FS_Interval
  <2>7. Cardinality(1 .. L) <= Cardinality(1 .. N)  BY <2>5, <2>6, FS_Injection
  <2> QED  BY <2>6, <2>7
<1>10. PICK U : U = Chain(c)  OBVIOUS
<1>11. U[1] = c /\ \A i \in 2 .. N : U[i] = Up(U[i - 1])  BY <1>5, <1>10, ChainGoes
<1> DEFINE Good(i) == IF i <= L THEN U[i] \in Id /\ classes[U[i]].name = A[i] ELSE U[i] = 0
           B == {i \in 1 .. N : ~Good(i)}
<1>12. B = {}
  <2> SUFFICES ASSUME B # {} PROVE FALSE  OBVIOUS
  <2>1. B \in SUBSET Nat  OBVIOUS
  <2>2. PICK m : m \in B /\ \A k \in B : m <= k
    <3> HIDE DEF B
    <3> QED  BY <2>1, Least
  <2>3. m \in 1 .. N /\ ~Good(m)  BY <2>2
  <2>4. m # 1
    <3>1. Good(1)  BY <1>1, <1>4, <1>11
    <3> QED  BY <2>3, <3>1
  <2>5. PICK k : k = m - 1  OBVIOUS
  <2>6. k \in 1 .. N /\ m = k + 1 /\ m \in 2 .. N /\ ~(m <= k)  BY <1>6, <2>3, <2>4, <2>5
  <2>7. Good(k)  BY <2>2, <2>6
  <2>8. U[m] = Up(U[k])  BY <1>11, <2>5, <2>6
  <2>9. CASE k < L
    <3>1. k \in 1 .. L /\ k # L /\ m <= L /\ k <= L  BY <1>4, <2>6, <2>9
    <3>2. U[k] \in Id /\ classes[U[k]].name = A[k]  BY <2>7, <3>1
    <3>3. Up(U[k]) \in Id /\ classes[Up(U[k])].name = A[k + 1]  BY <1>8, <3>1, <3>2
    <3> QED  BY <2>3, <2>6, <2>8, <3>1, <3>3
  <2>10. CASE k = L
    <3>1. k \in 1 .. L /\ ~(m <= L) /\ k <= L  BY <1>4, <2>6, <2>10
    <3>2. U[k] \in Id /\ classes[U[k]].name = A[k]  BY <2>7, <3>1
    <3>3. Up(U[k]) = 0  BY <1>8, <2>10, <3>1, <3>2
    <3> QED  BY <2>3, <2>8, <3>1, <3>3
  <2>11. CASE k > L
    <3>1. ~(k <= L) /\ ~(m <= L)  BY <1>4, <2>6, <2>11
    <3>2. U[k] = 0  BY <2>7, <3>1
    <3>3. Up(U[k]) = 0  BY <3>2 DEF Up
    <3> QED  BY <2>3, <2>8, <3>1, <3>3
  <2> QED  BY <1>4, <2>6, <2>9, <2>10, <2>11
<1>13. ASSUME NEW i \in 1 .. N, i <= L PROVE U[i] \in Id /\ classes[U[i]].name = A[i] /\ classes[U[i]].parsed = 3
  <2>1. i \in 1 .. L  BY <1>4, <1>13
  <2>2. U[i] \in Id /\ classes[U[i]].name = A[i]  BY <1>12, <1>13
  <2> QED  BY <1>8, <2>1, <2>2
<1>14. \A i \in 1 .. N : ~(i <= L) => U[i] = 0  BY <1>12
<1> QED  BY <1>3, <1>5, <1>9, <1>10, <1>13, <1>14

(* A method of a class that is loaded, with all that it inherits from, is  *)
(* looked up to the class that the class files say (jGetMethod, invoke).   *)
THEOREM LoadMethodsRight == ClassSpec => []MethodsRight
<1>1. ASSUME LoadInv, SupersOK, NEW c \in Id, Settled(c)
      PROVE  /\ \A method \in Method :
                  LET d == jGetMethod(c, method) IN
                  Declarer(classes[c].name, method) = IF d = 0 THEN None ELSE classes[d].name
             /\ SkipsInit(c) <=> FileOf(c).super = None
  <2>1. PICK n : n = classes[c].name  OBVIOUS
  <2>2. PICK A : A = Ancestors[n]  OBVIOUS
  <2>3. n \in Acyclic  BY <1>1, <2>1 DEF Settled
  <2>4. PICK L : L = Len(A)  OBVIOUS
  <2>5. n \in DOMAIN File /\ A \in Seq(DOMAIN File) /\ L \in Nat \ {0} /\ A[1] = n  BY <2>2, <2>3, <2>4, AncestorsDiffer
  <2>6. PICK N : N = Len(classes)  OBVIOUS
  <2>7. PICK U : U = Chain(c)  OBVIOUS
  <2>8. /\ L <= N /\ N \in Nat
        /\ \A i \in 1 .. N :
             IF i <= L THEN U[i] \in Id /\ classes[U[i]].name = A[i] /\ classes[U[i]].parsed = 3 ELSE U[i] = 0
    BY <1>1, <2>1, <2>2, <2>4, <2>6, <2>7, ChainFollows, Typed
  <2>9. U = [i \in 1 .. N |-> U[i]]  BY <1>1, <2>6, <2>7, ChainGoes
  <2>10. Len(U) = N
    <3>1. \A i \in 1 .. N : U[i] \in Id \cup {0}  BY <2>8
    <3>2. U \in Seq(Id \cup {0})  BY <2>8, <2>9, <3>1
    <3>3. DOMAIN U = 1 .. N  BY <2>9, Zenon
    <3> QED  BY <2>8, <3>2, <3>3
  <2>11. ASSUME NEW method \in Method
         PROVE  LET d == jGetMethod(c, method) IN
                Declarer(n, method) = IF d = 0 THEN None ELSE classes[d].name
    <3> DEFINE I == {i \in 1 .. Len(U) : U[i] # 0 /\ method \in OwnMethods(U[i])}
               J == {i \in 1 .. Len(A) : method \in File[A[i]].methods}
    <3>1. I = J
      <4>1. ASSUME NEW i \in I PROVE i \in J
        <5>1. i \in 1 .. N /\ U[i] # 0 /\ method \in OwnMethods(U[i])  BY <2>10, <4>1
        <5>2. i <= L /\ classes[U[i]].name = A[i] /\ i \in 1 .. L  BY <2>5, <2>8, <5>1
        <5>3. method \in File[A[i]].methods  BY <5>1, <5>2 DEF OwnMethods, FileOf
        <5> QED  BY <2>4, <5>2, <5>3
      <4>2. ASSUME NEW i \in J PROVE i \in I
        <5>1. i \in 1 .. L /\ method \in File[A[i]].methods  BY <2>4, <4>2
        <5>2. i \in 1 .. N /\ i <= L  BY <2>5, <2>8, <5>1
        <5>3. U[i] \in Id /\ classes[U[i]].name = A[i] /\ classes[U[i]].parsed = 3  BY <2>8, <5>2
        <5>4. U[i] # 0 /\ ~(3 < 3)
          <6>1. Id = 1 .. Len(classes) /\ Len(classes) \in Nat  BY <1>1, Typed
          <6> QED  BY <5>3, <6>1
        <5>5. method \in OwnMethods(U[i])  BY <5>1, <5>3, <5>4 DEF OwnMethods, FileOf
        <5> QED  BY <2>10, <5>2, <5>4, <5>5
      <4> QED  BY <4>1, <4>2
    <3>2. PICK k : k = IF I # {} THEN Min(I) ELSE 0  OBVIOUS
    <3>3. jGetMethod(c, method) = IF k = 0 THEN 0 ELSE U[k]
      <4>1. SelectInSeq(U, LAMBDA d : d # 0 /\ method \in OwnMethods(d)) = k  BY <3>2 DEF SelectInSeq
      <4> HIDE DEF I, J
      <4> QED  BY <2>7, <4>1, Zenon DEF jGetMethod
    <3>4. Declarer(n, method) = IF k = 0 THEN None ELSE A[k]
      <4>1. SelectInSeq(A, LAMBDA a : method \in File[a].methods) = k  BY <3>1, <3>2 DEF SelectInSeq
      <4> HIDE DEF I, J
      <4> QED  BY <2>2, <4>1, Zenon DEF Declarer
    <3>5. k # 0 => U[k] # 0 /\ classes[U[k]].name = A[k]
      <4>1. I \in SUBSET Nat  BY <2>8, <2>10
      <4>2. I # {} => Min(I) \in I
        <5> HIDE DEF I, J
        <5> QED  BY <4>1, Least
      <4>3. k # 0 => k \in I  BY <3>2, <4>2
      <4>4. k # 0 => k \in 1 .. N /\ U[k] # 0  BY <2>10, <4>3
      <4> HIDE DEF I, J
      <4> QED  BY <2>8, <4>4
    <3> HIDE DEF I, J
    <3> QED  BY <3>3, <3>4, <3>5
  <2>12. SkipsInit(c) <=> FileOf(c).super = None
    <3>1. PICK e \in InTable(n) : e \notin OnStack("super") \cup errors
      <4>1. n \in ToSet(A)  BY <2>4, <2>5 DEF ToSet
      <4> QED  BY <1>1, <2>1, <2>2, <4>1 DEF Settled
    <3>2. /\ File[n].super = None => Up(c) = 0
          /\ File[n].super # None => classes[c].super # 0
      BY <1>1, <2>1, <2>5, <3>1, SettledAbove
    <3>3. c # 0 /\ (numberSuperClasses(c) = 0 <=> classes[c].super = 0)
      <4>1. c \in 1 .. Len(classes) /\ Len(classes) \in Nat  BY <1>1, Typed
      <4> QED  BY <4>1 DEF numberSuperClasses
    <3>4. Up(c) = classes[c].super  BY <3>3 DEF Up
    <3> QED  BY <2>1, <3>2, <3>3, <3>4 DEF SkipsInit, FileOf
  <2> QED  BY <2>1, <2>11, <2>12
<1>2. LoadInv /\ OrderInv => MethodsRight  BY <1>1 DEF OrderInv, MethodsRight
<1> QED  BY <1>2, LoadInvariant, LoadOrderInvariant, PTL
=============================================================================
