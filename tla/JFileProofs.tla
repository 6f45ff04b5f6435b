------------------------------ MODULE JFileProofs ------------------------------
(***************************************************************************)
(* What the parser of class files records is what the file announces, for  *)
(* every set of class files, well-formed or not, and whatever the parser   *)
(* takes for what: its counts are in step with its loops.                  *)
(***************************************************************************)
EXTENDS JFile, FiniteSetTheorems, TLAPS

---------------------------------------------------------------------------
(* Sequences. *)

\* A sequence of whatever elements.
IsSeq(s) == \E n \in Nat : DOMAIN s = 1 .. n /\ s = [m \in 1 .. n |-> s[m]]

(* Its length is the greatest index, and one can be appended or changed.   *)
LEMMA SeqFacts ==
  ASSUME NEW s, IsSeq(s)
  PROVE  /\ Len(s) \in Nat /\ DOMAIN s = 1 .. Len(s)
         /\ \A x : /\ IsSeq(Append(s, x)) /\ Len(Append(s, x)) = Len(s) + 1
                   /\ Append(s, x)[Len(s) + 1] = x /\ \A m \in 1 .. Len(s) : Append(s, x)[m] = s[m]
         /\ \A x : \A m \in 1 .. Len(s) :
              LET t == [s EXCEPT ![m] = x] IN
              IsSeq(t) /\ Len(t) = Len(s) /\ t[m] = x /\ \A o \in 1 .. Len(s) : o # m => t[o] = s[o]
<1>1. PICK n \in Nat : DOMAIN s = 1 .. n /\ s = [m \in 1 .. n |-> s[m]]  BY DEF IsSeq
<1> DEFINE S == {s[m] : m \in 1 .. n}
<1>2. s \in [1 .. n -> S]
  <2> DEFINE f == [m \in 1 .. n |-> s[m]]
  <2>1. f \in [1 .. n -> S]  OBVIOUS
  <2>2. f = s  BY <1>1
  <2> HIDE DEF f, S
  <2> QED  BY <2>1, <2>2
<1>3. s \in Seq(S) /\ Len(s) = n
  <2> HIDE DEF S
  <2> QED  BY <1>2
<1>4. ASSUME NEW x
      PROVE  /\ IsSeq(Append(s, x)) /\ Len(Append(s, x)) = n + 1
             /\ Append(s, x)[n + 1] = x /\ \A m \in 1 .. n : Append(s, x)[m] = s[m]
  <2> DEFINE T == S \cup {x}
  <2>1. s \in Seq(T) /\ x \in T
    <3>1. s \in [1 .. n -> T]  BY <1>2
    <3> HIDE DEF T
    <3> QED  BY <3>1, x \in T DEF T
  <2> HIDE DEF T
  <2>2. Append(s, x) \in Seq(T) /\ Len(Append(s, x)) = n + 1  BY <1>3, <2>1
  <2>3. Append(s, x)[n + 1] = x /\ \A m \in 1 .. n : Append(s, x)[m] = s[m]  BY <1>3, <2>1
  <2>4. PICK t : t = Append(s, x)  OBVIOUS
  <2>5. t \in Seq(T) /\ Len(t) = n + 1  BY <2>2, <2>4
  <2>6. DOMAIN t = 1 .. n + 1 /\ t = [m \in 1 .. n + 1 |-> t[m]]  BY <2>5
  <2>7. IsSeq(t)  BY <2>6, n + 1 \in Nat DEF IsSeq
  <2> QED  BY <2>2, <2>3, <2>4, <2>7
<1>5. ASSUME NEW x, NEW o \in 1 .. n
      PROVE  LET t == [s EXCEPT ![o] = x] IN
             IsSeq(t) /\ Len(t) = n /\ t[o] = x /\ \A m \in 1 .. n : m # o => t[m] = s[m]
  <2> DEFINE T == S \cup {x}
             t == [s EXCEPT ![o] = x]
  <2>1. t = [m \in 1 .. n |-> IF m = o THEN x ELSE s[m]]  BY <1>1
  <2>2. t \in [1 .. n -> T] /\ t[o] = x /\ \A m \in 1 .. n : m # o => t[m] = s[m]
    <3> HIDE DEF t
    <3> QED  BY <2>1
  <2> HIDE DEF T, t
  <2>3. Len(t) = n /\ DOMAIN t = 1 .. n /\ t = [m \in 1 .. n |-> t[m]]  BY <2>2
  <2>4. IsSeq(t)  BY <2>3 DEF IsSeq
  <2> QED  BY <2>2, <2>3, <2>4 DEF t
<1> QED  BY <1>1, <1>3, <1>4, <1>5

---------------------------------------------------------------------------
(* The invariant. *)

ClassNames == {"numConsts", "consts", "accessFlags", "thisClassIdx", "superClassIdx", "interfacesCount",
               "interfaces", "fieldsCount", "fields", "numVars", "methodsCount", "methods"}
FieldNames == {"flags", "name", "descr", "isFinal", "var"}
\* The class as far as it is parsed.
ClassOK ==
  /\ DOMAIN jc = ClassNames
  /\ jc.numConsts \in Nat /\ DOMAIN jc.consts \subseteq 1 .. jc.numConsts - 1
  /\ jc.interfacesCount \in Nat /\ jc.fieldsCount \in Nat /\ jc.methodsCount \in Nat
  /\ IsSeq(jc.fields) /\ IsSeq(jc.methods)
  /\ \A n \in DOMAIN jc.fields : DOMAIN jc.fields[n] = FieldNames
  /\ jc.numVars \in Nat /\ jc.numVars = Cardinality(Instance(jc.fields))
\* How much of it that is: i is the constant, field or method that is read, j and k say
\* how many attributes are left.
Progress ==
  CASE stage = "start" -> jc.consts = << >> /\ Len(jc.fields) = 0 /\ Len(jc.methods) = 0
    [] stage \in {"head", "interfaces"} -> Len(jc.fields) = 0 /\ Len(jc.methods) = 0
    [] stage = "constant" -> i \in 1 .. jc.numConsts - 1 /\ Len(jc.fields) = 0 /\ Len(jc.methods) = 0
    [] stage = "field" -> i \in 1 .. jc.fieldsCount /\ Len(jc.fields) = i - 1 /\ Len(jc.methods) = 0
    [] stage = "fieldAttribute" -> i \in 1 .. jc.fieldsCount /\ Len(jc.fields) = i /\ Len(jc.methods) = 0 /\ j > 0
    [] stage = "methods" -> Len(jc.fields) <= jc.fieldsCount /\ Len(jc.methods) = 0
    [] stage = "method" -> i \in 1 .. jc.methodsCount /\ Len(jc.methods) = i - 1
    [] stage = "methodAttribute" -> i \in 1 .. jc.methodsCount /\ Len(jc.methods) = i /\ j > 0
    [] stage = "codeAttribute" -> i \in 1 .. jc.methodsCount /\ Len(jc.methods) = i /\ k > 0
    [] OTHER -> TRUE
Stages == {"start", "constant", "head", "interfaces", "field", "fieldAttribute", "methods", "method",
           "methodAttribute", "codeAttribute", "parsed", "lost"}
FileInv ==
  /\ stage \in Stages /\ p \in Nat /\ i \in Nat /\ j \in Nat /\ k \in Nat
  /\ ClassOK /\ Progress
  /\ Len(jc.fields) <= jc.fieldsCount /\ Len(jc.methods) <= jc.methodsCount

---------------------------------------------------------------------------
(* The steps.  Each reads numbers where it needs them (Legible). *)

(* Before the first, nothing is recorded.                                  *)
LEMMA FileInvInit == FileInit => FileInv
<1> SUFFICES ASSUME FileInit PROVE FileInv  OBVIOUS
<1>1. IsSeq(<< >>) /\ Len(<< >>) = 0 /\ DOMAIN << >> = {}
  <2>1. << >> = [m \in 1 .. 0 |-> << >>[m]] /\ DOMAIN << >> = 1 .. 0  OBVIOUS
  <2> QED  BY <2>1 DEF IsSeq
<1>2. Cardinality(Instance(<< >>)) = 0
  <2>1. Instance(<< >>) = {}  BY <1>1 DEF Instance
  <2> QED  BY <2>1, FS_EmptySet
<1>3. /\ jc.numConsts = 0 /\ jc.consts = << >> /\ jc.interfacesCount = 0 /\ jc.fieldsCount = 0
      /\ jc.fields = << >> /\ jc.numVars = 0 /\ jc.methodsCount = 0 /\ jc.methods = << >>
      /\ DOMAIN jc = ClassNames
  BY DEF FileInit, FileStart, ClassNames
<1>4. DOMAIN jc.consts \subseteq 1 .. jc.numConsts - 1  BY <1>1, <1>3
<1>5. ClassOK  BY <1>1, <1>2, <1>3, <1>4 DEF ClassOK
<1>6. stage = "start" /\ p = 0 /\ i = 0 /\ j = 0 /\ k = 0  BY DEF FileInit, FileStart
<1> QED  BY <1>1, <1>3, <1>5, <1>6 DEF FileInv, Progress, Stages

(* A step that keeps fields and methods keeps what is said of them.        *)
LEMMA ClassKept ==
  ASSUME ClassOK, DOMAIN jc' = DOMAIN jc, jc'.fields = jc.fields, jc'.numVars = jc.numVars,
         IsSeq(jc'.methods), jc'.numConsts \in Nat, DOMAIN jc'.consts \subseteq 1 .. jc'.numConsts - 1,
         jc'.interfacesCount \in Nat, jc'.fieldsCount \in Nat, jc'.methodsCount \in Nat
  PROVE  ClassOK'
BY DEF ClassOK, Instance

(* jParseConstants begins.                                                 *)
LEMMA StartConstantsKeeps ==
  ASSUME FileInv, Legible, StartConstants
  PROVE  FileInv'
<1>1. PICK n \in Nat : n = getUint(8)  BY DEF StartConstants, Legible, IsCount, getUint
<1>2. /\ jc' = [jc EXCEPT !.numConsts = n] /\ p' = 10 /\ i' = 1 /\ j' = j /\ k' = k
      /\ stage' = IF n > 1 THEN "constant" ELSE "head"
  BY <1>1 DEF StartConstants
<1>3. DOMAIN jc = ClassNames /\ jc.consts = << >> /\ Len(jc.fields) = 0 /\ Len(jc.methods) = 0
  BY DEF FileInv, ClassOK, Progress, StartConstants
<1>4. /\ DOMAIN jc' = DOMAIN jc /\ jc'.numConsts = n
      /\ \A x \in ClassNames : x # "numConsts" => jc'[x] = jc[x]
  BY <1>2, <1>3 DEF ClassNames
<1>5. ClassOK'
  <2>1. DOMAIN jc'.consts \subseteq 1 .. jc'.numConsts - 1  BY <1>3, <1>4 DEF ClassNames
  <2> QED  BY <1>4, <2>1, ClassKept DEF ClassNames, FileInv, ClassOK
<1> QED  BY <1>2, <1>3, <1>4, <1>5 DEF FileInv, Progress, Stages, ClassNames

(* A constant is recorded.                                                 *)
LEMMA ConstantKeeps ==
  ASSUME FileInv, Legible, jLoadClassConst
  PROVE  FileInv'
<1>1. ConstantSize(getUint(p)) \in Nat
  BY DEF jLoadClassConst, Legible, IsCount, getUint, ConstantSize, WideTags
<1>2. PICK n \in Nat, d \in {1, 2} : n = p + ConstantSize(getUint(p)) /\ d = Indexes(getUint(p))
  BY <1>1 DEF FileInv, Indexes
<1>3. PICK f : f = [o \in DOMAIN jc.consts \cup {i} |-> IF o = i THEN p ELSE jc.consts[o]]  OBVIOUS
<1>4. /\ jc' = [jc EXCEPT !.consts = f] /\ p' = n /\ i' = i + d /\ j' = j /\ k' = k
      /\ stage' = IF i + d < jc.numConsts THEN "constant" ELSE "head"
  BY <1>2, <1>3 DEF jLoadClassConst
<1>5. DOMAIN jc = ClassNames /\ i \in 1 .. jc.numConsts - 1 /\ Len(jc.fields) = 0 /\ Len(jc.methods) = 0
  BY DEF FileInv, ClassOK, Progress, jLoadClassConst
<1>6. /\ DOMAIN jc' = DOMAIN jc /\ jc'.consts = f
      /\ \A x \in ClassNames : x # "consts" => jc'[x] = jc[x]
  BY <1>4, <1>5 DEF ClassNames
<1>7. ClassOK'
  <2>1. DOMAIN f = DOMAIN jc.consts \cup {i}  BY <1>3
  <2>2. DOMAIN jc'.consts \subseteq 1 .. jc'.numConsts - 1
    BY <1>5, <1>6, <2>1 DEF ClassNames, FileInv, ClassOK
  <2> QED  BY <1>6, <2>2, ClassKept DEF ClassNames, FileInv, ClassOK
<1> QED  BY <1>2, <1>4, <1>5, <1>6, <1>7 DEF FileInv, Progress, Stages, ClassNames, ClassOK

(* The head of the class.                                                  *)
LEMMA HeadKeeps ==
  ASSUME FileInv, Legible, ParseHead
  PROVE  FileInv'
<1>1. PICK n \in Nat : n = getUint(p + 6)  BY DEF ParseHead, Legible, IsCount, getUint
<1>2. /\ jc' = [jc EXCEPT !.accessFlags = p, !.thisClassIdx = getUint(p + 2), !.superClassIdx = getUint(p + 4),
                          !.interfacesCount = n]
      /\ p' = p + 8 /\ stage' = "interfaces" /\ i' = i /\ j' = j /\ k' = k
  BY <1>1 DEF ParseHead
<1>3. DOMAIN jc = ClassNames /\ Len(jc.fields) = 0 /\ Len(jc.methods) = 0
  BY DEF FileInv, ClassOK, Progress, ParseHead
<1>4. /\ DOMAIN jc' = DOMAIN jc /\ jc'.interfacesCount = n
      /\ \A x \in ClassNames :
           x \notin {"accessFlags", "thisClassIdx", "superClassIdx", "interfacesCount"} => jc'[x] = jc[x]
  BY <1>2, <1>3 DEF ClassNames
<1>5. ClassOK'  BY <1>4, ClassKept DEF ClassNames, FileInv, ClassOK
<1> QED  BY <1>2, <1>3, <1>4, <1>5 DEF FileInv, Progress, Stages, ClassNames

(* The interfaces, and the number of fields.                               *)
LEMMA InterfacesKeeps ==
  ASSUME FileInv, Legible, jParseInterfaces
  PROVE  FileInv'
<1>1. PICK n \in Nat : n = jc.interfacesCount  BY DEF FileInv, ClassOK
<1>2. PICK m \in Nat : m = getUint(p + 2 * n)  BY <1>1 DEF jParseInterfaces, Legible, IsCount, getUint
<1>3. PICK f : f = [o \in 1 .. n |-> getUint(p + 2 * (o - 1))]  OBVIOUS
<1>4. /\ jc' = [jc EXCEPT !.interfaces = f, !.fieldsCount = m]
      /\ p' = p + 2 * n + 2 /\ stage' = (IF m > 0 THEN "field" ELSE "methods") /\ i' = 1 /\ j' = j /\ k' = k
  BY <1>1, <1>2, <1>3 DEF jParseInterfaces
<1>5. DOMAIN jc = ClassNames /\ Len(jc.fields) = 0 /\ Len(jc.methods) = 0
  BY DEF FileInv, ClassOK, Progress, jParseInterfaces
<1>6. /\ DOMAIN jc' = DOMAIN jc /\ jc'.fieldsCount = m
      /\ \A x \in ClassNames : x \notin {"interfaces", "fieldsCount"} => jc'[x] = jc[x]
  BY <1>4, <1>5 DEF ClassNames
<1>7. ClassOK'  BY <1>6, ClassKept DEF ClassNames, FileInv, ClassOK
<1> QED  BY <1>4, <1>5, <1>6, <1>7 DEF FileInv, Progress, Stages, ClassNames

(* A field is recorded, with the number of the instance fields before it.  *)
LEMMA FieldKeeps ==
  ASSUME FileInv, Legible, ParseField
  PROVE  FileInv'
<1>1. PICK n \in Nat : n = getUint(p + 6)  BY DEF ParseField, Legible, IsCount, getUint
<1>2. PICK static \in BOOLEAN : static = ("static" \in getUint(p))
  <2>1. ("static" \in getUint(p)) \in BOOLEAN  OBVIOUS
  <2> QED  BY <2>1, Zenon
<1>3. PICK f : f = [flags |-> getUint(p), name |-> getUint(p + 2), descr |-> getUint(p + 4),
                    isFinal |-> FALSE, var |-> IF static THEN 0 ELSE VarOffs]
  OBVIOUS
<1>4. /\ jc' = [jc EXCEPT !.fields = Append(jc.fields, f), !.numVars = NumVars(static)]
      /\ p' = p + 8 /\ j' = n /\ k' = k
      /\ IF n > 0 THEN stage' = "fieldAttribute" /\ i' = i
         ELSE stage' = (IF i < jc.fieldsCount THEN "field" ELSE "methods") /\ i' = i + 1
  BY <1>1, <1>2, <1>3 DEF ParseField, AfterField
<1>5. PICK m \in Nat : /\ m = Len(jc.fields) /\ DOMAIN jc = ClassNames /\ Len(jc.methods) = 0
                       /\ i = m + 1 /\ i <= jc.fieldsCount
  <2>1. stage = "field" /\ IsSeq(jc.fields)  BY DEF FileInv, ClassOK, ParseField
  <2>2. Len(jc.fields) \in Nat  BY <2>1, SeqFacts
  <2>3. /\ i \in 1 .. jc.fieldsCount /\ Len(jc.fields) = i - 1 /\ Len(jc.methods) = 0
        /\ DOMAIN jc = ClassNames /\ jc.fieldsCount \in Nat
    BY <2>1 DEF FileInv, ClassOK, Progress
  <2> QED  BY <2>2, <2>3
<1>6. PICK g : g = Append(jc.fields, f)  OBVIOUS
<1>7. /\ IsSeq(g) /\ Len(g) = m + 1 /\ DOMAIN g = 1 .. m + 1 /\ g[m + 1] = f
      /\ DOMAIN jc.fields = 1 .. m /\ \A o \in 1 .. m : g[o] = jc.fields[o]
  <2>1. /\ IsSeq(g) /\ Len(g) = m + 1 /\ g[m + 1] = f
        /\ DOMAIN jc.fields = 1 .. m /\ \A o \in 1 .. m : g[o] = jc.fields[o]
    BY <1>5, <1>6, SeqFacts DEF FileInv, ClassOK
  <2> QED  BY <2>1, SeqFacts
<1>8. NumVars(static) \in Nat /\ NumVars(static) = Cardinality(Instance(g))
  <2>1. IsFiniteSet(Instance(jc.fields)) /\ m + 1 \notin Instance(jc.fields)
    <3>1. Instance(jc.fields) \subseteq 1 .. m  BY <1>7 DEF Instance
    <3>2. IsFiniteSet(1 .. m)  BY <1>5, FS_Interval
    <3>3. IsFiniteSet(Instance(jc.fields))  BY <3>1, <3>2, FS_Subset
    <3> QED  BY <1>5, <3>1, <3>3
  <2>2. f.flags = getUint(p)  BY <1>3
  <2>3. \A o : o # m + 1 => (o \in Instance(g) <=> o \in Instance(jc.fields))
    <3>1. \A o : o # m + 1 => (o \in 1 .. m + 1 <=> o \in 1 .. m)  BY <1>5
    <3> QED  BY <1>7, <3>1 DEF Instance
  <2>4. CASE static
    <3>1. m + 1 \notin Instance(g)  BY <1>2, <1>7, <2>2, <2>4 DEF Instance
    <3>2. Instance(g) = Instance(jc.fields)  BY <2>1, <2>3, <3>1
    <3> QED  BY <2>4, <3>2 DEF NumVars, FileInv, ClassOK
  <2>5. CASE ~static
    <3>1. m + 1 \in Instance(g)
      <4>1. m + 1 \in DOMAIN g /\ g[m + 1].flags = getUint(p)  BY <1>5, <1>7, <2>2
      <4> QED  BY <1>2, <2>5, <4>1 DEF Instance
    <3>2. Instance(g) = Instance(jc.fields) \cup {m + 1}  BY <2>1, <2>3, <3>1
    <3>3. Cardinality(Instance(g)) = Cardinality(Instance(jc.fields)) + 1  BY <2>1, <3>2, FS_AddElement
    <3> QED  BY <2>5, <3>3 DEF NumVars, FileInv, ClassOK
  <2> QED  BY <2>4, <2>5
<1>9. /\ DOMAIN jc' = DOMAIN jc /\ jc'.fields = g /\ jc'.numVars = NumVars(static)
      /\ \A x \in ClassNames : x \notin {"fields", "numVars"} => jc'[x] = jc[x]
  BY <1>4, <1>5, <1>6 DEF ClassNames
<1>10. ClassOK'
  <2>1. DOMAIN f = FieldNames  BY <1>3 DEF FieldNames
  <2>2. \A o \in DOMAIN g : DOMAIN g[o] = FieldNames
    <3> SUFFICES ASSUME NEW o \in 1 .. m + 1 PROVE DOMAIN g[o] = FieldNames  BY <1>7
    <3>1. o \in 1 .. m \/ o = m + 1  OBVIOUS
    <3> QED  BY <1>7, <2>1, <3>1 DEF FileInv, ClassOK
  <2>3. /\ jc'.numConsts = jc.numConsts /\ jc'.consts = jc.consts /\ jc'.interfacesCount = jc.interfacesCount
        /\ jc'.fieldsCount = jc.fieldsCount /\ jc'.methodsCount = jc.methodsCount /\ jc'.methods = jc.methods
    BY <1>9 DEF ClassNames
  <2>4. Instance(jc.fields)' = Instance(g)  BY <1>9 DEF Instance
  <2> QED  BY <1>7, <1>8, <1>9, <2>2, <2>3, <2>4 DEF FileInv, ClassOK
<1>11. /\ Len(jc'.fields) = m + 1 /\ Len(jc'.methods) = 0
       /\ jc'.fieldsCount = jc.fieldsCount /\ jc'.fieldsCount \in Nat /\ jc'.methodsCount \in Nat
  BY <1>5, <1>7, <1>9 DEF ClassNames, FileInv, ClassOK
<1>12. p' \in Nat /\ i' \in Nat /\ j' \in Nat /\ k' \in Nat /\ stage' \in Stages
  BY <1>4, <1>5 DEF FileInv, Stages
<1>13. Progress'
  <2>1. CASE n > 0  BY <1>4, <1>5, <1>11, <2>1 DEF Progress
  <2>2. CASE ~(n > 0) /\ i < jc.fieldsCount  BY <1>4, <1>5, <1>11, <2>2 DEF Progress
  <2>3. CASE ~(n > 0) /\ ~(i < jc.fieldsCount)  BY <1>4, <1>5, <1>11, <2>3 DEF Progress
  <2> QED  BY <2>1, <2>2, <2>3
<1> QED  BY <1>5, <1>10, <1>11, <1>12, <1>13 DEF FileInv

(* An attribute of a field may make it a constant; its flags stay.         *)
LEMMA FieldAttributeKeeps ==
  ASSUME FileInv, Legible, ParseFieldAttribute
  PROVE  FileInv'
<1>1. PICK n \in Nat : n = getUint(p + 2)  BY DEF ParseFieldAttribute, Legible, IsCount, getUint
<1>2. PICK m \in Nat : /\ m = Len(jc.fields) /\ DOMAIN jc = ClassNames /\ Len(jc.methods) = 0
                       /\ i = m /\ i \in 1 .. m /\ i <= jc.fieldsCount /\ j \in Nat /\ j > 0
  <2>1. stage = "fieldAttribute" /\ IsSeq(jc.fields)  BY DEF FileInv, ClassOK, ParseFieldAttribute
  <2>2. Len(jc.fields) \in Nat  BY <2>1, SeqFacts
  <2>3. /\ i \in 1 .. jc.fieldsCount /\ Len(jc.fields) = i /\ Len(jc.methods) = 0 /\ j > 0 /\ j \in Nat
        /\ DOMAIN jc = ClassNames /\ jc.fieldsCount \in Nat
    BY <2>1 DEF FileInv, ClassOK, Progress
  <2> QED  BY <2>2, <2>3
<1>3. PICK final, var : jc' = [jc EXCEPT !.fields[i].isFinal = final, !.fields[i].var = var]
  <2>1. PICK final : final = IsConstantValue  OBVIOUS
  <2>2. PICK var : var = IF final THEN getConstant(getUint(p + 6))
                         ELSE [jc EXCEPT !.fields[i].isFinal = final].fields[i].var
    OBVIOUS
  <2>3. jc' = [jc EXCEPT !.fields[i].isFinal = final, !.fields[i].var = var]
    BY <2>1, <2>2 DEF ParseFieldAttribute
  <2> QED  BY <2>3
<1>4. /\ p' = p + 6 + n /\ j' = j - 1 /\ k' = k
      /\ IF j - 1 > 0 THEN stage' = "fieldAttribute" /\ i' = i
         ELSE stage' = (IF i < jc.fieldsCount THEN "field" ELSE "methods") /\ i' = i + 1
  BY <1>1 DEF ParseFieldAttribute, AfterField
<1>5. PICK f : f = [jc.fields[i] EXCEPT !.isFinal = final, !.var = var]  OBVIOUS
<1>6. PICK g : g = [jc.fields EXCEPT ![i] = f]  OBVIOUS
<1>7. /\ DOMAIN jc' = DOMAIN jc /\ jc'.fields = g
      /\ \A x \in ClassNames : x # "fields" => jc'[x] = jc[x]
  BY <1>2, <1>3, <1>5, <1>6 DEF ClassNames
<1>8. DOMAIN f = FieldNames /\ f.flags = jc.fields[i].flags
  <2>1. i \in DOMAIN jc.fields  BY <1>2, SeqFacts DEF FileInv, ClassOK
  <2>2. DOMAIN jc.fields[i] = FieldNames  BY <2>1 DEF FileInv, ClassOK
  <2> QED  BY <1>5, <2>2 DEF FieldNames
<1>9. /\ IsSeq(g) /\ Len(g) = m /\ DOMAIN g = 1 .. m /\ DOMAIN jc.fields = 1 .. m
      /\ g[i] = f /\ \A o \in 1 .. m : o # i => g[o] = jc.fields[o]
  <2>1. /\ IsSeq(g) /\ Len(g) = m /\ DOMAIN jc.fields = 1 .. m
        /\ g[i] = f /\ \A o \in 1 .. m : o # i => g[o] = jc.fields[o]
    <3>1. IsSeq(jc.fields)  BY DEF FileInv, ClassOK
    <3>2. i \in 1 .. Len(jc.fields)  BY <1>2
    <3>3. IsSeq(g) /\ Len(g) = Len(jc.fields) /\ g[i] = f /\ \A o \in 1 .. Len(jc.fields) : o # i => g[o] = jc.fields[o]
      BY <1>6, <3>1, <3>2, SeqFacts
    <3>4. DOMAIN jc.fields = 1 .. Len(jc.fields)  BY <3>1, SeqFacts
    <3> QED  BY <1>2, <3>3, <3>4
  <2> QED  BY <2>1, SeqFacts
<1>10. Instance(g) = Instance(jc.fields)
  <2>1. \A o \in 1 .. m : g[o].flags = jc.fields[o].flags  BY <1>8, <1>9
  <2> QED  BY <1>9, <2>1 DEF Instance
<1>11. ClassOK'
  <2>1. \A o \in DOMAIN g : DOMAIN g[o] = FieldNames  BY <1>8, <1>9 DEF FileInv, ClassOK
  <2>2. /\ jc'.numConsts = jc.numConsts /\ jc'.consts = jc.consts /\ jc'.interfacesCount = jc.interfacesCount
        /\ jc'.fieldsCount = jc.fieldsCount /\ jc'.methodsCount = jc.methodsCount /\ jc'.methods = jc.methods
        /\ jc'.numVars = jc.numVars
    BY <1>7 DEF ClassNames
  <2>3. Instance(jc.fields)' = Instance(jc.fields)  BY <1>7, <1>10 DEF Instance
  <2> QED  BY <1>7, <1>9, <2>1, <2>2, <2>3 DEF FileInv, ClassOK
<1>12. /\ Len(jc'.fields) = m /\ Len(jc'.methods) = 0
       /\ jc'.fieldsCount = jc.fieldsCount /\ jc'.fieldsCount \in Nat /\ jc'.methodsCount \in Nat
  BY <1>2, <1>7, <1>9 DEF ClassNames, FileInv, ClassOK
<1>13. p' \in Nat /\ i' \in Nat /\ j' \in Nat /\ k' \in Nat /\ stage' \in Stages
  BY <1>2, <1>4 DEF FileInv, Stages
<1>14. Progress'
  <2>1. CASE j - 1 > 0  BY <1>2, <1>4, <1>12, <2>1 DEF Progress
  <2>2. CASE ~(j - 1 > 0) /\ i < jc.fieldsCount  BY <1>2, <1>4, <1>12, <2>2 DEF Progress
  <2>3. CASE ~(j - 1 > 0) /\ ~(i < jc.fieldsCount)  BY <1>2, <1>4, <1>12, <2>3 DEF Progress
  <2> QED  BY <2>1, <2>2, <2>3
<1> QED  BY <1>2, <1>11, <1>12, <1>13, <1>14 DEF FileInv

(* The number of methods.                                                  *)
LEMMA StartMethodsKeeps ==
  ASSUME FileInv, Legible, StartMethods
  PROVE  FileInv'
<1>1. PICK n \in Nat : n = getUint(p)  BY DEF StartMethods, Legible, IsCount, getUint
<1>2. /\ jc' = [jc EXCEPT !.methodsCount = n] /\ p' = p + 2 /\ i' = 1 /\ j' = j /\ k' = k
      /\ stage' = IF n > 0 THEN "method" ELSE "parsed"
  BY <1>1 DEF StartMethods
<1>3. DOMAIN jc = ClassNames /\ Len(jc.fields) <= jc.fieldsCount /\ Len(jc.methods) = 0
  BY DEF FileInv, ClassOK, Progress, StartMethods
<1>4. /\ DOMAIN jc' = DOMAIN jc /\ jc'.methodsCount = n
      /\ \A x \in ClassNames : x # "methodsCount" => jc'[x] = jc[x]
  BY <1>2, <1>3 DEF ClassNames
<1>5. ClassOK'  BY <1>4, ClassKept DEF ClassNames, FileInv, ClassOK
<1> QED  BY <1>2, <1>3, <1>4, <1>5 DEF FileInv, Progress, Stages, ClassNames

(* While methods are read, everything else of the class stays.             *)
LEMMA MethodsChange ==
  ASSUME FileInv, NEW g, IsSeq(g), Len(g) <= jc.methodsCount,
         DOMAIN jc' = DOMAIN jc, jc'.methods = g,
         \A x \in ClassNames : x # "methods" => jc'[x] = jc[x],
         p' \in Nat, i' \in Nat, j' \in Nat, k' \in Nat, stage' \in Stages,
         Progress'
  PROVE  FileInv'
<1>1. ClassOK'  BY ClassKept DEF ClassNames, FileInv, ClassOK
<1>2. Len(jc'.fields) <= jc'.fieldsCount /\ Len(jc'.methods) <= jc'.methodsCount  BY DEF ClassNames, FileInv
<1> QED  BY <1>1, <1>2 DEF FileInv

(* A method is recorded.                                                   *)
LEMMA MethodKeeps ==
  ASSUME FileInv, Legible, ParseMethod
  PROVE  FileInv'
<1>1. PICK n \in Nat : n = getUint(p + 6)  BY DEF ParseMethod, Legible, IsCount, getUint
<1>2. PICK f : jc' = [jc EXCEPT !.methods = Append(jc.methods, f)]  BY DEF ParseMethod
<1>3. /\ p' = p + 8 /\ j' = n /\ k' = k
      /\ \/ n > 0 /\ stage' = "methodAttribute" /\ i' = i
         \/ stage' = (IF i < jc.methodsCount THEN "method" ELSE "parsed") /\ i' = i + 1
  BY <1>1 DEF ParseMethod, AfterMethod
<1>4. PICK m \in Nat : m = Len(jc.methods) /\ i = m + 1 /\ i <= jc.methodsCount /\ DOMAIN jc = ClassNames
  <2>1. stage = "method" /\ IsSeq(jc.methods)  BY DEF FileInv, ClassOK, ParseMethod
  <2>2. Len(jc.methods) \in Nat  BY <2>1, SeqFacts
  <2>3. i \in 1 .. jc.methodsCount /\ Len(jc.methods) = i - 1 /\ DOMAIN jc = ClassNames /\ jc.methodsCount \in Nat
    BY <2>1 DEF FileInv, ClassOK, Progress
  <2> QED  BY <2>2, <2>3
<1>5. PICK g : g = Append(jc.methods, f)  OBVIOUS
<1>6. IsSeq(g) /\ Len(g) = m + 1  BY <1>4, <1>5, SeqFacts DEF FileInv, ClassOK
<1>7. DOMAIN jc' = DOMAIN jc /\ jc'.methods = g /\ \A x \in ClassNames : x # "methods" => jc'[x] = jc[x]
  BY <1>2, <1>4, <1>5 DEF ClassNames
<1>8. p' \in Nat /\ i' \in Nat /\ j' \in Nat /\ k' \in Nat /\ stage' \in Stages
  BY <1>3, <1>4 DEF FileInv, Stages
<1>9. Len(jc'.methods) = i /\ jc'.methodsCount = jc.methodsCount /\ jc.methodsCount \in Nat
  BY <1>4, <1>6, <1>7 DEF ClassNames, FileInv, ClassOK
<1>10. Progress'
  <2>1. CASE n > 0 /\ stage' = "methodAttribute" /\ i' = i  BY <1>3, <1>4, <1>9, <2>1 DEF Progress
  <2>2. CASE /\ stage' = (IF i < jc.methodsCount THEN "method" ELSE "parsed")
             /\ i' = i + 1
    BY <1>3, <1>4, <1>9, <2>2 DEF Progress
  <2> QED  BY <1>3, <2>1, <2>2
<1> QED  BY <1>4, <1>6, <1>7, <1>8, <1>10, MethodsChange

(* What is recorded of a method leaves the others, and their number.       *)
LEMMA MethodRewritten ==
  ASSUME FileInv, stage \in {"methodAttribute", "codeAttribute"}, NEW f,
         jc' = [jc EXCEPT !.methods = [jc.methods EXCEPT ![i] = f]]
  PROVE  /\ IsSeq(jc'.methods) /\ Len(jc'.methods) = Len(jc.methods) /\ DOMAIN jc' = DOMAIN jc
         /\ \A x \in ClassNames : x # "methods" => jc'[x] = jc[x]
<1>1. IsSeq(jc.methods) /\ i \in 1 .. Len(jc.methods) /\ DOMAIN jc = ClassNames
  BY DEF FileInv, ClassOK, Progress
<1>2. PICK g : g = [jc.methods EXCEPT ![i] = f]  OBVIOUS
<1>3. IsSeq(g) /\ Len(g) = Len(jc.methods)  BY <1>1, <1>2, SeqFacts
<1>4. DOMAIN jc' = DOMAIN jc /\ jc'.methods = g /\ \A x \in ClassNames : x # "methods" => jc'[x] = jc[x]
  BY <1>1, <1>2 DEF ClassNames
<1> QED  BY <1>3, <1>4

\* Attributes of the method are left, or the next method follows.
NextOf(left) ==
  IF left > 0 THEN stage' = "methodAttribute" /\ i' = i
  ELSE stage' = (IF i < jc.methodsCount THEN "method" ELSE "parsed") /\ i' = i + 1
(* After an attribute.                                                     *)
LEMMA AfterAttribute ==
  ASSUME FileInv, stage \in {"methodAttribute", "codeAttribute"},
         IsSeq(jc'.methods), Len(jc'.methods) = Len(jc.methods), DOMAIN jc' = DOMAIN jc,
         \A x \in ClassNames : x # "methods" => jc'[x] = jc[x],
         p' \in Nat, j' \in Nat, k' \in Nat,
         \/ k' > 0 /\ stage' = "codeAttribute" /\ i' = i
         \/ NextOf(j')
  PROVE  FileInv'
<1>1. /\ i \in 1 .. jc.methodsCount /\ Len(jc.methods) = i /\ jc.methodsCount \in Nat
      /\ Len(jc'.methods) = i /\ jc'.methodsCount = jc.methodsCount
  BY DEF FileInv, Progress, ClassOK, ClassNames
<1>2. Progress' /\ i' \in Nat /\ stage' \in Stages
  <2>1. CASE k' > 0 /\ stage' = "codeAttribute" /\ i' = i  BY <1>1, <2>1 DEF Progress, Stages
  <2>2. CASE NextOf(j')  BY <1>1, <2>2 DEF NextOf, Progress, Stages
  <2> QED  BY <2>1, <2>2
<1> QED  BY <1>1, <1>2, MethodsChange

(* The exceptions a method declares.                                       *)
LEMMA ExceptionsKeep ==
  ASSUME FileInv, Legible, ParseExceptions
  PROVE  FileInv'
<1>1. stage = "methodAttribute" /\ j \in Nat /\ j > 0  BY DEF FileInv, Progress, ParseExceptions
<1>2. PICK n \in Nat : n = getUint(p + 6)  BY <1>1 DEF ParseExceptions, Legible, IsCount, getUint
<1>3. PICK f : jc' = [jc EXCEPT !.methods = [jc.methods EXCEPT ![i] = f]]  BY DEF ParseExceptions
<1>4. p' = p + 8 + 2 * n /\ j' = j - 1 /\ k' = k /\ NextOf(j')
  BY <1>2 DEF ParseExceptions, MethodDone, AfterMethod, NextOf
<1>5. p' \in Nat /\ j' \in Nat /\ k' \in Nat  BY <1>1, <1>4 DEF FileInv
<1> QED  BY <1>1, <1>3, <1>4, <1>5, MethodRewritten, AfterAttribute

(* The code of a method.                                                   *)
LEMMA CodeKeeps ==
  ASSUME FileInv, Legible, ParseCode
  PROVE  FileInv'
<1>1. stage = "methodAttribute" /\ ~IsExceptions /\ j \in Nat /\ j > 0  BY DEF FileInv, Progress, ParseCode
<1>2. getUint(p + 10) \in Nat /\ TableLength \in Nat /\ getUint(CodeEnd) \in Nat
  BY <1>1 DEF Legible, IsCount, getUint, TableLength
<1>3. CodeEnd \in Nat  BY <1>2 DEF CodeEnd, TableAt, CodeAt, FileInv
<1>4. PICK f : jc' = [jc EXCEPT !.methods = [jc.methods EXCEPT ![i] = f]]  BY DEF ParseCode
<1>5. /\ p' = CodeEnd + 2 /\ j' = j - 1 /\ k' = getUint(CodeEnd)
      /\ \/ k' > 0 /\ stage' = "codeAttribute" /\ i' = i
         \/ NextOf(j')
  BY DEF ParseCode, MethodDone, AfterMethod, NextOf
<1>6. p' \in Nat /\ j' \in Nat /\ k' \in Nat  BY <1>1, <1>2, <1>3, <1>5
<1> QED  BY <1>1, <1>4, <1>5, <1>6, MethodRewritten, AfterAttribute

(* An attribute of the code is passed over.                                *)
LEMMA CodeAttributeKeeps ==
  ASSUME FileInv, Legible, ParseCodeAttribute
  PROVE  FileInv'
<1>1. stage = "codeAttribute" /\ j \in Nat /\ k \in Nat /\ k > 0  BY DEF FileInv, Progress, ParseCodeAttribute
<1>2. PICK n \in Nat : n = getUint(p + 6)  BY <1>1 DEF Legible, IsCount, getUint
<1>3. /\ p' = p + 8 + 4 * n /\ k' = k - 1 /\ j' = j /\ jc' = jc
      /\ \/ k' > 0 /\ stage' = "codeAttribute" /\ i' = i
         \/ NextOf(j')
  BY <1>1, <1>2 DEF ParseCodeAttribute, MethodDone, AfterMethod, NextOf
<1>4. p' \in Nat /\ j' \in Nat /\ k' \in Nat  BY <1>1, <1>3 DEF FileInv
<1>5. IsSeq(jc'.methods) /\ Len(jc'.methods) = Len(jc.methods) /\ DOMAIN jc' = DOMAIN jc
  BY <1>3 DEF FileInv, ClassOK
<1> QED  BY <1>1, <1>3, <1>4, <1>5, AfterAttribute

(* Every step of the parser.                                               *)
LEMMA FileInvNext == FileInv /\ [FileNext]_fileVars => FileInv'
<1> SUFFICES ASSUME FileInv, [FileNext]_fileVars PROVE FileInv'  OBVIOUS
<1>1. CASE UNCHANGED fileVars
  BY <1>1 DEF fileVars, FileInv, ClassOK, Progress, Instance, IsSeq
<1>2. CASE FileNext /\ Legible
  <2>1. Parse  BY <1>2 DEF FileNext
  <2> QED
    BY <1>2, <2>1, StartConstantsKeeps, ConstantKeeps, HeadKeeps, InterfacesKeeps, FieldKeeps,
       FieldAttributeKeeps, StartMethodsKeeps, MethodKeeps, ExceptionsKeep, CodeKeeps, CodeAttributeKeeps
       DEF Parse
<1>3. CASE FileNext /\ ~Legible
  <2>1. stage' = "lost" /\ UNCHANGED <<p, i, j, k, jc>>  BY <1>3 DEF FileNext, Misread
  <2>2. ClassOK'  BY <2>1 DEF FileInv, ClassOK, Instance, IsSeq
  <2> QED  BY <2>1, <2>2 DEF FileInv, Progress, Stages
<1> QED  BY <1>1, <1>2, <1>3 DEF FileNext

(* Whatever the bytes of the file, the parser records no more constants,   *)
(* fields and methods than the file announces, and numVars, which becomes  *)
(* the size of objects, counts the instance fields (jParseConstants,       *)
(* jParseFields, jParseMethods).                                           *)
THEOREM FileTypeCorrect == FileSpec => []FileTypeOK
<1>1. FileInv => FileTypeOK  BY DEF FileInv, ClassOK, FileTypeOK, Stages
<1> QED  BY <1>1, FileInvInit, FileInvNext, PTL DEF FileSpec
=============================================================================
