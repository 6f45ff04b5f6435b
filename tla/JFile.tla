-------------------------------- MODULE JFile --------------------------------
(***************************************************************************)
(* The parser of class files: what jGetClass and the functions it calls    *)
(* make of the bytes of a file, one step an iteration of one of their      *)
(* loops.  A file in memory is a map from offsets to the items the format  *)
(* puts there; a string is a sequence of characters, or of names the       *)
(* parser does not look into, of one byte each.                            *)
(***************************************************************************)
EXTENDS Integers, Sequences, FiniteSets, SequencesExt

CONSTANTS
  Files,        \* the class files there are
  Registered    \* the native methods, by name and descriptor, that the machine has a function for

VARIABLES
  file,         \* the class as it was compiled
  classmem,     \* the file in memory
  p,            \* how far it has been read
  stage,        \* what is read next
  i, j, k,      \* the constant, field or method; attributes left; attributes of the code left
  jc            \* what the parser knows of the class

fileVars == <<file, classmem, p, stage, i, j, k, jc>>

---------------------------------------------------------------------------
(* The class file format.  An item is a number or a string of w bytes.     *)
Item(w, v) == [w |-> w, v |-> v]
U2(v) == Item(2, v)
U4(v) == Item(4, v)
Size(items) == FoldLeft(LAMBDA n, item : n + item.w, 0, items)

WideTags == {"Long", "Double"}
\* The entry after a constant of eight bytes takes an index and no room.
ConstantItems(c) ==
  CASE c.tag = "Utf8" -> <<Item(1, c.tag), U2(Len(c.text)), Item(Len(c.text), c.text)>>
    [] c.tag \in {"Class", "String"} -> <<Item(1, c.tag), U2(c.value)>>
    [] c.tag \in WideTags -> <<Item(1, c.tag), Item(8, c.value)>>
    [] c.tag = "none" -> << >>
    [] c.tag = "MethodHandle" -> <<Item(1, c.tag), Item(3, c.value)>>
    [] OTHER -> <<Item(1, c.tag), U4(c.value)>>
\* The attributes that are not code, and then the code, which has attributes of its own.
Leaf(a) ==
  CASE a.kind = "ConstantValue" -> <<U2(a.value)>>
    [] a.kind = "Exceptions" -> <<U2(Len(a.classes))>> \o [n \in DOMAIN a.classes |-> U2(a.classes[n])]
    [] a.kind = "LineNumberTable" -> <<U2(a.lines), Item(4 * a.lines, "lines")>>
    [] a.kind = "LocalVariableTable" -> <<U2(a.lines), Item(10 * a.lines, "variables")>>
    [] a.kind = "Deprecated" -> << >>
Attribute(a, body) == <<U2(a.name), U4(Size(body))>> \o body
Counted(s, Each(_)) == <<U2(Len(s))>> \o FlattenSeq([n \in DOMAIN s |-> Each(s[n])])
Code(a) ==
  <<U2(a.maxStack), U2(a.maxLocals), U4(a.codeLength), Item(a.codeLength, "code"),
    U2(a.handlers), Item(8 * a.handlers, "handlers")>>
    \o Counted(a.attributes, LAMBDA b : Attribute(b, Leaf(b)))
Attributes(as) == Counted(as, LAMBDA a : Attribute(a, IF a.kind = "Code" THEN Code(a) ELSE Leaf(a)))
MemberItems(m) == <<U2(m.flags), U2(m.name), U2(m.descr)>> \o Attributes(m.attributes)
Items(f) ==
  <<U4("magic"), U4("version"), U2(Len(f.constants) + 1)>>
    \o FlattenSeq([n \in DOMAIN f.constants |-> ConstantItems(f.constants[n])])
    \o <<U2(f.flags), U2(f.this), U2(f.super), U2(Len(f.interfaces))>>
    \o [n \in DOMAIN f.interfaces |-> U2(f.interfaces[n])]
    \o Counted(f.fields, MemberItems) \o Counted(f.methods, MemberItems) \o Attributes(f.attributes)
\* The items one after the other; an item without bytes is nowhere.
Placed(memory, item) ==
  [end |-> memory.end + item.w,
   at |-> IF item.w = 0 THEN memory.at ELSE memory.at @@ (memory.end :> item)]
Image(f) == FoldLeft(Placed, [end |-> 0, at |-> << >>], Items(f)).at

---------------------------------------------------------------------------
(* Reading memory. *)
IsItem(o, w) == o \in DOMAIN classmem /\ classmem[o].w = w
IsCount(o, w) == IsItem(o, w) /\ classmem[o].v \in Nat    \* a number
AreU2(o, n) == \A m \in 0 .. n - 1 : IsItem(o + 2 * m, 2)
getUint(o) == classmem[o].v
jGetUtfString(idx) == getUint(jc.consts[idx] + 3)
IsName(idx) ==
  /\ idx \in DOMAIN jc.consts /\ IsItem(jc.consts[idx], 1) /\ getUint(jc.consts[idx]) = "Utf8"
  /\ jc.consts[idx] + 3 \in DOMAIN classmem
getConstant(idx) ==
  LET o == jc.consts[idx] IN
  IF getUint(o) \in {"Integer", "Float", "String"} THEN getUint(o + 1) ELSE 0

Parameters == {"B", "C", "F", "I", "S", "Z", "L"}
countParams(t) ==
  LET close == CHOOSE n \in DOMAIN t : t[n] = ")"
      params == SubSeq(t, 2, close - 1)
  IN  IF t[1] # "(" \/ \E n \in DOMAIN params : params[n] \in {"D", "J"} THEN -1
      ELSE Cardinality({n \in DOMAIN params : params[n] \in Parameters})

---------------------------------------------------------------------------
(* The steps. *)
\* jParseConstants
StartConstants ==
  /\ stage = "start"
  /\ jc' = [jc EXCEPT !.numConsts = getUint(8)]
  /\ p' = 10 /\ i' = 1
  /\ stage' = IF getUint(8) > 1 THEN "constant" ELSE "head"
  /\ UNCHANGED <<j, k>>

IndexesOne(tag) == 1      \* mutant
Indexes(tag) == IF tag \in WideTags THEN 2 ELSE 1
\* Of a constant of a kind it does not know the parser skips nothing.
ConstantSize(tag) ==
  CASE tag = "Utf8" -> 3 + getUint(p + 1)
    [] tag \in {"Integer", "Float", "Fieldref", "Methodref", "InterfaceMethodref", "NameAndType"} -> 5
    [] tag \in {"Class", "String"} -> 3
    [] tag \in WideTags -> 9
    [] OTHER -> 0
jLoadClassConst ==
  /\ stage = "constant"
  /\ jc' = [jc EXCEPT !.consts = [n \in DOMAIN @ \cup {i} |-> IF n = i THEN p ELSE @[n]]]
  /\ p' = p + ConstantSize(getUint(p)) /\ i' = i + Indexes(getUint(p))
  /\ stage' = IF i' < jc.numConsts THEN "constant" ELSE "head"
  /\ UNCHANGED <<j, k>>

\* jGetClass
ParseHead ==
  /\ stage = "head"
  /\ jc' = [jc EXCEPT !.accessFlags = p, !.thisClassIdx = getUint(p + 2), !.superClassIdx = getUint(p + 4),
                      !.interfacesCount = getUint(p + 6)]
  /\ p' = p + 8 /\ stage' = "interfaces" /\ UNCHANGED <<i, j, k>>
jParseInterfaces ==
  /\ stage = "interfaces"
  /\ LET n == jc.interfacesCount
         fieldsCount == getUint(p + 2 * n) IN
     /\ jc' = [jc EXCEPT !.interfaces = [m \in 1 .. n |-> getUint(p + 2 * (m - 1))], !.fieldsCount = fieldsCount]
     /\ p' = p + 2 * n + 2 /\ i' = 1
     /\ stage' = IF fieldsCount > 0 THEN "field" ELSE "methods"
  /\ UNCHANGED <<j, k>>

\* jParseFields
VarOffs == jc.numVars
NumVarsOfAll(static) == jc.numVars + 1      \* mutant
NumVars(static) == IF static THEN jc.numVars ELSE jc.numVars + 1
AfterField == IF i < jc.fieldsCount THEN "field" ELSE "methods"
ParseField ==
  /\ stage = "field"
  /\ LET static == "static" \in getUint(p) IN
     jc' = [jc EXCEPT
       !.fields = Append(@, [flags |-> getUint(p), name |-> getUint(p + 2), descr |-> getUint(p + 4),
                             isFinal |-> FALSE, var |-> IF static THEN 0 ELSE VarOffs]),
       !.numVars = NumVars(static)]
  /\ p' = p + 8 /\ j' = getUint(p + 6)
  /\ IF j' > 0 THEN stage' = "fieldAttribute" /\ UNCHANGED i
     ELSE stage' = AfterField /\ i' = i + 1
  /\ UNCHANGED k
IsConstantValue ==
  /\ "static" \notin Last(jc.fields).flags
  /\ jGetUtfString(getUint(p)) = <<"ConstantValue">> /\ getUint(p + 2) = 2
ParseFieldAttribute ==
  /\ stage = "fieldAttribute"
  /\ jc' = [jc EXCEPT
       !.fields[i].isFinal = IsConstantValue,
       !.fields[i].var = IF IsConstantValue THEN getConstant(getUint(p + 6)) ELSE @]
  /\ p' = p + 6 + getUint(p + 2) /\ j' = j - 1
  /\ IF j' > 0 THEN UNCHANGED <<stage, i>> ELSE stage' = AfterField /\ i' = i + 1
  /\ UNCHANGED k

\* jParseMethods
AfterMethod == IF i < jc.methodsCount THEN "method" ELSE "parsed"
StartMethods ==
  /\ stage = "methods"
  /\ jc' = [jc EXCEPT !.methodsCount = getUint(p)]
  /\ p' = p + 2 /\ i' = 1 /\ stage' = IF getUint(p) > 0 THEN "method" ELSE "parsed"
  /\ UNCHANGED <<j, k>>
Body == [maxStack |-> 0, maxLocals |-> 0, code |-> 0, codeLength |-> 0, excTable |-> 0, excTableLength |-> 0,
         exceptions |-> [number |-> 0, table |-> 0]]
\* The hash code that is looked up stands for the name and the descriptor; no two have the same.
jLoadNativeFunction(name, descr) == <<name, descr>> \in Registered
\* The attributes of a native or abstract method are not read, and not skipped.
Bodiless(flags) == flags \cap {"native", "abstract"} # {}
ParseMethod ==
  /\ stage = "method"
  /\ LET flags == getUint(p)
         name == jGetUtfString(getUint(p + 2))
         descr == jGetUtfString(getUint(p + 4))
         params == countParams(descr) IN
     /\ jc' = [jc EXCEPT !.methods = Append(@, Body @@
          [flags |-> flags, name |-> getUint(p + 2), descr |-> getUint(p + 4),
           paramsCount |-> IF params < 0 THEN 0 ELSE params,
           initMethod |-> name = <<"<init>">>, isRetValue |-> Last(descr) # "V",
           fnative |-> "native" \in flags /\ jLoadNativeFunction(name, descr)])]
     /\ p' = p + 8 /\ j' = getUint(p + 6)
     /\ IF j' > 0 /\ ~Bodiless(flags) THEN stage' = "methodAttribute" /\ UNCHANGED i
        ELSE stage' = AfterMethod /\ i' = i + 1
  /\ UNCHANGED k

IsExceptions == jGetUtfString(getUint(p)) = <<"Exceptions">>
\* Where the parts of the Code attribute begin.
CodeAt == p + 14
TableAt == CodeAt + getUint(p + 10) + 2
TableLength == getUint(TableAt - 2)
CodeEnd == TableAt + 8 * TableLength
MethodDone(left) == IF left > 0 THEN stage' = "methodAttribute" /\ UNCHANGED i ELSE stage' = AfterMethod /\ i' = i + 1
ParseExceptions ==
  /\ stage = "methodAttribute" /\ IsExceptions
  /\ jc' = [jc EXCEPT !.methods[i].exceptions = [number |-> getUint(p + 6), table |-> p + 8]]
  /\ p' = p + 8 + 2 * getUint(p + 6) /\ j' = j - 1
  /\ MethodDone(j') /\ UNCHANGED k
\* Every other attribute is taken for the code.
ParseCode ==
  /\ stage = "methodAttribute" /\ ~IsExceptions
  /\ jc' = [jc EXCEPT !.methods[i] = [@ EXCEPT
       !.maxStack = getUint(p + 6), !.maxLocals = getUint(p + 8), !.codeLength = getUint(p + 10),
       !.code = IF getUint(p + 10) > 0 THEN CodeAt ELSE @,
       !.excTableLength = TableLength, !.excTable = IF TableLength > 0 THEN TableAt ELSE @,
       !.exceptions.number = 0]]
  /\ p' = CodeEnd + 2 /\ j' = j - 1 /\ k' = getUint(CodeEnd)
  /\ IF k' > 0 THEN stage' = "codeAttribute" /\ UNCHANGED i ELSE MethodDone(j')
\* Every attribute of the code is taken for a LineNumberTable.
ParseCodeAttribute ==
  /\ stage = "codeAttribute"
  /\ p' = p + 8 + 4 * getUint(p + 6) /\ k' = k - 1
  /\ IF k' > 0 THEN UNCHANGED <<stage, i>> ELSE MethodDone(j)
  /\ UNCHANGED <<jc, j>>

(* What the next step reads is there, and its counts and lengths are       *)
(* numbers; if not, it makes numbers of bytes that belong to something     *)
(* else, and what follows is anything.                                     *)
Legible ==
  CASE stage = "start" -> IsCount(8, 2)
    [] stage = "constant" -> IsItem(p, 1) /\ (getUint(p) = "Utf8" => IsCount(p + 1, 2))
    [] stage = "head" -> AreU2(p, 3) /\ IsCount(p + 6, 2)
    [] stage = "interfaces" -> AreU2(p, jc.interfacesCount) /\ IsCount(p + 2 * jc.interfacesCount, 2)
    [] stage = "field" -> AreU2(p, 3) /\ IsCount(p + 6, 2)
    [] stage = "fieldAttribute" ->
         IsItem(p, 2) /\ IsName(getUint(p)) /\ IsCount(p + 2, 4)
           /\ (IsConstantValue => IsItem(p + 6, 2) /\ getUint(p + 6) \in DOMAIN jc.consts)
    [] stage = "methods" -> IsCount(p, 2)
    [] stage = "method" -> AreU2(p, 3) /\ IsCount(p + 6, 2) /\ IsName(getUint(p + 2)) /\ IsName(getUint(p + 4))
    [] stage = "methodAttribute" ->
         /\ IsItem(p, 2) /\ IsName(getUint(p)) /\ IsItem(p + 2, 4) /\ IsItem(p + 6, 2)
         /\ IF IsExceptions THEN IsCount(p + 6, 2)
            ELSE IsItem(p + 8, 2) /\ IsCount(p + 10, 4) /\ IsCount(TableAt - 2, 2) /\ IsCount(CodeEnd, 2)
    [] stage = "codeAttribute" -> IsCount(p + 6, 2)
Misread == stage' = "lost" /\ UNCHANGED <<p, i, j, k, jc>>

FileStart ==
  /\ classmem = Image(file)
  /\ p = 0 /\ stage = "start" /\ i = 0 /\ j = 0 /\ k = 0
  /\ jc = [numConsts |-> 0, consts |-> << >>, accessFlags |-> 0, thisClassIdx |-> 0, superClassIdx |-> 0,
           interfacesCount |-> 0, interfaces |-> << >>, fieldsCount |-> 0, fields |-> << >>, numVars |-> 0,
           methodsCount |-> 0, methods |-> << >>]
FileInit == file \in Files /\ FileStart
Parse ==
  \/ StartConstants \/ jLoadClassConst \/ ParseHead \/ jParseInterfaces
  \/ ParseField \/ ParseFieldAttribute
  \/ StartMethods \/ ParseMethod \/ ParseExceptions \/ ParseCode \/ ParseCodeAttribute
FileNext ==
  /\ stage \notin {"parsed", "lost"}
  /\ IF Legible THEN Parse ELSE Misread
  /\ UNCHANGED <<file, classmem>>
FileSpec == FileInit /\ [][FileNext]_fileVars /\ WF_fileVars(FileNext)

---------------------------------------------------------------------------
Instance(fields) == {n \in DOMAIN fields : "static" \notin fields[n].flags}
(* The parser records no more constants, fields and methods than the file  *)
(* announces, and the variables of an object are the instance fields.      *)
FileTypeOK ==
  /\ stage \in {"start", "constant", "head", "interfaces", "field", "fieldAttribute", "methods", "method",
               "methodAttribute", "codeAttribute", "parsed", "lost"}
  /\ p \in Nat /\ j \in Nat /\ k \in Nat
  /\ DOMAIN jc.consts \subseteq 1 .. jc.numConsts - 1
  /\ Len(jc.fields) <= jc.fieldsCount /\ jc.numVars = Cardinality(Instance(jc.fields))
  /\ Len(jc.methods) <= jc.methodsCount

(* The files the parser is made for.                                       *)
KindsOf(as) == [n \in DOMAIN as |-> as[n].kind]
PlainConstant(c) == c.tag # "MethodHandle"
PlainField(f) == "ConstantValue" \in Range(KindsOf(f.attributes)) =>
  "static" \notin f.flags /\ Last(KindsOf(f.attributes)) = "ConstantValue"
PlainMethod(m) ==
  /\ {"D", "J"} \cap Range(m.params) = {}
  /\ KindsOf(m.attributes) \in
       IF Bodiless(m.flags) THEN {<< >>} ELSE {<<"Code">>, <<"Code", "Exceptions">>}
  /\ \A n \in DOMAIN m.attributes : m.attributes[n].kind = "Code" =>
       Range(KindsOf(m.attributes[n].attributes)) \subseteq {"LineNumberTable"}
Plain(f) ==
  /\ \A n \in DOMAIN f.constants : PlainConstant(f.constants[n])
  /\ \A n \in DOMAIN f.fields : PlainField(f.fields[n])
  /\ \A n \in DOMAIN f.methods : PlainMethod(f.methods[n])

ConstantRight(n) ==
  LET c == file.constants[n] IN
  c.tag # "none" => /\ getUint(jc.consts[n]) = c.tag
                    /\ (c.tag = "Utf8" => jGetUtfString(n) = c.text)
FieldRight(n) ==
  LET f == file.fields[n]
      parsed == jc.fields[n] IN
  /\ parsed.flags = f.flags /\ parsed.name = f.name /\ parsed.descr = f.descr
  /\ parsed.isFinal <=> "ConstantValue" \in Range(KindsOf(f.attributes))
  /\ parsed.var = IF parsed.isFinal THEN file.constants[Last(f.attributes).value].value
                  ELSE IF "static" \in f.flags THEN 0
                  ELSE Cardinality(Instance(SubSeq(file.fields, 1, n - 1)))
CodeRight(parsed, a) ==
  /\ parsed.maxStack = a.maxStack /\ parsed.maxLocals = a.maxLocals
  /\ parsed.codeLength = a.codeLength /\ classmem[parsed.code] = Item(a.codeLength, "code")
  /\ parsed.excTableLength = a.handlers
  /\ a.handlers > 0 => classmem[parsed.excTable] = Item(8 * a.handlers, "handlers")
ExceptionsRight(parsed, as) ==
  IF Len(as) < 2 THEN parsed.exceptions.number = 0
  ELSE /\ parsed.exceptions.number = Len(as[2].classes)
       /\ \A n \in DOMAIN as[2].classes : getUint(parsed.exceptions.table + 2 * (n - 1)) = as[2].classes[n]
MethodRight(n) ==
  LET m == file.methods[n]
      parsed == jc.methods[n] IN
  /\ parsed.flags = m.flags /\ parsed.name = m.name /\ parsed.descr = m.descr
  /\ parsed.paramsCount = Len(m.params) /\ (parsed.isRetValue <=> m.returns)
  /\ ~Bodiless(m.flags) =>
       CodeRight(parsed, m.attributes[1]) /\ ExceptionsRight(parsed, m.attributes)
(* A file the parser is made for is read to its end, and the class has the *)
(* constants, interfaces, fields and methods that were compiled, the code  *)
(* and the handlers of each method where they are in the file.             *)
ParsesRight ==
  Plain(file) =>
    /\ stage # "lost"
    /\ stage = "parsed" =>
         /\ getUint(jc.accessFlags) = file.flags
         /\ jc.thisClassIdx = file.this /\ jc.superClassIdx = file.super /\ jc.interfaces = file.interfaces
         /\ \A n \in DOMAIN file.constants : ConstantRight(n)
         /\ Len(jc.fields) = Len(file.fields) /\ \A n \in DOMAIN file.fields : FieldRight(n)
         /\ jc.numVars = Cardinality(Instance(file.fields))
         /\ Len(jc.methods) = Len(file.methods) /\ \A n \in DOMAIN file.methods : MethodRight(n)
=============================================================================
