-------------------------------- MODULE JLookup --------------------------------
(***************************************************************************)
(* Looking up methods, fields and superclasses in the classes that are in  *)
(* memory.  A class is known by its place in the table, 0 is no class.     *)
(* Beside each lookup stands what the class files alone say.               *)
(***************************************************************************)
EXTENDS Naturals, Sequences, FiniteSets, SequencesExt, Functions

CONSTANTS
  Name,     \* names of classes and interfaces
  None,     \* the superclass of java/lang/Object
  File      \* the class files: super, interfaces, whether it is an interface,
            \* methods, instance fields and the class names among the constants

Method == UNION {File[n].methods : n \in DOMAIN File}
ASSUME LookupAssumption ==
  /\ IsFiniteSet(Name) /\ None \notin Name /\ DOMAIN File \subseteq Name
  /\ \A n \in DOMAIN File :
       /\ File[n].super \in Name \cup {None} /\ File[n].interfaces \subseteq Name
       /\ File[n].interface \in BOOLEAN
       /\ IsInjective(File[n].fields) /\ Range(File[n].consts) \subseteq Name

VARIABLE
  classes   \* the J_Class structures: name, how much of the file is parsed, superClass

Id == DOMAIN classes
FileOf(c) == File[classes[c].name]

\* superClass counts only if numberSuperClasses is not zero; it is never more than one.
numberSuperClasses(c) == IF classes[c].super = 0 THEN 0 ELSE 1

---------------------------------------------------------------------------
(* jGetMethod with a class to return: from c upwards. *)

\* The i-th class on the way up; numberSuperClasses of that class tells whether to go on.
Chain(c) ==
  LET up[i \in 1 .. Len(classes)] == IF i = 1 THEN c ELSE
        LET below == up[i - 1] IN
        IF below = 0 \/ numberSuperClasses(below) = 0 THEN 0 ELSE classes[below].super
  IN  up
OwnMethods(c) == IF classes[c].parsed < 3 THEN {} ELSE FileOf(c).methods
jGetMethodOwn(c, method) == IF method \in OwnMethods(c) THEN c ELSE 0    \* mutant: as for vc = NULL
jGetMethod(c, method) ==
  LET i == SelectInSeq(Chain(c), LAMBDA d : d # 0 /\ method \in OwnMethods(d)) IN
  IF i = 0 THEN 0 ELSE Chain(c)[i]

\* invoke drops a call of the <init> of a class without a superclass.
SkipsInit(c) == numberSuperClasses(c) = 0

---------------------------------------------------------------------------
(* jGetField: the fields of c itself.  varOffs numbers the instance fields *)
(* of one class from 0, and an object of c has numVars(c) + 1 words.       *)
jGetField(c, field) ==
  IF classes[c].parsed < 2 THEN 0 ELSE SelectInSeq(FileOf(c).fields, LAMBDA f : f = field)
varOffs(c, field) == jGetField(c, field) - 1
numVars(c) == Len(FileOf(c).fields)

---------------------------------------------------------------------------
(* compatible: of the class and its first superclass, the class itself or, *)
(* if the target is an interface, the interfaces and what they extend.     *)
(* An interface that is not in memory yet is loaded on the way; if that    *)
(* fails, the process ends.                                                *)
Interfaces == {n \in DOMAIN File : File[n].interface}
InTable(name) == {c \in Id : classes[c].name = name}
Looked(name) ==
  {name} \cup IF InTable(name) = {} THEN {File[n].super : n \in {name} \cap DOMAIN File} \ {None}
              ELSE {classes[classes[c].super].name : c \in {d \in InTable(name) : numberSuperClasses(d) = 1}}
InterfacesOf(name) == UNION {File[n].interfaces : n \in Looked(name) \cap DOMAIN File}
compatibleSwapped(source, target) ==     \* mutant: the superclass of the target is looked at
  classes[source].name \in Looked(classes[target].name)
compatible(source, target) ==
  LET name == classes[target].name IN
  IF ~File[name].interface THEN name \in Looked(classes[source].name)
  ELSE LET reached[i \in 0 .. Cardinality(Interfaces)] ==
             IF i = 0 THEN InterfacesOf(classes[source].name)
             ELSE LET near == reached[i - 1] IN near \cup UNION {InterfacesOf(n) : n \in near}
       IN  name \in reached[Cardinality(Interfaces)]

\* instanceof and checkcast look up the index of the instruction in the constants of
\* the object's class, whichever class the code is of.
InstanceOf(c, idx) ==
  idx \in DOMAIN FileOf(c).consts /\ \E target \in InTable(FileOf(c).consts[idx]) : compatible(c, target)

---------------------------------------------------------------------------
(* The same by the class files. *)

Ancestors ==
  [n \in DOMAIN File |->
     LET up[i \in 0 .. Cardinality(Name)] == IF i = 0 THEN <<n>> ELSE
           LET below == up[i - 1]
               s == File[Last(below)].super IN
           IF s \notin DOMAIN File THEN below ELSE Append(below, s)
     IN  up[Cardinality(Name)]]
\* No class is its own ancestor.
Acyclic == {n \in DOMAIN File : Len(Ancestors[n]) <= Cardinality(Name) /\ File[Last(Ancestors[n])].super = None}
Declarer(n, method) ==
  LET i == SelectInSeq(Ancestors[n], LAMBDA a : method \in File[a].methods) IN
  IF i = 0 THEN None ELSE Ancestors[n][i]
\* The least set that has the name and, with a class, its superclass and interfaces.
Above(n) == File[n].interfaces \cup ({File[n].super} \ {None})
Supertypes ==
  [n \in DOMAIN File |->
     {m \in Name : \A S \in SUBSET Name :
        n \in S /\ (\A k \in S \cap DOMAIN File : Above(k) \subseteq S) => m \in S}]
=============================================================================
