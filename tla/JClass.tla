-------------------------------- MODULE JClass --------------------------------
(***************************************************************************)
(* jGetClass: the table of classes, and the recursion over superclasses    *)
(* and static initialisers that fills it.  A load calls itself for the     *)
(* superclass and runs the class's <clinit>, which is Java code and loads  *)
(* other classes, among them the ones that are being loaded.               *)
(*                                                                         *)
(* calls is the C stack: main, code (a jExecMethod and its instructions),  *)
(* and for each jGetClass that waits what it waits for: "super" or         *)
(* "clinit".  A class enters the table before either.                      *)
(***************************************************************************)
EXTENDS JLookup

CONSTANTS
  Uses,        \* of the code of a class, the classes its instructions and handlers name
  Preloaded,   \* preloadedClasses, then the main class
  MaxFailures  \* bound: how often memory, or the thread stack, runs out

Use == [name : Name, tolerant : BOOLEAN]

ASSUME ClassAssumption ==
  /\ Uses \in [Name -> SUBSET Use]
  /\ Preloaded \in Seq(Name) \ {<< >>} /\ MaxFailures \in Nat

VARIABLES
  calls,      \* the C stack
  control,    \* running, calling jGetClass or returning from it, or the process is over
  failures,
  inits,      \* the classes whose <clinit> has been started, in order
  errors      \* the classes in the table whose load met an error

classVars == <<classes, calls, control, failures, inits, errors>>

Entry(fn, c, left, tolerant) == [fn |-> fn, c |-> c, left |-> left, tolerant |-> tolerant]
Waiting(fn, c) == Entry(fn, c, {}, FALSE)
Run == [at |-> "run"]
Call(name) == [at |-> "call", name |-> name]
Return(err, c) == [at |-> "return", err |-> err, c |-> c]
Exit == [at |-> "exit"]

Top == Last(calls)
Runs(fn) == control.at = "run" /\ Top.fn = fn
Returned(fn) == control.at = "return" /\ Top.fn = fn

\* The hash table: the chain of a bucket is searched from its newest class on.
FoundLinked(name) ==     \* mutant: a class without its superclass is not taken
  SelectLastInSeq(classes, LAMBDA d : d.name = name /\ (d.super # 0 \/ File[name].super = None))
Found(name) == SelectLastInSeq(classes, LAMBDA d : d.name = name)

---------------------------------------------------------------------------
(* jGetClass up to the call for the superclass. *)

Asked == control.at = "call" /\ Found(control.name) = 0
MayFail == failures < MaxFailures /\ failures' = failures + 1

FoundAtHead ==     \* mutant: the walk of a bucket does not advance
  /\ control.at = "call" /\ Found(control.name) = Len(classes) /\ classes # << >>
  /\ control' = Return("EOK", Len(classes))
  /\ UNCHANGED <<classes, calls, failures, inits, errors>>
FoundInTable ==
  /\ control.at = "call" /\ Found(control.name) # 0
  /\ control' = Return("EOK", Found(control.name))
  /\ UNCHANGED <<classes, calls, failures, inits, errors>>

\* No memory for the structure or its constants: nothing is kept.
NoMemory ==
  /\ Asked /\ MayFail
  /\ \E err \in {"ENOMEM", "ECONSTSFAIL"} : control' = Return(err, 0)
  /\ UNCHANGED <<classes, calls, inits, errors>>

\* loadFile: no such file, or no memory for it.
NoFile ==
  /\ Asked
  /\ IF control.name \in DOMAIN File THEN MayFail ELSE UNCHANGED failures
  /\ control' = Return("ECLASSNOTFOUND", 0)
  /\ UNCHANGED <<classes, calls, inits, errors>>

\* No memory for the block of the mirror: the process ends.
NoMirror ==
  /\ Asked /\ MayFail /\ control' = Exit
  /\ UNCHANGED <<classes, calls, inits, errors>>

StructureMalloc(name, parsed) == [name |-> name, parsed |-> parsed, super |-> Len(classes) + 2]    \* mutant: not cleared
Structure(name, parsed) == [name |-> name, parsed |-> parsed, super |-> 0]
Insert(parsed) == classes' = Append(classes, Structure(control.name, parsed))
New == Len(classes) + 1

\* No memory for the tables of interfaces, fields or methods: the class stays in the table.
HalfLoaded ==
  /\ Asked /\ control.name \in DOMAIN File /\ MayFail
  /\ \E parsed \in 0 .. 2 :
       /\ parsed = 0 => File[control.name].interfaces # {}
       /\ parsed = 1 => File[control.name].fields # << >>
       /\ Insert(parsed)
       /\ control' = Return(<<"EINTERFACEFAIL", "EFIELDSFAIL", "EMETHODSFAIL">>[parsed + 1], New)
       /\ errors' = errors \cup {New}
  /\ UNCHANGED <<calls, inits>>

---------------------------------------------------------------------------
(* The superclass and <clinit>. *)

\* Calls <clinit>, if the class has one and the thread stack has room for its frame.
StaticInit(c, below) ==
  \/ /\ "<clinit>" \in FileOf(c).methods
     /\ calls' = below \o <<Waiting("clinit", c), Entry("code", c, Uses[classes[c].name], FALSE)>>
     /\ control' = Run /\ inits' = Append(inits, c)
     /\ UNCHANGED <<failures, errors>>
  \/ /\ IF "<clinit>" \in FileOf(c).methods THEN MayFail /\ errors' = errors \cup {c}
        ELSE UNCHANGED <<failures, errors>>
     /\ calls' = below /\ control' = Return("EOK", c) /\ UNCHANGED inits

ParseInits ==     \* mutant: the class is initialised before its superclass is loaded
  /\ Asked /\ control.name \in DOMAIN File
  /\ Insert(3)
  /\ calls' = calls \o <<Waiting("clinit", New), Entry("code", New, Uses[control.name], FALSE)>>
  /\ control' = Run /\ inits' = Append(inits, New)
  /\ UNCHANGED <<failures, errors>>
Parse ==
  /\ Asked /\ control.name \in DOMAIN File
  /\ Insert(3)
  /\ calls' = Append(calls, Waiting("super", New))
  /\ control' = IF File[control.name].super = None THEN Return("EOK", 0) ELSE Call(File[control.name].super)
  /\ UNCHANGED <<failures, inits, errors>>

SuperAnyway ==     \* mutant: an error of the superclass is not passed on
  /\ Returned("super")
  /\ classes' = [classes EXCEPT ![Top.c].super = control.c]
  /\ StaticInit(Top.c, Front(calls))
SuperReturned ==
  /\ Returned("super")
  /\ IF control.err = "EOK"
     THEN /\ classes' = [classes EXCEPT ![Top.c].super = control.c]
          /\ StaticInit(Top.c, Front(calls))
     ELSE /\ calls' = Front(calls) /\ control' = Return(control.err, Top.c)
          /\ errors' = errors \cup {Top.c}
          /\ UNCHANGED <<classes, failures, inits>>

---------------------------------------------------------------------------
(* Code: instructions and handlers that name classes, and main. *)

CodeUses ==
  /\ Runs("code")
  /\ \E use \in Top.left :
       /\ calls' = Append(Front(calls), Entry("code", Top.c, Top.left \ {use}, use.tolerant))
       /\ control' = Call(use.name)
  /\ UNCHANGED <<classes, failures, inits, errors>>

\* The search for a handler passes over an error, an instruction ends the process.
CodeResumes ==
  /\ Returned("code")
  /\ control' = IF control.err = "EOK" \/ Top.tolerant THEN Run ELSE Exit
  /\ UNCHANGED <<classes, calls, failures, inits, errors>>

\* jExecMethod returns, to jGetClass or, at the end of the program, to main.
CodeReturns ==
  /\ Runs("code")
  /\ LET below == Front(calls) IN
     IF Last(below).fn = "clinit"
     THEN calls' = Front(below) /\ control' = Return("EOK", Top.c)
     ELSE calls' = below /\ control' = Exit
  /\ UNCHANGED <<classes, failures, inits, errors>>

\* main: the preloaded classes, the main class, its main method.
MainLoads ==
  /\ Runs("main") /\ Top.left # << >>
  /\ calls' = <<Entry("main", 0, Tail(Top.left), FALSE)>>
  /\ control' = Call(Head(Top.left))
  /\ UNCHANGED <<classes, failures, inits, errors>>

MainResumes ==
  /\ Returned("main")
  /\ IF control.err # "EOK" THEN control' = Exit /\ UNCHANGED calls
     ELSE IF Top.left # << >> THEN control' = Run /\ UNCHANGED calls
     ELSE IF "main" \notin OwnMethods(control.c) THEN control' = Exit /\ UNCHANGED calls
     ELSE /\ control' = Run
          /\ calls' = Append(calls, Entry("code", control.c, Uses[classes[control.c].name], FALSE))
  /\ UNCHANGED <<classes, failures, inits, errors>>

ClassInit ==
  /\ classes = << >> /\ failures = 0 /\ inits = << >> /\ errors = {}
  /\ calls = <<Entry("main", 0, Preloaded, FALSE)>> /\ control = Run

ClassNext ==
  \/ FoundInTable \/ NoMemory \/ NoFile \/ NoMirror \/ HalfLoaded \/ Parse \/ SuperReturned
  \/ CodeUses \/ CodeResumes \/ CodeReturns \/ MainLoads \/ MainResumes
ClassSpec == ClassInit /\ [][ClassNext]_classVars
ClassFairSpec == ClassSpec /\ WF_classVars(ClassNext)

---------------------------------------------------------------------------
OnStack(fn) == {calls[i].c : i \in {j \in DOMAIN calls : calls[j].fn = fn}}
Loading == OnStack("super") \cup OnStack("clinit")

(* The types of the table and of the C stack. *)
ClassTypeOK ==
  /\ classes \in Seq([name : DOMAIN File, parsed : 0 .. 3, super : 0 .. Len(classes)])
  /\ \A i \in DOMAIN calls : calls[i].fn \in {"main", "code", "super", "clinit"} /\ calls[i].c \in 0 .. Len(classes)
  /\ control.at \in {"run", "call", "return", "exit"}
  /\ failures \in 0 .. MaxFailures /\ errors \subseteq Id

(* However the loads of superclasses and the static initialisers call each *)
(* other, a class is in the table once and its <clinit> is started once.   *)
LoadedOnce ==
  /\ \A c, d \in Id : classes[c].name = classes[d].name => c = d
  /\ IsInjective(inits)

(* jGetClass gives out a class that is incomplete (without its methods or  *)
(* its superclass, or its <clinit> not started) only to code that runs     *)
(* inside the load of that class, or after a load of it has failed.        *)
Complete(c) ==
  /\ classes[c].parsed = 3
  /\ classes[c].super = 0 => FileOf(c).super = None
  /\ "<clinit>" \in FileOf(c).methods => c \in ToSet(inits)
GivenOutComplete ==
  control.at = "return" /\ control.err = "EOK" /\ control.c # 0 =>
    Complete(control.c) \/ control.c \in Loading \cup errors

(* While a <clinit> runs, that of the superclass has been started, unless  *)
(* the load of the superclass is still waiting, further down the C stack,  *)
(* for its own superclass, or has met an error, or the class names itself  *)
(* as its superclass.                                                      *)
SuperFirst ==
  \A i \in DOMAIN calls :
    calls[i].fn = "clinit" /\ FileOf(calls[i].c).super \notin {None, classes[calls[i].c].name} =>
    \E s \in InTable(FileOf(calls[i].c).super) :
      \/ "<clinit>" \notin FileOf(s).methods \/ s \in errors
      \/ \E j, k \in DOMAIN inits : j < k /\ inits[j] = s /\ inits[k] = calls[i].c
      \/ \E j \in 1 .. i : calls[j] = Waiting("super", s)

(* Once a class and all it inherits from are loaded, in whichever order    *)
(* that was, a method is looked up to the class that the class files say,  *)
(* and only java/lang/Object's constructor is dropped by invoke.           *)
Settled(c) ==
  /\ classes[c].name \in Acyclic
  /\ \A n \in ToSet(Ancestors[classes[c].name]) :
       \E d \in InTable(n) : d \notin OnStack("super") \cup errors
MethodsRight ==
  \A c \in Id : Settled(c) =>
    /\ \A method \in Method :
         LET d == jGetMethod(c, method) IN
         Declarer(classes[c].name, method) = IF d = 0 THEN None ELSE classes[d].name
    /\ SkipsInit(c) <=> FileOf(c).super = None

(* A cast or an instanceof that succeeds is right, even while classes are  *)
(* being loaded: the object's class has the class that it found among its  *)
(* supertypes.  That is the class the code names if the constants of the   *)
(* object's class agree, at that index, with those of the class of the     *)
(* code.                                                                   *)
CastsSound ==
  \A c \in Id : \A idx \in DOMAIN FileOf(c).consts :
    InstanceOf(c, idx) => FileOf(c).consts[idx] \in Supertypes[classes[c].name]

(* Loading ends, also if classes are each other's superclass, for a class  *)
(* is found in the table before the load of it would start again.          *)
LoadsEnd == <>(control = Exit)

---------------------------------------------------------------------------
(* Claims of the code that it does not meet. *)

(* J_Global.h:162: numVars is the total number of variables of an object:  *)
(* the fields an object has from its class and from the superclasses are   *)
(* in its block, each at a place of its own.                               *)
Slots(c, d) == {varOffs(d, f) : f \in ToSet(FileOf(d).fields)}
FieldsApart ==
  \A c \in Id : Settled(c) =>
    LET up == ToSet(Chain(c)) \ {0} IN
    \A d, e \in up :
      /\ Slots(c, d) \subseteq 0 .. numVars(c) - 1
      /\ d # e => Slots(c, d) \cap Slots(c, e) = {}
=============================================================================
