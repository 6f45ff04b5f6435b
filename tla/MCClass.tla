-------------------------------- MODULE MCClass --------------------------------
(* Object, a class with a subclass and a sub-subclass that its initialiser *)
(* uses, an interface, and two classes that are each other's superclass.   *)
EXTENDS JClass, TLC

CONSTANTS Object, Base, Derived, Leaf, Shape, Round, Other, Gone

ClassFile(super, methods) ==
  [super |-> super, interfaces |-> {}, interface |-> FALSE, methods |-> methods,
   fields |-> << >>, consts |-> <<Shape>> \o IF super = None THEN << >> ELSE <<super>>]

MCFile ==
  Object :> ClassFile(None, {"equals"}) @@
  Base :> [ClassFile(Object, {"<clinit>", "size"}) EXCEPT !.fields = <<"count">>, !.consts = <<Shape, Object, Derived>>] @@
  Derived :> [ClassFile(Base, {"<clinit>", "main", "equals"}) EXCEPT !.interfaces = {Shape}] @@
  Leaf :> [ClassFile(Derived, {"<clinit>", "size"}) EXCEPT !.fields = <<"list", "offset">>] @@
  Shape :> [ClassFile(Object, {}) EXCEPT !.interface = TRUE] @@
  Round :> ClassFile(Other, {"<clinit>"}) @@
  Other :> ClassFile(Round, {})

Named(name) == [name |-> name, tolerant |-> FALSE]
Caught(name) == [name |-> name, tolerant |-> TRUE]
MCUses ==
  [n \in Name |->
     CASE n = Base -> {Named(Leaf)}
       [] n = Derived -> {Caught(Leaf), Named(Leaf), Named(Shape), Caught(Round), Caught(Gone)}
       [] n = Leaf -> {Named(Base), Named(Shape)}
       [] n = Round -> {Named(Other)}
       [] OTHER -> {}]
MCPreloaded == <<Object, Derived>>
=============================================================================
