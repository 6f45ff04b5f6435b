-------------------------------- MODULE MCGc --------------------------------
(* One collection of every small full heap.  Slot 0 holds the mirror of    *)
(* java/lang/Object, as it does in every run of the virtual machine.       *)
EXTENDS JGc

CONSTANTS ObjectClass, Node,
          MaxFields,    \* reference fields of class Node
          StaticValues, \* values of a static field
          ExStacks, ThStacks  \* the stacks tried

\* Node: one int field, then the references, then a static reference.
F(kind, ref) == [kind |-> kind, ref |-> ref]
StaticsLastFields ==
  [c \in Classes |->
     IF c = Node THEN <<F("inst", FALSE)>> \o [j \in 1 .. MaxFields |-> F("inst", TRUE)]
                      \o <<F("static", TRUE)>>
     ELSE << >>]
\* Node with no field but a static one.
StaticOnlyFields ==
  [c \in Classes |-> IF c = Node THEN <<F("static", TRUE), F("inst", FALSE)>> ELSE << >>]

\* An int that looks like a slot number, references to any slot.
NodeWords ==
  {ws \in [1 .. NumVars(Node) -> Slots] :
     \A j \in FieldIdx(Node) : Fields[Node][j] = F("inst", FALSE) => ws[VarOffs(Node, j) + 1] = 1}

EmptyOrOne == {<< >>} \cup {<<w>> : w \in Slots}
NoneOrFirst == {<< >>, <<1>>}
OneWord == {<<w>> : w \in Slots \ {0}}

Blocks ==
  {Mirror(Node), Object(ObjectClass, << >>)}
  \cup {Object(Node, ws) : ws \in NodeWords}
  \cup {Array(1, ws) : ws \in EmptyOrOne}
  \cup {Array(2, <<1>>)} \cup {Array(5, <<HeapSize>>)}

Init ==
  /\ ptr \in {h \in [Slots -> Blocks] : h[0] = Mirror(ObjectClass)}
  /\ used = Slots /\ marked = {} /\ vmhTop = HeapSize - 1
  /\ \E v \in StaticValues :
       fvar = [cj \in Cells |-> IF Fields[cj[1]][cj[2]].kind = "inst"
                                THEN VarOffs(cj[1], cj[2]) ELSE v]
  /\ exStack \in ExStacks /\ thStack \in ThStacks
  /\ gcpc = "idle" /\ root = 1 /\ calls = << >> /\ hand = 0
  /\ GcInit

Spec == Init /\ [][GcNext]_allVars
=============================================================================
