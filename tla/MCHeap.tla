-------------------------------- MODULE MCHeap --------------------------------
(* The whole heap on a table of a few slots, with programs made of a few   *)
(* kinds of instruction.                                                   *)
EXTENDS JHeap

CONSTANTS ObjectClass, MainClass, Node

F(kind, ref) == [kind |-> kind, ref |-> ref]
\* The main class has a static field, Node and String an instance one.
MCFields ==
  [c \in Classes |-> (IF c = Node THEN <<F("inst", TRUE)>> ELSE << >>)
                    \o (IF c = MainClass THEN <<F("static", TRUE)>> ELSE << >>)]
NoSupers == [c \in Classes |-> {}]
\* The second field Node inherits lies behind a Node.
MCInherited ==
  [c \in Classes |-> CASE c = Node -> <<F("inst", TRUE)>>
                       [] c = MainClass -> <<F("const", FALSE), F("inst", FALSE)>>
                       [] OTHER -> << >>]
MCSupers == [c \in Classes |-> IF c = Node THEN {MainClass} ELSE {}]
MCBoot == <<ObjectClass, MainClass>>
NoArrays == {}
OneArrays == {Array(1, <<0>>), Array(5, <<HeapSize>>)}
=============================================================================
