------------------------------- MODULE MCFrames -------------------------------
(* A main method with two handlers, a method with an argument, a result and *)
(* a finally block, a native method and a static initialiser.               *)
EXTENDS JFrames

CONSTANTS main, getter, native, clinit, e1, e2, gone, any

Info(locals, stack, params, length, table) ==
  [maxLocals |-> locals, maxStack |-> stack, paramsCount |-> params, codeLength |-> length,
   native |-> FALSE, returns |-> FALSE, excTable |-> table]
Try(start, end, handler, catch) == [start |-> start, end |-> end, handler |-> handler, catch |-> catch]

MCCode ==
  main :> Info(1, 2, 0, 2, <<Try(0, 1, 0, gone), Try(0, 0, 1, e1)>>) @@
  getter :> [Info(1, 1, 1, 2, <<Try(0, 1, 1, any)>>) EXCEPT !.returns = TRUE] @@
  native :> [Info(0, 0, 1, 0, << >>) EXCEPT !.native = TRUE, !.returns = TRUE] @@
  clinit :> Info(0, 0, 0, 1, << >>)

\* Three handlers, the last of which is for what is thrown.
MCLongTable ==
  main :> Info(1, 2, 0, 2, <<Try(0, 1, 0, gone), Try(0, 1, 1, e1), Try(0, 1, 1, e2)>>)
=============================================================================
