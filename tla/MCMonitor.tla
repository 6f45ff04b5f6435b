------------------------------- MODULE MCMonitor -------------------------------
(* Two threads that wait for, notify, suspend and stop each other.         *)
EXTENDS JMonitor

CONSTANTS main, t1, o1, o2, n1, n2

\* A main thread that does everything, and one that does not suspend it.
MCPair ==
  [t \in Thread |-> IF t = main THEN {"start", "lock", "wait", "notify", "suspend", "stop"}
                               ELSE {"lock", "wait", "stop", "end"}]
\* After a second stop, or a stop of the main thread, only at the monitor of
\* one object, where nobody waits, and without suspension.
MCBound ==
  \/ stops < 2 /\ Gthread # main
  \/ /\ stopped = {} /\ free = Node
     /\ \A t \in Thread : depth[t][o2] = 0 /\ pc[t].o # o2 /\ pending[t] \subseteq {"kill"}
\* A thread that waits, and one that notifies it.
MCNotify ==
  [t \in Thread |-> IF t = main THEN {"start", "lock", "notify"} ELSE {"lock", "wait"}]
=============================================================================
