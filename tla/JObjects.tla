------------------------------- MODULE JObjects -------------------------------
(***************************************************************************)
(* What the heap of the virtual machine promises a Java program: objects   *)
(* that keep their identity and their fields for as long as the program    *)
(* can reach them.  There is no table, no allocator and no collector here. *)
(* An object comes into being with null fields, changes only where the     *)
(* program writes it, and may be reclaimed only once it is unreachable.    *)
(***************************************************************************)
CONSTANTS
  Ids,        \* names of objects
  Null,       \* a value that is no object
  Positions   \* where the program keeps references

VARIABLES
  alive,      \* the objects there are
  graph,      \* of each object alive, its reference fields: a function to Ids and Null
  held        \* of each position in use, the reference it holds

vars == <<alive, graph, held>>

Targets(S) == (UNION {{graph[s][f] : f \in DOMAIN graph[s]} : s \in S \cap alive}) \ {Null}
HeldIds == {held[p] : p \in DOMAIN held} \ {Null}
\* What every set with the objects held and the targets of its own has in it.
Reachable == {x \in Ids : \A S \in SUBSET Ids : HeldIds \cup Targets(S) \subseteq S => x \in S}

\* The program goes on with references it had or can reach, null, and those in new.
Holds(new) == DOMAIN held' \subseteq Positions /\ HeldIds' \subseteq new \cup Reachable

Create(s) ==
  /\ s \notin alive
  /\ alive' = alive \cup {s}
  /\ DOMAIN graph' = alive' /\ \A x \in alive : graph'[x] = graph[x]
  /\ \A f \in DOMAIN graph'[s] : graph'[s][f] = Null
  /\ Holds({s})

Write(s, f) ==
  /\ UNCHANGED <<alive, held>>
  /\ f \in DOMAIN graph[s] /\ graph' = [graph EXCEPT ![s][f] = graph'[s][f]]
  /\ {s, graph'[s][f]} \subseteq Reachable \cup {Null}

Use == UNCHANGED <<alive, graph>> /\ Holds({})

Reclaim(s) ==
  /\ alive' = alive \ {s}
  /\ graph' = [x \in alive' |-> graph[x]]
  /\ UNCHANGED held
  /\ s \notin Reachable

Init == alive = {} /\ graph = << >> /\ held = << >>
Next ==
  \/ \E s \in Ids : Create(s)
  \/ \E s \in alive : Reclaim(s) \/ \E f \in DOMAIN graph[s] : Write(s, f)
  \/ Use
Spec == Init /\ [][Next]_vars
=============================================================================
