------------------------------- MODULE JMonitor -------------------------------
(***************************************************************************)
(* The threads of the obsolete machine: one POSIX thread for each Java     *)
(* thread, a recursive mutex for each object, and signals.  monitorenter   *)
(* and monitorexit keep a private list of locks beside the mutex; wait     *)
(* releases the mutex, queues the thread at the object and pauses until a  *)
(* signal comes; notify signals the threads of the queue; stop makes the   *)
(* signal handler of the thread release its locks.                         *)
(*                                                                         *)
(* A step is a call of the pthread library or one access to what threads   *)
(* share.  A node of a wait queue is memory that is freed and handed out   *)
(* again; its contents stay until then, but the C library may also have    *)
(* overwritten them, after which anything may happen (wild).               *)
(***************************************************************************)
EXTENDS Integers, Sequences, FiniteSets, SequencesExt

CONSTANTS
  Thread, Main, Obj,
  Node,       \* memory for JIMP_wait_queue
  None,
  Program,    \* of each thread, the kinds of call its Java code makes
  MaxDepth,   \* bound: monitors a thread is in at a time, counted with repetition
  MaxStops    \* bound: calls of stop

\* What a thread can be doing.
Doing == {"new", "ready", "run", "enter", "own", "exit", "append", "release", "mark", "pause",
          "find", "unlink", "restore", "restored", "notify", "advance", "free", "kill", "dead"}

ASSUME MonitorAssumption ==
  /\ Main \in Thread /\ None \notin Thread \cup Obj \cup Node \cup Doing /\ Obj \cap Node = {}
  /\ IsFiniteSet(Obj) /\ IsFiniteSet(Node)
  /\ MaxDepth \in Nat /\ MaxStops \in Nat

VARIABLES
  pc,         \* of each thread: what it does, the object, a place in the queue of the object
  locks,      \* of each thread, its list of obj_ref and n_times_locked
  owner, count,   \* of each object, o_lock
  towner,     \* of each object, who is said to be its owner
  next, th,   \* the wait queues: an object, then its nodes
  free,       \* nodes that are not allocated
  pending,    \* signals on their way to a thread
  stopped,    \* threads in the pause() of their signal handler
  Gthread, freed, stops,   \* the thread to stop, the JIMP_thread_s that are freed, how many
  wild,
  depth,      \* how often the Java code of a thread is in the monitor of an object
  raced,      \* whether two threads were at work on one wait queue at once
  killedAt    \* what a thread did when it was stopped

lockVars == <<locks, owner, count, towner, depth>>
queueVars == <<next, th, free, raced>>
signalVars == <<pending, stopped>>
stopVars == <<Gthread, freed, stops, killedAt>>
monitorVars == <<pc, lockVars, queueVars, signalVars, stopVars, wild>>

At(t, at) == pc[t].at = at /\ t \notin stopped /\ ~wild
Does(t, kind) == At(t, "run") /\ kind \in Program[t]
Pc(at, o, place) == [at |-> at, o |-> o, place |-> place]
Goto(t, at) == pc' = [pc EXCEPT ![t] = Pc(at, @.o, @.place)]
Lock(o, n) == [obj |-> o, n |-> n]
Inside(t, o) == depth[t][o] > 0
Index(list, o) == SelectInSeq(list, LAMBDA l : l.obj = o)
\* How often a list has an object.
Times(list, o) == IF Index(list, o) = 0 THEN 0 ELSE list[Index(list, o)].n

---------------------------------------------------------------------------
(* monitorenter: the list, the mutex, the owner. *)

WithLock(list, o) ==
  LET i == Index(list, o) IN
  IF i = 0 THEN Append(list, Lock(o, 1)) ELSE [list EXCEPT ![i] = Lock(o, list[i].n + 1)]
AddLock(t, o) ==
  /\ Does(t, "lock")
  /\ FoldFunction(+, 0, depth[t]) < MaxDepth
  /\ locks' = [locks EXCEPT ![t] = WithLock(@, o)]
  /\ pc' = [pc EXCEPT ![t] = Pc("enter", o, None)]
  /\ UNCHANGED <<owner, count, towner, depth, queueVars, signalVars, stopVars, wild>>

MutexFree(t, o) == owner[o] \in {None, t}
Acquire(t, o, times) ==
  /\ MutexFree(t, o)
  /\ owner' = [owner EXCEPT ![o] = t] /\ count' = [count EXCEPT ![o] = @ + times]
MutexLock(t) ==
  /\ At(t, "enter") /\ Acquire(t, pc[t].o, 1) /\ Goto(t, "own")
  /\ UNCHANGED <<locks, towner, depth, queueVars, signalVars, stopVars, wild>>

SetOwner(t) ==
  /\ At(t, "own") /\ Goto(t, "run")
  /\ towner' = [towner EXCEPT ![pc[t].o] = t]
  /\ depth' = [depth EXCEPT ![t][pc[t].o] = @ + 1]
  /\ UNCHANGED <<locks, owner, count, queueVars, signalVars, stopVars, wild>>

(* monitorexit: the list and the owner, then the mutex. *)

WithoutLockKept(list, o) ==     \* mutant: a lock that is left stays in the list
  LET i == Index(list, o) IN
  IF i = 0 THEN list ELSE [list EXCEPT ![i] = Lock(o, list[i].n - 1)]
\* A lock that the handler of another thread has removed is not found.
WithoutLock(list, o) ==
  LET i == Index(list, o) IN
  IF i = 0 THEN list
  ELSE IF list[i].n > 1 THEN [list EXCEPT ![i] = Lock(o, list[i].n - 1)] ELSE RemoveAt(list, i)
RemoveLock(t, o) ==
  /\ Does(t, "lock") /\ Inside(t, o)
  /\ locks' = [locks EXCEPT ![t] = WithoutLock(@, o)]
  /\ towner' = IF Times(locks[t], o) = 1 THEN [towner EXCEPT ![o] = None] ELSE towner
  /\ pc' = [pc EXCEPT ![t] = Pc("exit", o, None)]
  /\ depth' = [depth EXCEPT ![t][o] = @ - 1]
  /\ UNCHANGED <<owner, count, queueVars, signalVars, stopVars, wild>>

\* pthread_mutex_unlock, so many times; it refuses a thread that is not the owner.
Unlock(t, o, times) ==
  IF owner[o] # t THEN UNCHANGED <<owner, count>>
  ELSE LET left == IF times < count[o] THEN count[o] - times ELSE 0 IN
       /\ count' = [count EXCEPT ![o] = left]
       /\ owner' = [owner EXCEPT ![o] = IF left = 0 THEN None ELSE t]
MutexUnlock(t) ==
  /\ At(t, "exit") /\ Unlock(t, pc[t].o, 1) /\ Goto(t, "run")
  /\ UNCHANGED <<locks, towner, depth, queueVars, signalVars, stopVars, wild>>

---------------------------------------------------------------------------
(* wait. *)

\* The queue of o: the object itself, then its nodes.
Queue(o) ==
  LET q[i \in 0 .. Cardinality(Node)] ==
        IF i = 0 THEN <<o>> ELSE LET q1 == q[i - 1] IN
        IF next[Last(q1)] = None THEN q1 ELSE Append(q1, next[Last(q1)])
  IN  q[Cardinality(Node)]
\* Somebody else is between looking for a place in the queue of o and changing it there.
Disturbed(t, o) == \E u \in Thread \ {t} : pc[u].o = o /\ pc[u].at \in {"append", "unlink"}
Race(happens) == raced' = (raced \/ happens)

\* The thread is found as the owner of the object.
Wait(t, o) ==
  /\ Does(t, "wait") /\ Inside(t, o)
  /\ IF towner[o] = t
     THEN pc' = [pc EXCEPT ![t] = Pc("append", o, Last(Queue(o)))] /\ UNCHANGED wild
     ELSE wild' = TRUE /\ UNCHANGED pc
  /\ Race(Disturbed(t, o))
  /\ UNCHANGED <<lockVars, next, th, free, signalVars, stopVars>>

AppendNodeFirst(t) ==     \* mutant: the new node takes the place of the queue
  /\ At(t, "append")
  /\ IF free = {}
     THEN Goto(t, "run") /\ UNCHANGED queueVars
     ELSE \E n \in free :
            /\ free' = free \ {n} /\ th' = [th EXCEPT ![n] = t]
            /\ next' = [next EXCEPT ![n] = None, ![pc[t].o] = n]
            /\ Goto(t, "release") /\ UNCHANGED raced
  /\ UNCHANGED <<lockVars, signalVars, stopVars, wild>>
\* Without memory for a node wait returns at once.
AppendNode(t) ==
  /\ At(t, "append")
  /\ IF free = {}
     THEN Goto(t, "run") /\ UNCHANGED queueVars
     ELSE \E n \in free :
            /\ free' = free \ {n}
            /\ next' = [next EXCEPT ![n] = None, ![pc[t].place] = n]
            /\ th' = [th EXCEPT ![n] = t]
            /\ Goto(t, "release") /\ UNCHANGED raced
  /\ UNCHANGED <<lockVars, signalVars, stopVars, wild>>

\* The loop over the list looks at its first lock only: if that is of another
\* object it goes round for ever.  Without locks wait returns.
FirstLock(t) == locks[t] # << >> /\ locks[t][1].obj = pc[t].o
Hangs(t) == locks[t] # << >> /\ locks[t][1].obj # pc[t].o
NoLocks(t) == locks[t] = << >> /\ Goto(t, "run") /\ UNCHANGED <<owner, count>>
Release(t) ==
  /\ At(t, "release")
  /\ \/ NoLocks(t)
     \/ FirstLock(t) /\ Unlock(t, pc[t].o, locks[t][1].n) /\ Goto(t, "mark")
  /\ UNCHANGED <<locks, towner, depth, queueVars, signalVars, stopVars, wild>>

Negate(list) == [list EXCEPT ![1] = Lock(list[1].obj, -list[1].n)]
\* The number of the lock that was found is negated; another thread's handler
\* may have freed it, and the memory may have another use by now.
Negated(t) ==
  \/ FirstLock(t) /\ locks' = [locks EXCEPT ![t] = Negate(@)] /\ UNCHANGED wild
  \/ ~FirstLock(t) /\ UNCHANGED locks /\ wild' \in BOOLEAN

MarkReleasedZero(t) ==     \* mutant: how often the mutex was locked is forgotten
  /\ At(t, "mark") /\ FirstLock(t) /\ Goto(t, "pause")
  /\ locks' = [locks EXCEPT ![t][1] = Lock(@.obj, 0)]
  /\ UNCHANGED <<owner, count, towner, depth, queueVars, signalVars, stopVars, wild>>
MarkReleased(t) ==
  /\ At(t, "mark") /\ Goto(t, "pause") /\ Negated(t)
  /\ UNCHANGED <<owner, count, towner, depth, queueVars, signalVars, stopVars>>

\* Back from pause(): the node before the one of this thread, if it is there.
FindNode(t) ==
  /\ At(t, "find")
  /\ LET q == Queue(pc[t].o)
         i == SelectInSeq(q, LAMBDA n : n \in Node /\ th[n] = t) IN
     \/ i = 0 /\ Goto(t, "restore")
     \/ i # 0 /\ pc' = [pc EXCEPT ![t] = Pc("unlink", @.o, <<q[i - 1], q[i]>>)]
  /\ Race(Disturbed(t, pc[t].o))
  /\ UNCHANGED <<lockVars, next, th, free, signalVars, stopVars, wild>>

\* Unlinked and freed, maybe under the hands of a notify.
Unlink(t) ==
  /\ At(t, "unlink")
  /\ LET p == pc[t].place[1]
         n == pc[t].place[2] IN
     /\ next' = [next EXCEPT ![p] = next[n]]
     /\ free' = free \cup {n}
     /\ Race(\E u \in Thread : pc[u].at \in {"notify", "advance"} /\ pc[u].place = n)
  /\ pc' = [pc EXCEPT ![t] = Pc("restore", @.o, None)]
  /\ UNCHANGED <<lockVars, th, signalVars, stopVars, wild>>

RestoreOnce(t) ==     \* mutant: the mutex is locked once, however often it was
  /\ At(t, "restore") /\ FirstLock(t)
  /\ Acquire(t, pc[t].o, 1) /\ Goto(t, "restored")
  /\ UNCHANGED <<locks, towner, depth, queueVars, signalVars, stopVars, wild>>
Restore(t) ==
  /\ At(t, "restore")
  /\ \/ NoLocks(t)
     \/ FirstLock(t) /\ Acquire(t, pc[t].o, -locks[t][1].n) /\ Goto(t, "restored")
  /\ UNCHANGED <<locks, towner, depth, queueVars, signalVars, stopVars, wild>>

MarkRestoredUnowned(t) ==     \* mutant: the owner stays the one before
  /\ At(t, "restored") /\ Goto(t, "run") /\ Negated(t)
  /\ UNCHANGED <<owner, count, towner, depth, queueVars, signalVars, stopVars>>
MarkRestored(t) ==
  /\ At(t, "restored") /\ Goto(t, "run") /\ Negated(t)
  /\ towner' = [towner EXCEPT ![pc[t].o] = t]
  /\ UNCHANGED <<owner, count, depth, queueVars, signalVars, stopVars>>

---------------------------------------------------------------------------
(* notify and notifyAll: every thread of the queue. *)

Notify(t, o) ==
  /\ Does(t, "notify") /\ Inside(t, o)
  /\ pc' = [pc EXCEPT ![t] = Pc("notify", o, next[o])]
  /\ UNCHANGED <<lockVars, queueVars, signalVars, stopVars, wild>>

Alive(t) == pc[t].at \notin {"new", "ready", "kill", "dead"}
Send(t, sig) == pending' = [pending EXCEPT ![t] = IF Alive(t) THEN @ \cup {sig} ELSE @]
ReadsNode(n) == wild' \in {FALSE, (n \in free)}

NotifyNode(t) ==
  /\ At(t, "notify")
  /\ IF pc[t].place = None
     THEN Goto(t, "run") /\ UNCHANGED <<pending, wild>>
     ELSE ReadsNode(pc[t].place) /\ Send(th[pc[t].place], "cont") /\ Goto(t, "advance")
  /\ UNCHANGED <<lockVars, queueVars, stopped, stopVars>>

Advance(t) ==
  /\ At(t, "advance")
  /\ ReadsNode(pc[t].place)
  /\ pc' = [pc EXCEPT ![t] = Pc("notify", @.o, next[@.place])]
  /\ UNCHANGED <<lockVars, queueVars, signalVars, stopVars>>

---------------------------------------------------------------------------
(* Threads. *)

\* Thread.start: the thread waits for its s_mutex, which init has locked.
Start(t, u) ==
  /\ Does(t, "start") /\ pc[u].at = "new" /\ Goto(u, "ready")
  /\ UNCHANGED <<lockVars, queueVars, signalVars, stopVars, wild>>
Exec(t) ==
  /\ At(t, "ready") /\ Goto(t, "run")
  /\ UNCHANGED <<lockVars, queueVars, signalVars, stopVars, wild>>
\* run() returns, outside of all monitors.
Ends(t) ==
  /\ Does(t, "end") /\ \A o \in Obj : ~Inside(t, o)
  /\ Goto(t, "dead") /\ freed' = freed \cup {t}
  /\ UNCHANGED <<lockVars, queueVars, signalVars, Gthread, stops, killedAt, wild>>

Suspend(t, u) ==
  /\ Does(t, "suspend") /\ u # t /\ Alive(u) /\ Send(u, "stop")
  /\ UNCHANGED <<pc, lockVars, queueVars, stopped, stopVars, wild>>
Resume(t, u) ==
  /\ Does(t, "suspend") /\ u # t /\ Alive(u) /\ Send(u, "cont")
  /\ UNCHANGED <<pc, lockVars, queueVars, stopped, stopVars, wild>>

Stop(t, u) ==
  /\ Does(t, "stop") /\ u # t /\ Alive(u) /\ stops < MaxStops
  /\ Gthread' = u /\ Send(u, "kill") /\ stops' = stops + 1
  /\ pc' = [pc EXCEPT ![t] = Pc("free", None, u)]
  /\ UNCHANGED <<lockVars, queueVars, stopped, freed, killedAt, wild>>
FreeThread(t) ==
  /\ At(t, "free") /\ Goto(t, "run")
  /\ freed' = freed \cup {pc[t].place}
  /\ UNCHANGED <<lockVars, queueVars, signalVars, Gthread, stops, killedAt, wild>>

\* Until its signal comes a stopped thread uses its own structure, and others
\* that call a method of it do: the memory may have another use by now.
UseFreed(t) ==
  /\ t \in freed /\ Alive(t) /\ ~wild /\ wild' = TRUE
  /\ UNCHANGED <<pc, lockVars, queueVars, signalVars, stopVars>>

---------------------------------------------------------------------------
(* The signal handler. *)

\* pause() returns when a handler has: the one of wait, or that of the stop signal.
Woken(t) == Goto(t, IF pc[t].at = "pause" THEN "find" ELSE pc[t].at)
Delivered(t, sig) == ~wild /\ sig \in pending[t] /\ pending' = [pending EXCEPT ![t] = @ \ {sig}]

HandleStop(t) ==
  /\ Delivered(t, "stop") /\ Alive(t) /\ t \notin stopped
  /\ stopped' = stopped \cup {t} /\ Woken(t)
  /\ UNCHANGED <<lockVars, queueVars, stopVars, wild>>
HandleCont(t) ==
  /\ Delivered(t, "cont") /\ Alive(t)
  /\ stopped' = stopped \ {t} /\ Woken(t)
  /\ UNCHANGED <<lockVars, queueVars, stopVars, wild>>
HandleKill(t) ==
  /\ Delivered(t, "kill") /\ Alive(t)
  /\ stopped' = stopped \ {t}
  /\ pc' = [pc EXCEPT ![t] = Pc("kill", None, Gthread)]
  /\ killedAt' = [killedAt EXCEPT ![t] = pc[t].at]
  /\ UNCHANGED <<lockVars, queueVars, Gthread, freed, stops, wild>>

KillStepOnce(t) ==     \* mutant: every mutex is unlocked once
  /\ At(t, "kill")
  /\ LET u == pc[t].place IN
     \/ locks[u] = << >> /\ Goto(t, "dead") /\ UNCHANGED <<lockVars, wild>>
     \/ /\ locks[u] # << >>
        /\ locks' = [locks EXCEPT ![u] = Tail(@)]
        /\ towner' = [towner EXCEPT ![locks[u][1].obj] = None]
        /\ Unlock(t, locks[u][1].obj, 1) /\ UNCHANGED <<pc, depth, wild>>
  /\ UNCHANGED <<queueVars, signalVars, stopVars>>
\* remove_all_locks, of the thread that Gthread named, a lock at a time.  A lock
\* that is marked as released is not unlocked the first time.
KillStep(t) ==
  /\ At(t, "kill")
  /\ LET u == pc[t].place IN
     \/ u \in freed /\ wild' = TRUE /\ UNCHANGED <<pc, lockVars>>
     \/ /\ locks[u] = << >> /\ Goto(t, "dead") /\ UNCHANGED <<lockVars, wild>>
     \/ /\ locks[u] # << >>
        /\ LET l == locks[u][1] IN
           /\ locks' = [locks EXCEPT ![u] = Tail(@)]
           /\ towner' = [towner EXCEPT ![l.obj] = None]
           /\ Unlock(t, l.obj, IF l.n < 0 THEN -l.n - 1 ELSE l.n)
        /\ UNCHANGED <<pc, depth, wild>>
  /\ UNCHANGED <<queueVars, signalVars, stopVars>>

---------------------------------------------------------------------------
MonitorInit ==
  /\ pc = [t \in Thread |-> Pc(IF t = Main THEN "run" ELSE "new", None, None)]
  /\ locks = [t \in Thread |-> << >>]
  /\ owner = [o \in Obj |-> None] /\ count = [o \in Obj |-> 0] /\ towner = [o \in Obj |-> None]
  /\ next = [x \in Obj \cup Node |-> None] /\ th = [n \in Node |-> None] /\ free = Node
  /\ pending = [t \in Thread |-> {}] /\ stopped = {}
  /\ Gthread = None /\ freed = {} /\ stops = 0 /\ wild = FALSE
  /\ depth = [t \in Thread |-> [o \in Obj |-> 0]]
  /\ raced = FALSE /\ killedAt = [t \in Thread |-> None]

Continue(t) ==     \* what a thread does on its own
  \/ MutexLock(t) \/ SetOwner(t) \/ MutexUnlock(t)
  \/ AppendNode(t) \/ Release(t) \/ MarkReleased(t) \/ FindNode(t) \/ Unlink(t)
  \/ Restore(t) \/ MarkRestored(t) \/ NotifyNode(t) \/ Advance(t) \/ Exec(t) \/ FreeThread(t)
Handler(t) == HandleStop(t) \/ HandleCont(t) \/ HandleKill(t) \/ KillStep(t)
JavaCode(t) ==
  \/ \E o \in Obj : AddLock(t, o) \/ RemoveLock(t, o) \/ Wait(t, o) \/ Notify(t, o)
  \/ \E u \in Thread : Start(t, u) \/ Suspend(t, u) \/ Resume(t, u) \/ Stop(t, u)
  \/ Ends(t)

MonitorNext == \E t \in Thread : Continue(t) \/ Handler(t) \/ JavaCode(t) \/ UseFreed(t)
MonitorSpec == MonitorInit /\ [][MonitorNext]_monitorVars
MonitorFairSpec ==
  MonitorSpec /\ \A t \in Thread : WF_monitorVars(Continue(t)) /\ WF_monitorVars(Handler(t))

---------------------------------------------------------------------------
(* The types of the machine's state: a lock of a list is held once or more *)
(* or is marked as released, and a mutex that nobody holds counts nothing. *)
MonitorTypeOK ==
  /\ pc = [t \in Thread |-> Pc(pc[t].at, pc[t].o, pc[t].place)]
  /\ \A t \in Thread : pc[t].at \in Doing /\ pc[t].o \in Obj \cup {None}
  /\ locks \in [Thread -> Seq([obj : Obj, n : Int \ {0}])] /\ depth \in [Thread -> [Obj -> Nat]]
  /\ owner \in [Obj -> Thread \cup {None}] /\ towner \in [Obj -> Thread \cup {None}]
  /\ count \in [Obj -> Nat] /\ \A o \in Obj : count[o] = 0 <=> owner[o] = None
  /\ next \in [Obj \cup Node -> Node \cup {None}] /\ free \subseteq Node
  /\ pending \in [Thread -> SUBSET {"stop", "cont", "kill"}] /\ stopped \subseteq Thread
  /\ killedAt \in [Thread -> Doing \cup {None}] /\ Gthread \in Thread \cup {None} /\ stops \in 0 .. MaxStops

\* How often a thread has locked a mutex.
Held(t, o) == IF owner[o] = t THEN count[o] ELSE 0

\* Gthread is one variable for all threads.  When two are stopped before the
\* handler of the first has run, that handler releases the locks of the second:
\* the first is misled, the second robbed.
Misled(t) == killedAt[t] # None /\ pc[t].place # t
Robbed(t) == \E u \in Thread \ {t} : killedAt[u] # None /\ pc[u].place = t

(* Whatever other threads do, stop one included, the Java code of a thread *)
(* is in the monitors it entered and did not leave, as often as it entered *)
(* them, also after a wait: the list and the mutex agree with it, unless   *)
(* the handler of another stopped thread has taken its locks.              *)
HoldsWhatItEntered ==
  \A t \in Thread : pc[t].at = "run" /\ ~Robbed(t) =>
    \A o \in Obj : depth[t][o] = Times(locks[t], o) /\ depth[t][o] = Held(t, o)

(* wait finds the calling thread as the owner of the object, as long as no *)
(* thread has been stopped: the handler of a stopped thread that was still *)
(* waiting for a monitor takes the ownership of whoever is in it.          *)
OwnerKnown ==
  stops = 0 => \A t \in Thread, o \in Obj : pc[t].at = "run" /\ Inside(t, o) => towner[o] = t

(* A thread that pauses in wait holds no part of the monitor, however      *)
(* often it had entered it, and is in the queue of the object, where a     *)
(* notify finds it, unless two threads were at work on a queue at once or  *)
(* the handler of another stopped thread has taken its locks.              *)
Queued(t, o) == t \in {th[n] : n \in ToSet(Queue(o)) \cap Node}
PausedQueued ==
  \A t \in Thread : pc[t].at = "pause" /\ ~Robbed(t) =>
    owner[pc[t].o] # t /\ (Queued(t, pc[t].o) \/ raced)

(* The loops that release and restore the locks of a wait go round for     *)
(* ever only if the thread is in the monitor of another object too.        *)
OnlyNestedWaitsHang ==
  \A t \in Thread :
    pc[t].at \in {"release", "restore"} /\ Hangs(t) => \E o \in Obj \ {pc[t].o} : Inside(t, o)

(* A stopped thread leaves no monitor locked behind it, unless the signal  *)
(* came in the middle of a monitorexit or at the end of a wait, or another *)
(* stop came before its handler had run.                                   *)
StoppedLeaves ==
  \A t \in Thread, o \in Obj :
    pc[t].at = "dead" /\ owner[o] = t =>
      killedAt[t] \in {"exit", "restored"} \/ Misled(t) \/ Robbed(t)

(* A notify wakes every thread that waits for the object, one that has     *)
(* released the monitor and has not paused yet included.                   *)
Waits(t, o) == pc[t].o = o /\ pc[t].at \in {"mark", "pause"} /\ Queued(t, o)
Notifies(u, o) == pc[u].at = "notify" /\ pc[u].o = o /\ pc[u].place = next[o]
NotifyWakes ==
  \A t, u \in Thread, o \in Obj :
    Waits(t, o) /\ Notifies(u, o) ~> pc[t].at \notin {"mark", "pause"} \/ wild
=============================================================================
