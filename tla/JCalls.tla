-------------------------------- MODULE JCalls --------------------------------
(***************************************************************************)
(* What the interpreter promises about calls: a stack of activations, each *)
(* with local variables and operands of its own.  An instruction touches   *)
(* the top activation only; a call moves its arguments from the caller's   *)
(* operands to the callee's locals; a return gives the caller back as it   *)
(* was, with the result; an exception drops activations one by one, and    *)
(* the one that catches it goes on with nothing but the exception on its   *)
(* operand stack (which one catches is not said here).  The virtual        *)
(* machine starts a call of its own (an entry) for main and for static     *)
(* initialisers: no result and no exception leaves one.                    *)
(***************************************************************************)
EXTENDS Naturals, Sequences, SequencesExt

CONSTANTS
  Method,
  Code,       \* of each method: maxLocals, excTable and what else its class file says
  None        \* no exception

VARIABLE acts

Activation(m, locals, entry) ==
  [method |-> m, pc |-> 0, locals |-> locals, operands |-> << >>, thrown |-> None, entry |-> entry]
Top == Last(acts)
Below == Front(acts)
Drop(s, n) == SubSeq(s, 1, Len(s) - n)
LastWords(s, n) == SubSeq(s, Len(s) - n + 1, Len(s))

\* The activation the next state has in place of the top one.
Becomes(a) == acts' = Append(Below, a)

Compute ==
  /\ acts # << >> /\ Top.thrown = None
  /\ acts' # << >> /\ Front(acts') = Below
  /\ Last(acts') = [Top EXCEPT !.pc = Last(acts').pc, !.locals = Last(acts').locals,
                               !.operands = Last(acts').operands]
  /\ Len(Last(acts').locals) = Len(Top.locals)
  \* at most four words of the operand stack are taken off it
  /\ \E n \in 0 .. 4 : n <= Len(Top.operands) /\ IsPrefix(Drop(Top.operands, n), Last(acts').operands)

\* The caller, less the n operands it passes.
Without(n) == [Top EXCEPT !.operands = Drop(@, n), !.pc = @ + 1]
\* The arguments become the first locals; the words after them are the callee's business.
Call ==
  /\ acts # << >> /\ Top.thrown = None
  /\ \E m \in Method :
       LET n == Code[m].paramsCount IN
       /\ ~Code[m].native /\ n <= Len(Top.operands)
       /\ acts' # << >> /\ LET locals == Last(acts').locals IN
            /\ acts' = Append(Append(Below, Without(n)), Activation(m, locals, FALSE))
            /\ Len(locals) = Code[m].maxLocals
            /\ SubSeq(locals, 1, n) = LastWords(Top.operands, n)

\* A native method takes its arguments and leaves its result, if it has one.
CallNative ==
  /\ acts # << >> /\ Top.thrown = None
  /\ \E m \in Method :
       LET n == Code[m].paramsCount IN
       /\ Code[m].native /\ n <= Len(Top.operands)
       /\ acts' # << >> /\ LET operands == Last(acts').operands IN
            /\ Becomes([Top EXCEPT !.operands = operands, !.pc = @ + 1])
            /\ IF Code[m].returns THEN operands # << >> /\ Front(operands) = Drop(Top.operands, n)
               ELSE operands = Drop(Top.operands, n)

\* A call of the virtual machine itself, in the middle of whatever goes on.
Enter ==
  /\ acts' # << >>
  /\ LET new == Last(acts') IN
     /\ acts' = Append(acts, Activation(new.method, new.locals, TRUE))
     /\ Len(new.locals) = Code[new.method].maxLocals

Return ==
  /\ acts # << >> /\ Top.thrown = None
  /\ IF Top.entry THEN acts' = Below
     ELSE LET caller == Last(Below) IN
       \/ ~Code[Top.method].returns /\ acts' = Below
       \/ /\ Code[Top.method].returns /\ Top.operands # << >>
          /\ acts' = [Below EXCEPT ![Len(Below)].operands = Append(@, Last(Top.operands))]

Throw ==
  /\ acts # << >> /\ Top.thrown = None /\ Top.operands # << >>
  /\ Becomes([Top EXCEPT !.thrown = Last(Top.operands)])

Unwind ==
  /\ acts # << >> /\ Top.thrown # None /\ ~Top.entry
  /\ acts' = [Below EXCEPT ![Len(Below)].thrown = Top.thrown]

\* The top activation with handler h to run next.
AtHandler(h) == [Top EXCEPT !.thrown = None, !.pc = h.handler, !.operands = <<Top.thrown>>]
Catch ==
  /\ acts # << >> /\ Top.thrown # None
  /\ \E h \in ToSet(Code[Top.method].excTable) :
       /\ <<"value", h.catch>> = Top.thrown
       /\ Becomes(AtHandler(h))

\* The end of the program, and of the machine if it fails.
Stop == acts' = << >>

Init == acts = << >>
Next == Compute \/ Call \/ CallNative \/ Enter \/ Return \/ Throw \/ Unwind \/ Catch \/ Stop
Spec == Init /\ [][Next]_acts
=============================================================================
