----------------------------- MODULE JArrayValues -----------------------------
(***************************************************************************)
(* What arrays of numbers promise a Java program, without blocks of        *)
(* memory, sizes or bytes.  A char is 0 or more, all other numbers have a  *)
(* sign.  An access that the Java language makes throw ends the process.   *)
(* The promise is for lengths from 0 to MaxLength and for copies that      *)
(* start at 0 or later and have no negative length.  About an array that   *)
(* was asked for with another length, and about other copies, little is    *)
(* said: they may break memory.                                            *)
(***************************************************************************)
EXTENDS Integers, Sequences

CONSTANTS
  Ref, Null,
  MaxLength,   \* of each type, the longest array
  Width,       \* of each type, how many values it has
  Ops, Idle    \* the instructions of the program, and no instruction

VARIABLES
  op,          \* the instruction that is executed
  types,       \* of each array, its type
  values,      \* of each array whose length is as promised, its elements
  result,      \* of the instruction
  process      \* runs, over or corrupt

valueVars == <<op, types, values, result, process>>

Extended(f, a, v) == [x \in DOMAIN f \cup {a} |-> IF x = a THEN v ELSE f[x]]
\* The value of type t that is v modulo the number of values of t.
Signed(t, v) == ((v + Width[t] \div 2) % Width[t]) - Width[t] \div 2
Narrow(t, v) == IF t = "char" THEN v % Width[t] ELSE Signed(t, v)
Inside(a, i) == i \in 0 .. Len(values[a]) - 1

Create ==
  /\ op.do = "create" /\ UNCHANGED result
  /\ \E a \in Ref \ DOMAIN types :
       /\ types' = Extended(types, a, op.type)
       /\ values' = IF op.n \in 0 .. MaxLength[op.type]
                    THEN Extended(values, a, [i \in 1 .. op.n |-> 0]) ELSE values
Get ==
  /\ op.do = "load" /\ op.a \in DOMAIN values /\ Inside(op.a, op.i)
  /\ result' = values[op.a][op.i + 1] /\ UNCHANGED <<types, values>>
Put ==
  /\ op.do = "store" /\ op.a \in DOMAIN values /\ Inside(op.a, op.i)
  /\ values' = [values EXCEPT ![op.a][op.i + 1] = Narrow(types[op.a], op.v)] /\ UNCHANGED <<types, result>>
Length ==
  /\ op.do = "length" /\ op.a \in DOMAIN values
  /\ result' = Len(values[op.a]) /\ UNCHANGED <<types, values>>

\* The elements of array a from b on, n of them.
Part(a, b, n) == b >= 0 /\ n >= 1 /\ b + n <= Len(values[a])
Onto(s, bs, d, bd, n) == s = d /\ bs + n > bd /\ bd + n > bs
SameOthers ==
  /\ DOMAIN values' = DOMAIN values
  /\ \A a \in DOMAIN values : DOMAIN values'[a] = DOMAIN values[a] /\ (a # op.d => values'[a] = values[a])
OddCopy == op.bs < 0 \/ op.bd < 0 \/ op.n < 0 \/ ~({op.s, op.d} \subseteq DOMAIN values)
\* A copy is made or refused; a part that is copied onto itself ends up as anything.
Copy ==
  /\ op.do = "copy" /\ Null \notin {op.s, op.d} /\ UNCHANGED types
  /\ IF OddCopy THEN result' \in {0, 1} /\ SameOthers
     ELSE IF types[op.s] = types[op.d] /\ Part(op.s, op.bs, op.n) /\ Part(op.d, op.bd, op.n)
     THEN /\ result' = 1 /\ SameOthers
          /\ \A i \in DOMAIN values[op.d] :
               IF i \notin op.bd + 1 .. op.bd + op.n THEN values'[op.d][i] = values[op.d][i]
               ELSE Onto(op.s, op.bs, op.d, op.bd, op.n) \/ values'[op.d][i] = values[op.s][i - op.bd + op.bs]
     ELSE result' = 0 /\ UNCHANGED values

\* The process ends: memory has run out, a reference is null, an index is out of bounds.
Over ==
  /\ process' = "over" /\ UNCHANGED <<types, values, result>>
  /\ CASE op.do = "create" -> TRUE
       [] op.do = "copy" -> Null \in {op.s, op.d}
       [] op.do = "length" -> op.a = Null
       [] OTHER -> op.a \in DOMAIN values => ~Inside(op.a, op.i)
\* An access to an array that is not as promised reads anything.
Odd ==
  /\ op.do \in {"load", "store", "length"} /\ op.a \in DOMAIN types \ DOMAIN values
  /\ UNCHANGED <<types, values>>
Break ==
  /\ process' = "corrupt" /\ UNCHANGED <<types, values, result>>
  /\ CASE op.do = "create" -> op.n \notin 0 .. MaxLength[op.type]
       [] op.do = "copy" -> OddCopy
       [] OTHER -> op.a \notin DOMAIN values

Fetch ==
  /\ op = Idle /\ op' \in Ops /\ result' = 0
  /\ UNCHANGED <<types, values, process>>
Execute ==
  /\ op # Idle /\ op' = Idle
  /\ \/ UNCHANGED process /\ (Create \/ Get \/ Put \/ Length \/ Copy \/ Odd)
     \/ Over \/ Break

ValuesInit == op = Idle /\ types = << >> /\ values = << >> /\ result = 0 /\ process = "runs"
ValuesSpec == ValuesInit /\ [][process = "runs" /\ (Fetch \/ Execute)]_valueVars
=============================================================================
