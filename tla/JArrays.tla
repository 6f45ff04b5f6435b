-------------------------------- MODULE JArrays --------------------------------
(***************************************************************************)
(* Arrays as blocks of memory: their sizes, the checks of the array        *)
(* instructions and of copyArray, and the bytes these read and write.      *)
(* Sizes, lengths and starts are 32-bit words that wrap around; the model  *)
(* has a smaller word and smaller bytes, which keep the proportions of a   *)
(* header of three J_Vars and of elements of 1, 2, 4 and 8 bytes.          *)
(***************************************************************************)
EXTENDS Integers, Sequences, SequencesExt, Functions

CONSTANTS
  Ref, Null,
  VarSize,     \* sizeof(J_Var): 4, or 8 where pointers have 64 bits
  Word,        \* how many values a 32-bit word has
  Byte,        \* how many values a byte has
  Types,       \* types of arrays
  Lengths, Indices, Stored, Starts, Counts,   \* the numbers the program uses
  Idle         \* no instruction

ASSUME ArraysAssumption ==
  /\ Null \notin Ref /\ VarSize \in {4, 8}
  /\ Word \in Nat \ {0} /\ Byte \in Nat \ {0} /\ Byte % 2 = 0
  /\ Types \subseteq {"boolean", "byte", "char", "short", "float", "int", "object", "array", "double", "long"}
  /\ \A n \in Lengths \cup Starts \cup Counts : n \in Int /\ 2 * n >= -Word /\ 2 * n < Word
  /\ Indices \cup Stored \subseteq Int

VARIABLES
  op,          \* the instruction that is executed, with its operands
  arrays,      \* of each array: type, len, and the bytes after its header
  result,      \* what the last access left on the operand stack
  process      \* runs, over or corrupt: memory that is not the array's was touched

arrayVars == <<op, arrays, result, process>>

ToUint(n) == n % Word

---------------------------------------------------------------------------
(* Creating an array. *)

Header == 3 * VarSize
arrayTypeSize(t) ==
  CASE t \in {"boolean", "byte"} -> 1
    [] t \in {"char", "short"} -> 2
    [] t \in {"float", "int", "object", "array"} -> 4
    [] t \in {"double", "long"} -> 8

arraySizeDown(t, n) ==     \* mutant: rounded down to words
  LET size == ToUint(Header + arrayTypeSize(t) * n) IN size - (size % 4)
arraySize(t, n) ==
  LET size == ToUint(Header + arrayTypeSize(t) * n + 3) IN size - (size % 4)

\* allocateObject takes a size below that of a J_Var for an object, and there is no class.
createArray ==
  /\ op.do = "create" /\ Ref # DOMAIN arrays
  /\ LET size == arraySize(op.type, op.n) IN
     \/ process' = "over" /\ UNCHANGED arrays
     \/ size \in VarSize .. Header - 1 /\ process' = "corrupt" /\ UNCHANGED arrays
     \/ /\ size >= Header /\ UNCHANGED process
        /\ \E a \in Ref \ DOMAIN arrays :
             arrays' = [x \in DOMAIN arrays \cup {a} |->
               IF x # a THEN arrays[x]
               ELSE [type |-> op.type, len |-> op.n, bytes |-> [k \in 1 .. size - Header |-> 0]]]
  /\ UNCHANGED result

---------------------------------------------------------------------------
(* The array instructions.  long and double have none. *)

\* The bytes from offset o on hold a number, lowest byte first.
Power[k \in 0 .. 8] == IF k = 0 THEN 1 ELSE LET below == Power[k - 1] IN Byte * below
Decode(bytes, o, size) ==
  LET n[k \in 0 .. size] == IF k = 0 THEN 0 ELSE LET low == n[k - 1] IN low + bytes[o + k] * Power[k - 1]
      all == Power[size]
  IN  ((n[size] + all \div 2) % all) - all \div 2
Encode(bytes, o, size, v) ==
  [k \in DOMAIN bytes |-> IF k - o \in 1 .. size THEN (v \div Power[k - o - 1]) % Byte ELSE bytes[k]]

\* How far apart the elements are for the instruction that goes with the type.
Stride(t) == CASE t \in {"boolean", "byte"} -> 1 [] t \in {"char", "short"} -> 2 [] OTHER -> VarSize
InBlock(a, o, size) == o >= 0 /\ o + size <= Len(arrays[a].bytes)
OutOfBoundsPastEnd(a, i) == i < 0 \/ i > arrays[a].len    \* mutant
OutOfBounds(a, i) == i < 0 \/ i >= arrays[a].len
\* GENERATE_EXCEPTION is a fatal error.
Exception == process' = "over" /\ UNCHANGED <<arrays, result>>
Corrupt == process' = "corrupt" /\ UNCHANGED <<arrays, result>>

Load ==
  /\ op.do = "load"
  /\ IF op.a = Null THEN Exception
     ELSE LET size == arrayTypeSize(arrays[op.a].type)
              o == op.i * Stride(arrays[op.a].type) IN
          IF OutOfBounds(op.a, op.i) THEN Exception
          ELSE IF ~InBlock(op.a, o, size) THEN Corrupt
          ELSE result' = Decode(arrays[op.a].bytes, o, size) /\ UNCHANGED <<arrays, process>>

Store ==
  /\ op.do = "store"
  /\ IF op.a = Null THEN Exception
     ELSE LET size == arrayTypeSize(arrays[op.a].type)
              o == op.i * Stride(arrays[op.a].type) IN
          IF OutOfBounds(op.a, op.i) THEN Exception
          ELSE IF ~InBlock(op.a, o, size) THEN Corrupt
          ELSE arrays' = [arrays EXCEPT ![op.a].bytes = Encode(@, o, size, op.v)] /\ UNCHANGED <<result, process>>

ArrayLength ==
  /\ op.do = "length"
  /\ IF op.a = Null THEN Exception ELSE result' = arrays[op.a].len /\ UNCHANGED <<arrays, process>>

---------------------------------------------------------------------------
(* copyArray of java.lang.JVKernel. *)

Refuses(s, bs, d, bd, n) ==
  \/ n = 0 \/ arrays[s].type # arrays[d].type
  \/ ToUint(ToUint(bs) + ToUint(n)) > ToUint(arrays[s].len)
  \/ ToUint(ToUint(bd) + ToUint(n)) > ToUint(arrays[d].len)
\* memcpy, which goes through the bytes in either order: what it has copied onto the bytes
\* that are still to be copied, it copies again.
Upwards(s, from, d, to, n, k) == from + (IF s = d /\ from < to THEN ((k - 1) % (to - from)) + 1 ELSE k)
Downwards(s, from, d, to, n, k) == from + (IF s = d /\ from > to THEN n - ((n - k) % (from - to)) ELSE k)
Memcpy(s, from, d, to, n) ==
  \E up \in BOOLEAN :
    arrays' = [arrays EXCEPT ![d].bytes = [b \in DOMAIN @ |->
      LET k == b - to IN
      IF k \notin 1 .. n THEN @[b]
      ELSE arrays[s].bytes[IF up THEN Upwards(s, from, d, to, n, k) ELSE Downwards(s, from, d, to, n, k)]]]

jCopyArray ==
  /\ op.do = "copy"
  /\ IF Null \in {op.s, op.d} THEN Exception
     ELSE IF Refuses(op.s, op.bs, op.d, op.bd, op.n) THEN result' = 0 /\ UNCHANGED <<arrays, process>>
     ELSE LET size == arrayTypeSize(arrays[op.s].type)
              from == ToUint(size * ToUint(op.bs))
              to == ToUint(size * ToUint(op.bd))
              bytes == ToUint(size * ToUint(op.n)) IN
          IF bytes > 0 /\ ~(InBlock(op.s, from, bytes) /\ InBlock(op.d, to, bytes)) THEN Corrupt
          ELSE Memcpy(op.s, from, op.d, to, bytes) /\ result' = 1 /\ UNCHANGED process

---------------------------------------------------------------------------
(* A program executes instructions on the arrays it has. *)
Instructions(known, accessible) ==
  [do : {"create"}, type : Types, n : Lengths]
    \cup [do : {"load"}, a : accessible, i : Indices] \cup [do : {"store"}, a : accessible, i : Indices, v : Stored]
    \cup [do : {"length"}, a : known]
    \cup [do : {"copy"}, s : known, d : known, bs : Starts, bd : Starts, n : Counts]
Accessible == {a \in DOMAIN arrays : arrays[a].type \notin {"double", "long"}}
FetchArrayOp ==
  /\ op = Idle /\ op' \in Instructions(DOMAIN arrays \cup {Null}, Accessible \cup {Null}) /\ result' = 0
  /\ UNCHANGED <<arrays, process>>

ArraysInit == op = Idle /\ arrays = << >> /\ result = 0 /\ process = "runs"
ArraysNext ==
  /\ process = "runs"
  /\ \/ FetchArrayOp
     \/ op # Idle /\ op' = Idle /\ (createArray \/ Load \/ Store \/ ArrayLength \/ jCopyArray)
ArraysSpec == ArraysInit /\ [][ArraysNext]_arrayVars

---------------------------------------------------------------------------
(* The types of the blocks, and what the header says of an array that was  *)
(* asked for with a length that 32 bits can hold the size of: the block    *)
(* has room for all its elements.                                          *)
Promised(t, n) == n >= 0 /\ Header + arrayTypeSize(t) * n <= Word - 4
ArraysTypeOK ==
  /\ process \in {"runs", "over", "corrupt"}
  /\ \A a \in DOMAIN arrays :
       /\ arrays[a].type \in Types /\ arrays[a].bytes \in Seq(0 .. Byte - 1)
       /\ Promised(arrays[a].type, arrays[a].len) =>
            arrays[a].len * arrayTypeSize(arrays[a].type) <= Len(arrays[a].bytes)

(* Arrays are the arrays of JArrayValues: an access changes or returns the *)
(* one element it names and no other memory, and a copy is made where it   *)
(* was asked for or refused, unless a length was negative or beyond what   *)
(* 32 bits can hold the size of, or a copy starts before the array.        *)
Sound == {a \in DOMAIN arrays : Promised(arrays[a].type, arrays[a].len)}
V == INSTANCE JArrayValues WITH
  Ops <- Instructions(Ref \cup {Null}, Ref \cup {Null}),
  MaxLength <- [t \in Types |-> (Word - 4 - Header) \div arrayTypeSize(t)],
  Width <- [t \in Types |-> Power[arrayTypeSize(t)]],
  types <- [a \in DOMAIN arrays |-> arrays[a].type],
  values <- [a \in Sound |->
    [i \in 1 .. arrays[a].len |->
       Decode(arrays[a].bytes, (i - 1) * arrayTypeSize(arrays[a].type), arrayTypeSize(arrays[a].type))]]
KeepsValues == V!ValuesSpec
=============================================================================
