------------------------------- MODULE MCParts -------------------------------
(***************************************************************************)
(* A program that has its class parsed, executes a switch and then works   *)
(* on arrays: the three parts have no state in common, so any class file   *)
(* goes with one switch, and any switch with one class file.               *)
(***************************************************************************)
EXTENDS JFile, JSwitch, JArrays

CONSTANTS MaxPairs, MaxKey, a1, a2

partsVars == <<fileVars, switchVars, arrayVars>>

---------------------------------------------------------------------------
(* Class files: a pool of constants, fields and methods of every shape the *)
(* parser distinguishes.                                                   *)
Utf8(text) == [tag |-> "Utf8", text |-> text]
Const(tag, v) == [tag |-> tag, value |-> v]
None == [tag |-> "none"]
Pool ==
  <<Const("Long", 9), None, Utf8(<<"ConstantValue">>), Utf8(<<"Code">>), Utf8(<<"Exceptions">>), Utf8(<<"Other">>),
    Utf8(<<"f">>), Utf8(<<"<init>">>), Utf8(<<"(", ")", "V">>),
    Utf8(<<"(", "I", "[", "L", "Name", ";", "[", "[", "B", ")", "I">>), Utf8(<<"(", "J", ")", "V">>),
    Const("Integer", 70), Const("Class", 7), Const("Methodref", 0)>>
Pools == {Pool, Append(Pool, Const("MethodHandle", 1)), Pool \o <<Const("Double", 9), None>>}

Attr(kind, name) == [kind |-> kind, name |-> name]
Value == [value |-> 12] @@ Attr("ConstantValue", 3)
Deprecated == Attr("Deprecated", 6)
Table(kind, n) == [lines |-> n] @@ Attr(kind, 6)
Throwing(n) == [classes |-> [m \in 1 .. n |-> 13]] @@ Attr("Exceptions", 5)
TheCode(length, handlers, attributes) ==
  [maxStack |-> 2, maxLocals |-> 3, codeLength |-> length, handlers |-> handlers, attributes |-> attributes]
    @@ Attr("Code", 4)
Lines == <<Table("LineNumberTable", 2), Table("LineNumberTable", 0)>>

MCFields ==
  {[flags |-> flags, name |-> 7, descr |-> 7, attributes |-> as] :
     flags \in {{}, {"static"}}, as \in {<< >>, <<Value>>, <<Value, Deprecated>>, <<Deprecated, Value>>}}
Method(flags, name, as) ==
  [flags |-> flags, name |-> name, descr |-> 9, params |-> << >>, returns |-> FALSE, attributes |-> as]
MCMethods ==
  {Method({}, 8, <<TheCode(3, 0, Lines)>>), Method({"native"}, 7, << >>), Method({"abstract"}, 7, <<Throwing(1)>>),
   Method({}, 7, <<Deprecated>>), Method({}, 7, <<Throwing(1), TheCode(1, 0, << >>)>>),
   Method({}, 7, <<TheCode(1, 0, <<Table("LocalVariableTable", 1)>>)>>),
   [Method({}, 7, <<TheCode(4, 2, Lines), Throwing(2)>>) EXCEPT !.descr = 10, !.params = <<"I", "L", "B">>, !.returns = TRUE],
   [Method({}, 7, <<TheCode(4, 1, << >>)>>) EXCEPT !.descr = 11, !.params = <<"J">>]}
UpTo(n, S) == UNION {[1 .. m -> S] : m \in 0 .. n}
MCFile(pool, interfaces, fields, methods) ==
  [constants |-> pool, flags |-> {}, this |-> 13, super |-> 13, interfaces |-> interfaces,
   fields |-> fields, methods |-> methods, attributes |-> << >>]
AFile == MCFile(<<Utf8(<<"f">>), Const("Class", 1)>>, << >>, << >>, << >>)
MCFiles ==
  {AFile}
    \cup {MCFile(c, n, f, m) : c \in Pools, n \in {<< >>, <<13, 13>>}, f \in UpTo(1, MCFields), m \in UpTo(1, MCMethods)}
    \cup {MCFile(Pool, << >>, f, m) : f \in UpTo(2, MCFields), m \in UpTo(1, MCMethods)}
    \cup {MCFile(Pool, << >>, << >>, m) : m \in UpTo(2, MCMethods)}
MCRegistered == {<<<<"f">>, <<"(", ")", "V">>>>}

---------------------------------------------------------------------------
(* Every switch of a few keys, at every alignment.                         *)
Switch(o, n, key, words) == [op |-> o, start |-> n, key |-> key, words |-> words]
Keys == -MaxKey .. MaxKey
Tables == UNION {{t \in [1 .. n -> Keys] : \A m \in 1 .. n - 1 : t[m] < t[m + 1]} : n \in 0 .. MaxPairs}
\* Each case jumps to an offset of its own.
Pairs(t) == <<>> \o [n \in 1 .. 2 * Len(t) |-> IF n % 2 = 1 THEN t[(n + 1) \div 2] ELSE 100 + n]
Cases(lo, hi) == <<>> \o [n \in 1 .. hi - lo + 1 |-> 200 + n]
MCSwitches ==
  {Switch("lookupswitch", n, key, <<50, Len(t)>> \o Pairs(t)) :
     n \in 0 .. 3, key \in Keys, t \in Tables}
  \cup
  {Switch("tableswitch", n, key, <<50, lohi[1], lohi[2]>> \o Cases(lohi[1], lohi[2])) :
     n \in 0 .. 3, key \in Keys, lohi \in {lh \in Keys \X Keys : lh[1] <= lh[2]}}

---------------------------------------------------------------------------
(* Lengths, indexes and starts at the bounds of arrays and of the word.    *)
MCLengths == {-1, 3, 31}
MCIndices == {-1, 1, 3}
MCStored == {7}
MCStarts == {-16, 0, 1}
MCCounts == {0, 2, 17}

---------------------------------------------------------------------------
ASwitch == Switch("tableswitch", 0, 0, <<50, 0, 0, 201>>)
Over == stage \in {"parsed", "lost"}
PartsInit ==
  /\ SwitchInit /\ ArraysInit
  /\ file \in (IF sw = ASwitch THEN Files ELSE {AFile}) /\ FileStart
PartsNext ==
  \/ FileNext /\ UNCHANGED <<switchVars, arrayVars>>
  \/ Over /\ SwitchNext /\ UNCHANGED <<fileVars, arrayVars>>
  \/ Over /\ at = "done" /\ file = AFile /\ sw = ASwitch /\ ArraysNext /\ UNCHANGED <<fileVars, switchVars>>
PartsSpec ==
  PartsInit /\ [][PartsNext]_partsVars /\ WF_fileVars(FileNext) /\ WF_switchVars(SwitchNext)
=============================================================================
