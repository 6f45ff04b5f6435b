SPECIFICATION HeapSpec
CONSTANTS
  HeapSize = 4
  NoClass = NoClass
  ObjectClass = ObjectClass
  MainClass = MainClass
  Node = Node
  StringClass = Node
  Classes = {ObjectClass, MainClass, Node}
  Fields <- MCInherited
  MaxCalls = 12
  BootClasses <- MCBoot
  NumArgs = 0
  FrameCells = 2
  StaleWords = {3}
  StackSize = 16
  Supers <- MCSupers
  NewClasses = {Node}
  Arrays <- NoArrays
  Program = {"new", "move", "putfield", "getfield", "invoke", "halt"}
INVARIANTS
  HeapClosed
  ProgramRefsAlive
PROPERTIES
  KeepsObjects
CHECK_DEADLOCK FALSE
