SPECIFICATION HeapFairSpec
CONSTANTS
  HeapSize = 5
  NoClass = NoClass
  ObjectClass = ObjectClass
  MainClass = MainClass
  Node = Node
  StringClass = Node
  Classes = {ObjectClass, MainClass, Node}
  Fields <- MCFields
  MaxCalls = 12
  BootClasses <- MCBoot
  NumArgs = 1
  FrameCells = 1
  StaleWords = {4}
  StackSize = 9
  Supers <- NoSupers
  NewClasses = {Node}
  Arrays <- OneArrays
  Program = {"new", "newarray", "ldc", "multianewarray", "aastore", "static", "args", "overwrite"}
INVARIANTS
  HeapTypeOK
  NullReserved
PROPERTIES
  AllocationEnds
  CollectionEnds
CHECK_DEADLOCK FALSE
