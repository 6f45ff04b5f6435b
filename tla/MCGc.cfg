SPECIFICATION Spec
CONSTANTS
  HeapSize = 4
  NoClass = NoClass
  ObjectClass = ObjectClass
  Node = Node
  Classes = {ObjectClass, Node}
  MaxFields = 1
  Fields <- StaticsLastFields
  MaxCalls = 10
  StaticValues = {0}
  ExStacks <- NoneOrFirst
  ThStacks <- OneWord
INVARIANTS
  TypeOK
  SparesAccessible
  ReclaimsGarbage
  MarksClear
  CrashNeedsElementCycle
  MarkInvariant
CHECK_DEADLOCK FALSE
