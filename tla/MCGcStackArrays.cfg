SPECIFICATION Spec
CONSTANTS
  HeapSize = 4
  NoClass = NoClass
  ObjectClass = ObjectClass
  Node = Node
  Classes = {ObjectClass, Node}
  MaxFields = 1
  Fields <- StaticsLastFields
  MaxCalls = 10
  StaticValues = {0}
  ExStacks <- NoneOrFirst
  ThStacks <- OneWord
INVARIANT
  SparesSimpleArrays
CHECK_DEADLOCK FALSE
