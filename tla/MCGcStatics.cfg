SPECIFICATION Spec
CONSTANTS
  HeapSize = 4
  NoClass = NoClass
  ObjectClass = ObjectClass
  Node = Node
  Classes = {ObjectClass, Node}
  MaxFields = 1
  Fields <- StaticOnlyFields
  MaxCalls = 10
  StaticValues = {0, 3}
  ExStacks <- NoneOrFirst
  ThStacks <- OneWord
INVARIANT
  SparesStatics
CHECK_DEADLOCK FALSE
