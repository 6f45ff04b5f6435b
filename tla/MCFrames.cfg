SPECIFICATION FramesSpec
CONSTANTS
  main = main
  getter = getter
  native = native
  clinit = clinit
  e1 = e1
  e2 = e2
  gone = gone
  any = any
  Method = {main, getter, native, clinit}
  Code <- MCCode
  Main = main
  StaticInits = {clinit}
  Values = {e1}
  Exceptions = {e1}
  NotFound = {gone}
  AnyClass = any
  Program = {"const", "local", "stack", "operate", "branch", "jsr", "error", "invoke", "native", "throw"}
  NumArgs = {2, 20}
  StackSize = 21
INVARIANTS
  FramesTypeOK
  FramesAdjacent
  OverrunNeedsCatch
  ShortTablesSearched
PROPERTY
  ImplementsCalls
CHECK_DEADLOCK FALSE
