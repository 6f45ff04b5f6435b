SPECIFICATION FramesSpec
CONSTANTS
  main = main
  getter = getter
  native = native
  clinit = clinit
  e1 = e1
  e2 = e2
  gone = gone
  any = any
  Method = {main}
  Code <- MCLongTable
  Main = main
  StaticInits = {}
  Values = {e1, e2}
  Exceptions = {e1, e2}
  NotFound = {gone}
  AnyClass = any
  Program = {"const", "local", "stack", "operate", "branch", "jsr", "error", "throw"}
  NumArgs = {2}
  StackSize = 22
INVARIANT
  LeavesUnhandled
CHECK_DEADLOCK FALSE
