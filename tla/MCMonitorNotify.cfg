SPECIFICATION MonitorFairSpec
CONSTANTS
  main = main
  t1 = t1
  o1 = o1
  o2 = o2
  n1 = n1
  n2 = n2
  Main = main
  None = None
  Thread = {main, t1}
  Obj = {o1}
  Node = {n1, n2}
  Program <- MCNotify
  MaxDepth = 1
  MaxStops = 0
PROPERTIES
  NotifyWakes
CHECK_DEADLOCK FALSE
