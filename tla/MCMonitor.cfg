SPECIFICATION MonitorSpec
CONSTANTS
  main = main
  t1 = t1
  o1 = o1
  o2 = o2
  n1 = n1
  n2 = n2
  Main = main
  None = None
  Thread = {main, t1}
  Obj = {o1, o2}
  Node = {n1, n2}
  Program <- MCPair
  MaxDepth = 2
  MaxStops = 2
CONSTRAINT MCBound
INVARIANTS
  MonitorTypeOK
  HoldsWhatItEntered
  OwnerKnown
  PausedQueued
  OnlyNestedWaitsHang
  StoppedLeaves
CHECK_DEADLOCK FALSE
