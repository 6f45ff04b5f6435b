SPECIFICATION ClassFairSpec
CONSTANTS
  None = None
  Object = Object
  Base = Base
  Derived = Derived
  Leaf = Leaf
  Shape = Shape
  Round = Round
  Other = Other
  Gone = Gone
  Name = {Object, Base, Derived, Leaf, Shape, Round, Other, Gone}
  File <- MCFile
  Uses <- MCUses
  Preloaded <- MCPreloaded
  MaxFailures = 1
INVARIANTS
  ClassTypeOK
  LoadedOnce
  GivenOutComplete
  SuperFirst
  MethodsRight
  CastsSound
PROPERTY
  LoadsEnd
CHECK_DEADLOCK FALSE
