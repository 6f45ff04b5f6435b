SPECIFICATION PartsSpec
CONSTANTS
  Files <- MCFiles
  Registered <- MCRegistered
  MaxPairs = 5
  MaxKey = 3
  Switches <- MCSwitches
  Junk = 7777
  a1 = a1
  a2 = a2
  Ref = {a1, a2}
  Null = Null
  Idle = Idle
  VarSize = 4
  Word = 64
  Byte = 2
  Types = {"short", "int"}
  Lengths <- MCLengths
  Indices <- MCIndices
  Stored <- MCStored
  Starts <- MCStarts
  Counts <- MCCounts
INVARIANTS
  FileTypeOK
  ParsesRight
  SwitchTypeOK
  JumpsRight
  ArraysTypeOK
PROPERTIES
  SwitchEnds
  KeepsValues
CHECK_DEADLOCK FALSE
