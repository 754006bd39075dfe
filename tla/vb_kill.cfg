SPECIFICATION Spec
CONSTANTS
  short = short
  long = long
  Lines <- MCLines
  Size <- MCSize
  CacheCap = 5
  IndexCap = 9
  Radix = 4
  MaxFile = 40
  RamCapacity = 1
  SyncEvery = 3
  RebuildCap = 9
  Faults = {"kill"}
  MaxLines = 5
  MaxOpens = 3
CHECK_DEADLOCK FALSE
INVARIANTS TypeOK LinesSplit IndexCovered
PROPERTIES LossBounded
