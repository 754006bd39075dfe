SPECIFICATION Spec
CONSTANTS
  short = short
  long = long
  Lines <- MCLines
  Size <- MCSize
  CacheCap = 5
  IndexCap = 6
  Radix = 100
  MaxFile = 40
  RamCapacity = 1
  SyncEvery = 2
  RebuildCap = 9
  Faults = {"kill", "io"}
  MaxLines = 4
  MaxOpens = 2
CHECK_DEADLOCK FALSE
INVARIANTS NewestLinesReadable
