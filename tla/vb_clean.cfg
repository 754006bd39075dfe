SPECIFICATION Spec
CONSTANTS
  short = short
  long = long
  Lines <- MCLines
  Size <- MCSize
  CacheCap = 5
  IndexCap = 9
  Radix = 4
  MaxFile = 40
  RamCapacity = 2
  SyncEvery = 3
  RebuildCap = 3
  Faults = {}
  MaxLines = 7
  MaxOpens = 2
CHECK_DEADLOCK FALSE
INVARIANTS RangesMatchLines SearchComplete
PROPERTIES IsScrollback
