SPECIFICATION Spec
CONSTANTS
  short = short
  long = long
  Lines <- MCLines
  Size <- MCSize
  CacheCap = 4
  IndexCap = 5
  Radix = 100
  MaxFile = 24
  Faults = {"kill", "power", "io"}
  MaxAppends = 3
  MaxOpens = 3
CHECK_DEADLOCK FALSE
INVARIANTS TypeOK LinesReadBack FlushedLinesSurvive
