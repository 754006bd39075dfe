SPECIFICATION Spec
CONSTANTS
  StartTabs = 1
  Widths = {9}
  StartWidth = 9
  Breaks = FALSE
  Keys = {"new", "close"}
  MaxSessions = 3
  MaxData = 2
  MaxCommands = 1
  MaxResizes = 0
CHECK_DEADLOCK FALSE
INVARIANTS EventsReachTheirTab OutputInOrder
