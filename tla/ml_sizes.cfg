SPECIFICATION Spec
CONSTANTS
  StartTabs = 1
  Widths = {6, 9}
  StartWidth = 9
  Breaks = FALSE
  Keys = {"new", "switch", "split", "focus", "close"}
  MaxSessions = 2
  MaxData = 1
  MaxCommands = 1
  MaxResizes = 2
CHECK_DEADLOCK FALSE
INVARIANTS TypeOK ActiveIsOpen GridMatchesPty PanesFit
PROPERTIES ChangesAreDrawn
