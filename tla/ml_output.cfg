SPECIFICATION FairSpec
CONSTANTS
  StartTabs = 2
  Widths = {9}
  StartWidth = 9
  Breaks = TRUE
  Keys = {"switch", "jump", "close", "type", "quit"}
  MaxSessions = 2
  MaxData = 2
  MaxCommands = 2
  MaxResizes = 0
CHECK_DEADLOCK FALSE
INVARIANTS OutputComplete NoDeadTab
PROPERTIES EndedSessionsLeave ClosedTabsDisconnect
