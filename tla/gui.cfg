CONSTANTS
  Sizes = {z1, z2}
  StartSize = z1
  MaxSessions = 1
  MaxOutput = 2
  MaxQueue = 1
SPECIFICATION Spec
INVARIANTS OutputShown GridFollowsPty
PROPERTIES LeftSessionsEnd QueriesAnswered
CHECK_DEADLOCK FALSE
