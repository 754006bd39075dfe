SPECIFICATION Spec
CONSTANTS
  Chars = {"a"}
  Blank = "blank"
  Sizes <- MCSizes
  Args = {0, 2, 3}
  MaxHistory = 2
CHECK_DEADLOCK FALSE
INVARIANTS TypeOK OnlyStaleMarksPanic ScrollbackIsComplete
