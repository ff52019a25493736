CONSTANTS
  Committed = FALSE
  DiesIn = {}
  Durability = {TRUE}
  MaxCrashes = 1
SPECIFICATION Spec
INVARIANTS OnlyForksRefused
CHECK_DEADLOCK FALSE
