CONSTANTS
  Committed = TRUE
  DiesIn = {"sealed"}
  Durability = {TRUE}
  MaxCrashes = 2
SPECIFICATION Spec
INVARIANTS OnlyForksRefused
CHECK_DEADLOCK FALSE
