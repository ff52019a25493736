CONSTANTS
  Committed = TRUE
  DiesIn = {"found", "migrate", "sealed", "flushed", "resume", "retire", "settle"}
  Durability = {TRUE, FALSE}
  MaxCrashes = 5
SPECIFICATION Spec
INVARIANTS TypeOK ServesLatest OnlyForksFail
PROPERTIES ForkKept Retired
CHECK_DEADLOCK FALSE
