CONSTANTS
  Stations = {a, b}
  Starter = a
  Performers = {b}
  Attempts = 1
  Events = 6
  MaxRank = 1
  Restarting = {}
  MaxEpoch = 1
  Asking = {}
  Choices = {"Accepted"}
  Scenarios = {{"presume"}}
SPECIFICATION Spec
INVARIANT ReturnsAreAcceptable
CHECK_DEADLOCK FALSE
