CONSTANTS
  Stations = {a, b}
  Starter = a
  Performers = {b}
  Attempts = 2
  Events = 6
  MaxRank = 3
  Restarting = {b}
  MaxEpoch = 2
  Asking = {a, b}
  Choices = {"Accepted"}
  Scenarios = {{"cancelAway", "retry", "spawn"}, {"cancelHere", "retry", "spawn"}, {"presume", "spawn"}, {"stage"}}
SPECIFICATION Spec
INVARIANTS TypeOK AcceptedOnce ReturnedOnce NeverReinvoked WorkersHaveLiveAttempts CausallyClosed
PROPERTIES LeasesEnd CancelDelivered
CHECK_DEADLOCK FALSE
