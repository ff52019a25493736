CONSTANTS
  Requests = {r1, r2}
  Connections = {r1}
  Upgrades = {r2}
  Ids = {1, 2, 3}
  FaultSets = {{"upgrade", "stop"}}
SPECIFICATION Spec
PROPERTY NothingBehindSnapshot
