CONSTANTS
  Requests = {r1, r2, r3}
  Connections = {r1}
  Upgrades = {r2}
  Ids = {1, 2, 3}
  FaultSets = {{"upgrade"}, {"idle", "silent", "join", "stop"}, {"idle", "silent", "drain", "join", "stop"}}
SPECIFICATION Spec
INVARIANTS TypeOK StoreHasOneOwner LockCoversStation VacancyIsVacant HubOutlivesStations
PROPERTIES NothingBehindSnapshot Answered Stops
