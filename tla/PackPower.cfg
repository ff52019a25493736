CONSTANTS
  Objects = {1, 2}
  Salts = {1, 2}
  MaxSeq = 3
  MaxGen = 1
  MaxLen = 4
  Readers = {r1}
  CheckpointEvery = 2
  Sources = {TRUE, FALSE}
  SourceSeq = 1
  Restarts = FALSE
  PowerCuts = TRUE
  RemovalFails = FALSE
  EntriesDurable = TRUE
  FlushDropsPages = FALSE
SPECIFICATION Spec
CONSTRAINT FoundedStopsEarlier
INVARIANTS TypeOK NeverBricked TableReadable ManifestComplete BookkeepingAgrees PublishedIsDurable
PROPERTIES ImplementsStore
