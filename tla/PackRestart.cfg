CONSTANTS
  Objects = {1, 2}
  Salts = {1, 2}
  MaxSeq = 2
  MaxGen = 1
  MaxLen = 3
  Readers = {r1}
  CheckpointEvery = 2
  Sources = {FALSE}
  SourceSeq = 0
  Restarts = TRUE
  PowerCuts = FALSE
  RemovalFails = TRUE
  EntriesDurable = TRUE
  FlushDropsPages = FALSE
SPECIFICATION Spec
INVARIANTS BookkeepingAgrees ViewsReadable
PROPERTIES ImplementsStore AckMeansDurable ViewsStable SealedStays
