CONSTANTS
  Objects = {1}
  Salts = {1, 2}
  MaxSeq = 3
  MaxGen = 0
  MaxLen = 3
  Readers = {r1}
  CheckpointEvery = 2
  Sources = {FALSE}
  SourceSeq = 0
  Restarts = TRUE
  PowerCuts = TRUE
  RemovalFails = FALSE
  EntriesDurable = TRUE
  FlushDropsPages = FALSE
SPECIFICATION Spec
INVARIANT AckedSurvives
