CONSTANTS
  Objects = {1, 2}
  Metas = {2}
  CallerRoots = {{}, {1}}
  Deltas = {{}, {1}}
  Readers = {r1, r2}
  Pinners = {r1}
  MaxStore = 2
SPECIFICATION Spec
INVARIANTS TypeOK RequirementsSound LeasedRootsKept PinnedLiveKept ReadersCoherent
CHECK_DEADLOCK FALSE
