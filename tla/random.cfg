SPECIFICATION FairSpec
CONSTANTS
  Chunks = 3
  HashWords = 2
  Times = {0, 1, 4}
  Mouse <- Positions
  MaxNow = 5
CHECK_DEADLOCK FALSE
INVARIANTS WaitsWholeTime EveryWordMixed SeedKept
PROPERTIES Returns
