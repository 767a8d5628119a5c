SPECIFICATION Spec
CONSTANTS
  Feed <- MCFeed
  Limit = 1
  Chunks = {c1, c2}
  None = None
  MaxKills = 1
CHECK_DEADLOCK FALSE
CONSTRAINT Claimed
SYMMETRY ChunkSymmetry
INVARIANTS TypeOK NoSilentGap NoKeyLost
