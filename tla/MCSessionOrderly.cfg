SPECIFICATION FairSpec
CONSTANTS
  Jobs = {j1, j2}
  None = None
  MaxPos = 3
  MaxPrevent = 1
  Orderly = TRUE
  Bursts = {"later"}
  Interruptions = FALSE
CHECK_DEADLOCK FALSE
INVARIANTS TypeOK OneSyncLoop PausedIsQuiet NotStuck
PROPERTIES ReadsTheStream SyncEnds
