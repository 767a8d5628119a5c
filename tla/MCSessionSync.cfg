SPECIFICATION Spec
CONSTANTS
  Jobs = {j1, j2}
  None = None
  MaxPos = 2
  MaxPrevent = 0
  Orderly = FALSE
  Bursts = {"initial", "later"}
  Interruptions = TRUE
CHECK_DEADLOCK FALSE
SYMMETRY JobSymmetry
INVARIANTS NoSyncGap PassesCovered
