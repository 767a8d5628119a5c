SPECIFICATION Spec
CONSTANTS
  Users = {u1, u2}
  Ops = {o1, o2, o3, o4}
  None = None
  MaxPos = 1
  MaxBlocks = 0
  Allowed = {"failure", "cancel", "chunk", "join", "reset", "leave"}
CHECK_DEADLOCK FALSE
SYMMETRY Symmetry
INVARIANTS OperationsAsked NextWaitsForCurrent
