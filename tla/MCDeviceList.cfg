SPECIFICATION FairSpec
CONSTANTS
  Users = {u1, u2}
  Ops = {o1, o2}
  None = None
  MaxPos = 3
  MaxBlocks = 0
  Allowed = {"unreachable", "crash"}
CHECK_DEADLOCK FALSE
INVARIANTS TypeOK Fresh InProgressHasQuery
PROPERTY DownloadsEnd
