SPECIFICATION Spec
CONSTANTS
  Keys = {k1, k2, k3}
  FirstKeys = {k1, k2}
  Refused = {k2}
  MaxCount = 2
  MaxVersion = 2
  MaxTimers = 2
  MaxRequests = 2
  MaxCalls = 2
  MayFail = {"send"}
  Orderly = TRUE
CHECK_DEADLOCK FALSE
INVARIANTS TypeOK NoKeyForgotten ReadyIsUpToDate SentToItsVersion
