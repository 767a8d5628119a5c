SPECIFICATION Spec
CONSTANTS
  Keys = {k1}
  FirstKeys = {k1}
  Refused = {}
  MaxCount = 1
  MaxVersion = 2
  MaxTimers = 2
  MaxRequests = 2
  MaxCalls = 3
  MayFail = {}
  Orderly = TRUE
CHECK_DEADLOCK FALSE
INVARIANT WillBackUpWaits
