SPECIFICATION Spec
CONSTANTS
  Caller = a
  Callees = {b1, b2}
  Encrypted = TRUE
  MaxEvents = 1
INVARIANTS TypeOK OneTalks NoLateExpiry CallsResolve
CHECK_DEADLOCK FALSE
