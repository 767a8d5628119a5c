SPECIFICATION FairSpec
CONSTANTS
  Devices = {d1, d2}
  MaxMsg = 2
  MaxSession = 4
  MaxEvents = 3
  RotationPeriodMsgs = 100
INVARIANTS TypeOK NoIndexReuse NoLeak Decryptable
PROPERTY EncryptionEnds
CHECK_DEADLOCK FALSE
