SPECIFICATION Spec
CONSTANTS
  Rooms = {r1, r2}
  MaxPos = 3
  Outboxes = {{1}}
  Absent = Absent
  Overlapping = FALSE
  CrashInWipe = FALSE
SYMMETRY RoomSymmetry
INVARIANTS TypeOK NoEventLost NoGhostRoom
PROPERTIES BackupBeforeWrite
