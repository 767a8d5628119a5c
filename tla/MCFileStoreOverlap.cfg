SPECIFICATION FairSpec
CONSTANTS
  Rooms = {r1}
  MaxPos = 2
  Outboxes = {{}, {1}}
  Absent = Absent
  Overlapping = TRUE
  CrashInWipe = FALSE
INVARIANTS DurableAtRest
PROPERTIES CommitsAcceptedAgain
