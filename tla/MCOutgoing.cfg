SPECIFICATION FairSpec
CONSTANTS
  MaxMsg = 3
  Texts = {"hello"}
  MaxEvents = 2
INVARIANTS TypeOK SentInOrder EchoesSettled
PROPERTY QueueMoves
CHECK_DEADLOCK FALSE
