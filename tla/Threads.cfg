SPECIFICATION FairSpec
CONSTANTS
  Outcomes = {"ok", "closed", "error"}
  Rounds = 2
  MaxWrites = 3
  MaxInbox = 1
INVARIANTS
  OneDisconnect
  EndsDisconnected
  OneWriteAtATime
  QueueAttended
  SentInOrder
PROPERTIES
  ThreadsEnd
CHECK_DEADLOCK FALSE
