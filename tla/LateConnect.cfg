SPECIFICATION Spec
CONSTANTS
  Outcomes = {"ok"}
  Rounds = 0
  MaxWrites = 0
  MaxInbox = 1
INVARIANT
  DefinitelyClosed
CHECK_DEADLOCK FALSE
