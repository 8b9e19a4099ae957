SPECIFICATION Spec
CONSTANTS
  Sockets = {a}
  None = None
  Outcomes = {"ok", "closed"}
  SlowLookups = TRUE
  MaxOpens = 1
  MaxInbox = 1
INVARIANT
  NoUseAfterFree
