SPECIFICATION FairSpec
CONSTANTS
  SocketKinds = {"ws", "wss_noverify"}
  LuaCalls = {"open", "close", "closeNow", "write", "clearQueue"}
  AfterClose = {}
  Outcomes = {"ok", "closed", "error"}
  MaxOpens = 2
  MaxWrites = 2
  MaxInbox = 1
INVARIANTS
  WritesWaitForConnection
PROPERTIES
  CloseCompletes
  AttemptEnds
  QueueMoves
