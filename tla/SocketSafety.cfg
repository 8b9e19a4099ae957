SPECIFICATION Spec
CONSTANTS
  SocketKinds = {"ws", "wss"}
  LuaCalls = {"open", "close", "closeNow", "write", "clearQueue"}
  AfterClose = {"write", "clearQueue"}
  Outcomes = {"ok", "closed", "error", "partial"}
  MaxOpens = 2
  MaxWrites = 3
  MaxInbox = 2
INVARIANTS
  TypeOK
  WritingMatchesOps
  NoOverlap
  ClosedIsClean
  NeverOrphaned
  SentInOrder
  CloseAfterFlush
  MarkOnlyWhileRequested
  EventOrder
  EstablishedIsIsolated
PROPERTIES
  NothingLost
  ImplementsLifecycle
CHECK_DEADLOCK FALSE
