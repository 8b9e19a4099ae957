SPECIFICATION Spec
CONSTANTS
  SocketKinds = {"ws"}
  LuaCalls = {"open", "close", "write"}
  AfterClose = {}
  Outcomes = {"ok"}
  MaxOpens = 2
  MaxWrites = 2
  MaxInbox = 1
PROPERTY
  CloseFlushesQueue
