SPECIFICATION Spec
CONSTANTS
  SocketKinds = {"ws"}
  LuaCalls = {"open", "close", "write"}
  AfterClose = {"write"}
  Outcomes = {"ok","error"}
  MaxOpens = 2
  MaxWrites = 2
  MaxInbox = 1
INVARIANT
  WritesWaitForConnection
