SPECIFICATION Spec
CONSTANTS
  SocketKinds = {"ws"}
  LuaCalls = {"open", "closeNow"}
  AfterClose = {}
  Outcomes = {"ok", "closed", "partial"}
  MaxOpens = 2
  MaxWrites = 2
  MaxInbox = 1
INVARIANT
  MessagesFromOneConnection
