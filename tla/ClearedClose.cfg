SPECIFICATION FairSpec
CONSTANTS
  SocketKinds = {"ws"}
  LuaCalls = {"open", "close", "write", "clearQueue"}
  AfterClose = {"clearQueue"}
  Outcomes = {"ok"}
  MaxOpens = 2
  MaxWrites = 2
  MaxInbox = 1
PROPERTY
  CloseCompletes
