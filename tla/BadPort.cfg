SPECIFICATION HandshakeSpec
CONSTANTS
  SocketKinds = {"ws", "wss"}
  LuaCalls = {}
  AfterClose = {}
  Outcomes = {"ok", "error"}
  MaxOpens = 2
  MaxWrites = 0
  MaxInbox = 1
  MaxUrl = 18
  Urls <- MCUrls
  Opened <- MCOpened
  CookieNames <- MCNames
  CookieValues <- MCCookieValues
  HeaderNames <- MCHeaderNames
  HeaderValues <- MCHeaderValues
INVARIANT
  BadUrlIsReported
CHECK_DEADLOCK FALSE
