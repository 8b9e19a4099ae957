SPECIFICATION HandshakeSpec
CONSTANTS
  SocketKinds = {"ws", "wss"}
  LuaCalls = {"open", "closeNow"}
  AfterClose = {}
  Outcomes = {"ok", "error"}
  MaxOpens = 2
  MaxWrites = 0
  MaxInbox = 1
  MaxUrl = 18
  Urls <- MCUrls
  Opened <- MCOpened
  CookieNames <- MCNames
  CookieValues <- MCCookieValues
  HeaderNames <- MCHeaderNames
  HeaderValues <- MCHeaderValues
INVARIANTS
  OpenedAsConfigured
  CookiesArrive
  SocketMatchesUrl
  PathResolved
CHECK_DEADLOCK FALSE
