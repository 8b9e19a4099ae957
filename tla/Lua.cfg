SPECIFICATION FairSpec
CONSTANTS
  Sockets = {a, b}
  None = None
  Outcomes = {"ok", "closed"}
  SlowLookups = FALSE
  MaxOpens = 3
  MaxInbox = 1
INVARIANTS
  TypeOK
  NoUseAfterFree
  EventsKeepTable
  CollectedIsIdle
  EntriesStayValid
  NoneOutlivesContext
PROPERTIES
  EventsDelivered
  ForgottenIsDeleted
  ImplementsLifecycle
