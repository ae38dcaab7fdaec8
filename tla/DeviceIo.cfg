SPECIFICATION Spec
CONSTANTS
  f1 = f1
  f2 = f2
  File <- Files
  Descriptors <- OneOrTwo
  Capacity = 1
  MaxFailures = 1
  MaxUnread = 2
CHECK_DEADLOCK FALSE
INVARIANTS TypeOK TerminalRestored PollNeverWaits
PROPERTIES LeftAsFound KeysStayInRun WriteReturns
