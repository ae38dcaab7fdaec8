SPECIFICATION CtxSpec
CONSTANTS
  Boots <- InterruptBoots
  Chars = {97}
  Garbage = {}
  OtherAlerts <- NoOtherDevice
  MaxInput = 1
CHECK_DEADLOCK FALSE
PROPERTY StackPointerRestored
