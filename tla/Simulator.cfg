SPECIFICATION CtxSpec
CONSTANTS
  Boots <- MachineBoots
  Chars = {97}
  Garbage = {255}
  OtherAlerts <- LowAndHighDevices
  MaxInput = 4
CHECK_DEADLOCK FALSE
INVARIANTS TypeOK ExceptionServedInTick NoPriorityInversion
PROPERTIES UserModeConfined ReturnsToInterrupted StoppedForGood
