SPECIFICATION SessionSpec
CONSTANTS
  Boots <- CommandBoots
  Chars = {97}
  Garbage = {}
  OtherAlerts <- NoOtherDevice
  MaxInput = 1
  Lines <- StepLines
  Files <- CommandFiles
  MaxLines = 3
CHECK_DEADLOCK FALSE
PROPERTY OnlyFailuresEndSession
