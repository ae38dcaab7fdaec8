SPECIFICATION SessionSpec
CONSTANTS
  Boots <- CommandBoots
  Chars = {97}
  Garbage = {}
  OtherAlerts <- NoOtherDevice
  MaxInput = 1
  Lines <- CommandLines
  Files <- CommandFiles
  MaxLines = 5
CHECK_DEADLOCK FALSE
INVARIANT SessionTypeOK
PROPERTIES ClockStaysOff KeyKept
