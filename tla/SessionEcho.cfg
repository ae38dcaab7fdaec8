SPECIFICATION FairSessionSpec
CONSTANTS
  Boots <- EchoBoots
  Chars = {233, 113}
  Garbage = {}
  OtherAlerts <- PeerDevice
  MaxInput = 2
  Lines <- EchoLines
  Files <- NoFiles
  MaxLines = 5
CHECK_DEADLOCK FALSE
INVARIANT EchoInOrder
PROPERTIES DeviceUseSpec StepReturns RunShowsKeys
