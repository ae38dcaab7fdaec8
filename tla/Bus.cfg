SPECIFICATION Spec
CONSTANTS
  d1 = d1
  d2 = d2
  d3 = d3
  MaxAddress = 4
  NoDevice = NoDevice
  Address <- Addresses
  Device <- Devices
  Listeners <- ListeningDevices
  Wanted <- RangesAndSeparates
  ATTACHMENT_SIZE_INIT = 2
  ATTACHMENT_SIZE_MULTIPLIER = 2
  Tickers <- ListeningDevices
  ON_INPUT_SIZE_INIT = 2
  ON_TICK_SIZE_INIT = 1
  SUBSCRIPTION_SIZE_MULTIPLIER = 2
CHECK_DEADLOCK FALSE
INVARIANTS TypeOK SortedAndDisjoint SearchFindsOwner
PROPERTY AddressMapSpec
