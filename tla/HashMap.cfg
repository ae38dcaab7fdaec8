SPECIFICATION Spec
CONSTANTS
  v1 = v1
  v2 = v2
  Key <- Keys
  Value <- Values
  Hash <- Hashes
  Sizes <- SmallSizes
  LoadNumerator = 3
  LoadDenominator = 4
  MaxElements = 7
INVARIANTS TypeOK OnePlace NeverPastGrowth IteratesOnce FreesEverything FindsLastSet
CHECK_DEADLOCK FALSE
