SPECIFICATION Spec
CONSTANTS
  UINT8_MAX = 3
  Vec <- MCVecTop
  Priority = {1, 2}
  Garbage = {3}
PROPERTY EntryPerVector
