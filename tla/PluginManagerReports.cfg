SPECIFICATION Spec
CONSTANTS
  Name = {a, b}
  NumPaths <- OneOrTwo
CHECK_DEADLOCK FALSE
INVARIANT ReportsAreReal
